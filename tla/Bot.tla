-------------------------------- MODULE Bot --------------------------------
(***************************************************************************)
(* The Telegram bot: a client registers, fills a cart and orders, in a     *)
(* dialogue whose state is a row of the table state.  A pool of workers    *)
(* takes updates from one channel, so two updates of a chat are handled at *)
(* the same time; the web page changes the same cart through the gateway.  *)
(*                                                                         *)
(* todo[h] is what is left of the handler that h runs: "handle" decides    *)
(* what it does, and every further step is one statement.                  *)
(***************************************************************************)
EXTENDS Cart, Sequences, FiniteSets

CONSTANTS
  Workers,       \* the bot's workers
  Requests,      \* goroutines of the gateway that serve the web page
  Inputs,        \* bound: what clients may send
  InitialKnown,  \* what is known of clients at the start
  Faults,        \* "db", "provider", "crash": what may go wrong
  MaxOrders,     \* bound: orders placed
  MaxAdded,      \* bound: adding stops when a chat has added that many
  MinCount       \* bound: and taking away, at that count of a row

\* What a client must tell before he may order.
Fields == {"language", "name", "phone"}

\* Buttons of the reply keyboards and other messages: "words" is any text that
\* is no button, "place" a location, "contact_card" a shared phone number.
Messages == {"start", "back", "menu", "cart", "languages", "contact",
             "pick_language", "clear", "confirm", "cancel", "delivery",
             "pickup", "cash", "online", "words", "place", "contact_card"}

\* Buttons under messages that the bot has sent.
Callbacks == {"add_to_cart", "back_to_menu", "cart_inc", "cart_dec",
              "cart_del", "cart_back"}

\* Messages that carry no text.
Wordless == {"place", "contact_card"}

States == {"show_main_menu", "waiting_change_language", "waiting_for_name",
           "waiting_for_phone", "get_cart", "category_selected",
           "product_selected", "select_delivery_type", "wait_address",
           "checkout_preview", "select_payment_method", "waiting_payment"}

\* Written for a moment only; no route is registered for them.
Passing == {"show_category", "show_cart"}

NoState == "none"     \* no row

Orders == 1 .. MaxOrders

Data == [deliveryType : {"", "DELIVERY", "PICKUP"}, located : BOOLEAN,
         order : 0 .. MaxOrders]

NoData == [deliveryType |-> "", located |-> FALSE, order |-> 0]

ASSUME InputsAssumption == Inputs \subseteq Messages \cup Callbacks
ASSUME InitialKnownAssumption == InitialKnown \subseteq SUBSET Fields
ASSUME MaxOrdersAssumption == MaxOrders \in Nat
ASSUME NoneAssumption == "none" \notin Chats \cup Products
ASSUME CountAssumption == MaxAdded \in Nat /\ MinCount \in Int

Handlers == Workers \cup Requests

VARIABLES
  known,      \* known[c]: the fields of the row of clients that are filled
  dialogue,   \* dialogue[c]: the row of state, its name and its data
  buttons,    \* buttons[c]: the kinds of inline keyboards the chat shows
  placed,     \* the orders the bot has created, in order
  todo, job,  \* the handlers that run: what is left, and their locals
  added,      \* history: how many of a product were ever added
  broken      \* history: a statement failed or the server crashed

botVars == <<carts, known, dialogue, buttons, placed, todo, job, added, broken>>

NoJob == [chat |-> "none", route |-> "", input |-> "", data |-> NoData,
          product |-> "none", count |-> 0, method |-> "", items |-> NoRows]

Idle(h) == todo[h] = <<>>

Chat(h) == job[h].chat

----------------------------------------------------------------------------
(* Steps of handlers                                                       *)

Do(s) == [do |-> s, state |-> "", data |-> NoData]

Set(s, d) == [do |-> "set", state |-> s, data |-> d]

\* UpdateState(s, nil).
SetNil(s) == [do |-> "set_nil", state |-> s, data |-> NoData]

\* UpdateState(s, keepData(ctx)).
Keep(s) == [do |-> "keep", state |-> s, data |-> NoData]

\* ShowMainMenu; the cart only decides which buttons are shown.
ShowMainMenu == Set("show_main_menu", NoData)

At(h, s) == ~Idle(h) /\ Head(todo[h]).do = s

ContinueUnreset(h, steps, j) ==
  /\ todo' = [todo EXCEPT ![h] = steps]
  /\ job' = [job EXCEPT ![h] = j]

\* What is left becomes steps, with locals j; the context of a handler that
\* returns is reset.
Continue(h, steps, j) ==
  /\ todo' = [todo EXCEPT ![h] = steps]
  /\ job' = [job EXCEPT ![h] = IF steps = <<>> THEN NoJob ELSE j]

Proceed(h) == Continue(h, Tail(todo[h]), job[h])

Return(h) == Continue(h, <<>>, job[h])

\* The decision is made: what was received is no longer needed.
Then(h, steps) ==
  Continue(h, steps, [job[h] EXCEPT !.route = "", !.input = ""])

----------------------------------------------------------------------------
(* Routing                                                                 *)

BotInit ==
  /\ CartInit
  /\ known \in [Chats -> InitialKnown]
  /\ dialogue = [c \in Chats |->
       [state |-> IF known[c] = Fields THEN "show_main_menu" ELSE NoState,
        data |-> NoData]]
  /\ buttons = [c \in Chats |-> {}]
  /\ placed = <<>>
  /\ todo = [h \in Handlers |-> <<>>]
  /\ job = [h \in Handlers |-> NoJob]
  /\ added = [c \in Chats |-> [p \in Products |-> 0]]
  /\ broken = FALSE

\* The keyboard that a callback button belongs to.
Keyboard(i) ==
  CASE i \in {"add_to_cart", "back_to_menu"}          -> "card"
    [] i \in {"cart_inc", "cart_dec", "cart_del"}     -> "items"
    [] i = "cart_back"                                -> "empty_cart"

\* handle: /start first, then the routes by state, callbacks in any state.
\* Updates without a route are dropped.
Receive(w, c, i, p, n) ==
  /\ Idle(w)
  /\ \/ i = "start"
     \/ i \in Messages /\ dialogue[c].state \in States
     \/ i \in Callbacks /\ Keyboard(i) \in buttons[c]
  /\ Continue(w, <<Do("handle")>>,
       [NoJob EXCEPT
          !.chat = c, !.input = i,
          !.route = IF i = "start" \/ i \in Callbacks THEN i
                    ELSE dialogue[c].state,
          !.product = p, !.count = n])
  /\ UNCHANGED <<carts, known, dialogue, buttons, placed, added, broken>>

\* The numbers a callback button carries: the card counts from one, the
\* buttons of the cart change a count by one.
CountOf(i, n) ==
  CASE i = "add_to_cart" -> n >= 1
    [] i = "cart_inc"    -> n = 1
    [] i = "cart_dec"    -> n = -1
    [] OTHER             -> n = 0

ProductOf(i, p) ==
  IF i \in {"add_to_cart", "cart_inc", "cart_dec", "cart_del"}
    THEN p \in Products ELSE p = "none"

Handling(w, route) == At(w, "handle") /\ job[w].route = route

\* What a handler of a message leaves alone when it decides.
Unmoved ==
  UNCHANGED <<carts, known, dialogue, buttons, placed, added, broken>>

Pressed(w) == job[w].input

\* AccountMw reads the row of clients, or inserts it when there is none.  Of
\* this row and the one of state a handler only uses one.
Account(w) == known[Chat(w)]

\* GetState: the handlers ignore its error and go on without data.
Reads(h) ==
  {dialogue[Chat(h)].data} \cup (IF "db" \in Faults THEN {NoData} ELSE {})

----------------------------------------------------------------------------
(* Registration and the main menu (commands/clients)                       *)

\* ShowMainMenu follows the handler's own UpdateState.
ToMainMenu == <<Set("show_main_menu", NoData), ShowMainMenu>>

RegisteredUnchecked(k) ==
  IF "language" \notin k THEN <<Set("waiting_change_language", NoData)>>
  ELSE IF "name" \notin k THEN <<Set("waiting_for_name", NoData)>>
  ELSE ToMainMenu

\* The first question that is open for a client of whom k is known (AskName,
\* RequestPhone), or the main menu.
Registered(k) ==
  IF "language" \notin k THEN <<Set("waiting_change_language", NoData)>>
  ELSE IF "name" \notin k THEN <<Set("waiting_for_name", NoData)>>
  ELSE IF "phone" \notin k THEN <<Set("waiting_for_phone", NoData)>>
  ELSE ToMainMenu

StartCommand(w) ==
  /\ Handling(w, "start")
  /\ Then(w, Registered(Account(w)))
  /\ Unmoved

ChangeLanguage(w) ==
  /\ Handling(w, "waiting_change_language")
  /\ Then(w, IF Pressed(w) = "pick_language"
               THEN <<Do("language")>>
                      \o Registered(Account(w) \cup {"language"})
               ELSE <<>>)
  /\ Unmoved

SaveName(w) ==
  /\ Handling(w, "waiting_for_name")
  /\ Then(w, IF Pressed(w) \notin Wordless
               THEN <<Do("name")>>
                      \o IF "phone" \in Account(w)
                            THEN ToMainMenu
                            ELSE <<Set("waiting_for_phone", NoData)>>
               ELSE <<>>)
  /\ Unmoved

\* The contact may be somebody else's.
ChangePhone(w) ==
  /\ Handling(w, "waiting_for_phone")
  /\ \/ /\ Pressed(w) = "contact_card"
        /\ Then(w, <<Do("phone")>> \o ToMainMenu)
     \/ Then(w, <<>>)
  /\ Unmoved

MainMenuHandler(w) ==
  /\ Handling(w, "show_main_menu")
  /\ Then(w,
       CASE Pressed(w) = "languages" ->
              <<SetNil("change_language"), Set("waiting_change_language", NoData)>>
         [] Pressed(w) = "contact" -> <<SetNil("contact"), ShowMainMenu>>
         [] Pressed(w) = "menu" ->
              <<Set("show_category", NoData), Set("category_selected", NoData)>>
         [] Pressed(w) = "cart" ->
              <<Set("show_cart", NoData), Do("show_cart_view")>>
         [] OTHER -> <<>>)
  /\ Unmoved

----------------------------------------------------------------------------
(* Categories, products and the cart (commands/product)                    *)

CategoryByProductMenu(w) ==
  /\ Handling(w, "category_selected")
  /\ Then(w, IF Pressed(w) = "back"
               THEN <<ShowMainMenu>>
               ELSE <<Set("product_selected", NoData)>>)
  /\ Unmoved

\* Other words name a product, whose card is sent if there is one.
ProductInfoHandler(w) ==
  /\ Handling(w, "product_selected")
  /\ \/ /\ Pressed(w) = "cart"
        /\ Then(w, <<Do("show_cart_view")>>)
        /\ Unmoved
     \/ /\ Pressed(w) = "back"
        /\ Then(w, <<Set("category_selected", NoData),
                     Set("category_selected", NoData)>>)
        /\ Unmoved
     \/ /\ Pressed(w) \notin {"cart", "back"}
        /\ Then(w, <<>>)
        /\ \E found \in SUBSET {"card"} :
             buttons' = [buttons EXCEPT ![Chat(w)] = @ \cup found]
        /\ UNCHANGED <<carts, known, dialogue, placed, added, broken>>

\* The route of get_cart in bot.go, and GetCartInfoHandler behind it.
CartMenu(w) ==
  /\ Handling(w, "get_cart")
  /\ \E st \in Reads(w) : Then(w,
       CASE Pressed(w) = "confirm" ->
              <<Set("select_delivery_type", st)>>
         [] Pressed(w) = "back" -> <<SetNil("show_main_menu"), ShowMainMenu>>
         [] Pressed(w) = "clear" ->
              <<SetNil("show_main_menu"), Do("clear"), ShowMainMenu>>
         [] OTHER -> <<>>)
  /\ Unmoved

\* After adding, the card is replaced by the list of products.
AddToCartCallback(w) ==
  /\ Handling(w, "add_to_cart")
  /\ Then(w, <<Do("upsert"), Set("product_selected", NoData)>>)
  /\ Unmoved

CategoryByProductMenuCallback(w) ==
  /\ Handling(w, "back_to_menu")
  /\ Then(w, <<Set("product_selected", NoData)>>)
  /\ Unmoved

CartQtyChangeCallback(w) ==
  /\ job[w].route \in {"cart_inc", "cart_dec"}
  /\ At(w, "handle")
  /\ Then(w, <<Do("upsert"), Do("look_changed")>>)
  /\ Unmoved

CartDeleteCallback(w) ==
  /\ Handling(w, "cart_del")
  /\ Then(w, <<Do("delete"), Do("look_deleted")>>)
  /\ Unmoved

CartBackCallback(w) ==
  /\ Handling(w, "cart_back")
  /\ Then(w, ToMainMenu)
  /\ Unmoved

----------------------------------------------------------------------------
(* Checkout (commands/order)                                               *)

\* The route of select_delivery_type in bot.go, and DeliveryTypeHandler.
DeliveryType(w) ==
  /\ Handling(w, "select_delivery_type")
  /\ \E st \in Reads(w) : Then(w,
       CASE Pressed(w) = "back" ->
              <<Set("get_cart", st), Do("show_cart_view")>>
         [] Pressed(w) = "delivery" ->
              <<Set("wait_address", [st EXCEPT !.deliveryType = "DELIVERY"])>>
         [] Pressed(w) = "pickup" ->
              <<Set("checkout_preview", [st EXCEPT !.deliveryType = "PICKUP"])>>
         [] OTHER -> <<>>)
  /\ Unmoved

\* Any words are an address; they lead on only when a location is stored.
\* A location may be outside the zones.
WaitAddressHandler(w) ==
  /\ Handling(w, "wait_address")
  /\ \E st \in Reads(w) :
       LET delivered == [st EXCEPT !.deliveryType = "DELIVERY"] IN
       \/ /\ Pressed(w) = "back"
          /\ Then(w, <<Set("select_delivery_type", st)>>)
       \/ /\ Pressed(w) = "place"
          /\ Then(w, <<Set("checkout_preview",
                           [delivered EXCEPT !.located = TRUE])>>)
       \/ /\ Pressed(w) \in Wordless
          /\ Then(w, <<>>)
       \/ /\ Pressed(w) \notin Wordless \cup {"back"}
          /\ Then(w, <<Set(IF st.located THEN "checkout_preview"
                                         ELSE "wait_address",
                           delivered)>>)
  /\ Unmoved

\* "back" reads the row to choose where to, and again for what it keeps.
CheckoutPreviewHandler(w) ==
  /\ Handling(w, "checkout_preview")
  /\ \E st \in Reads(w) : Then(w,
       CASE Pressed(w) = "cancel" -> ToMainMenu
         [] Pressed(w) = "back" ->
              <<Keep(IF st.deliveryType = "DELIVERY"
                       THEN "wait_address" ELSE "select_delivery_type")>>
         [] Pressed(w) = "confirm" -> <<Set("select_payment_method", st)>>
         [] OTHER -> <<>>)
  /\ Unmoved

\* SelectPaymentMethodHandler: the data is read once, here.
SelectPaymentMethod(w) ==
  /\ Handling(w, "select_payment_method")
  /\ \E st \in Reads(w) :
       CASE Pressed(w) = "back" -> Then(w, <<Set("checkout_preview", st)>>)
         [] Pressed(w) \in {"cash", "online"} ->
              Continue(w, <<Do("read_cart")>>,
                [NoJob EXCEPT !.chat = Chat(w), !.method = Pressed(w),
                              !.data = st])
         [] OTHER -> Then(w, <<>>)
  /\ Unmoved

\* No delivery type counts as DELIVERY.
ToDeliver(d) == d.deliveryType # "PICKUP"

ReadCart(w) ==
  /\ At(w, "read_cart")
  /\ Continue(w,
       IF carts[Chat(w)] = NoRows \/ (ToDeliver(job[w].data) /\ ~job[w].data.located)
         THEN <<>> ELSE <<Do("create")>>,
       [job[w] EXCEPT !.items = carts[Chat(w)]])
  /\ Unmoved

AcceptableUnchecked(items) == TRUE

\* Create refuses a quantity that is not positive.
Acceptable(items) == \A p \in DOMAIN items : items[p] > 0

AfterOrderUncleared(j, o) ==
  IF j.method = "cash" THEN <<SetNil("show_main_menu")>>
                       ELSE <<Set("waiting_payment", [NoData EXCEPT !.order = o])>>

AfterOrderKeepingData(j, o) ==
  IF j.method = "cash"
    THEN <<Do("clear"), SetNil("show_main_menu")>>
    ELSE <<Do("clear"), Keep("waiting_payment")>>

\* What the handler does once the order is stored and, when it is paid
\* online, has a link.
AfterOrder(j, o) ==
  IF j.method = "cash"
    THEN <<Do("clear"), SetNil("show_main_menu")>>
    ELSE <<Do("clear"), Set("waiting_payment", [NoData EXCEPT !.order = o])>>

\* order.Create up to its INSERT: it may refuse for other reasons, such as the
\* minimum sum.  For cash that is all of it.
CreateOrder(w) ==
  LET o == Len(placed) + 1 IN
  /\ At(w, "create")
  /\ \/ /\ Acceptable(job[w].items)
        /\ o \in Orders
        /\ placed' = Append(placed,
             [chat |-> Chat(w), items |-> job[w].items,
              method |-> job[w].method, delivered |-> ToDeliver(job[w].data),
              link |-> FALSE, paid |-> FALSE])
        /\ Continue(w,
             IF job[w].method = "cash" THEN AfterOrder(job[w], o)
                                       ELSE <<Do("link")>>,
             [job[w] EXCEPT !.data = [NoData EXCEPT !.order = o]])
     \/ Return(w) /\ UNCHANGED placed
  /\ UNCHANGED <<carts, known, dialogue, buttons, added, broken>>

\* The rest of Create: the provider gives a link, which GetByID reads back.
CreateLink(w) ==
  LET o == job[w].data.order IN
  /\ At(w, "link")
  /\ placed' = [placed EXCEPT ![o].link = TRUE]
  /\ Continue(w, AfterOrder(job[w], o), job[w])
  /\ UNCHANGED <<carts, known, dialogue, buttons, added, broken>>

\* Create fails after its INSERT: the client is told to try again, the order
\* stays.
NoLink(w) ==
  /\ "provider" \in Faults
  /\ At(w, "link")
  /\ Return(w)
  /\ broken' = TRUE
  /\ UNCHANGED <<carts, known, dialogue, buttons, placed, added>>

WaitingPaymentHandler(w) ==
  /\ Handling(w, "waiting_payment")
  /\ \E st \in Reads(w) : Then(w,
       CASE Pressed(w) = "back" -> <<Set("checkout_preview", st)>>
         [] Pressed(w) # "back" /\ st.order # 0 /\ placed[st.order].paid ->
              <<Do("clear"), SetNil("show_main_menu")>>
         [] OTHER -> <<>>)
  /\ Unmoved

\* Payme, Click or an operator.
Pay(o) ==
  /\ o \in DOMAIN placed
  /\ ~placed[o].paid
  /\ placed' = [placed EXCEPT ![o].paid = TRUE]
  /\ UNCHANGED <<carts, known, dialogue, buttons, todo, job, added, broken>>

----------------------------------------------------------------------------
(* The statements                                                          *)

\* UpdateState.
UpdateState(h) ==
  /\ At(h, "set")
  /\ dialogue' = [dialogue EXCEPT ![Chat(h)] =
       [state |-> Head(todo[h]).state, data |-> Head(todo[h]).data]]
  /\ Proceed(h)
  /\ UNCHANGED <<carts, known, buttons, placed, added, broken>>

\* A nil map reaches the statement as NULL, which the column refuses (NOT
\* NULL); the handlers ignore the error.
UpdateStateNil(h) ==
  /\ At(h, "set_nil")
  /\ Proceed(h)
  /\ Unmoved

KeepData(h) ==
  /\ At(h, "keep")
  /\ \E st \in Reads(h) :
       Continue(h, <<Set(Head(todo[h]).state, st)>> \o Tail(todo[h]), job[h])
  /\ Unmoved

\* UpdateLanguage, UpdateName, UpdatePhone.
Learn(h, field) ==
  /\ At(h, field)
  /\ known' = [known EXCEPT ![Chat(h)] = @ \cup {field}]
  /\ Proceed(h)
  /\ UNCHANGED <<carts, dialogue, buttons, placed, added, broken>>

\* buildCartView: an empty cart has one button, back.
CartKeyboard(rows) == IF rows = NoRows THEN "empty_cart" ELSE "items"

GetCartInfo(h) ==
  /\ At(h, "show_cart_view")
  /\ buttons' = [buttons EXCEPT ![Chat(h)] = @ \cup {CartKeyboard(carts[Chat(h)])}]
  /\ Continue(h, <<Set("get_cart", NoData)>> \o Tail(todo[h]), job[h])
  /\ UNCHANGED <<carts, known, dialogue, placed, added, broken>>

UpsertItem(h) ==
  LET c == Chat(h)  p == job[h].product  n == job[h].count IN
  /\ At(h, "upsert")
  /\ Upsert(c, p, n)
  /\ added' = [added EXCEPT ![c][p] = IF n > 0 THEN @ + n ELSE @]
  /\ Continue(h, <<Do("cleanup")>> \o Tail(todo[h]), job[h])
  /\ UNCHANGED <<known, dialogue, buttons, placed, broken>>

CleanupItem(h) ==
  /\ At(h, "cleanup")
  /\ Cleanup(Chat(h), job[h].product)
  /\ Proceed(h)
  /\ UNCHANGED <<known, dialogue, buttons, placed, added, broken>>

DeleteItem(h) ==
  /\ At(h, "delete")
  /\ Delete(Chat(h), job[h].product)
  /\ Proceed(h)
  /\ UNCHANGED <<known, dialogue, buttons, placed, added, broken>>

ClearCart(h) ==
  /\ At(h, "clear")
  /\ Clear(Chat(h))
  /\ Proceed(h)
  /\ UNCHANGED <<known, dialogue, buttons, placed, added, broken>>

\* After a change of the cart: an empty one leads back to the main menu, any
\* other is shown in the same message.
LookAtCart(h) ==
  /\ At(h, "look_changed")
  /\ Continue(h, IF carts[Chat(h)] = NoRows
                   THEN <<SetNil("show_main_menu"), ShowMainMenu>> ELSE <<>>,
              job[h])
  /\ Unmoved

\* The same after a deletion, where the cart is read again to be shown.
LookAfterDelete(h) ==
  /\ At(h, "look_deleted")
  /\ Continue(h, IF carts[Chat(h)] = NoRows
                   THEN <<ShowMainMenu>> ELSE <<Do("refresh")>>,
              job[h])
  /\ Unmoved

RefreshCartMessage(h) ==
  /\ At(h, "refresh")
  /\ buttons' = [buttons EXCEPT ![Chat(h)] = @ \cup {CartKeyboard(carts[Chat(h)])}]
  /\ Return(h)
  /\ UNCHANGED <<carts, known, dialogue, placed, added, broken>>

\* The bounds on changes of a count, when they are asked for.
MayChange(c, p, n) ==
  /\ n > 0 => added[c][p] + n <= MaxAdded
  /\ n < 0 => Count(carts[c], p) > MinCount

\* CreateCart, DeleteCart and ClearCart of the gateway: any client's cart.
WebCart(r, c, p, n) ==
  /\ Idle(r)
  /\ MayChange(c, p, n)
  /\ \E s \in {"upsert", "delete", "clear"} :
       Continue(r, <<Do(s)>>,
                [NoJob EXCEPT !.chat = c, !.product = p, !.count = n])
  /\ Unmoved

----------------------------------------------------------------------------
(* Failures                                                                *)

\* Statements whose error ends the handler, and those whose error it ignores;
\* after a deletion the cart is shown when it is not known to be empty.
Checked == {"handle", "language", "name", "phone", "show_cart_view", "upsert",
            "cleanup", "delete", "read_cart", "link", "look_changed", "refresh"}

Ignored == {"set", "clear"}

FailStatement(h) ==
  /\ "db" \in Faults
  /\ ~Idle(h)
  /\ \/ Head(todo[h]).do \in Checked /\ Return(h)
     \/ Head(todo[h]).do \in Ignored /\ Proceed(h)
     \/ At(h, "look_deleted") /\ Continue(h, <<Do("refresh")>>, job[h])
  /\ broken' = TRUE
  /\ UNCHANGED <<carts, known, dialogue, buttons, placed, added>>

\* The process dies and starts again: the handlers are gone, the rows stay.
BotCrash ==
  /\ "crash" \in Faults
  /\ \E h \in Handlers : ~Idle(h)
  /\ todo' = [h \in Handlers |-> <<>>]
  /\ job' = [h \in Handlers |-> NoJob]
  /\ broken' = TRUE
  /\ UNCHANGED <<carts, known, dialogue, buttons, placed, added>>

----------------------------------------------------------------------------
Update(w) ==
  \E c \in Chats, i \in Inputs, p \in Products \cup {"none"},
     n \in -1 .. MaxAdded :
    /\ ProductOf(i, p) /\ CountOf(i, n)
    /\ n # 0 => MayChange(c, p, n)
    /\ Receive(w, c, i, p, n)

Handle(w) ==
  \/ StartCommand(w)
  \/ ChangeLanguage(w)
  \/ SaveName(w)
  \/ ChangePhone(w)
  \/ MainMenuHandler(w)
  \/ CategoryByProductMenu(w)
  \/ ProductInfoHandler(w)
  \/ CartMenu(w)
  \/ AddToCartCallback(w)
  \/ CategoryByProductMenuCallback(w)
  \/ CartQtyChangeCallback(w)
  \/ CartDeleteCallback(w)
  \/ CartBackCallback(w)
  \/ DeliveryType(w)
  \/ WaitAddressHandler(w)
  \/ CheckoutPreviewHandler(w)
  \/ SelectPaymentMethod(w)
  \/ WaitingPaymentHandler(w)

Ordering(w) ==
  \/ ReadCart(w)
  \/ CreateOrder(w)
  \/ CreateLink(w)

Statement(h) ==
  \/ UpdateState(h)
  \/ UpdateStateNil(h)
  \/ KeepData(h)
  \/ \E f \in Fields : Learn(h, f)
  \/ GetCartInfo(h)
  \/ UpsertItem(h)
  \/ CleanupItem(h)
  \/ DeleteItem(h)
  \/ ClearCart(h)
  \/ LookAtCart(h)
  \/ LookAfterDelete(h)
  \/ RefreshCartMessage(h)

BotNext ==
  \/ \E w \in Workers : Update(w) \/ Handle(w) \/ Ordering(w)
                          \/ NoLink(w)
  \/ \E h \in Handlers : Statement(h) \/ FailStatement(h)
  \/ \E r \in Requests, c \in Chats, p \in Products, n \in {-1, 1} :
       WebCart(r, c, p, n)
  \/ \E o \in Orders : Pay(o)
  \/ BotCrash

BotSpec == BotInit /\ [][BotNext]_botVars

----------------------------------------------------------------------------
(* Properties                                                              *)

Job == [chat : Chats \cup {"none"}, route : States \cup Callbacks \cup {"", "start"},
        input : Inputs \cup {""}, data : Data,
        product : Products \cup {"none"}, count : Int,
        method : {"", "cash", "online"}]

BotTypeOK ==
  /\ CartTypeOK
  /\ known \in [Chats -> SUBSET Fields]
  /\ dialogue \in [Chats -> [state : States \cup Passing \cup {NoState},
                             data : Data]]
  /\ buttons \in [Chats -> SUBSET {"card", "items", "empty_cart"}]
  /\ Len(placed) \in 0 .. MaxOrders
  /\ \A h \in Handlers :
       /\ Len(todo[h]) \in 0 .. 4
       /\ Idle(h) <=> job[h] = NoJob
       /\ [f \in DOMAIN job[h] \ {"items"} |-> job[h][f]] \in Job
  /\ added \in [Chats -> [Products -> Nat]]
  /\ broken \in BOOLEAN

\* Whoever orders has told his language, name and phone, whatever he pressed and
\* in whatever order his messages were handled (Start, SaveName and
\* ChangeLanguage ask for what is missing; iiko needs the phone).
OrdersOfKnownClients ==
  \A o \in DOMAIN placed : known[placed[o].chat] = Fields

\* A cart is read by a handler while others change it, and a row may count
\* zero or less between the two statements of cart_repo's Create; still no
\* order is placed without products or with a quantity that is not positive.
QuantitiesPositive ==
  \A o \in DOMAIN placed :
    /\ placed[o].items # NoRows
    /\ \A p \in DOMAIN placed[o].items : placed[o].items[p] > 0

\* A chat that waits for a payment waits for an order of its own that is paid
\* online and has a link to pay with (the end of SelectPaymentMethodHandler).
WaitsForOwnOrder ==
  \A c \in Chats :
    LET o == dialogue[c].data.order IN
    dialogue[c].state = "waiting_payment" =>
      /\ o \in DOMAIN placed
      /\ placed[o].chat = c /\ placed[o].method = "online" /\ placed[o].link

AtRest == \A h \in Handlers : Idle(h)

\* Presses on plus and minus race; when no handler is at work every row that is
\* left counts something, unless a statement failed or the server died between
\* the two statements of cart_repo's Create.
RowsPositiveAtRest ==
  ~broken /\ AtRest =>
    \A c \in Chats : \A p \in DOMAIN carts[c] : carts[c][p] > 0

Quantity(o, c, p) ==
  IF placed[o].chat = c THEN Count(placed[o].items, p) ELSE 0

\* How many of p the chat has ordered so far.
Ordered(c, p) ==
  LET upTo[o \in 0 .. Len(placed)] ==
        IF o = 0 THEN 0 ELSE upTo[o - 1] + Quantity(o, c, p)
  IN  upTo[Len(placed)]

\* With one worker, so one update at a time, nothing is ordered twice as long as
\* statements succeed and providers answer, whatever the web page does to carts:
\* of each product, what a chat has ordered and what its cart still holds is no
\* more than was ever added (the cart is cleared once the order is placed).
OrderedOnlyOnce ==
  ~broken /\ AtRest =>
    \A c \in Chats, p \in Products :
      Ordered(c, p) + Count(carts[c], p) <= added[c][p]

\* "CASH: clear cart and finish" (commands.go): the step that ends the handler
\* of a cash order leaves the chat at the main menu.
CashOrderFinishes ==
  [][\A w \in Workers :
       At(w, "set_nil") /\ job[w].method = "cash" /\ Idle(w)' =>
         dialogue'[Chat(w)].state = "show_main_menu"]_botVars

=============================================================================
