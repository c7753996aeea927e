----------------------------- MODULE BotProofs -----------------------------
(***************************************************************************)
(* What the bot keeps for any number of chats, products, workers and       *)
(* requests of the web page, whatever clients press and whatever fails:    *)
(* who may order, what an order holds, and which order a chat waits for;   *)
(* and, for one worker, that nothing is ordered twice.                     *)
(***************************************************************************)
EXTENDS Bot, TLAPS, SequenceTheorems, WellFoundedInduction

----------------------------------------------------------------------------
(* The inductive invariant                                                 *)

Rows == UNION {[D -> Int] : D \in SUBSET Products}

OrderRow == [chat : Chats, items : Rows, method : {"cash", "online"},
             delivered : BOOLEAN, link : BOOLEAN, paid : BOOLEAN]

Routes == States \cup Callbacks \cup {"start"}

JobRow == [chat : Chats \cup {"none"}, route : Routes \cup {""},
           input : Inputs \cup {""}, data : Data,
           product : Products \cup {"none"}, count : Int,
           method : {"", "cash", "online"}, items : Rows]

Step == [do : Checked \cup Ignored \cup {"set_nil", "keep", "look_deleted", "create"},
         state : States \cup Passing \cup {"", "change_language", "contact"},
         data : Data]

\* What may follow another step of a handler.
Later == {s \in Step : s.do \in {"set", "set_nil", "clear", "show_cart_view",
                                 "look_changed", "look_deleted"}}

\* What a client has told when his dialogue is at s.
Need(s) ==
  CASE s \in {"start", NoState, "waiting_change_language"} -> {}
    [] s = "waiting_for_name"  -> {"language"}
    [] s = "waiting_for_phone" -> {"language", "name"}
    [] OTHER                   -> Fields

\* What he has told when a handler of his updates takes the step s.
NeedOf(s) ==
  CASE s.do = "set" -> Need(s.state)
    [] s.do \in Fields \cup {"handle", "set_nil", "upsert", "cleanup", "delete", "clear"} -> {}
    [] OTHER -> Fields

Learns(s) == IF s.do \in Fields THEN {s.do} ELSE {}

\* Order o of the orders pl was placed online by c.
PlacedBy(pl, c, o) ==
  o \in DOMAIN pl /\ pl[o].chat = c /\ pl[o].method = "online"

\* The steps that may be ahead for chat c when k is known and pl was placed.
Fit(pl, c, k) ==
  {s \in Step :
     /\ NeedOf(s) \subseteq k
     /\ s.do \in {"set", "keep"} => s.state \in States \cup Passing
     /\ s.state = "waiting_payment" =>
          s.do = "set" /\ PlacedBy(pl, c, s.data.order) /\ pl[s.data.order].link}

\* The locals j that the step d relies on.
Relies(kn, pl, d, j) ==
  /\ d = "handle" =>
       /\ j.route # "" /\ Need(j.route) \subseteq kn[j.chat]
       /\ j.route \in {"add_to_cart", "cart_inc", "cart_dec", "cart_del"} =>
            j.product \in Products
  /\ d \in {"upsert", "cleanup", "delete"} => j.product \in Products
  /\ d \in {"read_cart", "create"} => j.method # ""
  /\ d = "create" => j.items # NoRows
  /\ d = "link" => j.method = "online" /\ PlacedBy(pl, j.chat, j.data.order)

\* A handler with the locals j may have s ahead, when kn is known and pl was
\* placed.
MayRun(kn, pl, s, j) ==
  /\ s \in Seq(Step) /\ Len(s) <= 4 /\ j \in JobRow
  /\ s # <<>> =>
       /\ j.chat \in Chats
       /\ s \in Seq(Fit(pl, j.chat, kn[j.chat] \cup Learns(Head(s))))
       /\ Tail(s) \in Seq(Later)
       /\ Relies(kn, pl, Head(s).do, j)

TablesOK ==
  /\ carts \in [Chats -> Rows]
  /\ known \in [Chats -> SUBSET Fields]
  /\ dialogue \in [Chats -> [state : States \cup Passing \cup {NoState},
                             data : Data]]
  /\ buttons \in [Chats -> SUBSET {"card", "items", "empty_cart"}]
  /\ placed \in Seq(OrderRow) /\ Len(placed) <= MaxOrders
  /\ added \in [Chats -> [Products -> Nat]]
  /\ broken \in BOOLEAN

\* A client is where he is in the dialogue because of what he told.
DialogueKnown ==
  \A c \in Chats :
    /\ Need(dialogue[c].state) \subseteq known[c]
    /\ buttons[c] # {} => known[c] = Fields

HandlersOK ==
  /\ DOMAIN todo = Handlers /\ DOMAIN job = Handlers
  /\ \A h \in Handlers : MayRun(known, placed, todo[h], job[h]) /\ (Idle(h) => job[h] = NoJob)

BotInv ==
  /\ TablesOK
  /\ HandlersOK
  /\ DialogueKnown
  /\ OrdersOfKnownClients
  /\ QuantitiesPositive
  /\ WaitsForOwnOrder

\* Every row that is left counts something, or its clean-up is to come.
RowsCleaned ==
  ~broken =>
    \A c \in Chats : \A p \in DOMAIN carts[c] :
      \/ carts[c][p] > 0
      \/ \E h \in Handlers : At(h, "cleanup") /\ Chat(h) = c /\ job[h].product = p

----------------------------------------------------------------------------
(* The rows of a cart                                                      *)

\* What the statements of cart_repo make of the rows of a chat.
LEMMA RowsKept ==
  /\ NoRows \in Rows
  /\ \A r \in Rows : \A ps : Without(r, ps) \in Rows
  /\ \A r \in Rows : DOMAIN r \subseteq Products /\ \A p \in DOMAIN r : r[p] \in Int
<1>1. NoRows \in Rows
  <2>1. NoRows \in [{} -> Int]
    BY DEF NoRows
  <2> QED BY <2>1 DEF Rows
<1>2. ASSUME NEW r \in Rows
      PROVE  /\ DOMAIN r \subseteq Products /\ \A p \in DOMAIN r : r[p] \in Int
             /\ \A ps : Without(r, ps) \in Rows
  <2>1. PICK D \in SUBSET Products : r \in [D -> Int]
    BY <1>2 DEF Rows
  <2>2. ASSUME NEW ps PROVE Without(r, ps) \in Rows
    <3>1. Without(r, ps) \in [D \ ps -> Int] /\ D \ ps \in SUBSET Products
      BY <2>1 DEF Without
    <3> QED BY <3>1 DEF Rows
  <2> QED BY <2>1, <2>2
<1> QED BY <1>1, <1>2

\* The rows that an upsert makes of r.
Upserted(r, p, n) ==
  [q \in DOMAIN r \cup {p} |-> IF q = p THEN Count(r, p) + n ELSE r[q]]

\* They are rows.
LEMMA UpsertedRows ==
  ASSUME NEW r \in Rows, NEW p \in Products, NEW n \in Int
  PROVE  Upserted(r, p, n) \in Rows
<1>1. PICK D \in SUBSET Products : r \in [D -> Int]
  BY DEF Rows
<1>2. /\ Upserted(r, p, n) \in [D \cup {p} -> Int]
      /\ D \cup {p} \in SUBSET Products
  BY <1>1 DEF Upserted, Count
<1> QED BY <1>2 DEF Rows

----------------------------------------------------------------------------
(* Sequences of steps                                                      *)

\* A step before others.
LEMMA Before ==
  ASSUME NEW S, NEW a \in S, NEW t \in Seq(S)
  PROVE  /\ <<a>> \o t \in Seq(S) /\ <<a>> \o t # <<>>
         /\ Len(<<a>> \o t) = Len(t) + 1
         /\ Head(<<a>> \o t) = a /\ Tail(<<a>> \o t) = t
<1>1. <<a>> \in Seq(S) /\ Len(<<a>>) = 1 /\ <<a>>[1] = a
  OBVIOUS
<1>2. /\ <<a>> \o t \in Seq(S) /\ Len(<<a>> \o t) = Len(t) + 1
      /\ \A i \in 1 .. Len(t) + 1 :
           (<<a>> \o t)[i] = IF i <= 1 THEN a ELSE t[i - 1]
  BY <1>1, ConcatProperties
<1>3. <<a>> \o t # <<>>
  BY <1>1, <1>2, LenProperties
<1>4. /\ Tail(<<a>> \o t) \in Seq(S)
      /\ Len(Tail(<<a>> \o t)) = Len(t)
      /\ \A i \in 1 .. Len(t) : Tail(<<a>> \o t)[i] = (<<a>> \o t)[i + 1]
  BY <1>2, <1>3, HeadTailProperties, LenProperties
<1>5. \A i \in 1 .. Len(t) : Tail(<<a>> \o t)[i] = t[i]
  BY <1>2, <1>4, LenProperties
<1>6. Tail(<<a>> \o t) = t
  BY <1>4, <1>5, SeqEqual
<1>7. Head(<<a>> \o t) = a
  BY <1>2, LenProperties
<1> QED BY <1>2, <1>3, <1>6, <1>7

\* One, two or three steps.
LEMMA FewSteps ==
  ASSUME NEW a, NEW b, NEW c
  PROVE  /\ \A S : a \in S => <<a>> \in Seq(S)
         /\ \A S : a \in S /\ b \in S => <<a, b>> \in Seq(S)
         /\ \A S : a \in S /\ b \in S /\ c \in S => <<a, b, c>> \in Seq(S)
         /\ Len(<<a>>) = 1 /\ Len(<<a, b>>) = 2 /\ Len(<<a, b, c>>) = 3
         /\ <<a>> # <<>> /\ <<a, b>> # <<>> /\ <<a, b, c>> # <<>>
         /\ Head(<<a>>) = a /\ Head(<<a, b>>) = a /\ Head(<<a, b, c>>) = a
         /\ Tail(<<a>>) = <<>> /\ Tail(<<a, b>>) = <<b>>
         /\ Tail(<<a, b, c>>) = <<b, c>>
  OBVIOUS

----------------------------------------------------------------------------
(* What a step keeps                                                       *)

\* A client forgets nothing he told, and an order stays as it was placed.
Grows ==
  /\ \A c \in Chats : known[c] \subseteq known'[c]
  /\ \A o \in DOMAIN placed :
       /\ o \in DOMAIN placed'
       /\ placed'[o].chat = placed[o].chat
       /\ placed'[o].method = placed[o].method
       /\ placed'[o].items = placed[o].items
       /\ placed[o].link => placed'[o].link

\* What a handler has ahead it may still do after others' steps.
LEMMA RunsStill ==
  ASSUME Grows, NEW s, NEW j, MayRun(known, placed, s, j)
  PROVE  MayRun(known', placed', s, j)
<1>1. CASE s = <<>>
  BY <1>1 DEF MayRun
<1>2. CASE s # <<>>
  <2>1. j.chat \in Chats
    BY <1>2 DEF MayRun
  <2>2. \A o : PlacedBy(placed, j.chat, o) =>
          /\ PlacedBy(placed', j.chat, o)
          /\ placed[o].link => placed'[o].link
    BY DEF Grows, PlacedBy
  <2>3. Fit(placed, j.chat, known[j.chat] \cup Learns(Head(s)))
          \subseteq Fit(placed', j.chat, known'[j.chat] \cup Learns(Head(s)))
    BY <2>1, <2>2 DEF Fit, Grows
  <2>4. s \in Seq(Fit(placed', j.chat, known'[j.chat] \cup Learns(Head(s))))
    <3> DEFINE S == Fit(placed, j.chat, known[j.chat] \cup Learns(Head(s)))
               T == Fit(placed', j.chat, known'[j.chat] \cup Learns(Head(s)))
    <3>1. s \in Seq(S) /\ S \subseteq T
      BY <1>2, <2>3 DEF MayRun
    <3> HIDE DEF S, T
    <3>2. s \in Seq(T)
      BY <3>1, SeqMonotonic
    <3> QED BY <3>2 DEF T
  <2>5. Relies(known', placed', Head(s).do, j)
    BY <1>2, <2>1, <2>2 DEF MayRun, Relies, Grows
  <2> QED BY <1>2, <2>4, <2>5 DEF MayRun
<1> QED BY <1>1, <1>2

\* So a step of one handler keeps the others going.
LEMMA HandlersKept ==
  ASSUME HandlersOK, Grows, NEW h \in Handlers, NEW s, NEW j,
         Continue(h, s, j), MayRun(known', placed', s, j), NoJob \in JobRow
  PROVE  HandlersOK'
<1>1. MayRun(known', placed', s, IF s = <<>> THEN NoJob ELSE j)
  BY DEF MayRun
<1>2. /\ DOMAIN todo' = Handlers /\ DOMAIN job' = Handlers
      /\ todo'[h] = s /\ job'[h] = (IF s = <<>> THEN NoJob ELSE j)
      /\ \A q \in Handlers \ {h} : todo'[q] = todo[q] /\ job'[q] = job[q]
  BY DEF Continue, HandlersOK
<1>3. \A q \in Handlers \ {h} : MayRun(known', placed', todo'[q], job'[q])
  <2> SUFFICES ASSUME NEW q \in Handlers \ {h}
               PROVE  MayRun(known', placed', todo[q], job[q])
    BY <1>2
  <2>1. MayRun(known, placed, todo[q], job[q])
    BY DEF HandlersOK
  <2> QED BY <2>1, RunsStill
<1>4. \A q \in Handlers \ {h} : todo'[q] = <<>> => job'[q] = NoJob
  BY <1>2 DEF HandlersOK, Idle
<1> QED BY <1>1, <1>2, <1>3, <1>4 DEF HandlersOK, Idle

\* The locals of no handler.
LEMMA NoJobRow == NoJob \in JobRow /\ NoData \in Data
  BY RowsKept, MaxOrdersAssumption DEF NoJob, JobRow, NoData, Data

\* What an order makes of the data of a dialogue.
LEMMA OrderData ==
  ASSUME NEW o \in Orders
  PROVE  [NoData EXCEPT !.order = o] \in Data /\ [NoData EXCEPT !.order = o].order = o
<1>1. o \in 0 .. MaxOrders
  BY MaxOrdersAssumption DEF Orders
<1>2. \A d \in Data : [d EXCEPT !.order = o] \in Data /\ [d EXCEPT !.order = o].order = o
  BY <1>1 DEF Data
<1> QED BY <1>2, NoJobRow

\* A step that only decides what comes next.
LEMMA DecisionKeeps ==
  ASSUME BotInv, NEW h \in Handlers, NEW s, NEW j, Continue(h, s, j), Unmoved,
         MayRun(known, placed, s, j)
  PROVE  BotInv'
<1>1. Grows /\ MayRun(known', placed', s, j)
  BY DEF Grows, Unmoved
<1>2. HandlersOK'
  BY <1>1, HandlersKept, NoJobRow DEF BotInv
<1> QED
  BY <1>2 DEF BotInv, Unmoved, TablesOK, DialogueKnown, OrdersOfKnownClients,
              QuantitiesPositive, WaitsForOwnOrder

----------------------------------------------------------------------------
(* The steps a handler may decide on                                       *)

\* Nothing, which ends it.
LEMMA NothingAhead ==
  ASSUME NEW j \in JobRow
  PROVE  MayRun(known, placed, <<>>, j)
  BY DEF MayRun

\* Steps that may follow others, whatever the locals.
LEMMA LaterMayRun ==
  ASSUME NEW kn, NEW pl, NEW j \in JobRow, j.chat \in Chats,
         NEW s \in Seq(Later), Len(s) <= 4,
         s \in Seq(Fit(pl, j.chat, kn[j.chat]))
  PROVE  MayRun(kn, pl, s, j)
<1>1. CASE s = <<>>
  BY <1>1 DEF MayRun
<1>2. CASE s # <<>>
  <2>1. Head(s) \in Later /\ Tail(s) \in Seq(Later)
    BY <1>2, HeadTailProperties
  <2>2. Relies(kn, pl, Head(s).do, j)
    BY <2>1 DEF Later, Relies
  <2>3. s \in Seq(Step)
    BY SeqMonotonic DEF Later
  <2>4. s \in Seq(Fit(pl, j.chat, kn[j.chat] \cup Learns(Head(s))))
    <3> DEFINE S == Fit(pl, j.chat, kn[j.chat])
               T == Fit(pl, j.chat, kn[j.chat] \cup Learns(Head(s)))
    <3>1. s \in Seq(S) /\ S \subseteq T
      BY DEF Fit
    <3> HIDE DEF S, T
    <3>2. s \in Seq(T)
      BY <3>1, SeqMonotonic
    <3> QED BY <3>2 DEF T
  <2> QED BY <1>2, <2>1, <2>2, <2>3, <2>4 DEF MayRun
<1> QED BY <1>1, <1>2

\* Which steps fit when k is known.
LEMMA StepsFit ==
  ASSUME NEW pl, NEW c, NEW k
  PROVE  /\ \A s \in States \cup Passing, d \in Data :
              Need(s) \subseteq k /\ s # "waiting_payment" =>
                Set(s, d) \in Fit(pl, c, k) \cap Later
         /\ \A s \in {"show_main_menu", "change_language", "contact"} :
              SetNil(s) \in Fit(pl, c, k) \cap Later
         /\ Do("clear") \in Fit(pl, c, k) \cap Later
         /\ Fields \subseteq k =>
              /\ ShowMainMenu \in Fit(pl, c, k) \cap Later
              /\ \A x \in {"show_cart_view", "look_changed", "look_deleted"} :
                   Do(x) \in Fit(pl, c, k) \cap Later
<1> USE NoJobRow
    DEF Step, Checked, Ignored, Fit, Later, NeedOf, Need, Fields, NoState
<1>1. \A s \in States \cup Passing, d \in Data :
        Need(s) \subseteq k /\ s # "waiting_payment" =>
          Set(s, d) \in Fit(pl, c, k) \cap Later
  BY DEF Set
<1>2. \A s \in {"show_main_menu", "change_language", "contact"} :
        SetNil(s) \in Fit(pl, c, k) \cap Later
  BY DEF SetNil, States
<1>3. Do("clear") \in Fit(pl, c, k) \cap Later
  BY DEF Do
<1>4. Fields \subseteq k => ShowMainMenu \in Fit(pl, c, k) \cap Later
  BY DEF ShowMainMenu, Set, States
<1>5. Fields \subseteq k =>
        \A x \in {"show_cart_view", "look_changed", "look_deleted"} :
          Do(x) \in Fit(pl, c, k) \cap Later
  BY DEF Do
<1> QED BY <1>1, <1>2, <1>3, <1>4, <1>5

----------------------------------------------------------------------------
(* Handlers of updates                                                     *)

\* What may follow for the chat of w.
Ahead(w) == Later \cap Fit(placed, Chat(w), known[Chat(w)])

\* The locals of a handler that is to decide.
LEMMA Deciding ==
  ASSUME BotInv, NEW w \in Handlers, At(w, "handle")
  PROVE  /\ job[w] \in JobRow /\ Chat(w) \in Chats
         /\ Need(job[w].route) \subseteq known[Chat(w)]
         /\ known[Chat(w)] \subseteq Fields
         /\ job[w].route \in {"add_to_cart", "cart_inc", "cart_dec", "cart_del"} =>
              job[w].product \in Products
         /\ Reads(w) \subseteq Data
<1>1. MayRun(known, placed, todo[w], job[w]) /\ todo[w] # <<>>
  BY DEF BotInv, HandlersOK, At, Idle
<1>2. /\ job[w] \in JobRow /\ job[w].chat \in Chats
      /\ Relies(known, placed, "handle", job[w])
  BY <1>1 DEF MayRun, At
<1>3. Reads(w) \subseteq Data
  BY <1>2, NoJobRow DEF Reads, Chat, BotInv, TablesOK
<1> QED BY <1>2, <1>3 DEF Relies, Chat, BotInv, TablesOK

\* Who is past the registration has told everything.
LEMMA KnownClient ==
  ASSUME BotInv, NEW w \in Handlers, At(w, "handle"),
         job[w].route \notin {"start", "waiting_change_language",
                              "waiting_for_name", "waiting_for_phone", NoState}
  PROVE  /\ known[Chat(w)] = Fields
         /\ \A s \in (States \cup Passing) \ {"waiting_payment"}, d \in Data :
              Set(s, d) \in Ahead(w)
         /\ \A s \in {"show_main_menu", "change_language", "contact"} :
              SetNil(s) \in Ahead(w)
         /\ Do("clear") \in Ahead(w) /\ ShowMainMenu \in Ahead(w)
         /\ Do("show_cart_view") \in Ahead(w)
         /\ Reads(w) \subseteq Data /\ NoData \in Data
<1>1. known[Chat(w)] = Fields
  <2>1. Need(job[w].route) = Fields
    BY DEF Need
  <2> QED BY <2>1, Deciding
<1> QED
  BY <1>1, StepsFit, Deciding, NoJobRow DEF Ahead, Need, Fields

\* The locals that are left once the decision is made.
LEMMA Decided ==
  ASSUME NEW j \in JobRow
  PROVE  /\ [j EXCEPT !.route = "", !.input = ""] \in JobRow
         /\ [j EXCEPT !.route = "", !.input = ""].chat = j.chat
         /\ [j EXCEPT !.route = "", !.input = ""].product = j.product
  BY DEF JobRow

\* What w may decide to do.
Plan(w, s) == s \in Seq(Ahead(w)) /\ Len(s) <= 4

\* Plans of up to three steps.
LEMMA Plans ==
  ASSUME NEW w
  PROVE  /\ Plan(w, <<>>)
         /\ \A a \in Ahead(w) : Plan(w, <<a>>)
         /\ \A a, b \in Ahead(w) : Plan(w, <<a, b>>)
         /\ \A a, b, c \in Ahead(w) : Plan(w, <<a, b, c>>)
  BY FewSteps DEF Plan

\* A decision on what may follow keeps the invariant.
LEMMA ThenKeeps ==
  ASSUME BotInv, NEW w \in Handlers, At(w, "handle"), Unmoved,
         \E s : Plan(w, s) /\ Then(w, s)
  PROVE  BotInv'
<1>1. PICK s : s \in Seq(Ahead(w)) /\ Len(s) <= 4 /\ Then(w, s)
  BY DEF Plan
<1> DEFINE j == [job[w] EXCEPT !.route = "", !.input = ""]
<1>2. j \in JobRow /\ j.chat = Chat(w) /\ Chat(w) \in Chats
  BY Deciding, Decided DEF Chat
<1>3. s \in Seq(Later) /\ s \in Seq(Fit(placed, Chat(w), known[Chat(w)]))
  BY <1>1, SeqMonotonic DEF Ahead
<1>4. Continue(w, s, j)
  BY <1>1 DEF Then
<1> HIDE DEF j
<1>5. MayRun(known, placed, s, j)
  BY <1>1, <1>2, <1>3, LaterMayRun
<1> QED BY <1>4, <1>5, DecisionKeeps

\* The main menu, the category and product menus and the cart.
LEMMA MenusKeep ==
  ASSUME BotInv, NEW w \in Workers,
         \/ MainMenuHandler(w) \/ CategoryByProductMenu(w) \/ CartMenu(w)
         \/ CategoryByProductMenuCallback(w) \/ CartBackCallback(w)
  PROVE  BotInv'
<1>1. /\ w \in Handlers /\ At(w, "handle") /\ Unmoved
      /\ job[w].route \in {"show_main_menu", "category_selected", "get_cart",
                           "back_to_menu", "cart_back"}
  BY DEF MainMenuHandler, CategoryByProductMenu, CartMenu, Handling, Handlers,
         CategoryByProductMenuCallback, CartBackCallback
<1>2. /\ \A s \in (States \cup Passing) \ {"waiting_payment"}, d \in Data :
           Set(s, d) \in Ahead(w)
      /\ \A s \in {"show_main_menu", "change_language", "contact"} :
           SetNil(s) \in Ahead(w)
      /\ Do("clear") \in Ahead(w) /\ ShowMainMenu \in Ahead(w)
      /\ Do("show_cart_view") \in Ahead(w)
      /\ Reads(w) \subseteq Data /\ NoData \in Data
  BY <1>1, KnownClient DEF NoState
<1>3. \E s : Plan(w, s) /\ Then(w, s)
  <2>1. CASE MainMenuHandler(w)
    <3>1. /\ Plan(w, <<SetNil("change_language"), Set("waiting_change_language", NoData)>>)
          /\ Plan(w, <<SetNil("contact"), ShowMainMenu>>)
          /\ Plan(w, <<Set("show_category", NoData), Set("category_selected", NoData)>>)
          /\ Plan(w, <<Set("show_cart", NoData), Do("show_cart_view")>>)
          /\ Plan(w, <<>>)
      BY <1>2, Plans DEF States, Passing
    <3> QED BY <2>1, <3>1 DEF MainMenuHandler
  <2>2. CASE CategoryByProductMenu(w)
    <3>1. /\ Plan(w, <<ShowMainMenu>>)
          /\ Plan(w, <<Set("product_selected", NoData)>>)
      BY <1>2, Plans DEF States
    <3> QED BY <2>2, <3>1 DEF CategoryByProductMenu
  <2>3. CASE CartMenu(w)
    <3>1. /\ \A st \in Data : Plan(w, <<Set("select_delivery_type", st)>>)
          /\ Plan(w, <<SetNil("show_main_menu"), ShowMainMenu>>)
          /\ Plan(w, <<SetNil("show_main_menu"), Do("clear"), ShowMainMenu>>)
          /\ Plan(w, <<>>)
      BY <1>2, Plans DEF States
    <3> QED BY <1>2, <2>3, <3>1 DEF CartMenu
  <2>4. CASE CategoryByProductMenuCallback(w)
    <3>1. Plan(w, <<Set("product_selected", NoData)>>)
      BY <1>2, Plans DEF States
    <3> QED BY <2>4, <3>1 DEF CategoryByProductMenuCallback
  <2>5. CASE CartBackCallback(w)
    <3>1. Plan(w, ToMainMenu)
      BY <1>2, Plans DEF States, ToMainMenu
    <3> QED BY <2>5, <3>1 DEF CartBackCallback
  <2> QED BY <2>1, <2>2, <2>3, <2>4, <2>5
<1> QED BY <1>1, <1>3, ThenKeeps

\* The delivery type, the address, the preview, the payment method and the
\* wait for a payment, as long as none of it leads to an order.
LEMMA CheckoutKeeps ==
  ASSUME BotInv, NEW w \in Workers,
         \/ DeliveryType(w) \/ WaitAddressHandler(w)
         \/ CheckoutPreviewHandler(w) /\ Pressed(w) # "back"
         \/ SelectPaymentMethod(w) /\ Pressed(w) \notin {"cash", "online"}
         \/ WaitingPaymentHandler(w)
  PROVE  BotInv'
<1>1. /\ w \in Handlers /\ At(w, "handle") /\ Unmoved
      /\ job[w].route \in {"select_delivery_type", "wait_address",
                           "checkout_preview", "select_payment_method",
                           "waiting_payment"}
  BY DEF DeliveryType, WaitAddressHandler, CheckoutPreviewHandler,
         SelectPaymentMethod, WaitingPaymentHandler, Handling, Handlers
<1>2. /\ \A s \in (States \cup Passing) \ {"waiting_payment"}, d \in Data :
           Set(s, d) \in Ahead(w)
      /\ SetNil("show_main_menu") \in Ahead(w) /\ ShowMainMenu \in Ahead(w)
      /\ Do("clear") \in Ahead(w) /\ Do("show_cart_view") \in Ahead(w)
      /\ Reads(w) \subseteq Data /\ NoData \in Data
  BY <1>1, KnownClient DEF NoState
<1>3. \A st \in Data : /\ [st EXCEPT !.deliveryType = "DELIVERY"] \in Data
                       /\ [st EXCEPT !.deliveryType = "PICKUP"] \in Data
                       /\ [[st EXCEPT !.deliveryType = "DELIVERY"]
                             EXCEPT !.located = TRUE] \in Data
  BY DEF Data
<1>4. /\ Plan(w, <<>>)
      /\ Plan(w, ToMainMenu)
      /\ Plan(w, <<Do("clear"), SetNil("show_main_menu")>>)
      /\ \A st \in Data :
           /\ Plan(w, <<Set("get_cart", st), Do("show_cart_view")>>)
           /\ \A s \in {"select_delivery_type", "wait_address",
                        "checkout_preview", "select_payment_method"} :
                Plan(w, <<Set(s, st)>>)
  BY <1>2, Plans DEF States, ToMainMenu
<1>5. \E s : Plan(w, s) /\ Then(w, s)
  <2>1. CASE DeliveryType(w)
    BY <1>2, <1>3, <1>4, <2>1 DEF DeliveryType
  <2>2. CASE WaitAddressHandler(w)
    BY <1>2, <1>3, <1>4, <2>2 DEF WaitAddressHandler
  <2>3. CASE CheckoutPreviewHandler(w) /\ Pressed(w) # "back"
    BY <1>2, <1>4, <2>3 DEF CheckoutPreviewHandler
  <2>4. CASE SelectPaymentMethod(w) /\ Pressed(w) \notin {"cash", "online"}
    BY <1>2, <1>4, <2>4 DEF SelectPaymentMethod
  <2>5. CASE WaitingPaymentHandler(w)
    BY <1>2, <1>4, <2>5 DEF WaitingPaymentHandler
  <2> QED BY <2>1, <2>2, <2>3, <2>4, <2>5
<1> QED BY <1>1, <1>5, ThenKeeps

\* A handler may run a step, and after it what may follow once the step has
\* been taken.
LEMMA LedBy ==
  ASSUME NEW kn, NEW pl, NEW j \in JobRow, j.chat \in Chats,
         NEW a \in Step, NEW k, k = kn[j.chat] \cup Learns(a),
         a \in Fit(pl, j.chat, k), Relies(kn, pl, a.do, j)
  PROVE  /\ MayRun(kn, pl, <<a>>, j)
         /\ \A b \in Later \cap Fit(pl, j.chat, k) : MayRun(kn, pl, <<a, b>>, j)
         /\ \A t \in Seq(Later \cap Fit(pl, j.chat, k)) :
              Len(t) <= 3 => MayRun(kn, pl, <<a>> \o t, j)
<1> DEFINE F == Fit(pl, j.chat, k)
<1>1. Later \subseteq Step /\ F \subseteq Step
  BY DEF Later, Fit
<1> HIDE DEF F
<1>2. MayRun(kn, pl, <<a>>, j)
  BY FewSteps DEF MayRun, F
<1>3. ASSUME NEW b \in Later \cap F
      PROVE  MayRun(kn, pl, <<a, b>>, j)
  BY <1>1, <1>3, FewSteps DEF MayRun, F
<1>4. ASSUME NEW t \in Seq(Later \cap F), Len(t) <= 3
      PROVE  MayRun(kn, pl, <<a>> \o t, j)
  <2>1. t \in Seq(Step) /\ t \in Seq(F) /\ t \in Seq(Later)
    BY <1>1, <1>4, SeqMonotonic
  <2> DEFINE s == <<a>> \o t
  <2>2. /\ s \in Seq(Step) /\ s \in Seq(F) /\ Len(s) = Len(t) + 1
        /\ Head(s) = a /\ Tail(s) = t
    <3>1. a \in F
      BY DEF F
    <3> QED BY <2>1, <3>1, Before
  <2> HIDE DEF s
  <2>3. Len(t) \in Nat
    BY <1>4, LenProperties
  <2>4. Len(s) <= 4 /\ Tail(s) \in Seq(Later)
    <3>1. Len(t) + 1 <= 4
      BY <1>4, <2>3
    <3> QED BY <2>1, <2>2, <3>1
  <2>5. /\ s \in Seq(Fit(pl, j.chat, kn[j.chat] \cup Learns(Head(s))))
        /\ Relies(kn, pl, Head(s).do, j)
    BY <2>2 DEF F
  <2>6. MayRun(kn, pl, s, j)
    BY <2>2, <2>4, <2>5 DEF MayRun
  <2> QED BY <2>6 DEF s
<1> QED BY <1>2, <1>3, <1>4 DEF F

\* What Registered asks for, or the main menu, fits who told as much.
LEMMA RegisteredFits ==
  ASSUME NEW pl, NEW c
  PROVE  \A k \in SUBSET Fields :
           /\ Registered(k) \in Seq(Later \cap Fit(pl, c, k))
           /\ Len(Registered(k)) <= 2
<1> SUFFICES ASSUME NEW k \in SUBSET Fields
             PROVE  /\ Registered(k) \in Seq(Later \cap Fit(pl, c, k))
                    /\ Len(Registered(k)) <= 2
  OBVIOUS
<1> DEFINE S == Later \cap Fit(pl, c, k)
<1>1. /\ Set("waiting_change_language", NoData) \in S
      /\ "language" \in k => Set("waiting_for_name", NoData) \in S
      /\ "language" \in k /\ "name" \in k => Set("waiting_for_phone", NoData) \in S
      /\ k = Fields => Set("show_main_menu", NoData) \in S /\ ShowMainMenu \in S
  BY StepsFit, NoJobRow DEF States, Need, Fields
<1> HIDE DEF S
<1>2. /\ \A a \in S : <<a>> \in Seq(S) /\ Len(<<a>>) = 1
      /\ \A a, b \in S : <<a, b>> \in Seq(S) /\ Len(<<a, b>>) = 2
  BY FewSteps
<1>3. Registered(k) \in Seq(S) /\ Len(Registered(k)) <= 2
  <2>1. CASE "language" \notin k
    <3>1. Registered(k) = <<Set("waiting_change_language", NoData)>>
      BY <2>1 DEF Registered
    <3> QED BY <1>1, <1>2, <3>1
  <2>2. CASE "language" \in k /\ "name" \notin k
    <3>1. Registered(k) = <<Set("waiting_for_name", NoData)>>
      BY <2>2 DEF Registered
    <3> QED BY <1>1, <1>2, <2>2, <3>1
  <2>3. CASE "language" \in k /\ "name" \in k /\ "phone" \notin k
    <3>1. Registered(k) = <<Set("waiting_for_phone", NoData)>>
      BY <2>3 DEF Registered
    <3> QED BY <1>1, <1>2, <2>3, <3>1
  <2>4. CASE "language" \in k /\ "name" \in k /\ "phone" \in k
    <3>1. k = Fields /\ Registered(k) = ToMainMenu
      BY <2>4 DEF Registered, Fields
    <3> QED BY <1>1, <1>2, <3>1 DEF ToMainMenu
  <2> QED BY <2>1, <2>2, <2>3, <2>4
<1> QED BY <1>3 DEF S

\* /start and the questions of the registration.
LEMMA RegistrationKeeps ==
  ASSUME BotInv, NEW w \in Workers,
         StartCommand(w) \/ ChangeLanguage(w) \/ SaveName(w) \/ ChangePhone(w)
  PROVE  BotInv'
<1> DEFINE c == Chat(w)
           k == known[c]
           j == [job[w] EXCEPT !.route = "", !.input = ""]
<1>1. w \in Handlers /\ At(w, "handle") /\ Unmoved
  BY DEF StartCommand, ChangeLanguage, SaveName, ChangePhone, Handling, Handlers
<1>2. /\ k \in SUBSET Fields /\ Need(job[w].route) \subseteq k
      /\ j \in JobRow /\ j.chat = c /\ c \in Chats
  BY <1>1, Deciding, Decided DEF Chat
<1>3. \A s : Then(w, s) /\ MayRun(known, placed, s, j) => BotInv'
  BY <1>1, DecisionKeeps DEF Then
<1>4. \A s : Then(w, s) /\ Plan(w, s) => BotInv'
  BY <1>1, ThenKeeps
<1>5. \A f \in Fields : \A t \in Seq(Later \cap Fit(placed, c, k \cup {f})) :
        Len(t) <= 3 => MayRun(known, placed, <<Do(f)>> \o t, j)
  <2> SUFFICES ASSUME NEW f \in Fields
               PROVE  \A t \in Seq(Later \cap Fit(placed, c, k \cup {f})) :
                        Len(t) <= 3 => MayRun(known, placed, <<Do(f)>> \o t, j)
    OBVIOUS
  <2> DEFINE a == Do(f)
  <2>1. a \in Step /\ a.do = f /\ Learns(a) = {f}
    BY NoJobRow DEF Do, Step, Checked, Fields, Learns
  <2>2. a \in Fit(placed, c, k \cup {f}) /\ Relies(known, placed, a.do, j)
    BY <2>1 DEF Do, Fit, NeedOf, Relies, Fields
  <2> HIDE DEF a, j, c, k
  <2>3. \A t \in Seq(Later \cap Fit(placed, c, k \cup {f})) :
          Len(t) <= 3 => MayRun(known, placed, <<a>> \o t, j)
    BY <1>2, <2>1, <2>2, LedBy DEF k
  <2> QED BY <2>3 DEF a
<1> HIDE DEF j, k, c
<1>10. \A q \in SUBSET Fields :
         /\ Registered(q) \in Seq(Later \cap Fit(placed, c, q))
         /\ Len(Registered(q)) \in Nat /\ Len(Registered(q)) <= 2
  BY RegisteredFits, LenProperties
<1>6. CASE StartCommand(w)
  <2>1. Registered(k) \in Seq(Later \cap Fit(placed, c, k)) /\ Len(Registered(k)) <= 4
    BY <1>2, <1>10
  <2>2. Plan(w, Registered(k))
    BY <2>1 DEF Plan, Ahead, k, c
  <2> QED BY <1>4, <1>6, <2>2 DEF StartCommand, Account, k, c
<1>7. CASE ChangeLanguage(w)
  <2>1. MayRun(known, placed, <<Do("language")>> \o Registered(k \cup {"language"}), j)
    <3> DEFINE q == k \cup {"language"}
    <3>1. q \in SUBSET Fields /\ "language" \in Fields
      BY <1>2 DEF Fields
    <3> HIDE DEF q
    <3>2. /\ Registered(q) \in Seq(Later \cap Fit(placed, c, q))
          /\ Len(Registered(q)) <= 3
      BY <3>1, <1>10
    <3>3. MayRun(known, placed, <<Do("language")>> \o Registered(q), j)
      BY <1>5, <3>1, <3>2 DEF q
    <3> QED BY <3>3 DEF q
  <2> QED
    BY <1>3, <1>4, <1>7, <2>1, Plans DEF ChangeLanguage, Account, k, c
<1>8. CASE SaveName(w)
  <2> DEFINE t == IF "phone" \in k THEN ToMainMenu
                                  ELSE <<Set("waiting_for_phone", NoData)>>
  <2>1. "language" \in k
    BY <1>2, <1>8 DEF SaveName, Handling, Need, NoState
  <2>2. t = Registered(k \cup {"name"})
    BY <2>1 DEF Registered
  <2>3. MayRun(known, placed, <<Do("name")>> \o t, j)
    <3> DEFINE q == k \cup {"name"}
    <3>1. q \in SUBSET Fields /\ "name" \in Fields
      BY <1>2 DEF Fields
    <3> HIDE DEF q
    <3>2. /\ Registered(q) \in Seq(Later \cap Fit(placed, c, q))
          /\ Len(Registered(q)) <= 3
      BY <3>1, <1>10
    <3>3. MayRun(known, placed, <<Do("name")>> \o Registered(q), j)
      BY <1>5, <3>1, <3>2 DEF q
    <3> QED BY <2>2, <3>3 DEF q
  <2> QED BY <1>3, <1>4, <1>8, <2>3, Plans DEF SaveName, Account, k, c
<1>9. CASE ChangePhone(w)
  <2>1. "language" \in k /\ "name" \in k
    BY <1>2, <1>9 DEF ChangePhone, Handling, Need, NoState
  <2>2. ToMainMenu = Registered(k \cup {"phone"})
    BY <2>1 DEF Registered
  <2>3. MayRun(known, placed, <<Do("phone")>> \o ToMainMenu, j)
    <3> DEFINE q == k \cup {"phone"}
    <3>1. q \in SUBSET Fields /\ "phone" \in Fields
      BY <1>2 DEF Fields
    <3> HIDE DEF q
    <3>2. /\ Registered(q) \in Seq(Later \cap Fit(placed, c, q))
          /\ Len(Registered(q)) <= 3
      BY <3>1, <1>10
    <3>3. MayRun(known, placed, <<Do("phone")>> \o Registered(q), j)
      BY <1>5, <3>1, <3>2 DEF q
    <3> QED BY <2>2, <3>3 DEF q
  <2> QED BY <1>3, <1>4, <1>9, <2>3, Plans DEF ChangePhone
<1> QED BY <1>6, <1>7, <1>8, <1>9
\* The buttons under the messages: a change of the cart, and what follows.
LEMMA ButtonsKeep ==
  ASSUME BotInv, NEW w \in Workers,
         \/ AddToCartCallback(w) \/ CartQtyChangeCallback(w) \/ CartDeleteCallback(w)
  PROVE  BotInv'
<1> DEFINE j == [job[w] EXCEPT !.route = "", !.input = ""]
<1>1. /\ w \in Handlers /\ At(w, "handle") /\ Unmoved
      /\ job[w].route \in {"add_to_cart", "cart_inc", "cart_dec", "cart_del"}
  BY DEF AddToCartCallback, CartQtyChangeCallback, CartDeleteCallback, Handling,
         Handlers
<1>2. /\ j \in JobRow /\ j.chat = Chat(w) /\ Chat(w) \in Chats
      /\ j.product \in Products
  BY <1>1, Deciding, Decided DEF Chat
<1>3. \A s : Then(w, s) /\ MayRun(known, placed, s, j) => BotInv'
  BY <1>1, DecisionKeeps DEF Then
<1> HIDE DEF j
<1>4. ASSUME NEW d \in {"upsert", "delete"}, NEW b \in Ahead(w)
      PROVE  MayRun(known, placed, <<Do(d), b>>, j)
  <2> DEFINE a == Do(d)
  <2>1. a \in Step /\ a.do = d /\ Learns(a) = {}
    BY NoJobRow DEF Do, Step, Checked, Fields, Learns
  <2>2. \A k : a \in Fit(placed, Chat(w), k)
    BY <2>1 DEF Do, Fit, NeedOf, Fields
  <2>3. Relies(known, placed, a.do, j)
    BY <1>2, <2>1 DEF Relies
  <2> HIDE DEF a
  <2>4. known[Chat(w)] = known[j.chat] \cup Learns(a)
    BY <1>2, <2>1
  <2>5. MayRun(known, placed, <<a, b>>, j)
    BY <1>2, <2>1, <2>2, <2>3, <2>4, LedBy DEF Ahead
  <2> QED BY <2>5 DEF a
<1>5. known[Chat(w)] = Fields
  BY <1>1, KnownClient DEF NoState
<1>6. /\ Set("product_selected", NoData) \in Ahead(w)
      /\ Do("look_changed") \in Ahead(w) /\ Do("look_deleted") \in Ahead(w)
  BY <1>5, StepsFit, NoJobRow DEF Ahead, States, Need
<1>7. /\ MayRun(known, placed, <<Do("upsert"), Set("product_selected", NoData)>>, j)
      /\ MayRun(known, placed, <<Do("upsert"), Do("look_changed")>>, j)
      /\ MayRun(known, placed, <<Do("delete"), Do("look_deleted")>>, j)
  BY <1>4, <1>6
<1> QED
  BY <1>3, <1>7 DEF AddToCartCallback, CartQtyChangeCallback, CartDeleteCallback

\* A step that writes no more than which keyboards the chat of h shows, and only
\* to a client who is known.
LEMMA KeyboardKeeps ==
  ASSUME BotInv, NEW h \in Handlers, NEW s, NEW j, Continue(h, s, j),
         MayRun(known, placed, s, j), NEW new \in SUBSET {"card", "items", "empty_cart"},
         buttons' = [buttons EXCEPT ![Chat(h)] = @ \cup new],
         Chat(h) \in Chats, known[Chat(h)] = Fields,
         UNCHANGED <<carts, known, dialogue, placed, added, broken>>
  PROVE  BotInv'
<1>1. Grows /\ MayRun(known', placed', s, j)
  BY DEF Grows
<1>2. HandlersOK'
  BY <1>1, HandlersKept, NoJobRow DEF BotInv
<1>3. /\ buttons' \in [Chats -> SUBSET {"card", "items", "empty_cart"}]
      /\ \A c \in Chats : buttons'[c] # {} => known[c] = Fields
  BY DEF BotInv, TablesOK, DialogueKnown
<1> QED
  BY <1>2, <1>3 DEF BotInv, TablesOK, DialogueKnown, OrdersOfKnownClients,
                    QuantitiesPositive, WaitsForOwnOrder

\* The products of a category, and the card of one.
LEMMA ProductsKeep ==
  ASSUME BotInv, NEW w \in Workers, ProductInfoHandler(w)
  PROVE  BotInv'
<1> DEFINE j == [job[w] EXCEPT !.route = "", !.input = ""]
<1>1. /\ w \in Handlers /\ At(w, "handle")
      /\ job[w].route = "product_selected"
  BY DEF ProductInfoHandler, Handling, Handlers
<1>2. /\ known[Chat(w)] = Fields /\ Do("show_cart_view") \in Ahead(w)
      /\ Set("category_selected", NoData) \in Ahead(w)
  BY <1>1, KnownClient, NoJobRow DEF NoState, States
<1>3. j \in JobRow /\ Chat(w) \in Chats
  BY <1>1, Deciding, Decided
<1>4. \A s : Then(w, s) /\ Unmoved /\ Plan(w, s) => BotInv'
  BY <1>1, ThenKeeps
<1>5. /\ Plan(w, <<Do("show_cart_view")>>)
      /\ Plan(w, <<Set("category_selected", NoData), Set("category_selected", NoData)>>)
  BY <1>2, Plans
<1>6. ASSUME Then(w, <<>>), NEW found \in SUBSET {"card"},
             buttons' = [buttons EXCEPT ![Chat(w)] = @ \cup found],
             UNCHANGED <<carts, known, dialogue, placed, added, broken>>
      PROVE  BotInv'
  <2>1. Continue(w, <<>>, j)
    BY <1>6 DEF Then
  <2> HIDE DEF j
  <2>2. MayRun(known, placed, <<>>, j)
    BY <1>3, NothingAhead
  <2> QED BY <1>1, <1>2, <1>3, <1>6, <2>1, <2>2, KeyboardKeeps
<1> HIDE DEF j
<1> QED BY <1>4, <1>5, <1>6 DEF ProductInfoHandler

\* "back" at the preview.
LEMMA PreviewBackKeeps ==
  ASSUME BotInv, NEW w \in Workers, CheckoutPreviewHandler(w), Pressed(w) = "back"
  PROVE  BotInv'
<1> DEFINE j == [job[w] EXCEPT !.route = "", !.input = ""]
<1>1. /\ w \in Handlers /\ At(w, "handle") /\ Unmoved
      /\ job[w].route = "checkout_preview"
  BY DEF CheckoutPreviewHandler, Handling, Handlers
<1>2. known[Chat(w)] = Fields
  BY <1>1, KnownClient DEF NoState
<1>3. j \in JobRow /\ j.chat = Chat(w) /\ Chat(w) \in Chats
  BY <1>1, Deciding, Decided DEF Chat
<1>4. \A s : Then(w, s) /\ MayRun(known, placed, s, j) => BotInv'
  BY <1>1, DecisionKeeps DEF Then
<1> HIDE DEF j
<1>5. ASSUME NEW s \in {"wait_address", "select_delivery_type"}
      PROVE  MayRun(known, placed, <<Keep(s)>>, j)
  <2> DEFINE a == Keep(s)
  <2>1. a \in Step /\ a.do = "keep" /\ Learns(a) = {}
    BY NoJobRow DEF Keep, Step, Fields, Learns, States
  <2>2. a \in Fit(placed, Chat(w), known[Chat(w)])
    BY <1>2, <2>1 DEF Keep, Fit, NeedOf, Fields, States
  <2>3. Relies(known, placed, a.do, j)
    BY <2>1 DEF Relies
  <2> HIDE DEF a
  <2>4. known[Chat(w)] = known[j.chat] \cup Learns(a)
    BY <1>3, <2>1
  <2>5. MayRun(known, placed, <<a>>, j)
    BY <1>3, <2>1, <2>2, <2>3, <2>4, LedBy
  <2> QED BY <2>5 DEF a
<1>6. \/ Then(w, <<Keep("wait_address")>>)
      \/ Then(w, <<Keep("select_delivery_type")>>)
  BY DEF CheckoutPreviewHandler
<1> QED BY <1>4, <1>5, <1>6

\* A payment method is chosen: what is read here goes into the order.
LEMMA MethodKeeps ==
  ASSUME BotInv, NEW w \in Workers, SelectPaymentMethod(w),
         Pressed(w) \in {"cash", "online"}
  PROVE  BotInv'
<1>1. /\ w \in Handlers /\ At(w, "handle") /\ Unmoved
      /\ job[w].route = "select_payment_method"
  BY DEF SelectPaymentMethod, Handling, Handlers
<1>2. known[Chat(w)] = Fields /\ Reads(w) \subseteq Data /\ Chat(w) \in Chats
  BY <1>1, KnownClient, Deciding DEF NoState
<1>3. PICK st \in Data :
        Continue(w, <<Do("read_cart")>>,
          [NoJob EXCEPT !.chat = Chat(w), !.method = Pressed(w), !.data = st])
  BY <1>2 DEF SelectPaymentMethod
<1> DEFINE j == [NoJob EXCEPT !.chat = Chat(w), !.method = Pressed(w), !.data = st]
           a == Do("read_cart")
<1>4. j \in JobRow /\ j.chat = Chat(w) /\ j.method # ""
  BY <1>2, NoJobRow DEF JobRow, NoJob
<1>5. a \in Step /\ a.do = "read_cart" /\ Learns(a) = {}
  BY NoJobRow DEF Do, Step, Checked, Fields, Learns
<1>6. a \in Fit(placed, Chat(w), known[Chat(w)])
  BY <1>2, <1>5 DEF Do, Fit, NeedOf, Fields
<1> HIDE DEF j
<1>7. Relies(known, placed, a.do, j)
  BY <1>4, <1>5 DEF Relies
<1> HIDE DEF a
<1>8. known[Chat(w)] = known[j.chat] \cup Learns(a)
  BY <1>4, <1>5
<1>9. MayRun(known, placed, <<a>>, j)
  BY <1>2, <1>4, <1>5, <1>6, <1>7, <1>8, LedBy
<1> QED BY <1>1, <1>3, <1>9, DecisionKeeps DEF a, j

\* Whatever a handler of an update decides.
LEMMA HandleKeeps ==
  ASSUME BotInv, NEW w \in Workers, Handle(w)
  PROVE  BotInv'
  BY RegistrationKeeps, MenusKeep, ProductsKeep, ButtonsKeep, CheckoutKeeps,
     PreviewBackKeeps, MethodKeeps
  DEF Handle
----------------------------------------------------------------------------
(* Statements                                                              *)

\* The step that h takes next.
Now(h) == Head(todo[h])

\* What is known of a handler that runs.
LEMMA Running ==
  ASSUME BotInv, NEW h \in Handlers, ~Idle(h)
  PROVE  /\ job[h] \in JobRow /\ Chat(h) \in Chats
         /\ Now(h) \in Step
         /\ Now(h) \in Fit(placed, Chat(h), known[Chat(h)] \cup Learns(Now(h)))
         /\ known[Chat(h)] \in SUBSET Fields
         /\ Relies(known, placed, Now(h).do, job[h])
         /\ Tail(todo[h]) \in Seq(Later) /\ Len(Tail(todo[h])) <= 3
         /\ Len(Tail(todo[h])) \in Nat
         /\ Tail(todo[h]) \in
              Seq(Fit(placed, Chat(h), known[Chat(h)] \cup Learns(Now(h))))
<1>1. MayRun(known, placed, todo[h], job[h]) /\ todo[h] # <<>>
  BY DEF BotInv, HandlersOK, Idle
<1> DEFINE s == todo[h]
           j == job[h]
           F == Fit(placed, Chat(h), known[Chat(h)] \cup Learns(Now(h)))
<1>2. /\ s \in Seq(Step) /\ Len(s) <= 4 /\ j \in JobRow /\ s # <<>>
      /\ j.chat \in Chats /\ s \in Seq(F)
      /\ Tail(s) \in Seq(Later)
      /\ Relies(known, placed, Head(s).do, j)
  BY <1>1 DEF MayRun, Now, Chat
<1>3. known[Chat(h)] \in SUBSET Fields
  BY <1>2 DEF BotInv, TablesOK, Chat
<1> HIDE DEF s, j, F
<1>4. /\ Head(s) \in Step /\ Head(s) \in F
      /\ Tail(s) \in Seq(F) /\ Len(Tail(s)) = Len(s) - 1 /\ Len(s) \in Nat
      /\ Len(Tail(s)) \in Nat
  BY <1>2, HeadTailProperties, LenProperties
<1>5. Len(Tail(s)) <= 3
  BY <1>2, <1>4
<1> QED BY <1>2, <1>3, <1>4, <1>5 DEF s, j, F, Now, Chat

\* When its step has been taken, a handler may do the rest.
LEMMA RestRuns ==
  ASSUME BotInv, NEW h \in Handlers, ~Idle(h), Grows,
         Learns(Now(h)) \subseteq known'[Chat(h)]
  PROVE  /\ MayRun(known', placed', Tail(todo[h]), job[h])
         /\ Tail(todo[h]) \in Seq(Fit(placed', Chat(h), known'[Chat(h)]))
<1> DEFINE F == Fit(placed, Chat(h), known[Chat(h)] \cup Learns(Now(h)))
           G == Fit(placed', Chat(h), known'[Chat(h)])
           t == Tail(todo[h])
<1>1. /\ job[h] \in JobRow /\ Chat(h) \in Chats
      /\ t \in Seq(Later) /\ Len(t) <= 4 /\ t \in Seq(F)
  BY Running
<1>2. \A o : PlacedBy(placed, Chat(h), o) =>
        /\ PlacedBy(placed', Chat(h), o)
        /\ placed[o].link => placed'[o].link
  BY DEF Grows, PlacedBy
<1>3. F \subseteq G
  BY <1>1, <1>2 DEF Fit, Grows
<1> HIDE DEF F, G, t
<1>4. t \in Seq(G)
  BY <1>1, <1>3, SeqMonotonic
<1>5. t \in Seq(Fit(placed', job[h].chat, known'[job[h].chat])) /\ job[h].chat \in Chats
  BY <1>1, <1>4 DEF G, Chat
<1>6. MayRun(known', placed', t, job[h])
  BY <1>1, <1>5, LaterMayRun
<1> QED BY <1>4, <1>6 DEF t, G

\* The orders that were placed.
LEMMA PlacedRows ==
  ASSUME BotInv
  PROVE  /\ placed \in Seq(OrderRow) /\ DOMAIN placed = 1 .. Len(placed)
         /\ Len(placed) \in Nat
         /\ \A o \in DOMAIN placed : placed[o] \in OrderRow
<1>1. placed \in Seq(OrderRow)
  BY DEF BotInv, TablesOK
<1> QED BY <1>1, LenProperties, ElementOfSeq

\* A step that changes no more than carts.
LEMMA CartStepKeeps ==
  ASSUME BotInv, NEW h \in Handlers, NEW s, NEW j, Continue(h, s, j),
         MayRun(known, placed, s, j),
         carts' \in [Chats -> Rows], added' \in [Chats -> [Products -> Nat]],
         broken' \in BOOLEAN, UNCHANGED <<known, dialogue, buttons, placed>>
  PROVE  BotInv'
<1>1. Grows /\ MayRun(known', placed', s, j)
  BY DEF Grows
<1>2. HandlersOK'
  BY <1>1, HandlersKept, NoJobRow DEF BotInv
<1> QED
  BY <1>2 DEF BotInv, TablesOK, DialogueKnown, OrdersOfKnownClients,
              QuantitiesPositive, WaitsForOwnOrder

\* A step after which a handler goes on with the rest.
LEMMA ProceedKeeps ==
  ASSUME BotInv, NEW h \in Handlers, ~Idle(h), Proceed(h), Learns(Now(h)) = {},
         carts' \in [Chats -> Rows], added' \in [Chats -> [Products -> Nat]],
         broken' \in BOOLEAN, UNCHANGED <<known, dialogue, buttons, placed>>
  PROVE  BotInv'
<1>1. Grows
  BY DEF Grows
<1>2. MayRun(known, placed, Tail(todo[h]), job[h])
  BY <1>1, RestRuns
<1>3. Continue(h, Tail(todo[h]), job[h])
  BY DEF Proceed
<1> QED BY <1>2, <1>3, CartStepKeeps

\* A handler that returns early.
LEMMA ReturnKeeps ==
  ASSUME BotInv, NEW h \in Handlers, ~Idle(h), Return(h), broken' \in BOOLEAN,
         UNCHANGED <<carts, added, known, dialogue, buttons, placed>>
  PROVE  BotInv'
<1>1. MayRun(known, placed, <<>>, job[h])
  BY Running, NothingAhead
<1>2. Continue(h, <<>>, job[h])
  BY DEF Return
<1>3. carts' \in [Chats -> Rows] /\ added' \in [Chats -> [Products -> Nat]]
  BY DEF BotInv, TablesOK
<1> QED BY <1>1, <1>2, <1>3, CartStepKeeps

\* UpdateState moves a client only where he may be.
LEMMA UpdateStateKeeps ==
  ASSUME BotInv, NEW h \in Handlers, UpdateState(h)
  PROVE  BotInv'
<1>1. /\ ~Idle(h) /\ Now(h).do = "set" /\ Continue(h, Tail(todo[h]), job[h])
      /\ dialogue' = [dialogue EXCEPT ![Chat(h)] =
                        [state |-> Now(h).state, data |-> Now(h).data]]
      /\ UNCHANGED <<carts, known, buttons, placed, added, broken>>
  BY DEF UpdateState, At, Now, Proceed
<1>2. /\ Chat(h) \in Chats /\ Now(h) \in Step
      /\ Now(h).state \in States \cup Passing
      /\ Need(Now(h).state) \subseteq known[Chat(h)]
      /\ Now(h).state = "waiting_payment" =>
           /\ PlacedBy(placed, Chat(h), Now(h).data.order)
           /\ placed[Now(h).data.order].link
      /\ Learns(Now(h)) = {}
  <2>1. Learns(Now(h)) = {}
    BY <1>1 DEF Learns, Fields
  <2>2. Now(h) \in Fit(placed, Chat(h), known[Chat(h)])
    BY <1>1, <2>1, Running
  <2> QED BY <1>1, <2>1, <2>2, Running DEF Fit, NeedOf, Fields
<1>3. Now(h).data \in Data
  BY <1>2 DEF Step
<1>4. Grows
  BY <1>1 DEF Grows
<1>5. HandlersOK'
  <2>1. MayRun(known', placed', Tail(todo[h]), job[h])
    BY <1>1, <1>2, <1>4, RestRuns
  <2> QED BY <1>1, <1>4, <2>1, HandlersKept, NoJobRow DEF BotInv
<1>6. TablesOK'
  BY <1>1, <1>2, <1>3 DEF BotInv, TablesOK
<1>7. DialogueKnown'
  BY <1>1, <1>2 DEF BotInv, TablesOK, DialogueKnown
<1>8. WaitsForOwnOrder'
  BY <1>1, <1>2 DEF BotInv, TablesOK, WaitsForOwnOrder, PlacedBy
<1> QED
  BY <1>1, <1>5, <1>6, <1>7, <1>8 DEF BotInv, OrdersOfKnownClients, QuantitiesPositive

\* What is learnt of a client is kept.
LEMMA LearnKeeps ==
  ASSUME BotInv, NEW h \in Handlers, NEW f \in Fields, Learn(h, f)
  PROVE  BotInv'
<1>1. /\ ~Idle(h) /\ Now(h).do = f /\ Continue(h, Tail(todo[h]), job[h])
      /\ known' = [known EXCEPT ![Chat(h)] = @ \cup {f}]
      /\ UNCHANGED <<carts, dialogue, buttons, placed, added, broken>>
  BY DEF Learn, At, Now, Proceed
<1>2. Chat(h) \in Chats
  BY <1>1, Running
<1>3. known' \in [Chats -> SUBSET Fields] /\ \A c \in Chats : known[c] \subseteq known'[c]
  BY <1>1, <1>2 DEF BotInv, TablesOK
<1>4. Grows
  BY <1>1, <1>3 DEF Grows
<1>5. HandlersOK'
  <2>1. Learns(Now(h)) \subseteq known'[Chat(h)]
    BY <1>1, <1>2 DEF Learns, BotInv, TablesOK
  <2>2. MayRun(known', placed', Tail(todo[h]), job[h])
    BY <1>1, <1>4, <2>1, RestRuns
  <2> QED BY <1>1, <1>4, <2>2, HandlersKept, NoJobRow DEF BotInv
<1>6. TablesOK'
  BY <1>1, <1>3 DEF BotInv, TablesOK
<1>7. DialogueKnown'
  BY <1>1, <1>3 DEF BotInv, DialogueKnown
<1>8. OrdersOfKnownClients'
  <2>1. \A o \in DOMAIN placed : placed[o].chat \in Chats
    BY PlacedRows DEF OrderRow
  <2> QED BY <1>1, <1>3, <2>1 DEF BotInv, OrdersOfKnownClients
<1> QED
  BY <1>1, <1>5, <1>6, <1>7, <1>8 DEF BotInv, QuantitiesPositive, WaitsForOwnOrder
\* The second read of the row of state.
LEMMA KeepDataKeeps ==
  ASSUME BotInv, NEW h \in Handlers, KeepData(h)
  PROVE  BotInv'
<1>1. /\ ~Idle(h) /\ Now(h).do = "keep" /\ Unmoved
  BY DEF KeepData, At, Now
<1>2. PICK st \in Reads(h) :
        Continue(h, <<Set(Now(h).state, st)>> \o Tail(todo[h]), job[h])
  BY DEF KeepData, Now
<1>3. job[h] \in JobRow /\ Chat(h) \in Chats /\ st \in Data
  <2>1. job[h] \in JobRow /\ Chat(h) \in Chats
    BY <1>1, Running
  <2>2. dialogue[Chat(h)].data \in Data
    BY <2>1 DEF BotInv, TablesOK
  <2> QED BY <2>1, <2>2, <1>2, NoJobRow DEF Reads
<1>4. /\ Learns(Now(h)) = {} /\ Now(h).state \in States \cup Passing
      /\ Now(h).state # "waiting_payment" /\ known[Chat(h)] = Fields
  <2>1. Learns(Now(h)) = {}
    BY <1>1 DEF Learns, Fields
  <2>2. Now(h) \in Fit(placed, Chat(h), known[Chat(h)])
    BY <1>1, <2>1, Running
  <2> QED BY <1>1, <2>1, <2>2, Running DEF Fit, NeedOf, Fields
<1> DEFINE a == Set(Now(h).state, st)
           F == Fit(placed, Chat(h), known[Chat(h)])
           t == Tail(todo[h])
<1>5. a \in F /\ a \in Later
  BY <1>3, <1>4, StepsFit DEF Need, Fields
<1>6. t \in Seq(Later) /\ t \in Seq(F) /\ Len(t) <= 3 /\ Len(t) \in Nat
  BY <1>1, <1>4, Running
<1> HIDE DEF a, F, t
<1> DEFINE s == <<a>> \o t
<1>7. s \in Seq(Later) /\ s \in Seq(F) /\ Len(s) = Len(t) + 1
  BY <1>5, <1>6, Before
<1> HIDE DEF s
<1>8. Len(s) <= 4
  BY <1>6, <1>7
<1>9. MayRun(known, placed, s, job[h])
  <2>1. job[h].chat \in Chats /\ s \in Seq(Fit(placed, job[h].chat, known[job[h].chat]))
    BY <1>3, <1>7 DEF F, Chat
  <2> QED BY <1>3, <1>7, <1>8, <2>1, LaterMayRun
<1> QED BY <1>1, <1>2, <1>9, DecisionKeeps DEF s, a, t

\* The cart is shown, to one who is known.
LEMMA CartShownKeeps ==
  ASSUME BotInv, NEW h \in Handlers, GetCartInfo(h) \/ RefreshCartMessage(h)
  PROVE  BotInv'
<1> DEFINE new == {CartKeyboard(carts[Chat(h)])}
<1>1. /\ ~Idle(h) /\ Now(h).do \in {"show_cart_view", "refresh"}
      /\ buttons' = [buttons EXCEPT ![Chat(h)] = @ \cup new]
      /\ UNCHANGED <<carts, known, dialogue, placed, added, broken>>
  BY DEF GetCartInfo, RefreshCartMessage, At, Now
<1>2. new \in SUBSET {"card", "items", "empty_cart"}
  BY DEF CartKeyboard
<1>3. /\ job[h] \in JobRow /\ Chat(h) \in Chats /\ known[Chat(h)] = Fields
      /\ Learns(Now(h)) = {}
  <2>1. Learns(Now(h)) = {}
    BY <1>1 DEF Learns, Fields
  <2>2. Now(h) \in Fit(placed, Chat(h), known[Chat(h)])
    BY <1>1, <2>1, Running
  <2> QED BY <1>1, <2>1, <2>2, Running DEF Fit, NeedOf, Fields
<1> HIDE DEF new
<1>4. CASE GetCartInfo(h)
  <2> DEFINE a == Set("get_cart", NoData)
             F == Fit(placed, Chat(h), known[Chat(h)])
             t == Tail(todo[h])
             s == <<a>> \o t
  <2>1. Continue(h, s, job[h])
    BY <1>4 DEF GetCartInfo
  <2>2. a \in F /\ a \in Later
    BY <1>3, StepsFit, NoJobRow DEF Need, Fields, States
  <2>3. t \in Seq(Later) /\ t \in Seq(F) /\ Len(t) <= 3 /\ Len(t) \in Nat
    BY <1>1, <1>3, Running
  <2> HIDE DEF a, F, t
  <2>4. s \in Seq(Later) /\ s \in Seq(F) /\ Len(s) = Len(t) + 1
    BY <2>2, <2>3, Before
  <2> HIDE DEF s
  <2>5. Len(s) <= 4
    BY <2>3, <2>4
  <2>6. job[h].chat \in Chats /\ s \in Seq(Fit(placed, job[h].chat, known[job[h].chat]))
    BY <1>3, <2>4 DEF F, Chat
  <2>7. MayRun(known, placed, s, job[h])
    BY <1>3, <2>4, <2>5, <2>6, LaterMayRun
  <2> QED BY <1>1, <1>2, <1>3, <2>1, <2>7, KeyboardKeeps
<1>5. CASE RefreshCartMessage(h)
  <2>1. Continue(h, <<>>, job[h])
    BY <1>5 DEF RefreshCartMessage, Return
  <2>2. MayRun(known, placed, <<>>, job[h])
    BY <1>3, NothingAhead
  <2> QED BY <1>1, <1>2, <1>3, <2>1, <2>2, KeyboardKeeps
<1> QED BY <1>4, <1>5

\* The upsert, with the clean-up to follow.
LEMMA UpsertKeeps ==
  ASSUME BotInv, NEW h \in Handlers, UpsertItem(h)
  PROVE  BotInv'
<1> DEFINE c == Chat(h)
           p == job[h].product
           n == job[h].count
<1>1. /\ ~Idle(h) /\ Now(h).do = "upsert" /\ Upsert(c, p, n)
      /\ added' = [added EXCEPT ![c][p] = IF n > 0 THEN @ + n ELSE @]
      /\ Continue(h, <<Do("cleanup")>> \o Tail(todo[h]), job[h])
      /\ UNCHANGED <<known, dialogue, buttons, placed, broken>>
  BY DEF UpsertItem, At, Now
<1>2. /\ job[h] \in JobRow /\ c \in Chats /\ p \in Products /\ n \in Int
      /\ Learns(Now(h)) = {}
  <2>1. Learns(Now(h)) = {}
    BY <1>1 DEF Learns, Fields
  <2> QED BY <1>1, <2>1, Running DEF Relies, JobRow
<1>3. carts' \in [Chats -> Rows]
  <2>1. carts' = [carts EXCEPT ![c] = Upserted(carts[c], p, n)]
    BY <1>1, <1>2 DEF Upsert, Upserted, BotInv, TablesOK
  <2>2. carts \in [Chats -> Rows]
    BY DEF BotInv, TablesOK
  <2>3. Upserted(carts[c], p, n) \in Rows
    BY <1>2, <2>2, UpsertedRows
  <2> QED BY <1>2, <2>1, <2>2, <2>3
<1>4. added' \in [Chats -> [Products -> Nat]] /\ broken' \in BOOLEAN
  <2>1. added \in [Chats -> [Products -> Nat]] /\ broken \in BOOLEAN
    BY DEF BotInv, TablesOK
  <2>2. (IF n > 0 THEN added[c][p] + n ELSE added[c][p]) \in Nat
    BY <1>2, <2>1
  <2> QED BY <1>1, <1>2, <2>1, <2>2
<1>5. MayRun(known, placed, <<Do("cleanup")>> \o Tail(todo[h]), job[h])
  <2> DEFINE a == Do("cleanup")
             k == known[c]
             j == job[h]
             t == Tail(todo[h])
  <2>1. a \in Step /\ a.do = "cleanup" /\ Learns(a) = {}
    BY NoJobRow DEF Do, Step, Checked, Fields, Learns
  <2>2. a \in Fit(placed, j.chat, k)
    BY <2>1 DEF Do, Fit, NeedOf, Fields
  <2>3. Relies(known, placed, a.do, j)
    BY <1>2, <2>1 DEF Relies
  <2>4. /\ t \in Seq(Later) /\ t \in Seq(Fit(placed, j.chat, k))
        /\ Len(t) <= 3
    BY <1>1, <1>2, Running DEF Chat
  <2>5. k = known[j.chat] \cup Learns(a) /\ j \in JobRow /\ j.chat \in Chats
    BY <1>2, <2>1 DEF Chat
  <2> HIDE DEF a, k, j, t
  <2>6. t \in Seq(Later \cap Fit(placed, j.chat, k))
    BY <2>4, SeqMonotonic
  <2>7. MayRun(known, placed, <<a>> \o t, j)
    BY <2>1, <2>2, <2>3, <2>4, <2>5, <2>6, LedBy
  <2> QED BY <2>7 DEF a, j, t
<1> QED BY <1>1, <1>3, <1>4, <1>5, CartStepKeeps

\* The statements that take rows away.
LEMMA RowsGoKeeps ==
  ASSUME BotInv, NEW h \in Handlers,
         CleanupItem(h) \/ DeleteItem(h) \/ ClearCart(h)
  PROVE  BotInv'
<1>1. /\ ~Idle(h) /\ Now(h).do \in {"cleanup", "delete", "clear"} /\ Proceed(h)
      /\ UNCHANGED <<known, dialogue, buttons, placed, added, broken>>
  BY DEF CleanupItem, DeleteItem, ClearCart, At, Now
<1>2. Learns(Now(h)) = {} /\ Chat(h) \in Chats
  BY <1>1, Running DEF Learns, Fields
<1>3. carts \in [Chats -> Rows] /\ added \in [Chats -> [Products -> Nat]]
      /\ broken \in BOOLEAN
  BY DEF BotInv, TablesOK
<1>4. carts' \in [Chats -> Rows]
  <2>1. PICK r \in Rows : carts' = [carts EXCEPT ![Chat(h)] = r]
    BY <1>2, <1>3, RowsKept
    DEF CleanupItem, DeleteItem, ClearCart, Cleanup, Delete, Clear
  <2> QED BY <1>2, <1>3, <2>1
<1> QED BY <1>1, <1>2, <1>3, <1>4, ProceedKeeps

\* What is shown after a change.
LEMMA LookKeeps ==
  ASSUME BotInv, NEW h \in Handlers,
         \/ LookAtCart(h) \/ LookAfterDelete(h)
         \/ /\ At(h, "look_deleted") /\ Continue(h, <<Do("refresh")>>, job[h])
            /\ broken' \in BOOLEAN
            /\ UNCHANGED <<carts, known, dialogue, buttons, placed, added>>
  PROVE  BotInv'
<1>1. /\ ~Idle(h) /\ Now(h).do \in {"look_changed", "look_deleted"}
      /\ broken' \in BOOLEAN
      /\ UNCHANGED <<carts, known, dialogue, buttons, placed, added>>
  BY DEF LookAtCart, LookAfterDelete, At, Now, Unmoved, BotInv, TablesOK
<1>2. /\ job[h] \in JobRow /\ job[h].chat \in Chats /\ known[job[h].chat] = Fields
  <2>1. Learns(Now(h)) = {}
    BY <1>1 DEF Learns, Fields
  <2>2. Now(h) \in Fit(placed, Chat(h), known[Chat(h)])
    BY <1>1, <2>1, Running
  <2> QED BY <1>1, <2>1, <2>2, Running DEF Fit, NeedOf, Fields, Chat
<1>3. \A s : Continue(h, s, job[h]) /\ MayRun(known, placed, s, job[h]) => BotInv'
  <2>1. carts' \in [Chats -> Rows] /\ added' \in [Chats -> [Products -> Nat]]
    BY <1>1 DEF BotInv, TablesOK
  <2> QED BY <1>1, <2>1, CartStepKeeps
<1>4. /\ MayRun(known, placed, <<>>, job[h])
      /\ MayRun(known, placed, <<ShowMainMenu>>, job[h])
      /\ MayRun(known, placed, <<SetNil("show_main_menu"), ShowMainMenu>>, job[h])
  <2> DEFINE F == Fit(placed, job[h].chat, known[job[h].chat])
  <2>1. ShowMainMenu \in F \cap Later /\ SetNil("show_main_menu") \in F \cap Later
    BY <1>2, StepsFit DEF Fields
  <2> HIDE DEF F
  <2>2. \A a, b \in F \cap Later :
          /\ <<a>> \in Seq(F) /\ <<a>> \in Seq(Later) /\ Len(<<a>>) <= 4
          /\ <<a, b>> \in Seq(F) /\ <<a, b>> \in Seq(Later) /\ Len(<<a, b>>) <= 4
    BY FewSteps
  <2>3. \A s \in Seq(Later) : s \in Seq(F) /\ Len(s) <= 4 =>
          MayRun(known, placed, s, job[h])
    BY <1>2, LaterMayRun DEF F
  <2>4. MayRun(known, placed, <<>>, job[h])
    BY <1>2, NothingAhead
  <2> QED BY <2>1, <2>2, <2>3, <2>4
<1>5. MayRun(known, placed, <<Do("refresh")>>, job[h])
  <2> DEFINE a == Do("refresh")
             j == job[h]
  <2>1. a \in Step /\ a.do = "refresh" /\ Learns(a) = {}
    BY NoJobRow DEF Do, Step, Checked, Fields, Learns
  <2>2. a \in Fit(placed, j.chat, known[j.chat])
    BY <1>2, <2>1 DEF Do, Fit, NeedOf, Fields
  <2>3. Relies(known, placed, a.do, j)
    BY <2>1 DEF Relies
  <2>4. known[j.chat] = known[j.chat] \cup Learns(a) /\ j \in JobRow /\ j.chat \in Chats
    BY <1>2, <2>1
  <2> HIDE DEF a, j
  <2>5. MayRun(known, placed, <<a>>, j)
    BY <2>1, <2>2, <2>3, <2>4, LedBy
  <2> QED BY <2>5 DEF a, j
<1> QED BY <1>3, <1>4, <1>5 DEF LookAtCart, LookAfterDelete

\* Whatever statement a handler runs.
LEMMA StatementKeeps ==
  ASSUME BotInv, NEW h \in Handlers, Statement(h)
  PROVE  BotInv'
<1>1. CASE UpdateStateNil(h)
  <2>1. /\ ~Idle(h) /\ Now(h).do = "set_nil" /\ Proceed(h) /\ Unmoved
    BY <1>1 DEF UpdateStateNil, At, Now
  <2>2. Learns(Now(h)) = {}
    BY <2>1 DEF Learns, Fields
  <2>3. carts' \in [Chats -> Rows] /\ added' \in [Chats -> [Products -> Nat]]
        /\ broken' \in BOOLEAN
    BY <2>1 DEF BotInv, TablesOK, Unmoved
  <2> QED BY <2>1, <2>2, <2>3, ProceedKeeps DEF Unmoved
<1>2. CASE \E f \in Fields : Learn(h, f)
  BY <1>2, LearnKeeps
<1> QED
  BY <1>1, <1>2, UpdateStateKeeps, KeepDataKeeps, CartShownKeeps, UpsertKeeps,
     RowsGoKeeps, LookKeeps
  DEF Statement
----------------------------------------------------------------------------
(* Orders                                                                  *)

\* The cart is read, and may be refused.
LEMMA ReadCartKeeps ==
  ASSUME BotInv, NEW w \in Handlers, ReadCart(w)
  PROVE  BotInv'
<1> DEFINE j == [job[w] EXCEPT !.items = carts[Chat(w)]]
           a == Do("create")
<1>1. /\ ~Idle(w) /\ Now(w).do = "read_cart" /\ Unmoved
  BY DEF ReadCart, At, Now
<1>2. /\ job[w] \in JobRow /\ Chat(w) \in Chats /\ known[Chat(w)] = Fields
      /\ job[w].method # ""
  <2>1. Learns(Now(w)) = {}
    BY <1>1 DEF Learns, Fields
  <2>2. Now(w) \in Fit(placed, Chat(w), known[Chat(w)])
    BY <1>1, <2>1, Running
  <2> QED BY <1>1, <2>1, <2>2, Running DEF Fit, NeedOf, Fields, Relies
<1>3. carts[Chat(w)] \in Rows
  BY <1>2 DEF BotInv, TablesOK
<1>4. /\ j \in JobRow /\ j.chat = Chat(w) /\ j.method # ""
      /\ j.items = carts[Chat(w)]
  BY <1>2, <1>3 DEF JobRow, Chat
<1>5. \/ Continue(w, <<>>, j)
      \/ Continue(w, <<a>>, j) /\ carts[Chat(w)] # NoRows
  BY DEF ReadCart
<1>6. a \in Step /\ a.do = "create" /\ Learns(a) = {}
  BY NoJobRow DEF Do, Step, Checked, Fields, Learns
<1>7. a \in Fit(placed, Chat(w), known[Chat(w)])
  BY <1>2, <1>6 DEF Do, Fit, NeedOf, Fields
<1> HIDE DEF a, j
<1>8. carts[Chat(w)] # NoRows => Relies(known, placed, a.do, j)
  BY <1>4, <1>6 DEF Relies
<1>9. known[Chat(w)] = known[j.chat] \cup Learns(a)
  BY <1>4, <1>6
<1>10. carts[Chat(w)] # NoRows => MayRun(known, placed, <<a>>, j)
  BY <1>2, <1>4, <1>6, <1>7, <1>8, <1>9, LedBy
<1>11. MayRun(known, placed, <<>>, j)
  BY <1>4, NothingAhead
<1> QED BY <1>1, <1>5, <1>10, <1>11, DecisionKeeps

\* A step that stores orders or gives them a link, or a payment, and loses none.
LEMMA OrderStepKeeps ==
  ASSUME BotInv, HandlersOK', Grows, placed' \in Seq(OrderRow),
         Len(placed') <= MaxOrders,
         OrdersOfKnownClients', QuantitiesPositive',
         UNCHANGED <<carts, known, dialogue, buttons, added>>, broken' \in BOOLEAN
  PROVE  BotInv'
<1>1. WaitsForOwnOrder'
  BY DEF BotInv, WaitsForOwnOrder, Grows
<1> QED BY <1>1 DEF BotInv, TablesOK, DialogueKnown

\* What a handler does once its order is stored and has a link.
LEMMA AfterOrderRuns ==
  ASSUME NEW pl, NEW j \in JobRow, j.chat \in Chats, NEW o \in Orders,
         known[j.chat] = Fields,
         j.method # "cash" => PlacedBy(pl, j.chat, o) /\ pl[o].link
  PROVE  MayRun(known, pl, AfterOrder(j, o), j)
<1> DEFINE F == Later \cap Fit(pl, j.chat, known[j.chat])
           d == [NoData EXCEPT !.order = o]
           online == Set("waiting_payment", d)
<1>1. Do("clear") \in F /\ SetNil("show_main_menu") \in F
  BY StepsFit
<1>2. d \in Data /\ d.order = o
  BY OrderData
<1> HIDE DEF d
<1>3. j.method # "cash" => online \in F
  BY <1>2 DEF Set, Later, Fit, Step, Ignored, NeedOf, Need, Fields, NoState, States
<1> HIDE DEF F, online
<1>4. AfterOrder(j, o) \in Seq(F) /\ Len(AfterOrder(j, o)) <= 4
  <2>1. AfterOrder(j, o) = IF j.method = "cash"
                             THEN <<Do("clear"), SetNil("show_main_menu")>>
                             ELSE <<Do("clear"), online>>
    BY DEF AfterOrder, online, d
  <2> QED BY <1>1, <1>3, <2>1, FewSteps
<1> DEFINE s == AfterOrder(j, o)
<1>5. s \in Seq(Later) /\ s \in Seq(Fit(pl, j.chat, known[j.chat]))
  BY <1>4, SeqMonotonic DEF F
<1> HIDE DEF s
<1>6. MayRun(known, pl, s, j)
  BY <1>4, <1>5, LaterMayRun DEF s
<1> QED BY <1>6 DEF s

\* The INSERT of an order.
LEMMA CreateOrderKeeps ==
  ASSUME BotInv, NEW w \in Handlers, CreateOrder(w)
  PROVE  BotInv'
<1>1. /\ ~Idle(w) /\ Now(w).do = "create"
      /\ UNCHANGED <<carts, known, dialogue, buttons, added, broken>>
  BY DEF CreateOrder, At, Now
<1>2. /\ job[w] \in JobRow /\ Chat(w) \in Chats /\ known[Chat(w)] = Fields
      /\ job[w].method \in {"cash", "online"} /\ job[w].items # NoRows
  <2>1. Learns(Now(w)) = {}
    BY <1>1 DEF Learns, Fields
  <2>2. Now(w) \in Fit(placed, Chat(w), known[Chat(w)])
    BY <1>1, <2>1, Running
  <2> QED BY <1>1, <2>1, <2>2, Running DEF Fit, NeedOf, Fields, Relies, JobRow
<1>3. CASE Return(w) /\ UNCHANGED placed
  <2>1. broken' \in BOOLEAN
    BY <1>1 DEF BotInv, TablesOK
  <2> QED BY <1>1, <1>3, <2>1, ReturnKeeps
<1>4. CASE ~(Return(w) /\ UNCHANGED placed)
  <2> DEFINE o == Len(placed) + 1
             r == [chat |-> Chat(w), items |-> job[w].items,
                   method |-> job[w].method, delivered |-> ToDeliver(job[w].data),
                   link |-> FALSE, paid |-> FALSE]
             d == [NoData EXCEPT !.order = o]
             j == [job[w] EXCEPT !.data = d]
             s == IF job[w].method = "cash" THEN AfterOrder(job[w], o)
                                            ELSE <<Do("link")>>
  <2>1. /\ Acceptable(job[w].items) /\ o \in Orders
        /\ placed' = Append(placed, r) /\ Continue(w, s, j)
    BY <1>4 DEF CreateOrder
  <2>2. r \in OrderRow /\ r.chat = Chat(w) /\ r.method = job[w].method
        /\ r.items = job[w].items
    BY <1>2 DEF OrderRow, JobRow, ToDeliver
  <2>3. d \in Data /\ d.order = o
    BY <2>1, OrderData
  <2> HIDE DEF d
  <2>4. /\ j \in JobRow /\ j.chat = Chat(w) /\ j.method = job[w].method
        /\ j.data.order = o
    BY <1>2, <2>3 DEF JobRow, Chat
  <2> HIDE DEF r, j
  <2>5. /\ placed' \in Seq(OrderRow) /\ Len(placed') = o
        /\ DOMAIN placed' = 1 .. o /\ placed'[o] = r
        /\ \A i \in DOMAIN placed : i \in 1 .. o /\ i # o /\ placed'[i] = placed[i]
        /\ \A i \in 1 .. o : i # o => i \in DOMAIN placed
    <3>1. placed' \in Seq(OrderRow) /\ Len(placed') = Len(placed) + 1
          /\ \A i \in 1 .. Len(placed) + 1 :
               placed'[i] = IF i <= Len(placed) THEN placed[i] ELSE r
      BY <2>1, <2>2, PlacedRows, AppendProperties
    <3> QED BY <3>1, PlacedRows, LenProperties
  <2>6. Grows
    BY <1>1, <2>5 DEF Grows
  <2>7. OrdersOfKnownClients'
    BY <1>1, <1>2, <2>2, <2>5 DEF BotInv, OrdersOfKnownClients
  <2>8. QuantitiesPositive'
    BY <1>2, <2>1, <2>2, <2>5 DEF BotInv, QuantitiesPositive, Acceptable
  <2>9. Len(placed') <= MaxOrders
    BY <2>1, <2>5, MaxOrdersAssumption DEF Orders
  <2>10. PlacedBy(placed', Chat(w), o) \/ job[w].method = "cash"
    BY <1>2, <2>2, <2>5, PlacedRows DEF PlacedBy
  <2>11. MayRun(known', placed', s, j)
    <3>1. CASE job[w].method = "cash"
      <4>1. j.chat \in Chats /\ known[j.chat] = Fields /\ j.method = "cash"
        BY <1>2, <2>4, <3>1
      <4>2. MayRun(known, placed', AfterOrder(j, o), j)
        BY <2>1, <2>4, <4>1, AfterOrderRuns
      <4>3. s = AfterOrder(j, o)
        BY <2>4, <3>1 DEF AfterOrder
      <4> QED BY <1>1, <4>2, <4>3
    <3>2. CASE job[w].method = "online"
      <4> DEFINE a == Do("link")
      <4>1. a \in Step /\ a.do = "link" /\ Learns(a) = {}
        BY NoJobRow DEF Do, Step, Checked, Fields, Learns
      <4>2. a \in Fit(placed', j.chat, known[j.chat])
        BY <1>2, <2>4, <4>1 DEF Do, Fit, NeedOf, Fields
      <4>3. Relies(known, placed', a.do, j)
        BY <2>4, <2>10, <3>2, <4>1 DEF Relies
      <4>4. known[j.chat] = known[j.chat] \cup Learns(a) /\ j.chat \in Chats
        BY <1>2, <2>4, <4>1
      <4>5. s = <<a>>
        BY <3>2
      <4> HIDE DEF a, s
      <4>6. MayRun(known, placed', <<a>>, j)
        BY <2>4, <4>1, <4>2, <4>3, <4>4, LedBy
      <4> QED BY <1>1, <4>5, <4>6
    <3> QED BY <1>2, <3>1, <3>2
  <2>12. HandlersOK'
    <3> HIDE DEF s, o
    <3> QED BY <2>1, <2>6, <2>11, HandlersKept, NoJobRow DEF BotInv
  <2>13. broken' \in BOOLEAN
    BY <1>1 DEF BotInv, TablesOK
  <2> QED
    BY <1>1, <2>5, <2>6, <2>7, <2>8, <2>9, <2>12, <2>13, OrderStepKeeps
<1> QED BY <1>3, <1>4
\* The link of an order that is paid online.
LEMMA CreateLinkKeeps ==
  ASSUME BotInv, NEW w \in Handlers, CreateLink(w)
  PROVE  BotInv'
<1> DEFINE o == job[w].data.order
<1>1. /\ ~Idle(w) /\ Now(w).do = "link"
      /\ placed' = [placed EXCEPT ![o].link = TRUE]
      /\ Continue(w, AfterOrder(job[w], o), job[w])
      /\ UNCHANGED <<carts, known, dialogue, buttons, added, broken>>
  BY DEF CreateLink, At, Now
<1>2. /\ job[w] \in JobRow /\ Chat(w) \in Chats /\ known[Chat(w)] = Fields
      /\ job[w].method = "online" /\ PlacedBy(placed, Chat(w), o)
  <2>1. Learns(Now(w)) = {}
    BY <1>1 DEF Learns, Fields
  <2>2. Now(w) \in Fit(placed, Chat(w), known[Chat(w)])
    BY <1>1, <2>1, Running
  <2> QED BY <1>1, <2>1, <2>2, Running DEF Fit, NeedOf, Fields, Relies, Chat
<1> HIDE DEF o
<1>3. o \in DOMAIN placed /\ placed[o] \in OrderRow /\ o \in Orders
  BY <1>2, PlacedRows, MaxOrdersAssumption
  DEF PlacedBy, Orders, BotInv, TablesOK
<1>4. /\ placed' = [placed EXCEPT ![o] = [@ EXCEPT !.link = TRUE]]
      /\ [placed[o] EXCEPT !.link = TRUE] \in OrderRow
  BY <1>1, <1>3 DEF OrderRow
<1>5. /\ placed' \in Seq(OrderRow) /\ Len(placed') = Len(placed)
      /\ DOMAIN placed' = DOMAIN placed
      /\ placed'[o] = [placed[o] EXCEPT !.link = TRUE]
      /\ \A i \in DOMAIN placed : i # o => placed'[i] = placed[i]
  BY <1>3, <1>4, PlacedRows, ExceptSeq
<1>6. \A i \in DOMAIN placed :
        /\ placed'[i].chat = placed[i].chat
        /\ placed'[i].method = placed[i].method
        /\ placed'[i].items = placed[i].items
        /\ placed[i].link => placed'[i].link
  BY <1>3, <1>5 DEF OrderRow
<1>7. Grows /\ placed'[o].link
  BY <1>1, <1>3, <1>5, <1>6 DEF Grows, OrderRow
<1>8. OrdersOfKnownClients' /\ QuantitiesPositive'
  BY <1>1, <1>5, <1>6 DEF BotInv, OrdersOfKnownClients, QuantitiesPositive
<1>9. HandlersOK'
  <2>1. PlacedBy(placed', Chat(w), o)
    BY <1>2, <1>7 DEF PlacedBy, Grows
  <2>2. MayRun(known, placed', AfterOrder(job[w], o), job[w])
    BY <1>2, <1>3, <1>7, <2>1, AfterOrderRuns DEF Chat
  <2>3. MayRun(known', placed', AfterOrder(job[w], o), job[w])
    BY <1>1, <2>2
  <2> QED BY <1>1, <1>7, <2>3, HandlersKept, NoJobRow DEF BotInv
<1> QED
  BY <1>1, <1>5, <1>7, <1>8, <1>9, OrderStepKeeps DEF BotInv, TablesOK

\* A payment, whoever reports it.
LEMMA PayKeeps ==
  ASSUME BotInv, NEW o \in Orders, Pay(o)
  PROVE  BotInv'
<1>1. /\ o \in DOMAIN placed /\ placed[o] \in OrderRow
      /\ placed' = [placed EXCEPT ![o] = [@ EXCEPT !.paid = TRUE]]
      /\ UNCHANGED <<carts, known, dialogue, buttons, todo, job, added, broken>>
  BY PlacedRows DEF Pay
<1>2. [placed[o] EXCEPT !.paid = TRUE] \in OrderRow
  BY <1>1 DEF OrderRow
<1>3. /\ placed' \in Seq(OrderRow) /\ Len(placed') = Len(placed)
      /\ DOMAIN placed' = DOMAIN placed
      /\ placed'[o] = [placed[o] EXCEPT !.paid = TRUE]
      /\ \A i \in DOMAIN placed : i # o => placed'[i] = placed[i]
  BY <1>1, <1>2, PlacedRows, ExceptSeq
<1>4. \A i \in DOMAIN placed :
        /\ placed'[i].chat = placed[i].chat
        /\ placed'[i].method = placed[i].method
        /\ placed'[i].items = placed[i].items
        /\ placed[i].link => placed'[i].link
  BY <1>1, <1>3 DEF OrderRow
<1>5. Grows
  BY <1>1, <1>3, <1>4 DEF Grows
<1>6. OrdersOfKnownClients' /\ QuantitiesPositive'
  BY <1>1, <1>3, <1>4 DEF BotInv, OrdersOfKnownClients, QuantitiesPositive
<1>7. HandlersOK'
  <2>1. \A h \in Handlers : MayRun(known', placed', todo[h], job[h])
    <3> SUFFICES ASSUME NEW h \in Handlers
                 PROVE  MayRun(known', placed', todo[h], job[h])
      OBVIOUS
    <3>1. MayRun(known, placed, todo[h], job[h])
      BY DEF BotInv, HandlersOK
    <3> QED BY <1>5, <3>1, RunsStill
  <2> QED BY <1>1, <2>1 DEF BotInv, HandlersOK, Idle
<1> QED
  BY <1>1, <1>3, <1>5, <1>6, <1>7, OrderStepKeeps DEF BotInv, TablesOK

----------------------------------------------------------------------------
(* Updates, calls of the web page and failures                             *)

\* An update has a route only where its client may be.
LEMMA UpdateKeeps ==
  ASSUME BotInv, NEW w \in Workers, Update(w)
  PROVE  BotInv'
<1>1. PICK c \in Chats, i \in Inputs, p \in Products \cup {"none"}, n \in -1 .. MaxAdded :
        ProductOf(i, p) /\ Receive(w, c, i, p, n)
  BY DEF Update
<1> DEFINE r == IF i = "start" \/ i \in Callbacks THEN i ELSE dialogue[c].state
           j == [NoJob EXCEPT !.chat = c, !.input = i, !.route = r,
                              !.product = p, !.count = n]
           a == Do("handle")
<1>2. /\ Continue(w, <<a>>, j) /\ Unmoved /\ w \in Handlers
      /\ \/ i = "start"
         \/ i \in Messages /\ dialogue[c].state \in States
         \/ i \in Callbacks /\ Keyboard(i) \in buttons[c]
  BY <1>1 DEF Receive, Unmoved, Handlers
<1>3. r \in Routes /\ Need(r) \subseteq known[c]
  <2>1. CASE i = "start"
    BY <2>1 DEF Routes, Need
  <2>2. CASE i \in Callbacks /\ buttons[c] # {}
    <3>1. r \in Routes /\ known[c] = Fields
      BY <2>2 DEF Routes, BotInv, DialogueKnown
    <3>2. Need(r) \subseteq Fields
      BY DEF Need, Fields
    <3> QED BY <3>1, <3>2
  <2>3. CASE i # "start" /\ i \notin Callbacks /\ dialogue[c].state \in States
    BY <2>3 DEF Routes, BotInv, DialogueKnown
  <2>4. Messages \cap Callbacks = {}
    BY DEF Messages, Callbacks
  <2> QED BY <1>2, <2>1, <2>2, <2>3, <2>4
<1>4. r \in {"add_to_cart", "cart_inc", "cart_dec", "cart_del"} => p \in Products
  BY <1>1, <1>2 DEF ProductOf, Callbacks, States
<1>5. r # ""
  BY <1>3 DEF Routes, States, Callbacks
<1> HIDE DEF r
<1>6. /\ j \in JobRow /\ j.chat = c /\ j.route = r /\ j.product = p
  <2>1. n \in Int
    BY CountAssumption
  <2>2. r \in Routes \cup {""} /\ i \in Inputs \cup {""}
    BY <1>3
  <2>3. \A q \in JobRow :
          LET k == [q EXCEPT !.chat = c, !.input = i, !.route = r,
                             !.product = p, !.count = n] IN
          k \in JobRow /\ k.chat = c /\ k.route = r /\ k.product = p
    BY <2>1, <2>2 DEF JobRow
  <2> QED BY <2>3, NoJobRow
<1> HIDE DEF j
<1>7. a \in Step /\ a.do = "handle" /\ Learns(a) = {}
  BY NoJobRow DEF Do, Step, Checked, Fields, Learns
<1>8. a \in Fit(placed, c, known[c])
  BY <1>7 DEF Do, Fit, NeedOf, Fields
<1>9. Relies(known, placed, a.do, j)
  BY <1>3, <1>4, <1>5, <1>6, <1>7 DEF Relies
<1> HIDE DEF a
<1>10. known[c] = known[j.chat] \cup Learns(a)
  BY <1>6, <1>7
<1>11. MayRun(known, placed, <<a>>, j)
  BY <1>6, <1>7, <1>8, <1>9, <1>10, LedBy
<1> QED BY <1>2, <1>11, DecisionKeeps

\* The gateway changes any client's cart.
LEMMA WebCartKeeps ==
  ASSUME BotInv, NEW r \in Requests, NEW c \in Chats, NEW p \in Products,
         NEW n \in {-1, 1}, WebCart(r, c, p, n)
  PROVE  BotInv'
<1>1. PICK s \in {"upsert", "delete", "clear"} :
        Continue(r, <<Do(s)>>, [NoJob EXCEPT !.chat = c, !.product = p, !.count = n])
  BY DEF WebCart
<1> DEFINE j == [NoJob EXCEPT !.chat = c, !.product = p, !.count = n]
           a == Do(s)
<1>2. j \in JobRow /\ j.chat = c /\ j.product = p
  <2>1. n \in Int
    OBVIOUS
  <2>2. \A q \in JobRow :
          LET k == [q EXCEPT !.chat = c, !.product = p, !.count = n] IN
          k \in JobRow /\ k.chat = c /\ k.product = p
    BY <2>1 DEF JobRow
  <2> QED BY <2>2, NoJobRow
<1> HIDE DEF j
<1>3. a \in Step /\ a.do = s /\ Learns(a) = {}
  BY NoJobRow DEF Do, Step, Checked, Ignored, Fields, Learns
<1>4. a \in Fit(placed, c, known[c])
  BY <1>3 DEF Do, Fit, NeedOf, Fields
<1>5. Relies(known, placed, a.do, j)
  BY <1>2, <1>3 DEF Relies
<1> HIDE DEF a
<1>6. known[c] = known[j.chat] \cup Learns(a)
  BY <1>2, <1>3
<1>7. MayRun(known, placed, <<a>>, j)
  BY <1>2, <1>3, <1>4, <1>5, <1>6, LedBy
<1> QED BY <1>1, <1>7, DecisionKeeps DEF WebCart, Handlers, a, j

\* A statement fails, a provider gives no link, or the process dies.
LEMMA FailuresKeep ==
  ASSUME BotInv,
         \/ \E h \in Handlers : FailStatement(h)
         \/ \E w \in Workers : NoLink(w)
         \/ BotCrash
  PROVE  BotInv'
<1>1. ASSUME NEW h \in Handlers, FailStatement(h) PROVE BotInv'
  <2>1. /\ ~Idle(h) /\ broken' \in BOOLEAN
        /\ UNCHANGED <<carts, known, dialogue, buttons, placed, added>>
    BY <1>1 DEF FailStatement
  <2>2. CASE Return(h)
    BY <2>1, <2>2, ReturnKeeps
  <2>3. CASE Head(todo[h]).do \in Ignored /\ Proceed(h)
    <3>1. Learns(Now(h)) = {}
      BY <2>3 DEF Learns, Ignored, Fields, Now
    <3>2. carts' \in [Chats -> Rows] /\ added' \in [Chats -> [Products -> Nat]]
      BY <2>1 DEF BotInv, TablesOK
    <3> QED BY <2>1, <2>3, <3>1, <3>2, ProceedKeeps
  <2>4. CASE At(h, "look_deleted") /\ Continue(h, <<Do("refresh")>>, job[h])
    BY <2>1, <2>4, LookKeeps
  <2> QED BY <1>1, <2>2, <2>3, <2>4 DEF FailStatement
<1>2. ASSUME NEW w \in Workers, NoLink(w) PROVE BotInv'
  BY <1>2, ReturnKeeps DEF NoLink, At, Handlers
<1>3. CASE BotCrash
  <2>1. HandlersOK'
    BY <1>3, NoJobRow DEF BotCrash, HandlersOK, Idle, MayRun
  <2> QED
    BY <1>3, <2>1 DEF BotCrash, BotInv, TablesOK, DialogueKnown,
       OrdersOfKnownClients, QuantitiesPositive, WaitsForOwnOrder
<1> QED BY <1>1, <1>2, <1>3

----------------------------------------------------------------------------
(* The theorems                                                            *)

\* At the start nobody does anything and nothing is ordered.
LEMMA BotInitInv == BotInit => BotInv
<1> SUFFICES ASSUME BotInit PROVE BotInv
  OBVIOUS
<1>1. TablesOK
  <2>1. known \in [Chats -> SUBSET Fields]
    BY InitialKnownAssumption DEF BotInit
  <2> QED
    <3>1. carts \in [Chats -> Rows]
      BY RowsKept DEF BotInit, CartInit
    <3>2. dialogue \in [Chats -> [state : States \cup Passing \cup {NoState}, data : Data]]
      BY NoJobRow DEF BotInit, States
    <3>3. placed \in Seq(OrderRow) /\ Len(placed) <= MaxOrders
      BY MaxOrdersAssumption DEF BotInit
    <3>4. /\ buttons \in [Chats -> SUBSET {"card", "items", "empty_cart"}]
          /\ added \in [Chats -> [Products -> Nat]] /\ broken \in BOOLEAN
      BY DEF BotInit
    <3> QED BY <2>1, <3>1, <3>2, <3>3, <3>4 DEF TablesOK
<1>2. HandlersOK
  BY NoJobRow DEF BotInit, HandlersOK, Idle, MayRun
<1>3. DialogueKnown
  BY DEF BotInit, DialogueKnown, Need, Fields, NoState
<1>4. OrdersOfKnownClients /\ QuantitiesPositive /\ WaitsForOwnOrder
  BY DEF BotInit, OrdersOfKnownClients, QuantitiesPositive, WaitsForOwnOrder, NoState
<1> QED BY <1>1, <1>2, <1>3, <1>4 DEF BotInv

\* Every step of the bot keeps the invariant.
LEMMA BotStepKeeps ==
  ASSUME BotInv, [BotNext]_botVars
  PROVE  BotInv'
<1>1. ASSUME NEW w \in Workers,
             Update(w) \/ Handle(w) \/ Ordering(w) \/ NoLink(w)
      PROVE  BotInv'
  <2>1. w \in Handlers
    BY DEF Handlers
  <2> QED
    BY <1>1, <2>1, UpdateKeeps, HandleKeeps, ReadCartKeeps, CreateOrderKeeps,
       CreateLinkKeeps, FailuresKeep
    DEF Ordering
<1>2. CASE UNCHANGED botVars
  BY <1>2 DEF botVars, BotInv, TablesOK, HandlersOK, Idle, DialogueKnown,
              OrdersOfKnownClients, QuantitiesPositive, WaitsForOwnOrder
<1> QED
  BY <1>1, <1>2, StatementKeeps, WebCartKeeps, PayKeeps, FailuresKeep DEF BotNext

\* The bot's invariant: what is stored, what each handler has ahead and what its
\* client told go together, with updates of a chat handled at the same time,
\* statements that fail and crashes.
THEOREM BotInvariant == BotSpec => []BotInv
<1>1. BotInit => BotInv
  BY BotInitInv
<1>2. BotInv /\ [BotNext]_botVars => BotInv'
  BY BotStepKeeps
<1> QED BY <1>1, <1>2, PTL DEF BotSpec

\* Whoever orders has told his language, name and phone (Start, SaveName,
\* ChangeLanguage and the routes of bot.go).
THEOREM OrderingClientsAreKnown == BotSpec => []OrdersOfKnownClients
<1>1. BotInv => OrdersOfKnownClients
  BY DEF BotInv
<1> QED BY <1>1, BotInvariant, PTL

\* No order without products or with a quantity that is not positive, although
\* the cart is read while others change it (SelectPaymentMethodHandler, Create).
THEOREM OrderedQuantitiesPositive == BotSpec => []QuantitiesPositive
<1>1. BotInv => QuantitiesPositive
  BY DEF BotInv
<1> QED BY <1>1, BotInvariant, PTL

\* A chat that waits for a payment waits for an order of its own that has a link.
THEOREM WaitingForOwnOrder == BotSpec => []WaitsForOwnOrder
<1>1. BotInv => WaitsForOwnOrder
  BY DEF BotInv
<1> QED BY <1>1, BotInvariant, PTL

\* The locals of a handler without the rows it read.
LEMMA JobWithoutItems ==
  ASSUME NEW j \in JobRow
  PROVE  [f \in DOMAIN j \ {"items"} |-> j[f]] \in Job
<1> DEFINE S == {"chat", "route", "input", "data", "product", "count", "method"}
           r == [chat |-> j.chat, route |-> j.route, input |-> j.input,
                 data |-> j.data, product |-> j.product, count |-> j.count,
                 method |-> j.method]
<1>1. DOMAIN j \ {"items"} = S
  BY DEF JobRow
<1>2. r \in Job
  <2>1. Routes \cup {""} = States \cup Callbacks \cup {"", "start"}
    BY DEF Routes
  <2> QED BY <2>1 DEF JobRow, Job
<1>3. r = [f \in S |-> j[f]]
  OBVIOUS
<1> QED BY <1>1, <1>2, <1>3

\* The types of everything the bot stores and of what its handlers hold.
THEOREM BotTypeCorrect == BotSpec => []BotTypeOK
<1>1. ASSUME BotInv PROVE BotTypeOK
  <2>1. CartTypeOK
    BY <1>1, RowsKept DEF BotInv, TablesOK, CartTypeOK
  <2>2. Len(placed) \in 0 .. MaxOrders
    BY <1>1, PlacedRows, MaxOrdersAssumption DEF BotInv, TablesOK
  <2>3. \A h \in Handlers :
          /\ Len(todo[h]) \in 0 .. 4
          /\ Idle(h) <=> job[h] = NoJob
          /\ job[h] \in JobRow
    <3> SUFFICES ASSUME NEW h \in Handlers
                 PROVE  /\ Len(todo[h]) \in 0 .. 4
                        /\ Idle(h) <=> job[h] = NoJob
                        /\ job[h] \in JobRow
      OBVIOUS
    <3>1. /\ todo[h] \in Seq(Step) /\ Len(todo[h]) <= 4 /\ job[h] \in JobRow
          /\ Idle(h) => job[h] = NoJob
          /\ ~Idle(h) => job[h].chat \in Chats
      BY <1>1 DEF BotInv, HandlersOK, MayRun, Idle
    <3>2. Len(todo[h]) \in Nat /\ Len(todo[h]) <= 4
      BY <3>1, LenProperties
    <3>3. NoJob.chat = "none" /\ "none" \notin Chats
      BY NoneAssumption DEF NoJob
    <3>4. job[h] = NoJob => Idle(h)
      BY <3>1, <3>3
    <3>5. Len(todo[h]) \in 0 .. 4
      <4>1. \A n \in Nat : n <= 4 => n \in 0 .. 4
        OBVIOUS
      <4> QED BY <3>2, <4>1, Zenon
    <3>6. Idle(h) <=> job[h] = NoJob
      BY <3>1, <3>4, Zenon
    <3> QED BY <3>1, <3>5, <3>6, Zenon
  <2>4. \A h \in Handlers : [f \in DOMAIN job[h] \ {"items"} |-> job[h][f]] \in Job
    BY <2>3, JobWithoutItems
  <2> QED BY <1>1, <2>1, <2>2, <2>3, <2>4 DEF BotTypeOK, BotInv, TablesOK
<1> QED BY <1>1, BotInvariant, PTL

----------------------------------------------------------------------------
(* The rows that are left when nobody works                                *)

\* Only h moves.
OthersStay(h) ==
  \A q \in Handlers \ {h} : todo'[q] = todo[q] /\ job'[q] = job[q]

\* A handler that goes on, does the rest, decides or returns moves alone.
LEMMA MovesAlone ==
  ASSUME BotInv, NEW h \in Handlers
  PROVE  /\ \A s, j : Continue(h, s, j) => OthersStay(h)
         /\ \A s : Then(h, s) => OthersStay(h)
         /\ Proceed(h) => OthersStay(h)
         /\ Return(h) => OthersStay(h)
<1>1. \A s, j : Continue(h, s, j) => OthersStay(h)
  BY DEF BotInv, HandlersOK, Continue, OthersStay
<1> QED BY <1>1 DEF Then, Proceed, Return

\* The clean-up of the row of p of c is what h does next.
Cleans(h, c, p) == At(h, "cleanup") /\ Chat(h) = c /\ job[h].product = p

\* A step of h that leaves every row as it was, or counting something, or to be
\* cleaned up by h.
LEMMA CleanupComes ==
  ASSUME BotInv, RowsCleaned, NEW h \in Handlers, OthersStay(h),
         broken' = broken,
         \A c \in Chats : \A p \in DOMAIN carts'[c] :
           \/ carts'[c][p] > 0
           \/ p \in DOMAIN carts[c] /\ carts'[c][p] = carts[c][p] /\ ~Cleans(h, c, p)
           \/ Cleans(h, c, p)'
  PROVE  RowsCleaned'
<1> SUFFICES ASSUME ~broken', NEW c \in Chats, NEW p \in DOMAIN carts'[c],
                    ~(carts'[c][p] > 0)
             PROVE  \E q \in Handlers : Cleans(q, c, p)'
  BY DEF RowsCleaned, Cleans
<1>1. CASE Cleans(h, c, p)'
  BY <1>1
<1>2. CASE p \in DOMAIN carts[c] /\ carts'[c][p] = carts[c][p] /\ ~Cleans(h, c, p)
  <2>1. PICK q \in Handlers : Cleans(q, c, p)
    BY <1>2 DEF RowsCleaned, Cleans
  <2>2. q # h
    BY <1>2, <2>1
  <2>3. Cleans(q, c, p)'
    BY <2>1, <2>2 DEF Cleans, OthersStay, At, Idle, Chat
  <2> QED BY <2>3
<1> QED BY <1>1, <1>2

\* A step of a handler that changes no cart and cleans nothing up.
LEMMA QuietStep ==
  ASSUME BotInv, RowsCleaned, NEW h \in Handlers, ~At(h, "cleanup"),
         OthersStay(h), UNCHANGED <<carts, broken>>
  PROVE  RowsCleaned'
<1>1. \A c \in Chats : \A p \in DOMAIN carts'[c] :
        p \in DOMAIN carts[c] /\ carts'[c][p] = carts[c][p] /\ ~Cleans(h, c, p)
  BY DEF Cleans
<1> QED BY <1>1, CleanupComes

\* Decisions and orders change no cart.
LEMMA DecisionsAreQuiet ==
  ASSUME BotInv, RowsCleaned, NEW w \in Workers,
         Update(w) \/ Handle(w) \/ Ordering(w)
  PROVE  RowsCleaned'
<1>1. w \in Handlers
  BY DEF Handlers
<1>2. /\ \A s, j : Continue(w, s, j) => OthersStay(w)
      /\ \A s : Then(w, s) => OthersStay(w)
      /\ Return(w) => OthersStay(w)
  BY <1>1, MovesAlone
<1>3. CASE Update(w)
  <2>1. ~At(w, "cleanup") /\ UNCHANGED <<carts, broken>>
    BY <1>3 DEF Update, Receive, At
  <2>2. OthersStay(w)
    BY <1>2, <1>3 DEF Update, Receive
  <2> QED BY <1>1, <2>1, <2>2, QuietStep
<1>4. CASE Ordering(w)
  <2>1. ~At(w, "cleanup") /\ UNCHANGED <<carts, broken>>
    BY <1>4 DEF Ordering, ReadCart, CreateOrder, CreateLink, At, Unmoved
  <2>2. OthersStay(w)
    BY <1>2, <1>4 DEF Ordering, ReadCart, CreateOrder, CreateLink
  <2> QED BY <1>1, <2>1, <2>2, QuietStep
<1>5. CASE Handle(w)
  <2>1. At(w, "handle") /\ UNCHANGED <<carts, broken>>
    BY <1>5 DEF Handle, StartCommand, ChangeLanguage, SaveName, ChangePhone,
       MainMenuHandler, CategoryByProductMenu, ProductInfoHandler, CartMenu,
       AddToCartCallback, CategoryByProductMenuCallback, CartQtyChangeCallback,
       CartDeleteCallback, CartBackCallback, DeliveryType, WaitAddressHandler,
       CheckoutPreviewHandler, SelectPaymentMethod, WaitingPaymentHandler,
       Handling, Unmoved
  <2>2. OthersStay(w)
    <3>1. CASE StartCommand(w) \/ ChangeLanguage(w) \/ SaveName(w) \/ ChangePhone(w)
      BY <1>2, <3>1 DEF StartCommand, ChangeLanguage, SaveName, ChangePhone
    <3>2. CASE MainMenuHandler(w) \/ CategoryByProductMenu(w) \/ CartMenu(w)
      BY <1>2, <3>2 DEF MainMenuHandler, CategoryByProductMenu, CartMenu
    <3>3. CASE ProductInfoHandler(w)
      BY <1>2, <3>3 DEF ProductInfoHandler
    <3>4. CASE \/ AddToCartCallback(w) \/ CategoryByProductMenuCallback(w)
               \/ CartQtyChangeCallback(w) \/ CartDeleteCallback(w)
               \/ CartBackCallback(w)
      BY <1>2, <3>4 DEF AddToCartCallback, CategoryByProductMenuCallback,
         CartQtyChangeCallback, CartDeleteCallback, CartBackCallback
    <3>5. CASE DeliveryType(w) \/ CheckoutPreviewHandler(w) \/ WaitingPaymentHandler(w)
      BY <1>2, <3>5 DEF DeliveryType, CheckoutPreviewHandler, WaitingPaymentHandler
    <3>6. CASE WaitAddressHandler(w)
      BY <1>2, <3>6 DEF WaitAddressHandler
    <3>7. CASE SelectPaymentMethod(w)
      BY <1>2, <3>7 DEF SelectPaymentMethod
    <3> QED BY <1>5, <3>1, <3>2, <3>3, <3>4, <3>5, <3>6, <3>7 DEF Handle
  <2>3. ~At(w, "cleanup")
    BY <2>1 DEF At
  <2> QED BY <1>1, <2>1, <2>2, <2>3, QuietStep
<1> QED BY <1>3, <1>4, <1>5

\* The statements that change rows: an upsert is followed by its clean-up.
LEMMA RowStatementsClean ==
  ASSUME BotInv, RowsCleaned, NEW h \in Handlers,
         UpsertItem(h) \/ CleanupItem(h) \/ DeleteItem(h) \/ ClearCart(h)
  PROVE  RowsCleaned'
<1> DEFINE b == Chat(h)
           q == job[h].product
<1>1. /\ ~Idle(h) /\ broken' = broken /\ OthersStay(h)
      /\ Now(h).do \in {"upsert", "cleanup", "delete", "clear"}
  BY MovesAlone DEF UpsertItem, CleanupItem, DeleteItem, ClearCart, At, Now
<1>2. /\ b \in Chats /\ carts \in [Chats -> Rows]
      /\ \A c \in Chats : \A p \in DOMAIN carts[c] : carts[c][p] \in Int
      /\ Now(h).do = "upsert" => q \in Products /\ job[h].count \in Int
  <2>1. b \in Chats /\ (Now(h).do = "upsert" => q \in Products /\ job[h].count \in Int)
    BY <1>1, Running DEF Relies, JobRow
  <2>2. carts \in [Chats -> Rows]
    BY DEF BotInv, TablesOK
  <2> QED BY <2>1, <2>2, RowsKept
<1>3. CASE UpsertItem(h)
  <2>1. /\ carts' = [carts EXCEPT ![b] = Upserted(carts[b], q, job[h].count)]
        /\ ~At(h, "cleanup")
        /\ Continue(h, <<Do("cleanup")>> \o Tail(todo[h]), job[h])
    BY <1>2, <1>3 DEF UpsertItem, Upsert, Upserted, At
  <2>2. At(h, "cleanup")' /\ job'[h].chat = b /\ job'[h].product = q
    <3> DEFINE t == Tail(todo[h])
               a == Do("cleanup")
               s == <<a>> \o t
    <3>1. /\ a \in Step /\ a.do = "cleanup" /\ t \in Seq(Step)
      <4>1. t \in Seq(Later) /\ Later \subseteq Step
        BY <1>1, Running DEF Later
      <4>2. t \in Seq(Step)
        BY <4>1, SeqMonotonic
      <4> QED BY <4>2, NoJobRow DEF Do, Step, Checked
    <3> HIDE DEF a, t
    <3>2. s # <<>> /\ Head(s) = a
      BY <3>1, Before
    <3> HIDE DEF s
    <3>3. todo'[h] = s /\ job'[h] = job[h]
      BY <2>1, <3>2 DEF Continue, s, a, t, BotInv, HandlersOK
    <3> QED BY <3>1, <3>2, <3>3 DEF At, Idle, Chat
  <2>3. \A c \in Chats : \A p \in DOMAIN carts'[c] :
          \/ p \in DOMAIN carts[c] /\ carts'[c][p] = carts[c][p] /\ ~Cleans(h, c, p)
          \/ Cleans(h, c, p)'
    <3> SUFFICES ASSUME NEW c \in Chats, NEW p \in DOMAIN carts'[c], ~Cleans(h, c, p)'
                 PROVE  p \in DOMAIN carts[c] /\ carts'[c][p] = carts[c][p]
      BY <2>1 DEF Cleans
    <3>1. CASE c # b
      BY <1>2, <2>1, <3>1
    <3>2. CASE c = b
      <4>1. p # q
        BY <2>2, <3>2 DEF Cleans, Chat
      <4>2. carts'[b] = Upserted(carts[b], q, job[h].count)
        BY <1>2, <2>1
      <4> QED BY <3>2, <4>1, <4>2 DEF Upserted
    <3> QED BY <3>1, <3>2
  <2> HIDE DEF b, q
  <2> QED BY <1>1, <2>3, CleanupComes
<1>4. CASE CleanupItem(h)
  <2>1. carts' = [carts EXCEPT ![b] = Without(carts[b], {p \in {q} : Count(carts[b], p) <= 0})]
    BY <1>2, <1>4 DEF CleanupItem, Cleanup
  <2>2. \A c \in Chats : \A p \in DOMAIN carts'[c] :
          \/ carts'[c][p] > 0
          \/ p \in DOMAIN carts[c] /\ carts'[c][p] = carts[c][p] /\ ~Cleans(h, c, p)
    <3> SUFFICES ASSUME NEW c \in Chats, NEW p \in DOMAIN carts'[c]
                 PROVE  \/ carts'[c][p] > 0
                        \/ /\ p \in DOMAIN carts[c] /\ carts'[c][p] = carts[c][p]
                           /\ ~Cleans(h, c, p)
      OBVIOUS
    <3>1. CASE c # b
      BY <1>2, <2>1, <3>1 DEF Cleans
    <3>2. CASE c = b
      <4>1. carts'[b] = Without(carts[b], {r \in {q} : Count(carts[b], r) <= 0})
        BY <1>2, <2>1
      <4>2. /\ p \in DOMAIN carts[b] /\ carts'[b][p] = carts[b][p]
            /\ ~(p = q /\ Count(carts[b], q) <= 0)
        BY <3>2, <4>1 DEF Without
      <4>3. p = q => carts[b][p] > 0
        BY <1>2, <4>2 DEF Count
      <4> QED BY <3>2, <4>2, <4>3 DEF Cleans
    <3> QED BY <3>1, <3>2
  <2> QED BY <1>1, <2>2, CleanupComes
<1>5. CASE DeleteItem(h) \/ ClearCart(h)
  <2>1. /\ ~At(h, "cleanup")
        /\ \/ carts' = [carts EXCEPT ![b] = Without(carts[b], {q})]
           \/ carts' = [carts EXCEPT ![b] = NoRows]
    BY <1>2, <1>5 DEF DeleteItem, ClearCart, Delete, Clear, At
  <2>2. \A c \in Chats : \A p \in DOMAIN carts'[c] :
          p \in DOMAIN carts[c] /\ carts'[c][p] = carts[c][p] /\ ~Cleans(h, c, p)
    BY <1>2, <2>1 DEF Without, NoRows, Cleans
  <2> QED BY <1>1, <2>2, CleanupComes
<1> QED BY <1>3, <1>4, <1>5

\* The other statements change no cart.
LEMMA StatementsClean ==
  ASSUME BotInv, RowsCleaned, NEW h \in Handlers, Statement(h)
  PROVE  RowsCleaned'
<1>1. CASE UpsertItem(h) \/ CleanupItem(h) \/ DeleteItem(h) \/ ClearCart(h)
  BY <1>1, RowStatementsClean
<1>2. CASE ~(UpsertItem(h) \/ CleanupItem(h) \/ DeleteItem(h) \/ ClearCart(h))
  <2>1. ~At(h, "cleanup") /\ UNCHANGED <<carts, broken>>
    BY <1>2 DEF Statement, UpdateState, UpdateStateNil, KeepData, Learn, GetCartInfo,
       LookAtCart, LookAfterDelete, RefreshCartMessage, At, Unmoved, Fields
  <2>2. OthersStay(h)
    BY <1>2, MovesAlone
    DEF Statement, UpdateState, UpdateStateNil, KeepData, Learn, GetCartInfo,
        LookAtCart, LookAfterDelete, RefreshCartMessage
  <2> QED BY <2>1, <2>2, QuietStep
<1> QED BY <1>1, <1>2

\* Every row is positive or about to be cleaned up, until a statement fails.
THEOREM RowsAreCleaned == BotSpec => [](BotInv /\ RowsCleaned)
<1>1. BotInit => BotInv /\ RowsCleaned
  <2>1. BotInit => RowsCleaned
    BY DEF BotInit, CartInit, NoRows, RowsCleaned
  <2> QED BY <2>1, BotInitInv
<1>2. BotInv /\ RowsCleaned /\ [BotNext]_botVars => RowsCleaned'
  <2> SUFFICES ASSUME BotInv, RowsCleaned, [BotNext]_botVars
               PROVE  RowsCleaned'
    OBVIOUS
  <2>1. CASE broken'
    BY <2>1 DEF RowsCleaned
  <2>2. ASSUME NEW r \in Requests, NEW c \in Chats, NEW p \in Products,
               NEW n \in {-1, 1}, WebCart(r, c, p, n)
        PROVE  RowsCleaned'
    <3>1. r \in Handlers /\ ~At(r, "cleanup") /\ UNCHANGED <<carts, broken>>
      BY <2>2 DEF WebCart, Handlers, At, Unmoved
    <3>2. OthersStay(r)
      BY <2>2, <3>1, MovesAlone DEF WebCart
    <3> QED BY <3>1, <3>2, QuietStep
  <2>3. ASSUME NEW o \in Orders, Pay(o) PROVE RowsCleaned'
    BY <2>3 DEF Pay, RowsCleaned, At, Idle, Chat
  <2>4. CASE UNCHANGED botVars
    BY <2>4 DEF botVars, RowsCleaned, At, Idle, Chat
  <2>5. CASE \/ \E h \in Handlers : FailStatement(h)
             \/ \E w \in Workers : NoLink(w)
             \/ BotCrash
    <3>1. broken'
      BY <2>5 DEF FailStatement, NoLink, BotCrash
    <3> QED BY <2>1, <3>1
  <2> QED
    BY <2>2, <2>3, <2>4, <2>5, DecisionsAreQuiet, StatementsClean DEF BotNext
<1> QED BY <1>1, <1>2, BotStepKeeps, PTL DEF BotSpec

\* Presses on plus and minus race, with each other and with the web page; when no
\* handler is at work every row left counts something, unless a statement failed
\* or the process died in between (the two statements of cart_repo's Create).
THEOREM RestingRowsPositive == BotSpec => []RowsPositiveAtRest
<1>1. RowsCleaned => RowsPositiveAtRest
  BY DEF RowsCleaned, RowsPositiveAtRest, AtRest, At
<1> QED BY <1>1, RowsAreCleaned, PTL

----------------------------------------------------------------------------
(* How much a chat has ordered                                             *)

\* Every set of numbers has a least one.
LEMMA LeastNumber ==
  ASSUME NEW T \in SUBSET Nat, T # {}
  PROVE  \E n \in T : \A m \in T : n <= m
<1> DEFINE R == {ss \in Nat \X Nat : ss[1] < ss[2]}
<1>1. R = OpToRel(<, Nat)
  BY DEF OpToRel
<1>2. IsWellFoundedOn(R, Nat)
  BY <1>1, NatLessThanWellFounded
<1>3. PICK n \in T : \A m \in T : ~(<<m, n>> \in R)
  <2> HIDE DEF R
  <2> QED BY <1>2, WFMin
<1>4. \A m \in T : n <= m
  <2> SUFFICES ASSUME NEW m \in T PROVE n <= m
    OBVIOUS
  <2>1. <<m, n>> \notin R
    BY <1>3
  <2> QED BY <2>1
<1> QED BY <1>4

\* What holds of 0, and of n + 1 whenever of n, holds of every number.
LEMMA EveryNumber ==
  ASSUME NEW T, 0 \in T, \A n \in Nat : n \in T => n + 1 \in T
  PROVE  Nat \subseteq T
<1> SUFFICES ASSUME Nat \ T # {} PROVE FALSE
  OBVIOUS
<1>1. PICK n \in Nat \ T : \A m \in Nat \ T : n <= m
  BY LeastNumber
<1>2. n - 1 \in Nat /\ n - 1 \notin Nat \ T
  BY <1>1
<1> QED BY <1>2

\* Quantity and Ordered, of any list of orders.
QuantityIn(pl, o, c, p) ==
  IF pl[o].chat = c THEN Count(pl[o].items, p) ELSE 0

\* f counts the orders pl from the first on.
Counts(f, pl, c, p) ==
  f = [o \in 0 .. Len(pl) |->
         IF o = 0 THEN 0 ELSE f[o - 1] + QuantityIn(pl, o, c, p)]

OrderedIn(pl, c, p) == (CHOOSE f : Counts(f, pl, c, p))[Len(pl)]

\* Ordered, with its parts named.
LEMMA OrderedUnfolds ==
  ASSUME NEW c, NEW p
  PROVE  /\ Ordered(c, p) = OrderedIn(placed, c, p)
         /\ Ordered(c, p)' = OrderedIn(placed', c, p)
<1>1. Ordered(c, p) = OrderedIn(placed, c, p)
  BY DEF Ordered, Quantity, OrderedIn, Counts, QuantityIn
<1>2. Ordered(c, p)' = OrderedIn(placed', c, p)
  BY DEF Ordered, Quantity, OrderedIn, Counts, QuantityIn
<1> QED BY <1>1, <1>2

\* What an order adds is a number.
LEMMA QuantityIsInt ==
  ASSUME NEW pl \in Seq(OrderRow), NEW o \in 1 .. Len(pl), NEW c, NEW p
  PROVE  QuantityIn(pl, o, c, p) \in Int
<1>1. pl[o] \in OrderRow
  BY ElementOfSeq
<1>2. pl[o].items \in Rows
  BY <1>1 DEF OrderRow
<1>3. \A q \in DOMAIN pl[o].items : pl[o].items[q] \in Int
  BY <1>2, RowsKept
<1> QED BY <1>3 DEF QuantityIn, Count

\* The counts are there.
LEMMA CountsExist ==
  ASSUME NEW pl \in Seq(OrderRow), NEW c, NEW p
  PROVE  \E f \in [0 .. Len(pl) -> Int] : Counts(f, pl, c, p)
<1> DEFINE N == Len(pl)
           q(o) == QuantityIn(pl, o, c, p)
           Upto(f, n) == /\ f \in [0 .. n -> Int] /\ f[0] = 0
                         /\ \A o \in 1 .. n : f[o] = f[o - 1] + q(o)
           T == {n \in Nat : n <= N => \E f : Upto(f, n)}
<1>1. N \in Nat /\ \A o \in 1 .. N : q(o) \in Int
  BY QuantityIsInt, LenProperties
<1> HIDE DEF N, q
<1>2. 0 \in T
  <2> DEFINE g == [o \in 0 .. 0 |-> 0]
  <2>1. g \in [0 .. 0 -> Int] /\ g[0] = 0 /\ 1 .. 0 = {}
    OBVIOUS
  <2> HIDE DEF g
  <2>2. Upto(g, 0)
    BY <2>1
  <2> HIDE DEF Upto
  <2> QED BY <2>2
<1>3. ASSUME NEW n \in Nat, n \in T PROVE n + 1 \in T
  <2> HIDE DEF Upto
  <2> SUFFICES ASSUME n + 1 <= N PROVE \E f : Upto(f, n + 1)
    OBVIOUS
  <2>1. PICK f : Upto(f, n)
    BY <1>1, <1>3
  <2> USE DEF Upto
  <2> DEFINE g == [o \in 0 .. n + 1 |-> IF o = n + 1 THEN f[n] + q(n + 1) ELSE f[o]]
  <2>2. q(n + 1) \in Int /\ f[n] \in Int
    BY <1>1, <2>1
  <2>3. g \in [0 .. n + 1 -> Int]
    BY <2>1, <2>2
  <2>4. /\ g[0] = 0 /\ g[n + 1] = f[n] + q(n + 1)
        /\ \A o \in 0 .. n : g[o] = f[o]
    BY <2>1
  <2> HIDE DEF g
  <2>5. \A o \in 1 .. n + 1 : g[o] = g[o - 1] + q(o)
    <3> SUFFICES ASSUME NEW o \in 1 .. n + 1 PROVE g[o] = g[o - 1] + q(o)
      OBVIOUS
    <3>1. CASE o = n + 1
      <4>1. o - 1 = n /\ n \in 0 .. n
        BY <3>1
      <4> QED BY <3>1, <4>1, <2>4
    <3>2. CASE o # n + 1
      <4>1. o \in 1 .. n /\ o \in 0 .. n /\ o - 1 \in 0 .. n
        BY <3>2
      <4> QED BY <4>1, <2>1, <2>4
    <3> QED BY <3>1, <3>2
  <2>6. Upto(g, n + 1)
    BY <2>3, <2>4, <2>5
  <2> HIDE DEF Upto
  <2> QED BY <2>6
<1>4. Nat \subseteq T
  <2> HIDE DEF T
  <2> QED BY <1>2, <1>3, EveryNumber
<1>5. PICK f : Upto(f, N)
  <2>1. N \in T
    <3> HIDE DEF T
    <3> QED BY <1>1, <1>4
  <2>2. N <= N
    BY <1>1
  <2> HIDE DEF Upto
  <2> QED BY <2>1, <2>2
<1> DEFINE g == [o \in 0 .. N |-> IF o = 0 THEN 0 ELSE f[o - 1] + q(o)]
<1>6. f = g
  BY <1>1, <1>5
<1>7. f \in [0 .. N -> Int] /\ f = g
  BY <1>5, <1>6
<1> QED BY <1>7 DEF Counts, N, q

\* And they tell how much was ordered.
LEMMA CountsAgree ==
  ASSUME NEW pl \in Seq(OrderRow), NEW c, NEW p, NEW f, Counts(f, pl, c, p)
  PROVE  OrderedIn(pl, c, p) = f[Len(pl)]
<1> DEFINE N == Len(pl)
           g == CHOOSE h : Counts(h, pl, c, p)
           q(o) == QuantityIn(pl, o, c, p)
           T == {n \in Nat : n <= N => f[n] = g[n]}
<1>1. N \in Nat
  BY LenProperties
<1>2. Counts(g, pl, c, p)
  OBVIOUS
<1> HIDE DEF g
<1>3. \A h : Counts(h, pl, c, p) =>
        h[0] = 0 /\ \A o \in 1 .. N : h[o] = h[o - 1] + q(o)
  <2> SUFFICES ASSUME NEW h, Counts(h, pl, c, p)
               PROVE  h[0] = 0 /\ \A o \in 1 .. N : h[o] = h[o - 1] + q(o)
    OBVIOUS
  <2> DEFINE k == [o \in 0 .. N |-> IF o = 0 THEN 0 ELSE h[o - 1] + q(o)]
  <2>1. h = k
    BY DEF Counts
  <2> HIDE DEF q
  <2>2. k[0] = 0 /\ \A o \in 1 .. N : k[o] = h[o - 1] + q(o)
    BY <1>1
  <2> HIDE DEF k
  <2> QED BY <2>1, <2>2
<1> HIDE DEF q, N
<1>4. /\ f[0] = 0 /\ \A o \in 1 .. N : f[o] = f[o - 1] + q(o)
      /\ g[0] = 0 /\ \A o \in 1 .. N : g[o] = g[o - 1] + q(o)
  BY <1>2, <1>3
<1>5. 0 \in T
  BY <1>4
<1>6. ASSUME NEW n \in Nat, n \in T PROVE n + 1 \in T
  <2> SUFFICES ASSUME n + 1 <= N PROVE f[n + 1] = g[n + 1]
    OBVIOUS
  <2>1. n + 1 \in 1 .. N /\ (n + 1) - 1 = n /\ f[n] = g[n]
    BY <1>1, <1>6
  <2> QED BY <2>1, <1>4
<1>7. Nat \subseteq T
  <2> HIDE DEF T
  <2> QED BY <1>5, <1>6, EveryNumber
<1>8. f[N] = g[N]
  BY <1>1, <1>7
<1> QED BY <1>8 DEF OrderedIn, g, N

\* Orders of the same chats and items count the same.
LEMMA SameOrders ==
  ASSUME NEW pl \in Seq(OrderRow), NEW pm \in Seq(OrderRow), NEW c, NEW p,
         Len(pm) = Len(pl),
         \A o \in 1 .. Len(pl) : pm[o].chat = pl[o].chat /\ pm[o].items = pl[o].items
  PROVE  OrderedIn(pm, c, p) = OrderedIn(pl, c, p)
<1>1. PICK f \in [0 .. Len(pl) -> Int] : Counts(f, pl, c, p)
  BY CountsExist
<1>2. \A o \in 1 .. Len(pl) : QuantityIn(pm, o, c, p) = QuantityIn(pl, o, c, p)
  BY DEF QuantityIn
<1>3. Counts(f, pm, c, p)
  <2> DEFINE a == [o \in 0 .. Len(pl) |->
                     IF o = 0 THEN 0 ELSE f[o - 1] + QuantityIn(pl, o, c, p)]
             b == [o \in 0 .. Len(pl) |->
                     IF o = 0 THEN 0 ELSE f[o - 1] + QuantityIn(pm, o, c, p)]
  <2>1. \A o \in 0 .. Len(pl) : o = 0 \/ o \in 1 .. Len(pl)
    BY LenProperties
  <2>2. a = b
    BY <1>2, <2>1
  <2>3. f = a
    BY <1>1 DEF Counts
  <2> QED BY <2>2, <2>3 DEF Counts
<1> QED BY <1>1, <1>3, CountsAgree

\* One order more counts for what it holds.
LEMMA OneOrderMore ==
  ASSUME NEW pl \in Seq(OrderRow), NEW r \in OrderRow, NEW c, NEW p
  PROVE  /\ OrderedIn(pl, c, p) \in Int
         /\ OrderedIn(Append(pl, r), c, p) =
              OrderedIn(pl, c, p) + (IF r.chat = c THEN Count(r.items, p) ELSE 0)
<1> DEFINE N == Len(pl)
           pm == Append(pl, r)
           q(o) == QuantityIn(pm, o, c, p)
<1>1. PICK f \in [0 .. N -> Int] : Counts(f, pl, c, p)
  BY CountsExist
<1>2. /\ N \in Nat /\ pm \in Seq(OrderRow) /\ Len(pm) = N + 1 /\ pm[N + 1] = r
      /\ \A o \in 1 .. N : pm[o] = pl[o]
  BY LenProperties, AppendProperties
<1>3. /\ \A o \in 1 .. N : QuantityIn(pl, o, c, p) = q(o)
      /\ q(N + 1) = (IF r.chat = c THEN Count(r.items, p) ELSE 0)
  BY <1>2 DEF QuantityIn
<1>4. q(N + 1) \in Int
  BY <1>2, QuantityIsInt
<1>5. f[0] = 0 /\ \A o \in 1 .. N : f[o] = f[o - 1] + q(o)
  <2> DEFINE k == [o \in 0 .. N |-> IF o = 0 THEN 0 ELSE f[o - 1] + QuantityIn(pl, o, c, p)]
  <2>1. f = k
    BY <1>1 DEF Counts
  <2>2. k[0] = 0 /\ \A o \in 1 .. N : k[o] = f[o - 1] + QuantityIn(pl, o, c, p)
    BY <1>2
  <2> HIDE DEF k, q, N
  <2> QED BY <2>1, <2>2, <1>3
<1> HIDE DEF q, pm
<1> DEFINE g == [o \in 0 .. N + 1 |-> IF o = N + 1 THEN f[N] + q(N + 1) ELSE f[o]]
<1>6. /\ g[N + 1] = f[N] + q(N + 1) /\ f[N] \in Int
      /\ \A o \in 0 .. N : g[o] = f[o]
  BY <1>2
<1>7. Counts(g, pm, c, p)
  <2> DEFINE k == [o \in 0 .. N + 1 |-> IF o = 0 THEN 0 ELSE g[o - 1] + q(o)]
  <2>1. \A o \in 0 .. N + 1 : g[o] = IF o = 0 THEN 0 ELSE g[o - 1] + q(o)
    <3> SUFFICES ASSUME NEW o \in 0 .. N + 1
                 PROVE  g[o] = IF o = 0 THEN 0 ELSE g[o - 1] + q(o)
      OBVIOUS
    <3> HIDE DEF g, N
    <3>1. CASE o = 0
      <4>1. o \in 0 .. N
        BY <1>2, <3>1
      <4> QED BY <3>1, <4>1, <1>5, <1>6
    <3>2. CASE o = N + 1
      <4>1. o # 0 /\ o - 1 = N /\ N \in 0 .. N
        BY <1>2, <3>2
      <4> QED BY <3>2, <4>1, <1>6
    <3>3. CASE o # 0 /\ o # N + 1
      <4>1. o \in 1 .. N /\ o \in 0 .. N /\ o - 1 \in 0 .. N
        BY <1>2, <3>3
      <4> QED BY <3>3, <4>1, <1>5, <1>6
    <3> QED BY <3>1, <3>2, <3>3
  <2>2. DOMAIN g = 0 .. N + 1 /\ g = [o \in DOMAIN g |-> g[o]]
    OBVIOUS
  <2> HIDE DEF g
  <2>3. g = k
    BY <2>1, <2>2
  <2> QED BY <1>2, <2>3 DEF Counts, q
<1> HIDE DEF g
<1>8. OrderedIn(pm, c, p) = g[N + 1] /\ OrderedIn(pl, c, p) = f[N]
  BY <1>1, <1>2, <1>7, CountsAgree
<1> QED BY <1>3, <1>6, <1>8 DEF pm

\* Who has placed nothing has ordered nothing.
LEMMA NothingOrdered ==
  ASSUME NEW c, NEW p
  PROVE  OrderedIn(<<>>, c, p) = 0
<1>1. <<>> \in Seq(OrderRow) /\ Len(<<>>) = 0
  OBVIOUS
<1>2. PICK f \in [0 .. 0 -> Int] : Counts(f, <<>>, c, p)
  BY <1>1, CountsExist
<1>3. f[0] = 0
  <2> DEFINE k == [o \in 0 .. 0 |-> IF o = 0 THEN 0 ELSE f[o - 1] + QuantityIn(<<>>, o, c, p)]
  <2>1. f = k
    BY <1>1, <1>2 DEF Counts
  <2>2. k[0] = 0
    OBVIOUS
  <2> HIDE DEF k
  <2> QED BY <2>1, <2>2
<1> QED BY <1>1, <1>2, <1>3, CountsAgree

\* What a chat has ordered is a number.
LEMMA OrderedIsInt ==
  ASSUME NEW pl \in Seq(OrderRow), NEW c, NEW p
  PROVE  OrderedIn(pl, c, p) \in Int
<1>1. PICK f \in [0 .. Len(pl) -> Int] : Counts(f, pl, c, p)
  BY CountsExist
<1>2. f[Len(pl)] \in Int
  BY LenProperties
<1> QED BY <1>1, <1>2, CountsAgree

----------------------------------------------------------------------------
(* Nothing is ordered twice                                                *)

\* The bot has one worker, which handles one update after another.
OneWorker == \A v, w \in Workers : v = w

\* The order of c may be stored already, and w is about to clear the cart.
Ends(w, c) == Chat(w) = c /\ (At(w, "link") \/ At(w, "clear"))

\* What w holds of a cart is nothing when it decides, and no more than was added
\* and not ordered when it places the order.
HoldsCart(w) ==
  /\ At(w, "handle") => job[w].items = NoRows
  /\ At(w, "create") => \A p \in Products :
       Ordered(Chat(w), p) + Count(job[w].items, p) <= added[Chat(w)][p]

\* What c has ordered was added, and so was what its cart holds besides, unless
\* the cart is about to be cleared.
Covered(c, p) ==
  /\ Ordered(c, p) <= added[c][p]
  /\ \/ \E w \in Workers : Ends(w, c)
     \/ Ordered(c, p) + Count(carts[c], p) <= added[c][p]

NothingTwice ==
  ~broken =>
    /\ \A w \in Workers : HoldsCart(w)
    /\ \A c \in Chats, p \in Products : Covered(c, p)

\* The types of what Covered compares.
LEMMA CoveredTypes ==
  ASSUME BotInv, NEW c \in Chats, NEW p
  PROVE  /\ Ordered(c, p) \in Int /\ Count(carts[c], p) \in Int
         /\ p \in Products => added[c][p] \in Int
<1>1. placed \in Seq(OrderRow) /\ carts[c] \in Rows /\ added[c] \in [Products -> Nat]
  BY DEF BotInv, TablesOK
<1>2. Ordered(c, p) \in Int
  BY <1>1, OrderedUnfolds, OrderedIsInt
<1>3. Count(carts[c], p) \in Int
  BY <1>1, RowsKept DEF Count
<1> QED BY <1>1, <1>2, <1>3

\* What an order would hold is counted in numbers.
LEMMA HeldIsInt ==
  ASSUME BotInv, NEW h \in Handlers, NEW p
  PROVE  Count(job[h].items, p) \in Int
<1>1. job[h].items \in Rows
  BY DEF BotInv, HandlersOK, MayRun, JobRow
<1> QED BY <1>1, RowsKept DEF Count

\* A step that leaves the orders' chats and items leaves what was ordered.
LEMMA OrderedStays ==
  ASSUME BotInv, BotInv', Len(placed') = Len(placed),
         \A o \in 1 .. Len(placed) :
           placed'[o].chat = placed[o].chat /\ placed'[o].items = placed[o].items,
         NEW c, NEW p
  PROVE  Ordered(c, p)' = Ordered(c, p)
<1>1. placed \in Seq(OrderRow) /\ placed' \in Seq(OrderRow)
  BY DEF BotInv, TablesOK
<1> QED BY <1>1, SameOrders, OrderedUnfolds

\* As does one that leaves them alone.
LEMMA OrderedUnchanged ==
  ASSUME placed' = placed, NEW c, NEW p
  PROVE  Ordered(c, p)' = Ordered(c, p)
BY OrderedUnfolds

\* A step of h, the only worker or a request of the web page: h must see to its
\* own locals and to the chats whose cart no other is about to clear.
LEMMA HandlerSteps ==
  ASSUME OneWorker, BotInv, NothingTwice, NEW h \in Handlers, OthersStay(h),
         broken' = broken,
         ~broken =>
           /\ h \in Workers => HoldsCart(h)'
           /\ h \in Workers \/ \A c, p : Ordered(c, p)' = Ordered(c, p)
           /\ \A c \in Chats, p \in Products :
                /\ added[c][p] <= added'[c][p] /\ added'[c][p] \in Int
                /\ Ordered(c, p)' <= added'[c][p]
                /\ \/ \E w \in Workers \ {h} : Ends(w, c)
                   \/ h \in Workers /\ Ends(h, c)'
                   \/ Ordered(c, p)' + Count(carts'[c], p) <= added'[c][p]
  PROVE  NothingTwice'
<1> SUFFICES ASSUME ~broken'
             PROVE  /\ \A w \in Workers : HoldsCart(w)'
                    /\ \A c \in Chats, p \in Products : Covered(c, p)'
  BY DEF NothingTwice
<1>1. ~broken
  OBVIOUS
<1>2. ASSUME NEW w \in Workers \ {h}
      PROVE  /\ todo'[w] = todo[w] /\ job'[w] = job[w] /\ w \in Handlers
             /\ \A c : Ends(w, c) => Ends(w, c)'
  BY DEF OthersStay, Handlers, Ends, At, Idle, Chat
<1>3. ASSUME NEW w \in Workers PROVE HoldsCart(w)'
  <2>1. CASE w = h
    BY <1>1, <2>1
  <2>2. CASE w # h
    <3>1. h \notin Workers
      BY <2>2 DEF OneWorker
    <3>2. HoldsCart(w)
      BY <1>1 DEF NothingTwice
    <3>3. todo'[w] = todo[w] /\ job'[w] = job[w] /\ w \in Handlers
      BY <1>2, <2>2
    <3>4. At(w, "handle")' => job'[w].items = NoRows
      BY <3>2, <3>3 DEF HoldsCart, At, Idle
    <3>5. ASSUME At(w, "create")', NEW p \in Products
          PROVE  Ordered(job[w].chat, p)' + Count(job[w].items, p)
                   <= added'[job[w].chat][p]
      <4> PICK c : c = job[w].chat
        OBVIOUS
      <4>1. At(w, "create") /\ c \in Chats
        <5>1. At(w, "create")
          BY <3>3, <3>5 DEF At, Idle
        <5> QED BY <3>3, <5>1, Running DEF At, Chat
      <4>2. Ordered(c, p) + Count(job[w].items, p) <= added[c][p]
        BY <3>2, <4>1 DEF HoldsCart, Chat
      <4>3. Ordered(c, p)' = Ordered(c, p) /\ added[c][p] <= added'[c][p]
            /\ added'[c][p] \in Int
        BY <1>1, <3>1, <4>1
      <4>4. Ordered(c, p) \in Int /\ Count(job[w].items, p) \in Int /\ added[c][p] \in Int
        BY <3>3, <4>1, CoveredTypes, HeldIsInt
      <4>5. Ordered(c, p)' + Count(job[w].items, p) <= added'[c][p]
        BY <4>2, <4>3, <4>4
      <4>6. Ordered(job[w].chat, p)' = Ordered(c, p)'
        BY <3>3, OrderedUnfolds
      <4> QED BY <4>5, <4>6
    <3> QED BY <3>3, <3>4, <3>5 DEF HoldsCart, Chat
  <2> QED BY <2>1, <2>2
<1>4. ASSUME NEW c \in Chats, NEW p \in Products PROVE Covered(c, p)'
  BY <1>1, <1>2 DEF Covered
<1> QED BY <1>3, <1>4

\* While h is not about to clear the cart of c, another is or all is covered.
LEMMA AllCovered ==
  ASSUME NothingTwice, ~broken, NEW h, NEW c \in Chats, NEW p \in Products,
         ~(h \in Workers /\ Ends(h, c))
  PROVE  /\ Ordered(c, p) <= added[c][p]
         /\ \/ \E w \in Workers \ {h} : Ends(w, c)
            \/ Ordered(c, p) + Count(carts[c], p) <= added[c][p]
BY DEF NothingTwice, Covered

\* A step that changes neither carts nor orders.
LEMMA QuietOnce ==
  ASSUME OneWorker, BotInv, NothingTwice, NEW h \in Handlers, OthersStay(h),
         h \in Workers => ~At(h, "link") /\ ~At(h, "clear"),
         UNCHANGED <<carts, added, placed, broken>>,
         ~broken /\ h \in Workers => HoldsCart(h)'
  PROVE  NothingTwice'
<1>1. \A c, p : Ordered(c, p)' = Ordered(c, p)
  BY OrderedUnchanged
<1>2. \A c : ~(h \in Workers /\ Ends(h, c))
  BY DEF Ends
<1>3. ~broken => \A c \in Chats, p \in Products :
        /\ added[c][p] <= added'[c][p] /\ added'[c][p] \in Int
        /\ Ordered(c, p)' <= added'[c][p]
        /\ \/ \E w \in Workers \ {h} : Ends(w, c)
           \/ Ordered(c, p)' + Count(carts'[c], p) <= added'[c][p]
  <2> SUFFICES ASSUME ~broken, NEW c \in Chats, NEW p \in Products
               PROVE  /\ added[c][p] <= added'[c][p] /\ added'[c][p] \in Int
                      /\ Ordered(c, p)' <= added'[c][p]
                      /\ \/ \E w \in Workers \ {h} : Ends(w, c)
                         \/ Ordered(c, p)' + Count(carts'[c], p) <= added'[c][p]
    OBVIOUS
  <2>1. /\ Ordered(c, p) <= added[c][p]
        /\ \/ \E w \in Workers \ {h} : Ends(w, c)
           \/ Ordered(c, p) + Count(carts[c], p) <= added[c][p]
    BY <1>2, AllCovered
  <2>2. added[c][p] \in Int
    BY CoveredTypes
  <2> QED BY <1>1, <2>1, <2>2
<1> QED BY <1>1, <1>3, HandlerSteps

\* A handler that holds no rows does not place an order next.
LEMMA HoldsNothing ==
  ASSUME BotInv', NEW h \in Handlers, job'[h].items = NoRows
  PROVE  HoldsCart(h)'
<1>1. ~At(h, "create")'
  <2> SUFFICES ASSUME At(h, "create")' PROVE FALSE
    OBVIOUS
  <2>1. todo'[h] # <<>> /\ Head(todo'[h]).do = "create"
    BY DEF At, Idle
  <2>2. MayRun(known', placed', todo'[h], job'[h])
    BY DEF BotInv, HandlersOK
  <2>3. Relies(known', placed', "create", job'[h])
    BY <2>1, <2>2 DEF MayRun
  <2> QED BY <2>3 DEF Relies
<1> QED BY <1>1 DEF HoldsCart

\* A handler that decides, or starts, keeps no rows.
LEMMA RowsDropped ==
  ASSUME BotInv, NEW h \in Handlers
  PROVE  /\ \A s, j : Continue(h, s, j) /\ j.items = NoRows =>
              job'[h].items = NoRows
         /\ \A s : Then(h, s) /\ job[h].items = NoRows => job'[h].items = NoRows
<1>1. DOMAIN job = Handlers /\ job[h] \in JobRow /\ NoJob.items = NoRows
  BY DEF BotInv, HandlersOK, MayRun, NoJob
<1>2. ASSUME NEW s, NEW j, Continue(h, s, j), j.items = NoRows
      PROVE  job'[h].items = NoRows
  BY <1>1, <1>2 DEF Continue
<1>3. ASSUME NEW s, Then(h, s), job[h].items = NoRows
      PROVE  job'[h].items = NoRows
  <2> DEFINE j == [job[h] EXCEPT !.route = "", !.input = ""]
  <2>1. j.items = NoRows
    BY <1>1, <1>3 DEF JobRow
  <2>2. Continue(h, s, j)
    BY <1>3 DEF Then
  <2> HIDE DEF j
  <2> QED BY <1>2, <2>1, <2>2
<1> QED BY <1>2, <1>3

\* Decisions, and updates and requests that arrive, order nothing.
LEMMA DecisionsOnce ==
  ASSUME OneWorker, BotInv, BotInv', NothingTwice, ~broken, NEW h \in Handlers,
         \/ h \in Workers /\ (Update(h) \/ Handle(h))
         \/ \E c \in Chats, p \in Products, n \in {-1, 1} : WebCart(h, c, p, n)
  PROVE  NothingTwice'
<1>1. /\ \A s, j : Continue(h, s, j) /\ j.items = NoRows =>
           job'[h].items = NoRows /\ OthersStay(h)
      /\ \A s : Then(h, s) /\ job[h].items = NoRows =>
           job'[h].items = NoRows /\ OthersStay(h)
  BY RowsDropped, MovesAlone
<1>2. CASE Update(h)
  <2>1. ~At(h, "link") /\ ~At(h, "clear") /\ UNCHANGED <<carts, added, placed, broken>>
    BY <1>2 DEF Update, Receive, At
  <2>2. PICK c \in Chats, i \in Inputs, p \in Products \cup {"none"},
             n \in -1 .. MaxAdded : Receive(h, c, i, p, n)
    BY <1>2 DEF Update
  <2> DEFINE j == [NoJob EXCEPT
                     !.chat = c, !.input = i,
                     !.route = IF i = "start" \/ i \in Callbacks THEN i
                               ELSE dialogue[c].state,
                     !.product = p, !.count = n]
  <2>3. j.items = NoRows
    BY DEF NoJob
  <2>4. Continue(h, <<Do("handle")>>, j)
    BY <2>2 DEF Receive
  <2> HIDE DEF j
  <2>5. job'[h].items = NoRows /\ OthersStay(h)
    BY <1>1, <2>3, <2>4
  <2> QED BY <2>1, <2>5, HoldsNothing, QuietOnce
<1>3. CASE \E c \in Chats, p \in Products, n \in {-1, 1} : WebCart(h, c, p, n)
  <2>1. ~At(h, "link") /\ ~At(h, "clear") /\ UNCHANGED <<carts, added, placed, broken>>
    BY <1>3 DEF WebCart, At, Unmoved
  <2>2. PICK c \in Chats, p \in Products, n \in {-1, 1} : WebCart(h, c, p, n)
    BY <1>3
  <2> DEFINE j == [NoJob EXCEPT !.chat = c, !.product = p, !.count = n]
  <2>3. j.items = NoRows
    BY DEF NoJob
  <2>4. \E s : Continue(h, s, j)
    BY <2>2 DEF WebCart
  <2> HIDE DEF j
  <2>5. job'[h].items = NoRows /\ OthersStay(h)
    BY <1>1, <2>3, <2>4
  <2> QED BY <2>1, <2>5, HoldsNothing, QuietOnce
<1>4. CASE h \in Workers /\ Handle(h)
  <2>1. At(h, "handle") /\ UNCHANGED <<carts, added, placed, broken>>
    BY <1>4 DEF Handle, StartCommand, ChangeLanguage, SaveName, ChangePhone,
       MainMenuHandler, CategoryByProductMenu, ProductInfoHandler, CartMenu,
       AddToCartCallback, CategoryByProductMenuCallback, CartQtyChangeCallback,
       CartDeleteCallback, CartBackCallback, DeliveryType, WaitAddressHandler,
       CheckoutPreviewHandler, SelectPaymentMethod, WaitingPaymentHandler,
       Handling, Unmoved
  <2>2. job[h].items = NoRows
    BY <1>4, <2>1 DEF NothingTwice, HoldsCart
  <2>3. job'[h].items = NoRows /\ OthersStay(h)
    <3>1. CASE StartCommand(h) \/ ChangeLanguage(h) \/ SaveName(h) \/ ChangePhone(h)
      BY <1>1, <2>2, <3>1 DEF StartCommand, ChangeLanguage, SaveName, ChangePhone
    <3>2. CASE MainMenuHandler(h) \/ CategoryByProductMenu(h) \/ CartMenu(h)
      BY <1>1, <2>2, <3>2 DEF MainMenuHandler, CategoryByProductMenu, CartMenu
    <3>3. CASE ProductInfoHandler(h)
      BY <1>1, <2>2, <3>3 DEF ProductInfoHandler
    <3>4. CASE \/ AddToCartCallback(h) \/ CategoryByProductMenuCallback(h)
               \/ CartQtyChangeCallback(h) \/ CartDeleteCallback(h)
               \/ CartBackCallback(h)
      BY <1>1, <2>2, <3>4 DEF AddToCartCallback, CategoryByProductMenuCallback,
         CartQtyChangeCallback, CartDeleteCallback, CartBackCallback
    <3>5. CASE DeliveryType(h) \/ CheckoutPreviewHandler(h) \/ WaitingPaymentHandler(h)
      BY <1>1, <2>2, <3>5 DEF DeliveryType, CheckoutPreviewHandler, WaitingPaymentHandler
    <3>6. CASE WaitAddressHandler(h)
      BY <1>1, <2>2, <3>6 DEF WaitAddressHandler
    <3>7. CASE SelectPaymentMethod(h)
      <4>1. \A st : [NoJob EXCEPT !.chat = Chat(h), !.method = Pressed(h),
                                  !.data = st].items = NoRows
        BY DEF NoJob
      <4> QED BY <1>1, <2>2, <3>7, <4>1 DEF SelectPaymentMethod
    <3> QED BY <1>4, <3>1, <3>2, <3>3, <3>4, <3>5, <3>6, <3>7 DEF Handle
  <2>4. ~At(h, "link") /\ ~At(h, "clear")
    BY <2>1 DEF At
  <2> QED BY <2>1, <2>3, <2>4, HoldsNothing, QuietOnce
<1> QED BY <1>2, <1>3, <1>4

\* A handler that goes on with one of these steps does not place an order next.
LEMMA GoesOn ==
  ASSUME BotInv, NEW h \in Handlers, ~Idle(h)
  PROVE  /\ Proceed(h) => HoldsCart(h)' /\ OthersStay(h)
         /\ Return(h) => HoldsCart(h)' /\ OthersStay(h)
         /\ \A a, j : /\ a.do \notin {"handle", "create"}
                      /\ \/ Continue(h, <<a>> \o Tail(todo[h]), j)
                         \/ Continue(h, <<a>>, j)
                         \/ \E b : Continue(h, <<a, b>>, j)
                      => /\ HoldsCart(h)' /\ OthersStay(h)
                         /\ At(h, a.do)' /\ job'[h] = j
<1> DEFINE t == Tail(todo[h])
<1>1. /\ DOMAIN todo = Handlers /\ DOMAIN job = Handlers /\ t \in Seq(Later)
  BY Running DEF BotInv, HandlersOK
<1> HIDE DEF t
<1>2. \A s, j : Continue(h, s, j) =>
        /\ todo'[h] = s
        /\ s # <<>> => job'[h] = j
  BY <1>1 DEF Continue
<1>3. t # <<>> => Head(t).do \notin {"handle", "create"}
  <2>1. t # <<>> => Head(t) \in Later
    BY <1>1, HeadTailProperties
  <2> QED BY <2>1 DEF Later
<1>4. \A s, j : Continue(h, s, j) /\ (s = <<>> \/ Head(s).do \notin {"handle", "create"})
                => HoldsCart(h)'
  BY <1>2 DEF HoldsCart, At, Idle
<1>5. Proceed(h) => HoldsCart(h)'
  BY <1>3, <1>4 DEF Proceed, t
<1>6. Return(h) => HoldsCart(h)'
  BY <1>4 DEF Return
<1>7. ASSUME NEW a, NEW j, a.do \notin {"handle", "create"},
             \/ Continue(h, <<a>> \o t, j)
             \/ Continue(h, <<a>>, j)
             \/ \E b : Continue(h, <<a, b>>, j)
      PROVE  HoldsCart(h)' /\ At(h, a.do)' /\ job'[h] = j
  <2>1. PICK s : Continue(h, s, j) /\ s # <<>> /\ Head(s) = a
    <3>1. CASE Continue(h, <<a>> \o t, j)
      <4> DEFINE s == <<a>> \o t
      <4>1. t \in Seq(Later \cup {a})
        BY <1>1, SeqMonotonic
      <4>2. s # <<>> /\ Head(s) = a
        BY <4>1, Before
      <4> HIDE DEF s
      <4> QED BY <3>1, <4>2 DEF s
    <3>2. CASE Continue(h, <<a>>, j)
      BY <3>2, FewSteps
    <3>3. CASE \E b : Continue(h, <<a, b>>, j)
      BY <3>3, FewSteps
    <3> QED BY <1>7, <3>1, <3>2, <3>3
  <2> QED BY <1>2, <1>4, <1>7, <2>1 DEF At, Idle
<1> QED BY <1>5, <1>6, <1>7, MovesAlone DEF t

\* The statements that change no cart.
LEMMA QuietStatementsOnce ==
  ASSUME OneWorker, BotInv, NothingTwice, NEW h \in Handlers, Statement(h),
         ~UpsertItem(h), ~CleanupItem(h), ~DeleteItem(h), ~ClearCart(h)
  PROVE  NothingTwice'
<1>1. /\ ~Idle(h) /\ ~At(h, "link") /\ ~At(h, "clear")
      /\ UNCHANGED <<carts, added, placed, broken>>
  BY DEF Statement, UpdateState, UpdateStateNil, KeepData, Learn, GetCartInfo,
     LookAtCart, LookAfterDelete, RefreshCartMessage, At, Unmoved, Fields
<1>2. /\ Proceed(h) => HoldsCart(h)' /\ OthersStay(h)
      /\ Return(h) => HoldsCart(h)' /\ OthersStay(h)
      /\ \A a, j : /\ a.do \notin {"handle", "create"}
                   /\ \/ Continue(h, <<a>> \o Tail(todo[h]), j)
                      \/ Continue(h, <<a>>, j)
                      \/ \E b : Continue(h, <<a, b>>, j)
                   => HoldsCart(h)' /\ OthersStay(h)
  BY <1>1, GoesOn
<1>3. HoldsCart(h)' /\ OthersStay(h)
  <2>1. CASE UpdateState(h) \/ UpdateStateNil(h) \/ \E f \in Fields : Learn(h, f)
    BY <1>2, <2>1 DEF UpdateState, UpdateStateNil, Learn
  <2>2. CASE KeepData(h)
    <3>1. PICK st : Continue(h, <<Set(Now(h).state, st)>> \o Tail(todo[h]), job[h])
      BY <2>2 DEF KeepData, Now
    <3>2. Set(Now(h).state, st).do = "set"
      BY DEF Set
    <3> QED BY <1>2, <3>1, <3>2
  <2>3. CASE GetCartInfo(h)
    <3>1. Continue(h, <<Set("get_cart", NoData)>> \o Tail(todo[h]), job[h])
      BY <2>3 DEF GetCartInfo
    <3>2. Set("get_cart", NoData).do = "set"
      BY DEF Set
    <3> QED BY <1>2, <3>1, <3>2
  <2>4. CASE LookAtCart(h) \/ LookAfterDelete(h)
    <3>1. /\ SetNil("show_main_menu").do = "set_nil" /\ ShowMainMenu.do = "set"
          /\ Do("refresh").do = "refresh"
      BY DEF SetNil, ShowMainMenu, Set, Do
    <3>2. \/ Return(h)
          \/ Continue(h, <<SetNil("show_main_menu"), ShowMainMenu>>, job[h])
          \/ Continue(h, <<ShowMainMenu>>, job[h])
          \/ Continue(h, <<Do("refresh")>>, job[h])
      BY <2>4 DEF LookAtCart, LookAfterDelete, Return
    <3> QED BY <1>2, <3>1, <3>2
  <2>5. CASE RefreshCartMessage(h)
    BY <1>2, <2>5 DEF RefreshCartMessage
  <2> QED BY <2>1, <2>2, <2>3, <2>4, <2>5 DEF Statement
<1> QED BY <1>1, <1>3, QuietOnce

\* An upsert puts no more into a cart than it adds.
LEMMA UpsertOnce ==
  ASSUME OneWorker, BotInv, NothingTwice, ~broken, NEW h \in Handlers, UpsertItem(h)
  PROVE  NothingTwice'
<1> DEFINE b == Chat(h)
           q == job[h].product
           n == job[h].count
<1>1. /\ ~Idle(h) /\ ~At(h, "link") /\ ~At(h, "clear") /\ Now(h).do = "upsert"
      /\ placed' = placed /\ broken' = broken
  BY DEF UpsertItem, At, Now
<1>2. b \in Chats /\ q \in Products /\ n \in Int
  BY <1>1, Running DEF Relies, JobRow
<1>3. /\ carts \in [Chats -> Rows] /\ added \in [Chats -> [Products -> Nat]]
  BY DEF BotInv, TablesOK
<1>4. HoldsCart(h)' /\ OthersStay(h)
  <2>1. Do("cleanup").do = "cleanup"
    BY DEF Do
  <2> QED BY <1>1, <2>1, GoesOn DEF UpsertItem
<1>5. /\ carts' = [carts EXCEPT ![b] = Upserted(carts[b], q, n)]
      /\ added' = [added EXCEPT ![b][q] = IF n > 0 THEN @ + n ELSE @]
  BY <1>2, <1>3 DEF UpsertItem, Upsert, Upserted
<1>6. \A c, p : Ordered(c, p)' = Ordered(c, p)
  BY <1>1, OrderedUnchanged
<1>7. ASSUME NEW c \in Chats, NEW p \in Products
      PROVE  /\ added[c][p] <= added'[c][p] /\ added'[c][p] \in Int
             /\ Ordered(c, p)' <= added'[c][p]
             /\ \/ \E w \in Workers \ {h} : Ends(w, c)
                \/ Ordered(c, p)' + Count(carts'[c], p) <= added'[c][p]
  <2> DEFINE W == \E w \in Workers \ {h} : Ends(w, c)
             m == Count(carts[c], p)
             a == added[c][p]
  <2>1. /\ Ordered(c, p) <= a
        /\ W \/ Ordered(c, p) + m <= a
    BY <1>1, AllCovered DEF Ends
  <2>2. Ordered(c, p)' = Ordered(c, p)
    BY <1>6
  <2>3. Ordered(c, p) \in Int /\ m \in Int /\ a \in Int
    BY CoveredTypes
  <2>4. CASE c = b /\ p = q
    <3>1. Count(carts'[c], p) = m + n
      BY <1>2, <1>3, <1>5, <2>4 DEF Upserted, Count
    <3>2. added'[c][p] = IF n > 0 THEN a + n ELSE a
      BY <1>2, <1>3, <1>5, <2>4
    <3> HIDE DEF b, q, n, W, m, a
    <3>3. /\ added'[c][p] \in Int /\ a <= added'[c][p]
          /\ Ordered(c, p)' <= added'[c][p]
          /\ W \/ Ordered(c, p)' + Count(carts'[c], p) <= added'[c][p]
      BY <1>2, <2>1, <2>2, <2>3, <3>1, <3>2
    <3> QED BY <3>3 DEF W, a
  <2>5. CASE ~(c = b /\ p = q)
    <3>1. Count(carts'[c], p) = m
      BY <1>2, <1>3, <1>5, <2>5 DEF Upserted, Count
    <3>2. added'[c][p] = a
      BY <1>2, <1>3, <1>5, <2>5
    <3> QED BY <2>1, <2>2, <2>3, <3>1, <3>2
  <2> QED BY <2>4, <2>5
<1> HIDE DEF b, q, n
<1> QED BY <1>1, <1>4, <1>6, <1>7, HandlerSteps

\* A clean-up, a deletion and clearing leave a row as it was or take it away.
LEMMA RowsGoOnce ==
  ASSUME OneWorker, BotInv, NothingTwice, ~broken, NEW h \in Handlers,
         CleanupItem(h) \/ DeleteItem(h) \/ ClearCart(h)
  PROVE  NothingTwice'
<1> DEFINE b == Chat(h)
           q == job[h].product
<1>1. /\ ~Idle(h) /\ ~At(h, "link") /\ Proceed(h)
      /\ placed' = placed /\ broken' = broken /\ added' = added
      /\ Now(h).do \in {"cleanup", "delete", "clear"}
      /\ At(h, "clear") => ClearCart(h)
  BY DEF CleanupItem, DeleteItem, ClearCart, At, Now
<1>2. b \in Chats /\ carts \in [Chats -> Rows]
  BY <1>1, Running DEF BotInv, TablesOK
<1>3. HoldsCart(h)' /\ OthersStay(h)
  BY <1>1, GoesOn
<1>4. \/ carts' = [carts EXCEPT ![b] = Without(carts[b], {p \in {q} : Count(carts[b], p) <= 0})]
      \/ carts' = [carts EXCEPT ![b] = Without(carts[b], {q})]
      \/ carts' = [carts EXCEPT ![b] = NoRows]
  BY <1>2 DEF CleanupItem, Cleanup, DeleteItem, Delete, ClearCart, Clear
<1>5. \A c \in Chats, p \in Products :
        \/ Count(carts'[c], p) = Count(carts[c], p)
        \/ Count(carts'[c], p) = 0
  BY <1>2, <1>4 DEF Without, NoRows, Count
<1>6. At(h, "clear") => \A p : Count(carts'[b], p) = 0
  <2> SUFFICES ASSUME At(h, "clear"), NEW p PROVE Count(carts'[b], p) = 0
    OBVIOUS
  <2>1. carts' = [carts EXCEPT ![b] = NoRows]
    BY <1>1, <1>2 DEF ClearCart, Clear
  <2> QED BY <1>2, <2>1 DEF NoRows, Count
<1>7. \A c, p : Ordered(c, p)' = Ordered(c, p)
  BY <1>1, OrderedUnchanged
<1>8. ASSUME NEW c \in Chats, NEW p \in Products
      PROVE  /\ added[c][p] <= added'[c][p] /\ added'[c][p] \in Int
             /\ Ordered(c, p)' <= added'[c][p]
             /\ \/ \E w \in Workers \ {h} : Ends(w, c)
                \/ Ordered(c, p)' + Count(carts'[c], p) <= added'[c][p]
  <2>1. Ordered(c, p)' = Ordered(c, p) /\ added'[c][p] = added[c][p]
    BY <1>1, <1>7
  <2>2. Ordered(c, p) \in Int /\ Count(carts[c], p) \in Int /\ added[c][p] \in Int
    BY CoveredTypes
  <2>3. Ordered(c, p) <= added[c][p]
    BY DEF NothingTwice, Covered
  <2>4. CASE Count(carts'[c], p) = 0
    BY <2>1, <2>2, <2>3, <2>4
  <2>5. CASE Count(carts'[c], p) = Count(carts[c], p) /\ Count(carts'[c], p) # 0
    <3>1. ~(h \in Workers /\ Ends(h, c))
      BY <1>1, <1>6, <2>5 DEF Ends
    <3>2. \/ \E w \in Workers \ {h} : Ends(w, c)
          \/ Ordered(c, p) + Count(carts[c], p) <= added[c][p]
      BY <3>1, AllCovered
    <3> QED BY <2>1, <2>2, <2>3, <2>5, <3>2
  <2> QED BY <1>5, <2>4, <2>5
<1> HIDE DEF b, q
<1> QED BY <1>1, <1>3, <1>7, <1>8, HandlerSteps

\* The cart is read for the order.
LEMMA ReadCartOnce ==
  ASSUME OneWorker, BotInv, NothingTwice, ~broken, NEW h \in Handlers,
         h \in Workers, ReadCart(h)
  PROVE  NothingTwice'
<1>1. /\ ~Idle(h) /\ ~At(h, "link") /\ ~At(h, "clear")
      /\ UNCHANGED <<carts, added, placed, broken>>
  BY DEF ReadCart, At, Unmoved
<1>2. /\ DOMAIN todo = Handlers /\ DOMAIN job = Handlers /\ job[h] \in JobRow
  BY <1>1, Running DEF BotInv, HandlersOK
<1> DEFINE j == [job[h] EXCEPT !.items = carts[Chat(h)]]
<1>3. j.items = carts[Chat(h)] /\ j.chat = Chat(h)
  BY <1>2 DEF JobRow, Chat
<1>4. Continue(h, <<>>, j) \/ Continue(h, <<Do("create")>>, j)
  BY DEF ReadCart
<1> HIDE DEF j
<1>5. OthersStay(h)
  BY <1>4, MovesAlone
<1>6. ASSUME NEW c \in Chats, NEW p \in Products
      PROVE  Ordered(c, p)' + Count(carts[c], p) <= added'[c][p]
  <2>1. \A w \in Workers : w = h
    BY DEF OneWorker
  <2>2. Ordered(c, p) + Count(carts[c], p) <= added[c][p]
    BY <1>1, <2>1, AllCovered DEF Ends
  <2> QED BY <1>1, <2>2, OrderedUnchanged
<1>7. HoldsCart(h)'
  <2>1. /\ Do("create").do = "create" /\ Head(<<Do("create")>>) = Do("create")
        /\ <<Do("create")>> # <<>>
    BY DEF Do
  <2>2. CASE Continue(h, <<>>, j)
    BY <1>2, <2>2 DEF Continue, HoldsCart, At, Idle
  <2>3. CASE Continue(h, <<Do("create")>>, j)
    <3>1. todo'[h] = <<Do("create")>> /\ job'[h] = j
      BY <1>2, <2>1, <2>3 DEF Continue
    <3>2. ~At(h, "handle")' /\ Chat(h)' = Chat(h) /\ job'[h].items = carts[Chat(h)]
      BY <1>3, <2>1, <3>1 DEF At, Idle, Chat
    <3>3. Chat(h) \in Chats
      BY <1>1, Running
    <3> QED BY <1>6, <3>2, <3>3 DEF HoldsCart
  <2> QED BY <1>4, <2>2, <2>3
<1> QED BY <1>1, <1>5, <1>7, QuietOnce

\* An order takes what its chat's cart holds, and the cart is cleared next.
LEMMA CreateOrderOnce ==
  ASSUME OneWorker, BotInv, BotInv', NothingTwice, ~broken, NEW h \in Handlers,
         h \in Workers, CreateOrder(h)
  PROVE  NothingTwice'
<1>1. /\ ~Idle(h) /\ ~At(h, "link") /\ ~At(h, "clear") /\ At(h, "create")
      /\ UNCHANGED <<carts, added, broken>>
  BY DEF CreateOrder, At
<1>2. /\ job[h] \in JobRow /\ Chat(h) \in Chats
      /\ \A p \in Products :
           Ordered(Chat(h), p) + Count(job[h].items, p) <= added[Chat(h)][p]
  BY <1>1, Running DEF NothingTwice, HoldsCart
<1>3. CASE Return(h) /\ UNCHANGED placed
  <2>1. HoldsCart(h)' /\ OthersStay(h)
    BY <1>1, <1>3, GoesOn
  <2> QED BY <1>1, <1>3, <2>1, QuietOnce
<1>4. CASE ~(Return(h) /\ UNCHANGED placed)
  <2> DEFINE o == Len(placed) + 1
             r == [chat |-> Chat(h), items |-> job[h].items,
                   method |-> job[h].method, delivered |-> ToDeliver(job[h].data),
                   link |-> FALSE, paid |-> FALSE]
             j == [job[h] EXCEPT !.data = [NoData EXCEPT !.order = o]]
             s == IF job[h].method = "cash" THEN AfterOrder(job[h], o)
                                            ELSE <<Do("link")>>
  <2>1. placed' = Append(placed, r) /\ Continue(h, s, j)
    BY <1>4 DEF CreateOrder
  <2>2. j.chat = Chat(h)
    BY <1>2 DEF JobRow, Chat
  <2>3. r.chat = Chat(h) /\ r.items = job[h].items
    BY <1>2
  <2>4. /\ s = <<Do("clear"), SetNil("show_main_menu")>> \/ s = <<Do("link")>>
        /\ Do("clear").do = "clear" /\ Do("link").do = "link"
    BY DEF AfterOrder, Do
  <2> HIDE DEF r, j, s
  <2>5. HoldsCart(h)' /\ OthersStay(h) /\ (At(h, "clear")' \/ At(h, "link")') /\ job'[h] = j
    <3>1. /\ \A a, b : a.do \in {"clear", "link"} /\ Continue(h, <<a, b>>, j) =>
               HoldsCart(h)' /\ OthersStay(h) /\ At(h, a.do)' /\ job'[h] = j
          /\ \A a : a.do \in {"clear", "link"} /\ Continue(h, <<a>>, j) =>
               HoldsCart(h)' /\ OthersStay(h) /\ At(h, a.do)' /\ job'[h] = j
      BY <1>1, GoesOn
    <3> QED BY <2>1, <2>4, <3>1
  <2>6. \A c : c = Chat(h) => Ends(h, c)'
    BY <2>2, <2>5 DEF Ends, Chat
  <2>7. ASSUME NEW c, NEW p
        PROVE  Ordered(c, p)' = Ordered(c, p) + (IF r.chat = c THEN Count(r.items, p) ELSE 0)
    <3>1. placed \in Seq(OrderRow) /\ placed' \in Seq(OrderRow)
      BY DEF BotInv, TablesOK
    <3>2. r \in OrderRow
      <4>1. Len(placed) + 1 \in 1 .. Len(placed') /\ placed'[Len(placed) + 1] = r
        BY <2>1, <3>1, LenProperties
      <4> QED BY <3>1, <4>1, ElementOfSeq
    <3> QED BY <2>1, <3>1, <3>2, OneOrderMore, OrderedUnfolds
  <2>8. ASSUME NEW c \in Chats, NEW p \in Products
        PROVE  /\ added[c][p] <= added'[c][p] /\ added'[c][p] \in Int
               /\ Ordered(c, p)' <= added'[c][p]
               /\ \/ Ends(h, c)'
                  \/ Ordered(c, p)' + Count(carts'[c], p) <= added'[c][p]
    <3>1. \A w \in Workers : w = h
      BY DEF OneWorker
    <3>2. /\ Ordered(c, p) <= added[c][p]
          /\ Ordered(c, p) + Count(carts[c], p) <= added[c][p]
      BY <1>1, <3>1, AllCovered DEF Ends
    <3>3. Ordered(c, p) \in Int /\ Count(carts[c], p) \in Int /\ added[c][p] \in Int
      BY CoveredTypes
    <3>4. CASE c = Chat(h)
      <4>1. Ordered(c, p)' = Ordered(c, p) + Count(job[h].items, p)
        BY <2>3, <2>7, <3>4
      <4>2. Ordered(c, p) + Count(job[h].items, p) <= added[c][p]
        BY <1>2, <3>4
      <4> QED BY <1>1, <2>6, <3>3, <3>4, <4>1, <4>2
    <3>5. CASE c # Chat(h)
      <4>1. Ordered(c, p)' = Ordered(c, p)
        BY <2>3, <2>7, <3>3, <3>5
      <4> QED BY <1>1, <3>2, <3>3, <4>1
    <3> QED BY <3>4, <3>5
  <2> QED BY <1>1, <2>5, <2>8, HandlerSteps
<1> QED BY <1>3, <1>4

\* The link that follows changes no item, and the cart is still to be cleared.
LEMMA CreateLinkOnce ==
  ASSUME OneWorker, BotInv, BotInv', NothingTwice, ~broken, NEW h \in Handlers,
         h \in Workers, CreateLink(h)
  PROVE  NothingTwice'
<1> DEFINE o == job[h].data.order
<1>1. /\ ~Idle(h) /\ At(h, "link") /\ placed' = [placed EXCEPT ![o].link = TRUE]
      /\ Continue(h, AfterOrder(job[h], o), job[h])
      /\ UNCHANGED <<carts, added, broken>>
  BY DEF CreateLink, At
<1> HIDE DEF o
<1>2. HoldsCart(h)' /\ OthersStay(h) /\ At(h, "clear")' /\ job'[h] = job[h]
  <2>1. \A a, b : a.do = "clear" /\ Continue(h, <<a, b>>, job[h]) =>
          HoldsCart(h)' /\ OthersStay(h) /\ At(h, a.do)' /\ job'[h] = job[h]
    BY <1>1, GoesOn
  <2>2. Do("clear").do = "clear"
    BY DEF Do
  <2>3. \E b : Continue(h, <<Do("clear"), b>>, job[h])
    BY <1>1 DEF AfterOrder
  <2> QED BY <2>1, <2>2, <2>3
<1>3. \A c : c = Chat(h) => Ends(h, c)'
  BY <1>2 DEF Ends, Chat
<1>4. \A c, p : Ordered(c, p)' = Ordered(c, p)
  <2>1. Len(placed') = Len(placed)
    BY <1>1
  <2>2. \A i \in 1 .. Len(placed) :
          placed'[i].chat = placed[i].chat /\ placed'[i].items = placed[i].items
    BY <1>1, PlacedRows DEF OrderRow
  <2> QED BY <2>1, <2>2, OrderedStays
<1>5. ASSUME NEW c \in Chats, NEW p \in Products
      PROVE  /\ added[c][p] <= added'[c][p] /\ added'[c][p] \in Int
             /\ Ordered(c, p)' <= added'[c][p]
             /\ \/ Ends(h, c)'
                \/ Ordered(c, p)' + Count(carts'[c], p) <= added'[c][p]
  <2>1. Covered(c, p) /\ added[c][p] \in Int
    BY CoveredTypes DEF NothingTwice
  <2>2. CASE c = Chat(h)
    BY <1>1, <1>3, <1>4, <2>1, <2>2 DEF Covered
  <2>3. CASE c # Chat(h)
    <3>1. ~(\E w \in Workers : Ends(w, c))
      BY <2>3 DEF OneWorker, Ends
    <3> QED BY <1>1, <1>4, <2>1, <3>1 DEF Covered
  <2> QED BY <2>2, <2>3
<1> QED BY <1>1, <1>2, <1>5, HandlerSteps

\* Neither does a payment.
LEMMA PayOnce ==
  ASSUME BotInv, BotInv', NothingTwice, NEW o \in Orders, Pay(o)
  PROVE  NothingTwice'
<1>1. \A c, p : Ordered(c, p)' = Ordered(c, p)
  <2>1. Len(placed') = Len(placed)
    BY DEF Pay
  <2>2. \A i \in 1 .. Len(placed) :
          placed'[i].chat = placed[i].chat /\ placed'[i].items = placed[i].items
    BY PlacedRows DEF Pay, OrderRow
  <2> QED BY <2>1, <2>2, OrderedStays
<1>2. \A h \in Workers : /\ HoldsCart(h) => HoldsCart(h)'
                         /\ \A c : Ends(h, c) => Ends(h, c)'
  BY <1>1 DEF Pay, HoldsCart, Ends, At, Idle, Chat
<1>3. UNCHANGED <<carts, added, broken>>
  BY DEF Pay
<1> QED BY <1>1, <1>2, <1>3 DEF NothingTwice, Covered

\* With one handler at a time, a step orders nothing twice.
LEMMA StepOnce ==
  ASSUME OneWorker, BotInv, BotInv', NothingTwice, [BotNext]_botVars
  PROVE  NothingTwice'
<1>1. CASE broken'
  BY <1>1 DEF NothingTwice
<1>2. CASE ~broken'
  <2>1. CASE UNCHANGED botVars
    <3>1. \A c, p : Ordered(c, p)' = Ordered(c, p)
      BY <2>1, OrderedUnchanged DEF botVars
    <3> QED BY <2>1, <3>1 DEF botVars, NothingTwice, HoldsCart, Covered, Ends, At,
                              Idle, Chat
  <2>2. ASSUME NEW h \in Workers, Update(h) \/ Handle(h) \/ Ordering(h) \/ NoLink(h)
        PROVE  NothingTwice'
    <3>1. h \in Handlers
      BY DEF Handlers
    <3>2. ~NoLink(h)
      BY <1>2 DEF NoLink
    <3>3. Update(h) \/ Ordering(h) => ~broken
      BY <1>2 DEF Update, Receive, Ordering, ReadCart, CreateOrder, CreateLink, Unmoved
    <3>4. Handle(h) => ~broken
      BY <1>2 DEF Handle, StartCommand, ChangeLanguage, SaveName, ChangePhone,
         MainMenuHandler, CategoryByProductMenu, ProductInfoHandler, CartMenu,
         AddToCartCallback, CategoryByProductMenuCallback, CartQtyChangeCallback,
         CartDeleteCallback, CartBackCallback, DeliveryType, WaitAddressHandler,
         CheckoutPreviewHandler, SelectPaymentMethod, WaitingPaymentHandler, Unmoved
    <3> QED BY <2>2, <3>1, <3>2, <3>3, <3>4, DecisionsOnce, ReadCartOnce,
               CreateOrderOnce, CreateLinkOnce DEF Ordering
  <2>3. ASSUME NEW h \in Handlers, Statement(h) \/ FailStatement(h)
        PROVE  NothingTwice'
    <3>1. ~FailStatement(h)
      BY <1>2 DEF FailStatement
    <3>2. UpsertItem(h) \/ CleanupItem(h) \/ DeleteItem(h) \/ ClearCart(h) => ~broken
      BY <1>2 DEF UpsertItem, CleanupItem, DeleteItem, ClearCart
    <3> QED BY <2>3, <3>1, <3>2, UpsertOnce, RowsGoOnce, QuietStatementsOnce
  <2>4. ASSUME NEW r \in Requests, NEW c \in Chats, NEW p \in Products,
               NEW n \in {-1, 1}, WebCart(r, c, p, n)
        PROVE  NothingTwice'
    <3>1. r \in Handlers /\ ~broken
      BY <1>2, <2>4 DEF WebCart, Handlers, Unmoved
    <3> QED BY <2>4, <3>1, DecisionsOnce
  <2>5. ASSUME NEW o \in Orders, Pay(o) PROVE NothingTwice'
    BY <2>5, PayOnce
  <2>6. ~BotCrash
    BY <1>2 DEF BotCrash
  <2> QED BY <2>1, <2>2, <2>3, <2>4, <2>5, <2>6 DEF BotNext
<1> QED BY <1>1, <1>2

\* With one worker nothing is ordered twice, for any number of chats and products
\* and whatever the web page does to carts meanwhile: of each product, what a chat
\* has ordered and what its cart still holds is no more than was ever added, unless
\* a statement failed, a provider gave no link or the process died
\* (SelectPaymentMethodHandler clears the cart once the order is placed).
THEOREM OneWorkerOrdersOnce ==
  ASSUME OneWorker
  PROVE  BotSpec => []OrderedOnlyOnce
<1>1. BotInit => NothingTwice
  <2> SUFFICES ASSUME BotInit PROVE NothingTwice
    OBVIOUS
  <2>1. \A w \in Workers : HoldsCart(w)
    BY DEF BotInit, HoldsCart, At, Idle, Handlers
  <2>2. ASSUME NEW c \in Chats, NEW p \in Products PROVE Covered(c, p)
    <3>1. /\ Count(carts[c], p) = 0 /\ added[c][p] = 0
          /\ placed = <<>>
      BY DEF BotInit, CartInit, NoRows, Count
    <3>2. Ordered(c, p) = 0
      BY <3>1, OrderedUnfolds, NothingOrdered
    <3> QED BY <3>1, <3>2 DEF Covered
  <2> QED BY <2>1, <2>2 DEF NothingTwice
<1>2. BotInv /\ NothingTwice /\ [BotNext]_botVars => NothingTwice'
  BY BotStepKeeps, StepOnce
<1>3. NothingTwice => OrderedOnlyOnce
  <2>1. AtRest => \A c : ~(\E w \in Workers : Ends(w, c))
    BY DEF AtRest, Ends, At, Handlers
  <2> QED BY <2>1 DEF NothingTwice, Covered, OrderedOnlyOnce
<1>4. BotSpec => []BotInv
  BY BotInvariant
<1> QED BY <1>1, <1>2, <1>3, <1>4, PTL DEF BotSpec

=============================================================================
