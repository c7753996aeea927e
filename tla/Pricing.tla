------------------------------ MODULE Pricing ------------------------------
(***************************************************************************)
(* What an order costs.  An order stores the products and the prices of    *)
(* the moment it was placed, but whoever reads it computes its total anew  *)
(* from the products' rows, one query after the other: the link to pay,    *)
(* the amount Payme must ask for, the sum that iiko is told.               *)
(***************************************************************************)
EXTENDS Catalogue, Zones

CONSTANTS
  Order, NoOrder,
  Carts,          \* bound: what is ordered, a set of functions on Product
  Methods,        \* bound: how orders are paid
  OlmaliqMin,     \* the least that is delivered in each zone
  OhangaronMin,
  OhangaronFee    \* what a delivery there costs (in Olmaliq it is free)

ASSUME NoOrderAssumption == NoOrder \notin Order
ASSUME CartsAssumption   == Carts \subseteq [Product -> Nat]
ASSUME MethodsAssumption == Methods \subseteq {"CASH", "PAYME", "CLICK"}
ASSUME PlacesAssumption  == "pickup" \notin Places
ASSUME ZonesAssumption   == Len(Files) = 2   \* Olmaliq, then Ohangaron
ASSUME AmountsAssumption ==
  OlmaliqMin \in Nat /\ OhangaronMin \in Nat /\ OhangaronFee \in Nat

\* What a client was charged.
Paid == [som : Nat, tiyin : 0 .. 99]

VARIABLES
  orders,     \* the rows of the orders that were placed
  bill,       \* bill[r]: the locals of r's computation of a total
  charged,    \* charged[o]: the amounts that were charged for o
  kitchen,    \* kitchen[o]: the tickets of o that iiko accepted
  drifted     \* history: the orders whose prices changed, or could not be
              \* read, since they were first looked up

pricingVars == <<orders, bill, charged, kitchen, drifted>>

PricingPC == {"create_order", "price", "price_box", "pay_order", "send_order",
              "sent"}

\* stage: what the total is for; strict: whether a price that is missing ends
\* the request (Create) or is left out (everyone else); price and box are
\* prodCache and boxCache, boxOf the boxes that were found for the lines.
NoBill == [ord |-> NoOrder, stage |-> "place", strict |-> FALSE,
           qty |-> <<>>, todo |-> {}, line |-> NoBox,
           price |-> <<>>, boxOf |-> <<>>, box |-> <<>>,
           place |-> "pickup", method |-> "CASH", amount |-> 0]

PricingInit ==
  /\ orders = <<>>
  /\ bill = [r \in Req |-> NoBill]
  /\ charged = [o \in Order |-> {}]
  /\ kitchen = [o \in Order |-> {}]
  /\ drifted = {}

Placed(o) == o \in DOMAIN orders

Lines(q) == {p \in Product : q[p] > 0}

Bill(r, b) == bill' = [bill EXCEPT ![r] = b]

Drop(r) == Goto(r, "idle") /\ Bill(r, NoBill)

\* GetByID, or GetByOrderNumber, up to the loop over the lines.
Reprice(r, o, row, l, a) ==
  /\ Goto(r, "price")
  /\ Bill(r, [NoBill EXCEPT !.ord = o, !.stage = l, !.amount = a,
                            !.qty = row.qty, !.todo = Lines(row.qty)])

----------------------------------------------------------------------------
(* The loop: GetProductPriceWithBox of each product, then of its box       *)

\* The first price counts; without one the scan of the row fails.
Costed(p) == There(p) /\ rows[p].sizes # <<>>

Cost(p) == rows[p].sizes[1]

\* A price that is not there, or cannot be read.
Missing(r, p, b) ==
  /\ ~Costed(p) \/ MayFail("db")
  /\ IF bill[r].strict THEN Drop(r) ELSE Goto(r, "price") /\ Bill(r, b)
  /\ drifted' = IF Costed(p) THEN drifted \cup {bill[r].ord} ELSE drifted

ReadPrice(r) ==
  /\ At(r, "price")
  /\ \E p \in bill[r].todo :
       LET left == [bill[r] EXCEPT !.todo = @ \ {p}]
           read == [left EXCEPT !.price = Put(@, p, Cost(p))]
           box  == rows[p].box
       IN \/ /\ Costed(p)
             /\ IF box \in {NoBox} \cup DOMAIN bill[r].box
                  THEN /\ Goto(r, "price")
                       /\ Bill(r, IF box = NoBox THEN read
                                  ELSE [read EXCEPT !.boxOf = Put(@, p, box)])
                  ELSE /\ Goto(r, "price_box")
                       /\ Bill(r, [read EXCEPT !.line = p,
                                               !.boxOf = Put(@, p, box)])
             /\ UNCHANGED drifted
          \/ Missing(r, p, left)
  /\ UNCHANGED <<orders, charged, kitchen>>

\* The box of the line was noted when the product was read; when its row is
\* not found the line counts without one.
ReadBoxPrice(r) ==
  /\ At(r, "price_box")
  /\ LET p   == bill[r].line
         box == bill[r].boxOf[p]
         out == [bill[r] EXCEPT !.line = NoBox]
     IN \/ /\ Costed(box)
           /\ Goto(r, "price")
           /\ Bill(r, [out EXCEPT !.box = Put(@, box, Cost(box))])
           /\ UNCHANGED drifted
        \/ Missing(r, box, [out EXCEPT !.boxOf = Restrict(@, DOMAIN @ \ {p})])
  /\ UNCHANGED <<orders, charged, kitchen>>

Totalled(r, l) == At(r, "price") /\ bill[r].todo = {} /\ bill[r].stage = l

\* A box for each piece of each line that has one.
BoxesOnce(b) == SumFunction([p \in DOMAIN b.boxOf |-> b.box[b.boxOf[p]]])

BoxesTotal(b) ==
  SumFunction([p \in DOMAIN b.boxOf |-> b.box[b.boxOf[p]] * b.qty[p]])

\* OrderPriceForIIKO: everything but the delivery.
ItemsTotal(b) ==
  SumFunction([p \in DOMAIN b.price |-> b.price[p] * b.qty[p]]) + BoxesTotal(b)

----------------------------------------------------------------------------
(* Create                                                                  *)

\* The zone of an order, 0 if it is fetched or asked for outside.
Zone(place) == IF place = "pickup" THEN 0 ELSE ZoneAt(place)

Least(zone) ==
  CASE zone = 1 -> OlmaliqMin [] zone = 2 -> OhangaronMin [] OTHER -> 0

Minimum(place) == Least(Zone(place))

Fee(place) == IF Zone(place) = 2 THEN OhangaronFee ELSE 0

\* The checks of the request, up to the prices.
CreateOrder(r) ==
  /\ At(r, "create_order")
  /\ \/ \E o \in Order, q \in Carts, z \in Places \cup {"pickup"}, m \in Methods :
          /\ ~Placed(o) /\ \A s \in Req : bill[s].ord # o
          /\ Lines(q) # {}
          /\ z # "pickup" => ZoneAt(z) # 0
          /\ Goto(r, "price")
          /\ Bill(r, [NoBill EXCEPT !.ord = o, !.strict = TRUE, !.qty = q,
                                    !.todo = Lines(q), !.place = z, !.method = m])
     \/ Drop(r)
  /\ UNCHANGED <<orders, charged, kitchen, drifted>>

TooLittleWithFee(b) == ItemsTotal(b) + Fee(b.place) < Minimum(b.place)

TooLittle(b) == ItemsTotal(b) < Minimum(b.place)

\* What the INSERT stores: the lines with their prices and boxes.
NewRow(b) ==
  [qty |-> b.qty, price |-> b.price, boxOf |-> b.boxOf, box |-> b.box,
   place |-> b.place, method |-> b.method, fee |-> Fee(b.place), link |-> 0,
   sent |-> FALSE]

\* The minimum is asked of the items alone.  The row that was inserted is
\* read again, and priced again.
PlaceOrder(r) ==
  /\ Totalled(r, "place")
  /\ LET b == bill[r]
     IN \/ /\ ~TooLittle(b)
           /\ orders' = Put(orders, b.ord, NewRow(b))
           /\ Reprice(r, b.ord, NewRow(b), "link", 0)
        \/ /\ TooLittle(b) \/ MayFail("db")
           /\ Drop(r)
           /\ UNCHANGED orders
  /\ UNCHANGED <<charged, kitchen, drifted>>

\* TotalPrice.
Total(b) == ItemsTotal(b) + orders[b.ord].fee

\* Payme counts in tiyin, Click in so'm.
Tiyin(som) == som * 100

LinkAmount(b) ==
  IF orders[b.ord].method = "PAYME" THEN Tiyin(Total(b)) ELSE Total(b)

\* The end of Create: an order paid online gets its link (and, with Click,
\* its invoice), unless something fails on the way.
LinkOrder(r) ==
  /\ Totalled(r, "link")
  /\ LET o == bill[r].ord
     IN \/ /\ orders[o].method # "CASH"
           /\ orders' = [orders EXCEPT ![o].link = LinkAmount(bill[r])]
        \/ /\ orders[o].method = "CASH" \/ MayFail("db") \/ MayFail("provider")
           /\ UNCHANGED orders
  /\ Drop(r)
  /\ UNCHANGED <<charged, kitchen, drifted>>

----------------------------------------------------------------------------
(* Paying                                                                  *)

\* The client pays what the link asks for, what the order costs in tiyin at the
\* prices that it stores, or something else.
Amounts(o) ==
  {orders[o].link, Tiyin(ItemsTotal(orders[o]) + orders[o].fee), 1}

TiyinUnreduced(t) == [som |-> t \div 100, tiyin |-> t]

TiyinToSom(t) == [som |-> t \div 100, tiyin |-> t % 100]

\* Payme's CreateTransaction takes an order of any method, and compares with
\* what it costs by now; Click's Prepare compares with the invoice.
PayOrder(r) ==
  /\ At(r, "pay_order")
  /\ \/ \E o \in Order :
          /\ Placed(o)
          /\ \/ /\ \E a \in Amounts(o) : Reprice(r, o, orders[o], "charge", a)
                /\ UNCHANGED charged
             \/ /\ orders[o].method = "CLICK" /\ orders[o].link > 0
                /\ charged' = [charged EXCEPT
                                 ![o] = @ \cup {[som |-> orders[o].link, tiyin |-> 0]}]
                /\ Drop(r)
     \/ Drop(r) /\ UNCHANGED charged
  /\ UNCHANGED <<orders, kitchen, drifted>>

AnyAmount(b) == TRUE

ExpectedAmount(b) == b.amount = Tiyin(Total(b))

\* The end of CreateTransaction; an index may refuse a second transaction.
Charge(r) ==
  /\ Totalled(r, "charge")
  /\ LET b == bill[r]
     IN \/ /\ ExpectedAmount(b)
           /\ charged' = [charged EXCEPT ![b.ord] = @ \cup {TiyinToSom(b.amount)}]
        \/ /\ ~ExpectedAmount(b) \/ charged[b.ord] # {} \/ MayFail("db")
           /\ UNCHANGED charged
  /\ Drop(r)
  /\ UNCHANGED <<orders, kitchen, drifted>>

----------------------------------------------------------------------------
(* Sending the order to iiko                                               *)

\* The guards of sendToIikoIfAllowed.
SendOrder(r) ==
  /\ At(r, "send_order")
  /\ \/ \E o \in Order :
          /\ Placed(o) /\ ~orders[o].sent
          /\ orders[o].method # "CASH" => charged[o] # {}
          /\ Reprice(r, o, orders[o], "send", 0)
     \/ Drop(r)
  /\ UNCHANGED <<orders, charged, kitchen, drifted>>

BoxesAskedNow(b) == b.boxOf

\* The box that the products' rows name now, or else the one that the order
\* stores.
BoxesAsked(b) == OrElse(b.boxOf, orders[b.ord].boxOf)

\* addDeliveryFeeItem: a delivery that costs something is asked for, too.
FeeAsked(o) == IF orders[o].place = "pickup" THEN 0 ELSE orders[o].fee

\* buildCreateOrderForIiko: every line is asked for, priced or not, and the
\* boxes of the lines are added up.
Ticket(b) ==
  [sum   |-> ItemsTotal(b),
   fee   |-> FeeAsked(b.ord),
   items |-> [p \in Product |->
     b.qty[p] + SumFunctionOnSet(b.qty, {l \in DOMAIN BoxesAsked(b) :
                                           BoxesAsked(b)[l] = p})]]

\* An order that costs nothing is not sent.
SubmitOrder(r) ==
  /\ Totalled(r, "send")
  /\ ItemsTotal(bill[r]) > 0
  /\ CallIiko(r, "sent")
  /\ UNCHANGED pricingVars

SubmitNothing(r) ==
  /\ Totalled(r, "send")
  /\ ItemsTotal(bill[r]) = 0
  /\ Drop(r)
  /\ UNCHANGED <<orders, charged, kitchen, drifted>>

\* iiko acted on r's call: if it submits an order, this is the ticket.
TicketAccepted(r) ==
  kitchen' = IF client[r].back = "sent"
               THEN [kitchen EXCEPT ![bill[r].ord] = @ \cup {Ticket(bill[r])}]
               ELSE kitchen

\* The id that iiko gave is stored, unless the statement fails.
OrderSent(r) ==
  /\ At(r, "sent")
  /\ \/ /\ client[r].answer = "ok"
        /\ orders' = [orders EXCEPT ![bill[r].ord].sent = TRUE]
     \/ /\ client[r].answer # "ok" \/ MayFail("db")
        /\ UNCHANGED orders
  /\ Return(r)
  /\ Drop(r)
  /\ UNCHANGED <<charged, kitchen, drifted>>

PricingStep(r) ==
  \/ /\ \/ ReadPrice(r) \/ ReadBoxPrice(r)
        \/ CreateOrder(r) \/ PlaceOrder(r) \/ LinkOrder(r)
        \/ PayOrder(r) \/ Charge(r) \/ SendOrder(r) \/ SubmitNothing(r)
     /\ UNCHANGED tokenVars
  \/ SubmitOrder(r)
  \/ OrderSent(r)

\* What a product costs, as far as an order can tell.
PriceTag(p) == IF Costed(p) THEN <<Cost(p), rows[p].box>> ELSE <<>>

\* The rows change under the orders that were placed or are being priced.
PricesMove ==
  LET touched == {o \in Order : Placed(o)} \cup {bill[s].ord : s \in Req}
  IN drifted' = IF \E p \in Product : PriceTag(p)' # PriceTag(p)
                  THEN drifted \cup (touched \ {NoOrder}) ELSE drifted

----------------------------------------------------------------------------
\* A function on some of the products.
OnProducts(f, S) == DOMAIN f \subseteq Product /\ \A p \in DOMAIN f : f[p] \in S

PricingTypeOK ==
  /\ DOMAIN orders \subseteq Order
  /\ \A o \in DOMAIN orders :
       /\ orders[o].qty \in [Product -> Nat]
       /\ OnProducts(orders[o].price, Nat) /\ OnProducts(orders[o].box, Nat)
       /\ OnProducts(orders[o].boxOf, DOMAIN orders[o].box)
       /\ orders[o].link \in Nat /\ orders[o].sent \in BOOLEAN
  /\ charged \in [Order -> SUBSET Paid]
  /\ \A o \in Order :
       kitchen[o] \subseteq [sum : Nat, fee : Nat, items : [Product -> Nat]]
  /\ \A r \in Req :
       /\ bill[r].ord \in Order \cup {NoOrder}
       /\ bill[r].line \in Product \cup {NoBox}
       /\ bill[r].todo \subseteq Product
       /\ OnProducts(bill[r].price, Nat) /\ OnProducts(bill[r].box, Nat)
       /\ OnProducts(bill[r].boxOf, Product)
  /\ drifted \subseteq Order

\* A delivery goes where a zone of the shop is, and is worth that zone's
\* minimum at the prices that the order stores, without the fee, whatever its
\* lines and boxes are (the ray test of ContainsAnyWithIndex, and Create).
MinimumMet ==
  \A o \in Order :
    Placed(o) /\ orders[o].place # "pickup" =>
      \E i \in {1, 2} : /\ Serves(i, orders[o].place)
                        /\ ItemsTotal(orders[o]) >= Least(i)
                        /\ orders[o].fee = IF i = 2 THEN OhangaronFee ELSE 0

\* iiko is told to collect what the client was charged, less the delivery:
\* three computations of one total, in so'm and in tiyin, by three handlers
\* (Create, CreateTransaction or Prepare, SendToIikoIfAllowed).  It is so as
\* long as no price changes and every price can be read in between.
IikoToldWhatWasCharged ==
  \A o \in Order \ drifted : \A t \in kitchen[o] :
    charged[o] \subseteq {[som |-> t.sum + t.fee, tiyin |-> 0]}

\* The sum that iiko is told is that of the items it is asked for: products
\* and boxes, as often as they are asked for (again, while prices stay).
SumCoversItems ==
  \A o \in Order \ drifted : \A t \in kitchen[o] :
    t.sum = SumFunction([p \in {l \in Product : t.items[l] > 0} |->
                           t.items[p] * Cost(p)])

\* iiko is asked for every line of the order, and for a box for each piece that
\* was to come in one when the order was placed, whichever rows were edited or
\* deleted since and whichever query fails (Create stores the boxes, enrichOrder
\* keeps those whose rows it cannot read, buildCreateOrderForIiko).
BoxesComeAlong ==
  \A o \in Order : \A t \in kitchen[o] :
    SumFunction(t.items) >=
      SumFunction(orders[o].qty)
        + SumFunctionOnSet(orders[o].qty, DOMAIN orders[o].boxOf)
=============================================================================
