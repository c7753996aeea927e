# Verification of the sushitana backend

TLA+ modules, TLC runs and TLAPS proofs about the Go backend of a sushi
delivery shop: a Telegram bot and an HTTP gateway over one Postgres database,
with iiko (the kitchen's system), Payme and Click (payment providers) outside.
Paths below are relative to `src/`.

## 1. Inventory

The server is one process. gin runs every HTTP request in a goroutine; the bot
has ten workers; each iiko webhook event gets a goroutine of its own. All of
them work on the rows of the database. Orders, payments, carts and dialogues are
changed one statement at a time (only `UpdateOnComplete` opens a transaction,
around a single statement), so what a handler has read may be stale when it
writes, and nothing undoes half of a handler. Roles, employees and the batches
of an import are written in transactions.

| Component | State | Operations | What makes it correct |
|---|---|---|---|
| orders table (`pkg/repository/postgres/order_repo`) | a row per order: status, payment status and method, delivery type, iiko id, last status announced | insert, delete, one unconditional UPDATE per column group, `TryMarkNotified` (compare and set) | enums only |
| submission and notification (`internal/orderflow`, copied in `internal/order`) | none of its own | `SendToIikoIfAllowed`, `NotifyOrderStatusIfNeeded` | nothing unpaid reaches the kitchen; each order at most once; the row knows the iiko id |
| order service (`internal/order`, webhooks in `handlers/iiko`) | none of its own | `Create`, `UpdateStatus`, `Delete`, `HandleIikoDeliveryOrderUpdate/Error` | completed orders are settled; cooking orders are sent; the client is told the status |
| Payme endpoint (`internal/payment/payme`) | `payme_transactions` | Create, Perform, Cancel (Check*, GetStatement read) | one payment per order; money taken is never lost; cancelled is final |
| Click callbacks (`internal/payment/click`, `handlers/payment/click`) | `invoices`, `orders.payment_url` | checkout in `Create`, Prepare, Complete | a link has an invoice; a paid invoice means a paid order; failed payments are not cooked |
| iiko client (`internal/iiko`) | `iiko_tokens`, one row | `CreateOrder`, `GetProduct`, `GetCategory` with the stored token; on 401 one renewal and one retry | iiko acts once per call, and the request is told what came of it |
| websocket hub (`internal/ws`) | client sets, send buffers | register, unregister, broadcast, pumps | nobody blocks the others; a slow client is dropped |
| cart (`cart_repo`) | table `carts`: a row per chat and product | add or take away (upsert, then clean-up), delete, clear, read | counts are positive once handlers are done |
| bot dialogue (`apps/bot`, `pkg/tgrouter`, `pkg/repository/state`) | table `state`: a state and data per chat; the inline keyboards a chat shows | registration, category, product, cart, ordering steps | only clients who gave a phone order; what was put in the cart once is ordered once; a chat waits for its own order |
| delivery zones (`pkg/utils`: `geo_json.go`, `zones.go`) | the polygons of two files | is a place in a zone, and in which (`ContainsAnyWithIndex`) | who is inside is served, who is outside is not, also at the latitude of a corner |
| prices and amounts (`Create`, `enrichOrder`, `buildCreateOrderForIiko`, `internal/payment`) | none: a total is computed from the products' rows whenever it is asked for | price loop with boxes, minimum and fee of a zone, link, expected amount, ticket to iiko | the client, the provider and iiko see the same total; iiko is asked for what was ordered, boxes included |
| catalogue (`category_repo`, `product_repo`, `menu_repo`) | `category`, `product`: columns of iiko and columns of the shop | import in batches (upsert), patch, delete; the pages read | imports keep the shop's columns |
| administration (`role_repo`, `employee_repo`, `users_repo`, `handlers/middleware`) | `roles`, `role_access_scopes`, `employees`, `admins` (accounts) | create, patch and delete of roles and employees; login; the scope check before each handler | a request runs under the scopes of its own role; who is hired can log in |
| clients, files, mail | one row per client | create, read, update | keys |
| shop API and payment use case | | | provided to the container, reached by no route |

Who calls whom: the order service calls Click's checkout and iiko; Payme and
Click handlers write the orders table directly and call `orderflow`, which
calls iiko and the hub; iiko calls back through webhooks; operators call the
order service; the bot calls the order service and the cart. The catalogue's
imports and the order service's submissions go through the iiko client and its
one token. Administrators reach every handler through the middleware, which
reads the tables that other administrators edit; the order service reads the
prices that imports and administrators change.

The hard behaviours are the interleavings of these handlers on one order, calls
of providers that are repeated or overlap, statements whose errors are dropped
(`_ = s.orderRepo...`), a request context that is cancelled when the caller
hangs up in the middle of a handler, iiko's answers that come too late, and a
restart between two statements. `PROJECT.json` lists each hazard at its line.

## 2. Modules

| Module | Models |
|---|---|
| `OrderRepo` | the orders table and its statements; each is one atomic step |
| `OrderFlow` | goroutines (`pc`, `job`), the two shared procedures, iiko (`submitted`), what clients were told (`told`), a crash |
| `OrderService` | operators, deletion and iiko's webhooks |
| `Payme` | Payme's three state-changing methods and `payme_transactions` |
| `Click` | the Click branch of `Create`, Prepare, Complete with the second set of writes of its HTTP handler |
| `Checkout` | the three of them over one table and the same goroutines |
| `Cart` | the statements of `cart_repo`; changing a count is two of them |
| `Bot` | the Telegram bot: routes, registration, catalogue, cart and checkout, for several workers, with the gateway's cart requests |
| `Hub` | the websocket hub: pages with their queues and pumps, broadcasts, the mutex |
| `IikoCall` | the abstract promise of one call to iiko: iiko acts at most once, the request is told the outcome |
| `Requests` | goroutines that serve a request (`pc`) and the mix of requests and faults of a behaviour |
| `IikoToken` | the row of the token, tokens that expire, a call with one renewal and one retry |
| `Catalogue` | imports, edits and deletions of products and categories |
| `Zones` | the ray test over rings, holes, polygons and files; what a zone is meant to be, and the shapes that the shop's files have |
| `Pricing` | what an order costs: the price loop of `Create` and of every later read, the link, the charge, the ticket |
| `Access` | roles, employees, accounts, the middleware's two queries |
| `Gateway` | the four of them over the same requests, with a restart at any point |
| `Fulfilment` | the abstract promise: pay, prepare what may be prepared, record a genuine iiko id |
| `OrderFlowProofs`, `PaymeProofs`, `CheckoutProofs`, `CheckoutCalmProofs`, `BotProofs`, `HubProofs`, `GatewayProofs`, `PricingProofs` | theorems |
| `MCOrderService`, `MCPayme`, `MCClick`, `MCCheckout`, `MCBot`, `MCGateway` | symmetry sets and, in the last, the instance for TLC |

**State.** `table[o]` says whether the row of `o` is there, `orders[o]` is the
row. A handler is a goroutine `p`: `pc[p]` is the statement it executes next
(named after the code), `job[p]` its local variables, `call[p]` and
`outcome[p]` those only Payme and Click handlers have. An action is one
statement or one HTTP call with the guard, the error path and the local
computation around it. `paidOnce` (orders whose payment_status has been PAID)
and `charged` (orders that Click reported as paid) are history; nothing reads
them but properties.

**iiko** is `submitted[o]`, how many orders it has created for `o`; its n-th
order has id n, so that the ids tell which submission a row refers to.

**The bot.** `dialogue[c]` is the row of `state` (name and data), `carts[c]` the
rows of the cart, `known[c]` which of language, name and phone the client has
told, `placed` the orders the bot has created. A worker takes an update only if
there is a route for it (`Receive`): /start, a message in a state with a route,
or a callback of a keyboard that the chat shows. `todo[h]` is what is left of
the handler: "handle" makes the decision with what the handler has read and
leaves a sequence of statements, and each of them is one step, so that handlers
of one chat interleave as they do on the ten workers. `Bot` has orders of its
own, apart from `OrderRepo`: it needs their items, and what happens to them
afterwards is one step, `Pay`. `added` and `broken` are history.

**The hub.** `clients[u]` is the registered connections, `reader[c]` and
`writer[c]` say where the two goroutines of a connection are, `send[c]` is its
channel. A section that holds the mutex waits for nothing and is one step.
`stuck` says that a goroutine panicked inside one.

**The gateway.** `pc[r]` is where request r stands. It passes the middleware
(`read_account`, `read_scopes`), then runs the handler of its route, named by
its operation. A handler that calls iiko hands itself to `IikoToken`
(`CallIiko(r, back)`), which reads the stored token, asks, renews and asks
again, and comes back to `back` with `client[r].answer`. `rows[i]` is the row of
a product or category with iiko's columns (sizes, deleted, ru) and the shop's
(uz, active, box); `edited[i]` remembers how the shop's were last edited.
`bill[r]` holds the locals of one computation of a total, the line it has
reached among them: `Create` and `GetByID` run the same loop, a query a step,
and `stage` says what the total is for. `drifted` remembers orders whose prices
changed or could not be read since. The roles, employees and accounts are the
tables; a transaction is one step. `visit[r]` is what the token and the
middleware say about the sender.

`mix` is chosen once, at the start: the kinds of requests that come and the
faults that occur. Requests of different mixes would multiply the states
without meeting on a row; a mix puts together those that do.

**Operators named `...Forgotten`, `...Unchecked`, `...Unsent` and the like** are
plausible mistakes in the definition that follows them. No behaviour uses them;
each shows that some property would notice the mistake.

**Abstracted from the gateway.** Names are one value or none: an import fills
one language, a patch both; a patch carries one field. `sizes` is a list of prices;
the entry of iiko's nomenclature has no more. Of a category the import reads
`is_deleted` while `CreateCategory` is encoded with `isDeleted`, so the column
stays empty (`Recordset`). Pages only read and are no steps. Tokens are
numbered in the order of issue, and only 401 makes the client renew one; of the
JWT, it is whose account and which role it was signed for. A request that is
refused before it reads anything is no step. Degrees
are integers in `Zones` (the coordinates of the files are finite binary
fractions, so a unit that makes them whole exists), and the division of the ray test is multiplied out; the
features of a file that are no polygons contain nothing and are left out. An order's lines are a function from products to how many; a product
that a request names twice is left out. `send_order` stands for
PUT /order with COOKING, without the status itself, which `OrderService` has.
A charge ends in the order being PAID (`Payme` and `Click` have the statements
between). The foreign key of the cart on the product, whose rows a deletion
takes along, is `Cart`'s and left out.

**Abstracted elsewhere.** Building the iiko request succeeds or fails; addresses, items,
texts, languages and logging are left out. A status that comes in is a member
of the enum (the database rejects others and the handler then returns before it
changed anything); iiko's status is one of the words that
`mapIikoStatusToOurStatus` looks for. The guards of requests that change nothing
(signatures, wrong amounts, unknown ids) are not steps. A Telegram user id of 0
and a hub that is absent are not modelled. A statement that ends in an error is
taken to have changed nothing; one whose commit succeeded while its answer was
lost is covered, up to what the handler does next, by the crash. In `OrderService` and `Click`, `Create`
begins with its INSERT; what comes before it, and the link of a PAYME order, is
in `Pricing`. In the bot, a message id, a category's or product's name, a text
address and the delivery price are left out; the catalogue answers any product
or none; the middleware's read of the client and the router's read of the state
are one step, as no handler uses both. The table `carts` gets no unique index on
(tgid, product_id) from any migration, though the upsert names it in
ON CONFLICT; the model takes it to be there. `ChangeCountDelta` is called by
nothing, and `Patch`, which filters `id` by the chat, is left out. The
handlers that no message reaches (`ConfirmOrderHandler`, `CartMenuHandler`, the
branch of a pickup, the open_cart and cart_clear buttons) are no actions.
`UpdatePaymentStatus` of the order service has a handler but no route.

**Faults.** `Faults` says what may go wrong: `"db"` (any statement errs: the
connection, or the request context), `"iiko"` (refuses, cannot be reached, or
creates the order and its answer is lost), `"crash"` (all goroutines vanish,
rows stay). Refusals of Click's checkout
happen always in `Click`; in `Bot` they are the fault `"provider"`.

## 3. Runs

| Run | Question | Instance |
|---|---|---|
| `checkout_racing` | What holds whatever races and fails: types, nothing unpaid or untaken in the kitchen, links have invoices, every step implements `Fulfilment` | 1 online order, 2 goroutines, 1 transaction, all faults |
| `checkout_live` | What holds on every interleaving when nothing fails: money is never lost, orders that iiko closes are settled, iiko orders are known; paid and cooking orders reach the kitchen (liveness) | 1 order, cash or Click (a Payme transaction may be opened for it too), 2 goroutines, 1 transaction |
| `checkout_sequential` | One handler at a time: at most one submission, one payment per order, cancelled stays cancelled, the client knows the status or was refunded | 1 order of any method and delivery type, 1 goroutine, 3 transactions, every iiko word, every operator status but WAITING_PAYMENT, Click payments that succeed |
| `bot_sequential` | One update at a time, every input in every order: only known clients order; nothing is ordered twice unless something failed | 1 chat, 1 product, 1 worker, all faults |
| `bot_racing` | Two updates of one chat at once and the web page: quantities of orders, waiting for one's own order, no empty rows at rest | 1 chat, 1 product, 2 workers, 1 web request, a registered client |
| `hub` | An open page misses nothing; broadcasts end; closed connections are forgotten (liveness) | 1 user, 2 pages, 1 handler that broadcasts twice, queues of 1, an admin's page |
| `gateway` | Whatever requests race and whatever fails: imports keep edits, minimum, charge, ticket and items agree, the boxes come along, scopes are those of one's own role, hiring is whole, every call with the token machinery is an abstract call | 2 goroutines, 3 requests, 1 dish with its box, 1 category, 1 order, 3 roles and users, 2 tokens, eleven mixes |
| `service_double_submission` | violated: "already sent, skip" under two operators | 1 cash order |
| `payme_resurrected` | violated: "Transaction canceled" under overlapping Perform and Cancel | 1 transaction |
| `click_failed_cooks` | violated: cooking begins when the payment is complete | 1 order, 1 goroutine |
| `bot_cash` | violated: "clear cart and finish" of a cash order | 1 chat, 1 worker |
| `gateway_first_token` | violated: "no token stored yet" is answered by fetching one | 1 import, an empty `iiko_tokens`, no faults |

**Bounds.** Every statement touches one order, and orders meet nowhere except in
the choice of a goroutine, so one order shows the races on it. Two goroutines
give every race of two handlers, which is what each hazard needs; a third only
repeats one of them. `MaxSubmissions` bounds how many orders iiko creates for
one of ours, after which it refuses: 1 in `checkout_racing` and `checkout_live`
(these properties ask whether the kitchen has the order; that a second submission
after a lost answer keeps to `Fulfilment` is what `CheckoutFulfils` proves), 2 where a second one is the question; in
`checkout_sequential` 2 is never reached. In that run no operator sets
WAITING_PAYMENT: an order that was paid and then made to wait again lets a
second transaction be opened, as the code has it. `OperatorStatus`, `ReportedStatus`,
`Methods`, `Deliveries` and `Outcomes` restrict inputs. In `checkout_racing`
operators only choose COOKING, because completing an order counts as paying for
it and `KitchenOnlyIfTaken` would then say nothing. In `checkout_live` payments
that fail are left out: a failure reported after the success takes PAID away
again, and the order never reaches the kitchen (see section 5).

In the bot, chats share nothing, so one shows everything; `MaxOrders`,
`MaxAdded` and `MinCount` bound how many orders are placed, how many of a
product are added and how low a count may be when another is taken away (two
presses that race still take it below). One of a product suffices to order it
twice or to take it away twice. `Inputs` of `bot_racing` are the path through
an online pickup order and the buttons that change the cart; a delivery differs
in its address only. `InitialKnown` is nobody's data in `bot_sequential`, where
registration is the question, and everything in `bot_racing`.

The passing runs of the orders are all of `CheckoutSpec`, so that every property
is asked of the handlers together; the sequential ones have one goroutine. The
violated ones run a component alone, where the counterexample is shortest.

In `hub` a queue of 1 and two events let a page hold one message in hand, one in
the queue or overflow; two pages of one user let one fail while the other is
served. With a second handler or a third event TLC finds the same, but needs
several minutes.

In `gateway` two goroutines race and a third request comes before or after:
"edit, then two imports", "place, pay, send" and "hire, then two others" are the
longest stories the properties need. `BatchSize` 1 makes an import of two
products two transactions, with another request in between. `MaxTokens` 2 lets a
token expire and be renewed, after which iiko gives none. `MaxEdits` 1 gives iiko
a nomenclature of before and after. The carts are two dishes with one
box ordered on its own, and two boxes; with prices of 2 and 3, minima of 6 and 7
and a fee of 1 the second meets the first minimum exactly, and the other minimum
only if the fee were counted. The zones of the instance have what those of the shop have,
two polygons that overlap and slanted edges, and a hole, which the code handles;
four places lie in the overlap, in the second zone, outside at the latitude of
its corner, and in the hole. The third role is there for administrators to create; one user
has no account yet.

**Deadlock** is not an error where it is switched off: a server that nobody
calls rests.

**Fairness.** Weak fairness of the steps of a goroutine inside a handler: the
Go scheduler runs it, the database and iiko answer or time out (20 s in
`CreateOrder`). Nothing is assumed of requests: nobody has to call.
Telling a client (`Push`) goes through the hub, so this fairness is that of a
hub which no admin's page has locked (section 5). In `Hub`: goroutines run, the
mutex is given to who waits for it while it is free, a read of a closed
connection returns, and a write or the next ping on it fails (10 s, 25 s);
nothing is assumed of a page, which may never read or fail at any moment.

## 4. Proofs

TLAPS proves the following for every value of the constants: any number of
orders, transactions, goroutines, chats, pages, products, requests. A theorem
that needs more says so as its ASSUME.

**Payments and the kitchen, whatever races and fails.**

- `CheckoutProofs` (its first section is the order service alone):
  `ServiceTypeCorrect`, `OnlinePaidBeforeKitchen` and `ServiceFulfils` from
  `ServiceInv`; and of the three components at work on the same orders
  `CheckoutTypeCorrect`, `PaidBeforeKitchenAlways`
  (`OnlineSubmittedOnlyIfPaid`), `LinkIsToAnInvoice` (`LinkedHasInvoice`) and
  `CheckoutFulfils` (`ImplementsFulfilment`) from `CheckoutInv`, and
  `KitchenOnlyForMoney` (`KitchenOnlyIfTaken`), for operators that do not
  complete an order by hand, which counts as paying for it.
- `PaymeProofs`: `PaymeTypeCorrect`, `PaidOnlyForOwnTransaction`, `PaymeFulfils`
  from `PaymeInv`.

**The same, while nothing breaks.** `CheckoutCalmProofs`, still for any number of
handlers at once:

- `NothingBeforeItsRow` (`PlacedInv`), which needs no hypothesis;
- `KitchenOrdersAreKnown` (`SubmissionRecorded`), without faults;
- `InvoicePaysItsOrder` (`PaidInvoiceIsPaidOrder`) and `PaymeMoneyIsRemembered`
  (`PerformedIsPaid`), if neither statements fail nor the server crashes (of
  Payme alone it is `TakenMoneyIsRemembered` of `PaymeProofs`);
- `CompletedForItsMoney` (`CompletedIsPaid`), if besides no payment with Click
  fails: a failure reported late takes PAID away again (section 5).

**One handler at a time.** With one goroutine (`OneAtATime`) and any number of
requests in any order: `SentOnceAlone` (`AtMostOneSubmission`, without faults),
`CanceledForGood` (`CanceledStaysCanceled`, whatever fails) and, while the
database and the server do not fail,

- `OnePaymentAlone` (`OnePaymentPerOrder`), if no operator makes an order wait
  for its payment again;
- `ToldUnlessRefunded` (`ToldOrRefunded`), if no attempt with Click fails;
- `RefundCancelsTheOrder` (`RefundedIsCancelled`), if operators and iiko refuse
  orders at most and nobody pays with Click: any other request moves the order
  of a refunded payment on, because no handler looks at the status.

No run checks `RefundedIsCancelled` or `PaidOnlyByTransaction`: the theorems
`RefundCancelsTheOrder` and `PaidOnlyForOwnTransaction` say more than the one
instance would.

That the hypothesis is needed is what the runs `service_double_submission` and
`payme_resurrected` show, where handlers overlap. Iiko may fail in all of them
but the first.

**The bot.** `BotProofs`, for any chats, products, workers and web requests, any
interleaving, failing statements and crashes: `BotTypeCorrect`,
`OrderingClientsAreKnown`, `OrderedQuantitiesPositive`, `WaitingForOwnOrder`, and
`RestingRowsPositive`, which itself excepts what failed; and
`OneWorkerOrdersOnce` (`OrderedOnlyOnce`), which takes that the bot has one
worker (two do place an order twice, section 5) and leaves the chats, the products
and what the web page does to carts meanwhile open.

**The hub.** `HubProofs`: `HubTypeCorrect` and `OpenPageMissesNothing`
(`NothingMissedWhileOpen`), from `HubInv`, whether or not an admin's page locks
the hub.

**The gateway.** `GatewayProofs`, from `GatewayInv`: `RolesReadAreRoles`
(`ServedUnderOwnRole`), `HiredCanLogIn` (`HiredHaveAccounts`), `ImportsKeepEdits`
(`EditsAreKept`), `ClientKeepsPromise` (`ImplementsIikoCall`), and
`RectangleContains`: the ray
test finds exactly the half-open rectangle. Its first two sections hold the
lemmas about the steps of `Access` and `IikoToken`. `PricingProofs`, from
`PricingInv`: `GatewayTypeCorrect`, `MinimumIsMet`, `ToldWhatWasCharged`
(`IikoToldWhatWasCharged`), `TicketAddsUp` (`SumCoversItems`),
`BoxesAreAskedFor` (`BoxesComeAlong`), and `ZonesServe`, about the ray test on any convex polygon.

### The arguments

**Nothing unpaid is cooked.** `OnlineSubmittedOnlyIfPaid` is not inductive: a
goroutine at `"post"` has passed the payment guard and the row may have changed
since. The invariant `FlowInv` of `OrderFlowProofs` adds that a row that is PAID
is in `paidOnce`, that a goroutine at `"post"` works on an order which is cash or
in `paidOnce`, and that each iiko id in a row, or about to be stored by a
goroutine, was issued for that order. Every statement of every component is one
of a few kinds (a quiet statement that touches neither money backwards nor iiko
ids, a submission, a recording), and `QuietStep`, `SubmitStep` and `RecordStep`
show once for each kind that it keeps `FlowInv` and is a `Fulfilment` step. The
components' proofs then say for each action of which kind it is.

`PaymeInv` adds that a goroutine inside a call holds a transaction of the very
order it works on, which exists, and that at `"perform_pay"` the transaction has
been performed: so PAID is only written for a transaction of that order. A
Cancel that overlaps may by then have made the transaction cancelled, which is
why the property counts the cancelled states as performed.

**Three components on one table.** `CheckoutInv` is `ServiceInv`, what Payme and
what Click say of their own goroutines (`PaymeCore`, `ClickCore`). The program
points of the components are disjoint and a turn moves one goroutine, so what
one component says of its goroutines is undisturbed by the others' turns: each
`...Runs` lemma says at which points a component's turn begins and ends, and
`CheckoutElsewhere` that the rest stands still. `KitchenOnlyForMoney` then needs
that every way into PAID leaves a trace: Click's `charged`, or a transaction
that was performed.

**Money is not lost.** `MoneyInv` says that the order of a performed transaction
has been PAID or some goroutine stands at `"perform_pay"` with it: whoever marks
a transaction performed stands there afterwards and leaves only by paying; the
UPDATE finds its row because the order of a transaction is never deleted (the
foreign key). `CashInv` does the same for orders that are COMPLETED: what was
PAID stays PAID, and a webhook that is going to write a status is about an order
that iiko has, which, if it is not cash, was PAID before it was sent. All of them stand on `PlacedInv`:
before the INSERT nothing refers to an order.

**One at a time.** `AsRead` says that the transaction which a goroutine is about
to update is still in the state in which it was read, `OneOpen` that an order
has at most one transaction in a state that is open or paid, and that one about
to be opened finds none. `SentOnce` says that a goroutine at `"post"` works on
an order that was not sent. `RefundInv` adds to `OneOpen` that an order with a
refunded payment is refused, or its handler is about to cancel it, and has no
other payment open or taken: so no other one can be opened for it (its status is
not WAITING_PAYMENT), and a handler about to write COOKING works for another
order. `SaidInv` follows the handlers between the statement that writes a status
and the message: whoever has written one holds the very status of the row until
it is claimed (`WillSay`), last_notified_status is what the client was told
except between the claim and the push, and Complete, which writes COOKING a
second time without telling anybody, has announced COOKING before.

**The bot's steps ahead.** A handler of `Bot` is a sequence of statements still to
run, computed from what it read when it began, while other workers change the
same chat. `BotInv` says of every step ahead of every handler what the step will
need (`HandlersOK`): a step that stores a state needs the client to have told
what that state presupposes, a step that starts to wait for a payment needs the
order placed, by this chat, with a link. What the client has told and what was
placed only grow, and so what a handler relies on stays true however long it is
overtaken. `DialogueKnown` says the same of the stored states. `RowsCleaned`: a
row that counts nothing has a handler with the clean-up ahead.

**Nothing is ordered twice.** `OrderedOnlyOnce` speaks of a bot at rest; `NothingTwice`
says what holds in between: what a chat has ordered was added at some time, and so
was what is in its cart besides, unless the worker has just placed the order and
is about to clear the cart (`Ends`). The rows that the worker read for an order
are no more than what was added and not ordered, whatever the page has done to the
cart since (`HoldsCart`): others' steps order nothing and only add to what was
added. `Ordered` is a sum over the orders placed, so its lemmas come first
(`CountsExist`, `CountsAgree`, `SameOrders`, `OneOrderMore`), by induction on a set
of numbers (`EveryNumber`).

**The hub.** `HubInv` adds to `NothingMissedWhileOpen` what the places of the
goroutines say: writePump holds a message only while it writes (so taking the
next one loses none), a handler that is not sending has nobody left to serve (so
a new broadcast overwrites nothing), and a page that has not registered is due
nothing. `Covered` is the property for one page; `Coming`, the events that
handlers have still to put into its queue, changes only when a handler copies
the connections or serves one.

**The gateway.** `GatewayInv` joins three invariants. `AccessInv` says of a
request in the middleware, or past it, that its token names an account and the
role the account still has: no statement changes the role of an account, and a
role that is somebody's cannot be deleted, so what the first query read is true
at the second. `TokenInv` says that whoever is in the client has no answer yet
and iiko has not acted on the call (which makes the look at the table, the
renewal and the retry stutters of `IikoCall` and iiko's act its `Settle`). The catalogue's part is
`EditsAreKept` itself with the types: an upsert keeps the shop's columns of a
row that is there, and a row that it inserts starts with columns that nobody
edited. Each action of `Gateway` moves one request and leaves the other
components' variables alone; `Kept` collects what such a step preserves and
`NextKept` says so of each.

**Prices.** A total is a query per line and box, at four moments, by different
requests, over rows that others change. `PricingInv` compares all of it with one
reference, the worth of the lines at the rows as they are now (`Worth`): what a
computation has read so far and what it has still to read (`BillsOK`), what an
order stores (`OrdersOK`), what was charged (`ChargedOK`) and each ticket
(`KitchenOK`) are what the rows say now, of every order that has not drifted. A
row that changes makes the orders in question drift, and nothing is claimed of
them any more but what does not depend on the rows: the stored prices meet the
minimum. That the ticket's items, where a product may be a line, the box of
several lines, or both, cost the ticket's sum is `WorthByItem`: a sum over lines
regrouped by what they put into the ticket (`SumByGroup`). `BoxesComeAlong`
depends on no row of the catalogue: the lines and boxes that an order stores never
change (`RowsStay`), and for a line whose product names no box any more, or one
that cannot be read, a ticket falls back to the stored box (`TicketPacks`).

The sums are folds of the community modules. Their values are found by induction
over the size of a set, which the library's theorems state with an operator as a
parameter; `LeastNumber` (the numbers are well-founded) gives `EveryNumber` and
`WholeSet`, which take a set instead: a collection of subsets that has the empty
one and with each those with one element more has the whole.

**Zones.** `MinimumMet` compares the ray test with an independent idea of a zone:
the points on one side of every edge (`Within`). `ConvexServes` proves that
whoever the ray test finds in a convex ring is within it, for any number of
corners, at the latitude of corners too. Around the ring, "north of the point"
changes an even number of times (`ChangesAreEven`), so when an odd number of the
edges that straddle its latitude lie east of it, another one does not
(`EdgeMeets`); the point is between two points of the border, and so, with both,
on the inner side of each edge (`Between`). The other direction is proved for
rectangles (`RectangleFinds`), which a hole needs. `ShapesAssumption` states what
this takes of the files: convex borders, rectangular holes. The shop's
`olmaliq.json` and `ohongoron.json` are 17 rectangles and 8 circles of 64
corners, all convex in exact arithmetic on the stored coordinates, and have no
holes.

### Assumptions, and what is only model-checked

The assumptions are the named ones of the modules: the bounds are subsets of the
enums, `MaxSubmissions`, `MaxTokens` and the batch size are positive, the values
for "none" are not values, the menu is finite, iiko's names are not empty, there
are two zones of the shapes above. Every run evaluates those of its modules.

Only model-checked is all liveness (fairness and ENABLED are outside what TLAPS
proves). Every invariant and every action property of the passing runs is the
statement of a theorem, some under hypotheses that section 4 names with them.

## 5. What the code does not do

Five runs show a statement of the repository that the code does not keep
(`findings` in `PROJECT.json`). Modelling also met the following, for which the
repository states nothing that could be checked, so no run refutes them; the
bounds and the sequential runs above are chosen with them in mind.

- With racing handlers a client's last message need not be the row's status:
  the status and `last_notified_status` are written by separate statements.
- Two racing Payme calls can leave an order with a performed and an open
  transaction (the index only counts state 1), or a refunded order COOKING.
- An error or a crash after `MarkPerformed` loses the payment for the order:
  errors are dropped and the retry is answered from state 2.
- A Click failure reported late takes PAID away from an order that was paid.
- A cancelled order, or one whose payment was refunded, keeps
  payment_status PAID.
- Two presses of a payment button handled by two workers place two orders; and
  a retry after Create failed behind its INSERT leaves one more order row.
- `UpdateState(s, nil)` never succeeds (NULL in `data JSONB NOT NULL`), wherever
  it stands: after an emptied or cleared cart another UpdateState follows and
  hides it, after a cash order and a paid one nothing does.
- The cart is cleared a second time when the bot notices a payment, with
  whatever the client has added since.
- The first page of an admin locks the hub for ever: `NewHub` makes no `admins`
  map, `RegisterAdmin` panics before its `Unlock`, gin recovers. From then on
  every handler that announces a status waits in `BroadcastToUser`, no page
  registers and none is forgotten, against "memory leak bo'lmasin" at
  `internal/ws/client.go:53`. `BroadcastEnds` and
  `ClosedIsForgotten` say "or stuck" and fail without it.
- The first token: `GetTokenIIKO` and `EnsureValidIikoToken` compare the error of
  an empty table with `== sql.ErrNoRows`; pgx returns an error of its own that
  only `errors.Is` takes for it. An empty `iiko_tokens` is therefore never filled
  (the route that fills it is commented out), which `gateway_first_token` shows.
  The age of a token is not looked at: it is used until iiko answers 401.
- An import does not notice a product whose `"order"` alone has changed: the
  column is missing in the condition of DO UPDATE. Of two imports that race, the
  one that asked iiko earlier may write last.
- Deleting a product that is the box of others leaves their `box_id` as it is:
  such a dish is in the menu and cannot be ordered any more. Neither does the
  price query look at is_deleted or is_active.
- That iiko deleted a category never arrives: `CreateCategory` is encoded with
  `isDeleted`, `isIncludedInMenu` and `isGroupModifier`
  (`internal/structs/category.go:29-32`), and the import reads `is_deleted` and so
  on (`category_repo/category.go:61-64`). So the bot's list of categories, which
  leaves out deleted ones, leaves out none. A product's `GroupID` is `group_idd` in
  the JSON, and its column stays empty.
- Payme does not look at an order's method: a transaction can be opened for an
  order that was to be paid in cash or with Click.
- A price that changes after the order was placed makes Payme's CreateTransaction
  refuse the amount of the very link the client was given (-31001); Click
  charges the invoice, and iiko is told the new sum. A link may be below the
  minimum, which was asked of the prices read before the INSERT.
- Everywhere but in `Create` a price whose query fails is left out of the total
  without an error, while the line is still among the items.
- `DeleteEmployee` and `PatchEmployee` touch `employees` only. The account stays,
  can log in, keeps its role for ever, and keeps its name from being hired again.
- `role_repo.Patch` without a field returns after `Begin` without ending its
  transaction (line 345) and keeps a connection of the pool.
- /courier/order needs the scopes of `order`: the middleware looks for that
  word in the path first.
- A chat that chose pickup and then delivery with an address it already had sees
  a delivery price of 0 in the preview; `Create` computes the price anew.

## 6. Plan

Done: the path from payment to kitchen (the core of the system), the bot from
registration to the order, the hub, and the gateway: prices, catalogue,
administration and the iiko client over one set of requests; and the proofs of
section 4. Next:

- `BotOrders`: the bot's orders as the `placed` of `Bot` refined by
  `CreateOrder` of `OrderService` and `PlaceOrder` of `Pricing`.

Not modelled: file handling, mail, cache, configuration and logging (input and
output); the shop API and the payment use case, which no route reaches; the
rounding of floating-point numbers, signatures and passwords;
the connection pool; pages and lists that only read.
