----------------------------- MODULE Catalogue -----------------------------
(***************************************************************************)
(* The tables category and product: imports from iiko's nomenclature, and  *)
(* the edits of administrators.  A row has columns of iiko (sizes,         *)
(* deleted, ru) and columns of the shop (uz, active, box).                 *)
(***************************************************************************)
EXTENDS IikoToken, Sequences, FiniteSets, FiniteSetsExt, Functions

CONSTANTS
  Product, Category,
  FirstBox,      \* the box that the other products have at first
  Offers,        \* bound: the price lists that iiko gives its products
  FirstListing,  \* the nomenclature at first
  Names,         \* bound: the names that iiko and the administrators use
  BatchSize,     \* how many rows one transaction of an import writes
  Absent, NoBox

ASSUME FirstBoxAssumption == FirstBox \in Product
ASSUME OffersAssumption == Offers \subseteq Seq(Nat)
ASSUME BatchSizeAssumption == BatchSize \in Nat \ {0}
ASSUME IdsAssumption == NoBox \notin Product /\ Product \cap Category = {}
ASSUME ProductAssumption == IsFiniteSet(Product)
ASSUME NamesAssumption == NoValue \notin Names

Item == Product \cup Category

\* An entry of the nomenclature.  Categories have no prices.
Entry == [sizes : Offers \cup {<<>>}, deleted : BOOLEAN, ru : Names]

\* box is what the administrators chose as the packaging of a product: any id,
\* of a row that is there or not.
Row == [sizes   : Offers \cup {<<>>},
        deleted : BOOLEAN,
        ru      : Names,
        uz      : Names \cup {NoValue},
        active  : BOOLEAN,
        box     : Product \cup {NoBox}]

ASSUME AbsentAssumption == Absent \notin Row
ASSUME FirstListingAssumption == FirstListing \in [Item -> Entry]

VARIABLES
  nomenclature,  \* iiko's entry of each item that it lists
  rows,          \* rows[i]: the row of i, or Absent
  edited,        \* history: the shop's columns as they were last edited
  fetched        \* fetched[r]: what r's import has still to write

catalogueVars == <<nomenclature, rows, edited, fetched>>

CataloguePC == {"sync_product", "sync_category", "import", "patch_item",
                "delete_item"}

There(i) == rows[i] # Absent

Columns(row) == [uz |-> row.uz, active |-> row.active, box |-> row.box]

\* The shop's columns of a row that an import inserts.
Unedited == [uz |-> NoValue, active |-> FALSE, box |-> NoBox]

\* Nothing has been imported, or everything has, and is on sale.
OnSale(i, b) ==
  [sizes |-> nomenclature[i].sizes, deleted |-> FALSE, ru |-> nomenclature[i].ru,
   uz |-> NoValue, active |-> TRUE, box |-> b]

CatalogueInit ==
  /\ nomenclature = FirstListing
  /\ IF "no_rows" \in mix
       THEN rows = [i \in Item |-> Absent]
       ELSE rows = [i \in Item |->
              OnSale(i, IF i \in Product \ {FirstBox} THEN FirstBox ELSE NoBox)]
  /\ edited = [i \in Item |-> IF There(i) THEN Columns(rows[i]) ELSE Unedited]
  /\ fetched = [r \in Req |-> <<>>]

\* Somebody edits the nomenclature in iiko's own pages.
IikoEdits(i) ==
  /\ "edit" \in mix
  /\ \/ \E e \in Entry :
          /\ i \in Category <=> e.sizes = <<>>
          /\ nomenclature' = Put(nomenclature, i, e)
     \/ nomenclature' = Restrict(nomenclature, DOMAIN nomenclature \ {i})
  /\ UNCHANGED <<rows, edited, fetched>>

----------------------------------------------------------------------------
(* Imports                                                                 *)

\* What iiko's answer to GetProduct, or GetCategory, lists.
Listing(op) ==
  Restrict(nomenclature,
           DOMAIN nomenclature \cap
             IF op = "sync_product" THEN Product ELSE Category)

\* SyncProduct and SyncCategory, up to the call.
Sync(r) ==
  /\ At(r, "sync_product") \/ At(r, "sync_category")
  /\ CallIiko(r, "import")
  /\ UNCHANGED catalogueVars

Overwrite(row, e) ==
  [sizes |-> e.sizes, deleted |-> e.deleted, ru |-> e.ru, uz |-> NoValue,
   active |-> IF row = Absent THEN FALSE ELSE row.active,
   box |-> IF row = Absent THEN NoBox ELSE row.box]

\* What the INSERT finds in the JSON of an entry.  CreateCategory is encoded
\* with isDeleted, and the query looks for is_deleted, as CreateProduct has it:
\* of a category the column stays empty.
Recordset(i, e) == IF i \in Category THEN [e EXCEPT !.deleted = FALSE] ELSE e

\* INSERT ... ON CONFLICT DO UPDATE: iiko's columns, and of the name only
\* what iiko knows.
Upsert(row, e) ==
  IF row = Absent
    THEN [sizes |-> e.sizes, deleted |-> e.deleted, ru |-> e.ru,
          uz |-> NoValue, active |-> FALSE, box |-> NoBox]
    ELSE [row EXCEPT !.sizes = e.sizes, !.deleted = e.deleted, !.ru = e.ru]

\* The next rows that the import writes: a batch, or what is left.
Batches(todo) ==
  IF Cardinality(todo) <= BatchSize THEN {todo} ELSE kSubset(BatchSize, todo)

\* A batch of Create, in a transaction of its own.  When one fails the
\* batches before it stay written.
Import(r) ==
  /\ At(r, "import")
  /\ client[r].answer = "ok"
  /\ DOMAIN fetched[r] # {}
  /\ \/ \E b \in Batches(DOMAIN fetched[r]) :
          /\ rows' = [i \in Item |->
                        IF i \in b
                          THEN Upsert(rows[i], Recordset(i, fetched[r][i]))
                          ELSE rows[i]]
          /\ edited' = [i \in Item |->
                          IF i \in b /\ ~There(i) THEN Unedited ELSE edited[i]]
          /\ fetched' = [fetched EXCEPT
                           ![r] = Restrict(@, DOMAIN @ \ b)]
     \/ /\ MayFail("db")
        /\ fetched' = [fetched EXCEPT ![r] = <<>>]
        /\ UNCHANGED <<rows, edited>>
  /\ UNCHANGED <<pc, tokenVars, nomenclature>>

\* Nothing is left to write, or the call failed.
ImportEnds(r) ==
  /\ At(r, "import")
  /\ client[r].answer = "error" \/ DOMAIN fetched[r] = {}
  /\ Return(r)
  /\ Goto(r, "idle")
  /\ fetched' = [fetched EXCEPT ![r] = <<>>]
  /\ UNCHANGED <<nomenclature, rows, edited>>

----------------------------------------------------------------------------
(* Administrators                                                          *)

\* UPDATE of the columns that the request carries; no row is an error.
WriteRow(i, row) ==
  /\ There(i)
  /\ rows' = [rows EXCEPT ![i] = row]
  /\ edited' = [edited EXCEPT ![i] = Columns(row)]

\* Patch of a product or a category.
PatchItem(r) ==
  /\ At(r, "patch_item")
  /\ \/ \E i \in Item :
          \/ \E b \in BOOLEAN : WriteRow(i, [rows[i] EXCEPT !.active = b])
          \/ \E n \in Names : WriteRow(i, [rows[i] EXCEPT !.ru = n, !.uz = n])
          \/ \E b \in Product \cup {NoBox} :
               i \in Product /\ WriteRow(i, [rows[i] EXCEPT !.box = b])
     \/ UNCHANGED <<rows, edited>>
  /\ Goto(r, "idle")
  /\ UNCHANGED <<tokenVars, nomenclature, fetched>>

\* Delete of a product or a category.  Products that use it as their box, or
\* belong to it, keep their reference: there is no foreign key.
DeleteItem(r) ==
  /\ At(r, "delete_item")
  /\ \/ \E i \in Item :
          /\ There(i)
          /\ rows' = [rows EXCEPT ![i] = Absent]
          /\ edited' = [edited EXCEPT ![i] = Unedited]
     \/ UNCHANGED <<rows, edited>>
  /\ Goto(r, "idle")
  /\ UNCHANGED <<tokenVars, nomenclature, fetched>>

CatalogueStep(r) ==
  Sync(r) \/ Import(r) \/ ImportEnds(r) \/ PatchItem(r) \/ DeleteItem(r)

----------------------------------------------------------------------------
CatalogueTypeOK ==
  /\ DOMAIN nomenclature \subseteq Item
  /\ \A i \in DOMAIN nomenclature : nomenclature[i] \in Entry
  /\ rows \in [Item -> Row \cup {Absent}]
  /\ edited \in [Item -> [uz : Names \cup {NoValue}, active : BOOLEAN,
                          box : Product \cup {NoBox}]]
  /\ DOMAIN fetched = Req
  /\ \A r \in Req : /\ DOMAIN fetched[r] \subseteq Item
                    /\ \A i \in DOMAIN fetched[r] : fetched[r][i] \in Entry

\* What administrators edited in the shop's columns (the Uzbek name, whether a
\* row is active, the box) stays as they left it, whichever imports run before,
\* after or during the edit, and however far an import got before it failed
\* (the upserts of category_repo and product_repo).  The Russian name is
\* iiko's: the next import overwrites what an administrator made of it.
EditsAreKept == \A i \in Item : There(i) => Columns(rows[i]) = edited[i]
=============================================================================
