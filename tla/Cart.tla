-------------------------------- MODULE Cart --------------------------------
(***************************************************************************)
(* The carts table: a row per chat and product.  Each operator is one      *)
(* statement of cart_repo; Create is two of them, the upsert and the       *)
(* clean-up, and other statements may run in between.                      *)
(***************************************************************************)
EXTENDS Integers

CONSTANTS
  Chats,      \* Telegram chats; a chat and its user have the same id
  Products

VARIABLE carts   \* carts[c]: the rows of c, a function from products to counts

CartTypeOK ==
  /\ DOMAIN carts = Chats
  /\ \A c \in Chats : /\ DOMAIN carts[c] \subseteq Products
                      /\ \A p \in DOMAIN carts[c] : carts[c][p] \in Int

NoRows == [p \in {} |-> 0]

CartInit == carts = [c \in Chats |-> NoRows]

\* The count of p when there may be no row.
Count(rows, p) == IF p \in DOMAIN rows THEN rows[p] ELSE 0

Without(rows, ps) == [p \in DOMAIN rows \ ps |-> rows[p]]

\* INSERT ... ON CONFLICT (tgid, product_id) DO UPDATE: n may be negative, and
\* then the count may become zero or less.
Upsert(c, p, n) ==
  carts' = [carts EXCEPT ![c] =
              [q \in DOMAIN @ \cup {p} |-> IF q = p THEN Count(@, p) + n
                                                    ELSE @[q]]]

CleanupEmpty(c, p) ==
  carts' = [carts EXCEPT ![c] =
              Without(@, {q \in {p} : Count(@, q) = 0})]

\* DELETE ... WHERE product_id = p AND count <= 0.
Cleanup(c, p) ==
  carts' = [carts EXCEPT ![c] =
              Without(@, {q \in {p} : Count(@, q) <= 0})]

Delete(c, p) == carts' = [carts EXCEPT ![c] = Without(@, {p})]

Clear(c) == carts' = [carts EXCEPT ![c] = NoRows]

=============================================================================
