----------------------------- MODULE MCGateway -----------------------------
(***************************************************************************)
(* Gateway for TLC: one dish and one box, which is also sold alone; what   *)
(* is ordered meets the minimum of a zone exactly, misses it by one or     *)
(* exceeds it; mixes of requests that meet on some rows.                   *)
(***************************************************************************)
EXTENDS Gateway, TLC

CONSTANTS dish, tray, sushi, chef, cook, guest, kitchenRole, adminRole,
          newRole, overlap, tip, beside, hole

\* Prices of one size each.
MCOffers == {<<2>>, <<3>>}

MCFirstListing ==
  [i \in {dish, tray, sushi} |->
     [sizes |-> CASE i = dish -> <<2>> [] i = tray -> <<3>> [] OTHER -> <<>>,
      deleted |-> FALSE, ru |-> "a"]]

\* Worth 13, at 2 a dish and 3 a box, and 6.
MCCarts == {dish :> 2 @@ tray :> 1, dish :> 0 @@ tray :> 2}

\* Two rectangles that overlap and a square with a hole; a triangle.
MCFiles ==
  << << <<Rectangle(2, 2, 6, 6)>>, <<Rectangle(4, 3, 8, 5)>>,
        <<Rectangle(0, 8, 4, 12), Rectangle(1, 9, 3, 11)>> >>,
     << << << <<12, 4>>, <<16, 2>>, <<16, 6>>, <<12, 4>> >> >> >> >>

\* In two polygons of the first zone; in the second; beside it, at the latitude
\* of its tip; in the hole.
MCCoordinates ==
  overlap :> <<5, 4>> @@ tip :> <<14, 4>> @@ beside :> <<10, 4>> @@ hole :> <<2, 10>>

MCStaff == chef :> adminRole @@ cook :> kitchenRole @@ guest :> NoRole

MCScopeSets == {{}, Scope}

MCMixes ==
  {{"sync_product", "iiko", "db", "crash", "expire"},
   {"sync_product", "no_token", "iiko", "db"},
   {"sync_product", "patch_item", "edit"},
   {"sync_product", "patch_item", "delete_item", "db"},
   {"sync_category", "edit"},
   {"sync_product", "sync_category", "patch_item", "no_rows"},
   {"create_order", "pay_order", "send_order", "iiko"},
   {"create_order", "send_order", "db"},
   {"create_order", "pay_order", "send_order", "delete_item"},
   {"create_order", "send_order", "patch_item"},
   {"create_role", "patch_role", "delete_role", "create_employee",
    "patch_employee", "delete_employee", "patch_item", "db"}}

\* Nothing fails, and nobody has put a token there.
MCNoToken == {{"sync_product", "no_token"}}

Symmetry == Permutations(Req)
=============================================================================
