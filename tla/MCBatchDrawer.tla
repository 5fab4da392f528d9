--------------------------- MODULE MCBatchDrawer ---------------------------
(***************************************************************************)
(* The drawer on a page with two items: i1 in two batches, i2 in one.      *)
(***************************************************************************)
EXTENDS BatchDrawer

CONSTANTS i1, i2, b1, b2, b3, w1, w2

MCItemOf == [b \in Batches |-> IF b = b3 THEN i2 ELSE i1]
MCUsable == [b \in Batches |-> IF b = b2 THEN 2 ELSE 1]
MCRequested == [i \in Items |-> IF i = i1 THEN 2 ELSE 1]

\* The batches of i1: in one warehouse or two; b1 never expires, has expired
\* or expires first; or the item does not expire and b1 is older.
Catalogue(made, expiry, wh, flag) ==
  [row |-> [b \in Batches |->
              CASE b = b1 -> [made |-> made, expiry |-> expiry, wh |-> w1]
                [] b = b2 -> [made |-> 1, expiry |-> IF flag THEN 3 ELSE NoDate,
                              wh |-> wh]
                [] OTHER -> [made |-> 1, expiry |-> NoDate, wh |-> w1]],
   expires |-> [i \in Items |-> i = i1 /\ flag]]
MCCatalogues ==
  {Catalogue(2, NoDate, w1, TRUE), Catalogue(1, 1, w1, TRUE),
   Catalogue(2, 2, w2, TRUE), Catalogue(NoDate, NoDate, w1, FALSE)}
=============================================================================
