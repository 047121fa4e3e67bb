--------------------------- MODULE MCClaimEngine ---------------------------
(***************************************************************************)
(* ClaimEngine on a small instance: two customers race for the slot, and   *)
(* a third request carries an id that names no customer.                   *)
(***************************************************************************)
EXTENDS ClaimEngine, TLC

CONSTANTS r1, r2, r3, c1, c2, ghost

MCBy == r1 :> c1 @@ r2 :> c2 @@ r3 :> ghost
=============================================================================
