--------------------------- MODULE MCAlertBudget ---------------------------
(***************************************************************************)
(* AlertBudget for TLC.  The broadcasts are interchangeable.  States after *)
(* a cause other than a receipt are not extended: causes never go away, and*)
(* both properties are true of every such state.                           *)
(***************************************************************************)
EXTENDS AlertBudget, TLC

BroadcastSymmetry == Permutations(Broadcasts)

Uncaused == causes = {}
OnlyReceipts == causes \subseteq {"receipt"}
=============================================================================
