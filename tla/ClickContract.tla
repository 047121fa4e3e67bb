---------------------------- MODULE ClickContract ----------------------------
(***************************************************************************)
(* What the webhook promises of each inbound message: it is decided once,  *)
(* its sender hears that decision and no other, and the owner hears of a   *)
(* booking only after the winner did.  A message may be decided afresh     *)
(* once the 24-hour memory of it is gone.                                  *)
(***************************************************************************)

CONSTANT Messages

VARIABLES
    verdict,     \* what was decided on each message
    answer,      \* what its sender was told last
    ownerTold    \* messages whose booking the owner was told of

contractVars == <<verdict, answer, ownerTold>>

Verdicts == {"won", "lost", "removed"}

ContractInit ==
    /\ verdict = [m \in Messages |-> "none"]
    /\ answer = [m \in Messages |-> "none"]
    /\ ownerTold = {}

Decide(m) ==
    /\ verdict[m] = "none"
    /\ \E v \in Verdicts : verdict' = [verdict EXCEPT ![m] = v]
    /\ UNCHANGED <<answer, ownerTold>>

TellSender(m) ==
    /\ verdict[m] # "none"
    /\ answer' = [answer EXCEPT ![m] = verdict[m]]
    /\ UNCHANGED <<verdict, ownerTold>>

TellOwner(m) ==
    /\ verdict[m] = "won"
    /\ answer[m] = "won"
    /\ ownerTold' = ownerTold \union {m}
    /\ UNCHANGED <<verdict, answer>>

Forget(m) ==
    /\ verdict' = [verdict EXCEPT ![m] = "none"]
    /\ UNCHANGED <<answer, ownerTold>>

ContractNext ==
    \E m \in Messages : Decide(m) \/ TellSender(m) \/ TellOwner(m) \/ Forget(m)

ContractSpec == ContractInit /\ [][ContractNext]_contractVars
=============================================================================
