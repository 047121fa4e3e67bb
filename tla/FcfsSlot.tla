------------------------------ MODULE FcfsSlot ------------------------------
(***************************************************************************)
(* What one appointment slot promises: it is published once, the first     *)
(* customer to take it holds it, nobody takes it after that, only its      *)
(* holder is told so, and once it is withdrawn nobody takes it either.     *)
(***************************************************************************)
CONSTANTS
    Customers,      \* the customers of the waitlist
    NoCustomer      \* the holder of a slot nobody took

VARIABLES
    phase,          \* "ABSENT", "OPEN", "CLAIMED" or "CANCELLED"
    holder,         \* the customer the slot went to, or NoCustomer
    told            \* the customers who were told they hold it

fcfsVars == <<phase, holder, told>>

FcfsTypeOK ==
    /\ phase \in {"ABSENT", "OPEN", "CLAIMED", "CANCELLED"}
    /\ holder \in Customers \union {NoCustomer}
    /\ told \subseteq Customers

FcfsInit ==
    /\ phase = "ABSENT"
    /\ holder = NoCustomer
    /\ told = {}

\* The owner offers the slot.
Publish ==
    /\ phase = "ABSENT"
    /\ phase' = "OPEN"
    /\ UNCHANGED <<holder, told>>

\* The first customer to ask gets it, and may be told at once.
Take(c) ==
    /\ phase = "OPEN"
    /\ phase' = "CLAIMED"
    /\ holder' = c
    /\ told' \in {told, told \union {c}}

\* Only the holder is ever told "successfully booked".
Tell(c) ==
    /\ holder = c
    /\ told' = told \union {c}
    /\ UNCHANGED <<phase, holder>>

\* The owner takes the slot back.  A holder does not protect the slot: the
\* owner's cancellation may cross a booking (see ClaimEngine!CancelWrite).
Withdraw ==
    /\ phase \in {"OPEN", "CLAIMED"}
    /\ phase' = "CANCELLED"
    /\ UNCHANGED <<holder, told>>

FcfsNext ==
    \/ Publish
    \/ \E c \in Customers : Take(c) \/ Tell(c)
    \/ Withdraw

FcfsSpec == FcfsInit /\ [][FcfsNext]_fcfsVars

\* At most one customer is told the slot is theirs, and it is the holder.
OneHolder == told \subseteq {holder}
=============================================================================
