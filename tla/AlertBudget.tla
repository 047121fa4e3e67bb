----------------------------- MODULE AlertBudget -----------------------------
(***************************************************************************)
(* How many alerts one customer gets (spam_guard.py).  Broadcasts of       *)
(* different slots count the customer's rows of broadcast_logs before they *)
(* choose the customer; the rows are written by their executors, by the    *)
(* alert to the owner after a claim (notification_service.py), and changed *)
(* by delivery receipts (webhook_tasks.py).  Budgets of different customers*)
(* do not interact, so there is one customer.                              *)
(*                                                                         *)
(* A broadcast here is the first one of its slot that chooses the customer:*)
(* one that skips them changes nothing, and the executors of a later one   *)
(* find the row.  What the slot's own status does is in SlotLifecycle.     *)
(***************************************************************************)
EXTENDS FiniteSets, Integers

CONSTANTS
    Broadcasts,     \* broadcasts, each of a slot of its own
    Limit,          \* MAX_ALERTS_PER_24H
    Day,            \* 24 hours, in clock ticks
    MaxTime         \* bound: the clock stops here

ASSUME BudgetAssumption ==
    /\ IsFiniteSet(Broadcasts)
    /\ Limit \in Nat \ {0}
    /\ Day \in Nat
    /\ MaxTime \in Nat

Copies == {"background", "queue"}
Executors == Broadcasts \X Copies
Rows == Broadcasts \X (Copies \union {"owner"})

VARIABLES
    now,            \* the clock
    exec,           \* where each execute_slot_broadcast is
    status,         \* delivery_status of the committed rows; "none": no row
    sentAt,         \* broadcast_logs.sent_at, also of rows not committed yet
    wamid,          \* the committed rows a receipt can find
    reached,        \* the rows whose alert reached the customer
    causes          \* what has happened that the count cannot see

vars == <<now, exec, status, sentAt, wamid, reached, causes>>

\* "accepted" and "raised": what the provider did, before the row is committed.
ExecSteps == {"none", "scheduled", "sending", "accepted", "raised", "done"}

\* DELIVERED stands for READ too: the count tells only SENT apart.
Statuses == {"none", "SENT", "DELIVERED", "FAILED"}
Causes == {"overlap", "twice", "failedSend", "lostLog", "receipt"}

\* Each row has the shape of broadcast_logs, and only committed rows have ids.
TypeOK ==
    /\ now \in 0..MaxTime
    /\ exec \in [Executors -> ExecSteps]
    /\ status \in [Rows -> Statuses]
    /\ sentAt \in [Rows -> 0..MaxTime]
    /\ wamid \subseteq {l \in Rows : status[l] # "none"}
    /\ reached \subseteq Executors
    /\ causes \subseteq Causes

Init ==
    /\ now = 0
    /\ exec = [e \in Executors |-> "none"]
    /\ status = [l \in Rows |-> "none"]
    /\ sentAt = [l \in Rows |-> 0]
    /\ wamid = {}
    /\ reached = {}
    /\ causes = {}

Note(cause, happened) ==
    causes' = causes \union {c \in {cause} : happened}

-----------------------------------------------------------------------------
(* can_send_notification, filter_spam_candidates                           *)

\* Slip: an alert exactly a day old is out of the window.
RecentStrict(l) == sentAt[l] > now - Day

Recent(l) == sentAt[l] >= now - Day

\* The rows the count sees.
Counted == {l \in Rows : status[l] = "SENT" /\ Recent(l)}

HasRow(b) == \E l \in Rows : l[1] = b /\ status[l] # "none"

Busy(e) == exec[e] \in {"sending", "accepted", "raised"}

\* A broadcast that has chosen the customer and may still alert them.
Live(b) == \E e \in Executors :
              e[1] = b /\ (Busy(e) \/ (exec[e] = "scheduled" /\ ~HasRow(b)))

\* The customer is within the limit: both executors get the choice.
Choose(b) ==
    /\ \A e \in Executors : e[1] = b => exec[e] = "none"
    /\ Cardinality(Counted) < Limit
    /\ exec' = [e \in Executors |-> IF e[1] = b THEN "scheduled" ELSE exec[e]]
    /\ Note("overlap", \E d \in Broadcasts : Live(d))
    /\ UNCHANGED <<now, status, sentAt, wamid, reached>>

-----------------------------------------------------------------------------
(* execute_slot_broadcast, for this customer                               *)

\* The idempotency check: any committed row of the slot, whatever its status.
SkipIfLogged(e) ==
    /\ exec[e] = "scheduled"
    /\ \/ /\ HasRow(e[1])
          /\ exec' = [exec EXCEPT ![e] = "done"]
          /\ UNCHANGED causes
       \/ /\ ~HasRow(e[1])
          /\ exec' = [exec EXCEPT ![e] = "sending"]
          /\ Note("twice", \E d \in Executors : d[1] = e[1] /\ Busy(d))
    /\ UNCHANGED <<now, status, sentAt, wamid, reached>>

\* Slip: the id is recorded for a row that is not committed yet.
SendRecordsId(e) ==
    /\ exec[e] = "sending"
    /\ sentAt' = [sentAt EXCEPT ![e] = now]
    /\ reached' = reached \union {e}
    /\ exec' = [exec EXCEPT ![e] = "accepted"]
    /\ wamid' = wamid \union {e}
    /\ UNCHANGED <<now, status, causes>>

\* The provider accepts the alert, or raises; in either case it may reach the
\* customer or not (a read timeout can hide an accepted message).
Send(e) ==
    /\ exec[e] = "sending"
    /\ sentAt' = [sentAt EXCEPT ![e] = now]
    /\ reached' \in {reached, reached \union {e}}
    /\ \/ /\ exec' = [exec EXCEPT ![e] = "accepted"]
          /\ UNCHANGED causes
       \/ /\ exec' = [exec EXCEPT ![e] = "raised"]
          /\ Note("failedSend", e \in reached')
    /\ UNCHANGED <<now, status, wamid>>

Commit(e) ==
    /\ \/ /\ exec[e] = "accepted"
          /\ status' = [status EXCEPT ![e] = "SENT"]
          /\ wamid' = wamid \union {e}
       \/ /\ exec[e] = "raised"
          /\ status' = [status EXCEPT ![e] = "FAILED"]
          /\ UNCHANGED wamid
    /\ exec' = [exec EXCEPT ![e] = "done"]
    /\ UNCHANGED <<now, sentAt, reached, causes>>

\* The executor is lost with its session.
Lose(e) ==
    /\ exec[e] = "scheduled" \/ Busy(e)
    /\ exec' = [exec EXCEPT ![e] = "done"]
    /\ Note("lostLog", e \in reached)
    /\ UNCHANGED <<now, status, sentAt, wamid, reached>>

-----------------------------------------------------------------------------
(* notify_business_owner_on_claim and the delivery receipts                *)

\* The customer books the slot; the alert to the owner is logged under the
\* customer's id.
NotifyOwner(l) ==
    /\ l \notin Executors
    /\ status[l] = "none"
    /\ status' = [status EXCEPT ![l] = "SENT"]
    /\ sentAt' = [sentAt EXCEPT ![l] = now]
    /\ wamid' = wamid \union {l}
    /\ UNCHANGED <<now, exec, reached, causes>>

\* What the network can report of a row.
Reports(l) ==
    IF l \in reached THEN {"SENT", "DELIVERED"}
    ELSE IF l \in Executors THEN {"SENT", "FAILED"}
    ELSE {"SENT", "DELIVERED", "FAILED"}

\* A receipt overwrites the status, in any order; one that comes before the
\* commit of its row changes nothing.
Receipt(l, report) ==
    /\ l \in wamid
    /\ report \in Reports(l)
    /\ status' = [status EXCEPT ![l] = report]
    /\ Note("receipt", l \in reached /\ report # "SENT")
    /\ UNCHANGED <<now, exec, sentAt, wamid, reached>>

Tick ==
    /\ now < MaxTime
    /\ now' = now + 1
    /\ UNCHANGED <<exec, status, sentAt, wamid, reached, causes>>

-----------------------------------------------------------------------------
Next ==
    \/ \E b \in Broadcasts : Choose(b)
    \/ \E e \in Executors : SkipIfLogged(e) \/ Send(e) \/ Commit(e) \/ Lose(e)
    \/ \E l \in Rows : NotifyOwner(l)
    \/ \E l \in Rows, report \in Statuses : Receipt(l, report)
    \/ Tick

Spec == Init /\ [][Next]_vars

-----------------------------------------------------------------------------
(* Properties                                                              *)

\* The alerts that reached the customer in the 24 hours that end at time t.
Window(t) == {k \in reached : t - Day <= sentAt[k] /\ sentAt[k] <= t}

\* No 24 hours that end with an alert hold more than Limit of them.
WithinLimit == \A l \in reached : Cardinality(Window(sentAt[l])) <= Limit

\* The limit is exceeded only after something the count cannot see: broadcasts
\* that overlap, an alert sent by both executors, a failed send that arrived, a
\* lost log, or a receipt.  The delay between the count and the send, the owner
\* alerts, receipts of other rows, executors that are lost before they send and
\* the ends of the window do no harm.  (can_send_notification.)
BreachHasCause == causes = {} => WithinLimit

\* README.md, "Spam guard guarantees no customer receives more than 2
\* cancellation alerts within 24 hours": even where broadcasts follow one
\* another and nothing fails or is lost.
LimitSurvivesReceipts == causes \subseteq {"receipt"} => WithinLimit
=============================================================================
