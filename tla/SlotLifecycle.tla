--------------------------- MODULE SlotLifecycle ---------------------------
(***************************************************************************)
(* The life of one slot between the parts that write its row:              *)
(*   - create_slot and quick_publish_and_broadcast_slot publish it;        *)
(*   - prepare_and_queue_broadcast marks it SENDING and hands the same     *)
(*     broadcast to two executors, an in-process background task and a     *)
(*     job of the Redis queue;                                             *)
(*   - execute_slot_broadcast alerts the recipients and reverts the slot;  *)
(*   - claim_slot_atomic books it, cancel_slot_by_owner withdraws it.      *)
(* A claim is one step here: ClaimEngine shows that its transaction is     *)
(* atomic.  Every other writer reads the row in one step, works, and       *)
(* overwrites it in a later one (UPDATE ... WHERE id).                     *)
(***************************************************************************)
EXTENDS FiniteSets, Naturals, Sequences

CONSTANTS
    Broadcasts,     \* calls of prepare_and_queue_broadcast for the slot
    Customers,      \* every customer who may claim the slot
    Waitlist,       \* those whose preferences match it
    Cancels,        \* cancel requests of the slot's business
    NoCustomer,     \* claimed_by_customer_id is NULL
    QueueWorkers,   \* worker loops on the Redis queue (WEB_CONCURRENCY)
    RedisUp,        \* may the Redis queue be reached at all?
    ByAlertOnly,    \* do customers learn of the slot from its alert only?
    MaxCrashes      \* bound: executions lost to crashes and exceptions

ASSUME LifecycleAssumption ==
    /\ Waitlist \subseteq Customers
    /\ NoCustomer \notin Customers
    /\ QueueWorkers \in Nat
    /\ RedisUp \in BOOLEAN
    /\ ByAlertOnly \in BOOLEAN
    /\ MaxCrashes \in Nat

Executors == Broadcasts \X {"background", "queue"}
Background(b) == <<b, "background">>
Queued(b) == <<b, "queue">>

VARIABLES
    status,         \* slots.status, or "ABSENT" before create_slot
    claimedBy,      \* slots.claimed_by_customer_id
    version,        \* slots.version
    logs,           \* committed broadcast_logs of the slot: rows per customer
    prepPc,         \* where each prepare_and_queue_broadcast is
    recipients,     \* recipient_customer_ids of each broadcast
    jobs,           \* the slot's jobs in slotalert:task_queue
    execPc,         \* where each execute_slot_broadcast is
    seen,           \* the slot.status each executor's session holds, or "none"
    pending,        \* the recipients each executor has still to alert
    unsaved,        \* the recipients whose log its session has not committed
    cancelPc,       \* where each cancel request is
    alerts,         \* WhatsApp alerts delivered to each customer
    won,            \* customers told "Slot successfully booked!"
    overwrites,     \* unconditional writes that replaced the status CLAIMED
    crashes         \* executions lost so far

slotRow == <<status, claimedBy, version>>
prepVars == <<prepPc, recipients, jobs>>
execVars == <<execPc, seen, pending, unsaved>>
history == <<alerts, won, overwrites, crashes>>
vars == <<slotRow, logs, prepVars, execVars, cancelPc, history>>

Statuses == {"ABSENT", "OPEN", "SENDING", "CLAIMED", "CANCELLED"}

TypeOK ==
    /\ status \in Statuses
    /\ claimedBy \in Customers \union {NoCustomer}
    /\ version \in Nat
    /\ logs \in [Customers -> Nat]
    /\ prepPc \in [Broadcasts ->
                    {"idle", "match", "schedule", "enqueue", "done"}]
    /\ recipients \in [Broadcasts -> SUBSET Customers]
    /\ jobs \in Seq(Broadcasts)
    /\ execPc \in [Executors ->
                    {"none", "scheduled", "loaded", "sending", "done"}]
    /\ seen \in [Executors -> Statuses \union {"none"}]
    /\ pending \in [Executors -> SUBSET Customers]
    /\ unsaved \in [Executors -> SUBSET Customers]
    /\ cancelPc \in [Cancels -> {"idle", "write", "cancelled", "refused"}]
    /\ alerts \in [Customers -> Nat]
    /\ won \subseteq Customers
    /\ overwrites \in Nat
    /\ crashes \in Nat

Init ==
    /\ status = "ABSENT"
    /\ claimedBy = NoCustomer
    /\ version = 0
    /\ logs = [c \in Customers |-> 0]
    /\ prepPc = [b \in Broadcasts |-> "idle"]
    /\ recipients = [b \in Broadcasts |-> {}]
    /\ jobs = <<>>
    /\ execPc = [e \in Executors |-> "none"]
    /\ seen = [e \in Executors |-> "none"]
    /\ pending = [e \in Executors |-> {}]
    /\ unsaved = [e \in Executors |-> {}]
    /\ cancelPc = [o \in Cancels |-> "idle"]
    /\ alerts = [c \in Customers |-> 0]
    /\ won = {}
    /\ overwrites = 0
    /\ crashes = 0

\* slot.status = new; commit, by a session that does not look at the row again.
Overwrite(new) ==
    /\ status' = new
    /\ overwrites' = overwrites + (IF status = "CLAIMED" THEN 1 ELSE 0)
    /\ UNCHANGED <<claimedBy, version>>

-----------------------------------------------------------------------------
(* Publishing                                                              *)

CreateRow ==
    /\ status = "ABSENT"
    /\ status' = "OPEN"
    /\ version' = 1
    /\ UNCHANGED <<claimedBy, logs, execVars, cancelPc, history>>

\* POST /slots.
CreateSlot == CreateRow /\ UNCHANGED prepVars

\* Quick-publish: the slot is created, and prepare_and_queue_broadcast goes on
\* in the same session with the status it was created with.
QuickPublish(b) ==
    /\ prepPc[b] = "idle"
    /\ CreateRow
    /\ prepPc' = [prepPc EXCEPT ![b] = "match"]
    /\ UNCHANGED <<recipients, jobs>>

-----------------------------------------------------------------------------
(* prepare_and_queue_broadcast                                             *)

\* The slot is read; 404, 409 and 400 leave everything as it is.
ReadSlot(b) ==
    /\ prepPc[b] = "idle"
    /\ prepPc' = [prepPc EXCEPT ![b] = IF status = "OPEN" THEN "match" ELSE "done"]
    /\ UNCHANGED <<slotRow, logs, recipients, jobs, execVars, cancelPc, history>>

\* Matching and the spam guard leave nobody: the slot stays as it is.
NobodyEligible(b) ==
    /\ prepPc[b] = "match"
    /\ prepPc' = [prepPc EXCEPT ![b] = "done"]
    /\ UNCHANGED <<slotRow, logs, recipients, jobs, execVars, cancelPc, history>>

\* ... or some recipients: the slot becomes SENDING.
MarkSending(b) ==
    /\ prepPc[b] = "match"
    /\ \E eligible \in SUBSET Waitlist \ {{}} :
          recipients' = [recipients EXCEPT ![b] = eligible]
    /\ Overwrite("SENDING")
    /\ prepPc' = [prepPc EXCEPT ![b] = "schedule"]
    /\ UNCHANGED <<logs, jobs, execVars, cancelPc, alerts, won, crashes>>

\* background_tasks.add_task, or create_task on the running loop.
ScheduleBackground(b) ==
    /\ prepPc[b] = "schedule"
    /\ execPc' = [execPc EXCEPT ![Background(b)] = "scheduled"]
    /\ prepPc' = [prepPc EXCEPT ![b] = "enqueue"]
    /\ UNCHANGED <<slotRow, logs, recipients, jobs, seen, pending, unsaved,
                   cancelPc, history>>

\* task_queue.enqueue: the same broadcast again; a Redis error is not fatal.
Enqueue(b) ==
    /\ prepPc[b] = "enqueue"
    /\ \/ RedisUp /\ jobs' = Append(jobs, b)
       \/ UNCHANGED jobs
    /\ prepPc' = [prepPc EXCEPT ![b] = "done"]
    /\ UNCHANGED <<slotRow, logs, recipients, execVars, cancelPc, history>>

-----------------------------------------------------------------------------
(* RedisTaskQueue.process_one_job                                          *)

Running(e) == execPc[e] \in {"loaded", "sending"}

\* BLPOP: the job leaves the queue before it runs.  A worker loop runs one
\* handler at a time.
PopJob ==
    /\ jobs # <<>>
    /\ Cardinality({b \in Broadcasts : \/ Running(Queued(b))
                                       \/ execPc[Queued(b)] = "scheduled"})
         < QueueWorkers
    /\ execPc' = [execPc EXCEPT ![Queued(Head(jobs))] = "scheduled"]
    /\ jobs' = Tail(jobs)
    /\ UNCHANGED <<slotRow, logs, prepPc, recipients, seen, pending, unsaved,
                   cancelPc, history>>

-----------------------------------------------------------------------------
(* execute_slot_broadcast                                                  *)

\* The executor is over: what its session held and did not commit is gone.
CloseSession(e) ==
    /\ execPc' = [execPc EXCEPT ![e] = "done"]
    /\ seen' = [seen EXCEPT ![e] = "none"]
    /\ pending' = [pending EXCEPT ![e] = {}]
    /\ unsaved' = [unsaved EXCEPT ![e] = {}]

\* Slip: an executor that finds the slot not SENDING gives up.
LoadSlotOnlySending(e) ==
    /\ execPc[e] = "scheduled"
    /\ execPc' = [execPc EXCEPT ![e] = IF status = "SENDING" THEN "loaded" ELSE "done"]
    /\ seen' = [seen EXCEPT ![e] = IF status = "SENDING" THEN status ELSE "none"]
    /\ UNCHANGED <<slotRow, logs, prepVars, pending, unsaved, cancelPc, history>>

\* The slot is loaded; the session keeps this status to the end.
LoadSlot(e) ==
    /\ execPc[e] = "scheduled"
    /\ execPc' = [execPc EXCEPT ![e] = "loaded"]
    /\ seen' = [seen EXCEPT ![e] = status]
    /\ UNCHANGED <<slotRow, logs, prepVars, pending, unsaved, cancelPc, history>>

\* Slip: any slot that is not OPEN yet is opened.
RevertUnlessOpen(e) ==
    /\ \/ seen[e] # "OPEN" /\ Overwrite("OPEN")
       \/ seen[e] = "OPEN" /\ UNCHANGED <<slotRow, overwrites>>
    /\ CloseSession(e)

\* if slot.status == SENDING: slot.status = OPEN.  The session ends after it.
RevertSeen(e) ==
    /\ \/ seen[e] = "SENDING" /\ Overwrite("OPEN")
       \/ seen[e] # "SENDING" /\ UNCHANGED <<slotRow, overwrites>>
    /\ CloseSession(e)

ToAlert(e) == {c \in recipients[e[1]] : logs[c] = 0}

\* The idempotency check leaves somebody to alert.
SkipLogged(e) ==
    /\ execPc[e] = "loaded"
    /\ ToAlert(e) # {}
    /\ pending' = [pending EXCEPT ![e] = ToAlert(e)]
    /\ execPc' = [execPc EXCEPT ![e] = "sending"]
    /\ UNCHANGED <<slotRow, logs, prepVars, seen, unsaved, cancelPc, history>>

\* Slip: the early exit forgets to revert the slot.
NothingToSendNoRevert(e) ==
    /\ execPc[e] = "loaded"
    /\ ToAlert(e) = {}
    /\ CloseSession(e)
    /\ UNCHANGED <<slotRow, logs, prepVars, cancelPc, history>>

\* ... or nobody.
NothingToSend(e) ==
    /\ execPc[e] = "loaded"
    /\ ToAlert(e) = {}
    /\ RevertSeen(e)
    /\ UNCHANGED <<logs, prepVars, cancelPc, alerts, won, crashes>>

\* dispatch_one: the alert is sent or fails; a log is added to the session
\* either way.
DispatchOne(e, c) ==
    /\ execPc[e] = "sending"
    /\ c \in pending[e]
    /\ \/ alerts' = [alerts EXCEPT ![c] = @ + 1]
       \/ UNCHANGED alerts
    /\ pending' = [pending EXCEPT ![e] = @ \ {c}]
    /\ unsaved' = [unsaved EXCEPT ![e] = @ \union {c}]
    /\ UNCHANGED <<slotRow, logs, prepVars, execPc, seen, cancelPc,
                   won, overwrites, crashes>>

\* Slip: the session is committed only if the slot is reverted.
FinishCommitsRevertOnly(e) ==
    /\ execPc[e] = "sending"
    /\ pending[e] = {}
    /\ RevertSeen(e)
    /\ logs' = [c \in Customers |-> logs[c] +
                   (IF c \in unsaved[e] /\ seen[e] = "SENDING" THEN 1 ELSE 0)]
    /\ UNCHANGED <<prepVars, cancelPc, alerts, won, crashes>>

\* The end: revert the slot and commit it together with the logs.
Finish(e) ==
    /\ execPc[e] = "sending"
    /\ pending[e] = {}
    /\ RevertSeen(e)
    /\ logs' = [c \in Customers |-> logs[c] + (IF c \in unsaved[e] THEN 1 ELSE 0)]
    /\ UNCHANGED <<prepVars, cancelPc, alerts, won, crashes>>

-----------------------------------------------------------------------------
(* claim_slot_atomic and cancel_slot_by_owner                              *)

\* The row and the answer of a claim that succeeds.
Book(c) ==
    /\ ByAlertOnly => alerts[c] > 0
    /\ status' = "CLAIMED"
    /\ claimedBy' = c
    /\ version' = version + 1
    /\ won' = won \union {c}
    /\ UNCHANGED <<logs, prepVars, execVars, cancelPc, alerts, overwrites, crashes>>

\* Slips: the WHERE clause also lets through a slot another customer has, or
\* one that is still being broadcast.
ClaimTaken(c) == status \in {"OPEN", "CLAIMED"} /\ Book(c)

ClaimWhileSending(c) == status \in {"OPEN", "SENDING"} /\ Book(c)

\* A customer's claim is the row's conditional UPDATE; one that finds the slot
\* not OPEN is refused and changes nothing.
Claim(c) == status = "OPEN" /\ Book(c)

\* A slot that is booked or missing is refused; one that is CANCELLED already is
\* confirmed and not written again, as the session sees no change.
CancelRead(o) ==
    /\ cancelPc[o] = "idle"
    /\ cancelPc' = [cancelPc EXCEPT ![o] =
                       IF status \in {"OPEN", "SENDING"} THEN "write"
                       ELSE IF status = "CANCELLED" THEN "cancelled" ELSE "refused"]
    /\ UNCHANGED <<slotRow, logs, prepVars, execVars, history>>

\* Slip: a status of the enum that nothing else knows.
CancelWriteExpired(o) ==
    /\ cancelPc[o] = "write"
    /\ Overwrite("EXPIRED")
    /\ cancelPc' = [cancelPc EXCEPT ![o] = "cancelled"]
    /\ UNCHANGED <<logs, prepVars, execVars, alerts, won, crashes>>

CancelWrite(o) ==
    /\ cancelPc[o] = "write"
    /\ Overwrite("CANCELLED")
    /\ cancelPc' = [cancelPc EXCEPT ![o] = "cancelled"]
    /\ UNCHANGED <<logs, prepVars, execVars, alerts, won, crashes>>

-----------------------------------------------------------------------------
(* Crashes                                                                 *)

\* A worker dies or is stopped, or a database call raises: the call or the
\* executor is gone, its session is rolled back, a popped job is not retried.
LosePrepare(b) ==
    /\ crashes < MaxCrashes
    /\ prepPc[b] \in {"match", "schedule", "enqueue"}
    /\ prepPc' = [prepPc EXCEPT ![b] = "done"]
    /\ crashes' = crashes + 1
    /\ UNCHANGED <<slotRow, logs, recipients, jobs, execVars, cancelPc,
                   alerts, won, overwrites>>

LoseExecutor(e) ==
    /\ crashes < MaxCrashes
    /\ execPc[e] = "scheduled" \/ Running(e)
    /\ CloseSession(e)
    /\ crashes' = crashes + 1
    /\ UNCHANGED <<slotRow, logs, prepVars, cancelPc, alerts, won, overwrites>>

-----------------------------------------------------------------------------
PrepareStep(b) == NobodyEligible(b) \/ MarkSending(b)
                  \/ ScheduleBackground(b) \/ Enqueue(b)

ExecutorStep(e) == \/ LoadSlot(e) \/ SkipLogged(e) \/ NothingToSend(e)
                   \/ \E c \in Customers : DispatchOne(e, c)
                   \/ Finish(e)

Next ==
    \/ CreateSlot
    \/ \E b \in Broadcasts :
          QuickPublish(b) \/ ReadSlot(b) \/ PrepareStep(b) \/ LosePrepare(b)
    \/ PopJob
    \/ \E e \in Executors : ExecutorStep(e) \/ LoseExecutor(e)
    \/ \E c \in Customers : Claim(c)
    \/ \E o \in Cancels : CancelRead(o) \/ CancelWrite(o)

Spec == Init /\ [][Next]_vars

\* The event loop runs every started call and scheduled task, and the worker
\* loops keep popping.  Nobody has to publish, broadcast, claim or cancel.
Fairness ==
    /\ \A b \in Broadcasts : WF_vars(PrepareStep(b))
    /\ \A e \in Executors : WF_vars(ExecutorStep(e))
    /\ WF_vars(PopJob)

FairSpec == Spec /\ Fairness

-----------------------------------------------------------------------------
(* Properties                                                              *)

\* Somebody will still look at a SENDING slot: a broadcast about to schedule
\* its executor, an executor that has not loaded the slot yet, or one that
\* loaded it as SENDING and will revert it.
Carried ==
    \/ \E b \in Broadcasts : prepPc[b] = "schedule"
    \/ \E e \in Executors : execPc[e] = "scheduled"
    \/ \E e \in Executors : Running(e) /\ seen[e] = "SENDING"

\* A slot never stays SENDING with nobody left to revert it, however many
\* broadcasts, executors, claims and cancellations cross, unless an execution
\* was lost.  (execute_slot_broadcast, step 4, and both early exits.)
NoOrphanSending == status = "SENDING" /\ crashes = 0 => Carried

\* Overbooking comes only from a write that replaced CLAIMED unseen.  As long
\* as none did, one customer at most is told the slot is theirs, and it stays
\* CLAIMED by that customer.  (claim_slot_atomic, step 3.)
OverbookingNeedsOverwrite ==
    /\ Cardinality(won) <= 1 + overwrites
    /\ overwrites = 0 /\ won # {} => status = "CLAIMED" /\ claimedBy \in won

\* Every alert a customer received has a row in broadcast_logs, committed or
\* in the session of the executor that sent it, unless an execution was lost.
\* (execute_slot_broadcast: "Persists dispatch status in broadcast_logs".)
AuditTrail ==
    crashes = 0 => \A c \in Customers :
        alerts[c] <= logs[c] + Cardinality({e \in Executors : c \in unsaved[e]})

\* Activities that have read the row and will write what they then thought of it,
\* whatever it is by now: a preparation under way, an executor that loaded SENDING
\* and a cancellation that was not refused.
StaleWriters ==
    {<<"prepare", b>> : b \in {a \in Broadcasts : prepPc[a] = "match"}}
    \union {<<"execute", e>> : e \in {x \in Executors : Running(x) /\ seen[x] = "SENDING"}}
    \union {<<"cancel", o>> : o \in {q \in Cancels : cancelPc[q] = "write"}}

\* A booking or a withdrawal is undone only by somebody who had read the row before it:
\* while the slot is CLAIMED or CANCELLED, nobody joins the stale writers, and a step
\* that touches the row is the last of one of them.  Executors and jobs that start
\* late, new broadcasts, claims and cancellations leave it alone.
\* (execute_slot_broadcast, prepare_and_queue_broadcast, cancel_slot_by_owner.)
UndoneByEarlierReaders ==
    [][(status \in {"CLAIMED", "CANCELLED"}) =>
          /\ StaleWriters' \subseteq StaleWriters
          /\ StaleWriters' = StaleWriters => UNCHANGED slotRow]_vars

\* A slot that is being broadcast becomes OPEN, or is booked or withdrawn: no
\* slot stays SENDING forever.  (README.md, Scenario B: "Sets slot status to
\* OPEN".)
BroadcastEnds == status = "SENDING" ~> status # "SENDING"

\* A broadcast that marked the slot gets a log row for each of its recipients,
\* whatever happens to the slot meanwhile.
EveryRecipientIsLogged ==
    \A b \in Broadcasts, c \in Waitlist :
        prepPc[b] = "schedule" /\ c \in recipients[b] ~> logs[c] > 0

\* README.md, "Zero overbooking guaranteed": one winner per slot.
ZeroOverbooking == Cardinality(won) <= 1

\* execute_slot_broadcast: "Database idempotency: skips customers who already
\* received an alert for this slot."
OneAlertPerCustomer == \A c \in Customers : alerts[c] <= 1

\* business.py, cancel_business_slot: "Revokes an active appointment slot, preventing
\* any client claims."
NoClaimAfterCancel ==
    [][(\E o \in Cancels : cancelPc[o] = "cancelled") => UNCHANGED <<won, version>>]_vars

\* What the slot promises.  It holds where one executor runs the broadcast of
\* a quick-published slot, customers claim by its alert and nobody cancels.
Fcfs == INSTANCE FcfsSlot WITH
    phase  <- IF status = "SENDING" THEN "OPEN" ELSE status,
    holder <- claimedBy,
    told   <- won

ImplementsFcfs == Fcfs!FcfsSpec
=============================================================================
