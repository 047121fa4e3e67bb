----------------------------- MODULE ClaimEngine -----------------------------
(***************************************************************************)
(* claim_slot_atomic (slot_service.py): several requests claim one slot    *)
(* under a Redis lock that may time out, expire or fail, and the           *)
(* conditional UPDATE of the slot's row, while the owner may cancel the    *)
(* slot (cancel_slot_by_owner) and broadcasts move it to SENDING and back. *)
(* The row is what PostgreSQL has committed; an UPDATE holds the row's     *)
(* lock until its transaction ends.  A broadcast here writes only over the *)
(* status it has read: writes over a booking or a withdrawal that was      *)
(* committed meanwhile, and what they undo, are SlotLifecycle's subject.   *)
(***************************************************************************)
EXTENDS FiniteSets, Naturals

CONSTANTS
    Requests,       \* claim requests, REST calls and webhook clicks alike
    Cancels,        \* cancel requests of the slot's business
    Customers,      \* customer ids a request may carry
    Registered,     \* the ids that name a row of customers
    By,             \* the customer of each request
    NoCustomer,     \* claimed_by_customer_id is NULL
    Nobody          \* a lock is free

ASSUME ClaimAssumption ==
    /\ Registered \subseteq Customers
    /\ By \in [Requests -> Customers]
    /\ NoCustomer \notin Customers
    /\ Nobody \notin Requests \union Cancels
    /\ Requests \intersect Cancels = {}

VARIABLES
    status,         \* slots.status, or "ABSENT" before create_slot
    claimedBy,      \* slots.claimed_by_customer_id
    version,        \* slots.version
    rowLock,        \* the request whose open transaction updated the row
    redisLock,      \* the request whose token lock:slot:<id> holds
    pc,             \* where each claim request is
    lockAcquired,   \* the local variable of that name
    reply,          \* the claim's status code, or "none" / "dropped"
    cancelPc,       \* where each cancel request is
    cancelReply     \* its status code, or "none"

slotRow == <<status, claimedBy, version>>
claimLocals == <<pc, lockAcquired, reply>>
cancelLocals == <<cancelPc, cancelReply>>
vars == <<slotRow, rowLock, redisLock, claimLocals, cancelLocals>>

Statuses == {"ABSENT", "OPEN", "SENDING", "CLAIMED", "CANCELLED"}
ClaimSteps == {"idle", "lock", "update", "commit", "reload", "check",
               "release", "done", "dead"}
Replies == {"none", "200", "404", "409", "dropped"}

TypeOK ==
    /\ status \in Statuses
    /\ claimedBy \in Customers \union {NoCustomer}
    /\ version \in Nat
    /\ rowLock \in Requests \union {Nobody}
    /\ redisLock \in Requests \union {Nobody}
    /\ pc \in [Requests -> ClaimSteps]
    /\ lockAcquired \in [Requests -> BOOLEAN]
    /\ reply \in [Requests -> Replies]
    /\ cancelPc \in [Cancels -> {"idle", "write", "done"}]
    /\ cancelReply \in [Cancels -> {"none", "200", "400", "404"}]

Init ==
    /\ status = "ABSENT"
    /\ claimedBy = NoCustomer
    /\ version = 0
    /\ rowLock = Nobody
    /\ redisLock = Nobody
    /\ pc = [r \in Requests |-> "idle"]
    /\ lockAcquired = [r \in Requests |-> FALSE]
    /\ reply = [r \in Requests |-> "none"]
    /\ cancelPc = [o \in Cancels |-> "idle"]
    /\ cancelReply = [o \in Cancels |-> "none"]

-----------------------------------------------------------------------------
(* create_slot                                                             *)

CreateSlot ==
    /\ status = "ABSENT"
    /\ status' = "OPEN"
    /\ version' = 1
    /\ UNCHANGED <<claimedBy, rowLock, redisLock, claimLocals, cancelLocals>>

-----------------------------------------------------------------------------
(* A broadcast's writes: prepare_and_queue_broadcast, execute_slot_broadcast *)

\* Read and commit in one step: stale ones are left to SlotLifecycle (see above).
BroadcastWrites(old, new) ==
    /\ status = old
    /\ rowLock = Nobody
    /\ status' = new
    /\ UNCHANGED <<claimedBy, version, rowLock, redisLock, claimLocals, cancelLocals>>

\* The slot is not claimable while its alerts go out, and again after that.
MarkSending == BroadcastWrites("OPEN", "SENDING")
RevertToOpen == BroadcastWrites("SENDING", "OPEN")

-----------------------------------------------------------------------------
(* claim_slot_atomic                                                       *)

Goto(r, step) == pc' = [pc EXCEPT ![r] = step]
Answer(r, code) == reply' = [reply EXCEPT ![r] = code]

\* The customer check, before any lock is taken.
CheckCustomer(r) ==
    /\ pc[r] = "idle"
    /\ \/ /\ By[r] \in Registered
          /\ Goto(r, "lock")
          /\ UNCHANGED reply
       \/ /\ By[r] \notin Registered
          /\ Goto(r, "done")
          /\ Answer(r, "404")
    /\ UNCHANGED <<slotRow, rowLock, redisLock, lockAcquired, cancelLocals>>

\* lock.acquire() returns True.
AcquireLock(r) ==
    /\ pc[r] = "lock"
    /\ redisLock = Nobody
    /\ redisLock' = r
    /\ lockAcquired' = [lockAcquired EXCEPT ![r] = TRUE]
    /\ Goto(r, "update")
    /\ UNCHANGED <<slotRow, rowLock, reply, cancelLocals>>

\* lock.acquire() returns False after blocking_timeout, or Redis raises; a
\* reply lost on the way back leaves the key set.  The claim goes on.
ProceedUnlocked(r) ==
    /\ pc[r] = "lock"
    /\ \/ UNCHANGED redisLock
       \/ redisLock = Nobody /\ redisLock' = r
    /\ lockAcquired' = [lockAcquired EXCEPT ![r] = FALSE]
    /\ Goto(r, "update")
    /\ UNCHANGED <<slotRow, rowLock, reply, cancelLocals>>

\* The lock's TTL of 3 seconds runs out, whatever its holder is doing.
LockExpires ==
    /\ redisLock # Nobody
    /\ redisLock' = Nobody
    /\ UNCHANGED <<slotRow, rowLock, claimLocals, cancelLocals>>

\* Slip: the status is checked without holding the row until the commit.
UpdateRowUnlocked(r) ==
    /\ pc[r] = "update"
    /\ \/ status = "OPEN" /\ Goto(r, "commit")
       \/ status # "OPEN" /\ Goto(r, "check")
    /\ UNCHANGED <<slotRow, rowLock, redisLock, lockAcquired, reply, cancelLocals>>

\* UPDATE ... WHERE id = :slot_id AND status = 'OPEN': it waits for the row's
\* lock, and the WHERE clause is evaluated on the row committed by then.
UpdateRow(r) ==
    /\ pc[r] = "update"
    /\ rowLock = Nobody
    /\ \/ /\ status = "OPEN"
          /\ rowLock' = r
          /\ Goto(r, "commit")
       \/ /\ status # "OPEN"
          /\ Goto(r, "check")
          /\ UNCHANGED rowLock
    /\ UNCHANGED <<slotRow, redisLock, lockAcquired, reply, cancelLocals>>

\* Slip: the request's own id is stored instead of its customer's.
CommitClaimWrongId(r) ==
    /\ pc[r] = "commit"
    /\ status' = "CLAIMED"
    /\ claimedBy' = r
    /\ version' = version + 1
    /\ rowLock' = Nobody
    /\ Goto(r, "reload")
    /\ UNCHANGED <<redisLock, lockAcquired, reply, cancelLocals>>

CommitClaim(r) ==
    /\ pc[r] = "commit"
    /\ status' = "CLAIMED"
    /\ claimedBy' = By[r]
    /\ version' = version + 1
    /\ rowLock' = Nobody
    /\ Goto(r, "reload")
    /\ UNCHANGED <<redisLock, lockAcquired, reply, cancelLocals>>

\* The slot is read back and the success result is built.
ReloadSlot(r) ==
    /\ pc[r] = "reload"
    /\ Answer(r, "200")
    /\ Goto(r, "release")
    /\ UNCHANGED <<slotRow, rowLock, redisLock, lockAcquired, cancelLocals>>

\* Slip: a slot found CLAIMED is taken for this request's own booking.
InspectSlotAsOwn(r) ==
    /\ pc[r] = "check"
    /\ Answer(r, IF status = "CLAIMED" THEN "200" ELSE "409")
    /\ Goto(r, "release")
    /\ UNCHANGED <<slotRow, rowLock, redisLock, lockAcquired, cancelLocals>>

\* No row came back: tell a missing slot from one that is not open.
InspectSlot(r) ==
    /\ pc[r] = "check"
    /\ Answer(r, IF status = "ABSENT" THEN "404" ELSE "409")
    /\ Goto(r, "release")
    /\ UNCHANGED <<slotRow, rowLock, redisLock, lockAcquired, cancelLocals>>

\* finally: the release is conditional on the token, its errors are dropped.
ReleaseLock(r) ==
    /\ pc[r] = "release"
    /\ Goto(r, "done")
    /\ redisLock' = IF lockAcquired[r] /\ redisLock = r THEN Nobody ELSE redisLock
    /\ UNCHANGED <<slotRow, rowLock, lockAcquired, reply, cancelLocals>>

\* A database error in the try block: the transaction rolls back, the finally
\* clause runs and the caller sees an exception instead of a result.
DatabaseError(r) ==
    /\ pc[r] \in {"update", "commit", "reload", "check"}
    /\ rowLock' = IF rowLock = r THEN Nobody ELSE rowLock
    /\ Answer(r, "dropped")
    /\ Goto(r, "release")
    /\ UNCHANGED <<slotRow, redisLock, lockAcquired, cancelLocals>>

\* Slip: the transaction of a dead worker stays open.
WorkerDiesInTransaction(r) ==
    /\ pc[r] \notin {"idle", "done", "dead"}
    /\ Answer(r, "dropped")
    /\ Goto(r, "dead")
    /\ UNCHANGED <<slotRow, rowLock, redisLock, lockAcquired, cancelLocals>>

\* The worker dies: PostgreSQL rolls the transaction back, the Redis lock
\* stays until it expires, and an answer not yet returned is lost.
WorkerDies(r) ==
    /\ pc[r] \notin {"idle", "done", "dead"}
    /\ rowLock' = IF rowLock = r THEN Nobody ELSE rowLock
    /\ Answer(r, "dropped")
    /\ Goto(r, "dead")
    /\ UNCHANGED <<slotRow, redisLock, lockAcquired, cancelLocals>>

ClaimStep(r) ==
    \/ AcquireLock(r) \/ ProceedUnlocked(r)
    \/ UpdateRow(r) \/ CommitClaim(r)
    \/ ReloadSlot(r) \/ InspectSlot(r) \/ ReleaseLock(r)

-----------------------------------------------------------------------------
(* cancel_slot_by_owner                                                    *)

\* The slot is read and checked: only CLAIMED is refused, so a slot may be withdrawn
\* in the middle of its broadcast.  A slot that is CANCELLED already stays so: the
\* session sees no change and writes nothing.
CancelRead(o) ==
    /\ cancelPc[o] = "idle"
    /\ \/ /\ status \in {"OPEN", "SENDING"}
          /\ cancelPc' = [cancelPc EXCEPT ![o] = "write"]
          /\ UNCHANGED cancelReply
       \/ /\ status \notin {"OPEN", "SENDING"}
          /\ cancelPc' = [cancelPc EXCEPT ![o] = "done"]
          /\ cancelReply' = [cancelReply EXCEPT ![o] =
                                IF status = "ABSENT" THEN "404"
                                ELSE IF status = "CLAIMED" THEN "400" ELSE "200"]
    /\ UNCHANGED <<slotRow, rowLock, redisLock, claimLocals>>

\* Slip: the cancellation also clears the booking.
CancelWriteClears(o) ==
    /\ cancelPc[o] = "write"
    /\ rowLock = Nobody
    /\ status' = "CANCELLED"
    /\ claimedBy' = NoCustomer
    /\ cancelPc' = [cancelPc EXCEPT ![o] = "done"]
    /\ cancelReply' = [cancelReply EXCEPT ![o] = "200"]
    /\ UNCHANGED <<version, rowLock, redisLock, claimLocals>>

\* Then it is overwritten, whatever it is by now: UPDATE ... WHERE id.
CancelWrite(o) ==
    /\ cancelPc[o] = "write"
    /\ rowLock = Nobody
    /\ status' = "CANCELLED"
    /\ cancelPc' = [cancelPc EXCEPT ![o] = "done"]
    /\ cancelReply' = [cancelReply EXCEPT ![o] = "200"]
    /\ UNCHANGED <<claimedBy, version, rowLock, redisLock, claimLocals>>

-----------------------------------------------------------------------------
Next ==
    \/ CreateSlot \/ MarkSending \/ RevertToOpen
    \/ LockExpires
    \/ \E r \in Requests :
          CheckCustomer(r) \/ ClaimStep(r) \/ DatabaseError(r) \/ WorkerDies(r)
    \/ \E o \in Cancels : CancelRead(o) \/ CancelWrite(o)

Spec == Init /\ [][Next]_vars

\* A started request keeps running (or its worker dies), Redis keeps time and
\* a started cancel is carried out.  Nothing makes a request arrive or a broadcast
\* begin or end.
Fairness ==
    /\ \A r \in Requests : WF_vars(ClaimStep(r))
    /\ \A o \in Cancels : WF_vars(CancelWrite(o))
    /\ WF_vars(LockExpires)

FairSpec == Spec /\ Fairness

-----------------------------------------------------------------------------
(* Properties                                                              *)

\* The requests that hold a committed claim, or have been told so.
Winners == {r \in Requests : pc[r] = "reload" \/ reply[r] = "200"}

\* Zero overbooking: whatever happens to the Redis lock and to the workers, at
\* most one claim is ever committed and at most one is answered with success.
\* (claim_slot_atomic, steps 2 and 3.)
AtMostOneWinner ==
    /\ version <= 2
    /\ \A r, s \in Winners : r = s

\* The winner's id is on the row and stays there, even when a cancellation
\* that crossed the claim has changed the status since.
WinnerOnRecord ==
    \A r \in Winners :
        claimedBy = By[r] /\ version = 2 /\ status \in {"CLAIMED", "CANCELLED"}

\* Every claim that starts comes to an end: no request waits forever for the
\* Redis lock, for the row's lock, or for another request.
EveryClaimEnds ==
    \A r \in Requests : pc[r] = "lock" ~> pc[r] \in {"done", "dead"}

\* The engine implements the promise of FcfsSlot.
Fcfs == INSTANCE FcfsSlot WITH
    phase  <- IF status = "SENDING" THEN "OPEN" ELSE status,
    holder <- claimedBy,
    told   <- {By[r] : r \in {q \in Requests : pc[q] = "done" /\ reply[q] = "200"}}

ImplementsFcfs == Fcfs!FcfsSpec
=============================================================================
