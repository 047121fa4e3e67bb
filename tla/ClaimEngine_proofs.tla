------------------------- MODULE ClaimEngine_proofs -------------------------
(***************************************************************************)
(* ClaimEngine: at most one claim wins, whatever happens to the Redis      *)
(* lock, for any number of requests, customers and cancellations.          *)
(***************************************************************************)
EXTENDS ClaimEngine, TLAPS

\* The row's lock is held exactly by the request about to commit, which has
\* seen the row OPEN; the version counts what happened to the row.
RowInv ==
    /\ \A r \in Requests : pc[r] = "commit" <=> rowLock = r
    /\ rowLock # Nobody => status = "OPEN"
    /\ status = "ABSENT" => version = 0
    /\ status \in {"OPEN", "SENDING"} => version = 1
    /\ status = "CLAIMED" => version = 2
    /\ status = "CANCELLED" => version \in {1, 2}

\* A cancellation is only written to a slot that exists.
CancelInv == \A o \in Cancels : cancelPc[o] = "write" => status # "ABSENT"

IInv == TypeOK /\ RowInv /\ CancelInv /\ WinnerOnRecord /\ AtMostOneWinner

USE ClaimAssumption

\* One step of the engine.
LEMMA TypeStep == TypeOK /\ [Next]_vars => TypeOK'
<1> SUFFICES ASSUME TypeOK, [Next]_vars PROVE TypeOK'
  OBVIOUS
<1> USE DEF TypeOK, Statuses, ClaimSteps, Replies, slotRow, claimLocals, cancelLocals,
            Goto, Answer
<1>1. CASE CreateSlot
  BY <1>1 DEF CreateSlot
<1>2. CASE LockExpires
  BY <1>2 DEF LockExpires
<1>3. ASSUME NEW r \in Requests, CheckCustomer(r) PROVE TypeOK'
  BY <1>3 DEF CheckCustomer
<1>4. ASSUME NEW r \in Requests, ClaimStep(r) PROVE TypeOK'
  <2>1. CASE AcquireLock(r)
    BY <2>1 DEF AcquireLock
  <2>2. CASE ProceedUnlocked(r)
    BY <2>2 DEF ProceedUnlocked
  <2>3. CASE UpdateRow(r)
    BY <2>3 DEF UpdateRow
  <2>4. CASE CommitClaim(r)
    BY <2>4 DEF CommitClaim
  <2>5. CASE ReloadSlot(r)
    BY <2>5 DEF ReloadSlot
  <2>6. CASE InspectSlot(r)
    BY <2>6 DEF InspectSlot
  <2>7. CASE ReleaseLock(r)
    BY <2>7 DEF ReleaseLock
  <2> QED
    BY <1>4, <2>1, <2>2, <2>3, <2>4, <2>5, <2>6, <2>7 DEF ClaimStep
<1>5. ASSUME NEW r \in Requests, DatabaseError(r) \/ WorkerDies(r) PROVE TypeOK'
  BY <1>5 DEF DatabaseError, WorkerDies
<1>6. ASSUME NEW o \in Cancels, CancelRead(o) PROVE TypeOK'
  BY <1>6 DEF CancelRead
<1>7. ASSUME NEW o \in Cancels, CancelWrite(o) PROVE TypeOK'
  BY <1>7 DEF CancelWrite
<1>8. CASE MarkSending \/ RevertToOpen
  BY <1>8 DEF MarkSending, RevertToOpen, BroadcastWrites
<1>9. CASE UNCHANGED vars
  BY <1>9 DEF vars
<1> QED
  BY <1>1, <1>2, <1>3, <1>4, <1>5, <1>6, <1>7, <1>8, <1>9 DEF Next

\* Every step keeps the variables in their types.  (claim_slot_atomic and
\* cancel_slot_by_owner as a whole.)
THEOREM TypeCorrect == Spec => []TypeOK
<1>1. Init => TypeOK
  BY DEF Init, TypeOK, Statuses, ClaimSteps, Replies
<1>2. TypeOK /\ [Next]_vars => TypeOK'
  BY TypeStep
<1> QED
  BY <1>1, <1>2, PTL DEF Spec

-----------------------------------------------------------------------------
\* One step of the engine preserves the inductive invariant.
LEMMA InvStep == IInv /\ [Next]_vars => IInv'
<1> SUFFICES ASSUME IInv, [Next]_vars PROVE IInv'
  OBVIOUS
<1>0. TypeOK /\ TypeOK'
  BY TypeStep DEF IInv
<1> USE <1>0 DEF IInv, TypeOK, RowInv, CancelInv, WinnerOnRecord, AtMostOneWinner, Winners,
             slotRow, claimLocals, cancelLocals, Goto, Answer, Statuses
<1>1. CASE CreateSlot
  BY <1>1 DEF CreateSlot
<1>2. CASE LockExpires
  BY <1>2 DEF LockExpires
<1>3. ASSUME NEW r \in Requests, CheckCustomer(r) PROVE IInv'
  BY <1>3 DEF CheckCustomer
<1>4. ASSUME NEW r \in Requests, ClaimStep(r) PROVE IInv'
  <2>1. CASE AcquireLock(r)
    BY <2>1 DEF AcquireLock
  <2>2. CASE ProceedUnlocked(r)
    BY <2>2 DEF ProceedUnlocked
  <2>3. CASE UpdateRow(r)
    BY <2>3 DEF UpdateRow
  <2>4. CASE CommitClaim(r)
    BY <2>4 DEF CommitClaim
  <2>5. CASE ReloadSlot(r)
    BY <2>5 DEF ReloadSlot
  <2>6. CASE InspectSlot(r)
    BY <2>6 DEF InspectSlot
  <2>7. CASE ReleaseLock(r)
    BY <2>7 DEF ReleaseLock
  <2> QED
    BY <1>4, <2>1, <2>2, <2>3, <2>4, <2>5, <2>6, <2>7 DEF ClaimStep
<1>5. ASSUME NEW r \in Requests, DatabaseError(r) \/ WorkerDies(r) PROVE IInv'
  BY <1>5 DEF DatabaseError, WorkerDies
<1>6. ASSUME NEW o \in Cancels, CancelRead(o) PROVE IInv'
  BY <1>6 DEF CancelRead
<1>7. ASSUME NEW o \in Cancels, CancelWrite(o) PROVE IInv'
  BY <1>7 DEF CancelWrite
<1>8. CASE MarkSending \/ RevertToOpen
  BY <1>8 DEF MarkSending, RevertToOpen, BroadcastWrites
<1>9. CASE UNCHANGED vars
  BY <1>9 DEF vars
<1> QED
  BY <1>1, <1>2, <1>3, <1>4, <1>5, <1>6, <1>7, <1>8, <1>9 DEF Next

\* The inductive invariant holds in every reachable state.
LEMMA Invariance == Spec => []IInv
<1>1. Init => IInv
  BY DEF Init, IInv, TypeOK, Statuses, ClaimSteps, Replies, RowInv, CancelInv,
         WinnerOnRecord, AtMostOneWinner, Winners
<1> QED
  BY <1>1, InvStep, PTL DEF Spec

\* At most one claim is ever committed and at most one answered with success.
\* (claim_slot_atomic: "strict zero-overbooking".)
THEOREM ZeroOverbooking == Spec => []AtMostOneWinner
<1>1. IInv => AtMostOneWinner
  BY DEF IInv
<1> QED
  BY <1>1, Invariance, PTL

\* The customer who was told so is the one on the row.  (claim_slot_atomic.)
THEOREM WinnerRecorded == Spec => []WinnerOnRecord
<1>1. IInv => WinnerOnRecord
  BY DEF IInv
<1> QED
  BY <1>1, Invariance, PTL

-----------------------------------------------------------------------------
\* Refinement: the customers told of their booking.
Told == {By[r] : r \in {q \in Requests : pc[q] = "done" /\ reply[q] = "200"}}

\* A step that finishes no request with success tells nobody.
LEMMA ToldUnchanged ==
    ASSUME \A r \in Requests : (pc'[r] = "done" /\ reply'[r] = "200")
                                <=> (pc[r] = "done" /\ reply[r] = "200")
    PROVE  Told' = Told
BY DEF Told

\* A step of the engine is a step of FcfsSlot or changes nothing it shows.
LEMMA RefinementStep == IInv /\ [Next]_vars => [Fcfs!FcfsNext]_(Fcfs!fcfsVars)
<1> SUFFICES ASSUME IInv, [Next]_vars PROVE [Fcfs!FcfsNext]_(Fcfs!fcfsVars)
  OBVIOUS
<1> USE DEF IInv, TypeOK, slotRow, claimLocals, cancelLocals, Goto, Answer
<1>a. ASSUME UNCHANGED <<status, claimedBy>>, Told' = Told
      PROVE  UNCHANGED Fcfs!fcfsVars
  BY <1>a DEF Fcfs!fcfsVars, Told
<1>1. CASE CreateSlot
  BY <1>1 DEF CreateSlot, Fcfs!FcfsNext, Fcfs!Publish
<1>2. CASE LockExpires
  BY <1>2, <1>a DEF LockExpires, Told
<1>3. ASSUME NEW r \in Requests, CheckCustomer(r) PROVE UNCHANGED Fcfs!fcfsVars
  <2>1. Told' = Told
    BY <1>3, ToldUnchanged DEF CheckCustomer
  <2> QED
    BY <1>3, <2>1, <1>a DEF CheckCustomer
<1>4. ASSUME NEW r \in Requests, AcquireLock(r) \/ ProceedUnlocked(r) \/ UpdateRow(r)
                                 \/ ReloadSlot(r) \/ InspectSlot(r)
      PROVE UNCHANGED Fcfs!fcfsVars
  <2>1. Told' = Told
    BY <1>4, ToldUnchanged DEF AcquireLock, ProceedUnlocked, UpdateRow, ReloadSlot, InspectSlot
  <2> QED
    BY <1>4, <2>1, <1>a DEF AcquireLock, ProceedUnlocked, UpdateRow, ReloadSlot, InspectSlot
<1>5. ASSUME NEW r \in Requests, CommitClaim(r) PROVE Fcfs!FcfsNext
  <2>1. Told' = Told
    BY <1>5, ToldUnchanged DEF CommitClaim
  <2>2. status = "OPEN" /\ By[r] \in Customers
    BY <1>5, ClaimAssumption DEF CommitClaim, RowInv
  <2>3. Fcfs!Take(By[r])
    BY <1>5, <2>1, <2>2 DEF CommitClaim, Fcfs!Take, Told
  <2> QED
    BY <2>2, <2>3 DEF Fcfs!FcfsNext
<1>6. ASSUME NEW r \in Requests, ReleaseLock(r) PROVE [Fcfs!FcfsNext]_(Fcfs!fcfsVars)
  <2>1. CASE reply[r] = "200"
    <3>1. claimedBy = By[r] /\ By[r] \in Customers
      BY <2>1, ClaimAssumption DEF WinnerOnRecord, Winners
    <3>2. Told' = Told \union {By[r]}
      BY <1>6, <2>1 DEF ReleaseLock, Told
    <3>3. Fcfs!Tell(By[r])
      BY <1>6, <3>1, <3>2 DEF ReleaseLock, Fcfs!Tell, Told
    <3> QED
      BY <3>1, <3>3 DEF Fcfs!FcfsNext
  <2>2. CASE reply[r] # "200"
    <3>1. Told' = Told
      BY <1>6, <2>2, ToldUnchanged DEF ReleaseLock
    <3> QED
      BY <1>6, <3>1, <1>a DEF ReleaseLock
  <2> QED
    BY <2>1, <2>2
<1>7. ASSUME NEW r \in Requests, DatabaseError(r) \/ WorkerDies(r)
      PROVE UNCHANGED Fcfs!fcfsVars
  <2>1. Told' = Told
    BY <1>7, ToldUnchanged DEF DatabaseError, WorkerDies
  <2> QED
    BY <1>7, <2>1, <1>a DEF DatabaseError, WorkerDies
<1>8. ASSUME NEW o \in Cancels, CancelRead(o) PROVE UNCHANGED Fcfs!fcfsVars
  BY <1>8, <1>a DEF CancelRead, Told
<1>9. ASSUME NEW o \in Cancels, CancelWrite(o) PROVE [Fcfs!FcfsNext]_(Fcfs!fcfsVars)
  <2>1. Told' = Told
    BY <1>9 DEF CancelWrite, Told
  <2>2. status \in {"OPEN", "SENDING", "CLAIMED", "CANCELLED"}
    BY <1>9 DEF CancelWrite, CancelInv, Statuses
  <2>3. CASE status = "CANCELLED"
    BY <1>9, <2>1, <2>3, <1>a DEF CancelWrite
  <2>4. CASE status # "CANCELLED"
    BY <1>9, <2>1, <2>2, <2>4 DEF CancelWrite, Fcfs!FcfsNext, Fcfs!Withdraw, Told
  <2> QED
    BY <2>3, <2>4
<1>10. CASE MarkSending \/ RevertToOpen
  <2>1. Told' = Told /\ UNCHANGED claimedBy
    BY <1>10 DEF MarkSending, RevertToOpen, BroadcastWrites, Told
  <2>2. UNCHANGED (IF status = "SENDING" THEN "OPEN" ELSE status)
    BY <1>10 DEF MarkSending, RevertToOpen, BroadcastWrites
  <2> QED
    BY <2>1, <2>2 DEF Fcfs!fcfsVars, Told
<1>11. CASE UNCHANGED vars
  BY <1>11, <1>a DEF vars, Told
<1> QED
  BY <1>1, <1>2, <1>3, <1>4, <1>5, <1>6, <1>7, <1>8, <1>9, <1>10, <1>11
     DEF Next, ClaimStep

\* The engine keeps the promise of FcfsSlot.  (claim_slot_atomic,
\* cancel_slot_by_owner.)
THEOREM Refinement == Spec => ImplementsFcfs
<1>1. Init => Fcfs!FcfsInit
  BY DEF Init, Fcfs!FcfsInit
<1> QED
  BY <1>1, Invariance, RefinementStep, PTL DEF Spec, ImplementsFcfs, Fcfs!FcfsSpec
=============================================================================
