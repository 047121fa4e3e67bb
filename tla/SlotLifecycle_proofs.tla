----------------------- MODULE SlotLifecycle_proofs -----------------------
(***************************************************************************)
(* SlotLifecycle, for any number of broadcasts, customers, cancellations   *)
(* and lost executions: no orphaned SENDING slot, no overbooking without a *)
(* write over CLAIMED, no booking or withdrawal undone but by an earlier   *)
(* reader, and every alert is in the logs.  Where one executor runs the    *)
(* only broadcast, nobody is alerted twice, one customer at most wins, and *)
(* the slot implements FcfsSlot.                                           *)
(***************************************************************************)
EXTENDS SlotLifecycle, FiniteSetTheorems, SequenceTheorems, TLAPS

USE LifecycleAssumption

\* An unconditional write leaves the history counter a number.
LEMMA OverwriteType ==
    ASSUME NEW new, Overwrite(new), overwrites \in Nat
    PROVE  overwrites' \in Nat /\ status' = new /\ claimedBy' = claimedBy /\ version' = version
<1>1. CASE status = "CLAIMED"
  BY <1>1 DEF Overwrite
<1>2. CASE status # "CLAIMED"
  BY <1>2 DEF Overwrite
<1> QED
  BY <1>1, <1>2

\* One step keeps the variables in their types.
LEMMA TypeStep == TypeOK /\ [Next]_vars => TypeOK'
<1> SUFFICES ASSUME TypeOK, [Next]_vars PROVE TypeOK'
  OBVIOUS
<1> USE DEF TypeOK, Statuses, slotRow, prepVars, execVars, history, CloseSession
<1>e. \A b \in Broadcasts : Background(b) \in Executors /\ Queued(b) \in Executors
  BY DEF Executors, Background, Queued
<1>1. CASE CreateSlot
  BY <1>1 DEF CreateSlot, CreateRow
<1>2. ASSUME NEW b \in Broadcasts, QuickPublish(b) \/ ReadSlot(b) \/ NobodyEligible(b)
                                   \/ LosePrepare(b)
      PROVE TypeOK'
  <2>1. CASE QuickPublish(b)
    BY <2>1 DEF QuickPublish, CreateRow
  <2>2. CASE ReadSlot(b)
    BY <2>2 DEF ReadSlot
  <2>3. CASE NobodyEligible(b)
    BY <2>3 DEF NobodyEligible
  <2>4. CASE LosePrepare(b)
    BY <2>4 DEF LosePrepare
  <2> QED
    BY <1>2, <2>1, <2>2, <2>3, <2>4
<1>3. ASSUME NEW b \in Broadcasts, MarkSending(b) PROVE TypeOK'
  BY <1>3, OverwriteType DEF MarkSending
<1>4. ASSUME NEW b \in Broadcasts, ScheduleBackground(b) PROVE TypeOK'
  BY <1>4, <1>e DEF ScheduleBackground
<1>5. ASSUME NEW b \in Broadcasts, Enqueue(b) PROVE TypeOK'
  <2>1. jobs' \in Seq(Broadcasts)
    <3>1. Append(jobs, b) \in Seq(Broadcasts)
      BY AppendProperties
    <3> QED
      BY <1>5, <3>1 DEF Enqueue
  <2> QED
    BY <1>5, <2>1 DEF Enqueue
<1>6. CASE PopJob
  <2>1. Head(jobs) \in Broadcasts /\ Tail(jobs) \in Seq(Broadcasts)
    BY <1>6 DEF PopJob
  <2> QED
    BY <1>6, <1>e, <2>1 DEF PopJob
<1>7. ASSUME NEW e \in Executors, LoadSlot(e) PROVE TypeOK'
  BY <1>7 DEF LoadSlot
<1>8. ASSUME NEW e \in Executors, SkipLogged(e) PROVE TypeOK'
  <2>1. ToAlert(e) \in SUBSET Customers
    BY DEF ToAlert, Executors
  <2> QED
    BY <1>8, <2>1 DEF SkipLogged
<1>9. ASSUME NEW e \in Executors, NothingToSend(e) PROVE TypeOK'
  BY <1>9, OverwriteType DEF NothingToSend, RevertSeen
<1>10. ASSUME NEW e \in Executors, NEW c \in Customers, DispatchOne(e, c) PROVE TypeOK'
  BY <1>10 DEF DispatchOne
<1>11. ASSUME NEW e \in Executors, Finish(e) PROVE TypeOK'
  BY <1>11, OverwriteType DEF Finish, RevertSeen
<1>12. ASSUME NEW e \in Executors, LoseExecutor(e) PROVE TypeOK'
  BY <1>12 DEF LoseExecutor
<1>13. ASSUME NEW c \in Customers, Claim(c) PROVE TypeOK'
  BY <1>13 DEF Claim, Book
<1>14. ASSUME NEW o \in Cancels, CancelRead(o) \/ CancelWrite(o) PROVE TypeOK'
  BY <1>14, OverwriteType DEF CancelRead, CancelWrite
<1>15. CASE UNCHANGED vars
  BY <1>15 DEF vars
<1> QED
  BY <1>1, <1>2, <1>3, <1>4, <1>5, <1>6, <1>7, <1>8, <1>9, <1>10, <1>11, <1>12, <1>13,
     <1>14, <1>15 DEF Next, PrepareStep, ExecutorStep

\* Every step keeps the variables in their types.
THEOREM TypeCorrect == Spec => []TypeOK
<1>1. Init => TypeOK
  BY DEF Init, TypeOK, Statuses
<1> QED
  BY <1>1, TypeStep, PTL DEF Spec

-----------------------------------------------------------------------------
(* No orphaned SENDING slot                                                *)

\* A step keeps a SENDING slot carried: whoever marks it SENDING becomes its
\* carrier, a carrier hands it on when it schedules or loads, and one that
\* ends has reverted it.
LEMMA CarriedStep == TypeOK /\ NoOrphanSending /\ [Next]_vars => NoOrphanSending'
<1> SUFFICES ASSUME TypeOK, NoOrphanSending, [Next]_vars,
                    status' = "SENDING", crashes' = 0
             PROVE  Carried'
  BY DEF NoOrphanSending
<1> USE DEF TypeOK, slotRow, prepVars, execVars, history, Running, CloseSession
<1>e. \A b \in Broadcasts : Background(b) \in Executors /\ Queued(b) \in Executors
  BY DEF Executors, Background, Queued
<1>c. ASSUME status = "SENDING", crashes = 0 PROVE Carried
  BY <1>c DEF NoOrphanSending
<1>1. CASE CreateSlot
  BY <1>1 DEF CreateSlot, CreateRow
<1>2. ASSUME NEW b \in Broadcasts, QuickPublish(b) \/ ReadSlot(b) \/ NobodyEligible(b)
      PROVE Carried'
  BY <1>2, <1>c DEF QuickPublish, CreateRow, ReadSlot, NobodyEligible, Carried
<1>3. ASSUME NEW b \in Broadcasts, MarkSending(b) PROVE Carried'
  BY <1>3 DEF MarkSending, Carried
<1>4. ASSUME NEW b \in Broadcasts, ScheduleBackground(b) PROVE Carried'
  BY <1>4, <1>e DEF ScheduleBackground, Carried
<1>5. ASSUME NEW b \in Broadcasts, Enqueue(b) PROVE Carried'
  BY <1>5, <1>c DEF Enqueue, Carried
<1>6. CASE PopJob
  <2>1. Head(jobs) \in Broadcasts
    BY <1>6 DEF PopJob
  <2> QED
    BY <1>6, <1>e, <2>1 DEF PopJob, Carried
<1>7. ASSUME NEW e \in Executors, LoadSlot(e) PROVE Carried'
  BY <1>7 DEF LoadSlot, Carried
<1>8. ASSUME NEW e \in Executors, SkipLogged(e) PROVE Carried'
  BY <1>8, <1>c DEF SkipLogged, Carried
<1>9. ASSUME NEW e \in Executors, NothingToSend(e) \/ Finish(e) PROVE Carried'
  <2>1. seen[e] # "SENDING" /\ status = "SENDING" /\ crashes = 0
    BY <1>9 DEF NothingToSend, Finish, RevertSeen, Overwrite
  <2>2. Running(e)
    BY <1>9 DEF NothingToSend, Finish
  <2> QED
    BY <1>9, <1>c, <2>1, <2>2 DEF NothingToSend, Finish, RevertSeen, Carried
<1>10. ASSUME NEW e \in Executors, NEW c \in Customers, DispatchOne(e, c) PROVE Carried'
  BY <1>10, <1>c DEF DispatchOne, Carried
<1>11. ASSUME NEW c \in Customers, Claim(c) PROVE Carried'
  BY <1>11 DEF Claim, Book
<1>12. ASSUME NEW o \in Cancels, CancelRead(o) \/ CancelWrite(o) PROVE Carried'
  BY <1>12, <1>c DEF CancelRead, CancelWrite, Overwrite, Carried
<1>13. ASSUME NEW b \in Broadcasts, LosePrepare(b) PROVE Carried'
  BY <1>13 DEF LosePrepare
<1>14. ASSUME NEW e \in Executors, LoseExecutor(e) PROVE Carried'
  BY <1>14 DEF LoseExecutor
<1>15. CASE UNCHANGED vars
  BY <1>15, <1>c DEF vars, Carried
<1> QED
  BY <1>1, <1>2, <1>3, <1>4, <1>5, <1>6, <1>7, <1>8, <1>9, <1>10, <1>11, <1>12, <1>13,
     <1>14, <1>15 DEF Next, PrepareStep, ExecutorStep

\* No slot is SENDING with nobody left to revert it.  (prepare_and_queue_broadcast,
\* execute_slot_broadcast.)
THEOREM NoOrphan == Spec => []NoOrphanSending
<1>1. Init => NoOrphanSending
  BY DEF Init, NoOrphanSending
<1> QED
  BY <1>1, CarriedStep, TypeCorrect, PTL DEF Spec

-----------------------------------------------------------------------------
(* No overbooking without a write over CLAIMED                             *)

\* The winners are paid for: the one on the row by its status, every other by
\* a write that replaced CLAIMED.
WinnersInv ==
    /\ IsFiniteSet(won)
    /\ Cardinality(won) <= overwrites + 1
    /\ status # "CLAIMED" => Cardinality(won) <= overwrites
    /\ status = "CLAIMED" => claimedBy \in won

\* A write over the row keeps the winners paid for.
LEMMA OverwriteWinners ==
    ASSUME TypeOK, WinnersInv, NEW new, new # "CLAIMED", Overwrite(new), won' = won
    PROVE  WinnersInv'
<1>0. Cardinality(won) \in Nat /\ overwrites \in Nat
  BY FS_CardinalityType DEF WinnersInv, TypeOK
<1>1. CASE status = "CLAIMED"
  BY <1>0, <1>1 DEF WinnersInv, Overwrite
<1>2. CASE status # "CLAIMED"
  BY <1>0, <1>2 DEF WinnersInv, Overwrite
<1> QED
  BY <1>1, <1>2

LEMMA WinnersStep == TypeOK /\ WinnersInv /\ [Next]_vars => WinnersInv'
<1> SUFFICES ASSUME TypeOK, WinnersInv, [Next]_vars PROVE WinnersInv'
  OBVIOUS
<1>0. Cardinality(won) \in Nat /\ overwrites \in Nat
  BY FS_CardinalityType DEF WinnersInv, TypeOK
<1>u. ASSUME UNCHANGED <<status, claimedBy, won, overwrites>> PROVE WinnersInv'
  BY <1>u DEF WinnersInv
<1>1. ASSUME CreateRow PROVE WinnersInv'
  BY <1>0, <1>1 DEF CreateRow, WinnersInv, history
<1>2. ASSUME NEW c \in Customers, Claim(c) PROVE WinnersInv'
  <2>1. IsFiniteSet(won')
    BY <1>2, FS_AddElement DEF Claim, Book, WinnersInv
  <2>2. Cardinality(won') <= Cardinality(won) + 1
    <3>1. CASE c \in won
      <4>1. won' = won
        BY <1>2, <3>1 DEF Claim, Book
      <4> QED
        BY <4>1, <1>0
    <3>2. CASE c \notin won
      <4>1. Cardinality(won \union {c}) = Cardinality(won) + 1
        BY <3>2, FS_AddElement DEF WinnersInv
      <4> QED
        BY <1>2, <4>1, <1>0 DEF Claim, Book
    <3> QED
      BY <3>1, <3>2
  <2>3. Cardinality(won') \in Nat
    BY <2>1, FS_CardinalityType
  <2> QED
    BY <1>0, <1>2, <2>1, <2>2, <2>3 DEF Claim, Book, WinnersInv
<1>3. ASSUME NEW b \in Broadcasts, MarkSending(b) PROVE WinnersInv'
  BY <1>3, OverwriteWinners DEF MarkSending
<1>4. ASSUME NEW e \in Executors, RevertSeen(e), won' = won PROVE WinnersInv'
  <2>1. CASE seen[e] = "SENDING"
    BY <1>4, <2>1, OverwriteWinners DEF RevertSeen
  <2>2. CASE seen[e] # "SENDING"
    BY <1>4, <2>2, <1>u DEF RevertSeen, slotRow
  <2> QED
    BY <2>1, <2>2
<1>5. ASSUME NEW o \in Cancels, CancelWrite(o) PROVE WinnersInv'
  BY <1>5, OverwriteWinners DEF CancelWrite
<1> QED
  BY <1>u, <1>1, <1>2, <1>3, <1>4, <1>5 DEF Next, PrepareStep, ExecutorStep, CreateSlot,
     QuickPublish, ReadSlot, NobodyEligible, ScheduleBackground, Enqueue, PopJob, LoadSlot,
     SkipLogged, NothingToSend, DispatchOne, Finish, CancelRead, LosePrepare, LoseExecutor,
     slotRow, history, vars

\* Every winner beyond the first was let in by a write over a CLAIMED row: it is
\* the unconditional writes, never the claim, that overbook.  (claim_slot_atomic,
\* prepare_and_queue_broadcast, execute_slot_broadcast, cancel_slot_by_owner.)
THEOREM OverbookingPaid == Spec => []OverbookingNeedsOverwrite
<1>1. Init => WinnersInv
  BY FS_EmptySet DEF Init, WinnersInv
<1>2. TypeOK /\ WinnersInv => OverbookingNeedsOverwrite
  <2> SUFFICES ASSUME TypeOK, WinnersInv PROVE OverbookingNeedsOverwrite
    OBVIOUS
  <2>1. Cardinality(won) \in Nat /\ overwrites \in Nat
    BY FS_CardinalityType DEF WinnersInv, TypeOK
  <2>2. won # {} => Cardinality(won) # 0
    BY FS_EmptySet DEF WinnersInv
  <2> QED
    BY <2>1, <2>2 DEF OverbookingNeedsOverwrite, WinnersInv
<1> QED
  BY <1>1, <1>2, WinnersStep, TypeCorrect, PTL DEF Spec

-----------------------------------------------------------------------------
(* Who undoes a booking or a withdrawal                                    *)

\* The three kinds of stale writers, one executor's and one cancellation's test named.
WillRevert(e) == Running(e) /\ seen[e] = "SENDING"

\* The tags tell the kinds apart, before a step and after it.
LEMMA WritersByKind ==
    /\ \A b \in Broadcasts : <<"prepare", b>> \in StaleWriters <=> prepPc[b] = "match"
    /\ \A e \in Executors : <<"execute", e>> \in StaleWriters <=> WillRevert(e)
    /\ \A o \in Cancels : <<"cancel", o>> \in StaleWriters <=> cancelPc[o] = "write"
    /\ \A b \in Broadcasts : <<"prepare", b>> \in StaleWriters' <=> prepPc'[b] = "match"
    /\ \A e \in Executors : <<"execute", e>> \in StaleWriters' <=> WillRevert(e)'
    /\ \A o \in Cancels : <<"cancel", o>> \in StaleWriters' <=> cancelPc'[o] = "write"
BY DEF StaleWriters, WillRevert, Running

\* Nobody joins the stale writers if nobody joins any of the kinds.
LEMMA NobodyJoins ==
    ASSUME \A b \in Broadcasts : prepPc'[b] = "match" => prepPc[b] = "match",
           \A e \in Executors : WillRevert(e)' => WillRevert(e),
           \A o \in Cancels : cancelPc'[o] = "write" => cancelPc[o] = "write"
    PROVE  StaleWriters' \subseteq StaleWriters
BY DEF StaleWriters, WillRevert, Running

\* What UndoneByEarlierReaders says of a step.
Undo == /\ StaleWriters' \subseteq StaleWriters
        /\ StaleWriters' = StaleWriters => UNCHANGED slotRow

\* One step from a booked or withdrawn slot.
LEMMA UndoStep ==
    TypeOK /\ status \in {"CLAIMED", "CANCELLED"} /\ [Next]_vars => Undo
<1> SUFFICES ASSUME TypeOK, status \in {"CLAIMED", "CANCELLED"}, [Next]_vars PROVE Undo
  OBVIOUS
<1> USE DEF TypeOK, slotRow, prepVars, execVars, history
<1>q. ASSUME UNCHANGED slotRow,
             \A b \in Broadcasts : prepPc'[b] = "match" => prepPc[b] = "match",
             \A e \in Executors : WillRevert(e)' => WillRevert(e),
             \A o \in Cancels : cancelPc'[o] = "write" => cancelPc[o] = "write"
      PROVE  Undo
  BY <1>q, NobodyJoins DEF Undo
<1>1. ASSUME CreateRow PROVE FALSE
  BY <1>1 DEF CreateRow
<1>2. ASSUME NEW b \in Broadcasts,
             ReadSlot(b) \/ NobodyEligible(b) \/ ScheduleBackground(b) \/ Enqueue(b)
             \/ LosePrepare(b)
      PROVE  Undo
  <2>1. \A d \in Broadcasts : Background(d) \in Executors
    BY DEF Executors, Background
  <2> QED
    BY <1>2, <2>1, <1>q DEF ReadSlot, NobodyEligible, ScheduleBackground, Enqueue,
       LosePrepare, WillRevert, Running
<1>3. ASSUME NEW b \in Broadcasts, MarkSending(b) PROVE Undo
  <2>1. StaleWriters' \subseteq StaleWriters
    BY <1>3, NobodyJoins DEF MarkSending, WillRevert, Running
  <2>2. prepPc[b] = "match" /\ prepPc'[b] # "match"
    BY <1>3 DEF MarkSending
  <2> QED
    BY <2>1, <2>2, WritersByKind DEF Undo
<1>4. CASE PopJob
  <2>1. Queued(Head(jobs)) \in Executors
    BY <1>4 DEF PopJob, Executors, Queued
  <2> QED
    BY <1>4, <2>1, <1>q DEF PopJob, WillRevert, Running
<1>5. ASSUME NEW e \in Executors, LoadSlot(e) \/ SkipLogged(e) PROVE Undo
  BY <1>5, <1>q DEF LoadSlot, SkipLogged, WillRevert, Running
<1>6. ASSUME NEW e \in Executors, NothingToSend(e) \/ Finish(e) PROVE Undo
  <2>1. StaleWriters' \subseteq StaleWriters
    BY <1>6, NobodyJoins
    DEF NothingToSend, Finish, RevertSeen, CloseSession, WillRevert, Running
  <2>2. CASE seen[e] = "SENDING"
    <3>1. WillRevert(e) /\ ~WillRevert(e)'
      BY <1>6, <2>2 DEF NothingToSend, Finish, RevertSeen, CloseSession, WillRevert, Running
    <3> QED
      BY <2>1, <3>1, WritersByKind DEF Undo
  <2>3. CASE seen[e] # "SENDING"
    BY <1>6, <2>1, <2>3 DEF NothingToSend, Finish, RevertSeen, Undo
  <2> QED
    BY <2>2, <2>3
<1>7. ASSUME NEW e \in Executors, NEW c \in Customers, DispatchOne(e, c) PROVE Undo
  BY <1>7, <1>q DEF DispatchOne, WillRevert, Running
<1>8. ASSUME NEW e \in Executors, LoseExecutor(e) PROVE Undo
  BY <1>8, <1>q DEF LoseExecutor, CloseSession, WillRevert, Running
<1>9. ASSUME NEW c \in Customers, Claim(c) PROVE FALSE
  BY <1>9 DEF Claim
<1>10. ASSUME NEW o \in Cancels, CancelRead(o) PROVE Undo
  BY <1>10, <1>q DEF CancelRead, WillRevert, Running
<1>11. ASSUME NEW o \in Cancels, CancelWrite(o) PROVE Undo
  <2>1. StaleWriters' \subseteq StaleWriters
    BY <1>11, NobodyJoins DEF CancelWrite, WillRevert, Running
  <2>2. cancelPc[o] = "write" /\ cancelPc'[o] # "write"
    BY <1>11 DEF CancelWrite
  <2> QED
    BY <2>1, <2>2, WritersByKind DEF Undo
<1>12. CASE UNCHANGED vars
  BY <1>12, <1>q DEF vars, WillRevert, Running
<1> QED
  BY <1>1, <1>2, <1>3, <1>4, <1>5, <1>6, <1>7, <1>8, <1>9, <1>10, <1>11, <1>12
  DEF Next, PrepareStep, ExecutorStep, CreateSlot, QuickPublish

\* Only somebody who had read the row before it can undo a booking or a withdrawal,
\* and as the last thing they do.  (All writers of the slot's row.)
THEOREM UndoneOnlyByEarlierReaders == Spec => UndoneByEarlierReaders
<1>1. TypeOK /\ [Next]_vars => (status \in {"CLAIMED", "CANCELLED"} => Undo)
  BY UndoStep
<1>2. Undo <=> /\ StaleWriters' \subseteq StaleWriters
               /\ StaleWriters' = StaleWriters => UNCHANGED slotRow
  BY DEF Undo
<1> QED
  BY <1>1, <1>2, TypeCorrect, PTL DEF Spec, UndoneByEarlierReaders

\* A cancellation that found the slot, or left it, with no stale writer about.
QuietlyCancelled == status = "CANCELLED" /\ StaleWriters = {}

\* Such a cancellation is final: the slot stays CANCELLED and no claim is ever committed.
\* Without the second condition that is false (NoClaimAfterCancel).
\* (cancel_slot_by_owner and the other writers of the row.)
THEOREM QuietCancelIsFinal ==
    Spec => [][QuietlyCancelled => QuietlyCancelled' /\ UNCHANGED <<won, version>>]_vars
<1>1. ASSUME TypeOK, [Next]_vars, QuietlyCancelled
      PROVE  QuietlyCancelled' /\ UNCHANGED <<won, version>>
  <2>1. Undo
    BY <1>1, UndoStep DEF QuietlyCancelled
  <2>2. StaleWriters' = StaleWriters /\ UNCHANGED slotRow
    BY <1>1, <2>1 DEF Undo, QuietlyCancelled
  <2>3. UNCHANGED won
    BY <1>1 DEF QuietlyCancelled, Next, PrepareStep, ExecutorStep, CreateSlot, QuickPublish,
       CreateRow, ReadSlot, NobodyEligible, MarkSending, ScheduleBackground, Enqueue,
       LosePrepare, PopJob, LoadSlot, SkipLogged, NothingToSend, DispatchOne, Finish,
       LoseExecutor, Claim, CancelRead, CancelWrite, vars, history
  <2> QED
    BY <1>1, <2>2, <2>3 DEF QuietlyCancelled, slotRow
<1>2. TypeOK /\ [Next]_vars =>
        (QuietlyCancelled => QuietlyCancelled' /\ UNCHANGED <<won, version>>)
  BY <1>1
<1> QED
  BY <1>2, TypeCorrect, PTL DEF Spec

-----------------------------------------------------------------------------
(* The audit trail                                                         *)

InQueue(b) == \E i \in 1 .. Len(jobs) : jobs[i] = b

\* Each executor runs once: nobody schedules it again while its session is open.
OnceInv ==
    /\ \A e \in Executors : execPc[e] # "sending" => pending[e] = {} /\ unsaved[e] = {}
    /\ \A b \in Broadcasts :
          /\ prepPc[b] \in {"idle", "match", "schedule"} => execPc[Background(b)] = "none"
          /\ prepPc[b] # "done" => ~InQueue(b)
          /\ prepPc[b] # "done" \/ InQueue(b) => execPc[Queued(b)] = "none"
    /\ \A i, j \in 1 .. Len(jobs) : jobs[i] = jobs[j] => i = j

\* The executors of one broadcast, and of two, are different.
LEMMA ExecutorsDiffer ==
    \A a, b \in Broadcasts :
        /\ Background(a) \in Executors /\ Queued(a) \in Executors
        /\ Background(a) # Queued(b)
        /\ Background(a) = Background(b) => a = b
        /\ Queued(a) = Queued(b) => a = b
  BY DEF Executors, Background, Queued

\* A job is queued behind those it differs from.
LEMMA JobsAfterEnqueue ==
    ASSUME TypeOK, OnceInv, NEW b \in Broadcasts, prepPc[b] # "done", jobs' = Append(jobs, b)
    PROVE  /\ \A i, j \in 1 .. Len(jobs') : jobs'[i] = jobs'[j] => i = j
           /\ \A a \in Broadcasts : InQueue(a)' => InQueue(a) \/ a = b
<1>1. jobs \in Seq(Broadcasts) /\ Len(jobs) \in Nat
  BY LenProperties DEF TypeOK
<1>2. /\ Len(jobs') = Len(jobs) + 1 /\ jobs'[Len(jobs) + 1] = b
      /\ \A i \in 1 .. Len(jobs) : jobs'[i] = jobs[i]
  BY <1>1, AppendProperties
<1>3. \A i \in 1 .. Len(jobs') : i \in 1 .. Len(jobs) \/ i = Len(jobs) + 1
  BY <1>1, <1>2
<1>4. \A i \in 1 .. Len(jobs) : jobs[i] # b
  BY DEF OnceInv, InQueue
<1>5. ASSUME NEW i \in 1 .. Len(jobs'), NEW j \in 1 .. Len(jobs'), jobs'[i] = jobs'[j] PROVE i = j
  BY <1>2, <1>3, <1>4, <1>5 DEF OnceInv
<1>6. ASSUME NEW a \in Broadcasts, InQueue(a)', a # b PROVE InQueue(a)
  BY <1>2, <1>3, <1>6 DEF InQueue
<1> QED
  BY <1>5, <1>6

\* A popped job is in the queue no more.
LEMMA JobsAfterPop ==
    ASSUME TypeOK, OnceInv, jobs # <<>>, jobs' = Tail(jobs), NEW b, b = Head(jobs)
    PROVE  /\ b \in Broadcasts /\ InQueue(b) /\ ~InQueue(b)'
           /\ \A i, j \in 1 .. Len(jobs') : jobs'[i] = jobs'[j] => i = j
           /\ \A a \in Broadcasts : InQueue(a)' => InQueue(a)
<1>1. jobs \in Seq(Broadcasts) /\ Len(jobs) \in Nat /\ Len(jobs) > 0
  BY LenProperties, EmptySeq DEF TypeOK
<1>2. /\ Head(jobs) \in Broadcasts /\ Len(jobs') = Len(jobs) - 1
      /\ \A i \in 1 .. Len(jobs') : jobs'[i] = jobs[i + 1]
  BY <1>1, HeadTailProperties
<1>3. Head(jobs) = jobs[1] /\ 1 \in 1 .. Len(jobs)
  BY <1>1
<1>4. \A i \in 1 .. Len(jobs') : i \in Nat /\ i + 1 \in 1 .. Len(jobs) /\ i + 1 # 1
  BY <1>1, <1>2
<1>5. InQueue(b)
  BY <1>3 DEF InQueue
<1>6. \A i \in 1 .. Len(jobs') : jobs'[i] # b
  BY <1>2, <1>3, <1>4 DEF OnceInv
<1>7. ~InQueue(b)'
  BY <1>6 DEF InQueue
<1>8. ASSUME NEW i \in 1 .. Len(jobs'), NEW j \in 1 .. Len(jobs'), jobs'[i] = jobs'[j] PROVE i = j
  <2>1. jobs[i + 1] = jobs[j + 1] /\ i + 1 \in 1 .. Len(jobs) /\ j + 1 \in 1 .. Len(jobs)
    BY <1>2, <1>4, <1>8
  <2>2. i + 1 = j + 1
    BY <2>1 DEF OnceInv
  <2> QED
    BY <1>4, <2>2
<1>9. ASSUME NEW a \in Broadcasts, InQueue(a)' PROVE InQueue(a)
  BY <1>2, <1>4, <1>9 DEF InQueue
<1> QED
  BY <1>2, <1>5, <1>7, <1>8, <1>9

\* Every executor is scheduled once, and is alone in its session.
LEMMA OnceStep == TypeOK /\ OnceInv /\ [Next]_vars => OnceInv'
<1> SUFFICES ASSUME TypeOK, OnceInv, [Next]_vars PROVE OnceInv'
  OBVIOUS
<1> USE ExecutorsDiffer DEF slotRow, prepVars, execVars, history
<1> DEFINE Idle(e) == execPc[e] # "sending" => pending[e] = {} /\ unsaved[e] = {}
<1> DEFINE Place(b) == /\ prepPc[b] \in {"idle", "match", "schedule"} => execPc[Background(b)] = "none"
                       /\ prepPc[b] # "done" => ~InQueue(b)
                       /\ prepPc[b] # "done" \/ InQueue(b) => execPc[Queued(b)] = "none"
<1>0. (\A e \in Executors : Idle(e)) /\ (\A b \in Broadcasts : Place(b))
  BY DEF OnceInv
<1>u. ASSUME UNCHANGED <<prepPc, jobs, execPc, pending, unsaved>> PROVE OnceInv'
  BY <1>u DEF OnceInv, InQueue
\* A broadcast that moves on without touching the executors.
<1>p. ASSUME NEW b \in Broadcasts, NEW to, prepPc[b] # "done", prepPc' = [prepPc EXCEPT ![b] = to],
             to \in {"match", "schedule"} => prepPc[b] \in {"idle", "match"},
             to # "idle", UNCHANGED <<jobs, execPc, pending, unsaved>>
      PROVE  OnceInv'
  <2>1. ASSUME NEW a \in Broadcasts PROVE Place(a)'
    BY <1>0, <1>p, <2>1 DEF InQueue, TypeOK
  <2> QED
    BY <1>p, <2>1 DEF OnceInv, InQueue
<1>e. ASSUME NEW e \in Executors, execPc[e] # "none", execPc'[e] # "none", Idle(e)',
             \A f \in Executors : f # e => execPc'[f] = execPc[f] /\ pending'[f] = pending[f]
                                           /\ unsaved'[f] = unsaved[f],
             UNCHANGED <<prepPc, jobs>>
      PROVE  OnceInv'
  <2>1. ASSUME NEW f \in Executors PROVE Idle(f)'
    BY <1>0, <1>e, <2>1
  <2>2. ASSUME NEW a \in Broadcasts PROVE Place(a)'
    BY <1>0, <1>e, <2>2 DEF InQueue
  <2> QED
    BY <1>e, <2>1, <2>2 DEF OnceInv, InQueue
<1>1. CASE CreateSlot
  BY <1>1, <1>u DEF CreateSlot, CreateRow
<1>2. ASSUME NEW b \in Broadcasts,
             QuickPublish(b) \/ ReadSlot(b) \/ NobodyEligible(b) \/ MarkSending(b) \/ LosePrepare(b)
      PROVE  OnceInv'
  <2>1. CASE QuickPublish(b)
    BY <1>p, <2>1 DEF QuickPublish, CreateRow
  <2>2. CASE ReadSlot(b)
    <3>1. prepPc[b] = "idle" /\ UNCHANGED <<jobs, execPc, pending, unsaved>>
      BY <2>2 DEF ReadSlot
    <3>2. \E to \in {"match", "done"} : prepPc' = [prepPc EXCEPT ![b] = to]
      BY <2>2 DEF ReadSlot
    <3> QED
      BY <1>p, <3>1, <3>2
  <2>3. CASE NobodyEligible(b)
    BY <1>p, <2>3 DEF NobodyEligible
  <2>4. CASE MarkSending(b)
    BY <1>p, <2>4 DEF MarkSending
  <2>5. CASE LosePrepare(b)
    BY <1>p, <2>5 DEF LosePrepare
  <2> QED
    BY <1>2, <2>1, <2>2, <2>3, <2>4, <2>5
<1>3. ASSUME NEW b \in Broadcasts, ScheduleBackground(b) PROVE OnceInv'
  <2>1. /\ prepPc[b] = "schedule" /\ prepPc' = [prepPc EXCEPT ![b] = "enqueue"]
        /\ execPc' = [execPc EXCEPT ![Background(b)] = "scheduled"]
        /\ UNCHANGED <<jobs, pending, unsaved>>
    BY <1>3 DEF ScheduleBackground
  <2>2. execPc[Background(b)] = "none"
    BY <1>0, <2>1
  <2>3. ASSUME NEW e \in Executors PROVE Idle(e)'
    BY <1>0, <2>1, <2>2 DEF TypeOK
  <2>4. ASSUME NEW a \in Broadcasts PROVE Place(a)'
    <3>1. prepPc'[a] = IF a = b THEN "enqueue" ELSE prepPc[a]
      BY <2>1 DEF TypeOK
    <3>2. execPc'[Queued(a)] = execPc[Queued(a)]
      BY <2>1 DEF TypeOK
    <3>3. a # b => execPc'[Background(a)] = execPc[Background(a)]
      BY <2>1 DEF TypeOK
    <3>4. InQueue(a)' <=> InQueue(a)
      BY <2>1 DEF InQueue
    <3> QED
      BY <1>0, <2>1, <3>1, <3>2, <3>3, <3>4
  <2> QED
    BY <2>1, <2>3, <2>4 DEF OnceInv, InQueue
<1>4. ASSUME NEW b \in Broadcasts, Enqueue(b) PROVE OnceInv'
  <2>1. /\ prepPc[b] = "enqueue" /\ prepPc' = [prepPc EXCEPT ![b] = "done"]
        /\ UNCHANGED <<execPc, pending, unsaved>>
        /\ jobs' = jobs \/ jobs' = Append(jobs, b)
    BY <1>4 DEF Enqueue
  <2>2. CASE jobs' = jobs
    BY <1>p, <2>1, <2>2
  <2>3. CASE jobs' = Append(jobs, b)
    <3>1. /\ \A i, j \in 1 .. Len(jobs') : jobs'[i] = jobs'[j] => i = j
          /\ \A a \in Broadcasts : InQueue(a)' => InQueue(a) \/ a = b
      BY <2>1, <2>3, JobsAfterEnqueue
    <3>2. ASSUME NEW a \in Broadcasts PROVE Place(a)'
      <4>1. prepPc'[a] = IF a = b THEN "done" ELSE prepPc[a]
        BY <2>1 DEF TypeOK
      <4> QED
        BY <1>0, <2>1, <3>1, <4>1
    <3> QED
      BY <1>0, <2>1, <3>1, <3>2 DEF OnceInv
  <2> QED
    BY <2>1, <2>2, <2>3
<1>5. CASE PopJob
  <2> DEFINE b == Head(jobs)
  <2>1. /\ jobs # <<>> /\ jobs' = Tail(jobs)
        /\ execPc' = [execPc EXCEPT ![Queued(b)] = "scheduled"]
        /\ UNCHANGED <<prepPc, pending, unsaved>>
    BY <1>5 DEF PopJob
  <2> HIDE DEF b
  <2>2. /\ b \in Broadcasts /\ InQueue(b)
        /\ \A i, j \in 1 .. Len(jobs') : jobs'[i] = jobs'[j] => i = j
        /\ \A a \in Broadcasts : InQueue(a)' => InQueue(a) /\ a # b
    BY <2>1, JobsAfterPop DEF b
  <2>3. execPc[Queued(b)] = "none" /\ prepPc[b] = "done"
    BY <1>0, <2>2
  <2>4. ASSUME NEW e \in Executors PROVE Idle(e)'
    BY <1>0, <2>1, <2>2, <2>3 DEF TypeOK
  <2>5. ASSUME NEW a \in Broadcasts PROVE Place(a)'
    <3>1. execPc'[Background(a)] = execPc[Background(a)]
      BY <2>1, <2>2 DEF TypeOK
    <3>2. a # b => execPc'[Queued(a)] = execPc[Queued(a)]
      BY <2>1, <2>2 DEF TypeOK
    <3> QED
      BY <1>0, <2>1, <2>2, <2>3, <3>1, <3>2
  <2> QED
    BY <2>2, <2>4, <2>5 DEF OnceInv
<1>6. ASSUME NEW e \in Executors, LoadSlot(e) \/ SkipLogged(e) PROVE OnceInv'
  BY <1>0, <1>6, <1>e DEF LoadSlot, SkipLogged, TypeOK
<1>7. ASSUME NEW e \in Executors, NothingToSend(e) \/ Finish(e) \/ LoseExecutor(e) PROVE OnceInv'
  <2>1. CloseSession(e) /\ UNCHANGED <<prepPc, jobs>> /\ execPc[e] # "none"
    BY <1>7 DEF NothingToSend, Finish, LoseExecutor, RevertSeen, Running
  <2> QED
    BY <1>e, <2>1 DEF CloseSession, TypeOK
<1>8. ASSUME NEW e \in Executors, NEW c \in Customers, DispatchOne(e, c) PROVE OnceInv'
  BY <1>e, <1>8 DEF DispatchOne, TypeOK
<1>9. ASSUME NEW c \in Customers, Claim(c) PROVE OnceInv'
  BY <1>9, <1>u DEF Claim, Book
<1>10. ASSUME NEW o \in Cancels, CancelRead(o) \/ CancelWrite(o) PROVE OnceInv'
  BY <1>10, <1>u DEF CancelRead, CancelWrite
<1>11. CASE UNCHANGED vars
  BY <1>11, <1>u DEF vars
<1> QED
  BY <1>1, <1>2, <1>3, <1>4, <1>5, <1>6, <1>7, <1>8, <1>9, <1>10, <1>11
  DEF Next, PrepareStep, ExecutorStep

\* The executors that have alerted a customer and not committed the log yet.
Holding(c) == {e \in Executors : c \in unsaved[e]}

\* Finitely many sessions hold logs, nobody is alerted twice by one session, and the
\* trail is complete.
AuditInv ==
    /\ IsFiniteSet({e \in Executors : unsaved[e] # {}})
    /\ \A e \in Executors : pending[e] \intersect unsaved[e] = {}
    /\ AuditTrail

\* Each customer's sessions can be counted.
LEMMA HoldingFinite ==
    ASSUME AuditInv, NEW c \in Customers
    PROVE  IsFiniteSet(Holding(c)) /\ Cardinality(Holding(c)) \in Nat
<1>1. Holding(c) \subseteq {e \in Executors : unsaved[e] # {}}
  BY DEF Holding
<1> QED
  BY <1>1, FS_Subset, FS_CardinalityType DEF AuditInv

\* A session that opens holds nothing.
LEMMA AuditUnheld ==
    ASSUME TypeOK, AuditInv, UNCHANGED <<unsaved, alerts, logs>>, crashes' \in {crashes, crashes + 1},
           \A e \in Executors : pending'[e] \intersect unsaved[e] = {}
    PROVE  AuditInv'
<1>1. crashes' = 0 => crashes = 0
  BY DEF TypeOK
<1>2. AuditTrail'
  BY <1>1 DEF AuditInv, AuditTrail
<1> QED
  BY <1>2 DEF AuditInv

LEMMA AuditStep == TypeOK /\ OnceInv /\ AuditInv /\ [Next]_vars => AuditInv'
<1> SUFFICES ASSUME TypeOK, OnceInv, AuditInv, [Next]_vars PROVE AuditInv'
  OBVIOUS
<1> USE DEF slotRow, prepVars, execVars, history
<1> DEFINE Busy == {e \in Executors : unsaved[e] # {}}
<1>0. /\ IsFiniteSet(Busy) /\ \A e \in Executors : pending[e] \intersect unsaved[e] = {}
      /\ crashes = 0 => \A c \in Customers : alerts[c] <= logs[c] + Cardinality(Holding(c))
  BY DEF AuditInv, AuditTrail, Holding
<1>u. ASSUME UNCHANGED <<unsaved, alerts, logs, crashes, pending>> PROVE AuditInv'
  BY <1>0, <1>u, AuditUnheld
<1>1. CASE CreateSlot
  BY <1>1, <1>u DEF CreateSlot, CreateRow
<1>2. ASSUME NEW b \in Broadcasts,
             QuickPublish(b) \/ ReadSlot(b) \/ NobodyEligible(b) \/ ScheduleBackground(b) \/ Enqueue(b)
      PROVE  AuditInv'
  BY <1>2, <1>u DEF QuickPublish, CreateRow, ReadSlot, NobodyEligible, ScheduleBackground, Enqueue
<1>3. ASSUME NEW b \in Broadcasts, MarkSending(b) \/ LosePrepare(b) PROVE AuditInv'
  <2>1. UNCHANGED <<unsaved, alerts, logs, pending>> /\ crashes' \in {crashes, crashes + 1}
    BY <1>3 DEF MarkSending, LosePrepare
  <2> QED
    BY <1>0, <2>1, AuditUnheld
<1>4. CASE PopJob
  BY <1>4, <1>u DEF PopJob
<1>5. ASSUME NEW e \in Executors, LoadSlot(e) PROVE AuditInv'
  BY <1>5, <1>u DEF LoadSlot
<1>6. ASSUME NEW e \in Executors, SkipLogged(e) PROVE AuditInv'
  <2>1. unsaved[e] = {}
    BY <1>6 DEF SkipLogged, OnceInv
  <2>2. \A f \in Executors : f # e => pending'[f] = pending[f]
    BY <1>6 DEF SkipLogged, TypeOK
  <2>3. UNCHANGED <<unsaved, alerts, logs, crashes>>
    BY <1>6 DEF SkipLogged
  <2> QED
    BY <1>0, <2>1, <2>2, <2>3, AuditUnheld
\* The sessions of a customer when session e closes or gains a log.
<1>7. ASSUME NEW e \in Executors, NothingToSend(e) PROVE AuditInv'
  <2>1. unsaved[e] = {} /\ UNCHANGED <<alerts, logs, crashes>> /\ CloseSession(e)
    BY <1>7 DEF NothingToSend, RevertSeen, OnceInv
  <2>2. unsaved' = unsaved
    <3>1. unsaved' = [unsaved EXCEPT ![e] = {}] /\ unsaved \in [Executors -> SUBSET Customers]
      BY <2>1 DEF CloseSession, TypeOK
    <3> QED
      BY <2>1, <3>1
  <2>3. \A f \in Executors : pending'[f] \subseteq pending[f]
    BY <2>1 DEF CloseSession, TypeOK
  <2> QED
    BY <1>0, <2>1, <2>2, <2>3, AuditUnheld
<1>8. ASSUME NEW e \in Executors, NEW c \in Customers, DispatchOne(e, c) PROVE AuditInv'
  <2>1. /\ c \in pending[e] /\ UNCHANGED <<logs, crashes>>
        /\ pending' = [pending EXCEPT ![e] = @ \ {c}]
        /\ unsaved' = [unsaved EXCEPT ![e] = @ \union {c}]
        /\ alerts' = alerts \/ alerts' = [alerts EXCEPT ![c] = @ + 1]
    BY <1>8 DEF DispatchOne
  <2>2. /\ pending'[e] = pending[e] \ {c} /\ unsaved'[e] = unsaved[e] \union {c}
        /\ \A f \in Executors : f # e => pending'[f] = pending[f] /\ unsaved'[f] = unsaved[f]
    BY <2>1 DEF TypeOK
  <2>3. {f \in Executors : unsaved'[f] # {}} \subseteq Busy \union {e}
    BY <2>2
  <2>4. IsFiniteSet({f \in Executors : unsaved'[f] # {}})
    <3>1. IsFiniteSet(Busy \union {e})
      BY <1>0, FS_AddElement
    <3> QED
      BY <2>3, <3>1, FS_Subset
  <2>5. \A f \in Executors : pending'[f] \intersect unsaved'[f] = {}
    BY <1>0, <2>2
  <2>6. ASSUME NEW d \in Customers, crashes' = 0
        PROVE  alerts'[d] <= logs'[d] + Cardinality(Holding(d))'
    <3>0. /\ alerts[d] <= logs[d] + Cardinality(Holding(d))
          /\ alerts[d] \in Nat /\ logs[d] \in Nat /\ Cardinality(Holding(d)) \in Nat
      BY <1>0, <2>1, <2>6, HoldingFinite DEF TypeOK
    <3>1. CASE d = c
      <4>1. e \notin Holding(d)
        BY <1>0, <2>1, <3>1 DEF Holding
      <4>2. Holding(d)' = Holding(d) \union {e}
        BY <2>2, <3>1 DEF Holding
      <4>3. Cardinality(Holding(d))' = Cardinality(Holding(d)) + 1
        BY <4>1, <4>2, HoldingFinite, FS_AddElement
      <4>4. alerts'[d] <= alerts[d] + 1
        BY <2>1, <3>0, <3>1 DEF TypeOK
      <4>5. alerts'[d] \in Nat
        BY <2>1, <3>0, <3>1 DEF TypeOK
      <4> QED
        BY <2>1, <3>0, <4>3, <4>4, <4>5
    <3>2. CASE d # c
      <4>1. Holding(d)' = Holding(d)
        BY <2>2, <3>2 DEF Holding
      <4>2. alerts'[d] = alerts[d]
        BY <2>1, <3>2 DEF TypeOK
      <4> QED
        BY <2>1, <3>0, <4>1, <4>2
    <3> QED
      BY <3>1, <3>2
  <2> QED
    BY <2>4, <2>5, <2>6 DEF AuditInv, AuditTrail, Holding
<1>9. ASSUME NEW e \in Executors, Finish(e) \/ LoseExecutor(e) PROVE AuditInv'
  <2>1. CloseSession(e) /\ alerts' = alerts
    BY <1>9 DEF Finish, LoseExecutor, RevertSeen
  <2>2. /\ pending'[e] = {} /\ unsaved'[e] = {}
        /\ \A f \in Executors : f # e => pending'[f] = pending[f] /\ unsaved'[f] = unsaved[f]
    BY <2>1 DEF CloseSession, TypeOK
  <2>3. {f \in Executors : unsaved'[f] # {}} \subseteq Busy
    BY <2>2
  <2>4. IsFiniteSet({f \in Executors : unsaved'[f] # {}})
    BY <1>0, <2>3, FS_Subset
  <2>5. \A f \in Executors : pending'[f] \intersect unsaved'[f] = {}
    BY <1>0, <2>2
  <2>6. ASSUME NEW d \in Customers, crashes' = 0
        PROVE  alerts'[d] <= logs'[d] + Cardinality(Holding(d))'
    <3>1. Finish(e) /\ crashes = 0
      <4>1. ~LoseExecutor(e)
        BY <2>6 DEF LoseExecutor, TypeOK
      <4> QED
        BY <1>9, <2>6, <4>1 DEF Finish
    <3>0. /\ alerts[d] <= logs[d] + Cardinality(Holding(d))
          /\ alerts[d] \in Nat /\ logs[d] \in Nat /\ Cardinality(Holding(d)) \in Nat
      BY <1>0, <3>1, HoldingFinite DEF TypeOK
    <3>2. logs'[d] = logs[d] + (IF d \in unsaved[e] THEN 1 ELSE 0)
      BY <3>1 DEF Finish
    <3>3. CASE d \in unsaved[e]
      <4>1. e \in Holding(d)
        BY <3>3 DEF Holding
      <4>2. Holding(d)' = Holding(d) \ {e}
        BY <2>2 DEF Holding
      <4>3. Cardinality(Holding(d))' = Cardinality(Holding(d)) - 1
        BY <4>1, <4>2, HoldingFinite, FS_RemoveElement
      <4> QED
        BY <2>1, <3>0, <3>2, <3>3, <4>3
    <3>4. CASE d \notin unsaved[e]
      <4>1. Holding(d)' = Holding(d)
        BY <2>2, <3>4 DEF Holding
      <4> QED
        BY <2>1, <3>0, <3>2, <3>4, <4>1
    <3> QED
      BY <3>3, <3>4
  <2> QED
    BY <2>4, <2>5, <2>6 DEF AuditInv, AuditTrail, Holding
<1>10. ASSUME NEW c \in Customers, Claim(c) PROVE AuditInv'
  BY <1>10, <1>u DEF Claim, Book
<1>11. ASSUME NEW o \in Cancels, CancelRead(o) \/ CancelWrite(o) PROVE AuditInv'
  BY <1>11, <1>u DEF CancelRead, CancelWrite
<1>12. CASE UNCHANGED vars
  BY <1>12, <1>u DEF vars
<1> QED
  BY <1>1, <1>2, <1>3, <1>4, <1>5, <1>6, <1>7, <1>8, <1>9, <1>10, <1>11, <1>12
  DEF Next, PrepareStep, ExecutorStep

\* Every alert that was delivered has its row in broadcast_logs, committed or in the open
\* session that sent it, unless an execution was lost, however the two executors of each
\* broadcast overlap.  (execute_slot_broadcast.)
THEOREM TrailComplete == Spec => []AuditTrail
<1>1. Init => OnceInv /\ AuditInv
  <2> SUFFICES ASSUME Init PROVE OnceInv /\ AuditInv
    OBVIOUS
  <2>1. OnceInv
    <3>1. jobs = <<>> /\ Len(jobs) = 0
      BY DEF Init
    <3>2. \A i \in 1 .. Len(jobs) : FALSE
      BY <3>1
    <3> QED
      BY <3>2, ExecutorsDiffer DEF Init, OnceInv, InQueue
  <2>2. {e \in Executors : unsaved[e] # {}} = {}
    BY DEF Init
  <2>3. \A c \in Customers : {e \in Executors : c \in unsaved[e]} = {}
    BY DEF Init
  <2>4. AuditTrail
    <3>1. Cardinality({}) = 0
      BY FS_EmptySet
    <3>2. \A c \in Customers :
             /\ alerts[c] = 0 /\ logs[c] = 0
             /\ Cardinality({e \in Executors : c \in unsaved[e]}) = 0
      BY <2>3, <3>1 DEF Init
    <3> QED
      BY <3>2 DEF AuditTrail
  <2> QED
    BY <2>1, <2>2, <2>4, FS_EmptySet DEF Init, AuditInv
<1>2. AuditInv => AuditTrail
  BY DEF AuditInv
<1> QED
  BY <1>1, <1>2, OnceStep, AuditStep, TypeCorrect, PTL DEF Spec

-----------------------------------------------------------------------------
(* The promise of FcfsSlot, where one executor runs the only broadcast     *)

\* One broadcast, with Redis down; customers come by its alert, and nobody cancels.
SingleExecutor(b) == Broadcasts = {b} /\ Cancels = {} /\ ~RedisUp /\ ByAlertOnly

\* The slot is OPEN until the broadcast marks it and SENDING until its executor has
\* reverted it, and nobody knows of it before that executor sends: no write replaces CLAIMED.
SingleInv(b) ==
    LET e == Background(b) IN
    /\ jobs = <<>> /\ execPc[Queued(b)] = "none"
    /\ prepPc[b] = "match" => status = "OPEN"
    /\ prepPc[b] = "schedule" => status = "SENDING"
    /\ prepPc[b] \in {"idle", "match", "schedule"} => execPc[e] = "none"
    /\ execPc[e] \in {"scheduled", "loaded", "sending"} => status = "SENDING"
    /\ Running(e) => seen[e] = "SENDING"
    /\ (\E c \in Customers : alerts[c] > 0) => execPc[e] \in {"sending", "done"}
    /\ overwrites = 0

\* A step keeps this, and is a step of FcfsSlot or changes nothing it shows.
LEMMA SingleStep ==
    ASSUME NEW CONSTANT b, SingleExecutor(b), TypeOK, SingleInv(b), [Next]_vars
    PROVE  SingleInv(b)' /\ [Fcfs!FcfsNext]_(Fcfs!fcfsVars)
<1> USE ExecutorsDiffer DEF SingleExecutor, slotRow, prepVars, execVars, history, Running
<1> DEFINE e == Background(b)
<1> DEFINE Goal == SingleInv(b)' /\ [Fcfs!FcfsNext]_(Fcfs!fcfsVars)
<1>0. b \in Broadcasts /\ Executors = {e, Queued(b)} /\ e # Queued(b)
  BY DEF Executors, Background, Queued
<1>s. ASSUME UNCHANGED <<status, claimedBy, won>> PROVE UNCHANGED Fcfs!fcfsVars
  BY <1>s DEF Fcfs!fcfsVars
<1>1. ASSUME CreateRow, UNCHANGED jobs,
             \/ prepPc[b] = "idle" /\ prepPc' = [prepPc EXCEPT ![b] = "match"]
             \/ prepPc' = prepPc
      PROVE  Goal
  <2>1. SingleInv(b)'
    BY <1>0, <1>1 DEF CreateRow, SingleInv, TypeOK
  <2>2. Fcfs!Publish
    BY <1>1 DEF CreateRow, Fcfs!Publish
  <2> QED
    BY <2>1, <2>2 DEF Fcfs!FcfsNext
<1>2. CASE ReadSlot(b) \/ NobodyEligible(b) \/ ScheduleBackground(b) \/ Enqueue(b) \/ LosePrepare(b)
  <2>1. SingleInv(b)'
    <3>1. CASE ReadSlot(b)
      BY <1>0, <3>1 DEF ReadSlot, SingleInv, TypeOK
    <3>2. CASE NobodyEligible(b) \/ LosePrepare(b)
      BY <1>0, <3>2 DEF NobodyEligible, LosePrepare, SingleInv, TypeOK
    <3>3. CASE ScheduleBackground(b)
      BY <1>0, <3>3 DEF ScheduleBackground, SingleInv, TypeOK
    <3>4. CASE Enqueue(b)
      BY <1>0, <3>4 DEF Enqueue, SingleInv, TypeOK
    <3> QED
      BY <1>2, <3>1, <3>2, <3>3, <3>4
  <2>2. UNCHANGED <<status, claimedBy, won>>
    BY <1>2 DEF ReadSlot, NobodyEligible, ScheduleBackground, Enqueue, LosePrepare
  <2> QED
    BY <1>s, <2>1, <2>2
<1>3. CASE MarkSending(b)
  <2>1. status = "OPEN" /\ status' = "SENDING" /\ UNCHANGED <<claimedBy, won, overwrites>>
    BY <1>3 DEF MarkSending, Overwrite, SingleInv
  <2>2. SingleInv(b)'
    BY <1>0, <1>3, <2>1 DEF MarkSending, SingleInv, TypeOK
  <2> QED
    BY <2>1, <2>2 DEF Fcfs!fcfsVars
<1>4. CASE PopJob
  BY <1>4 DEF PopJob, SingleInv
<1>5. ASSUME NEW f \in Executors, execPc[f] # "none" PROVE f = e
  BY <1>0, <1>5 DEF SingleInv
<1>6. CASE LoadSlot(e) \/ SkipLogged(e) \/ LoseExecutor(e)
  <2>1. SingleInv(b)'
    <3>1. CASE LoadSlot(e)
      BY <1>0, <3>1 DEF LoadSlot, SingleInv, TypeOK
    <3>2. CASE SkipLogged(e)
      BY <1>0, <3>2 DEF SkipLogged, SingleInv, TypeOK
    <3>3. CASE LoseExecutor(e)
      BY <1>0, <3>3 DEF LoseExecutor, CloseSession, SingleInv, TypeOK
    <3> QED
      BY <1>6, <3>1, <3>2, <3>3
  <2>2. UNCHANGED <<status, claimedBy, won>>
    BY <1>6 DEF LoadSlot, SkipLogged, LoseExecutor
  <2> QED
    BY <1>s, <2>1, <2>2
<1>7. CASE NothingToSend(e) \/ Finish(e)
  <2>1. Running(e) /\ RevertSeen(e) /\ UNCHANGED <<jobs, prepPc, alerts, won>>
    BY <1>7 DEF NothingToSend, Finish
  <2>2. status = "SENDING" /\ seen[e] = "SENDING" /\ overwrites = 0
    BY <2>1 DEF SingleInv
  <2>3. status' = "OPEN" /\ UNCHANGED <<claimedBy, overwrites>> /\ CloseSession(e)
    BY <2>1, <2>2 DEF RevertSeen, Overwrite
  <2>4. SingleInv(b)'
    BY <1>0, <2>1, <2>2, <2>3 DEF CloseSession, SingleInv, TypeOK
  <2> QED
    BY <2>1, <2>2, <2>3, <2>4 DEF Fcfs!fcfsVars
<1>8. ASSUME NEW c \in Customers, DispatchOne(e, c) PROVE Goal
  <2>1. SingleInv(b)'
    BY <1>0, <1>8 DEF DispatchOne, SingleInv
  <2>2. UNCHANGED <<status, claimedBy, won>>
    BY <1>8 DEF DispatchOne
  <2> QED
    BY <1>s, <2>1, <2>2
<1>9. ASSUME NEW c \in Customers, Claim(c) PROVE Goal
  <2>1. alerts[c] > 0 /\ status = "OPEN"
    BY <1>9 DEF Claim, Book
  <2>2. execPc[e] = "done"
    BY <2>1 DEF SingleInv
  <2>3. prepPc[b] \notin {"idle", "match", "schedule"}
    BY <2>2 DEF SingleInv
  <2>4. SingleInv(b)'
    BY <1>9, <2>2, <2>3 DEF Claim, Book, SingleInv
  <2>5. Fcfs!Take(c)
    BY <1>9, <2>1 DEF Claim, Book, Fcfs!Take
  <2> QED
    BY <2>4, <2>5 DEF Fcfs!FcfsNext
<1>10. CASE UNCHANGED vars
  BY <1>10, <1>s DEF vars, SingleInv
<1>11. ASSUME NEW f \in Executors, ExecutorStep(f) \/ LoseExecutor(f) PROVE Goal
  <2>1. f = e
    BY <1>5, <1>11 DEF ExecutorStep, LoadSlot, SkipLogged, NothingToSend, DispatchOne, Finish,
       LoseExecutor
  <2> QED
    BY <1>6, <1>7, <1>8, <1>11, <2>1 DEF ExecutorStep
<1>12. CASE CreateSlot \/ QuickPublish(b)
  <2>1. CreateRow /\ UNCHANGED jobs
    BY <1>12 DEF CreateSlot, QuickPublish
  <2>2. \/ prepPc[b] = "idle" /\ prepPc' = [prepPc EXCEPT ![b] = "match"]
        \/ prepPc' = prepPc
    BY <1>12 DEF CreateSlot, QuickPublish
  <2> QED
    BY <1>1, <2>1, <2>2
<1> QED
  BY <1>2, <1>3, <1>4, <1>9, <1>10, <1>11, <1>12 DEF Next, PrepareStep

LEMMA SingleInit ==
    ASSUME NEW CONSTANT b, SingleExecutor(b), Init
    PROVE  SingleInv(b) /\ Fcfs!FcfsInit
<1>1. b \in Broadcasts /\ Background(b) \in Executors /\ Queued(b) \in Executors
  BY ExecutorsDiffer DEF SingleExecutor
<1>2. SingleInv(b)
  BY <1>1 DEF Init, SingleInv, Running
<1>3. Fcfs!FcfsInit
  BY DEF Init, Fcfs!FcfsInit
<1> QED
  BY <1>2, <1>3

\* A slot whose only broadcast has one executor keeps the promise of FcfsSlot, if customers
\* learn of it from its alert and nobody cancels: published once, taken once, and only the
\* winner is told so.  (quick_publish_and_broadcast_slot, execute_slot_broadcast,
\* claim_slot_atomic.)
THEOREM SingleExecutorKeepsFcfs ==
    ASSUME NEW CONSTANT b, SingleExecutor(b)
    PROVE  Spec => ImplementsFcfs
<1>1. Init => SingleInv(b) /\ Fcfs!FcfsInit
  BY SingleInit
<1>2. TypeOK /\ SingleInv(b) /\ [Next]_vars => SingleInv(b)' /\ [Fcfs!FcfsNext]_(Fcfs!fcfsVars)
  BY SingleStep
<1> QED
  BY <1>1, <1>2, TypeCorrect, PTL DEF Spec, ImplementsFcfs, Fcfs!FcfsSpec

\* There, no write replaces CLAIMED unseen, and one customer at most is told the slot is theirs:
\* the second executor is what breaks "Zero overbooking guaranteed" (README.md) for a single
\* broadcast.  (execute_slot_broadcast, claim_slot_atomic.)
THEOREM SingleExecutorBooksOnce ==
    ASSUME NEW CONSTANT b, SingleExecutor(b)
    PROVE  Spec => []ZeroOverbooking
<1>1. Init => SingleInv(b)
  BY SingleInit
<1>2. TypeOK /\ SingleInv(b) /\ [Next]_vars => SingleInv(b)'
  BY SingleStep
<1>3. SingleInv(b) /\ OverbookingNeedsOverwrite => ZeroOverbooking
  BY DEF SingleInv, OverbookingNeedsOverwrite, ZeroOverbooking
<1> QED
  BY <1>1, <1>2, <1>3, TypeCorrect, OverbookingPaid, PTL DEF Spec

-----------------------------------------------------------------------------
(* One alert for each customer, where one executor runs the only broadcast *)

\* One broadcast, with Redis down; anybody may claim, and the owner may cancel.
LoneExecutor(b) == Broadcasts = {b} /\ ~RedisUp

\* Only the background task ever runs, and whom it has alerted it does not alert again.
LoneInv(b) ==
    LET e == Background(b) IN
    /\ jobs = <<>> /\ execPc[Queued(b)] = "none"
    /\ prepPc[b] \in {"idle", "match", "schedule"} => execPc[e] = "none"
    /\ \A c \in Customers :
          /\ alerts[c] <= 1
          /\ alerts[c] > 0 => execPc[e] \in {"sending", "done"} /\ c \notin pending[e]

LEMMA LoneStep ==
    ASSUME NEW CONSTANT b, LoneExecutor(b), TypeOK, LoneInv(b), [Next]_vars
    PROVE  LoneInv(b)'
<1> USE ExecutorsDiffer DEF LoneExecutor, slotRow, prepVars, execVars, history, Running
<1> DEFINE e == Background(b)
<1>0. b \in Broadcasts /\ Executors = {e, Queued(b)} /\ e # Queued(b)
  BY DEF Executors, Background, Queued
<1>1. CASE CreateSlot \/ QuickPublish(b)
  BY <1>0, <1>1 DEF CreateSlot, QuickPublish, CreateRow, LoneInv, TypeOK
<1>2. CASE ReadSlot(b) \/ NobodyEligible(b) \/ MarkSending(b) \/ LosePrepare(b)
  <2>1. CASE ReadSlot(b)
    BY <1>0, <2>1 DEF ReadSlot, LoneInv, TypeOK
  <2>2. CASE NobodyEligible(b) \/ LosePrepare(b)
    BY <1>0, <2>2 DEF NobodyEligible, LosePrepare, LoneInv, TypeOK
  <2>3. CASE MarkSending(b)
    BY <1>0, <2>3 DEF MarkSending, LoneInv, TypeOK
  <2> QED
    BY <1>2, <2>1, <2>2, <2>3
<1>3. CASE ScheduleBackground(b)
  <2>1. \A c \in Customers : ~(alerts[c] > 0)
    BY <1>3 DEF ScheduleBackground, LoneInv
  <2> QED
    BY <1>0, <1>3, <2>1 DEF ScheduleBackground, LoneInv, TypeOK
<1>4. CASE Enqueue(b)
  BY <1>0, <1>4 DEF Enqueue, LoneInv, TypeOK
<1>5. CASE PopJob
  BY <1>5 DEF PopJob, LoneInv
<1>6. ASSUME NEW f \in Executors, ExecutorStep(f) \/ LoseExecutor(f)
      PROVE  f = e
  <2>1. execPc[f] # "none"
    BY <1>6 DEF ExecutorStep, LoadSlot, SkipLogged, NothingToSend, DispatchOne, Finish,
       LoseExecutor
  <2> QED
    BY <1>0, <2>1 DEF LoneInv
<1>7. CASE LoadSlot(e) \/ SkipLogged(e)
  <2>1. \A c \in Customers : ~(alerts[c] > 0)
    BY <1>7 DEF LoadSlot, SkipLogged, LoneInv
  <2>2. alerts' = alerts /\ jobs' = jobs /\ prepPc' = prepPc
    BY <1>7 DEF LoadSlot, SkipLogged
  <2>3. prepPc[b] \notin {"idle", "match", "schedule"} /\ execPc'[Queued(b)] = "none"
    BY <1>0, <1>7 DEF LoadSlot, SkipLogged, LoneInv, TypeOK
  <2> QED
    BY <2>1, <2>2, <2>3 DEF LoneInv
<1>8. CASE NothingToSend(e) \/ Finish(e) \/ LoseExecutor(e)
  <2>1. CloseSession(e) /\ UNCHANGED <<jobs, prepPc, alerts>> /\ execPc[e] # "none"
    BY <1>8 DEF NothingToSend, Finish, LoseExecutor, RevertSeen
  <2> QED
    BY <1>0, <2>1 DEF CloseSession, LoneInv, TypeOK
<1>9. ASSUME NEW c \in Customers, DispatchOne(e, c) PROVE LoneInv(b)'
  <2>1. c \in pending[e] /\ alerts[c] = 0
    BY <1>9 DEF DispatchOne, LoneInv, TypeOK
  <2>2. pending'[e] = pending[e] \ {c} /\ execPc[e] = "sending"
    BY <1>0, <1>9 DEF DispatchOne, TypeOK
  <2>3. \A d \in Customers \ {c} : alerts'[d] = alerts[d]
    BY <1>9 DEF DispatchOne, TypeOK
  <2>4. alerts'[c] \in {0, 1}
    BY <1>9, <2>1 DEF DispatchOne, TypeOK
  <2>5. UNCHANGED <<jobs, prepPc, execPc>>
    BY <1>9 DEF DispatchOne
  <2> QED
    BY <2>1, <2>2, <2>3, <2>4, <2>5 DEF LoneInv
<1>10. ASSUME NEW c \in Customers, Claim(c) PROVE LoneInv(b)'
  BY <1>10 DEF Claim, Book, LoneInv
<1>11. ASSUME NEW o \in Cancels, CancelRead(o) \/ CancelWrite(o) PROVE LoneInv(b)'
  BY <1>11 DEF CancelRead, CancelWrite, LoneInv
<1>12. CASE UNCHANGED vars
  BY <1>12 DEF vars, LoneInv
<1>13. ASSUME NEW f \in Executors, ExecutorStep(f) \/ LoseExecutor(f) PROVE LoneInv(b)'
  BY <1>6, <1>7, <1>8, <1>9, <1>13 DEF ExecutorStep
<1> QED
  BY <1>1, <1>2, <1>3, <1>4, <1>5, <1>10, <1>11, <1>12, <1>13 DEF Next, PrepareStep

\* A broadcast that is run by one executor alerts nobody twice, whoever claims or cancels
\* meanwhile: the idempotency check need only reckon with itself.  (execute_slot_broadcast:
\* "skips customers who already received an alert for this slot".)
THEOREM LoneExecutorAlertsOnce ==
    ASSUME NEW CONSTANT b, LoneExecutor(b)
    PROVE  Spec => []OneAlertPerCustomer
<1>1. Init => LoneInv(b)
  BY ExecutorsDiffer DEF LoneExecutor, Init, LoneInv
<1>2. TypeOK /\ LoneInv(b) /\ [Next]_vars => LoneInv(b)'
  BY LoneStep
<1>3. LoneInv(b) => OneAlertPerCustomer
  BY DEF LoneInv, OneAlertPerCustomer
<1> QED
  BY <1>1, <1>2, <1>3, TypeCorrect, PTL DEF Spec
=============================================================================
