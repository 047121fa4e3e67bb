------------------------ MODULE WebhookAnswers_proofs ------------------------
(***************************************************************************)
(* WebhookPipeline: what a sender and the owner are told is true, is told  *)
(* for a cause and is not left untold without one, and the pipeline keeps  *)
(* the promise of ClickContract, for any number of payloads, messages,     *)
(* workers, retries and faults.                                            *)
(***************************************************************************)
EXTENDS WebhookPipeline_proofs

USE GraphAssumption DEF Workers

\* Nobody else acts for the message of an active worker, and what the dedup key does not
\* remember is undecided.
FocusInv ==
    /\ \A v, w \in Workers :
          pc[v] \in Active /\ pc[w] \in Active /\ Current(v) = Current(w) => v = w
    /\ \A m \in Messages : m \notin keys => verdict[m] = "none"

\* A call under way: every copy but the last belongs to a retried attempt, and what
\* returned has arrived.
CallInv(w) ==
    /\ pc[w] = "tell" => call[w] # "idle"
    /\ call[w] = "posting" => HasCredentials /\ copies[w] <= attempt[w]
    /\ call[w] = "idle" => attempt[w] = 0 /\ copies[w] = 0
    /\ copies[w] <= attempt[w] + 1
    /\ HasCredentials /\ call[w] = "returned" => copies[w] > 0

\* A worker tells what it decided: first the sender, then, of a booking, the owner.
TellInv(w) ==
    /\ pc[w] = "act" => verdict[Current(w)] = "none"
    /\ pc[w] = "tell" => /\ verdict[Current(w)] # "none"
                         /\ copies[w] > 0 => answer[Current(w)] = verdict[Current(w)]
    /\ pc[w] = "owner" => /\ verdict[Current(w)] = "won"
                          /\ HasCredentials => answer[Current(w)] = "won"
                          /\ copies[w] > 0 => Current(w) \in ownerTold

\* Until the sender has been told, one copy is still due for the turn under way.
CountInv(w) ==
    pc[w] \in {"act", "tell"} =>
        heard[Current(w)] + 1 + attempt[w] <= taken[Current(w)] + resent[Current(w)] + copies[w]

WorkerInv(w) == CallInv(w) /\ TellInv(w) /\ CountInv(w)

\* What a decision, or an answer, says of message m.
Truth(m, said) ==
    /\ said \in {"won", "lost"} => m \in Claims
    /\ said = "won" => Claimant[m] \in claimedBy
    /\ said = "removed" => m \in OptOuts /\ Targets[m] \intersect waiting = {}

NewsInv ==
    \A m \in Messages :
        /\ Truth(m, verdict[m])
        /\ Truth(m, answer[m])
        /\ m \in ownerTold => answer[m] # "none"

AnswersInv ==
    /\ TypeOK /\ JobInv /\ KeyInv /\ FocusInv
    /\ \A w \in Workers : WorkerInv(w)
    /\ NewsInv /\ CopiesHaveCause /\ SilenceHasCause

WorkerStep(w) == Handle(w) \/ Fault(w) \/ FaultAfterCommit(w)

-----------------------------------------------------------------------------
\* A step of a worker moves no other worker and touches no other message; bookings are
\* only added, and nobody joins a waitlist.
LEMMA StepOfOne ==
    ASSUME TypeOK, JobInv, NEW w \in Workers, WorkerStep(w)
    PROVE  /\ \A v \in Workers : v # w =>
                 /\ job'[v] = job[v] /\ pc'[v] = pc[v] /\ call'[v] = call[v]
                 /\ attempt'[v] = attempt[v] /\ copies'[v] = copies[v]
           /\ \A n \in Messages : n # Current(w) =>
                 /\ verdict'[n] = verdict[n] /\ answer'[n] = answer[n]
                 /\ heard'[n] = heard[n] /\ taken'[n] = taken[n] /\ resent'[n] = resent[n]
                 /\ n \in ownerTold' <=> n \in ownerTold
           /\ ownerTold \subseteq ownerTold' /\ blamed \subseteq blamed'
           /\ claimedBy \subseteq claimedBy' /\ waiting' \subseteq waiting
           /\ keys \subseteq keys'
<1> USE DEF ingest, data, tally, told, graphVars
<1>1. CASE PopJob(w) \/ GuardDuplicate(w) \/ Ignore(w)
  BY <1>1 DEF PopJob, GuardDuplicate, Ignore, Resume, TypeOK
<1>2. CASE GuardNew(w)
  BY <1>2 DEF GuardNew, TypeOK
<1>3. CASE Claim(w)
  <2>1. \A v \in Workers : v # w =>
           call'[v] = call[v] /\ attempt'[v] = attempt[v] /\ copies'[v] = copies[v]
    BY <1>3, StartType DEF Claim, TypeOK
  <2>2. \A n \in Messages : n # Current(w) => verdict'[n] = verdict[n]
    BY <1>3 DEF Claim, TypeOK
  <2>3. claimedBy \subseteq claimedBy' /\ \A v \in Workers : v # w => pc'[v] = pc[v]
    BY <1>3 DEF Claim, TypeOK
  <2> QED
    BY <1>3, <2>1, <2>2, <2>3 DEF Claim
<1>4. CASE OptOut(w)
  <2>1. \A v \in Workers : v # w =>
           call'[v] = call[v] /\ attempt'[v] = attempt[v] /\ copies'[v] = copies[v]
    BY <1>4, StartType DEF OptOut, TypeOK
  <2>2. /\ \A n \in Messages : n # Current(w) => verdict'[n] = verdict[n]
        /\ \A v \in Workers : v # w => pc'[v] = pc[v]
    BY <1>4 DEF OptOut, TypeOK
  <2> QED
    BY <1>4, <2>1, <2>2 DEF OptOut
<1>5. CASE Post(w)
  <2>1. Accepted(w) \/ Transient(w) \/ Rejected(w)
    BY <1>5 DEF Post
  <2>2. \A v \in Workers : v # w =>
           call'[v] = call[v] /\ attempt'[v] = attempt[v] /\ copies'[v] = copies[v]
    BY <2>1, PostType DEF TypeOK
  <2>3. \A n \in Messages : n # Current(w) =>
           answer'[n] = answer[n] /\ heard'[n] = heard[n] /\ resent'[n] = resent[n]
    BY <1>5 DEF Post, TypeOK
  <2>4. /\ \A n \in Messages : n # Current(w) => (n \in ownerTold' <=> n \in ownerTold)
        /\ ownerTold \subseteq ownerTold'
    BY <1>5 DEF Post
  <2> QED
    BY <1>5, <2>2, <2>3, <2>4 DEF Post
<1>6. CASE Told(w) \/ CallOwner(w) \/ OwnerDone(w)
  <2>1. \A v \in Workers : v # w =>
           call'[v] = call[v] /\ attempt'[v] = attempt[v] /\ copies'[v] = copies[v]
    BY <1>6, HangUpType, StartType DEF Told, CallOwner, OwnerDone, TypeOK
  <2>2. \A v \in Workers : v # w => pc'[v] = pc[v] /\ job'[v] = job[v]
    BY <1>6 DEF Told, CallOwner, OwnerDone, Resume, TypeOK
  <2>3. blamed \subseteq blamed'
    BY <1>6 DEF Told, CallOwner, OwnerDone
  <2> QED
    BY <1>6, <2>1, <2>2, <2>3 DEF Told, CallOwner, OwnerDone
<1>7. CASE TellFails(w) \/ AmbiguousOptOut(w) \/ Fault(w) \/ FaultAfterCommit(w)
  <2>1. Drop(w)
    BY <1>7 DEF TellFails, AmbiguousOptOut, Fault, FaultAfterCommit
  <2>2. \A v \in Workers : v # w =>
           call'[v] = call[v] /\ attempt'[v] = attempt[v] /\ copies'[v] = copies[v]
    BY <2>1, HangUpType DEF Drop, TypeOK
  <2>3. \A v \in Workers : v # w => pc'[v] = pc[v] /\ job'[v] = job[v]
    BY <2>1 DEF Drop, TypeOK
  <2>4. blamed \subseteq blamed'
    BY <2>1 DEF Drop
  <2>5. claimedBy \subseteq claimedBy' /\ waiting' \subseteq waiting
    BY <1>7 DEF TellFails, AmbiguousOptOut, Fault, FaultAfterCommit
  <2> QED
    BY <1>7, <2>2, <2>3, <2>4, <2>5 DEF TellFails, AmbiguousOptOut, Fault, FaultAfterCommit
<1> QED
  BY <1>1, <1>2, <1>3, <1>4, <1>5, <1>6, <1>7 DEF WorkerStep, Handle

\* So the other workers keep their part of the invariant.
LEMMA Bystander ==
    ASSUME AnswersInv, NEW w \in Workers, WorkerStep(w), NEW v \in Workers, v # w
    PROVE  WorkerInv(v)'
<1>1. CASE pc[v] \in Active
  <2>1. Current(v) \in Messages /\ WorkerInv(v)
    BY <1>1, CurrentType DEF AnswersInv, Active
  <2>2. Current(v) # Current(w) \/ ~(pc[w] \in Active)
    BY <1>1 DEF AnswersInv, FocusInv
  <2>3. Current(v)' = Current(v)
    BY StepOfOne DEF AnswersInv, Current
  <2>4. CASE Current(v) # Current(w)
    BY <2>1, <2>3, <2>4, StepOfOne DEF AnswersInv, WorkerInv, CallInv, TellInv, CountInv
  <2>5. CASE ~(pc[w] \in Active) /\ Current(v) = Current(w)
    <3>1. PopJob(w) \/ GuardDuplicate(w) \/ Fault(w)
      <4>1. ~GuardNew(w)
        BY <1>1, <2>5 DEF GuardNew, AnswersInv, KeyInv
      <4>2. ~Post(w)
        <5>1. ASSUME Post(w) PROVE FALSE
          <6>1. call[w] # "idle"
            BY <5>1 DEF Post, Accepted, Transient, Rejected
          <6> QED
            BY <2>5, <6>1 DEF AnswersInv, JobInv, Active
        <5> QED
          BY <5>1
      <4> QED
        BY <2>5, <4>1, <4>2 DEF WorkerStep, Handle, Ignore, Claim, OptOut, AmbiguousOptOut, Told,
           TellFails, CallOwner, OwnerDone, FaultAfterCommit, Active
    <3>2. UNCHANGED <<verdict, answer, ownerTold, heard, resent, taken>>
      BY <3>1 DEF PopJob, GuardDuplicate, Fault, told, tally
    <3> QED
      BY <2>1, <2>3, <3>2, StepOfOne DEF AnswersInv, WorkerInv, CallInv, TellInv, CountInv
  <2> QED
    BY <2>2, <2>4, <2>5
<1>2. CASE pc[v] \notin Active
  <2>1. WorkerInv(v)
    BY DEF AnswersInv
  <2> QED
    BY <1>2, <2>1, StepOfOne DEF AnswersInv, WorkerInv, CallInv, TellInv, CountInv, Active
<1> QED
  BY <1>1, <1>2

-----------------------------------------------------------------------------
\* A worker that is not telling anybody has no call under way.
LEMMA NoCall ==
    ASSUME AnswersInv, NEW w \in Workers, pc[w] \notin {"tell", "owner"}
    PROVE  call[w] = "idle" /\ attempt[w] = 0 /\ copies[w] = 0
  BY DEF AnswersInv, JobInv, WorkerInv, CallInv

\* Between messages there is nothing to keep.
LEMMA BetweenMessages ==
    ASSUME NEW w \in Workers, pc'[w] \in {"idle", "guard"},
           call'[w] = "idle", attempt'[w] = 0, copies'[w] = 0
    PROVE  WorkerInv(w)'
  BY DEF WorkerInv, CallInv, TellInv, CountInv

LEMMA ResumeLeaves ==
    ASSUME TypeOK, NEW w \in Workers, NEW rest, Resume(w, rest)
    PROVE  pc'[w] \in {"idle", "guard"}
  BY DEF Resume, TypeOK

\* The step of a worker keeps its own part.
LEMMA Actor ==
    ASSUME AnswersInv, NEW w \in Workers, WorkerStep(w)
    PROVE  WorkerInv(w)'
<1> USE DEF ingest, data, tally, told, graphVars
<1> DEFINE m == Current(w)
<1>0. TypeOK /\ JobInv /\ WorkerInv(w)
  BY DEF AnswersInv
<1>1. CASE PopJob(w) \/ GuardDuplicate(w) \/ Ignore(w)
  <2>1. pc'[w] \in {"idle", "guard"}
    BY <1>0, <1>1, ResumeLeaves DEF PopJob, GuardDuplicate, Ignore
  <2>2. UNCHANGED <<call, attempt, copies>> /\ pc[w] \notin {"tell", "owner"}
    BY <1>1 DEF PopJob, GuardDuplicate, Ignore
  <2> QED
    BY <2>1, <2>2, NoCall, BetweenMessages
<1>2. CASE GuardNew(w)
  <2>1. m \in Messages /\ m \notin keys /\ pc'[w] = "act" /\ Current(w)' = m
    BY <1>0, <1>2, CurrentType DEF GuardNew, TypeOK, Current
  <2>2. call[w] = "idle" /\ attempt[w] = 0 /\ copies[w] = 0
    BY <1>2, NoCall DEF GuardNew
  <2>3. UNCHANGED <<call, attempt, copies, verdict, heard, resent>> /\ taken'[m] = taken[m] + 1
    BY <1>0, <1>2, <2>1 DEF GuardNew, TypeOK
  <2>4. verdict[m] = "none"
    BY <2>1 DEF AnswersInv, FocusInv
  <2>5. heard[m] <= taken[m] + resent[m]
    BY <2>1 DEF AnswersInv, CopiesHaveCause
  <2>6. heard[m] \in Nat /\ taken[m] \in Nat /\ resent[m] \in Nat
    BY <1>0, <2>1 DEF TypeOK
  <2>7. TellInv(w)' /\ CallInv(w)'
    BY <2>1, <2>2, <2>3, <2>4 DEF TellInv, CallInv
  <2>8. CountInv(w)'
    BY <2>1, <2>2, <2>3, <2>5, <2>6 DEF CountInv
  <2> QED
    BY <2>7, <2>8 DEF WorkerInv
<1>3. CASE Claim(w) \/ OptOut(w)
  <2>1. m \in Messages /\ pc[w] = "act" /\ pc'[w] = "tell" /\ Current(w)' = m
    BY <1>0, <1>3, CurrentType DEF Claim, OptOut, TypeOK, Current
  <2>2. attempt[w] = 0 /\ copies[w] = 0
    BY <2>1, NoCall
  <2>3. /\ call'[w] = IF HasCredentials THEN "posting" ELSE "returned"
        /\ attempt'[w] = 0 /\ copies'[w] = 0
    BY <1>0, <1>3, StartType DEF Claim, OptOut, TypeOK
  <2>4. verdict'[m] \in {"won", "lost", "removed"}
    BY <1>0, <1>3, <2>1 DEF Claim, OptOut, TypeOK
  <2>5. UNCHANGED <<heard, taken, resent>>
    BY <1>3 DEF Claim, OptOut
  <2>6. TellInv(w)' /\ CallInv(w)'
    BY <2>1, <2>3, <2>4 DEF TellInv, CallInv
  <2>7. CountInv(w)'
    BY <1>0, <2>1, <2>2, <2>3, <2>5 DEF CountInv, WorkerInv
  <2> QED
    BY <2>6, <2>7 DEF WorkerInv
<1>4. CASE Post(w)
  <2>1. Accepted(w) \/ Transient(w) \/ Rejected(w)
    BY <1>4 DEF Post
  <2>2. /\ call[w] = "posting" /\ call'[w] \in {"posting", "returned", "raised"}
        /\ attempt'[w] - attempt[w] \in {0, 1} /\ copies'[w] - copies[w] \in {0, 1}
        /\ call'[w] = "posting" => attempt'[w] = attempt[w] + 1
        /\ call'[w] = "returned" => copies'[w] = copies[w] + 1
    BY <1>0, <2>1, PostType DEF TypeOK
  <2>3. attempt[w] \in Nat /\ copies[w] \in Nat /\ attempt'[w] \in Nat /\ copies'[w] \in Nat
    BY <1>0, <2>1, PostType DEF TypeOK, GraphTypeOK
  <2>4. HasCredentials /\ copies[w] <= attempt[w]
    BY <1>0, <2>2 DEF WorkerInv, CallInv
  <2>5. pc[w] \in {"tell", "owner"} /\ pc' = pc /\ m \in Messages /\ Current(w)' = m
    BY <1>0, <1>4, <2>2, CurrentType DEF Post, JobInv, Current
  <2>6. CallInv(w)'
    BY <2>2, <2>3, <2>4 DEF CallInv
  <2>7. verdict' = verdict
    BY <1>4 DEF Post
  <2>8. TellInv(w)'
    <3>1. CASE pc[w] = "tell"
      <4>1. answer' = IF copies'[w] > copies[w] THEN [answer EXCEPT ![m] = verdict[m]] ELSE answer
        BY <1>4, <3>1 DEF Post
      <4>2. copies'[w] > 0 => answer'[m] = verdict[m]
        BY <1>0, <2>2, <2>3, <2>5, <3>1, <4>1 DEF TypeOK, WorkerInv, TellInv
      <4> QED
        BY <1>0, <2>5, <2>7, <3>1, <4>2 DEF WorkerInv, TellInv
    <3>2. CASE pc[w] = "owner"
      <4>1. /\ ownerTold' = IF copies'[w] > copies[w] THEN ownerTold \union {m} ELSE ownerTold
            /\ answer' = answer
        BY <1>4, <3>2 DEF Post
      <4>2. copies'[w] > 0 => m \in ownerTold'
        BY <1>0, <2>2, <2>3, <3>2, <4>1 DEF WorkerInv, TellInv
      <4> QED
        BY <1>0, <2>5, <2>7, <3>2, <4>1, <4>2 DEF WorkerInv, TellInv
    <3> QED
      BY <2>5, <3>1, <3>2
  <2>9. CountInv(w)'
    <3>1. CASE pc[w] = "tell"
      <4> DEFINE d == attempt'[w] - attempt[w]
      <4> DEFINE e == copies'[w] - copies[w]
      <4>1. heard' = [heard EXCEPT ![m] = @ + e] /\ resent' = [resent EXCEPT ![m] = @ + d]
        BY <1>4, <3>1 DEF Post
      <4>2. heard'[m] = heard[m] + e /\ resent'[m] = resent[m] + d /\ taken' = taken
        <5> HIDE DEF e, d
        <5> QED
          BY <1>0, <1>4, <2>5, <4>1 DEF Post, TypeOK
      <4>3. heard[m] \in Nat /\ resent[m] \in Nat /\ taken[m] \in Nat
        BY <1>0, <2>5 DEF TypeOK
      <4>4. heard[m] + 1 + attempt[w] <= taken[m] + resent[m] + copies[w]
        BY <1>0, <3>1 DEF WorkerInv, CountInv
      <4>5. heard'[m] + 1 + attempt'[w] <= taken'[m] + resent'[m] + copies'[w]
        BY <2>3, <4>2, <4>3, <4>4
      <4> QED
        BY <2>5, <4>5 DEF CountInv
    <3>2. CASE pc[w] = "owner"
      BY <2>5, <3>2 DEF CountInv
    <3> QED
      BY <2>5, <3>1, <3>2
  <2> QED
    BY <2>6, <2>8, <2>9 DEF WorkerInv
<1>5. CASE Told(w)
  <2>1. call'[w] = "idle" /\ attempt'[w] = 0 /\ copies'[w] = 0
    BY <1>0, <1>5, HangUpType DEF Told, TypeOK
  <2>2. CASE verdict[m] = "won"
    <3>1. pc[w] = "tell" /\ call[w] = "returned" /\ pc'[w] = "owner" /\ Current(w)' = m
      BY <1>0, <1>5, <2>2 DEF Told, TypeOK, Current
    <3>2. UNCHANGED <<verdict, answer>>
      BY <1>5 DEF Told
    <3>3. HasCredentials => answer[m] = "won"
      BY <1>0, <2>2, <3>1 DEF WorkerInv, CallInv, TellInv
    <3> QED
      BY <2>1, <2>2, <3>1, <3>2, <3>3 DEF WorkerInv, CallInv, TellInv, CountInv
  <2>3. CASE verdict[m] # "won"
    <3>1. pc'[w] \in {"idle", "guard"}
      BY <1>0, <1>5, <2>3, ResumeLeaves DEF Told
    <3> QED
      BY <2>1, <3>1, BetweenMessages
  <2> QED
    BY <2>2, <2>3
<1>6. CASE CallOwner(w)
  <2>1. pc[w] = "owner" /\ pc'[w] = "owner" /\ Current(w)' = m
    BY <1>6 DEF CallOwner, Current
  <2>2. /\ call'[w] = IF HasCredentials THEN "posting" ELSE "returned"
        /\ attempt'[w] = 0 /\ copies'[w] = 0
    BY <1>0, <1>6, StartType DEF CallOwner, TypeOK
  <2>3. UNCHANGED <<verdict, answer>>
    BY <1>6 DEF CallOwner
  <2> QED
    BY <1>0, <2>1, <2>2, <2>3 DEF WorkerInv, CallInv, TellInv, CountInv
<1>7. CASE OwnerDone(w)
  <2>1. call'[w] = "idle" /\ attempt'[w] = 0 /\ copies'[w] = 0
    BY <1>0, <1>7, HangUpType DEF OwnerDone, TypeOK
  <2>2. pc'[w] \in {"idle", "guard"}
    BY <1>0, <1>7, ResumeLeaves DEF OwnerDone
  <2> QED
    BY <2>1, <2>2, BetweenMessages
<1>8. CASE TellFails(w) \/ AmbiguousOptOut(w) \/ Fault(w) \/ FaultAfterCommit(w)
  <2>1. Drop(w)
    BY <1>8 DEF TellFails, AmbiguousOptOut, Fault, FaultAfterCommit
  <2>2. call'[w] = "idle" /\ attempt'[w] = 0 /\ copies'[w] = 0
    BY <1>0, <2>1, HangUpType DEF Drop, TypeOK
  <2>3. pc'[w] = "idle"
    BY <1>0, <2>1 DEF Drop, TypeOK
  <2> QED
    BY <2>2, <2>3, BetweenMessages
<1> QED
  BY <1>1, <1>2, <1>3, <1>4, <1>5, <1>6, <1>7, <1>8 DEF WorkerStep, Handle

-----------------------------------------------------------------------------
\* Only the two decisions and the clock write a verdict, and only a post tells anybody.
LEMMA WhoDecides ==
    ASSUME NEW w \in Workers, WorkerStep(w)
    PROVE  /\ Claim(w) \/ OptOut(w) \/ UNCHANGED verdict
           /\ Post(w) \/ UNCHANGED <<answer, ownerTold, heard, resent>>
<1> USE DEF ingest, data, tally, told, graphVars
<1>1. CASE PopJob(w) \/ GuardDuplicate(w) \/ GuardNew(w) \/ Ignore(w) \/ Claim(w) \/ OptOut(w)
  BY <1>1 DEF PopJob, GuardDuplicate, GuardNew, Ignore, Claim, OptOut
<1>2. CASE Post(w) \/ Told(w) \/ CallOwner(w) \/ OwnerDone(w)
  BY <1>2 DEF Post, Told, CallOwner, OwnerDone
<1>3. CASE TellFails(w) \/ AmbiguousOptOut(w) \/ Fault(w) \/ FaultAfterCommit(w)
  BY <1>3 DEF TellFails, AmbiguousOptOut, Fault, FaultAfterCommit
<1> QED
  BY <1>1, <1>2, <1>3 DEF WorkerStep, Handle

\* What was true stays true: bookings are not taken back, and who left a waitlist is gone.
LEMMA TruthStays ==
    ASSUME NEW m, NEW said, Truth(m, said), claimedBy \subseteq claimedBy', waiting' \subseteq waiting
    PROVE  Truth(m, said)'
  BY DEF Truth

\* The news stays true, and only what was decided is told.
LEMMA NewsStep ==
    ASSUME AnswersInv, NEW w \in Workers, WorkerStep(w)
    PROVE  NewsInv'
<1> USE DEF ingest, data, tally, told, graphVars
<1>0. TypeOK /\ JobInv /\ NewsInv /\ WorkerInv(w)
  BY DEF AnswersInv
<1>1. claimedBy \subseteq claimedBy' /\ waiting' \subseteq waiting
  BY <1>0, StepOfOne
<1>2. ASSUME NEW m \in Messages
      PROVE  Truth(m, verdict[m])' /\ Truth(m, answer[m])' /\ (m \in ownerTold' => answer'[m] # "none")
  <2>0. Truth(m, verdict[m]) /\ Truth(m, answer[m]) /\ (m \in ownerTold => answer[m] # "none")
    BY <1>0 DEF NewsInv
  <2>1. CASE UNCHANGED <<verdict, answer, ownerTold>>
    BY <1>1, <2>0, <2>1, TruthStays DEF Truth
  <2>2. CASE m # Current(w)
    <3>1. verdict'[m] = verdict[m] /\ answer'[m] = answer[m] /\ (m \in ownerTold' <=> m \in ownerTold)
      BY <1>0, <2>2, StepOfOne
    <3> QED
      BY <1>1, <2>0, <3>1 DEF Truth
  <2>3. CASE m = Current(w) /\ Claim(w)
    <3>1. answer' = answer /\ ownerTold' = ownerTold /\ m \in Claims
      BY <2>3 DEF Claim
    <3>2. \/ verdict'[m] = "won" /\ Claimant[m] \in claimedBy'
          \/ verdict'[m] = "lost"
      BY <1>0, <2>3 DEF Claim, TypeOK
    <3> QED
      BY <1>1, <2>0, <3>1, <3>2 DEF Truth
  <2>4. CASE m = Current(w) /\ OptOut(w)
    <3>1. answer' = answer /\ ownerTold' = ownerTold /\ m \in OptOuts
      BY <2>4 DEF OptOut
    <3>2. verdict'[m] = "removed" /\ Targets[m] \intersect waiting' = {}
      BY <1>0, <2>4 DEF OptOut, TypeOK
    <3> QED
      BY <1>1, <2>0, <3>1, <3>2 DEF Truth
  <2>5. CASE m = Current(w) /\ Post(w)
    <3>1. verdict' = verdict /\ UNCHANGED <<claimedBy, waiting>>
      BY <2>5 DEF Post
    <3>2. Accepted(w) \/ Transient(w) \/ Rejected(w)
      BY <2>5 DEF Post
    <3>3. call[w] = "posting"
      BY <1>0, <3>2, PostType DEF TypeOK
    <3>4. pc[w] \in {"tell", "owner"} /\ HasCredentials
      BY <1>0, <3>3 DEF JobInv, WorkerInv, CallInv
    <3>5. CASE pc[w] = "tell"
      <4>1. verdict[m] # "none"
        BY <1>0, <2>5, <3>5 DEF WorkerInv, TellInv
      <4>2. answer'[m] \in {answer[m], verdict[m]} /\ ownerTold' = ownerTold
        BY <1>0, <2>5, <3>5 DEF Post, TypeOK
      <4> QED
        BY <2>0, <3>1, <4>1, <4>2 DEF Truth
    <3>6. CASE pc[w] = "owner"
      <4>1. answer[m] = "won"
        BY <1>0, <2>5, <3>4, <3>6 DEF WorkerInv, TellInv
      <4>2. answer' = answer
        BY <2>5, <3>6 DEF Post
      <4> QED
        BY <2>0, <3>1, <4>1, <4>2 DEF Truth
    <3> QED
      BY <3>4, <3>5, <3>6
  <2> QED
    BY <2>1, <2>2, <2>3, <2>4, <2>5, WhoDecides
<1> QED
  BY <1>2 DEF NewsInv

\* A copy that reaches the sender was due.
LEMMA CopiesStep ==
    ASSUME AnswersInv, NEW w \in Workers, WorkerStep(w), WorkerInv(w)', TypeOK'
    PROVE  CopiesHaveCause'
<1>0. TypeOK /\ JobInv /\ CopiesHaveCause /\ WorkerInv(w)
  BY DEF AnswersInv
<1>1. ASSUME NEW m \in Messages PROVE heard'[m] <= taken'[m] + resent'[m]
  <2>0. heard[m] <= taken[m] + resent[m]
    BY <1>0 DEF CopiesHaveCause
  <2>1. CASE m # Current(w)
    BY <1>0, <2>0, <2>1, StepOfOne
  <2>2. CASE m = Current(w) /\ Post(w)
    <3>1. pc' = pc /\ job' = job /\ taken' = taken
      BY <2>2 DEF Post, tally
    <3>2. Accepted(w) \/ Transient(w) \/ Rejected(w)
      BY <2>2 DEF Post
    <3>3. call[w] = "posting"
      BY <1>0, <3>2, PostType DEF TypeOK
    <3>4. pc[w] \in {"tell", "owner"}
      BY <1>0, <3>3 DEF JobInv
    <3>5. CASE pc[w] = "tell"
      <4>1. heard'[m] + 1 + attempt'[w] <= taken'[m] + resent'[m] + copies'[w]
        BY <2>2, <3>1, <3>5 DEF WorkerInv, CountInv, Current
      <4>2. copies'[w] <= attempt'[w] + 1
        BY DEF WorkerInv, CallInv
      <4>3. /\ heard'[m] \in Nat /\ taken'[m] \in Nat /\ resent'[m] \in Nat
            /\ attempt'[w] \in Nat /\ copies'[w] \in Nat
        BY DEF TypeOK, GraphTypeOK
      <4> QED
        BY <4>1, <4>2, <4>3
    <3>6. CASE pc[w] = "owner"
      <4>1. heard' = heard /\ resent' = [resent EXCEPT ![m] = @ + (attempt'[w] - attempt[w])]
        BY <2>2, <3>6 DEF Post
      <4>2. attempt'[w] - attempt[w] \in {0, 1}
        BY <1>0, <3>2, PostType DEF TypeOK
      <4>3. resent'[m] = resent[m] + (attempt'[w] - attempt[w])
        BY <1>0, <4>1 DEF TypeOK
      <4>4. heard[m] \in Nat /\ taken[m] \in Nat /\ resent[m] \in Nat
        BY <1>0 DEF TypeOK
      <4> QED
        BY <2>0, <3>1, <4>1, <4>2, <4>3, <4>4
    <3> QED
      BY <3>4, <3>5, <3>6
  <2>3. CASE m = Current(w) /\ ~Post(w)
    <3>1. UNCHANGED <<heard, resent>>
      BY <2>3, WhoDecides
    <3>2. taken'[m] \in {taken[m], taken[m] + 1}
      <4>1. CASE GuardNew(w)
        BY <1>0, <4>1 DEF GuardNew, TypeOK
      <4>2. CASE ~GuardNew(w)
        <5>1. taken' = taken \/ \E v \in Workers : GuardNew(v)
          BY QueueStays DEF Next, WorkerStep
        <5>2. ASSUME NEW v \in Workers, GuardNew(v), v # w PROVE FALSE
          <6>1. pc'[v] = "act" /\ pc[v] = "guard"
            BY <1>0, <5>2 DEF GuardNew, TypeOK
          <6>2. pc'[v] = pc[v]
            BY <1>0, <5>2, StepOfOne
          <6> QED
            BY <6>1, <6>2
        <5> QED
          BY <4>2, <5>1, <5>2
      <4> QED
        BY <4>1, <4>2
    <3>3. heard[m] \in Nat /\ taken[m] \in Nat /\ resent[m] \in Nat
      BY <1>0 DEF TypeOK
    <3> QED
      BY <2>0, <3>1, <3>2, <3>3
  <2> QED
    BY <2>1, <2>2, <2>3
<1> QED
  BY <1>1 DEF CopiesHaveCause

-----------------------------------------------------------------------------
\* What the sender and the owner must know once nobody handles message m any more.
Settled(m) ==
    /\ m \in Claims => answer[m] \in {"won", "lost"}
    /\ answer[m] = "won" => m \in ownerTold
    /\ m \in OptOuts => answer[m] = "removed"

\* A worker that leaves its message has settled it, or is to blame.
LEMMA LeavesSettled ==
    ASSUME AnswersInv, HasCredentials, NEW w \in Workers, WorkerStep(w), pc[w] \in Active,
           NEW m, m = Current(w), ~(pc'[w] \in Active /\ Current(w)' = m), m \notin blamed'
    PROVE  Settled(m)'
<1> USE DEF ingest, data, tally, told, graphVars
<1>0. TypeOK /\ JobInv /\ NewsInv /\ WorkerInv(w) /\ pc[w] # "idle"
  BY DEF AnswersInv, Active
<1>1. m \in Messages /\ m \in Range(job[w])
  BY <1>0, CurrentType
<1>2. Truth(m, verdict[m]) /\ Truth(m, answer[m])
  BY <1>0, <1>1 DEF NewsInv
<1>3. Claims \intersect OptOuts = {}
  BY ActionTypes
<1>4. ASSUME pc'[w] = pc[w] \/ pc'[w] \in Active, job' = job PROVE FALSE
  BY <1>4 DEF Current
<1>5. CASE PopJob(w) \/ GuardDuplicate(w) \/ GuardNew(w)
  BY <1>5 DEF PopJob, GuardDuplicate, GuardNew, Active
<1>6. CASE Ignore(w)
  BY <1>2, <1>6 DEF Ignore, Truth, Settled
<1>7. CASE Claim(w) \/ OptOut(w)
  BY <1>0, <1>4, <1>7 DEF Claim, OptOut, TypeOK, Active
<1>8. CASE Post(w) \/ CallOwner(w)
  BY <1>4, <1>8 DEF Post, CallOwner
<1>9. CASE Told(w)
  <2>1. verdict[m] # "won"
    BY <1>0, <1>4, <1>9 DEF Told, TypeOK, Active
  <2>2. pc[w] = "tell" /\ call[w] = "returned"
    BY <1>9 DEF Told
  <2>3. verdict[m] # "none" /\ answer[m] = verdict[m]
    BY <1>0, <2>2 DEF WorkerInv, CallInv, TellInv
  <2>4. verdict[m] \in {"lost", "removed"}
    BY <1>0, <1>1, <2>1, <2>3 DEF TypeOK
  <2>5. m \in Claims => verdict[m] = "lost"
    BY <1>2, <1>3, <2>4 DEF Truth
  <2>6. m \in OptOuts => verdict[m] = "removed"
    BY <1>2, <1>3, <2>4 DEF Truth
  <2>7. answer' = answer
    BY <1>9 DEF Told
  <2> QED
    BY <2>1, <2>3, <2>5, <2>6, <2>7 DEF Settled
<1>10. CASE OwnerDone(w)
  <2>1. call[w] = "returned"
    BY <1>10 DEF OwnerDone
  <2>2. verdict[m] = "won" /\ answer[m] = "won" /\ m \in ownerTold
    BY <1>0, <1>10, <2>1 DEF OwnerDone, WorkerInv, CallInv, TellInv
  <2>3. m \notin OptOuts
    BY <1>2, <1>3, <2>2 DEF Truth
  <2>4. answer' = answer /\ ownerTold' = ownerTold
    BY <1>10 DEF OwnerDone
  <2> QED
    BY <2>2, <2>3, <2>4 DEF Settled
<1>11. CASE TellFails(w) \/ AmbiguousOptOut(w) \/ Fault(w) \/ FaultAfterCommit(w)
  BY <1>1, <1>11 DEF TellFails, AmbiguousOptOut, Fault, FaultAfterCommit, Drop
<1> QED
  BY <1>5, <1>6, <1>7, <1>8, <1>9, <1>10, <1>11 DEF WorkerStep, Handle

\* Nobody else can count a message as acted upon.
LEMMA WhoTakes ==
    ASSUME TypeOK, JobInv, NEW w \in Workers, WorkerStep(w), ~GuardNew(w)
    PROVE  taken' = taken
<1>1. taken' = taken \/ \E v \in Workers : GuardNew(v)
  BY QueueStays DEF Next, WorkerStep
<1>2. ASSUME NEW v \in Workers, GuardNew(v), v # w PROVE FALSE
  <2>1. pc'[v] = "act" /\ pc[v] = "guard"
    BY <1>2 DEF GuardNew, TypeOK
  <2>2. pc'[v] = pc[v]
    BY <1>2, StepOfOne
  <2> QED
    BY <2>1, <2>2
<1> QED
  BY <1>1, <1>2

\* Silence keeps having a cause.
LEMMA SilenceStep ==
    ASSUME AnswersInv, NEW w \in Workers, WorkerStep(w)
    PROVE  SilenceHasCause'
<1> USE DEF ingest, data, tally, told, graphVars
<1>0. TypeOK /\ JobInv /\ SilenceHasCause
  BY DEF AnswersInv
<1>1. ASSUME NEW m \in Messages, HasCredentials, taken'[m] > 0, ~Handled(m)', m \notin blamed'
      PROVE  Settled(m)'
  <2>1. blamed \subseteq blamed'
    BY <1>0, StepOfOne
  <2>2. ~GuardNew(w) \/ m # Current(w)
    <3>1. ASSUME GuardNew(w), m = Current(w) PROVE FALSE
      <4>1. pc'[w] = "act" /\ Current(w)' = m
        BY <1>0, <3>1 DEF GuardNew, TypeOK, Current
      <4> QED
        BY <1>1, <4>1 DEF Handled, Active
    <3> QED
      BY <3>1
  <2>3. taken'[m] = taken[m]
    BY <1>0, <2>2, StepOfOne, WhoTakes
  <2>4. CASE Handled(m)
    <3>1. PICK v \in Workers : pc[v] \in Active /\ Current(v) = m
      BY <2>4 DEF Handled
    <3>2. ~(pc'[v] \in Active /\ Current(v)' = m)
      BY <1>1 DEF Handled
    <3>3. v = w
      BY <1>0, <3>1, <3>2, StepOfOne DEF Current
    <3> QED
      BY <1>1, <3>1, <3>2, <3>3, LeavesSettled
  <2>5. CASE ~Handled(m)
    <3>1. Settled(m)
      BY <1>0, <1>1, <2>1, <2>3, <2>5 DEF SilenceHasCause, Settled
    <3>2. answer'[m] = answer[m] /\ (m \in ownerTold => m \in ownerTold')
      <4>1. CASE m # Current(w)
        BY <1>0, <4>1, StepOfOne
      <4>2. CASE m = Current(w)
        <5>1. ~Post(w)
          <6>1. ASSUME Post(w) PROVE FALSE
            <7>1. call[w] # "idle"
              BY <6>1 DEF Post, Accepted, Transient, Rejected
            <7> QED
              BY <1>0, <2>5, <4>2, <7>1 DEF JobInv, Handled, Active
          <6> QED
            BY <6>1
        <5> QED
          BY <5>1, WhoDecides
      <4> QED
        BY <4>1, <4>2
    <3> QED
      BY <3>1, <3>2 DEF Settled
  <2> QED
    BY <2>4, <2>5
<1> QED
  BY <1>1 DEF SilenceHasCause, Settled, Handled, Current

\* Two workers never act for one message.
LEMMA FocusStep ==
    ASSUME AnswersInv, NEW w \in Workers, WorkerStep(w)
    PROVE  FocusInv'
<1>0. TypeOK /\ JobInv /\ KeyInv /\ FocusInv /\ Next
  BY DEF AnswersInv, Next, WorkerStep
<1>1. ASSUME NEW u \in Workers, NEW v \in Workers, u # v,
             pc'[u] \in Active, pc'[v] \in Active, Current(u)' = Current(v)'
      PROVE  FALSE
  <2>1. /\ pc[u] \in Active \/ GuardNew(u)
        /\ pc[v] \in Active \/ GuardNew(v)
        /\ Current(u) = Current(v)
    BY <1>0, <1>1, FocusStays DEF Current
  <2>2. ~(pc[u] \in Active /\ pc[v] \in Active)
    BY <1>0, <1>1, <2>1 DEF FocusInv
  <2>3. ~(GuardNew(u) /\ pc[v] \in Active) /\ ~(GuardNew(v) /\ pc[u] \in Active)
    BY <1>0, <2>1 DEF KeyInv, GuardNew
  <2>4. ~(GuardNew(u) /\ GuardNew(v))
    BY <1>0, <1>1 DEF GuardNew, TypeOK
  <2> QED
    BY <2>1, <2>2, <2>3, <2>4
<1>2. ASSUME NEW m \in Messages, m \notin keys' PROVE verdict'[m] = "none"
  <2>1. m \notin keys
    BY <1>0, <1>2, StepOfOne
  <2>2. verdict[m] = "none"
    BY <1>0, <2>1 DEF FocusInv
  <2>3. CASE UNCHANGED verdict
    BY <2>2, <2>3
  <2>4. CASE Claim(w) \/ OptOut(w)
    <3>1. Current(w) \in keys
      BY <1>0, <2>4 DEF KeyInv, Claim, OptOut, Active
    <3>2. m # Current(w)
      BY <2>1, <3>1
    <3> QED
      BY <1>0, <2>2, <3>2, StepOfOne
  <2> QED
    BY <2>3, <2>4, WhoDecides
<1> QED
  BY <1>1, <1>2 DEF FocusInv

-----------------------------------------------------------------------------
\* Posts of payloads, other writers of the slot and idle steps concern none of this.
LEMMA Unconcerned ==
    ASSUME AnswersInv, NewsInv => NewsInv',
           UNCHANGED <<graphVars, keys, job, pc, verdict, answer, ownerTold, heard, resent,
                       taken, blamed>>
    PROVE  /\ FocusInv' /\ NewsInv' /\ CopiesHaveCause' /\ SilenceHasCause'
           /\ \A v \in Workers : WorkerInv(v)'
<1>1. FocusInv'
  BY DEF AnswersInv, FocusInv, Current
<1>2. CopiesHaveCause'
  BY DEF AnswersInv, CopiesHaveCause
<1>3. SilenceHasCause'
  BY DEF AnswersInv, SilenceHasCause, Handled, Current
<1>4. ASSUME NEW v \in Workers PROVE WorkerInv(v)'
  BY DEF AnswersInv, WorkerInv, CallInv, TellInv, CountInv, Current, graphVars
<1> QED
  BY <1>1, <1>2, <1>3, <1>4 DEF AnswersInv

\* When a dedup key runs out, nobody is at its message, and the decision is forgotten.
LEMMA Forgetting ==
    ASSUME AnswersInv, NEW n \in Messages, KeyExpires(n)
    PROVE  /\ FocusInv' /\ NewsInv' /\ CopiesHaveCause' /\ SilenceHasCause'
           /\ \A v \in Workers : WorkerInv(v)'
<1> USE DEF graphVars, data
<1>1. /\ UNCHANGED <<call, attempt, copies, job, pc, claimedBy, waiting, answer, ownerTold, heard,
                     resent, taken, blamed>>
      /\ keys' = keys \ {n} /\ verdict' = [verdict EXCEPT ![n] = "none"]
      /\ \A w \in Workers : pc[w] \in Active => Current(w) # n
  BY DEF KeyExpires
<1>2. verdict'[n] = "none" /\ \A m \in Messages : m # n => verdict'[m] = verdict[m]
  BY <1>1 DEF AnswersInv, TypeOK
<1>3. FocusInv'
  BY <1>1, <1>2 DEF AnswersInv, FocusInv, Current
<1>4. NewsInv'
  <2>1. ASSUME NEW m \in Messages
        PROVE  Truth(m, verdict[m])' /\ Truth(m, answer[m])' /\ (m \in ownerTold' => answer'[m] # "none")
    <3>1. Truth(m, verdict[m]) /\ Truth(m, answer[m]) /\ (m \in ownerTold => answer[m] # "none")
      BY DEF AnswersInv, NewsInv
    <3> QED
      BY <1>1, <1>2, <3>1 DEF Truth
  <2> QED
    BY <2>1 DEF NewsInv
<1>5. CopiesHaveCause' /\ SilenceHasCause'
  BY <1>1 DEF AnswersInv, CopiesHaveCause, SilenceHasCause, Handled, Current
<1>6. ASSUME NEW v \in Workers PROVE WorkerInv(v)'
  <2>1. WorkerInv(v) /\ Current(v)' = Current(v)
    BY <1>1 DEF AnswersInv, Current
  <2>2. CallInv(v)'
    BY <1>1, <2>1 DEF WorkerInv, CallInv
  <2>3. pc[v] \in Active => verdict'[Current(v)] = verdict[Current(v)]
    BY <1>1, <1>2, CurrentType DEF AnswersInv, Active
  <2>4. TellInv(v)' /\ CountInv(v)'
    BY <1>1, <2>1, <2>3 DEF WorkerInv, TellInv, CountInv, Active
  <2> QED
    BY <2>2, <2>4 DEF WorkerInv
<1> QED
  BY <1>3, <1>4, <1>5, <1>6

LEMMA AnswersInvStep == AnswersInv /\ [Next]_vars => AnswersInv'
<1> SUFFICES ASSUME AnswersInv, [Next]_vars PROVE AnswersInv'
  OBVIOUS
<1> USE DEF ingest, data, tally, told
<1>0. TypeOK' /\ JobInv' /\ KeyInv'
  BY TypeStep, KeyStep DEF AnswersInv
<1>1. ASSUME NEW w \in Workers, WorkerStep(w) PROVE AnswersInv'
  <2>1. \A v \in Workers : WorkerInv(v)'
    BY <1>1, Actor, Bystander
  <2>2. FocusInv' /\ NewsInv' /\ SilenceHasCause'
    BY <1>1, FocusStep, NewsStep, SilenceStep
  <2>3. CopiesHaveCause'
    BY <1>0, <1>1, <2>1, CopiesStep
  <2> QED
    BY <1>0, <2>1, <2>2, <2>3 DEF AnswersInv
<1>2. ASSUME NEW m \in Messages, KeyExpires(m) PROVE AnswersInv'
  BY <1>0, <1>2, Forgetting DEF AnswersInv
<1>3. ASSUME NEW p \in Payloads, Receive(p) \/ EnqueueFails(p) PROVE AnswersInv'
  <2>1. UNCHANGED <<graphVars, keys, job, pc, data, told, tally, blamed>>
    BY <1>3 DEF Receive, EnqueueFails
  <2>2. NewsInv => NewsInv'
    BY <2>1 DEF NewsInv, Truth
  <2> QED
    BY <1>0, <2>1, <2>2, Unconcerned DEF AnswersInv
<1>4. CASE OtherWriter
  <2>1. UNCHANGED <<graphVars, keys, job, pc, claimedBy, waiting, told, tally, blamed>>
    BY <1>4 DEF OtherWriter
  <2>2. NewsInv => NewsInv'
    BY <2>1 DEF NewsInv, Truth
  <2> QED
    BY <1>0, <2>1, <2>2, Unconcerned DEF AnswersInv
<1>5. CASE UNCHANGED vars
  <2>1. UNCHANGED <<graphVars, keys, job, pc, data, told, tally, blamed>>
    BY <1>5 DEF vars
  <2>2. NewsInv => NewsInv'
    BY <2>1 DEF NewsInv, Truth
  <2> QED
    BY <1>0, <2>1, <2>2, Unconcerned DEF AnswersInv
<1> QED
  BY <1>1, <1>2, <1>3, <1>4, <1>5 DEF Next, WorkerStep

LEMMA AnswersInvInit == Init => AnswersInv
<1> SUFFICES ASSUME Init PROVE AnswersInv
  OBVIOUS
<1>1. TypeOK /\ JobInv /\ KeyInv
  BY TypeInit, KeyInit
<1>2. FocusInv /\ CopiesHaveCause /\ SilenceHasCause
  BY DEF Init, FocusInv, CopiesHaveCause, SilenceHasCause, Active
<1>3. NewsInv
  BY DEF Init, NewsInv, Truth
<1>4. ASSUME NEW w \in Workers PROVE WorkerInv(w)
  BY DEF Init, GraphInit, WorkerInv, CallInv, TellInv, CountInv
<1> QED
  BY <1>1, <1>2, <1>3, <1>4 DEF AnswersInv

\* The inductive invariant holds throughout.
THEOREM AnswersInvariant == Spec => []AnswersInv
  BY AnswersInvInit, AnswersInvStep, PTL DEF Spec

\* The sender never gets more copies of an answer than the message had turns and the
\* call retried posts: every duplicate was caused by a lost answer of Meta.
THEOREM DuplicatesExplained == Spec => []CopiesHaveCause
<1>1. AnswersInv => CopiesHaveCause
  BY DEF AnswersInv
<1> QED
  BY <1>1, AnswersInvariant, PTL

\* One call of the client leaves a customer with at most MaxRetries + 1 copies of its text,
\* whatever Meta's answers to the posts were.  (_post_with_retry.)
THEOREM CopiesBounded == Spec => [](\A w \in Workers : copies[w] <= MaxRetries + 1)
<1>1. ASSUME AnswersInv, NEW w \in Workers PROVE copies[w] <= MaxRetries + 1
  <2>1. copies[w] \in Nat /\ attempt[w] \in 0 .. MaxRetries /\ MaxRetries \in Nat
    BY <1>1 DEF AnswersInv, TypeOK, GraphTypeOK
  <2>2. copies[w] <= attempt[w] + 1
    BY <1>1 DEF AnswersInv, WorkerInv, CallInv
  <2> QED
    BY <2>1, <2>2
<1>2. AnswersInv => \A w \in Workers : copies[w] <= MaxRetries + 1
  BY <1>1
<1> QED
  BY <1>2, AnswersInvariant, PTL

\* A click that was marked as seen and is handled by nobody any more was answered, its owner
\* alerted, or a fault or an exception of its job is to blame.
THEOREM SilenceExplained == Spec => []SilenceHasCause
<1>1. AnswersInv => SilenceHasCause
  BY DEF AnswersInv
<1> QED
  BY <1>1, AnswersInvariant, PTL

\* Whoever is told of a booking has booked, whoever is told of a removal is on no waitlist,
\* and the owner is told of nobody who was told nothing.
THEOREM NewsIsTrue == Spec => []GoodNewsIsTrue
<1>1. AnswersInv => GoodNewsIsTrue
  BY DEF AnswersInv, NewsInv, Truth, GoodNewsIsTrue
<1> QED
  BY <1>1, AnswersInvariant, PTL

-----------------------------------------------------------------------------
\* A step of a worker decides, tells, or changes nothing the contract shows.
LEMMA WorkerKeepsContract ==
    ASSUME AnswersInv, NEW w \in Workers, WorkerStep(w)
    PROVE  [Contract!ContractNext]_(Contract!contractVars)
<1> USE DEF ingest, data, tally, told, graphVars
<1> DEFINE m == Current(w)
<1>0. TypeOK /\ JobInv /\ WorkerInv(w)
  BY DEF AnswersInv
<1>1. CASE Claim(w) \/ OptOut(w)
  <2>1. m \in Messages /\ verdict[m] = "none"
    BY <1>0, <1>1, CurrentType DEF Claim, OptOut, WorkerInv, TellInv
  <2>2. UNCHANGED <<answer, ownerTold>>
    BY <1>1 DEF Claim, OptOut
  <2>3. \E v \in Contract!Verdicts : verdict' = [verdict EXCEPT ![m] = v]
    BY <1>1 DEF Claim, OptOut, Contract!Verdicts
  <2>4. Contract!Decide(m)
    BY <2>1, <2>2, <2>3 DEF Contract!Decide
  <2> QED
    BY <2>1, <2>4 DEF Contract!ContractNext
<1>2. CASE Post(w)
  <2>1. Accepted(w) \/ Transient(w) \/ Rejected(w)
    BY <1>2 DEF Post
  <2>2. call[w] = "posting"
    BY <1>0, <2>1, PostType DEF TypeOK
  <2>3. pc[w] \in {"tell", "owner"} /\ HasCredentials /\ m \in Messages
    BY <1>0, <2>2, CurrentType DEF JobInv, WorkerInv, CallInv
  <2>4. verdict' = verdict
    BY <1>2 DEF Post
  <2>5. CASE pc[w] = "tell"
    <3>1. verdict[m] # "none" /\ ownerTold' = ownerTold
      BY <1>0, <1>2, <2>5 DEF Post, WorkerInv, TellInv
    <3>2. answer' = answer \/ answer' = [answer EXCEPT ![m] = verdict[m]]
      BY <1>2, <2>5 DEF Post
    <3>3. CASE answer' = answer
      BY <2>4, <3>1, <3>3 DEF Contract!contractVars
    <3>4. CASE answer' = [answer EXCEPT ![m] = verdict[m]]
      BY <2>3, <2>4, <3>1, <3>4 DEF Contract!TellSender, Contract!ContractNext
    <3> QED
      BY <3>2, <3>3, <3>4
  <2>6. CASE pc[w] = "owner"
    <3>1. verdict[m] = "won" /\ answer[m] = "won" /\ answer' = answer
      BY <1>0, <1>2, <2>3, <2>6 DEF Post, WorkerInv, TellInv
    <3>2. ownerTold' = ownerTold \/ ownerTold' = ownerTold \union {m}
      BY <1>2, <2>6 DEF Post
    <3>3. CASE ownerTold' = ownerTold
      BY <2>4, <3>1, <3>3 DEF Contract!contractVars
    <3>4. CASE ownerTold' = ownerTold \union {m}
      BY <2>3, <2>4, <3>1, <3>4 DEF Contract!TellOwner, Contract!ContractNext
    <3> QED
      BY <3>2, <3>3, <3>4
  <2> QED
    BY <2>3, <2>5, <2>6
<1>3. CASE ~(Claim(w) \/ OptOut(w) \/ Post(w))
  BY <1>3, WhoDecides DEF Contract!contractVars
<1> QED
  BY <1>1, <1>2, <1>3

LEMMA ContractStep ==
    AnswersInv /\ [Next]_vars => [Contract!ContractNext]_(Contract!contractVars)
<1> SUFFICES ASSUME AnswersInv, [Next]_vars
             PROVE  [Contract!ContractNext]_(Contract!contractVars)
  OBVIOUS
<1>1. ASSUME NEW w \in Workers, WorkerStep(w)
      PROVE  [Contract!ContractNext]_(Contract!contractVars)
  BY <1>1, WorkerKeepsContract
<1>2. ASSUME NEW m \in Messages, KeyExpires(m)
      PROVE  [Contract!ContractNext]_(Contract!contractVars)
  <2>1. Contract!Forget(m)
    BY <1>2 DEF KeyExpires, Contract!Forget
  <2> QED
    BY <2>1 DEF Contract!ContractNext
<1>3. CASE (\E p \in Payloads : Receive(p) \/ EnqueueFails(p)) \/ OtherWriter \/ UNCHANGED vars
  BY <1>3 DEF Receive, EnqueueFails, OtherWriter, vars, told, Contract!contractVars
<1> QED
  BY <1>1, <1>2, <1>3 DEF Next, WorkerStep

\* The webhook keeps the promise of ClickContract: each message is decided once while it is
\* remembered, sender and owner hear that decision only, the owner after the winner.
THEOREM ContractKept == Spec => ImplementsContract
<1>1. Init => Contract!ContractInit
  BY DEF Init, Contract!ContractInit
<1> QED
  BY <1>1, AnswersInvariant, ContractStep, PTL DEF Spec, ImplementsContract, Contract!ContractSpec
=============================================================================
