----------------------- MODULE WebhookPipeline_proofs -----------------------
(***************************************************************************)
(* WebhookPipeline: the types, that each message is acted upon once for    *)
(* each life of its dedup key, and that only signed payloads have an       *)
(* effect, for any number of payloads, messages, workers, retries and      *)
(* faults.                                                                 *)
(***************************************************************************)
EXTENDS WebhookPipeline, SequenceTheorems, TLAPS

USE GraphAssumption DEF Workers

\* A worker is idle exactly when its job is done, and calls only to tell somebody.
JobInv ==
    \A w \in Workers :
        /\ pc[w] = "idle" <=> job[w] = <<>>
        /\ call[w] # "idle" => pc[w] \in {"tell", "owner"}

\* The current message of a job under way.
LEMMA CurrentType ==
    ASSUME TypeOK, JobInv, NEW w \in Workers, pc[w] # "idle"
    PROVE  /\ Current(w) \in Messages
           /\ Tail(job[w]) \in Seq(Messages)
           /\ Range(job[w]) \subseteq Messages
           /\ Current(w) \in Range(job[w])
           /\ Range(Tail(job[w])) \subseteq Range(job[w])
<1>1. job[w] \in Seq(Messages) /\ job[w] # <<>>
  BY DEF TypeOK, JobInv
<1>2. Current(w) \in Messages /\ Tail(job[w]) \in Seq(Messages)
  BY <1>1, HeadTailProperties DEF Current
<1>3. \A i \in 1 .. Len(job[w]) : job[w][i] \in Messages
  BY <1>1, ElementOfSeq
<1>4. DOMAIN job[w] = 1 .. Len(job[w]) /\ Len(job[w]) \in Nat /\ Len(job[w]) > 0
  BY <1>1, LenProperties, EmptySeq
<1>5. Current(w) = job[w][1]
  BY <1>1 DEF Current
<1>6. /\ Len(Tail(job[w])) = Len(job[w]) - 1
      /\ \A i \in 1 .. Len(Tail(job[w])) : Tail(job[w])[i] = job[w][i + 1]
      /\ DOMAIN Tail(job[w]) = 1 .. Len(Tail(job[w]))
  BY <1>1, <1>2, HeadTailProperties, LenProperties
<1>7. Range(Tail(job[w])) \subseteq Range(job[w])
  BY <1>4, <1>6 DEF Range
<1>8. Range(job[w]) \subseteq Messages
  BY <1>3, <1>4 DEF Range
<1>9. Current(w) \in Range(job[w])
  <2>1. 1 \in DOMAIN job[w]
    BY <1>4
  <2> QED
    BY <1>5, <2>1 DEF Range
<1> QED
  BY <1>2, <1>7, <1>8, <1>9

\* Going on to the rest of the job.
LEMMA ResumeType ==
    ASSUME TypeOK, JobInv, NEW w \in Workers, NEW rest \in Seq(Messages), Resume(w, rest),
           \A v \in Workers : call'[v] = IF v = w THEN "idle" ELSE call[v]
    PROVE  /\ job' \in [Workers -> Seq(Messages)]
           /\ pc' \in [Workers -> {"idle", "guard"} \union Active]
           /\ JobInv'
  BY DEF TypeOK, JobInv, Resume, Active

\* One attempt of a call: it goes on, returns or raises.
LEMMA PostType ==
    ASSUME GraphTypeOK, NEW w \in Workers, Accepted(w) \/ Transient(w) \/ Rejected(w)
    PROVE  /\ GraphTypeOK'
           /\ call[w] = "posting" /\ call'[w] \in {"posting", "returned", "raised"}
           /\ attempt'[w] - attempt[w] \in {0, 1}
           /\ copies'[w] - copies[w] \in {0, 1}
           /\ call'[w] = "posting" => attempt'[w] = attempt[w] + 1
           /\ call'[w] = "returned" => copies'[w] = copies[w] + 1
           /\ \A v \in Workers : v # w => /\ call'[v] = call[v]
                                          /\ attempt'[v] = attempt[v]
                                          /\ copies'[v] = copies[v]
<1>0. attempt[w] \in 0 .. MaxRetries /\ copies[w] \in Nat
  BY DEF GraphTypeOK
<1>1. CASE Accepted(w)
  BY <1>0, <1>1 DEF Accepted, GraphTypeOK, CallStates
<1>2. CASE Transient(w)
  <2>1. PICK reached \in {0, 1} : copies' = [copies EXCEPT ![w] = @ + reached]
    BY <1>2 DEF Transient
  <2>2. CASE attempt[w] < MaxRetries
    BY <1>0, <1>2, <2>1, <2>2 DEF Transient, GraphTypeOK, CallStates
  <2>3. CASE ~(attempt[w] < MaxRetries)
    BY <1>0, <1>2, <2>1, <2>3 DEF Transient, GraphTypeOK, CallStates
  <2> QED
    BY <2>2, <2>3
<1>3. CASE Rejected(w)
  <2>1. PICK reached \in {0, 1} : copies' = [copies EXCEPT ![w] = @ + reached]
    BY <1>3 DEF Rejected
  <2> QED
    BY <1>0, <1>3, <2>1 DEF Rejected, GraphTypeOK, CallStates
<1> QED
  BY <1>1, <1>2, <1>3

\* Starting a call.
LEMMA StartType ==
    ASSUME GraphTypeOK, NEW w \in Workers, StartPost(w)
    PROVE  /\ GraphTypeOK'
           /\ call'[w] = IF HasCredentials THEN "posting" ELSE "returned"
           /\ attempt'[w] = 0 /\ copies'[w] = 0
           /\ \A v \in Workers : v # w => /\ call'[v] = call[v]
                                          /\ attempt'[v] = attempt[v]
                                          /\ copies'[v] = copies[v]
  BY DEF StartPost, GraphTypeOK, CallStates

\* Ending it.
LEMMA HangUpType ==
    ASSUME GraphTypeOK, NEW w \in Workers, HangUp(w)
    PROVE  /\ GraphTypeOK'
           /\ attempt'[w] = 0 /\ copies'[w] = 0
           /\ \A v \in Workers : call'[v] = IF v = w THEN "idle" ELSE call[v]
           /\ \A v \in Workers : v # w => /\ attempt'[v] = attempt[v]
                                          /\ copies'[v] = copies[v]
  BY DEF HangUp, GraphTypeOK, CallStates

\* The opt-outs and claims of the program are messages about customers.
LEMMA ActionTypes ==
    /\ Claims \subseteq Messages /\ OptOuts \subseteq Messages /\ Ambiguous \subseteq Messages
    /\ Claims \intersect OptOuts = {}
    /\ \A m \in Claims : Claimant[m] \in Customers
<1>1. "claim" # "optout"
  OBVIOUS
<1> QED
  BY <1>1 DEF Claims, ClaimMessages, OptOuts, OptOutMessages, Ambiguous, StartsWith

-----------------------------------------------------------------------------
\* A step of a worker keeps the types.
LEMMA HandleType ==
    ASSUME TypeOK, JobInv, NEW w \in Workers, Handle(w)
    PROVE  TypeOK' /\ JobInv'
<1> USE DEF ingest, data, tally, told, graphVars
<1>1. CASE PopJob(w)
  <2>1. queue # <<>> /\ queue \in Seq(Payloads)
    BY <1>1 DEF PopJob, TypeOK
  <2>2. Head(queue) \in Payloads /\ Tail(queue) \in Seq(Payloads)
    BY <2>1, HeadTailProperties
  <2>3. Content[Head(queue)] \in Seq(Messages)
    BY <2>2, PipelineAssumption
  <2>4. JobInv' /\ job' \in [Workers -> Seq(Messages)]
        /\ pc' \in [Workers -> {"idle", "guard"} \union Active]
    BY <1>1, <2>3, ResumeType DEF PopJob, JobInv
  <2> QED
    BY <1>1, <2>2, <2>4 DEF PopJob, TypeOK, GraphTypeOK
<1>2. CASE GuardDuplicate(w)
  <2>1. Tail(job[w]) \in Seq(Messages)
    BY <1>2, CurrentType DEF GuardDuplicate
  <2>2. JobInv' /\ job' \in [Workers -> Seq(Messages)]
        /\ pc' \in [Workers -> {"idle", "guard"} \union Active]
    BY <1>2, <2>1, ResumeType DEF GuardDuplicate, JobInv
  <2> QED
    BY <1>2, <2>2 DEF GuardDuplicate, TypeOK, GraphTypeOK
<1>3. CASE GuardNew(w)
  <2>1. Current(w) \in Messages
    BY <1>3, CurrentType DEF GuardNew
  <2>2. keys' \subseteq Messages /\ taken' \in [Messages -> Nat]
    BY <1>3, <2>1 DEF GuardNew, TypeOK
  <2>3. JobInv' /\ pc' \in [Workers -> {"idle", "guard"} \union Active]
    BY <1>3 DEF GuardNew, TypeOK, JobInv, Active
  <2> QED
    BY <1>3, <2>2, <2>3 DEF GuardNew, TypeOK, GraphTypeOK
<1>4. CASE Ignore(w)
  <2>1. Tail(job[w]) \in Seq(Messages)
    BY <1>4, CurrentType DEF Ignore
  <2>2. JobInv' /\ job' \in [Workers -> Seq(Messages)]
        /\ pc' \in [Workers -> {"idle", "guard"} \union Active]
    BY <1>4, <2>1, ResumeType DEF Ignore, JobInv
  <2> QED
    BY <1>4, <2>2 DEF Ignore, TypeOK, GraphTypeOK
<1>5. CASE Claim(w)
  <2>1. GraphTypeOK' /\ \A v \in Workers : v # w => call'[v] = call[v]
    BY <1>5, StartType DEF Claim, TypeOK
  <2>2. Current(w) \in Messages /\ Claimant[Current(w)] \in Customers
    BY <1>5, ActionTypes DEF Claim
  <2>3. JobInv' /\ pc' \in [Workers -> {"idle", "guard"} \union Active]
    BY <1>5, <2>1 DEF Claim, TypeOK, JobInv, Active
  <2>4. /\ status' \in {"OPEN", "CLAIMED", "CLOSED"} /\ claimedBy' \subseteq Customers
        /\ verdict' \in [Messages -> {"none", "won", "lost", "removed"}]
    BY <1>5, <2>2 DEF Claim, TypeOK
  <2> QED
    BY <1>5, <2>1, <2>3, <2>4 DEF Claim, TypeOK
<1>6. CASE OptOut(w)
  <2>1. GraphTypeOK' /\ \A v \in Workers : v # w => call'[v] = call[v]
    BY <1>6, StartType DEF OptOut, TypeOK
  <2>2. Current(w) \in Messages
    BY <1>6, ActionTypes DEF OptOut
  <2>3. JobInv' /\ pc' \in [Workers -> {"idle", "guard"} \union Active]
    BY <1>6, <2>1 DEF OptOut, TypeOK, JobInv, Active
  <2>4. /\ waiting' \subseteq Customers
        /\ verdict' \in [Messages -> {"none", "won", "lost", "removed"}]
    BY <1>6, <2>2 DEF OptOut, TypeOK
  <2> QED
    BY <1>6, <2>1, <2>3, <2>4 DEF OptOut, TypeOK
<1>7. CASE AmbiguousOptOut(w) \/ TellFails(w)
  <2>1. Range(job[w]) \subseteq Messages
    BY <1>7, CurrentType DEF AmbiguousOptOut, TellFails
  <2>2. GraphTypeOK' /\ \A v \in Workers : call'[v] = IF v = w THEN "idle" ELSE call[v]
    BY <1>7, HangUpType DEF AmbiguousOptOut, TellFails, Drop, TypeOK
  <2>3. <<>> \in Seq(Messages)
    OBVIOUS
  <2> QED
    BY <1>7, <2>1, <2>2, <2>3 DEF AmbiguousOptOut, TellFails, Drop, TypeOK, JobInv
<1>8. CASE Post(w)
  <2> DEFINE m == Current(w)
  <2>1. Accepted(w) \/ Transient(w) \/ Rejected(w)
    BY <1>8 DEF Post
  <2>2. GraphTypeOK' /\ attempt'[w] - attempt[w] \in {0, 1} /\ copies'[w] - copies[w] \in {0, 1}
    BY <2>1, PostType DEF TypeOK
  <2>3. pc[w] \in {"tell", "owner"} /\ m \in Messages
    BY <2>1, PostType, CurrentType DEF TypeOK, JobInv
  <2>4. faults' \in Nat
    BY <1>8 DEF Post, TypeOK
  <2>5. resent' \in [Messages -> Nat]
    <3> DEFINE d == attempt'[w] - attempt[w]
    <3>1. d \in Nat
      BY <2>2
    <3>2. resent' = [resent EXCEPT ![m] = @ + d]
      BY <1>8 DEF Post
    <3> HIDE DEF d, m
    <3> QED
      BY <2>3, <3>1, <3>2 DEF TypeOK
  <2>6. \A v \in Workers : call'[v] # "idle" => call[v] # "idle"
    BY <2>1, PostType DEF TypeOK
  <2>7. heard' \in [Messages -> Nat]
    BY <1>8, <2>2 DEF Post, TypeOK
  <2>8. answer' \in [Messages -> {"none", "won", "lost", "removed"}]
    BY <1>8 DEF Post, TypeOK
  <2>9. ownerTold' \subseteq Messages
    BY <1>8, <2>3 DEF Post, TypeOK
  <2> QED
    BY <1>8, <2>2, <2>4, <2>5, <2>6, <2>7, <2>8, <2>9 DEF Post, TypeOK, JobInv
<1>9. CASE Told(w)
  <2>1. GraphTypeOK' /\ \A v \in Workers : call'[v] = IF v = w THEN "idle" ELSE call[v]
    BY <1>9, HangUpType DEF Told, TypeOK
  <2>2. Tail(job[w]) \in Seq(Messages)
    BY <1>9, CurrentType DEF Told
  <2>3. JobInv' /\ job' \in [Workers -> Seq(Messages)]
        /\ pc' \in [Workers -> {"idle", "guard"} \union Active]
    <3>1. CASE verdict[Current(w)] = "won"
      BY <1>9, <2>1, <3>1 DEF Told, TypeOK, JobInv, Active
    <3>2. CASE verdict[Current(w)] # "won"
      BY <1>9, <2>1, <2>2, <3>2, ResumeType DEF Told
    <3> QED
      BY <3>1, <3>2
  <2> QED
    BY <1>9, <2>1, <2>3 DEF Told, TypeOK
<1>10. CASE CallOwner(w)
  <2>1. GraphTypeOK' /\ \A v \in Workers : v # w => call'[v] = call[v]
    BY <1>10, StartType DEF CallOwner, TypeOK
  <2> QED
    BY <1>10, <2>1 DEF CallOwner, TypeOK, JobInv
<1>11. CASE OwnerDone(w)
  <2>1. GraphTypeOK' /\ \A v \in Workers : call'[v] = IF v = w THEN "idle" ELSE call[v]
    BY <1>11, HangUpType DEF OwnerDone, TypeOK
  <2>2. Tail(job[w]) \in Seq(Messages) /\ Current(w) \in Messages
    BY <1>11, CurrentType DEF OwnerDone
  <2>3. JobInv' /\ job' \in [Workers -> Seq(Messages)]
        /\ pc' \in [Workers -> {"idle", "guard"} \union Active]
    BY <1>11, <2>1, <2>2, ResumeType DEF OwnerDone
  <2> QED
    BY <1>11, <2>1, <2>2, <2>3 DEF OwnerDone, TypeOK
<1> QED
  BY <1>1, <1>2, <1>3, <1>4, <1>5, <1>6, <1>7, <1>8, <1>9, <1>10, <1>11 DEF Handle

\* Every step keeps the types.
LEMMA TypeStep ==
    ASSUME TypeOK, JobInv, [Next]_vars
    PROVE  TypeOK' /\ JobInv'
<1> USE DEF ingest, data, tally, told, graphVars
<1>1. ASSUME NEW p \in Payloads, Receive(p) \/ EnqueueFails(p) PROVE TypeOK' /\ JobInv'
  <2>1. Append(queue, p) \in Seq(Payloads)
    BY DEF TypeOK
  <2>2. queue' \in Seq(Payloads)
    <3>1. queue' \in {queue, Append(queue, p)}
      BY <1>1 DEF Receive, EnqueueFails
    <3>2. queue \in Seq(Payloads)
      BY DEF TypeOK
    <3> QED
      BY <2>1, <3>1, <3>2
  <2>3. posts' \in [Payloads -> Nat]
    <3>1. posts' = [posts EXCEPT ![p] = @ + 1]
      BY <1>1 DEF Receive, EnqueueFails
    <3>2. posts \in [Payloads -> Nat]
      BY DEF TypeOK
    <3> QED
      BY <3>1, <3>2
  <2>4. acked' \subseteq Payloads /\ faults' \in Nat
    <3>1. acked' \in {acked, acked \union {p}} /\ faults' \in {faults, faults + 1}
      BY <1>1 DEF Receive, EnqueueFails
    <3> QED
      BY <3>1 DEF TypeOK
  <2>5. UNCHANGED <<graphVars, keys, job, pc, data, told, tally, blamed>>
    BY <1>1 DEF Receive, EnqueueFails
  <2> QED
    BY <2>2, <2>3, <2>4, <2>5 DEF TypeOK, GraphTypeOK, JobInv
<1>2. ASSUME NEW w \in Workers, Handle(w) PROVE TypeOK' /\ JobInv'
  BY <1>2, HandleType
<1>3. ASSUME NEW w \in Workers, Fault(w) \/ FaultAfterCommit(w) PROVE TypeOK' /\ JobInv'
  <2>1. pc[w] # "idle" /\ Drop(w)
    BY <1>3 DEF Fault, FaultAfterCommit
  <2>2. blamed' \subseteq Messages
    BY <2>1, CurrentType DEF Drop, TypeOK
  <2>3. GraphTypeOK' /\ \A v \in Workers : call'[v] = IF v = w THEN "idle" ELSE call[v]
    BY <2>1, HangUpType DEF Drop, TypeOK
  <2>4. <<>> \in Seq(Messages)
    OBVIOUS
  <2>5. JobInv' /\ job' \in [Workers -> Seq(Messages)]
        /\ pc' \in [Workers -> {"idle", "guard"} \union Active]
    BY <2>1, <2>3, <2>4 DEF Drop, TypeOK, JobInv
  <2>6. status' \in {"OPEN", "CLAIMED", "CLOSED"} /\ claimedBy' \subseteq Customers
        /\ waiting' \subseteq Customers
    BY <1>3, ActionTypes DEF Fault, FaultAfterCommit, TypeOK
  <2>7. faults' \in Nat
    BY <1>3 DEF Fault, FaultAfterCommit, TypeOK
  <2> QED
    BY <1>3, <2>2, <2>3, <2>5, <2>6, <2>7 DEF Fault, FaultAfterCommit, TypeOK
<1>4. ASSUME NEW m \in Messages, KeyExpires(m) PROVE TypeOK' /\ JobInv'
  BY <1>4 DEF KeyExpires, TypeOK, GraphTypeOK, JobInv
<1>5. CASE OtherWriter
  BY <1>5 DEF OtherWriter, TypeOK, GraphTypeOK, JobInv
<1>6. CASE UNCHANGED vars
  BY <1>6 DEF vars, TypeOK, GraphTypeOK, JobInv
<1> QED
  BY <1>1, <1>2, <1>3, <1>4, <1>5, <1>6 DEF Next

\* Nothing has been posted at the start.
LEMMA TypeInit == Init => TypeOK /\ JobInv
  BY DEF Init, TypeOK, JobInv, GraphInit, GraphTypeOK, CallStates, Active

-----------------------------------------------------------------------------
\* A worker that acts in the next state was at the same message before.
LEMMA FocusStays ==
    ASSUME TypeOK, JobInv, Next, NEW v \in Workers, pc'[v] \in Active
    PROVE  (pc[v] \in Active \/ GuardNew(v)) /\ job'[v] = job[v]
<1> USE DEF ingest, data, tally, told, graphVars
<1>1. ASSUME NEW w \in Workers, Handle(w) \/ Fault(w) \/ FaultAfterCommit(w)
      PROVE  (pc[v] \in Active \/ GuardNew(v)) /\ job'[v] = job[v]
  <2>1. ASSUME NEW rest, Resume(w, rest)
        PROVE  v # w /\ pc'[v] = pc[v] /\ job'[v] = job[v]
    BY <2>1 DEF Resume, TypeOK, Active
  <2>2. CASE PopJob(w) \/ GuardDuplicate(w) \/ Ignore(w) \/ OwnerDone(w)
    BY <2>1, <2>2 DEF PopJob, GuardDuplicate, Ignore, OwnerDone
  <2>3. CASE GuardNew(w) \/ Claim(w) \/ OptOut(w) \/ CallOwner(w)
    BY <2>3 DEF GuardNew, Claim, OptOut, CallOwner, TypeOK, Active
  <2>4. CASE Post(w)
    BY <2>4 DEF Post
  <2>5. CASE Told(w)
    <3>1. CASE verdict[Current(w)] = "won"
      BY <2>5, <3>1 DEF Told, TypeOK, Active
    <3>2. CASE verdict[Current(w)] # "won"
      BY <2>1, <2>5, <3>2 DEF Told
    <3> QED
      BY <3>1, <3>2
  <2>6. CASE Fault(w) \/ FaultAfterCommit(w) \/ TellFails(w) \/ AmbiguousOptOut(w)
    BY <2>6 DEF Fault, FaultAfterCommit, TellFails, AmbiguousOptOut, Drop, TypeOK, Active
  <2> QED
    BY <1>1, <2>2, <2>3, <2>4, <2>5, <2>6 DEF Handle
<1>2. ASSUME NEW p \in Payloads, Receive(p) \/ EnqueueFails(p)
      PROVE  (pc[v] \in Active \/ GuardNew(v)) /\ job'[v] = job[v]
  BY <1>2 DEF Receive, EnqueueFails
<1>3. ASSUME NEW m \in Messages, KeyExpires(m)
      PROVE  (pc[v] \in Active \/ GuardNew(v)) /\ job'[v] = job[v]
  BY <1>3 DEF KeyExpires
<1>4. CASE OtherWriter
  BY <1>4 DEF OtherWriter
<1> QED
  BY <1>1, <1>2, <1>3, <1>4 DEF Next

-----------------------------------------------------------------------------
\* Whoever is acted for has its dedup key set; without the key, every time the message
\* was acted upon has had its key run out since.
KeyInv ==
    /\ \A w \in Workers : pc[w] \in Active => Current(w) \in keys
    /\ \A m \in Messages : m \notin keys => taken[m] <= expired[m]
    /\ ActedOnce

\* Only the guard and the clock touch the keys and their tallies.
LEMMA KeysStay ==
    ASSUME Next, ~(\E w \in Workers : GuardNew(w)), ~(\E m \in Messages : KeyExpires(m))
    PROVE  UNCHANGED <<keys, tally>>
<1> USE DEF ingest, data, tally, told, graphVars
<1>1. ASSUME NEW w \in Workers, Handle(w) PROVE UNCHANGED <<keys, tally>>
  <2>1. CASE PopJob(w) \/ GuardDuplicate(w) \/ Ignore(w) \/ OwnerDone(w) \/ CallOwner(w)
    BY <2>1 DEF PopJob, GuardDuplicate, Ignore, OwnerDone, CallOwner
  <2>2. CASE Claim(w) \/ OptOut(w) \/ Post(w)
    BY <2>2 DEF Claim, OptOut, Post
  <2>3. CASE AmbiguousOptOut(w) \/ Told(w) \/ TellFails(w)
    BY <2>3 DEF AmbiguousOptOut, Told, TellFails
  <2> QED
    BY <1>1, <2>1, <2>2, <2>3 DEF Handle
<1>2. ASSUME NEW w \in Workers, Fault(w) \/ FaultAfterCommit(w) PROVE UNCHANGED <<keys, tally>>
  BY <1>2 DEF Fault, FaultAfterCommit
<1>3. ASSUME NEW p \in Payloads, Receive(p) \/ EnqueueFails(p) PROVE UNCHANGED <<keys, tally>>
  BY <1>3 DEF Receive, EnqueueFails
<1>4. CASE OtherWriter
  BY <1>4 DEF OtherWriter
<1> QED
  BY <1>1, <1>2, <1>3, <1>4 DEF Next

LEMMA KeyStep ==
    ASSUME TypeOK, JobInv, KeyInv, [Next]_vars
    PROVE  KeyInv'
<1>1. ASSUME NEW w \in Workers, GuardNew(w), Next PROVE KeyInv'
  <2> DEFINE m == Current(w)
  <2>1. /\ m \in Messages /\ m \notin keys /\ keys' = keys \union {m}
        /\ taken' = [taken EXCEPT ![m] = @ + 1] /\ expired' = expired /\ job' = job
    BY <1>1, CurrentType DEF GuardNew
  <2>2. taken \in [Messages -> Nat] /\ expired \in [Messages -> Nat]
    BY DEF TypeOK
  <2>3. ASSUME NEW v \in Workers, pc'[v] \in Active PROVE Current(v)' \in keys'
    <3>1. v = w \/ pc[v] \in Active
      BY <1>1, <2>3 DEF GuardNew, TypeOK
    <3> QED
      BY <2>1, <3>1 DEF KeyInv, Current
  <2>4. ASSUME NEW n \in Messages
        PROVE  taken'[n] <= 1 + expired'[n] /\ (n \notin keys' => taken'[n] <= expired'[n])
    <3> HIDE DEF m
    <3>1. taken[n] <= 1 + expired[n] /\ (n \notin keys => taken[n] <= expired[n])
      BY DEF KeyInv, ActedOnce
    <3> QED
      BY <2>1, <2>2, <3>1
  <2> QED
    BY <2>3, <2>4 DEF KeyInv, ActedOnce
<1>2. ASSUME NEW m \in Messages, KeyExpires(m) PROVE KeyInv'
  <2>1. /\ keys' = keys \ {m} /\ taken' = taken /\ expired' = [expired EXCEPT ![m] = @ + 1]
        /\ job' = job /\ pc' = pc /\ \A w \in Workers : pc[w] \in Active => Current(w) # m
    BY <1>2 DEF KeyExpires
  <2>2. taken \in [Messages -> Nat] /\ expired \in [Messages -> Nat]
    BY DEF TypeOK
  <2>3. ASSUME NEW v \in Workers, pc'[v] \in Active PROVE Current(v)' \in keys'
    BY <2>1, <2>3 DEF KeyInv, Current
  <2>4. ASSUME NEW n \in Messages
        PROVE  taken'[n] <= 1 + expired'[n] /\ (n \notin keys' => taken'[n] <= expired'[n])
    <3>1. taken[n] <= 1 + expired[n] /\ (n \notin keys => taken[n] <= expired[n])
      BY DEF KeyInv, ActedOnce
    <3> QED
      BY <2>1, <2>2, <3>1
  <2> QED
    BY <2>3, <2>4 DEF KeyInv, ActedOnce
<1>3. ASSUME Next, ~(\E w \in Workers : GuardNew(w)), ~(\E m \in Messages : KeyExpires(m))
      PROVE  KeyInv'
  <2>1. UNCHANGED <<keys, taken, expired>>
    BY <1>3, KeysStay DEF tally
  <2>2. ASSUME NEW v \in Workers, pc'[v] \in Active PROVE Current(v)' \in keys'
    <3>1. pc[v] \in Active /\ job'[v] = job[v]
      BY <1>3, <2>2, FocusStays
    <3> QED
      BY <2>1, <3>1 DEF KeyInv, Current
  <2> QED
    BY <2>1, <2>2 DEF KeyInv, ActedOnce
<1>4. CASE UNCHANGED vars
  BY <1>4 DEF vars, tally, KeyInv, ActedOnce, Current
<1> QED
  BY <1>1, <1>2, <1>3, <1>4

LEMMA KeyInit == Init => KeyInv
  BY DEF Init, KeyInv, ActedOnce, Active

\* The pipeline's variables keep their types, the counters included, however many
\* workers, messages, retries and faults there are.
THEOREM PipelineTypeCorrect == Spec => []TypeOK
<1>1. TypeOK /\ JobInv /\ [Next]_vars => TypeOK' /\ JobInv'
  BY TypeStep
<1> QED
  BY <1>1, TypeInit, PTL DEF Spec

\* A message is acted upon once for each life of its dedup key: SET NX is one step, and
\* the key outlives the handler.
THEOREM EachActedOnce == Spec => []ActedOnce
<1>1. TypeOK /\ JobInv /\ KeyInv /\ [Next]_vars => TypeOK' /\ JobInv' /\ KeyInv'
  BY TypeStep, KeyStep
<1>2. KeyInv => ActedOnce
  BY DEF KeyInv
<1> QED
  BY <1>1, <1>2, TypeInit, KeyInit, PTL DEF Spec

-----------------------------------------------------------------------------
\* The messages of payloads that Meta signed.
GenuineMessages == {m \in Messages : \E p \in Genuine : m \in Range(Content[p])}

\* Only these get past the signature, into the queue and the jobs.
GenuineInv ==
    (SecretSet \/ Production) =>
        /\ Range(queue) \subseteq Genuine
        /\ \A w \in Workers : Range(job[w]) \subseteq GenuineMessages
        /\ \A m \in Messages : taken[m] > 0 => m \in GenuineMessages

\* What a queue holds after an append or a pop.
LEMMA QueueRange ==
    ASSUME NEW S, NEW s \in Seq(S), NEW x \in S
    PROVE  /\ Range(Append(s, x)) \subseteq Range(s) \union {x}
           /\ s # <<>> => Head(s) \in Range(s) /\ Range(Tail(s)) \subseteq Range(s)
<1>1. Range(Append(s, x)) \subseteq Range(s) \union {x}
  <2>1. /\ Len(Append(s, x)) = Len(s) + 1
        /\ \A i \in 1 .. Len(s) : Append(s, x)[i] = s[i]
        /\ Append(s, x)[Len(s) + 1] = x
    BY AppendProperties
  <2>2. DOMAIN s = 1 .. Len(s) /\ DOMAIN Append(s, x) = 1 .. Len(Append(s, x)) /\ Len(s) \in Nat
    BY LenProperties
  <2>3. ASSUME NEW i \in DOMAIN Append(s, x) PROVE Append(s, x)[i] \in Range(s) \union {x}
    <3>1. i \in 1 .. Len(s) \/ i = Len(s) + 1
      BY <2>1, <2>2
    <3>2. CASE i \in 1 .. Len(s)
      BY <2>1, <2>2, <3>2 DEF Range
    <3>3. CASE i = Len(s) + 1
      BY <2>1, <3>3
    <3> QED
      BY <3>1, <3>2, <3>3
  <2> QED
    BY <2>3 DEF Range
<1>2. ASSUME s # <<>> PROVE Head(s) \in Range(s) /\ Range(Tail(s)) \subseteq Range(s)
  <2>1. DOMAIN s = 1 .. Len(s) /\ Len(s) \in Nat /\ Len(s) > 0
    BY <1>2, LenProperties, EmptySeq
  <2>2. /\ Tail(s) \in Seq(S) /\ Len(Tail(s)) = Len(s) - 1
        /\ \A i \in 1 .. Len(Tail(s)) : Tail(s)[i] = s[i + 1]
    BY <1>2, HeadTailProperties
  <2>3. DOMAIN Tail(s) = 1 .. Len(Tail(s))
    BY <2>2, LenProperties
  <2>4. Range(Tail(s)) \subseteq Range(s)
    BY <2>1, <2>2, <2>3 DEF Range
  <2>5. 1 \in DOMAIN s /\ Head(s) = s[1]
    BY <2>1
  <2> QED
    BY <2>4, <2>5 DEF Range
<1> QED
  BY <1>1, <1>2

\* A job under way only shrinks.
LEMMA JobShrinks ==
    ASSUME TypeOK, JobInv, Next, ~(\E w \in Workers : PopJob(w)), NEW v \in Workers
    PROVE  job'[v] \in {job[v], <<>>} \/ (pc[v] # "idle" /\ job'[v] = Tail(job[v]))
<1> USE DEF ingest, data, tally, told, graphVars
<1>1. ASSUME NEW w \in Workers, Handle(w) \/ Fault(w) \/ FaultAfterCommit(w)
      PROVE  job'[v] \in {job[v], <<>>} \/ (pc[v] # "idle" /\ job'[v] = Tail(job[v]))
  <2>1. CASE GuardDuplicate(w) \/ Ignore(w) \/ OwnerDone(w)
    BY <2>1 DEF GuardDuplicate, Ignore, OwnerDone, Resume, TypeOK
  <2>2. CASE GuardNew(w) \/ Claim(w) \/ OptOut(w) \/ CallOwner(w) \/ Post(w)
    BY <2>2 DEF GuardNew, Claim, OptOut, CallOwner, Post
  <2>3. CASE Told(w)
    BY <2>3 DEF Told, Resume, TypeOK
  <2>4. CASE Fault(w) \/ FaultAfterCommit(w) \/ TellFails(w) \/ AmbiguousOptOut(w)
    BY <2>4 DEF Fault, FaultAfterCommit, TellFails, AmbiguousOptOut, Drop, TypeOK
  <2> QED
    BY <1>1, <2>1, <2>2, <2>3, <2>4 DEF Handle
<1>2. ASSUME NEW p \in Payloads, Receive(p) \/ EnqueueFails(p) PROVE job' = job
  BY <1>2 DEF Receive, EnqueueFails
<1>3. ASSUME NEW m \in Messages, KeyExpires(m) PROVE job' = job
  BY <1>3 DEF KeyExpires
<1>4. CASE OtherWriter
  BY <1>4 DEF OtherWriter
<1> QED
  BY <1>1, <1>2, <1>3, <1>4 DEF Next

\* Only a post, a failing one included, or a pop touches the queue, and only the guard
\* counts a message as acted upon.
LEMMA QueueStays ==
    ASSUME Next
    PROVE  /\ (\A p \in Payloads : ~Receive(p) /\ ~EnqueueFails(p)) => \/ queue' = queue
                                                                     \/ \E w \in Workers : PopJob(w)
           /\ taken' = taken \/ \E w \in Workers : GuardNew(w)
<1> USE DEF ingest, data, tally, told, graphVars
<1>1. ASSUME NEW w \in Workers, Handle(w), ~PopJob(w), ~GuardNew(w)
      PROVE  UNCHANGED <<queue, taken>>
  <2>1. CASE GuardDuplicate(w) \/ Ignore(w) \/ OwnerDone(w) \/ CallOwner(w)
    BY <2>1 DEF GuardDuplicate, Ignore, OwnerDone, CallOwner
  <2>2. CASE Claim(w) \/ OptOut(w) \/ Post(w)
    BY <2>2 DEF Claim, OptOut, Post
  <2>3. CASE AmbiguousOptOut(w) \/ Told(w) \/ TellFails(w)
    BY <2>3 DEF AmbiguousOptOut, Told, TellFails
  <2> QED
    BY <1>1, <2>1, <2>2, <2>3 DEF Handle
<1>2. ASSUME NEW w \in Workers, Fault(w) \/ FaultAfterCommit(w) PROVE UNCHANGED <<queue, taken>>
  BY <1>2 DEF Fault, FaultAfterCommit
<1>3. ASSUME NEW w \in Workers, PopJob(w) PROVE taken' = taken
  BY <1>3 DEF PopJob
<1>4. ASSUME NEW w \in Workers, GuardNew(w) PROVE queue' = queue
  BY <1>4 DEF GuardNew
<1>5. ASSUME NEW p \in Payloads, Receive(p) \/ EnqueueFails(p) PROVE taken' = taken
  BY <1>5 DEF Receive, EnqueueFails
<1>6. ASSUME NEW m \in Messages, KeyExpires(m) PROVE UNCHANGED <<queue, taken>>
  BY <1>6 DEF KeyExpires
<1>7. CASE OtherWriter
  BY <1>7 DEF OtherWriter
<1> QED
  BY <1>1, <1>2, <1>3, <1>4, <1>5, <1>6, <1>7 DEF Next

LEMMA GenuineStep ==
    ASSUME TypeOK, JobInv, GenuineInv, [Next]_vars
    PROVE  GenuineInv'
<1> SUFFICES ASSUME SecretSet \/ Production
             PROVE  /\ Range(queue)' \subseteq Genuine
                    /\ \A w \in Workers : Range(job[w])' \subseteq GenuineMessages
                    /\ \A m \in Messages : taken'[m] > 0 => m \in GenuineMessages
  BY DEF GenuineInv, GenuineMessages
<1>0. /\ Range(queue) \subseteq Genuine
      /\ \A w \in Workers : Range(job[w]) \subseteq GenuineMessages
      /\ \A m \in Messages : taken[m] > 0 => m \in GenuineMessages
  BY DEF GenuineInv
<1>1. CASE UNCHANGED vars
  BY <1>0, <1>1 DEF vars, tally
<1>2. CASE Next
  <2>1. Range(queue)' \subseteq Genuine
    <3>1. ASSUME NEW p \in Payloads, Receive(p) \/ EnqueueFails(p)
          PROVE  Range(queue)' \subseteq Genuine
      <4>1. p \in Genuine
        BY <3>1 DEF Receive, EnqueueFails, Admits
      <4>2. queue' \in {queue, Append(queue, p)}
        BY <3>1 DEF Receive, EnqueueFails
      <4>3. Range(Append(queue, p)) \subseteq Range(queue) \union {p}
        BY QueueRange DEF TypeOK
      <4> QED
        BY <1>0, <4>1, <4>2, <4>3
    <3>2. ASSUME NEW w \in Workers, PopJob(w) PROVE Range(queue)' \subseteq Genuine
      <4>1. queue # <<>> /\ queue' = Tail(queue) /\ queue \in Seq(Payloads)
        BY <3>2 DEF PopJob, TypeOK
      <4>2. Head(queue) \in Payloads
        BY <4>1, HeadTailProperties
      <4>3. Range(Tail(queue)) \subseteq Range(queue)
        BY <4>1, <4>2, QueueRange
      <4> QED
        BY <1>0, <4>1, <4>3
    <3> QED
      BY <1>0, <1>2, <3>1, <3>2, QueueStays
  <2>2. ASSUME NEW v \in Workers PROVE Range(job[v])' \subseteq GenuineMessages
    <3>1. ASSUME NEW w \in Workers, PopJob(w) PROVE Range(job[v])' \subseteq GenuineMessages
      <4>1. queue # <<>> /\ queue \in Seq(Payloads)
            /\ job' = [job EXCEPT ![w] = Content[Head(queue)]]
        BY <3>1 DEF PopJob, Resume, TypeOK
      <4>2. Head(queue) \in Payloads
        BY <4>1, HeadTailProperties
      <4>3. Head(queue) \in Genuine
        BY <1>0, <4>1, <4>2, QueueRange
      <4>4. Content[Head(queue)] \in Seq(Messages)
        BY <4>2, PipelineAssumption
      <4>5. Range(Content[Head(queue)]) \subseteq Messages
        <5> DEFINE c == Content[Head(queue)]
        <5>1. c \in Seq(Messages)
          BY <4>4
        <5> HIDE DEF c
        <5>2. DOMAIN c = 1 .. Len(c) /\ \A i \in 1 .. Len(c) : c[i] \in Messages
          BY <5>1, LenProperties, ElementOfSeq
        <5>3. Range(c) \subseteq Messages
          BY <5>2 DEF Range
        <5> QED
          BY <5>3 DEF c
      <4>6. Range(Content[Head(queue)]) \subseteq GenuineMessages
        BY <4>3, <4>5 DEF GenuineMessages
      <4>7. job'[v] \in {job[v], Content[Head(queue)]}
        BY <4>1 DEF TypeOK
      <4> QED
        BY <1>0, <4>6, <4>7
    <3>2. CASE ~(\E w \in Workers : PopJob(w))
      <4>1. CASE job'[v] = <<>>
        BY <4>1 DEF Range
      <4>2. CASE job'[v] = job[v]
        BY <1>0, <4>2
      <4>3. CASE pc[v] # "idle" /\ job'[v] = Tail(job[v])
        <5>1. Range(Tail(job[v])) \subseteq Range(job[v])
          BY <4>3, CurrentType
        <5> QED
          BY <1>0, <4>3, <5>1
      <4> QED
        BY <1>2, <3>2, <4>1, <4>2, <4>3, JobShrinks
    <3> QED
      BY <3>1, <3>2
  <2>3. ASSUME NEW m \in Messages, taken'[m] > 0 PROVE m \in GenuineMessages
    <3>1. ASSUME NEW w \in Workers, GuardNew(w), m = Current(w) PROVE m \in GenuineMessages
      <4>1. Current(w) \in Range(job[w])
        BY <3>1, CurrentType DEF GuardNew
      <4> QED
        BY <1>0, <3>1, <4>1
    <3>2. ASSUME NEW w \in Workers, GuardNew(w), m # Current(w) PROVE taken'[m] = taken[m]
      BY <3>2 DEF GuardNew, TypeOK
    <3> QED
      BY <1>0, <1>2, <2>3, <3>1, <3>2, QueueStays
  <2> QED
    BY <2>1, <2>2, <2>3
<1> QED
  BY <1>1, <1>2

LEMMA GenuineInit == Init => GenuineInv
  BY DEF Init, GenuineInv, Range

\* Nothing of a payload that Meta did not sign is acted upon, wherever a secret is set or
\* the program runs in production, whatever else is queued, retried or redelivered.
THEOREM GenuineOnly == Spec => []OnlyGenuineActs
<1>1. TypeOK /\ JobInv /\ GenuineInv /\ [Next]_vars => TypeOK' /\ JobInv' /\ GenuineInv'
  BY TypeStep, GenuineStep
<1>2. GenuineInv => OnlyGenuineActs
  BY DEF GenuineInv, OnlyGenuineActs, GenuineMessages
<1> QED
  BY <1>1, <1>2, TypeInit, GenuineInit, PTL DEF Spec
=============================================================================
