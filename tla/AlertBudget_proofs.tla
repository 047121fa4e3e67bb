------------------------ MODULE AlertBudget_proofs ------------------------
(***************************************************************************)
(* AlertBudget, for any number of broadcasts, any limit and any day: what  *)
(* the spam guard's count does promise.                                    *)
(***************************************************************************)
EXTENDS AlertBudget, FiniteSetTheorems, TLAPS

USE BudgetAssumption

\* One step keeps the variables in their types.
LEMMA TypeStep == TypeOK /\ [Next]_vars => TypeOK'
<1> SUFFICES ASSUME TypeOK, [Next]_vars PROVE TypeOK'
  OBVIOUS
<1> USE DEF TypeOK, ExecSteps, Statuses, Causes, Note
<1>r. Executors \subseteq Rows
  BY DEF Executors, Rows
<1>1. ASSUME NEW b \in Broadcasts, Choose(b) PROVE TypeOK'
  BY <1>1 DEF Choose
<1>2. ASSUME NEW e \in Executors, SkipIfLogged(e) PROVE TypeOK'
  BY <1>2 DEF SkipIfLogged
<1>3. ASSUME NEW e \in Executors, Send(e) PROVE TypeOK'
  BY <1>3, <1>r DEF Send
<1>4. ASSUME NEW e \in Executors, Commit(e) PROVE TypeOK'
  BY <1>4, <1>r DEF Commit
<1>5. ASSUME NEW e \in Executors, Lose(e) PROVE TypeOK'
  BY <1>5 DEF Lose
<1>6. ASSUME NEW l \in Rows, NotifyOwner(l) PROVE TypeOK'
  BY <1>6 DEF NotifyOwner
<1>7. ASSUME NEW l \in Rows, NEW report \in Statuses, Receipt(l, report) PROVE TypeOK'
  BY <1>7 DEF Receipt, Reports
<1>8. CASE Tick
  BY <1>8 DEF Tick
<1>9. CASE UNCHANGED vars
  BY <1>9 DEF vars
<1> QED
  BY <1>1, <1>2, <1>3, <1>4, <1>5, <1>6, <1>7, <1>8, <1>9 DEF Next

\* The rows of broadcast_logs always have the shape of the table.
THEOREM TypeCorrect == Spec => []TypeOK
<1>1. Init => TypeOK
  BY DEF Init, TypeOK, ExecSteps, Statuses
<1> QED
  BY <1>1, TypeStep, PTL DEF Spec

-----------------------------------------------------------------------------
(* As long as nothing is hidden from the count                             *)

\* Every alert that arrived has a row the count sees, or is about to.
AlertsLogged ==
    \A e \in reached : /\ exec[e] = "accepted" \/ (exec[e] = "done" /\ status[e] = "SENT")
                       /\ sentAt[e] <= now

\* Broadcasts follow one another, and so do the copies of one.
OneAtATime ==
    /\ \A b, d \in Broadcasts : Live(b) /\ Live(d) => b = d
    /\ \A e, d \in Executors : Busy(e) /\ Busy(d) => e = d

Alerted(b) == \E e \in reached : e[1] = b

\* An executor that will send has room in the day that ends now.
RoomToSend ==
    \A e \in Executors :
        /\ exec[e] = "sending" => ~Alerted(e[1])
        /\ exec[e] = "sending" \/ (exec[e] = "scheduled" /\ ~HasRow(e[1]) /\ ~Alerted(e[1]))
           => Cardinality(Window(now)) < Limit

Accounted == AlertsLogged /\ OneAtATime /\ RoomToSend /\ WithinLimit

Inv == TypeOK /\ (causes = {} => Accounted)

\* There are finitely many rows.
LEMMA CopiesFinite == IsFiniteSet(Copies) /\ IsFiniteSet(Copies \union {"owner"})
<1>1. IsFiniteSet({"background"})
  BY FS_EmptySet, FS_AddElement, IsFiniteSet({} \union {"background"})
<1>2. IsFiniteSet({"background"} \union {"queue"})
  BY <1>1, FS_AddElement
<1>3. IsFiniteSet(Copies)
  BY <1>2, Copies = {"background"} \union {"queue"} DEF Copies
<1> QED
  BY <1>3, FS_AddElement

\* The windows are finite sets.
LEMMA WindowFinite == TypeOK => \A t \in Int : IsFiniteSet(Window(t))
<1> SUFFICES ASSUME TypeOK, NEW t \in Int PROVE IsFiniteSet(Window(t))
  OBVIOUS
<1>2. IsFiniteSet(Executors)
  BY CopiesFinite, FS_Product DEF Executors
<1>3. Window(t) \in SUBSET Executors
  BY DEF Window, TypeOK
<1> QED
  BY <1>2, <1>3, FS_Subset

\* A step that sends nothing leaves every window at most as full, the one that
\* ends now included.
LEMMA QuietStep ==
    ASSUME TypeOK, TypeOK', AlertsLogged,
           reached' = reached,
           \A k \in reached : sentAt'[k] = sentAt[k],
           now <= now'
    PROVE  /\ WithinLimit => WithinLimit'
           /\ Cardinality(Window(now)) < Limit => Cardinality(Window(now)') < Limit
<1>1. ASSUME WithinLimit PROVE WithinLimit'
  <2> SUFFICES ASSUME NEW l \in reached' PROVE Cardinality(Window(sentAt[l])') <= Limit
    BY DEF WithinLimit
  <2>1. Window(sentAt[l])' = Window(sentAt[l])
    BY DEF Window
  <2> QED
    BY <1>1, <2>1 DEF WithinLimit
<1>3. now \in Int /\ now' \in Int /\ \A k \in reached : sentAt[k] \in Int
  BY DEF TypeOK, Executors, Rows
<1>2. Window(now)' \in SUBSET Window(now)
  <2> SUFFICES ASSUME NEW k \in Window(now)' PROVE k \in Window(now)
    OBVIOUS
  <2>1. k \in reached /\ now' - Day <= sentAt[k]
    BY DEF Window
  <2>2. now - Day <= sentAt[k] /\ sentAt[k] <= now
    BY <1>3, <2>1 DEF AlertsLogged
  <2> QED
    BY <2>1, <2>2 DEF Window
<1>4. /\ Cardinality(Window(now)') <= Cardinality(Window(now))
      /\ Cardinality(Window(now)) \in Nat
      /\ Cardinality(Window(now)') \in Nat
  BY <1>2, <1>3, WindowFinite, FS_Subset, FS_CardinalityType
<1> QED
  BY <1>1, <1>4

\* Nothing is forgotten: a step that leaves no cause found none.
LEMMA CausesStay == [Next]_vars => causes \subseteq causes'
<1> SUFFICES ASSUME [Next]_vars PROVE causes \subseteq causes'
  OBVIOUS
<1> QED
  BY DEF Next, vars, Choose, SkipIfLogged, Send, Commit, Lose, NotifyOwner, Receipt, Tick, Note

\* The customer is chosen for one more broadcast.
LEMMA ChooseStep ==
    ASSUME TypeOK, TypeOK', Accounted, NEW b \in Broadcasts, Choose(b), causes' = {}
    PROVE  Accounted'
<1> USE DEF Accounted
<1>1. \A d \in Broadcasts : ~Live(d)
  BY DEF Choose, Note
<1>2. \A e \in Executors : exec'[e] = IF e[1] = b THEN "scheduled" ELSE exec[e]
  BY DEF Choose
<1>3. \A e \in Executors : ~Busy(e)
  BY <1>1 DEF Live, Executors
<1>4. \A e \in reached : exec[e] = "done" /\ status[e] = "SENT" /\ e[1] # b
  BY <1>3 DEF AlertsLogged, Busy, Choose, TypeOK
<1>5. AlertsLogged'
  BY <1>2, <1>4 DEF AlertsLogged, Choose, TypeOK
<1>6. OneAtATime'
  <2>1. \A e \in Executors : ~Busy(e)'
    BY <1>2, <1>3 DEF Busy
  <2>2. ASSUME NEW d \in Broadcasts, Live(d)' PROVE d = b
    <3>1. PICK e \in Executors : e[1] = d /\ exec'[e] = "scheduled" /\ ~HasRow(d)'
      BY <2>1, <2>2 DEF Live
    <3>2. HasRow(d)' = HasRow(d)
      BY DEF HasRow, Choose
    <3>3. exec[e] = "scheduled" => Live(d)
      BY <3>1, <3>2 DEF Live
    <3> QED
      BY <1>1, <1>2, <3>1, <3>3
  <2> QED
    BY <2>1, <2>2 DEF OneAtATime
<1>7. Cardinality(Window(now)') < Limit
  <2>1. Window(now) \in SUBSET Counted
    BY <1>4 DEF Window, Counted, Recent, TypeOK, Executors, Rows
  <2>2. IsFiniteSet(Counted)
    <3>2. IsFiniteSet(Rows)
      BY CopiesFinite, FS_Product DEF Rows
    <3> QED
      BY <3>2, FS_Subset, Counted \in SUBSET Rows DEF Counted
  <2>3. Cardinality(Window(now)) <= Cardinality(Counted)
    BY <2>1, <2>2, FS_Subset
  <2>4. IsFiniteSet(Window(now)) /\ Window(now)' = Window(now)
    BY <2>1, <2>2, FS_Subset DEF Window, Choose
  <2>5. Cardinality(Window(now)) \in Nat /\ Cardinality(Counted) \in Nat
    BY <2>2, <2>4, FS_CardinalityType
  <2> QED
    BY <2>3, <2>4, <2>5 DEF Choose
<1>8. RoomToSend'
  BY <1>2, <1>3, <1>7 DEF RoomToSend, Busy
<1>9. WithinLimit'
  BY QuietStep DEF Choose, TypeOK
<1> QED
  BY <1>5, <1>6, <1>8, <1>9

\* An executor asks the idempotency check.
LEMMA SkipStep ==
    ASSUME TypeOK, TypeOK', Accounted, NEW e \in Executors, SkipIfLogged(e), causes' = {}
    PROVE  Accounted'
<1> USE DEF Accounted
<1>1. /\ \A d \in Executors : d # e => exec'[d] = exec[d]
      /\ \/ HasRow(e[1]) /\ exec'[e] = "done"
         \/ ~HasRow(e[1]) /\ exec'[e] = "sending"
      /\ \A d \in Broadcasts : HasRow(d)' = HasRow(d)
  BY DEF SkipIfLogged, TypeOK, HasRow
<1>2. AlertsLogged'
  BY <1>1 DEF AlertsLogged, SkipIfLogged, TypeOK
<1>3. \A d \in Broadcasts : Live(d)' => Live(d)
  <2> SUFFICES ASSUME NEW d \in Broadcasts, Live(d)' PROVE Live(d)
    OBVIOUS
  <2>1. PICK f \in Executors : f[1] = d /\ (Busy(f)' \/ (exec'[f] = "scheduled" /\ ~HasRow(d)'))
    BY DEF Live
  <2>2. CASE f = e
    BY <1>1, <2>1, <2>2 DEF Live, Busy, SkipIfLogged
  <2>3. CASE f # e
    BY <1>1, <2>1, <2>3 DEF Live, Busy
  <2> QED
    BY <2>2, <2>3
<1>4. OneAtATime'
  <2>1. ASSUME NEW f \in Executors, Busy(f), ~HasRow(e[1]) PROVE FALSE
    <3>1. Live(f[1]) /\ Live(e[1]) /\ f[1] \in Broadcasts /\ e[1] \in Broadcasts
      BY <2>1 DEF Live, Executors, SkipIfLogged
    <3> QED
      BY <2>1, <3>1 DEF OneAtATime, SkipIfLogged, Note
  <2>2. \A f \in Executors : Busy(f)' => Busy(f) \/ (f = e /\ ~HasRow(e[1]))
    BY <1>1 DEF Busy
  <2> QED
    BY <1>3, <2>1, <2>2 DEF OneAtATime
<1>5. ASSUME ~HasRow(e[1]) PROVE ~Alerted(e[1])
  <2> SUFFICES ASSUME NEW k \in reached, k[1] = e[1] PROVE FALSE
    BY DEF Alerted
  <2>1. k \in Executors /\ k \in Rows
    BY DEF TypeOK, Executors, Rows
  <2>2. exec[k] # "accepted"
    BY <1>5, <2>1 DEF SkipIfLogged, Note, Busy
  <2>3. status[k] = "SENT"
    BY <2>2 DEF AlertsLogged
  <2> QED
    BY <1>5, <2>1, <2>3 DEF HasRow
<1>6. WithinLimit' /\ (Cardinality(Window(now)) < Limit => Cardinality(Window(now)') < Limit)
  BY QuietStep DEF SkipIfLogged, TypeOK
<1>7. \A d \in Broadcasts : Alerted(d)' = Alerted(d)
  BY DEF Alerted, SkipIfLogged
<1>8. RoomToSend'
  <2> SUFFICES ASSUME NEW f \in Executors
               PROVE  /\ exec'[f] = "sending" => ~Alerted(f[1])'
                      /\ \/ exec'[f] = "sending"
                         \/ exec'[f] = "scheduled" /\ ~HasRow(f[1])' /\ ~Alerted(f[1])'
                         => Cardinality(Window(now)') < Limit
    BY DEF RoomToSend
  <2>1. f[1] \in Broadcasts
    BY DEF Executors
  <2>2. CASE f = e
    BY <1>1, <1>5, <1>6, <1>7, <2>1, <2>2 DEF RoomToSend, SkipIfLogged
  <2>3. CASE f # e
    BY <1>1, <1>6, <1>7, <2>1, <2>3 DEF RoomToSend
  <2> QED
    BY <2>2, <2>3
<1> QED
  BY <1>2, <1>4, <1>6, <1>8

\* The provider is called: the one step that can fill a window.
LEMMA SendStep ==
    ASSUME TypeOK, TypeOK', Accounted, NEW e \in Executors, Send(e), causes' = {}
    PROVE  Accounted'
<1> USE DEF Accounted
<1>1. /\ \A d \in Executors : d # e => exec'[d] = exec[d]
      /\ exec[e] = "sending"
      /\ exec'[e] = "accepted" \/ (exec'[e] = "raised" /\ e \notin reached')
      /\ \A l \in Rows : l # e => sentAt'[l] = sentAt[l]
      /\ sentAt'[e] = now
      /\ now' = now /\ status' = status
      /\ reached' = reached \/ reached' = reached \union {e}
  BY DEF Send, TypeOK, Note, Executors, Rows
<1>2. Executors \subseteq Rows /\ reached \subseteq Executors /\ reached' \subseteq Executors
  BY DEF TypeOK, Executors, Rows
<1>3. e \notin reached
  BY <1>1 DEF AlertsLogged
<1>4. \A d \in Broadcasts : HasRow(d)' = HasRow(d)
  BY <1>1 DEF HasRow
<1>5. AlertsLogged'
  BY <1>1, <1>2, <1>3 DEF AlertsLogged, TypeOK
<1>6. \A d \in Executors : Busy(d)' = Busy(d)
  BY <1>1 DEF Busy
<1>7. OneAtATime'
  <2>1. \A d \in Broadcasts : Live(d)' => Live(d)
    BY <1>1, <1>4, <1>6 DEF Live, Busy
  <2> QED
    BY <1>6, <2>1 DEF OneAtATime
<1>8. Cardinality(Window(now)) < Limit
  BY <1>1 DEF RoomToSend
<1>9. ASSUME NEW l \in reached' PROVE Cardinality(Window(sentAt[l])') <= Limit
  <2>t. /\ now \in Int /\ sentAt'[l] \in Int
        /\ IsFiniteSet(Window(now)) /\ Cardinality(Window(now)) \in Nat
    <3>1. now \in Int /\ l \in Rows /\ sentAt'[l] \in Int
      BY <1>2 DEF TypeOK
    <3>2. IsFiniteSet(Window(now))
      BY <3>1, WindowFinite
    <3> QED
      BY <3>1, <3>2, FS_CardinalityType
  <2>1. CASE sentAt'[l] = now
    <3>1. Window(sentAt[l])' \in SUBSET (Window(now) \union {e})
      BY <1>1, <1>2, <2>1 DEF Window
    <3>2. /\ IsFiniteSet(Window(now) \union {e})
          /\ Cardinality(Window(now) \union {e}) <= Cardinality(Window(now)) + 1
      <4>1. /\ IsFiniteSet(Window(now) \union {e})
            /\ Cardinality(Window(now) \union {e})
               = IF e \in Window(now) THEN Cardinality(Window(now)) ELSE Cardinality(Window(now)) + 1
        BY <2>t, FS_AddElement
      <4> DEFINE old == Cardinality(Window(now))
                 new == Cardinality(Window(now) \union {e})
      <4>2. old \in Nat /\ (new = old \/ new = old + 1)
        BY <2>t, <4>1
      <4> HIDE DEF old, new
      <4>3. new <= old + 1
        BY <4>2
      <4> QED
        BY <4>1, <4>3 DEF old, new
    <3>3. /\ IsFiniteSet(Window(sentAt[l])')
          /\ Cardinality(Window(sentAt[l])') <= Cardinality(Window(now) \union {e})
      BY <3>1, <3>2, FS_Subset
    <3>4. Cardinality(Window(sentAt[l])') \in Nat /\ Cardinality(Window(now) \union {e}) \in Nat
      BY <3>2, <3>3, FS_CardinalityType
    <3> QED
      BY <1>8, <2>t, <3>2, <3>3, <3>4
  <2>2. CASE sentAt'[l] # now
    <3>1. l \in reached /\ l # e /\ sentAt'[l] = sentAt[l] /\ sentAt[l] < now
      BY <1>1, <1>2, <2>2, <2>t DEF AlertsLogged
    <3>2. Window(sentAt[l])' = Window(sentAt[l])
      BY <1>1, <1>2, <1>3, <2>t, <3>1 DEF Window
    <3> QED
      BY <3>1, <3>2 DEF WithinLimit
  <2> QED
    BY <2>1, <2>2
<1>10. RoomToSend'
  <2> SUFFICES ASSUME NEW f \in Executors,
                      exec'[f] = "sending"
                      \/ (exec'[f] = "scheduled" /\ ~HasRow(f[1])' /\ ~Alerted(f[1])')
               PROVE  ~Alerted(f[1])' /\ Cardinality(Window(now)') < Limit
    BY DEF RoomToSend
  <2>1. f # e /\ exec'[f] = exec[f] /\ f[1] \in Broadcasts /\ e[1] \in Broadcasts
    BY <1>1 DEF Executors
  <2>2. exec[f] = "scheduled" /\ ~HasRow(f[1])
    BY <1>1, <1>4, <2>1 DEF OneAtATime, Busy
  <2>3. Live(f[1]) /\ Live(e[1])
    BY <1>1, <2>2 DEF Live, Busy
  <2>4. f[1] = e[1]
    BY <2>1, <2>3 DEF OneAtATime
  <2>5. ~Alerted(f[1])'
    BY <2>1, <2>2
  <2>6. reached' = reached
    BY <1>1, <2>4, <2>5 DEF Alerted
  <2>7. Window(now)' = Window(now)
    BY <1>1, <1>2, <1>3, <2>6 DEF Window
  <2> QED
    BY <1>8, <2>5, <2>7
<1> QED
  BY <1>5, <1>7, <1>9, <1>10 DEF WithinLimit

\* The other steps: nothing is sent or chosen, a row never disappears, and no
\* executor becomes more active than it was.
LEMMA OtherStep ==
    ASSUME TypeOK, TypeOK', Accounted, causes' = {},
           reached' = reached, \A k \in reached : sentAt'[k] = sentAt[k], now <= now',
           \A d \in Executors : exec'[d] = exec[d] \/ exec'[d] = "done",
           \A l \in Rows : status[l] # "none" => status'[l] # "none",
           \A k \in reached : exec'[k] = "accepted" \/ (exec'[k] = "done" /\ status'[k] = "SENT")
    PROVE  Accounted'
<1> USE DEF Accounted
<1>1. /\ WithinLimit'
      /\ Cardinality(Window(now)) < Limit => Cardinality(Window(now)') < Limit
  BY QuietStep
<1>2. AlertsLogged'
  <2>1. now \in Int /\ now' \in Int /\ \A k \in reached : sentAt[k] \in Int
    BY DEF TypeOK, Executors, Rows
  <2> QED
    BY <2>1 DEF AlertsLogged
<1>3. /\ \A b \in Broadcasts : HasRow(b) => HasRow(b)'
      /\ \A b \in Broadcasts : Alerted(b)' = Alerted(b)
  BY DEF HasRow, Alerted
<1>4. \A d \in Executors : Busy(d)' => Busy(d)
  BY DEF Busy
<1>5. \A b \in Broadcasts : Live(b)' => Live(b)
  BY <1>3, <1>4 DEF Live
<1>6. OneAtATime'
  BY <1>4, <1>5 DEF OneAtATime
<1>7. RoomToSend'
  <2>1. \A d \in Executors : d[1] \in Broadcasts
    BY DEF Executors
  <2> QED
    BY <1>1, <1>3, <2>1 DEF RoomToSend
<1> QED
  BY <1>1, <1>2, <1>6, <1>7

-----------------------------------------------------------------------------
LEMMA InvStep == Inv /\ [Next]_vars => Inv'
<1> SUFFICES ASSUME Inv, [Next]_vars PROVE Inv'
  OBVIOUS
<1>1. TypeOK /\ TypeOK' /\ causes \subseteq causes'
  BY TypeStep, CausesStay DEF Inv
<1> SUFFICES ASSUME causes' = {} PROVE Accounted'
  BY <1>1 DEF Inv
<1>2. Accounted
  BY <1>1 DEF Inv
<1>3. ASSUME NEW b \in Broadcasts, Choose(b) PROVE Accounted'
  BY <1>1, <1>2, <1>3, ChooseStep
<1>4. ASSUME NEW e \in Executors, SkipIfLogged(e) PROVE Accounted'
  BY <1>1, <1>2, <1>4, SkipStep
<1>5. ASSUME NEW e \in Executors, Send(e) PROVE Accounted'
  BY <1>1, <1>2, <1>5, SendStep
<1>a. \A k \in reached : /\ k \in Executors /\ k \in Rows
                         /\ exec[k] = "accepted" \/ (exec[k] = "done" /\ status[k] = "SENT")
  BY <1>1, <1>2 DEF Accounted, AlertsLogged, TypeOK, Executors, Rows
<1>b. now <= now
  BY <1>1 DEF TypeOK
<1>6. ASSUME NEW e \in Executors, Commit(e) PROVE Accounted'
  <2>1. /\ \A d \in Executors : exec'[d] = exec[d] \/ exec'[d] = "done"
        /\ \A l \in Rows : status[l] # "none" => status'[l] # "none"
        /\ UNCHANGED <<reached, sentAt, now>>
    BY <1>1, <1>6 DEF Commit, TypeOK
  <2>2. \A k \in reached : exec'[k] = "accepted" \/ (exec'[k] = "done" /\ status'[k] = "SENT")
    BY <1>1, <1>6, <1>a DEF Commit, TypeOK
  <2> QED
    BY <1>1, <1>2, <1>b, <2>1, <2>2, OtherStep
<1>7. ASSUME NEW e \in Executors, Lose(e) PROVE Accounted'
  <2>1. /\ \A d \in Executors : exec'[d] = exec[d] \/ exec'[d] = "done"
        /\ e \notin reached
        /\ UNCHANGED <<reached, sentAt, now, status>>
    BY <1>1, <1>7 DEF Lose, Note, TypeOK
  <2>2. \A k \in reached : exec'[k] = "accepted" \/ (exec'[k] = "done" /\ status'[k] = "SENT")
    BY <1>1, <1>7, <1>a, <2>1 DEF Lose, TypeOK
  <2> QED
    BY <1>1, <1>2, <1>b, <2>1, <2>2, OtherStep
<1>8. ASSUME NEW l \in Rows, NotifyOwner(l) PROVE Accounted'
  <2>1. /\ \A r \in Rows : status[r] # "none" => status'[r] # "none"
        /\ \A k \in reached : sentAt'[k] = sentAt[k] /\ status'[k] = status[k]
        /\ UNCHANGED <<reached, exec, now>>
    BY <1>1, <1>8, <1>a DEF NotifyOwner, TypeOK
  <2> QED
    BY <1>1, <1>2, <1>a, <1>b, <2>1, OtherStep
<1>9. ASSUME NEW l \in Rows, NEW report \in Statuses, Receipt(l, report) PROVE Accounted'
  <2>1. report # "none" /\ (l \in reached => report = "SENT")
    BY <1>9 DEF Receipt, Reports, Note
  <2>2. /\ \A r \in Rows : status'[r] = IF r = l THEN report ELSE status[r]
        /\ UNCHANGED <<reached, exec, now, sentAt>>
    BY <1>1, <1>9 DEF Receipt, TypeOK
  <2>3. exec[l] = "done" \/ l \notin reached \/ exec[l] = "accepted"
    BY <1>a
  <2>4. \A k \in reached : exec'[k] = "accepted" \/ (exec'[k] = "done" /\ status'[k] = "SENT")
    BY <1>a, <2>1, <2>2
  <2> QED
    BY <1>1, <1>2, <1>b, <2>1, <2>2, <2>4, OtherStep
<1>10. CASE Tick
  <2>1. now <= now' /\ UNCHANGED <<reached, exec, status, sentAt>>
    BY <1>1, <1>10 DEF Tick, TypeOK
  <2> QED
    BY <1>1, <1>2, <1>a, <2>1, OtherStep
<1>11. CASE UNCHANGED vars
  BY <1>1, <1>2, <1>a, <1>b, <1>11, OtherStep DEF vars
<1> QED
  BY <1>3, <1>4, <1>5, <1>6, <1>7, <1>8, <1>9, <1>10, <1>11 DEF Next

LEMMA InvInit == Init => Inv
<1> SUFFICES ASSUME Init PROVE Inv
  OBVIOUS
<1>1. TypeOK
  BY DEF Init, TypeOK, ExecSteps, Statuses
<1>2. \A e \in Executors : exec[e] = "none"
  BY DEF Init
<1> QED
  BY <1>1, <1>2 DEF Init, Inv, Accounted, AlertsLogged, OneAtATime, RoomToSend, WithinLimit, Live, Busy

\* The spam guard keeps its limit, whatever it is, for any number of broadcasts
\* and any window, until one of the things happens that its count cannot see.
\* (can_send_notification.)
THEOREM BudgetKept == Spec => []BreachHasCause
<1>1. Inv => BreachHasCause
  BY DEF Inv, Accounted, BreachHasCause
<1> QED
  BY <1>1, InvInit, InvStep, PTL DEF Spec
=============================================================================
