--------------------------- MODULE Waitlist_proofs ---------------------------
(***************************************************************************)
(* Waitlist: one row per phone, whose preferences it carries, and who gets *)
(* an alert, for any number of requests, phones, businesses and slots.     *)
(***************************************************************************)
EXTENDS Waitlist, TLAPS

\* Who holds a key of customers: the rows, and those about to be committed.
Holders == rows \union {r \in Forms : step[r] = "inserted"}

\* Rows were committed by the form that is their id, and are never deleted.
RowsInv ==
    /\ rows \subseteq Committed
    /\ \A w \in Requests :
          w \in Committed \/ step[w] \in {"found", "deleting", "deleted"} => target[w] \in rows
    /\ \A r \in Forms : step[r] \in {"new", "inserted"} => target[r] = r
    /\ \A r \in Forms : target[r] # None => SameCustomer(r, target[r]) /\ Acceptable(r)

\* The unique constraint, with the uncommitted rows that make others wait.
KeysInv == \A c, d \in Holders : SameCustomer(c, d) => c = d

\* Preferences are those of committed forms about the row, and a DELETE sees all that
\* were committed before its request began.
PrefsInv ==
    /\ \A w \in Requests : before[w] \subseteq Committed
    /\ \A c \in Forms : \A r \in prefs[c] : r \in Committed /\ target[r] = c
    /\ \A c \in Forms : c \notin rows => prefs[c] = {}
    /\ \A w \in Requests : step[w] \in {"deleting", "deleted"} =>
          prefs[target[w]] \intersect before[w] \subseteq victims[w]

\* The registration that a customer is alerted for.
Asked(a, c) ==
    \E r \in Forms \intersect heeded[a] :
        /\ target[r] = c
        /\ Wants(r, a)
        /\ \A w \in heeded[a] : target[w] = c => r \notin before[w]

\* Recipients are chosen from what is committed, and only they are alerted.
ChosenInv ==
    \A a \in Asks :
        /\ heeded[a] \subseteq Committed
        /\ chosen[a] = None => alerted[a] = {}
        /\ chosen[a] # None => alerted[a] \subseteq chosen[a] /\ \A c \in chosen[a] : Asked(a, c)

WaitInv ==
    /\ WaitTypeOK /\ RowsInv /\ KeysInv /\ PrefsInv /\ ChosenInv
    /\ OnlyOverlapsCoexist /\ StoredUntilReplaced /\ WaitlistedAreAlerted /\ GoodbyeIsHeard

USE WaitlistAssumption

LEMMA HourOfWeek ==
    ASSUME NEW utc \in 0 .. 167, NEW d \in 0 .. 6, NEW h \in 0 .. 23
    PROVE  utc + 24 - (24 * d + h) \in {0, 168} <=>
           d = ((utc \div 24) + 1) % 7 /\ h = utc % 24
<1> DEFINE q == utc \div 24
           l == utc % 24
<1>1. q \in 0 .. 6 /\ l \in 0 .. 23 /\ utc = 24 * q + l
  OBVIOUS
<1>2. (q + 1) % 7 = IF q = 6 THEN 0 ELSE q + 1
  <2> HIDE DEF q
  <2> QED
    BY <1>1
<1> HIDE DEF q, l
<1>3. utc + 24 - (24 * d + h) = 24 * (q + 1 - d) + (l - h)
  BY <1>1
<1>4. utc + 24 - (24 * d + h) = 0 <=> (q + 1 = d /\ l = h)
  BY <1>1
<1>5. utc + 24 - (24 * d + h) = 168 <=> (q = 6 /\ d = 0 /\ l = h)
  BY <1>1
<1>6. utc + 24 - (24 * d + h) \in {0, 168} <=> d = (q + 1) % 7 /\ h = l
  BY <1>1, <1>2, <1>4, <1>5
<1> QED
  BY <1>6 DEF q, l

LEMMA StoredHour ==
    ASSUME NEW a \in Asks
    PROVE  /\ Ask[a].at.utc \in 0 .. 167
           /\ LocalHour(Stored(Ask[a].at)) = Ask[a].at.utc
  BY DEF LocalHour, Stored, DateTime, WeekHours

LEMMA HourOfSlot ==
    ASSUME NEW t \in TimeSlots, NEW hour \in 0 .. 23
    PROVE  t = (IF hour < 12 THEN "MORNING" ELSE IF hour < 16 THEN "AFTERNOON" ELSE "EVENING")
           <=> hour \in Hours[t]
  BY DEF TimeSlots, Hours

LEMMA HoursOfDay == ASSUME NEW t \in TimeSlots PROVE Hours[t] \subseteq 0 .. 23
  BY DEF TimeSlots, Hours

LEMMA MatchMeaning ==
    ASSUME NEW r \in Forms, NEW a \in Asks, Acceptable(r), Form[r].business = Ask[a].business
    PROVE  (\E p \in Rows[r] : Matches(p, Stored(Ask[a].at), Ask[a].service)) <=> Wants(r, a)
<1> DEFINE utc == Ask[a].at.utc
           day == CalculateDayOfWeek(Stored(Ask[a].at))
           slot == GetTimeSlot(Stored(Ask[a].at))
           fits == \E d \in Days(r), t \in Times(r) : \E h \in Hours[t] :
                        utc + 24 - (24 * d + h) \in {0, WeekHours}
           asks == Form[r].services = {} \/ Ask[a].service \in Form[r].services
<1>1. /\ utc \in 0 .. 167
      /\ day = ((utc \div 24) + 1) % 7
      /\ slot = IF utc % 24 < 12 THEN "MORNING" ELSE IF utc % 24 < 16 THEN "AFTERNOON" ELSE "EVENING"
  BY StoredHour DEF CalculateDayOfWeek, GetTimeSlot, Weekday
<1>2. Days(r) \subseteq 0 .. 6 /\ Times(r) \subseteq TimeSlots
  BY DEF Acceptable
<1>3. Rows[r] = Days(r) \X Times(r) \X OrElse(Form[r].services, {None})
  BY DEF Rows, Matrix
<1> HIDE DEF utc, day, slot
<1>4. fits <=> day \in Days(r) /\ slot \in Times(r)
  <2>0. utc % 24 \in 0 .. 23
    BY <1>1
  <2>1. \A d \in Days(r), t \in Times(r) : \A h \in Hours[t] :
            utc + 24 - (24 * d + h) \in {0, WeekHours} <=> d = day /\ h = utc % 24
    BY <1>1, <1>2, HourOfWeek, HoursOfDay DEF WeekHours
  <2>2. \A t \in Times(r) : t = slot <=> utc % 24 \in Hours[t]
    BY <1>1, <1>2, <2>0, HourOfSlot
  <2> QED
    BY <2>1, <2>2
<1>5. (\E p \in Rows[r] : Matches(p, Stored(Ask[a].at), Ask[a].service))
      <=> day \in Days(r) /\ slot \in Times(r) /\ asks
  <2>1. asks <=> \E s \in OrElse(Form[r].services, {None}) : s \in {None, Ask[a].service}
    BY DEF OrElse
  <2>2. \A p \in Rows[r] : Matches(p, Stored(Ask[a].at), Ask[a].service)
            <=> p[1] = day /\ p[2] = slot /\ p[3] \in {None, Ask[a].service}
    BY DEF Matches, day, slot
  <2>3. ASSUME NEW p \in Rows[r], Matches(p, Stored(Ask[a].at), Ask[a].service)
        PROVE  day \in Days(r) /\ slot \in Times(r) /\ asks
    BY <1>3, <2>1, <2>2, <2>3
  <2>4. ASSUME day \in Days(r), slot \in Times(r), asks
        PROVE  \E p \in Rows[r] : Matches(p, Stored(Ask[a].at), Ask[a].service)
    <3>1. PICK s \in OrElse(Form[r].services, {None}) : s \in {None, Ask[a].service}
      BY <2>1, <2>4
    <3>2. <<day, slot, s>> \in Rows[r]
      BY <1>3, <2>4
    <3> QED
      BY <2>2, <3>1, <3>2
  <2> QED
    BY <2>3, <2>4
<1> QED
  BY <1>4, <1>5 DEF Wants, utc

-----------------------------------------------------------------------------
\* Nothing is stored at the start.
LEMMA WaitInvInit == WaitInit => WaitInv
<1> SUFFICES ASSUME WaitInit PROVE WaitInv
  OBVIOUS
<1> USE DEF WaitInit
<1>1. WaitTypeOK
  <2>1. step \in [Requests -> Open \union Ended \union {"idle", "committed", "cut"}]
    BY DEF Open, Ended
  <2>2. target \in [Requests -> Forms \union {None}] /\ chosen \in [Asks -> (SUBSET Forms) \union {None}]
    OBVIOUS
  <2> QED
    BY <2>1, <2>2 DEF WaitTypeOK
<1>2. RowsInv /\ KeysInv /\ PrefsInv /\ ChosenInv
  BY DEF RowsInv, KeysInv, Holders, PrefsInv, ChosenInv, Committed, Requests
<1>3. OnlyOverlapsCoexist /\ StoredUntilReplaced /\ WaitlistedAreAlerted /\ GoodbyeIsHeard
  BY DEF OnlyOverlapsCoexist, StoredUntilReplaced, WaitlistedAreAlerted, GoodbyeIsHeard,
         Committed, Requests
<1> QED
  BY <1>1, <1>2, <1>3 DEF WaitInv

\* What was chosen stays deserved, as no step changes what a committed request is about.
LEMMA ChosenKept ==
    ASSUME ChosenInv, WaitlistedAreAlerted, UNCHANGED <<chosen, alerted, heeded>>,
           Committed \subseteq Committed',
           \A w \in Committed : target'[w] = target[w] /\ before'[w] = before[w]
    PROVE  ChosenInv' /\ WaitlistedAreAlerted'
<1>1. \A a \in Asks, r \in Forms : Wants(r, a)' <=> Wants(r, a)
  BY DEF Wants, Days, Times
<1>2. \A a \in Asks : \A w \in heeded[a] : target'[w] = target[w] /\ before'[w] = before[w]
  BY DEF ChosenInv
<1>3. \A a \in Asks : \A c : Asked(a, c) => Asked(a, c)'
  BY <1>1, <1>2 DEF Asked
<1>4. ChosenInv'
  BY <1>3 DEF ChosenInv
<1>5. WaitlistedAreAlerted'
  BY <1>1, <1>2 DEF WaitlistedAreAlerted, Outlived
<1> QED
  BY <1>4, <1>5

\* A step of one request that writes nothing others can see: it moves on, or ends.
LEMMA MoveKeeps ==
    ASSUME WaitInv, NEW w \in Requests, NEW s, NEW seen \in SUBSET Forms,
           s \in {"deleting", "deleted", "inserted", "201", "404", "422", "500",
                  "confirmed", "dropped", "cut"},
           step' = [step EXCEPT ![w] = s], victims' = [victims EXCEPT ![w] = seen],
           w \in Committed <=> s \in {"201", "confirmed", "cut"},
           s = "inserted" =>
               /\ w \in Forms /\ step[w] = "new"
               /\ \A c \in Holders : ~SameCustomer(w, c) /\ ~SameCustomer(c, w),
           s \in {"deleting", "deleted"} =>
               /\ step[w] \in {"found", "deleting"}
               /\ prefs[target[w]] \intersect before[w] \subseteq seen,
           UNCHANGED <<rows, prefs, target, before, chosen, alerted, heeded, shown>>
    PROVE  WaitInv'
<1> USE DEF WaitInv
<1>1. /\ step'[w] = s /\ \A v \in Requests : v # w => step'[v] = step[v]
      /\ victims'[w] = seen /\ \A v \in Requests : v # w => victims'[v] = victims[v]
      /\ Forms \subseteq Requests
  BY DEF WaitTypeOK, Requests
<1>2. WaitTypeOK'
  BY DEF WaitTypeOK, Open, Ended
<1>3. Committed' = Committed
  BY <1>1 DEF Committed
<1>4. RowsInv'
  BY <1>1, <1>3 DEF RowsInv, SameCustomer, Phone, Acceptable
<1>5. KeysInv'
  <2>1. Holders' \subseteq Holders \union {x \in {w} : s = "inserted"}
    BY <1>1 DEF Holders
  <2>2. \A c, d : SameCustomer(c, d)' <=> SameCustomer(c, d)
    BY DEF SameCustomer, Phone
  <2> QED
    BY <2>1, <2>2 DEF KeysInv
<1>6. PrefsInv'
  BY <1>1, <1>3 DEF PrefsInv
<1>7. ChosenInv' /\ WaitlistedAreAlerted'
  BY <1>3, ChosenKept
<1>8. OnlyOverlapsCoexist' /\ StoredUntilReplaced'
  BY <1>3 DEF OnlyOverlapsCoexist, StoredUntilReplaced, Outlived
<1>9. GoodbyeIsHeard'
  BY <1>1 DEF GoodbyeIsHeard, Requests
<1> QED
  BY <1>2, <1>4, <1>5, <1>6, <1>7, <1>8, <1>9

\* A request begins: it has read the customer's row, or that there is none.
LEMMA SettleKeeps ==
    ASSUME WaitInv, NEW w \in Requests, NEW c \in Forms \union {None},
           NEW s \in {"found", "new", "unknown", "ambiguous"},
           step[w] = "idle", Settle(w, c, s),
           s = "found" => c \in rows,
           s = "new" => c = w /\ w \in Forms,
           w \in Forms => c \in Forms /\ SameCustomer(w, c) /\ Acceptable(w),
           w \in OptOuts => (s \in {"unknown", "ambiguous"} =>
               LET known == {r \in Forms \intersect Committed :
                                Form[r].phone.number = Goodbye[w].number}
               IN /\ s = "unknown" => known = {}
                  /\ s = "ambiguous" =>
                        \E r, t \in known : Form[r].business # Form[t].business),
           w \in Forms => s \notin {"unknown", "ambiguous"}
    PROVE  WaitInv'
<1> USE DEF WaitInv
<1>1. /\ step'[w] = s /\ \A v \in Requests : v # w => step'[v] = step[v]
      /\ target'[w] = c /\ \A v \in Requests : v # w => target'[v] = target[v]
      /\ before'[w] = Committed /\ \A v \in Requests : v # w => before'[v] = before[v]
      /\ UNCHANGED <<rows, prefs, victims, chosen, alerted, heeded, shown>>
      /\ Forms \subseteq Requests /\ Committed \subseteq Requests /\ w \notin Committed
  BY DEF Settle, WaitTypeOK, Requests, Committed
<1>2. WaitTypeOK'
  BY <1>1 DEF Settle, WaitTypeOK, Open, Ended
<1>3. Committed' = Committed
  BY <1>1 DEF Committed
<1>4. \A v \in Committed : target'[v] = target[v] /\ before'[v] = before[v]
  BY <1>1
<1>5. RowsInv'
  BY <1>1, <1>3 DEF RowsInv, SameCustomer, Phone, Acceptable
<1>6. KeysInv'
  <2>1. Holders' \subseteq Holders
    BY <1>1 DEF Holders
  <2>2. \A b, d : SameCustomer(b, d)' <=> SameCustomer(b, d)
    BY DEF SameCustomer, Phone
  <2> QED
    BY <2>1, <2>2 DEF KeysInv
<1>7. PrefsInv'
  BY <1>1, <1>3 DEF PrefsInv
<1>8. ChosenInv' /\ WaitlistedAreAlerted'
  BY <1>1, <1>3, <1>4, ChosenKept
<1>9. OnlyOverlapsCoexist' /\ StoredUntilReplaced'
  BY <1>1, <1>3, <1>4 DEF OnlyOverlapsCoexist, StoredUntilReplaced, Outlived
<1>10. GoodbyeIsHeard'
  BY <1>1 DEF GoodbyeIsHeard, Requests
<1> QED
  BY <1>2, <1>5, <1>6, <1>7, <1>8, <1>9, <1>10

\* A request commits: what it has deleted is gone and, if it is a form, its own
\* preferences are there.
LEMMA CommitKeeps ==
    ASSUME WaitInv, NEW w \in Requests, NEW new \in SUBSET Forms,
           step[w] \in {"deleted", "inserted"},
           w \in Forms => new = {w}, w \in OptOuts => new = {} /\ step[w] = "deleted",
           EndAs(w, "committed"),
           rows' = rows \union {target[w]},
           prefs' = [prefs EXCEPT ![target[w]] = (@ \ victims[w]) \union new],
           shown' = [a \in Asks |-> None],
           UNCHANGED <<target, before, chosen, alerted, heeded>>
    PROVE  WaitInv'
<1> USE DEF WaitInv
<1> DEFINE c == target[w]
<1>1. /\ step'[w] = "committed" /\ \A v \in Requests : v # w => step'[v] = step[v]
      /\ \A v \in Requests : v # w => victims'[v] = victims[v]
      /\ Forms \subseteq Requests /\ Committed \subseteq Requests /\ w \notin Committed
  BY DEF EndAs, WaitTypeOK, Requests, Committed
<1>2. c \in Forms /\ (w \in Forms \/ w \in OptOuts)
  BY <1>1 DEF RowsInv, WaitTypeOK, Requests
<1>3. Committed' = Committed \union {w}
  BY <1>1 DEF Committed
<1>4. /\ prefs'[c] = (prefs[c] \ victims[w]) \union new
      /\ \A d \in Forms : d # c => prefs'[d] = prefs[d]
  BY <1>2 DEF WaitTypeOK
<1>5. new \subseteq {w}
  BY <1>2
<1>6. WaitTypeOK'
  <2>1. step' \in [Requests -> Open \union Ended \union {"idle", "committed", "cut"}]
    BY DEF EndAs, WaitTypeOK
  <2>2. rows' \subseteq Forms /\ prefs' \in [Forms -> SUBSET Forms]
    BY <1>2 DEF WaitTypeOK
  <2>3. victims' \in [Requests -> SUBSET Forms]
    BY DEF EndAs, WaitTypeOK
  <2>4. shown' \in [Asks -> (SUBSET Forms) \union {None}]
    OBVIOUS
  <2> QED
    BY <2>1, <2>2, <2>3, <2>4 DEF WaitTypeOK
<1>7. step[w] = "inserted" => c = w /\ w \in Forms
  BY <1>2 DEF RowsInv
<1>8. step[w] = "deleted" => c \in rows
  BY DEF RowsInv
<1>9. \A v \in Requests : w \notin before[v]
  BY <1>1 DEF PrefsInv
<1>10. RowsInv'
  BY <1>1, <1>2, <1>3, <1>7, <1>8 DEF RowsInv, SameCustomer, Phone, Acceptable
<1>11. KeysInv'
  <2>1. Holders' \subseteq Holders
    BY <1>1, <1>7, <1>8 DEF Holders
  <2>2. \A b, d : SameCustomer(b, d)' <=> SameCustomer(b, d)
    BY DEF SameCustomer, Phone
  <2> QED
    BY <2>1, <2>2 DEF KeysInv
<1>12. PrefsInv'
  <2>1. \A v \in Requests : before'[v] \subseteq Committed'
    BY <1>3 DEF PrefsInv
  <2>2. \A d \in Forms : \A r \in prefs'[d] : r \in Committed' /\ target'[r] = d
    BY <1>3, <1>4, <1>5 DEF PrefsInv
  <2>3. \A d \in Forms : d \notin rows' => prefs'[d] = {}
    BY <1>4 DEF PrefsInv
  <2>4. \A d \in Forms : prefs'[d] \subseteq prefs[d] \union {w}
    BY <1>4, <1>5
  <2>5. ASSUME NEW v \in Requests, step'[v] \in {"deleting", "deleted"}
        PROVE  prefs'[target'[v]] \intersect before'[v] \subseteq victims'[v]
    <3>1. v # w /\ step[v] \in {"deleting", "deleted"} /\ target[v] \in Forms
      BY <1>1, <2>5 DEF RowsInv, WaitTypeOK
    <3> QED
      BY <1>1, <1>9, <2>4, <3>1 DEF PrefsInv
  <2> QED
    BY <2>1, <2>2, <2>3, <2>5 DEF PrefsInv
<1>13. ChosenInv' /\ WaitlistedAreAlerted'
  BY <1>3, ChosenKept
<1>14. OnlyOverlapsCoexist'
  <2> SUFFICES ASSUME NEW d \in Forms, NEW r \in prefs'[d], NEW v \in Committed',
                      target[v] = d, r \in before[v]
               PROVE  FALSE
    BY DEF OnlyOverlapsCoexist
  <2>1. r # w /\ r \in prefs[d]
    BY <1>1, <1>3, <1>4, <1>5, <1>9
  <2>2. CASE v = w
    <3>1. d = c /\ r \notin victims[w]
      BY <1>4, <1>5, <2>1, <2>2
    <3>2. step[w] = "inserted"
      BY <2>1, <2>2, <3>1 DEF PrefsInv
    <3>3. c \notin rows
      BY <1>1, <1>7, <3>2 DEF RowsInv
    <3> QED
      BY <1>2, <2>1, <3>1, <3>3 DEF PrefsInv
  <2>3. CASE v # w
    BY <1>3, <2>1, <2>3 DEF OnlyOverlapsCoexist
  <2> QED
    BY <2>2, <2>3
<1>15. StoredUntilReplaced'
  <2> SUFFICES ASSUME NEW r \in Forms \intersect Committed'
               PROVE  r \in prefs'[target[r]] \/ Outlived(r, Committed')
    BY DEF StoredUntilReplaced, Outlived
  <2>1. CASE r = w
    BY <1>4, <2>1
  <2>2. CASE r # w /\ r \in prefs[target[r]] /\ r \notin prefs'[target[r]]
    <3>1. target[r] = c
      BY <1>3, <1>4, <2>2 DEF RowsInv, WaitTypeOK
    <3> QED
      BY <1>1, <1>3, <1>9, <2>2, <3>1 DEF Outlived
  <2>3. CASE r # w /\ r \notin prefs[target[r]]
    BY <1>3, <2>3 DEF StoredUntilReplaced, Outlived
  <2> QED
    BY <2>1, <2>2, <2>3
<1>16. GoodbyeIsHeard'
  BY <1>1 DEF GoodbyeIsHeard, Requests
<1> QED
  BY <1>6, <1>10, <1>11, <1>12, <1>13, <1>14, <1>15, <1>16

\* Whoever matches has asked for it, and whoever asked for it and is stored matches.
LEMMA AudienceMeaning ==
    ASSUME WaitInv, NEW a \in Asks
    PROVE  /\ Audience(a, Stored(Ask[a].at)) \subseteq rows
           /\ \A c \in Audience(a, Stored(Ask[a].at)) : \E r \in prefs[c] : Wants(r, a)
           /\ \A r \in Forms \intersect Committed :
                 Wants(r, a) /\ r \in prefs[target[r]]
                     => target[r] \in Audience(a, Stored(Ask[a].at))
<1> USE DEF WaitInv
<1>1. ASSUME NEW c \in rows, NEW r \in prefs[c]
      PROVE  r \in Forms /\ Acceptable(r) /\ Form[r].business = Form[c].business
  BY <1>1 DEF PrefsInv, RowsInv, WaitTypeOK, SameCustomer
<1>2. ASSUME NEW c \in Audience(a, Stored(Ask[a].at))
      PROVE  c \in rows /\ \E r \in prefs[c] : Wants(r, a)
  <2>1. PICK r \in prefs[c] : \E p \in Rows[r] : Matches(p, Stored(Ask[a].at), Ask[a].service)
    BY DEF Audience
  <2>2. c \in rows /\ Form[c].business = Ask[a].business
    BY DEF Audience
  <2>3. Wants(r, a)
    BY <1>1, <2>1, <2>2, MatchMeaning
  <2> QED
    BY <2>2, <2>3
<1>3. ASSUME NEW r \in Forms \intersect Committed, Wants(r, a), r \in prefs[target[r]]
      PROVE  target[r] \in Audience(a, Stored(Ask[a].at))
  <2>1. target[r] \in rows
    BY DEF RowsInv, Committed
  <2>2. Acceptable(r) /\ Form[r].business = Form[target[r]].business
    BY <1>1, <1>3, <2>1
  <2>3. Form[r].business = Ask[a].business
    BY <1>3 DEF Wants
  <2>4. \E p \in Rows[r] : Matches(p, Stored(Ask[a].at), Ask[a].service)
    BY <1>3, <2>2, <2>3, MatchMeaning
  <2> QED
    BY <1>3, <2>1, <2>2, <2>3, <2>4 DEF Audience
<1> QED
  BY <1>2, <1>3

\* A broadcast chooses its recipients.
LEMMA ChooseKeeps ==
    ASSUME WaitInv, NEW a \in Asks, Choose(a)
    PROVE  WaitInv'
<1> USE DEF WaitInv
<1> DEFINE audience == Audience(a, Stored(Ask[a].at))
<1>1. /\ chosen'[a] = audience /\ \A b \in Asks : b # a => chosen'[b] = chosen[b]
      /\ heeded'[a] = Committed /\ \A b \in Asks : b # a => heeded'[b] = heeded[b]
      /\ UNCHANGED <<rows, prefs, step, target, victims, before, alerted, shown>>
      /\ alerted[a] = {}
  BY DEF Choose, WaitTypeOK, ChosenInv
<1>2. audience \subseteq rows /\ rows \subseteq Forms
  BY AudienceMeaning DEF WaitTypeOK
<1>3. Committed' = Committed /\ Committed \subseteq Requests
  BY <1>1 DEF Committed
<1>4. WaitTypeOK'
  BY <1>1, <1>2, <1>3 DEF Choose, WaitTypeOK
<1>5. RowsInv' /\ KeysInv' /\ PrefsInv'
  BY <1>1, <1>3 DEF RowsInv, KeysInv, Holders, PrefsInv, SameCustomer, Phone, Acceptable
<1>6. OnlyOverlapsCoexist' /\ StoredUntilReplaced' /\ GoodbyeIsHeard'
  BY <1>1, <1>3 DEF OnlyOverlapsCoexist, StoredUntilReplaced, Outlived, GoodbyeIsHeard
<1>7. \A b \in Asks, r \in Forms : Wants(r, b)' <=> Wants(r, b)
  BY DEF Wants, Days, Times
<1>8. \A c \in audience : Asked(a, c)'
  <2> SUFFICES ASSUME NEW c \in audience PROVE Asked(a, c)'
    OBVIOUS
  <2>1. PICK r \in prefs[c] : Wants(r, a)
    BY AudienceMeaning
  <2>2. r \in Forms \intersect Committed /\ target[r] = c /\ c \in Forms
    BY <1>2 DEF PrefsInv, WaitTypeOK
  <2>3. \A w \in Committed : target[w] = c => r \notin before[w]
    BY <2>2 DEF OnlyOverlapsCoexist
  <2>4. Wants(r, a)'
    BY <1>7, <2>1, <2>2
  <2> QED
    BY <1>1, <2>2, <2>3, <2>4 DEF Asked
<1>9. \A b \in Asks : \A c : b # a /\ Asked(b, c) => Asked(b, c)'
  BY <1>1, <1>7 DEF Asked
<1>10. ChosenInv'
  BY <1>1, <1>3, <1>8, <1>9 DEF ChosenInv
<1>11. WaitlistedAreAlerted'
  <2> SUFFICES ASSUME NEW b \in Asks, chosen'[b] # None,
                      NEW r \in Forms \intersect heeded'[b], Wants(r, b)
               PROVE  target[r] \in chosen'[b] \/ Outlived(r, heeded'[b])
    BY <1>1, <1>7 DEF WaitlistedAreAlerted, Outlived
  <2>1. CASE b = a
    BY <1>1, <2>1, AudienceMeaning DEF StoredUntilReplaced
  <2>2. CASE b # a
    BY <1>1, <2>2 DEF WaitlistedAreAlerted
  <2> QED
    BY <2>1, <2>2
<1> QED
  BY <1>4, <1>5, <1>6, <1>10, <1>11

\* A preview or an alert: the waitlist stays as it is.
LEMMA LookKeeps ==
    ASSUME WaitInv, NEW a \in Asks, Preview(a) \/ Alert(a)
    PROVE  WaitInv'
<1> USE DEF WaitInv
<1>1. /\ UNCHANGED <<rows, prefs, step, target, victims, before, chosen, heeded>>
      /\ \A b \in Asks : alerted'[b] = alerted[b] \/ (chosen[b] # None /\ alerted'[b] \subseteq alerted[b] \union chosen[b])
  BY DEF Preview, Alert, WaitTypeOK
<1>2. WaitTypeOK'
  <2>1. CASE Preview(a)
    BY <2>1 DEF Preview, Audience, WaitTypeOK
  <2>2. CASE Alert(a)
    <3>1. PICK c \in chosen[a] \ alerted[a] : alerted' = [alerted EXCEPT ![a] = @ \union {c}]
      BY <2>2 DEF Alert
    <3>2. c \in Forms
      BY <2>2 DEF Alert, WaitTypeOK
    <3> QED
      BY <2>2, <3>1, <3>2 DEF Alert, WaitTypeOK
  <2> QED
    BY <2>1, <2>2
<1>3. Committed' = Committed
  BY <1>1 DEF Committed
<1>4. RowsInv' /\ KeysInv' /\ PrefsInv'
  BY <1>1, <1>3 DEF RowsInv, KeysInv, Holders, PrefsInv, SameCustomer, Phone, Acceptable
<1>5. OnlyOverlapsCoexist' /\ StoredUntilReplaced' /\ GoodbyeIsHeard'
  BY <1>1, <1>3 DEF OnlyOverlapsCoexist, StoredUntilReplaced, Outlived, GoodbyeIsHeard
<1>6. \A b \in Asks, r \in Forms : Wants(r, b)' <=> Wants(r, b)
  BY DEF Wants, Days, Times
<1>7. \A b \in Asks : \A c : Asked(b, c) => Asked(b, c)'
  BY <1>1, <1>6 DEF Asked
<1>8. ChosenInv'
  BY <1>1, <1>3, <1>7 DEF ChosenInv
<1>9. WaitlistedAreAlerted'
  BY <1>1, <1>6 DEF WaitlistedAreAlerted, Outlived
<1> QED
  BY <1>2, <1>4, <1>5, <1>8, <1>9

-----------------------------------------------------------------------------
\* What the variants of an international spelling find: the stored form of the number,
\* and of no other.
LEMMA VariantsFind ==
    ASSUME NEW o \in OptOuts, Goodbye[o] # None, NEW n \in Numerals
    PROVE  E164(n) \in Variants(Goodbye[o]) <=> n = Goodbye[o].number
<1>1. Goodbye[o] \in Spelling /\ Goodbye[o].lead = "972"
  OBVIOUS
<1>2. Digits(Goodbye[o]) \in {11, 12}
  BY <1>1 DEF Digits, LeadLength, Leads
<1>3. Cleanable(Goodbye[o])
  BY <1>1, <1>2 DEF Cleanable, LeadLength, Leads
<1>4. Goodbye[o].number \in Numerals
  BY <1>1 DEF Spelling
<1>5. \A v \in Variants(Goodbye[o]) : v.number = Goodbye[o].number
  BY <1>1, <1>3 DEF Variants, Clean, E164, Spelling
<1>6. E164(Goodbye[o].number) \in Variants(Goodbye[o])
  BY <1>3 DEF Variants
<1> QED
  BY <1>5, <1>6 DEF E164

\* A text to opt out begins.
LEMMA FindSenderKeeps ==
    ASSUME WaitInv, NEW o \in OptOuts, FindSender(o)
    PROVE  WaitInv'
<1> USE DEF WaitInv
<1> DEFINE known == {r \in Forms \intersect Committed :
                        Form[r].phone.number = Goodbye[o].number}
<1>1. step[o] = "idle" /\ Goodbye[o] # None /\ o \in Requests /\ o \notin Forms
  BY DEF FindSender, Requests
<1>2. \A r \in Forms : Phone(r) = E164(Form[r].phone.number) /\ Form[r].phone.number \in Numerals
  BY DEF Phone, Normalize, Spelling
<1>3. \A c \in rows : c \in Senders(o) <=> Form[c].phone.number = Goodbye[o].number
  BY <1>1, <1>2, VariantsFind DEF Senders, WaitTypeOK
<1>4. ASSUME NEW c \in rows, Senders(o) = {c}, Settle(o, c, "found") PROVE WaitInv'
  BY <1>1, <1>4, SettleKeeps DEF WaitTypeOK
<1>5. ASSUME Senders(o) = {}, Settle(o, None, "unknown") PROVE WaitInv'
  <2>1. ASSUME NEW r \in known PROVE FALSE
    <3>1. target[r] \in rows /\ target[r] \in Forms
      BY DEF RowsInv, WaitTypeOK, Committed
    <3>2. Phone(target[r]) = Phone(r)
      BY <3>1 DEF RowsInv, SameCustomer
    <3>3. Form[target[r]].phone.number = Form[r].phone.number
      BY <1>2, <3>1, <3>2 DEF E164
    <3> QED
      BY <1>3, <1>5, <3>1, <3>3
  <2>2. known = {}
    BY <2>1
  <2> QED
    BY <1>1, <1>5, <2>2, SettleKeeps
<1>6. ASSUME NEW c \in Senders(o), NEW d \in Senders(o), c # d, Settle(o, None, "ambiguous")
      PROVE  WaitInv'
  <2>1. c \in rows /\ d \in rows /\ c \in Forms /\ d \in Forms
    BY DEF Senders, WaitTypeOK
  <2>2. Form[c].phone.number = Form[d].phone.number
    BY <1>3, <2>1
  <2>3. Form[c].business # Form[d].business
    BY <1>2, <1>6, <2>1, <2>2 DEF KeysInv, Holders, SameCustomer
  <2>4. c \in known /\ d \in known
    BY <1>3, <2>1 DEF RowsInv
  <2> QED
    BY <1>1, <1>6, <2>3, <2>4, SettleKeeps
<1> QED
  BY <1>4, <1>5, <1>6 DEF FindSender

\* The DELETE's snapshot has everything that was committed before the request began, and
\* what drops out of it later was deleted by others.
LEMMA DeleteKeeps ==
    ASSUME WaitInv, NEW w \in Requests, DeleteBegins(w) \/ DeleteEnds(w)
    PROVE  WaitInv'
<1>1. /\ step \in [Requests -> Open \union Ended \union {"idle", "committed", "cut"}]
      /\ victims \in [Requests -> SUBSET Forms]
      /\ w \in Committed <=> step[w] \in {"committed", "201", "confirmed", "cut"}
  BY DEF Committed, WaitInv, WaitTypeOK
<1>2. CASE DeleteBegins(w)
  <2> DEFINE seen == prefs[target[w]]
  <2>1. seen \in SUBSET Forms
    BY <1>2 DEF DeleteBegins, WaitInv, WaitTypeOK, RowsInv
  <2>2. step' = [step EXCEPT ![w] = "deleting"] /\ victims' = [victims EXCEPT ![w] = seen]
    BY <1>2 DEF DeleteBegins
  <2>3. step[w] = "found" /\ w \notin Committed
        /\ UNCHANGED <<rows, prefs, target, before, chosen, alerted, heeded, shown>>
    BY <1>1, <1>2 DEF DeleteBegins
  <2>4. prefs[target[w]] \intersect before[w] \subseteq seen
    OBVIOUS
  <2> HIDE DEF seen
  <2> QED
    BY <2>1, <2>2, <2>3, <2>4, MoveKeeps
<1>3. CASE DeleteEnds(w)
  <2> DEFINE seen == victims[w] \intersect prefs[target[w]]
  <2>1. seen \in SUBSET Forms
    BY <1>1
  <2>2. step' = [step EXCEPT ![w] = "deleted"] /\ victims' = [victims EXCEPT ![w] = seen]
    BY <1>1, <1>3 DEF DeleteEnds
  <2>3. step[w] = "deleting" /\ w \notin Committed
        /\ UNCHANGED <<rows, prefs, target, before, chosen, alerted, heeded, shown>>
    BY <1>1, <1>3 DEF DeleteEnds
  <2>4. prefs[target[w]] \intersect before[w] \subseteq seen
    BY <2>3 DEF WaitInv, PrefsInv
  <2> HIDE DEF seen
  <2> QED
    BY <2>1, <2>2, <2>3, <2>4, MoveKeeps
<1> QED
  BY <1>2, <1>3

\* A step of a form.
LEMMA FormKeeps ==
    ASSUME WaitInv, NEW r \in Forms, FormStep(r)
    PROVE  WaitInv'
<1>1. r \in Requests /\ r \notin OptOuts /\ step \in [Requests -> Open \union Ended \union {"idle", "committed", "cut"}]
      /\ victims \in [Requests -> SUBSET Forms]
  BY DEF Requests, WaitInv, WaitTypeOK
<1>2. r \in Committed <=> step[r] \in {"committed", "201", "confirmed", "cut"}
  BY <1>1 DEF Committed
<1>3. CASE Refuse(r)
  BY <1>1, <1>2, <1>3, MoveKeeps DEF Refuse, EndAs
<1>4. CASE FindCustomer(r)
  <2>1. PICK c \in rows : SameCustomer(r, c) /\ Settle(r, c, "found")
    BY <1>4 DEF FindCustomer
  <2>2. c \in Forms /\ step[r] = "idle" /\ Acceptable(r)
    BY <1>4 DEF FindCustomer, Admissible, WaitInv, WaitTypeOK
  <2> QED
    BY <1>1, <2>1, <2>2, SettleKeeps
<1>5. CASE NoCustomer(r)
  <2>1. SameCustomer(r, r)
    BY DEF SameCustomer
  <2> QED
    BY <1>1, <1>5, <2>1, SettleKeeps DEF NoCustomer, Admissible
<1>6. CASE DeleteBegins(r) \/ DeleteEnds(r)
  BY <1>1, <1>6, DeleteKeeps
<1>7. CASE Insert(r)
  <2>1. CASE \E c \in rows : SameCustomer(r, c)
    BY <1>1, <1>2, <1>7, <2>1, MoveKeeps DEF Insert, EndAs
  <2>2. CASE ~ \E c \in rows : SameCustomer(r, c)
    BY <1>1, <1>2, <1>7, <2>2, MoveKeeps DEF Insert, EndAs, Holders, SameCustomer
  <2> QED
    BY <2>1, <2>2
<1>8. CASE CommitForm(r)
  <2> DEFINE new == {r}
  <2>1. new \in SUBSET Forms /\ new = {r}
    OBVIOUS
  <2>2. prefs' = [prefs EXCEPT ![target[r]] = (@ \ victims[r]) \union new]
    BY <1>8 DEF CommitForm
  <2> HIDE DEF new
  <2> QED
    BY <1>1, <1>8, <2>1, <2>2, CommitKeeps DEF CommitForm
<1>9. CASE UnknownService(r)
  BY <1>1, <1>2, <1>9, MoveKeeps DEF UnknownService, EndAs
<1>10. CASE Welcome(r)
  BY <1>1, <1>2, <1>10, MoveKeeps DEF Welcome, EndAs
<1> QED
  BY <1>3, <1>4, <1>5, <1>6, <1>7, <1>8, <1>9, <1>10 DEF FormStep

\* A step of an opt-out.
LEMMA OptOutKeeps ==
    ASSUME WaitInv, NEW o \in OptOuts, OptOutStep(o)
    PROVE  WaitInv'
<1>1. o \in Requests /\ o \notin Forms /\ step \in [Requests -> Open \union Ended \union {"idle", "committed", "cut"}]
      /\ victims \in [Requests -> SUBSET Forms]
  BY DEF Requests, WaitInv, WaitTypeOK
<1>2. o \in Committed <=> step[o] \in {"committed", "201", "confirmed", "cut"}
  BY <1>1 DEF Committed
<1>3. CASE FindButton(o)
  BY <1>1, <1>3, SettleKeeps DEF FindButton, WaitInv, WaitTypeOK
<1>4. CASE FindSender(o)
  BY <1>4, FindSenderKeeps
<1>5. CASE DeleteBegins(o) \/ DeleteEnds(o)
  BY <1>1, <1>5, DeleteKeeps
<1>6. CASE CommitOptOut(o)
  <2>1. target[o] \in rows
    BY <1>1, <1>6 DEF CommitOptOut, WaitInv, RowsInv
  <2>2. rows' = rows \union {target[o]}
    BY <1>6, <2>1 DEF CommitOptOut
  <2>3. prefs' = [prefs EXCEPT ![target[o]] = (@ \ victims[o]) \union {}]
    BY <1>6 DEF CommitOptOut
  <2> QED
    BY <1>1, <1>6, <2>2, <2>3, CommitKeeps DEF CommitOptOut
<1>7. CASE Confirm(o)
  BY <1>1, <1>2, <1>7, MoveKeeps DEF Confirm, EndAs
<1> QED
  BY <1>3, <1>4, <1>5, <1>6, <1>7 DEF OptOutStep

\* A session ends without an answer.
LEMMA CrashKeeps ==
    ASSUME WaitInv, NEW w \in Requests, Crash(w)
    PROVE  WaitInv'
<1>1. step \in [Requests -> Open \union Ended \union {"idle", "committed", "cut"}]
      /\ victims \in [Requests -> SUBSET Forms]
  BY DEF WaitInv, WaitTypeOK
<1>2. w \in Committed <=> step[w] \in {"committed", "201", "confirmed", "cut"}
  BY DEF Committed
<1> QED
  BY <1>1, <1>2, MoveKeeps DEF Crash, EndAs, Open

\* Every step keeps the invariant.
LEMMA WaitInvStep == WaitInv /\ [WaitNext]_waitVars => WaitInv'
<1> SUFFICES ASSUME WaitInv, [WaitNext]_waitVars PROVE WaitInv'
  OBVIOUS
<1>1. ASSUME NEW r \in Forms, FormStep(r) PROVE WaitInv'
  BY <1>1, FormKeeps
<1>2. ASSUME NEW o \in OptOuts, OptOutStep(o) PROVE WaitInv'
  BY <1>2, OptOutKeeps
<1>3. ASSUME NEW w \in Requests, Crash(w) PROVE WaitInv'
  BY <1>3, CrashKeeps
<1>4. ASSUME NEW a \in Asks, Preview(a) \/ Choose(a) \/ Alert(a) PROVE WaitInv'
  BY <1>4, ChooseKeeps, LookKeeps
<1>5. CASE UNCHANGED waitVars
  <2>1. UNCHANGED <<rows, prefs, step, target, victims, before, chosen, alerted, heeded, shown>>
    BY <1>5 DEF waitVars
  <2>2. Committed' = Committed
    BY <2>1 DEF Committed
  <2>3. WaitTypeOK' /\ RowsInv' /\ KeysInv' /\ PrefsInv'
    BY <2>1, <2>2 DEF WaitInv, WaitTypeOK, RowsInv, KeysInv, Holders, PrefsInv, SameCustomer,
                      Phone, Acceptable
  <2>4. ChosenInv' /\ WaitlistedAreAlerted'
    BY <2>1, <2>2, ChosenKept DEF WaitInv
  <2>5. OnlyOverlapsCoexist' /\ StoredUntilReplaced' /\ GoodbyeIsHeard'
    BY <2>1, <2>2 DEF WaitInv, OnlyOverlapsCoexist, StoredUntilReplaced, Outlived, GoodbyeIsHeard
  <2> QED
    BY <2>3, <2>4, <2>5 DEF WaitInv
<1> QED
  BY <1>1, <1>2, <1>3, <1>4, <1>5 DEF WaitNext, WaitSteps, WaitProgress

\* The inductive invariant holds in every reachable state.
THEOREM WaitInvariant == WaitSpec => []WaitInv
  BY WaitInvInit, WaitInvStep, PTL DEF WaitSpec

-----------------------------------------------------------------------------
\* The variables keep their types.
THEOREM WaitTyped == WaitSpec => []WaitTypeOK
<1>1. WaitInv => WaitTypeOK
  BY DEF WaitInv
<1> QED
  BY <1>1, WaitInvariant, PTL

\* A phone has one row on each waitlist (uq_customers_business_phone and the lookup of
\* register_customer_optin).
THEOREM OneRow == WaitSpec => []OneRowPerPhone
<1>1. WaitInv => OneRowPerPhone
  BY DEF WaitInv, KeysInv, Holders, OneRowPerPhone
<1> QED
  BY <1>1, WaitInvariant, PTL

\* Under READ COMMITTED only requests that overlapped leave the union of their
\* preferences.
THEOREM OnlyOverlapsMix == WaitSpec => []OnlyOverlapsCoexist
<1>1. WaitInv => OnlyOverlapsCoexist
  BY DEF WaitInv
<1> QED
  BY <1>1, WaitInvariant, PTL

\* Committed preferences stay until a later or overlapping request commits.
THEOREM PreferencesStay == WaitSpec => []StoredUntilReplaced
<1>1. WaitInv => StoredUntilReplaced
  BY DEF WaitInv
<1> QED
  BY <1>1, WaitInvariant, PTL

\* Alerts go to those who asked for such a slot and, when the recipients were chosen,
\* had taken nothing back: for every hour of the week and every service.
THEOREM AlertsWanted == WaitSpec => []AlertsAreWanted
<1>1. WaitInv => AlertsAreWanted
  <2> SUFFICES ASSUME WaitInv, NEW a \in Asks, NEW c \in alerted[a]
               PROVE  Asked(a, c)
    BY DEF AlertsAreWanted, Asked
  <2> QED
    BY DEF WaitInv, ChosenInv
<1> QED
  BY <1>1, WaitInvariant, PTL

\* Whoever asked for such a slot is chosen, for every hour of the week and every service.
THEOREM AskersChosen == WaitSpec => []WaitlistedAreAlerted
<1>1. WaitInv => WaitlistedAreAlerted
  BY DEF WaitInv
<1> QED
  BY <1>1, WaitInvariant, PTL

\* get_phone_search_variants finds every number that normalize_israeli_phone has stored.
THEOREM GoodbyesHeard == WaitSpec => []GoodbyeIsHeard
<1>1. WaitInv => GoodbyeIsHeard
  BY DEF WaitInv
<1> QED
  BY <1>1, WaitInvariant, PTL
=============================================================================
