------------------------------ MODULE Waitlist ------------------------------
(***************************************************************************)
(* Who is on a waitlist, and for what: registration by web form and by the *)
(* owner (customer_service.py), opt-out (webhook_tasks.py), the preview    *)
(* (dashboard_service.py) and the choice of a broadcast's recipients       *)
(* (broadcast_service.py).  Requests run in sessions of their own; the     *)
(* database is READ COMMITTED, and a DELETE takes its snapshot when it     *)
(* begins.  The rows a form inserts appear and disappear together: the     *)
(* form's id stands for them.  The spam guard is AlertBudget's.            *)
(***************************************************************************)
EXTENDS Matching, Phones

CONSTANTS
    Forms,          \* registrations, by web form or by the owner
    Form,           \* what each asks for
    OptOuts,        \* opt-outs, by text or by button
    Goodbye,        \* the sender of each text; None for a button
    Asks,           \* slots to be published
    Ask,            \* what each offers
    Businesses,     \* active businesses
    Services        \* ids in the table services

FormContent ==
    [manual : BOOLEAN, business : STRING, phone : Spelling, days : SUBSET Int,
     times : SUBSET STRING, services : SUBSET Int]

ASSUME WaitlistAssumption ==
    /\ DOMAIN Form = Forms
    /\ \A r \in Forms : /\ Form[r].manual \in BOOLEAN
                        /\ Form[r].phone \in Spelling
                        /\ None \notin Form[r].services
    /\ DOMAIN Goodbye = OptOuts
    \* Meta names a sender in international form.
    /\ \A o \in OptOuts :
          Goodbye[o] = None \/ (Goodbye[o] \in Spelling /\ Goodbye[o].lead = "972")
    /\ DOMAIN Ask = Asks
    /\ \A a \in Asks : Ask[a].at \in DateTime
    /\ None \notin Forms
    /\ Forms \intersect OptOuts = {}

VARIABLES
    rows,           \* customers: the form whose request inserted the row is its id
    prefs,          \* the forms whose preference rows each customer has
    step,           \* where each request is, or how it ended
    target,         \* the customer each request is about
    victims,        \* the forms whose rows its DELETE has seen, then removed
    before,         \* history: the requests committed when each began
    chosen,         \* the recipients of each broadcast, None before
    alerted,        \* those it has sent the alert to
    heeded,         \* history: the requests committed when they were chosen
    shown           \* history: what a preview showed since the last change

waitVars == <<rows, prefs, step, target, victims, before, chosen, alerted, heeded, shown>>

Requests == Forms \union OptOuts
Open == {"found", "new", "deleting", "deleted", "inserted"}
Ended == {"201", "404", "422", "500", "confirmed", "unknown", "ambiguous", "dropped"}
Committed == {w \in Requests : step[w] \in {"committed", "201", "confirmed", "cut"}}

WaitTypeOK ==
    /\ rows \subseteq Forms
    /\ prefs \in [Forms -> SUBSET Forms]
    /\ step \in [Requests -> Open \union Ended \union {"idle", "committed", "cut"}]
    /\ target \in [Requests -> Forms \union {None}]
    /\ victims \in [Requests -> SUBSET Forms]
    /\ before \in [Requests -> SUBSET Requests]
    /\ chosen \in [Asks -> (SUBSET Forms) \union {None}]
    /\ alerted \in [Asks -> SUBSET Forms]
    /\ heeded \in [Asks -> SUBSET Requests]
    /\ shown \in [Asks -> (SUBSET Forms) \union {None}]

WaitInit ==
    /\ rows = {}
    /\ prefs = [c \in Forms |-> {}]
    /\ step = [w \in Requests |-> "idle"]
    /\ target = [w \in Requests |-> None]
    /\ victims = [w \in Requests |-> {}]
    /\ before = [w \in Requests |-> {}]
    /\ chosen = [a \in Asks |-> None]
    /\ alerted = [a \in Asks |-> {}]
    /\ heeded = [a \in Asks |-> {}]
    /\ shown = [a \in Asks |-> None]

-----------------------------------------------------------------------------
(* What a form asks for                                                    *)

Phone(r) == Normalize(Form[r].phone)
SameCustomer(r, s) == Form[r].business = Form[s].business /\ Phone(r) = Phone(s)

Days(r) == IF Form[r].manual THEN OrElse(Form[r].days, 0..5) ELSE Form[r].days
Times(r) == IF Form[r].manual THEN OrElse(Form[r].times, TimeSlots) ELSE Form[r].times
Rows == [r \in Forms |-> Matrix(Days(r), Times(r), Form[r].services)]

Acceptable(r) ==
    /\ Normalizable(Form[r].phone)
    /\ Days(r) # {} /\ Days(r) \subseteq 0..6
    /\ Times(r) # {} /\ Times(r) \subseteq TimeSlots

-----------------------------------------------------------------------------
(* Statements that registration and opt-out share                          *)

EndAs(w, outcome) ==
    /\ step' = [step EXCEPT ![w] = outcome]
    /\ victims' = [victims EXCEPT ![w] = {}]

\* Reads the customer's row, or finds there is none.
Settle(w, c, next) ==
    /\ step' = [step EXCEPT ![w] = next]
    /\ target' = [target EXCEPT ![w] = c]
    /\ before' = [before EXCEPT ![w] = Committed]
    /\ UNCHANGED <<rows, prefs, victims, chosen, alerted, heeded, shown>>

\* Slip: the old preferences are not deleted.
DeleteNothing(w) ==
    /\ step[w] = "found"
    /\ step' = [step EXCEPT ![w] = "deleting"]
    /\ UNCHANGED <<rows, prefs, target, victims, before, chosen, alerted, heeded, shown>>

DeleteBegins(w) ==
    /\ step[w] = "found"
    /\ step' = [step EXCEPT ![w] = "deleting"]
    /\ victims' = [victims EXCEPT ![w] = prefs[target[w]]]
    /\ UNCHANGED <<rows, prefs, target, before, chosen, alerted, heeded, shown>>

\* It waits for the locks of other transactions.  Rows that are gone by then drop out;
\* rows committed since it began are not seen.
DeleteEnds(w) ==
    /\ step[w] = "deleting"
    /\ \A v \in Requests : step[v] = "deleted" => victims[v] \intersect victims[w] = {}
    /\ step' = [step EXCEPT ![w] = "deleted"]
    /\ victims' = [victims EXCEPT ![w] = @ \intersect prefs[target[w]]]
    /\ UNCHANGED <<rows, prefs, target, before, chosen, alerted, heeded, shown>>

\* The session ends without an answer; an open transaction is rolled back.
Crash(w) ==
    /\ \/ step[w] \in Open /\ EndAs(w, "dropped")
       \/ step[w] = "committed" /\ EndAs(w, "cut")
    /\ UNCHANGED <<rows, prefs, target, before, chosen, alerted, heeded, shown>>

-----------------------------------------------------------------------------
(* register_customer_optin                                                 *)

Refuse(r) ==
    /\ step[r] = "idle"
    /\ \/ ~Acceptable(r) /\ EndAs(r, "422")
       \/ Acceptable(r) /\ Form[r].business \notin Businesses /\ EndAs(r, "404")
    /\ UNCHANGED <<rows, prefs, target, before, chosen, alerted, heeded, shown>>

Admissible(r) == step[r] = "idle" /\ Acceptable(r) /\ Form[r].business \in Businesses

FindCustomer(r) ==
    /\ Admissible(r)
    /\ \E c \in rows : SameCustomer(r, c) /\ Settle(r, c, "found")

\* Slip: the flush that gives the new customer its id is missing.
NoCustomerNoFlush(r) ==
    /\ Admissible(r)
    /\ ~ \E c \in rows : SameCustomer(r, c)
    /\ Settle(r, None, "new")

NoCustomer(r) ==
    /\ Admissible(r)
    /\ ~ \E c \in rows : SameCustomer(r, c)
    /\ Settle(r, r, "new")

\* Slip: customers without uq_customers_business_phone.
InsertAnyway(r) ==
    /\ step[r] = "new"
    /\ step' = [step EXCEPT ![r] = "inserted"]
    /\ UNCHANGED <<rows, prefs, target, victims, before, chosen, alerted, heeded, shown>>

\* The unique constraint: an uncommitted row of the same key makes the INSERT wait, a
\* committed one makes it fail.
Insert(r) ==
    /\ step[r] = "new"
    /\ \A s \in Forms : step[s] = "inserted" => ~SameCustomer(r, s)
    /\ EndAs(r, IF \E c \in rows : SameCustomer(r, c) THEN "500" ELSE "inserted")
    /\ UNCHANGED <<rows, prefs, target, before, chosen, alerted, heeded, shown>>

\* Slip: the preferences are deleted last, the new ones with them.
CommitThenDelete(r) ==
    /\ step[r] \in {"deleted", "inserted"} /\ r \in Forms
    /\ Form[r].services \subseteq Services
    /\ EndAs(r, "committed")
    /\ rows' = rows \union {target[r]}
    /\ prefs' = [prefs EXCEPT ![target[r]] = {}]
    /\ shown' = [a \in Asks |-> None]
    /\ UNCHANGED <<target, before, chosen, alerted, heeded>>

CommitForm(r) ==
    /\ step[r] \in {"deleted", "inserted"}
    /\ Form[r].services \subseteq Services
    /\ EndAs(r, "committed")
    /\ rows' = rows \union {target[r]}
    /\ prefs' = [prefs EXCEPT ![target[r]] = (@ \ victims[r]) \union {r}]
    /\ shown' = [a \in Asks |-> None]
    /\ UNCHANGED <<target, before, chosen, alerted, heeded>>

\* The commit's INSERTs break the foreign key: rolled back.
UnknownService(r) ==
    /\ step[r] \in {"deleted", "inserted"}
    /\ ~(Form[r].services \subseteq Services)
    /\ EndAs(r, "500")
    /\ UNCHANGED <<rows, prefs, target, before, chosen, alerted, heeded, shown>>

\* Whether or not the welcome message goes out.
Welcome(r) ==
    /\ step[r] = "committed"
    /\ EndAs(r, "201")
    /\ UNCHANGED <<rows, prefs, target, before, chosen, alerted, heeded, shown>>

-----------------------------------------------------------------------------
(* The opt-out of process_whatsapp_webhook_event                           *)

FindButton(o) ==
    /\ step[o] = "idle"
    /\ Goodbye[o] = None
    /\ \E c \in rows : Settle(o, c, "found")

Senders(o) == {c \in rows : Phone(c) \in Variants(Goodbye[o])}

\* The phone is looked up on every waitlist: with none nothing is said, with two
\* scalar_one_or_none raises.
FindSender(o) ==
    /\ step[o] = "idle"
    /\ Goodbye[o] # None
    /\ \/ \E c \in rows : Senders(o) = {c} /\ Settle(o, c, "found")
       \/ Senders(o) = {} /\ Settle(o, None, "unknown")
       \/ \E c, d \in Senders(o) : c # d /\ Settle(o, None, "ambiguous")

CommitOptOut(o) ==
    /\ step[o] = "deleted"
    /\ EndAs(o, "committed")
    /\ prefs' = [prefs EXCEPT ![target[o]] = @ \ victims[o]]
    /\ shown' = [a \in Asks |-> None]
    /\ UNCHANGED <<rows, target, before, chosen, alerted, heeded>>

\* "No further alerts will be sent to you": if this message fails the job ends.
Confirm(o) ==
    /\ step[o] = "committed"
    /\ \E outcome \in {"confirmed", "cut"} : EndAs(o, outcome)
    /\ UNCHANGED <<rows, prefs, target, before, chosen, alerted, heeded, shown>>

-----------------------------------------------------------------------------
(* Preview and broadcast                                                   *)

\* find_matching_customers_by_criteria
Audience(a, dt) ==
    {c \in rows :
        /\ Form[c].business = Ask[a].business
        /\ \E r \in prefs[c] : \E p \in Rows[r] : Matches(p, dt, Ask[a].service)}

\* The preview uses the time as the owner's browser wrote it.
Preview(a) ==
    /\ chosen[a] = None
    /\ shown' = [shown EXCEPT ![a] = Audience(a, Ask[a].at)]
    /\ UNCHANGED <<rows, prefs, step, target, victims, before, chosen, alerted, heeded>>

\* The slot has been stored and read back.
Choose(a) ==
    /\ chosen[a] = None
    /\ chosen' = [chosen EXCEPT ![a] = Audience(a, Stored(Ask[a].at))]
    /\ heeded' = [heeded EXCEPT ![a] = Committed]
    /\ UNCHANGED <<rows, prefs, step, target, victims, before, alerted, shown>>

\* The executor loads the recipients by id: their preferences are not read again.
Alert(a) ==
    /\ chosen[a] # None
    /\ \E c \in chosen[a] \ alerted[a] :
          alerted' = [alerted EXCEPT ![a] = @ \union {c}]
    /\ UNCHANGED <<rows, prefs, step, target, victims, before, chosen, heeded, shown>>

-----------------------------------------------------------------------------
FormStep(r) ==
    \/ Refuse(r) \/ FindCustomer(r) \/ NoCustomer(r)
    \/ DeleteBegins(r) \/ DeleteEnds(r)
    \/ Insert(r) \/ CommitForm(r) \/ UnknownService(r) \/ Welcome(r)

OptOutStep(o) ==
    \/ FindButton(o) \/ FindSender(o)
    \/ DeleteBegins(o) \/ DeleteEnds(o)
    \/ CommitOptOut(o) \/ Confirm(o)

\* The steps of those that take part; what the requests among them do by themselves.
WaitProgress(part) ==
    \/ \E r \in Forms \intersect part : FormStep(r)
    \/ \E o \in OptOuts \intersect part : OptOutStep(o)

WaitSteps(part) ==
    \/ WaitProgress(part)
    \/ \E w \in Requests \intersect part : Crash(w)
    \/ \E a \in Asks \intersect part : Preview(a) \/ Choose(a) \/ Alert(a)

WaitNext == WaitSteps(Requests \union Asks)

WaitSpec == WaitInit /\ [][WaitNext]_waitVars

-----------------------------------------------------------------------------
(* Properties                                                              *)

\* Two first registrations of one phone that run at once leave one customer.
OneRowPerPhone == \A c, d \in rows : SameCustomer(c, d) => c = d

\* A registration's preferences are gone once a later request about the customer, one
\* that began after it, has committed: only requests that overlapped can leave the
\* union of their preferences.
OnlyOverlapsCoexist ==
    \A c \in Forms : \A r \in prefs[c] : \A w \in Committed :
        target[w] = c => r \notin before[w]

\* A registration that has committed keeps its preferences until a request about the
\* same customer that did not precede it commits too.
Outlived(r, others) ==
    \E w \in others \ {r} : target[w] = target[r] /\ w \notin before[r]

StoredUntilReplaced ==
    \A r \in Forms \intersect Committed :
        r \in prefs[target[r]] \/ Outlived(r, Committed)

\* The meaning of a preference, by the hours of a week that begins on Sunday in UTC.
Hours == [t \in TimeSlots |-> IF t = "MORNING" THEN 0..11
                              ELSE IF t = "AFTERNOON" THEN 12..15 ELSE 16..23]
Wants(r, a) ==
    /\ Form[r].business = Ask[a].business
    /\ \E d \in Days(r), t \in Times(r) : \E h \in Hours[t] :
          Ask[a].at.utc + 24 - (24 * d + h) \in {0, WeekHours}
    /\ Form[r].services = {} \/ Ask[a].service \in Form[r].services

\* Whoever gets an alert had a registration that asked for such a slot, and no request
\* that followed it, another registration or an opt-out, had committed when the
\* recipients were chosen.
AlertsAreWanted ==
    \A a \in Asks : \A c \in alerted[a] : \E r \in Forms \intersect heeded[a] :
        /\ target[r] = c
        /\ Wants(r, a)
        /\ \A w \in heeded[a] : target[w] = c => r \notin before[w]

\* Whoever had asked for such a slot is among the recipients, unless another request
\* about them, not an earlier one, had committed by then.
WaitlistedAreAlerted ==
    \A a \in Asks : chosen[a] # None =>
        \A r \in Forms \intersect heeded[a] :
            Wants(r, a) => target[r] \in chosen[a] \/ Outlived(r, heeded[a])

\* A text to opt out finds the customer whatever way the phone was typed on the form:
\* it is ignored only if the phone was on no waitlist, and fails only if on several.
GoodbyeIsHeard ==
    \A o \in OptOuts :
        LET known == {r \in Forms \intersect before[o] :
                         Form[r].phone.number = Goodbye[o].number}
        IN /\ step[o] = "unknown" => known = {}
           /\ step[o] = "ambiguous" => \E r, s \in known : Form[r].business # Form[s].business

\* The preview shows the recipients a broadcast chooses, as long as no registration and
\* no opt-out commits in between (the docstring of find_matching_customers_by_criteria).
PreviewParity ==
    [][\A a \in Asks : chosen[a] # chosen'[a] /\ shown[a] # None => chosen'[a] = shown[a]]_waitVars

\* No two requests wait for each other's rows for ever: in the end none is open.
WaitlistEnds == <>[](\A w \in Requests : step[w] \notin Open)
=============================================================================
