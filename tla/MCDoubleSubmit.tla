---------------------------- MODULE MCDoubleSubmit ----------------------------
(* What requests of one person do to each other: registrations of a business,   *)
(* its login codes, and registrations and opt-outs of one customer.  The three  *)
(* share no state, so a behaviour plays one scene: the requests that take part. *)
EXTENDS Waitlist, LoginCode

VARIABLE scene      \* chosen at the start

MCNumber == "5-A"
Typed(l) == [plus |-> FALSE, lead |-> l, number |-> MCNumber]
Plain(b, p, d, t, s) ==
    [manual |-> FALSE, business |-> b, phone |-> p, days |-> d, times |-> t, services |-> s]

\* One phone in three spellings, on the waitlists of two businesses.
MCForm == [
    first   |-> Plain("shiran", Typed("0"), {0}, {"MORNING"}, {}),
    again   |-> Plain("shiran", [Typed("972") EXCEPT !.plus = TRUE], {0, 3}, {"MORNING"}, {1}),
    manual  |-> [Plain("shiran", Typed(""), {}, {"EVENING"}, {1}) EXCEPT !.manual = TRUE],
    other   |-> Plain("twin", Typed("0"), {6}, {"AFTERNOON"}, {1}),
    stale   |-> Plain("shiran", Typed("0"), {0}, {"MORNING"}, {2}),
    closed  |-> Plain("closed", Typed("0"), {6}, {"AFTERNOON"}, {1}),
    typo    |-> Plain("shiran", [Typed("0") EXCEPT !.number = "3-B"], {0}, {"MORNING"}, {})]
MCForms == DOMAIN MCForm
MCGoodbye == [text |-> Typed("972"), button |-> None]
MCOptOuts == DOMAIN MCGoodbye
MCAsk == [slot |-> [business |-> "shiran", at |-> [utc |-> 6 * 24 + 9, offset |-> 0], service |-> 1]]
MCAsks == DOMAIN MCAsk

\* Slugs: shiran, and shiran-2, which is also what a second shiran tries next.
MCApplicants == {"shiran", "twin", "second", "seed"}
MCBase == [a \in MCApplicants |-> IF a = "second" THEN <<10, 2>> ELSE <<10>>]
MCOwnPhone == [a \in MCApplicants |-> IF a = "seed" THEN "shiran" ELSE a]

MCCodeRequests == {"code1", "code2", "otp"}
MCVerifications == {"verify1", "verify2", "enter", "late"}
MCLoginAs == [x \in MCCodeRequests \union MCVerifications |->
    <<IF x \in {"otp", "enter"} THEN "otp" ELSE "pin", IF x = "late" THEN "twin" ELSE "shiran">>]

Scenes == {
    {"first", "again", "text", "slot"},
    {"first", "again", "manual", "slot"},
    {"first", "stale", "button", "slot"},
    {"first", "other", "text"},
    {"typo", "closed", "text"},
    {"shiran", "twin", "second"},
    {"shiran", "twin", "seed"},
    {"code1", "code2", "verify1", "verify2"},
    {"code1", "otp", "verify1", "enter", "shiran"},
    {"code1", "otp", "late", "shiran"}}

\* The login scenes begin with the business shiran registered.
Registered == IF "code1" \in scene THEN {"shiran"} ELSE {}

Init ==
    /\ scene \in Scenes
    /\ WaitInit
    /\ LoginInit
    /\ businesses = Registered
    /\ slug = Base
    /\ counter = [a \in Applicants |-> 2]
    /\ stage = [a \in Applicants |-> IF a \in Registered THEN "201" ELSE "idle"]
    /\ earlier = [a \in Applicants |-> {}]
    /\ tokens = {}
    /\ visit = NoToken

vars == <<waitVars, accountVars, loginVars, scene>>

Next ==
    /\ UNCHANGED scene
    /\ \/ WaitSteps(scene) /\ UNCHANGED <<accountVars, loginVars>>
       \/ AccountsSteps(scene) /\ UNCHANGED <<waitVars, loginVars>>
       \/ LoginSteps(scene) /\ UNCHANGED waitVars

\* The server goes on with the requests at hand.
Spec ==
    /\ Init /\ [][Next]_vars
    /\ WF_waitVars(WaitProgress(scene)) /\ WF_accountVars(AccountsProgress(scene))

\* No two requests wait for each other and no search goes on for ever: whatever begins
\* to write a customer or a business comes to an end.
RequestsEnd == WaitlistEnds /\ RegistrationsEnd
=============================================================================
