--------------------------- MODULE WebhookPipeline ---------------------------
(***************************************************************************)
(* Inbound WhatsApp messages: Meta posts payloads (webhooks.py), the Redis *)
(* queue hands them to worker loops (queue.py), and                        *)
(* process_whatsapp_webhook_event (webhook_tasks.py) claims the slot or    *)
(* opts the customer out, and answers through the WhatsApp client.         *)
(* A claim is one step: ClaimEngine is the reason.  One slot: claims of    *)
(* different slots share nothing.                                          *)
(***************************************************************************)
EXTENDS GraphRetry, Sequences, Functions

CONSTANTS
    Messages,       \* inbound messages, each with its wamid
    Button,         \* the payload of a button, split at ":"; empty for a text
    Keywords,       \* texts whose body is one of the opt-out keywords
    Sender,         \* the phone a message comes from, normalised
    Numbers,        \* the tokens that int() accepts
    Unsigned,       \* those of digits alone, which isdigit() accepts
    Falsy,          \* tokens that count as no value: an id 0, an empty phone
    SlotId,         \* the slot
    Customers,      \* ids that name a row of customers
    PhoneOf,        \* customers.phone_number, normalised
    Payloads,       \* webhook payloads
    Content,        \* the messages of each payload, in order
    Genuine,        \* the payloads that Meta signed
    SecretSet,      \* WHATSAPP_APP_SECRET is configured
    Production,     \* APP_ENV is neither development nor test
    MaxPosts,       \* bounds how often each payload is posted
    MaxFaults,      \* bounds the faults
    MaxResends,     \* bounds the retried posts about each message
    MaxExpiries     \* bounds how often each message's dedup key runs out

Workers == Callers

ASSUME PipelineAssumption ==
    /\ DOMAIN Button = Messages
    /\ DOMAIN Sender = Messages
    /\ DOMAIN PhoneOf = Customers
    /\ Keywords \subseteq Messages
    /\ Customers \subseteq Numbers \ Falsy
    /\ SlotId \in Numbers \ Falsy
    /\ Unsigned \subseteq Numbers
    /\ Content \in [Payloads -> Seq(Messages)]
    /\ Genuine \subseteq Payloads
    /\ SecretSet \in BOOLEAN
    /\ Production \in BOOLEAN
    /\ MaxPosts \in [Payloads -> Nat]
    /\ MaxFaults \in Nat
    /\ MaxResends \in [Messages -> Nat]
    /\ MaxExpiries \in [Messages -> Nat]

VARIABLES
    posts,          \* how often Meta has posted each payload
    acked,          \* payloads answered with 200
    queue,          \* the Redis list, payloads in order
    keys,           \* messages whose webhook:msg:<wamid> is set
    job,            \* the messages each worker has left, the current one first
    pc,             \* where each worker is
    status,         \* slots.status of the slot the claims name; "CLOSED" stands for
                    \* SENDING, CANCELLED and EXPIRED, which all refuse a claim
    claimedBy,      \* customers whose claim has booked it
    waiting,        \* customers with preferences (no new registrations here)
    verdict,        \* history: what was decided on each message
    answer,         \* history: what its sender was told last
    ownerTold,      \* history: messages whose booking the owner was told of
    taken,          \* history: how often each message was acted upon
    heard,          \* history: copies of the answer that reached the sender
    resent,         \* history: retried posts of the calls about each message
    expired,        \* history: how often its key ran out after 24 hours
    blamed,         \* history: messages that a fault or an exception dropped
    faults          \* history: number of faults

ingest == <<posts, acked>>
data == <<status, claimedBy, waiting>>
tally == <<taken, expired>>
told == <<verdict, answer, ownerTold, heard, resent>>
vars == <<graphVars, ingest, queue, keys, job, pc, data, told, tally, blamed, faults>>

Active == {"act", "tell", "owner"}

TypeOK ==
    /\ GraphTypeOK
    /\ posts \in [Payloads -> Nat]
    /\ acked \subseteq Payloads
    /\ queue \in Seq(Payloads)
    /\ keys \subseteq Messages
    /\ job \in [Workers -> Seq(Messages)]
    /\ pc \in [Workers -> {"idle", "guard"} \union Active]
    /\ status \in {"OPEN", "CLAIMED", "CLOSED"}
    /\ claimedBy \subseteq Customers
    /\ waiting \subseteq Customers
    /\ verdict \in [Messages -> {"none", "won", "lost", "removed"}]
    /\ answer \in [Messages -> {"none", "won", "lost", "removed"}]
    /\ ownerTold \subseteq Messages
    /\ taken \in [Messages -> Nat]
    /\ heard \in [Messages -> Nat]
    /\ resent \in [Messages -> Nat]
    /\ expired \in [Messages -> Nat]
    /\ blamed \subseteq Messages
    /\ faults \in Nat

Init ==
    /\ GraphInit
    /\ posts = [p \in Payloads |-> 0]
    /\ acked = {}
    /\ queue = <<>>
    /\ keys = {}
    /\ job = [w \in Workers |-> <<>>]
    /\ pc = [w \in Workers |-> "idle"]
    /\ status = "OPEN"
    /\ claimedBy = {}
    /\ waiting = Customers
    /\ verdict = [m \in Messages |-> "none"]
    /\ answer = [m \in Messages |-> "none"]
    /\ ownerTold = {}
    /\ taken = [m \in Messages |-> 0]
    /\ heard = [m \in Messages |-> 0]
    /\ resent = [m \in Messages |-> 0]
    /\ expired = [m \in Messages |-> 0]
    /\ blamed = {}
    /\ faults = 0

-----------------------------------------------------------------------------
(* handle_whatsapp_webhook                                                 *)

\* Slip: the signature is not compared.
AdmitsAll(p) == SecretSet \/ ~Production

\* Without a secret only development and test let a request through.
Admits(p) == IF SecretSet THEN p \in Genuine ELSE ~Production

\* Meta posts a payload, for the first time or again, whether or not it has seen
\* the 200.  A refused request changes nothing.
Receive(p) ==
    /\ posts[p] < MaxPosts[p]
    /\ Admits(p)
    /\ posts' = [posts EXCEPT ![p] = @ + 1]
    /\ acked' = acked \union {p}
    /\ queue' = Append(queue, p)
    /\ UNCHANGED <<graphVars, keys, job, pc, data, told, tally, blamed, faults>>

\* enqueue raises, with or without the job in the list: 500, and Meta posts again.
EnqueueFails(p) ==
    /\ posts[p] < MaxPosts[p]
    /\ faults < MaxFaults
    /\ Admits(p)
    /\ posts' = [posts EXCEPT ![p] = @ + 1]
    /\ queue' \in {queue, Append(queue, p)}
    /\ faults' = faults + 1
    /\ UNCHANGED <<graphVars, acked, keys, job, pc, data, told, tally, blamed>>

-----------------------------------------------------------------------------
(* process_one_job and the start of process_whatsapp_webhook_event         *)

Resume(w, rest) ==
    /\ job' = [job EXCEPT ![w] = rest]
    /\ pc' = [pc EXCEPT ![w] = IF rest = <<>> THEN "idle" ELSE "guard"]

\* BLPOP, and the statuses of the payload, committed before its messages
\* (AlertBudget models what they do to the logs).
PopJob(w) ==
    /\ pc[w] = "idle"
    /\ queue # <<>>
    /\ Resume(w, Content[Head(queue)])
    /\ queue' = Tail(queue)
    /\ UNCHANGED <<graphVars, ingest, keys, data, told, tally, blamed, faults>>

Current(w) == Head(job[w])

GuardDuplicate(w) ==
    /\ pc[w] = "guard"
    /\ Current(w) \in keys
    /\ Resume(w, Tail(job[w]))
    /\ UNCHANGED <<graphVars, ingest, queue, keys, data, told, tally, blamed, faults>>

\* Slip: the key is set without NX.
GuardNewOrOld(w) ==
    /\ pc[w] = "guard"
    /\ keys' = keys \union {Current(w)}
    /\ taken' = [taken EXCEPT ![Current(w)] = @ + 1]
    /\ pc' = [pc EXCEPT ![w] = "act"]
    /\ UNCHANGED <<graphVars, ingest, queue, job, data, told, expired, blamed, faults>>

\* SET NX, then mark_as_read, whose failure is swallowed.
GuardNew(w) ==
    /\ pc[w] = "guard"
    /\ Current(w) \notin keys
    /\ keys' = keys \union {Current(w)}
    /\ taken' = [taken EXCEPT ![Current(w)] = @ + 1]
    /\ pc' = [pc EXCEPT ![w] = "act"]
    /\ UNCHANGED <<graphVars, ingest, queue, job, data, told, expired, blamed, faults>>

-----------------------------------------------------------------------------
(* What a message asks for                                                 *)

\* A template button and a session button alike carry a payload; a keyword is
\* turned into one.
Action(m) ==
    IF Button[m] # <<>> THEN Button[m]
    ELSE IF m \in Keywords THEN <<"optout", "phone", Sender[m]>> ELSE <<>>

StartsWith(a, word) == Len(a) > 1 /\ a[1] = word

\* claim:<slot>:<customer> or claim:slot:<slot>:cust:<customer>, as <<slot, customer>>;
\* what cannot be parsed is <<>>.
ParseClaim(a) ==
    LET ids == IF Len(a) = 3 THEN <<a[2], a[3]>>
               ELSE IF Len(a) >= 5 /\ a[2] = "slot" THEN <<a[3], a[5]>> ELSE <<>>
    IN IF Range(ids) \subseteq Numbers THEN ids ELSE <<>>

\* optout:<customer>, optout:cust:<customer> or optout:phone:<phone>, as
\* <<"id", customer>> or <<"phone", phone>>; what cannot be parsed is <<>>.
ParseOptOut(a) ==
    IF Len(a) = 2 THEN IF a[2] \in Unsigned THEN <<"id", a[2]>> ELSE <<>>
    ELSE IF Len(a) = 3 /\ a[2] = "cust" THEN IF a[3] \in Numbers THEN <<"id", a[3]>> ELSE <<>>
    ELSE IF a[2] = "phone" THEN <<"phone", a[3]>> ELSE <<>>

\* The customers an opt-out is about: the one its button names, or everyone on any
\* waitlist with the phone in the payload, or else with the sender's.
OptOutMessages == {m \in Messages : StartsWith(Action(m), "optout")}
Targets ==
    [m \in OptOutMessages |->
        LET p == ParseOptOut(Action(m))
            Names(kind) == p # <<>> /\ p[1] = kind /\ p[2] \notin Falsy
        IN  IF Names("id") THEN {p[2]} \intersect Customers
            ELSE {c \in Customers :
                     PhoneOf[c] = IF Names("phone") THEN p[2] ELSE Sender[m]}]

ClaimMessages ==
    {m \in Messages : StartsWith(Action(m), "claim") /\ ParseClaim(Action(m)) # <<>>}
Claimant == [m \in ClaimMessages |-> ParseClaim(Action(m))[2]]

\* Slip: the ids of a claim are not looked up.
ClaimsOfAnybody == ClaimMessages

\* The claims whose slot and customer exist.
Claims ==
    {m \in ClaimMessages : ParseClaim(Action(m))[1] = SlotId /\ Claimant[m] \in Customers}

\* The opt-outs that find their customer.
OptOuts == {m \in OptOutMessages : \E c \in Customers : Targets[m] = {c}}

\* scalar_one_or_none raises when a phone finds several rows.
Ambiguous == {m \in OptOutMessages : \E c, d \in Targets[m] : c # d}

\* Slip: "return" for "continue".
IgnoreAndReturn(w) ==
    /\ pc[w] = "act"
    /\ Current(w) \notin Claims
    /\ Current(w) \notin OptOuts
    /\ Current(w) \notin Ambiguous
    /\ Resume(w, <<>>)
    /\ UNCHANGED <<graphVars, ingest, queue, keys, data, told, tally, blamed, faults>>

\* Messages without a payload, and payloads that name nobody.
Ignore(w) ==
    /\ pc[w] = "act"
    /\ Current(w) \notin Claims
    /\ Current(w) \notin OptOuts
    /\ Current(w) \notin Ambiguous
    /\ Resume(w, Tail(job[w]))
    /\ UNCHANGED <<graphVars, ingest, queue, keys, data, told, tally, blamed, faults>>

\* Slip: a slot that is no longer OPEN is a success if somebody has booked it.
ClaimAny(w) ==
    /\ pc[w] = "act"
    /\ Current(w) \in Claims
    /\ StartPost(w)
    /\ pc' = [pc EXCEPT ![w] = "tell"]
    /\ IF status = "OPEN"
       THEN status' = "CLAIMED" /\ claimedBy' = claimedBy \union {Claimant[Current(w)]}
       ELSE UNCHANGED <<status, claimedBy>>
    /\ verdict' = [verdict EXCEPT ![Current(w)] = IF status = "CLOSED" THEN "lost" ELSE "won"]
    /\ UNCHANGED <<ingest, queue, keys, job, waiting, answer, ownerTold, heard,
                   resent, tally, blamed, faults>>

\* claim_slot_atomic, then the call that sends the winner's or the loser's text.
Claim(w) ==
    /\ pc[w] = "act"
    /\ Current(w) \in Claims
    /\ StartPost(w)
    /\ pc' = [pc EXCEPT ![w] = "tell"]
    /\ IF status = "OPEN"
       THEN /\ status' = "CLAIMED"
            /\ claimedBy' = claimedBy \union {Claimant[Current(w)]}
            /\ verdict' = [verdict EXCEPT ![Current(w)] = "won"]
       ELSE /\ verdict' = [verdict EXCEPT ![Current(w)] = "lost"]
            /\ UNCHANGED <<status, claimedBy>>
    /\ UNCHANGED <<ingest, queue, keys, job, waiting, answer, ownerTold, heard,
                   resent, tally, blamed, faults>>

\* The preferences are deleted and that is committed before the confirmation.
OptOut(w) ==
    /\ pc[w] = "act"
    /\ Current(w) \in OptOuts
    /\ StartPost(w)
    /\ pc' = [pc EXCEPT ![w] = "tell"]
    /\ waiting' = waiting \ Targets[Current(w)]
    /\ verdict' = [verdict EXCEPT ![Current(w)] = "removed"]
    /\ UNCHANGED <<ingest, queue, keys, job, status, claimedBy, answer, ownerTold,
                   heard, resent, tally, blamed, faults>>

-----------------------------------------------------------------------------
(* The answer to the sender and the alert to the owner                     *)

\* One attempt of the call under way, and what of it reaches its addressee.
Post(w) ==
    LET m == Current(w) IN
    /\ Accepted(w) \/ Transient(w) \/ Rejected(w)
    /\ faults' = faults + IF call'[w] = "raised" THEN 1 ELSE 0
    /\ faults' <= MaxFaults
    /\ resent' = [resent EXCEPT ![m] = @ + (attempt'[w] - attempt[w])]
    /\ resent'[m] <= MaxResends[m]
    /\ IF pc[w] = "tell"
       THEN /\ heard' = [heard EXCEPT ![m] = @ + (copies'[w] - copies[w])]
            /\ answer' = IF copies'[w] > copies[w]
                         THEN [answer EXCEPT ![m] = verdict[m]] ELSE answer
            /\ UNCHANGED ownerTold
       ELSE /\ ownerTold' = IF copies'[w] > copies[w]
                            THEN ownerTold \union {m} ELSE ownerTold
            /\ UNCHANGED <<heard, answer>>
    /\ UNCHANGED <<ingest, queue, keys, job, pc, data, verdict, tally, blamed>>

\* Slip: the owner is not alerted.
ToldWinnerOnly(w) ==
    /\ pc[w] = "tell"
    /\ call[w] = "returned"
    /\ HangUp(w)
    /\ Resume(w, Tail(job[w]))
    /\ UNCHANGED <<ingest, queue, keys, data, told, tally, blamed, faults>>

\* Slip: the owner is alerted of every click.
ToldAndOwner(w) ==
    /\ pc[w] = "tell"
    /\ call[w] = "returned"
    /\ HangUp(w)
    /\ pc' = [pc EXCEPT ![w] = "owner"]
    /\ UNCHANGED <<ingest, queue, keys, job, data, told, tally, blamed, faults>>

\* The sender's text is out; a winner's owner is alerted next.
Told(w) ==
    /\ pc[w] = "tell"
    /\ call[w] = "returned"
    /\ HangUp(w)
    /\ IF verdict[Current(w)] = "won"
       THEN pc' = [pc EXCEPT ![w] = "owner"] /\ UNCHANGED job
       ELSE Resume(w, Tail(job[w]))
    /\ UNCHANGED <<ingest, queue, keys, data, told, tally, blamed, faults>>

\* notify_business_owner_on_claim posts to the owner's phone.
CallOwner(w) ==
    /\ pc[w] = "owner"
    /\ StartPost(w)
    /\ UNCHANGED <<ingest, queue, keys, job, pc, data, told, tally, blamed, faults>>

\* A failure of the owner's alert is swallowed.
OwnerDone(w) ==
    /\ pc[w] = "owner"
    /\ call[w] \in {"returned", "raised"}
    /\ HangUp(w)
    /\ Resume(w, Tail(job[w]))
    /\ blamed' = IF call[w] = "raised" THEN blamed \union {Current(w)} ELSE blamed
    /\ UNCHANGED <<ingest, queue, keys, data, told, tally, faults>>

-----------------------------------------------------------------------------
(* Exceptions and faults                                                   *)

\* The rest of the job is gone: process_one_job logs the exception, and nothing
\* puts the job back.
Drop(w) ==
    /\ job' = [job EXCEPT ![w] = <<>>]
    /\ pc' = [pc EXCEPT ![w] = "idle"]
    /\ HangUp(w)
    /\ blamed' = blamed \union Range(job[w])

\* The answer could not be sent: the exception leaves the handler.
TellFails(w) ==
    /\ pc[w] = "tell"
    /\ call[w] = "raised"
    /\ Drop(w)
    /\ UNCHANGED <<ingest, queue, keys, data, told, tally, faults>>

AmbiguousOptOut(w) ==
    /\ pc[w] = "act"
    /\ Current(w) \in Ambiguous
    /\ Drop(w)
    /\ UNCHANGED <<ingest, queue, keys, data, told, tally, faults>>

\* The worker dies or is stopped, or Redis or the database raises.
Fault(w) ==
    /\ faults < MaxFaults
    /\ pc[w] # "idle"
    /\ Drop(w)
    /\ faults' = faults + 1
    /\ UNCHANGED <<ingest, queue, keys, data, told, tally>>

\* The same, after the claim or the opt-out was committed.
FaultAfterCommit(w) ==
    /\ faults < MaxFaults
    /\ pc[w] = "act"
    /\ Drop(w)
    /\ faults' = faults + 1
    /\ \/ /\ Current(w) \in Claims
          /\ status = "OPEN"
          /\ status' = "CLAIMED"
          /\ claimedBy' = claimedBy \union {Claimant[Current(w)]}
          /\ UNCHANGED waiting
       \/ /\ Current(w) \in OptOuts
          /\ waiting' = waiting \ Targets[Current(w)]
          /\ UNCHANGED <<status, claimedBy>>
    /\ UNCHANGED <<ingest, queue, keys, told, tally>>

-----------------------------------------------------------------------------
(* The rest of the system                                                  *)

\* Broadcasts and cancellations write the slot's status; SlotLifecycle shows that
\* they may do so whatever it was.
OtherWriter ==
    /\ status' \in {"OPEN", "CLOSED"} \ {status}
    /\ UNCHANGED <<graphVars, ingest, queue, keys, job, pc, claimedBy, waiting, told,
                   tally, blamed, faults>>

\* The 24 hours are over, long after the handler of that message: a later copy is new.
KeyExpires(m) ==
    /\ m \in keys
    /\ expired[m] < MaxExpiries[m]
    /\ \A w \in Workers : pc[w] \in Active => Current(w) # m
    /\ keys' = keys \ {m}
    /\ verdict' = [verdict EXCEPT ![m] = "none"]
    /\ expired' = [expired EXCEPT ![m] = @ + 1]
    /\ UNCHANGED <<graphVars, ingest, queue, job, pc, data, answer, ownerTold, heard,
                   resent, taken, blamed, faults>>

-----------------------------------------------------------------------------

Handle(w) ==
    \/ PopJob(w) \/ GuardDuplicate(w) \/ GuardNew(w)
    \/ Ignore(w) \/ Claim(w) \/ OptOut(w) \/ AmbiguousOptOut(w)
    \/ Post(w) \/ Told(w) \/ TellFails(w) \/ CallOwner(w) \/ OwnerDone(w)

Next ==
    \/ \E p \in Payloads : Receive(p) \/ EnqueueFails(p)
    \/ \E w \in Workers : Handle(w) \/ Fault(w) \/ FaultAfterCommit(w)
    \/ \E m \in Messages : KeyExpires(m)
    \/ OtherWriter

\* The event loop runs every handler that can go on, Meta answers every call in the
\* end, and the worker loops never stop popping.  Nothing obliges Meta to post, and
\* nothing has to fail.
Spec == Init /\ [][Next]_vars
FairSpec == Spec /\ \A w \in Workers : WF_vars(Handle(w))

-----------------------------------------------------------------------------
(* Properties                                                              *)

\* A message is acted upon once for each life of its dedup key, however often Meta
\* posts it and however many workers hold a copy (webhook_tasks.py:135).
ActedOnce ==
    \A m \in Messages : taken[m] <= 1 + expired[m]

\* The sender gets one copy of the answer for each time the message was acted upon
\* and for each retried post: duplicates come from lost answers of Meta alone.
CopiesHaveCause ==
    \A m \in Messages : heard[m] <= taken[m] + resent[m]

Handled(m) == \E w \in Workers : pc[w] \in Active /\ Current(w) = m

\* A message that the dedup key marks as seen and that nobody handles any more was
\* answered, a winner's owner was alerted, or a fault or an exception of its job is to
\* blame: no other path loses a click (webhook_tasks.py:138, 221).
SilenceHasCause ==
    \A m \in Messages :
        (HasCredentials /\ taken[m] > 0 /\ ~Handled(m) /\ m \notin blamed)
        => /\ m \in Claims => answer[m] \in {"won", "lost"}
           /\ answer[m] = "won" => m \in ownerTold
           /\ m \in OptOuts => answer[m] = "removed"

\* Whoever is told that the slot is theirs has booked it, the owner is told of nobody
\* else, and whoever is told that they were removed has no preferences left (new
\* registrations are Waitlist's) (webhook_tasks.py:213, 261).
GoodNewsIsTrue ==
    \A m \in Messages :
        /\ answer[m] = "won" => Claimant[m] \in claimedBy
        /\ m \in ownerTold => answer[m] # "none"
        /\ answer[m] = "removed" => Targets[m] \intersect waiting = {}

\* Nothing of a payload that Meta did not sign is acted upon, wherever a secret is
\* set or the program runs in production (whatsapp_signature.py:62).
OnlyGenuineActs ==
    (SecretSet \/ Production) =>
        \A m \in Messages :
            taken[m] > 0 => \E p \in Genuine : m \in Range(Content[p])

Contract == INSTANCE ClickContract
\* Refinement: each message is decided once while it is remembered, and sender and
\* owner hear that decision only, the owner after the winner.
ImplementsContract == Contract!ContractSpec

Seen(m) == taken[m] > 0 /\ ~Handled(m)
\* Every message of an acknowledged payload is seen to the end, or a fault or an
\* exception of its job is to blame.
AckedIsHandled ==
    \A p \in Payloads :
        p \in acked ~> \A m \in Range(Content[p]) : Seen(m) \/ m \in blamed
=============================================================================
