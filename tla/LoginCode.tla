------------------------------ MODULE LoginCode ------------------------------
(***************************************************************************)
(* Login codes (auth_service.py): a request stores a code in Redis and     *)
(* sends it over WhatsApp; a verification reads the code, compares it,     *)
(* deletes the key and answers with a token, each in a step of its own.    *)
(* There are two kinds, the PIN of a slug and the OTP of a phone, under    *)
(* keys of their own: auth:pin:<id> and otp:login:<id>.                    *)
(***************************************************************************)
EXTENDS Accounts

CONSTANTS
    CodeRequests,   \* requests for a code
    Verifications,  \* requests to verify one
    Codes,          \* the codes that can be drawn
    LoginAs,        \* for both: the kind and the business, by its slug or phone
    NoCode          \* no code, no request

Kinds == {"pin", "otp"}

ASSUME LoginAssumption ==
    /\ LoginAs \in [CodeRequests \union Verifications -> Kinds \X Applicants]
    /\ CodeRequests \intersect Verifications = {}
    /\ NoCode \notin CodeRequests \union Codes

VARIABLES
    redis,          \* the request whose code is cached under each key
    code,           \* the code each request drew
    phase,          \* where each request is, or how it ended
    read,           \* the request whose code a verification has read and found equal
    sent,           \* requests whose message was delivered
    expired,        \* history: requests whose code ran out after 300 seconds
    hit,            \* history: the request whose code a verification has deleted
    stored,         \* history: requests stored when a verification read
    spent           \* history: verifications that had deleted when it read

loginVars == <<redis, code, phase, read, sent, expired, hit, stored, spent>>

Logins == CodeRequests \union Verifications

LoginTypeOK ==
    /\ redis \in [Kinds \X Applicants -> CodeRequests \union {NoCode}]
    /\ \A k \in Kinds \X Applicants : redis[k] # NoCode => LoginAs[redis[k]] = k
    /\ code \in [CodeRequests -> Codes \union {NoCode}]
    /\ phase \in [Logins -> {"idle", "stored", "equal", "deleted", "200", "400", "404", "dropped"}]
    /\ read \in [Verifications -> CodeRequests \union {NoCode}]
    /\ sent \subseteq CodeRequests
    /\ expired \subseteq CodeRequests
    /\ hit \in [Verifications -> CodeRequests \union {NoCode}]
    /\ stored \in [Verifications -> SUBSET CodeRequests]
    /\ spent \in [Verifications -> SUBSET Verifications]

LoginInit ==
    /\ redis = [k \in Kinds \X Applicants |-> NoCode]
    /\ code = [i \in CodeRequests |-> NoCode]
    /\ phase = [x \in Logins |-> "idle"]
    /\ read = [v \in Verifications |-> NoCode]
    /\ sent = {}
    /\ expired = {}
    /\ hit = [v \in Verifications |-> NoCode]
    /\ stored = [v \in Verifications |-> {}]
    /\ spent = [v \in Verifications |-> {}]

Known(x) == LoginAs[x][2] \in businesses

\* Slip: one key for all the codes of a business.
KeyOfBusiness(x) == <<"pin", LoginAs[x][2]>>

Key(x) == LoginAs[x]

\* 404 for a slug or a phone without an active business.
NotFound(x) ==
    /\ phase[x] = "idle" /\ ~Known(x)
    /\ phase' = [phase EXCEPT ![x] = "404"]
    /\ UNCHANGED <<accountVars, redis, code, read, sent, expired, hit, stored, spent>>

\* A new code replaces the old one and starts a new life time; two draws may be equal.
StoreCode(i) ==
    /\ phase[i] = "idle" /\ Known(i)
    /\ \E c \in Codes : code' = [code EXCEPT ![i] = c]
    /\ redis' = [redis EXCEPT ![Key(i)] = i]
    /\ phase' = [phase EXCEPT ![i] = "stored"]
    /\ UNCHANGED <<accountVars, read, sent, expired, hit, stored, spent>>

\* The answer is the same whether or not the message went out.
SendCode(i) ==
    /\ phase[i] = "stored"
    /\ sent' \in {sent, sent \union {i}}
    /\ phase' = [phase EXCEPT ![i] = "200"]
    /\ UNCHANGED <<accountVars, redis, code, read, expired, hit, stored, spent>>

Equal(v, c) == redis[Key(v)] # NoCode /\ code[redis[Key(v)]] = c

\* The owner types a code from any message delivered so far, or a wrong one (NoCode).
Compare(v) ==
    /\ phase[v] = "idle" /\ Known(v)
    /\ \E c \in {code[i] : i \in sent} \union {NoCode} :
          /\ read' = [read EXCEPT ![v] = IF Equal(v, c) THEN redis[Key(v)] ELSE NoCode]
          /\ phase' = [phase EXCEPT ![v] = IF Equal(v, c) THEN "equal" ELSE "400"]
    /\ stored' = [stored EXCEPT ![v] = {i \in CodeRequests : phase[i] \notin {"idle", "404"}}]
    /\ spent' = [spent EXCEPT ![v] = {u \in Verifications : hit[u] # NoCode}]
    /\ UNCHANGED <<accountVars, code, sent, expired>>

\* Slip: the key is deleted before the code is compared.
ReadAndDelete(v) ==
    /\ Compare(v)
    /\ redis' = [redis EXCEPT ![Key(v)] = NoCode]
    /\ hit' = [hit EXCEPT ![v] = redis[Key(v)]]

ReadCode(v) == Compare(v) /\ UNCHANGED <<redis, hit>>

\* Slip: the used code stays in Redis.
KeepCode(v) ==
    /\ phase[v] = "equal"
    /\ hit' = [hit EXCEPT ![v] = redis[Key(v)]]
    /\ phase' = [phase EXCEPT ![v] = "deleted"]
    /\ UNCHANGED <<accountVars, redis, code, read, sent, expired, stored, spent>>

\* Whatever is under the key by now.
DeleteCode(v) ==
    /\ phase[v] = "equal"
    /\ redis' = [redis EXCEPT ![Key(v)] = NoCode]
    /\ hit' = [hit EXCEPT ![v] = redis[Key(v)]]
    /\ phase' = [phase EXCEPT ![v] = "deleted"]
    /\ UNCHANGED <<accountVars, code, read, sent, expired, stored, spent>>

Login(v) ==
    /\ phase[v] = "deleted"
    /\ phase' = [phase EXCEPT ![v] = "200"]
    /\ tokens' = tokens \union {LoginAs[v][2]}
    /\ UNCHANGED <<businesses, slug, counter, stage, earlier, visit>>
    /\ UNCHANGED <<redis, code, read, sent, expired, hit, stored, spent>>

DropLogin(x) ==
    /\ phase[x] \in {"stored", "equal", "deleted"}
    /\ phase' = [phase EXCEPT ![x] = "dropped"]
    /\ UNCHANGED <<accountVars, redis, code, read, sent, expired, hit, stored, spent>>

ExpireCode(k) ==
    /\ redis[k] # NoCode
    /\ redis' = [redis EXCEPT ![k] = NoCode]
    /\ expired' = expired \union {redis[k]}
    /\ UNCHANGED <<accountVars, code, phase, read, sent, hit, stored, spent>>

-----------------------------------------------------------------------------
\* The handlers of the two kinds: request_business_pin, request_business_login_otp,
\* verify_business_pin and verify_business_login_otp.
Asking(i) == NotFound(i) \/ StoreCode(i) \/ SendCode(i)
Verifying(v) == NotFound(v) \/ ReadCode(v) \/ DeleteCode(v) \/ Login(v)

RequestPin(i) == LoginAs[i][1] = "pin" /\ Asking(i)
RequestOtp(i) == LoginAs[i][1] = "otp" /\ Asking(i)
VerifyPin(v) == LoginAs[v][1] = "pin" /\ Verifying(v)
VerifyOtp(v) == LoginAs[v][1] = "otp" /\ Verifying(v)

\* The steps of the requests that take part.
LoginSteps(part) ==
    \/ \E i \in CodeRequests \intersect part : RequestPin(i) \/ RequestOtp(i)
    \/ \E v \in Verifications \intersect part : VerifyPin(v) \/ VerifyOtp(v)
    \/ \E x \in Logins \intersect part : DropLogin(x)
    \/ \E k \in Kinds \X Applicants : ExpireCode(k)

LoginNext == LoginSteps(Logins)

LoginSpec ==
    /\ AccountsInit /\ LoginInit
    /\ [][(AccountsNext /\ UNCHANGED loginVars) \/ LoginNext]_<<accountVars, loginVars>>

-----------------------------------------------------------------------------
(* Properties                                                              *)

\* A code logs in twice only if the second verification read it before the first deleted
\* it: "one-time" is broken by nothing but an overlap.
TwiceNeedsOverlap ==
    \A u, v \in Verifications :
        u # v /\ read[u] = read[v] /\ read[u] # NoCode => u \notin spent[v]

\* A code disappears unused only if it ran out, if a newer one replaced it, or if a
\* verification of the code before it was between its GET and its DELETE: a wrong or an
\* old code never costs the owner the code at hand.
LostCodeHasCause ==
    \A i \in CodeRequests :
        \/ phase[i] \in {"idle", "404"} \/ redis[Key(i)] = i \/ i \in expired
        \/ \E j \in CodeRequests \ {i} : Key(j) = Key(i) /\ phase[j] \notin {"idle", "404"}
        \/ \E v \in Verifications :
              hit[v] = i /\ read[v] # NoCode /\ (read[v] = i \/ i \notin stored[v])

\* A code logs in only by the way it was asked for, to the business it was asked for.
CodeOpensItsOwn ==
    \A v \in Verifications : read[v] # NoCode => LoginAs[read[v]] = LoginAs[v]
=============================================================================
