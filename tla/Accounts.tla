------------------------------ MODULE Accounts ------------------------------
(***************************************************************************)
(* Businesses and who may act for them: self-serve registration            *)
(* (business_service.py, public.py), the two seed scripts, tokens, and     *)
(* get_current_business (core/security/auth.py).  A slug is a sequence of  *)
(* words; the words that fit into 35 characters are its first StemWords.   *)
(* No operation renames, deactivates or deletes a business.                *)
(***************************************************************************)
EXTENDS Naturals, Sequences

CONSTANTS
    Applicants,     \* registrations and runs of a seed script
    Seeds,          \* those that are runs of a seed script
    Base,           \* the slug each asks for, by name or outright
    OwnPhone,       \* its phone, normalised
    StemWords,      \* how many words of a slug a numbered slug keeps
    NoToken         \* not a token

ASSUME AccountsAssumption ==
    /\ Seeds \subseteq Applicants
    /\ Base \in [Applicants -> Seq(Nat)]
    /\ DOMAIN OwnPhone = Applicants
    /\ StemWords \in Nat
    /\ NoToken \notin Applicants

VARIABLES
    businesses,     \* the rows: the request that inserted one is its id
    slug,           \* the slug each request has settled on, or tries
    counter,        \* the next number to try
    stage,          \* where each request is, or how it ended
    earlier,        \* history: the businesses that existed when each began
    tokens,         \* businesses whose owners hold a valid token
    visit           \* history: the last access, by whose token to which business

accountVars == <<businesses, slug, counter, stage, earlier, tokens, visit>>

\* Only the first words are kept when a number is put behind them.
Numbered(base, n) ==
    SubSeq(base, 1, IF Len(base) < StemWords THEN Len(base) ELSE StemWords) \o <<n>>

Slugs == {slug[b] : b \in businesses}
OwnPhones == {OwnPhone[b] : b \in businesses}

RegistrationOpen == {"slug", "insert", "inserted"}
RegistrationEnded == {"201", "400", "500", "skipped", "dropped"}

AccountsTypeOK ==
    /\ businesses \subseteq Applicants
    /\ slug \in [Applicants -> Seq(Nat)]
    /\ counter \in [Applicants -> Nat]
    /\ stage \in [Applicants -> RegistrationOpen \union RegistrationEnded \union {"idle", "committed"}]
    /\ earlier \in [Applicants -> SUBSET Applicants]
    /\ tokens \subseteq businesses
    /\ visit \in Applicants \X Applicants \union {NoToken}

AccountsInit ==
    /\ businesses = {}
    /\ slug = Base
    /\ counter = [a \in Applicants |-> 2]
    /\ stage = [a \in Applicants |-> "idle"]
    /\ earlier = [a \in Applicants |-> {}]
    /\ tokens = {}
    /\ visit = NoToken

-----------------------------------------------------------------------------
(* register_new_business; seed_database, seed_production_business          *)

\* A registration looks for its phone first; a seed does not.
Apply(a) ==
    /\ stage[a] = "idle"
    /\ stage' = [stage EXCEPT ![a] =
                    IF a \notin Seeds /\ OwnPhone[a] \in OwnPhones THEN "400" ELSE "slug"]
    /\ earlier' = [earlier EXCEPT ![a] = businesses]
    /\ UNCHANGED <<businesses, slug, counter, tokens, visit>>

\* Slip: the counter stays.
TakenSlugAgain(a) ==
    /\ stage[a] = "slug" /\ a \notin Seeds
    /\ slug[a] \in Slugs
    /\ slug' = [slug EXCEPT ![a] = Numbered(Base[a], counter[a])]
    /\ UNCHANGED <<businesses, counter, stage, earlier, tokens, visit>>

\* Slip: a taken slug is numbered once and not looked up again.
TakenSlugOnce(a) ==
    /\ stage[a] = "slug" /\ a \notin Seeds
    /\ slug[a] \in Slugs
    /\ slug' = [slug EXCEPT ![a] = Numbered(Base[a], counter[a])]
    /\ stage' = [stage EXCEPT ![a] = "insert"]
    /\ UNCHANGED <<businesses, counter, earlier, tokens, visit>>

TakenSlug(a) ==
    /\ stage[a] = "slug" /\ a \notin Seeds
    /\ slug[a] \in Slugs
    /\ slug' = [slug EXCEPT ![a] = Numbered(Base[a], counter[a])]
    /\ counter' = [counter EXCEPT ![a] = @ + 1]
    /\ UNCHANGED <<businesses, stage, earlier, tokens, visit>>

FreeSlug(a) ==
    /\ stage[a] = "slug"
    /\ slug[a] \notin Slugs
    /\ stage' = [stage EXCEPT ![a] = "insert"]
    /\ UNCHANGED <<businesses, slug, counter, earlier, tokens, visit>>

\* The demo business is there already.
SkipSeed(a) ==
    /\ stage[a] = "slug" /\ a \in Seeds
    /\ slug[a] \in Slugs
    /\ stage' = [stage EXCEPT ![a] = "skipped"]
    /\ UNCHANGED <<businesses, slug, counter, earlier, tokens, visit>>

Clash(a, b) == slug[a] = slug[b] \/ OwnPhone[a] = OwnPhone[b]

\* Slip: businesses without unique indexes.
InsertUnchecked(a) ==
    /\ stage[a] = "insert"
    /\ stage' = [stage EXCEPT ![a] = "inserted"]
    /\ UNCHANGED <<businesses, slug, counter, earlier, tokens, visit>>

\* The unique indexes on slug and phone: an uncommitted row makes the INSERT wait, a
\* committed one makes it fail.
InsertBusiness(a) ==
    /\ stage[a] = "insert"
    /\ \A b \in Applicants : stage[b] = "inserted" => ~Clash(a, b)
    /\ stage' = [stage EXCEPT ![a] =
                    IF \E b \in businesses : Clash(a, b) THEN "500" ELSE "inserted"]
    /\ UNCHANGED <<businesses, slug, counter, earlier, tokens, visit>>

\* Slip: the session is not committed.
CommitNothing(a) ==
    /\ stage[a] = "inserted"
    /\ stage' = [stage EXCEPT ![a] = IF a \in Seeds THEN "201" ELSE "committed"]
    /\ UNCHANGED <<businesses, slug, counter, earlier, tokens, visit>>

\* The services are inserted and all is committed.
CommitBusiness(a) ==
    /\ stage[a] = "inserted"
    /\ businesses' = businesses \union {a}
    /\ stage' = [stage EXCEPT ![a] = IF a \in Seeds THEN "201" ELSE "committed"]
    /\ UNCHANGED <<slug, counter, earlier, tokens, visit>>

\* The answer carries a token for the dashboard.
GiveToken(a) ==
    /\ stage[a] = "committed"
    /\ stage' = [stage EXCEPT ![a] = "201"]
    /\ tokens' = tokens \union {a}
    /\ UNCHANGED <<businesses, slug, counter, earlier, visit>>

DropRegistration(a) ==
    /\ stage[a] \in RegistrationOpen \union {"committed"}
    /\ stage' = [stage EXCEPT ![a] = "dropped"]
    /\ UNCHANGED <<businesses, slug, counter, earlier, tokens, visit>>

-----------------------------------------------------------------------------
(* get_current_business                                                    *)

\* Slip: any valid token will do.
GrantsAny(t, b) == TRUE

\* 403 only if both the id and the slug in the token are another's.
Grants(t, b) == t = b \/ slug[t] = slug[b]

\* A request with t's token to a route under b's slug.
Enter(t, b) ==
    /\ t \in tokens /\ b \in businesses
    /\ Grants(t, b)
    /\ visit' = <<t, b>>
    /\ UNCHANGED <<businesses, slug, counter, stage, earlier, tokens>>

\* After 30 days.
ExpireToken(t) ==
    /\ t \in tokens
    /\ tokens' = tokens \ {t}
    /\ UNCHANGED <<businesses, slug, counter, stage, earlier, visit>>

-----------------------------------------------------------------------------
RegistrationStep(a) ==
    /\ a \notin Seeds
    /\ \/ Apply(a)
       \/ TakenSlug(a) \/ FreeSlug(a)
       \/ InsertBusiness(a) \/ CommitBusiness(a) \/ GiveToken(a)

SeedStep(a) ==
    /\ a \in Seeds
    /\ \/ Apply(a)
       \/ SkipSeed(a) \/ FreeSlug(a)
       \/ InsertBusiness(a) \/ CommitBusiness(a)

\* The steps of the applicants that take part; what their requests do by themselves.
AccountsProgress(part) ==
    \E a \in Applicants \intersect part : RegistrationStep(a) \/ SeedStep(a)

AccountsSteps(part) ==
    \/ AccountsProgress(part)
    \/ \E a \in Applicants \intersect part : DropRegistration(a)
    \/ \E t, b \in Applicants \intersect part : Enter(t, b)
    \/ \E t \in Applicants \intersect part : ExpireToken(t)

AccountsNext == AccountsSteps(Applicants)

AccountsSpec == AccountsInit /\ [][AccountsNext]_accountVars

-----------------------------------------------------------------------------
(* Properties                                                              *)

\* Businesses registered at once never share a slug or a phone.
UniqueKeys == \A a, b \in businesses : Clash(a, b) => a = b

\* A registration fails with a server error only if a business that was not yet there
\* when it began has taken its slug or phone; a seed, which does not look at phones,
\* also if its phone was taken before.
FailureHasCause ==
    \A a \in Applicants : stage[a] = "500" =>
        \E b \in businesses \ {a} :
            \/ Clash(a, b) /\ b \notin earlier[a]
            \/ a \in Seeds /\ OwnPhone[a] = OwnPhone[b]

\* A token opens the dashboard of the business it was given for and no other: the check
\* accepts an equal slug, and that is safe because slugs are unique and never change.
OwnBusinessOnly == visit # NoToken => visit[1] = visit[2]

\* The search for a free slug, and the wait for another registration's row, come to an end.
RegistrationsEnd == <>[](\A a \in Applicants : stage[a] \notin RegistrationOpen)
=============================================================================
