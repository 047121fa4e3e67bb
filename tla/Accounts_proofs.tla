--------------------------- MODULE Accounts_proofs ---------------------------
(***************************************************************************)
(* Accounts: slugs and phones stay unique, a registration fails only for a *)
(* reason, and a token opens one dashboard, for any number of applicants,  *)
(* any names and any cut.                                                  *)
(***************************************************************************)
EXTENDS Accounts, SequenceTheorems, TLAPS

\* Who owns its slug and phone: the businesses, and the row about to be committed.
Holders == businesses \union {a \in Applicants : stage[a] = "inserted"}

\* The rows are those of the requests that have committed.
RowsInv ==
    \A a \in Applicants :
        /\ a \in businesses => stage[a] \in {"committed", "201", "dropped"}
        /\ stage[a] = "committed" => a \in businesses

\* The unique indexes, with the uncommitted rows that make others wait.
KeysInv == \A a, b \in Holders : Clash(a, b) => a = b

\* What the lookups of a request have excluded still differs, as no row is renamed.
LookupInv ==
    \A a \in Applicants :
        /\ earlier[a] \subseteq businesses
        /\ stage[a] = "insert" => \A b \in earlier[a] : slug[a] # slug[b]
        /\ stage[a] \in {"slug", "insert"} /\ a \notin Seeds =>
              \A b \in earlier[a] : OwnPhone[a] # OwnPhone[b]

AccountsInv ==
    AccountsTypeOK /\ RowsInv /\ KeysInv /\ LookupInv /\ FailureHasCause /\ OwnBusinessOnly

USE AccountsAssumption

\* A numbered slug is a slug.
LEMMA NumberedType ==
    ASSUME NEW base \in Seq(Nat), NEW n \in Nat
    PROVE  Numbered(base, n) \in Seq(Nat)
<1> DEFINE k == IF Len(base) < StemWords THEN Len(base) ELSE StemWords
<1>1. k \in Nat /\ k <= Len(base)
  BY LenProperties
<1>2. SubSeq(base, 1, k) \in Seq(Nat)
  <2> HIDE DEF k
  <2> QED
    BY <1>1, SubSeqProperties
<1>3. <<n>> \in Seq(Nat)
  OBVIOUS
<1> QED
  BY <1>2, <1>3, ConcatProperties DEF Numbered

-----------------------------------------------------------------------------
\* Nothing is registered at the start.
LEMMA AccountsInvInit == AccountsInit => AccountsInv
  BY DEF AccountsInit, AccountsInv, AccountsTypeOK, RowsInv, KeysInv, Holders, LookupInv,
         FailureHasCause, OwnBusinessOnly, RegistrationOpen, RegistrationEnded

\* The steps keep the variables in their types.
LEMMA AccountsTypeStep ==
    ASSUME AccountsTypeOK, RowsInv, [AccountsNext]_accountVars
    PROVE  AccountsTypeOK'
<1> USE DEF AccountsTypeOK, RegistrationOpen, RegistrationEnded
<1>1. ASSUME NEW a \in Applicants, RegistrationStep(a) \/ SeedStep(a)
      PROVE  AccountsTypeOK'
  <2>1. CASE Apply(a)
    BY <2>1 DEF Apply
  <2>2. CASE TakenSlug(a)
    <3>1. Numbered(Base[a], counter[a]) \in Seq(Nat)
      BY NumberedType
    <3> QED
      BY <2>2, <3>1 DEF TakenSlug
  <2>3. CASE FreeSlug(a) \/ SkipSeed(a)
    BY <2>3 DEF FreeSlug, SkipSeed
  <2>4. CASE InsertBusiness(a)
    BY <2>4 DEF InsertBusiness
  <2>5. CASE CommitBusiness(a)
    BY <2>5 DEF CommitBusiness
  <2>6. CASE GiveToken(a)
    BY <2>6 DEF GiveToken, RowsInv
  <2> QED
    BY <1>1, <2>1, <2>2, <2>3, <2>4, <2>5, <2>6 DEF RegistrationStep, SeedStep
<1>2. ASSUME NEW a \in Applicants, DropRegistration(a) PROVE AccountsTypeOK'
  BY <1>2 DEF DropRegistration
<1>3. ASSUME NEW t \in Applicants, NEW b \in Applicants, Enter(t, b) PROVE AccountsTypeOK'
  BY <1>3 DEF Enter
<1>4. ASSUME NEW t \in Applicants, ExpireToken(t) PROVE AccountsTypeOK'
  BY <1>4 DEF ExpireToken
<1>5. CASE UNCHANGED accountVars
  BY <1>5 DEF accountVars
<1> QED
  BY <1>1, <1>2, <1>3, <1>4, <1>5 DEF AccountsNext, AccountsSteps, AccountsProgress

\* A number behind a slug changes nobody's key: who looks for a slug holds none yet.
LEMMA TakenSlugKeeps ==
    ASSUME AccountsInv, AccountsTypeOK', NEW a \in Applicants, TakenSlug(a)
    PROVE  AccountsInv'
<1>1. UNCHANGED <<businesses, stage, earlier, visit>> /\ stage[a] = "slug"
  BY DEF TakenSlug
<1>2. \A b \in Applicants : b # a => slug'[b] = slug[b]
  BY DEF TakenSlug, AccountsInv, AccountsTypeOK
<1>3. RowsInv' /\ OwnBusinessOnly'
  BY <1>1 DEF AccountsInv, RowsInv, OwnBusinessOnly
<1>4. \A b \in Holders : b \in Applicants /\ b # a
  BY <1>1 DEF Holders, AccountsInv, AccountsTypeOK, RowsInv
<1>5. Holders' = Holders
  BY <1>1 DEF Holders
<1>6. KeysInv'
  BY <1>2, <1>4, <1>5 DEF KeysInv, AccountsInv, Clash
<1>7. LookupInv'
  BY <1>1, <1>2, <1>4 DEF LookupInv, AccountsInv, Holders
<1>8. FailureHasCause'
  BY <1>1, <1>2, <1>4 DEF FailureHasCause, AccountsInv, Holders, Clash
<1> QED
  BY <1>3, <1>6, <1>7, <1>8 DEF AccountsInv

\* An INSERT succeeds only if nobody holds the keys, and fails only if a business does.
LEMMA InsertKeeps ==
    ASSUME AccountsInv, AccountsTypeOK', NEW a \in Applicants, InsertBusiness(a)
    PROVE  AccountsInv'
<1>1. UNCHANGED <<businesses, slug, earlier, visit>> /\ stage[a] = "insert"
  BY DEF InsertBusiness
<1>2. \A b \in Applicants : b # a => stage'[b] = stage[b]
  BY DEF InsertBusiness, AccountsInv, AccountsTypeOK
<1>3. stage'[a] \in {"500", "inserted"}
  BY DEF InsertBusiness, AccountsInv, AccountsTypeOK
<1>4. RowsInv' /\ OwnBusinessOnly'
  BY <1>1, <1>2, <1>3 DEF AccountsInv, RowsInv, OwnBusinessOnly
<1>5. LookupInv'
  BY <1>1, <1>2, <1>3 DEF AccountsInv, LookupInv
<1>6. a \notin businesses
  BY <1>1 DEF AccountsInv, RowsInv
<1>7. CASE \E b \in businesses : Clash(a, b)
  <2>1. stage'[a] = "500"
    BY <1>7 DEF InsertBusiness, AccountsInv, AccountsTypeOK
  <2>2. PICK b \in businesses : Clash(a, b)
    BY <1>7
  <2>3. b \notin earlier[a] \/ (a \in Seeds /\ OwnPhone[a] = OwnPhone[b])
    BY <1>1, <2>2 DEF AccountsInv, LookupInv, Clash
  <2>4. FailureHasCause'
    BY <1>1, <1>2, <1>6, <2>2, <2>3 DEF AccountsInv, FailureHasCause, Clash
  <2>5. Holders' \subseteq Holders
    BY <1>1, <1>2, <2>1 DEF Holders
  <2>6. KeysInv'
    BY <1>1, <2>5 DEF AccountsInv, KeysInv, Clash
  <2> QED
    BY <1>4, <1>5, <2>4, <2>6 DEF AccountsInv
<1>8. CASE ~ \E b \in businesses : Clash(a, b)
  <2>1. stage'[a] = "inserted"
    BY <1>8 DEF InsertBusiness, AccountsInv, AccountsTypeOK
  <2>2. \A b \in Holders : ~Clash(a, b) /\ ~Clash(b, a)
    BY <1>8 DEF InsertBusiness, Holders, Clash
  <2>3. Holders' \subseteq Holders \union {a}
    BY <1>1, <1>2 DEF Holders
  <2>4. KeysInv'
    BY <1>1, <2>2, <2>3 DEF AccountsInv, KeysInv, Clash
  <2>5. FailureHasCause'
    BY <1>1, <1>2, <2>1 DEF AccountsInv, FailureHasCause, Clash
  <2> QED
    BY <1>4, <1>5, <2>4, <2>5 DEF AccountsInv
<1> QED
  BY <1>7, <1>8

\* A step of a registration or of a seed.
LEMMA RegistrationKeeps ==
    ASSUME AccountsInv, AccountsTypeOK', NEW a \in Applicants,
           RegistrationStep(a) \/ SeedStep(a)
    PROVE  AccountsInv'
<1>1. CASE TakenSlug(a)
  BY <1>1, TakenSlugKeeps
<1>2. CASE InsertBusiness(a)
  BY <1>2, InsertKeeps
<1> USE DEF AccountsInv, AccountsTypeOK, RowsInv, KeysInv, Holders, LookupInv,
            FailureHasCause, OwnBusinessOnly, Clash, Slugs, OwnPhones
<1>3. CASE Apply(a)
  BY <1>3 DEF Apply
<1>4. CASE FreeSlug(a)
  BY <1>4 DEF FreeSlug
<1>5. CASE SkipSeed(a)
  BY <1>5 DEF SkipSeed
<1>6. CASE CommitBusiness(a)
  BY <1>6 DEF CommitBusiness
<1>7. CASE GiveToken(a)
  BY <1>7 DEF GiveToken
<1> QED
  BY <1>1, <1>2, <1>3, <1>4, <1>5, <1>6, <1>7 DEF RegistrationStep, SeedStep

\* Every step keeps the invariant.
LEMMA AccountsInvStep ==
    ASSUME AccountsInv, [AccountsNext]_accountVars
    PROVE  AccountsInv'
<1>0. AccountsTypeOK'
  BY AccountsTypeStep DEF AccountsInv
<1>1. ASSUME NEW a \in Applicants, RegistrationStep(a) \/ SeedStep(a)
      PROVE  AccountsInv'
  BY <1>0, <1>1, RegistrationKeeps
<1> USE DEF AccountsInv, AccountsTypeOK, RowsInv, KeysInv, Holders, LookupInv,
            FailureHasCause, OwnBusinessOnly, Clash
<1>2. ASSUME NEW a \in Applicants, DropRegistration(a) PROVE AccountsInv'
  BY <1>0, <1>2 DEF DropRegistration, RegistrationOpen
<1>3. ASSUME NEW t \in Applicants, NEW b \in Applicants, Enter(t, b) PROVE AccountsInv'
  BY <1>0, <1>3 DEF Enter, Grants
<1>4. ASSUME NEW t \in Applicants, ExpireToken(t) PROVE AccountsInv'
  BY <1>0, <1>4 DEF ExpireToken
<1>5. CASE UNCHANGED accountVars
  BY <1>0, <1>5 DEF accountVars
<1> QED
  BY <1>1, <1>2, <1>3, <1>4, <1>5 DEF AccountsNext, AccountsSteps, AccountsProgress

\* The inductive invariant holds in every reachable state.
THEOREM AccountsInvariant == AccountsSpec => []AccountsInv
  BY AccountsInvInit, AccountsInvStep, PTL DEF AccountsSpec

-----------------------------------------------------------------------------
\* The variables keep their types: a token is only ever given for a row that was committed.
THEOREM AccountsTyped == AccountsSpec => []AccountsTypeOK
<1>1. AccountsInv => AccountsTypeOK
  BY DEF AccountsInv
<1> QED
  BY <1>1, AccountsInvariant, PTL

\* Businesses registered at once never share a slug or a phone (the unique indexes of
\* models/business.py and the search of register_new_business).
THEOREM KeysStayUnique == AccountsSpec => []UniqueKeys
<1>1. AccountsInv => UniqueKeys
  BY DEF AccountsInv, KeysInv, Holders, UniqueKeys
<1> QED
  BY <1>1, AccountsInvariant, PTL

\* A registration fails with a server error only if somebody who came later was faster,
\* or if a seed's phone was taken.
THEOREM FailuresExplained == AccountsSpec => []FailureHasCause
<1>1. AccountsInv => FailureHasCause
  BY DEF AccountsInv
<1> QED
  BY <1>1, AccountsInvariant, PTL

\* get_current_business accepts an equal slug: still a token opens no other dashboard.
THEOREM TokensOpenTheirOwn == AccountsSpec => []OwnBusinessOnly
<1>1. AccountsInv => OwnBusinessOnly
  BY DEF AccountsInv
<1> QED
  BY <1>1, AccountsInvariant, PTL
=============================================================================
