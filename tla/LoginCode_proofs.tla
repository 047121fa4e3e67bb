--------------------------- MODULE LoginCode_proofs ---------------------------
(***************************************************************************)
(* LoginCode: what a code opens, when it opens twice and when it is lost,  *)
(* for any number of requests, verifications, businesses and codes.        *)
(***************************************************************************)
EXTENDS LoginCode, TLAPS

Asked(i) == phase[i] \notin {"idle", "404"}

\* What is in Redis was asked for.  A verification deletes once, and after it has found
\* the code equal.
OrderInv ==
    /\ \A k \in Kinds \X Applicants : redis[k] # NoCode => Asked(redis[k])
    /\ \A v \in Verifications :
          /\ phase[v] \in {"idle", "equal"} => hit[v] = NoCode
          /\ phase[v] = "equal" => read[v] # NoCode
          /\ read[v] # NoCode => Asked(read[v])

\* A code that was read and then deleted is in Redis no more.
SpentInv ==
    \A u \in Verifications :
        (hit[u] # NoCode /\ read[u] # NoCode) =>
            \A k \in Kinds \X Applicants : redis[k] # read[u]

\* What a verification saw when it read; a code that was there then, and was not the
\* one read, does not come back.
SeenInv ==
    \A v \in Verifications :
        /\ \A u \in spent[v] : hit[u] # NoCode
        /\ \A i \in stored[v] : Asked(i)
        /\ phase[v] = "equal" =>
              \A i \in stored[v] :
                  (Key(i) = Key(v) /\ i # read[v]) => redis[Key(v)] # i

LoginInv ==
    LoginTypeOK /\ OrderInv /\ SpentInv /\ SeenInv
    /\ CodeOpensItsOwn /\ TwiceNeedsOverlap /\ LostCodeHasCause

USE LoginAssumption

-----------------------------------------------------------------------------
\* Nothing is in Redis at the start.
LEMMA LoginInvInit == LoginInit => LoginInv
<1> SUFFICES ASSUME LoginInit PROVE LoginInv
  OBVIOUS
<1>1. LoginTypeOK
  BY DEF LoginInit, LoginTypeOK, Logins
<1>2. OrderInv /\ SpentInv /\ SeenInv
  BY DEF LoginInit, OrderInv, SpentInv, SeenInv, Logins, Asked
<1>3. CodeOpensItsOwn /\ TwiceNeedsOverlap /\ LostCodeHasCause
  BY DEF LoginInit, CodeOpensItsOwn, TwiceNeedsOverlap, LostCodeHasCause, Logins
<1> QED
  BY <1>1, <1>2, <1>3 DEF LoginInv

\* Storing a code: it was drawn by nobody before, so nobody has read it.
LEMMA StoreKeeps ==
    ASSUME LoginInv, NEW i \in CodeRequests, StoreCode(i)
    PROVE  LoginInv'
<1> USE DEF LoginInv, Key
<1>1. LoginTypeOK'
  BY DEF StoreCode, LoginTypeOK, Logins
<1>2. /\ phase[i] = "idle" /\ phase'[i] = "stored"
      /\ \A x \in Logins : x # i => phase'[x] = phase[x]
      /\ i \in Logins /\ i # NoCode
  BY DEF StoreCode, LoginTypeOK, Logins
<1>3. /\ redis'[LoginAs[i]] = i
      /\ \A k \in Kinds \X Applicants : k # LoginAs[i] => redis'[k] = redis[k]
  BY DEF StoreCode, LoginTypeOK, Logins
<1>4. UNCHANGED <<read, expired, hit, stored, spent>>
  BY DEF StoreCode
<1>5. \A v \in Verifications : v \in Logins /\ v # i
  BY DEF Logins
<1>6. OrderInv'
  <2>1. \A j \in CodeRequests : (Asked(j) => Asked(j)') /\ Asked(i)'
    BY <1>2 DEF Asked, Logins
  <2>2. \A k \in Kinds \X Applicants : redis'[k] # NoCode => phase'[redis'[k]] \notin {"idle", "404"}
    BY <1>2, <1>3, <2>1 DEF OrderInv, LoginTypeOK, Asked
  <2>3. \A v \in Verifications : phase'[v] = phase[v]
    BY <1>2, <1>5
  <2>4. \A v \in Verifications : read[v] # NoCode => read[v] \in CodeRequests
    BY DEF LoginTypeOK
  <2> QED
    BY <1>4, <2>1, <2>2, <2>3, <2>4 DEF OrderInv, Asked
<1>7. SpentInv'
  BY <1>2, <1>3, <1>4 DEF SpentInv, OrderInv, Asked
<1>8. SeenInv'
  BY <1>2, <1>3, <1>4, <1>5 DEF SeenInv, LoginTypeOK, Logins, Asked
<1>9. CodeOpensItsOwn' /\ TwiceNeedsOverlap'
  BY <1>4 DEF CodeOpensItsOwn, TwiceNeedsOverlap
<1>10. LostCodeHasCause'
  <2> SUFFICES ASSUME NEW j \in CodeRequests, phase'[j] \notin {"idle", "404"},
                      redis'[Key(j)] # j, j \notin expired',
                      ~ \E h \in CodeRequests \ {j} :
                            Key(h) = Key(j) /\ phase'[h] \notin {"idle", "404"}
               PROVE  \E v \in Verifications :
                          hit'[v] = j /\ read'[v] # NoCode /\ (read'[v] = j \/ j \notin stored'[v])
    BY DEF LostCodeHasCause
  <2>1. j # i
    BY <1>3
  <2>2. LoginAs[j] # LoginAs[i]
    BY <1>2, <2>1
  <2>3. redis[Key(j)] # j
    BY <1>3, <2>2 DEF Logins
  <2>4. \A h \in CodeRequests : h # i => phase'[h] = phase[h]
    BY <1>2 DEF Logins
  <2> QED
    BY <1>2, <1>4, <2>1, <2>2, <2>3, <2>4 DEF LostCodeHasCause
<1> QED
  BY <1>1, <1>6, <1>7, <1>8, <1>9, <1>10

\* Reading a code: it is in Redis, so no verification has used it up.
LEMMA ReadKeeps ==
    ASSUME LoginInv, NEW v \in Verifications, ReadCode(v)
    PROVE  LoginInv'
<1> USE DEF LoginInv, Key
<1>1. /\ phase[v] = "idle" /\ phase'[v] \in {"equal", "400"}
      /\ \A x \in Logins : x # v => phase'[x] = phase[x]
      /\ v \in Logins /\ LoginAs[v] \in Kinds \X Applicants
  BY DEF ReadCode, Compare, LoginTypeOK, Logins
<1>2. /\ read'[v] \in {redis[LoginAs[v]], NoCode}
      /\ phase'[v] = "equal" => read'[v] = redis[LoginAs[v]] /\ read'[v] # NoCode
      /\ \A u \in Verifications : u # v => read'[u] = read[u]
  BY DEF ReadCode, Compare, Equal, LoginTypeOK, Logins
<1>3. UNCHANGED <<redis, hit, code, sent, expired>>
  BY DEF ReadCode, Compare
<1>4. /\ stored'[v] = {i \in CodeRequests : Asked(i)}
      /\ \A u \in Verifications : u # v => stored'[u] = stored[u]
  BY DEF ReadCode, Compare, LoginTypeOK, Asked
<1>5. /\ spent'[v] = {u \in Verifications : hit[u] # NoCode}
      /\ \A u \in Verifications : u # v => spent'[u] = spent[u]
  BY DEF ReadCode, Compare, LoginTypeOK
<1>6. LoginTypeOK'
  BY <1>1 DEF ReadCode, Compare, LoginTypeOK, Logins
<1>7. \A i \in CodeRequests : phase'[i] = phase[i]
  BY <1>1 DEF Logins
<1>8. hit[v] = NoCode
  BY <1>1 DEF OrderInv
<1>9. read'[v] # NoCode =>
          /\ read'[v] \in CodeRequests
          /\ LoginAs[read'[v]] = LoginAs[v]
          /\ Asked(read'[v])
  <2>1. \A k \in Kinds \X Applicants : redis[k] # NoCode => Asked(redis[k])
    BY DEF OrderInv
  <2> QED
    BY <1>1, <1>2, <2>1 DEF LoginTypeOK
<1>10. OrderInv'
  BY <1>1, <1>2, <1>3, <1>7, <1>8, <1>9 DEF OrderInv, Asked, LoginTypeOK, Logins
<1>11. SpentInv'
  BY <1>2, <1>3, <1>8 DEF SpentInv
<1>12. SeenInv'
  BY <1>1, <1>2, <1>3, <1>4, <1>5, <1>7 DEF SeenInv, Asked, Logins, LoginTypeOK
<1>13. CodeOpensItsOwn'
  BY <1>2, <1>9 DEF CodeOpensItsOwn
<1>14. TwiceNeedsOverlap'
  <2> SUFFICES ASSUME NEW u \in Verifications, NEW w \in Verifications,
                      u # w, read'[u] = read'[w], read'[u] # NoCode, u \in spent'[w]
               PROVE  FALSE
    BY DEF TwiceNeedsOverlap
  <2>1. CASE u = v
    BY <1>5, <1>8, <2>1 DEF SeenInv
  <2>2. CASE w = v
    BY <1>1, <1>2, <1>5, <2>2 DEF SpentInv
  <2>3. CASE u # v /\ w # v
    BY <1>2, <1>5, <2>3 DEF TwiceNeedsOverlap
  <2> QED
    BY <2>1, <2>2, <2>3
<1>15. LostCodeHasCause'
  BY <1>2, <1>3, <1>4, <1>7, <1>8 DEF LostCodeHasCause
<1> QED
  BY <1>6, <1>10, <1>11, <1>12, <1>13, <1>14, <1>15

\* Deleting: what goes is the code that was read, or one stored since.
LEMMA DeleteKeeps ==
    ASSUME LoginInv, NEW v \in Verifications, DeleteCode(v)
    PROVE  LoginInv'
<1> USE DEF LoginInv, Key
<1>1. /\ phase[v] = "equal" /\ phase'[v] = "deleted"
      /\ \A x \in Logins : x # v => phase'[x] = phase[x]
      /\ v \in Logins /\ LoginAs[v] \in Kinds \X Applicants
  BY DEF DeleteCode, LoginTypeOK, Logins
<1>2. /\ redis'[LoginAs[v]] = NoCode
      /\ \A k \in Kinds \X Applicants : k # LoginAs[v] => redis'[k] = redis[k]
  BY <1>1 DEF DeleteCode, LoginTypeOK
<1>3. /\ hit'[v] = redis[LoginAs[v]]
      /\ \A u \in Verifications : u # v => hit'[u] = hit[u]
  BY DEF DeleteCode, LoginTypeOK
<1>4. UNCHANGED <<code, read, sent, expired, stored, spent>>
  BY DEF DeleteCode
<1>5. LoginTypeOK'
  BY <1>1 DEF DeleteCode, LoginTypeOK, Logins
<1>6. \A i \in CodeRequests : phase'[i] = phase[i]
  BY <1>1 DEF Logins
<1>7. hit[v] = NoCode /\ read[v] # NoCode /\ read[v] \in CodeRequests
  BY <1>1 DEF OrderInv, LoginTypeOK
<1>8. OrderInv'
  <2>1. \A k \in Kinds \X Applicants : redis'[k] # NoCode => redis'[k] = redis[k]
    BY <1>2
  <2>2. \A u \in Verifications : phase'[u] = "equal" \/ phase'[u] = "idle" =>
            u # v /\ phase'[u] = phase[u]
    BY <1>1 DEF Logins
  <2>3. \A k \in Kinds \X Applicants : redis'[k] # NoCode => Asked(redis'[k])
    BY <2>1 DEF OrderInv
  <2>4. \A k \in Kinds \X Applicants : redis'[k] # NoCode => redis'[k] \in CodeRequests
    BY <1>5 DEF LoginTypeOK
  <2>5. \A u \in Verifications :
            /\ phase'[u] \in {"idle", "equal"} => hit'[u] = NoCode
            /\ phase'[u] = "equal" => read'[u] # NoCode
    BY <1>3, <1>4, <2>2 DEF OrderInv
  <2>6. \A u \in Verifications : read[u] # NoCode => read[u] \in CodeRequests /\ Asked(read[u])
    BY DEF OrderInv, LoginTypeOK
  <2> QED
    BY <1>4, <1>6, <2>3, <2>4, <2>5, <2>6 DEF OrderInv, Asked
<1>9. SpentInv'
  <2>1. \A k \in Kinds \X Applicants : redis'[k] # read[v]
    BY <1>1, <1>2, <1>7 DEF LoginTypeOK, CodeOpensItsOwn
  <2>2. \A u \in Verifications : u # v =>
            ((hit[u] # NoCode /\ read[u] # NoCode) =>
                \A k \in Kinds \X Applicants : redis'[k] # read[u])
    BY <1>2 DEF SpentInv
  <2> QED
    BY <1>3, <1>4, <2>1, <2>2 DEF SpentInv
<1>10. SeenInv'
  <2>1. \A w \in Verifications : w \in Logins /\ stored[w] \subseteq CodeRequests
    BY DEF LoginTypeOK, Logins
  <2>2. \A w \in Verifications : \A i \in stored[w] :
            (redis[LoginAs[w]] # i => redis'[LoginAs[w]] # i)
    BY <1>2, <2>1
  <2>3. \A w \in Verifications : \A u \in spent[w] : hit'[u] # NoCode
    BY <1>3, <1>7 DEF SeenInv, LoginTypeOK
  <2>4. \A w \in Verifications : phase'[w] = "equal" => phase[w] = "equal"
    BY <1>1 DEF Logins
  <2> QED
    BY <1>4, <1>6, <2>1, <2>2, <2>3, <2>4 DEF SeenInv, Asked
<1>11. CodeOpensItsOwn' /\ TwiceNeedsOverlap'
  BY <1>4 DEF CodeOpensItsOwn, TwiceNeedsOverlap
<1>12. LostCodeHasCause'
  <2> SUFFICES ASSUME NEW i \in CodeRequests, phase'[i] \notin {"idle", "404"},
                      redis'[Key(i)] # i, i \notin expired',
                      ~ \E j \in CodeRequests \ {i} :
                            Key(j) = Key(i) /\ phase'[j] \notin {"idle", "404"}
               PROVE  \E w \in Verifications :
                          hit'[w] = i /\ read'[w] # NoCode /\ (read'[w] = i \/ i \notin stored'[w])
    BY DEF LostCodeHasCause
  <2>1. CASE redis[Key(i)] = i
    <3>1. LoginAs[i] = LoginAs[v]
      BY <1>2, <2>1 DEF Logins
    <3>2. hit'[v] = i
      BY <1>3, <2>1, <3>1
    <3>3. read[v] = i \/ i \notin stored[v]
      BY <1>1, <2>1, <3>1 DEF SeenInv
    <3> QED
      BY <1>4, <1>7, <3>2, <3>3
  <2>2. CASE redis[Key(i)] # i
    <3>1. PICK w \in Verifications :
              hit[w] = i /\ read[w] # NoCode /\ (read[w] = i \/ i \notin stored[w])
      BY <1>4, <1>6, <2>2 DEF LostCodeHasCause
    <3>2. w # v
      BY <1>7, <3>1
    <3> QED
      BY <1>3, <1>4, <3>1, <3>2
  <2> QED
    BY <2>1, <2>2
<1> QED
  BY <1>5, <1>8, <1>9, <1>10, <1>11, <1>12

\* A code that runs out is neither used nor lost without a cause.
LEMMA ExpiryKeeps ==
    ASSUME LoginInv, NEW k \in Kinds \X Applicants, ExpireCode(k)
    PROVE  LoginInv'
<1> USE DEF LoginInv, Key
<1>1. UNCHANGED <<code, phase, read, sent, hit, stored, spent>>
  BY DEF ExpireCode
<1>2. /\ redis[k] # NoCode /\ redis'[k] = NoCode
      /\ \A l \in Kinds \X Applicants : l # k => redis'[l] = redis[l]
      /\ expired' = expired \union {redis[k]}
  BY DEF ExpireCode, LoginTypeOK
<1>3. LoginTypeOK'
  BY DEF ExpireCode, LoginTypeOK
<1>4. OrderInv'
  BY <1>1, <1>2 DEF OrderInv, Asked
<1>5. SpentInv'
  BY <1>1, <1>2 DEF SpentInv, LoginTypeOK
<1>6. SeenInv'
  <2>1. \A v \in Verifications : v \in Logins /\ stored[v] \subseteq CodeRequests
    BY DEF LoginTypeOK, Logins
  <2>2. \A v \in Verifications : \A i \in stored[v] :
            (redis[LoginAs[v]] # i => redis'[LoginAs[v]] # i)
    BY <1>2, <2>1
  <2> QED
    BY <1>1, <2>1, <2>2 DEF SeenInv, Asked
<1>7. CodeOpensItsOwn' /\ TwiceNeedsOverlap'
  BY <1>1 DEF CodeOpensItsOwn, TwiceNeedsOverlap
<1>8. LostCodeHasCause'
  <2>1. \A i \in CodeRequests :
            redis[LoginAs[i]] = i => redis'[LoginAs[i]] = i \/ i \in expired'
    BY <1>2 DEF Logins
  <2>2. expired \subseteq expired'
    BY <1>2
  <2> QED
    BY <1>1, <2>1, <2>2 DEF LostCodeHasCause
<1> QED
  BY <1>3, <1>4, <1>5, <1>6, <1>7, <1>8

\* The steps that only move a request on: a refusal, the message, the token, a drop.
LEMMA MoveKeeps ==
    ASSUME LoginInv, NEW x \in Logins, NEW s \in {"200", "404", "dropped"},
           phase' = [phase EXCEPT ![x] = s],
           phase[x] = "idle" <=> s = "404", phase[x] # "404",
           sent' \subseteq CodeRequests,
           UNCHANGED <<redis, code, read, expired, hit, stored, spent>>
    PROVE  LoginInv'
<1> USE DEF LoginInv, Key
<1>1. LoginTypeOK'
  BY DEF LoginTypeOK
<1>2. /\ phase'[x] = s /\ \A y \in Logins : y # x => phase'[y] = phase[y]
  BY DEF LoginTypeOK
<1>3. \A i \in CodeRequests : Asked(i)' <=> Asked(i)
  BY <1>2 DEF Asked, Logins
<1>4. \A v \in Verifications : phase'[v] = "equal" => phase[v] = "equal"
  BY <1>2 DEF Logins
<1>5. \A v \in Verifications : phase'[v] = "idle" => phase[v] = "idle"
  BY <1>2 DEF Logins
<1>6. OrderInv'
  BY <1>3, <1>4, <1>5 DEF OrderInv, LoginTypeOK
<1>7. SpentInv'
  BY DEF SpentInv
<1>8. SeenInv'
  BY <1>3, <1>4 DEF SeenInv, LoginTypeOK
<1>9. CodeOpensItsOwn' /\ TwiceNeedsOverlap'
  BY DEF CodeOpensItsOwn, TwiceNeedsOverlap
<1>10. LostCodeHasCause'
  BY <1>3 DEF LostCodeHasCause, Asked
<1> QED
  BY <1>1, <1>6, <1>7, <1>8, <1>9, <1>10

\* Every step keeps the invariant; those of Accounts do not touch it.
LEMMA LoginInvStep ==
    ASSUME LoginInv,
           [(AccountsNext /\ UNCHANGED loginVars) \/ LoginNext]_<<accountVars, loginVars>>
    PROVE  LoginInv'
<1>1. ASSUME NEW i \in CodeRequests, Asking(i) PROVE LoginInv'
  <2>1. CASE NotFound(i)
    BY <2>1, MoveKeeps DEF NotFound, Logins, LoginInv, LoginTypeOK
  <2>2. CASE StoreCode(i)
    BY <2>2, StoreKeeps
  <2>3. CASE SendCode(i)
    BY <2>3, MoveKeeps DEF SendCode, Logins, LoginInv, LoginTypeOK
  <2> QED
    BY <1>1, <2>1, <2>2, <2>3 DEF Asking
<1>2. ASSUME NEW v \in Verifications, Verifying(v) PROVE LoginInv'
  <2>1. CASE NotFound(v)
    BY <2>1, MoveKeeps DEF NotFound, Logins, LoginInv, LoginTypeOK
  <2>2. CASE ReadCode(v)
    BY <2>2, ReadKeeps
  <2>3. CASE DeleteCode(v)
    BY <2>3, DeleteKeeps
  <2>4. CASE Login(v)
    BY <2>4, MoveKeeps DEF Login, Logins, LoginInv, LoginTypeOK
  <2> QED
    BY <1>2, <2>1, <2>2, <2>3, <2>4 DEF Verifying
<1>3. ASSUME NEW x \in Logins, DropLogin(x) PROVE LoginInv'
  BY <1>3, MoveKeeps DEF DropLogin, LoginInv, LoginTypeOK
<1>4. ASSUME NEW k \in Kinds \X Applicants, ExpireCode(k) PROVE LoginInv'
  BY <1>4, ExpiryKeeps
<1>5. CASE UNCHANGED loginVars
  BY <1>5 DEF loginVars, LoginInv, LoginTypeOK, OrderInv, SpentInv, SeenInv, Asked, Key,
              CodeOpensItsOwn, TwiceNeedsOverlap, LostCodeHasCause
<1> QED
  BY <1>1, <1>2, <1>3, <1>4, <1>5
  DEF LoginNext, LoginSteps, RequestPin, RequestOtp, VerifyPin, VerifyOtp

\* The inductive invariant holds in every reachable state.
THEOREM LoginInvariant == LoginSpec => []LoginInv
  BY LoginInvInit, LoginInvStep, PTL DEF LoginSpec

-----------------------------------------------------------------------------
\* The variables keep their types: each key holds a code that was asked for under it.
THEOREM LoginTyped == LoginSpec => []LoginTypeOK
<1>1. LoginInv => LoginTypeOK
  BY DEF LoginInv
<1> QED
  BY <1>1, LoginInvariant, PTL

\* A code logs in only by the way and to the business it was asked for (the keys
\* auth:pin:<id> and otp:login:<id> of auth_service.py).
THEOREM CodesOpenTheirOwn == LoginSpec => []CodeOpensItsOwn
<1>1. LoginInv => CodeOpensItsOwn
  BY DEF LoginInv
<1> QED
  BY <1>1, LoginInvariant, PTL

\* A code logs in twice only if two verifications overlapped (GET and DELETE of
\* verify_business_pin and verify_business_login_otp).
THEOREM TwiceOnlyByOverlap == LoginSpec => []TwiceNeedsOverlap
<1>1. LoginInv => TwiceNeedsOverlap
  BY DEF LoginInv
<1> QED
  BY <1>1, LoginInvariant, PTL

\* A code that is gone unused ran out, was replaced, or was deleted in place of the one
\* before it by a verification under way.
THEOREM LossesExplained == LoginSpec => []LostCodeHasCause
<1>1. LoginInv => LostCodeHasCause
  BY DEF LoginInv
<1> QED
  BY <1>1, LoginInvariant, PTL
=============================================================================
