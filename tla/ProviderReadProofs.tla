-------------------------- MODULE ProviderReadProofs --------------------------
(***************************************************************************)
(* Proofs about ProviderRead, for every set of providers, ids and          *)
(* addresses and every number of attempts.                                 *)
(***************************************************************************)
EXTENDS ProviderRead, SequenceTheorems, TLAPS

\* What a lookup that still calls may rely on: it has attempts left, and none was
\* spent when its issuer has no app.
LookupGoesOn ==
  /\ app \in BOOLEAN /\ account \in Account \cup {Gone}
  /\ pc \in {"calling", "done"} /\ calls \in 0..LookupAttempts
  /\ pc = "calling" => calls < LookupAttempts /\ outcome = "none"
  /\ ~app => calls = 0

IInv == LookupGoesOn /\ OutcomeIsTruthful

-----------------------------------------------------------------------------
(* Classification.                                                         *)

\* An account's linked entries are a sequence of at most two.
LEMMA AccountFields ==
  ASSUME NEW a \in Account
  PROVE  /\ a.data \in Seq(Entry)
         /\ a.email \in Addresses \cup {BlankEmail, NoEmail} /\ a.verified \in BOOLEAN
<1>1. /\ a.data \in UNION {[1..n -> Entry] : n \in 0..2}
      /\ a.email \in Addresses \cup {BlankEmail, NoEmail} /\ a.verified \in BOOLEAN
  BY DEF Account
<1>2. PICK n \in 0..2 : a.data \in [1..n -> Entry]
  BY <1>1
<1>3. n \in Nat
  OBVIOUS
<1> QED
  BY <1>1, <1>2, <1>3

\* _resolve_provider: anonymous for an account without links, the one usable link of
\* an account with one, nothing else.
LEMMA ResolvedIsAllThatIsLinked ==
  ASSUME NEW data \in Seq(Entry), NEW p \in Resolved(data)
  PROVE  IF p.provider = "anonymous" THEN p.uid = NoUid /\ Len(data) = 0
                                     ELSE Usable(p) /\ Len(data) = 1
<1>1. CASE data = <<>>
  <2>1. p = [provider |-> "anonymous", uid |-> NoUid] /\ Len(data) = 0
    BY <1>1 DEF Resolved
  <2> QED
    BY <2>1
<1>2. CASE data # <<>>
  <2>1. /\ Len(data) = 1 /\ data[1].provider \in Recognized /\ data[1].uid # EmptyUid
        /\ p = data[1]
    BY <1>2 DEF Resolved
  <2>2. p \in Entry
    <3>1. 1 \in 1..Len(data)
      BY <2>1
    <3>2. data[1] \in Entry
      BY <3>1
    <3> QED
      BY <2>1, <3>2
  <2>3. p.uid \in Uids \cup {EmptyUid}
    BY <2>2 DEF Entry
  <2>4. p.provider # "anonymous" /\ Usable(p)
    BY <2>1, <2>3, ReadAssumption DEF Usable
  <2> QED
    BY <2>1, <2>4
<1> QED
  BY <1>1, <1>2

\* What _resolve_provider rejects has links, but not one usable one.
LEMMA UnresolvedIsNotUsable ==
  ASSUME NEW data \in Seq(Entry), Resolved(data) = {}
  PROVE  data # <<>> /\ ~\E e \in Entry : Usable(e) /\ data = <<e>>
<1>1. data # <<>>
  BY DEF Resolved
<1>2. ASSUME NEW e \in Entry, Usable(e), data = <<e>> PROVE FALSE
  <2>1. Len(data) = 1 /\ data[1] = e
    BY <1>2
  <2>2. e.provider \in Recognized /\ e.uid # EmptyUid
    BY <1>2, ReadAssumption DEF Usable
  <2> QED
    BY <1>1, <2>1, <2>2 DEF Resolved
<1> QED
  BY <1>1, <1>2

\* _verified_email: an address only if Firebase verified it.
LEMMA EmailIsVerified ==
  ASSUME NEW a \in Account, VerifiedEmail(a) # NoEmail
  PROVE  a.verified /\ VerifiedEmail(a) \in Addresses
BY AccountFields DEF VerifiedEmail

-----------------------------------------------------------------------------
(* The invariant.                                                          *)

\* No call has been made.
LEMMA Initially == Init => IInv
BY ReadAssumption DEF Init, IInv, LookupGoesOn, OutcomeIsTruthful

\* A lookup ends without an identity for its whole budget, or goes on.
LEMMA RetryStep ==
  ASSUME IInv, Call, Retry, UNCHANGED read \/ read' \in Account
  PROVE  IInv'
<1>1. /\ pc = "calling" /\ app /\ app' = app /\ account' = account
      /\ calls' = calls + 1 /\ calls \in 0..LookupAttempts /\ calls < LookupAttempts
      /\ account \in Account \cup {Gone} /\ outcome = "none" /\ LookupAttempts \in Nat
  BY ReadAssumption DEF IInv, LookupGoesOn, Call
<1>2. calls' \in 0..LookupAttempts
  BY <1>1
<1>3. CASE calls' < LookupAttempts
  <2>1. pc' = "calling" /\ outcome' = "none"
    BY <1>1, <1>3 DEF Retry
  <2> QED
    BY <1>1, <1>2, <1>3, <2>1 DEF IInv, LookupGoesOn, OutcomeIsTruthful
<1>4. CASE ~(calls' < LookupAttempts)
  <2>1. pc' = "done" /\ outcome' = "unavailable" /\ calls' = LookupAttempts
    BY <1>1, <1>4 DEF Retry, Reject, End
  <2> QED
    BY <1>1, <1>2, <2>1 DEF IInv, LookupGoesOn, OutcomeIsTruthful
<1> QED
  BY <1>3, <1>4

\* The classification of an answer, with every field from that answer.
LEMMA ClassifyStep ==
  ASSUME IInv, Classify
  PROVE  IInv'
<1>1. /\ pc = "calling" /\ app /\ app' = app /\ account' = account
      /\ calls' = calls + 1 /\ calls \in 0..LookupAttempts /\ calls < LookupAttempts
      /\ LookupAttempts \in Nat
  BY ReadAssumption DEF IInv, LookupGoesOn, Classify, Call
<1>2. PICK a \in Account : a = account /\ read' = a
  BY DEF IInv, LookupGoesOn, Classify
<1>3. a.data \in Seq(Entry)
  BY AccountFields
<1>4. calls' \in 0..LookupAttempts /\ calls' <= LookupAttempts
  BY <1>1
<1>5. CASE Resolved(account.data) = {} /\ Reject("not_linked")
  <2>1. pc' = "done" /\ outcome' = "not_linked"
    BY <1>5 DEF Reject, End
  <2>2. a.data # <<>> /\ ~\E e \in Entry : Usable(e) /\ a.data = <<e>>
    BY <1>2, <1>3, <1>5, UnresolvedIsNotUsable
  <2>3. OutcomeIsTruthful'
    BY <1>2, <1>4, <2>1, <2>2 DEF OutcomeIsTruthful
  <2> QED
    BY <1>1, <1>2, <1>4, <2>1, <2>3 DEF IInv, LookupGoesOn
<1>6. ASSUME NEW p \in Resolved(account.data), End("accepted"),
             identity' = [provider |-> p.provider, uid |-> p.uid, email |-> VerifiedEmail(account)]
      PROVE  IInv'
  <2>1. /\ pc' = "done" /\ outcome' = "accepted"
        /\ identity'.provider = p.provider /\ identity'.uid = p.uid
        /\ identity'.email = VerifiedEmail(a)
    BY <1>2, <1>6 DEF End
  <2>2. IF p.provider = "anonymous" THEN p.uid = NoUid /\ Len(a.data) = 0
                                    ELSE Usable(p) /\ Len(a.data) = 1
    BY <1>2, <1>3, <1>6, ResolvedIsAllThatIsLinked
  <2>3. FitsCheck(identity')
    BY <2>1, <2>2 DEF FitsCheck, Usable
  <2>4. Len(read'.data) = (IF identity'.provider = "anonymous" THEN 0 ELSE 1)
    BY <1>2, <2>1, <2>2
  <2>5. identity'.email # NoEmail => read'.verified /\ identity'.email \in Addresses
    BY <1>2, <2>1, EmailIsVerified
  <2>6. OutcomeIsTruthful'
    BY <1>4, <2>1, <2>3, <2>4, <2>5 DEF OutcomeIsTruthful, FitsCheck, Usable
  <2> QED
    BY <1>1, <1>2, <1>4, <2>1, <2>6 DEF IInv, LookupGoesOn
<1> QED
  BY <1>5, <1>6 DEF Classify

\* Every step preserves the invariant.
LEMMA Inductive == IInv /\ [Next]_vars => IInv'
<1> SUFFICES ASSUME IInv, [Next]_vars
             PROVE  IInv'
  OBVIOUS
<1>1. CASE NoApp
  <2>1. pc = "calling" /\ ~app /\ calls = 0 /\ 0 <= LookupAttempts
    BY <1>1, ReadAssumption DEF NoApp, IInv, LookupGoesOn
  <2> QED
    BY <1>1, <2>1 DEF NoApp, Reject, End, IInv, LookupGoesOn, OutcomeIsTruthful
<1>2. CASE NotFound
  <2>1. /\ calls' \in 0..LookupAttempts /\ calls' <= LookupAttempts
        /\ app' = app /\ app /\ account' = account /\ pc' = "done" /\ outcome' = "user_not_found"
    BY <1>2, ReadAssumption DEF NotFound, Call, Reject, End, IInv, LookupGoesOn
  <2> QED
    BY <2>1 DEF IInv, LookupGoesOn, OutcomeIsTruthful
<1>3. CASE ReadFails
  BY <1>3, RetryStep DEF ReadFails
<1>4. CASE Malformed
  <2>1. account \in Account
    BY <1>4 DEF Malformed, IInv, LookupGoesOn
  <2> QED
    BY <1>4, <2>1, RetryStep DEF Malformed
<1>5. CASE Classify
  BY <1>5, ClassifyStep
<1>6. CASE Change
  BY <1>6 DEF Change, IInv, LookupGoesOn, OutcomeIsTruthful
<1>7. CASE UNCHANGED vars
  BY <1>7 DEF vars, IInv, LookupGoesOn, OutcomeIsTruthful, FitsCheck, Usable
<1> QED
  BY <1>1, <1>2, <1>3, <1>4, <1>5, <1>6, <1>7 DEF Next, Stop

\* The identity that lookup_with_retry accepts can be stored and is all that the
\* account had linked, whatever its owner does between the attempts; a rejection and
\* an exhausted budget are what they say.
THEOREM OutcomesAreTruthful == Spec => []OutcomeIsTruthful
<1>1. Spec => []IInv
  BY Initially, Inductive, PTL DEF Spec
<1>2. IInv => OutcomeIsTruthful
  BY DEF IInv
<1> QED
  BY <1>1, <1>2, PTL
=============================================================================
