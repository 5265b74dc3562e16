--------------------------- MODULE ResilienceProofs ---------------------------
(***************************************************************************)
(* The circuit breaker and the execution gate, proved for every set of     *)
(* requests, finite or not, every pool, queue, threshold, reset time and   *)
(* number of attempts, and that the gate implements ExecutionGate.         *)
(***************************************************************************)
EXTENDS Resilience, SequenceTheorems, FiniteSetTheorems, TLAPS

-----------------------------------------------------------------------------
(* The inductive invariant of the gate.                                    *)

Stage == {"idle", "queued", "done"} \cup Running

\* The sequence w lists the set Q, each member once.
Lists(w, Q) ==
  /\ w \in Seq(Requests)
  /\ \A i, j \in 1..Len(w) : w[i] = w[j] => i = j
  /\ {w[i] : i \in 1..Len(w)} = Q

\* Who has one of these stages; pc or what it is about to be.
At(stage, S) == {q \in Requests : stage[q] \in S}

\* What a stage holds: a slot and, unless it waits, a permit.
Place(p) == IF p \in Running \cup {"queued"} THEN 1 ELSE 0
Permit(p) == IF p \in Running THEN 1 ELSE 0

GateInv ==
  /\ pc \in [Requests -> Stage]
  /\ slots \in Nat /\ permits \in Nat
  /\ Lists(waiting, At(pc, {"queued"}))
  /\ IsFiniteSet(At(pc, Running))
  /\ slots + Len(waiting) + Cardinality(At(pc, Running)) = PoolSize + QueueSize
  /\ permits + Cardinality(At(pc, Running)) = PoolSize
  /\ NoPermitWasted

\* The rest of what a step touches.
CallsInv ==
  /\ now \in 0..MaxTime /\ openedAt \in 0..MaxTime \cup {Closed} /\ failures \in Nat
  /\ attempt \in [Requests -> 0..MaxAttempts] /\ answer \in [Requests -> Answer]
  /\ faults \in 0..MaxFaults
  /\ \A r \in Requests : /\ pc[r] = "backoff" => attempt[r] < MaxAttempts
                         /\ answer[r] = "queue_full" => pc[r] = "done"

IInv == GateInv /\ CallsInv

-----------------------------------------------------------------------------
(* Queues.                                                                 *)

\* A newcomer goes to the end.
LEMMA ListAppend ==
  ASSUME NEW w, NEW Q, Lists(w, Q), NEW r \in Requests, r \notin Q
  PROVE  Lists(Append(w, r), Q \cup {r}) /\ Len(Append(w, r)) = Len(w) + 1
<1> DEFINE v == Append(w, r)
<1>1. w \in Seq(Requests) /\ Len(w) \in Nat
  BY LenProperties DEF Lists
<1>2. v \in Seq(Requests) /\ Len(v) = Len(w) + 1
      /\ \A i \in 1..Len(w) + 1 : v[i] = IF i = Len(w) + 1 THEN r ELSE w[i]
  BY <1>1
<1>3. \A i \in 1..Len(w) : w[i] \in Q
  BY DEF Lists
<1> HIDE DEF v
<1>4. \A i, j \in 1..Len(v) : v[i] = v[j] => i = j
  BY <1>1, <1>2, <1>3 DEF Lists
<1>5. {v[i] : i \in 1..Len(v)} = Q \cup {r}
  <2>1. \A i \in 1..Len(v) : v[i] \in Q \cup {r}
    BY <1>1, <1>2, <1>3
  <2>2. \E i \in 1..Len(v) : v[i] = r
    BY <1>1, <1>2
  <2>3. ASSUME NEW q \in Q PROVE \E i \in 1..Len(v) : v[i] = q
    BY <1>1, <1>2 DEF Lists
  <2> QED  BY <2>1, <2>2, <2>3
<1> QED  BY <1>2, <1>4, <1>5 DEF Lists, v

\* The first n are served.
LEMMA ListServed ==
  ASSUME NEW w, NEW Q, Lists(w, Q), NEW n \in 0..Len(w)
  PROVE  /\ Lists(SubSeq(w, n + 1, Len(w)), Q \ {w[i] : i \in 1..n})
         /\ Len(SubSeq(w, n + 1, Len(w))) = Len(w) - n
<1> DEFINE v == SubSeq(w, n + 1, Len(w))
<1>1. w \in Seq(Requests) /\ Len(w) \in Nat /\ n \in Nat /\ n <= Len(w)
  BY LenProperties DEF Lists
<1>2. \A i \in 1..Len(w) : w[i] \in Requests /\ w[i] \in Q
  BY <1>1, ElementOfSeq DEF Lists
<1>3. v \in Seq(Requests) /\ Len(v) = Len(w) - n /\ \A i \in 1..Len(w) - n : v[i] = w[n + i]
  BY <1>1, <1>2, SubSeqProperties
<1> HIDE DEF v
<1>4. \A i, j \in 1..Len(v) : v[i] = v[j] => i = j
  BY <1>1, <1>3 DEF Lists
<1>5. {v[i] : i \in 1..Len(v)} = Q \ {w[i] : i \in 1..n}
  <2>1. ASSUME NEW i \in 1..Len(v) PROVE v[i] \in Q /\ v[i] \notin {w[j] : j \in 1..n}
    BY <1>1, <1>2, <1>3 DEF Lists
  <2>2. ASSUME NEW q \in Q, q \notin {w[i] : i \in 1..n}
        PROVE  \E i \in 1..Len(v) : v[i] = q
    <3>1. PICK j \in 1..Len(w) : w[j] = q
      BY DEF Lists
    <3>2. j > n
      BY <1>1, <2>2, <3>1
    <3>3. j - n \in 1..Len(v) /\ v[j - n] = w[j]
      BY <1>1, <1>3, <3>2
    <3> QED  BY <3>1, <3>3
  <2> QED  BY <2>1, <2>2
<1> QED  BY <1>3, <1>4, <1>5 DEF Lists, v

\* One gives up wherever it stands.
LEMMA ListWithout ==
  ASSUME NEW w, NEW Q, Lists(w, Q), NEW r \in Q
  PROVE  Lists(Without(w, r), Q \ {r}) /\ Len(Without(w, r)) = Len(w) - 1
<1> DEFINE v == Without(w, r)
<1>1. w \in Seq(Requests) /\ Len(w) \in Nat
  BY LenProperties DEF Lists
<1>2. \A i \in 1..Len(w) : w[i] \in Requests /\ w[i] \in Q
  BY <1>1, ElementOfSeq DEF Lists
<1> DEFINE k == CHOOSE i \in 1..Len(w) : w[i] = r
<1>3. k \in 1..Len(w) /\ w[k] = r
  BY DEF Lists
<1> DEFINE a == SubSeq(w, 1, k - 1)  b == SubSeq(w, k + 1, Len(w))
<1>4. v = a \o b
  BY DEF Without
<1> HIDE DEF v, k
<1>5. a \in Seq(Requests) /\ Len(a) = k - 1 /\ \A i \in 1..k - 1 : a[i] = w[i]
  BY <1>1, <1>2, <1>3, SubSeqProperties
<1>6. b \in Seq(Requests) /\ Len(b) = Len(w) - k /\ \A i \in 1..Len(w) - k : b[i] = w[k + i]
  BY <1>1, <1>2, <1>3, SubSeqProperties
<1> HIDE DEF a, b
<1>7. /\ v \in Seq(Requests) /\ Len(v) = Len(w) - 1
      /\ \A i \in 1..Len(w) - 1 : v[i] = IF i < k THEN w[i] ELSE w[i + 1]
  <2>1. /\ a \o b \in Seq(Requests) /\ Len(a \o b) = Len(a) + Len(b)
        /\ \A i \in 1..Len(a) + Len(b) : (a \o b)[i] = IF i <= Len(a) THEN a[i] ELSE b[i - Len(a)]
    BY <1>5, <1>6, ConcatProperties
  <2> QED  BY <1>1, <1>3, <1>4, <1>5, <1>6, <2>1
<1>8. \A i, j \in 1..Len(v) : v[i] = v[j] => i = j
  BY <1>1, <1>3, <1>7 DEF Lists
<1>9. {v[i] : i \in 1..Len(v)} = Q \ {r}
  <2>1. ASSUME NEW i \in 1..Len(v) PROVE v[i] \in Q /\ v[i] # r
    BY <1>1, <1>2, <1>3, <1>7 DEF Lists
  <2>2. ASSUME NEW q \in Q, q # r PROVE \E i \in 1..Len(v) : v[i] = q
    <3>1. PICK j \in 1..Len(w) : w[j] = q
      BY DEF Lists
    <3>2. CASE j < k
      BY <1>1, <1>3, <1>7, <3>1, <3>2
    <3>3. CASE j > k
      <4>1. j - 1 \in 1..Len(v) /\ v[j - 1] = w[j]
        BY <1>1, <1>3, <1>7, <3>3
      <4> QED  BY <3>1, <4>1
    <3> QED  BY <1>3, <2>2, <3>1, <3>2, <3>3
  <2> QED  BY <2>1, <2>2
<1> QED  BY <1>7, <1>8, <1>9 DEF Lists, v

\* A list is as long as the set it lists.
LEMMA ListCounts ==
  ASSUME NEW w, NEW Q, Lists(w, Q)
  PROVE  IsFiniteSet(Q) /\ Cardinality(Q) = Len(w) /\ Len(w) \in Nat /\ Q \subseteq Requests
<1>1. w \in Seq(Requests) /\ Len(w) \in Nat /\ w \in [1..Len(w) -> Requests] /\ DOMAIN w = 1..Len(w)
  BY LenProperties DEF Lists
<1>2. w \in Bijection(1..Len(w), Q)
  <2>1. w \in [1..Len(w) -> Q]
    BY <1>1 DEF Lists
  <2>2. w \in Injection(1..Len(w), Q)
    BY <1>1, <2>1 DEF Lists, Injection, IsInjective
  <2>3. w \in Surjection(1..Len(w), Q)
    BY <2>1 DEF Lists, Surjection
  <2> QED  BY <2>2, <2>3 DEF Bijection
<1>3. Cardinality(Q) = Len(w)
  BY <1>1, <1>2, FS_CountingElements DEF ExistsBijection
<1>4. IsFiniteSet(1..Len(w))
  BY <1>1, FS_Interval
<1>5. IsFiniteSet(Q)
  BY <1>2, <1>4, FS_Bijection DEF ExistsBijection
<1> QED  BY <1>1, <1>3, <1>5 DEF Lists

-----------------------------------------------------------------------------
(* What a step does to the gate.                                           *)

\* r goes to x, and the first n of the others in w are handed permits.
Passes(r, x, n, p, w) ==
  /\ r \in Requests /\ x \in Stage
  /\ Lists(w, At([pc EXCEPT ![r] = x], {"queued"}))
  /\ n \in 0..Len(w) /\ p \in Nat /\ n <= p
  /\ p = permits + Permit(pc[r]) - Permit(x)
  /\ Hand(n, p, w, [pc EXCEPT ![r] = x])
  /\ slots' \in Nat /\ slots' = slots + Place(pc[r]) - Place(x)
  /\ n > 0 \/ n = Len(w) \/ n = p \/ \E q \in Requests \ {r} : pc[q] = "granted"

\* Moving r alone.
LEMMA AtMoved ==
  ASSUME NEW r \in Requests, NEW x,
         NEW stage, \A q \in Requests : stage[q] = IF q = r THEN x ELSE pc[q],
         NEW S, IsFiniteSet(At(pc, S))
  PROVE  /\ IsFiniteSet(At(stage, S))
         /\ Cardinality(At(pc, S)) \in Nat /\ Cardinality(At(stage, S)) \in Nat
         /\ Cardinality(At(stage, S)) =
              Cardinality(At(pc, S)) + (IF x \in S THEN 1 ELSE 0) - (IF pc[r] \in S THEN 1 ELSE 0)
<1> DEFINE A == At(pc, S)  B == At(stage, S)
<1>1. Cardinality(A) \in Nat
  BY FS_CardinalityType
<1>2. CASE x \in S /\ pc[r] \notin S
  <2>1. B = A \cup {r} /\ r \notin A
    BY <1>2 DEF At
  <2>2. IsFiniteSet(A \cup {r}) /\ Cardinality(A \cup {r}) = Cardinality(A) + 1
    BY <2>1, FS_AddElement
  <2>3. IsFiniteSet(B) /\ Cardinality(B) = Cardinality(A) + 1
    BY <2>1, <2>2
  <2> QED  BY <1>1, <1>2, <2>3
<1>3. CASE x \notin S /\ pc[r] \in S
  <2>1. B = A \ {r} /\ r \in A
    BY <1>3 DEF At
  <2>2. IsFiniteSet(A \ {r}) /\ Cardinality(A \ {r}) = Cardinality(A) - 1
    BY <2>1, FS_RemoveElement
  <2>3. IsFiniteSet(B) /\ Cardinality(B) = Cardinality(A) - 1
    BY <2>1, <2>2
  <2>4. Cardinality(B) \in Nat
    BY <2>3, FS_CardinalityType
  <2> QED  BY <1>1, <1>3, <2>3, <2>4
<1>4. CASE x \in S <=> pc[r] \in S
  <2>1. B = A
    BY <1>4 DEF At
  <2> QED  BY <1>1, <1>4, <2>1
<1> QED  BY <1>2, <1>3, <1>4

\* Handing permits to n of those who wait.
LEMMA HandCounts ==
  ASSUME NEW stage \in [Requests -> Stage], NEW w, Lists(w, At(stage, {"queued"})),
         NEW n \in 0..Len(w), NEW p \in Nat, n <= p, Hand(n, p, w, stage),
         IsFiniteSet(At(stage, Running))
  PROVE  /\ pc' \in [Requests -> Stage]
         /\ Lists(waiting', At(pc', {"queued"})) /\ Len(waiting') = Len(w) - n
         /\ IsFiniteSet(At(pc', Running))
         /\ Cardinality(At(pc', Running)) = Cardinality(At(stage, Running)) + n
         /\ \A q \in Requests : IF pc'[q] = stage[q] THEN TRUE ELSE stage[q] = "queued" /\ pc'[q] = "granted"
         /\ n > 0 => \E q \in Requests : pc'[q] = "granted"
<1> DEFINE H == {w[i] : i \in 1..n}
<1>1. w \in Seq(Requests) /\ Len(w) \in Nat /\ n \in Nat /\ n <= Len(w)
  BY LenProperties DEF Lists
<1>2. \A i \in 1..n : w[i] \in Requests /\ stage[w[i]] = "queued"
  <2>1. \A i \in 1..Len(w) : w[i] \in At(stage, {"queued"})
    BY DEF Lists
  <2> QED  BY <1>1, <2>1 DEF At
<1>3. H \subseteq At(stage, {"queued"})
  BY <1>2 DEF At
<1>4. pc' = [q \in Requests |-> IF q \in H THEN "granted" ELSE stage[q]]
  BY DEF Hand
<1>5. pc' \in [Requests -> Stage]
  BY <1>4 DEF Stage, Running
<1>6. At(pc', {"queued"}) = At(stage, {"queued"}) \ H
  BY <1>4 DEF At
<1>7. Lists(waiting', At(pc', {"queued"})) /\ Len(waiting') = Len(w) - n
  <2>1. /\ Lists(SubSeq(w, n + 1, Len(w)), At(stage, {"queued"}) \ H)
        /\ Len(SubSeq(w, n + 1, Len(w))) = Len(w) - n
    BY ListServed
  <2> QED  BY <1>6, <2>1 DEF Hand
<1>8. At(pc', Running) = At(stage, Running) \cup H /\ At(stage, Running) \cap H = {}
  BY <1>3, <1>4 DEF At, Running
<1>9. IsFiniteSet(H) /\ Cardinality(H) = n
  <2> DEFINE v == SubSeq(w, 1, n)
  <2>1. Len(v) = n /\ v \in Seq(Requests) /\ \A i \in 1..n : v[i] = w[i]
    BY <1>1, <1>2, SubSeqProperties
  <2>2. Lists(v, H)
    <3> HIDE DEF v
    <3>1. \A i, j \in 1..Len(v) : v[i] = v[j] => i = j
      BY <1>1, <2>1 DEF Lists
    <3>2. {v[i] : i \in 1..Len(v)} = H
      BY <2>1
    <3> QED  BY <2>1, <3>1, <3>2 DEF Lists
  <2> HIDE DEF v, H
  <2> QED  BY <2>1, <2>2, ListCounts
<1>10. /\ IsFiniteSet(At(stage, Running) \cup H)
       /\ Cardinality(At(stage, Running) \cup H) = Cardinality(At(stage, Running)) + n
  <2>1. /\ IsFiniteSet(At(stage, Running) \cup H)
        /\ Cardinality(At(stage, Running) \cup H) =
             Cardinality(At(stage, Running)) + Cardinality(H) - Cardinality(At(stage, Running) \cap H)
    <3> HIDE DEF H
    <3> QED  BY <1>9, FS_Union
  <2>2. Cardinality(At(stage, Running) \cap H) = 0
    BY <1>8, FS_EmptySet
  <2>3. Cardinality(At(stage, Running)) \in Nat
    BY FS_CardinalityType
  <2> HIDE DEF H
  <2> QED  BY <1>1, <1>9, <2>1, <2>2, <2>3
<1>11. n > 0 => \E q \in Requests : pc'[q] = "granted"
  <2> SUFFICES ASSUME n > 0 PROVE \E q \in Requests : pc'[q] = "granted"
    OBVIOUS
  <2>1. w[1] \in H /\ w[1] \in Requests
    BY <1>1, <1>2
  <2> QED  BY <1>4, <2>1
<1>12. \A q \in Requests : IF pc'[q] = stage[q] THEN TRUE ELSE stage[q] = "queued" /\ pc'[q] = "granted"
  BY <1>3, <1>4 DEF At
<1> HIDE DEF H
<1> QED  BY <1>5, <1>7, <1>8, <1>10, <1>11, <1>12

\* What leaves one count arrives in another.
LEMMA Balance ==
  ASSUME NEW s \in Int, NEW l \in Int, NEW c \in Int, NEW n \in Int,
         NEW a \in Int, NEW b \in Int, NEW d \in Int, NEW e \in Int
  PROVE  (s + b - a) + (l + (a - d) - (b - e) - n) + (c + d - e + n) = s + l + c
OBVIOUS

\* Every passage through the gate keeps its invariant.
LEMMA PassesKeeps ==
  ASSUME GateInv, NEW r, NEW x, NEW n, NEW p, NEW w, Passes(r, x, n, p, w)
  PROVE  GateInv'
<1> DEFINE stage == [pc EXCEPT ![r] = x]
<1>1. r \in Requests /\ x \in Stage /\ stage \in [Requests -> Stage]
  BY DEF Passes, GateInv
<1>0. \A q \in Requests : stage[q] = IF q = r THEN x ELSE pc[q]
  BY DEF GateInv
<1>2. /\ IsFiniteSet(At(stage, Running))
      /\ Cardinality(At(pc, Running)) \in Nat /\ Cardinality(At(stage, Running)) \in Nat
      /\ Cardinality(At(stage, Running)) = Cardinality(At(pc, Running)) + Permit(x) - Permit(pc[r])
  <2> DEFINE R == Running
  <2> HIDE DEF R
  <2>1. /\ IsFiniteSet(At(stage, R))
        /\ Cardinality(At(pc, R)) \in Nat /\ Cardinality(At(stage, R)) \in Nat
        /\ Cardinality(At(stage, R)) =
             Cardinality(At(pc, R)) + (IF x \in R THEN 1 ELSE 0) - (IF pc[r] \in R THEN 1 ELSE 0)
    <3>1. IsFiniteSet(At(pc, R))
      BY DEF GateInv, R
    <3> HIDE DEF stage
    <3>2. IsFiniteSet(At(stage, R))
      BY <1>0, <1>1, <3>1, AtMoved
    <3>3. Cardinality(At(stage, R)) =
            Cardinality(At(pc, R)) + (IF x \in R THEN 1 ELSE 0) - (IF pc[r] \in R THEN 1 ELSE 0)
      BY <1>0, <1>1, <3>1, AtMoved
    <3> QED  BY <3>1, <3>2, <3>3, FS_CardinalityType
  <2> QED  BY <2>1 DEF R, Permit
<1>3. /\ Lists(w, At(stage, {"queued"})) /\ n \in 0..Len(w) /\ p \in Nat /\ n <= p /\ Hand(n, p, w, stage)
  BY DEF Passes
<1> HIDE DEF stage
<1>4. /\ pc' \in [Requests -> Stage]
      /\ Lists(waiting', At(pc', {"queued"})) /\ Len(waiting') = Len(w) - n
      /\ IsFiniteSet(At(pc', Running))
      /\ Cardinality(At(pc', Running)) = Cardinality(At(stage, Running)) + n
      /\ \A q \in Requests : IF pc'[q] = stage[q] THEN TRUE ELSE stage[q] = "queued" /\ pc'[q] = "granted"
      /\ n > 0 => \E q \in Requests : pc'[q] = "granted"
  BY <1>1, <1>2, <1>3, HandCounts
<1>5. permits' = p - n /\ p = permits + Permit(pc[r]) - Permit(x)
  BY DEF Passes, Hand
<1>6. permits' \in Nat /\ slots' \in Nat /\ permits' + Cardinality(At(pc', Running)) = PoolSize
  <2>1. Permit(x) \in 0..1 /\ Permit(pc[r]) \in 0..1
    BY DEF Permit
  <2>2. n \in Nat
    BY <1>3
  <2>3. permits \in Nat /\ permits + Cardinality(At(pc, Running)) = PoolSize
    BY DEF GateInv
  <2>4. permits' \in Nat
    BY <1>3, <1>5, <2>2
  <2>5. slots' \in Nat
    BY DEF Passes
  <2>6. Cardinality(At(pc', Running)) =
          Cardinality(At(pc, Running)) + Permit(x) - Permit(pc[r]) + n
    BY <1>2, <1>4
  <2>7. PICK a \in Nat, b \in Int, c \in Int :
          a = Cardinality(At(pc, Running)) /\ b = Permit(x) /\ c = Permit(pc[r])
    BY <1>2, <2>1
  <2>8. permits' + (a + b - c + n) = PoolSize
    BY <1>5, <2>2, <2>3, <2>7
  <2> QED  BY <2>4, <2>5, <2>6, <2>7, <2>8
\* The length of w is the number of those who would wait without the handing.
<1>7. /\ Len(w) \in Nat /\ Len(waiting) \in Nat
      /\ Len(w) = Len(waiting) + (Place(x) - Permit(x)) - (Place(pc[r]) - Permit(pc[r]))
  <2> DEFINE K == {"queued"}
  <2> HIDE DEF K
  <2>1. Lists(w, At(stage, K)) /\ Lists(waiting, At(pc, K))
    BY <1>3 DEF K, GateInv
  <2>2. /\ IsFiniteSet(At(pc, K)) /\ Cardinality(At(pc, K)) = Len(waiting) /\ Len(waiting) \in Nat
        /\ Cardinality(At(stage, K)) = Len(w) /\ Len(w) \in Nat
    BY <2>1, ListCounts
  <2>3. Cardinality(At(stage, K)) =
          Cardinality(At(pc, K)) + (IF x \in K THEN 1 ELSE 0) - (IF pc[r] \in K THEN 1 ELSE 0)
    BY <1>0, <1>1, <2>2, AtMoved
  <2>4. \A q : Place(q) - Permit(q) = IF q \in K THEN 1 ELSE 0
    BY DEF Place, Permit, Running, K
  <2>5. /\ Place(x) - Permit(x) = IF x \in K THEN 1 ELSE 0
        /\ Place(pc[r]) - Permit(pc[r]) = IF pc[r] \in K THEN 1 ELSE 0
    BY <2>4
  <2> QED  BY <2>2, <2>3, <2>5
<1>8. slots' + Len(waiting') + Cardinality(At(pc', Running)) = PoolSize + QueueSize
  <2> DEFINE c == Cardinality(At(pc, Running))  k == Cardinality(At(stage, Running))
  <2>1. /\ Place(x) \in 0..1 /\ Place(pc[r]) \in 0..1
        /\ Permit(x) \in 0..1 /\ Permit(pc[r]) \in 0..1 /\ n \in Nat
    BY <1>3 DEF Place, Permit
  <2>2. c \in Nat /\ k \in Nat /\ k = c + Permit(x) - Permit(pc[r])
    BY <1>2
  <2>3. slots' = slots + Place(pc[r]) - Place(x) /\ slots' \in Nat
    BY DEF Passes
  <2>4. slots \in Nat /\ slots + Len(waiting) + c = PoolSize + QueueSize
    BY DEF GateInv
  <2>5. Len(waiting') = Len(w) - n /\ Cardinality(At(pc', Running)) = k + n
    BY <1>4
  <2>6. PoolSize + QueueSize \in Nat
    BY ResilienceAssumption
  <2> HIDE DEF c, k
  <2>7. slots' + (Len(w) - n) + (k + n) = PoolSize + QueueSize
    <3>1. /\ Place(x) \in Int /\ Place(pc[r]) \in Int /\ Permit(x) \in Int /\ Permit(pc[r]) \in Int
          /\ slots \in Int /\ Len(waiting) \in Int /\ c \in Int /\ n \in Int
      BY <1>7, <2>1, <2>2, <2>4
    <3>2. (slots + Place(pc[r]) - Place(x))
            + (Len(waiting) + (Place(x) - Permit(x)) - (Place(pc[r]) - Permit(pc[r])) - n)
            + (c + Permit(x) - Permit(pc[r]) + n) = slots + Len(waiting) + c
      BY <3>1, Balance, SMTT(20)
    <3>3. slots' = slots + Place(pc[r]) - Place(x)
      BY <2>3
    <3>4. Len(w) - n = Len(waiting) + (Place(x) - Permit(x)) - (Place(pc[r]) - Permit(pc[r])) - n
      BY <1>7, <3>1
    <3>5. k + n = c + Permit(x) - Permit(pc[r]) + n
      BY <2>2
    <3>6. slots' + (Len(w) - n) + (k + n) = slots + Len(waiting) + c
      BY <3>2, <3>3, <3>4, <3>5
    <3> QED  BY <2>4, <3>6
  <2> QED  BY <2>5, <2>7
<1>9. NoPermitWasted'
  <2> SUFFICES ASSUME permits' > 0, waiting' # <<>>
               PROVE  \E q \in Requests : pc'[q] = "granted"
    BY DEF NoPermitWasted, In
  <2>1. n # p
    BY <1>3, <1>5
  <2>2. n # Len(w)
    <3>1. CASE n = Len(w)
      <4>1. Len(waiting') = 0 /\ waiting' \in Seq(Requests)
        BY <1>4, <1>7, <3>1 DEF Lists
      <4> QED  BY <4>1, EmptySeq
    <3> QED  BY <3>1
  <2>3. CASE \E q \in Requests \ {r} : pc[q] = "granted"
    <3>1. PICK q \in Requests \ {r} : pc[q] = "granted"
      BY <2>3
    <3>2. stage[q] = "granted"
      BY <3>1 DEF stage, GateInv
    <3> QED  BY <1>4, <3>1, <3>2
  <2> QED  BY <1>4, <2>1, <2>2, <2>3 DEF Passes
<1> QED  BY <1>4, <1>6, <1>8, <1>9 DEF GateInv

-----------------------------------------------------------------------------
(* The steps, by what they do to the gate.                                 *)

\* What each place of a request holds of the gate.
LEMMA StagesHeld ==
  /\ Place("idle") = 0 /\ Place("done") = 0 /\ Place("queued") = 1
  /\ Permit("idle") = 0 /\ Permit("done") = 0 /\ Permit("queued") = 0
  /\ \A p \in Running : Place(p) = 1 /\ Permit(p) = 1
BY DEF Place, Permit, Running

\* The queue lists the requests that wait in it.
LEMMA QueueTyped ==
  ASSUME GateInv
  PROVE  /\ waiting \in Seq(Requests) /\ Len(waiting) \in Nat
         /\ Lists(waiting, At(pc, {"queued"}))
         /\ waiting = <<>> <=> Len(waiting) = 0
         /\ waiting = <<>> <=> At(pc, {"queued"}) = {}
<1>1. Lists(waiting, At(pc, {"queued"})) /\ waiting \in Seq(Requests)
  BY DEF GateInv, Lists
<1>2. Len(waiting) \in Nat /\ (waiting = <<>> <=> Len(waiting) = 0)
  BY <1>1, LenProperties, EmptySeq
<1>3. Len(waiting) = 0 <=> At(pc, {"queued"}) = {}
  <2>1. Len(waiting) = 0 => At(pc, {"queued"}) = {}
    BY <1>1, <1>2 DEF Lists
  <2>2. Len(waiting) # 0 => waiting[1] \in At(pc, {"queued"})
    BY <1>1, <1>2 DEF Lists
  <2> QED  BY <2>1, <2>2
<1> QED  BY <1>1, <1>2, <1>3

\* Handing on nothing.
LEMMA HandNone ==
  ASSUME NEW stage \in [Requests -> Stage], NEW p \in Int, NEW w \in Seq(Requests),
         pc' = stage, permits' = p, waiting' = w
  PROVE  Hand(0, p, w, stage)
<1>1. SubSeq(w, 0 + 1, Len(w)) = w
  BY SubSeqFull
<1>2. \A q : ~ \E i \in 1..0 : w[i] = q
  OBVIOUS
<1>3. pc' = [q \in Requests |-> IF \E i \in 1..0 : w[i] = q THEN "granted" ELSE stage[q]]
  BY <1>2
<1>4. permits' = p - 0
  OBVIOUS
<1> QED  BY <1>1, <1>3, <1>4 DEF Hand

\* A step of one request that hands nothing on and joins no queue.
LEMMA QuietPasses ==
  ASSUME GateInv, NEW r \in Requests, NEW x \in Stage \ {"queued"}, pc[r] \notin {"queued", "granted"},
         UNCHANGED waiting, pc' = [pc EXCEPT ![r] = x],
         slots' \in Nat, slots' = slots + Place(pc[r]) - Place(x),
         permits' \in Nat, permits' = permits + Permit(pc[r]) - Permit(x), permits' <= permits
  PROVE  Passes(r, x, 0, permits', waiting)
<1> DEFINE stage == [pc EXCEPT ![r] = x]
<1>1. stage \in [Requests -> Stage] /\ At(stage, {"queued"}) = At(pc, {"queued"})
  BY DEF At, GateInv
<1>2. Hand(0, permits', waiting, stage)
  <2> HIDE DEF stage
  <2>1. pc' = stage
    BY DEF stage
  <2> QED  BY <1>1, <2>1, QueueTyped, HandNone
<1>3. 0 = Len(waiting) \/ 0 = permits' \/ \E q \in Requests \ {r} : pc[q] = "granted"
  <2>1. permits = 0 \/ waiting = <<>> \/ \E q \in Requests : pc[q] = "granted"
    BY DEF GateInv, NoPermitWasted, In
  <2>2. permits = 0 => permits' = 0
    BY DEF GateInv
  <2> QED  BY <2>1, <2>2, QueueTyped
<1>4. 0 \in 0..Len(waiting)
  BY QueueTyped
<1> QED  BY <1>1, <1>2, <1>3, <1>4, QueueTyped DEF Passes, GateInv

\* The end of the body, however it ends.
LEMMA LeavePasses ==
  ASSUME GateInv, NEW r \in Requests, NEW a, pc[r] \in Running \ {"granted"}, Leave(r, a)
  PROVE  Passes(r, "done", Least(1, Len(waiting)), permits + 1, waiting)
<1> DEFINE stage == [pc EXCEPT ![r] = "done"]  n == Least(1, Len(waiting))
<1>1. At(stage, {"queued"}) = At(pc, {"queued"})
  BY DEF At, GateInv, Running
<1>2. n \in 0..Len(waiting) /\ n <= permits + 1 /\ (n > 0 \/ n = Len(waiting)) /\ permits \in Nat /\ slots \in Nat
  BY QueueTyped DEF Least, GateInv
<1> HIDE DEF n
<1>3. Place(pc[r]) = 1 /\ Permit(pc[r]) = 1
  BY StagesHeld
<1>4. /\ permits + 1 = permits + Permit(pc[r]) - Permit("done")
      /\ slots' = slots + Place(pc[r]) - Place("done") /\ slots' \in Nat /\ permits + 1 \in Nat
  BY <1>2, <1>3, StagesHeld DEF Leave
<1>5. Hand(n, permits + 1, waiting, stage)
  BY DEF Leave, n
<1> QED  BY <1>1, <1>2, <1>4, <1>5, QueueTyped DEF Passes, Stage, n

\* A woken waiter takes the permit it was granted, and wakes the next.
LEMMA ResumePasses ==
  ASSUME GateInv, NEW r \in Requests, Resume(r)
  PROVE  Passes(r, "admitted", Least(permits, Len(waiting)), permits, waiting)
<1> DEFINE stage == [pc EXCEPT ![r] = "admitted"]  n == Least(permits, Len(waiting))
<1>1. At(stage, {"queued"}) = At(pc, {"queued"}) /\ pc[r] = "granted"
  BY DEF At, GateInv, Resume
<1>2. n \in 0..Len(waiting) /\ n <= permits /\ (n = Len(waiting) \/ n = permits) /\ permits \in Nat /\ slots \in Nat
  BY QueueTyped DEF Least, GateInv
<1>3. Place(pc[r]) = 1 /\ Permit(pc[r]) = 1 /\ Place("admitted") = 1 /\ Permit("admitted") = 1
  BY <1>1, StagesHeld DEF Running
<1>4. /\ permits = permits + Permit(pc[r]) - Permit("admitted")
      /\ slots' = slots + Place(pc[r]) - Place("admitted") /\ slots' \in Nat
  BY <1>2, <1>3 DEF Resume
<1> HIDE DEF n
<1>5. Hand(n, permits, waiting, stage)
  BY DEF Resume, n
<1> QED  BY <1>1, <1>2, <1>4, <1>5, QueueTyped DEF Passes, Stage, Running, n

\* A newcomer is admitted at once or goes to the end of the queue.
LEMMA EnterPasses ==
  ASSUME GateInv, NEW r \in Requests, Enter(r)
  PROVE  Passes(r, "admitted", 0, permits', waiting) \/ Passes(r, "queued", 0, permits, Append(waiting, r))
<1>1. pc[r] = "idle" /\ slots \in Nat \ {0} /\ permits \in Nat /\ slots' = slots - 1
  BY DEF Enter, NoSlot, GateInv
<1>2. CASE ~Locked /\ pc' = [pc EXCEPT ![r] = "admitted"] /\ permits' = permits - 1 /\ UNCHANGED waiting
  <2>1. permits' \in Nat /\ permits' <= permits
    BY <1>1, <1>2 DEF Locked
  <2>2. Place(pc[r]) = 0 /\ Permit(pc[r]) = 0 /\ Place("admitted") = 1 /\ Permit("admitted") = 1
    BY <1>1, StagesHeld DEF Running
  <2>3. /\ permits' = permits + Permit(pc[r]) - Permit("admitted")
        /\ slots' = slots + Place(pc[r]) - Place("admitted") /\ slots' \in Nat
    BY <1>1, <1>2, <2>2
  <2> QED  BY <1>1, <1>2, <2>1, <2>3, QuietPasses DEF Stage, Running
<1>3. CASE Locked /\ pc' = [pc EXCEPT ![r] = "queued"] /\ waiting' = Append(waiting, r) /\ UNCHANGED permits
  <2> DEFINE stage == [pc EXCEPT ![r] = "queued"]  v == Append(waiting, r)
  <2>1. At(stage, {"queued"}) = At(pc, {"queued"}) \cup {r} /\ r \notin At(pc, {"queued"})
        /\ stage \in [Requests -> Stage]
    BY <1>1 DEF At, GateInv, Stage
  <2>2. Lists(v, At(stage, {"queued"})) /\ Len(v) = Len(waiting) + 1
    <3> DEFINE Q == At(pc, {"queued"})
    <3>1. Lists(waiting, Q)
      BY QueueTyped
    <3>2. r \notin Q
      BY <2>1
    <3> HIDE DEF Q
    <3>3. Lists(v, Q \cup {r}) /\ Len(v) = Len(waiting) + 1
      BY <3>1, <3>2, ListAppend
    <3> QED  BY <2>1, <3>3 DEF Q
  <2>3. Len(v) \in Nat /\ v \in Seq(Requests)
    BY <2>2, QueueTyped DEF Lists
  <2>4. Hand(0, permits, v, stage)
    <3>1. pc' = stage /\ waiting' = v /\ permits' = permits
      BY <1>1, <1>3
    <3> HIDE DEF stage, v
    <3> QED  BY <1>1, <2>1, <2>3, <3>1, HandNone
  <2>5. 0 = permits \/ \E q \in Requests \ {r} : pc[q] = "granted"
    <3>1. permits = 0 \/ waiting = <<>> \/ \E q \in Requests : pc[q] = "granted"
      BY DEF GateInv, NoPermitWasted, In
    <3>2. permits # 0 => waiting # <<>> \/ \E q \in Requests : pc[q] = "granted"
      BY <1>3, QueueTyped DEF Locked, At
    <3> QED  BY <1>1, <3>1, <3>2
  <2>6. /\ permits = permits + Permit(pc[r]) - Permit("queued")
        /\ slots' = slots + Place(pc[r]) - Place("queued") /\ slots' \in Nat
    BY <1>1, StagesHeld
  <2> HIDE DEF v
  <2>7. Passes(r, "queued", 0, permits, v)
    BY <1>1, <2>2, <2>3, <2>4, <2>5, <2>6 DEF Passes, Stage
  <2> QED  BY <2>7 DEF v
<1> QED  BY <1>2, <1>3 DEF Enter

\* A cancelled waiter gives back its slot, and a permit it was granted.
LEMMA CancelWaiterPasses ==
  ASSUME GateInv, NEW r \in Requests, CancelWaiter(r)
  PROVE  \E n, p, w : Passes(r, "done", n, p, w)
<1> DEFINE stage == [pc EXCEPT ![r] = "done"]
           w == IF pc[r] = "granted" THEN waiting ELSE Without(waiting, r)
           p == IF pc[r] = "granted" THEN permits + 1 ELSE permits
           n == Least(p, Len(w))
<1>1. pc[r] \in {"queued", "granted"} /\ permits \in Nat /\ slots \in Nat /\ slots' = slots + 1
  BY DEF CancelWaiter, GateInv
<1>2. Hand(n, p, w, stage)
  BY DEF CancelWaiter
<1>3. Lists(w, At(stage, {"queued"})) /\ Len(w) \in Nat
  <2>1. CASE pc[r] = "granted"
    <3>1. At(stage, {"queued"}) = At(pc, {"queued"})
      BY <2>1 DEF At, GateInv
    <3> QED  BY <2>1, <3>1, QueueTyped
  <2>2. CASE pc[r] = "queued"
    <3>1. At(stage, {"queued"}) = At(pc, {"queued"}) \ {r} /\ r \in At(pc, {"queued"})
      BY <2>2 DEF At, GateInv
    <3>2. Lists(Without(waiting, r), At(stage, {"queued"}))
      <4> DEFINE Q == At(pc, {"queued"})
      <4>1. Lists(waiting, Q) /\ r \in Q
        BY <3>1, QueueTyped
      <4> HIDE DEF Q
      <4>2. Lists(Without(waiting, r), Q \ {r})
        BY <4>1, ListWithout
      <4> QED  BY <3>1, <4>2 DEF Q
    <3>3. w = Without(waiting, r)
      BY <2>2
    <3> QED  BY <3>2, <3>3, ListCounts
  <2> QED  BY <1>1, <2>1, <2>2
<1>4. p \in Nat /\ p = permits + Permit(pc[r]) - Permit("done")
  BY <1>1, StagesHeld DEF Running
<1> HIDE DEF w, p
<1>5. n \in 0..Len(w) /\ n <= p /\ (n = Len(w) \/ n = p)
  BY <1>3, <1>4 DEF Least
<1>6. slots' = slots + Place(pc[r]) - Place("done") /\ slots' \in Nat
  BY <1>1, StagesHeld DEF Running
<1> HIDE DEF n
<1>7. Passes(r, "done", n, p, w)
  BY <1>2, <1>3, <1>4, <1>5, <1>6 DEF Passes, Stage
<1> QED  BY <1>7

\* Every step leaves the gate alone or is one passage through it.
LEMMA StepPasses ==
  ASSUME IInv, [Next]_vars
  PROVE  UNCHANGED <<gate, pc>> \/ \E r, x, n, p, w : Passes(r, x, n, p, w)
<1>0. GateInv /\ CallsInv
  BY DEF IInv
<1>1. slots \in Nat /\ permits \in Nat
  BY <1>0 DEF GateInv
<1>2. ASSUME NEW r \in Requests, NEW x \in Stage \ {"queued"}, pc[r] \notin {"queued", "granted"},
             UNCHANGED gate, pc' = [pc EXCEPT ![r] = x],
             Place(pc[r]) = Place(x), Permit(pc[r]) = Permit(x)
      PROVE  Passes(r, x, 0, permits', waiting)
  <2>1. Place(x) \in Int /\ Permit(x) \in Int
    BY DEF Place, Permit
  <2>2. slots' = slots + Place(pc[r]) - Place(x) /\ permits' = permits + Permit(pc[r]) - Permit(x)
    BY <1>1, <1>2, <2>1 DEF gate
  <2>3. slots' \in Nat /\ permits' \in Nat /\ permits' <= permits /\ UNCHANGED waiting
    BY <1>1, <1>2 DEF gate
  <2> QED  BY <1>0, <1>2, <2>2, <2>3, QuietPasses
<1>3. ASSUME NEW r \in Requests, RefuseOpen(r) \/ RefuseFull(r)
      PROVE  Passes(r, "done", 0, permits', waiting)
  <2>1. pc[r] = "idle" /\ UNCHANGED gate /\ pc' = [pc EXCEPT ![r] = "done"]
    BY <1>3 DEF RefuseOpen, RefuseFull, Refuse
  <2> QED  BY <1>2, <2>1, StagesHeld DEF Stage
<1>4. ASSUME NEW r \in Requests, Charge(r)
      PROVE  \E x, n, p, w : Passes(r, x, n, p, w)
  <2>1. CASE pc' = [pc EXCEPT ![r] = "calling"] /\ UNCHANGED gate
    <3>1. pc[r] = "admitted"
      BY <1>4 DEF Charge
    <3> QED  BY <1>2, <2>1, <3>1, StagesHeld DEF Stage, Running
  <2>2. CASE Leave(r, "charge_refused")
    BY <1>0, <1>4, <2>2, LeavePasses DEF Charge, Running
  <2> QED  BY <1>4, <2>1, <2>2 DEF Charge
<1>5. ASSUME NEW r \in Requests, CallSucceeds(r) \/ CallFailsPermanent(r)
      PROVE  \E x, n, p, w : Passes(r, x, n, p, w)
  <2>1. pc[r] \in Running \ {"granted"} /\ \E a : Leave(r, a)
    BY <1>5 DEF CallSucceeds, CallFailsPermanent, Running
  <2> QED  BY <1>0, <2>1, LeavePasses
<1>6. ASSUME NEW r \in Requests, CallFailsTransient(r)
      PROVE  \E x, n, p, w : Passes(r, x, n, p, w)
  <2>1. pc[r] = "calling"
    BY <1>6 DEF CallFailsTransient
  <2>2. CASE pc' = [pc EXCEPT ![r] = "backoff"] /\ UNCHANGED gate
    BY <1>2, <2>1, <2>2, StagesHeld DEF Stage, Running
  <2>3. CASE Leave(r, "transient_error")
    BY <1>0, <2>1, <2>3, LeavePasses DEF Running
  <2> QED  BY <1>6, <2>2, <2>3 DEF CallFailsTransient
<1>7. ASSUME NEW r \in Requests, Retry(r)
      PROVE  Passes(r, "calling", 0, permits', waiting)
  <2>1. pc[r] = "backoff" /\ UNCHANGED gate /\ pc' = [pc EXCEPT ![r] = "calling"]
    BY <1>7 DEF Retry
  <2> QED  BY <1>2, <2>1, StagesHeld DEF Stage, Running
<1>8. ASSUME NEW r \in Requests, CancelRunning(r)
      PROVE  \E x, n, p, w : Passes(r, x, n, p, w)
  BY <1>0, <1>8, LeavePasses DEF CancelRunning
<1>9. ASSUME NEW r \in Requests, Enter(r) \/ Resume(r) \/ CancelWaiter(r)
      PROVE  \E x, n, p, w : Passes(r, x, n, p, w)
  BY <1>0, <1>9, EnterPasses, ResumePasses, CancelWaiterPasses
<1>10. CASE Tick \/ Quiesce \/ UNCHANGED vars
  BY <1>10 DEF Tick, Quiesce, vars, gate
<1> QED
  BY <1>3, <1>4, <1>5, <1>6, <1>7, <1>8, <1>9, <1>10 DEF Next, Advance

\* The breaker and the answers.
LEMMA CallsKept ==
  ASSUME IInv, [Next]_vars, GateInv' PROVE CallsInv'
<1> USE DEF CallsInv, IInv
<1>1. MaxTime \in Nat /\ MaxFaults \in Nat /\ MaxAttempts \in Nat \ {0} /\ Closed \notin Nat
  BY ResilienceAssumption
\* One request changes, and the breaker with it.
<1>2. ASSUME NEW r \in Requests, UNCHANGED now,
             openedAt' \in {openedAt, now, Closed}, failures' \in Nat, faults' \in 0..MaxFaults,
             attempt' \in [Requests -> 0..MaxAttempts], answer' \in [Requests -> Answer],
             \A q \in Requests \ {r} : attempt'[q] = attempt[q] /\ answer'[q] = answer[q],
             \A q \in Requests \ {r} : IF pc'[q] = pc[q] THEN TRUE ELSE pc[q] = "queued" /\ pc'[q] = "granted",
             pc'[r] = "backoff" => attempt'[r] < MaxAttempts,
             answer'[r] = "queue_full" => pc'[r] = "done"
      PROVE  CallsInv'
  BY <1>2
<1>3. ASSUME NEW r \in Requests, NEW x, NEW n, NEW p, NEW w, Passes(r, x, n, p, w)
      PROVE  /\ \A q \in Requests \ {r} : IF pc'[q] = pc[q] THEN TRUE ELSE pc[q] = "queued" /\ pc'[q] = "granted"
             /\ x \notin {"queued", "granted"} => pc'[r] = x
  <2> DEFINE stage == [pc EXCEPT ![r] = x]
  <2>1. Lists(w, At(stage, {"queued"})) /\ n \in 0..Len(w) /\ Hand(n, p, w, stage)
    BY <1>3 DEF Passes
  <2>2. Len(w) \in Nat
    BY <2>1, ListCounts
  <2>3. \A i \in 1..n : stage[w[i]] = "queued"
    BY <2>1, <2>2 DEF Lists, At
  <2>4. \A q \in Requests : IF pc'[q] = stage[q] THEN TRUE ELSE stage[q] = "queued" /\ pc'[q] = "granted"
    BY <2>1, <2>3 DEF Hand
  <2>5. \A q \in Requests \ {r} : stage[q] = pc[q]
    BY DEF GateInv
  <2>6. stage[r] = x
    BY DEF GateInv
  <2> HIDE DEF stage
  <2> QED  BY <2>4, <2>5, <2>6
\* The steps out of the gate.
<1>4. ASSUME NEW r \in Requests, NEW a \in Answer \ {"queue_full"}, Leave(r, a),
             pc[r] \in Running \ {"granted"}, UNCHANGED <<now, attempt>>,
             openedAt' \in {openedAt, now, Closed}, failures' \in Nat, faults' \in 0..MaxFaults
      PROVE  CallsInv'
  <2>1. Passes(r, "done", Least(1, Len(waiting)), permits + 1, waiting)
    BY <1>4, LeavePasses
  <2>2. /\ \A q \in Requests \ {r} : IF pc'[q] = pc[q] THEN TRUE ELSE pc[q] = "queued" /\ pc'[q] = "granted"
        /\ pc'[r] = "done"
    BY <1>3, <2>1
  <2>3. answer' = [answer EXCEPT ![r] = a]
    BY <1>4 DEF Leave
  <2> QED  BY <1>2, <1>4, <2>2, <2>3
\* The steps that hand nothing on.
<1>5. ASSUME NEW r \in Requests, NEW x, pc' = [pc EXCEPT ![r] = x], UNCHANGED <<now, faults>>,
             openedAt' \in {openedAt, now, Closed}, failures' \in Nat,
             attempt' \in [Requests -> 0..MaxAttempts], answer' \in [Requests -> Answer],
             \A q \in Requests \ {r} : attempt'[q] = attempt[q] /\ answer'[q] = answer[q],
             x = "backoff" => attempt'[r] < MaxAttempts,
             answer'[r] = "queue_full" => x = "done"
      PROVE  CallsInv'
  <2>1. /\ pc'[r] = x /\ \A q \in Requests \ {r} : pc'[q] = pc[q]
    BY <1>5 DEF GateInv
  <2> QED  BY <1>2, <1>5, <2>1
<1>6. ASSUME BeforeCall \/ RecordSuccess \/ RecordFailure
      PROVE  openedAt' \in {openedAt, now, Closed} /\ failures' \in Nat
  BY <1>6 DEF BeforeCall, RecordSuccess, RecordFailure, breaker
<1>7. ASSUME NEW r \in Requests, RefuseOpen(r) \/ RefuseFull(r)
      PROVE  CallsInv'
  BY <1>5, <1>6, <1>7 DEF RefuseOpen, RefuseFull, Refuse, breaker, Answer
<1>8. ASSUME NEW r \in Requests, Enter(r)
      PROVE  CallsInv'
  BY <1>5, <1>6, <1>8 DEF Enter
<1>9. ASSUME NEW r \in Requests, Charge(r)
      PROVE  CallsInv'
  <2>1. pc[r] = "admitted" /\ UNCHANGED <<now, breaker, faults>>
    BY <1>9 DEF Charge
  <2>2. CASE pc' = [pc EXCEPT ![r] = "calling"] /\ attempt' = [attempt EXCEPT ![r] = 1] /\ UNCHANGED answer
    <3>1. attempt' \in [Requests -> 0..MaxAttempts] /\ \A q \in Requests \ {r} : attempt'[q] = attempt[q]
      BY <1>1, <2>2
    <3> QED  BY <1>5, <2>1, <2>2, <3>1 DEF breaker
  <2>3. CASE Leave(r, "charge_refused") /\ UNCHANGED attempt
    BY <1>4, <2>1, <2>3 DEF Answer, Running, breaker
  <2> QED  BY <1>9, <2>2, <2>3 DEF Charge
<1>10. ASSUME NEW r \in Requests, CallSucceeds(r) \/ CallFailsPermanent(r)
       PROVE  CallsInv'
  BY <1>4, <1>6, <1>10 DEF CallSucceeds, CallFailsPermanent, Answer, Running
<1>11. ASSUME NEW r \in Requests, CallFailsTransient(r)
       PROVE  CallsInv'
  <2>1. /\ pc[r] = "calling" /\ UNCHANGED <<now, attempt, faults>>
        /\ openedAt' \in {openedAt, now, Closed} /\ failures' \in Nat
    BY <1>6, <1>11 DEF CallFailsTransient
  <2>2. CASE attempt[r] < MaxAttempts /\ pc' = [pc EXCEPT ![r] = "backoff"] /\ UNCHANGED answer
    BY <1>5, <2>1, <2>2
  <2>3. CASE Leave(r, "transient_error")
    BY <1>4, <2>1, <2>3 DEF Answer, Running
  <2> QED  BY <1>11, <2>2, <2>3 DEF CallFailsTransient
<1>12. ASSUME NEW r \in Requests, Retry(r)
       PROVE  CallsInv'
  <2>1. attempt[r] \in 0..MaxAttempts /\ attempt[r] < MaxAttempts
    BY <1>12 DEF Retry
  <2>2. attempt' \in [Requests -> 0..MaxAttempts] /\ \A q \in Requests \ {r} : attempt'[q] = attempt[q]
    BY <1>1, <1>12, <2>1 DEF Retry
  <2> QED  BY <1>5, <1>12, <2>2 DEF Retry, breaker
<1>13. ASSUME NEW r \in Requests, Resume(r)
       PROVE  CallsInv'
  <2>1. Passes(r, "admitted", Least(permits, Len(waiting)), permits, waiting)
    BY <1>13, ResumePasses
  <2>2. /\ \A q \in Requests \ {r} : IF pc'[q] = pc[q] THEN TRUE ELSE pc[q] = "queued" /\ pc'[q] = "granted"
        /\ pc'[r] = "admitted"
    BY <1>3, <2>1
  <2> QED  BY <1>2, <1>13, <2>2 DEF Resume, breaker
<1>14. faults \in 0..MaxFaults /\ (Fault => faults' \in 0..MaxFaults)
  BY <1>1 DEF Fault
<1>15. ASSUME NEW r \in Requests, CancelRunning(r)
       PROVE  CallsInv'
  BY <1>4, <1>14, <1>15 DEF CancelRunning, Answer, breaker
<1>16. ASSUME NEW r \in Requests, CancelWaiter(r)
       PROVE  CallsInv'
  <2>1. PICK n, p, w : Passes(r, "done", n, p, w)
    BY <1>16, CancelWaiterPasses
  <2>2. /\ \A q \in Requests \ {r} : IF pc'[q] = pc[q] THEN TRUE ELSE pc[q] = "queued" /\ pc'[q] = "granted"
        /\ pc'[r] = "done"
    BY <1>3, <2>1
  <2>3. answer' = [answer EXCEPT ![r] = "cancelled"] /\ Fault /\ UNCHANGED <<now, breaker, attempt>>
    BY <1>16 DEF CancelWaiter
  <2> QED  BY <1>2, <1>14, <2>2, <2>3 DEF breaker, Answer
<1>17. CASE Tick
  BY <1>1, <1>17 DEF Tick, breaker
<1>18. CASE Quiesce \/ UNCHANGED vars
  BY <1>18 DEF Quiesce, vars, breaker
<1> QED
  BY <1>7, <1>8, <1>9, <1>10, <1>11, <1>12, <1>13, <1>15, <1>16, <1>17, <1>18 DEF Next, Advance

-----------------------------------------------------------------------------
(* The gate as ExecutionGate sees it.                                      *)

\* Handing a permit to a waiter is no step of the abstract gate: only the
\* stage of r moves.
LEMMA PassesMaps ==
  ASSUME GateInv, NEW r, NEW x, NEW n, NEW p, NEW w, Passes(r, x, n, p, w),
         \A q \in Requests \ {r} : answer'[q] = answer[q]
  PROVE  GateStages' = [GateStages EXCEPT ![r] = GateStage(x, answer'[r])]
<1> DEFINE stage == [pc EXCEPT ![r] = x]
<1>1. r \in Requests /\ Lists(w, At(stage, {"queued"})) /\ n \in 0..Len(w) /\ Hand(n, p, w, stage)
  BY DEF Passes
<1>2. Len(w) \in Nat
  BY <1>1, ListCounts
<1>3. \A i \in 1..n : stage[w[i]] = "queued"
  BY <1>1, <1>2 DEF Lists, At
<1>4. \A q \in Requests : IF pc'[q] = stage[q] THEN TRUE ELSE stage[q] = "queued" /\ pc'[q] = "granted"
  BY <1>1, <1>3 DEF Hand
<1>5. \A q \in Requests : stage[q] = IF q = r THEN x ELSE pc[q]
  BY <1>1 DEF GateInv
<1> HIDE DEF stage
<1>6. ASSUME NEW q \in Requests
      PROVE  GateStage(pc'[q], answer'[q]) = GateStage(stage[q], answer'[q])
  BY <1>4 DEF GateStage
<1>7. ASSUME NEW q \in Requests
      PROVE  GateStages'[q] = [GateStages EXCEPT ![r] = GateStage(x, answer'[r])][q]
  BY <1>5, <1>6 DEF GateStages
<1> QED  BY <1>7 DEF GateStages

\* The abstract gate counts as this module does.
LEMMA SameCardinality ==
  ASSUME NEW S PROVE Gate!Cardinality(S) = Cardinality(S)
BY DEF Gate!Cardinality, Cardinality

\* What the abstract gate counts.
LEMMA SameCounts ==
  ASSUME IInv
  PROVE  /\ Gate!PlaceFree <=> slots # 0
         /\ Gate!In({"waiting"}) = At(pc, {"queued", "granted"})
         /\ (\E q \in Requests : pc[q] = "granted") => Gate!PermitFree
         /\ At(pc, {"granted"}) = {} => (Gate!PermitFree <=> permits # 0)
<1> USE DEF IInv, GateInv
<1> DEFINE c == Cardinality(At(pc, Running))
<1>1. c \in Nat /\ PoolSize \in Nat /\ QueueSize \in Nat
  BY FS_CardinalityType, ResilienceAssumption
<1>2. Gate!In({"waiting", "inside"}) = At(pc, Running) \cup At(pc, {"queued"})
  BY DEF Gate!In, At, GateStages, GateStage, Stage, Running
<1>3. Gate!In({"inside"}) = At(pc, Running) \ At(pc, {"granted"})
  BY DEF Gate!In, At, GateStages, GateStage, Stage, Running
<1>4. Gate!In({"waiting"}) = At(pc, {"queued", "granted"})
  BY DEF Gate!In, At, GateStages, GateStage, Stage, Running
<1>5. Gate!PlaceFree <=> slots # 0
  <2> DEFINE R == At(pc, Running)  Q == At(pc, {"queued"})
  <2>1. IsFiniteSet(R) /\ IsFiniteSet(Q) /\ Cardinality(Q) = Len(waiting) /\ Len(waiting) \in Nat
    <3>1. Lists(waiting, Q)
      OBVIOUS
    <3> HIDE DEF Q
    <3>2. IsFiniteSet(Q) /\ Cardinality(Q) = Len(waiting) /\ Len(waiting) \in Nat
      BY <3>1, ListCounts
    <3> QED  BY <3>2
  <2>2. R \cap Q = {}
    BY DEF At, Running
  <2> HIDE DEF R, Q
  <2>3. Cardinality(R \cup Q) = Cardinality(R) + Cardinality(Q) - Cardinality(R \cap Q)
    BY <2>1, FS_Union
  <2>4. Cardinality(R \cap Q) = 0
    BY <2>2, FS_EmptySet
  <2>5. Cardinality(R \cup Q) = c + Len(waiting)
    BY <1>1, <2>1, <2>3, <2>4 DEF R
  <2>6. Gate!PlaceFree <=> Cardinality(R \cup Q) < PoolSize + QueueSize
    BY <1>2, SameCardinality DEF Gate!PlaceFree, R, Q
  <2> QED  BY <1>1, <2>1, <2>5, <2>6
<1>6. (\E q \in Requests : pc[q] = "granted") => Gate!PermitFree
  <2> SUFFICES ASSUME NEW q \in Requests, pc[q] = "granted" PROVE Gate!PermitFree
    OBVIOUS
  <2> DEFINE R == At(pc, Running)
  <2>1. IsFiniteSet(R) /\ Gate!In({"inside"}) \subseteq R /\ q \in R /\ q \notin Gate!In({"inside"})
    BY <1>3 DEF At, Running
  <2> DEFINE I == Gate!In({"inside"})
  <2> HIDE DEF R, I
  <2>2. IsFiniteSet(R \ {q}) /\ Cardinality(R \ {q}) = Cardinality(R) - 1
    BY <2>1, FS_RemoveElement DEF I
  <2>3. I \subseteq R \ {q}
    BY <2>1 DEF I
  <2>4. Cardinality(I) <= Cardinality(R \ {q}) /\ Cardinality(I) \in Nat /\ Cardinality(R \ {q}) \in Nat
    BY <2>2, <2>3, FS_Subset, FS_CardinalityType
  <2>5. Cardinality(R) <= PoolSize
    BY <1>1 DEF R
  <2>6. Cardinality(I) < PoolSize
    BY <1>1, <2>2, <2>4, <2>5 DEF R
  <2> QED  BY <2>6, SameCardinality DEF Gate!PermitFree, I
<1>7. At(pc, {"granted"}) = {} => (Gate!PermitFree <=> permits # 0)
  <2> SUFFICES ASSUME At(pc, {"granted"}) = {} PROVE Gate!PermitFree <=> permits # 0
    OBVIOUS
  <2>1. Gate!In({"inside"}) = At(pc, Running)
    BY <1>3
  <2>2. Gate!PermitFree <=> c < PoolSize
    BY <2>1, SameCardinality DEF Gate!PermitFree
  <2> QED  BY <1>1, <2>2
<1> QED  BY <1>4, <1>5, <1>6, <1>7

\* Every step is a step of the abstract gate, or leaves it alone.
LEMMA StepMaps ==
  ASSUME IInv, [Next]_vars PROVE [Gate!Next]_GateStages
<1>0. GateInv /\ CallsInv
  BY DEF IInv
\* What a request that is not done was told does not matter to its stage.
<1>1. ASSUME NEW r \in Requests, NEW x, NEW n, NEW p, NEW w, Passes(r, x, n, p, w),
             \A q \in Requests \ {r} : answer'[q] = answer[q],
             GateStages[r] \in {"outside", "waiting", "inside"},
             x = "done" /\ answer'[r] # "queue_full"
      PROVE  Gate!Leave(r)
  <2>1. GateStages' = [GateStages EXCEPT ![r] = "left"]
    BY <1>0, <1>1, PassesMaps DEF GateStage
  <2> QED  BY <1>1, <2>1 DEF Gate!Leave, Gate!Move
<1>2. ASSUME NEW r \in Requests, NEW x, NEW n, NEW p, NEW w, Passes(r, x, n, p, w),
             \A q \in Requests \ {r} : answer'[q] = answer[q],
             GateStage(x, answer'[r]) = GateStages[r]
      PROVE  UNCHANGED GateStages
  <2>1. GateStages' = [GateStages EXCEPT ![r] = GateStage(x, answer'[r])]
    BY <1>0, <1>1, <1>2, PassesMaps
  <2> QED  BY <1>2, <2>1 DEF GateStages
<1>3. \A r \in Requests : pc[r] \in Running \cup {"queued", "idle"} =>
        GateStages[r] \in {"outside", "waiting", "inside"}
  BY DEF GateStages, GateStage, Running
<1>4. ASSUME NEW r \in Requests, NEW a, a # "queue_full", Leave(r, a), pc[r] \in Running \ {"granted"}
      PROVE  Gate!Leave(r)
  <2>1. Passes(r, "done", Least(1, Len(waiting)), permits + 1, waiting)
    BY <1>0, <1>4, LeavePasses
  <2>2. answer' = [answer EXCEPT ![r] = a]
    BY <1>4 DEF Leave
  <2>3. answer'[r] # "queue_full" /\ \A q \in Requests \ {r} : answer'[q] = answer[q]
    BY <1>0, <1>4, <2>2 DEF CallsInv
  <2> QED  BY <1>1, <1>3, <1>4, <2>1, <2>3
<1>5. ASSUME NEW r \in Requests, RefuseOpen(r)
      PROVE  Gate!Leave(r)
  <2>1. /\ GateStages[r] = "outside" /\ GateStages' = [GateStages EXCEPT ![r] = "left"]
    BY <1>0, <1>5 DEF RefuseOpen, Refuse, GateStages, GateStage, GateInv, CallsInv
  <2> QED  BY <2>1 DEF Gate!Leave, Gate!Move
<1>6. ASSUME NEW r \in Requests, RefuseFull(r)
      PROVE  Gate!TurnAway(r)
  <2>1. /\ GateStages[r] = "outside" /\ GateStages' = [GateStages EXCEPT ![r] = "full"]
    BY <1>0, <1>6 DEF RefuseFull, Refuse, GateStages, GateStage, GateInv, CallsInv
  <2>2. ~Gate!PlaceFree
    BY <1>6, SameCounts DEF RefuseFull, NoSlot
  <2> QED  BY <2>1, <2>2 DEF Gate!TurnAway, Gate!Move
<1>7. ASSUME NEW r \in Requests, Enter(r)
      PROVE  Gate!Enter(r)
  <2>1. Gate!PlaceFree /\ GateStages[r] = "outside" /\ UNCHANGED answer
    BY <1>7, SameCounts DEF Enter, NoSlot, GateStages, GateStage
  <2>2. CASE Passes(r, "admitted", 0, permits', waiting) /\ ~Locked
    <3>1. At(pc, {"queued", "granted"}) = {} /\ At(pc, {"granted"}) = {} /\ permits # 0
      BY <2>2 DEF Locked, At
    <3>2. Gate!PermitFree /\ Gate!In({"waiting"}) = {}
      BY <3>1, SameCounts
    <3>3. GateStages' = [GateStages EXCEPT ![r] = "inside"]
      BY <1>0, <2>1, <2>2, PassesMaps DEF GateStage
    <3> QED  BY <2>1, <3>2, <3>3 DEF Gate!Enter, Gate!Move
  <2>3. CASE Passes(r, "queued", 0, permits, Append(waiting, r)) /\ Locked
    <3>1. ~(Gate!PermitFree /\ Gate!In({"waiting"}) = {})
      <4>1. CASE permits = 0 /\ At(pc, {"granted"}) = {}
        BY <4>1, SameCounts
      <4>2. CASE At(pc, {"queued", "granted"}) # {}
        BY <4>2, SameCounts
      <4> QED  BY <2>3, <4>1, <4>2 DEF Locked, At
    <3>2. GateStages' = [GateStages EXCEPT ![r] = "waiting"]
      BY <1>0, <2>1, <2>3, PassesMaps DEF GateStage
    <3> QED  BY <2>1, <3>1, <3>2 DEF Gate!Enter, Gate!Move
  <2>4. \/ ~Locked /\ pc' = [pc EXCEPT ![r] = "admitted"]
        \/ Locked /\ pc' = [pc EXCEPT ![r] = "queued"]
    BY <1>7 DEF Enter
  <2>5. \/ Passes(r, "admitted", 0, permits', waiting) /\ pc'[r] = "admitted"
        \/ Passes(r, "queued", 0, permits, Append(waiting, r)) /\ pc'[r] = "queued"
    <3>1. Passes(r, "admitted", 0, permits', waiting) => pc'[r] = "admitted"
      BY <1>0 DEF Passes, Hand, GateInv
    <3>2. Passes(r, "queued", 0, permits, Append(waiting, r)) => pc'[r] = "queued"
      BY <1>0 DEF Passes, Hand, GateInv
    <3> QED  BY <1>0, <1>7, <3>1, <3>2, EnterPasses
  <2> QED  BY <1>0, <2>2, <2>3, <2>4, <2>5 DEF GateInv
<1>8. ASSUME NEW r \in Requests, Resume(r)
      PROVE  Gate!Admit(r)
  <2>1. pc[r] = "granted" /\ GateStages[r] = "waiting" /\ UNCHANGED answer
    BY <1>8 DEF Resume, GateStages, GateStage
  <2>2. GateStages' = [GateStages EXCEPT ![r] = "inside"]
    <3>1. Passes(r, "admitted", Least(permits, Len(waiting)), permits, waiting)
      BY <1>0, <1>8, ResumePasses
    <3> QED  BY <1>0, <2>1, <3>1, PassesMaps DEF GateStage
  <2>3. Gate!PermitFree
    BY <2>1, SameCounts
  <2> QED  BY <2>1, <2>2, <2>3 DEF Gate!Admit, Gate!Move
\* Within the body the stage stays.
<1>9. ASSUME NEW r \in Requests, NEW x \in {"calling", "backoff"}, pc[r] \in {"admitted", "calling", "backoff"},
             pc' = [pc EXCEPT ![r] = x], UNCHANGED answer
      PROVE  UNCHANGED GateStages
  BY <1>0, <1>9 DEF GateStages, GateStage, GateInv
<1>10. ASSUME NEW r \in Requests, Charge(r)
       PROVE  UNCHANGED GateStages \/ Gate!Leave(r)
  BY <1>4, <1>9, <1>10 DEF Charge, Running
<1>11. ASSUME NEW r \in Requests, Retry(r)
       PROVE  UNCHANGED GateStages
  BY <1>9, <1>11 DEF Retry
<1>12. ASSUME NEW r \in Requests, CallSucceeds(r) \/ CallFailsPermanent(r)
       PROVE  Gate!Leave(r)
  BY <1>4, <1>12 DEF CallSucceeds, CallFailsPermanent, Running
<1>13. ASSUME NEW r \in Requests, CallFailsTransient(r)
       PROVE  UNCHANGED GateStages \/ Gate!Leave(r)
  BY <1>4, <1>9, <1>13 DEF CallFailsTransient, Running
<1>14. ASSUME NEW r \in Requests, CancelRunning(r)
       PROVE  Gate!Leave(r)
  BY <1>4, <1>14 DEF CancelRunning
<1>15. ASSUME NEW r \in Requests, CancelWaiter(r)
       PROVE  Gate!Leave(r)
  <2>1. PICK n, p, w : Passes(r, "done", n, p, w)
    BY <1>0, <1>15, CancelWaiterPasses
  <2>2. answer' = [answer EXCEPT ![r] = "cancelled"] /\ pc[r] \in {"queued", "granted"}
    BY <1>15 DEF CancelWaiter
  <2>3. answer'[r] # "queue_full" /\ \A q \in Requests \ {r} : answer'[q] = answer[q]
    BY <1>0, <2>2 DEF CallsInv
  <2> QED  BY <1>1, <1>3, <2>1, <2>2, <2>3 DEF Running
<1>16. CASE Tick \/ Quiesce \/ UNCHANGED vars
  BY <1>16 DEF Tick, Quiesce, vars, GateStages
<1> QED
  BY <1>5, <1>6, <1>7, <1>8, <1>10, <1>11, <1>12, <1>13, <1>14, <1>15, <1>16
  DEF Next, Advance, Gate!Next

-----------------------------------------------------------------------------
(* The breaker.                                                            *)

\* What is known of the breaker alone; it is inductive.
BreakerInv ==
  /\ now \in Nat
  /\ failures \in Nat
  /\ openedAt \in Nat \cup {Closed}
  /\ OpenAtThreshold

\* Every way a step touches the breaker: not at all, by letting a call in, by
\* a success, or by a failure.
LEMMA BreakerMoves ==
  ASSUME [Next]_vars
  PROVE  UNCHANGED breaker \/ BeforeCall \/ RecordSuccess \/ RecordFailure
<1>1. ASSUME NEW r \in Requests, RefuseOpen(r) \/ RefuseFull(r) \/ Enter(r)
      PROVE  UNCHANGED breaker \/ BeforeCall
  BY <1>1 DEF RefuseOpen, RefuseFull, Enter
<1>2. ASSUME NEW r \in Requests, Advance(r)
      PROVE  UNCHANGED breaker \/ RecordSuccess \/ RecordFailure
  BY <1>2 DEF Advance, Resume, Charge, Retry, CallSucceeds, CallFailsTransient,
              CallFailsPermanent
<1>3. ASSUME NEW r \in Requests, CancelRunning(r) \/ CancelWaiter(r)
      PROVE  UNCHANGED breaker
  BY <1>3 DEF CancelRunning, CancelWaiter
<1>4. CASE Tick \/ UNCHANGED vars
  BY <1>4 DEF Tick, vars
<1> QED  BY <1>1, <1>2, <1>3, <1>4 DEF Next, Quiesce

\* The clock only moves forward.
LEMMA ClockMoves ==
  ASSUME [Next]_vars, now \in Nat PROVE now' \in Nat
<1>1. ASSUME NEW r \in Requests,
             \/ RefuseOpen(r) \/ RefuseFull(r) \/ Enter(r) \/ Advance(r)
             \/ CancelRunning(r) \/ CancelWaiter(r)
      PROVE  now' = now
  BY <1>1 DEF RefuseOpen, RefuseFull, Enter, Advance, Resume, Charge, Retry, CallSucceeds,
              CallFailsTransient, CallFailsPermanent, CancelRunning, CancelWaiter
<1>2. CASE Tick \/ UNCHANGED vars
  BY <1>2 DEF Tick, vars
<1> QED  BY <1>1, <1>2 DEF Next, Quiesce

\* What is known of the breaker is kept by every step.
LEMMA BreakerInvariant == BreakerInv /\ [Next]_vars => BreakerInv'
<1> SUFFICES ASSUME BreakerInv, [Next]_vars PROVE BreakerInv'
  OBVIOUS
<1>1. now' \in Nat
  BY ClockMoves DEF BreakerInv
<1>2. CASE UNCHANGED breaker
  BY <1>1, <1>2 DEF BreakerInv, OpenAtThreshold, IsOpen, breaker
<1>3. CASE BeforeCall \/ RecordSuccess
  BY <1>1, <1>3, ResilienceAssumption
     DEF BreakerInv, OpenAtThreshold, IsOpen, BeforeCall, RecordSuccess
<1>4. CASE RecordFailure
  BY <1>1, <1>4, ResilienceAssumption
     DEF BreakerInv, OpenAtThreshold, IsOpen, RecordFailure, breaker
<1> QED  BY <1>2, <1>3, <1>4, BreakerMoves

-----------------------------------------------------------------------------
(* The theorems.                                                           *)

\* The gate starts with every slot and every permit free.
LEMMA InitHolds == Init => IInv
<1> SUFFICES ASSUME Init PROVE IInv
  OBVIOUS
<1> USE DEF Init
<1>1. At(pc, {"queued"}) = {} /\ At(pc, Running) = {}
  BY DEF At, Running
<1>2. Lists(waiting, {})
  BY DEF Lists
<1>3. IsFiniteSet({}) /\ Cardinality({}) = 0 /\ Len(waiting) = 0
  BY FS_EmptySet
<1>4. GateInv
  <2>1. PoolSize \in Nat /\ QueueSize \in Nat
    BY ResilienceAssumption
  <2>2. /\ slots + Len(waiting) + Cardinality(At(pc, Running)) = PoolSize + QueueSize
        /\ permits + Cardinality(At(pc, Running)) = PoolSize
    <3>1. Cardinality(At(pc, Running)) = 0
      BY <1>1, <1>3
    <3> QED  BY <1>3, <2>1, <3>1
  <2>3. pc \in [Requests -> Stage] /\ slots \in Nat /\ permits \in Nat
    BY <2>1 DEF Stage
  <2>4. NoPermitWasted
    BY DEF NoPermitWasted
  <2> QED  BY <1>1, <1>2, <1>3, <2>2, <2>3, <2>4 DEF GateInv
<1>5. CallsInv
  BY ResilienceAssumption DEF CallsInv, Answer
<1> QED  BY <1>4, <1>5 DEF IInv

\* The inductive invariant holds throughout every behaviour.
THEOREM Invariance == Spec => []IInv
<1>1. Init => IInv
  BY InitHolds
<1>2. IInv /\ [Next]_vars => IInv'
  <2> SUFFICES ASSUME IInv, [Next]_vars PROVE IInv'
    OBVIOUS
  <2>1. GateInv'
    <3>1. CASE UNCHANGED <<gate, pc>>
      BY <3>1 DEF IInv, GateInv, gate, NoPermitWasted, In
    <3>2. CASE \E r, x, n, p, w : Passes(r, x, n, p, w)
      BY <3>2, PassesKeeps DEF IInv
    <3> QED  BY <3>1, <3>2, StepPasses
  <2> QED  BY <2>1, CallsKept DEF IInv
<1> QED  BY <1>1, <1>2, PTL DEF Spec

\* TypeOK of Resilience.
THEOREM TypeCorrect == Spec => []TypeOK
<1>1. IInv => TypeOK
  <2> SUFFICES ASSUME IInv PROVE TypeOK
    OBVIOUS
  <2> USE DEF IInv, GateInv, CallsInv
  <2> DEFINE c == Cardinality(At(pc, Running))
  <2>1. c \in Nat /\ PoolSize \in Nat /\ QueueSize \in Nat
    BY FS_CardinalityType, ResilienceAssumption
  <2>2. waiting \in Seq(Requests) /\ Len(waiting) \in Nat
    BY QueueTyped
  <2>3. slots + Len(waiting) + c = PoolSize + QueueSize /\ permits + c = PoolSize
        /\ slots \in Nat /\ permits \in Nat
    OBVIOUS
  <2> HIDE DEF c
  <2>4. slots \in 0..(PoolSize + QueueSize) /\ permits \in 0..PoolSize
    BY <2>1, <2>2, <2>3
  <2> QED  BY <2>2, <2>4 DEF TypeOK, Stage
<1> QED  BY <1>1, Invariance, PTL

\* At every await, however requests end, are refused or are cancelled: every
\* slot and every permit is free or held by one request that has not left
\* (LLMExecutionGate.hold, asyncio.Semaphore).
THEOREM GateStaysConserved == Spec => []GateConserved
<1>1. IInv => GateConserved
  <2> SUFFICES ASSUME IInv PROVE GateConserved
    OBVIOUS
  <2> USE DEF IInv, GateInv
  <2> DEFINE R == At(pc, Running)  Q == At(pc, {"queued"})
  <2>1. In(Running) = R /\ In({"queued"}) = Q /\ In(Running \cup {"queued"}) = R \cup Q /\ R \cap Q = {}
    BY DEF In, At, Running
  <2>2. IsFiniteSet(R) /\ Lists(waiting, Q)
    OBVIOUS
  <2>3. slots + Len(waiting) + Cardinality(R) = PoolSize + QueueSize /\ permits + Cardinality(R) = PoolSize
        /\ slots \in Nat
    OBVIOUS
  <2> HIDE DEF R, Q
  <2>4. IsFiniteSet(Q) /\ Cardinality(Q) = Len(waiting) /\ Len(waiting) \in Nat
    BY <2>2, ListCounts
  <2>5. Cardinality(R \cup Q) = Cardinality(R) + Cardinality(Q) - Cardinality(R \cap Q)
    BY <2>2, <2>4, FS_Union
  <2>6. Cardinality(R \cap Q) = 0 /\ Cardinality(R) \in Nat
    BY <2>1, <2>2, FS_EmptySet, FS_CardinalityType
  <2>7. slots + Cardinality(R \cup Q) = PoolSize + QueueSize
    BY <2>3, <2>4, <2>5, <2>6
  <2>8. {waiting[i] : i \in 1..Len(waiting)} = Q
    BY <2>2 DEF Lists
  <2> QED  BY <2>1, <2>3, <2>4, <2>7, <2>8 DEF GateConserved
<1> QED  BY <1>1, Invariance, PTL

\* While a permit is free and somebody waits, a wake-up is on its way
\* (Semaphore.release, and acquire on its way out).
THEOREM PermitsAreUsed == Spec => []NoPermitWasted
<1>1. IInv => NoPermitWasted
  BY DEF IInv, GateInv
<1> QED  BY <1>1, Invariance, PTL

\* ImplementsGate: slots, semaphore and wake-ups together are an ExecutionGate,
\* step by step.
THEOREM Refinement == Spec => ImplementsGate
<1>1. Init => Gate!Init
  BY DEF Init, Gate!Init, GateStages, GateStage
<1>2. IInv /\ [Next]_vars => [Gate!Next]_GateStages
  BY StepMaps
<1> QED  BY <1>1, <1>2, Invariance, PTL DEF Spec, ImplementsGate, Gate!Spec

\* Whatever the order of late successes, late failures and admissions, the
\* breaker is open exactly when its count is at the threshold: it is never
\* stuck closed past it (CircuitBreaker).
THEOREM BreakerAtThreshold == Spec => []OpenAtThreshold
<1>1. Init => BreakerInv
  BY ResilienceAssumption DEF Init, BreakerInv, OpenAtThreshold, IsOpen
<1>2. BreakerInv => OpenAtThreshold
  BY DEF BreakerInv
<1> QED  BY <1>1, <1>2, BreakerInvariant, PTL DEF Spec

\* Calls in flight when the breaker opened cannot prolong its opening
\* (the early return of CircuitBreaker.record_failure).
THEOREM BreakerOpensOnce == Spec => OpeningNeverMoves
<1>1. ASSUME [Next]_vars, IsOpen, openedAt' # Closed
      PROVE  openedAt' = openedAt /\ failures' = failures
  BY <1>1, BreakerMoves DEF BeforeCall, RecordSuccess, RecordFailure, breaker, IsOpen
<1>2. [Next]_vars =>
        [IsOpen /\ openedAt' # Closed => openedAt' = openedAt /\ failures' = failures]_vars
  BY <1>1
<1> QED  BY <1>2, PTL DEF Spec, OpeningNeverMoves
=============================================================================
