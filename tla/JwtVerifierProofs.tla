-------------------------- MODULE JwtVerifierProofs --------------------------
(***************************************************************************)
(* Proofs about JwtVerifier, for every number of worker threads, every set *)
(* of key ids and every lifespan, cache size and fetch timeout.            *)
(***************************************************************************)
EXTENDS JwtVerifier, FiniteSetTheorems, SequenceTheorems, TLAPS

\* No entry outlives the longest life a record could give it now; one for a key
\* that is served outlives the key's publication by a bounded time.
EntriesExpire ==
  \A i \in 1..Len(unknown) :
    /\ unknown[i].deadline <= now + UnknownTtl
    /\ unknown[i].kid \in served =>
         unknown[i].deadline <= changed[unknown[i].kid] + FetchTime + UnknownTtl

\* A fetch, with the recording that may follow it, is recent.
FetchesAreRecent ==
  /\ \A k \in Kids : changed[k] <= now
  /\ \A t \in Threads : pc[t] \in Fetching \cup {"recording"} =>
       began[t] <= now /\ now <= began[t] + FetchTime

\* What a thread was answered differs from what is served only by keys that
\* changed after it had asked.
AnswersAreRecent ==
  \A t \in Threads :
    /\ pc[t] \in {"answered", "refreshed"} /\ got[t] # Degraded =>
         \A k \in Kids : (k \in got[t] /\ k \notin served) \/ (k \notin got[t] /\ k \in served)
           => began[t] <= changed[k]
    /\ pc[t] = "recording" /\ kid[t] \in served => began[t] <= changed[kid[t]]

\* A key in the cached set that is served no longer was pulled after, or not
\* long before, the set was cached.
CachedSetIsRecent ==
  jwks # NoSet =>
    /\ jwks.at <= now
    /\ jwks.set # Degraded =>
         \A k \in Kids : k \in jwks.set /\ k \notin served => jwks.at <= changed[k] + FetchTime

IInv ==
  /\ TypeOK
  /\ NearestDeadlineFirst
  /\ EntriesExpire
  /\ FetchesAreRecent
  /\ AnswersAreRecent
  /\ CachedSetIsRecent

-----------------------------------------------------------------------------
(* What is left of a sequence at some of its places.                       *)

\* A function as Nth: strictly increasing, onto the places.
Enumerates(f, places) ==
  /\ \A n \in 1..Cardinality(places) : f[n] \in places
  /\ \A m, n \in 1..Cardinality(places) : m < n => f[m] < f[n]
  /\ \A i \in places : \E n \in 1..Cardinality(places) : f[n] = i

Rank(places, i) == Cardinality({j \in places : j <= i})

\* The rank of a place among them tells the places apart.
LEMMA RankMonotonic ==
  ASSUME NEW places, IsFiniteSet(places), places \subseteq Nat
  PROVE  /\ \A i \in places : Rank(places, i) \in 1..Cardinality(places)
         /\ \A i, j \in places : i < j => Rank(places, i) < Rank(places, j)
<1>1. ASSUME NEW i \in places
      PROVE  /\ IsFiniteSet({j \in places : j <= i})
             /\ Rank(places, i) \in 1..Cardinality(places)
  <2> DEFINE S == {j \in places : j <= i}
  <2>1. S \in SUBSET places /\ i \in S
    OBVIOUS
  <2> HIDE DEF S
  <2>2. IsFiniteSet(S) /\ Cardinality(S) <= Cardinality(places)
    BY <2>1, FS_Subset
  <2>3. Cardinality(S) \in Nat /\ Cardinality(places) \in Nat
    BY <2>2, FS_CardinalityType
  <2>4. Cardinality(S) # 0
    BY <2>1, <2>2, FS_EmptySet
  <2>5. Rank(places, i) = Cardinality(S)
    BY DEF Rank, S
  <2> QED
    BY <2>2, <2>3, <2>4, <2>5 DEF S
<1>2. ASSUME NEW i \in places, NEW j \in places, i < j
      PROVE  Rank(places, i) < Rank(places, j)
  <2> DEFINE S == {m \in places : m <= i}  T == {m \in places : m <= j}
  <2>1. S \in SUBSET T /\ j \in T /\ j \notin S
    <3>1. i \in Int /\ j \in Int /\ \A m \in places : m \in Int
      OBVIOUS
    <3>2. \A m \in places : m <= i => m <= j
      BY <1>2, <3>1
    <3>3. j <= j /\ ~(j <= i)
      BY <1>2, <3>1
    <3> QED
      BY <3>2, <3>3
  <2>2. IsFiniteSet(T)
    BY <1>1
  <2>3. Rank(places, i) = Cardinality(S) /\ Rank(places, j) = Cardinality(T)
    BY DEF Rank
  <2> HIDE DEF S, T
  <2>4. Cardinality(S) <= Cardinality(T) /\ Cardinality(S) # Cardinality(T)
    BY <2>1, <2>2, FS_Subset
  <2>5. Cardinality(S) \in Nat /\ Cardinality(T) \in Nat
    BY <2>1, <2>2, FS_Subset, FS_CardinalityType
  <2> QED
    BY <2>3, <2>4, <2>5
<1> QED
  BY <1>1, <1>2

\* Nth lists the places in their order.
LEMMA NthEnumerates ==
  ASSUME NEW L \in Nat, NEW places \in SUBSET (1..L)
  PROVE  /\ Cardinality(places) \in Nat /\ Cardinality(places) <= L
         /\ Enumerates([n \in 1..Cardinality(places) |-> Nth(places, n)], places)
<1> DEFINE N == Cardinality(places)
           f == [n \in 1..N |-> Nth(places, n)]
           rank == [i \in places |-> Rank(places, i)]
<1>1. IsFiniteSet(places) /\ N \in Nat /\ N <= L
  <2>1. IsFiniteSet(1..L) /\ Cardinality(1..L) = L
    BY FS_Interval
  <2> QED
    BY <2>1, FS_Subset, FS_CardinalityType
<1>2. /\ \A i \in places : Rank(places, i) \in 1..N
      /\ \A i, j \in places : i < j => Rank(places, i) < Rank(places, j)
  <2>1. places \subseteq Nat
    OBVIOUS
  <2> HIDE DEF N
  <2>2. /\ \A i \in places : Rank(places, i) \in 1..Cardinality(places)
        /\ \A i, j \in places : i < j => Rank(places, i) < Rank(places, j)
    BY <1>1, <2>1, RankMonotonic
  <2> QED
    BY <2>2 DEF N
<1>3. rank \in Injection(places, 1..N)
  <2>1. rank \in [places -> 1..N]
    BY <1>2
  <2>2. ASSUME NEW i \in places, NEW j \in places, rank[i] = rank[j]
        PROVE  i = j
    <3>1. Rank(places, i) = Rank(places, j) /\ Rank(places, i) \in Nat
      BY <1>1, <1>2, <2>2
    <3>2. i \in Int /\ j \in Int /\ ~(i < j) /\ ~(j < i)
      BY <1>2, <3>1
    <3> QED
      BY <3>2
  <2> HIDE DEF rank
  <2> QED
    BY <2>1, <2>2 DEF Injection, IsInjective
<1>4. \A i \in places : rank[i] = Rank(places, i)
  OBVIOUS
<1> HIDE DEF rank
<1>5. \A n \in 1..N : \E i \in places : rank[i] = n
  <2>1. IsFiniteSet(1..N) /\ Cardinality(1..N) = N
    BY <1>1, FS_Interval
  <2>2. rank \in Surjection(places, 1..N)
    BY <1>3, <2>1, FS_Injection
  <2> QED
    BY <2>2 DEF Surjection
<1>6. \A i, j \in places : Rank(places, i) < Rank(places, j) => i < j
  <2> SUFFICES ASSUME NEW i \in places, NEW j \in places,
                      Rank(places, i) < Rank(places, j)
               PROVE  i < j
    OBVIOUS
  <2>1. i \in Int /\ j \in Int /\ Rank(places, i) \in Int /\ Rank(places, j) \in Int
    BY <1>1, <1>2
  <2>2. ~(j < i) /\ i # j
    BY <1>2, <2>1
  <2> QED
    BY <2>1, <2>2
<1>7. ASSUME NEW n \in 1..N
      PROVE  Nth(places, n) \in places /\ Rank(places, Nth(places, n)) = n
  <2>1. \E i \in places : Rank(places, i) = n
    BY <1>4, <1>5
  <2> QED
    BY <2>1 DEF Nth, Rank
<1>8. \A n \in 1..N : f[n] \in places /\ Rank(places, f[n]) = n
  BY <1>7
<1> HIDE DEF f
<1>9. \A m, n \in 1..N : m < n => f[m] < f[n]
  <2> SUFFICES ASSUME NEW m \in 1..N, NEW n \in 1..N, m < n
               PROVE  f[m] < f[n]
    OBVIOUS
  <2>1. Rank(places, f[m]) < Rank(places, f[n])
    BY <1>8
  <2> QED
    BY <1>6, <1>8, <2>1
<1>10. \A i \in places : \E n \in 1..N : f[n] = i
  <2> TAKE i \in places
  <2>1. PICK n \in 1..N : n = Rank(places, i)
    BY <1>2
  <2>2. f[n] \in places /\ Rank(places, f[n]) = n
    BY <1>8
  <2>3. rank[f[n]] = rank[i] /\ rank \in [places -> 1..N]
    BY <1>3, <1>4, <2>1, <2>2 DEF Injection
  <2>4. f[n] = i
    BY <1>3, <2>2, <2>3 DEF Injection, IsInjective
  <2> QED
    BY <2>4
<1>11. Enumerates(f, places)
  BY <1>8, <1>9, <1>10 DEF Enumerates
<1> QED
  BY <1>1, <1>11 DEF f

\* Keeping some places keeps entries, and their order.
LEMMA KeepingProperties ==
  ASSUME unknown \in Seq(Entry), NEW places \in SUBSET (1..Len(unknown))
  PROVE  /\ Keeping(places) \in Seq(Entry) /\ Len(Keeping(places)) <= Len(unknown)
         /\ \E f : /\ \A n \in 1..Len(Keeping(places)) :
                        f[n] \in places /\ Keeping(places)[n] = unknown[f[n]]
                   /\ \A m, n \in 1..Len(Keeping(places)) : m < n => f[m] < f[n]
<1> DEFINE N == Cardinality(places)
           f == [n \in 1..N |-> Nth(places, n)]
<1>1. Len(unknown) \in Nat
  OBVIOUS
<1>2. N \in Nat /\ N <= Len(unknown) /\ Enumerates(f, places)
  BY <1>1, NthEnumerates
<1>3. \A n \in 1..N : f[n] \in places /\ Keeping(places)[n] = unknown[f[n]]
  BY <1>2 DEF Enumerates, Keeping
<1>4. Keeping(places) \in [1..N -> Entry]
  <2>1. \A n \in 1..N : f[n] \in 1..Len(unknown)
    BY <1>3
  <2>2. \A n \in 1..N : unknown[f[n]] \in Entry
    BY <1>1, <2>1
  <2> QED
    BY <2>2 DEF Keeping
<1>5. Keeping(places) \in Seq(Entry) /\ Len(Keeping(places)) = N
  BY <1>2, <1>4
<1> HIDE DEF f, N
<1> QED
  BY <1>2, <1>3, <1>5 DEF Enumerates, N

-----------------------------------------------------------------------------
(* The negative cache's operators.                                         *)

Distinct(s) == \A i, j \in 1..Len(s) : i # j => s[i].kid # s[j].kid

Ordered(s) == \A i, j \in 1..Len(s) : i < j => s[i].deadline <= s[j].deadline

\* Dropping entries keeps the rest distinct and in order.
LEMMA KeepingCache ==
  ASSUME unknown \in Seq(Entry), Distinct(unknown), Ordered(unknown),
         NEW places \in SUBSET (1..Len(unknown))
  PROVE  /\ Keeping(places) \in Seq(Entry) /\ Len(Keeping(places)) <= Len(unknown)
         /\ Distinct(Keeping(places)) /\ Ordered(Keeping(places))
         /\ \A n \in 1..Len(Keeping(places)) :
              \E i \in places : Keeping(places)[n] = unknown[i]
<1> DEFINE s == Keeping(places)
<1>1. s \in Seq(Entry) /\ Len(s) <= Len(unknown) /\ Len(s) \in Nat
  BY KeepingProperties
<1>2. PICK f : /\ \A n \in 1..Len(s) : f[n] \in places /\ s[n] = unknown[f[n]]
               /\ \A m, n \in 1..Len(s) : m < n => f[m] < f[n]
  BY KeepingProperties
<1> HIDE DEF s
<1>3. \A n \in 1..Len(s) : f[n] \in 1..Len(unknown) /\ f[n] \in Int
  <2>1. \A i \in places : i \in 1..Len(unknown) /\ i \in Int
    OBVIOUS
  <2> QED
    BY <1>2, <2>1
<1>4. Distinct(s)
  <2> SUFFICES ASSUME NEW m \in 1..Len(s), NEW n \in 1..Len(s), m # n
               PROVE  s[m].kid # s[n].kid
    BY DEF Distinct
  <2>1. m < n \/ n < m
    BY <1>1
  <2>2. f[m] # f[n]
    BY <1>2, <1>3, <2>1
  <2> QED
    BY <1>2, <1>3, <2>2 DEF Distinct
<1>5. Ordered(s)
  BY <1>2, <1>3 DEF Ordered
<1> QED
  BY <1>1, <1>2, <1>4, <1>5 DEF s

\* _record_unknown's list before the eviction: the others that are live, then the
\* key id recorded.
LEMMA RenewedCache ==
  ASSUME unknown \in Seq(Entry), Distinct(unknown), Ordered(unknown), now \in Nat,
         \A i \in 1..Len(unknown) : unknown[i].deadline <= now + UnknownTtl,
         NEW k \in Kids \cup {Absent}
  PROVE  /\ Renewed(k) \in Seq(Entry) /\ Distinct(Renewed(k)) /\ Ordered(Renewed(k))
         /\ \A n \in 1..Len(Renewed(k)) :
              \/ Renewed(k)[n] = [kid |-> k, deadline |-> now + UnknownTtl]
              \/ \E i \in 1..Len(unknown) : Renewed(k)[n] = unknown[i]
<1> DEFINE places == Others(k) \cap LivePlaces
           s == Keeping(places)
           e == [kid |-> k, deadline |-> now + UnknownTtl]
<1>1. places \in SUBSET (1..Len(unknown)) /\ \A i \in places : unknown[i].kid # k
  BY DEF Others, LivePlaces
<1>2. e \in Entry /\ e.kid = k /\ e.deadline = now + UnknownTtl
  BY VerifierAssumption DEF Entry
<1>3. Renewed(k) = Append(s, e)
  BY DEF Renewed
<1> HIDE DEF places, s, e
<1>4. /\ s \in Seq(Entry) /\ Distinct(s) /\ Ordered(s)
      /\ \A n \in 1..Len(s) : \E i \in places : s[n] = unknown[i]
  BY <1>1, KeepingCache DEF s
<1>5. /\ Append(s, e) \in Seq(Entry) /\ Len(Append(s, e)) = Len(s) + 1
      /\ \A n \in 1..Len(s) : Append(s, e)[n] = s[n]
      /\ Append(s, e)[Len(s) + 1] = e
      /\ Len(s) \in Nat
  BY <1>2, <1>4, AppendProperties, LenProperties
<1>6. PICK r : r = Append(s, e)
  OBVIOUS
<1>7. /\ r \in Seq(Entry) /\ Len(r) = Len(s) + 1
      /\ \A n \in 1..Len(s) : r[n] = s[n]
      /\ r[Len(s) + 1] = e
  BY <1>5, <1>6
<1>8. \A n \in 1..Len(s) :
        /\ s[n].kid # k /\ s[n].deadline <= now + UnknownTtl
        /\ \E i \in 1..Len(unknown) : s[n] = unknown[i]
  BY <1>1, <1>4
<1>9. Distinct(r)
  <2> SUFFICES ASSUME NEW m \in 1..Len(r), NEW n \in 1..Len(r), m # n
               PROVE  r[m].kid # r[n].kid
    BY DEF Distinct
  <2>1. CASE m \in 1..Len(s) /\ n \in 1..Len(s)
    BY <1>4, <1>7, <2>1 DEF Distinct
  <2>2. CASE m = Len(s) + 1 /\ n \in 1..Len(s)
    BY <1>2, <1>7, <1>8, <2>2
  <2>3. CASE n = Len(s) + 1 /\ m \in 1..Len(s)
    BY <1>2, <1>7, <1>8, <2>3
  <2> QED
    BY <1>5, <1>7, <2>1, <2>2, <2>3
<1>10. Ordered(r)
  <2> SUFFICES ASSUME NEW m \in 1..Len(r), NEW n \in 1..Len(r), m < n
               PROVE  r[m].deadline <= r[n].deadline
    BY DEF Ordered
  <2>1. m \in 1..Len(s)
    BY <1>5, <1>7
  <2>2. CASE n \in 1..Len(s)
    BY <1>4, <1>7, <2>1, <2>2 DEF Ordered
  <2>3. CASE n = Len(s) + 1
    BY <1>2, <1>7, <1>8, <2>1, <2>3
  <2> QED
    BY <1>5, <1>7, <2>2, <2>3
<1>11. \A n \in 1..Len(r) : r[n] = e \/ \E i \in 1..Len(unknown) : r[n] = unknown[i]
  <2> TAKE n \in 1..Len(r)
  <2>1. n \in 1..Len(s) \/ n = Len(s) + 1
    BY <1>5, <1>7
  <2> QED
    BY <1>7, <1>8, <2>1
<1> QED
  BY <1>3, <1>6, <1>7, <1>9, <1>10, <1>11 DEF e

\* The eviction leaves the newest entries, in their order.
LEMMA NewestCache ==
  ASSUME NEW s \in Seq(Entry), Distinct(s), Ordered(s)
  PROVE  /\ Newest(s) \in Seq(Entry) /\ Len(Newest(s)) <= CacheSize
         /\ Distinct(Newest(s)) /\ Ordered(Newest(s))
         /\ \A n \in 1..Len(Newest(s)) : \E i \in 1..Len(s) : Newest(s)[n] = s[i]
<1>1. Len(s) \in Nat /\ CacheSize \in Nat
  BY VerifierAssumption, LenProperties
<1>2. CASE Len(s) > CacheSize
  <2>1. PICK d \in Nat : d = Len(s) - CacheSize
    BY <1>1, <1>2
  <2>2. PICK r : r = SubSeq(s, d + 1, Len(s))
    OBVIOUS
  <2>3. /\ r \in Seq(Entry) /\ Len(r) = CacheSize
        /\ \A n \in 1..CacheSize : r[n] = s[n + d]
    BY <1>1, <1>2, <2>1, <2>2, SubSeqProperties
  <2>4. \A n \in 1..CacheSize : n + d \in 1..Len(s)
    BY <1>1, <2>1
  <2>5. Distinct(r)
    <3> SUFFICES ASSUME NEW m \in 1..CacheSize, NEW n \in 1..CacheSize, m # n
                 PROVE  r[m].kid # r[n].kid
      BY <2>3 DEF Distinct
    <3>1. m + d # n + d
      BY <1>1
    <3> QED
      BY <2>3, <2>4, <3>1 DEF Distinct
  <2>6. Ordered(r)
    <3> SUFFICES ASSUME NEW m \in 1..CacheSize, NEW n \in 1..CacheSize, m < n
                 PROVE  r[m].deadline <= r[n].deadline
      BY <2>3 DEF Ordered
    <3>1. m + d < n + d
      BY <1>1
    <3> QED
      BY <2>3, <2>4, <3>1 DEF Ordered
  <2>7. Newest(s) = r
    BY <1>1, <1>2, <2>1, <2>2 DEF Newest
  <2> QED
    BY <1>1, <2>3, <2>4, <2>5, <2>6, <2>7
<1>3. CASE ~(Len(s) > CacheSize)
  BY <1>1, <1>3 DEF Newest
<1> QED
  BY <1>2, <1>3

-----------------------------------------------------------------------------
(* Steps.                                                                  *)

\* The stages, without TypeOK's other parts.
ThreadsOK ==
  /\ pc \in [Threads -> {"idle", "checking", "reading", "recording"} \cup Fetching]
  /\ kid \in [Threads -> Kids \cup {Absent}]
  /\ began \in [Threads -> 0..MaxTime]
  /\ verdict \in [Threads -> {"none", "accepted", "refused", "unverified"}]

\* What a step of t leaves of the other threads.
OthersStay(t) ==
  \A u \in Threads \ {t} :
    pc'[u] = pc[u] /\ kid'[u] = kid[u] /\ began'[u] = began[u] /\ verdict'[u] = verdict[u]

\* A verification that ends leaves its thread idle, with its verdict.
LEMMA Ends ==
  ASSUME ThreadsOK, NEW t \in Threads, NEW v \in {"accepted", "refused", "unverified"},
         End(t, v)
  PROVE  /\ ThreadsOK' /\ OthersStay(t)
         /\ pc'[t] = "idle" /\ verdict'[t] = v
<1>1. 0 \in 0..MaxTime
  BY VerifierAssumption
<1> QED
  BY <1>1 DEF ThreadsOK, End, OthersStay

\* A thread that goes on keeps its token and the time its fetch began.
LEMMA Goes ==
  ASSUME ThreadsOK, NEW t \in Threads,
         NEW stage \in {"reading", "recording"} \cup Fetching, Go(t, stage)
  PROVE  /\ ThreadsOK' /\ OthersStay(t)
         /\ pc'[t] = stage /\ kid' = kid /\ began' = began
BY DEF ThreadsOK, Go, Move, OthersStay

\* A fetch begins now, for the same token.
LEMMA Fetches ==
  ASSUME ThreadsOK, now \in 0..MaxTime, NEW t \in Threads, NEW stage \in Fetching,
         Fetch(t, stage)
  PROVE  /\ ThreadsOK' /\ OthersStay(t)
         /\ pc'[t] = stage /\ kid' = kid /\ began'[t] = now
BY DEF ThreadsOK, Fetch, Move, OthersStay

\* jwt.decode ends the verification.
LEMMA Decodes ==
  ASSUME NEW t \in Threads, Decode(t)
  PROVE  \E v \in {"accepted", "refused", "unverified"} : End(t, v)
BY DEF Decode

\* A new token for an idle thread.
LEMMA BeginStep ==
  ASSUME IInv, NEW t \in Threads, NEW k \in Kids \cup {Absent}, Begin(t, k)
  PROVE  IInv'
<1> USE DEF IInv
<1>1. /\ pc'[t] = "checking" /\ \A u \in Threads \ {t} : pc'[u] = pc[u] /\ kid'[u] = kid[u]
      /\ UNCHANGED <<now, served, changed, jwks, unknown, began, got>>
  BY DEF Begin, TypeOK, issuer
<1>2. TypeOK'
  BY DEF Begin, TypeOK, issuer, Entry
<1>3. NearestDeadlineFirst' /\ EntriesExpire' /\ CachedSetIsRecent'
  BY <1>1 DEF NearestDeadlineFirst, EntriesExpire, CachedSetIsRecent
<1>4. FetchesAreRecent'
  BY <1>1 DEF FetchesAreRecent, Fetching
<1>5. AnswersAreRecent'
  BY <1>1 DEF AnswersAreRecent
<1> QED
  BY <1>2, <1>3, <1>4, <1>5

\* A step that leaves the issuer, the clock and every entry's deadline alone keeps
\* what is said of the cache.
LEMMA CacheStays ==
  ASSUME IInv, UNCHANGED <<now, served, changed>>,
         unknown' \in Seq(Entry), Len(unknown') <= CacheSize,
         Distinct(unknown'), Ordered(unknown'),
         \A n \in 1..Len(unknown') : \E i \in 1..Len(unknown) : unknown'[n] = unknown[i]
  PROVE  /\ \A i, j \in 1..Len(unknown') : i # j => unknown'[i].kid # unknown'[j].kid
         /\ NearestDeadlineFirst' /\ EntriesExpire'
BY DEF IInv, Distinct, Ordered, NearestDeadlineFirst, EntriesExpire

\* _is_known_unknown drops at most entries of the token's key id.
LEMMA CheckStep ==
  ASSUME IInv, NEW t \in Threads, Check(t)
  PROVE  IInv'
<1> USE DEF IInv
<1>1. /\ ThreadsOK /\ pc[t] = "checking" /\ UNCHANGED <<now, served, changed, jwks, got>>
  BY DEF Check, TypeOK, ThreadsOK, issuer
<1>2. /\ ThreadsOK' /\ OthersStay(t)
      /\ pc'[t] \in {"idle", "reading"}
      /\ unknown' = unknown \/ unknown' = Keeping(Others(kid[t]))
  <2>1. CASE End(t, "refused") /\ unknown' = unknown
    <3>1. ThreadsOK' /\ OthersStay(t) /\ pc'[t] = "idle"
      BY <1>1, <2>1, Ends
    <3> QED
      BY <2>1, <3>1
  <2>2. CASE Go(t, "reading") /\ unknown' = Keeping(Others(kid[t]))
    <3>1. ThreadsOK' /\ OthersStay(t) /\ pc'[t] = "reading"
      BY <1>1, <2>2, Goes
    <3> QED
      BY <2>2, <3>1
  <2> QED
    BY <2>1, <2>2 DEF Check
<1>3. /\ unknown' \in Seq(Entry) /\ Len(unknown') <= CacheSize
      /\ Distinct(unknown') /\ Ordered(unknown')
      /\ \A n \in 1..Len(unknown') : \E i \in 1..Len(unknown) : unknown'[n] = unknown[i]
  <2>1. /\ unknown \in Seq(Entry) /\ Len(unknown) <= CacheSize
        /\ Distinct(unknown) /\ Ordered(unknown)
    BY DEF TypeOK, NearestDeadlineFirst, Distinct, Ordered
  <2>2. CASE unknown' = unknown
    BY <2>1, <2>2
  <2>3. CASE unknown' = Keeping(Others(kid[t]))
    <3>1. PICK s, places : /\ s = Keeping(places) /\ places = Others(kid[t])
                           /\ places \in SUBSET (1..Len(unknown))
      BY DEF Others
    <3>2. /\ s \in Seq(Entry) /\ Len(s) <= Len(unknown) /\ Distinct(s) /\ Ordered(s)
          /\ \A n \in 1..Len(s) : \E i \in places : s[n] = unknown[i]
      BY <2>1, <3>1, KeepingCache
    <3>3. Len(s) <= CacheSize
      BY <2>1, <3>2, VerifierAssumption, LenProperties
    <3> QED
      BY <2>3, <3>1, <3>2, <3>3
  <2> QED
    BY <1>2, <2>2, <2>3
<1>4. /\ \A i, j \in 1..Len(unknown') : i # j => unknown'[i].kid # unknown'[j].kid
      /\ NearestDeadlineFirst' /\ EntriesExpire'
  BY <1>1, <1>3, CacheStays
<1>5. TypeOK'
  BY <1>1, <1>2, <1>3, <1>4 DEF TypeOK, ThreadsOK
<1>6. FetchesAreRecent'
  BY <1>1, <1>2 DEF FetchesAreRecent, Fetching, OthersStay
<1>7. AnswersAreRecent'
  BY <1>1, <1>2 DEF AnswersAreRecent, OthersStay
<1>8. CachedSetIsRecent'
  BY <1>1 DEF CachedSetIsRecent
<1> QED
  BY <1>4, <1>5, <1>6, <1>7, <1>8

\* _record_unknown: the fetch that missed is no older than FetchTime, so a key
\* published since then is refused for the entry's life at most.
LEMMA RecordStep ==
  ASSUME IInv, NEW t \in Threads, Record(t)
  PROVE  IInv'
<1> USE DEF IInv
<1>1. /\ ThreadsOK /\ pc[t] = "recording" /\ UNCHANGED <<now, served, changed, jwks, got>>
  BY DEF Record, TypeOK, ThreadsOK, issuer
<1>2. ThreadsOK' /\ OthersStay(t) /\ pc'[t] = "idle"
  BY <1>1, Ends DEF Record
<1>3. PICK k \in Kids \cup {Absent} : k = kid[t]
  BY <1>1 DEF ThreadsOK
<1>4. PICK e : e = [kid |-> k, deadline |-> now + UnknownTtl]
  OBVIOUS
<1>5. /\ unknown' \in Seq(Entry) /\ Len(unknown') <= CacheSize
      /\ Distinct(unknown') /\ Ordered(unknown')
      /\ \A n \in 1..Len(unknown') :
           unknown'[n] = e \/ \E i \in 1..Len(unknown) : unknown'[n] = unknown[i]
  <2>1. /\ unknown \in Seq(Entry) /\ Len(unknown) <= CacheSize /\ now \in Nat
        /\ Distinct(unknown) /\ Ordered(unknown)
        /\ \A i \in 1..Len(unknown) : unknown[i].deadline <= now + UnknownTtl
    <3>1. /\ unknown \in Seq(Entry) /\ Len(unknown) <= CacheSize
          /\ Distinct(unknown) /\ Ordered(unknown)
      BY DEF TypeOK, NearestDeadlineFirst, Distinct, Ordered
    <3>2. now \in Nat
      BY VerifierAssumption DEF TypeOK
    <3> QED
      BY <3>1, <3>2 DEF EntriesExpire
  <2>2. CASE UnknownTtl = 0
    BY <2>1, <2>2 DEF Record
  <2>3. CASE UnknownTtl # 0
    <3>1. PICK r : r = Renewed(k)
      OBVIOUS
    <3>2. /\ r \in Seq(Entry) /\ Distinct(r) /\ Ordered(r)
          /\ \A n \in 1..Len(r) : r[n] = e \/ \E i \in 1..Len(unknown) : r[n] = unknown[i]
      BY <1>4, <2>1, <3>1, RenewedCache
    <3>3. unknown' = Newest(r)
      BY <1>3, <2>3, <3>1 DEF Record
    <3>4. /\ Newest(r) \in Seq(Entry) /\ Len(Newest(r)) <= CacheSize
          /\ Distinct(Newest(r)) /\ Ordered(Newest(r))
          /\ \A n \in 1..Len(Newest(r)) : \E i \in 1..Len(r) : Newest(r)[n] = r[i]
      BY <3>2, NewestCache
    <3> QED
      BY <3>2, <3>3, <3>4
  <2> QED
    BY <2>2, <2>3
<1>6. NearestDeadlineFirst'
  BY <1>5 DEF NearestDeadlineFirst, Ordered
<1>7. EntriesExpire'
  <2>1. /\ e.kid = k /\ e.deadline = now + UnknownTtl /\ now \in Nat
        /\ UnknownTtl \in Nat /\ FetchTime \in Nat
    BY <1>4, VerifierAssumption DEF TypeOK
  <2>2. k \in served => now + UnknownTtl <= changed[k] + FetchTime + UnknownTtl
    <3> SUFFICES ASSUME k \in served
                 PROVE  now + UnknownTtl <= changed[k] + FetchTime + UnknownTtl
      OBVIOUS
    <3>1. began[t] <= changed[k] /\ now <= began[t] + FetchTime
      BY <1>1, <1>3 DEF AnswersAreRecent, FetchesAreRecent
    <3>2. began[t] \in Nat /\ changed[k] \in Nat
      BY DEF TypeOK
    <3> QED
      BY <2>1, <3>1, <3>2
  <2> SUFFICES ASSUME NEW n \in 1..Len(unknown')
               PROVE  /\ unknown'[n].deadline <= now + UnknownTtl
                      /\ unknown'[n].kid \in served =>
                           unknown'[n].deadline <= changed[unknown'[n].kid] + FetchTime + UnknownTtl
    BY <1>1 DEF EntriesExpire
  <2>3. CASE unknown'[n] = e
    BY <2>1, <2>2, <2>3
  <2>4. CASE \E i \in 1..Len(unknown) : unknown'[n] = unknown[i]
    BY <2>4 DEF EntriesExpire
  <2> QED
    BY <1>5, <2>3, <2>4
<1>8. TypeOK'
  BY <1>1, <1>2, <1>5 DEF TypeOK, ThreadsOK, Distinct
<1>9. FetchesAreRecent'
  BY <1>1, <1>2 DEF FetchesAreRecent, Fetching, OthersStay
<1>10. AnswersAreRecent'
  BY <1>1, <1>2 DEF AnswersAreRecent, OthersStay
<1>11. CachedSetIsRecent'
  BY <1>1 DEF CachedSetIsRecent
<1> QED
  BY <1>6, <1>7, <1>8, <1>9, <1>10, <1>11

\* A thread reads the cached set, and ends or begins a fetch.
LEMMA ReadKeysStep ==
  ASSUME IInv, NEW t \in Threads, ReadKeys(t)
  PROVE  IInv'
<1> USE DEF IInv
<1>1. /\ ThreadsOK /\ now \in 0..MaxTime /\ pc[t] = "reading"
      /\ UNCHANGED <<now, served, changed, jwks, unknown, got>>
  BY DEF ReadKeys, TypeOK, ThreadsOK, issuer
<1>2. /\ ThreadsOK' /\ OthersStay(t)
      /\ pc'[t] = "idle" \/ (pc'[t] \in {"refreshing", "fetching"} /\ began'[t] = now)
  <2>1. CASE \E v \in {"accepted", "refused", "unverified"} : End(t, v)
    BY <1>1, <2>1, Ends
  <2>2. CASE \E stage \in {"refreshing", "fetching"} : Fetch(t, stage)
    BY <1>1, <2>2, Fetches DEF Fetching
  <2> QED
    BY <2>1, <2>2, Decodes DEF ReadKeys, Match
<1>3. NearestDeadlineFirst' /\ EntriesExpire' /\ CachedSetIsRecent'
  BY <1>1 DEF NearestDeadlineFirst, EntriesExpire, CachedSetIsRecent
<1>4. TypeOK'
  BY <1>1, <1>2 DEF TypeOK, ThreadsOK
<1>5. FetchesAreRecent'
  <2>1. now <= now /\ now <= now + FetchTime
    BY <1>1, VerifierAssumption
  <2> QED
    BY <1>1, <1>2, <2>1 DEF FetchesAreRecent, Fetching, OthersStay
<1>6. AnswersAreRecent'
  BY <1>1, <1>2 DEF AnswersAreRecent, OthersStay
<1> QED
  BY <1>3, <1>4, <1>5, <1>6

\* The endpoint answers with what it serves at that instant, or with no keys.
LEMMA ServeStep ==
  ASSUME IInv, NEW t \in Threads, Serve(t)
  PROVE  IInv'
<1> USE DEF IInv
<1>1. /\ ThreadsOK /\ pc[t] \in {"fetching", "refreshing"}
      /\ UNCHANGED <<now, served, changed, jwks, unknown>>
  BY DEF Serve, TypeOK, ThreadsOK, issuer
<1>2. PICK stage \in {"answered", "refreshed"} :
        stage = (IF pc[t] = "fetching" THEN "answered" ELSE "refreshed")
  OBVIOUS
<1>3. ThreadsOK' /\ OthersStay(t) /\ pc'[t] = stage /\ began' = began
  BY <1>1, <1>2, Goes DEF Serve, Fetching
<1>4. PICK set \in {served, Degraded} : got' = [got EXCEPT ![t] = set]
  BY DEF Serve
<1>5. /\ got' \in [Threads -> KeySet] /\ got'[t] = set
      /\ \A u \in Threads \ {t} : got'[u] = got[u]
  BY <1>4 DEF TypeOK, KeySet
<1>6. NearestDeadlineFirst' /\ EntriesExpire' /\ CachedSetIsRecent'
  BY <1>1 DEF NearestDeadlineFirst, EntriesExpire, CachedSetIsRecent
<1>7. TypeOK'
  BY <1>1, <1>3, <1>5 DEF TypeOK, ThreadsOK
<1>8. FetchesAreRecent'
  BY <1>1, <1>3 DEF FetchesAreRecent, Fetching, OthersStay
<1>9. AnswersAreRecent'
  BY <1>1, <1>3, <1>5 DEF AnswersAreRecent, OthersStay
<1> QED
  BY <1>6, <1>7, <1>8, <1>9

\* What a thread caches may be as old as its fetch, and no older.
LEMMA ReceiveStep ==
  ASSUME IInv, NEW t \in Threads, Receive(t)
  PROVE  IInv'
<1> USE DEF IInv
<1>1. /\ ThreadsOK /\ now \in 0..MaxTime /\ pc[t] \in {"answered", "refreshed"}
      /\ UNCHANGED <<now, served, changed, unknown>>
      /\ jwks' = [set |-> got[t], at |-> now] /\ got' = [got EXCEPT ![t] = {}]
  BY DEF Receive, TypeOK, ThreadsOK, issuer
<1>2. /\ got' \in [Threads -> KeySet] /\ \A u \in Threads \ {t} : got'[u] = got[u]
  BY <1>1 DEF TypeOK, KeySet
<1>3. /\ ThreadsOK' /\ OthersStay(t)
      /\ \/ pc'[t] = "idle"
         \/ pc'[t] = "refreshing" /\ began'[t] = now
         \/ /\ pc'[t] = "recording" /\ kid' = kid /\ began' = began
            /\ got[t] # Degraded /\ kid[t] \notin got[t]
  <2>1. CASE \E v \in {"accepted", "refused", "unverified"} : End(t, v)
    BY <1>1, <2>1, Ends
  <2>2. CASE Fetch(t, "refreshing")
    BY <1>1, <2>2, Fetches DEF Fetching
  <2>3. CASE Go(t, "recording") /\ got[t] # Degraded /\ kid[t] \notin got[t]
    BY <1>1, <2>3, Goes
  <2> QED
    BY <2>1, <2>2, <2>3, Decodes DEF Receive, Match
<1>4. NearestDeadlineFirst' /\ EntriesExpire'
  BY <1>1 DEF NearestDeadlineFirst, EntriesExpire
<1>5. TypeOK'
  <2>1. jwks' \in [set : KeySet, at : 0..MaxTime]
    BY <1>1 DEF TypeOK
  <2> QED
    BY <1>1, <1>2, <1>3, <2>1 DEF TypeOK, ThreadsOK
<1>6. FetchesAreRecent'
  <2>1. now <= now /\ now <= now + FetchTime
    BY <1>1, VerifierAssumption
  <2> QED
    BY <1>1, <1>3, <2>1 DEF FetchesAreRecent, Fetching, OthersStay
<1>7. AnswersAreRecent'
  <2>1. ASSUME pc'[t] = "recording", kid'[t] \in served'
        PROVE  began'[t] <= changed'[kid'[t]]
    <3>1. kid[t] \in served /\ kid[t] \in Kids /\ kid[t] \notin got[t] /\ got[t] # Degraded
      BY <1>1, <1>3, <2>1 DEF TypeOK
    <3> QED
      BY <1>1, <1>3, <2>1, <3>1 DEF AnswersAreRecent
  <2> QED
    BY <1>1, <1>2, <1>3, <2>1 DEF AnswersAreRecent, OthersStay
<1>8. CachedSetIsRecent'
  <2>1. ASSUME NEW k \in Kids, got[t] # Degraded, k \in got[t], k \notin served
        PROVE  now <= changed[k] + FetchTime
    <3>1. began[t] <= changed[k] /\ now <= began[t] + FetchTime
      BY <1>1, <2>1 DEF AnswersAreRecent, FetchesAreRecent, Fetching
    <3>2. began[t] \in Nat /\ changed[k] \in Nat /\ FetchTime \in Nat
      BY VerifierAssumption DEF TypeOK
    <3> QED
      BY <1>1, <3>1, <3>2
  <2> QED
    BY <1>1, <2>1 DEF CachedSetIsRecent
<1> QED
  BY <1>4, <1>5, <1>6, <1>7, <1>8

\* A fetch that fails changes no entry and brings no key set.
LEMMA FetchFailsStep ==
  ASSUME IInv, NEW t \in Threads, FetchFails(t)
  PROVE  IInv'
<1> USE DEF IInv
<1>1. /\ ThreadsOK /\ UNCHANGED <<now, served, changed, unknown>>
      /\ jwks' \in {jwks, NoSet} /\ got' = [got EXCEPT ![t] = {}]
  BY DEF FetchFails, TypeOK, ThreadsOK, issuer
<1>2. /\ got' \in [Threads -> KeySet] /\ \A u \in Threads \ {t} : got'[u] = got[u]
  BY <1>1 DEF TypeOK, KeySet
<1>3. ThreadsOK' /\ OthersStay(t) /\ pc'[t] = "idle"
  BY <1>1, Ends DEF FetchFails
<1>4. NearestDeadlineFirst' /\ EntriesExpire' /\ CachedSetIsRecent'
  BY <1>1 DEF NearestDeadlineFirst, EntriesExpire, CachedSetIsRecent
<1>5. TypeOK'
  BY <1>1, <1>2, <1>3 DEF TypeOK, ThreadsOK
<1>6. FetchesAreRecent'
  BY <1>1, <1>3 DEF FetchesAreRecent, Fetching, OthersStay
<1>7. AnswersAreRecent'
  BY <1>1, <1>2, <1>3 DEF AnswersAreRecent, OthersStay
<1> QED
  BY <1>4, <1>5, <1>6, <1>7

\* Every entry's deadline is a time.
LEMMA DeadlinesAreTimes ==
  ASSUME unknown \in Seq(Entry)
  PROVE  \A i \in 1..Len(unknown) : unknown[i].deadline \in Nat
<1>1. \A i \in 1..Len(unknown) : unknown[i] \in Entry
  BY LenProperties
<1> QED
  BY <1>1 DEF Entry

\* A publication or a removal happens now, after all that was fetched and recorded.
LEMMA RotateStep ==
  ASSUME IInv, NEW k \in Rotated, Rotate(k)
  PROVE  IInv'
<1> USE DEF IInv
<1>1. /\ k \in Kids /\ now \in 0..MaxTime /\ now \in Nat
      /\ UnknownTtl \in Nat /\ FetchTime \in Nat
      /\ UNCHANGED <<now, jwks, unknown, pc, kid, began, got, verdict>>
  BY VerifierAssumption DEF TypeOK, Rotate
<1>2. /\ changed' \in [Kids -> 0..MaxTime] /\ changed'[k] = now
      /\ \A q \in Kids \ {k} : changed'[q] = changed[q]
  BY <1>1 DEF Rotate, TypeOK
<1>3. served' \subseteq Kids /\ \A q \in Kids \ {k} : q \in served' <=> q \in served
  BY <1>1 DEF Rotate, TypeOK
<1>4. TypeOK'
  BY <1>1, <1>2, <1>3 DEF TypeOK
<1>5. NearestDeadlineFirst'
  BY <1>1 DEF NearestDeadlineFirst
<1>6. EntriesExpire'
  <2> SUFFICES ASSUME NEW i \in 1..Len(unknown), unknown[i].kid \in served'
               PROVE  unknown[i].deadline <= changed'[unknown[i].kid] + FetchTime + UnknownTtl
    BY <1>1 DEF EntriesExpire
  <2>1. CASE unknown[i].kid = k
    <3>1. unknown[i].deadline <= now + UnknownTtl /\ unknown[i].deadline \in Nat
      BY DeadlinesAreTimes DEF EntriesExpire, TypeOK
    <3>2. now + UnknownTtl <= now + FetchTime + UnknownTtl
      BY <1>1
    <3> QED
      BY <1>1, <1>2, <2>1, <3>1, <3>2
  <2>2. CASE unknown[i].kid # k
    BY <1>2, <1>3, <2>2 DEF EntriesExpire
  <2> QED
    BY <2>1, <2>2
<1>7. FetchesAreRecent'
  <2>1. \A q \in Kids : changed'[q] <= now
    <3> TAKE q \in Kids
    <3>1. CASE q = k
      BY <1>1, <1>2, <3>1
    <3>2. CASE q # k
      BY <1>2, <3>2 DEF FetchesAreRecent
    <3> QED
      BY <3>1, <3>2
  <2> QED
    BY <1>1, <2>1 DEF FetchesAreRecent
<1>8. AnswersAreRecent'
  <2>1. \A t \in Threads : pc[t] \in Fetching \cup {"recording"} => began[t] <= now
    BY DEF FetchesAreRecent
  <2>2. ASSUME NEW t \in Threads, pc[t] \in {"answered", "refreshed"}, got[t] # Degraded,
               NEW q \in Kids, (q \in got[t] /\ q \notin served') \/ (q \notin got[t] /\ q \in served')
        PROVE  began[t] <= changed'[q]
    <3>1. CASE q = k
      BY <1>2, <2>1, <2>2, <3>1 DEF Fetching
    <3>2. CASE q # k
      BY <1>2, <1>3, <2>2, <3>2 DEF AnswersAreRecent
    <3> QED
      BY <3>1, <3>2
  <2>3. ASSUME NEW t \in Threads, pc[t] = "recording", kid[t] \in served'
        PROVE  began[t] <= changed'[kid[t]]
    <3>1. CASE kid[t] = k
      BY <1>2, <2>1, <2>3, <3>1
    <3>2. CASE kid[t] # k
      BY <1>2, <1>3, <2>3, <3>2 DEF AnswersAreRecent
    <3> QED
      BY <3>1, <3>2
  <2> QED
    BY <1>1, <2>2, <2>3 DEF AnswersAreRecent
<1>9. CachedSetIsRecent'
  <2> SUFFICES ASSUME jwks # NoSet
               PROVE  /\ jwks.at <= now
                      /\ jwks.set # Degraded =>
                           \A q \in Kids : q \in jwks.set /\ q \notin served' =>
                             jwks.at <= changed'[q] + FetchTime
    BY <1>1 DEF CachedSetIsRecent
  <2>1. jwks.at <= now /\ jwks.at \in Nat
    BY DEF CachedSetIsRecent, TypeOK
  <2>2. jwks.at <= now + FetchTime
    BY <1>1, <2>1
  <2>3. ASSUME jwks.set # Degraded, NEW q \in Kids, q \in jwks.set, q \notin served'
        PROVE  jwks.at <= changed'[q] + FetchTime
    <3>1. CASE q = k
      BY <1>2, <2>2, <3>1
    <3>2. CASE q # k
      BY <1>2, <1>3, <2>3, <3>2 DEF CachedSetIsRecent
    <3> QED
      BY <3>1, <3>2
  <2> QED
    BY <2>1, <2>3
<1> QED
  BY <1>4, <1>5, <1>6, <1>7, <1>8, <1>9

\* Time passes, but no fetch and no recording outlives FetchTime.
LEMMA TickStep ==
  ASSUME IInv, Tick
  PROVE  IInv'
<1> USE DEF IInv
<1>1. /\ now \in Nat /\ MaxTime \in Nat /\ now < MaxTime /\ now' = now + 1
      /\ UnknownTtl \in Nat /\ FetchTime \in Nat
      /\ UNCHANGED <<served, changed, jwks, unknown, pc, kid, began, got, verdict>>
      /\ \A t \in Threads : pc[t] \in Fetching \cup {"recording"} => now < began[t] + FetchTime
  BY VerifierAssumption DEF TypeOK, Tick, issuer
<1>2. TypeOK'
  <2>1. now' \in 0..MaxTime
    BY <1>1
  <2> QED
    BY <1>1, <2>1 DEF TypeOK
<1>3. NearestDeadlineFirst'
  BY <1>1 DEF NearestDeadlineFirst
<1>4. EntriesExpire'
  <2>1. \A i \in 1..Len(unknown) :
          unknown[i].deadline \in Nat /\ unknown[i].deadline <= now + UnknownTtl
    BY DeadlinesAreTimes DEF TypeOK, EntriesExpire
  <2>2. \A i \in 1..Len(unknown) : unknown[i].deadline <= now + 1 + UnknownTtl
    BY <1>1, <2>1
  <2> QED
    BY <1>1, <2>2 DEF EntriesExpire
<1>5. FetchesAreRecent'
  <2>1. \A q \in Kids : changed[q] \in Nat /\ changed[q] <= now
    BY DEF TypeOK, FetchesAreRecent
  <2>2. \A t \in Threads : began[t] \in Nat
    BY DEF TypeOK
  <2>3. \A q \in Kids : changed[q] <= now + 1
    BY <1>1, <2>1
  <2>4. \A t \in Threads : pc[t] \in Fetching \cup {"recording"} =>
          began[t] <= now + 1 /\ now + 1 <= began[t] + FetchTime
    BY <1>1, <2>2 DEF FetchesAreRecent
  <2> QED
    BY <1>1, <2>3, <2>4 DEF FetchesAreRecent
<1>6. AnswersAreRecent'
  BY <1>1 DEF AnswersAreRecent
<1>7. CachedSetIsRecent'
  <2>1. jwks # NoSet => jwks.at \in Nat /\ jwks.at <= now
    BY DEF TypeOK, CachedSetIsRecent
  <2>2. jwks # NoSet => jwks.at <= now + 1
    BY <1>1, <2>1
  <2> QED
    BY <1>1, <2>2 DEF CachedSetIsRecent
<1> QED
  BY <1>2, <1>3, <1>4, <1>5, <1>6, <1>7

-----------------------------------------------------------------------------
(* The invariant.                                                          *)

\* An empty cache, idle threads, a key set that is what is served.
LEMMA Initially == Init => IInv
<1> SUFFICES ASSUME Init
             PROVE  IInv
  OBVIOUS
<1>1. 0 \in 0..MaxTime /\ 0 <= 0 + FetchTime
  BY VerifierAssumption
<1>2. unknown \in Seq(Entry) /\ Len(unknown) = 0 /\ 0 <= CacheSize
  BY VerifierAssumption DEF Init
<1>3. TypeOK
  <2>1. jwks \in [set : KeySet, at : 0..MaxTime]
    BY <1>1 DEF Init, KeySet
  <2> QED
    BY <1>1, <1>2, <2>1 DEF Init, TypeOK, KeySet
<1>4. NearestDeadlineFirst /\ EntriesExpire
  BY <1>2 DEF NearestDeadlineFirst, EntriesExpire
<1>5. FetchesAreRecent /\ AnswersAreRecent
  BY <1>1 DEF Init, FetchesAreRecent, AnswersAreRecent, Fetching
<1>6. CachedSetIsRecent
  BY <1>1 DEF Init, CachedSetIsRecent
<1> QED
  BY <1>3, <1>4, <1>5, <1>6 DEF IInv

\* Every step preserves the invariant.
LEMMA Inductive == IInv /\ [Next]_vars => IInv'
<1> SUFFICES ASSUME IInv, [Next]_vars
             PROVE  IInv'
  OBVIOUS
<1>1. ASSUME NEW t \in Threads, NEW k \in Kids \cup {Absent}, Begin(t, k) PROVE IInv'
  BY <1>1, BeginStep
<1>2. ASSUME NEW t \in Threads, Check(t) PROVE IInv'
  BY <1>2, CheckStep
<1>3. ASSUME NEW t \in Threads, Record(t) PROVE IInv'
  BY <1>3, RecordStep
<1>4. ASSUME NEW t \in Threads, ReadKeys(t) PROVE IInv'
  BY <1>4, ReadKeysStep
<1>5. ASSUME NEW t \in Threads, Serve(t) PROVE IInv'
  BY <1>5, ServeStep
<1>6. ASSUME NEW t \in Threads, Receive(t) PROVE IInv'
  BY <1>6, ReceiveStep
<1>7. ASSUME NEW t \in Threads, FetchFails(t) PROVE IInv'
  BY <1>7, FetchFailsStep
<1>8. ASSUME NEW k \in Rotated, Rotate(k) PROVE IInv'
  BY <1>8, RotateStep
<1>9. CASE Tick
  BY <1>9, TickStep
<1>10. CASE UNCHANGED vars
  BY <1>10 DEF vars, issuer, IInv, TypeOK, NearestDeadlineFirst, EntriesExpire,
               FetchesAreRecent, AnswersAreRecent, CachedSetIsRecent
<1> QED
  BY <1>1, <1>2, <1>3, <1>4, <1>5, <1>6, <1>7, <1>8, <1>9, <1>10 DEF Next

\* What the theorems below rest on: what is cached and what was answered is never
\* older than the timeouts of the code allow.
THEOREM Invariance == Spec => []IInv
BY Initially, Inductive, PTL DEF Spec

\* The cache never holds more than its configured size, nor two entries for one key
\* id, whatever the order in which threads check and record; the threads' stages and
\* the cached key set are of their types.
THEOREM TypeCorrect == Spec => []TypeOK
<1>1. IInv => TypeOK
  BY DEF IInv
<1> QED
  BY <1>1, Invariance, PTL

\* OrderedDict.popitem(last=False) evicts the entry nearest its deadline, in every
\* interleaving of the threads' recordings.
THEOREM EvictionsAreNearest == Spec => []NearestDeadlineFirst
<1>1. IInv => NearestDeadlineFirst
  BY DEF IInv
<1> QED
  BY <1>1, Invariance, PTL

-----------------------------------------------------------------------------
(* Verdicts.                                                               *)

\* The verdict of a token whose verification a step ends is that step's.
LEMMA EndsAlone ==
  ASSUME IInv, NEW t \in Threads, NEW u \in Threads, OthersStay(u),
         pc[t] # "idle", pc'[t] = "idle"
  PROVE  t = u
BY DEF OthersStay

\* A token is refused only for a live entry of the cache, or by a recording.
LEMMA RefusedByCacheOrFetch ==
  ASSUME IInv, [Next]_vars, NEW t \in Threads,
         pc[t] # "idle", pc'[t] = "idle", verdict'[t] = "refused"
  PROVE  \/ \E i \in 1..Len(unknown) : unknown[i].kid = kid[t] /\ Live(unknown[i])
         \/ pc[t] = "recording"
<1>1. ThreadsOK /\ now \in 0..MaxTime
  BY DEF IInv, TypeOK, ThreadsOK
<1>2. ASSUME NEW u \in Threads, NEW k \in Kids \cup {Absent}, Begin(u, k) PROVE FALSE
  BY <1>1, <1>2 DEF Begin, ThreadsOK
<1>3. ASSUME NEW u \in Threads, NEW v \in {"accepted", "unverified"}, End(u, v) PROVE FALSE
  BY <1>1, <1>3, Ends, EndsAlone
<1>4. ASSUME NEW u \in Threads,
             NEW stage \in {"reading", "recording"} \cup Fetching, Go(u, stage)
      PROVE  FALSE
  BY <1>1, <1>4, Goes, EndsAlone DEF Fetching
<1>5. ASSUME NEW u \in Threads, NEW stage \in Fetching, Fetch(u, stage) PROVE FALSE
  BY <1>1, <1>5, Fetches, EndsAlone DEF Fetching
<1>6. ASSUME NEW u \in Threads, Check(u)
      PROVE  \E i \in 1..Len(unknown) : unknown[i].kid = kid[t] /\ Live(unknown[i])
  <2>1. CASE End(u, "refused")
    <3>1. t = u
      BY <1>1, <2>1, Ends, EndsAlone
    <3>2. pc'[t] # "reading"
      OBVIOUS
    <3>3. ~Go(t, "reading")
      BY <1>1, <3>2, Goes
    <3> QED
      BY <1>6, <3>1, <3>3 DEF Check
  <2>2. CASE Go(u, "reading")
    BY <1>4, <2>2
  <2> QED
    BY <1>6, <2>1, <2>2 DEF Check
<1>7. ASSUME NEW u \in Threads, Record(u) PROVE pc[t] = "recording"
  BY <1>1, <1>7, Ends, EndsAlone DEF Record
<1>8. ASSUME NEW u \in Threads, ReadKeys(u) PROVE FALSE
  BY <1>3, <1>5, <1>8 DEF ReadKeys, Match, Decode, Fetching
<1>9. ASSUME NEW u \in Threads, Serve(u) PROVE FALSE
  BY <1>4, <1>9 DEF Serve, Fetching
<1>10. ASSUME NEW u \in Threads, Receive(u) PROVE FALSE
  BY <1>3, <1>4, <1>5, <1>10 DEF Receive, Match, Decode, Fetching
<1>11. ASSUME NEW u \in Threads, FetchFails(u) PROVE FALSE
  BY <1>3, <1>11 DEF FetchFails
<1>12. ASSUME UNCHANGED pc PROVE FALSE
  BY <1>12
<1> QED
  BY <1>2, <1>6, <1>7, <1>8, <1>9, <1>10, <1>11, <1>12 DEF Next, Rotate, Tick, vars

\* A token is accepted only by a match in a fresh cached set or in an answer.
LEMMA AcceptedByAMatch ==
  ASSUME IInv, [Next]_vars, NEW t \in Threads,
         pc[t] # "idle", pc'[t] = "idle", verdict'[t] = "accepted"
  PROVE  \/ pc[t] = "reading" /\ Fresh /\ jwks.set # Degraded /\ kid[t] \in jwks.set
         \/ pc[t] \in {"answered", "refreshed"} /\ got[t] # Degraded /\ kid[t] \in got[t]
<1>1. ThreadsOK /\ now \in 0..MaxTime
  BY DEF IInv, TypeOK, ThreadsOK
<1>2. ASSUME NEW u \in Threads, NEW k \in Kids \cup {Absent}, Begin(u, k) PROVE FALSE
  BY <1>1, <1>2 DEF Begin, ThreadsOK
<1>3. ASSUME NEW u \in Threads, NEW v \in {"refused", "unverified"}, End(u, v) PROVE FALSE
  BY <1>1, <1>3, Ends, EndsAlone
<1>4. ASSUME NEW u \in Threads,
             NEW stage \in {"reading", "recording"} \cup Fetching, Go(u, stage)
      PROVE  FALSE
  BY <1>1, <1>4, Goes, EndsAlone DEF Fetching
<1>5. ASSUME NEW u \in Threads, NEW stage \in Fetching, Fetch(u, stage) PROVE FALSE
  BY <1>1, <1>5, Fetches, EndsAlone DEF Fetching
<1>6. ASSUME NEW u \in Threads, Decode(u) PROVE t = u
  <2>1. PICK v \in {"accepted", "refused", "unverified"} : End(u, v)
    BY <1>6, Decodes
  <2> QED
    BY <1>1, <2>1, Ends, EndsAlone
<1>7. ASSUME NEW u \in Threads, Check(u) \/ Record(u) \/ Serve(u) \/ FetchFails(u) PROVE FALSE
  BY <1>3, <1>4, <1>7 DEF Check, Record, Serve, FetchFails, Fetching
<1>8. ASSUME NEW u \in Threads, ReadKeys(u)
      PROVE  pc[t] = "reading" /\ Fresh /\ jwks.set # Degraded /\ kid[t] \in jwks.set
  BY <1>3, <1>5, <1>6, <1>8 DEF ReadKeys, Match, Fetching
<1>9. ASSUME NEW u \in Threads, Receive(u)
      PROVE  pc[t] \in {"answered", "refreshed"} /\ got[t] # Degraded /\ kid[t] \in got[t]
  BY <1>3, <1>4, <1>5, <1>6, <1>9 DEF Receive, Match, Fetching
<1>10. ASSUME UNCHANGED pc PROVE FALSE
  BY <1>10
<1> QED
  BY <1>2, <1>7, <1>8, <1>9, <1>10 DEF Next, Rotate, Tick, vars

\* A key id is refused as unknown only for a bounded time after its publication: by
\* an entry of the negative cache, whose deadline a record set from a fetch begun
\* before the publication, or by such a fetch itself.
THEOREM PublishedKeysAreKnown == Spec => PublishedIsKnown
<1>1. IInv /\ [Next]_vars =>
        [\A t \in Threads :
           pc[t] # "idle" /\ pc'[t] = "idle" /\ verdict'[t] = "refused" /\ kid[t] \in served
             => now < changed[kid[t]] + FetchTime + UnknownTtl
                  \/ now <= changed[kid[t]] + FetchTime]_vars
  <2> SUFFICES ASSUME IInv, [Next]_vars, NEW t \in Threads,
                      pc[t] # "idle", pc'[t] = "idle", verdict'[t] = "refused",
                      kid[t] \in served
               PROVE  now < changed[kid[t]] + FetchTime + UnknownTtl
                        \/ now <= changed[kid[t]] + FetchTime
    OBVIOUS
  <2>1. /\ now \in Nat /\ changed[kid[t]] \in Nat /\ began[t] \in Nat
        /\ FetchTime \in Nat /\ UnknownTtl \in Nat
    BY VerifierAssumption DEF IInv, TypeOK
  <2>2. CASE \E i \in 1..Len(unknown) : unknown[i].kid = kid[t] /\ Live(unknown[i])
    <3>1. PICK i \in 1..Len(unknown) : unknown[i].kid = kid[t] /\ unknown[i].deadline > now
      BY <2>2 DEF Live
    <3>2. /\ unknown[i].deadline \in Nat
          /\ unknown[i].deadline <= changed[kid[t]] + FetchTime + UnknownTtl
      BY <3>1, DeadlinesAreTimes DEF IInv, TypeOK, EntriesExpire
    <3> QED
      BY <2>1, <3>1, <3>2
  <2>3. CASE pc[t] = "recording"
    <3>1. began[t] <= changed[kid[t]] /\ now <= began[t] + FetchTime
      BY <2>3 DEF IInv, AnswersAreRecent, FetchesAreRecent
    <3> QED
      BY <2>1, <3>1
  <2> QED
    BY <2>2, <2>3, RefusedByCacheOrFetch
<1> QED
  BY <1>1, Invariance, PTL DEF Spec, PublishedIsKnown

\* A key the issuer has pulled verifies no token once the key set fetched before
\* that has expired, although PyJWKClient may replace a newer set by the late answer
\* to an older fetch.
THEOREM PulledKeysAreDropped == Spec => PulledIsDropped
<1>1. IInv /\ [Next]_vars =>
        [\A t \in Threads :
           pc[t] # "idle" /\ pc'[t] = "idle" /\ verdict'[t] = "accepted" /\ kid[t] \notin served
             => now <= changed[kid[t]] + FetchTime + KeysTtl]_vars
  <2> SUFFICES ASSUME IInv, [Next]_vars, NEW t \in Threads,
                      pc[t] # "idle", pc'[t] = "idle", verdict'[t] = "accepted",
                      kid[t] \notin served
               PROVE  now <= changed[kid[t]] + FetchTime + KeysTtl
    OBVIOUS
  <2>1. now \in Nat /\ began[t] \in Nat /\ FetchTime \in Nat /\ KeysTtl \in Nat
    BY VerifierAssumption DEF IInv, TypeOK
  <2>2. CASE Fresh /\ jwks.set # Degraded /\ kid[t] \in jwks.set
    <3>1. jwks # NoSet /\ now <= jwks.at + KeysTtl
      BY <2>2 DEF Fresh
    <3>2. jwks.at \in Nat /\ jwks.set \subseteq Kids
      BY <2>2, <3>1 DEF IInv, TypeOK, KeySet
    <3>3. jwks.at <= changed[kid[t]] + FetchTime /\ changed[kid[t]] \in Nat
      BY <2>2, <3>1, <3>2 DEF IInv, TypeOK, CachedSetIsRecent
    <3> QED
      BY <2>1, <3>1, <3>2, <3>3
  <2>3. CASE pc[t] \in {"answered", "refreshed"} /\ got[t] # Degraded /\ kid[t] \in got[t]
    <3>1. got[t] \subseteq Kids
      BY <2>3 DEF IInv, TypeOK, KeySet
    <3>2. kid[t] \in Kids /\ changed[kid[t]] \in Nat
      BY <2>3, <3>1 DEF IInv, TypeOK
    <3>3. began[t] <= changed[kid[t]] /\ now <= began[t] + FetchTime
      BY <2>3, <3>2 DEF IInv, AnswersAreRecent, FetchesAreRecent, Fetching
    <3> QED
      BY <2>1, <3>2, <3>3
  <2> QED
    BY <2>2, <2>3, AcceptedByAMatch
<1> QED
  BY <1>1, Invariance, PTL DEF Spec, PulledIsDropped
=============================================================================
