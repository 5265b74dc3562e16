----------------------------- MODULE JwtVerifier -----------------------------
(***************************************************************************)
(* JWTVerifier: the worker threads that verify tokens, the negative cache  *)
(* of unknown key ids they share under a lock, and the cached key set of   *)
(* PyJWKClient, while the issuer publishes and pulls keys and its endpoint *)
(* may fail. Between the lock's sections threads run in any order; a fetch *)
(* is answered at one instant and seen by its thread at a later one.       *)
(***************************************************************************)
EXTENDS Integers, Sequences, FiniteSets

CONSTANTS
  Threads,     \* worker threads
  Kids,        \* the key ids tokens name; the issuer always serves others too
  Rotated,     \* those it publishes or pulls while the service runs
  Absent,      \* _ABSENT_KID_SENTINEL
  NoSet,       \* PyJWKClient holds no key set
  Degraded,    \* a key set without usable keys
  UnknownTtl,  \* unknown_kid_ttl_seconds
  CacheSize,   \* unknown_kid_cache_size
  KeysTtl,     \* cache_ttl_seconds
  FetchTime,   \* bound: a fetch, and the recording that follows it, take no longer
  MaxTime      \* bound: the clock stops here

KeySet == {Degraded} \cup SUBSET Kids

ASSUME VerifierAssumption ==
  /\ Rotated \subseteq Kids /\ Absent \notin Kids
  /\ UnknownTtl \in Nat /\ CacheSize \in Nat /\ KeysTtl \in Nat
  /\ FetchTime \in Nat /\ MaxTime \in Nat
  /\ \A set \in SUBSET Kids : Degraded # set
  /\ NoSet \notin [set : KeySet, at : 0..MaxTime]

VARIABLES
  now,      \* time.monotonic()
  served,   \* the key ids the endpoint serves
  changed,  \* when each key was last published or pulled
  jwks,     \* PyJWKClient's cached key set, and when it was put there
  unknown,  \* _unknown_kids: key ids with their deadlines, oldest first
  pc,       \* where each thread is
  kid,      \* the key id of its token
  began,    \* when its fetch began
  got,      \* what its fetch was answered
  verdict   \* how its last token ended

issuer == <<served, changed>>
vars == <<now, issuer, jwks, unknown, pc, kid, began, got, verdict>>

Fetching == {"fetching", "answered", "refreshing", "refreshed"}
Entry == [kid : Kids \cup {Absent}, deadline : Nat]

TypeOK ==
  /\ now \in 0..MaxTime
  /\ served \subseteq Kids /\ changed \in [Kids -> 0..MaxTime]
  /\ jwks \in [set : KeySet, at : 0..MaxTime] \cup {NoSet}
  /\ unknown \in Seq(Entry) /\ Len(unknown) <= CacheSize
  /\ \A i, j \in 1..Len(unknown) : i # j => unknown[i].kid # unknown[j].kid
  /\ pc \in [Threads -> {"idle", "checking", "reading", "recording"} \cup Fetching]
  /\ kid \in [Threads -> Kids \cup {Absent}]
  /\ began \in [Threads -> 0..MaxTime] /\ got \in [Threads -> KeySet]
  /\ verdict \in [Threads -> {"none", "accepted", "refused", "unverified"}]

\* The constructor has fetched the keys, or the application has not started.
Init ==
  /\ now = 0
  /\ served \in SUBSET Kids
  /\ changed = [k \in Kids |-> 0]
  /\ jwks = [set |-> served, at |-> 0]
  /\ unknown = <<>>
  /\ pc = [t \in Threads |-> "idle"] /\ kid = [t \in Threads |-> Absent]
  /\ began = [t \in Threads |-> 0] /\ got = [t \in Threads |-> {}]
  /\ verdict = [t \in Threads |-> "none"]

-----------------------------------------------------------------------------
(* Ends of verify.                                                         *)

Move(t, stage) == pc' = [pc EXCEPT ![t] = stage] /\ UNCHANGED <<kid, verdict>>

Go(t, stage) == Move(t, stage) /\ UNCHANGED began

\* "unverified": refused for a reason that says nothing about the key id.
End(t, v) ==
  /\ pc' = [pc EXCEPT ![t] = "idle"]
  /\ kid' = [kid EXCEPT ![t] = Absent]
  /\ began' = [began EXCEPT ![t] = 0]
  /\ verdict' = [verdict EXCEPT ![t] = v]

\* jwt.decode and claims_from_payload, with the key that matched.
Decode(t) == \E v \in {"accepted", "unverified"} : End(t, v)

Fetch(t, stage) == Move(t, stage) /\ began' = [began EXCEPT ![t] = now]

-----------------------------------------------------------------------------
(* The negative cache.                                                     *)

Live(e) == e.deadline > now

\* The place of the n-th of `places`.
Nth(places, n) ==
  CHOOSE i \in places : Cardinality({j \in places : j <= i}) = n

\* What is left of the cache when only the entries at `places` stay.
Keeping(places) ==
  [n \in 1..Cardinality(places) |-> unknown[Nth(places, n)]]

Others(k) == {i \in 1..Len(unknown) : unknown[i].kid # k}

LivePlaces == {i \in 1..Len(unknown) : Live(unknown[i])}

Begin(t, k) ==
  /\ pc[t] = "idle"
  /\ pc' = [pc EXCEPT ![t] = "checking"]
  /\ kid' = [kid EXCEPT ![t] = k]
  /\ verdict' = [verdict EXCEPT ![t] = "none"]
  /\ UNCHANGED <<now, issuer, jwks, unknown, began, got>>

\* _is_known_unknown: a dead entry is removed in passing.
Check(t) ==
  /\ pc[t] = "checking"
  /\ IF \E i \in 1..Len(unknown) : unknown[i].kid = kid[t] /\ Live(unknown[i])
       THEN End(t, "refused") /\ UNCHANGED unknown
       ELSE Go(t, "reading") /\ unknown' = Keeping(Others(kid[t]))
  /\ UNCHANGED <<now, issuer, jwks, got>>

\* Mutant: no eviction.
NewestAll(s) == s

\* The newest `CacheSize` entries of s.
Newest(s) == IF Len(s) > CacheSize THEN SubSeq(s, Len(s) - CacheSize + 1, Len(s)) ELSE s

\* Mutant: no move_to_end: an entry renewed keeps its place.
RenewedInPlace(k) ==
  LET e == [kid |-> k, deadline |-> now + UnknownTtl]
      live == Keeping(LivePlaces)
  IN IF \E i \in 1..Len(live) : live[i].kid = k
       THEN [i \in 1..Len(live) |-> IF live[i].kid = k THEN e ELSE live[i]]
       ELSE Append(live, e)

Renewed(k) ==
  Append(Keeping(Others(k) \cap LivePlaces), [kid |-> k, deadline |-> now + UnknownTtl])

\* _record_unknown: expired entries go, the renewed entry is the last.
Record(t) ==
  /\ pc[t] = "recording"
  /\ unknown' = IF UnknownTtl = 0 THEN unknown ELSE Newest(Renewed(kid[t]))
  /\ End(t, "refused")
  /\ UNCHANGED <<now, issuer, jwks, got>>

-----------------------------------------------------------------------------
(* PyJWKClient.get_signing_key.                                            *)

\* Mutant: the cached key set has no lifespan.
FreshForever == jwks # NoSet

Fresh == jwks # NoSet /\ now <= jwks.at + KeysTtl

\* A set without usable keys raises, and is not a definitive miss.
Match(t, set, otherwise) ==
  IF set = Degraded THEN End(t, "unverified")
  ELSE \/ kid[t] \in set /\ Decode(t)
       \/ kid[t] \notin set /\ otherwise

ReadKeys(t) ==
  /\ pc[t] = "reading"
  /\ IF Fresh THEN Match(t, jwks.set, Fetch(t, "refreshing"))
              ELSE Fetch(t, "fetching")
  /\ UNCHANGED <<now, issuer, jwks, unknown, got>>

\* The endpoint answers; a degraded answer has no usable keys.
Serve(t) ==
  /\ pc[t] \in {"fetching", "refreshing"}
  /\ Go(t, IF pc[t] = "fetching" THEN "answered" ELSE "refreshed")
  /\ \E set \in {served, Degraded} : got' = [got EXCEPT ![t] = set]
  /\ UNCHANGED <<now, issuer, jwks, unknown>>

\* The thread caches the answer and looks for its key; a first fetch that
\* misses is followed by a refresh.
Receive(t) ==
  /\ pc[t] \in {"answered", "refreshed"}
  /\ jwks' = [set |-> got[t], at |-> now]
  /\ got' = [got EXCEPT ![t] = {}]
  /\ Match(t, got[t], IF pc[t] = "answered"
                        THEN Fetch(t, "refreshing")
                        ELSE Go(t, "recording"))
  /\ UNCHANGED <<now, issuer, unknown>>

\* Mutant: a connection error is recorded like a miss.
FetchFailsRecorded(t) ==
  /\ pc[t] \in Fetching
  /\ Go(t, "recording")
  /\ UNCHANGED <<now, issuer, jwks, unknown, got>>

\* The fetch fails or times out, and may take the cached set with it.
FetchFails(t) ==
  /\ pc[t] \in Fetching
  /\ End(t, "unverified")
  /\ jwks' \in {jwks, NoSet}
  /\ got' = [got EXCEPT ![t] = {}]
  /\ UNCHANGED <<now, issuer, unknown>>

-----------------------------------------------------------------------------
(* The issuer and the clock.                                               *)

Rotate(k) ==
  /\ served' = IF k \in served THEN served \ {k} ELSE served \cup {k}
  /\ changed' = [changed EXCEPT ![k] = now]
  /\ UNCHANGED <<now, jwks, unknown, pc, kid, began, got, verdict>>

Tick ==
  /\ now < MaxTime
  /\ \A t \in Threads : pc[t] \in Fetching \cup {"recording"} => now < began[t] + FetchTime
  /\ now' = now + 1
  /\ UNCHANGED <<issuer, jwks, unknown, pc, kid, began, got, verdict>>

Next ==
  \/ \E t \in Threads :
       \/ \E k \in Kids \cup {Absent} : Begin(t, k)
       \/ Check(t) \/ Record(t) \/ ReadKeys(t)
       \/ Serve(t) \/ Receive(t) \/ FetchFails(t)
  \/ \E k \in Rotated : Rotate(k)
  \/ Tick

Spec == Init /\ [][Next]_vars

-----------------------------------------------------------------------------
(* Properties.                                                             *)

\* popitem(last=False) evicts the entry nearest its deadline, whatever the order
\* in which threads that missed together record: an eviction shortens the memory
\* of the key id that was going to be forgotten first.
NearestDeadlineFirst ==
  \A i, j \in 1..Len(unknown) : i < j => unknown[i].deadline <= unknown[j].deadline

\* A key is refused as unknown, by the cache or after a fetch, only for a bounded
\* time after it was published: a miss answered before the publication may be
\* recorded after it and holds for the entry's life, and no outage or
\* degraded answer of the endpoint, however long, adds to that.
PublishedIsKnown ==
  [][\A t \in Threads :
       pc[t] # "idle" /\ pc'[t] = "idle" /\ verdict'[t] = "refused" /\ kid[t] \in served
         => now < changed[kid[t]] + FetchTime + UnknownTtl
              \/ now <= changed[kid[t]] + FetchTime]_vars

\* A key the issuer has pulled is good for nothing once the key set fetched
\* before that has expired, although a late answer to an old fetch may
\* replace a newer set.
PulledIsDropped ==
  [][\A t \in Threads :
       pc[t] # "idle" /\ pc'[t] = "idle" /\ verdict'[t] = "accepted" /\ kid[t] \notin served
         => now <= changed[kid[t]] + FetchTime + KeysTtl]_vars
=============================================================================
