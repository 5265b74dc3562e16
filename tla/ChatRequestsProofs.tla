-------------------------- MODULE ChatRequestsProofs --------------------------
(***************************************************************************)
(* The safety properties of ChatRequests, and that its requests pass a     *)
(* gate that implements ExecutionGate, proved for every number of          *)
(* requests, users, chats, connections and places in the gate.             *)
(***************************************************************************)
EXTENDS ChatRequests, FiniteSetTheorems, TLAPS

-----------------------------------------------------------------------------
(* The inductive invariant.                                                *)

\* The stages of a request that has passed its limit and not ended.
Passed == {"admission", "answered"} \cup InGate

Creates(r) == pc[r] # "idle" /\ call[r].kind = "create"

\* A request that found its chat standing, and was not refused since.
Stood(r) ==
  /\ call[r].kind \in {"follow", "delete"}
  /\ pc[r] \in Passed \cup {"deleting"} \/ (pc[r] = "done" /\ answer[r] = "answered")

\* What a request is, and what it was told, at each stage.
StagesFollow ==
  \A r \in Requests :
    /\ pc[r] \in Passed => call[r].kind \in {"create", "follow"}
    /\ pc[r] = "deleting" => call[r].kind = "delete"
    /\ pc[r] \in {"answered", "deleting"} => answer[r] = "answered"
    /\ pc[r] \notin {"answered", "deleting", "done"} => answer[r] = "none"

\* A charge is committed just before the provider is called.
ChargesFollow ==
  \A r \in Requests :
    /\ r \in charged => pc[r] \in {"calling", "answered", "done"}
    /\ pc[r] \in {"calling", "answered"} => r \in charged

\* The id of a new chat is nobody else's, and is stored only by its request.
FreshIds ==
  /\ \A r \in Requests : Creates(r) =>
       /\ call[r].chat \notin Stored
       /\ \A q \in Requests : Creates(q) /\ call[q].chat = call[r].chat => q = r
       /\ pc[r] # "done" => owner[call[r].chat] = Nobody
  /\ \A c \in Chats : owner[c] # Nobody => c \in Stored \cup Named

\* Whoever found a chat standing found it after the request that created it.
StoodAfterCreated ==
  \A r, q \in Requests :
    Stood(r) /\ Creates(q) /\ call[q].chat = call[r].chat => pc[q] = "done"

\* The requests that may still add to a user's chats, to a chat's messages.
Creating(u) == {r \in At(Passed) : call[r].kind = "create" /\ call[r].user = u}
Following(c) == {r \in At(Passed) : call[r].kind = "follow" /\ call[r].chat = c}

\* What is stored and what is still to be added stay within the bounds.
LimitsHold ==
  /\ \A u \in Users :
       Cardinality(ChatsOf(u)) + Cardinality(Creating(u)) <= ChatsLimit - 1 + Connections
  /\ \A c \in Chats :
       messages[c] + Cardinality(Following(c)) <= MessagesLimit - 1 + Connections

PlacesHold == Cardinality(At(InGate)) <= Permits + QueueSize

IInv ==
  /\ TypeOK
  /\ StagesFollow /\ ChargesFollow
  /\ FreshIds /\ StoodAfterCreated
  /\ LimitsHold /\ PlacesHold
  /\ AnsweredIsKept /\ DeletedIsGone /\ ChargedIsServed

-----------------------------------------------------------------------------
(* Counting.                                                               *)

\* A request is somewhere only once.
LEMMA AtFinite ==
  ASSUME NEW S PROVE IsFiniteSet(At(S)) /\ Cardinality(At(S)) \in Nat
<1>1. At(S) \subseteq Requests
  BY DEF At
<1> QED  BY <1>1, ChatsAssumption, FS_Subset, FS_CardinalityType

\* Removing one from a set, adding one, replacing it by a part of itself.
LEMMA OneLess ==
  ASSUME NEW A, NEW r, NEW B, IsFiniteSet(A), B \subseteq A, r \in A, r \notin B
  PROVE  Cardinality(A) \in Nat /\ Cardinality(B) \in Nat /\ Cardinality(B) + 1 <= Cardinality(A)
<1>1. IsFiniteSet(A \ {r}) /\ Cardinality(A \ {r}) = Cardinality(A) - 1
  BY FS_RemoveElement
<1>2. IsFiniteSet(B) /\ Cardinality(B) <= Cardinality(A \ {r})
  BY <1>1, FS_Subset
<1> QED  BY <1>1, <1>2, FS_CardinalityType

\* A part of a finite set has no more elements.
LEMMA NoMore ==
  ASSUME NEW A, NEW B, IsFiniteSet(A), B \subseteq A
  PROVE  Cardinality(A) \in Nat /\ Cardinality(B) \in Nat /\ Cardinality(B) <= Cardinality(A)
BY FS_Subset, FS_CardinalityType

\* One element more, or none.
LEMMA OneMore ==
  ASSUME NEW A, NEW r, IsFiniteSet(A)
  PROVE  /\ Cardinality(A) \in Nat /\ Cardinality(A \cup {r}) \in Nat
         /\ Cardinality(A \cup {r}) <= Cardinality(A) + 1
<1>1. /\ IsFiniteSet(A \cup {r})
      /\ Cardinality(A \cup {r}) = IF r \in A THEN Cardinality(A) ELSE Cardinality(A) + 1
  BY FS_AddElement
<1>2. Cardinality(A) \in Nat /\ Cardinality(A \cup {r}) \in Nat
  BY <1>1, FS_CardinalityType
<1> QED  BY <1>1, <1>2

\* A request that moves is one less where it was and one more where it goes.
LEMMA MoveCounts ==
  ASSUME pc \in [Requests -> {"idle", "begin", "done"} \cup InSession],
         NEW r \in Requests, NEW q, pc' = [pc EXCEPT ![r] = q], NEW S
  PROVE  /\ Cardinality(At(S)) \in Nat /\ Cardinality(At(S)') \in Nat
         /\ Cardinality(At(S)') =
              Cardinality(At(S)) + (IF q \in S THEN 1 ELSE 0) - (IF pc[r] \in S THEN 1 ELSE 0)
<1>1. IsFiniteSet(At(S)) /\ Cardinality(At(S)) \in Nat
  BY AtFinite
<1>2. CASE q \in S /\ pc[r] \notin S
  <2>1. At(S)' = At(S) \cup {r} /\ r \notin At(S)
    BY <1>2 DEF At
  <2>2. Cardinality(At(S) \cup {r}) = Cardinality(At(S)) + 1
    BY <1>1, <2>1, FS_AddElement
  <2> QED  BY <1>1, <1>2, <2>1, <2>2
<1>3. CASE q \notin S /\ pc[r] \in S
  <2>1. At(S)' = At(S) \ {r} /\ r \in At(S)
    BY <1>3 DEF At
  <2>2. IsFiniteSet(At(S) \ {r}) /\ Cardinality(At(S) \ {r}) = Cardinality(At(S)) - 1
    BY <1>1, <2>1, FS_RemoveElement
  <2>3. Cardinality(At(S) \ {r}) \in Nat
    BY <2>2, FS_CardinalityType
  <2> QED  BY <1>1, <1>3, <2>1, <2>2, <2>3
<1>4. CASE q \in S <=> pc[r] \in S
  <2>1. At(S)' = At(S)
    BY <1>4 DEF At
  <2> QED  BY <1>1, <1>4, <2>1
<1> QED  BY <1>2, <1>3, <1>4

\* What a request holds of the pool: its session's connection, its charge's.
Held(p) == (IF p \in InSession THEN 1 ELSE 0) + (IF p = "charging" THEN 1 ELSE 0)

\* A step that takes no connection, or one that is free, keeps the pool.
LEMMA MoveInUse ==
  ASSUME TypeOK, NEW r \in Requests, NEW q, pc' = [pc EXCEPT ![r] = q],
         Held(q) <= Held(pc[r]) \/ (Held(q) <= Held(pc[r]) + 1 /\ Free)
  PROVE  InUse' <= Connections
<1> DEFINE C == {"charging"}  n == Cardinality(At(InSession))  m == Cardinality(At(C))
<1>1. /\ n \in Nat /\ n' \in Nat
      /\ n' = n + (IF q \in InSession THEN 1 ELSE 0) - (IF pc[r] \in InSession THEN 1 ELSE 0)
  BY MoveCounts DEF TypeOK
<1>2. /\ m \in Nat /\ m' \in Nat
      /\ m' = m + (IF q \in C THEN 1 ELSE 0) - (IF pc[r] \in C THEN 1 ELSE 0)
  <2> HIDE DEF C
  <2> QED  BY MoveCounts DEF TypeOK
<1>3. n + m <= Connections /\ (Free => n + m < Connections)
  BY DEF TypeOK, InUse, Free
<1>4. InUse' = n' + m'
  BY DEF InUse
<1>5. Connections \in Nat
  BY ChatsAssumption
<1> HIDE DEF n, m
<1> QED  BY <1>1, <1>2, <1>3, <1>4, <1>5 DEF Held

-----------------------------------------------------------------------------
(* Types.                                                                  *)

\* A request past its arrival carries a user and a chat.
LEMMA CallTyped ==
  ASSUME TypeOK, NEW r \in Requests, pc[r] # "idle"
  PROVE  call[r].kind \in Kind /\ call[r].user \in Users /\ call[r].chat \in Chats
<1>1. call[r] \in Call /\ call[r].kind \in Kind
  BY DEF TypeOK
<1>2. call[r] \in [kind : Kind, user : Users, chat : Chats]
  BY <1>1 DEF Call, Kind
<1> QED  BY <1>1, <1>2

\* The owned chats and the named ones leave an id for one more request.
LEMMA FreshChatFound ==
  ASSUME TypeOK, FreshIds, NEW r \in Requests, pc[r] = "idle"
  PROVE  FreshChat \in Chats /\ FreshChat \notin Stored \cup Named /\ owner[FreshChat] = Nobody
<1> DEFINE Q == {q \in Requests : pc[q] # "idle"}
<1>1. IsFiniteSet(Requests) /\ IsFiniteSet(Q) /\ Q \subseteq Requests /\ r \notin Q
  BY ChatsAssumption, FS_Subset
<1>2. Cardinality(Q) + 1 <= Cardinality(Requests) /\ Cardinality(Q) \in Nat /\ Cardinality(Requests) \in Nat
  BY <1>1, OneLess
<1>3. IsFiniteSet(Named) /\ Cardinality(Named) <= Cardinality(Q)
  <2>1. [q \in Q |-> call[q].chat] \in Surjection(Q, Named)
    BY DEF Surjection, Named
  <2> QED  BY <1>1, <2>1, FS_Surjection
<1>4. ~ (Chats \ Stored \subseteq Named)
  <2>1. SUFFICES ASSUME Chats \ Stored \subseteq Named PROVE FALSE
    OBVIOUS
  <2>2. Cardinality(Chats \ Stored) <= Cardinality(Named)
        /\ Cardinality(Chats \ Stored) \in Nat /\ Cardinality(Named) \in Nat
    BY <1>3, <2>1, NoMore
  <2> HIDE DEF Q
  <2> QED  BY <1>2, <1>3, <2>2, ChatsAssumption
<1>5. \E c \in Chats : c \notin Stored /\ owner[c] = Nobody /\ c \notin Named
  BY <1>4 DEF FreshIds
<1> QED  BY <1>5 DEF FreshChat

\* What beginning a request does.
LEMMA Begun ==
  ASSUME TypeOK, FreshIds, NEW r \in Requests, BeginCreate(r) \/ BeginOnChat(r)
  PROVE  /\ pc[r] = "idle" /\ pc' = [pc EXCEPT ![r] = "begin"]
         /\ UNCHANGED <<store, answer, charged, faulted>>
         /\ \E k \in Kind, u \in Users, c \in Chats :
              /\ call' = [call EXCEPT ![r] = [kind |-> k, user |-> u, chat |-> c]]
              /\ k = "create" => c = FreshChat
BY FreshChatFound DEF BeginCreate, BeginOnChat, Begin, Kind

\* Every step keeps the types, the count of pooled connections among them.
LEMMA TypeKept ==
  ASSUME IInv, [Next]_vars PROVE TypeOK'
<1> USE DEF IInv
<1>1. ASSUME NEW r \in Requests, NEW q \in {"begin", "done"} \cup InSession, NEW a \in Answer,
             pc' = [pc EXCEPT ![r] = q], answer' = [answer EXCEPT ![r] = a],
             Held(q) <= Held(pc[r]) \/ (Held(q) <= Held(pc[r]) + 1 /\ Free),
             owner' \in [Chats -> Users \cup {Nobody}], messages' \in [Chats -> Nat],
             call' \in [Requests -> Call], call'[r].kind \in Kind,
             \A s \in Requests \ {r} : call'[s] = call[s],
             charged' \subseteq Requests, kept' \subseteq Requests, faulted' \subseteq Requests
      PROVE  TypeOK'
  <2>1. InUse' <= Connections
    BY <1>1, MoveInUse
  <2> QED  BY <1>1, <2>1 DEF TypeOK
<1>2. ASSUME NEW r \in Requests, NEW q \in {"begin", "done"} \cup InSession, NEW a \in Answer,
             pc[r] # "idle", UNCHANGED call,
             pc' = [pc EXCEPT ![r] = q], answer' = [answer EXCEPT ![r] = a],
             Held(q) <= Held(pc[r]) \/ (Held(q) <= Held(pc[r]) + 1 /\ Free),
             owner' \in [Chats -> Users \cup {Nobody}], messages' \in [Chats -> Nat],
             charged' \subseteq Requests, kept' \subseteq Requests, faulted' \subseteq Requests
      PROVE  TypeOK'
  <2>1. call'[r].kind \in Kind
    BY <1>2 DEF TypeOK
  <2> QED  BY <1>1, <1>2, <2>1 DEF TypeOK
<1>3. \A r \in Requests : answer[r] \in Answer /\ answer = [answer EXCEPT ![r] = answer[r]]
  BY DEF TypeOK
<1>4. CASE UNCHANGED vars \/ Quiesce
  BY <1>4 DEF TypeOK, vars, store, Quiesce, InUse, At
<1>5. ASSUME NEW r \in Requests, BeginCreate(r) \/ BeginOnChat(r)
      PROVE  TypeOK'
  <2>1. PICK k \in Kind, u \in Users, c \in Chats :
          call' = [call EXCEPT ![r] = [kind |-> k, user |-> u, chat |-> c]]
    BY <1>5, Begun
  <2>2. /\ call' \in [Requests -> Call] /\ call'[r].kind \in Kind
        /\ \A s \in Requests \ {r} : call'[s] = call[s]
    BY <2>1 DEF TypeOK, Call
  <2>3. Held("begin") <= Held("idle")
    BY DEF Held, InSession, InGate
  <2> QED  BY <1>1, <1>3, <1>5, <2>2, <2>3, Begun DEF TypeOK, store
<1>6. ASSUME NEW r \in Requests, Connect(r) \/ OpenCharge(r)
      PROVE  TypeOK'
  <2>1. Held("connected") = 1 /\ Held("begin") = 0 /\ Held("admitted") = 1 /\ Held("charging") = 2
    BY DEF Held, InSession, InGate
  <2> QED  BY <1>2, <1>3, <1>6, <2>1 DEF Connect, OpenCharge, TypeOK, store, InSession, InGate
<1>7. \A p : Held("done") <= Held(p)
  BY DEF Held, InSession, InGate
<1>8. ASSUME NEW r \in Requests, PoolTimeout(r) \/ RefuseOpen(r) \/ RefuseFull(r) \/ CallFails(r)
      PROVE  TypeOK'
  BY <1>2, <1>7, <1>8 DEF PoolTimeout, RefuseOpen, RefuseFull, CallFails, Fail, TypeOK, store, Answer
<1>9. /\ Held("admission") <= Held("connected") /\ Held("deleting") <= Held("connected")
      /\ Held("answered") <= Held("calling")
  BY DEF Held, InSession, InGate
<1>10. ASSUME NEW r \in Requests, CountChats(r) \/ LoadChat(r)
       PROVE  TypeOK'
  <2>1. CASE pc[r] = "connected" /\ pc' = [pc EXCEPT ![r] = "admission"] /\ UNCHANGED <<store, call, answer, charged, faulted>>
    <3>1. "admission" \in InSession /\ Held("admission") <= Held(pc[r]) /\ pc[r] # "idle"
      BY <1>9, <2>1 DEF InSession
    <3> QED  BY <1>2, <1>3, <2>1, <3>1 DEF TypeOK, store
  <2>2. CASE \E a \in Answer : pc[r] = "connected" /\ Fail(r, a) /\ UNCHANGED <<charged, faulted>>
    <3>1. PICK a \in Answer : Fail(r, a)
      BY <2>2
    <3>2. pc[r] # "idle" /\ "done" \in {"begin", "done"} \cup InSession
      BY <2>2
    <3> QED  BY <1>2, <1>7, <2>2, <3>1, <3>2 DEF Fail, TypeOK, store
  <2> QED  BY <1>10, <2>1, <2>2 DEF CountChats, LoadChat, Answer
<1>11. ASSUME NEW r \in Requests, Enter(r) \/ Admit(r)
       PROVE  TypeOK'
  <2>1. PICK q \in {"queued", "admitted"} : pc' = [pc EXCEPT ![r] = q]
    BY <1>11 DEF Enter, Admit
  <2>2. pc[r] # "idle" /\ Held(q) <= Held(pc[r]) /\ UNCHANGED <<store, call, answer, charged, faulted>>
    BY <1>11, <2>1 DEF Enter, Admit, Held, InSession, InGate
  <2>3. q \in InSession
    BY <2>1 DEF InSession, InGate
  <2> QED  BY <1>2, <1>3, <2>1, <2>2, <2>3 DEF TypeOK, store
<1>12. ASSUME NEW r \in Requests, Charge(r)
       PROVE  TypeOK'
  <2>1. CASE pc' = [pc EXCEPT ![r] = "calling"] /\ charged' = charged \cup {r} /\ UNCHANGED <<store, call, answer>>
    <3>1. Held("calling") <= Held("charging") /\ "calling" \in InSession
      BY DEF Held, InSession, InGate
    <3>2. pc[r] = "charging" /\ UNCHANGED faulted
      BY <1>12, <2>1 DEF Charge, Fail
    <3>3. charged' \subseteq Requests
      BY <1>2, <2>1 DEF TypeOK
    <3> QED  BY <1>2, <1>3, <2>1, <3>1, <3>2, <3>3 DEF TypeOK, store
  <2>2. CASE Fail(r, "quota_exceeded") /\ UNCHANGED charged
    BY <1>2, <1>7, <1>12, <2>2 DEF Charge, Fail, TypeOK, store, Answer
  <2> QED  BY <1>12, <2>1, <2>2 DEF Charge
<1>13. ASSUME NEW r \in Requests, CallSucceeds(r)
       PROVE  TypeOK'
  BY <1>2, <1>9, <1>13 DEF CallSucceeds, TypeOK, store, Answer, InSession
<1>14. ASSUME NEW r \in Requests, PersistChat(r) \/ CommitDelete(r)
       PROVE  TypeOK'
  <2>1. call[r].user \in Users
    BY <1>14, CallTyped DEF PersistChat, CommitDelete
  <2>2. owner' \in [Chats -> Users \cup {Nobody}] /\ messages' \in [Chats -> Nat]
    BY <1>14, <2>1 DEF PersistChat, CommitDelete, TypeOK
  <2> QED  BY <1>2, <1>3, <1>7, <1>14, <2>2 DEF PersistChat, CommitDelete, TypeOK
<1>15. ASSUME NEW r \in Requests, PersistMessages(r)
       PROVE  TypeOK'
  <2>1. messages' \in [Chats -> Nat] /\ kept' \subseteq Requests
    BY <1>15 DEF PersistMessages, TypeOK
  <2> QED  BY <1>2, <1>3, <1>7, <1>15, <2>1 DEF PersistMessages, TypeOK
<1>16. ASSUME NEW r \in Requests, Delete(r)
       PROVE  TypeOK'
  <2>1. CASE pc' = [pc EXCEPT ![r] = "deleting"] /\ answer' = [answer EXCEPT ![r] = "answered"] /\ UNCHANGED <<store, call>>
    BY <1>2, <1>9, <1>16, <2>1 DEF Delete, TypeOK, store, Answer, InSession
  <2>2. CASE Fail(r, "invalid_chat")
    BY <1>2, <1>7, <1>16, <2>2 DEF Delete, Fail, TypeOK, store, Answer
  <2> QED  BY <1>16, <2>1, <2>2 DEF Delete
<1>17. ASSUME NEW r \in Requests, Interrupt(r)
       PROVE  TypeOK'
  <2>1. (IF answer[r] = "none" THEN "failed" ELSE answer[r]) \in Answer /\ pc[r] # "idle"
    BY <1>17 DEF Interrupt, TypeOK, Answer, InSession, InGate
  <2>2. answer' = [answer EXCEPT ![r] = IF answer[r] = "none" THEN "failed" ELSE answer[r]]
    BY <1>17 DEF Interrupt
  <2>3. faulted' \subseteq Requests /\ UNCHANGED <<owner, messages, kept, call, charged>>
    BY <1>17 DEF Interrupt, TypeOK, store
  <2>4. pc' = [pc EXCEPT ![r] = "done"]
    BY <1>17 DEF Interrupt
  <2> QED  BY <1>2, <1>7, <2>1, <2>2, <2>3, <2>4 DEF TypeOK
<1> QED
  BY <1>4, <1>5, <1>6, <1>8, <1>10, <1>11, <1>12, <1>13, <1>14, <1>15, <1>16, <1>17
  DEF Next, Advance

-----------------------------------------------------------------------------
(* What a request is told, and charged, as it goes.                        *)

Progress == StagesFollow /\ ChargesFollow /\ ChargedIsServed

\* Every step keeps what a request has behind it where it stands.
LEMMA ProgressKept ==
  ASSUME IInv, [Next]_vars PROVE Progress'
<1> USE DEF IInv
<1>1. CASE UNCHANGED vars \/ Quiesce
  BY <1>1 DEF vars, store, Quiesce, Progress, StagesFollow, ChargesFollow, ChargedIsServed
<1>2. ASSUME NEW r \in Requests, \A s \in Requests \ {r} :
               /\ pc'[s] = pc[s] /\ call'[s] = call[s] /\ answer'[s] = answer[s]
               /\ s \in charged' <=> s \in charged
               /\ s \in faulted' <=> s \in faulted,
             pc'[r] \in Passed => call'[r].kind \in {"create", "follow"},
             pc'[r] = "deleting" => call'[r].kind = "delete",
             pc'[r] \in {"answered", "deleting"} => answer'[r] = "answered",
             pc'[r] \notin {"answered", "deleting", "done"} => answer'[r] = "none",
             r \in charged' => pc'[r] \in {"calling", "answered", "done"},
             pc'[r] \in {"calling", "answered"} => r \in charged',
             pc'[r] = "done" /\ r \notin faulted' =>
               (r \in charged' <=> /\ call'[r].kind # "delete"
                                   /\ answer'[r] \in {"answered", "provider_error"})
      PROVE  Progress'
  <2>1. StagesFollow'
    BY <1>2 DEF StagesFollow
  <2>2. ChargesFollow'
    BY <1>2 DEF ChargesFollow
  <2>3. ChargedIsServed'
    BY <1>2 DEF ChargedIsServed
  <2> QED  BY <2>1, <2>2, <2>3 DEF Progress
<1> USE DEF TypeOK, StagesFollow, ChargesFollow, Passed, InGate, store
<1>3. ASSUME NEW r \in Requests, BeginCreate(r) \/ BeginOnChat(r)
      PROVE  Progress'
  BY <1>2, <1>3, Begun
<1>4. ASSUME NEW r \in Requests, Connect(r)
      PROVE  Progress'
  BY <1>2, <1>4 DEF Connect
<1>5. ASSUME NEW r \in Requests, PoolTimeout(r) \/ RefuseOpen(r) \/ RefuseFull(r) \/ CallFails(r)
      PROVE  Progress'
  BY <1>2, <1>5 DEF PoolTimeout, RefuseOpen, RefuseFull, CallFails, Fail
<1>6. ASSUME NEW r \in Requests, CountChats(r) \/ LoadChat(r)
      PROVE  Progress'
  BY <1>2, <1>6 DEF CountChats, LoadChat, Fail
<1>7. ASSUME NEW r \in Requests, Enter(r) \/ Admit(r) \/ OpenCharge(r)
      PROVE  Progress'
  BY <1>2, <1>7 DEF Enter, Admit, OpenCharge
<1>8. ASSUME NEW r \in Requests, Charge(r)
      PROVE  Progress'
  BY <1>2, <1>8 DEF Charge, Fail
<1>9. ASSUME NEW r \in Requests, CallSucceeds(r)
      PROVE  Progress'
  BY <1>2, <1>9 DEF CallSucceeds
<1>10. ASSUME NEW r \in Requests, PersistChat(r) \/ PersistMessages(r) \/ CommitDelete(r)
       PROVE  Progress'
  BY <1>2, <1>10 DEF PersistChat, PersistMessages, CommitDelete
<1>11. ASSUME NEW r \in Requests, Delete(r)
       PROVE  Progress'
  BY <1>2, <1>11 DEF Delete, Fail
<1>12. ASSUME NEW r \in Requests, Interrupt(r)
       PROVE  Progress'
  BY <1>2, <1>12 DEF Interrupt
<1> QED
  BY <1>1, <1>3, <1>4, <1>5, <1>6, <1>7, <1>8, <1>9, <1>10, <1>11, <1>12 DEF Next, Advance

-----------------------------------------------------------------------------
(* The ids of new chats, and who has found a chat standing.                *)

\* Every step keeps new ids new, and created chats owned.
LEMMA IdsKept ==
  ASSUME IInv, [Next]_vars PROVE FreshIds' /\ StoodAfterCreated'
<1> USE DEF IInv
<1>1. CASE UNCHANGED vars \/ Quiesce
  BY <1>1 DEF vars, store, Quiesce, FreshIds, StoodAfterCreated, Creates, Stood, Named
\* No request begins: the ids are whose they were.
<1>2. ASSUME NEW r \in Requests, NEW p, pc[r] # "idle", p # "idle", pc' = [pc EXCEPT ![r] = p],
             pc[r] # "done", UNCHANGED call,
             owner' \in [Chats -> Users \cup {Nobody}],
             \A c \in Chats : owner'[c] # owner[c] =>
               owner'[c] = Nobody \/ (p = "done" /\ Creates(r) /\ call[r].chat = c)
      PROVE  FreshIds'
  <2>1. \A q \in Requests : Creates(q)' <=> Creates(q)
    BY <1>2 DEF Creates, TypeOK
  <2>2. Named' = Named
    BY <1>2 DEF Named, TypeOK
  <2>3. ASSUME NEW q \in Requests, Creates(q), pc'[q] # "done"
        PROVE  owner'[call[q].chat] = Nobody
    <3>1. call[q].chat \in Chats /\ owner[call[q].chat] = Nobody
      BY <1>2, <2>3, CallTyped DEF TypeOK, FreshIds, Creates
    <3> QED  BY <1>2, <2>3, <3>1 DEF FreshIds, TypeOK
  <2>4. \A c \in Chats : owner'[c] # Nobody => c \in Stored \cup Named
    <3>1. Creates(r) => call[r].chat \in Named
      BY DEF Creates, Named
    <3> QED  BY <1>2, <3>1 DEF FreshIds
  <2> QED  BY <1>2, <2>1, <2>2, <2>3, <2>4 DEF FreshIds
<1>3. ASSUME NEW r \in Requests, NEW p, pc[r] # "idle", p # "idle", pc' = [pc EXCEPT ![r] = p],
             pc[r] # "done", UNCHANGED call,
             \A s \in Requests \ {r} : answer'[s] = answer[s],
             Stood(r)' => Stood(r) \/ owner[call[r].chat] # Nobody
      PROVE  StoodAfterCreated'
  <2> SUFFICES ASSUME NEW s \in Requests, NEW q \in Requests, Stood(s)', Creates(q)',
                      call'[q].chat = call'[s].chat
               PROVE  pc'[q] = "done"
    BY DEF StoodAfterCreated
  <2>1. Creates(q) /\ call[q].chat = call[s].chat
    BY <1>3 DEF Creates, TypeOK
  <2>2. CASE Stood(s)
    BY <1>3, <2>1, <2>2 DEF StoodAfterCreated, TypeOK
  <2>3. CASE ~Stood(s)
    <3>1. s = r
      BY <1>3, <2>3 DEF Stood, TypeOK
    <3> QED  BY <1>3, <2>1, <2>3, <3>1 DEF FreshIds, TypeOK
  <2> QED  BY <2>2, <2>3
<1>4. ASSUME NEW r \in Requests, BeginCreate(r) \/ BeginOnChat(r)
      PROVE  FreshIds' /\ StoodAfterCreated'
  <2>1. PICK k \in Kind, u \in Users, c \in Chats :
          /\ call' = [call EXCEPT ![r] = [kind |-> k, user |-> u, chat |-> c]]
          /\ k = "create" => c = FreshChat
    BY <1>4, Begun
  <2>2. /\ pc[r] = "idle" /\ pc' = [pc EXCEPT ![r] = "begin"] /\ UNCHANGED <<owner, answer>>
        /\ FreshChat \in Chats /\ FreshChat \notin Stored \cup Named /\ owner[FreshChat] = Nobody
    BY <1>4, Begun, FreshChatFound DEF store
  <2>3. \A q \in Requests : Creates(q)' <=> Creates(q) \/ (q = r /\ k = "create")
    BY <2>1, <2>2 DEF Creates, TypeOK
  <2>4. \A q \in Requests : Creates(q) => q # r /\ call'[q] = call[q] /\ call[q].chat \in Named /\ pc'[q] = pc[q]
    BY <2>1, <2>2 DEF Creates, TypeOK, Named
  <2>5. call'[r].chat = c /\ pc'[r] = "begin"
    BY <2>1, <2>2 DEF TypeOK
  <2>6. FreshIds'
    <3>1. Named \subseteq Named'
      BY <2>1, <2>2 DEF Named, TypeOK
    <3>2. ASSUME NEW q \in Requests, Creates(q)'
          PROVE  /\ call'[q].chat \notin Stored
                 /\ \A s \in Requests : Creates(s)' /\ call'[s].chat = call'[q].chat => s = q
                 /\ pc'[q] # "done" => owner'[call'[q].chat] = Nobody
      <4>1. CASE q = r
        BY <2>1, <2>2, <2>3, <2>4, <2>5, <3>2, <4>1
      <4>2. CASE q # r
        BY <2>1, <2>2, <2>3, <2>4, <2>5, <3>2, <4>2 DEF FreshIds
      <4> QED  BY <4>1, <4>2
    <3> QED  BY <2>2, <3>1, <3>2 DEF FreshIds
  <2>7. \A s \in Requests : Stood(s)' => Stood(s) /\ s # r /\ call'[s] = call[s] /\ call[s].chat \in Named
    BY <2>1, <2>2, <2>5 DEF Stood, TypeOK, Named, Passed, InGate
  <2>8. StoodAfterCreated'
    BY <2>1, <2>2, <2>3, <2>4, <2>5, <2>7 DEF StoodAfterCreated
  <2> QED  BY <2>6, <2>8
<1> USE DEF TypeOK, store
\* The steps that store nothing and find nothing.
<1>5. ASSUME NEW r \in Requests, NEW p, pc[r] \notin {"idle", "done"}, p # "idle", pc' = [pc EXCEPT ![r] = p],
             UNCHANGED <<store, call>>,
             \A s \in Requests \ {r} : answer'[s] = answer[s],
             Stood(r)' => Stood(r) \/ owner[call[r].chat] # Nobody
      PROVE  FreshIds' /\ StoodAfterCreated'
  BY <1>2, <1>3, <1>5
<1>6. ASSUME NEW r \in Requests,
             \/ Connect(r) \/ PoolTimeout(r) \/ RefuseOpen(r) \/ RefuseFull(r) \/ CountChats(r)
             \/ Enter(r) \/ Admit(r) \/ OpenCharge(r) \/ CallFails(r)
      PROVE  FreshIds' /\ StoodAfterCreated'
  <2>1. pc[r] \notin {"idle", "done"} /\ UNCHANGED <<store, call>>
        /\ \A s \in Requests \ {r} : answer'[s] = answer[s]
    BY <1>6 DEF Connect, PoolTimeout, RefuseOpen, RefuseFull, CountChats, Enter, Admit, OpenCharge, CallFails, Fail
  <2>2. \E p \in {"connected", "done", "admission", "queued", "admitted", "charging"} : pc' = [pc EXCEPT ![r] = p]
    BY <1>6 DEF Connect, PoolTimeout, RefuseOpen, RefuseFull, CountChats, Enter, Admit, OpenCharge, CallFails, Fail
  <2>3. Stood(r)' => Stood(r)
    BY <1>6 DEF Stood, Passed, InGate, Connect, PoolTimeout, RefuseOpen, RefuseFull, CountChats, Enter, Admit, OpenCharge, CallFails, Fail
  <2> QED  BY <1>5, <2>1, <2>2, <2>3
<1>7. ASSUME NEW r \in Requests, LoadChat(r)
      PROVE  FreshIds' /\ StoodAfterCreated'
  <2>1. call[r].user # Nobody
    BY <1>7, CallTyped, ChatsAssumption DEF LoadChat
  <2>2. Stood(r)' => owner[call[r].chat] # Nobody
    BY <1>7, <2>1 DEF LoadChat, Stands, Fail, Stood, Passed, InGate
  <2> QED  BY <1>5, <1>7, <2>2 DEF LoadChat, Fail
<1>8. ASSUME NEW r \in Requests, Charge(r) \/ CallSucceeds(r)
      PROVE  FreshIds' /\ StoodAfterCreated'
  <2>1. Stood(r)' => Stood(r)
    BY <1>8 DEF Charge, CallSucceeds, Fail, Stood, Passed, InGate
  <2> QED  BY <1>5, <1>8, <2>1 DEF Charge, CallSucceeds, Fail
<1>9. ASSUME NEW r \in Requests, PersistChat(r)
      PROVE  FreshIds' /\ StoodAfterCreated'
  <2>1. Creates(r)
    BY <1>9 DEF PersistChat, Creates
  <2>2. ~Stood(r)'
    BY <1>9 DEF PersistChat, Stood
  <2>3. owner' \in [Chats -> Users \cup {Nobody}]
    BY <1>9, CallTyped DEF PersistChat
  <2> QED  BY <1>2, <1>3, <1>9, <2>1, <2>2, <2>3 DEF PersistChat
<1>10. ASSUME NEW r \in Requests, PersistMessages(r) \/ CommitDelete(r)
       PROVE  FreshIds' /\ StoodAfterCreated'
  <2>1. owner' \in [Chats -> Users \cup {Nobody}] /\ \A c \in Chats : owner'[c] # owner[c] => owner'[c] = Nobody
    BY <1>10 DEF PersistMessages, CommitDelete
  <2>2. Stood(r)' => Stood(r)
    BY <1>10 DEF PersistMessages, CommitDelete, Stood, Passed
  <2> QED  BY <1>2, <1>3, <1>10, <2>1, <2>2 DEF PersistMessages, CommitDelete
<1>11. ASSUME NEW r \in Requests, Delete(r)
       PROVE  FreshIds' /\ StoodAfterCreated'
  <2>1. call[r].user # Nobody
    BY <1>11, CallTyped, ChatsAssumption DEF Delete
  <2>2. Stood(r)' => owner[call[r].chat] # Nobody
    BY <1>11, <2>1 DEF Delete, Stands, Fail, Stood, Passed, InGate
  <2> QED  BY <1>5, <1>11, <2>2 DEF Delete, Fail
<1>12. ASSUME NEW r \in Requests, Interrupt(r)
       PROVE  FreshIds' /\ StoodAfterCreated'
  <2>1. pc[r] \notin {"idle", "done"} /\ pc' = [pc EXCEPT ![r] = "done"] /\ UNCHANGED <<store, call>>
        /\ \A s \in Requests \ {r} : answer'[s] = answer[s]
    BY <1>12 DEF Interrupt, InSession, InGate
  <2>2. Stood(r)' => Stood(r)
    BY <1>12 DEF Interrupt, Stood, StagesFollow, Passed, InSession, InGate
  <2> QED  BY <1>5, <2>1, <2>2
<1> QED
  BY <1>1, <1>4, <1>6, <1>7, <1>8, <1>9, <1>10, <1>11, <1>12 DEF Next, Advance

-----------------------------------------------------------------------------
(* The chats themselves.                                                   *)

\* A chat that is not stored and not being made now is not brought back.
LEMMA ChatsKept ==
  ASSUME IInv, [Next]_vars PROVE AnsweredIsKept' /\ DeletedIsGone'
<1> USE DEF IInv, TypeOK, store
<1>1. CASE UNCHANGED vars \/ Quiesce
  BY <1>1 DEF vars, Quiesce, AnsweredIsKept, DeletedIsGone
\* The steps that store nothing: only what r is told can matter.
<1>2. ASSUME NEW r \in Requests, UNCHANGED store, pc'[r] = "done" => answer'[r] # "answered" \/ r \in faulted',
             \A s \in Requests \ {r} :
               pc'[s] = pc[s] /\ call'[s] = call[s] /\ answer'[s] = answer[s] /\ (s \in faulted' <=> s \in faulted)
      PROVE  AnsweredIsKept' /\ DeletedIsGone'
  <2>1. AnsweredIsKept'
    BY <1>2 DEF AnsweredIsKept
  <2>2. DeletedIsGone'
    BY <1>2 DEF DeletedIsGone
  <2> QED  BY <2>1, <2>2
<1>3. ASSUME NEW r \in Requests, BeginCreate(r) \/ BeginOnChat(r)
      PROVE  AnsweredIsKept' /\ DeletedIsGone'
  BY <1>2, <1>3, Begun
<1>4. ASSUME NEW r \in Requests,
             \/ Connect(r) \/ PoolTimeout(r) \/ RefuseOpen(r) \/ RefuseFull(r) \/ CountChats(r) \/ LoadChat(r)
             \/ Enter(r) \/ Admit(r) \/ OpenCharge(r) \/ Charge(r) \/ CallFails(r) \/ CallSucceeds(r) \/ Delete(r)
      PROVE  AnsweredIsKept' /\ DeletedIsGone'
  <2>1. UNCHANGED <<store, call, faulted>>
    BY <1>4 DEF Connect, PoolTimeout, RefuseOpen, RefuseFull, CountChats, LoadChat, Enter, Admit, OpenCharge,
                Charge, CallFails, CallSucceeds, Delete, Fail
  <2>2. \/ \E p \in InSession, a \in Answer : pc' = [pc EXCEPT ![r] = p] /\ answer' = [answer EXCEPT ![r] = a]
        \/ \E p \in InSession : pc' = [pc EXCEPT ![r] = p] /\ answer' = answer
        \/ \E a \in Answer \ {"answered"} : pc' = [pc EXCEPT ![r] = "done"] /\ answer' = [answer EXCEPT ![r] = a]
    <3>1. CASE Connect(r) \/ Enter(r) \/ Admit(r) \/ OpenCharge(r)
      <4>1. \E p \in {"connected", "admitted", "queued", "charging"} : pc' = [pc EXCEPT ![r] = p]
        BY <3>1 DEF Connect, Enter, Admit, OpenCharge
      <4>2. answer' = answer
        BY <3>1 DEF Connect, Enter, Admit, OpenCharge
      <4> QED  BY <4>1, <4>2 DEF InSession, InGate
    <3>2. CASE PoolTimeout(r) \/ RefuseOpen(r) \/ RefuseFull(r) \/ CallFails(r)
      BY <3>2 DEF PoolTimeout, RefuseOpen, RefuseFull, CallFails, Fail, Answer
    <3>3. CASE CountChats(r) \/ LoadChat(r)
      BY <3>3 DEF CountChats, LoadChat, Fail, InSession, Answer
    <3>4. CASE Charge(r) \/ CallSucceeds(r)
      BY <3>4 DEF Charge, CallSucceeds, Fail, InSession, InGate, Answer
    <3>5. CASE Delete(r)
      BY <3>5 DEF Delete, Fail, InSession, Answer
    <3> QED  BY <1>4, <3>1, <3>2, <3>3, <3>4, <3>5
  <2>3. pc'[r] = "done" => answer'[r] # "answered"
    BY <2>2 DEF InSession, InGate
  <2> QED  BY <1>2, <2>1, <2>2, <2>3
<1>5. ASSUME NEW r \in Requests, Interrupt(r)
      PROVE  AnsweredIsKept' /\ DeletedIsGone'
  BY <1>2, <1>5 DEF Interrupt
<1>6. ASSUME NEW r \in Requests, PersistChat(r)
      PROVE  AnsweredIsKept' /\ DeletedIsGone'
  <2> DEFINE c == call[r].chat
  <2>1. /\ c \in Chats /\ call[r].user \in Users /\ call[r].user # Nobody
        /\ owner' = [owner EXCEPT ![c] = call[r].user] /\ messages' = [messages EXCEPT ![c] = 1]
        /\ kept' = kept \cup {r} /\ pc' = [pc EXCEPT ![r] = "done"] /\ UNCHANGED <<call, answer, faulted>>
    BY <1>6, CallTyped, ChatsAssumption DEF PersistChat
  <2>2. \A s \in Requests : Stood(s) => call[s].chat # c
    BY <1>6 DEF PersistChat, StoodAfterCreated, Creates
  <2>3. AnsweredIsKept'
    <3>1. \A s \in Requests \ {r} :
            pc[s] = "done" /\ answer[s] = "answered" /\ call[s].kind = "follow" => owner'[call[s].chat] = owner[call[s].chat]
      BY <2>1, <2>2, CallTyped DEF Stood
    <3> QED  BY <2>1, <3>1 DEF AnsweredIsKept
  <2>4. DeletedIsGone'
    <3>1. \A s \in Requests \ {r} :
            pc[s] = "done" /\ answer[s] = "answered" /\ call[s].kind = "delete" => owner'[call[s].chat] = owner[call[s].chat]
      BY <2>1, <2>2, CallTyped DEF Stood
    <3>2. call[r].kind # "delete"
      BY <1>6 DEF PersistChat
    <3> QED  BY <2>1, <3>1, <3>2 DEF DeletedIsGone
  <2> QED  BY <2>3, <2>4
<1>7. ASSUME NEW r \in Requests, PersistMessages(r)
      PROVE  AnsweredIsKept' /\ DeletedIsGone'
  <2>1. pc[r] = "answered" /\ call[r].chat \in Chats
    BY <1>7, CallTyped DEF PersistMessages
  <2>2. AnsweredIsKept'
    BY <1>7, <2>1 DEF PersistMessages, ParentOK, AnsweredIsKept
  <2>3. DeletedIsGone'
    BY <1>7, <2>1 DEF PersistMessages, ParentOK, DeletedIsGone
  <2> QED  BY <2>2, <2>3
<1>8. ASSUME NEW r \in Requests, CommitDelete(r)
      PROVE  AnsweredIsKept' /\ DeletedIsGone'
  <2>1. pc[r] = "deleting" /\ call[r].kind = "delete" /\ call[r].chat \in Chats
    BY <1>8, CallTyped DEF CommitDelete, StagesFollow
  <2>2. \A s \in Requests : pc[s] = "done" => call[s].chat \in Chats
    BY CallTyped
  <2>3. AnsweredIsKept'
    BY <1>8, <2>1, <2>2 DEF CommitDelete, AnsweredIsKept
  <2>4. DeletedIsGone'
    BY <1>8, <2>1, <2>2 DEF CommitDelete, DeletedIsGone
  <2> QED  BY <2>3, <2>4
<1> QED
  BY <1>1, <1>3, <1>4, <1>5, <1>6, <1>7, <1>8 DEF Next, Advance

-----------------------------------------------------------------------------
(* The limits.                                                             *)

\* The gate lets in no more than its places.
LEMMA PlacesKept ==
  ASSUME IInv, [Next]_vars PROVE PlacesHold'
<1> USE DEF IInv
<1> DEFINE n == Cardinality(At(InGate))
<1>1. CASE UNCHANGED pc
  BY <1>1 DEF PlacesHold, At
<1>2. ASSUME NEW r \in Requests, NEW p, pc' = [pc EXCEPT ![r] = p],
             p \notin InGate \/ pc[r] \in InGate \/ ~GateFull
      PROVE  PlacesHold'
  <2>1. n \in Nat /\ n' \in Nat
        /\ n' = n + (IF p \in InGate THEN 1 ELSE 0) - (IF pc[r] \in InGate THEN 1 ELSE 0)
    BY <1>2, MoveCounts DEF TypeOK
  <2>2. n <= Permits + QueueSize /\ (~GateFull => n < Permits + QueueSize)
    <3>1. Permits + QueueSize \in Nat
      BY ChatsAssumption
    <3> QED  BY <2>1, <3>1 DEF PlacesHold, GateFull
  <2>3. n' <= Permits + QueueSize
    <3>1. Permits + QueueSize \in Nat
      BY ChatsAssumption
    <3> HIDE DEF n
    <3> QED  BY <1>2, <2>1, <2>2, <3>1
  <2> QED  BY <2>3 DEF PlacesHold
<1>3. ASSUME NEW r \in Requests, BeginCreate(r) \/ BeginOnChat(r) \/ RefuseOpen(r) \/ PoolTimeout(r) \/ Interrupt(r)
      PROVE  PlacesHold'
  <2>1. \E p \in {"begin", "done"} : pc' = [pc EXCEPT ![r] = p]
    BY <1>3, Begun DEF RefuseOpen, PoolTimeout, Interrupt, Fail
  <2> QED  BY <1>2, <2>1 DEF InGate
<1>4. ASSUME NEW r \in Requests, Advance(r)
      PROVE  PlacesHold'
  <2>1. CASE Enter(r)
    BY <1>2, <2>1 DEF Enter
  <2>2. CASE Admit(r) \/ OpenCharge(r) \/ Charge(r)
    BY <1>2, <2>2 DEF Admit, OpenCharge, Charge, Fail, InGate
  <2>3. CASE Connect(r) \/ CountChats(r) \/ LoadChat(r) \/ RefuseFull(r) \/ CallFails(r) \/ CallSucceeds(r)
             \/ PersistChat(r) \/ PersistMessages(r) \/ Delete(r) \/ CommitDelete(r)
    <3>1. \E p \in {"connected", "admission", "answered", "deleting", "done"} : pc' = [pc EXCEPT ![r] = p]
      BY <2>3 DEF Connect, CountChats, LoadChat, RefuseFull, CallFails, CallSucceeds,
                  PersistChat, PersistMessages, Delete, CommitDelete, Fail
    <3> QED  BY <1>2, <3>1 DEF InGate
  <2> QED  BY <1>4, <2>1, <2>2, <2>3 DEF Advance
<1> QED  BY <1>1, <1>3, <1>4 DEF Next, Quiesce, vars

\* Whoever may still add holds a connection.
AddersAreFew ==
  /\ \A u \in Users : IsFiniteSet(ChatsOf(u)) /\ Cardinality(ChatsOf(u)) \in Nat
  /\ \A u \in Users : /\ IsFiniteSet(Creating(u)) /\ Cardinality(Creating(u)) \in Nat
                      /\ Cardinality(Creating(u)) <= Connections
  /\ \A c \in Chats : /\ IsFiniteSet(Following(c)) /\ Cardinality(Following(c)) \in Nat
                      /\ Cardinality(Following(c)) <= Connections

\* Whoever is about to add a chat or a message holds a connection.
LEMMA AddersConnected == TypeOK => AddersAreFew
<1> SUFFICES ASSUME TypeOK PROVE AddersAreFew
  OBVIOUS
<1>1. IsFiniteSet(At(InSession)) /\ Cardinality(At(InSession)) \in Nat
  BY AtFinite
<1>2. Cardinality(At(InSession)) <= Connections
  <2>1. Cardinality(At({"charging"})) \in Nat /\ Connections \in Nat
    BY AtFinite, ChatsAssumption
  <2> QED  BY <1>1, <2>1 DEF TypeOK, InUse
<1>3. ASSUME NEW S, S \subseteq At(InSession)
      PROVE  IsFiniteSet(S) /\ Cardinality(S) \in Nat /\ Cardinality(S) <= Connections
  <2>1. IsFiniteSet(S) /\ Cardinality(S) \in Nat /\ Cardinality(S) <= Cardinality(At(InSession))
    BY <1>1, <1>3, NoMore, FS_Subset
  <2> QED  BY <1>1, <1>2, <2>1, ChatsAssumption
<1>4. At(Passed) \subseteq At(InSession)
  BY DEF At, Passed, InSession
<1>5. \A u : Creating(u) \subseteq At(InSession)
  BY <1>4 DEF Creating
<1>6. \A c : Following(c) \subseteq At(InSession)
  BY <1>4 DEF Following
<1>7. ASSUME NEW u PROVE IsFiniteSet(ChatsOf(u)) /\ Cardinality(ChatsOf(u)) \in Nat
  <2>1. ChatsOf(u) \subseteq Chats
    BY DEF ChatsOf
  <2> QED  BY <2>1, ChatsAssumption, FS_Subset, FS_CardinalityType
<1> QED  BY <1>3, <1>5, <1>6, <1>7 DEF AddersAreFew

\* A chat or message counted once is counted again when it is stored.
LEMMA LimitsKept ==
  ASSUME IInv, [Next]_vars, TypeOK' PROVE LimitsHold'
<1> USE DEF IInv
<1>0. AddersAreFew /\ AddersAreFew'
  <2>1. TypeOK' => AddersAreFew'
    BY AddersConnected, PTL
  <2> QED  BY <2>1, AddersConnected
<1>1. /\ Connections \in Nat \ {0} /\ ChatsLimit \in Nat \ {0} /\ MessagesLimit \in Nat \ {0}
      /\ messages \in [Chats -> Nat] /\ messages' \in [Chats -> Nat]
  BY ChatsAssumption DEF TypeOK
\* A user's chats, where no more are stored or on their way.
<1>2. ASSUME NEW u \in Users, ChatsOf(u)' \subseteq ChatsOf(u), Creating(u)' \subseteq Creating(u)
      PROVE  Cardinality(ChatsOf(u)') + Cardinality(Creating(u)') <= ChatsLimit - 1 + Connections
  <2>1. /\ Cardinality(ChatsOf(u)') \in Nat /\ Cardinality(ChatsOf(u)) \in Nat
        /\ Cardinality(ChatsOf(u)') <= Cardinality(ChatsOf(u))
    BY <1>0, <1>2, NoMore DEF AddersAreFew
  <2>2. /\ Cardinality(Creating(u)') \in Nat /\ Cardinality(Creating(u)) \in Nat
        /\ Cardinality(Creating(u)') <= Cardinality(Creating(u))
    BY <1>0, <1>2, NoMore DEF AddersAreFew
  <2>3. Cardinality(ChatsOf(u)) + Cardinality(Creating(u)) <= ChatsLimit - 1 + Connections
    BY DEF LimitsHold
  <2> QED  BY <1>1, <2>1, <2>2, <2>3
\* A chat's messages likewise.
<1>3. ASSUME NEW c \in Chats, messages'[c] <= messages[c], Following(c)' \subseteq Following(c)
      PROVE  messages'[c] + Cardinality(Following(c)') <= MessagesLimit - 1 + Connections
  <2>1. /\ Cardinality(Following(c)') \in Nat /\ Cardinality(Following(c)) \in Nat
        /\ Cardinality(Following(c)') <= Cardinality(Following(c))
    BY <1>0, <1>3, NoMore DEF AddersAreFew
  <2>2. messages[c] + Cardinality(Following(c)) <= MessagesLimit - 1 + Connections
    BY DEF LimitsHold
  <2>3. messages[c] \in Nat /\ messages'[c] \in Nat
    BY <1>1
  <2> QED  BY <1>1, <1>3, <2>1, <2>2, <2>3
<1>4. ASSUME \A u \in Users : ChatsOf(u)' \subseteq ChatsOf(u) /\ Creating(u)' \subseteq Creating(u),
             \A c \in Chats : messages'[c] <= messages[c] /\ Following(c)' \subseteq Following(c)
      PROVE  LimitsHold'
  BY <1>2, <1>3, <1>4 DEF LimitsHold
<1>5. ASSUME UNCHANGED <<owner, messages>>,
             \A s \in At(Passed)' : s \in At(Passed) /\ call'[s] = call[s]
      PROVE  LimitsHold'
  <2>1. \A u \in Users : ChatsOf(u)' \subseteq ChatsOf(u) /\ Creating(u)' \subseteq Creating(u)
    BY <1>5 DEF ChatsOf, Creating
  <2>2. \A c \in Chats : messages'[c] <= messages[c] /\ Following(c)' \subseteq Following(c)
    BY <1>1, <1>5 DEF Following
  <2> QED  BY <1>4, <2>1, <2>2
<1>6. ASSUME NEW r \in Requests, NEW p, UNCHANGED <<owner, messages, call>>, pc' = [pc EXCEPT ![r] = p],
             p \in Passed => pc[r] \in Passed
      PROVE  LimitsHold'
  BY <1>5, <1>6 DEF At, TypeOK
<1>7. CASE UNCHANGED vars \/ Quiesce
  BY <1>5, <1>7 DEF vars, store, Quiesce, At
<1>8. ASSUME NEW r \in Requests, BeginCreate(r) \/ BeginOnChat(r)
      PROVE  LimitsHold'
  <2>1. PICK new : call' = [call EXCEPT ![r] = new]
    BY <1>8, Begun
  <2>2. pc' = [pc EXCEPT ![r] = "begin"] /\ UNCHANGED <<owner, messages>>
    BY <1>8, Begun DEF store
  <2>3. \A s \in At(Passed)' : s \in At(Passed) /\ call'[s] = call[s]
    BY <2>1, <2>2 DEF At, TypeOK, Passed, InGate
  <2> QED  BY <1>5, <2>2, <2>3
<1>9. ASSUME NEW r \in Requests,
             \/ Connect(r) \/ PoolTimeout(r) \/ RefuseOpen(r) \/ RefuseFull(r)
             \/ Enter(r) \/ Admit(r) \/ OpenCharge(r) \/ Charge(r) \/ CallFails(r) \/ CallSucceeds(r)
             \/ Delete(r) \/ Interrupt(r)
      PROVE  LimitsHold'
  <2>1. UNCHANGED <<owner, messages, call>>
    BY <1>9 DEF store, Connect, PoolTimeout, RefuseOpen, RefuseFull, Enter, Admit, OpenCharge, Charge,
                CallFails, CallSucceeds, Delete, Interrupt, Fail
  <2>2. \/ \E p \in {"done", "connected", "deleting"} : pc' = [pc EXCEPT ![r] = p]
        \/ pc[r] \in Passed /\ \E p : pc' = [pc EXCEPT ![r] = p]
    <3>1. CASE Connect(r) \/ PoolTimeout(r) \/ RefuseOpen(r) \/ RefuseFull(r) \/ CallFails(r) \/ Interrupt(r)
      BY <3>1 DEF Connect, PoolTimeout, RefuseOpen, RefuseFull, CallFails, Interrupt, Fail
    <3>2. CASE Enter(r) \/ Admit(r) \/ OpenCharge(r) \/ CallSucceeds(r)
      BY <3>2 DEF Enter, Admit, OpenCharge, CallSucceeds, Passed, InGate
    <3>3. CASE Charge(r) \/ Delete(r)
      BY <3>3 DEF Charge, Delete, Fail, Passed, InGate
    <3> QED  BY <1>9, <3>1, <3>2, <3>3
  <2> QED  BY <1>6, <2>1, <2>2 DEF Passed, InGate
\* The count was below the limit, and whoever is on its way holds a connection.
<1>10. ASSUME NEW r \in Requests, CountChats(r)
       PROVE  LimitsHold'
  <2>1. CASE pc' = [pc EXCEPT ![r] = "done"] /\ UNCHANGED <<owner, messages, call>>
    BY <1>6, <2>1 DEF Passed, InGate
  <2>2. CASE ~ChatsFull(call[r].user) /\ pc' = [pc EXCEPT ![r] = "admission"] /\ UNCHANGED <<owner, messages, call>>
    <3>1. call[r].kind = "create" /\ call[r].user \in Users
      BY <1>10, CallTyped DEF CountChats
    <3>2. \A c \in Chats : messages'[c] <= messages[c] /\ Following(c)' \subseteq Following(c)
      BY <1>1, <2>2, <3>1 DEF Following, At, TypeOK
    <3>3. \A u \in Users \ {call[r].user} : ChatsOf(u)' \subseteq ChatsOf(u) /\ Creating(u)' \subseteq Creating(u)
      BY <2>2 DEF ChatsOf, Creating, At, TypeOK
    <3>4. ASSUME NEW u \in Users, u = call[r].user
          PROVE  Cardinality(ChatsOf(u)') + Cardinality(Creating(u)') <= ChatsLimit - 1 + Connections
      <4>1. ChatsOf(u)' = ChatsOf(u)
        BY <2>2 DEF ChatsOf
      <4>2. Cardinality(ChatsOf(u)) \in Nat /\ Cardinality(ChatsOf(u)) <= ChatsLimit - 1
        BY <1>0, <1>1, <2>2, <3>4 DEF ChatsFull, AddersAreFew
      <4>3. Cardinality(Creating(u)') \in Nat /\ Cardinality(Creating(u)') <= Connections
        BY <1>0, <3>1, <3>4 DEF AddersAreFew
      <4> QED  BY <1>1, <4>1, <4>2, <4>3
    <3> QED  BY <1>2, <1>3, <3>2, <3>3, <3>4 DEF LimitsHold
  <2> QED  BY <1>10, <2>1, <2>2 DEF CountChats, Fail, store
<1>11. ASSUME NEW r \in Requests, LoadChat(r)
       PROVE  LimitsHold'
  <2>1. CASE pc' = [pc EXCEPT ![r] = "done"] /\ UNCHANGED <<owner, messages, call>>
    BY <1>6, <2>1 DEF Passed, InGate
  <2>2. CASE ~MessagesFull(call[r].chat) /\ pc' = [pc EXCEPT ![r] = "admission"] /\ UNCHANGED <<owner, messages, call>>
    <3>1. call[r].kind = "follow" /\ call[r].chat \in Chats
      BY <1>11, CallTyped DEF LoadChat
    <3>2. \A u \in Users : ChatsOf(u)' \subseteq ChatsOf(u) /\ Creating(u)' \subseteq Creating(u)
      BY <2>2, <3>1 DEF ChatsOf, Creating, At, TypeOK
    <3>3. \A c \in Chats \ {call[r].chat} : messages'[c] <= messages[c] /\ Following(c)' \subseteq Following(c)
      BY <1>1, <2>2 DEF Following, At, TypeOK
    <3>4. ASSUME NEW c \in Chats, c = call[r].chat
          PROVE  messages'[c] + Cardinality(Following(c)') <= MessagesLimit - 1 + Connections
      <4>1. messages'[c] \in Nat /\ messages'[c] <= MessagesLimit - 1
        BY <1>1, <2>2, <3>4 DEF MessagesFull
      <4>2. Cardinality(Following(c)') \in Nat /\ Cardinality(Following(c)') <= Connections
        BY <1>0, <3>1, <3>4 DEF AddersAreFew
      <4> QED  BY <1>1, <4>1, <4>2
    <3> QED  BY <1>2, <1>3, <3>2, <3>3, <3>4 DEF LimitsHold
  <2> QED  BY <1>11, <2>1, <2>2 DEF LoadChat, Fail, store
<1>12. ASSUME NEW r \in Requests, PersistChat(r)
       PROVE  LimitsHold'
  <2>0. PICK d \in Chats : d = call[r].chat
    BY <1>12, CallTyped DEF PersistChat, PersistMessages
  <2>1. /\ r \in At(Passed) /\ call[r].kind = "create" /\ call[r].user \in Users /\ owner[d] = Nobody
        /\ Nobody \notin Users
    BY <1>12, <2>0, CallTyped, ChatsAssumption DEF PersistChat, At, Passed, FreshIds, Creates
  <2>2. /\ owner' = [owner EXCEPT ![d] = call[r].user] /\ messages' = [messages EXCEPT ![d] = 1]
        /\ UNCHANGED call /\ pc' = [pc EXCEPT ![r] = "done"]
    BY <1>12, <2>0 DEF PersistChat
  <2>3. At(Passed)' = At(Passed) \ {r}
    BY <2>2 DEF At, TypeOK, Passed, InGate
  <2>4. \A u \in Users \ {call[r].user} : ChatsOf(u)' \subseteq ChatsOf(u) /\ Creating(u)' \subseteq Creating(u)
    BY <2>1, <2>2, <2>3 DEF ChatsOf, Creating, TypeOK
  <2>5. ASSUME NEW u \in Users, u = call[r].user
        PROVE  Cardinality(ChatsOf(u)') + Cardinality(Creating(u)') <= ChatsLimit - 1 + Connections
    <3>1. ChatsOf(u)' = ChatsOf(u) \cup {d}
      BY <2>1, <2>2, <2>5 DEF ChatsOf, TypeOK
    <3>2. Cardinality(ChatsOf(u)') \in Nat /\ Cardinality(ChatsOf(u)') <= Cardinality(ChatsOf(u)) + 1
          /\ Cardinality(ChatsOf(u)) \in Nat
      BY <1>0, <3>1, OneMore DEF AddersAreFew
    <3>3. Creating(u)' \subseteq Creating(u) /\ r \in Creating(u) /\ r \notin Creating(u)'
      BY <2>1, <2>2, <2>3, <2>5 DEF Creating
    <3>4. Cardinality(Creating(u)') + 1 <= Cardinality(Creating(u))
          /\ Cardinality(Creating(u)') \in Nat /\ Cardinality(Creating(u)) \in Nat
      BY <1>0, <3>3, OneLess DEF AddersAreFew
    <3>5. Cardinality(ChatsOf(u)) + Cardinality(Creating(u)) <= ChatsLimit - 1 + Connections
      BY DEF LimitsHold
    <3> QED  BY <1>1, <3>2, <3>4, <3>5
  <2>6. \A c \in Chats \ {d} : messages'[c] <= messages[c] /\ Following(c)' \subseteq Following(c)
    BY <1>1, <2>2, <2>3 DEF Following
  \* Nobody can have asked for a chat that is not stored yet.
  <2>7. messages'[d] + Cardinality(Following(d)') <= MessagesLimit - 1 + Connections
    <3>1. \A s \in At(Passed) : call[s].kind = "follow" => call[s].chat # d
      BY <1>12, <2>0 DEF PersistChat, StoodAfterCreated, Stood, Creates, At
    <3>2. Following(d)' = {}
      BY <2>2, <2>3, <3>1 DEF Following
    <3>3. Cardinality(Following(d)') = 0
      BY <3>2, FS_EmptySet
    <3>4. messages'[d] = 1
      BY <2>1, <2>2 DEF TypeOK
    <3> QED  BY <1>1, <3>3, <3>4
  <2>8. \A u \in Users : Cardinality(ChatsOf(u)') + Cardinality(Creating(u)') <= ChatsLimit - 1 + Connections
    BY <1>2, <2>4, <2>5
  <2>9. ASSUME NEW c \in Chats
        PROVE  messages'[c] + Cardinality(Following(c)') <= MessagesLimit - 1 + Connections
    <3>1. CASE c = d
      BY <2>7, <3>1
    <3>2. CASE c # d
      BY <1>3, <2>6, <3>2
    <3> QED  BY <3>1, <3>2
  <2> QED  BY <2>8, <2>9 DEF LimitsHold
<1>13. ASSUME NEW r \in Requests, PersistMessages(r)
       PROVE  LimitsHold'
  <2>0. PICK d \in Chats : d = call[r].chat
    BY <1>13, CallTyped DEF PersistChat, PersistMessages
  <2>1. r \in At(Passed) /\ call[r].kind = "follow"
    BY <1>13 DEF PersistMessages, At, Passed
  <2>2. /\ UNCHANGED <<owner, call>> /\ pc' = [pc EXCEPT ![r] = "done"]
        /\ messages' \in {messages, [messages EXCEPT ![d] = @ + 1]}
    BY <1>13, <2>0 DEF PersistMessages
  <2>3. At(Passed)' = At(Passed) \ {r}
    BY <2>2 DEF At, TypeOK, Passed, InGate
  <2>4. \A u \in Users : ChatsOf(u)' \subseteq ChatsOf(u) /\ Creating(u)' \subseteq Creating(u)
    BY <2>2, <2>3 DEF ChatsOf, Creating
  <2>5. \A c \in Chats \ {d} : messages'[c] <= messages[c] /\ Following(c)' \subseteq Following(c)
    BY <1>1, <2>2, <2>3 DEF Following
  <2>6. messages'[d] + Cardinality(Following(d)') <= MessagesLimit - 1 + Connections
    <3>1. Following(d)' \subseteq Following(d) /\ r \in Following(d) /\ r \notin Following(d)'
      BY <2>0, <2>1, <2>2, <2>3 DEF Following
    <3>2. Cardinality(Following(d)') + 1 <= Cardinality(Following(d))
          /\ Cardinality(Following(d)') \in Nat /\ Cardinality(Following(d)) \in Nat
      BY <1>0, <2>1, <3>1, OneLess DEF AddersAreFew
    <3>3. messages'[d] <= messages[d] + 1 /\ messages[d] \in Nat /\ messages'[d] \in Nat
      BY <1>1, <2>1, <2>2
    <3>4. messages[d] + Cardinality(Following(d)) <= MessagesLimit - 1 + Connections
      BY <2>1 DEF LimitsHold
    <3> QED  BY <1>1, <3>2, <3>3, <3>4
  <2>7. \A u \in Users : Cardinality(ChatsOf(u)') + Cardinality(Creating(u)') <= ChatsLimit - 1 + Connections
    BY <1>2, <2>4
  <2>8. ASSUME NEW c \in Chats
        PROVE  messages'[c] + Cardinality(Following(c)') <= MessagesLimit - 1 + Connections
    <3>1. CASE c = d
      BY <2>6, <3>1
    <3>2. CASE c # d
      BY <1>3, <2>5, <3>2
    <3> QED  BY <3>1, <3>2
  <2> QED  BY <2>7, <2>8 DEF LimitsHold
<1>14. ASSUME NEW r \in Requests, CommitDelete(r)
       PROVE  LimitsHold'
  <2> DEFINE d == call[r].chat
  <2>1. /\ d \in Chats /\ owner' = [owner EXCEPT ![d] = Nobody] /\ messages' = [messages EXCEPT ![d] = 0]
        /\ UNCHANGED call /\ pc' = [pc EXCEPT ![r] = "done"] /\ Nobody \notin Users
    BY <1>14, CallTyped, ChatsAssumption DEF CommitDelete
  <2>2. At(Passed)' \subseteq At(Passed)
    BY <2>1 DEF At, TypeOK, Passed, InGate
  <2>3. \A u \in Users : ChatsOf(u)' \subseteq ChatsOf(u) /\ Creating(u)' \subseteq Creating(u)
    BY <2>1, <2>2 DEF ChatsOf, Creating, TypeOK
  <2>4. \A c \in Chats : messages'[c] <= messages[c] /\ Following(c)' \subseteq Following(c)
    BY <1>1, <2>1, <2>2 DEF Following
  <2> QED  BY <1>4, <2>3, <2>4
<1> QED
  BY <1>7, <1>8, <1>9, <1>10, <1>11, <1>12, <1>13, <1>14 DEF Next, Advance

-----------------------------------------------------------------------------
(* The theorems.                                                           *)

LEMMA InitHolds == Init => IInv
<1> SUFFICES ASSUME Init PROVE IInv
  OBVIOUS
<1> USE DEF Init
<1>1. /\ Connections \in Nat \ {0} /\ ChatsLimit \in Nat \ {0} /\ MessagesLimit \in Nat \ {0}
      /\ Permits + QueueSize \in Nat
  BY ChatsAssumption
<1>2. At(InSession) = {} /\ At({"charging"}) = {} /\ At(InGate) = {} /\ At(Passed) = {}
  BY DEF At, InSession, InGate, Passed
<1>3. Cardinality({}) = 0
  BY FS_EmptySet
<1>4. TypeOK
  <2>1. InUse <= Connections
    <3>1. Cardinality(At(InSession)) = 0 /\ Cardinality(At({"charging"})) = 0
      BY <1>2, <1>3
    <3> QED  BY <1>1, <3>1 DEF InUse
  <2>2. messages \in [Chats -> Nat] /\ call \in [Requests -> Call] /\ answer \in [Requests -> Answer]
    BY <1>1 DEF Call, Answer
  <2> QED  BY <2>1, <2>2 DEF TypeOK
<1>5. StagesFollow /\ ChargesFollow /\ ChargedIsServed
  BY DEF StagesFollow, ChargesFollow, ChargedIsServed, Passed, InGate
<1>6. FreshIds /\ StoodAfterCreated
  BY DEF FreshIds, StoodAfterCreated, Creates
<1>7. LimitsHold
  <2>1. \A u : Creating(u) = {}
    BY <1>2 DEF Creating
  <2>2. \A c : Following(c) = {}
    BY <1>2 DEF Following
  <2>3. ASSUME NEW u \in Users
        PROVE  Cardinality(ChatsOf(u)) + Cardinality(Creating(u)) <= ChatsLimit - 1 + Connections
    <3>1. Cardinality(ChatsOf(u)) \in Nat /\ Cardinality(ChatsOf(u)) <= ChatsLimit
      BY <1>4, AddersConnected DEF AddersAreFew
    <3>2. Cardinality(Creating(u)) = 0
      BY <1>3, <2>1
    <3> QED  BY <1>1, <3>1, <3>2
  <2>4. ASSUME NEW c \in Chats
        PROVE  messages[c] + Cardinality(Following(c)) <= MessagesLimit - 1 + Connections
    <3>1. messages[c] \in 0..MessagesLimit /\ Cardinality(Following(c)) = 0
      BY <1>3, <2>2
    <3> QED  BY <1>1, <3>1
  <2> QED  BY <2>3, <2>4 DEF LimitsHold
<1>8. PlacesHold
  BY <1>1, <1>2, <1>3 DEF PlacesHold
<1>9. AnsweredIsKept /\ DeletedIsGone
  BY <1>1 DEF AnsweredIsKept, DeletedIsGone
<1> QED  BY <1>4, <1>5, <1>6, <1>7, <1>8, <1>9 DEF IInv

\* The inductive invariant holds throughout every behaviour.
THEOREM Invariance == Spec => []IInv
<1>1. Init => IInv
  BY InitHolds
<1>2. IInv /\ [Next]_vars => IInv'
  BY TypeKept, ProgressKept, IdsKept, ChatsKept, PlacesKept, LimitsKept DEF IInv, Progress
<1> QED  BY <1>1, <1>2, PTL DEF Spec

\* TypeOK, and with it that the pool is never overdrawn, although every request
\* of a session may take a second connection for its charge.
THEOREM TypeCorrect == Spec => []TypeOK
<1>1. IInv => TypeOK
  BY DEF IInv
<1> QED  BY <1>1, Invariance, PTL

\* Though chats_limit is checked long before the insert, a user's chats exceed it
\* by less than the number of connections (ChatService.create_chat).
THEOREM ChatsStayBounded == Spec => []ChatsBounded
<1>1. IInv => ChatsBounded
  <2> SUFFICES ASSUME IInv, NEW u \in Users
               PROVE  Cardinality(ChatsOf(u)) <= ChatsLimit - 1 + Connections
    BY DEF ChatsBounded
  <2>1. Cardinality(ChatsOf(u)) \in Nat /\ Cardinality(Creating(u)) \in Nat
    BY AddersConnected DEF IInv, AddersAreFew
  <2>2. Cardinality(ChatsOf(u)) + Cardinality(Creating(u)) <= ChatsLimit - 1 + Connections
    BY DEF IInv, LimitsHold
  <2> QED  BY <2>1, <2>2, ChatsAssumption
<1> QED  BY <1>1, Invariance, PTL

\* However many requests read the same count before any of them writes, a chat's
\* AI messages exceed messages_limit by less than the number of connections
\* (ChatService.send_message).
THEOREM MessagesStayBounded == Spec => []MessagesBounded
<1>1. IInv => MessagesBounded
  <2> SUFFICES ASSUME IInv, NEW c \in Chats
               PROVE  messages[c] <= MessagesLimit - 1 + Connections
    BY DEF MessagesBounded
  <2>1. messages[c] \in Nat /\ Cardinality(Following(c)) \in Nat
    BY AddersConnected DEF IInv, TypeOK, AddersAreFew
  <2>2. messages[c] + Cardinality(Following(c)) <= MessagesLimit - 1 + Connections
    BY DEF IInv, LimitsHold
  <2> QED  BY <2>1, <2>2, ChatsAssumption
<1> QED  BY <1>1, Invariance, PTL

\* An answer that was sent is in its chat afterwards, although get_db commits after
\* it, unless the commit failed or the chat was deleted meanwhile.
THEOREM AnsweredStaysKept == Spec => []AnsweredIsKept
<1>1. IInv => AnsweredIsKept
  BY DEF IInv
<1> QED  BY <1>1, Invariance, PTL

\* A deleted chat stays gone with its messages, whatever follow-ups were at the
\* provider when it was deleted (ChatService.delete_chat, send_message).
THEOREM DeletedStaysGone == Spec => []DeletedIsGone
<1>1. IInv => DeletedIsGone
  BY DEF IInv
<1> QED  BY <1>1, Invariance, PTL

\* A credit is spent on exactly the requests the provider was called for: nobody
\* refused earlier is charged, nobody is served free (QuotaService.charge).
THEOREM ChargedAreServed == Spec => []ChargedIsServed
<1>1. IInv => ChargedIsServed
  BY DEF IInv
<1> QED  BY <1>1, Invariance, PTL

\* A request keeps its session's connection while it waits for its charge's. With
\* more connections than places in the gate the pool still never locks up: when
\* all are taken, someone who holds one waits for none (QuotaService.charge).
THEOREM PoolMoves == Spec => []PoolNeverStuck
<1>1. IInv => PoolNeverStuck
  <2> SUFFICES ASSUME IInv, Connections > Permits + QueueSize, Moving = {}
               PROVE  Free
    BY DEF PoolNeverStuck
  <2>1. At(InSession) \subseteq At(InGate) /\ At({"charging"}) = {}
    BY DEF Moving, At, InSession, InGate
  <2>2. /\ Cardinality(At(InSession)) \in Nat /\ Cardinality(At(InGate)) \in Nat
        /\ Cardinality(At(InSession)) <= Cardinality(At(InGate))
    BY <2>1, AtFinite, NoMore
  <2>3. Cardinality(At({"charging"})) = 0
    BY <2>1, FS_EmptySet
  <2>4. Cardinality(At(InGate)) <= Permits + QueueSize
    BY DEF IInv, PlacesHold
  <2> QED  BY <2>2, <2>3, <2>4, ChatsAssumption DEF Free, InUse
<1> QED  BY <1>1, Invariance, PTL

-----------------------------------------------------------------------------
(* The gate.                                                               *)

\* What the mapping rests on: nobody is told queue_full and goes on. Inductive.
GateInv ==
  /\ pc \in [Requests -> {"idle", "begin", "done"} \cup InSession]
  /\ answer \in [Requests -> Answer]
  /\ \A r \in Requests : answer[r] = "queue_full" => pc[r] = "done"

\* A step moves one request and tells it something or nothing.
Moved(r, p, q, a) ==
  /\ pc[r] \in p
  /\ pc' = [pc EXCEPT ![r] = q]
  /\ answer' = [answer EXCEPT ![r] = a]

\* How a request may move without touching the gate.
Outside(r) ==
  \/ \E q \in {"begin", "connected", "admission", "deleting"}, a \in Answer \ {"queue_full"} :
       Moved(r, {"idle", "begin", "connected"}, q, a)
  \/ \E a \in Answer \ {"queue_full"} : Moved(r, {"answered"}, "done", a)

\* How it may move within the gate.
Inside(r) == \E q \in {"charging", "calling"} : Moved(r, {"admitted", "charging"}, q, answer[r])

\* How it may leave the gate, or pass it by.
Away(r) ==
  \E q \in {"answered", "done"}, a \in Answer \ {"queue_full"} :
    Moved(r, {"begin", "connected", "admission", "deleting"} \cup InGate, q, a)

-----------------------------------------------------------------------------
(* The steps, by what they do at the gate.                                 *)

\* A request that goes on was not told queue_full.
LEMMA Untold ==
  ASSUME GateInv, NEW r \in Requests, pc[r] # "done"
  PROVE  answer[r] \in Answer \ {"queue_full"} /\ answer = [answer EXCEPT ![r] = answer[r]]
BY DEF GateInv

\* Each operation of a chat request is one kind of movement at the gate.
LEMMA AdvanceAtGate ==
  ASSUME GateInv, NEW r \in Requests, Advance(r)
  PROVE  Outside(r) \/ Inside(r) \/ Away(r) \/ Enter(r) \/ Admit(r) \/ RefuseFull(r)
<1>1. pc[r] # "done"
  BY DEF Advance, Connect, CountChats, LoadChat, RefuseFull, Enter, Admit, OpenCharge, Charge,
         CallFails, CallSucceeds, PersistChat, PersistMessages, Delete, CommitDelete
<1>2. answer[r] \in Answer \ {"queue_full"} /\ answer = [answer EXCEPT ![r] = answer[r]]
  BY <1>1, Untold
<1>3. CASE Connect(r)
  BY <1>2, <1>3 DEF Connect, Outside, Moved
<1>4. CASE CountChats(r) \/ LoadChat(r)
  <2>1. CASE pc' = [pc EXCEPT ![r] = "admission"] /\ UNCHANGED answer
    BY <1>2, <1>4, <2>1 DEF CountChats, LoadChat, Outside, Moved
  <2>2. CASE Fail(r, "limit_reached") \/ Fail(r, "invalid_chat")
    BY <1>4, <2>2 DEF CountChats, LoadChat, Fail, Away, Moved, Answer
  <2> QED  BY <1>4, <2>1, <2>2 DEF CountChats, LoadChat
<1>5. CASE OpenCharge(r)
  BY <1>2, <1>5 DEF OpenCharge, Inside, Moved
<1>6. CASE Charge(r)
  <2>1. CASE pc' = [pc EXCEPT ![r] = "calling"] /\ UNCHANGED answer
    BY <1>2, <1>6, <2>1 DEF Charge, Inside, Moved
  <2>2. CASE Fail(r, "quota_exceeded")
    BY <1>6, <2>2 DEF Charge, Fail, Away, Moved, Answer, InGate
  <2> QED  BY <1>6, <2>1, <2>2 DEF Charge
<1>7. CASE CallFails(r) \/ CallSucceeds(r)
  BY <1>7 DEF CallFails, CallSucceeds, Fail, Away, Moved, Answer, InGate
<1>8. CASE PersistChat(r) \/ PersistMessages(r)
  BY <1>2, <1>8 DEF PersistChat, PersistMessages, Outside, Moved
<1>9. CASE Delete(r)
  BY <1>9 DEF Delete, Fail, Outside, Away, Moved, Answer
<1>10. CASE CommitDelete(r)
  BY <1>2, <1>10 DEF CommitDelete, Away, Moved
<1> QED
  BY <1>3, <1>4, <1>5, <1>6, <1>7, <1>8, <1>9, <1>10 DEF Advance

\* So is every step of the system.
LEMMA StepAtGate ==
  ASSUME GateInv, [Next]_vars
  PROVE  \/ UNCHANGED <<pc, answer>>
         \/ \E r \in Requests :
              Outside(r) \/ Inside(r) \/ Away(r) \/ Enter(r) \/ Admit(r) \/ RefuseFull(r)
<1>1. CASE UNCHANGED vars \/ Quiesce
  BY <1>1 DEF vars, Quiesce
<1>2. ASSUME NEW r \in Requests, BeginCreate(r) \/ BeginOnChat(r)
      PROVE  Outside(r)
  <2>1. pc[r] = "idle" /\ pc' = [pc EXCEPT ![r] = "begin"] /\ UNCHANGED answer
    BY <1>2 DEF BeginCreate, BeginOnChat, Begin
  <2> QED  BY <2>1, Untold DEF Outside, Moved
<1>3. ASSUME NEW r \in Requests, RefuseOpen(r) \/ PoolTimeout(r)
      PROVE  Away(r)
  BY <1>3 DEF RefuseOpen, PoolTimeout, Fail, Away, Moved, Answer, InGate
<1>4. ASSUME NEW r \in Requests, Interrupt(r)
      PROVE  Outside(r) \/ Away(r)
  <2>1. pc[r] # "done"
    BY <1>4 DEF Interrupt, InSession, InGate
  <2>2. PICK a \in Answer \ {"queue_full"} : Moved(r, {"begin"} \cup InSession, "done", a)
    BY <1>4, <2>1, Untold DEF Interrupt, Moved, Answer
  <2> QED  BY <2>2 DEF Outside, Away, Moved, InSession
<1> QED
  BY <1>1, <1>2, <1>3, <1>4, AdvanceAtGate DEF Next

\* Every step keeps the invariant.
LEMMA GateInvKept ==
  ASSUME GateInv, [Next]_vars PROVE GateInv'
<1>1. CASE UNCHANGED <<pc, answer>>
  BY <1>1 DEF GateInv
<1>2. ASSUME NEW r \in Requests, NEW p, NEW q \in {"begin", "done"} \cup InSession,
             NEW a \in Answer \ {"queue_full"}, Moved(r, p, q, a), "done" \notin p
      PROVE  GateInv'
  BY <1>2 DEF GateInv, Moved
<1>3. ASSUME NEW r \in Requests, Outside(r) \/ Inside(r) \/ Away(r)
      PROVE  GateInv'
  <2>1. CASE Outside(r)
    BY <2>1, <1>2 DEF Outside, InSession
  <2>2. CASE Inside(r)
    BY <2>2, <1>2, Untold DEF Inside, Moved, InSession, InGate
  <2>3. CASE Away(r)
    BY <2>3, <1>2 DEF Away, InSession, InGate
  <2> QED  BY <1>3, <2>1, <2>2, <2>3
<1>4. ASSUME NEW r \in Requests, Enter(r) \/ Admit(r)
      PROVE  GateInv'
  <2>1. pc[r] # "done" /\ UNCHANGED answer
        /\ \E q \in {"queued", "admitted"} : pc' = [pc EXCEPT ![r] = q]
    BY <1>4 DEF Enter, Admit
  <2> QED  BY <2>1 DEF GateInv, InSession, InGate
<1>5. ASSUME NEW r \in Requests, RefuseFull(r)
      PROVE  GateInv'
  BY <1>5 DEF RefuseFull, Fail, GateInv, Answer
<1> QED  BY <1>1, <1>3, <1>4, <1>5, StepAtGate

-----------------------------------------------------------------------------
(* The mapping.                                                            *)

\* A move of one request moves its stage and no other.
LEMMA OneStage ==
  ASSUME GateInv, NEW r \in Requests, NEW p, NEW q, NEW a, Moved(r, p, q, a)
  PROVE  GateStages' = [GateStages EXCEPT ![r] = GateStage(q, a)]
BY DEF GateInv, GateStages, GateStage, Moved

\* The instance counts as this module does.
LEMMA SameCardinality ==
  ASSUME NEW S PROVE Gate!Cardinality(S) = Cardinality(S)
BY DEF Gate!Cardinality, Cardinality

\* The gate's own counts are those of the mapping.
LEMMA SameCounts ==
  ASSUME GateInv
  PROVE  /\ Gate!PlaceFree <=> ~GateFull
         /\ Gate!PermitFree <=> PermitFree
         /\ Gate!In({"waiting"}) = At({"queued"})
<1>1. Gate!In({"waiting", "inside"}) = At(InGate)
  BY DEF Gate!In, At, GateStages, GateStage, InGate
<1>2. Gate!In({"inside"}) = At(InGate \ {"queued"})
  BY DEF Gate!In, At, GateStages, GateStage, InGate
<1>3. Gate!In({"waiting"}) = At({"queued"})
  BY DEF Gate!In, At, GateStages, GateStage, InGate
<1>4. Cardinality(At(InGate)) \in Nat /\ Permits + QueueSize \in Nat
  <2>1. IsFiniteSet(At(InGate))
    BY ChatsAssumption, FS_Subset DEF At
  <2> QED  BY <2>1, FS_CardinalityType, ChatsAssumption
<1>5. Gate!PlaceFree <=> ~GateFull
  BY <1>1, <1>4, SameCardinality DEF Gate!PlaceFree, GateFull
<1>6. Gate!PermitFree <=> PermitFree
  BY <1>2, SameCardinality DEF Gate!PermitFree, PermitFree
<1> QED  BY <1>3, <1>5, <1>6

\* Every step is a step of the abstract gate, or leaves it alone.
LEMMA StepMaps ==
  ASSUME GateInv, [Next]_vars PROVE [Gate!Next]_GateStages
<1>1. CASE UNCHANGED <<pc, answer>>
  BY <1>1 DEF GateStages
<1>2. ASSUME NEW r \in Requests, Outside(r) \/ Inside(r)
      PROVE  UNCHANGED GateStages
  <2>1. PICK p, q, a :
          Moved(r, p, q, a) /\ GateStage(q, a) = GateStage(pc[r], answer[r])
    BY <1>2, Untold DEF Outside, Inside, Moved, GateStage, InGate
  <2>2. GateStages' = [GateStages EXCEPT ![r] = GateStage(q, a)]
    BY <2>1, OneStage
  <2>3. GateStages[r] = GateStage(q, a)
    BY <2>1 DEF GateStages
  <2> HIDE DEF GateStage
  <2> QED  BY <2>2, <2>3 DEF GateStages
<1>3. ASSUME NEW r \in Requests, Away(r)
      PROVE  Gate!Leave(r)
  <2>1. PICK q \in {"answered", "done"}, a \in Answer \ {"queue_full"} :
          Moved(r, {"begin", "connected", "admission", "deleting"} \cup InGate, q, a)
    BY <1>3 DEF Away
  <2>2. GateStages[r] \in {"outside", "waiting", "inside"}
    BY <2>1 DEF Moved, InGate, GateStages, GateStage
  <2>3. GateStage(q, a) = "left"
    BY <2>1 DEF GateStage, InGate
  <2> QED  BY <2>1, <2>2, <2>3, OneStage DEF Gate!Leave, Gate!Move
<1>4. ASSUME NEW r \in Requests, Enter(r)
      PROVE  Gate!Enter(r)
  <2>1. pc[r] = "admission" /\ GateStages[r] = "outside"
    BY <1>4 DEF Enter, GateStages, GateStage, InGate
  <2> DEFINE q == IF PermitFree /\ At({"queued"}) = {} THEN "admitted" ELSE "queued"
  <2>2. Moved(r, {"admission"}, q, answer[r])
    BY <1>4, <2>1, Untold DEF Enter, Moved
  <2>3. GateStages' = [GateStages EXCEPT ![r] = GateStage(q, answer[r])]
    BY <2>2, OneStage
  <2>4. GateStage(q, answer[r]) =
          IF Gate!PermitFree /\ Gate!In({"waiting"}) = {} THEN "inside" ELSE "waiting"
    BY SameCounts DEF GateStage, InGate
  <2>5. Gate!PlaceFree
    BY <1>4, SameCounts DEF Enter
  <2> QED  BY <2>1, <2>3, <2>4, <2>5 DEF Gate!Enter, Gate!Move
<1>5. ASSUME NEW r \in Requests, Admit(r)
      PROVE  Gate!Admit(r)
  <2>1. Moved(r, {"queued"}, "admitted", answer[r])
    BY <1>5, Untold DEF Admit, Moved
  <2>2. GateStages[r] = "waiting" /\ GateStage("admitted", answer[r]) = "inside"
    BY <2>1 DEF Moved, GateStages, GateStage, InGate
  <2>3. Gate!PermitFree
    BY <1>5, SameCounts DEF Admit
  <2> QED  BY <2>1, <2>2, <2>3, OneStage DEF Gate!Admit, Gate!Move
<1>6. ASSUME NEW r \in Requests, RefuseFull(r)
      PROVE  Gate!TurnAway(r)
  <2>1. Moved(r, {"admission"}, "done", "queue_full")
    BY <1>6 DEF RefuseFull, Fail, Moved
  <2>2. GateStages[r] = "outside" /\ GateStage("done", "queue_full") = "full"
    BY <2>1 DEF Moved, GateStages, GateStage, InGate
  <2>3. ~Gate!PlaceFree
    BY <1>6, SameCounts DEF RefuseFull
  <2> QED  BY <2>1, <2>2, <2>3, OneStage DEF Gate!TurnAway, Gate!Move
<1> QED
  BY <1>1, <1>2, <1>3, <1>4, <1>5, <1>6, StepAtGate DEF Gate!Next

-----------------------------------------------------------------------------
(* The refinement.                                                         *)

\* ImplementsGate: the way create_chat and send_message pass through
\* LLMExecutionGate is a behaviour of ExecutionGate, for every pool and gate.
THEOREM Refinement == Spec => ImplementsGate
<1>1. Init => GateInv /\ Gate!Init
  BY DEF Init, GateInv, Answer, Gate!Init, GateStages, GateStage, InGate
<1>2. GateInv /\ [Next]_vars => GateInv'
  BY GateInvKept
<1>3. GateInv /\ [Next]_vars => [Gate!Next]_GateStages
  BY StepMaps
<1> QED  BY <1>1, <1>2, <1>3, PTL DEF Spec, ImplementsGate, Gate!Spec
=============================================================================
