---------------------------- MODULE ChatRequests ----------------------------
(***************************************************************************)
(* The requests that write chats: ChatService.create_chat, send_message    *)
(* and delete_chat, from get_db to its commit, with the two resources they *)
(* compete for: the connections of the engine's pool and the places of the *)
(* execution gate.                                                         *)
(*                                                                         *)
(* A request keeps the connection of its session from its first statement  *)
(* until get_db has committed or rolled back; a charge takes a second one. *)
(* The answer is sent before get_db commits. The gate, the breaker and the *)
(* charge are abstracted to their outcomes; Resilience and Quota are their *)
(* details.                                                                *)
(***************************************************************************)
EXTENDS Integers, FiniteSets

CONSTANTS
  Requests,       \* requests; each is made at most once
  Users,          \* the callers
  Chats,          \* numbers that stand for chat ids
  Stored,         \* the chats there may be at the start
  Nobody,         \* the owner of a chat that is not in core.chats
  Connections,    \* config.db.pool_size; max_overflow is 0
  Permits,        \* config.resilience.pool_size
  QueueSize,      \* config.resilience.queue_size
  ChatsLimit,     \* config.chats_limit
  MessagesLimit,  \* config.messages_limit
  MaxFaults       \* bound: requests that fail or die half-way

\* The bounds the configuration validates; there is an id for every new chat.
ASSUME ChatsAssumption ==
  /\ IsFiniteSet(Requests)
  /\ Chats \subseteq Nat /\ Stored \subseteq Chats /\ Nobody \notin Users
  /\ IsFiniteSet(Chats) /\ Cardinality(Requests) <= Cardinality(Chats \ Stored)
  /\ Connections \in Nat \ {0} /\ Permits \in Nat \ {0} /\ QueueSize \in Nat \ {0}
  /\ ChatsLimit \in Nat \ {0} /\ MessagesLimit \in Nat \ {0} /\ MaxFaults \in Nat

VARIABLES
  owner,     \* core.chats: user_id of each stored chat
  messages,  \* core.messages: how many AI messages each chat has
  pc,        \* where each request is
  call,      \* what each request asks for
  answer,    \* what the client was told
  charged,   \* the requests whose charge was committed
  kept,      \* the requests whose messages were committed
  faulted    \* the requests hit by a fault

store == <<owner, messages, kept>>
vars == <<store, pc, call, answer, charged, faulted>>

-----------------------------------------------------------------------------
(* Types.                                                                  *)

Kind == {"create", "follow", "delete"}
Call == [kind : Kind, user : Users, chat : Chats] \cup {[kind |-> "none"]}

\* admission(): queued for a permit, admitted, charging, calling the provider.
InGate == {"queued", "admitted", "charging", "calling"}

\* The stages in which get_db's session has its connection.
InSession == {"connected", "admission", "answered", "deleting"} \cup InGate

Answer == {"none", "limit_reached", "invalid_chat", "circuit_open", "queue_full",
           "quota_exceeded", "provider_error", "answered", "pool_timeout", "failed"}

At(stages) == {r \in Requests : pc[r] \in stages}

\* Connections checked out: a charge has its own beside the session's.
InUse == Cardinality(At(InSession)) + Cardinality(At({"charging"}))

TypeOK ==
  /\ owner \in [Chats -> Users \cup {Nobody}]
  /\ messages \in [Chats -> Nat]
  /\ pc \in [Requests -> {"idle", "begin", "done"} \cup InSession]
  /\ call \in [Requests -> Call]
  /\ \A r \in Requests : pc[r] # "idle" => call[r].kind \in Kind
  /\ answer \in [Requests -> Answer]
  /\ charged \subseteq Requests /\ kept \subseteq Requests /\ faulted \subseteq Requests
  /\ InUse <= Connections

ChatsOf(u) == {c \in Chats : owner[c] = u}

\* A stored chat has one AI message or more.
Init ==
  /\ owner \in [Chats -> Users \cup {Nobody}]
  /\ messages \in [Chats -> 0..MessagesLimit]
  /\ \A c \in Chats : /\ owner[c] # Nobody <=> messages[c] > 0
                      /\ owner[c] # Nobody => c \in Stored
  /\ \A u \in Users : Cardinality(ChatsOf(u)) <= ChatsLimit
  /\ pc = [r \in Requests |-> "idle"]
  /\ call = [r \in Requests |-> [kind |-> "none"]]
  /\ answer = [r \in Requests |-> "none"]
  /\ charged = {} /\ kept = {} /\ faulted = {}

-----------------------------------------------------------------------------
(* Requests arrive.                                                        *)

Named == {call[r].chat : r \in {q \in Requests : pc[q] # "idle"}}

\* uuid4 of create_chat: an id nobody has seen.
FreshChat ==
  CHOOSE c \in Chats : c \notin Stored /\ owner[c] = Nobody /\ c \notin Named

\* What a client can name: a chat stored at the start or one it was told of.
Known(c) == c \in Stored \/ \E r \in Requests : answer[r] = "answered" /\ call[r].chat = c

Begin(r, c) ==
  /\ pc[r] = "idle"
  /\ call' = [call EXCEPT ![r] = c]
  /\ pc' = [pc EXCEPT ![r] = "begin"]
  /\ UNCHANGED <<store, answer, charged, faulted>>

BeginCreate(r) ==
  \E u \in Users : Begin(r, [kind |-> "create", user |-> u, chat |-> FreshChat])

BeginOnChat(r) ==
  \E k \in {"follow", "delete"}, u \in Users, c \in Chats :
    Known(c) /\ Begin(r, [kind |-> k, user |-> u, chat |-> c])

-----------------------------------------------------------------------------
(* Connections.                                                            *)

\* Mutant: the pool overflows.
FreeAlways == TRUE

Free == InUse < Connections

\* The first statement checks out the session's connection.
Connect(r) ==
  /\ pc[r] = "begin"
  /\ Free
  /\ pc' = [pc EXCEPT ![r] = "connected"]
  /\ UNCHANGED <<store, call, answer, charged, faulted>>

\* Mutant: a charge waits for its connection without a limit.
PoolTimeoutAtBegin(r) ==
  /\ pc[r] = "begin"
  /\ ~Free
  /\ pc' = [pc EXCEPT ![r] = "done"]
  /\ answer' = [answer EXCEPT ![r] = "pool_timeout"]
  /\ UNCHANGED <<store, call, charged, faulted>>

\* A checkout that found no connection in time raises; get_db rolls back.
PoolTimeout(r) ==
  /\ pc[r] \in {"begin", "admitted"}
  /\ ~Free
  /\ pc' = [pc EXCEPT ![r] = "done"]
  /\ answer' = [answer EXCEPT ![r] = "pool_timeout"]
  /\ UNCHANGED <<store, call, charged, faulted>>

\* An error out of the handler: get_db rolls back, then the client is told.
Fail(r, a) ==
  /\ pc' = [pc EXCEPT ![r] = "done"]
  /\ answer' = [answer EXCEPT ![r] = a]
  /\ UNCHANGED <<store, call>>

-----------------------------------------------------------------------------
(* The checks before admission.                                            *)

Stands(c, u) == owner[c] = u

\* Mutant: a chat more than the limit.
ChatsFullLate(u) == Cardinality(ChatsOf(u)) > ChatsLimit

ChatsFull(u) == Cardinality(ChatsOf(u)) >= ChatsLimit

\* Mutant: the message about to be made is not counted.
MessagesFullLate(c) == messages[c] > MessagesLimit

MessagesFull(c) == messages[c] + 1 > MessagesLimit

CountChats(r) ==
  /\ pc[r] = "connected" /\ call[r].kind = "create"
  /\ IF ChatsFull(call[r].user)
       THEN Fail(r, "limit_reached")
       ELSE pc' = [pc EXCEPT ![r] = "admission"] /\ UNCHANGED <<store, call, answer>>
  /\ UNCHANGED <<charged, faulted>>

LoadChat(r) ==
  /\ pc[r] = "connected" /\ call[r].kind = "follow"
  /\ \/ ~Stands(call[r].chat, call[r].user) /\ Fail(r, "invalid_chat")
     \/ /\ Stands(call[r].chat, call[r].user)
        /\ IF MessagesFull(call[r].chat)
             THEN Fail(r, "limit_reached")
             ELSE pc' = [pc EXCEPT ![r] = "admission"] /\ UNCHANGED <<store, call, answer>>
  /\ UNCHANGED <<charged, faulted>>

-----------------------------------------------------------------------------
(* Admission, the charge and the provider call.                            *)

\* The breaker is open; Resilience says when.
RefuseOpen(r) ==
  /\ pc[r] = "admission"
  /\ Fail(r, "circuit_open")
  /\ UNCHANGED <<charged, faulted>>

\* Mutant: the queue has no bound.
GateFullNever == FALSE

GateFull == Cardinality(At(InGate)) >= Permits + QueueSize

RefuseFull(r) ==
  /\ pc[r] = "admission"
  /\ GateFull
  /\ Fail(r, "queue_full")
  /\ UNCHANGED <<charged, faulted>>

PermitFree == Cardinality(At(InGate \ {"queued"})) < Permits

Enter(r) ==
  /\ pc[r] = "admission"
  /\ ~GateFull
  /\ pc' = [pc EXCEPT ![r] = IF PermitFree /\ At({"queued"}) = {} THEN "admitted" ELSE "queued"]
  /\ UNCHANGED <<store, call, answer, charged, faulted>>

Admit(r) ==
  /\ pc[r] = "queued"
  /\ PermitFree
  /\ pc' = [pc EXCEPT ![r] = "admitted"]
  /\ UNCHANGED <<store, call, answer, charged, faulted>>

\* QuotaService.charge opens its own session.
OpenCharge(r) ==
  /\ pc[r] = "admitted"
  /\ Free
  /\ pc' = [pc EXCEPT ![r] = "charging"]
  /\ UNCHANGED <<store, call, answer, charged, faulted>>

\* Mutant: a refused charge is committed all the same.
ChargeRegardless(r) ==
  /\ pc[r] = "charging"
  /\ charged' = charged \cup {r}
  /\ \/ pc' = [pc EXCEPT ![r] = "calling"] /\ UNCHANGED <<store, call, answer>>
     \/ Fail(r, "quota_exceeded")
  /\ UNCHANGED faulted

Charge(r) ==
  /\ pc[r] = "charging"
  /\ \/ /\ pc' = [pc EXCEPT ![r] = "calling"]
        /\ charged' = charged \cup {r}
        /\ UNCHANGED <<store, call, answer>>
     \/ Fail(r, "quota_exceeded") /\ UNCHANGED charged
  /\ UNCHANGED faulted

\* A provider error, or an answer ask_llm rejects.
CallFails(r) ==
  /\ pc[r] = "calling"
  /\ Fail(r, "provider_error")
  /\ UNCHANGED <<charged, faulted>>

CallSucceeds(r) ==
  /\ pc[r] = "calling"
  /\ pc' = [pc EXCEPT ![r] = "answered"]
  /\ answer' = [answer EXCEPT ![r] = "answered"]
  /\ UNCHANGED <<store, call, charged, faulted>>

-----------------------------------------------------------------------------
(* The commit after the answer.                                            *)

\* Another transaction has deleted the row and not committed.
RowLocked(c) == \E q \in Requests : pc[q] = "deleting" /\ call[q].chat = c

\* Mutant: the handler ends without the commit.
PersistChatLost(r) ==
  /\ pc[r] = "answered" /\ call[r].kind = "create"
  /\ pc' = [pc EXCEPT ![r] = "done"]
  /\ UNCHANGED <<store, call, answer, charged, faulted>>

PersistChat(r) ==
  /\ pc[r] = "answered" /\ call[r].kind = "create"
  /\ owner' = [owner EXCEPT ![call[r].chat] = call[r].user]
  /\ messages' = [messages EXCEPT ![call[r].chat] = 1]
  /\ kept' = kept \cup {r}
  /\ pc' = [pc EXCEPT ![r] = "done"]
  /\ UNCHANGED <<call, answer, charged, faulted>>

\* Mutant: messages have no foreign key.
ParentOKAlways(c) == TRUE

ParentOK(c) == owner[c] # Nobody

\* The insert takes a share lock on its chat, and fails without one.
PersistMessages(r) ==
  /\ pc[r] = "answered" /\ call[r].kind = "follow"
  /\ ~RowLocked(call[r].chat)
  /\ IF ParentOK(call[r].chat)
       THEN /\ messages' = [messages EXCEPT ![call[r].chat] = @ + 1]
            /\ kept' = kept \cup {r}
       ELSE UNCHANGED <<messages, kept>>
  /\ pc' = [pc EXCEPT ![r] = "done"]
  /\ UNCHANGED <<owner, call, answer, charged, faulted>>

-----------------------------------------------------------------------------
(* delete_chat.                                                            *)

\* The statement waits for the row and reads it again.
Delete(r) ==
  /\ pc[r] = "connected" /\ call[r].kind = "delete"
  /\ ~RowLocked(call[r].chat)
  /\ IF Stands(call[r].chat, call[r].user)
       THEN /\ pc' = [pc EXCEPT ![r] = "deleting"]
            /\ answer' = [answer EXCEPT ![r] = "answered"]
            /\ UNCHANGED <<store, call>>
       ELSE Fail(r, "invalid_chat")
  /\ UNCHANGED <<charged, faulted>>

\* ON DELETE CASCADE takes the messages.
CommitDelete(r) ==
  /\ pc[r] = "deleting"
  /\ owner' = [owner EXCEPT ![call[r].chat] = Nobody]
  /\ messages' = [messages EXCEPT ![call[r].chat] = 0]
  /\ pc' = [pc EXCEPT ![r] = "done"]
  /\ UNCHANGED <<kept, call, answer, charged, faulted>>

-----------------------------------------------------------------------------
(* Faults, and the whole.                                                  *)

\* A lost connection, a cancelled request, a commit that fails after the
\* answer: the transaction is gone, what was charged stays charged.
Interrupt(r) ==
  /\ pc[r] \in {"begin"} \cup InSession
  /\ Cardinality(faulted) < MaxFaults
  /\ faulted' = faulted \cup {r}
  /\ pc' = [pc EXCEPT ![r] = "done"]
  /\ answer' = [answer EXCEPT ![r] = IF @ = "none" THEN "failed" ELSE @]
  /\ UNCHANGED <<store, call, charged>>

\* Every request has ended: the model, not the system, stops here.
Quiesce == (\A r \in Requests : pc[r] = "done") /\ UNCHANGED vars

Advance(r) ==
  \/ Connect(r) \/ CountChats(r) \/ LoadChat(r)
  \/ RefuseFull(r) \/ Enter(r) \/ Admit(r) \/ OpenCharge(r) \/ Charge(r)
  \/ CallFails(r) \/ CallSucceeds(r)
  \/ PersistChat(r) \/ PersistMessages(r) \/ Delete(r) \/ CommitDelete(r)

Next ==
  \/ \E r \in Requests :
       \/ BeginCreate(r) \/ BeginOnChat(r)
       \/ RefuseOpen(r) \/ PoolTimeout(r) \/ Interrupt(r)
       \/ Advance(r)
  \/ Quiesce

Spec == Init /\ [][Next]_vars

\* Coroutines run, statements and provider calls end. No pool timeout is made
\* to act: a property that holds under FairSpec does not rest on one.
FairSpec == Spec /\ \A r \in Requests : WF_vars(Advance(r))

\* The same where a checkout also ends: with a connection or, pool_timeout
\* seconds later, without one.
TimeoutSpec == Spec /\ \A r \in Requests : WF_vars(Advance(r) \/ PoolTimeout(r))

-----------------------------------------------------------------------------
(* Properties.                                                             *)

\* chats_limit is checked long before the insert. What bounds a user's chats
\* all the same is that each request between the two holds a connection.
ChatsBounded ==
  \A u \in Users : Cardinality(ChatsOf(u)) <= ChatsLimit - 1 + Connections

\* Likewise messages_limit and the AI messages of one chat.
MessagesBounded ==
  \A c \in Chats : messages[c] <= MessagesLimit - 1 + Connections

\* An answer the client was sent is in its chat afterwards, although the commit
\* comes after it, unless the commit failed or the chat was deleted meanwhile.
AnsweredIsKept ==
  \A r \in Requests :
    /\ pc[r] = "done" /\ answer[r] = "answered" /\ call[r].kind # "delete"
    /\ r \notin faulted
    => r \in kept \/ (call[r].kind = "follow" /\ owner[call[r].chat] = Nobody)

\* A deleted chat is gone with its messages, and no follow-up that was at the
\* provider meanwhile brings any of it back.
DeletedIsGone ==
  /\ \A c \in Chats : owner[c] = Nobody => messages[c] = 0
  /\ \A r \in Requests :
       /\ pc[r] = "done" /\ answer[r] = "answered" /\ call[r].kind = "delete"
       /\ r \notin faulted
       => owner[call[r].chat] = Nobody

\* A credit is spent on exactly the requests the provider was called for: a
\* request refused at any earlier point is not charged, none is served free.
ChargedIsServed ==
  \A r \in Requests :
    pc[r] = "done" /\ r \notin faulted =>
      (r \in charged <=> /\ call[r].kind # "delete"
                         /\ answer[r] \in {"answered", "provider_error"})

\* Requests that can go on without a connection or a permit of others.
Moving == At(InSession \ {"queued", "admitted"})

\* A request keeps one connection while it waits for a second. With more
\* connections than places in the gate this never locks the pool up: when all
\* are taken, someone who holds one waits for none.
PoolNeverStuck ==
  Connections > Permits + QueueSize => (~Free => Moving # {})

\* A request as the gate sees it: one that was answered has left.
GateStage(p, a) ==
  IF p = "queued" THEN "waiting"
  ELSE IF p \in InGate THEN "inside"
  ELSE IF p \notin {"answered", "done"} THEN "outside"
  ELSE IF a = "queue_full" THEN "full" ELSE "left"

GateStages == [r \in Requests |-> GateStage(pc[r], answer[r])]

Gate == INSTANCE ExecutionGate WITH stage <- GateStages

\* The gate these requests pass is the one LLMExecutionGate implements: no more
\* than Permits at the provider, no more than QueueSize waiting, none overtaken
\* by a newcomer and none refused while there is a place.
ImplementsGate == Gate!Spec

\* With such a pool every request is answered without a checkout timing out
\* (FairSpec). With a smaller one, as in the default configuration, the requests
\* in the gate can take every connection and the admitted ones wait for another:
\* the timeout of the checkout is what answers them then (TimeoutSpec).
EveryRequestAnswered ==
  \A r \in Requests : (pc[r] # "idle") ~> (pc[r] = "done")
=============================================================================
