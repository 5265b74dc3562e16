----------------------------- MODULE Resilience -----------------------------
(***************************************************************************)
(* Access to the language model: ResiliencePolicy with its circuit breaker *)
(* and its execution gate (in-flight slots around a FIFO semaphore).       *)
(*                                                                         *)
(* Requests are coroutines of one event loop: what runs between two awaits *)
(* that suspend is one step. The breaker's lock is never held across such  *)
(* an await, so each of its methods is atomic. The semaphore is asyncio's: *)
(* a release hands its permit to the first waiter, which runs later; a     *)
(* newcomer takes a permit only if nobody waits.                           *)
(***************************************************************************)
EXTENDS Integers, Sequences, FiniteSets

CONSTANTS
  Requests,      \* requests; each is made at most once
  PoolSize,      \* pool_size: permits of the semaphore
  QueueSize,     \* queue_size: slots beyond the permits
  Threshold,     \* circuit_breaker_failure_threshold
  ResetSeconds,  \* circuit_breaker_reset_seconds
  MaxAttempts,   \* retry_max_attempts
  Closed,        \* the breaker's _opened_at is None
  MaxTime,       \* bound: the clock stops here
  MaxFaults      \* bound: cancelled requests

\* The bounds ResilienceConfig validates.
ASSUME ResilienceAssumption ==
  /\ PoolSize \in Nat \ {0} /\ QueueSize \in Nat \ {0}
  /\ Threshold \in Nat \ {0} /\ ResetSeconds \in Nat \ {0} /\ MaxAttempts \in Nat \ {0}
  /\ Closed \notin Nat /\ MaxTime \in Nat /\ MaxFaults \in Nat

VARIABLES
  now,           \* time.monotonic(), in seconds
  openedAt,      \* CircuitBreaker._opened_at
  failures,      \* CircuitBreaker._failure_count
  slots,         \* tokens left in LLMExecutionGate._slots
  permits,       \* the semaphore's value
  waiting,       \* requests waiting for a permit, first come first
  pc,            \* where each request is
  attempt,       \* provider calls each request has made
  answer,        \* how each request ended
  faults         \* how many requests were cancelled

breaker == <<openedAt, failures>>
gate == <<slots, permits, waiting>>
vars == <<now, breaker, gate, pc, attempt, answer, faults>>

-----------------------------------------------------------------------------
(* Types.                                                                  *)

\* "granted": handed a permit, and not run since.
Running == {"granted", "admitted", "calling", "backoff"}

Answer == {"none", "circuit_open", "queue_full", "charge_refused", "answered",
           "transient_error", "permanent_error", "cancelled"}

TypeOK ==
  /\ now \in 0..MaxTime
  /\ openedAt \in 0..MaxTime \cup {Closed}
  /\ failures \in Nat
  /\ slots \in 0..(PoolSize + QueueSize)
  /\ permits \in 0..PoolSize
  /\ waiting \in Seq(Requests)
  /\ pc \in [Requests -> {"idle", "queued", "done"} \cup Running]
  /\ attempt \in [Requests -> 0..MaxAttempts]
  /\ answer \in [Requests -> Answer]
  /\ faults \in 0..MaxFaults

Init ==
  /\ now = 0
  /\ openedAt = Closed /\ failures = 0
  /\ slots = PoolSize + QueueSize /\ permits = PoolSize /\ waiting = <<>>
  /\ pc = [r \in Requests |-> "idle"]
  /\ attempt = [r \in Requests |-> 0]
  /\ answer = [r \in Requests |-> "none"]
  /\ faults = 0

-----------------------------------------------------------------------------
(* The semaphore.                                                          *)

Least(a, b) == IF a < b THEN a ELSE b

\* n of the p permits go to the first of the waiting w; the rest stay free.
\* `stage` is where everybody else is by then.
Hand(n, p, w, stage) ==
  /\ permits' = p - n
  /\ waiting' = SubSeq(w, n + 1, Len(w))
  /\ pc' = [q \in Requests |-> IF \E i \in 1..n : w[i] = q THEN "granted" ELSE stage[q]]

\* Mutant: the slot is not put back when the body raises.
LeaveKeepingSlot(r, a) ==
  /\ Hand(Least(1, Len(waiting)), permits + 1, waiting, [pc EXCEPT ![r] = "done"])
  /\ slots' = IF a = "answered" THEN slots + 1 ELSE slots
  /\ answer' = [answer EXCEPT ![r] = a]

\* Mutant: the permit is put back and no waiter is told.
LeaveUnwoken(r, a) ==
  /\ Hand(0, permits + 1, waiting, [pc EXCEPT ![r] = "done"])
  /\ slots' = slots + 1
  /\ answer' = [answer EXCEPT ![r] = a]

\* Leaving LLMExecutionGate.hold(): the permit goes to the first waiter, the
\* slot is put back.
Leave(r, a) ==
  /\ Hand(Least(1, Len(waiting)), permits + 1, waiting, [pc EXCEPT ![r] = "done"])
  /\ slots' = slots + 1
  /\ answer' = [answer EXCEPT ![r] = a]

Refuse(r, a) ==
  /\ pc' = [pc EXCEPT ![r] = "done"]
  /\ answer' = [answer EXCEPT ![r] = a]

-----------------------------------------------------------------------------
(* The circuit breaker.                                                    *)

IsOpen == openedAt # Closed

\* before_call: past the reset time a call finds the breaker closed.
Blocks == IsOpen /\ now - openedAt < ResetSeconds

BeforeCall ==
  /\ ~Blocks
  /\ openedAt' = Closed
  /\ failures' = IF IsOpen THEN 0 ELSE failures

\* Mutant: a success forgets the failures and leaves the breaker as it is.
RecordSuccessHalf == failures' = 0 /\ UNCHANGED openedAt

RecordSuccess == failures' = 0 /\ openedAt' = Closed

\* Mutant: a failure while the breaker is open opens it again.
RecordFailureReopens ==
  /\ failures' = failures + 1
  /\ openedAt' = IF failures' >= Threshold THEN now ELSE openedAt

\* A failure while the breaker is open is not counted.
RecordFailure ==
  \/ IsOpen /\ UNCHANGED breaker
  \/ /\ ~IsOpen
     /\ failures' = failures + 1
     /\ openedAt' = IF failures' >= Threshold THEN now ELSE Closed

-----------------------------------------------------------------------------
(* admission().                                                            *)

RefuseOpen(r) ==
  /\ pc[r] = "idle"
  /\ Blocks
  /\ Refuse(r, "circuit_open")
  /\ UNCHANGED <<now, breaker, gate, attempt, faults>>

\* Mutant: the queue of tokens is never found empty.
NoSlotNever == FALSE

\* Mutant: one token too few.
NoSlotEarly == slots <= 1

NoSlot == slots = 0

RefuseFull(r) ==
  /\ pc[r] = "idle"
  /\ BeforeCall
  /\ NoSlot
  /\ Refuse(r, "queue_full")
  /\ UNCHANGED <<now, gate, attempt, faults>>

\* asyncio.Semaphore.locked(): no permit, or a waiter that has not run yet.
Locked == permits = 0 \/ \E q \in Requests : pc[q] \in {"queued", "granted"}

Enter(r) ==
  /\ pc[r] = "idle"
  /\ BeforeCall
  /\ ~NoSlot
  /\ slots' = slots - 1
  /\ \/ /\ Locked
        /\ pc' = [pc EXCEPT ![r] = "queued"]
        /\ waiting' = Append(waiting, r)
        /\ UNCHANGED permits
     \/ /\ ~Locked
        /\ pc' = [pc EXCEPT ![r] = "admitted"]
        /\ permits' = permits - 1
        /\ UNCHANGED waiting
  /\ UNCHANGED <<now, attempt, answer, faults>>

\* A waiter runs with its permit, hands on any others, and is admitted.
Resume(r) ==
  /\ pc[r] = "granted"
  /\ Hand(Least(permits, Len(waiting)), permits, waiting, [pc EXCEPT ![r] = "admitted"])
  /\ UNCHANGED <<now, breaker, slots, attempt, answer, faults>>

-----------------------------------------------------------------------------
(* The body of ChatService.create_chat and send_message.                   *)

\* QuotaService.charge, and then the first provider call.
Charge(r) ==
  /\ pc[r] = "admitted"
  /\ \/ /\ pc' = [pc EXCEPT ![r] = "calling"]
        /\ attempt' = [attempt EXCEPT ![r] = 1]
        /\ UNCHANGED <<gate, answer>>
     \/ /\ Leave(r, "charge_refused")
        /\ UNCHANGED attempt
  /\ UNCHANGED <<now, breaker, faults>>

CallSucceeds(r) ==
  /\ pc[r] = "calling"
  /\ RecordSuccess
  /\ Leave(r, "answered")
  /\ UNCHANGED <<now, attempt, faults>>

\* A transient error, or the timeout of wait_for.
CallFailsTransient(r) ==
  /\ pc[r] = "calling"
  /\ RecordFailure
  /\ \/ /\ attempt[r] < MaxAttempts
        /\ pc' = [pc EXCEPT ![r] = "backoff"]
        /\ UNCHANGED <<gate, answer>>
     \/ /\ attempt[r] = MaxAttempts
        /\ Leave(r, "transient_error")
  /\ UNCHANGED <<now, attempt, faults>>

CallFailsPermanent(r) ==
  /\ pc[r] = "calling"
  /\ RecordFailure
  /\ Leave(r, "permanent_error")
  /\ UNCHANGED <<now, attempt, faults>>

\* The backoff is over; the breaker is not asked again.
Retry(r) ==
  /\ pc[r] = "backoff"
  /\ pc' = [pc EXCEPT ![r] = "calling"]
  /\ attempt' = [attempt EXCEPT ![r] = @ + 1]
  /\ UNCHANGED <<now, breaker, gate, answer, faults>>

-----------------------------------------------------------------------------
(* Cancellation and the clock.                                             *)

Fault == faults < MaxFaults /\ faults' = faults + 1

\* CancelledError is no Exception: the breaker hears nothing of it.
CancelRunning(r) ==
  /\ pc[r] \in Running \ {"granted"}
  /\ Leave(r, "cancelled")
  /\ Fault
  /\ UNCHANGED <<now, breaker, attempt>>

\* The waiters w once r has left their queue.
Without(w, r) ==
  LET k == CHOOSE i \in 1..Len(w) : w[i] = r
  IN  SubSeq(w, 1, k - 1) \o SubSeq(w, k + 1, Len(w))

\* A cancelled waiter leaves the queue, or gives back the permit it was handed.
CancelWaiter(r) ==
  /\ pc[r] \in {"queued", "granted"}
  /\ LET handed == pc[r] = "granted"
         others == IF handed THEN waiting ELSE Without(waiting, r)
         free == IF handed THEN permits + 1 ELSE permits
     IN Hand(Least(free, Len(others)), free, others, [pc EXCEPT ![r] = "done"])
  /\ slots' = slots + 1
  /\ answer' = [answer EXCEPT ![r] = "cancelled"]
  /\ Fault
  /\ UNCHANGED <<now, breaker, attempt>>

Tick ==
  /\ now < MaxTime
  /\ now' = now + 1
  /\ UNCHANGED <<breaker, gate, pc, attempt, answer, faults>>

\* Every request has ended: the model, not the system, stops here.
Quiesce == (\A r \in Requests : pc[r] = "done") /\ UNCHANGED vars

Advance(r) ==
  \/ Resume(r) \/ Charge(r) \/ Retry(r)
  \/ CallSucceeds(r) \/ CallFailsTransient(r) \/ CallFailsPermanent(r)

Next ==
  \/ \E r \in Requests :
       \/ RefuseOpen(r) \/ RefuseFull(r) \/ Enter(r)
       \/ Advance(r)
       \/ CancelRunning(r) \/ CancelWaiter(r)
  \/ Tick
  \/ Quiesce

Spec == Init /\ [][Next]_vars

\* The event loop runs every ready coroutine; a provider call ends, at the
\* latest, at its timeout, a backoff after its bounded delay, a charge with
\* the database's answer.
FairSpec == Spec /\ \A r \in Requests : WF_vars(Advance(r))

-----------------------------------------------------------------------------
(* Properties.                                                             *)

In(stages) == {r \in Requests : pc[r] \in stages}

\* No way out of the gate, at any await, leaks or doubles a slot or a permit.
GateConserved ==
  /\ slots + Cardinality(In(Running \cup {"queued"})) = PoolSize + QueueSize
  /\ permits + Cardinality(In(Running)) = PoolSize
  /\ {waiting[i] : i \in 1..Len(waiting)} = In({"queued"})
  /\ Len(waiting) = Cardinality(In({"queued"}))

\* A waiter and a free permit meet only while a wake-up is on its way.
NoPermitWasted ==
  permits > 0 /\ waiting # <<>> => In({"granted"}) # {}

\* A request as those outside see it: a waiter waits until it runs.
GateStage(p, a) ==
  IF p = "idle" THEN "outside"
  ELSE IF p \in {"queued", "granted"} THEN "waiting"
  ELSE IF p # "done" THEN "inside"
  ELSE IF a = "queue_full" THEN "full" ELSE "left"

GateStages == [r \in Requests |-> GateStage(pc[r], answer[r])]

Gate == INSTANCE ExecutionGate WITH Permits <- PoolSize, stage <- GateStages

\* Slots, semaphore and wake-ups together are a gate: a place is refused only
\* when all are taken, and nobody is admitted beyond the permits or past those
\* who wait. (Two bodies that end together leave a free permit nobody may take
\* until a woken waiter runs: that waiter still waits.)
ImplementsGate == Gate!Spec

\* The breaker is open exactly when the failures reached the threshold: a
\* closed breaker at the threshold would never open again, an open one with
\* no failures would have been opened by nothing.
OpenAtThreshold == IsOpen <=> failures >= Threshold

\* Calls that were under way when the breaker opened cannot hold it open: their
\* failures neither move the opening nor count against the next one.
OpeningNeverMoves ==
  [][IsOpen /\ openedAt' # Closed => openedAt' = openedAt /\ failures' = failures]_vars

\* A request that was granted its permit is admitted, as Admitted's docstring
\* has it, while the breaker is closed.
AdmittedMeansClosed ==
  [][\A r \in Requests : pc[r] # "admitted" /\ pc'[r] = "admitted" => ~Blocks]_vars

\* Every request that waits, calls or backs off is answered.
EveryRequestAnswered ==
  \A r \in Requests : (pc[r] # "idle") ~> (pc[r] = "done")
=============================================================================
