---------------------------- MODULE ExecutionGate ----------------------------
(***************************************************************************)
(* What LLMExecutionGate promises the requests that pass through it: at    *)
(* most Permits inside, at most QueueSize more let in to wait, and a       *)
(* refusal for want of a place only when there is none. Resilience         *)
(* implements it; ChatRequests uses it.                                    *)
(***************************************************************************)
EXTENDS Integers, FiniteSets

CONSTANTS Requests, Permits, QueueSize

VARIABLE stage  \* outside, waiting, inside, left, or turned away from a full gate

In(stages) == {r \in Requests : stage[r] \in stages}

PlaceFree == Cardinality(In({"waiting", "inside"})) < Permits + QueueSize

PermitFree == Cardinality(In({"inside"})) < Permits

Move(r, from, to) == stage[r] = from /\ stage' = [stage EXCEPT ![r] = to]

Init == stage = [r \in Requests |-> "outside"]

\* A newcomer overtakes nobody: it waits if anybody does.
Enter(r) ==
  /\ PlaceFree
  /\ Move(r, "outside", IF PermitFree /\ In({"waiting"}) = {} THEN "inside" ELSE "waiting")

Admit(r) == PermitFree /\ Move(r, "waiting", "inside")

TurnAway(r) == ~PlaceFree /\ Move(r, "outside", "full")

\* The body ends, a waiter is cancelled, or the request never came to the gate.
Leave(r) == \E from \in {"outside", "waiting", "inside"} : Move(r, from, "left")

Next == \E r \in Requests : Enter(r) \/ Admit(r) \/ TurnAway(r) \/ Leave(r)

Spec == Init /\ [][Next]_stage
=============================================================================
