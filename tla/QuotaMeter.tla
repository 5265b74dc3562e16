----------------------------- MODULE QuotaMeter -----------------------------
(***************************************************************************)
(* What QuotaService.charge promises of one usage row: every change of a   *)
(* meter is one atomic charge, made while the grant is active, against the *)
(* count the meter shows at that moment.                                   *)
(***************************************************************************)
EXTENDS Integers

CONSTANTS
  Grants,      \* grants
  Months,      \* calendar months
  Credits      \* [Grants -> Nat]: credits per month of the grant's tier

VARIABLES
  active,      \* grants in force
  period,      \* [Grants -> month of the meter, or -1: there is no meter]
  used         \* [Grants -> credits used in that month]

mvars == <<active, period, used>>

MInit ==
  /\ active = {}
  /\ period = [g \in Grants |-> -1]
  /\ used = [g \in Grants |-> 0]

\* A grant comes into force, with a meter at zero or with none.
MOpen(g, p) ==
  /\ g \notin active /\ period[g] = -1
  /\ active' = active \cup {g}
  /\ period' = [period EXCEPT ![g] = p]
  /\ UNCHANGED used

MClose(g) ==
  /\ g \in active
  /\ active' = active \ {g}
  /\ UNCHANGED <<period, used>>

\* One credit of month p: a meter that shows another month starts again.
MCharge(g, p) ==
  /\ g \in active /\ period[g] # -1
  /\ LET spent == IF period[g] = p THEN used[g] ELSE 0 IN
     /\ spent < Credits[g]
     /\ used' = [used EXCEPT ![g] = spent + 1]
  /\ period' = [period EXCEPT ![g] = p]
  /\ UNCHANGED active

MNext ==
  \E g \in Grants :
    \/ MClose(g)
    \/ \E p \in Months : MCharge(g, p)
    \/ \E p \in Months \cup {-1} : MOpen(g, p)

MSpec == MInit /\ [][MNext]_mvars
=============================================================================
