-------------------------------- MODULE Quota --------------------------------
(***************************************************************************)
(* The monthly allowance: QuotaService.charge spends one unit of the       *)
(* caller's grant and SyncService.read_entitlement reports it.             *)
(*                                                                         *)
(* Every request is a process that runs one database statement at a time.  *)
(* A charge reads the clock once, before it waits for admission to the     *)
(* provider, and derives everything from that instant. It locks its grant  *)
(* rows, then the usage row, until its transaction ends (PostgreSQL, READ  *)
(* COMMITTED: a statement that waited for a row evaluates its condition    *)
(* again on the row it finds). The sync takes no lock. Grants are opened   *)
(* and revoked by writers this repository does not contain yet.            *)
(***************************************************************************)
EXTENDS Integers, FiniteSets

CONSTANTS
  Requests,     \* requests; each is made at most once
  Users,
  Grants,
  Owner,        \* [Grants -> Users]
  Credits,      \* [Grants -> Nat]: monthly_credits of the grant's tier
  NoGrant, NoRequest,
  Never,        \* ends_at IS NULL
  MonthLength,  \* ticks in a calendar month
  MaxTime,      \* bound: the clock stops here
  MaxFaults     \* bound: failed commits and interrupted requests

Month(t) == t \div MonthLength

Months == {Month(t) : t \in 0..MaxTime}

ASSUME QuotaAssumption ==
  /\ Owner \in [Grants -> Users] /\ Credits \in [Grants -> Nat]
  /\ NoGrant \notin Grants /\ NoRequest \notin Requests /\ Never \notin Nat
  /\ MonthLength \in Nat \ {0} /\ MaxTime \in Nat /\ MaxFaults \in Nat

VARIABLES
  now,          \* datetime.now(UTC)
  grants,       \* core.access_grants
  usage,        \* core.user_monthly_usage, committed
  grantLock,    \* who holds each grant row FOR UPDATE
  usageLock,    \* who holds each usage row FOR UPDATE
  pc,           \* where each request is
  call,         \* what it carries: user, evaluated_at, grants found, grant
  row,          \* the usage row it read, and has changed in its session
  answer,       \* what the caller is told
  report,       \* monthly_used as the sync reports it
  faults,       \* how many faults have happened
  ledger,       \* history: charges committed per grant and month captured
  receded       \* history: grants whose meter went back to an earlier month

store == <<grants, usage>>
history == <<ledger, receded>>
vars == <<now, store, grantLock, usageLock, pc, call, row, answer, report,
          faults, history>>

-----------------------------------------------------------------------------
(* Types.                                                                  *)

Grant == [status : {"absent", "active", "closed"}, starts : Nat,
          ends : Nat \cup {Never}]

UsageRow == [present : BOOLEAN, period : Months, used : Nat]

Call == [user : Users, at : 0..MaxTime, found : SUBSET Grants,
         grant : Grants \cup {NoGrant}]

Charging == {"find", "lock_grants", "lock_usage", "decide", "commit"}
Syncing == {"read_grants", "read_usage"}

Answer == {"none", "charged", "no_effective_grant", "multiple_effective_grants",
           "missing_usage_row", "allowance_exhausted", "entitled",
           "not_entitled", "internal_error"}

NoRow == [present |-> FALSE, period |-> 0, used |-> 0]

TypeOK ==
  /\ now \in 0..MaxTime
  /\ grants \in [Grants -> Grant]
  /\ usage \in [Grants -> UsageRow]
  /\ grantLock \in [Grants -> Requests \cup {NoRequest}]
  /\ usageLock \in [Grants -> Requests \cup {NoRequest}]
  /\ pc \in [Requests -> {"idle", "done"} \cup Charging \cup Syncing]
  /\ call \in [Requests -> Call]
  /\ row \in [Requests -> UsageRow]
  /\ answer \in [Requests -> Answer]
  /\ report \in [Requests -> Nat]
  /\ faults \in 0..MaxFaults
  /\ ledger \in [Grants -> [Months -> Nat]]
  /\ receded \in SUBSET Grants

Init ==
  /\ now = 0
  /\ grants = [g \in Grants |-> [status |-> "absent", starts |-> 0, ends |-> Never]]
  /\ usage = [g \in Grants |-> NoRow]
  /\ grantLock = [g \in Grants |-> NoRequest]
  /\ usageLock = [g \in Grants |-> NoRequest]
  /\ pc = [r \in Requests |-> "idle"]
  /\ call \in [Requests -> {[user |-> u, at |-> 0, found |-> {}, grant |-> NoGrant] :
                              u \in Users}]
  /\ row = [r \in Requests |-> NoRow]
  /\ answer = [r \in Requests |-> "none"]
  /\ report = [r \in Requests |-> 0]
  /\ faults = 0
  /\ ledger = [g \in Grants |-> [m \in Months |-> 0]]
  /\ receded = {}

-----------------------------------------------------------------------------
(* Sessions.                                                               *)

Goto(r, l) == pc' = [pc EXCEPT ![r] = l]

\* Mutant: FOR UPDATE is dropped from both statements.
FreeAlways(lock, r) == TRUE

Free(lock, r) == lock \in {NoRequest, r}

Released(locks, r) == [g \in Grants |-> IF locks[g] = r THEN NoRequest ELSE locks[g]]

\* Mutant: a session that raised keeps its transaction open.
EndSessionLeaked(r) == Goto(r, "done") /\ UNCHANGED <<grantLock, usageLock>>

\* The transaction of r ends and with it every lock it holds.
EndSession(r) ==
  /\ Goto(r, "done")
  /\ grantLock' = Released(grantLock, r)
  /\ usageLock' = Released(usageLock, r)

Answered(r, a) == answer' = [answer EXCEPT ![r] = a]

\* `raise`: rollback and the error's status.
Refuse(r, a) ==
  /\ EndSession(r)
  /\ Answered(r, a)
  /\ UNCHANGED <<now, store, call, row, report, faults, history>>

Fault == faults < MaxFaults /\ faults' = faults + 1

-----------------------------------------------------------------------------
(* GrantsDB: the shared predicate.                                         *)

Effective(g, r) ==
  /\ Owner[g] = call[r].user
  /\ grants[g].status = "active"
  /\ grants[g].starts <= call[r].at
  /\ grants[g].ends = Never \/ grants[g].ends > call[r].at

EffectiveGrants(r) == {g \in Grants : Effective(g, r)}

-----------------------------------------------------------------------------
(* QuotaService.charge.                                                    *)

\* get_chat_service captures evaluated_at; the request then waits for a place
\* at the provider, however long that takes, and charges.
BeginCharge(r) ==
  /\ pc[r] = "idle"
  /\ call' = [call EXCEPT ![r].at = now]
  /\ Goto(r, "find")
  /\ UNCHANGED <<now, store, grantLock, usageLock, row, answer, report, faults, history>>

\* The snapshot lock_effective_grants takes before it waits for any row.
FindGrants(r) ==
  /\ pc[r] = "find"
  /\ call' = [call EXCEPT ![r].found = EffectiveGrants(r)]
  /\ Goto(r, "lock_grants")
  /\ UNCHANGED <<now, store, grantLock, usageLock, row, answer, report, faults, history>>

\* Mutant: the condition is not evaluated again on the rows waited for.
StillEffectiveAsFound(r) == call[r].found

StillEffective(r) == {g \in call[r].found : Effective(g, r)}

LockGrants(r) ==
  /\ pc[r] = "lock_grants"
  /\ \A g \in call[r].found : Free(grantLock[g], r)
  /\ \/ \E g \in StillEffective(r) :
          /\ StillEffective(r) = {g}
          /\ grantLock' = [grantLock EXCEPT ![g] = r]
          /\ call' = [call EXCEPT ![r].grant = g]
          /\ Goto(r, "lock_usage")
          /\ UNCHANGED <<now, store, usageLock, row, answer, report, faults, history>>
     \/ /\ Cardinality(StillEffective(r)) # 1
        /\ Refuse(r, IF StillEffective(r) = {} THEN "no_effective_grant"
                     ELSE "multiple_effective_grants")

\* `None` is fail closed: no row is ever minted here.
LockUsage(r) ==
  /\ pc[r] = "lock_usage"
  /\ LET g == call[r].grant IN
     \/ /\ ~usage[g].present
        /\ Refuse(r, "missing_usage_row")
     \/ /\ usage[g].present
        /\ Free(usageLock[g], r)
        /\ usageLock' = [usageLock EXCEPT ![g] = r]
        /\ row' = [row EXCEPT ![r] = usage[g]]
        /\ Goto(r, "decide")
        /\ UNCHANGED <<now, store, grantLock, call, answer, report, faults, history>>

\* Mutant: there is no rollover.
RolledOverNever(u, t) == u

\* Mutant: the period moves and the count is kept.
RolledOverKept(u, t) == [u EXCEPT !.period = Month(t)]

\* Mutant: the period is stamped with the instant, not with its month.
RolledOverToInstant(u, t) ==
  IF u.period = Month(t) THEN u ELSE [u EXCEPT !.used = 0, !.period = t]

\* Any other month than the request's own starts the count again.
RolledOver(u, t) ==
  IF u.period = Month(t) THEN u ELSE [u EXCEPT !.used = 0, !.period = Month(t)]

\* Mutant: the comparison is off by one.
RemainingAndOne(g, u) == Credits[g] + 1 - u.used

Remaining(g, u) == IF u.used < Credits[g] THEN Credits[g] - u.used ELSE 0

Decide(r) ==
  /\ pc[r] = "decide"
  /\ LET rolled == RolledOver(row[r], call[r].at) IN
     \/ /\ Remaining(call[r].grant, rolled) = 0
        /\ Refuse(r, "allowance_exhausted")
     \/ /\ Remaining(call[r].grant, rolled) > 0
        /\ row' = [row EXCEPT ![r] = [rolled EXCEPT !.used = @ + 1]]
        /\ Goto(r, "commit")
        /\ UNCHANGED <<now, store, grantLock, usageLock, call, answer, report,
                       faults, history>>

\* The charge is durable: the row is written and the history records it.
Charge(r) ==
  LET g == call[r].grant
      m == Month(call[r].at)
  IN /\ usage' = [usage EXCEPT ![g] = row[r]]
     /\ ledger' = [ledger EXCEPT ![g][m] = @ + 1]
     /\ receded' = receded \cup (IF m < usage[g].period THEN {g} ELSE {})

\* session.commit(): applied and reported, applied and reported as failed, or
\* rolled back.
CommitCharge(r) ==
  /\ pc[r] = "commit"
  /\ EndSession(r)
  /\ \/ /\ Charge(r)
        /\ Answered(r, "charged")
        /\ UNCHANGED faults
     \/ /\ Charge(r) \/ UNCHANGED <<usage, history>>
        /\ Answered(r, "internal_error")
        /\ Fault
  /\ UNCHANGED <<now, grants, call, row, report>>

\* The worker stops, or the request is cancelled, at an await.
Interrupt(r) ==
  /\ pc[r] \in Charging
  /\ EndSession(r)
  /\ Answered(r, "internal_error")
  /\ Fault
  /\ UNCHANGED <<now, store, call, row, report, history>>

-----------------------------------------------------------------------------
(* SyncService.read_entitlement: two statements, no lock, nothing written. *)

BeginSync(r) ==
  /\ pc[r] = "idle"
  /\ call' = [call EXCEPT ![r].at = now]
  /\ Goto(r, "read_grants")
  /\ UNCHANGED <<now, store, grantLock, usageLock, row, answer, report, faults, history>>

SyncReadGrants(r) ==
  /\ pc[r] = "read_grants"
  /\ \/ \E g \in EffectiveGrants(r) :
          /\ EffectiveGrants(r) = {g}
          /\ call' = [call EXCEPT ![r].grant = g]
          /\ Goto(r, "read_usage")
          /\ UNCHANGED <<now, store, grantLock, usageLock, row, answer, report,
                         faults, history>>
     \/ /\ Cardinality(EffectiveGrants(r)) # 1
        /\ Refuse(r, IF EffectiveGrants(r) = {} THEN "not_entitled"
                     ELSE "multiple_effective_grants")

\* Mutant: the count is reported whatever its month.
UsedInMonthAny(u, t) == u.used

\* A count of another month is passed over, not assigned away.
UsedInMonth(u, t) == IF u.period = Month(t) THEN u.used ELSE 0

SyncReadUsage(r) ==
  /\ pc[r] = "read_usage"
  /\ LET u == usage[call[r].grant] IN
     \/ /\ ~u.present
        /\ Refuse(r, "missing_usage_row")
     \/ /\ u.present
        /\ EndSession(r)
        /\ Answered(r, "entitled")
        /\ report' = [report EXCEPT ![r] = UsedInMonth(u, call[r].at)]
        /\ UNCHANGED <<now, store, call, row, faults, history>>

-----------------------------------------------------------------------------
(* The writers of grants (not in this repository), and the clock.          *)

\* ix_access_grants_one_active_per_user: one active grant per user.
Activate(g, ends, metered) ==
  /\ grants[g].status = "absent"
  /\ \A h \in Grants : Owner[h] = Owner[g] => grants[h].status # "active"
  /\ grants' = [grants EXCEPT ![g] =
                  [status |-> "active", starts |-> now, ends |-> ends]]
  /\ usage' = [usage EXCEPT ![g] =
                 [present |-> metered, period |-> Month(now), used |-> 0]]
  /\ UNCHANGED <<now, grantLock, usageLock, pc, call, row, answer, report, faults, history>>

\* Revoked or expired: an UPDATE, which waits for a charge that holds the row.
Close(g) ==
  /\ grants[g].status = "active"
  /\ grantLock[g] = NoRequest
  /\ grants' = [grants EXCEPT ![g].status = "closed"]
  /\ UNCHANGED <<now, usage, grantLock, usageLock, pc, call, row, answer, report,
                 faults, history>>

Tick ==
  /\ now < MaxTime
  /\ now' = now + 1
  /\ UNCHANGED <<store, grantLock, usageLock, pc, call, row, answer, report, faults, history>>

\* Every request has been answered: the model, not the system, stops here.
Quiesce == (\A r \in Requests : pc[r] = "done") /\ UNCHANGED vars

Step(r) ==
  \/ FindGrants(r) \/ LockGrants(r) \/ LockUsage(r) \/ Decide(r) \/ CommitCharge(r)
  \/ SyncReadGrants(r) \/ SyncReadUsage(r)

Next ==
  \/ \E r \in Requests : BeginCharge(r) \/ BeginSync(r) \/ Step(r) \/ Interrupt(r)
  \/ \E g \in Grants :
       \/ \E ends \in {Never} \cup (now + 1)..MaxTime, metered \in BOOLEAN :
            Activate(g, ends, metered)
       \/ Close(g)
  \/ Tick
  \/ Quiesce

Spec == Init /\ [][Next]_vars

\* PostgreSQL grants a free lock and the event loop resumes a ready coroutine.
FairSpec == Spec /\ \A r \in Requests : WF_vars(Step(r))

-----------------------------------------------------------------------------
(* Properties.                                                             *)

\* A charge that is about to commit has its grant locked and in force at the
\* instant of the request, whatever was revoked while it waited for the row.
ChargedGrantIsEffective ==
  \A r \in Requests : pc[r] = "commit" => Effective(call[r].grant, r)

\* "Used up" is never answered to a caller whose month still had credit: at
\* least the whole allowance was committed under that month.
RefusalIsTruthful ==
  \A r \in Requests :
    answer[r] = "allowance_exhausted" =>
      ledger[call[r].grant][Month(call[r].at)] >= Credits[call[r].grant]

\* The count a usage row shows was spent: never more than the charges
\* committed in its month, nor than the allowance.
UsedIsCharged ==
  \A g \in Grants :
    /\ usage[g].used <= ledger[g][usage[g].period]
    /\ usage[g].used <= Credits[g]

\* As long as no late charge took a meter back to an earlier month, no month
\* is charged beyond its allowance, and the meter has lost none of its charges.
AllowanceHoldsInOrder ==
  \A g \in Grants \ receded :
    /\ \A m \in Months : ledger[g][m] <= Credits[g]
    /\ usage[g].used = ledger[g][usage[g].period]

\* No month of a grant is ever charged beyond its allowance.
AllowanceHolds ==
  \A g \in Grants : \A m \in Months : ledger[g][m] <= Credits[g]

\* What the sync reports is what has been charged to the month it captured,
\* unless the meter has moved past that month or has gone back.
SyncReportsCharges ==
  [][\A r \in Requests :
       pc[r] = "read_usage" /\ answer'[r] = "entitled" =>
         LET g == call[r].grant
             m == Month(call[r].at)
         IN \/ report'[r] = ledger[g][m]
            \/ g \in receded
            \/ usage[g].period > m /\ report'[r] = 0]_vars

\* Every charge and every sync is answered: no lock outlives its session.
EveryRequestAnswered ==
  \A r \in Requests : (pc[r] # "idle") ~> (pc[r] = "done")

-----------------------------------------------------------------------------
(* The inductive invariant behind the safety properties.                   *)

\* A charge past the grant lock holds it, and the grant is in force at the
\* request's instant; past the usage lock it holds that too.
LocksFollow ==
  \A r \in Requests :
    /\ pc[r] \in {"lock_usage", "decide", "commit"} =>
         /\ call[r].grant \in Grants
         /\ grantLock[call[r].grant] = r
         /\ Effective(call[r].grant, r)
    /\ pc[r] \in {"decide", "commit"} => /\ usageLock[call[r].grant] = r
                                         /\ usage[call[r].grant].present
    /\ pc[r] = "read_usage" => call[r].grant \in Grants

\* The row a charge holds in its session is the committed one, as read and
\* then as charged: nobody writes it meanwhile.
RowsFollow ==
  \A r \in Requests :
    LET g == call[r].grant
        rolled == RolledOver(usage[g], call[r].at)
    IN /\ pc[r] = "decide" => row[r] = usage[g]
       /\ pc[r] = "commit" => /\ row[r] = [rolled EXCEPT !.used = @ + 1]
                              /\ rolled.used < Credits[g]

\* A meter that never receded shows its latest charged month, whole; a grant
\* not opened yet has no meter and no charges.
MetersFollow ==
  \A g \in Grants :
    /\ grants[g].status = "absent" =>
         /\ ~usage[g].present
         /\ \A m \in Months : ledger[g][m] = 0
    /\ g \notin receded => \A m \in Months : m > usage[g].period => ledger[g][m] = 0

\* Only a finished request is answered; a refusal names the grant it met.
AnswersFollow ==
  \A r \in Requests :
    /\ answer[r] # "none" => pc[r] = "done"
    /\ answer[r] = "allowance_exhausted" => call[r].grant \in Grants

\* Holds initially, is kept by every step, and implies the safety properties.
IInv ==
  /\ TypeOK
  /\ LocksFollow
  /\ RowsFollow
  /\ MetersFollow
  /\ AnswersFollow
  /\ UsedIsCharged
  /\ AllowanceHoldsInOrder
  /\ RefusalIsTruthful

-----------------------------------------------------------------------------
(* The abstract specification this one implements.                         *)

Meter ==
  INSTANCE QuotaMeter WITH
    active <- {g \in Grants : grants[g].status = "active"},
    period <- [g \in Grants |-> IF usage[g].present THEN usage[g].period ELSE -1],
    used <- [g \in Grants |-> usage[g].used]

\* Every committed charge is one atomic charge of the meter.
ImplementsMeter == Meter!MSpec
=============================================================================
