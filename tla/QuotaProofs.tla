----------------------------- MODULE QuotaProofs -----------------------------
(***************************************************************************)
(* The allowance, proved for every set of requests, users and grants,      *)
(* every tier and every month length: IInv holds initially (InitInvariant),*)
(* every step keeps it (one lemma per action, NextInvariant), and it       *)
(* implies the safety properties and the refinement of QuotaMeter.         *)
(***************************************************************************)
EXTENDS Quota, FiniteSetTheorems, TLAPS

\* A month is a natural number, and the clock's month is one of Months.
LEMMA MonthsAreNatural ==
  /\ Months \subseteq Nat
  /\ \A t \in 0..MaxTime : Month(t) \in Months
<1>1. \A t \in Nat : t \div MonthLength \in Nat
  BY QuotaAssumption
<1> QED  BY <1>1, QuotaAssumption DEF Months, Month

\* The initial state satisfies the inductive invariant.
LEMMA InitInvariant == Init => IInv
<1> SUFFICES ASSUME Init PROVE IInv
  OBVIOUS
<1>1. 0 \in Months
  BY MonthsAreNatural, QuotaAssumption DEF Month, Months
<1>2. TypeOK
  BY <1>1, MonthsAreNatural, QuotaAssumption
     DEF Init, TypeOK, Grant, UsageRow, Call, Charging, Syncing, Answer, NoRow
<1>3. LocksFollow /\ RowsFollow /\ AnswersFollow /\ RefusalIsTruthful
  BY DEF Init, LocksFollow, RowsFollow, AnswersFollow, RefusalIsTruthful
<1>4. MetersFollow /\ UsedIsCharged /\ AllowanceHoldsInOrder
  BY <1>1, QuotaAssumption
     DEF Init, MetersFollow, UsedIsCharged, AllowanceHoldsInOrder, NoRow
<1> QED  BY <1>2, <1>3, <1>4 DEF IInv

\* A step that writes no grant, no usage row and no charge keeps what is known
\* of the meters.
LEMMA QuietMeters ==
  ASSUME UsedIsCharged, AllowanceHoldsInOrder, MetersFollow, UNCHANGED <<store, history>>
  PROVE  UsedIsCharged' /\ AllowanceHoldsInOrder' /\ MetersFollow'
BY DEF UsedIsCharged, AllowanceHoldsInOrder, MetersFollow, store, history

\* What ends with a session: the request, and the locks it held.
LEMMA EndSessionMoves ==
  ASSUME IInv, NEW r \in Requests, EndSession(r)
  PROVE  /\ pc' = [pc EXCEPT ![r] = "done"]
         /\ grantLock' \in [Grants -> Requests \cup {NoRequest}]
         /\ usageLock' \in [Grants -> Requests \cup {NoRequest}]
         /\ \A q \in Requests \ {r}, g \in Grants :
              /\ grantLock[g] = q => grantLock'[g] = q
              /\ usageLock[g] = q => usageLock'[g] = q
BY QuotaAssumption DEF IInv, TypeOK, EndSession, Goto, Released

\* Refusing a request keeps the invariant, when a refusal for want of credit is
\* true of the grant it met.
LEMMA RefuseKeeps ==
  ASSUME IInv, NEW r \in Requests, pc[r] # "done", NEW a \in Answer,
         a = "allowance_exhausted" => /\ call[r].grant \in Grants
              /\ ledger[call[r].grant][Month(call[r].at)] >= Credits[call[r].grant],
         Refuse(r, a)
  PROVE  IInv'
<1>1. /\ UNCHANGED <<now, grants, usage, call, row, report, faults, ledger, receded>>
      /\ answer' = [answer EXCEPT ![r] = a]
      /\ EndSession(r)
  BY DEF Refuse, Answered, store, history
<1>2. /\ pc' = [pc EXCEPT ![r] = "done"]
      /\ grantLock' \in [Grants -> Requests \cup {NoRequest}]
      /\ usageLock' \in [Grants -> Requests \cup {NoRequest}]
      /\ \A q \in Requests \ {r}, g \in Grants :
           /\ grantLock[g] = q => grantLock'[g] = q
           /\ usageLock[g] = q => usageLock'[g] = q
  BY <1>1, EndSessionMoves
<1>3. TypeOK'
  <2>1. pc' \in [Requests -> {"idle", "done"} \cup Charging \cup Syncing]
    BY <1>2 DEF IInv, TypeOK
  <2>2. answer' \in [Requests -> Answer]
    BY <1>1 DEF IInv, TypeOK
  <2> QED  BY <1>1, <1>2, <2>1, <2>2 DEF IInv, TypeOK
<1>4. \A q \in Requests : pc'[q] # "done" => q # r /\ pc'[q] = pc[q]
  BY <1>2 DEF IInv, TypeOK
<1>5. LocksFollow'
  BY <1>1, <1>2, <1>4 DEF IInv, LocksFollow, Effective
<1>6. RowsFollow'
  BY <1>1, <1>4 DEF IInv, RowsFollow
<1>7. UsedIsCharged' /\ AllowanceHoldsInOrder' /\ MetersFollow'
  BY <1>1, QuietMeters DEF IInv, store, history
<1>8. \A q \in Requests : \/ q = r /\ answer'[q] = a /\ pc'[q] = "done"
                          \/ q # r /\ answer'[q] = answer[q] /\ pc'[q] = pc[q]
  BY <1>1, <1>2 DEF IInv, TypeOK
<1>9. AnswersFollow' /\ RefusalIsTruthful'
  BY <1>1, <1>8 DEF IInv, AnswersFollow, RefusalIsTruthful
<1> QED  BY <1>3, <1>5, <1>6, <1>7, <1>9 DEF IInv

\* Opening a charge keeps the inductive invariant.
LEMMA BeginChargeKeeps ==
  ASSUME IInv, NEW r \in Requests, BeginCharge(r)
  PROVE  IInv'
<1>1. /\ call' \in [Requests -> Call]
      /\ \A q \in Requests \ {r} : call'[q] = call[q]
  BY DEF IInv, BeginCharge, TypeOK, Call
<1>2. /\ pc' = [pc EXCEPT ![r] = "find"]
      /\ UNCHANGED <<now, grants, usage, ledger, receded, grantLock, usageLock, row, answer, report, faults>>
  BY DEF BeginCharge, Goto, store, history
<1>3. TypeOK'
  BY <1>1, <1>2 DEF IInv, TypeOK, Charging, Syncing
<1>4. LocksFollow'
  BY <1>1, <1>2 DEF IInv, TypeOK, LocksFollow, Effective
<1>5. \A q \in Requests : pc'[q] \in {"decide", "commit"} =>
        q # r /\ pc[q] = pc'[q] /\ call'[q] = call[q]
  BY <1>1, <1>2 DEF IInv, TypeOK
<1>6. RowsFollow'
  BY <1>2, <1>5 DEF IInv, RowsFollow
<1>7. UsedIsCharged' /\ AllowanceHoldsInOrder' /\ MetersFollow'
  BY <1>2, QuietMeters DEF IInv, store, history
<1>8. AnswersFollow' /\ RefusalIsTruthful'
  BY <1>1, <1>2 DEF IInv, BeginCharge, TypeOK, AnswersFollow, RefusalIsTruthful
<1> QED  BY <1>3, <1>4, <1>6, <1>7, <1>8 DEF IInv

\* Opening a sync keeps the inductive invariant.
LEMMA BeginSyncKeeps ==
  ASSUME IInv, NEW r \in Requests, BeginSync(r)
  PROVE  IInv'
<1>1. /\ call' \in [Requests -> Call]
      /\ \A q \in Requests \ {r} : call'[q] = call[q]
  BY DEF IInv, BeginSync, TypeOK, Call
<1>2. /\ pc' = [pc EXCEPT ![r] = "read_grants"]
      /\ UNCHANGED <<now, grants, usage, ledger, receded, grantLock, usageLock, row, answer, report, faults>>
  BY DEF BeginSync, Goto, store, history
<1>3. TypeOK'
  BY <1>1, <1>2 DEF IInv, TypeOK, Charging, Syncing
<1>4. LocksFollow'
  BY <1>1, <1>2 DEF IInv, TypeOK, LocksFollow, Effective
<1>5. \A q \in Requests : pc'[q] \in {"decide", "commit"} =>
        q # r /\ pc[q] = pc'[q] /\ call'[q] = call[q]
  BY <1>1, <1>2 DEF IInv, TypeOK
<1>6. RowsFollow'
  BY <1>2, <1>5 DEF IInv, RowsFollow
<1>7. UsedIsCharged' /\ AllowanceHoldsInOrder' /\ MetersFollow'
  BY <1>2, QuietMeters DEF IInv, store, history
<1>8. AnswersFollow' /\ RefusalIsTruthful'
  BY <1>1, <1>2 DEF IInv, BeginSync, TypeOK, AnswersFollow, RefusalIsTruthful
<1> QED  BY <1>3, <1>4, <1>6, <1>7, <1>8 DEF IInv

\* The snapshot of the locking statement keeps the inductive invariant.
LEMMA FindGrantsKeeps ==
  ASSUME IInv, NEW r \in Requests, FindGrants(r)
  PROVE  IInv'
<1>1. /\ call' \in [Requests -> Call]
      /\ \A q \in Requests \ {r} : call'[q] = call[q]
  BY DEF IInv, FindGrants, EffectiveGrants, TypeOK, Call
<1>2. /\ pc' = [pc EXCEPT ![r] = "lock_grants"]
      /\ UNCHANGED <<now, grants, usage, ledger, receded, grantLock, usageLock, row, answer, report, faults>>
  BY DEF FindGrants, EffectiveGrants, Goto, store, history
<1>3. TypeOK'
  BY <1>1, <1>2 DEF IInv, TypeOK, Charging, Syncing
<1>4. LocksFollow'
  BY <1>1, <1>2 DEF IInv, TypeOK, LocksFollow, Effective
<1>5. \A q \in Requests : pc'[q] \in {"decide", "commit"} =>
        q # r /\ pc[q] = pc'[q] /\ call'[q] = call[q]
  BY <1>1, <1>2 DEF IInv, TypeOK
<1>6. RowsFollow'
  BY <1>2, <1>5 DEF IInv, RowsFollow
<1>7. UsedIsCharged' /\ AllowanceHoldsInOrder' /\ MetersFollow'
  BY <1>2, QuietMeters DEF IInv, store, history
<1>8. AnswersFollow' /\ RefusalIsTruthful'
  BY <1>1, <1>2 DEF IInv, FindGrants, EffectiveGrants, TypeOK, AnswersFollow, RefusalIsTruthful
<1> QED  BY <1>3, <1>4, <1>6, <1>7, <1>8 DEF IInv

\* Locking the grant keeps the inductive invariant: it is in force, and its
\* row was nobody else's.
LEMMA LockGrantsKeeps ==
  ASSUME IInv, NEW r \in Requests, LockGrants(r)
  PROVE  IInv'
<1>1. pc[r] = "lock_grants"
  BY DEF LockGrants
<1>2. CASE Cardinality(StillEffective(r)) # 1
  <2>1. \E a \in {"no_effective_grant", "multiple_effective_grants"} : Refuse(r, a)
    BY <1>2, FS_Singleton DEF LockGrants
  <2> QED  BY <1>1, <2>1, RefuseKeeps DEF Answer
<1>3. CASE Cardinality(StillEffective(r)) = 1
  <2>1. PICK g \in StillEffective(r) :
          /\ grantLock' = [grantLock EXCEPT ![g] = r]
          /\ call' = [call EXCEPT ![r].grant = g]
          /\ pc' = [pc EXCEPT ![r] = "lock_usage"]
          /\ UNCHANGED <<now, grants, usage, ledger, receded, usageLock, row, answer,
                         report, faults>>
    BY <1>3 DEF LockGrants, Goto, store, history
  <2>2. g \in Grants /\ Effective(g, r) /\ grantLock[g] \in {NoRequest, r}
    BY DEF LockGrants, StillEffective, Free, IInv, TypeOK, Call
  <2>3. /\ call' \in [Requests -> Call]
        /\ call'[r].grant = g /\ call'[r].user = call[r].user /\ call'[r].at = call[r].at
        /\ \A q \in Requests \ {r} : call'[q] = call[q]
    <3>1. call \in [Requests -> Call] /\ call[r] \in Call
      BY DEF IInv, TypeOK
    <3>2. [call[r] EXCEPT !.grant = g] \in Call
      BY <2>2, <3>1 DEF Call
    <3>3. [call[r] EXCEPT !.grant = g].grant = g
      BY <3>1 DEF Call
    <3>4. call' = [call EXCEPT ![r] = [call[r] EXCEPT !.grant = g]]
      BY <2>1
    <3> QED  BY <3>1, <3>2, <3>3, <3>4
  <2>4. TypeOK'
    BY <2>1, <2>2, <2>3 DEF IInv, TypeOK, Charging
  <2>5. LocksFollow'
    BY <2>1, <2>2, <2>3, QuotaAssumption DEF IInv, TypeOK, LocksFollow, Effective
  <2>6. \A q \in Requests : pc'[q] \in {"decide", "commit"} =>
          q # r /\ pc[q] = pc'[q] /\ call'[q] = call[q]
    BY <2>1, <2>3 DEF IInv, TypeOK
  <2>7. RowsFollow'
    BY <2>1, <2>6 DEF IInv, RowsFollow
  <2>8. UsedIsCharged' /\ AllowanceHoldsInOrder' /\ MetersFollow'
    BY <2>1, QuietMeters DEF IInv, store, history
  <2>9. AnswersFollow' /\ RefusalIsTruthful'
    BY <1>1, <2>1, <2>3 DEF IInv, TypeOK, AnswersFollow, RefusalIsTruthful
  <2> QED  BY <2>4, <2>5, <2>7, <2>8, <2>9 DEF IInv
<1> QED  BY <1>2, <1>3

\* Reading the usage row under both locks keeps the inductive invariant.
LEMMA LockUsageKeeps ==
  ASSUME IInv, NEW r \in Requests, LockUsage(r)
  PROVE  IInv'
<1> DEFINE g == call[r].grant
<1>1. pc[r] = "lock_usage" /\ g \in Grants
  BY DEF LockUsage, IInv, LocksFollow
<1>2. CASE ~usage[g].present
  <2>1. Refuse(r, "missing_usage_row")
    BY <1>2 DEF LockUsage
  <2> QED  BY <1>1, <2>1, RefuseKeeps DEF Answer
<1>3. CASE usage[g].present
  <2>1. /\ usageLock[g] \in {NoRequest, r}
        /\ usageLock' = [usageLock EXCEPT ![g] = r]
        /\ row' = [row EXCEPT ![r] = usage[g]]
        /\ pc' = [pc EXCEPT ![r] = "decide"]
        /\ UNCHANGED <<now, grants, usage, ledger, receded, grantLock, call, answer,
                       report, faults>>
    BY <1>3 DEF LockUsage, Free, Goto, store, history
  <2>2. TypeOK'
    BY <1>1, <2>1 DEF IInv, TypeOK, Charging
  <2>3. LocksFollow'
    BY <1>1, <1>3, <2>1, QuotaAssumption DEF IInv, TypeOK, LocksFollow, Effective
  <2>4. \A q \in Requests \ {r} : pc'[q] = pc[q] /\ row'[q] = row[q]
    BY <2>1 DEF IInv, TypeOK
  <2>5. pc'[r] = "decide" /\ row'[r] = usage[g]
    BY <2>1 DEF IInv, TypeOK
  <2>6. RowsFollow'
    BY <2>1, <2>4, <2>5 DEF IInv, RowsFollow
  <2>7. UsedIsCharged' /\ AllowanceHoldsInOrder' /\ MetersFollow'
    BY <2>1, QuietMeters DEF IInv, store, history
  <2>8. AnswersFollow' /\ RefusalIsTruthful'
    BY <1>1, <2>1 DEF IInv, TypeOK, AnswersFollow, RefusalIsTruthful
  <2> QED  BY <2>2, <2>3, <2>6, <2>7, <2>8 DEF IInv
<1> QED  BY <1>2, <1>3

\* A row rolled over to an instant is a row of that instant's month; its count
\* was charged to that month.
LEMMA RolledOverFacts ==
  ASSUME TypeOK, UsedIsCharged, NEW g \in Grants, NEW t \in 0..MaxTime
  PROVE  /\ RolledOver(usage[g], t) \in UsageRow
         /\ RolledOver(usage[g], t).period = Month(t)
         /\ RolledOver(usage[g], t).present = usage[g].present
         /\ RolledOver(usage[g], t).used =
              IF usage[g].period = Month(t) THEN usage[g].used ELSE 0
         /\ RolledOver(usage[g], t).used <= ledger[g][Month(t)]
<1>1. Month(t) \in Months /\ ledger[g][Month(t)] \in Nat /\ usage[g] \in UsageRow
  BY MonthsAreNatural DEF TypeOK
<1>2. usage[g].used <= ledger[g][usage[g].period] /\ 0 <= ledger[g][Month(t)]
  BY <1>1 DEF UsedIsCharged
<1>3. CASE usage[g].period = Month(t)
  BY <1>1, <1>2, <1>3 DEF RolledOver
<1>4. CASE usage[g].period # Month(t)
  BY <1>1, <1>2, <1>4 DEF RolledOver, UsageRow
<1> QED  BY <1>3, <1>4

\* Deciding keeps the inductive invariant: a refusal has met a month charged
\* to its allowance, and a charge stays within it.
LEMMA DecideKeeps ==
  ASSUME IInv, NEW r \in Requests, Decide(r)
  PROVE  IInv'
<1> DEFINE g == call[r].grant
           t == call[r].at
           rolled == RolledOver(row[r], t)
<1>1. pc[r] = "decide" /\ g \in Grants /\ row[r] = usage[g] /\ t \in 0..MaxTime
  BY DEF Decide, IInv, LocksFollow, RowsFollow, TypeOK, Call
<1>2. /\ rolled \in UsageRow
      /\ rolled.used <= ledger[g][Month(t)]
      /\ ledger[g][Month(t)] \in Nat /\ Credits[g] \in Nat
  <2>1. ledger[g][Month(t)] \in Nat /\ Credits[g] \in Nat
    <3>1. Month(t) \in Months
      BY <1>1, MonthsAreNatural
    <3> QED  BY <1>1, <3>1, QuotaAssumption DEF IInv, TypeOK
  <2>2. rolled \in UsageRow /\ rolled.used <= ledger[g][Month(t)]
    BY <1>1, RolledOverFacts DEF IInv
  <2> QED  BY <2>1, <2>2
<1>3. CASE Remaining(g, rolled) = 0
  <2>1. Refuse(r, "allowance_exhausted")
    BY <1>3 DEF Decide
  <2>2. Credits[g] <= ledger[g][Month(t)]
    BY <1>2, <1>3 DEF Remaining, UsageRow
  <2> QED  BY <1>1, <1>2, <2>1, <2>2, RefuseKeeps DEF Answer
<1>4. CASE Remaining(g, rolled) # 0
  <2>1. /\ row' = [row EXCEPT ![r] = [rolled EXCEPT !.used = @ + 1]]
        /\ pc' = [pc EXCEPT ![r] = "commit"]
        /\ UNCHANGED <<now, grants, usage, ledger, receded, grantLock, usageLock, call,
                       answer, report, faults>>
    BY <1>4 DEF Decide, Goto, store, history
  <2>2. rolled.used < Credits[g]
    BY <1>2, <1>4 DEF Remaining, UsageRow
  <2>3. [rolled EXCEPT !.used = @ + 1] \in UsageRow
    BY <1>2 DEF UsageRow
  <2>4. TypeOK'
    BY <2>1, <2>3 DEF IInv, TypeOK, Charging
  <2>5. LocksFollow'
    BY <1>1, <2>1 DEF IInv, TypeOK, LocksFollow, Effective
  <2>6. \A q \in Requests \ {r} : pc'[q] = pc[q] /\ row'[q] = row[q]
    BY <2>1 DEF IInv, TypeOK
  <2>7. pc'[r] = "commit" /\ row'[r] = [rolled EXCEPT !.used = @ + 1]
    BY <2>1 DEF IInv, TypeOK
  <2>8. RowsFollow'
    BY <1>1, <2>1, <2>2, <2>6, <2>7 DEF IInv, RowsFollow
  <2>9. UsedIsCharged' /\ AllowanceHoldsInOrder' /\ MetersFollow'
    BY <2>1, QuietMeters DEF IInv, store, history
  <2>10. AnswersFollow' /\ RefusalIsTruthful'
    BY <1>1, <2>1 DEF IInv, TypeOK, AnswersFollow, RefusalIsTruthful
  <2> QED  BY <2>4, <2>5, <2>8, <2>9, <2>10 DEF IInv
<1> QED  BY <1>3, <1>4

\* Ending a session without writing keeps the inductive invariant.
LEMMA QuietEndKeeps ==
  ASSUME IInv, NEW r \in Requests, EndSession(r), UNCHANGED <<now, store, call, row, history>>,
         NEW a \in Answer \ {"allowance_exhausted"}, Answered(r, a),
         report' \in [Requests -> Nat], faults' \in 0..MaxFaults
  PROVE  IInv'
<1>1. TypeOK'
  <2>1. pc' \in [Requests -> {"idle", "done"} \cup Charging \cup Syncing]
    BY EndSessionMoves DEF IInv, TypeOK
  <2>2. answer' \in [Requests -> Answer]
    BY DEF IInv, TypeOK, Answered
  <2> QED  BY <2>1, <2>2, EndSessionMoves DEF IInv, TypeOK, store, history
<1>2. LocksFollow'
  BY EndSessionMoves DEF IInv, TypeOK, LocksFollow, Effective, store
<1>3. \A q \in Requests : pc'[q] \in {"decide", "commit"} => pc[q] = pc'[q]
  BY EndSessionMoves DEF IInv, TypeOK
<1>4. RowsFollow'
  BY <1>3 DEF IInv, RowsFollow, store
<1>5. UsedIsCharged' /\ AllowanceHoldsInOrder' /\ MetersFollow'
  BY QuietMeters DEF IInv
<1>6. AnswersFollow' /\ RefusalIsTruthful'
  BY EndSessionMoves DEF IInv, TypeOK, AnswersFollow, RefusalIsTruthful, Answered, history
<1> QED  BY <1>1, <1>2, <1>4, <1>5, <1>6 DEF IInv

\* A fault leaves the count of faults within its bound.
LEMMA FaultCounts == IInv /\ Fault => faults' \in 0..MaxFaults
BY QuotaAssumption DEF IInv, TypeOK, Fault

\* A request that stops at an await keeps the inductive invariant.
LEMMA InterruptKeeps ==
  ASSUME IInv, NEW r \in Requests, Interrupt(r)
  PROVE  IInv'
BY QuietEndKeeps, FaultCounts DEF Interrupt, Answer, IInv, TypeOK

\* The sync's first read keeps the inductive invariant.
LEMMA SyncReadGrantsKeeps ==
  ASSUME IInv, NEW r \in Requests, SyncReadGrants(r)
  PROVE  IInv'
<1>1. pc[r] = "read_grants"
  BY DEF SyncReadGrants
<1>2. CASE Cardinality(EffectiveGrants(r)) # 1
  <2>1. \E a \in {"not_entitled", "multiple_effective_grants"} : Refuse(r, a)
    BY <1>2, FS_Singleton DEF SyncReadGrants
  <2> QED  BY <1>1, <2>1, RefuseKeeps DEF Answer
<1>3. CASE Cardinality(EffectiveGrants(r)) = 1
  <2>1. PICK g \in EffectiveGrants(r) :
          /\ call' = [call EXCEPT ![r].grant = g]
          /\ pc' = [pc EXCEPT ![r] = "read_usage"]
          /\ UNCHANGED <<now, grants, usage, ledger, receded, grantLock, usageLock, row,
                         answer, report, faults>>
    BY <1>3 DEF SyncReadGrants, Goto, store, history
  <2>2. /\ g \in Grants
        /\ call' \in [Requests -> Call]
        /\ call'[r].grant = g
        /\ \A q \in Requests \ {r} : call'[q] = call[q]
    BY <2>1 DEF EffectiveGrants, IInv, TypeOK, Call
  <2>3. TypeOK'
    BY <2>1, <2>2 DEF IInv, TypeOK, Syncing
  <2>4. LocksFollow'
    BY <2>1, <2>2 DEF IInv, TypeOK, LocksFollow, Effective
  <2>5. \A q \in Requests : pc'[q] \in {"decide", "commit"} =>
          q # r /\ pc[q] = pc'[q] /\ call'[q] = call[q]
    BY <2>1, <2>2 DEF IInv, TypeOK
  <2>6. RowsFollow'
    BY <2>1, <2>5 DEF IInv, RowsFollow
  <2>7. UsedIsCharged' /\ AllowanceHoldsInOrder' /\ MetersFollow'
    BY <2>1, QuietMeters DEF IInv, store, history
  <2>8. AnswersFollow' /\ RefusalIsTruthful'
    BY <1>1, <2>1, <2>2 DEF IInv, TypeOK, AnswersFollow, RefusalIsTruthful
  <2> QED  BY <2>3, <2>4, <2>6, <2>7, <2>8 DEF IInv
<1> QED  BY <1>2, <1>3

\* The sync's second read keeps the inductive invariant.
LEMMA SyncReadUsageKeeps ==
  ASSUME IInv, NEW r \in Requests, SyncReadUsage(r)
  PROVE  IInv'
<1> DEFINE u == usage[call[r].grant]
<1>1. pc[r] = "read_usage" /\ u \in UsageRow
  BY DEF SyncReadUsage, IInv, LocksFollow, TypeOK
<1>2. CASE ~u.present
  BY <1>1, <1>2, RefuseKeeps DEF SyncReadUsage, Answer
<1>3. CASE u.present
  <2>1. UsedInMonth(u, call[r].at) \in Nat
    BY <1>1 DEF UsedInMonth, UsageRow
  <2>2. /\ EndSession(r) /\ Answered(r, "entitled")
        /\ report' = [report EXCEPT ![r] = UsedInMonth(u, call[r].at)]
        /\ UNCHANGED <<now, store, call, row, faults, history>>
    BY <1>3 DEF SyncReadUsage
  <2>3. report' \in [Requests -> Nat] /\ faults' \in 0..MaxFaults
    BY <2>1, <2>2 DEF IInv, TypeOK
  <2> QED  BY <2>2, <2>3, QuietEndKeeps DEF Answer
<1> QED  BY <1>2, <1>3

\* The row a charge commits, field by field, and what its month has spent.
LEMMA ChargedRow ==
  ASSUME IInv, NEW r \in Requests, pc[r] = "commit",
         NEW g, g = call[r].grant, NEW m, m = Month(call[r].at)
  PROVE  /\ g \in Grants /\ m \in Months /\ usage[g] \in UsageRow
         /\ row[r] \in UsageRow
         /\ row[r].present = usage[g].present /\ row[r].period = m
         /\ row[r].used = (IF usage[g].period = m THEN usage[g].used ELSE 0) + 1
         /\ row[r].used <= Credits[g]
         /\ row[r].used <= ledger[g][m] + 1
         /\ grantLock[g] = r /\ usageLock[g] = r /\ usage[g].present
         /\ grants[g].status = "active"
<1> DEFINE rolled == RolledOver(usage[g], call[r].at)
<1>1. /\ g \in Grants /\ grantLock[g] = r /\ usageLock[g] = r /\ usage[g].present
      /\ grants[g].status = "active"
  BY DEF IInv, LocksFollow, Effective
<1>2. call[r].at \in 0..MaxTime /\ m \in Months /\ usage[g] \in UsageRow /\ row[r] \in UsageRow
  BY <1>1, MonthsAreNatural DEF IInv, TypeOK, Call
<1>3. row[r] = [rolled EXCEPT !.used = @ + 1] /\ rolled.used < Credits[g]
  BY DEF IInv, RowsFollow
<1>4. /\ rolled \in UsageRow /\ rolled.period = m /\ rolled.present = usage[g].present
      /\ rolled.used = IF usage[g].period = m THEN usage[g].used ELSE 0
      /\ rolled.used <= ledger[g][m]
  BY <1>1, <1>2, RolledOverFacts DEF IInv
<1>5. /\ row[r].present = rolled.present /\ row[r].period = rolled.period
      /\ row[r].used = rolled.used + 1
  BY <1>3, <1>4 DEF UsageRow
<1>6. rolled.used \in Nat /\ Credits[g] \in Nat /\ ledger[g][m] \in Nat
  BY <1>1, <1>2, <1>4, QuotaAssumption DEF IInv, TypeOK, UsageRow
<1>7. row[r].used <= Credits[g] /\ row[r].used <= ledger[g][m] + 1
  BY <1>3, <1>4, <1>5, <1>6
<1> QED  BY <1>1, <1>2, <1>4, <1>5, <1>7

\* What a durable charge writes.
LEMMA ChargeWrites ==
  ASSUME IInv, NEW r \in Requests, pc[r] = "commit", Charge(r),
         NEW g, g = call[r].grant, NEW m, m = Month(call[r].at)
  PROVE  /\ usage' \in [Grants -> UsageRow] /\ ledger' \in [Grants -> [Months -> Nat]]
         /\ usage'[g] = row[r]
         /\ ledger'[g][m] = ledger[g][m] + 1
         /\ \A h \in Grants \ {g} : usage'[h] = usage[h] /\ ledger'[h] = ledger[h]
         /\ \A k \in Months \ {m} : ledger'[g][k] = ledger[g][k]
         /\ receded' = IF m < usage[g].period THEN receded \cup {g} ELSE receded
<1>1. g \in Grants /\ m \in Months /\ row[r] \in UsageRow
  BY ChargedRow
<1>2. /\ usage' = [usage EXCEPT ![g] = row[r]]
      /\ ledger' = [ledger EXCEPT ![g] = [ledger[g] EXCEPT ![m] = ledger[g][m] + 1]]
      /\ receded' = receded \cup (IF m < usage[g].period THEN {g} ELSE {})
  BY DEF Charge
<1>3. usage \in [Grants -> UsageRow] /\ ledger \in [Grants -> [Months -> Nat]]
  BY DEF IInv, TypeOK
<1> QED  BY <1>1, <1>2, <1>3

\* A durable charge keeps the meters: this is where the allowance is kept.
LEMMA ChargeKeepsMeters ==
  ASSUME IInv, NEW r \in Requests, pc[r] = "commit", Charge(r), UNCHANGED grants
  PROVE  UsedIsCharged' /\ AllowanceHoldsInOrder' /\ MetersFollow'
<1> DEFINE g == call[r].grant
           m == Month(call[r].at)
<1>1. /\ g \in Grants /\ m \in Months /\ \A k \in Months : k \in Nat
      /\ usage[g].period \in Months /\ usage[g].used \in Nat
      /\ \A k \in Months : ledger[g][k] \in Nat
  BY ChargedRow, MonthsAreNatural DEF IInv, TypeOK, UsageRow
<1>2. /\ row[r].period = m
      /\ row[r].used = (IF usage[g].period = m THEN usage[g].used ELSE 0) + 1
      /\ row[r].used <= Credits[g] /\ row[r].used <= ledger[g][m] + 1
      /\ grants[g].status = "active"
  BY ChargedRow
<1>3. /\ usage'[g] = row[r]
      /\ ledger'[g][m] = ledger[g][m] + 1
      /\ \A h \in Grants \ {g} : usage'[h] = usage[h] /\ ledger'[h] = ledger[h]
      /\ \A k \in Months \ {m} : ledger'[g][k] = ledger[g][k]
      /\ receded' = IF m < usage[g].period THEN receded \cup {g} ELSE receded
  BY ChargeWrites
<1>4. UsedIsCharged'
  BY <1>2, <1>3 DEF IInv, UsedIsCharged
<1>5. ASSUME NEW h \in Grants \ receded'
      PROVE  /\ \A k \in Months : ledger'[h][k] <= Credits[h]
             /\ usage'[h].used = ledger'[h][usage'[h].period]
             /\ \A k \in Months : k > usage'[h].period => ledger'[h][k] = 0
  <2>1. h \notin receded
    BY <1>3, <1>5
  <2>2. /\ \A k \in Months : ledger[h][k] <= Credits[h]
        /\ usage[h].used = ledger[h][usage[h].period]
        /\ \A k \in Months : k > usage[h].period => ledger[h][k] = 0
    BY <2>1 DEF IInv, AllowanceHoldsInOrder, MetersFollow
  <2>3. CASE h # g
    BY <1>3, <2>2, <2>3
  <2>4. CASE h = g
    <3>1. ~(m < usage[g].period)
      BY <1>3, <1>5, <2>4
    <3>2. /\ \A k \in Months : ledger[g][k] <= Credits[g]
          /\ usage[g].used = ledger[g][usage[g].period]
          /\ \A k \in Months : k > usage[g].period => ledger[g][k] = 0
      BY <2>2, <2>4
    <3>3. /\ m \in Nat /\ usage[g].period \in Nat
          /\ usage[g].period # m => m > usage[g].period
      <4>1. m \in Nat /\ usage[g].period \in Nat
        BY <1>1
      <4> QED  BY <3>1, <4>1
    <3>4. ledger[g][m] = IF usage[g].period = m THEN usage[g].used ELSE 0
      BY <1>1, <3>2, <3>3
    <3>5. row[r].used = ledger'[g][m]
      BY <1>2, <1>3, <3>4
    <3>6. \A k \in Months : ledger'[g][k] <= Credits[g]
      BY <1>2, <1>3, <3>2, <3>5
    <3>7. usage'[g].used = ledger'[g][usage'[g].period]
      BY <1>2, <1>3, <3>5
    <3>8. \A k \in Months : k > m => k > usage[g].period /\ k # m
      BY <1>1, <3>3
    <3>9. \A k \in Months : k > usage'[g].period => ledger'[g][k] = 0
      <4>1. usage'[g].period = m
        BY <1>2, <1>3
      <4>2. \A k \in Months : k > m => ledger'[g][k] = ledger[g][k] /\ ledger[g][k] = 0
        BY <1>3, <3>2, <3>8
      <4> QED  BY <4>1, <4>2
    <3> QED  BY <2>4, <3>6, <3>7, <3>9
  <2> QED  BY <2>3, <2>4
<1>6. AllowanceHoldsInOrder'
  BY <1>5 DEF AllowanceHoldsInOrder
<1>7. MetersFollow'
  BY <1>2, <1>3, <1>5 DEF IInv, MetersFollow
<1> QED  BY <1>4, <1>6, <1>7

\* Every outcome of the commit keeps the inductive invariant.
LEMMA CommitChargeKeeps ==
  ASSUME IInv, NEW r \in Requests, CommitCharge(r)
  PROVE  IInv'
<1> DEFINE g == call[r].grant
           m == Month(call[r].at)
<1>1. /\ pc[r] = "commit" /\ EndSession(r)
      /\ UNCHANGED <<now, grants, call, row, report>>
  BY DEF CommitCharge
<1>2. faults' \in 0..MaxFaults
  BY FaultCounts DEF CommitCharge, IInv, TypeOK
<1>3. CASE UNCHANGED <<usage, history>> /\ Answered(r, "internal_error")
  BY <1>1, <1>2, <1>3, QuietEndKeeps DEF Answer, store, IInv, TypeOK
<1>4. CASE Charge(r) /\ \E a \in {"charged", "internal_error"} : Answered(r, a)
  <2>1. PICK a \in {"charged", "internal_error"} : Answered(r, a)
    BY <1>4
  <2>2. /\ pc' = [pc EXCEPT ![r] = "done"]
        /\ grantLock' \in [Grants -> Requests \cup {NoRequest}]
        /\ usageLock' \in [Grants -> Requests \cup {NoRequest}]
        /\ \A q \in Requests \ {r}, h \in Grants :
             /\ grantLock[h] = q => grantLock'[h] = q
             /\ usageLock[h] = q => usageLock'[h] = q
    BY <1>1, EndSessionMoves
  <2>3. /\ g \in Grants /\ m \in Months /\ usage[g] \in UsageRow
        /\ row[r].present = usage[g].present
        /\ grantLock[g] = r /\ usageLock[g] = r
    BY <1>1, ChargedRow
  <2>4. /\ usage' \in [Grants -> UsageRow] /\ ledger' \in [Grants -> [Months -> Nat]]
        /\ usage'[g] = row[r]
        /\ ledger'[g][m] = ledger[g][m] + 1
        /\ \A h \in Grants \ {g} : usage'[h] = usage[h] /\ ledger'[h] = ledger[h]
        /\ \A k \in Months \ {m} : ledger'[g][k] = ledger[g][k]
        /\ receded' = IF m < usage[g].period THEN receded \cup {g} ELSE receded
    BY <1>1, <1>4, ChargeWrites
  <2>5. TypeOK'
    BY <1>1, <1>2, <2>1, <2>2, <2>3, <2>4 DEF IInv, TypeOK, Answered, Answer
  <2>6. LocksFollow'
    <3>1. \A q \in Requests : pc'[q] # "done" => q # r /\ pc'[q] = pc[q]
      BY <2>2 DEF IInv, TypeOK
    <3>2. \A h \in Grants : usage'[h].present = usage[h].present
      BY <2>3, <2>4
    <3> QED  BY <1>1, <2>2, <3>1, <3>2 DEF IInv, LocksFollow, Effective
  <2>7. \A q \in Requests : pc'[q] \in {"decide", "commit"} =>
          /\ q # r /\ pc[q] = pc'[q]
          /\ call[q].grant # g /\ usage'[call[q].grant] = usage[call[q].grant]
    <3>1. ASSUME NEW q \in Requests, pc'[q] \in {"decide", "commit"}
          PROVE  q # r /\ pc[q] = pc'[q]
      BY <2>2, <3>1 DEF IInv, TypeOK
    <3> QED  BY <2>3, <2>4, <3>1 DEF IInv, LocksFollow
  <2>8. RowsFollow'
    BY <1>1, <2>7 DEF IInv, RowsFollow
  <2>9. UsedIsCharged' /\ AllowanceHoldsInOrder' /\ MetersFollow'
    BY <1>1, <1>4, ChargeKeepsMeters
  <2>10. \A h \in Grants, k \in Months : /\ ledger[h][k] \in Nat /\ ledger'[h][k] \in Nat
                                         /\ ledger'[h][k] >= ledger[h][k]
    <3>1. ledger \in [Grants -> [Months -> Nat]] /\ ledger' \in [Grants -> [Months -> Nat]]
      BY <2>4 DEF IInv, TypeOK
    <3>2. ASSUME NEW h \in Grants, NEW k \in Months
          PROVE  /\ ledger[h][k] \in Nat /\ ledger'[h][k] \in Nat
                 /\ ledger'[h][k] >= ledger[h][k]
      <4>1. ledger[h][k] \in Nat /\ ledger'[h][k] \in Nat
        BY <3>1
      <4>2. CASE h = g /\ k = m
        BY <2>4, <4>1, <4>2
      <4>3. CASE h = g /\ k # m
        <5>1. ledger'[h][k] = ledger[h][k]
          BY <2>4, <4>3
        <5> QED  BY <4>1, <5>1
      <4>4. CASE h # g
        <5>1. ledger'[h][k] = ledger[h][k]
          BY <2>4, <4>4
        <5> QED  BY <4>1, <5>1
      <4> QED  BY <4>2, <4>3, <4>4
    <3> QED  BY <3>2
  <2>11. AnswersFollow'
    BY <1>1, <2>1, <2>2 DEF IInv, TypeOK, AnswersFollow, Answered
  <2>12. \A q \in Requests : Month(call[q].at) \in Months
    BY MonthsAreNatural DEF IInv, TypeOK, Call
  <2>13. ASSUME NEW q \in Requests, answer'[q] = "allowance_exhausted"
         PROVE  ledger'[call'[q].grant][Month(call'[q].at)] >= Credits[call'[q].grant]
    <3>1. answer[q] = "allowance_exhausted" /\ call'[q] = call[q]
      BY <1>1, <2>1, <2>13 DEF IInv, TypeOK, Answered
    <3>2. call[q].grant \in Grants /\ Credits[call[q].grant] \in Nat
      BY <3>1, QuotaAssumption DEF IInv, AnswersFollow
    <3>3. ledger[call[q].grant][Month(call[q].at)] >= Credits[call[q].grant]
      BY <3>1 DEF IInv, RefusalIsTruthful
    <3> QED  BY <2>10, <2>12, <3>1, <3>2, <3>3
  <2>14. RefusalIsTruthful'
    BY <2>13 DEF RefusalIsTruthful
  <2> QED  BY <2>5, <2>6, <2>8, <2>9, <2>11, <2>14 DEF IInv
<1> QED  BY <1>3, <1>4 DEF CommitCharge

\* Opening a grant keeps the inductive invariant: it had no row and no charge.
LEMMA ActivateKeeps ==
  ASSUME IInv, NEW g \in Grants, NEW ends \in {Never} \cup (now + 1)..MaxTime,
         NEW metered \in BOOLEAN, Activate(g, ends, metered)
  PROVE  IInv'
<1>1. /\ grants[g].status = "absent"
      /\ grants' = [grants EXCEPT ![g] = [status |-> "active", starts |-> now, ends |-> ends]]
      /\ usage' = [usage EXCEPT ![g] =
                     [present |-> metered, period |-> Month(now), used |-> 0]]
      /\ UNCHANGED <<now, grantLock, usageLock, pc, call, row, answer, report, faults,
                     ledger, receded>>
  BY DEF Activate, history
<1>2. /\ now \in 0..MaxTime /\ now \in Nat /\ Month(now) \in Months
      /\ ends \in Nat \cup {Never}
      /\ \A m \in Months : ledger[g][m] = 0
  BY <1>1, MonthsAreNatural, QuotaAssumption DEF IInv, TypeOK, MetersFollow
<1>3. TypeOK'
  BY <1>1, <1>2 DEF IInv, TypeOK, Grant, UsageRow
<1>4. \A q \in Requests : pc[q] \in {"lock_usage", "decide", "commit"} => call[q].grant # g
  BY <1>1 DEF IInv, LocksFollow, Effective
<1>5. \A h \in Grants \ {g} : usage'[h] = usage[h] /\ grants'[h] = grants[h]
  BY <1>1 DEF IInv, TypeOK
<1>6. LocksFollow'
  BY <1>1, <1>4, <1>5 DEF IInv, LocksFollow, Effective
<1>7. \A q \in Requests : pc[q] \in {"decide", "commit"} =>
        usage'[call[q].grant] = usage[call[q].grant]
  BY <1>4, <1>5 DEF IInv, LocksFollow
<1>8. RowsFollow'
  BY <1>1, <1>7 DEF IInv, RowsFollow
<1>9. usage'[g].used = 0 /\ usage'[g].period = Month(now) /\ grants'[g].status = "active"
  BY <1>1 DEF IInv, TypeOK
<1>10. UsedIsCharged' /\ AllowanceHoldsInOrder' /\ MetersFollow'
  BY <1>1, <1>2, <1>5, <1>9, QuotaAssumption
     DEF IInv, UsedIsCharged, AllowanceHoldsInOrder, MetersFollow
<1>11. AnswersFollow' /\ RefusalIsTruthful'
  BY <1>1 DEF IInv, AnswersFollow, RefusalIsTruthful
<1> QED  BY <1>3, <1>6, <1>8, <1>10, <1>11 DEF IInv

\* Closing a grant waits for the charge that holds it, and keeps the invariant.
LEMMA CloseKeeps ==
  ASSUME IInv, NEW g \in Grants, Close(g)
  PROVE  IInv'
<1>1. /\ grants[g].status = "active" /\ grantLock[g] = NoRequest
      /\ grants' = [grants EXCEPT ![g].status = "closed"]
      /\ UNCHANGED <<now, usage, grantLock, usageLock, pc, call, row, answer, report,
                     faults, ledger, receded>>
  BY DEF Close, history
<1>2. /\ grants' \in [Grants -> Grant] /\ grants'[g].status = "closed"
      /\ \A h \in Grants \ {g} : grants'[h] = grants[h]
  BY <1>1 DEF IInv, TypeOK, Grant
<1>3. TypeOK'
  BY <1>1, <1>2 DEF IInv, TypeOK
<1>4. LocksFollow'
  BY <1>1, <1>2, QuotaAssumption DEF IInv, LocksFollow, Effective
<1>5. RowsFollow' /\ UsedIsCharged' /\ AllowanceHoldsInOrder' /\ AnswersFollow'
      /\ RefusalIsTruthful'
  BY <1>1 DEF IInv, RowsFollow, UsedIsCharged, AllowanceHoldsInOrder, AnswersFollow,
              RefusalIsTruthful
<1>6. MetersFollow'
  BY <1>1, <1>2 DEF IInv, MetersFollow
<1> QED  BY <1>3, <1>4, <1>5, <1>6 DEF IInv

\* A step that leaves everything but the clock alone keeps the invariant.
LEMMA ClockKeeps ==
  ASSUME IInv, now' \in 0..MaxTime,
         UNCHANGED <<store, grantLock, usageLock, pc, call, row, answer, report, faults, history>>
  PROVE  IInv'
BY DEF IInv, TypeOK, LocksFollow, Effective, RowsFollow, MetersFollow, AnswersFollow,
       UsedIsCharged, AllowanceHoldsInOrder, RefusalIsTruthful, store, history

\* Every step keeps the inductive invariant.
LEMMA NextInvariant == IInv /\ [Next]_vars => IInv'
<1> SUFFICES ASSUME IInv, [Next]_vars PROVE IInv'
  OBVIOUS
<1>1. ASSUME NEW r \in Requests, BeginCharge(r) \/ BeginSync(r) \/ Step(r) \/ Interrupt(r)
      PROVE  IInv'
  BY <1>1, BeginChargeKeeps, BeginSyncKeeps, FindGrantsKeeps, LockGrantsKeeps,
     LockUsageKeeps, DecideKeeps, CommitChargeKeeps, SyncReadGrantsKeeps,
     SyncReadUsageKeeps, InterruptKeeps DEF Step
<1>2. ASSUME NEW g \in Grants, NEW ends \in {Never} \cup (now + 1)..MaxTime,
             NEW metered \in BOOLEAN, Activate(g, ends, metered)
      PROVE  IInv'
  BY <1>2, ActivateKeeps
<1>3. ASSUME NEW g \in Grants, Close(g)
      PROVE  IInv'
  BY <1>3, CloseKeeps
<1>4. CASE Tick
  BY <1>4, ClockKeeps, QuotaAssumption DEF Tick, IInv, TypeOK
<1>5. CASE UNCHANGED vars
  BY <1>5, ClockKeeps DEF vars, IInv, TypeOK
<1> QED  BY <1>1, <1>2, <1>3, <1>4, <1>5 DEF Next, Quiesce

-----------------------------------------------------------------------------
(* The theorems.                                                           *)

\* The inductive invariant holds in every reachable state.
THEOREM Invariance == Spec => []IInv
<1>1. Init => IInv
  BY InitInvariant
<1>2. IInv /\ [Next]_vars => IInv'
  BY NextInvariant
<1> QED  BY <1>1, <1>2, PTL DEF Spec

\* Every variable keeps its type: months are months and counts never negative.
THEOREM TypeCorrectness == Spec => []TypeOK
<1>1. IInv => TypeOK
  BY DEF IInv
<1> QED  BY <1>1, Invariance, PTL

\* No charge commits against a grant that was revoked while the charge waited
\* for its row (the re-evaluation in lock_effective_grants).
THEOREM ChargesAreEffective == Spec => []ChargedGrantIsEffective
<1>1. IInv => ChargedGrantIsEffective
  BY DEF IInv, LocksFollow, ChargedGrantIsEffective
<1> QED  BY <1>1, Invariance, PTL

\* "Used up" is answered only when the whole allowance was committed under the
\* month of the request (QuotaService.charge).
THEOREM RefusalsAreTruthful == Spec => []RefusalIsTruthful
<1>1. IInv => RefusalIsTruthful
  BY DEF IInv
<1> QED  BY <1>1, Invariance, PTL

\* The stored count never exceeds the allowance nor the charges committed in
\* its month (QuotaService.charge).
THEOREM UsedWasCharged == Spec => []UsedIsCharged
<1>1. IInv => UsedIsCharged
  BY DEF IInv
<1> QED  BY <1>1, Invariance, PTL

\* Whatever the concurrency of the charges, no month is charged beyond its
\* allowance and no charge is lost, until a late charge takes a meter back.
THEOREM AllowanceInOrder == Spec => []AllowanceHoldsInOrder
<1>1. IInv => AllowanceHoldsInOrder
  BY DEF IInv
<1> QED  BY <1>1, Invariance, PTL

\* The sync reports the charges of the month it captured, however it interleaves
\* with charges, until the meter moves on or goes back (read_entitlement).
THEOREM SyncIsTruthful == Spec => SyncReportsCharges
<1> DEFINE Truthful ==
      \A r \in Requests :
        pc[r] = "read_usage" /\ answer'[r] = "entitled" =>
          LET g == call[r].grant
              m == Month(call[r].at)
          IN \/ report'[r] = ledger[g][m]
             \/ g \in receded
             \/ usage[g].period > m /\ report'[r] = 0
<1>1. ASSUME IInv, [Next]_vars PROVE Truthful
  <2> SUFFICES ASSUME NEW r \in Requests, pc[r] = "read_usage", answer'[r] = "entitled",
                      NEW g, g = call[r].grant, NEW m, m = Month(call[r].at),
                      g \notin receded
               PROVE  \/ report'[r] = ledger[g][m]
                      \/ usage[g].period > m /\ report'[r] = 0
    OBVIOUS
  <2>1. /\ answer[r] = "none" /\ g \in Grants
        /\ m \in Months /\ usage[g].period \in Months
        /\ m \in Nat /\ usage[g].period \in Nat
    <3>1. answer[r] = "none" /\ g \in Grants
      BY <1>1 DEF IInv, AnswersFollow, LocksFollow
    <3>2. call[r].at \in 0..MaxTime
      BY <1>1 DEF IInv, TypeOK, Call
    <3>3. usage[g].period \in Months
      BY <1>1, <3>1 DEF IInv, TypeOK, UsageRow
    <3> QED  BY <3>1, <3>2, <3>3, MonthsAreNatural
  <2>2. \A q \in Requests \ {r} :
          ~BeginCharge(q) /\ ~BeginSync(q) /\ ~Step(q) /\ ~Interrupt(q)
    <3> SUFFICES ASSUME NEW q \in Requests \ {r} PROVE
          ~BeginCharge(q) /\ ~BeginSync(q) /\ ~Step(q) /\ ~Interrupt(q)
      OBVIOUS
    <3>1. answer'[r] # answer[r]
      BY <2>1
    <3>2. ~(\E a : Answered(q, a)) /\ ~(UNCHANGED answer)
      BY <1>1, <3>1 DEF Answered, IInv, TypeOK
    <3>3. \A a : ~Refuse(q, a)
      BY <3>2 DEF Refuse
    <3>4. ~LockGrants(q) /\ ~LockUsage(q) /\ ~Decide(q) /\ ~SyncReadGrants(q)
      BY <3>2, <3>3 DEF LockGrants, LockUsage, Decide, SyncReadGrants
    <3>5. ~SyncReadUsage(q) /\ ~CommitCharge(q) /\ ~Interrupt(q)
      BY <3>2, <3>3 DEF SyncReadUsage, CommitCharge, Interrupt
    <3>6. ~BeginCharge(q) /\ ~BeginSync(q) /\ ~FindGrants(q)
      BY <3>2 DEF BeginCharge, BeginSync, FindGrants
    <3> QED  BY <3>4, <3>5, <3>6 DEF Step
  <2>3. ~BeginCharge(r) /\ ~BeginSync(r) /\ ~Interrupt(r) /\ (Step(r) => SyncReadUsage(r))
    BY DEF BeginCharge, BeginSync, Step, Interrupt, FindGrants, LockGrants,
         LockUsage, Decide, CommitCharge, SyncReadGrants, Charging
  <2>4. ~Tick /\ ~(UNCHANGED vars)
        /\ \A h \in Grants : /\ ~Close(h)
                             /\ \A ends, metered : ~Activate(h, ends, metered)
    BY <2>1 DEF Tick, vars, Close, Activate
  <2>5. SyncReadUsage(r)
    BY <1>1, <2>2, <2>3, <2>4 DEF Next, Quiesce
  <2>6. report'[r] = UsedInMonth(usage[g], call[r].at)
    <3>1. ~Refuse(r, "missing_usage_row")
      BY <1>1 DEF Refuse, Answered, IInv, TypeOK
    <3> QED  BY <1>1, <2>5, <3>1 DEF SyncReadUsage, IInv, TypeOK
  <2>7. /\ usage[g].used = ledger[g][usage[g].period]
        /\ usage[g].period < m => ledger[g][m] = 0
    BY <1>1, <2>1 DEF IInv, AllowanceHoldsInOrder, MetersFollow
  <2>8. CASE usage[g].period = m
    BY <2>6, <2>7, <2>8 DEF UsedInMonth
  <2>9. CASE usage[g].period # m
    <3>1. report'[r] = 0
      BY <2>6, <2>9 DEF UsedInMonth
    <3>2. usage[g].period < m \/ usage[g].period > m
      BY <2>1, <2>9
    <3> QED  BY <2>7, <3>1, <3>2
  <2> QED  BY <2>8, <2>9
<1>2. IInv /\ [Next]_vars => [Truthful]_vars
  BY <1>1
<1> QED  BY <1>2, Invariance, PTL DEF Spec, SyncReportsCharges

-----------------------------------------------------------------------------
(* The refinement of QuotaMeter.                                           *)

\* A step that changes neither grants nor usage rows is a stutter of the meter.
LEMMA QuietStutters ==
  ASSUME UNCHANGED store PROVE UNCHANGED Meter!mvars
BY DEF store, Meter!mvars

\* A durable charge is one atomic charge of the meter, in the request's month.
LEMMA ChargeIsMCharge ==
  ASSUME IInv, NEW r \in Requests, pc[r] = "commit", Charge(r), UNCHANGED grants
  PROVE  Meter!MNext
<1>. PICK g \in Grants, m \in Months : g = call[r].grant /\ m = Month(call[r].at)
  BY ChargedRow
<1> DEFINE spent == IF usage[g].period = m THEN usage[g].used ELSE 0
           period == [h \in Grants |-> IF usage[h].present THEN usage[h].period ELSE -1]
           used == [h \in Grants |-> usage[h].used]
<1>1. /\ g \in Grants /\ m \in Months
      /\ row[r].present = usage[g].present /\ row[r].period = m
      /\ row[r].used = spent + 1 /\ row[r].used <= Credits[g]
      /\ usage[g].present /\ grants[g].status = "active"
      /\ m \in Nat /\ usage[g].period \in Nat /\ usage[g].used \in Nat
  <2>1. \A k \in Months : k \in Nat
    BY MonthsAreNatural
  <2> QED  BY <2>1, ChargedRow DEF UsageRow
<1>2. /\ usage'[g] = row[r]
      /\ \A h \in Grants \ {g} : usage'[h] = usage[h]
  BY ChargeWrites
<1>3. spent \in Nat /\ spent < Credits[g]
  <2>1. Credits[g] \in Nat
    BY <1>1, QuotaAssumption
  <2> QED  BY <1>1, <2>1
<1>4. used' = [used EXCEPT ![g] = spent + 1]
  BY <1>1, <1>2
<1>5. period' = [period EXCEPT ![g] = m]
  BY <1>1, <1>2
<1>6. g \in {h \in Grants : grants[h].status = "active"} /\ period[g] # -1
  BY <1>1
<1>7. spent = IF period[g] = m THEN used[g] ELSE 0
  BY <1>1
<1>8. Meter!MCharge(g, m)
  BY <1>3, <1>4, <1>5, <1>6, <1>7 DEF Meter!MCharge
<1>9. \E p \in Months : Meter!MCharge(g, p)
  BY <1>8, Zenon
<1> QED  BY <1>9, Zenon DEF Meter!MNext

\* Opening a grant opens its meter, at zero, or leaves it without one.
LEMMA ActivateIsMOpen ==
  ASSUME IInv, NEW g \in Grants, NEW ends, NEW metered \in BOOLEAN, Activate(g, ends, metered)
  PROVE  Meter!MNext
<1>. PICK m : m = IF metered THEN Month(now) ELSE -1
  OBVIOUS
<1> DEFINE active == {h \in Grants : grants[h].status = "active"}
           period == [h \in Grants |-> IF usage[h].present THEN usage[h].period ELSE -1]
           used == [h \in Grants |-> usage[h].used]
<1>1. Month(now) \in Months /\ ~usage[g].present /\ usage[g].used = 0
  <2>1. grants[g].status = "absent" /\ now \in 0..MaxTime
    BY DEF Activate, IInv, TypeOK
  <2>2. ~usage[g].present /\ \A k \in Months : ledger[g][k] = 0
    BY <2>1 DEF IInv, MetersFollow
  <2>3. usage[g].used \in Nat /\ usage[g].period \in Months
    BY DEF IInv, TypeOK, UsageRow
  <2>4. usage[g].used <= 0
    BY <2>2, <2>3 DEF IInv, UsedIsCharged
  <2> QED  BY <2>1, <2>2, <2>3, <2>4, MonthsAreNatural
<1>2. /\ grants[g].status = "absent" /\ grants'[g].status = "active"
      /\ usage'[g] = [present |-> metered, period |-> Month(now), used |-> 0]
      /\ \A h \in Grants \ {g} : grants'[h] = grants[h] /\ usage'[h] = usage[h]
  BY DEF Activate, IInv, TypeOK
<1>3. g \notin active /\ period[g] = -1 /\ active' = active \cup {g}
  BY <1>1, <1>2
<1>4. period' = [period EXCEPT ![g] = m]
  <2>1. \A h \in Grants : period'[h] = IF h = g THEN m ELSE period[h]
    BY <1>2
  <2> QED  BY <2>1
<1>5. used' = used
  BY <1>1, <1>2
<1>6. Meter!MOpen(g, m)
  BY <1>3, <1>4, <1>5 DEF Meter!MOpen
<1>7. \E p \in Months \cup {-1} : Meter!MOpen(g, p)
  <2>1. m \in Months \cup {-1}
    BY <1>1
  <2> QED  BY <1>6, <2>1, Zenon
<1> QED  BY <1>7, Zenon DEF Meter!MNext

\* Closing a grant closes it in the meter.
LEMMA CloseIsMClose ==
  ASSUME IInv, NEW g \in Grants, Close(g)
  PROVE  Meter!MNext
<1> DEFINE active == {h \in Grants : grants[h].status = "active"}
<1>1. /\ grants[g].status = "active" /\ grants'[g].status = "closed"
      /\ \A h \in Grants \ {g} : grants'[h] = grants[h]
      /\ UNCHANGED usage
  BY DEF Close, IInv, TypeOK, Grant
<1>2. g \in active /\ active' = active \ {g}
  BY <1>1
<1>3. Meter!MClose(g)
  BY <1>1, <1>2 DEF Meter!MClose
<1> QED  BY <1>3 DEF Meter!MNext

\* Every behaviour of the charges and the syncs, with its waits, its faults and
\* its lost commits, is one of atomic charges (QuotaService.charge).
THEOREM Refinement == Spec => ImplementsMeter
<1>1. Init => Meter!MInit
  BY DEF Init, Meter!MInit, NoRow
<1>2. ASSUME IInv, [Next]_vars PROVE [Meter!MNext]_(Meter!mvars)
  <2>1. ASSUME NEW r \in Requests, BeginCharge(r) \/ BeginSync(r) \/ Step(r) \/ Interrupt(r)
        PROVE  [Meter!MNext]_(Meter!mvars)
    <3>1. CASE CommitCharge(r)
      BY <1>2, <3>1, ChargeIsMCharge, QuietStutters DEF CommitCharge, store
    <3>2. CASE ~CommitCharge(r)
      <4>1. UNCHANGED store
        BY <2>1, <3>2 DEF BeginCharge, BeginSync, Step, Interrupt, FindGrants, LockGrants,
             LockUsage, Decide, SyncReadGrants, SyncReadUsage, Refuse
      <4> QED  BY <4>1, QuietStutters
    <3> QED  BY <3>1, <3>2
  <2>2. ASSUME NEW g \in Grants, NEW ends \in {Never} \cup (now + 1)..MaxTime,
               NEW metered \in BOOLEAN, Activate(g, ends, metered)
        PROVE  Meter!MNext
    BY <1>2, <2>2, ActivateIsMOpen
  <2>3. ASSUME NEW g \in Grants, Close(g)
        PROVE  Meter!MNext
    BY <1>2, <2>3, CloseIsMClose
  <2>4. CASE Tick \/ UNCHANGED vars
    BY <2>4, QuietStutters DEF Tick, vars
  <2> QED  BY <1>2, <2>1, <2>2, <2>3, <2>4 DEF Next, Quiesce
<1>3. IInv /\ [Next]_vars => [Meter!MNext]_(Meter!mvars)
  BY <1>2
<1> QED  BY <1>1, <1>3, Invariance, PTL DEF Spec, ImplementsMeter, Meter!MSpec
=============================================================================
