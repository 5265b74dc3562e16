------------------------ MODULE AccountHoldersProofs ------------------------
(***************************************************************************)
(* Proofs about AccountCreation that follow a handle from the request it   *)
(* was issued to: who may claim it, what its losers are told, what a       *)
(* rejection leaves behind, and that the handlers implement                *)
(* SingleUseChallenge. They need more than the IInv of AccountCreation:    *)
(* what a row says of its issuer, and what each request knows of its row.  *)
(***************************************************************************)
EXTENDS AccountCreationProofs

Present(h) == challenges[h].stage # "absent"

HasAccount(r) == \E a \in accounts : a.id = r

\* q's challenge is handle h, and its transaction has ended.
Issuer(q, h) ==
  /\ answer[q] = "issued" /\ pc[q] = "done"
  /\ call[q].handle = h /\ call[q].pair \in Pairs

\* A row is bound to what its issuer was, until its subject is erased.
RowsFollow ==
  \A h \in Handles : Present(h) =>
    \E q \in Requests :
      /\ Issuer(q, h)
      /\ challenges[h].bound = call[q].identity
      /\ challenges[h].subject =
           IF challenges[h].stage # "consumed" /\ call[q].identity = NoIdentity
           THEN call[q].pair ELSE NoPair

Untouched(r) == pc[r] = "idle" => call[r] = NoCall /\ answer[r] = "none"

\* The identity snapshot names an account of the caller's own pair.
Snapshot(r) ==
  call[r].identity # NoIdentity =>
    \E a \in accounts : a.id = call[r].identity /\ a.pair = call[r].pair

\* Past `locate`, the row exists and was issued to the presenter.
Located(r) ==
  pc[r] \in {"claim", "refresh"} \cup Claiming =>
    Present(call[r].handle) /\ IssuedTo(call[r].handle, call[r].pair)

\* A claim that matched no row lost to a claimant, or to the clock.
Lost(r) ==
  pc[r] = "refresh" /\ challenges[call[r].handle].stage = "issued" =>
    call[r].at >= challenges[call[r].handle].expires

Told(r) ==
  /\ answer[r] \in {"challenge_expired", "challenge_consumed"} =>
       call[r].handle \in Handles /\ Present(call[r].handle)
  /\ answer[r] = "challenge_expired" =>
       call[r].at >= challenges[call[r].handle].expires
  /\ answer[r] = "challenge_consumed" =>
       challenges[call[r].handle].stage \in {"claimed", "consumed"}

Durable(r) ==
  /\ answer[r] = "created" => HasAccount(r)
  /\ HasAccount(r) => /\ answer[r] = "created" \/ faults > 0
                      /\ IssuedTo(call[r].handle, call[r].pair)

Spent(r) ==
  pc[r] = "done" /\ answer[r] \in Rejection /\ call[r].handle # NoHandle =>
    /\ challenges[call[r].handle].stage \in {"claimed", "consumed"}
    /\ challenges[call[r].handle].stage = "claimed" => faults > 0

Known(r) ==
  /\ Untouched(r) /\ Snapshot(r) /\ Located(r) /\ Lost(r)
  /\ Told(r) /\ Durable(r) /\ Spent(r)

HolderInv == RowsFollow /\ \A r \in Requests : Known(r)

-----------------------------------------------------------------------------
(* What a step may do to the tables, and what it never undoes.             *)

Writes(r, row) == challenges' = [challenges EXCEPT ![call[r].handle] = row]

IssueWritten(r) ==
  /\ pc[r] = "commit_issue" /\ ~Present(call[r].handle)
  /\ Writes(r, NewRow(r)) /\ UNCHANGED accounts

ClaimWritten(r) ==
  /\ pc[r] = "commit_claim" /\ challenges[call[r].handle].stage = "issued"
  /\ Writes(r, [challenges[call[r].handle] EXCEPT !.stage = "claimed"])
  /\ UNCHANGED accounts

RejectionWritten(r) ==
  /\ pc[r] = "commit_rejected" /\ challenges[call[r].handle].stage = "claimed"
  /\ Writes(r, Consumed(challenges[call[r].handle])) /\ UNCHANGED accounts

AccountWritten(r) ==
  /\ pc[r] = "commit_account" /\ challenges[call[r].handle].stage = "claimed"
  /\ Writes(r, Consumed(challenges[call[r].handle]))
  /\ accounts' = accounts \cup {NewAccount(r)}

Effect(r) ==
  \/ UNCHANGED tables
  \/ /\ call[r].handle \in Handles /\ UNCHANGED call
     /\ \/ IssueWritten(r) \/ ClaimWritten(r)
        \/ RejectionWritten(r) \/ AccountWritten(r)

\* A row keeps its binding and its expiry, and its stage only advances; an
\* account keeps its id and its pair; faults are not forgotten, nor is an issue.
RowAdvances(h) ==
  Present(h) =>
    /\ challenges'[h].bound = challenges[h].bound
    /\ challenges'[h].expires = challenges[h].expires
    /\ challenges'[h].stage # "absent"
    /\ challenges'[h].stage = "issued" => challenges[h].stage = "issued"
    /\ challenges'[h].stage = "claimed" => challenges[h].stage \in {"issued", "claimed"}

Advances ==
  /\ \A h \in Handles : RowAdvances(h)
  /\ \A a \in accounts : \E b \in accounts' : b.id = a.id /\ b.pair = a.pair
  /\ faults' >= faults
  /\ \A q \in Requests : answer[q] = "issued" =>
       /\ answer'[q] = "issued" /\ call'[q] = call[q]
       /\ pc[q] = "done" => pc'[q] = "done"

\* Spending a row erases its subject and nothing else.
LEMMA ConsumedRow ==
  ASSUME NEW row \in Row
  PROVE  /\ Consumed(row).stage = "consumed" /\ Consumed(row).subject = NoPair
         /\ Consumed(row).bound = row.bound /\ Consumed(row).expires = row.expires
BY DEF Consumed, Row

\* A commit that is applied writes what the committing transaction held.
LEMMA CommitEffect ==
  ASSUME IInv, NEW r \in Requests, Apply(r), UNCHANGED call,
         pc[r] \in {"commit_issue", "commit_claim", "commit_rejected", "commit_account"}
  PROVE  Effect(r)
<1> USE DEF IInv, TypeOK
<1>1. call[r].handle \in Handles /\ pending[r] = WrittenAt(pc[r])
  BY DEF CallsFollow, TransactionsFollow
<1>2. CASE pc[r] = "commit_issue"
  <2>1. ~Present(call[r].handle)
    BY <1>1, <1>2 DEF CallsFollow, HandlesDrawnOnce, Drawing, Present
  <2> QED
    BY <1>1, <1>2, <2>1 DEF Effect, IssueWritten, Writes, Apply, WrittenRow, WrittenAt
<1>3. CASE pc[r] = "commit_claim"
  BY <1>1, <1>3 DEF Effect, ClaimWritten, Writes, Apply, WrittenRow, WrittenAt,
                    ClaimsHeld
<1>4. CASE pc[r] = "commit_rejected"
  BY <1>1, <1>4 DEF Effect, RejectionWritten, Writes, Apply, WrittenRow, WrittenAt,
                    ClaimsHeld, Claiming
<1>5. CASE pc[r] = "commit_account"
  BY <1>1, <1>5 DEF Effect, AccountWritten, Writes, Apply, WrittenRow, WrittenAt,
                    ClaimsHeld, Claiming
<1> QED
  BY <1>2, <1>3, <1>4, <1>5

\* Whatever a request does, it moves alone, and only a commit writes.
LEMMA StepEffect ==
  ASSUME IInv, NEW r \in Requests, Arrive(r) \/ Step(r) \/ Interrupt(r)
  PROVE  /\ Moves(r) /\ Effect(r) /\ faults' >= faults
         /\ answer[r] = "issued" => answer'[r] = "issued" /\ call'[r] = call[r]
<1> DEFINE Goal == /\ Moves(r) /\ Effect(r) /\ faults' >= faults
                   /\ answer[r] = "issued" => answer'[r] = "issued" /\ call'[r] = call[r]
<1>0. /\ TypeOK /\ faults \in Nat /\ faults + 1 >= faults /\ faults >= faults
      /\ answer[r] = "issued" => pc[r] \in {"commit_issue", "done"}
  BY DEF IInv, TypeOK, CallsFollow
<1>1. CASE Arrive(r)
  BY <1>0, <1>1 DEF Arrive, RefuseIdentity, BeginIssue, BeginComplete, Moves, Effect,
                    tables, Goto, TypeOK
<1>2. CASE Step(r)
  <2>1. CASE Issue(r) \/ Claim(r)
    BY <1>0, <2>1 DEF Issue, Claim, Goto, Moves, Effect, tables, TypeOK
  <2>2. CASE CommitIssue(r) \/ CommitClaim(r) \/ CommitAccount(r) \/ CommitRejected(r)
    <3>1. pc[r] \in {"commit_issue", "commit_claim", "commit_rejected", "commit_account"}
      BY <2>2 DEF CommitIssue, CommitClaim, CommitAccount, CommitRejected
    <3>2. Apply(r) \/ UNCHANGED tables
      BY <2>2 DEF CommitIssue, CommitClaim, CommitAccount, CommitRejected, Commit
    <3>5. faults' >= faults /\ UNCHANGED call
      BY <1>0, <2>2 DEF CommitIssue, CommitClaim, CommitAccount, CommitRejected, Commit, Fault
    <3>3. Effect(r)
      BY <3>1, <3>2, <3>5, CommitEffect DEF Effect
    <3>4. Moves(r)
      BY <1>0, <2>2, <3>1 DEF CommitIssue, CommitClaim, CommitAccount, CommitRejected,
              Commit, EndTransaction, Goto, Moves, TypeOK
    <3>6. answer[r] = "issued" => answer'[r] = "issued"
      BY <1>0, <2>2 DEF CommitIssue, CommitClaim, CommitAccount, CommitRejected, Commit,
                        TypeOK
    <3> QED
      BY <3>3, <3>4, <3>5, <3>6
  <2>3. CASE Locate(r)
    BY <1>0, <2>3, LocateMoves DEF Locate, Reject, EndTransaction, Goto, Moves, Effect,
                                   tables, TypeOK
  <2>4. CASE Refresh(r) \/ RollbackRejected(r)
    BY <1>0, <2>4 DEF Refresh, Reject, RollbackRejected, EndTransaction, Goto, Moves,
                      Effect, tables, TypeOK
  <2>5. ASSUME NEW u \in Uids \cup {NoUid}, LookupFound(r, u) PROVE Goal
    BY <1>0, <2>5 DEF LookupFound, ReadProvider, Goto, Moves, Effect, tables, TypeOK
  <2>6. CASE LookupRetryable(r) \/ LookupNoApp(r)
    BY <1>0, <2>6 DEF LookupRetryable, LookupNoApp, RejectClaimed, ReadProvider, Goto,
                      Moves, Effect, tables, TypeOK
  <2>7. ASSUME NEW code \in Rejection, LookupFailed(r, code) PROVE Goal
    BY <1>0, <2>7 DEF LookupFailed, RejectClaimed, ReadProvider, Goto, Moves, Effect,
                      tables, TypeOK
  <2>8. CASE ResolveExisting(r) \/ InsertAccount(r)
    BY <1>0, <2>8 DEF ResolveExisting, InsertAccount, RejectClaimed, Goto, Moves, Effect,
                      tables, TypeOK
  <2>9. CASE Consume(r) \/ SpendRejected(r)
    BY <1>0, <2>9 DEF Consume, SpendRejected, SpendHandle, Goto, Moves, Effect, tables,
                      TypeOK
  <2> QED
    BY <1>2, <2>1, <2>2, <2>3, <2>4, <2>5, <2>6, <2>7, <2>8, <2>9 DEF Step
<1>3. CASE Interrupt(r)
  BY <1>0, <1>3 DEF Interrupt, Fault, EndTransaction, Goto, Moves, Effect, tables, TypeOK
<1> QED
  BY <1>1, <1>2, <1>3

\* Support tooling keeps every id, pair and provider account.
LEMMA OperateEffect ==
  ASSUME IInv, NEW a \in accounts, Retire(a) \/ BlockUser(a)
  PROVE  \E b : /\ b.id = a.id /\ b.pair = a.pair /\ b.uid = a.uid
                /\ accounts' = (accounts \ {a}) \cup {b}
                /\ UNCHANGED <<now, challenges, pc, call, attempts, pending, poisoned,
                               answer, faults>>
<1>0. a \in Account
  BY DEF IInv, TypeOK
<1>1. CASE Retire(a)
  BY <1>0, <1>1 DEF Retire, Operate, Account
<1>2. CASE BlockUser(a)
  BY <1>0, <1>2 DEF BlockUser, Operate, Account
<1> QED
  BY <1>1, <1>2

\* No step takes a row, an account or an answered issue back.
LEMMA StepsAdvance == IInv /\ [Next]_vars => Advances
<1> SUFFICES ASSUME IInv, [Next]_vars PROVE Advances
  OBVIOUS
<1>0. faults \in Nat /\ challenges \in [Handles -> Row]
  BY DEF IInv, TypeOK
<1>1. ASSUME NEW r \in Requests, Arrive(r) \/ Step(r) \/ Interrupt(r) PROVE Advances
  <2>1. /\ Moves(r) /\ Effect(r) /\ faults' >= faults
        /\ answer[r] = "issued" => answer'[r] = "issued" /\ call'[r] = call[r]
    BY <1>1, StepEffect
  <2>2. ASSUME NEW h \in Handles PROVE RowAdvances(h)
    <3>1. CASE UNCHANGED tables
      BY <1>0, <3>1 DEF tables, RowAdvances, Present
    <3>2. CASE call[r].handle \in Handles /\ IssueWritten(r)
      BY <1>0, <3>2 DEF IssueWritten, Writes, RowAdvances, Present
    <3>3. CASE call[r].handle \in Handles /\ ClaimWritten(r)
      BY <1>0, <3>3 DEF ClaimWritten, Writes, RowAdvances, Present, Row
    <3>4. CASE call[r].handle \in Handles /\ (RejectionWritten(r) \/ AccountWritten(r))
      <4>1. Writes(r, Consumed(challenges[call[r].handle]))
        BY <3>4 DEF RejectionWritten, AccountWritten
      <4>2. challenges[call[r].handle] \in Row
        BY <1>0, <3>4
      <4>3. challenges'[call[r].handle] = Consumed(challenges[call[r].handle])
        BY <1>0, <3>4, <4>1 DEF Writes
      <4>4. h # call[r].handle => challenges'[h] = challenges[h]
        BY <1>0, <4>1 DEF Writes
      <4> QED
        BY <3>4, <4>2, <4>3, <4>4, ConsumedRow DEF RowAdvances, Present
    <3> QED
      BY <2>1, <3>1, <3>2, <3>3, <3>4 DEF Effect
  <2>3. accounts \subseteq accounts'
    BY <2>1 DEF Effect, tables, IssueWritten, ClaimWritten, RejectionWritten, AccountWritten
  <2>4. ASSUME NEW q \in Requests, answer[q] = "issued"
        PROVE  /\ answer'[q] = "issued" /\ call'[q] = call[q]
               /\ pc[q] = "done" => pc'[q] = "done"
    BY <2>1, <2>4 DEF Moves
  <2> QED
    BY <2>1, <2>2, <2>3, <2>4 DEF Advances
<1>2. ASSUME NEW a \in accounts, Retire(a) \/ BlockUser(a) PROVE Advances
  <2>1. PICK b : /\ b.id = a.id /\ b.pair = a.pair
                 /\ accounts' = (accounts \ {a}) \cup {b}
                 /\ UNCHANGED <<challenges, pc, call, answer, faults>>
    BY <1>2, OperateEffect
  <2> QED
    BY <1>0, <2>1 DEF Advances, RowAdvances, Present
<1>3. CASE Tick \/ Quiesce \/ UNCHANGED vars
  BY <1>0, <1>3 DEF Tick, Quiesce, vars, tables, Advances, RowAdvances, Present
<1> QED
  BY <1>1, <1>2, <1>3 DEF Next

-----------------------------------------------------------------------------
(* What a request knows survives the steps of the others.                  *)

\* An account of an unfinished request does not exist yet.
LEMMA NoAccountYet ==
  ASSUME IInv, NEW r \in Requests, pc[r] # "done"
  PROVE  ~HasAccount(r)
BY DEF IInv, AccountsPaidFor, HasAccount

\* What a request was answered at the issue does not change.
LEMMA IssuedForever ==
  ASSUME Advances, NEW h, NEW p, IssuedTo(h, p)
  PROVE  IssuedTo(h, p)'
BY DEF Advances, IssuedTo

\* What stays known of q's row and account when q does not forget its call.
LEMMA StillKnown ==
  ASSUME IInv, TypeOK', Advances, NEW q \in Requests, Known(q),
         call'[q].pair = call[q].pair, call'[q].handle = call[q].handle,
         call'[q].identity = call[q].identity, call'[q].at = call[q].at
  PROVE  /\ Snapshot(q)'
         /\ pc[q] \in {"claim", "refresh"} \cup Claiming => Located(q)'
         /\ pc[q] \in {"idle", "done"} /\ pc'[q] = pc[q] => Located(q)'
         /\ pc[q] = "refresh" => Lost(q)'
         /\ answer'[q] = answer[q] => Told(q)'
         /\ (answer'[q] = answer[q] /\ (HasAccount(q)' => HasAccount(q))) => Durable(q)'
         /\ pc[q] = "done" /\ answer'[q] = answer[q] => Spent(q)'
<1> USE DEF Known
<1>0. TypeOK /\ CallsFollow
  BY DEF IInv
<1>1. Snapshot(q)'
  BY DEF Advances, Snapshot
<1>2. ASSUME call[q].handle \in Handles PROVE RowAdvances(call[q].handle)
  BY <1>2 DEF Advances
<1>3. pc[q] \in {"claim", "refresh"} \cup Claiming => Located(q)'
  BY <1>0, <1>2, IssuedForever DEF Located, RowAdvances, Present, CallsFollow, Claiming
<1>4. pc[q] \in {"idle", "done"} /\ pc'[q] = pc[q] => Located(q)'
  BY DEF Located, Claiming
<1>5. pc[q] = "refresh" => Lost(q)'
  BY <1>0, <1>2 DEF Lost, Located, RowAdvances, Present, CallsFollow
<1>6. answer'[q] = answer[q] => Told(q)'
  <2>1. call[q].handle \in Handles => challenges'[call[q].handle] \in Row
    BY DEF TypeOK
  <2> QED
    BY <1>0, <1>2, <2>1 DEF Told, RowAdvances, Present, Row, Stage
<1>7. (answer'[q] = answer[q] /\ (HasAccount(q)' => HasAccount(q))) => Durable(q)'
  <2>1. HasAccount(q) => HasAccount(q)'
    BY DEF HasAccount, Advances
  <2>2. faults > 0 => faults' > 0
    BY <1>0 DEF Advances, TypeOK
  <2> QED
    BY <2>1, <2>2, IssuedForever DEF Durable
<1>8. pc[q] = "done" /\ answer'[q] = answer[q] => Spent(q)'
  <2>1. call[q].handle \in Handles \cup {NoHandle}
    BY <1>0 DEF TypeOK, Call
  <2>2. call[q].handle \in Handles => challenges'[call[q].handle] \in Row
    BY DEF TypeOK
  <2>3. faults > 0 => faults' > 0
    BY <1>0 DEF Advances, TypeOK
  <2> QED
    BY <1>2, <2>1, <2>2, <2>3 DEF Spent, RowAdvances, Present, Row, Stage
<1> QED
  BY <1>1, <1>3, <1>4, <1>5, <1>6, <1>7, <1>8

\* A request that does not move keeps all it knows.
LEMMA OthersKnow ==
  ASSUME IInv, TypeOK', Advances, NEW q \in Requests, Known(q),
         pc'[q] = pc[q], call'[q] = call[q], answer'[q] = answer[q],
         HasAccount(q)' => HasAccount(q)
  PROVE  Known(q)'
<1>1. Untouched(q)'
  BY DEF Known, Untouched
<1>2. pc[q] # "refresh" => Lost(q)'
  BY DEF Lost
<1>3. pc[q] \notin {"claim", "refresh"} \cup Claiming => Located(q)'
  BY DEF Located
<1>4. pc[q] # "done" => Spent(q)'
  BY DEF Spent
<1> QED
  BY <1>1, <1>2, <1>3, <1>4, StillKnown DEF Known

-----------------------------------------------------------------------------
(* What the moving request knows after its step, one lemma per action.     *)

\* Facts about a request in its handler that every lemma below uses.
InHandler(r) ==
  /\ TypeOK /\ IInv /\ TypeOK' /\ Advances /\ Known(r) /\ Moves(r)
  /\ ~HasAccount(r)

\* A caller get_identity refuses carries no handle.
LEMMA RefuseIdentityKnows ==
  ASSUME NEW r \in Requests, InHandler(r), UNCHANGED accounts,
         NEW p \in Pairs, RefuseIdentity(r, p)
  PROVE  Known(r)'
<1> USE DEF InHandler
<1>1. call[r] = NoCall /\ call'[r].identity = NoIdentity /\ call'[r].handle = NoHandle
  BY DEF RefuseIdentity, Known, Untouched, NoCall, TypeOK
<1>2. pc'[r] = "done" /\ answer'[r] \in Rejection /\ ~HasAccount(r)'
  BY DEF RefuseIdentity, Goto, TypeOK, HasAccount
<1> QED
  BY <1>1, <1>2 DEF Known, Untouched, Snapshot, Located, Lost, Told, Durable, Spent,
                    Claiming, Rejection

\* The snapshot a handler starts with.
LEMMA ResolvedSnapshot ==
  ASSUME NEW p, Resolved(p) # NoIdentity
  PROVE  \E a \in accounts : a.id = Resolved(p) /\ a.pair = p
<1>1. IdentityOf(p) # {}
  BY DEF Resolved
<1>2. (CHOOSE a \in IdentityOf(p) : TRUE) \in IdentityOf(p)
  BY <1>1
<1> QED
  BY <1>1, <1>2 DEF Resolved, IdentityOf

\* A handler starts with the account its pair resolves to.
LEMMA BeginKnows ==
  ASSUME NEW r \in Requests, InHandler(r), UNCHANGED accounts,
         NEW p \in Pairs, NEW h \in Handles,
         BeginIssue(r, p, h) \/ BeginComplete(r, p, h)
  PROVE  Known(r)'
<1> USE DEF InHandler
<1>1. /\ call'[r].identity = Resolved(p) /\ call'[r].pair = p
      /\ pc'[r] \in {"issue", "locate"} /\ UNCHANGED answer /\ pc[r] = "idle"
  BY DEF BeginIssue, BeginComplete, TypeOK, Goto
<1>2. answer'[r] = "none" /\ ~HasAccount(r)'
  BY <1>1 DEF Known, Untouched, HasAccount
<1>3. Snapshot(r)'
  BY <1>1, ResolvedSnapshot DEF Snapshot
<1> QED
  BY <1>1, <1>2, <1>3 DEF Known, Untouched, Located, Lost, Told, Durable, Spent,
                          Claiming, Rejection

\* The issuing handler keeps its snapshot.
LEMMA IssueKnows ==
  ASSUME NEW r \in Requests, InHandler(r), UNCHANGED accounts, Issue(r)
  PROVE  Known(r)'
<1> USE DEF InHandler
<1>1. /\ call'[r].identity = call[r].identity /\ call'[r].pair = call[r].pair
      /\ pc'[r] = "commit_issue" /\ answer'[r] = "issued" /\ ~HasAccount(r)'
  BY DEF Issue, TypeOK, Goto, HasAccount, Call
<1>2. Snapshot(r)'
  BY <1>1 DEF Known, Snapshot
<1> QED
  BY <1>1, <1>2 DEF Known, Untouched, Located, Lost, Told, Durable, Spent,
                    Claiming, Rejection

\* Only the pair a row was issued to passes verify_binding; the others are
\* turned away, as is everybody once the subject is erased.
LEMMA BindingHolds ==
  ASSUME IInv, RowsFollow, \A q \in Requests : Known(q), NEW r \in Requests,
         call[r].handle \in Handles, Present(call[r].handle),
         call[r].pair \in Pairs
  PROVE  LET row == challenges[call[r].handle] IN
         /\ BindingError(row, r) = "none" => IssuedTo(call[r].handle, call[r].pair)
         /\ BindingError(row, r) = "challenge_consumed" =>
              row.stage \in {"claimed", "consumed"}
<1> DEFINE row == challenges[call[r].handle]
<1>0. row \in Row /\ NoPair \notin Pairs
  BY ConstantsAssumption DEF IInv, TypeOK
<1>1. PICK q \in Requests :
        /\ Issuer(q, call[r].handle) /\ row.bound = call[q].identity
        /\ row.subject = IF row.stage # "consumed" /\ call[q].identity = NoIdentity
                         THEN call[q].pair ELSE NoPair
  BY DEF RowsFollow
<1>2. ASSUME BindingError(row, r) = "none" PROVE IssuedTo(call[r].handle, call[r].pair)
  <2>1. CASE row.bound # NoIdentity
    <3>1. call[r].identity = call[q].identity /\ call[q].identity # NoIdentity
      BY <1>1, <1>2, <2>1 DEF BindingError
    <3>2. PICK a \in accounts : a.id = call[q].identity /\ a.pair = call[q].pair
      BY <3>1 DEF Known, Snapshot
    <3>3. PICK b \in accounts : b.id = call[q].identity /\ b.pair = call[r].pair
      BY <3>1 DEF Known, Snapshot
    <3>4. a = b
      BY <3>2, <3>3 DEF IInv, AccountsPaidFor
    <3> QED
      BY <1>1, <3>2, <3>3, <3>4 DEF IssuedTo, Issuer
  <2>2. CASE row.bound = NoIdentity
    <3>1. row.subject # NoPair /\ row.subject = call[r].pair
      BY <1>2, <2>2 DEF BindingError
    <3> QED
      BY <1>1, <3>1 DEF IssuedTo, Issuer
  <2> QED
    BY <2>1, <2>2
<1>3. ASSUME BindingError(row, r) = "challenge_consumed"
      PROVE  row.stage \in {"claimed", "consumed"}
  <2>1. row.bound = NoIdentity /\ row.subject = NoPair
    BY <1>3 DEF BindingError
  <2> QED
    BY <1>0, <1>1, <2>1 DEF Issuer, Row, Stage
<1> QED
  BY <1>2, <1>3

\* Only the pair the row was issued to goes on to the claim.
LEMMA LocateKnows ==
  ASSUME NEW r \in Requests, InHandler(r), UNCHANGED accounts, Locate(r),
         RowsFollow, \A q \in Requests : Known(q)
  PROVE  Known(r)'
<1> USE DEF InHandler
<1> DEFINE row == challenges[call[r].handle]
           error == IF row.stage = "absent" THEN "challenge_not_found"
                    ELSE BindingError(row, r)
<1>1. /\ call[r].handle \in Handles /\ call[r].pair \in Pairs /\ pc[r] = "locate"
      /\ UNCHANGED <<call, challenges>>
  BY DEF Locate, Reject, IInv, CallsFollow, tables
<1>2. ~HasAccount(r)'
  BY DEF HasAccount
<1>3. Snapshot(r)'
  BY <1>1 DEF Known, Snapshot
<1>4. CASE error # "none"
  <2>1. pc'[r] = "done" /\ answer'[r] = error
    BY <1>4 DEF Locate, Reject, Goto, TypeOK
  <2>2. /\ error \in {"challenge_not_found", "challenge_consumed",
                       "challenge_identity_mismatch"}
        /\ error = "challenge_consumed" => row.stage \in {"claimed", "consumed"}
    <3>1. CASE row.stage = "absent"
      BY <3>1
    <3>2. CASE row.stage # "absent"
      <4>1. Present(call[r].handle)
        BY <3>2 DEF Present
      <4> QED
        BY <1>1, <1>4, <3>2, <4>1, BindingHolds DEF BindingError
    <3> QED
      BY <3>1, <3>2
  <2> HIDE DEF error
  <2>3. Told(r)'
    BY <1>1, <2>1, <2>2 DEF Told, Present
  <2> QED
    BY <1>2, <1>3, <2>1, <2>2, <2>3 DEF Known, Untouched, Located, Lost, Durable, Spent,
                                        Claiming, Rejection
<1>5. CASE error = "none"
  <2>1. pc'[r] = "claim" /\ UNCHANGED answer
    BY <1>5 DEF Locate, Goto, TypeOK
  <2>2. row.stage # "absent" /\ BindingError(row, r) = "none"
    BY <1>5
  <2>3. Present(call[r].handle) /\ IssuedTo(call[r].handle, call[r].pair)
    BY <1>1, <2>2, BindingHolds DEF Present
  <2>4. Located(r)'
    BY <1>1, <2>3, IssuedForever DEF Located, Present
  <2>5. Told(r)' /\ Durable(r)'
    BY <1>1, <1>2, <2>1, StillKnown DEF Known
  <2> QED
    BY <1>3, <2>1, <2>4, <2>5 DEF Known, Untouched, Lost, Spent
<1> QED
  BY <1>4, <1>5

\* A claim that matched nothing met a claimed row or an expired one.
LEMMA ClaimKnows ==
  ASSUME NEW r \in Requests, InHandler(r), UNCHANGED accounts, Claim(r)
  PROVE  Known(r)'
<1> USE DEF InHandler
<1>1. /\ call[r].handle \in Handles /\ pc[r] = "claim"
      /\ UNCHANGED <<call, challenges, answer>>
  BY DEF Claim, IInv, CallsFollow, tables
<1>2. ~HasAccount(r)'
  BY DEF HasAccount
<1>3. Snapshot(r)' /\ Located(r)' /\ Told(r)' /\ Durable(r)'
  BY <1>1, <1>2, StillKnown
<1>4. /\ pc'[r] \in {"commit_claim", "refresh"}
      /\ pc'[r] = "refresh" => ~Claimable(r)
  BY DEF Claim, Goto, TypeOK
<1>5. Lost(r)'
  <2>1. call[r].at \in Nat /\ challenges[call[r].handle].expires \in Nat
    BY <1>1 DEF TypeOK, Call, Row
  <2> QED
    BY <1>1, <1>4, <2>1 DEF Lost, Claimable
<1> QED
  BY <1>3, <1>4, <1>5 DEF Known, Untouched, Spent

\* The re-read row tells the two losses apart.
LEMMA RefreshKnows ==
  ASSUME NEW r \in Requests, InHandler(r), UNCHANGED accounts, Refresh(r)
  PROVE  Known(r)'
<1> USE DEF InHandler
<1>1. /\ call[r].handle \in Handles /\ pc[r] = "refresh" /\ UNCHANGED <<call, challenges>>
      /\ challenges[call[r].handle] \in Row
  BY DEF Refresh, Reject, IInv, CallsFollow, tables, TypeOK
<1>2. ~HasAccount(r)'
  BY DEF HasAccount
<1>3. Snapshot(r)'
  BY <1>1, StillKnown
<1>4. /\ pc'[r] = "done"
      /\ answer'[r] = IF challenges[call[r].handle].stage = "issued"
                      THEN "challenge_expired" ELSE "challenge_consumed"
  BY DEF Refresh, Reject, Goto, TypeOK
<1>5. Present(call[r].handle)
  BY <1>1 DEF Known, Located
<1>6. Told(r)'
  BY <1>1, <1>4, <1>5 DEF Told, Known, Lost, Present, Row, Stage
<1> QED
  BY <1>2, <1>3, <1>4, <1>6 DEF Known, Untouched, Located, Lost, Durable, Spent,
                                Claiming, Rejection

\* The claimant moves on, or is rejected and about to spend the handle.
LEMMA ClaimantKnows ==
  ASSUME NEW r \in Requests, InHandler(r), UNCHANGED accounts,
         pc[r] \in Claiming, pc'[r] \in Claiming, answer'[r] \in {answer[r]} \cup Rejection,
         call'[r].pair = call[r].pair, call'[r].handle = call[r].handle,
         call'[r].identity = call[r].identity, call'[r].at = call[r].at
  PROVE  Known(r)'
<1> USE DEF InHandler
<1>1. ~HasAccount(r)'
  BY DEF HasAccount
<1>2. Snapshot(r)' /\ Located(r)'
  BY StillKnown
<1>3. Told(r)' /\ Durable(r)'
  <2>1. CASE answer'[r] = answer[r]
    BY <1>1, <2>1, StillKnown
  <2>2. CASE answer'[r] \in Rejection
    BY <1>1, <2>2 DEF Told, Durable, Rejection
  <2> QED
    BY <2>1, <2>2
<1>4. pc'[r] \notin {"idle", "refresh", "done"}
  BY DEF Claiming
<1> QED
  BY <1>2, <1>3, <1>4 DEF Known, Untouched, Lost, Spent

\* From the provider read to the spending, the request stays the claimant.
LEMMA AttemptKnows ==
  ASSUME NEW r \in Requests, InHandler(r), UNCHANGED accounts,
         \/ \E u \in Uids \cup {NoUid} : LookupFound(r, u)
         \/ LookupRetryable(r) \/ \E code \in Rejection : LookupFailed(r, code)
         \/ LookupNoApp(r) \/ ResolveExisting(r) \/ InsertAccount(r)
         \/ Consume(r) \/ RollbackRejected(r) \/ SpendRejected(r)
  PROVE  Known(r)'
<1> USE DEF InHandler
<1> DEFINE Moved ==
      /\ pc[r] \in Claiming /\ pc'[r] \in Claiming
      /\ answer'[r] \in {answer[r]} \cup Rejection
      /\ call'[r].pair = call[r].pair /\ call'[r].handle = call[r].handle
      /\ call'[r].identity = call[r].identity /\ call'[r].at = call[r].at
<1>1. ASSUME NEW u \in Uids \cup {NoUid}, LookupFound(r, u) PROVE Moved
  BY <1>1 DEF LookupFound, ReadProvider, Goto, TypeOK, Call, Claiming
<1>2. ASSUME LookupRetryable(r) PROVE Moved
  BY <1>2 DEF LookupRetryable, ReadProvider, TypeOK, Claiming
<1>3. ASSUME NEW code \in Rejection, LookupFailed(r, code) PROVE Moved
  BY <1>3 DEF LookupFailed, ReadProvider, RejectClaimed, Goto, TypeOK, Claiming
<1>4. ASSUME LookupNoApp(r) PROVE Moved
  BY <1>4 DEF LookupNoApp, RejectClaimed, Goto, TypeOK, Claiming, Rejection
<1>5. ASSUME ResolveExisting(r) PROVE Moved
  <2>1. ExistingError(call[r].pair) \in Rejection
    BY DEF ExistingError, Rejection
  <2> QED
    BY <1>5, <2>1 DEF ResolveExisting, RejectClaimed, Goto, TypeOK, Claiming
<1>6. ASSUME InsertAccount(r) PROVE Moved
  BY <1>6 DEF InsertAccount, RejectClaimed, Goto, TypeOK, Claiming, Rejection
<1>7. ASSUME Consume(r) \/ RollbackRejected(r) \/ SpendRejected(r) PROVE Moved
  BY <1>7 DEF Consume, RollbackRejected, SpendRejected, SpendHandle, Goto, TypeOK, Claiming
<1>8. Moved
  BY <1>1, <1>2, <1>3, <1>4, <1>5, <1>6, <1>7
<1> QED
  BY <1>8, ClaimantKnows

\* A request that ends with an answer that promises nothing of its row.
LEMMA EndedKnows ==
  ASSUME NEW r \in Requests, InHandler(r),
         ~HasAccount(r)' \/ (faults' > 0 /\ Located(r) /\ pc[r] \in Claiming),
         UNCHANGED call, pc'[r] = "done", answer'[r] \in {"issued", "internal_error"}
  PROVE  Known(r)'
<1> USE DEF InHandler
<1>1. Snapshot(r)'
  BY StillKnown
<1>2. Durable(r)'
  BY IssuedForever DEF Durable, Located
<1> QED
  BY <1>1, <1>2 DEF Known, Untouched, Located, Lost, Told, Spent, Claiming, Rejection

\* An issue ends with "issued", committed or not.
LEMMA CommitIssueKnows ==
  ASSUME NEW r \in Requests, InHandler(r), Effect(r), CommitIssue(r)
  PROVE  Known(r)'
<1> USE DEF InHandler
<1>1. ~HasAccount(r)'
  BY DEF HasAccount, Effect, tables, CommitIssue, IssueWritten, ClaimWritten,
         RejectionWritten, AccountWritten
<1> QED
  BY <1>1, EndedKnows DEF CommitIssue, Commit, Goto, TypeOK

\* A claim that is reported as committed leads to the provider read.
LEMMA CommitClaimKnows ==
  ASSUME NEW r \in Requests, InHandler(r), Effect(r), CommitClaim(r)
  PROVE  Known(r)'
<1> USE DEF InHandler
<1>1. pc[r] = "commit_claim" /\ ~HasAccount(r)' /\ UNCHANGED call
  BY DEF HasAccount, Effect, tables, CommitClaim, Commit, IssueWritten, ClaimWritten,
         RejectionWritten, AccountWritten
<1>2. \/ pc'[r] = "lookup" /\ answer'[r] = "none"
      \/ pc'[r] = "done" /\ answer'[r] = "internal_error"
  BY DEF CommitClaim, Commit, Goto, TypeOK
<1>3. CASE pc'[r] = "lookup" /\ answer'[r] = "none"
  <2>1. Snapshot(r)' /\ Located(r)'
    BY <1>1, StillKnown DEF Claiming
  <2> QED
    BY <1>1, <1>3, <2>1 DEF Known, Untouched, Lost, Told, Durable, Spent
<1> QED
  BY <1>1, <1>2, <1>3, EndedKnows

\* "created" comes with the account; an account without it, with a fault.
LEMMA CommitAccountKnows ==
  ASSUME NEW r \in Requests, InHandler(r), CommitAccount(r)
  PROVE  Known(r)'
<1> USE DEF InHandler
<1>1. /\ pc[r] = "commit_account" /\ pc[r] \in Claiming /\ UNCHANGED call
      /\ pc'[r] = "done"
  BY DEF CommitAccount, Commit, Goto, TypeOK, Claiming
<1>2. \/ Apply(r) /\ answer'[r] = "created"
      \/ Fault /\ answer'[r] = "internal_error"
  BY DEF CommitAccount, Commit, TypeOK
<1>3. CASE Apply(r) /\ answer'[r] = "created"
  <2>1. NewAccount(r) \in accounts' /\ NewAccount(r).id = r
    BY <1>1, <1>3 DEF Apply, IInv, TransactionsFollow, WrittenAt, NewAccount
  <2>2. Durable(r)'
    BY <1>1, <1>3, <2>1, IssuedForever DEF Durable, HasAccount, Known, Located
  <2>3. Snapshot(r)'
    BY <1>1, StillKnown
  <2> QED
    BY <1>1, <1>3, <2>2, <2>3 DEF Known, Untouched, Located, Lost, Told, Spent, Claiming,
                                  Rejection
<1>4. CASE Fault /\ answer'[r] = "internal_error"
  <2>1. faults' > 0
    BY <1>4 DEF Fault, TypeOK
  <2> QED
    BY <1>1, <1>4, <2>1, EndedKnows DEF Known
<1> QED
  BY <1>2, <1>3, <1>4

\* A rejection is answered with the handle consumed, or after a fault.
LEMMA CommitRejectedKnows ==
  ASSUME NEW r \in Requests, InHandler(r), Effect(r), CommitRejected(r)
  PROVE  Known(r)'
<1> USE DEF InHandler
<1>1. /\ pc[r] = "commit_rejected" /\ UNCHANGED call /\ pc'[r] = "done"
      /\ answer'[r] = answer[r] /\ call[r].handle \in Handles
      /\ challenges[call[r].handle] \in Row
      /\ challenges[call[r].handle].stage = "claimed"
  BY DEF CommitRejected, Commit, Goto, TypeOK, IInv, CallsFollow, ClaimsHeld, Claiming
<1>2. ~HasAccount(r)'
  BY <1>1 DEF HasAccount, Effect, tables, IssueWritten, ClaimWritten,
              RejectionWritten, AccountWritten
<1>3. \/ Apply(r)
      \/ faults' > 0
  BY DEF CommitRejected, Commit, Fault, TypeOK
<1>4. Apply(r) => challenges'[call[r].handle].stage = "consumed"
  <2>1. Apply(r) => challenges'[call[r].handle] = Consumed(challenges[call[r].handle])
    BY <1>1 DEF Apply, WrittenRow, IInv, TransactionsFollow, WrittenAt, TypeOK
  <2> QED
    BY <1>1, <2>1, ConsumedRow
<1>5. challenges'[call[r].handle].stage \in {"claimed", "consumed"}
  <2>1. RowAdvances(call[r].handle) /\ challenges'[call[r].handle] \in Row
    BY <1>1 DEF Advances, TypeOK
  <2> QED
    BY <1>1, <2>1 DEF RowAdvances, Present, Row, Stage
<1>6. Snapshot(r)' /\ Told(r)' /\ Durable(r)'
  BY <1>1, <1>2, StillKnown
<1>7. Spent(r)'
  BY <1>1, <1>3, <1>4, <1>5 DEF Spent
<1> QED
  BY <1>1, <1>6, <1>7 DEF Known, Untouched, Located, Lost, Claiming

\* A request that stops at an await promises nothing.
LEMMA InterruptKnows ==
  ASSUME NEW r \in Requests, InHandler(r), UNCHANGED accounts, Interrupt(r)
  PROVE  Known(r)'
<1> USE DEF InHandler
<1>1. ~HasAccount(r)'
  BY DEF HasAccount
<1> QED
  BY <1>1, EndedKnows DEF Interrupt, Goto, TypeOK

-----------------------------------------------------------------------------
(* Every step keeps the longer invariant.                                  *)

\* Only the issuing commit writes a row that was absent, and it answers.
LEMMA IssueAnswered ==
  ASSUME IInv, NEW r \in Requests, Arrive(r) \/ Step(r) \/ Interrupt(r),
         call[r].handle \in Handles, IssueWritten(r)
  PROVE  pc'[r] = "done" /\ answer'[r] = "issued" /\ UNCHANGED call
<1>1. pc[r] = "commit_issue" /\ challenges' # challenges
  BY DEF IssueWritten, Writes, NewRow, Present, IInv, TypeOK
<1>2. CommitIssue(r) \/ Interrupt(r)
  BY <1>1 DEF Arrive, RefuseIdentity, BeginIssue, BeginComplete, Step, Issue, Locate,
              Claim, Refresh, CommitClaim, LookupFound, LookupRetryable, LookupFailed,
              ReadProvider, LookupNoApp, ResolveExisting, InsertAccount, Consume,
              SpendRejected, SpendHandle, CommitAccount, RollbackRejected, CommitRejected
<1>3. ~Interrupt(r)
  BY <1>1 DEF Interrupt, tables
<1> QED
  BY <1>2, <1>3 DEF CommitIssue, Commit, Goto, IInv, TypeOK

\* Rows go on saying of their issuers what they said.
LEMMA RowsKeep ==
  ASSUME IInv, TypeOK', Advances, RowsFollow, NEW r \in Requests, Moves(r), Effect(r),
         call[r].handle \in Handles /\ IssueWritten(r) =>
           pc'[r] = "done" /\ answer'[r] = "issued" /\ UNCHANGED call
  PROVE  RowsFollow'
<1> USE DEF IInv, TypeOK
<1> SUFFICES ASSUME NEW h \in Handles, Present(h)'
             PROVE  \E q \in Requests :
                      /\ Issuer(q, h)' /\ challenges'[h].bound = call'[q].identity
                      /\ challenges'[h].subject =
                           IF challenges'[h].stage # "consumed" /\ call'[q].identity = NoIdentity
                           THEN call'[q].pair ELSE NoPair
  BY DEF RowsFollow
<1>1. CASE Present(h)
  <2>1. PICK q \in Requests :
          /\ Issuer(q, h) /\ challenges[h].bound = call[q].identity
          /\ challenges[h].subject =
               IF challenges[h].stage # "consumed" /\ call[q].identity = NoIdentity
               THEN call[q].pair ELSE NoPair
    BY <1>1 DEF RowsFollow
  <2>2. Issuer(q, h)' /\ call'[q] = call[q]
    BY <2>1 DEF Issuer, Advances
  <2>3. challenges'[h].bound = challenges[h].bound /\ challenges[h] \in Row
    BY <1>1 DEF Advances, RowAdvances
  <2>4. \/ challenges'[h] = challenges[h]
        \/ /\ challenges'[h].stage = "claimed" /\ challenges[h].stage = "issued"
           /\ challenges'[h].subject = challenges[h].subject
        \/ challenges'[h].stage = "consumed" /\ challenges'[h].subject = NoPair
    <3>1. CASE UNCHANGED tables
      BY <3>1 DEF tables
    <3>2. CASE call[r].handle \in Handles /\ IssueWritten(r)
      BY <1>1, <3>2 DEF IssueWritten, Writes, Present
    <3>3. CASE call[r].handle \in Handles /\ ClaimWritten(r)
      BY <2>3, <3>3 DEF ClaimWritten, Writes, Row
    <3>4. CASE call[r].handle \in Handles /\ (RejectionWritten(r) \/ AccountWritten(r))
      <4>1. Writes(r, Consumed(challenges[call[r].handle]))
        BY <3>4 DEF RejectionWritten, AccountWritten
      <4>2. CASE h = call[r].handle
        <5>1. challenges'[h] = Consumed(challenges[h])
          BY <4>1, <4>2 DEF Writes
        <5> QED
          BY <2>3, <5>1, ConsumedRow
      <4>3. CASE h # call[r].handle
        BY <4>1, <4>3 DEF Writes
      <4> QED
        BY <4>2, <4>3
    <3> QED
      BY <3>1, <3>2, <3>3, <3>4 DEF Effect
  <2> QED
    BY <2>1, <2>2, <2>3, <2>4
<1>2. CASE ~Present(h)
  <2>1. call[r].handle \in Handles /\ IssueWritten(r) /\ h = call[r].handle
    <3>1. challenges'[h] # challenges[h]
      BY <1>2 DEF Present
    <3> QED
      BY <1>2, <3>1 DEF Effect, tables, Present, IssueWritten, ClaimWritten,
                        RejectionWritten, AccountWritten, Writes
  <2>2. /\ challenges'[h] = NewRow(r) /\ call'[r] = call[r]
        /\ pc'[r] = "done" /\ answer'[r] = "issued"
    BY <2>1 DEF IssueWritten, Writes
  <2>3. call[r].pair \in Pairs
    BY <2>1 DEF IssueWritten, CallsFollow
  <2> QED
    BY <2>1, <2>2, <2>3 DEF Issuer, NewRow
<1> QED
  BY <1>1, <1>2

\* Each request knows, after a step of its own, what the invariant says it does.
LEMMA MoverKnows ==
  ASSUME IInv, TypeOK', Advances, HolderInv, NEW r \in Requests, Moves(r), Effect(r),
         Arrive(r) \/ Step(r) \/ Interrupt(r)
  PROVE  Known(r)'
<1>1. InHandler(r)
  <2>1. pc[r] # "done"
    BY DEF Moves
  <2> QED
    BY <2>1, NoAccountYet DEF InHandler, HolderInv, IInv
<1>2. RowsFollow /\ \A q \in Requests : Known(q)
  BY DEF HolderInv
<1>3. CASE Arrive(r)
  BY <1>1, <1>3, RefuseIdentityKnows, BeginKnows
  DEF Arrive, RefuseIdentity, BeginIssue, BeginComplete, tables
<1>4. CASE Step(r)
  <2>1. CASE Issue(r)
    BY <1>1, <2>1, IssueKnows DEF Issue, tables
  <2>2. CASE CommitIssue(r)
    BY <1>1, <2>2, CommitIssueKnows
  <2>3. CASE Locate(r)
    <3>1. UNCHANGED accounts
      BY <2>3 DEF Locate, Reject, tables
    <3> QED
      BY <1>1, <1>2, <2>3, <3>1, LocateKnows
  <2>4. CASE Claim(r)
    BY <1>1, <2>4, ClaimKnows DEF Claim, tables
  <2>5. CASE Refresh(r)
    BY <1>1, <2>5, RefreshKnows DEF Refresh, Reject, tables
  <2>6. CASE CommitClaim(r)
    BY <1>1, <2>6, CommitClaimKnows
  <2>7. CASE \/ \E u \in Uids \cup {NoUid} : LookupFound(r, u)
             \/ LookupRetryable(r) \/ \E code \in Rejection : LookupFailed(r, code)
             \/ LookupNoApp(r) \/ ResolveExisting(r) \/ InsertAccount(r)
             \/ Consume(r) \/ RollbackRejected(r) \/ SpendRejected(r)
    <3>1. UNCHANGED accounts
      BY <2>7 DEF LookupFound, LookupRetryable, LookupFailed, LookupNoApp, RejectClaimed,
                  ResolveExisting, InsertAccount, Consume, RollbackRejected,
                  SpendRejected, SpendHandle, tables
    <3> QED
      BY <1>1, <2>7, <3>1, AttemptKnows
  <2>8. CASE CommitAccount(r)
    BY <1>1, <2>8, CommitAccountKnows
  <2>9. CASE CommitRejected(r)
    BY <1>1, <2>9, CommitRejectedKnows
  <2> QED
    BY <1>4, <2>1, <2>2, <2>3, <2>4, <2>5, <2>6, <2>7, <2>8, <2>9 DEF Step
<1>5. CASE Interrupt(r)
  BY <1>1, <1>5, InterruptKnows DEF Interrupt, tables
<1> QED
  BY <1>3, <1>4, <1>5

\* Every step keeps the longer invariant.
LEMMA HolderStep == IInv /\ HolderInv /\ [Next]_vars => HolderInv'
<1> SUFFICES ASSUME IInv, HolderInv, [Next]_vars PROVE HolderInv'
  OBVIOUS
<1>0. IInv' /\ TypeOK' /\ Advances
  BY NextInvariant, StepsAdvance DEF IInv
<1>1. ASSUME NEW r \in Requests, Arrive(r) \/ Step(r) \/ Interrupt(r) PROVE HolderInv'
  <2>1. Moves(r) /\ Effect(r)
    BY <1>1, StepEffect
  <2>2. Known(r)'
    BY <1>0, <1>1, <2>1, MoverKnows
  <2>3. ASSUME NEW q \in Requests, q # r PROVE Known(q)'
    <3>1. HasAccount(q)' => HasAccount(q)
      <4>1. NewAccount(r).id = r
        BY DEF NewAccount
      <4> QED
        BY <2>1, <2>3, <4>1 DEF HasAccount, Effect, tables, IssueWritten, ClaimWritten,
                                RejectionWritten, AccountWritten
    <3> QED
      BY <1>0, <2>1, <2>3, <3>1, OthersKnow DEF Moves, HolderInv
  <2>4. RowsFollow'
    BY <1>0, <1>1, <2>1, RowsKeep, IssueAnswered DEF HolderInv
  <2> QED
    BY <2>2, <2>3, <2>4 DEF HolderInv
<1>2. ASSUME UNCHANGED <<challenges, pc, call, answer, faults>>,
             \A q \in Requests : HasAccount(q)' => HasAccount(q)
      PROVE  HolderInv'
  <2>1. ASSUME NEW q \in Requests PROVE Known(q)'
    BY <1>0, <1>2, OthersKnow DEF HolderInv
  <2>2. RowsFollow'
    BY <1>2 DEF HolderInv, RowsFollow, Present, Issuer
  <2> QED
    BY <2>1, <2>2 DEF HolderInv
<1>3. ASSUME NEW a \in accounts, Retire(a) \/ BlockUser(a) PROVE HolderInv'
  BY <1>2, <1>3, OperateEffect DEF HasAccount
<1>4. CASE Tick \/ Quiesce \/ UNCHANGED vars
  BY <1>2, <1>4 DEF HasAccount, Tick, Quiesce, vars, tables
<1> QED
  BY <1>1, <1>3, <1>4 DEF Next

\* The longer invariant holds initially.
LEMMA HolderInit == Init => HolderInv
BY DEF Init, HolderInv, RowsFollow, Present, NoRow, Known, Untouched, Snapshot, Located,
       Lost, Told, Durable, Spent, HasAccount, NoCall, Claiming, Rejection

\* The longer invariant holds throughout every behaviour.
THEOREM HolderInvariance == Spec => [](IInv /\ HolderInv)
<1>1. Init => IInv /\ HolderInv
  BY InitInvariant, HolderInit
<1>2. IInv /\ HolderInv /\ [Next]_vars => IInv' /\ HolderInv'
  BY NextInvariant, HolderStep
<1> QED
  BY <1>1, <1>2, PTL DEF Spec

\* A handle is claimed only for the pair it was issued to, and the account it
\* buys is that pair's: `verify_binding` reads the row before the claim, and no
\* race between the read and the claim hands it to another pair.
THEOREM ClaimsStayWithHolder == Spec => []ClaimedByItsHolder
<1>1. IInv /\ HolderInv => ClaimedByItsHolder
  BY DEF HolderInv, Known, Located, Durable, HasAccount, ClaimedByItsHolder
<1> QED
  BY <1>1, HolderInvariance, PTL

\* "created" is answered only with the account committed, and an account whose
\* request was not told so met a fault: `complete` commits before it returns.
THEOREM CreatedStaysDurable == Spec => []CreatedIsDurable
<1>1. IInv /\ HolderInv => CreatedIsDurable
  BY DEF HolderInv, Known, Durable, HasAccount, CreatedIsDurable
<1> QED
  BY <1>1, HolderInvariance, PTL

\* The loser of a claim is told the loss it met: `claim` and the `refresh` that
\* follows it tell expiry and consumption apart.
THEOREM LossesAreTruthful == Spec => []LossIsTruthful
<1>1. IInv /\ HolderInv => LossIsTruthful
  BY DEF HolderInv, Known, Told, LossIsTruthful
<1> QED
  BY <1>1, HolderInvariance, PTL

\* A rejection after the claim leaves no handle to try again with: the
\* `except AppError` of `complete` consumes it before it answers, unless a
\* commit or the process failed.
THEOREM RejectionsSpendHandles == Spec => []RejectionSpendsHandle
<1>1. IInv /\ HolderInv => RejectionSpendsHandle
  BY DEF HolderInv, Known, Spent, RejectionSpendsHandle
<1> QED
  BY <1>1, HolderInvariance, PTL

-----------------------------------------------------------------------------
(* The handlers implement the single-use challenge.                        *)

\* The abstract variables, as the instance in AccountCreation reads them.
Stages == [h \in Handles |-> challenges[h].stage]

Holders == [h \in Handles |-> HolderOf(challenges[h])]

CreatedOf(a) == [handle |-> call[a.id].handle, pair |-> a.pair, uid |-> a.uid]

Created == {CreatedOf(a) : a \in accounts}

\* Whoever the row is bound to, by identity or by pair, its holder is the pair
\* it was issued to.
HolderKnown(h, q) ==
  HolderOf(challenges[h]) =
    IF challenges[h].stage = "consumed" THEN NoPair ELSE call[q].pair

HoldersKnown ==
  \A h \in Handles, q \in Requests : Present(h) /\ Issuer(q, h) => HolderKnown(h, q)

\* The holder of every row is its issuer's pair, or nobody once it is spent.
LEMMA HolderIsIssuer == IInv /\ HolderInv => HoldersKnown
<1> SUFFICES ASSUME IInv, HolderInv, NEW h \in Handles, NEW q \in Requests,
                    Present(h), Issuer(q, h)
             PROVE  HolderKnown(h, q)
  BY DEF HoldersKnown
<1>1. PICK i \in Requests :
        /\ Issuer(i, h) /\ challenges[h].bound = call[i].identity
        /\ challenges[h].subject =
             IF challenges[h].stage # "consumed" /\ call[i].identity = NoIdentity
             THEN call[i].pair ELSE NoPair
  BY DEF HolderInv, RowsFollow
<1>2. i = q
  BY <1>1 DEF IInv, HandlesDrawnOnce, Drawing, Issuer
<1>3. CASE challenges[h].stage = "consumed"
  BY <1>3 DEF HolderKnown, HolderOf
<1>4. CASE challenges[h].stage # "consumed" /\ call[q].identity = NoIdentity
  BY <1>1, <1>2, <1>4 DEF HolderKnown, HolderOf, Present
<1>5. CASE challenges[h].stage # "consumed" /\ call[q].identity # NoIdentity
  <2>1. PICK a \in accounts : a.id = call[q].identity /\ a.pair = call[q].pair
    BY <1>5 DEF HolderInv, Known, Snapshot
  <2>2. (CHOOSE b \in accounts : b.id = call[q].identity) = a
    BY <2>1 DEF IInv, AccountsPaidFor
  <2> QED
    BY <1>1, <1>2, <1>5, <2>1, <2>2 DEF HolderKnown, HolderOf, Present
<1> QED
  BY <1>3, <1>4, <1>5

\* A row's holder changes only when the row is issued or spent.
LEMMA HolderKept ==
  ASSUME IInv, HolderInv, IInv', HolderInv', Advances, NEW h \in Handles,
         Present(h)' => Present(h),
         challenges'[h].stage = "consumed" => challenges[h].stage = "consumed"
  PROVE  HolderOf(challenges[h])' = HolderOf(challenges[h])
<1>1. CASE ~Present(h)
  BY <1>1 DEF Present, HolderOf
<1>2. CASE Present(h)
  <2>1. PICK q \in Requests : Issuer(q, h)
    BY <1>2 DEF HolderInv, RowsFollow
  <2>2. HolderKnown(h, q)
    BY <1>2, <2>1, HolderIsIssuer DEF HoldersKnown
  <2>3. Present(h)' /\ Issuer(q, h)' /\ call'[q] = call[q]
    BY <1>2, <2>1 DEF Advances, RowAdvances, Present, Issuer
  <2>4. IInv' /\ HolderInv' => HoldersKnown'
    BY HolderIsIssuer, PTL
  <2>5. HolderKnown(h, q)'
    BY <2>3, <2>4 DEF HoldersKnown
  <2>6. challenges[h].stage = "consumed" => challenges'[h].stage = "consumed"
    <3>1. challenges'[h] \in Row
      BY DEF IInv, TypeOK
    <3> QED
      BY <1>2, <3>1 DEF Advances, RowAdvances, Present, Row, Stage
  <2> QED
    BY <2>2, <2>3, <2>5, <2>6 DEF HolderKnown
<1> QED
  BY <1>1, <1>2

\* A claimant's pair is the holder's.
LEMMA ClaimantIsHolder ==
  ASSUME IInv, HolderInv, NEW r \in Requests, pc[r] \in Claiming \ {"commit_claim"}
  PROVE  HolderOf(challenges[call[r].handle]) = call[r].pair
<1>1. /\ call[r].handle \in Handles /\ challenges[call[r].handle].stage = "claimed"
      /\ Present(call[r].handle) /\ IssuedTo(call[r].handle, call[r].pair)
  BY DEF IInv, CallsFollow, ClaimsHeld, HolderInv, Known, Located, Claiming
<1>2. PICK q \in Requests : Issuer(q, call[r].handle)
  BY <1>1 DEF HolderInv, RowsFollow
<1>3. HolderKnown(call[r].handle, q)
  BY <1>1, <1>2, HolderIsIssuer DEF HoldersKnown
<1>4. call[q].pair = call[r].pair
  BY <1>1, <1>2 DEF IInv, HandlesDrawnOnce, Drawing, Issuer, IssuedTo
<1> QED
  BY <1>1, <1>3, <1>4 DEF HolderKnown

\* The accounts of the others look the same after a request's step.
LEMMA CreatedKept ==
  ASSUME IInv, NEW r \in Requests, Moves(r)
  PROVE  \A a \in accounts : CreatedOf(a)' = CreatedOf(a)
<1> SUFFICES ASSUME NEW a \in accounts PROVE call'[a.id] = call[a.id]
  BY DEF CreatedOf
<1>1. a.id \in Requests /\ pc[a.id] = "done"
  BY DEF IInv, TypeOK, Account, AccountsPaidFor
<1> QED
  BY <1>1 DEF Moves

\* The abstract step each request's step is: an issue, a claim, a spending, a
\* creation, or none.
LEMMA StepImplements ==
  ASSUME IInv, HolderInv, IInv', HolderInv', Advances, NEW r \in Requests,
         NEW g, g = call[r].handle, Moves(r), Effect(r),
         call[r].handle \in Handles /\ IssueWritten(r) =>
           pc'[r] = "done" /\ answer'[r] = "issued" /\ UNCHANGED call
  PROVE  [Abstract!ANext]_<<Stages, Holders, Created>>
<1>0. TypeOK /\ TypeOK' /\ \A a \in accounts : CreatedOf(a)' = CreatedOf(a)
  BY CreatedKept DEF IInv
<1>1. CASE UNCHANGED tables
  <2>1. Created' = Created
    BY <1>0, <1>1 DEF Created, tables
  <2>2. Stages' = Stages
    BY <1>1 DEF Stages, tables
  <2>3. ASSUME NEW h \in Handles PROVE HolderOf(challenges[h])' = HolderOf(challenges[h])
    BY <1>1, HolderKept DEF tables, Present
  <2>4. Holders' = Holders
    BY <2>3 DEF Holders
  <2> QED
    BY <2>1, <2>2, <2>4
<1>2. ASSUME g \in Handles, NEW row, Writes(r, row)
      PROVE  /\ Stages' = [Stages EXCEPT ![g] = row.stage]
             /\ challenges'[g] = row
             /\ \A h \in Handles \ {g} :
                  HolderOf(challenges[h])' = HolderOf(challenges[h])
  <2>1. challenges'[g] = row /\ \A h \in Handles \ {g} : challenges'[h] = challenges[h]
    BY <1>0, <1>2 DEF Writes, TypeOK
  <2>2. ASSUME NEW h \in Handles \ {g}
        PROVE  HolderOf(challenges[h])' = HolderOf(challenges[h])
    BY <2>1, HolderKept DEF Present
  <2> QED
    BY <1>2, <2>1, <2>2 DEF Stages
<1>3. ASSUME g \in Handles, NEW p,
             \A h \in Handles \ {g} : HolderOf(challenges[h])' = HolderOf(challenges[h]),
             HolderOf(challenges[g])' = p
      PROVE  Holders' = [Holders EXCEPT ![g] = p]
  BY <1>3 DEF Holders
<1>4. CASE g \in Handles /\ IssueWritten(r)
  <2>1. PICK p \in Pairs : /\ p = call[r].pair /\ ~Present(g)
                          /\ Writes(r, NewRow(r)) /\ UNCHANGED accounts
    BY <1>4 DEF IssueWritten, IInv, CallsFollow
  <2>2. NewRow(r).stage = "issued"
    BY DEF NewRow
  <2>3. /\ Stages' = [Stages EXCEPT ![g] = "issued"]
        /\ challenges'[g].stage = "issued"
    BY <1>2, <1>4, <2>1, <2>2
  <2>4. Issuer(r, g)' /\ call'[r] = call[r] /\ Present(g)'
    BY <1>4, <2>1, <2>3 DEF Issuer, Present
  <2>5. HolderOf(challenges[g])' = p
    <3>1. IInv' /\ HolderInv' => HoldersKnown'
      BY HolderIsIssuer, PTL
    <3>2. HolderKnown(g, r)'
      BY <1>4, <2>4, <3>1 DEF HoldersKnown
    <3> QED
      BY <2>1, <2>3, <2>4, <3>2 DEF HolderKnown
  <2>6. Holders' = [Holders EXCEPT ![g] = p]
    BY <1>2, <1>3, <1>4, <2>1, <2>5
  <2>7. Created' = Created
    BY <1>0, <2>1 DEF Created
  <2>8. Stages[g] = "absent"
    BY <1>4, <2>1 DEF Stages, Present
  <2>9. Abstract!AIssue(g, p)
    BY <2>3, <2>6, <2>7, <2>8 DEF Abstract!AIssue, Stages, Holders, Created, CreatedOf
  <2> QED
    BY <1>4, <2>1, <2>9 DEF Abstract!ANext
<1>5. CASE g \in Handles /\ ClaimWritten(r)
  <2> DEFINE row == [challenges[g] EXCEPT !.stage = "claimed"]
  <2>1. /\ challenges[g].stage = "issued" /\ Writes(r, row) /\ UNCHANGED accounts
        /\ challenges[g] \in Row
    BY <1>0, <1>5 DEF ClaimWritten, TypeOK
  <2>2. row.stage = "claimed"
    BY <2>1 DEF Row
  <2> HIDE DEF row
  <2>3. /\ Stages' = [Stages EXCEPT ![g] = "claimed"]
        /\ challenges'[g].stage = "claimed"
        /\ \A h \in Handles \ {g} : HolderOf(challenges[h])' = HolderOf(challenges[h])
    BY <1>2, <1>5, <2>1, <2>2
  <2>4. HolderOf(challenges[g])' = HolderOf(challenges[g])
    BY <1>5, <2>1, <2>3, HolderKept DEF Present
  <2>5. Holders' = Holders
    BY <2>3, <2>4 DEF Holders
  <2>6. Created' = Created
    BY <1>0, <2>1 DEF Created
  <2>7. Stages[g] = "issued"
    BY <1>5, <2>1 DEF Stages
  <2>8. Abstract!AClaim(g)
    BY <2>3, <2>5, <2>6, <2>7 DEF Abstract!AClaim, Stages, Holders, Created, CreatedOf
  <2> QED
    BY <1>5, <2>8 DEF Abstract!ANext
<1>6. CASE g \in Handles /\ UNCHANGED call /\ (RejectionWritten(r) \/ AccountWritten(r))
  <2>1. /\ challenges[g].stage = "claimed" /\ Writes(r, Consumed(challenges[g]))
        /\ challenges[g] \in Row
    BY <1>0, <1>6 DEF RejectionWritten, AccountWritten, TypeOK
  <2>2. Consumed(challenges[g]).stage = "consumed"
    BY <2>1, ConsumedRow
  <2>3. /\ Stages' = [Stages EXCEPT ![g] = "consumed"]
        /\ challenges'[g].stage = "consumed"
        /\ \A h \in Handles \ {g} : HolderOf(challenges[h])' = HolderOf(challenges[h])
    BY <1>2, <1>6, <2>1, <2>2
  <2>4. HolderOf(challenges[g])' = NoPair
    BY <2>3 DEF HolderOf
  <2>5. Holders' = [Holders EXCEPT ![g] = NoPair]
    BY <1>3, <1>6, <2>3, <2>4
  <2>6. Stages[g] = "claimed"
    BY <1>6, <2>1 DEF Stages
  <2>7. CASE RejectionWritten(r)
    <3>1. Created' = Created
      BY <1>0, <2>7 DEF Created, RejectionWritten
    <3>2. Abstract!ASpend(g)
      BY <2>3, <2>5, <2>6, <3>1 DEF Abstract!ASpend, Stages, Holders, Created, CreatedOf
    <3> QED
      BY <1>6, <3>2 DEF Abstract!ANext
  <2>8. CASE AccountWritten(r)
    <3>1. PICK u \in Uids \cup {NoUid} :
            /\ u = call[r].uid /\ pc[r] = "commit_account"
            /\ accounts' = accounts \cup {NewAccount(r)}
      BY <1>0, <2>8 DEF AccountWritten, TypeOK, Call
    <3>2. Holders[g] = call[r].pair
      BY <1>6, <3>1, ClaimantIsHolder DEF Holders, Claiming
    <3>3. \A a \in accounts : /\ a.pair # call[r].pair
                              /\ a.uid = NoUid \/ a.uid # call[r].uid
      BY <3>1 DEF IInv, KeysReserved, Inserted, SameKey, NewAccount
    <3>4. \A c \in Created : c.pair # call[r].pair /\ (c.uid = NoUid \/ c.uid # u)
      BY <3>1, <3>3 DEF Created, CreatedOf
    <3>5. PICK n : n = NewAccount(r)
      OBVIOUS
    <3>6. CreatedOf(n)' = [handle |-> g, pair |-> Holders[g], uid |-> u]
      <4>1. n.id = r /\ n.pair = call[r].pair /\ n.uid = u /\ call'[r] = call[r]
        BY <1>6, <3>1, <3>5 DEF NewAccount
      <4> QED
        BY <3>2, <4>1 DEF CreatedOf
    <3>7. Created' = Created \cup {[handle |-> g, pair |-> Holders[g], uid |-> u]}
      <4>1. Created' = {CreatedOf(a)' : a \in accounts \cup {n}}
        BY <3>1, <3>5 DEF Created
      <4>2. Created' = {CreatedOf(a)' : a \in accounts} \cup {CreatedOf(n)'}
        BY <4>1
      <4> QED
        BY <1>0, <3>6, <4>2 DEF Created
    <3>8. Abstract!ACreate(g, u)
      BY <2>3, <2>5, <2>6, <3>2, <3>4, <3>7
      DEF Abstract!ACreate, Stages, Holders, Created, CreatedOf
    <3> QED
      BY <1>6, <3>1, <3>8 DEF Abstract!ANext
  <2> QED
    BY <1>6, <2>7, <2>8
<1> QED
  BY <1>1, <1>4, <1>5, <1>6 DEF Effect

\* Every step of the handlers, of support tooling or of the clock is a step of
\* the single-use challenge or leaves it alone.
LEMMA NextImplements ==
  IInv /\ HolderInv /\ [Next]_vars => [Abstract!ANext]_<<Stages, Holders, Created>>
<1> SUFFICES ASSUME IInv, HolderInv, [Next]_vars
             PROVE  [Abstract!ANext]_<<Stages, Holders, Created>>
  OBVIOUS
<1>0. IInv' /\ HolderInv' /\ Advances
  BY NextInvariant, HolderStep, StepsAdvance
<1>1. ASSUME NEW r \in Requests, Arrive(r) \/ Step(r) \/ Interrupt(r)
      PROVE  [Abstract!ANext]_<<Stages, Holders, Created>>
  <2>1. Moves(r) /\ Effect(r)
    BY <1>1, StepEffect
  <2>2. PICK g : g = call[r].handle
    OBVIOUS
  <2> QED
    BY <1>0, <1>1, <2>1, <2>2, StepImplements, IssueAnswered
<1>2. ASSUME UNCHANGED <<challenges, call>>, Created' = Created
      PROVE  UNCHANGED <<Stages, Holders, Created>>
  <2>1. ASSUME NEW h \in Handles PROVE HolderOf(challenges[h])' = HolderOf(challenges[h])
    BY <1>0, <1>2, HolderKept DEF Present
  <2> QED
    BY <1>2, <2>1 DEF Stages, Holders
<1>3. ASSUME NEW a \in accounts, Retire(a) \/ BlockUser(a)
      PROVE  UNCHANGED <<Stages, Holders, Created>>
  <2>1. PICK b : /\ b.id = a.id /\ b.pair = a.pair /\ b.uid = a.uid
                 /\ accounts' = (accounts \ {a}) \cup {b}
                 /\ UNCHANGED <<challenges, call>>
    BY <1>3, OperateEffect
  <2>2. CreatedOf(b) = CreatedOf(a) /\ \A c : CreatedOf(c)' = CreatedOf(c)
    BY <2>1 DEF CreatedOf
  <2>3. Created' = {CreatedOf(c) : c \in (accounts \ {a}) \cup {b}}
    BY <2>1, <2>2 DEF Created
  <2>4. Created' = Created
    BY <2>2, <2>3 DEF Created
  <2> QED
    BY <1>2, <2>1, <2>4
<1>4. CASE Tick \/ Quiesce \/ UNCHANGED vars
  <2>1. UNCHANGED <<challenges, call, accounts>>
    BY <1>4 DEF Tick, Quiesce, vars, tables
  <2>2. Created' = Created
    BY <2>1 DEF Created, CreatedOf
  <2> QED
    BY <1>2, <2>1, <2>2
<1> QED
  BY <1>1, <1>3, <1>4 DEF Next

\* The handlers, with their races, faults and lost commits, implement the
\* single-use challenge: one issue, one claim and one spending per handle, and
\* an account only in the step that spends the handle issued to its pair.
THEOREM SingleUse == Spec => ImplementsSingleUse
<1>1. Init => Abstract!AInit
  BY DEF Init, Abstract!AInit, NoRow, HolderOf
<1>2. IInv /\ HolderInv /\ [Next]_vars => [Abstract!ANext]_(Abstract!avars)
  BY NextImplements DEF Abstract!avars, Stages, Holders, Created, CreatedOf
<1> QED
  BY <1>1, <1>2, HolderInvariance, PTL DEF Spec, ImplementsSingleUse, Abstract!ASpec
=============================================================================
