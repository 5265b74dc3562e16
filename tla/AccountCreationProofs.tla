----------------------- MODULE AccountCreationProofs -----------------------
(***************************************************************************)
(* Proofs about AccountCreation, for every number of requests, handles,    *)
(* pairs and provider accounts, every TTL and every number of faults.      *)
(***************************************************************************)
EXTENDS AccountCreation, TLAPS

\* The initial state satisfies the inductive invariant.
LEMMA InitInvariant == Init => IInv
<1> SUFFICES ASSUME Init PROVE IInv
  OBVIOUS
<1> USE ConstantsAssumption DEF Init
<1>1. TypeOK
  BY DEF TypeOK, Row, NoRow, Account, Call, NoCall, Location, Stage, Answer,
         Rejection, Write
<1>2. TransactionsFollow
  BY DEF TransactionsFollow, WrittenAt
<1>3. CallsFollow
  BY DEF CallsFollow
<1>4. HandlesDrawnOnce
  BY DEF HandlesDrawnOnce, Drawing, NoRow
<1>5. ClaimsHeld /\ OneClaimant
  BY DEF ClaimsHeld, OneClaimant, Claiming
<1>6. AccountsPaidFor /\ KeysReserved /\ NoDuplicateAccount
  BY DEF AccountsPaidFor, AccountSpendsHandle, KeysReserved, Inserted,
         NoDuplicateAccount
<1> QED
  BY <1>1, <1>2, <1>3, <1>4, <1>5, <1>6 DEF IInv

-----------------------------------------------------------------------------
(* Type correctness.                                                       *)

\* Commit keeps the types when both of its answers are answers.
LEMMA CommitTypes ==
  ASSUME TypeOK, NEW r \in Requests, NEW next \in Location,
         NEW success \in Answer, NEW failure \in Answer,
         call[r].handle \in Handles, "account" \in pending[r] => call[r].pair \in Pairs,
         Commit(r, next, success, failure)
  PROVE  TypeOK'
<1> USE DEF TypeOK
<1>1. WrittenRow(r) \in Row
  <2>1. challenges[call[r].handle] \in Row
    OBVIOUS
  <2>2. NewRow(r) \in Row
    BY ConstantsAssumption DEF NewRow, Row, Call, Stage
  <2> QED
    BY <2>1, <2>2 DEF WrittenRow, Consumed, Row, Stage
<1>2. "account" \in pending[r] => NewAccount(r) \in Account
  BY DEF NewAccount, Account, Call
<1>3. Apply(r) => challenges' \in [Handles -> Row] /\ accounts' \subseteq Account
  BY <1>1, <1>2 DEF Apply
<1>4. challenges' \in [Handles -> Row] /\ accounts' \subseteq Account
  BY <1>3 DEF Commit, tables
<1>5. /\ pc' \in [Requests -> Location] /\ answer' \in [Requests -> Answer]
      /\ faults' \in Nat
  BY DEF Commit, Goto, Fault, Location
<1>6. pending' \in [Requests -> SUBSET Write] /\ poisoned' \subseteq Requests
  BY DEF Commit, EndTransaction
<1>7. /\ now' \in Nat /\ call' \in [Requests -> Call]
      /\ attempts' \in [Requests -> Nat]
  BY DEF Commit
<1> QED
  BY <1>4, <1>5, <1>6, <1>7

\* The identity a pair resolves to is an identity row, or none.
LEMMA ResolvedType ==
  ASSUME TypeOK, NEW p \in Pairs
  PROVE  Resolved(p) \in Requests \cup {NoIdentity}
<1>1. CASE IdentityOf(p) = {}
  BY <1>1 DEF Resolved
<1>2. CASE IdentityOf(p) # {}
  <2> DEFINE a == CHOOSE a \in IdentityOf(p) : TRUE
  <2>1. a \in IdentityOf(p)
    BY <1>2
  <2>2. a \in Account
    BY <2>1 DEF IdentityOf, TypeOK
  <2>3. a.id \in Requests
    BY <2>2 DEF Account
  <2> QED
    BY <1>2, <2>3 DEF Resolved
<1> QED
  BY <1>1, <1>2

\* Every step keeps the types.
LEMMA TypeStep == IInv /\ [Next]_vars => TypeOK'
<1> SUFFICES ASSUME IInv, [Next]_vars PROVE TypeOK'
  OBVIOUS
<1>0. TypeOK /\ CallsFollow /\ TransactionsFollow
  BY DEF IInv
<1> USE <1>0, ConstantsAssumption
<1>1. ASSUME NEW r \in Requests, Arrive(r) PROVE TypeOK'
  <2>1. PICK p \in Pairs :
          \/ RefuseIdentity(r, p)
          \/ \E h \in Handles : BeginIssue(r, p, h) \/ BeginComplete(r, p, h)
    BY <1>1 DEF Arrive
  <2>2. CASE RefuseIdentity(r, p)
    BY <2>2 DEF RefuseIdentity, TypeOK, tables, Goto, Location, Answer, Call
  <2>3. ASSUME NEW h \in Handles, BeginIssue(r, p, h) PROVE TypeOK'
    BY <2>3, ResolvedType DEF BeginIssue, TypeOK, tables, Goto, Location, Call
  <2>4. ASSUME NEW h \in Handles, BeginComplete(r, p, h) PROVE TypeOK'
    BY <2>4, ResolvedType DEF BeginComplete, TypeOK, tables, Goto, Location, Call
  <2> QED
    BY <2>1, <2>2, <2>3, <2>4
<1>2. ASSUME NEW r \in Requests, Step(r) PROVE TypeOK'
  <2>1. CASE Issue(r)
    BY <2>1 DEF Issue, TypeOK, tables, Goto, Location, Answer, Call, Write
  <2>2. CASE CommitIssue(r)
    <3>1. "account" \notin pending[r] /\ call[r].handle \in Handles
      BY <2>2 DEF CommitIssue, TransactionsFollow, WrittenAt, CallsFollow
    <3> QED
      BY <2>2, <3>1, CommitTypes DEF CommitIssue, Location, Answer
  <2>3. CASE Locate(r)
    <3>2. ASSUME NEW code \in Answer, Reject(r, code) PROVE TypeOK'
      BY <3>2 DEF Reject, EndTransaction, Goto, TypeOK, tables, Location
    <3>3. ASSUME NEW row PROVE BindingError(row, r) \in Answer
      BY DEF BindingError, Answer
    <3>4. "challenge_not_found" \in Answer
      BY DEF Answer
    <3> QED
      BY <2>3, <3>2, <3>3, <3>4 DEF Locate, Goto, TypeOK, tables, Location
  <2>4. CASE Claim(r)
    BY <2>4 DEF Claim, TypeOK, tables, Goto, Location, Write
  <2>5. CASE Refresh(r)
    BY <2>5 DEF Refresh, Reject, EndTransaction, Goto, TypeOK, tables, Location, Answer
  <2>6. CASE CommitClaim(r)
    <3>1. "account" \notin pending[r] /\ call[r].handle \in Handles
      BY <2>6 DEF CommitClaim, TransactionsFollow, WrittenAt, CallsFollow
    <3> QED
      BY <2>6, <3>1, CommitTypes DEF CommitClaim, Location, Answer
  <2>7. ASSUME NEW u \in Uids \cup {NoUid}, LookupFound(r, u) PROVE TypeOK'
    BY <2>7 DEF LookupFound, ReadProvider, TypeOK, tables, Goto, Location, Call
  <2>8. CASE LookupRetryable(r)
    BY <2>8 DEF LookupRetryable, ReadProvider, TypeOK, tables
  <2>9. ASSUME NEW code \in Rejection, LookupFailed(r, code) PROVE TypeOK'
    BY <2>9 DEF LookupFailed, ReadProvider, RejectClaimed, TypeOK, tables, Goto,
                Location, Answer
  <2>10. CASE LookupNoApp(r)
    BY <2>10 DEF LookupNoApp, RejectClaimed, TypeOK, tables, Goto, Location,
                 Answer, Rejection
  <2>11. CASE ResolveExisting(r)
    <3>1. ExistingError(call[r].pair) \in Answer
      BY DEF ExistingError, Answer, Rejection
    <3> QED
      BY <2>11, <3>1 DEF ResolveExisting, RejectClaimed, TypeOK, tables, Goto, Location
  <2>12. CASE InsertAccount(r)
    BY <2>12 DEF InsertAccount, RejectClaimed, TypeOK, tables, Goto, Location,
                 Answer, Rejection, Write
  <2>13. CASE Consume(r) \/ SpendRejected(r)
    <3>1. ConsumeWrites(r) \subseteq Write
      BY DEF ConsumeWrites, Write
    <3> QED
      BY <2>13, <3>1 DEF Consume, SpendRejected, SpendHandle, TypeOK, tables, Goto,
                         Location
  <2>14. CASE CommitAccount(r)
    <3>1. call[r].pair \in Pairs /\ call[r].handle \in Handles
      BY <2>14 DEF CommitAccount, CallsFollow
    <3> QED
      BY <2>14, <3>1, CommitTypes DEF CommitAccount, Location, Answer
  <2>15. CASE RollbackRejected(r)
    BY <2>15 DEF RollbackRejected, EndTransaction, TypeOK, tables, Goto, Location
  <2>16. CASE CommitRejected(r)
    <3>1. "account" \notin pending[r] /\ call[r].handle \in Handles /\ answer[r] \in Answer
      BY <2>16 DEF CommitRejected, TransactionsFollow, WrittenAt, CallsFollow, TypeOK
    <3> QED
      BY <2>16, <3>1, CommitTypes DEF CommitRejected, Location
  <2> QED
    BY <1>2, <2>1, <2>2, <2>3, <2>4, <2>5, <2>6, <2>7, <2>8, <2>9, <2>10, <2>11,
       <2>12, <2>13, <2>14, <2>15, <2>16 DEF Step
<1>3. ASSUME NEW r \in Requests, Interrupt(r) PROVE TypeOK'
  BY <1>3 DEF Interrupt, Fault, EndTransaction, Goto, TypeOK, tables, Location, Answer
<1>4. ASSUME NEW a \in accounts, Retire(a) \/ BlockUser(a) PROVE TypeOK'
  <2>1. a \in Account
    BY <1>4 DEF TypeOK
  <2> QED
    BY <1>4, <2>1 DEF Retire, BlockUser, Operate, TypeOK, Account
<1>5. CASE Tick
  BY <1>5 DEF Tick, TypeOK, tables
<1>6. CASE Quiesce \/ UNCHANGED vars
  BY <1>6 DEF Quiesce, vars, TypeOK, tables
<1> QED
  BY <1>1, <1>2, <1>3, <1>4, <1>5, <1>6 DEF Next

-----------------------------------------------------------------------------
(* What a step of one request leaves alone.                                *)

Moves(r) ==
  /\ pc[r] # "done"
  /\ \A q \in Requests \ {r} :
       /\ pc'[q] = pc[q] /\ call'[q] = call[q] /\ attempts'[q] = attempts[q]
       /\ answer'[q] = answer[q] /\ pending'[q] = pending[q]

\* The transactions invariant follows the moving request.
LEMMA TransactionMoves ==
  ASSUME IInv, NEW r \in Requests, NEW l, pc' = [pc EXCEPT ![r] = l],
         pending' = [pending EXCEPT ![r] = WrittenAt(l)],
         poisoned' \subseteq poisoned \cup {r},
         r \in poisoned' => l = "rollback"
  PROVE  TransactionsFollow'
<1>1. ASSUME NEW q \in Requests PROVE pending'[q] = WrittenAt(pc'[q])
  BY DEF IInv, TypeOK, TransactionsFollow
<1>2. ASSUME NEW q \in poisoned' PROVE pc'[q] = "rollback"
  BY DEF IInv, TypeOK, TransactionsFollow
<1> QED
  BY <1>1, <1>2 DEF TransactionsFollow

\* A request that writes no table keeps what is known of the accounts.
LEMMA QuietAccounts ==
  ASSUME IInv, NEW r \in Requests, Moves(r), UNCHANGED tables,
         Inserted(r)' => Inserted(r) /\ call'[r] = call[r]
  PROVE  AccountsPaidFor' /\ KeysReserved' /\ NoDuplicateAccount'
<1> USE DEF IInv, TypeOK, Moves, tables
<1>1. AccountsPaidFor'
  BY DEF AccountsPaidFor, AccountSpendsHandle, Account
<1>2. ASSUME NEW q \in Requests PROVE Inserted(q)' => Inserted(q) /\ call'[q] = call[q]
  BY DEF Inserted
<1>3. ASSUME NEW q \in Requests, Inserted(q)' PROVE NewAccount(q)' = NewAccount(q)
  BY <1>2, <1>3 DEF NewAccount
<1>4. KeysReserved'
  BY <1>2, <1>3 DEF KeysReserved, SameKey
<1>5. NoDuplicateAccount'
  BY DEF NoDuplicateAccount, SameKey
<1> QED
  BY <1>1, <1>4, <1>5

-----------------------------------------------------------------------------
(* The steps that write no table, one lemma per action.                    *)

\* Refusing the caller before any handler runs keeps the inductive invariant.
LEMMA RefuseIdentityKeeps ==
  ASSUME IInv, TypeOK', NEW r \in Requests, NEW p \in Pairs, RefuseIdentity(r, p)
  PROVE  IInv'
<1> USE ConstantsAssumption DEF IInv, TypeOK, tables, Goto, RefuseIdentity, Rejection
<1>1. Moves(r) /\ UNCHANGED tables
  BY DEF Moves
<1>2. TransactionsFollow'
  <2>1. pc' = [pc EXCEPT ![r] = "done"]
    OBVIOUS
  <2>2. pending[r] = WrittenAt(pc[r]) /\ (r \in poisoned => pc[r] = "rollback")
    BY DEF TransactionsFollow
  <2>3. pending'[r] = WrittenAt("done")
    BY <2>2 DEF WrittenAt
  <2>4. pending' = [pending EXCEPT ![r] = WrittenAt("done")]
    BY <2>3
  <2>5. poisoned' \subseteq poisoned \cup {r} /\ (r \in poisoned' => "done" = "rollback")
    BY <2>2
  <2> QED
    BY <2>1, <2>4, <2>5, TransactionMoves
<1>3. CallsFollow' /\ HandlesDrawnOnce'
  BY DEF CallsFollow, Claiming, HandlesDrawnOnce, Drawing
<1>4. ClaimsHeld'
  BY DEF CallsFollow, Claiming, ClaimsHeld
<1>5. OneClaimant'
  BY DEF CallsFollow, Claiming, ClaimsHeld, OneClaimant
<1>6. Inserted(r)' => Inserted(r) /\ call'[r] = call[r]
  BY DEF Inserted
<1>7. AccountsPaidFor' /\ KeysReserved' /\ NoDuplicateAccount'
  BY <1>1, <1>6, QuietAccounts
<1> QED
  BY <1>2, <1>3, <1>4, <1>5, <1>7

\* Opening POST /auth/challenge keeps the inductive invariant.
LEMMA BeginIssueKeeps ==
  ASSUME IInv, TypeOK', NEW r \in Requests, NEW p \in Pairs, NEW h \in Handles, BeginIssue(r, p, h)
  PROVE  IInv'
<1> USE ConstantsAssumption DEF IInv, TypeOK, tables, Goto, BeginIssue, Drawn
<1>1. Moves(r) /\ UNCHANGED tables
  BY DEF Moves
<1>2. TransactionsFollow'
  <2>1. pc' = [pc EXCEPT ![r] = "issue"]
    OBVIOUS
  <2>2. pending[r] = WrittenAt(pc[r]) /\ (r \in poisoned => pc[r] = "rollback")
    BY DEF TransactionsFollow
  <2>3. pending'[r] = WrittenAt("issue")
    BY <2>2 DEF WrittenAt
  <2>4. pending' = [pending EXCEPT ![r] = WrittenAt("issue")]
    BY <2>3
  <2>5. poisoned' \subseteq poisoned \cup {r} /\ (r \in poisoned' => "issue" = "rollback")
    BY <2>2
  <2> QED
    BY <2>1, <2>4, <2>5, TransactionMoves
<1>3. CallsFollow' /\ HandlesDrawnOnce'
  BY DEF CallsFollow, Claiming, HandlesDrawnOnce, Drawing
<1>4. ClaimsHeld'
  BY DEF CallsFollow, Claiming, ClaimsHeld
<1>5. OneClaimant'
  BY DEF CallsFollow, Claiming, ClaimsHeld, OneClaimant
<1>6. Inserted(r)' => Inserted(r) /\ call'[r] = call[r]
  BY DEF Inserted
<1>7. AccountsPaidFor' /\ KeysReserved' /\ NoDuplicateAccount'
  BY <1>1, <1>6, QuietAccounts
<1> QED
  BY <1>2, <1>3, <1>4, <1>5, <1>7

\* Opening POST /auth/create-user keeps the inductive invariant.
LEMMA BeginCompleteKeeps ==
  ASSUME IInv, TypeOK', NEW r \in Requests, NEW p \in Pairs, NEW h \in Handles, BeginComplete(r, p, h)
  PROVE  IInv'
<1> USE ConstantsAssumption DEF IInv, TypeOK, tables, Goto, BeginComplete
<1>1. Moves(r) /\ UNCHANGED tables
  BY DEF Moves
<1>2. TransactionsFollow'
  <2>1. pc' = [pc EXCEPT ![r] = "locate"]
    OBVIOUS
  <2>2. pending[r] = WrittenAt(pc[r]) /\ (r \in poisoned => pc[r] = "rollback")
    BY DEF TransactionsFollow
  <2>3. pending'[r] = WrittenAt("locate")
    BY <2>2 DEF WrittenAt
  <2>4. pending' = [pending EXCEPT ![r] = WrittenAt("locate")]
    BY <2>3
  <2>5. poisoned' \subseteq poisoned \cup {r} /\ (r \in poisoned' => "locate" = "rollback")
    BY <2>2
  <2> QED
    BY <2>1, <2>4, <2>5, TransactionMoves
<1>3. CallsFollow' /\ HandlesDrawnOnce'
  BY DEF CallsFollow, Claiming, HandlesDrawnOnce, Drawing
<1>4. ClaimsHeld'
  BY DEF CallsFollow, Claiming, ClaimsHeld
<1>5. OneClaimant'
  BY DEF CallsFollow, Claiming, ClaimsHeld, OneClaimant
<1>6. Inserted(r)' => Inserted(r) /\ call'[r] = call[r]
  BY DEF Inserted
<1>7. AccountsPaidFor' /\ KeysReserved' /\ NoDuplicateAccount'
  BY <1>1, <1>6, QuietAccounts
<1> QED
  BY <1>2, <1>3, <1>4, <1>5, <1>7

\* Inserting the challenge row keeps the inductive invariant.
LEMMA IssueKeeps ==
  ASSUME IInv, TypeOK', NEW r \in Requests, Issue(r)
  PROVE  IInv'
<1> USE ConstantsAssumption DEF IInv, TypeOK, tables, Goto, Issue
<1>1. Moves(r) /\ UNCHANGED tables
  BY DEF Moves
<1>2. TransactionsFollow'
  <2>1. pc' = [pc EXCEPT ![r] = "commit_issue"]
    OBVIOUS
  <2>2. pending[r] = WrittenAt(pc[r]) /\ (r \in poisoned => pc[r] = "rollback")
    BY DEF TransactionsFollow
  <2>3. pending'[r] = WrittenAt("commit_issue")
    BY <2>2 DEF WrittenAt
  <2>4. pending' = [pending EXCEPT ![r] = WrittenAt("commit_issue")]
    BY <2>3
  <2>5. poisoned' \subseteq poisoned \cup {r} /\ (r \in poisoned' => "commit_issue" = "rollback")
    BY <2>2
  <2> QED
    BY <2>1, <2>4, <2>5, TransactionMoves
<1>3. CallsFollow' /\ HandlesDrawnOnce'
  BY DEF CallsFollow, Claiming, HandlesDrawnOnce, Drawing
<1>4. ClaimsHeld'
  BY DEF CallsFollow, Claiming, ClaimsHeld
<1>5. OneClaimant'
  BY DEF CallsFollow, Claiming, ClaimsHeld, OneClaimant
<1>6. Inserted(r)' => Inserted(r) /\ call'[r] = call[r]
  BY DEF Inserted
<1>7. AccountsPaidFor' /\ KeysReserved' /\ NoDuplicateAccount'
  BY <1>1, <1>6, QuietAccounts
<1> QED
  BY <1>2, <1>3, <1>4, <1>5, <1>7

\* Locate either rejects or moves on to the claim.
LEMMA LocateMoves ==
  ASSUME IInv, NEW r \in Requests, Locate(r)
  PROVE  /\ pc[r] = "locate" /\ UNCHANGED <<now, tables, call, attempts>>
         /\ \/ \E code \in Answer \ {"issued"} : Reject(r, code)
            \/ /\ Goto(r, "claim")
               /\ UNCHANGED <<pending, poisoned, answer>>
<1>1. ASSUME NEW row PROVE BindingError(row, r) \in Answer \ {"issued"}
  BY DEF BindingError, Answer
<1>2. "challenge_not_found" \in Answer \ {"issued"}
  BY DEF Answer
<1> QED
  BY <1>1, <1>2 DEF Locate, Reject, tables

\* Reading the challenge row, with its checks, keeps the inductive invariant.
LEMMA LocateKeeps ==
  ASSUME IInv, TypeOK', NEW r \in Requests, Locate(r)
  PROVE  IInv'
<1> USE LocateMoves, ConstantsAssumption
    DEF IInv, TypeOK, tables, Goto, Reject, EndTransaction
<1>1. Moves(r) /\ UNCHANGED tables
  BY DEF Moves
<1>2. TransactionsFollow'
  <2>1. PICK l \in {"done", "claim"} : pc' = [pc EXCEPT ![r] = l]
    OBVIOUS
  <2>2. pending[r] = {} /\ WrittenAt(l) = {} /\ r \notin poisoned
    BY DEF TransactionsFollow, WrittenAt
  <2>3. pending' = [pending EXCEPT ![r] = WrittenAt(l)]
    BY <2>2
  <2> QED
    BY <2>1, <2>2, <2>3, TransactionMoves
<1>3. CallsFollow' /\ HandlesDrawnOnce'
  BY DEF CallsFollow, Claiming, HandlesDrawnOnce, Drawing
<1>4. ClaimsHeld'
  BY DEF CallsFollow, Claiming, ClaimsHeld
<1>5. OneClaimant'
  BY DEF CallsFollow, Claiming, ClaimsHeld, OneClaimant
<1>6. Inserted(r)' => Inserted(r) /\ call'[r] = call[r]
  BY DEF Inserted
<1>7. AccountsPaidFor' /\ KeysReserved' /\ NoDuplicateAccount'
  BY <1>1, <1>6, QuietAccounts
<1> QED
  BY <1>2, <1>3, <1>4, <1>5, <1>7

\* The claiming UPDATE keeps the inductive invariant.
LEMMA ClaimKeeps ==
  ASSUME IInv, TypeOK', NEW r \in Requests, Claim(r)
  PROVE  IInv'
<1> USE ConstantsAssumption DEF IInv, TypeOK, tables, Goto, Claim, Claimable, RowLocked
<1>1. Moves(r) /\ UNCHANGED tables
  BY DEF Moves
<1>2. TransactionsFollow'
  <2>1. pending[r] = {} /\ r \notin poisoned
    BY DEF TransactionsFollow, WrittenAt
  <2>2. CASE Claimable(r)
    <3>1. pc' = [pc EXCEPT ![r] = "commit_claim"]
      BY <2>2
    <3>2. pending' = [pending EXCEPT ![r] = WrittenAt("commit_claim")]
      BY <2>1, <2>2 DEF WrittenAt
    <3> QED
      BY <2>1, <3>1, <3>2, TransactionMoves
  <2>3. CASE ~Claimable(r)
    <3>1. pc' = [pc EXCEPT ![r] = "refresh"]
      BY <2>3
    <3>2. pending' = [pending EXCEPT ![r] = WrittenAt("refresh")]
      BY <2>1, <2>3 DEF WrittenAt
    <3> QED
      BY <2>1, <3>1, <3>2, TransactionMoves
  <2> QED
    BY <2>2, <2>3
<1>3. CallsFollow' /\ HandlesDrawnOnce'
  BY DEF CallsFollow, Claiming, HandlesDrawnOnce, Drawing
<1>4. ClaimsHeld'
  BY DEF CallsFollow, Claiming, ClaimsHeld
<1>5. OneClaimant'
  <2>1. CASE ~Claimable(r)
    BY <2>1 DEF CallsFollow, Claiming, ClaimsHeld, OneClaimant
  <2>2. CASE Claimable(r)
    <3>1. challenges[call[r].handle].stage = "issued"
      BY <2>2
    \* The row is issued and nobody has it locked: no other claimant.
    <3>2. ASSUME NEW q \in Requests \ {r}, call[q].handle = call[r].handle
          PROVE  pc[q] \notin Claiming /\ ~(attempts[q] > 0)
      <4>1. pc[q] # "commit_claim"
        BY <3>2 DEF TransactionsFollow, WrittenAt
      <4> QED
        BY <3>1, <3>2, <4>1 DEF ClaimsHeld, Claiming
    <3>3. ASSUME NEW q \in Requests \ {r}
          PROVE  pc'[q] = pc[q] /\ call'[q] = call[q] /\ attempts'[q] = attempts[q]
      BY <1>1 DEF Moves
    <3> QED
      BY <3>2, <3>3 DEF OneClaimant
  <2> QED
    BY <2>1, <2>2
<1>6. Inserted(r)' => Inserted(r) /\ call'[r] = call[r]
  BY DEF Inserted
<1>7. AccountsPaidFor' /\ KeysReserved' /\ NoDuplicateAccount'
  BY <1>1, <1>6, QuietAccounts
<1> QED
  BY <1>2, <1>3, <1>4, <1>5, <1>7

\* The re-read after a lost claim keeps the inductive invariant.
LEMMA RefreshKeeps ==
  ASSUME IInv, TypeOK', NEW r \in Requests, Refresh(r)
  PROVE  IInv'
<1> USE ConstantsAssumption DEF IInv, TypeOK, tables, Goto, Refresh, Reject, EndTransaction
<1>1. Moves(r) /\ UNCHANGED tables
  BY DEF Moves
<1>2. TransactionsFollow'
  <2>1. pc' = [pc EXCEPT ![r] = "done"]
    OBVIOUS
  <2>2. pending[r] = WrittenAt(pc[r]) /\ (r \in poisoned => pc[r] = "rollback")
    BY DEF TransactionsFollow
  <2>3. pending'[r] = WrittenAt("done")
    BY <2>2 DEF WrittenAt
  <2>4. pending' = [pending EXCEPT ![r] = WrittenAt("done")]
    BY <2>3
  <2>5. poisoned' \subseteq poisoned \cup {r} /\ (r \in poisoned' => "done" = "rollback")
    BY <2>2
  <2> QED
    BY <2>1, <2>4, <2>5, TransactionMoves
<1>3. CallsFollow' /\ HandlesDrawnOnce'
  BY DEF CallsFollow, Claiming, HandlesDrawnOnce, Drawing
<1>4. ClaimsHeld'
  BY DEF CallsFollow, Claiming, ClaimsHeld
<1>5. OneClaimant'
  BY DEF CallsFollow, Claiming, ClaimsHeld, OneClaimant
<1>6. Inserted(r)' => Inserted(r) /\ call'[r] = call[r]
  BY DEF Inserted
<1>7. AccountsPaidFor' /\ KeysReserved' /\ NoDuplicateAccount'
  BY <1>1, <1>6, QuietAccounts
<1> QED
  BY <1>2, <1>3, <1>4, <1>5, <1>7

\* A provider read that answers keeps the inductive invariant.
LEMMA LookupFoundKeeps ==
  ASSUME IInv, TypeOK', NEW r \in Requests, NEW u \in Uids \cup {NoUid}, LookupFound(r, u)
  PROVE  IInv'
<1> USE ConstantsAssumption DEF IInv, TypeOK, tables, Goto, LookupFound, ReadProvider
<1>1. Moves(r) /\ UNCHANGED tables
  BY DEF Moves
<1>2. TransactionsFollow'
  <2>1. pc' = [pc EXCEPT ![r] = "resolve_existing"]
    OBVIOUS
  <2>2. pending[r] = WrittenAt(pc[r]) /\ (r \in poisoned => pc[r] = "rollback")
    BY DEF TransactionsFollow
  <2>3. pending'[r] = WrittenAt("resolve_existing")
    BY <2>2 DEF WrittenAt
  <2>4. pending' = [pending EXCEPT ![r] = WrittenAt("resolve_existing")]
    BY <2>3
  <2>5. poisoned' \subseteq poisoned \cup {r} /\ (r \in poisoned' => "resolve_existing" = "rollback")
    BY <2>2
  <2> QED
    BY <2>1, <2>4, <2>5, TransactionMoves
<1>3. CallsFollow' /\ HandlesDrawnOnce'
  BY DEF CallsFollow, Claiming, HandlesDrawnOnce, Drawing
<1>4. ClaimsHeld'
  BY DEF CallsFollow, Claiming, ClaimsHeld
<1>5. OneClaimant'
  BY DEF CallsFollow, Claiming, ClaimsHeld, OneClaimant
<1>6. Inserted(r)' => Inserted(r) /\ call'[r] = call[r]
  BY DEF Inserted
<1>7. AccountsPaidFor' /\ KeysReserved' /\ NoDuplicateAccount'
  BY <1>1, <1>6, QuietAccounts
<1> QED
  BY <1>2, <1>3, <1>4, <1>5, <1>7

\* A provider read worth retrying keeps the inductive invariant.
LEMMA LookupRetryableKeeps ==
  ASSUME IInv, TypeOK', NEW r \in Requests, LookupRetryable(r)
  PROVE  IInv'
<1> USE ConstantsAssumption DEF IInv, TypeOK, tables, Goto, LookupRetryable, ReadProvider
<1>1. Moves(r) /\ UNCHANGED tables
  BY DEF Moves
<1>2. TransactionsFollow'
  <2>1. pc' = [pc EXCEPT ![r] = "lookup"]
    OBVIOUS
  <2>2. pending[r] = WrittenAt(pc[r]) /\ (r \in poisoned => pc[r] = "rollback")
    BY DEF TransactionsFollow
  <2>3. pending'[r] = WrittenAt("lookup")
    BY <2>2 DEF WrittenAt
  <2>4. pending' = [pending EXCEPT ![r] = WrittenAt("lookup")]
    BY <2>3
  <2>5. poisoned' \subseteq poisoned \cup {r} /\ (r \in poisoned' => "lookup" = "rollback")
    BY <2>2
  <2> QED
    BY <2>1, <2>4, <2>5, TransactionMoves
<1>3. CallsFollow' /\ HandlesDrawnOnce'
  BY DEF CallsFollow, Claiming, HandlesDrawnOnce, Drawing
<1>4. ClaimsHeld'
  BY DEF CallsFollow, Claiming, ClaimsHeld
<1>5. OneClaimant'
  BY DEF CallsFollow, Claiming, ClaimsHeld, OneClaimant
<1>6. Inserted(r)' => Inserted(r) /\ call'[r] = call[r]
  BY DEF Inserted
<1>7. AccountsPaidFor' /\ KeysReserved' /\ NoDuplicateAccount'
  BY <1>1, <1>6, QuietAccounts
<1> QED
  BY <1>2, <1>3, <1>4, <1>5, <1>7

\* A provider read that fails keeps the inductive invariant.
LEMMA LookupFailedKeeps ==
  ASSUME IInv, TypeOK', NEW r \in Requests, NEW code \in Rejection, LookupFailed(r, code)
  PROVE  IInv'
<1> USE ConstantsAssumption DEF IInv, TypeOK, tables, Goto, LookupFailed, ReadProvider, RejectClaimed, Rejection
<1>1. Moves(r) /\ UNCHANGED tables
  BY DEF Moves
<1>2. TransactionsFollow'
  <2>1. pc' = [pc EXCEPT ![r] = "rollback"]
    OBVIOUS
  <2>2. pending[r] = WrittenAt(pc[r]) /\ (r \in poisoned => pc[r] = "rollback")
    BY DEF TransactionsFollow
  <2>3. pending'[r] = WrittenAt("rollback")
    BY <2>2 DEF WrittenAt
  <2>4. pending' = [pending EXCEPT ![r] = WrittenAt("rollback")]
    BY <2>3
  <2>5. poisoned' \subseteq poisoned \cup {r} /\ (r \in poisoned' => "rollback" = "rollback")
    BY <2>2
  <2> QED
    BY <2>1, <2>4, <2>5, TransactionMoves
<1>3. CallsFollow' /\ HandlesDrawnOnce'
  BY DEF CallsFollow, Claiming, HandlesDrawnOnce, Drawing
<1>4. ClaimsHeld'
  BY DEF CallsFollow, Claiming, ClaimsHeld
<1>5. OneClaimant'
  BY DEF CallsFollow, Claiming, ClaimsHeld, OneClaimant
<1>6. Inserted(r)' => Inserted(r) /\ call'[r] = call[r]
  BY DEF Inserted
<1>7. AccountsPaidFor' /\ KeysReserved' /\ NoDuplicateAccount'
  BY <1>1, <1>6, QuietAccounts
<1> QED
  BY <1>2, <1>3, <1>4, <1>5, <1>7

\* A provider that is not configured keeps the inductive invariant.
LEMMA LookupNoAppKeeps ==
  ASSUME IInv, TypeOK', NEW r \in Requests, LookupNoApp(r)
  PROVE  IInv'
<1> USE ConstantsAssumption DEF IInv, TypeOK, tables, Goto, LookupNoApp, RejectClaimed
<1>1. Moves(r) /\ UNCHANGED tables
  BY DEF Moves
<1>2. TransactionsFollow'
  <2>1. pc' = [pc EXCEPT ![r] = "rollback"]
    OBVIOUS
  <2>2. pending[r] = WrittenAt(pc[r]) /\ (r \in poisoned => pc[r] = "rollback")
    BY DEF TransactionsFollow
  <2>3. pending'[r] = WrittenAt("rollback")
    BY <2>2 DEF WrittenAt
  <2>4. pending' = [pending EXCEPT ![r] = WrittenAt("rollback")]
    BY <2>3
  <2>5. poisoned' \subseteq poisoned \cup {r} /\ (r \in poisoned' => "rollback" = "rollback")
    BY <2>2
  <2> QED
    BY <2>1, <2>4, <2>5, TransactionMoves
<1>3. CallsFollow' /\ HandlesDrawnOnce'
  BY DEF CallsFollow, Claiming, HandlesDrawnOnce, Drawing
<1>4. ClaimsHeld'
  BY DEF CallsFollow, Claiming, ClaimsHeld
<1>5. OneClaimant'
  BY DEF CallsFollow, Claiming, ClaimsHeld, OneClaimant
<1>6. Inserted(r)' => Inserted(r) /\ call'[r] = call[r]
  BY DEF Inserted
<1>7. AccountsPaidFor' /\ KeysReserved' /\ NoDuplicateAccount'
  BY <1>1, <1>6, QuietAccounts
<1> QED
  BY <1>2, <1>3, <1>4, <1>5, <1>7

\* The look for an existing identity keeps the inductive invariant.
LEMMA ResolveExistingKeeps ==
  ASSUME IInv, TypeOK', NEW r \in Requests, ResolveExisting(r)
  PROVE  IInv'
<1> USE ConstantsAssumption DEF IInv, TypeOK, tables, Goto, ResolveExisting, RejectClaimed, ExistingError
<1>1. Moves(r) /\ UNCHANGED tables
  BY DEF Moves
<1>2. TransactionsFollow'
  <2>1. pending[r] = {} /\ r \notin poisoned
    BY DEF TransactionsFollow, WrittenAt
  <2>2. CASE IdentityOf(call[r].pair) # {}
    <3>1. pc' = [pc EXCEPT ![r] = "rollback"]
      BY <2>2
    <3>2. pending' = [pending EXCEPT ![r] = WrittenAt("rollback")]
      BY <2>1, <2>2 DEF WrittenAt
    <3> QED
      BY <2>1, <2>2, <3>1, <3>2, TransactionMoves
  <2>3. CASE ~(IdentityOf(call[r].pair) # {})
    <3>1. pc' = [pc EXCEPT ![r] = "insert_account"]
      BY <2>3
    <3>2. pending' = [pending EXCEPT ![r] = WrittenAt("insert_account")]
      BY <2>1, <2>3 DEF WrittenAt
    <3> QED
      BY <2>1, <2>3, <3>1, <3>2, TransactionMoves
  <2> QED
    BY <2>2, <2>3
<1>3. CallsFollow' /\ HandlesDrawnOnce'
  BY DEF CallsFollow, Claiming, HandlesDrawnOnce, Drawing
<1>4. ClaimsHeld'
  BY DEF CallsFollow, Claiming, ClaimsHeld
<1>5. OneClaimant'
  BY DEF CallsFollow, Claiming, ClaimsHeld, OneClaimant
<1>6. Inserted(r)' => Inserted(r) /\ call'[r] = call[r]
  BY DEF Inserted
<1>7. AccountsPaidFor' /\ KeysReserved' /\ NoDuplicateAccount'
  BY <1>1, <1>6, QuietAccounts
<1> QED
  BY <1>2, <1>3, <1>4, <1>5, <1>7

\* The insert of user and identity keeps the inductive invariant.
LEMMA InsertAccountKeeps ==
  ASSUME IInv, TypeOK', NEW r \in Requests, InsertAccount(r)
  PROVE  IInv'
<1> USE ConstantsAssumption DEF IInv, TypeOK, tables, Goto, InsertAccount, RejectClaimed
<1>1. Moves(r) /\ UNCHANGED tables
  BY DEF Moves
<1>2. TransactionsFollow'
  <2>1. pending[r] = {} /\ r \notin poisoned
    BY DEF TransactionsFollow, WrittenAt
  <2>2. CASE Conflicts(r)
    <3>1. pc' = [pc EXCEPT ![r] = "rollback"]
      BY <2>2
    <3>2. pending' = [pending EXCEPT ![r] = WrittenAt("rollback")]
      BY <2>1, <2>2 DEF WrittenAt
    <3> QED
      BY <2>1, <2>2, <3>1, <3>2, TransactionMoves
  <2>3. CASE ~(Conflicts(r))
    <3>1. pc' = [pc EXCEPT ![r] = "consume"]
      BY <2>3
    <3>2. pending' = [pending EXCEPT ![r] = WrittenAt("consume")]
      BY <2>1, <2>3 DEF WrittenAt
    <3> QED
      BY <2>1, <2>3, <3>1, <3>2, TransactionMoves
  <2> QED
    BY <2>2, <2>3
<1>3. CallsFollow' /\ HandlesDrawnOnce'
  BY DEF CallsFollow, Claiming, HandlesDrawnOnce, Drawing
<1>4. ClaimsHeld'
  BY DEF CallsFollow, Claiming, ClaimsHeld
<1>5. OneClaimant'
  BY DEF CallsFollow, Claiming, ClaimsHeld, OneClaimant
<1>6. CASE Conflicts(r)
  <2>1. Inserted(r)' => Inserted(r) /\ call'[r] = call[r]
    BY <1>6 DEF Inserted
  <2> QED
    BY <1>1, <1>2, <1>3, <1>4, <1>5, <2>1, QuietAccounts
<1>7. CASE ~Conflicts(r)
  <2>1. AccountsPaidFor' /\ NoDuplicateAccount'
    BY <1>1 DEF Moves, AccountsPaidFor, AccountSpendsHandle, Account,
                NoDuplicateAccount, SameKey
  <2>2. ASSUME NEW q \in Requests
        PROVE  /\ NewAccount(q)' = NewAccount(q)
               /\ q # r => Inserted(q)' = Inserted(q)
    BY <1>1 DEF NewAccount, Inserted, Moves
  <2>3. \A a \in accounts : ~SameKey(NewAccount(r), a)
    BY <1>7 DEF Conflicts
  <2>4. \A q \in Requests \ {r} : Inserted(q) =>
          ~SameKey(NewAccount(q), NewAccount(r)) /\ ~SameKey(NewAccount(r), NewAccount(q))
    <3>1. ASSUME NEW q \in Requests \ {r}, Inserted(q) PROVE "account" \in pending[q]
      BY <3>1 DEF Inserted, TransactionsFollow, WrittenAt
    <3> QED
      BY <3>1 DEF KeyLocked, SameKey
  <2>5. KeysReserved'
    <3>1. \A q \in Requests, a \in accounts : Inserted(q)' => ~SameKey(NewAccount(q), a)
      BY <2>2, <2>3 DEF KeysReserved
    <3>2. \A q, s \in Requests : Inserted(q)' /\ Inserted(s)' /\ q # s =>
            ~SameKey(NewAccount(q), NewAccount(s))
      BY <2>2, <2>4 DEF KeysReserved
    <3> QED
      BY <2>2, <3>1, <3>2 DEF KeysReserved, SameKey
  <2> QED
    BY <1>2, <1>3, <1>4, <1>5, <2>1, <2>5
<1> QED
  BY <1>6, <1>7

\* The consuming UPDATE keeps the inductive invariant.
LEMMA ConsumeKeeps ==
  ASSUME IInv, TypeOK', NEW r \in Requests, Consume(r)
  PROVE  IInv'
<1> USE ConstantsAssumption DEF IInv, TypeOK, tables, Goto, Consume, SpendHandle
<1>1. Moves(r) /\ UNCHANGED tables
  BY DEF Moves
<1>2. TransactionsFollow'
  <2>1. pc' = [pc EXCEPT ![r] = "commit_account"]
    OBVIOUS
  <2>2. pending[r] = WrittenAt(pc[r]) /\ (r \in poisoned => pc[r] = "rollback")
    BY DEF TransactionsFollow
  <2>3. pending'[r] = WrittenAt("commit_account")
    BY <2>2 DEF WrittenAt, ConsumeWrites, ClaimsHeld, Claiming
  <2>4. pending' = [pending EXCEPT ![r] = WrittenAt("commit_account")]
    BY <2>3
  <2>5. poisoned' \subseteq poisoned \cup {r} /\ (r \in poisoned' => "commit_account" = "rollback")
    BY <2>2
  <2> QED
    BY <2>1, <2>4, <2>5, TransactionMoves
<1>3. CallsFollow' /\ HandlesDrawnOnce'
  BY DEF CallsFollow, Claiming, HandlesDrawnOnce, Drawing
<1>4. ClaimsHeld'
  BY DEF CallsFollow, Claiming, ClaimsHeld
<1>5. OneClaimant'
  BY DEF CallsFollow, Claiming, ClaimsHeld, OneClaimant
<1>6. Inserted(r)' => Inserted(r) /\ call'[r] = call[r]
  BY DEF Inserted
<1>7. AccountsPaidFor' /\ KeysReserved' /\ NoDuplicateAccount'
  BY <1>1, <1>6, QuietAccounts
<1> QED
  BY <1>2, <1>3, <1>4, <1>5, <1>7

\* The rollback after a rejection keeps the inductive invariant.
LEMMA RollbackRejectedKeeps ==
  ASSUME IInv, TypeOK', NEW r \in Requests, RollbackRejected(r)
  PROVE  IInv'
<1> USE ConstantsAssumption DEF IInv, TypeOK, tables, Goto, RollbackRejected, EndTransaction
<1>1. Moves(r) /\ UNCHANGED tables
  BY DEF Moves
<1>2. TransactionsFollow'
  <2>1. pc' = [pc EXCEPT ![r] = "spend_rejected"]
    OBVIOUS
  <2>2. pending[r] = WrittenAt(pc[r]) /\ (r \in poisoned => pc[r] = "rollback")
    BY DEF TransactionsFollow
  <2>3. pending'[r] = WrittenAt("spend_rejected")
    BY <2>2 DEF WrittenAt
  <2>4. pending' = [pending EXCEPT ![r] = WrittenAt("spend_rejected")]
    BY <2>3
  <2>5. poisoned' \subseteq poisoned \cup {r} /\ (r \in poisoned' => "spend_rejected" = "rollback")
    BY <2>2
  <2> QED
    BY <2>1, <2>4, <2>5, TransactionMoves
<1>3. CallsFollow' /\ HandlesDrawnOnce'
  BY DEF CallsFollow, Claiming, HandlesDrawnOnce, Drawing
<1>4. ClaimsHeld'
  BY DEF CallsFollow, Claiming, ClaimsHeld
<1>5. OneClaimant'
  BY DEF CallsFollow, Claiming, ClaimsHeld, OneClaimant
<1>6. Inserted(r)' => Inserted(r) /\ call'[r] = call[r]
  BY DEF Inserted
<1>7. AccountsPaidFor' /\ KeysReserved' /\ NoDuplicateAccount'
  BY <1>1, <1>6, QuietAccounts
<1> QED
  BY <1>2, <1>3, <1>4, <1>5, <1>7

\* The consuming UPDATE after a rejection keeps the inductive invariant.
LEMMA SpendRejectedKeeps ==
  ASSUME IInv, TypeOK', NEW r \in Requests, SpendRejected(r)
  PROVE  IInv'
<1> USE ConstantsAssumption DEF IInv, TypeOK, tables, Goto, SpendRejected, SpendHandle
<1>1. Moves(r) /\ UNCHANGED tables
  BY DEF Moves
<1>2. TransactionsFollow'
  <2>1. pc' = [pc EXCEPT ![r] = "commit_rejected"]
    OBVIOUS
  <2>2. pending[r] = WrittenAt(pc[r]) /\ (r \in poisoned => pc[r] = "rollback")
    BY DEF TransactionsFollow
  <2>3. pending'[r] = WrittenAt("commit_rejected")
    BY <2>2 DEF WrittenAt, ConsumeWrites, ClaimsHeld, Claiming
  <2>4. pending' = [pending EXCEPT ![r] = WrittenAt("commit_rejected")]
    BY <2>3
  <2>5. poisoned' \subseteq poisoned \cup {r} /\ (r \in poisoned' => "commit_rejected" = "rollback")
    BY <2>2
  <2> QED
    BY <2>1, <2>4, <2>5, TransactionMoves
<1>3. CallsFollow' /\ HandlesDrawnOnce'
  BY DEF CallsFollow, Claiming, HandlesDrawnOnce, Drawing
<1>4. ClaimsHeld'
  BY DEF CallsFollow, Claiming, ClaimsHeld
<1>5. OneClaimant'
  BY DEF CallsFollow, Claiming, ClaimsHeld, OneClaimant
<1>6. Inserted(r)' => Inserted(r) /\ call'[r] = call[r]
  BY DEF Inserted
<1>7. AccountsPaidFor' /\ KeysReserved' /\ NoDuplicateAccount'
  BY <1>1, <1>6, QuietAccounts
<1> QED
  BY <1>2, <1>3, <1>4, <1>5, <1>7

\* A request that stops at an await keeps the inductive invariant.
LEMMA InterruptKeeps ==
  ASSUME IInv, TypeOK', NEW r \in Requests, Interrupt(r)
  PROVE  IInv'
<1> USE ConstantsAssumption DEF IInv, TypeOK, tables, Goto, Interrupt, EndTransaction
<1>1. Moves(r) /\ UNCHANGED tables
  BY DEF Moves
<1>2. TransactionsFollow'
  <2>1. pc' = [pc EXCEPT ![r] = "done"]
    OBVIOUS
  <2>2. pending[r] = WrittenAt(pc[r]) /\ (r \in poisoned => pc[r] = "rollback")
    BY DEF TransactionsFollow
  <2>3. pending'[r] = WrittenAt("done")
    BY <2>2 DEF WrittenAt
  <2>4. pending' = [pending EXCEPT ![r] = WrittenAt("done")]
    BY <2>3
  <2>5. poisoned' \subseteq poisoned \cup {r} /\ (r \in poisoned' => "done" = "rollback")
    BY <2>2
  <2> QED
    BY <2>1, <2>4, <2>5, TransactionMoves
<1>3. CallsFollow' /\ HandlesDrawnOnce'
  BY DEF CallsFollow, Claiming, HandlesDrawnOnce, Drawing
<1>4. ClaimsHeld'
  BY DEF CallsFollow, Claiming, ClaimsHeld
<1>5. OneClaimant'
  BY DEF CallsFollow, Claiming, ClaimsHeld, OneClaimant
<1>6. Inserted(r)' => Inserted(r) /\ call'[r] = call[r]
  BY DEF Inserted
<1>7. AccountsPaidFor' /\ KeysReserved' /\ NoDuplicateAccount'
  BY <1>1, <1>6, QuietAccounts
<1> QED
  BY <1>2, <1>3, <1>4, <1>5, <1>7

-----------------------------------------------------------------------------
(* The commits: what each one writes to the tables.                        *)

\* The row of r's handle is the only one written, and goes to stage `to`.
RowMoves(r, to) ==
  /\ \A h \in Handles \ {call[r].handle} : challenges'[h] = challenges[h]
  /\ challenges'[call[r].handle].stage = to

\* What any commit does beside writing the tables.
LEMMA CommitMoves ==
  ASSUME IInv, NEW r \in Requests, pc[r] # "done", NEW next, NEW success, NEW failure,
         Commit(r, next, success, failure)
  PROVE  /\ Moves(r) /\ UNCHANGED <<call, attempts>>
         /\ pending' = [pending EXCEPT ![r] = {}]
         /\ poisoned' \subseteq poisoned /\ r \notin poisoned'
         /\ \/ /\ Apply(r)
               /\ pc' = [pc EXCEPT ![r] = next]
               /\ answer' = [answer EXCEPT ![r] = success]
            \/ /\ Apply(r) \/ UNCHANGED tables
               /\ pc' = [pc EXCEPT ![r] = "done"]
               /\ answer' = [answer EXCEPT ![r] = failure]
  BY DEF Commit, EndTransaction, Goto, Moves, IInv, TypeOK

\* Committing an issued challenge changes only these variables, in this way.
LEMMA CommitIssueWrites ==
  ASSUME IInv, NEW r \in Requests, CommitIssue(r)
  PROVE  /\ pc[r] = "commit_issue" /\ call[r].handle \in Handles
         /\ challenges[call[r].handle].stage = "absent"
         /\ Apply(r) => RowMoves(r, "issued") /\ UNCHANGED accounts
<1> USE DEF IInv, TypeOK
<1>1. pc[r] = "commit_issue" /\ call[r].handle \in Handles
  BY DEF CommitIssue, CallsFollow
<1>2. pending[r] = {"issue"}
  BY <1>1 DEF TransactionsFollow, WrittenAt
<1>3. challenges[call[r].handle].stage = "absent"
  BY <1>1 DEF CallsFollow, HandlesDrawnOnce, Drawing
<1>4. challenges[call[r].handle] \in Row
  BY <1>1
<1>5. Apply(r) => RowMoves(r, "issued") /\ UNCHANGED accounts
  BY <1>1, <1>2, <1>4 DEF Apply, WrittenRow, RowMoves, Row, NewRow
<1> QED
  BY <1>1, <1>3, <1>5

\* Committing an issued challenge keeps the inductive invariant.
LEMMA CommitIssueKeeps ==
  ASSUME IInv, TypeOK', NEW r \in Requests, CommitIssue(r)
  PROVE  IInv'
<1>1. /\ pc[r] = "commit_issue" /\ call[r].handle \in Handles
      /\ challenges[call[r].handle].stage = "absent"
      /\ Apply(r) => RowMoves(r, "issued") /\ UNCHANGED accounts
  BY CommitIssueWrites
<1>2. /\ Moves(r) /\ UNCHANGED <<call, attempts>>
      /\ pending' = [pending EXCEPT ![r] = {}]
      /\ poisoned' \subseteq poisoned /\ r \notin poisoned'
      /\ \/ /\ Apply(r)
            /\ pc' = [pc EXCEPT ![r] = "done"]
            /\ answer' = [answer EXCEPT ![r] = "issued"]
         \/ /\ Apply(r) \/ UNCHANGED tables
            /\ pc' = [pc EXCEPT ![r] = "done"]
            /\ answer' = [answer EXCEPT ![r] = "issued"]
  BY <1>1, CommitMoves DEF CommitIssue
<1> USE DEF IInv, TypeOK, tables
<1>3. TransactionsFollow'
  <2>1. PICK l \in {"done", "done"} : pc' = [pc EXCEPT ![r] = l]
    BY <1>2
  <2>2. pending' = [pending EXCEPT ![r] = WrittenAt(l)]
    BY <1>2 DEF WrittenAt
  <2> QED
    BY <1>2, <2>1, <2>2, TransactionMoves
<1>4. CallsFollow'
  BY <1>1, <1>2 DEF CallsFollow, Claiming
<1>5. HandlesDrawnOnce'
  BY <1>1, <1>2 DEF CallsFollow, HandlesDrawnOnce, Drawing, RowMoves
<1>6. ClaimsHeld'
  <2>1. ASSUME NEW q \in Requests \ {r}, call[q].handle = call[r].handle
        PROVE  pc[q] \notin Claiming /\ ~(attempts[q] > 0)
    BY <1>1, <2>1 DEF ClaimsHeld, OneClaimant, Claiming
  <2>2. ASSUME NEW q \in Requests \ {r}
        PROVE  pc'[q] = pc[q] /\ call'[q] = call[q] /\ attempts'[q] = attempts[q]
    BY <1>2 DEF Moves
  <2>3. ASSUME NEW h \in Handles, h # call[r].handle
        PROVE  challenges'[h] = challenges[h]
    BY <1>1, <1>2, <2>3 DEF RowMoves
  <2> QED
    BY <1>1, <1>2, <2>1, <2>2, <2>3 DEF ClaimsHeld, Claiming, CallsFollow, RowMoves
<1>7. OneClaimant'
  BY <1>1, <1>2 DEF CallsFollow, Claiming, OneClaimant
<1>8. UNCHANGED accounts
  BY <1>1, <1>2
<1>9. AccountsPaidFor'
  <2>1. ASSUME NEW a \in accounts
        PROVE  /\ pc'[a.id] = "done" /\ call'[a.id] = call[a.id]
               /\ challenges'[call[a.id].handle] = challenges[call[a.id].handle]
    <3>1. a.id \in Requests \ {r}
      BY <1>1 DEF AccountsPaidFor, Account
    <3>2. call[a.id].handle \in Handles \ {call[r].handle}
      BY <1>1 DEF AccountsPaidFor, AccountSpendsHandle
    <3> QED
      BY <1>1, <1>2, <3>1, <3>2 DEF Moves, AccountsPaidFor, RowMoves
  <2> QED
    BY <1>8, <2>1 DEF AccountsPaidFor, AccountSpendsHandle
<1>10. KeysReserved' /\ NoDuplicateAccount'
  BY <1>1, <1>2, <1>8 DEF KeysReserved, NoDuplicateAccount, Inserted, SameKey, NewAccount
<1> QED
  BY <1>3, <1>4, <1>5, <1>6, <1>7, <1>9, <1>10

\* Committing a claim changes only these variables, in this way.
LEMMA CommitClaimWrites ==
  ASSUME IInv, NEW r \in Requests, CommitClaim(r)
  PROVE  /\ pc[r] = "commit_claim" /\ call[r].handle \in Handles
         /\ challenges[call[r].handle].stage = "issued"
         /\ Apply(r) => RowMoves(r, "claimed") /\ UNCHANGED accounts
<1> USE DEF IInv, TypeOK
<1>1. pc[r] = "commit_claim" /\ call[r].handle \in Handles
  BY DEF CommitClaim, CallsFollow
<1>2. pending[r] = {"claim"}
  BY <1>1 DEF TransactionsFollow, WrittenAt
<1>3. challenges[call[r].handle].stage = "issued"
  BY <1>1 DEF ClaimsHeld
<1>4. challenges[call[r].handle] \in Row
  BY <1>1
<1>5. Apply(r) => RowMoves(r, "claimed") /\ UNCHANGED accounts
  BY <1>1, <1>2, <1>4 DEF Apply, WrittenRow, RowMoves, Row
<1> QED
  BY <1>1, <1>3, <1>5

\* Committing a claim keeps the inductive invariant.
LEMMA CommitClaimKeeps ==
  ASSUME IInv, TypeOK', NEW r \in Requests, CommitClaim(r)
  PROVE  IInv'
<1>1. /\ pc[r] = "commit_claim" /\ call[r].handle \in Handles
      /\ challenges[call[r].handle].stage = "issued"
      /\ Apply(r) => RowMoves(r, "claimed") /\ UNCHANGED accounts
  BY CommitClaimWrites
<1>2. /\ Moves(r) /\ UNCHANGED <<call, attempts>>
      /\ pending' = [pending EXCEPT ![r] = {}]
      /\ poisoned' \subseteq poisoned /\ r \notin poisoned'
      /\ \/ /\ Apply(r)
            /\ pc' = [pc EXCEPT ![r] = "lookup"]
            /\ answer' = [answer EXCEPT ![r] = "none"]
         \/ /\ Apply(r) \/ UNCHANGED tables
            /\ pc' = [pc EXCEPT ![r] = "done"]
            /\ answer' = [answer EXCEPT ![r] = "internal_error"]
  BY <1>1, CommitMoves DEF CommitClaim
<1> USE DEF IInv, TypeOK, tables
<1>3. TransactionsFollow'
  <2>1. PICK l \in {"lookup", "done"} : pc' = [pc EXCEPT ![r] = l]
    BY <1>2
  <2>2. pending' = [pending EXCEPT ![r] = WrittenAt(l)]
    BY <1>2 DEF WrittenAt
  <2> QED
    BY <1>2, <2>1, <2>2, TransactionMoves
<1>4. CallsFollow'
  BY <1>1, <1>2 DEF CallsFollow, Claiming
<1>5. HandlesDrawnOnce'
  BY <1>1, <1>2 DEF CallsFollow, HandlesDrawnOnce, Drawing, RowMoves
<1>6. ClaimsHeld'
  <2>1. ASSUME NEW q \in Requests \ {r}, call[q].handle = call[r].handle
        PROVE  pc[q] \notin Claiming /\ ~(attempts[q] > 0)
    BY <1>1, <2>1 DEF ClaimsHeld, OneClaimant, Claiming
  <2>2. ASSUME NEW q \in Requests \ {r}
        PROVE  pc'[q] = pc[q] /\ call'[q] = call[q] /\ attempts'[q] = attempts[q]
    BY <1>2 DEF Moves
  <2>3. ASSUME NEW h \in Handles, h # call[r].handle
        PROVE  challenges'[h] = challenges[h]
    BY <1>1, <1>2, <2>3 DEF RowMoves
  <2> QED
    BY <1>1, <1>2, <2>1, <2>2, <2>3 DEF ClaimsHeld, Claiming, CallsFollow, RowMoves
<1>7. OneClaimant'
  BY <1>1, <1>2 DEF CallsFollow, Claiming, OneClaimant
<1>8. UNCHANGED accounts
  BY <1>1, <1>2
<1>9. AccountsPaidFor'
  <2>1. ASSUME NEW a \in accounts
        PROVE  /\ pc'[a.id] = "done" /\ call'[a.id] = call[a.id]
               /\ challenges'[call[a.id].handle] = challenges[call[a.id].handle]
    <3>1. a.id \in Requests \ {r}
      BY <1>1 DEF AccountsPaidFor, Account
    <3>2. call[a.id].handle \in Handles \ {call[r].handle}
      BY <1>1 DEF AccountsPaidFor, AccountSpendsHandle
    <3> QED
      BY <1>1, <1>2, <3>1, <3>2 DEF Moves, AccountsPaidFor, RowMoves
  <2> QED
    BY <1>8, <2>1 DEF AccountsPaidFor, AccountSpendsHandle
<1>10. KeysReserved' /\ NoDuplicateAccount'
  BY <1>1, <1>2, <1>8 DEF KeysReserved, NoDuplicateAccount, Inserted, SameKey, NewAccount
<1> QED
  BY <1>3, <1>4, <1>5, <1>6, <1>7, <1>9, <1>10

\* Committing an account with its consume changes only these variables, in this way.
LEMMA CommitAccountWrites ==
  ASSUME IInv, NEW r \in Requests, CommitAccount(r)
  PROVE  /\ pc[r] = "commit_account" /\ call[r].handle \in Handles
         /\ challenges[call[r].handle].stage = "claimed"
         /\ Apply(r) => RowMoves(r, "consumed") /\ accounts' = accounts \cup {NewAccount(r)}
<1> USE DEF IInv, TypeOK
<1>1. pc[r] = "commit_account" /\ call[r].handle \in Handles
  BY DEF CommitAccount, CallsFollow
<1>2. pending[r] = {"account", "consume"}
  BY <1>1 DEF TransactionsFollow, WrittenAt
<1>3. challenges[call[r].handle].stage = "claimed"
  BY <1>1 DEF ClaimsHeld, Claiming
<1>4. challenges[call[r].handle] \in Row
  BY <1>1
<1>5. Apply(r) => RowMoves(r, "consumed") /\ accounts' = accounts \cup {NewAccount(r)}
  BY <1>1, <1>2, <1>4 DEF Apply, WrittenRow, RowMoves, Row, Consumed
<1> QED
  BY <1>1, <1>3, <1>5

\* Committing an account with its consume keeps the inductive invariant.
LEMMA CommitAccountKeeps ==
  ASSUME IInv, TypeOK', NEW r \in Requests, CommitAccount(r)
  PROVE  IInv'
<1>1. /\ pc[r] = "commit_account" /\ call[r].handle \in Handles
      /\ challenges[call[r].handle].stage = "claimed"
      /\ Apply(r) => RowMoves(r, "consumed") /\ accounts' = accounts \cup {NewAccount(r)}
  BY CommitAccountWrites
<1>2. /\ Moves(r) /\ UNCHANGED <<call, attempts>>
      /\ pending' = [pending EXCEPT ![r] = {}]
      /\ poisoned' \subseteq poisoned /\ r \notin poisoned'
      /\ \/ /\ Apply(r)
            /\ pc' = [pc EXCEPT ![r] = "done"]
            /\ answer' = [answer EXCEPT ![r] = "created"]
         \/ /\ Apply(r) \/ UNCHANGED tables
            /\ pc' = [pc EXCEPT ![r] = "done"]
            /\ answer' = [answer EXCEPT ![r] = "internal_error"]
  BY <1>1, CommitMoves DEF CommitAccount
<1> USE DEF IInv, TypeOK, tables
<1>3. TransactionsFollow'
  <2>1. PICK l \in {"done", "done"} : pc' = [pc EXCEPT ![r] = l]
    BY <1>2
  <2>2. pending' = [pending EXCEPT ![r] = WrittenAt(l)]
    BY <1>2 DEF WrittenAt
  <2> QED
    BY <1>2, <2>1, <2>2, TransactionMoves
<1>4. CallsFollow'
  BY <1>1, <1>2 DEF CallsFollow, Claiming
<1>5. HandlesDrawnOnce'
  BY <1>1, <1>2 DEF CallsFollow, HandlesDrawnOnce, Drawing, RowMoves
<1>6. ClaimsHeld'
  <2>1. ASSUME NEW q \in Requests \ {r}, call[q].handle = call[r].handle
        PROVE  pc[q] \notin Claiming /\ ~(attempts[q] > 0)
    BY <1>1, <2>1 DEF ClaimsHeld, OneClaimant, Claiming
  <2>2. ASSUME NEW q \in Requests \ {r}
        PROVE  pc'[q] = pc[q] /\ call'[q] = call[q] /\ attempts'[q] = attempts[q]
    BY <1>2 DEF Moves
  <2>3. ASSUME NEW h \in Handles, h # call[r].handle
        PROVE  challenges'[h] = challenges[h]
    BY <1>1, <1>2, <2>3 DEF RowMoves
  <2> QED
    BY <1>1, <1>2, <2>1, <2>2, <2>3 DEF ClaimsHeld, Claiming, CallsFollow, RowMoves
<1>7. OneClaimant'
  BY <1>1, <1>2 DEF CallsFollow, Claiming, OneClaimant
<1>8. CASE UNCHANGED tables
  <2>1. Inserted(r)' => Inserted(r) /\ call'[r] = call[r]
    BY <1>2 DEF Inserted
  <2> QED
    BY <1>2, <1>3, <1>4, <1>5, <1>6, <1>7, <1>8, <2>1, QuietAccounts
<1>9. CASE Apply(r)
  <2>1. RowMoves(r, "consumed") /\ accounts' = accounts \cup {NewAccount(r)}
    BY <1>1, <1>9
  <2>2. /\ NewAccount(r).id = r /\ NewAccount(r).pair = call[r].pair
        /\ NewAccount(r).uid = call[r].uid
    BY DEF NewAccount
  <2>3. AccountsPaidFor'
    <3>1. ASSUME NEW a \in accounts
          PROVE  /\ a.id # r /\ pc'[a.id] = "done" /\ call'[a.id] = call[a.id]
                 /\ challenges'[call[a.id].handle].stage = "consumed"
      <4>1. a.id \in Requests \ {r}
        BY <1>1 DEF AccountsPaidFor, Account
      <4> QED
        BY <1>2, <2>1, <4>1 DEF Moves, AccountsPaidFor, AccountSpendsHandle, RowMoves
    <3>2. pc'[r] = "done" /\ call'[r] = call[r]
      BY <1>2
    <3> QED
      BY <1>1, <2>1, <2>2, <3>1, <3>2 DEF AccountsPaidFor, AccountSpendsHandle, RowMoves
  <2>4. Inserted(r)
    BY <1>1 DEF Inserted
  <2>5. ASSUME NEW q \in Requests, Inserted(q)'
        PROVE  q # r /\ Inserted(q) /\ NewAccount(q)' = NewAccount(q)
    BY <1>2, <2>5 DEF Inserted, Moves, NewAccount
  <2>6. KeysReserved'
    BY <2>1, <2>4, <2>5 DEF KeysReserved, SameKey
  <2>7. NoDuplicateAccount'
    BY <2>1, <2>4 DEF KeysReserved, NoDuplicateAccount, SameKey
  <2> QED
    BY <1>3, <1>4, <1>5, <1>6, <1>7, <2>3, <2>6, <2>7
<1> QED
  BY <1>2, <1>8, <1>9

\* Committing the consume of a rejection changes only these variables, in this way.
LEMMA CommitRejectedWrites ==
  ASSUME IInv, NEW r \in Requests, CommitRejected(r)
  PROVE  /\ pc[r] = "commit_rejected" /\ call[r].handle \in Handles
         /\ challenges[call[r].handle].stage = "claimed"
         /\ Apply(r) => RowMoves(r, "consumed") /\ UNCHANGED accounts
<1> USE DEF IInv, TypeOK
<1>1. pc[r] = "commit_rejected" /\ call[r].handle \in Handles
  BY DEF CommitRejected, CallsFollow
<1>2. pending[r] = {"consume"}
  BY <1>1 DEF TransactionsFollow, WrittenAt
<1>3. challenges[call[r].handle].stage = "claimed"
  BY <1>1 DEF ClaimsHeld, Claiming
<1>4. challenges[call[r].handle] \in Row
  BY <1>1
<1>5. Apply(r) => RowMoves(r, "consumed") /\ UNCHANGED accounts
  BY <1>1, <1>2, <1>4 DEF Apply, WrittenRow, RowMoves, Row, Consumed
<1> QED
  BY <1>1, <1>3, <1>5

\* Committing the consume of a rejection keeps the inductive invariant.
LEMMA CommitRejectedKeeps ==
  ASSUME IInv, TypeOK', NEW r \in Requests, CommitRejected(r)
  PROVE  IInv'
<1>1. /\ pc[r] = "commit_rejected" /\ call[r].handle \in Handles
      /\ challenges[call[r].handle].stage = "claimed"
      /\ Apply(r) => RowMoves(r, "consumed") /\ UNCHANGED accounts
  BY CommitRejectedWrites
<1>2. /\ Moves(r) /\ UNCHANGED <<call, attempts>>
      /\ pending' = [pending EXCEPT ![r] = {}]
      /\ poisoned' \subseteq poisoned /\ r \notin poisoned'
      /\ \/ /\ Apply(r)
            /\ pc' = [pc EXCEPT ![r] = "done"]
            /\ answer' = [answer EXCEPT ![r] = answer[r]]
         \/ /\ Apply(r) \/ UNCHANGED tables
            /\ pc' = [pc EXCEPT ![r] = "done"]
            /\ answer' = [answer EXCEPT ![r] = answer[r]]
  BY <1>1, CommitMoves DEF CommitRejected
<1> USE DEF IInv, TypeOK, tables
<1>3. TransactionsFollow'
  <2>1. PICK l \in {"done", "done"} : pc' = [pc EXCEPT ![r] = l]
    BY <1>2
  <2>2. pending' = [pending EXCEPT ![r] = WrittenAt(l)]
    BY <1>2 DEF WrittenAt
  <2> QED
    BY <1>2, <2>1, <2>2, TransactionMoves
<1>4. CallsFollow'
  BY <1>1, <1>2 DEF CallsFollow, Claiming
<1>5. HandlesDrawnOnce'
  BY <1>1, <1>2 DEF CallsFollow, HandlesDrawnOnce, Drawing, RowMoves
<1>6. ClaimsHeld'
  <2>1. ASSUME NEW q \in Requests \ {r}, call[q].handle = call[r].handle
        PROVE  pc[q] \notin Claiming /\ ~(attempts[q] > 0)
    BY <1>1, <2>1 DEF ClaimsHeld, OneClaimant, Claiming
  <2>2. ASSUME NEW q \in Requests \ {r}
        PROVE  pc'[q] = pc[q] /\ call'[q] = call[q] /\ attempts'[q] = attempts[q]
    BY <1>2 DEF Moves
  <2>3. ASSUME NEW h \in Handles, h # call[r].handle
        PROVE  challenges'[h] = challenges[h]
    BY <1>1, <1>2, <2>3 DEF RowMoves
  <2> QED
    BY <1>1, <1>2, <2>1, <2>2, <2>3 DEF ClaimsHeld, Claiming, CallsFollow, RowMoves
<1>7. OneClaimant'
  BY <1>1, <1>2 DEF CallsFollow, Claiming, OneClaimant
<1>8. UNCHANGED accounts
  BY <1>1, <1>2
<1>9. AccountsPaidFor'
  <2>1. ASSUME NEW a \in accounts
        PROVE  /\ pc'[a.id] = "done" /\ call'[a.id] = call[a.id]
               /\ challenges'[call[a.id].handle] = challenges[call[a.id].handle]
    <3>1. a.id \in Requests \ {r}
      BY <1>1 DEF AccountsPaidFor, Account
    <3>2. call[a.id].handle \in Handles \ {call[r].handle}
      BY <1>1 DEF AccountsPaidFor, AccountSpendsHandle
    <3> QED
      BY <1>1, <1>2, <3>1, <3>2 DEF Moves, AccountsPaidFor, RowMoves
  <2> QED
    BY <1>8, <2>1 DEF AccountsPaidFor, AccountSpendsHandle
<1>10. KeysReserved' /\ NoDuplicateAccount'
  BY <1>1, <1>2, <1>8 DEF KeysReserved, NoDuplicateAccount, Inserted, SameKey, NewAccount
<1> QED
  BY <1>3, <1>4, <1>5, <1>6, <1>7, <1>9, <1>10

-----------------------------------------------------------------------------
(* The environment, and the theorems.                                      *)

\* Retiring an identity or blocking its user keeps its keys and its id.
LEMMA OperateKeeps ==
  ASSUME IInv, TypeOK', NEW a \in accounts, Retire(a) \/ BlockUser(a)
  PROVE  IInv'
<1> USE DEF IInv, TypeOK
<1>0. a \in Account
  OBVIOUS
<1>1. PICK b : /\ accounts' = (accounts \ {a}) \cup {b}
               /\ b.id = a.id /\ b.pair = a.pair /\ b.uid = a.uid
               /\ UNCHANGED <<challenges, pc, call, attempts, pending, poisoned, answer>>
  <2>1. CASE Retire(a)
    BY <1>0, <2>1 DEF Retire, Operate, Account
  <2>2. CASE BlockUser(a)
    BY <1>0, <2>2 DEF BlockUser, Operate, Account
  <2> QED
    BY <2>1, <2>2
<1>2. /\ TransactionsFollow' /\ CallsFollow' /\ HandlesDrawnOnce' /\ ClaimsHeld'
      /\ OneClaimant'
  BY <1>1 DEF TransactionsFollow, CallsFollow, HandlesDrawnOnce, Drawing, ClaimsHeld,
              OneClaimant
<1>3. AccountsPaidFor'
  BY <1>1 DEF AccountsPaidFor, AccountSpendsHandle
<1>4. KeysReserved'
  <2>1. ASSUME NEW r \in Requests PROVE Inserted(r)' = Inserted(r) /\ NewAccount(r)' = NewAccount(r)
    BY <1>1 DEF Inserted, NewAccount
  <2> QED
    BY <1>1, <2>1 DEF KeysReserved, SameKey
<1>5. NoDuplicateAccount'
  BY <1>1 DEF NoDuplicateAccount, SameKey
<1> QED
  BY <1>2, <1>3, <1>4, <1>5

\* A step that leaves everything but the clock alone keeps the invariant.
LEMMA ClockKeeps ==
  ASSUME IInv, TypeOK', Tick \/ Quiesce \/ UNCHANGED vars
  PROVE  IInv'
<1>1. UNCHANGED <<challenges, accounts, pc, call, attempts, pending, poisoned, answer>>
  BY DEF Tick, Quiesce, vars, tables
<1> QED
  BY <1>1 DEF IInv, TransactionsFollow, CallsFollow, HandlesDrawnOnce, Drawing,
              ClaimsHeld, OneClaimant, AccountsPaidFor, AccountSpendsHandle,
              KeysReserved, Inserted, NewAccount, NoDuplicateAccount, SameKey

\* Every step keeps the inductive invariant.
LEMMA NextInvariant == IInv /\ [Next]_vars => IInv'
<1> SUFFICES ASSUME IInv, [Next]_vars PROVE IInv'
  OBVIOUS
<1>0. TypeOK'
  BY TypeStep
<1>1. ASSUME NEW r \in Requests, Arrive(r) PROVE IInv'
  BY <1>0, <1>1, RefuseIdentityKeeps, BeginIssueKeeps, BeginCompleteKeeps DEF Arrive
<1>2. ASSUME NEW r \in Requests, Step(r) PROVE IInv'
  BY <1>0, <1>2, IssueKeeps, CommitIssueKeeps, LocateKeeps, ClaimKeeps, RefreshKeeps,
     CommitClaimKeeps, LookupFoundKeeps, LookupRetryableKeeps, LookupFailedKeeps,
     LookupNoAppKeeps, ResolveExistingKeeps, InsertAccountKeeps, ConsumeKeeps,
     CommitAccountKeeps, RollbackRejectedKeeps, SpendRejectedKeeps, CommitRejectedKeeps
  DEF Step
<1>3. ASSUME NEW r \in Requests, Interrupt(r) PROVE IInv'
  BY <1>0, <1>3, InterruptKeeps
<1>4. ASSUME NEW a \in accounts, Retire(a) \/ BlockUser(a) PROVE IInv'
  BY <1>0, <1>4, OperateKeeps
<1>5. CASE Tick \/ Quiesce \/ UNCHANGED vars
  BY <1>0, <1>5, ClockKeeps
<1> QED
  BY <1>1, <1>2, <1>3, <1>4, <1>5 DEF Next

\* The inductive invariant holds throughout every behaviour.
THEOREM Invariance == Spec => []IInv
<1>1. Init => IInv
  BY InitInvariant
<1>2. IInv /\ [Next]_vars => IInv'
  BY NextInvariant
<1> QED
  BY <1>1, <1>2, PTL DEF Spec

\* Type correctness.
THEOREM TypeCorrectness == Spec => []TypeOK
<1>1. IInv => TypeOK
  BY DEF IInv
<1> QED
  BY <1>1, Invariance, PTL

\* One request per handle ever reads the provider.
THEOREM SingleAttempt == Spec => []OneAttemptPerHandle
<1>1. IInv => OneAttemptPerHandle
  BY DEF IInv, OneClaimant, OneAttemptPerHandle
<1> QED
  BY <1>1, Invariance, PTL

\* The holder of a claim always finds its row claimed and unspent.
THEOREM ConsumeMatches == Spec => []ConsumeAlwaysMatches
<1>1. IInv => ConsumeAlwaysMatches
  BY DEF IInv, ClaimsHeld, ConsumeAlwaysMatches
<1> QED
  BY <1>1, Invariance, PTL

\* No pair and no provider account has two accounts.
THEOREM NoDuplicates == Spec => []NoDuplicateAccount
<1>1. IInv => NoDuplicateAccount
  BY DEF IInv
<1> QED
  BY <1>1, Invariance, PTL

\* An account never exists with its handle unspent.
THEOREM AccountsArePaidFor == Spec => []AccountSpendsHandle
<1>1. IInv => AccountSpendsHandle
  BY DEF IInv, AccountsPaidFor
<1> QED
  BY <1>1, Invariance, PTL
=============================================================================
