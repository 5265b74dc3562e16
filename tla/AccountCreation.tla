-------------------------- MODULE AccountCreation --------------------------
(***************************************************************************)
(* Account creation: `POST /auth/challenge` issues a single-use challenge  *)
(* and `POST /auth/create-user` spends it.                                 *)
(*                                                                         *)
(* Every request is a process that runs the handler one database statement *)
(* (or one provider read) at a time, in its own transaction: `pending` is  *)
(* what the transaction has written and not committed, and committing      *)
(* applies it to the tables `challenges` and `accounts`. A row another     *)
(* transaction has written stays locked until that transaction ends, and   *)
(* so does the key of an uncommitted insert (PostgreSQL, READ COMMITTED).  *)
(* A commit may fail, or be applied and reported as a failure, and a       *)
(* request may stop between any two of its steps; MaxFaults bounds how     *)
(* often. Operators retire identities and block users at any time.         *)
(***************************************************************************)
EXTENDS Naturals, FiniteSets

CONSTANTS
  Requests,     \* requests; each is made at most once
  Handles,      \* values new_challenge_id() may draw
  Pairs,        \* verified (issuer, subject) pairs
  Uids,         \* provider-account uids (one issuer is deployed)
  NoUid, NoPair, NoIdentity, NoHandle,   \* the null of each column
  TTL,          \* CHALLENGE_TTL_SECONDS
  LookupAttempts,  \* FIREBASE_LOOKUP_ATTEMPTS
  MaxTime,      \* bound: the clock stops here
  MaxFaults     \* bound: failed commits and interrupted requests

ASSUME ConstantsAssumption ==
  /\ TTL \in Nat /\ LookupAttempts \in Nat \ {0}
  /\ MaxTime \in Nat /\ MaxFaults \in Nat
  /\ NoUid \notin Uids /\ NoPair \notin Pairs
  /\ NoIdentity \notin Requests /\ NoHandle \notin Handles

VARIABLES
  now,          \* datetime.now(UTC)
  challenges,   \* core.auth_challenges, committed
  accounts,     \* core.users and core.external_identities, committed
  pc,           \* where each request is in its handler
  call,         \* what each request carries: pair, handle, identity, at, uid
  attempts,     \* provider reads made by each request
  pending,      \* uncommitted writes of each request's transaction
  poisoned,     \* requests whose transaction a failed insert left unusable
  answer,       \* the answer sent, or earned and about to be sent
  faults        \* how many faults have happened

tables == <<challenges, accounts>>
vars == <<now, challenges, accounts, pc, call, attempts, pending, poisoned,
          answer, faults>>

-----------------------------------------------------------------------------
(* Types. The nullness of claimed_at and consumed_at is the row's stage.   *)

Stage == {"absent", "issued", "claimed", "consumed"}

Row == [stage : Stage, bound : Requests \cup {NoIdentity},
        subject : Pairs \cup {NoPair}, expires : Nat]

\* An identity row with its user; its id is the request that inserted it.
Account == [id : Requests, pair : Pairs, uid : Uids \cup {NoUid},
            state : {"active", "historical"}, user_active : BOOLEAN]

Call == [pair : Pairs \cup {NoPair}, handle : Handles \cup {NoHandle},
         identity : Requests \cup {NoIdentity}, at : Nat,
         uid : Uids \cup {NoUid}]

Location == {"idle", "issue", "commit_issue", "locate", "claim", "refresh",
             "commit_claim", "lookup", "resolve_existing", "insert_account",
             "consume", "commit_account", "rollback", "spend_rejected",
             "commit_rejected", "done"}

Write == {"issue", "claim", "account", "consume"}

\* What a rejection after the claim may be; all of them are AppErrors.
Rejection == {"unavailable", "user_not_found", "not_linked",
              "historical_identity", "blocked_user", "identity_already_linked"}

Answer == Rejection \cup
          {"none", "issued", "created", "internal_error",
           "challenge_not_found", "challenge_consumed",
           "challenge_expired", "challenge_identity_mismatch"}

NoRow == [stage |-> "absent", bound |-> NoIdentity, subject |-> NoPair,
          expires |-> 0]

NoCall == [pair |-> NoPair, handle |-> NoHandle, identity |-> NoIdentity,
           at |-> 0, uid |-> NoUid]

Init ==
  /\ now = 0
  /\ challenges = [h \in Handles |-> NoRow]
  /\ accounts = {}
  /\ pc = [r \in Requests |-> "idle"]
  /\ call = [r \in Requests |-> NoCall]
  /\ attempts = [r \in Requests |-> 0]
  /\ pending = [r \in Requests |-> {}]
  /\ poisoned = {}
  /\ answer = [r \in Requests |-> "none"]
  /\ faults = 0

-----------------------------------------------------------------------------
(* Transactions.                                                           *)

Goto(r, l) == pc' = [pc EXCEPT ![r] = l]

\* Mutant: the session goes back to the pool with its transaction open.
EndTransactionLeaked(r) == UNCHANGED <<pending, poisoned>>

\* The transaction of r ends, whatever its outcome.
EndTransaction(r) ==
  /\ pending' = [pending EXCEPT ![r] = {}]
  /\ poisoned' = poisoned \ {r}

RowLocked(r) ==
  \E q \in Requests \ {r} :
    /\ call[q].handle = call[r].handle
    /\ pending[q] \cap {"claim", "consume"} # {}

\* Mutant: the TTL is subtracted.
NewRowBornExpired(r) ==
  [stage |-> "issued", bound |-> call[r].identity,
   subject |-> IF call[r].identity = NoIdentity THEN call[r].pair ELSE NoPair,
   expires |-> call[r].at - TTL]

NewRow(r) ==
  [stage |-> "issued", bound |-> call[r].identity,
   subject |-> IF call[r].identity = NoIdentity THEN call[r].pair ELSE NoPair,
   expires |-> call[r].at + TTL]

NewAccount(r) ==
  [id |-> r, pair |-> call[r].pair, uid |-> call[r].uid,
   state |-> "active", user_active |-> TRUE]

Consumed(row) == [row EXCEPT !.stage = "consumed", !.subject = NoPair]

\* The challenge row of r's handle once r's writes are applied.
WrittenRow(r) ==
  LET row == challenges[call[r].handle] IN
  IF "issue" \in pending[r] THEN NewRow(r)
  ELSE IF "claim" \in pending[r] THEN [row EXCEPT !.stage = "claimed"]
  ELSE IF "consume" \in pending[r] THEN Consumed(row)
  ELSE row

Apply(r) ==
  /\ challenges' = [challenges EXCEPT ![call[r].handle] = WrittenRow(r)]
  /\ accounts' = accounts \cup
       (IF "account" \in pending[r] THEN {NewAccount(r)} ELSE {})

Fault == faults < MaxFaults /\ faults' = faults + 1

\* session.commit(): applied and reported; applied but reported as failed
\* (the connection died after the server committed); or rolled back.
Commit(r, next, success, failure) ==
  /\ EndTransaction(r)
  /\ \/ /\ Apply(r)
        /\ Goto(r, next)
        /\ answer' = [answer EXCEPT ![r] = success]
        /\ UNCHANGED faults
     \/ /\ Apply(r) \/ UNCHANGED tables
        /\ Goto(r, "done")
        /\ answer' = [answer EXCEPT ![r] = failure]
        /\ Fault
  /\ UNCHANGED <<now, call, attempts>>

\* A rejection outside the claim: get_db rolls back and the client is told.
Reject(r, code) ==
  /\ EndTransaction(r)
  /\ Goto(r, "done")
  /\ answer' = [answer EXCEPT ![r] = code]
  /\ UNCHANGED <<now, tables, call, attempts, faults>>

-----------------------------------------------------------------------------
(* get_identity: the pair is resolved in a session of its own, before the  *)
(* handler; the handler keeps the snapshot.                                *)

IdentityOf(p) == {a \in accounts : a.pair = p}

Refused(p, code) ==
  \E a \in IdentityOf(p) :
    IF a.state # "active" THEN code = "historical_identity"
    ELSE ~a.user_active /\ code = "blocked_user"

Resolved(p) ==
  IF IdentityOf(p) = {} THEN NoIdentity ELSE (CHOOSE a \in IdentityOf(p) : TRUE).id

RefuseIdentity(r, p) ==
  /\ pc[r] = "idle"
  /\ \E code \in Rejection :
       /\ Refused(p, code)
       /\ Goto(r, "done")
       /\ answer' = [answer EXCEPT ![r] = code]
  /\ call' = [call EXCEPT ![r].pair = p]
  /\ UNCHANGED <<now, tables, attempts, pending, poisoned, faults>>

\* new_challenge_id() never draws a value twice: 16 CSPRNG bytes. (Drawn when
\* the request begins, so that a request the pool of Handles cannot serve is
\* not admitted.)
Drawn == {call[q].handle : q \in {i \in Requests :
            pc[i] \in {"issue", "commit_issue"} \/ answer[i] = "issued"}}

BeginIssue(r, p, h) ==
  /\ pc[r] = "idle"
  /\ ~\E code \in Rejection : Refused(p, code)
  /\ h \notin Drawn
  /\ call' = [call EXCEPT ![r] = [pair |-> p, handle |-> h, at |-> 0,
                                  identity |-> Resolved(p), uid |-> NoUid]]
  /\ Goto(r, "issue")
  /\ UNCHANGED <<now, tables, attempts, pending, poisoned, answer, faults>>

\* get_auth_service reads the clock: the one instant of the request.
BeginComplete(r, p, h) ==
  /\ pc[r] = "idle"
  /\ ~\E code \in Rejection : Refused(p, code)
  /\ call' = [call EXCEPT ![r] = [pair |-> p, handle |-> h, at |-> now,
                                  identity |-> Resolved(p), uid |-> NoUid]]
  /\ Goto(r, "locate")
  /\ UNCHANGED <<now, tables, attempts, pending, poisoned, answer, faults>>

-----------------------------------------------------------------------------
(* POST /auth/challenge. The row is flushed and the answer built; get_db   *)
(* commits when the dependency exits, after the answer has been sent.      *)

Issue(r) ==
  /\ pc[r] = "issue"
  /\ call' = [call EXCEPT ![r].at = now]
  /\ pending' = [pending EXCEPT ![r] = @ \cup {"issue"}]
  /\ answer' = [answer EXCEPT ![r] = "issued"]
  /\ Goto(r, "commit_issue")
  /\ UNCHANGED <<now, tables, attempts, poisoned, faults>>

CommitIssue(r) ==
  /\ pc[r] = "commit_issue"
  /\ Commit(r, "done", "issued", "issued")

-----------------------------------------------------------------------------
(* POST /auth/create-user, up to the claim.                                *)

\* Mutant: the presenter is not compared with the subject.
BindingErrorUnbound(row, r) ==
  IF row.bound # NoIdentity
  THEN IF call[r].identity = row.bound THEN "none"
       ELSE "challenge_identity_mismatch"
  ELSE IF row.subject = NoPair THEN "challenge_consumed" ELSE "none"

\* ChallengesDB.verify_binding on the row just read.
BindingError(row, r) ==
  IF row.bound # NoIdentity
  THEN IF call[r].identity = row.bound THEN "none"
       ELSE "challenge_identity_mismatch"
  ELSE IF row.subject = NoPair THEN "challenge_consumed"
  ELSE IF row.subject # call[r].pair THEN "challenge_identity_mismatch"
  ELSE "none"

Locate(r) ==
  /\ pc[r] = "locate"
  /\ LET row == challenges[call[r].handle]
         error == IF row.stage = "absent" THEN "challenge_not_found"
                  ELSE BindingError(row, r)
     IN IF error # "none" THEN Reject(r, error)
        ELSE /\ Goto(r, "claim")
             /\ UNCHANGED <<now, tables, call, attempts, pending, poisoned,
                            answer, faults>>

\* Mutant: `claimed_at IS NULL` is dropped from the claim.
ClaimableTwice(r) ==
  /\ challenges[call[r].handle].stage # "absent"
  /\ challenges[call[r].handle].expires > call[r].at

\* The WHERE clause of ChallengesDB.claim, evaluated once the row is free.
Claimable(r) ==
  /\ challenges[call[r].handle].stage = "issued"
  /\ challenges[call[r].handle].expires > call[r].at

Claim(r) ==
  /\ pc[r] = "claim"
  /\ ~RowLocked(r)
  /\ IF Claimable(r)
     THEN /\ pending' = [pending EXCEPT ![r] = @ \cup {"claim"}]
          /\ Goto(r, "commit_claim")
     ELSE /\ Goto(r, "refresh")
          /\ UNCHANGED pending
  /\ UNCHANGED <<now, tables, call, attempts, poisoned, answer, faults>>

\* Mutant: the two losses are told apart on the row read by `locate`.
RefreshStale(r) == pc[r] = "refresh" /\ Reject(r, "challenge_expired")

\* session.refresh(challenge) tells the two losses apart.
Refresh(r) ==
  /\ pc[r] = "refresh"
  /\ Reject(r, IF challenges[call[r].handle].stage = "issued"
               THEN "challenge_expired" ELSE "challenge_consumed")

\* Mutant: the claim stays uncommitted across the provider read.
CommitClaimSkipped(r) ==
  /\ pc[r] = "commit_claim"
  /\ Goto(r, "lookup")
  /\ UNCHANGED <<now, tables, call, attempts, pending, poisoned, answer, faults>>

\* The deliberate commit: the claim is durable before the provider is called.
CommitClaim(r) ==
  /\ pc[r] = "commit_claim"
  /\ Commit(r, "lookup", "none", "internal_error")

-----------------------------------------------------------------------------
(* The provider read and the account.                                      *)

\* Mutant: the rejection is raised without spending the handle.
RejectClaimedUnspent(r, code) ==
  /\ Goto(r, "done")
  /\ answer' = [answer EXCEPT ![r] = code]
  /\ UNCHANGED <<now, tables, call, pending, faults>>

\* `except AppError` in AuthService.complete: the error is kept while the
\* transaction is rolled back and the handle spent, and raised after that.
RejectClaimed(r, code) ==
  /\ Goto(r, "rollback")
  /\ answer' = [answer EXCEPT ![r] = code]
  /\ UNCHANGED <<now, tables, call, pending, faults>>

\* One attempt of lookup_with_retry.
ReadProvider(r) ==
  /\ pc[r] = "lookup"
  /\ attempts' = [attempts EXCEPT ![r] = @ + 1]
  /\ UNCHANGED poisoned

LookupFound(r, u) ==
  /\ ReadProvider(r)
  /\ call' = [call EXCEPT ![r].uid = u]
  /\ Goto(r, "resolve_existing")
  /\ UNCHANGED <<now, tables, pending, answer, faults>>

LookupRetryable(r) ==
  /\ ReadProvider(r)
  /\ attempts'[r] < LookupAttempts
  /\ UNCHANGED <<now, tables, pc, call, pending, answer, faults>>

LookupFailed(r, code) ==
  /\ ReadProvider(r)
  /\ \/ code \in {"user_not_found", "not_linked"}
     \/ code = "unavailable" /\ attempts'[r] = LookupAttempts
  /\ RejectClaimed(r, code)

\* No Admin app for the issuer: Unavailable, with no call made.
LookupNoApp(r) ==
  /\ pc[r] = "lookup" /\ attempts[r] = 0
  /\ RejectClaimed(r, "unavailable")
  /\ UNCHANGED <<attempts, poisoned>>

\* _reject_existing_identity.
ExistingError(p) ==
  IF \E a \in IdentityOf(p) : a.state # "active" THEN "historical_identity"
  ELSE IF \E a \in IdentityOf(p) : ~a.user_active THEN "blocked_user"
  ELSE "identity_already_linked"

ResolveExisting(r) ==
  /\ pc[r] = "resolve_existing"
  /\ IF IdentityOf(call[r].pair) # {}
     THEN RejectClaimed(r, ExistingError(call[r].pair))
     ELSE /\ Goto(r, "insert_account")
          /\ UNCHANGED <<now, tables, call, pending, answer, faults>>
  /\ UNCHANGED <<attempts, poisoned>>

\* The two unique indexes of core.external_identities.
SameKey(a, b) == a.pair = b.pair \/ (a.uid # NoUid /\ a.uid = b.uid)

\* Another transaction holds an uncommitted row with one of the keys.
KeyLocked(r) ==
  \E q \in Requests \ {r} :
    "account" \in pending[q] /\ SameKey(NewAccount(q), NewAccount(r))

\* Mutant: the provider-account index is missing.
ConflictsOnPairOnly(r) == \E a \in accounts : a.pair = NewAccount(r).pair

Conflicts(r) == \E a \in accounts : SameKey(NewAccount(r), a)

\* The user, its identity and its purchase tokens. A conflict is answered
\* IdentityAlreadyLinked and leaves the transaction unusable.
InsertAccount(r) ==
  /\ pc[r] = "insert_account"
  /\ ~KeyLocked(r)
  /\ \/ /\ Conflicts(r)
        /\ RejectClaimed(r, "identity_already_linked")
        /\ poisoned' = poisoned \cup {r}
     \/ /\ ~Conflicts(r)
        /\ pending' = [pending EXCEPT ![r] = @ \cup {"account"}]
        /\ Goto(r, "consume")
        /\ UNCHANGED <<now, tables, call, poisoned, answer, faults>>
  /\ UNCHANGED attempts

-----------------------------------------------------------------------------
(* Spending the handle: _consume_and_commit, on either path.               *)

\* Mutant: the consume's WHERE selects unclaimed rows.
ConsumeWritesUnclaimed(r) ==
  IF challenges[call[r].handle].stage = "issued" /\ r \notin poisoned
  THEN {"consume"} ELSE {}

\* ChallengesDB.consume: what the statement writes. A poisoned transaction
\* writes nothing.
ConsumeWrites(r) ==
  IF challenges[call[r].handle].stage = "claimed" /\ r \notin poisoned
  THEN {"consume"} ELSE {}

SpendHandle(r, from, to) ==
  /\ pc[r] = from
  /\ ~RowLocked(r)
  /\ pending' = [pending EXCEPT ![r] = @ \cup ConsumeWrites(r)]
  /\ Goto(r, to)
  /\ UNCHANGED <<now, tables, call, attempts, poisoned, answer, faults>>

\* Success: the transaction that holds the account spends the handle.
Consume(r) == SpendHandle(r, "consume", "commit_account")

\* Mutant: the answer is sent first and the commit left to get_db's exit.
CommitAccountLate(r) ==
  /\ pc[r] = "commit_account"
  /\ Commit(r, "done", "created", "created")

CommitAccount(r) ==
  /\ pc[r] = "commit_account"
  /\ Commit(r, "done", "created", "internal_error")

\* Mutant: the failed insert is not rolled back.
RollbackSkipped(r) ==
  /\ pc[r] = "rollback"
  /\ Goto(r, "spend_rejected")
  /\ UNCHANGED <<now, tables, call, attempts, pending, poisoned, answer, faults>>

\* Rejection: session.rollback() first, then the same two statements. A
\* failure of either is logged and the client keeps its answer.
RollbackRejected(r) ==
  /\ pc[r] = "rollback"
  /\ EndTransaction(r)
  /\ Goto(r, "spend_rejected")
  /\ UNCHANGED <<now, tables, call, attempts, answer, faults>>

SpendRejected(r) == SpendHandle(r, "spend_rejected", "commit_rejected")

CommitRejected(r) ==
  /\ pc[r] = "commit_rejected"
  /\ Commit(r, "done", answer[r], answer[r])

-----------------------------------------------------------------------------
(* The environment.                                                        *)

\* An unexpected exception, a cancelled request or a dead process: the
\* transaction is rolled back, and the client sees a 500 or nothing.
Interrupt(r) ==
  /\ pc[r] \notin {"idle", "done"}
  /\ Fault
  /\ EndTransaction(r)
  /\ Goto(r, "done")
  /\ answer' = [answer EXCEPT ![r] = IF @ = "issued" THEN @ ELSE "internal_error"]
  /\ UNCHANGED <<now, tables, call, attempts>>

Tick ==
  /\ now < MaxTime
  /\ now' = now + 1
  /\ UNCHANGED <<tables, pc, call, attempts, pending, poisoned, answer, faults>>

\* Support tooling retires an identity or blocks its user.
Operate(a, b) ==
  /\ accounts' = (accounts \ {a}) \cup {b}
  /\ UNCHANGED <<now, challenges, pc, call, attempts, pending, poisoned,
                 answer, faults>>

Retire(a) == a.state = "active" /\ Operate(a, [a EXCEPT !.state = "historical"])

BlockUser(a) == a.user_active /\ Operate(a, [a EXCEPT !.user_active = FALSE])

\* Every request has been served.
Quiesce == (\A r \in Requests : pc[r] = "done") /\ UNCHANGED vars

-----------------------------------------------------------------------------
Arrive(r) ==
  \E p \in Pairs :
    \/ RefuseIdentity(r, p)
    \/ \E h \in Handles : BeginIssue(r, p, h) \/ BeginComplete(r, p, h)

\* What the event loop runs for a request that has arrived.
Step(r) ==
  \/ Issue(r) \/ CommitIssue(r)
  \/ Locate(r) \/ Claim(r) \/ Refresh(r) \/ CommitClaim(r)
  \/ \E u \in Uids \cup {NoUid} : LookupFound(r, u)
  \/ LookupRetryable(r)
  \/ \E code \in Rejection : LookupFailed(r, code)
  \/ LookupNoApp(r)
  \/ ResolveExisting(r) \/ InsertAccount(r)
  \/ Consume(r) \/ CommitAccount(r)
  \/ RollbackRejected(r) \/ SpendRejected(r) \/ CommitRejected(r)

Next ==
  \/ \E r \in Requests : Arrive(r) \/ Step(r) \/ Interrupt(r)
  \/ \E a \in accounts : Retire(a) \/ BlockUser(a)
  \/ Tick
  \/ Quiesce

Spec == Init /\ [][Next]_vars

\* The event loop keeps running every request that can move; nothing makes
\* a client call, an operator act, or a fault happen.
FairSpec == Spec /\ \A r \in Requests : WF_vars(Step(r))

-----------------------------------------------------------------------------
(* Properties.                                                             *)

\* Every variable has its type.
TypeOK ==
  /\ now \in Nat /\ faults \in Nat
  /\ challenges \in [Handles -> Row]
  /\ accounts \subseteq Account
  /\ pc \in [Requests -> Location]
  /\ call \in [Requests -> Call]
  /\ attempts \in [Requests -> Nat]
  /\ pending \in [Requests -> SUBSET Write]
  /\ poisoned \subseteq Requests
  /\ answer \in [Requests -> Answer]

\* Holding the claim: between winning it and the end of the attempt.
Claiming == {"commit_claim", "lookup", "resolve_existing", "insert_account",
             "consume", "commit_account", "rollback", "spend_rejected",
             "commit_rejected"}

\* The provider is read, and an account attempted, by one request per handle:
\* the claim is the serialization point, and it is durable before the read.
OneAttemptPerHandle ==
  \A q, r \in Requests :
    attempts[q] > 0 /\ attempts[r] > 0 /\ call[q].handle = call[r].handle
      => q = r

\* The request that holds a claim finds its handle claimed and unspent when it
\* comes to spend it, whatever the others do: _consume_and_commit never logs
\* challenge_consume_did_not_match.
ConsumeAlwaysMatches ==
  \A r \in Requests :
    pc[r] \in Claiming \ {"commit_claim"} =>
      challenges[call[r].handle].stage = "claimed"

\* No pair and no provider account ever gets a second account, however the
\* challenges of the same pair race (the two unique indexes decide).
NoDuplicateAccount ==
  \A a, b \in accounts : SameKey(a, b) => a = b

\* An account exists only with the handle that paid for it spent: the insert
\* and the consume are one transaction, whatever fails.
AccountSpendsHandle ==
  \A a \in accounts :
    challenges[call[a.id].handle].stage = "consumed"

\* A handle is claimed only for the pair it was issued to, and the account it
\* buys is that pair's.
IssuedTo(h, p) ==
  \E q \in Requests :
    answer[q] = "issued" /\ call[q].handle = h /\ call[q].pair = p

ClaimedByItsHolder ==
  \A r \in Requests :
    pc[r] \in Claiming \/ (\E a \in accounts : a.id = r)
      => IssuedTo(call[r].handle, call[r].pair)

\* "created" is answered only after the caller's own account is durable, and
\* an account whose request was never answered "created" met a fault.
CreatedIsDurable ==
  \A r \in Requests :
    /\ answer[r] = "created" => \E a \in accounts : a.id = r
    /\ (\E a \in accounts : a.id = r) /\ answer[r] # "created" => faults > 0

\* Which loss the claim's loser is told is the loss it met: "expired" only if
\* the handle had expired at the request's instant, "consumed" only if some
\* attempt has claimed it.
LossIsTruthful ==
  \A r \in Requests :
    /\ answer[r] = "challenge_expired" =>
         call[r].at >= challenges[call[r].handle].expires
    /\ answer[r] = "challenge_consumed" =>
         challenges[call[r].handle].stage \in {"claimed", "consumed"}

\* A rejection earned after the claim has spent the handle by the time it is
\* answered; only a fault may leave the handle claimed (and never issued).
RejectionSpendsHandle ==
  \A r \in Requests :
    pc[r] = "done" /\ answer[r] \in Rejection /\ call[r].handle # NoHandle
      => LET row == challenges[call[r].handle] IN
         /\ row.stage \in {"claimed", "consumed"}
         /\ row.stage = "claimed" => faults > 0

\* IdentityAlreadyLinked is answered, as its docstring says, to a pair that
\* already has an account.
AlreadyLinkedHasAccount ==
  \A r \in Requests :
    answer[r] = "identity_already_linked" => IdentityOf(call[r].pair) # {}

\* Every request that arrives is answered: row and key locks always clear.
EveryRequestAnswered ==
  \A r \in Requests : (pc[r] # "idle") ~> (pc[r] = "done")

\* Without faults a claimed handle is always spent: neither path of the
\* completion leaves it claimed.
ClaimedIsSpent ==
  \A h \in Handles :
    (challenges[h].stage = "claimed") ~> (challenges[h].stage = "consumed")

-----------------------------------------------------------------------------
(* The inductive invariant behind the safety properties.                   *)

\* What a request's transaction has written is determined by where it is.
WrittenAt(l) ==
  IF l = "commit_issue" THEN {"issue"}
  ELSE IF l = "commit_claim" THEN {"claim"}
  ELSE IF l = "consume" THEN {"account"}
  ELSE IF l = "commit_account" THEN {"account", "consume"}
  ELSE IF l = "commit_rejected" THEN {"consume"}
  ELSE {}

TransactionsFollow ==
  /\ \A r \in Requests : pending[r] = WrittenAt(pc[r])
  /\ \A r \in poisoned : pc[r] = "rollback"

\* A request in its handler carries a handle; one that never arrived made no
\* attempt and was answered nothing.
CallsFollow ==
  \A r \in Requests :
    /\ pc[r] \notin {"idle", "done"} =>
         call[r].handle \in Handles /\ call[r].pair \in Pairs
    /\ attempts[r] > 0 => /\ pc[r] \in Claiming \cup {"done"}
                          /\ pc[r] # "commit_claim"
                          /\ call[r].handle \in Handles
    /\ answer[r] = "issued" => /\ pc[r] \in {"commit_issue", "done"}
                               /\ call[r].handle \in Handles

\* A drawn handle belongs to one request, and a row exists only for one.
Drawing(r) == pc[r] \in {"issue", "commit_issue"} \/ answer[r] = "issued"

HandlesDrawnOnce ==
  /\ \A q, r \in Requests :
       Drawing(q) /\ Drawing(r) /\ call[q].handle = call[r].handle => q = r
  /\ \A h \in Handles : challenges[h].stage # "absent" =>
       \E r \in Requests : answer[r] = "issued" /\ pc[r] = "done" /\ call[r].handle = h

\* The stage of the row a claimant holds, before and after its commit; and a
\* request that read the provider leaves the row claimed for good.
ClaimsHeld ==
  \A r \in Requests :
    /\ pc[r] = "commit_claim" => challenges[call[r].handle].stage = "issued"
    /\ pc[r] \in Claiming \ {"commit_claim"} =>
         challenges[call[r].handle].stage = "claimed"
    /\ attempts[r] > 0 => challenges[call[r].handle].stage \in {"claimed", "consumed"}

OneClaimant ==
  \A q, r \in Requests :
    /\ pc[q] \in Claiming \/ attempts[q] > 0
    /\ pc[r] \in Claiming \/ attempts[r] > 0
    /\ call[q].handle = call[r].handle
    => q = r

\* An account is its request's: one per request, paid for by its handle.
AccountsPaidFor ==
  /\ \A a, b \in accounts : a.id = b.id => a = b
  /\ \A a \in accounts : /\ pc[a.id] = "done"
                         /\ call[a.id].pair = a.pair /\ call[a.id].uid = a.uid
                         /\ call[a.id].handle \in Handles
  /\ AccountSpendsHandle

\* An uncommitted account conflicts with no committed one and no other
\* uncommitted one.
Inserted(r) == pc[r] \in {"consume", "commit_account"}

KeysReserved ==
  /\ \A r \in Requests, a \in accounts : Inserted(r) => ~SameKey(NewAccount(r), a)
  /\ \A q, r \in Requests : Inserted(q) /\ Inserted(r) /\ q # r =>
       ~SameKey(NewAccount(q), NewAccount(r))

\* Holds initially, is kept by every step, and implies the safety properties.
IInv ==
  /\ TypeOK
  /\ TransactionsFollow
  /\ CallsFollow
  /\ HandlesDrawnOnce
  /\ ClaimsHeld
  /\ OneClaimant
  /\ AccountsPaidFor
  /\ KeysReserved
  /\ NoDuplicateAccount

-----------------------------------------------------------------------------
(* The abstract specification this one implements.                         *)

HolderOf(row) ==
  IF row.stage \in {"absent", "consumed"} THEN NoPair
  ELSE IF row.bound = NoIdentity THEN row.subject
  ELSE (CHOOSE a \in accounts : a.id = row.bound).pair

Abstract ==
  INSTANCE SingleUseChallenge WITH
    stage <- [h \in Handles |-> challenges[h].stage],
    holder <- [h \in Handles |-> HolderOf(challenges[h])],
    created <- {[handle |-> call[a.id].handle, pair |-> a.pair, uid |-> a.uid] :
                  a \in accounts}

\* Every behaviour of the handlers, with its races, faults and lost commits,
\* is one of the single-use challenge.
ImplementsSingleUse == Abstract!ASpec
=============================================================================
