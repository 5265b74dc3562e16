# A verification of the NativeSpeaker API gateway

TLA+ models of the parts of this service whose correctness depends on the order
in which things happen: the single-use challenge that creates accounts, the
monthly quota, the admission of requests to the language model, the chat
requests that bring them together, the verification of tokens while the issuer's
keys change, and the read of the provider's account. Each is checked by TLC on
small instances. Every invariant, action property and refinement that a passing run
checks is also proved with TLAPS, for every value of the constants; liveness is
model-checked only.

Paths below are relative to `src/nativespeaker/api/` unless they say otherwise.

## 1. Inventory

The service is one FastAPI application (`app/main.py`), run by one event loop per
worker process, in front of PostgreSQL (READ COMMITTED, SQLAlchemy async
sessions), Firebase (identity provider) and a language-model provider.

| Component | State | Operations | What makes it correct |
|---|---|---|---|
| Account creation (`services/auth.py`, `crud/challenges.py`, `routers/auth.py`) | `core.auth_challenges`, one open transaction per request | issue, locate, verify_binding, claim, consume; complete | a handle is claimed once, spent once, by the pair it was issued to; an account and the spending of its handle are one transaction; every failure leaves the handle unusable |
| Identities (`crud/identities.py`, `app/dependencies.py`) | `core.users`, `core.external_identities` | resolve, resolve_existing, insert_account | no pair and no provider account has two accounts |
| Provider lookup (`auth/firebase.py`) | none | one read, retried | what is accepted fits the schema and is all the account had linked; only verified addresses; only transient outcomes are retried |
| Quota (`services/quota.py`, `crud/grants.py`) | `core.access_grants`, `core.user_monthly_usage`, row locks | charge | a charge spends a grant in force; no month is charged past its allowance; a refusal is deserved |
| Sync (`services/sync.py`) | none | read_entitlement | reports what was charged |
| LLM resilience (`resilience.py`) | breaker (`_opened_at`, `_failure_count`), slots, semaphore | admission, hold, ainvoke with retries | slots and permits are conserved, nobody sleeps beside a free permit, the breaker is open exactly after enough failures |
| Chats (`services/chats.py`, `crud/chats.py`) | `core.chats`, `core.messages` | create_chat, send_message, get, list, delete | limits; what is charged is delivered; connections suffice |
| JWT verification (`auth/jwt_verifier.py`) | JWKS cache, bounded negative cache, a thread lock | verify | a published key is refused, and a pulled one accepted, only for a bounded time; an outage is never remembered as a miss; the cache is bounded |
| Error contract (`errors.py`, `app/error_handlers.py`) | none | class to status and body | every error has one row |
| Wiring (`app/lifespan.py`, `config.py`, `logs.py`) | engine, pool of `pool_size` connections, no overflow | start, stop | — |
| Read-only routes (`routers/users.py`, `examples.py`, `health.py`, `root.py`) | none | one statement or none | — |
| Schema (`migrations/20260818_01_initial-release.sql`) | constraints | — | the unique indexes and CHECKs the code relies on |

**How they interact.** A request first resolves its identity in a short session of
its own (`get_identity`); the handler then works in the request's session
(`get_db`), which commits after the answer has been sent unless the handler
committed itself. Creating an account commits twice in that session: the claim
before Firebase is read, the account with the spent handle after it. A chat
request waits for *admission* (breaker, then slot, then permit), *charges* the
quota in a third session, calls the model, and leaves the gate.

**What is hard.** Interleavings of handlers at every statement; row locks and
unique-key locks that make one request wait for another; commits that fail or
are applied and reported as failed; cancelled requests and dead workers;
instants captured long before they are used; wake-ups of a semaphore; late
results of calls that outlive a change of the breaker. The `hazards` of
`PROJECT.json` list them line by line, with the properties that cover them.

## 2. The modules

### Account creation

`SingleUseChallenge` is the promise: each handle is absent, issued to one pair,
claimed, and consumed; an account appears only in the step that consumes the
handle issued to its pair, and conflicts with no other account.

`AccountCreation` is the code. Every request is a process; `pc` is its place in
`issue_challenge` or `AuthService.complete`, `call` what the handler carries
(pair, handle, the identity resolved before it, the captured instant, the
provider uid), `pending` what its transaction has written and not committed,
`poisoned` whether a failed insert left that transaction unusable. Committing
applies `pending` to `challenges` and `accounts`.

| Action | Code |
|---|---|
| `RefuseIdentity`, `BeginIssue`, `BeginComplete` | `get_identity`, `get_auth_service` |
| `Issue`, `CommitIssue` | `issue_challenge`; `get_db`'s commit, after the answer |
| `Locate` | `locate`, `verify_binding` |
| `Claim`, `Refresh`, `CommitClaim` | `claim`, the refresh that tells its losses apart, the deliberate commit |
| `LookupFound`, `LookupRetryable`, `LookupFailed`, `LookupNoApp` | `lookup_with_retry` around `get_user_provider_data` |
| `ResolveExisting`, `InsertAccount` | `create_user`, `insert_account` with both unique indexes |
| `Consume`, `CommitAccount` | `_consume_and_commit` after success |
| `RollbackRejected`, `SpendRejected`, `CommitRejected` | `except AppError`: rollback, spend, commit, raise |
| `Interrupt`, `Retire`, `BlockUser`, `Tick` | cancellation or death; support tooling; the clock |

A statement that meets a row another transaction has written, or the key of its
uncommitted insert, waits until that transaction ends and then looks again:
`RowLocked` and `KeyLocked` guard those actions.

### Quota

`QuotaMeter` is the promise: every change of a usage row is one atomic charge,
made while the grant is active, against the count the row shows.

`Quota` is the code: `charge` as `BeginCharge` (captures `evaluated_at`),
`FindGrants` and `LockGrants` (the one locking statement: its snapshot, and the
re-evaluation of its condition on the locked rows), `LockUsage`, `Decide`
(rollover, comparison, increment, in the session only), `CommitCharge`;
`read_entitlement` as `BeginSync`, `SyncReadGrants`, `SyncReadUsage`. `ledger` and
`receded` are history: the charges committed per grant and month, and the grants
whose row went back to an earlier month. Grants are activated and closed by an
environment that respects the index `ix_access_grants_one_active_per_user`; no
writer of grants is in the repository.

### LLM resilience

`Resilience` is the code: the breaker's three methods as operators, `slots` as the
tokens left in `_slots`, and the semaphore as `permits`, `waiting` and the stage
`granted`, which is where asyncio leaves a waiter whose future is done and whose
coroutine has not run. `ExecutionGate` is what the gate promises to the requests
outside: so many inside, so many waiting, and a refusal only when all places are
taken; `Resilience` implements it (`ImplementsGate`), and so does the gate that
`ChatRequests` uses. `Leave` is the way out of `hold()`; `Hand` gives permits to
the first waiters. `Charge`, `CallSucceeds`, `CallFailsTransient`,
`CallFailsPermanent` and `Retry` are the body of a chat request; `CancelRunning`
and `CancelWaiter` cancel it at any await.

### Chat requests

`ChatRequests` is the three handlers that write chats, from the first statement of
`get_db`'s session to its commit, over `owner` and `messages` (the committed
tables). `InSession` are the stages in which a request holds its connection,
`charging` the one in which it holds two; `InGate` those in which it has a slot.

| Action | Code |
|---|---|
| `BeginCreate`, `BeginOnChat` | the routes, `get_chat_service` |
| `Connect`, `PoolTimeout` | the checkout of the session's connection |
| `CountChats`, `LoadChat` | the limits, before admission |
| `RefuseOpen`, `RefuseFull`, `Enter`, `Admit` | `admission()` |
| `OpenCharge`, `Charge` | `QuotaService.charge`, in a session of its own |
| `CallFails`, `CallSucceeds` | `ask_llm`; the answer is sent |
| `PersistChat`, `PersistMessages` | `get_db`'s commit, after the answer |
| `Delete`, `CommitDelete` | `delete_chat`; the cascade |

The breaker, the semaphore's wake-ups and the charge's locks are abstracted to
their outcomes here: `Resilience` and `Quota` are their details. `ExecutionGate` ties
the first of them down: `GateStages` maps a chat request to its stage there, and
`ImplementsGate` says that each step of the requests is one the gate may take.

### Token verification

`JwtVerifier` is `JWTVerifier.verify` on the worker threads: `Begin` and `Check`
(`_cache_key_for`, `_is_known_unknown`), `ReadKeys`, `Serve`, `Receive` and `FetchFails`
(the signing key through `PyJWKClient`: its cached key set, a fetch, a second fetch
when the key is not in the first), `Record` (`_record_unknown`). `unknown` is the
`OrderedDict` as a sequence of key ids with their deadlines, one lock section is
one step. `Serve` is the instant at which the endpoint answers, `Receive` the later
one at which the thread stores the answer, so answers may overtake each other.
`Rotate` publishes or pulls a key; `changed` remembers when, and `began` when a
fetch began, for the properties. Signature and claims are one choice (`Decode`).

### Provider read

`ProviderRead` is one `lookup_with_retry`: an attempt finds no app (`NoApp`), no
account (`NotFound`), fails on the way (`ReadFails`) or on an entry without an id
(`Malformed`), or is classified (`Classify`, with `Resolved` for `_resolve_provider`
and `VerifiedEmail` for `_verified_email`); `Retry` is tenacity with its budget.
`Change` is the owner linking, unlinking or deleting the account between attempts.
`AccountCreation` has the outcomes of each attempt as steps of the completion.

### Proofs and instances

`MCAccountCreation`, `MCQuota`, `MCResilience`, `MCChatRequests`, `MCJwtVerifier` and
`MCProviderRead` give the constants TLC's values and symmetry.
`AccountCreationProofs`, `AccountHoldersProofs` (which extends it), `QuotaProofs`,
`ResilienceProofs`, `ChatRequestsProofs`, `JwtVerifierProofs` and `ProviderReadProofs`
hold the theorems. Definitions whose comment begins with "Mutant" are alternatives to the
definition below them: each is a plausible bug, and swapping it in makes TLC report
the property it is paired with in `PROJECT.json`.

## 3. The runs

| Run | Instance | Checks | Shows |
|---|---|---|---|
| `account_faults` | 4 requests, 2 handles, 2 pairs, 1 uid, TTL 1, 2 attempts, clock to 1, 1 fault; 655 000 states | `TypeOK`, `OneAttemptPerHandle`, `ConsumeAlwaysMatches`, `CreatedIsDurable`, `LossIsTruthful`, `RejectionSpendsHandle`, `NoDuplicateAccount`, `ClaimedByItsHolder`, `ImplementsSingleUse` | races for handles and for both unique indexes, expiry, one fault anywhere |
| `account_liveness` | 4 requests, 2 handles, 1 pair | `EveryRequestAnswered`, `ClaimedIsSpent` | locks always clear |
| `account_already_linked` | 4 requests, 2 pairs, 1 uid | `AlreadyLinkedHasAccount` is violated | finding 1 |
| `quota_faults` | 3 requests, 2 grants, months of 2 ticks, clock to 2, credit 1, 1 fault; 3 330 000 states | `TypeOK`, `RefusalIsTruthful`, `ChargedGrantIsEffective`, `UsedIsCharged`, `AllowanceHoldsInOrder`, `ImplementsMeter`, `SyncReportsCharges` | charges across a revocation, a replacement and a month boundary, grants that end by the clock, lost and ambiguous commits |
| `quota_liveness` | 3 requests, 1 grant, 1 fault | `EveryRequestAnswered` | no lock outlives its session |
| `quota_month_boundary` | 3 requests, 1 grant, 2 months | `AllowanceHolds` is violated | finding 2 |
| `resilience_gate` | 4 requests, pool 2, queue 1, threshold 2, reset 1, 2 attempts, clock to 1, 1 cancellation; 252 000 states | `TypeOK`, `GateConserved`, `NoPermitWasted`, `OpenAtThreshold`, `ImplementsGate`, `OpeningNeverMoves`, `EveryRequestAnswered` | more requests than places, cancelled anywhere; late successes and failures around the reset; a queue that always moves |
| `chat_requests` | 3 requests, 3 connections, 1 permit, 1 queue place, limits 1 and 2, 1 fault; 73 000 states | `TypeOK`, `ChatsBounded`, `MessagesBounded`, `AnsweredIsKept`, `DeletedIsGone`, `ChargedIsServed`, `PoolNeverStuck`, `EveryRequestAnswered` | creates, follow-ups and deletions of one chat, in any order |
| `chat_small_pool` | the same with 2 connections and no fault; 38 000 states | `EveryRequestAnswered` | a lock-up of the pool, which only a checkout's timeout resolves |
| `jwt_verifier` | 2 threads, 2 key ids and none, 1 of them rotated, entries live 2, cache of 2, key set 1, fetches up to 1, clock to 3; 3 640 000 states | `TypeOK`, `NearestDeadlineFirst`, `PublishedIsKnown`, `PulledIsDropped` | threads that miss together, renewals and evictions, late and degraded answers, outages |
| `provider_read` | up to 2 entries of 3 provider ids, 1 uid or none, 3 attempts; 143 000 states | `OutcomeIsTruthful` | every shape of an account, changed at any moment |
| `resilience_admitted` | 3 requests, pool 1, threshold 1 | `AdmittedMeansClosed` is violated | finding 3 |

**Bounds.** A request is used once, so the number of requests bounds the behaviours.
Two handles and two pairs are what a conflict needs; two issues leave two or three
completions, which is one winner and one or two losers of every race. One fault
may fall on any step; a second one would fall on a request that no longer holds
anything. `MaxTime` is one tick past the TTL or past a month boundary. In the
gate four requests overfill two permits and one queue place; the fourth meets a full
gate or arrives after a place was given back. In `jwt_verifier` two threads are two
fetches under way; three names (the key that rotates, one that the issuer may
never have, none) overfill a cache of two, and the clock passes the deadline of an
entry made at the start as well as the bounds of both action properties.
`provider_read` has the real number of attempts, and accounts of one entry more
than is accepted. In `chat_requests` three connections are one
more than the gate's places, the least that satisfies `PoolNeverStuck`'s premise;
with limits of 1 and 2 and at most one chat at the start, three requests reach the
bounds of `ChatsBounded` and `MessagesBounded` exactly. The proofs hold without these bounds.

**Deadlock** is checked in every run; `Quiesce` lets the model stop once every
request has been answered.

**Symmetry** is used in safety runs only, over sets whose members no definition
tells apart.

**Fairness.** Weak fairness of each request's own steps and nothing else: the event
loop runs every ready coroutine, PostgreSQL grants a free lock, and each external
wait is bounded in the code (`FIREBASE_HTTP_TIMEOUT_SECONDS`, `timeout_seconds` of
the provider call, `retry_backoff_max_seconds`). No client, operator, clock or fault
is made to act in `FairSpec`. Weak fairness suffices where a lock is waited for because each
request uses a lock once and requests are finite; the code gives no promise under
an endless stream of newcomers and none is claimed. In `account_liveness` there
are no faults: after one, a claimed handle may stay claimed, which is what
`RejectionSpendsHandle` allows. In `chat_requests` the pool's timeout may fire and
is not made to: every request is answered without one. `TimeoutSpec`, in
`chat_small_pool`, makes a checkout end, with a connection or by the pool's timeout
(SQLAlchemy's default of 30 seconds); under `FairSpec` that instance would lock up.
Nothing is assumed fair in `jwt_verifier` and `provider_read`.

## 4. Findings

1. `account_already_linked`. `insert_account` answers *every* `IntegrityError`
   with `IdentityAlreadyLinked`. A pair whose provider account belongs to another
   pair is told `identity_already_linked`, although it has no identity at all,
   which is not what the class's docstring (`errors.py:337`) says.
2. `quota_month_boundary`. `evaluated_at` is captured before the wait for
   admission. A charge captured in the old month that runs after one of the new
   month takes the usage row back to the old month with a count of zero: the old
   month is charged beyond its allowance, and the next charge starts the new month
   from zero again. `AllowanceHoldsInOrder` is what does hold, and is proved.
3. `resilience_admitted`. The breaker is asked before the wait for a permit, so
   `Admitted` is minted while the breaker is open, against its docstring
   (`resilience.py:107`).

Also seen while modelling, and not a disagreement with any text: two bodies that
end at once leave a permit free until the woken waiter runs, so a newcomer may be
kept waiting, or refused if the places are full, in that window although a permit
is free: in `ExecutionGate` it comes after the one that was woken, who still waits.

`PoolNeverStuck` and the liveness of `chat_requests` have a premise: the database
pool is larger than the gate, `db.pool_size > resilience.pool_size +
resilience.queue_size`. The defaults (5, 5 and 25) do not satisfy it: five chat
requests can each hold a connection and wait for a second one to charge, until
the checkout times out. `chat_small_pool` is such a configuration: every request is
answered there, some only by the timeout. `ChatsBounded` and `MessagesBounded` are bounds of the code,
not of the configuration: concurrent requests exceed either limit by up to
`db.pool_size - 1`.

## 5. The proofs

The proof modules hold for any sets of requests, handles, pairs, users, grants,
threads and key ids, any TTL, month length, allowance, pool size, threshold, cache
size and fetch time, and any bound on time and faults, under the named assumptions
of the modules: types of the numbers, null values that are not members, and the
bounds `ResilienceConfig` validates. Two assume more. `ChatsAssumption` has finitely
many requests and chats, which are counted, and an id for every new chat: they are
UUIDs, which do not run out. `VerifierAssumption` tells a
degraded key set and the absence of one from the key sets; `FetchTime` bounds a fetch and
the recording after it (`Tick` keeps to it), which `fetch_timeout_seconds` keeps short.

- **`AccountCreationProofs`** proves `Spec => []IInv` (`Invariance`) and from it
  `TypeOK`, `OneAttemptPerHandle`, `ConsumeAlwaysMatches`, `AccountSpendsHandle` and
  `NoDuplicateAccount`. None of the last four is inductive. `TransactionsFollow` says
  what a transaction has written at each place, `ClaimsHeld` the stage of the
  claimant's row before and after its commit, `OneClaimant` that two requests never
  hold one handle, `AccountsPaidFor` ties an account to its request, and
  `KeysReserved` that an uncommitted account conflicts with nothing. The order of
  the argument: a claim needs a free row in stage "issued", and an uncommitted claim
  keeps it from being free; hence one claimant; hence nobody else consumes the row;
  hence the consume of the claimant matches and shares the account's transaction.
- **`QuotaProofs`** proves `Invariance` and from it `TypeOK`, `ChargedGrantIsEffective`,
  `RefusalIsTruthful`, `UsedIsCharged`, `AllowanceHoldsInOrder`, the action property
  `SyncReportsCharges`, and the refinement `Spec => ImplementsMeter`. `LocksFollow`
  says which locks a charge holds where, and that its grant is in force while it
  does; `RowsFollow` that the row in its session is the committed one; `MetersFollow`
  that a meter that never receded shows its latest month. The refinement follows
  because a commit writes the committed row charged once, against an active grant.
- **`AccountHoldersProofs`** adds to `IInv` what each request knows of its handle
  (`HolderInv`), and proves `ClaimedByItsHolder`, `CreatedIsDurable`, `LossIsTruthful`,
  `RejectionSpendsHandle` and the refinement `Spec => ImplementsSingleUse`. `RowsFollow`
  says that a row is bound to what its issuer was, until its subject is erased;
  `Snapshot` that an identity read long before names an account of the caller's own
  pair; `Located` that whoever passed `locate` presents a handle issued to its pair;
  `Lost` and `Told` what a claim's loser can still rely on. None could be kept alone:
  `Advances` collects what no step undoes (a row keeps its binding and its expiry and
  only moves forward, an account keeps its id and its pair), `Effect` what each step
  writes, and every part is preserved by these two. In the refinement a commit of each
  kind is one abstract action on one handle, and every other step a stutter.
- **`ResilienceProofs`** proves, from one invariant of the gate and the breaker,
  `TypeOK`, `GateConserved`, `NoPermitWasted`, `OpenAtThreshold`, `OpeningNeverMoves` and
  the refinement `Spec => ImplementsGate`. `GateInv` says that the semaphore's queue
  lists the queued requests, each once, and counts slots and permits against who is
  where; the lemmas on queues (`ListAppend`, `ListServed`, `ListWithout`) say what a
  newcomer, a wake-up and a cancellation do to such a list. Only those inside the gate
  need be finitely many, which the invariant itself says: the requests need not be.
- **`ChatRequestsProofs`** proves `TypeOK`, `ChatsBounded`, `MessagesBounded`,
  `AnsweredIsKept`, `DeletedIsGone`, `ChargedIsServed`, `PoolNeverStuck`, and
  `Spec => ImplementsGate`. The bounds are not inductive: `LimitsHold` counts with what
  is stored the requests that have passed the limit and not ended (`Passed`); each of
  them holds a connection, so a request that passes finds at most `Connections - 1`
  others. `FreshIds` says that a new chat's id is nobody else's, and `StoodAfterCreated`
  that whoever found a chat standing found it after its creator had ended: without it
  a deleted chat could come back by the late commit of its creation. `PoolNeverStuck`
  counts the connections (`Held`) against `PlacesHold`.
  For the refinement `GateInv` says that whoever was told `queue_full` has ended,
  without which a finished request could not be told apart from one that was turned
  away. `StepAtGate` sorts the steps by what they do at the gate, `SameCounts` equates
  the counts of the two modules, and `StepMaps` maps each kind of step to an action of
  the gate or to none. TLC agrees on the instance of `chat_requests`; no run repeats it.
- **`JwtVerifierProofs`** proves `TypeOK` (with the cache's size, and one entry per key
  id), `NearestDeadlineFirst`, and the action properties `PublishedIsKnown` and
  `PulledIsDropped`. The invariant is about age: `FetchesAreRecent` says that a fetch
  under way, or being recorded, began at most `FetchTime` ago; `AnswersAreRecent` that an
  answer differs from what is served only by keys that changed after it was asked for;
  hence a set put in the cache is at most `FetchTime` older than it looks
  (`CachedSetIsRecent`), and an entry for a key now served expires by its publication
  plus `FetchTime` plus `UnknownTtl` (`EntriesExpire`). The cache is handled through
  `Keeping`: `NthEnumerates` shows by a counting argument (a place's rank is an
  injection into a set of the same size) that what is kept is in order and complete.
- **`ProviderReadProofs`** proves `OutcomeIsTruthful`; a lookup that still calls has
  attempts left (`LookupGoesOn`), and `ResolvedIsAllThatIsLinked` and
  `UnresolvedIsNotUsable` say what `Resolved` accepts and rejects.

Each of these invariants was checked by TLC on the instance of the component's run
before it was proved.

**Model-checked only.** Liveness: `EveryRequestAnswered` in four modules' runs and
`ClaimedIsSpent`, whose fairness and ENABLED are beyond the prover. That the three
properties of section 4 are violated is TLC's to show as well.

## 6. What is not modelled

- *Account creation*: the `operation` column and its mismatch answer (the router
  issues `create_user` only); `IdentityUnresolvable` (a foreign key excludes it);
  freshness of handles is assumed of the CSPRNG; one issuer; e-mail addresses;
  `user_by_id` is read together with `resolve_existing`; the user, identity and
  purchase tokens of `insert_account` are one step. A collision of two purchase
  tokens (`uuid4`) is excluded.
- *Quota*: the tier lookup (a foreign key excludes `unknown_tier`), the writers of
  grants, and so a replacement of a grant inside one transaction. `UsedIsCharged` is
  an upper bound only: a lost update lowers the count, and a reset that is committed
  without its charge keeps the bound. `ImplementsMeter` excludes both.
- *Resilience*: the number in `Retry-After`, the length of a backoff. State is per
  worker process, as in the code.
- *Chats*: a request that is cut off after its charge and before the provider call
  stays charged, in the code as in the model; `ChargedIsServed` exempts it, like every
  request that met a fault. Left out: listing and reading; the language check, which ends a request before its
  first statement; the connection `get_identity` uses and gives back before the
  handler. `get_chat`'s two statements (chat, then messages) are one step. One
  caller is in the run, so another user's chat is met only as a missing one.
- *Token verification*: signature and claim checks (PyJWT's); a token whose header
  cannot be read, which ends without touching shared state; the reason put in the
  log. `PyJWKClient` is modelled from how it is called and configured here.
- *Provider read*: what makes the SDK fail, and its timeout. `AccountCreation` takes
  the account as it was at the last read; a link made after it is not looked for.
- *Start-up and shutdown* run without requests. A start that fails after
  `build_admin_apps` leaves the named app registered; the process ends with it.
- *Not planned*: logging, schemas, prompt assembly, read-only routes, deployment
  files.

## 7. Plan

Done: all modules of section 2, with instances, and proofs of every safety property
and refinement they are checked for.

1. The completion's lookup in `AccountCreation` as an abstraction of `ProviderRead`.
2. When writers of grants land: replace `Activate` and `Close` by them, a replacement
   of a grant in one transaction included (a charge that waits for the old row does
   not see the new one); then the proofs of `Quota` again.
