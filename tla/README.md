# TLA+ verification of the YMCA wellness dApp

This directory holds TLA+ models of the server in this repository, the TLC
configurations that check them, and proofs checked by TLAPS. `PROJECT.json`
maps every definition to the lines of source it stands for.

## 1. The system

A Go HTTP server (gin) in front of a PostgreSQL database and one Rubix node per
admin. Organisations ("admins") record activities and reward points for them on
smart contracts; users' rewards are paid out through the admin's node.

| Component | State it keeps | Operations | Interacts with |
|---|---|---|---|
| HTTP handlers, `internal/server/handlers.go`, `v1_aliases.go` | none of their own; each request runs in its own goroutine with the request's context | POST transfer/payout (insert a row, enqueue, 202 / 503), status, metrics, add activity, add admin, create DID, deploy/execute contract, chain queries | service, queue, database |
| Payout queue, `internal/queue/manager.go` | `queues` map (RWMutex), a bounded channel, a worker goroutine and `lastDone` per admin; interval settings | `Enqueue`, `getOrCreate`, `worker`, `waitForSpacing`, `processOne`, `Snapshot` | service, database |
| Service, `internal/service/service.go` | none | `ValidateTransferReward`, `ProcessTransferReward`, `AddActivity`, `AddAdmin`, `DeployContract`, `ExecuteContract`, `CreateDIDWithPubKey`, chain reads | database, Rubix client, config |
| Rubix client, `internal/rubix` | `Pool.clients` (RWMutex) | two-step transactions: `PostTx` (returns a request id), `Sign` (blocks until quorum signing ends); DID and contract calls | admin's node (HTTP) |
| Config and admin registry, `internal/config`, `internal/server/admins_handler.go` | `adminByDID` map (RWMutex), `admins` table, `dids/*.json` | `handleSetupAdmins`/`provisionOne`, `ReloadAdmins`, `AdminByDID` | node, database, files |
| Database, `internal/database`, `migrations/` | `transfer_status`, `activities`, `admin_contracts`, `user_admins`, `admins`, `auth_users`, `refresh_tokens` | single SQL statements, no transactions | PostgreSQL |
| Operator sessions, `internal/auth`, `auth_handler.go` | `auth_users`, `refresh_tokens` | login, refresh (rotation), logout, bootstrap user | database |
| Debug API, `internal/server/debug_handler.go` | none | payout summary, failures, history, contract heads, fork check | database, nodes |
| Process, `cmd/server/main.go` | - | start (load admins, seed operator, start server), shutdown (sleep 5 s, exit) | everything |
| WASM contracts, `contracts/`, `artifacts/` | chain state on the node | build JSON from the input | run by the node |
| Scripts, `scripts/` | - | deploy contracts, load test | HTTP API |

### What is hard in it

* **Interleaving.** Handlers race in `getOrCreate`, in `ReloadAdmins`, on the
  `activities` mirror and on refresh tokens; the insert of a row and the send of
  its job are two steps; the synchronous contract handlers use an admin's node
  next to the admin's worker.
* **Partial failure.** No operation spans the database and the node atomically:
  a transaction can be on chain while its row says `failed` or `processing`, a
  DID or contract can be minted and not recorded.
* **Time.** `Sign` blocks until the quorum is done; the HTTP client and the
  job's context give up earlier; the spacing between executions is measured at
  the client.
* **Crashes.** Channels, spacing stamps and the admin map are in memory; the
  rows survive and nothing re-enqueues them.

`PROJECT.json` lists each hazard with its line and the properties that cover it.

### What makes each component correct

* *Payout queue*: one worker per admin, FIFO, no job lost or duplicated while the
  process lives; a row's terminal state is final and a success row tells the
  truth about the chain; one execution per request; refusals are final;
  every accepted request is settled; a POST never waits for a worker or a node;
  the interval between jobs.
* *Admin registry*: every admin reported as created is persisted and usable,
  stays usable, and comes back after a restart.
* *Activities and contracts*: the mirror shows only what was executed; registered
  contracts exist on the node; a re-posted activity shows its newest execution.
* *Sessions*: a revoked token stays revoked, rotation keeps a lineage, logout
  ends every session it is meant to end.
* *Fork check*: what the report leads an operator to do is right: a classic fork
  is there and names the block to replay, a fork that is still there is reported, and
  `first_mismatch_at` and "already repaired" are of the fork they are shown with. (The
  last does not hold, see section 3.)
* *Contract heads*: every contract gets its own chain or an error, the fetches are
  bounded, a hung node delays the others by timeouts only, one client per node.

## 2. The modules and the code

```
PayoutLedger                    what a client of the payout API may rely on
   ^ implemented by             (proof: PayoutLedger_proofs)
PayoutQueue                     handlers, queue, workers, node
   ^ proofs: PayoutQueue_proofs
PayoutSpacing                   PayoutQueue with a clock
   ^ proofs: PayoutSpacing_proofs
AdminRegistry                   admin setup and the in-memory admin map
   ^ proofs: AdminRegistry_proofs
ContractOps                     the operations a request carries out itself
   ^ proofs: ContractOps_proofs
RefreshTokens                   login, refresh and logout of operators
   ^ proofs: RefreshTokens_proofs
ForkCheck                       the fork check next to payouts, forks, repairs
   ^ proofs: ForkCheck_proofs
ContractHeads                   the contract listing, its goroutines and clients
   ^ proofs: ContractHeads_proofs
```

The `MC_` modules (`MC_PayoutQueue`, `MC_PayoutSpacing`, `MC_AdminRegistry`,
`MC_ContractOps`, `MC_RefreshTokens`, `MC_OperatorAPI`) give the instances TLC checks.
Operators next to an action whose names say what a plausible slip would do (`CreateQueueUnchecked`, `SignDoesNotWait`, ...) are
variants of that action; no specification uses them. They show that each
property depends on the code being as it is.

### PayoutQueue

A *request* is one run of `handleTransferReward` (or `handleV1Payout`); its
`pc` is the stage the handler has reached, and after the answer, the answer
(202, 400, 500, 503, or lost with the process).

| Code | Model |
|---|---|
| `ValidateTransferReward`, `CreateTransferStatus`, `getOrCreate` under the read lock, `getOrCreate` under the write lock, the non-blocking `select` of `Enqueue`, the UPDATE that fails a refused row | six actions of the handler, in this order; other goroutines step in between |
| `Manager.queues`, each `adminQueue.ch`, its worker goroutine and the job in the worker's hands | `queues`, `ch`, `wpc`, `job`, `bill`; a queue object is named by the request whose handler created it, so two handlers could create two for one admin if the code let them |
| `worker`, `waitForSpacing`, `processOne`, `ProcessTransferReward` | `ReceiveJob`, `StartJob`, `MarkProcessing`, `ResolveBill`, `PostTx`, `Sign`, `SignReturns`, `SignTimesOut`, `RecordSuccess`, `RecordFailure`; the order and the error paths are the code's |
| `context.WithTimeout` of a job | `expired`: once it has ended, no statement and no call made with that context succeeds |
| `transfer_status` | `row`: status, contract hash and points. The points column is an `INTEGER`; a sum that does not fit (`MaxColumn`) makes the UPDATE fail |
| the admin's Rubix node (external) | `node`, `chain`: a posted transaction waits for `Sign`; a signing ends, committed or refused, whether or not anybody still waits |
| process exit and start | `Restart`: channels, workers and running handlers are gone, rows and node stay, nothing is enqueued again |

What a job is billed (`GetAdminContract`, `SumRewardPointsForActivities`) comes
from tables other requests change at any time: any contract and any positive
sum, or nothing to bill.

`PayoutLedger` states the same component from outside: answer, row and
executions of each request. `LedgerSpec` maps `PayoutQueue` onto it.

`PayoutSpacing` adds the clock. Each of its steps is a step of `PayoutQueue`
with a condition on the clock: the sleep of `waitForSpacing`, the HTTP client's
timeout, the job's deadline of twice that timeout. `now` stops while a timer is
due (`NoTimerIsDue`): timers and CPU steps are fast compared to the interval.

### AdminRegistry

A call of `POST /api/admins/setup` goes through its entries (`CreateDID`,
`CreateAdmin`, `WriteDIDFile`; a failed entry does not stop the loop), then
through the two halves of `ReloadAdmins`: read the table (`ListAdmins`), then
replace the map under the lock (`SwapMap`). Several calls overlap.
`Restart` is `main`: it loads the map before it serves, or exits. Announcing a
DID to the network is best effort, is never read back, and is left out.

### ContractOps

Adding an activity, appending an admin, executing and deploying a contract, and
creating a user's DID run in the request's goroutine. Each goes from a lookup
(`GetAdminContract`, for the two that need it), to the node (`PostTx`, then
`Sign`, or the single exchange of `CreateDID`) and to the statement that records the
outcome. One set of actions serves them, with `Op(k)` for what differs: the
first stage, whether anything is recorded, and which errors are returned.
A row of `activities` and an execution on chain are represented by the call
whose input they carry.

Statements and node calls may fail before or after they take effect; a context
that has ended makes every later one fail.

### RefreshTokens

A call of `/api/auth/login`, `/refresh` or `/logout` goes through the statements of
its handler one by one: `Lookup` (`GetRefreshTokenByHash`), `IssueRefresh`
(`InsertRefreshToken`), `Reread` (the new row's id), `Revoke`
(`RevokeRefreshToken`), `LoadUser`, `RevokeAll`. There is no transaction, so
refreshes of one token, retries after a lost answer and logouts step in between.
Rows are numbered in the order of their inserts; `revoked` and `replacedBy` are
the columns. A client presents a token some answer has given it; one that is not
in the table changes nothing. A token can have expired at any lookup. An access
token keeps no state: issuing it can only fail, as `LoadUser` and `Login` can.

### ForkCheck

`GET /api/debug/fork-check` is four queries and one call of the owner's node, one
step each: `ListContracts`, `LatestSuccess`, `LatestMismatch` (with
`parseMismatch`), `FirstMismatch`, `FillOwnerHead`. The world goes on between them. Rows of
`transfer_status` are numbered in the order of `created_at`; the admin's
worker takes them in any order, one at a time (`StartJob`, `EndJob`,
`RecordOutcome`), because handlers insert a row before they send its job.

A chain is the number of its blocks. The owner has `head[c]`; the quorum has the
same, or one block more if consensus completed without the owner (`ahead`), as
docs/INCIDENT-2026-09-04-chain-fork.md describes. While it is ahead every payout on that
contract ends with a "chain mismatch" that names both heads. `Repair` replays the
block on the owner. Other operations extend a chain without a row (`Grow`), and
a new contract may replace the registered one (`Deploy`).

The verdict is checked both ways and without conditions. `ClassicForkIsReal`: a report
that calls for a replay is of a fork that is there. `LiveForkIsReported`: the fork
of the newest mismatch, if it is there when the owner's head is read, is reported. What the
report says of the past, `first_mismatch_at` and the note, is not true in general: section 3.

### ContractHeads

`GET /api/debug/contracts` starts a goroutine per contract of the registry. Each goes through
`Acquire` (the semaphore), `FindClient` and `CreateClient` (the two lookups of
`Pool.ForBaseURL`), the fetch, and `Finish`, which fills the contract's place in the
answer and gives the token back. A fetch ends at the earlier of its own timeout,
which begins when the goroutine has its client, and the request's. Nodes answer, answer with an
error (`Down`) or hang (`Hung`). Time passes only while every goroutine waits
(`Tick`).

`MC_OperatorAPI` puts the endpoints of the operators side by side: `AdminRegistry`,
`ForkCheck` and `ContractHeads` share no state that they model, so a behaviour is about the
calls of one of them.

## 3. The runs

| Run | Question |
|---|---|
| `queue_faults` | every fault and a restart, two requests of one admin and one of an unknown admin: at most one worker per admin, FIFO without loss, honest success rows, at most one execution, refusals final, settled rows final, and `PayoutLedger` is implemented |
| `queue_live` | clients go away and the node may never answer: a POST is answered though no worker steps, an accepted request is settled, and a row is left open only by a client that had gone |
| `queue_deadline` | finding: a job ends with its row still open |
| `orderly` | what holds when nothing fails: `failed` means not executed, the chain in the order of the sends, executions spaced at the node; and with a second admin, whose interval is disabled, nobody waits for another admin's job |
| `spacing_jobs` | one admin under every fault: jobs are spaced, and a worker waits for its last job and not longer than the interval |
| `spacing_timeout` | finding: after a client timeout executions overlap at the node |
| `admins_race` | finding: an overlapping setup undoes another's reload |
| `ops_faults` | overlapping operations with every fault and a restart: the mirror is on chain, answered is recorded, recorded is minted, a user's first admin stays; as long as no calls overlap, the mirror shows the answered activity or a later execution |
| `ops_race` | finding: overlapping posts leave the older execution in the mirror |
| `sessions` | four calls of two operators with every fault and a restart: revocations and recorded successors are final, no token succeeds two, a 200 left the right tokens revoked, nobody's calls end another's session |
| `operator_api` | admin setups, overlapping or in turn, with every fault and a restart: reported admins are persisted, the map never runs ahead of the table, admins known at the start stay; in turn, an answered admin is usable and usable admins stay. Fork check: its verdict is right both ways, whatever happens between its queries. Contract heads: one client per node, bounded fetches, complete answers, hung nodes do not hold back the others |
| `fork_audit` | finding: a fork that is there is called already repaired |

### Bounds, and why they are enough

* *Requests.* Two requests of one admin with a channel of one job (`BufferSize`)
  reach every case of the channel: empty, full, one job held and one waiting,
  a refusal. `queue_live` adds another admin, with a worker of its own; `orderly` has a channel
  of two, so that order in the channel matters, and two admins with
  different intervals. A request of an admin the map lacks (`ru`) covers refusal by
  validation.
* *Points* 0, 1, 2 with `MaxColumn` 1: nothing to bill, fits, does not fit.
* `MaxCrashes` 1: a restart can happen at every point, and the run goes on
  with whatever survived; the theorems hold for any number.
* *Clock.* `MaxTime` 5 leaves room for a job with both timeouts and the whole
  interval of 2; the admin `a1` has an override, `a2` the default, which is
  configured as -1 (`SetMinInterval` treats it as zero). `spacing_jobs` has `a1` only, with
  every fault; both admins and their intervals are in `orderly`. The runs with a clock
  say `CHECK_DEADLOCK FALSE` because time stops at `MaxTime`; in all others `Idle`
  states when the server may stop.
* *Setups.* Two calls, up to two entries each, three DIDs: two overlapping
  reloads and a restart between any two steps. The history variable `overlapped`
  tells runs in which the calls were made in turn.
* *Calls.* Three overlapping calls are a deployment and two uses of what it deployed,
  or two creations of one DID and another call, or an abandoned call executed late
  between two answered ones. The history variable `overlapped` tells the behaviours in
  which the calls were made in turn.
  `Symmetry` permutes calls, which no definition distinguishes; the properties
  of those runs are safety properties.
* *Sessions.* Four calls are a login, two racing refreshes of its token and a
  logout or a retry; four tokens leave each of them room for its row.
* *Fork check and contract heads.* Three payouts are a success, a mismatch and one on either side of them, in
  either order; two contracts and two blocks after each first one give a fork, its repair, a
  second fork and a redeployment. `fork_audit` needs two payouts and one contract. Seven contracts on two tokens: two on one healthy
  node, whose goroutines race for its client; three on a hung node, more than a batch;
  one on a broken node and one of an unknown owner. Fetches time out after 2, the
  request after 5, more than the batches of the hung node take, as in the code (15 s and
  180 s).

### Fairness

`HandlerFairness` schedules a handler that has begun until it answers: it
never blocks (the send has a `default` branch, and a database call returns or fails).
Clients need not call. `WorkerFairness` schedules a worker's goroutine; waiting in
`Sign` is no exception because the HTTP client has a timeout (`client.go`), so
`AcceptedIsSettled` is stated for runs with the fault "timeout" and nothing is
assumed of the node. `PostIsAnswered` needs the handlers' fairness only.

### What the runs found

1. `queue_deadline` (`queue/manager.go:219`): the final UPDATE uses the job's own
   context. If that has ended, the row stays `processing` for ever, where the README says
   it becomes `failed`.
2. `spacing_timeout` (`queue/manager.go:187`): `lastDone` is the time the client
   gave up, not the time the node was done; after a timeout the next
   execution can start while the last still runs, which the interval is there to prevent.
3. `admins_race` (`config/config.go:147`): `ReloadAdmins` reads before it
   locks; of two overlapping setups the earlier read can be installed last, and an
   admin just reported as usable is not.
4. `ops_race` (`service/service.go:239`): nothing orders the upserts of
   overlapping `AddActivity` calls; the mirror can keep the older execution, from
   which payouts are then computed.
5. `fork_audit` (`server/debug_handler.go:529`): `first_mismatch_at` is documented as "when
   the fork happened", null if it is "already repaired". The query compares `created_at`,
   but rows are executed in the order of the sends. In the run the row created first is
   executed last: the other one succeeds, the owner misses a block, and the first
   records the mismatch. It is older than the success, so the report calls a fork repaired
   that is there, beside `forked: true`. The other half fails as well: if a fork is repaired
   and another follows before any success, `first_mismatch_at` is of the first and the
   heads are of the second.

Without the cause the promise holds: the theorem `EndedSettled` proves it for the first
and `NodeIsSpaced` for the second (section 4); `queue_live` leaves no accepted row open that
nobody works on, `orderly` spaces executions at the node, `operator_api` and `ops_faults` check that calls
made in turn keep the newest admins and the newest execution. Of the fifth, the verdict itself is right: `forked`
and the heads are what `ClassicForkIsReal` and `LiveForkIsReported` are about.

Worth knowing, though no property is about it:

* after a repair and further successes the fork check reports `forked: true` together with
  "already repaired", because the owner's head has moved on from the one in the
  mismatch; the documents compare the two heads in the same way;
* an answer of the node without a chain gives an empty head, and `forked: true`;
* a request refused with 503 whose client has gone, or whose INSERT was applied but answered
  500, stays `queued`: `LeftOpenByClient` names these rows, `OpenRowHasOwner` says that there
  are no others while the process lives and the jobs' statements succeed;
* `AnsweredIsOver` is about the tokens a user had when a logout of all began. A refresh that
  overlaps it has read its token before and may insert a new one after: that one is
  live. The same holds of the revocation after a reused token
  (docs/v1-api-reference.md:73).

## 4. What is proved

The proofs assume the named `ASSUME`s of the modules and nothing else, except where a
theorem names the faults it excludes: any number of requests, admins, calls and restarts, any buffer, any set of faults.
The node appears only as the actions the modules give it.

* **PayoutQueue_proofs**: `TypeCorrect`, `Serial`, `Success`, `ExecutedOnce`,
  `Refused`, `SettledStays`, `FirstInFirstOut`.
  The properties are not inductive. `Ownership` says that every worker, every
  handler past the lookup and every channel agrees with `Manager.queues`; the
  second lookup under the write lock is what preserves it, and `Serial` follows.
  `Lifecycle` says what is known of a request by where it is: a waiting job
  was accepted, is `queued`, is unknown to the node, is waiting once and held by
  nobody; a held job's node state follows its worker's stage; a handler before its
  answer has not been executed; the chain is exactly what the node
  committed, once each. The last is what makes late commits harmless.
  `SettledStays` follows because only the holder of a job writes its row, and ends with it. `FirstInFirstOut`
  needs `InOrder`: every step keeps an admin's jobs in flight, appends one to them, or drops the first
  (`Flow`).

  Four theorems assume that some faults do not happen and allow the others:
  `EndedSettled` that a job's context does not end before it, its statements succeed and
  points fit the column (`JobsCanWrite`), `FailedIsOffChain` that neither a call nor a job times out (`NoTimeouts`), `OpenHasOwner`
  `JobsCanWrite` and that the process lives
  (`StatementsSucceed`), `ChainFollowsSends` that the process lives and no call of the node
  is given up (`CallsEnd`). `SendOrder` is the invariant of the last: the node signs only the
  job in the worker's hands, and that is the next of those sent.

  `BoundedWait` and `Advance` are the part of `AcceptedIsSettled` that needs no fairness, so
  that part holds for every value of the constants. A job in the channel
  or in hand is at most 8 * (`BufferSize` + 1) steps of its worker from its end; nothing but a
  restart puts it back, and each step of the worker brings it closer. What is left to
  fairness is that the worker keeps making steps.
* **PayoutLedger_proofs**: `Implements`, that `PayoutQueue` implements `PayoutLedger` under
  every fault. Under `Queue`, the queue's invariant together with the fact that only a
  success row reports a contract and points, each action is one of the ledger's or is not seen by clients. The hard cases are commits after
  the client gave up, and the restart that loses several answers at once.
* **PayoutSpacing_proofs**: `Untimed`, `TimedTypes`, `OwnWait`, `Spaced`, `NodeIsSpaced`.
  `Untimed` says that a clock adds no behaviour to the queue: what is proved of
  `PayoutQueue` holds here. `LastDoneIsEnd` says that a worker's
  `lastDone` is the end of its admin's last job, which rests on `Ownership`: a second worker
  would start with a `lastDone` of its own. `SleepIsForInterval` says that a sleep
  ends when the interval after that job does, not before. `NodeIsSpaced` is the node's side, under
  `CallsEnd`: the node signs only while a worker waits for it, so it is done before the
  job ends and the interval after the job is one after the execution too (`Pace`).
  Without `CallsEnd` it is false, as `spacing_timeout` shows.
* **AdminRegistry_proofs**: `Reported`, `MapPersisted`, `BootAdmins`, and, as
  long as calls do not overlap, `AnsweredInTurn` and `UsableInTurn`. `Registry`
  adds what a call has in hand between steps: a DID that exists, a snapshot that
  contains what the process started with. `InTurn` adds that at most one call
  runs and its snapshot contains the map.
* **ContractOps_proofs**: `Mirror`, `Recorded`, `Answered`, `FirstAdmin`, and for
  calls in turn `LastAnsweredInTurn`. `Operations` chains the three places a call's fate
  is kept: the stage of the call, of its transaction, and what a
  transaction that is done has left on the node. `InTurn` adds that a running
  call, once executed, was executed after every answered activity.

* **RefreshTokens_proofs**: `RevocationIsFinal`, `Lineage`, `Origin`, `Over`,
  `Owner`. What a statement writes depends on what the call read before, which
  may be stale, so `Sessions` adds `CallsProgress` (what is still true of a
  call's token, user and new row at each stage), `FreshIsOwn` (a row is one
  call's) and `SuccessorIsFresh` (a recorded successor was issued by the refresh
  that presented the token). The lemmas `History` and `Writes` say once what a
  step keeps and what it adds; every conjunct follows from them.

* **ForkCheck_proofs**: `ClassicFork`, `LiveFork`.
  Rows change while the report is put together, so the argument is about what rows
  can still become: `Outcome` of a row is its own, or that of the job in the
  worker's hands. `RowsAreBehindHeads` says that an outcome names a
  block the owner has, or, for a mismatch, that it has exactly the
  head named and the fork is there, or has gone beyond it. `ReportIsOfRows` says what
  remains true of the mismatch the report is about: a settled row never changes. A head that
  equals the one expected is then that of a fork that is there, and the head of a fork that is
  still there equals it.
* **ContractHeads_proofs**: `OneClient`, `Bounded`, `Complete`, `NotPinned`, `Healthy`. `TokensAreHeld`
  counts the goroutines between acquire and release, `ClientsAreShared` is what
  the second lookup under the write lock preserves, `DoneIsShown` says what a goroutine that is
  done has left.

  The last two are about time. `Waiting` says that hung calls end in batches: the clock only passes
  while nothing else can move, so tokens held then are all held by hung calls, and all
  of them began when the batch before ended. At the end of batch b, b * `Parallel` hung
  contracts are over unless the handler's timeout came first. Time passes
  only while a hung contract is left, which bounds the number of batches and with it the wait
  (`NotPinned`); a healthy contract fails only when the handler's timeout
  comes, and then as many full batches have passed as fit into it (`Healthy`). `Scaling`
  and `Quotient` are the arithmetic of the products and of `\div`.

Each module's type invariant is a theorem (`TypeCorrect`, `Types`, `TimedTypes`).

### Only model-checked

Liveness (`AcceptedIsSettled`, `PostIsAnswered`) is out of the prover's reach;
`BoundedWait` and `Advance` prove what it rests on. Every invariant and action property
that a passing run checks is also a theorem.

## 5. Not modelled

* Reads and reports (`Snapshot`, chain queries, transaction history, FT lists, SQL
  reports): they change nothing.
* JSON shapes, routing, environment parsing, logging.
* Token signing and password hashing; creating operators and seeding the first one, one
  INSERT each, before any session of theirs.
* Payout summary, failures and history of the debug API: one SELECT each.
* The WASM contracts are stateless translations of an input to a JSON block; the
  node and its chain are external and modelled from how the client uses them.
* A node answer without a transaction id is still a success and leaves
  `activities.transaction_id` empty; ids are not part of the model.
* Subscribing to a contract and announcing a DID are best effort and leave no
  state that the server reads.

## 6. Plan

Done, in this order: `PayoutLedger` and `PayoutQueue`, with proofs, because payouts are
what the server is for; `PayoutSpacing`; `AdminRegistry`, whose map decides
which requests are accepted; `ContractOps`, whose tables payouts are computed from;
`RefreshTokens`; `ForkCheck` and `ContractHeads`, whose reports operators act on;
the refinement, the spacing of jobs and of executions, and the waits of the debug API as
theorems.

Next:

1. *Composition* of payouts with `ContractOps`: bills read from `admin_contracts`
   and `activities`, and the admin's node shared by the worker and the synchronous
   calls. Question: which executions of one admin's key can overlap, and
   whether a payout is billed from rows that are on chain.
