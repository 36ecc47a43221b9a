# Verification of the DeOpt v2 backend

TLA+ modules, TLC configurations and TLAPS proofs about the DeOpt v2 trading
backend (`src/`, Rust).  The project models the parts of the backend in which
several actors touch the same persistent state and mistakes cost money:

* the **preparation** of Hybrid V2 executions (nonce, simulation, signature, and
  the lock that keeps it apart from the operations on the projection);
* the **broadcast** of signed Hybrid V2 executions (persist, send, observe,
  confirm, recover);
* the **order path** of the perp book (matching engine, order service, market
  maker sessions);
* the **perp broadcast runtime** of the first generation (executor, reconciler,
  routes, operator commands);
* the **perp index** (indexer, reconciliation, confirmation, fees);
* **option orders** with their reservation ledger, and **option execution**
  (broadcast and confirmation of option trades).

Paths in this file are relative to `src/`, the root of the repository.

## 1. Inventory

State, operations, hard behaviours and correctness of each part.

| part | state | operations | what is hard about it | what makes it correct |
|---|---|---|---|---|
| execution orchestrator `src/hybrid_v2/execution/orchestrator.rs`, `state.rs`, `nonce.rs`, `signer_firewall.rs` | `hybrid_v2_execution_requests`, `hybrid_v2_executor_nonces` | `prepare`, `resume`; admin `cancel` (retry always answers 409 and changes nothing) | one call makes a dozen awaits, handlers are dropped when the client hangs up, cancel takes no lock, `fail_from` walks through other phases | a nonce belongs to one execution; one signature per execution, of a simulated plan; cancel and sign exclude each other |
| operation lock `src/hybrid_v2/persistence.rs` | one row per deployment in `hybrid_v2_operation_locks` | acquire (cleanup, then insert), release | two statements, cleanup of other people's locks, holders that die | one holder at a time; nobody waits for a dead one |
| reorg recovery, rebuild, reconciliation worker `src/hybrid_v2/{reorg_recovery,rebuild_operations,reconciliation_worker,worker}.rs` | one recovery row, rebuild rows by epoch, reconciliation results | `recover`, `rebuild_from_journal`, `reconstruct_from_chain`, `tick_once` | crash between any two upserts, epochs taken up again | an operation that was started ends; exclusion by the lock |
| broadcast outbox `src/hybrid_v2/execution/broadcast_outbox.rs`, `broadcast_firewall.rs`, `broadcast_rpc.rs` | `hybrid_v2_broadcast_state` | `submit`, `resume`, `resend_same_bytes`, admin routes | a send that times out may have been accepted; requests race; crash around the send | persist before send; submit hands over at most once |
| confirmation worker `broadcast_worker.rs`, `broadcast_indexer_correlation.rs` | the same rows | `tick`, recheck, `maybe_finalize` | chain moves between two RPC calls; rows in a phase nobody lists | a receipt names a real inclusion; a confirmation rests on a buried one; waiting rows settle |
| broadcast reorg recovery `broadcast_reorg_recovery.rs`, `broadcast_nonce_policy.rs` | the same rows | `recover` | as above | as above |
| projection indexer `src/hybrid_v2/{runtime,reducer,decoder,correlation}.rs` | journal of raw logs, projection rows, cursor | `tick_and_persist`, recovery transaction, rebuild | crash between journal and cursor, reorganisations | the projection is the fold of the canonical journal |
| order book and engine `src/orderbook`, `src/engine` | price levels, orders, locations, execution queue, in memory | submit (post-only, self-trade, IOC), cancel, match | several views of one book, partial fills over several levels | views agree, never crossed, price-time priority, sizes conserved |
| order service `src/orders`, `src/signing/nonce.rs` | nonce stores, `used_nonces`, `orders`, `execution_intents` | `submit_signed_order`, `cancel_order`, `cancel_resting_orders` | the engine has acted before the transaction commits or fails | rows never run ahead of the engine; a signed order is taken once |
| MM gateway `src/mm` | sessions with client ids, quotes | auth, submit, bulk, cancel, quote replace, disconnect | sessions of one account race; cancel on disconnect works from what the session remembers | no order survives its session |
| perp broadcast `src/execution/{broadcast_policy,broadcast_runtime,broadcast_reconciler,rpc}.rs` | `execution_intents`, `execution_intent_broadcasts`, `execution_transactions` | executor loop, reconciler loop, start-up, cosign, simulate and broadcast routes, retire command | crash around the send, lost replies, two tasks on one row, operator in between | one envelope per intent and per nonce; bounded retries; Confirmed was settled; what is mined is finalised |
| perp index `src/indexer`, `src/reconciliation`, `src/confirmation`, parts of `src/api/routes.rs` and `src/fees` | `indexer_cursors`, `indexed_perp_trades`, `execution_reconciliations`, confirmation columns, fee ledgers | indexer loop and tick, reconciliation tick, confirm one and all | reorganisation between the reads of one tick, overlapping ticks, confirmation cut short | exact batches, one match per intent, fees of a Confirmed trade stored, volume once |
| option orders `src/options/{service,store,reservation_repository}.rs`, `src/db/repository.rs` | `option_orders`, `option_fills`, `option_reservations`, intents with correlations | submit and match, cancel, expiry sweep | READ COMMITTED with FOR UPDATE, holds resized by hash and status, several transactions per submission | fills conserved, ledger follows the book, priority |
| option execution `src/options/{service,confirmation_worker,correlation_repository}.rs` | `option_execution_intents`, `option_execution_transactions`, `option_execution_correlations` | submit signatures, broadcast, confirmation worker, confirm by hand | no lock between calls, worker and operator; unconditional status writes | handed over under the bound hash only; final means permanent |
| conditional and multi-leg option orders, option event indexer | their own tables | claim, trigger, recover; reducer | claims stuck in between | not modelled |
| RFQ `src/rfq` | requests and quotes | create, quote, accept, expire | accept races expiry and another accept | not modelled |
| perps `src/perps` | read models, funding, liquidation, impact mid | services, keepers | stale prices | not modelled |
| fees `src/fees` | ledger, tier snapshots, Merkle artifacts | consumers, snapshot, publication | duplicate events | every event once (the consumer of confirmations is modelled) |
| subaccounts, risk, auth, signing | ownership rows, challenges | verify, consume | replays | not modelled |
| http api, public websocket, admin, monitoring, config, db | none of their own | parse, render, fan out, SQL | slow consumers | - |

Interactions: market maker sessions call the order service, which runs the
engine and stores orders and execution intents; the perp runtime turns intents
into transactions; the perp index follows the chain and confirms them.  The
option service matches inside Postgres, writes reservations and execution
intents, and broadcasts those.  The Hybrid V2 orchestrator prepares executions
under the operation lock; the outbox broadcasts what the orchestrator signed;
worker and recovery observe the node; the Hybrid V2 indexer follows the same
chain and its matched rows are a precondition of `Confirmed`; recovery, rebuild
and reconciliation of the projection contend with the orchestrator for the lock.
All of it meets only in the database and at the node, so any two statements of
two actors can interleave.

`PROJECT.json` lists every component with its status and every hazard with its
line and the properties that would catch it going wrong.

## 2. Modules

```
ExecutionPhase <- ExecutionStore <- ExecutionOrchestrator <- ProjectionOperations
                                         <- DeploymentOperations <- MCDeploymentOperations
BroadcastPhase <- BroadcastStore <- BroadcastChain <- BroadcastTask
              <- BroadcastOutbox, BroadcastWorker <- BroadcastPipeline <- MCBroadcastPipeline
HandOffProtocol  (what BroadcastPipeline implements)
BroadcastProofs  (theorems about BroadcastPipeline)
NumberFacts <- DeploymentProofs, PerpBroadcastProofs, PerpIndexProofs, OptionExecutionProofs,
               GatewayProofs (MmGateway), OptionOrderProofs (OptionOrders)
                 (theorems about the module of that name)
OrderBook <- OrderService <- MmGateway <- MCMmGateway
PerpBroadcastStore <- PerpExecutorChain <- PerpBroadcast <- MCPerpBroadcast
PerpIndexStore <- PerpIndex <- MCPerpIndex
OptionMatching <- OptionOrders <- MCOptionOrders
OptionExecutionStore <- OptionExecutorChain <- OptionExecution <- MCOptionExecution
```

In every part one action is the code between two awaits (or between two
acquisitions of a mutex), and one store operator is one SQL statement or
transaction.  Where two awaits are merged the module says why nothing is lost.

### Preparation

* `ExecutionPhase` - the phases and the legal-edge matrix of `state.rs`.
* `ExecutionStore` - the five tables and one operator per SQL statement:
  `InsertExecutionRequest`, `UpdateExecutionPhase` (matrix, compare-and-set on
  the phase, COALESCE patch), `ReserveExecutorNonce`, `CleanupLock`,
  `InsertLock`, `ReleaseOperationLock`.  The tables keep the columns that decide
  something: a payload or a signature is the nonce it commits to, and all
  phases of a recovery or rebuild under way are `Active`.
* `ExecutionOrchestrator` - `drive` and `drive_locked`.  `drive[d]` is a call in
  progress with the await it is at (`pc`), the phase it believes its row to be
  in (`at`), its lock epoch and its candidate nonce.  One action per await.  The
  answers of node, simulator, gas policy, firewall and signer are free choices.
  `asked[e]` is a history of what the signer was asked for.  `StoreError` ends a
  call as the `?` operators do, `Abandon` is a crash or a dropped handler,
  `CancelExecution` the admin route.
* `ProjectionOperations` - recovery, rebuild and reconciliation as holders of
  the lock and writers of their state rows, one action per store call.  What
  they compute is left out.
* `DeploymentOperations` - the composition and its properties.

### Broadcast

* `BroadcastPhase`, `BroadcastStore` - phases, matrix and the statements on
  `hybrid_v2_broadcast_state`.
* `BroadcastChain` - the environment: one node with mempool, chain, late
  deliveries (`wire`), reorganisations, the answers of
  `eth_sendRawTransaction`; the indexer's applied head and matched rows; the
  clock.  External, modelled from how `broadcast_rpc.rs` and
  `broadcast_indexer_correlation.rs` use it.
* `BroadcastTask` - a task (HTTP handler or worker), its locals and the
  compare-and-set with which most of them end.
* `BroadcastOutbox` - `submit`, `resume`, `resend_same_bytes` and the admin
  requests that reach them, one action per await; `handed[e]` counts the
  hand-offs to the RPC.
* `BroadcastWorker` - `tick`, recheck, `maybe_finalize`, `recover`.  A task that
  finalises remembers on which fork the header was found canonical (`basis`, a
  history), because the code does not ask again.
* `BroadcastPipeline` - composition, fairness, properties.
* `HandOffProtocol` - the abstract specification: open, claimed, sent, closed.

Preparation and broadcast meet at the rows of executions in
`SignatureVerified`, `ReadyForBroadcast` and `BroadcastDisabled`:
`PreparedIsSigned` is what the second part assumes of the first (its initial
state), and `OrchestratorAdvance` in `BroadcastOutbox` is the tail of
`drive_locked` seen from there.

### Order path

* `OrderBook` - `book.rs`, `price_level.rs`, `matching.rs` as operators on a
  record of levels, orders and locations.  Matching folds `MatchOne` over at most
  as many steps as there are resting orders; self-trade, post-only and IOC are
  decided as in `engine/state.rs`.
* `OrderService` - a call reserves the nonce, runs the engine under its mutex
  and persists what the engine did; with a repository the nonce row is part of
  the same transaction; the orders of one cancel call leave the book one after the
  other (`CancelEach`).  Persist and commit are one step (two concurrent
  transactions share at most one order row).  `failed` is a history of orders
  whose call returned an error after the engine took them.
* `MmGateway` - the sessions.  They are the only callers: the HTTP order routes
  answer `PerpsNotLive` (`src/api/routes.rs:7297`, `:7351`).  `DisconnectCancels`
  excuses an order under a client id of which another order, of any account, has
  been cancelled: the session keeps client ids without their account.  Rate limits,
  permissions and heartbeats only refuse messages and are left out.

### Perp broadcast runtime

* `PerpBroadcastStore` - intent status, envelopes, operator transactions; an
  envelope is `[intent, nonce]` because fees and gas come from the configuration
  and the local signer is deterministic.  A remote (KMS) signer need not be: it
  may give two byte strings for one `[intent, nonce]`.  No property depends on
  it, because the bytes are stored before they are sent and what is stored is
  what is sent (perps), and a second hash is refused by the bound correlation
  like another nonce (options).
* `PerpExecutorChain` - the account's pool, blocks, forks and receipts.
* `PerpBroadcast` - the executor (`execute_pending_batch`, `broadcast_intent`),
  the reconciler, start-up with its initial pass, routes and the retire command.
  `ReconRow` merges reading the row with reading its receipt; the armed intent is
  configuration and is chosen anew at every start.  The dry-run executor is left
  out: `main.rs` spawns it only when the broadcast runtime is not running.

### Perp index

* `PerpIndexStore` - chain, cursor, events, links, confirmation and fee tables.
  A block's hash is its height and the number of forks before it, so a replaced
  block never comes back.  An intent is named by its transaction.  A trade is of
  V1, of V2, or of V1 with buyer and seller the same account: fee events are
  keyed by payer, so the second role of such a trade finds the first one's row.
* `PerpIndex` - the indexer loop and the HTTP requests as processes that may end
  at any await.  `FEES_ENABLED` is read by every confirmation anew (`FeePaths`):
  it is configuration and may differ after a restart; `feeless` remembers the
  intents confirmed without fees, `lost` the fee events whose confirmation was
  cut short before their volume.

### Options

* `OptionMatching` - the pure matcher: candidates, ranking, plan (one `Take` per
  candidate), time in force.
* `OptionOrders` - submission in four steps (created_at, locking read, match and
  commit, intents), cancel, expiry.  Under READ COMMITTED the `SELECT ... FOR
  UPDATE` returns the current version of every row of its snapshot that is still
  live; an order committed later is not seen.  A hold is its quantity, a pending
  row is the fill and the side it belongs to; the seller's row is dropped when its
  key (execution, account, token) is the buyer's, which it is when an account
  trades with itself and both sides post the same token, as in a put series.
* `OptionExecutionStore`, `OptionExecutorChain` - the rows of an option
  execution and the executor's account; reorganisations spare blocks that ever
  had `finality_blocks` on them, which is what the worker's finality means.
* `OptionExecution` - concurrent broadcast calls, repeated signatures, the
  confirmation worker and the operator's confirmation.  What the broadcast policy
  decides from (limits, gas, balance, data provider) is a free choice, and so is
  whether a signature submission saw both signatures.  The event reducer and
  the settlement and orphan wrappers have no production caller and are left out.

## 3. Runs

All bounds are CONSTANTS in the `.cfg` files.  Deadlock is not checked: the
bounds of clock, chain, faults and requests stop every behaviour, and a system
whose rows are all terminal has nothing left to do.

| run | checks | instance and why it is enough |
|---|---|---|
| `submission` | `TypeOK`, `PersistBeforeSend`, `AtMostOneHandOff`, `ObservedMeansHanded`, refinement `ImplementsHandOff` | one execution, two requests and the worker, crash at every await. The properties are per execution and executions share no row; two requests are the smallest race, and the theorems lift all five to any number |
| `resend` | `AttemptsAreHandOffs` | two requests that may resend, one HTTP retry, a provider that answers with foreign hashes |
| `reorg` | `ReceiptNamesInclusion`, `ConfirmedWasBuried` | chain of height 3, two reorganisations, confirmation depth 1, from a submitted row: every order of mined, reorged, re-mined, confirmed against two observers, a fork between the header and the height included |
| `settling` | `WaitingRowsSettle` (liveness) | one request and the worker, crashes, RPC errors, evictions. One row: the limit of the tick's list (ORDER BY updated_at) never binds, and starvation by it is not examined |
| `preparation` | `NonceIsOwned`, `SignedAtMostOnce`, `CancelledIsUnsigned`, `PreparedIsSigned`, `ArtifactsAreWrittenOnce` | two executions, two calls at a time, three nonces, three lock acquisitions, cancel, resume, crash, failing store: a call can be overtaken by a cancellation, lose its lock to the second call and collide with it on a nonce |
| `operations` | `LiveDriveHoldsLock`, `ReconciliationKeepsLock` | two calls on two executions, a recovery, a rebuild, reconciliation, everything may stop anywhere, and two of them may read the same millisecond (`same_ms`): the finished execution of one call can stand for the lock of the other. State constraints: two calls or operations in progress at a time, and executions up to their simulation (what follows it does not touch the lock and is in `preparation`) |
| `orders` | `BookNotCrossed`, `LevelsAndLocationsAgree`, `FillsAreConserved`, `StoredRowsNeverAhead`, `DisconnectCancels`, `SignedOrderOnce`, `PriceTimePriority` | two sessions, two accounts, six signed orders around one price (GTC, post-only, IOC, a quote), any three messages, one failure or restart: enough for a partial fill over two levels, a reused client id, and a signed order sent again after a rollback |
| `perp_broadcast` | `HandedIsRecorded`, `NoRivalEnvelopes`, `RetryIsBounded`, `ConfirmedWasSettled`, `RowsNeverRegress` | two intents (one not cosigned yet), two starts, one request, one fault (lost reply, refusal, eviction, fork), one retry: the second start re-arms the process with the other intent |
| `perp_settling` | `MinedIsFinalized` (liveness) | two intents, a batch of one, two starts (a crash cuts a pass short anywhere): the LIMIT of `list_unfinalized_broadcasts` binds, and the older row may never get a receipt. Faults of single calls are in `perp_broadcast` |
| `perp_index` | `OneMatchPerIntent`, `ConfirmedIsAccounted`, `VolumeCountedOnce`, `BatchIsExact` | one transaction (rows are keyed by transaction) of any origin, height 2, one fork, the loop and two requests of which two processes run at a time, one process that ends early, fees on or off at each confirmation: the transaction can be re-mined while a tick or a confirmation is under way, and a confirmation can be cut short between the fee and the volume |
| `option_orders` | `FillsConserved`, `LedgerFollowsBook`, `CrossedOnlyByOverlap`, `PriorityKept` | six orders of a put series of which any three are submitted, in overlapping transactions, with cancel, expiry and two faults: two takers on one maker, two makers at one price, two partial fills of one order, a maker that appears after the snapshot, a trade of an account with itself |
| `option_execution` | `HandedIsBound`, `FinalIsPermanent`, `ConfirmedSucceeded` | an order-book trade and an RFQ trade on one account, two broadcast calls, two signature submissions, worker and one operator confirmation, height 2, finality 1, one fault: a call can sign a second transaction, lose its nonce to the other intent, or overlap a reorganisation with a confirmation pass |

The interesting cases do happen: every action of the composed next-state
relations fires in one of the runs, and each property has a mutant of the code
(dropped compare-and-set, missing WHERE, late phase change, snapshot instead of
locked rows, ...) that violates it in the same instance.  `TypeOK` is checked for
`BroadcastPipeline`; the `TypeOK` of the other modules documents the types of
the variables and holds in the same instances (add it to the `.cfg` to see it).

Symmetry: two requests of `BroadcastPipeline`, two sessions, two requests of
`PerpIndex`, two calls of `OptionExecution` are interchangeable; no liveness run
declares a symmetry.

## 4. Fairness

`BroadcastPipeline!Fairness`: `main.rs` spawns the worker with
`spawn_supervised`, which ticks until it is cancelled and ignores the error of a
tick; so ticks and the worker's steps recur while the process lives.  It does not
restart the task after a panic: a crash of the model is the restart of the
process by whatever supervises it, and a worker that panicked inside a process
that goes on is not covered.  The steps are strongly fair because an RPC error or
a crash sends the task back to the start, and a call that is retried for ever
does not fail every time.  `Leave` and `Advance` are weakly fair: a mempool does not
keep a transaction for ever, the clock and the indexer move.  No fairness is
assumed of requests.

`PerpBroadcast!FairSpec`: the reconciler loop of the single process is spawned
at start-up and never ends while the process lives, so its next step is weakly
fair.  Nothing is assumed of the executor, the routes or the process itself:
`MinedIsFinalized` speaks about behaviours in which the process stays up, the
receipt stays available and fewer than `BatchSize` older rows stay without one,
and says that the reconciler then finalises the row.

`DeploymentOperations!FairSpec` and `MCBroadcastPipeline!FairSpecOperated` serve
two of the statements of section 6: the indexer worker calls `recover` at
start-up and on every tick while a recovery is pending (`worker.rs:151`, `:274`,
`:349`) and does not stop in the middle for ever and ever; an operator keeps
asking.

## 5. Proofs

Checked by TLAPS for every value of the constants.  Assumptions: the named
`ASSUME`s of the modules (bounds are naturals, tables are finite where a row is
ranked, `None` is no row, receipt, transaction, ..., what clients send is made of
signed orders, prices and sizes are positive), which TLC evaluates in the
runs, and the hypothesis on `Events` stated in two theorems (below).  Each
inductive invariant (its unbounded types aside) was checked by TLC in the configuration of its
component.  What an invariant adds to the properties is always what a task still
knows after its last await while everything else was free to move.

**`BroadcastProofs`**, first part (`TypeCorrect`, `PersistBeforeSendCorrect`).
`Inv == TypeOK /\ TasksFit /\ RowsFit /\ HandedFit`.  `PersistBeforeSend` alone is
not inductive: a task that is about to send relies on a hash that it or another
task wrote earlier, on the phase it compared with, and on its locals.  `TasksFit`
says what the locals of a task at each await guarantee about the row, in a form
that no other task's step can destroy (`FitSurvives`: a hash is never exchanged, a
row that left the unsent phases never returns, `LeftIsForGood`).  `StepKinds` sorts
the actions into those that move a task and the few that write rows or hand over.

Second part (`AtMostOneHandOffCorrect`, `HandOffRefinement`).  Adds that a claimant
is the only one and has not handed over yet (`OneInv`); the refinement maps a row and its tasks to open, claimed, sent or closed (`HandOffStatus`).
Hypothesis: no `resend`, because `resend_same_bytes` hands the same bytes over
again on purpose.

Third part (`ObservedMeansHandedCorrect`, `AttemptsAreHandOffsCorrect`,
`ReceiptNamesInclusionCorrect`, `ConfirmedWasBuriedCorrect`).  A claim on a row comes from the chain through
a task that read chain and row at different awaits, so `Evidence` states the same
thing of everything on the way: the chain's books (`ChainKnown`), the receipt a
task was given, the row it read, the update it plans (`TaskKnown`), the row
(`RowKnown`).  All of it is monotone - hand-offs, inclusions and the height only
grow (`Later`) - so it survives any reorganisation, although canonicality does not.
`AttemptsAreHandOffs` needs that an unsent row counts no attempt and that a resend
has caught up with the count it read by the time it is classified.
`ConfirmedWasBuried` is an action property: what a finalising task found
canonical stays so while the fork number stands (`basis`), the height is the one
of the write, and only a row that was reorganised before can carry a status that
`recover` made up.  What maybe_finalize's comment says is more and is false
(`ConfirmedIsFinal`, section 6).

**`DeploymentProofs`** (`TypeCorrect`, `NonceIsOwnedCorrect`,
`SignedAtMostOnceCorrect`, `CancelledIsUnsignedCorrect`, `PreparedIsSignedCorrect`,
`ArtifactsAreWrittenOnceCorrect`, `LiveDriveHoldsLockCorrect`,
`ReconciliationKeepsLockCorrect`).
`Inv == TypeOK /\ RowsFit /\ CallsFit /\ OneSigner /\ OpsFit` ties each call's await
to the phase and artifacts of its row and to what the signer was asked; the one
call that won the compare-and-set into Signing is alone with a row that no other
call, and no cancellation, can move (`OneSigner`).  `ArtifactsAreWrittenOnce` is an
action property: the COALESCE of the update would exchange an artifact, the phases
keep it from happening.  The two theorems about the lock add `LockInv`, which says
whose epoch the lock row and the clock can carry: of several calls with one epoch
the lock is held, or the execution of one of them is finished, which is what the
cleanup looks for (`FinishedUnder`).  No hypothesis on the clock is needed; that
the exception does happen is `LiveLockIsNeverStolen` in section 6.

**`PerpBroadcastProofs`** (`TypeCorrect`, `HandedIsRecordedCorrect`,
`NoRivalEnvelopesCorrect`, `RetryIsBoundedCorrect`, `ConfirmedWasSettledCorrect`,
`RowsNeverRegressCorrect`).  `Inv` adds the unique keys and the insertion order of
the rows (`RowsFit`), that executor and reconciler work on the envelope of the row
they read (`ExecFits`, `ReconFits`), that a mined envelope was handed over
(`MinedIsSeen`) and how far sends may run behind attempts at each await
(`SendsFit`).  The last theorem is an action property.

**`PerpIndexProofs`** (`TypeCorrect`, `OneMatchPerIntentCorrect`,
`ConfirmedIsAccountedCorrect`, `VolumeCountedOnceCorrect`, `BatchIsExactCorrect`).
The heart is `ReadsFit`: a hash a tick holds can only name the block it was read
from, and the logs it holds are those of the chain if its last block still is;
with it the second read of the hash makes the batch exact (an action property).
`MatchesFit` joins the stored links with the verdicts still to be written, because
the check for an earlier match and the insert are two statements; `ConfirmsFit` and
`VolumeFits` carry what a confirmation has read and booked across its awaits, the
latter that a fee event without volume is owed by exactly one confirmation or lost.

**`OptionExecutionProofs`** (`HandedIsBoundCorrect`, `FinalIsPermanentCorrect`,
`ConfirmedSucceededCorrect`).  `MinedFits` says that later nonces are in later
blocks, `CallsFit` that what a call is about to send is bound, `PassesFit` that a
confirmer's decision was grounded when it was made and that the ground is out of
reach of every later reorganisation, `FinalFits` the same of what it wrote.

**`GatewayProofs`** (`Invariant`, `BookNotCrossedCorrect`,
`LevelsAndLocationsAgreeCorrect`, `FillsAreConservedCorrect`,
`StoredRowsNeverAheadCorrect`, `SignedOrderOnceCorrect`, `DisconnectCancelsCorrect`,
`PriceTimePriorityCorrect`).  For any number of sessions, accounts, signed orders,
messages and faults, and books of any size.

The first half is about the book alone.  `Book(b, n, open)` says that the levels
hold each resting order once and in arrival order (ids increase with arrival), that
locations and levels agree, that an order in no level is done unless it is the
taker under way (`open`), and that the best bid is below the best ask.  Every operation of the book keeps it:
removal from a level, a fill of the front order, resting a residual, cancelling.
The matching loop is an induction over its turns (`TurnHolds`): after each turn the
book is one in which only crossing makers were touched, each maker's new trades
account for what it lost and the taker's for what it took (`Accounted`), whoever was
passed over is filled (`TradesFit`), and the turns that are left
are enough for the orders that are left (`Fuel`), so that the loop ends because
nothing crosses and not because the fold runs out - which is what an uncrossed book
needs.  `CancelEach`, a fold over a set, is an induction over its subsets.
`SubmitFacts` and `CancelEachFacts` are what the second half knows of the engine.

The second half is
`Inv == Types /\ Engine /\ RowsBehind /\ NoncesHeld /\ SignedOrderOnce /\ SessionsAnswer`.
`StoredRowsNeverAhead` is not inductive: rows are written by calls that carry them
across an await, so `RowsBehind` says of the rows a call still holds what the
property says of the stored ones.  `NoncesHeld` ties the nonce of every order the
engine took to the reservation, to the call that may still release it, or to the
failure that did.  `SessionsAnswer` says for every resting order who will cancel it:
the session that still lists its client id, the call whose outcome is on the way to
that session, a cancel that is under way, or one of the excuses the property names.

**`OptionOrderProofs`** (`Invariant`, `FillsConservedCorrect`,
`LedgerFollowsBookCorrect`, `CrossedOnlyByOverlapCorrect`, `PriorityKeptCorrect`).
For any orders and terms, any number of submissions and faults.

`Candidates` is a choice of a sorted enumeration; `SortedExists` shows that there is
one, because price and arrival rank any finite set of makers totally.  The plan is an
induction over it (`PlanAfter`, `TakeKeepsPlan`): the makers taken are a prefix of
the candidates, all of them in full but possibly the last, and that one too if the
taker has something left; what is left and what the legs trade add up to the taker's
size.  `PlanIsSound` restates this without legs: one fill with each maker, and every
candidate that ranks before a maker taken up.

`Inv` adds to the three invariants that a call which has not matched has no row and
every row has arrived (`CallsAhead`: ages are positions among the arrivals, so
makers can be told apart), that the status of a row agrees with what is left
(`StatusFits`), that locking reads saw only existing rows (`SnapshotsFit`), that an
order whose hold is being released is cancelled (`ReleasingFits`), and that outside
unledgered matches the pending rows and the holds are exact and no row is of a fill
that is not there (`LedgerFits`).  `NeverUnderReserved` follows from the last one
and `FillsConserved`: it need not be carried along as a sum.  A new fill never
repeats an old one because an order without a row has no fills.

**`NumberFacts`**.  The provers cannot instantiate an induction scheme; where
an argument needs one (a finite table has a first row, a loop's turns, a sum over a
set) it takes the least counterexample, which exists because `<` is well-founded on
the naturals (`LeastElement`), as a set of good numbers or of good subsets
(`EveryNumber`, `EverySubset`).  A recursive function or a fold is first shown to
exist and to obey its equation (`SumIsSum`, `MatchAllIsRun`, `CancelEachIsFold`,
`BuildIsPlan`).  The facts about `SumFunctionOnSet` that the accounts of both
matchers rest on are proved here.

Only model-checked: liveness (`WaitingRowsSettle`, `MinedIsFinalized`), which is out
of the prover's reach, as is ENABLED.  Every invariant and every action property of
the runs is a theorem; the hypothesis on `Events` is the one named above.

## 6. Where code and text disagree

The following statements of comments, documents or tests are defined in the
modules and do not hold of the code; none of the listed runs checks them.  Each
is reproduced by checking the named property alone in the named configuration,
without its symmetry.

| property | configuration | what happens |
|---|---|---|
| `FirewallSparesInFlight` | `Submission.cfg` | a second broadcast request that read the row before the first one claimed it is judged by the firewall afterwards, and the rejection is escalated from the live phase: an in-flight row goes to `ManualInterventionRequired` as FIREWALL_REJECTED (`broadcast_outbox.rs:627`; `broadcast_state.rs:145` "Firewall reject before any submission") |
| `RestartResumesBroadcasting` | `Settling.cfg` with `SPECIFICATION FairSpecOperated` | after a restart around the send a row can stay in `Broadcasting`; the tick does not list that phase (`broadcast_worker.rs:150`) and the admin route no longer admits the execution (`broadcast_state.rs:39` "A restart mid-call resumes here.") |
| `ConfirmedLeavesOrphan` | `Reorg.cfg` with `SPECIFICATION FairSpecSubmitted` | the tick does not list `Confirmed`, so a confirmed row whose block is orphaned stays (`broadcast_worker.rs:30` "A confirmed row is NEVER left on an orphaned block") |
| `ConfirmedIsFinal` | `Reorg.cfg` | `maybe_finalize` checks the header before it reads the height and the indexer's rows and not again, and the write compares the phase only: a fork in between leaves the row `Confirmed` on a replaced block.  A row that was `Reorged` is recovered by a lookup, whose receipt gets status 1 although the transaction may have been re-mined as reverted (`broadcast_worker.rs:619-634` "ONLY when ALL final-confirmation invariants hold", canonicality and status 1 among them) |
| `LockIsExclusive` | `Operations.cfg` with `MaxEpoch = 2` | the cleanup judges a REORG or REBUILD lock by any finished row of its kind, not by the one the lock belongs to: after one completed rebuild the lock of the next is deleted by whoever asks for it (`persistence.rs:1367`; `persistence.rs:323` "at most one may hold the lock per deployment at any time") |
| `LiveLockIsNeverStolen` | `Operations.cfg` | `holder_epoch` is a millisecond clock (`orchestrator.rs:364`): of two calls that read the same one, the execution of the loser may finish (a cancellation is enough), and the cleanup of a third takes its row for that of the holder and deletes the lock of a call in progress (`persistence.rs:1340-1343` "delete only when we can prove the prior holder is terminal", otherwise a competing operation would "silently steal the lock mid-run") |
| `ReconciliationReleases` | `Operations.cfg` | `OperationLockGuard::release` does nothing unless a store was attached, and only `reorg_recovery.rs` attaches one: the first reconciliation tick holds the lock of its deployment for good (`reconciliation_worker.rs:288`) |
| `RecoveryResumes` | `Operations.cfg` with `SPECIFICATION FairSpec` | the lock of a recovery that stopped midway is never stale (its row is active), and the recovery that should resume it cannot acquire it (`reorg_recovery.rs:84` "an in-flight recovery that a subsequent tick should resume") |
| `AbandonedIsTerminal` | `PerpBroadcast.cfg` | the executor that listed an intent before the operator retired it writes SimulationOk and Prepared over Abandoned and broadcasts it (`db/repository.rs:1381`; `execution/intent.rs:30` "must never be signed / cosigned / simulated / armed / broadcast. Terminal.") |
| `EveryMinedIsFinalized` | `PerpSettling.cfg` | the reconciler lists the oldest `batch_size` unfinalised rows (`db/repository.rs:1591`); Submitted rows whose transaction the pool dropped are never sent again and fill the list, and a mined row behind them is never looked at (`broadcast_policy.rs:748` "For each intent whose durable broadcast has not yet converged", "repeated invocations converge") |
| `IndexedExactly` | `PerpIndex.cfg` | the cursor's block is compared with the canonical one before the range is read and not again: a reorganisation in between is not seen, the new cursor is canonical, and what the replaced blocks settled is neither indexed nor reported (`indexer/runner.rs:244`, `:246`) |
| `ConfirmedTradesCount` | `PerpIndex.cfg` | a confirmation cut short between `insert_fee_event` and the volume loses volume and rebate: the repetition finds the event and stops, and the trade is confirmed (`README.md:329`, with fees enabled confirmed trades update the buckets) |
| `EachSideHasItsRow` | `OptionOrders.cfg` | when an account trades with itself in a put series, both sides post the settlement asset, the two inserts have one key and `ON CONFLICT DO NOTHING` drops the seller's: the short put is not reserved (`reservation_repository.rs:510-513` "so the buyer + seller of the same canonical execution get distinct rows") |

Observed while modelling, without a property of their own:

*Preparation and broadcast.*  An execution that crashes in `Simulating`,
`SimulationSucceeded` or `Signing` has no step that continues it, and unless it
is in `SimulationSucceeded`, where it can be cancelled, it never ends, nor does
the EXECUTION lock that carries its epoch; a second rebuild request that meets
the lock marks the row of the running rebuild `Failed`, which makes its lock
stale; `mark_abandoned` has no caller, so nonces of failed executions stay
reserved and leave gaps; the signature-reuse branch of `drive_locked` is
unreachable behind the firewall's ExecutionAlreadySigned; an HTTP retry of a
send that was mined meanwhile is answered nonce-too-low and escalated, although
the transaction succeeded; a transaction re-mined as reverted after
`MinedSuccess` has no legal edge to `MinedReverted`; a resend without an answer
is not counted against the retry budget; the receipt that `recover` synthesises
has status 1 whatever the transaction did; `maybe_finalize` compares the phase
and not the receipt it checked; `list_pending_broadcast_states` orders by
`updated_at` with a limit; `recover`, `maybe_finalize` and `resend_same_bytes`
have no production caller yet.

*Orders.*  `README.md:840` and `ARCHITECTURE.md:530` say that `used_nonces` keeps
a signed order from being taken twice; when the transaction fails after the
engine matched, the nonce is free again while the book keeps the order
(`SignedOrderOnce` names that case).  `SignedOrderOnce` compares the orders of one
life of the engine: that the nonce table also holds "across restarts", as
`README.md:840` says, is not checked, because a restart empties the book.  When two
transactions commit in another order than the engine ran them, an UPDATE of a maker
row that is not committed yet changes nothing and an older remaining size overwrites
a newer one (`db/repository.rs:1259`; `StoredRowsNeverAhead` allows rows to lag).
Cancel by client id may cancel another
session's order; `outcome.resting` counts the partial fills of makers;
`open_client_order_ids` never drops filled orders; binding another account leaves
the earlier account's orders in the book.

*Perp broadcast.*  A definite refusal marks a row Failed while a copy of the same
bytes, sent by a reconcile pass that read the row before, is accepted and settles
(`broadcast_policy.rs:1160`); the operator's broadcast route checks
`execution_transactions` and the executor `execution_intent_broadcasts`, so two
envelopes of one intent can exist, and only the engine's trade nonces keep the
second from settling.

*Perp index.*  `README.md:1050` says that the required block count guards against
shallow reorganisations, but the receipt and the height are separate reads; of a
V1 trade with buyer = seller the taker's fee event conflicts with the maker's
(`db/repository.rs:329`) and is dropped, with its volume; a slow confirmation stores an old
refusal over `confirmed`; events of foreign intents stay at the head of
`list_unreconciled` and can fill its limit; a V2 trade re-mined in another block
can never be confirmed.

*Option orders.*  The RETURNING lists of `update_conditional_order` and its
siblings (`db/repository.rs:4199`, `:4248`, `:4282`, `:4315`) omit the
`subaccount_id` that `conditional_order_from_row` reads (`:8317`), so a claimed
conditional order stays in Triggering and its recovery aborts; the expiry sweep
(`options/service.rs:1481`) releases no hold, although
`reservation_repository.rs:18` says it is released on expiry; the taker's hold is
inserted for the full size even when part of it was filled, and stays over-locked
until the order is consumed as a maker (`HoldFor`; `reservation_repository.rs:281`
wants "no perpetual over-lock"); concurrent buy and
sell orders can rest crossed, and nothing excludes self-trades;
`canonical_order_hash` omits order and client id, so identical orders without
nonce and deadline collide for ever; the retry of a conditional order relies on a
client-id index that covers live statuses only; an error after the match commits
(intent, fee) makes the submission fail although its order is live, and a fill
without an intent is never taken up again; a failed read of the series lets the
match run without reservations; `reorg_orphan_and_reactivate` is documented as
repeatable but `mark_orphaned` errors on repetition; reducer, settle and orphan
wrappers, `ensure_option_collateral_available`, `total_active_reserved` and
`mark_manual_review_tx` have no production caller, so PENDING_SETTLEMENT holds are
never settled.

*Option execution.*  `options/service.rs:3079` promises that "no tx is ever sent
without a durable identity", but a failed read of the correlation counts as a
missing row and the bind is skipped (`HandedIsBound` names that case, `blind`); a
late broadcaster, a repeated signature submission or a policy refusal decided before
the dedupe writes BroadcastSubmitted, CalldataReady, SignaturesRequired or
BroadcastFailed over BroadcastConfirmed; a concurrent duplicate answered "already
known" writes BroadcastFailed over a live transaction, although `README.md:437`
and `ARCHITECTURE.md:279` say that duplicates return the stored metadata; a lost
reply leaves a failed row without hash that nobody confirms; a send that fails
because its nonce was taken leaves the correlation bound to a hash that can never
be mined; a crash between the confirmation and the status update leaves the
intent BroadcastSubmitted; the manual confirmation has no finality and may write
receipt_missing over mined_success; dropped transactions in receipt_missing can
fill every batch.

## 7. Not modelled, and why

What the operations compute (plan, calldata, simulation, gas, signatures,
decoding, margin and fee amounts) is data or cryptography: its verdict is a free
choice here.  Attempt logs, metrics and timestamps that decide nothing are left
out.  Several deployments share only the nonce table, which is keyed by signer;
one deployment is modelled, and one option series and one perp market likewise,
because every statement selects by them.  Postgres is taken to execute single
statements atomically and to keep the isolation level it is given.

The repository has 184 thousand lines of implementation.  Most of them are
request parsing, response types, row mapping, configuration, read models over
contract calls, and decimal valuation: they hold no state of their own that two
actors could disagree about, and a model of them would repeat them.  The modules
cover the code that decides and writes; the map therefore names a small share of
the lines, and that share cannot come near a third of the repository.

State machines that could still be modelled: conditional and multi-leg option
orders, the option event indexer, RFQ, the Hybrid V2 journal and reducer,
websocket fan-out, fee snapshots.  `PROJECT.json` lists them with their status.

## 8. Plan

Models still to be written: conditional option orders (claim, trigger, recover),
RFQ (accept against expiry), the Hybrid V2 journal (cursor, fold, recovery
transaction) composed with the lock of `ProjectionOperations`.  Each of them needs
its own proofs; those of the modules that exist are complete but for liveness.
