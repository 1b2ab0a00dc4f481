# PaySphere in TLA+

Specifications of PaySphere's payment backend (`src/server`), the TLC
configurations that check them on small instances, and TLAPS proofs of the
properties that matter most. Every definition is translated from the code;
`PROJECT.json` maps each one to the lines it stands for.

## The system

PaySphere is an Express API over PostgreSQL in front of Razorpay, with a
separate reconciliation worker. Several API processes and workers may run on
one database: PostgreSQL is the only thing they share.

| Component | State it keeps | Operations | Hard behaviour | What makes it correct |
|---|---|---|---|---|
| Domain rules (`domain/`) | none | `canTransition`, `assertValidTransition`, `isTerminal`, gateway status mapping | which edge is legal | terminal states have no edges; a capture can follow a decline |
| Payment tables (`paymentRepository.js`, `001_init.up.sql`) | intents, orders, attempts, transactions, state history | inserts, `upsertAttempt`, `nextAttemptNumber`, row lock, `findStuckIntents` | unique indexes over the whole table, upserts, reports that name any payment, `MAX + 1` in a separate statement | one transaction row of a matching payment per COMPLETED intent; the SUCCEEDED attempts are of the payments with a transaction; attempts numbered without gap; complete audit trail |
| Payment service (`paymentService.js`) | calls and open transactions | `createPayment`, `getPayment`, `applyGatewayOutcome`, `reportClientFailure`, `expireStalePayment`, `verifyPayment` | concurrent workers, failure between awaits, lost commit acknowledgement, failing compensation | serializable; terminal is final; no orphan |
| Connection pool (`config/database.js`) | clients in use and in line | `withClient`, `withTransaction` | all clients waiting for one row | every request is served, every client goes back |
| Idempotency (`middleware/idempotency.js`, `idempotencyRepository.js`) | `idempotency_records` | claim, replay, 409, 422, reclaim, complete, release | concurrent and retried requests, crashes, a timeout that guesses | one outcome per key, never the payment of another body, no key locked out |
| Controllers and views (`controllers/paymentController.js`) | requests in progress | `create`, `get`, `verify`, `reportFailure` | two tables without a common transaction; five queries without a snapshot | one payable intent per key; answers that make sense |
| Gateway calls (`gatewayService.js`, `lib/retry.js`, adapters) | tries of a call; the gateway's payments (external) | create order, fetch, verify signatures | retried calls, permanent and transient errors | bounded tries; every call ends |
| Webhook intake (`webhookService.js`, `webhookRepository.js`) | `webhook_events` | persist, deduplicate, process, mark | duplicate and late deliveries; a handler that dies between two statements, or whose mark takes effect unanswered | PROCESSED means the outcome is in the tables; failed events are processed after all |
| Reconciliation (`reconciliationService.js`, `paymentWorker.js`) | candidates and decisions in memory | sweep, fetch, repair, expire | overlapping sweeps, decisions on stale reads, kills, a scan with a limit | stuck intents are resolved; nothing paid expires |
| Validation, errors, logging, metrics, configuration, routes, migration, checkout page, load test | none, or not shared | | | see "Not modelled" |

The flows meet in `applyGatewayOutcome`: webhooks, `/verify` and the sweep all
learn something from the gateway, then run that one transaction under
`SELECT ... FOR UPDATE`. `createPayment` writes its intent before the order
exists and without the lock.

The hazards of this code, each at its line, are in `PROJECT.json` under
"hazards", with the properties aimed at them.

## The modules

    PaymentLifecycle           what a merchant is promised
          ^ refinement mapping (LifecyclePhase)
    PaymentStore               the tables; one database transaction per step
     |  EXTENDS PaymentStates
     |      ^ serializability (the same variables)
     +-- PaymentService        the same transactions, statement by statement,
     |    |                    by concurrent workers, with createPayment
     |    +-- ConnectionPool   the service with the pool's clients
     +-- Settlement            webhooks, /verify, sweeps and the gateway
     |      + WebhookInbox     the webhook_events table
     +-- PaymentView           GET /payments/:id beside the transactions
    KeyOutcome                 what a key promises its clients
          ^ refinement mapping (Stored)
    Idempotency                the middleware around POST /payments
          ^ refined by
    CreateFlow                 POST /payments from claim to answer; also
                               refines PaymentService (an INSTANCE of it)

* **PaymentStates**: the states, the transition table, the gateway mapping, as
  operators.
* **PaymentStore**: `status`, `orders`, `attempts`, `txns`, `history` are the
  five tables. `Write...` operators are the writes of one transaction of
  `paymentService.js`, given what the transaction read; `InsertIntent` ...
  `Expire` are the serial transactions. An amount is abstracted to whether it
  matches (`Mismatched`), a failure code to nothing. Attempts are kept by intent,
  but the unique index on the gateway's payment id and the upsert's `ON CONFLICT`
  span the table (`Recorded`): an upsert updates the payment's row under whichever
  intent it finds it.
* **PaymentLifecycle**: absent, open, failed, expired, paid. `Lifecycle` in
  PaymentStore is the mapping: PENDING and PROCESSING are open, COMPLETED is
  paid.
* `LossyStoreSpec` (PaymentStore) is the serial specification when the answer to
  a COMMIT may be lost: one step more, `FailLate`, a `createPayment` that gives
  up on an order that is stored all the same.
* **PaymentService**: `call[i]` is where `createPayment` of intent `i` is
  between its awaits; `job[w]` is the open transaction of worker `w`, from its
  `SELECT ... FOR UPDATE` to COMMIT or ROLLBACK, with what it read. A row lock
  is a job that names the intent. The writes of a transaction appear at COMMIT.
  With `AckLoss` the COMMIT of the intent (`BeginCreateError`) or of the order
  (`PersistOrderError`) may take effect and be reported as an error.
* **ConnectionPool**: `phase[w]` is where a worker is between its request and
  the end of its transaction, `calling` the intents whose `createPayment` holds
  a client. A worker in line for a row (`locking`) holds a client; one in line
  for a client (`waiting`) holds nothing.
* **Idempotency**: every statement on `idempotency_records` is a step.
  `since` names the request whose claim set `created_at`, `stale` says whether
  that lies behind the timeout. With `SlowClaims` a request may still run when
  its claim is stale; without it only dead ones get that old, which is what the
  middleware presumes. What the handler does is left open (`Work`).
* **KeyOutcome**: a register per key, written once by the request that decides,
  and what each request was told of it. `Outcome` in Idempotency is the mapping:
  a key's outcome is the request whose response is stored as COMPLETED.
* **CreateFlow**: Idempotency with `Work` filled in. The request that owns a key
  runs the `createPayment` of PaymentService, whose gateway call is
  `retryWithBackoff`: `tries[r]` counts failed tries, `Errors` are the classes
  `classify` tells apart. A request runs `createPayment` at most once, so its
  intent bears its name. A death ends the request and its `createPayment` in one
  step. `WorkerRuns` lets webhooks, `/verify`, reports and sweeps act on the
  intents, before and after their 201, as the workers of PaymentService.
* **PaymentView**: `reading[c]` is the answer that a GET is putting together
  (`left`: the queries not yet answered), `shown[c]` the last one given. The
  intent is read first, the four lists after it in any order, with transactions
  of others between any two.
* **WebhookInbox**: `inbox[e]` is the row's status, `handler[e]` the statement
  the handler is at, `acked` the events answered 200. A statement that fails may
  have taken effect (`StatementFails`): so FAILED can be written over PROCESSED.
* **Settlement**: PaymentStore's transactions and WebhookInbox's steps driven
  by the gateway. `gw` is the gateway's status of each payment, `fetched` what
  `/verify` fetched, `aged` the cutoffs `updated_at` lies behind, `older` the
  order of the `updated_at`s, `todo` and `found` a sweep's candidates and
  decision. Every one of these may be out of date when the transaction runs.
  Whether an abandoned intent is old enough to expire is decided with the rest of
  the decision (`Ripe`), on the `updated_at` the scan read.
* **MC...**: values for the constants that a cfg cannot write.
* **...Proofs**: the theorems about the module they are named for (those of
  WebhookInbox are in SettlementProofs).

Definitions whose name ends in `_Something` next to a mapped one are mutants:
the plausible bug that a property is shown to catch.

## What the runs show

| Run (cfg) | Instance | Shows |
|---|---|---|
| `MCPaymentService` | 2 intents, 3 payments of the first (one mismatched), 2 workers, reports on either that name any of them, up to 2 attempts in the table and those that workers have under way | types, no stale read, one settlement, numbering, audit trail, terminal is final, attempts permanent; implements PaymentStore and PaymentLifecycle |
| `MCConnectionPool` | 1 intent, 1 payment, 3 workers, 2 clients, lost acknowledgements | the pool is never overdrawn; nobody waits in a circle; row locks are released; with every client out, some of them waiting for one row, everybody is served in the end; the tables change by serial transactions and late failures only (`LossyStoreSpec`), what is paid stays paid, what has expired is never paid, the audit trail is legal |
| `MCCreateFlow` | 3 requests with 1 key, one of them with another body, 2 tries, lost acknowledgements, crashes, 1 worker that fails and expires intents | one answer per key and body, one reclaim per claim, stored responses final, a 201 (replayed or not) names an intent created in full, one live intent per key; calls end and keys are not locked out; the flow implements Idempotency, PaymentService and KeyOutcome |
| `MCSettlement` | 1 intent, 2 payments (one mismatched), 3 events, 1 sweep, all faults | the tables say only what the gateway said; PROCESSED means absorbed; what a handler that is done marked PROCESSED stays so; a capture settles whatever order the events come in |
| `MCSwept` | 2 intents, 2 payments (one mismatched, one refunded), no webhook, `Window` 1, faults | stuck intents are resolved, or undecidable, or crowded out of the scan |
| `MCPaymentView` | 1 intent with 2 payments (one mismatched), a second one under which reports file them, 1 reader, 2 attempts in the table | a GET answer mixes moments, but shows the payment of a COMPLETED intent, explains its status and never goes back |

Each of the following runs ends in a counterexample: the code does not do what
a comment or a document says of it. The quotations are in `PROJECT.json`.

| Run | What happens |
|---|---|
| `MCOrphan` | the compensation of a failed order write fails too: PENDING without an order, which reconciliation skips for ever |
| `MCSlowClaim` | a running request is reclaimed after 30 s: two payments for one key |
| `MCTakenKey` | claim refused, row released, `record.status` of null: 500 |
| `MCReprocess` | a FAILED event is acknowledged as a duplicate when it is redelivered, and never processed again |
| `MCExpiryRace` | paid between the sweep's fetch and its expiry |
| `MCStarvation` | intents that can never be judged keep their `updated_at` and fill the scan's limit; a captured payment behind them is never finalized. In the trace the one in the way is left by a `createPayment` that stopped; an authorization nobody captures does the same |

Limits of the passing runs that a reader of the code should know:

* A client's report may name any gateway payment: `validation.js:60-72` asks for a
  string and `reportClientFailure` compares it with nothing. If a report on
  intent `i` names a payment of `j` that has no attempt yet, the row is filed
  under `i`, and the capture of `j` updates it there
  (`paymentRepository.js:148-155`): `j` is COMPLETED without a SUCCEEDED attempt
  of its own, and `i` lists a SUCCEEDED attempt and no transaction. So
  `SettledOnce` speaks of status and transactions by intent and of the SUCCEEDED
  attempts of the whole table, and `CompletedShowsPayment` looks for the attempt
  elsewhere when the answer does not show it. Numbering, permanence, status and
  transactions are untouched by such reports.
* The 201 that the middleware replays is the one it stored
  (`idempotency.js:88`): it says PENDING of an intent that may have been paid,
  failed or expired since. `AnsweredWasCreated` says what holds of it all the
  same: the intent was created with its order by a call that returned, and if it is
  FAILED, it is because of a payment of its order. `OneLiveIntentPerKey` counts such
  an intent as the key's, whatever its status.
* `PROCESSED` can still become FAILED while the handler is at work: markProcessed
  takes effect, its answer is lost, and the catch block
  (`webhookService.js:114-118`) marks the event FAILED. `ProcessedIsFinal` says
  that it does not change once the handler is done.
* `TerminalIsFinal` needs `AckLoss = FALSE`. With it TRUE, an order whose commit
  answer is lost is there while `createPayment` still waits; should the wait
  outlast the PENDING cutoff (`config/database.js` sets no query timeout), the
  sweep expires the intent and the error path (`paymentService.js:107`) then
  writes FAILED over EXPIRED, without looking at what it overwrites.
  `HistoryTellsStatus` and `LifecycleSpec` need it for the same reason. What is
  left without it is in `MCConnectionPool`: `LossyStoreSpec`, `HistoryIsLegal`,
  `ExpiredIsNeverPaid` and `PaidIsFinal`. No money hangs on the difference: FAILED
  can move on by a capture, but the order of a call that threw was given to
  nobody. Settlement's `createPayment` step has no lost acknowledgement; with one, a
  late failure could leave FAILED where no payment of the order has failed, which
  `StatusIsAuthoritative` does not allow for.
* `OneAnswerPerKey`, `AnswerMatchesBody`, `CompletedIsFinal`,
  `OneLiveIntentPerKey` and `KeyOutcomeSpec` need `SlowClaims = FALSE`: the reclaimed row keeps its
  id, so the superseded request completes it under the other body's hash.
  `AnsweredWasCreated` and `ReclaimedOnce` do not need it.
* `CaptureSettlesOrExpires` excuses an intent that has expired and an event that
  is `Lost`: its only handler failed or died. When that handler was of a capture
  that follows a decline, the intent stays FAILED: the redelivery is a
  duplicate, and the sweep does not scan FAILED
  (`docs/payment-lifecycle.md:44-47` says so).
* `StuckIsResolved` excuses an intent that only a person can judge and one
  crowded out by such intents, which is what `MCStarvation` shows to happen.
* An event of an unhandled type is marked IGNORED and at once PROCESSED
  (`webhookService.js:114`), where `docs/api.md:142-143` says IGNORED: steps
  `Ignore` and `MarkProcessed` of WebhookInbox.
* A GET answer can still be torn the other way: the intent is read first, so a
  status from before a settlement may come with the transaction, the attempt and
  the history row of it. The properties of PaymentView are what holds all the
  same.
* History rows are listed by `created_at = now()`, the start of their
  transaction: one that waited for the row lock may be listed before one that
  committed earlier, and the two rows of a settlement tie. PaymentView therefore
  keeps the listed rows as a set.

### Bounds, and why they are enough

* One intent suffices for most runs: a transaction touches one intent's rows
  (proved, lemma `Frame`), but for an upsert of a payment that a report has filed
  under another intent. Two are used where that is in question
  (`MCPaymentService`, `MCPaymentView`), and in `MCSwept` and `MCStarvation`, where
  they compete for a place in the scan. In the first two all payments are of one
  intent and the other is there to be named in reports: two intents with payments
  of their own add no kind of conflict, and the proofs have any number.
* In `MCPaymentView` the constraint `OtherWaits` has the second intent stored first
  and leaves it PENDING and unread; what moves it does not touch the first.
* `Window` = 1 stands for the LIMIT 200: one undecidable intent fills a scan of
  one as 200 fill a scan of 200. The proofs take any `Window`.
* Two workers hold the lock and wait for it; a third would wait as well.
  With `PoolMax` = 2 three workers and a `createPayment` make clients short: the
  holder of the row and one in line for it leave none. The theorems hold for
  any number of workers and clients.
* Three payments give two matching ones (who settles?) and one mismatched.
  Where only one settlement can matter, one matching and one mismatched do.
* `MaxAttempts` bounds the attempts of an intent that is still reported on, and
  the constraint `FewAttempts` the rows of the table from which a step is taken;
  `ViewAttempts` bounds the rows while they are looked at. Client reports make all
  of them unlimited. With `MaxAttempts` = 2 a mismatched capture, a report that is in
  the way of one, and the rows that two workers are about to write are there
  together.
* In `MCCreateFlow` the worker applies failures and expiries only
  (`OnlyFailures`), and its reports are off (`MaxAttempts` = 0): that is enough to
  make an answered intent FAILED or EXPIRED, or to do so before its answer; what
  more the workers can do is in `MCPaymentService`, which the flow is shown to
  implement.
* `PersistAttempts` = 3 is the code's `maxAttempts`; `MaxTries`, 3 in the code, is 2
  in `MCCreateFlow`, one retry and one last try. The proofs take any.
* Requests: two can race for one reclaim, and a third replay, or be of another
  body.
* One sweep is in the runs: another can only write the same repairs, and the
  proofs take any number.
* `Faults`, `Refunds`, `AckLoss`, `SlowClaims` switch parts of the
  environment on; a run that has one off says so by its table row or above.
  Refunds are in `MCSwept`; in `MCSettlement` they would multiply the states
  beyond what is checked in minutes, and its safety properties are proved with
  them.
* Runs set `CHECK_DEADLOCK FALSE`: when every request is answered and every
  payment settled the system does stop.

### Fairness

* `PoolFairSpec`: pg-pool and PostgreSQL serve their queues in order, so
  a checkout or a row lock that is free again and again is granted (strong
  fairness); a worker past its lock issues its next statement (weak: its client
  is its own). No rollback, error or crash is fair.
* `FlowFairSpec`: handlers run on, clients told 409 ask again, the clock moves.
  No crash is fair; the failing of a statement or of a gateway call is one way
  in which a handler runs on.
* `SweepFairness`: `setInterval` starts sweeps and the cutoffs pass (weak). A
  sweep's step can be refused or killed again and again; strong fairness, for
  each intent, says that one of infinitely many tries gets through, which is the
  code's own premise ("rechecks later").
* `WebhookFairness`: the gateway delivers payment events, handlers run on. It
  says nothing of faults, which are possible at every step.
* `InboxFairSpec` (`MCReprocess`): every event is delivered and redelivered, and
  its handler runs on.

### Environment

The gateway moves a payment from CREATED to AUTHORIZED or FAILED, then
CAPTURED, then (with `Refunds`) REFUNDED; a webhook carries a status its
payment has had, and may come late (one that names none of our payments comes
at any time). A payment belongs to the order it was made on: `/verify` checks
that, a webhook and a sweep find the intent by the order. A report on an intent
whose 201 was given may name any payment of any intent, or none; ids that the
gateway never speaks of are payments no outcome is applied for. Settlement leaves
reports out: they write attempts only, and its properties read none but
`ProcessedIsAbsorbed`, which asks only that a refused capture has a row somewhere.

In PaymentService outcomes are not constrained by the gateway at all, and any
stored order may be found stuck at any moment (its properties hold of all such
histories). Writes appear at COMMIT; the waits of one uncommitted insert for
another in the unique index are not modelled. A transaction writes one attempt, so
the one waited for holds what it needs already: such waits end, and form no circle.
In CreateFlow the workers are those of
PaymentService; an outcome or a report needs an order that was given out, an
expiry only a stored one.

## What is proved

TLAPS proves, for any number of intents, payments, workers, clients, requests,
keys, readers, events and sweeps:

* **PaymentStoreProofs**. `StoreInv` = types, numbered attempts with one row
  per payment (`TableOK`), `Settled` and `Told` of each intent, and that the payments
  whose attempt has SUCCEEDED are those with a transaction, under whichever intent
  the attempt is (`WonIsPaid`). SettledOnce alone is not inductive: that a
  settlement finds no transaction needs the status and attempts to be typed and
  the transition table, and numbering needs finiteness of the attempts.
  Lemma `Frame` reduces each transaction to its own intent; `UpsertRows` says
  what an upsert does to the attempts of all intents: one row is updated, wherever
  it is filed, or one inserted; `AppendEdge` what a legal edge does to a
  history. From it: `StoreSafety`, `StoreTerminalIsFinal`,
  `StoreAttemptsArePermanent`, `StoreImplementsLifecycle`.
  `StoreInv` also holds of `LossyStoreSpec` (`LossyInvariance`), where `Told` asks
  of a history only what a late failure leaves of it; hence `LossyStoreSafety`,
  `LossyPaidIsFinal`, `LossyAttemptsArePermanent`. `HistoryTellsStatus`, which is
  more, has an invariant of its own (`Chained`), kept by the serial steps alone.
* **PaymentServiceProofs**. `ServiceInv` adds that a job is on a stored
  order, that only a sweep disturbs an intent before `createPayment` is done with
  it (`Undisturbed`), and NoStaleRead. `CommitIsSerial`: because the read is not
  stale, a commit is the serial transaction. `StepIsSerial`: every other step is
  one too or leaves the tables alone, but for a `createPayment` that gives up
  late. Hence, with or without lost acknowledgements, `ServiceImplementsLossyStore`
  and through it `ServiceSettledOnce`, `ServiceAttemptsNumbered`,
  `ServiceAttemptsArePermanent`, `ServicePaidIsFinal`, `ServiceHistoryIsLegal`; and
  with `AckLoss = FALSE`, `ServiceImplementsStore`, and through it
  `ServiceHistoryTellsStatus`, `ServiceTerminalIsFinal`,
  `ServiceImplementsLifecycle`.
  `ServiceExpiredIsNeverPaid` does not follow from the tables, where FAILED may
  become COMPLETED: its invariant `Buried` says that EXPIRED is only overwritten
  by a call that threw, and `PaidIsGivenOut` that only the order of a call that
  returned is paid.
  `ServiceOrphansByTwoFaultsOnly` complements the run `MCOrphan`: a call that threw
  leaves an orphan only if its first COMMIT took effect unanswered
  (`BeginCreateLost`, outside any try) or its FAILED transaction failed as well
  (`FailCreateError`). There is no third way.
* **ConnectionPoolProofs**. Every step with the pool is a step of
  PaymentService or leaves its variables alone (`PoolImplementsService`), so the
  pool adds no behaviour and inherits the service's theorems; `PoolInv` counts
  the clients, and says that a worker is past its row lock exactly while it has
  a transaction. `PoolNobodyDeadlocks` follows from it: who holds a row holds a
  client and waits for nothing, so a circle has nowhere to close.
* **IdempotencyProofs**, assuming `SlowClaims = FALSE` (`MCSlowClaim` shows the
  assumption is needed). A request between claim and end owns its row
  (`Owned`); who found a claim stale overtakes a dead request
  (`OnlyGoneClaims`); an answer given is the one stored (`AnswersAreStored`).
  With these every step of the table is a step of KeyOutcome or none
  (`ImplementsKeyOutcome`).
  `OneReclaimPerClaim` has an invariant of its own (`ClaimsInv`) and no
  assumption.
  `TakenKeyIsExplainedUnlessReleased` complements the run `MCTakenKey`, without
  assuming anything of slow claims: a row that refused a request is there when it
  is read back (`LookersFind`) unless it is released in between, because nothing
  else deletes a row (`RowsStay`).
* **CreateFlowProofs**. Two refinements (`FlowRefinesIdempotency`,
  `FlowRefinesService`) and what neither side can say alone: `FlowInv` ties the
  request's place in the middleware to its call's place in `createPayment`, so
  that a key's row, once COMPLETED, names a call that returned; `PayKnown` says
  what a call that returned has left in the tables whatever the workers do after
  it. Hence `FlowAnswersWereCreated`, with slow claims and lost acknowledgements.
  `FlowOneAnswerPerKey`, `FlowOneLiveIntent` and `FlowImplementsKeyOutcome`
  inherit `SlowClaims = FALSE`. `FlowTypes` is about the key's side and the calls;
  the tables and the workers have the types PaymentService gives them, by the
  refinement.
* **SettlementProofs**. `SettlementInv` adds to StoreInv that whatever a flow
  still holds of the gateway was true once (`Known`: events received, `fetched`,
  `found`), and the gateway takes nothing back (`ReachedStays`); that handlers
  and inbox rows match (`Processing`); and that a processed event is absorbed
  and stays so. Without `Known` a stale repair could write what was never said.
  From it `SettlementImplementsStore`, `SettlementIsAuthoritative`,
  `SettlementAbsorbsProcessed`, `SettlementProcessesOnce`,
  `SettlementSettlesOnce`, `SettlementEndsOnce`, `SettlementImplementsLifecycle`:
  refunds, faults, slow and overlapping sweeps included.
  `SettlementImplementsInbox`: the inbox is WebhookInbox's among the other flows
  as well, so `InboxProcessesOnce` (an event that its handler has marked PROCESSED
  and is done with stays so) holds there too.
  `SettlementExpiresByRaceOnly` complements the run `MCExpiryRace`: as long as no
  payment of an intent moves while a sweep has a decision on it in hand
  (`NobodyPaysMeanwhile`), the decision stays true (`SweepsAreFresh`), and nothing
  else expires an intent (`ExpiryIsDecided`).
* **PaymentViewProofs**. The tables only grow, and the intent is read first:
  `ViewInv` says that what has been read is still explained by the present
  tables (`Known`), that nothing is read before the intent's row
  (`Ordered`), and that an answer in progress is no older than the last one
  (`Follows`). Which SUCCEEDED attempts an intent may show is lemma
  `WinnersArePaid`, from SettledOnce: those of its own order have its transaction,
  and the attempt of its transaction is its own or filed elsewhere.

Assumptions on constants are the named ASSUMEs of the modules: NULL is no
payment, `OrderOf` is a function to intents, `Nobody` is no request, and so on.

Three theorems (`ServiceOrphansByTwoFaultsOnly`,
`TakenKeyIsExplainedUnlessReleased`, `SettlementExpiresByRaceOnly`) assume
something of the behaviour, not of a constant: a step does not happen, or not
at one moment. The counterexample of the run takes such a step; the theorem says
that every counterexample does.

Only model-checked: the liveness properties (LocksAreReleased,
EveryRequestIsServed, KeyIsNotLockedOut, EveryCallEnds,
CaptureSettlesOrExpires, StuckIsResolved), because fairness and ENABLED are out
of the prover's reach. Every safety property of a passing run is a theorem.

## Not modelled

* The gateway itself is an environment: a payment's statuses and the answers of
  a call are all that the code reads of it. Signature checks come before any
  state change; a request that fails them does nothing. The mock adapter's
  `simulate...` helpers belong to the tests.
* `config/migrate.js` runs before the server starts. A migration and its
  bookkeeping row are one transaction; two runs at once make the later one fail.
* Validation, correlation, headers and the error handler keep no state; logging
  and metrics keep none that a request reads. One hazard of theirs is listed in
  `PROJECT.json` without a property: counters that are written before COMMIT.
* Routes, configuration and server wiring. The timeouts of the configuration are
  the steps `Age` and `TimePasses`, the pool size is `PoolMax`.
* The checkout page and the load test are clients. One thing was noticed in the
  page: its retry keeps the order reference and takes a new Idempotency-Key
  (`public/checkout.js:115`), so one external order can have two open intents.
  No document promises otherwise, and `external_order_id` is not unique.
* `expires_at` of idempotency records is written and never read.
