# lending-bank-gateway: a TLA+ verification

The gateway stands between the lending services and the bank core *wedap*.  It
registers money requests, calls wedap, takes in wedap's callbacks, asks wedap
about orders that stay open, and announces the outcome of each order to the
lifecycle service.  In bulk, it delivers import batches to wedap and brings the
results back to the reconciliation service *recon*, and it takes in wedap's
reconciliation files.  This directory models that core in TLA+, together with the
door the money requests come through and the scripts a build reaches UAT by,
checks it with TLC on small instances, and proves the most important properties
with TLAPS for all instances.

    tlc -workers 2 -config LedgerSettlement.cfg MCOrderLedger   # one run
    tlapm OrderLedgerProofs.tla                                 # one set of proofs

`PROJECT.json` lists the runs, the properties each of them checks, a mutation of
the model that each property catches, and the source lines behind every
definition.

## 1. The system

All paths are below `src/app/`, but for `scripts/`.  The process is one asyncio program over MySQL
(`main.py`); every `async with session.begin()` is a transaction, every `await`
a point where something else may run.  Deployment is one container, the old one
stopped before the new one starts, but the code claims rows as if there were
several.

| component | state it keeps | operations | hard behaviour | what makes it correct |
|---|---|---|---|---|
| order states, typed outcome (`domain/states.py`, `domain/money_write.py`) | none | mapping of wedap's words, codes and HTTP statuses; transition table; outcome of a money write | which answers prove that no money moved | NOT_APPLIED only on evidence |
| money submission (`services/submit.py`, `services/idempotency.py`) | `bank_txn_order`, `idempotency_record` | transaction 1, call, transaction 2 | racing inserts, crash around the call, lost and garbled answers | one call for a bizSeqNo, one frozen response, no step back |
| callback inbox (`api/v1/callbacks.py`, `services/callback_finalize.py`) | `callback_inbox` | insert, duplicate, resolve by body or by query, recheck, mark | unlocked reads, repeated ids with other bodies, blind writes | PROCESSED only when the order is settled |
| finalisation (`services/order_finalize.py`) | `finalized_at`, audit, outbox row | finalise, upgrade SUCCEEDED to REVERSED | three callers race | each verdict audited and announced once |
| reconcile worker (`workers/order_reconcile_worker.py`, `services/order_status_reconcile.py`) | `order_stuck_alert` | sweep, query, compare-and-set, alert | stale candidates and answers, age window | every order is settled or alerted |
| callback outbox (`services/outbox.py`, `workers/outbox_dispatcher.py`, `api/v1/admin_ops.py`) | `callback_outbox` | enqueue, claim, post, finalise, reclaim, replay | leases that expire under their holder, crashes, unlocked replay | at-least-once, SENT is final, DEAD is earned |
| reversal (`services/reversal.py`) | two orders | register, call, settle the reversal and flip the original | the original moves under it, a timeout leaves the reversal to others, rollbacks with locks held | a reversal settled by its request is whole; REVERSED is true |
| audit chain (`services/audit.py`) | `audit_chain_head`, `audit_log` | append inside the caller's transaction | two first writers, locks taken in different orders, rollbacks | one chain without fork or gap, one entry for each verdict |
| account guard, platform accounts (`services/account_guard.py`, `api/v1/platform_accounts.py`) | `platform_bank_account`, audit entries | register, patch; judge, record, refuse | PATCH is an unlocked read and a write; the guard's own database fails; revocation under way | what was never allowed moves no money; each change is told |
| money endpoints (`api/v1/bank_funds.py`, `api/v1/loans.py`, `api/deps.py`) | the mark of a request | check the body, the original, the guard; mark; call the service; claim | what a 4xx says about an order that another request of the same bizSeqNo placed | NOT_APPLIED and UNKNOWN are true |
| wedap bulk delivery (`services/wedap_delivery.py`, `workers/wedap_delivery_dispatcher.py`) | `wedap_import_delivery_task`, `wedap_delivery_alert` | enqueue, claim, deliver, report, collect, alert | one claim of three has a token; the claim bears the time the round began; blind writes by primary key | DELIVERED is true, FAILED is earned, no end unreported, no recordable result swallowed |
| reconciliation files (`api/v1/recon_notify.py`, `workers/recon_worker.py`, `services/recon_ingest.py`) | `recon_result_task`, three row tables, an archive directory | notify, claim, download, check, land, supersede | versions in any order, blind status writes, a path without the tenant, crash after the claim | rows land once, from their own file; the highest landed version stands |
| release scripts (`scripts/buildops.py`) | manifests, env-state and bundles on three hosts, docker tags, containers | local-verify, dev-promote, uat-confirm, no-op evidence, plan, dry run | many commands, no lock, nothing undone; ids built again | nothing skips a stage; what is recorded is true |
| wedap client (`clients/wedap.py`) | none | signed POST, unwrap | how a call can end | external, its answers are a set |
| deposit queries, supervision, utilities, health, schema | none of their own | pass on; restart workers | | see section 7 |

How they interact: an endpoint builds a `SubmitRequest` and calls `submit_order`;
`submit_order`, a callback handler and the reconcile worker share the rows of
`bank_txn_order` and meet in `finalize_terminal_in_session`, which appends to the
audit chain and enqueues an outbox row in the same transaction; the dispatcher
takes the row from there.  A reversal meets the same writers over two rows and the
chain's anchor, and the guard and the administrators append to that chain too.  Between two transactions a coroutine holds what it read
before, so each step of it may act on a stale view.

## 2. Modules

| module | models | notes |
|---|---|---|
| `OrderStates` | `states.py`, `money_write.py`, `_parse_ack`, `_unwrap` | pure operators, no variables |
| `OrderLedger` | `submit.py`, `idempotency.py`, `callbacks.py`, `callback_finalize.py`, `order_finalize.py`, `order_status_reconcile.py`, `order_reconcile_worker.py` | composed in one module because they share the order rows |
| `OrderContract` | the promise of an order to its caller and to lifecycle | the abstract specification `OrderLedger` implements |
| `CallbackOutbox` | `outbox.py`, `outbox_dispatcher.py`, the replay endpoint | |
| `OutboxContract` | at-least-once delivery of an event | the abstract specification `CallbackOutbox` implements |
| `WedapDelivery` | `wedap_delivery.py`, `wedap_delivery_dispatcher.py`, what it uses of `wedap_import.py`, `wedap_import_result.py`, `recon_callback.py` | |
| `AuditChain` | `audit.py`, `models/audit.py` | variables and steps of the chain, for others to compose with |
| `Reversal` | `reversal.py`, and of the ledger's other writers what touches the pair | extends `OrderStates` and `AuditChain`: one transaction holds row locks and the anchor |
| `ReconFiles` | `recon_notify.py`, `recon_worker.py`, `recon_ingest.py` | |
| `MoneyBodies` | `deps.py`, `amounts.py`, `wedap_contract.py`: what is checked in a body | pure operators |
| `AccountGuard` | `platform_accounts.py`, `_evaluate` of `account_guard.py` | extends `MoneyBodies` |
| `MoneyEndpoints` | `bank_funds.py`, `loans.py`, `account_guard.py`, the error handlers of `main.py` | extends `AccountGuard`: requests and administrators together |
| `Release` | `scripts/buildops.py` | |
| `MC...` | instances and symmetry sets for TLC | |
| `OrderLedgerProofs`, `CallbackOutboxProofs`, `WedapDeliveryProofs`, `ReversalProofs`, `ReconFilesProofs`, `MoneyEndpointsProofs`, `ReleaseProofs` | theorems and their lemmas | each extends the module it is about |
| `OrderTruthProofs` | theorems about `OrderLedger` that relate it to the bank, the inbox and the contract | extends `OrderLedgerProofs` |

**Grain.** One action is one transaction, one external call leaving, or one
answer arriving.  What a coroutine keeps in local variables is part of the state
(`answer`, `handler`, `worker`, `dispatcher`, `replaying`), so that it may be
stale when it is used.  A transaction that locks its row (`FOR UPDATE`) or
updates under a condition is one action; a read without a lock followed by a
write is two, except where the two have the effect of one (`_set_inbox_status`
writes a constant).

**`OrderLedger`.** `status`, `finalized`, `audited`, `forwarded` are the order
row, its audit entries and its outbox rows; `idem` is `idempotency_record`;
`inbox` is `callback_inbox`.  `Lookup`, `Register`, `Dispatch`, `Answered`,
`Complete` are `submit_order` in order, with `Crash` between any two of them.
`Receive` to `MarkUnresolved` are a callback handler; `Pick`, `WorkerQuery`,
`WorkerApply`, `Alert` the reconcile worker.  wedap is external: `bank` is what
it has done with a bizSeqNo; it executes a request at most once, perhaps after
the gateway stopped waiting; its callbacks repeat, drift (one request id with
other bodies), reorder and get lost; a status it states is the truth at that
moment.  An error says nothing of the truth, except where `states.py` takes it as
proof: a rejection at the door, and for a repayment a listed code.

**`CallbackOutbox`.** `status`, `attempts`, `holder` are the row; `stale` are the
rows whose claim is older than 300 s, `waiting` those whose `next_retry_at` lies
ahead.  `Reclaim`, `Select`, `Claim`/`Skip`, `Read`, `Post`,
`Finalize`/`FinalizeLate`, `EndRound` are one round of `dispatch_once`, whose
clock is read once at its start (`late`).  The uuid4 of a claim is represented by
the dispatcher that drew it, which is exact because a dispatcher works on one row
at a time and a row is claimed again only when its claim is void.  `ReplayRead`
and `ReplayWrite` are `replay_dead`, which reads without a lock.  `accepted` is
what the downstream service has taken, `tries` counts posts since the row was
queued; neither is read by the code.

**`WedapDelivery`.** `status`, `attempts`, `lock`, `waiting`, `deadline` are the
columns of a delivery; `reported`, `reporting` those of its report to recon;
`collected`, `fetching`, `token` those of its result.  A round of a worker
(`worker`) reclaims, then goes through five stages: `dispatch`, `resend`,
`collect`, `stuck`, `overdue`.  A stage is entered by `Scan`, which reads the
candidates without a lock (`batch`, and for a repeated report the statuses read,
`seen`), and works them off one by one: a claim that fails passes over the
candidate.  `Claim`, `Deliver`, `ReadRow`, `Update` are `dispatch_delivery_once`;
`Update` writes the columns that differ from what `ReadRow` read, as the ORM does,
without asking who holds the row.  `ClaimReport`, `Tell`, `MarkReported` are the
report; `ClaimResult`, `Fetch`, `Alarm`, `Forward`, `ReleaseResult`,
`MarkCollected` the collection, whose claim has a token.  `locked_at` is the time
at which the round began, so a claim may be stale while the round is under way:
`outlived` remembers the tasks with a delivery that took longer than its claim
lasts, and the properties that need leases are stated for the others.  wedap and
recon are external: `taken` are the batches wedap accepted, which may happen
although its answer is lost, and after which it answers DUPLICATE_BATCH; `file`
is the result it writes; `heard` and `lines` are what recon has been told.  A kind
of result file is an importStatus, which is accepted as it comes
(`wedap_import_result.py:111`), and the kinds of lines it lists that were not
ingested.  `Forward` sends the recordable ones, with an integer lineNo and one of
four lineStatus; the worker drops the others with a warning, calls nobody when none
is left (`wedap_delivery_dispatcher.py:157-177`), and marks the result collected
all the same.  That a batch whose last answer was lost ends FAILED although wedap imports it is a
behaviour of the code, and of the model.

**`AuditChain` and `Reversal`.** `write_audit` is three steps inside its caller's
transaction: `Peek` (plain read, perhaps old), `Insert` (waits for another first
writer; a duplicate key is swallowed but leaves a shared lock, `sharers`),
`AppendEntry` (locking read, which sees the latest hash).  A hash is the place of
its entry, so that a fork or a gap shows as a wrong place.  What a transaction has
not committed is its `draft`, `tip` and `staged`; `Publish` makes all of it
visible at once and `Abort` drops it, at any step.  `LockReversal`, the audit
steps, `LockOriginal`, the audit steps and `Complete` are transaction 2 of
`submit_reversal` in the order in which it takes its locks; `LockVerdict` and
`Settle` are the locked part of a callback or query.  `Starts` are the ways the
original may stand, at the gateway and at wedap, and the chain may be inherited
with or without its anchor row.  A reversal wedap accepts reverses the original
there; a second one it may accept too.

**`ReconFiles`.** One action is one transaction or one file operation of a worker:
`Claim`, `Download`, `MarkDownloaded`, `Precheck`, `Parse`, `Land`, with
`MarkFailed` for the three ways to fail.  Only `Claim` and `Land` look at the row
they write.  `archive` is the directory of a worker's container, where the path
has the number and the version of a task but not its tenant.  `orphans` are the
versions whose worker died under them.

**`MoneyEndpoints`, `AccountGuard`, `MoneyBodies`.** A request goes from its
endpoint through the checks of its body (`Called`), for a refund the look at the
original (`CheckOriginal`), for the three guarded endpoints the guard (`Judge`,
`Refuse`, `GuardFails`), to `Enter`, which marks it as dispatched, and into the
service, which is `OrderLedger`'s subject and here only places the order of a
bizSeqNo once and returns in one of its ways.  `allowed` remembers whether the
account was allowed at some time since the request began.  An administrator's
PATCH is `Load`, `Flush`, `CommitWrite`: the ORM updates only the columns whose
value differs from what was read, and the row lock is taken by that UPDATE.
`MoneyBodies` has each endpoint's checks over a body that is reduced to the fields
it gives and fills, amounts in ten thousandths, and the currencies of its parts.

**`Release`.** Each command of the scripts that changes a file, a tag or a
container is an action; an image is its config digest, a bundle the image in it.
`op` is what a script has in memory, among it the manifest as it was read at its
begin.  `proven` remembers which images ran in an environment when it was
verified; `overlapped` the releases built anew while another script worked on
them, for which nothing is promised, since no lock keeps two scripts apart.  `Plan` answers what `plan` answers, for any
manifest it may find: LATEST, or the one written last where the script that moves
LATEST has stopped between its two commands (`buildops.py:761`, `:1046`).

## 3. Runs

| run | instance | shows | states, time |
|---|---|---|---|
| `ledger_settlement` | 2 orders, 2 scopes, 1 request, 1 handler, 1 request id, 2 callback bodies | `SettledOnce`, `LedgerMatchesBank`, `InboxProcessedMeansSettled`, `NoRegress`, `ImplementsContract` | 116k, 20 s |
| `ledger_idempotency` | 1 order, 2 scopes, 2 bodies, 3 requests | `OneDispatch`, `NotAppliedIsTrue`, `ReplyOnlyToSamePayload`, `FirstResponseFrozen` | 87k, 10 s |
| `ledger_liveness` | 1 order that may age or stay young, 1 request, 1 handler | `EveryOrderSettlesOrAlerts`, `WorkerConverges` | 68k, 60 s |
| `ledger_unconfirmed_failure` | 1 repayment | a violation, section 6 | |
| `outbox_leases` | 2 rows, 2 stalling dispatchers, 1 replay at a time, 2 attempts | `DeadIsEarned`, `SentStays`, `ImplementsDelivery` | 497k, 30 s |
| `outbox_liveness` | 1 row, 2 dispatchers, 3 attempts | `OneCaller`, `EveryRowEnds` | 3k, 4 s |
| `delivery_claims` | 1 task, 2 workers, 2 attempts, a rejected batch with both kinds of lines, one outside the contract | `DeliveredMeansTaken`, `FailedIsEarned`, `NothingSwallowed`, `ReportIsTrue`, `OneDeliverer`, `ResultClaimIsKept`, `EndedStays` | 2.2M, 130 s |
| `delivery_progress` | 1 task that may age, 1 worker, 2 attempts | `EveryTaskIsReported`, `NoResultIsForgotten` | 51k, 25 s |
| `reversal_pairs` | 1 original in five states, 2 bizSeqNo for its reversals, 2 requests, 1 settler | `LinearChain`, `ChainTellsTheLedger`, `PairFlipsTogether`, `ReversalIsTrue` | 673k, 100 s |
| `recon_versions` | 2 versions of one tenant, 1 of another with the same number, 2 workers | `RowsLandOnce`, `RowsFromOwnFile`, `LatestLandedStands`, `EveryVersionEnds` | 123k, 80 s |
| `release_stages` | 2 operators, 2 releases, 2 images, 5 scripts | `NothingSkipsAStage`, `RuntimeIsTrue`, `AdviceIsSound` | 171k, 20 s |
| `money_door` | 2 requests of one bizSeqNo, 8 endpoints with bodies, 3 modes, 2 administrators with 2 transactions | `DisabledMeansStopped`, `RefusalsAreOnRecord`, `ClaimsAreTrue`, `RowChangesAreTold` | 915k, 115 s |

**Bounds.** `MaxNotices` bounds the different callback bodies wedap sends: two
are enough for one request id with two bodies, for a SUCCEEDED followed by a
REVERSED, and for bodies of two orders.  Each body can be delivered any number
of times.  `Ageing` names the orders whose age may pass `max_age`; it is empty
where age does not matter.  `MaxAttempts` is the code's own `outbox_max_attempts`
made small; 2 lets a row fail, back off and die, 3 lets it be reclaimed between
failures.  Two dispatchers are what a lease is about: one that holds it and one
that takes it over.  Three requests are needed for two to race on the insert
while a third replays, over another scope or with another body.  `Files` are the kinds of
result file wedap may write: a rejected batch with lines goes through every step of
the collection, the alarm and the forwarding, of which some lines pass the filter;
one whose importStatus and lines are outside the contract raises no alarm and calls
nobody.  Two workers on one task are what its
claims are about; tasks share no state but the worker that goes through them, and
the theorems of section 5 are for any number of them.  Rounds,
crashes and reclaims are not bounded.  `calls`, `audited` and `attempts` are
bounded by the code, not by the model: that they are is part of what is checked.

Two requests to reverse are enough for two reversals of one original and for two
requests with one bizSeqNo (`intent` has both); together with a settler there are
three writers of the anchor, so that two may hold its shared lock while a third
waits.  Two versions in either order are what superseding is about, and the third
task is the other tenant's with the same path.  Five scripts (`MaxScripts`) are a
build, its way through dev to UAT, and two that disturb it: a second build
(`MaxBuilds`) of the same id or of another, an older manifest promoted again, no-op
evidence.  Two transactions of administrators (`MaxWrites`) that end are what one
lost update takes; the bodies of `MCAsks` pass every endpoint and fail each kind of
check at least once, with `Capacity` above the sum of their parts.

**Deadlock** is checked for the outbox, the bulk delivery and the reconciliation
files, whose workers loop for ever.  The others really stop when their requests are
answered, or when the bound on scripts is reached, so their configurations switch
the check off.

## 4. Fairness

`FairSpec` of `OrderLedger`: a request and a callback handler run on (weak
fairness; httpx calls have timeouts, so a call returns).  The worker loops for
ever and is restarted (`workers/supervisor.py`), so a candidate that is open
comes up again and again (strong fairness of `Pick` and `Alert`, because the worker
is busy with other orders in between); it does not fail at the same point every
time, and wedap answers a status query again and again once it has settled.
Nothing is assumed of wedap's callbacks, of crashes, of reversals, or of an order's
age: it may stay young for ever (`WorkerConverges` is about that case), or pass
`max_age` at any moment (`EveryOrderSettlesOrAlerts`).

`FairSpec` of `CallbackOutbox`: the loop runs for ever and is restarted; strong
fairness on the steps of a round, because a crash may cut any of them short but
does not do so for ever at the same point.  A post may fail every time (the row
then ends DEAD).  In this run no dispatcher stalls: the post's timeout is 10 s and
the claim's 300 s.  `outbox_leases` is the run in which they do stall.

`FairSpec` of `WedapDelivery`: a worker goes round for ever (weak fairness of
`Round`: its calls have timeouts, and the supervisor restarts it); one day it
crashes no more, so that a round ends, but it may crash any number of times before;
claims, back-offs and deadlines run out; recon takes a report it is sent again and
again.  Nothing is assumed of wedap: it may reject every delivery, or never write a
result.

`FairSpec` of `ReconFiles`: a worker goes on (weak fairness of `Work`: S3 calls have
timeouts, the supervisor restarts it), and a version that is found in round after
round is claimed one day (strong fairness of its claim, since a worker may crash
before each).  Downloads and landings may fail every time, and crashes are never
assumed away: a version whose worker died is excused (`orphans`).

The other specifications state no fairness: a request to reverse, a script and an
administrator may stop anywhere.

## 5. Proofs

Assumptions on the constants: `RepaymentScopes` is a subset of `Scopes`,
`MaxNotices` a natural number, `MaxAttempts` a positive one, `Stalling` a subset of
`Dispatchers`, `Files` any kinds of result file with an importStatus and lines, `Threads` a subset of
`Txns`; `Original` is no reversal and `Subjects` are the pairs of an order and a
status; `Registrations` and `Patches` hold what the endpoints of platform accounts
accept, `Modes` some of the guard's three modes; the reconciliation `Tasks` are pairs
of a tenant and a positive version; `MaxBuilds` and `MaxScripts` are natural numbers;
and the null values are none of the values they
stand in for.
Sets of orders, threads, handlers, rows, dispatchers and tasks are arbitrary, not
even finite; only the set of delivery workers is finite, for the attempts in
flight are counted.

`OrderLedgerProofs`:

- **TypeCorrect**: `TypeOK`.
- **OneDispatchCorrect**: `OneDispatch`.  By itself it is not inductive.
  `CoreInv` adds `RequestInv`: a thread between `Register` and the end holds the
  idempotency record of its key and the order exists, only one such thread exists
  for a bizSeqNo because the order row is unique, and `calls` is 0 until that
  thread leaves `dispatch`; and the invariants of the handlers and of the worker,
  that what they carry names an existing order.
- **NoRegressCorrect**: `NoRegress`, from `CoreInv`: the verdict of a callback or
  query is guarded by `CanMove` under the lock, and transaction 2 writes only over
  ACCEPTED, from which each result of `LedgerStatus` is an allowed move.
- **SettledOnceCorrect**: `SettledOnce`, with `WrittenInv` beside it: a status that
  is not terminal has no audit entry that a later finalisation would repeat.

`OrderTruthProofs`, on top of `CoreInv`:

- `TruthInv` says of everything that is held for a while (the answer of a call, a
  callback on its way or in the inbox, the result of a query in the hands of a
  handler or of the worker) that it is true of the bank, and that wedap knows an
  order only after its call (`CalledInv`).  It is inductive because the bank only
  advances (`BankAdvances`): whatever wedap has decided stays decided, but for a
  success it reverses, so a word that was true when it was given is true when it is
  used, however late.  **LedgerMatchesBankCorrect** and **NotAppliedCorrect** follow.
- `ProcessedInv` (what a handler knows before it marks its row: the order was
  settled when it looked, and a settled order stays settled).  **ProcessedCorrect**
  follows, although `_set_inbox_status` writes blindly.
- `RecordsKept` and `AnsweredFrom`: an idempotency record is completed by the one
  request that made it, and its fingerprint never changes.  **FirstResponseFrozenCorrect**
  and **ReplyCorrect** follow.
- `JustifiedStep`: a verdict is taken only over an order whose call has left, and
  one that is not FAILED is wedap's own.  With `OneDispatch` and `SettledOnce` this
  makes each step a step of `OrderContract` or a stutter: **ContractImplemented**.
  Of FAILED it says where it may come from: wedap has refused or failed the order,
  or the order's own second transaction writes it at an error that proves nothing
  (`UnprovenFailures`): **FailedIsGroundedCorrect**.

`CallbackOutboxProofs`, from `OutboxInv`: `Works` says what a dispatcher knows
while its claim stands (the attempts it read are the row's, the try it made is
counted, the success it carries is true), `Counts` that a row that can still be
tried has attempts left and that no attempt was written without a try.  A
dispatcher that lost its claim knows nothing, which is why `Works` is conditional
on `Holds`.

- **OutboxTypeCorrect**, **DeadIsEarnedCorrect**: for any dispatchers and replays.
- **SentStaysCorrect**, **DeliveryImplemented**: `SentStays` and the refinement of
  `OutboxContract`, under `OneReplay`, that replays do not overlap; without it
  both are false (section 6).
- **OneCallerCorrect**: `OneCaller`, under `OneReplay` too.  `ClaimsStand` says that a
  dispatcher which keeps within the claim timeout holds its row under a claim that is
  not stale, from the claim to the write: the others claim only deliverable rows,
  reclaim only stale ones and write only rows they hold, and a row that is being
  replayed is DEAD.  The run has no stalling dispatcher; the theorem allows any.

`WedapDeliveryProofs` has three inductive invariants, each on top of the first:

- `RecordInv`: what a worker carries is true of its task (`Carried`): an answer
  DELIVERED means that wedap took the batch, a result in hand is the file, what was
  passed on arrived: of the lines those that can be recorded, and no others.  These facts are about things that only grow (`Grows`), so
  other workers cannot spoil them.  **DeliveryTypes**, **DeliveredTasksWereTaken**,
  **NoResultSwallowed**, **ReportedTasksWereHeard** and **ResultClaimsAreKept**
  follow without any assumption on leases.
- `LeaseInv`, for the tasks not in `outlived`: a worker that delivers one holds the
  row as SENDING under a claim that is not stale, so that neither `Reclaim` nor
  `Claim` of another worker touches it, and the status it then writes is the last.
  **OneWorkerDelivers**, **TheEndStays** and **ReportsAreTrue** follow; without the
  restriction they are false (section 6).
- `AttemptInv`: the number of attempts in the row, and the one a worker has read,
  together with the deliveries in flight, never exceed the deliveries tried.  It
  counts, because an `Update` may set the row's number back.  **NoTaskIsGivenUpEarly**
  follows, with stalled workers too.

`ReversalProofs` has four invariants, each on top of the ones before:

- `BaseInv`: types, where each transaction stands, and the chain (`ChainInv`).
  `Appending` is its core: a transaction that has written the anchor owns it until
  it ends, so nobody else commits an entry in between, and its draft continues the
  log; one that is about to insert an anchor that is not there has read the log's
  end.  **ReversalTypeCorrect** and **LinearChainCorrect** follow.
- `RowInv`: a status that a transaction has written is an allowed move as long as it
  is not committed, because the transaction holds the row (`Holding`), and its entry
  is drafted once or is about to be (`Drafting`); what has been forwarded of an order
  follows from where it stands, and the log has one entry for each.
  **ChainTellsTheLedgerCorrect** follows.
- `PairInv`: an original that cannot be flipped any more does not move any more
  (`StandsStays`), so a request that found it so, or has staged REVERSED, may commit
  whenever it likes.  **PairFlipsTogetherCorrect** follows.
- `TruthInv`: one request at most calls wedap for a reversal (`Sole`), so no later
  call takes back what an answer has proved (`Proven`), and each verdict, draft and
  row that says REVERSED of the original goes back to wedap's word (`Reported`).
  **ReversalIsTrueCorrect** follows.

`ReconFilesProofs`: `ReconInv` adds to the types and to `LatestLandedStands` what a
worker knows of the task it has in hand (`InHand`: nobody else has it, its rows have
not landed, and the file it will check is its own, since a worker downloads nothing
else in between) and which rows go with which status (`RowFits`).  **ReconTypeCorrect**,
**RowsLandOnceCorrect**, **RowsFromOwnFileCorrect** and **LatestLandedStandsCorrect**
follow, for any tenants, versions and workers.

`MoneyEndpointsProofs`: `DoorInv` says what has been checked of a request by the
stage it has reached (`StageInv`), what is recorded of it (`RecordInv`), that an
account which is allowed now counts as allowed since the request began, through all
commits of administrators (`AllowedInv`), what its answer claims (`AnswerInv`), what
a placed order owes to its request (`PlacedInv`), and what an administrator's
transaction knows of the row and its lock (`AdminInv`).  The claim NOT_APPLIED is true
because the checks of a body are the same for each request of an intent: whoever was
refused by them knows that nobody passed.  **DoorTypeCorrect**,
**DisabledMeansStoppedCorrect**, **RefusalsAreOnRecordCorrect**, **ClaimsAreTrueCorrect**
and **RowChangesAreToldCorrect** follow.

`ReleaseProofs`: no single part of `ReleaseInv` is inductive alone.  For any release,
`Equipped` gives a script what its next command needs.  For a release that is not
`overlapped`: its builder is the only script at work on it (`Alone`), so tag, bundle
and digest in a script's memory are one image (`Knows`), and the manifest that a
promotion has read at its begin is still the one on disk; a manifest and an env-state,
on disk or in the hands of no-op evidence, name an image that ran there
(`ManifestTrue`, `Recorded`); and a container is what it says and passed the stage
before (`Runs`).  What has been built, tagged, run or recorded stays so (`Grows`),
which is why nobody else's step takes from a script what it relies on.
**ReleaseTypeCorrect**, **RuntimeIsTrueCorrect**, **NoStageSkipped** and
**AdviceIsSoundCorrect** follow, for any number of operators, releases, builds and
scripts.

Each inductive invariant was first an invariant of its component's run.  Two things
came to light when the proofs were attempted.  Several definitions were CASE
expressions whose conditions overlap (`KnownKeyReply`, `ResolvePeek`, `HandlerQuery`,
`Impact`, `Plan`): TLC takes the first that is true, TLA+ any of them, so that the
specification allowed what the code does not; the conditions now exclude each other.
And `Release` had left open whether "no file" could itself be a record; it now
assumes not (`NoFileAssumption`).

Only model-checked: liveness (`EveryOrderSettlesOrAlerts`, `WorkerConverges`,
`EveryRowEnds`, `EveryTaskIsReported`, `NoResultIsForgotten`, `EveryVersionEnds`),
which is out of the prover's reach.  Every other property of a passing run is a
theorem.

## 6. Where the code and its documents disagree

`ledger_unconfirmed_failure` shows the first of these; the others are properties
of the modules that TLC refutes when they are put into a configuration, and no run
repeats them.

- `RepaymentFailureConfirmed` (OrderLedger): a repayment's 4xx whose body does not
  parse becomes FAILED and is announced, though `states.py:40` and `submit.py:257`
  hold that it proves nothing.  The `outcome` field says UNKNOWN, the ledger FAILED,
  and FAILED is final.  FailedIsGroundedCorrect proves that for a repayment this 4xx
  is the only way to such a FAILED, in whatever order requests, callbacks and
  queries run.
- `NoTornResponse` (OrderLedger): if a callback settles the order before
  transaction 2, the frozen response can say `txnStatus` FAILED and `orderStatus`
  SUCCEEDED, against `submit.py:347`.
- `InboxConverges` (OrderLedger): a RECEIVED row whose callback wedap repeats no
  more is driven by nobody; `callbacks.py:10` promises a worker or an administrator.
- `ReplaysDeadOnly` (CallbackOutbox, two administrators): two overlapping replays of
  a row; the later commit resets a row that a dispatcher holds, or one that was sent
  in the meantime, against the docstring of `replay_dead`.
- `EndIsFinal` (WedapDelivery): the result of a delivery is written by primary key,
  whoever holds the row by then; a delivery that outlived its claim overwrites
  DELIVERED with FAILED, or with PENDING, and recon is told so
  (`models/wedap_delivery.py:23` calls both ends, `wedap_delivery.py:232` excludes a
  second delivery).
- `NoHalfFlip` (Reversal): a reversal whose call timed out is settled later by a
  callback or the worker, which do not know of the original: the reversal is
  SUCCEEDED and the original stays as it was, against
  `docs/20260811-reversed-终态语义与借据反向映射输入.md:29`.  `PairFlipsTogether` is about the reversals
  that their own request settles.
- `NoDeadlock` (Reversal): two first writers that both met a duplicate key hold the
  anchor's shared lock and wait for each other, and a reversal that holds the anchor
  waits for the original's row whose holder waits for the anchor; `audit.py:34` says
  that appending cannot deadlock.  InnoDB rolls one of them back, which `Abort`
  covers.
- `NotAppliedMeansNoOrder` (MoneyEndpoints): a full refund is placed while its
  original is unknown; the original appears; the caller's retry gets 422 and
  NOT_APPLIED, although its order is there (`money_write.py:182`).  `ClaimsAreTrue`
  holds for everything else.

Three more, of which no document says otherwise.  A result whose lines cannot be
recorded is marked collected without them: recon hears of some lines or of none, no
alert is raised unless importStatus is exactly FAILED, and only the log has a
warning; `test_wedap_delivery_dispatcher.py:328` and `:491` expect the filter, and
the comment beside it leaves the report of such a batch to a later phase.
`NothingSwallowed` and **NoResultSwallowed** therefore promise only the recordable
lines and the batches that say FAILED.  `NoLineIsDropped` says what they do not;
TLC refutes it under the constants of `delivery_claims`: a DRIFTED file is fetched,
nothing is sent, and the result is put away.  A lower version of a reconciliation
that is parsed after a higher one stays PARSED beside it.  A PATCH that sets a
column to the value it read writes nothing but is audited, so that under a
concurrent PATCH the trail's last word and the row may differ.

## 7. Not modelled

- Deposit queries, the status queries of the money endpoints and the list of
  platform accounts: they read and pass on.
- Startup and shutdown (`main.py`), configuration, envelope, S2S tokens, contract
  rendering (`core/`), health probes: no shared state and no protocol.
- The text of requests, responses, manifests and reports; the patterns of
  `biz_seq.py` and of the release ids.
- Migrations, `deploy.sh`, generated contracts.  What `deploy.sh` and docker do is
  part of `Release`, from how `buildops.py` uses them.
- The hash values of the audit chain: an entry stands for its hash.  `OrderLedger`
  and `AccountGuard` only count entries and tell what is in them.
- The batch limits and the order of the candidates, of the reconcile worker, of the
  reconciliation files and of the bulk delivery.
- The content of an import batch, of a result file and of a reconciliation file: a
  result file is an importStatus and the kinds of lines it lists, a reconciliation
  file is right or is not.
- Clocks: only what a clock decides (`aged`, `stale`, `waiting`, `late`).
- Failure of a commit whose outcome is unknown, but for the guard's own
  (`GuardFails`).

## 8. Plan

Done: the order ledger, the outbox, the bulk delivery, reversal with the audit
chain, the reconciliation files, the money endpoints with the guard, the release
scripts; theorems for all the safety properties, action properties and refinements
of the runs.

1. `ReconcileSweep`: batch limit and ordering of the sweep and of the alert scans;
   liveness of every row beyond a limit.
2. `OrderLedger` composed with `Reversal`: the row locks of the ledger step by step.
3. Proofs: the invariants of these two, and the safety half of the liveness
   properties (that what waits is a candidate of the next round).
