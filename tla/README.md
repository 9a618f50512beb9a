# PackScout: TLA+ models and proofs

PackScout collects pack, pull and market data from several providers, keeps it
in PostgreSQL, computes expected values and "heat", and publishes releases to
Convex, which the public frontend reads.  This directory models the parts of it
whose correctness depends on the order in which several processes act, checks
the models with TLC and proves their invariants with TLAPS.

Paths are relative to the repository root.  `migration.sql` stands for
`packages/database/prisma/provider/migrations/20260829000000_distributed_provider_baseline/migration.sql`.

## 1. Inventory

| Component | State | Operations | Interacts through | What is hard | Correct when |
|---|---|---|---|---|---|
| Provider worker lease (`provider-worker-lease-repository.ts`) | owner, fence, expiry per role | acquire, renew, release | row lock; every worker transaction re-reads it | expiry during work, release by a former owner | a former holder never writes |
| Provider runtime (`provider-runtime-repository.ts`, contracts' matrix) | operating state, generation, cached configuration, source cursor | synchronizeConfiguration, transitions | singleton row, locked by every writer | configuration change against queued work, operators against runners | matrix followed, cursor belongs to the configuration |
| Control commands (`provider-command-repository.ts`) | command rows | submit, nextAccepted | deferred triggers link commands and runs | stale generation, resubmission | a decided command is final |
| Run now (`admin-provider-runtime-repository.ts`, admin route) | queued run and its command | requestRunNow | same tables | second click while work is active | one active run |
| Provider runs (`provider-run-repository.ts`) | run rows, recovery lineage | start, recoverActive, finish | called by the executor under its fence | worker death at any point | one attempt, resumed from the committed cursor |
| Mixed page commit (`provider-mixed-page-*.ts`, `provider-page-transaction.ts`) | page rows, cursor, counters, records | commit | one serializable transaction with a retry | late commit, lost outcome, source that repeats a cursor | gap-free, fenced chain of pages |
| Head reconciliation (`provider-head-reconciliation-*.ts`, `provider-run-head-proof.ts`) | receipts in the audit log | step | executor, batch by batch | interrupted and inherited work | success implies completed reconciliation |
| Manual import executor (`apps/worker/src/provider-manual-import-*.ts`) | local variables between transactions | executeNext, executeNextPage, terminalizeProgress | all of the above | everything it carries may be stale | what it commits is current; nothing stays running |
| Lane supervisor | in-process lanes | one executor per provider | spawns executors | bounded concurrency, abort | one outcome per lane |
| Activity outbox and relay (`provider-activity-relay.ts`, `provider-observation-repository.ts`) | local outbox rows, central events and health, coordinators' cursors and backoff | append, read, accept, acknowledge, probe | central database | at-least-once delivery, stale batches, outages | nothing lost, health names the latest activity |
| Email outbox (`email-message-outbox-repository.ts`, `message-outbox/drain-service.ts`) | intents, attempts | enqueue, claim, send, record, retry, prune | mail provider | two callers at the bound, claims that lapse while sending | bound kept, history agrees, nothing lost |
| Welcome dispatch (`convex/productUser*.ts`, `welcome-dispatch/dispatch-service.ts`) | directory documents, welcome marker | establish, decide, suspend, claim, settle | HTTP to Convex, email outbox | contacts and decisions in any order, lost settlements | armed at the first admitted session, one intent unless the retention pruned it |
| Pack publication | desired states, build requests, intents, operations, public heads | plan, build, seal, send, retire, recover | HTTP to Convex | an activation that arrives after newer states were planned | nothing superseded becomes public, no success is discarded |
| Manifest promotion | lane, attempts, public pointer | enqueue, claim, send, replay, complete, re-prove | HTTP, compare-and-set | unknown outcome of an activation, a changed provider set | pointer and mirror agree, a changed set is proved, the lane converges |
| Provider release promotion | lane, attempts, staged releases, public head | claim, stage, finalize, reuse, complete | HTTP, receipts | a finalize applied after its sender gave up | the two databases agree on the head |
| Data release V3 lifecycle | releases, facts, head, journal, receipts | start, batch, finalize, activate, roll back, migrate | HTTP from publisher and migration | replays and late requests, a migration on a rolled-back head | retained history is the history of the branch |
| Connection permits, request leases | lane permits, slots, queue, leases | acquire, release, cancel, abort, fence | in-process, at every await | release on abort, outcome unknown | capacity neither leaked nor idle |
| Source supervisor | epochs, claims, attempts, lanes, health episodes | acquire, claim, begin, terminalize, commit, finish, recover | one database, several processes | a stalled predecessor that wakes up | no page lost or read twice, one epoch calls |
| Heat promotion; catalog retention; central scheduling | attempts, ledgers | as manifest promotion; delete | HTTP | - | nothing referenced is deleted |
| Auth, sessions, beta allowlist | accounts, sessions | sign-in, invite, revoke | HTTP | mostly validity windows | - |
| Calculators, adapters, user interfaces | - | - | - | arithmetic, parsing, rendering | outside this project |

`PROJECT.json` lists each with its sources and its status, and under `hazards`
the places where this code is hard to test, each with the properties that watch
it.

## 2. Modules

Each component has a module of its own; `MC...` modules give its constants
values for TLC and `..._proofs` modules hold its theorems.  A transaction (a
repository method on PostgreSQL, a Convex mutation) is one action; so is what a
process does between two awaits.  The local variables a process carries from one
transaction to the next are part of the state, since that is what grows stale.
Answers are lost before or after a commit, requests arrive late or twice,
processes die, wherever the code has to cope with it.  A refused call that writes
nothing is a stuttering step.

Definitions marked *Variant* or *Mutation* in a comment are deliberately wrong forms of the
definition that follows them; `mutants` in `PROJECT.json` uses each to confirm
that a property fails when the code has that bug.

**`ProviderRuntime`** is one provider database: the import lease, the
`provider_runtime` singleton, `provider_runs`, `control_commands`,
`provider_run_pages` and the reconciliation receipts.  Every repository method
takes its row locks in the order lease, run, runtime, and is one action; its guard
is the conjunction of the code's early returns and of the database's triggers.
The callers are unconstrained: any worker may call any transaction with any fence
up to the current one, any run and any page, whenever it likes.  It is thus the
abstract specification of the database against any worker, correct or not.

| Actions | Code |
|---|---|
| `Acquire`, `Release`, `LeaseExpires` | `acquireProviderWorkerLease`, `release`, the database clock |
| `SynchronizeConfiguration`, `ConfigurationExpires` | `synchronizeConfiguration` ("updated"), `config_expires_at` |
| `SubmitControl` | `submit` of pause, stop, resume, all outcomes |
| `RequestRunNow`, `JoinActiveRun` | `requestRunNow` without and with an active run |
| `Start` | `start` claiming the queued run of `command/<id>` |
| `Recover`, `RecoverIneligible` | `recoverActive`: "recovered"; the three refusals that end the attempt |
| `CommitPage` | `PrismaProviderMixedPageRepository.commit` with the lineage trigger |
| `Finish` | `finish` with each of the three outcomes |
| `HeadStep` | one batch of `PrismaProviderHeadReconciliationRepository.step` |

**`ProviderImport`** extends it with the executors.  `worker[w].at` is the point
in `#execute`, `finishProviderImportHead`, `failRun` or `terminalizeProgress`
between two transactions, the other fields are the local variables still alive
there (`Live`).  Reads that precede the lease (`nextAccepted`, the runtime
snapshot, the active run) are steps of their own.  Renewals that succeed change
only the expiry and are local steps.  `Throw` is an exception or abort before a
transaction commits, `OutcomeLost` one after it, `Crash` the loss of the process,
`Expire` the loss of the lease.  A "replayed" answer to a page commit does not
occur: it needs a page with the number the execution is about to commit, which
`HolderIsCurrent` excludes while the lease is held, and without the lease the
answer is `lease_lost`.

**`ReliableOutbox`** is the abstract specification of an outbox: an item is
emitted, its effect appears after that, and it is acknowledged only when the
effect is there.  `ActivityRelay`, `EmailOutbox` and `PackPublication` are shown
to implement it.

**`ActivityRelay`**: provider outbox rows, the coordinators that carry them
(`StartCycle`, `ReadBatch`, `AcceptEvent`, `AcknowledgeEvent`, backoff), the
central events and the `provider_health` row with its direct probes
(`RecordProbe`, `ObserveCentrally`).  Coordinators do not claim rows, so several
carry the same event, each with the batch and the health it once read.

**`EmailOutbox`**: `EnqueueFastPath`, `EnqueueLock`, `EnqueueCount`,
`EnqueueInsert` are the statements of `enqueueEmailMessageIntent` under the
source's advisory lock; `ClaimDueBatch`, `Send`, `RenderFails`,
`RecordAttemptOutcome`, `RecordThrows` a drain's pass; `RequeueTerminalIntent` and
`PruneHistory` the operator and the retention.  `mailed`, `excused`, `rounds` and
`marked` are history.

**`WelcomeDispatch`**: `EstablishProductUserRecord` (a contact),
`DecideProductUserAccess`, `SetStanding`, `AllowlistEntry`, `RemoveEntry` on the
directory, and a dispatcher's `ClaimDueWelcomes`, `DispatchOne`, `SettleWelcome`.
Time is the order of a decision and the last recorded contact (`fresh`).

**`PackPublication`**: one pack's desired states, build requests, sealed intents
and operations (`Plan`, `Claim`, `Seal`, `recordOperation`, `Retire`, `complete`,
`defer`, `observeHead`) and the public store (`start`, `applyBatch`, `finalize`,
`activate`, the operator's `hold`, `activateRetained`, `resume`, `blockSnapshot`).
An operation may reach the store at any moment after it was persisted, and again.

**`ManifestPromotion`** and **`ProviderPromotion`**: a promotion lane in
PostgreSQL, the workers' cycles (`Claim`, `Persist...`, `QueryStatus`,
`MarkOperationSent`, `AcknowledgeOperation`, `Complete`, `Retry`,
`FailTerminal`, ...), requests on their way (`net`, `Deliver`, `Drop`) and the
public state in Convex with its compare-and-set and its replay.  A claim's token is
one that no worker on that attempt still holds.

The first also has the operator's rollback, clear and block, and the change of the
configured platforms.  `ChangeConfiguration` is the approval: it refuses to remove
a platform that the mirrored state selects or that sent, unsettled work is about
(`RemovalAllowed` = `prepare_catalog_configuration_provider_set_change`), and
supersedes what was not sent.  The coordinator's `ensureVerified` is four steps, at
its awaits: `LoadBootstrapState` (is a proof required?), `ProbeForProof` (the public
state and the public heads), `VerifyProviderSet` (the transaction of `#verify`, which
accepts the probes only if `Proves`, the refusals of lines 865 to 896 included) and
`EnqueueReconcile`; configuration, mirror and public state may change between any
two of them.

The second has the staging of a release batch by batch, reuse and retention, and a
checkpoint with its freshness: a change that settles after the last observation
makes it `delayed`, which `enqueueEvaluation` refuses as regressed (`Regressed`,
`FreshnessMoved`) while the observation and the configuration epoch stay the same.

**`RetainedEv`** and **`DataReleaseV3`**: the merge of retained expected values,
and the mutations that stage, complete, activate and roll back a release with the
journal of that history (`start` to `rollback`), the migration of releases
published before it existed (`backfillActiveReleaseEvFacts`, `initialize`, its
driver `Migrate...`) and the publisher (`Publish...`), with late requests.

**`ConnectionPermits`**: the permit coordinator (`ConfigureRequestPermitLane`,
`Acquire`, `Stop`, `Settle` = release and `#drain`), the single-use request lease
with its exits (`RejectUnstarted`, `ReleaseUnusedLease`, `CancelBeforeCall`, ...)
and the executor's turn from claim to slot release, as far as the durable attempt
decides it; every await is a point at which another turn, a stop, a blocking
failure or the loss of ownership may happen.

**`SourceSupervisor`**: epochs, claims, request attempts, runtime lanes and the
connection's health episode in the database, and the turns of the processes that
use them (`Acquire`, `ClaimNext`, `Begin`, `Terminalize`, `Blocking`,
`CommitPage`, `FinishPageTurn`, `FinishFenced`, `Recover`, `Reconcile`, ...).  A
process is named by the epoch it acquired and keeps its turns after it lost it.

## 3. Runs

| Run | Instance | Shows |
|---|---|---|
| `runtime_operators` | 1 worker, 2 runs, 2 Run now, 1 operator command, 2 fences, callers unconstrained | `RunningIsBacked`, `PauseIsFinal`, `FencedPages`, `TransitionsFollowMatrix` |
| `run_now_coalesces` | 1 worker, 2 Run now | a violation, section 6 |
| `import_recovery` | 2 executors (1 with the second configuration's adapter), 3 runs, of which a recovered one inherits head page and reconciliation (`MaxAncestry` 2), 1 Run now, 1 operator command, 2 configurations, 1 disturbance | `CursorChain`, `HolderIsCurrent`, `HeadProofAvailable`, `SucceededIsReconciled`; the executors implement `RuntimeSpec`; `NoAttemptStuck` |
| `relay_races` | 2 coordinators, 2 providers of which a cycle lists one, 2 events, 1 disturbance | `LastActivityIsLatest`, `RecoveryFollowsOutage`, implements `ReliableOutbox`, `EventsAreDelivered` |
| `email_drain` | 2 keys of one source with a limit of 1, 2 callers, 2 drains, 2 attempts, 1 disturbance | `SourceBound`, `AttemptsAreKept`, implements `ReliableOutbox`, `IntentsComeToRest` |
| `welcome_dispatch` | 2 users, 2 dispatchers, 2 decisions, 1 disturbance, each user's intent pruned once | `EnqueuedOnce`, `ArmedAtFirstAdmission`, `DueIsSettled` |
| `pack_publication` | 2 titles, 3 desired states, 2 operator commands, 2 setbacks | `PackInvariant`, `NoSuccessDiscarded`, `SupersededStaysPrivate`, implements `ReliableOutbox` |
| `manifest_promotion` | 2 workers, 2 platforms and every set of them, 2 releases, 9 evaluations, 3 events | `ManifestInvariant`, `AppliedIsKept`, `LaneConverges` |
| `provider_promotion` | 2 workers, 3 settlements, 1 observation, 1 batch, 3 events | `ProviderInvariant`, `ProviderSettles` |
| `v3_lifecycle` | 5 deployments, 2 publishers, 8 plans for 3 new and 2 legacy releases | `V3Invariant`, `HistoryIsTheBranch`, `PlanIsPublished` |
| `connection_permits` | 3 turns, 2 lanes, 1 profile, 2 pools | `PermitInvariant`, `NoCallAfterAbort`, `WaiterIsAnswered` |
| `source_supervisor` | up to 3 epochs, 1 or 2 sources, up to 3 disturbances | `SupervisorInvariant`, `CursorInStep`, `EpisodeHoldsCursors`, `WorkSettles` |

Bounds.  Every constant named `Max...` that the code does not have is a bound of
the instance and is marked so where it is declared; the others (`MaxPages`,
`MaximumAttempts`, `SourceActiveLimit`, ...) are the code's limits, made small
enough to be reached.  Two workers, drains or coordinators suffice for one that is
slow and one that takes over; one disturbance at any moment, with the expiry that
follows it, gives every torn sequence of two transactions; two runs and two fences
a recovery with a late call of the former worker; three desired states or
settlements a newer and a newest one behind an activation in flight; an ancestry of
two a recovered attempt that proves, and goes on reconciling, a head page it did not
commit; a page of one provider a listing that has to come round to the other.
`manifest_promotion` sets `MaximumRetries` to 0, where the code takes 1 to 20: the
first retryable failure then exhausts an attempt, which is the harder case; that a
retry waits and is claimed again is in `provider_promotion`, with 1.  Where one
instance cannot have everything at once, the initial states choose among several
(`given` in `DataReleaseV3` and `SourceSupervisor`, `pool` in
`ConnectionPermits`).  Deadlock checking is off where the bounds, or work that is
done, end a behaviour.  Symmetry is used in safety runs only, over names without
order.

Fairness, always weak except where said.

* `ProviderImport`: of `Execute(w)`, since the supervisor calls each executor
  again and again; strong for `ScanEnds(w)`, since a reconciliation scan follows a
  key set of a finite table.  None of operators, disturbances or expiry.
* `ActivityRelay`: of each coordinator's cycle and calls and of a backoff's end.
* `EmailOutbox`, `WelcomeDispatch`: of each step of a pass and of what time brings
  (an intent becomes due, a claim lapses).
* The promotion lanes: of the workers' cycles, of the delivery of some request in
  flight, of the expiry of a lease nobody works under, and of the neighbouring
  lane that records a head it published or proves a changed set.  A worker whose
  proof is refused for good (`BOOTSTRAP_UNPROVEN`) stops with its process
  (`apps/worker/src/promotion-v2-worker-runtime.ts:96`); that somebody starts it
  again, with the credentials of the configured set, is assumed.
* `DataReleaseV3`: of publishers and migration, where no operator intervenes
  (`Unattended`).  `ConnectionPermits`: of a turn's own steps, in the process with
  one slot (`Scarce`), where every turn waits for every other.
  `SourceSupervisor`: of the processes' cycles and the expiry of what nobody
  renews, in the watched environment (`Watched`).  The three conditions only say
  in which of the run's instances liveness is asked.

## 4. Proofs

What the theorems hold for: every set of workers, runs, commands, cursors,
providers, events, keys, users and so on, and every limit and bound, under the
named `ASSUME`s of the modules.  These say that limits are (positive) numbers,
that run ids and providers are numbers (which gives them an order), that `None`
is none of the names, that run and control commands are different, and that keys,
users and providers are finitely many, as the code's tables are.

**`ProviderRuntime_proofs`** (ten theorems) has three layers.  `TypeOK` is
inductive by itself.  `Core` = `TypeOK /\ OneActiveRun /\ ActiveRunAligned /\
RunningIsBacked`: none of the last three is inductive alone, `Start` keeps the
runtime backed only because no second run is active, `Recover` keeps the
generation only because the interrupted run backed it, a second active run is
excluded only because accepted commands are exactly those of queued runs.
`History` adds to `CursorChain` what every committed page still says about its
run, lease and configuration (`PageFacts`) and about every later page
(`PageOrder`): fences are ordered, numbers grow within a run, no input cursor
repeats, nothing follows the head page.  The two action properties follow from
`DecidedStep` and `MatrixStep`, the second of which uses `Core`.

**`ProviderImport_proofs`** proves that the executors implement `RuntimeSpec`, and
carries the theorems about the database over to them (`ImportCursorChain`).  A
step of an executor is a transaction `ProviderRuntime` allows because the local
variables are well typed and complete where they are used: `Base` says for every
location which of them are set (`Sane`), that no page number exceeds the limit,
and that a command once read exists.  `HolderIsCurrentAlways` needs `ImportInv` =
`Base /\ Core /\ HoldersOwn`: as long as its lease is live, an execution that got
past its recovery owns its run, with the database's cursor and page count, or is
about to start one while nothing runs.  The proof takes each transaction twice: the
execution that makes it enters the next location owning its run (`HolderEnters`),
and one that does not make it cannot hold the lease at the same time
(`HolderUndisturbed`).

**`ActivityRelay_proofs`** proves both invariants of the health row and the
refinement of `ReliableOutbox`.  `RelayInv` adds `Carried` (what a coordinator
carries are events of its provider, and it acknowledges one only once centre has
it), `Pointed` (central events were committed by the provider, and the health row
points at one of them as soon as there are any) and `OutageReported` (the last
probe of an unreachable row is the outage it reports).  Among its lemmas are that a batch read is
one of the outbox (`BatchOfOutbox`), and the counting lemma behind the paging of
providers (`EveryRankIsTaken`).

**`EmailOutbox_proofs`** proves the bound of live intents, the history and
the refinement.  `SourceBound` is inductive only with `CallersLock`: between its
count and its insert a caller holds its source's lock and what it counted still
leaves room.  `AttemptsAreKept` bounds the messages an intent may cause;
`MailIsExcused` strengthens it to a balance: messages sent plus claims still held
that may yet send never exceed the takeovers and lost answers, plus one unless the
row waits for nobody.  It rests on `ClaimsAreOwn` (each claim is held once, and is
not newer than its row), `AttemptIsOpen` (the attempt of a live claim is
unrecorded) and `FinalAttempts` (each attempt that ended an intent but the last
was followed by an operator's retry).

**`WelcomeDispatch_proofs`** proves `EnqueuedOnce`, `ArmedAtFirstAdmission` and
that a marker only moves forward.  The first counts per identity: it gets one
intent, and another only for each of its own that the retention has pruned with its
idempotency key, whatever claims lapse, settlements are lost or other identities'
intents are pruned; and a welcome settled as sent was enqueued.  `WelcomeInv` relates the three places a welcome
is in: passes hold claims of identities the directory knows (`PassesInStep`), one
that says "sent" did enqueue (`SentIsEnqueued`), insertions are the present intent of the
identity and its pruned ones (`InsertedIsAccounted`), and an admitted session left a marker
(`AdmittedIsMarked`), which is what makes a second arming impossible.

**`ConnectionPermits_proofs`** proves `PermitInvariant` and `NoCallAfterAbort` for
any finite set of turns, any lanes and profiles and any capacity.  `PermitInv` =
`PermitTypeOK /\ Capacity /\ TurnsInStep`.  `Capacity` holds between any two calls
of the coordinator: permits granted are counted exactly (`CapacityAccounted`),
none is idle while a waiter could use it (`WorkConserving`), and the queue is the
turns that say they wait, each once (`QueueInStep`).  `TurnsInStep` says what a
turn holds at each of its awaits (`InFlightHoldsPermit`, `PairsInStep`) and that a
condemned turn has its abort flag set (`CondemnedFlagged`), which is all that
`NoCallAfterAbort` needs.  Every operation of the coordinator is a removal from
the queue, a release, and `#drain`, so one lemma (`Settling`) serves them all; it
rests on a counting lemma about the order in which `#drain` serves the queue
(`GrantsFit`): a waiter is granted exactly if those before it leave room in its lane
and in the pool.  The removal of waiters had to be restated by rank for this.

**`SourceSupervisor_proofs`** proves `SupervisorInvariant`, `CursorInStep` and
`EpisodeHoldsCursors` for any finite set of sources and any limits.  No part of
`SupervisorInvariant` is inductive.  `SupervisorInv` has two halves.  Per source:
a request in flight belongs to the running claim, at its page and cursor, under an
epoch acquired before (`InFlightRuns`); a queued run's lane asks for no action
(`Claimable`); a live run reads from the committed cursor (`CursorReads`); the
page counts of the run and of its claim agree with the last answer
(`PagesCounted`); and every retryable answer but the last is in the lane
(`BudgetKept`).  Per process and source: turns exist only of epochs acquired
(`Unclaimed`), the owner's turn and the request of its source are in step
(`TurnInStep`), and so are its count of retries and the lane's (`TurnCounts`).  A
turn of a process that lost its epoch may hold anything: `TurnInv` says nothing of
it, since every operation checks the epoch first.  Transactions that settle one
source go through three lemmas, for a run that ends, begins and is queued again
(`Ends`, `Begins`, `Requeues`); a step of one turn through `Touches` and `OneTurn`;
an outage, which settles them all, through `ProfileBlocks`.  That a claim is named
by no row and no other turn is a counting argument (`FreshIsAClaim`).
`EpisodeHolds` takes every action once more, under an open episode: a page is
committed by none, a recovery test starts runs at their first page.

**`PackPublication_proofs`** proves `PackInvariant`, `NoSuccessDiscarded`,
`SupersededStaysPrivate` and the refinement of `ReliableOutbox`, for any desired
states and bounds, and whatever may lapse, be refused or be asked by the operator.
`OneEpisodeUnsettled` needs `PackInv` =
`PackTypeOK /\ HeadsMove /\ HeadsOfIntents /\ Mirrored /\ NewestUnsettled /\
BuildsSettled` and, for each desired state, `RowsInStep /\ SealedUnheld /\ Fate`.
The provider decides by its mirror of a head it cannot lock, so the proof is about
every head there has been: neither generation, epoch nor sequence ever falls, and
within an epoch that was never held each activation brings a newer sequence
(`HeadsMove`); a head shows the intent that brought it (`HeadsOfIntents`); and the
mirror is one of them, however late it was read (`Mirrored`).  `Fate` says what an
intent's end admits: a published one was accepted, a superseded one was accepted only
before the operator moved the epoch, and if its activation is still unanswered, a head
of a later epoch already exists, so that a late delivery is refused.
`NewestUnsettled` says that nothing was sealed after an unsettled intent of the
current epoch, and `BuildsSettled` that no build is at work beside one, which is why
planning, claiming and sealing never make a second.  A row moves in
few ways, so most steps go through lemmas about one build or one intent that turns
(`BuildMoves`, `IntentMoves` and their `...Turns`).  `LatestIsAlive`, the last part of
`PackInvariant`, is proved for drivers that never `defer` work to "superseded":
`defer` accepts that state, and one that asks for it gives the desired state up
itself.  The repository has no driver yet, only the tests of the recovery, which do ask
for it.  The other theorems hold for either kind.

Only model-checked: all liveness properties (ENABLED is out of the prover's
reach); `HeadProofAvailable` and `SucceededIsReconciled`, whose `HeadSource` and
`Receipt` recurse over the recovery ancestry, so that they need induction over
data; and the invariants of the modules without a `_proofs` module.

## 5. What the checks say

The database's own guards (fence, generation, cursor, lineage) suffice for the
cursor chain and for the finality of a pause: no assumption about the executor is
needed.  Two things are the executor's doing and hold only of `ProviderImport`:
that a succeeded run has completed its reconciliation, since `finish` asks only
whether the source head was reached, and that an attempt in progress is current.

At the outboxes, nothing is lost and nothing is marked without its effect,
however often claims are taken over; the price is a second message, and only where
a claim lapsed or an answer was lost.  A promoted release is never forgotten by
the ledger that published it.  Retained values are those of the branch of releases
that is public, through rollbacks, replays and the migration.

## 6. Findings

`run_now_coalesces`: with an active run, `requestRunNow` inserts its command as
`pending` and updates it to `completed`, with the active run as result
(`packages/database/src/admin-provider-runtime-repository.ts:601`).  The trigger
`packscout_guard_control_command` (`migration.sql:2529`) does not allow that
change, and `packscout_assert_command_run_link` (`migration.sql:2483`) requires
the run to name the command.  The transaction is aborted, so the second click
fails rather than joining the work.  `docs/ingestion-pipelines/README.md:239` says
"`Run now` coalesces with an existing queued or running run."; the test that
expects "deduplicated" (`admin-provider-runtime-recovery-guards.test.ts:101`)
runs on a mock without triggers.  No second run is created either way.

What the models and the proofs brought up besides, without a run of its own:

* An executor reads the configuration before it takes the lease
  (`apps/worker/src/provider-manual-import-executor.ts:217`) and keeps it when
  recovery hands it an attempt (`:282`) that was started under a newer one: it
  captures a page with the older configuration, and the page is then refused as
  `config_mismatch`.  So `HolderIsCurrent` says "not newer than", not "equal to";
  the proof of the equality failed here.
* A queued run whose cached configuration has expired is refused by `start`, and
  `synchronizeConfiguration` refuses a new version while it is queued, so no
  transaction ends it (`provider-run-repository.ts:446`,
  `provider-runtime-repository.ts:348`).
* An email intent at its attempt limit whose claim lapses is claimed once more, as
  `claimDueBatch` does not look at the attempt count; the comment at
  `email-message-outbox-repository.ts:452` says that it converges on the limit.
* A product user who was seen while approved, before markers existed, is armed by a
  later decision (`convex/productUserRecords.ts:288`), although an admitted session
  came before (`:239`).  `ArmedAtFirstAdmission` excepts these (`Legacy`).
* A welcome whose settlement was lost for longer than the outbox keeps its history
  is enqueued again: the idempotency key is pruned with the intent, although
  `dispatch-service.ts:26` says that every enqueue for one identity converges on one
  intent "however the claim-enqueue-settle sequence is torn by a crash and replayed
  by a later pass".  `EnqueuedOnce` admits exactly this, a second insertion per pruned
  intent of the same identity, and no other.
* After an operator's rollback the mirrored state is not the public one, and the
  re-proof of a changed provider set refuses for ever
  (`catalog-promotion-bootstrap-proof-repository.ts:865`), since only a claim, which
  waits for the re-proof, could bring them together.  `LaneConverges` excepts
  behaviours in which an operator wrote the public state.
* A set from which a platform was removed that the public state still selects could
  never be proved (`catalog-promotion-bootstrap-proof-repository.ts:892`): claims wait
  for the proof, and only a claim could publish a state without the platform.  What
  prevents it is the approval, in another repository and another transaction: it
  refuses the removal (`catalog-release-source-repository.ts:466`, the function at
  `packages/database/prisma/migrations/20260816020000_provider_manifest_promotion/migration.sql:1187`),
  so the platform has to be disabled and cleared first.  `LaneConverges` is violated
  without that check, which is its mutant, and holds with it.
* A provider checkpoint turns `delayed` when a change settles after the last
  observation (`public-change-settlement-repository.provider-read.ts:447`), and under
  an unchanged observation and epoch `enqueueEvaluation` calls that a regression
  (`provider-promotion-repository.ts:238`).  Each cycle of that provider then ends
  before it claims, until the next observation, also one that would only complete a
  release which is public already.  `ProviderSettles` excepts the wait
  (`AwaitsObservation`).
* A recovery cycle that began while a provider was disabled may claim, and give up
  unsent, the evaluation of a provider that was enabled again meanwhile; the
  checkpoint coalesces with it and is not evaluated again (`GivenUpByRecovery`).
* An undispatched provider attempt that was superseded leaves operations behind
  whose identity is derived from the release (`provider-promotion-operations.ts:100`):
  a later attempt at the same release collides with them.
* The durable retry budget does not outlive an outage: a claim that is released
  unstarted while an episode is open writes `retry_attempt: 0` into the lane without
  asking whether the claim is still the run's
  (`provider-source-supervisor-unstarted-repository.ts:162`), although below it says
  "Preserve the page's durable retry budget so repeated admission waits cannot turn
  a bounded transient retry into an unbounded first attempt" (`:250`).  With a claim
  that stalls, is recovered and requeued meanwhile, one page can get more retryable
  answers than `providerSourceTransientRetryPolicy` has attempts.  The proof of the
  bound across outages failed here, and TLC confirmed the behaviour on a longer
  instance than the run's; `RetriesBounded` counts between outages.
* A begin that finds its work stale and cannot record that either ends in the
  fencing of the whole supervisor process
  (`apps/worker/src/provider-source-supervisor-executor.ts:669`).

## 7. Not modelled

Records inside a page, quarantine and fact promotion; schedules, heartbeats,
failure counters, audit and outbox rows written beside the modelled ones; budgets
and deadlines beyond "may expire now"; methods without a caller
(`PrismaProviderRuntimeRepository.transition`, `PrismaProviderRunRepository.commitPage`,
`terminalizeAccepted`, `start` without a queued run); the guarded resume and the
recovery options of `requestRunNow`, which only refuse more.  Profile publication
of packs, manifest composition, receipt and proof validation, the contents of
search shards; connection tests, revision rotation and cursor resets of the source
supervisor.  Of whole components: the lane supervisor, catalog retention, heat
promotion (the protocol of manifest promotion for one more artefact), the older
central scheduling, the V3 provider observation (one guarded update), auth,
calculators, adapters and user interfaces; `PROJECT.json` gives the reason for
each.

## 8. Plan

In this order:

1. `ManifestPromotion` and `ProviderPromotion`: the parts of their invariants that
   relate a lane's mirrored state to the public one, and `AppliedIsKept`.
2. `DataReleaseV3`: the parts of `V3Invariant` about the active release and its
   journal, as far as they do not walk the branch recursively.
3. The manual import lane supervisor, as a module that drives the executors of
   `ProviderImport` from the lanes' schedule.

Out of the prover's reach, and left to TLC: the liveness properties, and what
recurses over data (`HeadProofAvailable`, `SucceededIsReconciled`, the branch of a
V3 release).
