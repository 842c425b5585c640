# A verification project for AgenticPerformance (APL)

APL watches the agents of a product, scores their versions and improves them.
Its code is a library (`src/packages/core`) of mostly pure decisions, and two
processes around it: an ingest server (`src/apps/ingest`) and an improvement
worker (`src/apps/worker`), both on PostgreSQL. This directory holds TLA+ models
of it, TLC runs that check them on small instances, and proofs that TLAPS checks
for every value of the constants. `PROJECT.json` maps each definition to the
lines it models; paths below are relative to `src/packages/core/src` unless they
begin with `apps/` or `deploy/`.

## 1. The system

| Component | State | Operations | What must hold |
|---|---|---|---|
| Sweep worker: `apps/worker/src/{index,store}.ts`, `improve/worker.ts`, `improve/loop-budget.ts`, `database/client.ts` | rows of `apl_improvement`, advisory lock, pool of sessions, budget tracker | hourly timer, try-lock, read due rows, resolve, guarded UPDATE, unlock | one sweep at a time across replicas; rows move along the lifecycle only; budgets and kill switch bind; a crash costs nobody the lock |
| Ledger: `improve/ledger.ts`, `improve/canary.ts` | status of a row | `advance`, `canTransition` | terminal statuses are terminal |
| Ingest server: `apps/ingest/src/{handler,index}.ts`, `database/schema/trace-span.ts` | rows of `apl_span`, requests in flight | admit, map group by group, INSERT, reply | what is acknowledged is stored; retries that race lose nothing |
| Mapping: `ingest/*.ts`, `contract.ts`, `normalize.ts` | none | OTLP/JSON to payloads to rows; two conventions to one model; equivalence | rows keep their trace and agent; equivalence does not depend on convention, order, internal spans |
| SDK and sampling: `sdk.ts`, `sampling.ts`, `deploy/otel-collector.apl.yaml` | spans of a task, keep hint; the Collector's buffer | run a task, wrap tools, record outcomes; tail sampling | failed and slow traces are kept |
| Eval gate and submission: `eval/gate.ts`, `improve/{submit,autonomy,content-safety,proposer}.ts`, `scorecard.ts` | stored scores, version in production | propose, screen, score, gate | no regression on a frozen set; nothing unscreened or unscored is released |
| Judge: `judge/*.ts`, `ai.ts`, `vendor/calibration-math.ts` | stored calibration | run, calibrate, check staleness, gate | a judge gates only on what it itself measured |
| Cycle of Trust: `improve/eligibility.ts`, `hitl/reviewer-ops.ts` | level, streak, intensity | graduate, demote, next intensity | trust is earned and decays |
| Corpus: `eval/mining.ts`, `improve/independence.ts`, `hitl/{stratified,review-capture}.ts` | cases, consumed ids | split, cap, sample, capture | a case stays on its side of a split |
| Canary: `improve/routing.ts`, `improve/canary.ts` | outcomes per arm | assign, count, decide | stable arms, decisions on evidence |
| Clusters: `failure/{cluster-identity,trend}.ts` | clusters of the last run, counts per window | match, detect new, spike | series continue; alerts are for new ones, and judged by the history |
| Failure vocabulary: `failure/{taxonomy,stage}.ts` | controlled vocabulary, pending labels | code, add, attribute, roll up | a coded failure stays coded; a retrieval miss is not blended away |
| Drift: `drift/behavior.ts` | baseline mix of tool calls | mix, compare, alert | an alert is some tool's shift |
| Gold probes: `judge/gold-probes.ts` | probe outcomes | sample, accuracy in a window, alert | the alert follows the judge, down and up |
| Retrieval eval: `eval/retrieval.ts` | prior run, last gate decisions | metrics, gate, pass^3 | better rankings score no less; what ships held up three times |
| Provenance: `eval/provenance.ts` | rubric version on each Judge Card | re-baseline targets, anchored | a bump reaches every card that is behind |
| Schema: `database/{client,schema/*}.ts`, `drizzle/*.sql` | rows of all tables, tenant setting of each connection | `withTenant`, insert, delete, read | what requests see and stamp is their tenant's; references resolve |
| Adapters: `adapters/*.ts` | none | statuses and steps to a trace | their traces are equivalent to any other of the same run |

The processes meet in the database and nowhere else. A Collector between agents
and ingest server retries and samples; an orchestrator (which the code leaves to
the product) calls the library and stores what it returns. Where an action of a
model is the orchestrator's, the Collector's, PostgreSQL's or the clock's,
`PROJECT.json` marks it external.

Not modelled: `drift/representativeness.ts` (centroids of real vectors and the
area under a curve of cosines), and the numeric reports of the judge (ECE, Brier
score, swap consistency): integers do not say what they compute. The family of a
provider (`judge/independence.ts`) is a table lookup; costs and the benchmark
are arithmetic and a timing harness, redaction is regular expressions.
`validateImprovement` and `isWritable` have no caller under `src/`. Of the
scorecard, budget rows, cost per outcome and the ten largest clusters are
projections without a state. Of the schema, columns that no key, policy or
trigger names, CHECK constraints, indexes and the retention of `apl_span`.
`shouldHeadSample` (`sampling.ts:26-31`) decides by a hash of the trace id against
a ratio whether to drop a trace at its start; only its test calls it, and
`TraceSampling` is of the traces that it keeps.

The hard behaviours: overlapping timers and replicas around a session-level
lock taken through a pool; statements that outlive the process that sent them;
a status read before several awaits and written after; retries of a batch whose
first attempt still runs; a body written group by group without a transaction;
spans that arrive in the order they end; tenants that share connections, and
concurrent deletes of what is referred to; scores, calibrations, cards and
clusters that are stored now and compared later. `PROJECT.json` lists them under
`hazards`, each at its line. What the code is exposed to beyond that list is in
section 3, under the claims that have a configuration of their own.

## 2. Modules

| Module | Models | Correspondence |
|---|---|---|
| `Ledger` | statuses, transitions, `advance` | `Advance` returns status and `changed` |
| `LoopBudget` | tracker and `shouldStop` | pure, the clock and the kill switch are arguments |
| `SweepWorker` | the deployed worker | one action per stretch of JavaScript between two awaits: it takes an answer off its session (`wire`) and sends the next statement; `Exec*` are the server executing a statement, later and also for a client that is gone; `QueryFails*`, `DatabaseUnreachable`, `Crash`, `SessionEnds` are the failures |
| `LedgerLifecycle` | what readers of the ledger are promised | abstract specification, implemented by `SweepWorker` |
| `SweepWorkerProofs` | proofs about `SweepWorker` | section 5 |
| `Normalize`, `TraceMapper` | conventions, shapes, rows | operators, attributes are functions on the keys present |
| `Equivalence` | `canonicalEquivalent` on emissions of agent runs, the adapters' among them | a run is a tree; an emission chooses convention, order, internal spans |
| `Ingest` | handler, INSERTs, exporter | one action per await of `createHandler`; attempts of one batch are handlers of their own |
| `IngestPromise` | what the endpoint promises | abstract: groups kept whole and in order, acknowledged only if all are |
| `TenantStore` | tables under row-level security, `withTenant` | one action per statement of a transaction, and one for a plain statement; foreign keys, unique hashes and triggers are the migrations', which connection the pool hands out is any idle one |
| `TraceSampling` | a task's spans, the Collector's decision, the SDK's model of it | one action per SDK call |
| `EvalGate`, `PatchScreen`, `ReleaseGate` | the gate, the screens, and releases over a golden set that grows | the gate and screens are the code's, the order of calls the orchestrator's |
| `RetrievalEval` | metrics of a ranking, the retrieval gate, pass^3 | one action per run of the harness; storing the prior run is the orchestrator's |
| `Calibration`, `JudgeLifecycle` | verdict parsing, stratified calibration, staleness, status; a judge over its life | one action per example judged |
| `GoldProbes` | probe sampling, window and drift alert | the judge drifts and recovers, the alert is asked for of any moment |
| `Rebaseline` | `rebaselineTargets` while a rubric is bumped during calibrations | the targets are the code's and computed at a bump, calibrations the orchestrator's |
| `TrustLadder` | graduation, demotion, sampling intensity | |
| `HashUnit`, `CorpusSplit`, `CanaryRouting` | `hashUnit` and what is cut by it | `Unit` is any function into 0..99 |
| `ClusterIdentity` | durable ids over runs | similarity is a function on pairs of labels |
| `ClusterTrend` | EWMA and the spike bound | one action per window |
| `FailureTaxonomy` | coding against a vocabulary that reviewers extend; attribution to a stage and its roll-up | a reviewer reads, decides and stores in three steps |
| `BehaviorDrift` | distance between two mixes of tool calls | one action per call, one that records the baseline |
| `LibraryProofs` | proofs about the splits, the routing, the ladder and the re-baseline | section 5 |
| `GateProofs` | proofs about `JudgeLifecycle`, `GoldProbes`, `ReleaseGate`, `RetrievalEval` | section 5 |
| `TelemetryProofs` | proofs about `TraceSampling`, `FailureTaxonomy`, `ClusterIdentity`, `ClusterTrend`, `BehaviorDrift` | section 5 |
| `EquivalenceProofs` | proofs about `Normalize` and `Equivalence` | section 5 |
| `IngestProofs` | proofs about `Ingest`, and that it implements `IngestPromise` | section 5 |
| `TenantStoreProofs` | proofs about `TenantStore` | section 5 |
| `DataLemmas` | facts on numbers, finite sets and sequences the proofs share | section 5 |
| `MCGates` | judge, probes, rubric, release and retrieval in one instance | `turn` names the one that moves |
| `MCStandalone` | the other ten components with a state of their own in one instance | likewise |
| other `MC*` | instances for TLC | constants only |

The components of `MCGates` and of `MCStandalone` name their initial predicate,
next-state relation and specification after themselves (`LadderInit`,
`JudgeNext`, `CanarySpec`), so that one module can extend them all. None reads
or writes a variable of another, hence what one can do in any interleaving it
can do alone, and a run in which one moves per behaviour checks every property
of each, at the sum of their state spaces and not their product.

Operators introduced by "As if ..." or "A bug a maintainer could introduce" are
mutated forms of the definition that follows them. Each property of a passing
run names one, with which TLC finds it violated under the run's own
configuration; no specification uses them.

### Abstractions worth knowing

* Texts are the set of markers the code's patterns find in them; replies of a
  judge are the words of their first line. Attributes are present or not.
* `SweepWorker` has one check per iteration where the code has two: between them
  there is no await and no change of what they look at (same `nowMs`, same
  tracker, same `process.env`), so the second always agrees.
* `Available` lets the pool hand out any idle session. A run that goes on stays
  on its session, because pg's pool hands out the one returned last and the
  release and the next query are in one callback.
* `CanonicalParentPath` is bounded by the number of spans; the code's loop does
  not end on a cycle of parents, which emitted traces do not have. The sorted
  strings of `canonicalShape` are compared for equality only: `CanonicalShape` is
  the bag of them, a string being an operation and the operations it is nested in.
* An id of a span in `Equivalence` is a number: `2 * i` for operation i of a run,
  `2 * i - 1` for the internal span above it. The code only compares ids.
* The Wilson bound is compared in integers, squared; rates are in percent.
* `JudgeLifecycle` uses one age for `maxAgeDays` and `recencyWindowDays`, which
  the code leaves to two callers.
* `CorpusSplit` has both splits of the corpus, with fractions that need not fit
  together, as nothing in the code relates them. `NoLeakage` is of each split by
  itself; that no case crosses from one to the other is refuted
  (`NoLeakageAcrossSplits`).
* In `ReleaseGate` the proposal and the submission each come with the names of the
  tools or without, and a person's submission with the artifacts its patch is made
  of or without, since these inputs are optional; what is not passed is not
  screened. A score is by code alone or by a judge in any state of calibration.
* `ClusterIdentity` gives every run fresh temporary ids; the code leaves that to
  its caller.
* What the code computes in floating point is compared exactly: the average of
  `ClusterTrend` is a fraction of integers, whose unit grows tenfold with each
  window, and its bound is compared squared;
  `BehaviorDrift` multiplies by the totals of both mixes; recall and reciprocal
  rank in `RetrievalEval` are in parts of `Scale`, which every denominator of
  the instance divides. Only the discount of NDCG is rounded, to thousandths; it is
  given for the first four positions, and no ranking is longer
  (`RetrievalAssumption`). `IdealGrades` counts what is above a grade where the
  code sorts.
* A label of `FailureTaxonomy` is a word in one of three forms: plain, with
  capitals, with extra spaces; normalization maps all to plain.
* In `TenantStore`, locks and settings are as PostgreSQL treats them: a statement
  that would wait is not taken until the other transaction is over; a setting
  local to a transaction leaves the empty string behind it. Two rounds of
  `Cascade` are as deep as the foreign keys go.
* What a row refers to in `TenantStore` is any row of the right table, whoever's it
  is: `withTenant` runs what it is given, and the keys name ids alone. Keys are
  checked and cascades executed past the policies, so both may cross tenants.
* `policed` says whether the policies apply to the role that connects. They do not
  to a superuser, even if forced, and `docker-compose.yml:35,48,60` and
  `.env.example:6` connect as `postgres`. The model has both; what holds in the
  one only says so.
* A bump is the one trigger of a re-baseline that `provenance.ts:56-59` names, so
  `Rebaseline` computes targets then and at no other moment. `lapse` is history: it
  keeps which calibrations left a judge behind since the last bump.

## 3. Runs

Passing runs and what they show:

| Run | Bounds | Shows |
|---|---|---|
| `sweep_replicas` | 2 replicas, 2 runs, 3 sessions, 2 rows, 2 faults | one sweep at a time on fresh rows, and the worker implements the lifecycle, while others approve and reject proposals |
| `sweep_overlap` | 1 replica, 2 overlapping runs, 2 sessions, 3 rows, caps of 2 rows and 1 verify failure, a kill, 1 fault | two runs in one pool do not re-enter the lock; caps and kill switch bind each |
| `sweep_liveness` | 2 replicas, 1 row, 1 fault | the lock is freed and the work gets done |
| `ingest_delivery` | 2 batches of 2 groups, one of them kept in part; each of three batches the server refuses; 2 attempts, 1 fault | acknowledged is stored, groups whole and in order, attributed to the root; timeouts alone lose nothing; every batch is resolved |
| `gates` | judge: 2 prompts, 2 snapshots, an alias, 4 labeled examples, an age of 1 in 2; probes: window 2, 4 outcomes, time 4; rubric: 3 judges, 3 versions; release: 2 cases, 4 stored runs, a tolerance of one case, every kind of patch and of judge; retrieval: 2 graded cases, 4 gate runs | a judge gates on its own, current measurement; the drift alert follows the judge; a bump reaches the cards that are behind; screens, frozen sets, drift of at most the tolerance per release; better rankings score no less, what ships passed three times in a row |
| `tenancy` | 2 tenants, 2 connections, 6 tables, 3 rows, a role with the policies or without | a request stamps its own tenant and, where the policies apply, sees no other, also after failures and on a connection another tenant had; what rows refer to exists, whoever's it is, under concurrent deletes |
| `standalone` | ladder: floor 2 %, 3 clean runs; splits and routing: a hash for each side of each cut; clusters: runs of 2 out of 4 labels, 6 ids; trend: 4 windows of 7 possible counts; vocabulary: 3 words, 2 reviewers; stages: 4 failures; tool mix: 3 tools, 5 calls; sampling: 2 tools, wait 2, time 3; equivalence: runs of up to 4 operations with themselves, pairs of up to 3 | trust is earned, oversight returns faster than it went; no leakage within a split; stable arms, decided on evidence; ids, series, alerts; spikes judged by history; codes are stable, retrieval is never blended; drift is some tool's; failed traces that arrive whole are kept; equivalence ignores what it should and keeps the calls |

The bounds are the smallest at which the cases meet. A second replica, a second
run in one replica and a third session give every way two sweeps can share or
not share a session, with one left to reconnect on; two faults lose a session
and crash its process, or crash both replicas. A batch of two groups and two
attempts has the interleaving in which each attempt holds a group the other
needs. Rates of two cases are 0, 50 and 100 and the tolerance is 50: two releases
in a row lose the tolerance each, and one that loses both cases is refused; a set
that grows in between has a third run on it;
three runs in a row for pass^3, and a fourth for a failure before. Three rows and
six tables give a row, what it refers to and a third that holds either, with
each of the three rules of a deletion; two connections are a transaction and
one that interferes. Models that count (releases, ids, the Collector's clock)
reach their bound and stop, and their configurations switch deadlock checking
off; the others check it.
Symmetry is used for values a module only compares (sessions, tools, reviewers,
prompts, snapshots, cases), in runs without liveness.

Runs that TLC refutes, each a place where the code and a text of the repository
disagree (`findings` in `PROJECT.json` quotes both):

| Run | What TLC shows |
|---|---|
| `sweep_stale_write` | a row rejected during a sweep is moved out of `rejected` |
| `sweep_timeout` | the sweep's wall-clock limit never trips: `nowMs` is read once |
| `ingest_nested` | a sub-agent that ends first takes the attribution of its trace |
| `sampling_slow` | a slow task is decided on before its own span ends |
| `tenancy_unset` | after a `withTenant` on a connection, a plain statement there fails instead of using the default tenant |

Smaller disagreements have a configuration, outside the regular runs. TLC
refutes every property they name but `TypeOK`; the comment above each quotes the text. TLC
stops at the first it refutes, so to see another, leave only that one in the
configuration.

| Configuration (module) | What TLC shows |
|---|---|
| `SweepKill` (`MCSweepWorker`) | flipping the kill switch does not reach a running process |
| `SweepStarved` (`MCSweepWorker`) | undecided rows use up the cap of every sweep |
| `IngestClaims` (`MCIngest`) | a group of several traces gets one trace id (`TraceKept`); a protobuf body is acknowledged and dropped (`AckedStored`) |
| `TenantsHistory` (`MCTenantStore`) | deleting an agent takes its append-only versions along (`HistoryStays`); for a superuser, whom no policy binds, requests reach other tenants' rows (`IsolatedInAnyRole`); where the policies apply, a row may refer to another tenant's (`ReferencesStayInTenant`) and goes when that is deleted (`CascadesStayInTenant`) |
| `GatesClaims` (`MCGates`) | a judge without a named model gates on what another measured (`GatesOnItsOwnMeasurement`); "FAIL ... supported" is a pass (`FailIsNoEndorsement`); a card stays stale, and its judge unasked for, after a first calibration that a bump overtook or one that failed (`StaleCardsAreAskedFor`); a tool's name is released when the names are not passed (`NoToolNameReleased`), an example from an artifact that was not passed (`NoPoisonReleased`); the score curve stays on a version's first set (`ScoreCurveIsCurrent`); a set without a human label releases (`ReleasedOnAnchoredSet`); the retrieval gate compares recalls of two sets (`ComparedOnOneSet`) |
| `StandaloneClaims` (`MCStandalone`) | a task that throws is no error (`ThrownTaskKept`); cluster ids depend on the numbering of a run (`SameFailSetSameIds`); runs that distribute calls differently are equivalent (`EquivalentIsSameTree`); omitted findings count as none (`NoGraduationWithFindings`); one split trains on what the other holds out or seals (`NoLeakageAcrossSplits`); of two reviewers one stores over the other's label (`AcceptedStays`) |

What holds and is too close to the code to be a run's property is proved instead
(section 5): the types of `Ingest`, `TenantStore` and `ReleaseGate`, that the two
rules of what may gate agree (`StatusRulesAgree`), and `RuleIsSymmetric` and
`ReviewsKeepTheRatio` of the library.

## 4. Fairness

* Worker: the server executes what it was sent and ends sessions whose client is
  gone; timers fire and answers are processed; a supervisor restarts a replica.
  Weak fairness per session, run and replica. Nothing is assumed of failures, of
  the operator, of the pool's reaper or of the clock.
* Ingest: the exporter posts, reads replies and notices resets; the event loop
  serves; the database executes. `ClientTimeout` is not fair: a server that
  answers is waited for.

All weak: each action stays enabled until taken. The other specifications have
no liveness property and state no fairness.

## 5. Proofs

`SweepWorkerProofs` proves, for any replicas, runs, sessions, rows, resolver,
budget and number of failures:

* `TypeCorrect`: `Spec => []TypeOK`.
* `SingleRunnerHolds`, `NoIdleLockHolds`: mutual exclusion of sweeps, and that a
  pooled idle session has given the lock up. Neither is inductive: what keeps two
  runs apart is not in their own records but in what is in flight. `SessionInv`
  says, for each session, how its message tells whether it holds the lock
  (`SessionOK`), for each run, which messages it may wait for and that no other
  run has its session (`RunOK`), and that at most one session holds the lock
  (`OneHolder`). It is preserved by every action (`ServerSession`, `RunSession`,
  `FailureSession`, `ProcSession`, `EnvironmentSession`) and implies both.
* `FreshSnapshotHolds`, `ImplementsLedgerHolds`: under `SweepOwnsInFlight`, that
  nobody else moves rows that are approved or in canary, a sweep decides on
  current statuses and every change of a row is a step of `LedgerLifecycle`. The
  invariant is `FreshInv`: rows selected or due are as they were read, none of
  them is the one being written, and an UPDATE in flight is an allowed transition
  of the row as it is. It needs `SessionInv`, without which a second sweep could
  move a row in between. The assumption is needed: `sweep_stale_write` is the
  counterexample without it.
* `WithinBudgetHolds`, `KilledReplicaNeverWritesHolds`: the stop contract. Both
  need what the check before a row left behind: a run that writes has room in its
  budget for that row and one more failure (`TrackerOK`), and its replica's switch
  is off and stays so, because the switch changes only at a start and no run
  outlives its replica (`KillOK`). `LimitsInv` is their conjunction over the runs.

Assumptions: those of the constants (`SetsAssumption`, `NamesAssumption`), which
TLC evaluates in every run of the worker.

`LibraryProofs` proves of the library's decisions, for every value of their
constants:

* `NoLeakageHolds`: what was tuned on was neither scored nor shown to the gating
  judge, and what was trained on never scored as held out. That the sets do not
  meet does not follow from itself: a step adds a case to one of them by its hash,
  so `SidesInv` says on which side of its split's cuts the members of each lie.
  The sides of a split are apart because a unit is one number (`UnitAssumption`),
  for any fractions of the two splits.
* `CanaryTracesStayHolds`: from `ArmsInv` (a trace on the canary would be routed
  there again, until a rollback) and `RampKeepsTheCanary` (a higher ratio keeps
  whom a lower one took).
* `DecidedOnEvidenceHolds`: a decision is `AbDecision` of the tally it was made
  on (`TallyInv`; outcomes stop at a decision), a lead of one arm is the other's
  deficit (`LeadIsOpposed`), and a margin in percent of the products is no
  less than zero (`MarginIsNoLess`).
* `TrustIsEarnedHolds`: `LadderInv` is the property with the types of the
  counters, which the comparisons need.
* `OversightReturnsFasterHolds`: `ReturnsInv` bounds the intensity from below by the
  powers of the step (`PowersOfStep`) for the halvings not made good. Its
  hypothesis, `IsLadder(Rungs)`, is that on the intensities that are reached the
  integer division of the model is what the code's division is: exact, unless
  the floor cuts it off anyway. Without it the theorem is false (from 25, half
  of it is 12). The instance has it, with the twelve rungs from 3200 halved down
  to 100 and from 2048 down to 64.
* `BumpsReachStaleCardsHolds`: the property says nothing of a judge while it is
  calibrated. `CardsInv` adds that a judge with a card whose calibration a bump
  overtook is asked for, so that it still is when the calibration ends and leaves a
  stale card; and that no card is ahead of the rubric, so that a bump finds
  every card behind.
* `RuleIsSymmetricHolds`: the rollout rule is the same seen from either arm;
  again because a lead is the other's deficit.
* `ReviewsKeepTheRatioHolds`, if the corpus is finite (`IsFiniteSet(Cases)`, as a
  capture of stored cases is): what is drawn from the routine cases has the size
  that was asked for, and that size is the ratio rounded up.

`IngestProofs`, for any bodies, limits, attempts and faults:

* `IngestTypeCorrect`: what is stored is rows of what was posted.
* `AckedStoredHolds`: neither the exporter's "acked" nor a reply of 200 says by
  itself what the store holds. `IngestInv` says it of what comes before: an
  INSERT in flight is of a group the loop has come to, with all groups before it
  written; one that was stored has its own written too; 200 is sent after the
  last. It speaks of the handlers that are gone as well, whose INSERT is still
  executed. That a written row is one of its span needs that the keys of an
  accepted INSERT are unique (`TimingIsOwn`: the start of a row is looked up by
  the id of its span). The hypothesis is that bodies are JSON; `IngestClaims`
  has the counterexample without it.
* `ImplementsPromiseHolds`: every step is a step of `IngestPromise` or a stutter.
  Besides `IngestInv` it needs `KeptInOrder`, that the stored groups of a batch
  are its first ones: an accepted INSERT of group k then finds exactly k-1
  groups kept, because if group k were there its keys would conflict
  (`NextGroupIsKept`). The hypothesis `RowsApart` says that rows of different
  groups have different keys, as ids of spans are random. Two encodings of one
  span in two batches would let one INSERT keep, or block, a group of the other.

* `AttributedHolds`: a row is looked up three times, for its agent in the list of
  normalized spans, for its start in the list as posted, and by its key when it
  is stored. `IdentityIsKept` says that normalizing loses no agent's identity in
  either convention, `AgentOfTheOnly` that the first agent's span is the root
  if there is no other, and `TimingIsOfTheId` that a stored key leads back to
  its group. Its hypotheses are about what is posted: `SpansApart` (spans of
  different groups differ in id or start) and `AgentsAreRoots` (a group that has
  a root has no agent but that). `IngestNested` has the counterexample without
  the second; the instance of `ingest_delivery` satisfies both.

`TenantStoreProofs`, for any tenants, connections, tables, hashes and number of
rows, without a hypothesis:

* `TenantsTypeCorrect`, `IsolatedHolds`, `ReferencesResolveHolds`, all from one
  invariant, `TenantInv`. Isolation is not inductive, since what a statement
  sees and stamps depends on a setting of its connection that outlives requests:
  `RequestsOK` says that an idle connection has no tenant and one in a transaction
  that of its request. `OwnersOK` gives every uncommitted row to an open
  transaction. `ReferencesOK` states per column what `ReferencesResolve` states per
  row: what is referred to is live, of the table the key names, and is committed
  or a row of the same transaction, whichever tenants the two are of. The hard
  steps are the deletes: two rounds of `Cascade` take along all that refers to what
  is deleted, because keys are no deeper (`KeyShape`, `ReferenceShape`), and a
  delete waits for whoever holds a row it would take.

`GateProofs`, for every value of the constants:

* `GatesOnItsOwnMeasurementHolds`, `RubberStampNeverGatesHolds`: `JudgeInv` says of
  a calibration in progress that every result is what the reply says and that
  only the model named at its start was asked, and of a stored one that it was
  measured on the snapshot it names, with different replies if it says
  "calibrated". The latter is `CalibratedSawBoth`: a lower bound above the
  threshold needs a success (`BoundNeedsASuccess`) in each stratum. The first
  theorem has the hypothesis that a judge names its model (`~MayBeUnset`);
  `GatesClaims` has the counterexample without it.
* `AlertFollowsTheJudgeHolds`: by `ProbesInv` a wrong answer was given by a judge
  that had drifted, so that a window of a calibrated judge has the pass rate
  one. The hypothesis `Drop < Baseline` says that there is a rate below the
  bar; with a tolerated drop of the whole baseline nothing raises an alert.
* `ReleaseTypeCorrect`, `ReleasedThroughEveryCheckHolds`,
  `NoRegressionReleasedHolds`, `DriftIsBoundedHolds`: `ReleaseInv` has the types of
  what is under evaluation (`ControlInv`), and ties what is in production to the
  submission and the judge it went through the checks with, and a release to the
  stored run it was made on (`ReleasedInv`). A release is compared with the newest
  stored run of the version in production, while the bound on drift is about the
  run that version was released on. The two are one when both are on the same
  golden set: sets only grow, and no version has two runs on one set (`RunsInv`,
  `OneScorePerSet`). Drift over k releases is by induction on k.
* `ShippedHeldUpThriceHolds`: by the invariant that the runs of a change were each
  decided against the prior run there is now, until the set of cases changes.
* `BetterRankingsScoreNoLessHolds`: in every state the answers are rankings of
  the cases (`AnswersInv`), and the rest is arithmetic, for any grades. The grades
  of the first k memories of a ranking that names none twice sum up to no more
  than the first k of the ideal one (`IdealGainsMost`: take the least relevant
  memory out, the others are an instance with k - 1), and what is no more in
  every first sum is no more in the discounted sum, because discounts fall
  (`WeightedIsOrdered`): hence no NDCG is above 1. To exchange two neighbours
  changes two terms of a gain (`NdcgOfSwapped`), moves the first hit up if it moves
  it (`ReciprocalRankOfSwapped`) and can only bring another memory into the first k
  (`RecallOfSwapped`). A ranking may name a memory twice, as the code allows. Two
  clauses are false of those and exclude them: that NDCG is at most 1, and that
  recall grows when the memory moved up was already found above.

`TelemetryProofs`, for every value of the constants:

* `FailuresKeptHolds`, `ModelIsSoundHolds`: `SamplingInv` ties the flags of spans,
  set by the SDK while they are open, to the Collector, which sees only what has
  ended: a failed tool has its error status and the task its keep attribute when
  they arrive, and a decision that was taken was taken on what had been seen.
  `EndedSpansAreFrozen` makes what the Collector saw what there is.
* `CodingIsStableHolds`: in any interleaving of reviewers, of which one may store a
  vocabulary it read long ago, every vocabulary extends the initial one with plain
  labels (`GrownFrom`), and coding against any of them gives one label
  (`GrowthKeepsCoding`). That labels are lost to a later store
  (`StandaloneClaims`) does not hurt: what was coded with them is coded as itself.
* `AlertsAreForNewSeriesHolds`, `SeriesContinueHolds`: `MatchClusters` is recursive.
  `MatchingAssigns` shows that it assigns each candidate what one pass of the loop
  assigns it, given those before; from there `PriorInv` (stored ids were given,
  and each once) gives that no two clusters of a run get one id.

* `SpikesAreJudgedByHistoryHolds`: the moving average lies between any two bounds of
  the windows it is the average of (`EwmaIsBetween`, over the windows), so a count
  above it is above one of them; and the bound grows with the average
  (`BoundsAreOrdered`), although it is compared squared and in another unit.
* `AlertIsSomeToolsShiftHolds`: the shares of a mix sum up to one, so what some
  tools gain the others lose (`ShiftsCancel`), and the sum of all distances is
  twice what the gaining tools gain (`SumOfGains`). No set of tools gains more.

* `RetrievalIsNeverBlendedHolds`: a row stands where its rank says, and the ranks of
  an ordered finite set number it (`RanksAreNumbers`), so the sum over the rows is
  the sum over the stages that have failures (`SumOverBijection`), which is that over
  all stages (`SumOfNonzero`). `StagesInv` says that this is the number of failures
  and that each was attributed by its signals, of which retrieval is the first.

`EquivalenceProofs`, for any pairs of runs, of any length and shape:

* `SameRunIsEquivalentHolds`, `EquivalentMakeTheSameCallsHolds`, both from one
  invariant, `RunsDecide`: whatever two runs arrive as, the answer is whether
  they make the same calls on the same paths, each as often. An emission holds
  each span of the run once, in one order or the other (`EmitIsTheSpans`). Each
  source of traces gives every operation what the contract asks for under the
  names of its convention, and an internal span nothing that is classified
  (`GenAIEmissionArrives`, `AgenticOpsRunArrives`, `OpenInferenceEmissionArrives`,
  and `AgenticMindRunArrives`, where the adapter finds the root because it is the
  one operation without a parent, `RootIsStamped`). So the normalized trace
  `Carries` the run, and the walk to the root finds the path of the run
  (`WalkedAll`, by induction on how far down a span is: parents have smaller ids,
  so that the bound never cuts the walk off). The shape is then the bag of the
  calls of the run (`ShapeIsThatOfTheRun`), which the ids and the order of the
  spans do not enter. Two emissions of one run have one bag; and a bag tells how
  often an operation calls another, since the caller is the last of a path
  (`CallersEndPaths`, `SameBagSameCounts`). Which instance of an operation calls
  is not in it: `StandaloneClaims` has two runs that differ in that alone
  (`EquivalentIsSameTree`).

`DataLemmas` holds what these rest on, sums over finite sets included: the
community modules define a sum by choosing one element after the other, and the
lemmas show that it is defined (`SumIs`), that it does not matter which element
comes first (`SumOfOneAndOthers`), and that it is linear (`SumIsLinear`). An induction theorem with a predicate as
its parameter cannot be instantiated here, so an induction over data is made by
its least counterexample: `LeastOf` and `LargestOf` are stated of a set of
numbers, from the well-foundedness of `<`.

Assumptions: those of the constants, named after their module
(`UnitAssumption`, `SplitAssumption`, `TrendAssumption`, ...), all evaluated by
TLC in `standalone`, `gates`, `ingest_delivery` and `tenancy`. A further hypothesis
of a theorem is in its statement.

Every invariant and every action property of a passing run is the statement of one of
these theorems. What stays with TLC, and why:

* Liveness and what mentions ENABLED: `LockEventuallyFree`, `DecidedRowsAdvance`,
  `EveryBatchResolves`, and `TimeoutsLoseNothing`.
* Everything about what TLC refutes, under its own configuration.

## 6. Plan

Done: the worker with its proofs, ingest with its promise and proofs of both,
tenants and keys of the schema with theirs, one model of each stateful decision
of the library, and proofs of all of them.

Left to model: groups of mixed conventions in `Ingest`; `validateImprovement`
and writers of the ledger, once something calls them.

Left to prove: nothing that a run checks, but for liveness. A shape of any trace,
not only of one that was emitted, and rankings of more than four memories would be
more general.
