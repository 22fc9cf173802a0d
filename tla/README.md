# Formal models of mma-model

mma-model predicts the bouts of the weekly Dana White's Contender Series cards,
publishes a dashboard of them and grades what it published. It runs unattended:
a systemd timer starts a scheduler tick every five minutes on one small host, the
ticks share one SQLite database and one publish root, and they spend the monthly
credits of one odds provider. What is hard to test there is what happens *between*
the steps: a tick killed half way, a second one started beside it, a start time
that moves, a rename that fails, an answer that was charged and never arrived.

This directory holds TLA+ models of those parts, TLC instances that check them,
and proofs, checked by TLAPS, of the properties that matter most. Paths below
are relative to the repository root; `jobs/due.py` and the like abbreviate
`src/mma_model/jobs/due.py`.

1. [The system](#1-the-system)
2. [The models](#2-the-models)
3. [What the runs check](#3-what-the-runs-check)
4. [Fairness](#4-fairness)
5. [What is proved](#5-what-is-proved)
6. [Where the code and its documents disagree](#6-where-the-code-and-its-documents-disagree)
7. [What is not modelled](#7-what-is-not-modelled)
8. [Plan](#8-plan)
9. [Running it](#9-running-it)

## 1. The system

### How the parts interact

    systemd timer (5 min)
       |  deploy/run-job.sh: host flock /run/mma-writer.lock, 1500 s limit
       v
    mma-model jobs tick  (a container of its own)
       |  cli.py: one SQLAlchemy session = one SQLite transaction per tick
       v
    jobs/orchestrator.py ----- jobs/due.py (what is due at as_of)
       |      |                jobs/ledger.py (pipeline_job_runs)
       |      +--------------- jobs/locking.py (overlap flock)
       v
    jobs/handlers.py, jobs/live_engine.py
       |-- discover, identity, ingest-history --> sources/, ingest/, identity/, history/
       |-- snapshot-odds --> jobs/snapshot_odds.py --> odds/ (quota, matching, store)
       |-- score, recommend --> features/, modeling/, recommend/, value/, grade/
       |-- publish --> publish/builder.py --> observability/publish_guard.py (releases/, current)
       |                                  --> publish/public_sync.py (live/) --> web/
       |-- results, grade, reconcile-* --> labels/, markets/, grade/service.py
       |-- retrain --> modeling/registry.py
       `-- backup --> backup/service.py

    also started by an operator, without the scheduler and its locks:
    mma-model publish, jobs snapshot-odds, odds backfill, identity and match reviews,
    model promote/rollback, deploy/rollback.sh

The shared state is: the SQLite database (one writer at a time, readers see the last
commit), the publish root, the model registry's YAML file, the raw payload and HTTP
caches, three lock files (host, overlap, one per odds command), and the provider's
account, which only the provider knows.

### Components

For each: the state it keeps, its operations, what is hard about it, and what makes
it correct. "Model" names the modules; a dash means none. What of a component is left
out is said in `PROJECT.json` (`components`) and in section 7.

| Component | State | Operations | Hard | Correct when | Model |
|---|---|---|---|---|---|
| Job scheduler (`jobs/orchestrator.py`, `due.py`, `ledger.py`, `locking.py`, `types.py`, `odds/events_for_schedule.py`) | `pipeline_job_runs` rows with a unique `(idempotency_key, success_token)`; the overlap flock; a tick's `succeeded_types` and blocked cards | load events, compute due jobs, lock, check dependencies, skip duplicates, call a handler, retry, record, unlock, commit | overlapping ticks, kills before the commit, moved starts, retries across ticks, SQLite contention, the official window of few ticks | successes are closed under dependencies, no card goes out unscored, no card is missed, every tick ends | `PipelineJobs`, `DueJobs`, `JobLedger`, `WeeklyTick` |
| Job handlers and live engine (`jobs/handlers.py`, `live_engine.py`, `discover*.py`, `score.py`, `results.py`, `publish.py`) | none of their own; rows of all other components in the tick's session | one handler per job type, returning a `HandlerResult` | effects outside the transaction (files, requests), partial failure | a success means the effects are complete | in part: results and reschedule in `WeeklyTick`, recommend and grade in `GradeLedger`, publish in `Dashboard` and `PublishPointer`, discover and identity in `IdentityResolution`, retrain in `ModelRegistry` |
| Publication pointer (`observability/publish_guard.py`, `publish/public_sync.py`, `publish/publisher.py`) | `releases/<id>` with `.candidate` and `.old`, `current`, `live/`, `live.candidate/`, `.live.<pid>.old/` | stage, write, validate, retire and install a release, point, copy and swap `live/`, undo | a kill between two renames, failing renames, two publishers in one staging directory, reused process ids | readers always find the last known good version, whole | `LastKnownGood`, `PublishPointer` |
| Odds quota and snapshot job (`odds/quota_budget.py`, `job_ledger.py`, `quota_bootstrap.py`, `store.py`, `jobs/snapshot_odds.py`) | quota observations, job runs per slot and batch; a run's `RunningQuotaLedger`; the provider's balance | open the ledger, bootstrap, authorise, reserve, call, consume or release, record, commit | calls charged and then failed, answers without the header, savepoints that commit early, kills | the reserve is there for the final polls, no call exceeds the balance, nothing is paid twice | `OddsQuota` |
| Odds schedule (`odds/schedule.py`, `backfill.py`) | none; `schedule_v1.yaml` | due work, slots, batch and idempotency keys, caps, the backfill loop | events that join a batch after it was paid | one paid request per batch | in part: `OddsQuota` |
| Recommendation grade ledger (`grade/service.py`, `db/grade_guards.py`) | append-only official recommendations, observed prices, settlements, state events | publish, observe a price, grade, settle with a revision, audit | the identity of a retried publication, corrected results, moved starts | immutable history, one row per key | `GradeLedger` |
| Dashboard builder and contract (`publish/builder.py`, `schema.py`, `validator.py`) | none | choose rows, assemble and validate seven JSON files | two reductions of the same rows, a retried recommend | what was recommended can be published; page and settlement agree | `Dashboard` |
| Odds lifecycle and match review (`odds/lifecycle.py`, `match_review.py`, `matching.py`, `reconcile.py`) | lifecycle rows per bout, event and selection, aliases with effective times, match observations, the review queue | match, activate an alias, apply a lifecycle state, resolve eligibility, enqueue, approve, reject, reverse, replace | an open reconcile beside operators, reused provider ids, evidence out of order | a quote is never valued for another bout; what was eligible in the past stays so | `OddsMatching`, `QuoteValue` |
| Odds providers, normalisation and reports (`odds/normalize.py`, `manual_price.py`, `value_bridge.py`, ...) | quotes and missing markets | parse, normalise, deduplicate, report | payload variety, the book's clock | a poll stores what was offered | in part: `QuoteValue` |
| Identity resolution and review (`identity/`) | sources, mappings, fighters, review items, scoring blocks, evidence | resolve, enqueue, decide, reverse | namesakes, reports in any order, a decision on a stale snapshot, mappings owned by several reviews | nobody is conflated; a block is lifted only when no open review needs it | `IdentityResolution`, `ReviewRegister`, `IdentityReview` |
| Ingest repository and raw store (`ingest/`) | observations, checkpoints, runs, content-addressed payloads | start, apply and commit a batch, checkpoint, finish; put, get, verify | partial batches, replays | replays change nothing | in part: `ResultVersions`, `HistorySync` |
| DWCS ingest (`dwcs/`) | events, bouts, result versions, labels | sync a manifest | overlapping syncs, amended manifests, kills | one version per observation; labels of the past stay | `ResultVersions` |
| Fighter history (`history/`) | crawl frontier, regional bouts with revisions, conflicts, failures | seed, fetch, apply, mark, resume, reconstruct | a stop between fetch and mark, blocked and missing pages, loops | every seeded fighter is accounted for; earlier records stay | `HistorySync` |
| Model registry and promotion (`modeling/registry.py`, `promotion.py`, `artifacts.py`) | `model_registry.yaml`, decisions and artifacts | register, retrain, promote, reject, roll back | a file written before the row that explains it | the decisions explain the champion | `ModelRegistry`, `ArtifactFiles` |
| Model estimation (`modeling/joint.py`, `baselines.py`, `splits.py`, ...) | artifacts | fit, calibrate, evaluate | leakage; the numbers are floating point | what enters a fit was known | in part: `WalkForward`, `BoutOutcome`, `ArtifactFiles` |
| Recommendation policy (`recommend/`) | frozen policy document | gates, deduplication, ranking, one pick per bout, replay | ties, order, inconsistent prices | the order of candidates does not matter; a pick pays | `RecommendPolicy`, `BacktestReplay` |
| Value and staking arithmetic (`value/`) | none | EV, Kelly, devig, thresholds, caps | evidence that is stale | only an eligible price is valued | in part: `QuoteValue`, `RecommendPolicy`, `BacktestReport` |
| Markets and settlement (`markets/`, `labels/outcomes.py`) | none | validate facts, settle, label, derive prices | pushes, voids, clock boundaries, overturned results | a bet is paid as it was priced | `BoutOutcome` |
| Backtest and evaluation (`backtest/`, `evaluation/`) | attempts, reports | walk forward, join quotes, grade, bootstrap | leakage across the cutoff, bouts that drop out of figures | nothing looks ahead; the groups add up | `WalkForward`, `QuoteValue`, `BacktestReport` |
| Features (`features/`, `composites/`) | snapshots | build as of a cutoff | leakage | only data before the cutoff | in part: `WalkForward` |
| Data quality (`quality/`) | reports | tiers, gates, leakage audit | sources that copy one another, past cutoffs computed again | independent corroboration only; a past cutoff only gains | `CoverageReport` |
| Source clients and policy (`sources/http/`, `sources/policy.py`) | response cache and its URL index, robots decision | fetch with delay, retries, cache | two clients and one index | a page is what was served for its URL | `PoliteFetch` |
| Source parsers and adapters (`sources/*/`, `ufcstats/`) | none | audit, parse | markup | parsing is faithful | in part: `PoliteFetch`, `HistorySync` |
| Observability (`observability/` but for the guard) | health report, logs | assemble, roll up | a report assembled, published and read at three times | green and red are true | `HostMonitor`, `Dashboard` |
| Backup and restore (`backup/service.py`, `deploy/backup.sh`, `restore.sh`) | bundles with hashes | online backup, copy, verify, restore | training and publications beside it | a bundle holds what its database names | `ArtifactFiles`, `HostMonitor` |
| Database session and migrations (`db/`) | schema, triggers | open, migrate | - | the schema of the models above | transactions in each module |
| Command line (`cli.py`, `config.py`) | sessions | one branch per command | commit after the lock is released | - | in part, in the modules of the commands |
| Deployment scripts (`deploy/`) | host lock, units, release pointers | run a job, install, roll back, monitor | `rollback.sh` writes without the lock | one writer on the host | in part: `WeeklyTick`, `PublishPointer`, `HostMonitor` |
| Web dashboard (`web/`) | fetched files, browser storage | fetch seven files, render | files of two publications | one page, one release | - |

The hazards behind the "hard" column, each at its line and with the properties that
watch it, are the list `hazards` of `PROJECT.json`.

## 2. The models

    PipelineJobs            job types, order, dependencies, keys
      |-- JobLedger         abstract: what the ledger promises
      `-- DueJobs           what is due at an instant
            `-- WeeklyTick  the tick processes, transaction, locks, clock
                  `-- WeeklyTickProps      properties; INSTANCE JobLedger
                        |-- MCWeeklyTick   instances for TLC
                        `-- WeeklyTickProofs

    LastKnownGood           abstract: what a publication promises
    PublishPointer          the file operations of a publication
      `-- PublishPointerProps              INSTANCE LastKnownGood
            |-- MCPublishPointer
            `-- PublishPointerProofs

    OddsQuota               paid requests, ledger, transaction, provider
      `-- OddsQuotaProps
            |-- MCCommands               with the reviews
            `-- OddsQuotaProofs

    ReviewRegister          abstract: what the review queue promises
    IdentityReview          operators' decisions, the resolver, the tables
      `-- IdentityReviewProps              INSTANCE ReviewRegister
            |-- MCCommands               with the budget
            `-- IdentityReviewProofs

    Nothing                 the absent value the modules below share
      GradeLedger --- Dashboard      recommend and grade; the page of the rows
      ModelRegistry                  the champion and its decisions
      OddsMatching --- QuoteValue    whose quotes they are; what they were worth
      PoliteFetch                    audits that share one cache
      IdentityResolution             who is who
      HostMonitor                    health report, page, monitor
        `-- MCRecords                one of these components at a time
        `-- RecordsProofs            (all but matching and value)
        `-- MatchingProofs           (OddsMatching, QuoteValue)

      BoutOutcome --- RecommendPolicy --- BacktestReport --- BacktestReplay
      ResultVersions --- WalkForward
      HistorySync, ArtifactFiles, CoverageReport
        `-- MCRules                  one of these components at a time
        `-- RecommendProofs          (BoutOutcome, RecommendPolicy, the reports)
        `-- EvidenceProofs           (results, walk-forward, history, files, coverage)

`MCRecords`, `MCRules` and `MCCommands` put components that share no state beside one
another: a behaviour picks one of them at the start and the others stand still, so that
the states of a run are the sum of theirs and no interleaving of strangers is explored.
Where components do interact the module is composed: `QuoteValue` extends `OddsMatching`,
`Dashboard` reads the rows of `GradeLedger`, `WalkForward` those of `ResultVersions`,
`BacktestReplay` applies `RecommendPolicy` to the attempts of `BacktestReport`.

### The scheduler: PipelineJobs, DueJobs, JobLedger, WeeklyTick

| Model | Code |
|---|---|
| a job `[type, event, slot]` | `DueJob`; its three fields are the idempotency key `type:event:slot`, so a job is its key |
| `JobDependencies`, `Before`, `SuccessKey` | `JOB_DEPENDENCIES`, `sort_due_jobs`, the `(type, event)` pair of `_dependency_satisfied`: *any* slot of the event will do |
| `ComputeDueJobs`, `EventDue` | `compute_due_jobs`, `_event_due_jobs`; the cadence is a set of CONSTANTS in one unit of time |
| `db`, `tx`, `writer`, `View` | the committed tables, the tables inside the open transaction, and which process has SQLite's write lock. A tick reads its own writes once it has written, and the last commit before |
| `flock` | the overlap lock file; the kernel drops it with its process |
| `StartTick` | `cli.py` reads the clock and the events, and computes what is due, *before* the lock |
| `AcquireFlock`, `RejectOverlap` | `FileFlockLock.acquire`; `TickOverlapError` ends the process |
| `BlockJob`, `SkipDuplicate`, `CallHandler` | the loop of `run_jobs_tick`: dependencies, blocked cards, existing success row, attempt number |
| `RunHandler`, `DiscoverMovesEvent` | a handler returns one of the outcomes its type can have; discover may also have rewritten a start in the tick's session |
| `RetryTransient`, `RecordSuccess`, `RecordSkip`, `RecordFailure`, `DuplicateSuccess` | the end of `_execute_job` with `record_pipeline_job_run`, and the unique index that kills the tick |
| `DatabaseLocked`, `Abort` | SQLite's busy timeout; a kill (the 1500 s limit, a reboot) or a poisoned session |
| `ReleaseFlock`, `Commit` | `run_jobs_tick` returns and drops the lock; then `session.commit()` in `cli.py` |

Abstracted: what a handler does but for its result and the rescheduling; rows other
than the success of a key and, for keys that may be retried, their number.

### The publication: PublishPointer

Each action is one call on the file system. A directory is absent or a function from
file names to the *version* (the publication) that wrote each file, so that partial
and mixed trees are states. `Stage`, `WriteFile`, `Validate`, `RetireFinal`,
`InstallFinal`, `InstallFails`, `DropOld` and `Point` are `publish_release`;
`Prepare`, `CopyFile`, `CopyFails`, `RetireLive`, `InstallLive`, `InstallLiveFails` and
`DropAside` are `promote_release_json_to_public_root`. `Crash` may come between any
two calls and leave any part of a tree whose `rmtree` was under way. `valid` is the
set of versions the schema validator accepts, chosen when they are drafted.
`Exclusive` is the host lock of `deploy/run-job.sh`: it holds for the publish job, and
not for the command `mma-model publish`. A publisher is a process id, which may publish
again and again, after a kill too: each job runs in a container of its own
(`run-job.sh:186`), where ids start over. `aside[p]` is the backup of `live/` that bears
the id `p`.

### The odds budget: OddsQuota

A run is one command, `jobs snapshot-odds` or `odds backfill`. `OpenKnown`,
`OpenReread` and `OpenProbe` are the three ways a run learns the balance
(`open_quota_ledger`, `bootstrap_quota_remaining`); `Reuse`, `Refuse`, `Authorise`
the three ways with a batch; `Answer` and `CallFails` how a request ends, with the
provider's `Charge`; `Saved` what becomes of the rows. The last is subtle: Python's
sqlite3 module opens no transaction before a `SAVEPOINT`, so the first savepoint of a
run *commits* when it is released, and later ones wait for the command's commit. The
provider's `balance` is no part of the program's state: the properties relate it to
what the program believes. Credits that were charged without the program recording it
are counted in `lost`.

Abstracted: quotes, matching and what is stored of an answer (the call either stores
all its rows or raises); prices of a request are one constant per kind.

### The identity reviews: IdentityReview

A provider's fighter is an *identity* (source and external id). The resolver links it
to a canonical fighter, or queues it for an operator, and may block the scoring of a
bout meanwhile.

| Model | Code |
|---|---|
| `reviews`, `about` | rows of `identity_review_queue`: the columns a decision touches, and what the row is about |
| `mapping`, `blocks`, `evidence` | `fighter_source_ids`; active `identity_scoring_blocks`; decision rows of `identity_match_evidence`, per review |
| `op[o]` | one `identity approve / reject / reverse` command: its request and the row its session works from |
| `Load`, `Check` | `session.get`; then `_committed_review_snapshot` on a second connection, the sync of the loaded row, `--expected-version`, the idempotent answers and the refusals |
| `ReadMapping` | an approval looks for a mapping to another fighter and keeps what it finds in `prior_mapping_json` |
| `Approve`, `Reject`, `Reverse` | the claim (`UPDATE ... WHERE status, version`) and everything up to the commit: mapping, evidence, blocks |
| `LoseClaim` | `_finish_idempotent_decision` and its counterpart in `reverse_review_decision` |
| `Resolve`, `Link` | what `resolve_fighter` comes to (link or queue; the rules that choose are left open), and `_link_source` |
| `FindPending`, `EnqueueAgain`, `Enqueue`, `EnqueueFails` | `enqueue_review`: the pending row, the same row again, a new row, the unique index |

pysqlite begins a transaction at the first write, so each read before it is a step of
its own, and everything from the first write to the commit is one step: SQLite has one
writer. A process that dies before the commit has done nothing, which is why there is
no kill. `answer` is the request whose command succeeded in the last step; it exists
for the property `AnswersTrue`. Rows of evidence with the action "queued" are left out.
A bout is `None` in the model where `_should_block_bout` would refuse it. Today's
history sync passes no bout, so that blocks are entered by other callers of the
resolver's interface, which the model includes.

### Recommendations and their page: GradeLedger, Dashboard

A tick of the recommend or grade job is one transaction (`tick`, with the rows `tx` it
works on), and one runs at a time. `PublishBout` is `publish_official_t60` with the
price that `record_observed_price` adds; `ConflictBout` is the refusal of a row that
exists with another `published_at`, `QuoteRaises` the failure between the two writes;
the handler's failure keeps what was written before it. `GradeEvent` settles every
confirmed pick at its earliest observed quote, per version of the result
(`CorrectResult`). What the policy decides for a bout is open at every attempt. A row is
`[bout, sel, cutoff, at, state]`, its key the first three.

`Dashboard` has no state of its own: `SelectPublications`, `Matchups`, `History` and
`Performance` are what `build_release_files` makes of the rows, `Validates` is what
`validate_dashboard_release_dir` demands. A publication reads the rows of its own tick
or the committed ones (`PublishedRows`). `Cards` are the cards a caller may ask for:
bouts struck since, bouts without a prediction.

### The champion: ModelRegistry

`Load`, `Train`, `ActivateChampion` / `Promote` / `Rollback`, `Truncate`, `Fill` and
`CommitDecision` are the steps of the `model` commands and of the retrain handler: the
YAML file is rewritten in place, so it is `None` between the truncation and the last
byte, and the decision is committed after it. `Die` may come between any two. Whether
the gates pass is open.

### Whose quotes, and what they were worth: OddsMatching, QuoteValue

One provider event. `ReadEvent` and `WriteDecision` are `reconcile_odds_event`: it reads
everything, then takes the write lock with its first write, so that an operator's
`Approve`, `Reject` or `ReverseMatch` (which `Look` and `Validate` first) may come
between. `ReplaceBout` and `CancelBout` are the card's changes. Which bouts fit the
participants and the start is open at every reconcile. `Eligible` is
`resolve_quote_value_eligibility` as of a time, over alias versions, match observations,
lifecycles of event and bout. `odds.overtaken` remembers that a decision was written over
a commit it had not seen.

`QuoteValue` adds the rows of selection scope: polls (`PollQuotes`, `PollMissing`) with
the book's clock ahead or behind (`Skews`) and the deduplication of unchanged prices,
locks, unlocks and operator clears (`Signal`), prices seen by a user and bound to a bout
(`EnterPrice`, `BindPrice`), and `Backtest`, which computes `Priced`: the opening,
closing and manual price of every selection, with the decision that each was eligible
at the time it is valued at. A reconcile is one step here.

### Who is who: IdentityResolution

`ResolveReport` is `resolve_fighter` with its rules in their order (id, Wikidata, name
and birth date, name and opponent, queue or create); `Discover` stores an upcoming card
of one source, and clears or blocks its bouts; `SeedFighter` is the adjudicated import.
A fighter remembers the *person* it was created for, which the program does not know:
`NeverConflates` compares the two.

### Fetching and watching: PoliteFetch, HostMonitor

`PoliteFetch` has one action per request and per file operation of an audit
(`source audit` of the UFCStats pages): robots.txt with redirects, the page, the payload,
and the index, which `ReadIndex`, `OpenTmp`, `WriteTmp` and `ReplaceIndex` rewrite through
one temporary name. `data` maps inodes to contents, as a process that holds a file open
writes on although its name has moved. `served` is what the host answered.

`HostMonitor` follows a health report from its assembly (`Begin` of a tick) through the
page (`EndTick`, if a publish job runs) to `monitor-check.sh`, which is the operator
`Rollup` of the state: it may be run at any time. `Change` is anything that may
happen to the host; the page remembers the host it was made from.

### Results and bets: BoutOutcome, RecommendPolicy

`BoutOutcome`'s state is what is known of one bout, and its actions are the ways facts
arrive, up to an overturned result. `Settle` (`markets/settlement.py`),
`FineAtom` (what a label trains as) and `PricedAtoms` (which atoms a price sums,
`markets/derive.py`) are three translations of code that shares nothing; a probability
is the set of atoms it sums. Clocks count units, `RoundUnits` to a round.

`RecommendPolicy` gathers candidates in any order (`Offer`) and calls the policy
(`SelectRecommendations`): gates, duplicates, ranking, one pick per bout. Percentages and
hundredths make the price thresholds exact.

### Evidence: ResultVersions, HistorySync, WalkForward, ArtifactFiles, CoverageReport

`ResultVersions` is `ingest dwcs-history`, syncs of a manifest that is amended, a
transaction per card: `ReadCard` reads what is there, `CommitCard` inserts the rest.
`HistorySync` walks sources and fighters; a page is missing, a wall, a drift or a list of
bouts; the commit of a page and the mark of its fighter are two steps, and the sync may die
between them or anywhere else. `WalkForward` runs the same backtest twice, on the
evidence and on the part of it that was known by `lacking`, and a model *is* what it was
fitted to: what a prediction depends on is what makes the two differ.
`ArtifactFiles` has two files for each artifact, written in place one after the other by
training commands, beside a backup that copies the database first. `CoverageReport`
appends rows of sources and computes the report of any past cutoff.

### Reports: BacktestReport, BacktestReplay

`AttemptBout` settles a bout of the programme in one of the ways it can end and counts it;
`DrawCards` is one draw of the bootstrap. `Replay` turns the attempts into candidates of
`RecommendPolicy`. Both are folds over the attempts. What the code keeps of a list
(`[b for b in bets if ...]`) is `Kept`, a flattening.

`ReportAssumption` says what the two take from the rest of the system. An event is one card
and a bout is on one card, once (`events` and `bouts` are keyed). The model's probabilities
are percentages and a void is not certain. A quote has a price and a time, and only a
provider's quote can be denied by a decision: the price a user saw reaches `join_quote`
with `eligible = True`, the default of `QuoteCandidate` (`backtest/engine.py:220`), since
decisions are made for stored quotes only. A selection the model leaves unavailable has no
quote, whatever the book holds.

## 3. What the runs check

States are distinct states found by TLC.

| Run | States | Properties | What it shows |
|---|---|---|---|
| `ticks` | 145 441 | `RefinesLedger` `EveryTickEnds` `CutoffScored` | two contending ticks without the host lock, failing and retried jobs, a start that moves, one kill: the committed successes stay closed under the dependencies and only grow, a transaction at a time; every tick ends; no recommend or publish for a cutoff that was not itself scored, although the dependency table does not ask for it |
| `tick_chain` | 1 258 | `NoMissedCard` `ChainCompletes` | with the timer on time: a card's official window of two ticks survives the loss of one, and grade, both reconciliations and retrain complete |
| `tick_failed_recommend` | - | `NoPublishAfterFailedRecommend` violated | see section 6 |
| `tick_results_window` | - | `ResultsThroughWindow` violated | see section 6 |
| `publish_releases` | 432 913 | `PublishedWhole` `RefinesLastKnownGood` `OnlyReusedIdLosesLive` `CrashesHeal` | two process ids that publish again and again under the lock, two kills, one failing call: the release `current` names is never destroyed, what it leads to only moves to something newer and approved, `live/` is whole, its last copy can be lost in one way only, leftovers do not stop the next publication |
| `publish_pids` | - | `FailedPromoteKeepsLive` violated | that one way, see section 6 |
| `commands` | 3 218 542 | `BudgetKept` `PaidOnce` `OpenReviewStaysBlocked` `RefinesRegister` `AnswersTrue` `MappingKept` | the budget or the reviews. Budget: live polls and backfills one after the other, lost and refused calls, answers without the header, a kill: the reserve is spent by final polls only, calls stay within the balance, nothing is paid twice - up to credits a failure hid. Reviews: operators decide and reverse from stale copies while one or two history syncs link and queue the same identity: each review is decided and reversed once with one row of evidence, a command that succeeds tells the truth, a mapping goes only with an approval of its fighter, the bout of an open review stays blocked but for one race (below) |
| `records` | 1 362 685 | `OneRowPerKey` `PageAgrees` `DecisionsExplainFile` `NoInheritedQuote` `PricesReproduce` `PagesAreServed` `NeverConflates` `ChecksAreTrue` `PastIsFixed` `UnblocksAsListed` `ApprovesWhatWasSeen` | the seven components of `MCRecords`, one at a time: see below |
| `odds_alias_cutoff` | - | `CutoffOnlyForReusedId` violated | see section 6 |
| `odds_missing_flips` | - | `MissingNeverFlips` violated | see section 6 |
| `monitor_stale_page` | - | `StaleDashboardTold` violated | see section 6 |
| `rules` | 768 822 | `PricedAsSettled` `GradesOnlyResolve` `PickPaysOff` `OrderFree` `NoLookAhead` `OneVersionPerObservation` `PastLabelsFixed` `SyncAccounts` `EarlierRecordsFixed` `RecoverableBundle` `TiersAreIndependent` `PastOnlyGains` `ReportAddsUp` `PicksWerePriced` | the eight components of `MCRules`, one at a time: see below |

Every property of a passing run has a mutant in `PROJECT.json`: one mapped definition
changed the way a bug would change it, for which TLC finds the property violated. The
type invariants of the modules are part of what is proved (section 5); no run repeats
them.

What the two collective runs ask of each component:

- **Grades** (`OneRowPerKey`): a key names one publication, and a version of a result
  settles it once, whatever is retried, moved, corrected or killed.
- **Page** (`PageAgrees`): what recommend wrote can be published in the same tick and
  ever after; a bet is shown at the price it was settled at.
- **Registry** (`DecisionsExplainFile`): the last activation explains the file, and the
  gates come before a champion, until a command dies between its two writes.
- **Matching** (`NoInheritedQuote`, `PastIsFixed`, `UnblocksAsListed`,
  `ApprovesWhatWasSeen`): a reused id brings no quotes along, the past is not rewritten,
  a blocked bout opens by a match made at that very instant or by an approval, and an
  approval is of what its operator saw.
- **Value** (`PricesReproduce`): a repeated backtest finds the prices of the first.
- **Audits** (`PagesAreServed`): a page is what was served for its URL, whatever
  processes do to the shared index.
- **Identity** (`NeverConflates`): as the name says.
- **Monitor** (`ChecksAreTrue`): red if and only if something is wrong now or was when the
  page's report was made; green only for a host that is well and was well then, and always
  for one whose page is young enough besides. That a page too old is *told* does not hold
  (`monitor_stale_page`).
- **Bets** (`PricedAsSettled`, `GradesOnlyResolve`): the bet that wins is the one whose
  price summed the atom the bout trains as; a grade is not taken back as facts arrive.
- **Policy** (`PickPaysOff`, `OrderFree`): a pick returns five percent over its risk by
  the settlement's own rules; shuffled candidates give the same report.
- **Results** (`OneVersionPerObservation`, `PastLabelsFixed`) and **history**
  (`SyncAccounts`, `EarlierRecordsFixed`): overlaps, replays and kills neither lose nor
  duplicate, and the past keeps its labels and records.
- **Walk-forward** (`NoLookAhead`): a run that was never told the future predicts alike.
- **Files** (`RecoverableBundle`): a backup holds what its database names.
- **Coverage** (`TiersAreIndependent`, `PastOnlyGains`): copies do not corroborate; of
  a past cutoff the report only gains, and both what it says and the hash it bears move
  only for rows that were published or acquired by then.
- **Report** (`ReportAddsUp`), **replay** (`PicksWerePriced`): the groups add up to the
  whole; a pick of the replay is a bet the backtest placed, at its price.

### Bounds, and why they are enough

*Scheduler.* One event: jobs of different events share nothing but the series jobs and
their place in the order, and the proofs of section 5 cover any number. The cadence
keeps the order of the real windows (odds open, scoring, official cutoff, start, end of
results, day after, week after) at one or two units each. Two ticks are enough for every
race, since all of them are between one tick and the writer of the moment. `Failing`
has the failures at the head of both dependency chains: any further down only removes
jobs. `MaxTransient` is 2, the least with a retry. `MaxTime` reaches past the last window
that matters for the property: in `ticks` the card's cutoff is at 0 and its start at 1,
or at 1 and 2 once discover has moved it; `tick_chain` goes on to 8, the end of the chain.
The `tick_chain` run has the events of `--event-id`, since the loader of the
timer's tick never returns an event that has started (section 6).

*Publication.* Two of the seven files make trees whole, partial or mixed; two release
ids separate a re-publication from a new one; three versions allow a good one, its
replacement and a bad one; two kills cover a kill during the recovery from a kill. Two
process ids make both a publication under an id that was used before and one under a
fresh one.

*Odds.* Two archive events with different starts (two backfill batches), two coming
events that start together (one batch of two) and one that is discovered to start
later (a second window). Five credits with a reserve of two, a live poll at one and a
historical request at three: each of the three boundaries (reserve, balance, exact fit)
is reached. Two slots of time cover a fresh, a stale and a reread observation.

*Reviews.* One identity: reviews of different identities share no row. Two reviews, one
after the other, are what the block rules are about (the older one decided or reversed
while the newer one is open); three versions of each row are all there are, since a row
is decided and reversed once. No
`--expected-version`: an expectation only adds refusals (the proofs cover any).
Two operators with one history sync make every race for a claim; one operator with two
syncs, each of which looks a review up before it queues it, makes the races to enqueue
(`review.py:157`, `:217`). Two of each are too many states for TLC; the theorems cover any
number.

*Records.* Grades: two bouts, a start that moves once, two versions of a result, a clock
that runs only between ticks (a tick has one `as_of`). Registry: two artifacts of the
champion's specification and one of another, two commands that do not overlap, one
death. Matching: two bouts, one operator, stamps to 2 and four writes - a match, a
review, a replacement and an answer to it. Value: cutoff, start and end at 0, 1 and 2, two books
whose clocks are behind and ahead, two prices, two polls and two matches. Audits: two
processes, an index entry that is cached and one that is not, a redirect, walls, a wrong page, robots
that forbid. Identity: two namesakes who fight on one day, the cards of two sources with
two spellings, ten reports and two seeds; `MaxFighters` 7 is never reached. Monitor: limits of at most
two hours, one change of the host, two jobs.

*Rules.* Bets: three rounds of four units, so that a half-round line falls on, before
and after a clock. Candidates: up to three in a pool, of eight that cover duplicates
with other prices, defects, inconsistent parts and conditional prices. Results: two
cards of one bout each, two syncs, one amendment, one failure. History: two sources, a
fighter both know and one neither knows, a page that is edited once, one crash.
Walk-forward: five cards (two to fit, one to validate, two of the holdout) with every
subset of four late or corrected results; the second run is told everything, or what was
known at 9 or at 13. Files: two ridge artifacts and a joint one, two commands, one kill.
Coverage: two bouts, nine rows of six sources, three at a time. Report: three bouts of
two seasons and variants, each with every outcome of `MCCasesOf`, two draws.

Every configuration has `CHECK_DEADLOCK FALSE`: the clock, the publications, the paid
requests, the versions of a review and the writes are bounded, so that an instance stops
when its bounds are used up. Where something must go on it is a property of its own
(`EveryTickEnds`, `ChainCompletes`, `CrashesHeal`).

## 4. Fairness

`WeeklyTick!Fairness`: a process that has begun runs on (`WF` of `TickStep`), since
every wait in the code is bounded: the overlap lock is tried once, SQLite's busy
timeout ends in an error, `run-job.sh` ends the process after 1500 s. A tick is started
again and again (`WF` of `StartTick`): `OnCalendar=*:0/5` of the timer. The clock
advances (`SF`: in the punctual instance it waits for the tick, and is enabled again and
again). `Punctual` is an assumption about the host, not fairness: a tick completes in
every unit of the cadence. With a 60-minute official window, a timer of 5 minutes and a
limit of 25, two ticks in the window is what the host can be relied on for; the run
takes exactly two and loses one.
`MCWeeklyTick!RunningSpec` needs the first of these only: a tick that has begun takes its
steps, and nothing makes one begin or the clock advance.

`PublishPointer!FairSpec`: a publication that has begun goes on unless killed. Nothing
makes one begin. `CrashesHeal` therefore speaks only of publications under way.

No other module has fairness or a liveness property. A request may hang for as long as
the HTTP client allows and nothing depends on its end; whether anybody decides a review,
starts a sync, a backup or a backtest is up to people and timers.

## 5. What is proved

The 47 theorems listed in `PROJECT.json`, in eight modules (`*Proofs.tla`), hold for
every value of the constants that satisfies the modules' named assumptions
(`...Assumption`), which TLC evaluates in every run. Each invariant and action property
of a passing run is among them, and so are all three refinements; of what the passing runs
check only liveness has no theorem.

| Theorem | For | Property |
|---|---|---|
| `WeeklyTickProofs!TypeCorrect` | any number of ticks and events, any failures and bounds | `TypeOK` |
| `...!LedgerStaysClosed` | " | `LedgerClosed` |
| `...!ImplementsLedger` | " | `RefinesLedger` |
| `...!CutoffsAreScored` | " | `CutoffScored` |
| `...!NoCardIsMissed` | ticks on time (`OnTime`, below), any cadence, cards and kills | `NoMissedCard` |
| `PublishPointerProofs!CurrentIsKept`, `LiveIsWhole` | under the writer lock, any files, releases, versions, kills | `CurrentKept`, `LiveWhole` |
| `...!PublishedIsWhole` | " | `PublishedWhole` |
| `...!KeepsLastKnownGood` | " | `RefinesLastKnownGood` |
| `...!LiveIsLostOneWay` | " and process ids that may repeat | `OnlyReusedIdLosesLive` |
| `OddsQuotaProofs!OddsTypes` | commands that do not overlap, any events, costs, failures, kills | `OddsTypeOK` |
| `...!BudgetIsKept` | " (from `ReserveIsKept` and `CallsWithinBalance`) | `BudgetKept` |
| `...!NoSecondPayment` | " | `PaidOnce` |
| `IdentityReviewProofs!ReviewTypeCorrect` | any operators, syncs, identities, reviews, expectations | `ReviewTypeOK` |
| `...!QueueIsRegister` | " | `RefinesRegister` |
| `...!AnswersAreTrue`, `MappingIsKept` | " | `AnswersTrue`, `MappingKept` |
| `...!OneReviewIsOpen` | " | `OneOpenReview` |
| `...!OpenReviewsBlock` | " | `OpenReviewStaysBlocked` |
| `RecordsProofs!GradeInvariant` | any bouts, selections, prices, starts, versions | types, keys, order of rows |
| `...!RowsAreUnique` | " | `OneRowPerKey` |
| `...!PagesAgree` | " , and any card a page is asked for | `PageAgrees` |
| `...!GatesComeFirst` | any artifacts and overlapping commands | `ChampionGated` |
| `...!DecisionsExplainTheFile` | commands that do not overlap | `DecisionsExplainFile` |
| `...!NobodyIsConflated` | any persons, spellings, true reports, cards | `NeverConflates` |
| `...!OnlyServedPages` | any audits, sites, kills | `PagesAreServed` |
| `...!TheMonitorIsRight` | any limits and host | `ChecksAreTrue` |
| `MatchingProofs!MatchingInvariant` | any bouts, operators, times | types, chaining of aliases |
| `...!QuotesStayWithTheirBout` | " | `NoInheritedQuote` |
| `...!ThePastIsFixed` | " | `PastIsFixed` |
| `...!BoutsOpenAsListed` | " | `UnblocksAsListed` |
| `...!ApprovalsAreInformed` | " | `ApprovesWhatWasSeen` |
| `...!PricesAreReproduced` | any books, sides, prices, clocks, times | `PricesReproduce` |
| `RecommendProofs!BetsPaidAsPriced` | any length of a round, bouts of three or five | `PricedAsSettled` |
| `...!GradesResolve` | " | `GradesOnlyResolve` |
| `...!PicksPay` | any candidates in any order | `PickPaysOff` |
| `...!OrderDoesNotMatter` | " | `OrderFree` |
| `...!ReportsAddUp` | any programme, cases, books, requested replicates, draws | `ReportAddsUp` |
| `...!PicksPriced` | " | `PicksWerePriced` |
| `EvidenceProofs!ObservationsAreVersions` | any manifests, syncs, corrections | `OneVersionPerObservation` |
| `...!LabelsAreFixed` | " | `PastLabelsFixed` |
| `...!HistoryAccounts` | any sources, fighters, pages, crashes | `SyncAccounts` |
| `...!RecordsAreFixed` | " | `EarlierRecordsFixed` |
| `...!BundlesRecover` | any artifacts, training commands, kills | `RecoverableBundle` |
| `...!TiersStayIndependent` | any sources, rows, cutoffs | `TiersAreIndependent` |
| `...!CutoffsOnlyGain` | " | `PastOnlyGains` |
| `...!NothingLooksAhead` | any cards, results, observations, quotes | `NoLookAhead` |

### Along which arguments

**The ledger.** `LedgerClosed` speaks of committed rows only and is not inductive: a tick
works on what it has read. `LedgerInv` adds that the uncommitted rows are closed too,
that whatever a tick noted in `succeeded_types` is in the rows it sees, and that the
dependencies of the job under way are among them. It survives another tick's commit
because rows are never deleted: what a tick saw stays true (`HasMonotone`,
`DepsMonotone`). A commit then is one step of `JobLedger`, every other step a stutter.

**The cutoff.** The dependency of recommend on score is by event, not by cutoff. What
saves `CutoffScored` is `CutoffInv`: score of the same cutoff is due whenever an official
job is, it comes first in the order, and if it fails the card is blocked for the rest of
the tick. `Awaits` lists the four places the score of a waiting official job can be in.
The proof needs that only grade jobs are skipped and that a due list is taken in order.

**No missed card.** `OnTime` is what the host and the card owe the scheduler: the host
lock, a tick in every unit (`Punctual`), the event among those the tick is given from the
opening of its window on (`--event-id`, or a horizon no shorter than the window), and no
failure of score, recommend, publish or the identity gate. Then only kills cost the card
anything. `SoloInv` says that a tick is alone with its locks; `CardInv` counts: while the
card is unpublished, every instant of its window that is over has cost a kill, and the
tick under way has the card's jobs at hand.

**The publication.** `ReleaseInv` follows the one publication under way (`OneRuns`):
before its release is installed nothing served is as new as its draft, from then on
`releases/<id>` holds it, staging holds exactly what was written so far. Between the two
renames the release is found in `.old`, which is why `Served` and `CurrentKept` look
there. `LiveInv` does the same for `live.candidate/` and the set-aside copy, and
`SwapInv` says that a publication that is about to delete what it set aside has the new
`live/` in place. So the last copy of `live/` is safe from every step but one: `Prepare`,
which deletes the backup of its own process id before there is anything to put in its
place (`public_sync.py:218`). After a kill between the
two renames that backup is the only copy, and in containers ids repeat
(`publish_pids`).

**The budget.** `QInv` bounds every figure a run works from by what the provider has and
the credits whose fate is unknown: the committed observation (`Within(quota, spent)`: up
to what the open transaction spent), the run's own row, its ledger. An authorised call
leaves its purpose's floor (the reserve, or zero for a final poll) in the ledger, hence
in the balance. `ReserveKept` and `NeverExceeds`, the two halves of `BudgetKept`, end
where a run has taken an older answer of the free request for the balance (`reread`):
`bootstrap_quota_remaining` reads it again although paid calls may have come after it,
and the hazard list has it. Without `Alone` it is false: two commands read the same
observation.

**The reviews.** `RInv` says what a copy of a row is worth. Status and version go together
(`Ranked`: pending is version 1, decided 2, reversed 3), a command's copy is never newer
than the row and equals it in all but `prior` when the versions agree (`Copied`), and what
it has checked applies to its copy (`Checked`). So the `WHERE` of the claim, which only
compares status and version, compares the fighter as well, and a successful claim is one
step of `ReviewRegister`. `OneOpenReview` comes from the partial unique index.
`OpenReviewStaysBlocked` is an action property for any number of syncs: a decision
clears every block of the identity, whose one open review is the one it decides
(`DecisionBlocks`), and a sync that queues a review again clears those of the others, which
are not open if the review it found still is (`EnqueueAgainBlocks`). If it was decided in the meantime another
sync may have opened the next one, and that one loses its block: the case the property
names (`QueuesADecided`), since the theorem without it is false.

**Grades and their page.** `GradeInv` has the keys, that every settlement is at the
earliest quote, and that no quote is written once something may be settled (a recommend
runs before the start, and a start that has passed stays): a second settlement of one
version finds the first.
`PageInv` says why the page agrees: a publication is dated, the recommend of every
committed cutoff is over (`Ended`), the one under way has published nothing for the bouts it
has yet to do (`UnderWork`), and so a confirmed pick has exactly one quote unless its
recommend failed; the latest and the earliest are the same. `GradeAssumption` asks that
revisions are numbers and that `None` is neither a price time nor a key.

**The registry.** `GatedInv` says the same of the file, of a command's copy of it and of
what it is about to write. `ExplainedInv` says who accounts for the file: the last decision,
or the command that has written it and not yet committed.

**Matching.** The rows are append-only and read as of a time, so the past is what is
dated before it. `MatchingInv` has that nothing is dated later than now, that an open
reconcile began before now and no alias is newer unless something was committed since
(`RematchInv`), that an operator's version of a review determines its content (`SeenInv`),
and that alias versions are chained end to begin until a decision overtakes a commit.

**Prices.** A backtest reports a card that has started. Everything recorded afterwards is
stamped later than every time the valuation reads (the cutoff, the start), and `Priced`
is a function of the rows up to those times (`OpeningIsFixed`, `ClosingIsFixed`): the set
of candidates for a price does not change, and the choice of the earliest or the latest is
the same. `QuoteInv` needs that ids number the quotes, which breaks ties.

**Identity.** `IdentityInv`: the fighter an id is linked to was created for the id's
person, and a bout is between the persons of a fight that was listed under its id. The
assumptions are about the world (`TruthAssumption`): reports are true, two persons who
share a spelling are not born on one day, namesakes do not fight opponents of one
spelling on one day, and a source does not use a fight id for other persons. The code
relies on each of them; a source that reuses a fight id is outside (the fighters first
stored are kept).

**Pages.** `FetchInv` follows a page from the answer to the index: whatever a process has
read, holds or writes was served and stored. It does not need that the temporary file is
new: two writers of one file each write what they read and added. `FetchAssumption` says
that an answer of 200 has a page.

**The monitor.** `MonitorInv` keeps, for the page and for the report of the running tick,
the host it was made from; `Faithful` says what each component tells of it. The proof
goes through the conversions: statuses to blockers, components to the names of the page,
names to the monitor's signals, signals to a level. Of the page's own age only one
direction can be proved, that a young page does not keep a sound host from being green:
nothing in `monitor-check.sh` looks at the age of an old one (`monitor_stale_page`).

**Results and history.** `ResultInv`: as many versions of a bout and kind as observations
(`Numbered`), and a sync has committed every card before the one it is at (`SyncOK`).
`HistoryInv` is per step of the one sync (`JobOK`): whom it has met, what it has in hand,
and that a mark follows the page. The action properties need no more: a version or row
that arrives carries a time that the label or record of the past does not read.

**Nothing looks ahead.** `WalkInv` relates two runs: as long as the next card's cutoff is
within what the second run was told, both scorers are equal, both predicted alike, and the
holdout was calibrated once. `WalkAssumption` asks for cards in the order of their starts
with disjoint bouts, the holdout's last (`splits.py`: 2017-2023, 2024, 2025), and no
result that takes effect before its card.

**Files and tiers.** `BundleInv` says of the backup under way that what a decision of its
copy of the database names is still to copy or copied, and that files change only by a
process that ran since the list was made. `CoverageInv` is small; the work is in lemmas
about tiers, which rise when rows of a bout are added. A row that the cutoff may not see
is silent (`SilentRow`): it is in no tier, and the hash of the database as of the cutoff
is a function of the rows the cutoff may see (`HashOfThePast`). Between two versions of a
result the lanes keep their clocks (`LanesKeepTheirClocks`), so that a row linked to a
later version is silent as well.

**Bets.** `BetsPaidAsPriced` compares two sums over half rounds. That a bout's time, cut
into half rounds, closes where the settlement says is an induction over the rounds; it is
done by the least counterexample (`NatLessThanWellFounded`, `WFMin`), since the library's
induction rules take a predicate as a parameter. The same device gives least and greatest
elements in `MatchingProofs`, `RecordsProofs` and `EvidenceProofs`.
`PickPaysOff` is the price gate's inequality carried to the settlement's reading of a
draw. `OrderDoesNotMatter` shows that what is confirmed is a function of the *set* of
candidates: of two of one selection the same one is kept, and ranks are counted on ids.
`PolicyAssumption` asks that every market and selection has its place in the two orders.

**Reports.** `ReportInv` is small: the attempts so far are those of the first bouts of the
programme, in their order, each graded from one of its cases. The rest is what the folds
of a report compute, for every sequence of attempts. It is built up in four layers.

1. *Induction.* A number (`ByInduction`) or a finite set (`BySubsets`) is reached from the
   smaller ones, because the set of counterexamples would have a minimal element (`WFMin`
   on `StrictSubsetOrdering`). The claim is a *set* here, not a predicate, so the lemmas
   can be used. From them come the laws of `FoldFunction` (a total does not depend on the
   order, adds over disjoint parts, and over the kinds of a classification) and of
   `FlattenSeq` (its elements, its length, what is kept of it).
2. *Sums by kind.* Bets split by year, by market or by source, each of which is a function
   of the bet: settled bets and profits of the parts add up to those of the whole. This is
   what `assert_breakdowns_reconcile` tests at run time; here it cannot fire.
3. *Scores.* A market of a bout is scored as a group of its selections. Its key has the
   block and the bout, so a group is in one year, one family and one card
   (`ScoresAddUp`). No group `raises`: of the selections of one market two never win,
   whatever the facts (`OneWinner`), which goes back to `Settle`.
4. *Draws.* The bootstrap relabels the cards it draws. A relabelled card scores as the card
   itself (`RelabelledAlike`), two copies are never one group, and profits are read card by
   card (`DrawsWin`); so a sample's totals are the sum over its draws, repeated ones
   included.

**The replay.** `ReplayInv` adds that the pool is made from the attempts and the report
from the pool. A confirmed pick has passed the price gate of the policy on a quote read
back from the backtest's row, and that quote was either priced as of the cutoff or only
shown. `PickWasPriced` shows that whatever made the backtest refuse a price (too late, replaced,
stale, suspended, denied) is read again by a gate of the policy; and that a price the
policy takes was a candidate of the backtest (`ActionableBefore`): both ask the same
threshold, and the replay's lower quantile, which it does not divide by what is not void,
is the stricter. Without the assumption on the quotes users saw it would be false: a denied
one is refused by `join_quote`, and the policy reads no decision of it.

### Only model-checked

Liveness (`EveryTickEnds`, `ChainCompletes`, `CrashesHeal`): fairness and `ENABLED` are
beyond the prover. What a `RECURSIVE` operator computes would be too; no module uses one.
The library's induction theorems take a predicate as a parameter and no installed prover
can instantiate it; inductions are therefore done by the least counterexample, as said
under Bets and Reports. The six findings are violated, and so have no theorem.

## 6. Where the code and its documents disagree

Each is a run in which TLC finds the quoted sentence violated.

- `tick_failed_recommend`: `jobs/types.py:149` says of `blocks_downstream` that the
  orchestrator "must not treat this as a successful dep for card-level publish". It never
  reads the field. After a start has moved, recommend fails for the new cutoff and publish
  runs in the same tick on the old one's success.
- `tick_results_window`: `jobs/due.py:300` says "Results every 10 minutes from start
  through +4h (inclusive)." The loader returns only events with `scheduled_start_at >=
  as_of`, so the timer's ticks have no event any more when its results are due.
- `publish_pids`: `publish/public_sync.py:10` says "Failed sync/promote must leave
  last-known-good ``live/`` and previous assets in place." The promotion starts by deleting
  the backup that bears its process id. In a fresh container that may be the id of a
  publication that was killed between its two renames, whose backup is the only copy of
  `live/`; when the copying then fails nothing is left.
- `monitor_stale_page`: `docs/deployment/target-topology.md:121` lists "stale dashboard"
  among the alerts. `monitor-check.sh:116` takes the page's `data` for its freshness, and
  the page's `freshness` is the age of the page before it: a live page of any age leaves
  the monitor green while no job runs.
- `odds_alias_cutoff`: `odds/lifecycle.py:364` says "Only reused-ID replacement versions
  (alias_version > 1) establish a cutoff." The second reconcile of an event matches by its
  stored id what the first matched by participants, and versions the alias of the same
  bout: the quotes observed before it are hidden.
- `odds_missing_flips`: `odds/lifecycle.py:799` says "per-quote stale/missing never flips
  the whole event." A reconcile that saw no quotes writes `missing_unknown`; a quote
  polled afterwards is eligible by the decision and refused by its evidence.

### Observations without a run

Met while modelling and proving; the models have most of them as behaviours that the
properties allow for, and nothing checks them as such.

*Publication and budget.* Killed between the two renames of a re-publication,
`publish_release` leaves `current` naming a missing directory (the files are in `.old`)
until the next publication of that id. A call that was charged and then
failed releases its reservation and rolls back its observation, against
`odds/quota_budget.py:4` ("Never exceeds actual remaining"). `mma-model publish` takes no
lock: two publications mix in `live.candidate/`. Without the host lock a second tick
enters between the release of the overlap lock and the commit and calls the same handlers
again; the unique index then kills it. Files are published before the tick commits
(`jobs/handlers.py:802`).

*Recommendations.* Production ticks supply neither `recommendation_candidates` nor
`predictions_by_bout`: a confirmed pick needs an injected context, and one without a
prediction id makes publish fail (`publish/builder.py:154`). After a recommend that failed
half-way the retry conflicts on `published_at`, or adds a second official row.
`_lane_performance` counts every revision while `performance.json` takes the latest.
After a reschedule a bout that is blocked in the second recommend keeps the publication
of the old cutoff. `handlers.py:574-585` keys decisions by bout, so that a no-bet would
overwrite a pick. Candidates equal to the gates but for flags are resolved by their order
(`selector.py:82-132`).

*Odds.* A market that was unknown and comes back unchanged stays blocked (the
deduplication key has no time); backfilled quotes are observed at the backfill and never price a past
card; a clear of wider scope re-opens a narrower lock; overlapping reconciles can write an
alias into the past; two approvals of one bout share an alias row;
a card's cancel blocks no quote until the next reconcile. That an unknown
market never outlives a terminal state is kept by `resolve_match_lifecycle` alone.

*Review blocks of odds.* `odds/lifecycle.py:59-62` lists `match_*` among the evidence that
ends `review_blocked` ("A newer matched rematch supersedes prior ambiguity blocks."). No
rematch does: `resolve_match_lifecycle` (`lifecycle.py:787`) returns the terminal state,
and `reconcile.py:395` then writes no row, so that only an approval opens the bout
(`operator_lifecycle_clear`, listed too, has no caller). `UnblocksAsListed` takes the
table's word: it allows a match that is newer than the block as well as an approval, and
nothing else. That a rematch *must* open a bout is nowhere said, and no run asks for it.

*Identity reviews.* Of two syncs that found one review pending, the later to write takes
the block of the next review away if the first was decided in between
(`identity/review.py:157`, `:217`). Both need a host without the lock.

*Monitor.* `monitor-check.sh` is run as `ExecStartPost` of the scheduler's unit, so that a
stopped timer is not evaluated while it lasts. `HEALTH_COMPONENT_MAP` renames components;
the monitor reads neither `freshness` nor `pipeline`.

*Registry, files.* A refused promote's reject row is never recorded; `model promote
--candidate D --artifact X` verifies X and records D. A kill between payload and sidecar
leaves a pair that no load accepts, and `restore.sh` then refuses every later bundle; so
does a joint artifact. `_copy_public_releases` takes `.candidate` and `.old` directories
for releases.

*Results, history.* Overlapping syncs may commit a later revision with an older
`observed_at`; a correction taken back under one manifest version is skipped; a killed
sync stays "running". A fact of an earlier fight that arrives late makes
`persist_reconstruction` raise (`history/reconstruct.py:291-325`); the sync passes no
canonical opponents, so a bout of two sources counts twice; `frontier.py:48-49` says completed
entities are skipped, and `sync.py:322` visits them.

*Evaluation.* `_grade_bout` takes flags from all quotes, those after the cutoff included
(`engine.py:1538-1547`), and the replay reads them; a bankroll can fall below zero with
more than a hundred losing one-percent bets on a card; `p50_conditional` is read by the
replay and never written. Labels of `train` are read at start plus six hours while a
backfill stamps its rows at the sync, so that backfilled cards train nothing.

*Coverage, audits, identity.* UFCStats rows are written as `bout_stat`
(`sources/ufcstats_public/mapper.py:74`) and count as no facts, so that
`TiersAreIndependent` speaks of facts that are not stored today; `pre_fight_agreement` is
0 of 0, so that strict gates never pass. `source audit --live` and the manifest audit go
on after a refusal or a block, against `block_signals.py:27`; a torn index reads as
empty. The outcome of identity resolution depends on the order of reports; a fall back
from UFCStats to ESPN can store a card twice; the sync of the history passes no bout
(`history/sync.py:373`), so that what it queues blocks none, while `history/identity.py:4`
says "only affected bouts are scoring-blocked"; `identity/adjudicated.py` passes one, and
`IdentityReview` has both.

## 7. What is not modelled

The component list of `PROJECT.json` says of each part what is left out. In short:

- *Numbers*: estimation, calibration, devigging, Kelly's arithmetic beyond flooring,
  feature values, floats and tolerances. What goes into them and what depends on them is
  modelled. The probabilities of `BoutOutcome` are sets of atoms.
- *Text*: parsing of pages and payloads, name normalisation, reports, logs, secrets
  scanning, generated types.
- *Pure plumbing*: engine set-up, migrations, argument parsing, the web pages, `predict/`
  (the legacy model).
- *Operations*: `sync_web_assets`, `promote_current_release_json`, `rollback.sh`,
  `install.sh`, restore beyond its acceptance, remote copies; the `odds` commands but for
  the two that spend credits on a schedule, `--remaining-override`, dry runs, per-window caps and
  the turn of the billing month; the identity audit; the content-addressed payload store; state
  events and audit totals of the grade ledger; `--robots-disallow` and the validation of
  the source policy.

Two compositions are assumed rather than modelled: that a tick's publish job is the
publication of `PublishPointer` (`Dashboard` says what it publishes), and that the
database of `OddsQuota` is that of the tick whose snapshot-odds job calls it.

## 8. Plan

Done: every module listed in section 2, the runs of section 3, the theorems of section 5.
What is left, in order:

1. An abstract specification of the grade ledger (one outcome per recommendation and
   version) and of the registry (a champion and its history), with refinement proofs.
2. `BundlesRecover` for a backup that also copies releases beside a publication.
3. Overlapping odds commands (`Alone = FALSE`) with the properties that survive.
4. `rollback.sh` and a reader of `live/` as actors beside `PublishPointer`.

## 9. Running it

    cd tla
    tlc -workers 2 -config WeeklyTick_ticks.cfg MCWeeklyTick.tla
    tlc -workers 2 -config Records_all.cfg MCRecords.tla
    tlapm WeeklyTickProofs.tla

`RecordsProofs`, `MatchingProofs`, `RecommendProofs` and `EvidenceProofs` take between three
and ten minutes each from nothing. `PROJECT.json` lists every run with its module and
configuration, the lines each definition models (`map`), the mutants, the hazards and the
theorems.
