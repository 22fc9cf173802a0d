----------------------------- MODULE WeeklyTick -----------------------------
(***************************************************************************)
(* The weekly scheduler: `mma-model jobs tick` processes that load the     *)
(* upcoming events, compute what is due, take the overlap lock, run the    *)
(* due jobs in order inside one SQLite transaction and commit it.          *)
(*                                                                         *)
(* Source: run_jobs_tick, _execute_job and _run_handler of                 *)
(* src/mma_model/jobs/orchestrator.py, the `jobs tick` branch of           *)
(* src/mma_model/cli.py, record_pipeline_job_run of jobs/ledger.py,        *)
(* FileFlockLock of jobs/locking.py, load_upcoming_dwcs_events_from_db of  *)
(* odds/events_for_schedule.py, and the host lock of deploy/run-job.sh.    *)
(*                                                                         *)
(* The domain work of a handler is abstracted to its HandlerResult; of its *)
(* effects only the one that feeds back into scheduling is kept: discover  *)
(* may move an event's start.                                              *)
(***************************************************************************)
EXTENDS DueJobs

CONSTANTS
  Ticks,          \* tick processes
  None,           \* no process, no job, no result
  HostFlock,      \* started by deploy/run-job.sh, under /run/mma-writer.lock
  Named,          \* events come from --event-id/--event-start, not the loader
  Horizon,        \* TICK_EVENT_HORIZON
  ResultsFinal,   \* context["results_final"] of the ticks
  Failing,        \* the <<type, error class>> pairs handlers may fail with
  MaxTransient,   \* max_transient_attempts
  FirstStart,     \* the events' starts in the database to begin with
  Starts,         \* the starts discover may move an event to
  Punctual,       \* the timer completes a tick at every instant
  MaxTime, MaxMoves, MaxAborts   \* bounds of the model

ASSUME TickAssumption ==
  /\ None \notin Ticks \cup Job \cup ErrorClass
  /\ {HostFlock, Named, ResultsFinal, Punctual} \subseteq BOOLEAN
  /\ {Horizon, MaxTime, MaxMoves, MaxAborts} \subseteq Nat
  /\ MaxTransient \in Nat \ {0}
  /\ Failing \subseteq JobType \X ErrorClass
  /\ Starts \subseteq Nat
  /\ FirstStart \in [Events -> Nat]

VARIABLES
  now,            \* the clock
  db,             \* the committed tables
  tx,             \* the tables as the open write transaction sees them
  writer,         \* the tick that holds SQLite's write lock
  flock,          \* the tick that holds the overlap lock
  pc,             \* where each tick is
  todo,           \* due jobs each tick has not come to yet
  job,            \* the job a tick is executing
  attempt,        \* its attempt number
  result,         \* what its handler returned
  succeeded,      \* succeeded_types
  failed,         \* <<job, error class>> of the tick's failed jobs
  lastRun,        \* the as_of of the latest tick
  moves, aborts   \* how often a start moved, how many ticks were lost

clockVars == <<now, lastRun>>
dataVars  == <<db, tx, writer, moves>>
tickVars  == <<pc, todo, job, attempt, result, succeeded, failed>>
vars      == <<clockVars, dataVars, tickVars, flock, aborts>>
-----------------------------------------------------------------------------
(* The tables: the keys with a success row, how many rows a key has (only  *)
(* keys whose handler may fail transiently are counted, and only up to     *)
(* MaxTransient: count_attempts is compared with nothing else), and the    *)
(* scheduled_start_at of the events.                                       *)
EmptyTables == [ done |-> {}, rows |-> [j \in {} |-> 0], start |-> FirstStart ]

CountAttempts(v, j) == IF j \in DOMAIN v.rows THEN v.rows[j] ELSE 0

Counted(j) == <<j.type, "transient">> \in Failing

WithRow(v, j) ==
  IF Counted(j) /\ CountAttempts(v, j) < MaxTransient
  THEN [v EXCEPT !.rows = [k \in DOMAIN v.rows \cup {j} |->
                             IF k = j THEN CountAttempts(v, j) + 1
                                      ELSE v.rows[k]]]
  ELSE v

WithSuccess(v, j) == [WithRow(v, j) EXCEPT !.done = v.done \cup {j}]

WithStart(v, e, s) == [v EXCEPT !.start = [v.start EXCEPT ![e] = s]]

(* What tick t reads: its own uncommitted rows once it has written.        *)
View(t) == IF writer = t THEN tx ELSE db

MayWrite(t) == writer \in {None, t}

Write(t, v) == writer' = t /\ tx' = v /\ UNCHANGED <<db, moves>>
-----------------------------------------------------------------------------
Idle(t) == pc[t] = "idle"

(* Mutant: a lock file instead of a kernel lock outlives its process.      *)
KeepLockFile(t) ==
  flock' = flock /\ writer' = IF writer = t THEN None ELSE writer

(* A process that ends drops its flock, and SQLite its write lock.         *)
DropLocks(t) ==
  /\ flock' = IF flock = t THEN None ELSE flock
  /\ writer' = IF writer = t THEN None ELSE writer

End(t) ==
  /\ pc' = [pc EXCEPT ![t] = "idle"]
  /\ todo' = [todo EXCEPT ![t] = {}]
  /\ job' = [job EXCEPT ![t] = None]
  /\ attempt' = [attempt EXCEPT ![t] = 0]
  /\ result' = [result EXCEPT ![t] = None]
  /\ succeeded' = [succeeded EXCEPT ![t] = {}]
  /\ failed' = [failed EXCEPT ![t] = {}]
  /\ DropLocks(t)

Rollback(t) ==
  /\ End(t)
  /\ tx' = IF writer = t THEN db ELSE tx
  /\ UNCHANGED <<db, moves, clockVars>>

(* load_upcoming_dwcs_events_from_db: scheduled at or after as_of.         *)
Upcoming == { e \in Events : now <= db.start[e] /\ db.start[e] <= now + Horizon }

(* jobs tick reads the clock and the events, and works out what is due,    *)
(* before it holds the overlap lock.                                       *)
StartTick(t) ==
  /\ Idle(t)
  /\ HostFlock => \A u \in Ticks : Idle(u)
  /\ \E E \in IF Named THEN { {e} : e \in Events } ELSE { Upcoming } :
       todo' = [todo EXCEPT ![t] = ComputeDueJobs(now, [e \in E |-> db.start[e]])]
  /\ pc' = [pc EXCEPT ![t] = "loaded"]
  /\ lastRun' = now
  /\ UNCHANGED <<now, dataVars, job, attempt, result, succeeded, failed,
                 flock, aborts>>

(* TickOverlapError: exit code 2, nothing written.                         *)
RejectOverlap(t) ==
  /\ pc[t] = "loaded" /\ flock # None
  /\ Rollback(t)
  /\ UNCHANGED aborts

DependencyKeys(jobs) ==
  UNION { { SuccessKey(d, j.event) : d \in JobDependencies[j.type] } : j \in jobs }

(* Mutant: the dependencies are collected without asking the ledger.       *)
SeedUnchecked(t) == DependencyKeys(todo[t])

(* succeeded_types to begin with: the dependencies the ledger has met.     *)
SeedSucceeded(t) ==
  { key \in DependencyKeys(todo[t]) : HasSuccessfulJobType(View(t).done, key) }

AcquireFlock(t) ==
  /\ pc[t] = "loaded" /\ flock = None
  /\ flock' = t
  /\ pc' = [pc EXCEPT ![t] = "running"]
  /\ succeeded' = [succeeded EXCEPT ![t] = SeedSucceeded(t)]
  /\ UNCHANGED <<clockVars, dataVars, todo, job, attempt, result, failed, aborts>>
-----------------------------------------------------------------------------
(* _dependency_satisfied: earlier in this tick, or in the ledger.          *)
DependencySatisfied(t, key) ==
  key \in succeeded[t] \/ HasSuccessfulJobType(View(t).done, key)

DependenciesOk(t, j) ==
  \A d \in JobDependencies[j.type] : DependencySatisfied(t, SuccessKey(d, j.event))

(* Mutant: a failed score is left out of blocks_card.                      *)
BlocksCardOnIdentity(j, err) ==
  j.type \in {"identity", "recommend"} /\ err = "identity_unresolved"

(* blocks_card: the failures that keep a card from being published.        *)
BlocksCard(j, err) ==
  \/ j.type = "score"
  \/ j.type \in {"identity", "recommend"} /\ err = "identity_unresolved"

BlockedPublishEvents(t) ==
  { p[1].event : p \in { f \in failed[t] : BlocksCard(f[1], f[2]) } }

CardBlocked(t, j) ==
  j.type \in {"recommend", "publish"} /\ j.event \in BlockedPublishEvents(t)

(* The next job of a tick, taken off its list by the action that uses it.  *)
Take(t, j) ==
  /\ pc[t] = "running" /\ j \in Heads(todo[t])
  /\ todo' = [todo EXCEPT ![t] = @ \ {j}]

(* A missing dependency, or a card blocked earlier in this tick: a         *)
(* dependency_blocked row.                                                 *)
BlockJob(t, j) ==
  /\ Take(t, j)
  /\ ~DependenciesOk(t, j) \/ CardBlocked(t, j)
  /\ MayWrite(t)
  /\ Write(t, WithRow(View(t), j))
  /\ UNCHANGED <<clockVars, pc, job, attempt, result, succeeded, failed,
                 flock, aborts>>

(* _execute_job finds a success row: skipped, and good for dependents.     *)
SkipDuplicate(t, j) ==
  /\ Take(t, j)
  /\ DependenciesOk(t, j) /\ ~CardBlocked(t, j)
  /\ j \in View(t).done
  /\ succeeded' = [succeeded EXCEPT ![t] = @ \cup {SuccessKey(j.type, j.event)}]
  /\ UNCHANGED <<clockVars, dataVars, pc, job, attempt, result, failed,
                 flock, aborts>>

CallHandler(t, j) ==
  /\ Take(t, j)
  /\ DependenciesOk(t, j) /\ ~CardBlocked(t, j)
  /\ j \notin View(t).done
  /\ pc' = [pc EXCEPT ![t] = "handler"]
  /\ job' = [job EXCEPT ![t] = j]
  /\ attempt' = [attempt EXCEPT ![t] = CountAttempts(View(t), j) + 1]
  /\ UNCHANGED <<clockVars, dataVars, result, succeeded, failed, flock, aborts>>

(* The HandlerResults of a job: grade is skipped until the results are     *)
(* final, a handler that raises has failed with "internal".                *)
Outcomes(j) ==
  (IF j.type = "grade" /\ ~ResultsFinal THEN {"skipped"} ELSE {"success"})
    \cup { err \in ErrorClass : <<j.type, err>> \in Failing }

HandlerReturns(t) ==
  /\ pc[t] = "handler"
  /\ \E r \in Outcomes(job[t]) : result' = [result EXCEPT ![t] = r]
  /\ pc' = [pc EXCEPT ![t] = "record"]
  /\ UNCHANGED <<clockVars, todo, job, attempt, succeeded, failed, flock, aborts>>

RunHandler(t) == HandlerReturns(t) /\ UNCHANGED dataVars

(* run_discover upserts the scheduled events in the tick's own session;    *)
(* they stay written if a later step of discover makes it fail.            *)
DiscoverMovesEvent(t) ==
  /\ HandlerReturns(t)
  /\ job[t].type = "discover" /\ moves < MaxMoves
  /\ MayWrite(t)
  /\ \E e \in Events : \E s \in Starts \ {View(t).start[e]} :
       tx' = WithStart(View(t), e, s)
  /\ writer' = t
  /\ moves' = moves + 1
  /\ UNCHANGED db
-----------------------------------------------------------------------------
Recorded(t) ==
  /\ pc' = [pc EXCEPT ![t] = "running"]
  /\ job' = [job EXCEPT ![t] = None]
  /\ attempt' = [attempt EXCEPT ![t] = 0]
  /\ result' = [result EXCEPT ![t] = None]
  /\ UNCHANGED <<clockVars, todo, flock, aborts>>

MayRetry(t) == attempt[t] < MaxTransient

(* The bounded retry of a transient failure within the tick.               *)
RetryTransient(t) ==
  /\ pc[t] = "record" /\ result[t] = "transient" /\ MayRetry(t)
  /\ MayWrite(t)
  /\ Write(t, WithRow(View(t), job[t]))
  /\ attempt' = [attempt EXCEPT ![t] = @ + 1]
  /\ result' = [result EXCEPT ![t] = None]
  /\ pc' = [pc EXCEPT ![t] = "handler"]
  /\ UNCHANGED <<clockVars, todo, job, succeeded, failed, flock, aborts>>

RecordSuccess(t) ==
  /\ pc[t] = "record" /\ result[t] = "success"
  /\ MayWrite(t) /\ job[t] \notin View(t).done
  /\ Write(t, WithSuccess(View(t), job[t]))
  /\ succeeded' = [succeeded EXCEPT ![t] =
                     @ \cup {SuccessKey(job[t].type, job[t].event)}]
  /\ Recorded(t) /\ UNCHANGED failed

RecordSkip(t) ==
  /\ pc[t] = "record" /\ result[t] = "skipped"
  /\ MayWrite(t)
  /\ Write(t, WithRow(View(t), job[t]))
  /\ Recorded(t) /\ UNCHANGED <<succeeded, failed>>

RecordFailure(t) ==
  /\ pc[t] = "record" /\ result[t] \in ErrorClass
  /\ result[t] = "transient" => ~MayRetry(t)
  /\ MayWrite(t)
  /\ Write(t, WithRow(View(t), job[t]))
  /\ failed' = [failed EXCEPT ![t] = @ \cup {<<job[t], result[t]>>}]
  /\ Recorded(t) /\ UNCHANGED succeeded

(* Mutant: the refusal is swallowed and the row written again and again.   *)
DuplicateIgnored(t) == FALSE

(* The ledger refuses a second success for a key (PipelineLedgerDuplicate, *)
(* or UNIQUE(idempotency_key, success_token)): the tick dies.              *)
DuplicateSuccess(t) ==
  /\ pc[t] = "record" /\ result[t] = "success" /\ job[t] \in View(t).done
  /\ Rollback(t)
  /\ UNCHANGED aborts

(* SQLite's busy timeout: another process is writing, the tick dies.       *)
DatabaseLocked(t) ==
  /\ pc[t] = "record" \/ (pc[t] = "running" /\ todo[t] # {})
  /\ ~MayWrite(t)
  /\ Rollback(t)
  /\ UNCHANGED aborts

(* run_jobs_tick returns: the lock goes before the CLI commits.            *)
ReleaseFlock(t) ==
  /\ pc[t] = "running" /\ todo[t] = {}
  /\ pc' = [pc EXCEPT ![t] = "unlocked"]
  /\ flock' = None
  /\ UNCHANGED <<clockVars, dataVars, todo, job, attempt, result, succeeded,
                 failed, aborts>>

Commit(t) ==
  /\ pc[t] = "unlocked"
  /\ db' = View(t)
  /\ End(t)
  /\ UNCHANGED <<tx, moves, clockVars, aborts>>

(* The process is killed, or an error poisons its session: rollback.       *)
Abort(t) ==
  /\ ~Idle(t) /\ aborts < MaxAborts
  /\ aborts' = aborts + 1
  /\ Rollback(t)

(* Time passes.  Punctual: the timer (every 5 minutes) has a tick complete *)
(* in every unit of the cadence's time before the next one begins.         *)
AdvanceClock ==
  /\ now < MaxTime
  /\ Punctual => lastRun = now /\ \A t \in Ticks : Idle(t)
  /\ now' = now + 1
  /\ UNCHANGED <<lastRun, dataVars, tickVars, flock, aborts>>
-----------------------------------------------------------------------------
Init ==
  /\ now = 0 /\ lastRun = -1
  /\ db = EmptyTables /\ tx = EmptyTables
  /\ writer = None /\ flock = None
  /\ pc = [t \in Ticks |-> "idle"]
  /\ todo = [t \in Ticks |-> {}]
  /\ job = [t \in Ticks |-> None]
  /\ attempt = [t \in Ticks |-> 0]
  /\ result = [t \in Ticks |-> None]
  /\ succeeded = [t \in Ticks |-> {}]
  /\ failed = [t \in Ticks |-> {}]
  /\ moves = 0 /\ aborts = 0

HandleJob(t) == \E j \in todo[t] :
  BlockJob(t, j) \/ SkipDuplicate(t, j) \/ CallHandler(t, j)

Record(t) ==
  \/ RetryTransient(t) \/ RecordSuccess(t) \/ RecordSkip(t)
  \/ RecordFailure(t) \/ DuplicateSuccess(t)

(* What a tick process does once it has begun, left to itself.             *)
TickStep(t) ==
  \/ AcquireFlock(t) \/ RejectOverlap(t)
  \/ HandleJob(t)
  \/ RunHandler(t) \/ DiscoverMovesEvent(t)
  \/ Record(t) \/ DatabaseLocked(t)
  \/ ReleaseFlock(t) \/ Commit(t)

Next ==
  \/ AdvanceClock
  \/ \E t \in Ticks : StartTick(t) \/ TickStep(t) \/ Abort(t)

Spec == Init /\ [][Next]_vars

(* systemd starts the timer's service again and again, a started process   *)
(* runs on, and time passes whatever the ticks do (strongly fair: in the   *)
(* punctual instances the clock waits for the tick that has begun).        *)
Fairness ==
  /\ SF_vars(AdvanceClock)
  /\ \A t \in Ticks : WF_vars(StartTick(t)) /\ WF_vars(TickStep(t))

FairSpec == Spec /\ Fairness
=============================================================================
