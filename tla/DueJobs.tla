------------------------------ MODULE DueJobs -------------------------------
(***************************************************************************)
(* compute_due_jobs: which jobs a tick finds due at the instant as_of, for *)
(* the events it was given.  Source: src/mma_model/jobs/due.py.            *)
(*                                                                         *)
(* Instants are counted in the time unit of the cadence constants.  An     *)
(* event card is a function from the ids of the events the tick knows to   *)
(* their start (EventContext.event_start).                                 *)
(***************************************************************************)
EXTENDS PipelineJobs

CONSTANTS
  OddsOpen,         \* odds_open_hours_before_start
  ScoreReady,       \* score_ready_offset_minutes
  Official,         \* official_offset_minutes
  ResultsInterval,  \* results_interval_minutes
  ResultsWindow,    \* results_window_hours_after_start
  Reconcile24,      \* reconcile_24h_hours
  Reconcile7,       \* reconcile_7d_days
  HourLen, DayLen,  \* an hour and a UTC calendar day
  BackupHour        \* backup_hour_utc

(* config/jobs.yaml and the defaults of OrchestratorCadence satisfy these; *)
(* the loader does not check them.                                         *)
ASSUME CadenceAssumption ==
  /\ {OddsOpen, ScoreReady, Official, ResultsInterval, ResultsWindow,
      Reconcile24, Reconcile7, HourLen, DayLen} \subseteq Nat \ {0}
  /\ BackupHour \in Nat
  /\ Official < ScoreReady /\ ScoreReady <= OddsOpen
  /\ ResultsWindow < Reconcile24 /\ Reconcile24 <= Reconcile7

Day(t)  == t \div DayLen                        \* _date_bucket
Hour(t) == (t % DayLen) \div HourLen

(* _results_slot: the start of the interval that as_of falls into.         *)
ResultsSlot(start, asOf) ==
  ((asOf - start) \div ResultsInterval) * ResultsInterval

JobFor(ty, e, slot) == [type |-> ty, event |-> e, slot |-> slot]

SeriesDue(asOf) ==
  { JobFor(ty, NoEvent, Day(asOf)) :
      ty \in {"discover", "ingest-history"}
               \cup {b \in {"backup"} : Hour(asOf) = BackupHour} }

(* The windows of one event, each with the slot that makes its keys.       *)
OpenJobs(e, asOf) ==
  { JobFor("identity", e, Day(asOf)), JobFor("snapshot-odds", e, asOf) }

ScoreJobs(e, start) == { JobFor("score", e, start - Official) }

OfficialJobs(e, start) ==
  { JobFor(ty, e, start - Official) : ty \in {"recommend", "publish"} }

ResultsJobs(e, start, asOf) ==
  { JobFor("results", e, ResultsSlot(start, asOf)), JobFor("grade", e, 0) }

DayAfterJobs(e) ==
  { JobFor(ty, e, 0) : ty \in {"grade", "reconcile-24h", "retrain"} }

(* Mutant: reconciliation is due at one instant instead of from it on.     *)
DayAfterOnce(start, asOf) == start + Reconcile24 = asOf

DayAfter(start, asOf) == start + Reconcile24 <= asOf

When(open, jobs) == IF open THEN jobs ELSE {}

(* _event_due_jobs.                                                        *)
EventDue(e, start, asOf) ==
  When(start - OddsOpen <= asOf /\ asOf < start, OpenJobs(e, asOf))
  \cup When(start - ScoreReady <= asOf /\ asOf < start, ScoreJobs(e, start))
  \cup When(start - Official <= asOf /\ asOf < start, OfficialJobs(e, start))
  \cup When(start <= asOf /\ asOf <= start + ResultsWindow,
            ResultsJobs(e, start, asOf))
  \cup When(DayAfter(start, asOf), DayAfterJobs(e))
  \cup When(start + Reconcile7 <= asOf, { JobFor("reconcile-7d", e, 0) })

(* compute_due_jobs; the order is that of Before.                          *)
ComputeDueJobs(asOf, card) ==
  SeriesDue(asOf) \cup UNION { EventDue(e, card[e], asOf) : e \in DOMAIN card }
=============================================================================
