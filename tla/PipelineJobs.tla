---------------------------- MODULE PipelineJobs ----------------------------
(***************************************************************************)
(* The vocabulary of the event-relative scheduler: job types, their        *)
(* execution order, the declared dependencies and the error classes.       *)
(*                                                                         *)
(* Source: src/mma_model/jobs/types.py, SERIES_JOB_TYPES and               *)
(* _dependency_satisfied of src/mma_model/jobs/orchestrator.py, and        *)
(* has_successful_job_type of src/mma_model/jobs/ledger.py.                *)
(*                                                                         *)
(* A due job is the record [type, event, slot].  Together they are the     *)
(* idempotency key "type:event:slot" of the code, so a job IS its key.     *)
(* Series-wide jobs carry the pseudo event NoEvent (event_id None).        *)
(***************************************************************************)
EXTENDS Integers

CONSTANT Events     \* canonical event ids, positive so that they sort after ""

ASSUME EventsAssumption == Events \subseteq Nat \ {0}

NoEvent == 0        \* event_id is None; sort_due_jobs sorts it as ""

(* JOB_EXECUTION_ORDER.                                                    *)
JobExecutionOrder ==
  << "discover", "ingest-history", "identity", "snapshot-odds", "score",
     "recommend", "publish", "results", "grade", "reconcile-24h",
     "reconcile-7d", "retrain", "backup" >>

JobType ==
  { "discover", "ingest-history", "identity", "snapshot-odds", "score",
    "recommend", "publish", "results", "grade", "reconcile-24h",
    "reconcile-7d", "retrain", "backup" }

(* JobErrorClass, without the classes that no job returns to the           *)
(* orchestrator (overlap, stale_quote and missing_odds).                   *)
ErrorClass ==
  { "transient", "authentication", "entitlement", "schema",
    "identity_unresolved", "dependency_blocked", "internal" }

(* Jobs of the whole series: their success is looked up without an event.  *)
SeriesJobTypes == { "discover", "ingest-history", "backup" }

(* JOB_DEPENDENCIES: the upstream types that must have succeeded.          *)
JobDependencies ==
  [ty \in JobType |->
     CASE ty = "ingest-history" -> {"discover"}
       [] ty = "identity"       -> {"ingest-history"}
       [] ty = "recommend"      -> {"score"}
       [] ty = "publish"        -> {"recommend"}
       [] ty = "grade"          -> {"results"}
       [] ty = "reconcile-24h"  -> {"grade"}
       [] ty = "reconcile-7d"   -> {"reconcile-24h"}
       [] ty = "retrain"        -> {"reconcile-24h"}
       [] OTHER                 -> {}]

Job == [type : JobType, event : Events \cup {NoEvent}, slot : Int]

(* The (type, event) pair under which a success counts as a dependency.    *)
SuccessKey(ty, e) == <<ty, IF ty \in SeriesJobTypes THEN NoEvent ELSE e>>

(* has_successful_job_type over the set D of keys that have a success row. *)
HasSuccessfulJobType(D, key) == \E k \in D : SuccessKey(k.type, k.event) = key

DepsSucceeded(D, j) ==
  \A d \in JobDependencies[j.type] :
     HasSuccessfulJobType(D, SuccessKey(d, j.event))

DepsClosed(D) == \A j \in D : DepsSucceeded(D, j)

(* sort_due_jobs: by type, then by event id.                               *)
Rank(ty) == CHOOSE i \in DOMAIN JobExecutionOrder : JobExecutionOrder[i] = ty

Before(j, k) ==
  \/ Rank(j.type) < Rank(k.type)
  \/ Rank(j.type) = Rank(k.type) /\ j.event < k.event

(* The jobs of a set that nothing else in it comes before.                 *)
Heads(todo) == { j \in todo : \A k \in todo : ~Before(k, j) }
=============================================================================
