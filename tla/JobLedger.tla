----------------------------- MODULE JobLedger ------------------------------
(***************************************************************************)
(* What the pipeline ledger promises, without ticks, locks, retries or     *)
(* transactions: the set of idempotency keys that have succeeded only ever *)
(* grows, a whole tick at a time, and after every step each success rests  *)
(* on a success of everything it depends on.                               *)
(*                                                                         *)
(* Source: the table of src/mma_model/db/tables/pipeline_jobs.py as        *)
(* src/mma_model/jobs/ledger.py reads and writes it.                       *)
(***************************************************************************)
EXTENDS PipelineJobs

VARIABLE done       \* the keys that have a row with success_token = 1

LedgerInit == done = {}

(* A tick's transaction commits its batch of new successes.                *)
CommitTick ==
  /\ done' \in SUBSET Job
  /\ done \subseteq done'
  /\ DepsClosed(done')

LedgerSpec == LedgerInit /\ [][CommitTick]_done
=============================================================================
