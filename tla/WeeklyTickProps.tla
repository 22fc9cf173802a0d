-------------------------- MODULE WeeklyTickProps ---------------------------
(***************************************************************************)
(* What the scheduler of WeeklyTick must do, and what its source says of   *)
(* itself.                                                                 *)
(***************************************************************************)
EXTENDS WeeklyTick

Keys == JobType \X (Events \cup {NoEvent})

IsTables(v) ==
  /\ v = [ done |-> v.done, rows |-> v.rows, start |-> v.start ]
  /\ v.done \subseteq Job
  /\ v.rows = [j \in DOMAIN v.rows |-> v.rows[j]]
  /\ DOMAIN v.rows \subseteq Job
  /\ \A j \in DOMAIN v.rows : v.rows[j] \in 0 .. MaxTransient
  /\ v.start \in [Events -> Nat]

(* Every variable keeps its type, and the executing states have a job.     *)
TypeOK ==
  /\ now \in Nat /\ lastRun \in Int /\ moves \in Nat /\ aborts \in Nat
  /\ IsTables(db) /\ IsTables(tx)
  /\ writer \in Ticks \cup {None} /\ flock \in Ticks \cup {None}
  /\ pc \in [Ticks -> {"idle", "loaded", "running", "handler", "record", "unlocked"}]
  /\ todo \in [Ticks -> SUBSET Job]
  /\ succeeded \in [Ticks -> SUBSET Keys]
  /\ failed \in [Ticks -> SUBSET (Job \X ErrorClass)]
  /\ job \in [Ticks -> Job \cup {None}]
  /\ attempt \in [Ticks -> 0 .. MaxTransient + 1]
  /\ result \in [Ticks -> {None, "success", "skipped"} \cup ErrorClass]
  /\ \A t \in Ticks : pc[t] \in {"handler", "record"} => job[t] \in Job

(* Every success the ledger has committed rests on a committed success of  *)
(* each type it depends on, whatever ticks failed, died or were rolled     *)
(* back between (JOB_DEPENDENCIES, _check_dependencies).                   *)
LedgerClosed == DepsClosed(db.done)

(* A card is recommended or published for a cutoff only if that very       *)
(* cutoff was scored.  The dependency table asks for some success of the   *)
(* type, at any cutoff of the event; it takes blocked_publish_events and   *)
(* the execution order to keep a card whose start moved from going out on  *)
(* the scores of the old cutoff.                                           *)
CutoffScored ==
  \A k \in db.done : k.type \in {"recommend", "publish"} =>
                       JobFor("score", k.event, k.slot) \in db.done

(* Seen through its committed rows, the scheduler is the abstract ledger:  *)
(* keys only become successful, a tick at a time, closed under their       *)
(* dependencies - with ticks overlapping, dying, and losing races.         *)
Ledger == INSTANCE JobLedger WITH done <- db.done

RefinesLedger == Ledger!LedgerSpec

(* A tick that has begun ends: no lock, retry or refused row strands it.   *)
EveryTickEnds == \A t \in Ticks : ~Idle(t) ~> Idle(t)

(* An official window of Official instants survives fewer than Official    *)
(* lost ticks: when an unmoved event starts, its card has been published   *)
(* (_event_due_jobs keeps the official jobs due until the start).          *)
NoMissedCard ==
  \A e \in Events :
    (moves = 0 /\ aborts < Official /\ now > FirstStart[e]) =>
      JobFor("publish", e, FirstStart[e] - Official) \in db.done

(* An event whose card is over is graded, reconciled twice and retrained   *)
(* on, in spite of a lost tick (the chain RESULTS to RETRAIN).             *)
ChainCompletes ==
  \A e \in Events :
    <>(\A ty \in {"grade", "reconcile-24h", "reconcile-7d", "retrain"} :
         JobFor(ty, e, 0) \in db.done)
-----------------------------------------------------------------------------
(* What comments and tests of the source say, and the code does not do.    *)

(* blocks_downstream (jobs/types.py): "When True, orchestrator must not    *)
(* treat this as a successful dep for card-level publish".  Every failed   *)
(* recommend sets it.                                                      *)
NoPublishAfterFailedRecommend ==
  \A t \in Ticks : pc[t] = "handler" /\ job[t].type = "publish" =>
    \A f \in failed[t] : f[1].type = "recommend" => f[1].event # job[t].event

(* "Results every 10 minutes from start through +4h (inclusive)"           *)
(* (_event_due_jobs): a tick in the results window has the results job.    *)
ResultsThroughWindow ==
  \A t \in Ticks, e \in Events :
    (pc[t] = "loaded" /\ moves = 0 /\ lastRun \in
       FirstStart[e] .. FirstStart[e] + ResultsWindow) =>
      \E j \in todo[t] : j.type = "results" /\ j.event = e
=============================================================================
