------------------------------ MODULE OddsQuota ------------------------------
(***************************************************************************)
(* The paid odds requests: what the commands `jobs snapshot-odds` (live    *)
(* polls) and `odds backfill` (historical snapshots) ask of the provider,  *)
(* on one API key with a balance of credits that only the provider knows.  *)
(* A run learns it from an earlier answer in the database, from the free   *)
(* `events` request, and from the answers to its own calls; it must leave  *)
(* the reserve to the polls of the last hour.                              *)
(*                                                                         *)
(* Source: run_snapshot_odds_job (jobs/snapshot_odds.py), run_odds_backfill*)
(* (odds/backfill.py), RunningQuotaLedger and evaluate_quota_budget        *)
(* (odds/quota_budget.py), bootstrap_quota_remaining                       *)
(* (odds/quota_bootstrap.py) and the commands in cli.py that commit.       *)
(*                                                                         *)
(* The unit of time is a slot of the cadence.  The clock stays within one  *)
(* billing month.  A run is the command; its writes are one SQLite         *)
(* transaction, but for what `Saved` says.                                 *)
(***************************************************************************)
EXTENDS Integers, Nothing

CONSTANTS
  Runs,               \* processes that run one command after the other
  Events, Start,      \* events and their starting times
  Archive,            \* the frozen manifest of completed events
  FinalHour,          \* slots before a start that may spend the reserve
  Limit, Reserve,     \* credits of the month; quota.run_reserve
  LiveCost, HistCost, \* cost_per_region_market of the two requests
  MaxAge,             \* remaining_max_age_sec, bootstrap.min_interval_sec
  Alone,              \* a command is started when the last one has ended
  MaxTime, MaxKills, MaxFaults    \* bounds of the model

(* An odds_quota_observations row: when, and x-requests-remaining.         *)
Row == [at : Nat, remaining : Nat \cup {None}]

ASSUME OddsAssumption ==
  /\ Start \in [Events -> Nat] /\ Archive \subseteq Events
  /\ {FinalHour, Limit, MaxAge, MaxTime, MaxKills, MaxFaults} \subseteq Nat
  /\ Reserve \in 0 .. Limit
  /\ {LiveCost, HistCost} \subseteq Nat \ {0}
  /\ None \notin Nat \cup Row /\ Alone \in BOOLEAN

VARIABLES
  now, known,                \* the clock; events in the canonical tables
  balance,                   \* the provider's account
  quota, probe,              \* newest quota observation; newest of `events`
  paid, covered,             \* batches and slots with a successful job run
  pc, kind, asOf, seen,      \* a run: where, which command, its inputs
  remaining, reserved,       \* its RunningQuotaLedger
  todo, cur,                 \* batches to go; the one being requested
  own, dirty,                \* rows not committed; a transaction is open
  spent,                     \* credits charged in the open transaction
  lost, finals, reread,      \* bookkeeping of the properties, see Charge
  kills, faults

inputs == <<now, known>>
store  == <<quota, probe, paid, covered>>
task   == <<kind, asOf, seen>>
purse  == <<remaining, reserved>>
txn    == <<own, dirty>>
tally  == <<lost, finals, reread>>
bounds == <<kills, faults>>
quotaVars == <<inputs, balance, store, pc, task, purse, todo, cur, txn, spent, tally, bounds>>
-----------------------------------------------------------------------------
Kinds == {"live", "backfill"}

Purposes == {"live_ordinary", "live_final", "backfill"}

Batches == Purposes \X Nat

NoRows == [quota |-> None, probe |-> None, paid |-> {}, covered |-> {}]

At(p, label) == pc[p] = label

Goto(p, label) == pc' = [pc EXCEPT ![p] = label]

(* compute_due_work and the checkpoint loop: live polls end at the start,  *)
(* historical snapshots are of a start that has passed.                    *)
IsDue(k, e, t) == IF k = "live" THEN t < Start[e] ELSE Start[e] <= t

(* compute_batch_key: one request serves every event of a window and slot. *)
BatchOf(k, e, t) ==
  IF k = "backfill" THEN <<k, Start[e]>>
  ELSE <<IF Start[e] - t <= FinalHour THEN "live_final" ELSE "live_ordinary", t>>

Members(p, b) ==
  { e \in seen[p] : IsDue(kind[p], e, asOf[p]) /\ BatchOf(kind[p], e, asOf[p]) = b }

SlotsOf(p, b) == { <<e, b>> : e \in Members(p, b) }

Cost(b) == IF b[1] = "backfill" THEN HistCost ELSE LiveCost

(* What a run reads: the committed rows and its own.                       *)
Covered(p) == covered \cup own[p].covered

(* Mutant: a batch that was paid for is not looked up.                     *)
NeverPaid(p) == {}

Paid(p) == paid \cup own[p].paid
-----------------------------------------------------------------------------
(* FileFlockLock: each command has a lock file of its own.                 *)
Locked(p) == pc[p] \in {"open", "loop", "call"}

(* A command starts; it has read the events before it takes the lock: live *)
(* the canonical tables, for a backfill the manifest.                      *)
Begin(p, k) ==
  /\ At(p, "idle") /\ (k = "live" => known # {})
  /\ \A q \in Runs : Locked(q) => kind[q] # k
  /\ Alone => \A q \in Runs : At(q, "idle")
  /\ kind' = [kind EXCEPT ![p] = k]
  /\ asOf' = [asOf EXCEPT ![p] = now]
  /\ seen' = [seen EXCEPT ![p] = IF k = "live" THEN known ELSE Archive]
  /\ Goto(p, "open")
  /\ UNCHANGED <<inputs, balance, store, purse, todo, cur, txn, spent, tally, bounds>>

Recent(row, t) == row # None /\ t - row.at <= MaxAge

(* latest_remaining_from_observations knows the remaining credits.         *)
Known(p) == Recent(quota, asOf[p]) /\ quota.remaining # None

(* SQLite lets one transaction write.                                      *)
CanWrite(p) == \A q \in Runs : dirty[q] => q = p

(* The first pass over the events: the batches with a slot that is not yet *)
(* covered.                                                                *)
Pending(p) ==
  LET due == { e \in seen[p] : IsDue(kind[p], e, asOf[p]) }
  IN { b \in { BatchOf(kind[p], e, asOf[p]) : e \in due } : ~(SlotsOf(p, b) \subseteq Covered(p)) }

OpenLedger(p, left) ==
  /\ remaining' = [remaining EXCEPT ![p] = left]
  /\ reserved' = [reserved EXCEPT ![p] = 0]
  /\ todo' = [todo EXCEPT ![p] = Pending(p)]
  /\ Goto(p, "loop")
  /\ UNCHANGED <<inputs, balance, store, task, cur, spent, lost, finals, kills>>

(* open_quota_ledger, with a fresh observation                             *)
OpenKnown(p) ==
  /\ At(p, "open") /\ Known(p)
  /\ OpenLedger(p, quota.remaining)
  /\ UNCHANGED <<txn, reread, faults>>

(* bootstrap_quota_remaining: an answer of `events` from the last minutes  *)
(* is read again rather than asked for again.                              *)
OpenReread(p) ==
  /\ At(p, "open") /\ ~Known(p) /\ Recent(probe, asOf[p])
  /\ OpenLedger(p, probe.remaining)
  /\ reread' = IF probe.remaining # None THEN TRUE ELSE reread
  /\ UNCHANGED <<txn, faults>>

(* The free request, which may fail or answer without the header.          *)
OpenProbe(p) ==
  /\ At(p, "open") /\ ~Known(p) /\ ~Recent(probe, asOf[p])
  /\ \/ \E left \in {balance, None} :
          LET row == [at |-> asOf[p], remaining |-> left] IN
          /\ CanWrite(p)
          /\ left = None => faults < MaxFaults
          /\ faults' = IF left = None THEN faults + 1 ELSE faults
          /\ OpenLedger(p, left)
          /\ own' = [own EXCEPT ![p].quota = row, ![p].probe = row]
          /\ dirty' = [dirty EXCEPT ![p] = TRUE]
     \/ /\ faults < MaxFaults /\ faults' = faults + 1
        /\ OpenLedger(p, None)
        /\ UNCHANGED txn
  /\ UNCHANGED reread
-----------------------------------------------------------------------------
(* Mutant: calls without a header are authorised against one balance.      *)
Unadjusted(p) == remaining[p]

(* RunningQuotaLedger.effective_remaining                                  *)
Effective(p) == remaining[p] - reserved[p]

Spendable(p, b) == IF b[1] = "live_final" THEN Effective(p) ELSE Effective(p) - Reserve

(* evaluate_quota_budget                                                   *)
Allowed(p, b) == remaining[p] # None /\ Cost(b) <= Spendable(p, b)

(* A batch that was paid for serves the events that joined it later.       *)
Reuse(p, b) ==
  /\ At(p, "loop") /\ b \in todo[p] /\ b \in Paid(p) /\ CanWrite(p)
  /\ own' = [own EXCEPT ![p].covered = @ \cup SlotsOf(p, b)]
  /\ dirty' = [dirty EXCEPT ![p] = TRUE]
  /\ todo' = [todo EXCEPT ![p] = @ \ {b}]
  /\ UNCHANGED <<inputs, balance, store, pc, task, purse, cur, spent, tally, bounds>>

(* The budget says no: rows "deferred_quota" or "exhausted".               *)
Refuse(p, b) ==
  /\ At(p, "loop") /\ b \in todo[p] \ Paid(p) /\ ~Allowed(p, b) /\ CanWrite(p)
  /\ dirty' = [dirty EXCEPT ![p] = TRUE]
  /\ todo' = [todo EXCEPT ![p] = @ \ {b}]
  /\ UNCHANGED <<inputs, balance, store, pc, task, purse, cur, own, spent, tally, bounds>>

Authorise(p, b) ==
  /\ At(p, "loop") /\ b \in todo[p] \ Paid(p) /\ Allowed(p, b)
  /\ reserved' = [reserved EXCEPT ![p] = @ + Cost(b)]
  /\ cur' = [cur EXCEPT ![p] = b]
  /\ todo' = [todo EXCEPT ![p] = @ \ {b}]
  /\ Goto(p, "call")
  /\ UNCHANGED <<inputs, balance, store, task, remaining, txn, spent, tally, bounds>>

(* The provider takes the credits of the request of p.                     *)
Charge(p) ==
  LET b == cur[p] IN
  /\ Cost(b) <= balance
  /\ balance' = balance - Cost(b)
  /\ finals' = IF b[1] = "live_final" THEN finals + Cost(b) ELSE finals

(* The newest observation, by time and then by insertion.                  *)
Newer(row, committed) ==
  IF row # None /\ (committed # None => committed.at <= row.at) THEN row ELSE committed

(* nested.commit(): sqlite3 opens no transaction before a SAVEPOINT, so    *)
(* that releasing the first one of a transaction commits it; after another *)
(* write the rows wait for the command's session.commit().                 *)
Saved(p, row) ==
  LET b == cur[p] IN
  IF dirty[p]
  THEN /\ own' = [own EXCEPT ![p].quota = row, ![p].paid = @ \cup {b},
                             ![p].covered = @ \cup SlotsOf(p, b)]
       /\ spent' = [spent EXCEPT ![p] = @ + Cost(b)]
       /\ UNCHANGED store
  ELSE /\ quota' = Newer(row, quota) /\ paid' = paid \cup {b}
       /\ covered' = covered \cup SlotsOf(p, b)
       /\ UNCHANGED <<probe, own, spent>>

(* RunningQuotaLedger.apply_provider_remaining, with the answer's header   *)
ApplyProviderRemaining(p) ==
  /\ remaining' = [remaining EXCEPT ![p] = balance']
  /\ reserved' = [reserved EXCEPT ![p] = 0]

(* RunningQuotaLedger.release                                              *)
Release(p) ==
  /\ reserved' = [reserved EXCEPT ![p] = IF @ > Cost(cur[p]) THEN @ - Cost(cur[p]) ELSE 0]
  /\ UNCHANGED remaining

(* A paid answer; without the header the reservation stays.                *)
Answer(p) ==
  /\ At(p, "call") /\ CanWrite(p) /\ Charge(p)
  /\ \/ /\ Saved(p, [at |-> asOf[p], remaining |-> balance'])
        /\ ApplyProviderRemaining(p)
        /\ UNCHANGED faults
     \/ /\ faults < MaxFaults /\ faults' = faults + 1
        /\ Saved(p, [at |-> asOf[p], remaining |-> None])
        /\ UNCHANGED purse
  /\ Goto(p, "loop")
  /\ UNCHANGED <<inputs, task, todo, cur, dirty, lost, reread, kills>>

(* The call raises: the provider refused it, it never arrived, or it was   *)
(* charged and then something failed (the answer did not arrive or parse,  *)
(* a snapshot after its cutoff; or after its header was applied, a record).*)
(* The savepoint is rolled back, with the observation, the reservation     *)
(* released, and a "failed" row written.                                   *)
CallFails(p) ==
  /\ At(p, "call") /\ CanWrite(p)
  /\ \/ Cost(cur[p]) > balance /\ Release(p) /\ UNCHANGED <<balance, finals, lost, faults>>
     \/ /\ faults < MaxFaults /\ faults' = faults + 1
        /\ \/ Release(p) /\ UNCHANGED <<balance, finals, lost>>
           \/ /\ Charge(p) /\ lost' = lost + Cost(cur[p])
              /\ Release(p) \/ ApplyProviderRemaining(p)
  /\ dirty' = [dirty EXCEPT ![p] = TRUE]
  /\ Goto(p, "loop")
  /\ UNCHANGED <<inputs, store, task, todo, cur, own, spent, reread, kills>>

(* The lock is released when the job returns; the command then commits.    *)
Finish(p) ==
  /\ At(p, "loop") /\ todo[p] = {}
  /\ Goto(p, "commit")
  /\ UNCHANGED <<inputs, balance, store, task, purse, todo, cur, txn, spent, tally, bounds>>

(* The process ends, and its memory with it.                               *)
Cleared(p) ==
  /\ kind' = [kind EXCEPT ![p] = "live"] /\ asOf' = [asOf EXCEPT ![p] = 0]
  /\ seen' = [seen EXCEPT ![p] = {}] /\ todo' = [todo EXCEPT ![p] = {}]
  /\ cur' = [cur EXCEPT ![p] = None]
  /\ remaining' = [remaining EXCEPT ![p] = None]
  /\ reserved' = [reserved EXCEPT ![p] = 0]
  /\ own' = [own EXCEPT ![p] = NoRows]
  /\ dirty' = [dirty EXCEPT ![p] = FALSE]
  /\ spent' = [spent EXCEPT ![p] = 0]
  /\ Goto(p, "idle")

Commit(p) ==
  /\ At(p, "commit") /\ Cleared(p)
  /\ quota' = Newer(own[p].quota, quota) /\ probe' = Newer(own[p].probe, probe)
  /\ paid' = paid \cup own[p].paid /\ covered' = covered \cup own[p].covered
  /\ UNCHANGED <<inputs, balance, tally, bounds>>

(* The process dies, or raises out of the job: "database is locked".  Its  *)
(* open transaction is rolled back; a request under way may be charged.    *)
Kill(p) ==
  /\ ~At(p, "idle") /\ kills < MaxKills /\ kills' = kills + 1
  /\ Cleared(p)
  /\ \/ lost' = lost + spent[p] /\ UNCHANGED <<balance, finals>>
     \/ At(p, "call") /\ Charge(p) /\ lost' = lost + spent[p] + Cost(cur[p])
  /\ UNCHANGED <<inputs, store, reread, faults>>
-----------------------------------------------------------------------------
(* The clock, and the discovery of an event.                               *)
Tick ==
  /\ now < MaxTime /\ now' = now + 1
  /\ UNCHANGED <<known, balance, store, pc, task, purse, todo, cur, txn, spent, tally, bounds>>

Discover(e) ==
  /\ e \notin known \cup Archive /\ known' = known \cup {e}
  /\ UNCHANGED <<now, balance, store, pc, task, purse, todo, cur, txn, spent, tally, bounds>>

QuotaInit ==
  /\ now = 0 /\ known = {}
  /\ balance = Limit
  /\ quota = None /\ probe = None /\ paid = {} /\ covered = {}
  /\ pc = [p \in Runs |-> "idle"] /\ kind = [p \in Runs |-> "live"]
  /\ asOf = [p \in Runs |-> 0] /\ seen = [p \in Runs |-> {}]
  /\ remaining = [p \in Runs |-> None] /\ reserved = [p \in Runs |-> 0]
  /\ todo = [p \in Runs |-> {}] /\ cur = [p \in Runs |-> None]
  /\ own = [p \in Runs |-> NoRows] /\ dirty = [p \in Runs |-> FALSE]
  /\ spent = [p \in Runs |-> 0]
  /\ lost = 0 /\ finals = 0 /\ reread = FALSE
  /\ kills = 0 /\ faults = 0

Open(p) == OpenKnown(p) \/ OpenReread(p) \/ OpenProbe(p)

Settle(p) == Answer(p) \/ CallFails(p) \/ Finish(p) \/ Commit(p) \/ Kill(p)

QuotaNext ==
  \/ Tick
  \/ \E e \in Events : Discover(e)
  \/ \E p \in Runs :
       \/ \E k \in Kinds : Begin(p, k)
       \/ Open(p)
       \/ \E b \in todo[p] : Reuse(p, b) \/ Refuse(p, b) \/ Authorise(p, b)
       \/ Settle(p)

QuotaSpec == QuotaInit /\ [][QuotaNext]_quotaVars
=============================================================================
