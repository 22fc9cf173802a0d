--------------------------- MODULE OddsQuotaProps ---------------------------
(***************************************************************************)
(* What the budget of the paid odds requests promises.                     *)
(***************************************************************************)
EXTENDS OddsQuota

Slots == Events \X Batches

Rows ==
  [quota : Row \cup {None}, probe : Row \cup {None},
   paid : SUBSET Batches, covered : SUBSET Slots]

Labels == {"idle", "open", "loop", "call", "commit"}

(* Every variable keeps its type; a ledger never reserves more than it     *)
(* knows of.                                                               *)
OddsTypeOK ==
  /\ now \in Nat /\ known \subseteq Events
  /\ balance \in 0 .. Limit
  /\ {quota, probe} \subseteq Row \cup {None}
  /\ paid \subseteq Batches /\ covered \subseteq Slots
  /\ pc \in [Runs -> Labels] /\ kind \in [Runs -> Kinds] /\ asOf \in [Runs -> Nat]
  /\ seen \in [Runs -> SUBSET Events]
  /\ remaining \in [Runs -> Nat \cup {None}] /\ reserved \in [Runs -> Nat]
  /\ todo \in [Runs -> SUBSET Batches]
  /\ cur \in [Runs -> Batches \cup {None}]
  /\ own \in [Runs -> Rows] /\ dirty \in [Runs -> BOOLEAN] /\ spent \in [Runs -> Nat]
  /\ {lost, finals, kills, faults} \subseteq Nat /\ reread \in BOOLEAN
  /\ \A p \in Runs :
       /\ At(p, "call") => cur[p] \in Batches
       /\ remaining[p] # None => reserved[p] <= remaining[p]

(* "Credits reserved so live final-hour polls are not starved by backfill" *)
(* (schedule_v1.yaml): what is gone of the reserve, the final polls have   *)
(* spent or the program was never told of (a call that failed after it was *)
(* charged, rows that a killed run did not commit).  It does not hold once *)
(* a run has taken an older answer of `events` for the balance.            *)
ReserveKept == ~reread => balance + finals + lost >= Reserve

(* "Never exceeds actual remaining under the configured exclusive-API-key  *)
(* operational assumption" (quota_budget.py), up to the same credits: a    *)
(* call that is made was within the provider's balance.                    *)
NeverExceeds ==
  \A p \in Runs : At(p, "call") /\ ~reread => Cost(cur[p]) <= balance + lost

BudgetKept == ReserveKept /\ NeverExceeds

(* A batch with a committed success is never asked for again, whatever was *)
(* discovered, killed or retried since.                                    *)
PaidOnce == \A p \in Runs : At(p, "call") => cur[p] \notin paid
=============================================================================
