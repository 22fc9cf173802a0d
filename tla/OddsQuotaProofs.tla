--------------------------- MODULE OddsQuotaProofs ---------------------------
(***************************************************************************)
(* The budget of the paid odds requests, for any number of events, slots,  *)
(* failures and kills and any costs, when commands do not overlap.         *)
(*                                                                         *)
(* The invariant bounds every figure a run works from by what the provider *)
(* has left and the credits whose fate was lost: the committed observation *)
(* (Within, up to what the open transaction has spent and will commit), the*)
(* run's own observation, and its ledger.  A call that is made leaves the  *)
(* reserve of its purpose in the ledger, hence in the balance.             *)
(***************************************************************************)
EXTENDS OddsQuotaProps, TLAPS

Resting(p) == own[p] = NoRows /\ dirty[p] = FALSE /\ spent[p] = 0

(* A row that overstates the balance by what was lost and c at most.       *)
Within(row, c) ==
  row # None /\ row.remaining # None => row.remaining <= balance + lost + c

(* What must be left to a run after the request for b.                     *)
Floor(b) == IF b[1] = "live_final" THEN 0 ELSE Reserve

Ledger(p) ==
  /\ At(p, "loop") /\ ~reread /\ remaining[p] # None =>
       remaining[p] - reserved[p] <= balance + lost
  /\ At(p, "call") =>
       /\ remaining[p] # None /\ cur[p] \notin paid
       /\ reserved[p] >= Cost(cur[p])
       /\ remaining[p] - reserved[p] >= Floor(cur[p])
       /\ ~reread => remaining[p] - reserved[p] + Cost(cur[p]) <= balance + lost

Transaction(p) ==
  /\ pc[p] \in {"idle", "open"} \/ dirty[p] = FALSE => Resting(p)
  /\ spent[p] # 0 => own[p].quota # None
  /\ own[p].quota # None => own[p].quota.at = asOf[p]
  /\ Within(own[p].quota, 0)
  /\ ~At(p, "idle") =>
       /\ asOf[p] <= now
       /\ quota # None => quota.at <= asOf[p]
       /\ Within(quota, spent[p])

Single == \A p, q \in Runs : At(p, "idle") \/ At(q, "idle") \/ p = q

Committed ==
  /\ quota # None => quota.at <= now
  /\ (\A p \in Runs : At(p, "idle")) => Within(quota, 0)

QInv ==
  /\ OddsTypeOK /\ Single /\ Committed /\ ReserveKept
  /\ \A p \in Runs : Ledger(p) /\ Transaction(p)
-----------------------------------------------------------------------------
LEMMA OddsInit == QuotaInit => QInv
<1>. SUFFICES ASSUME QuotaInit PROVE QInv
  OBVIOUS
<1>1. OddsTypeOK
  <2>1. NoRows \in Rows
    BY DEF NoRows, Rows
  <2>2. balance \in 0 .. Limit
    BY OddsAssumption DEF QuotaInit
  <2>3. own \in [Runs -> Rows] /\ dirty \in [Runs -> BOOLEAN]
    BY <2>1, Zenon DEF QuotaInit
  <2>4. \A p \in Runs : /\ pc[p] = "idle" /\ remaining[p] = None
    BY DEF QuotaInit
  <2>5. reread \in BOOLEAN
    BY DEF QuotaInit
  <2>6. /\ pc \in [Runs -> Labels] /\ kind \in [Runs -> Kinds]
        /\ remaining \in [Runs -> Nat \cup {None}]
        /\ cur \in [Runs -> Batches \cup {None}]
    BY DEF QuotaInit, Labels, Kinds
  <2>7. asOf \in [Runs -> Nat] /\ reserved \in [Runs -> Nat] /\ spent \in [Runs -> Nat]
    BY DEF QuotaInit
  <2>8. seen \in [Runs -> SUBSET Events] /\ todo \in [Runs -> SUBSET Batches]
    BY DEF QuotaInit
  <2>9. /\ now \in Nat /\ known \subseteq Events
        /\ {quota, probe} \subseteq Row \cup {None}
        /\ paid \subseteq Batches /\ covered \subseteq Slots
        /\ {lost, finals, kills, faults} \subseteq Nat
    BY DEF QuotaInit
  <2>. QED
    BY <2>2, <2>3, <2>4, <2>5, <2>6, <2>7, <2>8, <2>9 DEF OddsTypeOK, At
<1>2. Single /\ Committed /\ ReserveKept
  BY OddsAssumption DEF QuotaInit, Single, Committed, Within, ReserveKept, At
<1>3. ASSUME NEW p \in Runs PROVE Ledger(p) /\ Transaction(p)
  <2>1. Resting(p) /\ At(p, "idle")
    BY Zenon DEF QuotaInit, Resting, At
  <2>2. own[p].quota = None /\ spent[p] = 0
    BY <2>1 DEF Resting, NoRows
  <2>. QED
    BY <2>1, <2>2 DEF Ledger, Transaction, Within, At
<1>. QED
  BY <1>1, <1>2, <1>3 DEF QInv

(* Of the other runs nothing changes and they hold nothing.                *)
LEMMA Others ==
  ASSUME QInv, NEW p \in Runs, NEW q \in Runs, q # p, At(q, "idle"),
         pc'[q] = pc[q], own'[q] = own[q], dirty'[q] = dirty[q], spent'[q] = spent[q]
  PROVE  Ledger(q)' /\ Transaction(q)'
<1>1. Transaction(q)
  BY DEF QInv
<1>2. Resting(q) /\ Resting(q)'
  BY <1>1 DEF Transaction, Resting, At
<1>3. own'[q].quota = None
  BY <1>2 DEF Resting, NoRows
<1>4. Transaction(q)'
  BY <1>2, <1>3 DEF Transaction, Resting, Within, At
<1>. QED
  BY <1>4 DEF Ledger, At

(* The batches a run computes are batches, and its slots slots.            *)
LEMMA BatchType ==
  ASSUME OddsTypeOK, NEW p \in Runs, NEW b \in Batches
  PROVE  /\ Cost(b) \in Nat \ {0} /\ Floor(b) \in Nat
         /\ SlotsOf(p, b) \subseteq Slots
BY OddsAssumption
DEF OddsTypeOK, Cost, Floor, SlotsOf, Members, Slots

LEMMA BatchOfType ==
  ASSUME NEW k \in Kinds, NEW e \in Events, NEW t \in Nat
  PROVE  BatchOf(k, e, t) \in Batches
BY OddsAssumption DEF BatchOf, Batches, Purposes, Kinds

(* Rows written by a run are rows.                                         *)
LEMMA ProbeWritten ==
  ASSUME own \in [Runs -> Rows], NEW p \in Runs, NEW row \in Row
  PROVE  [own EXCEPT ![p].quota = row, ![p].probe = row] \in [Runs -> Rows]
BY DEF Rows

LEMMA SlotsWritten ==
  ASSUME own \in [Runs -> Rows], NEW p \in Runs, NEW C \in SUBSET Slots
  PROVE  [own EXCEPT ![p].covered = @ \cup C] \in [Runs -> Rows]
BY DEF Rows

LEMMA AnswerWritten ==
  ASSUME own \in [Runs -> Rows], NEW p \in Runs, NEW row \in Row,
         NEW B \in SUBSET Batches, NEW C \in SUBSET Slots
  PROVE  [own EXCEPT ![p].quota = row, ![p].paid = @ \cup B, ![p].covered = @ \cup C]
           \in [Runs -> Rows]
BY DEF Rows

(* open_quota_ledger gives a run its ledger and its batches.               *)
LEMMA OpenType ==
  ASSUME OddsTypeOK, NEW p \in Runs, NEW left \in Nat \cup {None}, OpenLedger(p, left)
  PROVE  /\ remaining' = [remaining EXCEPT ![p] = left]
         /\ remaining' \in [Runs -> Nat \cup {None}]
         /\ reserved' = [reserved EXCEPT ![p] = 0] /\ reserved' \in [Runs -> Nat]
         /\ pc' = [pc EXCEPT ![p] = "loop"] /\ pc' \in [Runs -> Labels]
         /\ todo' \in [Runs -> SUBSET Batches]
         /\ \A q \in Runs :
              /\ At(q, "call")' => cur'[q] \in Batches
              /\ remaining'[q] # None => reserved'[q] <= remaining'[q]
         /\ UNCHANGED <<now, known, balance, quota, probe, paid, covered, kind, asOf,
                        seen, cur, spent, lost, finals, kills>>
<1>1. Pending(p) \subseteq Batches
  BY BatchOfType DEF OddsTypeOK, Pending
<1>2. \A q \in Runs :
        /\ At(q, "call")' => cur'[q] \in Batches
        /\ remaining'[q] # None => reserved'[q] <= remaining'[q]
  BY OddsAssumption DEF OpenLedger, OddsTypeOK, Goto, At
<1>. QED
  BY <1>1, <1>2 DEF OpenLedger, OddsTypeOK, Goto, Labels, inputs, store, task

(* A run that ends forgets everything.                                     *)
LEMMA ClearedType ==
  ASSUME OddsTypeOK, NEW p \in Runs, Cleared(p)
  PROVE  /\ kind' \in [Runs -> Kinds] /\ asOf' \in [Runs -> Nat]
         /\ seen' \in [Runs -> SUBSET Events] /\ todo' \in [Runs -> SUBSET Batches]
         /\ cur' \in [Runs -> Batches \cup {None}]
         /\ remaining' \in [Runs -> Nat \cup {None}] /\ reserved' \in [Runs -> Nat]
         /\ own' \in [Runs -> Rows] /\ dirty' \in [Runs -> BOOLEAN]
         /\ spent' \in [Runs -> Nat] /\ pc' \in [Runs -> Labels]
         /\ \A q \in Runs :
              /\ At(q, "call")' => cur'[q] \in Batches
              /\ remaining'[q] # None => reserved'[q] <= remaining'[q]
<1>1. own' \in [Runs -> Rows]
  BY DEF OddsTypeOK, Cleared, Rows, NoRows
<1>2. \A q \in Runs :
        /\ At(q, "call")' => cur'[q] \in Batches
        /\ remaining'[q] # None => reserved'[q] <= remaining'[q]
  BY DEF OddsTypeOK, Cleared, Goto, At
<1>. QED
  BY <1>1, <1>2 DEF OddsTypeOK, Cleared, Goto, Labels, Kinds

LEMMA TypeStep ==
  ASSUME OddsTypeOK, \A p \in Runs : Ledger(p), QuotaNext
  PROVE  OddsTypeOK'
<1>. USE DEF OddsTypeOK
<1>1. CASE Tick
  BY <1>1 DEF Tick, store, task, purse, txn, tally, bounds, At
<1>2. ASSUME NEW e \in Events, Discover(e) PROVE OddsTypeOK'
  BY <1>2 DEF Discover, store, task, purse, txn, tally, bounds, At
<1>3. ASSUME NEW p \in Runs, NEW k \in Kinds, Begin(p, k) PROVE OddsTypeOK'
  BY <1>3, OddsAssumption
  DEF Begin, Goto, Labels, inputs, store, purse, txn, tally, bounds, At
<1>4. ASSUME NEW p \in Runs, OpenKnown(p) PROVE OddsTypeOK'
  <2>1. quota.remaining \in Nat
    BY <1>4 DEF OpenKnown, Known, Recent, Row
  <2>. QED
    BY <1>4, <2>1, OpenType DEF OpenKnown, txn, At
<1>5. ASSUME NEW p \in Runs, OpenReread(p) PROVE OddsTypeOK'
  <2>1. probe.remaining \in Nat \cup {None}
    BY <1>5 DEF OpenReread, Recent, Row
  <2>2. reread' \in BOOLEAN
    BY <1>5, Zenon DEF OpenReread
  <2>3. /\ remaining' \in [Runs -> Nat \cup {None}] /\ reserved' \in [Runs -> Nat]
        /\ pc' \in [Runs -> Labels] /\ todo' \in [Runs -> SUBSET Batches]
        /\ \A q \in Runs :
             /\ At(q, "call")' => cur'[q] \in Batches
             /\ remaining'[q] # None => reserved'[q] <= remaining'[q]
        /\ UNCHANGED <<now, known, balance, quota, probe, paid, covered, kind, asOf,
                       seen, cur, spent, lost, finals, kills>>
    BY <1>5, <2>1, OpenType DEF OpenReread
  <2>4. UNCHANGED <<own, dirty, faults>>
    BY <1>5 DEF OpenReread, txn
  <2>. QED
    BY <2>2, <2>3, <2>4
<1>6. ASSUME NEW p \in Runs, OpenProbe(p) PROVE OddsTypeOK'
  <2>1. PICK left \in Nat \cup {None} :
          /\ OpenLedger(p, left) /\ faults' \in Nat /\ reread' = reread
          /\ own' \in [Runs -> Rows] /\ dirty' \in [Runs -> BOOLEAN]
    <3>1. CASE OpenLedger(p, None) /\ faults' = faults + 1 /\ UNCHANGED txn
      BY <1>6, <3>1 DEF OpenProbe, txn
    <3>2. ASSUME NEW left \in {balance, None},
                 OpenLedger(p, left), faults' = IF left = None THEN faults + 1 ELSE faults,
                 own' = [own EXCEPT ![p].quota = [at |-> asOf[p], remaining |-> left],
                                    ![p].probe = [at |-> asOf[p], remaining |-> left]],
                 dirty' = [dirty EXCEPT ![p] = TRUE]
          PROVE  /\ left \in Nat \cup {None} /\ faults' \in Nat
                 /\ own' \in [Runs -> Rows] /\ dirty' \in [Runs -> BOOLEAN]
      <4>1. [at |-> asOf[p], remaining |-> left] \in Row
        BY <3>2, OddsAssumption DEF Row
      <4>2. own' \in [Runs -> Rows] /\ dirty' \in [Runs -> BOOLEAN]
        BY <3>2, <4>1, ProbeWritten
      <4>. QED
        BY <3>2, <4>2, OddsAssumption
    <3>3. \/ OpenLedger(p, None) /\ faults' = faults + 1 /\ UNCHANGED txn
          \/ \E left \in {balance, None} :
               /\ OpenLedger(p, left)
               /\ faults' = IF left = None THEN faults + 1 ELSE faults
               /\ own' = [own EXCEPT ![p].quota = [at |-> asOf[p], remaining |-> left],
                                     ![p].probe = [at |-> asOf[p], remaining |-> left]]
               /\ dirty' = [dirty EXCEPT ![p] = TRUE]
      BY <1>6 DEF OpenProbe
    <3>4. reread' = reread
      BY <1>6 DEF OpenProbe
    <3>5. CASE \E left \in {balance, None} :
                 /\ OpenLedger(p, left)
                 /\ faults' = IF left = None THEN faults + 1 ELSE faults
                 /\ own' = [own EXCEPT ![p].quota = [at |-> asOf[p], remaining |-> left],
                                       ![p].probe = [at |-> asOf[p], remaining |-> left]]
                 /\ dirty' = [dirty EXCEPT ![p] = TRUE]
      BY <3>2, <3>4, <3>5
    <3>. QED
      BY <3>1, <3>3, <3>4, <3>5
  <2>2. /\ remaining' \in [Runs -> Nat \cup {None}] /\ reserved' \in [Runs -> Nat]
        /\ pc' \in [Runs -> Labels] /\ todo' \in [Runs -> SUBSET Batches]
        /\ \A q \in Runs :
             /\ At(q, "call")' => cur'[q] \in Batches
             /\ remaining'[q] # None => reserved'[q] <= remaining'[q]
        /\ UNCHANGED <<now, known, balance, quota, probe, paid, covered, kind, asOf,
                       seen, cur, spent, lost, finals, kills>>
    BY <2>1, OpenType
  <2>3. UNCHANGED <<now, known, balance, quota, probe, paid, covered, kind, asOf,
                    seen, cur, spent, lost, finals, kills>>
    BY <2>2
  <2>4. /\ own' \in [Runs -> Rows] /\ dirty' \in [Runs -> BOOLEAN]
        /\ faults' \in Nat /\ reread' \in BOOLEAN
    BY <2>1
  <2>. QED
    BY <2>2, <2>3, <2>4
<1>7. ASSUME NEW p \in Runs, NEW b \in todo[p], Reuse(p, b) PROVE OddsTypeOK'
  <2>1. own' = [own EXCEPT ![p].covered = @ \cup SlotsOf(p, b)]
    BY <1>7 DEF Reuse
  <2>2. SlotsOf(p, b) \in SUBSET Slots
    BY BatchType
  <2>3. own' \in [Runs -> Rows]
    BY <2>1, <2>2, SlotsWritten
  <2>. QED
    BY <1>7, <2>3 DEF Reuse, inputs, store, task, purse, tally, bounds, At
<1>8. ASSUME NEW p \in Runs, NEW b \in todo[p], Refuse(p, b) PROVE OddsTypeOK'
  BY <1>8 DEF Refuse, inputs, store, task, purse, tally, bounds, At
<1>9. ASSUME NEW p \in Runs, NEW b \in todo[p], Authorise(p, b) PROVE OddsTypeOK'
  BY <1>9, BatchType, OddsAssumption DEF Authorise, Allowed, Spendable, Effective,
    Goto, Labels, inputs, store, task, txn, tally, bounds, At
<1>10. ASSUME NEW p \in Runs, Answer(p) PROVE OddsTypeOK'
  <2> DEFINE b == cur[p]
  <2>1. At(p, "call") /\ b \in Batches /\ Cost(b) \in Nat /\ SlotsOf(p, b) \subseteq Slots
    BY <1>10, BatchType DEF Answer
  <2>2. balance' = balance - Cost(b) /\ balance' \in 0 .. Limit /\ finals' \in Nat
    BY <1>10, <2>1, OddsAssumption DEF Answer, Charge
  <2>3. PICK row \in Row : Saved(p, row)
    BY <1>10, <2>2, OddsAssumption DEF Answer, Row
  <2>4. /\ quota' \in Row \cup {None} /\ paid' \subseteq Batches /\ covered' \subseteq Slots
        /\ probe' = probe /\ own' \in [Runs -> Rows] /\ spent' \in [Runs -> Nat]
    <3>1. CASE dirty[p]
      <4>1. own' = [own EXCEPT ![p].quota = row, ![p].paid = @ \cup {b},
                               ![p].covered = @ \cup SlotsOf(p, b)]
        BY <2>3, <3>1 DEF Saved
      <4>2. own' \in [Runs -> Rows]
        <5>1. {b} \in SUBSET Batches /\ SlotsOf(p, b) \in SUBSET Slots
          BY <2>1
        <5>. QED
          BY <4>1, <5>1, <2>3, AnswerWritten
      <4>3. spent' = [spent EXCEPT ![p] = @ + Cost(b)] /\ UNCHANGED <<quota, probe, paid, covered>>
        BY <2>3, <3>1 DEF Saved, store
      <4>. QED
        BY <2>1, <4>2, <4>3
    <3>2. CASE ~dirty[p]
      BY <2>1, <2>3, <3>2 DEF Saved, Newer
    <3>. QED
      BY <3>1, <3>2
  <2>5. /\ pc' = [pc EXCEPT ![p] = "loop"] /\ faults' \in Nat
        /\ \/ /\ remaining' = [remaining EXCEPT ![p] = balance']
              /\ reserved' = [reserved EXCEPT ![p] = 0]
           \/ UNCHANGED <<remaining, reserved>>
        /\ UNCHANGED <<now, known, kind, asOf, seen, todo, cur, dirty, lost, reread, kills>>
    BY <1>10 DEF Answer, ApplyProviderRemaining, Goto, inputs, task, purse
  <2>. QED
    BY <2>2, <2>4, <2>5, OddsAssumption DEF Labels, At
<1>11. ASSUME NEW p \in Runs, CallFails(p) PROVE OddsTypeOK'
  <2> DEFINE b == cur[p]
  <2>1. At(p, "call") /\ b \in Batches /\ Cost(b) \in Nat
    BY <1>11, BatchType DEF CallFails
  <2>2. balance' \in 0 .. Limit /\ finals' \in Nat /\ lost' \in Nat /\ faults' \in Nat
    BY <1>11, <2>1, OddsAssumption DEF CallFails, Charge
  <2>3. /\ pc' = [pc EXCEPT ![p] = "loop"]
        /\ \/ /\ reserved' = [reserved EXCEPT ![p] = IF @ > Cost(b) THEN @ - Cost(b) ELSE 0]
              /\ UNCHANGED remaining
           \/ /\ reserved' = [reserved EXCEPT ![p] = 0]
              /\ remaining' = [remaining EXCEPT ![p] = balance']
        /\ dirty' = [dirty EXCEPT ![p] = TRUE]
        /\ UNCHANGED <<now, known, quota, probe, paid, covered, kind, asOf, seen,
                       todo, cur, own, spent, reread, kills>>
    BY <1>11 DEF CallFails, Release, ApplyProviderRemaining, Goto, inputs, store, task
  <2>. QED
    BY <2>1, <2>2, <2>3, OddsAssumption DEF Labels, At
<1>12. ASSUME NEW p \in Runs, Finish(p) PROVE OddsTypeOK'
  BY <1>12 DEF Finish, Goto, Labels, inputs, store, task, purse, txn, tally, bounds, At
<1>13. ASSUME NEW p \in Runs, Commit(p) PROVE OddsTypeOK'
  <2>1. /\ quota' \in Row \cup {None} /\ probe' \in Row \cup {None}
        /\ paid' \subseteq Batches /\ covered' \subseteq Slots
    BY <1>13 DEF Commit, Newer, Rows
  <2>2. UNCHANGED <<now, known, balance, lost, finals, reread, kills, faults>>
    BY <1>13 DEF Commit, inputs, tally, bounds
  <2>. QED
    BY <1>13, <2>1, <2>2, ClearedType DEF Commit
<1>14. ASSUME NEW p \in Runs, Kill(p) PROVE OddsTypeOK'
  <2>1. At(p, "call") => cur[p] \in Batches /\ Cost(cur[p]) \in Nat
    BY BatchType
  <2>2. /\ balance' \in 0 .. Limit /\ finals' \in Nat /\ lost' \in Nat /\ kills' \in Nat
    BY <1>14, <2>1, OddsAssumption DEF Kill, Charge
  <2>3. UNCHANGED <<now, known, quota, probe, paid, covered, reread, faults>>
    BY <1>14 DEF Kill, inputs, store
  <2>. QED
    BY <1>14, <2>2, <2>3, ClearedType DEF Kill
<1>. QED
  BY <1>1, <1>2, <1>3, <1>4, <1>5, <1>6, <1>7, <1>8, <1>9, <1>10, <1>11, <1>12,
     <1>13, <1>14 DEF QuotaNext, Open, Settle
-----------------------------------------------------------------------------
OthersKept(p) ==
  \A q \in Runs : q # p =>
    /\ pc'[q] = pc[q] /\ own'[q] = own[q] /\ dirty'[q] = dirty[q] /\ spent'[q] = spent[q]

(* While one run is active, a step of it is all there is to look at.       *)
LEMMA OneRun ==
  ASSUME QInv, OddsTypeOK', NEW p \in Runs, OthersKept(p),
         ~At(p, "idle") \/ \A q \in Runs : At(q, "idle"),
         Ledger(p)', Transaction(p)', Committed', ReserveKept'
  PROVE  QInv'
<1>1. \A q \in Runs : q # p => At(q, "idle")
  BY DEF QInv, Single
<1>2. Single'
  BY <1>1 DEF Single, OthersKept, At
<1>3. \A q \in Runs : q # p => Ledger(q)' /\ Transaction(q)'
  BY <1>1, Others DEF OthersKept
<1>. QED
  BY <1>2, <1>3 DEF QInv

LEMMA TickStep ==
  ASSUME QInv, OddsTypeOK', Tick
  PROVE  QInv'
<1>1. now \in Nat /\ now' = now + 1
  BY DEF Tick, QInv, OddsTypeOK
<1>2. UNCHANGED <<balance, quota, paid, pc, asOf, remaining, reserved, cur, own, dirty,
                  spent, lost, finals, reread>>
  BY DEF Tick, store, task, purse, txn, tally
<1>3. ASSUME NEW p \in Runs PROVE Ledger(p)' /\ Transaction(p)'
  <2>1. Ledger(p) /\ Transaction(p) /\ asOf[p] \in Nat
    BY DEF QInv, OddsTypeOK
  <2>2. Ledger(p)'
    BY <1>2, <2>1 DEF Ledger, At, Cost, Floor
  <2>. QED
    BY <1>1, <1>2, <2>1, <2>2 DEF Transaction, Resting, Within, At
<1>4. Single' /\ ReserveKept'
  BY <1>2 DEF QInv, Single, ReserveKept, At
<1>5. Committed'
  <2>1. quota # None => quota.at \in Nat
    BY DEF QInv, OddsTypeOK, Row
  <2>. QED
    BY <1>1, <1>2, <2>1 DEF QInv, Committed, Within, At
<1>. QED
  BY <1>3, <1>4, <1>5 DEF QInv

LEMMA DiscoverStep ==
  ASSUME QInv, OddsTypeOK', NEW e \in Events, Discover(e)
  PROVE  QInv'
<1>1. UNCHANGED <<now, balance, quota, paid, pc, asOf, remaining, reserved, cur, own, dirty,
                  spent, lost, finals, reread>>
  BY DEF Discover, store, task, purse, txn, tally
<1>2. ASSUME NEW p \in Runs PROVE Ledger(p)' /\ Transaction(p)'
  BY <1>1 DEF QInv, Ledger, Transaction, Resting, Within, At, Cost, Floor
<1>. QED
  BY <1>1, <1>2 DEF QInv, Single, ReserveKept, Committed, Within, At

LEMMA BeginStep ==
  ASSUME Alone, QInv, OddsTypeOK', NEW p \in Runs, NEW k \in Kinds, Begin(p, k)
  PROVE  QInv'
<1>1. \A q \in Runs : At(q, "idle")
  BY DEF Begin
<1>2. /\ UNCHANGED <<now, balance, quota, paid, own, dirty, spent, lost, finals, reread>>
      /\ asOf'[p] = now /\ pc' = [pc EXCEPT ![p] = "open"] /\ pc'[p] = "open"
      /\ now \in Nat
  BY DEF Begin, Goto, inputs, store, txn, tally, QInv, OddsTypeOK
<1>3. OthersKept(p)
  BY <1>2 DEF OthersKept, QInv, OddsTypeOK
<1>4. Resting(p)
  BY <1>1 DEF QInv, Transaction, At
<1>5. Transaction(p)'
  <2>1. /\ (quota # None => quota.at <= now) /\ Within(quota, 0)
    BY <1>1 DEF QInv, Committed
  <2>2. own[p].quota = None /\ spent[p] = 0
    BY <1>4 DEF Resting, NoRows
  <2>. QED
    BY <1>2, <1>4, <2>1, <2>2 DEF Transaction, Resting, Within, At
<1>6. Ledger(p)'
  BY <1>2 DEF Ledger, At
<1>7. Committed' /\ ReserveKept'
  BY <1>2 DEF QInv, Committed, ReserveKept, Within, At
<1>. QED
  BY <1>1, <1>3, <1>5, <1>6, <1>7, OneRun

(* A ledger that is opened on a figure within what is left is in order.    *)
LEMMA OpenStep ==
  ASSUME QInv, OddsTypeOK', NEW p \in Runs, At(p, "open"), Open(p)
  PROVE  QInv'
<1>1. /\ pc' = [pc EXCEPT ![p] = "loop"]
      /\ UNCHANGED <<now, balance, quota, paid, asOf, cur, spent, lost, finals>>
      /\ reserved' = [reserved EXCEPT ![p] = 0]
  BY DEF Open, OpenKnown, OpenReread, OpenProbe, OpenLedger, Goto, inputs, store, task
<1>2. pc'[p] = "loop" /\ reserved'[p] = 0 /\ balance \in Nat /\ lost \in Nat
  BY <1>1, OddsAssumption DEF QInv, OddsTypeOK
<1>3. Transaction(p) /\ Resting(p) /\ own[p].quota = None /\ spent[p] = 0
  <2>1. Transaction(p)
    BY DEF QInv
  <2>2. Resting(p)
    BY <2>1 DEF Transaction, At
  <2>. QED
    BY <2>1, <2>2 DEF Resting, NoRows
<1>4. CASE OpenKnown(p)
  <2>1. /\ remaining' = [remaining EXCEPT ![p] = quota.remaining]
        /\ UNCHANGED <<own, dirty, reread>> /\ quota # None /\ quota.remaining # None
    BY <1>4 DEF OpenKnown, OpenLedger, txn, Known, Recent
  <2>2. remaining'[p] = quota.remaining /\ quota.remaining \in Nat
    BY <2>1 DEF QInv, OddsTypeOK, Row
  <2>3. Within(quota, 0)
    BY <1>3 DEF Transaction, At
  <2>4. Ledger(p)'
    BY <1>1, <1>2, <2>1, <2>2, <2>3 DEF Ledger, Within, At
  <2>5. Transaction(p)' /\ OthersKept(p)
    BY <1>1, <1>2, <1>3, <2>1 DEF Transaction, OthersKept, Resting, Within, At, QInv, OddsTypeOK
  <2>6. Committed' /\ ReserveKept'
    BY <1>1, <1>2, <2>1 DEF QInv, Committed, ReserveKept, Within, At
  <2>. QED
    BY <2>4, <2>5, <2>6, OneRun DEF At
<1>5. CASE OpenReread(p)
  <2>1. /\ remaining' = [remaining EXCEPT ![p] = probe.remaining]
        /\ UNCHANGED <<own, dirty>>
        /\ reread' = IF probe.remaining # None THEN TRUE ELSE reread
    BY <1>5 DEF OpenReread, OpenLedger, txn
  <2>2. remaining'[p] = probe.remaining
    BY <2>1 DEF QInv, OddsTypeOK
  <2>3. (reread' = TRUE \/ reread' = reread) /\ (remaining'[p] # None => reread' = TRUE)
    BY <2>1, <2>2
  <2>4. Ledger(p)'
    BY <1>2, <2>3 DEF Ledger, At
  <2>5. Transaction(p)' /\ OthersKept(p)
    BY <1>1, <1>2, <1>3, <2>1 DEF Transaction, OthersKept, Resting, Within, At, QInv, OddsTypeOK
  <2>6. Committed' /\ ReserveKept'
    BY <1>1, <1>2, <2>3 DEF QInv, Committed, ReserveKept, Within, At
  <2>. QED
    BY <2>4, <2>5, <2>6, OneRun DEF At
<1>6. CASE OpenProbe(p)
  <2>1. PICK left \in {balance, None} :
          /\ remaining' = [remaining EXCEPT ![p] = left]
          /\ reread' = reread
          /\ \/ UNCHANGED <<own, dirty>>
             \/ LET row == [at |-> asOf[p], remaining |-> left] IN
                /\ own' = [own EXCEPT ![p].quota = row, ![p].probe = row]
                /\ dirty' = [dirty EXCEPT ![p] = TRUE]
    BY <1>6 DEF OpenProbe, OpenLedger, txn
  <2>2. remaining'[p] = left
    BY <2>1 DEF QInv, OddsTypeOK
  <2>3. Ledger(p)'
    BY <1>1, <1>2, <2>1, <2>2 DEF Ledger, At
  <2>4. OthersKept(p)
    BY <1>1, <2>1 DEF OthersKept, QInv, OddsTypeOK
  <2>5. Transaction(p)'
    <3>1. CASE UNCHANGED <<own, dirty>>
      BY <1>1, <1>2, <1>3, <3>1 DEF Transaction, Resting, Within, At
    <3>2. CASE /\ own' = [own EXCEPT ![p].quota = [at |-> asOf[p], remaining |-> left],
                                     ![p].probe = [at |-> asOf[p], remaining |-> left]]
               /\ dirty' = [dirty EXCEPT ![p] = TRUE]
      <4>1. own'[p].quota = [at |-> asOf[p], remaining |-> left]
        BY <3>2 DEF QInv, OddsTypeOK, Rows
      <4>2. own'[p].quota.at = asOf[p] /\ own'[p].quota.remaining = left
        BY <4>1
      <4>3. dirty'[p] = TRUE
        BY <3>2 DEF QInv, OddsTypeOK
      <4>. QED
        BY <1>1, <1>2, <1>3, <4>2, <4>3 DEF Transaction, Within, At
    <3>. QED
      BY <2>1, <3>1, <3>2
  <2>6. Committed' /\ ReserveKept'
    BY <1>1, <1>2, <2>1 DEF QInv, Committed, ReserveKept, Within, At
  <2>. QED
    BY <2>3, <2>4, <2>5, <2>6, OneRun DEF At
<1>. QED
  BY <1>4, <1>5, <1>6 DEF Open

LEMMA ReuseStep ==
  ASSUME QInv, OddsTypeOK', NEW p \in Runs, NEW b,
         Reuse(p, b) \/ Refuse(p, b) \/ Finish(p)
  PROVE  QInv'
<1>1. /\ At(p, "loop") /\ pc'[p] \in {"loop", "commit"} /\ pc' = [pc EXCEPT ![p] = pc'[p]]
      /\ UNCHANGED <<now, balance, quota, paid, asOf, remaining, reserved, cur, spent,
                     lost, finals, reread>>
      /\ \/ UNCHANGED <<own, dirty>>
         \/ /\ dirty' = [dirty EXCEPT ![p] = TRUE]
            /\ own' = own \/ own' = [own EXCEPT ![p].covered = @ \cup SlotsOf(p, b)]
  BY DEF Reuse, Refuse, Finish, Goto, At, inputs, store, task, purse, txn, tally, QInv, OddsTypeOK
<1>2. Ledger(p)' /\ OthersKept(p)
  BY <1>1 DEF Ledger, OthersKept, At, QInv, OddsTypeOK
<1>3. own'[p].quota = own[p].quota /\ (dirty'[p] = FALSE => own' = own /\ dirty' = dirty)
  BY <1>1 DEF QInv, OddsTypeOK, Rows
<1>4. Transaction(p)'
  BY <1>1, <1>3 DEF QInv, Transaction, Resting, Within, At
<1>5. Committed' /\ ReserveKept'
  BY <1>1 DEF QInv, Committed, ReserveKept, Within, At
<1>. QED
  BY <1>1, <1>2, <1>4, <1>5, OneRun DEF At

LEMMA AuthoriseStep ==
  ASSUME QInv, OddsTypeOK', NEW p \in Runs, NEW b \in todo[p], Authorise(p, b)
  PROVE  QInv'
<1>1. /\ At(p, "loop") /\ pc' = [pc EXCEPT ![p] = "call"] /\ pc'[p] = "call"
      /\ cur'[p] = b /\ reserved'[p] = reserved[p] + Cost(b)
      /\ UNCHANGED <<now, balance, quota, paid, asOf, remaining, own, dirty, spent,
                     lost, finals, reread>>
  BY DEF Authorise, Goto, inputs, store, task, txn, tally, QInv, OddsTypeOK
<1>2. b \in Batches /\ b \notin paid /\ remaining[p] # None
  BY DEF Authorise, Allowed, Paid, QInv, OddsTypeOK
<1>3. /\ Cost(b) \in Nat /\ Floor(b) \in Nat /\ remaining[p] \in Nat /\ reserved[p] \in Nat
      /\ Reserve \in Nat /\ lost \in Nat /\ balance \in Nat
  BY <1>2, BatchType, OddsAssumption DEF QInv, OddsTypeOK
<1>4. Cost(b) <= remaining[p] - reserved[p] - Floor(b)
  BY <1>3 DEF Authorise, Allowed, Spendable, Effective, Floor
<1>5. ~reread => remaining[p] - reserved[p] <= balance + lost
  BY <1>1, <1>2 DEF QInv, Ledger
<1>6. Ledger(p)'
  BY <1>1, <1>2, <1>3, <1>4, <1>5 DEF Ledger, At, Cost, Floor
<1>7. Transaction(p)' /\ OthersKept(p)
  BY <1>1 DEF QInv, Transaction, Resting, Within, At, OthersKept, OddsTypeOK
<1>8. Committed' /\ ReserveKept'
  BY <1>1 DEF QInv, Committed, ReserveKept, Within, At
<1>. QED
  BY <1>1, <1>6, <1>7, <1>8, OneRun DEF At

(* What is known of a run that is making a call.                           *)
LEMMA AtCall ==
  ASSUME QInv, NEW p \in Runs, At(p, "call")
  PROVE  /\ Cost(cur[p]) \in Nat \ {0} /\ Floor(cur[p]) \in Nat
         /\ cur[p] \in Batches /\ cur[p] \notin paid
         /\ remaining[p] \in Nat /\ reserved[p] \in Nat /\ spent[p] \in Nat
         /\ {balance, lost, finals, Reserve} \subseteq Nat
         /\ reserved[p] >= Cost(cur[p])
         /\ remaining[p] - reserved[p] >= Floor(cur[p])
         /\ ~reread => remaining[p] - reserved[p] + Cost(cur[p]) <= balance + lost
<1>1. /\ cur[p] \in Batches /\ remaining[p] \in Nat \cup {None} /\ reserved[p] \in Nat
      /\ spent[p] \in Nat /\ {balance, lost, finals, Reserve} \subseteq Nat
  BY OddsAssumption DEF QInv, OddsTypeOK
<1>2. Cost(cur[p]) \in Nat \ {0} /\ Floor(cur[p]) \in Nat
  BY <1>1, BatchType DEF QInv
<1>. QED
  BY <1>1, <1>2 DEF QInv, Ledger

(* A charge leaves the reserve, but to the final polls.                    *)
LEMMA ChargeKeeps ==
  ASSUME QInv, NEW p \in Runs, At(p, "call"), Charge(p)
  PROVE  /\ balance' = balance - Cost(cur[p]) /\ balance' \in Nat /\ finals' \in Nat
         /\ ~reread => balance' + finals' + lost >= Reserve
<1>1. /\ balance' = balance - Cost(cur[p]) /\ Cost(cur[p]) <= balance
      /\ finals' = IF cur[p][1] = "live_final" THEN finals + Cost(cur[p]) ELSE finals
  BY DEF Charge
<1>2. ~reread => balance + finals + lost >= Reserve
  BY DEF QInv, ReserveKept
<1>. QED
  BY <1>1, <1>2, AtCall DEF Floor

LEMMA AnswerStep ==
  ASSUME QInv, OddsTypeOK', NEW p \in Runs, Answer(p)
  PROVE  QInv'
<1> DEFINE c == Cost(cur[p])
<1>1. At(p, "call") /\ Charge(p)
  BY DEF Answer
<1>2. /\ pc' = [pc EXCEPT ![p] = "loop"] /\ pc'[p] = "loop"
      /\ UNCHANGED <<now, asOf, cur, dirty, lost, reread>>
  BY DEF Answer, Goto, inputs, task, QInv, OddsTypeOK
<1>3. PICK left \in {balance', None} :
        /\ Saved(p, [at |-> asOf[p], remaining |-> left])
        /\ \/ remaining'[p] = balance' /\ reserved'[p] = 0
           \/ remaining'[p] = remaining[p] /\ reserved'[p] = reserved[p]
  BY DEF Answer, ApplyProviderRemaining, purse, QInv, OddsTypeOK
<1>4. Ledger(p)'
  BY <1>1, <1>2, <1>3, AtCall, ChargeKeeps DEF Ledger, At
<1>5. ReserveKept'
  BY <1>1, <1>2, ChargeKeeps DEF ReserveKept
<1>6. Transaction(p) /\ asOf[p] <= now /\ (quota # None => quota.at <= asOf[p])
  BY <1>1 DEF QInv, Transaction, At
<1>7. CASE dirty[p]
  <2>1. /\ own' = [own EXCEPT ![p].quota = [at |-> asOf[p], remaining |-> left],
                              ![p].paid = @ \cup {cur[p]},
                              ![p].covered = @ \cup SlotsOf(p, cur[p])]
        /\ spent' = [spent EXCEPT ![p] = @ + c]
        /\ UNCHANGED <<quota, paid>>
    BY <1>3, <1>7 DEF Saved, store
  <2>2. own'[p].quota = [at |-> asOf[p], remaining |-> left] /\ spent'[p] = spent[p] + c
    BY <2>1 DEF QInv, OddsTypeOK, Rows
  <2>3. own'[p].quota.at = asOf[p] /\ own'[p].quota.remaining = left
    BY <2>2
  <2>4. OthersKept(p)
    BY <1>2, <2>1 DEF OthersKept, QInv, OddsTypeOK
  <2>5. own'[p].quota # None
    <3>1. [at |-> asOf[p], remaining |-> left] \in Row
      BY <1>1, <1>3, ChargeKeeps DEF Row, QInv, OddsTypeOK
    <3>. QED
      BY <2>2, <3>1, OddsAssumption
  <2>6. Within(own[p].quota, 0)'
    BY <1>1, <1>2, <1>3, <2>3, AtCall, ChargeKeeps DEF Within
  <2>9. Within(quota, spent[p])'
    <3>1. quota = None \/ quota.remaining \in Nat \cup {None}
      BY DEF QInv, OddsTypeOK, Row
    <3>2. Within(quota, spent[p]) /\ balance' = balance - c /\ {c, balance, lost, spent[p]} \subseteq Nat
      BY <1>1, <1>6, AtCall, ChargeKeeps DEF Transaction, At
    <3>. QED
      BY <1>2, <2>1, <2>2, <3>1, <3>2 DEF Within
  <2>7. Transaction(p)'
    BY <1>2, <1>6, <1>7, <2>1, <2>3, <2>5, <2>6, <2>9 DEF Transaction, At
  <2>8. Committed'
    BY <1>2, <2>1 DEF QInv, Committed, At
  <2>. QED
    BY <1>1, <1>4, <1>5, <2>4, <2>7, <2>8, OneRun DEF At
<1>8. CASE ~dirty[p]
  <2> DEFINE row == [at |-> asOf[p], remaining |-> left]
  <2>1. quota' = Newer(row, quota) /\ UNCHANGED <<own, spent>>
    BY <1>3, <1>8 DEF Saved
  <2>2. row \in Row /\ row # None /\ row.at = asOf[p] /\ row.remaining = left
    BY <1>1, <1>3, ChargeKeeps, OddsAssumption DEF Row, QInv, OddsTypeOK
  <2>3. quota' = row
    BY <1>6, <2>1, <2>2 DEF Newer
  <2>4. Resting(p) /\ own[p].quota = None /\ spent[p] = 0
    <3>1. dirty[p] = FALSE
      BY <1>8 DEF QInv, OddsTypeOK
    <3>2. Resting(p)
      BY <1>6, <3>1 DEF Transaction
    <3>. QED
      BY <3>2 DEF Resting, NoRows
  <2>5. Within(quota, 0)'
    BY <1>1, <1>2, <1>3, <2>2, <2>3, AtCall, ChargeKeeps DEF Within
  <2>6. Transaction(p)'
    <3>1. Resting(p)' /\ own'[p].quota = None /\ spent'[p] = 0
      BY <1>2, <2>1, <2>4 DEF Resting
    <3>2. asOf'[p] <= now' /\ quota'.at <= asOf'[p]
      BY <1>2, <1>6, <2>2, <2>3 DEF QInv, OddsTypeOK
    <3>3. Within(quota, spent[p])' /\ Within(own[p].quota, 0)'
      BY <2>5, <3>1 DEF Within
    <3>. QED
      BY <3>1, <3>2, <3>3 DEF Transaction
  <2>7. Committed' /\ OthersKept(p)
    BY <1>2, <1>6, <2>1, <2>2, <2>3, <2>5 DEF Committed, OthersKept, At, QInv, OddsTypeOK
  <2>. QED
    BY <1>1, <1>4, <1>5, <2>6, <2>7, OneRun DEF At
<1>. QED
  BY <1>7, <1>8 DEF QInv, OddsTypeOK

LEMMA CallFailsStep ==
  ASSUME QInv, OddsTypeOK', NEW p \in Runs, CallFails(p)
  PROVE  QInv'
<1> DEFINE c == Cost(cur[p])
<1>1. /\ At(p, "call") /\ pc' = [pc EXCEPT ![p] = "loop"] /\ pc'[p] = "loop"
      /\ \/ /\ reserved'[p] = IF reserved[p] > c THEN reserved[p] - c ELSE 0
            /\ remaining'[p] = remaining[p]
         \/ reserved'[p] = 0 /\ remaining'[p] = balance'
      /\ dirty' = [dirty EXCEPT ![p] = TRUE] /\ dirty'[p] = TRUE
      /\ UNCHANGED <<now, quota, paid, asOf, own, spent, reread>>
  BY DEF CallFails, Release, ApplyProviderRemaining, Goto, inputs, store, task, QInv, OddsTypeOK
<1>2. /\ balance' + lost' = balance + lost /\ lost' \in Nat /\ balance' \in Nat
      /\ finals' \in Nat /\ finals' >= finals
  <2>1. CASE UNCHANGED <<balance, finals, lost>>
    BY <1>1, <2>1, AtCall
  <2>2. CASE Charge(p) /\ lost' = lost + c
    BY <1>1, <2>2, AtCall, ChargeKeeps DEF Charge
  <2>. QED
    BY <2>1, <2>2 DEF CallFails
<1>3. Ledger(p)'
  BY <1>1, <1>2, AtCall DEF Ledger, At
<1>4. \A row, d : Within(row, d) /\ d \in Nat /\ (row = None \/ row.remaining \in Nat \cup {None})
        => Within(row, d)'
  BY <1>1, <1>2, AtCall DEF Within
<1>5. Transaction(p)' /\ OthersKept(p)
  <2>1. Transaction(p) /\ spent[p] \in Nat
    BY DEF QInv, OddsTypeOK
  <2>2. /\ own[p].quota = None \/ own[p].quota.remaining \in Nat \cup {None}
        /\ quota = None \/ quota.remaining \in Nat \cup {None}
    BY DEF QInv, OddsTypeOK, Rows, Row
  <2>3. Within(own[p].quota, 0)' /\ Within(quota, spent[p])'
    BY <1>1, <1>4, <2>1, <2>2 DEF Transaction, At
  <2>4. Transaction(p)'
    BY <1>1, <2>1, <2>3 DEF Transaction, At
  <2>. QED
    BY <1>1, <2>4 DEF OthersKept, QInv, OddsTypeOK
<1>6. Committed'
  BY <1>1 DEF QInv, Committed, At
<1>7. ReserveKept'
  BY <1>1, <1>2, AtCall DEF QInv, ReserveKept
<1>. QED
  BY <1>1, <1>3, <1>5, <1>6, <1>7, OneRun DEF At

(* A run that ends is at rest, and the database alone counts.              *)
LEMMA EndStep ==
  ASSUME QInv, OddsTypeOK', NEW p \in Runs, ~At(p, "idle"), Cleared(p),
         now' = now, Committed', ReserveKept'
  PROVE  QInv'
<1>1. /\ pc' = [pc EXCEPT ![p] = "idle"] /\ pc'[p] = "idle"
      /\ own'[p] = NoRows /\ dirty'[p] = FALSE /\ spent'[p] = 0
      /\ OthersKept(p)
  BY DEF Cleared, Goto, OthersKept, QInv, OddsTypeOK
<1>2. Resting(p)' /\ own'[p].quota = None
  BY <1>1 DEF Resting, NoRows
<1>3. Ledger(p)' /\ Transaction(p)'
  BY <1>1, <1>2 DEF Ledger, Transaction, Within, At
<1>. QED
  BY <1>1, <1>3, OneRun

LEMMA CommitStep ==
  ASSUME QInv, OddsTypeOK', NEW p \in Runs, Commit(p)
  PROVE  QInv'
<1>1. /\ ~At(p, "idle") /\ Cleared(p) /\ quota' = Newer(own[p].quota, quota)
      /\ UNCHANGED <<now, balance, lost, finals, reread>>
  BY DEF Commit, At, inputs, tally
<1>2. Transaction(p) /\ asOf[p] <= now /\ (quota # None => quota.at <= asOf[p])
  BY <1>1 DEF QInv, Transaction
<1>3. CASE own[p].quota = None
  <2>1. quota' = quota /\ spent[p] = 0
    BY <1>1, <1>2, <1>3 DEF Newer, Transaction
  <2>2. Within(quota, 0)
    BY <1>1, <1>2, <2>1 DEF Transaction
  <2>3. (quota # None => quota.at <= now)
    BY DEF QInv, Committed
  <2>. QED
    BY <1>1, <2>1, <2>2, <2>3, EndStep DEF Committed, Within, QInv, ReserveKept
<1>4. CASE own[p].quota # None
  <2>1. quota' = own[p].quota /\ quota'.at <= now
    BY <1>1, <1>2, <1>4 DEF Newer, Transaction
  <2>2. Within(own[p].quota, 0)
    BY <1>2 DEF Transaction
  <2>. QED
    BY <1>1, <2>1, <2>2, EndStep DEF Committed, Within, QInv, ReserveKept
<1>. QED
  BY <1>3, <1>4

LEMMA KillStep ==
  ASSUME QInv, OddsTypeOK', NEW p \in Runs, Kill(p)
  PROVE  QInv'
<1>1. /\ ~At(p, "idle") /\ Cleared(p) /\ UNCHANGED <<now, quota, reread>>
  BY DEF Kill, inputs, store
<1>2. {balance, lost, finals, spent[p], Reserve} \subseteq Nat
  BY OddsAssumption DEF QInv, OddsTypeOK
<1>3. /\ balance' + lost' = balance + lost + spent[p]
      /\ finals' \in Nat /\ finals' >= finals /\ balance' \in Nat /\ lost' \in Nat
  <2>1. CASE UNCHANGED <<balance, finals>> /\ lost' = lost + spent[p]
    BY <1>2, <2>1
  <2>2. CASE /\ At(p, "call") /\ Charge(p)
             /\ lost' = lost + spent[p] + Cost(cur[p])
    BY <1>2, <2>2, AtCall, ChargeKeeps DEF Charge
  <2>. QED
    BY <2>1, <2>2 DEF Kill
<1>4. (quota # None => quota.at <= now) /\ Within(quota, spent[p])
  BY <1>1 DEF QInv, Committed, Transaction
<1>5. Committed'
  <2>1. quota = None \/ quota.remaining \in Nat \cup {None}
    BY DEF QInv, OddsTypeOK, Row
  <2>. QED
    BY <1>1, <1>2, <1>3, <1>4, <2>1 DEF Committed, Within
<1>6. ReserveKept'
  BY <1>1, <1>2, <1>3 DEF QInv, ReserveKept
<1>. QED
  BY <1>1, <1>5, <1>6, EndStep

LEMMA QStep ==
  ASSUME Alone, QInv, [QuotaNext]_quotaVars
  PROVE  QInv'
<1>1. CASE UNCHANGED quotaVars
  <2>1. UNCHANGED <<now, known, balance, quota, probe, paid, covered, pc, kind, asOf, seen>>
    BY <1>1 DEF quotaVars, inputs, store, task
  <2>2. UNCHANGED <<remaining, reserved, todo, cur, own, dirty, spent, lost, finals,
                    reread, kills, faults>>
    BY <1>1 DEF quotaVars, purse, txn, tally, bounds
  <2>3. OddsTypeOK'
    BY <2>1, <2>2 DEF QInv, OddsTypeOK, At
  <2>4. Single' /\ Committed' /\ ReserveKept'
    BY <2>1, <2>2 DEF QInv, Single, Committed, ReserveKept, Within, At
  <2>5. \A p \in Runs : Ledger(p)' /\ Transaction(p)'
    BY <2>1, <2>2 DEF QInv, Ledger, Transaction, Resting, Within, At
  <2>. QED
    BY <2>3, <2>4, <2>5 DEF QInv
<1>2. CASE QuotaNext
  <2>1. OddsTypeOK'
    BY <1>2, TypeStep DEF QInv
  <2>2. CASE Tick
    BY <2>1, <2>2, TickStep
  <2>3. ASSUME NEW e \in Events, Discover(e) PROVE QInv'
    BY <2>1, <2>3, DiscoverStep
  <2>4. ASSUME NEW p \in Runs, NEW k \in Kinds, Begin(p, k) PROVE QInv'
    BY <2>1, <2>4, BeginStep
  <2>5. ASSUME NEW p \in Runs, Open(p) PROVE QInv'
    <3>1. At(p, "open")
      BY <2>5 DEF Open, OpenKnown, OpenReread, OpenProbe
    <3>. QED
      BY <2>1, <2>5, <3>1, OpenStep
  <2>6. ASSUME NEW p \in Runs, NEW b \in todo[p], Reuse(p, b) \/ Refuse(p, b) PROVE QInv'
    BY <2>1, <2>6, ReuseStep
  <2>7. ASSUME NEW p \in Runs, NEW b \in todo[p], Authorise(p, b) PROVE QInv'
    BY <2>1, <2>7, AuthoriseStep
  <2>8. ASSUME NEW p \in Runs, Finish(p) PROVE QInv'
    BY <2>1, <2>8, ReuseStep
  <2>9. ASSUME NEW p \in Runs, Answer(p) \/ CallFails(p) PROVE QInv'
    BY <2>1, <2>9, AnswerStep, CallFailsStep
  <2>10. ASSUME NEW p \in Runs, Commit(p) \/ Kill(p) PROVE QInv'
    BY <2>1, <2>10, CommitStep, KillStep
  <2>. QED
    BY <1>2, <2>2, <2>3, <2>4, <2>5, <2>6, <2>7, <2>8, <2>9, <2>10 DEF QuotaNext, Settle
<1>. QED
  BY <1>1, <1>2

(* Commands that do not overlap keep every figure of the budget in order.  *)
THEOREM QuotaInvariant == ASSUME Alone PROVE QuotaSpec => []QInv
<1>1. QInv /\ [QuotaNext]_quotaVars => QInv'
  BY QStep
<1>. QED
  BY <1>1, OddsInit, PTL DEF QuotaSpec

(* The variables keep their types and a ledger never reserves more than it *)
(* knows of (OddsTypeOK).                                                  *)
THEOREM OddsTypes == ASSUME Alone PROVE QuotaSpec => []OddsTypeOK
<1>1. QInv => OddsTypeOK
  BY DEF QInv
<1>. QED
  BY <1>1, QuotaInvariant, PTL

(* What is gone of the reserve of the billing month, the final polls spent *)
(* or a failure hid from the program (quota.run_reserve).                  *)
THEOREM ReserveIsKept == ASSUME Alone PROVE QuotaSpec => []ReserveKept
<1>1. QInv => ReserveKept
  BY DEF QInv
<1>. QED
  BY <1>1, QuotaInvariant, PTL

(* A call the budget authorised is within the provider's balance, up to    *)
(* the credits a failure hid (evaluate_quota_budget).                      *)
THEOREM CallsWithinBalance == ASSUME Alone PROVE QuotaSpec => []NeverExceeds
<1>1. QInv => NeverExceeds
  <2>1. SUFFICES ASSUME QInv, NEW p \in Runs, At(p, "call"), ~reread
                 PROVE  Cost(cur[p]) <= balance + lost
    BY DEF NeverExceeds
  <2>. QED
    BY <2>1, AtCall
<1>. QED
  BY <1>1, QuotaInvariant, PTL

(* Both together.                                                          *)
THEOREM BudgetIsKept == ASSUME Alone PROVE QuotaSpec => []BudgetKept
<1>1. ReserveKept /\ NeverExceeds => BudgetKept
  BY DEF BudgetKept
<1>. QED
  BY <1>1, ReserveIsKept, CallsWithinBalance, PTL

(* A batch whose success is committed is not asked for again.              *)
THEOREM NoSecondPayment == ASSUME Alone PROVE QuotaSpec => []PaidOnce
<1>1. QInv => PaidOnce
  BY DEF QInv, Ledger, PaidOnce
<1>. QED
  BY <1>1, QuotaInvariant, PTL
=============================================================================
