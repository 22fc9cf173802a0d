---------------------------- MODULE RecordsProofs ---------------------------
(***************************************************************************)
(* Proofs about what is recorded for good.  The grade ledger: however      *)
(* recommend is retried, moved, failed or killed and results are corrected,*)
(* a key names one publication and a publication has one settlement for    *)
(* each version of its result.  The model registry: the gates come before  *)
(* a champion, for any artifacts and any commands that overlap, and the    *)
(* decisions explain the file as long as one command runs at a time.       *)
(* Identity resolution: no id leads to the fighter of somebody else.  The  *)
(* source audits: no page is taken for what the host did not serve.  The   *)
(* health checks: green and red mean what they say.  The dashboard: the    *)
(* page and the cumulative performance agree about every pick.             *)
(***************************************************************************)
EXTENDS Dashboard, ModelRegistry, IdentityResolution, PoliteFetch, HostMonitor, Integers,
        FiniteSetTheorems, WellFoundedInduction, TLAPS

Keys == [bout : CardBouts, sel : Selections, cutoff : Int]

Rows ==
  [pubs : SUBSET [bout : CardBouts, sel : Selections, cutoff : Int, at : Int, state : PubStates],
   quotes : SUBSET [pub : Keys, ts : QuoteTimes],
   settled : SUBSET [pub : Keys, ts : QuoteTimes, version : ResultVersions],
   done : SUBSET [job : {"recommend", "grade"}, slot : Int],
   failed : SUBSET Int]

GradeTicks ==
  [job : {"recommend", "grade"}, cutoff : Int, todo : SUBSET CardBouts, blocked : SUBSET CardBouts,
   tx : Rows, status : {"running", "success", "failed"}]

GradeTypeOK ==
  /\ clock \in Nat /\ start \in Starts
  /\ ledger \in Rows
  /\ tick = None \/ tick \in GradeTicks

(* A key names one row.                                                    *)
UniqueKeys(rows) == \A p, q \in rows.pubs : PubKey(p) = PubKey(q) => p = q

(* Whatever is settled is settled at the earliest quote of today.          *)
SettledAtEarliest(rows) ==
  \A s \in rows.settled : \A q \in rows.quotes : q.pub = s.pub => s.ts <= q.ts

SettledAtQuote(rows) == \A s \in rows.settled : [pub |-> s.pub, ts |-> s.ts] \in rows.quotes

(* Grading has not begun.                                                  *)
Ungraded(rows) ==
  rows.settled = {} /\ ~\E d \in rows.done : d.job = "grade"

(* No quote is written once something may be settled: a recommend runs     *)
(* before the start, and the start stays where it is once it has passed.   *)
GradeInv ==
  /\ GradeTypeOK
  /\ \A r \in VisibleRows :
       /\ UniqueKeys(r) /\ SettledAtEarliest(r) /\ SettledAtQuote(r)
       /\ ~Ungraded(r) => start <= clock
  /\ tick # None /\ tick.job = "recommend" => clock < start
-----------------------------------------------------------------------------
LEMMA StartsAreNat == \A s \in Starts : s \in Nat /\ CutoffOf(s) \in Int
  BY GradeAssumption DEF CutoffOf

(* The invariant speaks of the committed rows and of those of a tick.      *)
LEMMA Seen ==
  /\ ledger \in VisibleRows
  /\ tick # None => tick.tx \in VisibleRows
  /\ \A r \in VisibleRows : r = ledger \/ (tick # None /\ r = tick.tx)
  BY DEF VisibleRows

LEMMA SeenNext ==
  \A r \in VisibleRows' : r = ledger' \/ (tick' # None /\ r = tick'.tx)
  BY DEF VisibleRows

(* What a settlement adds, and that it disturbs nothing.                   *)
LEMMA SettleKeeps ==
  ASSUME NEW rows \in Rows, NEW P \in SUBSET rows.pubs, NEW v \in ResultVersions,
         SettledAtEarliest(rows), SettledAtQuote(rows)
  PROVE  LET next == Settle(rows, P, v) IN
         /\ next \in Rows
         /\ next.pubs = rows.pubs /\ next.done = rows.done /\ next.quotes = rows.quotes
         /\ SettledAtEarliest(next) /\ SettledAtQuote(next)
<1> DEFINE E(p) == Earliest(QuotesOf(rows, PubKey(p)))
           X == { x \in P : x.state = Confirmed }
           Q == UNION { E(p) : p \in X }
           new == { [pub |-> q.pub, ts |-> q.ts, version |-> v] : q \in Q }
           next == Settle(rows, P, v)
<1>1. \A q \in Q : q \in rows.quotes /\ \A r \in rows.quotes : r.pub = q.pub => q.ts <= r.ts
  <2> SUFFICES ASSUME NEW p \in X, NEW q \in E(p)
               PROVE  q \in rows.quotes /\ \A r \in rows.quotes : r.pub = q.pub => q.ts <= r.ts
    OBVIOUS
  <2> QED
    BY DEF Earliest, QuotesOf
<1>2. \A q \in rows.quotes : q \in [pub : Keys, ts : QuoteTimes] /\ q = [pub |-> q.pub, ts |-> q.ts]
  BY DEF Rows
<1> HIDE DEF Q
<1>3. new \subseteq [pub : Keys, ts : QuoteTimes, version : ResultVersions]
  BY <1>1, <1>2
<1>4. next = [rows EXCEPT !.settled = @ \cup new]
  BY DEF Settle, Q
<1> HIDE DEF next, new
<1>5. /\ next \in Rows /\ next.settled = rows.settled \cup new
      /\ next.pubs = rows.pubs /\ next.done = rows.done /\ next.quotes = rows.quotes
  BY <1>3, <1>4 DEF Rows
<1>6. SettledAtEarliest(next)
  BY <1>1, <1>5 DEF SettledAtEarliest, new
<1>7. SettledAtQuote(next)
  <2> SUFFICES ASSUME NEW s \in next.settled
               PROVE  [pub |-> s.pub, ts |-> s.ts] \in rows.quotes
    BY <1>5 DEF SettledAtQuote
  <2>1. CASE s \in rows.settled
    BY <2>1 DEF SettledAtQuote
  <2>2. CASE s \in new
    <3>1. PICK q \in Q : s = [pub |-> q.pub, ts |-> q.ts, version |-> v]
      BY <2>2 DEF new
    <3>2. [pub |-> s.pub, ts |-> s.ts] = q
      BY <1>1, <1>2, <3>1
    <3> QED
      BY <1>1, <3>2
  <2> QED
    BY <1>5, <2>1, <2>2
<1> QED
  BY <1>5, <1>6, <1>7 DEF next

(* What one bout of a recommend writes.                                    *)
LEMMA WithBoutKeeps ==
  ASSUME GradeTypeOK, tick # None, tick.job = "recommend", UniqueKeys(tick.tx),
         NEW b \in CardBouts, NEW d \in Policies
  PROVE  LET next == WithBout(b, d) IN
         /\ next \in Rows /\ UniqueKeys(next)
         /\ next.settled = tick.tx.settled /\ next.done = tick.tx.done
         /\ next.quotes = tick.tx.quotes
<1> DEFINE rows == tick.tx
           pub == [bout |-> b, sel |-> d.sel, cutoff |-> tick.cutoff, at |-> PublishedAt, state |-> d.state]
<1>1. rows \in Rows /\ tick.cutoff \in Int /\ clock \in Int
  BY DEF GradeTypeOK, GradeTicks
<1>2. d.sel \in Selections /\ d.state \in PubStates
  BY DEF Policies
<1>3. PublishedAt \in Int
  BY <1>1 DEF PublishedAt
<1>4. pub \in [bout : CardBouts, sel : Selections, cutoff : Int, at : Int, state : PubStates]
  BY <1>1, <1>2, <1>3
<1>5. PubKey(pub) = KeyOf(b, d)
  BY DEF PubKey, KeyOf
<1>6. WithPub(rows, b, d) = [rows EXCEPT !.pubs = @ \cup {pub}]
  BY DEF WithPub
<1> HIDE DEF pub, rows
<1>7. CASE Keyed(rows, KeyOf(b, d)) = {}
  <2>1. WithBout(b, d) = [rows EXCEPT !.pubs = @ \cup {pub}]
    BY <1>6, <1>7 DEF WithBout, rows
  <2>2. /\ WithBout(b, d) \in Rows /\ WithBout(b, d).pubs = rows.pubs \cup {pub}
        /\ WithBout(b, d).settled = rows.settled /\ WithBout(b, d).done = rows.done
        /\ WithBout(b, d).quotes = rows.quotes
    BY <1>1, <1>4, <2>1 DEF Rows
  <2>3. \A p \in rows.pubs : PubKey(p) # PubKey(pub)
    BY <1>5, <1>7 DEF Keyed
  <2> QED
    BY <2>2, <2>3 DEF UniqueKeys, rows
<1>8. CASE Keyed(rows, KeyOf(b, d)) # {}
  BY <1>1, <1>8 DEF WithBout, rows
<1> QED
  BY <1>7, <1>8

(* What record_observed_price writes.                                      *)
LEMMA WithQuoteKeeps ==
  ASSUME NEW rows \in Rows, NEW k \in Keys, NEW d \in Policies
  PROVE  LET next == WithQuote(rows, k, d) IN
         /\ next \in Rows /\ next.pubs = rows.pubs
         /\ next.settled = rows.settled /\ next.done = rows.done
<1>1. d.quote # None => d.quote \in QuoteTimes
  BY DEF Policies
<1> DEFINE q == [pub |-> k, ts |-> d.quote]
<1>2. CASE d.state = Confirmed /\ d.quote # None
  <2>1. WithQuote(rows, k, d) = [rows EXCEPT !.quotes = @ \cup {q}]
    BY <1>2 DEF WithQuote
  <2>2. q \in [pub : Keys, ts : QuoteTimes]
    BY <1>1, <1>2
  <2> HIDE DEF q
  <2> QED
    BY <2>1, <2>2 DEF Rows
<1>3. CASE ~(d.state = Confirmed /\ d.quote # None)
  BY <1>3 DEF WithQuote
<1> QED
  BY <1>2, <1>3

(* Rows that nothing has been settled in satisfy what is asked of settled  *)
(* ones.                                                                   *)
LEMMA UngradedIsSettled ==
  ASSUME NEW rows, Ungraded(rows) PROVE SettledAtEarliest(rows) /\ SettledAtQuote(rows)
  BY DEF Ungraded, SettledAtEarliest, SettledAtQuote

(* A recommend only ever works on rows without a settlement.               *)
LEMMA RecommendIsUngraded ==
  ASSUME GradeInv, RunsJob("recommend")
  PROVE  /\ tick \in GradeTicks /\ tick # None /\ tick.job = "recommend" /\ clock < start
         /\ Ungraded(tick.tx) /\ UniqueKeys(tick.tx)
<1>1. tick # None /\ tick.job = "recommend"
  BY DEF RunsJob, NoTick
<1>2. tick \in GradeTicks /\ clock < start
  BY <1>1 DEF GradeInv, GradeTypeOK
<1>3. ~(start <= clock)
  BY <1>2, StartsAreNat DEF GradeInv, GradeTypeOK
<1>4. tick.tx \in VisibleRows
  BY <1>1, Seen
<1> QED
  BY <1>1, <1>2, <1>3, <1>4 DEF GradeInv

(* A step of a recommend: it goes on with rows that are still ungraded.    *)
LEMMA RecommendStep ==
  ASSUME GradeInv, RunsJob("recommend"), UNCHANGED <<clock, start, ledger>>,
         tick' \in GradeTicks, tick'.job = "recommend",
         Ungraded(tick'.tx), UniqueKeys(tick'.tx)
  PROVE  GradeInv'
<1>1. GradeTypeOK'
  BY DEF GradeInv, GradeTypeOK
<1>2. ASSUME NEW r \in VisibleRows'
      PROVE  UniqueKeys(r) /\ SettledAtEarliest(r) /\ SettledAtQuote(r) /\ (~Ungraded(r) => start' <= clock')
  <2>1. CASE r = ledger'
    BY <2>1, Seen DEF GradeInv
  <2>2. CASE r = tick'.tx
    BY <2>2, UngradedIsSettled
  <2> QED
    BY <1>2, <2>1, <2>2, SeenNext
<1>3. clock' < start'
  BY RecommendIsUngraded
<1> QED
  BY <1>1, <1>2, <1>3 DEF GradeInv

(* A step of the committed rows, with no tick to go on.                    *)
LEMMA CommittedStep ==
  ASSUME GradeInv, tick' = None, ledger' \in Rows, start' \in Starts, clock' \in Nat,
         UniqueKeys(ledger'), SettledAtEarliest(ledger'), SettledAtQuote(ledger'),
         ~Ungraded(ledger') => start' <= clock'
  PROVE  GradeInv'
<1>1. GradeTypeOK'
  BY DEF GradeTypeOK
<1>2. \A r \in VisibleRows' : r = ledger'
  BY SeenNext
<1> QED
  BY <1>1, <1>2 DEF GradeInv

(* The rows of the ledger and what the running tick holds of them: types,  *)
(* no row later than the clock, and one row for each key.                  *)
THEOREM GradeInvariant == GradeSpec => []GradeInv
<1>1. GradeInit => GradeInv
  <2> SUFFICES ASSUME GradeInit PROVE GradeInv
    OBVIOUS
  <2>1. EmptyRows \in Rows /\ Ungraded(EmptyRows) /\ UniqueKeys(EmptyRows)
    BY DEF EmptyRows, Rows, Ungraded, UniqueKeys
  <2>2. \A r \in VisibleRows : r = EmptyRows
    BY Seen DEF GradeInit
  <2> QED
    BY <2>1, <2>2, UngradedIsSettled DEF GradeInit, GradeInv, GradeTypeOK
<1>2. GradeInv /\ [GradeNext]_gradeVars => GradeInv'
  <2> SUFFICES ASSUME GradeInv, [GradeNext]_gradeVars PROVE GradeInv'
    OBVIOUS
  <2>0. /\ clock \in Nat /\ start \in Nat /\ start \in Starts /\ ledger \in Rows
        /\ UniqueKeys(ledger) /\ SettledAtEarliest(ledger) /\ SettledAtQuote(ledger)
        /\ ~Ungraded(ledger) => start <= clock
    BY Seen, StartsAreNat DEF GradeInv, GradeTypeOK
  <2>1. CASE ClockRuns
    <3>1. tick' = None /\ clock' = clock + 1 /\ ledger' = ledger /\ start' = start
      BY <2>1 DEF ClockRuns, NoTick
    <3> QED
      BY <2>0, <3>1, CommittedStep
  <2>2. CASE MoveEvent
    <3>1. tick' = None /\ clock' = clock /\ ledger' = ledger /\ start' \in Starts /\ clock < start
      BY <2>2 DEF MoveEvent, NoTick
    <3>2. Ungraded(ledger)
      BY <2>0, <3>1
    <3> QED
      BY <2>0, <3>1, <3>2, CommittedStep
  <2>3. CASE StartRecommend
    <3>1. PICK barred \in SUBSET CardBouts :
             tick' = [job |-> "recommend", cutoff |-> CutoffOf(start), todo |-> CardBouts \ barred,
                      blocked |-> barred, tx |-> ledger, status |-> "running"]
      BY <2>3 DEF StartRecommend, BeginTick
    <3>2. UNCHANGED <<clock, start, ledger>> /\ clock < start
      BY <2>3 DEF StartRecommend, RecommendDue
    <3>3. tick' \in GradeTicks /\ tick'.job = "recommend" /\ tick'.tx = ledger
      BY <2>0, <3>1, StartsAreNat DEF GradeTicks
    <3>4. GradeTypeOK'
      BY <2>0, <3>2, <3>3 DEF GradeTypeOK
    <3>5. \A r \in VisibleRows' : r = ledger
      BY <3>2, <3>3, SeenNext
    <3> QED
      BY <2>0, <3>2, <3>3, <3>4, <3>5 DEF GradeInv
  <2>4. CASE AllBlocked
    <3>1. RunsJob("recommend") /\ UNCHANGED <<clock, start, ledger>>
      BY <2>4 DEF AllBlocked
    <3>2. tick' = [tick EXCEPT !.status = "failed",
                               !.tx = [tick.tx EXCEPT !.failed = @ \cup {tick.cutoff}]]
      BY <2>4 DEF AllBlocked, FailTick
    <3>3. /\ tick' \in GradeTicks /\ tick'.job = "recommend"
          /\ tick'.tx.pubs = tick.tx.pubs /\ tick'.tx.settled = tick.tx.settled
          /\ tick'.tx.done = tick.tx.done
      BY <3>1, <3>2, RecommendIsUngraded DEF GradeTicks, Rows
    <3>4. Ungraded(tick'.tx) /\ UniqueKeys(tick'.tx)
      BY <3>1, <3>3, RecommendIsUngraded DEF Ungraded, UniqueKeys
    <3> QED
      BY <3>1, <3>3, <3>4, RecommendStep
  <2>5. CASE EndRecommend
    <3>1. RunsJob("recommend") /\ UNCHANGED <<clock, start, ledger>>
      BY <2>5 DEF EndRecommend
    <3> DEFINE d == [job |-> "recommend", slot |-> tick.cutoff]
    <3>2. tick' = [tick EXCEPT !.status = "success", !.tx.done = @ \cup {d}]
      BY <2>5 DEF EndRecommend
    <3>5. d \in [job : {"recommend", "grade"}, slot : Int] /\ d.job = "recommend"
      BY <3>1, RecommendIsUngraded DEF GradeTicks
    <3> HIDE DEF d
    <3>3. /\ tick' \in GradeTicks /\ tick'.job = "recommend"
          /\ tick'.tx.pubs = tick.tx.pubs /\ tick'.tx.settled = tick.tx.settled
          /\ tick'.tx.done = tick.tx.done \cup {d}
      BY <3>1, <3>2, <3>5, RecommendIsUngraded DEF GradeTicks, Rows
    <3>4. Ungraded(tick'.tx) /\ UniqueKeys(tick'.tx)
      BY <3>1, <3>3, <3>5, RecommendIsUngraded DEF Ungraded, UniqueKeys
    <3> QED
      BY <3>1, <3>3, <3>4, RecommendStep
  <2>6. ASSUME NEW b \in CardBouts, SkipBout(b) PROVE GradeInv'
    <3>1. RunsJob("recommend") /\ UNCHANGED <<clock, start, ledger>>
      BY <2>6 DEF SkipBout
    <3>3. tick' \in GradeTicks /\ tick'.job = "recommend" /\ tick'.tx = tick.tx
      BY <2>6, <3>1, RecommendIsUngraded DEF GradeTicks, SkipBout
    <3> QED
      BY <3>1, <3>3, RecommendIsUngraded, RecommendStep
  <2>7. ASSUME NEW b \in CardBouts, PublishBout(b) PROVE GradeInv'
    <3>1. RunsJob("recommend") /\ UNCHANGED <<clock, start, ledger>>
      BY <2>7 DEF PublishBout
    <3>2. PICK d \in Policies :
             tick' = [tick EXCEPT !.todo = @ \ {b}, !.tx = WithQuote(WithBout(b, d), KeyOf(b, d), d)]
      BY <2>7 DEF PublishBout
    <3>3. KeyOf(b, d) \in Keys
      BY <3>1, RecommendIsUngraded DEF KeyOf, Keys, GradeTicks, Policies
    <3> DEFINE rows == WithQuote(WithBout(b, d), KeyOf(b, d), d)
    <3>4. /\ rows \in Rows /\ UniqueKeys(rows)
          /\ rows.settled = tick.tx.settled /\ rows.done = tick.tx.done
      BY <3>1, <3>3, RecommendIsUngraded, WithBoutKeeps, WithQuoteKeeps DEF UniqueKeys, GradeInv
    <3> HIDE DEF rows
    <3>5. tick' \in GradeTicks /\ tick'.job = "recommend" /\ tick'.tx = rows
      BY <3>1, <3>2, <3>4, RecommendIsUngraded DEF GradeTicks, rows
    <3>6. Ungraded(rows)
      BY <3>1, <3>4, RecommendIsUngraded DEF Ungraded
    <3> QED
      BY <3>1, <3>4, <3>5, <3>6, RecommendStep
  <2>8. ASSUME NEW b \in CardBouts, ConflictBout(b) \/ QuoteRaises(b) PROVE GradeInv'
    <3>1. RunsJob("recommend") /\ UNCHANGED <<clock, start, ledger>>
      BY <2>8 DEF ConflictBout, QuoteRaises
    <3>2. PICK rows \in Rows :
             /\ FailTick(rows) /\ UniqueKeys(rows)
             /\ rows.settled = tick.tx.settled /\ rows.done = tick.tx.done
      <4>1. CASE ConflictBout(b)
        BY <3>1, <4>1, RecommendIsUngraded DEF ConflictBout, GradeTicks
      <4>2. CASE QuoteRaises(b)
        BY <3>1, <4>2, RecommendIsUngraded, WithBoutKeeps DEF QuoteRaises, GradeInv
      <4> QED
        BY <2>8, <4>1, <4>2
    <3>3. tick' = [tick EXCEPT !.status = "failed",
                               !.tx = [rows EXCEPT !.failed = @ \cup {tick.cutoff}]]
      BY <3>2 DEF FailTick
    <3>4. /\ tick' \in GradeTicks /\ tick'.job = "recommend"
          /\ tick'.tx.pubs = rows.pubs /\ tick'.tx.settled = rows.settled
          /\ tick'.tx.done = rows.done
      BY <3>1, <3>3, RecommendIsUngraded DEF GradeTicks, Rows
    <3>5. Ungraded(tick'.tx) /\ UniqueKeys(tick'.tx)
      BY <3>1, <3>2, <3>4, RecommendIsUngraded DEF Ungraded, UniqueKeys
    <3> QED
      BY <3>1, <3>4, <3>5, RecommendStep
  <2>9. CASE GradeEvent
    <3>1. UNCHANGED <<clock, start, ledger>> /\ start <= clock
      BY <2>9 DEF GradeEvent
    <3>2. PICK P \in {{}, ledger.pubs} :
             tick' = [job |-> "grade", cutoff |-> 0, todo |-> {}, blocked |-> {}, status |-> "success",
                      tx |-> [Settle(ledger, P, <<"event_night", 1>>) EXCEPT
                                !.done = @ \cup {[job |-> "grade", slot |-> 0]}]]
      BY <2>9 DEF GradeEvent
    <3> DEFINE rows == Settle(ledger, P, <<"event_night", 1>>)
               next == [rows EXCEPT !.done = @ \cup {[job |-> "grade", slot |-> 0]}]
    <3>3. /\ rows \in Rows /\ rows.pubs = ledger.pubs
          /\ SettledAtEarliest(rows) /\ SettledAtQuote(rows)
      BY <2>0, SettleKeeps, GradeAssumption
    <3> HIDE DEF rows
    <3>4. /\ next \in Rows /\ next.pubs = rows.pubs /\ next.settled = rows.settled
          /\ next.quotes = rows.quotes
      BY <3>3 DEF Rows
    <3> HIDE DEF next
    <3>5. UniqueKeys(next) /\ SettledAtEarliest(next) /\ SettledAtQuote(next)
      BY <2>0, <3>3, <3>4 DEF UniqueKeys, SettledAtEarliest, SettledAtQuote
    <3>6. tick' \in GradeTicks /\ tick'.job = "grade" /\ tick'.tx = next
      BY <3>2, <3>4 DEF GradeTicks, next, rows
    <3>7. GradeTypeOK'
      BY <2>0, <3>1, <3>6 DEF GradeTypeOK
    <3>8. \A r \in VisibleRows' : r = ledger \/ r = next
      BY <3>1, <3>6, SeenNext
    <3> QED
      BY <2>0, <3>1, <3>5, <3>6, <3>7, <3>8 DEF GradeInv
  <2>10. CASE CorrectResult
    <3>1. PICK v \in ResultVersions : ledger' = Settle(ledger, ledger.pubs, v)
      BY <2>10 DEF CorrectResult
    <3>2. tick' = None /\ clock' = clock /\ start' = start /\ start <= clock
      BY <2>0, <2>10 DEF CorrectResult, NoTick, NotDone, Ungraded
    <3>3. ledger' \in Rows /\ UniqueKeys(ledger') /\ SettledAtEarliest(ledger') /\ SettledAtQuote(ledger')
      BY <2>0, <3>1, SettleKeeps DEF UniqueKeys
    <3> QED
      BY <2>0, <3>2, <3>3, CommittedStep
  <2>11. CASE CommitTick
    <3>1. tick # None /\ ledger' = tick.tx /\ tick' = None /\ UNCHANGED <<clock, start>>
      BY <2>11 DEF CommitTick, NoTick
    <3>2. tick.tx \in VisibleRows /\ tick.tx \in Rows
      BY <3>1, Seen DEF GradeInv, GradeTypeOK, GradeTicks
    <3> QED
      BY <2>0, <3>1, <3>2, CommittedStep DEF GradeInv
  <2>12. CASE TickKilled
    BY <2>0, <2>12, CommittedStep DEF TickKilled
  <2>13. CASE UNCHANGED gradeVars
    BY <2>13 DEF gradeVars, GradeInv, GradeTypeOK, VisibleRows
  <2> QED
    BY <2>1, <2>2, <2>3, <2>4, <2>5, <2>6, <2>7, <2>8, <2>9, <2>10, <2>11, <2>12, <2>13 DEF GradeNext
<1> QED
  BY <1>1, <1>2, PTL DEF GradeSpec

(* OneRowPerKey: however recommend is retried in later ticks, moved, left  *)
(* half-done or killed, and whatever corrections settle again, a key names *)
(* one publication, and a publication has one settlement for each version  *)
(* of its result (publish_official_t60 and settle_recommendations).        *)
THEOREM RowsAreUnique == GradeSpec => []OneRowPerKey
<1>1. GradeInv => OneRowPerKey
  <2> SUFFICES ASSUME GradeInv, NEW r \in VisibleRows
               PROVE  /\ \A p, q \in r.pubs : PubKey(p) = PubKey(q) => p = q
                      /\ \A s, t \in r.settled : s.pub = t.pub /\ s.version = t.version => s = t
    BY DEF OneRowPerKey
  <2>1. r \in Rows
    BY Seen DEF GradeInv, GradeTypeOK, GradeTicks
  <2>2. ASSUME NEW s \in r.settled, NEW t \in r.settled, s.pub = t.pub, s.version = t.version
        PROVE  s = t
    <3>1. s.ts <= t.ts /\ t.ts <= s.ts
      <4>1. [pub |-> s.pub, ts |-> s.ts] \in r.quotes /\ [pub |-> t.pub, ts |-> t.ts] \in r.quotes
        BY DEF GradeInv, SettledAtQuote
      <4> QED
        BY <2>2, <4>1 DEF GradeInv, SettledAtEarliest
    <3>2. s.ts \in Nat /\ t.ts \in Nat
      BY <2>1, GradeAssumption DEF Rows
    <3>3. s.ts = t.ts
      BY <3>1, <3>2
    <3>4. s \in [pub : Keys, ts : QuoteTimes, version : ResultVersions]
          /\ t \in [pub : Keys, ts : QuoteTimes, version : ResultVersions]
      BY <2>1 DEF Rows
    <3>5. s = [pub |-> s.pub, ts |-> s.ts, version |-> s.version]
          /\ t = [pub |-> t.pub, ts |-> t.ts, version |-> t.version]
      BY <3>4
    <3> QED
      BY <2>2, <3>3, <3>5
  <2> QED
    BY <2>2 DEF GradeInv, UniqueKeys
<1> QED
  BY <1>1, GradeInvariant, PTL
-----------------------------------------------------------------------------
(* The registry file and the decisions behind it.                          *)
(* A command that has trained holds an artifact, and one that has decided  *)
(* holds its decision.                                                     *)
UnderWay ==
  { cmd \in RegistryCommand :
      /\ cmd.pc = "trained" => cmd.digest \in Artifacts
      /\ cmd.pc \in {"save", "write", "commit"} => cmd.row \in DecisionRow }

RegistryTypeOK ==
  /\ yaml \in RegistryFile \cup {None}
  /\ store \subseteq Artifacts /\ passed \subseteq Artifacts
  /\ decisions \in Seq(DecisionRow)
  /\ command \in [Commands -> UnderWay \cup {None}]

(* What a file may name.                                                   *)
Gated(file, gated) == {file.champion, file.prior} \subseteq gated \cup {First, None}

GatedInv ==
  /\ yaml # None => Gated(yaml, passed)
  /\ \A c \in Commands : command[c] # None => Gated(command[c].file, passed)

(* The rows of the champion's lane have a last one, if there are any.      *)
ActivationRows == { i \in DOMAIN decisions : decisions[i].action \in Activations }

HasLast ==
  ActivationRows # {} => \E i \in ActivationRows : \A j \in ActivationRows : j <= i

(* The decision that a file comes from is in the table, or its command     *)
(* died.                                                                   *)
Explained(file) ==
  \/ file.champion \in unlogged \/ file.prior \in unlogged
  \/ LastActivation.digest = file.champion /\ LastActivation.before = file.prior

(* What a command's row says of the file that it writes.                   *)
Activates(cmd) == cmd.row.action \in Activations

AgreesWithFile(cmd) == cmd.row.digest = cmd.file.champion /\ cmd.row.before = cmd.file.prior

(* One command at a time: until it has written, the file is explained by   *)
(* the table; then it is what the command's row says.                      *)
Working(cmd) ==
  /\ cmd.pc \in {"loaded", "trained"} =>
       yaml # None /\ Explained(yaml) /\ cmd.file = yaml /\ cmd.before = yaml.champion
  /\ cmd.pc \in {"save", "write"} =>
       IF Activates(cmd) THEN AgreesWithFile(cmd) ELSE Explained(cmd.file)
  /\ cmd.pc = "save" => yaml # None /\ Explained(yaml)
  /\ cmd.pc = "write" => yaml = None
  /\ cmd.pc = "commit" =>
       /\ yaml # None
       /\ IF Activates(cmd) THEN yaml = cmd.file /\ AgreesWithFile(cmd) ELSE Explained(yaml)

ExplainedInv ==
  /\ HasLast
  /\ \A c, d \in Commands : command[c] # None /\ command[d] # None => c = d
  /\ \A c \in Commands : command[c] # None => Working(command[c])
  /\ (\A c \in Commands : command[c] = None) /\ yaml # None => Explained(yaml)
-----------------------------------------------------------------------------
(* What the helpers of the model build.                                    *)
LEMMA FileType ==
  /\ \A a \in Artifacts, p \in Artifacts \cup {None}, C \in SUBSET Artifacts :
       /\ Entry(a, p, C) \in RegistryFile
       /\ Entry(a, p, C).champion = a /\ Entry(a, p, C).prior = p
  /\ \A f \in RegistryFile :
       /\ f.champion \in Artifacts /\ f.prior \in Artifacts \cup {None}
       /\ f.challengers \in SUBSET Artifacts
  BY DEF Entry, RegistryFile

LEMMA ChallengedType ==
  \A f \in RegistryFile, a \in Artifacts :
    /\ Challenged(f, a) \in RegistryFile
    /\ Challenged(f, a).champion = f.champion /\ Challenged(f, a).prior = f.prior
  BY DEF RegistryFile, Challenged

LEMMA RowType ==
  \A action \in {"retrain", "promote", "rollback", "reject", "shadow"}, a, b \in Artifacts :
    /\ Decision(action, a, b) \in DecisionRow
    /\ Decision(action, a, b).action = action
    /\ Decision(action, a, b).digest = a /\ Decision(action, a, b).before = b
  BY DEF Decision, DecisionRow

(* A step replaces the record of one command.                              *)
Becomes(c, cmd) == command' = [command EXCEPT ![c] = cmd]

Same(cmd, old) == cmd.file = old.file /\ cmd.before = old.before

LEMMA Held ==
  ASSUME RegistryTypeOK, NEW c \in Commands, command[c] # None
  PROVE  /\ command[c] \in UnderWay /\ command[c] \in RegistryCommand
         /\ command[c].file \in RegistryFile /\ command[c].before \in Artifacts
  BY DEF RegistryTypeOK, UnderWay, RegistryCommand

LEMMA Edits ==
  ASSUME NEW cmd \in RegistryCommand, NEW row \in DecisionRow
  PROVE  LET decided == [cmd EXCEPT !.pc = "commit", !.row = row] IN
         /\ decided \in RegistryCommand
         /\ decided.pc = "commit" /\ decided.row = row
         /\ decided.file = cmd.file /\ decided.before = cmd.before
  BY DEF RegistryCommand

LEMMA Advances ==
  ASSUME NEW cmd \in RegistryCommand, NEW pc \in {"write", "commit"}
  PROVE  LET next == [cmd EXCEPT !.pc = pc] IN
         /\ next \in RegistryCommand
         /\ next.pc = pc /\ next.row = cmd.row
         /\ next.file = cmd.file /\ next.before = cmd.before
  BY DEF RegistryCommand

LEMMA Trains ==
  ASSUME NEW cmd \in RegistryCommand, NEW a \in Artifacts
  PROVE  LET next == [cmd EXCEPT !.pc = "trained", !.digest = a] IN
         /\ next \in RegistryCommand
         /\ next.pc = "trained" /\ next.digest = a
         /\ next.file = cmd.file /\ next.before = cmd.before
  BY DEF RegistryCommand

(* Deciding, and putting a file and its row together.                      *)
LEMMA Decides ==
  ASSUME RegistryTypeOK, NEW c \in Commands, command[c] # None, NEW row \in DecisionRow,
         command' = Decided(c, row)
  PROVE  \E cmd \in UnderWay :
           Becomes(c, cmd) /\ cmd.pc = "commit" /\ cmd.row = row /\ Same(cmd, command[c])
<1> DEFINE cmd == [command[c] EXCEPT !.pc = "commit", !.row = row]
<1>1. /\ cmd \in RegistryCommand /\ cmd.pc = "commit" /\ cmd.row = row
      /\ cmd.file = command[c].file /\ cmd.before = command[c].before
  BY Held, Edits
<1>2. Becomes(c, cmd)
  BY DEF Becomes, Decided, RegistryTypeOK
<1> HIDE DEF cmd
<1> QED
  BY <1>1, <1>2 DEF UnderWay, Same

LEMMA Saves ==
  ASSUME RegistryTypeOK, NEW c \in Commands, command[c] # None, NEW row \in DecisionRow,
         NEW file \in RegistryFile, command' = Saving(c, file, row)
  PROVE  \E cmd \in UnderWay :
           Becomes(c, cmd) /\ cmd.pc = "save" /\ cmd.row = row /\ cmd.file = file
<1> DEFINE old == command[c]
           cmd == [old EXCEPT !.pc = "save", !.file = file, !.row = row]
<1>1. cmd \in RegistryCommand /\ cmd.pc = "save" /\ cmd.row = row /\ cmd.file = file
  <2>1. old \in RegistryCommand
    BY Held
  <2> HIDE DEF old
  <2> QED
    BY <2>1 DEF RegistryCommand
<1>2. Becomes(c, cmd)
  BY DEF Becomes, Saving, RegistryTypeOK
<1> HIDE DEF cmd
<1> QED
  BY <1>1, <1>2 DEF UnderWay, Same
-----------------------------------------------------------------------------
(* What each step makes of the command that takes it.                      *)
LEMMA LoadStep ==
  ASSUME RegistryTypeOK, NEW c \in Commands, Load(c)
  PROVE  \E cmd \in UnderWay :
           Becomes(c, cmd) /\ cmd.pc = "loaded" /\ cmd.file = yaml /\ cmd.before = yaml.champion
<1>1. PICK op \in {"retrain", "promote", "rollback"} :
        command' = [command EXCEPT ![c] =
          [op |-> op, pc |-> "loaded", file |-> yaml, digest |-> None,
           before |-> yaml.champion, row |-> None]]
  BY DEF Load
<1> DEFINE cmd == [op |-> op, pc |-> "loaded", file |-> yaml, digest |-> None,
                   before |-> yaml.champion, row |-> None]
<1>2. yaml \in RegistryFile /\ yaml.champion \in Artifacts
  BY DEF Load, RegistryTypeOK, RegistryFile
<1>3. cmd \in UnderWay
  BY <1>2 DEF UnderWay, RegistryCommand
<1> QED
  BY <1>1, <1>3 DEF Becomes

LEMMA TrainStep ==
  ASSUME RegistryTypeOK, NEW c \in Commands, Train(c)
  PROVE  \E cmd \in UnderWay : Becomes(c, cmd) /\ cmd.pc = "trained" /\ Same(cmd, command[c])
<1>1. PICK a \in Artifacts : command' = [command EXCEPT ![c].pc = "trained", ![c].digest = a]
  BY DEF Train
<1> DEFINE cmd == [command[c] EXCEPT !.pc = "trained", !.digest = a]
<1>2. command[c] # None
  BY DEF Train, Op
<1>3. /\ cmd \in RegistryCommand /\ cmd.pc = "trained" /\ cmd.digest = a
      /\ cmd.file = command[c].file /\ cmd.before = command[c].before
  BY <1>2, Held, Trains
<1>4. Becomes(c, cmd)
  BY <1>1 DEF Becomes, RegistryTypeOK
<1> HIDE DEF cmd
<1> QED
  BY <1>3, <1>4 DEF UnderWay, Same

LEMMA RejectStep ==
  ASSUME RegistryTypeOK, NEW c \in Commands, TrainFails(c) \/ GatesRefuseRetrain(c)
  PROVE  \E cmd \in UnderWay : /\ Becomes(c, cmd) /\ cmd.pc = "commit"
                               /\ cmd.row.action = "reject" /\ Same(cmd, command[c])
<1>1. command[c] # None
  BY DEF TrainFails, GatesRefuseRetrain, Op
<1>2. PICK a \in Artifacts : command' = Decided(c, Decision("reject", a, command[c].before))
  BY <1>1, Held DEF TrainFails, GatesRefuseRetrain, At, UnderWay
<1>3. LET row == Decision("reject", a, command[c].before) IN
        row \in DecisionRow /\ row.action = "reject"
  BY <1>1, Held, RowType
<1> QED
  BY <1>1, <1>2, <1>3, Decides

LEMMA ShadowStep ==
  ASSUME RegistryTypeOK, NEW c \in Commands, RegisterShadow(c)
  PROVE  \E cmd \in UnderWay, a \in Artifacts :
           /\ Becomes(c, cmd) /\ cmd.pc = "save" /\ cmd.row.action = "shadow"
           /\ cmd.file = Challenged(yaml, a)
<1> DEFINE a == command[c].digest
           row == Decision("shadow", a, yaml.champion)
           file == Challenged(yaml, a)
<1>1. command[c] # None /\ a \in Artifacts /\ yaml \in RegistryFile
  BY Held DEF RegisterShadow, Op, At, UnderWay, RegistryTypeOK
<1>2. row \in DecisionRow /\ row.action = "shadow" /\ file \in RegistryFile
  BY <1>1, FileType, ChallengedType, RowType
<1>3. command' = Saving(c, file, row)
  BY DEF RegisterShadow
<1> QED
  BY <1>1, <1>2, <1>3, Saves

LEMMA ActivateStep ==
  ASSUME RegistryTypeOK, NEW c \in Commands, ActivateChampion(c)
  PROVE  \E cmd \in UnderWay, a \in Artifacts :
           /\ Becomes(c, cmd) /\ cmd.pc = "save" /\ cmd.row.action = "retrain"
           /\ cmd.row.digest = a /\ cmd.row.before = command[c].before
           /\ cmd.file.champion = a /\ cmd.file.prior = yaml.champion
           /\ passed' = passed \cup {a} /\ command[c].pc = "trained" /\ yaml # None
<1> DEFINE a == command[c].digest
           row == Decision("retrain", a, command[c].before)
           file == Refreshed(yaml, a)
<1>1. command[c] # None /\ a \in Artifacts /\ yaml \in RegistryFile
  BY Held DEF ActivateChampion, Op, At, UnderWay, RegistryTypeOK
<1>2. /\ row \in DecisionRow /\ row.action = "retrain"
      /\ row.digest = a /\ row.before = command[c].before
  BY <1>1, Held, RowType
<1>3. file \in RegistryFile /\ file.champion = a /\ file.prior = yaml.champion
  BY <1>1, FileType DEF Refreshed
<1>4. command' = Saving(c, file, row)
  BY DEF ActivateChampion
<1> HIDE DEF row, file
<1>5. PICK cmd \in UnderWay :
        Becomes(c, cmd) /\ cmd.pc = "save" /\ cmd.row = row /\ cmd.file = file
  BY <1>1, <1>2, <1>3, <1>4, Saves
<1> QED
  BY <1>1, <1>2, <1>3, <1>5 DEF ActivateChampion, At

LEMMA PromoteStep ==
  ASSUME RegistryTypeOK, NEW c \in Commands, Promote(c)
  PROVE  \E cmd \in UnderWay, a \in Artifacts :
           /\ Becomes(c, cmd) /\ cmd.pc = "save" /\ cmd.row.action = "promote"
           /\ cmd.row.digest = a /\ cmd.row.before = command[c].before
           /\ cmd.file.champion = a /\ cmd.file.prior = command[c].file.champion
           /\ passed' = passed \cup {a} /\ command[c].pc = "loaded"
<1>1. PICK a \in store : /\ passed' = passed \cup {a}
                         /\ command' = Saving(c, Promoted(command[c].file, a),
                                              Decision("promote", a, command[c].before))
  BY DEF Promote, Verified
<1> DEFINE row == Decision("promote", a, command[c].before)
           file == Promoted(command[c].file, a)
<1>2. command[c] # None /\ a \in Artifacts /\ command[c].pc = "loaded"
  BY DEF Promote, Op, At, RegistryTypeOK
<1>3. /\ row \in DecisionRow /\ row.action = "promote"
      /\ row.digest = a /\ row.before = command[c].before
  BY <1>2, Held, RowType
<1>4. /\ file \in RegistryFile
      /\ file.champion = a /\ file.prior = command[c].file.champion
  BY <1>2, Held, FileType DEF Promoted
<1>5. command' = Saving(c, file, row)
  BY <1>1
<1> HIDE DEF row, file
<1>6. PICK cmd \in UnderWay :
        Becomes(c, cmd) /\ cmd.pc = "save" /\ cmd.row = row /\ cmd.file = file
  BY <1>2, <1>3, <1>4, <1>5, Saves
<1> QED
  BY <1>1, <1>2, <1>3, <1>4, <1>6

LEMMA RollbackStep ==
  ASSUME RegistryTypeOK, NEW c \in Commands, Rollback(c)
  PROVE  \/ Becomes(c, None) /\ command[c].pc = "loaded"
         \/ \E cmd \in UnderWay :
              LET file == command[c].file IN
              /\ Becomes(c, cmd) /\ cmd.pc = "save" /\ cmd.row.action = "rollback"
              /\ cmd.row.digest = file.prior /\ cmd.row.before = file.champion
              /\ cmd.file.champion = file.prior /\ cmd.file.prior = file.champion
              /\ command[c].pc = "loaded"
<1> DEFINE old == command[c].file
           row == Decision("rollback", old.prior, old.champion)
           file == Entry(old.prior, old.champion, old.challengers)
<1>1. command[c] # None /\ command[c].pc = "loaded"
  BY DEF Rollback, Op, At
<1>2. CASE old.prior = None
  BY <1>1, <1>2 DEF Rollback, Becomes
<1>3. CASE old.prior # None
  <2>1. old \in RegistryFile /\ old.prior \in Artifacts /\ old.champion \in Artifacts
    BY <1>1, <1>3, Held, FileType
  <2>2. /\ row \in DecisionRow /\ row.action = "rollback"
        /\ row.digest = old.prior /\ row.before = old.champion
    BY <2>1, RowType
  <2>3. /\ file \in RegistryFile
        /\ file.champion = old.prior /\ file.prior = old.champion
    BY <2>1, FileType
  <2>4. command' = Saving(c, file, row)
    BY <1>3 DEF Rollback, RollbackRow
  <2> HIDE DEF row, file
  <2>5. PICK cmd \in UnderWay :
          Becomes(c, cmd) /\ cmd.pc = "save" /\ cmd.row = row /\ cmd.file = file
    BY <1>1, <2>2, <2>3, <2>4, Saves
  <2> QED
    BY <1>1, <2>2, <2>3, <2>5
<1> QED
  BY <1>2, <1>3

LEMMA WriteStep ==
  ASSUME RegistryTypeOK, NEW c \in Commands, Truncate(c) \/ Fill(c)
  PROVE  \E cmd \in UnderWay :
           /\ Becomes(c, cmd) /\ cmd.row = command[c].row /\ Same(cmd, command[c])
           /\ cmd.pc = IF Truncate(c) THEN "write" ELSE "commit"
<1>1. command[c] # None /\ command[c].pc \in {"save", "write"}
  BY DEF Truncate, Fill, At
<1>2. PICK pc \in {"write", "commit"} :
        /\ command' = [command EXCEPT ![c].pc = pc]
        /\ pc = IF Truncate(c) THEN "write" ELSE "commit"
  BY DEF Truncate, Fill
<1> DEFINE cmd == [command[c] EXCEPT !.pc = pc]
<1>3. cmd \in UnderWay /\ cmd.pc = pc /\ cmd.row = command[c].row /\ Same(cmd, command[c])
  BY <1>1, Held, Advances DEF UnderWay, Same
<1>4. Becomes(c, cmd)
  BY <1>2 DEF Becomes, RegistryTypeOK
<1> QED
  BY <1>2, <1>3, <1>4
-----------------------------------------------------------------------------
LEMMA TypeInit == RegistryInit => RegistryTypeOK
<1> SUFFICES ASSUME RegistryInit PROVE RegistryTypeOK
  OBVIOUS
<1>1. yaml \in RegistryFile
  BY FileType, RegistryAssumption DEF RegistryInit
<1> QED
  BY <1>1, RegistryAssumption DEF RegistryInit, RegistryTypeOK

LEMMA TypeStep ==
  ASSUME RegistryTypeOK, [RegistryNext]_registryVars
  PROVE  RegistryTypeOK'
<1>1. ASSUME NEW c \in Commands, NEW cmd \in UnderWay \cup {None}, Becomes(c, cmd)
      PROVE  command' \in [Commands -> UnderWay \cup {None}]
  BY <1>1 DEF Becomes, RegistryTypeOK
<1>2. ASSUME NEW c \in Commands, Load(c) PROVE RegistryTypeOK'
  BY <1>1, <1>2, LoadStep DEF Load, RegistryTypeOK
<1>3. ASSUME NEW c \in Commands, Train(c) PROVE RegistryTypeOK'
  <2>1. store' \subseteq Artifacts
    BY <1>3 DEF Train, RegistryTypeOK
  <2> QED
    BY <1>1, <1>3, <2>1, TrainStep DEF Train, RegistryTypeOK
<1>4. ASSUME NEW c \in Commands, TrainFails(c) \/ GatesRefuseRetrain(c) PROVE RegistryTypeOK'
  BY <1>1, <1>4, RejectStep DEF TrainFails, GatesRefuseRetrain, RegistryTypeOK
<1>5. ASSUME NEW c \in Commands, RegisterShadow(c) PROVE RegistryTypeOK'
  BY <1>1, <1>5, ShadowStep DEF RegisterShadow, RegistryTypeOK
<1>6. ASSUME NEW c \in Commands, ActivateChampion(c) PROVE RegistryTypeOK'
  BY <1>1, <1>6, ActivateStep DEF ActivateChampion, RegistryTypeOK
<1>7. ASSUME NEW c \in Commands, Promote(c) PROVE RegistryTypeOK'
  BY <1>1, <1>7, PromoteStep DEF Promote, RegistryTypeOK
<1>8. ASSUME NEW c \in Commands, GatesRefusePromote(c) PROVE RegistryTypeOK'
  BY <1>1, <1>8 DEF GatesRefusePromote, Becomes, RegistryTypeOK
<1>9. ASSUME NEW c \in Commands, Rollback(c) PROVE RegistryTypeOK'
  BY <1>1, <1>9, RollbackStep DEF Rollback, RegistryTypeOK
<1>10. ASSUME NEW c \in Commands, Truncate(c) \/ Fill(c) PROVE RegistryTypeOK'
  <2>1. yaml' \in RegistryFile \cup {None}
    BY <1>10, Held DEF Truncate, Fill, At
  <2> QED
    BY <1>1, <1>10, <2>1, WriteStep DEF Truncate, Fill, RegistryTypeOK
<1>11. ASSUME NEW c \in Commands, CommitDecision(c) PROVE RegistryTypeOK'
  <2>1. command[c].row \in DecisionRow
    BY <1>11, Held DEF CommitDecision, At, UnderWay
  <2>2. decisions' \in Seq(DecisionRow)
    BY <1>11, <2>1 DEF CommitDecision, RegistryTypeOK
  <2> QED
    BY <1>1, <1>11, <2>2 DEF CommitDecision, Becomes, RegistryTypeOK
<1>12. ASSUME NEW c \in Commands, Die(c) PROVE RegistryTypeOK'
  BY <1>1, <1>12 DEF Die, Becomes, RegistryTypeOK
<1>13. CASE UNCHANGED registryVars
  BY <1>13 DEF registryVars, RegistryTypeOK
<1> QED
  BY <1>2, <1>3, <1>4, <1>5, <1>6, <1>7, <1>8, <1>9, <1>10, <1>11, <1>12, <1>13
     DEF RegistryNext

(* A file's champion and the one before it have passed the gates.          *)
LEMMA GatedStep ==
  ASSUME RegistryTypeOK, GatedInv, [RegistryNext]_registryVars
  PROVE  GatedInv'
<1>1. ASSUME NEW c \in Commands, NEW cmd, Becomes(c, cmd), passed \subseteq passed',
             cmd # None => Gated(cmd.file, passed'), yaml' # None => Gated(yaml', passed')
      PROVE  GatedInv'
  <2>1. ASSUME NEW d \in Commands, command'[d] # None PROVE Gated(command'[d].file, passed')
    <3>1. CASE d = c
      BY <1>1, <2>1, <3>1 DEF Becomes, RegistryTypeOK
    <3>2. CASE d # c
      <4>1. command'[d] = command[d]
        BY <1>1, <3>2 DEF Becomes, RegistryTypeOK
      <4> QED
        BY <1>1, <2>1, <4>1 DEF GatedInv, Gated
    <3> QED
      BY <3>1, <3>2
  <2> QED
    BY <1>1, <2>1 DEF GatedInv
<1>2. ASSUME NEW c \in Commands, Load(c) PROVE GatedInv'
  <2>1. PICK cmd \in UnderWay : Becomes(c, cmd) /\ cmd.file = yaml
    BY <1>2, LoadStep
  <2> QED
    BY <1>1, <1>2, <2>1 DEF Load, GatedInv
<1>3. ASSUME NEW c \in Commands, Train(c) \/ TrainFails(c) \/ GatesRefuseRetrain(c)
      PROVE  GatedInv'
  <2>1. PICK cmd \in UnderWay : Becomes(c, cmd) /\ cmd.file = command[c].file
    BY <1>3, TrainStep, RejectStep DEF Same
  <2>2. command[c] # None /\ yaml' = yaml /\ passed' = passed
    BY <1>3 DEF Train, TrainFails, GatesRefuseRetrain, Op
  <2> QED
    BY <1>1, <2>1, <2>2 DEF GatedInv
<1>4. ASSUME NEW c \in Commands, RegisterShadow(c) PROVE GatedInv'
  <2>1. yaml # None /\ yaml \in RegistryFile /\ yaml' = yaml /\ passed' = passed
    BY <1>4 DEF RegisterShadow, RegistryTypeOK
  <2>2. PICK cmd \in UnderWay, a \in Artifacts :
          Becomes(c, cmd) /\ cmd.file = Challenged(yaml, a)
    BY <1>4, ShadowStep
  <2>3. Gated(cmd.file, passed')
    BY <2>1, <2>2, ChallengedType DEF GatedInv, Gated
  <2> QED
    BY <1>1, <2>1, <2>2, <2>3 DEF GatedInv
<1>5. ASSUME NEW c \in Commands, ActivateChampion(c) PROVE GatedInv'
  <2>1. PICK cmd \in UnderWay, a \in Artifacts :
          /\ Becomes(c, cmd) /\ passed' = passed \cup {a}
          /\ cmd.file.champion = a /\ cmd.file.prior = yaml.champion
    BY <1>5, ActivateStep
  <2>2. yaml # None /\ yaml' = yaml
    BY <1>5 DEF ActivateChampion
  <2> QED
    BY <1>1, <2>1, <2>2 DEF GatedInv, Gated
<1>6. ASSUME NEW c \in Commands, Promote(c) PROVE GatedInv'
  <2>1. PICK cmd \in UnderWay, a \in Artifacts :
          /\ Becomes(c, cmd) /\ passed' = passed \cup {a}
          /\ cmd.file.champion = a /\ cmd.file.prior = command[c].file.champion
    BY <1>6, PromoteStep
  <2>2. command[c] # None /\ yaml' = yaml
    BY <1>6 DEF Promote, Op
  <2> QED
    BY <1>1, <2>1, <2>2 DEF GatedInv, Gated
<1>7. ASSUME NEW c \in Commands, GatesRefusePromote(c) \/ CommitDecision(c) \/ Die(c)
      PROVE  GatedInv'
  <2>1. Becomes(c, None) /\ yaml' = yaml /\ passed' = passed
    BY <1>7 DEF GatesRefusePromote, CommitDecision, Die, Becomes
  <2> QED
    BY <1>1, <2>1 DEF GatedInv
<1>8. ASSUME NEW c \in Commands, Rollback(c) PROVE GatedInv'
  <2>1. command[c] # None /\ yaml' = yaml /\ passed' = passed
    BY <1>8 DEF Rollback, Op
  <2>2. CASE Becomes(c, None)
    BY <1>1, <2>1, <2>2 DEF GatedInv
  <2>3. ASSUME NEW cmd \in UnderWay, Becomes(c, cmd),
               cmd.file.champion = command[c].file.prior,
               cmd.file.prior = command[c].file.champion
        PROVE  GatedInv'
    BY <1>1, <2>1, <2>3 DEF GatedInv, Gated
  <2> QED
    BY <1>8, <2>2, <2>3, RollbackStep
<1>9. ASSUME NEW c \in Commands, Truncate(c) \/ Fill(c) PROVE GatedInv'
  <2>1. PICK cmd \in UnderWay : Becomes(c, cmd) /\ cmd.file = command[c].file
    BY <1>9, WriteStep DEF Same
  <2>2. command[c] # None /\ yaml' \in {None, command[c].file} /\ passed' = passed
    BY <1>9 DEF Truncate, Fill, At
  <2> QED
    BY <1>1, <2>1, <2>2 DEF GatedInv
<1>10. CASE UNCHANGED registryVars
  BY <1>10 DEF registryVars, GatedInv
<1> QED
  BY <1>2, <1>3, <1>4, <1>5, <1>6, <1>7, <1>8, <1>9, <1>10 DEF RegistryNext
-----------------------------------------------------------------------------
(* A row appended to the table is the last activation, if it is one, and   *)
(* leaves the last one alone, if it is not.                                *)
LEMMA LastRow ==
  ASSUME decisions \in Seq(DecisionRow), HasLast, NEW row \in DecisionRow,
         decisions' = Append(decisions, row)
  PROVE  /\ HasLast'
         /\ row.action \in Activations => LastActivation' = row
         /\ row.action \notin Activations => LastActivation' = LastActivation
<1> DEFINE n == Len(decisions) + 1
<1>1. /\ n \in Nat /\ DOMAIN decisions' = 1..n /\ DOMAIN decisions = 1..(n - 1)
      /\ decisions'[n] = row /\ \A i \in 1..(n - 1) : decisions'[i] = decisions[i]
  OBVIOUS
<1> HIDE DEF n
<1>2. ActivationRows \subseteq 1..(n - 1) /\ ActivationRows' \subseteq 1..n
  BY <1>1 DEF ActivationRows
<1>3. CASE row.action \in Activations
  <2>1. n \in ActivationRows'
    BY <1>1, <1>3 DEF ActivationRows
  <2>2. \A i \in ActivationRows' : i <= n
    BY <1>1, <1>2
  <2>3. \A i \in ActivationRows' : (\A j \in ActivationRows' : j <= i) => i = n
    BY <1>1, <1>2, <2>1
  <2>4. (CHOOSE i \in ActivationRows' : \A j \in ActivationRows' : j <= i) = n
    BY <2>1, <2>2, <2>3
  <2>5. LastActivation' = decisions'[CHOOSE i \in ActivationRows' : \A j \in ActivationRows' : j <= i]
    BY <2>1 DEF LastActivation, ActivationRows
  <2> QED
    BY <1>1, <1>3, <2>1, <2>2, <2>4, <2>5 DEF HasLast
<1>4. CASE row.action \notin Activations
  <2>1. ActivationRows' = ActivationRows
    BY <1>1, <1>4 DEF ActivationRows
  <2>2. CASE ActivationRows = {}
    BY <1>4, <2>1, <2>2 DEF LastActivation, ActivationRows, HasLast
  <2>3. CASE ActivationRows # {}
    <3> DEFINE last == CHOOSE i \in ActivationRows : \A j \in ActivationRows : j <= i
    <3>1. last \in ActivationRows
      BY <2>3 DEF HasLast
    <3>2. LastActivation = decisions[last]
      BY <2>3 DEF LastActivation, ActivationRows
    <3>3. LastActivation' = decisions'[last]
      BY <2>1, <2>3 DEF LastActivation, ActivationRows
    <3>4. decisions'[last] = decisions[last]
      BY <1>1, <1>2, <3>1
    <3> HIDE DEF last
    <3> QED
      BY <1>4, <2>1, <3>2, <3>3, <3>4 DEF HasLast
  <2> QED
    BY <2>2, <2>3
<1> QED
  BY <1>3, <1>4

LEMMA StillExplained ==
  ASSUME decisions' = decisions, unlogged \subseteq unlogged'
  PROVE  /\ HasLast => HasLast'
         /\ yaml' = yaml /\ Explained(yaml) => Explained(yaml)'
         /\ \A file : Explained(file) => Explained(file)'
<1>1. LastActivation' = LastActivation
  BY DEF LastActivation
<1> QED
  BY <1>1 DEF HasLast, ActivationRows, Explained

(* With one command at a time, the others stand by.                        *)
Alone(c) == \A d \in Commands \ {c} : command[d] = None

LEMMA SoleStep ==
  ASSUME RegistryTypeOK, NEW c \in Commands, Alone(c), NEW cmd, Becomes(c, cmd), HasLast',
         IF cmd = None THEN yaml' # None => Explained(yaml)' ELSE Working(cmd)'
  PROVE  ExplainedInv'
<1>1. command'[c] = cmd /\ \A d \in Commands \ {c} : command'[d] = None
  BY DEF Becomes, Alone, RegistryTypeOK
<1>2. \A d \in Commands : command'[d] # None => d = c /\ Working(command[d])'
  BY <1>1
<1>3. (\A d \in Commands : command'[d] = None) /\ yaml' # None => Explained(yaml)'
  BY <1>1
<1> QED
  BY <1>2, <1>3 DEF ExplainedInv

LEMMA ExplainedStep ==
  ASSUME OneAtATime, RegistryTypeOK, ExplainedInv, [RegistryNext]_registryVars
  PROVE  ExplainedInv'
<1>1. ASSUME NEW c \in Commands, command[c] # None PROVE Alone(c) /\ Working(command[c]) /\ HasLast
  BY <1>1 DEF ExplainedInv, Alone
<1>2. ASSUME NEW c \in Commands, Load(c) PROVE ExplainedInv'
  <2>1. /\ Alone(c) /\ HasLast /\ Explained(yaml) /\ yaml # None
        /\ yaml' = yaml /\ decisions' = decisions /\ unlogged' = unlogged
    BY <1>2 DEF Load, ExplainedInv, Alone
  <2>2. PICK cmd \in UnderWay :
          Becomes(c, cmd) /\ cmd.pc = "loaded" /\ cmd.file = yaml /\ cmd.before = yaml.champion
    BY <1>2, LoadStep
  <2>3. HasLast' /\ Working(cmd)'
    BY <2>1, <2>2, StillExplained DEF Working
  <2>4. cmd # None
    BY RegistryAssumption DEF UnderWay
  <2> QED
    BY <2>1, <2>2, <2>3, <2>4, SoleStep
<1>3. ASSUME NEW c \in Commands, Train(c) PROVE ExplainedInv'
  <2>1. /\ command[c] # None /\ command[c].pc = "loaded"
        /\ yaml' = yaml /\ decisions' = decisions /\ unlogged' = unlogged
    BY <1>3 DEF Train, Op, At
  <2>2. PICK cmd \in UnderWay : Becomes(c, cmd) /\ cmd.pc = "trained" /\ Same(cmd, command[c])
    BY <1>3, TrainStep
  <2>3. HasLast' /\ Working(cmd)'
    BY <1>1, <2>1, <2>2, StillExplained DEF Working, Same
  <2>4. cmd # None
    BY RegistryAssumption DEF UnderWay
  <2> QED
    BY <1>1, <2>1, <2>2, <2>3, <2>4, SoleStep
<1>4. ASSUME NEW c \in Commands, TrainFails(c) \/ GatesRefuseRetrain(c) PROVE ExplainedInv'
  <2>1. /\ command[c] # None /\ command[c].pc \in {"loaded", "trained"}
        /\ yaml' = yaml /\ decisions' = decisions /\ unlogged' = unlogged
    BY <1>4 DEF TrainFails, GatesRefuseRetrain, Op, At
  <2>2. PICK cmd \in UnderWay : /\ Becomes(c, cmd) /\ cmd.pc = "commit"
                                /\ cmd.row.action = "reject" /\ Same(cmd, command[c])
    BY <1>4, RejectStep
  <2>3. HasLast' /\ Working(cmd)'
    BY <1>1, <2>1, <2>2, StillExplained DEF Working, Activates, Activations
  <2>4. cmd # None
    BY RegistryAssumption DEF UnderWay
  <2> QED
    BY <1>1, <2>1, <2>2, <2>3, <2>4, SoleStep
<1>5. ASSUME NEW c \in Commands, RegisterShadow(c) PROVE ExplainedInv'
  <2>1. /\ command[c] # None /\ command[c].pc = "trained" /\ yaml \in RegistryFile
        /\ yaml' = yaml /\ decisions' = decisions /\ unlogged' = unlogged
    BY <1>5 DEF RegisterShadow, Op, At, RegistryTypeOK
  <2>2. PICK cmd \in UnderWay, a \in Artifacts :
          /\ Becomes(c, cmd) /\ cmd.pc = "save" /\ cmd.row.action = "shadow"
          /\ cmd.file = Challenged(yaml, a)
    BY <1>5, ShadowStep
  <2>3. Explained(cmd.file)
    BY <1>1, <2>1, <2>2, ChallengedType DEF Working, Explained
  <2>4. HasLast' /\ Working(cmd)'
    BY <1>1, <2>1, <2>2, <2>3, StillExplained DEF Working, Activates, Activations
  <2>5. cmd # None
    BY RegistryAssumption DEF UnderWay
  <2> QED
    BY <1>1, <2>1, <2>2, <2>4, <2>5, SoleStep
<1>6. ASSUME NEW c \in Commands, ActivateChampion(c) PROVE ExplainedInv'
  <2>1. /\ command[c] # None /\ command[c].pc = "trained"
        /\ yaml' = yaml /\ decisions' = decisions /\ unlogged' = unlogged
    BY <1>6 DEF ActivateChampion, Op, At
  <2>2. PICK cmd \in UnderWay, a \in Artifacts :
           /\ Becomes(c, cmd) /\ cmd.pc = "save"
           /\ cmd.row.digest = a /\ cmd.row.before = command[c].before
           /\ cmd.file.champion = a /\ cmd.file.prior = yaml.champion
           /\ cmd.row.action = "retrain"
    BY <1>6, ActivateStep
  <2>3. AgreesWithFile(cmd) /\ Activates(cmd)
    BY <1>1, <2>1, <2>2 DEF Working, AgreesWithFile, Activates, Activations
  <2>4. HasLast' /\ Working(cmd)'
    BY <1>1, <2>1, <2>2, <2>3, StillExplained DEF Working
  <2>5. cmd # None
    BY RegistryAssumption DEF UnderWay
  <2> QED
    BY <1>1, <2>1, <2>2, <2>4, <2>5, SoleStep
<1>7. ASSUME NEW c \in Commands, Promote(c) PROVE ExplainedInv'
  <2>1. /\ command[c] # None /\ command[c].pc = "loaded"
        /\ yaml' = yaml /\ decisions' = decisions /\ unlogged' = unlogged
    BY <1>7 DEF Promote, Op, At
  <2>2. PICK cmd \in UnderWay, a \in Artifacts :
           /\ Becomes(c, cmd) /\ cmd.pc = "save"
           /\ cmd.row.digest = a /\ cmd.row.before = command[c].before
           /\ cmd.file.champion = a /\ cmd.file.prior = command[c].file.champion
           /\ cmd.row.action = "promote"
    BY <1>7, PromoteStep
  <2>3. AgreesWithFile(cmd) /\ Activates(cmd)
    BY <1>1, <2>1, <2>2 DEF Working, AgreesWithFile, Activates, Activations
  <2>4. HasLast' /\ Working(cmd)'
    BY <1>1, <2>1, <2>2, <2>3, StillExplained DEF Working
  <2>5. cmd # None
    BY RegistryAssumption DEF UnderWay
  <2> QED
    BY <1>1, <2>1, <2>2, <2>4, <2>5, SoleStep
<1>8. ASSUME NEW c \in Commands, GatesRefusePromote(c) PROVE ExplainedInv'
  <2>1. /\ command[c] # None /\ command[c].pc = "loaded" /\ Becomes(c, None)
        /\ yaml' = yaml /\ decisions' = decisions /\ unlogged' = unlogged
    BY <1>8 DEF GatesRefusePromote, Op, At, Becomes
  <2> QED
    BY <1>1, <2>1, StillExplained, SoleStep DEF Working
<1>9. ASSUME NEW c \in Commands, Rollback(c) PROVE ExplainedInv'
  <2>1. /\ command[c] # None /\ command[c].pc = "loaded"
        /\ yaml' = yaml /\ decisions' = decisions /\ unlogged' = unlogged
    BY <1>9 DEF Rollback, Op, At
  <2>2. CASE Becomes(c, None)
    BY <1>1, <2>1, <2>2, StillExplained, SoleStep DEF Working
  <2>3. ASSUME NEW cmd \in UnderWay, Becomes(c, cmd), cmd.pc = "save",
               cmd.row.action = "rollback",
               cmd.row.digest = command[c].file.prior,
               cmd.row.before = command[c].file.champion,
               cmd.file.champion = command[c].file.prior,
               cmd.file.prior = command[c].file.champion
        PROVE  ExplainedInv'
    <3>1. AgreesWithFile(cmd) /\ Activates(cmd)
      BY <2>3 DEF AgreesWithFile, Activates, Activations
    <3>2. HasLast' /\ Working(cmd)'
      BY <1>1, <2>1, <2>3, <3>1, StillExplained DEF Working
    <3>3. cmd # None
      BY RegistryAssumption DEF UnderWay
    <3> QED
      BY <1>1, <2>1, <2>3, <3>2, <3>3, SoleStep
  <2> QED
    BY <1>9, <2>2, <2>3, RollbackStep
<1>10. ASSUME NEW c \in Commands, Truncate(c) \/ Fill(c) PROVE ExplainedInv'
  <2>1. /\ command[c] # None /\ decisions' = decisions /\ unlogged' = unlogged
        /\ command[c].file \in RegistryFile
    BY <1>10, Held DEF Truncate, Fill, At
  <2>2. PICK cmd \in UnderWay :
           /\ Becomes(c, cmd) /\ cmd.row = command[c].row /\ cmd.file = command[c].file
           /\ cmd.pc = IF Truncate(c) THEN "write" ELSE "commit"
    BY <1>10, WriteStep DEF Same
  <2>3. HasLast' /\ \A file : Explained(file) => Explained(file)'
    BY <1>1, <2>1, StillExplained
  <2>4. command[c].file # None /\ cmd # None
    BY <2>1, RegistryAssumption DEF UnderWay
  <2>5. CASE Truncate(c)
    <3>1. command[c].pc = "save" /\ yaml' = None /\ cmd.pc = "write"
      BY <2>2, <2>5 DEF Truncate, At
    <3>2. Working(cmd)'
      BY <1>1, <2>1, <2>2, <2>3, <3>1 DEF Working, Activates, AgreesWithFile
    <3> QED
      BY <1>1, <2>1, <2>2, <2>3, <2>4, <3>2, SoleStep
  <2>6. CASE Fill(c) /\ ~Truncate(c)
    <3>1. command[c].pc = "write" /\ yaml' = command[c].file /\ cmd.pc = "commit"
      BY <2>2, <2>6 DEF Fill, At
    <3>2. Working(cmd)'
      BY <1>1, <2>1, <2>2, <2>3, <2>4, <3>1 DEF Working, Activates, AgreesWithFile, Explained
    <3> QED
      BY <1>1, <2>1, <2>2, <2>3, <2>4, <3>2, SoleStep
  <2> QED
    BY <1>10, <2>5, <2>6
<1>11. ASSUME NEW c \in Commands, CommitDecision(c) PROVE ExplainedInv'
  <2>1. /\ command[c] # None /\ command[c].pc = "commit" /\ command[c].row \in DecisionRow
        /\ yaml' = yaml /\ unlogged' = unlogged /\ Becomes(c, None)
        /\ decisions' = Append(decisions, command[c].row)
    BY <1>11, Held DEF CommitDecision, At, UnderWay, Becomes
  <2>2. /\ HasLast'
        /\ Activates(command[c]) => LastActivation' = command[c].row
        /\ ~Activates(command[c]) => LastActivation' = LastActivation
    BY <1>1, <2>1, LastRow DEF RegistryTypeOK, Activates
  <2>3. Explained(yaml)'
    BY <1>1, <2>1, <2>2 DEF Working, AgreesWithFile, Explained
  <2> QED
    BY <1>1, <2>1, <2>2, <2>3, SoleStep
<1>12. ASSUME NEW c \in Commands, Die(c) PROVE ExplainedInv'
  <2>1. /\ command[c] # None /\ Becomes(c, None) /\ yaml' = yaml
        /\ decisions' = decisions /\ unlogged \subseteq unlogged'
        /\ command[c].pc = "commit" /\ Activates(command[c])
             => command[c].file.champion \in unlogged'
    BY <1>12 DEF Die, At, Becomes, Activates
  <2>2. HasLast' /\ (Explained(yaml) => Explained(yaml)')
    BY <1>1, <2>1, StillExplained
  <2>3. command[c].pc \in {"loaded", "trained", "save", "write", "commit"}
    BY <2>1, Held DEF RegistryCommand
  <2>4. yaml' # None => Explained(yaml)'
    BY <1>1, <2>1, <2>2, <2>3 DEF Working, Explained
  <2> QED
    BY <1>1, <2>1, <2>2, <2>4, SoleStep
<1>13. CASE UNCHANGED registryVars
  BY <1>13, StillExplained
     DEF registryVars, ExplainedInv, HasLast, ActivationRows, Working, Explained, LastActivation
<1> QED
  BY <1>2, <1>3, <1>4, <1>5, <1>6, <1>7, <1>8, <1>9, <1>10, <1>11, <1>12, <1>13
     DEF RegistryNext
-----------------------------------------------------------------------------
(* What the registry file names has passed the promotion gates, however    *)
(* retrain, promote and rollback overlap and whichever of them die: the    *)
(* loaded file a promotion keeps as the prior one was itself gated.        *)
ChampionGated == yaml # None => Gated(yaml, passed)

LEMMA InvariantInit == RegistryInit => RegistryTypeOK /\ GatedInv /\ ExplainedInv
<1> SUFFICES ASSUME RegistryInit PROVE RegistryTypeOK /\ GatedInv /\ ExplainedInv
  OBVIOUS
<1>1. /\ yaml.champion = First /\ yaml.prior = None /\ yaml # None
      /\ \A c \in Commands : command[c] = None
  BY TypeInit, FileType, RegistryAssumption DEF RegistryInit
<1>2. ActivationRows = {}
  BY DEF RegistryInit, ActivationRows
<1>3. Explained(yaml)
  BY <1>1, <1>2 DEF Explained, LastActivation, ActivationRows, Decision
<1> QED
  BY <1>1, <1>2, <1>3, TypeInit DEF GatedInv, Gated, ExplainedInv, HasLast

(* ChampionGated: the file never names a champion, and no command is about *)
(* to write one, that is neither the packaged one nor one that the gates   *)
(* of retrain or promote let through.                                      *)
THEOREM GatesComeFirst == RegistrySpec => []ChampionGated
<1>1. RegistryTypeOK /\ GatedInv /\ [RegistryNext]_registryVars => (RegistryTypeOK /\ GatedInv)'
  BY TypeStep, GatedStep
<1>2. GatedInv => ChampionGated
  BY DEF GatedInv, ChampionGated
<1> QED
  BY <1>1, <1>2, InvariantInit, PTL DEF RegistrySpec

(* While commands do not overlap, the decisions in the table account for   *)
(* the champion of the file and for what a rollback would bring back.      *)
THEOREM DecisionsExplainTheFile ==
  ASSUME OneAtATime
  PROVE  RegistrySpec => []DecisionsExplainFile
<1>1. RegistryTypeOK /\ GatedInv /\ ExplainedInv /\ [RegistryNext]_registryVars
        => (RegistryTypeOK /\ GatedInv /\ ExplainedInv)'
  BY TypeStep, GatedStep, ExplainedStep
<1>2. GatedInv /\ ExplainedInv => DecisionsExplainFile
  BY DEF GatedInv, Gated, ExplainedInv, Explained, DecisionsExplainFile
<1> QED
  BY <1>1, <1>2, InvariantInit, PTL DEF RegistrySpec

-----------------------------------------------------------------------------
(* Identity resolution.  A fighter has the name and the birth date of one  *)
(* person, and every id and every bout leads to the fighters of its own.   *)

Born(p) == {None, BornOn[p]}

FighterOK(f) ==
  /\ f = [person |-> f.person, name |-> f.name, dob |-> f.dob]
  /\ f.person \in Persons /\ f.name \in Spellings[f.person] /\ f.dob \in Born(f.person)

IsThePersonOf(F, n, i) == n \in DOMAIN F /\ F[n].person = PersonOf[i]

(* A bout has the two persons of a fight that was listed under its id.     *)
BoutOK(F, b, bout) ==
  \E card \in Listings : \E fight \in card.fights :
    /\ fight.fight = b /\ bout.event = card.event
    /\ IsThePersonOf(F, bout.a, fight.a.id) /\ IsThePersonOf(F, bout.b, fight.b.id)

IdentityInv ==
  /\ \E n \in Nat : DOMAIN fighters = 1 .. n /\ Len(fighters) = n
  /\ \A f \in DOMAIN fighters : FighterOK(fighters[f])
  /\ DOMAIN known = SourceIds
  /\ \A i \in SourceIds : known[i] # None => IsThePersonOf(fighters, known[i], i)
  /\ DOMAIN events = {c.event : c \in Listings}
  /\ \A e \in DOMAIN events : events[e] # None =>
       \E card \in Listings : card.event = e /\ events[e] = card.date
  /\ DOMAIN bouts = {f.fight : f \in AllFights}
  /\ \A b \in DOMAIN bouts : bouts[b] # None => BoutOK(fighters, b, bouts[b])

(* The persons of who is stored never change, whoever comes after them.    *)
Grown ==
  \A f \in DOMAIN fighters : f \in DOMAIN fighters' /\ fighters'[f].person = fighters[f].person

LEMMA BoutsStay ==
  ASSUME IdentityInv, Grown, NEW b \in DOMAIN bouts, bouts[b] # None
  PROVE  BoutOK(fighters', b, bouts[b])
<1>1. BoutOK(fighters, b, bouts[b])
  BY DEF IdentityInv
<1> QED
  BY <1>1 DEF BoutOK, IsThePersonOf, Grown

LEMMA SameBirthIsThePerson ==
  ASSUME IdentityInv, NEW r \in Reports, r.dob # None, NEW f \in SameBirth(r)
  PROVE  IsThePersonOf(fighters, f, r.id)
<1>1. f \in DOMAIN fighters /\ fighters[f].name = r.name /\ fighters[f].dob = r.dob
  BY DEF SameBirth, Named, FighterIds
<1>2. FighterOK(fighters[f])
  BY <1>1 DEF IdentityInv
<1>3. /\ r.id \in SourceIds /\ r.name \in Spellings[PersonOf[r.id]]
      /\ r.dob = BornOn[PersonOf[r.id]] /\ PersonOf[r.id] \in Persons
  BY TruthAssumption DEF Truthful, SpelledRight
<1>4. /\ r.name \in Spellings[fighters[f].person] /\ r.dob = BornOn[fighters[f].person]
      /\ fighters[f].person \in Persons
  BY <1>1, <1>2 DEF FighterOK, Born
<1>5. fighters[f].person = PersonOf[r.id]
  BY <1>3, <1>4, TruthAssumption
<1> QED
  BY <1>1, <1>5 DEF IsThePersonOf

LEMMA ContextIsThePerson ==
  ASSUME IdentityInv, NEW r \in Reports, NEW f \in ContextMatches(r)
  PROVE  IsThePersonOf(fighters, f, r.id)
<1>1. PICK b \in DOMAIN bouts :
        /\ bouts[b] # None /\ f \in {bouts[b].a, bouts[b].b}
        /\ r.opponent # None /\ r.date # None
        /\ events[bouts[b].event] = r.date /\ fighters[f].name = r.name
        /\ \E g \in {bouts[b].a, bouts[b].b} \ {f} : fighters[g].name = r.opponent
  BY DEF ContextMatches
<1>2. PICK card \in Listings : \E fight \in card.fights :
        /\ fight.fight = b /\ bouts[b].event = card.event
        /\ IsThePersonOf(fighters, bouts[b].a, fight.a.id) /\ IsThePersonOf(fighters, bouts[b].b, fight.b.id)
  BY <1>1 DEF IdentityInv, BoutOK
<1>3. PICK fight \in card.fights :
        /\ fight.fight = b /\ bouts[b].event = card.event
        /\ IsThePersonOf(fighters, bouts[b].a, fight.a.id) /\ IsThePersonOf(fighters, bouts[b].b, fight.b.id)
  BY <1>2
<1>4. \A g \in DOMAIN fighters : fighters[g].name \in Spellings[fighters[g].person]
  BY DEF IdentityInv, FighterOK
<1>5. fight \in AllFights
  BY DEF AllFights
<1>6. FightsOnThatDay(r, fight)
  <2>1. bouts[b].event \in DOMAIN events
    BY <1>3 DEF IdentityInv
  <2>2. PICK later \in Listings : later.event = bouts[b].event /\ later.date = r.date
    BY <2>1, <1>1 DEF IdentityInv
  <2> QED
    BY <1>3, <2>2 DEF FightsOnThatDay
<1>7. /\ MayBe(r.name, fight.a) /\ MayBe(r.opponent, fight.b) => PersonOf[fight.a.id] = PersonOf[r.id]
      /\ MayBe(r.name, fight.b) /\ MayBe(r.opponent, fight.a) => PersonOf[fight.b.id] = PersonOf[r.id]
  BY <1>5, <1>6, TruthAssumption
<1>8. CASE f = bouts[b].a
  <2>1. fighters[bouts[b].b].name = r.opponent
    BY <1>1, <1>8
  <2>2. MayBe(r.name, fight.a) /\ MayBe(r.opponent, fight.b)
    BY <1>1, <1>3, <1>4, <1>8, <2>1 DEF IsThePersonOf, MayBe
  <2> QED
    BY <1>3, <1>7, <1>8, <2>2 DEF IsThePersonOf
<1>9. CASE f = bouts[b].b
  <2>1. fighters[bouts[b].a].name = r.opponent
    BY <1>1, <1>9
  <2>2. MayBe(r.name, fight.b) /\ MayBe(r.opponent, fight.a)
    BY <1>1, <1>3, <1>4, <1>9, <2>1 DEF IsThePersonOf, MayBe
  <2> QED
    BY <1>3, <1>7, <1>9, <2>2 DEF IsThePersonOf
<1> QED
  BY <1>1, <1>8, <1>9

(* A report that a rule decides by itself links to the person's fighter,   *)
(* whatever rule that is.                                                  *)
LEMMA LinksAreTrue ==
  ASSUME IdentityInv, NEW r \in Reports, Verdict(r).is = "linked"
  PROVE  IsThePersonOf(fighters, Only(Verdict(r).to), r.id)
<1> DEFINE true(v) == v.is = "linked" => IsThePersonOf(fighters, Only(v.to), r.id)
<1>1. Truthful(r)
  BY TruthAssumption
<1>2. true(ByExactId(r))
  <2>1. Known(r.id) # None => IsThePersonOf(fighters, Known(r.id), r.id)
    BY <1>1 DEF IdentityInv, Known, Truthful, SpelledRight
  <2>2. Only({Known(r.id)}) = Known(r.id)
    BY DEF Only
  <2> QED
    BY <2>1, <2>2 DEF ByExactId, Link, Queue, Undecided
<1>3. true(ByWikidata(r))
  <2>1. r.wiki # None /\ Known(r.wiki) # None => IsThePersonOf(fighters, Known(r.wiki), r.id)
    BY <1>1 DEF IdentityInv, Known, Truthful, IsThePersonOf
  <2>2. Only({Known(r.wiki)}) = Known(r.wiki)
    BY DEF Only
  <2> QED
    BY <2>1, <2>2 DEF ByWikidata, Link, Queue, Undecided
<1>4. true(ByHints(r))
  BY DEF ByHints, Queue, Undecided
<1>5. true(ByBirth(r))
  <2>1. SameBirth(r) # {} => Only(SameBirth(r)) \in SameBirth(r)
    BY DEF Only
  <2>2. r.dob # None /\ SameBirth(r) # {} => IsThePersonOf(fighters, Only(SameBirth(r)), r.id)
    BY <2>1, SameBirthIsThePerson
  <2>3. Only({Only(SameBirth(r))}) = Only(SameBirth(r))
    BY DEF Only
  <2> HIDE DEF true
  <2>4. ByBirth(r).is = "linked" => r.dob # None /\ SameBirth(r) # {} /\ ByBirth(r) = Link(Only(SameBirth(r)))
    BY DEF ByBirth, Queue, Undecided
  <2> QED
    BY <2>2, <2>3, <2>4 DEF Link, true
<1>6. true(ByContext(r))
  <2> DEFINE matches == ContextMatches(r)
  <2>1. matches # {} => Only(matches) \in matches
    BY DEF Only
  <2>2. matches # {} => IsThePersonOf(fighters, Only(matches), r.id)
    BY <2>1, ContextIsThePerson
  <2>3. Only({Only(matches)}) = Only(matches)
    BY DEF Only
  <2>4. ByContext(r) = IF matches = {} THEN Undecided
                       ELSE IF Cardinality(matches) = 1 THEN Link(Only(matches)) ELSE Queue(matches)
    BY Zenon DEF ByContext
  <2> HIDE DEF true, matches
  <2>5. ByContext(r).is = "linked" => matches # {} /\ ByContext(r) = Link(Only(matches))
    BY <2>4 DEF Queue, Undecided
  <2> QED
    BY <2>2, <2>3, <2>5 DEF Link, true
<1>7. true(ByName(r)) /\ ByName(r) # Undecided
  BY DEF ByName, Queue, Create, Undecided
<1> DEFINE rules == <<ByExactId(r), ByWikidata(r), ByHints(r), ByBirth(r), ByContext(r), ByName(r)>>
           Decisive(i) == rules[i] # Undecided /\ \A j \in 1 .. i - 1 : rules[j] = Undecided
<1>8. \A i \in 1 .. 6 : true(rules[i])
  <2> HIDE DEF true
  <2> QED
    BY <1>2, <1>3, <1>4, <1>5, <1>6, <1>7
<1>9. \E i \in 1 .. 6 : Decisive(i)
  <2> DEFINE None1(k) == \A j \in 1 .. k : rules[j] = Undecided
  <2>1. rules[6] # Undecided
    BY <1>7
  <2> HIDE DEF rules
  <2>2. Decisive(1) \/ None1(1)
    OBVIOUS
  <2>3. \A k \in 1 .. 5 : None1(k) => Decisive(k + 1) \/ None1(k + 1)
    <3> SUFFICES ASSUME NEW k \in 1 .. 5, None1(k), rules[k + 1] = Undecided PROVE None1(k + 1)
      OBVIOUS
    <3> QED
      OBVIOUS
  <2>4. ~None1(6)
    BY <2>1
  <2> HIDE DEF Decisive, None1
  <2>5. Decisive(1) \/ Decisive(2) \/ Decisive(3) \/ Decisive(4) \/ Decisive(5) \/ Decisive(6)
    <3>1. /\ None1(1) => Decisive(2) \/ None1(2)
          /\ None1(2) => Decisive(3) \/ None1(3)
          /\ None1(3) => Decisive(4) \/ None1(4)
          /\ None1(4) => Decisive(5) \/ None1(5)
          /\ None1(5) => Decisive(6) \/ None1(6)
      BY <2>3
    <3> QED
      BY <2>2, <2>4, <3>1
  <2> QED
    BY <2>5
<1>10. Verdict(r) = rules[CHOOSE i \in DOMAIN rules : Decisive(i)]
  BY Zenon DEF Verdict
<1>11. DOMAIN rules = 1 .. 6
  OBVIOUS
<1> HIDE DEF rules, Decisive, true
<1>12. \E i \in 1 .. 6 : Verdict(r) = rules[i]
  BY <1>9, <1>10, <1>11
<1> QED
  BY <1>8, <1>12 DEF true

-----------------------------------------------------------------------------
LEMMA IdentityStarts == IdentityInit => IdentityInv
BY DEF IdentityInit, IdentityInv, AllFights

(* What links or creates keeps the invariant if every id that it links is  *)
(* the person's.                                                           *)
LEMMA TrueLinksStay ==
  ASSUME IdentityInv, Grown, UNCHANGED <<events, bouts>>,
         \E n \in Nat : DOMAIN fighters' = 1 .. n /\ Len(fighters') = n,
         \A f \in DOMAIN fighters' : FighterOK(fighters'[f]),
         DOMAIN known' = SourceIds,
         \A i \in SourceIds : known'[i] = known[i] \/ IsThePersonOf(fighters', known'[i], i)
  PROVE  IdentityInv'
<1>1. \A b \in DOMAIN bouts : bouts[b] # None => BoutOK(fighters', b, bouts[b])
  BY BoutsStay
<1>2. \A i \in SourceIds : known[i] # None => IsThePersonOf(fighters', known[i], i)
  BY DEF IdentityInv, IsThePersonOf, Grown
<1> QED
  BY <1>1, <1>2 DEF IdentityInv

LEMMA SeedsStay ==
  ASSUME IdentityInv, NEW s \in Seeds, SeedFighter(s)
  PROVE  IdentityInv'
<1>1. Truthful(s)
  BY TruthAssumption
<1>2. PICK n \in Nat : DOMAIN fighters = 1 .. n /\ Len(fighters) = n
  BY DEF IdentityInv
<1> DEFINE f == Fighter(PersonOf[s.id], s.name, s.dob)
<1>3. /\ fighters' = Append(fighters, f) /\ UNCHANGED <<events, bouts>>
      /\ known' = [i \in SourceIds |-> IF i \in {s.id, s.wiki} THEN Len(fighters) + 1 ELSE known[i]]
  BY DEF SeedFighter
<1>4. FighterOK(f) /\ f.person = PersonOf[s.id]
  BY <1>1, TruthAssumption DEF Fighter, FighterOK, Born, Truthful, SpelledRight
<1> HIDE DEF f
<1>5. /\ DOMAIN fighters' = 1 .. n + 1 /\ Len(fighters') = n + 1 /\ fighters'[n + 1] = f
      /\ \A x \in DOMAIN fighters : fighters'[x] = fighters[x]
  BY <1>2, <1>3
<1>6. Grown
  BY <1>2, <1>5 DEF Grown
<1>7. \A i \in SourceIds : known'[i] = known[i] \/ IsThePersonOf(fighters', known'[i], i)
  <2>1. None \notin SourceIds
    BY TruthAssumption
  <2>2. \A i \in {s.id, s.wiki} \cap SourceIds : PersonOf[i] = PersonOf[s.id]
    BY <1>1, <2>1 DEF Truthful
  <2> QED
    BY <1>2, <1>3, <1>4, <1>5, <2>2 DEF IsThePersonOf
<1>8. \A x \in DOMAIN fighters' : FighterOK(fighters'[x])
  BY <1>2, <1>4, <1>5 DEF IdentityInv
<1> QED
  BY <1>2, <1>3, <1>5, <1>6, <1>7, <1>8, TrueLinksStay

LEMMA ReportsStay ==
  ASSUME IdentityInv, NEW r \in Reports, ResolveReport(r)
  PROVE  IdentityInv'
<1>1. Truthful(r)
  BY TruthAssumption
<1>2. PICK n \in Nat : DOMAIN fighters = 1 .. n /\ Len(fighters) = n
  BY DEF IdentityInv
<1> DEFINE verdict == Verdict(r)
<1>3. CASE verdict.is = "linked" /\ UNCHANGED fighters
           /\ known' = [known EXCEPT ![r.id] = IF @ = None THEN Only(verdict.to) ELSE @]
  <2>1. IsThePersonOf(fighters, Only(verdict.to), r.id)
    BY <1>3, LinksAreTrue
  <2> HIDE DEF verdict
  <2>2. Grown
    BY <1>3 DEF Grown
  <2>3. DOMAIN known' = SourceIds
    BY <1>3 DEF IdentityInv
  <2>4. \A i \in SourceIds : known'[i] = known[i] \/ IsThePersonOf(fighters', known'[i], i)
    BY <1>3, <2>1 DEF IdentityInv
  <2>5. UNCHANGED <<events, bouts>>
    BY DEF ResolveReport
  <2>6. \A x \in DOMAIN fighters' : FighterOK(fighters'[x])
    BY <1>3 DEF IdentityInv
  <2> QED
    BY <1>2, <1>3, <2>2, <2>3, <2>4, <2>5, <2>6, TrueLinksStay
<1>4. CASE /\ fighters' = Append(fighters, Fighter(PersonOf[r.id], r.name, r.dob))
           /\ known' = [i \in SourceIds |->
                IF i = r.id \/ (i = r.wiki /\ known[i] = None) THEN Len(fighters) + 1 ELSE known[i]]
  <2> DEFINE f == Fighter(PersonOf[r.id], r.name, r.dob)
  <2>1. FighterOK(f) /\ f.person = PersonOf[r.id]
    BY <1>1, TruthAssumption DEF Fighter, FighterOK, Born, Truthful, SpelledRight
  <2>2. fighters' = Append(fighters, f)
    BY <1>4
  <2> HIDE DEF f
  <2>3. /\ DOMAIN fighters' = 1 .. n + 1 /\ Len(fighters') = n + 1 /\ fighters'[n + 1] = f
        /\ \A x \in DOMAIN fighters : fighters'[x] = fighters[x]
    BY <1>2, <2>2
  <2>4. Grown
    BY <1>2, <2>3 DEF Grown
  <2>5. \A i \in SourceIds : known'[i] = known[i] \/ IsThePersonOf(fighters', known'[i], i)
    <3>1. None \notin SourceIds
      BY TruthAssumption
    <3>2. \A i \in {r.id, r.wiki} \cap SourceIds : PersonOf[i] = PersonOf[r.id]
      BY <1>1, <3>1 DEF Truthful
    <3> QED
      BY <1>2, <1>4, <2>1, <2>3, <3>2 DEF IsThePersonOf
  <2>6. \A x \in DOMAIN fighters' : FighterOK(fighters'[x])
    BY <1>2, <2>1, <2>3 DEF IdentityInv
  <2>7. UNCHANGED <<events, bouts>>
    BY DEF ResolveReport
  <2>8. DOMAIN known' = SourceIds
    BY <1>4
  <2> QED
    BY <2>3, <2>4, <2>5, <2>6, <2>7, <2>8, TrueLinksStay
<1>5. CASE UNCHANGED <<fighters, known>>
  <2>1. UNCHANGED <<events, bouts>>
    BY DEF ResolveReport
  <2> QED
    BY <1>5, <2>1 DEF IdentityInv
<1> QED
  BY <1>3, <1>4, <1>5 DEF ResolveReport

-----------------------------------------------------------------------------
(* A card.  Its new fighters are counted off, each once.                   *)
LEMMA CountedOff ==
  ASSUME NEW S, IsFiniteSet(S)
  PROVE  /\ SetToSeq(S) \in [1 .. Cardinality(S) -> S] /\ Cardinality(S) \in Nat
         /\ \A x \in S : \E i \in 1 .. Cardinality(S) : SetToSeq(S)[i] = x
<1> DEFINE n == Cardinality(S)
           I == {f \in [1 .. n -> S] : IsInjective(f)}
<1>1. n \in Nat /\ ExistsBijection(1 .. n, S)
  BY FS_CardinalityType
<1>2. PICK g \in [1 .. n -> S] : \A a, b \in 1 .. n : g[a] = g[b] => a = b
  BY <1>1 DEF ExistsBijection, Bijection, Injection, IsInjective
<1>3. IsInjective(g)
  BY <1>2 DEF IsInjective
<1>4. SetToSeq(S) \in [1 .. n -> S] /\ IsInjective(SetToSeq(S))
  BY <1>2, <1>3 DEF SetToSeq
<1> DEFINE f == SetToSeq(S)
<1>5. f \in Injection(1 .. n, S)
  BY <1>4 DEF Injection, IsInjective
<1>6. Cardinality(1 .. n) = n
  BY <1>1, FS_Interval
<1>7. f \in Surjection(1 .. n, S)
  BY <1>5, <1>6, FS_Injection
<1> QED
  BY <1>1, <1>4, <1>7 DEF Surjection

LEMMA NewcomersAreFinite ==
  ASSUME NEW card \in Listings
  PROVE  IsFiniteSet(Newcomers(card))
<1> DEFINE A == {f.a : f \in card.fights}
           B == {f.b : f \in card.fights}
           a == [f \in card.fights |-> f.a]
           b == [f \in card.fights |-> f.b]
<1>1. IsFiniteSet(card.fights)
  BY TruthAssumption
<1>2. a \in Surjection(card.fights, A) /\ b \in Surjection(card.fights, B)
  BY DEF Surjection
<1>3. IsFiniteSet(A) /\ IsFiniteSet(B)
  BY <1>1, <1>2, FS_Surjection
<1>4. IsFiniteSet(A \cup B)
  BY <1>3, FS_Union
<1>5. Newcomers(card) \subseteq A \cup B
  BY DEF Newcomers
<1> QED
  BY <1>4, <1>5, FS_Subset

LEMMA Joined ==
  \A T : \A a, b \in Seq(T) :
    /\ DOMAIN (a \o b) = 1 .. Len(a) + Len(b) /\ Len(a \o b) = Len(a) + Len(b)
    /\ \A i \in 1 .. Len(a) : (a \o b)[i] = a[i]
    /\ \A i \in 1 .. Len(b) : (a \o b)[Len(a) + i] = b[i]
OBVIOUS

(* A card is listed.  Its participants have a fighter each, their persons';*)
(* a fighter that is respelled keeps the name of its person.               *)
LEMMA CardsStay ==
  ASSUME IdentityInv, NEW card \in Listings, PersistCard(card)
  PROVE  IdentityInv'
<1> DEFINE S == Newcomers(card)
           order == SetToSeq(S)
           m == Cardinality(S)
           new == [i \in DOMAIN order |-> Fighter(PersonOf[order[i].id], order[i].name, None)]
           old == [f \in FighterIds |-> [fighters[f] EXCEPT !.name = Respelled(card, f)]]
<1>1. PICK n \in Nat : DOMAIN fighters = 1 .. n /\ Len(fighters) = n
  BY DEF IdentityInv
<1>2. /\ fighters' = old \o new
      /\ known' = [i \in SourceIds |->
           IF \E k \in DOMAIN order : order[k].id = i
           THEN Len(fighters) + (CHOOSE k \in DOMAIN order : order[k].id = i) ELSE known[i]]
      /\ events' = [events EXCEPT ![card.event] = card.date]
      /\ bouts' = [b \in DOMAIN bouts |-> Bout(card, b, known')]
  BY Zenon DEF PersistCard
<1>3. /\ m \in Nat /\ order \in [1 .. m -> S]
      /\ \A x \in S : \E i \in 1 .. m : order[i] = x
  BY NewcomersAreFinite, CountedOff
<1>4. \A x \in S : SpelledRight(x)
  BY TruthAssumption DEF Newcomers, AllFights
<1>5. \A f \in DOMAIN fighters : FighterOK(old[f]) /\ old[f].person = fighters[f].person
  <2> TAKE f \in DOMAIN fighters
  <2> DEFINE talk == {x \in UNION {{t.a, t.b} : t \in card.fights} : Known(x.id) = f}
             said == {x.name : x \in talk}
  <2>1. FighterOK(fighters[f]) /\ f # None
    BY <1>1, TruthAssumption DEF IdentityInv
  <2>2. ASSUME NEW x \in talk PROVE x.name \in Spellings[fighters[f].person]
    <3>1. SpelledRight(x)
      BY TruthAssumption DEF AllFights
    <3>2. fighters[f].person = PersonOf[x.id]
      BY <2>1, <3>1 DEF IdentityInv, IsThePersonOf, Known, SpelledRight
    <3> QED
      BY <3>1, <3>2 DEF SpelledRight
  <2>3. said # {} => Only(said) \in said
    BY DEF Only
  <2>4. \/ Respelled(card, f) = fighters[f].name
        \/ Respelled(card, f) = Only(said) /\ said # {}
    BY DEF Respelled
  <2>5. Respelled(card, f) \in Spellings[fighters[f].person]
    BY <2>1, <2>2, <2>3, <2>4 DEF FighterOK
  <2>6. old[f] = [fighters[f] EXCEPT !.name = Respelled(card, f)]
    BY DEF FighterIds
  <2> HIDE DEF old
  <2> QED
    BY <2>1, <2>5, <2>6 DEF FighterOK
<1> HIDE DEF S, order, m
<1>6. \A i \in 1 .. m : FighterOK(new[i]) /\ new[i].person = PersonOf[order[i].id]
  BY <1>3, <1>4, TruthAssumption DEF Fighter, FighterOK, Born, SpelledRight
<1> DEFINE Fs == {old[f] : f \in 1 .. n} \cup {new[i] : i \in 1 .. m}
<1>7. /\ old \in Seq(Fs) /\ new \in Seq(Fs) /\ Len(old) = n /\ Len(new) = m
  <2>1. DOMAIN order = 1 .. m /\ FighterIds = 1 .. n
    BY <1>1, <1>3 DEF FighterIds
  <2>2. old = [f \in 1 .. n |-> old[f]] /\ new = [i \in 1 .. m |-> new[i]]
    BY <2>1
  <2> HIDE DEF old, new
  <2>3. old \in [1 .. n -> Fs] /\ new \in [1 .. m -> Fs]
    BY <2>2
  <2>4. old \in Seq(Fs) /\ Len(old) = n
    BY <1>1, <2>3
  <2>5. new \in Seq(Fs) /\ Len(new) = m
    BY <1>3, <2>3
  <2> QED
    BY <2>4, <2>5
<1> HIDE DEF old, new, Fs
<1>8. /\ DOMAIN fighters' = 1 .. n + m /\ Len(fighters') = n + m
      /\ \A f \in 1 .. n : fighters'[f] = old[f]
      /\ \A i \in 1 .. m : fighters'[n + i] = new[i]
  <2> DEFINE both == old \o new
  <2>1. /\ DOMAIN both = 1 .. Len(old) + Len(new) /\ Len(both) = Len(old) + Len(new)
        /\ \A i \in 1 .. Len(old) : both[i] = old[i]
        /\ \A i \in 1 .. Len(new) : both[Len(old) + i] = new[i]
    <3>1. old \in Seq(Fs) /\ new \in Seq(Fs)
      BY <1>7
    <3> QED
      BY <3>1, Joined
  <2>2. fighters' = both
    BY <1>2
  <2> HIDE DEF both
  <2> QED
    BY <1>7, <2>1, <2>2
<1>9. Grown
  BY <1>1, <1>3, <1>5, <1>8 DEF Grown
<1>10. \A f \in DOMAIN fighters' : FighterOK(fighters'[f])
  <2> SUFFICES ASSUME NEW f \in 1 .. n + m PROVE FighterOK(fighters'[f])
    BY <1>8
  <2>1. CASE f \in 1 .. n
    BY <2>1, <1>1, <1>5, <1>8
  <2>2. CASE f \notin 1 .. n
    <3>1. f - n \in 1 .. m /\ f = n + (f - n)
      BY <2>2, <1>3
    <3> QED
      BY <3>1, <1>6, <1>8
  <2> QED
    BY <2>1, <2>2
<1>11. DOMAIN order = 1 .. m
  BY <1>3
<1>12. ASSUME NEW i \in SourceIds, \E k \in 1 .. m : order[k].id = i
       PROVE  IsThePersonOf(fighters', known'[i], i)
  <2>1. PICK k \in 1 .. m : order[k].id = i /\ known'[i] = n + k
    BY <1>1, <1>2, <1>11, <1>12
  <2>2. n + k \in 1 .. n + m
    BY <1>1, <1>3
  <2>3. fighters'[n + k].person = PersonOf[i]
    BY <2>1, <1>6, <1>8
  <2> QED
    BY <2>1, <2>2, <2>3, <1>8 DEF IsThePersonOf
<1>13. ASSUME NEW i \in SourceIds, ~\E k \in 1 .. m : order[k].id = i
       PROVE  known'[i] = known[i] /\ (known[i] # None => IsThePersonOf(fighters', known'[i], i))
  BY <1>2, <1>9, <1>11, <1>13 DEF IdentityInv, IsThePersonOf, Grown
<1>14. \A x \in UNION {{f.a, f.b} : f \in card.fights} : IsThePersonOf(fighters', known'[x.id], x.id)
  <2> TAKE x \in UNION {{f.a, f.b} : f \in card.fights}
  <2>1. x.id \in SourceIds
    BY TruthAssumption DEF AllFights, SpelledRight
  <2>2. CASE known[x.id] = None
    <3>1. x \in S
      BY <2>2 DEF S, Newcomers, Known
    <3> QED
      BY <3>1, <2>1, <1>3, <1>12
  <2>3. CASE known[x.id] # None
    BY <2>1, <2>3, <1>12, <1>13
  <2> QED
    BY <2>2, <2>3
<1>15. DOMAIN bouts' = DOMAIN bouts
  BY <1>2
<1>16. ASSUME NEW b \in DOMAIN bouts, bouts'[b] # None PROVE BoutOK(fighters', b, bouts'[b])
  <2>1. bouts'[b] = Bout(card, b, known')
    BY <1>2
  <2>2. CASE bouts[b] # None
    <3>1. bouts'[b] = bouts[b]
      BY <2>1, <2>2 DEF Bout
    <3> QED
      BY <3>1, <2>2, <1>9, BoutsStay
  <2>3. CASE bouts[b] = None
    <3> DEFINE listed == {f \in card.fights : f.fight = b}
               fight == Only(listed)
    <3>1. /\ listed # {}
          /\ bouts'[b] = [event |-> card.event, a |-> known'[fight.a.id], b |-> known'[fight.b.id]]
      BY <1>16, <2>1, <2>3 DEF Bout
    <3>2. fight \in card.fights /\ fight.fight = b
      BY <3>1 DEF Only
    <3> HIDE DEF fight
    <3>3. /\ IsThePersonOf(fighters', known'[fight.a.id], fight.a.id)
          /\ IsThePersonOf(fighters', known'[fight.b.id], fight.b.id)
      BY <1>14, <3>2
    <3> QED
      BY <3>1, <3>2, <3>3 DEF BoutOK
  <2> QED
    BY <2>2, <2>3
<1>17. /\ DOMAIN events' = {c.event : c \in Listings}
       /\ \A e \in DOMAIN events' : events'[e] # None =>
            \E c \in Listings : c.event = e /\ events'[e] = c.date
  BY <1>2 DEF IdentityInv
<1>18. DOMAIN known' = SourceIds
  BY <1>2
<1> QED
  BY <1>3, <1>8, <1>10, <1>12, <1>13, <1>15, <1>16, <1>17, <1>18 DEF IdentityInv

LEMMA IdentityInvariant == IdentitySpec => []IdentityInv
<1>1. IdentityInit => IdentityInv
  BY IdentityStarts
<1>2. IdentityInv /\ [IdentityNext]_identityVars => IdentityInv'
  <2> SUFFICES ASSUME IdentityInv, [IdentityNext]_identityVars PROVE IdentityInv'
    OBVIOUS
  <2>1. CASE \E s \in Seeds : SeedFighter(s)
    BY <2>1, SeedsStay
  <2>2. CASE \E r \in Reports : ResolveReport(r)
    BY <2>2, ReportsStay
  <2>3. CASE Discover
    BY <2>3, CardsStay DEF Discover
  <2>4. CASE UNCHANGED identityVars
    BY <2>4 DEF identityVars, IdentityInv
  <2> QED
    BY <2>1, <2>2, <2>3, <2>4 DEF IdentityNext
<1> QED
  BY <1>1, <1>2, PTL DEF IdentitySpec

(* No id of one person is ever linked to a fighter that was created for    *)
(* another, and no bout is between others than the persons of its card, in *)
(* whatever order true reports come: for any persons, spellings and cards. *)
THEOREM NobodyIsConflated == IdentitySpec => []NeverConflates
<1>1. IdentityInv => NeverConflates
  <2> SUFFICES ASSUME IdentityInv PROVE NeverConflates
    OBVIOUS
  <2>1. \A i \in SourceIds : Known(i) # None => fighters[Known(i)].person = PersonOf[i]
    BY DEF IdentityInv, Known, IsThePersonOf
  <2>2. ASSUME NEW card \in Listings, NEW fight \in card.fights, Cleared(fight.fight),
               fight.fight \in DOMAIN bouts
        PROVE  /\ fighters[bouts[fight.fight].a].person = PersonOf[fight.a.id]
               /\ fighters[bouts[fight.fight].b].person = PersonOf[fight.b.id]
    <3> DEFINE b == fight.fight
    <3>1. PICK c \in Listings : \E f \in c.fights :
            /\ f.fight = b
            /\ IsThePersonOf(fighters, bouts[b].a, f.a.id) /\ IsThePersonOf(fighters, bouts[b].b, f.b.id)
      BY <2>2 DEF IdentityInv, BoutOK, Cleared
    <3>2. PICK f \in c.fights :
            /\ f.fight = b
            /\ IsThePersonOf(fighters, bouts[b].a, f.a.id) /\ IsThePersonOf(fighters, bouts[b].b, f.b.id)
      BY <3>1
    <3>3. f \in AllFights /\ fight \in AllFights
      BY DEF AllFights
    <3>4. PersonOf[f.a.id] = PersonOf[fight.a.id] /\ PersonOf[f.b.id] = PersonOf[fight.b.id]
      BY <3>2, <3>3, TruthAssumption
    <3> QED
      BY <3>2, <3>4 DEF IsThePersonOf
  <2>3. DOMAIN bouts = {f.fight : f \in AllFights}
    BY DEF IdentityInv
  <2>4. \A card \in Listings : \A fight \in card.fights : fight.fight \in DOMAIN bouts
    BY <2>3 DEF AllFights
  <2> QED
    BY <2>1, <2>2, <2>4 DEF NeverConflates
<1> QED
  BY <1>1, IdentityInvariant, PTL

-----------------------------------------------------------------------------
(* The audits.  Everything that a fetcher holds is of this kind.           *)
Pages == {None} \cup UNION {{answer.page : answer \in Answers[u]} : u \in Urls}
Entries == [Urls -> Pages]
Sites == {"robots"} \cup {answer.target.url : answer \in RobotsAnswers}

Asked == {"asks", "stores", "loads", "opens", "writes", "replaces"}
Marks == {"present", "schema_drift", "probed", "blocked", "unresolved", "missing"}
AuditRows == Seq([is : Marks, page : Pages])

FetchStates ==
  [pc : Asked \cup {"idle", "robots", "next", "done", "dead"}, visited : SUBSET Sites,
   at : Nat, attempt : Nat, page : Pages, copy : Entries, handle : Inodes \cup {None},
   blocked : BOOLEAN, rows : AuditRows]

FetchTypeOK ==
  /\ index \in Inodes \cup {None} /\ tmp \in Inodes \cup {None}
  /\ data \in [Inodes -> Entries \cup {Unreadable}]
  /\ fetch \in [Fetchers -> FetchStates]

(* What the host served for an URL and somebody stored.                    *)
Stored(entries, B, S) ==
  \A u \in Urls : entries[u] # None => <<u, entries[u]>> \in S /\ entries[u] \in B

InTurn(c, f) == f.at \in 1 .. Len(Todo[c]) /\ Todo[c][f.at].url \in Urls

FetcherOK(c, f, B, S) ==
  /\ f.at > 0 /\ Len(f.rows) = f.at - 1
  /\ f.pc \in Asked => InTurn(c, f)
  /\ f.pc \in Asked \ {"asks"} => f.page # None /\ <<Todo[c][f.at].url, f.page>> \in S
  /\ f.pc \in Asked \ {"asks", "stores"} => f.page \in B
  /\ f.pc \in {"opens", "writes", "replaces"} => Stored(f.copy, B, S)
  /\ \A i \in 1 .. Len(f.rows) : f.rows[i].is = "present" =>
       /\ <<Todo[c][i].url, f.rows[i].page>> \in S
       /\ Todo[c][i].kind = "bout" => f.rows[i].page.of = Todo[c][i].url

FetchInv ==
  /\ FetchTypeOK
  /\ \A i \in Inodes : data[i] # Unreadable => Stored(data[i], blobs, served)
  /\ \A c \in Fetchers : FetcherOK(c, fetch[c], blobs, served)

LEMMA InodesAreNat == Cardinality(Fetchers) \in Nat /\ Inodes \subseteq Nat /\ None \notin Inodes
<1>1. Cardinality(Fetchers) \in Nat
  BY FetchAssumption, FS_CardinalityType
<1> QED
  BY <1>1, FetchAssumption DEF Inodes

(* While nobody has the temporary name, an inode is free for it.           *)
LEMMA SomeInodeIsFree ==
  ASSUME FetchTypeOK
  PROVE  \E i \in Inodes : i \notin {index, None} \cup {fetch[d].handle : d \in Fetchers}
<1> DEFINE H == {fetch[d].handle : d \in Fetchers}
           h == [d \in Fetchers |-> fetch[d].handle]
           n == Cardinality(Fetchers)
<1>1. h \in Surjection(Fetchers, H)
  BY DEF Surjection
<1>2. IsFiniteSet(H) /\ Cardinality(H) <= n
  BY <1>1, FetchAssumption, FS_Surjection
<1>3. Cardinality(H) \in Nat /\ n \in Nat
  BY <1>2, FetchAssumption, FS_CardinalityType
<1>4. IsFiniteSet(H \cup {index}) /\ Cardinality(H \cup {index}) \in {Cardinality(H), Cardinality(H) + 1}
  BY <1>2, FS_AddElement
<1>5. Cardinality(Inodes) = n + 2
  BY <1>3, FS_Interval DEF Inodes
<1>6. ~(Inodes \subseteq H \cup {index})
  <2> HIDE DEF H, n
  <2>1. Inodes \in SUBSET (H \cup {index}) => Cardinality(Inodes) <= Cardinality(H \cup {index})
    BY <1>4, FS_Subset
  <2> QED
    BY <2>1, <1>2, <1>3, <1>4, <1>5
<1> QED
  BY <1>6, InodesAreNat

-----------------------------------------------------------------------------
LEMMA StoredGrows ==
  ASSUME NEW B, NEW S, NEW BB, NEW SS, B \subseteq BB, S \subseteq SS, NEW e, Stored(e, B, S)
  PROVE  Stored(e, BB, SS)
BY DEF Stored

LEMMA FetcherGrows ==
  ASSUME NEW B, NEW S, NEW BB, NEW SS, B \subseteq BB, S \subseteq SS,
         NEW c \in Fetchers, NEW f, FetcherOK(c, f, B, S)
  PROVE  FetcherOK(c, f, BB, SS)
<1>1. Stored(f.copy, B, S) => Stored(f.copy, BB, SS)
  BY StoredGrows
<1> QED
  BY <1>1 DEF FetcherOK

(* What a step of one fetcher has to show.                                 *)
LEMMA OneFetcher ==
  ASSUME FetchInv, NEW c \in Fetchers, NEW f \in FetchStates, To(c, f),
         index' \in Inodes \cup {None}, tmp' \in Inodes \cup {None},
         data' \in [Inodes -> Entries \cup {Unreadable}],
         blobs \subseteq blobs', served \subseteq served',
         \A i \in Inodes : data'[i] # Unreadable => data'[i] = data[i] \/ Stored(data'[i], blobs', served'),
         FetcherOK(c, f, blobs', served')
  PROVE  FetchInv'
<1>1. fetch' \in [Fetchers -> FetchStates]
  BY DEF To, FetchInv, FetchTypeOK
<1>2. \A i \in Inodes : data'[i] # Unreadable => Stored(data'[i], blobs', served')
  BY StoredGrows DEF FetchInv
<1>3. \A d \in Fetchers : FetcherOK(d, fetch'[d], blobs', served')
  <2> TAKE d \in Fetchers
  <2>1. fetch'[d] = IF d = c THEN f ELSE fetch[d]
    BY DEF To, FetchInv, FetchTypeOK
  <2>2. FetcherOK(d, fetch[d], blobs', served')
    BY FetcherGrows DEF FetchInv
  <2> QED
    BY <2>1, <2>2
<1> QED
  BY <1>1, <1>2, <1>3 DEF FetchInv, FetchTypeOK

(* A row of the item that is in turn, or a probe's first row.              *)
LEMMA RowsStay ==
  ASSUME FetchInv, NEW c \in Fetchers, NEW status \in Marks, NEW page \in Pages,
         status = "present" =>
           /\ <<Item(c).url, page>> \in served
           /\ Item(c).kind = "bout" => page.of = Item(c).url
  PROVE  Row(c, status, page) \in FetchStates /\ FetcherOK(c, Row(c, status, page), blobs, served)
<1> DEFINE f == fetch[c]
           row == [is |-> status, page |-> page]
           rows == Append(f.rows, row)
<1>1. f \in FetchStates /\ FetcherOK(c, f, blobs, served)
  BY DEF FetchInv, FetchTypeOK
<1>2. /\ rows \in AuditRows /\ Len(rows) = f.at /\ rows[f.at] = row
      /\ \A i \in 1 .. f.at - 1 : rows[i] = f.rows[i]
  BY <1>1 DEF FetchStates, FetcherOK, AuditRows
<1>3. NoEntries \in Entries /\ None \in Pages
  BY DEF NoEntries, Entries, Pages
<1> HIDE DEF rows
<1>4. Row(c, status, page) = [f EXCEPT !.pc = "next", !.at = @ + 1, !.rows = rows,
                                !.page = None, !.copy = NoEntries, !.handle = None, !.attempt = 0]
  BY DEF Row, rows
<1>5. Row(c, status, page) \in FetchStates
  <2> DEFINE moved == [f EXCEPT !.pc = "next", !.at = @ + 1, !.rows = rows]
             bare == [moved EXCEPT !.page = None, !.copy = NoEntries]
  <2>0. Row(c, status, page) = [bare EXCEPT !.handle = None, !.attempt = 0]
    BY <1>1, <1>4 DEF FetchStates
  <2> HIDE DEF f
  <2>1. f.at + 1 \in Nat
    BY <1>1 DEF FetchStates
  <2>2. moved \in FetchStates
    BY <1>1, <1>2, <2>1 DEF FetchStates
  <2> HIDE DEF moved
  <2>3. bare \in FetchStates
    BY <1>3, <2>2 DEF FetchStates
  <2> HIDE DEF bare
  <2>4. [bare EXCEPT !.handle = None, !.attempt = 0] \in FetchStates
    BY <2>3 DEF FetchStates
  <2> QED
    BY <2>0, <2>4
<1> DEFINE g == Row(c, status, page)
<1>6. g.pc = "next" /\ g.at = f.at + 1 /\ g.rows = rows
  BY <1>1, <1>4 DEF FetchStates
<1> HIDE DEF g
<1>7. \A i \in 1 .. Len(rows) : rows[i].is = "present" =>
        /\ <<Todo[c][i].url, rows[i].page>> \in served
        /\ Todo[c][i].kind = "bout" => rows[i].page.of = Todo[c][i].url
  <2> SUFFICES ASSUME NEW i \in 1 .. Len(rows), rows[i].is = "present"
               PROVE  /\ <<Todo[c][i].url, rows[i].page>> \in served
                      /\ Todo[c][i].kind = "bout" => rows[i].page.of = Todo[c][i].url
    OBVIOUS
  <2>1. CASE i = f.at
    BY <2>1, <1>2 DEF Item
  <2>2. CASE i # f.at
    <3>1. i \in 1 .. Len(f.rows) /\ rows[i] = f.rows[i]
      BY <2>2, <1>1, <1>2 DEF FetcherOK, FetchStates
    <3> QED
      BY <3>1, <1>1 DEF FetcherOK
  <2> QED
    BY <2>1, <2>2
<1>8. FetcherOK(c, g, blobs, served)
  BY <1>1, <1>2, <1>6, <1>7 DEF FetcherOK, FetchStates, Asked
<1> QED
  BY <1>5, <1>8 DEF g

(* What a read of the index finds was served and is there.                 *)
LEMMA IndexIsStored ==
  ASSUME FetchInv
  PROVE  LoadIndex \in Entries /\ Stored(LoadIndex, blobs, served)
<1>1. NoEntries \in Entries /\ Stored(NoEntries, blobs, served)
  BY DEF NoEntries, Entries, Pages, Stored
<1> QED
  BY <1>1 DEF LoadIndex, FetchInv, FetchTypeOK

(* A page that classifies as present is the page of its item.              *)
LEMMA PresentIsTheBouts ==
  ASSUME NEW item, NEW page, ClassifyPage(item, page) = "present"
  PROVE  item.kind = "bout" => page.of = item.url
BY DEF ClassifyPage, ClassifyFightPage

LEMMA ClassesAreMarks ==
  ASSUME NEW item, NEW page
  PROVE  ClassifyPage(item, page) \in Marks
BY DEF ClassifyPage, ClassifyFightPage, ClassifyEventPage, Marks

-----------------------------------------------------------------------------
(* A step that leaves the cache and what was served alone.                 *)
LEMMA OnlyTheFetcher ==
  ASSUME FetchInv, NEW c \in Fetchers, NEW f \in FetchStates, To(c, f), UNCHANGED <<cacheVars, served>>,
         FetcherOK(c, f, blobs, served)
  PROVE  FetchInv'
<1>1. /\ index' \in Inodes \cup {None} /\ tmp' \in Inodes \cup {None}
      /\ data' \in [Inodes -> Entries \cup {Unreadable}]
      /\ \A i \in Inodes : data'[i] = data[i]
      /\ blobs' = blobs /\ served' = served
  BY DEF cacheVars, FetchInv, FetchTypeOK
<1> QED
  BY <1>1, OneFetcher

LEMMA RobotsStay ==
  ASSUME FetchInv, NEW c \in Fetchers, NEW answer \in RobotsAnswers,
         RobotsRedirected(c, answer) \/ RobotsAnswered(c, answer)
  PROVE  FetchInv'
<1> DEFINE probed == Row(c, "probed", None)
<1>1. probed \in FetchStates /\ FetcherOK(c, probed, blobs, served)
  BY RowsStay DEF Pages, Marks
<1>2. fetch[c] \in FetchStates /\ FetcherOK(c, fetch[c], blobs, served) /\ fetch[c].pc = "robots"
  BY DEF FetchInv, FetchTypeOK, RobotsRedirected, RobotsAnswered
<1> HIDE DEF probed
<1>3. PICK f \in {[fetch[c] EXCEPT !.visited = @ \cup {answer.target.url}], [probed EXCEPT !.visited = {}],
                  [[fetch[c] EXCEPT !.pc = "next"] EXCEPT !.visited = {}]} :
        To(c, f) /\ UNCHANGED <<cacheVars, served>>
  BY DEF RobotsRedirected, RobotsAnswered, probed
<1>4. f \in FetchStates
  <2>1. CASE f = [fetch[c] EXCEPT !.visited = @ \cup {answer.target.url}]
    <3>1. fetch[c].visited \cup {answer.target.url} \in SUBSET Sites
      BY <1>2 DEF FetchStates, Sites
    <3> QED
      BY <1>2, <2>1, <3>1 DEF FetchStates
  <2>2. CASE f = [probed EXCEPT !.visited = {}]
    BY <1>1, <2>2 DEF FetchStates
  <2>3. CASE f = [[fetch[c] EXCEPT !.pc = "next"] EXCEPT !.visited = {}]
    BY <1>2, <2>3 DEF FetchStates
  <2> QED
    BY <1>3, <2>1, <2>2, <2>3
<1>5. FetcherOK(c, f, blobs, served)
  <2>1. CASE f = [probed EXCEPT !.visited = {}]
    BY <2>1, <1>1 DEF FetcherOK, FetchStates, InTurn
  <2>2. CASE f # [probed EXCEPT !.visited = {}]
    <3>1. f.pc \notin Asked /\ f.at = fetch[c].at /\ f.rows = fetch[c].rows
      BY <2>2, <1>2, <1>3 DEF FetchStates, Asked
    <3> QED
      BY <3>1, <1>2 DEF FetcherOK, Asked
  <2> QED
    BY <2>1, <2>2
<1> QED
  BY <1>3, <1>4, <1>5, OnlyTheFetcher

(* The steps that write a row at once or only turn to the next one.        *)
LEMMA PlainStepsStay ==
  ASSUME FetchInv, NEW c \in Fetchers,
         BeginAudit(c) \/ SkipItem(c) \/ GetCached(c) \/ GetUncached(c) \/ EndAudit(c) \/ KillFetcher(c)
  PROVE  FetchInv'
<1>1. fetch[c] \in FetchStates /\ FetcherOK(c, fetch[c], blobs, served)
  BY DEF FetchInv, FetchTypeOK
<1>2. ASSUME NEW f \in FetchStates, To(c, f), UNCHANGED <<cacheVars, served>>,
             f.pc \notin Asked, f.at = fetch[c].at, f.rows = fetch[c].rows
      PROVE  FetchInv'
  <2>1. FetcherOK(c, f, blobs, served)
    BY <1>1, <1>2 DEF FetcherOK, Asked
  <2> QED
    BY <1>2, <2>1, OnlyTheFetcher
<1>3. CASE BeginAudit(c)
  <2> DEFINE f == [fetch[c] EXCEPT !.pc = "robots", !.visited = {"robots"}]
  <2>1. f \in FetchStates /\ f.pc = "robots" /\ f.at = fetch[c].at /\ f.rows = fetch[c].rows
    BY <1>1 DEF FetchStates, Sites
  <2>2. To(c, f) /\ UNCHANGED <<cacheVars, served>>
    BY <1>3 DEF BeginAudit
  <2> HIDE DEF f
  <2> QED
    BY <2>1, <2>2, <1>2 DEF Asked
<1>4. CASE SkipItem(c)
  <2>1. PICK status \in {"blocked", "unresolved"} : To(c, Row(c, status, None)) /\ UNCHANGED <<cacheVars, served>>
    BY <1>4 DEF SkipItem
  <2>2. Row(c, status, None) \in FetchStates /\ FetcherOK(c, Row(c, status, None), blobs, served)
    BY RowsStay DEF Pages, Marks
  <2> QED
    BY <2>1, <2>2, OnlyTheFetcher
<1>5. CASE GetCached(c)
  <2> DEFINE page == ReadUrlCache(Item(c).url)
             status == ClassifyPage(Item(c), page)
  <2>1. fetch[c].at \in 1 .. Len(Todo[c]) /\ Item(c).url # None /\ page # None
    BY <1>1, <1>5 DEF GetCached, WillGet, FetcherOK, FetchStates
  <2>2. Item(c).url \in Urls
    BY <2>1, FetchAssumption DEF Item
  <2>3. page = LoadIndex[Item(c).url]
    BY <2>1 DEF ReadUrlCache
  <2>4. page \in Pages /\ <<Item(c).url, page>> \in served
    BY <2>1, <2>2, <2>3, IndexIsStored DEF Stored, Entries
  <2>5. To(c, Row(c, status, page)) /\ UNCHANGED <<cacheVars, served>>
    BY <1>5 DEF GetCached
  <2> HIDE DEF page
  <2>6. status \in Marks /\ (status = "present" /\ Item(c).kind = "bout" => page.of = Item(c).url)
    BY ClassesAreMarks, PresentIsTheBouts
  <2> HIDE DEF status
  <2>7. Row(c, status, page) \in FetchStates /\ FetcherOK(c, Row(c, status, page), blobs, served)
    BY <2>4, <2>6, RowsStay
  <2> QED
    BY <2>5, <2>7, OnlyTheFetcher
<1>6. CASE GetUncached(c)
  <2> DEFINE f == [fetch[c] EXCEPT !.pc = "asks"]
  <2>1. fetch[c].at \in 1 .. Len(Todo[c]) /\ Item(c).url # None
    BY <1>1, <1>6 DEF GetUncached, WillGet, FetcherOK, FetchStates
  <2>2. Item(c).url \in Urls
    BY <2>1, FetchAssumption DEF Item
  <2>3. f \in FetchStates /\ f.pc = "asks" /\ f.at = fetch[c].at /\ f.rows = fetch[c].rows
    BY <1>1 DEF FetchStates, Asked
  <2>4. To(c, f) /\ UNCHANGED <<cacheVars, served>>
    BY <1>6 DEF GetUncached
  <2> HIDE DEF f
  <2>5. FetcherOK(c, f, blobs, served)
    BY <1>1, <2>1, <2>2, <2>3 DEF FetcherOK, InTurn, Item, Asked
  <2> QED
    BY <2>3, <2>4, <2>5, OnlyTheFetcher
<1>7. CASE EndAudit(c)
  <2> DEFINE f == [fetch[c] EXCEPT !.pc = "done"]
  <2>1. f \in FetchStates /\ f.pc = "done" /\ f.at = fetch[c].at /\ f.rows = fetch[c].rows
    BY <1>1 DEF FetchStates
  <2>2. To(c, f) /\ UNCHANGED <<cacheVars, served>>
    BY <1>7 DEF EndAudit
  <2> HIDE DEF f
  <2> QED
    BY <2>1, <2>2, <1>2 DEF Asked
<1>8. CASE KillFetcher(c)
  <2> DEFINE f == [fetch[c] EXCEPT !.pc = "dead", !.handle = None, !.page = None, !.copy = NoEntries]
  <2>1. f \in FetchStates /\ f.pc = "dead" /\ f.at = fetch[c].at /\ f.rows = fetch[c].rows
    BY <1>1 DEF FetchStates, NoEntries, Entries, Pages
  <2>2. To(c, f) /\ UNCHANGED <<cacheVars, served>>
    BY <1>8 DEF KillFetcher
  <2> HIDE DEF f
  <2> QED
    BY <2>1, <2>2, <1>2 DEF Asked
<1> QED
  BY <1>3, <1>4, <1>5, <1>6, <1>7, <1>8

(* A failure: a row, or the end of a probe.                                *)
LEMMA FailedStays ==
  ASSUME FetchInv, NEW c \in Fetchers, NEW status \in {"unresolved", "missing"}
  PROVE  Failed(c, status) \in FetchStates /\ FetcherOK(c, Failed(c, status), blobs, served)
<1> DEFINE f == [fetch[c] EXCEPT !.pc = "dead"]
<1>1. Row(c, status, None) \in FetchStates /\ FetcherOK(c, Row(c, status, None), blobs, served)
  BY RowsStay DEF Pages, Marks
<1>2. fetch[c] \in FetchStates /\ FetcherOK(c, fetch[c], blobs, served)
  BY DEF FetchInv, FetchTypeOK
<1>3. f \in FetchStates /\ f.pc = "dead" /\ f.at = fetch[c].at /\ f.rows = fetch[c].rows
  BY <1>2 DEF FetchStates
<1>4. Failed(c, status) \in {f, Row(c, status, None)}
  BY DEF Failed
<1> HIDE DEF f
<1>5. FetcherOK(c, f, blobs, served)
  BY <1>2, <1>3 DEF FetcherOK, Asked
<1> QED
  BY <1>1, <1>3, <1>4, <1>5

LEMMA AnswersStay ==
  ASSUME FetchInv, NEW c \in Fetchers, fetch[c].pc = "asks",
         NEW answer \in Answers[Item(c).url], PageAnswered(c, answer)
  PROVE  FetchInv'
<1> DEFINE asked == fetch[c]
<1>1. asked \in FetchStates /\ FetcherOK(c, asked, blobs, served) /\ InTurn(c, asked)
  BY DEF FetchInv, FetchTypeOK, FetcherOK, Asked
<1>2. Item(c).url \in Urls
  BY <1>1 DEF InTurn, Item
<1>3. answer.page \in Pages
  BY <1>2 DEF Pages
<1> DEFINE put == [asked EXCEPT !.pc = "stores", !.page = answer.page]
           again == [asked EXCEPT !.attempt = @ + 1]
           refused == [Row(c, "blocked", None) EXCEPT !.blocked = TRUE]
<1>4. put \in FetchStates /\ again \in FetchStates
  <2> HIDE DEF asked
  <2>1. put \in FetchStates
    BY <1>1, <1>3 DEF FetchStates, Asked
  <2>2. again \in FetchStates
    BY <1>1 DEF FetchStates
  <2> QED
    BY <2>1, <2>2
<1>5. /\ put.pc = "stores" /\ put.at = asked.at /\ put.rows = asked.rows /\ put.page = answer.page
      /\ again.pc = "asks" /\ again.at = asked.at /\ again.rows = asked.rows
  BY <1>1 DEF FetchStates
<1>6. \A status \in {"blocked", "probed"} :
        Row(c, status, None) \in FetchStates /\ FetcherOK(c, Row(c, status, None), blobs, served)
  BY RowsStay DEF Pages, Marks
<1>7. refused \in FetchStates /\ FetcherOK(c, refused, blobs, served)
  <2> DEFINE row == Row(c, "blocked", None)
  <2>1. row \in FetchStates /\ FetcherOK(c, row, blobs, served)
    BY <1>6
  <2> HIDE DEF row
  <2>2. refused = [row EXCEPT !.blocked = TRUE]
    BY DEF row
  <2> QED
    BY <2>1, <2>2 DEF FetchStates, FetcherOK, InTurn
<1>8. HostBlocks(c) \in FetchStates /\ FetcherOK(c, HostBlocks(c), blobs, served)
  BY <1>6, <1>7 DEF HostBlocks
<1>9. Failed(c, "unresolved") \in FetchStates /\ FetcherOK(c, Failed(c, "unresolved"), blobs, served)
  BY FailedStays
<1>10. FetcherOK(c, again, blobs, served)
  <2> HIDE DEF again
  <2> QED
    BY <1>1, <1>5 DEF FetcherOK, Asked, InTurn
<1>11. served \subseteq served' /\ UNCHANGED <<index, tmp, data, blobs>>
  BY DEF PageAnswered, cacheVars
<1>12. ASSUME answer.status = 200, ~BlockSignal(answer) PROVE FetcherOK(c, put, blobs, served')
  <2>1. answer.page # None /\ answer.page.shape # "wall"
    BY <1>2, <1>12, FetchAssumption DEF BlockSignal
  <2>2. <<Item(c).url, answer.page>> \in served'
    BY <1>12, <2>1 DEF PageAnswered
  <2>3. FetcherOK(c, asked, blobs, served')
    BY <1>1, <1>11, FetcherGrows
  <2> HIDE DEF put
  <2> QED
    BY <1>1, <1>5, <2>1, <2>2, <2>3 DEF FetcherOK, Asked, InTurn, Item
<1> HIDE DEF put, again
<1>13. PICK f \in FetchStates : To(c, f) /\ FetcherOK(c, f, blobs, served')
  <2>1. \A f : FetcherOK(c, f, blobs, served) => FetcherOK(c, f, blobs, served')
    BY <1>11, FetcherGrows
  <2>2. To(c, CASE answer.status \in 300 .. 399 -> Failed(c, "unresolved")
                [] Retried(c, answer) -> again
                [] answer.status = 200 /\ ~BlockSignal(answer) -> put
                [] OTHER -> HostBlocks(c))
    BY DEF PageAnswered, put, again
  <2> QED
    BY <1>4, <1>8, <1>9, <1>10, <1>12, <2>1, <2>2
<1> QED
  <2>1. index' \in Inodes \cup {None} /\ tmp' \in Inodes \cup {None} /\ data' \in [Inodes -> Entries \cup {Unreadable}]
    BY <1>11 DEF FetchInv, FetchTypeOK
  <2> QED
    BY <1>11, <1>13, <2>1, OneFetcher

-----------------------------------------------------------------------------
(* The way of a page into the cache.                                       *)
LEMMA StoresStay ==
  ASSUME FetchInv, NEW c \in Fetchers, StorePage(c) \/ ReadIndex(c)
  PROVE  FetchInv'
<1>1. fetch[c] \in FetchStates /\ FetcherOK(c, fetch[c], blobs, served)
  BY DEF FetchInv, FetchTypeOK
<1>2. fetch[c].pc \in {"stores", "loads"} /\ fetch[c].pc \in Asked
  BY DEF StorePage, ReadIndex, Asked
<1>3. /\ InTurn(c, fetch[c]) /\ fetch[c].page # None /\ <<Item(c).url, fetch[c].page>> \in served
      /\ Item(c).url \in Urls /\ fetch[c].page \in Pages
  BY <1>1, <1>2 DEF FetcherOK, InTurn, Item, FetchStates
<1>4. CASE StorePage(c)
  <2> DEFINE f == [fetch[c] EXCEPT !.pc = "loads"]
  <2>1. f \in FetchStates /\ f.pc = "loads" /\ f.at = fetch[c].at /\ f.rows = fetch[c].rows /\ f.page = fetch[c].page
    BY <1>1 DEF FetchStates, Asked
  <2>2. To(c, f) /\ UNCHANGED <<index, tmp, data, served>> /\ blobs' = blobs \cup {fetch[c].page}
    BY <1>4 DEF StorePage
  <2>3. FetcherOK(c, fetch[c], blobs', served)
    BY <1>1, <2>2, FetcherGrows
  <2> HIDE DEF f
  <2>4. FetcherOK(c, f, blobs', served)
    BY <1>3, <2>1, <2>2, <2>3 DEF FetcherOK, Asked, InTurn, Item
  <2>5. index' \in Inodes \cup {None} /\ tmp' \in Inodes \cup {None} /\ data' \in [Inodes -> Entries \cup {Unreadable}]
    BY <2>2 DEF FetchInv, FetchTypeOK
  <2> QED
    BY <2>1, <2>2, <2>4, <2>5, OneFetcher
<1>5. CASE ReadIndex(c)
  <2> DEFINE copy == [LoadIndex EXCEPT ![Item(c).url] = fetch[c].page]
             f == [fetch[c] EXCEPT !.pc = "opens", !.copy = copy]
  <2>1. To(c, f) /\ UNCHANGED <<cacheVars, served>> /\ fetch[c].pc = "loads"
    BY <1>5 DEF ReadIndex
  <2>2. fetch[c].page \in blobs
    BY <1>1, <2>1 DEF FetcherOK, Asked
  <2>3. copy \in Entries /\ Stored(copy, blobs, served)
    BY <1>3, <2>2, IndexIsStored DEF Entries, Stored
  <2> HIDE DEF copy
  <2>4. f \in FetchStates /\ f.pc = "opens" /\ f.at = fetch[c].at /\ f.rows = fetch[c].rows /\ f.page = fetch[c].page /\ f.copy = copy
    BY <1>1, <2>3 DEF FetchStates, Asked
  <2> HIDE DEF f
  <2>5. FetcherOK(c, f, blobs, served)
    BY <1>1, <1>3, <2>2, <2>3, <2>4 DEF FetcherOK, Asked, InTurn, Item
  <2> QED
    BY <2>1, <2>4, <2>5, OnlyTheFetcher
<1> QED
  BY <1>4, <1>5

(* Two fetchers may hold one inode, and each writes what it read and added.*)
LEMMA WritesStay ==
  ASSUME FetchInv, NEW c \in Fetchers, OpenTmp(c) \/ WriteTmp(c)
  PROVE  FetchInv'
<1>1. fetch[c] \in FetchStates /\ FetcherOK(c, fetch[c], blobs, served) /\ data \in [Inodes -> Entries \cup {Unreadable}]
  BY DEF FetchInv, FetchTypeOK
<1>2. CASE OpenTmp(c)
  <2> DEFINE used == {index, tmp} \cup {fetch[d].handle : d \in Fetchers}
             file == IF tmp # None THEN tmp ELSE CHOOSE i \in Inodes : i \notin used
             f == [fetch[c] EXCEPT !.pc = "writes", !.handle = file]
  <2>1. file \in Inodes
    BY SomeInodeIsFree DEF FetchInv, FetchTypeOK
  <2>2. /\ tmp' = file /\ data' = [data EXCEPT ![file] = Unreadable] /\ To(c, f)
        /\ UNCHANGED <<index, blobs, served>> /\ fetch[c].pc = "opens"
    BY <1>2 DEF OpenTmp
  <2> HIDE DEF file
  <2>3. f \in FetchStates /\ f.pc = "writes" /\ f.at = fetch[c].at /\ f.rows = fetch[c].rows /\ f.page = fetch[c].page /\ f.copy = fetch[c].copy
    BY <1>1, <2>1 DEF FetchStates, Asked
  <2> HIDE DEF f
  <2>4. FetcherOK(c, f, blobs, served)
    BY <1>1, <2>2, <2>3 DEF FetcherOK, Asked, InTurn
  <2>5. /\ index' \in Inodes \cup {None} /\ tmp' \in Inodes \cup {None}
        /\ data' \in [Inodes -> Entries \cup {Unreadable}]
        /\ \A i \in Inodes : data'[i] # Unreadable => data'[i] = data[i]
    BY <1>1, <2>1, <2>2 DEF FetchInv, FetchTypeOK
  <2> QED
    BY <2>2, <2>3, <2>4, <2>5, OneFetcher
<1>3. CASE WriteTmp(c)
  <2> DEFINE file == fetch[c].handle
             f == [fetch[c] EXCEPT !.pc = "replaces"]
  <2>1. PICK after \in {fetch[c].copy, Unreadable} : data' = [data EXCEPT ![file] = after]
    BY <1>3 DEF WriteTmp
  <2>2. To(c, f) /\ UNCHANGED <<index, tmp, blobs, served>> /\ fetch[c].pc = "writes"
    BY <1>3 DEF WriteTmp
  <2>3. f \in FetchStates /\ f.pc = "replaces" /\ f.at = fetch[c].at /\ f.rows = fetch[c].rows /\ f.page = fetch[c].page /\ f.copy = fetch[c].copy
    BY <1>1 DEF FetchStates, Asked
  <2> HIDE DEF f
  <2>4. FetcherOK(c, f, blobs, served)
    BY <1>1, <2>2, <2>3 DEF FetcherOK, Asked, InTurn
  <2>5. fetch[c].copy \in Entries /\ Stored(fetch[c].copy, blobs, served)
    BY <1>1, <2>2 DEF FetcherOK, FetchStates
  <2>6. /\ index' \in Inodes \cup {None} /\ tmp' \in Inodes \cup {None}
        /\ data' \in [Inodes -> Entries \cup {Unreadable}]
        /\ \A i \in Inodes : data'[i] # Unreadable => data'[i] \in {data[i], fetch[c].copy}
    BY <1>1, <2>1, <2>2, <2>5 DEF FetchInv, FetchTypeOK
  <2> QED
    BY <2>2, <2>3, <2>4, <2>5, <2>6, OneFetcher
<1> QED
  BY <1>2, <1>3

LEMMA ReplacesStay ==
  ASSUME FetchInv, NEW c \in Fetchers, ReplaceIndex(c)
  PROVE  FetchInv'
<1>1. fetch[c] \in FetchStates /\ FetcherOK(c, fetch[c], blobs, served) /\ fetch[c].pc = "replaces"
  BY DEF FetchInv, FetchTypeOK, ReplaceIndex
<1>2. UNCHANGED <<data, blobs, served>>
  BY DEF ReplaceIndex
<1> DEFINE page == fetch[c].page
           status == ClassifyPage(Item(c), page)
<1>3. page \in Pages /\ <<Item(c).url, page>> \in served
  BY <1>1 DEF FetcherOK, FetchStates, Asked, Item
<1>4. /\ index' \in Inodes \cup {None} /\ tmp' \in Inodes \cup {None}
      /\ \E f \in {Failed(c, "missing"), Row(c, status, page)} : To(c, f)
  BY DEF ReplaceIndex, FetchInv, FetchTypeOK
<1> HIDE DEF page
<1>5. status \in Marks /\ (status = "present" /\ Item(c).kind = "bout" => page.of = Item(c).url)
  BY ClassesAreMarks, PresentIsTheBouts
<1> HIDE DEF status
<1>6. Row(c, status, page) \in FetchStates /\ FetcherOK(c, Row(c, status, page), blobs, served)
  BY <1>3, <1>5, RowsStay
<1>7. Failed(c, "missing") \in FetchStates /\ FetcherOK(c, Failed(c, "missing"), blobs, served)
  BY FailedStays
<1>8. PICK f \in FetchStates : To(c, f) /\ FetcherOK(c, f, blobs, served)
  BY <1>4, <1>6, <1>7
<1>9. data' \in [Inodes -> Entries \cup {Unreadable}] /\ data' = data
  BY <1>2 DEF FetchInv, FetchTypeOK
<1> QED
  BY <1>2, <1>4, <1>8, <1>9, OneFetcher

LEMMA FetchStarts == FetchInit => FetchInv
<1> SUFFICES ASSUME FetchInit PROVE FetchInv
  OBVIOUS
<1>1. NoEntries \in Entries /\ None \in Pages
  BY DEF NoEntries, Entries, Pages
<1>2. FetchTypeOK
  BY <1>1 DEF FetchInit, FetchTypeOK, FetchStates, AuditRows
<1>3. \A c \in Fetchers : fetch[c].at = 1 /\ fetch[c].rows = <<>> /\ fetch[c].pc = "idle"
  BY DEF FetchInit
<1>4. \A c \in Fetchers : FetcherOK(c, fetch[c], blobs, served)
  BY <1>3 DEF FetcherOK, Asked
<1>5. \A i \in Inodes : data[i] = Unreadable
  BY DEF FetchInit
<1> QED
  BY <1>2, <1>4, <1>5 DEF FetchInv

LEMMA FetchInvariant == FetchSpec => []FetchInv
<1>1. FetchInv /\ [FetchNext]_fetchVars => FetchInv'
  <2> SUFFICES ASSUME FetchInv, [FetchNext]_fetchVars PROVE FetchInv'
    OBVIOUS
  <2>1. ASSUME NEW c \in Fetchers,
               \E answer \in RobotsAnswers : RobotsRedirected(c, answer) \/ RobotsAnswered(c, answer)
        PROVE  FetchInv'
    BY <2>1, RobotsStay
  <2>2. ASSUME NEW c \in Fetchers, fetch[c].pc = "asks",
               \E answer \in Answers[Item(c).url] : PageAnswered(c, answer)
        PROVE  FetchInv'
    BY <2>2, AnswersStay
  <2>3. ASSUME NEW c \in Fetchers, RequestFails(c) PROVE FetchInv'
    <3>1. To(c, Failed(c, "unresolved")) /\ UNCHANGED <<cacheVars, served>>
      BY <2>3 DEF RequestFails
    <3> QED
      BY <3>1, FailedStays, OnlyTheFetcher
  <2>4. CASE UNCHANGED fetchVars
    BY <2>4 DEF fetchVars, FetchInv, FetchTypeOK
  <2> QED
    BY <2>1, <2>2, <2>3, <2>4, PlainStepsStay, StoresStay, WritesStay, ReplacesStay DEF FetchNext
<1> QED
  BY <1>1, FetchStarts, PTL DEF FetchSpec

(* Whatever audits share the cache directory and are killed: what its index*)
(* names for an URL, and what an audit reports as present, is a page that  *)
(* the host served for that URL without a sign of a block.                 *)
THEOREM OnlyServedPages == FetchSpec => []PagesAreServed
<1>1. FetchInv => PagesAreServed
  <2> SUFFICES ASSUME FetchInv, NEW c \in Fetchers
               PROVE  /\ \A u \in Urls : LoadIndex[u] # None => <<u, LoadIndex[u]>> \in served /\ LoadIndex[u] \in blobs
                      /\ \A i \in DOMAIN fetch[c].rows :
                           fetch[c].rows[i].is = "present" =>
                             /\ <<Todo[c][i].url, fetch[c].rows[i].page>> \in served
                             /\ Todo[c][i].kind = "bout" => fetch[c].rows[i].page.of = Todo[c][i].url
    BY DEF PagesAreServed
  <2>1. fetch[c] \in FetchStates /\ FetcherOK(c, fetch[c], blobs, served)
    BY DEF FetchInv, FetchTypeOK
  <2>2. DOMAIN fetch[c].rows = 1 .. Len(fetch[c].rows)
    BY <2>1 DEF FetchStates, AuditRows
  <2> QED
    BY <2>1, <2>2, IndexIsStored DEF FetcherOK, Stored
<1> QED
  BY <1>1, FetchInvariant, PTL

-----------------------------------------------------------------------------
(* The health checks.                                                      *)
Instants == Nat \cup {None}
HostCards == {"none", "empty", "on"}
Models == {"none", "unreadable", "lost", "present"}
Edges == {"fine", "doubtful", "down"}

Hosts ==
  [card : HostCards, blocks : BOOLEAN, sourced : BOOLEAN, model : Models, official : BOOLEAN,
   quota : Instants, stamp : Instants, edge : Edges]

Polled(h, t) == h.quota # None /\ t - h.quota <= QuotaStale

(* What a report says of the host it was assembled on.                     *)
Faithful(report, h, t) ==
  /\ DOMAIN report = Components
  /\ /\ report.sources \in {"missing", "blocked", "healthy"}
     /\ report.sources = "healthy" <=> h.card = "on"
     /\ report.sources = "blocked" <=> h.card = "empty"
  /\ /\ report.identity \in {"missing", "blocked", "healthy"}
     /\ report.identity = "healthy" <=> h.card = "on" /\ ~h.blocks /\ h.sourced
     /\ report.identity = "blocked" <=> h.blocks \/ (h.card = "on" /\ ~h.sourced)
  /\ /\ report.model \in {"blocked", "failed", "healthy"}
     /\ report.model = "healthy" <=> h.model = "present"
  /\ /\ report.grade \in {"missing", "healthy"}
     /\ report.grade = "healthy" <=> h.official
  /\ /\ report.odds \in {"missing", "stale", "healthy"} /\ report.quota = report.odds
     /\ report.odds = "healthy" <=> Polled(h, t)
  /\ report.backup \in {"missing", "stale", "healthy"}
  /\ report.staleness \in {"missing", "stale", "healthy"}

(* The page says what a report says, or is the demo and says nothing.      *)
PageOK(page) ==
  /\ page.components = Projected(page.report)
  /\ \/ ~page.demo /\ page.of \in Hosts /\ page.asOf \in Nat /\ Faithful(page.report, page.of, page.asOf)
     \/ page.demo /\ page.report = [c \in Components |-> "missing"]

MonitorInv ==
  /\ hour \in Nat /\ host \in Hosts
  /\ journal \subseteq Nat \X Nat /\ jobs \in Nat
  /\ running # None =>
       running.of \in Hosts /\ running.at \in Nat /\ Faithful(running.report, running.of, running.at)
  /\ live # None => PageOK(live)

LEMMA AssembledIsFaithful ==
  ASSUME MonitorInv
  PROVE  Faithful(Assembled, host, hour)
<1> DEFINE r == Assembled
<1>1. host \in Hosts /\ hour \in Nat
  BY DEF MonitorInv
<1>2. DOMAIN r = Components
  BY DEF Assembled, Components, Required
<1>3. /\ r.sources = SourcesComponent /\ r.identity = IdentityComponent /\ r.odds = OddsComponent
      /\ r.quota = OddsComponent /\ r.model = ModelComponent
      /\ r.grade = IF host.official THEN "healthy" ELSE "missing"
      /\ r.backup = BackupComponent /\ r.staleness = StalenessComponent
  BY DEF Assembled
<1> HIDE DEF r
<1>4. /\ SourcesComponent \in {"missing", "blocked", "healthy"}
      /\ SourcesComponent = "healthy" <=> host.card = "on"
      /\ SourcesComponent = "blocked" <=> host.card = "empty"
  BY <1>1 DEF SourcesComponent, Hosts, HostCards
<1>5. /\ IdentityComponent \in {"missing", "blocked", "healthy"}
      /\ IdentityComponent = "healthy" <=> host.card = "on" /\ ~host.blocks /\ host.sourced
      /\ IdentityComponent = "blocked" <=> host.blocks \/ (host.card = "on" /\ ~host.sourced)
  BY DEF IdentityComponent
<1>6. /\ ModelComponent \in {"blocked", "failed", "healthy"}
      /\ ModelComponent = "healthy" <=> host.model = "present"
  BY <1>1 DEF ModelComponent, Hosts, Models
<1>7. \A at, limit : Aged(at, limit) \in {"missing", "stale", "healthy"}
  BY DEF Aged
<1>8. OddsComponent = "healthy" <=> Polled(host, hour)
  <2>1. host.quota \in Instants
    BY <1>1 DEF Hosts
  <2>2. host.quota # None => ((hour - host.quota > QuotaStale) <=> ~(hour - host.quota <= QuotaStale))
    BY <1>1, <2>1, MonitorAssumption DEF Instants
  <2> QED
    BY <2>2 DEF OddsComponent, Aged, Polled
<1>9. /\ OddsComponent \in {"missing", "stale", "healthy"} /\ BackupComponent \in {"missing", "stale", "healthy"}
      /\ StalenessComponent \in {"missing", "stale", "healthy"}
  BY <1>7 DEF OddsComponent, BackupComponent, StalenessComponent
<1>10. r.grade \in {"missing", "healthy"} /\ (r.grade = "healthy" <=> host.official)
  BY <1>3
<1>11. Faithful(r, host, hour)
  BY <1>2, <1>3, <1>4, <1>5, <1>6, <1>8, <1>9, <1>10 DEF Faithful
<1> QED
  BY <1>11 DEF r

-----------------------------------------------------------------------------
LEMMA MonitorStarts == MonitorInit => MonitorInv
<1> SUFFICES ASSUME MonitorInit PROVE MonitorInv
  OBVIOUS
<1>1. NewHost \in Hosts /\ SoundHost \in Hosts /\ OffSeason \in Hosts
  BY DEF NewHost, SoundHost, OffSeason, Hosts, Instants, HostCards, Models, Edges
<1>2. live # None => /\ live.demo /\ live.report = [c \in Components |-> "missing"]
                     /\ live.components = [n \in DOMAIN PageName |-> "missing"]
  BY DEF MonitorInit
<1>3. \A n \in DOMAIN PageName : PageName[n] \in Components
  BY DEF PageName, Components, Required
<1>4. live # None => PageOK(live)
  BY <1>2, <1>3 DEF PageOK, Projected
<1> QED
  BY <1>1, <1>4 DEF MonitorInit, MonitorInv

LEMMA HostSteps ==
  ASSUME MonitorInv, Change
  PROVE  host' \in Hosts
<1>1. host \in Hosts
  BY DEF MonitorInv
<1>2. CASE \E c \in HostCards : host' = [host EXCEPT !.card = c]
  BY <1>1, <1>2 DEF Hosts
<1>3. CASE \E b \in BOOLEAN : host' = [host EXCEPT !.blocks = b]
  BY <1>1, <1>3 DEF Hosts
<1>4. CASE \E b \in BOOLEAN : host' = [host EXCEPT !.sourced = b]
  BY <1>1, <1>4 DEF Hosts
<1>5. CASE \E m \in Models : host' = [host EXCEPT !.model = m]
  BY <1>1, <1>5 DEF Hosts
<1>6. CASE \E e \in Edges : host' = [host EXCEPT !.edge = e]
  BY <1>1, <1>6 DEF Hosts
<1> QED
  BY <1>2, <1>3, <1>4, <1>5, <1>6 DEF Change, HostCards, Models, Edges

LEMMA TickEnds ==
  ASSUME MonitorInv, NEW how, NEW published, EndTick(how, published)
  PROVE  MonitorInv'
<1>1. host \in Hosts /\ hour \in Nat /\ UNCHANGED <<hour, changes, jobs>> /\ jobs \in Nat
  BY DEF MonitorInv, EndTick
<1>2. host' \in Hosts
  <2>1. PICK polled \in BOOLEAN, picked \in BOOLEAN :
          host' = IF how = "killed" THEN host
                  ELSE [host EXCEPT !.quota = IF polled THEN hour ELSE @,
                                    !.official = @ \/ (picked /\ host.card = "on")]
    BY DEF EndTick
  <2> DEFINE q == IF polled THEN hour ELSE host.quota
             o == host.official \/ (picked /\ host.card = "on")
  <2>2. q \in Instants /\ o \in BOOLEAN
    BY <1>1 DEF Hosts, Instants
  <2>3. host' = IF how = "killed" THEN host ELSE [host EXCEPT !.quota = q, !.official = o]
    BY <1>1, <2>1 DEF Hosts
  <2> HIDE DEF q, o
  <2>4. [host EXCEPT !.quota = q, !.official = o] \in Hosts
    BY <1>1, <2>2 DEF Hosts
  <2> QED
    BY <1>1, <2>3, <2>4
<1>3. running' = None
  BY DEF EndTick
<1>4. journal' \subseteq Nat \X Nat
  BY <1>1 DEF EndTick, MonitorInv
<1>5. live' # None => PageOK(live')
  <2>1. CASE live' = live
    BY <2>1 DEF MonitorInv
  <2>2. CASE live' # live
    <3>1. live' = [at |-> hour, demo |-> FALSE, components |-> Projected(running.report),
                   report |-> running.report, of |-> running.of, asOf |-> running.at]
      BY <2>2 DEF EndTick
    <3>2. running # None
      BY DEF EndTick
    <3>3. running.of \in Hosts /\ running.at \in Nat /\ Faithful(running.report, running.of, running.at)
      BY <3>2 DEF MonitorInv
    <3> QED
      BY <3>1, <3>3 DEF PageOK
  <2> QED
    BY <2>1, <2>2
<1> QED
  BY <1>1, <1>2, <1>3, <1>4, <1>5 DEF MonitorInv

LEMMA MonitorInvariant == MonitorSpec => []MonitorInv
<1>1. MonitorInv /\ [MonitorNext]_monitorVars => MonitorInv'
  <2> SUFFICES ASSUME MonitorInv, [MonitorNext]_monitorVars PROVE MonitorInv'
    OBVIOUS
  <2>1. CASE Change
    <3>1. UNCHANGED <<hour, live, pointed, running, journal, jobs>>
      BY <2>1 DEF Change
    <3> QED
      BY <2>1, <3>1, HostSteps DEF MonitorInv
  <2>2. CASE Pass
    <3>1. hour' \in Nat /\ UNCHANGED <<host, live, pointed, running, journal, changes, jobs>>
      BY <2>2 DEF Pass, MonitorInv
    <3> QED
      BY <3>1 DEF MonitorInv
  <2>3. ASSUME NEW job, Begin(job) PROVE MonitorInv'
    <3>1. /\ running' = [job |-> job, report |-> Assembled, of |-> host, at |-> hour]
          /\ UNCHANGED <<hour, host, live, pointed, journal, changes>> /\ jobs' = jobs + 1
      BY <2>3 DEF Begin
    <3>2. running'.of = host /\ running'.at = hour /\ running'.report = Assembled
      BY <3>1
    <3>3. Faithful(running'.report, running'.of, running'.at) /\ running'.of \in Hosts /\ running'.at \in Nat
      BY <3>2, AssembledIsFaithful DEF MonitorInv
    <3>4. jobs' \in Nat
      BY <3>1 DEF MonitorInv
    <3> QED
      BY <3>1, <3>3, <3>4 DEF MonitorInv
  <2>4. ASSUME NEW how, NEW published, EndTick(how, published) PROVE MonitorInv'
    BY <2>4, TickEnds
  <2>5. ASSUME NEW ok, EndBackup(ok) PROVE MonitorInv'
    <3>1. /\ running' = None /\ host' = IF ok THEN [host EXCEPT !.stamp = hour] ELSE host
          /\ UNCHANGED <<hour, live, pointed, journal, changes, jobs>>
      BY <2>5 DEF EndBackup
    <3>2. [host EXCEPT !.stamp = hour] \in Hosts
      BY DEF MonitorInv, Hosts, Instants
    <3> QED
      BY <3>1, <3>2 DEF MonitorInv
  <2>6. CASE UNCHANGED monitorVars
    BY <2>6 DEF monitorVars, MonitorInv
  <2> QED
    BY <2>1, <2>2, <2>3, <2>4, <2>5, <2>6 DEF MonitorNext
<1> QED
  BY <1>1, MonitorStarts, PTL DEF MonitorSpec

-----------------------------------------------------------------------------
(* A signal is read by the first of its names: the page has them all.      *)
LEMMA ReadFirst ==
  ASSUME NEW components, NEW names, 1 \in DOMAIN names, DOMAIN names \subseteq Nat \ {0},
         names[1] \in DOMAIN components
  PROVE  Read(components, names) = components[names[1]]
<1> DEFINE there == {i \in DOMAIN names : names[i] \in DOMAIN components}
<1>1. 1 \in there /\ \A i \in there : 1 <= i /\ i \in Nat
  OBVIOUS
<1>2. Min(there) = 1
  <2> HIDE DEF there
  <2>1. \A x \in there : (\A y \in there : x <= y) => x = 1
    BY <1>1
  <2> QED
    BY <1>1, <2>1 DEF Min
<1> QED
  BY <1>1, <1>2 DEF Read

LEMMA PageIsRead ==
  ASSUME NEW r
  PROVE  {Level(Read(Projected(r), Signals[s])) : s \in DOMAIN Signals} =
         {Level(r.sources), Level(r.odds), Level(r.model), Level(r.grade), Level(r.quota), Level(r.identity)}
<1> DEFINE page == Projected(r)
<1>1. DOMAIN page = DOMAIN PageName /\ \A n \in DOMAIN PageName : page[n] = r[PageName[n]]
  BY DEF Projected
<1>2. DOMAIN PageName = {"data", "identity", "odds", "model", "pipeline", "grading", "backup", "quota", "freshness"}
  BY DEF PageName
<1>3. /\ page.data = r.sources /\ page.odds = r.odds /\ page.model = r.model /\ page.grading = r.grade
      /\ page.quota = r.quota /\ page.identity = r.identity
  BY <1>1, <1>2 DEF PageName
<1> HIDE DEF page
<1>4. DOMAIN Signals = {"data_freshness", "odds_freshness", "model_age", "grading", "quota", "identity"}
  BY DEF Signals
<1>5. Read(page, Signals.data_freshness) = r.sources
  <2> DEFINE names == <<"data", "freshness", "staleness", "sources", "publish">>
  <2>1. DOMAIN names = 1 .. 5 /\ names[1] = "data"
    OBVIOUS
  <2>2. Signals.data_freshness = names
    BY DEF Signals
  <2> HIDE DEF names
  <2> QED
    BY <1>1, <1>2, <1>3, <2>1, <2>2, ReadFirst
<1>6. \A n \in {"odds", "model", "quota", "identity"} : Read(page, <<n>>) = page[n]
  <2> TAKE n \in {"odds", "model", "quota", "identity"}
  <2> DEFINE names == <<n>>
  <2>1. DOMAIN names = 1 .. 1 /\ names[1] = n
    OBVIOUS
  <2> HIDE DEF names
  <2>2. Read(page, names) = page[n]
    BY <1>1, <1>2, <2>1, ReadFirst
  <2> QED
    BY <2>2 DEF names
<1>7. Read(page, Signals.grading) = r.grade
  <2> DEFINE names == <<"grading", "grade">>
  <2>1. DOMAIN names = 1 .. 2 /\ names[1] = "grading"
    OBVIOUS
  <2>2. Signals.grading = names
    BY DEF Signals
  <2> HIDE DEF names
  <2> QED
    BY <1>1, <1>2, <1>3, <2>1, <2>2, ReadFirst
<1>8. /\ Read(page, Signals.odds_freshness) = r.odds /\ Read(page, Signals.model_age) = r.model
      /\ Read(page, Signals.quota) = r.quota /\ Read(page, Signals.identity) = r.identity
  BY <1>3, <1>6 DEF Signals
<1>9. {Level(Read(page, Signals[s])) : s \in DOMAIN Signals} =
      {Level(r.sources), Level(r.odds), Level(r.model), Level(r.grade), Level(r.quota), Level(r.identity)}
  BY <1>4, <1>5, <1>7, <1>8
<1> QED
  BY <1>9 DEF page

(* What a page says amounts to.                                            *)
LEMMA LevelsOfThePage ==
  ASSUME MonitorInv
  PROVE  /\ PageLevels \subseteq {"ok", "warn", "alert"}
         /\ PageLevels = {"ok"} <=> Shown /\ WasSound(live.of, live.asOf)
         /\ "alert" \in PageLevels <=> Shown /\ WasIll(live.of)
         /\ PageLevels = {"ok"} => Blockers(live.report) \subseteq {"publish"}
<1>1. CASE live = None
  BY <1>1 DEF PageLevels, Shown
<1>2. CASE live # None /\ live.demo
  <2>1. /\ live.components = Projected(live.report) /\ live.report = [c \in Components |-> "missing"]
    BY <1>2 DEF MonitorInv, PageOK
  <2>2. \A c \in {"sources", "odds", "model", "grade", "quota", "identity"} : live.report[c] = "missing"
    BY <2>1 DEF Components, Required
  <2>3. PageLevels = {Level("missing")}
    <3> DEFINE r == live.report
    <3>1. PageLevels = {Level(Read(Projected(r), Signals[s])) : s \in DOMAIN Signals}
      BY <1>2, <2>1 DEF PageLevels
    <3>2. PageLevels =
            {Level(r.sources), Level(r.odds), Level(r.model), Level(r.grade), Level(r.quota), Level(r.identity)}
      BY <3>1, PageIsRead
    <3> QED
      BY <3>2, <2>2
  <2> QED
    BY <1>2, <2>3 DEF Level, Shown
<1>3. CASE live # None /\ ~live.demo
  <2> DEFINE r == live.report
             h == live.of
  <2>1. /\ live.components = Projected(r) /\ h \in Hosts /\ live.asOf \in Nat /\ Faithful(r, h, live.asOf)
    BY <1>3 DEF MonitorInv, PageOK
  <2>2. PageLevels =
          {Level(r.sources), Level(r.odds), Level(r.model), Level(r.grade), Level(r.quota), Level(r.identity)}
    <3>1. PageLevels = {Level(Read(Projected(r), Signals[s])) : s \in DOMAIN Signals}
      BY <1>3, <2>1 DEF PageLevels
    <3> HIDE DEF r
    <3> QED
      BY <3>1, PageIsRead
  <2> HIDE DEF r, h
  <2>3. \A status : /\ Level(status) \in {"ok", "warn", "alert"}
                    /\ Level(status) = "ok" <=> status = "healthy"
                    /\ Level(status) = "alert" <=> status \in {"failed", "blocked"}
    BY DEF Level
  <2>4. PageLevels = {"ok"} <=>
          /\ r.sources = "healthy" /\ r.odds = "healthy" /\ r.model = "healthy" /\ r.grade = "healthy"
          /\ r.quota = "healthy" /\ r.identity = "healthy"
    BY <2>2, <2>3
  <2>5. PageLevels = {"ok"} <=> WasSound(h, live.asOf)
    BY <2>1, <2>4 DEF Faithful, WasSound, Polled
  <2>6. "alert" \in PageLevels <=>
          \E status \in {r.sources, r.odds, r.model, r.grade, r.quota, r.identity} : status \in {"failed", "blocked"}
    BY <2>2, <2>3
  <2>7. "alert" \in PageLevels <=> WasIll(h)
    BY <2>1, <2>6 DEF Faithful, WasIll
  <2>8. ASSUME PageLevels = {"ok"}, NEW c \in Blockers(r) PROVE c = "publish"
    <3>1. c \in Components /\ Severity(c, r[c]) = "red"
      BY <2>1, <2>8 DEF Blockers, Faithful
    <3>2. c \in {"sources", "identity", "model", "grade", "odds", "quota"} => r[c] = "healthy"
      BY <2>4, <2>8
    <3>3. c \in {"backup", "staleness"} => r[c] \in {"missing", "stale", "healthy"} /\ c \notin Required
      BY <2>1 DEF Faithful, Required
    <3> QED
      BY <3>1, <3>2, <3>3 DEF Components, Required, Severity
  <2> QED
    BY <1>3, <2>2, <2>3, <2>5, <2>7, <2>8 DEF Shown, r, h
<1> QED
  BY <1>1, <1>2, <1>3

(* Green is said only of a host that is well and was, red exactly when     *)
(* something is wrong or was: for any limits, on a host where anything may *)
(* have happened in between.  That an old page is green too is no part of  *)
(* it (StaleDashboardTold is false).                                       *)
THEOREM TheMonitorIsRight == MonitorSpec => []ChecksAreTrue
<1>1. MonitorInv => ChecksAreTrue
  <2> SUFFICES ASSUME MonitorInv PROVE ChecksAreTrue
    OBVIOUS
  <2>1. host \in Hosts /\ hour \in Nat /\ journal \subseteq Nat \X Nat
    BY DEF MonitorInv
  <2> DEFINE many == Cardinality(RecentFailures) >= FailThreshold
             levels == PageLevels \cup {StampLevel, EdgeLevel, JournalLevel}
  <2>2. JournalLevel = IF many THEN "alert" ELSE "ok"
    <3>1. {f \in journal : hour - f[1] <= FailWindow} = RecentFailures
      BY <2>1, MonitorAssumption DEF RecentFailures
    <3> QED
      BY <3>1 DEF JournalLevel
  <2>3. /\ StampLevel \in {"ok", "warn", "alert"}
        /\ StampLevel = "ok" <=> host.stamp # None /\ hour - host.stamp <= BackupMaxAge
        /\ StampLevel = "alert" <=> host.stamp # None /\ hour - host.stamp > BackupMaxAge
    <3>1. host.stamp # None => ((hour - host.stamp > BackupMaxAge) <=> ~(hour - host.stamp <= BackupMaxAge))
      BY <2>1, MonitorAssumption DEF Hosts, Instants
    <3> QED
      BY <3>1 DEF StampLevel
  <2>4. /\ EdgeLevel \in {"ok", "warn", "alert"}
        /\ EdgeLevel = "ok" <=> host.edge = "fine"
        /\ EdgeLevel = "alert" <=> host.edge = "down"
    BY <2>1 DEF EdgeLevel, Hosts, Edges
  <2>5. Rollup = IF "alert" \in levels THEN "red" ELSE IF "warn" \in levels THEN "yellow" ELSE "green"
    BY Zenon DEF Rollup
  <2> HIDE DEF many
  <2>6. PageLevels # {}
    <3>1. CASE live = None
      BY <3>1 DEF PageLevels
    <3>2. CASE live # None
      BY <3>2 DEF PageLevels, Signals
    <3> QED
      BY <3>1, <3>2
  <2>7. "alert" \in levels <=> "alert" \in PageLevels \/ StampLevel = "alert" \/ EdgeLevel = "alert" \/ many
    BY <2>2
  <2>8. "alert" \notin levels /\ "warn" \notin levels <=>
          PageLevels = {"ok"} /\ StampLevel = "ok" /\ EdgeLevel = "ok" /\ ~many
    BY <2>2, <2>3, <2>4, <2>6, LevelsOfThePage
  <2> HIDE DEF levels
  <2>9. (Rollup = "green") <=> PageLevels = {"ok"} /\ StampLevel = "ok" /\ EdgeLevel = "ok" /\ ~many
    BY <2>5, <2>8
  <2>10. (Rollup = "red") <=> "alert" \in PageLevels \/ StampLevel = "alert" \/ EdgeLevel = "alert" \/ many
    BY <2>5, <2>7
  <2>11. (Rollup = "green") <=> (Shown /\ WasSound(live.of, live.asOf) /\ HostSound /\ ~many)
    BY <2>3, <2>4, <2>9, LevelsOfThePage DEF HostSound
  <2>12. Rollup = "green" => Blockers(live.report) \subseteq {"publish"}
    BY <2>9, LevelsOfThePage
  <2>13. (Rollup = "red") <=> (HostIll \/ many \/ (Shown /\ WasIll(live.of)))
    BY <2>3, <2>4, <2>10, LevelsOfThePage DEF HostIll
  <2> QED
    BY <2>11, <2>12, <2>13 DEF ChecksAreTrue, many
<1> QED
  BY <1>1, MonitorInvariant, PTL

-----------------------------------------------------------------------------
(* Dashboard: the page of the rows.                                        *)
LEMMA LeastNatural ==
  ASSUME NEW T \in SUBSET Nat, T # {}
  PROVE  \E x \in T : \A y \in T : x <= y
<1>1. PICK x \in T : \A y \in T : ~(<<y, x>> \in OpToRel(<, Nat))
  BY NatLessThanWellFounded, WFMin
<1>2. \A y \in T : ~(y < x)
  BY <1>1 DEF OpToRel
<1> QED
  BY <1>2

LEMMA GreatestNatural ==
  ASSUME NEW n \in Nat, NEW T \in SUBSET (0..n), T # {}
  PROVE  \E x \in T : \A y \in T : y <= x
<1> DEFINE U == { n - y : y \in T }
<1>1. U \in SUBSET Nat /\ U # {}
  <2>1. \A y \in T : n - y \in Nat
    OBVIOUS
  <2>2. PICK y \in T : TRUE
    OBVIOUS
  <2> QED
    BY <2>1, <2>2
<1>2. PICK u \in U : \A w \in U : u <= w
  BY <1>1, LeastNatural
<1>3. PICK x \in T : u = n - x
  BY <1>2
<1>4. \A y \in T : n - x <= n - y
  BY <1>2, <1>3
<1> QED
  BY <1>4

(* A publication is not of the future.                                     *)
Dated(rows) == \A p \in rows.pubs : p.at \in 0..clock

(* There is a latest quote and a latest version of a result.               *)
Bounded(rows) ==
  /\ \E n \in Nat : \A q \in rows.quotes : q.ts <= n
  /\ \E n \in Nat : \A s \in rows.settled : s.version[2] <= n

(* A quote is that of a confirmed pick, ...                                *)
Backed(rows) == \A q \in rows.quotes : \E p \in rows.pubs : p.state = Confirmed /\ PubKey(p) = q.pub

(* ... and a confirmed pick has one, unless its recommend failed.          *)
OneQuote(rows) ==
  \A p \in rows.pubs : p.state = Confirmed /\ p.cutoff \notin rows.failed =>
    /\ QuotesOf(rows, PubKey(p)) # {}
    /\ \A q, s \in QuotesOf(rows, PubKey(p)) : q = s

PageRows(rows) == Dated(rows) /\ Bounded(rows) /\ Backed(rows) /\ OneQuote(rows)

LEMMA RowTypes ==
  ASSUME NEW r \in Rows
  PROVE  /\ \A p \in r.pubs : /\ p.bout \in CardBouts /\ p.sel \in Selections /\ p.cutoff \in Int
                              /\ PubKey(p) \in Keys /\ PubKey(p) # None
                              /\ p.state \in {"no_bet", "price_target", "confirmed_value"}
         /\ \A q \in r.quotes : q.pub \in Keys /\ q.ts \in QuoteTimes /\ q.ts \in Nat
                                /\ q = [pub |-> q.pub, ts |-> q.ts]
         /\ \A s \in r.settled : s.pub \in Keys /\ s.version[2] \in Nat
<1>1. /\ r.pubs \subseteq [bout : CardBouts, sel : Selections, cutoff : Int, at : Int, state : PubStates]
      /\ r.quotes \subseteq [pub : Keys, ts : QuoteTimes]
      /\ r.settled \subseteq [pub : Keys, ts : QuoteTimes, version : ResultVersions]
  BY DEF Rows
<1>2. /\ QuoteTimes \subseteq Nat /\ PubStates \subseteq {"no_bet", "price_target", "confirmed_value"}
      /\ \A v \in ResultVersions : v[2] \in Nat
      /\ None \notin Keys
  BY GradeAssumption DEF Keys
<1>3. ASSUME NEW p \in r.pubs
      PROVE  /\ p.bout \in CardBouts /\ p.sel \in Selections /\ p.cutoff \in Int
             /\ PubKey(p) \in Keys /\ PubKey(p) # None
             /\ p.state \in {"no_bet", "price_target", "confirmed_value"}
  <2>1. p.bout \in CardBouts /\ p.sel \in Selections /\ p.cutoff \in Int /\ p.state \in PubStates
    BY <1>1
  <2>2. PubKey(p) \in Keys
    BY <2>1 DEF PubKey, Keys
  <2> QED
    BY <1>2, <2>1, <2>2
<1> QED
  BY <1>1, <1>2, <1>3

(* What the page takes of the rows: of each bout one publication, ...      *)
LEMMA Selected ==
  ASSUME NEW r \in Rows, clock \in Nat, Dated(r)
  PROVE  /\ \A p \in SelectPublications(r) : p \in r.pubs
         /\ \A p, q \in SelectPublications(r) : p.bout = q.bout => p = q
         /\ \A p \in r.pubs : \E q \in SelectPublications(r) : q.bout = p.bout
<1> DEFINE latest(b) == { p \in OfBout(r, b) : \A q \in OfBout(r, b) : q.at <= p.at }
           pick(b) == CHOOSE p \in latest(b) : TRUE
           B == { p.bout : p \in r.pubs }
<1>1. SelectPublications(r) = { pick(b) : b \in B }
  BY DEF SelectPublications
<1>2. ASSUME NEW b \in B PROVE pick(b) \in r.pubs /\ pick(b).bout = b
  <2> DEFINE T == { p.at : p \in OfBout(r, b) }
  <2>1. T \in SUBSET (0..clock) /\ T # {}
    BY <1>2 DEF OfBout, Dated
  <2>2. PICK x \in T : \A y \in T : y <= x
    <3> HIDE DEF T
    <3> QED
      BY <2>1, GreatestNatural
  <2>3. PICK p \in OfBout(r, b) : p.at = x
    OBVIOUS
  <2>4. p \in latest(b)
    BY <2>2, <2>3
  <2>5. pick(b) \in latest(b)
    BY <2>4
  <2> QED
    BY <2>5 DEF OfBout
<1> HIDE DEF pick
<1>3. \A p \in r.pubs : p.bout \in B
  OBVIOUS
<1> HIDE DEF B
<1> QED
  BY <1>1, <1>2, <1>3

(* ... the price of its latest quote, ...                                  *)
LEMMA Observed ==
  ASSUME NEW r \in Rows, Bounded(r), NEW p \in r.pubs
  PROVE  /\ QuotesOf(r, PubKey(p)) = {} => LatestObserved(r, p) = None
         /\ QuotesOf(r, PubKey(p)) # {} =>
              /\ LatestObserved(r, p) # None
              /\ \E q \in QuotesOf(r, PubKey(p)) : LatestObserved(r, p) = q.ts
<1> DEFINE Q == QuotesOf(r, PubKey(p))  last == CHOOSE q \in Q : \A s \in Q : s.ts <= q.ts
<1>1. LatestObserved(r, p) = IF Q = {} THEN None ELSE last.ts
  BY DEF LatestObserved
<1>2. ASSUME Q # {} PROVE last \in Q
  <2>1. PICK n \in Nat : \A q \in r.quotes : q.ts <= n
    BY DEF Bounded
  <2>2. \A q \in Q : q.ts \in 0..n
    BY <2>1, RowTypes DEF QuotesOf
  <2> HIDE DEF Q
  <2> DEFINE T == { q.ts : q \in Q }
  <2>3. T \in SUBSET (0..n) /\ T # {}
    BY <1>2, <2>2
  <2>4. PICK x \in T : \A y \in T : y <= x
    <3> HIDE DEF T
    <3> QED
      BY <2>3, GreatestNatural
  <2>5. PICK q \in Q : q.ts = x
    OBVIOUS
  <2>6. \A s \in Q : s.ts <= q.ts
    BY <2>4, <2>5
  <2> QED
    BY <2>6
<1>3. \A q \in Q : q.ts # None
  BY RowTypes, GradeAssumption DEF QuotesOf
<1> HIDE DEF Q, last
<1>4. CASE Q = {}
  BY <1>1, <1>4 DEF Q
<1>5. CASE Q # {}
  BY <1>1, <1>2, <1>3, <1>5 DEF Q
<1> QED
  BY <1>4, <1>5

(* ... and the settlement of the latest result.                            *)
LEMMA SettlementCounts ==
  ASSUME NEW r \in Rows, Bounded(r), NEW p \in r.pubs, SettlementOf(r, p) # None
  PROVE  SettlementOf(r, p) \in r.settled /\ SettlementOf(r, p).pub = PubKey(p)
<1> DEFINE S == { s \in r.settled : s.pub = PubKey(p) }
           last == CHOOSE s \in S : \A t \in S : t.version[2] <= s.version[2]
<1>1. S # {} /\ SettlementOf(r, p) = last
  BY DEF SettlementOf
<1>2. last \in S
  <2>1. PICK n \in Nat : \A s \in r.settled : s.version[2] <= n
    BY DEF Bounded
  <2>2. \A s \in S : s.version[2] \in 0..n
    BY <2>1, RowTypes
  <2> HIDE DEF S
  <2> DEFINE T == { s.version[2] : s \in S }
  <2>3. T \in SUBSET (0..n) /\ T # {}
    BY <1>1, <2>2
  <2>4. PICK x \in T : \A y \in T : y <= x
    <3> HIDE DEF T
    <3> QED
      BY <2>3, GreatestNatural
  <2>5. PICK s \in S : s.version[2] = x
    OBVIOUS
  <2>6. \A t \in S : t.version[2] <= s.version[2]
    BY <2>4, <2>5
  <2> QED
    BY <2>6
<1> HIDE DEF last
<1> QED
  BY <1>1, <1>2

PageReads(rows) ==
  /\ rows \in Rows /\ clock \in Nat /\ PageRows(rows)
  /\ UniqueKeys(rows) /\ SettledAtQuote(rows)

LEMMA BuiltIsValid ==
  ASSUME NEW r, PageReads(r), NEW card, Builds(r, SelectPublications(r), card)
  PROVE  LET shown == SelectPublications(r) IN
         Validates(Matchups(r, shown, card), Documents(r, shown))
<1> DEFINE shown == SelectPublications(r)  M == Matchups(r, shown, card)  d == Documents(r, shown)
           E == Unpublished(r, card)
<1>1. /\ \A p \in shown : p \in r.pubs
      /\ \A p, q \in shown : p.bout = q.bout => p = q
  BY Selected DEF PageReads, PageRows
<1>2. \A b \in E : \A p \in r.pubs : p.bout # b
  BY DEF Unpublished
<1>3. \A p \in shown : p.state = Confirmed => ExactEV(r, p, card)
  BY DEF Builds
<1>4. \A p \in shown : p.state = "price_target" => LatestObserved(r, p) = None
  <2> SUFFICES ASSUME NEW p \in shown, p.state = "price_target" PROVE QuotesOf(r, PubKey(p)) = {}
    BY <1>1, Observed DEF PageReads, PageRows
  <2>1. p \in r.pubs
    BY <1>1
  <2>2. ASSUME NEW q \in QuotesOf(r, PubKey(p)) PROVE FALSE
    <3>1. q \in r.quotes /\ q.pub = PubKey(p)
      BY DEF QuotesOf
    <3>2. PICK x \in r.pubs : x.state = Confirmed /\ PubKey(x) = q.pub
      BY <3>1 DEF PageReads, PageRows, Backed
    <3>3. x = p
      BY <2>1, <3>1, <3>2 DEF PageReads, UniqueKeys
    <3> QED
      BY <3>2, <3>3 DEF Confirmed
  <2> QED
    BY <2>2
<1>5. M = { Matchup(r, p, card) : p \in shown } \cup { PaperRow(b) : b \in E }
  BY DEF Matchups
<1> DEFINE R(p) == Matchup(r, p, card)
<1>6. \A p \in shown : /\ R(p).bout = p.bout /\ R(p).state = p.state
                        /\ R(p).observed = LatestObserved(r, p) /\ R(p).ev = ExactEV(r, p, card)
  BY DEF Matchup
<1>7. \A b : /\ PaperRow(b).bout = b /\ PaperRow(b).state = "no_bet"
             /\ PaperRow(b).observed = None /\ PaperRow(b).ev = FALSE
  BY DEF PaperRow, NoBet
<1>8. \A p \in shown : /\ ExactEV(r, p, card) => LatestObserved(r, p) # None
                        /\ ExactEV(r, p, card) \in BOOLEAN
  BY DEF ExactEV
<1>9. ValidHistory(d.history)
  BY DEF ValidHistory, Documents, History, HistoryPoint
<1>10. RequiredHealth \subseteq DOMAIN d.health
  BY DEF RequiredHealth, Documents, HealthDocument
<1> HIDE DEF shown, M, d, E, R
<1>11. \A m \in M : (\E p \in shown : m = R(p)) \/ (\E b \in E : m = PaperRow(b))
  BY <1>5 DEF R
<1>12. ASSUME NEW m \in M
       PROVE  /\ m.ev => m.observed # None
              /\ m.state = Confirmed => m.observed # None /\ m.ev
              /\ m.state = "price_target" => ~m.ev
  <2>1. CASE \E p \in shown : m = R(p)
    BY <1>3, <1>4, <1>6, <1>8, <2>1
  <2>2. CASE \E b \in E : m = PaperRow(b)
    BY <1>7, <2>2 DEF Confirmed
  <2> QED
    BY <1>11, <2>1, <2>2
<1>13. ASSUME NEW m \in M, NEW n \in M, m.bout = n.bout PROVE m = n
  <2>1. CASE \E p, q \in shown : m = R(p) /\ n = R(q)
    BY <1>1, <1>6, <1>13, <2>1
  <2>2. CASE \E b, c \in E : m = PaperRow(b) /\ n = PaperRow(c)
    BY <1>7, <1>13, <2>2
  <2>3. CASE \E p \in shown, b \in E : {m, n} = {R(p), PaperRow(b)}
    BY <1>1, <1>2, <1>6, <1>7, <1>13, <2>3
  <2> QED
    BY <1>11, <2>1, <2>2, <2>3
<1>14. ValidMatchups(M)
  BY <1>12, <1>13 DEF ValidMatchups
<1> QED
  BY <1>9, <1>10, <1>14 DEF Validates, M, d, shown

LEMMA SoundBuilds ==
  ASSUME NEW r, PageReads(r), NEW card, Sound(r, SelectPublications(r), card)
  PROVE  Builds(r, SelectPublications(r), card)
<1> SUFFICES ASSUME NEW p \in SelectPublications(r), p.state = Confirmed PROVE ExactEV(r, p, card)
  BY DEF Builds
<1>1. p \in r.pubs
  BY Selected DEF PageReads, PageRows
<1>2. p.cutoff \notin r.failed /\ p.bout \in card.predicted
  BY DEF Sound
<1>3. QuotesOf(r, PubKey(p)) # {}
  BY <1>1, <1>2 DEF PageReads, PageRows, OneQuote
<1>4. LatestObserved(r, p) # None
  BY <1>1, <1>3, Observed DEF PageReads, PageRows
<1> QED
  BY <1>2, <1>4 DEF ExactEV

LEMMA EachBoutHasARow ==
  ASSUME NEW r, PageReads(r), NEW card, NEW b \in CardBouts \ card.struck
  PROVE  \E m \in Matchups(r, SelectPublications(r), card) : m.bout = b
<1>1. CASE \E p \in r.pubs : p.bout = b
  <2>1. PICK p \in SelectPublications(r) : p.bout = b
    BY <1>1, Selected DEF PageReads, PageRows
  <2>2. Matchup(r, p, card).bout = b
    BY <2>1 DEF Matchup
  <2> QED
    BY <2>1, <2>2 DEF Matchups
<1>2. CASE ~\E p \in r.pubs : p.bout = b
  <2>1. b \in Unpublished(r, card)
    BY <1>2 DEF Unpublished
  <2>2. PaperRow(b).bout = b
    BY DEF PaperRow
  <2> QED
    BY <2>1, <2>2 DEF Matchups
<1> QED
  BY <1>1, <1>2

LEMMA ShownAsSettled ==
  ASSUME NEW r, PageReads(r), NEW card, Sound(r, SelectPublications(r), card),
         NEW m \in Matchups(r, SelectPublications(r), card),
         NEW h \in History(r, SelectPublications(r)), h.pub = m.pub, h.result # None
  PROVE  h.result.ts = m.observed
<1>1. PICK p \in SelectPublications(r) : h = HistoryPoint(r, p)
  BY DEF History
<1>2. p \in r.pubs /\ r \in Rows
  BY Selected DEF PageReads, PageRows
<1>3. /\ h.pub = PubKey(p) /\ p.state = Confirmed /\ LatestObserved(r, p) # None
      /\ h.result = SettlementOf(r, p)
  BY <1>1 DEF HistoryPoint
<1>4. h.result \in r.settled /\ h.result.pub = PubKey(p)
  BY <1>2, <1>3, SettlementCounts DEF PageReads, PageRows
<1>5. [pub |-> h.result.pub, ts |-> h.result.ts] \in QuotesOf(r, PubKey(p))
  BY <1>4 DEF PageReads, SettledAtQuote, QuotesOf
<1>6. \A q, s \in QuotesOf(r, PubKey(p)) : q = s
  BY <1>2, <1>3 DEF PageReads, PageRows, OneQuote, Sound
<1>7. LatestObserved(r, p) = h.result.ts
  <2>1. PICK q \in QuotesOf(r, PubKey(p)) : LatestObserved(r, p) = q.ts
    BY <1>2, <1>5, Observed DEF PageReads, PageRows
  <2>2. q = [pub |-> h.result.pub, ts |-> h.result.ts]
    BY <1>5, <1>6
  <2> QED
    BY <2>1, <2>2
<1>8. CASE \E x \in SelectPublications(r) : m = Matchup(r, x, card)
  <2>1. PICK x \in SelectPublications(r) : m = Matchup(r, x, card)
    BY <1>8
  <2>2. m.pub = PubKey(x) /\ m.observed = LatestObserved(r, x)
    BY <2>1 DEF Matchup
  <2>3. x \in r.pubs
    BY Selected DEF PageReads, PageRows
  <2>4. x = p
    BY <1>2, <1>3, <2>2, <2>3 DEF PageReads, UniqueKeys
  <2> QED
    BY <1>7, <2>2, <2>4
<1>9. CASE \E b \in Unpublished(r, card) : m = PaperRow(b)
  <2>1. m.pub = None
    BY <1>9 DEF PaperRow
  <2>2. PubKey(p) # None
    BY <1>2, RowTypes
  <2> QED
    BY <1>3, <2>1, <2>2
<1> QED
  BY <1>8, <1>9 DEF Matchups

LEMMA PageIsRight ==
  ASSUME NEW r, PageReads(r), r.pubs # {}
  PROVE  LET shown == SelectPublications(r)
             d == Documents(r, shown)
         IN \A card \in Cards :
              LET M == Matchups(r, shown, card) IN
              /\ Builds(r, shown, card) => Validates(M, d)
              /\ Sound(r, shown, card) =>
                   /\ Published(r, shown, card, FALSE)
                   /\ \A b \in CardBouts \ card.struck : \E m \in M : m.bout = b
                   /\ \A m \in M : \A h \in d.history :
                        h.pub = m.pub /\ h.result # None => h.result.ts = m.observed
<1> DEFINE shown == SelectPublications(r)  d == Documents(r, shown)  M(card) == Matchups(r, shown, card)
<1>1. d.history = History(r, shown)
  BY DEF Documents
<1> SUFFICES ASSUME NEW card \in Cards
             PROVE  /\ Builds(r, shown, card) => Validates(M(card), d)
                    /\ Sound(r, shown, card) =>
                         /\ Published(r, shown, card, FALSE)
                         /\ \A b \in CardBouts \ card.struck : \E m \in M(card) : m.bout = b
                         /\ \A m \in M(card) : \A h \in d.history :
                              h.pub = m.pub /\ h.result # None => h.result.ts = m.observed
  OBVIOUS
<1>2. Builds(r, shown, card) => Validates(M(card), d)
  BY BuiltIsValid
<1>3. ASSUME Sound(r, shown, card)
      PROVE  /\ Published(r, shown, card, FALSE)
             /\ \A b \in CardBouts \ card.struck : \E m \in M(card) : m.bout = b
             /\ \A m \in M(card) : \A h \in d.history :
                  h.pub = m.pub /\ h.result # None => h.result.ts = m.observed
  <2>1. Published(r, shown, card, FALSE)
    BY <1>2, <1>3, SoundBuilds DEF Published, Refused
  <2>2. \A b \in CardBouts \ card.struck : \E m \in M(card) : m.bout = b
    BY EachBoutHasARow
  <2>3. \A m \in M(card) : \A h \in d.history :
          h.pub = m.pub /\ h.result # None => h.result.ts = m.observed
    BY <1>1, <1>3, ShownAsSettled
  <2> QED
    BY <2>1, <2>2, <2>3
<1> QED
  BY <1>2, <1>3
-----------------------------------------------------------------------------
(* The recommend of a cutoff is over: it succeeded once or it failed.      *)
Ended(rows, c) == c \in rows.failed \/ \E x \in rows.done : x.job = "recommend" /\ x.slot = c

AllEnded(rows) == \A p \in rows.pubs : Ended(rows, p.cutoff)

(* What a recommend under way has in hand: of the bouts that it has yet to *)
(* do nothing is published for its cutoff, unless one before it failed.    *)
UnderWork ==
  /\ tick.job = "recommend" /\ tick.cutoff <= clock
  /\ \A p \in tick.tx.pubs : p.cutoff = tick.cutoff \/ Ended(tick.tx, p.cutoff)
  /\ tick.cutoff \in tick.tx.failed
       \/ \A p \in tick.tx.pubs : p.cutoff = tick.cutoff => p.bout \notin tick.todo

PageInv ==
  /\ \A r \in VisibleRows : PageRows(r)
  /\ AllEnded(ledger)
  /\ tick # None /\ tick.status = "running" => UnderWork
  /\ tick # None /\ tick.status # "running" => AllEnded(tick.tx)

(* A step that leaves the committed rows as they are.                      *)
LEMMA TickMoves ==
  ASSUME PageInv, ledger' = ledger, clock' = clock,
         PageRows(tick'.tx),
         tick'.status = "running" => UnderWork',
         tick'.status # "running" => AllEnded(tick'.tx)
  PROVE  PageInv'
<1>1. ASSUME NEW r \in VisibleRows' PROVE PageRows(r)'
  <2>1. PageRows(r)' <=> PageRows(r)
    BY DEF PageRows, Dated, Bounded, Backed, OneQuote, QuotesOf, PubKey
  <2>2. CASE r = ledger'
    BY <2>1, <2>2, Seen DEF PageInv
  <2>3. CASE r = tick'.tx
    BY <2>1, <2>3
  <2> QED
    BY <1>1, <2>2, <2>3, SeenNext
<1>2. AllEnded(ledger)' /\ (AllEnded(tick'.tx) => AllEnded(tick.tx)')
  BY DEF PageInv, AllEnded, Ended
<1> QED
  BY <1>1, <1>2 DEF PageInv

(* A step of the committed rows.                                           *)
LEMMA LedgerMoves ==
  ASSUME tick' = None, PageRows(ledger)', AllEnded(ledger)'
  PROVE  PageInv'
<1>1. \A r \in VisibleRows' : r = ledger'
  BY SeenNext
<1> QED
  BY <1>1 DEF PageInv

(* With the same publications and quotes, only the results differ.         *)
LEMMA SameRows ==
  ASSUME NEW r, NEW e, PageRows(r), e.pubs = r.pubs, e.quotes = r.quotes,
         r.failed \subseteq e.failed, \E n \in Nat : \A s \in e.settled : s.version[2] <= n
  PROVE  PageRows(e)
<1>1. \A p : QuotesOf(e, PubKey(p)) = QuotesOf(r, PubKey(p))
  BY DEF QuotesOf
<1>2. Dated(e) /\ Backed(e) /\ Bounded(e)
  BY DEF PageRows, Dated, Backed, Bounded
<1>3. OneQuote(e)
  BY <1>1 DEF PageRows, OneQuote
<1> QED
  BY <1>2, <1>3 DEF PageRows

LEMMA SettledIsBounded ==
  ASSUME NEW rows \in Rows, NEW P \in SUBSET rows.pubs, NEW v \in ResultVersions, Bounded(rows)
  PROVE  LET e == Settle(rows, P, v) IN
         /\ e.failed = rows.failed
         /\ \E n \in Nat : \A s \in e.settled : s.version[2] <= n
<1> DEFINE E(p) == Earliest(QuotesOf(rows, PubKey(p)))
           Q == UNION { E(p) : p \in { x \in P : x.state = Confirmed } }
           new == { [pub |-> q.pub, ts |-> q.ts, version |-> v] : q \in Q }
           e == Settle(rows, P, v)
<1>1. e = [rows EXCEPT !.settled = @ \cup new]
  BY DEF Settle
<1>2. \A s \in new : s.version = v
  OBVIOUS
<1> HIDE DEF new, e
<1>3. e.settled = rows.settled \cup new /\ e.failed = rows.failed
  BY <1>1 DEF Rows
<1>4. PICK n \in Nat : \A s \in rows.settled : s.version[2] <= n
  BY DEF Bounded
<1> DEFINE m == n + v[2]
<1>5. m \in Nat /\ n <= m /\ v[2] <= m
  BY GradeAssumption
<1>6. \A s \in rows.settled : s.version[2] <= m
  BY <1>4, <1>5, RowTypes
<1> HIDE DEF m
<1>7. \A s \in e.settled : s.version[2] <= m
  BY <1>2, <1>3, <1>5, <1>6
<1> QED
  BY <1>3, <1>5, <1>7 DEF e

(* What publish_official_t60 writes.                                       *)
LEMMA WithBoutWrites ==
  ASSUME GradeInv, PageInv, RunsJob("recommend"), NEW b \in CardBouts, NEW d \in Policies
  PROVE  LET e == WithBout(b, d)  k == KeyOf(b, d) IN
         /\ e.quotes = tick.tx.quotes /\ e.settled = tick.tx.settled
         /\ e.done = tick.tx.done /\ e.failed = tick.tx.failed
         /\ tick.tx.pubs \subseteq e.pubs
         /\ \A p \in e.pubs : p \in tick.tx.pubs \/
               /\ PubKey(p) = k /\ p.cutoff = tick.cutoff /\ p.bout = b
               /\ p.at \in 0..clock /\ p.state = d.state
         /\ \E p \in e.pubs : PubKey(p) = k
         /\ Agrees(b, d) => \A p \in e.pubs : PubKey(p) = k => p.state = d.state
<1> DEFINE rows == tick.tx  k == KeyOf(b, d)
           pub == [bout |-> b, sel |-> d.sel, cutoff |-> tick.cutoff, at |-> PublishedAt, state |-> d.state]
           e == WithBout(b, d)
<1>1. tick.tx \in Rows /\ clock \in Nat /\ tick.cutoff \in Int /\ tick.cutoff <= clock
  BY RecommendIsUngraded DEF GradeInv, GradeTypeOK, GradeTicks, PageInv, UnderWork, RunsJob, NoTick
<1>2. PublishedAt = clock
  BY <1>1 DEF PublishedAt
<1>3. /\ PubKey(pub) = k /\ pub.cutoff = tick.cutoff /\ pub.bout = b /\ pub.at \in 0..clock
      /\ pub.state = d.state
  BY <1>1, <1>2 DEF PubKey, KeyOf
<1>4. WithPub(rows, b, d) = [rows EXCEPT !.pubs = @ \cup {pub}]
  BY DEF WithPub
<1>41. Agrees(b, d) <=> \A p \in rows.pubs : PubKey(p) = k => SameFields(p, d)
  BY DEF Agrees, Keyed
<1>42. rows \in Rows
  BY <1>1
<1>43. e = IF Keyed(rows, k) = {} THEN WithPub(rows, b, d) ELSE rows
  BY DEF WithBout
<1> HIDE DEF pub, rows, k, e
<1>5. CASE Keyed(rows, k) = {}
  <2>1. e = [rows EXCEPT !.pubs = @ \cup {pub}]
    BY <1>4, <1>43, <1>5
  <2>2. /\ e.pubs = rows.pubs \cup {pub} /\ e.quotes = rows.quotes
        /\ e.settled = rows.settled /\ e.done = rows.done /\ e.failed = rows.failed
    BY <1>42, <2>1 DEF Rows
  <2>3. \A p \in rows.pubs : PubKey(p) # k
    BY <1>5 DEF Keyed
  <2> QED
    BY <1>3, <2>2, <2>3 DEF rows, k, e
<1>6. CASE Keyed(rows, k) # {}
  <2>1. e = rows /\ \E p \in rows.pubs : PubKey(p) = k
    BY <1>43, <1>6 DEF Keyed
  <2>2. Agrees(b, d) => \A p \in rows.pubs : PubKey(p) = k => p.state = d.state
    BY <1>41 DEF SameFields
  <2> QED
    BY <2>1, <2>2 DEF rows, k, e
<1> QED
  BY <1>5, <1>6

(* A recommend that fails leaves what it wrote, and its cutoff's mark.     *)
LEMMA FailStep ==
  ASSUME GradeInv, PageInv, RunsJob("recommend"), UNCHANGED <<clock, start, ledger>>,
         NEW rows \in Rows, FailTick(rows),
         tick.tx.pubs \subseteq rows.pubs, rows.quotes = tick.tx.quotes,
         rows.settled = tick.tx.settled, rows.done = tick.tx.done, rows.failed = tick.tx.failed,
         \A p \in rows.pubs : p \in tick.tx.pubs \/ (p.cutoff = tick.cutoff /\ p.at \in 0..clock)
  PROVE  PageInv'
<1> DEFINE c == tick.cutoff  x == tick.tx  e == [rows EXCEPT !.failed = @ \cup {c}]
<1>1. /\ tick \in GradeTicks /\ tick # None /\ x \in VisibleRows
      /\ PageRows(x) /\ UnderWork /\ c \in Int
  BY RecommendIsUngraded, Seen DEF PageInv, RunsJob, GradeTicks
<1>2. /\ e.pubs = rows.pubs /\ e.quotes = rows.quotes /\ e.settled = rows.settled
      /\ e.done = rows.done /\ e.failed = rows.failed \cup {c} /\ e \in Rows
  BY <1>1 DEF Rows
<1> HIDE DEF e
<1>3. tick' = [tick EXCEPT !.status = "failed", !.tx = e]
  BY DEF FailTick, e
<1>4. tick'.tx = e /\ tick'.status = "failed"
  BY <1>1, <1>2, <1>3 DEF GradeTicks
<1>5. Dated(e) /\ Backed(e) /\ Bounded(e)
  BY <1>1, <1>2 DEF PageRows, Dated, Backed, Bounded
<1>6. OneQuote(e)
  <2>1. \A p : QuotesOf(e, PubKey(p)) = QuotesOf(x, PubKey(p))
    BY <1>2 DEF QuotesOf
  <2>2. \A p \in e.pubs : p.cutoff \notin e.failed => p \in x.pubs /\ p.cutoff \notin x.failed
    BY <1>2
  <2> QED
    BY <1>1, <2>1, <2>2 DEF PageRows, OneQuote
<1>7. AllEnded(e)
  BY <1>1, <1>2 DEF AllEnded, Ended, UnderWork
<1> QED
  BY <1>4, <1>5, <1>6, <1>7, TickMoves DEF PageRows

(* A bout is published with the one quote that its pick is priced by.      *)
LEMMA PublishStep ==
  ASSUME GradeInv, PageInv, NEW b \in CardBouts, PublishBout(b)
  PROVE  PageInv'
<1>1. RunsJob("recommend") /\ b \in tick.todo /\ UNCHANGED <<clock, start, ledger>>
  BY DEF PublishBout
<1>2. PICK d \in Policies :
        /\ Agrees(b, d)
        /\ tick' = [tick EXCEPT !.todo = @ \ {b}, !.tx = WithQuote(WithBout(b, d), KeyOf(b, d), d)]
  BY DEF PublishBout
<1> DEFINE k == KeyOf(b, d)  c == tick.cutoff  x == tick.tx  e == WithBout(b, d)
           f == WithQuote(e, k, d)  new == [pub |-> k, ts |-> d.quote]
<1>3. /\ tick \in GradeTicks /\ tick # None /\ x \in VisibleRows /\ x \in Rows /\ UniqueKeys(x)
      /\ PageRows(x) /\ UnderWork /\ tick.status = "running"
  BY <1>1, RecommendIsUngraded, Seen DEF PageInv, RunsJob, GradeTicks
<1>4. /\ e.quotes = x.quotes /\ e.settled = x.settled /\ e.done = x.done /\ e.failed = x.failed
      /\ x.pubs \subseteq e.pubs
      /\ \A p \in e.pubs : p \in x.pubs \/
            (PubKey(p) = k /\ p.cutoff = c /\ p.bout = b /\ p.at \in 0..clock /\ p.state = d.state)
      /\ \E p \in e.pubs : PubKey(p) = k
      /\ \A p \in e.pubs : PubKey(p) = k => p.state = d.state
  BY <1>1, <1>2, WithBoutWrites
<1>5. e \in Rows
  BY <1>1, <1>3, RecommendIsUngraded, WithBoutKeeps DEF GradeInv
<1>51. k.cutoff = c /\ k.bout = b
  BY DEF KeyOf
<1>52. \A p : PubKey(p) = k => p.cutoff = c /\ p.bout = b
  BY DEF KeyOf, PubKey
<1>6. d.state = Confirmed => d.quote # None /\ d.quote \in QuoteTimes /\ d.quote \in Nat
  BY GradeAssumption DEF Policies
<1>7. f = IF d.state = Confirmed THEN [e EXCEPT !.quotes = @ \cup {new}] ELSE e
  BY <1>6 DEF WithQuote
<1> DEFINE N == IF d.state = Confirmed THEN {new} ELSE {}
<1>8. /\ f.pubs = e.pubs /\ f.settled = e.settled /\ f.done = e.done /\ f.failed = e.failed
      /\ f.quotes = e.quotes \cup N
  <2> HIDE DEF f, new, e
  <2>1. CASE d.state = Confirmed
    BY <1>5, <1>7, <2>1 DEF Rows
  <2>2. CASE d.state # Confirmed
    BY <1>7, <2>2
  <2> QED
    BY <2>1, <2>2
<1>9. \A q \in N : q.pub = k /\ q.ts = d.quote /\ d.state = Confirmed
  OBVIOUS
<1>10. d.state = Confirmed => N # {} /\ \A q, s \in N : q = s
  OBVIOUS
<1>11. tick' = [tick EXCEPT !.todo = @ \ {b}, !.tx = f]
  BY <1>2
<1> HIDE DEF e, f, N, k, x
<1>12. /\ tick'.tx = f /\ tick'.status = "running" /\ tick'.job = tick.job
       /\ tick'.cutoff = c /\ tick'.todo = tick.todo \ {b}
  BY <1>3, <1>11 DEF GradeTicks
<1>13. Dated(f)
  BY <1>3, <1>4, <1>8 DEF PageRows, Dated
<1>14. Backed(f)
  BY <1>3, <1>4, <1>8, <1>9 DEF PageRows, Backed
<1>15. Bounded(f)
  <2>1. PICK n \in Nat : \A q \in x.quotes : q.ts <= n
    BY <1>3 DEF PageRows, Bounded
  <2>2. CASE d.state = Confirmed
    <3> DEFINE m == n + d.quote
    <3>1. m \in Nat /\ n <= m /\ d.quote <= m
      BY <1>6, <2>2
    <3>2. \A q \in x.quotes : q.ts <= m
      BY <1>3, <2>1, <3>1, RowTypes
    <3> HIDE DEF m
    <3>3. \A q \in f.quotes : q.ts <= m
      BY <1>4, <1>8, <1>9, <3>1, <3>2
    <3> QED
      BY <1>3, <1>4, <1>8, <3>1, <3>3 DEF PageRows, Bounded
  <2>3. CASE d.state # Confirmed
    BY <1>3, <1>4, <1>8, <1>9, <2>1, <2>3 DEF PageRows, Bounded
  <2> QED
    BY <2>2, <2>3
<1>16. OneQuote(f)
  <2> SUFFICES ASSUME NEW p \in f.pubs, p.state = Confirmed, p.cutoff \notin f.failed
               PROVE  /\ QuotesOf(f, PubKey(p)) # {}
                      /\ \A q, s \in QuotesOf(f, PubKey(p)) : q = s
    BY DEF OneQuote
  <2>1. CASE PubKey(p) = k
    <3>1. d.state = Confirmed /\ c \notin x.failed
      BY <1>4, <1>8, <1>52, <2>1
    <3>2. \A q \in x.quotes : q.pub # k
      <4> SUFFICES ASSUME NEW q \in x.quotes, q.pub = k PROVE FALSE
        OBVIOUS
      <4>1. PICK y \in x.pubs : PubKey(y) = k
        BY <1>3 DEF PageRows, Backed
      <4>2. y.cutoff = c /\ y.bout = b
        BY <1>52, <4>1
      <4> QED
        BY <1>1, <1>3, <3>1, <4>1, <4>2 DEF UnderWork, x
    <3>3. QuotesOf(f, k) = N
      BY <1>4, <1>8, <1>9, <3>2 DEF QuotesOf
    <3> QED
      BY <1>10, <2>1, <3>1, <3>3
  <2>2. CASE PubKey(p) # k
    <3>1. p \in x.pubs /\ p.cutoff \notin x.failed
      BY <1>4, <1>8, <2>2
    <3>2. QuotesOf(f, PubKey(p)) = QuotesOf(x, PubKey(p))
      BY <1>4, <1>8, <1>9, <2>2 DEF QuotesOf
    <3> QED
      BY <1>3, <3>1, <3>2 DEF PageRows, OneQuote
  <2> QED
    BY <2>1, <2>2
<1>17. /\ tick'.job = "recommend" /\ tick'.cutoff <= clock
       /\ \A p \in f.pubs : p.cutoff = c \/ Ended(f, p.cutoff)
       /\ c \in f.failed \/ \A p \in f.pubs : p.cutoff = c => p.bout \notin tick'.todo
  BY <1>3, <1>4, <1>8, <1>12 DEF UnderWork, Ended, x
<1>18. UnderWork'
  BY <1>1, <1>12, <1>17 DEF UnderWork, Ended
<1> QED
  BY <1>1, <1>12, <1>13, <1>14, <1>15, <1>16, <1>18, TickMoves DEF PageRows

(* A recommend that goes on, or is done, writes no publication.            *)
LEMMA RecommendGoesOn ==
  ASSUME GradeInv, PageInv,
         AllBlocked \/ EndRecommend
           \/ \E b \in CardBouts : SkipBout(b) \/ ConflictBout(b) \/ QuoteRaises(b)
  PROVE  PageInv'
<1>1. RunsJob("recommend") /\ UNCHANGED <<clock, start, ledger>>
  BY DEF AllBlocked, EndRecommend, SkipBout, ConflictBout, QuoteRaises
<1> DEFINE c == tick.cutoff  x == tick.tx
<1>2. /\ tick \in GradeTicks /\ tick # None /\ x \in VisibleRows /\ x \in Rows /\ UniqueKeys(x)
      /\ PageRows(x) /\ UnderWork /\ tick.status = "running" /\ c \in Int
  BY <1>1, RecommendIsUngraded, Seen DEF PageInv, RunsJob, GradeTicks
<1>3. CASE AllBlocked \/ \E b \in CardBouts : ConflictBout(b)
  <2>1. FailTick(x)
    BY <1>3 DEF AllBlocked, ConflictBout
  <2> QED
    BY <1>1, <1>2, <2>1, FailStep
<1>4. CASE \E b \in CardBouts : QuoteRaises(b)
  <2>1. PICK b \in CardBouts, d \in Policies : FailTick(WithBout(b, d))
    BY <1>4 DEF QuoteRaises
  <2>2. WithBout(b, d) \in Rows
    BY <1>1, <1>2, RecommendIsUngraded, WithBoutKeeps DEF GradeInv
  <2> QED
    BY <1>1, <2>1, <2>2, WithBoutWrites, FailStep
<1>5. CASE \E b \in CardBouts : SkipBout(b)
  <2>1. PICK b \in CardBouts : tick' = [tick EXCEPT !.todo = @ \ {b}]
    BY <1>5 DEF SkipBout
  <2>2. /\ tick'.tx = x /\ tick'.status = "running" /\ tick'.job = tick.job
        /\ tick'.cutoff = c /\ tick'.todo = tick.todo \ {b}
    BY <1>2, <2>1 DEF GradeTicks
  <2>3. UnderWork'
    BY <1>1, <1>2, <2>2 DEF UnderWork, Ended
  <2> QED
    BY <1>1, <1>2, <2>2, <2>3, TickMoves
<1>6. CASE EndRecommend
  <2> DEFINE d == [job |-> "recommend", slot |-> c]  e == [x EXCEPT !.done = @ \cup {d}]
  <2>1. tick' = [tick EXCEPT !.status = "success", !.tx.done = @ \cup {d}] /\ tick.todo = {}
    BY <1>6 DEF EndRecommend
  <2>2. d.job = "recommend" /\ d.slot = c
    OBVIOUS
  <2> HIDE DEF d
  <2>3. /\ e.pubs = x.pubs /\ e.quotes = x.quotes /\ e.settled = x.settled /\ e.failed = x.failed
        /\ e.done = x.done \cup {d}
    BY <1>2 DEF Rows
  <2>4. tick'.tx = e /\ tick'.status = "success"
    BY <1>2, <2>1 DEF GradeTicks
  <2> HIDE DEF e
  <2>5. PageRows(e)
    BY <1>2, <2>3, SameRows DEF PageRows, Bounded
  <2>6. AllEnded(e)
    BY <1>2, <2>2, <2>3 DEF AllEnded, Ended, UnderWork
  <2> QED
    BY <1>1, <2>4, <2>5, <2>6, TickMoves
<1> QED
  BY <1>3, <1>4, <1>5, <1>6

LEMMA StartRecommendStep ==
  ASSUME GradeInv, PageInv, StartRecommend
  PROVE  PageInv'
<1>1. PICK barred \in SUBSET CardBouts :
        tick' = [job |-> "recommend", cutoff |-> CutoffOf(start), todo |-> CardBouts \ barred,
                 blocked |-> barred, tx |-> ledger, status |-> "running"]
  BY DEF StartRecommend, BeginTick
<1>2. /\ UNCHANGED <<clock, start, ledger>> /\ CutoffOf(start) <= clock
      /\ NotDone("recommend", CutoffOf(start))
  BY DEF StartRecommend, RecommendDue
<1>3. /\ tick'.job = "recommend" /\ tick'.cutoff = CutoffOf(start) /\ tick'.tx = ledger
      /\ tick'.status = "running"
  BY <1>1
<1>4. PageRows(ledger) /\ AllEnded(ledger)
  BY Seen DEF PageInv
<1>5. CutoffOf(start) \in ledger.failed \/ \A p \in ledger.pubs : p.cutoff # CutoffOf(start)
  BY <1>2, <1>4 DEF AllEnded, Ended, NotDone
<1> DEFINE t == tick'
<1>6. /\ t.job = "recommend" /\ t.cutoff <= clock'
      /\ \A p \in t.tx.pubs : p.cutoff = t.cutoff \/ Ended(t.tx, p.cutoff)
      /\ t.cutoff \in t.tx.failed
           \/ \A p \in t.tx.pubs : p.cutoff = t.cutoff => p.bout \notin t.todo
  BY <1>2, <1>3, <1>4, <1>5 DEF AllEnded
<1>7. UnderWork'
  BY <1>6 DEF UnderWork, Ended
<1> QED
  BY <1>2, <1>3, <1>4, <1>7, TickMoves

LEMMA GradeEventStep ==
  ASSUME GradeInv, PageInv, GradeEvent
  PROVE  PageInv'
<1>1. UNCHANGED <<clock, start, ledger>>
  BY DEF GradeEvent
<1> DEFINE v == <<"event_night", 1>>
<1>2. PICK P \in {{}, ledger.pubs} :
        tick' = [job |-> "grade", cutoff |-> 0, todo |-> {}, blocked |-> {}, status |-> "success",
                 tx |-> [Settle(ledger, P, v) EXCEPT !.done = @ \cup {[job |-> "grade", slot |-> 0]}]]
  BY DEF GradeEvent
<1> DEFINE r == Settle(ledger, P, v)  e == [r EXCEPT !.done = @ \cup {[job |-> "grade", slot |-> 0]}]
<1>3. ledger \in Rows /\ SettledAtEarliest(ledger) /\ SettledAtQuote(ledger)
      /\ PageRows(ledger) /\ AllEnded(ledger) /\ v \in ResultVersions
  BY Seen, GradeAssumption DEF GradeInv, GradeTypeOK, PageInv
<1>4. P \in SUBSET ledger.pubs
  OBVIOUS
<1> HIDE DEF v
<1>5. r \in Rows /\ r.pubs = ledger.pubs /\ r.done = ledger.done /\ r.quotes = ledger.quotes
  BY <1>3, <1>4, SettleKeeps
<1>6. r.failed = ledger.failed /\ \E n \in Nat : \A s \in r.settled : s.version[2] <= n
  BY <1>3, <1>4, SettledIsBounded DEF PageRows
<1>7. tick'.tx = e /\ tick'.status = "success"
  BY <1>2
<1> HIDE DEF r
<1>8. /\ e.pubs = r.pubs /\ e.quotes = r.quotes /\ e.settled = r.settled /\ e.failed = r.failed
      /\ r.done \subseteq e.done
  BY <1>5 DEF Rows
<1> HIDE DEF e
<1>9. PageRows(e)
  BY <1>3, <1>5, <1>6, <1>8, SameRows
<1>10. AllEnded(e)
  BY <1>3, <1>5, <1>6, <1>8 DEF AllEnded, Ended
<1> QED
  BY <1>1, <1>7, <1>9, <1>10, TickMoves

LEMMA LedgerStep ==
  ASSUME GradeInv, PageInv,
         ClockRuns \/ MoveEvent \/ CorrectResult \/ CommitTick \/ TickKilled
  PROVE  PageInv'
<1>1. /\ ledger \in Rows /\ SettledAtEarliest(ledger) /\ SettledAtQuote(ledger)
      /\ PageRows(ledger) /\ AllEnded(ledger) /\ clock \in Nat
  BY Seen DEF GradeInv, GradeTypeOK, PageInv
<1>2. tick' = None
  BY DEF ClockRuns, MoveEvent, CorrectResult, CommitTick, TickKilled, NoTick
<1>3. clock' \in {clock, clock + 1}
  BY DEF ClockRuns, MoveEvent, CorrectResult, CommitTick, TickKilled
<1>4. ASSUME NEW r, PageRows(r), AllEnded(r), ledger' = r PROVE PageInv'
  <2>1. \A t : t \in 0..clock => t \in 0..clock'
    BY <1>1, <1>3
  <2>2. Dated(r)'
    BY <1>4, <2>1 DEF PageRows, Dated
  <2>3. PageRows(ledger)'
    BY <1>4, <2>2 DEF PageRows, Dated, Bounded, Backed, OneQuote, QuotesOf, PubKey
  <2>4. AllEnded(ledger)'
    BY <1>4 DEF AllEnded, Ended
  <2> QED
    BY <1>2, <2>3, <2>4, LedgerMoves
<1>5. CASE ClockRuns \/ MoveEvent \/ TickKilled
  BY <1>1, <1>4, <1>5 DEF ClockRuns, MoveEvent, TickKilled
<1>6. CASE CommitTick
  BY <1>4, <1>6, Seen DEF CommitTick, NoTick, PageInv
<1>7. CASE CorrectResult
  <2>1. PICK v \in ResultVersions : ledger' = Settle(ledger, ledger.pubs, v)
    BY <1>7 DEF CorrectResult
  <2> DEFINE r == Settle(ledger, ledger.pubs, v)
  <2>2. r \in Rows /\ r.pubs = ledger.pubs /\ r.done = ledger.done /\ r.quotes = ledger.quotes
    BY <1>1, SettleKeeps
  <2>3. r.failed = ledger.failed /\ \E n \in Nat : \A s \in r.settled : s.version[2] <= n
    BY <1>1, SettledIsBounded DEF PageRows
  <2>4. ledger' = r
    BY <2>1
  <2> HIDE DEF r
  <2>5. PageRows(r)
    BY <1>1, <2>2, <2>3, SameRows
  <2>6. AllEnded(r)
    BY <1>1, <2>2, <2>3 DEF AllEnded, Ended
  <2> QED
    BY <1>4, <2>4, <2>5, <2>6
<1> QED
  BY <1>5, <1>6, <1>7

(* The rows are fit for a page in every state: dated, with a price for a   *)
(* confirmed pick unless its recommend failed, and no cutoff is committed  *)
(* half-done (handle_recommend).                                           *)
THEOREM PageInvariant == GradeSpec => []PageInv
<1>1. GradeInit => PageInv
  <2> SUFFICES ASSUME GradeInit PROVE PageInv
    OBVIOUS
  <2>1. tick = None /\ ledger = EmptyRows
    BY DEF GradeInit
  <2>2. /\ EmptyRows.pubs = {} /\ EmptyRows.quotes = {} /\ EmptyRows.settled = {}
    BY DEF EmptyRows
  <2>3. PageRows(EmptyRows) /\ AllEnded(EmptyRows)
    <3>1. 0 \in Nat
      OBVIOUS
    <3> QED
      BY <2>2, <3>1 DEF PageRows, Dated, Bounded, Backed, OneQuote, AllEnded
  <2> QED
    BY <2>1, <2>3, Seen DEF PageInv
<1>2. GradeInv /\ PageInv /\ [GradeNext]_gradeVars => PageInv'
  <2> SUFFICES ASSUME GradeInv, PageInv, [GradeNext]_gradeVars PROVE PageInv'
    OBVIOUS
  <2>1. CASE ClockRuns \/ MoveEvent \/ CorrectResult \/ CommitTick \/ TickKilled
    BY <2>1, LedgerStep
  <2>2. CASE StartRecommend
    BY <2>2, StartRecommendStep
  <2>3. CASE GradeEvent
    BY <2>3, GradeEventStep
  <2>4. CASE AllBlocked \/ EndRecommend
    BY <2>4, RecommendGoesOn
  <2>5. ASSUME NEW b \in CardBouts,
               SkipBout(b) \/ PublishBout(b) \/ ConflictBout(b) \/ QuoteRaises(b)
        PROVE  PageInv'
    BY <2>5, RecommendGoesOn, PublishStep
  <2>6. CASE UNCHANGED gradeVars
    BY <2>6 DEF gradeVars, PageInv, VisibleRows, PageRows, Dated, Bounded, Backed, OneQuote,
      QuotesOf, PubKey, AllEnded, Ended, UnderWork
  <2> QED
    BY <2>1, <2>2, <2>3, <2>4, <2>5, <2>6 DEF GradeNext
<1> QED
  BY <1>1, <1>2, GradeInvariant, PTL DEF GradeSpec

(* PageAgrees: whatever a recommend writes, moved, retried, left half-done *)
(* or killed, and whatever is settled and corrected since, the page that   *)
(* is made of the rows passes the contract if it is built, it is built     *)
(* unless a recommend failed half-way, each bout has its row, and a bet is *)
(* shown at the price that it is settled at (publish/builder.py,           *)
(* validator.py).                                                          *)
THEOREM PagesAgree == GradeSpec => []PageAgrees
<1>1. GradeInv /\ PageInv => PageAgrees
  <2> SUFFICES ASSUME GradeInv, PageInv, NEW r \in PublishedRows
               PROVE  PageReads(r) /\ r.pubs # {}
    BY PageIsRight DEF PageAgrees
  <2>1. r \in VisibleRows /\ r.pubs # {}
    BY Seen DEF PublishedRows, NoTick
  <2>2. r \in Rows /\ clock \in Nat
    BY <2>1, Seen DEF GradeInv, GradeTypeOK, GradeTicks
  <2> QED
    BY <2>1, <2>2 DEF PageReads, GradeInv, PageInv
<1> QED
  BY <1>1, GradeInvariant, PageInvariant, PTL
=============================================================================
