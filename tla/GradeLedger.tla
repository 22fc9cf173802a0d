----------------------------- MODULE GradeLedger ----------------------------
(***************************************************************************)
(* The official recommendations of one event and what becomes of them: the *)
(* recommend job writes a publication per bout at T-60 and the price that  *)
(* was observed, the grade job settles the bets, corrections append later  *)
(* versions.  Rows are never updated or deleted (db/grade_guards.py).      *)
(*                                                                         *)
(* Source: src/mma_model/grade/service.py, handle_recommend and            *)
(* handle_grade of jobs/handlers.py, the windows of jobs/due.py.           *)
(*                                                                         *)
(* A tick is one transaction, and one tick runs at a time (WeeklyTick has  *)
(* the overlaps).  What the policy decides is open at every attempt; the   *)
(* thresholds, hashes and texts of a row stand behind its state.           *)
(***************************************************************************)
EXTENDS Integers, FiniteSets, Nothing

CONSTANTS
  CardBouts,      \* event.bout_ids
  Selections,     \* the selections of a bout
  PubStates,      \* no_bet, price_target, confirmed_value, or some of them
  QuoteTimes,     \* when a quote can have been observed
  ResultVersions, \* <<result_version_kind, revision>>
  OfficialOffset, \* the cutoff lies this long before the start
  ResultsWindow,  \* how long after the start grade is due
  Starts,         \* the starts discover may move the event to
  MaxClock        \* bound of the model

ASSUME GradeAssumption ==
  /\ OfficialOffset \in Nat \ {0} /\ ResultsWindow \in Nat /\ MaxClock \in Nat
  /\ QuoteTimes \subseteq Nat /\ Starts \subseteq Nat /\ Starts # {}
  /\ <<"event_night", 1>> \in ResultVersions /\ \A v \in ResultVersions : v[2] \in Nat
  /\ None \notin QuoteTimes /\ None \notin [bout : CardBouts, sel : Selections, cutoff : Int]
  /\ PubStates \subseteq {"no_bet", "price_target", "confirmed_value"}

VARIABLES
  clock,          \* the clock
  start,          \* the event's start in the database
  ledger,         \* the committed rows
  tick            \* the tick that runs, with its open transaction, or None

gradeVars == <<clock, start, ledger, tick>>
-----------------------------------------------------------------------------
CutoffOf(s) == s - OfficialOffset

(* The tables, the recommend and grade keys with a success, and the        *)
(* cutoffs for which a recommend has failed.                               *)
EmptyRows == [pubs |-> {}, quotes |-> {}, settled |-> {},
              done |-> {}, failed |-> {}]

NoBet == "no_bet"
Confirmed == "confirmed_value"

(* official_t60_idempotency_key.                                           *)
PubKey(p) == [bout |-> p.bout, sel |-> p.sel, cutoff |-> p.cutoff]

NoTick == tick = None

BeginTick(job, cutoff, todo, blocked) ==
  tick' = [job |-> job, cutoff |-> cutoff, todo |-> todo,
           blocked |-> blocked, tx |-> ledger, status |-> "running"]

RunsJob(job) == ~NoTick /\ tick.job = job /\ tick.status = "running"

(* published_at of every publication of an attempt, as_of being the clock. *)
PublishedAt == IF clock >= tick.cutoff THEN clock ELSE tick.cutoff

Keyed(rows, k) == { p \in rows.pubs : PubKey(p) = k }

KeyOf(b, d) == [bout |-> b, sel |-> d.sel, cutoff |-> tick.cutoff]

SameFields(row, d) == row.state = d.state /\ row.at = PublishedAt

WithPub(rows, b, d) ==
  [rows EXCEPT !.pubs = @ \cup
     {[bout |-> b, sel |-> d.sel, cutoff |-> tick.cutoff,
       at |-> PublishedAt, state |-> d.state]}]

(* record_observed_price, for a priced confirmed_value only: one row per   *)
(* publication and quote.                                                  *)
WithQuote(rows, k, d) ==
  IF d.state = Confirmed /\ d.quote # None
  THEN [rows EXCEPT !.quotes = @ \cup {[pub |-> k, ts |-> d.quote]}]
  ELSE rows

(* evaluate_selection: a confirmed value has an eligible quote and a price *)
(* target has none.                                                        *)
Policies ==
  { d \in [sel : Selections, state : PubStates, quote : QuoteTimes \cup {None}] :
      /\ d.state = Confirmed => d.quote # None
      /\ d.state = "price_target" => d.quote = None }
-----------------------------------------------------------------------------
GradeInit ==
  /\ clock = 0
  /\ start \in Starts
  /\ ledger = EmptyRows
  /\ tick = None

(* What a tick does depends on the time it began at, its as_of: the clock  *)
(* stands still meanwhile.                                                 *)
ClockRuns ==
  /\ NoTick /\ clock < MaxClock /\ clock' = clock + 1
  /\ UNCHANGED <<start, ledger, tick>>

(* discover moves an event that has not started.                           *)
MoveEvent ==
  /\ NoTick /\ clock < start
  /\ start' \in { s \in Starts \ {start} : clock < s }
  /\ UNCHANGED <<clock, ledger, tick>>

RecommendDue == CutoffOf(start) <= clock /\ clock < start

NotDone(job, slot) == ~\E d \in ledger.done : d.job = job /\ d.slot = slot

(* Bouts without an identity are left out; all of them is a failure.       *)
StartRecommend ==
  /\ NoTick /\ RecommendDue
  /\ NotDone("recommend", CutoffOf(start))
  /\ \E blocked \in SUBSET CardBouts :
       BeginTick("recommend", CutoffOf(start), CardBouts \ blocked, blocked)
  /\ UNCHANGED <<clock, start, ledger>>

FailTick(rows) ==
  tick' = [tick EXCEPT !.status = "failed",
                       !.tx = [rows EXCEPT !.failed = @ \cup {tick.cutoff}]]

AllBlocked ==
  /\ RunsJob("recommend") /\ tick.blocked = CardBouts
  /\ FailTick(tick.tx)
  /\ UNCHANGED <<clock, start, ledger>>

(* Without thresholds a bout is skipped: they are never invented.  The job *)
(* succeeds all the same, if need be with none.                            *)
SkipBout(b) ==
  /\ RunsJob("recommend") /\ b \in tick.todo
  /\ tick' = [tick EXCEPT !.todo = @ \ {b}]
  /\ UNCHANGED <<clock, start, ledger>>

(* publish_official_t60: a new row, or the equal one that is there.        *)
WithBout(b, d) ==
  IF Keyed(tick.tx, KeyOf(b, d)) = {} THEN WithPub(tick.tx, b, d) ELSE tick.tx

Agrees(b, d) == \A p \in Keyed(tick.tx, KeyOf(b, d)) : SameFields(p, d)

PublishBout(b) ==
  /\ RunsJob("recommend") /\ b \in tick.todo
  /\ \E d \in Policies :
       /\ Agrees(b, d)
       /\ tick' = [tick EXCEPT !.todo = @ \ {b},
                     !.tx = WithQuote(WithBout(b, d), KeyOf(b, d), d)]
  /\ UNCHANGED <<clock, start, ledger>>

(* The same key with other fields raises GradeLedgerValidationError.       *)
ConflictBout(b) ==
  /\ RunsJob("recommend") /\ b \in tick.todo
  /\ \E d \in Policies : ~Agrees(b, d) /\ FailTick(tick.tx)
  /\ UNCHANGED <<clock, start, ledger>>

(* A quote that does not validate raises after its publication is written; *)
(* the rows of the attempt stay in the tick's transaction.                 *)
QuoteRaises(b) ==
  /\ RunsJob("recommend") /\ b \in tick.todo
  /\ \E d \in Policies :
       d.state = Confirmed /\ Agrees(b, d) /\ FailTick(WithBout(b, d))
  /\ UNCHANGED <<clock, start, ledger>>

EndRecommend ==
  /\ RunsJob("recommend") /\ tick.todo = {} /\ tick.blocked # CardBouts
  /\ tick' = [tick EXCEPT !.status = "success",
       !.tx.done = @ \cup {[job |-> "recommend", slot |-> tick.cutoff]}]
  /\ UNCHANGED <<clock, start, ledger>>
-----------------------------------------------------------------------------
(* Mutant: every quote prices the bet.                                     *)
EveryQuote(Q) == Q

Earliest(Q) == { q \in Q : \A r \in Q : q.ts <= r.ts }

QuotesOf(rows, k) == { q \in rows.quotes : q.pub = k }

(* settle_recommendations: only a confirmed_value with an observed price,  *)
(* at its earliest one; the price is part of the settlement's key.         *)
Settle(rows, P, v) ==
  [rows EXCEPT !.settled = @ \cup
     { [pub |-> q.pub, ts |-> q.ts, version |-> v] :
         q \in UNION { Earliest(QuotesOf(rows, PubKey(p))) :
                         p \in { x \in P : x.state = Confirmed } } }]

(* grade runs on the final results, over the publications that the context *)
(* names: none (as `jobs tick` has it) or the event's.                     *)
GradeEvent ==
  /\ NoTick /\ start <= clock /\ clock <= start + ResultsWindow
  /\ NotDone("grade", 0)
  /\ \E P \in {{}, ledger.pubs} :
       tick' = [job |-> "grade", cutoff |-> 0, todo |-> {},
                blocked |-> {}, status |-> "success",
                tx |-> [Settle(ledger, P, <<"event_night", 1>>) EXCEPT
                          !.done = @ \cup {[job |-> "grade", slot |-> 0]}]]
  /\ UNCHANGED <<clock, start, ledger>>

(* A correction settles again under a version of its own (the handlers     *)
(* reconcile-24h and reconcile-7d do not do it yet; the service does).     *)
CorrectResult ==
  /\ NoTick /\ ~NotDone("grade", 0)
  /\ \E v \in ResultVersions : ledger' = Settle(ledger, ledger.pubs, v)
  /\ UNCHANGED <<clock, start, tick>>

(* The tick commits whatever became of its job, or is killed.              *)
CommitTick ==
  /\ ~NoTick /\ tick.status # "running"
  /\ ledger' = tick.tx /\ tick' = None
  /\ UNCHANGED <<clock, start>>

TickKilled == ~NoTick /\ tick' = None /\ UNCHANGED <<clock, start, ledger>>

GradeNext ==
  \/ ClockRuns \/ MoveEvent
  \/ StartRecommend \/ AllBlocked \/ EndRecommend
  \/ \E b \in CardBouts : SkipBout(b) \/ PublishBout(b)
                        \/ ConflictBout(b) \/ QuoteRaises(b)
  \/ GradeEvent \/ CorrectResult \/ CommitTick \/ TickKilled

GradeSpec == GradeInit /\ [][GradeNext]_gradeVars
-----------------------------------------------------------------------------
(* The rows a job can see: the committed ones and those of the open tick.  *)
VisibleRows == {ledger} \cup { t.tx : t \in {tick} \ {None} }

(* A key names one publication: a retry either finds an equal row or is    *)
(* refused (_assert_official_t60_matches).  And the price a bet is settled *)
(* at is fixed before the first settlement: for each version of the result *)
(* a publication has one settlement, although the observed price is part   *)
(* of the settlement's key and the earliest quote is looked up again each  *)
(* time.                                                                   *)
OneRowPerKey ==
  \A r \in VisibleRows :
    /\ \A p, q \in r.pubs : PubKey(p) = PubKey(q) => p = q
    /\ \A s, t \in r.settled : s.pub = t.pub /\ s.version = t.version => s = t
=============================================================================
