--------------------------- MODULE BacktestReport ---------------------------
(***************************************************************************)
(* What a backtest reports: every bout of the programme is attempted once, *)
(* its predicted selections are priced or left at a threshold, settled and *)
(* counted, as a whole and by universe, year, market and source; and the   *)
(* intervals come from drawing whole cards with replacement.               *)
(*                                                                         *)
(* Source: backtest/engine.py, backtest/metrics.py, value/kelly.py.        *)
(*                                                                         *)
(* Profits are hundredths of a stake and stakes basis points of the        *)
(* bankroll, rounded down.  A bankroll is the list of what its cards won   *)
(* or lost of it; scores are what they are computed from.  join_quote's    *)
(* choice between several quotes is WalkForward's.                         *)
(***************************************************************************)
EXTENDS RecommendPolicy, SequencesExt, Integers

CONSTANTS
  Programme,     \* the cards by cutoff: [event, season, variant, start, bouts], bouts a sequence
  CasesOf,       \* bout -> what may be of it: [model, rounds, chance, book, facts, quality],
                 \* the facts None when no result is known
  Requested,     \* replicates of the bootstrap
  MaxDraws       \* max_attempts

InOrder(S) == FoldSet(LAMBDA x, row : Append(row, x), <<>>, S)

(* The selections that a model predicts.                                   *)
Predicted(case) ==
  CASE case.model = "M1" -> Catalog("moneyline", None, case.rounds)
    [] case.model = "M2" -> UNION {Catalog(m[1], m[2], case.rounds) : m \in Markets}
    [] OTHER -> {}

ChanceType(c) == c.p50 \in Nat /\ c.p25 \in Nat \cup {None} /\ c.void \in (0 .. 99) \cup {None}

(* A quote has a time, and no decision denies a price that a user saw.     *)
OfferType(q) ==
  /\ q # None /\ q.odds \in Nat /\ q.observed \in Int \ {None}
  /\ q.kind \in {"automatic", "user_observed"}
  /\ q.kind = "user_observed" => q.decision = None \/ q.decision.eligible

CaseType(case) ==
  /\ case.rounds \in Nat
  /\ \A bet \in Predicted(case) : ChanceType(case.chance[bet])
  /\ \A bet \in DOMAIN case.book : OfferType(case.book[bet])

(* An event is one card, and a bout is on one card, once.                  *)
ASSUME ReportAssumption ==
  /\ Requested \in Nat \ {0} /\ MaxDraws \in Nat /\ Requested <= MaxDraws
  /\ DOMAIN Programme = 1 .. Len(Programme) /\ Len(Programme) \in Nat
  /\ \A i \in DOMAIN Programme :
       /\ Programme[i].variant \in {"standard", "brazil"} /\ Programme[i].start \in Int
       /\ Programme[i].bouts \in Seq(DOMAIN CasesOf)
       /\ \A j, k \in DOMAIN Programme[i].bouts :
            Programme[i].bouts[j] = Programme[i].bouts[k] => j = k
  /\ \A i, k \in DOMAIN Programme : i # k =>
       /\ Programme[i].event # Programme[k].event
       /\ ToSet(Programme[i].bouts) \cap ToSet(Programme[k].bouts) = {}
  /\ \A b \in DOMAIN CasesOf : \A case \in CasesOf[b] : CaseType(case)

VARIABLES
  tried,      \* the BoutAttempts so far, in order
  boot        \* the bootstrap: [draws, last, roi, clv, empty, missing]

reportVars == <<tried, boot>>

(* The elements of a sequence that pass, in their order.                   *)
Kept(s, Test(_)) == FlattenSeq([i \in DOMAIN s |-> IF Test(s[i]) THEN <<s[i]>> ELSE <<>>])

ReportCutoff(card) == card.start - 1
-----------------------------------------------------------------------------
(* Markets predicted: the moneyline of the ridge, which leaves the other   *)
(* families unavailable; every selection of the joint model.               *)
Market(bet, chance) ==
  [bet |-> bet, p50 |-> chance.p50, p25 |-> chance.p25, positive |-> chance.positive,
   void |-> IF bet.family \in VoidOnDraw THEN chance.void ELSE None, available |-> TRUE]

Unsupported(family) ==
  [bet |-> Selection(family, None, None), p50 |-> 0, p25 |-> None, positive |-> None,
   void |-> None, available |-> FALSE]

MoneylineMarkets(chance) ==
  <<Market(Selection("moneyline", "a", None), chance[Selection("moneyline", "a", None)]),
    Market(Selection("moneyline", "b", None), chance[Selection("moneyline", "b", None)])>>
  \o InOrder({Unsupported(m[1]) : m \in {x \in Markets : x[1] # "moneyline"}})

MarketsFromJoint(case) ==
  LET bets == InOrder(Predicted(case))
  IN [i \in DOMAIN bets |-> Market(bets[i], case.chance[bets[i]])]

PredictedMarkets(case) ==
  CASE case.model = "M1" -> MoneylineMarkets(case.chance)
    [] case.model = "M2" -> MarketsFromJoint(case)
    [] OTHER -> <<>>

(* join_quote: why the price as of the cutoff cannot be taken, or None.    *)
Refusal(q, cutoff) ==
  IF q.observed > cutoff THEN "post_cutoff_odds"
  ELSE IF "ambiguous" \in q.flags THEN "ambiguous_odds"
  ELSE IF "replaced" \in q.flags \/ q.lifecycle = "replaced" THEN "replaced_odds"
  ELSE IF q.lifecycle = "stale" THEN "stale_odds"
  ELSE IF "suspended" \in q.flags \/ q.lifecycle \in BlockingLifecycles THEN "suspended_odds"
  ELSE IF q.decision # None /\ ~q.decision.eligible THEN "ineligible_quote" ELSE None

Least(x, y) == IF x < y THEN x ELSE y

Conditional(p, void) == IF void = None THEN p ELSE (100 * p) \div (100 - void)

(* _is_pre_policy_candidate: actionable at the offered price; the joint    *)
(* model's lower quantile is of the bouts that are not void already.       *)
IsCandidate(m, odds, model) ==
  /\ m.p25 # None
  /\ LET p50 == Conditional(m.p50, m.void)
         p25 == IF model = "M2" THEN m.p25 ELSE Conditional(m.p25, m.void)
     IN Actionable([bet |-> m.bet, p50 |-> p50, p25 |-> Least(p25, p50)], odds)

SettleMarket(f, bet) == IF f = None THEN "unresolved" ELSE Settle(bet, f, "under")

(* The closing price that a value is measured against, with a time of its  *)
(* own; a quote whose time is a proxy has none.                            *)
ClosingOf(q, start) ==
  IF \/ q.proxy \/ q.closing = None
     \/ q.closing.at <= q.observed \/ q.closing.at > start
  THEN None ELSE q.closing.odds

PricedRow(m, q, case, start) ==
  [bet |-> m.bet, quote |-> q, p50 |-> m.p50, p25 |-> m.p25, void |-> m.void,
   settlement |-> SettleMarket(case.facts, m.bet), closing |-> ClosingOf(q, start),
   candidate |-> IsCandidate(m, q.odds, case.model)]

(* A price that cannot be taken is shown, but for an ambiguous one; none   *)
(* is looked for where the market is unavailable.                          *)
ThresholdRow(m, q, cutoff) ==
  [bet |-> m.bet,
   quote |-> IF ~m.available \/ q = None \/ Refusal(q, cutoff) = "ambiguous_odds" THEN None ELSE q]

(* _grade_bout and _attempt_from_locked.                                   *)
GradeBout(card, b, case) ==
  LET markets == PredictedMarkets(case)
      quote(m) == IF m.bet \in DOMAIN case.book THEN case.book[m.bet] ELSE None
      priced(m) ==
        m.available /\ quote(m) # None /\ Refusal(quote(m), ReportCutoff(card)) = None
      unpriced(m) == ~priced(m)
      P == Kept(markets, priced)
      T == Kept(markets, unpriced)
  IN [event |-> card.event, bout |-> b, model |-> case.model, season |-> card.season, variant |-> card.variant,
      cutoff |-> ReportCutoff(card),
      status |-> IF case.model \in {"M1", "M2"} THEN "predicted" ELSE case.model,
      markets |-> markets, facts |-> case.facts, quality |-> case.quality,
      priced |-> [i \in DOMAIN P |-> PricedRow(P[i], quote(P[i]), case, card.start)],
      threshold |-> [i \in DOMAIN T |-> ThresholdRow(T[i], quote(T[i]), ReportCutoff(card))]]
-----------------------------------------------------------------------------
(* _attempts_to_rows: priced bets and settled selections, each with the    *)
(* card it counts on, and the outcomes that a prediction is scored by.     *)
BetsOf(a) ==
  [i \in DOMAIN a.priced |->
     [event |-> a.event, block |-> a.event, bout |-> a.bout, season |-> a.season,
      variant |-> a.variant, row |-> a.priced[i]]]

AllBets(as) == FlattenSeq([i \in DOMAIN as |-> BetsOf(as[i])])

MarketRowsOf(a) ==
  {[event |-> a.event, block |-> a.event, bout |-> a.bout, season |-> a.season,
    variant |-> a.variant, bet |-> m.bet, settlement |-> SettleMarket(a.facts, m.bet)] :
     m \in {x \in ToSet(a.markets) : x.available}}

MarketRows(as) == UNION {MarketRowsOf(a) : a \in ToSet(as)}

DecidedFor(f) == IF f = None \/ f.class # "decisive" THEN None ELSE f.winner

ObservedAtom(f) ==
  IF f = None THEN None
  ELSE IF f.winner = None \/ f.method = None
    THEN IF f.class = "draw" THEN Draw ELSE None
  ELSE TerminalAtom(f)

OutcomesOf(as) ==
  {[bout |-> a.bout, event |-> a.event, season |-> a.season, variant |-> a.variant,
    y |-> DecidedFor(a.facts),
    atom |-> IF a.model = "M2" THEN ObservedAtom(a.facts) ELSE None] :
     a \in {x \in ToSet(as) : x.status = "predicted"}}
-----------------------------------------------------------------------------
Total(values) == FoldFunction(LAMBDA x, y : x + y, 0, values)

OnEvent(rows, e) == {r \in rows : r.event = e}

(* selection_metrics: how the attempts ended.                              *)
SelectionMetrics(as) ==
  LET count(S) == Cardinality(S)
      having(status) == {i \in DOMAIN as : as[i].status = status}
  IN [attempted |-> Len(as),
      ended |-> [status \in {"predicted", "unavailable", "abstained", "locked"} |->
                   count(having(status))],
      priced |-> count({i \in DOMAIN as : as[i].priced # <<>>}),
      thresholdOnly |-> count({i \in DOMAIN as : as[i].threshold # <<>> /\ as[i].priced = <<>>}),
      candidates |-> count({i \in DOMAIN as : \E j \in DOMAIN as[i].priced : as[i].priced[j].candidate})]

(* flat_unit_profit of what is settled.                                    *)
Profit(row) ==
  CASE row.settlement = "win" -> row.quote.odds - 100
    [] row.settlement = "loss" -> -100
    [] OTHER -> 0

(* quarter_kelly_fraction, with the part that may be void left out, up to  *)
(* one percent of the bankroll.                                            *)
KellyStake(row) ==
  LET p == Conditional(row.p50, row.void)
      o == row.quote.odds
  IN IF p * o <= 10000 THEN 0 ELSE Least(100, ((p * o - 10000) * 25) \div (o - 100))

SettledBets(bets) ==
  LET settled(b) == b.row.settlement # "unresolved" IN Kept(bets, settled)

Qualifying(bets) == LET c(b) == b.row.candidate IN Kept(bets, c)

(* longest_losing_run: a push or a void ends a run, as a win does.         *)
LosingRun(bets) ==
  LET step(run, b) ==
        LET n == IF b.row.settlement = "loss" THEN run.now + 1 ELSE 0
        IN [now |-> n, longest |-> IF n > run.longest THEN n ELSE run.longest]
  IN FoldLeft(step, [now |-> 0, longest |-> 0], SettledBets(bets)).longest

(* kelly_bankroll_path: the cards in the order they are met, each staked   *)
(* from the bankroll it starts with.                                       *)
Blocks(bets) ==
  LET step(seen, b) == IF b.block \in ToSet(seen) THEN seen ELSE Append(seen, b.block)
  IN FoldLeft(step, <<>>, bets)

CardGain(bets, block) ==
  LET on(b) == b.block = block
      B == Kept(SettledBets(bets), on)
  IN Total([i \in DOMAIN B |-> KellyStake(B[i].row) * Profit(B[i].row)])

KellyPath(bets) ==
  LET cards == Blocks(bets) IN [i \in DOMAIN cards |-> CardGain(bets, cards[i])]

(* betting_metrics: over the candidates, what is settled of them; closing  *)
(* prices only where there is one.                                         *)
BettingMetrics(bets) ==
  LET Q == Qualifying(bets)
      S == SettledBets(Q)
      closes(b) == b.row.closing # None
      C == Kept(Q, closes)
  IN [priced |-> Len(bets), qualifying |-> Len(Q), settled |-> Len(S),
      profit |-> Total([i \in DOMAIN S |-> Profit(S[i].row)]),
      kelly |-> KellyPath(Q), losing |-> LosingRun(Q), closed |-> Len(C),
      clv |-> [i \in DOMAIN C |-> <<C[i].row.quote.odds, C[i].row.closing>>]]
-----------------------------------------------------------------------------
MutGroupKeyByBout(r) == <<r.bout, r.bet.family, r.bet.line>>

(* _market_group_key: a card that is drawn twice is two cards.             *)
GroupKey(r) == <<r.block, r.bout, r.bet.family, r.bet.line>>

(* _score_market_group: the outcome that the group's distribution is       *)
(* scored at, or why it is not scored; no round is the other outcome of    *)
(* the rounds.                                                             *)
ScoreGroup(members) ==
  LET family == (CHOOSE r \in members : TRUE).bet.family
      results == {r.settlement : r \in members}
      winners == {r.bet : r \in {x \in members : x.settlement = "win"}}
      excluded(why) == <<why, None>>
      scoredAt(bet) == <<"scored", bet>>
  IN IF "unresolved" \in results /\ results \cap {"win", "loss"} = {} THEN excluded("unresolved")
     ELSE IF family \in VoidOnDraw /\ results \cap {"void", "push"} # {} THEN excluded("void")
     ELSE IF "push" \in results THEN excluded("push")
     ELSE IF "void" \in results THEN excluded("void")
     ELSE IF Cardinality(winners) = 1 THEN scoredAt(CHOOSE bet \in winners : TRUE)
     ELSE IF winners # {} THEN excluded("raises")
     ELSE IF family = "exact_round" THEN scoredAt(Selection(family, "other", None))
     ELSE excluded("unresolved")

(* grouped_market_scores.                                                  *)
GroupScores(rows) ==
  {<<k, ScoreGroup({r \in rows : GroupKey(r) = k})>> : k \in {GroupKey(r) : r \in rows}}

Scored(scores) == {s \in scores : s[2][1] = "scored"}

(* per_market_outcome_metrics, of one family.                              *)
MarketMetrics(rows, family) ==
  LET scores == GroupScores({r \in rows : r.bet.family = family})
      ending(x) == {s \in scores : s[2][1] = x}
  IN [scored |-> Cardinality(Scored(scores)),
      excluded |-> [x \in {"unresolved", "void", "push"} |-> Cardinality(ending(x))],
      rows |-> [x \in {"unresolved", "void", "push"} |->
                  Cardinality({r \in rows : r.bet.family = family /\ r.settlement = x})]]

Families == {m[1] : m \in Markets}

(* outcome_metrics: the moneyline over decisive bouts, the joint model     *)
(* over bouts with an atom, and every family of markets.                   *)
OutcomeMetrics(outcomes, rows) ==
  [predicted |-> Cardinality(outcomes),
   decisive |-> Cardinality({o \in outcomes : o.y # None}),
   joint |-> Cardinality({o \in outcomes : o.atom # None}),
   markets |-> [f \in Families |-> MarketMetrics(rows, f)]]
-----------------------------------------------------------------------------
Universes == [all_dwcs |-> {"standard", "brazil"}, standard_only |-> {"standard"},
              brazil |-> {"brazil"}]

SourceOf(b) == b.row.quote.source

Thresholds(as) == FlattenSeq([i \in DOMAIN as |-> as[i].threshold])

PricedSelections(as) == Total([i \in DOMAIN as |-> Len(as[i].priced)])

SliceOf(as, bets, rows, outcomes) ==
  [betting |-> BettingMetrics(bets), attempts |-> Len(as), selection |-> SelectionMetrics(as),
   priced |-> PricedSelections(as), threshold |-> Len(Thresholds(as)),
   outcome |-> OutcomeMetrics(outcomes, rows)]

(* filter_attempts and its kin.                                            *)
UniverseSlice(as, u) ==
  LET in(x) == x.variant \in Universes[u]
  IN SliceOf(Kept(as, in), Kept(AllBets(as), in), {r \in MarketRows(as) : in(r)},
             {o \in OutcomesOf(as) : in(o)})

YearSlice(as, y) ==
  LET in(x) == x.season = y
  IN SliceOf(Kept(as, in), Kept(AllBets(as), in), {r \in MarketRows(as) : in(r)},
             {o \in OutcomesOf(as) : in(o)})

FamilySlice(as, f) ==
  LET bets(b) == b.row.bet.family = f
      unpriced(t) == t.bet.family = f
  IN [betting |-> BettingMetrics(Kept(AllBets(as), bets)),
      threshold |-> Len(Kept(Thresholds(as), unpriced)),
      outcome |-> MarketMetrics(MarketRows(as), f)]

SourceSlice(as, s) ==
  LET of(b) == SourceOf(b) = s IN [betting |-> BettingMetrics(Kept(AllBets(as), of))]

(* breakdowns.                                                             *)
Breakdowns(as) ==
  [universes |-> [u \in DOMAIN Universes |-> UniverseSlice(as, u)],
   years |-> [y \in {as[i].season : i \in DOMAIN as} |-> YearSlice(as, y)],
   markets |-> [f \in Families |-> FamilySlice(as, f)],
   sources |-> [s \in {SourceOf(b) : b \in ToSet(AllBets(as))} |-> SourceSlice(as, s)]]

(* assert_breakdowns_reconcile.                                            *)
SlicesReconcile(as) ==
  LET b == Breakdowns(as)
      n == Len(AllBets(as))
      left == Len(Thresholds(as))
      standard == b.universes["standard_only"]
      brazil == b.universes["brazil"]
  IN /\ standard.attempts + brazil.attempts = Len(as)
     /\ standard.betting.priced + brazil.betting.priced = n
     /\ PricedSelections(as) = n
     /\ Total([y \in DOMAIN b.years |-> b.years[y].attempts]) = Len(as)
     /\ Total([y \in DOMAIN b.years |-> b.years[y].priced]) = n
     /\ Total([y \in DOMAIN b.years |-> b.years[y].threshold]) = left
     /\ Total([f \in DOMAIN b.markets |-> b.markets[f].betting.priced]) = n
     /\ Total([f \in DOMAIN b.markets |-> b.markets[f].threshold]) = left
     /\ Total([x \in DOMAIN b.sources |-> b.sources[x].betting.priced]) = n
-----------------------------------------------------------------------------
(* event_blocks and resample_event_blocks: a card that is drawn comes with *)
(* all its bouts, and is another card each time.                           *)
EventsWithBets(bets) == {b.event : b \in ToSet(bets)}

Drawn(bets, draw) ==
  LET on(i) == LET here(b) == b.event = draw[i]
                   B == Kept(bets, here)
               IN [j \in DOMAIN B |-> [B[j] EXCEPT !.block = <<draw[i], i>>]]
  IN FlattenSeq([i \in DOMAIN draw |-> on(i)])

DrawnRows(rows, draw) ==
  UNION {{[r EXCEPT !.block = <<draw[i], i>>] : r \in OnEvent(rows, draw[i])} : i \in DOMAIN draw}

Draws(events) == [1 .. Cardinality(events) -> events]

NoBoot == [draws |-> 0, roi |-> <<>>, clv |-> <<>>, empty |-> 0, missing |-> 0]

Enough(bets) ==
  /\ Len(boot.roi) = Requested
  /\ (\E b \in ToSet(bets) : b.row.closing # None) => Len(boot.clv) = Requested

Keep(samples, x) == IF Len(samples) < Requested THEN Append(samples, x) ELSE samples

(* One replicate of bootstrap_betting_intervals: a draw with nothing       *)
(* settled is rejected, one without a closing price is missing, not zero.  *)
Replicate(m) ==
  LET more == [boot EXCEPT !.draws = @ + 1]
  IN IF m.settled = 0 THEN [more EXCEPT !.empty = @ + 1]
     ELSE [more EXCEPT !.roi = Keep(@, <<m.profit, m.settled>>),
                       !.missing = IF m.closed = 0 THEN @ + 1 ELSE @,
                       !.clv = IF m.closed = 0 THEN @ ELSE Keep(@, m.clv)]
-----------------------------------------------------------------------------
ReportInit == tried = <<>> /\ boot = NoBoot

ToAttempt == FlattenSeq([i \in DOMAIN Programme |->
  [j \in DOMAIN Programme[i].bouts |-> <<Programme[i], Programme[i].bouts[j]>>]])

AttemptBout ==
  /\ Len(tried) < Len(ToAttempt)
  /\ LET next == ToAttempt[Len(tried) + 1]
     IN \E case \in CasesOf[next[2]] :
          tried' = Append(tried, GradeBout(next[1], next[2], case))
  /\ UNCHANGED boot

Complete == Len(tried) = Len(ToAttempt)

DrawCards ==
  LET bets == AllBets(tried) IN
  /\ Complete /\ boot.draws < MaxDraws /\ ~Enough(bets)
  /\ SlicesReconcile(tried)
  /\ \E draw \in Draws(EventsWithBets(bets)) :
       boot' = Replicate(BettingMetrics(Drawn(bets, draw)))
  /\ UNCHANGED tried

ReportNext == AttemptBout \/ DrawCards

ReportSpec == ReportInit /\ [][ReportNext]_reportVars
-----------------------------------------------------------------------------
(* Every report adds up: its assertion never fires, the profits, bets and  *)
(* scores of the years, universes, markets and sources are those of the    *)
(* whole, no predicted selection is lost or counted twice, and a card that *)
(* is drawn several times counts several times, its groups scored by       *)
(* themselves as they are without the others.                              *)
ReportAddsUp ==
  Complete =>
    LET b == Breakdowns(tried)
        whole == b.universes["all_dwcs"].betting
        bets == AllBets(tried)
        rows == MarketRows(tried)
        sum(slices) == Total([x \in DOMAIN slices |-> slices[x].betting.profit])
        scoresOn == [e \in {r.event : r \in rows} |-> Cardinality(Scored(GroupScores(OnEvent(rows, e))))]
        gainOn == [e \in EventsWithBets(bets) |-> BettingMetrics(Drawn(bets, <<e>>)).profit]
    IN /\ SlicesReconcile(tried)
       /\ sum(b.years) = whole.profit /\ sum(b.markets) = whole.profit
       /\ sum(b.sources) = whole.profit
       /\ Total([y \in DOMAIN b.years |-> b.years[y].betting.settled]) = whole.settled
       /\ \A f \in Families :
            Total([y \in DOMAIN b.years |-> b.years[y].outcome.markets[f].scored])
              = b.markets[f].outcome.scored
       /\ Len(bets) + Len(Thresholds(tried))
            = Total([i \in DOMAIN tried |-> Len(tried[i].markets)])
       /\ \A s \in GroupScores(rows) : s[2][1] # "raises"
       /\ boot.draws = 0 =>
            /\ \A draw \in Draws(DOMAIN scoresOn) :
                 Cardinality(Scored(GroupScores(DrawnRows(rows, draw))))
                   = Total([i \in DOMAIN draw |-> scoresOn[draw[i]]])
            /\ \A draw \in Draws(DOMAIN gainOn) :
                 BettingMetrics(Drawn(bets, draw)).profit
                   = Total([i \in DOMAIN draw |-> gainOn[draw[i]]])
=============================================================================
