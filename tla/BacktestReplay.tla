--------------------------- MODULE BacktestReplay ---------------------------
(***************************************************************************)
(* `mma-model recommend replay`: the attempts of a backtest become the     *)
(* candidates that the recommendation policy is applied to.  What the      *)
(* evidence lacks is a defect, or leaves an entry that is no candidate and *)
(* no bet; those entries are left out here.                                *)
(*                                                                         *)
(* Source: recommend/replay.py, with BacktestReport and RecommendPolicy.   *)
(***************************************************************************)
EXTENDS BacktestReport

(* priced_by_key: the first row with a price, the priced ones before those *)
(* whose price could not be taken.                                         *)
RowFor(a, bet) ==
  LET offered(t) == t.bet = bet /\ t.quote # None
      R == Kept(a.priced, offered) \o Kept(a.threshold, offered)
  IN IF R = <<>> THEN None ELSE R[1]

MutQuoteFromRow(q, cutoff, id) ==
  [odds |-> q.odds, observed |-> cutoff, cutoff |-> cutoff, kind |-> q.kind,
   flags |-> q.flags, lifecycle |-> q.lifecycle, decision |-> q.decision,
   attested |-> q.attested, boundTo |-> IF q.says = None THEN None ELSE <<id[1], q.says>>]

(* _quote_from_priced_row: what the row says of its price.  A row without  *)
(* a time of its own counts as of the cutoff.                              *)
QuoteFromRow(q, cutoff, id) ==
  [odds |-> q.odds, observed |-> IF q.observed = None THEN cutoff ELSE q.observed,
   cutoff |-> cutoff, kind |-> q.kind, flags |-> q.flags, lifecycle |-> q.lifecycle,
   decision |-> q.decision, attested |-> q.attested,
   boundTo |-> IF q.says = None THEN None ELSE <<id[1], q.says>>]

(* The conditions of the gates before the price that do not hold.          *)
DefectsOf(a, row) ==
  {d \in DOMAIN a.quality : ~a.quality[d]}
    \cup (IF row # None /\ row.quote.says \notin {None, row.bet} THEN {"canonical_match"} ELSE {})

CandidateOf(a, m) ==
  LET row == RowFor(a, m.bet)
      voids == m.bet.family \in VoidOnDraw
  IN [bout |-> a.bout, bet |-> m.bet, p50 |-> Conditional(m.p50, m.void), p25 |-> m.p25,
      semantics |-> IF voids THEN "conditional_nonvoid" ELSE "exhaustive",
      win |-> m.p50, void |-> m.void, defects |-> DefectsOf(a, row),
      maturity |-> IF m.bet.family \in Qualified THEN "qualified" ELSE "experimental",
      positive |-> m.positive,
      quote |-> IF row = None THEN None
                ELSE QuoteFromRow(row.quote, a.cutoff, <<a.bout, m.bet>>)]

(* What the constructor of a candidate accepts.                            *)
Constructible(c) == c.p25 # None => c.p25 \in 1 .. c.p50

CandidatesFrom(a) ==
  LET offered(m) == m.available /\ Constructible(CandidateOf(a, m))
      M == Kept(a.markets, offered)
  IN [i \in DOMAIN M |-> CandidateOf(a, M[i])]

(* execute_recommend_replay, on evidence that is complete.                 *)
Replay ==
  /\ Complete /\ boot.draws = 0 /\ report = None
  /\ pool' = FlattenSeq([i \in DOMAIN tried |-> CandidatesFrom(tried[i])])
  /\ report' = Report(pool')
  /\ UNCHANGED reportVars

ReplayNext == (ReportNext /\ UNCHANGED recommendVars) \/ Replay

ReplaySpec ==
  ReportInit /\ RecommendInit /\ [][ReplayNext]_<<recommendVars, reportVars>>
-----------------------------------------------------------------------------
(* A pick of the replay is a bet that the backtest placed: its price was   *)
(* taken as of the cutoff, at those odds, and counted as a candidate; a    *)
(* price that the backtest only shows never becomes a pick, though the     *)
(* replay reads it too.                                                    *)
PicksWerePriced ==
  (report # None /\ tried # <<>>) => \A x \in report.confirmed :
    LET b == x[1][1]
        bet == x[1][2]
        c == CHOOSE d \in ToSet(pool) : IdOf(d) = x[1]
    IN \E a \in ToSet(tried) : a.bout = b /\
         \E row \in ToSet(a.priced) :
           row.bet = bet /\ row.candidate /\ row.quote.odds = c.quote.odds
=============================================================================
