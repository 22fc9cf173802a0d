--------------------------- MODULE RecommendProofs --------------------------
(***************************************************************************)
(* What a bet is worth, for every card and every set of candidates: a      *)
(* confirmed pick pays, by the settlement's own treatment of a draw; a bet *)
(* pays the parts of the bout it was priced on; a grade only resolves; and *)
(* the report does not depend on the order of the candidates.              *)
(*                                                                         *)
(* What a backtest reports, for every programme, every case and every      *)
(* quote: the breakdowns add up to the whole, the cards that the bootstrap *)
(* draws count as often as they are drawn, and a pick of the replay is a   *)
(* bet that the backtest placed.                                           *)
(***************************************************************************)
EXTENDS BacktestReplay, SequenceTheorems, FiniteSetTheorems, NaturalsInduction,
        WellFoundedInduction, TLAPS


(* Every set of places in the pool has a first one: what FirstOf needs.    *)
HasFirst == \A I \in SUBSET (DOMAIN pool) : I # {} => \E i \in I : \A j \in I : i <= j

RecommendInv ==
  /\ pool \in Seq(Candidates)
  /\ HasFirst
  /\ report # None => report = Report(pool)

(* The invariant that the theorem below rests on.                          *)
LEMMA RecommendInvariant == RecommendSpec => []RecommendInv
<1>1. RecommendInit => RecommendInv
  BY DEF RecommendInit, RecommendInv, HasFirst
<1>2. RecommendInv /\ [RecommendNext]_recommendVars => RecommendInv'
  <2> SUFFICES ASSUME RecommendInv, [RecommendNext]_recommendVars PROVE RecommendInv'
    OBVIOUS
  <2>1. ASSUME NEW c \in Candidates, Offer(c) PROVE RecommendInv'
    <3>1. pool' = Append(pool, c) /\ report' = None
      BY <2>1 DEF Offer
    <3>2. pool' \in Seq(Candidates) /\ DOMAIN pool' = DOMAIN pool \cup {Len(pool) + 1}
      BY <3>1 DEF RecommendInv
    <3>3. ASSUME NEW I \in SUBSET (DOMAIN pool'), I # {} PROVE \E i \in I : \A j \in I : i <= j
      <4>1. CASE I \cap DOMAIN pool = {}
        BY <3>2, <3>3, <4>1 DEF RecommendInv
      <4>2. CASE I \cap DOMAIN pool # {}
        <5>1. PICK i \in I \cap DOMAIN pool : \A j \in I \cap DOMAIN pool : i <= j
          BY <4>2 DEF RecommendInv, HasFirst
        <5>2. i <= Len(pool) + 1
          BY <5>1 DEF RecommendInv
        <5> QED
          BY <5>1, <5>2, <3>2
      <4> QED
        BY <4>1, <4>2
    <3> QED
      BY <3>1, <3>2, <3>3 DEF RecommendInv, HasFirst
  <2>2. CASE SelectRecommendations
    BY <2>2 DEF SelectRecommendations, RecommendInv, HasFirst
  <2>3. CASE UNCHANGED recommendVars
    BY <2>3 DEF recommendVars, RecommendInv, HasFirst
  <2> QED
    BY <2>1, <2>2, <2>3 DEF RecommendNext
<1> QED
  BY <1>1, <1>2, PTL DEF RecommendSpec

(* What is left of a selection is a candidate like those that were given,  *)
(* but for its defects.                                                    *)
LEMMA OneIsACandidate ==
  ASSUME RecommendInv, NEW id \in Ids(pool)
  PROVE  CandidateType(OnePerSelection(pool, id)) /\ IdOf(OnePerSelection(pool, id)) = id
<1> DEFINE I == Indices(pool, id)
           first == pool[FirstOf(I)]
<1>1. I \in SUBSET (DOMAIN pool) /\ I # {}
  BY DEF Ids, Indices
<1>2. FirstOf(I) \in I
  BY <1>1 DEF RecommendInv, HasFirst, FirstOf
<1>3. first \in Candidates /\ IdOf(first) = id
  <2>1. FirstOf(I) \in DOMAIN pool /\ IdOf(pool[FirstOf(I)]) = id
    BY <1>2 DEF Indices
  <2> QED
    BY <2>1 DEF RecommendInv
<1>4. CandidateType(first)
  BY <1>3, PolicyAssumption
<1> DEFINE marked == [first EXCEPT !.defects = @ \cup {"ambiguous_selection"}]
<1>5. CandidateType(marked) /\ IdOf(marked) = id
  <2> HIDE DEF first
  <2>1. /\ marked.bout = first.bout /\ marked.bet = first.bet
        /\ marked.p50 = first.p50 /\ marked.p25 = first.p25
        /\ marked.win = first.win /\ marked.void = first.void
        /\ marked.quote = first.quote /\ DOMAIN marked = DOMAIN first
    BY <1>4 DEF CandidateType
  <2> HIDE DEF marked
  <2> QED
    BY <2>1, <1>3, <1>4 DEF CandidateType, IdOf
<1>6. OnePerSelection(pool, id) \in {first, marked}
  BY DEF OnePerSelection
<1> QED
  BY <1>3, <1>4, <1>5, <1>6

(* The policy's list of the families that a draw voids is the settlement's.*)
LEMMA VoidsAlike ==
  ASSUME NEW c, CandidateType(c)
  PROVE  VoidsOnDraw(c) <=> c.bet.family \in VoidOnDraw
<1> DEFINE f == DrawnBout
<1>1. /\ f.class = "draw" /\ f.method = None /\ ~f.pending /\ ~f.cancelled
      /\ f.rounds = 3 /\ f.total = None /\ f.round = None /\ f.winner = None
  BY DEF DrawnBout, Unknown
<1>2. FullDistance(f)
  BY <1>1 DEF FullDistance
<1>3. c.bet.family \in {"moneyline", "goes_distance", "totals", "method",
                        "fighter_by_method", "exact_round"}
  BY DEF CandidateType, Catalog, Markets, Selection
<1> HIDE DEF f
<1>4. CASE c.bet.family = "moneyline"
  BY <1>1, <1>4 DEF VoidsOnDraw, Settle, SettleMoneyline, VoidOnDraw, f
<1>5. CASE c.bet.family \in {"method", "fighter_by_method"}
  BY <1>1, <1>5 DEF VoidsOnDraw, Settle, SettleMethod, VoidOnDraw, f
<1>6. CASE c.bet.family = "exact_round"
  BY <1>1, <1>6 DEF VoidsOnDraw, Settle, SettleRound, VoidOnDraw, f
<1>7. CASE c.bet.family = "goes_distance"
  BY <1>1, <1>2, <1>7 DEF VoidsOnDraw, Settle, SettleDistance, Graded, VoidOnDraw, f
<1>8. CASE c.bet.family = "totals"
  BY <1>1, <1>8 DEF VoidsOnDraw, Settle, SettleTotals, SideOfLine, Graded, VoidOnDraw, f
<1> QED
  BY <1>3, <1>4, <1>5, <1>6, <1>7, <1>8

LEMMA Scaled ==
  ASSUME NEW a \in Nat, NEW b \in Nat, NEW k \in Nat, a >= b
  PROVE  a * k >= b * k
OBVIOUS

(* Five percent over p50, seen from the unconditional parts of the price.  *)
LEMMA FromConditional ==
  ASSUME NEW p \in Nat, NEW w \in Nat, NEW v \in 0 .. 99, NEW odds \in Nat,
         100 * w = p * (100 - v), p * odds >= 10500
  PROVE  w * odds + 100 * v >= 10000 + 5 * (100 - v)
<1> DEFINE k == 100 - v
           x == p * odds
<1>1. k \in Nat /\ x \in Nat
  OBVIOUS
<1>2. x * k >= 10500 * k
  <2>1. x >= 10500
    OBVIOUS
  <2> HIDE DEF x, k
  <2> QED
    BY <1>1, <2>1, Scaled
<1>3. (100 * w) * odds = (p * k) * odds
  OBVIOUS
<1>4. (p * k) * odds = x * k /\ (100 * w) * odds = 100 * (w * odds)
  OBVIOUS
<1>5. 100 * (w * odds) >= 10500 * (100 - v)
  BY <1>2, <1>3, <1>4
<1>6. w * odds \in Nat
  OBVIOUS
<1> QED
  BY <1>5, <1>6

(* A confirmed pick pays, whatever candidates come and in whatever order:  *)
(* see PickPaysOff.                                                        *)
THEOREM PicksPay == RecommendSpec => []PickPaysOff
<1>1. RecommendInv => PickPaysOff
  <2> SUFFICES ASSUME RecommendInv, report # None, NEW id \in Ids(pool),
                      id \in {x[1] : x \in report.confirmed}
               PROVE  Pays(OnePerSelection(pool, id))
    BY DEF PickPaysOff
  <2> DEFINE c == OnePerSelection(pool, id)
  <2>1. CandidateType(c)
    BY OneIsACandidate
  <2>2. Classify(c) = "confirmed_value"
    <3>0. report.confirmed = Ranked(Picks(pool))
      BY DEF RecommendInv, Report
    <3>5. PICK x \in Ranked(Picks(pool)) : x[1] = id
      BY <3>0
    <3>6. PICK d \in Picks(pool) : x = <<IdOf(d), RankAmong(Picks(pool), d)>>
      BY <3>5 DEF Ranked
    <3>1. IdOf(d) = id
      BY <3>5, <3>6
    <3>4. d \in Distinct(pool) /\ Classify(d) = "confirmed_value"
      BY <3>6 DEF Picks, Passed
    <3>2. PICK i \in Ids(pool) : d = OnePerSelection(pool, i)
      BY <3>4 DEF Distinct
    <3>3. IdOf(d) = i
      BY <3>2, OneIsACandidate
    <3> QED
      BY <3>1, <3>2, <3>3, <3>4
  <2> HIDE DEF c
  <2>3. VoidConsistent(c) /\ c.quote # None /\ Actionable(c, c.quote.odds)
    BY <2>2 DEF Classify, PricePassed
  <2>4. c.p50 \in Nat /\ c.quote.odds \in Nat
    BY <2>1, <2>3 DEF CandidateType
  <2>5. c.p50 * c.quote.odds >= 10500
    BY <2>3, <2>4 DEF Actionable, EvTarget
  <2>6. CASE PartsKnown(c)
    <3>1. c.win \in Nat /\ c.void \in 0 .. 99
      BY <2>1, <2>6 DEF CandidateType, PartsKnown
    <3>2. 100 * c.win = c.p50 * (100 - c.void)
      BY <2>1, <2>3, <2>6, VoidsAlike DEF VoidConsistent, PartsKnown
    <3> DEFINE p == c.p50
               w == c.win
               v == c.void
               odds == c.quote.odds
    <3>4. /\ p \in Nat /\ w \in Nat /\ v \in 0 .. 99 /\ odds \in Nat
          /\ 100 * w = p * (100 - v) /\ p * odds >= 10500
      BY <2>4, <2>5, <3>1, <3>2
    <3> HIDE DEF p, w, v, odds
    <3>5. w * odds + 100 * v >= 10000 + 5 * (100 - v)
      BY <3>4, FromConditional
    <3> USE DEF p, w, v, odds
    <3>3. c.win * c.quote.odds + 100 * c.void >= 10000 + 5 * (100 - c.void)
      BY <3>5
    <3> QED
      BY <2>6, <3>3 DEF Pays, c
  <2>7. CASE ~PartsKnown(c)
    BY <2>5, <2>7 DEF Pays, c
  <2> QED
    BY <2>6, <2>7
<1> QED
  BY <1>1, RecommendInvariant, PTL

-----------------------------------------------------------------------------
(* What may be known of a bout.                                            *)
Classes == {"decisive", "draw", "no_contest", None}
Winner3 == Sides \cup {None}
Means == Methods \cup {None}
Counts == Nat \cup {None}

FactsType ==
  [rounds : Rounds, cancelled : BOOLEAN, pending : BOOLEAN, class : Classes, winner : Winner3,
   method : Means, round : Counts, inRound : Counts, total : Counts]

OutcomeInv == facts \in FactsType /\ ValidFacts(facts)

LEMMA MayBeUnknown ==
  /\ None \in Classes /\ {"decisive", "draw", "no_contest"} \subseteq Classes
  /\ None \in Winner3 /\ Sides \subseteq Winner3
  /\ None \in Means /\ Methods \subseteq Means
  /\ None \in Counts
<1>1. None \in Counts
  BY DEF Counts
<1>2. None \in Classes /\ {"decisive", "draw", "no_contest"} \subseteq Classes
  BY DEF Classes
<1> QED
  BY <1>1, <1>2 DEF Winner3, Means

LEMMA CountsAreKnown ==
  /\ \A n \in Nat : n \in Counts
  /\ \A n \in Counts : n # None => n \in Nat
BY DEF Counts

LEMMA RoundsAreFew ==
  ASSUME NEW f \in FactsType
  PROVE  f.rounds \in {3, 5} /\ f.rounds * RoundUnits \in Nat
<1>1. f.rounds \in Rounds
  BY DEF FactsType
<1>2. f.rounds \in {3, 5} /\ RoundUnits \in Nat
  BY <1>1, OutcomeAssumption
<1> QED
  BY <1>2

LEMMA Retyped ==
  ASSUME NEW f \in FactsType
  PROVE  /\ \A n \in Counts : [f EXCEPT !.round = n] \in FactsType
         /\ \A n \in Counts : [f EXCEPT !.inRound = n] \in FactsType
         /\ \A n \in Counts : [f EXCEPT !.total = n] \in FactsType
         /\ \A n \in Classes : [f EXCEPT !.class = n] \in FactsType
         /\ \A n \in Winner3 : [f EXCEPT !.winner = n] \in FactsType
         /\ \A n \in Means : [f EXCEPT !.method = n] \in FactsType
         /\ \A n \in BOOLEAN : [f EXCEPT !.pending = n] \in FactsType
         /\ \A n \in BOOLEAN : [f EXCEPT !.cancelled = n] \in FactsType
BY DEF FactsType

(* What every report but a reversal does to the facts.                     *)
LEMMA OutcomeInvariant == OutcomeSpec => []OutcomeInv
<1>1. OutcomeInit => OutcomeInv
  <2> SUFFICES ASSUME NEW r \in Rounds, facts = Unknown(r) PROVE OutcomeInv
    BY DEF OutcomeInit
  <2>1. facts \in FactsType
    BY MayBeUnknown DEF Unknown, FactsType
  <2>2. /\ facts.class = None /\ facts.winner = None /\ facts.method = None
        /\ facts.round = None /\ facts.inRound = None /\ facts.total = None
        /\ facts.pending = FALSE /\ facts.cancelled = FALSE
    BY DEF Unknown
  <2>3. ValidFacts(facts)
    BY <2>2, OutcomeAssumption DEF ValidFacts, ClockAgrees, NoResult, Decisive, Finishes
  <2> QED
    BY <2>1, <2>3 DEF OutcomeInv
<1>2. OutcomeInv /\ [OutcomeNext]_facts => OutcomeInv'
  <2> SUFFICES ASSUME OutcomeInv, OutcomeNext PROVE OutcomeInv'
    BY DEF OutcomeInv
  <2>1. ValidFacts(facts')
    BY DEF OutcomeNext, Postpone, CancelFight, ReportClass, ReportWinner, ReportMethod, ReportRound,
           ReportClock, ReportTotal, Overturn, Learn
  <2>2. facts \in FactsType
    BY DEF OutcomeInv
  <2> SUFFICES facts' \in FactsType
    BY <2>1 DEF OutcomeInv
  <2>3. CASE Postpone
    <3>1. facts' = [facts EXCEPT !.pending = ~facts.pending] /\ facts.pending \in BOOLEAN
      BY <2>2, <2>3 DEF Postpone, Learn, FactsType
    <3> QED
      BY <2>2, <3>1, Retyped
  <2>4. CASE CancelFight
    BY <2>2, <2>4, Retyped DEF CancelFight, Learn
  <2>5. CASE ReportClass
    <3>1. PICK c \in {"decisive", "draw", "no_contest"} : facts' = [facts EXCEPT !.class = c]
      BY <2>5 DEF ReportClass, Learn
    <3> QED
      BY <2>2, <3>1, Retyped, MayBeUnknown
  <2>6. CASE ReportWinner
    <3>1. PICK w \in Sides : facts' = [facts EXCEPT !.winner = w]
      BY <2>6 DEF ReportWinner, Learn
    <3> QED
      BY <2>2, <3>1, Retyped, MayBeUnknown
  <2>7. CASE ReportMethod
    <3>1. PICK m \in Methods : facts' = [facts EXCEPT !.method = m]
      BY <2>7 DEF ReportMethod, Learn
    <3> QED
      BY <2>2, <3>1, Retyped, MayBeUnknown
  <2>8. CASE ReportRound
    <3>1. PICK n \in 1 .. facts.rounds : facts' = [facts EXCEPT !.round = n]
      BY <2>8 DEF ReportRound, Learn
    <3>2. n \in Counts
      BY <2>2, <3>1, RoundsAreFew, CountsAreKnown
    <3> QED
      BY <2>2, <3>1, <3>2, Retyped
  <2>9. CASE ReportClock
    <3>1. PICK n \in 0 .. RoundUnits : facts' = [facts EXCEPT !.inRound = n]
      BY <2>9 DEF ReportClock, Learn
    <3>2. n \in Nat
      BY <3>1, OutcomeAssumption
    <3> QED
      BY <2>2, <3>1, <3>2, Retyped, CountsAreKnown
  <2>10. CASE ReportTotal
    <3>1. PICK n \in 0 .. facts.rounds * RoundUnits : facts' = [facts EXCEPT !.total = n]
      BY <2>10 DEF ReportTotal, Learn
    <3>2. n \in Nat
      BY <2>2, <3>1, RoundsAreFew
    <3> QED
      BY <2>2, <3>1, <3>2, Retyped, CountsAreKnown
  <2>12. CASE Overturn
    <3> DEFINE void == [facts EXCEPT !.class = "no_contest"]
               bare == [void EXCEPT !.winner = None]
    <3>1. facts' = [bare EXCEPT !.method = None]
      BY <2>2, <2>12 DEF Overturn, Learn, FactsType
    <3>2. void \in FactsType
      BY <2>2, Retyped, MayBeUnknown
    <3> HIDE DEF void
    <3>3. bare \in FactsType
      BY <3>2, Retyped, MayBeUnknown
    <3> HIDE DEF bare
    <3> QED
      BY <3>1, <3>3, Retyped, MayBeUnknown
  <2> QED
    BY <2>3, <2>4, <2>5, <2>6, <2>7, <2>8, <2>9, <2>10, <2>12 DEF OutcomeNext
<1> QED
  BY <1>1, <1>2, PTL DEF OutcomeSpec

LEMMA NoneIsNoWord ==
  None \notin {"decisive", "draw", "no_contest", "a", "b", "ko_tko", "submission", "other_stoppage",
               "decision", "technical_decision", "technical_draw"}
BY OutcomeAssumption

(* Learning more of a result does not change how long it lasted.           *)
LEMMA DurationKept ==
  ASSUME NEW f, NEW g, ValidFacts(g), Extends(g, f), Plausible(g), g.method # "technical_draw",
         Duration(f) # None
  PROVE  Duration(g) = Duration(f)
<1>1. CASE f.total # None
  BY <1>1 DEF Extends, Duration
<1>2. CASE f.total = None /\ f.round # None /\ f.inRound # None
  <2>1. g.round = f.round /\ g.inRound = f.inRound
    BY <1>2 DEF Extends
  <2>2. CASE g.total = None
    BY <1>2, <2>1, <2>2 DEF Duration
  <2>3. CASE g.total # None
    <3>1. PICK p \in ClockPairs(g.total, g.rounds) : (g.round \in {None, p[1]}) /\ (g.inRound \in {None, p[2]})
      BY <2>3 DEF ValidFacts, ClockAgrees
    <3>2. g.round = p[1] /\ g.inRound = p[2]
      BY <1>2, <2>1, <3>1
    <3>3. Elapsed(p[1], p[2]) = g.total
      BY <3>1 DEF ClockPairs
    <3> QED
      BY <1>2, <2>1, <2>3, <3>2, <3>3 DEF Duration
  <2> QED
    BY <2>2, <2>3
<1>3. CASE f.total = None /\ ~(f.round # None /\ f.inRound # None)
  <2>1. FullDistance(f) /\ Duration(f) = f.rounds * RoundUnits
    BY <1>3 DEF Duration
  <2>2. FullDistance(g)
    BY <2>1, NoneIsNoWord DEF FullDistance, Extends, ValidFacts
  <2> QED
    BY <2>1, <2>2 DEF Plausible, Extends
<1> QED
  BY <1>1, <1>2, <1>3

(* Nothing settles of a bout without a result that is not cancelled.       *)
LEMMA OpenWithoutClass ==
  ASSUME NEW f, f.class = None, f.winner = None, f.method = None, ~f.cancelled, NEW s, NEW exact
  PROVE  Settle(s, f, exact) = "unresolved"
BY NoneIsNoWord DEF Settle, SettleMoneyline, SettleDistance, Realized, FullDistance, SettleTotals,
                    SettleRound, SettleMethod, Finishes

LEMMA GradeKept ==
  ASSUME NEW f, NEW g, ValidFacts(f), ValidFacts(g), Extends(g, f), Plausible(g),
         g.method # "technical_draw", f.cancelled => g.cancelled,
         g.cancelled \in BOOLEAN, f.cancelled \in BOOLEAN, NEW s, NEW exact
  PROVE  Settle(s, f, exact) \in {"unresolved", Settle(s, g, exact)}
<1> DEFINE grade == Settle(s, f, exact)
<1>1. CASE f.pending
  BY <1>1 DEF Settle
<1>2. CASE f.cancelled
  <2>1. ~f.pending /\ g.cancelled /\ ~g.pending
    BY <1>2 DEF ValidFacts
  <2> QED
    BY <1>2, <2>1 DEF Settle
<1>3. CASE ~f.cancelled /\ (g.cancelled \/ g.pending)
  <2>1. f.class = None /\ f.winner = None /\ f.method = None
    BY <1>3 DEF ValidFacts, NoResult, Extends
  <2> QED
    BY <1>3, <2>1, OpenWithoutClass
<1>4. CASE ~f.pending /\ ~f.cancelled /\ ~g.cancelled /\ ~g.pending
  <2>0. /\ g.class = f.class /\ f.winner \in {None, g.winner} /\ f.method \in {None, g.method}
        /\ f.round \in {None, g.round}
    BY DEF Extends
  <2>1. CASE f.class = "no_contest"
    BY <1>4, <2>0, <2>1 DEF Settle
  <2>2. CASE f.class # "no_contest"
    <3>1. CASE s.family = "moneyline"
      BY <1>4, <2>0, <2>2, <3>1 DEF Settle, SettleMoneyline
    <3>2. CASE s.family = "goes_distance"
      <4>1. Realized(f) # None => Realized(g) = Realized(f)
        BY <2>0, NoneIsNoWord DEF Realized, FullDistance, ValidFacts
      <4> QED
        BY <1>4, <2>0, <2>2, <3>2, <4>1 DEF Settle, SettleDistance
    <3>3. CASE s.family = "totals"
      <4>1. CASE SettleTotals(s, f, exact) = "unresolved"
        BY <1>4, <2>2, <3>3, <4>1 DEF Settle
      <4>2. CASE SettleTotals(s, f, exact) # "unresolved"
        <5>1. /\ f.class \in {"decisive", "draw"} /\ ~(f.class = "decisive" /\ f.method = None)
              /\ Duration(f) # None
          BY <4>2 DEF SettleTotals
        <5>2. Duration(g) = Duration(f)
          BY <5>1, DurationKept
        <5>3. SettleTotals(s, g, exact) = SettleTotals(s, f, exact)
          BY <2>0, <5>1, <5>2, NoneIsNoWord DEF SettleTotals
        <5> QED
          BY <1>4, <2>0, <2>2, <3>3, <5>3 DEF Settle
      <4> QED
        BY <4>1, <4>2
    <3>4. CASE s.family = "exact_round"
      BY <1>4, <2>0, <2>2, <3>4, NoneIsNoWord DEF Settle, SettleRound, Finishes
    <3>5. CASE s.family \notin {"moneyline", "goes_distance", "totals", "exact_round"}
      <4>1. SettleMethod(s, f) \in {"unresolved", SettleMethod(s, g)}
        BY <2>0, NoneIsNoWord DEF SettleMethod
      <4> QED
        BY <1>4, <2>0, <2>2, <3>5, <4>1 DEF Settle
    <3> QED
      BY <3>1, <3>2, <3>3, <3>4, <3>5
  <2> QED
    BY <2>1, <2>2
<1> QED
  BY <1>1, <1>2, <1>3, <1>4

(* A grade is not invented before the facts are in (GradesOnlyResolve).    *)
THEOREM GradesResolve == OutcomeSpec => GradesOnlyResolve
<1>1. ASSUME OutcomeInv, OutcomeInv', OutcomeNext, facts' # facts, Extends(facts', facts),
             Plausible(facts'), facts'.method # "technical_draw",
             NEW m \in Markets, NEW exact \in RuleSets, NEW s \in Catalog(m[1], m[2], facts.rounds)
      PROVE  Settle(s, facts, exact) \in {"unresolved", Settle(s, facts', exact)}
  <2>1. facts.cancelled \in BOOLEAN /\ facts'.cancelled \in BOOLEAN
    BY <1>1 DEF OutcomeInv, FactsType
  <2>2. facts.cancelled => facts'.cancelled
    <3>1. facts \in FactsType
      BY <1>1 DEF OutcomeInv
    <3>2. OutcomeNext => \/ facts'.cancelled = facts.cancelled
                         \/ facts'.cancelled = TRUE
      BY <3>1 DEF OutcomeNext, Postpone, CancelFight, ReportClass, ReportWinner, ReportMethod, ReportRound,
           ReportClock, ReportTotal, Overturn, Learn, FactsType
    <3> QED
      BY <1>1, <3>2
  <2>3. ValidFacts(facts) /\ ValidFacts(facts')
    BY <1>1 DEF OutcomeInv
  <2> QED
    BY <1>1, <2>1, <2>2, <2>3, GradeKept
<1>2. OutcomeInv /\ OutcomeInv' /\ [OutcomeNext]_facts =>
        [(facts' # facts /\ Extends(facts', facts) /\ Plausible(facts') /\ facts'.method # "technical_draw") =>
           \A m \in Markets, exact \in RuleSets : \A s \in Catalog(m[1], m[2], facts.rounds) :
             Settle(s, facts, exact) \in {"unresolved", Settle(s, facts', exact)}]_facts
  BY <1>1
<1> QED
  BY <1>2, OutcomeInvariant, PTL DEF OutcomeSpec, GradesOnlyResolve

-----------------------------------------------------------------------------
LEMMA Halves ==
  ASSUME NEW h \in Nat \ {0}, NEW e \in Nat \ {0}
  PROVE  LET q == (e - 1) \div h IN
         q \in Nat /\ q * h <= e - 1 /\ e - 1 < (q + 1) * h
<1> DEFINE q == (e - 1) \div h
<1>1. e - 1 \in Nat /\ h \in Nat /\ h > 0
  OBVIOUS
<1>2. q \in Nat /\ q * h <= e - 1 /\ e - 1 < (q + 1) * h
  BY <1>1
<1> QED
  BY <1>2

LEMMA SurvivalIs ==
  \A i \in Nat : Survival[i] = (0 .. i - 1) \X {Continue}
<1> DEFINE step(g) == [i \in Nat |-> IF i = 0 THEN {} ELSE g[i - 1] \cup {<<i - 1, Continue>>}]
           path == [i \in Nat |-> (0 .. i - 1) \X {Continue}]
<1>1. path = step(path)
  <2>1. ASSUME NEW i \in Nat, i # 0
        PROVE  (0 .. i - 1) \X {Continue} = ((0 .. (i - 1) - 1) \X {Continue}) \cup {<<i - 1, Continue>>}
    <3>1. 0 .. i - 1 = (0 .. (i - 1) - 1) \cup {i - 1}
      BY <2>1
    <3> QED
      BY <3>1
  <2>2. ASSUME NEW i \in Nat, i # 0 PROVE path[i] = step(path)[i]
    <3>1. i - 1 \in Nat
      BY <2>2
    <3> QED
      BY <2>1, <2>2, <3>1
  <2>3. path[0] = step(path)[0]
    OBVIOUS
  <2> QED
    BY <2>2, <2>3
<1>2. Survival = CHOOSE g : g = step(g)
  BY DEF Survival
<1> HIDE DEF step
<1>3. Survival = step(Survival)
  BY <1>1, <1>2
<1> USE DEF step
<1>4. Survival[0] = {} /\ \A i \in Nat \ {0} : Survival[i] = Survival[i - 1] \cup {<<i - 1, Continue>>}
  BY <1>3
<1> HIDE DEF step, path
<1>5. ASSUME NEW i \in Nat, Survival[i] # (0 .. i - 1) \X {Continue} PROVE FALSE
  <2> DEFINE wrong == {j \in Nat : Survival[j] # (0 .. j - 1) \X {Continue}}
  <2>1. PICK j \in wrong : \A k \in wrong : ~(<<k, j>> \in OpToRel(<, Nat))
    BY <1>5, NatLessThanWellFounded, WFMin
  <2>2. j # 0
    <3>1. 0 .. 0 - 1 = {}
      OBVIOUS
    <3> QED
      BY <1>4, <3>1
  <2>3. j \in Nat /\ j - 1 \in Nat /\ j - 1 < j
    <3>1. j \in Nat
      BY <2>1
    <3> QED
      BY <2>2, <3>1
  <2>7. Survival[j - 1] = (0 .. (j - 1) - 1) \X {Continue}
    <3>1. j - 1 \notin wrong
      BY <2>1, <2>3 DEF OpToRel
    <3> QED
      BY <2>3, <3>1
  <2>4. Survival[j] = ((0 .. (j - 1) - 1) \X {Continue}) \cup {<<j - 1, Continue>>}
    BY <1>4, <2>2, <2>3, <2>7
  <2>5. 0 .. j - 1 = (0 .. (j - 1) - 1) \cup {j - 1}
    BY <2>2, <2>3
  <2>6. (0 .. j - 1) \X {Continue} = ((0 .. (j - 1) - 1) \X {Continue}) \cup {<<j - 1, Continue>>}
    BY <2>5
  <2> QED
    BY <2>1, <2>4, <2>6
<1> QED
  BY <1>5
-----------------------------------------------------------------------------
(* The outcomes of a market.                                               *)
PossibleOf(family, r) ==
  CASE family = "moneyline" -> Sides
    [] family = "goes_distance" -> {"goes_distance", "inside_distance"}
    [] family = "totals" -> {"over", "under"}
    [] family = "method" -> Finishes \cup {"decision"}
    [] family = "fighter_by_method" -> Sides \X (Finishes \cup {"decision"})
    [] family = "exact_round" -> 1 .. r

Together(family, line, f, exact) ==
  LET bets == Catalog(family, line, f.rounds)
      results == {Settle(s, f, exact) : s \in bets}
      winners == {s \in bets : Settle(s, f, exact) = "win"}
  IN \/ results = {"win", "loss"} /\ Cardinality(winners) = 1
     \/ \E r \in {"void", "push", "unresolved"} : results = {r}
     \/ family = "exact_round" /\ results = {"loss"}

LEMMA BetsAre ==
  ASSUME NEW family, NEW line, NEW r
  PROVE  Catalog(family, line, r) = {Selection(family, o, line) : o \in PossibleOf(family, r)}
BY DEF Catalog, PossibleOf

LEMMA SelectionIs ==
  ASSUME NEW family, NEW line, NEW o
  PROVE  LET s == Selection(family, o, line)
         IN s.family = family /\ s.outcome = o /\ s.line = line
BY DEF Selection

LEMMA OneWins ==
  ASSUME NEW family, NEW line, NEW f, NEW exact,
         NEW w \in PossibleOf(family, f.rounds), NEW v \in PossibleOf(family, f.rounds), v # w,
         \A o \in PossibleOf(family, f.rounds) : Settle(Selection(family, o, line), f, exact) = Graded(o = w)
  PROVE  Together(family, line, f, exact)
<1> DEFINE O == PossibleOf(family, f.rounds)
           bets == Catalog(family, line, f.rounds)
           grade(s) == Settle(s, f, exact)
           bet(o) == Selection(family, o, line)
<1>1. bets = {bet(o) : o \in O}
  BY BetsAre
<1>2. \A o \in O : grade(bet(o)) = IF o = w THEN "win" ELSE "loss"
  BY DEF Graded
<1>3. \A s : {grade(t) : t \in bets} = {"win", "loss"} /\ {t \in bets : grade(t) = "win"} = {bet(w)} =>
        Together(family, line, f, exact)
  <2>1. Cardinality({bet(w)}) = 1
    BY FS_Singleton
  <2> QED
    BY <2>1 DEF Together
<1> HIDE DEF bets, grade, bet, O
<1>4. w \in O /\ v \in O
  BY DEF O
<1>5. {grade(t) : t \in bets} = {"win", "loss"}
  BY <1>1, <1>2, <1>4
<1>6. {t \in bets : grade(t) = "win"} = {bet(w)}
  BY <1>1, <1>2, <1>4
<1> QED
  BY <1>3, <1>5, <1>6

LEMMA AllAlike ==
  ASSUME NEW family, NEW line, NEW f, NEW exact, NEW grade,
         PossibleOf(family, f.rounds) # {},
         grade \in {"void", "push", "unresolved"} \/ (family = "exact_round" /\ grade = "loss"),
         \A o \in PossibleOf(family, f.rounds) : Settle(Selection(family, o, line), f, exact) = grade
  PROVE  Together(family, line, f, exact)
<1> DEFINE bet(o) == Selection(family, o, line)
           settled(s) == Settle(s, f, exact)
<1>1. Catalog(family, line, f.rounds) = {bet(o) : o \in PossibleOf(family, f.rounds)}
  BY BetsAre
<1>2. \A o \in PossibleOf(family, f.rounds) : settled(bet(o)) = grade
  OBVIOUS
<1>3. {settled(s) : s \in Catalog(family, line, f.rounds)} = {grade} => Together(family, line, f, exact)
  BY DEF Together
<1> HIDE DEF bet, settled
<1>4. {settled(s) : s \in Catalog(family, line, f.rounds)} = {grade}
  BY <1>1, <1>2
<1> QED
  BY <1>3, <1>4

LEMMA OutcomesAreMany ==
  ASSUME NEW r \in {3, 5}
  PROVE  \A family \in {"moneyline", "goes_distance", "totals", "method", "fighter_by_method", "exact_round"} :
           /\ PossibleOf(family, r) # {}
           /\ \A w \in PossibleOf(family, r) : \E v \in PossibleOf(family, r) : v # w
<1>1. PossibleOf("moneyline", r) = Sides
  BY DEF PossibleOf
<1>2. PossibleOf("goes_distance", r) = {"goes_distance", "inside_distance"}
  BY DEF PossibleOf
<1>3. PossibleOf("totals", r) = {"over", "under"}
  BY DEF PossibleOf
<1>4. PossibleOf("method", r) = Finishes \cup {"decision"}
  BY DEF PossibleOf
<1>5. PossibleOf("fighter_by_method", r) = Sides \X (Finishes \cup {"decision"})
  BY DEF PossibleOf
<1>6. PossibleOf("exact_round", r) = 1 .. r
  BY DEF PossibleOf
<1>7. \A w \in 1 .. r : \E v \in 1 .. r : v # w
  <2> TAKE w \in 1 .. r
  <2>1. 1 \in 1 .. r /\ 2 \in 1 .. r /\ 1 # 2
    OBVIOUS
  <2> QED
    BY <2>1
<1>8. 1 .. r # {}
  <2>1. 1 \in 1 .. r
    OBVIOUS
  <2> QED
    BY <2>1
<1>9. \A w \in Sides : \E v \in Sides : v # w
  BY DEF Sides
<1>10. \A w \in Finishes \cup {"decision"} : \E v \in Finishes \cup {"decision"} : v # w
  BY DEF Finishes
<1>11. \A w \in Sides \X (Finishes \cup {"decision"}) : \E v \in Sides \X (Finishes \cup {"decision"}) : v # w
  <2> SUFFICES ASSUME NEW x \in Sides, NEW y \in Finishes \cup {"decision"}
               PROVE  \E v \in Sides \X (Finishes \cup {"decision"}) : v # <<x, y>>
    OBVIOUS
  <2>1. PICK z \in Sides : z # x
    BY <1>9
  <2>2. <<z, y>> \in Sides \X (Finishes \cup {"decision"}) /\ <<z, y>> # <<x, y>>
    BY <2>1
  <2> QED
    BY <2>2
<1>12. Sides # {} /\ Finishes \cup {"decision"} # {}
  BY DEF Sides, Finishes
<1>13. Sides \X (Finishes \cup {"decision"}) # {}
  <2>1. PICK x \in Sides, y \in Finishes \cup {"decision"} : TRUE
    BY <1>12
  <2>2. <<x, y>> \in Sides \X (Finishes \cup {"decision"})
    OBVIOUS
  <2> QED
    BY <2>2
<1> TAKE family \in {"moneyline", "goes_distance", "totals", "method", "fighter_by_method", "exact_round"}
<1>14. CASE family = "moneyline"
  BY <1>1, <1>9, <1>12, <1>14
<1>15. CASE family = "goes_distance"
  BY <1>2, <1>15
<1>16. CASE family = "totals"
  BY <1>3, <1>16
<1>17. CASE family = "method"
  BY <1>4, <1>10, <1>12, <1>17
<1>18. CASE family = "fighter_by_method"
  BY <1>5, <1>11, <1>13, <1>18
<1>19. CASE family = "exact_round"
  <2> DEFINE S == 1 .. r
  <2>1. PossibleOf(family, r) = S /\ S # {} /\ \A w \in S : \E v \in S : v # w
    BY <1>6, <1>7, <1>8, <1>19
  <2> HIDE DEF S
  <2> QED
    BY <2>1
<1> QED
  BY <1>14, <1>15, <1>16, <1>17, <1>18, <1>19

(* What is known of a winner and of the round a bout ended in is among the *)
(* outcomes one can bet on.                                                *)
LEMMA ResultsAreOutcomes ==
  ASSUME NEW f \in FactsType, ValidFacts(f)
  PROVE  /\ f.rounds \in {3, 5}
         /\ f.winner # None => f.winner \in Sides
         /\ f.method # None => f.method \in Methods
         /\ f.method \in Decisive => Pooled(f.method) \in Finishes \cup {"decision"}
         /\ f.round # None => f.round \in 1 .. f.rounds
<1>1. f.rounds \in {3, 5}
  BY RoundsAreFew
<1>2. f.winner # None => f.winner \in Sides
  BY DEF FactsType, Winner3
<1>3. f.method # None => f.method \in Methods
  BY DEF FactsType, Means
<1>4. f.method \in Decisive => Pooled(f.method) \in Finishes \cup {"decision"}
  BY DEF Pooled, Decisive, Finishes
<1>5. f.round # None => f.round \in 1 .. f.rounds
  BY DEF ValidFacts, ClockAgrees
<1> QED
  BY <1>1, <1>2, <1>3, <1>4, <1>5

LEMMA MoneylineTogether ==
  ASSUME NEW f \in FactsType, ValidFacts(f), ~f.pending, ~f.cancelled, f.class # "no_contest", NEW exact
  PROVE  Together("moneyline", None, f, exact)
<1> DEFINE O == PossibleOf("moneyline", f.rounds)
           bet(o) == Selection("moneyline", o, None)
<1>1. \A o \in O : Settle(bet(o), f, exact) =
        IF f.class = "draw" THEN "void"
        ELSE IF f.class # "decisive" \/ f.winner = None THEN "unresolved" ELSE Graded(o = f.winner)
  BY SelectionIs DEF Settle, SettleMoneyline
<1>2. O = Sides /\ O # {} /\ \A w \in O : \E v \in O : v # w
  BY ResultsAreOutcomes, OutcomesAreMany DEF PossibleOf
<1>3. CASE f.class = "draw"
  BY <1>1, <1>2, <1>3, AllAlike
<1>4. CASE f.class # "draw" /\ (f.class # "decisive" \/ f.winner = None)
  BY <1>1, <1>2, <1>4, AllAlike
<1>5. CASE f.class # "draw" /\ ~(f.class # "decisive" \/ f.winner = None)
  <2>1. f.winner \in O
    BY <1>2, <1>5, ResultsAreOutcomes
  <2>2. PICK v \in O : v # f.winner
    BY <1>2, <2>1
  <2>3. \A o \in O : Settle(bet(o), f, exact) = Graded(o = f.winner)
    BY <1>1, <1>5
  <2> QED
    BY <2>1, <2>2, <2>3, OneWins
<1> QED
  BY <1>3, <1>4, <1>5

LEMMA DistanceTogether ==
  ASSUME NEW f \in FactsType, ValidFacts(f), ~f.pending, ~f.cancelled, f.class # "no_contest", NEW exact
  PROVE  Together("goes_distance", None, f, exact)
<1> DEFINE O == PossibleOf("goes_distance", f.rounds)
           bet(o) == Selection("goes_distance", o, None)
<1>1. \A o \in O : Settle(bet(o), f, exact) = IF Realized(f) = None THEN "unresolved" ELSE Graded(o = Realized(f))
  BY SelectionIs DEF Settle, SettleDistance
<1>2. O = {"goes_distance", "inside_distance"} /\ O # {} /\ \A w \in O : \E v \in O : v # w
  BY ResultsAreOutcomes, OutcomesAreMany DEF PossibleOf
<1>3. CASE Realized(f) = None
  BY <1>1, <1>2, <1>3, AllAlike
<1>4. CASE Realized(f) # None
  <2>1. Realized(f) \in O
    BY <1>2, <1>4 DEF Realized
  <2>2. PICK v \in O : v # Realized(f)
    BY <1>2, <2>1
  <2>3. \A o \in O : Settle(bet(o), f, exact) = Graded(o = Realized(f))
    BY <1>1, <1>4
  <2> QED
    BY <2>1, <2>2, <2>3, OneWins
<1> QED
  BY <1>3, <1>4

LEMMA TotalsTogether ==
  ASSUME NEW f \in FactsType, ValidFacts(f), ~f.pending, ~f.cancelled, f.class # "no_contest",
         NEW exact \in RuleSets, NEW line
  PROVE  Together("totals", line, f, exact)
<1> DEFINE O == PossibleOf("totals", f.rounds)
           bet(o) == Selection("totals", o, line)
           side == SideOfLine(Duration(f), line, exact)
           open == \/ f.class \notin {"decisive", "draw"}
                   \/ f.class = "decisive" /\ f.method = None
                   \/ Duration(f) = None
<1>1. \A o \in O : Settle(bet(o), f, exact) =
        IF open THEN "unresolved" ELSE IF side \in {"void", "push"} THEN side ELSE Graded(o = side)
  BY SelectionIs DEF Settle, SettleTotals
<1>2. O = {"over", "under"} /\ O # {} /\ \A w \in O : \E v \in O : v # w
  BY ResultsAreOutcomes, OutcomesAreMany DEF PossibleOf
<1>3. side \in {"over", "under", "void", "push"}
  BY OutcomeAssumption DEF SideOfLine
<1> HIDE DEF side, open
<1>4. CASE open
  BY <1>1, <1>2, <1>4, AllAlike
<1>5. CASE ~open /\ side \in {"void", "push"}
  BY <1>1, <1>2, <1>5, AllAlike
<1>6. CASE ~open /\ side \notin {"void", "push"}
  <2>1. side \in O
    BY <1>2, <1>3, <1>6
  <2>2. PICK v \in O : v # side
    BY <1>2, <2>1
  <2>3. \A o \in O : Settle(bet(o), f, exact) = Graded(o = side)
    BY <1>1, <1>6
  <2> QED
    BY <2>1, <2>2, <2>3, OneWins
<1> QED
  BY <1>4, <1>5, <1>6

LEMMA MethodTogether ==
  ASSUME NEW f \in FactsType, ValidFacts(f), ~f.pending, ~f.cancelled, f.class # "no_contest", NEW exact,
         NEW family \in {"method", "fighter_by_method"}
  PROVE  Together(family, None, f, exact)
<1> DEFINE O == PossibleOf(family, f.rounds)
           bet(o) == Selection(family, o, None)
           known == IF family = "method" THEN TRUE ELSE f.winner # None
           result == IF family = "method" THEN Pooled(f.method) ELSE <<f.winner, Pooled(f.method)>>
<1>1. \A o \in O : Settle(bet(o), f, exact) =
        IF f.class = "draw" THEN "void"
        ELSE IF f.class # "decisive" \/ f.method = None \/ ~known THEN "unresolved" ELSE Graded(o = result)
  <2>1. CASE family = "method"
    BY <2>1, SelectionIs DEF Settle, SettleMethod
  <2>2. CASE family = "fighter_by_method"
    <3>1. \A o \in O : Settle(bet(o), f, exact) = SettleMethod(bet(o), f)
      BY <2>2, SelectionIs DEF Settle
    <3>2. \A o \in O : bet(o).outcome = o /\ bet(o).family # "method"
      BY <2>2, SelectionIs
    <3> HIDE DEF bet
    <3>3. \A o \in O : SettleMethod(bet(o), f) =
            IF f.class = "draw" THEN "void"
            ELSE IF f.class # "decisive" \/ f.method = None \/ f.winner = None THEN "unresolved"
            ELSE Graded(bet(o).outcome = <<f.winner, Pooled(f.method)>>)
      BY <3>2 DEF SettleMethod
    <3>4. known = (f.winner # None) /\ result = <<f.winner, Pooled(f.method)>>
      BY <2>2
    <3> HIDE DEF known, result
    <3> QED
      BY <3>1, <3>2, <3>3, <3>4
  <2> QED
    BY <2>1, <2>2
<1>2. O # {} /\ \A w \in O : \E v \in O : v # w
  BY ResultsAreOutcomes, OutcomesAreMany
<1>3. f.class = "decisive" /\ f.method # None /\ known => result \in O
  <2> SUFFICES ASSUME f.class = "decisive", f.method # None, known PROVE result \in O
    OBVIOUS
  <2>1. f.method \in Decisive
    BY ResultsAreOutcomes DEF ValidFacts, Methods
  <2>2. Pooled(f.method) \in Finishes \cup {"decision"}
    BY <2>1, ResultsAreOutcomes
  <2>3. CASE family = "method"
    BY <2>2, <2>3 DEF PossibleOf
  <2>4. CASE family = "fighter_by_method"
    <3>1. f.winner \in Sides
      BY <2>4, ResultsAreOutcomes
    <3> QED
      BY <2>2, <2>4, <3>1 DEF PossibleOf
  <2> QED
    BY <2>3, <2>4
<1> HIDE DEF O, known, result
<1>4. CASE f.class = "draw"
  BY <1>1, <1>2, <1>4, AllAlike DEF O
<1>5. CASE f.class # "draw" /\ (f.class # "decisive" \/ f.method = None \/ ~known)
  BY <1>1, <1>2, <1>5, AllAlike DEF O
<1>6. CASE f.class # "draw" /\ ~(f.class # "decisive" \/ f.method = None \/ ~known)
  <2>1. result \in O
    BY <1>3, <1>6
  <2>2. PICK v \in O : v # result
    BY <1>2, <2>1
  <2>3. \A o \in O : Settle(bet(o), f, exact) = Graded(o = result)
    BY <1>1, <1>6
  <2> QED
    BY <2>1, <2>2, <2>3, OneWins DEF O
<1> QED
  BY <1>4, <1>5, <1>6

LEMMA RoundTogether ==
  ASSUME NEW f \in FactsType, ValidFacts(f), ~f.pending, ~f.cancelled, f.class # "no_contest", NEW exact
  PROVE  Together("exact_round", None, f, exact)
<1> DEFINE O == PossibleOf("exact_round", f.rounds)
           bet(o) == Selection("exact_round", o, None)
           judged == f.class = "draw" \/ f.method \in {"decision", "technical_decision"}
<1>1. \A o \in O : Settle(bet(o), f, exact) =
        IF judged THEN "loss"
        ELSE IF f.method \notin Finishes \/ f.round = None THEN "unresolved" ELSE Graded(o = f.round)
  BY SelectionIs DEF Settle, SettleRound
<1> HIDE DEF O, judged
<1>2. O # {} /\ \A w \in O : \E v \in O : v # w
  BY ResultsAreOutcomes, OutcomesAreMany DEF O
<1>3. f.round # None => f.round \in O
  BY ResultsAreOutcomes DEF O, PossibleOf
<1>4. CASE judged
  BY <1>1, <1>2, <1>4, AllAlike DEF O
<1>5. CASE ~judged /\ (f.method \notin Finishes \/ f.round = None)
  BY <1>1, <1>2, <1>5, AllAlike DEF O
<1>6. CASE ~judged /\ ~(f.method \notin Finishes \/ f.round = None)
  <2>1. f.round \in O
    BY <1>3, <1>6
  <2>2. PICK v \in O : v # f.round
    BY <1>2, <2>1
  <2>3. \A o \in O : Settle(bet(o), f, exact) = Graded(o = f.round)
    BY <1>1, <1>6
  <2> QED
    BY <2>1, <2>2, <2>3, OneWins DEF O
<1> QED
  BY <1>4, <1>5, <1>6

LEMMA MarketsSettleTogether ==
  ASSUME OutcomeInv
  PROVE  SettleTogether
<1> DEFINE f == facts
<1>0. f \in FactsType /\ ValidFacts(f)
  BY DEF OutcomeInv
<1>1. ASSUME NEW m \in Markets, NEW exact \in RuleSets
      PROVE  Together(m[1], m[2], f, exact)
  <2>1. /\ m[1] \in {"moneyline", "goes_distance", "totals", "method", "fighter_by_method", "exact_round"}
        /\ m[1] # "totals" => m[2] = None
    BY DEF Markets
  <2>2. CASE f.pending
    <3>1. \A o \in PossibleOf(m[1], f.rounds) : Settle(Selection(m[1], o, m[2]), f, exact) = "unresolved"
      BY <2>2 DEF Settle
    <3> QED
      BY <1>0, <2>1, <3>1, ResultsAreOutcomes, OutcomesAreMany, AllAlike
  <2>3. CASE ~f.pending /\ (f.cancelled \/ f.class = "no_contest")
    <3>1. \A o \in PossibleOf(m[1], f.rounds) : Settle(Selection(m[1], o, m[2]), f, exact) = "void"
      BY <2>3 DEF Settle
    <3> QED
      BY <1>0, <2>1, <3>1, ResultsAreOutcomes, OutcomesAreMany, AllAlike
  <2>4. CASE ~f.pending /\ ~f.cancelled /\ f.class # "no_contest"
    BY <1>0, <2>1, <2>4, MoneylineTogether, DistanceTogether, TotalsTogether, MethodTogether, RoundTogether
  <2> QED
    BY <2>2, <2>3, <2>4
<1> QED
  BY <1>1 DEF SettleTogether, Together

-----------------------------------------------------------------------------
LEMMA ScaledUp ==
  ASSUME NEW a \in Nat, NEW b \in Nat, NEW k \in Nat, a <= b
  PROVE  a * k <= b * k
OBVIOUS

(* A moment of a fight, its half round and its round: a round and its      *)
(* clock n and u of a fight with h units to the half round.                *)
LEMMA HalfRounds ==
  ASSUME NEW h \in Nat \ {0}, NEW n \in Nat \ {0}, NEW u \in 0 .. 2 * h, u = 0 => n = 1,
         NEW e, e = (n - 1) * (2 * h) + u,
         NEW i, i = IF e = 0 THEN 0 ELSE (e - 1) \div h
  PROVE  /\ e \in Nat /\ i \in Nat
         /\ i <= 2 * n - 1 /\ i \div 2 + 1 = n
         /\ \A line \in Nat \ {0} : i < line <=> 2 * e <= line * (2 * h)
<1>1. n - 1 \in Nat /\ h \in Nat /\ u \in Nat
  OBVIOUS
<1>2. (n - 1) * (2 * h) = (2 * (n - 1)) * h /\ (n - 1) * (2 * h) \in Nat
  BY <1>1
<1>3. e \in Nat
  BY <1>1, <1>2
<1>4. CASE e = 0
  <2>1. u = 0 /\ n = 1 /\ i = 0
    BY <1>1, <1>2, <1>4
  <2>2. \A line \in Nat \ {0} : line * (2 * h) \in Nat
    BY <1>1
  <2>3. 0 \div 2 + 1 = 1
    OBVIOUS
  <2> QED
    BY <1>3, <1>4, <2>1, <2>2, <2>3
<1>5. CASE e # 0
  <2>0. i = (e - 1) \div h /\ e \in Nat \ {0}
    BY <1>3, <1>5
  <2>1. i \in Nat /\ i * h <= e - 1 /\ e - 1 < (i + 1) * h
    BY <2>0, Halves
  <2>2. i <= 2 * n - 1
    <3> SUFFICES ASSUME 2 * n <= i PROVE FALSE
      BY <2>1
    <3>1. (2 * n) * h <= i * h
      BY <1>1, <2>1, ScaledUp
    <3>2. (2 * n) * h = (n - 1) * (2 * h) + 2 * h
      BY <1>1
    <3> QED
      BY <1>1, <1>3, <2>1, <3>1, <3>2
  <2>3. 2 * (n - 1) <= i
    <3> SUFFICES ASSUME i + 1 <= 2 * (n - 1) PROVE FALSE
      BY <2>1
    <3>1. (i + 1) * h <= (2 * (n - 1)) * h
      BY <1>1, <2>1, ScaledUp
    <3>2. u = 0
      BY <1>1, <1>2, <1>3, <2>1, <3>1
    <3> QED
      BY <2>1, <3>2
  <2>4. i \div 2 + 1 = n
    BY <2>1, <2>2, <2>3
  <2>5. ASSUME NEW line \in Nat \ {0}
        PROVE  i < line <=> 2 * e <= line * (2 * h)
    <3>1. line * (2 * h) = 2 * (line * h) /\ line * h \in Nat
      BY <1>1
    <3>2. CASE i < line
      <4>1. (i + 1) * h <= line * h
        BY <1>1, <2>1, <3>2, ScaledUp
      <4>2. e <= line * h
        BY <1>3, <2>1, <3>1, <4>1
      <4> QED
        BY <1>3, <3>1, <3>2, <4>2
    <3>3. CASE ~(i < line)
      <4>1. line * h <= i * h
        BY <1>1, <2>1, <3>3, ScaledUp
      <4>2. i * h \in Nat
        BY <1>1, <2>1
      <4>3. line * h < e
        BY <1>3, <2>1, <3>1, <4>1, <4>2
      <4> QED
        BY <1>3, <3>1, <3>3, <4>3
    <3> QED
      BY <3>2, <3>3
  <2> QED
    BY <1>3, <2>1, <2>2, <2>4, <2>5
<1> QED
  BY <1>4, <1>5

Clocked(f) ==
  /\ FineAtom(f) # None /\ Plausible(f)
  /\ f.method \notin {"technical_decision", "technical_draw"}
  /\ f.inRound = 0 => f.round = 1

(* What trains as an atom is a draw, a decision or a stoppage in a half    *)
(* round.                                                                  *)
DrawnAs(f, a) == f.class = "draw" /\ f.method = None /\ a = <<None, "draw", None>>
JudgedAs(f, a) ==
  f.class = "decisive" /\ f.winner \in Sides /\ f.method = "decision" /\ a = <<f.winner, "decision", None>>
StoppedAs(f, a) ==
  /\ f.class = "decisive" /\ f.winner \in Sides /\ f.method \in Finishes
  /\ f.round \in 1 .. f.rounds /\ f.inRound \in 0 .. RoundUnits
  /\ Interval(f) # None /\ a = <<f.winner, f.method, Interval(f)>>

LEMMA FineAtomIs ==
  ASSUME NEW f \in FactsType, ValidFacts(f), Clocked(f)
  PROVE  /\ ~f.pending /\ ~f.cancelled
         /\ DrawnAs(f, FineAtom(f)) \/ JudgedAs(f, FineAtom(f)) \/ StoppedAs(f, FineAtom(f))
<1>1. TerminalAtom(f) # None /\ f.class \in {"draw", "decisive"}
  BY DEF Clocked, FineAtom, TerminalAtom
<1>2. f.pending \in BOOLEAN /\ f.cancelled \in BOOLEAN
  BY DEF FactsType
<1>3. ~f.pending /\ ~f.cancelled
  BY <1>1, <1>2, NoneIsNoWord DEF ValidFacts, NoResult
<1>4. CASE f.class = "draw"
  <2>1. f.method = None
    BY <1>4 DEF ValidFacts, Clocked
  <2>2. TerminalAtom(f) = <<None, "draw">>
    BY <1>4 DEF TerminalAtom, Draw
  <2>3. f.method \notin Finishes /\ f.method \notin {"technical_decision", "technical_draw"}
    BY <2>1, NoneIsNoWord DEF Finishes
  <2>4. FineAtom(f) = <<None, "draw", None>>
    BY <1>1, <2>2, <2>3 DEF FineAtom, Clocked
  <2> QED
    BY <1>3, <1>4, <2>1, <2>4 DEF DrawnAs
<1>5. CASE f.class = "decisive"
  <2>1. f.winner # None /\ f.method # None /\ TerminalAtom(f) = <<f.winner, Pooled(f.method)>>
    BY <1>1, <1>5, NoneIsNoWord DEF TerminalAtom
  <2>2. f.winner \in Sides /\ f.method \in Methods
    BY <2>1, ResultsAreOutcomes
  <2>3. f.method \in Finishes \cup {"decision"} /\ Pooled(f.method) = f.method
    BY <2>2 DEF Clocked, Methods, Decisive, Pooled, Finishes
  <2>4. CASE f.method = "decision"
    <3>1. FineAtom(f) = <<f.winner, "decision", None>>
      BY <1>1, <2>1, <2>3, <2>4 DEF FineAtom, Clocked, Finishes
    <3> QED
      BY <1>3, <1>5, <2>2, <2>4, <3>1 DEF JudgedAs
  <2>5. CASE f.method \in Finishes
    <3>1. FineAtom(f) = <<f.winner, f.method, Interval(f)>> /\ Interval(f) # None
      BY <1>1, <2>1, <2>3, <2>5 DEF FineAtom, Clocked
    <3>2. f.round # None /\ f.inRound # None
      BY <3>1 DEF Interval
    <3>3. f.round \in 1 .. f.rounds /\ f.inRound \in 0 .. RoundUnits
      BY <3>2 DEF ValidFacts, ClockAgrees
    <3> QED
      BY <1>3, <1>5, <2>2, <2>5, <3>1, <3>3 DEF StoppedAs
  <2> QED
    BY <2>3, <2>4, <2>5
<1> QED
  BY <1>1, <1>4, <1>5

(* The half round of a stoppage, and how long it is to the totals.         *)
LEMMA StoppageClock ==
  ASSUME NEW f \in FactsType, ValidFacts(f), StoppedAs(f, FineAtom(f)), f.inRound = 0 => f.round = 1
  PROVE  /\ Interval(f) \in 0 .. 2 * f.rounds - 1
         /\ Interval(f) \div 2 + 1 = f.round
         /\ Duration(f) \in Nat /\ Duration(f) = Elapsed(f.round, f.inRound)
         /\ \A line \in Nat \ {0} : Interval(f) < line <=> 2 * Duration(f) <= line * RoundUnits
<1> DEFINE h == RoundUnits \div 2
           n == f.round
           u == f.inRound
           e == Elapsed(n, u)
           i == IF e = 0 THEN 0 ELSE (e - 1) \div h
<1>1. RoundUnits = 2 * h /\ h \in Nat \ {0}
  <2>1. RoundUnits \in Nat \ {0} /\ RoundUnits % 2 = 0
    BY OutcomeAssumption
  <2> QED
    BY <2>1
<1>2. f.rounds \in {3, 5} /\ n \in 1 .. f.rounds /\ u \in 0 .. RoundUnits
  BY RoundsAreFew DEF StoppedAs
<1>3. n # None /\ u # None
  <2>1. None \notin Nat
    BY OutcomeAssumption
  <2>2. n \in Nat /\ u \in Nat
    BY <1>1, <1>2
  <2> QED
    BY <2>1, <2>2
<1>4. Interval(f) = i
  BY <1>3 DEF Interval
<1> HIDE DEF h
<1>5. e = (n - 1) * (2 * h) + u
  BY <1>1 DEF Elapsed
<1>6. n \in Nat \ {0} /\ u \in 0 .. 2 * h /\ (u = 0 => n = 1)
  BY <1>1, <1>2
<1> HIDE DEF e, i, n, u
<1>7. /\ e \in Nat /\ i \in Nat
      /\ i <= 2 * n - 1 /\ i \div 2 + 1 = n
      /\ \A line \in Nat \ {0} : i < line <=> 2 * e <= line * (2 * h)
  BY <1>1, <1>5, <1>6, HalfRounds DEF i
<1>8. i \in 0 .. 2 * f.rounds - 1
  BY <1>2, <1>6, <1>7
<1>9. Duration(f) = e
  <2>1. CASE f.total = None
    BY <1>3, <2>1 DEF Duration, e, n, u
  <2>2. CASE f.total # None
    <3>1. PICK p \in ClockPairs(f.total, f.rounds) : (f.round \in {None, p[1]}) /\ (f.inRound \in {None, p[2]})
      BY <2>2 DEF ValidFacts, ClockAgrees
    <3>2. f.round = p[1] /\ f.inRound = p[2]
      BY <1>3, <3>1 DEF n, u
    <3>3. Elapsed(p[1], p[2]) = f.total
      BY <3>1 DEF ClockPairs
    <3> QED
      BY <2>2, <3>2, <3>3 DEF Duration, e, n, u
  <2> QED
    BY <2>1, <2>2
<1> QED
  BY <1>1, <1>4, <1>7, <1>8, <1>9 DEF n, e, u

(* A bout trains as the factors of its atom.                               *)
LEMMA RowsAreFactors ==
  ASSUME NEW f \in FactsType, ValidFacts(f), Clocked(f)
  PROVE  TrainingRows(f) = Factors(FineAtom(f), f.rounds)
<1> DEFINE a == FineAtom(f)
<1>1. DrawnAs(f, a) \/ JudgedAs(f, a) \/ StoppedAs(f, a)
  BY FineAtomIs
<1>2. f.rounds \in {3, 5}
  BY RoundsAreFew
<1> HIDE DEF a
<1>3. CASE a[3] = None
  <2>1. 2 * f.rounds \in Nat /\ LastInterval(f) = 2 * f.rounds - 1
    BY <1>2 DEF LastInterval
  <2>2. Survival[2 * f.rounds] = (0 .. LastInterval(f)) \X {Continue}
    BY <2>1, SurvivalIs
  <2> QED
    BY <1>3, <2>2 DEF TrainingRows, Factors, a
<1>4. CASE a[3] # None
  <2>1. StoppedAs(f, a) /\ a[3] = Interval(f)
    BY <1>1, <1>4 DEF DrawnAs, JudgedAs, StoppedAs
  <2>2. a[3] \in Nat
    BY <1>2, <2>1, StoppageClock DEF a, Clocked
  <2>3. Survival[a[3]] = (0 .. a[3] - 1) \X {Continue}
    BY <2>2, SurvivalIs
  <2> QED
    BY <1>4, <2>3 DEF TrainingRows, Factors, a
<1> QED
  BY <1>3, <1>4

(* The price of an outcome sums the atom or it does not.                   *)
LEMMA AtomsOfFights ==
  ASSUME NEW f \in FactsType, ValidFacts(f), Clocked(f)
  PROVE  FineAtom(f) \in FineAtoms(f.rounds)
<1> DEFINE a == FineAtom(f)
<1>1. DrawnAs(f, a) \/ JudgedAs(f, a) \/ StoppedAs(f, a)
  BY FineAtomIs
<1>2. CASE DrawnAs(f, a)
  BY <1>2 DEF DrawnAs, FineAtoms
<1>3. CASE JudgedAs(f, a)
  BY <1>3 DEF JudgedAs, FineAtoms
<1>4. CASE StoppedAs(f, a)
  <2>1. Interval(f) \in 0 .. 2 * f.rounds - 1
    BY <1>4, StoppageClock DEF Clocked
  <2>2. a = <<f.winner, f.method, Interval(f)>> /\ f.winner \in Sides /\ f.method \in Finishes
    BY <1>4 DEF StoppedAs
  <2>3. a \in Sides \X Finishes \X (0 .. 2 * f.rounds - 1)
    BY <2>1, <2>2
  <2> QED
    BY <2>3 DEF FineAtoms
<1> QED
  BY <1>1, <1>2, <1>3, <1>4

(* The outcomes that an atom is priced in, family by family.               *)
PricesIn(s, a) ==
  LET finish == a[2] \in Finishes
  IN CASE s.family = "moneyline" -> a[1] = s.outcome
       [] s.family = "goes_distance" -> finish = (s.outcome = "inside_distance")
       [] s.family = "totals" ->
            (s.outcome = "under") = (finish /\ a[3] \in UnderIntervals(s.line))
       [] s.family = "method" -> a[2] = s.outcome
       [] s.family = "fighter_by_method" -> <<a[1], a[2]>> = s.outcome
       [] s.family = "exact_round" -> finish /\ a[3] \div 2 + 1 = s.outcome

LEMMA PricedIn ==
  ASSUME NEW s, NEW r, NEW a \in FineAtoms(r)
  PROVE  a \in PricedAtoms(s, r) <=> PricesIn(s, a)
BY DEF PricedAtoms, PricesIn

LEMMA BetsOfMarkets ==
  ASSUME NEW m \in Markets, NEW r, NEW s \in Catalog(m[1], m[2], r)
  PROVE  /\ s.family = m[1] /\ s.outcome \in PossibleOf(m[1], r)
         /\ m[1] \in {"moneyline", "goes_distance", "totals", "method", "fighter_by_method", "exact_round"}
         /\ m[1] = "totals" => s.line \in {3, 5}
<1>1. PICK o \in PossibleOf(m[1], r) : s = Selection(m[1], o, m[2])
  BY BetsAre
<1>2. s.family = m[1] /\ s.outcome = o /\ s.line = m[2]
  BY <1>1, SelectionIs
<1>3. /\ m[1] \in {"moneyline", "goes_distance", "totals", "method", "fighter_by_method", "exact_round"}
      /\ m[1] = "totals" => m[2] \in {3, 5}
  BY DEF Markets, Lines
<1> QED
  BY <1>2, <1>3

(* A fight that goes the distance lasts longer than any line.              *)
LEMMA DistanceIsOver ==
  ASSUME NEW f \in FactsType, Plausible(f), FullDistance(f), NEW line \in {3, 5}
  PROVE  Duration(f) # None /\ SideOfLine(Duration(f), line, "under") = "over"
<1> DEFINE d == f.rounds * RoundUnits
<1>1. f.rounds \in {3, 5} /\ RoundUnits \in Nat \ {0}
  BY RoundsAreFew, OutcomeAssumption
<1>2. Duration(f) = d
  BY DEF Plausible
<1>3. d \in Nat /\ 2 * d > line * RoundUnits /\ ~(2 * d = line * RoundUnits)
  BY <1>1
<1>4. None \notin Nat
  BY OutcomeAssumption
<1> HIDE DEF d
<1>5. d # None
  BY <1>3, <1>4
<1> QED
  BY <1>2, <1>3, <1>5 DEF SideOfLine

LEMMA PaidAsDrawn ==
  ASSUME NEW f \in FactsType, ValidFacts(f), Clocked(f), ~f.pending, ~f.cancelled, DrawnAs(f, FineAtom(f)),
         NEW m \in Markets, NEW s \in Catalog(m[1], m[2], f.rounds),
         Settle(s, f, "under") \in {"win", "loss"}
  PROVE  Settle(s, f, "under") = Graded(PricesIn(s, FineAtom(f)))
<1> DEFINE a == FineAtom(f)
<1>1. f.class = "draw" /\ f.method = None /\ a[2] \notin Finishes /\ FullDistance(f)
  BY DEF DrawnAs, Finishes, FullDistance
<1>2. f.class # "no_contest" /\ Realized(f) = "goes_distance"
  BY <1>1 DEF Realized
<1> HIDE DEF a
<1>3. s.family \in {"goes_distance", "totals", "exact_round"}
  BY <1>1, <1>2, BetsOfMarkets DEF Settle, SettleMoneyline, SettleMethod
<1>4. CASE s.family = "goes_distance"
  <2>1. Settle(s, f, "under") = Graded(s.outcome = "goes_distance")
    BY <1>2, <1>4, NoneIsNoWord DEF Settle, SettleDistance
  <2>2. s.outcome \in {"goes_distance", "inside_distance"}
    BY <1>4, BetsOfMarkets DEF PossibleOf
  <2>3. PricesIn(s, a) <=> s.outcome # "inside_distance"
    BY <1>1, <1>4 DEF PricesIn
  <2> QED
    BY <2>1, <2>2, <2>3 DEF Graded, a
<1>5. CASE s.family = "totals"
  <2>1. s.line \in {3, 5} /\ s.outcome \in {"over", "under"}
    BY <1>5, BetsOfMarkets DEF PossibleOf
  <2>2. Duration(f) # None /\ SideOfLine(Duration(f), s.line, "under") = "over"
    BY <1>1, <2>1, DistanceIsOver DEF Clocked
  <2>3. Settle(s, f, "under") = Graded(s.outcome = "over")
    BY <1>1, <1>2, <1>5, <2>2 DEF Settle, SettleTotals
  <2>4. PricesIn(s, a) <=> s.outcome # "under"
    BY <1>1, <1>5 DEF PricesIn
  <2> QED
    BY <2>1, <2>3, <2>4 DEF Graded, a
<1>6. CASE s.family = "exact_round"
  <2>1. Settle(s, f, "under") = "loss"
    BY <1>1, <1>2, <1>6 DEF Settle, SettleRound
  <2>2. ~PricesIn(s, a)
    BY <1>1, <1>6 DEF PricesIn
  <2> QED
    BY <2>1, <2>2 DEF Graded, a
<1> QED
  BY <1>3, <1>4, <1>5, <1>6

LEMMA PaidAsJudged ==
  ASSUME NEW f \in FactsType, ValidFacts(f), Clocked(f), ~f.pending, ~f.cancelled, JudgedAs(f, FineAtom(f)),
         NEW m \in Markets, NEW s \in Catalog(m[1], m[2], f.rounds),
         Settle(s, f, "under") \in {"win", "loss"}
  PROVE  Settle(s, f, "under") = Graded(PricesIn(s, FineAtom(f)))
<1> DEFINE a == FineAtom(f)
<1>1. /\ f.class = "decisive" /\ f.method = "decision" /\ FullDistance(f) /\ Pooled(f.method) = "decision"
      /\ a[1] = f.winner /\ a[2] = "decision" /\ a[2] \notin Finishes
  BY DEF JudgedAs, Finishes, FullDistance, Pooled
<1>2. f.class # "no_contest" /\ Realized(f) = "goes_distance"
  BY <1>1 DEF Realized
<1>3. f.winner # None
  BY NoneIsNoWord DEF JudgedAs, Sides
<1> HIDE DEF a
<1>4. CASE s.family = "goes_distance"
  <2>1. Settle(s, f, "under") = Graded(s.outcome = "goes_distance")
    BY <1>2, <1>4, NoneIsNoWord DEF Settle, SettleDistance
  <2>2. s.outcome \in {"goes_distance", "inside_distance"}
    BY <1>4, BetsOfMarkets DEF PossibleOf
  <2>3. PricesIn(s, a) <=> s.outcome # "inside_distance"
    BY <1>1, <1>4 DEF PricesIn
  <2> QED
    BY <2>1, <2>2, <2>3 DEF Graded, a
<1>5. CASE s.family = "totals"
  <2>1. s.line \in {3, 5} /\ s.outcome \in {"over", "under"}
    BY <1>5, BetsOfMarkets DEF PossibleOf
  <2>2. Duration(f) # None /\ SideOfLine(Duration(f), s.line, "under") = "over"
    BY <1>1, <2>1, DistanceIsOver DEF Clocked
  <2>3. Settle(s, f, "under") = Graded(s.outcome = "over")
    BY <1>1, <1>2, <1>5, <2>2, NoneIsNoWord DEF Settle, SettleTotals
  <2>4. PricesIn(s, a) <=> s.outcome # "under"
    BY <1>1, <1>5 DEF PricesIn
  <2> QED
    BY <2>1, <2>3, <2>4 DEF Graded, a
<1>6. CASE s.family = "exact_round"
  <2>1. Settle(s, f, "under") = "loss"
    BY <1>1, <1>2, <1>6 DEF Settle, SettleRound
  <2>2. ~PricesIn(s, a)
    BY <1>1, <1>6 DEF PricesIn
  <2> QED
    BY <2>1, <2>2 DEF Graded, a
<1>7. CASE s.family = "moneyline"
  <2>1. Settle(s, f, "under") = Graded(s.outcome = f.winner)
    BY <1>1, <1>2, <1>3, <1>7 DEF Settle, SettleMoneyline
  <2>2. PricesIn(s, a) <=> a[1] = s.outcome
    BY <1>7 DEF PricesIn
  <2> QED
    BY <1>1, <2>1, <2>2 DEF Graded, a
<1>8. CASE s.family = "method"
  <2>1. Settle(s, f, "under") = Graded(s.outcome = "decision")
    BY <1>1, <1>2, <1>8, NoneIsNoWord DEF Settle, SettleMethod
  <2>2. PricesIn(s, a) <=> a[2] = s.outcome
    BY <1>8 DEF PricesIn
  <2> QED
    BY <1>1, <2>1, <2>2 DEF Graded, a
<1>9. CASE s.family = "fighter_by_method"
  <2>1. Settle(s, f, "under") = Graded(s.outcome = <<f.winner, "decision">>)
    BY <1>1, <1>2, <1>3, <1>9, NoneIsNoWord DEF Settle, SettleMethod
  <2>2. PricesIn(s, a) <=> <<a[1], a[2]>> = s.outcome
    BY <1>9 DEF PricesIn
  <2> QED
    BY <1>1, <2>1, <2>2 DEF Graded, a
<1> QED
  BY <1>4, <1>5, <1>6, <1>7, <1>8, <1>9, BetsOfMarkets

LEMMA PaidAsStopped ==
  ASSUME NEW f \in FactsType, ValidFacts(f), Clocked(f), ~f.pending, ~f.cancelled, StoppedAs(f, FineAtom(f)),
         NEW m \in Markets, NEW s \in Catalog(m[1], m[2], f.rounds),
         Settle(s, f, "under") \in {"win", "loss"}
  PROVE  Settle(s, f, "under") = Graded(PricesIn(s, FineAtom(f)))
<1> DEFINE a == FineAtom(f)
<1>1. /\ f.class = "decisive" /\ f.method \in Finishes /\ Pooled(f.method) = f.method
      /\ a[1] = f.winner /\ a[2] = f.method /\ a[3] = Interval(f)
  BY DEF StoppedAs, Finishes, Pooled
<1>2. f.method # None /\ f.winner # None
  BY NoneIsNoWord DEF StoppedAs, Sides, Finishes
<1>3. f.class # "no_contest" /\ Realized(f) = "inside_distance"
  BY <1>1, <1>2 DEF Realized, FullDistance, Finishes
<1>4. /\ Interval(f) \in 0 .. 2 * f.rounds - 1
      /\ Interval(f) \div 2 + 1 = f.round
      /\ Duration(f) \in Nat
      /\ \A line \in Nat \ {0} : Interval(f) < line <=> 2 * Duration(f) <= line * RoundUnits
  BY StoppageClock DEF Clocked
<1>5. f.round # None
  <2>1. f.round \in Nat
    BY RoundsAreFew DEF StoppedAs
  <2>2. None \notin Nat
    BY OutcomeAssumption
  <2> QED
    BY <2>1, <2>2
<1> HIDE DEF a
<1>6. CASE s.family = "goes_distance"
  <2>1. Settle(s, f, "under") = Graded(s.outcome = "inside_distance")
    BY <1>3, <1>6, NoneIsNoWord DEF Settle, SettleDistance
  <2>2. PricesIn(s, a) <=> s.outcome = "inside_distance"
    BY <1>1, <1>6 DEF PricesIn
  <2> QED
    BY <2>1, <2>2 DEF Graded, a
<1>7. CASE s.family = "totals"
  <2> DEFINE side == SideOfLine(Duration(f), s.line, "under")
  <2>1. s.line \in {3, 5} /\ s.outcome \in {"over", "under"}
    BY <1>7, BetsOfMarkets DEF PossibleOf
  <2>2. Duration(f) # None
    <3>1. None \notin Nat
      BY OutcomeAssumption
    <3> QED
      BY <1>4, <3>1
  <2>3. side \in {"over", "under"} /\ (side = "under" <=> 2 * Duration(f) <= s.line * RoundUnits)
    <3>1. RoundUnits \in Nat /\ s.line \in Nat /\ s.line * RoundUnits \in Nat /\ 2 * Duration(f) \in Nat
      BY <1>4, <2>1, OutcomeAssumption
    <3> QED
      BY <3>1 DEF SideOfLine
  <2>4. side = "under" <=> Interval(f) < s.line
    <3>1. s.line \in Nat \ {0}
      BY <2>1
    <3> QED
      BY <1>4, <2>3, <3>1
  <2>5. Interval(f) < s.line <=> a[3] \in UnderIntervals(s.line)
    BY <1>1, <1>4, <2>1, RoundsAreFew DEF UnderIntervals
  <2> HIDE DEF side
  <2>6. Settle(s, f, "under") = Graded(s.outcome = side)
    BY <1>1, <1>2, <1>3, <1>7, <2>2, <2>3 DEF Settle, SettleTotals, side
  <2>7. PricesIn(s, a) <=> (s.outcome = "under" <=> a[3] \in UnderIntervals(s.line))
    BY <1>1, <1>7 DEF PricesIn
  <2> QED
    BY <2>1, <2>3, <2>4, <2>5, <2>6, <2>7 DEF Graded, a
<1>8. CASE s.family = "exact_round"
  <2>1. Settle(s, f, "under") = Graded(s.outcome = f.round)
    BY <1>1, <1>3, <1>5, <1>8 DEF Settle, SettleRound, Finishes
  <2>2. PricesIn(s, a) <=> a[3] \div 2 + 1 = s.outcome
    BY <1>1, <1>8 DEF PricesIn
  <2> QED
    BY <1>1, <1>4, <2>1, <2>2 DEF Graded, a
<1>9. CASE s.family = "moneyline"
  <2>1. Settle(s, f, "under") = Graded(s.outcome = f.winner)
    BY <1>1, <1>2, <1>3, <1>9 DEF Settle, SettleMoneyline
  <2>2. PricesIn(s, a) <=> a[1] = s.outcome
    BY <1>9 DEF PricesIn
  <2> QED
    BY <1>1, <2>1, <2>2 DEF Graded, a
<1>10. CASE s.family = "method"
  <2>1. Settle(s, f, "under") = Graded(s.outcome = f.method)
    BY <1>1, <1>2, <1>3, <1>10 DEF Settle, SettleMethod
  <2>2. PricesIn(s, a) <=> a[2] = s.outcome
    BY <1>10 DEF PricesIn
  <2> QED
    BY <1>1, <2>1, <2>2 DEF Graded, a
<1>11. CASE s.family = "fighter_by_method"
  <2>1. Settle(s, f, "under") = Graded(s.outcome = <<f.winner, f.method>>)
    BY <1>1, <1>2, <1>3, <1>11 DEF Settle, SettleMethod
  <2>2. PricesIn(s, a) <=> <<a[1], a[2]>> = s.outcome
    BY <1>11 DEF PricesIn
  <2> QED
    BY <1>1, <2>1, <2>2 DEF Graded, a
<1> QED
  BY <1>6, <1>7, <1>8, <1>9, <1>10, <1>11, BetsOfMarkets

(* A bet is paid as it was priced (PricedAsSettled).                       *)
THEOREM BetsPaidAsPriced == OutcomeSpec => []PricedAsSettled
<1>1. OutcomeInv => PricedAsSettled
  <2> SUFFICES ASSUME OutcomeInv PROVE PricedAsSettled
    OBVIOUS
  <2>1. facts \in FactsType /\ ValidFacts(facts)
    BY DEF OutcomeInv
  <2>2. SettleTogether
    BY MarketsSettleTogether
  <2>3. ASSUME Clocked(facts)
        PROVE  /\ TrainingRows(facts) = Factors(FineAtom(facts), facts.rounds)
               /\ \A m \in Markets : \A s \in Catalog(m[1], m[2], facts.rounds) :
                    Settle(s, facts, "under") \in {"win", "loss"} =>
                      Settle(s, facts, "under") = Graded(FineAtom(facts) \in PricedAtoms(s, facts.rounds))
    <3>1. TrainingRows(facts) = Factors(FineAtom(facts), facts.rounds)
      BY <2>1, <2>3, RowsAreFactors
    <3>2. FineAtom(facts) \in FineAtoms(facts.rounds)
      BY <2>1, <2>3, AtomsOfFights
    <3>3. /\ ~facts.pending /\ ~facts.cancelled
          /\ DrawnAs(facts, FineAtom(facts)) \/ JudgedAs(facts, FineAtom(facts)) \/ StoppedAs(facts, FineAtom(facts))
      BY <2>1, <2>3, FineAtomIs
    <3>4. \A m \in Markets : \A s \in Catalog(m[1], m[2], facts.rounds) :
            Settle(s, facts, "under") \in {"win", "loss"} =>
              Settle(s, facts, "under") = Graded(PricesIn(s, FineAtom(facts)))
      BY <2>1, <2>3, <3>3, PaidAsDrawn, PaidAsJudged, PaidAsStopped
    <3>5. \A s : Graded(FineAtom(facts) \in PricedAtoms(s, facts.rounds)) = Graded(PricesIn(s, FineAtom(facts)))
      BY <3>2, PricedIn DEF Graded
    <3> QED
      BY <3>1, <3>4, <3>5
  <2> QED
    BY <2>2, <2>3 DEF PricedAsSettled, Clocked
<1> QED
  BY <1>1, OutcomeInvariant, PTL

-----------------------------------------------------------------------------
(* The order of the candidates: the report is the same however they come.  *)

(* What a finite set is mapped to, one to one, has as many elements.       *)
LEMMA CountedBy ==
  ASSUME NEW C, IsFiniteSet(C), \A c, d \in C : IdOf(c) = IdOf(d) => c = d
  PROVE  Cardinality({IdOf(c) : c \in C}) = Cardinality(C)
<1> DEFINE f == [c \in C |-> IdOf(c)]
<1>1. f \in Bijection(C, {IdOf(c) : c \in C})
  BY DEF Bijection, Injection, Surjection, IsInjective
<1> QED
  BY <1>1, FS_Bijection DEF ExistsBijection

(* A permutation of a finite set leaves nothing out.                       *)
LEMMA ShufflesReachAll ==
  ASSUME NEW D, IsFiniteSet(D), NEW s \in [D -> D], \A i, j \in D : s[i] = s[j] => i = j,
         NEW j \in D
  PROVE  \E i \in D : s[i] = j
<1>1. s \in Injection(D, D)
  BY DEF Injection, IsInjective
<1>2. s \in Surjection(D, D)
  BY <1>1, FS_Injection
<1> QED
  BY <1>2 DEF Surjection

(* A pool that candidates can be in: places with a first among any of them.*)
Pool(p) ==
  /\ DOMAIN p \subseteq Nat /\ IsFiniteSet(DOMAIN p)
  /\ \A i \in DOMAIN p : p[i] \in Candidates
  /\ \A I \in SUBSET (DOMAIN p) : I # {} => \E i \in I : \A j \in I : i <= j

Marked(c) == [c EXCEPT !.defects = @ \cup {"ambiguous_selection"}]

Uniform(p, id) ==
  \A i, j \in Indices(p, id) : Fingerprint(p[i]) = Fingerprint(p[j])

LEMMA MarkedIs ==
  ASSUME NEW c, CandidateType(c)
  PROVE  CandidateType(Marked(c)) /\ IdOf(Marked(c)) = IdOf(c) /\ Classify(Marked(c)) = "no_bet"
<1>1. /\ Marked(c).bout = c.bout /\ Marked(c).bet = c.bet
      /\ Marked(c).p50 = c.p50 /\ Marked(c).p25 = c.p25
      /\ Marked(c).win = c.win /\ Marked(c).void = c.void
      /\ Marked(c).quote = c.quote /\ DOMAIN Marked(c) = DOMAIN c
      /\ Marked(c).defects = c.defects \cup {"ambiguous_selection"}
  BY DEF CandidateType, Marked
<1>2. Marked(c).defects # {}
  BY <1>1
<1> QED
  BY <1>1, <1>2 DEF CandidateType, IdOf, Classify, PrePricePassed

(* What is left of a selection that came more than once.                   *)
LEMMA OneOf ==
  ASSUME NEW p, Pool(p), NEW id \in Ids(p)
  PROVE  /\ CandidateType(OnePerSelection(p, id)) /\ IdOf(OnePerSelection(p, id)) = id
         /\ Uniform(p, id) => \E i \in Indices(p, id) : OnePerSelection(p, id) = p[i]
         /\ ~Uniform(p, id) => Classify(OnePerSelection(p, id)) = "no_bet"
<1> DEFINE I == Indices(p, id)
           first == p[FirstOf(I)]
<1>1. I \in SUBSET (DOMAIN p) /\ I # {}
  BY DEF Ids, Indices
<1>2. FirstOf(I) \in I
  BY <1>1 DEF Pool, FirstOf
<1>3. first \in Candidates /\ IdOf(first) = id
  BY <1>1, <1>2 DEF Pool, Indices
<1>4. CandidateType(first)
  BY <1>3, PolicyAssumption
<1>5. OnePerSelection(p, id) = IF \A i \in I : Fingerprint(p[i]) = Fingerprint(first)
                                 THEN first ELSE Marked(first)
  BY DEF OnePerSelection, Marked
<1>6. Uniform(p, id) <=> \A i \in I : Fingerprint(p[i]) = Fingerprint(first)
  BY <1>2 DEF Uniform
<1> HIDE DEF first
<1>7. CandidateType(Marked(first)) /\ IdOf(Marked(first)) = id /\ Classify(Marked(first)) = "no_bet"
  BY <1>3, <1>4, MarkedIs
<1>8. first = p[FirstOf(I)]
  BY DEF first
<1> HIDE DEF I
<1>9. \E i \in I : first = p[i]
  BY <1>2, <1>8
<1> QED
  BY <1>3, <1>4, <1>5, <1>6, <1>7, <1>9 DEF I

(* Two pools that say the same of every selection.                         *)
Alike(p, q) ==
  /\ Ids(p) = Ids(q)
  /\ \A id \in Ids(p) :
       LET c == OnePerSelection(p, id)
           d == OnePerSelection(q, id)
       IN /\ Classify(c) = Classify(d)
          /\ Classify(c) # "no_bet" => c.p50 = d.p50 /\ c.p25 = d.p25
          /\ Classify(c) = "confirmed_value" => c.quote.odds = d.quote.odds

LEMMA SaidOnce ==
  ASSUME NEW c, NEW d, CandidateType(c), CandidateType(d), Fingerprint(c) = Fingerprint(d),
         Classify(c) = Classify(d)
  PROVE  /\ c.p50 = d.p50 /\ c.p25 = d.p25
         /\ Classify(c) = "confirmed_value" => c.quote.odds = d.quote.odds
<1>1. c.p50 = d.p50 /\ c.p25 = d.p25
  BY DEF Fingerprint
<1>2. ASSUME Classify(c) = "confirmed_value" PROVE c.quote.odds = d.quote.odds
  <2>1. c.quote # None /\ d.quote # None
    BY <1>2 DEF Classify
  <2> QED
    BY <2>1 DEF Fingerprint
<1> QED
  BY <1>1, <1>2

(* A shuffled pool says the same of every selection.                       *)
LEMMA ShuffledAlike ==
  ASSUME NEW p, Pool(p), SameToGates(p), NEW s \in [DOMAIN p -> DOMAIN p],
         \A i, j \in DOMAIN p : s[i] = s[j] => i = j,
         NEW q, q = [i \in DOMAIN p |-> p[s[i]]]
  PROVE  Pool(q) /\ Alike(p, q)
<1>1. DOMAIN q = DOMAIN p /\ \A i \in DOMAIN p : s[i] \in DOMAIN p /\ q[i] = p[s[i]]
  OBVIOUS
<1>2. \A j \in DOMAIN p : \E i \in DOMAIN p : s[i] = j
  BY ShufflesReachAll DEF Pool
<1>3. Pool(q)
  BY <1>1 DEF Pool
<1>4. Ids(p) = Ids(q)
  BY <1>1, <1>2 DEF Ids
<1>5. ASSUME NEW id \in Ids(p), NEW c, NEW d,
             c = OnePerSelection(p, id), d = OnePerSelection(q, id)
      PROVE  /\ Classify(c) = Classify(d)
             /\ Classify(c) # "no_bet" => c.p50 = d.p50 /\ c.p25 = d.p25
             /\ Classify(c) = "confirmed_value" => c.quote.odds = d.quote.odds
  <2>1. \A i \in Indices(q, id) : s[i] \in Indices(p, id) /\ q[i] = p[s[i]]
    BY <1>1 DEF Indices
  <2>2. \A j \in Indices(p, id) : \E i \in Indices(q, id) : s[i] = j
    BY <1>1, <1>2 DEF Indices
  <2>3. Uniform(p, id) <=> Uniform(q, id)
    BY <2>1, <2>2 DEF Uniform
  <2>4. CASE ~Uniform(p, id)
    BY <2>3, <2>4, <1>3, <1>4, <1>5, OneOf
  <2>5. CASE Uniform(p, id)
    <3>1. PICK i \in Indices(p, id) : c = p[i]
      BY <2>5, <1>5, OneOf
    <3>2. PICK j \in Indices(q, id) : d = q[j]
      BY <2>5, <2>3, <1>3, <1>4, <1>5, OneOf
    <3>3. s[j] \in Indices(p, id) /\ d = p[s[j]]
      BY <3>2, <2>1
    <3>4. Fingerprint(c) = Fingerprint(d)
      BY <2>5, <3>1, <3>3 DEF Uniform
    <3>5. i \in DOMAIN p /\ s[j] \in DOMAIN p /\ IdOf(c) = id /\ IdOf(d) = id
      BY <3>1, <3>3 DEF Indices
    <3>6. Classify(c) = Classify(d)
      BY <3>1, <3>3, <3>4, <3>5 DEF SameToGates
    <3>7. CandidateType(c) /\ CandidateType(d)
      BY <1>3, <1>4, <1>5, OneOf
    <3> QED
      BY <3>4, <3>6, <3>7, SaidOnce
  <2> QED
    BY <2>4, <2>5
<1> QED
  BY <1>3, <1>4, <1>5 DEF Alike

-----------------------------------------------------------------------------
(* Every selection of the pool is one candidate, and the other way round.  *)
LEMMA DistinctAre ==
  ASSUME NEW p, Pool(p), NEW c \in Distinct(p)
  PROVE  /\ IdOf(c) \in Ids(p) /\ c = OnePerSelection(p, IdOf(c)) /\ CandidateType(c)
         /\ \E e \in Candidates : IdOf(e) = IdOf(c)
<1>1. PICK id \in Ids(p) : c = OnePerSelection(p, id)
  BY DEF Distinct
<1>2. IdOf(c) = id /\ CandidateType(c)
  BY <1>1, OneOf
<1>3. \E e \in Candidates : IdOf(e) = id
  BY DEF Ids, Pool
<1> QED
  BY <1>1, <1>2, <1>3

LEMMA DistinctFinite ==
  ASSUME NEW p, Pool(p)
  PROVE  IsFiniteSet(Distinct(p))
<1> DEFINE f == [i \in DOMAIN p |-> OnePerSelection(p, IdOf(p[i]))]
<1>1. f \in Surjection(DOMAIN p, Distinct(p))
  BY DEF Surjection, Distinct, Ids
<1> QED
  BY <1>1, FS_Surjection DEF Pool

(* A confirmed candidate has a score, and a place for each tie.            *)
LEMMA Weighed ==
  ASSUME NEW p, Pool(p), NEW c \in Passed(p)
  PROVE  /\ c \in Distinct(p) /\ c.p25 \in Nat /\ c.quote.odds \in Nat
         /\ Place(MarketPriority, c.bet.family) \in Nat
         /\ Place(IdentityOrder, IdOf(c)) \in Nat
         /\ IdentityOrder[Place(IdentityOrder, IdOf(c))] = IdOf(c)
<1>1. c \in Distinct(p) /\ Classify(c) = "confirmed_value"
  BY DEF Passed
<1>2. CandidateType(c) /\ \E e \in Candidates : IdOf(e) = IdOf(c)
  BY <1>1, DistinctAre
<1>3. c.p25 \in Nat /\ c.quote.odds \in Nat
  BY <1>1, <1>2 DEF Classify, PrePricePassed, CandidateType
<1>4. \E m \in Markets : c.bet.family = m[1]
  BY <1>2 DEF CandidateType, Catalog, Selection
<1>5. \E i \in DOMAIN MarketPriority : MarketPriority[i] = c.bet.family
  BY <1>4, PolicyAssumption
<1>6. \E i \in DOMAIN IdentityOrder : IdentityOrder[i] = IdOf(c)
  BY <1>2, PolicyAssumption DEF IdOf
<1> QED
  BY <1>1, <1>3, <1>5, <1>6, PolicyAssumption DEF Place

(* The confirmed candidates are ordered, without ties.                     *)
LEMMA BetterIsAnOrder ==
  ASSUME NEW p, Pool(p), NEW c \in Passed(p), NEW d \in Passed(p)
  PROVE  /\ IdOf(c) = IdOf(d) => c = d
         /\ c # d => Better(c, d) \/ Better(d, c)
         /\ ~Better(c, c)
         /\ \A e \in Passed(p) : Better(c, d) /\ Better(d, e) => Better(c, e)
<1> DEFINE score(x) == x.p25 * x.quote.odds
           family(x) == Place(MarketPriority, x.bet.family)
           place(x) == Place(IdentityOrder, IdOf(x))
<1>1. \A x \in Passed(p) : /\ score(x) \in Nat /\ family(x) \in Nat /\ place(x) \in Nat
                           /\ IdentityOrder[place(x)] = IdOf(x) /\ x \in Distinct(p)
  BY Weighed
<1>2. ASSUME NEW x, NEW y
      PROVE  Better(x, y) <=> \/ score(x) > score(y)
                              \/ score(x) = score(y) /\ family(x) < family(y)
                              \/ score(x) = score(y) /\ family(x) = family(y) /\ place(x) < place(y)
  BY Zenon DEF Better
<1>3. \A x, y \in Passed(p) : IdOf(x) = IdOf(y) => x = y
  BY <1>1, DistinctAre
<1> HIDE DEF score, family, place
<1>4. c # d => place(c) # place(d)
  BY <1>1, <1>3
<1>5. c # d => Better(c, d) \/ Better(d, c)
  <2>1. /\ score(c) \in Nat /\ family(c) \in Nat /\ place(c) \in Nat
        /\ score(d) \in Nat /\ family(d) \in Nat /\ place(d) \in Nat
    BY <1>1
  <2> QED
    BY <2>1, <1>2, <1>4
<1>6. ~Better(c, c)
  BY <1>1, <1>2
<1>7. \A e \in Passed(p) : Better(c, d) /\ Better(d, e) => Better(c, e)
  BY <1>1, <1>2
<1> QED
  BY <1>3, <1>5, <1>6, <1>7

-----------------------------------------------------------------------------
LEMMA AlikeTurned ==
  ASSUME NEW p, NEW q, Alike(p, q)
  PROVE  Alike(q, p)
BY DEF Alike

(* What two such pools say of two selections that pass.                    *)
LEMMA TwinsCompare ==
  ASSUME NEW p, NEW q, Pool(p), Pool(q), Alike(p, q), NEW x \in Ids(p), NEW y \in Ids(p),
         OnePerSelection(p, x) \in Passed(p), OnePerSelection(p, y) \in Passed(p)
  PROVE  /\ OnePerSelection(q, x) \in Passed(q)
         /\ Better(OnePerSelection(p, x), OnePerSelection(p, y))
              <=> Better(OnePerSelection(q, x), OnePerSelection(q, y))
<1> DEFINE a == OnePerSelection(p, x)
           b == OnePerSelection(p, y)
           c == OnePerSelection(q, x)
           d == OnePerSelection(q, y)
<1>1. x \in Ids(q) /\ y \in Ids(q)
  BY DEF Alike
<1>2. IdOf(a) = x /\ IdOf(b) = y /\ IdOf(c) = x /\ IdOf(d) = y
  BY <1>1, OneOf
<1>3. Classify(a) = "confirmed_value" /\ Classify(b) = "confirmed_value"
  BY DEF Passed
<1>4. /\ Classify(c) = "confirmed_value"
      /\ a.p25 = c.p25 /\ a.quote.odds = c.quote.odds
      /\ b.p25 = d.p25 /\ b.quote.odds = d.quote.odds
  BY <1>3 DEF Alike
<1>5. c \in Passed(q)
  BY <1>1, <1>4 DEF Passed, Distinct
<1>6. a.bet = c.bet /\ b.bet = d.bet
  BY <1>2 DEF IdOf
<1> HIDE DEF a, b, c, d
<1>7. Better(a, b) <=> Better(c, d)
  BY <1>2, <1>4, <1>6 DEF Better
<1> QED
  BY <1>5, <1>7 DEF a, b, c, d

LEMMA TwinsPicked ==
  ASSUME NEW p, NEW q, Pool(p), Pool(q), Alike(p, q), NEW c \in Picks(p),
         NEW d, d = OnePerSelection(q, IdOf(c))
  PROVE  /\ d \in Picks(q) /\ IdOf(d) = IdOf(c) /\ c = OnePerSelection(p, IdOf(d))
         /\ {IdOf(e) : e \in {e \in Picks(p) : Better(e, c)}}
              \subseteq {IdOf(e) : e \in {e \in Picks(q) : Better(e, d)}}
<1>0. Alike(q, p) /\ Ids(p) = Ids(q)
  BY AlikeTurned DEF Alike
<1>1. ASSUME NEW a \in Picks(p), NEW b, b = OnePerSelection(q, IdOf(a))
      PROVE  /\ a \in Passed(p) /\ IdOf(a) \in Ids(p) /\ a = OnePerSelection(p, IdOf(a))
             /\ b \in Picks(q) /\ IdOf(b) = IdOf(a)
  <2>1. a \in Passed(p) /\ a \in Distinct(p)
    BY DEF Picks, Passed
  <2>2. IdOf(a) \in Ids(p) /\ a = OnePerSelection(p, IdOf(a)) /\ IdOf(a) \in Ids(q)
    BY <2>1, <1>0, DistinctAre
  <2>3. b \in Passed(q) /\ IdOf(b) = IdOf(a)
    BY <1>1, <2>1, <2>2, TwinsCompare, OneOf
  <2>4. ASSUME NEW e \in OfBout(Passed(q), b.bout), Better(e, b) PROVE FALSE
    <3>1. e \in Passed(q) /\ e.bout = b.bout /\ e \in Distinct(q)
      BY DEF OfBout, Passed
    <3>2. IdOf(e) \in Ids(q) /\ e = OnePerSelection(q, IdOf(e))
      BY <3>1, DistinctAre
    <3> DEFINE g == OnePerSelection(p, IdOf(e))
    <3>3. g \in Passed(p) /\ Better(g, a)
      BY <1>0, <1>1, <2>2, <2>3, <2>4, <3>1, <3>2, TwinsCompare
    <3>4. IdOf(g) = IdOf(e)
      BY <1>0, <3>2, OneOf
    <3>5. g.bout = a.bout
      BY <2>3, <3>1, <3>4 DEF IdOf
    <3> QED
      BY <3>3, <3>5 DEF Picks, OfBout
  <2> QED
    BY <2>1, <2>2, <2>3, <2>4 DEF Picks
<1>2. /\ d \in Picks(q) /\ IdOf(d) = IdOf(c) /\ c = OnePerSelection(p, IdOf(d))
      /\ c \in Passed(p) /\ IdOf(c) \in Ids(p)
  BY <1>1
<1>3. ASSUME NEW e \in Picks(p), Better(e, c)
      PROVE  \E g \in Picks(q) : Better(g, d) /\ IdOf(g) = IdOf(e)
  <2> DEFINE g == OnePerSelection(q, IdOf(e))
  <2>1. /\ e \in Passed(p) /\ IdOf(e) \in Ids(p) /\ e = OnePerSelection(p, IdOf(e))
        /\ g \in Picks(q) /\ IdOf(g) = IdOf(e)
    BY <1>1
  <2>2. Better(g, d)
    BY <1>2, <1>3, <2>1, TwinsCompare
  <2> QED
    BY <2>1, <2>2
<1> QED
  BY <1>2, <1>3

LEMMA TwinsWatched ==
  ASSUME NEW p, NEW q, Pool(p), Pool(q), Alike(p, q), NEW c \in Targets(p),
         NEW d, d = OnePerSelection(q, IdOf(c))
  PROVE  /\ d \in Targets(q) /\ IdOf(d) = IdOf(c) /\ c = OnePerSelection(p, IdOf(d))
         /\ {IdOf(e) : e \in FirmerThan(Targets(p), c)} \subseteq {IdOf(e) : e \in FirmerThan(Targets(q), d)}
         /\ Primary(q, d) => Primary(p, c)
<1>0. Alike(q, p) /\ Ids(p) = Ids(q)
  BY AlikeTurned DEF Alike
<1>1. ASSUME NEW a \in Targets(p), NEW b, b = OnePerSelection(q, IdOf(a))
      PROVE  /\ IdOf(a) \in Ids(p) /\ a = OnePerSelection(p, IdOf(a))
             /\ b \in Targets(q) /\ IdOf(b) = IdOf(a) /\ a.p50 = b.p50 /\ a.bet = b.bet /\ a.bout = b.bout
  <2>1. a \in Distinct(p) /\ Classify(a) = "price_target"
    BY DEF Targets
  <2>2. IdOf(a) \in Ids(p) /\ a = OnePerSelection(p, IdOf(a)) /\ IdOf(a) \in Ids(q)
    BY <2>1, <1>0, DistinctAre
  <2>3. Classify(b) = "price_target" /\ a.p50 = b.p50
    BY <1>1, <2>1, <2>2 DEF Alike
  <2>4. IdOf(b) = IdOf(a)
    BY <1>1, <2>2, OneOf
  <2>5. b \in Targets(q)
    BY <1>1, <2>2, <2>3 DEF Targets, Distinct
  <2> QED
    BY <2>2, <2>3, <2>4, <2>5 DEF IdOf
<1>2. ASSUME NEW a \in Targets(p), NEW b \in Targets(p), Firmer(a, b)
      PROVE  Firmer(OnePerSelection(q, IdOf(a)), OnePerSelection(q, IdOf(b)))
  <2> DEFINE x == OnePerSelection(q, IdOf(a))
             y == OnePerSelection(q, IdOf(b))
  <2>1. /\ IdOf(x) = IdOf(a) /\ a.p50 = x.p50 /\ a.bet = x.bet
        /\ IdOf(y) = IdOf(b) /\ b.p50 = y.p50 /\ b.bet = y.bet
    BY <1>1
  <2> HIDE DEF x, y
  <2>2. Firmer(x, y)
    BY <1>2, <2>1 DEF Firmer
  <2> QED
    BY <2>2 DEF x, y
<1>3. /\ d \in Targets(q) /\ IdOf(d) = IdOf(c) /\ c = OnePerSelection(p, IdOf(d)) /\ c.bout = d.bout
  BY <1>1
<1>4. ASSUME NEW e \in FirmerThan(Targets(p), c)
      PROVE  \E g \in FirmerThan(Targets(q), d) : IdOf(g) = IdOf(e) /\ g.bout = e.bout
  <2> DEFINE g == OnePerSelection(q, IdOf(e))
  <2>1. e \in Targets(p) /\ Firmer(e, c)
    BY DEF FirmerThan
  <2>2. g \in Targets(q) /\ Firmer(g, d) /\ IdOf(g) = IdOf(e) /\ g.bout = e.bout
    BY <2>1, <1>1, <1>2
  <2> QED
    BY <2>2 DEF FirmerThan
<1>5. ASSUME Primary(q, d) PROVE Primary(p, c)
  <2>1. ASSUME NEW e \in OfBout(Passed(p), c.bout) PROVE FALSE
    <3> DEFINE g == OnePerSelection(q, IdOf(e))
    <3>1. e \in Passed(p) /\ e \in Distinct(p) /\ e.bout = c.bout
      BY DEF OfBout, Passed
    <3>2. IdOf(e) \in Ids(p) /\ e = OnePerSelection(p, IdOf(e))
      BY <3>1, DistinctAre
    <3>3. g \in Passed(q) /\ IdOf(g) = IdOf(e)
      BY <1>0, <3>1, <3>2, TwinsCompare, OneOf
    <3>4. g.bout = d.bout
      BY <1>3, <3>1, <3>3 DEF IdOf
    <3> QED
      BY <1>5, <3>3, <3>4 DEF Primary, OfBout
  <2>2. ASSUME NEW e \in FirmerThan(OfBout(Targets(p), c.bout), c) PROVE FALSE
    <3>1. e \in FirmerThan(Targets(p), c) /\ e.bout = c.bout
      BY DEF FirmerThan, OfBout
    <3>2. PICK g \in FirmerThan(Targets(q), d) : g.bout = e.bout
      BY <1>4, <3>1
    <3>3. g \in FirmerThan(OfBout(Targets(q), d.bout), d)
      BY <1>3, <3>1, <3>2 DEF FirmerThan, OfBout
    <3> QED
      BY <1>5, <3>3 DEF Primary
  <2> QED
    BY <2>1, <2>2 DEF Primary
<1> QED
  BY <1>3, <1>4, <1>5

(* Places are counted on the ids, which the two pools share.               *)
LEMMA SamePlaces ==
  ASSUME NEW p, NEW q, Pool(p), Pool(q), NEW C \in SUBSET Distinct(p), NEW D \in SUBSET Distinct(q),
         {IdOf(e) : e \in C} = {IdOf(e) : e \in D}
  PROVE  Cardinality(C) = Cardinality(D)
<1>1. IsFiniteSet(C) /\ IsFiniteSet(D)
  BY DistinctFinite, FS_Subset
<1>2. Cardinality({IdOf(e) : e \in C}) = Cardinality(C)
  BY <1>1, CountedBy, DistinctAre
<1>3. Cardinality({IdOf(e) : e \in D}) = Cardinality(D)
  BY <1>1, CountedBy, DistinctAre
<1> QED
  BY <1>2, <1>3

(* What a report lists first is what its twin lists.                       *)
LEMMA TwinsListed ==
  ASSUME NEW p, NEW q, Pool(p), Pool(q), Alike(p, q)
  PROVE  /\ Report(p).confirmed \subseteq Report(q).confirmed
         /\ Report(p).watchlist \subseteq Report(q).watchlist
         /\ Report(p).noBet \subseteq Report(q).noBet
<1>0. Alike(q, p) /\ Ids(p) = Ids(q)
  BY AlikeTurned DEF Alike
<1>1. ASSUME NEW c \in Picks(p)
      PROVE  \E d \in Picks(q) : IdOf(d) = IdOf(c) /\ RankAmong(Picks(q), d) = RankAmong(Picks(p), c)
  <2> DEFINE d == OnePerSelection(q, IdOf(c))
             C == {e \in Picks(p) : Better(e, c)}
             D == {e \in Picks(q) : Better(e, d)}
  <2>1. d \in Picks(q) /\ IdOf(d) = IdOf(c) /\ c = OnePerSelection(p, IdOf(d))
    BY TwinsPicked
  <2>2. {IdOf(e) : e \in C} \subseteq {IdOf(e) : e \in D}
    BY TwinsPicked
  <2>3. {IdOf(e) : e \in D} \subseteq {IdOf(e) : e \in C}
    BY <1>0, <2>1, TwinsPicked
  <2>4. C \in SUBSET Distinct(p) /\ D \in SUBSET Distinct(q)
    BY DEF Picks, Passed
  <2>5. Cardinality(C) = Cardinality(D)
    <3> HIDE DEF C, D
    <3> QED
      BY <2>2, <2>3, <2>4, SamePlaces
  <2> QED
    BY <2>1, <2>5 DEF RankAmong
<1>2. ASSUME NEW c \in Targets(p)
      PROVE  \E d \in Targets(q) :
               /\ IdOf(d) = IdOf(c) /\ Primary(q, d) = Primary(p, c)
               /\ Cardinality(FirmerThan(Targets(q), d)) = Cardinality(FirmerThan(Targets(p), c))
  <2> DEFINE d == OnePerSelection(q, IdOf(c))
             C == FirmerThan(Targets(p), c)
             D == FirmerThan(Targets(q), d)
  <2>1. d \in Targets(q) /\ IdOf(d) = IdOf(c) /\ c = OnePerSelection(p, IdOf(d))
    BY TwinsWatched
  <2>2. {IdOf(e) : e \in C} \subseteq {IdOf(e) : e \in D}
    BY TwinsWatched
  <2>3. {IdOf(e) : e \in D} \subseteq {IdOf(e) : e \in C}
    BY <1>0, <2>1, TwinsWatched
  <2>4. C \in SUBSET Distinct(p) /\ D \in SUBSET Distinct(q)
    BY DEF FirmerThan, Targets
  <2>5. Cardinality(C) = Cardinality(D)
    <3> HIDE DEF C, D
    <3> QED
      BY <2>2, <2>3, <2>4, SamePlaces
  <2>6. Primary(q, d) <=> Primary(p, c)
    BY <1>0, <2>1, TwinsWatched
  <2>7. Primary(q, d) \in BOOLEAN /\ Primary(p, c) \in BOOLEAN
    BY DEF Primary
  <2> QED
    BY <2>1, <2>5, <2>6, <2>7
<1>3. Report(p).confirmed \subseteq Report(q).confirmed
  BY <1>1 DEF Report, Ranked
<1>4. Report(p).watchlist \subseteq Report(q).watchlist
  BY <1>2 DEF Report
<1>5. ASSUME NEW c \in Distinct(p) \ (Picks(p) \cup Targets(p))
      PROVE  \E d \in Distinct(q) \ (Picks(q) \cup Targets(q)) : IdOf(d) = IdOf(c)
  <2> DEFINE d == OnePerSelection(q, IdOf(c))
  <2>1. IdOf(c) \in Ids(p) /\ c = OnePerSelection(p, IdOf(c))
    BY DistinctAre
  <2>2. d \in Distinct(q) /\ IdOf(d) = IdOf(c)
    BY <1>0, <2>1, OneOf DEF Distinct
  <2>3. d \notin Picks(q)
    BY <1>0, <2>1, <2>2, TwinsPicked
  <2>4. d \notin Targets(q)
    BY <1>0, <2>1, <2>2, TwinsWatched
  <2> QED
    BY <2>2, <2>3, <2>4
<1>6. Report(p).noBet \subseteq Report(q).noBet
  BY <1>5 DEF Report
<1> QED
  BY <1>3, <1>4, <1>6

LEMMA TwinsReport ==
  ASSUME NEW p, NEW q, Pool(p), Pool(q), Alike(p, q)
  PROVE  Report(p) = Report(q)
<1>1. Alike(q, p)
  BY AlikeTurned
<1>2. /\ Report(p).confirmed \subseteq Report(q).confirmed
      /\ Report(p).watchlist \subseteq Report(q).watchlist
      /\ Report(p).noBet \subseteq Report(q).noBet
  BY TwinsListed
<1>3. /\ Report(q).confirmed \subseteq Report(p).confirmed
      /\ Report(q).watchlist \subseteq Report(p).watchlist
      /\ Report(q).noBet \subseteq Report(p).noBet
  BY <1>1, TwinsListed
<1>4. /\ Report(p).confirmed = Report(q).confirmed
      /\ Report(p).watchlist = Report(q).watchlist
      /\ Report(p).noBet = Report(q).noBet
  BY <1>2, <1>3
<1> QED
  BY <1>4 DEF Report

-----------------------------------------------------------------------------
(* The ranks of the confirmed selections are as many as they are.          *)
LEMMA RanksDiffer ==
  ASSUME NEW p, Pool(p), NEW c \in Picks(p), NEW d \in Picks(p), c # d
  PROVE  RankAmong(Picks(p), c) # RankAmong(Picks(p), d)
<1>1. ASSUME NEW x \in Picks(p), NEW y \in Picks(p), Better(x, y)
      PROVE  RankAmong(Picks(p), x) # RankAmong(Picks(p), y)
  <2> DEFINE X == {e \in Picks(p) : Better(e, x)}
             Y == {e \in Picks(p) : Better(e, y)}
  <2>1. \A e \in Picks(p) : e \in Passed(p) /\ e \in Distinct(p)
    BY DEF Picks, Passed
  <2>2. X \subseteq Y /\ x \in Y /\ x \notin X
    BY <1>1, <2>1, BetterIsAnOrder
  <2>3. IsFiniteSet(Y)
    BY <2>1, DistinctFinite, FS_Subset
  <2> HIDE DEF X, Y
  <2>4. Cardinality(X) # Cardinality(Y) /\ Cardinality(X) \in Nat /\ Cardinality(Y) \in Nat
    BY <2>2, <2>3, FS_Subset, FS_CardinalityType
  <2>5. RankAmong(Picks(p), x) = 1 + Cardinality(X) /\ RankAmong(Picks(p), y) = 1 + Cardinality(Y)
    BY DEF RankAmong, X, Y
  <2> QED
    BY <2>4, <2>5
<1>2. c \in Passed(p) /\ d \in Passed(p)
  BY DEF Picks
<1> QED
  BY <1>1, <1>2, BetterIsAnOrder

LEMMA ConfirmedIs ==
  ASSUME NEW p
  PROVE  /\ {x[1] : x \in Report(p).confirmed} = {IdOf(c) : c \in Picks(p)}
         /\ {x[2] : x \in Report(p).confirmed} = {RankAmong(Picks(p), c) : c \in Picks(p)}
         /\ {x[1] : x \in Report(p).watchlist} = {IdOf(c) : c \in Targets(p)}
<1> DEFINE C == Report(p).confirmed
           W == Report(p).watchlist
<1>1. C = Ranked(Picks(p))
  BY DEF Report
<1>2. /\ \A c \in Picks(p) : \E x \in C : x[1] = IdOf(c) /\ x[2] = RankAmong(Picks(p), c)
      /\ \A x \in C : \E c \in Picks(p) : x[1] = IdOf(c) /\ x[2] = RankAmong(Picks(p), c)
  <2>1. ASSUME NEW c \in Picks(p) PROVE <<IdOf(c), RankAmong(Picks(p), c)>> \in C
    BY <1>1 DEF Ranked
  <2>2. ASSUME NEW x \in C PROVE \E c \in Picks(p) : x = <<IdOf(c), RankAmong(Picks(p), c)>>
    BY <1>1 DEF Ranked
  <2> HIDE DEF C
  <2>3. ASSUME NEW c \in Picks(p)
        PROVE  \E x \in C : x[1] = IdOf(c) /\ x[2] = RankAmong(Picks(p), c)
    <3> DEFINE x == <<IdOf(c), RankAmong(Picks(p), c)>>
    <3>1. x \in C /\ x[1] = IdOf(c) /\ x[2] = RankAmong(Picks(p), c)
      BY <2>1
    <3> QED
      BY <3>1
  <2>4. ASSUME NEW x \in C
        PROVE  \E c \in Picks(p) : x[1] = IdOf(c) /\ x[2] = RankAmong(Picks(p), c)
    BY <2>2
  <2> QED
    BY <2>3, <2>4
<1>3. /\ \A c \in Targets(p) : \E x \in W : x[1] = IdOf(c)
      /\ \A x \in W : \E c \in Targets(p) : x[1] = IdOf(c)
  <2> DEFINE row(c) == <<IdOf(c), 1 + Cardinality(FirmerThan(Targets(p), c)), Primary(p, c)>>
  <2>1. W = {row(c) : c \in Targets(p)}
    BY DEF Report
  <2>2. \A c : row(c)[1] = IdOf(c)
    OBVIOUS
  <2> HIDE DEF W, row
  <2> QED
    BY <2>1, <2>2
<1> HIDE DEF C, W
<1>4. {x[1] : x \in C} = {IdOf(c) : c \in Picks(p)}
  BY <1>2
<1>5. {x[2] : x \in C} = {RankAmong(Picks(p), c) : c \in Picks(p)}
  BY <1>2
<1>6. {x[1] : x \in W} = {IdOf(c) : c \in Targets(p)}
  BY <1>3
<1> QED
  BY <1>4, <1>5, <1>6 DEF C, W

LEMMA RanksAreAsMany ==
  ASSUME NEW p, Pool(p)
  PROVE  Cardinality({x[2] : x \in Report(p).confirmed}) = Cardinality({x[1] : x \in Report(p).confirmed})
<1> DEFINE C == Picks(p)
           f == [c \in C |-> RankAmong(C, c)]
           ranks == {x[2] : x \in Report(p).confirmed}
           names == {x[1] : x \in Report(p).confirmed}
<1>1. \A c \in C : c \in Distinct(p)
  BY DEF Picks, Passed
<1>2. IsFiniteSet(C)
  BY <1>1, DistinctFinite, FS_Subset
<1>3. ranks = {RankAmong(C, c) : c \in C} /\ names = {IdOf(c) : c \in C}
  BY ConfirmedIs
<1>4. f \in Bijection(C, ranks)
  BY <1>3, RanksDiffer DEF Bijection, Injection, Surjection, IsInjective
<1>5. Cardinality(ranks) = Cardinality(C)
  BY <1>2, <1>4, FS_Bijection DEF ExistsBijection
<1>6. Cardinality(names) = Cardinality(C)
  BY <1>1, <1>2, <1>3, CountedBy, DistinctAre
<1> QED
  BY <1>5, <1>6

ConfirmedIds(p) == {x[1] : x \in Report(p).confirmed}

WatchedIds(p) == {x[1] : x \in Report(p).watchlist}

(* Every selection is named once, and one pick per bout at most.           *)
LEMMA NamedOnce ==
  ASSUME NEW p, Pool(p), NEW noBet, noBet = Report(p).noBet
  PROVE  /\ ConfirmedIds(p) \cup WatchedIds(p) \cup noBet = Ids(p)
         /\ ConfirmedIds(p) \cap WatchedIds(p) = {}
         /\ (ConfirmedIds(p) \cup WatchedIds(p)) \cap noBet = {}
         /\ \A x, y \in ConfirmedIds(p) : x[1] = y[1] => x = y
<1> DEFINE confirmed == ConfirmedIds(p)
           watched == WatchedIds(p)
<1>1. /\ confirmed = {IdOf(c) : c \in Picks(p)} /\ watched = {IdOf(c) : c \in Targets(p)}
      /\ noBet = {IdOf(c) : c \in Distinct(p) \ (Picks(p) \cup Targets(p))}
  BY ConfirmedIs DEF Report, ConfirmedIds, WatchedIds
<1> HIDE DEF confirmed, watched
<1>2. /\ \A c \in Picks(p) : c \in Passed(p) /\ c \in Distinct(p) /\ Classify(c) = "confirmed_value"
      /\ \A c \in Targets(p) : c \in Distinct(p) /\ Classify(c) = "price_target"
  BY DEF Picks, Passed, Targets
<1>3. \A c, d \in Distinct(p) : IdOf(c) = IdOf(d) => c = d
  BY DistinctAre
<1>4. {IdOf(c) : c \in Distinct(p)} = Ids(p)
  <2>1. \A c \in Distinct(p) : IdOf(c) \in Ids(p)
    BY DistinctAre
  <2>2. \A id \in Ids(p) : OnePerSelection(p, id) \in Distinct(p) /\ IdOf(OnePerSelection(p, id)) = id
    BY OneOf DEF Distinct
  <2> QED
    BY <2>1, <2>2
<1>5. ASSUME NEW c \in Picks(p), NEW d \in Picks(p), c.bout = d.bout PROVE c = d
  <2>1. ~Better(c, d) /\ ~Better(d, c)
    BY <1>2, <1>5 DEF Picks, OfBout
  <2> QED
    BY <1>2, <2>1, BetterIsAnOrder
<1>6. \A c : IdOf(c)[1] = c.bout
  BY DEF IdOf
<1>7. confirmed \cup watched \cup noBet = Ids(p)
  BY <1>1, <1>2, <1>4
<1>8. confirmed \cap watched = {}
  BY <1>1, <1>2, <1>3
<1>9. (confirmed \cup watched) \cap noBet = {}
  <2> SUFFICES ASSUME NEW c \in Distinct(p) \ (Picks(p) \cup Targets(p)),
                      NEW d \in Picks(p) \cup Targets(p), IdOf(c) = IdOf(d)
               PROVE  FALSE
    BY <1>1
  <2> QED
    BY <1>2, <1>3
<1>10. \A x, y \in confirmed : x[1] = y[1] => x = y
  <2> SUFFICES ASSUME NEW c \in Picks(p), NEW d \in Picks(p), IdOf(c)[1] = IdOf(d)[1]
               PROVE  IdOf(c) = IdOf(d)
    BY <1>1
  <2> QED
    BY <1>5, <1>6
<1> QED
  BY <1>7, <1>8, <1>9, <1>10 DEF confirmed, watched

(* The report does not depend on the order of the candidates (OrderFree).  *)
THEOREM OrderDoesNotMatter == RecommendSpec => []OrderFree
<1>1. RecommendInv => OrderFree
  <2> SUFFICES ASSUME RecommendInv, report # None, SameToGates(pool) PROVE
        LET confirmed == {x[1] : x \in report.confirmed}
            watched == {x[1] : x \in report.watchlist}
        IN /\ \A s \in Shuffles : Report([i \in DOMAIN pool |-> pool[s[i]]]) = report
           /\ confirmed \cup watched \cup report.noBet = Ids(pool)
           /\ confirmed \cap watched = {} /\ (confirmed \cup watched) \cap report.noBet = {}
           /\ \A x, y \in confirmed : x[1] = y[1] => x = y
           /\ Cardinality({x[2] : x \in report.confirmed}) = Cardinality(confirmed)
    BY DEF OrderFree
  <2>1. Pool(pool) /\ report = Report(pool)
    <3>1. pool \in Seq(Candidates) /\ DOMAIN pool = 1 .. Len(pool)
      BY DEF RecommendInv
    <3>2. IsFiniteSet(DOMAIN pool)
      BY <3>1, FS_Interval
    <3> QED
      BY <3>1, <3>2 DEF RecommendInv, HasFirst, Pool
  <2>2. ASSUME NEW s \in Shuffles PROVE Report([i \in DOMAIN pool |-> pool[s[i]]]) = report
    <3> DEFINE q == [i \in DOMAIN pool |-> pool[s[i]]]
    <3>1. s \in [DOMAIN pool -> DOMAIN pool] /\ \A i, j \in DOMAIN pool : s[i] = s[j] => i = j
      BY DEF Shuffles
    <3>2. Pool(q) /\ Alike(pool, q)
      BY <2>1, <3>1, ShuffledAlike
    <3> QED
      BY <2>1, <3>2, TwinsReport
  <2> DEFINE confirmed == {x[1] : x \in report.confirmed}
             watched == {x[1] : x \in report.watchlist}
  <2>3. /\ confirmed \cup watched \cup report.noBet = Ids(pool)
        /\ confirmed \cap watched = {} /\ (confirmed \cup watched) \cap report.noBet = {}
        /\ \A x, y \in confirmed : x[1] = y[1] => x = y
    <3>1. confirmed = ConfirmedIds(pool) /\ watched = WatchedIds(pool) /\ report.noBet = Report(pool).noBet
      BY <2>1 DEF ConfirmedIds, WatchedIds
    <3> HIDE DEF confirmed, watched
    <3> QED
      BY <2>1, <3>1, NamedOnce
  <2>4. Cardinality({x[2] : x \in report.confirmed}) = Cardinality(confirmed)
    BY <2>1, RanksAreAsMany
  <2> QED
    BY <2>2, <2>3, <2>4
<1> QED
  BY <1>1, RecommendInvariant, PTL
-----------------------------------------------------------------------------
(***************************************************************************)
(* Totals: what FoldFunction adds up, by induction on the part that is     *)
(* added. A set of parts without a smallest counterexample has none (WFMin *)
(* on StrictSubsetOrdering).                                               *)
(***************************************************************************)
(* A set of numbers that is not empty has a least one.                     *)
LEMMA LeastNumber ==
  ASSUME NEW T \in SUBSET Nat, T # {}
  PROVE  \E x \in T : \A y \in T : x <= y
<1> DEFINE Upto == {1 .. n : n \in T}
           R == StrictSubsetOrdering(Nat)
           S == FiniteSubsetsOf(Nat)
<1>1. Upto \subseteq S
  <2>1. \A n \in Nat : IsFiniteSet(1 .. n)
    BY FS_Interval
  <2> QED
    BY <2>1 DEF FiniteSubsetsOf
<1>2. Upto # {}
  OBVIOUS
<1>3. IsWellFoundedOn(R, S)
  BY FS_StrictSubsetOrderingWellFounded
<1>4. \E a \in Upto : \A b \in Upto : ~(<<b, a>> \in R)
  <2> HIDE DEF Upto, R, S
  <2> QED
    BY <1>1, <1>2, <1>3, WFMin
<1>5. PICK n \in T : \A m \in T : ~(<<1 .. m, 1 .. n>> \in R)
  BY <1>4
<1>6. ASSUME NEW m \in T, m < n PROVE FALSE
  <2>1. 1 .. m \subseteq 1 .. n /\ n \in 1 .. n /\ n \notin 1 .. m
    BY <1>6
  <2>2. 1 .. m \in SUBSET Nat /\ 1 .. n \in SUBSET Nat
    OBVIOUS
  <2> QED
    BY <1>5, <2>1, <2>2 DEF StrictSubsetOrdering
<1> QED
  BY <1>6

(* What holds of 0 and of the next number holds of all of them.            *)
LEMMA ByInduction ==
  ASSUME NEW S, 0 \in S, \A n \in Nat : n \in S => n + 1 \in S
  PROVE  Nat \subseteq S
<1> SUFFICES ASSUME Nat \ S # {} PROVE FALSE
  OBVIOUS
<1>1. PICK x \in Nat \ S : \A y \in Nat \ S : x <= y
  BY LeastNumber
<1>2. x # 0 /\ x - 1 \in Nat /\ ~(x <= x - 1)
  BY <1>1
<1>3. x - 1 \in S
  BY <1>1, <1>2
<1> QED
  BY <1>2, <1>3

(* What holds of a set whenever it holds of the smaller ones holds of all  *)
(* finite sets.                                                            *)
LEMMA BySubsets ==
  ASSUME NEW D, IsFiniteSet(D), NEW F,
         \A s \in SUBSET D : (\A t \in SUBSET s : t # s => t \in F) => s \in F
  PROVE  \A s \in SUBSET D : s \in F
<1> DEFINE R == StrictSubsetOrdering(D)
           G == {s \in SUBSET D : s \notin F}
<1> SUFFICES ASSUME G # {} PROVE FALSE
  OBVIOUS
<1>1. IsWellFoundedOn(R, SUBSET D)
  <2>1. FiniteSubsetsOf(D) = SUBSET D
    BY FS_FiniteSubsetsOfFinite
  <2>2. IsWellFoundedOn(R, FiniteSubsetsOf(D))
    BY FS_StrictSubsetOrderingWellFounded
  <2> QED
    BY <2>1, <2>2, Zenon
<1>2. \E a \in G : \A b \in G : ~(<<b, a>> \in R)
  <2>1. G \subseteq SUBSET D
    OBVIOUS
  <2> HIDE DEF R, G
  <2> QED
    BY <1>1, <2>1, WFMin
<1>3. PICK a \in G : \A b \in G : ~(<<b, a>> \in R)
  BY <1>2
<1>4. ASSUME NEW t \in SUBSET a, t # a PROVE t \in F
  BY <1>3, <1>4 DEF StrictSubsetOrdering
<1> QED
  BY <1>3, <1>4

(* A function that is defined by what it is for smaller sets: one step     *)
(* takes the element that CHOOSE picks and what the rest comes to.         *)
Picked(s) == CHOOSE x \in s : TRUE

(* What a set is folded to, by one of its elements and what is left of it. *)
FoldsTo(h, D, base, G) ==
  \A s \in SUBSET D : h[s] = IF s = {} THEN base ELSE G[Picked(s)][h[s \ {Picked(s)}]]

(* Only one function of the subsets does that.                             *)
LEMMA FoldUnique ==
  ASSUME NEW D, IsFiniteSet(D), NEW base, NEW G, NEW h, NEW g,
         FoldsTo(h, D, base, G), FoldsTo(g, D, base, G)
  PROVE  \A s \in SUBSET D : h[s] = g[s]
<1> DEFINE F == {s \in SUBSET D : h[s] = g[s]}
<1>1. ASSUME NEW s \in SUBSET D, \A t \in SUBSET s : t # s => t \in F PROVE s \in F
  <2>1. CASE s = {}
    BY <2>1 DEF FoldsTo
  <2>2. CASE s # {}
    <3>1. Picked(s) \in s
      BY <2>2 DEF Picked
    <3>2. s \ {Picked(s)} \in F
      BY <1>1, <3>1
    <3> QED
      BY <2>2, <3>2 DEF FoldsTo
  <2> QED
    BY <2>1, <2>2
<1>2. \A s \in SUBSET D : s \in F
  <2> HIDE DEF F
  <2> QED
    BY <1>1, BySubsets
<1> QED
  BY <1>2

(* There is one, for a base and steps that stay in a set of values.        *)
LEMMA FoldExists ==
  ASSUME NEW D, IsFiniteSet(D), NEW V, NEW base \in V, NEW G \in [D -> [V -> V]]
  PROVE  \E h \in [SUBSET D -> V] : FoldsTo(h, D, base, G)
<1> DEFINE F == {s \in SUBSET D : \E h \in [SUBSET s -> V] : FoldsTo(h, s, base, G)}
<1>1. ASSUME NEW s \in SUBSET D, \A t \in SUBSET s : t # s => t \in F PROVE s \in F
  <2> DEFINE H(t) == CHOOSE h \in [SUBSET t -> V] : FoldsTo(h, t, base, G)
             p == Picked(s)
             h == [t \in SUBSET s |-> IF t # s THEN H(t)[t]
                                      ELSE IF s = {} THEN base ELSE G[p][H(s \ {p})[s \ {p}]]]
  <2>1. ASSUME NEW t \in SUBSET s, t # s PROVE H(t) \in [SUBSET t -> V] /\ FoldsTo(H(t), t, base, G)
    BY <1>1, <2>1
  <2>2. ASSUME NEW t \in SUBSET s, t # s, NEW u \in SUBSET t PROVE H(t)[u] = H(u)[u]
    <3>1. u # s
      BY <2>2
    <3>2. FoldsTo(H(t), u, base, G) /\ FoldsTo(H(u), u, base, G)
      <4>1. FoldsTo(H(t), t, base, G)
        BY <2>1, <2>2
      <4>2. FoldsTo(H(u), u, base, G)
        BY <2>1, <2>2, <3>1
      <4> HIDE DEF H
      <4> QED
        BY <4>1, <4>2 DEF FoldsTo
    <3>3. IsFiniteSet(u)
      BY FS_Subset
    <3> HIDE DEF H
    <3> QED
      BY <3>2, <3>3, FoldUnique
  <2>3. ASSUME NEW t \in SUBSET s, t # {} PROVE Picked(t) \in t /\ Picked(t) \in D /\ t \ {Picked(t)} # s
    BY <2>3 DEF Picked
  <2>4. h \in [SUBSET s -> V]
    <3>1. ASSUME NEW t \in SUBSET s PROVE h[t] \in V
      <4>1. CASE t # s
        <5>1. H(t) \in [SUBSET t -> V] /\ t \in SUBSET t
          BY <2>1, <4>1
        <5> HIDE DEF H
        <5> QED
          BY <4>1, <5>1
      <4>2. CASE t = s /\ s = {}
        BY <4>2
      <4>3. CASE t = s /\ s # {}
        <5>1. H(s \ {p}) \in [SUBSET (s \ {p}) -> V] /\ p \in D
          BY <2>1, <2>3, <4>3
        <5> HIDE DEF H
        <5>2. H(s \ {p})[s \ {p}] \in V
          BY <5>1
        <5>3. G[p][H(s \ {p})[s \ {p}]] \in V
          BY <5>1, <5>2
        <5>4. h[t] = G[p][H(s \ {p})[s \ {p}]]
          BY <4>3
        <5> QED
          BY <5>3, <5>4
      <4> QED
        BY <4>1, <4>2, <4>3
    <3> QED
      BY <3>1
  <2>5. FoldsTo(h, s, base, G)
    <3>1. ASSUME NEW t \in SUBSET s
          PROVE  h[t] = IF t = {} THEN base ELSE G[Picked(t)][h[t \ {Picked(t)}]]
      <4> HIDE DEF H
      <4>1. CASE t = s
        BY <4>1, <2>3
      <4>2. CASE t # s /\ t = {}
        <5>1. H(t)[t] = base
          BY <2>1, <4>2 DEF FoldsTo
        <5> QED
          BY <5>1, <4>2
      <4>3. CASE t # s /\ t # {}
        <5>1. H(t)[t] = G[Picked(t)][H(t)[t \ {Picked(t)}]]
          BY <2>1, <4>3 DEF FoldsTo
        <5>2. H(t)[t \ {Picked(t)}] = H(t \ {Picked(t)})[t \ {Picked(t)}]
          BY <2>2, <4>3
        <5>3. h[t \ {Picked(t)}] = H(t \ {Picked(t)})[t \ {Picked(t)}] /\ h[t] = H(t)[t]
          BY <2>3, <4>3
        <5> HIDE DEF h
        <5> QED
          BY <5>1, <5>2, <5>3, <4>3
      <4> QED
        BY <4>1, <4>2, <4>3
    <3> HIDE DEF h
    <3> QED
      BY <3>1 DEF FoldsTo
  <2> HIDE DEF h
  <2> QED
    BY <2>4, <2>5
<1> HIDE DEF F
<1>2. D \in F
  BY <1>1, BySubsets
<1> QED
  BY <1>2 DEF F

(* Total is defined by its own equation.                                   *)
Totals(h, D, f) ==
  \A s \in SUBSET D : h[s] = IF s = {} THEN 0 ELSE f[Picked(s)] + h[s \ {Picked(s)}]

(* A total is what its set is folded to, by adding.                        *)
LEMMA TotalFolds ==
  ASSUME NEW D, IsFiniteSet(D), NEW f \in [D -> Int]
  PROVE  \E h \in [SUBSET D -> Int] : Total(f) = h[D] /\ Totals(h, D, f)
<1> DEFINE G == [x \in D |-> [v \in Int |-> f[x] + v]]
           Eq(g) == g = [s \in SUBSET D |-> IF s = {} THEN 0 ELSE f[Picked(s)] + g[s \ {Picked(s)}]]
<1>1. G \in [D -> [Int -> Int]]
  OBVIOUS
<1>2. PICK h \in [SUBSET D -> Int] : FoldsTo(h, D, 0, G)
  <2> HIDE DEF G
  <2>1. 0 \in Int
    OBVIOUS
  <2> QED
    BY <1>1, <2>1, FoldExists
<1>3. ASSUME NEW s \in SUBSET D, s # {} PROVE Picked(s) \in s
  BY <1>3 DEF Picked
<1>4. ASSUME NEW s \in SUBSET D PROVE h[s] = IF s = {} THEN 0 ELSE f[Picked(s)] + h[s \ {Picked(s)}]
  <2>1. h[s] = IF s = {} THEN 0 ELSE G[Picked(s)][h[s \ {Picked(s)}]]
    BY <1>2 DEF FoldsTo
  <2>2. CASE s # {}
    <3>1. Picked(s) \in D /\ h[s \ {Picked(s)}] \in Int
      BY <2>2, <1>3
    <3> QED
      BY <2>1, <2>2, <3>1
  <2> QED
    BY <2>1, <2>2
<1>5. Eq(h)
  BY <1>4
<1>6. Total(f) = (CHOOSE g : Eq(g))[D]
  BY DEF Total, FoldFunction, FoldFunctionOnSet, MapThenFoldSet, Picked
<1> DEFINE g == CHOOSE k : Eq(k)
<1>7. Eq(g)
  <2> HIDE DEF Eq
  <2> QED
    BY <1>5
<1> HIDE DEF g
<1> DEFINE F == {s \in SUBSET D : g[s] = h[s]}
<1>8. ASSUME NEW s \in SUBSET D, \A t \in SUBSET s : t # s => t \in F PROVE s \in F
  <2>1. g[s] = IF s = {} THEN 0 ELSE f[Picked(s)] + g[s \ {Picked(s)}]
    BY <1>7
  <2>2. CASE s # {}
    <3>1. s \ {Picked(s)} \in F
      BY <1>8, <1>3, <2>2
    <3>2. g[s \ {Picked(s)}] = h[s \ {Picked(s)}]
      BY <3>1
    <3>3. g[s] = h[s]
      BY <1>4, <2>1, <2>2, <3>2
    <3> QED
      BY <3>3
  <2> QED
    BY <1>4, <2>1, <2>2
<1>9. g[D] = h[D]
  <2>1. D \in F
    <3> HIDE DEF F
    <3> QED
      BY <1>8, BySubsets
  <2> QED
    BY <2>1
<1> QED
  BY <1>4, <1>6, <1>9 DEF g, Totals

(* Of every part it is the total of that part.                             *)
PartTotals(h, D, f) == \A s \in SUBSET D : h[s] = Total([x \in s |-> f[x]])

(* Both hold of one function.                                              *)
LEMMA TotalsFold ==
  ASSUME NEW D, IsFiniteSet(D), NEW f \in [D -> Int]
  PROVE  \E h \in [SUBSET D -> Int] : Totals(h, D, f) /\ PartTotals(h, D, f)
<1>1. PICK h \in [SUBSET D -> Int] : Totals(h, D, f)
  BY TotalFolds
<1>2. ASSUME NEW s \in SUBSET D PROVE h[s] = Total([x \in s |-> f[x]])
  <2> DEFINE e == [x \in s |-> f[x]]
  <2>1. IsFiniteSet(s) /\ e \in [s -> Int]
    BY FS_Subset
  <2>2. PICK k \in [SUBSET s -> Int] : Total(e) = k[s] /\ Totals(k, s, e)
    <3> HIDE DEF e
    <3> QED
      BY <2>1, TotalFolds
  <2> DEFINE F == {u \in SUBSET s : k[u] = h[u]}
  <2>3. ASSUME NEW u \in SUBSET s, \A t \in SUBSET u : t # u => t \in F PROVE u \in F
    <3>1. CASE u = {}
      BY <1>1, <2>2, <3>1 DEF Totals
    <3>2. CASE u # {}
      <4>1. Picked(u) \in u
        BY <3>2 DEF Picked
      <4>2. u \ {Picked(u)} \in F
        BY <2>3, <4>1
      <4>3. e[Picked(u)] = f[Picked(u)]
        BY <4>1
      <4>4. k[u \ {Picked(u)}] = h[u \ {Picked(u)}]
        BY <4>2
      <4>5. k[u] = h[u]
        <5> HIDE DEF e, F
        <5> QED
          BY <1>1, <2>2, <3>2, <4>3, <4>4 DEF Totals
      <4> QED
        BY <4>5
    <3> QED
      BY <3>1, <3>2
  <2>4. s \in F
    <3> HIDE DEF F
    <3> QED
      BY <2>1, <2>3, BySubsets
  <2> QED
    BY <2>2, <2>4
<1> QED
  BY <1>1, <1>2 DEF PartTotals

(* A total takes its parts in any order.                                   *)
LEMMA TotalRemoves ==
  ASSUME NEW D, IsFiniteSet(D), NEW f \in [D -> Int]
  PROVE  /\ Total(f) \in Int
         /\ D = {} => Total(f) = 0
         /\ \A x \in D : /\ Total([y \in D \ {x} |-> f[y]]) \in Int
                         /\ Total(f) = f[x] + Total([y \in D \ {x} |-> f[y]])
<1>1. PICK h \in [SUBSET D -> Int] : Totals(h, D, f) /\ PartTotals(h, D, f)
  BY TotalsFold
<1> DEFINE F == {s \in SUBSET D : \A x \in s : h[s] = f[x] + h[s \ {x}]}
<1>2. ASSUME NEW s \in SUBSET D, \A t \in SUBSET s : t # s => t \in F PROVE s \in F
  <2> SUFFICES ASSUME NEW x \in s PROVE h[s] = f[x] + h[s \ {x}]
    OBVIOUS
  <2> DEFINE p == Picked(s)
  <2>1. p \in s
    BY DEF Picked
  <2>2. h[s] = f[p] + h[s \ {p}]
    BY <1>1 DEF Totals
  <2> HIDE DEF p
  <2>3. CASE x # p
    <3>1. s \ {p} \in F /\ s \ {x} \in F
      BY <1>2, <2>1
    <3>2. h[s \ {p}] = f[x] + h[(s \ {p}) \ {x}]
      BY <2>3, <3>1
    <3>3. h[s \ {x}] = f[p] + h[(s \ {x}) \ {p}]
      BY <2>1, <2>3, <3>1
    <3>4. (s \ {p}) \ {x} = (s \ {x}) \ {p}
      OBVIOUS
    <3>5. f[x] \in Int /\ f[p] \in Int /\ h[(s \ {x}) \ {p}] \in Int
      BY <2>1
    <3> DEFINE a == f[x]
               b == f[p]
               c == h[(s \ {x}) \ {p}]
    <3>6. a \in Int /\ b \in Int /\ c \in Int /\ h[s] = b + (a + c) /\ h[s \ {x}] = b + c
      BY <2>2, <3>2, <3>3, <3>4, <3>5
    <3> HIDE DEF a, b, c
    <3>7. h[s] = a + h[s \ {x}]
      BY <3>6
    <3> QED
      BY <3>7 DEF a
  <2> QED
    BY <2>2, <2>3
<1>3. D \in F
  <2> HIDE DEF F
  <2> QED
    BY <1>2, BySubsets
<1>4. Total(f) = h[D]
  <2>1. f = [x \in D |-> f[x]]
    OBVIOUS
  <2> QED
    BY <1>1, <2>1 DEF PartTotals
<1>5. ASSUME NEW x \in D PROVE h[D \ {x}] = Total([y \in D \ {x} |-> f[y]])
  BY <1>1 DEF PartTotals
<1> QED
  BY <1>1, <1>3, <1>4, <1>5 DEF Totals

(* A total of integers is one.                                             *)
LEMMA TotalInt ==
  ASSUME NEW D, IsFiniteSet(D), NEW f \in [D -> Int]
  PROVE  Total(f) \in Int
BY TotalRemoves

(* A total is one of its values and the total of the others.               *)
LEMMA TotalLess ==
  ASSUME NEW D, IsFiniteSet(D), NEW f \in [D -> Int], NEW x \in D
  PROVE  Total(f) = f[x] + Total([y \in D \ {x} |-> f[y]])
BY TotalRemoves

(* One value more adds to the total what it is.                            *)
LEMMA TotalAppends ==
  ASSUME NEW n \in Nat, NEW e, \A i \in 1 .. n + 1 : e[i] \in Int
  PROVE  /\ Total([i \in 1 .. n |-> e[i]]) \in Int
         /\ Total([i \in 1 .. n + 1 |-> e[i]]) = Total([i \in 1 .. n |-> e[i]]) + e[n + 1]
<1> DEFINE D == 1 .. n + 1
           f == [i \in D |-> e[i]]
<1>1. IsFiniteSet(D) /\ f \in [D -> Int] /\ n + 1 \in D /\ f[n + 1] = e[n + 1] /\ e[n + 1] \in Int
  BY FS_Interval
<1>2. D \ {n + 1} = 1 .. n
  OBVIOUS
<1>3. [y \in D \ {n + 1} |-> f[y]] = [i \in 1 .. n |-> e[i]]
  BY <1>2
<1>4. /\ Total([y \in D \ {n + 1} |-> f[y]]) \in Int
      /\ Total(f) = f[n + 1] + Total([y \in D \ {n + 1} |-> f[y]])
  <2> HIDE DEF f, D
  <2> QED
    BY <1>1, TotalRemoves
<1> DEFINE v == Total([i \in 1 .. n |-> e[i]])
<1>5. v \in Int /\ Total(f) = e[n + 1] + v
  BY <1>1, <1>3, <1>4
<1> HIDE DEF v, f
<1>6. Total(f) = v + e[n + 1]
  BY <1>1, <1>5
<1> QED
  BY <1>5, <1>6 DEF v, f

(* The total of nothing.                                                   *)
LEMMA TotalEmpty == ASSUME NEW f, DOMAIN f = {}, f = [x \in {} |-> f[x]] PROVE Total(f) = 0
<1>1. IsFiniteSet({}) /\ f \in [{} -> Int]
  BY FS_EmptySet
<1> QED
  BY <1>1, TotalRemoves

(* Totals are additive.                                                    *)
LEMMA TotalAdds ==
  ASSUME NEW D, IsFiniteSet(D), NEW f \in [D -> Int], NEW g \in [D -> Int]
  PROVE  Total([x \in D |-> f[x] + g[x]]) = Total(f) + Total(g)
<1> DEFINE e == [x \in D |-> f[x] + g[x]]
<1>1. e \in [D -> Int]
  OBVIOUS
<1>2. PICK h \in [SUBSET D -> Int] : Total(f) = h[D] /\ Totals(h, D, f)
  BY TotalFolds
<1>3. PICK k \in [SUBSET D -> Int] : Total(g) = k[D] /\ Totals(k, D, g)
  BY TotalFolds
<1>4. PICK m \in [SUBSET D -> Int] : Total(e) = m[D] /\ Totals(m, D, e)
  <2> HIDE DEF e
  <2> QED
    BY <1>1, TotalFolds
<1> DEFINE F == {s \in SUBSET D : m[s] = h[s] + k[s]}
<1>5. ASSUME NEW s \in SUBSET D, \A t \in SUBSET s : t # s => t \in F PROVE s \in F
  <2>1. CASE s = {}
    <3>1. h[s] = 0 /\ k[s] = 0 /\ m[s] = 0
      <4> HIDE DEF e, F
      <4> QED
        BY <1>2, <1>3, <1>4, <2>1 DEF Totals
    <3> QED
      BY <3>1
  <2>2. CASE s # {}
    <3> DEFINE p == Picked(s)
               r == s \ {p}
    <3>1. p \in s /\ r \in SUBSET D
      BY <2>2 DEF Picked
    <3>2. r \in F
      BY <1>5, <3>1
    <3>3. m[r] = h[r] + k[r] /\ h[r] \in Int /\ k[r] \in Int /\ f[p] \in Int /\ g[p] \in Int
      BY <3>1, <3>2
    <3>4. e[p] = f[p] + g[p]
      BY <3>1
    <3>5. m[s] = e[p] + m[r] /\ h[s] = f[p] + h[r] /\ k[s] = g[p] + k[r]
      <4> HIDE DEF e
      <4> QED
        BY <1>2, <1>3, <1>4, <2>2 DEF Totals
    <3> DEFINE a == f[p]
               b == g[p]
               x == h[r]
               y == k[r]
    <3>6. a \in Int /\ b \in Int /\ x \in Int /\ y \in Int
      BY <3>3
    <3>7. m[s] = (a + b) + (x + y) /\ h[s] = a + x /\ k[s] = b + y
      BY <3>3, <3>4, <3>5
    <3> HIDE DEF a, b, x, y
    <3>8. m[s] = h[s] + k[s]
      BY <3>6, <3>7
    <3> QED
      BY <3>8
  <2> QED
    BY <2>1, <2>2
<1>6. D \in F
  <2> HIDE DEF F, e
  <2>1. \A s \in SUBSET D : s \in F
    BY <1>5, BySubsets, Zenon
  <2> QED
    BY <2>1
<1> QED
  BY <1>2, <1>3, <1>4, <1>6

(* The total of zeros.                                                     *)
LEMMA TotalZero ==
  ASSUME NEW D, IsFiniteSet(D)
  PROVE  Total([x \in D |-> 0]) = 0
<1> DEFINE z == [x \in D |-> 0]
<1>1. z \in [D -> Int] /\ [x \in D |-> z[x] + z[x]] = z
  OBVIOUS
<1>2. Total([x \in D |-> z[x] + z[x]]) = Total(z) + Total(z) /\ Total(z) \in Int
  <2> HIDE DEF z
  <2> QED
    BY <1>1, TotalAdds, TotalInt
<1>3. Total(z) = Total(z) + Total(z)
  BY <1>1, <1>2
<1> DEFINE v == Total(z)
<1>4. v \in Int /\ v = v + v
  BY <1>2, <1>3
<1> HIDE DEF z, v
<1>5. v = 0
  BY <1>4
<1> QED
  BY <1>5 DEF z, v

(* One number and zeros.                                                   *)
LEMMA TotalSingle ==
  ASSUME NEW D, IsFiniteSet(D), NEW x \in D, NEW v \in Int
  PROVE  Total([y \in D |-> IF y = x THEN v ELSE 0]) = v
<1> DEFINE f == [y \in D |-> IF y = x THEN v ELSE 0]
<1>1. f \in [D -> Int] /\ f[x] = v
  OBVIOUS
<1>2. [y \in D \ {x} |-> f[y]] = [y \in D \ {x} |-> 0]
  OBVIOUS
<1>3. Total(f) = f[x] + Total([y \in D \ {x} |-> f[y]])
  <2> HIDE DEF f
  <2> QED
    BY <1>1, TotalRemoves
<1>4. IsFiniteSet(D \ {x})
  BY FS_Subset
<1>5. Total([y \in D \ {x} |-> 0]) = 0
  BY <1>4, TotalZero
<1> QED
  BY <1>1, <1>2, <1>3, <1>5

(* Rows and columns.                                                       *)
LEMMA TotalSwaps ==
  ASSUME NEW D, IsFiniteSet(D), NEW K, IsFiniteSet(K), NEW a \in [D -> [K -> Int]]
  PROVE  Total([x \in D |-> Total([k \in K |-> a[x][k]])])
           = Total([k \in K |-> Total([x \in D |-> a[x][k]])])
<1> DEFINE row(x) == Total([k \in K |-> a[x][k]])
           column(s) == [k \in K |-> Total([x \in s |-> a[x][k]])]
           f == [x \in D |-> row(x)]
           F == {s \in SUBSET D : Total([x \in s |-> f[x]]) = Total(column(s))}
<1>1. \A x \in D : row(x) \in Int
  <2> SUFFICES ASSUME NEW x \in D PROVE row(x) \in Int
    OBVIOUS
  <2>1. [k \in K |-> a[x][k]] \in [K -> Int]
    OBVIOUS
  <2> QED
    BY <2>1, TotalInt
<1>2. f \in [D -> Int]
  BY <1>1
<1>3. ASSUME NEW s \in SUBSET D PROVE column(s) \in [K -> Int]
  <2>1. ASSUME NEW k \in K PROVE Total([x \in s |-> a[x][k]]) \in Int
    <3>1. [x \in s |-> a[x][k]] \in [s -> Int] /\ IsFiniteSet(s)
      BY FS_Subset
    <3> QED
      BY <3>1, TotalInt
  <2> QED
    BY <2>1
<1>4. ASSUME NEW s \in SUBSET D, \A t \in SUBSET s : t # s => t \in F PROVE s \in F
  <2>1. CASE s = {}
    <3>1. Total([x \in s |-> f[x]]) = 0
      BY <2>1, TotalEmpty
    <3>2. column(s) = [k \in K |-> 0]
      <4>1. ASSUME NEW k \in K PROVE Total([x \in s |-> a[x][k]]) = 0
        BY <2>1, TotalEmpty
      <4> QED
        BY <4>1
    <3>3. Total([x \in s |-> f[x]]) = Total(column(s))
      <4> HIDE DEF f, column, row, F
      <4> QED
        BY <3>1, <3>2, TotalZero
    <3> QED
      BY <3>3
  <2>2. CASE s # {}
    <3> PICK p \in s : TRUE
      BY <2>2
    <3> DEFINE r == s \ {p}
    <3>0. r \in SUBSET D /\ IsFiniteSet(s)
      BY FS_Subset
    <3>1. Total([x \in r |-> f[x]]) = Total(column(r))
      BY <1>4, <3>0
    <3>2. Total([x \in s |-> f[x]]) = f[p] + Total([x \in r |-> f[x]])
      <4> DEFINE e == [x \in s |-> f[x]]
      <4>1. e \in [s -> Int] /\ e[p] = f[p]
        BY <1>2
      <4>2. [y \in s \ {p} |-> e[y]] = [x \in r |-> f[x]]
        OBVIOUS
      <4>3. Total(e) = e[p] + Total([y \in s \ {p} |-> e[y]])
        <5> HIDE DEF e, f, column, row, F, r
        <5> QED
          BY <3>0, <4>1, TotalLess
      <4> QED
        BY <4>1, <4>2, <4>3
    <3>3. column(s) = [k \in K |-> a[p][k] + column(r)[k]]
      <4>1. ASSUME NEW k \in K
            PROVE  Total([x \in s |-> a[x][k]]) = a[p][k] + Total([x \in r |-> a[x][k]])
        <5> DEFINE e == [x \in s |-> a[x][k]]
        <5>1. e \in [s -> Int] /\ e[p] = a[p][k]
          OBVIOUS
        <5>2. [y \in s \ {p} |-> e[y]] = [x \in r |-> a[x][k]]
          OBVIOUS
        <5>3. Total(e) = e[p] + Total([y \in s \ {p} |-> e[y]])
          <6> HIDE DEF e, f, column, row, F, r
          <6> QED
            BY <3>0, <5>1, TotalLess
        <5> QED
          BY <5>1, <5>2, <5>3
      <4> QED
        BY <4>1
    <3>4. Total([k \in K |-> a[p][k] + column(r)[k]]) = Total(a[p]) + Total(column(r))
      <4>1. a[p] \in [K -> Int] /\ column(r) \in [K -> Int]
        BY <1>3, <3>0
      <4> HIDE DEF column
      <4> QED
        BY <4>1, TotalAdds
    <3>5. f[p] = Total(a[p])
      <4>1. a[p] = [k \in K |-> a[p][k]]
        OBVIOUS
      <4> QED
        BY <4>1
    <3>6. Total([x \in s |-> f[x]]) = Total(column(s))
      <4> HIDE DEF f, column
      <4> QED
        BY <3>1, <3>2, <3>3, <3>4, <3>5
    <3> QED
      BY <3>6
  <2> QED
    BY <2>1, <2>2
<1>5. D \in F
  <2> HIDE DEF F
  <2> QED
    BY <1>4, BySubsets
<1>6. Total([x \in D |-> f[x]]) = Total(column(D))
  BY <1>5
<1>7. [x \in D |-> f[x]] = [x \in D |-> row(x)]
  OBVIOUS
<1> QED
  BY <1>6, <1>7

(* A total by kinds.                                                       *)
LEMMA TotalByKinds ==
  ASSUME NEW D, IsFiniteSet(D), NEW f \in [D -> Int], NEW K, IsFiniteSet(K), NEW kind \in [D -> K]
  PROVE  Total([k \in K |-> Total([x \in D |-> IF kind[x] = k THEN f[x] ELSE 0])]) = Total(f)
<1> DEFINE a == [x \in D |-> [k \in K |-> IF kind[x] = k THEN f[x] ELSE 0]]
<1>1. a \in [D -> [K -> Int]]
  OBVIOUS
<1>2. Total([x \in D |-> Total([k \in K |-> a[x][k]])])
        = Total([k \in K |-> Total([x \in D |-> a[x][k]])])
  <2> HIDE DEF a
  <2> QED
    BY <1>1, TotalSwaps
<1>3. ASSUME NEW x \in D PROVE Total([k \in K |-> a[x][k]]) = f[x]
  <2>1. [k \in K |-> a[x][k]] = [k \in K |-> IF k = kind[x] THEN f[x] ELSE 0]
    OBVIOUS
  <2>2. kind[x] \in K /\ f[x] \in Int
    OBVIOUS
  <2>3. Total([k \in K |-> IF k = kind[x] THEN f[x] ELSE 0]) = f[x]
    BY <2>2, TotalSingle
  <2> QED
    BY <2>1, <2>3
<1>4. [x \in D |-> Total([k \in K |-> a[x][k]])] = f
  <2> HIDE DEF a
  <2> QED
    BY <1>3
<1>5. ASSUME NEW k \in K
      PROVE  Total([x \in D |-> a[x][k]]) = Total([x \in D |-> IF kind[x] = k THEN f[x] ELSE 0])
  <2>1. [x \in D |-> a[x][k]] = [x \in D |-> IF kind[x] = k THEN f[x] ELSE 0]
    OBVIOUS
  <2> QED
    BY <2>1
<1>6. [k \in K |-> Total([x \in D |-> a[x][k]])]
        = [k \in K |-> Total([x \in D |-> IF kind[x] = k THEN f[x] ELSE 0])]
  <2> HIDE DEF a
  <2> QED
    BY <1>5
<1> HIDE DEF a
<1> QED
  BY <1>2, <1>4, <1>6

(* How many there are is a total of ones.                                  *)
LEMMA TotalOfOnes ==
  ASSUME NEW D, IsFiniteSet(D)
  PROVE  Total([x \in D |-> 1]) = Cardinality(D)
<1> DEFINE F == {s \in SUBSET D : Total([x \in s |-> 1]) = Cardinality(s)}
<1>1. ASSUME NEW s \in SUBSET D, \A t \in SUBSET s : t # s => t \in F PROVE s \in F
  <2>1. CASE s = {}
    BY <2>1, TotalEmpty, FS_EmptySet
  <2>2. CASE s # {}
    <3> PICK p \in s : TRUE
      BY <2>2
    <3>1. IsFiniteSet(s)
      BY FS_Subset
    <3>2. s \ {p} \in F
      BY <1>1
    <3> DEFINE e == [x \in s |-> 1]
    <3>3. e \in [s -> Int] /\ e[p] = 1 /\ [y \in s \ {p} |-> e[y]] = [x \in s \ {p} |-> 1]
      OBVIOUS
    <3>4. Total(e) = e[p] + Total([y \in s \ {p} |-> e[y]])
      <4> HIDE DEF e
      <4> QED
        BY <3>1, <3>3, TotalRemoves
    <3>5. Cardinality(s \ {p}) = Cardinality(s) - 1 /\ Cardinality(s) \in Nat
      BY <3>1, FS_RemoveElement, FS_CardinalityType
    <3>6. Total(e) = 1 + Cardinality(s \ {p})
      BY <3>2, <3>3, <3>4
    <3>7. Total(e) = Cardinality(s)
      <4> HIDE DEF e
      <4> QED
        BY <3>5, <3>6
    <3> QED
      BY <3>7
  <2> QED
    BY <2>1, <2>2
<1>2. D \in F
  <2> HIDE DEF F
  <2> QED
    BY <1>1, BySubsets
<1> QED
  BY <1>2

-----------------------------------------------------------------------------
(***************************************************************************)
(* Sequences that are put together (FlattenSeq), and what is kept of them. *)
(***************************************************************************)
(* A function of the first numbers is a sequence.                          *)
LEMMA IsSeq ==
  ASSUME NEW S, NEW n \in Nat, NEW s \in [1 .. n -> S]
  PROVE  s \in Seq(S) /\ Len(s) = n /\ DOMAIN s = 1 .. n
<1>1. s \in Seq(S)
  BY SeqDef
<1> QED
  BY <1>1

(* Flattening, one part at a time.                                         *)
FlattensTo(h, ss, k) == h[0] = <<>> /\ \A i \in 1 .. k : h[i] = h[i - 1] \o ss[i]

(* What the first parts of a sequence of sequences are put together to.    *)
Flattened(S, ss, k) == \E h \in [0 .. k -> Seq(S)] : FlattensTo(h, ss, k)

(* There is one for every number of parts.                                 *)
LEMMA FlattenExists ==
  ASSUME NEW S, NEW ss \in Seq(Seq(S)), NEW n \in 0 .. Len(ss)
  PROVE  Flattened(S, ss, n)
<1> DEFINE N == {k \in Nat : k <= Len(ss) => Flattened(S, ss, k)}
<1>1. 0 \in N
  <2> DEFINE h == [i \in 0 .. 0 |-> <<>>]
  <2>1. h \in [0 .. 0 -> Seq(S)] /\ FlattensTo(h, ss, 0)
    BY DEF FlattensTo
  <2> HIDE DEF h
  <2>2. Flattened(S, ss, 0)
    BY <2>1 DEF Flattened
  <2> QED
    BY <2>2
<1>2. ASSUME NEW k \in Nat, k \in N PROVE k + 1 \in N
  <2> SUFFICES ASSUME k + 1 <= Len(ss) PROVE Flattened(S, ss, k + 1)
    OBVIOUS
  <2>1. PICK h \in [0 .. k -> Seq(S)] : FlattensTo(h, ss, k)
    <3>1. k <= Len(ss)
      OBVIOUS
    <3> QED
      BY <1>2, <3>1 DEF Flattened
  <2> DEFINE g == [i \in 0 .. k + 1 |-> IF i = k + 1 THEN h[k] \o ss[i] ELSE h[i]]
  <2>2. ss[k + 1] \in Seq(S) /\ h[k] \in Seq(S)
    OBVIOUS
  <2>3. h[k] \o ss[k + 1] \in Seq(S)
    BY <2>2, ConcatProperties
  <2>4. g \in [0 .. k + 1 -> Seq(S)]
    BY <2>3
  <2>5. FlattensTo(g, ss, k + 1)
    <3>1. g[0] = <<>>
      BY <2>1 DEF FlattensTo
    <3>2. ASSUME NEW i \in 1 .. k + 1 PROVE g[i] = g[i - 1] \o ss[i]
      <4>1. CASE i = k + 1
        <5>1. g[k + 1] = h[k] \o ss[k + 1] /\ g[k] = h[k] /\ i - 1 = k
          BY <4>1
        <5> QED
          BY <4>1, <5>1
      <4>2. CASE i # k + 1
        <5>1. i \in 1 .. k /\ i - 1 \in 0 .. k /\ g[i] = h[i] /\ g[i - 1] = h[i - 1]
          BY <4>2
        <5> QED
          BY <2>1, <5>1 DEF FlattensTo
      <4> QED
        BY <4>1, <4>2
    <3> HIDE DEF g
    <3> QED
      BY <3>1, <3>2 DEF FlattensTo
  <2> HIDE DEF g
  <2> QED
    BY <2>4, <2>5 DEF Flattened
<1>3. n \in N
  <2>1. Nat \subseteq N
    <3> HIDE DEF N
    <3> QED
      BY <1>1, <1>2, ByInduction
  <2> QED
    BY <2>1
<1> QED
  BY <1>3

(* FlattenSeq puts the parts together, one after the other.                *)
LEMMA FlattenFolds ==
  ASSUME NEW S, NEW ss \in Seq(Seq(S))
  PROVE  \E h \in [0 .. Len(ss) -> Seq(S)] : FlattensTo(h, ss, Len(ss)) /\ FlattenSeq(ss) = h[Len(ss)]
<1> DEFINE n == Len(ss)
<1>1. n \in Nat /\ DOMAIN ss = 1 .. n
  OBVIOUS
<1>2. PICK h \in [0 .. n -> Seq(S)] : FlattensTo(h, ss, Len(ss))
  <2>1. n \in 0 .. Len(ss)
    BY <1>1
  <2> QED
    BY <2>1, FlattenExists DEF Flattened
<1>3. FlattenSeq(ss) = h[n]
  <2>1. CASE n = 0
    <3>1. FlattenSeq(ss) = ss /\ ss = <<>>
      BY <2>1 DEF FlattenSeq
    <3> QED
      BY <1>2, <2>1, <3>1 DEF FlattensTo
  <2>2. CASE n # 0
    <3> DEFINE Eq(f) == f = [i \in 1 .. n |-> IF i = 1 THEN ss[i] ELSE f[i - 1] \o ss[i]]
               g == [i \in 1 .. n |-> h[i]]
               k == CHOOSE f : Eq(f)
    <3>1. FlattenSeq(ss) = k[n]
      BY <2>2 DEF FlattenSeq
    <3>2. Eq(g)
      <4>1. ASSUME NEW i \in 1 .. n PROVE g[i] = IF i = 1 THEN ss[i] ELSE g[i - 1] \o ss[i]
        <5>1. h[i] = h[i - 1] \o ss[i] /\ g[i] = h[i] /\ h[0] = <<>>
          BY <1>1, <1>2 DEF FlattensTo
        <5>2. CASE i = 1
          <6>1. ss[i] \in Seq(S)
            BY <1>1
          <6>2. <<>> \o ss[i] = ss[i]
            BY <6>1, ConcatEmptySeq
          <6>3. i - 1 = 0
            BY <5>2
          <6>4. g[i] = ss[i]
            <7> HIDE DEF g
            <7> QED
              BY <5>1, <6>2, <6>3
          <6> HIDE DEF g
          <6> QED
            BY <5>2, <6>4
        <5>3. CASE i # 1
          <6>1. i - 1 \in 1 .. n
            BY <5>3, <1>1
          <6> QED
            BY <5>1, <5>3, <6>1
        <5> QED
          BY <5>2, <5>3
      <4> QED
        BY <4>1
    <3>3. Eq(k)
      <4> HIDE DEF Eq, g
      <4> QED
        BY <3>2
    <3>4. ASSUME NEW i \in 1 .. n PROVE k[i] = IF i = 1 THEN ss[i] ELSE k[i - 1] \o ss[i]
      <4> HIDE DEF k
      <4> QED
        BY <3>3
    <3>5. ASSUME NEW i \in 1 .. n PROVE g[i] = IF i = 1 THEN ss[i] ELSE g[i - 1] \o ss[i]
      <4> HIDE DEF g
      <4> QED
        BY <3>2
    <3> HIDE DEF k, g, Eq
    <3> DEFINE N == {j \in Nat : j \in 1 .. n => k[j] = g[j]}
    <3>6. 0 \in N
      OBVIOUS
    <3>7. ASSUME NEW j \in Nat, j \in N PROVE j + 1 \in N
      <4> SUFFICES ASSUME j + 1 \in 1 .. n PROVE k[j + 1] = g[j + 1]
        OBVIOUS
      <4>1. CASE j = 0
        BY <3>4, <3>5, <4>1
      <4>2. CASE j # 0
        <5>1. j \in 1 .. n /\ j + 1 # 1 /\ (j + 1) - 1 = j
          BY <4>2, <1>1
        <5>2. k[j] = g[j]
          BY <3>7, <5>1
        <5> QED
          BY <3>4, <3>5, <5>1, <5>2
      <4> QED
        BY <4>1, <4>2
    <3>8. Nat \subseteq N
      <4> HIDE DEF N
      <4> QED
        BY <3>6, <3>7, ByInduction
    <3>9. n \in 1 .. n
      BY <1>1, <2>2
    <3> QED
      BY <1>1, <3>1, <3>8, <3>9 DEF g
  <2> QED
    BY <2>1, <2>2
<1> QED
  BY <1>2, <1>3

(* What is in two sequences, one after the other.                          *)
LEMMA ConcatMembers ==
  ASSUME NEW S, NEW s \in Seq(S), NEW t \in Seq(S)
  PROVE  ToSet(s \o t) = ToSet(s) \cup ToSet(t)
<1> DEFINE u == s \o t
<1>1. /\ u \in Seq(S) /\ Len(u) = Len(s) + Len(t)
      /\ \A i \in 1 .. Len(s) + Len(t) : u[i] = IF i <= Len(s) THEN s[i] ELSE t[i - Len(s)]
  BY ConcatProperties
<1> HIDE DEF u
<1>2. DOMAIN s = 1 .. Len(s) /\ DOMAIN t = 1 .. Len(t) /\ DOMAIN u = 1 .. Len(s) + Len(t)
      /\ Len(s) \in Nat /\ Len(t) \in Nat
  BY <1>1, LenProperties
<1>3. ASSUME NEW i \in DOMAIN u PROVE u[i] \in ToSet(s) \cup ToSet(t)
  <2>1. CASE i <= Len(s)
    BY <1>1, <1>2, <2>1 DEF ToSet
  <2>2. CASE ~(i <= Len(s))
    <3>1. i - Len(s) \in DOMAIN t
      BY <1>2, <2>2
    <3> QED
      BY <1>1, <1>2, <2>2, <3>1 DEF ToSet
  <2> QED
    BY <2>1, <2>2
<1>4. ASSUME NEW i \in DOMAIN s PROVE s[i] \in ToSet(u)
  <2>1. i \in DOMAIN u /\ u[i] = s[i]
    BY <1>1, <1>2
  <2> QED
    BY <2>1 DEF ToSet
<1>5. ASSUME NEW i \in DOMAIN t PROVE t[i] \in ToSet(u)
  <2>1. i + Len(s) \in DOMAIN u /\ ~(i + Len(s) <= Len(s)) /\ (i + Len(s)) - Len(s) = i
    BY <1>2
  <2>2. u[i + Len(s)] = t[i]
    BY <1>1, <1>2, <2>1
  <2> QED
    BY <2>1, <2>2 DEF ToSet
<1>6. ToSet(u) = ToSet(s) \cup ToSet(t)
  BY <1>3, <1>4, <1>5 DEF ToSet
<1> QED
  BY <1>6 DEF u

(* What is in the parts is in the whole, and nothing else.                 *)
LEMMA FlattenMembers ==
  ASSUME NEW S, NEW ss \in Seq(Seq(S))
  PROVE  /\ FlattenSeq(ss) \in Seq(S)
         /\ ToSet(FlattenSeq(ss)) = UNION {ToSet(ss[i]) : i \in DOMAIN ss}
<1> DEFINE n == Len(ss)
<1>1. n \in Nat /\ DOMAIN ss = 1 .. n /\ \A i \in 1 .. n : ss[i] \in Seq(S)
  OBVIOUS
<1>2. PICK h \in [0 .. n -> Seq(S)] : FlattensTo(h, ss, Len(ss)) /\ FlattenSeq(ss) = h[n]
  BY FlattenFolds
<1> DEFINE U(k) == UNION {ToSet(ss[i]) : i \in 1 .. k}
           N == {k \in Nat : k <= n => ToSet(h[k]) = U(k)}
<1>3. 0 \in N
  BY <1>2 DEF FlattensTo, ToSet
<1>4. ASSUME NEW k \in Nat, k \in N PROVE k + 1 \in N
  <2> SUFFICES ASSUME k + 1 <= n PROVE ToSet(h[k + 1]) = U(k + 1)
    OBVIOUS
  <2>1. k + 1 \in 1 .. n /\ k \in 0 .. n /\ (k + 1) - 1 = k /\ k <= n
    BY <1>1
  <2>2. h[k + 1] = h[k] \o ss[k + 1]
    BY <1>2, <2>1 DEF FlattensTo
  <2>3. ToSet(h[k + 1]) = ToSet(h[k]) \cup ToSet(ss[k + 1])
    <3>1. h[k] \in Seq(S) /\ ss[k + 1] \in Seq(S)
      BY <1>1, <2>1
    <3> QED
      BY <2>2, <3>1, ConcatMembers
  <2>4. ToSet(h[k]) = U(k)
    BY <1>4, <2>1
  <2>5. 1 .. k + 1 = (1 .. k) \cup {k + 1}
    BY <2>1
  <2>6. U(k + 1) = U(k) \cup ToSet(ss[k + 1])
    BY <2>5
  <2> QED
    BY <2>3, <2>4, <2>6
<1>5. n \in N
  <2>1. Nat \subseteq N
    <3> HIDE DEF N
    <3> QED
      BY <1>3, <1>4, ByInduction
  <2> QED
    BY <1>1, <2>1
<1>6. ToSet(h[n]) = U(n)
  BY <1>1, <1>5
<1>7. h[n] \in Seq(S)
  BY <1>1
<1> QED
  BY <1>1, <1>2, <1>6, <1>7

(* The total of what each element of a sequence counts for.                *)
SumOf(s, g) == Total([i \in DOMAIN s |-> g[s[i]]])

(* A sum over a sequence is an integer.                                    *)
LEMMA SumInt ==
  ASSUME NEW S, NEW s \in Seq(S), NEW g \in [S -> Int]
  PROVE  SumOf(s, g) \in Int
<1>1. IsFiniteSet(DOMAIN s) /\ [i \in DOMAIN s |-> g[s[i]]] \in [DOMAIN s -> Int]
  <2>1. DOMAIN s = 1 .. Len(s) /\ Len(s) \in Nat
    OBVIOUS
  <2>2. IsFiniteSet(1 .. Len(s))
    BY <2>1, FS_Interval
  <2> QED
    BY <2>1, <2>2
<1> QED
  BY <1>1, TotalInt DEF SumOf

(* The sum over two sequences, one after the other.                        *)
LEMMA SumConcat ==
  ASSUME NEW S, NEW s \in Seq(S), NEW t \in Seq(S), NEW g \in [S -> Int]
  PROVE  SumOf(s \o t, g) = SumOf(s, g) + SumOf(t, g)
<1> DEFINE u == s \o t
           m == Len(s)
           n == Len(t)
           e == [i \in 1 .. m + n |-> g[u[i]]]
           d == [i \in 1 .. n |-> g[t[i]]]
           a(k) == Total([i \in 1 .. m + k |-> e[i]])
           b(k) == Total([i \in 1 .. k |-> d[i]])
           N == {k \in Nat : k <= n => a(k) = a(0) + b(k)}
<1>1. /\ u \in Seq(S) /\ Len(u) = m + n
      /\ \A i \in 1 .. m + n : u[i] = IF i <= m THEN s[i] ELSE t[i - m]
  BY ConcatProperties
<1>2. m \in Nat /\ n \in Nat /\ DOMAIN s = 1 .. m /\ DOMAIN t = 1 .. n /\ DOMAIN u = 1 .. m + n
  <2> HIDE DEF u
  <2> QED
    BY <1>1
<1>3. \A i \in 1 .. m + n : e[i] \in Int
  <2>1. \A i \in 1 .. m + n : u[i] \in S
    <3> HIDE DEF u
    <3> QED
      BY <1>1, <1>2
  <2> HIDE DEF u
  <2> QED
    BY <2>1
<1>4. \A i \in 1 .. n : d[i] \in Int
  BY <1>2
<1>5. ASSUME NEW i \in 1 .. n PROVE e[m + i] = d[i]
  <2>1. m + i \in 1 .. m + n /\ ~(m + i <= m) /\ (m + i) - m = i
    BY <1>2
  <2>2. u[m + i] = t[i]
    BY <1>1, <2>1
  <2> HIDE DEF u
  <2> QED
    BY <2>1, <2>2
<1>6. ASSUME NEW k \in Nat, k <= n PROVE a(k) \in Int /\ b(k) \in Int
  <2>1. IsFiniteSet(1 .. m + k) /\ IsFiniteSet(1 .. k)
    <3>1. m + k \in Int
      BY <1>2
    <3> HIDE DEF u, m, n, e, d, a, b, N
    <3> QED
      BY <3>1, FS_Interval
  <2>2. 1 .. m + k \subseteq 1 .. m + n /\ 1 .. k \subseteq 1 .. n
    BY <1>2, <1>6
  <2>3. [i \in 1 .. m + k |-> e[i]] \in [1 .. m + k -> Int] /\ [i \in 1 .. k |-> d[i]] \in [1 .. k -> Int]
    <3> HIDE DEF e, d
    <3> QED
      BY <1>3, <1>4, <2>2
  <2> HIDE DEF e, d
  <2> QED
    BY <2>1, <2>3, TotalInt
<1>7. 0 \in N
  <2>1. b(0) = 0
    <3>1. 1 .. 0 = {}
      OBVIOUS
    <3> HIDE DEF d
    <3> QED
      BY <3>1, TotalEmpty
  <2>2. a(0) \in Int
    <3>1. 0 <= n
      BY <1>2
    <3> HIDE DEF a, b, n
    <3> QED
      BY <1>6, <3>1
  <2> HIDE DEF a, b
  <2> QED
    BY <2>1, <2>2
<1>8. ASSUME NEW k \in Nat, k \in N PROVE k + 1 \in N
  <2> SUFFICES ASSUME k + 1 <= n PROVE a(k + 1) = a(0) + b(k + 1)
    <3> HIDE DEF a, b, n
    <3> QED
      OBVIOUS
  <2>1. k <= n /\ k + 1 \in 1 .. n /\ m + k \in Nat /\ m + (k + 1) = (m + k) + 1
        /\ 1 .. k + 1 \subseteq 1 .. n /\ 1 .. (m + k) + 1 \subseteq 1 .. m + n
    BY <1>2
  <2>2. a(k + 1) = a(k) + e[(m + k) + 1]
    <3>1. \A i \in 1 .. (m + k) + 1 : e[i] \in Int
      BY <1>3, <2>1
    <3> HIDE DEF e
    <3>2. Total([i \in 1 .. (m + k) + 1 |-> e[i]]) = Total([i \in 1 .. m + k |-> e[i]]) + e[(m + k) + 1]
      BY <2>1, <3>1, TotalAppends
    <3> QED
      BY <2>1, <3>2
  <2>3. b(k + 1) = b(k) + d[k + 1]
    <3>1. \A i \in 1 .. k + 1 : d[i] \in Int
      BY <1>4, <2>1
    <3> HIDE DEF d
    <3> QED
      BY <3>1, TotalAppends
  <2>4. e[(m + k) + 1] = d[k + 1] /\ d[k + 1] \in Int
    <3>1. e[m + (k + 1)] = d[k + 1]
      BY <1>5, <2>1
    <3>2. d[k + 1] \in Int
      BY <1>4, <2>1
    <3> HIDE DEF e, d
    <3> QED
      BY <2>1, <3>1, <3>2
  <2>5. a(k) = a(0) + b(k)
    <3> HIDE DEF a, b, n
    <3> QED
      BY <1>8, <2>1
  <2>6. a(0) \in Int /\ b(k) \in Int
    <3>1. 0 <= n
      BY <1>2
    <3> HIDE DEF a, b, n
    <3> QED
      BY <1>6, <2>1, <3>1
  <2> DEFINE x == d[k + 1]
             y == a(0)
             z == b(k)
  <2>7. x \in Int /\ y \in Int /\ z \in Int /\ a(k + 1) = (y + z) + x /\ b(k + 1) = z + x
    BY <2>2, <2>3, <2>4, <2>5, <2>6
  <2> HIDE DEF x, y, z, a, b
  <2>8. a(k + 1) = y + b(k + 1)
    BY <2>7
  <2> QED
    BY <2>8 DEF y
<1>9. n \in N
  <2>1. Nat \subseteq N
    <3> HIDE DEF N
    <3> QED
      BY <1>7, <1>8, ByInduction
  <2> HIDE DEF N
  <2> QED
    BY <1>2, <2>1
<1>10. a(n) = a(0) + b(n)
  <2> HIDE DEF a, b
  <2> QED
    BY <1>2, <1>9
<1>11. a(n) = SumOf(u, g)
  <2>1. [i \in 1 .. m + n |-> e[i]] = [i \in DOMAIN u |-> g[u[i]]]
    BY <1>2
  <2> QED
    BY <2>1 DEF SumOf
<1>12. b(n) = SumOf(t, g)
  <2>1. [i \in 1 .. n |-> d[i]] = [i \in DOMAIN t |-> g[t[i]]]
    BY <1>2
  <2> QED
    BY <2>1 DEF SumOf
<1>13. a(0) = SumOf(s, g)
  <2>1. m + 0 = m
    BY <1>2
  <2>2. ASSUME NEW i \in 1 .. m PROVE e[i] = g[s[i]]
    <3>1. i \in 1 .. m + n /\ i <= m
      BY <1>2
    <3>2. u[i] = s[i]
      BY <1>1, <3>1
    <3> HIDE DEF u
    <3> QED
      BY <3>1, <3>2
  <2>3. [i \in 1 .. m |-> e[i]] = [i \in DOMAIN s |-> g[s[i]]]
    <3> HIDE DEF e
    <3> QED
      BY <1>2, <2>2
  <2> HIDE DEF e
  <2> QED
    BY <2>1, <2>3 DEF SumOf
<1> HIDE DEF a, b
<1> QED
  BY <1>10, <1>11, <1>12, <1>13 DEF u

(* The sum over the whole is the total of the sums over its parts.         *)
LEMMA SumFlatten ==
  ASSUME NEW S, NEW ss \in Seq(Seq(S)), NEW g \in [S -> Int]
  PROVE  SumOf(FlattenSeq(ss), g) = Total([i \in DOMAIN ss |-> SumOf(ss[i], g)])
<1> DEFINE n == Len(ss)
           e == [i \in 1 .. n |-> SumOf(ss[i], g)]
<1>1. n \in Nat /\ DOMAIN ss = 1 .. n /\ \A i \in 1 .. n : ss[i] \in Seq(S)
  OBVIOUS
<1>2. PICK h \in [0 .. n -> Seq(S)] : FlattensTo(h, ss, n) /\ FlattenSeq(ss) = h[n]
  BY FlattenFolds
<1>3. \A i \in 1 .. n : e[i] \in Int
  BY <1>1, SumInt
<1> DEFINE N == {k \in Nat : k <= n => SumOf(h[k], g) = Total([i \in 1 .. k |-> e[i]])}
<1>4. 0 \in N
  <2>1. 1 .. 0 = {} /\ h[0] = <<>> /\ DOMAIN <<>> = {}
    BY <1>2 DEF FlattensTo
  <2>2. Total([i \in 1 .. 0 |-> e[i]]) = 0
    <3> HIDE DEF e
    <3> QED
      BY <2>1, TotalEmpty
  <2>3. SumOf(h[0], g) = 0
    BY <2>1, TotalEmpty DEF SumOf
  <2> QED
    BY <2>2, <2>3
<1>5. ASSUME NEW k \in Nat, k \in N PROVE k + 1 \in N
  <2> SUFFICES ASSUME k + 1 <= n PROVE SumOf(h[k + 1], g) = Total([i \in 1 .. k + 1 |-> e[i]])
    OBVIOUS
  <2>1. k + 1 \in 1 .. n /\ k \in 0 .. n /\ (k + 1) - 1 = k /\ k <= n /\ 1 .. k + 1 \subseteq 1 .. n
    BY <1>1
  <2>2. h[k + 1] = h[k] \o ss[k + 1]
    BY <1>2, <2>1 DEF FlattensTo
  <2>3. SumOf(h[k + 1], g) = SumOf(h[k], g) + SumOf(ss[k + 1], g)
    <3>1. h[k] \in Seq(S) /\ ss[k + 1] \in Seq(S)
      BY <1>1, <2>1
    <3> QED
      BY <2>2, <3>1, SumConcat
  <2>4. SumOf(h[k], g) = Total([i \in 1 .. k |-> e[i]])
    BY <1>5, <2>1
  <2>5. Total([i \in 1 .. k + 1 |-> e[i]]) = Total([i \in 1 .. k |-> e[i]]) + e[k + 1]
    <3>1. \A i \in 1 .. k + 1 : e[i] \in Int
      BY <1>3, <2>1
    <3> HIDE DEF e
    <3> QED
      BY <3>1, TotalAppends
  <2>6. e[k + 1] = SumOf(ss[k + 1], g)
    BY <2>1
  <2> HIDE DEF e
  <2> QED
    BY <2>3, <2>4, <2>5, <2>6
<1>6. n \in N
  <2>1. Nat \subseteq N
    <3> HIDE DEF N
    <3> QED
      BY <1>4, <1>5, ByInduction
  <2> HIDE DEF N
  <2> QED
    BY <1>1, <2>1
<1>7. SumOf(h[n], g) = Total([i \in 1 .. n |-> e[i]])
  BY <1>1, <1>6
<1>8. [i \in 1 .. n |-> e[i]] = [i \in DOMAIN ss |-> SumOf(ss[i], g)]
  BY <1>1
<1> QED
  BY <1>2, <1>7, <1>8

(* A length is a sum of ones.                                              *)
LEMMA LenIsSum ==
  ASSUME NEW S, NEW s \in Seq(S)
  PROVE  Len(s) = SumOf(s, [x \in S |-> 1])
<1>1. DOMAIN s = 1 .. Len(s) /\ Len(s) \in Nat
  OBVIOUS
<1>2. IsFiniteSet(1 .. Len(s)) /\ Cardinality(1 .. Len(s)) = Len(s)
  BY <1>1, FS_Interval
<1>3. [i \in DOMAIN s |-> [x \in S |-> 1][s[i]]] = [i \in 1 .. Len(s) |-> 1]
  BY <1>1
<1> QED
  BY <1>2, <1>3, TotalOfOnes DEF SumOf

(* The elements of a sequence that are in a set.                           *)
Only(s, T) == FlattenSeq([i \in DOMAIN s |-> IF s[i] \in T THEN <<s[i]>> ELSE <<>>])

(* The elements of a sequence that are in a set: what they are, and what   *)
(* any sum over them is.                                                   *)
LEMMA OnlyOf ==
  ASSUME NEW S, NEW s \in Seq(S), NEW T
  PROVE  /\ Only(s, T) \in Seq(S)
         /\ ToSet(Only(s, T)) = ToSet(s) \cap T
         /\ \A g \in [S -> Int] : SumOf(Only(s, T), g) = SumOf(s, [x \in S |-> IF x \in T THEN g[x] ELSE 0])
<1> DEFINE ss == [i \in DOMAIN s |-> IF s[i] \in T THEN <<s[i]>> ELSE <<>>]
<1>1. DOMAIN s = 1 .. Len(s) /\ Len(s) \in Nat /\ \A i \in DOMAIN s : s[i] \in S
  OBVIOUS
<1>2. ss \in Seq(Seq(S)) /\ DOMAIN ss = DOMAIN s
  <2>1. ss \in [1 .. Len(s) -> Seq(S)]
    BY <1>1
  <2> HIDE DEF ss
  <2> QED
    BY <1>1, <2>1, IsSeq
<1>3. Only(s, T) \in Seq(S) /\ ToSet(Only(s, T)) = UNION {ToSet(ss[i]) : i \in DOMAIN ss}
  <2>1. Only(s, T) = FlattenSeq(ss)
    BY DEF Only
  <2> HIDE DEF ss
  <2> QED
    BY <1>2, <2>1, FlattenMembers
<1>4. UNION {ToSet(ss[i]) : i \in DOMAIN ss} = ToSet(s) \cap T
  <2>1. ASSUME NEW i \in DOMAIN s PROVE ToSet(ss[i]) = IF s[i] \in T THEN {s[i]} ELSE {}
    BY <1>1 DEF ToSet
  <2>2. UNION {ToSet(ss[i]) : i \in DOMAIN s} = UNION {IF s[i] \in T THEN {s[i]} ELSE {} : i \in DOMAIN s}
    <3> HIDE DEF ss
    <3> QED
      BY <2>1
  <2>3. UNION {IF s[i] \in T THEN {s[i]} ELSE {} : i \in DOMAIN s} = ToSet(s) \cap T
    BY DEF ToSet
  <2> HIDE DEF ss
  <2> QED
    BY <1>2, <2>2, <2>3
<1>5. ASSUME NEW g \in [S -> Int]
      PROVE  SumOf(Only(s, T), g) = SumOf(s, [x \in S |-> IF x \in T THEN g[x] ELSE 0])
  <2>1. SumOf(FlattenSeq(ss), g) = Total([i \in DOMAIN ss |-> SumOf(ss[i], g)])
    <3> HIDE DEF ss
    <3> QED
      BY <1>2, SumFlatten
  <2>2. ASSUME NEW i \in DOMAIN s PROVE SumOf(ss[i], g) = [x \in S |-> IF x \in T THEN g[x] ELSE 0][s[i]]
    <3>1. CASE s[i] \in T
      <4>1. ss[i] = <<s[i]>> /\ DOMAIN <<s[i]>> = {1} /\ s[i] \in S /\ g[s[i]] \in Int
        BY <1>1, <3>1
      <4>2. [j \in DOMAIN <<s[i]>> |-> g[<<s[i]>>[j]]] = [j \in {1} |-> IF j = 1 THEN g[s[i]] ELSE 0]
        BY <4>1
      <4>3. Total([j \in {1} |-> IF j = 1 THEN g[s[i]] ELSE 0]) = g[s[i]]
        <5>1. IsFiniteSet({1})
          BY FS_Singleton
        <5> QED
          BY <4>1, <5>1, TotalSingle
      <4> HIDE DEF ss
      <4> QED
        BY <3>1, <4>1, <4>2, <4>3 DEF SumOf
    <3>2. CASE s[i] \notin T
      <4>1. ss[i] = <<>> /\ DOMAIN <<>> = {}
        BY <3>2
      <4>2. SumOf(<<>>, g) = 0
        BY <4>1, TotalEmpty DEF SumOf
      <4> HIDE DEF ss
      <4> QED
        BY <1>1, <3>2, <4>1, <4>2
    <3> QED
      BY <3>1, <3>2
  <2>3. [i \in DOMAIN ss |-> SumOf(ss[i], g)]
          = [i \in DOMAIN s |-> [x \in S |-> IF x \in T THEN g[x] ELSE 0][s[i]]]
    <3> HIDE DEF ss
    <3> QED
      BY <1>2, <2>2
  <2>4. Only(s, T) = FlattenSeq(ss)
    BY DEF Only
  <2> HIDE DEF ss
  <2> QED
    BY <2>1, <2>3, <2>4 DEF SumOf
<1> QED
  BY <1>3, <1>4, <1>5

(* No element twice.                                                       *)
OneToOne(s) == \A i, j \in DOMAIN s : s[i] = s[j] => i = j

(* Two sequences without repetition, of different things.                  *)
LEMMA ConcatOneToOne ==
  ASSUME NEW S, NEW s \in Seq(S), NEW t \in Seq(S), OneToOne(s), OneToOne(t),
         ToSet(s) \cap ToSet(t) = {}
  PROVE  OneToOne(s \o t)
<1> DEFINE u == s \o t
<1>1. /\ u \in Seq(S) /\ Len(u) = Len(s) + Len(t)
      /\ \A i \in 1 .. Len(s) + Len(t) : u[i] = IF i <= Len(s) THEN s[i] ELSE t[i - Len(s)]
  BY ConcatProperties
<1> HIDE DEF u
<1>2. DOMAIN s = 1 .. Len(s) /\ DOMAIN t = 1 .. Len(t) /\ DOMAIN u = 1 .. Len(s) + Len(t)
      /\ Len(s) \in Nat /\ Len(t) \in Nat
  BY <1>1, LenProperties
<1>3. ASSUME NEW i \in DOMAIN u, NEW j \in DOMAIN u, u[i] = u[j], i <= Len(s), j <= Len(s) PROVE i = j
  BY <1>1, <1>2, <1>3 DEF OneToOne
<1>4. ASSUME NEW i \in DOMAIN u, NEW j \in DOMAIN u, u[i] = u[j], ~(i <= Len(s)), ~(j <= Len(s)) PROVE i = j
  <2>1. i - Len(s) \in DOMAIN t /\ j - Len(s) \in DOMAIN t
    BY <1>2, <1>4
  <2>2. t[i - Len(s)] = t[j - Len(s)]
    BY <1>1, <1>2, <1>4
  <2>3. i - Len(s) = j - Len(s)
    BY <2>1, <2>2 DEF OneToOne
  <2> QED
    BY <1>2, <2>3
<1>5. ASSUME NEW i \in DOMAIN u, NEW j \in DOMAIN u, i <= Len(s), ~(j <= Len(s)) PROVE u[i] # u[j]
  <2>1. i \in DOMAIN s /\ j - Len(s) \in DOMAIN t
    BY <1>2, <1>5
  <2>2. u[i] = s[i] /\ u[j] = t[j - Len(s)]
    BY <1>1, <1>2, <1>5
  <2> QED
    BY <2>1, <2>2 DEF ToSet
<1>6. OneToOne(u)
  BY <1>3, <1>4, <1>5 DEF OneToOne
<1> QED
  BY <1>6 DEF u

(* The parts without repetition, each of different things: nothing is in   *)
(* the whole twice.                                                        *)
LEMMA FlattenOneToOne ==
  ASSUME NEW S, NEW ss \in Seq(Seq(S)),
         \A i \in DOMAIN ss : OneToOne(ss[i]),
         \A i, j \in DOMAIN ss : i # j => ToSet(ss[i]) \cap ToSet(ss[j]) = {}
  PROVE  OneToOne(FlattenSeq(ss))
<1> DEFINE n == Len(ss)
<1>1. n \in Nat /\ DOMAIN ss = 1 .. n /\ \A i \in 1 .. n : ss[i] \in Seq(S)
  OBVIOUS
<1>2. PICK h \in [0 .. n -> Seq(S)] : FlattensTo(h, ss, n) /\ FlattenSeq(ss) = h[n]
  BY FlattenFolds
<1> DEFINE U(k) == UNION {ToSet(ss[i]) : i \in 1 .. k}
           N == {k \in Nat : k <= n => ToSet(h[k]) = U(k) /\ OneToOne(h[k])}
<1>3. 0 \in N
  BY <1>2 DEF FlattensTo, ToSet, OneToOne
<1>4. ASSUME NEW k \in Nat, k \in N PROVE k + 1 \in N
  <2> SUFFICES ASSUME k + 1 <= n PROVE ToSet(h[k + 1]) = U(k + 1) /\ OneToOne(h[k + 1])
    OBVIOUS
  <2>1. k + 1 \in 1 .. n /\ k \in 0 .. n /\ (k + 1) - 1 = k /\ k <= n
    BY <1>1
  <2>2. h[k + 1] = h[k] \o ss[k + 1]
    BY <1>2, <2>1 DEF FlattensTo
  <2>3. h[k] \in Seq(S) /\ ss[k + 1] \in Seq(S)
    BY <1>1, <2>1
  <2>4. ToSet(h[k + 1]) = ToSet(h[k]) \cup ToSet(ss[k + 1])
    BY <2>2, <2>3, ConcatMembers
  <2>5. ToSet(h[k]) = U(k) /\ OneToOne(h[k])
    BY <1>4, <2>1
  <2>6. 1 .. k + 1 = (1 .. k) \cup {k + 1}
    BY <2>1
  <2>7. U(k + 1) = U(k) \cup ToSet(ss[k + 1])
    BY <2>6
  <2>8. U(k) \cap ToSet(ss[k + 1]) = {}
    <3>1. \A i \in 1 .. k : i \in DOMAIN ss /\ k + 1 \in DOMAIN ss /\ i # k + 1
      BY <1>1, <2>1
    <3> QED
      BY <3>1
  <2>9. OneToOne(h[k + 1])
    <3> HIDE DEF U
    <3>1. OneToOne(ss[k + 1])
      BY <1>1, <2>1
    <3> QED
      BY <2>2, <2>3, <2>5, <2>8, <3>1, ConcatOneToOne
  <2> QED
    BY <2>4, <2>5, <2>7, <2>9
<1>5. n \in N
  <2>1. Nat \subseteq N
    <3> HIDE DEF N
    <3> QED
      BY <1>3, <1>4, ByInduction
  <2> HIDE DEF N
  <2> QED
    BY <1>1, <2>1
<1> QED
  BY <1>1, <1>2, <1>5

-----------------------------------------------------------------------------
(***************************************************************************)
(* What a backtest attempts: the markets of a bout, priced or not, and     *)
(* every bout of the programme once.                                       *)
(***************************************************************************)
(* A finite set has an order.                                              *)
LEMMA InOrderOf ==
  ASSUME NEW S, IsFiniteSet(S)
  PROVE  InOrder(S) \in Seq(S)
<1> DEFINE G == [x \in S |-> [v \in Seq(S) |-> Append(v, x)]]
           Eq(g) == g = [s \in SUBSET S |-> IF s = {} THEN <<>> ELSE Append(g[s \ {Picked(s)}], Picked(s))]
           g == CHOOSE k : Eq(k)
<1>1. G \in [S -> [Seq(S) -> Seq(S)]]
  OBVIOUS
<1>2. PICK h \in [SUBSET S -> Seq(S)] : FoldsTo(h, S, <<>>, G)
  <2> HIDE DEF G
  <2>1. <<>> \in Seq(S)
    OBVIOUS
  <2> QED
    BY <1>1, <2>1, FoldExists
<1>3. ASSUME NEW s \in SUBSET S, s # {} PROVE Picked(s) \in s
  BY <1>3 DEF Picked
<1>4. ASSUME NEW s \in SUBSET S
      PROVE  h[s] = IF s = {} THEN <<>> ELSE Append(h[s \ {Picked(s)}], Picked(s))
  <2>1. h[s] = IF s = {} THEN <<>> ELSE G[Picked(s)][h[s \ {Picked(s)}]]
    BY <1>2 DEF FoldsTo
  <2>2. CASE s # {}
    <3>1. Picked(s) \in S /\ h[s \ {Picked(s)}] \in Seq(S)
      BY <2>2, <1>3
    <3> QED
      BY <2>1, <2>2, <3>1
  <2> QED
    BY <2>1, <2>2
<1>5. Eq(h)
  BY <1>4
<1>6. InOrder(S) = g[S]
  BY DEF InOrder, FoldSet, MapThenFoldSet, Picked
<1>7. Eq(g)
  <2> HIDE DEF Eq
  <2> QED
    BY <1>5
<1> HIDE DEF g
<1> DEFINE F == {s \in SUBSET S : g[s] = h[s]}
<1>8. ASSUME NEW s \in SUBSET S, \A t \in SUBSET s : t # s => t \in F PROVE s \in F
  <2>1. g[s] = IF s = {} THEN <<>> ELSE Append(g[s \ {Picked(s)}], Picked(s))
    BY <1>7
  <2>2. CASE s # {}
    <3>1. s \ {Picked(s)} \in F
      BY <1>8, <1>3, <2>2
    <3>2. g[s \ {Picked(s)}] = h[s \ {Picked(s)}]
      BY <3>1
    <3>3. g[s] = h[s]
      BY <1>4, <2>1, <2>2, <3>2
    <3> QED
      BY <3>3
  <2> QED
    BY <1>4, <2>1, <2>2
<1>9. S \in F
  <2> HIDE DEF F
  <2> QED
    BY <1>8, BySubsets
<1> QED
  BY <1>6, <1>9

(* A market has finitely many selections.                                  *)
LEMMA CatalogFinite ==
  ASSUME NEW m \in Markets, NEW r \in Nat
  PROVE  IsFiniteSet(Catalog(m[1], m[2], r))
<1> DEFINE O == CASE m[1] = "moneyline" -> Sides
                  [] m[1] = "goes_distance" -> {"goes_distance", "inside_distance"}
                  [] m[1] = "totals" -> {"over", "under"}
                  [] m[1] = "method" -> Finishes \cup {"decision"}
                  [] m[1] = "fighter_by_method" -> Sides \X (Finishes \cup {"decision"})
                  [] m[1] = "exact_round" -> 1 .. r
           f == [o \in O |-> Selection(m[1], o, m[2])]
<1>1. IsFiniteSet(Sides) /\ IsFiniteSet(Finishes \cup {"decision"}) /\ IsFiniteSet(1 .. r)
      /\ IsFiniteSet({"goes_distance", "inside_distance"}) /\ IsFiniteSet({"over", "under"})
  <2>1. IsFiniteSet({"a"}) /\ IsFiniteSet({"ko_tko"}) /\ IsFiniteSet({"goes_distance"}) /\ IsFiniteSet({"over"})
    BY FS_Singleton
  <2>2. IsFiniteSet({"a"} \cup {"b"}) /\ IsFiniteSet({"ko_tko"} \cup {"submission"})
    BY <2>1, FS_AddElement
  <2>3. IsFiniteSet(({"ko_tko"} \cup {"submission"}) \cup {"other_stoppage"})
    BY <2>2, FS_AddElement
  <2>4. IsFiniteSet((({"ko_tko"} \cup {"submission"}) \cup {"other_stoppage"}) \cup {"decision"})
    BY <2>3, FS_AddElement
  <2>5. IsFiniteSet({"goes_distance"} \cup {"inside_distance"}) /\ IsFiniteSet({"over"} \cup {"under"})
    BY <2>1, FS_AddElement
  <2>6. Sides = {"a"} \cup {"b"}
        /\ Finishes \cup {"decision"} = (({"ko_tko"} \cup {"submission"}) \cup {"other_stoppage"}) \cup {"decision"}
        /\ {"goes_distance", "inside_distance"} = {"goes_distance"} \cup {"inside_distance"}
        /\ {"over", "under"} = {"over"} \cup {"under"}
    BY DEF Sides, Finishes
  <2>7. IsFiniteSet(1 .. r)
    BY FS_Interval
  <2> QED
    BY <2>2, <2>4, <2>5, <2>6, <2>7
<1>2. IsFiniteSet(Sides \X (Finishes \cup {"decision"}))
  BY <1>1, FS_Product
<1>3. IsFiniteSet(O)
  BY <1>1, <1>2 DEF Markets
<1>4. Catalog(m[1], m[2], r) = {f[o] : o \in O}
  BY DEF Catalog
<1> HIDE DEF O
<1>5. IsFiniteSet({f[o] : o \in O})
  <2>1. f \in Surjection(O, {f[o] : o \in O})
    BY DEF Surjection
  <2> HIDE DEF f
  <2> QED
    BY <1>3, <2>1, FS_Surjection
<1> QED
  BY <1>4, <1>5

(* What a function makes of a finite set is finite, and no more than it.   *)
LEMMA ImageFinite ==
  ASSUME NEW D, IsFiniteSet(D), NEW f
  PROVE  IsFiniteSet({f[x] : x \in D}) /\ Cardinality({f[x] : x \in D}) <= Cardinality(D)
<1> DEFINE g == [x \in D |-> f[x]]
<1>1. g \in Surjection(D, {f[x] : x \in D})
  BY DEF Surjection
<1> HIDE DEF g
<1> QED
  BY <1>1, FS_Surjection

(* There are finitely many markets.                                        *)
LEMMA MarketsFinite == IsFiniteSet(Markets)
<1> DEFINE A == {"moneyline", "goes_distance", "method", "fighter_by_method", "exact_round"}
<1>1. IsFiniteSet({"moneyline"}) /\ IsFiniteSet({None}) /\ IsFiniteSet({"totals"}) /\ IsFiniteSet({3})
  BY FS_Singleton
<1>2. IsFiniteSet({"moneyline"} \cup {"goes_distance"}) /\ IsFiniteSet({3} \cup {5})
  BY <1>1, FS_AddElement
<1>3. IsFiniteSet(({"moneyline"} \cup {"goes_distance"}) \cup {"method"})
  BY <1>2, FS_AddElement
<1>4. IsFiniteSet((({"moneyline"} \cup {"goes_distance"}) \cup {"method"}) \cup {"fighter_by_method"})
  BY <1>3, FS_AddElement
<1>5. IsFiniteSet(((({"moneyline"} \cup {"goes_distance"}) \cup {"method"}) \cup {"fighter_by_method"})
                    \cup {"exact_round"})
  BY <1>4, FS_AddElement
<1>6. A = ((({"moneyline"} \cup {"goes_distance"}) \cup {"method"}) \cup {"fighter_by_method"}) \cup {"exact_round"}
      /\ Lines = {3} \cup {5}
  BY DEF Lines
<1>7. IsFiniteSet(A) /\ IsFiniteSet(Lines)
  BY <1>2, <1>5, <1>6
<1> HIDE DEF A
<1>8. IsFiniteSet(A \X {None}) /\ IsFiniteSet({"totals"} \X Lines)
  BY <1>1, <1>7, FS_Product
<1>9. IsFiniteSet((A \X {None}) \cup ({"totals"} \X Lines))
  BY <1>8, FS_Union
<1> QED
  BY <1>9 DEF Markets, A

(* A model predicts finitely many selections.                              *)
LEMMA PredictedFinite ==
  ASSUME NEW case, case.rounds \in Nat
  PROVE  IsFiniteSet(Predicted(case))
<1> DEFINE r == case.rounds
           f == [m \in Markets |-> Catalog(m[1], m[2], r)]
<1>1. <<"moneyline", None>> \in Markets
  BY DEF Markets
<1>2. IsFiniteSet(Catalog("moneyline", None, r))
  BY <1>1, CatalogFinite
<1>3. IsFiniteSet(UNION {Catalog(m[1], m[2], r) : m \in Markets})
  <2>1. IsFiniteSet({f[m] : m \in Markets})
    <3> HIDE DEF f
    <3> QED
      BY MarketsFinite, ImageFinite
  <2>2. \A T \in {f[m] : m \in Markets} : IsFiniteSet(T)
    BY CatalogFinite
  <2>3. IsFiniteSet(UNION {f[m] : m \in Markets})
    <3> HIDE DEF f
    <3> QED
      BY <2>1, <2>2, FS_UNION
  <2>4. {f[m] : m \in Markets} = {Catalog(m[1], m[2], r) : m \in Markets}
    OBVIOUS
  <2> QED
    BY <2>3, <2>4
<1>4. IsFiniteSet({})
  BY FS_EmptySet
<1> QED
  BY <1>2, <1>3, <1>4 DEF Predicted

(* What the markets of an attempt are: each says which family it is of,    *)
(* and one that is offered says of its bet what the model does.            *)
MarketIs(m, case) ==
  /\ m.bet.family \in Families
  /\ m.available \in BOOLEAN
  /\ m.available => m.bet \in Predicted(case) /\ m = Market(m.bet, case.chance[m.bet])

(* A selection that is predicted is of one of the families.                *)
LEMMA PredictedFamilies ==
  ASSUME NEW case, NEW bet \in Predicted(case)
  PROVE  /\ bet.family \in Families
         /\ bet = Selection(bet.family, bet.outcome, bet.line)
<1>1. \A m \in Markets : \A b \in Catalog(m[1], m[2], case.rounds) :
        b.family \in Families /\ b = Selection(b.family, b.outcome, b.line)
  BY DEF Catalog, Selection, Families
<1>2. <<"moneyline", None>> \in Markets
  BY DEF Markets
<1>3. CASE case.model = "M1"
  <2>1. bet \in Catalog("moneyline", None, case.rounds)
    BY <1>3 DEF Predicted
  <2>2. <<"moneyline", None>>[1] = "moneyline" /\ <<"moneyline", None>>[2] = None
    OBVIOUS
  <2> QED
    BY <1>1, <1>2, <2>1, <2>2
<1>4. CASE case.model = "M2"
  BY <1>1, <1>4 DEF Predicted
<1>5. CASE case.model \notin {"M1", "M2"}
  BY <1>5 DEF Predicted
<1> QED
  BY <1>3, <1>4, <1>5

(* What an attempt's markets are: available only for what is predicted.    *)
LEMMA MarketsAre ==
  ASSUME NEW case, CaseType(case)
  PROVE  /\ PredictedMarkets(case) \in Seq(ToSet(PredictedMarkets(case)))
         /\ \A m \in ToSet(PredictedMarkets(case)) : MarketIs(m, case)
<1> DEFINE P == PredictedMarkets(case)
<1>0. ASSUME NEW S, NEW s \in Seq(S) PROVE s \in Seq(ToSet(s)) /\ ToSet(s) \subseteq S
  <2>1. s \in [1 .. Len(s) -> ToSet(s)] /\ Len(s) \in Nat
    BY DEF ToSet
  <2> QED
    BY <2>1, IsSeq DEF ToSet
<1>1. case.rounds \in Nat
  BY DEF CaseType
<1>2. ASSUME NEW bet \in Predicted(case) PROVE MarketIs(Market(bet, case.chance[bet]), case)
  <2>1. bet.family \in Families
    BY PredictedFamilies
  <2> QED
    BY <2>1 DEF MarketIs, Market
<1>3. CASE case.model = "M2"
  <2> DEFINE bets == InOrder(Predicted(case))
             f == [i \in DOMAIN bets |-> Market(bets[i], case.chance[bets[i]])]
             M == {Market(bet, case.chance[bet]) : bet \in Predicted(case)}
  <2>1. bets \in Seq(Predicted(case))
    BY <1>1, PredictedFinite, InOrderOf
  <2>2. DOMAIN bets = 1 .. Len(bets) /\ Len(bets) \in Nat /\ \A i \in DOMAIN bets : bets[i] \in Predicted(case)
    <3> HIDE DEF bets
    <3> QED
      BY <2>1
  <2>3. f \in [1 .. Len(bets) -> M]
    <3> HIDE DEF bets
    <3> QED
      BY <2>2
  <2>4. f \in Seq(M)
    <3> HIDE DEF f, bets
    <3> QED
      BY <2>2, <2>3, IsSeq
  <2>5. P = f
    BY <1>3 DEF PredictedMarkets, MarketsFromJoint
  <2>6. f \in Seq(ToSet(f)) /\ ToSet(f) \subseteq M
    <3> HIDE DEF f, M
    <3> QED
      BY <1>0, <2>4
  <2>7. \A m \in M : MarketIs(m, case)
    BY <1>2
  <2> HIDE DEF f, M, P
  <2>8. \A m \in ToSet(P) : MarketIs(m, case)
    BY <2>5, <2>6, <2>7
  <2> QED
    BY <2>5, <2>6, <2>8 DEF P
<1>4. CASE case.model = "M1"
  <2> DEFINE ca == Selection("moneyline", "a", None)
             cb == Selection("moneyline", "b", None)
             other == {x \in Markets : x[1] # "moneyline"}
             U == {Unsupported(m[1]) : m \in other}
             two == <<Market(ca, case.chance[ca]), Market(cb, case.chance[cb])>>
             M == {Market(bet, case.chance[bet]) : bet \in Predicted(case)} \cup U
  <2>1. ca \in Predicted(case) /\ cb \in Predicted(case)
    BY <1>4 DEF Predicted, Catalog, Sides
  <2>2. ASSUME NEW x \in other PROVE MarketIs(Unsupported(x[1]), case)
    <3>1. x[1] \in Families /\ Unsupported(x[1]).bet.family = x[1] /\ Unsupported(x[1]).available = FALSE
      BY DEF Unsupported, Selection, Families
    <3> QED
      BY <3>1 DEF MarketIs
  <2>3. IsFiniteSet(U)
    <3> DEFINE g == [m \in Markets |-> Unsupported(m[1])]
    <3>1. IsFiniteSet(other)
      BY MarketsFinite, FS_Subset
    <3>2. IsFiniteSet({g[m] : m \in other})
      <4> HIDE DEF g, other
      <4> QED
        BY <3>1, ImageFinite
    <3>3. {g[m] : m \in other} = U
      OBVIOUS
    <3> QED
      BY <3>2, <3>3
  <2>4. InOrder(U) \in Seq(U)
    <3> HIDE DEF U
    <3> QED
      BY <2>3, InOrderOf
  <2>5. two \in Seq(M)
    BY <2>1
  <2>6. InOrder(U) \in Seq(M)
    <3>1. U \subseteq M
      OBVIOUS
    <3> HIDE DEF U, M
    <3> QED
      BY <2>4, <3>1, SeqMonotonic
  <2>7. P = two \o InOrder(U)
    BY <1>4 DEF PredictedMarkets, MoneylineMarkets
  <2>8. P \in Seq(M)
    <3> HIDE DEF two, U, M, P
    <3> QED
      BY <2>5, <2>6, <2>7, ConcatProperties
  <2>9. \A m \in M : MarketIs(m, case)
    <3> HIDE DEF other
    <3> QED
      BY <1>2, <2>2
  <2> HIDE DEF M, P
  <2>10. P \in Seq(ToSet(P)) /\ ToSet(P) \subseteq M
    BY <1>0, <2>8
  <2>11. \A m \in ToSet(P) : MarketIs(m, case)
    BY <2>9, <2>10
  <2> QED
    BY <2>10, <2>11 DEF P
<1>5. CASE case.model \notin {"M1", "M2"}
  <2>1. P = <<>> /\ ToSet(<<>>) = {}
    BY <1>5 DEF PredictedMarkets, ToSet
  <2> QED
    BY <2>1
<1> QED
  BY <1>3, <1>4, <1>5

(* A sequence is one of its own elements.                                  *)
LEMMA InItself ==
  ASSUME NEW S, NEW s \in Seq(S)
  PROVE  s \in Seq(ToSet(s)) /\ ToSet(s) \subseteq S
<1>1. s \in [1 .. Len(s) -> ToSet(s)] /\ Len(s) \in Nat
  BY DEF ToSet
<1> QED
  BY <1>1, IsSeq DEF ToSet

(* A function with the places of a sequence is a sequence as long.         *)
LEMMA Mapped ==
  ASSUME NEW S, NEW s \in Seq(S), NEW t, DOMAIN t = DOMAIN s, t = [i \in DOMAIN t |-> t[i]]
  PROVE  t \in Seq(ToSet(t)) /\ Len(t) = Len(s)
<1>1. DOMAIN s = 1 .. Len(s) /\ Len(s) \in Nat
  OBVIOUS
<1>2. t \in [1 .. Len(s) -> ToSet(t)]
  BY <1>1 DEF ToSet
<1> QED
  BY <1>1, <1>2, IsSeq

(* The elements that pass a test and those that do not are all of them.    *)
LEMMA OnlyAndRest ==
  ASSUME NEW S, NEW s \in Seq(S), NEW T, NEW R, \A x \in S : x \in T <=> x \notin R
  PROVE  Len(Only(s, T)) + Len(Only(s, R)) = Len(s)
<1> DEFINE one == [x \in S |-> 1]
           in(Q) == [x \in S |-> IF x \in Q THEN one[x] ELSE 0]
           t == [i \in DOMAIN s |-> in(T)[s[i]]]
           r == [i \in DOMAIN s |-> in(R)[s[i]]]
<1>1. one \in [S -> Int] /\ DOMAIN s = 1 .. Len(s) /\ Len(s) \in Nat /\ \A i \in DOMAIN s : s[i] \in S
  OBVIOUS
<1>2. ASSUME NEW Q PROVE Len(Only(s, Q)) = SumOf(s, in(Q))
  <2>1. Only(s, Q) \in Seq(S) /\ SumOf(Only(s, Q), one) = SumOf(s, in(Q))
    <3> HIDE DEF one, t, r
    <3>1. /\ Only(s, Q) \in Seq(S)
          /\ \A g \in [S -> Int] : SumOf(Only(s, Q), g) = SumOf(s, [x \in S |-> IF x \in Q THEN g[x] ELSE 0])
      BY OnlyOf
    <3> QED
      BY <1>1, <3>1
  <2> QED
    BY <2>1, LenIsSum
<1>3. IsFiniteSet(DOMAIN s)
  BY <1>1, FS_Interval
<1>4. t \in [DOMAIN s -> Int] /\ r \in [DOMAIN s -> Int]
  BY <1>1
<1>5. [i \in DOMAIN s |-> t[i] + r[i]] = [i \in DOMAIN s |-> one[s[i]]]
  BY <1>1
<1>6. Total([i \in DOMAIN s |-> t[i] + r[i]]) = Total(t) + Total(r)
  <2> HIDE DEF t, r
  <2> QED
    BY <1>3, <1>4, TotalAdds
<1>7. Len(s) = SumOf(s, one)
  BY LenIsSum
<1> HIDE DEF one
<1> QED
  BY <1>2, <1>5, <1>6, <1>7 DEF SumOf

(* What Kept leaves are the elements that pass.                            *)
QuoteFor(m, case) == IF m.bet \in DOMAIN case.book THEN case.book[m.bet] ELSE None

(* The markets whose price can be taken as of the cutoff.                  *)
PricedOf(S, cutoff, case) ==
  {m \in S : m.available /\ QuoteFor(m, case) # None /\ Refusal(QuoteFor(m, case), cutoff) = None}

(* _grade_bout parts the markets into those with such a price and the      *)
(* others.                                                                 *)
LEMMA GradedAs ==
  ASSUME NEW card, NEW b, NEW case, CaseType(case)
  PROVE  LET a == GradeBout(card, b, case)
             S == ToSet(PredictedMarkets(case))
             Y == PricedOf(S, card.start - 1, case)
             P == Only(PredictedMarkets(case), Y)
             T == Only(PredictedMarkets(case), S \ Y)
         IN /\ a.priced = [i \in DOMAIN P |-> PricedRow(P[i], QuoteFor(P[i], case), case, card.start)]
            /\ a.threshold = [i \in DOMAIN T |-> ThresholdRow(T[i], QuoteFor(T[i], case), card.start - 1)]
<1> DEFINE ms == PredictedMarkets(case)
           S == ToSet(ms)
           Y == PricedOf(S, card.start - 1, case)
           a == GradeBout(card, b, case)
           ok(m) == m.available /\ QuoteFor(m, case) # None /\ Refusal(QuoteFor(m, case), card.start - 1) = None
           P == FlattenSeq([i \in DOMAIN ms |-> IF ok(ms[i]) THEN <<ms[i]>> ELSE <<>>])
           T == FlattenSeq([i \in DOMAIN ms |-> IF ~ok(ms[i]) THEN <<ms[i]>> ELSE <<>>])
<1>1. ms \in Seq(S)
  BY MarketsAre
<1>2. a.priced = [i \in DOMAIN P |-> PricedRow(P[i], QuoteFor(P[i], case), case, card.start)]
  BY DEF GradeBout, Kept, QuoteFor, ReportCutoff
<1>3. a.threshold = [i \in DOMAIN T |-> ThresholdRow(T[i], QuoteFor(T[i], case), card.start - 1)]
  BY DEF GradeBout, Kept, QuoteFor, ReportCutoff
<1>4. ASSUME NEW i \in DOMAIN ms PROVE ms[i] \in S /\ (ok(ms[i]) <=> ms[i] \in Y)
  BY DEF PricedOf, ToSet
<1>5. P = Only(ms, Y)
  <2> HIDE DEF ms, S, Y, ok
  <2> QED
    BY <1>4 DEF Only
<1>6. T = Only(ms, S \ Y)
  <2> HIDE DEF ms, S, Y, ok
  <2> QED
    BY <1>4 DEF Only
<1> HIDE DEF P, T
<1> QED
  BY <1>2, <1>3, <1>5, <1>6

(* An attempt: its markets, those with a price and those without.          *)
PricedFrom(row, M, card, case) == \E m \in M :
  /\ m.available /\ m.bet \in DOMAIN case.book /\ case.book[m.bet] # None
  /\ Refusal(case.book[m.bet], card.start - 1) = None
  /\ row = PricedRow(m, case.book[m.bet], case, card.start)

(* A row that is left at its threshold, and the market it is of.           *)
ThresholdFrom(row, M, card, case) == \E m \in M :
  /\ m.available /\ QuoteFor(m, case) # None => Refusal(QuoteFor(m, case), card.start - 1) # None
  /\ row = ThresholdRow(m, QuoteFor(m, case), card.start - 1)

(* What is known of the attempt at a bout, for the case it was graded      *)
(* from.                                                                   *)
AttemptOf(a, card, b, case) ==
  /\ a = GradeBout(card, b, case)
  /\ a.markets = PredictedMarkets(case)
  /\ a.markets \in Seq(ToSet(a.markets)) /\ \A m \in ToSet(a.markets) : MarketIs(m, case)
  /\ a.priced \in Seq(ToSet(a.priced)) /\ a.threshold \in Seq(ToSet(a.threshold))
  /\ Len(a.priced) + Len(a.threshold) = Len(a.markets)
  /\ \A row \in ToSet(a.priced) : PricedFrom(row, ToSet(a.markets), card, case)
  /\ \A row \in ToSet(a.threshold) : ThresholdFrom(row, ToSet(a.markets), card, case)

(* _grade_bout makes such an attempt of every case: no market is lost,     *)
(* none is priced twice.                                                   *)
LEMMA AttemptIs ==
  ASSUME NEW card, NEW b, NEW case, CaseType(case)
  PROVE  AttemptOf(GradeBout(card, b, case), card, b, case)
<1> DEFINE a == GradeBout(card, b, case)
           ms == PredictedMarkets(case)
           S == ToSet(ms)
           Y == PricedOf(S, card.start - 1, case)
           P == Only(ms, Y)
           T == Only(ms, S \ Y)
           p(m) == PricedRow(m, QuoteFor(m, case), case, card.start)
           t(m) == ThresholdRow(m, QuoteFor(m, case), card.start - 1)
<1>1. ms \in Seq(S) /\ \A m \in S : MarketIs(m, case)
  BY MarketsAre
<1>2. a.priced = [i \in DOMAIN P |-> p(P[i])] /\ a.threshold = [i \in DOMAIN T |-> t(T[i])]
  BY GradedAs
<1>3. a.markets = ms
  BY DEF GradeBout
<1>4. P \in Seq(S) /\ ToSet(P) = S \cap Y /\ T \in Seq(S) /\ ToSet(T) = S \cap (S \ Y)
  <2> HIDE DEF S, Y, ms
  <2> QED
    BY <1>1, OnlyOf DEF S
<1>5. Len(P) + Len(T) = Len(ms)
  <2>1. \A x \in S : x \in Y <=> x \notin S \ Y
    BY DEF PricedOf
  <2> HIDE DEF S, Y, ms
  <2> QED
    BY <1>1, <2>1, OnlyAndRest
<1>6. a.priced \in Seq(ToSet(a.priced)) /\ Len(a.priced) = Len(P)
  <2>1. DOMAIN a.priced = DOMAIN P /\ a.priced = [i \in DOMAIN a.priced |-> a.priced[i]]
    <3> HIDE DEF P, p, a
    <3> QED
      BY <1>2
  <2> HIDE DEF P, S, a
  <2> QED
    BY <1>4, <2>1, Mapped
<1>7. a.threshold \in Seq(ToSet(a.threshold)) /\ Len(a.threshold) = Len(T)
  <2>1. DOMAIN a.threshold = DOMAIN T /\ a.threshold = [i \in DOMAIN a.threshold |-> a.threshold[i]]
    <3> HIDE DEF T, t, a
    <3> QED
      BY <1>2
  <2> HIDE DEF T, S, a
  <2> QED
    BY <1>4, <2>1, Mapped
<1>8. ASSUME NEW row \in ToSet(a.priced) PROVE PricedFrom(row, S, card, case)
  <2>1. PICK i \in DOMAIN P : row = p(P[i])
    <3> HIDE DEF P, p, a
    <3> QED
      BY <1>2 DEF ToSet
  <2>2. P[i] \in Y
    <3> HIDE DEF P, Y, S
    <3> QED
      BY <1>4 DEF ToSet
  <2> HIDE DEF P
  <2> QED
    BY <2>1, <2>2 DEF PricedOf, QuoteFor, PricedFrom
<1>9. ASSUME NEW row \in ToSet(a.threshold) PROVE ThresholdFrom(row, S, card, case)
  <2>1. PICK i \in DOMAIN T : row = t(T[i])
    <3> HIDE DEF T, t, a
    <3> QED
      BY <1>2 DEF ToSet
  <2>2. T[i] \in S \ Y
    <3> HIDE DEF T, Y, S
    <3> QED
      BY <1>4 DEF ToSet
  <2> HIDE DEF T
  <2> QED
    BY <2>1, <2>2 DEF PricedOf, ThresholdFrom
<1>10. ToSet(a.markets) = S
  BY <1>3
<1> HIDE DEF S, a, ms, Y, P, T
<1>11. Len(a.priced) + Len(a.threshold) = Len(a.markets)
  BY <1>3, <1>5, <1>6, <1>7
<1>12. a.markets = PredictedMarkets(case) /\ a.markets \in Seq(S)
  BY <1>1, <1>3 DEF ms
<1> QED
  BY <1>1, <1>6, <1>7, <1>8, <1>9, <1>10, <1>11, <1>12 DEF AttemptOf, a

(* Each bout is attempted once.                                            *)
Entries ==
  UNION {{<<Programme[i], b>> : b \in ToSet(Programme[i].bouts)} : i \in DOMAIN Programme}

(* The bouts of the programme, each once.                                  *)
LEMMA ToAttemptOnce ==
  /\ ToAttempt \in Seq(Entries)
  /\ \A i, j \in DOMAIN ToAttempt : ToAttempt[i][2] = ToAttempt[j][2] => i = j
<1> DEFINE of(i) == [j \in DOMAIN Programme[i].bouts |-> <<Programme[i], Programme[i].bouts[j]>>]
           ss == [i \in DOMAIN Programme |-> of(i)]
<1>0. DOMAIN Programme = 1 .. Len(Programme) /\ Len(Programme) \in Nat
  BY ReportAssumption
<1>1. ASSUME NEW i \in DOMAIN Programme
      PROVE  of(i) \in Seq(Entries) /\ OneToOne(of(i))
             /\ ToSet(of(i)) = {<<Programme[i], b>> : b \in ToSet(Programme[i].bouts)}
  <2> DEFINE bs == Programme[i].bouts
  <2>1. bs \in Seq(DOMAIN CasesOf) /\ \A j, k \in DOMAIN bs : bs[j] = bs[k] => j = k
    BY ReportAssumption
  <2>2. DOMAIN bs = 1 .. Len(bs) /\ Len(bs) \in Nat
    BY <2>1, LenProperties
  <2>3. of(i) \in [1 .. Len(bs) -> Entries]
    <3>1. \A j \in DOMAIN bs : <<Programme[i], bs[j]>> \in Entries
      BY DEF Entries, ToSet
    <3> QED
      BY <2>2, <3>1
  <2>4. of(i) \in Seq(Entries)
    <3> HIDE DEF of, bs
    <3> QED
      BY <2>2, <2>3, IsSeq
  <2>5. OneToOne(of(i))
    BY <2>1 DEF OneToOne
  <2>6. ToSet(of(i)) = {<<Programme[i], b>> : b \in ToSet(bs)}
    BY DEF ToSet
  <2> QED
    BY <2>4, <2>5, <2>6
<1>2. ss \in Seq(Seq(Entries)) /\ DOMAIN ss = DOMAIN Programme
  <2>1. ss \in [1 .. Len(Programme) -> Seq(Entries)]
    BY <1>0, <1>1
  <2> HIDE DEF ss
  <2> QED
    BY <1>0, <2>1, IsSeq
<1>3. ASSUME NEW i \in DOMAIN ss PROVE OneToOne(ss[i])
  BY <1>1, <1>2
<1>4. ASSUME NEW i \in DOMAIN ss, NEW j \in DOMAIN ss, i # j PROVE ToSet(ss[i]) \cap ToSet(ss[j]) = {}
  <2>1. ToSet(Programme[i].bouts) \cap ToSet(Programme[j].bouts) = {}
    BY <1>2, <1>4, ReportAssumption
  <2>2. ss[i] = of(i) /\ ss[j] = of(j)
    OBVIOUS
  <2>3. ToSet(ss[i]) = {<<Programme[i], b>> : b \in ToSet(Programme[i].bouts)}
        /\ ToSet(ss[j]) = {<<Programme[j], b>> : b \in ToSet(Programme[j].bouts)}
    BY <1>1, <1>2, <2>2
  <2> HIDE DEF ss
  <2> QED
    BY <2>1, <2>3
<1>5. ToAttempt = FlattenSeq(ss)
  BY DEF ToAttempt
<1>6. ToAttempt \in Seq(Entries) /\ OneToOne(ToAttempt)
  <2> HIDE DEF ss
  <2> QED
    BY <1>2, <1>3, <1>4, <1>5, FlattenMembers, FlattenOneToOne
<1>7. ASSUME NEW x \in Entries, NEW y \in Entries, x[2] = y[2] PROVE x = y
  <2>1. PICK i \in DOMAIN Programme : x = <<Programme[i], x[2]>> /\ x[2] \in ToSet(Programme[i].bouts)
    BY DEF Entries
  <2>2. PICK j \in DOMAIN Programme : y = <<Programme[j], y[2]>> /\ y[2] \in ToSet(Programme[j].bouts)
    BY DEF Entries
  <2>3. x[2] = y[2]
    BY <1>7
  <2>4. i = j
    BY <2>1, <2>2, <2>3, ReportAssumption
  <2> QED
    BY <2>1, <2>2, <2>3, <2>4
<1>8. ASSUME NEW i \in DOMAIN ToAttempt, NEW j \in DOMAIN ToAttempt, ToAttempt[i][2] = ToAttempt[j][2]
      PROVE  i = j
  <2>1. ToAttempt[i] \in Entries /\ ToAttempt[j] \in Entries
    BY <1>6
  <2>2. ToAttempt[i] = ToAttempt[j]
    BY <1>7, <1>8, <2>1
  <2> QED
    BY <1>6, <2>2 DEF OneToOne
<1> QED
  BY <1>6, <1>8

-----------------------------------------------------------------------------
(***************************************************************************)
(* The inductive invariant of the backtest and of its replay.              *)
(***************************************************************************)
(* An attempt is that of its place in the programme.                       *)
TriedAs(a, i) ==
  \E case \in CasesOf[ToAttempt[i][2]] : a = GradeBout(ToAttempt[i][1], ToAttempt[i][2], case)

(* The attempts so far are those of the first bouts, in their order.       *)
ReportInv ==
  /\ tried \in Seq(ToSet(tried)) /\ Len(tried) <= Len(ToAttempt)
  /\ \A i \in DOMAIN tried : TriedAs(tried[i], i)

(* The candidates that the replay reads.                                   *)
CandidatePool == FlattenSeq([i \in DOMAIN tried |-> CandidatesFrom(tried[i])])

(* The invariant of the replay: its report is of the complete attempts.    *)
ReplayInv ==
  /\ ReportInv
  /\ report # None => Complete /\ pool = CandidatePool /\ report = Report(pool)

(* The next bout is attempted, and no other.                               *)
LEMMA AttemptBoutKeeps == ReportInv /\ AttemptBout => ReportInv'
<1> SUFFICES ASSUME ReportInv, AttemptBout PROVE ReportInv'
  OBVIOUS
<1> DEFINE n == Len(tried)
<1>1. n \in Nat /\ DOMAIN tried = 1 .. n
  BY DEF ReportInv
<1>2. PICK case \in CasesOf[ToAttempt[n + 1][2]] :
        tried' = Append(tried, GradeBout(ToAttempt[n + 1][1], ToAttempt[n + 1][2], case))
  BY DEF AttemptBout
<1> DEFINE a == GradeBout(ToAttempt[n + 1][1], ToAttempt[n + 1][2], case)
<1>3. /\ DOMAIN tried' = 1 .. n + 1 /\ Len(tried') = n + 1
      /\ \A i \in 1 .. n : tried'[i] = tried[i]
      /\ tried'[n + 1] = a
      /\ tried' \in [1 .. n + 1 -> ToSet(tried) \cup {a}]
  <2>1. tried' = Append(tried, a)
    BY <1>2
  <2>2. tried \in Seq(ToSet(tried))
    BY DEF ReportInv
  <2>3. \A i \in 1 .. n : tried[i] \in ToSet(tried)
    BY <1>1 DEF ToSet
  <2> DEFINE S == ToSet(tried) \cup {a}
  <2>4. a \in S /\ tried \in Seq(S)
    <3>1. ToSet(tried) \subseteq S
      OBVIOUS
    <3> HIDE DEF a, S
    <3>2. tried \in Seq(S)
      BY <2>2, <3>1, SeqMonotonic
    <3> QED
      BY <3>2 DEF S
  <2> HIDE DEF a, S
  <2>5. tried' \in Seq(S) /\ Len(tried') = n + 1 /\ tried'[n + 1] = a /\ \A i \in 1 .. n : tried'[i] = tried[i]
    BY <2>1, <2>4, AppendProperties
  <2>6. DOMAIN tried' = 1 .. n + 1 /\ tried' \in [1 .. n + 1 -> S]
    BY <2>5, LenProperties
  <2> QED
    BY <2>5, <2>6 DEF S
<1>4. tried' \in [1 .. n + 1 -> ToSet(tried')]
  <2> HIDE DEF a, n
  <2>1. \A i \in 1 .. n + 1 : tried'[i] \in ToSet(tried')
    BY <1>3 DEF ToSet
  <2> QED
    BY <1>3, <2>1
<1>5. tried' \in Seq(ToSet(tried'))
  <2> HIDE DEF n
  <2> QED
    BY <1>1, <1>4, IsSeq
<1>6. Len(tried') <= Len(ToAttempt)'
  <2>1. Len(ToAttempt) \in Nat /\ n < Len(ToAttempt)
    BY ToAttemptOnce, LenProperties DEF AttemptBout
  <2>2. Len(ToAttempt)' = Len(ToAttempt)
    BY DEF ToAttempt
  <2> QED
    BY <1>1, <1>3, <2>1, <2>2
<1>7. ASSUME NEW i \in DOMAIN tried' PROVE TriedAs(tried'[i], i)
  <2>1. CASE i = n + 1
    <3> HIDE DEF a
    <3>1. tried'[i] = a
      BY <1>3, <2>1
    <3> QED
      BY <2>1, <3>1 DEF TriedAs, a
  <2>2. CASE i # n + 1
    <3>1. i \in DOMAIN tried /\ tried'[i] = tried[i]
      <4> HIDE DEF a
      <4> QED
        BY <1>1, <1>3, <2>2
    <3> QED
      BY <3>1 DEF ReportInv
  <2> QED
    BY <2>1, <2>2
<1>8. ToSet(tried)' = ToSet(tried')
  OBVIOUS
<1>9. ASSUME NEW i \in DOMAIN tried' PROVE TriedAs(tried[i], i)'
  BY <1>7 DEF TriedAs, ToAttempt
<1> HIDE DEF n
<1> QED
  BY <1>5, <1>6, <1>8, <1>9 DEF ReportInv

(* What leaves the attempts alone keeps that.                              *)
LEMMA ReportKept == ReportInv /\ UNCHANGED tried => ReportInv'
BY DEF ReportInv, TriedAs, ToAttempt

(* The invariant holds of the backtest with its replay.                    *)
LEMMA ReplayInvariant == ReplaySpec => []ReplayInv
<1>1. ReportInit /\ RecommendInit => ReplayInv
  <2>1. Len(ToAttempt) \in Nat
    BY ToAttemptOnce, LenProperties
  <2>2. <<>> \in Seq(ToSet(<<>>)) /\ Len(<<>>) = 0 /\ DOMAIN <<>> = {}
    OBVIOUS
  <2> QED
    BY <2>1, <2>2 DEF ReportInit, RecommendInit, ReplayInv, ReportInv
<1>2. ReplayInv /\ [ReplayNext]_<<recommendVars, reportVars>> => ReplayInv'
  <2> SUFFICES ASSUME ReplayInv, [ReplayNext]_<<recommendVars, reportVars>> PROVE ReplayInv'
    OBVIOUS
  <2>0. ASSUME UNCHANGED tried PROVE Complete' = Complete /\ CandidatePool' = CandidatePool
    BY <2>0 DEF Complete, CandidatePool, ToAttempt
  <2>1. CASE AttemptBout /\ UNCHANGED recommendVars
    <3>1. ReportInv'
      BY <2>1, AttemptBoutKeeps DEF ReplayInv
    <3>2. report = None
      <4>1. Len(tried) \in Nat /\ Len(ToAttempt) \in Nat
        BY ToAttemptOnce, LenProperties DEF ReplayInv, ReportInv
      <4> QED
        BY <2>1, <4>1 DEF ReplayInv, AttemptBout, Complete
    <3>3. report' = None
      BY <2>1, <3>2 DEF recommendVars
    <3> QED
      BY <3>1, <3>3 DEF ReplayInv
  <2>2. CASE DrawCards /\ UNCHANGED recommendVars
    <3>1. UNCHANGED <<tried, pool, report>>
      BY <2>2 DEF DrawCards, recommendVars
    <3>2. ReportInv'
      BY <3>1, ReportKept DEF ReplayInv
    <3>3. Report(pool)' = Report(pool')
      OBVIOUS
    <3> QED
      BY <2>0, <3>1, <3>2, <3>3 DEF ReplayInv
  <2>3. CASE Replay
    <3>1. UNCHANGED tried /\ Complete /\ pool' = CandidatePool /\ report' = Report(pool')
      BY <2>3 DEF Replay, reportVars, CandidatePool
    <3>2. ReportInv'
      BY <3>1, ReportKept DEF ReplayInv
    <3>3. Report(pool)' = Report(pool')
      OBVIOUS
    <3> QED
      BY <2>0, <3>1, <3>2, <3>3 DEF ReplayInv
  <2>4. CASE UNCHANGED <<recommendVars, reportVars>>
    <3>1. UNCHANGED <<tried, pool, report>>
      BY <2>4 DEF reportVars, recommendVars
    <3>2. ReportInv'
      BY <3>1, ReportKept DEF ReplayInv
    <3>3. Report(pool)' = Report(pool')
      OBVIOUS
    <3> QED
      BY <2>0, <3>1, <3>2, <3>3 DEF ReplayInv
  <2> QED
    BY <2>1, <2>2, <2>3, <2>4 DEF ReplayNext, ReportNext
<1> QED
  BY <1>1, <1>2, PTL DEF ReplaySpec

(* Every attempt is one of a case that the programme's bout may have.      *)
LEMMA TriedIs ==
  ASSUME ReportInv, NEW i \in DOMAIN tried
  PROVE  /\ i \in DOMAIN ToAttempt
         /\ \E case : CaseType(case) /\ AttemptOf(tried[i], ToAttempt[i][1], ToAttempt[i][2], case)
<1>1. DOMAIN tried = 1 .. Len(tried) /\ DOMAIN ToAttempt = 1 .. Len(ToAttempt)
      /\ Len(tried) \in Nat /\ Len(ToAttempt) \in Nat /\ Len(tried) <= Len(ToAttempt)
  BY ToAttemptOnce, LenProperties DEF ReportInv
<1>2. i \in DOMAIN ToAttempt
  BY <1>1
<1>3. PICK case \in CasesOf[ToAttempt[i][2]] : tried[i] = GradeBout(ToAttempt[i][1], ToAttempt[i][2], case)
  BY DEF ReportInv, TriedAs
<1>4. ToAttempt[i] \in Entries
  BY <1>2, ToAttemptOnce
<1>5. ToAttempt[i][2] \in DOMAIN CasesOf
  <2>1. PICK k \in DOMAIN Programme : ToAttempt[i][2] \in ToSet(Programme[k].bouts)
    BY <1>4 DEF Entries
  <2>2. Programme[k].bouts \in Seq(DOMAIN CasesOf)
    BY ReportAssumption
  <2> QED
    BY <2>1, <2>2 DEF ToSet
<1>6. CaseType(case)
  BY <1>3, <1>5, ReportAssumption
<1> QED
  BY <1>2, <1>3, <1>6, AttemptIs

(* A bout is attempted once.                                               *)
LEMMA TriedOnce ==
  ASSUME ReportInv, NEW i \in DOMAIN tried, NEW j \in DOMAIN tried, tried[i].bout = tried[j].bout
  PROVE  i = j
<1>1. i \in DOMAIN ToAttempt /\ j \in DOMAIN ToAttempt
  BY TriedIs
<1>2. tried[i].bout = ToAttempt[i][2] /\ tried[j].bout = ToAttempt[j][2]
  <2>1. ASSUME NEW k \in DOMAIN tried PROVE tried[k].bout = ToAttempt[k][2]
    <3>1. PICK case : tried[k] = GradeBout(ToAttempt[k][1], ToAttempt[k][2], case)
      BY TriedIs DEF AttemptOf
    <3> QED
      BY <3>1 DEF GradeBout
  <2> QED
    BY <2>1
<1> QED
  BY <1>1, <1>2, ToAttemptOnce

(* Where the elements of a mapped and flattened sequence come from.        *)
LEMMA KeptAre ==
  ASSUME NEW S, NEW s \in Seq(S), NEW T
  PROVE  \A x \in ToSet(Only(s, T)) : x \in ToSet(s) /\ x \in T
BY OnlyOf

(* A candidate of the replay is one of an attempt's markets.               *)
CandidateFrom(c, a) ==
  \E m \in ToSet(a.markets) : m.available /\ Constructible(c) /\ c = CandidateOf(a, m)

(* What the replay makes of an attempt is made of its markets.             *)
LEMMA CandidatesAre ==
  ASSUME NEW a, a.markets \in Seq(ToSet(a.markets))
  PROVE  /\ CandidatesFrom(a) \in Seq(ToSet(CandidatesFrom(a)))
         /\ \A c \in ToSet(CandidatesFrom(a)) : CandidateFrom(c, a)
<1> DEFINE ms == a.markets
           S == ToSet(ms)
           ok(m) == m.available /\ Constructible(CandidateOf(a, m))
           T == {m \in S : ok(m)}
           M == FlattenSeq([i \in DOMAIN ms |-> IF ok(ms[i]) THEN <<ms[i]>> ELSE <<>>])
           C == [i \in DOMAIN M |-> CandidateOf(a, M[i])]
<1>1. CandidatesFrom(a) = C
  BY DEF CandidatesFrom, Kept
<1>2. M = Only(ms, T)
  <2>1. ASSUME NEW i \in DOMAIN ms PROVE ok(ms[i]) <=> ms[i] \in T
    BY DEF ToSet
  <2> HIDE DEF ms, T, ok
  <2> QED
    BY <2>1 DEF Only
<1>3. M \in Seq(S) /\ \A m \in ToSet(M) : m \in S /\ m \in T
  <2>1. ms \in Seq(S)
    OBVIOUS
  <2> HIDE DEF ms, S, T, M, ok, C
  <2>2. Only(ms, T) \in Seq(S) /\ ToSet(Only(ms, T)) = ToSet(ms) \cap T
    BY <2>1, OnlyOf
  <2>3. ToSet(ms) = S
    BY DEF S
  <2> QED
    BY <1>2, <2>2, <2>3
<1> HIDE DEF M
<1>4. C \in Seq(ToSet(C))
  <2>1. DOMAIN C = DOMAIN M /\ C = [i \in DOMAIN C |-> C[i]]
    OBVIOUS
  <2> HIDE DEF C
  <2> QED
    BY <1>3, <2>1, Mapped
<1>5. ASSUME NEW c \in ToSet(C) PROVE CandidateFrom(c, a)
  <2>1. PICK i \in DOMAIN M : c = CandidateOf(a, M[i])
    BY DEF ToSet
  <2>2. M[i] \in S /\ M[i] \in T
    BY <1>3 DEF ToSet
  <2> QED
    BY <2>1, <2>2 DEF CandidateFrom
<1> HIDE DEF C
<1> QED
  BY <1>1, <1>4, <1>5

(* What the replay reads is made of the attempts' markets.                 *)
LEMMA PoolIs ==
  ASSUME ReportInv
  PROVE  /\ CandidatePool \in Seq(ToSet(CandidatePool))
         /\ \A c \in ToSet(CandidatePool) : \E i \in DOMAIN tried : CandidateFrom(c, tried[i])
<1> DEFINE ss == [i \in DOMAIN tried |-> CandidatesFrom(tried[i])]
           S == UNION {ToSet(CandidatesFrom(tried[i])) : i \in DOMAIN tried}
<1>1. DOMAIN tried = 1 .. Len(tried) /\ Len(tried) \in Nat
  BY DEF ReportInv
<1>2. ASSUME NEW i \in DOMAIN tried
      PROVE  /\ CandidatesFrom(tried[i]) \in Seq(S)
             /\ \A c \in ToSet(CandidatesFrom(tried[i])) : CandidateFrom(c, tried[i])
  <2>1. tried[i].markets \in Seq(ToSet(tried[i].markets))
    BY TriedIs DEF AttemptOf
  <2>2. ToSet(CandidatesFrom(tried[i])) \subseteq S
    OBVIOUS
  <2> HIDE DEF S
  <2> QED
    BY <2>1, <2>2, CandidatesAre, SeqMonotonic
<1>3. ss \in Seq(Seq(S)) /\ DOMAIN ss = DOMAIN tried
  <2>1. ss \in [1 .. Len(tried) -> Seq(S)]
    <3> HIDE DEF S
    <3> QED
      BY <1>1, <1>2
  <2> HIDE DEF ss, S
  <2> QED
    BY <1>1, <2>1, IsSeq
<1>4. CandidatePool \in Seq(S) /\ ToSet(CandidatePool) = UNION {ToSet(ss[i]) : i \in DOMAIN ss}
  <2>1. CandidatePool = FlattenSeq(ss)
    BY DEF CandidatePool
  <2> HIDE DEF ss, S
  <2> QED
    BY <1>3, <2>1, FlattenMembers
<1>5. ASSUME NEW c \in ToSet(CandidatePool) PROVE \E i \in DOMAIN tried : CandidateFrom(c, tried[i])
  <2>1. PICK i \in DOMAIN tried : c \in ToSet(ss[i])
    <3> HIDE DEF ss
    <3> QED
      BY <1>3, <1>4
  <2>2. ss[i] = CandidatesFrom(tried[i])
    OBVIOUS
  <2> HIDE DEF ss, S
  <2> QED
    BY <1>2, <2>1, <2>2
<1> HIDE DEF S
<1> QED
  BY <1>4, <1>5, InItself

(* What is confirmed came in as it is: a marked candidate passes no gate.  *)
LEMMA ConfirmedCameIn ==
  ASSUME NEW p, p \in Seq(ToSet(p)),
         \A c \in ToSet(p) : c = [k \in DOMAIN c |-> c[k]] /\ "defects" \in DOMAIN c,
         NEW x \in Report(p).confirmed
  PROVE  \E c \in ToSet(p) : x[1] = IdOf(c) /\ Classify(c) = "confirmed_value"
<1>1. PICK c \in Picks(p) : x[1] = IdOf(c)
  BY DEF Report, Ranked
<1>2. c \in Distinct(p) /\ Classify(c) = "confirmed_value"
  BY DEF Picks, Passed
<1>3. PICK id \in Ids(p) : c = OnePerSelection(p, id)
  BY <1>2 DEF Distinct
<1> DEFINE I == Indices(p, id)
           first == p[FirstOf(I)]
<1>4. DOMAIN p = 1 .. Len(p) /\ Len(p) \in Nat
  OBVIOUS
<1>5. I \in SUBSET Nat /\ I # {} /\ I \subseteq DOMAIN p
  BY <1>4 DEF Indices, Ids
<1>6. FirstOf(I) \in I
  <2> HIDE DEF I
  <2>1. \E i \in I : \A j \in I : i <= j
    BY <1>5, LeastNumber
  <2> QED
    BY <2>1 DEF FirstOf
<1>7. first \in ToSet(p)
  <2> HIDE DEF I
  <2> QED
    BY <1>5, <1>6 DEF ToSet
<1> HIDE DEF first
<1>8. c = first \/ c = [first EXCEPT !.defects = @ \cup {"ambiguous_selection"}]
  BY <1>3 DEF OnePerSelection, first
<1>9. c = first
  <2> SUFFICES ASSUME c = [first EXCEPT !.defects = @ \cup {"ambiguous_selection"}] PROVE FALSE
    BY <1>8
  <2>1. c.defects # {}
    BY <1>7
  <2> QED
    BY <1>2, <2>1 DEF Classify, PrePricePassed
<1> QED
  BY <1>1, <1>2, <1>7, <1>9

(* Quotients by a percentage are not smaller.                              *)
LEMMA ConditionalGrows ==
  ASSUME NEW p \in Nat, NEW v \in (0 .. 99) \cup {None}
  PROVE  Conditional(p, v) \in Int /\ Conditional(p, v) >= p
<1>1. CASE v = None
  BY <1>1 DEF Conditional
<1>2. CASE v # None
  <2> DEFINE x == 100 - v
             q == (100 * p) \div x
             r == (100 * p) % x
  <2>1. x \in 1 .. 100 /\ 100 * p \in Nat
    BY <1>2
  <2>2. q \in Int /\ r \in 0 .. x - 1 /\ 100 * p = x * q + r
    <3> DEFINE y == 100 * p
    <3> HIDE DEF x, y
    <3>1. y \div x \in Int /\ y % x \in 0 .. x - 1 /\ y = x * (y \div x) + (y % x)
      BY <2>1 DEF y
    <3> QED
      BY <3>1 DEF y
  <2>3. q >= p
    <3> SUFFICES ASSUME q <= p - 1 PROVE FALSE
      <4> HIDE DEF q, r, x
      <4> QED
        BY <2>2
    <3> HIDE DEF q, r, x
    <3>1. x * q <= x * (p - 1)
      BY <2>1, <2>2
    <3>2. x * (p - 1) = x * p - x
      BY <2>1
    <3>3. x * p <= 100 * p
      BY <2>1
    <3>4. x * q \in Int /\ x * p \in Int
      BY <2>1, <2>2
    <3> QED
      BY <2>1, <2>2, <3>1, <3>2, <3>3, <3>4
  <2> QED
    BY <1>2, <2>2, <2>3 DEF Conditional
<1> QED
  BY <1>1, <1>2

(* A price that is refused passes no gate of the policy.                   *)
LEMMA RefusedIsNoBet ==
  ASSUME NEW q, OfferType(q), NEW cutoff \in Int, NEW id, NEW c, c.quote = QuoteFromRow(q, cutoff, id),
         Refusal(q, cutoff) # None, Refusal(q, cutoff) # "ambiguous_odds"
  PROVE  ~QuotePassed(c)
<1> SUFFICES ASSUME QuotePassed(c) PROVE FALSE
  OBVIOUS
<1> DEFINE p == QuoteFromRow(q, cutoff, id)
<1>1. /\ p.observed = q.observed /\ p.cutoff = cutoff /\ p.flags = q.flags /\ p.lifecycle = q.lifecycle
      /\ p.decision = q.decision /\ p.kind = q.kind
  BY DEF QuoteFromRow, OfferType
<1> HIDE DEF p
<1>2. /\ q.observed <= cutoff /\ q.flags = {} /\ q.lifecycle \notin BlockingLifecycles
      /\ q.kind = "automatic" => q.decision # None /\ q.decision.eligible
  BY <1>1 DEF QuotePassed, DecidedForCutoff, p
<1>3. q.kind = "user_observed" => q.decision = None \/ q.decision.eligible
  BY DEF OfferType
<1>4. q.kind \in {"automatic", "user_observed"} /\ q.observed \in Int
  BY DEF OfferType
<1>5. q.decision = None \/ q.decision.eligible
  BY <1>2, <1>3, <1>4
<1>6. q.lifecycle # "replaced" /\ q.lifecycle # "stale"
  BY <1>2 DEF BlockingLifecycles
<1>7. ~(q.observed > cutoff)
  BY <1>2, <1>4
<1> QED
  BY <1>2, <1>5, <1>6, <1>7 DEF Refusal

(* The row that the replay reads for a selection is one with a price.      *)
LEMMA RowIs ==
  ASSUME NEW a, a.priced \in Seq(ToSet(a.priced)), a.threshold \in Seq(ToSet(a.threshold)),
         NEW bet, RowFor(a, bet) # None
  PROVE  \E row \in ToSet(a.priced) \cup ToSet(a.threshold) :
           RowFor(a, bet) = row /\ row.bet = bet /\ row.quote # None
<1> DEFINE P == a.priced
           H == a.threshold
           S == ToSet(P) \cup ToSet(H)
           ok(t) == t.bet = bet /\ t.quote # None
           T == {t \in S : ok(t)}
           RP == FlattenSeq([i \in DOMAIN P |-> IF ok(P[i]) THEN <<P[i]>> ELSE <<>>])
           RH == FlattenSeq([i \in DOMAIN H |-> IF ok(H[i]) THEN <<H[i]>> ELSE <<>>])
           R == RP \o RH
<1>1. RowFor(a, bet) = IF R = <<>> THEN None ELSE R[1]
  BY DEF RowFor, Kept
<1>2. RP = Only(P, T) /\ RH = Only(H, T)
  <2>1. \A i \in DOMAIN P : ok(P[i]) <=> P[i] \in T
    BY DEF ToSet
  <2>2. \A i \in DOMAIN H : ok(H[i]) <=> H[i] \in T
    BY DEF ToSet
  <2> HIDE DEF P, H, ok, T
  <2> QED
    BY <2>1, <2>2 DEF Only
<1>3. P \in Seq(S) /\ H \in Seq(S)
  BY SeqMonotonic
<1>4. RP \in Seq(S) /\ RH \in Seq(S) /\ ToSet(RP) \subseteq T /\ ToSet(RH) \subseteq T
  <2> HIDE DEF P, H, ok, T, RP, RH, S
  <2> QED
    BY <1>2, <1>3, OnlyOf
<1>5. R \in Seq(S) /\ ToSet(R) \subseteq T
  <2> HIDE DEF P, H, ok, T, RP, RH, S
  <2> QED
    BY <1>4, ConcatProperties, ConcatMembers
<1>6. R # <<>>
  BY <1>1
<1>7. R[1] \in T
  <2> HIDE DEF R, S, T
  <2>1. 1 \in DOMAIN R
    BY <1>5, <1>6, EmptySeq, LenProperties
  <2> QED
    BY <1>5, <2>1 DEF ToSet
<1> HIDE DEF R
<1> QED
  BY <1>1, <1>6, <1>7

(* A candidate whose price passes was a candidate of the backtest.         *)
LEMMA ActionableBefore ==
  ASSUME NEW card, NEW b, NEW case, CaseType(case), NEW a, AttemptOf(a, card, b, case),
         NEW m \in ToSet(a.markets), m.available, NEW odds \in Nat,
         m.p25 # None, Actionable(CandidateOf(a, m), odds), Constructible(CandidateOf(a, m))
  PROVE  IsCandidate(m, odds, case.model)
<1> DEFINE c == CandidateOf(a, m)
           p50 == Conditional(m.p50, m.void)
           p25 == IF case.model = "M2" THEN m.p25 ELSE Conditional(m.p25, m.void)
           target == EvTarget(m.bet.family)
           l == Least(p25, p50)
<1>1. c.p25 = m.p25 /\ c.p50 = p50 /\ c.bet = m.bet
  BY DEF CandidateOf
<1>2. m.bet \in Predicted(case) /\ m = Market(m.bet, case.chance[m.bet])
  BY DEF AttemptOf, MarketIs
<1>3. ChanceType(case.chance[m.bet])
  BY <1>2 DEF CaseType
<1>4. m.p50 \in Nat /\ m.p25 \in Nat /\ m.void \in (0 .. 99) \cup {None}
  BY <1>2, <1>3 DEF ChanceType, Market
<1>5. p50 \in Int /\ p50 >= m.p50 /\ Conditional(m.p25, m.void) \in Int /\ Conditional(m.p25, m.void) >= m.p25
  BY <1>4, ConditionalGrows
<1>6. p25 \in Int /\ p25 >= m.p25
  <2> HIDE DEF p50
  <2> QED
    BY <1>4, <1>5
<1> HIDE DEF c, p50, p25
<1>7. m.p25 <= p50
  BY <1>1, <1>4 DEF Constructible, c
<1>8. l \in Int /\ l >= m.p25
  BY <1>4, <1>5, <1>6, <1>7 DEF Least
<1>9. m.p25 * odds >= 10000 /\ p50 * odds >= 100 * target
  BY <1>1 DEF Actionable, c
<1> HIDE DEF l, target
<1>10. l * odds >= m.p25 * odds
  <2> DEFINE x == m.p25
  <2>1. x \in Int /\ l \in Int /\ l >= x
    BY <1>4, <1>8
  <2> HIDE DEF x
  <2>2. l * odds >= x * odds
    BY <2>1
  <2> QED
    BY <2>2 DEF x
<1>11. l * odds >= 10000
  <2>1. l * odds \in Int /\ m.p25 * odds \in Int
    BY <1>4, <1>8
  <2> QED
    BY <1>9, <1>10, <2>1
<1>12. Actionable([bet |-> m.bet, p50 |-> p50, p25 |-> l], odds)
  BY <1>9, <1>11 DEF Actionable, target
<1> QED
  BY <1>12 DEF IsCandidate, p50, p25, l

(* A selection that the replay confirms was priced by the backtest, as a   *)
(* candidate, at the odds the replay read.                                 *)
LEMMA PickWasPriced ==
  ASSUME NEW card, card.start \in Int, NEW b, NEW case, CaseType(case), NEW a, AttemptOf(a, card, b, case),
         NEW m \in ToSet(a.markets), m.available, Constructible(CandidateOf(a, m)),
         Classify(CandidateOf(a, m)) = "confirmed_value"
  PROVE  \E row \in ToSet(a.priced) :
           row.bet = m.bet /\ row.candidate /\ row.quote.odds = CandidateOf(a, m).quote.odds
<1> DEFINE c == CandidateOf(a, m)
           row == RowFor(a, m.bet)
           cutoff == card.start - 1
<1>1. c.p25 # None /\ c.quote # None /\ QuotePassed(c) /\ Actionable(c, c.quote.odds)
  <2>1. Classify(c) = "confirmed_value"
    OBVIOUS
  <2> HIDE DEF c
  <2> QED
    BY <2>1 DEF Classify, PrePricePassed, PricePassed
<1>2. c.p25 = m.p25
      /\ c.quote = IF row = None THEN None ELSE QuoteFromRow(row.quote, a.cutoff, <<a.bout, m.bet>>)
  BY DEF CandidateOf
<1>3. a.cutoff = cutoff
  BY DEF AttemptOf, GradeBout, ReportCutoff
<1> HIDE DEF c, row
<1>4. row # None /\ c.quote = QuoteFromRow(row.quote, cutoff, <<a.bout, m.bet>>)
  BY <1>1, <1>2, <1>3
<1>5. row \in ToSet(a.priced) \cup ToSet(a.threshold) /\ row.bet = m.bet /\ row.quote # None
  BY <1>4, RowIs DEF AttemptOf, row
<1>6. ASSUME row \in ToSet(a.threshold) PROVE FALSE
  <2>1. PICK n \in ToSet(a.markets) :
          /\ n.available /\ QuoteFor(n, case) # None => Refusal(QuoteFor(n, case), cutoff) # None
          /\ row = ThresholdRow(n, QuoteFor(n, case), cutoff)
    BY <1>6 DEF AttemptOf, ThresholdFrom
  <2> DEFINE q == QuoteFor(n, case)
  <2>2. n.available /\ q # None /\ Refusal(q, cutoff) # "ambiguous_odds" /\ row.quote = q
    BY <1>5, <2>1 DEF ThresholdRow
  <2>3. OfferType(q)
    BY <2>2 DEF QuoteFor, CaseType
  <2>4. Refusal(q, cutoff) # None /\ cutoff \in Int
    BY <2>1, <2>2
  <2> HIDE DEF q, cutoff
  <2> QED
    BY <1>1, <1>4, <2>2, <2>3, <2>4, RefusedIsNoBet
<1>7. row \in ToSet(a.priced)
  BY <1>5, <1>6
<1>8. PICK n \in ToSet(a.markets) :
        /\ n.available /\ n.bet \in DOMAIN case.book
        /\ row = PricedRow(n, case.book[n.bet], case, card.start)
  BY <1>7 DEF AttemptOf, PricedFrom
<1> DEFINE q == case.book[n.bet]
<1>9. row.bet = n.bet /\ row.quote = q /\ row.candidate = IsCandidate(n, q.odds, case.model)
  BY <1>8 DEF PricedRow
<1>10. n = m
  BY <1>5, <1>8, <1>9 DEF AttemptOf, MarketIs
<1>11. q.odds \in Nat
  BY <1>8 DEF CaseType, OfferType
<1>12. c.quote.odds = q.odds
  BY <1>4, <1>9 DEF QuoteFromRow
<1> HIDE DEF q
<1>13. IsCandidate(m, q.odds, case.model)
  BY <1>1, <1>2, <1>11, <1>12, ActionableBefore DEF c
<1> QED
  BY <1>5, <1>7, <1>9, <1>10, <1>12, <1>13 DEF c

(* A pick of the replay is a bet that the backtest placed (engine.py's     *)
(* join_quote against recommend/replay.py): whatever the programme and the *)
(* quotes, no price that was refused as of the cutoff becomes one.         *)
THEOREM PicksPriced == ReplaySpec => []PicksWerePriced
<1>1. ReplayInv => PicksWerePriced
  <2> SUFFICES ASSUME ReplayInv, report # None, NEW x \in report.confirmed
               PROVE  LET b == x[1][1]
                          bet == x[1][2]
                          c == CHOOSE d \in ToSet(pool) : IdOf(d) = x[1]
                      IN \E a \in ToSet(tried) : a.bout = b /\
                           \E row \in ToSet(a.priced) :
                             row.bet = bet /\ row.candidate /\ row.quote.odds = c.quote.odds
    BY DEF PicksWerePriced
  <2> DEFINE k == CHOOSE d \in ToSet(pool) : IdOf(d) = x[1]
  <2>1. ReportInv /\ pool \in Seq(ToSet(pool)) /\ x \in Report(pool).confirmed
        /\ \A d \in ToSet(pool) : \E i \in DOMAIN tried : CandidateFrom(d, tried[i])
    BY PoolIs DEF ReplayInv
  <2>2. \A d \in ToSet(pool) : d = [f \in DOMAIN d |-> d[f]] /\ "defects" \in DOMAIN d
    <3>1. ASSUME NEW a, NEW m PROVE CandidateOf(a, m) = [f \in DOMAIN CandidateOf(a, m) |-> CandidateOf(a, m)[f]]
                                    /\ "defects" \in DOMAIN CandidateOf(a, m)
      BY DEF CandidateOf
    <3>2. ASSUME NEW d \in ToSet(pool) PROVE \E a : \E m : d = CandidateOf(a, m)
      BY <2>1 DEF CandidateFrom
    <3> QED
      BY <3>1, <3>2
  <2>3. PICK c \in ToSet(pool) : x[1] = IdOf(c) /\ Classify(c) = "confirmed_value"
    BY <2>1, <2>2, ConfirmedCameIn
  <2>4. k \in ToSet(pool) /\ IdOf(k) = x[1]
    BY <2>3
  <2> HIDE DEF k
  <2>5. PICK i \in DOMAIN tried : CandidateFrom(c, tried[i])
    BY <2>1, <2>3
  <2>6. PICK j \in DOMAIN tried : CandidateFrom(k, tried[j])
    BY <2>1, <2>4
  <2>7. PICK m \in ToSet(tried[i].markets) :
          m.available /\ Constructible(c) /\ c = CandidateOf(tried[i], m)
    BY <2>5 DEF CandidateFrom
  <2>8. PICK n \in ToSet(tried[j].markets) :
          n.available /\ k = CandidateOf(tried[j], n)
    BY <2>6 DEF CandidateFrom
  <2>9. c.bout = tried[i].bout /\ c.bet = m.bet /\ k.bout = tried[j].bout /\ k.bet = n.bet
    BY <2>7, <2>8 DEF CandidateOf
  <2>10. x[1] = <<tried[i].bout, m.bet>> /\ tried[i].bout = tried[j].bout /\ m.bet = n.bet
    BY <2>3, <2>4, <2>9 DEF IdOf
  <2>11. i = j
    BY <2>1, <2>10, TriedOnce
  <2>12. k.quote = c.quote
    BY <2>7, <2>8, <2>10, <2>11 DEF CandidateOf
  <2>13. PICK case : CaseType(case) /\ AttemptOf(tried[i], ToAttempt[i][1], ToAttempt[i][2], case)
    BY <2>1, TriedIs
  <2>14. ToAttempt[i][1].start \in Int
    <3>1. ToAttempt[i] \in Entries
      BY <2>1, TriedIs, ToAttemptOnce
    <3>2. PICK e \in DOMAIN Programme : ToAttempt[i][1] = Programme[e]
      BY <3>1 DEF Entries
    <3> QED
      BY <3>2, ReportAssumption
  <2>15. \E row \in ToSet(tried[i].priced) :
           row.bet = m.bet /\ row.candidate /\ row.quote.odds = c.quote.odds
    BY <2>3, <2>7, <2>13, <2>14, PickWasPriced
  <2>16. tried[i] \in ToSet(tried)
    BY DEF ToSet
  <2>17. x[1][1] = tried[i].bout /\ x[1][2] = m.bet
    BY <2>10
  <2>18. \E a \in ToSet(tried) : a.bout = x[1][1] /\
           \E row \in ToSet(a.priced) : row.bet = x[1][2] /\ row.candidate /\ row.quote.odds = k.quote.odds
    <3>1. \E row \in ToSet(tried[i].priced) :
            row.bet = x[1][2] /\ row.candidate /\ row.quote.odds = k.quote.odds
      BY <2>12, <2>15, <2>17
    <3> QED
      BY <2>16, <2>17, <3>1
  <2> QED
    BY <2>18 DEF k
<1> QED
  BY <1>1, ReplayInvariant, PTL

-----------------------------------------------------------------------------
(***************************************************************************)
(* Sums by kind: what the breakdowns of a report rest on.                  *)
(***************************************************************************)
(* The places of a sequence, and what is at them.                          *)
LEMMA SeqIs ==
  ASSUME NEW S, NEW s \in Seq(S)
  PROVE  /\ DOMAIN s = 1 .. Len(s) /\ Len(s) \in Nat /\ IsFiniteSet(DOMAIN s)
         /\ \A i \in DOMAIN s : s[i] \in S
<1>1. DOMAIN s = 1 .. Len(s) /\ Len(s) \in Nat
  OBVIOUS
<1>2. IsFiniteSet(1 .. Len(s))
  BY <1>1, FS_Interval
<1> QED
  BY <1>1, <1>2

(* TotalByKinds, TotalLess and OnlyOf for what has a name.                  *)
AddsUpBy(D, f, K, kind) ==
  Total([k \in K |-> Total([x \in D |-> IF kind[x] = k THEN f[x] ELSE 0])]) = Total(f)

(* A total is the total of the totals by kind.                             *)
LEMMA AddsUp ==
  ASSUME NEW D, IsFiniteSet(D), NEW f \in [D -> Int], NEW K, IsFiniteSet(K), NEW kind \in [D -> K]
  PROVE  AddsUpBy(D, f, K, kind)
BY TotalByKinds DEF AddsUpBy

(* A total without one of its values.                                      *)
Splits(D, f, x) == Total(f) = f[x] + Total([y \in D \ {x} |-> f[y]])

(* Every value can be taken off.                                           *)
LEMMA SplitsOff ==
  ASSUME NEW D, IsFiniteSet(D), NEW f \in [D -> Int], NEW x \in D
  PROVE  Splits(D, f, x)
BY TotalLess DEF Splits

(* A sum over the elements that are in a set is one over all, with nothing *)
(* for the others.                                                         *)
PartOf(S, s, T) ==
  \A g \in [S -> Int] : SumOf(Only(s, T), g) = SumOf(s, [x \in S |-> IF x \in T THEN g[x] ELSE 0])

(* It is so for every set.                                                 *)
LEMMA PartIs ==
  ASSUME NEW S, NEW s \in Seq(S), NEW T
  PROVE  PartOf(S, s, T)
BY OnlyOf DEF PartOf

(* A sum over a sequence by the kinds of its elements.                     *)
SumsUpBy(S, s, g, K, kind) ==
  Total([k \in K |-> SumOf(Only(s, {x \in S : kind[x] = k}), g)]) = SumOf(s, g)

(* The sums by kind add up to the sum over all.                            *)
LEMMA SumByKinds ==
  ASSUME NEW S, NEW s \in Seq(S), NEW g \in [S -> Int], NEW K, IsFiniteSet(K), NEW kind \in [S -> K]
  PROVE  SumsUpBy(S, s, g, K, kind)
<1> DEFINE D == DOMAIN s
           f == [i \in D |-> g[s[i]]]
           c == [i \in D |-> kind[s[i]]]
<1>1. IsFiniteSet(D) /\ \A i \in D : s[i] \in S
  BY SeqIs
<1>2. f \in [D -> Int] /\ c \in [D -> K]
  BY <1>1
<1>3. Total([k \in K |-> Total([i \in D |-> IF c[i] = k THEN f[i] ELSE 0])]) = Total(f)
  <2> HIDE DEF D, f, c
  <2>1. AddsUpBy(D, f, K, c)
    BY <1>1, <1>2, AddsUp
  <2> QED
    BY <2>1 DEF AddsUpBy
<1>4. ASSUME NEW k \in K
      PROVE  Total([i \in D |-> IF c[i] = k THEN f[i] ELSE 0]) = SumOf(Only(s, {x \in S : kind[x] = k}), g)
  <2> DEFINE T == {x \in S : kind[x] = k}
  <2>1. \A h \in [S -> Int] : SumOf(Only(s, T), h) = SumOf(s, [x \in S |-> IF x \in T THEN h[x] ELSE 0])
    <3> HIDE DEF T
    <3>1. PartOf(S, s, T)
      BY PartIs
    <3> QED
      BY <3>1 DEF PartOf
  <2>2. [i \in D |-> IF c[i] = k THEN f[i] ELSE 0]
          = [i \in D |-> [x \in S |-> IF x \in T THEN g[x] ELSE 0][s[i]]]
    BY <1>1
  <2> HIDE DEF T, c, f
  <2>3. SumOf(Only(s, T), g) = SumOf(s, [x \in S |-> IF x \in T THEN g[x] ELSE 0])
    BY <2>1
  <2> QED
    BY <2>2, <2>3 DEF SumOf, T
<1>5. [k \in K |-> Total([i \in D |-> IF c[i] = k THEN f[i] ELSE 0])]
        = [k \in K |-> SumOf(Only(s, {x \in S : kind[x] = k}), g)]
  <2> HIDE DEF D, c, f
  <2> QED
    BY <1>4
<1> QED
  BY <1>3, <1>5 DEF SumOf, SumsUpBy

(* The lengths by kind add up to the length.                               *)
LEMMA LenByKinds ==
  ASSUME NEW S, NEW s \in Seq(S), NEW K, IsFiniteSet(K), NEW kind \in [S -> K]
  PROVE  Total([k \in K |-> Len(Only(s, {x \in S : kind[x] = k}))]) = Len(s)
<1> DEFINE one == [x \in S |-> 1]
<1>1. one \in [S -> Int]
  OBVIOUS
<1>2. ASSUME NEW t \in Seq(S) PROVE Len(t) = SumOf(t, one)
  BY LenIsSum
<1> HIDE DEF one
<1>3. ASSUME NEW k \in K
      PROVE  Len(Only(s, {x \in S : kind[x] = k})) = SumOf(Only(s, {x \in S : kind[x] = k}), one)
  <2> DEFINE T == {x \in S : kind[x] = k}
  <2> HIDE DEF T
  <2>1. Only(s, T) \in Seq(S)
    BY OnlyOf
  <2>2. Len(Only(s, T)) = SumOf(Only(s, T), one)
    BY <1>2, <2>1
  <2> QED
    BY <2>2 DEF T
<1>4. [k \in K |-> Len(Only(s, {x \in S : kind[x] = k}))]
        = [k \in K |-> SumOf(Only(s, {x \in S : kind[x] = k}), one)]
  BY <1>3
<1> QED
  <2>1. SumsUpBy(S, s, one, K, kind)
    BY <1>1, SumByKinds
  <2>2. Total([k \in K |-> SumOf(Only(s, {x \in S : kind[x] = k}), one)]) = SumOf(s, one)
    BY <2>1 DEF SumsUpBy
  <2>3. Len(s) = SumOf(s, one)
    BY <1>2
  <2> QED
    BY <1>4, <2>2, <2>3

(* The whole is as long as its parts are together.                         *)
LEMMA FlattenLen ==
  ASSUME NEW S, NEW ss \in Seq(Seq(S))
  PROVE  Len(FlattenSeq(ss)) = Total([i \in DOMAIN ss |-> Len(ss[i])])
<1> DEFINE one == [x \in S |-> 1]
<1>1. one \in [S -> Int]
  OBVIOUS
<1>2. ASSUME NEW t \in Seq(S) PROVE Len(t) = SumOf(t, one)
  BY LenIsSum
<1> HIDE DEF one
<1>3. FlattenSeq(ss) \in Seq(S)
  BY FlattenMembers
<1>4. SumOf(FlattenSeq(ss), one) = Total([i \in DOMAIN ss |-> SumOf(ss[i], one)])
  BY <1>1, SumFlatten
<1>5. \A i \in DOMAIN ss : ss[i] \in Seq(S)
  BY SeqIs
<1>6. [i \in DOMAIN ss |-> SumOf(ss[i], one)] = [i \in DOMAIN ss |-> Len(ss[i])]
  BY <1>2, <1>5
<1> QED
  BY <1>2, <1>3, <1>4, <1>6

(* A total over a part is one over all, with nothing for the others.       *)
LEMMA TotalOfPart ==
  ASSUME NEW D, IsFiniteSet(D), NEW f \in [D -> Int], NEW T \in SUBSET D
  PROVE  Total([x \in D |-> IF x \in T THEN f[x] ELSE 0]) = Total([x \in T |-> f[x]])
<1> DEFINE e(s) == [x \in s |-> IF x \in T THEN f[x] ELSE 0]
           d(s) == [x \in s \cap T |-> f[x]]
           F == {s \in SUBSET D : Total(e(s)) = Total(d(s))}
<1>1. ASSUME NEW s \in SUBSET D, \A t \in SUBSET s : t # s => t \in F PROVE s \in F
  <2>1. CASE s = {}
    <3>1. Total(e(s)) = 0 /\ Total(d(s)) = 0
      BY <2>1, TotalEmpty
    <3> QED
      BY <3>1
  <2>2. CASE s # {}
    <3> PICK p \in s : TRUE
      BY <2>2
    <3> DEFINE r == s \ {p}
    <3>1. IsFiniteSet(s) /\ IsFiniteSet(s \cap T) /\ r \in SUBSET s /\ r # s
      BY FS_Subset
    <3>2. Total(e(r)) = Total(d(r))
      BY <1>1, <3>1
    <3>3. e(s) \in [s -> Int] /\ d(s) \in [s \cap T -> Int] /\ [y \in s \ {p} |-> e(s)[y]] = e(r)
      OBVIOUS
    <3>4. Total(e(s)) = e(s)[p] + Total(e(r))
      <4>1. Total(e(s)) = e(s)[p] + Total([y \in s \ {p} |-> e(s)[y]])
        <5> HIDE DEF e, d, r, F
        <5> QED
          <6>1. Splits(s, e(s), p)
            BY <3>1, <3>3, SplitsOff
          <6> QED
            BY <6>1 DEF Splits
      <4> HIDE DEF e
      <4> QED
        BY <3>3, <4>1
    <3>5. Total(e(r)) \in Int
      <4>1. e(r) \in [r -> Int] /\ IsFiniteSet(r)
        BY <3>1, FS_Subset
      <4> HIDE DEF e, r
      <4> QED
        BY <4>1, TotalInt
    <3>6. CASE p \in T
      <4>1. d(s)[p] = f[p] /\ e(s)[p] = f[p] /\ p \in s \cap T /\ [y \in (s \cap T) \ {p} |-> d(s)[y]] = d(r)
        <5>1. (s \cap T) \ {p} = r \cap T
          OBVIOUS
        <5> QED
          BY <3>6, <5>1
      <4>2. Total(d(s)) = d(s)[p] + Total([y \in (s \cap T) \ {p} |-> d(s)[y]])
        <5> HIDE DEF e, d, r, F
        <5> QED
          <6>1. Splits(s \cap T, d(s), p)
            BY <3>1, <3>3, <4>1, SplitsOff
          <6> QED
            BY <6>1 DEF Splits
      <4>3. Total(e(s)) = Total(d(s))
        <5> HIDE DEF e, d, r, F
        <5> QED
          BY <3>2, <3>4, <4>1, <4>2
      <4> QED
        BY <4>3
    <3>7. CASE p \notin T
      <4>1. e(s)[p] = 0
        BY <3>7
      <4>2. s \cap T = r \cap T
        BY <3>7
      <4>3. d(s) = d(r)
        BY <4>2
      <4>4. Total(e(s)) = Total(d(s))
        <5> HIDE DEF e, d, r, F
        <5> QED
          BY <3>2, <3>4, <3>5, <4>1, <4>3
      <4> QED
        BY <4>4
    <3> QED
      BY <3>6, <3>7
  <2> QED
    BY <2>1, <2>2
<1>2. D \in F
  <2> HIDE DEF F
  <2> QED
    BY <1>1, BySubsets
<1>3. Total(e(D)) = Total(d(D))
  BY <1>2
<1>4. D \cap T = T
  OBVIOUS
<1> QED
  BY <1>3, <1>4

(* The sizes by kind add up to the size.                                   *)
LEMMA CardinalityByKinds ==
  ASSUME NEW D, IsFiniteSet(D), NEW K, IsFiniteSet(K), NEW kind \in [D -> K]
  PROVE  Total([k \in K |-> Cardinality({x \in D : kind[x] = k})]) = Cardinality(D)
<1> DEFINE one == [x \in D |-> 1]
<1>1. one \in [D -> Int] /\ Total(one) = Cardinality(D)
  BY TotalOfOnes
<1>2. ASSUME NEW k \in K
      PROVE  Total([x \in D |-> IF kind[x] = k THEN one[x] ELSE 0]) = Cardinality({x \in D : kind[x] = k})
  <2> DEFINE T == {x \in D : kind[x] = k}
  <2>1. [x \in D |-> IF kind[x] = k THEN one[x] ELSE 0] = [x \in D |-> IF x \in T THEN one[x] ELSE 0]
    OBVIOUS
  <2>2. T \in SUBSET D /\ IsFiniteSet(T)
    BY FS_Subset
  <2>3. [x \in T |-> one[x]] = [x \in T |-> 1]
    OBVIOUS
  <2>4. Total([x \in D |-> IF x \in T THEN one[x] ELSE 0]) = Total([x \in T |-> one[x]])
    <3> HIDE DEF T, one
    <3> QED
      BY <1>1, <2>2, TotalOfPart
  <2>5. Total([x \in T |-> 1]) = Cardinality(T)
    <3> HIDE DEF T
    <3> QED
      BY <2>2, TotalOfOnes
  <2> HIDE DEF T, one
  <2>6. Total([x \in D |-> IF kind[x] = k THEN one[x] ELSE 0]) = Cardinality(T)
    BY <2>1, <2>3, <2>4, <2>5
  <2> QED
    BY <2>6 DEF T
<1> HIDE DEF one
<1>3. Total([k \in K |-> Total([x \in D |-> IF kind[x] = k THEN one[x] ELSE 0])]) = Total(one)
  BY <1>1, TotalByKinds
<1>4. [k \in K |-> Total([x \in D |-> IF kind[x] = k THEN one[x] ELSE 0])]
        = [k \in K |-> Cardinality({x \in D : kind[x] = k})]
  BY <1>2
<1> QED
  BY <1>1, <1>3, <1>4

-----------------------------------------------------------------------------
(***************************************************************************)
(* What a report counts, and how its breakdowns add up.                    *)
(***************************************************************************)
(* What an attempt is, whatever case it was graded from.                   *)
AttemptType(a) ==
  /\ a.markets \in Seq(ToSet(a.markets))
  /\ a.priced \in Seq(ToSet(a.priced)) /\ a.threshold \in Seq(ToSet(a.threshold))
  /\ Len(a.priced) + Len(a.threshold) = Len(a.markets)
  /\ a.variant \in {"standard", "brazil"}
  /\ \A row \in ToSet(a.priced) : row.bet.family \in Families /\ row.quote.odds \in Int
  /\ \A row \in ToSet(a.threshold) : row.bet.family \in Families
  /\ \A m \in ToSet(a.markets) :
       m.available => /\ m.bet.family \in Families
                      /\ m.bet = Selection(m.bet.family, m.bet.outcome, m.bet.line)

(* Every attempt is one.                                                   *)
LEMMA AttemptsAre ==
  ASSUME ReportInv, NEW i \in DOMAIN tried
  PROVE  AttemptType(tried[i])
<1> DEFINE a == tried[i]
           card == ToAttempt[i][1]
           b == ToAttempt[i][2]
<1>1. PICK case : CaseType(case) /\ AttemptOf(a, card, b, case)
  BY TriedIs
<1>2. card.variant \in {"standard", "brazil"}
  <2>1. ToAttempt[i] \in Entries
    BY TriedIs, ToAttemptOnce
  <2>2. PICK k \in DOMAIN Programme : card = Programme[k]
    BY <2>1 DEF Entries
  <2> QED
    BY <2>2, ReportAssumption
<1>3. a.variant = card.variant
  <2>1. a = GradeBout(card, b, case)
    BY <1>1 DEF AttemptOf
  <2> HIDE DEF a, card, b
  <2> QED
    BY <2>1 DEF GradeBout
<1> HIDE DEF a, card, b
<1>4. ASSUME NEW row \in ToSet(a.priced) PROVE row.bet.family \in Families /\ row.quote.odds \in Int
  <2>1. PICK m \in ToSet(a.markets) :
          /\ m.available /\ m.bet \in DOMAIN case.book
          /\ row = PricedRow(m, case.book[m.bet], case, card.start)
    BY <1>1, <1>4 DEF AttemptOf, PricedFrom
  <2>2. row.bet = m.bet /\ row.quote = case.book[m.bet]
    BY <2>1 DEF PricedRow
  <2>3. m.bet.family \in Families
    BY <1>1 DEF AttemptOf, MarketIs
  <2>4. case.book[m.bet].odds \in Nat
    BY <1>1, <2>1 DEF CaseType, OfferType
  <2> QED
    BY <2>2, <2>3, <2>4
<1>5. ASSUME NEW row \in ToSet(a.threshold) PROVE row.bet.family \in Families
  <2>1. PICK m \in ToSet(a.markets) : row = ThresholdRow(m, QuoteFor(m, case), card.start - 1)
    BY <1>1, <1>5 DEF AttemptOf, ThresholdFrom
  <2>2. row.bet = m.bet
    BY <2>1 DEF ThresholdRow
  <2> QED
    BY <1>1, <2>2 DEF AttemptOf, MarketIs
<1>6. ASSUME NEW m \in ToSet(a.markets), m.available
      PROVE  m.bet.family \in Families /\ m.bet = Selection(m.bet.family, m.bet.outcome, m.bet.line)
  <2>1. MarketIs(m, case)
    BY <1>1 DEF AttemptOf
  <2> QED
    BY <1>6, <2>1, PredictedFamilies DEF MarketIs
<1>7. AttemptType(a)
  BY <1>1, <1>2, <1>3, <1>4, <1>5, <1>6 DEF AttemptOf, AttemptType
<1> QED
  BY <1>7 DEF a

(* A bet of an attempt: a priced row with what it counts for.              *)
Bet(a, row) ==
  [event |-> a.event, block |-> a.event, bout |-> a.bout, season |-> a.season,
   variant |-> a.variant, row |-> row]

(* A bet is of one of the attempt's priced rows.                           *)
BetOf(b, a) == \E row \in ToSet(a.priced) : b = Bet(a, row)

(* An attempt has a bet for each row that is priced.                       *)
LEMMA BetsOfAttempt ==
  ASSUME NEW a, AttemptType(a)
  PROVE  /\ BetsOf(a) \in Seq(ToSet(BetsOf(a))) /\ Len(BetsOf(a)) = Len(a.priced)
         /\ \A b \in ToSet(BetsOf(a)) : BetOf(b, a)
<1> DEFINE P == a.priced
           B == BetsOf(a)
<1>1. P \in Seq(ToSet(P))
  BY DEF AttemptType
<1>2. B = [i \in DOMAIN P |-> Bet(a, P[i])]
  BY DEF BetsOf, Bet
<1>3. DOMAIN B = DOMAIN P /\ B = [i \in DOMAIN B |-> B[i]]
  <2> HIDE DEF B, P
  <2> QED
    BY <1>2
<1>4. B \in Seq(ToSet(B)) /\ Len(B) = Len(P)
  <2> HIDE DEF B, P
  <2> QED
    BY <1>1, <1>3, Mapped
<1>5. ASSUME NEW b \in ToSet(B) PROVE BetOf(b, a)
  <2>1. PICK i \in DOMAIN P : b = Bet(a, P[i])
    <3> HIDE DEF B, P
    <3> QED
      BY <1>2, <1>5 DEF ToSet
  <2>2. P[i] \in ToSet(a.priced)
    BY DEF ToSet
  <2> HIDE DEF P
  <2> QED
    BY <2>1, <2>2 DEF BetOf
<1> QED
  BY <1>4, <1>5

(* A sequence put together from parts, one of each of a sequence.          *)
LEMMA FlattenParts ==
  ASSUME NEW n \in Nat, NEW ss, ss = [i \in 1 .. n |-> ss[i]], \A i \in 1 .. n : ss[i] \in Seq(ToSet(ss[i]))
  PROVE  /\ FlattenSeq(ss) \in Seq(ToSet(FlattenSeq(ss)))
         /\ ToSet(FlattenSeq(ss)) = UNION {ToSet(ss[i]) : i \in 1 .. n}
         /\ Len(FlattenSeq(ss)) = Total([i \in 1 .. n |-> Len(ss[i])])
         /\ ss \in Seq(Seq(ToSet(FlattenSeq(ss))))
<1> DEFINE S == UNION {ToSet(ss[i]) : i \in 1 .. n}
<1>1. \A i \in 1 .. n : ss[i] \in Seq(S)
  <2> SUFFICES ASSUME NEW i \in 1 .. n PROVE ss[i] \in Seq(S)
    OBVIOUS
  <2>1. ToSet(ss[i]) \subseteq S /\ ss[i] \in Seq(ToSet(ss[i]))
    OBVIOUS
  <2> HIDE DEF S
  <2> QED
    BY <2>1, SeqMonotonic
<1>2. ss \in Seq(Seq(S)) /\ DOMAIN ss = 1 .. n
  <2>1. ss \in [1 .. n -> Seq(S)]
    <3> HIDE DEF S
    <3> QED
      BY <1>1
  <2> HIDE DEF S
  <2> QED
    BY <2>1, IsSeq
<1>3. FlattenSeq(ss) \in Seq(S) /\ ToSet(FlattenSeq(ss)) = S
  <2>1. FlattenSeq(ss) \in Seq(S) /\ ToSet(FlattenSeq(ss)) = UNION {ToSet(ss[i]) : i \in DOMAIN ss}
    <3> HIDE DEF S
    <3> QED
      BY <1>2, FlattenMembers
  <2> QED
    BY <1>2, <2>1
<1>4. Len(FlattenSeq(ss)) = Total([i \in 1 .. n |-> Len(ss[i])])
  <2>1. Len(FlattenSeq(ss)) = Total([i \in DOMAIN ss |-> Len(ss[i])])
    <3> HIDE DEF S
    <3> QED
      BY <1>2, FlattenLen
  <2> QED
    BY <1>2, <2>1
<1> QED
  BY <1>2, <1>3, <1>4

(* The bets are as many as the priced rows, and each is of an attempt.     *)
LEMMA BetsAllAre ==
  ASSUME ReportInv
  PROVE  /\ AllBets(tried) \in Seq(ToSet(AllBets(tried)))
         /\ Len(AllBets(tried)) = PricedSelections(tried)
         /\ \A b \in ToSet(AllBets(tried)) : \E i \in DOMAIN tried : BetOf(b, tried[i])
<1> DEFINE n == Len(tried)
           ss == [i \in 1 .. n |-> BetsOf(tried[i])]
<1>1. DOMAIN tried = 1 .. n /\ n \in Nat
  BY DEF ReportInv
<1>2. ASSUME NEW i \in 1 .. n
      PROVE  /\ BetsOf(tried[i]) \in Seq(ToSet(BetsOf(tried[i])))
             /\ Len(BetsOf(tried[i])) = Len(tried[i].priced)
             /\ \A b \in ToSet(BetsOf(tried[i])) : BetOf(b, tried[i])
  <2>1. AttemptType(tried[i])
    BY <1>1, AttemptsAre
  <2> QED
    BY <2>1, BetsOfAttempt
<1>3. \A i \in 1 .. n : ss[i] = BetsOf(tried[i])
  OBVIOUS
<1>4. ss = [i \in 1 .. n |-> ss[i]]
  OBVIOUS
<1>5. AllBets(tried) = FlattenSeq(ss)
  BY <1>1 DEF AllBets
<1> HIDE DEF ss, n
<1>6. \A i \in 1 .. n : ss[i] \in Seq(ToSet(ss[i]))
  BY <1>2, <1>3
<1>7. /\ FlattenSeq(ss) \in Seq(ToSet(FlattenSeq(ss)))
      /\ ToSet(FlattenSeq(ss)) = UNION {ToSet(ss[i]) : i \in 1 .. n}
      /\ Len(FlattenSeq(ss)) = Total([i \in 1 .. n |-> Len(ss[i])])
  BY <1>1, <1>4, <1>6, FlattenParts
<1>8. [i \in 1 .. n |-> Len(ss[i])] = [i \in DOMAIN tried |-> Len(tried[i].priced)]
  BY <1>1, <1>2, <1>3
<1>9. Len(AllBets(tried)) = PricedSelections(tried)
  BY <1>5, <1>7, <1>8 DEF PricedSelections
<1>10. ASSUME NEW b \in ToSet(AllBets(tried)) PROVE \E i \in DOMAIN tried : BetOf(b, tried[i])
  BY <1>1, <1>2, <1>3, <1>5, <1>7, <1>10
<1> QED
  BY <1>5, <1>7, <1>9, <1>10

(* The rows without a price are as many as the attempts have of them.      *)
LEMMA ThresholdsAre ==
  ASSUME NEW as, as \in Seq(ToSet(as)), \A a \in ToSet(as) : AttemptType(a)
  PROVE  /\ Thresholds(as) \in Seq(ToSet(Thresholds(as)))
         /\ Len(Thresholds(as)) = Total([i \in DOMAIN as |-> Len(as[i].threshold)])
         /\ \A t \in ToSet(Thresholds(as)) : t.bet.family \in Families
<1> DEFINE n == Len(as)
           ss == [i \in 1 .. n |-> as[i].threshold]
<1>1. DOMAIN as = 1 .. n /\ n \in Nat /\ \A i \in 1 .. n : AttemptType(as[i])
  <2>1. DOMAIN as = 1 .. n /\ n \in Nat /\ \A i \in DOMAIN as : as[i] \in ToSet(as)
    BY SeqIs
  <2> HIDE DEF n
  <2> QED
    BY <2>1
<1>2. \A i \in 1 .. n : ss[i] = as[i].threshold
  OBVIOUS
<1>3. ss = [i \in 1 .. n |-> ss[i]]
  OBVIOUS
<1>4. Thresholds(as) = FlattenSeq(ss)
  BY <1>1 DEF Thresholds
<1> HIDE DEF ss, n
<1>5. \A i \in 1 .. n : ss[i] \in Seq(ToSet(ss[i]))
  BY <1>1, <1>2 DEF AttemptType
<1>6. /\ FlattenSeq(ss) \in Seq(ToSet(FlattenSeq(ss)))
      /\ ToSet(FlattenSeq(ss)) = UNION {ToSet(ss[i]) : i \in 1 .. n}
      /\ Len(FlattenSeq(ss)) = Total([i \in 1 .. n |-> Len(ss[i])])
  BY <1>1, <1>3, <1>5, FlattenParts
<1>7. [i \in 1 .. n |-> Len(ss[i])] = [i \in DOMAIN as |-> Len(as[i].threshold)]
  BY <1>1, <1>2
<1>8. ASSUME NEW t \in ToSet(Thresholds(as)) PROVE t.bet.family \in Families
  <2>0. t \in UNION {ToSet(ss[i]) : i \in 1 .. n}
    BY <1>4, <1>6
  <2>1. PICK i \in 1 .. n : t \in ToSet(as[i].threshold)
    BY <1>2, <2>0
  <2> QED
    BY <1>1, <2>1 DEF AttemptType
<1> QED
  BY <1>4, <1>6, <1>7, <1>8

(* What a bet adds to the profit, and to the count of the settled.         *)
Resolved(b) == b.row.candidate /\ b.row.settlement # "unresolved"

(* What every bet adds to the profit: candidates, once they are settled.   *)
Gains(U) == [b \in U |-> IF Resolved(b) THEN Profit(b.row) ELSE 0]

(* What every bet adds to the count of the settled.                        *)
SettledOnes(U) == [b \in U |-> IF Resolved(b) THEN 1 ELSE 0]

(* Bets that have a price.                                                 *)
Gainful(U) == \A b \in U : b.row.quote.odds \in Int

(* What bets with a price add is an integer.                               *)
LEMMA GainsAre ==
  ASSUME NEW U, Gainful(U)
  PROVE  Gains(U) \in [U -> Int] /\ SettledOnes(U) \in [U -> Int] /\ \A b \in U : Profit(b.row) \in Int
<1>1. ASSUME NEW b \in U PROVE Profit(b.row) \in Int
  <2>1. b.row.quote.odds \in Int
    BY DEF Gainful
  <2> QED
    BY <2>1 DEF Profit
<1>2. Gains(U) \in [U -> Int]
  BY <1>1 DEF Gains
<1>3. SettledOnes(U) \in [U -> Int]
  BY DEF SettledOnes
<1> QED
  BY <1>1, <1>2, <1>3

(* betting_metrics, as sums over the bets.                                 *)
LEMMA BettingIs ==
  ASSUME NEW U, Gainful(U), NEW B \in Seq(U)
  PROVE  /\ BettingMetrics(B).priced = Len(B)
         /\ BettingMetrics(B).profit = SumOf(B, Gains(U))
         /\ BettingMetrics(B).settled = SumOf(B, SettledOnes(U))
<1> DEFINE C == {b \in U : b.row.candidate}
           R == {b \in U : b.row.settlement # "unresolved"}
           Q == Qualifying(B)
           S == SettledBets(Q)
           of(g, T) == [b \in U |-> IF b \in T THEN g[b] ELSE 0]
           profit == [b \in U |-> Profit(b.row)]
           one == [b \in U |-> 1]
<1>1. Q = Only(B, C)
  <2>1. [i \in DOMAIN B |-> IF B[i].row.candidate THEN <<B[i]>> ELSE <<>>]
          = [i \in DOMAIN B |-> IF B[i] \in C THEN <<B[i]>> ELSE <<>>]
    OBVIOUS
  <2> HIDE DEF C
  <2> QED
    BY <2>1 DEF Qualifying, Kept, Only
<1>2. Q \in Seq(U) /\ \A g \in [U -> Int] : SumOf(Q, g) = SumOf(B, of(g, C))
  <2>1. Only(B, C) \in Seq(U)
    <3> HIDE DEF C
    <3> QED
      BY OnlyOf
  <2>2. PartOf(U, B, C)
    <3> HIDE DEF C
    <3> QED
      BY PartIs
  <2> HIDE DEF Q, C
  <2> QED
    BY <1>1, <2>1, <2>2 DEF PartOf
<1>3. S = Only(Q, R)
  <2>1. [i \in DOMAIN Q |-> IF Q[i].row.settlement # "unresolved" THEN <<Q[i]>> ELSE <<>>]
          = [i \in DOMAIN Q |-> IF Q[i] \in R THEN <<Q[i]>> ELSE <<>>]
    <3>1. \A i \in DOMAIN Q : Q[i] \in U
      BY <1>2
    <3> HIDE DEF Q
    <3> QED
      BY <3>1
  <2> HIDE DEF R, Q
  <2> QED
    BY <2>1 DEF SettledBets, Kept, Only
<1>4. S \in Seq(U) /\ \A g \in [U -> Int] : SumOf(S, g) = SumOf(Q, of(g, R))
  <2>1. Only(Q, R) \in Seq(U)
    <3> HIDE DEF Q, R
    <3> QED
      BY <1>2, OnlyOf
  <2>2. PartOf(U, Q, R)
    <3> HIDE DEF Q, R
    <3> QED
      BY <1>2, PartIs
  <2> HIDE DEF Q, R, S
  <2> QED
    BY <1>3, <2>1, <2>2 DEF PartOf
<1>5. ASSUME NEW g \in [U -> Int] PROVE SumOf(S, g) = SumOf(B, of(of(g, R), C)) /\ of(of(g, R), C) \in [U -> Int]
  <2>1. of(g, R) \in [U -> Int] /\ of(of(g, R), C) \in [U -> Int]
    <3> HIDE DEF C, R
    <3> QED
      OBVIOUS
  <2> HIDE DEF Q, R, S, C, of
  <2> QED
    BY <1>2, <1>4, <2>1
<1>6. profit \in [U -> Int] /\ of(of(profit, R), C) = Gains(U)
  <2>1. profit \in [U -> Int]
    BY GainsAre
  <2>2. ASSUME NEW b \in U PROVE of(of(profit, R), C)[b] = Gains(U)[b]
    BY DEF Gains, Resolved
  <2>3. Gains(U) = [b \in U |-> Gains(U)[b]] /\ of(of(profit, R), C) = [b \in U |-> of(of(profit, R), C)[b]]
    BY DEF Gains
  <2> HIDE DEF of, profit, C, R
  <2> QED
    BY <2>1, <2>2, <2>3
<1>7. one \in [U -> Int] /\ of(of(one, R), C) = SettledOnes(U)
  <2>1. one \in [U -> Int]
    OBVIOUS
  <2>2. ASSUME NEW b \in U PROVE of(of(one, R), C)[b] = SettledOnes(U)[b]
    BY DEF SettledOnes, Resolved
  <2>3. SettledOnes(U) = [b \in U |-> SettledOnes(U)[b]] /\ of(of(one, R), C) = [b \in U |-> of(of(one, R), C)[b]]
    BY DEF SettledOnes
  <2> HIDE DEF of, one, C, R
  <2> QED
    BY <2>1, <2>2, <2>3
<1>8. Len(S) = SumOf(S, one)
  <2> HIDE DEF S
  <2> QED
    BY <1>4, LenIsSum
<1>9. [i \in DOMAIN S |-> Profit(S[i].row)] = [i \in DOMAIN S |-> profit[S[i]]]
  <2>1. \A i \in DOMAIN S : S[i] \in U
    <3> HIDE DEF S
    <3> QED
      BY <1>4
  <2> HIDE DEF S
  <2> QED
    BY <2>1
<1>10. /\ BettingMetrics(B).priced = Len(B) /\ BettingMetrics(B).settled = Len(S)
       /\ BettingMetrics(B).profit = Total([i \in DOMAIN S |-> Profit(S[i].row)])
  BY DEF BettingMetrics
<1> HIDE DEF C, R, Q, S, of, profit, one
<1>11. SumOf(S, profit) = SumOf(B, Gains(U)) /\ SumOf(S, one) = SumOf(B, SettledOnes(U))
  BY <1>5, <1>6, <1>7
<1> QED
  BY <1>8, <1>9, <1>10, <1>11 DEF SumOf

(* The parts that the breakdowns are of.                                   *)
SeasonOf(S) == [x \in S |-> x.season]

(* The families of what has no price.                                      *)
FamilyIn(S) == [x \in S |-> x.bet.family]

(* The families of bets.                                                   *)
FamilyBet(S) == [x \in S |-> x.row.bet.family]

(* The sources of bets.                                                    *)
SourceIn(S) == [x \in S |-> SourceOf(x)]

(* What is of a kind.                                                      *)
OfKind(S, kind, k) == {x \in S : kind[x] = k}

(* The filters of the breakdowns keep what is of a kind.                   *)
LEMMA KeptByKind ==
  ASSUME NEW S, NEW s \in Seq(S), NEW k
  PROVE  /\ FlattenSeq([i \in DOMAIN s |-> IF s[i].season = k THEN <<s[i]>> ELSE <<>>])
              = Only(s, OfKind(S, SeasonOf(S), k))
         /\ FlattenSeq([i \in DOMAIN s |-> IF s[i].bet.family = k THEN <<s[i]>> ELSE <<>>])
              = Only(s, OfKind(S, FamilyIn(S), k))
         /\ FlattenSeq([i \in DOMAIN s |-> IF s[i].row.bet.family = k THEN <<s[i]>> ELSE <<>>])
              = Only(s, OfKind(S, FamilyBet(S), k))
         /\ FlattenSeq([i \in DOMAIN s |-> IF SourceOf(s[i]) = k THEN <<s[i]>> ELSE <<>>])
              = Only(s, OfKind(S, SourceIn(S), k))
<1>1. \A i \in DOMAIN s : s[i] \in S
  OBVIOUS
<1>2. [i \in DOMAIN s |-> IF s[i].season = k THEN <<s[i]>> ELSE <<>>]
        = [i \in DOMAIN s |-> IF s[i] \in OfKind(S, SeasonOf(S), k) THEN <<s[i]>> ELSE <<>>]
  <2>1. \A i \in DOMAIN s : s[i] \in OfKind(S, SeasonOf(S), k) <=> s[i].season = k
    BY <1>1 DEF OfKind, SeasonOf
  <2> QED
    BY <2>1
<1>3. [i \in DOMAIN s |-> IF s[i].bet.family = k THEN <<s[i]>> ELSE <<>>]
        = [i \in DOMAIN s |-> IF s[i] \in OfKind(S, FamilyIn(S), k) THEN <<s[i]>> ELSE <<>>]
  <2>1. \A i \in DOMAIN s : s[i] \in OfKind(S, FamilyIn(S), k) <=> s[i].bet.family = k
    BY <1>1 DEF OfKind, FamilyIn
  <2> QED
    BY <2>1
<1>4. [i \in DOMAIN s |-> IF s[i].row.bet.family = k THEN <<s[i]>> ELSE <<>>]
        = [i \in DOMAIN s |-> IF s[i] \in OfKind(S, FamilyBet(S), k) THEN <<s[i]>> ELSE <<>>]
  <2>1. \A i \in DOMAIN s : s[i] \in OfKind(S, FamilyBet(S), k) <=> s[i].row.bet.family = k
    BY <1>1 DEF OfKind, FamilyBet
  <2> QED
    BY <2>1
<1>5. [i \in DOMAIN s |-> IF SourceOf(s[i]) = k THEN <<s[i]>> ELSE <<>>]
        = [i \in DOMAIN s |-> IF s[i] \in OfKind(S, SourceIn(S), k) THEN <<s[i]>> ELSE <<>>]
  <2>1. \A i \in DOMAIN s : s[i] \in OfKind(S, SourceIn(S), k) <=> SourceOf(s[i]) = k
    BY <1>1 DEF OfKind, SourceIn
  <2> QED
    BY <2>1
<1> QED
  BY <1>2, <1>3, <1>4, <1>5 DEF Only

(* Sums and lengths by kind, together.                                     *)
LEMMA ByKind ==
  ASSUME NEW S, NEW s \in Seq(S), NEW K, IsFiniteSet(K), NEW kind \in [S -> K]
  PROVE  /\ Total([k \in K |-> Len(Only(s, OfKind(S, kind, k)))]) = Len(s)
         /\ \A g \in [S -> Int] : Total([k \in K |-> SumOf(Only(s, OfKind(S, kind, k)), g)]) = SumOf(s, g)
         /\ \A k \in K : Only(s, OfKind(S, kind, k)) \in Seq(S)
<1>1. Total([k \in K |-> Len(Only(s, {x \in S : kind[x] = k}))]) = Len(s)
  BY LenByKinds
<1>2. ASSUME NEW g \in [S -> Int]
      PROVE  Total([k \in K |-> SumOf(Only(s, {x \in S : kind[x] = k}), g)]) = SumOf(s, g)
  <2>1. SumsUpBy(S, s, g, K, kind)
    BY SumByKinds
  <2> QED
    BY <2>1 DEF SumsUpBy
<1>3. ASSUME NEW k \in K PROVE Only(s, OfKind(S, kind, k)) \in Seq(S)
  BY OnlyOf
<1> QED
  BY <1>1, <1>2, <1>3 DEF OfKind

(* The years with an attempt.                                              *)
YearsOf == {tried[i].season : i \in DOMAIN tried}

(* The sources with a bet.                                                 *)
SourcesOf == {SourceOf(b) : b \in ToSet(AllBets(tried))}

(* The attempts of a year.                                                 *)
InSeason(y) == Only(tried, OfKind(ToSet(tried), SeasonOf(ToSet(tried)), y))

(* The bets of a kind.                                                     *)
BetsIn(kind, k) == Only(AllBets(tried), OfKind(ToSet(AllBets(tried)), kind, k))

(* The selections of a family.                                             *)
OfFamily(rows, f) == {r \in rows : r.bet.family = f}

(* What the slice of a year is made of.                                    *)
LEMMA YearSliceIs ==
  ASSUME ReportInv, NEW y
  PROVE  LET s == YearSlice(tried, y)
         IN /\ s.attempts = Len(InSeason(y))
            /\ s.priced = PricedSelections(InSeason(y))
            /\ s.threshold = Len(Thresholds(InSeason(y)))
            /\ s.betting = BettingMetrics(BetsIn(SeasonOf(ToSet(AllBets(tried))), y))
            /\ \A f \in Families : s.outcome.markets[f].scored =
                 Cardinality(Scored(GroupScores(OfFamily({r \in MarketRows(tried) : r.season = y}, f))))
<1> DEFINE bets == AllBets(tried)
           as == InSeason(y)
           B == BetsIn(SeasonOf(ToSet(AllBets(tried))), y)
           R == {r \in MarketRows(tried) : r.season = y}
           O == {o \in OutcomesOf(tried) : o.season = y}
<1>1. FlattenSeq([i \in DOMAIN tried |-> IF tried[i].season = y THEN <<tried[i]>> ELSE <<>>]) = as
  BY KeptByKind DEF ReportInv, InSeason
<1>2. FlattenSeq([i \in DOMAIN bets |-> IF bets[i].season = y THEN <<bets[i]>> ELSE <<>>]) = B
  BY BetsAllAre, KeptByKind DEF BetsIn
<1>3. YearSlice(tried, y) = SliceOf(as, B, R, O)
  <2> HIDE DEF as, B
  <2> QED
    BY <1>1, <1>2 DEF YearSlice, Kept
<1> HIDE DEF as, B, R, O
<1>4. /\ SliceOf(as, B, R, O).attempts = Len(as)
      /\ SliceOf(as, B, R, O).priced = PricedSelections(as)
      /\ SliceOf(as, B, R, O).threshold = Len(Thresholds(as))
      /\ SliceOf(as, B, R, O).betting = BettingMetrics(B)
      /\ SliceOf(as, B, R, O).outcome = OutcomeMetrics(O, R)
  BY DEF SliceOf
<1>5. ASSUME NEW f \in Families
      PROVE  OutcomeMetrics(O, R).markets[f].scored = Cardinality(Scored(GroupScores(OfFamily(R, f))))
  <2>1. OutcomeMetrics(O, R).markets[f] = MarketMetrics(R, f)
    BY DEF OutcomeMetrics
  <2> QED
    BY <2>1 DEF MarketMetrics, OfFamily
<1> QED
  BY <1>3, <1>4, <1>5 DEF as, B, R

(* What the slice of a market is made of.                                  *)
LEMMA FamilySliceIs ==
  ASSUME ReportInv, NEW f
  PROVE  LET s == FamilySlice(tried, f)
             T == Thresholds(tried)
         IN /\ s.betting = BettingMetrics(BetsIn(FamilyBet(ToSet(AllBets(tried))), f))
            /\ s.threshold = Len(Only(T, OfKind(ToSet(T), FamilyIn(ToSet(T)), f)))
            /\ s.outcome.scored = Cardinality(Scored(GroupScores(OfFamily(MarketRows(tried), f))))
<1> DEFINE bets == AllBets(tried)
           T == Thresholds(tried)
           B == BetsIn(FamilyBet(ToSet(AllBets(tried))), f)
           U == Only(T, OfKind(ToSet(T), FamilyIn(ToSet(T)), f))
<1>1. FlattenSeq([i \in DOMAIN bets |-> IF bets[i].row.bet.family = f THEN <<bets[i]>> ELSE <<>>]) = B
  BY BetsAllAre, KeptByKind DEF BetsIn
<1>2. FlattenSeq([i \in DOMAIN T |-> IF T[i].bet.family = f THEN <<T[i]>> ELSE <<>>]) = U
  <2>1. tried \in Seq(ToSet(tried)) /\ \A a \in ToSet(tried) : AttemptType(a)
    BY AttemptsAre DEF ReportInv, ToSet
  <2>2. T \in Seq(ToSet(T))
    BY <2>1, ThresholdsAre
  <2> HIDE DEF T
  <2> QED
    BY <2>2, KeptByKind
<1>3. /\ FamilySlice(tried, f).betting = BettingMetrics(B)
      /\ FamilySlice(tried, f).threshold = Len(U)
      /\ FamilySlice(tried, f).outcome = MarketMetrics(MarketRows(tried), f)
  <2> HIDE DEF B, U
  <2> QED
    BY <1>1, <1>2 DEF FamilySlice, Kept
<1> QED
  BY <1>3 DEF MarketMetrics, OfFamily

(* What the slice of a source is made of.                                  *)
LEMMA SourceSliceIs ==
  ASSUME ReportInv, NEW s
  PROVE  SourceSlice(tried, s).betting = BettingMetrics(BetsIn(SourceIn(ToSet(AllBets(tried))), s))
<1> DEFINE bets == AllBets(tried)
           B == BetsIn(SourceIn(ToSet(AllBets(tried))), s)
<1>1. FlattenSeq([i \in DOMAIN bets |-> IF SourceOf(bets[i]) = s THEN <<bets[i]>> ELSE <<>>]) = B
  BY BetsAllAre, KeptByKind DEF BetsIn
<1>2. SourceSlice(tried, s).betting = BettingMetrics(B)
  <2> HIDE DEF B
  <2> QED
    BY <1>1 DEF SourceSlice, Kept
<1> QED
  BY <1>2

(* Every bet has a year, a family, a source and a price, and one of two    *)
(* rule variants; and it counts on its own card.                           *)
LEMMA BetFacts ==
  ASSUME ReportInv
  PROVE  LET S == ToSet(AllBets(tried)) IN
         /\ Gainful(S)
         /\ SeasonOf(S) \in [S -> YearsOf] /\ IsFiniteSet(YearsOf)
         /\ FamilyBet(S) \in [S -> Families] /\ IsFiniteSet(Families)
         /\ SourceIn(S) \in [S -> SourcesOf] /\ IsFiniteSet(SourcesOf)
         /\ \A b \in S : b.variant \in {"standard", "brazil"} /\ b.block = b.event
<1> DEFINE S == ToSet(AllBets(tried))
<1>1. ASSUME NEW b \in S
      PROVE  /\ b.row.quote.odds \in Int /\ b.season \in YearsOf /\ b.row.bet.family \in Families
             /\ b.variant \in {"standard", "brazil"} /\ b.block = b.event
  <2>1. PICK i \in DOMAIN tried : BetOf(b, tried[i])
    BY BetsAllAre
  <2>2. AttemptType(tried[i])
    BY AttemptsAre
  <2>3. PICK row \in ToSet(tried[i].priced) : b = Bet(tried[i], row)
    BY <2>1 DEF BetOf
  <2>4. b.row = row /\ b.season = tried[i].season /\ b.variant = tried[i].variant /\ b.block = b.event
    BY <2>3 DEF Bet
  <2>5. row.bet.family \in Families /\ row.quote.odds \in Int /\ tried[i].variant \in {"standard", "brazil"}
    BY <2>2 DEF AttemptType
  <2> QED
    BY <2>4, <2>5 DEF YearsOf
<1>2. IsFiniteSet(YearsOf)
  <2>1. IsFiniteSet(DOMAIN tried)
    BY SeqIs DEF ReportInv
  <2> DEFINE season == [i \in DOMAIN tried |-> tried[i].season]
  <2>2. IsFiniteSet({season[i] : i \in DOMAIN tried})
    <3> HIDE DEF S, season
    <3> QED
      BY <2>1, ImageFinite
  <2> QED
    BY <2>2 DEF YearsOf
<1>3. IsFiniteSet(Families)
  <2> DEFINE first == [m \in Markets |-> m[1]]
  <2>1. IsFiniteSet({first[m] : m \in Markets})
    <3> HIDE DEF first
    <3> QED
      BY MarketsFinite, ImageFinite
  <2> QED
    BY <2>1 DEF Families
<1>4. IsFiniteSet(SourcesOf)
  <2> DEFINE s == AllBets(tried)
             f == [i \in DOMAIN s |-> SourceOf(s[i])]
  <2>1. IsFiniteSet(DOMAIN s)
    BY BetsAllAre, SeqIs
  <2>2. IsFiniteSet({f[i] : i \in DOMAIN s})
    <3> HIDE DEF f, s
    <3> QED
      BY <2>1, ImageFinite
  <2>3. {f[i] : i \in DOMAIN s} = SourcesOf
    <3>1. \A i \in DOMAIN s : f[i] = SourceOf(s[i])
      OBVIOUS
    <3> HIDE DEF f, s
    <3> QED
      BY <3>1 DEF SourcesOf, ToSet, s
  <2> QED
    BY <2>2, <2>3
<1>5. \A b \in S : SourceOf(b) \in SourcesOf
  BY DEF SourcesOf
<1>6. Gainful(S)
  BY <1>1 DEF Gainful
<1>7. SeasonOf(S) \in [S -> YearsOf]
  BY <1>1 DEF SeasonOf
<1>8. FamilyBet(S) \in [S -> Families]
  BY <1>1 DEF FamilyBet
<1>9. SourceIn(S) \in [S -> SourcesOf]
  BY <1>5 DEF SourceIn
<1> QED
  BY <1>1, <1>2, <1>3, <1>4, <1>6, <1>7, <1>8, <1>9

(* What the whole of the bets wins, and how many of them are settled.      *)
WholeProfit == SumOf(AllBets(tried), Gains(ToSet(AllBets(tried))))

(* How many bets are settled.                                              *)
WholeSettled == SumOf(AllBets(tried), SettledOnes(ToSet(AllBets(tried))))

(* Whatever bets are told apart by, what they win adds up.                 *)
LEMMA BettingByKind ==
  ASSUME ReportInv, NEW K, IsFiniteSet(K), NEW kind \in [ToSet(AllBets(tried)) -> K]
  PROVE  /\ Total([k \in K |-> BettingMetrics(BetsIn(kind, k)).priced]) = Len(AllBets(tried))
         /\ Total([k \in K |-> BettingMetrics(BetsIn(kind, k)).profit]) = WholeProfit
         /\ Total([k \in K |-> BettingMetrics(BetsIn(kind, k)).settled]) = WholeSettled
<1> DEFINE bets == AllBets(tried)
           S == ToSet(bets)
           P(k) == Only(bets, OfKind(S, kind, k))
<1>1. bets \in Seq(S) /\ Gainful(S)
  BY BetsAllAre, BetFacts
<1>2. Gains(S) \in [S -> Int] /\ SettledOnes(S) \in [S -> Int]
  BY <1>1, GainsAre
<1>3. kind \in [S -> K]
  OBVIOUS
<1> HIDE DEF bets, S
<1>4. /\ Total([k \in K |-> Len(P(k))]) = Len(bets)
      /\ \A g \in [S -> Int] : Total([k \in K |-> SumOf(P(k), g)]) = SumOf(bets, g)
      /\ \A k \in K : P(k) \in Seq(S)
  BY <1>1, <1>3, ByKind
<1> HIDE DEF P
<1>5. ASSUME NEW k \in K
      PROVE  /\ BettingMetrics(P(k)).priced = Len(P(k))
             /\ BettingMetrics(P(k)).profit = SumOf(P(k), Gains(S))
             /\ BettingMetrics(P(k)).settled = SumOf(P(k), SettledOnes(S))
  BY <1>1, <1>4, BettingIs
<1>6. [k \in K |-> BettingMetrics(P(k)).priced] = [k \in K |-> Len(P(k))]
  BY <1>5
<1>7. [k \in K |-> BettingMetrics(P(k)).profit] = [k \in K |-> SumOf(P(k), Gains(S))]
  BY <1>5
<1>8. [k \in K |-> BettingMetrics(P(k)).settled] = [k \in K |-> SumOf(P(k), SettledOnes(S))]
  BY <1>5
<1>9. \A k \in K : P(k) = BetsIn(kind, k)
  BY DEF P, BetsIn, bets, S
<1>10. /\ Total([k \in K |-> BettingMetrics(P(k)).priced]) = Len(bets)
       /\ Total([k \in K |-> BettingMetrics(P(k)).profit]) = SumOf(bets, Gains(S))
       /\ Total([k \in K |-> BettingMetrics(P(k)).settled]) = SumOf(bets, SettledOnes(S))
  BY <1>2, <1>4, <1>6, <1>7, <1>8
<1>11. /\ [k \in K |-> BettingMetrics(P(k)).priced] = [k \in K |-> BettingMetrics(BetsIn(kind, k)).priced]
       /\ [k \in K |-> BettingMetrics(P(k)).profit] = [k \in K |-> BettingMetrics(BetsIn(kind, k)).profit]
       /\ [k \in K |-> BettingMetrics(P(k)).settled] = [k \in K |-> BettingMetrics(BetsIn(kind, k)).settled]
  BY <1>9
<1> QED
  BY <1>10, <1>11 DEF bets, S, WholeProfit, WholeSettled

(* The breakdowns, part by part.                                           *)
LEMMA BreakdownParts ==
  /\ DOMAIN Breakdowns(tried).years = YearsOf
  /\ \A y \in YearsOf : Breakdowns(tried).years[y] = YearSlice(tried, y)
  /\ DOMAIN Breakdowns(tried).markets = Families
  /\ \A f \in Families : Breakdowns(tried).markets[f] = FamilySlice(tried, f)
  /\ DOMAIN Breakdowns(tried).sources = SourcesOf
  /\ \A s \in SourcesOf : Breakdowns(tried).sources[s] = SourceSlice(tried, s)
  /\ \A u \in DOMAIN Universes : Breakdowns(tried).universes[u] = UniverseSlice(tried, u)
BY DEF Breakdowns, YearsOf, SourcesOf

(* Bets by year, market and source.                                        *)
LEMMA BettingAddsUp ==
  ASSUME ReportInv
  PROVE  LET b == Breakdowns(tried) IN
         /\ Total([f \in DOMAIN b.markets |-> b.markets[f].betting.priced]) = Len(AllBets(tried))
         /\ Total([s \in DOMAIN b.sources |-> b.sources[s].betting.priced]) = Len(AllBets(tried))
         /\ Total([y \in DOMAIN b.years |-> b.years[y].betting.profit]) = WholeProfit
         /\ Total([f \in DOMAIN b.markets |-> b.markets[f].betting.profit]) = WholeProfit
         /\ Total([s \in DOMAIN b.sources |-> b.sources[s].betting.profit]) = WholeProfit
         /\ Total([y \in DOMAIN b.years |-> b.years[y].betting.settled]) = WholeSettled
<1> DEFINE S == ToSet(AllBets(tried))
           b == Breakdowns(tried)
<1>1. /\ SeasonOf(S) \in [S -> YearsOf] /\ IsFiniteSet(YearsOf)
      /\ FamilyBet(S) \in [S -> Families] /\ IsFiniteSet(Families)
      /\ SourceIn(S) \in [S -> SourcesOf] /\ IsFiniteSet(SourcesOf)
  BY BetFacts
<1>2. \A y \in YearsOf : b.years[y].betting = BettingMetrics(BetsIn(SeasonOf(S), y))
  BY BreakdownParts, YearSliceIs
<1>3. \A f \in Families : b.markets[f].betting = BettingMetrics(BetsIn(FamilyBet(S), f))
  BY BreakdownParts, FamilySliceIs
<1>4. \A s \in SourcesOf : b.sources[s].betting = BettingMetrics(BetsIn(SourceIn(S), s))
  BY BreakdownParts, SourceSliceIs
<1>5. DOMAIN b.years = YearsOf /\ DOMAIN b.markets = Families /\ DOMAIN b.sources = SourcesOf
  BY BreakdownParts
<1> HIDE DEF b
<1>6. /\ Total([y \in YearsOf |-> b.years[y].betting.profit]) = WholeProfit
      /\ Total([y \in YearsOf |-> b.years[y].betting.settled]) = WholeSettled
  <2>1. /\ [y \in YearsOf |-> b.years[y].betting.profit] = [y \in YearsOf |-> BettingMetrics(BetsIn(SeasonOf(S), y)).profit]
        /\ [y \in YearsOf |-> b.years[y].betting.settled] = [y \in YearsOf |-> BettingMetrics(BetsIn(SeasonOf(S), y)).settled]
    BY <1>2
  <2>2. /\ Total([y \in YearsOf |-> BettingMetrics(BetsIn(SeasonOf(S), y)).profit]) = WholeProfit
        /\ Total([y \in YearsOf |-> BettingMetrics(BetsIn(SeasonOf(S), y)).settled]) = WholeSettled
    BY <1>1, BettingByKind
  <2> QED
    BY <2>1, <2>2
<1>7. /\ Total([f \in Families |-> b.markets[f].betting.priced]) = Len(AllBets(tried))
      /\ Total([f \in Families |-> b.markets[f].betting.profit]) = WholeProfit
  <2>1. /\ [f \in Families |-> b.markets[f].betting.profit] = [f \in Families |-> BettingMetrics(BetsIn(FamilyBet(S), f)).profit]
        /\ [f \in Families |-> b.markets[f].betting.priced] = [f \in Families |-> BettingMetrics(BetsIn(FamilyBet(S), f)).priced]
    BY <1>3
  <2>2. /\ Total([f \in Families |-> BettingMetrics(BetsIn(FamilyBet(S), f)).profit]) = WholeProfit
        /\ Total([f \in Families |-> BettingMetrics(BetsIn(FamilyBet(S), f)).priced]) = Len(AllBets(tried))
    BY <1>1, BettingByKind
  <2> QED
    BY <2>1, <2>2
<1>8. /\ Total([s \in SourcesOf |-> b.sources[s].betting.priced]) = Len(AllBets(tried))
      /\ Total([s \in SourcesOf |-> b.sources[s].betting.profit]) = WholeProfit
  <2>1. /\ [s \in SourcesOf |-> b.sources[s].betting.profit] = [s \in SourcesOf |-> BettingMetrics(BetsIn(SourceIn(S), s)).profit]
        /\ [s \in SourcesOf |-> b.sources[s].betting.priced] = [s \in SourcesOf |-> BettingMetrics(BetsIn(SourceIn(S), s)).priced]
    BY <1>4
  <2>2. /\ Total([s \in SourcesOf |-> BettingMetrics(BetsIn(SourceIn(S), s)).profit]) = WholeProfit
        /\ Total([s \in SourcesOf |-> BettingMetrics(BetsIn(SourceIn(S), s)).priced]) = Len(AllBets(tried))
    BY <1>1, BettingByKind
  <2> QED
    BY <2>1, <2>2
<1> QED
  BY <1>5, <1>6, <1>7, <1>8 DEF b

(* Attempts, and what is in them, by year.                                 *)
LEMMA YearsAddUp ==
  ASSUME ReportInv
  PROVE  LET b == Breakdowns(tried) IN
         /\ Total([y \in DOMAIN b.years |-> b.years[y].attempts]) = Len(tried)
         /\ Total([y \in DOMAIN b.years |-> b.years[y].priced]) = Len(AllBets(tried))
         /\ Total([y \in DOMAIN b.years |-> b.years[y].threshold]) = Len(Thresholds(tried))
<1> DEFINE A == ToSet(tried)
           b == Breakdowns(tried)
           k == SeasonOf(A)
           priced == [a \in A |-> Len(a.priced)]
           left == [a \in A |-> Len(a.threshold)]
<1>1. tried \in Seq(A) /\ \A a \in A : AttemptType(a)
  BY AttemptsAre DEF ReportInv, ToSet
<1>2. k \in [A -> YearsOf] /\ IsFiniteSet(YearsOf)
  <2>1. \A a \in A : a.season \in YearsOf
    BY DEF YearsOf, ToSet
  <2>2. k \in [A -> YearsOf]
    BY <2>1 DEF SeasonOf
  <2> QED
    BY <2>2, BetFacts
<1>3. priced \in [A -> Int] /\ left \in [A -> Int]
  <2>1. \A a \in A : Len(a.priced) \in Int /\ Len(a.threshold) \in Int
    BY <1>1, LenProperties DEF AttemptType
  <2> QED
    BY <2>1
<1>4. \A y \in YearsOf : InSeason(y) = Only(tried, OfKind(A, k, y))
  BY DEF InSeason
<1>5. /\ DOMAIN b.years = YearsOf
      /\ \A y \in YearsOf : /\ b.years[y].attempts = Len(InSeason(y))
                            /\ b.years[y].priced = PricedSelections(InSeason(y))
                            /\ b.years[y].threshold = Len(Thresholds(InSeason(y)))
  BY BreakdownParts, YearSliceIs
<1> HIDE DEF b, k
<1>6. ASSUME NEW s \in Seq(A)
      PROVE  PricedSelections(s) = SumOf(s, priced) /\ Len(Thresholds(s)) = SumOf(s, left)
  <2>1. \A i \in DOMAIN s : s[i] \in A
    BY SeqIs
  <2>2. [i \in DOMAIN s |-> Len(s[i].priced)] = [i \in DOMAIN s |-> priced[s[i]]]
    <3> HIDE DEF A
    <3> QED
      BY <2>1
  <2>3. [i \in DOMAIN s |-> Len(s[i].threshold)] = [i \in DOMAIN s |-> left[s[i]]]
    <3> HIDE DEF A
    <3> QED
      BY <2>1
  <2>4. s \in Seq(ToSet(s)) /\ \A a \in ToSet(s) : AttemptType(a)
    <3>1. s \in Seq(ToSet(s)) /\ ToSet(s) \subseteq A
      <4> HIDE DEF A
      <4> QED
        BY InItself
    <3> QED
      BY <1>1, <3>1
  <2>5. Len(Thresholds(s)) = Total([i \in DOMAIN s |-> Len(s[i].threshold)])
    BY <2>4, ThresholdsAre
  <2> HIDE DEF priced, left
  <2> QED
    BY <2>2, <2>3, <2>5 DEF PricedSelections, SumOf
<1> HIDE DEF priced, left
<1>7. /\ Total([y \in YearsOf |-> Len(Only(tried, OfKind(A, k, y)))]) = Len(tried)
      /\ \A g \in [A -> Int] : Total([y \in YearsOf |-> SumOf(Only(tried, OfKind(A, k, y)), g)]) = SumOf(tried, g)
      /\ \A y \in YearsOf : Only(tried, OfKind(A, k, y)) \in Seq(A)
  <2> HIDE DEF A
  <2> QED
    BY <1>1, <1>2, ByKind
<1>8. \A y \in YearsOf : InSeason(y) \in Seq(A)
  BY <1>4, <1>7
<1>9. [y \in YearsOf |-> b.years[y].attempts] = [y \in YearsOf |-> Len(Only(tried, OfKind(A, k, y)))]
  BY <1>4, <1>5
<1>10. [y \in YearsOf |-> b.years[y].priced] = [y \in YearsOf |-> SumOf(Only(tried, OfKind(A, k, y)), priced)]
  BY <1>4, <1>5, <1>6, <1>8
<1>11. [y \in YearsOf |-> b.years[y].threshold] = [y \in YearsOf |-> SumOf(Only(tried, OfKind(A, k, y)), left)]
  BY <1>4, <1>5, <1>6, <1>8
<1>12. SumOf(tried, priced) = Len(AllBets(tried)) /\ SumOf(tried, left) = Len(Thresholds(tried))
  BY <1>1, <1>6, BetsAllAre
<1>13. /\ Total([y \in YearsOf |-> b.years[y].attempts]) = Len(tried)
       /\ Total([y \in YearsOf |-> b.years[y].priced]) = Len(AllBets(tried))
       /\ Total([y \in YearsOf |-> b.years[y].threshold]) = Len(Thresholds(tried))
  <2> HIDE DEF A
  <2> QED
    BY <1>3, <1>7, <1>9, <1>10, <1>11, <1>12
<1> QED
  BY <1>5, <1>13 DEF b

(* What has no price, by market.                                           *)
LEMMA ThresholdsAddUp ==
  ASSUME ReportInv
  PROVE  LET b == Breakdowns(tried) IN
         Total([f \in DOMAIN b.markets |-> b.markets[f].threshold]) = Len(Thresholds(tried))
<1> DEFINE T == Thresholds(tried)
           S == ToSet(T)
           b == Breakdowns(tried)
<1>1. T \in Seq(S) /\ \A t \in S : t.bet.family \in Families
  <2>1. tried \in Seq(ToSet(tried)) /\ \A a \in ToSet(tried) : AttemptType(a)
    BY AttemptsAre DEF ReportInv, ToSet
  <2> QED
    BY <2>1, ThresholdsAre
<1>2. DOMAIN b.markets = Families /\ \A f \in Families : b.markets[f].threshold = Len(Only(T, OfKind(S, FamilyIn(S), f)))
  BY BreakdownParts, FamilySliceIs
<1> HIDE DEF T, S, b
<1>3. FamilyIn(S) \in [S -> Families] /\ IsFiniteSet(Families)
  BY <1>1, BetFacts DEF FamilyIn
<1>4. Total([f \in Families |-> Len(Only(T, OfKind(S, FamilyIn(S), f)))]) = Len(T)
  BY <1>1, <1>3, ByKind
<1>5. [f \in Families |-> b.markets[f].threshold] = [f \in Families |-> Len(Only(T, OfKind(S, FamilyIn(S), f)))]
  BY <1>2
<1> QED
  BY <1>2, <1>4, <1>5 DEF T, b

(* What is of some of the rule variants.                                   *)
OfVariants(s, V) == Only(s, {x \in ToSet(s) : x.variant \in V})

(* What the slice of a universe is made of.                                *)
LEMMA UniverseSliceIs ==
  ASSUME ReportInv, NEW u \in DOMAIN Universes
  PROVE  LET s == Breakdowns(tried).universes[u]
         IN /\ s.attempts = Len(OfVariants(tried, Universes[u]))
            /\ s.betting = BettingMetrics(OfVariants(AllBets(tried), Universes[u]))
<1> DEFINE bets == AllBets(tried)
           V == Universes[u]
           as == OfVariants(tried, V)
           B == OfVariants(bets, V)
           R == {r \in MarketRows(tried) : r.variant \in V}
           O == {o \in OutcomesOf(tried) : o.variant \in V}
<1>1. ASSUME NEW s, s \in Seq(ToSet(s))
      PROVE  FlattenSeq([i \in DOMAIN s |-> IF s[i].variant \in V THEN <<s[i]>> ELSE <<>>]) = OfVariants(s, V)
  <2> HIDE DEF V
  <2>1. \A i \in DOMAIN s : s[i] \in {x \in ToSet(s) : x.variant \in V} <=> s[i].variant \in V
    BY DEF ToSet
  <2>2. [i \in DOMAIN s |-> IF s[i].variant \in V THEN <<s[i]>> ELSE <<>>]
          = [i \in DOMAIN s |-> IF s[i] \in {x \in ToSet(s) : x.variant \in V} THEN <<s[i]>> ELSE <<>>]
    BY <2>1
  <2> QED
    BY <2>2 DEF OfVariants, Only
<1>2. FlattenSeq([i \in DOMAIN tried |-> IF tried[i].variant \in V THEN <<tried[i]>> ELSE <<>>]) = as
  <2> HIDE DEF V
  <2> QED
    BY <1>1 DEF ReportInv
<1>3. FlattenSeq([i \in DOMAIN bets |-> IF bets[i].variant \in V THEN <<bets[i]>> ELSE <<>>]) = B
  <2>1. bets \in Seq(ToSet(bets))
    BY BetsAllAre
  <2> HIDE DEF V, bets
  <2> QED
    BY <1>1, <2>1
<1>4. UniverseSlice(tried, u) = SliceOf(as, B, R, O)
  <2> HIDE DEF as, B
  <2> QED
    BY <1>2, <1>3 DEF UniverseSlice, Kept
<1>5. Breakdowns(tried).universes[u] = UniverseSlice(tried, u)
  BY BreakdownParts
<1> HIDE DEF as, B, R, O
<1>6. SliceOf(as, B, R, O).attempts = Len(as) /\ SliceOf(as, B, R, O).betting = BettingMetrics(B)
  BY DEF SliceOf
<1> QED
  BY <1>4, <1>5, <1>6 DEF as, B

(* The two variants are the whole: no attempt and no bet is of both, or of *)
(* neither.                                                                *)
LEMMA UniversesAddUp ==
  ASSUME ReportInv
  PROVE  LET b == Breakdowns(tried)
             standard == b.universes["standard_only"]
             brazil == b.universes["brazil"]
             whole == b.universes["all_dwcs"].betting
         IN /\ standard.attempts + brazil.attempts = Len(tried)
            /\ standard.betting.priced + brazil.betting.priced = Len(AllBets(tried))
            /\ whole.profit = WholeProfit /\ whole.settled = WholeSettled
<1> DEFINE bets == AllBets(tried)
           b == Breakdowns(tried)
<1>1. /\ Universes["standard_only"] = {"standard"} /\ Universes["brazil"] = {"brazil"}
      /\ Universes["all_dwcs"] = {"standard", "brazil"}
      /\ DOMAIN Universes = {"all_dwcs", "standard_only", "brazil"}
  BY DEF Universes
<1>2. /\ b.universes["standard_only"].attempts = Len(OfVariants(tried, {"standard"}))
      /\ b.universes["brazil"].attempts = Len(OfVariants(tried, {"brazil"}))
      /\ b.universes["standard_only"].betting = BettingMetrics(OfVariants(bets, {"standard"}))
      /\ b.universes["brazil"].betting = BettingMetrics(OfVariants(bets, {"brazil"}))
      /\ b.universes["all_dwcs"].betting = BettingMetrics(OfVariants(bets, {"standard", "brazil"}))
  <2> HIDE DEF b, bets
  <2>1. \A u \in DOMAIN Universes : /\ b.universes[u].attempts = Len(OfVariants(tried, Universes[u]))
                                    /\ b.universes[u].betting = BettingMetrics(OfVariants(bets, Universes[u]))
    BY UniverseSliceIs DEF b, bets
  <2> QED
    BY <1>1, <2>1
<1> HIDE DEF b
<1>3. ASSUME NEW s, s \in Seq(ToSet(s)), \A x \in ToSet(s) : x.variant \in {"standard", "brazil"}
      PROVE  /\ Len(OfVariants(s, {"standard"})) + Len(OfVariants(s, {"brazil"})) = Len(s)
             /\ \A V : OfVariants(s, V) \in Seq(ToSet(s))
  <2> DEFINE T == {x \in ToSet(s) : x.variant \in {"standard"}}
             R == {x \in ToSet(s) : x.variant \in {"brazil"}}
  <2>1. \A x \in ToSet(s) : x \in T <=> x \notin R
    BY <1>3
  <2>2. Len(Only(s, T)) + Len(Only(s, R)) = Len(s)
    <3> HIDE DEF T, R
    <3> QED
      BY <1>3, <2>1, OnlyAndRest
  <2>3. ASSUME NEW V PROVE OfVariants(s, V) \in Seq(ToSet(s))
    <3>1. Only(s, {x \in ToSet(s) : x.variant \in V}) \in Seq(ToSet(s))
      BY <1>3, OnlyOf
    <3> QED
      BY <3>1 DEF OfVariants
  <2> QED
    BY <2>2, <2>3 DEF OfVariants
<1>4. bets \in Seq(ToSet(bets)) /\ Gainful(ToSet(bets)) /\ \A x \in ToSet(bets) : x.variant \in {"standard", "brazil"}
  BY BetsAllAre, BetFacts
<1>5. tried \in Seq(ToSet(tried)) /\ \A x \in ToSet(tried) : x.variant \in {"standard", "brazil"}
  BY AttemptsAre DEF ReportInv, ToSet, AttemptType
<1> HIDE DEF bets
<1>6. Len(OfVariants(tried, {"standard"})) + Len(OfVariants(tried, {"brazil"})) = Len(tried)
  BY <1>3, <1>5
<1>7. /\ Len(OfVariants(bets, {"standard"})) + Len(OfVariants(bets, {"brazil"})) = Len(bets)
      /\ \A V : OfVariants(bets, V) \in Seq(ToSet(bets))
  BY <1>3, <1>4
<1>8. \A V : /\ BettingMetrics(OfVariants(bets, V)).priced = Len(OfVariants(bets, V))
             /\ BettingMetrics(OfVariants(bets, V)).profit = SumOf(OfVariants(bets, V), Gains(ToSet(bets)))
             /\ BettingMetrics(OfVariants(bets, V)).settled = SumOf(OfVariants(bets, V), SettledOnes(ToSet(bets)))
  BY <1>4, <1>7, BettingIs
<1>9. ASSUME NEW g \in [ToSet(bets) -> Int]
      PROVE  SumOf(OfVariants(bets, {"standard", "brazil"}), g) = SumOf(bets, g)
  <2> DEFINE S == ToSet(bets)
             T == {x \in S : x.variant \in {"standard", "brazil"}}
  <2>1. [x \in S |-> IF x \in T THEN g[x] ELSE 0] = g
    <3>1. \A x \in S : x \in T
      BY <1>4
    <3> HIDE DEF S, T
    <3> QED
      BY <3>1 DEF S
  <2>2. PartOf(S, bets, T)
    <3> HIDE DEF T
    <3> QED
      BY <1>4, PartIs
  <2>3. SumOf(Only(bets, T), g) = SumOf(bets, [x \in S |-> IF x \in T THEN g[x] ELSE 0])
    <3> HIDE DEF T
    <3> QED
      BY <2>2 DEF PartOf
  <2> HIDE DEF S
  <2>4. OfVariants(bets, {"standard", "brazil"}) = Only(bets, T)
    BY DEF OfVariants, S
  <2> HIDE DEF T
  <2> QED
    BY <2>1, <2>3, <2>4
<1>10. Gains(ToSet(bets)) \in [ToSet(bets) -> Int] /\ SettledOnes(ToSet(bets)) \in [ToSet(bets) -> Int]
  BY <1>4, GainsAre
<1> QED
  BY <1>2, <1>6, <1>7, <1>8, <1>9, <1>10 DEF b, bets, WholeProfit, WholeSettled

(* The assertion of the breakdowns never fires, after any prefix.          *)
LEMMA Reconciled == ASSUME ReportInv PROVE SlicesReconcile(tried)
<1>1. Len(AllBets(tried)) = PricedSelections(tried)
  BY BetsAllAre
<1> QED
  BY <1>1, BettingAddsUp, YearsAddUp, ThresholdsAddUp, UniversesAddUp DEF SlicesReconcile

(* No predicted selection is lost, or counted twice.                       *)
LEMMA SelectionsAddUp ==
  ASSUME ReportInv
  PROVE  Len(AllBets(tried)) + Len(Thresholds(tried)) = Total([i \in DOMAIN tried |-> Len(tried[i].markets)])
<1> DEFINE D == DOMAIN tried
           p == [i \in D |-> Len(tried[i].priced)]
           t == [i \in D |-> Len(tried[i].threshold)]
<1>1. IsFiniteSet(D)
  BY SeqIs DEF ReportInv
<1>2. ASSUME NEW i \in D
      PROVE  /\ Len(tried[i].priced) \in Int /\ Len(tried[i].threshold) \in Int
             /\ Len(tried[i].priced) + Len(tried[i].threshold) = Len(tried[i].markets)
  <2>1. AttemptType(tried[i])
    BY AttemptsAre
  <2>2. tried[i].priced \in Seq(ToSet(tried[i].priced)) /\ tried[i].threshold \in Seq(ToSet(tried[i].threshold))
    BY <2>1 DEF AttemptType
  <2>3. Len(tried[i].priced) \in Int /\ Len(tried[i].threshold) \in Int
    BY <2>2, LenProperties
  <2>4. Len(tried[i].priced) + Len(tried[i].threshold) = Len(tried[i].markets)
    BY <2>1 DEF AttemptType
  <2> QED
    BY <2>3, <2>4
<1>3. p \in [D -> Int] /\ t \in [D -> Int]
  BY <1>2
<1>4. Len(AllBets(tried)) = Total(p)
  BY BetsAllAre DEF PricedSelections
<1>5. Len(Thresholds(tried)) = Total(t)
  <2>1. tried \in Seq(ToSet(tried)) /\ \A a \in ToSet(tried) : AttemptType(a)
    BY AttemptsAre DEF ReportInv, ToSet
  <2> QED
    BY <2>1, ThresholdsAre
<1>6. [i \in D |-> p[i] + t[i]] = [i \in D |-> Len(tried[i].markets)]
  BY <1>2
<1>7. Total([i \in D |-> p[i] + t[i]]) = Total(p) + Total(t)
  <2> HIDE DEF D, p, t
  <2> QED
    BY <1>1, <1>3, TotalAdds
<1> HIDE DEF p, t
<1> QED
  BY <1>4, <1>5, <1>6, <1>7

-----------------------------------------------------------------------------
(***************************************************************************)
(* The groups that are scored, by year, by card and by draw.               *)
(***************************************************************************)
(* A settled selection of an attempt.                                      *)
MarketRow(a, m) ==
  [event |-> a.event, block |-> a.event, bout |-> a.bout, season |-> a.season,
   variant |-> a.variant, bet |-> m.bet, settlement |-> SettleMarket(a.facts, m.bet)]

(* A settled selection is one of the attempt's markets that is available.  *)
RowFrom(r, a) == \E m \in ToSet(a.markets) : m.available /\ r = MarketRow(a, m)

(* The settled selections are of the attempts, and finitely many.          *)
LEMMA RowsAre ==
  ASSUME ReportInv
  PROVE  /\ \A r \in MarketRows(tried) : \E i \in DOMAIN tried : RowFrom(r, tried[i])
         /\ IsFiniteSet(MarketRows(tried))
<1>1. ASSUME NEW r \in MarketRows(tried) PROVE \E i \in DOMAIN tried : RowFrom(r, tried[i])
  <2>1. PICK a \in ToSet(tried) : r \in MarketRowsOf(a)
    BY DEF MarketRows
  <2>2. PICK i \in DOMAIN tried : a = tried[i]
    BY DEF ToSet
  <2>3. RowFrom(r, a)
    BY <2>1 DEF MarketRowsOf, RowFrom, MarketRow
  <2> QED
    BY <2>2, <2>3
<1>2. ASSUME NEW a \in ToSet(tried) PROVE IsFiniteSet(MarketRowsOf(a))
  <2> DEFINE ms == a.markets
             M == {m \in ToSet(ms) : m.available}
             f == [m \in M |-> MarketRow(a, m)]
  <2>1. AttemptType(a)
    BY AttemptsAre DEF ToSet
  <2>2. IsFiniteSet(DOMAIN ms)
    BY <2>1, SeqIs DEF AttemptType
  <2>3. IsFiniteSet(ToSet(ms))
    <3>1. IsFiniteSet({ms[i] : i \in DOMAIN ms})
      <4> HIDE DEF ms
      <4> QED
        BY <2>2, ImageFinite
    <3> QED
      BY <3>1 DEF ToSet
  <2>4. IsFiniteSet(M)
    BY <2>3, FS_Subset
  <2>5. IsFiniteSet({f[m] : m \in M})
    <3> HIDE DEF f, M
    <3> QED
      BY <2>4, ImageFinite
  <2>6. {f[m] : m \in M} = MarketRowsOf(a)
    BY DEF MarketRowsOf, MarketRow
  <2> QED
    BY <2>5, <2>6
<1>3. IsFiniteSet(ToSet(tried))
  <2>1. IsFiniteSet(DOMAIN tried)
    BY SeqIs DEF ReportInv
  <2>2. IsFiniteSet({tried[i] : i \in DOMAIN tried})
    BY <2>1, ImageFinite
  <2> QED
    BY <2>2 DEF ToSet
<1>4. IsFiniteSet(MarketRows(tried))
  <2> DEFINE g == [a \in ToSet(tried) |-> MarketRowsOf(a)]
             SS == {g[a] : a \in ToSet(tried)}
  <2>1. IsFiniteSet(SS)
    <3> HIDE DEF g
    <3> QED
      BY <1>3, ImageFinite
  <2>2. \A T \in SS : IsFiniteSet(T)
    BY <1>2
  <2>3. UNION SS = MarketRows(tried)
    BY DEF MarketRows
  <2> HIDE DEF SS
  <2> QED
    BY <2>1, <2>2, <2>3, FS_UNION
<1> QED
  BY <1>1, <1>4

(* Two selections of one bout are of one attempt.                          *)
SameBout(r, q) ==
  /\ r.season = q.season /\ r.event = q.event
  /\ \E f : r.settlement = SettleMarket(f, r.bet) /\ q.settlement = SettleMarket(f, q.bet)

(* What holds of every settled selection, and of two of one bout.          *)
LEMMA RowFacts ==
  ASSUME ReportInv, NEW r \in MarketRows(tried)
  PROVE  /\ r.block = r.event /\ r.bet = Selection(r.bet.family, r.bet.outcome, r.bet.line)
         /\ r = [k \in DOMAIN r |-> r[k]] /\ DOMAIN r = {"event", "block", "bout", "season", "variant", "bet", "settlement"}
         /\ r.season \in YearsOf /\ r.bet.family \in Families
         /\ \A q \in MarketRows(tried) : r.bout = q.bout => SameBout(r, q)
<1>1. PICK i \in DOMAIN tried : RowFrom(r, tried[i])
  BY RowsAre
<1>2. PICK m \in ToSet(tried[i].markets) : m.available /\ r = MarketRow(tried[i], m)
  BY <1>1 DEF RowFrom
<1>3. r.bet = m.bet /\ r.bout = tried[i].bout /\ r.season = tried[i].season /\ r.event = tried[i].event
      /\ r.settlement = SettleMarket(tried[i].facts, m.bet) /\ r.block = tried[i].event
      /\ r = [k \in DOMAIN r |-> r[k]] /\ DOMAIN r = {"event", "block", "bout", "season", "variant", "bet", "settlement"}
  BY <1>2 DEF MarketRow
<1>4. m.bet.family \in Families /\ m.bet = Selection(m.bet.family, m.bet.outcome, m.bet.line)
  <2>1. AttemptType(tried[i])
    BY AttemptsAre
  <2> QED
    BY <1>2, <2>1 DEF AttemptType
<1>5. ASSUME NEW q \in MarketRows(tried), r.bout = q.bout PROVE SameBout(r, q)
  <2>1. PICK j \in DOMAIN tried : RowFrom(q, tried[j])
    BY RowsAre
  <2>2. PICK l \in ToSet(tried[j].markets) : l.available /\ q = MarketRow(tried[j], l)
    BY <2>1 DEF RowFrom
  <2>3. q.bet = l.bet /\ q.bout = tried[j].bout /\ q.season = tried[j].season /\ q.event = tried[j].event
        /\ q.settlement = SettleMarket(tried[j].facts, l.bet)
    BY <2>2 DEF MarketRow
  <2>4. i = j
    <3>1. tried[i].bout = tried[j].bout
      BY <1>3, <1>5, <2>3
    <3> QED
      BY <3>1, TriedOnce
  <2> QED
    BY <1>3, <2>3, <2>4 DEF SameBout
<1> QED
  BY <1>3, <1>4, <1>5 DEF YearsOf

(* The selections of a group.                                              *)
Members(rows, key) == {r \in rows : GroupKey(r) = key}

(* Every group is scored once, and there are finitely many.                *)
LEMMA ScoresFinite ==
  ASSUME NEW R, IsFiniteSet(R)
  PROVE  /\ GroupScores(R) = {<<k, ScoreGroup(Members(R, k))>> : k \in {GroupKey(r) : r \in R}}
         /\ IsFiniteSet(GroupScores(R)) /\ IsFiniteSet(Scored(GroupScores(R)))
<1> DEFINE f == [r \in R |-> <<GroupKey(r), ScoreGroup(Members(R, GroupKey(r)))>>]
<1>1. GroupScores(R) = {<<k, ScoreGroup(Members(R, k))>> : k \in {GroupKey(r) : r \in R}}
  BY DEF GroupScores, Members
<1>2. {<<k, ScoreGroup(Members(R, k))>> : k \in {GroupKey(r) : r \in R}} = {f[r] : r \in R}
  OBVIOUS
<1>3. IsFiniteSet({f[r] : r \in R})
  <2> HIDE DEF f
  <2> QED
    BY ImageFinite
<1>4. IsFiniteSet(GroupScores(R))
  BY <1>1, <1>2, <1>3
<1>5. IsFiniteSet(Scored(GroupScores(R)))
  BY <1>4, FS_Subset DEF Scored
<1> QED
  BY <1>1, <1>4, <1>5

(* A score is of the group of one of the selections.                       *)
LEMMA ScoreFrom ==
  ASSUME NEW R, IsFiniteSet(R)
  PROVE  \A s : s \in Scored(GroupScores(R)) <=>
           /\ s[2][1] = "scored"
           /\ \E r \in R : s = <<GroupKey(r), ScoreGroup(Members(R, GroupKey(r)))>>
<1>1. GroupScores(R) = {<<k, ScoreGroup(Members(R, k))>> : k \in {GroupKey(r) : r \in R}}
  BY ScoresFinite
<1>2. \A s : s \in GroupScores(R) <=> \E r \in R : s = <<GroupKey(r), ScoreGroup(Members(R, GroupKey(r)))>>
  <2> SUFFICES ASSUME NEW s
               PROVE  s \in GroupScores(R) <=> \E r \in R : s = <<GroupKey(r), ScoreGroup(Members(R, GroupKey(r)))>>
    OBVIOUS
  <2>1. ASSUME s \in GroupScores(R) PROVE \E r \in R : s = <<GroupKey(r), ScoreGroup(Members(R, GroupKey(r)))>>
    <3>1. PICK k \in {GroupKey(r) : r \in R} : s = <<k, ScoreGroup(Members(R, k))>>
      BY <1>1, <2>1
    <3>2. PICK r \in R : k = GroupKey(r)
      OBVIOUS
    <3> QED
      BY <3>1, <3>2
  <2>2. ASSUME NEW r \in R, s = <<GroupKey(r), ScoreGroup(Members(R, GroupKey(r)))>> PROVE s \in GroupScores(R)
    BY <1>1, <2>2
  <2> QED
    BY <2>1, <2>2
<1> QED
  BY <1>2 DEF Scored

(* The scores of the parts are those of the whole, where no group is of    *)
(* two parts.                                                              *)
LEMMA ScoresByKind ==
  ASSUME NEW R, IsFiniteSet(R), NEW K, IsFiniteSet(K), NEW kind \in [R -> K],
         \A r, q \in R : GroupKey(r) = GroupKey(q) => kind[r] = kind[q]
  PROVE  Total([k \in K |-> Cardinality(Scored(GroupScores(OfKind(R, kind, k))))])
           = Cardinality(Scored(GroupScores(R)))
<1> DEFINE D == Scored(GroupScores(R))
           rowOf(s) == CHOOSE r \in R : GroupKey(r) = s[1]
           of == [s \in D |-> kind[rowOf(s)]]
<1>1. IsFiniteSet(D)
  BY ScoresFinite
<1>2. ASSUME NEW s \in D
      PROVE  /\ rowOf(s) \in R /\ GroupKey(rowOf(s)) = s[1]
             /\ s = <<s[1], ScoreGroup(Members(R, s[1]))>> /\ s[2][1] = "scored"
  <2>1. PICK r \in R : s = <<GroupKey(r), ScoreGroup(Members(R, GroupKey(r)))>> /\ s[2][1] = "scored"
    BY ScoreFrom
  <2>2. s[1] = GroupKey(r)
    BY <2>1
  <2> QED
    BY <2>1, <2>2
<1>3. of \in [D -> K]
  BY <1>2
<1>4. ASSUME NEW k \in K
      PROVE  {s \in D : of[s] = k} = Scored(GroupScores(OfKind(R, kind, k)))
  <2> DEFINE Q == OfKind(R, kind, k)
  <2>1. IsFiniteSet(Q) /\ Q = {r \in R : kind[r] = k}
    BY FS_Subset DEF OfKind
  <2>2. ASSUME NEW r \in Q PROVE Members(R, GroupKey(r)) = Members(Q, GroupKey(r))
    BY <2>1 DEF Members
  <2>3. ASSUME NEW s \in D, of[s] = k PROVE s \in Scored(GroupScores(Q))
    <3>1. rowOf(s) \in Q
      BY <1>2, <2>1, <2>3
    <3>2. s = <<GroupKey(rowOf(s)), ScoreGroup(Members(Q, GroupKey(rowOf(s))))>> /\ s[2][1] = "scored"
      <4>1. Members(R, GroupKey(rowOf(s))) = Members(Q, GroupKey(rowOf(s)))
        BY <2>2, <3>1
      <4> QED
        BY <1>2, <4>1
    <3> HIDE DEF rowOf, Q
    <3>3. s \in GroupScores(Q)
      BY <2>1, <3>1, <3>2, ScoresFinite
    <3> QED
      BY <3>2, <3>3 DEF Scored
  <2>4. ASSUME NEW s \in Scored(GroupScores(Q)) PROVE s \in D /\ of[s] = k
    <3>1. PICK r \in Q : s = <<GroupKey(r), ScoreGroup(Members(Q, GroupKey(r)))>> /\ s[2][1] = "scored"
      <4> HIDE DEF Q
      <4> QED
        BY <2>1, ScoreFrom
    <3>2. r \in R /\ kind[r] = k /\ s = <<GroupKey(r), ScoreGroup(Members(R, GroupKey(r)))>>
      BY <2>1, <2>2, <3>1
    <3>3. s \in GroupScores(R)
      BY <3>2, ScoresFinite
    <3>4. s \in D
      BY <3>1, <3>3 DEF Scored
    <3>5. kind[rowOf(s)] = k
      <4>1. rowOf(s) \in R /\ GroupKey(rowOf(s)) = GroupKey(r)
        BY <1>2, <3>2, <3>4
      <4> HIDE DEF rowOf, Q, D
      <4> QED
        BY <3>2, <4>1
    <3> HIDE DEF D, rowOf
    <3> QED
      BY <3>4, <3>5
  <2> HIDE DEF D, of
  <2> QED
    BY <2>3, <2>4
<1> HIDE DEF D, of
<1>5. Total([k \in K |-> Cardinality({s \in D : of[s] = k})]) = Cardinality(D)
  BY <1>1, <1>3, CardinalityByKinds
<1>6. [k \in K |-> Cardinality({s \in D : of[s] = k})]
        = [k \in K |-> Cardinality(Scored(GroupScores(OfKind(R, kind, k))))]
  BY <1>4
<1> QED
  BY <1>5, <1>6 DEF D

(* The scores of the years are those of the whole, in every market.        *)
LEMMA ScoresAddUp ==
  ASSUME ReportInv, NEW f \in Families
  PROVE  LET b == Breakdowns(tried) IN
         Total([y \in DOMAIN b.years |-> b.years[y].outcome.markets[f].scored]) = b.markets[f].outcome.scored
<1> DEFINE b == Breakdowns(tried)
           R == OfFamily(MarketRows(tried), f)
           k == [r \in R |-> r.season]
           in(y) == OfFamily({r \in MarketRows(tried) : r.season = y}, f)
<1>1. IsFiniteSet(R) /\ R \subseteq MarketRows(tried)
  BY RowsAre, FS_Subset DEF OfFamily
<1>2. k \in [R -> YearsOf] /\ IsFiniteSet(YearsOf)
  BY <1>1, RowFacts, BetFacts
<1>3. ASSUME NEW r \in R, NEW q \in R, GroupKey(r) = GroupKey(q) PROVE k[r] = k[q]
  <2>1. r.bout = q.bout
    BY <1>3 DEF GroupKey
  <2>2. r.season = q.season
    BY <1>1, <2>1, RowFacts DEF SameBout
  <2> QED
    BY <2>2
<1>4. \A y \in YearsOf : in(y) = OfKind(R, k, y)
  BY DEF OfFamily, OfKind
<1>5. /\ DOMAIN b.years = YearsOf
      /\ \A y \in YearsOf : b.years[y].outcome.markets[f].scored = Cardinality(Scored(GroupScores(in(y))))
      /\ b.markets[f].outcome.scored = Cardinality(Scored(GroupScores(R)))
  BY BreakdownParts, YearSliceIs, FamilySliceIs
<1> HIDE DEF R, k, b, in
<1>6. Total([y \in YearsOf |-> Cardinality(Scored(GroupScores(OfKind(R, k, y))))]) = Cardinality(Scored(GroupScores(R)))
  BY <1>1, <1>2, <1>3, ScoresByKind
<1>7. [y \in YearsOf |-> b.years[y].outcome.markets[f].scored]
        = [y \in YearsOf |-> Cardinality(Scored(GroupScores(OfKind(R, k, y))))]
  BY <1>4, <1>5
<1>8. Total([y \in DOMAIN b.years |-> b.years[y].outcome.markets[f].scored]) = b.markets[f].outcome.scored
  BY <1>5, <1>6, <1>7
<1> QED
  BY <1>8 DEF b

(* Of a market's selections no two win.                                    *)
LEMMA OneWinner ==
  ASSUME NEW f, NEW x, NEW y, x.family = y.family, x.line = y.line, x.family \in Families,
         SettleMarket(f, x) = "win", SettleMarket(f, y) = "win"
  PROVE  x.outcome = y.outcome
<1>1. f # None /\ Settle(x, f, "under") = "win" /\ Settle(y, f, "under") = "win"
  BY DEF SettleMarket
<1>2. x.family \in {"moneyline", "goes_distance", "method", "fighter_by_method", "exact_round", "totals"}
  BY DEF Families, Markets
<1>3. CASE x.family = "moneyline"
  BY <1>1, <1>3 DEF Settle, SettleMoneyline, Graded
<1>4. CASE x.family = "goes_distance"
  BY <1>1, <1>4 DEF Settle, SettleDistance, Graded
<1>5. CASE x.family = "totals"
  <2>1. SettleTotals(x, f, "under") = "win" /\ SettleTotals(y, f, "under") = "win"
    BY <1>1, <1>5 DEF Settle
  <2>2. ASSUME NEW s, SettleTotals(s, f, "under") = "win"
        PROVE  s.outcome = SideOfLine(Duration(f), s.line, "under")
    BY <2>2 DEF SettleTotals, Graded
  <2> QED
    BY <2>1, <2>2
<1>6. CASE x.family = "exact_round"
  <2>1. SettleRound(x, f) = "win" /\ SettleRound(y, f) = "win"
    BY <1>1, <1>6 DEF Settle
  <2> QED
    BY <2>1 DEF SettleRound, Graded
<1>7. CASE x.family = "method"
  <2>1. SettleMethod(x, f) = "win" /\ SettleMethod(y, f) = "win"
    BY <1>1, <1>7 DEF Settle
  <2> QED
    BY <1>7, <2>1 DEF SettleMethod, Graded
<1>8. CASE x.family = "fighter_by_method"
  <2>1. SettleMethod(x, f) = "win" /\ SettleMethod(y, f) = "win"
    BY <1>1, <1>8 DEF Settle
  <2> QED
    BY <1>8, <2>1 DEF SettleMethod, Graded
<1> QED
  BY <1>2, <1>3, <1>4, <1>5, <1>6, <1>7, <1>8

(* How a group is scored depends on the family, on how its selections were *)
(* settled and on which of them won, and on nothing else.                  *)
ResultsIn(M) == {r.settlement : r \in M}

(* Which selections won.                                                   *)
WinnersIn(M) == {r.bet : r \in {x \in M : x.settlement = "win"}}

(* _score_market_group, by that alone.                                     *)
ScoredAs(family, results, winners) ==
  IF "unresolved" \in results /\ results \cap {"win", "loss"} = {} THEN <<"unresolved", None>>
  ELSE IF family \in VoidOnDraw /\ results \cap {"void", "push"} # {} THEN <<"void", None>>
  ELSE IF "push" \in results THEN <<"push", None>>
  ELSE IF "void" \in results THEN <<"void", None>>
  ELSE IF Cardinality(winners) = 1 THEN <<"scored", CHOOSE bet \in winners : TRUE>>
  ELSE IF winners # {} THEN <<"raises", None>>
  ELSE IF family = "exact_round" THEN <<"scored", Selection(family, "other", None)>>
  ELSE <<"unresolved", None>>

(* It is so for a group of one family.                                     *)
LEMMA ScoreGroupIs ==
  ASSUME NEW M, NEW family, M # {}, \A r \in M : r.bet.family = family
  PROVE  ScoreGroup(M) = ScoredAs(family, ResultsIn(M), WinnersIn(M))
<1>1. (CHOOSE r \in M : TRUE) \in M
  OBVIOUS
<1>2. (CHOOSE r \in M : TRUE).bet.family = family
  BY <1>1
<1>3. ScoreGroup(M) = ScoredAs((CHOOSE r \in M : TRUE).bet.family, ResultsIn(M), WinnersIn(M))
  BY DEF ScoreGroup, ScoredAs, ResultsIn, WinnersIn
<1> QED
  BY <1>2, <1>3

(* A group has one winner at most: the metrics never raise.                *)
LEMMA NoneRaises ==
  ASSUME ReportInv, NEW s \in GroupScores(MarketRows(tried))
  PROVE  s[2][1] # "raises"
<1> DEFINE R == MarketRows(tried)
<1>1. IsFiniteSet(R)
  BY RowsAre
<1>2. PICK k \in {GroupKey(r) : r \in R} : s = <<k, ScoreGroup(Members(R, k))>>
  BY <1>1, ScoresFinite
<1>3. PICK r \in R : k = GroupKey(r)
  BY <1>2
<1> DEFINE M == Members(R, k)
           W == WinnersIn(M)
<1>4. r \in M /\ \A q \in M : /\ q \in R /\ q.bout = r.bout /\ q.bet.family = r.bet.family
                              /\ q.bet.line = r.bet.line
  BY <1>3 DEF Members, GroupKey
<1>5. ASSUME NEW x \in W, NEW y \in W PROVE x = y
  <2>1. PICK p \in M : x = p.bet /\ p.settlement = "win"
    BY DEF WinnersIn
  <2>2. PICK q \in M : y = q.bet /\ q.settlement = "win"
    BY DEF WinnersIn
  <2>3. p \in R /\ q \in R /\ p.bout = q.bout /\ x.family = y.family /\ x.line = y.line
    BY <1>4, <2>1, <2>2
  <2>4. SameBout(p, q) /\ x.family \in Families
        /\ x = Selection(x.family, x.outcome, x.line) /\ y = Selection(y.family, y.outcome, y.line)
    BY <2>1, <2>2, <2>3, RowFacts
  <2>5. PICK f : SettleMarket(f, x) = "win" /\ SettleMarket(f, y) = "win"
    BY <2>1, <2>2, <2>4 DEF SameBout
  <2>6. x.outcome = y.outcome
    BY <2>3, <2>4, <2>5, OneWinner
  <2> QED
    BY <2>3, <2>4, <2>6
<1>6. W # {} => Cardinality(W) = 1
  <2> SUFFICES ASSUME W # {} PROVE Cardinality(W) = 1
    OBVIOUS
  <2>1. PICK x \in W : W = {x}
    BY <1>5
  <2> HIDE DEF W
  <2> QED
    BY <2>1, FS_Singleton
<1>7. ScoreGroup(M) = ScoredAs(r.bet.family, ResultsIn(M), W)
  <2> HIDE DEF M
  <2> QED
    BY <1>4, ScoreGroupIs DEF W
<1> HIDE DEF M, W
<1>8. ScoreGroup(M)[1] # "raises"
  BY <1>6, <1>7 DEF ScoredAs
<1> QED
  BY <1>2, <1>8 DEF M

(* A card that is drawn: its rows count on a block of their own.           *)
OnBlock(r, x) == [r EXCEPT !.block = x]

(* The rows of a card, on a block of their own.                            *)
Relabelled(Q, x) == {OnBlock(r, x) : r \in Q}

(* A settled selection, as a record.                                       *)
RowLike(r) ==
  /\ r = [k \in DOMAIN r |-> r[k]]
  /\ DOMAIN r = {"event", "block", "bout", "season", "variant", "bet", "settlement"}

(* Another block changes the block alone.                                  *)
LEMMA OnBlockIs ==
  ASSUME NEW r, RowLike(r), NEW x
  PROVE  LET q == OnBlock(r, x) IN
         /\ RowLike(q) /\ q.block = x /\ q.bout = r.bout /\ q.bet = r.bet
         /\ q.settlement = r.settlement /\ OnBlock(q, r.block) = r
BY DEF OnBlock, RowLike

(* On another block no more groups are scored.                             *)
LEMMA RelabelledFewer ==
  ASSUME NEW Q, IsFiniteSet(Q), NEW e, NEW x, \A r \in Q : RowLike(r) /\ r.block = e
  PROVE  /\ IsFiniteSet(Relabelled(Q, x))
         /\ Cardinality(Scored(GroupScores(Relabelled(Q, x)))) <= Cardinality(Scored(GroupScores(Q)))
<1> DEFINE P == Relabelled(Q, x)
           D == Scored(GroupScores(Q))
           E == Scored(GroupScores(P))
           h == [s \in D |-> <<<<x, s[1][2], s[1][3], s[1][4]>>, s[2]>>]
           f == [r \in Q |-> OnBlock(r, x)]
<1>1. IsFiniteSet(P)
  <2>1. IsFiniteSet({f[r] : r \in Q})
    <3> HIDE DEF f
    <3> QED
      BY ImageFinite
  <2>2. {f[r] : r \in Q} = P
    BY DEF Relabelled
  <2> QED
    BY <2>1, <2>2
<1>2. ASSUME NEW r \in Q
      PROVE  /\ OnBlock(r, x) \in P
             /\ ScoreGroup(Members(P, GroupKey(OnBlock(r, x)))) = ScoreGroup(Members(Q, GroupKey(r)))
  <2> DEFINE q == OnBlock(r, x)
             M == Members(Q, GroupKey(r))
             N == Members(P, GroupKey(q))
  <2>1. q \in P
    BY DEF Relabelled
  <2>2. q.block = x /\ q.bout = r.bout /\ q.bet = r.bet /\ r.block = e
    BY OnBlockIs
  <2> HIDE DEF q
  <2>3. ASSUME NEW m \in M
        PROVE  OnBlock(m, x) \in N /\ OnBlock(m, x).bet = m.bet /\ OnBlock(m, x).settlement = m.settlement
    <3>1. m \in Q /\ RowLike(m) /\ m.block = e /\ GroupKey(m) = GroupKey(r)
      BY DEF Members
    <3>2. OnBlock(m, x).block = x /\ OnBlock(m, x).bout = m.bout /\ OnBlock(m, x).bet = m.bet
          /\ OnBlock(m, x).settlement = m.settlement
      BY <3>1, OnBlockIs
    <3>3. OnBlock(m, x) \in P
      BY <3>1 DEF Relabelled
    <3>4. GroupKey(OnBlock(m, x)) = GroupKey(q)
      BY <2>2, <3>1, <3>2 DEF GroupKey
    <3> QED
      BY <3>2, <3>3, <3>4 DEF Members
  <2>4. ASSUME NEW n \in N PROVE \E m \in M : n.bet = m.bet /\ n.settlement = m.settlement
    <3>1. PICK m \in Q : n = OnBlock(m, x)
      BY DEF Members, Relabelled
    <3>2. GroupKey(n) = GroupKey(q)
      BY DEF Members
    <3>3. RowLike(m) /\ m.block = e
      BY <3>1
    <3>4. n.bout = m.bout /\ n.bet = m.bet /\ n.settlement = m.settlement
      BY <3>1, <3>3, OnBlockIs
    <3>5. GroupKey(m) = GroupKey(r)
      BY <2>2, <3>2, <3>3, <3>4 DEF GroupKey
    <3> QED
      BY <3>4, <3>5 DEF Members
  <2>5. r \in M /\ q \in N
    BY <2>1 DEF Members
  <2>6. (\A m \in M : m.bet.family = r.bet.family) /\ \A n \in N : n.bet.family = r.bet.family
    BY <2>2 DEF Members, GroupKey
  <2> HIDE DEF M, N, P
  <2>7. ResultsIn(M) = ResultsIn(N)
    BY <2>3, <2>4 DEF ResultsIn
  <2>8. WinnersIn(M) = WinnersIn(N)
    <3>1. ASSUME NEW w \in WinnersIn(M) PROVE w \in WinnersIn(N)
      <4>1. PICK m \in M : w = m.bet /\ m.settlement = "win"
        BY DEF WinnersIn
      <4> QED
        BY <2>3, <4>1 DEF WinnersIn
    <3>2. ASSUME NEW w \in WinnersIn(N) PROVE w \in WinnersIn(M)
      <4>1. PICK n \in N : w = n.bet /\ n.settlement = "win"
        BY DEF WinnersIn
      <4> QED
        BY <2>4, <4>1 DEF WinnersIn
    <3> QED
      BY <3>1, <3>2
  <2>9. /\ ScoreGroup(M) = ScoredAs(r.bet.family, ResultsIn(M), WinnersIn(M))
        /\ ScoreGroup(N) = ScoredAs(r.bet.family, ResultsIn(N), WinnersIn(N))
    <3>1. M # {} /\ N # {}
      BY <2>5
    <3> QED
      BY <2>6, <3>1, ScoreGroupIs
  <2> QED
    BY <2>1, <2>7, <2>8, <2>9 DEF M, N, q, P
<1>3. ASSUME NEW t \in E PROVE t \in {h[s] : s \in D}
  <2>1. PICK q \in P : t = <<GroupKey(q), ScoreGroup(Members(P, GroupKey(q)))>> /\ t[2][1] = "scored"
    <3> HIDE DEF P
    <3> QED
      BY <1>1, ScoreFrom
  <2>2. PICK r \in Q : q = OnBlock(r, x)
    BY DEF Relabelled
  <2> DEFINE s == <<GroupKey(r), ScoreGroup(Members(Q, GroupKey(r)))>>
  <2>3. t = <<GroupKey(q), s[2]>>
    <3> HIDE DEF P
    <3> QED
      BY <1>2, <2>1, <2>2
  <2>4. s[2][1] = "scored"
    BY <2>1, <2>3
  <2>5. s \in D
    BY <2>4, ScoreFrom
  <2>6. RowLike(r)
    OBVIOUS
  <2>7. q.block = x /\ q.bout = r.bout /\ q.bet = r.bet
    BY <2>2, <2>6, OnBlockIs
  <2>8. GroupKey(q) = <<x, s[1][2], s[1][3], s[1][4]>>
    BY <2>7 DEF GroupKey
  <2> HIDE DEF s, D, E
  <2> QED
    BY <2>3, <2>5, <2>8
<1>4. IsFiniteSet(D) /\ IsFiniteSet({h[s] : s \in D}) /\ Cardinality({h[s] : s \in D}) <= Cardinality(D)
  <2>1. IsFiniteSet(D)
    BY ScoresFinite
  <2> HIDE DEF h, D
  <2> QED
    BY <2>1, ImageFinite
<1>5. IsFiniteSet(E) /\ Cardinality(E) <= Cardinality({h[s] : s \in D})
  <2>1. E \subseteq {h[s] : s \in D}
    BY <1>3
  <2> HIDE DEF h, D, E
  <2> QED
    BY <1>4, <2>1, FS_Subset
<1>6. Cardinality(E) <= Cardinality(D)
  <2>1. Cardinality(E) \in Nat /\ Cardinality(D) \in Nat /\ Cardinality({h[s] : s \in D}) \in Nat
    <3> HIDE DEF h, D, E
    <3> QED
      BY <1>4, <1>5, FS_CardinalityType
  <2> HIDE DEF h, D, E
  <2> QED
    BY <1>4, <1>5, <2>1
<1> QED
  BY <1>1, <1>6

(* A card is scored as it is without the other cards.                      *)
LEMMA RelabelledAlike ==
  ASSUME NEW Q, IsFiniteSet(Q), NEW e, NEW x, \A r \in Q : RowLike(r) /\ r.block = e
  PROVE  Cardinality(Scored(GroupScores(Relabelled(Q, x)))) = Cardinality(Scored(GroupScores(Q)))
<1> DEFINE P == Relabelled(Q, x)
<1>1. IsFiniteSet(P) /\ Cardinality(Scored(GroupScores(P))) <= Cardinality(Scored(GroupScores(Q)))
  BY RelabelledFewer
<1>2. \A r \in P : RowLike(r) /\ r.block = x
  BY OnBlockIs DEF Relabelled
<1>3. Relabelled(P, e) = Q
  <2>1. ASSUME NEW r \in Q PROVE r \in Relabelled(P, e)
    <3>1. OnBlock(OnBlock(r, x), e) = r /\ OnBlock(r, x) \in P
      BY OnBlockIs DEF Relabelled
    <3> HIDE DEF P
    <3> QED
      BY <3>1 DEF Relabelled
  <2>2. ASSUME NEW q \in Relabelled(P, e) PROVE q \in Q
    <3>1. PICK p \in P : q = OnBlock(p, e)
      BY DEF Relabelled
    <3>2. PICK r \in Q : p = OnBlock(r, x)
      BY DEF Relabelled
    <3>3. RowLike(r) /\ r.block = e
      OBVIOUS
    <3> HIDE DEF P
    <3> QED
      BY <3>1, <3>2, <3>3, OnBlockIs
  <2> QED
    BY <2>1, <2>2
<1> HIDE DEF P
<1>4. Cardinality(Scored(GroupScores(Relabelled(P, e)))) <= Cardinality(Scored(GroupScores(P)))
  BY <1>1, <1>2, RelabelledFewer
<1>5. Cardinality(Scored(GroupScores(P))) \in Nat /\ Cardinality(Scored(GroupScores(Q))) \in Nat
  BY <1>1, ScoresFinite, FS_CardinalityType
<1>6. Cardinality(Scored(GroupScores(P))) = Cardinality(Scored(GroupScores(Q)))
  BY <1>1, <1>3, <1>4, <1>5
<1> QED
  BY <1>6 DEF P

(* What is scored of the cards that are drawn, each as often as it is.     *)
LEMMA DrawsScored ==
  ASSUME NEW R, IsFiniteSet(R), \A r \in R : RowLike(r) /\ r.block = r.event,
         NEW n \in Nat, NEW draw \in [1 .. n -> {r.event : r \in R}]
  PROVE  Cardinality(Scored(GroupScores(DrawnRows(R, draw))))
           = Total([i \in 1 .. n |-> Cardinality(Scored(GroupScores(OnEvent(R, draw[i]))))])
<1> DEFINE K == 1 .. n
           part(i) == Relabelled(OnEvent(R, draw[i]), <<draw[i], i>>)
           W == DrawnRows(R, draw)
           kind == [q \in W |-> q.block[2]]
<1>1. W = UNION {part(i) : i \in K}
  <2>1. DOMAIN draw = K
    OBVIOUS
  <2> DEFINE drawn(i) == {[r EXCEPT !.block = <<draw[i], i>>] : r \in OnEvent(R, draw[i])}
  <2>2. \A i \in K : part(i) = drawn(i)
    BY DEF Relabelled, OnBlock
  <2>3. W = UNION {drawn(i) : i \in K}
    <3>1. W = UNION {drawn(i) : i \in DOMAIN draw}
      BY DEF DrawnRows
    <3> HIDE DEF drawn, W
    <3> QED
      BY <2>1, <3>1
  <2> HIDE DEF part, W, drawn, K
  <2> QED
    BY <2>2, <2>3
<1>2. ASSUME NEW i \in K
      PROVE  /\ IsFiniteSet(OnEvent(R, draw[i])) /\ IsFiniteSet(part(i))
             /\ \A r \in OnEvent(R, draw[i]) : RowLike(r) /\ r.block = draw[i]
             /\ \A q \in part(i) : q.block = <<draw[i], i>>
  <2>1. IsFiniteSet(OnEvent(R, draw[i])) /\ \A r \in OnEvent(R, draw[i]) : RowLike(r) /\ r.block = draw[i]
    BY FS_Subset DEF OnEvent
  <2>2. IsFiniteSet(part(i))
    BY <2>1, RelabelledFewer
  <2>3. \A q \in part(i) : q.block = <<draw[i], i>>
    BY <2>1, OnBlockIs DEF Relabelled
  <2> QED
    BY <2>1, <2>2, <2>3
<1>3. IsFiniteSet(K)
  BY FS_Interval
<1>4. IsFiniteSet(W)
  <2> DEFINE f == [i \in K |-> part(i)]
  <2>1. IsFiniteSet({f[i] : i \in K})
    <3> HIDE DEF f, K
    <3> QED
      BY <1>3, ImageFinite
  <2>2. {f[i] : i \in K} = {part(i) : i \in K}
    <3> HIDE DEF part, K
    <3> QED
      OBVIOUS
  <2>3. \A T \in {part(i) : i \in K} : IsFiniteSet(T)
    <3> HIDE DEF part, K
    <3> QED
      BY <1>2
  <2> HIDE DEF part, K, W, f
  <2> QED
    BY <1>1, <2>1, <2>2, <2>3, FS_UNION
<1>5. ASSUME NEW q \in W PROVE \E i \in K : q \in part(i) /\ q.block = <<draw[i], i>>
  <2>1. PICK i \in K : q \in part(i)
    <3> HIDE DEF part, W
    <3> QED
      BY <1>1, <1>5
  <2> HIDE DEF part, W
  <2> QED
    BY <1>2, <2>1
<1>6. kind \in [W -> K]
  <2>1. ASSUME NEW q \in W PROVE q.block[2] \in K
    <3>1. PICK i \in K : q.block = <<draw[i], i>>
      BY <1>5
    <3> QED
      BY <3>1
  <2> HIDE DEF W, K
  <2> QED
    BY <2>1
<1>7. ASSUME NEW p \in W, NEW q \in W, GroupKey(p) = GroupKey(q) PROVE kind[p] = kind[q]
  <2>1. p.block = q.block
    BY <1>7 DEF GroupKey
  <2> HIDE DEF W
  <2> QED
    BY <2>1
<1>8. ASSUME NEW i \in K PROVE OfKind(W, kind, i) = part(i)
  <2>1. ASSUME NEW q \in W, kind[q] = i PROVE q \in part(i)
    <3>1. PICK j \in K : q \in part(j) /\ q.block = <<draw[j], j>>
      BY <1>5
    <3>2. kind[q] = j
      <4> HIDE DEF W, part
      <4> QED
        BY <3>1
    <3> HIDE DEF W, part, kind, K
    <3> QED
      BY <2>1, <3>1, <3>2
  <2>2. ASSUME NEW q \in part(i) PROVE q \in W /\ kind[q] = i
    <3>1. q.block = <<draw[i], i>>
      BY <1>2
    <3>2. q \in W
      <4> HIDE DEF W, part
      <4> QED
        BY <1>1
    <3> HIDE DEF W, part
    <3> QED
      BY <3>1, <3>2
  <2> HIDE DEF W, part, kind, K
  <2> QED
    BY <2>1, <2>2 DEF OfKind
<1>9. ASSUME NEW i \in K
      PROVE  Cardinality(Scored(GroupScores(part(i)))) = Cardinality(Scored(GroupScores(OnEvent(R, draw[i]))))
  BY <1>2, RelabelledAlike
<1> HIDE DEF W, kind, part, K
<1>10. Total([i \in K |-> Cardinality(Scored(GroupScores(OfKind(W, kind, i))))]) = Cardinality(Scored(GroupScores(W)))
  BY <1>3, <1>4, <1>6, <1>7, ScoresByKind
<1>11. [i \in K |-> Cardinality(Scored(GroupScores(OfKind(W, kind, i))))]
         = [i \in K |-> Cardinality(Scored(GroupScores(OnEvent(R, draw[i]))))]
  BY <1>8, <1>9
<1>12. Cardinality(Scored(GroupScores(W))) = Total([i \in K |-> Cardinality(Scored(GroupScores(OnEvent(R, draw[i]))))])
  BY <1>10, <1>11
<1> QED
  BY <1>12 DEF W, K

(* What the bets of one card win.                                          *)
CardBets(e) == Only(AllBets(tried), {b \in ToSet(AllBets(tried)) : b.event = e})

(* What they win.                                                          *)
CardProfit(e) == SumOf(CardBets(e), Gains(ToSet(AllBets(tried))))

(* Those bets, on a block of their own.                                    *)
DrawnBets(e, x) == [j \in DOMAIN CardBets(e) |-> [CardBets(e)[j] EXCEPT !.block = x]]

(* Another block leaves the row of a bet as it is.                         *)
LEMMA BetMoves ==
  ASSUME ReportInv, NEW b \in ToSet(AllBets(tried)), NEW x
  PROVE  [b EXCEPT !.block = x].row = b.row
<1>1. PICK i \in DOMAIN tried : BetOf(b, tried[i])
  BY BetsAllAre
<1>2. PICK row : b = Bet(tried[i], row)
  BY <1>1 DEF BetOf
<1> QED
  BY <1>2 DEF Bet

(* Bets that are those of a card, but for the block.                       *)
DrawnFrom(N, e) ==
  /\ N \in Seq(ToSet(N)) /\ DOMAIN N = DOMAIN CardBets(e)
  /\ \A j \in DOMAIN CardBets(e) : N[j].row = CardBets(e)[j].row
  /\ \A u \in ToSet(N) : u.row.quote.odds \in Int

(* A card that is drawn has the bets of that card.                         *)
LEMMA CardBetsAre ==
  ASSUME ReportInv, NEW e, NEW x
  PROVE  /\ CardBets(e) \in Seq(ToSet(AllBets(tried)))
         /\ DrawnFrom(DrawnBets(e, x), e)
<1> DEFINE bets == AllBets(tried)
           S == ToSet(bets)
           B == CardBets(e)
           N == DrawnBets(e, x)
<1>1. B \in Seq(S)
  <2>1. bets \in Seq(S)
    BY BetsAllAre
  <2> DEFINE T == {b \in S : b.event = e}
  <2>2. Only(bets, T) \in Seq(S)
    <3> HIDE DEF bets, S, T
    <3> QED
      BY <2>1, OnlyOf
  <2> QED
    BY <2>2 DEF CardBets
<1>2. \A j \in DOMAIN B : B[j] \in S
  <2> HIDE DEF B, S
  <2> QED
    BY <1>1, SeqIs
<1>3. N = [j \in DOMAIN B |-> [B[j] EXCEPT !.block = x]]
  BY DEF DrawnBets
<1>4. DOMAIN N = DOMAIN B /\ N = [j \in DOMAIN N |-> N[j]]
  <2> HIDE DEF N, B
  <2> QED
    BY <1>3
<1>5. N \in Seq(ToSet(N))
  <2> HIDE DEF N, B, S
  <2> QED
    BY <1>1, <1>4, Mapped
<1>6. ASSUME NEW j \in DOMAIN B PROVE N[j].row = B[j].row
  <2>1. N[j] = [B[j] EXCEPT !.block = x]
    <3> HIDE DEF N, B
    <3> QED
      BY <1>3
  <2>2. B[j] \in ToSet(AllBets(tried))
    BY <1>2
  <2> DEFINE b == B[j]
  <2>3. [b EXCEPT !.block = x].row = b.row
    <3> HIDE DEF b
    <3> QED
      BY <2>2, BetMoves DEF b
  <2> HIDE DEF N, B
  <2> QED
    BY <2>1, <2>3
<1>7. ASSUME NEW u \in ToSet(N) PROVE u.row.quote.odds \in Int
  <2>1. PICK j \in DOMAIN B : u = N[j]
    <3> HIDE DEF N, B
    <3> QED
      BY <1>4 DEF ToSet
  <2>2. Gainful(S)
    BY BetFacts
  <2>3. u.row = B[j].row /\ B[j] \in S
    BY <1>2, <1>6, <2>1
  <2> HIDE DEF N, B, S
  <2> QED
    BY <2>2, <2>3 DEF Gainful
<1> QED
  BY <1>1, <1>4, <1>5, <1>6, <1>7 DEF DrawnFrom

(* resample_event_blocks: the cards that are drawn, one after the other.   *)
LEMMA DrawnIs ==
  ASSUME ReportInv, NEW n \in Nat, NEW draw, DOMAIN draw = 1 .. n
  PROVE  Drawn(AllBets(tried), draw) = FlattenSeq([i \in 1 .. n |-> DrawnBets(draw[i], <<draw[i], i>>)])
<1> DEFINE bets == AllBets(tried)
           S == ToSet(bets)
           kept(e) == FlattenSeq([j \in DOMAIN bets |-> IF bets[j].event = e THEN <<bets[j]>> ELSE <<>>])
           on(i) == [j \in DOMAIN kept(draw[i]) |-> [kept(draw[i])[j] EXCEPT !.block = <<draw[i], i>>]]
<1>1. ASSUME NEW e PROVE kept(e) = CardBets(e)
  <2>1. \A j \in DOMAIN bets : bets[j] \in {b \in S : b.event = e} <=> bets[j].event = e
    BY DEF ToSet
  <2> HIDE DEF S
  <2>2. [j \in DOMAIN bets |-> IF bets[j].event = e THEN <<bets[j]>> ELSE <<>>]
          = [j \in DOMAIN bets |-> IF bets[j] \in {b \in S : b.event = e} THEN <<bets[j]>> ELSE <<>>]
    BY <2>1
  <2> QED
    BY <2>2 DEF CardBets, Only, S
<1>2. Drawn(bets, draw) = FlattenSeq([i \in DOMAIN draw |-> on(i)])
  BY DEF Drawn, Kept
<1>3. ASSUME NEW i \in 1 .. n PROVE on(i) = DrawnBets(draw[i], <<draw[i], i>>)
  <2> HIDE DEF kept
  <2> QED
    BY <1>1 DEF DrawnBets
<1> HIDE DEF on
<1>4. [i \in DOMAIN draw |-> on(i)] = [i \in 1 .. n |-> DrawnBets(draw[i], <<draw[i], i>>)]
  BY <1>3
<1> QED
  BY <1>2, <1>4

(* A draw wins what its cards win, each as often as it is drawn.           *)
LEMMA DrawsWin ==
  ASSUME ReportInv, NEW n \in Nat, NEW draw, DOMAIN draw = 1 .. n
  PROVE  BettingMetrics(Drawn(AllBets(tried), draw)).profit = Total([i \in 1 .. n |-> CardProfit(draw[i])])
<1> DEFINE S == ToSet(AllBets(tried))
           ss == [i \in 1 .. n |-> DrawnBets(draw[i], <<draw[i], i>>)]
           all == Drawn(AllBets(tried), draw)
           U == ToSet(all)
<1>1. all = FlattenSeq(ss)
  BY DrawnIs
<1>2. ss = [i \in 1 .. n |-> ss[i]] /\ \A i \in 1 .. n : ss[i] = DrawnBets(draw[i], <<draw[i], i>>)
  OBVIOUS
<1> HIDE DEF ss
<1>21. \A i \in 1 .. n : DrawnFrom(ss[i], draw[i])
  <2>1. \A e, x : DrawnFrom(DrawnBets(e, x), e)
    BY CardBetsAre
  <2> QED
    BY <1>2, <2>1
<1>3. \A i \in 1 .. n : ss[i] \in Seq(ToSet(ss[i]))
  BY <1>21 DEF DrawnFrom
<1>4. /\ all \in Seq(U) /\ ss \in Seq(Seq(U))
      /\ U = UNION {ToSet(ss[i]) : i \in 1 .. n}
  <2> HIDE DEF all
  <2> QED
    BY <1>1, <1>2, <1>3, FlattenParts
<1>5. Gainful(U)
  <2>1. ASSUME NEW u \in U PROVE u.row.quote.odds \in Int
    <3>1. PICK i \in 1 .. n : u \in ToSet(ss[i])
      <4> HIDE DEF U
      <4> QED
        BY <1>4, <2>1
    <3> QED
      BY <1>21, <3>1 DEF DrawnFrom
  <2> HIDE DEF U
  <2> QED
    BY <2>1 DEF Gainful
<1> HIDE DEF U, all
<1>6. BettingMetrics(all).profit = SumOf(all, Gains(U)) /\ Gains(U) \in [U -> Int]
  BY <1>4, <1>5, BettingIs, GainsAre
<1>7. SumOf(FlattenSeq(ss), Gains(U)) = Total([i \in DOMAIN ss |-> SumOf(ss[i], Gains(U))])
  BY <1>4, <1>6, SumFlatten
<1>8. ASSUME NEW i \in 1 .. n PROVE SumOf(ss[i], Gains(U)) = CardProfit(draw[i])
  <2> DEFINE B == CardBets(draw[i])
             N == ss[i]
  <2>1. /\ B \in Seq(S) /\ N \in Seq(ToSet(N)) /\ DOMAIN N = DOMAIN B
        /\ \A j \in DOMAIN B : N[j].row = B[j].row
    BY <1>21, CardBetsAre DEF DrawnFrom
  <2>2. ToSet(N) \subseteq U
    BY <1>4
  <2> HIDE DEF N, B, S
  <2>3. \A j \in DOMAIN B : B[j] \in S /\ N[j] \in U
    <3>1. \A j \in DOMAIN B : B[j] \in S
      BY <2>1, SeqIs
    <3>2. \A j \in DOMAIN B : N[j] \in ToSet(N)
      BY <2>1, SeqIs
    <3> QED
      BY <2>2, <3>1, <3>2
  <2>4. ASSUME NEW j \in DOMAIN B PROVE Gains(U)[N[j]] = Gains(S)[B[j]]
    BY <2>1, <2>3 DEF Gains, Resolved
  <2>5. [j \in DOMAIN N |-> Gains(U)[N[j]]] = [j \in DOMAIN B |-> Gains(S)[B[j]]]
    BY <2>1, <2>4
  <2> QED
    BY <2>5 DEF SumOf, CardProfit, N, B, S
<1>9. DOMAIN ss = 1 .. n
  BY <1>2
<1>10. [i \in DOMAIN ss |-> SumOf(ss[i], Gains(U))] = [i \in 1 .. n |-> CardProfit(draw[i])]
  BY <1>8, <1>9
<1> QED
  BY <1>1, <1>6, <1>7, <1>10 DEF all

(* A card that is drawn alone wins what its bets do.                       *)
LEMMA CardWins ==
  ASSUME ReportInv, NEW e
  PROVE  BettingMetrics(Drawn(AllBets(tried), <<e>>)).profit = CardProfit(e)
<1>1. DOMAIN <<e>> = 1 .. 1 /\ <<e>>[1] = e
  OBVIOUS
<1>2. BettingMetrics(Drawn(AllBets(tried), <<e>>)).profit = Total([i \in 1 .. 1 |-> CardProfit(<<e>>[i])])
  BY <1>1, DrawsWin
<1>3. CardProfit(e) \in Int
  <2>1. CardBets(e) \in Seq(ToSet(AllBets(tried))) /\ Gainful(ToSet(AllBets(tried)))
    BY CardBetsAre, BetFacts
  <2> QED
    BY <2>1, GainsAre, SumInt DEF CardProfit
<1>4. [i \in 1 .. 1 |-> CardProfit(<<e>>[i])] = [i \in {1} |-> IF i = 1 THEN CardProfit(e) ELSE 0]
  <2>1. 1 .. 1 = {1}
    OBVIOUS
  <2> QED
    BY <2>1
<1>5. Total([i \in {1} |-> IF i = 1 THEN CardProfit(e) ELSE 0]) = CardProfit(e)
  <2>1. IsFiniteSet({1})
    BY FS_Singleton
  <2> QED
    BY <1>3, <2>1, TotalSingle
<1> QED
  BY <1>2, <1>4, <1>5

(* A card that is drawn several times counts several times: its scores.    *)
LEMMA ScoresDrawn ==
  ASSUME ReportInv
  PROVE  LET rows == MarketRows(tried)
             scoresOn == [e \in {r.event : r \in rows} |-> Cardinality(Scored(GroupScores(OnEvent(rows, e))))]
         IN \A draw \in Draws(DOMAIN scoresOn) :
              Cardinality(Scored(GroupScores(DrawnRows(rows, draw))))
                = Total([i \in DOMAIN draw |-> scoresOn[draw[i]]])
<1> DEFINE rows == MarketRows(tried)
           E == {r.event : r \in rows}
           scoresOn == [e \in E |-> Cardinality(Scored(GroupScores(OnEvent(rows, e))))]
           n == Cardinality(E)
<1>1. IsFiniteSet(rows) /\ \A r \in rows : RowLike(r) /\ r.block = r.event
  BY RowsAre, RowFacts DEF RowLike
<1>2. n \in Nat
  <2> DEFINE f == [r \in rows |-> r.event]
  <2>1. IsFiniteSet({f[r] : r \in rows})
    <3> HIDE DEF f, rows
    <3> QED
      BY <1>1, ImageFinite
  <2>2. {f[r] : r \in rows} = E
    OBVIOUS
  <2> HIDE DEF E, f
  <2> QED
    BY <2>1, <2>2, FS_CardinalityType
<1> HIDE DEF rows, n
<1>3. ASSUME NEW draw \in [1 .. n -> E]
      PROVE  Cardinality(Scored(GroupScores(DrawnRows(rows, draw))))
               = Total([i \in DOMAIN draw |-> scoresOn[draw[i]]])
  <2>1. Cardinality(Scored(GroupScores(DrawnRows(rows, draw))))
          = Total([i \in 1 .. n |-> Cardinality(Scored(GroupScores(OnEvent(rows, draw[i]))))])
    BY <1>1, <1>2, DrawsScored
  <2>2. DOMAIN draw = 1 .. n /\ \A i \in 1 .. n : draw[i] \in E
    OBVIOUS
  <2>3. \A i \in 1 .. n : scoresOn[draw[i]] = Cardinality(Scored(GroupScores(OnEvent(rows, draw[i]))))
    BY <2>2
  <2> HIDE DEF E, scoresOn
  <2>4. [i \in DOMAIN draw |-> scoresOn[draw[i]]]
          = [i \in 1 .. n |-> Cardinality(Scored(GroupScores(OnEvent(rows, draw[i]))))]
    BY <2>2, <2>3
  <2> QED
    BY <2>1, <2>4
<1>4. DOMAIN scoresOn = E
  OBVIOUS
<1>5. \A draw \in Draws(DOMAIN scoresOn) :
        Cardinality(Scored(GroupScores(DrawnRows(rows, draw)))) = Total([i \in DOMAIN draw |-> scoresOn[draw[i]]])
  <2> HIDE DEF scoresOn
  <2> QED
    BY <1>3, <1>4 DEF Draws, n
<1> QED
  BY <1>5 DEF rows

(* A card that is drawn several times counts several times: its bets.      *)
LEMMA GainsDrawn ==
  ASSUME ReportInv
  PROVE  LET bets == AllBets(tried)
             gainOn == [e \in EventsWithBets(bets) |-> BettingMetrics(Drawn(bets, <<e>>)).profit]
         IN \A draw \in Draws(DOMAIN gainOn) :
              BettingMetrics(Drawn(bets, draw)).profit = Total([i \in DOMAIN draw |-> gainOn[draw[i]]])
<1> DEFINE bets == AllBets(tried)
           E == EventsWithBets(bets)
           gainOn == [e \in E |-> BettingMetrics(Drawn(bets, <<e>>)).profit]
           n == Cardinality(E)
<1>1. n \in Nat
  <2> DEFINE f == [i \in DOMAIN bets |-> bets[i].event]
  <2>1. IsFiniteSet(DOMAIN bets)
    BY BetsAllAre, SeqIs
  <2>2. IsFiniteSet({f[i] : i \in DOMAIN bets})
    <3> HIDE DEF f, bets
    <3> QED
      BY <2>1, ImageFinite
  <2>3. {f[i] : i \in DOMAIN bets} = E
    <3> HIDE DEF bets
    <3> QED
      BY DEF EventsWithBets, ToSet
  <2> HIDE DEF E, f
  <2> QED
    BY <2>2, <2>3, FS_CardinalityType
<1>2. \A e \in E : gainOn[e] = CardProfit(e)
  <2>1. \A e : BettingMetrics(Drawn(bets, <<e>>)).profit = CardProfit(e)
    BY CardWins
  <2> HIDE DEF bets, E
  <2> QED
    BY <2>1
<1>3. DOMAIN gainOn = E
  OBVIOUS
<1> HIDE DEF gainOn, E, n
<1>4. ASSUME NEW draw \in [1 .. n -> E]
      PROVE  BettingMetrics(Drawn(bets, draw)).profit = Total([i \in DOMAIN draw |-> gainOn[draw[i]]])
  <2>1. DOMAIN draw = 1 .. n /\ \A i \in 1 .. n : draw[i] \in E
    OBVIOUS
  <2>2. BettingMetrics(Drawn(bets, draw)).profit = Total([i \in 1 .. n |-> CardProfit(draw[i])])
    BY <1>1, <2>1, DrawsWin
  <2>3. [i \in DOMAIN draw |-> gainOn[draw[i]]] = [i \in 1 .. n |-> CardProfit(draw[i])]
    BY <1>2, <2>1
  <2> QED
    BY <2>2, <2>3
<1>5. \A draw \in Draws(DOMAIN gainOn) :
        BettingMetrics(Drawn(bets, draw)).profit = Total([i \in DOMAIN draw |-> gainOn[draw[i]]])
  BY <1>3, <1>4 DEF Draws, n
<1> QED
  BY <1>5 DEF gainOn, E

(* Every report adds up.                                                   *)
LEMMA AddsUpAlways == ASSUME ReportInv PROVE ReportAddsUp
<1>1. SlicesReconcile(tried)
  BY Reconciled
<1>2. \A s \in GroupScores(MarketRows(tried)) : s[2][1] # "raises"
  BY NoneRaises
<1>3. \A f \in Families : LET b == Breakdowns(tried) IN
        Total([y \in DOMAIN b.years |-> b.years[y].outcome.markets[f].scored]) = b.markets[f].outcome.scored
  BY ScoresAddUp
<1> QED
  BY <1>1, <1>2, <1>3, BettingAddsUp, UniversesAddUp, SelectionsAddUp, ScoresDrawn, GainsDrawn DEF ReportAddsUp

(* Every report adds up, whatever the programme, the cases and the prices, *)
(* the retries of the bootstrap and the cards that it draws                *)
(* (assert_breakdowns_reconcile never fires).                              *)
THEOREM ReportsAddUp == ReportSpec => []ReportAddsUp
<1>1. ReportInit => ReportInv
  <2>1. Len(ToAttempt) \in Nat
    BY ToAttemptOnce, LenProperties
  <2>2. <<>> \in Seq(ToSet(<<>>)) /\ Len(<<>>) = 0 /\ DOMAIN <<>> = {}
    OBVIOUS
  <2> QED
    BY <2>1, <2>2 DEF ReportInit, ReportInv
<1>2. ReportInv /\ [ReportNext]_reportVars => ReportInv'
  <2>1. ReportInv /\ DrawCards => ReportInv'
    BY ReportKept DEF DrawCards
  <2>2. ReportInv /\ UNCHANGED reportVars => ReportInv'
    BY ReportKept DEF reportVars
  <2> QED
    BY <2>1, <2>2, AttemptBoutKeeps DEF ReportNext
<1>3. ReportInv => ReportAddsUp
  BY AddsUpAlways
<1> QED
  BY <1>1, <1>2, <1>3, PTL DEF ReportSpec
=============================================================================
