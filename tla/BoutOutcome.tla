----------------------------- MODULE BoutOutcome ----------------------------
(***************************************************************************)
(* What a bout's outcome is worth: the facts about it, the settlement of a *)
(* selection, the label and the fine atom it trains as, and the atoms that *)
(* the price of a selection sums.  Prices and settlements are computed by  *)
(* parts of the program that share no code; that they agree is the point.  *)
(*                                                                         *)
(* Source: markets/settlement.py with the rule sets of settlement_v1.yaml, *)
(* markets/derive.py, domain/markets.py, labels/outcomes.py,               *)
(* features/duration.py, modeling/joint.py.                                *)
(*                                                                         *)
(* Clocks count units, RoundUnits to a round; probabilities are sets of    *)
(* atoms, whose masses add up.  A selection is [family, outcome, line],    *)
(* the line of a total in half rounds.                                     *)
(***************************************************************************)
EXTENDS Naturals, FiniteSets, Sequences, Nothing

CONSTANTS
  RoundUnits,     \* round_seconds, in the model's unit
  Rounds,         \* scheduled_rounds of the bouts, within {3, 5}
  RuleSets        \* exact_half_result of the rule sets: "under" (mma_generic),
                  \* "void" (bodog_mma)

ASSUME OutcomeAssumption ==
  /\ RoundUnits \in Nat \ {0} /\ RoundUnits % 2 = 0
  /\ Rounds \subseteq {3, 5} /\ RuleSets \subseteq {"under", "void", "push", "over"}
  /\ None \notin Nat
  /\ None \notin {"decisive", "draw", "no_contest", "a", "b", "ko_tko", "submission", "other_stoppage",
                  "decision", "technical_decision", "technical_draw"}

VARIABLE facts    \* the BoutSettlementFacts known of one bout

Sides == {"a", "b"}
Finishes == {"ko_tko", "submission", "other_stoppage"}
Decisive == Finishes \cup {"decision", "technical_decision"}
Methods == Decisive \cup {"technical_draw"}
Lines == {3, 5}

Unknown(r) ==
  [rounds |-> r, cancelled |-> FALSE, pending |-> FALSE, class |-> None,
   winner |-> None, method |-> None, round |-> None, inRound |-> None,
   total |-> None]
-----------------------------------------------------------------------------
(* Elapsed units that a round and its clock stand for; end of round r and  *)
(* the start of round r + 1 are one moment (clock_pairs_for_total).        *)
Elapsed(round, inRound) == (round - 1) * RoundUnits + inRound

ClockPairs(t, r) ==
  {p \in (1 .. r) \X (0 .. RoundUnits) :
     Elapsed(p[1], p[2]) = t /\ (t = 0 => p = <<1, 0>>)}

(* Whatever is given of the round, its clock and the total is in range,    *)
(* and some moment agrees with all of it.                                  *)
ClockAgrees(f) ==
  /\ f.round # None => f.round \in 1 .. f.rounds
  /\ f.inRound # None => f.inRound \in 0 .. RoundUnits
  /\ f.total # None =>
       /\ f.total \in 0 .. f.rounds * RoundUnits
       /\ \E p \in ClockPairs(f.total, f.rounds) :
            (f.round \in {None, p[1]}) /\ (f.inRound \in {None, p[2]})

NoResult(f) == f.class = None /\ f.winner = None /\ f.method = None

(* validate_settlement_facts: what does not raise.                         *)
ValidFacts(f) ==
  /\ ClockAgrees(f)
  /\ ~(f.pending /\ f.cancelled)
  /\ f.pending \/ f.cancelled => NoResult(f)
  /\ f.class = "no_contest" => f.winner = None /\ f.method = None
  /\ f.method = "technical_draw" => f.class = "draw"
  /\ f.method \in Decisive => f.class = "decisive"
  /\ f.class = "draw" => f.winner = None /\ f.method \in {None, "technical_draw"}
  /\ f.class = "decisive" => f.method # "technical_draw"

(* The policies of mma_generic: ordinary decisions and draws have lasted   *)
(* the full distance when no clock is known, technical ones have not.      *)
FullDistance(f) ==
  \/ f.class = "decisive" /\ f.method = "decision"
  \/ f.class = "draw" /\ f.method = None

Duration(f) ==
  IF f.total # None THEN f.total
  ELSE IF f.round # None /\ f.inRound # None THEN Elapsed(f.round, f.inRound)
  ELSE IF FullDistance(f) THEN f.rounds * RoundUnits ELSE None
-----------------------------------------------------------------------------
Selection(family, outcome, line) == [family |-> family, outcome |-> outcome, line |-> line]

(* The complete outcomes of a family for a bout of r rounds.               *)
Catalog(family, line, r) ==
  {Selection(family, o, line) : o \in
     CASE family = "moneyline" -> Sides
       [] family = "goes_distance" -> {"goes_distance", "inside_distance"}
       [] family = "totals" -> {"over", "under"}
       [] family = "method" -> Finishes \cup {"decision"}
       [] family = "fighter_by_method" -> Sides \X (Finishes \cup {"decision"})
       [] family = "exact_round" -> 1 .. r}

Markets ==
  ({"moneyline", "goes_distance", "method", "fighter_by_method", "exact_round"} \X {None})
    \cup ({"totals"} \X Lines)

Graded(won) == IF won THEN "win" ELSE "loss"

(* A technical decision is a decision to the method markets.               *)
Pooled(method) == IF method = "technical_decision" THEN "decision" ELSE method

SettleMoneyline(s, f) ==
  IF f.class = "draw" THEN "void"
  ELSE IF f.class # "decisive" \/ f.winner = None THEN "unresolved"
  ELSE Graded(s.outcome = f.winner)

(* _distance_realized: a technical result ended early.                     *)
Realized(f) ==
  IF FullDistance(f) THEN "goes_distance"
  ELSE IF f.class \in {"decisive", "draw"} /\ f.method # None THEN "inside_distance"
  ELSE None

SettleDistance(s, f) ==
  IF Realized(f) = None THEN "unresolved" ELSE Graded(s.outcome = Realized(f))

(* Exactly at the line, what the rule set says; else over or under.        *)
SideOfLine(t, line, exact) ==
  IF 2 * t = line * RoundUnits THEN exact
  ELSE IF 2 * t > line * RoundUnits THEN "over" ELSE "under"

SettleTotals(s, f, exact) ==
  IF \/ f.class \notin {"decisive", "draw"}
     \/ f.class = "decisive" /\ f.method = None
     \/ Duration(f) = None
  THEN "unresolved"
  ELSE LET side == SideOfLine(Duration(f), s.line, exact)
       IN IF side \in {"void", "push"} THEN side ELSE Graded(s.outcome = side)

SettleMethod(s, f) ==
  IF f.class = "draw" THEN "void"
  ELSE IF f.class # "decisive" \/ f.method = None THEN "unresolved"
  ELSE IF s.family = "method" THEN Graded(s.outcome = Pooled(f.method))
  ELSE IF f.winner = None THEN "unresolved"
  ELSE Graded(s.outcome = <<f.winner, Pooled(f.method)>>)

MutRoundLosesWithoutMethod(s, f) ==
  IF f.class = "draw" \/ f.method \notin Finishes THEN "loss"
  ELSE IF f.round = None THEN "unresolved"
  ELSE Graded(s.outcome = f.round)

SettleRound(s, f) ==
  IF f.class = "draw" \/ f.method \in {"decision", "technical_decision"} THEN "loss"
  ELSE IF f.method \notin Finishes \/ f.round = None THEN "unresolved"
  ELSE Graded(s.outcome = f.round)

(* settle, for valid facts and a selection of the catalog.                 *)
Settle(s, f, exact) ==
  IF f.pending THEN "unresolved"
  ELSE IF f.cancelled \/ f.class = "no_contest" THEN "void"
  ELSE CASE s.family = "moneyline" -> SettleMoneyline(s, f)
         [] s.family = "goes_distance" -> SettleDistance(s, f)
         [] s.family = "totals" -> SettleTotals(s, f, exact)
         [] s.family = "exact_round" -> SettleRound(s, f)
         [] OTHER -> SettleMethod(s, f)
-----------------------------------------------------------------------------
(* terminal_atom: the contract's atom a decisive or drawn bout trains as.  *)
Draw == <<None, "draw">>

TerminalAtom(f) ==
  IF f.class = "draw" THEN Draw
  ELSE IF f.class # "decisive" \/ f.winner = None \/ f.method = None THEN None
  ELSE <<f.winner, Pooled(f.method)>>

(* half_round_duration: the half round a bout ended in, right-closed; it   *)
(* is read off the round and its clock.                                    *)
Interval(f) ==
  IF f.round = None \/ f.inRound = None THEN None
  ELSE LET e == Elapsed(f.round, f.inRound)
       IN IF e = 0 THEN 0 ELSE (e - 1) \div (RoundUnits \div 2)

LastInterval(f) == 2 * f.rounds - 1

(* <<side, cause, interval>>; decisions and the draw have no interval.     *)
FineAtoms(r) ==
  (Sides \X Finishes \X (0 .. 2 * r - 1))
    \cup (Sides \X {"decision"} \X {None}) \cup {<<None, "draw", None>>}

(* observed_fine_atom of _classify_sample with early_technical = fail      *)
(* (joint_v1.yaml): None where the code raises or has no label.            *)
FineAtom(f) ==
  LET atom == TerminalAtom(f)
      i == Interval(f)
  IN IF atom = None THEN None
     ELSE IF f.method \in Finishes
       THEN IF i = None THEN None ELSE <<atom[1], atom[2], i>>
     ELSE IF f.method \in {"technical_decision", "technical_draw"} /\ i = None THEN None
     ELSE IF i # None /\ i < LastInterval(f) THEN None
     ELSE <<atom[1], atom[2], None>>

MutUnderIntervalsOneMore(line) == 0 .. line

Continue == "continue"

(* expand_person_period and the decision head: the rows a bout trains as,  *)
(* one for each half round it was at risk in.                              *)
TrainingRows(f) ==
  LET atom == FineAtom(f)
  IN IF atom[3] # None
       THEN ((0 .. atom[3] - 1) \X {Continue}) \cup {<<atom[3], <<atom[1], atom[2]>>>>}
       ELSE ((0 .. LastInterval(f)) \X {Continue}) \cup {<<None, <<atom[1], atom[2]>>>>}

(* survival_multiply: the hazards whose product is an atom's probability,  *)
(* those of the survival path up to its half round and its own.            *)
Survival[i \in Nat] == IF i = 0 THEN {} ELSE Survival[i - 1] \cup {<<i - 1, Continue>>}

Factors(atom, r) ==
  Survival[IF atom[3] = None THEN 2 * r ELSE atom[3]]
    \cup {<<atom[3], <<atom[1], atom[2]>>>>}

UnderIntervals(line) == 0 .. line - 1

(* derive_markets: the atoms whose probabilities a selection's price sums. *)
PricedAtoms(s, r) ==
  {a \in FineAtoms(r) :
     LET finish == a[2] \in Finishes
     IN CASE s.family = "moneyline" -> a[1] = s.outcome
          [] s.family = "goes_distance" -> finish = (s.outcome = "inside_distance")
          [] s.family = "totals" ->
               (s.outcome = "under") = (finish /\ a[3] \in UnderIntervals(s.line))
          [] s.family = "method" -> a[2] = s.outcome
          [] s.family = "fighter_by_method" -> <<a[1], a[2]>> = s.outcome
          [] s.family = "exact_round" -> finish /\ a[3] \div 2 + 1 = s.outcome}
-----------------------------------------------------------------------------
(* Facts come in bit by bit, from callers of settle that assemble them.    *)
OutcomeInit == facts \in {Unknown(r) : r \in Rounds}

Learn(f) == ValidFacts(f) /\ f # facts /\ facts' = f

Postpone ==
  /\ NoResult(facts) /\ ~facts.cancelled
  /\ Learn([facts EXCEPT !.pending = ~@])

CancelFight ==
  /\ NoResult(facts) /\ ~facts.pending
  /\ Learn([facts EXCEPT !.cancelled = TRUE])

ReportClass ==
  /\ facts.class = None
  /\ \E c \in {"decisive", "draw", "no_contest"} : Learn([facts EXCEPT !.class = c])

ReportWinner ==
  /\ facts.class = "decisive" /\ facts.winner = None
  /\ \E w \in Sides : Learn([facts EXCEPT !.winner = w])

ReportMethod ==
  /\ facts.class # None /\ facts.method = None
  /\ \E m \in Methods : Learn([facts EXCEPT !.method = m])

ReportRound ==
  /\ facts.class # None /\ facts.round = None
  /\ \E n \in 1 .. facts.rounds : Learn([facts EXCEPT !.round = n])

ReportClock ==
  /\ facts.round # None /\ facts.inRound = None
  /\ \E u \in 0 .. RoundUnits : Learn([facts EXCEPT !.inRound = u])

ReportTotal ==
  /\ facts.class # None /\ facts.total = None
  /\ \E t \in 0 .. facts.rounds * RoundUnits : Learn([facts EXCEPT !.total = t])

Overturn ==
  /\ facts.class \in {"decisive", "draw"}
  /\ Learn([facts EXCEPT !.class = "no_contest", !.winner = None, !.method = None])

OutcomeNext ==
  \/ Postpone \/ CancelFight \/ ReportClass \/ ReportWinner \/ ReportMethod
  \/ ReportRound \/ ReportClock \/ ReportTotal \/ Overturn

OutcomeSpec == OutcomeInit /\ [][OutcomeNext]_facts
-----------------------------------------------------------------------------
(* The outcomes of one market settle together: exactly one wins and the    *)
(* others lose, or all are void, a push or unresolved; only an exact round *)
(* can have no winner at all, when the judges decided.                     *)
SettleTogether ==
  facts # Unknown(facts.rounds) => \A m \in Markets, exact \in RuleSets :
    LET bets == Catalog(m[1], m[2], facts.rounds)
        results == {Settle(s, facts, exact) : s \in bets}
        winners == {s \in bets : Settle(s, facts, exact) = "win"}
    IN \/ results = {"win", "loss"} /\ Cardinality(winners) = 1
       \/ \E r \in {"void", "push", "unresolved"} : results = {r}
       \/ m[1] = "exact_round" /\ results = {"loss"}

(* An ordinary decision or draw whose clock, if any, is at the very end.   *)
Plausible(f) == FullDistance(f) => Duration(f) = f.rounds * RoundUnits

(* No two bets of a market are paid, and the bet that settles as won is the one whose price summed the atom the  *)
(* bout trains as.  Not for technical results, which train as decisions    *)
(* and settle as stoppages, nor for a clock of 0:00 in a later round,      *)
(* which is the round before to the model.  The likelihood of the rows it  *)
(* trains as is the probability of that atom.                              *)
PricedAsSettled ==
  /\ SettleTogether
  /\ (/\ FineAtom(facts) # None /\ Plausible(facts)
      /\ facts.method \notin {"technical_decision", "technical_draw"}
      /\ facts.inRound = 0 => facts.round = 1) =>
    /\ TrainingRows(facts) = Factors(FineAtom(facts), facts.rounds)
    /\ \A m \in Markets : \A s \in Catalog(m[1], m[2], facts.rounds) :
         Settle(s, facts, "under") \in {"win", "loss"} =>
           Settle(s, facts, "under") = Graded(FineAtom(facts) \in PricedAtoms(s, facts.rounds))

Extends(g, f) ==
  /\ g.class = f.class /\ g.rounds = f.rounds
  /\ \A k \in {"winner", "method", "round", "inRound", "total"} : f[k] \in {None, g[k]}

(* A grade is not invented before the facts are in: learning more of the   *)
(* same result settles what was unresolved and changes nothing else, but   *)
(* for a draw that turns out a technical one.                              *)
GradesOnlyResolve ==
  [][(facts' # facts /\ Extends(facts', facts) /\ Plausible(facts') /\ facts'.method # "technical_draw") =>
       \A m \in Markets, exact \in RuleSets : \A s \in Catalog(m[1], m[2], facts.rounds) :
         Settle(s, facts, exact) \in {"unresolved", Settle(s, facts', exact)}]_facts
=============================================================================
