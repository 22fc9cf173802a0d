--------------------------- MODULE RecommendPolicy --------------------------
(***************************************************************************)
(* Which bets are recommended: every candidate goes through the gates of   *)
(* the frozen policy, a candidate that arrives twice is compared with      *)
(* itself, and one selection per bout at most is confirmed.                *)
(*                                                                         *)
(* Source: recommend/policy.py, recommend/selector.py,                     *)
(* markets/price_targets.py, value/thresholds.py, value/ev.py, with        *)
(* recommend/recommendation_policy.yaml.                                   *)
(*                                                                         *)
(* Probabilities are percentages and decimal odds hundredths, so that the  *)
(* products below are exact; the code's floats and its tolerances at the   *)
(* thresholds are not modelled.                                            *)
(***************************************************************************)
EXTENDS BoutOutcome

CONSTANTS
  Candidates,        \* what select_recommendations may be handed
  MarketPriority,    \* market_priority: a sequence of families
  IdentityOrder,     \* the (bout, selection) pairs in the order of their ids
  Qualified,         \* the families that the policy qualifies
  MaxPool            \* bound on the candidates of one call

(* What a SelectionCandidate's constructor lets through, as far as the     *)
(* prices need it.                                                         *)
CandidateType(c) ==
  /\ DOMAIN c = {"bout", "bet", "p50", "p25", "semantics", "win", "void", "defects",
                 "maturity", "positive", "quote"}
  /\ \E m \in Markets, r \in Rounds : c.bet \in Catalog(m[1], m[2], r)
  /\ c.p50 \in 1 .. 99 /\ c.p25 \in (1 .. c.p50) \cup {None}
  /\ c.win \in (1 .. 99) \cup {None} /\ c.void \in (0 .. 99) \cup {None}
  /\ c.quote # None => c.quote.odds \in Nat

ASSUME PolicyAssumption ==
  /\ MaxPool \in Nat
  /\ \A c \in Candidates : CandidateType(c)
  /\ DOMAIN MarketPriority \subseteq Nat /\ DOMAIN IdentityOrder \subseteq Nat
  /\ \A m \in Markets : \E i \in DOMAIN MarketPriority : MarketPriority[i] = m[1]
  /\ \A c \in Candidates : \E i \in DOMAIN IdentityOrder : IdentityOrder[i] = <<c.bout, c.bet>>

VARIABLES
  pool,       \* the candidates gathered for one call, in the order they came
  report      \* the RecommendationReport, None before it is made

recommendVars == <<pool, report>>

Place(seq, x) == CHOOSE i \in DOMAIN seq : seq[i] = x

BlockingLifecycles ==
  {"stale", "missing_unknown", "locked", "cancelled", "replaced", "review_blocked"}

MutVoidsMoneylineOnly == {"moneyline"}

VoidOnDraw == {"moneyline", "method", "fighter_by_method"}
-----------------------------------------------------------------------------
(* The families that void on a draw are priced by what they win when they  *)
(* are not void, and the parts they are made of must say the same.         *)
VoidConsistent(c) ==
  c.bet.family \in VoidOnDraw =>
    /\ c.semantics = "conditional_nonvoid"
    /\ c.win # None /\ c.void # None =>
         c.void < 100 /\ 100 * c.win = c.p50 * (100 - c.void)

(* The gates before the price: "defects" names the conditions of the       *)
(* identity, data quality, model and uncertainty gates that do not hold.   *)
(* What the policy says of a family outweighs what the candidate says.     *)
Mature(c) == c.bet.family \in Qualified /\ c.maturity = "qualified"

PrePricePassed(c) == c.defects = {} /\ c.p25 # None /\ Mature(c)

DecidedForCutoff(q) ==
  /\ q.decision # None
  /\ q.decision.recognized /\ q.decision.at = q.cutoff /\ q.decision.eligible

QuotePassed(c) ==
  LET q == c.quote
  IN /\ q.observed <= q.cutoff
     /\ q.flags = {} /\ q.lifecycle \notin BlockingLifecycles
     /\ q.kind = "automatic" => DecidedForCutoff(q)
     /\ q.kind = "user_observed" => q.attested /\ q.boundTo = <<c.bout, c.bet>>

EvTarget(family) == IF family = "exact_round" THEN 110 ELSE 105

MinPositive(family) == IF family = "exact_round" THEN 75 ELSE 70

(* Actionable is the higher of 1/p25 and the target over p50.              *)
Actionable(c, odds) == c.p25 * odds >= 10000 /\ c.p50 * odds >= 100 * EvTarget(c.bet.family)

PricePassed(c) ==
  /\ Actionable(c, c.quote.odds)
  /\ c.positive # None /\ c.positive >= MinPositive(c.bet.family)
  /\ c.p25 * c.quote.odds - 10000 >= 0

(* evaluate_selection: the price is never looked at before the gates.      *)
Classify(c) ==
  IF ~VoidConsistent(c) \/ ~PrePricePassed(c) THEN "no_bet"
  ELSE IF c.quote = None THEN "price_target"
  ELSE IF QuotePassed(c) /\ PricePassed(c) THEN "confirmed_value" ELSE "no_bet"
-----------------------------------------------------------------------------
IdOf(c) == <<c.bout, c.bet>>

(* _candidate_fingerprint: what tells two candidates of one selection      *)
(* apart.  The gates' flags, the family's maturity and the quote's cutoff  *)
(* and flags are not part of it.                                           *)
Fingerprint(c) ==
  <<c.p50, c.p25, c.semantics, c.win, c.void, c.positive,
    IF c.quote = None THEN None
    ELSE <<c.quote.odds, c.quote.kind, c.quote.observed,
           c.quote.decision # None /\ c.quote.decision.eligible>> >>

Indices(p, id) == {i \in DOMAIN p : IdOf(p[i]) = id}

FirstOf(I) == CHOOSE i \in I : \A j \in I : i <= j

MutDedupeTakesFirst(p, id) == p[FirstOf(Indices(p, id))]

(* _dedupe_candidates: the first of its like, or an ambiguous one.         *)
OnePerSelection(p, id) ==
  LET I == Indices(p, id)
      first == p[FirstOf(I)]
  IN IF \A i \in I : Fingerprint(p[i]) = Fingerprint(first) THEN first
     ELSE [first EXCEPT !.defects = @ \cup {"ambiguous_selection"}]

Ids(p) == {IdOf(p[i]) : i \in DOMAIN p}

Better(c, d) ==
  LET score(x) == x.p25 * x.quote.odds
      family(x) == Place(MarketPriority, x.bet.family)
      id(x) == Place(IdentityOrder, IdOf(x))
  IN \/ score(c) > score(d)
     \/ score(c) = score(d) /\ family(c) < family(d)
     \/ score(c) = score(d) /\ family(c) = family(d) /\ id(c) < id(d)

(* watchlist_sort_key, of families that are all qualified.                 *)
Firmer(c, d) ==
  LET family(x) == Place(MarketPriority, x.bet.family)
      id(x) == Place(IdentityOrder, IdOf(x))
  IN \/ family(c) < family(d)
     \/ family(c) = family(d) /\ c.p50 > d.p50
     \/ family(c) = family(d) /\ c.p50 = d.p50 /\ id(c) < id(d)

Distinct(p) == {OnePerSelection(p, id) : id \in Ids(p)}

Passed(p) == {c \in Distinct(p) : Classify(c) = "confirmed_value"}

Targets(p) == {c \in Distinct(p) : Classify(c) = "price_target"}

OfBout(C, b) == {c \in C : c.bout = b}

(* _select_bout: the best of the confirmed ones stays.                     *)
Picks(p) == {c \in Passed(p) : \A d \in OfBout(Passed(p), c.bout) : ~Better(d, c)}

RankAmong(C, c) == 1 + Cardinality({d \in C : Better(d, c)})

Ranked(C) == {<<IdOf(c), RankAmong(C, c)>> : c \in C}

FirmerThan(C, c) == {d \in C : Firmer(d, c)}

(* A target is primary on its bout if none is firmer and there is no pick. *)
Primary(p, c) ==
  /\ OfBout(Passed(p), c.bout) = {}
  /\ FirmerThan(OfBout(Targets(p), c.bout), c) = {}

(* select_recommendations: what is neither a pick nor a target is no bet.  *)
Report(p) ==
  [confirmed |-> Ranked(Picks(p)),
   watchlist |->
     {<<IdOf(c), 1 + Cardinality(FirmerThan(Targets(p), c)), Primary(p, c)>> : c \in Targets(p)},
   noBet |-> {IdOf(c) : c \in Distinct(p) \ (Picks(p) \cup Targets(p))}]
-----------------------------------------------------------------------------
RecommendInit == pool = <<>> /\ report = None

Offer(c) ==
  /\ report = None /\ Len(pool) < MaxPool
  /\ pool' = Append(pool, c)
  /\ UNCHANGED report

SelectRecommendations ==
  /\ report = None
  /\ report' = Report(pool)
  /\ UNCHANGED pool

RecommendNext == (\E c \in Candidates : Offer(c)) \/ SelectRecommendations

RecommendSpec == RecommendInit /\ [][RecommendNext]_recommendVars
-----------------------------------------------------------------------------
(* What a bet returns, by how the selection settles: the stake comes back  *)
(* when a draw voids it.                                                   *)
DrawnBout == [Unknown(3) EXCEPT !.class = "draw"]

VoidsOnDraw(c) ==
  Settle(c.bet, DrawnBout, "under") = "void"

PartsKnown(c) == c.win # None /\ c.void # None /\ VoidsOnDraw(c)

(* A confirmed pick pays: by how the settlement treats a draw, and not by  *)
(* how the policy does, it returns at least five percent more than the     *)
(* part of the stake that is at risk.                                      *)
Pays(c) ==
  IF PartsKnown(c)
    THEN c.win * c.quote.odds + 100 * c.void >= 10000 + 5 * (100 - c.void)
    ELSE c.p50 * c.quote.odds >= 10500

PickPaysOff ==
  report # None => \A id \in Ids(pool) :
    id \in {x[1] : x \in report.confirmed} => Pays(OnePerSelection(pool, id))

(* Two candidates of one selection that the fingerprint cannot tell apart  *)
(* say the same to every gate.                                             *)
SameToGates(p) ==
  \A i, j \in DOMAIN p :
    (IdOf(p[i]) = IdOf(p[j]) /\ Fingerprint(p[i]) = Fingerprint(p[j])) => Classify(p[i]) = Classify(p[j])

Shuffles == {s \in [DOMAIN pool -> DOMAIN pool] : \A i, j \in DOMAIN pool : s[i] = s[j] => i = j}

(* The report is the same however the candidates are shuffled, for pools   *)
(* whose duplicates are told apart by what a gate looks at; it names every *)
(* selection once, and one pick per bout at most.                          *)
OrderFree ==
  (report # None /\ Len(pool) <= MaxPool /\ SameToGates(pool)) =>
    LET confirmed == {x[1] : x \in report.confirmed}
        watched == {x[1] : x \in report.watchlist}
    IN /\ \A s \in Shuffles : Report([i \in DOMAIN pool |-> pool[s[i]]]) = report
       /\ confirmed \cup watched \cup report.noBet = Ids(pool)
       /\ confirmed \cap watched = {} /\ (confirmed \cup watched) \cap report.noBet = {}
       /\ \A x, y \in confirmed : x[1] = y[1] => x = y
       /\ Cardinality({x[2] : x \in report.confirmed}) = Cardinality(confirmed)
=============================================================================
