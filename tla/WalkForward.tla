---------------------------- MODULE WalkForward -----------------------------
(***************************************************************************)
(* `mma-model backtest`: the cards are scored one after the other, each by *)
(* a model fitted to what was known at its cutoff, calibrated on the       *)
(* out-of-fold scores of the cards before it; and `mma-model train`, which *)
(* fits the models that go live.                                           *)
(*                                                                         *)
(* A model is what it was fitted to, a prediction what it was made from:   *)
(* the numbers are a function of these.  Two runs are made side by side,   *)
(* on the evidence and on a part of it, so that what a prediction depends  *)
(* on can be told.                                                         *)
(*                                                                         *)
(* Source: backtest/{engine,walk_forward_scorer,gates}.py,                 *)
(* modeling/{splits,baselines,joint,calibration}.py, features/*.py.        *)
(***************************************************************************)
EXTENDS ResultVersions, Integers

CONSTANTS
  SplitCards,      \* the cards, in the order of their cutoffs: [start, role, bouts]
  EarlierResults,  \* the result versions that are there in any case
  OtherResults,    \* the result versions that may be there
  Opponents,       \* bout -> the fighters of it
  BookQuotes,      \* the quotes: [bout, price, observed, id, ambiguous, replacement, open]
  Sources,         \* the other observations: [kind, fighter, key, value, effective, observed]
  Horizons         \* what the second run is made without: all after a time, or None for
                   \* the results of the holdout

VARIABLES
  known,       \* for each run, the snapshot and the quotes
  lacking,     \* what the second run is made without
  sealed,      \* whether the holdout is scored: --sealed-holdout
  scored,      \* how many cards have been scored
  scorer,      \* for each run, the scorer: [oof, frozen], with the frozen calibrators if any
  attempts,    \* for each run, what was predicted of the bouts
  artifact     \* for each run, the model trained to go live

backtestVars == <<known, lacking, sealed, scored, scorer, attempts, artifact>>

Worlds == {"actual", "other"}

Groups == DOMAIN SplitCards
BoutsOn(I) == UNION {SplitCards[i].bouts : i \in I}
CardOf(b) == CHOOSE i \in Groups : b \in SplitCards[i].bouts
IsHoldout(i) == SplitCards[i].role = "holdout"

(* The cards come one after the other, those of the holdout at the end; a  *)
(* bout is on one of them, and no result takes effect before its card.     *)
ASSUME WalkAssumption ==
  /\ None \notin Int /\ Horizons \subseteq Int \cup {None}
  /\ Groups = 1 .. Len(SplitCards) /\ Len(SplitCards) \in Nat
  /\ \A i \in Groups : SplitCards[i].start \in Int
  /\ \A i, j \in Groups : i < j =>
       /\ SplitCards[i].start <= SplitCards[j].start
       /\ SplitCards[i].bouts \cap SplitCards[j].bouts = {}
       /\ IsHoldout(i) => IsHoldout(j)
  /\ \A v \in EarlierResults \cup OtherResults \cup Sources :
       v.effective \in Int /\ v.observed \in Int
  /\ \A v \in EarlierResults \cup OtherResults : \A i \in Groups :
       v.bout \in SplitCards[i].bouts => SplitCards[i].start <= v.effective
  /\ \A q \in BookQuotes : q.observed \in Int

(* cutoff_for_event: sixty minutes before the start.  An ordinary label is *)
(* read off six hours after the start, when the night is over.             *)
CutoffOf(i) == SplitCards[i].start - 1
LabelTime(i) == SplitCards[i].start + 2
-----------------------------------------------------------------------------
Winners == {"a", "b"}
Atoms == {"a", "b", "draw"}

LabelAt(e, b, i) == TrainingLabel(e.results, b, CutoffOf(i))

(* What of the other sources is admitted at the cutoff, and the newest of  *)
(* each key.                                                               *)
Admitted(e, kind, f, i) ==
  {r \in e.sources : r.kind = kind /\ r.fighter = f /\ VisibleAt(r, CutoffOf(i))}

Newer(r, q) ==
  r.effective > q.effective \/ (r.effective = q.effective /\ r.observed > q.observed)

NewestOf(rows) == {r \in rows : \A q \in rows : q.key = r.key => ~Newer(q, r)}

(* _canonical_games: what the ratings are computed from.                   *)
Ratings(e, i) ==
  {<<b, LabelAt(e, b, i)>> :
     b \in {c \in BoutsOn({j \in Groups \ {i} : SplitCards[j].start < SplitCards[i].start}) :
              LabelAt(e, c, i) \in Atoms}}

(* _canonical_views: the results of a fighter on other cards.              *)
CanonicalRecord(e, f, i) ==
  {<<b, LabelAt(e, b, i)>> :
     b \in {c \in BoutsOn(Groups \ {i}) : f \in Opponents[c] /\ LabelAt(e, c, i) # None}}

(* A fact of a source is known by its opponent and its day, which is how a *)
(* canonical bout is told to be the same; those of the card's own day are  *)
(* left out.                                                               *)
DayAndOpponent(b, f) == <<SplitCards[CardOf(b)].start, Opponents[b] \ {f}>>

HistoryRecord(e, f, i) ==
  LET canonical == {DayAndOpponent(x[1], f) : x \in CanonicalRecord(e, f, i)}
  IN {r \in NewestOf(Admitted(e, "history", f, i)) :
        r.key \notin canonical /\ r.key[1] # SplitCards[i].start}

(* _latest_stats: statistics of bouts on other cards.                      *)
Stats(e, f, i) ==
  NewestOf({r \in Admitted(e, "stat", f, i) : r.key \notin SplitCards[i].bouts})

Profile(e, f, i) == NewestOf(Admitted(e, "profile", f, i))

(* FeatureBuilder.build.                                                   *)
FeaturesAt(e, b, i) ==
  <<Ratings(e, i),
    {<<f, CanonicalRecord(e, f, i), HistoryRecord(e, f, i), Stats(e, f, i), Profile(e, f, i)>> :
       f \in Opponents[b]}>>

(* A labelled sample, with the features as of its own card's cutoff.       *)
Sample(e, b, at) ==
  [bout |-> b, label |-> TrainingLabel(e.results, b, at), values |-> FeaturesAt(e, b, CardOf(b))]

LabelledSamples(e, on, at, labels) ==
  {s \in {Sample(e, b, at) : b \in on} : s.label \in labels}

(* _eligible_train: what a card may train on.                              *)
EligibleTrain(i, kind) ==
  {j \in Groups \ {i} :
     /\ SplitCards[j].start < CutoffOf(i)
     /\ kind = "inner" => SplitCards[j].role = "development"}

(* build_fold_plan: a fold for every card of these roles.                  *)
FoldPlan(kind, roles) ==
  [i \in {j \in Groups : SplitCards[j].role \in roles} |-> EligibleTrain(i, kind)]

TuningFolds == FoldPlan("inner", {"development"})
ValidationFolds == FoldPlan("outer", {"validation"})
OuterFolds == FoldPlan("outer", {"development", "validation"})

(* _prior_cards: those the scorer trains on.                               *)
PriorCards(i) == {j \in EligibleTrain(i, "outer") : ~IsHoldout(j)}

TrainSamples(e, i, labels) ==
  LabelledSamples(e, BoutsOn(PriorCards(i)), CutoffOf(i), labels)

LabelsOf(samples) == {s.label : s \in samples}

(* fit_ridge wants bouts of both winners, fit_joint_predictor of every way *)
(* to end that it knows.                                                   *)
RidgeFits(samples) == LabelsOf(samples) = Winners
JointFits(samples) == LabelsOf(samples) = Atoms
Fits(family, samples) ==
  IF family = "ridge" THEN RidgeFits(samples) ELSE JointFits(samples)
-----------------------------------------------------------------------------
MutLabelsOutOfTime(results, oof, family, cutoff) ==
  {[score |-> r, y |-> TrainingLabel(results, r.bout, 100)] :
     r \in {x \in oof : x.family = family}}

(* _oof_payloads: the scores of earlier cards, with the labels known now.  *)
OofRows(results, oof, family, cutoff) ==
  LET labels == IF family = "ridge" THEN Winners ELSE Atoms
      row(r) == [score |-> r, y |-> TrainingLabel(results, r.bout, cutoff)]
  IN {x \in {row(r) : r \in {o \in oof : o.family = family}} : x.y \in labels}

(* _fit_ridge_calibrator and its twin: what each is fitted to, and nothing *)
(* for no calibrator.                                                      *)
FittedCalibrators(results, s, i) ==
  [family \in {"ridge", "joint"} |-> OofRows(results, s.oof, family, CutoffOf(i))]

(* _calibrators_for_card: frozen from the first card of the holdout on.    *)
CalibratorsFor(results, s, i) ==
  IF IsHoldout(i) /\ s.frozen # {} THEN CHOOSE c \in s.frozen : TRUE
  ELSE FittedCalibrators(results, s, i)

(* join_quote: the latest price as of the cutoff, if nothing forbids it.   *)
AsOf(quotes, b) == {q \in quotes : q.bout = b /\ q.observed <= CutoffOf(CardOf(b))}

JoinQuote(quotes, b) ==
  LET seen == AsOf(quotes, b)
      latest == {q \in seen : \A r \in seen : r.observed <= q.observed}
      chosen == CHOOSE q \in latest : \A r \in latest : r.id <= q.id
  IN IF \/ seen = {} \/ \E q \in seen : q.ambiguous
        \/ Cardinality({q.price : q \in latest}) > 1 \/ ~chosen.open
       THEN None ELSE chosen.price

(* What the scorer reads off the quotes of a card: the prices, and whether *)
(* a quote of a bout as of the cutoff is ambiguous or of a replacement.    *)
ObservedPrices(quotes, i) == [b \in SplitCards[i].bouts |-> JoinQuote(quotes, b)]

QuoteFlags(quotes, b) ==
  <<\E q \in AsOf(quotes, b) : q.ambiguous, \E q \in AsOf(quotes, b) : q.replacement>>

SamplesOn(samples, I) == {s \in samples : s.bout \in BoutsOn(I)}

(* The bootstrap draws whole cards of the training samples.                *)
EventBlocks(samples) == {SamplesOn(samples, {CardOf(s.bout)}) : s \in samples}

(* _p25_m1 and _p25_joint: the model is fitted again to each draw, and     *)
(* calibrated as it was; without a calibrator there is no interval.        *)
Uncertainty(e, i, samples, calibration) ==
  IF calibration = {} THEN None
  ELSE <<EventBlocks(samples), calibration, ObservedPrices(e.quotes, i)>>

(* What a model fitted to these samples says of a bout; the ridge is shown *)
(* beside it.                                                              *)
Prediction(e, i, b, model, samples, calibration, ridge) ==
  [bout |-> b, model |-> model, train |-> samples, calibration |-> calibration,
   values |-> FeaturesAt(e, b, i), price |-> JoinQuote(e.quotes, b),
   flags |-> QuoteFlags(e.quotes, b), baseline |-> ridge,
   interval |-> Uncertainty(e, i, samples, calibration)]

Unpredicted(b, model) == [bout |-> b, model |-> model]

ScoreRidge(e, i, samples, calibration) ==
  {IF RidgeFits(samples) THEN Prediction(e, i, b, "M1", samples, calibration, samples)
   ELSE Unpredicted(b, "none") : b \in SplitCards[i].bouts}

ScoreJoint(e, i, samples, calibration, ridge) ==
  {Prediction(e, i, b, "M2", samples, calibration, IF RidgeFits(ridge) THEN ridge ELSE {}) :
     b \in SplitCards[i].bouts}

OofRecord(b, family, samples, values) ==
  [bout |-> b, family |-> family, train |-> samples, values |-> values]

OofOf(e, i, family, samples) ==
  {OofRecord(b, family, samples, FeaturesAt(e, b, i)) : b \in SplitCards[i].bouts}

(* score_card: the joint model once it can be calibrated, or the ridge;    *)
(* the joint scores of a card that the ridge was shown for are kept, so    *)
(* that the joint model can be calibrated in time.                         *)
ScoreCard(e, s, i) ==
  LET ridge == TrainSamples(e, i, Winners)
      joint == TrainSamples(e, i, Atoms)
      cal == CalibratorsFor(e.results, s, i)
      byJoint == JointFits(joint) /\ cal["joint"] # {}
      gained ==
        IF IsHoldout(i) THEN {}
        ELSE (IF JointFits(joint) THEN OofOf(e, i, "joint", joint) ELSE {})
          \cup (IF ~byJoint /\ RidgeFits(ridge) THEN OofOf(e, i, "ridge", ridge) ELSE {})
  IN IF ridge = {}
       THEN [scorer |-> s, attempts |-> {Unpredicted(b, "none") : b \in SplitCards[i].bouts}]
       ELSE [scorer |-> [oof |-> s.oof \cup gained,
                         frozen |-> IF IsHoldout(i) THEN {cal} ELSE s.frozen],
             attempts |-> IF byJoint THEN ScoreJoint(e, i, joint, cal["joint"], ridge)
                          ELSE ScoreRidge(e, i, ridge, cal["ridge"])]
-----------------------------------------------------------------------------
(* labeled_samples_from_snapshot and joint_samples_from_snapshot: the      *)
(* holdout's cards are dropped before a label is read.                     *)
OrdinarySamples(e, labels) ==
  UNION {LabelledSamples(e, SplitCards[i].bouts, LabelTime(i), labels) :
           i \in {j \in Groups : ~IsHoldout(j)}}

(* _collect_ridge_oof and _collect_oof: the folds inside development, and  *)
(* those of the validation season.                                         *)
OrdinaryOof(samples, folds, family) ==
  UNION {{[bout |-> t.bout, y |-> t.label, train |-> SamplesOn(samples, folds[i])] :
             t \in SamplesOn(samples, {i})} :
           i \in {j \in DOMAIN folds : Fits(family, SamplesOn(samples, folds[j]))}}

(* The final refit is on development and validation.                       *)
Trained(samples, family) ==
  IF ~Fits(family, samples) THEN None
  ELSE [estimator |-> samples, calibrator |-> None,
        oof |-> OrdinaryOof(samples, TuningFolds, family)
                  \cup OrdinaryOof(samples, ValidationFolds, family)]

TrainedRidge(e) == Trained(OrdinarySamples(e, Winners), "ridge")

JointSamples(e) == OrdinarySamples(e, Atoms)

TrainedJoint(e) == Trained(JointSamples(e), "joint")

(* validate_oof_row: no score of the estimator itself, of a card it was    *)
(* trained on, or of the holdout.                                          *)
OofValid(a, row) ==
  /\ row.train # a.estimator
  /\ CardOf(row.bout) \notin {CardOf(s.bout) : s \in row.train}
  /\ \A i \in {CardOf(row.bout)} \cup {CardOf(s.bout) : s \in row.train} : ~IsHoldout(i)

(* run_model_calibrate: on the scores that are stored with the model.      *)
CalibratedArtifact(a) == [a EXCEPT !.calibrator = a.oof]
-----------------------------------------------------------------------------
(* What is known at a time, and what is known without the holdout.         *)
KnownBy(e, t) ==
  [results |-> {v \in e.results : VisibleAt(v, t)},
   sources |-> {r \in e.sources : VisibleAt(r, t)},
   quotes |-> {q \in e.quotes : q.observed <= t}]

WithoutHoldout(e) ==
  [e EXCEPT !.results = {v \in @ : ~IsHoldout(CardOf(v.bout))}]

Without(e, what) == IF what = None THEN WithoutHoldout(e) ELSE KnownBy(e, what)

BacktestInit ==
  /\ lacking \in Horizons /\ sealed \in BOOLEAN
  /\ \E results \in SUBSET OtherResults :
       LET e == [results |-> EarlierResults \cup results, sources |-> Sources,
                 quotes |-> BookQuotes]
       IN known = [w \in Worlds |-> IF w = "actual" THEN e ELSE Without(e, lacking)]
  /\ scored = 0
  /\ scorer = [w \in Worlds |-> [oof |-> {}, frozen |-> {}]]
  /\ attempts = [w \in Worlds |-> {}]
  /\ artifact = [w \in Worlds |-> None]

(* A card of the holdout is not in the plan and gets a fold of its own.    *)
FoldOf(i) == IF IsHoldout(i) THEN PriorCards(i) ELSE OuterFolds[i]

(* The assertions of backtest/gates.py on a card's fold.                   *)
GatesPass(i) == \A j \in FoldOf(i) : j # i /\ SplitCards[j].start < CutoffOf(i) /\ ~IsHoldout(j)

ScoreNext ==
  LET i == scored + 1
      score == [w \in Worlds |-> ScoreCard(known[w], scorer[w], i)]
  IN
  /\ i \in Groups /\ (IsHoldout(i) => sealed)
  /\ GatesPass(i)
  /\ scored' = i
  /\ scorer' = [w \in Worlds |-> score[w].scorer]
  /\ attempts' = [w \in Worlds |-> attempts[w] \cup score[w].attempts]
  /\ UNCHANGED <<known, lacking, sealed, artifact>>

(* _attempt_from_locked: a card of the holdout is passed over.             *)
PassLocked ==
  LET i == scored + 1 IN
  /\ i \in Groups /\ IsHoldout(i) /\ ~sealed
  /\ scored' = i
  /\ attempts' = [w \in Worlds |->
       attempts[w] \cup {Unpredicted(b, "locked") : b \in SplitCards[i].bouts}]
  /\ UNCHANGED <<known, lacking, sealed, scorer, artifact>>

Train(family) ==
  /\ scored = Len(SplitCards) /\ artifact["actual"] = None
  /\ artifact' = [w \in Worlds |->
       IF family = "ridge" THEN TrainedRidge(known[w]) ELSE TrainedJoint(known[w])]
  /\ artifact'["actual"] # None
  /\ UNCHANGED <<known, lacking, sealed, scored, scorer, attempts>>

Calibrate ==
  LET a == artifact["actual"] IN
  /\ a # None /\ a.calibrator = None /\ a.oof # {}
  /\ \A row \in a.oof : OofValid(a, row)
  /\ artifact' = [w \in Worlds |->
       IF artifact[w] = None THEN None ELSE CalibratedArtifact(artifact[w])]
  /\ UNCHANGED <<known, lacking, sealed, scored, scorer, attempts>>

BacktestNext ==
  \/ ScoreNext \/ PassLocked
  \/ \E family \in {"ridge", "joint"} : Train(family)
  \/ Calibrate

BacktestSpec == BacktestInit /\ [][BacktestNext]_backtestVars
-----------------------------------------------------------------------------
AttemptOf(w, b) == CHOOSE x \in attempts[w] : x.bout = b

FittedTo(x) ==
  IF x.model \in {"M1", "M2"} THEN <<x.model, x.train, x.calibration, x.baseline>> ELSE <<x.model>>

(* No prediction looks ahead: a run that was never told what became known  *)
(* after a time predicts the same for every card whose cutoff is not after *)
(* it: model, calibration, interval, features and price.  The results of   *)
(* the holdout enter no fit, neither of a card nor of the model that goes  *)
(* live, and one calibration serves the whole holdout.                     *)
NoLookAhead ==
  /\ \A b \in BoutsOn(1 .. scored) :
       IF lacking = None
         THEN FittedTo(AttemptOf("actual", b)) = FittedTo(AttemptOf("other", b))
         ELSE CutoffOf(CardOf(b)) <= lacking => AttemptOf("actual", b) = AttemptOf("other", b)
  /\ lacking = None => artifact["actual"] = artifact["other"]
  /\ \A x, y \in attempts["actual"] :
       (/\ IsHoldout(CardOf(x.bout)) /\ IsHoldout(CardOf(y.bout))
        /\ x.model = y.model /\ x.model \in {"M1", "M2"}) => x.calibration = y.calibration
=============================================================================
