------------------------------- MODULE MCRules ------------------------------
(***************************************************************************)
(* The components that settle, store, fetch and label results, and the     *)
(* files of the artifacts.  They share no state with one another: a run    *)
(* takes one of them, and the others stand still.                          *)
(***************************************************************************)
EXTENDS RecommendPolicy, WalkForward, HistorySync, ArtifactFiles, CoverageReport, BacktestReplay,
  SequencesExt, TLC

CONSTANTS x1, x2, f1, f2, q1, q2

(* ResultVersions: two cards of one bout; a manifest may correct a result  *)
(* to a no contest, with the time the bout ended or without, or contradict *)
(* itself.                                                                 *)
MCCards == <<{x1}, {x2}>>
ManifestRow(night, current, flag, ended_) ==
  [night |-> night, current |-> current, flag |-> flag, ended |-> ended_]
MCFirst == ManifestRow("a", "a", "a", FALSE)
MCRows == {MCFirst, ManifestRow("a", "nc", None, TRUE), ManifestRow("a", "nc", "a", FALSE)}

(* HistorySync: a fighter that both sources know and one that none does; a *)
(* page may go missing, be blocked, take a result back or report another.  *)
MCHistorySources == <<"tapology", "sherdog">>
MCSeeds == <<f1, f2>>
MCIdAt == (f1 :> {"tapology", "sherdog"}) @@ (f2 :> {})
MCBoutKey(source, bout) == bout
Listing(kind, result, at, published) ==
  [bout |-> "bout", kind |-> kind, result |-> result, date |-> 1, exact |-> FALSE,
   at |-> at, published |-> published]
Page(is, listings) == [is |-> is, lists |-> listings]
MCFirstPage == Page("listed", {Listing("event_night", "win", 1, None)})
MCPages ==
  {MCFirstPage, Page("missing", {}), Page("wall", {}),
   Page("listed", {Listing("event_night", "win", 1, None), Listing("current", "nc", 2, None)}),
   Page("listed", {Listing("event_night", "loss", 1, 3)})}

(* The processes that sync are interchangeable, and so are those that write*)
(* artifacts, and the ridge artifacts.                                     *)
MCSymmetry ==
  Permutations(Syncs) \cup Permutations(Workers) \cup Permutations(Digests \ JointDigests)

(* RecommendPolicy: two selections of one bout and one of another; the     *)
(* parts of a price may contradict it, a selection may arrive twice, with  *)
(* another price, as unqualified or as conditional.                        *)
MCPriority ==
  <<"moneyline", "totals", "goes_distance", "method", "fighter_by_method", "exact_round">>
MCIds ==
  << <<"b1", Selection("method", "decision", None)>>,
     <<"b1", Selection("moneyline", "a", None)>>,
     <<"b2", Selection("totals", "over", 3)>> >>
Price(odds, observed, decision) ==
  [odds |-> odds, observed |-> observed, cutoff |-> 1, kind |-> "automatic", flags |-> {},
   lifecycle |-> "active", decision |-> decision, attested |-> FALSE, boundTo |-> None]
Decision(at) == [recognized |-> TRUE, at |-> at, eligible |-> TRUE]
Candidate(id, p50, p25, win, void, quote) ==
  [bout |-> id[1], bet |-> id[2], p50 |-> p50, p25 |-> p25,
   semantics |-> IF win = None THEN "exhaustive" ELSE "conditional_nonvoid",
   win |-> win, void |-> void, defects |-> {}, maturity |-> "qualified",
   positive |-> 70, quote |-> quote]
MCCandidates ==
  {Candidate(MCIds[1], 50, 40, 40, 20, Price(250, 1, Decision(1))),
   Candidate(MCIds[1], 50, 40, 20, 20, Price(250, 1, Decision(1))),
   Candidate(MCIds[1], 41, 40, 41, 0, Price(250, 1, Decision(1))),
   [Candidate(MCIds[1], 50, 40, 40, 20, Price(250, 1, Decision(1))) EXCEPT !.defects = {"data_quality"}],
   Candidate(MCIds[2], 50, 40, 50, 0, Price(250, 1, Decision(1))),
   Candidate(MCIds[2], 50, 40, 50, 0, None),
   [Candidate(MCIds[3], 50, 40, None, None,
      [Price(260, 1, None) EXCEPT !.kind = "user_observed", !.attested = TRUE, !.boundTo = MCIds[3]])
    EXCEPT !.maturity = "experimental"],
   Candidate(MCIds[3], 50, 40, None, None,
      [Price(260, 1, None) EXCEPT !.kind = "user_observed", !.attested = TRUE, !.boundTo = MCIds[3]])}

(* WalkForward: a card that the joint model can be fitted to, one that it  *)
(* is calibrated on, one of the validation season and two of the holdout;  *)
(* results may come late or be corrected between any two of them.          *)
SplitCard(start, role, on) == [start |-> start, role |-> role, bouts |-> on]
MCSplitCards ==
  << SplitCard(2, "development", {"d1", "d2", "d3"}), SplitCard(6, "development", {"d4"}),
     SplitCard(10, "validation", {"v1"}), SplitCard(14, "holdout", {"h1"}),
     SplitCard(18, "holdout", {"h2"}) >>
Night(b, result, observed) ==
  [bout |-> b, kind |-> "event_night", rev |-> 1, result |-> result,
   effective |-> MCSplitCards[CHOOSE i \in 1 .. 5 : b \in MCSplitCards[i].bouts].start + 1,
   observed |-> observed]
Corrected(b, result, effective, observed) ==
  [bout |-> b, kind |-> "current", rev |-> 1, result |-> result,
   effective |-> effective, observed |-> observed]
MCEarlier == {Night("d1", "a", 3), Night("d2", "b", 3), Night("d3", "draw", 3), Night("h1", "a", 15)}
MCOther ==
  {Corrected("d1", "b", 3, 8), Corrected("d3", "nc", 12, 8), Night("d4", "a", 7),
   Night("v1", "b", 16)}
MCSides ==
  [b \in {"d1", "d2", "d3", "d4", "v1", "h1", "h2"} |->
     CASE b = "d1" -> {"p", "q"} [] b = "v1" -> {"p", "r"} [] b = "h2" -> {"q", "r"}
       [] OTHER -> {"s", "t"}]
Seen(kind, f, key, value, effective, observed) ==
  [kind |-> kind, fighter |-> f, key |-> key, value |-> value,
   effective |-> effective, observed |-> observed]
MCSources ==
  {Seen("profile", "p", "reach", 70, 1, 1), Seen("profile", "p", "reach", 72, 1, 10),
   Seen("stat", "p", "d1", 5, 3, 4), Seen("stat", "r", "v1", 9, 11, 12),
   Seen("history", "p", <<2, {"q"}>>, "win", 3, 4), Seen("history", "r", <<4, {"u"}>>, "win", 5, 5),
   Seen("history", "r", <<4, {"u"}>>, "loss", 5, 14), Seen("history", "r", <<10, {"p"}>>, "win", 11, 12)}
Quote(b, price, observed, id, ambiguous, open) ==
  [bout |-> b, price |-> price, observed |-> observed, id |-> id, ambiguous |-> ambiguous,
   replacement |-> id = 4, open |-> open]
MCQuotes ==
  {Quote("d4", 150, 4, 1, FALSE, TRUE), Quote("d4", 160, 4, 2, FALSE, TRUE),
   Quote("v1", 180, 8, 3, FALSE, FALSE), Quote("v1", 200, 9, 4, FALSE, TRUE),
   Quote("v1", 210, 10, 5, TRUE, TRUE), Quote("h1", 190, 12, 6, FALSE, TRUE),
   Quote("h1", 195, 13, 7, FALSE, FALSE)}

(* CoverageReport: a bout of which the manifest, UFCStats, its copy and a  *)
(* public page tell, with and without a publication time, and one on which *)
(* two sources disagree, with rows that are no facts.                      *)
MCUniverse == <<q1, q2>>
MCEventOf == (q1 :> "e1") @@ (q2 :> "e2") @@ (None :> "none")
RowOf(id, source, b, kind, result, quality, published, proxy, effective) ==
  [id |-> id, source |-> source, bout |-> b, kind |-> kind, result |-> result,
   tier |-> "bronze", fact |-> TRUE, quality |-> quality, published |-> published,
   proxy |-> proxy, effective |-> effective]
MCFacts ==
  {RowOf("m1", "dwcs_manifest", q1, "event_night", "a", "proxy", None, 3, 1),
   RowOf("m1c", "dwcs_manifest", q1, "current", "nc", "unknown", None, None, 1),
   RowOf("u1", "ufcstats_public", q1, "event_night", "a", "proxy", None, 2, 1),
   RowOf("d1", "mma_ai_bootstrap", q1, None, "a", "unknown", None, None, 1),
   RowOf("t1", "tapology_public", q1, "current", "a", "direct", 3, None, 1),
   RowOf("m2", "dwcs_manifest", q2, "event_night", "a", "proxy", None, 3, 2),
   [RowOf("c2", "dwcs_manifest", q2, None, None, "unknown", None, None, 2) EXCEPT !.fact = FALSE, !.tier = "conflict"],
   RowOf("x2", "explicit_missing", q2, "event_night", "a", "unknown", None, None, 2),
   RowOf("s2", "sherdog_public", q2, "event_night", "b", "direct", None, None, 2)}
OtherRow(table, source, subject, at) == [table |-> table, source |-> source, subject |-> subject, at |-> at]
MCOtherRows ==
  {OtherRow("failure", "sherdog_public", "y1", 2), OtherRow("checkpoint", "dwcs_manifest", None, 1),
   OtherRow("history", "tapology_public", "y1", 1)}
MCOldLanes == {[bout |-> q1, kind |-> "event_night", rev |-> 1, result |-> "a", effective |-> 1, observed |-> 1, link |-> None]}

(* BacktestReport: a card of two bouts and a Brazilian one, of one season  *)
(* and the next; a bout is predicted by either model or by none, priced,   *)
(* not priced or at a price that cannot be taken, and decided, void or     *)
(* unknown.                                                                *)
MCProgramme ==
  << [event |-> "e1", season |-> 2023, variant |-> "standard", start |-> 2, bouts |-> <<"r1", "r2">>],
     [event |-> "e2", season |-> 2024, variant |-> "brazil", start |-> 6, bouts |-> <<"r3">>] >>
AllBetsOf3 == UNION {Catalog(m[1], m[2], 3) : m \in Markets}
Home == Selection("moneyline", "a", None)
ByKO == Selection("method", "ko_tko", None)
Over == Selection("totals", "over", 3)
Chance(p50, p25, void) == [p50 |-> p50, p25 |-> p25, void |-> void, positive |-> 80]
MCChances ==
  (Home :> Chance(40, 40, 20)) @@ (ByKO :> Chance(40, 45, 20)) @@ (Over :> Chance(50, 40, 20))
    @@ [s \in AllBetsOf3 |-> Chance(40, None, 20)]
Offer3(odds, observed, source) ==
  [odds |-> odds, observed |-> observed, source |-> source, kind |-> "automatic", flags |-> {},
   lifecycle |-> "active", decision |-> Decision(1), attested |-> FALSE, says |-> None,
   proxy |-> FALSE, closing |-> [odds |-> 240, at |-> 2]]
MCBook ==
  (Home :> Offer3(260, 1, "book")) @@ (ByKO :> Offer3(250, 0, "book")) @@
  (Over :> [Offer3(255, 1, "user") EXCEPT !.kind = "user_observed", !.decision = None,
              !.attested = TRUE, !.says = Over, !.proxy = TRUE])
MCLateBook == Home :> Offer3(400, 2, "late")
MCShutBook ==
  (Home :> [Offer3(400, 1, "shut") EXCEPT !.lifecycle = "locked"]) @@
  (ByKO :> [Offer3(400, 1, "shut") EXCEPT !.flags = {"ambiguous"}])
Sound == [identity_resolved |-> TRUE, feature_quality |-> TRUE, hashes |-> TRUE]
Case(model, book, f) ==
  [model |-> model, rounds |-> 3, chance |-> MCChances, book |-> book, facts |-> f, quality |-> Sound]
MCWon == [Unknown(3) EXCEPT !.class = "decisive", !.winner = "a", !.method = "ko_tko", !.round = 2, !.inRound = 1]
MCJudged == [Unknown(3) EXCEPT !.class = "decisive", !.winner = "b", !.method = "decision"]
MCDrawn == [Unknown(3) EXCEPT !.class = "draw"]
MCHalf == [Unknown(3) EXCEPT !.class = "decisive", !.winner = "a"]
MCCasesOf ==
  [b \in {"r1", "r2", "r3"} |->
     {Case("M2", MCBook, MCWon), Case("M2", MCBook, MCDrawn), Case("M2", MCLateBook, MCJudged),
      Case("M1", MCBook, MCHalf), Case("M1", MCShutBook, None), Case("unavailable", MCBook, MCWon)}
     \cup (IF b = "r3"
             THEN {Case("locked", MCBook, MCWon), Case("abstained", MCBook, MCWon),
                   [Case("M2", MCBook, MCJudged) EXCEPT !.quality = [Sound EXCEPT !.feature_quality = FALSE]]}
             ELSE {})]
MCReportIds == MCIds \o InOrder({"r1", "r2", "r3"} \X AllBetsOf3)

VARIABLE component

rulesVars == <<component, facts, recommendVars, resultVars, backtestVars, historyVars, filesVars,
               coverageVars, reportVars>>

(* A run of another component has nothing to score.                        *)
BacktestStill ==
  /\ lacking = None /\ sealed = FALSE /\ scored = 0
  /\ known = [w \in Worlds |-> [results |-> {}, sources |-> {}, quotes |-> {}]]
  /\ scorer = [w \in Worlds |-> [oof |-> {}, frozen |-> None]]
  /\ attempts = [w \in Worlds |-> {}]
  /\ artifact = [w \in Worlds |-> None]

RulesInit ==
  /\ component \in {"outcome", "recommend", "results", "backtest", "history", "files", "coverage", "report"}
  /\ OutcomeInit /\ RecommendInit /\ ResultInit /\ HistoryInit /\ FilesInit
  /\ CoverageInit /\ ReportInit
  /\ IF component = "backtest" THEN BacktestInit ELSE BacktestStill
  /\ component # "history" => identity = [s \in Sites |-> [f \in Prospects |-> "linked"]]

OutcomeStep ==
  /\ component = "outcome" /\ OutcomeNext
  /\ UNCHANGED <<component, recommendVars, resultVars, backtestVars, historyVars, filesVars, coverageVars, reportVars>>

RecommendStep ==
  /\ component = "recommend" /\ RecommendNext
  /\ UNCHANGED <<component, facts, resultVars, backtestVars, historyVars, filesVars, coverageVars, reportVars>>

ResultStep ==
  /\ component = "results" /\ ResultNext
  /\ UNCHANGED <<component, facts, recommendVars, backtestVars, historyVars, filesVars, coverageVars, reportVars>>

BacktestStep ==
  /\ component = "backtest" /\ BacktestNext
  /\ UNCHANGED <<component, facts, recommendVars, resultVars, historyVars, filesVars, coverageVars, reportVars>>

HistoryStep ==
  /\ component = "history" /\ HistoryNext
  /\ UNCHANGED <<component, facts, recommendVars, resultVars, backtestVars, filesVars, coverageVars, reportVars>>

FilesStep ==
  /\ component = "files" /\ FilesNext
  /\ UNCHANGED <<component, facts, recommendVars, resultVars, backtestVars, historyVars, coverageVars, reportVars>>

CoverageStep ==
  /\ component = "coverage" /\ CoverageNext
  /\ UNCHANGED <<component, facts, recommendVars, resultVars, backtestVars, historyVars, filesVars,
                 reportVars>>

ReportStep ==
  /\ component = "report" /\ ReplayNext
  /\ UNCHANGED <<component, facts, resultVars, backtestVars, historyVars, filesVars, coverageVars>>

RulesNext == OutcomeStep \/ RecommendStep \/ ResultStep \/ BacktestStep \/ HistoryStep \/ FilesStep
             \/ CoverageStep \/ ReportStep

RulesSpec == RulesInit /\ [][RulesNext]_rulesVars
=============================================================================
