--------------------------- MODULE CoverageReport ---------------------------
(***************************************************************************)
(* The data-health report of the frozen bouts: which rows of the sources   *)
(* count at a cutoff, which tier they put a bout in, what is reported of   *)
(* its result, and which gates block.  Rows are appended for ever, by      *)
(* sources that agree, correct themselves, arrive late or copy from one    *)
(* another, and a report of a past cutoff is computed again at any time.   *)
(*                                                                         *)
(* Source: src/mma_model/quality/ (classify.py, coverage.py, inventory.py, *)
(* audits.py, gates.py).                                                   *)
(*                                                                         *)
(* Hashes are equality of what they are computed from; the totals by       *)
(* season, class and variant are functions of the rows of the bouts.       *)
(***************************************************************************)
EXTENDS Naturals, FiniteSets, FiniteSetsExt, Nothing

CONSTANTS
  Universe,      \* the frozen bouts, in the order of their ids
  EventOf,       \* [bout -> event]
  Rows,          \* what the sources may say: see RecordFact
  OldLanes,      \* result versions that were there before provenance
  OtherRows,     \* rows of the other tables: [table, source, reason, subject, at]
  SampleBouts,   \* the adjudicated regional sample
  Killed,        \* the sources that the frozen probes found blocked
  AsOfs,         \* cutoffs of reports
  DefaultCutoff, \* DEFAULT_LEAKAGE_CUTOFF
  LastTime, MaxRows  \* bounds of the model

VARIABLES
  today,
  stored         \* [facts, lanes, others], the tables

coverageVars == <<today, stored>>

FrozenBouts == { Universe[i] : i \in DOMAIN Universe }

Manifest == "dwcs_manifest"
UfcStats == "ufcstats_public"
Derived == "mma_ai_bootstrap"
ValidationOnly == {"sportsdataio", "balldontlie"}
BoutSources == {Manifest, UfcStats, Derived, "tapology_public", "sherdog_public",
                "combat_registry", "explicit_missing"} \cup ValidationOnly
IndependentSources == BoutSources \ {"explicit_missing"}

(* Mutant: a copy counts as a source of its own.                           *)
FamilyIsSource(source) == source

(* source_family: what is derived from UFCStats belongs to it.             *)
SourceFamily(source) == IF source = Derived THEN UfcStats ELSE source

(* A row has an id and its clocks, if any; what is derived is of a time    *)
(* that nobody knows; a version from before provenance is linked to none.  *)
Clocks == Nat \cup {None}

ASSUME CoverageAssumption ==
  /\ DOMAIN Universe \subseteq Nat /\ None \notin Nat
  /\ AsOfs \subseteq Clocks /\ DefaultCutoff \in Nat /\ LastTime \in Nat \ {0}
  /\ \A b \in FrozenBouts : EventOf[b] # None
  /\ \A r \in Rows :
       /\ r.id # None /\ {r.published, r.proxy, r.effective} \subseteq Clocks
       /\ r.source = Derived => r.quality = "unknown"
  /\ \A l \in OldLanes : l.link = None
  /\ \A o \in OtherRows : o.at \in Nat
-----------------------------------------------------------------------------
(* Mutant: a proxy is taken for what it stands for.                        *)
MutClock(row) ==
  CASE row.quality = "direct" /\ row.published # None -> row.published
    [] (row.quality = "direct" /\ row.published = None) \/ row.quality = "proxy" -> row.effective
    [] OTHER -> row.observed

(* visibility_clock: when the row could be known; when it was acquired     *)
(* counts only for a clock of unknown quality.                             *)
VisibilityClock(row) ==
  CASE row.quality = "direct" /\ row.published # None -> row.published
    [] row.quality = "direct" /\ row.published = None -> row.effective
    [] row.quality = "proxy" -> row.proxy
    [] OTHER -> row.observed

RowKnownBy(row, asOf) ==
  LET clock == VisibilityClock(row) IN
  /\ row.effective # None /\ row.effective < asOf
  /\ clock # None /\ clock <= asOf

(* observation_visible; without a cutoff all of them are.                  *)
ObservationVisible(row, asOf, excluded) ==
  /\ EventOf[row.bout] # excluded
  /\ asOf = None \/ RowKnownBy(row, asOf)

(* attach_result_version_clocks: those of the linked row, or unknown.      *)
WithClocks(lane, facts) ==
  LET linked == { r \in facts : r.id = lane.link }
      clocks == IF linked = {} THEN [quality |-> "unknown", published |-> None, proxy |-> None]
                ELSE CHOOSE x \in linked : TRUE
  IN [quality |-> clocks.quality, published |-> clocks.published, proxy |-> clocks.proxy,
      effective |-> lane.effective, observed |-> lane.observed]

(* result_version_visible: without a link it is not, at a cutoff.          *)
ResultVisible(lane, facts, asOf, excluded) ==
  /\ EventOf[lane.bout] # excluded
  /\ asOf = None \/ (lane.link # None /\ RowKnownBy(WithClocks(lane, facts), asOf))
-----------------------------------------------------------------------------
Facts(R) == { r \in R : r.fact }

(* _kind_conflict: two results under one kind of version.                  *)
KindConflict(R) == \E r, s \in R : r.kind = s.kind /\ r.result # s.result

(* classify_source_bout.                                                   *)
SourceTier(R) ==
  LET F == Facts(R) IN
  CASE F = {} -> "missing"
    [] F # {} /\ ((\E r \in F : r.tier = "conflict") \/ KindConflict(F)) -> "conflict"
    [] OTHER -> IF \E r \in F : r.quality = "direct" THEN "gold" ELSE "bronze"

(* classify_overall_bout, on the rows of the sources that may agree.  Rows *)
(* of one family, or of two, must not contradict each other under one kind.*)
OverallTier(R) ==
  LET F == { r \in Facts(R) : r.source \in IndependentSources }
      families == { SourceFamily(r.source) : r \in F }
  IN CASE F = {} -> "missing"
       [] F # {} /\ ((\E r \in F : r.tier = "conflict") \/ KindConflict(F)) -> "conflict"
       [] OTHER -> IF \E r \in F : r.quality = "direct" THEN "gold"
                   ELSE IF Cardinality(families) > 1 THEN "silver" ELSE "bronze"

TierRank == [missing |-> 0, bronze |-> 1, silver |-> 2, gold |-> 3, conflict |-> 4]

(* group_observations_by_source_bout.                                      *)
RowsOf(facts, b, asOf, excluded) ==
  { r \in facts : r.bout = b /\ r.source \in BoutSources
                    /\ ObservationVisible(r, asOf, excluded) }

(* _tier_snapshot.                                                         *)
TierSnapshot(facts, asOf, excluded) ==
  [b \in FrozenBouts |-> OverallTier(RowsOf(facts, b, asOf, excluded))]

(* _latest_result: the highest visible revision.                           *)
LatestResult(b, kind, asOf, excluded) ==
  LET L == { l \in stored.lanes : l.bout = b /\ l.kind = kind
               /\ ResultVisible(l, stored.facts, asOf, excluded) }
  IN IF L = {} THEN None ELSE (CHOOSE l \in L : \A k \in L : k.rev <= l.rev).result

(* build_bout_row: a bout without a tier has no results.                   *)
BoutRow(b, asOf, excluded) ==
  LET tier == OverallTier(RowsOf(stored.facts, b, asOf, excluded))
      lane(kind) == IF tier = "missing" THEN None ELSE LatestResult(b, kind, asOf, excluded)
  IN [tier |-> tier, night |-> lane("event_night"), current |-> lane("current")]

BoutRows(asOf, excluded) == [b \in FrozenBouts |-> BoutRow(b, asOf, excluded)]

CoreTiers(rows) == [t \in DOMAIN TierRank |-> Cardinality({ b \in FrozenBouts : rows[b].tier = t })]
-----------------------------------------------------------------------------
OthersOf(table) == { o \in stored.others : o.table = table }

(* The rows of the other tables that a report at a cutoff counts           *)
(* (influencing_db_fingerprint, fingerprint_in_scope): checkpoints and the *)
(* ids of the sources have no clock.                                       *)
InScope(o, asOf) ==
  \/ asOf = None
  \/ o.table \in {"checkpoint", "source_id"}
  \/ o.table = "failure" /\ o.observed <= asOf
  \/ o.table \in {"run", "review"} /\ o.observed < asOf
  \/ o.table \in {"profile", "history"} /\ (o.at < asOf \/ o.observed <= asOf)

(* _db_hash.                                                               *)
DbFingerprint(asOf) ==
  [facts |-> { r \in stored.facts : ObservationVisible(r, asOf, None) },
   lanes |-> { l \in stored.lanes : ResultVisible(l, stored.facts, asOf, None) },
   others |-> { o \in stored.others : InScope(o, asOf) }]

(* _status_for_source: a failure on record, the frozen probes, the rows.   *)
SourceStatus(source, mapped, asOf) ==
  LET failed == { o \in OthersOf("failure") : o.source = source /\ InScope(o, asOf) } IN
  CASE source \in ValidationOnly -> "validation_only"
    [] source \notin ValidationOnly /\ failed # {} -> "source_failed"
    [] source \notin ValidationOnly /\ failed = {} /\ source \in Killed -> "source_killed"
    [] OTHER -> IF mapped THEN "present" ELSE "unmeasured"

(* source_coverage_rows.                                                   *)
SourceRow(source, asOf) ==
  LET tier(b) == SourceTier({ r \in RowsOf(stored.facts, b, asOf, None) : r.source = source })
      conflict == { b \in FrozenBouts : tier(b) = "conflict" }
      mapped == { b \in FrozenBouts : tier(b) \in {"gold", "bronze"} }
  IN [mapped |-> Cardinality(mapped), conflict |-> Cardinality(conflict),
      status |-> SourceStatus(source, mapped \cup conflict # {}, asOf)]

(* regional_live_payload: of the sample, what live history found and what  *)
(* a source failed at; a failure counts whenever it was recorded.          *)
RegionalFound(asOf) ==
  { x \in SampleBouts :
      \/ \E o \in OthersOf("history") : o.subject = x /\ (asOf = None \/ o.at < asOf)
      \/ \E o \in OthersOf("failure") : o.subject = x }
-----------------------------------------------------------------------------
FirstVisible(tiers) ==
  LET S == { i \in DOMAIN Universe : tiers[Universe[i]] # "missing" } IN
  IF S = {} THEN None ELSE Universe[Min(S)]

Injected(b, at) ==
  [id |-> "injected", source |-> UfcStats, bout |-> b, kind |-> "event_night", result |-> "draw",
   tier |-> "gold", fact |-> TRUE, quality |-> "direct", published |-> at, proxy |-> at,
   effective |-> at, observed |-> at]

(* run_leakage_audits: a fact of the future must change nothing at the     *)
(* cutoff and something without one; another card's exclusion must empty   *)
(* that card and no other.                                                 *)
LeakageFailures(asOf) ==
  LET audit == IF asOf = None THEN DefaultCutoff ELSE asOf
      baseline == TierSnapshot(stored.facts, audit, None)
      target == FirstVisible(baseline)
      injected == stored.facts \cup {Injected(target, audit + LastTime)}
      without == TierSnapshot(stored.facts, audit, EventOf[target])
  IN IF target = None THEN {}
     ELSE { f \in {"changed", "no effect", "card"} :
              \/ f = "changed" /\ TierSnapshot(injected, audit, None) # baseline
              \/ f = "no effect" /\ TierSnapshot(injected, None, None) = baseline
              \/ f = "card" /\ \E b \in FrozenBouts :
                   IF EventOf[b] = EventOf[target] THEN without[b] # "missing"
                   ELSE without[b] # baseline[b] }

(* _sample_gate: an empty sample blocks.                                   *)
SampleGate(n, d, percent) == d > 0 /\ n * 100 >= percent * d

(* What is compared with the manifest is only whether the source           *)
(* contradicts itself.                                                     *)
Reconciles(asOf, percent) ==
  LET ufc == SourceRow(UfcStats, asOf) IN
  SampleGate(ufc.mapped - ufc.conflict, ufc.mapped, percent)

Live(source, asOf) ==
  LET row == SourceRow(source, asOf) IN row.status = "present" /\ row.mapped > 0

(* evaluate_strict_gates: the codes that block, but for those about the    *)
(* details of a result and the identity audit.                             *)
Blockers(asOf) ==
  LET passes ==
        [manifest_representation |-> CoreTiers(BoutRows(asOf, None)).missing = 0,
         cross_source_reconciliation |-> Reconciles(asOf, 98),
         result_agreement |-> Reconciles(asOf, 99),
         future_row_leakage |-> LeakageFailures(asOf) = {},
         regional_sample |->
           SampleGate(Cardinality(RegionalFound(asOf)), Cardinality(SampleBouts), 95),
         pre_fight_agreement |-> SampleGate(0, 0, 98),
         ufcstats_live |-> Live(UfcStats, asOf)
                             /\ SourceRow(UfcStats, asOf).mapped = Cardinality(FrozenBouts),
         regional_live |-> \A s \in {"tapology_public", "sherdog_public", "combat_registry"} :
                            Live(s, asOf)]
  IN { code \in DOMAIN passes : ~passes[code] }
-----------------------------------------------------------------------------
(* What a source says, as it is stored on a day.                           *)
Stored(r, at) ==
  [id |-> r.id, source |-> r.source, bout |-> r.bout, kind |-> r.kind, result |-> r.result,
   tier |-> r.tier, fact |-> r.fact, quality |-> r.quality, published |-> r.published,
   proxy |-> r.proxy, effective |-> r.effective, observed |-> at]

StoredOther(o, at) ==
  [table |-> o.table, source |-> o.source, subject |-> o.subject, at |-> o.at, observed |-> at]

CoverageInit ==
  /\ today = 1
  /\ stored = [facts |-> {}, lanes |-> OldLanes, others |-> {}]

(* A batch of a source's rows is committed: a fact about a version of the  *)
(* result appends a revision that is linked to it (append_observation).    *)
RecordFact ==
  /\ Cardinality(stored.facts) + Cardinality(stored.others) < MaxRows
  /\ \E r \in Rows :
       LET rev == 1 + Cardinality({ l \in stored.lanes : l.bout = r.bout /\ l.kind = r.kind })
       IN /\ ~\E f \in stored.facts : f.id = r.id
          /\ stored' = [stored EXCEPT
               !.facts = @ \cup {Stored(r, today)},
               !.lanes = @ \cup
                 IF r.fact /\ r.kind # None
                 THEN {[bout |-> r.bout, kind |-> r.kind, rev |-> rev, result |-> r.result,
                        effective |-> r.effective, observed |-> today, link |-> r.id]}
                 ELSE {}]
  /\ UNCHANGED today

(* A row of another table.                                                 *)
RecordOther ==
  /\ Cardinality(stored.facts) + Cardinality(stored.others) < MaxRows
  /\ \E o \in OtherRows :
       /\ ~\E p \in stored.others : p.table = o.table
       /\ stored' = [stored EXCEPT !.others = @ \cup {StoredOther(o, today)}]
  /\ UNCHANGED today

DayPasses == today < LastTime /\ today' = today + 1 /\ UNCHANGED stored

CoverageNext == RecordFact \/ RecordOther \/ DayPasses

CoverageSpec == CoverageInit /\ [][CoverageNext]_coverageVars
-----------------------------------------------------------------------------
(* What a row of the other tables is about, or when it was seen, lies      *)
(* before the cutoff; some have no clock.                                  *)
OfThePast(o, asOf) ==
  o.table \in {"checkpoint", "source_id"} \/ o.at < asOf \/ o.observed <= asOf

(* A source said so by then; nobody else's word counts for an unknown time.*)
PublishedBy(r, asOf) ==
  /\ r.quality = "direct" => r.published = None \/ r.published <= asOf
  /\ r.quality = "proxy" => r.proxy <= asOf
  /\ r.quality = "unknown" => r.observed <= asOf

SaidBy(r, asOf) == r.effective # None /\ r.effective < asOf /\ PublishedBy(r, asOf)

(* A report of a past cutoff that is computed again only ever learns what  *)
(* could be known at the cutoff: a row changes a bout, its results or the  *)
(* hash of the database, by itself or by the version of a result that is   *)
(* linked to it, only if what it says is of the past and was published     *)
(* (or, if nobody knows when, acquired) by then; and then the tier of that *)
(* very bout rises, and never out of a conflict (leakage.py:27, "a later   *)
(* mutation changes a past cutoff classification or hash").                *)
PastOnlyGains ==
  [][stored # stored' => \A asOf \in AsOfs \ {None} :
       LET old == BoutRows(asOf, None)
           new == BoutRows(asOf, None)'
           told == { r \in stored'.facts \ stored.facts : SaidBy(r, asOf) }
       IN /\ \A b \in FrozenBouts :
               /\ TierRank[old[b].tier] <= TierRank[new[b].tier]
               /\ old[b] # new[b] => \E r \in told : r.bout = b
          /\ DbFingerprint(asOf) # DbFingerprint(asOf)' =>
               told # {} \/ \E o \in stored'.others \ stored.others : OfThePast(o, asOf)]_coverageVars

(* What is derived from UFCStats never corroborates it (data-contracts.md: *)
(* "cannot independently agree"): with a fact of UFCStats' own, the copy   *)
(* can only contradict.  And the leakage audit, run on rows that do not    *)
(* leak, accuses them only where the row that it injects has nothing to    *)
(* change: a bout is in conflict, or gold with that very result.           *)
TiersAreIndependent ==
  \A asOf \in AsOfs :
    /\ \A u \in { r \in Facts(stored.facts) : r.source = UfcStats /\ ObservationVisible(r, asOf, None) } :
         LET R == RowsOf(stored.facts, u.bout, asOf, None) IN
         OverallTier(R) \in {OverallTier({ r \in R : r.source # Derived }), "conflict"}
    /\ stored.facts # {} /\ "future_row_leakage" \in Blockers(asOf) =>
         \E b \in FrozenBouts : BoutRow(b, asOf, None).tier \in {"conflict", "gold"}
=============================================================================
