--------------------------- MODULE ResultVersions ---------------------------
(***************************************************************************)
(* `mma-model ingest dwcs-history`: syncs of the frozen manifest into raw  *)
(* observations and result versions, one transaction for each card, beside *)
(* the labels that training and settlement read off the versions.          *)
(*                                                                         *)
(* Source: dwcs/ingest.py, dwcs/winners.py, dwcs/manifest.py,              *)
(* ingest/repository.py, db/tables/{core,provenance}.py,                   *)
(* features/snapshot.py, labels/outcomes.py, evaluation/contract.py.       *)
(***************************************************************************)
EXTENDS Naturals, Sequences, FiniteSets, Functions, Nothing

CONSTANTS
  Cards,          \* the cards in the order of the manifest: sets of bouts
  ManifestRows,   \* what a manifest may say of a bout: [night, current, flag, ended]
  Scopes,         \* "dwcs:<through_year>", for each year a sync is called with
  Syncs,          \* the processes that sync
  MaxTime,        \* bound: the clock
  FirstRow,       \* what the first issue of the manifest says of every bout
  MaxAmends,      \* bound: amendments of the manifest
  MaxFailures     \* bound: killed or failed syncs

VARIABLES
  now,
  manifest,       \* the manifest on disk: [version, rows]
  amends,         \* the amendments of it so far
  raw,            \* raw_observations: [scope, bout, kind, payload]
  versions,       \* bout_result_versions: [bout, kind, rev, result, effective, observed]
  checkpoint,     \* source_checkpoints: scope -> cards committed
  runs,           \* ingest_runs that ended: [scope, rows, status]
  sync,           \* process -> the sync it runs, with what its reads found
  failures

resultVars == <<now, manifest, amends, raw, versions, checkpoint, runs, sync, failures>>

ManifestBouts == UNION Range(Cards)
Kinds == {"event_night", "current"}

(* The day of a card: the first is fought as the model begins.             *)
NightOf(bout) == (CHOOSE i \in DOMAIN Cards : bout \in Cards[i]) - 1
-----------------------------------------------------------------------------
(* A decisive result names its winner, or is "open" when only a flag does. *)
Winner(result, flag) == IF result = "open" THEN flag ELSE result

(* resolve_version_winner: the flag, which tells the current winner, must  *)
(* contradict neither version, and an event night names its winner.        *)
Contradicts(result, flag) ==
  IF result = "nc" THEN flag # None
  ELSE IF result = "open" THEN flag = None
  ELSE flag \notin {None, result}

Resolved(row) ==
  /\ row.night # "open"
  /\ ~Contradicts(row.night, row.flag) /\ ~Contradicts(row.current, row.flag)

Reversed(row) == row.current = "nc" /\ row.night # "nc"

(* A reversal takes effect when the bout ended, if the manifest says when; *)
(* anything else on the night.                                             *)
EffectiveAt(bout, kind, row) ==
  IF kind = "current" /\ Reversed(row) /\ row.ended
    THEN NightOf(bout) + 1 ELSE NightOf(bout)

ResultOf(kind, row) ==
  IF kind = "event_night" THEN row.night ELSE Winner(row.current, row.flag)

(* What the payload hash covers: not the times, but the manifest's issue.  *)
Payload(kind, row, version) == <<ResultOf(kind, row), Reversed(row), version>>

Observation(scope, bout, kind, payload) ==
  [scope |-> scope, bout |-> bout, kind |-> kind, payload |-> payload]

(* The observations of a bout: a version of each kind, or the one conflict *)
(* when its winner cannot be told.                                         *)
ObservationsOf(bout, issue, scope) ==
  LET row == issue.rows[bout]
  IN IF Resolved(row)
       THEN {Observation(scope, bout, k, Payload(k, row, issue.version)) : k \in Kinds}
       ELSE {Observation(scope, bout, "conflict", <<row.night, row.current, row.flag>>)}

CardObservations(i, issue, scope) ==
  UNION {ObservationsOf(b, issue, scope) : b \in Cards[i]}
-----------------------------------------------------------------------------
VersionsOf(vs, bout, kind) == {v \in vs : v.bout = bout /\ v.kind = kind}

MutVisibleOnceEffective(v, cutoff) == v.effective < cutoff

(* mutable_fact_allowed_at_cutoff.                                         *)
VisibleAt(v, cutoff) == v.effective < cutoff /\ v.observed <= cutoff

(* _training_sort_key; of equal keys the row that was inserted first, that *)
(* of the event night, is the maximum.                                     *)
Outranks(v, w) ==
  \/ v.effective > w.effective
  \/ v.effective = w.effective /\ v.observed > w.observed
  \/ v.effective = w.effective /\ v.observed = w.observed /\ v.rev > w.rev
  \/ /\ <<v.effective, v.observed, v.rev>> = <<w.effective, w.observed, w.rev>>
     /\ v.kind = "event_night"

(* training_label: the result a bout is labelled with at a cutoff.         *)
TrainingLabel(vs, bout, cutoff) ==
  LET eligible == {v \in vs : v.bout = bout /\ VisibleAt(v, cutoff)}
  IN IF eligible = {} THEN None
     ELSE (CHOOSE v \in eligible : \A w \in eligible \ {v} : Outranks(v, w)).result

(* _apply_observation: a revision on top of the latest of its kind.        *)
NewVersion(o, vs, issue, at) ==
  [bout |-> o.bout, kind |-> o.kind,
   rev |-> Cardinality(VersionsOf(vs, o.bout, o.kind)) + 1,
   result |-> ResultOf(o.kind, issue.rows[o.bout]),
   effective |-> EffectiveAt(o.bout, o.kind, issue.rows[o.bout]), observed |-> at]

Known(store, observations) == store \cap observations
-----------------------------------------------------------------------------
NoSync == [step |-> "idle"]

ResultInit ==
  /\ now = 0
  /\ manifest = [version |-> 1, rows |-> [b \in ManifestBouts |-> FirstRow]]
  /\ amends = 0
  /\ raw = {} /\ versions = {} /\ runs = {} /\ failures = 0
  /\ checkpoint = [s \in Scopes |-> 0]
  /\ sync = [p \in Syncs |-> NoSync]

Tick == now < MaxTime /\ now' = now + 1
        /\ UNCHANGED <<manifest, amends, raw, versions, checkpoint, runs, sync, failures>>

(* A corrected manifest is checked in, under its old version or a new one. *)
AmendManifest ==
  /\ amends < MaxAmends /\ amends' = amends + 1
  /\ \E b \in ManifestBouts, r \in ManifestRows, bump \in {0, 1} :
       /\ r # manifest.rows[b]
       /\ manifest' = [version |-> manifest.version + bump,
                       rows |-> [manifest.rows EXCEPT ![b] = r]]
  /\ UNCHANGED <<now, raw, versions, checkpoint, runs, sync, failures>>

(* After the last card, as the manifest has all of them, it is read and    *)
(* the run is recorded as running; all that the sync writes is observed    *)
(* now.                                                                    *)
StartSync(p, scope) ==
  /\ sync[p].step = "idle" /\ now >= Len(Cards) - 1
  /\ sync' = [sync EXCEPT ![p] =
       [step |-> "next", scope |-> scope, issue |-> manifest, card |-> 1,
        at |-> now, found |-> {}]]
  /\ UNCHANGED <<now, manifest, amends, raw, versions, checkpoint, runs, failures>>

(* The entities of the next card exist or are added, and the observations  *)
(* of it that are stored already are looked up.                            *)
ReadCard(p) ==
  LET s == sync[p] IN
  /\ s.step = "next" /\ s.card <= Len(Cards)
  /\ sync' = [sync EXCEPT ![p].step = "card",
                          ![p].found = Known(raw, CardObservations(s.card, s.issue, s.scope))]
  /\ UNCHANGED <<now, manifest, amends, raw, versions, checkpoint, runs, failures>>

MutNeverClashes(s) == FALSE

(* Insertion of an observation another sync has stored since the look-up   *)
(* is refused by uq_raw_obs_provenance.                                    *)
Clashes(s) ==
  (Known(raw, CardObservations(s.card, s.issue, s.scope)) \ s.found) # {}

(* apply_batch and the commit: observations, versions and checkpoint.      *)
CommitCard(p) ==
  LET s == sync[p]
      new == CardObservations(s.card, s.issue, s.scope) \ s.found
  IN
  /\ s.step = "card" /\ ~Clashes(s)
  /\ raw' = raw \cup new
  /\ versions' = versions \cup
       {NewVersion(o, versions, s.issue, s.at) : o \in {n \in new : n.kind \in Kinds}}
  /\ checkpoint' = [checkpoint EXCEPT ![s.scope] = s.card]
  /\ sync' = [sync EXCEPT ![p].step = "next", ![p].card = s.card + 1, ![p].found = {}]
  /\ UNCHANGED <<now, manifest, amends, runs, failures>>

EndRun(p, status) ==
  /\ runs' = runs \cup {[scope |-> sync[p].scope, issue |-> sync[p].issue, status |-> status]}
  /\ sync' = [sync EXCEPT ![p] = NoSync]

(* The batch is rolled back and the run ends failed: on the clash, and for *)
(* a database that stays locked.                                           *)
FailCard(p) ==
  /\ sync[p].step = "card"
  /\ \/ Clashes(sync[p]) /\ UNCHANGED failures
     \/ /\ \E q \in Syncs \ {p} : sync[q].step = "card"
        /\ failures < MaxFailures /\ failures' = failures + 1
  /\ EndRun(p, "failed")
  /\ UNCHANGED <<now, manifest, amends, raw, versions, checkpoint>>

FinishSync(p) ==
  /\ sync[p].step = "next" /\ sync[p].card > Len(Cards)
  /\ EndRun(p, "succeeded")
  /\ UNCHANGED <<now, manifest, amends, raw, versions, checkpoint, failures>>

(* The process dies: what it committed stays, its run is running for ever. *)
SyncKilled(p) ==
  /\ sync[p].step # "idle" /\ failures < MaxFailures
  /\ failures' = failures + 1
  /\ sync' = [sync EXCEPT ![p] = NoSync]
  /\ UNCHANGED <<now, manifest, amends, raw, versions, checkpoint, runs>>

ResultNext ==
  \/ Tick \/ AmendManifest
  \/ \E p \in Syncs :
       \/ \E s \in Scopes : StartSync(p, s)
       \/ ReadCard(p) \/ CommitCard(p) \/ FailCard(p) \/ FinishSync(p) \/ SyncKilled(p)

ResultSpec == ResultInit /\ [][ResultNext]_resultVars
-----------------------------------------------------------------------------
(* However syncs overlap, are killed or replayed, every observation of a   *)
(* result is one version and the revisions of a bout are numbered without  *)
(* a gap: a replay adds none.  A run that succeeded left an observation of *)
(* every bout of the manifest it had read.                                 *)
OneVersionPerObservation ==
  /\ \A b \in ManifestBouts, k \in Kinds :
       LET revs == {v.rev : v \in VersionsOf(versions, b, k)}
       IN /\ revs = 1 .. Cardinality(VersionsOf(versions, b, k))
          /\ Cardinality(revs) = Cardinality({o \in raw : o.bout = b /\ o.kind = k})
  /\ \A r \in runs : r.status = "succeeded" =>
       \A i \in DOMAIN Cards : CardObservations(i, r.issue, r.scope) \subseteq raw

Underway == {sync[p].at : p \in {q \in Syncs : sync[q].step # "idle"}}

(* What a bout was labelled with at a cutoff is not rewritten by what is   *)
(* learned later; later is since the start of the oldest sync under way,   *)
(* whose rows are all stamped with it.                                     *)
PastLabelsFixed ==
  [][versions' # versions => \A b \in ManifestBouts : \A cutoff \in 0 .. now :
       (\A t \in Underway : cutoff < t) =>
         TrainingLabel(versions', b, cutoff) = TrainingLabel(versions, b, cutoff)]_resultVars
=============================================================================
