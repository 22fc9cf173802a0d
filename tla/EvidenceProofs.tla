--------------------------- MODULE EvidenceProofs ---------------------------
(***************************************************************************)
(* What the stores of evidence keep true however their writers overlap and *)
(* die, for any number of them: the versions of a result, the histories of *)
(* fighters, the artifacts of a backup; and what is read of a past cutoff. *)
(***************************************************************************)
EXTENDS ResultVersions, HistorySync, ArtifactFiles, CoverageReport, WalkForward, Integers,
        FiniteSetTheorems, NaturalsInduction, WellFoundedInduction, TLAPS

-----------------------------------------------------------------------------
(* ResultVersions.                                                         *)

ObservedOf(store, bout, kind) == {o \in store : o.bout = bout /\ o.kind = kind}

RevsOf(vs, bout, kind) == {v.rev : v \in VersionsOf(vs, bout, kind)}

(* Every observation of a result is one version, and they are numbered.    *)
Numbered(store, vs, bout, kind) ==
  /\ IsFiniteSet(ObservedOf(store, bout, kind)) /\ IsFiniteSet(VersionsOf(vs, bout, kind))
  /\ Cardinality(ObservedOf(store, bout, kind)) = Cardinality(VersionsOf(vs, bout, kind))
  /\ RevsOf(vs, bout, kind) = 1 .. Cardinality(VersionsOf(vs, bout, kind))

(* Where a sync is, and what it has committed.                             *)
SyncOK(s, store) ==
  \/ s = NoSync
  \/ /\ s = [step |-> s.step, scope |-> s.scope, issue |-> s.issue, card |-> s.card,
             at |-> s.at, found |-> s.found]
     /\ s.step \in {"next", "card"}
     /\ s.card \in Nat \ {0} /\ s.at \in Nat
     /\ s.found \subseteq store
     /\ \A i \in DOMAIN Cards : i < s.card => CardObservations(i, s.issue, s.scope) \subseteq store

ResultInv ==
  /\ now \in Nat
  /\ DOMAIN sync = Syncs
  /\ \A p \in Syncs : SyncOK(sync[p], raw)
  /\ \A b \in ManifestBouts, k \in Kinds : Numbered(raw, versions, b, k)
  /\ \A r \in runs : r.status = "succeeded" =>
       \A i \in DOMAIN Cards : CardObservations(i, r.issue, r.scope) \subseteq raw

(* One bout has one observation of a kind in an issue of the manifest.     *)
LEMMA ObservationIsOne ==
  ASSUME NEW i, NEW issue, NEW scope, NEW k \in Kinds,
         NEW o \in CardObservations(i, issue, scope),
         NEW q \in CardObservations(i, issue, scope),
         o.bout = q.bout, o.kind = k, q.kind = k
  PROVE  o = q
<1>1. PICK b \in Cards[i] : o \in ObservationsOf(b, issue, scope)
  BY DEF CardObservations
<1>2. PICK c \in Cards[i] : q \in ObservationsOf(c, issue, scope)
  BY DEF CardObservations
<1>3. ASSUME NEW x \in Cards[i], NEW r \in ObservationsOf(x, issue, scope), r.kind = k
      PROVE  r = Observation(scope, x, k, Payload(k, issue.rows[x], issue.version)) /\ r.bout = x
  BY <1>3 DEF ObservationsOf, Observation, Kinds
<1> QED
  BY <1>1, <1>2, <1>3

(* The commit of a card adds at most one observation of a kind of a bout,  *)
(* with the version of it.                                                 *)
LEMMA NumberedStep ==
  ASSUME ResultInv, NEW p \in Syncs, CommitCard(p), NEW b \in ManifestBouts, NEW k \in Kinds
  PROVE  Numbered(raw', versions', b, k)
<1> DEFINE s == sync[p]
           obs == CardObservations(s.card, s.issue, s.scope)
           new == obs \ s.found
           mine == {o \in new : o.bout = b /\ o.kind = k}
           At(o) == NewVersion(o, versions, s.issue, s.at)
           n == Cardinality(VersionsOf(versions, b, k))
<1>1. Numbered(raw, versions, b, k) /\ n \in Nat
  BY FS_CardinalityType DEF ResultInv, Numbered
<1>2. new \cap raw = {}
  BY DEF CommitCard, Clashes, Known
<1>3. ObservedOf(raw', b, k) = ObservedOf(raw, b, k) \cup mine
  BY DEF CommitCard, ObservedOf
<1>4. \A o : At(o).bout = o.bout /\ At(o).kind = o.kind
             /\ At(o).rev = Cardinality(VersionsOf(versions, o.bout, o.kind)) + 1
  BY DEF NewVersion
<1>5. VersionsOf(versions', b, k) = VersionsOf(versions, b, k) \cup {At(o) : o \in mine}
  <2>1. versions' = versions \cup {At(o) : o \in {x \in new : x.kind \in Kinds}}
    BY DEF CommitCard
  <2> HIDE DEF At, new
  <2> QED
    BY <2>1, <1>4 DEF VersionsOf
<1>6. CASE mine = {}
  BY <1>1, <1>3, <1>5, <1>6 DEF Numbered, RevsOf
<1>7. CASE mine # {}
  <2>1. PICK o \in mine : TRUE
    BY <1>7
  <2>2. mine = {o}
    BY <2>1, ObservationIsOne
  <2>3. o \notin ObservedOf(raw, b, k)
    BY <2>1, <1>2 DEF ObservedOf
  <2>4. At(o).rev = n + 1
    BY <2>1, <1>4
  <2>5. At(o) \notin VersionsOf(versions, b, k)
    <3>1. At(o).rev \notin RevsOf(versions, b, k)
      BY <2>4, <1>1 DEF Numbered
    <3> QED
      BY <3>1 DEF RevsOf
  <2> HIDE DEF At, n, mine
  <2>6. VersionsOf(versions', b, k) = VersionsOf(versions, b, k) \cup {At(o)}
    BY <2>2, <1>5
  <2>7. ObservedOf(raw', b, k) = ObservedOf(raw, b, k) \cup {o}
    BY <2>2, <1>3
  <2>8. /\ IsFiniteSet(ObservedOf(raw', b, k)) /\ IsFiniteSet(VersionsOf(versions', b, k))
        /\ Cardinality(ObservedOf(raw', b, k)) = n + 1
        /\ Cardinality(VersionsOf(versions', b, k)) = n + 1
    BY <2>3, <2>5, <2>6, <2>7, <1>1, FS_AddElement DEF Numbered, n
  <2>9. RevsOf(versions', b, k) = RevsOf(versions, b, k) \cup {n + 1}
    BY <2>4, <2>6 DEF RevsOf
  <2>10. RevsOf(versions', b, k) = 1 .. n + 1
    BY <2>9, <1>1 DEF Numbered, n
  <2> QED
    BY <2>8, <2>10 DEF Numbered
<1> QED
  BY <1>6, <1>7

LEMMA SyncKeeps ==
  ASSUME NEW s, NEW store, NEW later, SyncOK(s, store), store \subseteq later
  PROVE  SyncOK(s, later)
BY DEF SyncOK

(* However syncs overlap and die, an observation is one version.           *)
LEMMA ResultInvariant == ResultSpec => []ResultInv
<1>1. ResultInit => ResultInv
  <2> SUFFICES ASSUME ResultInit PROVE ResultInv
    OBVIOUS
  <2>1. ASSUME NEW b, NEW k PROVE Numbered(raw, versions, b, k)
    <3>1. ObservedOf(raw, b, k) = {} /\ VersionsOf(versions, b, k) = {} /\ RevsOf(versions, b, k) = {}
      BY DEF ResultInit, ObservedOf, VersionsOf, RevsOf
    <3> QED
      BY <3>1, FS_EmptySet DEF Numbered
  <2> QED
    BY <2>1 DEF ResultInit, ResultInv, SyncOK
<1>2. ResultInv /\ [ResultNext]_resultVars => ResultInv'
  <2> SUFFICES ASSUME ResultInv, [ResultNext]_resultVars PROVE ResultInv'
    OBVIOUS
  <2>1. CASE Tick
    BY <2>1 DEF Tick, ResultInv, SyncOK
  <2>2. CASE AmendManifest
    BY <2>2 DEF AmendManifest, ResultInv, SyncOK
  <2>3. ASSUME NEW p \in Syncs, NEW scope \in Scopes, StartSync(p, scope) PROVE ResultInv'
    <3>1. SyncOK(sync'[p], raw')
      BY <2>3 DEF StartSync, SyncOK, ResultInv
    <3> QED
      BY <2>3, <3>1 DEF StartSync, ResultInv, SyncOK
  <2>4. ASSUME NEW p \in Syncs, ReadCard(p) PROVE ResultInv'
    <3> DEFINE s == sync[p]
               found == Known(raw, CardObservations(s.card, s.issue, s.scope))
    <3>3. SyncOK(s, raw) /\ s # NoSync
      BY <2>4 DEF ReadCard, ResultInv, NoSync
    <3>4. sync'[p] = [s EXCEPT !.step = "card", !.found = found] /\ raw' = raw
      BY <2>4 DEF ReadCard, ResultInv
    <3>5. found \subseteq raw
      BY DEF Known
    <3>1. SyncOK(sync'[p], raw')
      <4> HIDE DEF s, found
      <4> QED
        BY <3>3, <3>4, <3>5 DEF SyncOK
    <3> QED
      BY <2>4, <3>1 DEF ReadCard, ResultInv, SyncOK
  <2>5. ASSUME NEW p \in Syncs, CommitCard(p) PROVE ResultInv'
    <3>1. raw \subseteq raw' /\ UNCHANGED <<now, runs>>
      BY <2>5 DEF CommitCard
    <3>2. SyncOK(sync'[p], raw')
      BY <2>5 DEF CommitCard, SyncOK, ResultInv, NoSync
    <3>3. \A q \in Syncs \ {p} : SyncOK(sync'[q], raw')
      BY <2>5, <3>1, SyncKeeps DEF CommitCard, ResultInv
    <3>4. \A b \in ManifestBouts, k \in Kinds : Numbered(raw', versions', b, k)
      BY <2>5, NumberedStep
    <3>5. DOMAIN sync' = Syncs
      BY <2>5 DEF CommitCard, ResultInv
    <3> QED
      BY <3>1, <3>2, <3>3, <3>4, <3>5 DEF ResultInv
  <2>6. ASSUME NEW p \in Syncs, FailCard(p) PROVE ResultInv'
    BY <2>6 DEF FailCard, EndRun, ResultInv, SyncOK, NoSync
  <2>7. ASSUME NEW p \in Syncs, FinishSync(p) PROVE ResultInv'
    BY <2>7 DEF FinishSync, EndRun, ResultInv, SyncOK, NoSync
  <2>8. ASSUME NEW p \in Syncs, SyncKilled(p) PROVE ResultInv'
    BY <2>8 DEF SyncKilled, ResultInv, SyncOK, NoSync
  <2>9. CASE UNCHANGED resultVars
    BY <2>9 DEF resultVars, ResultInv, SyncOK
  <2> QED
    BY <2>1, <2>2, <2>3, <2>4, <2>5, <2>6, <2>7, <2>8, <2>9 DEF ResultNext
<1> QED
  BY <1>1, <1>2, PTL DEF ResultSpec

(* However syncs overlap, are killed or replayed, an observation of a      *)
(* result is one version, the revisions of a bout have no gap, and a run   *)
(* that succeeded left an observation of every bout of the manifest it     *)
(* read: for every manifest, any number of syncs and any corrections.      *)
THEOREM ObservationsAreVersions == ResultSpec => []OneVersionPerObservation
<1>1. ResultInv => OneVersionPerObservation
  <2> SUFFICES ASSUME ResultInv PROVE OneVersionPerObservation
    OBVIOUS
  <2>1. ASSUME NEW b \in ManifestBouts, NEW k \in Kinds
        PROVE  /\ RevsOf(versions, b, k) = 1 .. Cardinality(VersionsOf(versions, b, k))
               /\ Cardinality(RevsOf(versions, b, k)) = Cardinality(ObservedOf(raw, b, k))
    <3> DEFINE n == Cardinality(VersionsOf(versions, b, k))
    <3>1. Numbered(raw, versions, b, k) /\ n \in Nat
      BY FS_CardinalityType DEF ResultInv, Numbered
    <3>2. Cardinality(1 .. n) = n
      BY <3>1, FS_Interval
    <3> QED
      BY <3>1, <3>2 DEF Numbered
  <2> QED
    BY <2>1 DEF OneVersionPerObservation, ResultInv, RevsOf, ObservedOf
<1> QED
  BY <1>1, ResultInvariant, PTL

LabelAmong(eligible) ==
  IF eligible = {} THEN None
  ELSE (CHOOSE v \in eligible : \A w \in eligible \ {v} : Outranks(v, w)).result

(* What a bout was labelled with at a cutoff is not rewritten by what is   *)
(* learned later than the start of the oldest sync under way.              *)
THEOREM LabelsAreFixed == ResultSpec => PastLabelsFixed
<1> DEFINE Fixed ==
      versions' # versions => \A b \in ManifestBouts : \A cutoff \in 0 .. now :
        (\A t \in Underway : cutoff < t) =>
          TrainingLabel(versions', b, cutoff) = TrainingLabel(versions, b, cutoff)
<1>1. ResultInv /\ [ResultNext]_resultVars => [Fixed]_resultVars
  <2> SUFFICES ASSUME ResultInv, ResultNext, versions' # versions,
                      NEW b \in ManifestBouts, NEW cutoff \in 0 .. now,
                      \A t \in Underway : cutoff < t
               PROVE  TrainingLabel(versions', b, cutoff) = TrainingLabel(versions, b, cutoff)
    OBVIOUS
  <2>1. PICK p \in Syncs : CommitCard(p)
    BY DEF ResultNext, Tick, AmendManifest, StartSync, ReadCard, FailCard, FinishSync, SyncKilled
  <2>2. sync[p] # NoSync /\ sync[p].step # "idle"
    BY <2>1 DEF CommitCard, NoSync
  <2>3. sync[p].at \in Nat /\ cutoff < sync[p].at
    BY <2>2 DEF ResultInv, SyncOK, Underway
  <2>4. \A v \in versions' \ versions : v.observed = sync[p].at
    BY <2>1 DEF CommitCard, NewVersion
  <2>5. \A v \in versions' \ versions : ~VisibleAt(v, cutoff)
    BY <2>3, <2>4 DEF VisibleAt, ResultInv
  <2>6. versions \subseteq versions'
    BY <2>1 DEF CommitCard
  <2>7. {v \in versions' : v.bout = b /\ VisibleAt(v, cutoff)}
          = {v \in versions : v.bout = b /\ VisibleAt(v, cutoff)}
    BY <2>5, <2>6
  <2>8. \A vs : TrainingLabel(vs, b, cutoff)
                 = LabelAmong({v \in vs : v.bout = b /\ VisibleAt(v, cutoff)})
    BY DEF TrainingLabel, LabelAmong
  <2> QED
    BY <2>7, <2>8
<1>2. ResultSpec => [][Fixed]_resultVars
  BY <1>1, ResultInvariant, PTL DEF ResultSpec
<1> QED
  BY <1>2 DEF PastLabelsFixed
-----------------------------------------------------------------------------
(* HistorySync.                                                            *)

Place(site, f, page) == [source |-> site, fighter |-> f, page |-> page]
FaultOf(site, reason, f) == [source |-> site, reason |-> reason, subject |-> f]

(* What was met is on record: as a stored page or as a fault.              *)
OnRecord(site, m, stored_, faulty) ==
  IF m[2].is = "listed" THEN Place(site, m[1], m[2]) \in stored_
  ELSE FaultOf(site, IF m[2].is = "missing" THEN "missing_page" ELSE m[2].is, m[1]) \in faulty

(* A fighter was met, or a fault of every source, or left to another one.  *)
Covered(site, f, met, faulty) ==
  IF site \in IdAt[f] THEN \E m \in met : m[1] = f /\ m[2].is \notin {"wall", "drift"}
  ELSE IdAt[f] = {} => FaultOf(site, "missing_source_id", f) \in faulty

RowsAreNumbered(rs) ==
  /\ IsFiniteSet(rs)
  /\ {r.rev : r \in rs} = 1 .. Cardinality(rs)

JobShape(j) ==
  j = [step |-> j.step, src |-> j.src, next |-> j.next, page |-> j.page, status |-> j.status,
       killed |-> j.killed, met |-> j.met, collected |-> j.collected]

JobType(j) ==
  /\ JobShape(j)
  /\ j.step \in {"source", "seed", "fighter", "fetched", "mark", "end"}
  /\ j.src \in Nat \ {0} /\ j.next \in Nat \ {0} /\ j.killed \in BOOLEAN

(* Whom a job has met is on record, but for the page in hand.              *)
MetOK(j, site, stored_, faulty) ==
  \A m \in j.met :
    \/ OnRecord(site, m, stored_, faulty)
    \/ j.step = "fetched" /\ m = <<Seeds[j.next], j.page>>

CoveredTo(j, site, n, faulty) ==
  ~j.killed => \A i \in DOMAIN Seeds : i < n => Covered(site, Seeds[i], j.met, faulty)

(* The fighter in hand has been met.                                       *)
InHand(j, site, stored_) ==
  /\ j.next \in DOMAIN Seeds /\ j.page \in Contents
  /\ site \in IdAt[Seeds[j.next]] /\ <<Seeds[j.next], j.page>> \in j.met
  /\ j.step = "mark" => Place(site, Seeds[j.next], j.page) \in stored_ /\ j.page.is = "listed"

(* A job on a source: whom it has met is on record, and everyone up to the *)
(* next fighter is covered.                                                *)
JobOK(j, stored_, faulty) ==
  /\ JobType(j)
  /\ j.step # "source" => j.src \in DOMAIN HistSources
  /\ j.step \in {"fighter", "fetched", "mark", "end"} =>
       /\ MetOK(j, HistSources[j.src], stored_, faulty)
       /\ CoveredTo(j, HistSources[j.src], j.next, faulty)
  /\ j.step \in {"fetched", "mark"} => InHand(j, HistSources[j.src], stored_)
  /\ j.step \in {"fighter", "fetched", "mark"} => ~j.killed
  /\ j.step = "end" /\ ~j.killed => j.next > Len(Seeds)
  /\ j.step = "seed" => j.next = 1 /\ ~j.killed /\ j.met = {}

EndedOK(site, run, stored_, faulty) ==
  /\ \A m \in run.met : OnRecord(site, m, stored_, faulty)
  /\ run.status = "succeeded" => \A f \in Prospects : Covered(site, f, run.met, faulty)

HistoryInv ==
  /\ pages \in [Sites -> [Prospects -> Contents]]
  /\ DOMAIN frontier = Sites /\ \A s \in Sites : DOMAIN frontier[s] = Prospects
  /\ DOMAIN ended = Sites
  /\ job # NoJob => JobOK(job, fetched, faults)
  /\ \A s \in Sites : ended[s] # None => EndedOK(s, ended[s], fetched, faults)
  /\ \A s \in Sites, f \in Prospects : frontier[s][f] \in {"done", "blocked"} =>
       \E p \in fetched : p.source = s /\ p.fighter = f
  /\ \A r \in bouts : RowsAreNumbered(Revisions(r.source, r.bout, r.kind))

(* What is on record stays there.                                          *)
LEMMA RecordGrows ==
  ASSUME NEW site, NEW stored_, NEW stored2, NEW faulty, NEW faulty2,
         stored_ \subseteq stored2, faulty \subseteq faulty2
  PROVE  /\ \A m : OnRecord(site, m, stored_, faulty) => OnRecord(site, m, stored2, faulty2)
         /\ \A f, met, met2 : met \subseteq met2 /\ Covered(site, f, met, faulty)
                                => Covered(site, f, met2, faulty2)
         /\ \A run : EndedOK(site, run, stored_, faulty) => EndedOK(site, run, stored2, faulty2)
<1>1. \A m : OnRecord(site, m, stored_, faulty) => OnRecord(site, m, stored2, faulty2)
  BY DEF OnRecord
<1>2. \A f, met, met2 : met \subseteq met2 /\ Covered(site, f, met, faulty)
                          => Covered(site, f, met2, faulty2)
  BY DEF Covered
<1>3. \A run : EndedOK(site, run, stored_, faulty) => EndedOK(site, run, stored2, faulty2)
  BY <1>1, <1>2 DEF EndedOK
<1> QED
  BY <1>1, <1>2, <1>3

(* Sources, fighters and what the page of one is.                          *)
LEMMA HistoryTypes ==
  /\ HistSources \in Seq(Sites) /\ Seeds \in Seq(Prospects)
  /\ \A i \in DOMAIN HistSources : HistSources[i] \in Sites
  /\ \A i \in DOMAIN Seeds : Seeds[i] \in Prospects
  /\ \A f \in Prospects : \E i \in DOMAIN Seeds : Seeds[i] = f
<1>1. HistSources \in Seq(Sites) /\ Seeds \in Seq(Prospects)
  BY HistoryAssumption
<1>2. \A f \in Prospects : \E i \in DOMAIN Seeds : Seeds[i] = f
  BY DEF Prospects, Range
<1> QED
  BY <1>1, <1>2

(* The new rows of a page are the next revisions of their bouts.           *)
LEMMA RevisionsStep ==
  ASSUME HistoryInv, CommitPage
  PROVE  \A r \in bouts' : RowsAreNumbered(Revisions(r.source, r.bout, r.kind))'
<1> DEFINE new == NewBouts(Source, Fighter, job.page, job.status)
           Row(e) == NewRow(Source, Fighter, job.page, e, job.status)
<1>1. bouts' = bouts \cup new
  BY DEF CommitPage
<1>2. job # NoJob /\ job.page \in Contents
  BY DEF CommitPage, NoJob, HistoryInv, JobOK, InHand
<1> SUFFICES ASSUME NEW r \in bouts'
             PROVE  RowsAreNumbered({q \in bouts' : q.source = r.source /\ q.bout = r.bout /\ q.kind = r.kind})
  BY DEF Revisions
<1> DEFINE old == {q \in bouts : q.source = r.source /\ q.bout = r.bout /\ q.kind = r.kind}
           mine == {q \in new : q.source = r.source /\ q.bout = r.bout /\ q.kind = r.kind}
<1>3. {q \in bouts' : q.source = r.source /\ q.bout = r.bout /\ q.kind = r.kind} = old \cup mine
  BY <1>1
<1>4. RowsAreNumbered(old)
  <2>1. CASE old = {}
    <3>1. IsFiniteSet(old) /\ Cardinality(old) = 0 /\ {q.rev : q \in old} = {}
      BY <2>1, FS_EmptySet
    <3>2. 1 .. 0 = {}
      OBVIOUS
    <3> QED
      BY <3>1, <3>2 DEF RowsAreNumbered
  <2>2. CASE old # {}
    <3>1. PICK q \in bouts : q.source = r.source /\ q.bout = r.bout /\ q.kind = r.kind
      BY <2>2
    <3>2. Revisions(q.source, q.bout, q.kind) = old
      BY <3>1 DEF Revisions
    <3> QED
      BY <3>1, <3>2 DEF HistoryInv
  <2> QED
    BY <2>1, <2>2
<1>5. \A e : /\ Row(e).source = Source /\ Row(e).bout = e.bout /\ Row(e).kind = e.kind
             /\ Row(e).rev = Cardinality(Revisions(Source, e.bout, e.kind)) + 1
  BY DEF NewRow
<1>6. ASSUME NEW q \in mine PROVE mine = {q} /\ q.rev = Cardinality(old) + 1
  <2>1. new = {Row(e) : e \in job.page.lists}
    BY <1>6 DEF NewBouts
  <2> HIDE DEF Row
  <2>2. PICK e \in job.page.lists : q = Row(e)
    BY <1>6, <2>1
  <2>3. \A p \in mine : \E g \in job.page.lists : p = Row(g) /\ g.bout = e.bout /\ g.kind = e.kind
    BY <2>1, <2>2, <1>5
  <2>4. mine = {q}
    BY <2>2, <2>3, <1>2, HistoryAssumption
  <2>5. Revisions(Source, e.bout, e.kind) = old
    BY <2>2, <1>5 DEF Revisions
  <2> QED
    BY <2>2, <2>4, <2>5, <1>5
<1> HIDE DEF new, old, mine
<1>7. CASE mine = {}
  BY <1>3, <1>4, <1>7
<1>8. CASE mine # {}
  <2>1. PICK q \in mine : TRUE
    BY <1>8
  <2> DEFINE n == Cardinality(old)
  <2>2. mine = {q} /\ q.rev = n + 1
    BY <1>6
  <2>3. IsFiniteSet(old) /\ n \in Nat /\ {x.rev : x \in old} = 1 .. n
    BY <1>4, FS_CardinalityType DEF RowsAreNumbered
  <2> HIDE DEF n
  <2>4. q \notin old
    <3>1. \A x \in old : x.rev \in 1 .. n
      BY <2>3
    <3>2. q.rev \notin 1 .. n
      BY <2>2, <2>3
    <3> QED
      BY <3>1, <3>2
  <2>5. IsFiniteSet(old \cup mine) /\ Cardinality(old \cup mine) = n + 1
    BY <2>2, <2>3, <2>4, FS_AddElement DEF n
  <2>6. {x.rev : x \in old \cup mine} = 1 .. n + 1
    BY <2>2, <2>3
  <2> QED
    BY <1>3, <2>5, <2>6 DEF RowsAreNumbered
<1> QED
  BY <1>7, <1>8

(* The job goes on: what it needs of its own steps.                        *)
LEMMA JobStep ==
  ASSUME HistoryInv, job # NoJob,
         StartSource \/ SeedFrontier \/ SkipFighter \/ FetchFighter \/ PageMissing \/ KillSource
           \/ CommitPage \/ MarkFrontier \/ LastFighter \/ EndSource
  PROVE  JobOK(job', fetched', faults')
<1> DEFINE j == job
           site == HistSources[j.src]
           f == Seeds[j.next]
           page == pages[site][f]
<1>0. JobOK(j, fetched, faults) /\ JobType(j)
  BY DEF HistoryInv, JobOK
<1>a. Source = site /\ Fighter = f
  BY DEF Source, Fighter
<1>1. CASE StartSource
  <2>1. job' = [j EXCEPT !.step = "seed", !.next = 1, !.killed = FALSE, !.met = {}]
    BY <1>1, <1>a DEF StartSource
  <2> HIDE DEF j
  <2>2. JobShape(job')
    BY <2>1, <1>0 DEF JobType, JobShape
  <2>3. /\ job'.step = "seed"
        /\ job'.src = j.src
        /\ job'.next = 1
        /\ job'.page = j.page
        /\ job'.killed = FALSE
        /\ job'.met = {}
        /\ job'.killed \in BOOLEAN
    BY <2>1, <1>0 DEF JobType, JobShape
  <2>4. JobType(job')
    BY <2>2, <2>3, <1>0 DEF JobType
  <2> QED
    BY <2>3, <2>4, <1>0, <1>1, HistoryTypes DEF StartSource, JobOK, JobType, j
<1>2. CASE SeedFrontier
  <2>1. job' = [j EXCEPT !.step = "fighter"]
    BY <1>2, <1>a DEF SeedFrontier
  <2> HIDE DEF j
  <2>2. JobShape(job')
    BY <2>1, <1>0 DEF JobType, JobShape
  <2>3. /\ job'.step = "fighter"
        /\ job'.src = j.src
        /\ job'.next = j.next
        /\ job'.page = j.page
        /\ job'.killed = j.killed
        /\ job'.met = j.met
        /\ job'.killed \in BOOLEAN
    BY <2>1, <1>0 DEF JobType, JobShape
  <2>4. JobType(job')
    BY <2>2, <2>3, <1>0 DEF JobType
  <2>5. j.step = "seed"
    BY <1>2 DEF SeedFrontier, j
  <2> QED
    BY <2>3, <2>4, <2>5, <1>0, HistoryTypes DEF JobOK, MetOK, CoveredTo
<1>3. CASE SkipFighter
  <2>1. job' = [j EXCEPT !.next = @ + 1]
    BY <1>3, <1>a DEF SkipFighter
  <2> HIDE DEF j
  <2>2. JobShape(job')
    BY <2>1, <1>0 DEF JobType, JobShape
  <2>3. /\ job'.step = j.step
        /\ job'.src = j.src
        /\ job'.next = j.next + 1
        /\ job'.page = j.page
        /\ job'.killed = j.killed
        /\ job'.met = j.met
        /\ job'.killed \in BOOLEAN
    BY <2>1, <1>0 DEF JobType, JobShape
  <2>4. JobType(job')
    BY <2>2, <2>3, <1>0 DEF JobType
  <2>5. /\ j.step = "fighter" /\ j.next <= Len(Seeds) /\ site \notin IdAt[f]
        /\ faults' = IF IdAt[f] = {} THEN faults \cup {FaultOf(site, "missing_source_id", f)} ELSE faults
        /\ fetched' = fetched
    BY <1>3, <1>a DEF SkipFighter, HasId, Fault, FaultOf, j
  <2>6. Covered(site, f, j.met, faults')
    BY <2>5 DEF Covered
  <2> HIDE DEF site, f
  <2>7. MetOK(job', site, fetched', faults')
    <3>1. \A m : OnRecord(site, m, fetched, faults) => OnRecord(site, m, fetched', faults')
      <4>1. faults \subseteq faults'
        BY <2>5
      <4> QED
        BY <4>1, <2>5, RecordGrows
    <3>2. MetOK(j, site, fetched, faults)
      BY <1>0, <2>5 DEF JobOK, site
    <3>3. \A m \in j.met : OnRecord(site, m, fetched', faults')
      BY <3>1, <3>2, <2>5 DEF MetOK
    <3> QED
      BY <3>3, <2>3 DEF MetOK
  <2>8. CoveredTo(job', site, j.next + 1, faults')
    <3>1. CoveredTo(j, site, j.next, faults)
      BY <1>0, <2>5 DEF JobOK, site
    <3>2. \A i \in DOMAIN Seeds : i < j.next + 1 => i < j.next \/ i = j.next
      BY <2>4, <2>3, <1>0, HistoryTypes DEF JobType
    <3> QED
      BY <3>1, <3>2, <2>3, <2>5, <2>6, RecordGrows DEF CoveredTo, f
  <2> QED
    BY <2>3, <2>4, <2>5, <2>7, <2>8, <1>0 DEF JobOK, site
<1>4. CASE FetchFighter
  <2>1. job' = [j EXCEPT !.step = "fetched", !.page = page, !.status = identity[site][f], !.met = @ \cup {<<f, page>>}]
    BY <1>4, <1>a DEF FetchFighter
  <2> HIDE DEF j
  <2>2. JobShape(job')
    BY <2>1, <1>0 DEF JobType, JobShape
  <2>3. /\ job'.step = "fetched"
        /\ job'.src = j.src
        /\ job'.next = j.next
        /\ job'.page = page
        /\ job'.killed = j.killed
        /\ job'.met = j.met \cup {<<f, page>>}
        /\ job'.killed \in BOOLEAN
    BY <2>1, <1>0 DEF JobType, JobShape
  <2>4. JobType(job')
    BY <2>2, <2>3, <1>0 DEF JobType
  <2>5. /\ j.step = "fighter" /\ j.next <= Len(Seeds) /\ site \in IdAt[f]
        /\ fetched' = fetched /\ faults' = faults
    BY <1>4, <1>a DEF FetchFighter, WillFetch, HasId, j
  <2>6. j.next \in DOMAIN Seeds /\ page \in Contents
    BY <2>5, <1>0, HistoryTypes DEF JobOK, JobType, HistoryInv
  <2>7. MetOK(j, site, fetched, faults) /\ CoveredTo(j, site, j.next, faults) /\ ~j.killed
        /\ j.src \in DOMAIN HistSources
    BY <1>0, <2>5 DEF JobOK
  <2> HIDE DEF site, page
  <2>8. InHand(job', site, fetched')
    BY <2>3, <2>5, <2>6 DEF InHand
  <2>9. MetOK(job', site, fetched', faults')
    <3>1. <<Seeds[job'.next], job'.page>> = <<f, page>>
      BY <2>3
    <3> HIDE DEF f
    <3>2. \A m \in j.met : OnRecord(site, m, fetched, faults)
      BY <2>5, <2>7 DEF MetOK
    <3> QED
      BY <3>1, <3>2, <2>3, <2>5 DEF MetOK
  <2>10. CoveredTo(job', site, j.next, faults')
    BY <2>3, <2>5, <2>7, RecordGrows DEF CoveredTo
  <2> QED
    BY <2>3, <2>4, <2>7, <2>8, <2>9, <2>10 DEF JobOK, site
<1>5. CASE PageMissing
  <2>1. job' = [j EXCEPT !.step = "fighter", !.next = @ + 1]
    BY <1>5, <1>a DEF PageMissing
  <2> HIDE DEF j
  <2>2. JobShape(job')
    BY <2>1, <1>0 DEF JobType, JobShape
  <2>3. /\ job'.step = "fighter"
        /\ job'.src = j.src
        /\ job'.next = j.next + 1
        /\ job'.page = j.page
        /\ job'.killed = j.killed
        /\ job'.met = j.met
        /\ job'.killed \in BOOLEAN
    BY <2>1, <1>0 DEF JobType, JobShape
  <2>4. JobType(job')
    BY <2>2, <2>3, <1>0 DEF JobType
  <2>5. /\ j.step = "fetched" /\ j.page.is = "missing"
        /\ faults' = faults \cup {FaultOf(site, "missing_page", f)} /\ fetched' = fetched
    BY <1>5, <1>a DEF PageMissing, Fault, FaultOf, j
  <2>6. /\ MetOK(j, site, fetched, faults) /\ CoveredTo(j, site, j.next, faults) /\ ~j.killed
        /\ j.src \in DOMAIN HistSources /\ InHand(j, site, fetched)
    BY <1>0, <2>5 DEF JobOK
  <2> HIDE DEF site
  <2>7. OnRecord(site, <<f, j.page>>, fetched', faults') /\ Covered(site, f, j.met, faults')
    BY <2>5, <2>6 DEF OnRecord, Covered, InHand
  <2>8. MetOK(job', site, fetched', faults')
    <3>1. \A m : OnRecord(site, m, fetched, faults) => OnRecord(site, m, fetched', faults')
      BY <2>5, RecordGrows
    <3>2. \A m \in j.met : OnRecord(site, m, fetched, faults) \/ m = <<f, j.page>>
      BY <2>6 DEF MetOK
    <3> HIDE DEF f
    <3>3. \A m \in j.met : OnRecord(site, m, fetched', faults')
      BY <3>1, <3>2, <2>7
    <3> QED
      BY <3>3, <2>3 DEF MetOK
  <2>9. CoveredTo(job', site, j.next + 1, faults')
    <3>1. \A i \in DOMAIN Seeds : i < j.next + 1 => i < j.next \/ i = j.next
      BY <1>0, HistoryTypes DEF JobType
    <3>2. \A g : Covered(site, g, j.met, faults) => Covered(site, g, j.met, faults')
      BY <2>5, RecordGrows
    <3> QED
      BY <3>1, <3>2, <2>3, <2>6, <2>7 DEF CoveredTo
  <2> QED
    BY <2>3, <2>4, <2>6, <2>8, <2>9 DEF JobOK, site
<1>6. CASE KillSource
  <2>1. job' = [j EXCEPT !.step = "end", !.killed = TRUE]
    BY <1>6, <1>a DEF KillSource
  <2> HIDE DEF j
  <2>2. JobShape(job')
    BY <2>1, <1>0 DEF JobType, JobShape
  <2>3. /\ job'.step = "end"
        /\ job'.src = j.src
        /\ job'.next = j.next
        /\ job'.page = j.page
        /\ job'.killed = TRUE
        /\ job'.met = j.met
        /\ job'.killed \in BOOLEAN
    BY <2>1, <1>0 DEF JobType, JobShape
  <2>4. JobType(job')
    BY <2>2, <2>3, <1>0 DEF JobType
  <2>5. /\ j.step = "fetched" /\ j.page.is \in {"wall", "drift"}
        /\ faults' = faults \cup {FaultOf(site, j.page.is, f)} /\ fetched' = fetched
    BY <1>6, <1>a DEF KillSource, Fault, FaultOf, j
  <2>6. MetOK(j, site, fetched, faults) /\ j.src \in DOMAIN HistSources
    BY <1>0, <2>5 DEF JobOK
  <2> HIDE DEF site
  <2>7. OnRecord(site, <<f, j.page>>, fetched', faults')
    BY <2>5 DEF OnRecord
  <2>8. MetOK(job', site, fetched', faults')
    <3>1. \A m : OnRecord(site, m, fetched, faults) => OnRecord(site, m, fetched', faults')
      BY <2>5, RecordGrows
    <3>2. \A m \in j.met : OnRecord(site, m, fetched, faults) \/ m = <<f, j.page>>
      BY <2>6 DEF MetOK
    <3> HIDE DEF f
    <3>3. \A m \in j.met : OnRecord(site, m, fetched', faults')
      BY <3>1, <3>2, <2>7
    <3> QED
      BY <3>3, <2>3 DEF MetOK
  <2> QED
    BY <2>3, <2>4, <2>6, <2>8 DEF JobOK, CoveredTo, site
<1>7. CASE CommitPage
  <2>1. job' = [j EXCEPT !.step = "mark", !.collected = @ \cup {<<BoutKey(site, e.bout), e.result>> : e \in j.page.lists}]
    BY <1>7, <1>a DEF CommitPage
  <2> HIDE DEF j
  <2>2. JobShape(job')
    BY <2>1, <1>0 DEF JobType, JobShape
  <2>3. /\ job'.step = "mark"
        /\ job'.src = j.src
        /\ job'.next = j.next
        /\ job'.page = j.page
        /\ job'.killed = j.killed
        /\ job'.met = j.met
        /\ job'.killed \in BOOLEAN
    BY <2>1, <1>0 DEF JobType, JobShape
  <2>4. JobType(job')
    BY <2>2, <2>3, <1>0 DEF JobType
  <2>5. /\ j.step = "fetched" /\ j.page.is = "listed"
        /\ fetched' = fetched \cup {Place(site, f, j.page)} /\ faults' = faults
    BY <1>7, <1>a DEF CommitPage, Place, j
  <2>6. /\ MetOK(j, site, fetched, faults) /\ CoveredTo(j, site, j.next, faults) /\ ~j.killed
        /\ j.src \in DOMAIN HistSources /\ InHand(j, site, fetched)
    BY <1>0, <2>5 DEF JobOK
  <2> HIDE DEF site
  <2>7. OnRecord(site, <<f, j.page>>, fetched', faults')
    BY <2>5 DEF OnRecord
  <2>8. MetOK(job', site, fetched', faults')
    <3>1. \A m : OnRecord(site, m, fetched, faults) => OnRecord(site, m, fetched', faults')
      BY <2>5, RecordGrows
    <3>2. \A m \in j.met : OnRecord(site, m, fetched, faults) \/ m = <<f, j.page>>
      BY <2>6 DEF MetOK
    <3> HIDE DEF f
    <3>3. \A m \in j.met : OnRecord(site, m, fetched', faults')
      BY <3>1, <3>2, <2>7
    <3> QED
      BY <3>3, <2>3 DEF MetOK
  <2>9. InHand(job', site, fetched')
    BY <2>3, <2>5, <2>6 DEF InHand
  <2>10. CoveredTo(job', site, j.next, faults')
    BY <2>3, <2>5, <2>6, RecordGrows DEF CoveredTo
  <2> QED
    BY <2>3, <2>4, <2>6, <2>8, <2>9, <2>10 DEF JobOK, site
<1>8. CASE MarkFrontier
  <2>1. job' = [j EXCEPT !.step = "fighter", !.next = @ + 1]
    BY <1>8, <1>a DEF MarkFrontier
  <2> HIDE DEF j
  <2>2. JobShape(job')
    BY <2>1, <1>0 DEF JobType, JobShape
  <2>3. /\ job'.step = "fighter"
        /\ job'.src = j.src
        /\ job'.next = j.next + 1
        /\ job'.page = j.page
        /\ job'.killed = j.killed
        /\ job'.met = j.met
        /\ job'.killed \in BOOLEAN
    BY <2>1, <1>0 DEF JobType, JobShape
  <2>4. JobType(job')
    BY <2>2, <2>3, <1>0 DEF JobType
  <2>5. j.step = "mark" /\ fetched' = fetched /\ faults' = faults
    BY <1>8, <1>a DEF MarkFrontier, j
  <2>6. /\ MetOK(j, site, fetched, faults) /\ CoveredTo(j, site, j.next, faults) /\ ~j.killed
        /\ j.src \in DOMAIN HistSources /\ InHand(j, site, fetched)
    BY <1>0, <2>5 DEF JobOK
  <2> HIDE DEF site
  <2>7. OnRecord(site, <<f, j.page>>, fetched', faults') /\ Covered(site, f, j.met, faults')
    BY <2>5, <2>6 DEF OnRecord, Covered, InHand
  <2>8. MetOK(job', site, fetched', faults')
    <3>1. \A m : OnRecord(site, m, fetched, faults) => OnRecord(site, m, fetched', faults')
      BY <2>5, RecordGrows
    <3>2. \A m \in j.met : OnRecord(site, m, fetched, faults) \/ m = <<f, j.page>>
      BY <2>6 DEF MetOK
    <3> HIDE DEF f
    <3>3. \A m \in j.met : OnRecord(site, m, fetched', faults')
      BY <3>1, <3>2, <2>7
    <3> QED
      BY <3>3, <2>3 DEF MetOK
  <2>9. CoveredTo(job', site, j.next + 1, faults')
    <3>1. \A i \in DOMAIN Seeds : i < j.next + 1 => i < j.next \/ i = j.next
      BY <1>0, HistoryTypes DEF JobType
    <3>2. \A g : Covered(site, g, j.met, faults) => Covered(site, g, j.met, faults')
      BY <2>5, RecordGrows
    <3> QED
      BY <3>1, <3>2, <2>3, <2>6, <2>7 DEF CoveredTo
  <2> QED
    BY <2>3, <2>4, <2>6, <2>8, <2>9 DEF JobOK, site
<1>9. CASE LastFighter
  <2>1. job' = [j EXCEPT !.step = "end"]
    BY <1>9, <1>a DEF LastFighter
  <2> HIDE DEF j
  <2>2. JobShape(job')
    BY <2>1, <1>0 DEF JobType, JobShape
  <2>3. /\ job'.step = "end"
        /\ job'.src = j.src
        /\ job'.next = j.next
        /\ job'.page = j.page
        /\ job'.killed = j.killed
        /\ job'.met = j.met
        /\ job'.killed \in BOOLEAN
    BY <2>1, <1>0 DEF JobType, JobShape
  <2>4. JobType(job')
    BY <2>2, <2>3, <1>0 DEF JobType
  <2>5. j.step = "fighter" /\ j.next > Len(Seeds) /\ fetched' = fetched /\ faults' = faults
    BY <1>9 DEF LastFighter, j
  <2> QED
    BY <2>3, <2>4, <2>5, <1>0 DEF JobOK, MetOK, CoveredTo
<1>10. CASE EndSource
  <2>1. job' = [j EXCEPT !.step = "source", !.src = @ + 1]
    BY <1>10, <1>a DEF EndSource
  <2> HIDE DEF j
  <2>2. JobShape(job')
    BY <2>1, <1>0 DEF JobType, JobShape
  <2>3. /\ job'.step = "source"
        /\ job'.src = j.src + 1
        /\ job'.next = j.next
        /\ job'.page = j.page
        /\ job'.killed = j.killed
        /\ job'.met = j.met
        /\ job'.killed \in BOOLEAN
    BY <2>1, <1>0 DEF JobType, JobShape
  <2>4. JobType(job')
    BY <2>2, <2>3, <1>0 DEF JobType
  <2> QED
    BY <2>3, <2>4 DEF JobOK
<1> QED
  BY <1>1, <1>2, <1>3, <1>4, <1>5, <1>6, <1>7, <1>8, <1>9, <1>10

(* What a step writes down, it only adds.                                  *)
LEMMA HistoryGrows ==
  ASSUME HistoryNext
  PROVE  /\ fetched \subseteq fetched' /\ faults \subseteq faults' /\ bouts \subseteq bouts'
         /\ bouts' # bouts => CommitPage
BY DEF HistoryNext, EditPage, DecideIdentity, BeginJob, StartSource, SeedFrontier, SkipFighter,
       FetchFighter, PageMissing, KillSource, CommitPage, MarkFrontier, LastFighter, EndSource,
       EmitConflicts, SyncDies

(* A source ends with everyone covered, unless it was given up.            *)
LEMMA EndStep ==
  ASSUME HistoryInv, EndSource
  PROVE  /\ DOMAIN ended' = Sites
         /\ \A s \in Sites : ended'[s] # None => EndedOK(s, ended'[s], fetched', faults')
<1> DEFINE site == HistSources[job.src]
<1>1. /\ JobOK(job, fetched, faults) /\ job.step = "end" /\ Source = site
      /\ fetched' = fetched /\ faults' = faults
  BY DEF HistoryInv, EndSource, NoJob, Source
<1>2. site \in Sites /\ MetOK(job, site, fetched, faults) /\ CoveredTo(job, site, job.next, faults)
  BY <1>1, HistoryTypes DEF JobOK
<1>3. ended' = [ended EXCEPT ![site] = [status |-> EndStatus(job.killed), met |-> job.met]]
  BY <1>1 DEF EndSource
<1> HIDE DEF site
<1>4. \A m \in job.met : OnRecord(site, m, fetched, faults)
  BY <1>1, <1>2 DEF MetOK
<1>5. EndStatus(job.killed) = "succeeded" => \A f \in Prospects : Covered(site, f, job.met, faults)
  <2>1. EndStatus(job.killed) = "succeeded" => ~job.killed
    BY <1>1 DEF EndStatus
  <2>2. ~job.killed => \A i \in DOMAIN Seeds : i < job.next
    BY <1>1, HistoryTypes DEF JobOK, JobType
  <2> QED
    BY <2>1, <2>2, <1>2, HistoryTypes DEF CoveredTo
<1>6. EndedOK(site, ended'[site], fetched, faults)
  BY <1>2, <1>3, <1>4, <1>5 DEF EndedOK, HistoryInv
<1> QED
  BY <1>1, <1>2, <1>3, <1>6 DEF HistoryInv

LEMMA HistoryInvariant == HistorySpec => []HistoryInv
<1>1. HistoryInit => HistoryInv
  <2> SUFFICES ASSUME HistoryInit PROVE HistoryInv
    OBVIOUS
  <2>1. pages \in [Sites -> [Prospects -> Contents]]
    BY DEF HistoryInit, Contents
  <2>2. \A s \in Sites : ended[s] = None
    BY DEF HistoryInit
  <2>3. \A s \in Sites, f \in Prospects : frontier[s][f] \notin {"done", "blocked"}
    BY HistoryAssumption DEF HistoryInit
  <2> QED
    BY <2>1, <2>2, <2>3 DEF HistoryInit, HistoryInv
<1>2. HistoryInv /\ [HistoryNext]_historyVars => HistoryInv'
  <2> SUFFICES ASSUME HistoryInv, [HistoryNext]_historyVars PROVE HistoryInv'
    OBVIOUS
  <2>1. CASE UNCHANGED historyVars
    BY <2>1 DEF historyVars, HistoryInv, Revisions
  <2> SUFFICES ASSUME HistoryNext PROVE HistoryInv'
    BY <2>1
  <2>2. pages' \in [Sites -> [Prospects -> Contents]]
    <3>1. CASE EditPage
      <4>1. PICK s \in Sites, f \in Prospects, c \in PageContents : pages' = [pages EXCEPT ![s][f] = c]
        BY <3>1 DEF EditPage
      <4> QED
        BY <4>1 DEF HistoryInv, Contents
    <3>2. CASE ~EditPage
      BY <3>2 DEF HistoryInv, HistoryNext, DecideIdentity, BeginJob, StartSource, SeedFrontier,
           SkipFighter, FetchFighter, PageMissing, KillSource, CommitPage, MarkFrontier, LastFighter,
           EndSource, EmitConflicts, SyncDies
    <3> QED
      BY <3>1, <3>2
  <2>3. job' # NoJob => JobOK(job', fetched', faults')
    <3>1. CASE EditPage \/ DecideIdentity
      BY <3>1 DEF EditPage, DecideIdentity, HistoryInv
    <3>2. CASE BeginJob
      BY <3>2 DEF BeginJob, JobOK, JobType, JobShape
    <3>3. CASE EmitConflicts \/ SyncDies
      BY <3>3 DEF EmitConflicts, SyncDies
    <3>4. CASE StartSource \/ SeedFrontier \/ SkipFighter \/ FetchFighter \/ PageMissing \/ KillSource
                 \/ CommitPage \/ MarkFrontier \/ LastFighter \/ EndSource
      <4>1. job # NoJob
        BY <3>4 DEF NoJob, StartSource, SeedFrontier, SkipFighter, FetchFighter, PageMissing,
             KillSource, CommitPage, MarkFrontier, LastFighter, EndSource
      <4> QED
        BY <3>4, <4>1, JobStep
    <3> QED
      BY <3>1, <3>2, <3>3, <3>4 DEF HistoryNext
  <2>4. /\ DOMAIN ended' = Sites
        /\ \A s \in Sites : ended'[s] # None => EndedOK(s, ended'[s], fetched', faults')
    <3>1. CASE EndSource
      BY <3>1, EndStep
    <3>2. CASE ~EndSource
      <4>1. ended' = ended
        BY <3>2 DEF HistoryNext, EditPage, DecideIdentity, BeginJob, StartSource, SeedFrontier,
             SkipFighter, FetchFighter, PageMissing, KillSource, CommitPage, MarkFrontier,
             LastFighter, EmitConflicts, SyncDies
      <4> QED
        BY <4>1, HistoryGrows, RecordGrows DEF HistoryInv
    <3> QED
      BY <3>1, <3>2
  <2>5. /\ DOMAIN frontier' = Sites /\ \A s \in Sites : DOMAIN frontier'[s] = Prospects
        /\ \A s \in Sites, f \in Prospects : frontier'[s][f] \in {"done", "blocked"} =>
             \E p \in fetched' : p.source = s /\ p.fighter = f
    <3>1. CASE SeedFrontier
      <4> DEFINE seeded == [f \in Prospects |->
                   IF HasId(f) /\ frontier[Source][f] = None THEN "pending" ELSE frontier[Source][f]]
      <4>1. frontier' = [frontier EXCEPT ![Source] = seeded] /\ fetched' = fetched
        BY <3>1 DEF SeedFrontier
      <4>2. \A f \in Prospects : seeded[f] \in {"done", "blocked"} => frontier[Source][f] = seeded[f]
        OBVIOUS
      <4> HIDE DEF seeded
      <4>3. DOMAIN seeded = Prospects
        BY DEF seeded
      <4> QED
        BY <4>1, <4>2, <4>3 DEF HistoryInv
    <3>2. CASE MarkFrontier
      <4> DEFINE site == HistSources[job.src]
                 f == Seeds[job.next]
      <4>1. /\ Place(site, f, job.page) \in fetched /\ fetched' = fetched
            /\ site \in Sites /\ f \in Prospects
        BY <3>2, HistoryTypes DEF MarkFrontier, HistoryInv, NoJob, JobOK, InHand
      <4>2. PICK mark : frontier' = [frontier EXCEPT ![site][f] = mark]
        BY <3>2 DEF MarkFrontier, Source, Fighter
      <4> HIDE DEF site, f
      <4>3. \E p \in fetched' : p.source = site /\ p.fighter = f
        BY <4>1 DEF Place
      <4> QED
        BY <4>1, <4>2, <4>3 DEF HistoryInv
    <3>3. CASE ~SeedFrontier /\ ~MarkFrontier
      <4>1. frontier' = frontier
        BY <3>3 DEF HistoryNext, EditPage, DecideIdentity, BeginJob, StartSource,
             SkipFighter, FetchFighter, PageMissing, KillSource, CommitPage,
             LastFighter, EndSource, EmitConflicts, SyncDies
      <4> QED
        BY <4>1, HistoryGrows DEF HistoryInv
    <3> QED
      BY <3>1, <3>2, <3>3
  <2>6. \A r \in bouts' : RowsAreNumbered(Revisions(r.source, r.bout, r.kind))'
    <3>1. CASE bouts' = bouts
      BY <3>1 DEF HistoryInv, Revisions
    <3>2. CASE bouts' # bouts
      BY <3>2, HistoryGrows, RevisionsStep
    <3> QED
      BY <3>1, <3>2
  <2> QED
    BY <2>2, <2>3, <2>4, <2>5, <2>6 DEF HistoryInv
<1> QED
  BY <1>1, <1>2, PTL DEF HistorySpec

(* A sync accounts for everyone: a run that succeeded met everyone its     *)
(* source has an id of and has each on record, nobody is marked done whose *)
(* page is not stored, and the revisions of a bout have no gap: for any    *)
(* sources, fighters, pages and crashes.                                   *)
THEOREM HistoryAccounts == HistorySpec => []SyncAccounts
<1>1. HistoryInv => SyncAccounts
  <2> SUFFICES ASSUME HistoryInv PROVE SyncAccounts
    OBVIOUS
  <2>1. \A r \in bouts : {q.rev : q \in Revisions(r.source, r.bout, r.kind)}
                           = 1 .. Cardinality(Revisions(r.source, r.bout, r.kind))
    BY DEF HistoryInv, RowsAreNumbered
  <2> QED
    BY <2>1 DEF HistoryInv, SyncAccounts, EndedOK, OnRecord, Covered, Place, FaultOf
<1> QED
  BY <1>1, HistoryInvariant, PTL

RecordAmong(rs) == {<<BoutKey(r.source, r.bout), r.result>> : r \in Deduped(rs)}

(* A record before a fight is not changed by what became effective or was  *)
(* known only from that fight on.                                          *)
THEOREM RecordsAreFixed == HistorySpec => EarlierRecordsFixed
<1> DEFINE Fixed ==
      bouts' # bouts => \A f \in Prospects, c \in Cutoffs :
        (\A r \in bouts' \ bouts : r.at >= c \/ VisibleFrom(r) > c) =>
          PreFightRecord(f, c, bouts') = PreFightRecord(f, c, bouts)
<1>1. HistoryInv /\ [HistoryNext]_historyVars => [Fixed]_historyVars
  <2> SUFFICES ASSUME HistoryInv, HistoryNext, bouts' # bouts, NEW f \in Prospects, NEW c \in Cutoffs,
                      \A r \in bouts' \ bouts : r.at >= c \/ VisibleFrom(r) > c
               PROVE  PreFightRecord(f, c, bouts') = PreFightRecord(f, c, bouts)
    OBVIOUS
  <2>1. CommitPage /\ bouts \subseteq bouts' /\ c \in Nat
    BY HistoryGrows, HistoryAssumption
  <2>2. job.page \in Contents
    BY <2>1 DEF CommitPage, NoJob, HistoryInv, JobOK, InHand
  <2>3. \A r \in bouts' \ bouts : \E e \in job.page.lists : r.at = e.at /\ r.published = e.published
    BY <2>1 DEF CommitPage, NewBouts, NewRow
  <2>4. \A r \in bouts' \ bouts : r.at \in Nat /\ r.published \in Nat \cup {None}
    BY <2>2, <2>3, HistoryAssumption
  <2>5. \A r \in bouts' \ bouts : ~Visible(r, c)
    BY <2>1, <2>4, HistoryAssumption DEF Visible, VisibleFrom
  <2>6. {r \in bouts' : r.fighter = f /\ Visible(r, c)} = {r \in bouts : r.fighter = f /\ Visible(r, c)}
    BY <2>1, <2>5
  <2>7. \A rs : PreFightRecord(f, c, rs) = RecordAmong({r \in rs : r.fighter = f /\ Visible(r, c)})
    BY DEF PreFightRecord, RecordAmong
  <2> QED
    BY <2>6, <2>7
<1>2. HistorySpec => [][Fixed]_historyVars
  BY <1>1, HistoryInvariant, PTL DEF HistorySpec
<1> QED
  BY <1>2 DEF EarlierRecordsFixed
-----------------------------------------------------------------------------
(* ArtifactFiles.                                                          *)

(* What a file may hold besides nothing and a half-written payload.        *)
Holds(stem) ==
  {x \in Digests \cup Calibrated :
     /\ stem \in Digests => x = stem
     /\ stem \in Workers => x \in Digests \ JointDigests
     /\ stem = "output" => x \in Digests}

PutRecord == [name : Names, content : Digests \cup Calibrated \cup {None}, from : Names \cup {None}]

WorkerRecord ==
  [command : {"new", "train", "calibrate", "retrain", "over"},
   then : {None, "end", "store", "decide"}, todo : Seq(PutRecord), open : BOOLEAN,
   digest : Digests \cup Calibrated \cup {None}]

(* What a command has still to write: the outputs and its own scratch from *)
(* memory, and under a digest a copy of its scratch.                       *)
PutOK(p, w, put) ==
  \/ /\ put.from = None /\ put.content \in Holds(put.name[1])
     /\ put.name[1] \notin Digests
     /\ put.name[1] \in Workers => put.name[1] = p /\ w.then = "store"
  \/ put.from = <<p, put.name[2]>> /\ put.name[1] = w.digest /\ w.then = "decide"

WorkerOK(p, w, fs) ==
  /\ w \in WorkerRecord
  /\ w.command \in {"new", "over"} => w = Idle(w.command)
  /\ \A i \in DOMAIN w.todo : PutOK(p, w, w.todo[i])
  /\ w.open => w.todo # << >>
  /\ w.then = "decide" =>
       w.digest \in Digests \ JointDigests /\ \A part \in Parts : fs[<<p, part>>] = w.digest

(* Both files of a digest that a decision names are there.                 *)
Present(d, fs) == \A part \in Parts : fs[<<d, part>>] # None

(* A process has run since the files were listed.                          *)
RanSince(p) == bundle.seen[p].command # "over" /\ worker[p].command # "new"

BundleShape(b) ==
  b = [step |-> b.step, named |-> b.named, todo |-> b.todo, calm |-> b.calm, seen |-> b.seen,
       before |-> b.before, files |-> b.files]

BundleInv ==
  /\ BundleShape(bundle)
  /\ DOMAIN bundle.files = Names /\ bundle.files = [n \in Names |-> bundle.files[n]]
  /\ bundle.step \in {"idle", "list", "copy", "done"}
  /\ bundle.step \in {"idle", "list"} => bundle.files = [n \in Names |-> None]
  /\ bundle.step \in {"list", "copy"} => bundle.named \subseteq named
  /\ bundle.step = "copy" =>
       /\ bundle.todo \subseteq Names
       /\ \A d \in bundle.named, part \in Parts :
            <<d, part>> \in bundle.todo \/ bundle.files[<<d, part>>] \in {Torn, d}
       /\ \A p \in Workers : bundle.seen[p].command = "over" => worker[p].command = "over"
       /\ \/ \E p \in Workers : RanSince(p)
          \/ files = bundle.before /\ \A n \in Names \ bundle.todo : bundle.files[n] = files[n]
  /\ RecoverableBundle

FilesInv ==
  /\ DOMAIN files = Names /\ files = [n \in Names |-> files[n]]
  /\ \A stem \in Stems, part \in Parts : files[<<stem, part>>] \in {None, Torn} \cup Holds(stem)
  /\ DOMAIN worker = Workers
  /\ \A p \in Workers : WorkerOK(p, worker[p], files)
  /\ named \subseteq Digests \ JointDigests
  /\ \A d \in named : Present(d, files)

LEMMA Separate ==
  /\ JointDigests \subseteq Digests
  /\ \A d \in Digests : d \notin Workers /\ d \notin Calibrated /\ d \notin {"output", "output.calibrated"}
                        /\ d # None /\ d # Torn
  /\ \A p \in Workers : p \notin Digests /\ p \notin {"output", "output.calibrated"}
  /\ None \notin Calibrated /\ None \notin {Torn, "decide"} /\ None \notin Names /\ Torn \notin Calibrated
  /\ \A d \in Digests : ~IsJoint(d) <=> d \notin JointDigests
<1>1. \A d \in Digests : ~IsJoint(d) <=> d \notin JointDigests
  BY FilesAssumption DEF IsJoint, Calibrated
<1> QED
  BY <1>1, FilesAssumption

(* What the files of a digest can hold.                                    *)
LEMMA DigestFile ==
  ASSUME FilesInv, NEW d \in Digests, NEW part \in Parts
  PROVE  files[<<d, part>>] \in {None, Torn, d}
BY DEF FilesInv, Holds, Stems

LEMMA IdleOK ==
  ASSUME NEW p \in Workers, NEW fs, NEW command \in {"new", "over"}
  PROVE  WorkerOK(p, Idle(command), fs)
<1> DEFINE w == Idle(command)
<1>1. w = [command |-> command, then |-> None, todo |-> << >>, open |-> FALSE, digest |-> None]
  BY DEF Idle
<1>2. w \in WorkerRecord
  BY <1>1 DEF WorkerRecord
<1>3. ~w.open /\ w.todo = << >> /\ w.then = None /\ w.command = command
  BY <1>1
<1> QED
  BY <1>2, <1>3, Separate DEF WorkerOK

(* The commands change no file.                                            *)
LEMMA BeginStep ==
  ASSUME FilesInv, NEW p \in Workers,
         TrainCommand(p) \/ CalibrateCommand(p) \/ RetrainCommand(p) \/ Store(p)
  PROVE  WorkerOK(p, worker'[p], files)
<1>1. ASSUME NEW command \in {"train", "calibrate", "retrain"}, NEW then \in {"end", "store", "decide"},
             NEW todo \in Seq(PutRecord), NEW digest \in Digests \cup Calibrated,
             worker' = Doing(p, command, then, todo, digest)
      PROVE  /\ worker'[p] \in WorkerRecord /\ ~worker'[p].open
             /\ worker'[p].command = command /\ worker'[p].then = then
             /\ worker'[p].todo = todo /\ worker'[p].digest = digest
  <2>1. worker'[p] = [Idle(command) EXCEPT !.then = then, !.todo = todo, !.digest = digest]
    BY <1>1 DEF Doing, FilesInv
  <2>2. worker'[p] = [command |-> command, then |-> then, todo |-> todo, open |-> FALSE,
                      digest |-> digest]
    BY <2>1 DEF Idle
  <2> QED
    BY <2>2 DEF WorkerRecord
<1>2. \A stem \in Stems, part \in Parts, c \in Digests \cup Calibrated :
        /\ Put(<<stem, part>>, c) \in PutRecord
        /\ Put(<<stem, part>>, c).name[1] = stem /\ Put(<<stem, part>>, c).from = None
        /\ Put(<<stem, part>>, c).content = c
  BY DEF Put, PutRecord, Names
<1>3. ASSUME NEW stem \in Stems \ Digests, NEW c \in Holds(stem),
             NEW command \in {"train", "calibrate", "retrain"}, NEW then \in {"end", "store"},
             stem \in Workers => stem = p /\ then = "store",
             NEW digest \in Digests \cup Calibrated,
             worker' = Doing(p, command, then, Save(stem, c), digest)
      PROVE  WorkerOK(p, worker'[p], files)
  <2>1. Save(stem, c) \in Seq(PutRecord) /\ Len(Save(stem, c)) = 2
    BY <1>2 DEF Save, Parts, Holds
  <2>2. worker'[p] \in WorkerRecord /\ worker'[p].todo = Save(stem, c) /\ worker'[p].then = then
        /\ worker'[p].command = command /\ ~worker'[p].open
    BY <1>1, <1>3, <2>1
  <2>3. \A i \in DOMAIN Save(stem, c) : PutOK(p, worker'[p], Save(stem, c)[i])
    BY <1>2, <1>3, <2>2 DEF Save, Parts, Holds, PutOK
  <2> QED
    BY <2>2, <2>3 DEF WorkerOK
<1>4. CASE TrainCommand(p)
  <2>1. PICK c \in Digests : worker' = Doing(p, "train", "end", Save("output", c), c)
    BY <1>4 DEF TrainCommand
  <2>2. "output" \in Stems \ Digests /\ "output" \notin Workers /\ c \in Holds("output")
    BY Separate DEF Stems, Holds
  <2> QED
    BY <2>1, <2>2, <1>3
<1>5. CASE CalibrateCommand(p)
  <2>1. PICK joint \in BOOLEAN :
          /\ Loaded(files, "output", joint) # None
          /\ worker' = Doing(p, "calibrate", "end", Save("output.calibrated", <<Loaded(files, "output", joint)>>),
                             Loaded(files, "output", joint))
    BY <1>5 DEF CalibrateCommand
  <2> DEFINE c == Loaded(files, "output", joint)
  <2>2. c \in Digests
    BY <2>1, Separate DEF Loaded, Parses, FilesInv, Holds, Stems, Parts
  <2> HIDE DEF c
  <2>3. <<c>> \in Calibrated
    BY <2>2 DEF Calibrated
  <2>4. "output.calibrated" \in Stems \ Digests /\ "output.calibrated" \notin Workers
        /\ <<c>> \in Holds("output.calibrated")
    BY Separate, <2>3 DEF Stems, Holds
  <2>5. worker' = Doing(p, "calibrate", "end", Save("output.calibrated", <<c>>), c)
    BY <2>1 DEF c
  <2> QED
    BY <2>2, <2>4, <2>5, <1>3
<1>6. CASE RetrainCommand(p)
  <2>1. PICK c \in Digests \ JointDigests : worker' = Doing(p, "retrain", "store", Save(p, c), c)
    BY <1>6 DEF RetrainCommand
  <2>2. p \in Stems \ Digests /\ c \in Holds(p)
    BY Separate DEF Stems, Holds
  <2> QED
    BY <2>1, <2>2, <1>3
<1>7. CASE Store(p)
  <2> DEFINE c == Loaded(files, p, FALSE)
             copies == << CopyOf(<<c, "payload">>, <<p, "payload">>),
                          CopyOf(<<c, "manifest">>, <<p, "manifest">>) >>
  <2>1. CASE c = None
    <3>1. worker'[p] = Idle("over")
      BY <1>7, <2>1 DEF Store, Ended, FilesInv
    <3> QED
      BY <3>1, IdleOK
  <2>2. CASE c # None
    <3>1. c \in Digests \ JointDigests /\ \A part \in Parts : files[<<p, part>>] = c
      BY <2>2, Separate DEF Loaded, Parses, FilesInv, Holds, Stems, Parts
    <3>2. worker' = Doing(p, "retrain", "decide", copies, c)
      BY <1>7, <2>2 DEF Store
    <3> HIDE DEF c
    <3>3. /\ copies \in Seq(PutRecord) /\ Len(copies) = 2
          /\ copies[1].name = <<c, "payload">> /\ copies[1].from = <<p, "payload">>
          /\ copies[2].name = <<c, "manifest">> /\ copies[2].from = <<p, "manifest">>
      BY <3>1 DEF CopyOf, PutRecord, Names, Stems, Parts
    <3> HIDE DEF copies
    <3>4. worker'[p] \in WorkerRecord /\ worker'[p].todo = copies /\ worker'[p].then = "decide"
          /\ worker'[p].command = "retrain" /\ ~worker'[p].open /\ worker'[p].digest = c
      BY <1>1, <3>1, <3>2, <3>3
    <3>5. \A i \in DOMAIN copies : PutOK(p, worker'[p], copies[i])
      <4>1. \A i \in DOMAIN copies : i = 1 \/ i = 2
        BY <3>3
      <4> QED
        BY <4>1, <3>3, <3>4 DEF PutOK
    <3> QED
      BY <3>1, <3>4, <3>5 DEF WorkerOK
  <2> QED
    BY <2>1, <2>2
<1> QED
  BY <1>4, <1>5, <1>6, <1>7

(* The first thing a running process has to write.                         *)
LEMMA FirstPut ==
  ASSUME FilesInv, NEW p \in Workers, worker[p].todo # << >>
  PROVE  /\ Head(worker[p].todo) \in PutRecord /\ PutOK(p, worker[p], Head(worker[p].todo))
         /\ Tail(worker[p].todo) \in Seq(PutRecord)
         /\ \A i \in DOMAIN Tail(worker[p].todo) : PutOK(p, worker[p], Tail(worker[p].todo)[i])
<1> DEFINE todo == worker[p].todo
<1>1. todo \in Seq(PutRecord) /\ \A i \in DOMAIN todo : PutOK(p, worker[p], todo[i])
  BY DEF FilesInv, WorkerOK, WorkerRecord
<1> HIDE DEF todo
<1>2. todo # << >> => Head(todo) = todo[1] /\ 1 \in DOMAIN todo /\ Tail(todo) \in Seq(PutRecord)
        /\ \A i \in DOMAIN Tail(todo) : i + 1 \in DOMAIN todo /\ Tail(todo)[i] = todo[i + 1]
  BY <1>1
<1> QED
  BY <1>1, <1>2 DEF todo

(* A file is opened or filled, with what it may hold; nobody else's        *)
(* scratch and no file of a digest is lost.                                *)
LEMMA WriteStep ==
  ASSUME FilesInv, NEW p \in Workers, OpenFile(p) \/ FillFile(p)
  PROVE  FilesInv'
<1> DEFINE w == worker[p]
           put == Head(w.todo)
           stem == put.name[1]
           part == put.name[2]
           new == IF w.open THEN (IF put.from = None THEN put.content ELSE files[put.from]) ELSE Torn
<1>1. w.todo # << >> /\ w \in WorkerRecord /\ WorkerOK(p, w, files)
  BY DEF OpenFile, FillFile, FilesInv, WorkerOK
<1>2. /\ put \in PutRecord /\ PutOK(p, w, put) /\ Tail(w.todo) \in Seq(PutRecord)
      /\ \A i \in DOMAIN Tail(w.todo) : PutOK(p, w, Tail(w.todo)[i])
  BY <1>1, FirstPut
<1>3. put.name \in Names /\ put.name = <<stem, part>> /\ stem \in Stems /\ part \in Parts
  <2>1. put.name \in Names
    BY <1>2 DEF PutRecord
  <2> QED
    BY <2>1 DEF Names
<1>4. files' = [files EXCEPT ![put.name] = new] /\ named' = named
  BY DEF OpenFile, FillFile
<1>5. new \in {Torn} \cup Holds(stem)
  <2>1. CASE ~w.open
    BY <2>1
  <2>2. CASE w.open /\ put.from = None
    <3>1. put.from # <<p, part>>
      BY <2>2, <1>3, Separate DEF Names, Stems
    <3> QED
      BY <2>2, <3>1, <1>2 DEF PutOK
  <2>3. CASE w.open /\ put.from # None
    <3>1. put.from = <<p, part>> /\ stem = w.digest /\ w.then = "decide"
      BY <2>3, <1>2 DEF PutOK
    <3>2. w.digest \in Digests \ JointDigests /\ files[<<p, part>>] = w.digest
      BY <3>1, <1>1, <1>3 DEF WorkerOK
    <3>3. new = w.digest
      BY <2>3, <3>1, <3>2
    <3> QED
      BY <3>1, <3>2, <3>3, Separate DEF Holds
  <2> QED
    BY <2>1, <2>2, <2>3
<1>6. new # None
  BY <1>5, Separate DEF Holds
<1>7. stem \in Workers => stem = p /\ w.then = "store"
  <2>1. CASE put.from = None
    <3>1. put.from # <<p, part>>
      BY <2>1, <1>3, Separate DEF Names, Stems
    <3> QED
      BY <3>1, <1>2 DEF PutOK
  <2>2. CASE put.from # None
    <3>1. stem = w.digest /\ w.then = "decide"
      BY <2>2, <1>2 DEF PutOK
    <3> QED
      BY <3>1, <1>1, Separate DEF WorkerOK
  <2> QED
    BY <2>1, <2>2
<1>8. worker' = [worker EXCEPT ![p] = worker'[p]]
      /\ worker'[p] \in WorkerRecord /\ worker'[p].then = w.then /\ worker'[p].digest = w.digest
      /\ worker'[p].command = w.command /\ worker'[p].todo \in {w.todo, Tail(w.todo)}
      /\ (worker'[p].open => worker'[p].todo = w.todo)
  <2>1. CASE OpenFile(p)
    <3>1. worker' = [worker EXCEPT ![p] = [w EXCEPT !.open = TRUE]]
      BY <2>1 DEF OpenFile
    <3> HIDE DEF w
    <3>2. worker'[p] = [w EXCEPT !.open = TRUE]
      BY <3>1 DEF FilesInv
    <3> QED
      BY <3>1, <3>2, <1>1 DEF WorkerRecord, FilesInv
  <2>2. CASE FillFile(p)
    <3>1. worker' = [worker EXCEPT ![p] = [w EXCEPT !.open = FALSE, !.todo = Tail(w.todo)]]
      BY <2>2 DEF FillFile
    <3> HIDE DEF w, put
    <3>2. worker'[p] = [w EXCEPT !.open = FALSE, !.todo = Tail(w.todo)]
      BY <3>1 DEF FilesInv
    <3> QED
      BY <3>1, <3>2, <1>1, <1>2 DEF WorkerRecord, FilesInv
  <2> QED
    BY <2>1, <2>2
<1> HIDE DEF new, put, stem, part, w
<1>9. DOMAIN files' = Names /\ files' = [n \in Names |-> files'[n]]
      /\ \A s \in Stems, t \in Parts : files'[<<s, t>>] \in {None, Torn} \cup Holds(s)
  <2>1. DOMAIN files' = Names /\ files' = [n \in Names |-> files'[n]]
    BY <1>4 DEF FilesInv
  <2>2. ASSUME NEW s \in Stems, NEW t \in Parts
        PROVE  files'[<<s, t>>] \in {None, Torn} \cup Holds(s)
    <3>1. CASE s = stem /\ t = part
      BY <3>1, <1>3, <1>4, <1>5 DEF FilesInv
    <3>2. CASE ~(s = stem /\ t = part)
      BY <3>2, <1>3, <1>4 DEF FilesInv, Names
    <3> QED
      BY <3>1, <3>2
  <2> QED
    BY <2>1, <2>2
<1>10. \A d \in named' : Present(d, files')
  BY <1>3, <1>4, <1>6, Separate DEF FilesInv, Present, Names, Stems
<1>11. \A q \in Workers : worker'[q].then = "decide" => \A t \in Parts : files'[<<q, t>>] = files[<<q, t>>]
  <2> SUFFICES ASSUME NEW q \in Workers, worker'[q].then = "decide", NEW t \in Parts
               PROVE  files'[<<q, t>>] = files[<<q, t>>]
    OBVIOUS
  <2>1. stem # q
    BY <1>7, <1>8 DEF w, FilesInv
  <2> QED
    BY <2>1, <1>3, <1>4 DEF FilesInv, Names, Stems
<1>12. WorkerOK(p, worker'[p], files')
  <2>1. \A i \in DOMAIN worker'[p].todo : PutOK(p, worker'[p], worker'[p].todo[i])
    BY <1>1, <1>2, <1>8 DEF WorkerOK, PutOK
  <2>2. w.command \notin {"new", "over"}
    BY DEF OpenFile, FillFile, Running, w
  <2> QED
    BY <2>1, <2>2, <1>1, <1>8, <1>11 DEF WorkerOK
<1>13. \A q \in Workers \ {p} : WorkerOK(q, worker'[q], files')
  <2> SUFFICES ASSUME NEW q \in Workers \ {p} PROVE WorkerOK(q, worker'[q], files')
    OBVIOUS
  <2>1. worker'[q] = worker[q] /\ WorkerOK(q, worker[q], files)
    BY <1>8 DEF FilesInv
  <2> QED
    BY <2>1, <1>11 DEF WorkerOK
<1>14. DOMAIN worker' = Workers
  BY <1>8 DEF FilesInv
<1> QED
  BY <1>4, <1>9, <1>10, <1>12, <1>13, <1>14 DEF FilesInv

LEMMA FilesStep ==
  ASSUME FilesInv, [FilesNext]_filesVars
  PROVE  FilesInv'
<1>1. ASSUME NEW p \in Workers, WorkerOK(p, worker'[p], files), files' = files, named' = named,
             worker' = [worker EXCEPT ![p] = worker'[p]]
      PROVE  FilesInv'
  BY <1>1 DEF FilesInv, Present
<1>2. ASSUME NEW p \in Workers, worker' = Ended(p)
      PROVE  worker' = [worker EXCEPT ![p] = worker'[p]] /\ WorkerOK(p, worker'[p], files)
  <2>1. worker'[p] = Idle("over")
    BY <1>2 DEF Ended, FilesInv
  <2> QED
    BY <1>2, <2>1, IdleOK DEF Ended
<1>3. ASSUME NEW p \in Workers, TrainCommand(p) \/ CalibrateCommand(p) \/ RetrainCommand(p) \/ Store(p)
      PROVE  FilesInv'
  <2>1. /\ files' = files /\ named' = named
        /\ \E w : worker' = [worker EXCEPT ![p] = w]
    BY <1>3 DEF TrainCommand, CalibrateCommand, RetrainCommand, Store, Doing, Ended
  <2>2. worker' = [worker EXCEPT ![p] = worker'[p]]
    BY <2>1 DEF FilesInv
  <2> QED
    BY <1>1, <1>3, <2>1, <2>2, BeginStep
<1>4. ASSUME NEW p \in Workers, OpenFile(p) \/ FillFile(p) PROVE FilesInv'
  BY <1>4, WriteStep
<1>5. ASSUME NEW p \in Workers, Finish(p) \/ KillWorker(p) PROVE FilesInv'
  BY <1>1, <1>2, <1>5 DEF Finish, KillWorker
<1>6. ASSUME NEW p \in Workers, CommitRow(p) PROVE FilesInv'
  <2> DEFINE d == worker[p].digest
  <2>1. worker' = Ended(p) /\ files' = files
    BY <1>6 DEF CommitRow
  <2>2. d \in Digests \ JointDigests
    BY <1>6 DEF CommitRow, FilesInv, WorkerOK
  <2>3. named' \subseteq Digests \ JointDigests /\ \A x \in named' : Present(x, files)
    <3>1. CASE Loaded(files, d, FALSE) = None
      BY <1>6, <3>1 DEF CommitRow, FilesInv
    <3>2. CASE Loaded(files, d, FALSE) # None
      <4>1. Present(d, files)
        BY <3>2 DEF Loaded, Parses, Present, Parts
      <4>2. named' = named \cup {d}
        BY <1>6, <3>2 DEF CommitRow
      <4> QED
        BY <4>1, <4>2, <2>2 DEF FilesInv
    <3> QED
      BY <3>1, <3>2
  <2>4. worker' = [worker EXCEPT ![p] = worker'[p]] /\ WorkerOK(p, worker'[p], files)
    BY <2>1, <1>2
  <2> QED
    BY <2>1, <2>3, <2>4 DEF FilesInv, Present
<1>7. CASE CopyDatabase \/ ListFiles \/ CopyFile \/ CloseBundle \/ UNCHANGED filesVars
  <2>1. UNCHANGED <<files, named, worker>>
    BY <1>7 DEF CopyDatabase, ListFiles, CopyFile, CloseBundle, filesVars
  <2> QED
    BY <2>1 DEF FilesInv, Present
<1> QED
  BY <1>3, <1>4, <1>5, <1>6, <1>7 DEF FilesNext

(* A command changes files only while it runs, and one that is over stays  *)
(* over; names of digests are only added.                                  *)
LEMMA CommandStep ==
  ASSUME FilesInv, [FilesNext]_filesVars, bundle' = bundle
  PROVE  /\ named \subseteq named'
         /\ \A p \in Workers : /\ worker[p].command = "over" => worker'[p].command = "over"
                               /\ worker[p].command # "new" => worker'[p].command # "new"
         /\ files' # files => \E p \in Workers : Running(p)
<1>1. ASSUME NEW p \in Workers, NEW q \in Workers, worker' = Ended(p)
      PROVE  worker'[q] = worker[q] \/ worker'[q].command = "over"
  BY <1>1 DEF Ended, Idle, FilesInv
<1>2. ASSUME NEW p \in Workers, NEW q \in Workers,
             TrainCommand(p) \/ CalibrateCommand(p) \/ RetrainCommand(p) \/ Store(p)
      PROVE  \/ worker'[q] = worker[q]
             \/ /\ worker[q].command # "over"
                /\ worker'[q].command \in {"train", "calibrate", "retrain", "over"}
  <2>0. worker[p].command # "over"
    BY <1>2 DEF TrainCommand, CalibrateCommand, RetrainCommand, Store, Running
  <2>1. CASE worker' = Ended(p)
    <3>1. worker'[q] = worker[q] \/ (q = p /\ worker'[q].command = "over")
      BY <2>1 DEF Ended, Idle, FilesInv
    <3> QED
      BY <2>0, <3>1
  <2>2. CASE q # p
    <3>1. PICK w : worker' = [worker EXCEPT ![p] = w]
      BY <1>2 DEF TrainCommand, CalibrateCommand, RetrainCommand, Store, Doing, Ended
    <3>2. worker'[q] = worker[q]
      BY <2>2, <3>1 DEF FilesInv
    <3> QED
      BY <3>2
  <2>3. ASSUME NEW command \in {"train", "calibrate", "retrain"}, NEW then, NEW todo, NEW digest,
               worker' = Doing(p, command, then, todo, digest)
        PROVE  worker'[p].command = command
    BY <2>3 DEF Doing, Idle, FilesInv
  <2>4. CASE worker' # Ended(p) /\ q = p
    <3>1. \E command \in {"train", "calibrate", "retrain"} : \E then, todo, digest :
            worker' = Doing(p, command, then, todo, digest)
      BY <1>2, <2>4 DEF TrainCommand, CalibrateCommand, RetrainCommand, Store
    <3> QED
      BY <3>1, <2>0, <2>3, <2>4
  <2> QED
    BY <2>1, <2>2, <2>4
<1>3. ASSUME NEW p \in Workers, NEW q \in Workers, OpenFile(p) \/ FillFile(p)
      PROVE  worker'[q].command = worker[q].command
  <2>1. worker[p] \in WorkerRecord
    BY DEF FilesInv, WorkerOK
  <2> QED
    BY <1>3, <2>1 DEF OpenFile, FillFile, FilesInv, WorkerRecord
<1>4. ASSUME NEW p \in Workers, NEW q \in Workers, CommitRow(p) \/ Finish(p) \/ KillWorker(p)
      PROVE  worker'[q] = worker[q] \/ worker'[q].command = "over"
  BY <1>4, <1>1 DEF CommitRow, Finish, KillWorker
<1>5. CASE UNCHANGED worker
  BY <1>5 DEF FilesNext, filesVars, TrainCommand, CalibrateCommand, RetrainCommand, Store, CommitRow,
       Finish, OpenFile, FillFile, KillWorker, CopyDatabase, ListFiles, CopyFile, CloseBundle
<1>6. CASE \E p \in Workers :
        \/ TrainCommand(p) \/ CalibrateCommand(p) \/ RetrainCommand(p) \/ Store(p) \/ CommitRow(p)
        \/ Finish(p) \/ OpenFile(p) \/ FillFile(p) \/ KillWorker(p)
  <2>1. PICK p \in Workers :
        \/ TrainCommand(p) \/ CalibrateCommand(p) \/ RetrainCommand(p) \/ Store(p) \/ CommitRow(p)
        \/ Finish(p) \/ OpenFile(p) \/ FillFile(p) \/ KillWorker(p)
    BY <1>6
  <2>2. named \subseteq named' /\ (files' # files => Running(p))
    BY <2>1 DEF TrainCommand, CalibrateCommand, RetrainCommand, Store, CommitRow,
         Finish, OpenFile, FillFile, KillWorker
  <2>3. \A q \in Workers : \/ worker'[q].command = worker[q].command
                           \/ worker'[q].command = "over"
                           \/ /\ worker[q].command # "over"
                              /\ worker'[q].command \in {"train", "calibrate", "retrain", "over"}
    BY <2>1, <1>2, <1>3, <1>4
  <2> QED
    BY <2>2, <2>3
<1>7. CASE CopyDatabase \/ ListFiles \/ CopyFile \/ CloseBundle
  BY <1>5, <1>7 DEF CopyDatabase, ListFiles, CopyFile, CloseBundle
<1> QED
  BY <1>5, <1>6, <1>7 DEF FilesNext, filesVars

LEMMA BundleStep ==
  ASSUME FilesInv, BundleInv, [FilesNext]_filesVars
  PROVE  BundleInv'
<1>1. CASE bundle' = bundle
  <2>1. /\ named \subseteq named'
        /\ \A p \in Workers : /\ worker[p].command = "over" => worker'[p].command = "over"
                              /\ worker[p].command # "new" => worker'[p].command # "new"
        /\ files' # files => \E p \in Workers : Running(p)
    BY <1>1, CommandStep
  <2>2. BundleShape(bundle') /\ RecoverableBundle'
    BY <1>1 DEF BundleInv, RecoverableBundle, BundleShape
  <2>3. bundle.step = "copy" =>
          \/ \E p \in Workers : RanSince(p)'
          \/ files' = bundle.before /\ \A n \in Names \ bundle.todo : bundle.files[n] = files'[n]
    <3> SUFFICES ASSUME bundle.step = "copy"
                 PROVE \/ \E p \in Workers : RanSince(p)'
                       \/ files' = bundle.before /\ \A n \in Names \ bundle.todo : bundle.files[n] = files'[n]
      OBVIOUS
    <3>1. CASE \E p \in Workers : RanSince(p)
      BY <1>1, <2>1, <3>1 DEF RanSince
    <3>2. CASE files' # files
      <4>1. PICK p \in Workers : worker[p].command \notin {"new", "over"}
        BY <2>1, <3>2 DEF Running
      <4>2. RanSince(p)'
        BY <1>1, <2>1, <4>1 DEF RanSince, BundleInv
      <4> QED
        BY <4>2
    <3> QED
      BY <1>1, <3>1, <3>2 DEF BundleInv
  <2> QED
    BY <1>1, <2>1, <2>2, <2>3 DEF BundleInv
<1>2. CASE CopyDatabase
  <2> DEFINE b == bundle
             b2 == [b EXCEPT !.step = "list", !.named = named]
  <2>1. bundle' = b2 /\ b.step = "idle" /\ named' = named
    BY <1>2 DEF CopyDatabase
  <2>2. BundleShape(b) /\ DOMAIN b.files = Names /\ b.files = [m \in Names |-> b.files[m]] /\ b.files = [n \in Names |-> None]
    BY <2>1 DEF BundleInv
  <2> HIDE DEF b
  <2>3. BundleShape(b2)
    <3>1. bundle' = b2
      BY <2>1
    <3> SUFFICES BundleShape(bundle')
      BY <3>1
    <3> QED
      BY <3>1, <2>2 DEF BundleShape
  <2>4. b2.step = "list" /\ b2.named = named /\ b2.files = b.files
    BY <2>2 DEF BundleShape
  <2> HIDE DEF b2
  <2> QED
    BY <2>1, <2>2, <2>3, <2>4 DEF BundleInv, RecoverableBundle
<1>3. CASE ListFiles
  <2> DEFINE b == bundle
             listed == {n \in Names : files[n] # None}
             b2 == [b EXCEPT !.step = "copy", !.todo = listed, !.seen = worker, !.before = files]
  <2>1. bundle' = b2 /\ b.step = "list" /\ UNCHANGED <<named, files, worker>>
    BY <1>3 DEF ListFiles
  <2>2. BundleShape(b) /\ b.files = [n \in Names |-> None] /\ b.named \subseteq named
    BY <2>1 DEF BundleInv
  <2>3. \A d \in b.named, part \in Parts : <<d, part>> \in listed
    BY <2>2 DEF FilesInv, Present, Names, Stems
  <2>4. \A n \in Names \ listed : b.files[n] = files[n]
    BY <2>2
  <2> HIDE DEF b, listed
  <2>5. BundleShape(b2)
    <3>1. bundle' = b2
      BY <2>1
    <3> SUFFICES BundleShape(bundle')
      BY <3>1
    <3> QED
      BY <3>1, <2>2 DEF BundleShape
  <2>6. /\ b2.step = "copy" /\ b2.named = b.named /\ b2.files = b.files /\ b2.todo = listed
        /\ b2.seen = worker /\ b2.before = files
    BY <2>2 DEF BundleShape
  <2>7. listed \subseteq Names
    BY DEF listed
  <2> HIDE DEF b2
  <2> QED
    BY <2>1, <2>2, <2>3, <2>4, <2>5, <2>6, <2>7 DEF BundleInv, RecoverableBundle
<1>4. CASE CopyFile
  <2> DEFINE b == bundle
  <2>1. PICK n \in b.todo : bundle' = [b EXCEPT !.todo = @ \ {n}, !.files[n] = files[n]]
    BY <1>4 DEF CopyFile
  <2> DEFINE fs == [b.files EXCEPT ![n] = files[n]]
             b2 == [b EXCEPT !.todo = b.todo \ {n}, !.files = fs]
  <2>2. bundle' = b2 /\ b.step = "copy" /\ UNCHANGED <<named, files, worker>>
    BY <1>4, <2>1 DEF CopyFile
  <2>3. /\ BundleShape(b) /\ DOMAIN b.files = Names /\ b.files = [m \in Names |-> b.files[m]] /\ b.todo \subseteq Names /\ b.named \subseteq named
        /\ \A d \in b.named, part \in Parts : <<d, part>> \in b.todo \/ b.files[<<d, part>>] \in {Torn, d}
        /\ \A p \in Workers : b.seen[p].command = "over" => worker[p].command = "over"
        /\ \/ \E p \in Workers : RanSince(p)
           \/ files = b.before /\ \A m \in Names \ b.todo : b.files[m] = files[m]
    BY <2>2 DEF BundleInv
  <2>4. \A d \in b.named, part \in Parts : files[<<d, part>>] \in {Torn, d}
    BY <2>3, DigestFile DEF FilesInv, Present
  <2>5. DOMAIN fs = Names /\ fs = [m \in Names |-> fs[m]]
    BY <2>3
  <2>6. \A d \in b.named, part \in Parts : <<d, part>> \in b.todo \ {n} \/ fs[<<d, part>>] \in {Torn, d}
    <3> SUFFICES ASSUME NEW d \in b.named, NEW part \in Parts, <<d, part>> \notin b.todo \ {n}
                 PROVE  fs[<<d, part>>] \in {Torn, d}
      OBVIOUS
    <3>1. <<d, part>> \in Names
      BY <2>3 DEF FilesInv, Names, Stems
    <3>2. CASE <<d, part>> = n
      BY <3>1, <3>2, <2>3, <2>4
    <3>3. CASE <<d, part>> # n
      BY <3>1, <3>3, <2>3
    <3> QED
      BY <3>2, <3>3
  <2>7. (\A m \in Names \ b.todo : b.files[m] = files[m])
           => \A m \in Names \ (b.todo \ {n}) : fs[m] = files[m]
    BY <2>3
  <2>8. \A p \in Workers : RanSince(p) <=> b.seen[p].command # "over" /\ worker[p].command # "new"
    BY DEF RanSince
  <2> HIDE DEF b, fs
  <2>9. BundleShape(b2)
    <3>1. bundle' = b2
      BY <2>2
    <3> SUFFICES BundleShape(bundle')
      BY <3>1
    <3> QED
      BY <3>1, <2>3 DEF BundleShape
  <2>10. /\ b2.step = b.step /\ b2.named = b.named /\ b2.files = fs /\ b2.todo = b.todo \ {n}
         /\ b2.seen = b.seen /\ b2.before = b.before
    BY <2>3 DEF BundleShape
  <2> HIDE DEF b2
  <2>11. \A p \in Workers : RanSince(p)' <=> b.seen[p].command # "over" /\ worker[p].command # "new"
    BY <2>2, <2>10 DEF RanSince
  <2> QED
    BY <2>2, <2>3, <2>5, <2>6, <2>7, <2>8, <2>9, <2>10, <2>11 DEF BundleInv, RecoverableBundle
<1>5. CASE CloseBundle
  <2> DEFINE b == bundle
             calm == worker = b.seen /\ \A p \in Workers : ~Running(p)
             b2 == [b EXCEPT !.step = "done", !.named = b.named, !.calm = calm]
  <2>1. bundle' = b2 /\ b.step = "copy" /\ b.todo = {} /\ UNCHANGED <<named, files, worker>>
    BY <1>5 DEF CloseBundle, DatabaseFirst
  <2>2. /\ BundleShape(b) /\ DOMAIN b.files = Names /\ b.files = [m \in Names |-> b.files[m]] /\ b.named \subseteq named
        /\ \A d \in b.named, part \in Parts : b.files[<<d, part>>] \in {Torn, d}
        /\ \A p \in Workers : b.seen[p].command = "over" => worker[p].command = "over"
        /\ \/ \E p \in Workers : RanSince(p)
           \/ files = b.before /\ \A m \in Names : b.files[m] = files[m]
    BY <2>1 DEF BundleInv
  <2>3. calm => b.files = b.before
    <3> SUFFICES ASSUME calm PROVE b.files = b.before
      OBVIOUS
    <3>1. \A p \in Workers : ~RanSince(p)
      BY DEF RanSince, Running
    <3>2. files = b.before /\ (\A m \in Names : b.files[m] = files[m])
      BY <2>2, <3>1
    <3>3. b.files = [m \in Names |-> b.files[m]] /\ files = [m \in Names |-> files[m]]
      BY <2>2, <3>2 DEF FilesInv
    <3> QED
      BY <3>2, <3>3
  <2>4. \A d \in b.named : d \in Digests \ JointDigests
    BY <2>2 DEF FilesInv
  <2>5. calm \in BOOLEAN
    OBVIOUS
  <2> HIDE DEF b, calm
  <2>6. BundleShape(b2)
    <3>1. bundle' = b2
      BY <2>1
    <3> SUFFICES BundleShape(bundle')
      BY <3>1
    <3> QED
      BY <3>1, <2>2 DEF BundleShape
  <2>7. /\ b2.step = "done" /\ b2.named = b.named /\ b2.files = b.files /\ b2.before = b.before
    BY <2>2 DEF BundleShape
  <2>8. b2.calm => calm
    BY <2>2, <2>5 DEF BundleShape
  <2> HIDE DEF b2
  <2>9. RecoverableBundle'
    <3>1. ASSUME NEW d \in b.named
          PROVE  LET both == {b.files[<<d, "payload">>], b.files[<<d, "manifest">>]}
                 IN None \notin both /\ (Torn \notin both => Loaded(b.files, d, FALSE) = d)
      <4>1. \A part \in Parts : b.files[<<d, part>>] \in {Torn, d}
        BY <2>2
      <4>2. d # None /\ d # Torn /\ None # Torn /\ ~IsJoint(d)
        BY <2>4, Separate
      <4> QED
        BY <4>1, <4>2 DEF Loaded, Parses, Parts
    <3>2. b2.calm /\ Accepts(b2.before) => Accepts(b2.files)
      BY <2>3, <2>7, <2>8
    <3> QED
      BY <2>1, <2>7, <3>1, <3>2 DEF RecoverableBundle
  <2> QED
    BY <2>1, <2>2, <2>6, <2>7, <2>9 DEF BundleInv
<1> QED
  BY <1>1, <1>2, <1>3, <1>4, <1>5 DEF FilesNext, filesVars, TrainCommand, CalibrateCommand,
     RetrainCommand, Store, CommitRow, Finish, OpenFile, FillFile, KillWorker

LEMMA FilesInvariant == FilesSpec => [](FilesInv /\ BundleInv)
<1>1. FilesInit => FilesInv /\ BundleInv
  <2> SUFFICES ASSUME FilesInit PROVE FilesInv /\ BundleInv
    OBVIOUS
  <2>1. FilesInv
    BY IdleOK DEF FilesInit, FilesInv, Names
  <2>2. BundleInv
    BY DEF FilesInit, BundleInv, BundleShape, RecoverableBundle
  <2> QED
    BY <2>1, <2>2
<1>2. FilesInv /\ BundleInv /\ [FilesNext]_filesVars => (FilesInv /\ BundleInv)'
  BY FilesStep, BundleStep
<1> QED
  BY <1>1, <1>2, PTL DEF FilesSpec

(* A backup made beside any number of training commands, killed or not,    *)
(* holds both files of every artifact that a decision of its database      *)
(* names, and they load as that artifact unless a writer had one of them   *)
(* open; and one during which nothing ran is accepted by restore.sh if all *)
(* that was in the directory could be loaded.                              *)
THEOREM BundlesRecover == FilesSpec => []RecoverableBundle
<1>1. BundleInv => RecoverableBundle
  BY DEF BundleInv
<1> QED
  BY <1>1, FilesInvariant, PTL
-----------------------------------------------------------------------------
(* CoverageReport.                                                         *)

FactOK(r) ==
  /\ r.id # None /\ {r.published, r.proxy, r.effective} \subseteq Clocks /\ r.observed \in Nat
  /\ r.source = Derived => r.quality = "unknown"

LinkOK(l, facts) ==
  l.link # None =>
    \E r \in facts : /\ r.id = l.link /\ r.bout = l.bout
                     /\ r.effective = l.effective /\ r.observed = l.observed

(* What is stored: rows with an id of their own and clocks, versions that  *)
(* are linked to the row they came with.                                   *)
CoverageInv ==
  /\ today \in Nat
  /\ stored = [facts |-> stored.facts, lanes |-> stored.lanes, others |-> stored.others]
  /\ IsFiniteSet(stored.facts)
  /\ \A r \in stored.facts : FactOK(r)
  /\ \A r, s \in stored.facts : r.id = s.id => r = s
  /\ \A l \in stored.lanes : LinkOK(l, stored.facts)
  /\ \A o \in stored.others : o.at \in Nat /\ o.observed \in Nat

LEMMA StoredIsFact ==
  ASSUME NEW r \in Rows, NEW at \in Nat
  PROVE  FactOK(Stored(r, at))
BY CoverageAssumption DEF FactOK, Stored

(* Rows of the same bout say more: a tier never falls when rows are added, *)
(* and a conflict stays.                                                   *)
Telling(R) == { r \in Facts(R) : r.source \in IndependentSources }
Families(R) == { SourceFamily(r.source) : r \in Telling(R) }
Contradicted(R) == (\E r \in Telling(R) : r.tier = "conflict") \/ KindConflict(Telling(R))
Dated(R) == \E r \in Telling(R) : r.quality = "direct"

LEMMA TierByCases ==
  ASSUME NEW R
  PROVE  /\ Telling(R) = {} => OverallTier(R) = "missing"
         /\ Contradicted(R) => OverallTier(R) = "conflict"
         /\ Telling(R) # {} /\ ~Contradicted(R) /\ Dated(R) => OverallTier(R) = "gold"
         /\ Telling(R) # {} /\ ~Contradicted(R) /\ ~Dated(R) =>
              OverallTier(R) = IF Cardinality(Families(R)) > 1 THEN "silver" ELSE "bronze"
<1> DEFINE F == Telling(R)
           families == Families(R)
<1>1. OverallTier(R) =
        CASE F = {} -> "missing"
          [] F # {} /\ ((\E r \in F : r.tier = "conflict") \/ KindConflict(F)) -> "conflict"
          [] OTHER -> IF \E r \in F : r.quality = "direct" THEN "gold"
                      ELSE IF Cardinality(families) > 1 THEN "silver" ELSE "bronze"
  BY Zenon DEF OverallTier, Telling, Families
<1>2. Contradicted(R) => F # {}
  BY DEF Contradicted, KindConflict
<1>3. Contradicted(R) <=> ((\E r \in F : r.tier = "conflict") \/ KindConflict(F))
  BY Zenon DEF Contradicted
<1>4. Dated(R) <=> \E r \in F : r.quality = "direct"
  BY Zenon DEF Dated
<1> HIDE DEF F, families
<1>5. CASE F = {}
  <2>1. OverallTier(R) = "missing"
    BY <1>1, <1>5
  <2> QED
    BY <2>1, <1>2, <1>5 DEF F
<1>6. CASE F # {} /\ Contradicted(R)
  <2>1. OverallTier(R) = "conflict"
    BY <1>1, <1>3, <1>6
  <2> QED
    BY <2>1, <1>6 DEF F
<1>7. CASE F # {} /\ ~Contradicted(R)
  <2>1. OverallTier(R) = IF \E r \in F : r.quality = "direct" THEN "gold"
                         ELSE IF Cardinality(families) > 1 THEN "silver" ELSE "bronze"
    BY <1>1, <1>3, <1>7
  <2> QED
    BY <2>1, <1>4, <1>7 DEF F, families
<1> QED
  BY <1>5, <1>6, <1>7

LEMMA TierNeverFalls ==
  ASSUME NEW R, NEW Q, R \subseteq Q, IsFiniteSet(Q)
  PROVE  /\ OverallTier(R) \in DOMAIN TierRank
         /\ TierRank[OverallTier(R)] <= TierRank[OverallTier(Q)]
<1>1. Telling(R) \subseteq Telling(Q) /\ Families(R) \subseteq Families(Q)
  BY DEF Telling, Facts, Families
<1>2. Contradicted(R) => Contradicted(Q)
  BY <1>1 DEF Contradicted, KindConflict
<1>3. Dated(R) => Dated(Q)
  BY <1>1 DEF Dated
<1>4. Cardinality(Families(R)) \in Nat /\ Cardinality(Families(Q)) \in Nat
      /\ Cardinality(Families(R)) <= Cardinality(Families(Q))
  <2>1. IsFiniteSet(Telling(Q))
    BY FS_Subset DEF Telling, Facts
  <2>2. IsFiniteSet(Families(Q))
    <3> DEFINE f == [r \in Telling(Q) |-> SourceFamily(r.source)]
    <3>1. f \in Surjection(Telling(Q), Families(Q))
      BY DEF Families, Surjection
    <3> QED
      BY <2>1, <3>1, FS_Surjection
  <2> QED
    BY <2>2, <1>1, FS_Subset, FS_CardinalityType
<1>5. TierRank = [missing |-> 0, bronze |-> 1, silver |-> 2, gold |-> 3, conflict |-> 4]
  BY DEF TierRank
<1>6. \A X : OverallTier(X) \in {"missing", "bronze", "silver", "gold", "conflict"}
  BY TierByCases, Zenon
<1>7. OverallTier(R) \in DOMAIN TierRank
  BY <1>5, <1>6
<1>8. CASE Telling(R) = {}
  <2>1. OverallTier(R) = "missing"
    BY <1>8, TierByCases
  <2> QED
    BY <2>1, <1>5, <1>6, <1>7
<1>9. CASE Contradicted(Q)
  <2>1. OverallTier(Q) = "conflict"
    BY <1>9, TierByCases
  <2> QED
    BY <2>1, <1>5, <1>6, <1>7
<1>10. CASE Telling(R) # {} /\ ~Contradicted(Q) /\ Dated(Q)
  <2>1. OverallTier(Q) = "gold" /\ OverallTier(R) \in {"gold", "silver", "bronze"}
    BY <1>10, <1>1, <1>2, TierByCases, Zenon
  <2> QED
    BY <2>1, <1>5, <1>7
<1>11. CASE Telling(R) # {} /\ ~Contradicted(Q) /\ ~Dated(Q)
  <2>1. /\ OverallTier(Q) = IF Cardinality(Families(Q)) > 1 THEN "silver" ELSE "bronze"
        /\ OverallTier(R) = IF Cardinality(Families(R)) > 1 THEN "silver" ELSE "bronze"
    BY <1>11, <1>1, <1>2, <1>3, TierByCases, Zenon
  <2> QED
    BY <2>1, <1>4, <1>5, <1>7
<1> QED
  BY <1>8, <1>9, <1>10, <1>11

(* Without a fact of UFCStats' own what is derived from it speaks for      *)
(* itself; with one it adds no family and no date.                         *)
LEMMA CopiesAddNothing ==
  ASSUME NEW R, NEW u \in R, u.fact, u.source = UfcStats,
         \A r \in R : r.source = Derived => r.quality = "unknown"
  PROVE  OverallTier(R) \in {OverallTier({ r \in R : r.source # Derived }), "conflict"}
<1> DEFINE Q == { r \in R : r.source # Derived }
<1>1. UfcStats # Derived /\ UfcStats \in IndependentSources
  BY DEF UfcStats, Derived, IndependentSources, BoutSources
<1>2. u \in Telling(R) /\ u \in Telling(Q) /\ Telling(Q) \subseteq Telling(R)
  BY <1>1 DEF Telling, Facts
<1>3. Contradicted(Q) => Contradicted(R)
  BY <1>2 DEF Contradicted, KindConflict
<1>4. Dated(Q) <=> Dated(R)
  BY <1>2 DEF Dated, Telling, Facts
<1>5. Families(Q) = Families(R)
  <2>1. \A r \in Telling(R) : SourceFamily(r.source) \in Families(Q)
    <3> TAKE r \in Telling(R)
    <3>1. CASE r.source = Derived
      BY <3>1, <1>1, <1>2 DEF Families, SourceFamily
    <3>2. CASE r.source # Derived
      BY <3>2 DEF Families, Telling, Facts
    <3> QED
      BY <3>1, <3>2
  <2> QED
    BY <2>1, <1>2 DEF Families
<1> HIDE DEF Q
<1>6. CASE Contradicted(R)
  BY <1>6, TierByCases
<1>7. CASE ~Contradicted(R) /\ Dated(R)
  <2>1. OverallTier(R) = "gold" /\ OverallTier(Q) = "gold"
    BY <1>7, <1>2, <1>3, <1>4, TierByCases, Zenon
  <2> QED
    BY <2>1 DEF Q
<1>8. CASE ~Contradicted(R) /\ ~Dated(R)
  <2>1. OverallTier(R) = OverallTier(Q)
    BY <1>8, <1>2, <1>3, <1>4, <1>5, TierByCases, Zenon
  <2> QED
    BY <2>1 DEF Q
<1> QED
  BY <1>6, <1>7, <1>8 DEF Q

(* The leakage audit.  The row it injects is of the future.                *)
LEMMA InjectedIsLate ==
  ASSUME NEW facts, NEW b, NEW target, NEW at \in Nat, NEW excluded
  PROVE  RowsOf(facts \cup {Injected(target, at + LastTime)}, b, at, excluded)
           = RowsOf(facts, b, at, excluded)
<1>1. at # None /\ LastTime \in Nat
  BY CoverageAssumption
<1>2. ~ObservationVisible(Injected(target, at + LastTime), at, excluded)
  BY <1>1 DEF ObservationVisible, RowKnownBy, Injected
<1> QED
  BY <1>2 DEF RowsOf

(* A number of a set of numbers that is the least of them.                 *)
LEMMA LeastExists ==
  ASSUME NEW S \in SUBSET Nat, S # {}
  PROVE  Min(S) \in S
<1>1. PICK x \in S : \A y \in S : ~(<<y, x>> \in OpToRel(<, Nat))
  BY NatLessThanWellFounded, WFMin
<1>4. \A y \in S : ~(y < x)
  BY <1>1 DEF OpToRel
<1>2. \A y \in S : x <= y
  BY <1>4
<1>3. Min(S) = CHOOSE z \in S : \A y \in S : z <= y
  BY Zenon DEF Min
<1> QED
  BY <1>2, <1>3

(* What the audit says is that the injected row has no effect at all, and  *)
(* that the bout it is injected into counts as one of the cutoff's.        *)
LEMMA AuditFindsNoLeak ==
  ASSUME NEW asOf \in AsOfs, LeakageFailures(asOf) # {}
  PROVE  LET audit == IF asOf = None THEN DefaultCutoff ELSE asOf
             target == FirstVisible(TierSnapshot(stored.facts, audit, None))
         IN /\ audit \in Nat /\ target \in FrozenBouts
            /\ TierSnapshot(stored.facts \cup {Injected(target, audit + LastTime)}, None, None)
                 = TierSnapshot(stored.facts, audit, None)
<1> DEFINE audit == IF asOf = None THEN DefaultCutoff ELSE asOf
           baseline == TierSnapshot(stored.facts, audit, None)
           target == FirstVisible(baseline)
           injected == stored.facts \cup {Injected(target, audit + LastTime)}
           without == TierSnapshot(stored.facts, audit, EventOf[target])
           changed == TierSnapshot(injected, audit, None)
           unbound == TierSnapshot(injected, None, None)
           leaks == \E b \in FrozenBouts :
                      IF EventOf[b] = EventOf[target] THEN without[b] # "missing"
                      ELSE without[b] # baseline[b]
<1>1. audit \in Nat
  BY CoverageAssumption DEF Clocks
<1>2. LeakageFailures(asOf) =
        IF target = None THEN {}
        ELSE { f \in {"changed", "no effect", "card"} :
                 \/ f = "changed" /\ changed # baseline
                 \/ f = "no effect" /\ unbound = baseline
                 \/ f = "card" /\ leaks }
  BY Zenon DEF LeakageFailures
<1>3. changed = baseline
  <2> HIDE DEF audit, target
  <2>1. ASSUME NEW b \in FrozenBouts
        PROVE  RowsOf(injected, b, audit, None) = RowsOf(stored.facts, b, audit, None)
    BY <1>1, InjectedIsLate
  <2> HIDE DEF injected
  <2>2. \A b \in FrozenBouts : RowsOf(injected, b, audit, None) = RowsOf(stored.facts, b, audit, None)
    BY <2>1
  <2> QED
    BY <2>2, Zenon DEF TierSnapshot
<1>4. ~leaks
  <2> SUFFICES ASSUME NEW b \in FrozenBouts
               PROVE  IF EventOf[b] = EventOf[target] THEN without[b] = "missing"
                      ELSE without[b] = baseline[b]
    OBVIOUS
  <2>1. CASE EventOf[b] = EventOf[target]
    <3>1. RowsOf(stored.facts, b, audit, EventOf[target]) = {}
      BY <2>1 DEF RowsOf, ObservationVisible
    <3>2. Telling({}) = {}
      BY DEF Telling, Facts
    <3>3. OverallTier({}) = "missing"
      BY <3>2, TierByCases
    <3> QED
      BY <2>1, <3>1, <3>3 DEF TierSnapshot
  <2>2. CASE EventOf[b] # EventOf[target]
    <3>1. EventOf[b] # None
      BY CoverageAssumption
    <3>2. RowsOf(stored.facts, b, audit, EventOf[target]) = RowsOf(stored.facts, b, audit, None)
      BY <2>2, <3>1 DEF RowsOf, ObservationVisible
    <3> QED
      BY <2>2, <3>2 DEF TierSnapshot
  <2> QED
    BY <2>1, <2>2
<1>5. target # None
  BY <1>2
<1>6. target \in FrozenBouts
  <2> DEFINE S == { i \in DOMAIN Universe : baseline[Universe[i]] # "missing" }
  <2>1. target = IF S = {} THEN None ELSE Universe[Min(S)]
    BY Zenon DEF FirstVisible
  <2>2. S \in SUBSET Nat /\ S \subseteq DOMAIN Universe
    BY CoverageAssumption
  <2> HIDE DEF S, target
  <2>3. S # {} /\ Min(S) \in S /\ target = Universe[Min(S)]
    BY <2>1, <2>2, <1>5, LeastExists
  <2> QED
    BY <2>2, <2>3 DEF FrozenBouts
<1> HIDE DEF baseline, target, changed, leaks, unbound
<1>7. unbound = baseline
  BY <1>2, <1>3, <1>4
<1> QED
  BY <1>1, <1>6, <1>7 DEF unbound, baseline, target

LEMMA AuditAccusesTheUntouchable ==
  ASSUME CoverageInv, NEW asOf \in AsOfs, LeakageFailures(asOf) # {}
  PROVE  \E b \in FrozenBouts : BoutRow(b, asOf, None).tier \in {"conflict", "gold"}
<1> DEFINE audit == IF asOf = None THEN DefaultCutoff ELSE asOf
           target == FirstVisible(TierSnapshot(stored.facts, audit, None))
           row == Injected(target, audit + LastTime)
           old == RowsOf(stored.facts, target, audit, None)
           asKnown == RowsOf(stored.facts, target, asOf, None)
           all == RowsOf(stored.facts \cup {row}, target, None, None)
<1>1. /\ audit \in Nat /\ target \in FrozenBouts
      /\ TierSnapshot(stored.facts \cup {row}, None, None) = TierSnapshot(stored.facts, audit, None)
  BY AuditFindsNoLeak, Zenon
<1>2. OverallTier(all) = OverallTier(old)
  BY <1>1 DEF TierSnapshot
<1>3. row \in Telling(all) /\ row.quality = "direct"
  <2>1. EventOf[target] # None
    BY <1>1, CoverageAssumption
  <2>2. /\ row.bout = target /\ row.source = UfcStats /\ row.fact /\ row.quality = "direct"
    BY DEF Injected
  <2>3. UfcStats \in BoutSources /\ UfcStats \in IndependentSources
    BY DEF BoutSources, IndependentSources, UfcStats
  <2>4. row \in all
    BY <2>1, <2>2, <2>3 DEF RowsOf, ObservationVisible
  <2> QED
    BY <2>2, <2>3, <2>4 DEF Telling, Facts
<1>4. BoutRow(target, asOf, None).tier = OverallTier(asKnown)
  BY DEF BoutRow
<1>5. old \subseteq asKnown /\ IsFiniteSet(asKnown)
  <2>1. IsFiniteSet(asKnown)
    BY FS_Subset DEF CoverageInv, RowsOf
  <2> QED
    BY <2>1 DEF RowsOf, ObservationVisible
<1> HIDE DEF target, row, old, asKnown, all
<1>6. OverallTier(all) \in {"gold", "conflict"}
  BY <1>3, TierByCases, Zenon DEF Dated
<1>7. TierRank[OverallTier(old)] <= TierRank[OverallTier(asKnown)] /\ OverallTier(asKnown) \in DOMAIN TierRank
  <2>1. asKnown \subseteq asKnown
    OBVIOUS
  <2> QED
    BY <1>5, <2>1, TierNeverFalls
<1>8. OverallTier(asKnown) \in {"gold", "conflict"}
  BY <1>2, <1>6, <1>7 DEF TierRank
<1> QED
  BY <1>1, <1>4, <1>8

(* The codes are the names of the fields; only one speaks of leakage.      *)
LEMMA LeakageBlocks ==
  ASSUME NEW asOf, "future_row_leakage" \in Blockers(asOf)
  PROVE  LeakageFailures(asOf) # {}
BY DEF Blockers

-----------------------------------------------------------------------------
LEMMA CoverageStarts == CoverageInit => CoverageInv
<1> SUFFICES ASSUME CoverageInit PROVE CoverageInv
  OBVIOUS
<1>1. \A l \in OldLanes : LinkOK(l, {})
  BY CoverageAssumption DEF LinkOK
<1> QED
  BY <1>1, FS_EmptySet DEF CoverageInit, CoverageInv

(* A row is recorded: what is added, by the fields of the tables.          *)
RowAdded(row, lane) ==
  /\ stored' = [facts |-> stored.facts \cup {row}, lanes |-> stored.lanes \cup lane,
                others |-> stored.others]
  /\ row \notin stored.facts /\ FactOK(row) /\ (\A r \in stored.facts : r.id # row.id)
  /\ lane = {} \/ \E l : /\ lane = {l} /\ l.link = row.id /\ l.bout = row.bout
                         /\ l.effective = row.effective /\ l.observed = row.observed

LEMMA RecordsAdd ==
  ASSUME CoverageInv, RecordFact
  PROVE  today' = today /\ \E row, lane : RowAdded(row, lane)
<1>1. PICK r \in Rows :
        /\ ~\E f \in stored.facts : f.id = r.id
        /\ \E rev : stored' = [stored EXCEPT
               !.facts = @ \cup {Stored(r, today)},
               !.lanes = @ \cup
                 IF r.fact /\ r.kind # None
                 THEN {[bout |-> r.bout, kind |-> r.kind, rev |-> rev, result |-> r.result,
                        effective |-> r.effective, observed |-> today, link |-> r.id]}
                 ELSE {}]
  BY Zenon DEF RecordFact
<1>2. PICK rev : stored' = [stored EXCEPT
               !.facts = @ \cup {Stored(r, today)},
               !.lanes = @ \cup
                 IF r.fact /\ r.kind # None
                 THEN {[bout |-> r.bout, kind |-> r.kind, rev |-> rev, result |-> r.result,
                        effective |-> r.effective, observed |-> today, link |-> r.id]}
                 ELSE {}]
  BY <1>1
<1> DEFINE l == [bout |-> r.bout, kind |-> r.kind, rev |-> rev, result |-> r.result,
                 effective |-> r.effective, observed |-> today, link |-> r.id]
           row == Stored(r, today)
           lane == IF r.fact /\ r.kind # None THEN {l} ELSE {}
<1>3. /\ row.id = r.id /\ row.bout = r.bout /\ row.effective = r.effective
      /\ row.observed = today /\ FactOK(row)
  BY StoredIsFact DEF CoverageInv, Stored
<1>4. /\ l.link = row.id /\ l.bout = row.bout /\ l.effective = row.effective
      /\ l.observed = row.observed
  BY <1>3
<1>5. stored' = [stored EXCEPT !.facts = @ \cup {row}, !.lanes = @ \cup lane]
  BY <1>2, Zenon
<1> HIDE DEF l, row
<1>6. lane = {} \/ lane = {l}
  OBVIOUS
<1> HIDE DEF lane
<1>7. stored' = [facts |-> stored.facts \cup {row}, lanes |-> stored.lanes \cup lane,
                others |-> stored.others]
  BY <1>5 DEF CoverageInv
<1>8. RowAdded(row, lane)
  <2>1. \A f \in stored.facts : f.id # row.id
    BY <1>1, <1>3
  <2> QED
    BY <1>3, <1>4, <1>6, <1>7, <2>1, Zenon DEF RowAdded
<1> QED
  BY <1>8 DEF RecordFact

LEMMA CoverageStays ==
  ASSUME CoverageInv, [CoverageNext]_coverageVars
  PROVE  CoverageInv'
<1>1. CASE RecordFact
  <2>1. today' = today /\ \E row, lane : RowAdded(row, lane)
    BY <1>1, RecordsAdd
  <2>2. PICK row, lane : RowAdded(row, lane)
    BY <2>1
  <2>3. /\ stored'.facts = stored.facts \cup {row} /\ stored'.lanes = stored.lanes \cup lane
        /\ stored'.others = stored.others
        /\ stored' = [facts |-> stored'.facts, lanes |-> stored'.lanes, others |-> stored'.others]
    BY <2>2 DEF RowAdded
  <2>4. IsFiniteSet(stored'.facts)
    BY <2>3, FS_AddElement DEF CoverageInv
  <2>5. \A r \in stored'.facts : FactOK(r)
    BY <2>2, <2>3 DEF CoverageInv, RowAdded
  <2>6. \A r, s \in stored'.facts : r.id = s.id => r = s
    BY <2>2, <2>3 DEF CoverageInv, RowAdded
  <2>7. \A x \in stored'.lanes : LinkOK(x, stored'.facts)
    <3>1. \A x \in stored.lanes : LinkOK(x, stored'.facts)
      BY <2>3 DEF CoverageInv, LinkOK
    <3>2. \A x \in lane : LinkOK(x, stored'.facts)
      BY <2>2, <2>3 DEF RowAdded, LinkOK
    <3> QED
      BY <2>3, <3>1, <3>2
  <2> QED
    BY <2>1, <2>3, <2>4, <2>5, <2>6, <2>7 DEF CoverageInv
<1>2. CASE RecordOther
  <2>1. PICK o \in OtherRows : stored' = [stored EXCEPT !.others = @ \cup {StoredOther(o, today)}]
    BY <1>2 DEF RecordOther
  <2>2. /\ stored'.facts = stored.facts /\ stored'.lanes = stored.lanes
        /\ stored'.others = stored.others \cup {StoredOther(o, today)}
        /\ stored' = [facts |-> stored'.facts, lanes |-> stored'.lanes, others |-> stored'.others]
    BY <2>1 DEF CoverageInv
  <2>3. StoredOther(o, today).at \in Nat /\ StoredOther(o, today).observed \in Nat
    BY CoverageAssumption DEF StoredOther, CoverageInv
  <2>4. today' = today
    BY <1>2 DEF RecordOther
  <2> QED
    BY <2>2, <2>3, <2>4 DEF CoverageInv
<1>3. CASE DayPasses
  BY <1>3 DEF DayPasses, CoverageInv
<1>4. CASE UNCHANGED coverageVars
  BY <1>4 DEF coverageVars, CoverageInv
<1> QED
  BY <1>1, <1>2, <1>3, <1>4 DEF CoverageNext

LEMMA CoverageInvariant == CoverageSpec => []CoverageInv
<1>1. CoverageInit => CoverageInv
  BY CoverageStarts
<1>2. CoverageInv /\ [CoverageNext]_coverageVars => CoverageInv'
  BY CoverageStays
<1> QED
  BY <1>1, <1>2, PTL DEF CoverageSpec

(* What is derived from UFCStats never corroborates it, and an audit that  *)
(* blocks on rows that do not leak has injected its row into a bout which  *)
(* no row could change: for any sources, rows and cutoffs.                 *)
THEOREM TiersStayIndependent == CoverageSpec => []TiersAreIndependent
<1>1. CoverageInv => TiersAreIndependent
  <2> SUFFICES ASSUME CoverageInv, NEW asOf \in AsOfs
               PROVE  /\ \A u \in { r \in Facts(stored.facts) : r.source = UfcStats /\ ObservationVisible(r, asOf, None) } :
                            LET R == RowsOf(stored.facts, u.bout, asOf, None) IN
                            OverallTier(R) \in {OverallTier({ r \in R : r.source # Derived }), "conflict"}
                      /\ stored.facts # {} /\ "future_row_leakage" \in Blockers(asOf) =>
                           \E b \in FrozenBouts : BoutRow(b, asOf, None).tier \in {"conflict", "gold"}
    BY Zenon DEF TiersAreIndependent
  <2>1. ASSUME NEW u \in stored.facts, u.fact, u.source = UfcStats, ObservationVisible(u, asOf, None),
               NEW R, R = RowsOf(stored.facts, u.bout, asOf, None)
        PROVE  OverallTier(R) \in {OverallTier({ r \in R : r.source # Derived }), "conflict"}
    <3>1. UfcStats \in BoutSources
      BY DEF BoutSources, UfcStats
    <3>2. u \in R /\ \A r \in R : r.source = Derived => r.quality = "unknown"
      BY <2>1, <3>1 DEF RowsOf, CoverageInv, FactOK
    <3> QED
      BY <2>1, <3>2, CopiesAddNothing
  <2> QED
    BY <2>1, LeakageBlocks, AuditAccusesTheUntouchable DEF Facts
<1> QED
  BY <1>1, CoverageInvariant, PTL

-----------------------------------------------------------------------------
(* What is read of a bout at a cutoff, from given tables.                  *)
LanesOf(facts, lanes, b, kind, asOf) ==
  { l \in lanes : l.bout = b /\ l.kind = kind /\ ResultVisible(l, facts, asOf, None) }

ResultAmong(L) == IF L = {} THEN None ELSE (CHOOSE l \in L : \A k \in L : k.rev <= l.rev).result

ReadBack(facts, lanes, b, asOf) ==
  LET tier == OverallTier(RowsOf(facts, b, asOf, None))
      lane(kind) == IF tier = "missing" THEN None ELSE ResultAmong(LanesOf(facts, lanes, b, kind, asOf))
  IN [tier |-> tier, night |-> lane("event_night"), current |-> lane("current")]

LEMMA RowsReadBack ==
  ASSUME NEW asOf \in AsOfs
  PROVE  /\ BoutRows(asOf, None) = [b \in FrozenBouts |-> ReadBack(stored.facts, stored.lanes, b, asOf)]
         /\ BoutRows(asOf, None)' = [b \in FrozenBouts |-> ReadBack(stored'.facts, stored'.lanes, b, asOf)]
<1>1. BoutRows(asOf, None) = [b \in FrozenBouts |-> ReadBack(stored.facts, stored.lanes, b, asOf)]
  BY DEF BoutRows, BoutRow, LatestResult, ReadBack, LanesOf, ResultAmong
<1>2. BoutRows(asOf, None)' = [b \in FrozenBouts |-> ReadBack(stored'.facts, stored'.lanes, b, asOf)]
  BY DEF BoutRows, BoutRow, LatestResult, ReadBack, LanesOf, ResultAmong
<1> QED
  BY <1>1, <1>2

(* A row that counts at a cutoff is one of the past, told by then.         *)
Tells(r, b, asOf) == r.bout = b /\ SaidBy(r, asOf)

LEMMA KnownWasTold ==
  ASSUME NEW r, FactOK(r), NEW asOf \in Nat, RowKnownBy(r, asOf)
  PROVE  Tells(r, r.bout, asOf)
BY CoverageAssumption DEF FactOK, Clocks, RowKnownBy, VisibilityClock, PublishedBy, SaidBy, Tells

(* A new row leaves the versions of results that are there as visible as   *)
(* they were, and the one that is linked to it is seen when the row is.    *)
LEMMA LanesKeepTheirClocks ==
  ASSUME CoverageInv, NEW row, NEW lane, RowAdded(row, lane), NEW asOf \in AsOfs \ {None}
  PROVE  /\ \A l \in stored.lanes :
              ResultVisible(l, stored'.facts, asOf, None) <=> ResultVisible(l, stored.facts, asOf, None)
         /\ \A l \in lane : ResultVisible(l, stored'.facts, asOf, None) => RowKnownBy(row, asOf)
<1>1. /\ stored'.facts = stored.facts \cup {row} /\ stored'.lanes = stored.lanes \cup lane
      /\ row \notin stored.facts /\ FactOK(row) /\ (\A r \in stored.facts : r.id # row.id)
      /\ lane = {} \/ \E l : /\ lane = {l} /\ l.link = row.id /\ l.bout = row.bout
                             /\ l.effective = row.effective /\ l.observed = row.observed
  BY DEF RowAdded
<1>2. asOf \in Nat
  BY CoverageAssumption DEF Clocks
<1>3. \A l \in stored.lanes : ResultVisible(l, stored'.facts, asOf, None) <=> ResultVisible(l, stored.facts, asOf, None)
  <2> TAKE l \in stored.lanes
  <2>1. CASE l.link = None
    BY <2>1, <1>2, CoverageAssumption DEF ResultVisible
  <2>2. CASE l.link # None
    <3>1. l.link # row.id
      BY <2>2, <1>1 DEF CoverageInv, LinkOK
    <3>2. { r \in stored'.facts : r.id = l.link } = { r \in stored.facts : r.id = l.link }
      BY <3>1, <1>1
    <3>3. WithClocks(l, stored'.facts) = WithClocks(l, stored.facts)
      <4> DEFINE ClocksOf(linked) ==
            IF linked = {} THEN [quality |-> "unknown", published |-> None, proxy |-> None]
            ELSE CHOOSE x \in linked : TRUE
          Timed(clocks) ==
            [quality |-> clocks.quality, published |-> clocks.published, proxy |-> clocks.proxy,
             effective |-> l.effective, observed |-> l.observed]
      <4>1. \A F : WithClocks(l, F) = Timed(ClocksOf({ r \in F : r.id = l.link }))
        BY DEF WithClocks
      <4> HIDE DEF ClocksOf, Timed
      <4> QED
        BY <4>1, <3>2
    <3> QED
      BY <3>3, Zenon DEF ResultVisible
  <2> QED
    BY <2>1, <2>2
<1>4. \A l \in lane : ResultVisible(l, stored'.facts, asOf, None) => RowKnownBy(row, asOf)
  <2> SUFFICES ASSUME NEW l \in lane, ResultVisible(l, stored'.facts, asOf, None) PROVE RowKnownBy(row, asOf)
    OBVIOUS
  <2>1. /\ l.link = row.id /\ l.effective = row.effective /\ l.observed = row.observed
    BY <1>1
  <2> DEFINE linked == { r \in stored'.facts : r.id = l.link }
             clocks == WithClocks(l, stored'.facts)
  <2>2. linked = {row}
    BY <2>1, <1>1
  <2>3. /\ clocks.quality = row.quality /\ clocks.published = row.published /\ clocks.proxy = row.proxy
        /\ clocks.effective = row.effective /\ clocks.observed = row.observed
    BY <2>1, <2>2 DEF WithClocks
  <2> HIDE DEF clocks
  <2>4. RowKnownBy(clocks, asOf) <=> RowKnownBy(row, asOf)
    BY <2>3 DEF RowKnownBy, VisibilityClock
  <2> QED
    BY <2>4, <1>2, CoverageAssumption DEF ResultVisible, clocks
<1> QED
  BY <1>3, <1>4

(* A row that tells nothing of a bout changes nothing that is read of it.  *)
LEMMA SilentRow ==
  ASSUME CoverageInv, NEW row, NEW lane, RowAdded(row, lane), NEW b \in FrozenBouts,
         NEW asOf \in AsOfs \ {None}, ~Tells(row, b, asOf)
  PROVE  ReadBack(stored'.facts, stored'.lanes, b, asOf) = ReadBack(stored.facts, stored.lanes, b, asOf)
<1>1. /\ stored'.facts = stored.facts \cup {row} /\ stored'.lanes = stored.lanes \cup lane
      /\ row \notin stored.facts /\ FactOK(row) /\ (\A r \in stored.facts : r.id # row.id)
      /\ lane = {} \/ \E l : /\ lane = {l} /\ l.link = row.id /\ l.bout = row.bout
                             /\ l.effective = row.effective /\ l.observed = row.observed
  BY DEF RowAdded
<1>2. asOf \in Nat
  BY CoverageAssumption DEF Clocks
<1>3. row.bout = b => ~RowKnownBy(row, asOf)
  BY <1>1, <1>2, KnownWasTold
<1>4. RowsOf(stored'.facts, b, asOf, None) = RowsOf(stored.facts, b, asOf, None)
  BY <1>1, <1>2, <1>3 DEF RowsOf, ObservationVisible
<1>5. \A l \in stored.lanes : ResultVisible(l, stored'.facts, asOf, None) <=> ResultVisible(l, stored.facts, asOf, None)
  BY LanesKeepTheirClocks
<1>6. \A l \in lane : l.bout = b => ~ResultVisible(l, stored'.facts, asOf, None)
  <2>1. \A l \in lane : l.bout = row.bout
    BY <1>1
  <2>2. \A l \in lane : ResultVisible(l, stored'.facts, asOf, None) => RowKnownBy(row, asOf)
    BY LanesKeepTheirClocks
  <2> QED
    BY <1>3, <2>1, <2>2
<1>7. \A kind : LanesOf(stored'.facts, stored'.lanes, b, kind, asOf) = LanesOf(stored.facts, stored.lanes, b, kind, asOf)
  BY <1>1, <1>5, <1>6 DEF LanesOf
<1> QED
  BY <1>4, <1>7 DEF ReadBack

(* Nor does it change the hash of the database as of a cutoff unless it    *)
(* was told by then.                                                       *)
LEMMA HashOfThePast ==
  ASSUME CoverageInv, NEW row, NEW lane, RowAdded(row, lane), NEW asOf \in AsOfs \ {None},
         DbFingerprint(asOf) # DbFingerprint(asOf)'
  PROVE  SaidBy(row, asOf)
<1>1. /\ stored'.facts = stored.facts \cup {row} /\ stored'.lanes = stored.lanes \cup lane
      /\ stored'.others = stored.others /\ FactOK(row)
  BY DEF RowAdded
<1>2. asOf \in Nat /\ asOf # None
  BY CoverageAssumption DEF Clocks
<1>3. SUFFICES ASSUME ~RowKnownBy(row, asOf) PROVE FALSE
  BY <1>1, <1>2, KnownWasTold DEF Tells
<1>4. { r \in stored'.facts : ObservationVisible(r, asOf, None) } =
      { r \in stored.facts : ObservationVisible(r, asOf, None) }
  BY <1>1, <1>2, <1>3 DEF ObservationVisible
<1>5. { l \in stored'.lanes : ResultVisible(l, stored'.facts, asOf, None) } =
      { l \in stored.lanes : ResultVisible(l, stored.facts, asOf, None) }
  <2>1. /\ \A l \in stored.lanes :
             ResultVisible(l, stored'.facts, asOf, None) <=> ResultVisible(l, stored.facts, asOf, None)
        /\ \A l \in lane : ~ResultVisible(l, stored'.facts, asOf, None)
    BY <1>3, LanesKeepTheirClocks
  <2> QED
    BY <1>1, <2>1
<1>6. DbFingerprint(asOf)' =
        [facts |-> { r \in stored'.facts : ObservationVisible(r, asOf, None) },
         lanes |-> { l \in stored'.lanes : ResultVisible(l, stored'.facts, asOf, None) },
         others |-> { o \in stored'.others : InScope(o, asOf) }]
  BY DEF DbFingerprint
<1> QED
  BY <1>1, <1>4, <1>5, <1>6 DEF DbFingerprint

LEMMA BoutsOnlyGain ==
  ASSUME CoverageInv, NEW row, NEW lane, RowAdded(row, lane), NEW asOf \in AsOfs \ {None},
         NEW b \in FrozenBouts
  PROVE  TierRank[ReadBack(stored.facts, stored.lanes, b, asOf).tier]
           <= TierRank[ReadBack(stored'.facts, stored'.lanes, b, asOf).tier]
<1> DEFINE R == RowsOf(stored.facts, b, asOf, None)
           Q == RowsOf(stored'.facts, b, asOf, None)
<1>1. stored'.facts = stored.facts \cup {row} /\ IsFiniteSet(stored'.facts)
  BY FS_AddElement DEF RowAdded, CoverageInv
<1>2. R \subseteq Q /\ IsFiniteSet(Q)
  BY <1>1, FS_Subset DEF RowsOf
<1> HIDE DEF R, Q
<1>3. TierRank[OverallTier(R)] <= TierRank[OverallTier(Q)]
  BY <1>2, TierNeverFalls
<1> QED
  BY <1>3 DEF ReadBack, R, Q

(* Another table's row: the bouts are read back as they were, and it is in *)
(* the hash of a cutoff only if it is of its past.                         *)
LEMMA RowsKeepTheirRank ==
  ASSUME CoverageInv, NEW asOf, NEW b
  PROVE  TierRank[ReadBack(stored.facts, stored.lanes, b, asOf).tier]
           <= TierRank[ReadBack(stored.facts, stored.lanes, b, asOf).tier]
<1> DEFINE R == RowsOf(stored.facts, b, asOf, None)
<1>1. R \subseteq R /\ IsFiniteSet(R)
  BY FS_Subset DEF RowsOf, CoverageInv
<1>2. TierRank[OverallTier(R)] <= TierRank[OverallTier(R)]
  BY <1>1, TierNeverFalls
<1> QED
  BY <1>2 DEF ReadBack

PastGains(asOf) ==
  LET old == BoutRows(asOf, None)
      new == BoutRows(asOf, None)'
      told == { r \in stored'.facts \ stored.facts : SaidBy(r, asOf) }
  IN /\ \A b \in FrozenBouts :
          /\ TierRank[old[b].tier] <= TierRank[new[b].tier]
          /\ old[b] # new[b] => \E r \in told : r.bout = b
     /\ DbFingerprint(asOf) # DbFingerprint(asOf)' =>
          told # {} \/ \E o \in stored'.others \ stored.others : OfThePast(o, asOf)

LEMMA FactsGain ==
  ASSUME CoverageInv, RecordFact, NEW asOf \in AsOfs \ {None}
  PROVE  PastGains(asOf)
<1>1. PICK row, lane : RowAdded(row, lane)
  BY RecordsAdd
<1>2. stored'.facts \ stored.facts = {row}
  BY <1>1 DEF RowAdded
<1>3. ASSUME NEW b \in FrozenBouts
      PROVE  ReadBack(stored.facts, stored.lanes, b, asOf) # ReadBack(stored'.facts, stored'.lanes, b, asOf)
               => Tells(row, b, asOf)
  BY <1>1, SilentRow
<1>4. DbFingerprint(asOf) # DbFingerprint(asOf)' => SaidBy(row, asOf)
  BY <1>1, HashOfThePast
<1> QED
  BY <1>1, <1>2, <1>3, <1>4, RowsReadBack, BoutsOnlyGain DEF PastGains, Tells

LEMMA OthersGain ==
  ASSUME CoverageInv, RecordOther, NEW asOf \in AsOfs \ {None}
  PROVE  PastGains(asOf)
<1>1. PICK o \in OtherRows : stored' = [stored EXCEPT !.others = @ \cup {StoredOther(o, today)}]
  BY DEF RecordOther
<1> DEFINE row == StoredOther(o, today)
<1>2. /\ stored'.facts = stored.facts /\ stored'.lanes = stored.lanes
      /\ stored'.others = stored.others \cup {row}
  BY <1>1 DEF CoverageInv
<1>3. asOf \in Nat /\ row.at \in Nat /\ row.observed \in Nat /\ asOf # None
  BY CoverageAssumption DEF StoredOther, CoverageInv, Clocks
<1> HIDE DEF row
<1>4. InScope(row, asOf) => OfThePast(row, asOf)
  BY <1>3 DEF InScope, OfThePast
<1>5. (row \notin stored.others /\ InScope(row, asOf)) \/ DbFingerprint(asOf) = DbFingerprint(asOf)'
  <2>1. CASE row \in stored.others
    <3>1. stored'.others = stored.others
      BY <2>1, <1>2
    <3> QED
      BY <3>1, <1>2 DEF DbFingerprint
  <2>2. CASE ~InScope(row, asOf)
    <3>1. { x \in stored'.others : InScope(x, asOf) } = { x \in stored.others : InScope(x, asOf) }
      BY <2>2, <1>2
    <3> QED
      BY <3>1, <1>2 DEF DbFingerprint
  <2> QED
    BY <2>1, <2>2
<1>6. \A b \in FrozenBouts : ReadBack(stored'.facts, stored'.lanes, b, asOf) = ReadBack(stored.facts, stored.lanes, b, asOf)
  BY <1>2
<1> QED
  BY <1>2, <1>4, <1>5, <1>6, RowsReadBack, RowsKeepTheirRank DEF PastGains

(* A report of a past cutoff only ever learns what could be known at the   *)
(* cutoff, and its tiers never fall.                                       *)
THEOREM CutoffsOnlyGain == CoverageSpec => PastOnlyGains
<1>1. CoverageInv /\ [CoverageNext]_coverageVars =>
        [stored # stored' => \A asOf \in AsOfs \ {None} : PastGains(asOf)]_coverageVars
  <2> SUFFICES ASSUME CoverageInv, CoverageNext, stored # stored', NEW asOf \in AsOfs \ {None}
               PROVE  PastGains(asOf)
    BY Zenon
  <2>1. CASE RecordFact
    BY <2>1, FactsGain
  <2>2. CASE RecordOther
    BY <2>2, OthersGain
  <2>3. CASE DayPasses
    BY <2>3 DEF DayPasses
  <2> QED
    BY <2>1, <2>2, <2>3 DEF CoverageNext
<1> QED
  BY <1>1, CoverageInvariant, PTL DEF PastOnlyGains, CoverageSpec, PastGains

-----------------------------------------------------------------------------
(* The walk forward.  A bout is on one card.                               *)
LEMMA CardIsSole ==
  ASSUME NEW i \in Groups, NEW b \in SplitCards[i].bouts
  PROVE  CardOf(b) = i
<1>1. CardOf(b) \in Groups /\ b \in SplitCards[CardOf(b)].bouts
  BY DEF CardOf
<1>2. \A j, k \in Groups : b \in SplitCards[j].bouts /\ b \in SplitCards[k].bouts => j = k
  <2> SUFFICES ASSUME NEW j \in Groups, NEW k \in Groups,
                      b \in SplitCards[j].bouts, b \in SplitCards[k].bouts, j # k
               PROVE  FALSE
    OBVIOUS
  <2>1. j < k \/ k < j
    BY WalkAssumption
  <2> QED
    BY <2>1, WalkAssumption
<1> QED
  BY <1>1, <1>2

LEMMA BoutsHaveCards ==
  ASSUME NEW I, I \subseteq Groups, NEW b \in BoutsOn(I)
  PROVE  CardOf(b) \in I /\ CardOf(b) \in Groups /\ b \in SplitCards[CardOf(b)].bouts
<1>1. PICK i \in I : b \in SplitCards[i].bouts
  BY DEF BoutsOn
<1>2. CardOf(b) = i
  BY <1>1, CardIsSole
<1> QED
  BY <1>1, <1>2

(* A card that was over at the cutoff of another comes before it.          *)
LEMMA EarlierCards ==
  ASSUME NEW i \in Groups, NEW j \in Groups, SplitCards[j].start < SplitCards[i].start
  PROVE  j < i /\ (IsHoldout(j) => IsHoldout(i))
<1>1. i \in Int /\ j \in Int /\ SplitCards[i].start \in Int /\ SplitCards[j].start \in Int
  BY WalkAssumption
<1>2. i < j \/ i = j \/ j < i
  BY <1>1
<1>3. ~(i < j) /\ i # j
  BY <1>1, WalkAssumption
<1> QED
  BY <1>1, <1>2, <1>3, WalkAssumption

-----------------------------------------------------------------------------
(* What is read of two stores of evidence that agree as of a card.         *)
SameLabels(e, g, b, at) == TrainingLabel(e.results, b, at) = TrainingLabel(g.results, b, at)

AgreeAt(e, g, i) ==
  /\ \A b \in BoutsOn(Groups) : SameLabels(e, g, b, CutoffOf(i))
  /\ \A kind, f : Admitted(e, kind, f, i) = Admitted(g, kind, f, i)

LEMMA LabelsAgree ==
  ASSUME NEW R, NEW S, NEW b, NEW at,
         {v \in R : v.bout = b /\ VisibleAt(v, at)} = {v \in S : v.bout = b /\ VisibleAt(v, at)}
  PROVE  TrainingLabel(R, b, at) = TrainingLabel(S, b, at)
<1>1. \A vs : TrainingLabel(vs, b, at) = LabelAmong({v \in vs : v.bout = b /\ VisibleAt(v, at)})
  BY DEF TrainingLabel, LabelAmong
<1> QED
  BY <1>1

LEMMA FeaturesAgree ==
  ASSUME NEW e, NEW g, NEW i \in Groups, AgreeAt(e, g, i), NEW b
  PROVE  FeaturesAt(e, b, i) = FeaturesAt(g, b, i)
<1>1. \A c \in BoutsOn(Groups) : LabelAt(e, c, i) = LabelAt(g, c, i)
  BY DEF LabelAt, AgreeAt, SameLabels
<1>2. \A I \in SUBSET Groups : BoutsOn(I) \subseteq BoutsOn(Groups)
  BY DEF BoutsOn
<1>3. Ratings(e, i) = Ratings(g, i)
  <2> DEFINE before == BoutsOn({j \in Groups \ {i} : SplitCards[j].start < SplitCards[i].start})
  <2>1. before \subseteq BoutsOn(Groups)
    BY <1>2
  <2> HIDE DEF before
  <2>2. {c \in before : LabelAt(e, c, i) \in Atoms} = {c \in before : LabelAt(g, c, i) \in Atoms}
    BY <1>1, <2>1
  <2>3. {<<c, LabelAt(e, c, i)>> : c \in {c \in before : LabelAt(e, c, i) \in Atoms}} =
        {<<c, LabelAt(g, c, i)>> : c \in {c \in before : LabelAt(g, c, i) \in Atoms}}
    BY <1>1, <2>1, <2>2
  <2> QED
    BY <2>3 DEF Ratings, before
<1>4. \A f : CanonicalRecord(e, f, i) = CanonicalRecord(g, f, i)
  <2> TAKE f
  <2> DEFINE others == BoutsOn(Groups \ {i})
  <2>1. others \subseteq BoutsOn(Groups)
    BY <1>2
  <2> HIDE DEF others
  <2>2. {c \in others : f \in Opponents[c] /\ LabelAt(e, c, i) # None} =
        {c \in others : f \in Opponents[c] /\ LabelAt(g, c, i) # None}
    BY <1>1, <2>1
  <2>3. {<<c, LabelAt(e, c, i)>> : c \in {c \in others : f \in Opponents[c] /\ LabelAt(e, c, i) # None}} =
        {<<c, LabelAt(g, c, i)>> : c \in {c \in others : f \in Opponents[c] /\ LabelAt(g, c, i) # None}}
    BY <1>1, <2>1, <2>2
  <2> QED
    BY <2>3 DEF CanonicalRecord, others
<1>5. \A kind, f : Admitted(e, kind, f, i) = Admitted(g, kind, f, i)
  BY DEF AgreeAt
<1>6. \A f : HistoryRecord(e, f, i) = HistoryRecord(g, f, i)
  BY <1>4, <1>5 DEF HistoryRecord
<1>7. \A f : Stats(e, f, i) = Stats(g, f, i) /\ Profile(e, f, i) = Profile(g, f, i)
  BY <1>5 DEF Stats, Profile
<1> DEFINE of(x, f) == <<f, CanonicalRecord(x, f, i), HistoryRecord(x, f, i), Stats(x, f, i), Profile(x, f, i)>>
<1>8. \A f : of(e, f) = of(g, f)
  BY <1>4, <1>6, <1>7
<1>9. FeaturesAt(e, b, i) = <<Ratings(e, i), {of(e, f) : f \in Opponents[b]}>>
      /\ FeaturesAt(g, b, i) = <<Ratings(g, i), {of(g, f) : f \in Opponents[b]}>>
  BY DEF FeaturesAt
<1> HIDE DEF of
<1>10. {of(e, f) : f \in Opponents[b]} = {of(g, f) : f \in Opponents[b]}
  BY <1>8
<1> QED
  BY <1>3, <1>9, <1>10

LEMMA SamplesAgree ==
  ASSUME NEW e, NEW g, NEW on \in SUBSET BoutsOn(Groups), NEW at, NEW labels,
         \A b \in on : SameLabels(e, g, b, at) /\ AgreeAt(e, g, CardOf(b))
  PROVE  LabelledSamples(e, on, at, labels) = LabelledSamples(g, on, at, labels)
<1>1. \A b \in on : Sample(e, b, at) = Sample(g, b, at)
  <2> TAKE b \in on
  <2>1. CardOf(b) \in Groups
    BY BoutsHaveCards
  <2>2. FeaturesAt(e, b, CardOf(b)) = FeaturesAt(g, b, CardOf(b))
    BY <2>1, FeaturesAgree
  <2> QED
    BY <2>2 DEF Sample, SameLabels
<1>2. {Sample(e, b, at) : b \in on} = {Sample(g, b, at) : b \in on}
  BY <1>1
<1> QED
  BY <1>2 DEF LabelledSamples

LEMMA OofRowsAgree ==
  ASSUME NEW R, NEW S, NEW oof, NEW family, NEW at,
         \A r \in oof : TrainingLabel(R, r.bout, at) = TrainingLabel(S, r.bout, at)
  PROVE  OofRows(R, oof, family, at) = OofRows(S, oof, family, at)
<1> DEFINE row(results, r) == [score |-> r, y |-> TrainingLabel(results, r.bout, at)]
           own == {o \in oof : o.family = family}
           labels == IF family = "ridge" THEN Winners ELSE Atoms
<1>1. \A r \in own : row(R, r) = row(S, r)
  OBVIOUS
<1>2. \A results : OofRows(results, oof, family, at) = {x \in {row(results, r) : r \in own} : x.y \in labels}
  BY DEF OofRows
<1> HIDE DEF row, own, labels
<1>3. {row(R, r) : r \in own} = {row(S, r) : r \in own}
  BY <1>1
<1> QED
  BY <1>2, <1>3

-----------------------------------------------------------------------------
(* What a bout is predicted to be, by the branches of ScoreCard.           *)
Attempt(e, s, i, b) ==
  LET ridge == TrainSamples(e, i, Winners)
      joint == TrainSamples(e, i, Atoms)
      cal == CalibratorsFor(e.results, s, i)
  IN IF ridge = {} THEN Unpredicted(b, "none")
     ELSE IF JointFits(joint) /\ cal["joint"] # {}
       THEN Prediction(e, i, b, "M2", joint, cal["joint"], IF RidgeFits(ridge) THEN ridge ELSE {})
     ELSE IF RidgeFits(ridge) THEN Prediction(e, i, b, "M1", ridge, cal["ridge"], ridge)
     ELSE Unpredicted(b, "none")

LEMMA AttemptsAre ==
  ASSUME NEW e, NEW s, NEW i
  PROVE  ScoreCard(e, s, i).attempts = {Attempt(e, s, i, b) : b \in SplitCards[i].bouts}
<1> DEFINE ridge == TrainSamples(e, i, Winners)
           joint == TrainSamples(e, i, Atoms)
           cal == CalibratorsFor(e.results, s, i)
           byJoint == JointFits(joint) /\ cal["joint"] # {}
<1>1. ScoreCard(e, s, i).attempts =
        IF ridge = {} THEN {Unpredicted(b, "none") : b \in SplitCards[i].bouts}
        ELSE IF byJoint THEN ScoreJoint(e, i, joint, cal["joint"], ridge)
        ELSE ScoreRidge(e, i, ridge, cal["ridge"])
  BY DEF ScoreCard
<1>2. \A b : Attempt(e, s, i, b) =
        IF ridge = {} THEN Unpredicted(b, "none")
        ELSE IF byJoint
          THEN Prediction(e, i, b, "M2", joint, cal["joint"], IF RidgeFits(ridge) THEN ridge ELSE {})
        ELSE IF RidgeFits(ridge) THEN Prediction(e, i, b, "M1", ridge, cal["ridge"], ridge)
        ELSE Unpredicted(b, "none")
  BY DEF Attempt
<1> HIDE DEF ridge, joint, cal, byJoint
<1>3. CASE ridge = {}
  BY <1>1, <1>2, <1>3
<1>4. CASE ridge # {} /\ byJoint
  BY <1>1, <1>2, <1>4 DEF ScoreJoint
<1>5. CASE ridge # {} /\ ~byJoint
  BY <1>1, <1>2, <1>5 DEF ScoreRidge
<1> QED
  BY <1>3, <1>4, <1>5

LEMMA AttemptOfBout ==
  ASSUME NEW e, NEW s, NEW i, NEW b
  PROVE  Attempt(e, s, i, b).bout = b
<1>1. \A model : Unpredicted(b, model).bout = b
  BY DEF Unpredicted
<1>2. \A model, samples, calibration, ridge : Prediction(e, i, b, model, samples, calibration, ridge).bout = b
  BY DEF Prediction
<1> QED
  BY <1>1, <1>2 DEF Attempt
-----------------------------------------------------------------------------
(* What each of two stores that agree up to a time gives to a card.        *)
AgreeUntil(e, g, t) ==
  \A c \in Int : c <= t =>
    /\ {v \in e.results : VisibleAt(v, c)} = {v \in g.results : VisibleAt(v, c)}
    /\ {r \in e.sources : VisibleAt(r, c)} = {r \in g.sources : VisibleAt(r, c)}
    /\ {q \in e.quotes : q.observed <= c} = {q \in g.quotes : q.observed <= c}

Lawful(e) ==
  e \in [results : SUBSET (EarlierResults \cup OtherResults), sources : {Sources}, quotes : {BookQuotes}]

LEMMA CutoffsAreTimes ==
  ASSUME NEW i \in Groups
  PROVE  CutoffOf(i) \in Int
BY WalkAssumption DEF CutoffOf

LEMMA KnownByAgrees ==
  ASSUME NEW e, Lawful(e), NEW t \in Int
  PROVE  AgreeUntil(e, KnownBy(e, t), t)
<1> SUFFICES ASSUME NEW c \in Int, c <= t
             PROVE  /\ {v \in e.results : VisibleAt(v, c)} = {v \in KnownBy(e, t).results : VisibleAt(v, c)}
                    /\ {r \in e.sources : VisibleAt(r, c)} = {r \in KnownBy(e, t).sources : VisibleAt(r, c)}
                    /\ {q \in e.quotes : q.observed <= c} = {q \in KnownBy(e, t).quotes : q.observed <= c}
  BY DEF AgreeUntil
<1>1. \A v \in e.results \cup e.sources : VisibleAt(v, c) => VisibleAt(v, t)
  BY WalkAssumption DEF Lawful, VisibleAt
<1>2. \A q \in e.quotes : q.observed <= c => q.observed <= t
  BY WalkAssumption DEF Lawful
<1>3. /\ KnownBy(e, t).results = {v \in e.results : VisibleAt(v, t)}
      /\ KnownBy(e, t).sources = {r \in e.sources : VisibleAt(r, t)}
      /\ KnownBy(e, t).quotes = {q \in e.quotes : q.observed <= t}
  BY DEF KnownBy
<1> QED
  BY <1>1, <1>2, <1>3

LEMMA AgreedLabels ==
  ASSUME NEW e, NEW g, NEW t \in Int, AgreeUntil(e, g, t), NEW c \in Int, c <= t, NEW b
  PROVE  SameLabels(e, g, b, c)
<1>1. {v \in e.results : VisibleAt(v, c)} = {v \in g.results : VisibleAt(v, c)}
  BY DEF AgreeUntil
<1>2. {v \in e.results : v.bout = b /\ VisibleAt(v, c)} = {v \in g.results : v.bout = b /\ VisibleAt(v, c)}
  BY <1>1
<1> QED
  BY <1>2, LabelsAgree DEF SameLabels

LEMMA AgreedCards ==
  ASSUME NEW e, NEW g, NEW t \in Int, AgreeUntil(e, g, t), NEW i \in Groups, CutoffOf(i) <= t
  PROVE  AgreeAt(e, g, i)
<1>1. \A b : SameLabels(e, g, b, CutoffOf(i))
  BY CutoffsAreTimes, AgreedLabels
<1>2. {r \in e.sources : VisibleAt(r, CutoffOf(i))} = {r \in g.sources : VisibleAt(r, CutoffOf(i))}
  BY CutoffsAreTimes DEF AgreeUntil
<1>3. \A kind, f : Admitted(e, kind, f, i) = Admitted(g, kind, f, i)
  BY <1>2 DEF Admitted
<1> QED
  BY <1>1, <1>3 DEF AgreeAt

LEMMA PriorCardsArePrior ==
  ASSUME NEW i \in Groups, NEW j \in PriorCards(i)
  PROVE  /\ j \in Groups /\ ~IsHoldout(j) /\ j < i
         /\ CutoffOf(j) <= CutoffOf(i)
<1>1. j \in Groups /\ ~IsHoldout(j) /\ SplitCards[j].start < CutoffOf(i)
  BY DEF PriorCards, EligibleTrain
<1>2. SplitCards[j].start \in Int /\ SplitCards[i].start \in Int
  BY <1>1, WalkAssumption
<1>3. SplitCards[j].start < SplitCards[i].start /\ CutoffOf(j) <= CutoffOf(i)
  BY <1>1, <1>2 DEF CutoffOf
<1> QED
  BY <1>1, <1>3, EarlierCards

(* What a card is scored by depends on the evidence of the cards before it.*)
FitsAgree(e, g, s, i) ==
  /\ \A j \in PriorCards(i) : AgreeAt(e, g, j)
  /\ \A b \in BoutsOn(PriorCards(i)) : SameLabels(e, g, b, CutoffOf(i))
  /\ \A r \in s.oof : SameLabels(e, g, r.bout, CutoffOf(i))

LEMMA TrainedAlike ==
  ASSUME NEW e, NEW g, NEW s, NEW i \in Groups, FitsAgree(e, g, s, i)
  PROVE  /\ \A labels : TrainSamples(e, i, labels) = TrainSamples(g, i, labels)
         /\ CalibratorsFor(e.results, s, i) = CalibratorsFor(g.results, s, i)
<1>1. PriorCards(i) \subseteq Groups
  BY PriorCardsArePrior
<1>2. BoutsOn(PriorCards(i)) \in SUBSET BoutsOn(Groups)
  BY <1>1 DEF BoutsOn
<1>3. \A b \in BoutsOn(PriorCards(i)) : SameLabels(e, g, b, CutoffOf(i)) /\ AgreeAt(e, g, CardOf(b))
  BY <1>1, BoutsHaveCards DEF FitsAgree
<1>4. \A labels : TrainSamples(e, i, labels) = TrainSamples(g, i, labels)
  BY <1>2, <1>3, SamplesAgree DEF TrainSamples
<1>5. \A family : OofRows(e.results, s.oof, family, CutoffOf(i)) = OofRows(g.results, s.oof, family, CutoffOf(i))
  BY OofRowsAgree DEF FitsAgree, SameLabels
<1>6. FittedCalibrators(e.results, s, i) = FittedCalibrators(g.results, s, i)
  BY <1>5 DEF FittedCalibrators
<1>7. CalibratorsFor(e.results, s, i) = CalibratorsFor(g.results, s, i)
  BY <1>6 DEF CalibratorsFor
<1> QED
  BY <1>4, <1>7

LEMMA ScorersAgree ==
  ASSUME NEW e, NEW g, NEW s, NEW i \in Groups, FitsAgree(e, g, s, i),
         ~IsHoldout(i) => AgreeAt(e, g, i)
  PROVE  ScoreCard(e, s, i).scorer = ScoreCard(g, s, i).scorer
<1> DEFINE
      ScorerOf(x, ridge, joint, cal) ==
        LET byJoint == JointFits(joint) /\ cal["joint"] # {}
            gained ==
              IF IsHoldout(i) THEN {}
              ELSE (IF JointFits(joint) THEN OofOf(x, i, "joint", joint) ELSE {})
                \cup (IF ~byJoint /\ RidgeFits(ridge) THEN OofOf(x, i, "ridge", ridge) ELSE {})
        IN IF ridge = {} THEN s
           ELSE [oof |-> s.oof \cup gained, frozen |-> IF IsHoldout(i) THEN {cal} ELSE s.frozen]
<1>1. \A x : ScoreCard(x, s, i).scorer =
        ScorerOf(x, TrainSamples(x, i, Winners), TrainSamples(x, i, Atoms), CalibratorsFor(x.results, s, i))
  BY DEF ScoreCard
<1>2. \A family, samples : ~IsHoldout(i) => OofOf(e, i, family, samples) = OofOf(g, i, family, samples)
  <2> SUFFICES ASSUME NEW family, NEW samples, ~IsHoldout(i)
               PROVE  OofOf(e, i, family, samples) = OofOf(g, i, family, samples)
    OBVIOUS
  <2>1. \A b : FeaturesAt(e, b, i) = FeaturesAt(g, b, i)
    BY FeaturesAgree
  <2> DEFINE rec(x, b) == OofRecord(b, family, samples, FeaturesAt(x, b, i))
  <2>2. \A b \in SplitCards[i].bouts : rec(e, b) = rec(g, b)
    BY <2>1
  <2>3. \A x : OofOf(x, i, family, samples) = {rec(x, b) : b \in SplitCards[i].bouts}
    BY DEF OofOf
  <2> HIDE DEF rec
  <2> QED
    BY <2>2, <2>3
<1>3. \A ridge, joint, cal : ScorerOf(e, ridge, joint, cal) = ScorerOf(g, ridge, joint, cal)
  BY <1>2
<1> HIDE DEF ScorerOf
<1> QED
  BY <1>1, <1>3, TrainedAlike

(* The price of a bout is told from what was quoted by its cutoff.         *)
JoinFrom(seen) ==
  LET latest == {q \in seen : \A r \in seen : r.observed <= q.observed}
      chosen == CHOOSE q \in latest : \A r \in latest : r.id <= q.id
  IN IF \/ seen = {} \/ \E q \in seen : q.ambiguous
        \/ Cardinality({q.price : q \in latest}) > 1 \/ ~chosen.open
       THEN None ELSE chosen.price

LEMMA QuotesAgree ==
  ASSUME NEW Q, NEW P, NEW b, AsOf(Q, b) = AsOf(P, b)
  PROVE  JoinQuote(Q, b) = JoinQuote(P, b) /\ QuoteFlags(Q, b) = QuoteFlags(P, b)
<1>1. \A quotes : JoinQuote(quotes, b) = JoinFrom(AsOf(quotes, b))
  BY DEF JoinQuote, JoinFrom
<1> QED
  BY <1>1 DEF QuoteFlags

LEMMA AttemptsAgree ==
  ASSUME NEW e, NEW g, NEW s, NEW i \in Groups, FitsAgree(e, g, s, i), AgreeAt(e, g, i),
         \A b \in SplitCards[i].bouts : AsOf(e.quotes, b) = AsOf(g.quotes, b),
         NEW b \in SplitCards[i].bouts
  PROVE  Attempt(e, s, i, b) = Attempt(g, s, i, b)
<1>1. FeaturesAt(e, b, i) = FeaturesAt(g, b, i)
  BY FeaturesAgree
<1>2. ObservedPrices(e.quotes, i) = ObservedPrices(g.quotes, i)
  BY QuotesAgree DEF ObservedPrices
<1>3. \A samples, calibration : Uncertainty(e, i, samples, calibration) = Uncertainty(g, i, samples, calibration)
  BY <1>2 DEF Uncertainty
<1>4. JoinQuote(e.quotes, b) = JoinQuote(g.quotes, b) /\ QuoteFlags(e.quotes, b) = QuoteFlags(g.quotes, b)
  BY QuotesAgree
<1>5. \A model, samples, calibration, ridge :
        Prediction(e, i, b, model, samples, calibration, ridge) = Prediction(g, i, b, model, samples, calibration, ridge)
  BY <1>1, <1>3, <1>4 DEF Prediction
<1> DEFINE
      AttemptFrom(x, ridge, joint, cal) ==
        IF ridge = {} THEN Unpredicted(b, "none")
        ELSE IF JointFits(joint) /\ cal["joint"] # {}
          THEN Prediction(x, i, b, "M2", joint, cal["joint"], IF RidgeFits(ridge) THEN ridge ELSE {})
        ELSE IF RidgeFits(ridge) THEN Prediction(x, i, b, "M1", ridge, cal["ridge"], ridge)
        ELSE Unpredicted(b, "none")
<1>6. \A x : Attempt(x, s, i, b) =
        AttemptFrom(x, TrainSamples(x, i, Winners), TrainSamples(x, i, Atoms), CalibratorsFor(x.results, s, i))
  BY DEF Attempt
<1>7. \A ridge, joint, cal : AttemptFrom(e, ridge, joint, cal) = AttemptFrom(g, ridge, joint, cal)
  BY <1>5
<1> HIDE DEF AttemptFrom
<1> QED
  BY <1>6, <1>7, TrainedAlike

(* And what it is fitted to does not depend on its own features or price.  *)
LEMMA FitsOnly ==
  ASSUME NEW e, NEW g, NEW s, NEW i \in Groups, FitsAgree(e, g, s, i), NEW b
  PROVE  FittedTo(Attempt(e, s, i, b)) = FittedTo(Attempt(g, s, i, b))
<1>1. \A x, samples, calibration, ridge :
        /\ FittedTo(Prediction(x, i, b, "M1", samples, calibration, ridge)) = <<"M1", samples, calibration, ridge>>
        /\ FittedTo(Prediction(x, i, b, "M2", samples, calibration, ridge)) = <<"M2", samples, calibration, ridge>>
  BY DEF FittedTo, Prediction
<1> DEFINE
      AttemptFrom(x, ridge, joint, cal) ==
        IF ridge = {} THEN Unpredicted(b, "none")
        ELSE IF JointFits(joint) /\ cal["joint"] # {}
          THEN Prediction(x, i, b, "M2", joint, cal["joint"], IF RidgeFits(ridge) THEN ridge ELSE {})
        ELSE IF RidgeFits(ridge) THEN Prediction(x, i, b, "M1", ridge, cal["ridge"], ridge)
        ELSE Unpredicted(b, "none")
<1>6. \A x : Attempt(x, s, i, b) =
        AttemptFrom(x, TrainSamples(x, i, Winners), TrainSamples(x, i, Atoms), CalibratorsFor(x.results, s, i))
  BY DEF Attempt
<1>7. \A ridge, joint, cal : FittedTo(AttemptFrom(e, ridge, joint, cal)) = FittedTo(AttemptFrom(g, ridge, joint, cal))
  BY <1>1
<1> HIDE DEF AttemptFrom
<1> QED
  BY <1>6, <1>7, TrainedAlike
-----------------------------------------------------------------------------
(* Without the results of the holdout, whatever the other cards are fitted *)
(* to is the same.                                                         *)
Open == {i \in Groups : ~IsHoldout(i)}

LEMMA OpenLabels ==
  ASSUME NEW e, Lawful(e), NEW b \in BoutsOn(Open), NEW at
  PROVE  SameLabels(e, WithoutHoldout(e), b, at)
<1>1. ~IsHoldout(CardOf(b))
  BY BoutsHaveCards DEF Open
<1>2. WithoutHoldout(e).results = {v \in e.results : ~IsHoldout(CardOf(v.bout))}
  BY DEF WithoutHoldout, Lawful
<1>3. {v \in e.results : v.bout = b /\ VisibleAt(v, at)} =
      {v \in WithoutHoldout(e).results : v.bout = b /\ VisibleAt(v, at)}
  BY <1>1, <1>2
<1> QED
  BY <1>3, LabelsAgree DEF SameLabels

LEMMA OpenCards ==
  ASSUME NEW e, Lawful(e), NEW i \in Open
  PROVE  AgreeAt(e, WithoutHoldout(e), i)
<1>1. i \in Groups /\ ~IsHoldout(i)
  BY DEF Open
<1>2. WithoutHoldout(e).sources = e.sources
  BY DEF WithoutHoldout, Lawful
<1>3. WithoutHoldout(e).results = {v \in e.results : ~IsHoldout(CardOf(v.bout))}
  BY DEF WithoutHoldout, Lawful
<1>4. ASSUME NEW b \in BoutsOn(Groups)
      PROVE  SameLabels(e, WithoutHoldout(e), b, CutoffOf(i))
  <2>1. CardOf(b) \in Groups /\ b \in SplitCards[CardOf(b)].bouts
    BY <1>4, BoutsHaveCards
  <2>2. CASE ~IsHoldout(CardOf(b))
    <3>1. b \in BoutsOn(Open)
      BY <2>1, <2>2 DEF BoutsOn, Open
    <3> QED
      BY <3>1, OpenLabels
  <2>3. CASE IsHoldout(CardOf(b))
    <3> DEFINE k == CardOf(b)
    <3>1. k \in Int /\ i \in Int /\ SplitCards[k].start \in Int /\ SplitCards[i].start \in Int
      BY <1>1, <2>1, WalkAssumption
    <3>2. i < k
      <4>1. i < k \/ i = k \/ k < i
        BY <3>1
      <4> QED
        BY <4>1, <1>1, <2>1, <2>3, WalkAssumption
    <3>3. SplitCards[i].start <= SplitCards[k].start
      BY <1>1, <2>1, <3>2, WalkAssumption
    <3>4. \A v \in e.results : v.bout = b =>
            v.effective \in Int /\ SplitCards[k].start <= v.effective
      BY <2>1, WalkAssumption DEF Lawful
    <3>5. \A v \in e.results : v.bout = b => ~VisibleAt(v, CutoffOf(i))
      BY <3>1, <3>3, <3>4 DEF VisibleAt, CutoffOf
    <3>6. {v \in e.results : v.bout = b /\ VisibleAt(v, CutoffOf(i))} =
          {v \in WithoutHoldout(e).results : v.bout = b /\ VisibleAt(v, CutoffOf(i))}
      BY <1>3, <3>5
    <3> QED
      BY <3>6, LabelsAgree DEF SameLabels
  <2> QED
    BY <2>2, <2>3
<1>5. \A kind, f : Admitted(e, kind, f, i) = Admitted(WithoutHoldout(e), kind, f, i)
  BY <1>2 DEF Admitted
<1> QED
  BY <1>4, <1>5 DEF AgreeAt

LEMMA HoldoutEntersNoFit ==
  ASSUME NEW e, Lawful(e), NEW s, NEW i \in Groups,
         \A r \in s.oof : r.bout \in BoutsOn(Open)
  PROVE  FitsAgree(e, WithoutHoldout(e), s, i)
<1>1. PriorCards(i) \subseteq Open
  BY PriorCardsArePrior DEF Open
<1>2. \A b \in BoutsOn(PriorCards(i)) : b \in BoutsOn(Open)
  BY <1>1 DEF BoutsOn
<1> QED
  BY <1>1, <1>2, OpenCards, OpenLabels DEF FitsAgree

LEMMA HoldoutEntersNoArtifact ==
  ASSUME NEW e, Lawful(e)
  PROVE  /\ TrainedRidge(e) = TrainedRidge(WithoutHoldout(e))
         /\ TrainedJoint(e) = TrainedJoint(WithoutHoldout(e))
<1> DEFINE g == WithoutHoldout(e)
<1>1. ASSUME NEW labels, NEW i \in Open
      PROVE  LabelledSamples(e, SplitCards[i].bouts, LabelTime(i), labels) =
             LabelledSamples(g, SplitCards[i].bouts, LabelTime(i), labels)
  <2>1. SplitCards[i].bouts \in SUBSET BoutsOn(Groups) /\ SplitCards[i].bouts \subseteq BoutsOn(Open)
    BY DEF BoutsOn, Open
  <2>2. \A b \in SplitCards[i].bouts : SameLabels(e, g, b, LabelTime(i))
    BY <2>1, OpenLabels
  <2>3. \A b \in SplitCards[i].bouts : AgreeAt(e, g, CardOf(b))
    BY OpenCards, CardIsSole DEF Open
  <2> HIDE DEF g
  <2> QED
    BY <2>1, <2>2, <2>3, SamplesAgree
<1> HIDE DEF g
<1> DEFINE of(x, labels, i) == LabelledSamples(x, SplitCards[i].bouts, LabelTime(i), labels)
<1>2. \A x, labels : OrdinarySamples(x, labels) = UNION {of(x, labels, i) : i \in Open}
  BY DEF OrdinarySamples, Open
<1>3. \A labels : \A i \in Open : of(e, labels, i) = of(g, labels, i)
  BY <1>1
<1> HIDE DEF of
<1>4. ASSUME NEW labels PROVE OrdinarySamples(e, labels) = OrdinarySamples(g, labels)
  <2>1. {of(e, labels, i) : i \in Open} = {of(g, labels, i) : i \in Open}
    BY <1>3
  <2> QED
    BY <1>2, <2>1
<1>5. TrainedRidge(e) = TrainedRidge(g) /\ TrainedJoint(e) = TrainedJoint(g)
  BY <1>4 DEF TrainedRidge, TrainedJoint, JointSamples
<1> QED
  BY <1>5 DEF g

LEMMA KeptOnOpenCards ==
  ASSUME NEW e, NEW s, NEW i \in Groups, \A r \in s.oof : r.bout \in BoutsOn(Open)
  PROVE  \A r \in ScoreCard(e, s, i).scorer.oof : r.bout \in BoutsOn(Open)
<1>1. \A family, samples : \A r \in OofOf(e, i, family, samples) : r.bout \in SplitCards[i].bouts
  BY DEF OofOf, OofRecord
<1>2. ~IsHoldout(i) => SplitCards[i].bouts \subseteq BoutsOn(Open)
  BY DEF Open, BoutsOn
<1>3. \A family, samples : ~IsHoldout(i) => \A r \in OofOf(e, i, family, samples) : r.bout \in BoutsOn(Open)
  BY <1>1, <1>2
<1> DEFINE ridge == TrainSamples(e, i, Winners)
           joint == TrainSamples(e, i, Atoms)
           cal == CalibratorsFor(e.results, s, i)
           byJoint == JointFits(joint) /\ cal["joint"] # {}
           gained ==
             IF IsHoldout(i) THEN {}
             ELSE (IF JointFits(joint) THEN OofOf(e, i, "joint", joint) ELSE {})
               \cup (IF ~byJoint /\ RidgeFits(ridge) THEN OofOf(e, i, "ridge", ridge) ELSE {})
<1>4. \A r \in gained : r.bout \in BoutsOn(Open)
  BY <1>3
<1>5. ScoreCard(e, s, i).scorer =
        IF ridge = {} THEN s
        ELSE [oof |-> s.oof \cup gained, frozen |-> IF IsHoldout(i) THEN {cal} ELSE s.frozen]
  BY DEF ScoreCard
<1> HIDE DEF ridge, joint, cal, byJoint, gained
<1>6. ScoreCard(e, s, i).scorer.oof \subseteq s.oof \cup gained
  BY <1>5
<1> QED
  BY <1>4, <1>6

(* One calibration serves the holdout, once its first card is predicted.   *)
FrozenAs(x, frozen) ==
  IsHoldout(CardOf(x.bout)) /\ x.model \in {"M1", "M2"} =>
    \E c : frozen = {c} /\ x.calibration = c[IF x.model = "M1" THEN "ridge" ELSE "joint"]

LEMMA FrozenOnce ==
  ASSUME NEW e, NEW s, NEW i \in Groups, s.frozen = {} \/ \E c : s.frozen = {c}
  PROVE  LET new == ScoreCard(e, s, i)
         IN /\ new.scorer.frozen = {} \/ \E c : new.scorer.frozen = {c}
            /\ s.frozen # {} => new.scorer.frozen = s.frozen
            /\ \A x \in new.attempts : FrozenAs(x, new.scorer.frozen)
<1> DEFINE ridge == TrainSamples(e, i, Winners)
           joint == TrainSamples(e, i, Atoms)
           cal == CalibratorsFor(e.results, s, i)
           frozen == ScoreCard(e, s, i).scorer.frozen
<1>1. frozen = IF ridge = {} \/ ~IsHoldout(i) THEN s.frozen ELSE {cal}
  BY DEF ScoreCard
<1>2. \A c : IsHoldout(i) /\ s.frozen = {c} => cal = c
  BY DEF CalibratorsFor
<1>3. \A b : Attempt(e, s, i, b) =
        IF ridge = {} THEN Unpredicted(b, "none")
        ELSE IF JointFits(joint) /\ cal["joint"] # {}
          THEN Prediction(e, i, b, "M2", joint, cal["joint"], IF RidgeFits(ridge) THEN ridge ELSE {})
        ELSE IF RidgeFits(ridge) THEN Prediction(e, i, b, "M1", ridge, cal["ridge"], ridge)
        ELSE Unpredicted(b, "none")
  BY DEF Attempt
<1> HIDE DEF ridge, joint, cal, frozen
<1>4. \A b, model, samples, calibration, base :
        /\ Prediction(e, i, b, model, samples, calibration, base).model = model
        /\ Prediction(e, i, b, model, samples, calibration, base).calibration = calibration
  BY DEF Prediction
<1>5. \A b : Unpredicted(b, "none").model = "none"
  BY DEF Unpredicted
<1>6. ASSUME NEW b \in SplitCards[i].bouts
      PROVE  FrozenAs(Attempt(e, s, i, b), frozen)
  <2> SUFFICES ASSUME IsHoldout(CardOf(Attempt(e, s, i, b).bout)), Attempt(e, s, i, b).model \in {"M1", "M2"}
               PROVE  /\ frozen = {cal}
                      /\ Attempt(e, s, i, b).calibration = cal[IF Attempt(e, s, i, b).model = "M1" THEN "ridge" ELSE "joint"]
    BY DEF FrozenAs
  <2>1. IsHoldout(i)
    BY AttemptOfBout, CardIsSole
  <2>2. ridge # {}
    BY <1>3, <1>5
  <2>3. CASE JointFits(joint) /\ cal["joint"] # {}
    BY <1>1, <1>3, <1>4, <2>1, <2>2, <2>3
  <2>4. CASE ~(JointFits(joint) /\ cal["joint"] # {}) /\ RidgeFits(ridge)
    BY <1>1, <1>3, <1>4, <2>1, <2>2, <2>4
  <2>5. CASE ~(JointFits(joint) /\ cal["joint"] # {}) /\ ~RidgeFits(ridge)
    BY <1>3, <1>5, <2>2, <2>5
  <2> QED
    BY <2>3, <2>4, <2>5
<1>7. \A x \in ScoreCard(e, s, i).attempts : FrozenAs(x, frozen)
  BY <1>6, AttemptsAre
<1>8. frozen = {} \/ \E c : frozen = {c}
  BY <1>1
<1>9. s.frozen # {} => frozen = s.frozen
  BY <1>1, <1>2
<1> QED
  BY <1>7, <1>8, <1>9 DEF frozen
-----------------------------------------------------------------------------
(* The two runs score alike as far as the second can know it.              *)
InTime(n) == lacking = None \/ n = 0 \/ CutoffOf(n) <= lacking

Told ==
  /\ lacking \in Horizons
  /\ Lawful(known["actual"])
  /\ known["other"] = Without(known["actual"], lacking)

ScoredAlike ==
  /\ \A w \in Worlds : \A r \in scorer[w].oof : r.bout \in BoutsOn(Open)
  /\ InTime(scored) => scorer["actual"] = scorer["other"]

OncePredicted ==
  \A w \in Worlds :
    /\ \A x \in attempts[w] : x.bout \in BoutsOn(1 .. scored)
    /\ \A b \in BoutsOn(1 .. scored) : \E x \in attempts[w] : x.bout = b
    /\ \A x, y \in attempts[w] : x.bout = y.bout => x = y

AlikeAs(x, y) ==
  IF lacking = None THEN FittedTo(x) = FittedTo(y)
  ELSE CutoffOf(CardOf(x.bout)) <= lacking => x = y

PredictedAlike ==
  \A x \in attempts["actual"], y \in attempts["other"] : x.bout = y.bout => AlikeAs(x, y)

CalibratedOnce ==
  /\ scorer["actual"].frozen = {} \/ \E c : scorer["actual"].frozen = {c}
  /\ \A x \in attempts["actual"] : FrozenAs(x, scorer["actual"].frozen)

TrainedAlikeInv == lacking = None => artifact["actual"] = artifact["other"]

WalkInv ==
  /\ scored \in 0 .. Len(SplitCards)
  /\ Told /\ ScoredAlike /\ OncePredicted /\ PredictedAlike /\ CalibratedOnce
  /\ TrainedAlikeInv

LEMMA WalkInvGives ==
  ASSUME WalkInv
  PROVE  NoLookAhead
<1>1. \A w \in Worlds : \A b \in BoutsOn(1 .. scored) :
        AttemptOf(w, b) \in attempts[w] /\ AttemptOf(w, b).bout = b
  BY DEF WalkInv, OncePredicted, AttemptOf
<1>2. "actual" \in Worlds /\ "other" \in Worlds
  BY DEF Worlds
<1>3. \A b \in BoutsOn(1 .. scored) :
        IF lacking = None
          THEN FittedTo(AttemptOf("actual", b)) = FittedTo(AttemptOf("other", b))
          ELSE CutoffOf(CardOf(b)) <= lacking => AttemptOf("actual", b) = AttemptOf("other", b)
  <2> TAKE b \in BoutsOn(1 .. scored)
  <2>1. AlikeAs(AttemptOf("actual", b), AttemptOf("other", b))
    BY <1>1, <1>2 DEF WalkInv, PredictedAlike
  <2>2. AttemptOf("actual", b).bout = b
    BY <1>1, <1>2
  <2> QED
    BY <2>1, <2>2 DEF AlikeAs
<1>4. \A x, y \in attempts["actual"] :
       (/\ IsHoldout(CardOf(x.bout)) /\ IsHoldout(CardOf(y.bout))
        /\ x.model = y.model /\ x.model \in {"M1", "M2"}) => x.calibration = y.calibration
  <2> SUFFICES ASSUME NEW x \in attempts["actual"], NEW y \in attempts["actual"],
                      IsHoldout(CardOf(x.bout)), IsHoldout(CardOf(y.bout)),
                      x.model = y.model, x.model \in {"M1", "M2"}
               PROVE  x.calibration = y.calibration
    OBVIOUS
  <2> DEFINE frozen == scorer["actual"].frozen
             family == IF x.model = "M1" THEN "ridge" ELSE "joint"
  <2>1. PICK c : frozen = {c} /\ x.calibration = c[family]
    BY DEF WalkInv, CalibratedOnce, FrozenAs
  <2>2. PICK d : frozen = {d} /\ y.calibration = d[family]
    BY DEF WalkInv, CalibratedOnce, FrozenAs
  <2> HIDE DEF frozen, family
  <2>3. c = d
    BY <2>1, <2>2
  <2> QED
    BY <2>1, <2>2, <2>3
<1> QED
  BY <1>3, <1>4 DEF NoLookAhead, WalkInv, TrainedAlikeInv

LEMMA WalkBegins == BacktestInit => WalkInv
<1> SUFFICES ASSUME BacktestInit PROVE WalkInv
  OBVIOUS
<1>1. scored = 0 /\ scored \in 0 .. Len(SplitCards)
  BY WalkAssumption DEF BacktestInit
<1>2. BoutsOn(1 .. scored) = {}
  BY <1>1 DEF BoutsOn
<1>3. Told
  <2>1. PICK results \in SUBSET OtherResults :
          LET e == [results |-> EarlierResults \cup results, sources |-> Sources, quotes |-> BookQuotes]
          IN known = [w \in Worlds |-> IF w = "actual" THEN e ELSE Without(e, lacking)]
    BY DEF BacktestInit
  <2> DEFINE e == [results |-> EarlierResults \cup results, sources |-> Sources, quotes |-> BookQuotes]
  <2>2. Lawful(e)
    BY <2>1 DEF Lawful
  <2> HIDE DEF e
  <2>3. known["actual"] = e /\ known["other"] = Without(e, lacking)
    BY <2>1 DEF Worlds, e
  <2> QED
    BY <2>2, <2>3 DEF Told, BacktestInit
<1>4. \A w \in Worlds : scorer[w] = [oof |-> {}, frozen |-> {}] /\ attempts[w] = {} /\ artifact[w] = None
  BY DEF BacktestInit
<1>5. "actual" \in Worlds /\ "other" \in Worlds
  BY DEF Worlds
<1> QED
  BY <1>1, <1>2, <1>3, <1>4, <1>5
  DEF WalkInv, ScoredAlike, OncePredicted, PredictedAlike, CalibratedOnce, TrainedAlikeInv

LEMMA BoutsOnNext ==
  ASSUME NEW i \in Groups, NEW n \in Nat, i = n + 1
  PROVE  /\ BoutsOn(1 .. i) = BoutsOn(1 .. n) \cup SplitCards[i].bouts
         /\ BoutsOn(1 .. n) \cap SplitCards[i].bouts = {}
<1>1. 1 .. i = (1 .. n) \cup {i}
  OBVIOUS
<1>2. BoutsOn(1 .. i) = BoutsOn(1 .. n) \cup SplitCards[i].bouts
  BY <1>1 DEF BoutsOn
<1>3. \A j \in 1 .. n : j \in Groups /\ j < i
  BY WalkAssumption
<1>4. \A j \in 1 .. n : SplitCards[j].bouts \cap SplitCards[i].bouts = {}
  BY <1>3, WalkAssumption
<1> QED
  BY <1>2, <1>4 DEF BoutsOn

(* Each bout of the next card is predicted once.                           *)
OnePerBout(new, onCard) ==
  /\ \A x \in new : x.bout \in onCard
  /\ \A b \in onCard : \E x \in new : x.bout = b
  /\ \A x, y \in new : x.bout = y.bout => x = y

LEMMA PredictsOnce ==
  ASSUME OncePredicted, scored \in Nat, scored + 1 \in Groups, scored' = scored + 1,
         NEW new,
         \A w \in Worlds : attempts'[w] = attempts[w] \cup new[w],
         \A w \in Worlds : OnePerBout(new[w], SplitCards[scored + 1].bouts)
  PROVE  OncePredicted'
<1> DEFINE onCard == SplitCards[scored + 1].bouts
<1>1. BoutsOn(1 .. scored') = BoutsOn(1 .. scored) \cup onCard /\ BoutsOn(1 .. scored) \cap onCard = {}
  BY BoutsOnNext
<1> HIDE DEF onCard
<1>2. ASSUME NEW w \in Worlds
      PROVE  /\ \A x \in attempts'[w] : x.bout \in BoutsOn(1 .. scored')
             /\ \A b \in BoutsOn(1 .. scored') : \E x \in attempts'[w] : x.bout = b
             /\ \A x, y \in attempts'[w] : x.bout = y.bout => x = y
  <2>1. /\ \A x \in attempts[w] : x.bout \in BoutsOn(1 .. scored)
        /\ \A b \in BoutsOn(1 .. scored) : \E x \in attempts[w] : x.bout = b
        /\ \A x, y \in attempts[w] : x.bout = y.bout => x = y
    BY DEF OncePredicted
  <2>2. /\ \A x \in new[w] : x.bout \in onCard
        /\ \A b \in onCard : \E x \in new[w] : x.bout = b
        /\ \A x, y \in new[w] : x.bout = y.bout => x = y
    BY DEF OnePerBout, onCard
  <2>3. attempts'[w] = attempts[w] \cup new[w]
    OBVIOUS
  <2> QED
    BY <1>1, <2>1, <2>2, <2>3
<1> QED
  BY <1>2 DEF OncePredicted

LEMMA OnePrediction ==
  ASSUME NEW e, NEW s, NEW i
  PROVE  OnePerBout(ScoreCard(e, s, i).attempts, SplitCards[i].bouts)
<1> DEFINE made(b) == Attempt(e, s, i, b)
<1>1. \A b : made(b).bout = b
  BY AttemptOfBout
<1>2. ScoreCard(e, s, i).attempts = {made(b) : b \in SplitCards[i].bouts}
  BY AttemptsAre
<1> HIDE DEF made
<1> QED
  BY <1>1, <1>2 DEF OnePerBout

(* The two runs score a card alike.                                        *)
LEMMA ScoreAlike ==
  ASSUME Told, ScoredAlike, scored \in Nat, scored + 1 \in Groups,
         lacking = None \/ CutoffOf(scored + 1) <= lacking
  PROVE  LET one == ScoreCard(known["actual"], scorer["actual"], scored + 1)
             two == ScoreCard(known["other"], scorer["other"], scored + 1)
         IN /\ one.scorer = two.scorer
            /\ \A x \in one.attempts, y \in two.attempts : x.bout = y.bout => AlikeAs(x, y)
<1> DEFINE i == scored + 1
           e == known["actual"]
           g == known["other"]
           s == scorer["actual"]
<1>1. i \in Groups /\ "actual" \in Worlds
  BY DEF Worlds
<1>2. InTime(scored)
  <2> SUFFICES ASSUME lacking # None, scored # 0
               PROVE  CutoffOf(scored) <= lacking
    BY DEF InTime
  <2>1. scored \in Groups /\ scored < i
    BY WalkAssumption
  <2>2. SplitCards[scored].start \in Int /\ SplitCards[i].start \in Int
        /\ SplitCards[scored].start <= SplitCards[i].start
    BY <2>1, WalkAssumption
  <2>3. lacking \in Int
    BY WalkAssumption DEF Told
  <2> QED
    BY <2>2, <2>3 DEF CutoffOf
<1>3. scorer["other"] = s
  BY <1>2 DEF ScoredAlike
<1>4. Lawful(e) /\ g = Without(e, lacking) /\ \A r \in s.oof : r.bout \in BoutsOn(Open)
  BY <1>1 DEF Told, ScoredAlike
<1>5. \A x \in ScoreCard(e, s, i).attempts : \A y \in ScoreCard(g, s, i).attempts : x.bout = y.bout =>
        \E b \in SplitCards[i].bouts :
          x.bout = b /\ x = Attempt(e, s, i, b) /\ y = Attempt(g, s, i, b)
  <2> SUFFICES ASSUME NEW x \in ScoreCard(e, s, i).attempts, NEW y \in ScoreCard(g, s, i).attempts,
                      x.bout = y.bout
               PROVE  \E b \in SplitCards[i].bouts :
                        x.bout = b /\ x = Attempt(e, s, i, b) /\ y = Attempt(g, s, i, b)
    OBVIOUS
  <2> HIDE DEF i, e, g, s
  <2>1. PICK b \in SplitCards[i].bouts : x = Attempt(e, s, i, b)
    BY AttemptsAre
  <2>2. PICK d \in SplitCards[i].bouts : y = Attempt(g, s, i, d)
    BY AttemptsAre
  <2>3. x.bout = b /\ y.bout = d
    BY <2>1, <2>2, AttemptOfBout
  <2> QED
    BY <2>1, <2>2, <2>3
<1> HIDE DEF i, e, g, s
<1>8. CASE lacking = None
  <2>1. g = WithoutHoldout(e)
    BY <1>4, <1>8 DEF Without
  <2>2. FitsAgree(e, g, s, i)
    BY <1>1, <1>4, <2>1, HoldoutEntersNoFit
  <2>3. ~IsHoldout(i) => AgreeAt(e, g, i)
    BY <1>1, <1>4, <2>1, OpenCards DEF Open
  <2>4. ScoreCard(e, s, i).scorer = ScoreCard(g, s, i).scorer
    BY <1>1, <2>2, <2>3, ScorersAgree
  <2>5. \A x \in ScoreCard(e, s, i).attempts, y \in ScoreCard(g, s, i).attempts :
          x.bout = y.bout => FittedTo(x) = FittedTo(y)
    BY <1>1, <1>5, <2>2, FitsOnly
  <2> QED
    BY <1>3, <1>8, <2>4, <2>5 DEF AlikeAs, i, e, g, s
<1>9. CASE lacking # None
  <2>1. lacking \in Int /\ CutoffOf(i) <= lacking
    BY <1>9, WalkAssumption DEF Told, i
  <2>2. g = KnownBy(e, lacking)
    BY <1>4, <1>9 DEF Without
  <2>3. AgreeUntil(e, g, lacking)
    BY <1>4, <2>1, <2>2, KnownByAgrees
  <2>4. AgreeAt(e, g, i)
    BY <1>1, <2>1, <2>3, AgreedCards
  <2>5. CutoffOf(i) \in Int
    BY <1>1, CutoffsAreTimes
  <2>6. FitsAgree(e, g, s, i)
    <3>1. \A c : SameLabels(e, g, c, CutoffOf(i))
      BY <2>1, <2>3, <2>5, AgreedLabels
    <3>2. ASSUME NEW j \in PriorCards(i) PROVE AgreeAt(e, g, j)
      <4>1. j \in Groups /\ CutoffOf(j) <= CutoffOf(i) /\ CutoffOf(j) \in Int
        BY <1>1, <3>2, PriorCardsArePrior, CutoffsAreTimes
      <4>2. CutoffOf(j) <= lacking
        BY <2>1, <2>5, <4>1
      <4> QED
        BY <2>1, <2>3, <4>1, <4>2, AgreedCards
    <3> QED
      BY <3>1, <3>2 DEF FitsAgree
  <2>7. \A c \in SplitCards[i].bouts : AsOf(e.quotes, c) = AsOf(g.quotes, c)
    <3> TAKE c \in SplitCards[i].bouts
    <3>1. CardOf(c) = i
      BY <1>1, CardIsSole
    <3>2. {q \in e.quotes : q.observed <= CutoffOf(i)} = {q \in g.quotes : q.observed <= CutoffOf(i)}
      BY <2>1, <2>3, <2>5 DEF AgreeUntil
    <3> QED
      BY <3>1, <3>2 DEF AsOf
  <2>8. ScoreCard(e, s, i).scorer = ScoreCard(g, s, i).scorer
    BY <1>1, <2>4, <2>6, ScorersAgree
  <2>9. \A x \in ScoreCard(e, s, i).attempts, y \in ScoreCard(g, s, i).attempts :
          x.bout = y.bout => x = y
    BY <1>1, <1>5, <2>4, <2>6, <2>7, AttemptsAgree
  <2> QED
    BY <1>3, <1>9, <2>8, <2>9 DEF AlikeAs, i, e, g, s
<1> QED
  BY <1>8, <1>9

LEMMA WalkSteps == WalkInv /\ [BacktestNext]_backtestVars => WalkInv'
<1> SUFFICES ASSUME WalkInv, [BacktestNext]_backtestVars PROVE WalkInv'
  OBVIOUS
<1> USE DEF WalkInv
<1>0. "actual" \in Worlds /\ "other" \in Worlds /\ scored \in Nat /\ \A w \in Worlds : w \in {"actual", "other"}
  BY WalkAssumption DEF Worlds
<1>1. CASE ScoreNext
  <2> DEFINE i == scored + 1
             new == [w \in Worlds |-> ScoreCard(known[w], scorer[w], i)]
  <2>1. /\ i \in Groups /\ scored' = i /\ UNCHANGED <<known, lacking, artifact>>
        /\ \A w \in Worlds : scorer'[w] = new[w].scorer /\ attempts'[w] = attempts[w] \cup new[w].attempts
    BY <1>1 DEF ScoreNext
  <2>2. \A w \in Worlds : new[w] = ScoreCard(known[w], scorer[w], i)
    OBVIOUS
  <2> HIDE DEF new
  <2>3. scored' \in 0 .. Len(SplitCards)
    BY <2>1, WalkAssumption
  <2>4. Told' /\ TrainedAlikeInv'
    BY <2>1 DEF Told, TrainedAlikeInv
  <2>5. ScoredAlike'
    <3>1. \A w \in Worlds : \A r \in scorer'[w].oof : r.bout \in BoutsOn(Open)
      BY <2>1, <2>2, KeptOnOpenCards DEF ScoredAlike
    <3>2. InTime(scored)' => lacking = None \/ CutoffOf(i) <= lacking
      BY <1>0, <2>1 DEF InTime
    <3>3. InTime(scored)' => scorer'["actual"] = scorer'["other"]
      BY <1>0, <2>1, <2>2, <3>2, ScoreAlike
    <3> QED
      BY <3>1, <3>3 DEF ScoredAlike, Open, BoutsOn
  <2>6. OncePredicted'
    <3> DEFINE made == [w \in Worlds |-> new[w].attempts]
    <3>1. \A w \in Worlds : attempts'[w] = attempts[w] \cup made[w]
      BY <2>1
    <3>2. \A w \in Worlds : OnePerBout(made[w], SplitCards[i].bouts)
      BY <2>2, OnePrediction
    <3> HIDE DEF made
    <3> QED
      BY <1>0, <2>1, <3>1, <3>2, PredictsOnce
  <2>7. PredictedAlike'
    <3>1. ASSUME NEW x \in attempts'["actual"], NEW y \in attempts'["other"], x.bout = y.bout
          PROVE  AlikeAs(x, y)
      <4>1. BoutsOn(1 .. scored) \cap SplitCards[i].bouts = {}
        BY <1>0, <2>1, BoutsOnNext
      <4>2. x \in attempts["actual"] \/ x \in new["actual"].attempts
        BY <1>0, <2>1
      <4>3. y \in attempts["other"] \/ y \in new["other"].attempts
        BY <1>0, <2>1
      <4>4. /\ \A z \in attempts["actual"] \cup attempts["other"] : z.bout \in BoutsOn(1 .. scored)
            /\ \A z \in new["actual"].attempts \cup new["other"].attempts : z.bout \in SplitCards[i].bouts
        BY <1>0, <2>2, OnePrediction DEF OncePredicted, OnePerBout
      <4>5. CASE x \in attempts["actual"] /\ y \in attempts["other"]
        BY <3>1, <4>5 DEF PredictedAlike
      <4>6. CASE x \in new["actual"].attempts /\ y \in new["other"].attempts
        <5>1. CASE lacking = None \/ CutoffOf(i) <= lacking
          BY <1>0, <2>1, <2>2, <3>1, <4>6, <5>1, ScoreAlike
        <5>2. CASE ~(lacking = None \/ CutoffOf(i) <= lacking)
          <6>1. CardOf(x.bout) = i
            BY <2>1, <4>4, <4>6, CardIsSole
          <6> QED
            BY <5>2, <6>1 DEF AlikeAs
        <5> QED
          BY <5>1, <5>2
      <4> QED
        BY <3>1, <4>1, <4>2, <4>3, <4>4, <4>5, <4>6
    <3> QED
      BY <2>1, <3>1 DEF PredictedAlike, AlikeAs
  <2>8. CalibratedOnce'
    <3> DEFINE s == scorer["actual"]
               frozen == new["actual"].scorer.frozen
    <3>1. s.frozen = {} \/ \E c : s.frozen = {c}
      BY DEF CalibratedOnce
    <3>2. new["actual"] = ScoreCard(known["actual"], s, i)
      BY <1>0, <2>2
    <3>3. /\ frozen = {} \/ \E c : frozen = {c}
          /\ s.frozen # {} => frozen = s.frozen
          /\ \A x \in new["actual"].attempts : FrozenAs(x, frozen)
      <4> DEFINE card == ScoreCard(known["actual"], s, i)
      <4>1. /\ card.scorer.frozen = {} \/ \E c : card.scorer.frozen = {c}
            /\ s.frozen # {} => card.scorer.frozen = s.frozen
            /\ \A x \in card.attempts : FrozenAs(x, card.scorer.frozen)
        BY <2>1, <3>1, FrozenOnce
      <4> HIDE DEF card
      <4>2. new["actual"] = card
        BY <3>2 DEF card
      <4> QED
        BY <4>1, <4>2
    <3>4. \A x \in attempts["actual"] : FrozenAs(x, s.frozen)
      BY DEF CalibratedOnce
    <3>5. \A x \in attempts["actual"] : FrozenAs(x, frozen)
      <4> SUFFICES ASSUME NEW x \in attempts["actual"], IsHoldout(CardOf(x.bout)), x.model \in {"M1", "M2"}
                   PROVE  FrozenAs(x, frozen)
        BY DEF FrozenAs
      <4>1. PICK c : s.frozen = {c}
        BY <3>4 DEF FrozenAs
      <4>2. frozen = s.frozen
        BY <3>3, <4>1
      <4> QED
        BY <3>4, <4>2
    <3>6. scorer'["actual"].frozen = frozen /\ attempts'["actual"] = attempts["actual"] \cup new["actual"].attempts
      BY <1>0, <2>1
    <3> HIDE DEF s, frozen
    <3>7. \A x \in attempts'["actual"] : FrozenAs(x, scorer'["actual"].frozen)
      BY <3>3, <3>5, <3>6
    <3> QED
      BY <3>3, <3>6, <3>7 DEF CalibratedOnce, FrozenAs
  <2> QED
    BY <2>3, <2>4, <2>5, <2>6, <2>7, <2>8
<1>2. CASE PassLocked
  <2> DEFINE i == scored + 1
             passed == {Unpredicted(b, "locked") : b \in SplitCards[i].bouts}
  <2>1. /\ i \in Groups /\ scored' = i /\ UNCHANGED <<known, lacking, artifact, scorer>>
        /\ \A w \in Worlds : attempts'[w] = attempts[w] \cup passed
    BY <1>2 DEF PassLocked
  <2>2. \A x \in passed : x.bout \in SplitCards[i].bouts /\ x.model = "locked"
    BY DEF Unpredicted
  <2>3. OnePerBout(passed, SplitCards[i].bouts) /\ \A x, y \in passed : x.bout = y.bout => x = y
    <3> DEFINE locked(b) == Unpredicted(b, "locked")
    <3>1. \A b : locked(b).bout = b
      BY DEF Unpredicted
    <3>2. passed = {locked(b) : b \in SplitCards[i].bouts}
      OBVIOUS
    <3> HIDE DEF locked, passed
    <3>3. \A x \in passed : \E b \in SplitCards[i].bouts : x = locked(b) /\ x.bout = b
      BY <3>1, <3>2
    <3>4. \A b \in SplitCards[i].bouts : locked(b) \in passed
      BY <3>2
    <3>5. \A x, y \in passed : x.bout = y.bout => x = y
      BY <3>3
    <3>6. /\ \A x \in passed : x.bout \in SplitCards[i].bouts
          /\ \A b \in SplitCards[i].bouts : \E x \in passed : x.bout = b
      BY <3>1, <3>3, <3>4
    <3> QED
      BY <3>5, <3>6 DEF OnePerBout
  <2> HIDE DEF passed
  <2>4. scored' \in 0 .. Len(SplitCards)
    BY <2>1, WalkAssumption
  <2>5. Told' /\ TrainedAlikeInv'
    BY <2>1 DEF Told, TrainedAlikeInv
  <2>6. ScoredAlike'
    <3>1. InTime(i) => InTime(scored)
      <4> SUFFICES ASSUME lacking # None, scored # 0, CutoffOf(i) <= lacking
                   PROVE  CutoffOf(scored) <= lacking
        BY <1>0 DEF InTime
      <4>1. scored \in Groups /\ scored < i
        BY <1>0, WalkAssumption
      <4>2. SplitCards[scored].start \in Int /\ SplitCards[i].start \in Int
            /\ SplitCards[scored].start <= SplitCards[i].start
        BY <2>1, <4>1, WalkAssumption
      <4>3. lacking \in Int
        BY WalkAssumption DEF Told
      <4> QED
        BY <4>2, <4>3 DEF CutoffOf
    <3> QED
      BY <2>1, <3>1 DEF ScoredAlike, InTime, Open, BoutsOn
  <2>7. OncePredicted'
    <3> DEFINE made == [w \in Worlds |-> passed]
    <3>1. \A w \in Worlds : attempts'[w] = attempts[w] \cup made[w] /\ OnePerBout(made[w], SplitCards[i].bouts)
      BY <2>1, <2>3
    <3> HIDE DEF made
    <3> QED
      BY <1>0, <2>1, <3>1, PredictsOnce
  <2>8. PredictedAlike'
    <3>1. ASSUME NEW x \in attempts'["actual"], NEW y \in attempts'["other"], x.bout = y.bout
          PROVE  AlikeAs(x, y)
      <4>1. BoutsOn(1 .. scored) \cap SplitCards[i].bouts = {}
        BY <1>0, <2>1, BoutsOnNext
      <4>2. \A z \in attempts["actual"] \cup attempts["other"] : z.bout \in BoutsOn(1 .. scored)
        BY <1>0 DEF OncePredicted
      <4>3. CASE x \in attempts["actual"] /\ y \in attempts["other"]
        BY <3>1, <4>3 DEF PredictedAlike
      <4>4. CASE x \in passed /\ y \in passed
        <5>1. x = y
          BY <2>3, <3>1, <4>4
        <5> QED
          BY <5>1 DEF AlikeAs
      <4> QED
        BY <1>0, <2>1, <2>2, <3>1, <4>1, <4>2, <4>3, <4>4
    <3> QED
      BY <2>1, <3>1 DEF PredictedAlike, AlikeAs
  <2>9. CalibratedOnce'
    <3>1. \A x \in passed : FrozenAs(x, scorer["actual"].frozen)
      BY <2>2 DEF FrozenAs
    <3>2. attempts'["actual"] = attempts["actual"] \cup passed
      BY <1>0, <2>1
    <3> QED
      BY <2>1, <3>1, <3>2 DEF CalibratedOnce, FrozenAs
  <2> QED
    BY <2>4, <2>5, <2>6, <2>7, <2>8, <2>9
<1>3. ASSUME NEW family \in {"ridge", "joint"}, Train(family) PROVE WalkInv'
  <2>1. UNCHANGED <<known, lacking, scored, scorer, attempts>>
    BY <1>3 DEF Train
  <2>2. \A w \in Worlds : artifact'[w] = IF family = "ridge" THEN TrainedRidge(known[w]) ELSE TrainedJoint(known[w])
    BY <1>3 DEF Train
  <2>3. lacking = None => artifact'["actual"] = artifact'["other"]
    BY <1>0, <2>2, HoldoutEntersNoArtifact DEF Told, Without
  <2> QED
    BY <2>1, <2>3
    DEF Told, ScoredAlike, OncePredicted, PredictedAlike, CalibratedOnce, TrainedAlikeInv, InTime, AlikeAs, FrozenAs
<1>4. CASE Calibrate
  <2>1. UNCHANGED <<known, lacking, scored, scorer, attempts>>
    BY <1>4 DEF Calibrate
  <2>2. \A w \in Worlds : artifact'[w] = IF artifact[w] = None THEN None ELSE CalibratedArtifact(artifact[w])
    BY <1>4 DEF Calibrate
  <2>3. lacking = None => artifact'["actual"] = artifact'["other"]
    BY <1>0, <2>2 DEF TrainedAlikeInv
  <2> QED
    BY <2>1, <2>3
    DEF Told, ScoredAlike, OncePredicted, PredictedAlike, CalibratedOnce, TrainedAlikeInv, InTime, AlikeAs, FrozenAs
<1>5. CASE UNCHANGED backtestVars
  BY <1>5
  DEF backtestVars, Told, ScoredAlike, OncePredicted, PredictedAlike, CalibratedOnce, TrainedAlikeInv, InTime,
      AlikeAs, FrozenAs
<1> QED
  BY <1>1, <1>2, <1>3, <1>4, <1>5 DEF BacktestNext

(* No prediction looks ahead (NoLookAhead).                                *)
THEOREM NothingLooksAhead == BacktestSpec => []NoLookAhead
<1>1. BacktestInit => WalkInv
  BY WalkBegins
<1>2. WalkInv /\ [BacktestNext]_backtestVars => WalkInv'
  BY WalkSteps
<1>3. WalkInv => NoLookAhead
  BY WalkInvGives
<1> QED
  BY <1>1, <1>2, <1>3, PTL DEF BacktestSpec
=============================================================================
