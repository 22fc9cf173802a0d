----------------------------- MODULE HistorySync ----------------------------
(***************************************************************************)
(* The sync of regional histories (`history sync` and the ingest-history   *)
(* job): source by source and fighter by fighter a page is fetched and its *)
(* bouts stored as revisions, beside the frontier that marks who is done;  *)
(* and the pre-fight record that is reconstructed from the rows.           *)
(*                                                                         *)
(* Source: history/sync.py, history/frontier.py, history/apply.py,         *)
(* history/map_records.py, history/pit.py, history/identity.py,            *)
(* history/reconstruct.py, ingest/repository.py, db/tables/history.py,     *)
(* sources/sherdog_public/adapter.py.                                      *)
(*                                                                         *)
(* A page is [is, lists]: it is "missing", a "wall" (blocked), a "drift"   *)
(* (unparsable), or "listed" with its bouts, [bout, kind, result, date,    *)
(* exact, at, published], every one with a date; time counts days.         *)
(***************************************************************************)
EXTENDS Naturals, Sequences, FiniteSets, Functions, Nothing

CONSTANTS
  HistSources,    \* the sources, in the order they are tried
  Precedence,     \* the same sources, the most trusted first
  Seeds,          \* the fighters of the upcoming cards, in order
  IdAt,           \* fighter -> the sources it has an id at
  BoutKey(_, _),  \* source, bout -> date, opponent and event, as that source has them
  PageContents,   \* what a page may be
  FirstPage,      \* what every page is at first
  Statuses,       \* what an identity may resolve to: "linked", "queued", "blocked"
  Cutoffs,        \* the cutoffs records are reconstructed at
  MaxEdits,       \* bound: changes of a page or of an identity
  MaxCrashes      \* bound: syncs that die

VARIABLES
  pages,          \* source -> fighter -> its page
  identity,       \* source -> fighter -> what the resolver answers
  edits,
  fetched,        \* raw_observations, by page: [source, fighter, page]
  bouts,          \* history_source_bouts
  conflicts,      \* history_conflicts: <<"result", key>> and <<"correction", ...>>
  faults,         \* history_source_failures: [source, reason, subject]
  frontier,       \* source -> fighter -> None, "pending", "done" or "blocked"
  ended,          \* source -> its last run that ended: [status, met], met the pages it met
  job,            \* the sync under way
  crashes

historyVars == <<pages, identity, edits, fetched, bouts, conflicts, faults, frontier,
                 ended, job, crashes>>

Prospects == Range(Seeds)
Sites == Range(HistSources)
Contents == PageContents \cup {FirstPage}

(* A page has a bout once in each version: of the same page, a second      *)
(* listing of it is skipped as identical.                                  *)
ASSUME HistoryAssumption ==
  /\ HistSources \in Seq(Sites) /\ Seeds \in Seq(Prospects) /\ Cutoffs \subseteq Nat
  /\ None \notin Nat \cup {"done", "blocked"}
  /\ \A c \in Contents : \A e \in c.lists :
       /\ e.at \in Nat /\ e.published \in Nat \cup {None}
       /\ \A g \in c.lists : g.bout = e.bout /\ g.kind = e.kind => g = e
-----------------------------------------------------------------------------
(* resolve_regional_pit_quality and fact_visibility_at: when a bout was    *)
(* published, or a day after it took effect.                               *)
VisibleFrom(r) == IF r.published # None THEN r.published ELSE r.at + 1

(* _select_visible_bouts *)
Visible(r, cutoff) ==
  /\ r.status = "linked"
  /\ r.at < cutoff /\ VisibleFrom(r) <= cutoff
  /\ r.exact \/ r.date < cutoff

Rank(source) == CHOOSE i \in DOMAIN Precedence : Precedence[i] = source

(* _dedupe_for_reconstruction: the trusted source before the others, its   *)
(* current version before the night's, the last revision of either.        *)
Preferred(r, q) ==
  \/ Rank(r.source) < Rank(q.source)
  \/ r.source = q.source /\ r.kind = "current" /\ q.kind # "current"
  \/ r.source = q.source /\ r.kind = q.kind /\ r.rev >= q.rev

Deduped(rs) ==
  {r \in rs : \A q \in rs :
     BoutKey(q.source, q.bout) = BoutKey(r.source, r.bout) => Preferred(r, q)}

MutDedupedFirst(f, cutoff, rs) ==
  {<<BoutKey(r.source, r.bout), r.result>> :
     r \in {q \in Deduped({p \in rs : p.fighter = f}) : Visible(q, cutoff)}}

(* reconstruct_pre_fight_record: what is counted of a fighter's bouts.     *)
PreFightRecord(f, cutoff, rs) ==
  {<<BoutKey(r.source, r.bout), r.result>> :
     r \in Deduped({q \in rs : q.fighter = f /\ Visible(q, cutoff)})}
-----------------------------------------------------------------------------
(* _apply_regional_bout: a bout whose page has changed is a new revision.  *)
Revisions(source, bout, kind) ==
  {r \in bouts : r.source = source /\ r.bout = bout /\ r.kind = kind}

NewRow(source, f, page, e, status) ==
  [bout |-> e.bout, kind |-> e.kind, result |-> e.result, date |-> e.date,
   exact |-> e.exact, at |-> e.at, published |-> e.published, source |-> source,
   fighter |-> f, status |-> status, page |-> page,
   rev |-> Cardinality(Revisions(source, e.bout, e.kind)) + 1]

NewBouts(source, f, page, status) ==
  IF [source |-> source, fighter |-> f, page |-> page] \in fetched THEN {}
  ELSE {NewRow(source, f, page, e, status) : e \in page.lists}

Corrections(rs) ==
  {<<"correction", r.source, r.bout, r.kind, r.rev>> : r \in {q \in rs : q.rev > 1}}

(* _emit_result_conflicts: of what this sync has fetched, a bout whose     *)
(* results are not all the same.                                           *)
Disagreements(collected) ==
  {<<"result", c[1]>> : c \in {d \in collected : \E o \in collected : o[1] = d[1] /\ o[2] # d[2]}}
-----------------------------------------------------------------------------
NoJob == [step |-> "idle"]

HistoryInit ==
  /\ pages = [s \in Sites |-> [f \in Prospects |-> FirstPage]]
  /\ identity \in [Sites -> [Prospects -> Statuses]]
  /\ edits = 0 /\ crashes = 0
  /\ fetched = {} /\ bouts = {} /\ conflicts = {} /\ faults = {}
  /\ frontier = [s \in Sites |-> [f \in Prospects |-> None]]
  /\ ended = [s \in Sites |-> None]
  /\ job = NoJob

(* The source publishes another page.                                      *)
EditPage ==
  /\ edits < MaxEdits /\ edits' = edits + 1
  /\ \E s \in Sites, f \in Prospects, c \in PageContents :
       c # pages[s][f] /\ pages' = [pages EXCEPT ![s][f] = c]
  /\ UNCHANGED <<identity, fetched, bouts, conflicts, faults, frontier, ended, job, crashes>>

(* A review decides about an identity.                                     *)
DecideIdentity ==
  /\ edits < MaxEdits /\ edits' = edits + 1
  /\ \E s \in Sites, f \in Prospects, k \in Statuses :
       k # identity[s][f] /\ identity' = [identity EXCEPT ![s][f] = k]
  /\ UNCHANGED <<pages, fetched, bouts, conflicts, faults, frontier, ended, job, crashes>>

BeginJob ==
  /\ job.step = "idle"
  /\ job' = [step |-> "source", src |-> 1, next |-> 1, page |-> None, status |-> None,
             killed |-> FALSE, met |-> {}, collected |-> {}]
  /\ UNCHANGED <<pages, identity, edits, fetched, bouts, conflicts, faults, frontier,
                 ended, crashes>>

Source == HistSources[job.src]
Fighter == Seeds[job.next]
HasId(f) == Source \in IdAt[f]

(* The run of the next source is recorded as running.                      *)
StartSource ==
  /\ job.step = "source" /\ job.src <= Len(HistSources)
  /\ job' = [job EXCEPT !.step = "seed", !.next = 1, !.killed = FALSE, !.met = {}]
  /\ UNCHANGED <<pages, identity, edits, fetched, bouts, conflicts, faults, frontier,
                 ended, crashes>>

(* seed: who is not on the frontier yet is pending there.                  *)
SeedFrontier ==
  /\ job.step = "seed"
  /\ frontier' = [frontier EXCEPT ![Source] =
       [f \in Prospects |-> IF HasId(f) /\ @[f] = None THEN "pending" ELSE @[f]]]
  /\ job' = [job EXCEPT !.step = "fighter"]
  /\ UNCHANGED <<pages, identity, edits, fetched, bouts, conflicts, faults, ended, crashes>>

Fault(reason) == [source |-> Source, reason |-> reason, subject |-> Fighter]

(* A fighter no source has an id of is a fault of every source; one that   *)
(* another source has an id of is passed over.                             *)
SkipFighter ==
  /\ job.step = "fighter" /\ job.next <= Len(Seeds) /\ ~HasId(Fighter)
  /\ faults' = IF IdAt[Fighter] = {} THEN faults \cup {Fault("missing_source_id")} ELSE faults
  /\ job' = [job EXCEPT !.next = @ + 1]
  /\ UNCHANGED <<pages, identity, edits, fetched, bouts, conflicts, frontier, ended, crashes>>

(* Whoever has an id is fetched, done or not.                              *)
WillFetch == HasId(Fighter)

(* The identity is resolved and committed, then the page is fetched.       *)
FetchFighter ==
  /\ job.step = "fighter" /\ job.next <= Len(Seeds) /\ WillFetch
  /\ job' = [job EXCEPT !.step = "fetched", !.page = pages[Source][Fighter],
                        !.status = identity[Source][Fighter],
                        !.met = @ \cup {<<Fighter, pages[Source][Fighter]>>}]
  /\ UNCHANGED <<pages, identity, edits, fetched, bouts, conflicts, faults, frontier,
                 ended, crashes>>

(* A missing page is a fault and the next fighter's turn.                  *)
PageMissing ==
  /\ job.step = "fetched" /\ job.page.is = "missing"
  /\ faults' = faults \cup {Fault("missing_page")}
  /\ job' = [job EXCEPT !.step = "fighter", !.next = @ + 1]
  /\ UNCHANGED <<pages, identity, edits, fetched, bouts, conflicts, frontier, ended, crashes>>

(* A source that blocks, or whose pages no longer parse, is given up.      *)
KillSource ==
  /\ job.step = "fetched" /\ job.page.is \in {"wall", "drift"}
  /\ faults' = faults \cup {Fault(job.page.is)}
  /\ job' = [job EXCEPT !.step = "end", !.killed = TRUE]
  /\ UNCHANGED <<pages, identity, edits, fetched, bouts, conflicts, frontier, ended, crashes>>

(* commit_batch: the page's observations and revisions in one transaction. *)
CommitPage ==
  /\ job.step = "fetched" /\ job.page.is = "listed"
  /\ LET new == NewBouts(Source, Fighter, job.page, job.status)
     IN bouts' = bouts \cup new /\ conflicts' = conflicts \cup Corrections(new)
  /\ fetched' = fetched \cup {[source |-> Source, fighter |-> Fighter, page |-> job.page]}
  /\ job' = [job EXCEPT !.step = "mark",
       !.collected = @ \cup {<<BoutKey(Source, e.bout), e.result>> : e \in job.page.lists}]
  /\ UNCHANGED <<pages, identity, edits, faults, frontier, ended, crashes>>

(* The mark on the frontier is a transaction of its own.                   *)
MarkFrontier ==
  /\ job.step = "mark"
  /\ frontier' = [frontier EXCEPT ![Source][Fighter] =
       IF job.status = "blocked" THEN "blocked" ELSE "done"]
  /\ job' = [job EXCEPT !.step = "fighter", !.next = @ + 1]
  /\ UNCHANGED <<pages, identity, edits, fetched, bouts, conflicts, faults, ended, crashes>>

LastFighter ==
  /\ job.step = "fighter" /\ job.next > Len(Seeds)
  /\ job' = [job EXCEPT !.step = "end"]
  /\ UNCHANGED <<pages, identity, edits, fetched, bouts, conflicts, faults, frontier,
                 ended, crashes>>

MutEndStatus(killed) == "succeeded"
EndStatus(killed) == IF killed THEN "failed" ELSE "succeeded"

(* finish_run *)
EndSource ==
  /\ job.step = "end"
  /\ ended' = [ended EXCEPT ![Source] = [status |-> EndStatus(job.killed), met |-> job.met]]
  /\ job' = [job EXCEPT !.step = "source", !.src = @ + 1]
  /\ UNCHANGED <<pages, identity, edits, fetched, bouts, conflicts, faults, frontier, crashes>>

(* Last, what the sources disagree about, in a run of its own.             *)
EmitConflicts ==
  /\ job.step = "source" /\ job.src > Len(HistSources)
  /\ conflicts' = conflicts \cup Disagreements(job.collected)
  /\ job' = NoJob
  /\ UNCHANGED <<pages, identity, edits, fetched, bouts, faults, frontier, ended, crashes>>

(* The sync dies, of an exception nobody expects or with its process.      *)
SyncDies ==
  /\ job.step # "idle" /\ crashes < MaxCrashes
  /\ crashes' = crashes + 1 /\ job' = NoJob
  /\ UNCHANGED <<pages, identity, edits, fetched, bouts, conflicts, faults, frontier, ended>>

HistoryNext ==
  \/ EditPage \/ DecideIdentity \/ BeginJob \/ StartSource \/ SeedFrontier \/ SkipFighter
  \/ FetchFighter \/ PageMissing \/ KillSource \/ CommitPage \/ MarkFrontier \/ LastFighter
  \/ EndSource \/ EmitConflicts \/ SyncDies

HistorySpec == HistoryInit /\ [][HistoryNext]_historyVars
-----------------------------------------------------------------------------
(* A run that succeeded has met everyone its source has an id of, and each *)
(* of them is on record: as a stored page or as a missing one; a failed    *)
(* one says which page killed its source.  Nobody is marked done whose     *)
(* page is not stored, and the revisions of a bout have no gap.            *)
SyncAccounts ==
  /\ \A s \in {x \in Sites : ended[x] # None} :
       LET Has(f, why) == [source |-> s, reason |-> why, subject |-> f] \in faults
       IN /\ \A m \in ended[s].met :
               IF m[2].is = "listed"
                 THEN [source |-> s, fighter |-> m[1], page |-> m[2]] \in fetched
                 ELSE Has(m[1], IF m[2].is = "missing" THEN "missing_page" ELSE m[2].is)
          /\ ended[s].status = "succeeded" =>
               \A f \in Prospects :
                 IF s \in IdAt[f]
                   THEN \E m \in ended[s].met : m[1] = f /\ m[2].is \notin {"wall", "drift"}
                   ELSE IdAt[f] = {} => Has(f, "missing_source_id")
  /\ \A s \in Sites, f \in Prospects : frontier[s][f] \in {"done", "blocked"} =>
       \E p \in fetched : p.source = s /\ p.fighter = f
  /\ \A r \in bouts :
       {q.rev : q \in Revisions(r.source, r.bout, r.kind)}
         = 1 .. Cardinality(Revisions(r.source, r.bout, r.kind))

(* What a fighter's record was before a fight is not changed by rows that  *)
(* only became effective or known from that fight on, a later correction   *)
(* of an earlier bout included.                                            *)
EarlierRecordsFixed ==
  [][bouts' # bouts => \A f \in Prospects, c \in Cutoffs :
       (\A r \in bouts' \ bouts : r.at >= c \/ VisibleFrom(r) > c) =>
         PreFightRecord(f, c, bouts') = PreFightRecord(f, c, bouts)]_historyVars
=============================================================================
