----------------------------- MODULE HostMonitor ----------------------------
(***************************************************************************)
(* What the host tells its operator.  A tick begins by assembling a health *)
(* report of the database, the artifacts, the backup stamp and the page    *)
(* that is live; if one of its jobs publishes, the report goes out with    *)
(* the page, and the monitor reads it there, after this tick or days       *)
(* later, beside the journal, the stamp and the machine itself.            *)
(*                                                                         *)
(* Source: src/mma_model/observability/ (assemble.py, health.py),          *)
(* publish/builder.py, deploy/run-job.sh, deploy/monitor-check.sh.         *)
(*                                                                         *)
(* Ages are in hours, scaled down; the files under live/ are replaced as   *)
(* one (PublishPointer).                                                   *)
(***************************************************************************)
EXTENDS Naturals, FiniteSets, FiniteSetsExt, Nothing

CONSTANTS
  BackupStale, LiveStale, QuotaStale,       \* BACKUP_, PUBLISH_, QUOTA_STALE_AFTER
  BackupMaxAge, FailWindow, FailThreshold,  \* the limits of monitor-check.sh
  LastHour, MaxChanges, MaxJobs             \* bounds of the model

ASSUME MonitorAssumption ==
  /\ None \notin Nat
  /\ \A limit \in {BackupStale, LiveStale, QuotaStale, BackupMaxAge, FailWindow, FailThreshold} : limit \in Nat

VARIABLES
  hour,
  host,      \* what there is to see: card, blocks, sourced, model, official, quota, stamp, edge
  live,      \* the published page: [at, components], with the report and the host it was made from
  pointed,   \* the pointer names a release
  running,   \* the job that has the writer lock, with the report it began with
  journal,   \* the failed ticks, by hour
  changes, jobs

monitorVars == <<hour, host, live, pointed, running, journal, changes, jobs>>

NewHost ==
  [card |-> "none", blocks |-> FALSE, sourced |-> FALSE, model |-> "none", official |-> FALSE,
   quota |-> None, stamp |-> None, edge |-> "fine"]
SoundHost ==
  [card |-> "on", blocks |-> FALSE, sourced |-> TRUE, model |-> "present", official |-> TRUE,
   quota |-> 0, stamp |-> 0, edge |-> "fine"]
OffSeason == [SoundHost EXCEPT !.card = "none"]

Aged(at, limit) ==
  IF at = None THEN "missing" ELSE IF hour - at > limit THEN "stale" ELSE "healthy"
-----------------------------------------------------------------------------
(* _sources_component: the upcoming card and its active bouts.             *)
SourcesComponent ==
  CASE host.card = "none" -> "missing"
    [] host.card = "empty" -> "blocked"
    [] OTHER -> "healthy"

(* Mutant: nothing to resolve comes before the blocks.                     *)
MutIdentityComponent ==
  IF host.card # "on" THEN "missing"
  ELSE IF host.blocks \/ ~host.sourced THEN "blocked" ELSE "healthy"

(* _identity_component: any active block, or a fighter without a source id.*)
IdentityComponent ==
  IF host.blocks \/ (host.card = "on" /\ ~host.sourced) THEN "blocked"
  ELSE IF host.card # "on" THEN "missing" ELSE "healthy"

ModelComponent ==
  CASE host.model = "none" -> "blocked"
    [] host.model \in {"unreadable", "lost"} -> "failed"
    [] OTHER -> "healthy"

(* _publish_and_staleness: the demo page counts as stale.                  *)
PublishComponent ==
  IF live # None /\ live.demo THEN "stale" ELSE IF pointed THEN "healthy" ELSE "missing"

StalenessComponent == Aged(IF live = None THEN None ELSE live.at, LiveStale)

OddsComponent == Aged(host.quota, QuotaStale)    \* and the quota's, _odds_and_quota

BackupComponent == Aged(host.stamp, BackupStale)

(* assemble_health.                                                        *)
Assembled ==
  [sources |-> SourcesComponent, identity |-> IdentityComponent,
   odds |-> OddsComponent, model |-> ModelComponent,
   publish |-> PublishComponent, grade |-> IF host.official THEN "healthy" ELSE "missing",
   backup |-> BackupComponent, quota |-> OddsComponent,
   staleness |-> StalenessComponent]

Required == {"sources", "identity", "model", "publish", "grade"}
Components == Required \cup {"odds", "backup", "quota", "staleness"}

(* severity_for.                                                           *)
Severity(component, status) ==
  CASE status = "healthy" -> "green"
    [] status \in {"blocked", "failed"} -> "red"
    [] status = "missing" /\ component \in Required -> "red"
    [] OTHER -> "yellow"

(* The blocker codes of build_health_report.                               *)
Blockers(report) == { c \in DOMAIN report : Severity(c, report[c]) = "red" }

(* HEALTH_COMPONENT_MAP: what the page calls a component.                  *)
PageName ==
  [data |-> "sources", identity |-> "identity", odds |-> "odds", model |-> "model",
   pipeline |-> "publish", grading |-> "grade", backup |-> "backup", quota |-> "quota",
   freshness |-> "staleness"]

(* _project_health_components.                                             *)
Projected(report) == [n \in DOMAIN PageName |-> report[PageName[n]]]
-----------------------------------------------------------------------------
(* The signals of check_health_json: the first of the names the page has.  *)
Signals ==
  [data_freshness |-> <<"data", "freshness", "staleness", "sources", "publish">>,
   odds_freshness |-> <<"odds">>, model_age |-> <<"model">>, grading |-> <<"grading", "grade">>,
   quota |-> <<"quota">>, identity |-> <<"identity">>]

Read(components, names) ==
  LET there == { i \in DOMAIN names : names[i] \in DOMAIN components } IN
  IF there = {} THEN "missing" ELSE components[names[Min(there)]]

Level(status) ==
  CASE status \in {"failed", "blocked"} -> "alert"
    [] status = "healthy" -> "ok"
    [] OTHER -> "warn"

PageLevels ==
  IF live = None THEN {"warn"}
  ELSE { Level(Read(live.components, Signals[s])) : s \in DOMAIN Signals }

(* check_backup_age.                                                       *)
StampLevel ==
  CASE host.stamp = None -> "warn"
    [] OTHER -> IF hour - host.stamp > BackupMaxAge THEN "alert" ELSE "ok"

(* check_disk, check_tls and check_dashboard_https, the worst of them.     *)
EdgeLevel == CASE host.edge = "down" -> "alert" [] host.edge = "doubtful" -> "warn" [] OTHER -> "ok"

(* check_container_failures.                                               *)
JournalLevel ==
  IF Cardinality({ f \in journal : hour - f[1] <= FailWindow }) >= FailThreshold
    THEN "alert" ELSE "ok"

(* What monitor-check.sh reports, after a tick that ended well or called by*)
(* hand.                                                                   *)
Rollup ==
  LET levels == PageLevels \cup {StampLevel, EdgeLevel, JournalLevel}
  IN IF "alert" \in levels THEN "red" ELSE IF "warn" \in levels THEN "yellow" ELSE "green"

-----------------------------------------------------------------------------
(* main of run-job.sh takes the writer lock, or is refused; the tick       *)
(* assembles its report first of all.                                      *)
Begin(job) ==
  /\ running = None /\ jobs < MaxJobs
  /\ jobs' = jobs + 1
  /\ running' = [job |-> job, report |-> Assembled, of |-> host, at |-> hour]
  /\ UNCHANGED <<hour, host, live, pointed, journal, changes>>

(* A tick ends.  It may have published, the page or, if live/ could not be *)
(* replaced, the release alone; what it did to the database is lost if it  *)
(* was killed, and only a failure it lived to report is in the journal.    *)
EndTick(how, published) ==
  /\ running # None /\ running.job = "tick"
  /\ running' = None
  /\ pointed' = (pointed \/ published # "nothing")
  /\ live' = IF published = "page"
               THEN [at |-> hour, demo |-> FALSE, components |-> Projected(running.report),
                     report |-> running.report, of |-> running.of, asOf |-> running.at]
               ELSE live
  /\ \E polled, picked \in BOOLEAN :
       host' = IF how = "killed" THEN host
               ELSE [host EXCEPT !.quota = IF polled THEN hour ELSE @,
                                 !.official = @ \/ (picked /\ host.card = "on")]
  /\ journal' = journal \cup (IF how = "failed" THEN {<<hour, jobs>>} ELSE {})
  /\ UNCHANGED <<hour, changes, jobs>>

(* backup.sh writes the stamp when all of it went well.                    *)
EndBackup(ok) ==
  /\ running # None /\ running.job = "backup"
  /\ running' = None
  /\ host' = IF ok THEN [host EXCEPT !.stamp = hour] ELSE host
  /\ UNCHANGED <<hour, live, pointed, journal, changes, jobs>>

(* A card is announced, loses its bouts or is over; identities are blocked *)
(* and resolved; models come and go; the machine fails.                    *)
Change ==
  /\ changes < MaxChanges
  /\ changes' = changes + 1
  /\ host' \in UNION
       { { [host EXCEPT !.card = c] : c \in {"none", "empty", "on"} },
         { [host EXCEPT !.blocks = b] : b \in BOOLEAN },
         { [host EXCEPT !.sourced = b] : b \in BOOLEAN },
         { [host EXCEPT !.model = m] : m \in {"none", "unreadable", "lost", "present"} },
         { [host EXCEPT !.edge = e] : e \in {"fine", "doubtful", "down"} } } \ {host}
  /\ UNCHANGED <<hour, live, pointed, running, journal, jobs>>

Pass == /\ hour < LastHour
        /\ hour' = hour + 1
        /\ UNCHANGED <<host, live, pointed, running, journal, changes, jobs>>

MonitorInit ==
  /\ hour = 0 /\ host \in {NewHost, OffSeason, SoundHost} /\ pointed = FALSE
  /\ running = None /\ journal = {} /\ changes = 0 /\ jobs = 0
  /\ live = IF host # NewHost THEN None
            ELSE [at |-> 0, demo |-> TRUE, components |-> [n \in DOMAIN PageName |-> "missing"],
                  report |-> [c \in Components |-> "missing"], of |-> NewHost, asOf |-> 0]

MonitorNext ==
  \/ Change \/ Pass
  \/ \E job \in {"tick", "backup"} : Begin(job)
  \/ \E how \in {"well", "failed", "killed"}, published \in {"nothing", "release", "page"} :
       EndTick(how, published)
  \/ \E ok \in BOOLEAN : EndBackup(ok)

MonitorSpec == MonitorInit /\ [][MonitorNext]_monitorVars
-----------------------------------------------------------------------------
(* Nothing the page was made from was in doubt, or something was wrong.    *)
WasSound(h, at) ==
  /\ h.card = "on" /\ ~h.blocks /\ h.sourced /\ h.model = "present" /\ h.official
  /\ h.quota # None /\ at - h.quota <= QuotaStale
WasIll(h) ==
  h.card = "empty" \/ h.blocks \/ (h.card = "on" /\ ~h.sourced) \/ h.model # "present"

HostSound == host.edge = "fine" /\ host.stamp # None /\ hour - host.stamp <= BackupMaxAge
HostIll == host.edge = "down" \/ (host.stamp # None /\ hour - host.stamp > BackupMaxAge)
RecentFailures == { f \in journal : f[1] >= hour - FailWindow }
Shown == live # None /\ ~live.demo

(* Whenever the monitor is run, through three conversions and the time     *)
(* between them: what it says is true.  It is green only if the host is    *)
(* well and was well when the report of the live page was assembled, whose *)
(* only blocker may be that nothing was published yet, and then it is as   *)
(* long as that page is not stale; it is red exactly if something is wrong *)
(* now or was then, whether or not a card was coming.                      *)
ChecksAreTrue ==
  LET many == Cardinality(RecentFailures) >= FailThreshold
      sound == Shown /\ WasSound(live.of, live.asOf) /\ HostSound /\ ~many
      seen == Rollup
  IN /\ seen = "green" => sound /\ Blockers(live.report) \subseteq {"publish"}
     /\ sound /\ hour - live.at <= LiveStale => seen = "green"
     /\ (seen = "red") <=> (HostIll \/ many \/ (Shown /\ WasIll(live.of)))

(* docs/deployment/target-topology.md: "Alerts | Missed jobs, stale        *)
(* dashboard, disk >80%, backup age >26h".  The monitor is not green on a  *)
(* live page that the code itself calls stale (_publish_and_staleness).    *)
StaleDashboardTold == (live # None /\ hour - live.at > LiveStale) => Rollup # "green"
=============================================================================
