--------------------------- MODULE PublishPointer ---------------------------
(***************************************************************************)
(* Publishing the dashboard on the file system, call by call, with a       *)
(* process killed between any two of them.  Under the publish root:        *)
(*                                                                         *)
(*   releases/<id>            final[id]      a validated release           *)
(*   releases/<id>.candidate  staging[id]    being written                 *)
(*   releases/<id>.old        old[id]        set aside by a re-publication *)
(*   current                  current        the id of the release served  *)
(*   live/                    live           what the web dashboard reads  *)
(*   live.candidate/          candidate      being copied from a release   *)
(*   .live.<pid>.old/         aside[p]       live/ set aside by the swap   *)
(*                                                                         *)
(* Source: FilesystemPublishPointer of                                     *)
(* src/mma_model/observability/publish_guard.py and                        *)
(* promote_release_json_to_public_root of publish/public_sync.py, in the   *)
(* order in which handle_publish (jobs/handlers.py) and publish_dashboard  *)
(* (publish/publisher.py) call them.                                       *)
(*                                                                         *)
(* A file is its name and the version of the publication that wrote it;    *)
(* a directory is None or a function from its file names to versions.      *)
(***************************************************************************)
EXTENDS Naturals

CONSTANTS
  Publishers,     \* process ids under which a tick or `mma-model publish` runs:
                  \* one is used again, each container counts its own anew
  Releases,       \* release ids
  Files,          \* DASHBOARD_RELEASE_FILES
  None,           \* no directory, no release
  Exclusive,      \* publishers hold the host's writer lock
  MaxVersions, MaxCrashes, MaxFaults    \* bounds of the model

ASSUME PublishAssumption ==
  /\ Files # {} /\ None \notin Releases
  /\ Exclusive \in BOOLEAN
  /\ {MaxVersions, MaxCrashes, MaxFaults} \subseteq Nat
  /\ \A S \in SUBSET Files : None \notin [S -> Nat]

VARIABLES
  final, staging, old, current,     \* releases/ and the pointer
  live, candidate, aside,           \* live/ and its swap
  pc, rel, ver,                     \* a publisher's place, release and version
  todo,                             \* the files it has still to write or copy
  kept,                             \* backup is not None in _promote_staging
  valid, drafted,                   \* versions the validator accepts; the latest
  crashes, faults

releaseDirs == <<final, staging, old, current>>
liveDirs    == <<live, candidate, aside>>
draftVars   == <<rel, ver, valid, drafted>>
faultVars   == <<crashes, faults>>
vars == <<releaseDirs, liveDirs, pc, todo, kept, draftVars, faultVars>>
-----------------------------------------------------------------------------
Versions == 0 .. MaxVersions

Dir == {None} \cup UNION { [S -> Versions] : S \in SUBSET Files }

Content(v) == [f \in Files |-> v]

Empty == [f \in {} |-> 0]

WithFile(d, f, v) == [g \in DOMAIN d \cup {f} |-> IF g = f THEN v ELSE d[g]]

(* What an rmtree that is cut short may leave of a directory.              *)
Parts(d) ==
  IF d = None THEN {None}
  ELSE {None} \cup { [f \in S |-> d[f]] : S \in SUBSET DOMAIN d }

HasFiles(d) == d # None /\ Files \subseteq DOMAIN d

(* required_files and the schema validator, on the files as they are.      *)
Valid(d) == HasFiles(d) /\ \A f \in DOMAIN d : d[f] \in valid

Goto(p, label) == pc' = [pc EXCEPT ![p] = label]

At(p, label) == pc[p] = label
-----------------------------------------------------------------------------

(* run-job.sh lets one writer at a time in.                                *)
LockFree == \A q \in Publishers : At(q, "idle")

(* A publication begins, under any process id, one that a publication of   *)
(* an earlier container had too: its release files are built, valid or not.*)
Begin(p, r) ==
  /\ At(p, "idle") /\ drafted < MaxVersions
  /\ Exclusive => LockFree
  /\ drafted' = drafted + 1
  /\ valid' \in {valid, valid \cup {drafted + 1}}
  /\ ver' = [ver EXCEPT ![p] = drafted + 1]
  /\ rel' = [rel EXCEPT ![p] = r]
  /\ Goto(p, "stage")
  /\ UNCHANGED <<releaseDirs, liveDirs, todo, kept, faultVars>>

LastFile(p, f) == todo[p] = {f}

(* write_candidate: a new staging directory, then the files one by one.    *)
Stage(p) ==
  /\ At(p, "stage")
  /\ staging' = [staging EXCEPT ![rel[p]] = Empty]
  /\ todo' = [todo EXCEPT ![p] = Files]
  /\ Goto(p, "write")
  /\ UNCHANGED <<final, old, current, liveDirs, kept, draftVars, faultVars>>

WriteFile(p, f) ==
  /\ At(p, "write") /\ f \in todo[p]
  /\ staging' = [staging EXCEPT ![rel[p]] =
                   WithFile(IF @ = None THEN Empty ELSE @, f, ver[p])]
  /\ todo' = [todo EXCEPT ![p] = @ \ {f}]
  /\ Goto(p, IF LastFile(p, f) THEN "validate" ELSE "write")
  /\ UNCHANGED <<final, old, current, liveDirs, kept, draftVars, faultVars>>

(* Mutant: only the presence of the required files is checked.             *)
FilesPresent(p) == HasFiles(staging[rel[p]])

Accepts(p) == Valid(staging[rel[p]])

(* validate_candidate; a candidate that fails is removed again.            *)
Validate(p) ==
  /\ At(p, "validate")
  /\ IF Accepts(p)
     THEN Goto(p, "retire") /\ UNCHANGED staging
     ELSE Goto(p, "idle") /\ staging' = [staging EXCEPT ![rel[p]] = None]
  /\ UNCHANGED <<final, old, current, liveDirs, todo, kept, draftVars, faultVars>>

(* Mutant: the .old directory of an earlier publication is not cleared.    *)
KeepStale(p) == old[rel[p]] = None

(* rmtree of a backup that is in the way of os.replace(final, backup).     *)
BackupCleared(p) == TRUE

(* Mutant: a release in the way is deleted instead of renamed.             *)
Deleted(r) == None

SetAside(r) == final[r]

(* _promote_staging: a release of this id is renamed aside.                *)
RetireFinal(p) ==
  LET r == rel[p] IN
  /\ At(p, "retire")
  /\ kept' = [kept EXCEPT ![p] = final[r] # None]
  /\ IF final[r] # None
     THEN /\ BackupCleared(p)
          /\ old' = [old EXCEPT ![r] = SetAside(r)]
          /\ final' = [final EXCEPT ![r] = None]
     ELSE UNCHANGED <<old, final>>
  /\ Goto(p, "install")
  /\ UNCHANGED <<staging, current, liveDirs, todo, draftVars, faultVars>>

(* os.replace(staging, final): a directory only replaces nothing.          *)
InstallFinal(p) ==
  LET r == rel[p] IN
  /\ At(p, "install") /\ staging[r] # None /\ final[r] = None
  /\ final' = [final EXCEPT ![r] = staging[r]]
  /\ staging' = [staging EXCEPT ![r] = None]
  /\ Goto(p, "drop")
  /\ UNCHANGED <<old, current, liveDirs, todo, kept, draftVars, faultVars>>

(* An OSError of this process's file operation.                            *)
Fault == faults < MaxFaults /\ faults' = faults + 1

(* The rename fails: the release that was set aside is put back.           *)
InstallFails(p) ==
  LET r == rel[p] IN
  /\ At(p, "install")
  /\ \/ (staging[r] = None \/ final[r] # None) /\ UNCHANGED faults
     \/ Fault
  /\ IF kept[p] /\ old[r] # None /\ final[r] = None
     THEN /\ final' = [final EXCEPT ![r] = old[r]]
          /\ old' = [old EXCEPT ![r] = None]
     ELSE UNCHANGED <<final, old>>
  /\ Goto(p, "idle")
  /\ UNCHANGED <<staging, current, liveDirs, todo, kept, draftVars, crashes>>

DropOld(p) ==
  /\ At(p, "drop")
  /\ old' = IF kept[p] THEN [old EXCEPT ![rel[p]] = None] ELSE old
  /\ Goto(p, "point")
  /\ UNCHANGED <<final, staging, current, liveDirs, todo, kept, draftVars, faultVars>>

(* promote: os.replace of the current file, if the release is there.       *)
Point(p) ==
  /\ At(p, "point")
  /\ IF final[rel[p]] # None
     THEN current' = rel[p] /\ Goto(p, "prepare")
     ELSE UNCHANGED current /\ Goto(p, "idle")
  /\ UNCHANGED <<final, staging, old, liveDirs, todo, kept, draftVars, faultVars>>
-----------------------------------------------------------------------------
(* promote_release_json_to_public_root: the release has all files; what an *)
(* earlier process left of live.candidate/ and of this pid's backup goes.  *)
Prepare(p) ==
  /\ At(p, "prepare")
  /\ IF HasFiles(final[rel[p]])
     THEN /\ candidate' = Empty
          /\ aside' = [aside EXCEPT ![p] = None]
          /\ todo' = [todo EXCEPT ![p] = Files]
          /\ Goto(p, "copy")
     ELSE Goto(p, "idle") /\ UNCHANGED <<candidate, aside, todo>>
  /\ UNCHANGED <<releaseDirs, live, kept, draftVars, faultVars>>

CanCopy(p, f) ==
  /\ candidate # None
  /\ final[rel[p]] # None /\ f \in DOMAIN final[rel[p]]

AllCopied(p, f) == todo[p] = {f}

CopyFile(p, f) ==
  /\ At(p, "copy") /\ f \in todo[p] /\ CanCopy(p, f)
  /\ candidate' = WithFile(candidate, f, final[rel[p]][f])
  /\ todo' = [todo EXCEPT ![p] = @ \ {f}]
  /\ Goto(p, IF AllCopied(p, f) THEN "liveRetire" ELSE "copy")
  /\ UNCHANGED <<releaseDirs, live, aside, kept, draftVars, faultVars>>

(* PublicSyncError: live.candidate/ is removed, the publication succeeds   *)
(* with a warning.                                                         *)
CopyFails(p) ==
  /\ pc[p] \in {"copy", "liveRetire"}
  /\ \/ At(p, "copy") /\ (\E f \in todo[p] : ~CanCopy(p, f)) /\ UNCHANGED faults
     \/ At(p, "liveRetire") /\ live # None /\ aside[p] # None /\ UNCHANGED faults
     \/ Fault
  /\ candidate' = None
  /\ Goto(p, "idle")
  /\ UNCHANGED <<releaseDirs, live, aside, todo, kept, draftVars, crashes>>

RetireLive(p) ==
  /\ At(p, "liveRetire") /\ (live # None => aside[p] = None)
  /\ aside' = IF live # None THEN [aside EXCEPT ![p] = live] ELSE aside
  /\ live' = None
  /\ Goto(p, "liveInstall")
  /\ UNCHANGED <<releaseDirs, candidate, todo, kept, draftVars, faultVars>>

InstallLive(p) ==
  /\ At(p, "liveInstall") /\ candidate # None /\ live = None
  /\ live' = candidate /\ candidate' = None
  /\ Goto(p, "liveDrop")
  /\ UNCHANGED <<releaseDirs, aside, todo, kept, draftVars, faultVars>>

(* Mutant: the backup is removed where it should be put back.              *)
BackupRemoved(p) == aside' = [aside EXCEPT ![p] = None] /\ UNCHANGED live

(* The except branch around the swap.                                      *)
RestoreLive(p) ==
  IF aside[p] # None /\ live = None
  THEN live' = aside[p] /\ aside' = [aside EXCEPT ![p] = None]
  ELSE UNCHANGED <<live, aside>>

InstallLiveFails(p) ==
  /\ At(p, "liveInstall")
  /\ \/ (candidate = None \/ live # None) /\ UNCHANGED faults
     \/ Fault
  /\ RestoreLive(p)
  /\ candidate' = None
  /\ Goto(p, "idle")
  /\ UNCHANGED <<releaseDirs, todo, kept, draftVars, crashes>>

DropAside(p) ==
  /\ At(p, "liveDrop")
  /\ aside' = [aside EXCEPT ![p] = None]
  /\ Goto(p, "idle")
  /\ UNCHANGED <<releaseDirs, live, candidate, todo, kept, draftVars, faultVars>>
-----------------------------------------------------------------------------
(* The process is killed (run-job.sh's time limit, a reboot), or dies of   *)
(* an OSError it does not handle, before its next call, or within an       *)
(* rmtree, of which a part may then be left.                               *)
Crash(p) ==
  LET r == rel[p] IN
  /\ ~At(p, "idle") /\ crashes < MaxCrashes
  /\ \/ UNCHANGED <<staging, old, candidate, aside>>
     \/ /\ At(p, "stage")
        /\ \E d \in Parts(staging[r]) : staging' = [staging EXCEPT ![r] = d]
        /\ UNCHANGED <<old, candidate, aside>>
     \/ /\ (At(p, "retire") /\ final[r] # None) \/ (At(p, "drop") /\ kept[p])
        /\ \E d \in Parts(old[r]) : old' = [old EXCEPT ![r] = d]
        /\ UNCHANGED <<staging, candidate, aside>>
     \/ /\ At(p, "prepare") /\ HasFiles(final[r])
        /\ candidate' \in Parts(candidate)
        /\ UNCHANGED <<staging, old, aside>>
     \/ /\ (At(p, "prepare") /\ HasFiles(final[r])) \/ At(p, "liveDrop")
        /\ \E d \in Parts(aside[p]) : aside' = [aside EXCEPT ![p] = d]
        /\ candidate' = IF At(p, "prepare") THEN None ELSE candidate
        /\ UNCHANGED <<staging, old>>
  /\ crashes' = crashes + 1
  /\ Goto(p, "idle")
  /\ UNCHANGED <<final, current, live, todo, kept, draftVars, faults>>
-----------------------------------------------------------------------------
Init ==
  /\ final = [r \in Releases |-> None] /\ staging = final /\ old = final
  /\ current = None
  /\ live = None /\ candidate = None
  /\ aside = [p \in Publishers |-> None]
  /\ pc = [p \in Publishers |-> "idle"]
  /\ rel = [p \in Publishers |-> None]
  /\ ver = [p \in Publishers |-> 0]
  /\ todo = [p \in Publishers |-> {}]
  /\ kept = [p \in Publishers |-> FALSE]
  /\ valid = {} /\ drafted = 0
  /\ crashes = 0 /\ faults = 0

Release(p) ==
  \/ Stage(p) \/ (\E f \in Files : WriteFile(p, f)) \/ Validate(p)
  \/ RetireFinal(p) \/ InstallFinal(p) \/ InstallFails(p) \/ DropOld(p) \/ Point(p)

Promote(p) ==
  \/ Prepare(p) \/ (\E f \in Files : CopyFile(p, f)) \/ CopyFails(p)
  \/ RetireLive(p) \/ InstallLive(p) \/ InstallLiveFails(p) \/ DropAside(p)

Next == \E p \in Publishers :
  (\E r \in Releases : Begin(p, r)) \/ Release(p) \/ Promote(p) \/ Crash(p)

Spec == Init /\ [][Next]_vars

(* A publication that has begun goes on unless it is killed.               *)
FairSpec == Spec /\ \A p \in Publishers : WF_vars(Release(p) \/ Promote(p))
=============================================================================
