--------------------------- MODULE ArtifactFiles ----------------------------
(***************************************************************************)
(* The files of the artifacts directory, a payload and a sidecar manifest  *)
(* for each artifact, the commands that write them and may be killed in    *)
(* between, and the backup that copies them after the database while the   *)
(* commands go on.                                                         *)
(*                                                                         *)
(* Source: src/mma_model/modeling/artifacts.py, joint.py, calibration.py   *)
(* and registry.py, src/mma_model/backup/service.py, deploy/backup.sh and  *)
(* deploy/restore.sh.                                                      *)
(*                                                                         *)
(* What a payload contains is its digest; a calibrated payload is <<c>>,   *)
(* from the payload c.  No file is written under another name and renamed: *)
(* between the truncation and the last byte it is Torn.                    *)
(***************************************************************************)
EXTENDS Naturals, Sequences, Nothing

CONSTANTS
  Digests, JointDigests,   \* payloads that training yields, the joint ones
  Torn,                    \* a file that is not completely written
  Workers,                 \* processes, each of which runs one command
  MaxKills                 \* bound of the model

VARIABLES
  files,     \* what each file of the directory contains, or None
  named,     \* the digests that committed decisions name
  worker,    \* what each process is doing
  kills,
  bundle     \* the backup

filesVars == <<files, named, worker, kills, bundle>>
-----------------------------------------------------------------------------
(* The digest store, the default output of train and of calibrate, and the *)
(* scratch of each retrain (named after the second it began).              *)
Stems == Digests \cup Workers \cup {"output", "output.calibrated"}

Parts == {"payload", "manifest"}

Names == Stems \X Parts

Calibrated == {<<d>> : d \in Digests}

ASSUME FilesAssumption ==
  /\ JointDigests \subseteq Digests /\ MaxKills \in Nat
  /\ Digests \cap (Workers \cup Calibrated) = {}
  /\ {"output", "output.calibrated"} \cap (Digests \cup Workers) = {}
  /\ {None, Torn} \cap (Digests \cup Calibrated) = {} /\ None \notin Names \cup {Torn, "decide"}

IsJoint(c) == c \in JointDigests \cup {<<d>> : d \in JointDigests}

(* The sidecar is there, and both files parse, with their calibration and  *)
(* bootstrap records.                                                      *)
Parses(fs, stem) ==
  /\ fs[<<stem, "manifest">>] \notin {None, Torn}
  /\ fs[<<stem, "payload">>] \notin {None, Torn}

(* load_artifact and load_joint_artifact: the checksum holds, and the      *)
(* payload is of the family asked for.                                     *)
Loaded(fs, stem, joint) ==
  LET c == fs[<<stem, "payload">>] IN
  IF Parses(fs, stem) /\ c = fs[<<stem, "manifest">>] /\ IsJoint(c) = joint
  THEN c ELSE None

(* A process before and after its command.                                 *)
Idle(command) ==
  [command |-> command, then |-> None, todo |-> << >>, open |-> FALSE, digest |-> None]

FilesInit ==
  /\ files = [n \in Names |-> None]
  /\ named = {} /\ kills = 0
  /\ worker = [p \in Workers |-> Idle("new")]
  /\ bundle = [step |-> "idle", named |-> {}, todo |-> {}, calm |-> FALSE,
               seen |-> None, before |-> None,
               files |-> [n \in Names |-> None]]

Running(p) == worker[p].command \notin {"new", "over"}

(* A file to write, with its content or the file it is a copy of.          *)
Put(name, content) == [name |-> name, content |-> content, from |-> None]
CopyOf(name, from) == [name |-> name, content |-> None, from |-> from]

(* save_artifact, save_joint_artifact, save_calibrated_artifact: the       *)
(* payload and then the sidecar.                                           *)
Save(stem, c) == << Put(<<stem, "payload">>, c), Put(<<stem, "manifest">>, c) >>

Doing(p, command, then, todo, digest) ==
  [worker EXCEPT ![p] =
     [Idle(command) EXCEPT !.then = then, !.todo = todo, !.digest = digest]]

Ended(p) == [worker EXCEPT ![p] = Idle("over")]

(* model train, with its default output.                                   *)
TrainCommand(p) ==
  /\ worker[p].command = "new"
  /\ \E c \in Digests : worker' = Doing(p, "train", "end", Save("output", c), c)
  /\ UNCHANGED <<files, named, kills, bundle>>

(* model calibrate: what is loaded gets its calibration; what does not     *)
(* load ends the command.                                                  *)
CalibrateCommand(p) ==
  /\ worker[p].command = "new"
  /\ \E joint \in BOOLEAN :
       LET c == Loaded(files, "output", joint) IN
       /\ c # None
       /\ worker' = Doing(p, "calibrate", "end", Save("output.calibrated", <<c>>), c)
  /\ UNCHANGED <<files, named, kills, bundle>>

(* retrain_fixed_spec trains into its scratch file ...                     *)
RetrainCommand(p) ==
  /\ worker[p].command = "new"
  /\ \E c \in Digests \ JointDigests :
       worker' = Doing(p, "retrain", "store", Save(p, c), c)
  /\ UNCHANGED <<files, named, kills, bundle>>

(* ... and store_artifact_by_digest loads it, copies both files under the  *)
(* digest, over what is there, and loads the copy.                         *)
Store(p) ==
  /\ Running(p) /\ worker[p].then = "store" /\ worker[p].todo = << >>
  /\ LET c == Loaded(files, p, FALSE) IN
       worker' = IF c = None THEN Ended(p)
                 ELSE Doing(p, "retrain", "decide",
                        << CopyOf(<<c, "payload">>, <<p, "payload">>),
                           CopyOf(<<c, "manifest">>, <<p, "manifest">>) >>, c)
  /\ UNCHANGED <<files, named, kills, bundle>>

(* The decision that names the digest is committed after the copy loaded.  *)
CommitRow(p) ==
  /\ Running(p) /\ worker[p].then = "decide" /\ worker[p].todo = << >>
  /\ named' = IF Loaded(files, worker[p].digest, FALSE) = None THEN named
              ELSE named \cup {worker[p].digest}
  /\ worker' = Ended(p)
  /\ UNCHANGED <<files, kills, bundle>>

Finish(p) ==
  /\ Running(p) /\ worker[p].then = "end" /\ worker[p].todo = << >>
  /\ worker' = Ended(p)
  /\ UNCHANGED <<files, named, kills, bundle>>

(* write_bytes and copy2 truncate the file, ...                            *)
OpenFile(p) ==
  /\ Running(p) /\ worker[p].todo # << >> /\ ~worker[p].open
  /\ files' = [files EXCEPT ![Head(worker[p].todo).name] = Torn]
  /\ worker' = [worker EXCEPT ![p].open = TRUE]
  /\ UNCHANGED <<named, kills, bundle>>

(* ... and fill it.                                                        *)
FillFile(p) ==
  /\ Running(p) /\ worker[p].open
  /\ LET put == Head(worker[p].todo) IN
       files' = [files EXCEPT ![put.name] =
                   IF put.from = None THEN put.content ELSE files[put.from]]
  /\ worker' = [worker EXCEPT ![p].open = FALSE, ![p].todo = Tail(@)]
  /\ UNCHANGED <<named, kills, bundle>>

KillWorker(p) ==
  /\ Running(p) /\ kills < MaxKills
  /\ kills' = kills + 1 /\ worker' = Ended(p)
  /\ UNCHANGED <<files, named, bundle>>
-----------------------------------------------------------------------------
(* create_backup_bundle: first the database (online_backup_sqlite), ...    *)
CopyDatabase ==
  /\ bundle.step = "idle"
  /\ bundle' = [bundle EXCEPT !.step = "list", !.named = named]
  /\ UNCHANGED <<files, named, worker, kills>>

(* ... then _copy_artifacts, with the list of the files made at once.      *)
ListFiles ==
  /\ bundle.step = "list"
  /\ bundle' = [bundle EXCEPT !.step = "copy",
                  !.todo = { n \in Names : files[n] # None }, !.seen = worker,
                  !.before = files]
  /\ UNCHANGED <<files, named, worker, kills>>

(* In the order of the names, x.json before x.manifest.json.               *)
CopyFile ==
  /\ bundle.step = "copy"
  /\ \E n \in bundle.todo :
       /\ n[2] = "manifest" => <<n[1], "payload">> \notin bundle.todo
       /\ bundle' = [bundle EXCEPT !.todo = @ \ {n}, !.files[n] = files[n]]
  /\ UNCHANGED <<files, named, worker, kills>>

(* Mutant: the database is copied after the artifacts.                     *)
DatabaseLast == named

DatabaseFirst == bundle.named

(* backup.sh hands the bundle to restic.  It was calm if nothing ran while *)
(* the files were copied.                                                  *)
CloseBundle ==
  /\ bundle.step = "copy" /\ bundle.todo = {}
  /\ bundle' = [bundle EXCEPT !.step = "done", !.named = DatabaseFirst,
       !.calm = worker = bundle.seen /\ \A p \in Workers : ~Running(p)]
  /\ UNCHANGED <<files, named, worker, kills>>

(* verify_restored_bundle, as restore.sh calls it: every payload with a    *)
(* sidecar must load as a ridge artifact.                                  *)
Accepts(fs) ==
  \A stem \in Stems :
    (\A part \in Parts : fs[<<stem, part>>] # None)
      => Loaded(fs, stem, FALSE) # None

FilesNext ==
  \/ \E p \in Workers :
       \/ TrainCommand(p) \/ CalibrateCommand(p) \/ RetrainCommand(p) \/ Store(p) \/ CommitRow(p)
       \/ Finish(p) \/ OpenFile(p) \/ FillFile(p) \/ KillWorker(p)
  \/ CopyDatabase \/ ListFiles \/ CopyFile \/ CloseBundle

FilesSpec == FilesInit /\ [][FilesNext]_filesVars
-----------------------------------------------------------------------------
(* A backup made beside training commands holds both files of every        *)
(* artifact that a decision of its database names, and they load as that   *)
(* artifact unless a writer had one of them open; and one during which     *)
(* nothing ran is accepted by restore.sh if all that was in the directory  *)
(* could be loaded ("Assemble a recoverable bundle", service.py:136).      *)
RecoverableBundle ==
  bundle.step = "done" =>
    /\ \A d \in bundle.named :
         LET both == {bundle.files[<<d, "payload">>], bundle.files[<<d, "manifest">>]}
         IN /\ None \notin both
            /\ Torn \notin both => Loaded(bundle.files, d, FALSE) = d
    /\ bundle.calm /\ Accepts(bundle.before) => Accepts(bundle.files)
=============================================================================
