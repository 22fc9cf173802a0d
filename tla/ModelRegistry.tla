---------------------------- MODULE ModelRegistry ---------------------------
(***************************************************************************)
(* The champion of the model registry: a YAML file that names the serving  *)
(* artifact, and the append-only table of the decisions that put it there. *)
(* retrain, promote and rollback each load the file, decide, write it back *)
(* and then append and commit their decision.                              *)
(*                                                                         *)
(* Source: src/mma_model/modeling/registry.py and promotion.py, the model  *)
(* commands of cli.py, handle_retrain of jobs/handlers.py.                 *)
(*                                                                         *)
(* An artifact stands for its digest; its specification is the pair of     *)
(* spec_id and config_hash.  What training yields and what the gates find  *)
(* is open.                                                                *)
(***************************************************************************)
EXTENDS Naturals, Sequences, FiniteSets, Nothing

CONSTANTS
  Artifacts,      \* digests
  SpecOf,         \* the specification of each
  First,          \* the champion of the packaged registry
  Commands,       \* processes that run a registry command
  OneAtATime,     \* commands do not overlap
  MaxDecisions, MaxDeaths   \* bounds of the model

(* RegistryState, the rows of the decisions and what a command keeps.      *)
RegistryFile ==
  [champion : Artifacts, prior : Artifacts \cup {None}, challengers : SUBSET Artifacts]

DecisionRow ==
  [action : {"retrain", "promote", "rollback", "reject", "shadow"},
   digest : Artifacts, before : Artifacts]

RegistryCommand ==
  [op : {"retrain", "promote", "rollback"},
   pc : {"loaded", "trained", "save", "write", "commit"},
   file : RegistryFile, digest : Artifacts \cup {None}, before : Artifacts,
   row : DecisionRow \cup {None}]

ASSUME RegistryAssumption ==
  /\ First \in Artifacts /\ DOMAIN SpecOf = Artifacts
  /\ None \notin Artifacts \cup RegistryFile \cup DecisionRow \cup RegistryCommand
  /\ OneAtATime \in BOOLEAN /\ {MaxDecisions, MaxDeaths} \subseteq Nat

VARIABLES
  yaml,           \* the registry file, or None while it is half written
  store,          \* the artifacts in artifacts_dir
  decisions,      \* the committed rows of model_registry_decisions
  command,        \* what each process is doing
  passed,         \* the artifacts the gates have passed (history)
  unlogged,       \* the champions of commands that died (history)
  deaths          \* how many died

registryVars ==
  <<yaml, store, decisions, command, passed, unlogged, deaths>>
-----------------------------------------------------------------------------
Entry(champion, prior, challengers) ==
  [champion |-> champion, prior |-> prior, challengers |-> challengers]

Decision(action, digest, before) ==
  [action |-> action, digest |-> digest, before |-> before]

(* The decisions of the champion's lane (a retrain of another specification*)
(* is a decision of the shadow lane).                                      *)
Activations == {"retrain", "promote", "rollback"}

RegistryInit ==
  /\ yaml = Entry(First, None, {})
  /\ store = {First}
  /\ decisions = <<>>
  /\ command = [c \in Commands |-> None]
  /\ passed = {} /\ unlogged = {} /\ deaths = 0

At(c, pc) == command[c] # None /\ command[c].pc = pc
Op(c, op) == command[c] # None /\ command[c].op = op

(* RegistryEntry.promote, with the champion kept as the prior one.         *)
Promoted(file, a) == Entry(a, file.champion, file.challengers \ {a})
Refreshed(file, a) == Entry(a, file.champion, file.challengers)

(* upsert_challenger.                                                      *)
Challenged(file, a) == [file EXCEPT !.challengers = @ \cup {a}]

(* load_model_registry; half a file raises, and nothing has changed.       *)
Load(c) ==
  /\ command[c] = None /\ yaml # None /\ Len(decisions) < MaxDecisions
  /\ OneAtATime => \A d \in Commands : command[d] = None
  /\ \E op \in {"retrain", "promote", "rollback"} :
       command' = [command EXCEPT ![c] =
         [op |-> op, pc |-> "loaded", file |-> yaml, digest |-> None,
          before |-> yaml.champion, row |-> None]]
  /\ UNCHANGED <<yaml, store, decisions, passed, unlogged, deaths>>

(* The decision is appended to the open transaction.                       *)
Decided(c, row) == [command EXCEPT ![c].pc = "commit", ![c].row = row]

(* What is to be written, and the decision that goes with it.              *)
Saving(c, file, row) ==
  [command EXCEPT ![c].pc = "save", ![c].file = file, ![c].row = row]

(* The runner's artifact goes into the store under its digest.             *)
Train(c) ==
  /\ Op(c, "retrain") /\ At(c, "loaded")
  /\ \E a \in Artifacts :
       /\ store' = store \cup {a}
       /\ command' = [command EXCEPT ![c].pc = "trained", ![c].digest = a]
  /\ UNCHANGED <<yaml, decisions, passed, unlogged, deaths>>

(* The holdout, a training that raises and an artifact that does not load: *)
(* the incumbent stays and the rejection is committed.                     *)
TrainFails(c) ==
  /\ Op(c, "retrain") /\ At(c, "loaded")
  /\ command' = Decided(c, Decision("reject", command[c].before,
                                    command[c].before))
  /\ UNCHANGED <<yaml, store, decisions, passed, unlogged, deaths>>

(* same_spec: with the champion that was loaded before training.           *)
SameSpec(c) == SpecOf[command[c].digest] = SpecOf[command[c].before]

(* register_shadow_challenger loads the file again.                        *)
RegisterShadow(c) ==
  /\ Op(c, "retrain") /\ At(c, "trained") /\ ~SameSpec(c) /\ yaml # None
  /\ command' = Saving(c, Challenged(yaml, command[c].digest),
       Decision("shadow", command[c].digest, yaml.champion))
  /\ UNCHANGED <<yaml, store, decisions, passed, unlogged, deaths>>

(* The gates pass: the champion of the file as it is now makes way.        *)
ActivateChampion(c) ==
  /\ Op(c, "retrain") /\ At(c, "trained") /\ SameSpec(c) /\ yaml # None
  /\ passed' = passed \cup {command[c].digest}
  /\ command' = Saving(c, Refreshed(yaml, command[c].digest),
       Decision("retrain", command[c].digest, command[c].before))
  /\ UNCHANGED <<yaml, store, decisions, unlogged, deaths>>

GatesRefuseRetrain(c) ==
  /\ Op(c, "retrain") /\ At(c, "trained") /\ SameSpec(c)
  /\ command' = Decided(c, Decision("reject", command[c].digest,
                                    command[c].before))
  /\ UNCHANGED <<yaml, store, decisions, passed, unlogged, deaths>>

Verified(a) == passed \cup {a}

(* promote_candidate, into the file as it was loaded.                      *)
Promote(c) ==
  /\ Op(c, "promote") /\ At(c, "loaded")
  /\ \E a \in store :
       /\ passed' = Verified(a)
       /\ command' = Saving(c, Promoted(command[c].file, a),
            Decision("promote", a, command[c].before))
  /\ UNCHANGED <<yaml, store, decisions, unlogged, deaths>>

(* The gates refuse: the row is appended and flushed, and then             *)
(* PromotionGateError leaves the command's session without a commit.       *)
GatesRefusePromote(c) ==
  /\ Op(c, "promote") /\ At(c, "loaded")
  /\ store # {}
  /\ command' = [command EXCEPT ![c] = None]
  /\ UNCHANGED <<yaml, store, decisions, passed, unlogged, deaths>>

(* Mutant: the row of a rollback names what it replaced.                   *)
RowOfReplaced(file) == Decision("rollback", file.champion, file.prior)

RollbackRow(file) == Decision("rollback", file.prior, file.champion)

(* rollback_champion; without a prior champion it raises.                  *)
Rollback(c) ==
  /\ Op(c, "rollback") /\ At(c, "loaded")
  /\ LET file == command[c].file IN
       command' = IF file.prior = None
                  THEN [command EXCEPT ![c] = None]
                  ELSE Saving(c, Entry(file.prior, file.champion,
                                       file.challengers), RollbackRow(file))
  /\ UNCHANGED <<yaml, store, decisions, passed, unlogged, deaths>>

(* save_model_registry: write_text truncates the file and then fills it.   *)
Truncate(c) ==
  /\ At(c, "save")
  /\ yaml' = None
  /\ command' = [command EXCEPT ![c].pc = "write"]
  /\ UNCHANGED <<store, decisions, passed, unlogged, deaths>>

Fill(c) ==
  /\ At(c, "write")
  /\ yaml' = command[c].file
  /\ command' = [command EXCEPT ![c].pc = "commit"]
  /\ UNCHANGED <<store, decisions, passed, unlogged, deaths>>

CommitDecision(c) ==
  /\ At(c, "commit")
  /\ decisions' = Append(decisions, command[c].row)
  /\ command' = [command EXCEPT ![c] = None]
  /\ UNCHANGED <<yaml, store, passed, unlogged, deaths>>

(* A process that is killed keeps what it wrote and loses its decision.    *)
Die(c) ==
  /\ command[c] # None /\ deaths < MaxDeaths
  /\ deaths' = deaths + 1
  /\ unlogged' = unlogged \cup
       (IF At(c, "commit") /\ command[c].row.action \in Activations
        THEN {command[c].file.champion} ELSE {})
  /\ command' = [command EXCEPT ![c] = None]
  /\ UNCHANGED <<yaml, store, decisions, passed>>

RegistryNext == \E c \in Commands :
  \/ Load(c) \/ Train(c) \/ TrainFails(c) \/ RegisterShadow(c)
  \/ ActivateChampion(c) \/ GatesRefuseRetrain(c) \/ Promote(c)
  \/ GatesRefusePromote(c) \/ Rollback(c) \/ Truncate(c) \/ Fill(c)
  \/ CommitDecision(c) \/ Die(c)

RegistrySpec == RegistryInit /\ [][RegistryNext]_registryVars
-----------------------------------------------------------------------------
LastActivation ==
  LET I == { i \in DOMAIN decisions : decisions[i].action \in Activations } IN
  IF I = {} THEN Decision("none", First, None)
  ELSE decisions[CHOOSE i \in I : \A j \in I : j <= i]

(* Whatever overlaps or dies, the file never names a champion, or one to   *)
(* roll back to, that the gates have not passed.  And when no command is   *)
(* under way, the last activation in the table names the champion of the   *)
(* file, and what it replaced is what a rollback brings back; only a       *)
(* command that was killed after its write makes the two differ.           *)
DecisionsExplainFile ==
  yaml # None =>
    /\ {yaml.champion, yaml.prior} \subseteq passed \cup {First, None}
    /\ \/ \E c \in Commands : command[c] # None
       \/ yaml.champion \in unlogged \/ yaml.prior \in unlogged
       \/ LastActivation.digest = yaml.champion /\ LastActivation.before = yaml.prior
=============================================================================
