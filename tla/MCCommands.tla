----------------------------- MODULE MCCommands -----------------------------
(***************************************************************************)
(* Instances of OddsQuota and IdentityReview small enough for TLC, a run   *)
(* of one of them while the other, with which it shares nothing, stands    *)
(* still.                                                                  *)
(*                                                                         *)
(* Odds: two events of the archive, two coming ones that start together    *)
(* and one a slot later, so that a run has several batches and a batch     *)
(* several events.                                                         *)
(*                                                                         *)
(* Reviews: one identity (reviews of different ones share nothing), two    *)
(* fighters and two reviews one after the other, before two operators and  *)
(* a history sync, or before an operator and two syncs.                    *)
(***************************************************************************)
EXTENDS OddsQuotaProps, IdentityReviewProps, TLC

CONSTANTS old, older, main, co, late

StartOf == (older :> 0) @@ (old :> 1) @@ (main :> 2) @@ (co :> 2) @@ (late :> 3)

MCSymmetry ==
  Permutations(Operators) \cup Permutations(Fighters) \cup Permutations(Resolvers)

VARIABLE crew   \* the processes of this run

Crews ==
  {Runs} \cup { Operators \cup {p} : p \in Resolvers } \cup { Resolvers \cup {o} : o \in Operators }

CommandsInit ==
  /\ crew \in Crews
  /\ QuotaInit /\ Init
  /\ crew = Runs => mapping = [i \in Identities |-> None]

OddsStep == crew = Runs /\ QuotaNext /\ UNCHANGED <<crew, vars>>

ReviewStep ==
  /\ (\E o \in Operators \cap crew : Decide(o)) \/ (\E p \in Resolvers \cap crew : ResolverStep(p))
  /\ UNCHANGED <<crew, quotaVars>>

CommandsNext == OddsStep \/ ReviewStep

CommandsSpec == CommandsInit /\ [][CommandsNext]_<<crew, quotaVars, vars>>
=============================================================================
