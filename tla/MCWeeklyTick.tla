---------------------------- MODULE MCWeeklyTick ----------------------------
(***************************************************************************)
(* Instances of WeeklyTick small enough for TLC.  The cadence is scaled    *)
(* down but keeps the order of its windows: odds open at T-3, scoring at   *)
(* T-2, the official cutoff at T-1 (T-2 in the punctual instances), results*)
(* from T to T+1, reconciliation at T+2 and T+3.                           *)
(***************************************************************************)
EXTENDS WeeklyTickProps

MCNoFailures == {}

MCFirstStart == [e \in Events |-> 2]

MCEarlyStart == [e \in Events |-> 1]

MCLateStart == [e \in Events |-> 4]

(* Failures that a card's publication has to survive.                      *)
MCCardFailures ==
  { <<"score", "internal">>, <<"recommend", "internal">>,
    <<"identity", "identity_unresolved">> }

(* Failures at the head of both dependency chains.                         *)
MCHeadFailures == { <<"discover", "transient">>, <<"score", "internal">> }

(* Ticks that have begun go on; nothing makes one begin or time pass.      *)
RunningSpec == Spec /\ \A t \in Ticks : WF_vars(TickStep(t))
=============================================================================
