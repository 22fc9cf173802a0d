--------------------------- MODULE LastKnownGood ---------------------------
(***************************************************************************)
(* What a publication promises its readers: there is one good version to   *)
(* serve, it was approved by the validator, and it is only ever replaced   *)
(* by a newer one - never by nothing, by a draft or by an older version.   *)
(*                                                                         *)
(* Source: FilesystemPublishPointer of                                     *)
(* src/mma_model/observability/publish_guard.py.                           *)
(***************************************************************************)
EXTENDS Naturals

VARIABLES approved,     \* the versions the validator accepts
          lkg           \* the last known good version, 0 before the first

LkgInit == approved = {} /\ lkg = 0

Draft == lkg' = lkg /\ approved \subseteq approved'

Replace == lkg' \in approved /\ lkg < lkg' /\ approved' = approved

LkgSpec == LkgInit /\ [][Draft \/ Replace]_<<approved, lkg>>
=============================================================================
