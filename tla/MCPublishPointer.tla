-------------------------- MODULE MCPublishPointer --------------------------
(***************************************************************************)
(* Instances of PublishPointer small enough for TLC: two release ids, two  *)
(* of the seven dashboard files (enough for a tree to be partial or mixed) *)
(* and two or three publications.                                          *)
(***************************************************************************)
EXTENDS PublishPointerProps
=============================================================================
