------------------------ MODULE PublishPointerProps ------------------------
(***************************************************************************)
(* What readers of the publish root may rely on.                           *)
(***************************************************************************)
EXTENDS PublishPointer

Labels == { "idle", "stage", "write", "validate", "retire", "install", "drop",
            "point", "prepare", "copy", "liveRetire", "liveInstall", "liveDrop" }

(* Every variable keeps its type, running publishers have a release to     *)
(* publish, and where the lock is used there is one of them.               *)
PubTypeOK ==
  /\ {final, staging, old} \subseteq [Releases -> Dir]
  /\ current \in Releases \cup {None}
  /\ live \in Dir /\ candidate \in Dir /\ aside \in [Publishers -> Dir]
  /\ pc \in [Publishers -> Labels]
  /\ rel \in [Publishers -> Releases \cup {None}]
  /\ ver \in [Publishers -> Versions] /\ todo \in [Publishers -> SUBSET Files]
  /\ kept \in [Publishers -> BOOLEAN]
  /\ valid \subseteq Versions /\ drafted \in Versions
  /\ crashes \in Nat /\ faults \in Nat
  /\ \A p \in Publishers : ~At(p, "idle") => rel[p] \in Releases
  /\ Exclusive => \A p, q \in Publishers : At(p, "idle") \/ At(q, "idle") \/ p = q

(* A directory that holds one whole publication the validator accepted.    *)
Whole(d) == \E v \in valid : d = Content(v)

(* The version that current leads to, 0 for none, looked up in .old if the *)
(* release itself is between its two renames.                              *)
VersionOf(d) == IF HasFiles(d) THEN d[CHOOSE f \in Files : TRUE] ELSE 0

Served ==
  IF current = None THEN 0
  ELSE VersionOf(IF final[current] # None THEN final[current] ELSE old[current])

(* The release that current names is never destroyed: kept whole under its *)
(* name or, while it is being replaced or after a crash there, under .old. *)
CurrentKept ==
  current # None =>
    Whole(IF final[current] # None THEN final[current] ELSE old[current])

(* Through all crashes and failed publications, what current leads to is   *)
(* approved, and only replaced by something newer that is approved too.    *)
Lkg == INSTANCE LastKnownGood WITH approved <- valid, lkg <- Served

RefinesLastKnownGood == Lkg!LkgSpec

(* The web dashboard's directory is absent or one whole publication, never *)
(* files of two of them.                                                   *)
LiveWhole == live # None => Whole(live)

(* Both places a reader may start from lead to one whole publication.      *)
PublishedWhole == CurrentKept /\ LiveWhole

(* Once a whole live/ has been published there is a whole copy of one on   *)
(* the disk, in place or set aside by a swap that was cut short.           *)
LiveSafe == Whole(live) \/ \E p \in Publishers : Whole(aside[p])

(* What public_sync.py says of itself, "Failed sync/promote must leave      *)
(* last-known-good live/ ... in place": once there is a whole copy of live/ *)
(* there is one whenever no publication runs, however the last one ended.  *)
FailedPromoteKeepsLive == [](LiveSafe => [](LockFree => LiveSafe))

(* A publication is about to clear what an earlier process of its id, one  *)
(* that was killed in its swap, set aside: there has been no live/ since.  *)
ClearsTheLastCopy(p) ==
  At(p, "prepare") /\ live = None /\ Whole(aside[p])

(* The only step of any publication, failure or kill that can lose the     *)
(* last whole copy of live/ is that one: no swap loses it, and no cleanup  *)
(* by a publication that does not run under the id of a killed one.        *)
OnlyReusedIdLosesLive ==
  [][LiveSafe => LiveSafe' \/ \E p \in Publishers : ClearsTheLastCopy(p)]_vars

Failures == crashes + faults

(* Nothing that MaxCrashes failed publications leave behind stands in the  *)
(* way of the next one: it gets through to live/, unless it fails itself.  *)
CrashesHeal ==
  \A p \in Publishers, v \in Versions \ {0} :
    (At(p, "stage") /\ ver[p] = v /\ v \in valid /\ Failures = MaxCrashes)
      ~> (live = Content(v) \/ Failures > MaxCrashes)
=============================================================================
