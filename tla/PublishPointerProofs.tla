------------------------ MODULE PublishPointerProofs ------------------------
(***************************************************************************)
(* Proof that publications, made one at a time, keep the last known good   *)
(* version: whatever crashes and whatever fails, the release current names *)
(* survives, what it leads to is only replaced by something newer that was *)
(* approved, and live/ is one whole publication or absent.                 *)
(*                                                                         *)
(* The inductive invariant follows the publication in progress.  Before    *)
(* its release is installed nothing served is as new as its draft; from    *)
(* then on its release directory holds it; and the directories that are    *)
(* not served yet (staging, live.candidate/) hold exactly the files that   *)
(* have been written.                                                      *)
(***************************************************************************)
EXTENDS PublishPointerProps, TLAPS

Running(p) == ~At(p, "idle")

OneRuns == \A p, q \in Publishers : Running(p) /\ Running(q) => p = q

Good(r) == IF final[r] # None THEN final[r] ELSE old[r]

Shape ==
  /\ DOMAIN final = Releases /\ DOMAIN staging = Releases /\ DOMAIN old = Releases
  /\ final = [r \in Releases |-> final[r]]
  /\ staging = [r \in Releases |-> staging[r]]
  /\ old = [r \in Releases |-> old[r]]
  /\ current \in Releases \cup {None}
  /\ pc \in [Publishers -> Labels]
  /\ rel \in [Publishers -> Releases \cup {None}]
  /\ ver \in [Publishers -> Versions]
  /\ todo \in [Publishers -> SUBSET Files]
  /\ kept \in [Publishers -> BOOLEAN]
  /\ drafted \in Versions /\ valid \subseteq 1 .. drafted
  /\ \A p \in Publishers : Running(p) => rel[p] \in Releases /\ ver[p] = drafted

(* A directory into which all but the files of todo have been written.     *)
Written(d, p) ==
  d # None /\ d = [f \in Files \ todo[p] |-> ver[p]]

Before == {"stage", "write", "validate", "retire", "install"}
Staged == {"retire", "install"}
Installed == {"drop", "point", "prepare", "copy", "liveRetire", "liveInstall", "liveDrop"}

(* What holds of the releases at each place of a publication p.            *)
Progress(p) ==
  /\ pc[p] \in Before =>
       /\ \A r \in Releases : final[r] # Content(drafted)
       /\ current # None => Good(current) # Content(drafted)
  /\ At(p, "write") => Written(staging[rel[p]], p)
  /\ At(p, "validate") => staging[rel[p]] = Content(ver[p])
  /\ pc[p] \in Staged => staging[rel[p]] = Content(ver[p]) /\ ver[p] \in valid
  /\ At(p, "install") =>
       final[rel[p]] = None /\ (kept[p] => Whole(old[rel[p]]))
  /\ pc[p] \in Installed => final[rel[p]] = Content(ver[p]) /\ ver[p] \in valid
  /\ pc[p] \in {"drop", "point"} /\ current \notin {None, rel[p]} =>
       Good(current) # Content(drafted)

ReleaseInv ==
  /\ \A r \in Releases : final[r] # None => Whole(final[r])
  /\ current # None => Whole(Good(current))
  /\ \A p \in Publishers : Progress(p)

(* What holds of live.candidate/ and the backup of live/.                  *)
LiveProgress(p) ==
  /\ At(p, "copy") => Written(candidate, p)
  /\ pc[p] \in {"copy", "liveRetire"} => aside[p] = None
  /\ pc[p] \in {"liveRetire", "liveInstall"} => candidate = Content(ver[p])
  /\ At(p, "liveInstall") /\ aside[p] # None => Whole(aside[p])

LiveInv ==
  /\ LiveWhole
  /\ aside = [i \in Publishers |-> aside[i]]
  /\ \A p \in Publishers : LiveProgress(p)

PubInv == Shape /\ OneRuns /\ ReleaseInv
-----------------------------------------------------------------------------
LEMMA Contents ==
  ASSUME NEW v \in Nat
  PROVE  /\ Content(v) # None /\ HasFiles(Content(v)) /\ VersionOf(Content(v)) = v
         /\ \A w \in Nat : Content(v) = Content(w) => v = w
<1>1. Content(v) \in [Files -> Nat]
  BY DEF Content
<1>2. Content(v) # None
  BY <1>1, PublishAssumption
<1>3. (CHOOSE f \in Files : TRUE) \in Files
  BY PublishAssumption
<1>4. \A w \in Nat : Content(v) = Content(w) => v = w
  BY <1>3 DEF Content
<1>. QED
  BY <1>2, <1>3, <1>4 DEF HasFiles, VersionOf, Content

LEMMA ServedVersion ==
  ASSUME Shape, ReleaseInv
  PROVE  /\ current = None => Served = 0
         /\ \A v \in valid : current # None /\ Good(current) = Content(v) => Served = v
         /\ current # None => Served \in valid /\ Good(current) = Content(Served)
         /\ Served \in Nat /\ Served <= drafted
<1>1. valid \subseteq Nat /\ drafted \in Nat
  BY DEF Shape, Versions
<1>2. \A v \in valid : current # None /\ Good(current) = Content(v) => Served = v
  BY <1>1, Contents DEF Served, Good
<1>. QED
  BY <1>1, <1>2 DEF Served, ReleaseInv, Whole, Shape

LEMMA PubInit == Init => PubInv
<1> SUFFICES ASSUME Init PROVE PubInv
  OBVIOUS
<1>1. 0 \in Versions
  BY PublishAssumption DEF Versions
<1>. QED
  BY <1>1 DEF Init, PubInv, Shape, OneRuns, Running, ReleaseInv, Progress, At, Labels,
              Before, Staged, Installed

(* The publisher that takes a step is the only one running, so that of the *)
(* others nothing has to be shown.                                         *)
LEMMA OthersIdle ==
  ASSUME PubInv, NEW p \in Publishers, Running(p), NEW l \in Labels, Goto(p, l)
  PROVE  /\ \A q \in Publishers \ {p} : At(q, "idle")' /\ Progress(q)'
         /\ OneRuns' /\ pc' \in [Publishers -> Labels] /\ pc'[p] = l
<1>1. pc' \in [Publishers -> Labels] /\ pc'[p] = l
  BY DEF PubInv, Shape, Goto
<1>2. \A q \in Publishers \ {p} : pc'[q] = "idle"
  BY DEF PubInv, Shape, OneRuns, Running, At, Goto
<1>3. \A q \in Publishers \ {p} : Progress(q)'
  BY <1>2 DEF Progress, At, Before, Staged, Installed
<1>. QED
  BY <1>1, <1>2, <1>3 DEF OneRuns, Running, At

LEMMA PubFrame ==
  ASSUME PubInv, NEW p \in Publishers, Running(p), NEW l \in Labels, Goto(p, l),
         UNCHANGED <<rel, ver, valid, drafted>>,
         final' = [r \in Releases |-> final'[r]],
         staging' = [r \in Releases |-> staging'[r]],
         old' = [r \in Releases |-> old'[r]],
         current' \in Releases \cup {None},
         todo' \in [Publishers -> SUBSET Files], kept' \in [Publishers -> BOOLEAN],
         \A r \in Releases : final'[r] # None => Whole(final'[r]),
         current' # None => Whole(IF final'[current'] # None THEN final'[current']
                                                           ELSE old'[current']),
         Progress(p)'
  PROVE  PubInv'
<1>1. \A q \in Publishers : Progress(q)'
  BY OthersIdle
<1>2. OneRuns' /\ pc' \in [Publishers -> Labels] /\ \A q \in Publishers \ {p} : At(q, "idle")'
  BY OthersIdle
<1>3. Shape'
  BY <1>2 DEF PubInv, Shape, Running, At
<1>4. ReleaseInv'
  BY <1>1 DEF ReleaseInv, Good, Whole
<1>. QED
  BY <1>2, <1>3, <1>4 DEF PubInv

(* Steps that leave releases/ and current alone.                           *)
LEMMA ReleasesUntouched ==
  ASSUME PubInv, NEW p \in Publishers, Running(p), NEW l \in Labels, Goto(p, l),
         UNCHANGED <<rel, ver, valid, drafted, kept, final, current>>,
         old' = [r \in Releases |-> old'[r]], staging' = [r \in Releases |-> staging'[r]],
         todo' \in [Publishers -> SUBSET Files],
         \A r \in Releases : final[r] = None => old'[r] = old[r],
         l = "idle" \/ (pc[p] \in Installed \ {"drop", "point"} /\ l \in Installed \ {"drop", "point"})
  PROVE  PubInv'
<1>1. /\ final' = [r \in Releases |-> final'[r]] /\ current' \in Releases \cup {None}
      /\ kept' \in [Publishers -> BOOLEAN] /\ pc'[p] = l
      /\ \A r \in Releases : final'[r] # None => Whole(final'[r])
  BY DEF PubInv, Shape, ReleaseInv, Goto
<1>2. current' # None => Whole(IF final'[current'] # None THEN final'[current']
                                                         ELSE old'[current'])
  BY DEF PubInv, Shape, ReleaseInv, Good
<1>3. CASE l = "idle"
  <2>1. Progress(p)'
    BY <1>1, <1>3 DEF Progress, At, Before, Staged, Installed
  <2>. QED
    BY <1>1, <1>2, <2>1, PubFrame
<1>4. CASE pc[p] \in Installed \ {"drop", "point"} /\ l \in Installed \ {"drop", "point"}
  <2>1. Progress(p)'
    BY <1>1, <1>4 DEF PubInv, ReleaseInv, Progress, At, Before, Staged, Installed
  <2>. QED
    BY <1>1, <1>2, <2>1, PubFrame
<1>. QED
  BY <1>3, <1>4

LEMMA PubStep == Exclusive /\ PubInv /\ [Next]_vars => PubInv'
<1> SUFFICES ASSUME Exclusive, PubInv, [Next]_vars PROVE PubInv'
  OBVIOUS
<1> USE DEF releaseDirs, liveDirs, draftVars, faultVars
<1>1. CASE UNCHANGED vars
  <2>1. UNCHANGED <<final, staging, old, current, pc, rel, ver, todo, kept, valid, drafted>>
    BY <1>1 DEF vars
  <2>2. Shape' /\ OneRuns'
    BY <2>1 DEF PubInv, Shape, OneRuns, Running, At
  <2>3. \A p \in Publishers : Progress(p)'
    BY <2>1 DEF PubInv, ReleaseInv, Progress, At, Written, Good, Whole
  <2>. QED
    BY <2>1, <2>2, <2>3 DEF PubInv, ReleaseInv, Good, Whole
<1>2. ASSUME NEW p \in Publishers, NEW r \in Releases, Begin(p, r) PROVE PubInv'
  <2>1. /\ pc = [q \in Publishers |-> "idle"] /\ pc' = [pc EXCEPT ![p] = "stage"]
        /\ drafted' = drafted + 1 /\ drafted < MaxVersions
        /\ ver' = [ver EXCEPT ![p] = drafted + 1] /\ rel' = [rel EXCEPT ![p] = r]
        /\ valid' \in {valid, valid \cup {drafted + 1}}
        /\ UNCHANGED <<final, staging, old, current, todo, kept>>
    BY <1>2 DEF Begin, LockFree, At, Goto, PubInv, Shape
  <2>2. drafted' \in Versions /\ drafted \in Nat
    BY <2>1, PublishAssumption DEF PubInv, Shape, Versions
  <2>3. Shape' /\ OneRuns'
    BY <2>1, <2>2 DEF PubInv, Shape, OneRuns, Running, At, Labels
  <2>4. ASSUME NEW d, Whole(d) PROVE Whole(d)' /\ d # Content(drafted')
    <3>1. PICK v \in valid : d = Content(v)
      BY <2>4 DEF Whole
    <3>2. v \in Nat /\ v <= drafted /\ drafted' \in Nat /\ v # drafted'
      BY <2>1, <2>2 DEF PubInv, Shape
    <3>3. d # Content(drafted')
      BY <3>1, <3>2, Contents
    <3>. QED
      BY <2>1, <3>1, <3>3 DEF Whole, Content
  <2>5. \A q \in Publishers : Progress(q)'
    <3>1. pc'[p] = "stage" /\ \A q \in Publishers \ {p} : pc'[q] = "idle"
      BY <2>1
    <3>2. \A x \in Releases : final'[x] # None => final'[x] # Content(drafted)'
      BY <2>1, <2>4 DEF PubInv, ReleaseInv, Content
    <3>3. None # Content(drafted)'
      BY <2>2, Contents DEF Content
    <3>4. current' # None => Good(current)' # Content(drafted)'
      BY <2>1, <2>4 DEF PubInv, ReleaseInv, Good, Content
    <3>. QED
      BY <3>1, <3>2, <3>3, <3>4 DEF Progress, At, Before, Staged, Installed
  <2>6. ReleaseInv'
    BY <2>1, <2>4, <2>5 DEF PubInv, ReleaseInv, Good
  <2>. QED
    BY <2>3, <2>6 DEF PubInv
<1>3. ASSUME NEW p \in Publishers, Stage(p) PROVE PubInv'
  <2>1. /\ At(p, "stage") /\ Goto(p, "write") /\ Running(p) /\ rel[p] \in Releases
        /\ staging' = [staging EXCEPT ![rel[p]] = Empty]
        /\ todo' = [todo EXCEPT ![p] = Files]
        /\ UNCHANGED <<final, old, current, kept, rel, ver, valid, drafted>>
    BY <1>3 DEF Stage, Running, At, PubInv, Shape
  <2>2. staging'[rel[p]] = Empty /\ todo'[p] = Files /\ pc'[p] = "write"
    BY <2>1 DEF PubInv, Shape, Goto
  <2>3. Written(staging[rel[p]], p)'
    <3>1. Empty \in [{} -> Nat]
      BY DEF Empty
    <3>. QED
      BY <2>1, <2>2, <3>1, PublishAssumption DEF Written, Empty
  <2>4. Progress(p)'
    BY <2>1, <2>2, <2>3 DEF PubInv, ReleaseInv, Progress, At, Before, Staged,
                            Installed, Good, Content
  <2>. QED
    BY <2>1, <2>4, PubFrame DEF PubInv, Shape, ReleaseInv, Labels, Good
<1>4. ASSUME NEW p \in Publishers, NEW f \in Files, WriteFile(p, f) PROVE PubInv'
  <2> DEFINE l == IF LastFile(p, f) THEN "validate" ELSE "write"
  <2>1. /\ At(p, "write") /\ Goto(p, l) /\ Running(p) /\ rel[p] \in Releases
        /\ staging' = [staging EXCEPT ![rel[p]] = WithFile(staging[rel[p]], f, ver[p])]
        /\ f \in todo[p] /\ todo' = [todo EXCEPT ![p] = @ \ {f}]
        /\ UNCHANGED <<final, old, current, kept, rel, ver, valid, drafted>>
    BY <1>4 DEF WriteFile, Running, At, PubInv, Shape, ReleaseInv, Progress, Written
  <2>2. /\ staging'[rel[p]] = WithFile(staging[rel[p]], f, ver[p])
        /\ todo'[p] = todo[p] \ {f} /\ pc'[p] = l
    BY <2>1 DEF PubInv, Shape, Goto
  <2>3. Written(staging[rel[p]], p) /\ todo[p] \subseteq Files /\ ver[p] \in Nat
    <3>1. Written(staging[rel[p]], p)
      BY <2>1 DEF PubInv, ReleaseInv, Progress
    <3>2. todo[p] \subseteq Files /\ ver[p] \in Nat
      BY DEF PubInv, Shape, Versions
    <3>. QED
      BY <3>1, <3>2
  <2>4. staging'[rel[p]] = [g \in Files \ todo'[p] |-> ver[p]]
    BY <2>1, <2>2, <2>3 DEF Written, WithFile
  <2>5. staging'[rel[p]] # None
    <3>1. staging'[rel[p]] \in [Files \ todo'[p] -> Nat]
      BY <2>3, <2>4
    <3>. QED
      BY <3>1, PublishAssumption
  <2>6. Written(staging[rel[p]], p)' /\ (l = "validate" => staging'[rel[p]] = Content(ver[p]))
    BY <2>1, <2>2, <2>4, <2>5 DEF Written, LastFile, Content
  <2>7. Progress(p)'
    BY <2>1, <2>2, <2>6 DEF PubInv, ReleaseInv, Progress, At, Before, Staged,
                            Installed, Good, Content
  <2>. QED
    BY <2>1, <2>7, PubFrame DEF PubInv, Shape, ReleaseInv, Labels, Good
<1>5. ASSUME NEW p \in Publishers, Validate(p) PROVE PubInv'
  <2>1. /\ At(p, "validate") /\ Running(p) /\ rel[p] \in Releases
        /\ UNCHANGED <<final, old, current, todo, kept, rel, ver, valid, drafted>>
    BY <1>5 DEF Validate, Running, At, PubInv, Shape
  <2>2. CASE Accepts(p)
    <3>1. Goto(p, "retire") /\ UNCHANGED staging
      BY <1>5, <2>2 DEF Validate
    <3>2. staging[rel[p]] = Content(ver[p])
      BY <2>1 DEF PubInv, ReleaseInv, Progress
    <3>3. ver[p] \in valid
      BY <2>2, <3>2, PublishAssumption DEF Accepts, Valid, HasFiles, Content
    <3>4. Progress(p)'
      BY <2>1, <3>1, <3>2, <3>3 DEF PubInv, Shape, ReleaseInv, Progress, At, Before,
         Staged, Installed, Good, Content, Goto
    <3>. QED
      BY <2>1, <3>1, <3>4, PubFrame DEF PubInv, Shape, ReleaseInv, Labels, Good
  <2>3. CASE ~Accepts(p)
    <3>1. Goto(p, "idle") /\ staging' = [staging EXCEPT ![rel[p]] = None]
      BY <1>5, <2>3 DEF Validate
    <3>. QED
      BY <2>1, <3>1, ReleasesUntouched DEF PubInv, Shape, Labels
  <2>. QED
    BY <2>2, <2>3
<1>6. ASSUME NEW p \in Publishers, RetireFinal(p) PROVE PubInv'
  <2> DEFINE r == rel[p]
  <2>1. /\ At(p, "retire") /\ Goto(p, "install") /\ Running(p) /\ r \in Releases
        /\ kept' = [kept EXCEPT ![p] = final[r] # None]
        /\ final' = [final EXCEPT ![r] = None]
        /\ old' = [old EXCEPT ![r] = IF final[r] # None THEN final[r] ELSE @]
        /\ UNCHANGED <<staging, current, todo, rel, ver, valid, drafted>>
    BY <1>6 DEF RetireFinal, SetAside, Running, At, PubInv, Shape
  <2>2. /\ final'[r] = None /\ kept'[p] = (final[r] # None) /\ pc'[p] = "install"
        /\ old'[r] = IF final[r] # None THEN final[r] ELSE old[r]
        /\ \A x \in Releases \ {r} : final'[x] = final[x] /\ old'[x] = old[x]
    BY <2>1 DEF PubInv, Shape, Goto
  <2>3. \A x \in Releases : Good(x)' = Good(x) /\ (final'[x] # None => final'[x] = final[x])
    BY <2>1, <2>2 DEF Good
  <2>4. None # Content(drafted)
    BY Contents DEF PubInv, Shape, Versions
  <2>5. Progress(p)'
    <3>1. /\ staging[r] = Content(ver[p]) /\ ver[p] \in valid
          /\ \A x \in Releases : final[x] # Content(drafted)
          /\ current # None => Good(current) # Content(drafted)
      BY <2>1 DEF PubInv, ReleaseInv, Progress, At, Before, Staged
    <3>2. kept'[p] => Whole(old'[r])
      BY <2>1, <2>2 DEF PubInv, ReleaseInv
    <3>3. /\ \A x \in Releases : final'[x] # Content(drafted)
          /\ current' # None => Good(current)' # Content(drafted)
      BY <2>1, <2>2, <2>3, <2>4, <3>1 DEF PubInv, Shape
    <3>. QED
      BY <2>1, <2>2, <3>1, <3>2, <3>3 DEF Progress, At, Before, Staged, Installed, Whole, Content
  <2>6. current' # None => Whole(IF final'[current'] # None THEN final'[current']
                                                           ELSE old'[current'])
    BY <2>1, <2>3 DEF PubInv, Shape, ReleaseInv, Good
  <2>7. \A x \in Releases : final'[x] # None => Whole(final'[x])
    BY <2>3 DEF PubInv, ReleaseInv
  <2>8. /\ final' = [x \in Releases |-> final'[x]] /\ old' = [x \in Releases |-> old'[x]]
        /\ staging' = [x \in Releases |-> staging'[x]]
        /\ kept' \in [Publishers -> BOOLEAN] /\ todo' \in [Publishers -> SUBSET Files]
        /\ current' \in Releases \cup {None} /\ "install" \in Labels
    BY <2>1 DEF PubInv, Shape, Labels
  <2>. QED
    BY <2>1, <2>5, <2>6, <2>7, <2>8, PubFrame
<1>7. ASSUME NEW p \in Publishers, InstallFinal(p) PROVE PubInv'
  <2> DEFINE r == rel[p]
  <2>1. /\ At(p, "install") /\ Goto(p, "drop") /\ Running(p) /\ r \in Releases
        /\ final' = [final EXCEPT ![r] = staging[r]]
        /\ staging' = [staging EXCEPT ![r] = None]
        /\ UNCHANGED <<old, current, kept, todo, rel, ver, valid, drafted>>
    BY <1>7 DEF InstallFinal, Running, At, PubInv, Shape
  <2>2. /\ staging[r] = Content(ver[p]) /\ ver[p] \in valid
        /\ current # None => Good(current) # Content(drafted)
    BY <2>1 DEF PubInv, ReleaseInv, Progress, At, Before, Staged
  <2>3. /\ final'[r] = Content(ver[p]) /\ pc'[p] = "drop"
        /\ \A x \in Releases \ {r} : final'[x] = final[x] /\ Good(x)' = Good(x)
    BY <2>1, <2>2 DEF PubInv, Shape, Goto, Good
  <2>4. Whole(final'[r]) /\ final'[r] # None
    <3>1. ver[p] \in Nat
      BY DEF PubInv, Shape, Versions
    <3>. QED
      BY <2>2, <2>3, <3>1, Contents DEF Whole
  <2>5. Progress(p)'
    <3>1. current' \notin {None, r} => Good(current)' # Content(drafted)
      BY <2>1, <2>2, <2>3 DEF PubInv, Shape
    <3>. QED
      BY <2>1, <2>2, <2>3, <3>1 DEF Progress, At, Before, Staged, Installed, Content
  <2>6. current' # None => Whole(IF final'[current'] # None THEN final'[current']
                                                           ELSE old'[current'])
    BY <2>1, <2>3, <2>4 DEF PubInv, Shape, ReleaseInv, Good
  <2>7. \A x \in Releases : final'[x] # None => Whole(final'[x])
    BY <2>3, <2>4 DEF PubInv, ReleaseInv
  <2>. QED
    BY <2>1, <2>5, <2>6, <2>7, PubFrame DEF PubInv, Shape, Labels
<1>8. ASSUME NEW p \in Publishers, InstallFails(p) PROVE PubInv'
  <2> DEFINE r == rel[p]
             back == kept[p] /\ old[r] # None /\ final[r] = None
  <2>1. /\ At(p, "install") /\ Goto(p, "idle") /\ Running(p) /\ r \in Releases
        /\ UNCHANGED <<staging, current, kept, todo, rel, ver, valid, drafted>>
    BY <1>8 DEF InstallFails, Running, At, PubInv, Shape
  <2>2. CASE back
    <3>1. /\ final' = [final EXCEPT ![r] = old[r]] /\ old' = [old EXCEPT ![r] = None]
      BY <1>8, <2>2 DEF InstallFails
    <3>2. Whole(old[r])
      BY <2>1, <2>2 DEF PubInv, ReleaseInv, Progress
    <3>3. /\ final'[r] = old[r]
          /\ \A x \in Releases \ {r} : final'[x] = final[x] /\ old'[x] = old[x]
      BY <2>1, <3>1 DEF PubInv, Shape
    <3>4. current' # None => Whole(IF final'[current'] # None THEN final'[current']
                                                             ELSE old'[current'])
      BY <2>1, <2>2, <3>2, <3>3 DEF PubInv, Shape, ReleaseInv, Good
    <3>5. \A x \in Releases : final'[x] # None => Whole(final'[x])
      BY <3>2, <3>3 DEF PubInv, ReleaseInv
    <3>6. Progress(p)'
      BY <2>1 DEF PubInv, Shape, Goto, Progress, At, Before, Staged, Installed
    <3>. QED
      BY <2>1, <3>1, <3>4, <3>5, <3>6, PubFrame DEF PubInv, Shape, Labels
  <2>3. CASE ~back
    <3>1. UNCHANGED <<final, old>>
      BY <1>8, <2>3 DEF InstallFails
    <3>. QED
      BY <2>1, <3>1, ReleasesUntouched DEF PubInv, Shape, Labels
  <2>. QED
    BY <2>2, <2>3
<1>9. ASSUME NEW p \in Publishers, DropOld(p) PROVE PubInv'
  <2> DEFINE r == rel[p]
  <2>1. /\ At(p, "drop") /\ Goto(p, "point") /\ Running(p) /\ r \in Releases
        /\ old' = IF kept[p] THEN [old EXCEPT ![r] = None] ELSE old
        /\ UNCHANGED <<final, staging, current, kept, todo, rel, ver, valid, drafted>>
    BY <1>9 DEF DropOld, Running, At, PubInv, Shape
  <2>2. /\ final[r] = Content(ver[p]) /\ ver[p] \in valid /\ final[r] # None
        /\ current \notin {None, r} => Good(current) # Content(drafted)
    <3>1. ver[p] \in Nat
      BY DEF PubInv, Shape, Versions
    <3>. QED
      BY <2>1, <3>1, Contents DEF PubInv, ReleaseInv, Progress, At, Installed
  <2>3. /\ \A x \in Releases : Good(x)' = Good(x)
        /\ old' = [x \in Releases |-> old'[x]] /\ pc'[p] = "point"
    BY <2>1, <2>2 DEF PubInv, Shape, Goto, Good
  <2>4. Progress(p)'
    BY <2>1, <2>2, <2>3 DEF PubInv, Shape, Progress, At, Before, Staged, Installed, Content
  <2>5. current' # None => Whole(IF final'[current'] # None THEN final'[current']
                                                           ELSE old'[current'])
    BY <2>1, <2>3 DEF PubInv, Shape, ReleaseInv, Good
  <2>. QED
    BY <2>1, <2>3, <2>4, <2>5, PubFrame DEF PubInv, Shape, ReleaseInv, Labels
<1>10. ASSUME NEW p \in Publishers, Point(p) PROVE PubInv'
  <2> DEFINE r == rel[p]
  <2>1. /\ At(p, "point") /\ Running(p) /\ r \in Releases
        /\ UNCHANGED <<final, staging, old, kept, todo, rel, ver, valid, drafted>>
    BY <1>10 DEF Point, Running, At, PubInv, Shape
  <2>2. final[r] = Content(ver[p]) /\ ver[p] \in valid /\ final[r] # None
    <3>1. ver[p] \in Nat
      BY DEF PubInv, Shape, Versions
    <3>. QED
      BY <2>1, <3>1, Contents DEF PubInv, ReleaseInv, Progress, At, Installed
  <2>3. current' = r /\ Goto(p, "prepare") /\ pc'[p] = "prepare"
    BY <1>10, <2>2 DEF Point, Goto, PubInv, Shape
  <2>4. Progress(p)'
    BY <2>1, <2>2, <2>3 DEF Progress, At, Before, Staged, Installed, Content
  <2>5. current' # None => Whole(IF final'[current'] # None THEN final'[current']
                                                           ELSE old'[current'])
    BY <2>1, <2>2, <2>3 DEF PubInv, Shape, ReleaseInv
  <2>. QED
    BY <2>1, <2>3, <2>4, <2>5, PubFrame DEF PubInv, Shape, ReleaseInv, Labels
<1>11. ASSUME NEW p \in Publishers, Promote(p) PROVE PubInv'
  <2>1. /\ Running(p) /\ pc[p] \in Installed \ {"drop", "point"} /\ todo' \in [Publishers -> SUBSET Files]
        /\ UNCHANGED <<final, staging, old, current, kept, rel, ver, valid, drafted>>
        /\ \E l \in {"idle", "copy", "liveRetire", "liveInstall", "liveDrop"} : Goto(p, l)
    <3>1. CASE Prepare(p)
      BY <3>1 DEF Prepare, Running, At, Installed, PubInv, Shape
    <3>2. CASE \E f \in Files : CopyFile(p, f)
      BY <3>2 DEF CopyFile, Running, At, Installed, PubInv, Shape
    <3>3. CASE CopyFails(p)
      BY <3>3 DEF CopyFails, Running, At, Installed, PubInv, Shape
    <3>4. CASE RetireLive(p) \/ InstallLive(p) \/ DropAside(p)
      BY <3>4 DEF RetireLive, InstallLive, DropAside, Running, At, Installed, PubInv, Shape
    <3>5. CASE InstallLiveFails(p)
      BY <3>5 DEF InstallLiveFails, Running, At, Installed, PubInv, Shape
    <3>. QED
      BY <1>11, <3>1, <3>2, <3>3, <3>4, <3>5 DEF Promote
  <2>. QED
    BY <2>1, ReleasesUntouched DEF PubInv, Shape, Labels, Installed
<1>12. ASSUME NEW p \in Publishers, Crash(p) PROVE PubInv'
  <2>1. /\ Running(p) /\ Goto(p, "idle") /\ rel[p] \in Releases
        /\ UNCHANGED <<final, current, todo, kept, rel, ver, valid, drafted>>
        /\ \/ UNCHANGED staging
           \/ \E d : staging' = [staging EXCEPT ![rel[p]] = d]
        /\ \/ UNCHANGED old
           \/ /\ (At(p, "retire") /\ final[rel[p]] # None) \/ At(p, "drop")
              /\ \E d : old' = [old EXCEPT ![rel[p]] = d]
    BY <1>12 DEF Crash, Running, PubInv, Shape
  <2>2. At(p, "drop") => final[rel[p]] # None
    <3>1. ver[p] \in Nat
      BY DEF PubInv, Shape, Versions
    <3>. QED
      BY <2>1, <3>1, Contents DEF PubInv, ReleaseInv, Progress, At, Installed
  <2>3. /\ staging' = [r \in Releases |-> staging'[r]]
        /\ old' = [r \in Releases |-> old'[r]]
        /\ \A r \in Releases : final[r] = None => old'[r] = old[r]
    BY <2>1, <2>2 DEF PubInv, Shape
  <2>. QED
    BY <2>1, <2>3, ReleasesUntouched DEF PubInv, Shape, Labels
<1>. QED
  BY <1>1, <1>2, <1>3, <1>4, <1>5, <1>6, <1>7, <1>8, <1>9, <1>10, <1>11, <1>12
     DEF Next, Release
-----------------------------------------------------------------------------
LEMMA PubInvariant == Exclusive => (Spec => []PubInv)
<1> SUFFICES ASSUME Exclusive PROVE Spec => []PubInv
  OBVIOUS
<1>1. PubInv /\ [Next]_vars => PubInv'
  BY PubStep
<1>. QED
  BY PubInit, <1>1, PTL DEF Spec

(* One publication at a time: whatever crashes between two of its calls,   *)
(* and whichever of them fails, the release that current names is whole,   *)
(* under its name or set aside (_promote_staging, promote).                *)
THEOREM CurrentIsKept == Exclusive => (Spec => []CurrentKept)
<1>1. PubInv => CurrentKept
  BY DEF PubInv, ReleaseInv, Good, CurrentKept
<1>. QED
  BY PubInvariant, <1>1, PTL

LEMMA ServedUntouched ==
  ASSUME UNCHANGED current, current # None => Good(current)' = Good(current)
  PROVE  UNCHANGED Served
BY DEF Served, Good

(* A step that puts the draft where current leads to.                      *)
LEMMA ServedReplaced ==
  ASSUME PubInv, PubInv', NEW p \in Publishers, Running(p),
         UNCHANGED <<drafted, valid>>, ver[p] \in valid,
         current' # None, Good(current)' = Content(ver[p]),
         current # None => Good(current) # Content(drafted)
  PROVE  Lkg!Replace
<1>1. /\ Shape /\ ReleaseInv /\ Shape' /\ ReleaseInv'
      /\ ver[p] = drafted /\ drafted \in Nat /\ 0 < drafted
  BY DEF PubInv, Shape, Versions
<1>2. \A v \in valid' : current' # None /\ Good(current)' = Content(v)' => Served' = v
  <2> SUFFICES (\A v \in valid : current # None /\ Good(current) = Content(v) => Served = v)'
    OBVIOUS
  <2>1. (Shape /\ ReleaseInv)'
    BY <1>1
  <2>. QED
    BY <2>1, ServedVersion, PTL
<1>3. Served' = ver[p]
  BY <1>2 DEF Content
<1>4. Served < drafted
  BY <1>1, ServedVersion
<1>. QED
  BY <1>1, <1>3, <1>4 DEF Lkg!Replace

LEMMA LkgStep ==
  Exclusive /\ PubInv /\ PubInv' /\ [Next]_vars
    => [Lkg!Draft \/ Lkg!Replace]_<<valid, Served>>
<1> SUFFICES ASSUME Exclusive, PubInv, PubInv', [Next]_vars
             PROVE  Lkg!Draft \/ Lkg!Replace \/ UNCHANGED <<valid, Served>>
  OBVIOUS
<1> USE DEF releaseDirs, liveDirs, draftVars, faultVars
<1>1. CASE UNCHANGED vars
  <2>1. UNCHANGED <<final, old, current, valid>>
    BY <1>1 DEF vars
  <2>. QED
    BY <2>1 DEF Served
<1>2. ASSUME NEW p \in Publishers, NEW r \in Releases, Begin(p, r) PROVE Lkg!Draft
  <2>1. UNCHANGED <<final, old, current>> /\ valid \subseteq valid'
    BY <1>2 DEF Begin
  <2>. QED
    BY <2>1 DEF Served, Lkg!Draft
<1>3. ASSUME NEW p \in Publishers,
             Stage(p) \/ (\E f \in Files : WriteFile(p, f)) \/ Validate(p) \/ Promote(p)
      PROVE  UNCHANGED <<valid, Served>>
  <2>1. UNCHANGED <<final, old, current, valid>>
    BY <1>3 DEF Stage, WriteFile, Validate, Promote, Prepare, CopyFile, CopyFails,
                RetireLive, InstallLive, InstallLiveFails, DropAside
  <2>. QED
    BY <2>1 DEF Served
<1>4. ASSUME NEW p \in Publishers,
             \/ RetireFinal(p) \/ InstallFinal(p) \/ InstallFails(p)
             \/ DropOld(p) \/ Point(p)
      PROVE  Lkg!Replace \/ UNCHANGED <<valid, Served>>
  <2> DEFINE r == rel[p]
  <2>1. Running(p) /\ UNCHANGED <<valid, drafted, ver>> /\ r \in Releases
    BY <1>4 DEF RetireFinal, InstallFinal, InstallFails, DropOld, Point,
                Running, At, PubInv, Shape
  <2>2. Progress(p) /\ ver[p] \in Nat
    BY DEF PubInv, Shape, Versions, ReleaseInv
  <2>3. CASE RetireFinal(p)
    <3>1. /\ UNCHANGED current
          /\ final' = [final EXCEPT ![r] = None]
          /\ old' = [old EXCEPT ![r] = IF final[r] # None THEN final[r] ELSE @]
      BY <2>3 DEF RetireFinal, SetAside, PubInv, Shape
    <3>2. current # None => Good(current)' = Good(current)
      BY <2>1, <3>1 DEF Good, PubInv, Shape
    <3>. QED
      BY <2>1, <3>1, <3>2, ServedUntouched
  <2>4. CASE InstallFinal(p)
    <3>1. /\ UNCHANGED <<current, old>> /\ At(p, "install")
          /\ final' = [final EXCEPT ![r] = staging[r]]
      BY <2>4 DEF InstallFinal
    <3>2. /\ staging[r] = Content(ver[p]) /\ ver[p] \in valid
          /\ current # None => Good(current) # Content(drafted)
      BY <2>2, <3>1 DEF Progress, At, Before, Staged
    <3>3. CASE current = r
      <4>1. current' # None /\ Good(current)' = Content(ver[p])
        BY <2>1, <2>2, <3>1, <3>2, <3>3, PublishAssumption, Contents
           DEF Good, PubInv, Shape
      <4>. QED
        BY <2>1, <3>2, <4>1, ServedReplaced
    <3>4. CASE current # r
      <4>1. current # None => Good(current)' = Good(current)
        BY <2>1, <3>1, <3>4 DEF Good, PubInv, Shape
      <4>. QED
        BY <2>1, <3>1, <4>1, ServedUntouched
    <3>. QED
      BY <3>3, <3>4
  <2>5. CASE InstallFails(p)
    <3>1. /\ UNCHANGED current
          /\ \/ UNCHANGED <<final, old>>
             \/ /\ old[r] # None /\ final[r] = None
                /\ final' = [final EXCEPT ![r] = old[r]]
                /\ old' = [old EXCEPT ![r] = None]
      BY <2>5 DEF InstallFails
    <3>2. current # None => Good(current)' = Good(current)
      BY <2>1, <3>1 DEF Good, PubInv, Shape
    <3>. QED
      BY <2>1, <3>1, <3>2, ServedUntouched
  <2>6. CASE DropOld(p)
    <3>1. /\ UNCHANGED <<current, final>> /\ At(p, "drop")
          /\ old' = IF kept[p] THEN [old EXCEPT ![r] = None] ELSE old
      BY <2>6 DEF DropOld
    <3>2. final[r] # None
      BY <2>2, <3>1, Contents DEF Progress, At, Installed
    <3>3. current # None => Good(current)' = Good(current)
      BY <2>1, <3>1, <3>2 DEF Good, PubInv, Shape
    <3>. QED
      BY <2>1, <3>1, <3>3, ServedUntouched
  <2>7. CASE Point(p)
    <3>1. UNCHANGED <<final, old>> /\ At(p, "point")
      BY <2>7 DEF Point
    <3>2. /\ final[r] = Content(ver[p]) /\ ver[p] \in valid /\ final[r] # None
          /\ current \notin {None, r} => Good(current) # Content(drafted)
      BY <2>2, <3>1, Contents DEF Progress, At, Installed
    <3>3. current' = r
      BY <2>7, <3>2 DEF Point
    <3>4. CASE current = r
      <4>1. UNCHANGED current /\ (current # None => Good(current)' = Good(current))
        BY <3>1, <3>3, <3>4 DEF Good
      <4>. QED
        BY <2>1, <4>1, ServedUntouched
    <3>5. CASE current # r
      <4>1. current' # None /\ Good(current)' = Content(ver[p])
        BY <2>1, <3>1, <3>2, <3>3, PublishAssumption DEF Good
      <4>2. current # None => Good(current) # Content(drafted)
        BY <3>2, <3>5
      <4>. QED
        BY <2>1, <3>2, <4>1, <4>2, ServedReplaced
    <3>. QED
      BY <3>4, <3>5
  <2>. QED
    BY <1>4, <2>3, <2>4, <2>5, <2>6, <2>7
<1>5. ASSUME NEW p \in Publishers, Crash(p) PROVE UNCHANGED <<valid, Served>>
  <2>1. /\ UNCHANGED <<final, current, valid>> /\ rel[p] \in Releases
        /\ \/ UNCHANGED old
           \/ /\ (At(p, "retire") /\ final[rel[p]] # None) \/ At(p, "drop")
              /\ \E d : old' = [old EXCEPT ![rel[p]] = d]
    BY <1>5 DEF Crash, PubInv, Shape, Running
  <2>2. At(p, "drop") => final[rel[p]] # None
    <3>1. ver[p] \in Nat /\ Progress(p)
      BY DEF PubInv, Shape, Versions, ReleaseInv
    <3>. QED
      BY <3>1, Contents DEF Progress, At, Installed
  <2>3. current # None => Good(current)' = Good(current)
    BY <2>1, <2>2 DEF Good, PubInv, Shape
  <2>. QED
    BY <2>1, <2>3, ServedUntouched
<1>. QED
  BY <1>1, <1>2, <1>3, <1>4, <1>5 DEF Next, Release

(* One publication at a time: through crashes and failures the publish     *)
(* root serves what LastKnownGood promises, nothing before the first       *)
(* publication and then approved versions, each newer than the one before. *)
THEOREM KeepsLastKnownGood == Exclusive => (Spec => RefinesLastKnownGood)
<1> SUFFICES ASSUME Exclusive PROVE Spec => Lkg!LkgSpec
  BY DEF RefinesLastKnownGood
<1>1. Init => Lkg!LkgInit
  BY DEF Init, Lkg!LkgInit, Served
<1>2. PubInv /\ PubInv' /\ [Next]_vars
        => [Lkg!Draft \/ Lkg!Replace]_<<valid, Served>>
  BY LkgStep
<1>3. Spec => []PubInv
  BY PubInvariant
<1>. QED
  BY <1>1, <1>2, <1>3, PTL DEF Spec, Lkg!LkgSpec
-----------------------------------------------------------------------------
LEMMA LiveInit == Init => LiveInv
BY PublishAssumption DEF Init, LiveInv, LiveWhole, LiveProgress, At

(* Steps of a publisher that leave live/ and the backup alone and do not   *)
(* enter the swap.                                                         *)
LEMMA LiveUntouched ==
  ASSUME PubInv, PubInv', LiveInv, NEW p \in Publishers, Running(p)',
         valid \subseteq valid', live' = live \/ Whole(live'),
         aside' = [i \in Publishers |-> aside'[i]], LiveProgress(p)'
  PROVE  LiveInv'
<1>1. LiveWhole'
  BY DEF LiveInv, LiveWhole, Whole
<1>2. \A q \in Publishers : LiveProgress(q)'
  <2>1. \A q \in Publishers \ {p} : pc'[q] = "idle"
    BY DEF PubInv, OneRuns, Running, At
  <2>. QED
    BY <2>1 DEF LiveProgress, At
<1>. QED
  BY <1>1, <1>2 DEF LiveInv

LEMMA LiveGoesIdle ==
  ASSUME PubInv, LiveInv, NEW p \in Publishers, Running(p), Goto(p, "idle"),
         valid' = valid, live' = live \/ live' = None \/ Whole(live'),
         aside' = [i \in Publishers |-> aside'[i]]
  PROVE  LiveInv'
<1>1. \A q \in Publishers : pc'[q] = "idle"
  BY DEF PubInv, Shape, OneRuns, Running, At, Goto
<1>2. \A q \in Publishers : LiveProgress(q)'
  BY <1>1 DEF LiveProgress, At
<1>. QED
  BY <1>2 DEF LiveInv, LiveWhole, Whole

LEMMA LiveStep ==
  Exclusive /\ PubInv /\ PubInv' /\ LiveInv /\ [Next]_vars => LiveInv'
<1> SUFFICES ASSUME Exclusive, PubInv, PubInv', LiveInv, [Next]_vars PROVE LiveInv'
  OBVIOUS
<1> USE DEF releaseDirs, liveDirs, draftVars, faultVars
<1>1. CASE UNCHANGED vars
  BY <1>1 DEF vars, LiveInv, LiveWhole, LiveProgress, Written, Whole, At
<1>2. ASSUME NEW p \in Publishers, NEW r \in Releases, Begin(p, r) PROVE LiveInv'
  <2>1. /\ pc'[p] = "stage" /\ valid \subseteq valid' /\ UNCHANGED <<live, aside>>
    BY <1>2 DEF Begin, Goto, PubInv, Shape
  <2>2. Running(p)' /\ LiveProgress(p)'
    BY <2>1 DEF Running, LiveProgress, At
  <2>. QED
    BY <2>1, <2>2, LiveUntouched DEF LiveInv
<1>3. ASSUME NEW p \in Publishers, Release(p) PROVE LiveInv'
  <2>1. /\ pc' = [pc EXCEPT ![p] = pc'[p]]
        /\ pc'[p] \in {"idle"} \cup Before \cup {"drop", "point", "prepare"}
        /\ Running(p) /\ UNCHANGED <<live, aside, valid>>
    BY <1>3 DEF Release, Stage, WriteFile, Validate, RetireFinal, InstallFinal,
       InstallFails, DropOld, Point, Running, Before, Goto, At, PubInv, Shape
  <2>2. CASE pc'[p] = "idle"
    BY <2>1, <2>2, LiveGoesIdle DEF LiveInv, Goto
  <2>3. CASE pc'[p] # "idle"
    <3>1. Running(p)' /\ LiveProgress(p)'
      BY <2>1, <2>3 DEF Running, LiveProgress, At, Before
    <3>. QED
      BY <2>1, <3>1, LiveUntouched DEF LiveInv
  <2>. QED
    BY <2>2, <2>3
<1>4. ASSUME NEW p \in Publishers, Prepare(p) PROVE LiveInv'
  <2>1. Running(p) /\ UNCHANGED <<live, valid, rel, ver>>
    BY <1>4 DEF Prepare, Running, At
  <2>2. CASE HasFiles(final[rel[p]])
    <3>1. /\ candidate' = Empty /\ aside' = [aside EXCEPT ![p] = None]
          /\ todo'[p] = Files /\ pc'[p] = "copy"
      BY <1>4, <2>2 DEF Prepare, Goto, PubInv, Shape
    <3>2. Written(candidate, p)'
      <4>1. Empty \in [{} -> Nat]
        BY DEF Empty
      <4>. QED
        BY <3>1, <4>1, PublishAssumption DEF Written, Empty
    <3>3. Running(p)' /\ LiveProgress(p)'
      BY <2>1, <3>1, <3>2 DEF Running, LiveProgress, At, LiveInv
    <3>. QED
      BY <2>1, <3>1, <3>3, LiveUntouched DEF LiveInv
  <2>3. CASE ~HasFiles(final[rel[p]])
    BY <1>4, <2>1, <2>3, LiveGoesIdle DEF Prepare, LiveInv
  <2>. QED
    BY <2>2, <2>3
<1>5. ASSUME NEW p \in Publishers, NEW f \in Files, CopyFile(p, f) PROVE LiveInv'
  <2>1. /\ At(p, "copy") /\ f \in todo[p] /\ UNCHANGED <<live, aside, valid, ver>>
        /\ candidate' = WithFile(candidate, f, final[rel[p]][f])
        /\ todo'[p] = todo[p] \ {f}
        /\ pc'[p] = IF AllCopied(p, f) THEN "liveRetire" ELSE "copy"
    BY <1>5 DEF CopyFile, Goto, PubInv, Shape
  <2>2. /\ Written(candidate, p) /\ aside[p] = None
        /\ todo[p] \subseteq Files /\ ver[p] \in Nat
    <3>1. Written(candidate, p) /\ aside[p] = None
      BY <2>1 DEF LiveInv, LiveProgress, At
    <3>2. todo[p] \subseteq Files /\ ver[p] \in Nat
      BY DEF PubInv, Shape, Versions
    <3>. QED
      BY <3>1, <3>2
  <2>3. final[rel[p]][f] = ver[p]
    <3>1. final[rel[p]] = Content(ver[p])
      BY <2>1 DEF PubInv, ReleaseInv, Progress, At, Installed
    <3>. QED
      BY <3>1 DEF Content
  <2>4. candidate' = [g \in Files \ todo'[p] |-> ver[p]]
    BY <2>1, <2>2, <2>3 DEF Written, WithFile
  <2>5. candidate' # None
    <3>1. candidate' \in [Files \ todo'[p] -> Nat]
      BY <2>2, <2>4
    <3>. QED
      BY <3>1, PublishAssumption
  <2>6. Running(p)' /\ LiveProgress(p)'
    BY <2>1, <2>2, <2>4, <2>5 DEF Running, LiveProgress, At, Written, AllCopied, Content
  <2>. QED
    BY <2>1, <2>6, LiveUntouched DEF LiveInv
<1>6. ASSUME NEW p \in Publishers, CopyFails(p) PROVE LiveInv'
  <2>1. Running(p) /\ Goto(p, "idle") /\ UNCHANGED <<live, aside, valid>>
    BY <1>6 DEF CopyFails, Running, At
  <2>. QED
    BY <2>1, LiveGoesIdle DEF LiveInv
<1>7. ASSUME NEW p \in Publishers, RetireLive(p) PROVE LiveInv'
  <2>1. /\ At(p, "liveRetire") /\ pc'[p] = "liveInstall"
        /\ live' = None /\ UNCHANGED <<candidate, valid, ver>>
        /\ aside' = IF live # None THEN [aside EXCEPT ![p] = live] ELSE aside
    BY <1>7 DEF RetireLive, Goto, PubInv, Shape
  <2>2. candidate = Content(ver[p]) /\ aside[p] = None
    BY <2>1 DEF LiveInv, LiveProgress, At
  <2>3. aside'[p] # None => Whole(aside'[p])
    BY <2>1, <2>2 DEF LiveInv, LiveWhole
  <2>4. Running(p)' /\ LiveProgress(p)'
    BY <2>1, <2>2, <2>3 DEF Running, LiveProgress, At, Content, Whole
  <2>5. LiveWhole' /\ aside' = [i \in Publishers |-> aside'[i]]
    BY <2>1 DEF LiveWhole, LiveInv
  <2>6. \A q \in Publishers \ {p} : LiveProgress(q)'
    <3>1. \A q \in Publishers \ {p} : pc'[q] = "idle"
      BY <2>4 DEF PubInv, OneRuns, Running, At
    <3>. QED
      BY <3>1 DEF LiveProgress, At
  <2>. QED
    BY <2>4, <2>5, <2>6 DEF LiveInv
<1>8. ASSUME NEW p \in Publishers, InstallLive(p) PROVE LiveInv'
  <2>1. /\ At(p, "liveInstall") /\ pc'[p] = "liveDrop" /\ live' = candidate
        /\ UNCHANGED <<aside, valid, ver>>
    BY <1>8 DEF InstallLive, Goto, PubInv, Shape
  <2>2. candidate = Content(ver[p]) /\ ver[p] \in valid
    BY <2>1 DEF LiveInv, LiveProgress, At, PubInv, ReleaseInv, Progress, Installed
  <2>3. Whole(live')
    BY <2>1, <2>2 DEF Whole
  <2>4. Running(p)' /\ LiveProgress(p)'
    BY <2>1 DEF Running, LiveProgress, At
  <2>. QED
    BY <2>1, <2>3, <2>4, LiveUntouched DEF LiveInv
<1>9. ASSUME NEW p \in Publishers, InstallLiveFails(p) PROVE LiveInv'
  <2>1. /\ At(p, "liveInstall") /\ Running(p) /\ Goto(p, "idle") /\ UNCHANGED valid
        /\ RestoreLive(p)
    BY <1>9 DEF InstallLiveFails, Running, At
  <2>2. live' = live \/ Whole(live')
    BY <2>1 DEF RestoreLive, LiveInv, LiveProgress
  <2>3. aside' = [i \in Publishers |-> aside'[i]]
    BY <2>1 DEF RestoreLive, LiveInv
  <2>. QED
    BY <2>1, <2>2, <2>3, LiveGoesIdle
<1>10. ASSUME NEW p \in Publishers, DropAside(p) PROVE LiveInv'
  <2>1. /\ Running(p) /\ Goto(p, "idle") /\ UNCHANGED <<live, valid>>
        /\ aside' = [aside EXCEPT ![p] = None]
    BY <1>10 DEF DropAside, Running, At
  <2>. QED
    BY <2>1, LiveGoesIdle DEF LiveInv
<1>11. ASSUME NEW p \in Publishers, Crash(p) PROVE LiveInv'
  <2>1. /\ Running(p) /\ Goto(p, "idle") /\ UNCHANGED <<live, valid>>
        /\ UNCHANGED aside \/ \E d : aside' = [aside EXCEPT ![p] = d]
    BY <1>11 DEF Crash, Running
  <2>2. aside' = [i \in Publishers |-> aside'[i]]
    BY <2>1 DEF LiveInv
  <2>. QED
    BY <2>1, <2>2, LiveGoesIdle
<1>. QED
  BY <1>1, <1>2, <1>3, <1>4, <1>5, <1>6, <1>7, <1>8, <1>9, <1>10, <1>11
     DEF Next, Promote

(* One publication at a time: live/ is never made of two publications, nor *)
(* of one that was not validated (promote_release_json_to_public_root).    *)
THEOREM LiveIsWhole == Exclusive => (Spec => []LiveWhole)
<1> SUFFICES ASSUME Exclusive PROVE Spec => []LiveWhole
  OBVIOUS
<1>1. PubInv /\ PubInv' /\ LiveInv /\ [Next]_vars => LiveInv'
  BY LiveStep
<1>2. LiveInv => LiveWhole
  BY DEF LiveInv
<1>3. Spec => []PubInv
  BY PubInvariant
<1>. QED
  BY LiveInit, <1>1, <1>2, <1>3, PTL DEF Spec

(* Whatever readers start from, current or live/, leads to one whole       *)
(* publication that the validator accepted.                                *)
THEOREM PublishedIsWhole == Exclusive => (Spec => []PublishedWhole)
BY CurrentIsKept, LiveIsWhole, PTL DEF PublishedWhole
-----------------------------------------------------------------------------
(* The swap moves the copy in live/ to the backup, and the backup goes     *)
(* only when a whole live/ is in place again.                              *)
SwapInv == \A p \in Publishers : At(p, "liveDrop") => Whole(live)

Loses == ~LiveSafe' /\ ~\E p \in Publishers : ClearsTheLastCopy(p)

LEMMA SwapInit == Init => SwapInv
BY DEF Init, SwapInv, At

(* A running publication that goes on, or ends.                            *)
LEMMA SwapByPublisher ==
  ASSUME PubInv, NEW p \in Publishers, Running(p), NEW l \in Labels, Goto(p, l),
         l = "liveDrop" => Whole(live)'
  PROVE  SwapInv'
<1>1. \A q \in Publishers \ {p} : pc'[q] = "idle"
  BY OthersIdle DEF At
<1>2. pc'[p] = l
  BY OthersIdle
<1>. QED
  BY <1>1, <1>2 DEF SwapInv, At

LEMMA SwapStep ==
  ASSUME Exclusive, PubInv, PubInv', LiveInv, SwapInv, [Next]_vars
  PROVE  SwapInv' /\ (LiveSafe => ~Loses)
<1> USE DEF releaseDirs, liveDirs, draftVars, faultVars
<1>0. \A v \in valid : Content(v) # None
  BY Contents DEF PubInv, Shape
<1>1. CASE UNCHANGED vars
  BY <1>1 DEF vars, SwapInv, LiveSafe, Loses, Whole, At
<1>2. ASSUME valid \subseteq valid', UNCHANGED <<live, aside>> PROVE LiveSafe => LiveSafe'
  BY <1>2 DEF LiveSafe, Whole
<1>3. ASSUME NEW p \in Publishers, NEW r \in Releases, Begin(p, r)
      PROVE  SwapInv' /\ (LiveSafe => LiveSafe')
  <2>1. /\ pc = [q \in Publishers |-> "idle"] /\ pc' = [pc EXCEPT ![p] = "stage"]
        /\ valid \subseteq valid' /\ UNCHANGED <<live, aside>>
    BY <1>3 DEF Begin, LockFree, At, Goto, PubInv, Shape
  <2>. QED
    BY <1>2, <2>1 DEF SwapInv, At
<1>4. ASSUME NEW p \in Publishers, Release(p) \/ CopyFails(p) \/ \E f \in Files : CopyFile(p, f)
      PROVE  SwapInv' /\ (LiveSafe => LiveSafe')
  <2>1. PICK l \in Labels \ {"liveDrop"} : Goto(p, l)
    BY <1>4 DEF Release, Stage, WriteFile, Validate, RetireFinal, InstallFinal,
       InstallFails, DropOld, Point, CopyFails, CopyFile, Labels
  <2>2. Running(p) /\ UNCHANGED <<live, aside, valid>>
    BY <1>4 DEF Release, Stage, WriteFile, Validate, RetireFinal, InstallFinal,
       InstallFails, DropOld, Point, CopyFails, CopyFile, Running, At
  <2>. QED
    BY <1>2, <2>1, <2>2, SwapByPublisher
<1>5. ASSUME NEW p \in Publishers, Prepare(p) PROVE SwapInv' /\ (LiveSafe => ~Loses)
  <2>1. PICK l \in {"idle", "copy"} : Goto(p, l)
    BY <1>5 DEF Prepare
  <2>2. /\ Running(p) /\ At(p, "prepare") /\ UNCHANGED <<live, valid>>
        /\ \A q \in Publishers \ {p} : aside'[q] = aside[q]
    BY <1>5 DEF Prepare, Running, At, LiveInv
  <2>3. SwapInv'
    BY <2>1, <2>2, SwapByPublisher DEF Labels
  <2>4. ASSUME LiveSafe, Loses PROVE FALSE
    <3>1. ~Whole(live) /\ \A q \in Publishers \ {p} : ~Whole(aside[q])
      BY <2>2, <2>4 DEF Loses, LiveSafe, Whole
    <3>2. live = None /\ Whole(aside[p])
      BY <2>4, <3>1 DEF LiveSafe, LiveInv, LiveWhole
    <3>. QED
      BY <2>2, <2>4, <3>2 DEF Loses, ClearsTheLastCopy
  <2>. QED
    BY <2>3, <2>4
<1>6. ASSUME NEW p \in Publishers, RetireLive(p) PROVE SwapInv' /\ (LiveSafe => LiveSafe')
  <2>1. /\ Running(p) /\ Goto(p, "liveInstall") /\ UNCHANGED valid
        /\ aside' = IF live # None THEN [aside EXCEPT ![p] = live] ELSE aside
        /\ aside = [i \in Publishers |-> aside[i]] /\ aside[p] = None
    BY <1>6 DEF RetireLive, Running, At, LiveInv, LiveProgress
  <2>2. SwapInv'
    BY <2>1, SwapByPublisher DEF Labels
  <2>3. ASSUME Whole(live) PROVE LiveSafe'
    <3>1. aside'[p] = live
      BY <1>0, <2>1, <2>3 DEF Whole
    <3>. QED
      BY <2>1, <2>3, <3>1 DEF LiveSafe, Whole
  <2>4. ASSUME NEW i \in Publishers, Whole(aside[i]) PROVE LiveSafe'
    <3>1. aside'[i] = aside[i]
      BY <1>0, <2>1, <2>4 DEF Whole
    <3>. QED
      BY <2>1, <2>4, <3>1 DEF LiveSafe, Whole
  <2>. QED
    BY <2>2, <2>3, <2>4 DEF LiveSafe
<1>7. ASSUME NEW p \in Publishers, InstallLive(p) PROVE SwapInv' /\ LiveSafe'
  <2>1. /\ At(p, "liveInstall") /\ Running(p) /\ Goto(p, "liveDrop") /\ live' = candidate
        /\ UNCHANGED <<valid, ver>>
    BY <1>7 DEF InstallLive, Running, At
  <2>2. candidate = Content(ver[p]) /\ ver[p] \in valid
    BY <2>1 DEF LiveInv, LiveProgress, At, PubInv, ReleaseInv, Progress, Installed
  <2>3. Whole(live)'
    BY <2>1, <2>2 DEF Whole, Content
  <2>. QED
    BY <2>1, <2>3, SwapByPublisher DEF Labels, LiveSafe
<1>8. ASSUME NEW p \in Publishers, InstallLiveFails(p)
      PROVE  SwapInv' /\ (LiveSafe => LiveSafe')
  <2>1. /\ Running(p) /\ Goto(p, "idle") /\ UNCHANGED valid /\ RestoreLive(p)
        /\ aside = [i \in Publishers |-> aside[i]]
    BY <1>8 DEF InstallLiveFails, Running, At, LiveInv
  <2>2. SwapInv'
    BY <2>1, SwapByPublisher DEF Labels
  <2>3. CASE aside[p] # None /\ live = None
    <3>1. live' = aside[p] /\ \A i \in Publishers \ {p} : aside'[i] = aside[i]
      BY <2>1, <2>3 DEF RestoreLive
    <3>2. ~Whole(live)
      BY <1>0, <2>3 DEF Whole
    <3>3. ASSUME NEW i \in Publishers, Whole(aside[i]) PROVE LiveSafe'
      BY <2>1, <3>1, <3>3 DEF LiveSafe, Whole
    <3>. QED
      BY <2>2, <3>2, <3>3 DEF LiveSafe
  <2>4. CASE ~(aside[p] # None /\ live = None)
    BY <1>2, <2>1, <2>2, <2>4 DEF RestoreLive
  <2>. QED
    BY <2>3, <2>4
<1>9. ASSUME NEW p \in Publishers, DropAside(p) PROVE SwapInv' /\ LiveSafe'
  <2>1. Running(p) /\ At(p, "liveDrop") /\ Goto(p, "idle") /\ UNCHANGED <<live, valid>>
    BY <1>9 DEF DropAside, Running, At
  <2>2. SwapInv' /\ Whole(live)
    BY <2>1, SwapByPublisher DEF Labels, SwapInv
  <2>. QED
    BY <2>1, <2>2 DEF LiveSafe, Whole
<1>10. ASSUME NEW p \in Publishers, Crash(p) PROVE SwapInv' /\ (LiveSafe => ~Loses)
  <2>1. /\ Running(p) /\ Goto(p, "idle") /\ UNCHANGED <<live, valid>>
        /\ aside = [i \in Publishers |-> aside[i]]
    BY <1>10 DEF Crash, Running, LiveInv
  <2>2. SwapInv'
    BY <2>1, SwapByPublisher DEF Labels
  <2>3. CASE aside' = aside
    BY <1>2, <2>1, <2>2, <2>3 DEF Loses
  <2>4. CASE At(p, "liveDrop")
    BY <2>1, <2>2, <2>4 DEF SwapInv, LiveSafe, Loses, Whole
  <2>5. CASE aside' # aside /\ ~At(p, "liveDrop")
    <3>1. At(p, "prepare") /\ \E d : aside' = [aside EXCEPT ![p] = d]
      BY <1>10, <2>5 DEF Crash
    <3>2. \A q \in Publishers \ {p} : aside'[q] = aside[q]
      BY <2>1, <3>1
    <3>3. ASSUME LiveSafe, Loses PROVE FALSE
      <4>1. ~Whole(live) /\ \A q \in Publishers \ {p} : ~Whole(aside[q])
        BY <2>1, <3>2, <3>3 DEF Loses, LiveSafe, Whole
      <4>2. live = None /\ Whole(aside[p])
        BY <3>3, <4>1 DEF LiveSafe, LiveInv, LiveWhole
      <4>. QED
        BY <3>1, <3>3, <4>2 DEF Loses, ClearsTheLastCopy
    <3>. QED
      BY <2>2, <3>3
  <2>. QED
    BY <2>3, <2>4, <2>5
<1>. QED
  BY <1>1, <1>3, <1>4, <1>5, <1>6, <1>7, <1>8, <1>9, <1>10 DEF Next, Promote, Loses

(* OnlyReusedIdLosesLive: of all the steps of publications under any       *)
(* process ids, their failures and their kills, the one that can lose the  *)
(* last whole copy of live/ is the rmtree of a backup that a killed        *)
(* process of the same id left, while there is no live/ (public_sync.py,   *)
(* line 218).                                                              *)
THEOREM LiveIsLostOneWay == Exclusive => (Spec => OnlyReusedIdLosesLive)
<1> SUFFICES ASSUME Exclusive PROVE Spec => OnlyReusedIdLosesLive
  OBVIOUS
<1>1. PubInv /\ PubInv' /\ LiveInv /\ [Next]_vars => LiveInv'
  BY LiveStep
<1>2. PubInv /\ PubInv' /\ LiveInv /\ SwapInv /\ [Next]_vars
        => SwapInv' /\ (LiveSafe => LiveSafe' \/ \E p \in Publishers : ClearsTheLastCopy(p))
  BY SwapStep DEF Loses
<1>3. Spec => []PubInv
  BY PubInvariant
<1>. QED
  BY LiveInit, SwapInit, <1>1, <1>2, <1>3, PTL DEF Spec, OnlyReusedIdLosesLive
=============================================================================
