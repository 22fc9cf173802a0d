------------------------ MODULE IdentityReviewProofs ------------------------
(***************************************************************************)
(* The review queue for any number of operators, reviews, fighters and     *)
(* identities.                                                             *)
(*                                                                         *)
(* A session works from a stale copy of its row, so the invariant says how *)
(* a copy and the row are related: the status of a row determines its      *)
(* version (Ranked), and a copy is not newer than the row and equal to it  *)
(* when the versions agree (Copied).  Hence the claim, which compares the  *)
(* versions, only succeeds on the very row the session has checked.        *)
(***************************************************************************)
EXTENDS IdentityReviewProps, TLAPS

Actions == {"approved", "rejected", "reversed"}

OpTypes == [pc : {"idle", "loaded", "checked", "claim"},
            request : Requests \cup {None}, row : ReviewRows]

RsTypes == [pc : {"idle", "queue", "link", "enqueue"},
            identity : Identities \cup {None}, bout : Bouts \cup {None},
            fighter : Fighters \cup {None}, review : ReviewIds \cup {None}]

Rank(row) ==
  /\ row.status = "absent" => row.version = 0
  /\ row.status = "pending" => row.version = 1
  /\ row.status \in {"approved", "rejected"} => row.version = 2
  /\ row.status = "reversed" => row.version = 3

(* What an approval found before it is nothing or its own fighter.         *)
Prior(row) ==
  /\ row.status = "pending" => row.prior = None
  /\ row.status = "approved" => row.prior \in {None, row.decision}

Ranked == \A r \in ReviewIds : Rank(reviews[r]) /\ Prior(reviews[r])

Copied(o) ==
  op[o].pc # "idle" =>
    LET row == op[o].row
        committed == reviews[op[o].request.review]
    IN /\ Rank(row) /\ row.version # 0 /\ row.version <= committed.version
       /\ row.version = committed.version =>
            row.status = committed.status /\ row.decision = committed.decision

Checked(o) ==
  LET request == op[o].request
      row == op[o].row
  IN /\ op[o].pc = "loaded" => Prior(row)
     /\ op[o].pc = "checked" => request.kind = "approve"
     /\ op[o].pc \in {"checked", "claim"} => Applies(request, row)
     /\ op[o].pc = "claim" =>
          IF request.kind = "approve" THEN row.prior \in {None, request.fighter}
                                      ELSE Prior(row)

(* What a resolver works on.                                               *)
Busy(p) ==
  /\ rs[p].pc # "idle" => rs[p].identity \in Identities
  /\ rs[p].pc = "link" => rs[p].fighter \in Fighters
  /\ rs[p].pc = "enqueue" /\ rs[p].review # None =>
       Exists(rs[p].review) /\ IdentityOf(rs[p].review) = rs[p].identity

RInv ==
  /\ ReviewTypeOK /\ Ranked /\ OneOpenReview
  /\ \A o \in Operators : Copied(o) /\ Checked(o)
  /\ \A p \in Resolvers : Busy(p)
-----------------------------------------------------------------------------
LEMMA ReviewInit == Init => RInv
<1>. SUFFICES ASSUME Init PROVE RInv
  OBVIOUS
<1>1. Idle \in OpTypes /\ Waiting \in RsTypes /\ NoReview \in ReviewRows
  BY DEF Idle, Waiting, OpTypes, RsTypes, ReviewRows
<1>2. \A r \in ReviewIds : reviews[r] = NoReview /\ ~Exists(r)
  BY DEF Init, NoReview, Exists
<1>3. \A o \in Operators : op[o].pc = "idle"
  BY DEF Init, Idle
<1>4. \A p \in Resolvers : rs[p].pc = "idle"
  BY DEF Init, Waiting
<1>5. ReviewTypeOK
  <2>1. op \in [Operators -> OpTypes] /\ rs \in [Resolvers -> RsTypes]
    BY <1>1 DEF Init
  <2>2. reviews \in [ReviewIds -> ReviewRows] /\ mapping \in [Identities -> Fighters \cup {None}]
    BY <1>1 DEF Init
  <2>3. about \in [ReviewIds -> [identity : Identities \cup {None}, bout : Bouts \cup {None}]]
    BY DEF Init
  <2>4. /\ evidence \in [ReviewIds -> Seq({"approved", "rejected", "reversed"})]
        /\ blocks \subseteq Bouts \X ReviewIds /\ answer \in Requests \cup {None}
    BY DEF Init
  <2>. QED
    BY <1>2, <1>3, <2>1, <2>2, <2>3, <2>4 DEF ReviewTypeOK, OpTypes, RsTypes
<1>6. Ranked
  BY <1>2 DEF Ranked, Rank, Prior, NoReview
<1>7. OneOpenReview
  BY <1>2 DEF OneOpenReview, NoReview
<1>8. \A o \in Operators : Copied(o) /\ Checked(o)
  BY <1>3 DEF Copied, Checked
<1>9. \A p \in Resolvers : Busy(p)
  BY <1>4 DEF Busy
<1>. QED
  BY <1>5, <1>6, <1>7, <1>8, <1>9 DEF RInv

(* A command that moves on without writing.                                *)
LEMMA CommandMoves ==
  ASSUME RInv, NEW o \in Operators, NEW c \in OpTypes, UNCHANGED <<tables, rs>>,
         op' = [op EXCEPT ![o] = c], answer' \in Requests \cup {None},
         c.pc # "idle" => c.request # None /\ Exists(c.request.review),
         Copied(o)', Checked(o)'
  PROVE  RInv'
<1>1. op \in [Operators -> OpTypes]
  BY DEF RInv, ReviewTypeOK, OpTypes
<1>2. op' \in [Operators -> OpTypes] /\ op'[o] = c
  BY <1>1
<1>3. \A x \in Operators : x # o => op'[x] = op[x]
  BY <1>1
<1>4. ReviewTypeOK'
  <2>1. \A x \in Operators : op'[x].pc # "idle" =>
          op'[x].request # None /\ reviews'[op'[x].request.review].status # "absent"
    BY <1>2, <1>3 DEF RInv, ReviewTypeOK, tables, Exists
  <2>. QED
    BY <1>2, <2>1 DEF RInv, ReviewTypeOK, OpTypes, tables, Exists, IdentityOf
<1>5. \A x \in Operators : Copied(x)' /\ Checked(x)'
  BY <1>3 DEF RInv, Copied, Checked, tables
<1>6. Ranked' /\ OneOpenReview' /\ \A p \in Resolvers : Busy(p)'
  BY DEF RInv, Ranked, OneOpenReview, Busy, tables, IdentityOf, Exists
<1>. QED
  BY <1>4, <1>5, <1>6 DEF RInv

LEMMA LoadKeeps ==
  ASSUME RInv, NEW o \in Operators, NEW request \in Requests, Load(o, request)
  PROVE  RInv'
<1>. DEFINE c == [pc |-> "loaded", request |-> request, row |-> reviews[request.review]]
<1>1. request.review \in ReviewIds /\ request # None
  BY ReviewAssumption DEF Requests, Request
<1>2. reviews[request.review] \in ReviewRows
  BY <1>1 DEF RInv, ReviewTypeOK
<1>3. c \in OpTypes
  BY <1>2 DEF OpTypes
<1>4. op' = [op EXCEPT ![o] = c] /\ answer' = None /\ UNCHANGED <<tables, rs>>
  BY DEF Load
<1>5. op'[o] = c
  BY <1>4 DEF RInv, ReviewTypeOK
<1>6. Exists(request.review) /\ Rank(reviews[request.review]) /\ Prior(reviews[request.review])
  BY <1>1 DEF Load, RInv, Ranked
<1>7. Copied(o)' /\ Checked(o)'
  BY <1>2, <1>4, <1>5, <1>6 DEF Copied, Checked, tables, Exists, Rank, ReviewRows, Columns, NoReview,
     Prior
<1>. QED
  BY <1>1, <1>3, <1>4, <1>6, <1>7, CommandMoves

(* A command that ends.                                                    *)
LEMMA EndKeeps ==
  ASSUME RInv, NEW o \in Operators, NEW reply \in Requests \cup {None},
         UNCHANGED <<tables, rs>>, Ended(o, reply)
  PROVE  RInv'
<1>1. Idle \in OpTypes /\ Idle.pc = "idle"
  BY DEF Idle, OpTypes, ReviewRows
<1>2. op' = [op EXCEPT ![o] = Idle] /\ op'[o] = Idle /\ answer' \in Requests \cup {None}
  BY DEF Ended, RInv, ReviewTypeOK
<1>3. Copied(o)' /\ Checked(o)'
  BY <1>1, <1>2 DEF Copied, Checked
<1>. QED
  BY <1>1, <1>2, <1>3, CommandMoves

LEMMA OpFacts ==
  ASSUME RInv, NEW o \in Operators, op[o].pc # "idle"
  PROVE  /\ op[o] \in OpTypes /\ op[o].request \in Requests /\ op[o].request \in Request
         /\ op[o].request.review \in ReviewIds /\ Exists(op[o].request.review)
         /\ op[o].row \in ReviewRows /\ reviews[op[o].request.review] \in ReviewRows
<1>1. op[o] \in OpTypes /\ op[o].request # None
  BY DEF RInv, ReviewTypeOK, OpTypes
<1>2. op[o].request \in Requests /\ op[o].row \in ReviewRows
  BY <1>1 DEF OpTypes
<1>3. op[o].request \in Request
  BY <1>2 DEF Requests
<1>4. op[o].request.review \in ReviewIds
  BY <1>3 DEF Request
<1>. QED
  BY <1>1, <1>2, <1>3, <1>4 DEF RInv, ReviewTypeOK

(* What a session sees after its look at the committed row: that row, but  *)
(* for the prior mapping.                                                  *)
LEMMA SyncedRow ==
  ASSUME RInv, NEW o \in Operators, op[o].pc = "loaded",
         NEW row, row = Synced(op[o].row, reviews[op[o].request.review])
  PROVE  /\ row \in ReviewRows /\ row.status # "absent"
         /\ row.status = reviews[op[o].request.review].status
         /\ row.decision = reviews[op[o].request.review].decision
         /\ row.version = reviews[op[o].request.review].version
         /\ Rank(row) /\ row.version # 0 /\ Prior(row)
<1>. DEFINE committed == reviews[op[o].request.review]
<1>1. /\ op[o].row \in ReviewRows /\ committed \in ReviewRows /\ Exists(op[o].request.review)
      /\ op[o].request.review \in ReviewIds
  BY OpFacts
<1>2. Rank(committed) /\ Copied(o) /\ Checked(o)
  BY <1>1 DEF RInv, Ranked
<1>3. /\ Rank(op[o].row) /\ op[o].row.version # 0 /\ op[o].row.version <= committed.version
      /\ op[o].row.version = committed.version =>
           op[o].row.status = committed.status /\ op[o].row.decision = committed.decision
      /\ Prior(op[o].row)
  BY <1>2 DEF Copied, Checked
<1>4. op[o].row.version \in Nat /\ committed.version \in Nat
  BY <1>1 DEF ReviewRows, Columns, NoReview
<1>5. CASE committed.version > op[o].row.version
  <2>1. row = [committed EXCEPT !.prior = op[o].row.prior]
    BY <1>5 DEF Synced
  <2>2. committed \in Columns /\ op[o].row \in Columns
    BY <1>1, <1>3, <1>5 DEF ReviewRows, Exists, NoReview
  <2>3. /\ row \in Columns /\ row.status = committed.status /\ row.version = committed.version
        /\ row.decision = committed.decision /\ row.prior = op[o].row.prior
    BY <2>1, <2>2 DEF Columns
  <2>4. Prior(row)
    BY <1>2, <1>3, <1>5, <2>2, <2>3 DEF Prior, Rank, Columns
  <2>. QED
    BY <1>2, <1>3, <1>4, <1>5, <2>3, <2>4 DEF Rank, ReviewRows, Columns
<1>6. CASE ~(committed.version > op[o].row.version)
  <2>1. row = op[o].row /\ row.version = committed.version
    BY <1>3, <1>4, <1>6 DEF Synced
  <2>. QED
    BY <1>1, <1>3, <2>1 DEF Exists
<1>. QED
  BY <1>5, <1>6

LEMMA CheckKeeps ==
  ASSUME RInv, NEW o \in Operators, Check(o)
  PROVE  RInv'
<1>. DEFINE request == op[o].request
            row == Synced(op[o].row, reviews[request.review])
            c == [op[o] EXCEPT !.row = row,
                               !.pc = IF request.kind = "approve" THEN "checked" ELSE "claim"]
<1>1. op[o].pc = "loaded" /\ UNCHANGED <<tables, rs>>
  BY DEF Check
<1>2. op[o] \in OpTypes /\ request \in Requests /\ request \in Request /\ Exists(request.review)
  BY <1>1, OpFacts
<1>3. /\ row \in ReviewRows /\ row.status = reviews[request.review].status
      /\ row.decision = reviews[request.review].decision
      /\ row.version = reviews[request.review].version
      /\ Rank(row) /\ row.version # 0 /\ Prior(row)
  BY <1>1, SyncedRow
<1>4. CASE Refused(o) \/ Done(o)
  BY <1>1, <1>2, <1>4, EndKeeps DEF Refused, Done
<1>5. CASE /\ Applies(request, row)
           /\ op' = [op EXCEPT ![o].row = row,
                       ![o].pc = IF request.kind = "approve" THEN "checked" ELSE "claim"]
           /\ answer' = None
  <2>1. /\ c \in OpTypes /\ c.request = request /\ c.row = row
        /\ c.pc = IF request.kind = "approve" THEN "checked" ELSE "claim"
    BY <1>2, <1>3 DEF OpTypes
  <2>2. op' = [op EXCEPT ![o] = c] /\ op'[o] = c
    BY <1>5 DEF RInv, ReviewTypeOK
  <2>. HIDE DEF c, row
  <2>6. reviews' = reviews /\ row.version \in Nat
    BY <1>1, <1>3 DEF tables, ReviewRows, Columns, NoReview
  <2>3. Copied(o)'
    BY <1>3, <2>1, <2>2, <2>6 DEF Copied
  <2>4. Checked(o)'
    BY <1>3, <1>5, <2>1, <2>2 DEF Checked
  <2>5. request # None
    BY <1>2, ReviewAssumption
  <2>. QED
    BY <1>1, <1>2, <1>5, <2>1, <2>2, <2>3, <2>4, <2>5, CommandMoves
<1>. QED
  BY <1>4, <1>5 DEF Check

LEMMA ReadMappingKeeps ==
  ASSUME RInv, NEW o \in Operators, ReadMapping(o)
  PROVE  RInv'
<1>. DEFINE request == op[o].request
            i == IdentityOf(request.review)
            c == [op[o] EXCEPT !.pc = "claim", !.row.prior = mapping[i]]
<1>1. op[o].pc = "checked" /\ UNCHANGED <<tables, rs>>
  BY DEF ReadMapping
<1>2. /\ op[o] \in OpTypes /\ request \in Requests /\ request \in Request
      /\ request.review \in ReviewIds /\ Exists(request.review) /\ op[o].row \in ReviewRows
  BY <1>1, OpFacts
<1>3. request # None
  BY <1>2, ReviewAssumption
<1>4. CASE Refused(o)
  BY <1>1, <1>4, EndKeeps DEF Refused
<1>5. CASE /\ mapping[i] \in {None, request.fighter} /\ answer' = None
           /\ op' = [op EXCEPT ![o].pc = "claim", ![o].row.prior = mapping[i]]
  <2>1. i \in Identities /\ mapping[i] \in Fighters \cup {None}
    BY <1>2 DEF RInv, ReviewTypeOK
  <2>2. op[o].row \in Columns /\ Checked(o) /\ Copied(o)
    BY <1>1, <1>2 DEF RInv, ReviewRows, Copied, NoReview
  <2>3. /\ c.pc = "claim" /\ c.request = request
        /\ c.row = [op[o].row EXCEPT !.prior = mapping[i]]
    BY <1>2 DEF OpTypes
  <2>4. /\ c.row \in Columns /\ c.row.status = op[o].row.status
        /\ c.row.version = op[o].row.version /\ c.row.decision = op[o].row.decision
        /\ c.row.prior = mapping[i]
    BY <2>1, <2>2, <2>3 DEF Columns
  <2>5. c \in OpTypes
    BY <1>2, <2>3, <2>4 DEF OpTypes, ReviewRows
  <2>6. op' = [op EXCEPT ![o] = c] /\ op'[o] = c
    BY <1>5 DEF RInv, ReviewTypeOK
  <2>7. Copied(o)'
    BY <1>1, <2>2, <2>3, <2>4, <2>6 DEF Copied, tables, Rank
  <2>8. Checked(o)'
    BY <1>1, <1>5, <2>2, <2>3, <2>4, <2>6 DEF Checked, Applies
  <2>. QED
    BY <1>1, <1>2, <1>3, <1>5, <2>3, <2>5, <2>6, <2>7, <2>8, CommandMoves
<1>. QED
  BY <1>4, <1>5 DEF ReadMapping

LEMMA LoseClaimKeeps ==
  ASSUME RInv, NEW o \in Operators, LoseClaim(o)
  PROVE  RInv'
<1>1. op[o].pc # "idle" /\ UNCHANGED <<tables, rs>>
  BY DEF LoseClaim
<1>2. op[o].request \in Requests
  BY <1>1, OpFacts
<1>. QED
  BY <1>1, <1>2, EndKeeps DEF LoseClaim, Done, Refused
-----------------------------------------------------------------------------
(* The row that a successful claim compares with is the one it replaces.   *)
LEMMA ClaimedRow ==
  ASSUME RInv, NEW o \in Operators, op[o].pc = "claim",
         Claimable(op[o].request, op[o].row)
  PROVE  /\ reviews[op[o].request.review] \in Columns
         /\ op[o].row \in Columns
         /\ Applies(op[o].request, reviews[op[o].request.review])
         /\ op[o].row.version = reviews[op[o].request.review].version
         /\ op[o].row.status = reviews[op[o].request.review].status
         /\ op[o].row.decision = reviews[op[o].request.review].decision
<1>1. /\ op[o].row \in ReviewRows /\ reviews[op[o].request.review] \in ReviewRows
      /\ Exists(op[o].request.review)
  BY OpFacts
<1>2. Copied(o)
  BY DEF RInv
<1>. QED
  BY <1>1, <1>2 DEF Claimable, Copied, ReviewRows, NoReview, Exists

(* A decision or reversal that is entered.                                 *)
LEMMA RecordKeeps ==
  ASSUME RInv, NEW o \in Operators, op[o].pc = "claim",
         Claimable(op[o].request, op[o].row),
         NEW new \in Columns, new.status \in Actions, Rank(new), Prior(new),
         new.version = op[o].row.version + 1,
         Record(op[o].request.review, new), Done(o),
         mapping' \in [Identities -> Fighters \cup {None}],
         blocks' \subseteq Bouts \X ReviewIds, UNCHANGED <<about, rs>>
  PROVE  RInv'
<1>. DEFINE r == op[o].request.review
<1>1. /\ r \in ReviewIds /\ Exists(r) /\ op[o].request \in Requests
  BY OpFacts
<1>2. /\ reviews' = [reviews EXCEPT ![r] = new]
      /\ evidence' = [evidence EXCEPT ![r] = Append(@, new.status)]
  BY DEF Record
<1>3. reviews'[r] = new /\ \A q \in ReviewIds : q # r => reviews'[q] = reviews[q]
  BY <1>1, <1>2 DEF RInv, ReviewTypeOK
<1>4. \A q \in ReviewIds : Exists(q)' <=> Exists(q)
  BY <1>1, <1>3 DEF Exists, Actions
<1>5. op' = [op EXCEPT ![o] = Idle] /\ op'[o] = Idle /\ Idle.pc = "idle" /\ Idle \in OpTypes
  BY DEF Done, Ended, RInv, ReviewTypeOK, Idle, OpTypes, ReviewRows
<1>6. \A x \in Operators : x # o => op'[x] = op[x]
  BY <1>5 DEF RInv, ReviewTypeOK
<1>7. ReviewTypeOK'
  <2>1. reviews' \in [ReviewIds -> ReviewRows]
    BY <1>1, <1>2 DEF RInv, ReviewTypeOK, ReviewRows
  <2>2. evidence' \in [ReviewIds -> Seq({"approved", "rejected", "reversed"})]
    <3>1. evidence[r] \in Seq(Actions)
      BY <1>1 DEF RInv, ReviewTypeOK, Actions
    <3>2. Append(evidence[r], new.status) \in Seq(Actions)
      BY <3>1
    <3>. QED
      BY <1>1, <1>2, <3>2 DEF RInv, ReviewTypeOK, Actions
  <2>3. op' \in [Operators -> OpTypes] /\ answer' \in Requests \cup {None}
    BY <1>1, <1>5 DEF RInv, ReviewTypeOK, OpTypes, Done, Ended
  <2>4. \A x \in Operators : op'[x].pc # "idle" =>
          op'[x].request # None /\ op'[x].request.review \in ReviewIds
          /\ Exists(op'[x].request.review)
    BY <1>5, <1>6, OpFacts DEF RInv, ReviewTypeOK
  <2>5. \A x \in Operators : op'[x].pc # "idle" =>
          op'[x].request # None /\ reviews'[op'[x].request.review].status # "absent"
    BY <1>4, <2>4 DEF Exists
  <2>. QED
    BY <1>4, <2>1, <2>2, <2>3, <2>5 DEF RInv, ReviewTypeOK, OpTypes, IdentityOf, Exists
<1>8. Ranked'
  BY <1>3 DEF RInv, Ranked
<1>9. OneOpenReview'
  BY <1>3 DEF RInv, OneOpenReview, Actions, IdentityOf
<1>10. \A x \in Operators : Copied(x)' /\ Checked(x)'
  <2>. SUFFICES ASSUME NEW x \in Operators, op[x].pc # "idle", x # o
                PROVE Copied(x)' /\ Checked(x)'
    BY <1>5, <1>6 DEF Copied, Checked
  <2>1. op'[x] = op[x] /\ Copied(x) /\ Checked(x)
    BY <1>6 DEF RInv
  <2>2. /\ op[x].request.review \in ReviewIds /\ op[x].row \in ReviewRows
        /\ reviews[op[x].request.review] \in ReviewRows
    BY OpFacts
  <2>3. op[x].row.version \in Nat /\ reviews[op[x].request.review].version \in Nat
    BY <2>2 DEF ReviewRows, Columns, NoReview
  <2>4. op[x].request.review = r => new.version = reviews[op[x].request.review].version + 1
    BY ClaimedRow
  <2>5. Copied(x)'
    BY <1>3, <2>1, <2>2, <2>3, <2>4 DEF Copied
  <2>. QED
    BY <2>1, <2>5 DEF Checked
<1>11. \A p \in Resolvers : Busy(p)'
  BY <1>1, <1>4 DEF RInv, ReviewTypeOK, RsTypes, Busy, IdentityOf
<1>. QED
  BY <1>7, <1>8, <1>9, <1>10, <1>11 DEF RInv

LEMMA UpsertedTypes ==
  ASSUME RInv, NEW i \in Identities, NEW f \in Fighters
  PROVE  Upserted(i, f) \in [Identities -> Fighters \cup {None}]
BY DEF RInv, ReviewTypeOK, Upserted

LEMMA ApproveKeeps ==
  ASSUME RInv, NEW o \in Operators, Approve(o)
  PROVE  RInv'
<1>. DEFINE request == op[o].request
            r == request.review
            row == op[o].row
            new == [status |-> "approved", version |-> row.version + 1,
                    decision |-> request.fighter, prior |-> row.prior]
<1>1. /\ op[o].pc = "claim" /\ request.kind = "approve" /\ Claimable(request, row)
      /\ Record(r, new) /\ Done(o) /\ UNCHANGED <<about, rs>>
      /\ mapping' = Upserted(IdentityOf(r), request.fighter)
      /\ blocks' = blocks \ BlocksOf(IdentityOf(r))
  BY DEF Approve
<1>2. /\ request \in Requests /\ request \in Request /\ r \in ReviewIds /\ Exists(r)
  BY <1>1, OpFacts
<1>3. request.fighter \in Fighters
  BY <1>1, <1>2 DEF Requests, Request
<1>4. row \in Columns /\ row.status = "pending"
  BY <1>1, ClaimedRow DEF Applies
<1>5. row.prior \in {None, request.fighter} /\ row.version = 1
  BY <1>1, <1>4 DEF RInv, Checked, Copied, Rank
<1>6. new \in Columns /\ new.status \in Actions /\ new.version = row.version + 1
  BY <1>3, <1>4 DEF Columns, Actions
<1>7. Rank(new) /\ Prior(new)
  BY <1>5 DEF Rank, Prior
<1>8. mapping' \in [Identities -> Fighters \cup {None}]
  BY <1>1, <1>2, <1>3, UpsertedTypes DEF RInv, ReviewTypeOK
<1>9. blocks' \subseteq Bouts \X ReviewIds
  BY <1>1 DEF RInv, ReviewTypeOK
<1>. HIDE DEF new
<1>. QED
  BY <1>1, <1>6, <1>7, <1>8, <1>9, RecordKeeps

Closed(row, status, version) ==
  [row EXCEPT !.status = status, !.decision = None, !.version = version]

LEMMA ClosedRow ==
  ASSUME NEW c \in Columns, NEW s \in Actions, NEW n \in Nat
  PROVE  /\ Closed(c, s, n) \in Columns
         /\ Closed(c, s, n).status = s /\ Closed(c, s, n).version = n
BY DEF Closed, Columns, Actions

LEMMA RejectKeeps ==
  ASSUME RInv, NEW o \in Operators, Reject(o)
  PROVE  RInv'
<1>. DEFINE request == op[o].request
            r == request.review
            row == op[o].row
            new == [reviews[r] EXCEPT !.status = "rejected", !.decision = None,
                                      !.version = row.version + 1]
<1>1. /\ op[o].pc = "claim" /\ request.kind = "reject" /\ Claimable(request, row)
      /\ Record(r, new) /\ Done(o) /\ UNCHANGED <<about, rs>>
      /\ mapping' = mapping /\ blocks' = blocks \ BlocksOf(IdentityOf(r))
  BY DEF Reject
<1>2. row \in Columns /\ reviews[r] \in Columns /\ row.status = "pending"
  BY <1>1, ClaimedRow DEF Applies
<1>3. row.version = 1
  BY <1>1, <1>2 DEF RInv, Copied, Rank
<1>4. new \in Columns /\ new.status = "rejected" /\ new.version = row.version + 1
  <2>1. row.version + 1 \in Nat /\ "rejected" \in Actions
    BY <1>3 DEF Actions
  <2>2. new = Closed(reviews[r], "rejected", row.version + 1)
    BY DEF Closed
  <2>. QED
    BY <1>2, <2>1, <2>2, ClosedRow
<1>5. Rank(new) /\ Prior(new) /\ new.status \in Actions
  BY <1>3, <1>4 DEF Rank, Prior, Actions
<1>6. mapping' \in [Identities -> Fighters \cup {None}] /\ blocks' \subseteq Bouts \X ReviewIds
  BY <1>1 DEF RInv, ReviewTypeOK
<1>. HIDE DEF new
<1>. QED
  BY <1>1, <1>4, <1>5, <1>6, RecordKeeps

(* What a reversal does to the mapping of its identity.                    *)
LEMMA ReverseReleases ==
  ASSUME RInv, NEW o \in Operators, Reverse(o)
  PROVE  /\ mapping' \in [Identities -> Fighters \cup {None}]
         /\ \A i \in Identities : mapping'[i] # mapping[i] =>
              /\ i = IdentityOf(op[o].request.review) /\ mapping'[i] = None
              /\ reviews[op[o].request.review].status = "approved"
              /\ reviews[op[o].request.review].decision = mapping[i]
<1>. DEFINE request == op[o].request
            r == request.review
            row == op[o].row
<1>1. /\ op[o].pc = "claim" /\ request.kind = "reverse" /\ Claimable(request, row)
      /\ mapping' = IF row.status = "approved"
                    THEN Released(IdentityOf(r), row.decision, row.prior) ELSE mapping
  BY DEF Reverse
<1>2. r \in ReviewIds /\ Exists(r)
  BY <1>1, OpFacts
<1>3. IdentityOf(r) \in Identities /\ mapping \in [Identities -> Fighters \cup {None}]
  BY <1>2 DEF RInv, ReviewTypeOK
<1>4. row.status = reviews[r].status /\ row.decision = reviews[r].decision
  BY <1>1, ClaimedRow
<1>5. Prior(row)
  BY <1>1 DEF RInv, Checked
<1>6. CASE row.status = "approved" /\ mapping[IdentityOf(r)] = row.decision
  <2>1. row.prior \in {None, mapping[IdentityOf(r)]}
    BY <1>5, <1>6 DEF Prior
  <2>2. mapping' = [mapping EXCEPT ![IdentityOf(r)] = row.prior]
    BY <1>1, <1>6 DEF Released
  <2>. QED
    BY <1>3, <1>4, <1>6, <2>1, <2>2
<1>7. CASE ~(row.status = "approved" /\ mapping[IdentityOf(r)] = row.decision)
  BY <1>1, <1>3, <1>7 DEF Released
<1>. QED
  BY <1>6, <1>7

LEMMA ReverseKeeps ==
  ASSUME RInv, NEW o \in Operators, Reverse(o)
  PROVE  RInv'
<1>. DEFINE request == op[o].request
            r == request.review
            row == op[o].row
            new == [reviews[r] EXCEPT !.status = "reversed", !.decision = None,
                                      !.version = row.version + 1]
<1>1. /\ op[o].pc = "claim" /\ request.kind = "reverse" /\ Claimable(request, row)
      /\ Record(r, new) /\ Done(o) /\ UNCHANGED <<about, rs>>
      /\ blocks' = blocks \cup BlockFor(about[r].bout, r)
  BY DEF Reverse
<1>2. row \in Columns /\ reviews[r] \in Columns /\ row.status \in {"approved", "rejected"}
  BY <1>1, ClaimedRow DEF Applies
<1>3. row.version = 2
  BY <1>1, <1>2 DEF RInv, Copied, Rank
<1>4. new \in Columns /\ new.status = "reversed" /\ new.version = row.version + 1
  <2>1. row.version + 1 \in Nat /\ "reversed" \in Actions
    BY <1>3 DEF Actions
  <2>2. new = Closed(reviews[r], "reversed", row.version + 1)
    BY DEF Closed
  <2>. QED
    BY <1>2, <2>1, <2>2, ClosedRow
<1>5. Rank(new) /\ Prior(new) /\ new.status \in Actions
  BY <1>3, <1>4 DEF Rank, Prior, Actions
<1>6. mapping' \in [Identities -> Fighters \cup {None}]
  BY ReverseReleases
<1>7. r \in ReviewIds
  BY <1>1, OpFacts
<1>8. blocks' \subseteq Bouts \X ReviewIds
  <2>1. about[r].bout \in Bouts \cup {None}
    BY <1>7 DEF RInv, ReviewTypeOK
  <2>. QED
    BY <1>1, <1>7, <2>1 DEF RInv, ReviewTypeOK, BlockFor
<1>. HIDE DEF new
<1>. QED
  BY <1>1, <1>4, <1>5, <1>6, <1>8, RecordKeeps
-----------------------------------------------------------------------------
(* A resolver that moves on or ends, and links what was not linked.        *)
LEMMA ResolverMoves ==
  ASSUME RInv, NEW p \in Resolvers, NEW c \in RsTypes,
         UNCHANGED <<reviews, about, evidence, op>>, answer' = None,
         rs' = [rs EXCEPT ![p] = c], Busy(p)',
         mapping' \in [Identities -> Fighters \cup {None}],
         blocks' \subseteq Bouts \X ReviewIds
  PROVE  RInv'
<1>1. rs' \in [Resolvers -> RsTypes] /\ \A x \in Resolvers : x # p => rs'[x] = rs[x]
  BY DEF RInv, ReviewTypeOK, RsTypes
<1>2. ReviewTypeOK'
  BY <1>1 DEF RInv, ReviewTypeOK, RsTypes, Exists, IdentityOf
<1>3. Ranked' /\ OneOpenReview' /\ \A o \in Operators : Copied(o)' /\ Checked(o)'
  BY DEF RInv, Ranked, OneOpenReview, Copied, Checked, IdentityOf
<1>4. \A x \in Resolvers : Busy(x)'
  BY <1>1 DEF RInv, Busy, Exists, IdentityOf
<1>. QED
  BY <1>2, <1>3, <1>4 DEF RInv

LEMMA ResolverEnds ==
  ASSUME RInv, NEW p \in Resolvers,
         UNCHANGED <<reviews, about, evidence, op>>, answer' = None,
         rs' = [rs EXCEPT ![p] = Waiting],
         mapping' \in [Identities -> Fighters \cup {None}],
         blocks' \subseteq Bouts \X ReviewIds
  PROVE  RInv'
<1>1. Waiting \in RsTypes /\ Waiting.pc = "idle"
  BY DEF Waiting, RsTypes
<1>2. rs'[p] = Waiting
  BY DEF RInv, ReviewTypeOK
<1>3. Busy(p)'
  BY <1>1, <1>2 DEF Busy
<1>. QED
  BY <1>1, <1>3, ResolverMoves

LEMMA ResolveKeeps ==
  ASSUME RInv, NEW p \in Resolvers, NEW i \in Identities, NEW bout \in Bouts \cup {None},
         Resolve(p, i, bout)
  PROVE  RInv'
<1>1. /\ UNCHANGED <<reviews, about, mapping, blocks, evidence, op>> /\ answer' = None
  BY DEF Resolve, tables
<1>2. /\ mapping' \in [Identities -> Fighters \cup {None}]
      /\ blocks' \subseteq Bouts \X ReviewIds
  BY <1>1 DEF RInv, ReviewTypeOK
<1>. DEFINE q == [Waiting EXCEPT !.pc = "queue", !.identity = i, !.bout = bout]
            l(f) == [Waiting EXCEPT !.pc = "link", !.identity = i, !.fighter = f]
<1>3. CASE rs' = [rs EXCEPT ![p] = q]
  <2>1. q \in RsTypes /\ q.pc = "queue" /\ q.identity = i
    BY DEF Waiting, RsTypes
  <2>2. rs'[p] = q
    BY <1>3 DEF RInv, ReviewTypeOK
  <2>3. Busy(p)'
    BY <2>1, <2>2 DEF Busy
  <2>. QED
    BY <1>1, <1>2, <1>3, <2>1, <2>3, ResolverMoves
<1>4. ASSUME NEW f \in Fighters, rs' = [rs EXCEPT ![p] = l(f)]
      PROVE  RInv'
  <2>1. l(f) \in RsTypes /\ l(f).pc = "link" /\ l(f).identity = i /\ l(f).fighter = f
    BY DEF Waiting, RsTypes
  <2>2. rs'[p] = l(f)
    BY <1>4 DEF RInv, ReviewTypeOK
  <2>3. Busy(p)'
    BY <2>1, <2>2 DEF Busy
  <2>. QED
    BY <1>1, <1>2, <1>4, <2>1, <2>3, ResolverMoves
<1>. QED
  BY <1>3, <1>4 DEF Resolve

LEMMA RsFacts ==
  ASSUME RInv, NEW p \in Resolvers
  PROVE  rs[p] \in RsTypes /\ Busy(p)
BY DEF RInv, ReviewTypeOK, RsTypes

LEMMA LinkKeeps ==
  ASSUME RInv, NEW p \in Resolvers, Link(p)
  PROVE  RInv'
<1>1. rs[p].identity \in Identities /\ rs[p].fighter \in Fighters
  BY RsFacts DEF Link, Busy
<1>2. mapping' \in [Identities -> Fighters \cup {None}]
  BY <1>1, UpsertedTypes DEF Link
<1>3. blocks' \subseteq Bouts \X ReviewIds
  BY DEF Link, RInv, ReviewTypeOK
<1>. QED
  BY <1>2, <1>3, ResolverEnds DEF Link

LEMMA FindPendingKeeps ==
  ASSUME RInv, NEW p \in Resolvers, FindPending(p)
  PROVE  RInv'
<1>. DEFINE i == rs[p].identity
            found == IF PendingOf(i) = {} THEN None ELSE CHOOSE r \in PendingOf(i) : TRUE
            c == [rs[p] EXCEPT !.pc = "enqueue", !.review = found]
<1>1. /\ rs[p].pc = "queue" /\ answer' = None
      /\ UNCHANGED <<reviews, about, mapping, blocks, evidence, op>>
      /\ rs' = [rs EXCEPT ![p].pc = "enqueue", ![p].review = found]
  BY DEF FindPending, tables
<1>2. found = None \/ found \in PendingOf(i)
  OBVIOUS
<1>3. found # None => found \in ReviewIds /\ Exists(found) /\ IdentityOf(found) = i
  BY <1>2 DEF PendingOf, ReviewsOf
<1>. HIDE DEF found
<1>4. rs[p] \in RsTypes /\ i \in Identities
  BY <1>1, RsFacts DEF Busy
<1>5. c \in RsTypes /\ c.pc = "enqueue" /\ c.identity = i /\ c.review = found
  BY <1>3, <1>4 DEF RsTypes
<1>6. rs' = [rs EXCEPT ![p] = c] /\ rs'[p] = c
  BY <1>1 DEF RInv, ReviewTypeOK
<1>7. Busy(p)'
  BY <1>1, <1>3, <1>4, <1>5, <1>6 DEF Busy, Exists, IdentityOf
<1>8. /\ mapping' \in [Identities -> Fighters \cup {None}]
      /\ blocks' \subseteq Bouts \X ReviewIds
  BY <1>1 DEF RInv, ReviewTypeOK
<1>. QED
  BY <1>1, <1>5, <1>6, <1>7, <1>8, ResolverMoves

LEMMA ReblockedTypes ==
  ASSUME RInv, NEW i, NEW bout \in Bouts \cup {None}, NEW r \in ReviewIds
  PROVE  Reblocked(i, bout, r) \subseteq Bouts \X ReviewIds
<1>1. blocks \subseteq Bouts \X ReviewIds
  BY DEF RInv, ReviewTypeOK
<1>2. BlockFor(bout, r) \subseteq Bouts \X ReviewIds
  BY DEF BlockFor
<1>. QED
  BY <1>1, <1>2 DEF Reblocked

LEMMA EnqueueAgainKeeps ==
  ASSUME RInv, NEW p \in Resolvers, EnqueueAgain(p)
  PROVE  RInv'
<1>1. rs[p].review \in ReviewIds /\ rs[p].bout \in Bouts \cup {None}
  BY RsFacts DEF EnqueueAgain, RsTypes
<1>2. blocks' \subseteq Bouts \X ReviewIds
  BY <1>1, ReblockedTypes DEF EnqueueAgain
<1>3. mapping' \in [Identities -> Fighters \cup {None}]
  BY DEF EnqueueAgain, RInv, ReviewTypeOK
<1>. QED
  BY <1>2, <1>3, ResolverEnds DEF EnqueueAgain

LEMMA EnqueueFailsKeeps ==
  ASSUME RInv, NEW p \in Resolvers, EnqueueFails(p)
  PROVE  RInv'
<1>1. /\ blocks' \subseteq Bouts \X ReviewIds
      /\ mapping' \in [Identities -> Fighters \cup {None}]
  BY DEF EnqueueFails, RInv, ReviewTypeOK, tables
<1>. QED
  BY <1>1, ResolverEnds DEF EnqueueFails, tables

(* What is new after a review was opened.                                  *)
LEMMA EnqueueOpens ==
  ASSUME RInv, NEW p \in Resolvers, Enqueue(p)
  PROVE  \E r \in ReviewIds :
           /\ ~Exists(r) /\ reviews'[r].status = "pending"
           /\ reviews'[r] \in Columns /\ Rank(reviews'[r]) /\ Prior(reviews'[r])
           /\ \A q \in ReviewIds : q # r => reviews'[q] = reviews[q] /\ about'[q] = about[q]
           /\ about'[r].identity = rs[p].identity /\ about'[r].bout = rs[p].bout
           /\ reviews' \in [ReviewIds -> ReviewRows]
           /\ about' \in [ReviewIds -> [identity : Identities \cup {None},
                                        bout : Bouts \cup {None}]]
           /\ blocks' = Reblocked(rs[p].identity, rs[p].bout, r)
<1>. DEFINE new == [NoReview EXCEPT !.status = "pending", !.version = 1]
            a == [identity |-> rs[p].identity, bout |-> rs[p].bout]
<1>1. PICK r \in ReviewIds :
        /\ Fresh(r)
        /\ reviews' = [reviews EXCEPT ![r] = new] /\ about' = [about EXCEPT ![r] = a]
        /\ blocks' = Reblocked(rs[p].identity, rs[p].bout, r)
  BY DEF Enqueue
<1>2. /\ new \in Columns /\ new.status = "pending" /\ new.version = 1 /\ new.prior = None
  BY DEF NoReview, Columns
<1>3. rs[p].identity \in Identities /\ rs[p].bout \in Bouts \cup {None}
  BY RsFacts DEF Enqueue, Busy, RsTypes
<1>4. /\ a \in [identity : Identities \cup {None}, bout : Bouts \cup {None}]
      /\ a.identity = rs[p].identity /\ a.bout = rs[p].bout
  BY <1>3
<1>5. Rank(new) /\ Prior(new)
  BY <1>2 DEF Rank, Prior
<1>. HIDE DEF new, a
<1>6. /\ reviews' \in [ReviewIds -> ReviewRows] /\ reviews'[r] = new
      /\ \A q \in ReviewIds : q # r => reviews'[q] = reviews[q]
  BY <1>1, <1>2 DEF RInv, ReviewTypeOK, ReviewRows
<1>7. /\ about' \in [ReviewIds -> [identity : Identities \cup {None}, bout : Bouts \cup {None}]]
      /\ about'[r] = a /\ \A q \in ReviewIds : q # r => about'[q] = about[q]
  BY <1>1, <1>4 DEF RInv, ReviewTypeOK
<1>8. ~Exists(r)
  BY <1>1 DEF Fresh
<1>. QED
  BY <1>1, <1>2, <1>4, <1>5, <1>6, <1>7, <1>8

LEMMA EnqueueKeeps ==
  ASSUME RInv, NEW p \in Resolvers, Enqueue(p)
  PROVE  RInv'
<1>1. PICK r \in ReviewIds :
        /\ ~Exists(r) /\ reviews'[r].status = "pending"
        /\ reviews'[r] \in Columns /\ Rank(reviews'[r]) /\ Prior(reviews'[r])
        /\ \A q \in ReviewIds : q # r => reviews'[q] = reviews[q] /\ about'[q] = about[q]
        /\ about'[r].identity = rs[p].identity /\ about'[r].bout = rs[p].bout
        /\ reviews' \in [ReviewIds -> ReviewRows]
        /\ about' \in [ReviewIds -> [identity : Identities \cup {None}, bout : Bouts \cup {None}]]
        /\ blocks' = Reblocked(rs[p].identity, rs[p].bout, r)
  BY EnqueueOpens
<1>2. /\ UNCHANGED <<mapping, evidence, op>> /\ answer' = None
      /\ rs' = [rs EXCEPT ![p] = Waiting] /\ Unopposed(rs[p].identity)
  BY DEF Enqueue
<1>3. rs[p].identity \in Identities /\ rs[p].bout \in Bouts \cup {None}
  BY RsFacts DEF Enqueue, Busy, RsTypes
<1>4. blocks' \subseteq Bouts \X ReviewIds
  BY <1>1, <1>3, ReblockedTypes
<1>5. Waiting \in RsTypes /\ Waiting.pc = "idle"
  BY DEF Waiting, RsTypes
<1>6. /\ rs' \in [Resolvers -> RsTypes] /\ rs'[p] = Waiting
      /\ \A x \in Resolvers : x # p => rs'[x] = rs[x]
  BY <1>2, <1>5 DEF RInv, ReviewTypeOK, RsTypes
<1>7. \A q \in ReviewIds : q # r => (reviews'[q].status # "absent" <=> reviews[q].status # "absent")
  BY <1>1
<1>8. \A o \in Operators : op[o].pc # "idle" =>
        /\ op[o].request # None /\ op[o].request.review \in ReviewIds
        /\ op[o].request.review # r /\ Exists(op[o].request.review)
  BY <1>1, OpFacts DEF RInv, ReviewTypeOK
<1>9. ReviewTypeOK'
  <2>1. \A q \in ReviewIds : reviews'[q].status # "absent" => about'[q].identity \in Identities
    BY <1>1, <1>3, <1>7 DEF RInv, ReviewTypeOK, Exists, IdentityOf
  <2>2. \A o \in Operators : op'[o].pc # "idle" =>
          op'[o].request # None /\ reviews'[op'[o].request.review].status # "absent"
    BY <1>2, <1>7, <1>8 DEF Exists
  <2>. QED
    BY <1>1, <1>2, <1>4, <1>6, <2>1, <2>2
    DEF RInv, ReviewTypeOK, RsTypes, Exists, IdentityOf
<1>10. Ranked'
  BY <1>1 DEF RInv, Ranked
<1>11. OneOpenReview'
  <2>1. \A q \in ReviewIds : reviews[q].status = "pending" => about[q].identity # rs[p].identity
    BY <1>2 DEF Unopposed, PendingOf, ReviewsOf, Exists, IdentityOf
  <2>. QED
    BY <1>1, <2>1 DEF RInv, OneOpenReview, IdentityOf
<1>12. \A o \in Operators : Copied(o)' /\ Checked(o)'
  BY <1>1, <1>2, <1>8 DEF RInv, Copied, Checked
<1>13. \A x \in Resolvers : Busy(x)'
  <2>. SUFFICES ASSUME NEW x \in Resolvers, x # p PROVE Busy(x)'
    BY <1>5, <1>6 DEF Busy
  <2>1. rs'[x] = rs[x] /\ Busy(x) /\ rs[x] \in RsTypes
    BY <1>6, RsFacts
  <2>2. rs[x].pc = "enqueue" /\ rs[x].review # None => rs[x].review # r /\ rs[x].review \in ReviewIds
    BY <1>1, <2>1 DEF Busy, RsTypes
  <2>. QED
    BY <1>1, <2>1, <2>2 DEF Busy, Exists, IdentityOf
<1>. QED
  BY <1>9, <1>10, <1>11, <1>12, <1>13 DEF RInv
-----------------------------------------------------------------------------
LEMMA ReviewStep == RInv /\ [Next]_vars => RInv'
<1>. SUFFICES ASSUME RInv, [Next]_vars PROVE RInv'
  OBVIOUS
<1>1. CASE UNCHANGED vars
  BY <1>1 DEF vars, tables, RInv, ReviewTypeOK, Ranked, OneOpenReview, Copied, Checked, Busy,
     Exists, IdentityOf
<1>2. ASSUME NEW o \in Operators, Decide(o) PROVE RInv'
  BY <1>2, LoadKeeps, CheckKeeps, ReadMappingKeeps, ApproveKeeps, RejectKeeps, ReverseKeeps,
     LoseClaimKeeps DEF Decide
<1>3. ASSUME NEW p \in Resolvers, ResolverStep(p) PROVE RInv'
  BY <1>3, ResolveKeeps, LinkKeeps, FindPendingKeeps, EnqueueAgainKeeps, EnqueueKeeps,
     EnqueueFailsKeeps DEF ResolverStep
<1>. QED
  BY <1>1, <1>2, <1>3 DEF Next

LEMMA ReviewInvariant == Spec => []RInv
<1>1. Init => RInv
  BY ReviewInit
<1>. QED
  BY <1>1, ReviewStep, PTL DEF Spec

(* The tables and the commands of the identity queue keep their types, for *)
(* any number of reviews and processes (identity/review.py).               *)
THEOREM ReviewTypeCorrect == Spec => []ReviewTypeOK
<1>1. RInv => ReviewTypeOK
  BY DEF RInv
<1>. QED
  BY <1>1, ReviewInvariant, PTL
-----------------------------------------------------------------------------
MappingStep ==
  \A i \in Identities :
    mapping[i] \notin {None, mapping'[i]} =>
      /\ mapping'[i] = None
      /\ \E r \in ReviewsOf(i) :
           /\ reviews[r].status = "approved" /\ reviews[r].decision = mapping[i]
           /\ reviews'[r].status = "reversed"

LEMMA UpsertedKeeps ==
  ASSUME RInv, NEW j \in Identities, NEW f, mapping' = Upserted(j, f)
  PROVE  MappingStep
BY DEF MappingStep, Upserted, RInv, ReviewTypeOK

(* A fighter's mapping is never pointed elsewhere, and goes only with the  *)
(* approval of that fighter: _upsert_source_mapping keeps what it finds,   *)
(* and _release_owned_source_mapping only ever works from the row that the *)
(* claim has matched.                                                      *)
THEOREM MappingIsKept == Spec => MappingKept
<1>1. ASSUME RInv, [Next]_vars PROVE [MappingStep]_vars
  <2>1. CASE UNCHANGED mapping
    BY <2>1 DEF MappingStep
  <2>2. ASSUME NEW o \in Operators, Approve(o) PROVE MappingStep
    <3>1. op[o].request.review \in ReviewIds /\ Exists(op[o].request.review)
      BY <1>1, <2>2, OpFacts DEF Approve
    <3>2. IdentityOf(op[o].request.review) \in Identities
      BY <1>1, <3>1 DEF RInv, ReviewTypeOK
    <3>. QED
      BY <1>1, <2>2, <3>2, UpsertedKeeps DEF Approve
  <2>3. ASSUME NEW p \in Resolvers, Link(p) PROVE MappingStep
    <3>1. rs[p].identity \in Identities
      BY <1>1, <2>3, RsFacts DEF Link, Busy
    <3>. QED
      BY <1>1, <2>3, <3>1, UpsertedKeeps DEF Link
  <2>4. ASSUME NEW o \in Operators, Reverse(o) PROVE MappingStep
    <3>. DEFINE r == op[o].request.review
    <3>1. r \in ReviewIds /\ Exists(r)
      BY <1>1, <2>4, OpFacts DEF Reverse
    <3>2. reviews'[r].status = "reversed"
      <4>1. reviews[r] \in Columns
        BY <1>1, <2>4, ClaimedRow DEF Reverse
      <4>. QED
        BY <1>1, <2>4, <3>1, <4>1 DEF Reverse, Record, Columns, RInv, ReviewTypeOK
    <3>3. \A i \in Identities : mapping'[i] # mapping[i] =>
            /\ i = IdentityOf(r) /\ mapping'[i] = None
            /\ reviews[r].status = "approved" /\ reviews[r].decision = mapping[i]
      BY <1>1, <2>4, ReverseReleases
    <3>4. \A i \in Identities : i = IdentityOf(r) => r \in ReviewsOf(i)
      BY <3>1 DEF ReviewsOf
    <3>. HIDE DEF r
    <3>. QED
      BY <3>2, <3>3, <3>4 DEF MappingStep
  <2>5. ASSUME NEW o \in Operators, Decide(o) PROVE UNCHANGED mapping \/ MappingStep
    BY <2>2, <2>4, <2>5 DEF Decide, Load, Check, ReadMapping, Reject, LoseClaim, tables
  <2>6. ASSUME NEW p \in Resolvers, ResolverStep(p) PROVE UNCHANGED mapping \/ MappingStep
    BY <2>3, <2>6 DEF ResolverStep, Resolve, FindPending, EnqueueAgain, Enqueue, EnqueueFails,
       tables
  <2>. QED
    BY <1>1, <2>1, <2>5, <2>6 DEF Next
<1>2. [MappingStep]_vars => [\A i \in Identities :
        mapping[i] \notin {None, mapping'[i]} =>
          /\ mapping'[i] = None
          /\ \E r \in ReviewsOf(i) :
               /\ reviews[r].status = "approved" /\ reviews[r].decision = mapping[i]
               /\ reviews'[r].status = "reversed"]_vars
  BY DEF MappingStep
<1>. QED
  BY <1>1, <1>2, ReviewInvariant, PTL DEF Spec, MappingKept
-----------------------------------------------------------------------------
AnswerStep == answer' # None => Settled(answer', reviews'[answer'.review])

LEMMA DoneAnswers ==
  ASSUME RInv, NEW o \in Operators, op[o].pc # "idle", Done(o),
         Settled(op[o].request, reviews'[op[o].request.review])
  PROVE  AnswerStep
BY DEF Done, Ended, AnswerStep

(* A command that prints success tells the truth about the review at that  *)
(* moment, also where another session's decision came first                *)
(* (_finish_idempotent_decision and the early returns).                    *)
THEOREM AnswersAreTrue == Spec => AnswersTrue
<1>1. ASSUME RInv, [Next]_vars PROVE [AnswerStep]_vars
  <2>1. CASE answer' = None
    BY <2>1 DEF AnswerStep
  <2>2. ASSUME NEW o \in Operators, Check(o) PROVE answer' = None \/ AnswerStep
    <3>. DEFINE row == Synced(op[o].row, reviews[op[o].request.review])
    <3>1. op[o].pc = "loaded" /\ reviews' = reviews
      BY <2>2 DEF Check, tables
    <3>2. /\ row.status = reviews[op[o].request.review].status
          /\ row.decision = reviews[op[o].request.review].decision
      BY <1>1, <3>1, SyncedRow
    <3>3. Settled(op[o].request, row) => Settled(op[o].request, reviews'[op[o].request.review])
      BY <3>1, <3>2 DEF Settled
    <3>4. \/ answer' = None
          \/ Settled(op[o].request, row) /\ Done(o)
      BY <2>2 DEF Check, Refused, Ended
    <3>. QED
      BY <1>1, <3>1, <3>3, <3>4, DoneAnswers
  <2>3. ASSUME NEW o \in Operators, LoseClaim(o) PROVE answer' = None \/ AnswerStep
    <3>1. op[o].pc # "idle" /\ reviews' = reviews
      BY <2>3 DEF LoseClaim, tables
    <3>2. Refused(o) => answer' = None
      BY DEF Refused, Ended
    <3>3. CASE Settled(op[o].request, reviews[op[o].request.review])
      BY <1>1, <2>3, <3>1, <3>3, DoneAnswers DEF LoseClaim
    <3>4. CASE ~Settled(op[o].request, reviews[op[o].request.review])
      BY <2>3, <3>2, <3>4 DEF LoseClaim
    <3>. QED
      BY <3>3, <3>4
  <2>4. ASSUME NEW o \in Operators, Approve(o) \/ Reject(o) \/ Reverse(o)
        PROVE  AnswerStep
    <3>. DEFINE r == op[o].request.review
    <3>1. op[o].pc = "claim" /\ Claimable(op[o].request, op[o].row) /\ Done(o)
      BY <2>4 DEF Approve, Reject, Reverse
    <3>2. r \in ReviewIds /\ reviews[r] \in Columns /\ reviews \in [ReviewIds -> ReviewRows]
      BY <1>1, <3>1, OpFacts, ClaimedRow DEF RInv, ReviewTypeOK
    <3>3. Approve(o) => Settled(op[o].request, reviews'[r])
      BY <3>2 DEF Approve, Record, Settled
    <3>4. Reject(o) => Settled(op[o].request, reviews'[r])
      BY <3>2 DEF Reject, Record, Settled, Columns
    <3>5. Reverse(o) => Settled(op[o].request, reviews'[r])
      BY <3>2 DEF Reverse, Record, Settled, Columns
    <3>. QED
      BY <1>1, <2>4, <3>1, <3>3, <3>4, <3>5, DoneAnswers
  <2>5. ASSUME NEW o \in Operators, Decide(o) PROVE answer' = None \/ AnswerStep
    BY <2>2, <2>3, <2>4, <2>5 DEF Decide, Load, ReadMapping, Refused, Ended
  <2>6. ASSUME NEW p \in Resolvers, ResolverStep(p) PROVE answer' = None
    BY <2>6 DEF ResolverStep, Resolve, Link, FindPending, EnqueueAgain, Enqueue, EnqueueFails
  <2>. QED
    BY <1>1, <2>1, <2>5, <2>6 DEF Next
<1>2. [AnswerStep]_vars =>
        [answer' # None => Settled(answer', reviews'[answer'.review])]_vars
  BY DEF AnswerStep
<1>. QED
  BY <1>1, <1>2, ReviewInvariant, PTL DEF Spec, AnswersTrue
-----------------------------------------------------------------------------
LEMMA EntersRegister ==
  ASSUME RInv, NEW o \in Operators, Approve(o) \/ Reject(o) \/ Reverse(o)
  PROVE  Register!RegisterNext
<1>. DEFINE r == op[o].request.review
            status == [q \in ReviewIds |-> reviews[q].status]
<1>1. op[o].pc = "claim" /\ Claimable(op[o].request, op[o].row)
  BY DEF Approve, Reject, Reverse
<1>2. /\ r \in ReviewIds /\ reviews[r] \in Columns /\ reviews \in [ReviewIds -> ReviewRows]
      /\ Applies(op[o].request, reviews[r])
  BY <1>1, OpFacts, ClaimedRow DEF RInv, ReviewTypeOK
<1>3. \E new \in Columns :
        /\ Record(r, new)
        /\ \/ reviews[r].status = "pending" /\ new.status \in {"approved", "rejected"}
           \/ reviews[r].status \in {"approved", "rejected"} /\ new.status = "reversed"
  <2>1. CASE Approve(o)
    <3>. DEFINE new == [status |-> "approved", version |-> op[o].row.version + 1,
                        decision |-> op[o].request.fighter, prior |-> op[o].row.prior]
    <3>1. op[o].row \in Columns
      BY <1>1, ClaimedRow
    <3>2. op[o].request.fighter \in Fighters \cup {None}
      BY <1>1, OpFacts DEF Request
    <3>3. new \in Columns /\ Record(r, new)
      BY <2>1, <3>1, <3>2 DEF Approve, Columns
    <3>. QED
      BY <1>2, <2>1, <3>3 DEF Approve, Applies
  <2>2. CASE Reject(o)
    <3>1. op[o].row \in Columns /\ "rejected" \in Actions
      BY <1>1, ClaimedRow DEF Actions
    <3>2. op[o].row.version + 1 \in Nat
      BY <3>1 DEF Columns
    <3>3. Record(r, Closed(reviews[r], "rejected", op[o].row.version + 1))
      BY <2>2 DEF Reject, Closed
    <3>. QED
      BY <1>2, <2>2, <3>1, <3>2, <3>3, ClosedRow DEF Reject, Applies
  <2>3. CASE Reverse(o)
    <3>1. op[o].row \in Columns /\ "reversed" \in Actions
      BY <1>1, ClaimedRow DEF Actions
    <3>2. op[o].row.version + 1 \in Nat
      BY <3>1 DEF Columns
    <3>3. Record(r, Closed(reviews[r], "reversed", op[o].row.version + 1))
      BY <2>3 DEF Reverse, Closed
    <3>. QED
      BY <1>2, <2>3, <3>1, <3>2, <3>3, ClosedRow DEF Reverse, Applies
  <2>. QED
    BY <2>1, <2>2, <2>3
<1>4. PICK new \in Columns :
        /\ Record(r, new)
        /\ \/ reviews[r].status = "pending" /\ new.status \in {"approved", "rejected"}
           \/ reviews[r].status \in {"approved", "rejected"} /\ new.status = "reversed"
  BY <1>3
<1>5. /\ [q \in ReviewIds |-> reviews'[q].status] = [status EXCEPT ![r] = new.status]
      /\ evidence' = [evidence EXCEPT ![r] = Append(@, new.status)]
  BY <1>2, <1>4 DEF Record
<1>6. status[r] = reviews[r].status
  BY <1>2
<1>. QED
  BY <1>2, <1>4, <1>5, <1>6 DEF Register!RegisterNext, Register!Enter

(* The sessions work from stale copies and still implement an atomic       *)
(* register: the claim is an update with the status and the version in its *)
(* WHERE, before any other effect of the decision                          *)
(* (_claim_decision_transition, _claim_reverse_transition).                *)
THEOREM QueueIsRegister == Spec => RefinesRegister
<1>1. ASSUME Init PROVE Register!RegisterInit
  BY <1>1 DEF Init, Register!RegisterInit, NoReview
<1>2. ASSUME RInv, [Next]_vars PROVE [Register!RegisterNext]_(Register!rvars)
  <2>1. CASE UNCHANGED <<reviews, evidence>>
    BY <2>1 DEF Register!rvars
  <2>2. ASSUME NEW p \in Resolvers, Enqueue(p) PROVE Register!RegisterNext
    <3>1. PICK r \in ReviewIds :
            /\ ~Exists(r) /\ reviews'[r].status = "pending"
            /\ \A q \in ReviewIds : q # r => reviews'[q] = reviews[q]
      BY <1>2, <2>2, EnqueueOpens
    <3>2. [q \in ReviewIds |-> reviews'[q].status]
            = [[q \in ReviewIds |-> reviews[q].status] EXCEPT ![r] = "pending"]
      BY <3>1
    <3>3. evidence' = evidence
      BY <2>2 DEF Enqueue
    <3>. QED
      BY <3>1, <3>2, <3>3 DEF Register!RegisterNext, Register!Open, Exists
  <2>3. ASSUME NEW o \in Operators, Decide(o)
        PROVE  UNCHANGED <<reviews, evidence>> \/ Register!RegisterNext
    BY <1>2, <2>3, EntersRegister DEF Decide, Load, Check, ReadMapping, LoseClaim, tables
  <2>4. ASSUME NEW p \in Resolvers, ResolverStep(p)
        PROVE  UNCHANGED <<reviews, evidence>> \/ Register!RegisterNext
    BY <2>2, <2>4 DEF ResolverStep, Resolve, Link, FindPending, EnqueueAgain, EnqueueFails,
       tables
  <2>5. CASE UNCHANGED vars
    BY <2>1, <2>5 DEF vars, tables
  <2>. QED
    BY <1>2, <2>1, <2>3, <2>4, <2>5 DEF Next
<1>. QED
  BY <1>1, <1>2, ReviewInvariant, PTL DEF Spec, RefinesRegister, Register!RegisterSpec
-----------------------------------------------------------------------------
(* What OpenReviewStaysBlocked says of a step.                             *)
BlockStays(r) ==
  reviews'[r].status = "pending" /\ about'[r].bout # None /\ ~Blocked(r)' =>
    /\ reviews[r].status = "pending"
    /\ ~Blocked(r) \/ \E p \in Resolvers : QueuesADecided(p, IdentityOf(r))

(* A review that was and is pending, of which no block goes.               *)
LEMMA UntouchedStays ==
  ASSUME NEW r \in ReviewIds, about'[r] = about[r], reviews'[r].status = "pending" =>
         reviews[r].status = "pending" /\ (Blocked(r) => <<about[r].bout, r>> \in blocks')
  PROVE  BlockStays(r)
BY DEF BlockStays, Blocked

LEMMA DecisionBlocks ==
  ASSUME RInv, NEW o \in Operators, Approve(o) \/ Reject(o) \/ Reverse(o),
         NEW q \in ReviewIds
  PROVE  BlockStays(q)
<1>. DEFINE r == op[o].request.review
<1>1. op[o].pc = "claim" /\ Claimable(op[o].request, op[o].row) /\ about' = about
  BY DEF Approve, Reject, Reverse
<1>2. /\ r \in ReviewIds /\ Exists(r) /\ reviews[r] \in Columns
      /\ Applies(op[o].request, reviews[r]) /\ reviews \in [ReviewIds -> ReviewRows]
  BY <1>1, OpFacts, ClaimedRow DEF RInv, ReviewTypeOK
<1>3. reviews'[r].status # "pending" /\ (q # r => reviews'[q] = reviews[q])
  <2>1. Approve(o) => reviews'[r].status = "approved"
    BY <1>2 DEF Approve, Record
  <2>2. Reject(o) => reviews'[r].status = "rejected"
    BY <1>2 DEF Reject, Record, Columns
  <2>3. Reverse(o) => reviews'[r].status = "reversed"
    BY <1>2 DEF Reverse, Record, Columns
  <2>4. q # r => reviews'[q] = reviews[q]
    BY <1>2 DEF Approve, Reject, Reverse, Record
  <2>. QED
    BY <2>1, <2>2, <2>3, <2>4
<1>. SUFFICES ASSUME reviews'[q].status = "pending", Blocked(q)
              PROVE  <<about[q].bout, q>> \in blocks'
  BY <1>1, <1>3, UntouchedStays
<1>4. q # r /\ reviews[q].status = "pending" /\ <<about[q].bout, q>> \in blocks
  BY <1>3 DEF Blocked
<1>5. Approve(o) \/ Reject(o) => reviews[r].status = "pending"
  BY <1>2 DEF Approve, Reject, Applies
<1>6. reviews[r].status = "pending" => IdentityOf(q) # IdentityOf(r)
  BY <1>2, <1>4 DEF RInv, OneOpenReview
<1>7. IdentityOf(q) # IdentityOf(r) => <<about[q].bout, q>> \notin BlocksOf(IdentityOf(r))
  BY DEF BlocksOf, ReviewsOf
<1>8. Approve(o) \/ Reject(o) => blocks' = blocks \ BlocksOf(IdentityOf(r))
  BY DEF Approve, Reject
<1>9. Reverse(o) => blocks \subseteq blocks'
  BY DEF Reverse
<1>. QED
  BY <1>4, <1>5, <1>6, <1>7, <1>8, <1>9

(* Queueing a review again keeps its own block, and no other review of its *)
(* identity is open unless this one is not.                                *)
LEMMA EnqueueAgainBlocks ==
  ASSUME RInv, NEW p \in Resolvers, EnqueueAgain(p), NEW r \in ReviewIds
  PROVE  BlockStays(r)
<1>. DEFINE f == rs[p].review
            i == rs[p].identity
<1>1. /\ rs[p].pc = "enqueue" /\ f # None /\ UNCHANGED <<reviews, about>>
      /\ blocks' = Reblocked(i, rs[p].bout, f)
  BY DEF EnqueueAgain
<1>2. f \in ReviewIds /\ IdentityOf(f) = i
  BY <1>1 DEF RInv, ReviewTypeOK, Busy
<1>. SUFFICES ASSUME reviews[r].status = "pending", <<about[r].bout, r>> \in blocks,
                     ~QueuesADecided(p, IdentityOf(r))
              PROVE  <<about[r].bout, r>> \in blocks'
  BY <1>1 DEF BlockStays, Blocked
<1>3. CASE IdentityOf(r) # i
  <2>1. r \notin ReviewsOf(i)
    BY <1>3 DEF ReviewsOf
  <2>. QED
    BY <1>1, <2>1 DEF Reblocked, OtherBlocks
<1>4. CASE IdentityOf(r) = i
  <2>1. reviews[f].status = "pending"
    BY <1>1, <1>4 DEF QueuesADecided
  <2>2. f = r
    BY <1>2, <1>4, <2>1 DEF RInv, OneOpenReview
  <2>. QED
    BY <1>1, <2>2 DEF Reblocked, OtherBlocks
<1>. QED
  BY <1>3, <1>4

LEMMA EnqueueBlocks ==
  ASSUME RInv, NEW p \in Resolvers, Enqueue(p), NEW r \in ReviewIds
  PROVE  BlockStays(r)
<1>. DEFINE i == rs[p].identity
<1>1. PICK n \in ReviewIds :
        /\ \A q \in ReviewIds : q # n => reviews'[q] = reviews[q] /\ about'[q] = about[q]
        /\ about'[n].bout = rs[p].bout /\ blocks' = Reblocked(i, rs[p].bout, n)
  BY EnqueueOpens
<1>2. PendingOf(i) = {}
  BY DEF Enqueue, Unopposed
<1>. HIDE DEF i
<1>3. CASE r = n
  BY <1>1, <1>3 DEF Reblocked, BlockFor, BlockStays, Blocked
<1>4. CASE r # n
  <2>1. reviews'[r] = reviews[r] /\ about'[r] = about[r]
    BY <1>1, <1>4
  <2>. SUFFICES ASSUME reviews[r].status = "pending", <<about[r].bout, r>> \in blocks
                PROVE  <<about[r].bout, r>> \in blocks'
    BY <2>1, UntouchedStays DEF Blocked
  <2>2. r \notin ReviewsOf(i)
    BY <1>2 DEF PendingOf
  <2>. QED
    BY <1>1, <2>2 DEF Reblocked, OtherBlocks
<1>. QED
  BY <1>3, <1>4

(* Of an identity one review is open, however many syncs race to enqueue   *)
(* it (the partial unique index of identity_review_queue).                 *)
THEOREM OneReviewIsOpen == Spec => []OneOpenReview
<1>1. RInv => OneOpenReview
  BY DEF RInv
<1>. QED
  BY <1>1, ReviewInvariant, PTL

(* OpenReviewStaysBlocked, for any number of syncs and operators: an open  *)
(* review keeps its bout blocked whatever is decided, reversed and queued, *)
(* but for a sync that queues again what was decided since it looked       *)
(* (enqueue_review, _deactivate_blocks_for_identity, keep_review_id).      *)
THEOREM OpenReviewsBlock == Spec => OpenReviewStaysBlocked
<1>1. ASSUME RInv, [Next]_vars, NEW r \in ReviewIds PROVE BlockStays(r)
  <2>1. CASE UNCHANGED <<reviews, about, blocks>>
    BY <2>1 DEF BlockStays, Blocked
  <2>2. ASSUME NEW o \in Operators, Decide(o)
        PROVE  UNCHANGED <<reviews, about, blocks>> \/ BlockStays(r)
    BY <1>1, <2>2, DecisionBlocks DEF Decide, Load, Check, ReadMapping, LoseClaim, tables
  <2>3. ASSUME NEW p \in Resolvers, ResolverStep(p)
        PROVE  UNCHANGED <<reviews, about, blocks>> \/ BlockStays(r)
    BY <1>1, <2>3, EnqueueAgainBlocks, EnqueueBlocks
       DEF ResolverStep, Resolve, Link, FindPending, EnqueueFails, tables
  <2>4. CASE UNCHANGED vars
    BY <2>1, <2>4 DEF vars, tables
  <2>. QED
    BY <1>1, <2>1, <2>2, <2>3, <2>4 DEF Next
<1>2. [\A r \in ReviewIds : BlockStays(r)]_vars =>
        [\A r \in ReviewIds :
           reviews'[r].status = "pending" /\ about'[r].bout # None /\ ~Blocked(r)' =>
             /\ reviews[r].status = "pending"
             /\ ~Blocked(r) \/ \E p \in Resolvers : QueuesADecided(p, IdentityOf(r))]_vars
  BY DEF BlockStays
<1>3. RInv /\ [Next]_vars => [\A r \in ReviewIds : BlockStays(r)]_vars
  BY <1>1
<1>. QED
  BY <1>2, <1>3, ReviewInvariant, PTL DEF Spec, OpenReviewStaysBlocked
=============================================================================
