------------------------ MODULE IdentityReviewProps ------------------------
(***************************************************************************)
(* What operators and readers of the identity tables may rely on.          *)
(***************************************************************************)
EXTENDS IdentityReview

ReviewRows == Columns \cup {NoReview}

(* Every variable keeps its type, and a command that runs has a request    *)
(* about a review that exists.                                             *)
ReviewTypeOK ==
  /\ reviews \in [ReviewIds -> ReviewRows]
  /\ about \in [ReviewIds -> [identity : Identities \cup {None}, bout : Bouts \cup {None}]]
  /\ mapping \in [Identities -> Fighters \cup {None}]
  /\ blocks \subseteq Bouts \X ReviewIds
  /\ evidence \in [ReviewIds -> Seq({"approved", "rejected", "reversed"})]
  /\ op \in [Operators -> [pc : {"idle", "loaded", "checked", "claim"},
                            request : Requests \cup {None}, row : ReviewRows]]
  /\ answer \in Requests \cup {None}
  /\ rs \in [Resolvers -> [pc : {"idle", "queue", "link", "enqueue"},
                            identity : Identities \cup {None}, bout : Bouts \cup {None},
                            fighter : Fighters \cup {None}, review : ReviewIds \cup {None}]]
  /\ \A r \in ReviewIds : Exists(r) => IdentityOf(r) \in Identities
  /\ \A o \in Operators : op[o].pc # "idle" =>
       op[o].request # None /\ Exists(op[o].request.review)

(* A sync about to queue again a review it found open and that has been    *)
(* decided since: enqueue_review does not read it a second time.           *)
QueuesADecided(p, i) ==
  /\ rs[p].pc = "enqueue" /\ rs[p].identity = i
  /\ rs[p].review # None /\ reviews[rs[p].review].status # "pending"

Blocked(r) == <<about[r].bout, r>> \in blocks

(* A bout queued with an open review is blocked for scoring at once and    *)
(* stays so, whatever is enqueued, decided and reversed for its fighter:   *)
(* the one thing that takes the block of an open review away is a sync     *)
(* that queues an older review again which was decided after it looked.    *)
OpenReviewStaysBlocked ==
  [][\A r \in ReviewIds :
       reviews'[r].status = "pending" /\ about'[r].bout # None /\ ~Blocked(r)' =>
         /\ reviews[r].status = "pending"
         /\ ~Blocked(r) \/ \E p \in Resolvers : QueuesADecided(p, IdentityOf(r))]_vars

(* However syncs and operators race, an identity has one open review: the  *)
(* next is enqueued after the last was decided.                            *)
OneOpenReview ==
  \A r, q \in ReviewIds :
    /\ reviews[r].status = "pending" /\ reviews[q].status = "pending"
    /\ IdentityOf(r) = IdentityOf(q)
    => r = q

(* Whatever stale copies the sessions work from, each review is opened     *)
(* once, decided once and reversed once at most, with one row of evidence. *)
Register == INSTANCE ReviewRegister
  WITH Ids <- ReviewIds,
       status <- [r \in ReviewIds |-> reviews[r].status], trail <- evidence

RefinesRegister == Register!RegisterSpec

(* A command that succeeds, by its own decision or by an equal one that    *)
(* came first, leaves the review as it was asked to.                       *)
AnswersTrue ==
  [][answer' # None => Settled(answer', reviews'[answer'.review])]_vars

(* A mapping is never pointed to another fighter, and only goes when an    *)
(* approval of that very fighter is reversed.                              *)
MappingKept ==
  [][\A i \in Identities :
       mapping[i] \notin {None, mapping'[i]} =>
         /\ mapping'[i] = None
         /\ \E r \in ReviewsOf(i) :
              /\ reviews[r].status = "approved" /\ reviews[r].decision = mapping[i]
              /\ reviews'[r].status = "reversed"]_vars
=============================================================================
