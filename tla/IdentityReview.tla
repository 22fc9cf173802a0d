--------------------------- MODULE IdentityReview ---------------------------
(***************************************************************************)
(* The queue of fighter identities that the resolver will not link by      *)
(* itself: `mma-model identity approve | reject | reverse` run by several  *)
(* operators beside the history syncs that link identities and queue them. *)
(*                                                                         *)
(* Source: identity/review.py, the end of resolve_fighter and _queue in    *)
(* identity/resolver.py, the `identity` command in cli.py, and the tables  *)
(* of db/tables/identity.py and FighterSourceId.                           *)
(*                                                                         *)
(* A session reads without a transaction (pysqlite begins one at the first *)
(* write): each read is a step, and other sessions commit between two      *)
(* reads.  The first write takes SQLite's one writer's lock, so that       *)
(* everything from it to the commit is one step; a process that dies       *)
(* before its commit has done nothing.                                     *)
(***************************************************************************)
EXTENDS Naturals, Sequences, Nothing

CONSTANTS
  Operators, Resolvers,   \* processes that decide, processes that resolve
  Identities,             \* pairs (source, external_id)
  Fighters, Bouts,
  Expectations,           \* values of --expected-version, None among them
  MaxReviews              \* bound of the model: rows of the queue

ReviewIds == 1 .. MaxReviews

Request == [kind : {"approve", "reject", "reverse"}, review : ReviewIds,
            fighter : Fighters \cup {None}, expected : Expectations]

ASSUME ReviewAssumption ==
  /\ MaxReviews \in Nat
  /\ Expectations \subseteq Nat \cup {None}
  /\ None \notin Nat \cup Fighters \cup Bouts \cup Identities \cup Request

(* The columns a decision reads and writes; the bout is None unless it is  *)
(* one that _should_block_bout accepts.                                    *)
Columns == [status : {"pending", "approved", "rejected", "reversed"},
            version : Nat, decision : Fighters \cup {None},
            prior : Fighters \cup {None}]

NoReview == [status |-> "absent", version |-> 0, decision |-> None, prior |-> None]

VARIABLES
  reviews,    \* identity_review_queue: the columns of each row
  about,      \* and what it is about: its identity and its bout
  mapping,    \* fighter_source_ids: the fighter of each identity
  blocks,     \* identity_scoring_blocks: active pairs <<bout, review>>
  evidence,   \* identity_match_evidence: the decisions of each review
  op, rs,     \* the commands and the resolvers that run
  answer      \* the request whose command succeeded in the last step

tables == <<reviews, about, mapping, blocks, evidence>>
vars == <<tables, op, rs, answer>>
-----------------------------------------------------------------------------
Exists(r) == reviews[r].status # "absent"

IdentityOf(r) == about[r].identity

ReviewsOf(i) == { r \in ReviewIds : Exists(r) /\ IdentityOf(r) = i }

(* At most one by the partial unique index on pending rows.                *)
PendingOf(i) == { r \in ReviewsOf(i) : reviews[r].status = "pending" }

(* The command line asks for a fighter where it approves, and only there.  *)
Requests == { q \in Request : (q.kind = "approve") <=> (q.fighter # None) }

(* A command: where it is, what it was asked, the row it works from.       *)
Idle == [pc |-> "idle", request |-> None, row |-> NoReview]

(* A resolver: where it is, for which identity and bout, the fighter it    *)
(* links, the review it has found.                                         *)
Waiting == [pc |-> "idle", identity |-> None, bout |-> None,
            fighter |-> None, review |-> None]

Ended(o, reply) ==
  /\ op' = [op EXCEPT ![o] = Idle]
  /\ answer' = reply

Refused(o) == Ended(o, None)

Done(o) == Ended(o, op[o].request)

(* Mutant: the block of the review that is kept goes as well.              *)
UnkeptBlocks(i, r) == { b \in blocks : b[2] \in ReviewsOf(i) }

(* _deactivate_blocks_for_identity, with keep_review_id = r                *)
OtherBlocks(i, r) == { b \in blocks : b[2] \in ReviewsOf(i) \ {r} }

BlocksOf(i) == { b \in blocks : b[2] \in ReviewsOf(i) }

(* _ensure_scoring_block, where _should_block_bout                         *)
BlockFor(bout, r) == IF bout = None THEN {} ELSE {<<bout, r>>}
-----------------------------------------------------------------------------
(* session.get: the columns as this session will see them from now on.     *)
Load(o, request) ==
  /\ op[o] = Idle
  /\ Exists(request.review)
  /\ op' = [op EXCEPT ![o] = [pc |-> "loaded", request |-> request,
                              row |-> reviews[request.review]]]
  /\ answer' = None
  /\ UNCHANGED <<tables, rs>>

(* Mutant: the committed row is read and not looked at.                    *)
Unsynced(row, committed) == row

(* _committed_review_snapshot and _sync_review_from_committed, which does  *)
(* not bring prior_mapping_json up to date.                                *)
Synced(row, committed) ==
  IF committed.version > row.version
  THEN [committed EXCEPT !.prior = row.prior]
  ELSE row

(* A row that already says what is asked for.                              *)
Settled(request, row) ==
  CASE request.kind = "approve" ->
         row.status = "approved" /\ row.decision = request.fighter
    [] request.kind = "reject" -> row.status = "rejected"
    [] request.kind = "reverse" -> row.status = "reversed"

(* A row that the request applies to.                                      *)
Applies(request, row) ==
  IF request.kind = "reverse" THEN row.status \in {"approved", "rejected"}
                              ELSE row.status = "pending"

Expected(request, row) == request.expected \in {None, row.version}

Check(o) ==
  /\ op[o].pc = "loaded"
  /\ LET request == op[o].request
         row == Synced(op[o].row, reviews[request.review])
     IN \/ /\ ~Expected(request, row) \/ ~(Settled(request, row) \/ Applies(request, row))
           /\ Refused(o)
        \/ /\ Expected(request, row) /\ Settled(request, row)
           /\ Done(o)
        \/ /\ Expected(request, row) /\ Applies(request, row)
           /\ op' = [op EXCEPT ![o].row = row,
                       ![o].pc = IF request.kind = "approve" THEN "checked" ELSE "claim"]
           /\ answer' = None
  /\ UNCHANGED <<tables, rs>>

(* An approval reads the mapping of the identity, to refuse another        *)
(* fighter and to remember what was there before.                          *)
ReadMapping(o) ==
  /\ op[o].pc = "checked"
  /\ LET request == op[o].request
         fighter == mapping[IdentityOf(request.review)]
     IN IF fighter \in {None, request.fighter}
        THEN /\ op' = [op EXCEPT ![o].pc = "claim", ![o].row.prior = fighter]
             /\ answer' = None
        ELSE Refused(o)
  /\ UNCHANGED <<tables, rs>>
-----------------------------------------------------------------------------
(* Mutant: the update claims whatever row has become of the review.        *)
ClaimUnchecked(request, row) == Applies(request, row)

(* The row is as this session believes it to be: the WHERE of the update.  *)
Claimable(request, row) ==
  LET committed == reviews[request.review]
  IN Applies(request, committed) /\ committed.version = row.version

(* _upsert_source_mapping: a row that is there stays as it is.             *)
Upserted(i, fighter) ==
  IF mapping[i] = None THEN [mapping EXCEPT ![i] = fighter] ELSE mapping

(* Mutant: the mapping goes whoever it names.                              *)
ReleaseAny(i, before, prior) == [mapping EXCEPT ![i] = None]

(* _release_owned_source_mapping                                           *)
Released(i, before, prior) ==
  IF mapping[i] # before THEN mapping
  ELSE IF prior = None THEN [mapping EXCEPT ![i] = None]
  ELSE [mapping EXCEPT ![i] = prior]

Record(r, row) ==
  /\ reviews' = [reviews EXCEPT ![r] = row]
  /\ evidence' = [evidence EXCEPT ![r] = Append(@, row.status)]

Approve(o) ==
  LET request == op[o].request
      r == request.review
      i == IdentityOf(r)
  IN /\ op[o].pc = "claim" /\ request.kind = "approve"
     /\ Claimable(request, op[o].row)
     /\ Record(r, [status |-> "approved", version |-> op[o].row.version + 1,
                   decision |-> request.fighter, prior |-> op[o].row.prior])
     /\ mapping' = Upserted(i, request.fighter)
     /\ blocks' = blocks \ BlocksOf(i)
     /\ Done(o)
     /\ UNCHANGED <<about, rs>>

Reject(o) ==
  LET request == op[o].request
      r == request.review
  IN /\ op[o].pc = "claim" /\ request.kind = "reject"
     /\ Claimable(request, op[o].row)
     /\ Record(r, [reviews[r] EXCEPT !.status = "rejected", !.decision = None,
                                     !.version = op[o].row.version + 1])
     /\ blocks' = blocks \ BlocksOf(IdentityOf(r))
     /\ Done(o)
     /\ UNCHANGED <<about, mapping, rs>>

Reverse(o) ==
  LET request == op[o].request
      r == request.review
      row == op[o].row
  IN /\ op[o].pc = "claim" /\ request.kind = "reverse"
     /\ Claimable(request, row)
     /\ Record(r, [reviews[r] EXCEPT !.status = "reversed", !.decision = None,
                                     !.version = row.version + 1])
     /\ mapping' = IF row.status = "approved"
                   THEN Released(IdentityOf(r), row.decision, row.prior)
                   ELSE mapping
     /\ blocks' = blocks \cup BlockFor(about[r].bout, r)
     /\ Done(o)
     /\ UNCHANGED <<about, rs>>

(* The update matched no row: the command looks at what won.               *)
LoseClaim(o) ==
  LET request == op[o].request
  IN /\ op[o].pc = "claim"
     /\ ~Claimable(request, op[o].row)
     /\ IF Settled(request, reviews[request.review]) THEN Done(o) ELSE Refused(o)
     /\ UNCHANGED <<tables, rs>>
-----------------------------------------------------------------------------
(* A resolver reads the crosswalk.  An identity without a mapping may be   *)
(* linked by another key (Wikidata, name and date of birth, name and       *)
(* opponent) or created; what no rule settles, and a mapping that          *)
(* contradicts the name, is queued.                                        *)
Resolve(p, i, bout) ==
  /\ rs[p] = Waiting
  /\ \/ rs' = [rs EXCEPT ![p] = [Waiting EXCEPT !.pc = "queue", !.identity = i,
                                                !.bout = bout]]
     \/ /\ mapping[i] = None
        /\ \E f \in Fighters :
             rs' = [rs EXCEPT ![p] = [Waiting EXCEPT !.pc = "link", !.identity = i,
                                                     !.fighter = f]]
  /\ answer' = None
  /\ UNCHANGED <<tables, op>>

(* _link_source: reads again, inserts, and fails on the unique constraint. *)
Link(p) ==
  /\ rs[p].pc = "link"
  /\ mapping' = Upserted(rs[p].identity, rs[p].fighter)
  /\ rs' = [rs EXCEPT ![p] = Waiting]
  /\ answer' = None
  /\ UNCHANGED <<reviews, about, blocks, evidence, op>>

(* enqueue_review reads the pending review of the identity.                *)
FindPending(p) ==
  /\ rs[p].pc = "queue"
  /\ LET found == PendingOf(rs[p].identity)
     IN rs' = [rs EXCEPT ![p].pc = "enqueue",
                         ![p].review = IF found = {} THEN None
                                       ELSE CHOOSE r \in found : TRUE]
  /\ answer' = None
  /\ UNCHANGED <<tables, op>>

Reblocked(i, bout, r) == (blocks \ OtherBlocks(i, r)) \cup BlockFor(bout, r)

(* The review that was found is not read again.                            *)
EnqueueAgain(p) ==
  /\ rs[p].pc = "enqueue" /\ rs[p].review # None
  /\ blocks' = Reblocked(rs[p].identity, rs[p].bout, rs[p].review)
  /\ rs' = [rs EXCEPT ![p] = Waiting]
  /\ answer' = None
  /\ UNCHANGED <<reviews, about, mapping, evidence, op>>

(* A uuid nothing uses; the next number, as which one does not matter.     *)
Fresh(r) == ~Exists(r) /\ \A q \in 1 .. (r - 1) : Exists(q)

(* The index lets the row in.                                              *)
Unopposed(i) == PendingOf(i) = {}

Enqueue(p) ==
  /\ rs[p].pc = "enqueue" /\ rs[p].review = None
  /\ Unopposed(rs[p].identity)
  /\ \E r \in ReviewIds :
       /\ Fresh(r)
       /\ reviews' = [reviews EXCEPT ![r] = [NoReview EXCEPT !.status = "pending",
                                                            !.version = 1]]
       /\ about' = [about EXCEPT ![r] = [identity |-> rs[p].identity, bout |-> rs[p].bout]]
       /\ blocks' = Reblocked(rs[p].identity, rs[p].bout, r)
  /\ rs' = [rs EXCEPT ![p] = Waiting]
  /\ answer' = None
  /\ UNCHANGED <<mapping, evidence, op>>

(* The unique index on pending reviews refuses a second one.               *)
EnqueueFails(p) ==
  /\ rs[p].pc = "enqueue" /\ rs[p].review = None
  /\ ~Unopposed(rs[p].identity)
  /\ rs' = [rs EXCEPT ![p] = Waiting]
  /\ answer' = None
  /\ UNCHANGED <<tables, op>>
-----------------------------------------------------------------------------
Init ==
  /\ reviews = [r \in ReviewIds |-> NoReview]
  /\ about = [r \in ReviewIds |-> [identity |-> None, bout |-> None]]
  /\ mapping \in [Identities -> Fighters \cup {None}]
  /\ blocks = {}
  /\ evidence = [r \in ReviewIds |-> <<>>]
  /\ op = [o \in Operators |-> Idle]
  /\ answer = None
  /\ rs = [p \in Resolvers |-> Waiting]

Decide(o) ==
  \/ \E request \in Requests : Load(o, request)
  \/ Check(o) \/ ReadMapping(o)
  \/ Approve(o) \/ Reject(o) \/ Reverse(o) \/ LoseClaim(o)

ResolverStep(p) ==
  \/ \E i \in Identities, bout \in Bouts \cup {None} : Resolve(p, i, bout)
  \/ Link(p) \/ FindPending(p)
  \/ EnqueueAgain(p) \/ Enqueue(p) \/ EnqueueFails(p)

Next == (\E o \in Operators : Decide(o)) \/ (\E p \in Resolvers : ResolverStep(p))

Spec == Init /\ [][Next]_vars
=============================================================================
