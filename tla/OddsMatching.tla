----------------------------- MODULE OddsMatching ---------------------------
(***************************************************************************)
(* Which bout the quotes of one provider event belong to, and whether they *)
(* may be valued: the versions of the alias, the match observations, the   *)
(* lifecycle of the bouts and the review queue that decides when a match   *)
(* is ambiguous.  Everything but the alias's end is append-only and is     *)
(* read as of a time.                                                      *)
(*                                                                         *)
(* Source: src/mma_model/odds/matching.py, reconcile.py, match_review.py   *)
(* and lifecycle.py.                                                       *)
(*                                                                         *)
(* A reconcile reads first and takes SQLite's write lock with its first    *)
(* write, and so does an approval: each is a step that reads and a step    *)
(* that writes and commits.  Names and times are behind "fit", the bouts   *)
(* that the participants and the start fit: open at every attempt, as the  *)
(* provider and the card may both change.                                  *)
(***************************************************************************)
EXTENDS Naturals, Sequences, FiniteSetsExt, Nothing

CONSTANTS
  MatchBouts,     \* the active DWCS bouts
  Operators,      \* who decides reviews
  MaxStamp, MaxWrites   \* bounds of the model: the clock and the commits

(* The rows of the tables, and what a match attempt decides.  Times and    *)
(* ids are natural numbers; gone is effective_to.                          *)
Rule == {"provider_id", "participant_pair", "manual_review"}

AliasRow == [bout : MatchBouts, rule : Rule, at : Nat, gone : Nat \cup {None}]

MatchRow == [status : {"matched", "ambiguous", "unmatched"}, bout : MatchBouts \cup {None},
             rule : Rule \cup {None}, at : Nat]

LifeRow == [bout : MatchBouts \cup {None},
            state : {"active", "missing_unknown", "review_blocked", "replaced"},
            why : Rule \cup {"approved", "fresh_quote", "no_quotes", "ambiguous",
                             "replaced", "reversed"},
            at : Nat]

Evidence == [candidates : SUBSET MatchBouts, why : {"unsafe", "names", "multiple",
             "unexpected", "unmatched"}, fit : SUBSET MatchBouts]

ReviewRow == [status : {"pending", "approved", "rejected", "reversed"}, version : Nat,
              content : Evidence, decision : MatchBouts \cup {None}, alias : Nat]

MatchDecision == [status : {"matched", "ambiguous", "unmatched"},
                  bout : MatchBouts \cup {None}, rule : Rule \cup {None},
                  life : {"active", "missing_unknown", "review_blocked", "replaced"},
                  review : Evidence \cup {None}]

ASSUME MatchingAssumption ==
  /\ MaxStamp \in Nat /\ MaxWrites \in Nat
  /\ None \notin MatchBouts \cup Nat \cup Rule
  /\ None \notin AliasRow \cup MatchRow \cup LifeRow \cup Evidence

VARIABLES
  stamp,          \* the clock
  odds,           \* the committed rows, the number of commits and whether a
                  \* decision was written after a commit it had not seen
  rematch,        \* what an open reconcile has decided, or None
  operator        \* what each operator has looked at, or None

matchingVars == <<stamp, odds, rematch, operator>>
-----------------------------------------------------------------------------
Terminal == {"replaced", "review_blocked"}

(* The latest of some rows; rows of one time are ordered by their id.      *)
LatestOf(rows, ids) ==
  IF ids = {} THEN None
  ELSE rows[CHOOSE i \in ids : \A j \in ids :
              rows[j].at < rows[i].at \/ (rows[j].at = rows[i].at /\ j <= i)]

(* Mutant: status = "active" stands for the validity at the cutoff.        *)
StatusOnly(d, t) ==
  { i \in DOMAIN d.aliases : d.aliases[i].at <= t /\ d.aliases[i].gone = None }

(* The alias versions valid at t.                                          *)
ValidAt(d, t) ==
  { i \in DOMAIN d.aliases :
      /\ d.aliases[i].at <= t
      /\ d.aliases[i].gone = None \/ t < d.aliases[i].gone }

(* alias_effective_at, as a version.                                       *)
Effective(d, t) == IF ValidAt(d, t) = {} THEN 0 ELSE Max(ValidAt(d, t))

LatestMatch(d, t) ==
  LatestOf(d.matches, { i \in DOMAIN d.matches : d.matches[i].at <= t })

LatestLife(d, b, t) ==
  LatestOf(d.life, { i \in DOMAIN d.life : d.life[i].bout = b /\ d.life[i].at <= t })

IsTerminal(d, b, t) ==
  LatestLife(d, b, t) # None /\ LatestLife(d, b, t).state \in Terminal

(* Mutant: every quote up to t.                                            *)
NoLowerBound(d, t) == { q \in d.quotes : q <= t }

(* quotes_visible_under_alias_at: a version above the first hides what was *)
(* observed before it; with no alias in force but one before, nothing is.  *)
Visible(d, t) ==
  LET v == Effective(d, t) IN
  { q \in d.quotes :
      /\ q <= t
      /\ v > 1 => d.aliases[v].at <= q
      /\ v = 0 => \A i \in DOMAIN d.aliases : t < d.aliases[i].at }

(* resolve_quote_value_eligibility, up to the gates of the single quote.   *)
Eligible(d, q, t) ==
  LET v == Effective(d, t)  m == LatestMatch(d, t) IN
  /\ q \in Visible(d, t)
  /\ v > 0 /\ m # None
  /\ m.status = "matched" /\ m.bout = d.aliases[v].bout
  /\ ~IsTerminal(d, d.aliases[v].bout, t)
-----------------------------------------------------------------------------
Decide(status, bout, rule, state, review) ==
  [status |-> status, bout |-> bout, rule |-> rule, life |-> state,
   review |-> review]

Content(candidates, why, fit) ==
  [candidates |-> candidates, why |-> why, fit |-> fit]

Blocked(content) ==
  Decide("ambiguous", None, None, "review_blocked", content)

Active(d, b) == d.status[b] = "scheduled"

(* validate_linked_bout.                                                   *)
Linked(d, b, fit) == Active(d, b) /\ b \in fit

(* _lookup_provider_id_candidate: the alias before the first binding.      *)
Stored(d, t) ==
  IF Effective(d, t) > 0 THEN d.aliases[Effective(d, t)].bout ELSE d.source

(* resolve_match_lifecycle.                                                *)
Resolve(d, b, t) ==
  IF IsTerminal(d, b, t) THEN LatestLife(d, b, t).state
  ELSE IF Visible(d, t) = {} THEN "missing_unknown" ELSE "active"

(* match_provider_event.  A stored id that fits wins; one that is active   *)
(* and does not fit blocks; an inactive one gives way to the participants. *)
MatchEvent(d, fit, named, t) ==
  LET s == Stored(d, t)
      hits == { b \in fit : Active(d, b) }
      Matched(b, rule) == Decide("matched", b, rule, Resolve(d, b, t), None)
  IN CASE s # None /\ Linked(d, s, fit) -> Matched(s, "provider_id")
       [] s # None /\ Active(d, s) /\ ~Linked(d, s, fit) ->
            Blocked(Content({s}, "unsafe", fit))
       [] OTHER ->
            IF ~named THEN Blocked(Content({}, "names", fit))
            ELSE IF hits = {} THEN
              Decide("unmatched", None, None, "missing_unknown", None)
            ELSE IF Cardinality(hits) = 1 THEN
              Matched(CHOOSE b \in hits : TRUE, "participant_pair")
            ELSE Blocked(Content(hits, "multiple", fit))
-----------------------------------------------------------------------------
Pending(d) == { i \in DOMAIN d.reviews : d.reviews[i].status = "pending" }

(* Mutant: new evidence leaves the version as it is.                       *)
SameVersion(d, content) ==
  IF Pending(d) = {}
  THEN [d EXCEPT !.reviews = Append(@,
          [status |-> "pending", version |-> 1, content |-> content,
           decision |-> None, alias |-> 0])]
  ELSE [d EXCEPT !.reviews[Max(Pending(d))].content = content]

Reworded(review, content) ==
  [review EXCEPT !.content = content, !.version = review.version + 1]

(* enqueue_bout_match_review: one pending review; evidence that differs    *)
(* makes a new version of it.                                              *)
Enqueue(d, content) ==
  LET p == Max(Pending(d)) IN
  IF Pending(d) = {}
  THEN [d EXCEPT !.reviews = Append(@,
          [status |-> "pending", version |-> 1, content |-> content,
           decision |-> None, alias |-> 0])]
  ELSE IF d.reviews[p].content = content THEN d
  ELSE [d EXCEPT !.reviews[p] = Reworded(d.reviews[p], content)]

(* supersede_provider_aliases.                                             *)
Ended(alias, t) == [alias EXCEPT !.gone = t]

Superseded(d, ids, t) ==
  [d EXCEPT !.aliases = [i \in DOMAIN d.aliases |->
     IF i \in ids THEN Ended(d.aliases[i], t) ELSE d.aliases[i]]]

Current(d) == { i \in DOMAIN d.aliases : d.aliases[i].gone = None }

(* activate_provider_alias: the same bout by the same rule keeps its alias.*)
ActivateAlias(d, b, rule, t) ==
  IF \E i \in Current(d) : d.aliases[i].bout = b /\ d.aliases[i].rule = rule
  THEN d
  ELSE [Superseded(d, Current(d), t) EXCEPT
          !.aliases = Append(@, [bout |-> b, rule |-> rule, at |-> t,
                                 gone |-> None]),
          !.source = IF @ = None THEN b ELSE @]

AddOnce(rows, row) ==
  IF \E i \in DOMAIN rows : rows[i] = row THEN rows ELSE Append(rows, row)

(* Mutant: an approval opens whatever it was given for.                    *)
ApprovalOpens(d, b, state, why, t) ==
  LET last == LatestLife(d, b, t)
      refused == /\ state = "active" /\ last # None
                 /\ last.state \in Terminal
                 /\ why \notin {"approved", "provider_id", "participant_pair"}
  IN IF refused THEN d
     ELSE [d EXCEPT !.life = AddOnce(@, [bout |-> b, state |-> state,
                                         why |-> why, at |-> t])]

(* apply_bout_lifecycle: ACTIVE needs the evidence that ends a block; the  *)
(* kinds that do not are refused silently.                                 *)
Apply(d, b, state, why, t) ==
  LET last == LatestLife(d, b, t)
      refused == /\ state = "active" /\ last # None
                 /\ \/ last.state = "replaced"
                    \/ /\ last.state = "review_blocked"
                       /\ why \notin {"approved", "provider_id",
                                      "participant_pair"}
  IN IF refused THEN d
     ELSE [d EXCEPT !.life = AddOnce(@, [bout |-> b, state |-> state,
                                         why |-> why, at |-> t])]

(* append_match_observation.                                               *)
Observe(d, status, bout, rule, t) ==
  [d EXCEPT !.matches =
     AddOnce(@, [status |-> status, bout |-> bout, rule |-> rule, at |-> t])]

(* The evidence that goes with ACTIVE.                                     *)
ActiveBecause(d, dec, t) ==
  LET last == LatestLife(d, dec.bout, t) IN
  IF last # None /\ last.state = "missing_unknown" THEN "fresh_quote"
  ELSE dec.rule

(* persist_match_decision.                                                 *)
Persist(d, dec, t) ==
  LET a == ActivateAlias(d, dec.bout, dec.rule, t)
      lived == CASE dec.life \in Terminal -> a
                 [] dec.life = "missing_unknown" ->
                      Apply(a, dec.bout, "missing_unknown", "no_quotes", t)
                 [] dec.life = "active" ->
                      Apply(a, dec.bout, "active", ActiveBecause(a, dec, t), t)
      blocked == IF dec.status = "ambiguous" /\ Effective(d, t) > 0
                 THEN Apply(d, d.aliases[Effective(d, t)].bout,
                            "review_blocked", "ambiguous", t)
                 ELSE d
  IN Observe(IF dec.status = "matched" THEN lived ELSE blocked,
             dec.status, dec.bout, dec.rule, t)

Enqueued(d, dec) == IF dec.review = None THEN d ELSE Enqueue(d, dec.review)
-----------------------------------------------------------------------------
MatchingInit ==
  /\ stamp = 0
  /\ odds = [quotes |-> {}, aliases |-> <<>>, matches |-> <<>>, life |-> <<>>,
             reviews |-> <<>>, source |-> None, writes |-> 0,
             overtaken |-> FALSE,
             status |-> [b \in MatchBouts |-> "scheduled"]]
  /\ rematch = None
  /\ operator = [o \in Operators |-> None]

Room == odds.writes < MaxWrites

Written(d) == [d EXCEPT !.writes = @ + 1]

TimePasses ==
  /\ stamp < MaxStamp /\ stamp' = stamp + 1
  /\ UNCHANGED <<odds, rematch, operator>>

(* A snapshot stores the quotes it finds (external to this module).        *)
StoreQuotes ==
  /\ stamp \notin odds.quotes
  /\ odds' = [odds EXCEPT !.quotes = @ \cup {stamp}]
  /\ UNCHANGED <<stamp, rematch, operator>>

(* The card is corrected: a bout is cancelled (external to this module).   *)
CancelBout(b) ==
  /\ Active(odds, b) /\ Room
  /\ odds' = Written([odds EXCEPT !.status[b] = "cancelled"])
  /\ UNCHANGED <<stamp, rematch, operator>>

(* reconcile_provider_events, the reads of it.  The clock does not show    *)
(* this time to another process again.                                     *)
ReadEvent ==
  /\ rematch = None /\ Room /\ stamp < MaxStamp
  /\ \E fit \in SUBSET MatchBouts, named \in BOOLEAN :
       /\ fit # {} => named
       /\ rematch' = [at |-> stamp, after |-> odds.writes,
                      dec |-> MatchEvent(odds, fit, named, stamp)]
  /\ stamp' = stamp + 1
  /\ UNCHANGED <<odds, operator>>

(* ... and what it writes, at the time it began.                           *)
WriteDecision ==
  /\ rematch # None /\ Room
  /\ LET d == Persist(Enqueued(odds, rematch.dec), rematch.dec, rematch.at)
     IN odds' = Written([d EXCEPT !.overtaken =
                           @ \/ rematch.after # odds.writes])
  /\ rematch' = None
  /\ UNCHANGED <<stamp, operator>>

DropDecision ==
  /\ rematch # None /\ rematch' = None
  /\ UNCHANGED <<stamp, odds, operator>>

(* The independent match of a replacement: it must find the new bout.      *)
ReplacementDecision(d, new, fit, named) ==
  LET dec == MatchEvent(d, fit, named, stamp) IN
  CASE dec.status = "matched" /\ dec.bout # new ->
         Blocked(Content({dec.bout, new}, "unexpected", fit))
    [] dec.status = "unmatched" -> Blocked(Content({new}, "unmatched", fit))
    [] OTHER -> dec

(* apply_replacement, the provider's event id used again.  (A review that  *)
(* the match itself enqueues is the one that is enqueued here.)            *)
ReplaceBout(old, new) ==
  /\ old # new /\ Active(odds, old) /\ Active(odds, new) /\ Room
  /\ \E fit \in SUBSET MatchBouts, named \in BOOLEAN :
       LET gone == Apply(Superseded([odds EXCEPT !.status[old] = "replaced"],
                                    Current(odds), stamp),
                         old, "replaced", "replaced", stamp)
           dec == ReplacementDecision(gone, new, fit, named)
       IN /\ fit # {} => named
          /\ odds' = Written(Persist(Enqueued(gone, dec), dec, stamp))
  /\ UNCHANGED <<stamp, rematch, operator>>
-----------------------------------------------------------------------------
(* An operator looks at a review and has its version in hand.              *)
Look(o) ==
  /\ \E i \in DOMAIN odds.reviews :
       operator' = [operator EXCEPT ![o] =
         [review |-> i, version |-> odds.reviews[i].version, bout |-> None,
          content |-> odds.reviews[i].content]]
  /\ UNCHANGED <<stamp, odds, rematch>>

Holds(o, statuses) ==
  /\ operator[o] # None
  /\ odds.reviews[operator[o].review].status \in statuses
  /\ odds.reviews[operator[o].review].version = operator[o].version

(* approve_bout_match_review up to its claim: the committed version, the   *)
(* candidates, the bout as the card has it now.                            *)
Validate(o) ==
  /\ Holds(o, {"pending"}) /\ operator[o].bout = None
  /\ \E b \in odds.reviews[operator[o].review].content.candidates :
       /\ Active(odds, b)
       /\ operator' = [operator EXCEPT ![o].bout = b]
  /\ UNCHANGED <<stamp, odds, rematch>>

Closed(review, status, bout, alias) ==
  [review EXCEPT !.status = status, !.version = review.version + 1,
                 !.decision = bout, !.alias = alias]

Moved(d, i, status, bout, alias) ==
  [d EXCEPT !.reviews[i] = Closed(d.reviews[i], status, bout, alias)]

(* The claim by compare and swap, the alias, the lifecycle and the match   *)
(* in one savepoint.                                                       *)
Approve(o) ==
  /\ Holds(o, {"pending"}) /\ operator[o].bout # None /\ Room
  /\ LET b == operator[o].bout
         a == ActivateAlias(odds, b, "manual_review", stamp)
         l == Apply(a, b, "active", "approved", stamp)
         own == CHOOSE i \in Current(a) :
                  a.aliases[i].bout = b /\ a.aliases[i].rule = "manual_review"
     IN odds' = Written(Moved(Observe(l, "matched", b, "manual_review", stamp),
                              operator[o].review, "approved", b, own))
  /\ operator' = [operator EXCEPT ![o] = None]
  /\ UNCHANGED <<stamp, rematch>>

Reject(o) ==
  /\ Holds(o, {"pending"}) /\ Room
  /\ odds' = Written(Moved(odds, operator[o].review, "rejected", None, 0))
  /\ operator' = [operator EXCEPT ![o] = None]
  /\ UNCHANGED <<stamp, rematch>>

(* What a reversal takes back: the review's own alias, if it is in force.  *)
Withdraw(d, r, t) ==
  IF r.alias \in Current(d)
  THEN Observe(Apply(Superseded(d, {r.alias}, t), r.decision,
                     "review_blocked", "reversed", t),
               "ambiguous", None, None, t)
  ELSE d

ReverseMatch(o) ==
  /\ Holds(o, {"approved", "rejected"}) /\ Room
  /\ LET i == operator[o].review  r == odds.reviews[i] IN
       odds' = Written(Moved(Withdraw(odds, r, stamp), i, "reversed", r.decision, r.alias))
  /\ operator' = [operator EXCEPT ![o] = None]
  /\ UNCHANGED <<stamp, rematch>>

(* The version in hand is not the committed one: the call raises.          *)
Stale(o) ==
  /\ operator[o] # None
  /\ odds.reviews[operator[o].review].version # operator[o].version
  /\ operator' = [operator EXCEPT ![o] = None]
  /\ UNCHANGED <<stamp, odds, rematch>>

MatchingNext ==
  \/ TimePasses \/ StoreQuotes \/ \E b \in MatchBouts : CancelBout(b)
  \/ ReadEvent \/ WriteDecision \/ DropDecision
  \/ \E old, new \in MatchBouts : ReplaceBout(old, new)
  \/ \E o \in Operators : \/ Look(o) \/ Validate(o) \/ Approve(o)
                          \/ Reject(o) \/ ReverseMatch(o) \/ Stale(o)

MatchingSpec == MatchingInit /\ [][MatchingNext]_matchingVars
-----------------------------------------------------------------------------
(* A quote is never valued for a bout when it was observed while the       *)
(* provider's event id stood for another one ("never inherits the old      *)
(* opponent's quotes"), as long as no reconcile has written a decision that*)
(* another commit had overtaken: that one writes an alias into the past.   *)
NoInheritedQuote ==
  ~odds.overtaken => \A q \in odds.quotes : Eligible(odds, q, stamp) =>
    \A i \in ValidAt(odds, q) :
      odds.aliases[i].bout = odds.aliases[Effective(odds, stamp)].bout

(* What was eligible as of a time stays so when later rows arrive: only an *)
(* open reconcile can still write into the past, back to its own start.    *)
Horizon == IF rematch = None THEN stamp ELSE rematch.at

PastIsFixed ==
  [][ \A t \in 0..MaxStamp : t < Horizon =>
        \A q \in odds.quotes : Eligible(odds, q, t) <=> Eligible(odds', q, t)
    ]_matchingVars

(* _TERMINAL_TO_ACTIVE_EVIDENCE: nothing opens a bout that was replaced,   *)
(* not the approval of a review its operator checked before, and what opens*)
(* one blocked by an ambiguous match or a reversal is an approval of that  *)
(* very bout, or a match of it that is newer than the block.               *)
UnblocksAsListed ==
  [][ \A b \in MatchBouts :
        IsTerminal(odds, b, stamp) /\ ~IsTerminal(odds', b, stamp') =>
          LET block == LatestLife(odds, b, stamp) IN
          /\ block.state = "review_blocked"
          /\ \/ \E o \in Operators : Approve(o) /\ operator[o].bout = b
             \/ /\ WriteDecision /\ rematch.at >= block.at
                /\ rematch.dec.status = "matched" /\ rematch.dec.bout = b
    ]_matchingVars

(* An approval is of the evidence and the candidates the operator saw:     *)
(* whatever a reconcile adds to the pending review makes the call stale.   *)
ApprovesWhatWasSeen ==
  [][ \A o \in Operators : Approve(o) =>
        /\ odds.reviews[operator[o].review].content = operator[o].content
        /\ operator[o].bout \in operator[o].content.candidates
    ]_matchingVars

(* alias_quote_lower_bound: only the reuse of an id for another bout hides *)
(* the quotes observed before.                                             *)
CutoffOnlyForReusedId ==
  \A v \in DOMAIN odds.aliases : v > 1 =>
    \E i \in 1..(v - 1) : odds.aliases[i].bout # odds.aliases[v].bout
=============================================================================
