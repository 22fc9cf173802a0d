---------------------------- MODULE MatchingProofs --------------------------
(***************************************************************************)
(* What may be relied on about a provider event's bout, for any bouts, any *)
(* number of operators and any length of history: rows that arrive later   *)
(* do not change what was eligible before, only an approval opens a        *)
(* blocked bout, an approval is of the evidence the operator saw, no quote *)
(* is inherited by another bout, and a backtest that is repeated finds the *)
(* same prices.                                                            *)
(***************************************************************************)
EXTENDS QuoteValue, TLAPS, WellFoundedInduction, SequenceTheorems

OddsRows ==
  [quotes : SUBSET Nat, aliases : Seq(AliasRow), matches : Seq(MatchRow),
   life : Seq(LifeRow), reviews : Seq(ReviewRow), source : MatchBouts \cup {None},
   writes : Nat, overtaken : BOOLEAN,
   status : [MatchBouts -> {"scheduled", "cancelled", "replaced"}]]

InHand ==
  [review : Nat, version : Nat, bout : MatchBouts \cup {None}, content : Evidence]

(* A matched event has a bout and a rule.                                  *)
Decisions ==
  { dec \in MatchDecision :
      dec.status = "matched" => dec.bout \in MatchBouts /\ dec.rule \in Rule }

Attempt == [at : Nat, after : Nat, dec : Decisions]

MatchingTypeOK ==
  /\ stamp \in Nat /\ odds \in OddsRows
  /\ rematch \in Attempt \cup {None}
  /\ operator \in [Operators -> InHand \cup {None}]
-----------------------------------------------------------------------------
(* A set of natural numbers has a least element, and one that is bounded   *)
(* has a greatest.                                                         *)
LEMMA HasLeast ==
  ASSUME NEW T \in SUBSET Nat, T # {}
  PROVE  \E x \in T : \A y \in T : x <= y
<1>1. PICK x \in T : \A y \in T : ~(<<y, x>> \in OpToRel(<, Nat))
  BY NatLessThanWellFounded, WFMin
<1>2. \A y \in T : ~(y < x)
  BY <1>1 DEF OpToRel
<1> QED
  BY <1>2

LEMMA HasGreatest ==
  ASSUME NEW n \in Nat, NEW T \in SUBSET (0..n), T # {}
  PROVE  \E x \in T : \A y \in T : y <= x
<1> DEFINE U == { n - y : y \in T }
<1>1. U \in SUBSET Nat /\ U # {}
  <2>1. \A y \in T : n - y \in Nat
    OBVIOUS
  <2>2. PICK y \in T : TRUE
    OBVIOUS
  <2> QED
    BY <2>1, <2>2
<1>2. PICK u \in U : \A w \in U : u <= w
  BY <1>1, HasLeast
<1>3. PICK x \in T : u = n - x
  BY <1>2
<1>4. \A y \in T : n - x <= n - y
  BY <1>2, <1>3
<1> QED
  BY <1>4

LEMMA MaxIsIn ==
  ASSUME NEW n \in Nat, NEW T \in SUBSET (0..n), T # {}
  PROVE  Max(T) \in T /\ \A y \in T : y <= Max(T)
  BY HasGreatest DEF Max

(* Of some rows with times, one was written last.                          *)
Latest(rows, ids, i) ==
  \A j \in ids : rows[j].at < rows[i].at \/ (rows[j].at = rows[i].at /\ j <= i)

LEMMA HasLatest ==
  ASSUME NEW S, NEW rows \in Seq(S), NEW n \in Nat, NEW ids \in SUBSET (1..n), ids # {}, NEW t \in Nat,
         \A i \in ids : rows[i].at \in Nat /\ rows[i].at <= t
  PROVE  \E i \in ids : Latest(rows, ids, i)
<1> DEFINE times == { rows[i].at : i \in ids }
<1>1. times \in SUBSET (0..t) /\ times # {}
  <2>1. \A i \in ids : rows[i].at \in 0..t
    OBVIOUS
  <2>2. PICK i \in ids : TRUE
    OBVIOUS
  <2> QED
    BY <2>1, <2>2
<1>2. PICK m \in times : \A k \in times : k <= m
  BY <1>1, HasGreatest
<1> DEFINE last == { i \in ids : rows[i].at = m }
<1>3. last \in SUBSET (0..n) /\ last # {}
  <2>1. \A i \in ids : i \in 0..n
    OBVIOUS
  <2>2. PICK i \in ids : m = rows[i].at
    BY <1>2
  <2> QED
    BY <2>1, <2>2
<1>4. PICK i \in last : \A j \in last : j <= i
  BY <1>3, HasGreatest
<1>5. ASSUME NEW j \in ids
      PROVE  rows[j].at < rows[i].at \/ (rows[j].at = rows[i].at /\ j <= i)
  <2>1. rows[j].at <= m /\ rows[i].at = m /\ rows[j].at \in Nat /\ m \in Nat
    BY <1>1, <1>2, <1>4, <1>5
  <2>2. CASE rows[j].at = m
    <3>1. j \in last
      BY <1>5, <2>2
    <3>2. j <= i
      BY <1>4, <3>1
    <3> QED
      BY <2>1, <2>2, <3>2
  <2>3. CASE rows[j].at # m
    <3>1. rows[j].at < rows[i].at
      BY <2>1, <2>3
    <3> QED
      BY <3>1
  <2> QED
    BY <2>2, <2>3
<1> QED
  BY <1>4, <1>5 DEF Latest

LEMMA LatestOne ==
  ASSUME NEW S, NEW rows \in Seq(S), NEW n \in Nat, NEW ids \in SUBSET (1..n), ids # {}, NEW t \in Nat,
         \A i \in ids : rows[i].at \in Nat /\ rows[i].at <= t
  PROVE  \E i \in ids : Latest(rows, ids, i) /\ LatestOf(rows, ids) = rows[i]
  BY HasLatest DEF LatestOf, Latest

LEMMA LatestIs ==
  ASSUME NEW S, NEW rows \in Seq(S), NEW n \in Nat, NEW ids \in SUBSET (1..n), NEW k \in ids,
         \A i \in ids : rows[i].at \in Nat, Latest(rows, ids, k)
  PROVE  LatestOf(rows, ids) = rows[k]
<1>1. ASSUME NEW i \in ids, Latest(rows, ids, i) PROVE i = k
  <2>1. /\ rows[k].at < rows[i].at \/ (rows[k].at = rows[i].at /\ k <= i)
        /\ rows[i].at < rows[k].at \/ (rows[i].at = rows[k].at /\ i <= k)
    BY <1>1 DEF Latest
  <2>2. rows[i].at \in Nat /\ rows[k].at \in Nat /\ i \in Nat /\ k \in Nat
    OBVIOUS
  <2> QED
    BY <2>1, <2>2
<1> QED
  BY <1>1 DEF LatestOf, Latest
-----------------------------------------------------------------------------
(* Writing one field of the rows leaves the others.                        *)
SameButLife(d, e) ==
  /\ e.quotes = d.quotes /\ e.aliases = d.aliases /\ e.matches = d.matches
  /\ e.reviews = d.reviews /\ e.source = d.source /\ e.writes = d.writes
  /\ e.overtaken = d.overtaken /\ e.status = d.status

SameButMatches(d, e) ==
  /\ e.quotes = d.quotes /\ e.aliases = d.aliases /\ e.life = d.life
  /\ e.reviews = d.reviews /\ e.source = d.source /\ e.writes = d.writes
  /\ e.overtaken = d.overtaken /\ e.status = d.status

SameButAliases(d, e) ==
  /\ e.quotes = d.quotes /\ e.matches = d.matches /\ e.life = d.life
  /\ e.reviews = d.reviews /\ e.writes = d.writes
  /\ e.overtaken = d.overtaken /\ e.status = d.status

SameButReviews(d, e) ==
  /\ e.quotes = d.quotes /\ e.aliases = d.aliases /\ e.matches = d.matches
  /\ e.life = d.life /\ e.source = d.source /\ e.writes = d.writes
  /\ e.overtaken = d.overtaken /\ e.status = d.status

LEMMA WriteLife ==
  ASSUME NEW d \in OddsRows, NEW s \in Seq(LifeRow)
  PROVE  LET e == [d EXCEPT !.life = s] IN
         e \in OddsRows /\ e.life = s /\ SameButLife(d, e)
  BY DEF OddsRows, SameButLife

LEMMA WriteMatches ==
  ASSUME NEW d \in OddsRows, NEW s \in Seq(MatchRow)
  PROVE  LET e == [d EXCEPT !.matches = s] IN
         e \in OddsRows /\ e.matches = s /\ SameButMatches(d, e)
  BY DEF OddsRows, SameButMatches

LEMMA WriteAliases ==
  ASSUME NEW d \in OddsRows, NEW s \in Seq(AliasRow), NEW b \in MatchBouts \cup {None}
  PROVE  /\ LET e == [d EXCEPT !.aliases = s] IN
            e \in OddsRows /\ e.aliases = s /\ e.source = d.source /\ SameButAliases(d, e)
         /\ LET e == [d EXCEPT !.aliases = s, !.source = b] IN
            e \in OddsRows /\ e.aliases = s /\ SameButAliases(d, e)
  BY DEF OddsRows, SameButAliases

LEMMA WriteReviews ==
  ASSUME NEW d \in OddsRows, NEW s \in Seq(ReviewRow)
  PROVE  LET e == [d EXCEPT !.reviews = s] IN
         e \in OddsRows /\ e.reviews = s /\ SameButReviews(d, e)
  BY DEF OddsRows, SameButReviews
-----------------------------------------------------------------------------
(* Rows that are only appended, at h or later; an alias may also end then. *)
Appended(s, r, h) ==
  /\ Len(s) <= Len(r)
  /\ \A i \in 1..Len(s) : r[i] = s[i]
  /\ \A i \in 1..Len(r) : i > Len(s) => r[i].at >= h

AliasesExtend(s, r, h) ==
  /\ Len(s) <= Len(r)
  /\ \A i \in 1..Len(s) :
       /\ r[i].bout = s[i].bout /\ r[i].at = s[i].at
       /\ r[i].gone = s[i].gone \/ (s[i].gone = None /\ r[i].gone \in Nat /\ r[i].gone >= h)
  /\ \A i \in 1..Len(r) : i > Len(s) => r[i].at >= h

LaterRows(d, e, h) ==
  /\ Appended(d.life, e.life, h) /\ Appended(d.matches, e.matches, h)
  /\ AliasesExtend(d.aliases, e.aliases, h) /\ d.quotes \subseteq e.quotes

LEMMA AppendOne ==
  ASSUME NEW S, NEW s \in Seq(S), NEW x \in S, NEW h \in Nat, x.at = h
  PROVE  Append(s, x) \in Seq(S) /\ Appended(s, Append(s, x), h) /\ Appended(s, s, h)
  BY DEF Appended

LEMMA AddOnceType ==
  ASSUME NEW S, NEW s \in Seq(S), NEW x \in S, NEW h \in Nat, x.at = h
  PROVE  /\ AddOnce(s, x) \in Seq(S) /\ Appended(s, AddOnce(s, x), h)
         /\ AddOnce(s, x) \in {s, Append(s, x)}
  BY AppendOne DEF AddOnce

LEMMA AppendedIsTransitive ==
  ASSUME NEW S, NEW s \in Seq(S), NEW r \in Seq(S), NEW q \in Seq(S), NEW h \in Nat,
         Appended(s, r, h), Appended(r, q, h)
  PROVE  Appended(s, q, h)
<1>1. Len(s) \in Nat /\ Len(r) \in Nat /\ Len(q) \in Nat
  OBVIOUS
<1>2. \A i \in 1..Len(s) : i \in 1..Len(r) /\ q[i] = s[i]
  BY <1>1 DEF Appended
<1>3. \A i \in 1..Len(q) : i > Len(s) => q[i].at >= h
  <2>1. ASSUME NEW i \in 1..Len(q), i > Len(s) PROVE q[i].at >= h
    <3>1. CASE i > Len(r)
      BY <3>1 DEF Appended
    <3>2. CASE ~(i > Len(r))
      <4>1. i \in 1..Len(r)
        BY <1>1, <3>2
      <4> QED
        BY <2>1, <4>1 DEF Appended
    <3> QED
      BY <3>1, <3>2
  <2> QED
    BY <2>1
<1> QED
  BY <1>1, <1>2, <1>3 DEF Appended

LEMMA ObserveStep ==
  ASSUME NEW d \in OddsRows, NEW status \in {"matched", "ambiguous", "unmatched"},
         NEW b \in MatchBouts \cup {None}, NEW rule \in Rule \cup {None}, NEW t \in Nat
  PROVE  LET e == Observe(d, status, b, rule, t) IN
         e \in OddsRows /\ SameButMatches(d, e) /\ Appended(d.matches, e.matches, t)
<1> DEFINE row == [status |-> status, bout |-> b, rule |-> rule, at |-> t]
<1>1. row \in MatchRow /\ row.at = t /\ d.matches \in Seq(MatchRow)
  BY DEF MatchRow, OddsRows
<1> HIDE DEF row
<1>2. AddOnce(d.matches, row) \in Seq(MatchRow) /\ Appended(d.matches, AddOnce(d.matches, row), t)
  BY <1>1, AddOnceType
<1>3. Observe(d, status, b, rule, t) = [d EXCEPT !.matches = AddOnce(d.matches, row)]
  BY DEF Observe, row
<1> QED
  BY <1>2, <1>3, WriteMatches

States == {"active", "missing_unknown", "review_blocked", "replaced"}
Reasons == Rule \cup {"approved", "fresh_quote", "no_quotes", "ambiguous", "replaced", "reversed"}

Life(b, state, why, t) == [bout |-> b, state |-> state, why |-> why, at |-> t]

(* apply_bout_lifecycle adds at most one row, and none that opens a bout   *)
(* which is replaced, or which is blocked and not approved.                *)
LEMMA ApplyStep ==
  ASSUME NEW d \in OddsRows, NEW b \in MatchBouts \cup {None}, NEW state \in States,
         NEW why \in Reasons, NEW t \in Nat
  PROVE  LET e == Apply(d, b, state, why, t)  row == Life(b, state, why, t) IN
         /\ e \in OddsRows /\ SameButLife(d, e) /\ Appended(d.life, e.life, t)
         /\ row \in LifeRow /\ row.bout = b /\ row.state = state /\ row.at = t
         /\ \/ e.life = d.life
            \/ /\ e.life = Append(d.life, row)
               /\ state = "active" /\ LatestLife(d, b, t) # None =>
                    LatestLife(d, b, t).state # "replaced"
<1> DEFINE row == Life(b, state, why, t)  last == LatestLife(d, b, t)
<1>1. /\ row \in LifeRow /\ row.bout = b /\ row.state = state /\ row.at = t
      /\ d.life \in Seq(LifeRow)
  BY DEF Life, LifeRow, OddsRows, States, Reasons
<1>2. /\ Apply(d, b, state, why, t) = d
      \/ /\ Apply(d, b, state, why, t) = [d EXCEPT !.life = AddOnce(d.life, row)]
         /\ state = "active" /\ last # None => last.state # "replaced"
  BY DEF Apply, Life
<1> HIDE DEF row, last
<1>3. /\ AddOnce(d.life, row) \in Seq(LifeRow) /\ Appended(d.life, AddOnce(d.life, row), t)
      /\ AddOnce(d.life, row) \in {d.life, Append(d.life, row)}
  BY <1>1, AddOnceType
<1>4. CASE Apply(d, b, state, why, t) = d
  BY <1>1, <1>4, AppendOne DEF SameButLife, row
<1>5. CASE /\ Apply(d, b, state, why, t) = [d EXCEPT !.life = AddOnce(d.life, row)]
           /\ state = "active" /\ last # None => last.state # "replaced"
  BY <1>1, <1>3, <1>5, WriteLife DEF row, last
<1> QED
  BY <1>2, <1>4, <1>5
-----------------------------------------------------------------------------
(* The effective alias is one of the valid ones, if there are any.         *)
LEMMA EffectiveIs ==
  ASSUME NEW d \in OddsRows, NEW t
  PROVE  /\ ValidAt(d, t) \subseteq 1..Len(d.aliases) /\ d.aliases \in Seq(AliasRow)
         /\ ValidAt(d, t) = {} => Effective(d, t) = 0
         /\ ValidAt(d, t) # {} => Effective(d, t) \in ValidAt(d, t) /\ Effective(d, t) > 0
<1> DEFINE n == Len(d.aliases)
<1>1. d.aliases \in Seq(AliasRow) /\ n \in Nat
  BY DEF OddsRows
<1>2. ValidAt(d, t) \subseteq 1..n
  BY <1>1 DEF ValidAt
<1>3. ValidAt(d, t) \in SUBSET (0..n)
  BY <1>1, <1>2
<1>4. ValidAt(d, t) # {} => Max(ValidAt(d, t)) \in ValidAt(d, t)
  BY <1>1, <1>3, MaxIsIn
<1> QED
  BY <1>1, <1>2, <1>4 DEF Effective

LEMMA EndedAlias ==
  ASSUME NEW a \in AliasRow, NEW t \in Nat
  PROVE  /\ Ended(a, t) \in AliasRow
         /\ Ended(a, t).bout = a.bout /\ Ended(a, t).at = a.at /\ Ended(a, t).gone = t
  BY DEF Ended, AliasRow

(* The aliases in force end, and those that ended before stay as they are. *)
EndedAll(s, r, ids, t) ==
  /\ Len(r) = Len(s)
  /\ \A i \in 1..Len(s) :
       /\ i \in ids => r[i].bout = s[i].bout /\ r[i].at = s[i].at /\ r[i].gone = t
       /\ i \notin ids => r[i] = s[i]

LEMMA SupersededStep ==
  ASSUME NEW d \in OddsRows, NEW ids \in SUBSET Current(d), NEW t \in Nat
  PROVE  LET e == Superseded(d, ids, t) IN
         /\ e \in OddsRows /\ SameButAliases(d, e) /\ e.source = d.source
         /\ EndedAll(d.aliases, e.aliases, ids, t)
         /\ AliasesExtend(d.aliases, e.aliases, t)
<1> DEFINE s == d.aliases
           r == [i \in DOMAIN s |-> IF i \in ids THEN Ended(s[i], t) ELSE s[i]]
<1>1. s \in Seq(AliasRow) /\ DOMAIN s = 1..Len(s) /\ Len(s) \in Nat
  BY DEF OddsRows
<1>2. \A i \in 1..Len(s) : s[i] \in AliasRow
  BY <1>1
<1>3. \A i \in 1..Len(s) : r[i] \in AliasRow
  BY <1>1, <1>2, EndedAlias
<1>4. r \in Seq(AliasRow) /\ Len(r) = Len(s)
  <2>1. r \in [1..Len(s) -> AliasRow]
    BY <1>1, <1>3
  <2> HIDE DEF r
  <2> QED
    BY <1>1, <2>1, SeqDef, LenProperties
<1>5. EndedAll(s, r, ids, t)
  BY <1>1, <1>2, <1>4, EndedAlias DEF EndedAll
<1>6. \A i \in ids : s[i].gone = None
  BY DEF Current
<1>7. AliasesExtend(s, r, t)
  <2>1. \A i \in 1..Len(s) :
          /\ r[i].bout = s[i].bout /\ r[i].at = s[i].at
          /\ r[i].gone = s[i].gone \/ (s[i].gone = None /\ r[i].gone \in Nat /\ r[i].gone >= t)
    <3>1. ASSUME NEW i \in 1..Len(s)
          PROVE  /\ r[i].bout = s[i].bout /\ r[i].at = s[i].at
                 /\ r[i].gone = s[i].gone
                    \/ (s[i].gone = None /\ r[i].gone \in Nat /\ r[i].gone >= t)
      <4>1. CASE i \in ids
        BY <1>5, <1>6, <4>1 DEF EndedAll
      <4>2. CASE i \notin ids
        BY <1>5, <4>2 DEF EndedAll
      <4> QED
        BY <4>1, <4>2
    <3> QED
      BY <3>1
  <2>2. Len(s) <= Len(r) /\ \A i \in 1..Len(r) : ~(i > Len(s))
    BY <1>1, <1>4
  <2> QED
    BY <2>1, <2>2 DEF AliasesExtend
<1>8. Superseded(d, ids, t) = [d EXCEPT !.aliases = r]
  BY DEF Superseded
<1> HIDE DEF r
<1>9. None \in MatchBouts \cup {None}
  OBVIOUS
<1>10. LET e == [d EXCEPT !.aliases = r] IN
         e \in OddsRows /\ e.aliases = r /\ e.source = d.source /\ SameButAliases(d, e)
  BY <1>4, <1>9, WriteAliases
<1> QED
  BY <1>5, <1>7, <1>8, <1>10

(* A new alias ends those in force.                                        *)
Renewed(d, r, b, t) ==
  \E s \in Seq(AliasRow), a \in AliasRow :
    /\ EndedAll(d.aliases, s, Current(d), t)
    /\ r = Append(s, a) /\ a.bout = b /\ a.at = t /\ a.gone = None

LEMMA ActivateStep ==
  ASSUME NEW d \in OddsRows, NEW b \in MatchBouts, NEW rule \in Rule, NEW t \in Nat
  PROVE  LET e == ActivateAlias(d, b, rule, t) IN
         /\ e \in OddsRows /\ SameButAliases(d, e)
         /\ AliasesExtend(d.aliases, e.aliases, t)
         /\ e.aliases = d.aliases \/ Renewed(d, e.aliases, b, t)
<1> DEFINE a == [bout |-> b, rule |-> rule, at |-> t, gone |-> None]
           s == Superseded(d, Current(d), t)
           e == ActivateAlias(d, b, rule, t)
<1>1. d.aliases \in Seq(AliasRow)
  BY DEF OddsRows
<1>2. CASE e = d
  <2>1. AliasesExtend(d.aliases, d.aliases, t)
    BY <1>1 DEF AliasesExtend
  <2> QED
    BY <1>2, <2>1 DEF SameButAliases
<1>3. CASE e # d
  <2>1. PICK src \in MatchBouts \cup {None} :
          e = [s EXCEPT !.aliases = Append(s.aliases, a), !.source = src]
    <3>1. s \in OddsRows
      BY SupersededStep
    <3>2. s.source \in MatchBouts \cup {None}
      BY <3>1 DEF OddsRows
    <3> QED
      BY <1>3, <3>2 DEF ActivateAlias
  <2>2. /\ s \in OddsRows /\ SameButAliases(d, s)
        /\ EndedAll(d.aliases, s.aliases, Current(d), t)
        /\ AliasesExtend(d.aliases, s.aliases, t)
    BY SupersededStep
  <2>3. a \in AliasRow /\ a.bout = b /\ a.at = t /\ a.gone = None
    BY DEF AliasRow
  <2>4. s.aliases \in Seq(AliasRow)
    BY <2>2 DEF OddsRows
  <2> HIDE DEF a, s
  <2>5. Append(s.aliases, a) \in Seq(AliasRow)
    BY <2>3, <2>4
  <2>6. e \in OddsRows /\ e.aliases = Append(s.aliases, a) /\ SameButAliases(s, e)
    <3> DEFINE new == Append(s.aliases, a)
    <3>1. new \in Seq(AliasRow)
      BY <2>5
    <3> HIDE DEF new, e
    <3>2. LET w == [s EXCEPT !.aliases = new, !.source = src] IN
            w \in OddsRows /\ w.aliases = new /\ SameButAliases(s, w)
      BY <2>2, <3>1, WriteAliases
    <3> QED
      BY <2>1, <3>2 DEF new
  <2>7. AliasesExtend(d.aliases, e.aliases, t)
    BY <1>1, <2>2, <2>3, <2>4, <2>6 DEF EndedAll, AliasesExtend
  <2>8. Renewed(d, e.aliases, b, t)
    BY <2>2, <2>3, <2>4, <2>6 DEF Renewed
  <2> QED
    BY <2>2, <2>6, <2>7, <2>8 DEF SameButAliases
<1> QED
  BY <1>2, <1>3
-----------------------------------------------------------------------------
LEMMA ResolveStep ==
  ASSUME NEW d, NEW b, NEW t
  PROVE  /\ Resolve(d, b, t) \in States
         /\ Resolve(d, b, t) \notin Terminal => ~IsTerminal(d, b, t)
  BY DEF Resolve, IsTerminal, Terminal, States

LEMMA DecideType ==
  /\ \A b \in MatchBouts, rule \in Rule, state \in States :
       LET dec == Decide("matched", b, rule, state, None) IN
       dec \in Decisions /\ dec.status = "matched" /\ dec.bout = b /\ dec.life = state
  /\ \A content \in Evidence :
       Blocked(content) \in Decisions /\ Blocked(content).status = "ambiguous"
  /\ LET dec == Decide("unmatched", None, None, "missing_unknown", None) IN
       dec \in Decisions /\ dec.status = "unmatched"
  BY DEF Decide, Blocked, Decisions, MatchDecision, States

LEMMA ContentType ==
  \A C, F \in SUBSET MatchBouts :
    \A why \in {"unsafe", "names", "multiple", "unexpected", "unmatched"} :
      Content(C, why, F) \in Evidence
  BY DEF Content, Evidence

LEMMA StoredType ==
  ASSUME NEW d \in OddsRows, NEW t
  PROVE  Stored(d, t) \in MatchBouts \cup {None}
<1>1. CASE Effective(d, t) > 0
  <2>1. Effective(d, t) \in 1..Len(d.aliases) /\ d.aliases \in Seq(AliasRow)
    BY <1>1, EffectiveIs
  <2>2. d.aliases[Effective(d, t)] \in AliasRow
    BY <2>1
  <2>3. d.aliases[Effective(d, t)].bout \in MatchBouts
    BY <2>2 DEF AliasRow
  <2> QED
    BY <1>1, <2>3 DEF Stored
<1>2. CASE ~(Effective(d, t) > 0)
  BY <1>2 DEF Stored, OddsRows
<1> QED
  BY <1>1, <1>2

(* A match that is not left blocked found a bout that was open.            *)
LEMMA MatchEventType ==
  ASSUME NEW d \in OddsRows, NEW fit \in SUBSET MatchBouts, NEW named \in BOOLEAN, NEW t \in Nat
  PROVE  LET dec == MatchEvent(d, fit, named, t) IN
         /\ dec \in Decisions
         /\ dec.status = "matched" /\ dec.life \notin Terminal => ~IsTerminal(d, dec.bout, t)
<1> DEFINE s == Stored(d, t)
           hits == { b \in fit : Active(d, b) }
           found == CHOOSE b \in hits : TRUE
           dec == MatchEvent(d, fit, named, t)
<1>1. s \in MatchBouts \cup {None}
  BY StoredType
<1>2. hits # {} => found \in MatchBouts
  OBVIOUS
<1>3. \/ s # None /\ dec = Decide("matched", s, "provider_id", Resolve(d, s, t), None)
      \/ s # None /\ dec = Blocked(Content({s}, "unsafe", fit))
      \/ dec = Blocked(Content({}, "names", fit))
      \/ dec = Decide("unmatched", None, None, "missing_unknown", None)
      \/ hits # {} /\ dec = Decide("matched", found, "participant_pair", Resolve(d, found, t), None)
      \/ dec = Blocked(Content(hits, "multiple", fit))
  BY DEF MatchEvent
<1> HIDE DEF s, hits, found, dec
<1>4. hits \in SUBSET MatchBouts
  BY DEF hits
<1>5. CASE s # None /\ dec = Decide("matched", s, "provider_id", Resolve(d, s, t), None)
  BY <1>1, <1>5, DecideType, ResolveStep DEF Rule, dec
<1>6. CASE s # None /\ dec = Blocked(Content({s}, "unsafe", fit))
  BY <1>1, <1>6, DecideType, ContentType DEF dec
<1>7. CASE dec = Blocked(Content({}, "names", fit))
  BY <1>7, DecideType, ContentType DEF dec
<1>8. CASE dec = Decide("unmatched", None, None, "missing_unknown", None)
  BY <1>8, DecideType DEF dec
<1>9. CASE hits # {} /\ dec = Decide("matched", found, "participant_pair",
                                     Resolve(d, found, t), None)
  BY <1>2, <1>9, DecideType, ResolveStep DEF Rule, dec
<1>10. CASE dec = Blocked(Content(hits, "multiple", fit))
  BY <1>4, <1>10, DecideType, ContentType DEF dec
<1> QED
  BY <1>3, <1>5, <1>6, <1>7, <1>8, <1>9, <1>10

(* What a decision may add to the life of bouts: a block, or the life it   *)
(* found for the bout that it matched.                                     *)
Adds(d, e, dec, t) ==
  \/ e.life = d.life
  \/ \E row \in LifeRow :
       /\ e.life = Append(d.life, row) /\ row.at = t
       /\ \/ row.state = "review_blocked"
          \/ dec.status = "matched" /\ row.bout = dec.bout /\ dec.life \notin Terminal

LEMMA PersistStep ==
  ASSUME NEW d \in OddsRows, NEW dec \in Decisions, NEW t \in Nat
  PROVE  LET e == Persist(d, dec, t) IN
         /\ e \in OddsRows /\ LaterRows(d, e, t) /\ Adds(d, e, dec, t)
         /\ e.quotes = d.quotes /\ e.reviews = d.reviews /\ e.status = d.status
         /\ e.writes = d.writes /\ e.overtaken = d.overtaken
         /\ e.aliases = d.aliases \/ Renewed(d, e.aliases, dec.bout, t)
<1> DEFINE Good(e) ==
      /\ e \in OddsRows
      /\ Appended(d.life, e.life, t) /\ AliasesExtend(d.aliases, e.aliases, t)
      /\ Adds(d, e, dec, t)
      /\ e.quotes = d.quotes /\ e.reviews = d.reviews /\ e.status = d.status
      /\ e.writes = d.writes /\ e.overtaken = d.overtaken /\ e.matches = d.matches
      /\ e.aliases = d.aliases \/ Renewed(d, e.aliases, dec.bout, t)
<1>1. /\ dec.status \in {"matched", "ambiguous", "unmatched"}
      /\ dec.bout \in MatchBouts \cup {None} /\ dec.rule \in Rule \cup {None}
      /\ dec.life \in States
      /\ dec.status = "matched" => dec.bout \in MatchBouts /\ dec.rule \in Rule
  BY DEF Decisions, MatchDecision, States
<1>2. ASSUME NEW e \in OddsRows, Good(e)
      PROVE  LET f == Observe(e, dec.status, dec.bout, dec.rule, t) IN
             /\ f \in OddsRows /\ LaterRows(d, f, t) /\ Adds(d, f, dec, t)
             /\ f.quotes = d.quotes /\ f.reviews = d.reviews /\ f.status = d.status
             /\ f.writes = d.writes /\ f.overtaken = d.overtaken
             /\ f.aliases = d.aliases \/ Renewed(d, f.aliases, dec.bout, t)
  <2> DEFINE f == Observe(e, dec.status, dec.bout, dec.rule, t)
  <2>1. f \in OddsRows /\ SameButMatches(e, f) /\ Appended(e.matches, f.matches, t)
    BY <1>1, ObserveStep
  <2> HIDE DEF f
  <2>2. Adds(d, f, dec, t)
    BY <1>2, <2>1 DEF SameButMatches, Adds
  <2>3. LaterRows(d, f, t)
    BY <1>2, <2>1 DEF SameButMatches, LaterRows
  <2> QED
    BY <1>2, <2>1, <2>2, <2>3 DEF SameButMatches, f
<1>3. d.life \in Seq(LifeRow) /\ d.aliases \in Seq(AliasRow)
  BY DEF OddsRows
<1>4. Appended(d.life, d.life, t) /\ AliasesExtend(d.aliases, d.aliases, t)
  BY <1>3 DEF Appended, AliasesExtend
<1>5. CASE dec.status = "matched"
  <2> DEFINE a == ActivateAlias(d, dec.bout, dec.rule, t)
  <2>1. /\ a \in OddsRows /\ SameButAliases(d, a)
        /\ AliasesExtend(d.aliases, a.aliases, t)
        /\ a.aliases = d.aliases \/ Renewed(d, a.aliases, dec.bout, t)
    BY <1>1, <1>5, ActivateStep
  <2> HIDE DEF a
  <2>2. Good(a)
    BY <1>4, <2>1 DEF SameButAliases, Adds
  <2>3. CASE dec.life \in Terminal
    <3>1. Persist(d, dec, t) = Observe(a, dec.status, dec.bout, dec.rule, t)
      BY <1>5, <2>3 DEF Persist, a, Terminal
    <3> QED
      BY <1>2, <2>1, <2>2, <3>1
  <2>4. ASSUME dec.life \notin Terminal, NEW state \in States, NEW why \in Reasons,
               Persist(d, dec, t) =
                 Observe(Apply(a, dec.bout, state, why, t), dec.status, dec.bout, dec.rule, t)
        PROVE  LET f == Persist(d, dec, t) IN
               /\ f \in OddsRows /\ LaterRows(d, f, t) /\ Adds(d, f, dec, t)
               /\ f.quotes = d.quotes /\ f.reviews = d.reviews /\ f.status = d.status
               /\ f.writes = d.writes /\ f.overtaken = d.overtaken
               /\ f.aliases = d.aliases \/ Renewed(d, f.aliases, dec.bout, t)
    <3> DEFINE e == Apply(a, dec.bout, state, why, t)
               row == Life(dec.bout, state, why, t)
    <3>1. /\ e \in OddsRows /\ SameButLife(a, e) /\ Appended(a.life, e.life, t)
          /\ row \in LifeRow /\ row.bout = dec.bout /\ row.at = t
          /\ e.life = a.life \/ e.life = Append(a.life, row)
      <4>1. dec.bout \in MatchBouts \cup {None}
        BY <1>1
      <4> QED
        BY <4>1, <2>1, <2>4, ApplyStep
    <3> HIDE DEF e, row
    <3>2. a.life = d.life
      BY <2>1 DEF SameButAliases
    <3>3. Adds(d, e, dec, t)
      BY <1>5, <2>4, <3>1, <3>2 DEF Adds
    <3>4. Good(e)
      BY <2>2, <3>1, <3>2, <3>3 DEF SameButLife
    <3> QED
      BY <1>2, <2>4, <3>1, <3>4 DEF e
  <2>5. CASE dec.life = "missing_unknown"
    <3>1. Persist(d, dec, t) =
            Observe(Apply(a, dec.bout, "missing_unknown", "no_quotes", t),
                    dec.status, dec.bout, dec.rule, t)
      BY <1>5, <2>5 DEF Persist, a, Terminal
    <3> QED
      BY <2>4, <2>5, <3>1 DEF Terminal, States, Reasons
  <2>6. CASE dec.life = "active"
    <3>1. Persist(d, dec, t) =
            Observe(Apply(a, dec.bout, "active", ActiveBecause(a, dec, t), t),
                    dec.status, dec.bout, dec.rule, t)
      BY <1>5, <2>6 DEF Persist, a, Terminal
    <3>2. ActiveBecause(a, dec, t) \in Reasons
      BY <1>1, <1>5 DEF ActiveBecause, Reasons
    <3> QED
      BY <2>4, <2>6, <3>1, <3>2 DEF Terminal, States
  <2> QED
    BY <1>1, <2>3, <2>5, <2>6 DEF Terminal, States
<1>6. CASE dec.status # "matched"
  <2>1. CASE dec.status = "ambiguous" /\ Effective(d, t) > 0
    <3> DEFINE b == d.aliases[Effective(d, t)].bout
               e == Apply(d, b, "review_blocked", "ambiguous", t)
               row == Life(b, "review_blocked", "ambiguous", t)
    <3>1. b \in MatchBouts \cup {None}
      BY <2>1, StoredType DEF Stored
    <3> HIDE DEF b
    <3>2. /\ e \in OddsRows /\ SameButLife(d, e) /\ Appended(d.life, e.life, t)
          /\ row \in LifeRow /\ row.state = "review_blocked" /\ row.at = t
          /\ e.life = d.life \/ e.life = Append(d.life, row)
      <4>1. "review_blocked" \in States /\ "ambiguous" \in Reasons
        BY DEF States, Reasons
      <4>2. PICK state \in States, why \in Reasons : state = "review_blocked" /\ why = "ambiguous"
        BY <4>1
      <4>3. LET f == Apply(d, b, state, why, t)  r == Life(b, state, why, t) IN
            /\ f \in OddsRows /\ SameButLife(d, f) /\ Appended(d.life, f.life, t)
            /\ r \in LifeRow /\ r.state = state /\ r.at = t
            /\ f.life = d.life \/ f.life = Append(d.life, r)
        BY <3>1, ApplyStep
      <4> QED
        BY <4>2, <4>3
    <3>3. Persist(d, dec, t) = Observe(e, dec.status, dec.bout, dec.rule, t)
      BY <1>6, <2>1 DEF Persist, b
    <3> HIDE DEF e, row
    <3>4. Good(e)
      BY <1>4, <3>2 DEF SameButLife, Adds
    <3> QED
      BY <1>2, <3>2, <3>3, <3>4
  <2>2. CASE ~(dec.status = "ambiguous" /\ Effective(d, t) > 0)
    <3>1. Persist(d, dec, t) = Observe(d, dec.status, dec.bout, dec.rule, t)
      BY <1>6, <2>2 DEF Persist
    <3>2. Good(d)
      BY <1>4 DEF Adds
    <3> QED
      BY <1>2, <3>1, <3>2
  <2> QED
    BY <2>1, <2>2
<1> QED
  BY <1>5, <1>6
-----------------------------------------------------------------------------
(* What is read as of a time does not change with rows of a later time.    *)
LEMMA LatestIsFixed ==
  ASSUME NEW S, NEW s \in Seq(S), NEW r \in Seq(S), NEW t \in Nat,
         NEW ids \in SUBSET (1..Len(s)),
         \A i \in ids : s[i].at \in Nat /\ s[i].at <= t /\ r[i] = s[i]
  PROVE  LatestOf(s, ids) = LatestOf(r, ids)
<1>0. Len(s) \in Nat
  OBVIOUS
<1>1. CASE ids = {}
  BY <1>1 DEF LatestOf
<1>2. CASE ids # {}
  <2>1. PICK i \in ids : Latest(s, ids, i) /\ LatestOf(s, ids) = s[i]
    BY <1>0, <1>2, LatestOne
  <2>2. Latest(r, ids, i)
    BY <2>1 DEF Latest
  <2>3. LatestOf(r, ids) = r[i]
    BY <1>0, <2>2, LatestIs
  <2> QED
    BY <2>1, <2>3
<1> QED
  BY <1>1, <1>2

LEMMA RowTimes ==
  ASSUME NEW d \in OddsRows
  PROVE  /\ d.life \in Seq(LifeRow) /\ DOMAIN d.life = 1..Len(d.life) /\ Len(d.life) \in Nat
         /\ \A i \in 1..Len(d.life) : d.life[i] \in LifeRow /\ d.life[i].at \in Nat
         /\ d.matches \in Seq(MatchRow) /\ DOMAIN d.matches = 1..Len(d.matches)
         /\ Len(d.matches) \in Nat
         /\ \A i \in 1..Len(d.matches) : d.matches[i].at \in Nat
         /\ d.aliases \in Seq(AliasRow) /\ DOMAIN d.aliases = 1..Len(d.aliases)
         /\ Len(d.aliases) \in Nat
         /\ \A i \in 1..Len(d.aliases) :
              /\ d.aliases[i].at \in Nat /\ d.aliases[i].gone \in Nat \cup {None}
              /\ d.aliases[i].bout \in MatchBouts
<1>1. \A x \in LifeRow : x.at \in Nat
  BY DEF LifeRow
<1>2. \A x \in MatchRow : x.at \in Nat
  BY DEF MatchRow
<1>3. \A x \in AliasRow : x.at \in Nat /\ x.gone \in Nat \cup {None} /\ x.bout \in MatchBouts
  BY DEF AliasRow
<1>4. d.life \in Seq(LifeRow) /\ d.matches \in Seq(MatchRow) /\ d.aliases \in Seq(AliasRow)
  BY DEF OddsRows
<1> QED
  BY <1>1, <1>2, <1>3, <1>4

LEMMA LifeIsFixed ==
  ASSUME NEW d \in OddsRows, NEW e \in OddsRows, NEW h \in Nat, NEW t \in Nat, t < h,
         Appended(d.life, e.life, h), NEW b
  PROVE  LatestLife(e, b, t) = LatestLife(d, b, t)
<1> DEFINE s == d.life  r == e.life  n == Len(s)
           ids == { i \in 1..n : s[i].bout = b /\ s[i].at <= t }
<1>0. s \in Seq(LifeRow) /\ r \in Seq(LifeRow)
  BY DEF OddsRows
<1>1. /\ n \in Nat /\ Len(r) \in Nat /\ DOMAIN s = 1..n /\ DOMAIN r = 1..Len(r)
      /\ \A i \in 1..n : s[i].at \in Nat
      /\ \A i \in 1..Len(r) : r[i].at \in Nat
  BY RowTimes
<1>2. /\ n <= Len(r) /\ \A i \in 1..n : r[i] = s[i]
      /\ \A i \in 1..Len(r) : i > n => r[i].at >= h
  BY DEF Appended
<1>3. LatestLife(d, b, t) = LatestOf(s, ids)
  BY <1>1 DEF LatestLife
<1> HIDE DEF s, r
<1>4. { i \in 1..Len(r) : r[i].bout = b /\ r[i].at <= t } = ids
  <2>1. ASSUME NEW i \in 1..Len(r), r[i].at <= t PROVE i \in 1..n
    BY <1>1, <1>2, <2>1
  <2>2. \A i \in 1..n : i \in 1..Len(r)
    BY <1>1, <1>2
  <2> QED
    BY <1>2, <2>1, <2>2
<1>5. LatestLife(e, b, t) = LatestOf(r, ids)
  BY <1>1, <1>4 DEF LatestLife, r
<1>6. /\ ids \in SUBSET (1..n)
      /\ \A i \in ids : s[i].at \in Nat /\ s[i].at <= t /\ r[i] = s[i]
  BY <1>1, <1>2
<1> HIDE DEF ids
<1>7. LatestOf(s, ids) = LatestOf(r, ids)
  BY <1>0, <1>1, <1>6, LatestIsFixed
<1> QED
  BY <1>3, <1>5, <1>7

LEMMA MatchIsFixed ==
  ASSUME NEW d \in OddsRows, NEW e \in OddsRows, NEW h \in Nat, NEW t \in Nat, t < h,
         Appended(d.matches, e.matches, h)
  PROVE  LatestMatch(e, t) = LatestMatch(d, t)
<1> DEFINE s == d.matches  r == e.matches  n == Len(s)
           ids == { i \in 1..n : s[i].at <= t }
<1>0. s \in Seq(MatchRow) /\ r \in Seq(MatchRow)
  BY DEF OddsRows
<1>1. /\ n \in Nat /\ Len(r) \in Nat /\ DOMAIN s = 1..n /\ DOMAIN r = 1..Len(r)
      /\ \A i \in 1..n : s[i].at \in Nat
      /\ \A i \in 1..Len(r) : r[i].at \in Nat
  BY RowTimes
<1>2. /\ n <= Len(r) /\ \A i \in 1..n : r[i] = s[i]
      /\ \A i \in 1..Len(r) : i > n => r[i].at >= h
  BY DEF Appended
<1>3. LatestMatch(d, t) = LatestOf(s, ids)
  BY <1>1 DEF LatestMatch
<1> HIDE DEF s, r
<1>4. { i \in 1..Len(r) : r[i].at <= t } = ids
  <2>1. ASSUME NEW i \in 1..Len(r), r[i].at <= t PROVE i \in 1..n
    BY <1>1, <1>2, <2>1
  <2>2. \A i \in 1..n : i \in 1..Len(r)
    BY <1>1, <1>2
  <2> QED
    BY <1>2, <2>1, <2>2
<1>5. LatestMatch(e, t) = LatestOf(r, ids)
  BY <1>1, <1>4 DEF LatestMatch, r
<1>6. /\ ids \in SUBSET (1..n)
      /\ \A i \in ids : s[i].at \in Nat /\ s[i].at <= t /\ r[i] = s[i]
  BY <1>1, <1>2
<1> HIDE DEF ids
<1>7. LatestOf(s, ids) = LatestOf(r, ids)
  BY <1>0, <1>1, <1>6, LatestIsFixed
<1> QED
  BY <1>3, <1>5, <1>7

LEMMA AliasIsFixed ==
  ASSUME NEW d \in OddsRows, NEW e \in OddsRows, NEW h \in Nat, NEW t \in Nat, t < h,
         AliasesExtend(d.aliases, e.aliases, h)
  PROVE  /\ ValidAt(e, t) = ValidAt(d, t) /\ Effective(e, t) = Effective(d, t)
         /\ \A i \in ValidAt(d, t) :
              e.aliases[i].bout = d.aliases[i].bout /\ e.aliases[i].at = d.aliases[i].at
         /\ (\A i \in DOMAIN e.aliases : t < e.aliases[i].at)
              <=> (\A i \in DOMAIN d.aliases : t < d.aliases[i].at)
<1> DEFINE s == d.aliases  r == e.aliases  n == Len(s)
<1>1. /\ n \in Nat /\ Len(r) \in Nat /\ DOMAIN s = 1..n /\ DOMAIN r = 1..Len(r)
      /\ \A i \in 1..n : s[i].at \in Nat
      /\ \A i \in 1..Len(r) : r[i].at \in Nat
  BY RowTimes
<1>2. /\ n <= Len(r)
      /\ \A i \in 1..n :
           /\ r[i].bout = s[i].bout /\ r[i].at = s[i].at
           /\ r[i].gone = s[i].gone \/ (s[i].gone = None /\ r[i].gone \in Nat /\ r[i].gone >= h)
      /\ \A i \in 1..Len(r) : i > n => r[i].at >= h
  BY DEF AliasesExtend
<1>3. /\ ValidAt(d, t) = { i \in 1..n : s[i].at <= t /\ (s[i].gone = None \/ t < s[i].gone) }
      /\ ValidAt(e, t) = { i \in 1..Len(r) : r[i].at <= t /\ (r[i].gone = None \/ t < r[i].gone) }
  BY <1>1 DEF ValidAt
<1> HIDE DEF s, r, n
<1>4. \A i \in 1..Len(r) : r[i].at <= t => i \in 1..n
  BY <1>1, <1>2
<1>5. \A i \in 1..n : i \in 1..Len(r)
  BY <1>1, <1>2
<1>6. None \notin Nat
  BY MatchingAssumption
<1>7. \A i \in 1..n : (r[i].gone = None \/ t < r[i].gone) <=> (s[i].gone = None \/ t < s[i].gone)
  BY <1>2, <1>6
<1>8. ValidAt(e, t) = ValidAt(d, t)
  BY <1>2, <1>3, <1>4, <1>5, <1>7
<1>9. (\A i \in 1..Len(r) : t < r[i].at) <=> (\A i \in 1..n : t < s[i].at)
  BY <1>1, <1>2, <1>5
<1>10. \A i \in ValidAt(d, t) : r[i].bout = s[i].bout /\ r[i].at = s[i].at
  BY <1>2, <1>3
<1> QED
  BY <1>1, <1>8, <1>9, <1>10 DEF Effective, r, s

LEMMA EligibleIsFixed ==
  ASSUME NEW d \in OddsRows, NEW e \in OddsRows, NEW h \in Nat, NEW t \in Nat, t < h,
         LaterRows(d, e, h), NEW q \in d.quotes
  PROVE  Eligible(d, q, t) <=> Eligible(e, q, t)
<1> DEFINE v == Effective(d, t)
<1>1. /\ LatestMatch(e, t) = LatestMatch(d, t)
      /\ \A b : LatestLife(e, b, t) = LatestLife(d, b, t)
      /\ Effective(e, t) = v
      /\ (\A i \in DOMAIN e.aliases : t < e.aliases[i].at)
           <=> (\A i \in DOMAIN d.aliases : t < d.aliases[i].at)
  BY MatchIsFixed, LifeIsFixed, AliasIsFixed DEF LaterRows
<1>2. v # 0 => /\ e.aliases[v].bout = d.aliases[v].bout /\ e.aliases[v].at = d.aliases[v].at
               /\ v > 0
  BY EffectiveIs, AliasIsFixed DEF LaterRows
<1>3. q \in e.quotes
  BY DEF LaterRows
<1>4. \A b : IsTerminal(e, b, t) <=> IsTerminal(d, b, t)
  BY <1>1 DEF IsTerminal
<1>5. v \in Nat
  <2>1. Len(d.aliases) \in Nat
    BY RowTimes
  <2>2. v = 0 \/ v \in 1..Len(d.aliases)
    BY EffectiveIs
  <2> QED
    BY <2>1, <2>2
<1> HIDE DEF v
<1>6. q \in Visible(d, t) <=> q \in Visible(e, t)
  BY <1>1, <1>2, <1>3, <1>5 DEF Visible, v
<1> QED
  BY <1>1, <1>2, <1>4, <1>5, <1>6 DEF Eligible, v
-----------------------------------------------------------------------------
(* Reviews are only added, and one that changes has a newer version.       *)
Grown(s, r) ==
  /\ Len(s) <= Len(r)
  /\ \A i \in 1..Len(s) : r[i] = s[i] \/ r[i].version > s[i].version

LEMMA ReviewAdded ==
  ASSUME NEW d \in OddsRows, NEW row \in ReviewRow
  PROVE  LET e == [d EXCEPT !.reviews = Append(@, row)] IN
         e \in OddsRows /\ SameButReviews(d, e) /\ Grown(d.reviews, e.reviews)
<1>1. d.reviews \in Seq(ReviewRow) /\ Append(d.reviews, row) \in Seq(ReviewRow)
  BY DEF OddsRows
<1>2. Grown(d.reviews, Append(d.reviews, row))
  BY <1>1 DEF Grown
<1> QED
  BY <1>1, <1>2, WriteReviews

LEMMA ReviewChanged ==
  ASSUME NEW d \in OddsRows, NEW i \in 1..Len(d.reviews), NEW row \in ReviewRow,
         row.version > d.reviews[i].version
  PROVE  LET e == [d EXCEPT !.reviews[i] = row] IN
         e \in OddsRows /\ SameButReviews(d, e) /\ Grown(d.reviews, e.reviews)
<1> DEFINE s == d.reviews  r == [s EXCEPT ![i] = row]
<1>1. s \in Seq(ReviewRow)
  BY DEF OddsRows
<1>2. r \in Seq(ReviewRow) /\ Len(r) = Len(s) /\ \A j \in 1..Len(s) : r[j] = s[j] \/ j = i
  BY <1>1
<1>3. r[i] = row
  BY <1>1
<1>4. Grown(s, r)
  BY <1>1, <1>2, <1>3 DEF Grown
<1>5. [d EXCEPT !.reviews[i] = row] = [d EXCEPT !.reviews = r]
  BY DEF OddsRows
<1> HIDE DEF r
<1> QED
  BY <1>2, <1>4, <1>5, WriteReviews

LEMMA NewVersion ==
  ASSUME NEW x \in ReviewRow, NEW content \in Evidence,
         NEW status \in {"pending", "approved", "rejected", "reversed"},
         NEW b \in MatchBouts \cup {None}, NEW alias \in Nat
  PROVE  /\ Reworded(x, content) \in ReviewRow /\ Reworded(x, content).version > x.version
         /\ Closed(x, status, b, alias) \in ReviewRow
         /\ Closed(x, status, b, alias).version > x.version
<1>1. x.version \in Nat /\ x.version + 1 \in Nat /\ x.version + 1 > x.version
  BY DEF ReviewRow
<1> DEFINE v == x.version + 1
<1> HIDE DEF v
<1>2. v \in Nat /\ v > x.version
  BY <1>1 DEF v
<1>3. LET y == [x EXCEPT !.content = content, !.version = v] IN
      y \in ReviewRow /\ y.version = v
  BY <1>2 DEF ReviewRow
<1>4. LET y == [x EXCEPT !.status = status, !.version = v, !.decision = b, !.alias = alias] IN
      y \in ReviewRow /\ y.version = v
  BY <1>2 DEF ReviewRow
<1> QED
  BY <1>2, <1>3, <1>4 DEF Reworded, Closed, v

LEMMA EnqueueStep ==
  ASSUME NEW d \in OddsRows, NEW content \in Evidence
  PROVE  LET e == Enqueue(d, content) IN
         e \in OddsRows /\ SameButReviews(d, e) /\ Grown(d.reviews, e.reviews)
<1> DEFINE new == [status |-> "pending", version |-> 1, content |-> content,
                   decision |-> None, alias |-> 0]
           p == Max(Pending(d))
<1>1. d.reviews \in Seq(ReviewRow)
  BY DEF OddsRows
<1>2. CASE Pending(d) = {}
  <2>1. new \in ReviewRow
    BY DEF ReviewRow
  <2>2. Enqueue(d, content) = [d EXCEPT !.reviews = Append(@, new)]
    BY <1>2 DEF Enqueue
  <2> QED
    BY <2>1, <2>2, ReviewAdded
<1>3. CASE Pending(d) # {} /\ d.reviews[p].content = content
  <2>1. Enqueue(d, content) = d
    BY <1>3 DEF Enqueue
  <2> QED
    BY <1>1, <2>1 DEF SameButReviews, Grown
<1>4. CASE Pending(d) # {} /\ d.reviews[p].content # content
  <2> DEFINE row == Reworded(d.reviews[p], content)
  <2>1. p \in 1..Len(d.reviews)
    <3>1. Pending(d) \in SUBSET (0..Len(d.reviews)) /\ Pending(d) \subseteq 1..Len(d.reviews)
          /\ Len(d.reviews) \in Nat
      BY <1>1 DEF Pending
    <3> QED
      BY <1>4, <3>1, MaxIsIn
  <2> HIDE DEF p
  <2>2. d.reviews[p] \in ReviewRow
    BY <1>1, <2>1
  <2>3. row \in ReviewRow /\ row.version > d.reviews[p].version
    BY <2>2, NewVersion
  <2>4. Enqueue(d, content) = [d EXCEPT !.reviews[p] = row]
    BY <1>4 DEF Enqueue, p
  <2> HIDE DEF row
  <2> QED
    BY <2>1, <2>3, <2>4, ReviewChanged
<1> QED
  BY <1>2, <1>3, <1>4

LEMMA EnqueuedStep ==
  ASSUME NEW d \in OddsRows, NEW dec \in Decisions
  PROVE  LET e == Enqueued(d, dec) IN
         e \in OddsRows /\ SameButReviews(d, e) /\ Grown(d.reviews, e.reviews)
<1>1. CASE dec.review = None
  <2>1. d.reviews \in Seq(ReviewRow)
    BY DEF OddsRows
  <2> QED
    BY <1>1, <2>1 DEF Enqueued, SameButReviews, Grown
<1>2. CASE dec.review # None
  <2>1. dec.review \in Evidence
    BY <1>2 DEF Decisions, MatchDecision
  <2> QED
    BY <1>2, <2>1, EnqueueStep DEF Enqueued
<1> QED
  BY <1>1, <1>2

LEMMA MovedStep ==
  ASSUME NEW d \in OddsRows, NEW i \in 1..Len(d.reviews),
         NEW status \in {"pending", "approved", "rejected", "reversed"},
         NEW b \in MatchBouts \cup {None}, NEW alias \in Nat
  PROVE  LET e == Moved(d, i, status, b, alias) IN
         e \in OddsRows /\ SameButReviews(d, e) /\ Grown(d.reviews, e.reviews)
<1> DEFINE row == Closed(d.reviews[i], status, b, alias)
<1>1. d.reviews[i] \in ReviewRow
  BY DEF OddsRows
<1>2. PICK content \in Evidence : TRUE
  BY <1>1 DEF ReviewRow
<1>3. row \in ReviewRow /\ row.version > d.reviews[i].version
  BY <1>1, <1>2, NewVersion
<1>4. Moved(d, i, status, b, alias) = [d EXCEPT !.reviews[i] = row]
  BY DEF Moved
<1> HIDE DEF row
<1>5. LET e == [d EXCEPT !.reviews[i] = row] IN
        e \in OddsRows /\ SameButReviews(d, e) /\ Grown(d.reviews, e.reviews)
  BY <1>3, ReviewChanged
<1> QED
  BY <1>4, <1>5
-----------------------------------------------------------------------------
(* Nothing in these rows is later than now.                                *)
LifeBy(s, now) == \A i \in 1..Len(s) : s[i].at <= now

AliasBy(s, now) ==
  \A i \in 1..Len(s) : s[i].at <= now /\ (s[i].gone # None => s[i].gone <= now)

(* An alias has ended when the next one begins.                            *)
Chained(s) ==
  \A i, j \in 1..Len(s) : i < j => s[i].gone # None /\ s[i].gone <= s[j].at

(* What a write at time t does to the rows.                                *)
AliasesFollow(s, r, t) ==
  /\ \A now \in Nat : t <= now /\ AliasBy(s, now) => AliasBy(r, now)
  /\ AliasBy(s, t) /\ Chained(s) => Chained(r)

Writes(d, e, t) ==
  /\ e \in OddsRows /\ LaterRows(d, e, t) /\ Grown(d.reviews, e.reviews)
  /\ \A now \in Nat : t <= now /\ LifeBy(d.life, now) => LifeBy(e.life, now)
  /\ AliasesFollow(d.aliases, e.aliases, t)
  /\ e.quotes = d.quotes /\ e.writes = d.writes /\ e.overtaken = d.overtaken

LEMMA EndedFollow ==
  ASSUME NEW s \in Seq(AliasRow), NEW r \in Seq(AliasRow), NEW ids, NEW t \in Nat,
         EndedAll(s, r, ids, t), \A i \in ids : s[i].gone = None
  PROVE  AliasesFollow(s, r, t)
<1>1. /\ Len(s) \in Nat /\ Len(r) = Len(s)
      /\ \A i \in 1..Len(s) :
           /\ r[i].at = s[i].at
           /\ r[i].gone = s[i].gone \/ (s[i].gone = None /\ r[i].gone = t)
           /\ s[i].at \in Nat /\ s[i].gone \in Nat \cup {None}
  <2>1. \A x \in AliasRow : x.at \in Nat /\ x.gone \in Nat \cup {None}
    BY DEF AliasRow
  <2> QED
    BY <2>1 DEF EndedAll
<1>2. \A now \in Nat : t <= now /\ AliasBy(s, now) => AliasBy(r, now)
  BY <1>1 DEF AliasBy
<1>3. None \notin Nat
  BY MatchingAssumption
<1>4. Chained(s) => Chained(r)
  BY <1>1, <1>3 DEF Chained
<1> QED
  BY <1>2, <1>4 DEF AliasesFollow

LEMMA RenewedFollow ==
  ASSUME NEW d \in OddsRows, NEW r, NEW b, NEW t \in Nat, Renewed(d, r, b, t)
  PROVE  AliasesFollow(d.aliases, r, t)
<1> DEFINE s == d.aliases
<1>1. s \in Seq(AliasRow) /\ None \notin Nat
  BY MatchingAssumption DEF OddsRows
<1>2. PICK m \in Seq(AliasRow), a \in AliasRow :
        /\ EndedAll(s, m, Current(d), t)
        /\ r = Append(m, a) /\ a.bout = b /\ a.at = t /\ a.gone = None
  BY DEF Renewed
<1>3. AliasesFollow(s, m, t)
  <2>1. \A i \in Current(d) : s[i].gone = None
    BY DEF Current
  <2> QED
    BY <1>1, <1>2, <2>1, EndedFollow
<1>4. /\ Len(m) \in Nat /\ Len(r) = Len(m) + 1 /\ r[Len(r)] = a
      /\ \A i \in 1..Len(m) : r[i] = m[i]
  BY <1>2
<1>5. \A now \in Nat : t <= now /\ AliasBy(m, now) => AliasBy(r, now)
  <2>1. \A i \in 1..Len(r) : i \in 1..Len(m) \/ r[i] = a
    BY <1>4
  <2> QED
    BY <1>2, <1>4, <2>1 DEF AliasBy
<1>6. ASSUME AliasBy(s, t), Chained(s) PROVE Chained(r)
  <2>1. AliasBy(m, t) /\ Chained(m)
    BY <1>3, <1>6 DEF AliasesFollow
  <2>2. \A i \in 1..Len(m) : m[i].gone # None
    <3>1. ASSUME NEW i \in 1..Len(m) PROVE m[i].gone # None
      <4>1. i \in 1..Len(s) /\ (i \in Current(d) => m[i].gone = t)
            /\ (i \notin Current(d) => m[i] = s[i])
        BY <1>1, <1>2 DEF EndedAll
      <4>2. i \notin Current(d) => s[i].gone # None
        BY <1>1, <4>1 DEF Current
      <4> QED
        BY <1>1, <4>1, <4>2
    <3> QED
      BY <3>1
  <2>3. ASSUME NEW i \in 1..Len(r), NEW j \in 1..Len(r), i < j
        PROVE  r[i].gone # None /\ r[i].gone <= r[j].at
    <3>1. i \in 1..Len(m) /\ r[i] = m[i]
      BY <1>4, <2>3
    <3>2. CASE j \in 1..Len(m)
      BY <1>4, <2>1, <2>3, <3>1, <3>2 DEF Chained
    <3>3. CASE j = Len(r)
      BY <1>2, <1>4, <2>1, <2>2, <3>1, <3>3 DEF AliasBy
    <3> QED
      BY <1>4, <3>2, <3>3
  <2> QED
    BY <2>3 DEF Chained
<1>7. \A now \in Nat : t <= now /\ AliasBy(s, now) => AliasBy(r, now)
  BY <1>3, <1>5 DEF AliasesFollow
<1> QED
  BY <1>6, <1>7 DEF AliasesFollow

LEMMA WritesAreTransitive ==
  ASSUME NEW d \in OddsRows, NEW e \in OddsRows, NEW f, NEW t \in Nat,
         Writes(d, e, t), Writes(e, f, t)
  PROVE  Writes(d, f, t)
<1>1. f \in OddsRows
  BY DEF Writes
<1>2. Appended(d.life, f.life, t) /\ Appended(d.matches, f.matches, t)
  <2>1. /\ d.life \in Seq(LifeRow) /\ e.life \in Seq(LifeRow) /\ f.life \in Seq(LifeRow)
        /\ d.matches \in Seq(MatchRow) /\ e.matches \in Seq(MatchRow)
        /\ f.matches \in Seq(MatchRow)
    BY <1>1 DEF OddsRows
  <2>2. /\ Appended(d.life, e.life, t) /\ Appended(e.life, f.life, t)
        /\ Appended(d.matches, e.matches, t) /\ Appended(e.matches, f.matches, t)
    BY DEF Writes, LaterRows
  <2> QED
    BY <2>1, <2>2, AppendedIsTransitive
<1>3. AliasesExtend(d.aliases, f.aliases, t)
  <2> DEFINE s == d.aliases  m == e.aliases  r == f.aliases
  <2>1. /\ s \in Seq(AliasRow) /\ m \in Seq(AliasRow) /\ r \in Seq(AliasRow)
        /\ None \notin Nat /\ AliasesExtend(s, m, t) /\ AliasesExtend(m, r, t)
    BY <1>1, MatchingAssumption DEF OddsRows, Writes, LaterRows
  <2> HIDE DEF s, m, r
  <2>2. Len(s) \in Nat /\ Len(m) \in Nat /\ Len(r) \in Nat
    BY <2>1
  <2>3. \A i \in 1..Len(s) : i \in 1..Len(m)
    BY <2>1, <2>2 DEF AliasesExtend
  <2>4. \A i \in 1..Len(s) :
          /\ r[i].bout = s[i].bout /\ r[i].at = s[i].at
          /\ r[i].gone = s[i].gone \/ (s[i].gone = None /\ r[i].gone \in Nat /\ r[i].gone >= t)
    BY <2>1, <2>3 DEF AliasesExtend
  <2>5. ASSUME NEW i \in 1..Len(r), i > Len(s) PROVE r[i].at >= t
    <3>1. CASE i \in 1..Len(m)
      BY <2>1, <2>5, <3>1 DEF AliasesExtend
    <3>2. CASE i > Len(m)
      BY <2>1, <3>2 DEF AliasesExtend
    <3> QED
      BY <2>2, <3>1, <3>2
  <2>6. Len(s) <= Len(r)
    BY <2>1, <2>2 DEF AliasesExtend
  <2>7. AliasesExtend(s, r, t)
    BY <2>4, <2>5, <2>6 DEF AliasesExtend
  <2> QED
    BY <2>7 DEF s, r
<1>4. Grown(d.reviews, f.reviews)
  <2> DEFINE s == d.reviews  m == e.reviews  r == f.reviews
  <2>1. /\ s \in Seq(ReviewRow) /\ m \in Seq(ReviewRow) /\ r \in Seq(ReviewRow)
        /\ Grown(s, m) /\ Grown(m, r)
    BY <1>1 DEF OddsRows, Writes
  <2> HIDE DEF s, m, r
  <2>2. Len(s) \in Nat /\ Len(m) \in Nat /\ Len(r) \in Nat
    BY <2>1
  <2>3. \A x \in ReviewRow : x.version \in Nat
    BY DEF ReviewRow
  <2>4. \A i \in 1..Len(s) : i \in 1..Len(m) /\ i \in 1..Len(r)
    BY <2>1, <2>2 DEF Grown
  <2>5. \A i \in 1..Len(s) : /\ s[i].version \in Nat /\ m[i].version \in Nat
                             /\ r[i].version \in Nat
    BY <2>1, <2>3, <2>4
  <2>6. \A i \in 1..Len(s) : r[i] = s[i] \/ r[i].version > s[i].version
    BY <2>1, <2>4, <2>5 DEF Grown
  <2> QED
    BY <2>1, <2>2, <2>6 DEF Grown, s, r
<1>5. AliasesFollow(d.aliases, f.aliases, t)
  BY DEF Writes, AliasesFollow
<1> QED
  BY <1>1, <1>2, <1>3, <1>4, <1>5 DEF Writes, LaterRows

LEMMA WritesNothing ==
  ASSUME NEW d \in OddsRows, NEW t \in Nat
  PROVE  Writes(d, d, t)
<1>1. /\ d.life \in Seq(LifeRow) /\ d.matches \in Seq(MatchRow)
      /\ d.aliases \in Seq(AliasRow) /\ d.reviews \in Seq(ReviewRow)
  BY DEF OddsRows
<1>2. Appended(d.life, d.life, t) /\ Appended(d.matches, d.matches, t)
  BY <1>1 DEF Appended
<1>3. AliasesExtend(d.aliases, d.aliases, t)
  BY <1>1 DEF AliasesExtend
<1>4. Grown(d.reviews, d.reviews) /\ AliasesFollow(d.aliases, d.aliases, t)
  BY <1>1 DEF Grown, AliasesFollow
<1> QED
  BY <1>2, <1>3, <1>4 DEF Writes, LaterRows

LEMMA ReviewsWrite ==
  ASSUME NEW d \in OddsRows, NEW e \in OddsRows, NEW t \in Nat,
         SameButReviews(d, e), Grown(d.reviews, e.reviews)
  PROVE  Writes(d, e, t)
  BY WritesNothing DEF Writes, LaterRows, SameButReviews

LEMMA ObserveWrites ==
  ASSUME NEW d \in OddsRows, NEW status \in {"matched", "ambiguous", "unmatched"},
         NEW b \in MatchBouts \cup {None}, NEW rule \in Rule \cup {None}, NEW t \in Nat
  PROVE  LET e == Observe(d, status, b, rule, t) IN
         Writes(d, e, t) /\ SameButMatches(d, e)
<1> DEFINE e == Observe(d, status, b, rule, t)
<1>1. e \in OddsRows /\ SameButMatches(d, e) /\ Appended(d.matches, e.matches, t)
  BY ObserveStep
<1>2. Writes(d, d, t)
  BY WritesNothing
<1> HIDE DEF e
<1>3. Writes(d, e, t)
  BY <1>1, <1>2 DEF Writes, LaterRows, SameButMatches
<1> QED
  BY <1>1, <1>3 DEF e

LEMMA LifeWrites ==
  ASSUME NEW d \in OddsRows, NEW e \in OddsRows, NEW t \in Nat, NEW row \in LifeRow,
         SameButLife(d, e), row.at = t, e.life = d.life \/ e.life = Append(d.life, row)
  PROVE  Writes(d, e, t)
<1>1. Writes(d, d, t)
  BY WritesNothing
<1>2. d.life \in Seq(LifeRow)
  BY DEF OddsRows
<1>3. Appended(d.life, e.life, t)
  BY <1>2, AppendOne
<1>4. ASSUME NEW now \in Nat, t <= now, LifeBy(d.life, now) PROVE LifeBy(e.life, now)
  <2>1. CASE e.life = d.life
    BY <1>4, <2>1
  <2>2. CASE e.life = Append(d.life, row)
    <3>1. \A i \in 1..Len(e.life) :
            (i \in 1..Len(d.life) /\ e.life[i] = d.life[i]) \/ e.life[i] = row
      BY <1>2, <2>2
    <3> QED
      BY <1>4, <3>1 DEF LifeBy
  <2> QED
    BY <2>1, <2>2
<1> QED
  BY <1>1, <1>3, <1>4 DEF Writes, LaterRows, SameButLife

LEMMA SupersededWrites ==
  ASSUME NEW d \in OddsRows, NEW ids \in SUBSET Current(d), NEW t \in Nat
  PROVE  LET e == Superseded(d, ids, t) IN
         Writes(d, e, t) /\ SameButAliases(d, e)
<1> DEFINE e == Superseded(d, ids, t)
<1>1. /\ e \in OddsRows /\ SameButAliases(d, e)
      /\ EndedAll(d.aliases, e.aliases, ids, t) /\ AliasesExtend(d.aliases, e.aliases, t)
  BY SupersededStep
<1> HIDE DEF e
<1>2. Writes(d, d, t)
  BY WritesNothing
<1>3. AliasesFollow(d.aliases, e.aliases, t)
  <2>1. d.aliases \in Seq(AliasRow) /\ e.aliases \in Seq(AliasRow)
    BY <1>1 DEF OddsRows
  <2>2. \A i \in ids : d.aliases[i].gone = None
    BY DEF Current
  <2> QED
    BY <1>1, <2>1, <2>2, EndedFollow
<1>4. Writes(d, e, t)
  BY <1>1, <1>2, <1>3 DEF Writes, LaterRows, SameButAliases
<1> QED
  BY <1>1, <1>4 DEF e

LEMMA AliasesWrite ==
  ASSUME NEW d \in OddsRows, NEW e \in OddsRows, NEW t \in Nat, NEW b,
         AliasesExtend(d.aliases, e.aliases, t),
         e.aliases = d.aliases \/ Renewed(d, e.aliases, b, t)
  PROVE  AliasesFollow(d.aliases, e.aliases, t)
<1>1. AliasesFollow(d.aliases, d.aliases, t)
  BY DEF AliasesFollow
<1> QED
  BY <1>1, RenewedFollow

(* After an activation an alias of the bout by the rule is in force.       *)
LEMMA ActivateWrites ==
  ASSUME NEW d \in OddsRows, NEW b \in MatchBouts, NEW rule \in Rule, NEW t \in Nat
  PROVE  LET e == ActivateAlias(d, b, rule, t) IN
         /\ Writes(d, e, t) /\ SameButAliases(d, e)
         /\ \E i \in Current(e) : e.aliases[i].bout = b /\ e.aliases[i].rule = rule
<1> DEFINE e == ActivateAlias(d, b, rule, t)
<1>1. /\ e \in OddsRows /\ SameButAliases(d, e)
      /\ AliasesExtend(d.aliases, e.aliases, t)
      /\ e.aliases = d.aliases \/ Renewed(d, e.aliases, b, t)
  BY ActivateStep
<1>2. Writes(d, e, t)
  <2> HIDE DEF e
  <2>1. Writes(d, d, t)
    BY WritesNothing
  <2>2. AliasesFollow(d.aliases, e.aliases, t)
    BY <1>1, AliasesWrite
  <2> QED
    BY <1>1, <2>1, <2>2 DEF Writes, LaterRows, SameButAliases
<1>3. \E i \in Current(e) : e.aliases[i].bout = b /\ e.aliases[i].rule = rule
  <2>1. CASE \E i \in Current(d) : d.aliases[i].bout = b /\ d.aliases[i].rule = rule
    BY <2>1 DEF ActivateAlias
  <2>2. CASE ~ \E i \in Current(d) : d.aliases[i].bout = b /\ d.aliases[i].rule = rule
    <3> DEFINE s == Superseded(d, Current(d), t)
               a == [bout |-> b, rule |-> rule, at |-> t, gone |-> None]
    <3>1. e = [s EXCEPT !.aliases = Append(@, a), !.source = IF @ = None THEN b ELSE @]
      BY <2>2 DEF ActivateAlias
    <3>2. s \in OddsRows /\ s.aliases \in Seq(AliasRow)
      <4>1. s \in OddsRows
        BY SupersededStep
      <4> QED
        BY <4>1 DEF OddsRows
    <3>3. a \in AliasRow
      BY DEF AliasRow
    <3>4. a.bout = b /\ a.rule = rule /\ a.gone = None
      OBVIOUS
    <3> HIDE DEF s, a
    <3>5. e.aliases = Append(s.aliases, a)
      BY <3>1, <3>2 DEF OddsRows
    <3> HIDE DEF e
    <3>6. Len(e.aliases) \in DOMAIN e.aliases /\ e.aliases[Len(e.aliases)] = a
      BY <3>2, <3>3, <3>5
    <3> QED
      BY <3>4, <3>6 DEF Current
  <2> QED
    BY <2>1, <2>2
<1> QED
  BY <1>1, <1>2, <1>3

LEMMA PersistWrites ==
  ASSUME NEW d \in OddsRows, NEW dec \in Decisions, NEW t \in Nat
  PROVE  LET e == Persist(d, dec, t) IN
         /\ Writes(d, e, t) /\ Adds(d, e, dec, t) /\ e.status = d.status
<1> DEFINE e == Persist(d, dec, t)
<1>1. /\ e \in OddsRows /\ LaterRows(d, e, t) /\ Adds(d, e, dec, t)
      /\ e.quotes = d.quotes /\ e.reviews = d.reviews /\ e.status = d.status
      /\ e.writes = d.writes /\ e.overtaken = d.overtaken
      /\ e.aliases = d.aliases \/ Renewed(d, e.aliases, dec.bout, t)
  BY PersistStep
<1> HIDE DEF e
<1>2. Writes(d, d, t)
  BY WritesNothing
<1>3. AliasesFollow(d.aliases, e.aliases, t)
  BY <1>1, AliasesWrite DEF LaterRows
<1>4. \A now \in Nat : t <= now /\ LifeBy(d.life, now) => LifeBy(e.life, now)
  <2>1. CASE e.life = d.life
    BY <2>1
  <2>2. CASE \E row \in LifeRow : e.life = Append(d.life, row) /\ row.at = t
    <3>1. PICK row \in LifeRow : e.life = Append(d.life, row) /\ row.at = t
      BY <2>2
    <3>2. d.life \in Seq(LifeRow)
      BY DEF OddsRows
    <3>3. \A i \in 1..Len(e.life) :
            (i \in 1..Len(d.life) /\ e.life[i] = d.life[i]) \/ e.life[i] = row
      BY <3>1, <3>2
    <3> QED
      BY <3>1, <3>3 DEF LifeBy
  <2> QED
    BY <1>1, <2>1, <2>2 DEF Adds
<1>5. Writes(d, e, t)
  BY <1>1, <1>2, <1>3, <1>4 DEF Writes
<1> QED
  BY <1>1, <1>5 DEF e
-----------------------------------------------------------------------------
(* A committed write.                                                      *)
Commits(d, e, t) ==
  /\ e \in OddsRows /\ LaterRows(d, e, t) /\ Grown(d.reviews, e.reviews)
  /\ \A now \in Nat : t <= now /\ LifeBy(d.life, now) => LifeBy(e.life, now)
  /\ AliasesFollow(d.aliases, e.aliases, t)
  /\ e.quotes = d.quotes /\ e.writes = d.writes + 1

LEMMA CommitStep ==
  ASSUME NEW d \in OddsRows, NEW m, NEW t \in Nat, Writes(d, m, t), NEW o \in BOOLEAN
  PROVE  /\ LET e == Written(m) IN
            /\ Commits(d, e, t) /\ e.life = m.life /\ e.overtaken = d.overtaken
         /\ LET e == Written([m EXCEPT !.overtaken = o]) IN
            /\ Commits(d, e, t) /\ e.life = m.life /\ e.overtaken = o
<1>1. m \in OddsRows /\ m.writes = d.writes /\ m.overtaken = d.overtaken
  BY DEF Writes
<1>2. ASSUME NEW x \in OddsRows
      PROVE  LET e == Written(x) IN
             /\ e \in OddsRows /\ e.writes = x.writes + 1 /\ e.overtaken = x.overtaken
             /\ e.quotes = x.quotes /\ e.aliases = x.aliases /\ e.matches = x.matches
             /\ e.life = x.life /\ e.reviews = x.reviews
  <2> DEFINE w == x.writes + 1
  <2>1. w \in Nat
    BY DEF OddsRows
  <2> HIDE DEF w
  <2>2. LET e == [x EXCEPT !.writes = w] IN
        /\ e \in OddsRows /\ e.writes = w /\ e.overtaken = x.overtaken
        /\ e.quotes = x.quotes /\ e.aliases = x.aliases /\ e.matches = x.matches
        /\ e.life = x.life /\ e.reviews = x.reviews
    BY <2>1 DEF OddsRows
  <2> QED
    BY <2>2 DEF Written, w
<1>3. LET e == [m EXCEPT !.overtaken = o] IN
      /\ e \in OddsRows /\ e.writes = m.writes /\ e.overtaken = o
      /\ e.quotes = m.quotes /\ e.aliases = m.aliases /\ e.matches = m.matches
      /\ e.life = m.life /\ e.reviews = m.reviews
  BY <1>1 DEF OddsRows
<1>4. ASSUME NEW x \in OddsRows, x.writes = m.writes, x.quotes = m.quotes,
             x.aliases = m.aliases, x.matches = m.matches, x.life = m.life,
             x.reviews = m.reviews
      PROVE  LET e == Written(x) IN
             Commits(d, e, t) /\ e.life = m.life /\ e.overtaken = x.overtaken
  BY <1>1, <1>2, <1>4 DEF Writes, Commits, LaterRows
<1>5. LET e == Written(m) IN
      Commits(d, e, t) /\ e.life = m.life /\ e.overtaken = d.overtaken
  BY <1>1, <1>4
<1>6. LET e == Written([m EXCEPT !.overtaken = o]) IN
      Commits(d, e, t) /\ e.life = m.life /\ e.overtaken = o
  BY <1>1, <1>3, <1>4
<1> QED
  BY <1>5, <1>6

LEMMA StatusWrites ==
  ASSUME NEW d \in OddsRows, NEW b \in MatchBouts, NEW t \in Nat,
         NEW status \in {"scheduled", "cancelled", "replaced"}
  PROVE  LET e == [d EXCEPT !.status[b] = status] IN
         Writes(d, e, t) /\ e.life = d.life
<1> DEFINE e == [d EXCEPT !.status[b] = status]
<1>1. /\ e \in OddsRows /\ e.writes = d.writes /\ e.overtaken = d.overtaken
      /\ e.quotes = d.quotes /\ e.aliases = d.aliases /\ e.matches = d.matches
      /\ e.life = d.life /\ e.reviews = d.reviews
  BY DEF OddsRows
<1> HIDE DEF e
<1>2. Writes(d, e, t)
  BY <1>1, WritesNothing DEF Writes, LaterRows
<1> QED
  BY <1>1, <1>2 DEF e
-----------------------------------------------------------------------------
(* A row leaves a bout closed unless it is a later row of that bout that   *)
(* opens it.                                                               *)
LEMMA StaysClosed ==
  ASSUME NEW d \in OddsRows, NEW e \in OddsRows, NEW row \in LifeRow,
         e.life = Append(d.life, row), NEW now \in Nat, row.at <= now, NEW b,
         IsTerminal(d, b, now),
         row.bout = b /\ row.state \notin Terminal => ~IsTerminal(d, b, row.at)
  PROVE  IsTerminal(e, b, now)
<1> DEFINE s == d.life  r == e.life  n == Len(s)
           ids == { i \in 1..n : s[i].bout = b /\ s[i].at <= now }
           jds == { i \in 1..Len(r) : r[i].bout = b /\ r[i].at <= now }
           old == { i \in 1..n : s[i].bout = b /\ s[i].at <= row.at }
<1>1. /\ n \in Nat /\ Len(r) = n + 1 /\ r[n + 1] = row /\ \A i \in 1..n : r[i] = s[i]
      /\ DOMAIN s = 1..n /\ DOMAIN r = 1..Len(r)
      /\ \A i \in 1..n : s[i].at \in Nat
      /\ row.at \in Nat
  <2>1. s \in Seq(LifeRow) /\ r \in Seq(LifeRow)
    BY DEF OddsRows
  <2>2. \A x \in LifeRow : x.at \in Nat
    BY DEF LifeRow
  <2> QED
    BY <2>1, <2>2
<1>2. /\ LatestLife(d, b, now) = LatestOf(s, ids) /\ LatestLife(e, b, now) = LatestOf(r, jds)
      /\ LatestLife(d, b, row.at) = LatestOf(s, old)
  BY <1>1 DEF LatestLife
<1>3. LatestOf(s, ids) # None /\ LatestOf(s, ids).state \in Terminal
  BY <1>2 DEF IsTerminal
<1>4. ids # {}
  BY <1>3 DEF LatestOf
<1>0. s \in Seq(LifeRow) /\ r \in Seq(LifeRow)
  BY DEF OddsRows
<1> HIDE DEF s, r, n
<1>5. ids \in SUBSET (1..n) /\ \A i \in ids : s[i].at \in Nat /\ s[i].at <= now
  BY <1>1
<1>6. PICK k \in ids : Latest(s, ids, k) /\ LatestOf(s, ids) = s[k]
  BY <1>0, <1>1, <1>4, <1>5, LatestOne
<1>7. /\ jds \in SUBSET (1..(n + 1)) /\ ids \subseteq jds
      /\ \A i \in jds : i \in ids \/ (i = n + 1 /\ r[i] = row /\ row.bout = b)
      /\ \A i \in jds : r[i].at \in Nat /\ r[i].at <= now
      /\ \A i \in ids : r[i] = s[i] /\ i \in 1..n
  <2>1. \A i \in ids : r[i] = s[i] /\ i \in 1..n
    BY <1>1
  <2>2. jds \in SUBSET (1..(n + 1)) /\ \A i \in jds : r[i].at \in Nat /\ r[i].at <= now
    <3>1. \A i \in 1..(n + 1) : i \in 1..n \/ i = n + 1
      BY <1>1
    <3>2. \A i \in 1..(n + 1) : r[i].at \in Nat
      BY <1>1, <3>1
    <3>3. jds \in SUBSET (1..(n + 1)) /\ \A i \in jds : r[i].at <= now
      BY <1>1
    <3> QED
      BY <3>2, <3>3
  <2>3. ids \subseteq jds
    BY <1>1, <2>1
  <2>4. \A i \in jds : i \in ids \/ (i = n + 1 /\ r[i] = row /\ row.bout = b)
    BY <1>1
  <2> QED
    BY <2>1, <2>2, <2>3, <2>4
<1>8. s[k] \in LifeRow /\ s[k].state \in Terminal
  <2>1. s \in Seq(LifeRow)
    BY DEF OddsRows, s
  <2> QED
    BY <1>3, <1>5, <1>6, <2>1 DEF n
<1>9. None \notin LifeRow
  BY MatchingAssumption
<1>10. SUFFICES LatestOf(r, jds) \in LifeRow /\ LatestOf(r, jds).state \in Terminal
  BY <1>2, <1>9 DEF IsTerminal
<1>11. CASE n + 1 \notin jds \/ row.state \in Terminal
  <2> HIDE DEF ids, jds
  <2>1. PICK i \in jds : Latest(r, jds, i) /\ LatestOf(r, jds) = r[i]
    <3>1. n + 1 \in Nat /\ jds # {}
      BY <1>1, <1>4, <1>7
    <3> QED
      BY <1>0, <1>7, <3>1, LatestOne
  <2>2. CASE i = n + 1
    BY <1>11, <2>1, <2>2, <1>1
  <2>3. CASE i \in ids
    <3>1. Latest(s, ids, i)
      BY <1>7, <2>1, <2>3 DEF Latest
    <3>2. LatestOf(s, ids) = s[i]
      BY <1>0, <1>1, <1>5, <2>3, <3>1, LatestIs
    <3> QED
      BY <1>6, <1>7, <1>8, <2>1, <2>3, <3>2
  <2> QED
    BY <1>7, <2>1, <2>2, <2>3
<1>12. CASE n + 1 \in jds /\ row.state \notin Terminal
  <2>1. row.bout = b /\ ~IsTerminal(d, b, row.at)
    BY <1>1, <1>7, <1>12
  <2>2. s[k].at > row.at
    <3>1. SUFFICES ASSUME s[k].at <= row.at PROVE FALSE
      BY <1>1, <1>5, <1>6
    <3>2. \A i \in ids : s[i].at <= row.at
      BY <1>1, <1>5, <1>6, <3>1 DEF Latest
    <3>3. old = ids
      BY <1>1, <3>2
    <3>4. LatestLife(d, b, row.at) = s[k]
      BY <1>2, <1>6, <3>3
    <3> QED
      BY <1>8, <1>9, <2>1, <3>4 DEF IsTerminal
  <2> HIDE DEF ids, jds
  <2>3. Latest(r, jds, k)
    <3>1. ASSUME NEW j \in jds
          PROVE  r[j].at < r[k].at \/ (r[j].at = r[k].at /\ j <= k)
      <4>1. CASE j \in ids
        BY <1>6, <1>7, <4>1 DEF Latest
      <4>2. CASE r[j] = row
        BY <1>6, <1>7, <2>2, <4>2
      <4> QED
        BY <1>7, <4>1, <4>2
    <3> QED
      BY <3>1 DEF Latest
  <2>4. LatestOf(r, jds) = r[k]
    <3>1. n + 1 \in Nat /\ k \in jds
      BY <1>1, <1>6, <1>7
    <3> QED
      BY <1>0, <1>7, <2>3, <3>1, LatestIs
  <2> QED
    BY <1>6, <1>7, <1>8, <2>4
<1> QED
  BY <1>11, <1>12

LEMMA LifeNow ==
  ASSUME NEW d \in OddsRows, NEW now \in Nat, LifeBy(d.life, now), NEW b
  PROVE  LatestLife(d, b, now + 1) = LatestLife(d, b, now)
<1>1. DOMAIN d.life = 1..Len(d.life) /\ \A i \in 1..Len(d.life) : d.life[i].at \in Nat
  BY RowTimes
<1>2. { i \in DOMAIN d.life : d.life[i].bout = b /\ d.life[i].at <= now + 1 } =
      { i \in DOMAIN d.life : d.life[i].bout = b /\ d.life[i].at <= now }
  BY <1>1 DEF LifeBy
<1> QED
  BY <1>2 DEF LatestLife

LEMMA ClosedByLife ==
  ASSUME NEW d, NEW e, e.life = d.life, NEW b, NEW t
  PROVE  /\ IsTerminal(e, b, t) <=> IsTerminal(d, b, t)
         /\ LatestLife(e, b, t) = LatestLife(d, b, t)
  BY DEF IsTerminal, LatestLife

(* What is closed stays closed.                                            *)
Keeps(d, e, now) ==
  \A b \in MatchBouts : IsTerminal(d, b, now) => IsTerminal(e, b, now)

LEMMA ApplyKeeps ==
  ASSUME NEW d \in OddsRows, NEW b \in MatchBouts \cup {None}, NEW state \in States,
         NEW why \in Reasons, NEW t \in Nat
  PROVE  LET e == Apply(d, b, state, why, t) IN
         /\ Writes(d, e, t) /\ SameButLife(d, e)
         /\ state \in Terminal => Keeps(d, e, t)
         /\ state = "active" =>
              \A c \in MatchBouts : IsTerminal(d, c, t) /\ ~IsTerminal(e, c, t) =>
                c = b /\ LatestLife(d, c, t).state # "replaced"
<1> DEFINE e == Apply(d, b, state, why, t)  row == Life(b, state, why, t)
<1>1. /\ e \in OddsRows /\ SameButLife(d, e)
      /\ row \in LifeRow /\ row.bout = b /\ row.state = state /\ row.at = t
      /\ \/ e.life = d.life
         \/ /\ e.life = Append(d.life, row)
            /\ state = "active" /\ LatestLife(d, b, t) # None =>
                 LatestLife(d, b, t).state # "replaced"
  BY ApplyStep
<1> HIDE DEF e, row
<1>2. Writes(d, e, t)
  BY <1>1, LifeWrites
<1>3. ASSUME NEW c \in MatchBouts, IsTerminal(d, c, t), ~IsTerminal(e, c, t)
      PROVE  /\ c = b /\ state \notin Terminal
             /\ state = "active" => LatestLife(d, c, t).state # "replaced"
  <2>1. e.life # d.life
    BY <1>3, ClosedByLife
  <2>2. e.life = Append(d.life, row)
    BY <1>1, <2>1
  <2>3. c = b /\ state \notin Terminal
    <3>1. SUFFICES ASSUME ~(row.bout = c /\ row.state \notin Terminal) PROVE FALSE
      BY <1>1
    <3>2. t <= t
      OBVIOUS
    <3>3. IsTerminal(e, c, t)
      BY <1>1, <1>3, <2>2, <3>1, <3>2, StaysClosed
    <3> QED
      BY <1>3, <3>3
  <2> QED
    BY <1>1, <1>3, <2>1, <2>3 DEF IsTerminal
<1> QED
  BY <1>1, <1>2, <1>3 DEF Keeps, e

LEMMA PersistKeeps ==
  ASSUME NEW d \in OddsRows, NEW dec \in Decisions, NEW t \in Nat, NEW now \in Nat, t <= now,
         dec.status = "matched" /\ dec.life \notin Terminal => ~IsTerminal(d, dec.bout, t)
  PROVE  LET e == Persist(d, dec, t) IN Writes(d, e, t) /\ Keeps(d, e, now)
<1> DEFINE e == Persist(d, dec, t)
<1>1. Writes(d, e, t) /\ Adds(d, e, dec, t)
  BY PersistWrites
<1> HIDE DEF e
<1>2. e \in OddsRows
  BY <1>1 DEF Writes
<1>3. ASSUME NEW b \in MatchBouts, IsTerminal(d, b, now) PROVE IsTerminal(e, b, now)
  <2>1. CASE e.life = d.life
    BY <1>3, <2>1, ClosedByLife
  <2>2. CASE \E row \in LifeRow :
               /\ e.life = Append(d.life, row) /\ row.at = t
               /\ \/ row.state = "review_blocked"
                  \/ dec.status = "matched" /\ row.bout = dec.bout /\ dec.life \notin Terminal
    <3>1. PICK row \in LifeRow :
               /\ e.life = Append(d.life, row) /\ row.at = t
               /\ \/ row.state = "review_blocked"
                  \/ dec.status = "matched" /\ row.bout = dec.bout /\ dec.life \notin Terminal
      BY <2>2
    <3>2. row.bout = b /\ row.state \notin Terminal => ~IsTerminal(d, b, row.at)
      BY <3>1 DEF Terminal
    <3> QED
      BY <1>2, <1>3, <3>1, <3>2, StaysClosed
  <2> QED
    BY <1>1, <2>1, <2>2 DEF Adds
<1> QED
  BY <1>1, <1>3 DEF Keeps, e

(* reconcile_provider_events, its writes.                                  *)
LEMMA DecisionWrites ==
  ASSUME NEW d \in OddsRows, NEW dec \in Decisions, NEW t \in Nat, NEW now \in Nat, t <= now,
         dec.status = "matched" /\ dec.life \notin Terminal => ~IsTerminal(d, dec.bout, t)
  PROVE  LET e == Persist(Enqueued(d, dec), dec, t) IN Writes(d, e, t) /\ Keeps(d, e, now)
<1> DEFINE m == Enqueued(d, dec)  e == Persist(m, dec, t)
<1>1. m \in OddsRows /\ SameButReviews(d, m) /\ Grown(d.reviews, m.reviews)
  BY EnqueuedStep
<1> HIDE DEF m
<1>2. Writes(d, m, t)
  BY <1>1, ReviewsWrite
<1>3. \A b, u : IsTerminal(m, b, u) <=> IsTerminal(d, b, u)
  BY <1>1, ClosedByLife DEF SameButReviews
<1>4. Writes(m, e, t) /\ Keeps(m, e, now)
  BY <1>1, <1>3, PersistKeeps
<1> HIDE DEF e
<1>5. Writes(d, e, t)
  BY <1>1, <1>2, <1>4, WritesAreTransitive
<1> QED
  BY <1>3, <1>4, <1>5 DEF Keeps, e, m

(* apply_replacement.                                                      *)
LEMMA ReplacementWrites ==
  ASSUME NEW d \in OddsRows, stamp \in Nat, NEW old \in MatchBouts, NEW new \in MatchBouts,
         NEW fit \in SUBSET MatchBouts, NEW named \in BOOLEAN
  PROVE  LET gone == Apply(Superseded([d EXCEPT !.status[old] = "replaced"],
                                      Current(d), stamp),
                           old, "replaced", "replaced", stamp)
             dec == ReplacementDecision(gone, new, fit, named)
             e == Persist(Enqueued(gone, dec), dec, stamp)
         IN Writes(d, e, stamp) /\ Keeps(d, e, stamp)
<1> DEFINE a == [d EXCEPT !.status[old] = "replaced"]
           s == Superseded(a, Current(d), stamp)
           gone == Apply(s, old, "replaced", "replaced", stamp)
           dec == ReplacementDecision(gone, new, fit, named)
           e == Persist(Enqueued(gone, dec), dec, stamp)
<1>1. Writes(d, a, stamp) /\ a.life = d.life
  BY StatusWrites
<1>2. a \in OddsRows /\ Current(a) = Current(d)
  <2>1. a.aliases = d.aliases
    BY DEF OddsRows
  <2> QED
    BY <1>1, <2>1 DEF Writes, Current
<1> HIDE DEF a
<1>3. Writes(a, s, stamp) /\ SameButAliases(a, s)
  BY <1>2, SupersededWrites
<1> HIDE DEF s
<1>4. s \in OddsRows /\ s.life = d.life
  BY <1>1, <1>3 DEF Writes, SameButAliases
<1>5. Writes(s, gone, stamp) /\ Keeps(s, gone, stamp)
  <2>1. PICK state \in States, why \in Reasons : state = "replaced" /\ why = "replaced"
    BY DEF States, Reasons
  <2>2. LET f == Apply(s, old, state, why, stamp) IN
        Writes(s, f, stamp) /\ (state \in Terminal => Keeps(s, f, stamp))
    BY <1>4, ApplyKeeps
  <2> QED
    BY <2>1, <2>2 DEF Terminal
<1> HIDE DEF gone
<1>6. gone \in OddsRows
  BY <1>5 DEF Writes
<1>7. /\ dec \in Decisions
      /\ dec.status = "matched" /\ dec.life \notin Terminal => ~IsTerminal(gone, dec.bout, stamp)
  <2> DEFINE found == MatchEvent(gone, fit, named, stamp)
  <2>1. /\ found \in Decisions
        /\ found.status = "matched" /\ found.life \notin Terminal =>
             ~IsTerminal(gone, found.bout, stamp)
    BY <1>6, MatchEventType
  <2>2. found.status = "matched" => found.bout \in MatchBouts
    BY <2>1 DEF Decisions
  <2>3. \/ dec = found
        \/ found.status = "matched" /\ dec = Blocked(Content({found.bout, new}, "unexpected", fit))
        \/ dec = Blocked(Content({new}, "unmatched", fit))
    BY DEF ReplacementDecision
  <2> HIDE DEF found, dec
  <2>4. CASE dec = found
    BY <2>1, <2>4
  <2>5. CASE found.status = "matched" /\ dec = Blocked(Content({found.bout, new}, "unexpected", fit))
    <3>1. Content({found.bout, new}, "unexpected", fit) \in Evidence
      BY <2>2, <2>5, ContentType
    <3> QED
      BY <2>5, <3>1, DecideType
  <2>6. CASE dec = Blocked(Content({new}, "unmatched", fit))
    <3>1. Content({new}, "unmatched", fit) \in Evidence
      BY ContentType
    <3> QED
      BY <2>6, <3>1, DecideType
  <2> QED
    BY <2>3, <2>4, <2>5, <2>6
<1> HIDE DEF dec
<1>8. Writes(gone, e, stamp) /\ Keeps(gone, e, stamp)
  <2>1. stamp <= stamp
    OBVIOUS
  <2> QED
    BY <1>6, <1>7, <2>1, DecisionWrites
<1> HIDE DEF e
<1>9. Writes(d, e, stamp)
  <2>1. Writes(d, s, stamp)
    BY <1>1, <1>2, <1>3, WritesAreTransitive
  <2>2. Writes(d, gone, stamp)
    BY <1>4, <1>5, <2>1, WritesAreTransitive
  <2> QED
    BY <1>6, <1>8, <2>2, WritesAreTransitive
<1>10. \A b : IsTerminal(d, b, stamp) <=> IsTerminal(s, b, stamp)
  BY <1>4, ClosedByLife
<1>11. Keeps(d, e, stamp)
  BY <1>5, <1>8, <1>10 DEF Keeps
<1> QED
  BY <1>9, <1>11 DEF e, dec, gone, s, a

(* approve_bout_match_review.                                              *)
LEMMA ApprovalWrites ==
  ASSUME NEW d \in OddsRows, NEW b \in MatchBouts, NEW i \in 1..Len(d.reviews), NEW t \in Nat
  PROVE  LET a == ActivateAlias(d, b, "manual_review", t)
             l == Apply(a, b, "active", "approved", t)
             own == CHOOSE k \in Current(a) :
                      a.aliases[k].bout = b /\ a.aliases[k].rule = "manual_review"
             e == Moved(Observe(l, "matched", b, "manual_review", t), i, "approved", b, own)
         IN /\ Writes(d, e, t)
            /\ \A c \in MatchBouts : IsTerminal(d, c, t) /\ ~IsTerminal(e, c, t) =>
                 c = b /\ LatestLife(d, c, t).state # "replaced"
<1> DEFINE a == ActivateAlias(d, b, "manual_review", t)
           l == Apply(a, b, "active", "approved", t)
           own == CHOOSE k \in Current(a) :
                    a.aliases[k].bout = b /\ a.aliases[k].rule = "manual_review"
           f == Observe(l, "matched", b, "manual_review", t)
           e == Moved(f, i, "approved", b, own)
<1>1. /\ Writes(d, a, t) /\ SameButAliases(d, a)
      /\ \E k \in Current(a) : a.aliases[k].bout = b /\ a.aliases[k].rule = "manual_review"
  <2>1. PICK rule \in Rule : rule = "manual_review"
    BY DEF Rule
  <2>2. LET m == ActivateAlias(d, b, rule, t) IN
        /\ Writes(d, m, t) /\ SameButAliases(d, m)
        /\ \E k \in Current(m) : m.aliases[k].bout = b /\ m.aliases[k].rule = rule
    BY ActivateWrites
  <2> QED
    BY <2>1, <2>2
<1> HIDE DEF a
<1>2. a \in OddsRows /\ a.life = d.life /\ a.reviews = d.reviews
  BY <1>1 DEF Writes, SameButAliases
<1>3. own \in Nat
  <2>1. own \in Current(a)
    BY <1>1
  <2>2. a.aliases \in Seq(AliasRow)
    BY <1>2 DEF OddsRows
  <2> QED
    BY <2>1, <2>2 DEF Current
<1> HIDE DEF own
<1>4. /\ Writes(a, l, t) /\ SameButLife(a, l)
      /\ \A c \in MatchBouts : IsTerminal(a, c, t) /\ ~IsTerminal(l, c, t) =>
           c = b /\ LatestLife(a, c, t).state # "replaced"
  <2>1. PICK state \in States, why \in Reasons : state = "active" /\ why = "approved"
    BY DEF States, Reasons
  <2>2. LET m == Apply(a, b, state, why, t) IN
        /\ Writes(a, m, t) /\ SameButLife(a, m)
        /\ state = "active" =>
             \A c \in MatchBouts : IsTerminal(a, c, t) /\ ~IsTerminal(m, c, t) =>
               c = b /\ LatestLife(a, c, t).state # "replaced"
    BY <1>2, ApplyKeeps
  <2> QED
    BY <2>1, <2>2
<1> HIDE DEF l
<1>5. l \in OddsRows /\ l.reviews = d.reviews
  BY <1>2, <1>4 DEF Writes, SameButLife
<1>6. Writes(l, f, t) /\ SameButMatches(l, f)
  <2>1. PICK rule \in Rule, status \in {"matched", "ambiguous", "unmatched"} :
          rule = "manual_review" /\ status = "matched"
    BY DEF Rule
  <2>2. LET m == Observe(l, status, b, rule, t) IN Writes(l, m, t) /\ SameButMatches(l, m)
    BY <1>5, ObserveWrites
  <2> QED
    BY <2>1, <2>2
<1> HIDE DEF f
<1>7. f \in OddsRows /\ f.life = l.life /\ f.reviews = d.reviews
  BY <1>5, <1>6 DEF Writes, SameButMatches
<1>8. e \in OddsRows /\ SameButReviews(f, e) /\ Grown(f.reviews, e.reviews)
  <2>1. PICK status \in {"pending", "approved", "rejected", "reversed"} : status = "approved"
    OBVIOUS
  <2>2. LET m == Moved(f, i, status, b, own) IN
        m \in OddsRows /\ SameButReviews(f, m) /\ Grown(f.reviews, m.reviews)
    BY <1>3, <1>7, MovedStep
  <2> QED
    BY <2>1, <2>2
<1> HIDE DEF e
<1>9. Writes(f, e, t) /\ e.life = l.life
  BY <1>7, <1>8, ReviewsWrite DEF SameButReviews
<1>10. Writes(d, e, t)
  <2>1. Writes(d, l, t)
    BY <1>1, <1>2, <1>4, WritesAreTransitive
  <2>2. Writes(d, f, t)
    BY <1>5, <1>6, <2>1, WritesAreTransitive
  <2> QED
    BY <1>7, <1>9, <2>2, WritesAreTransitive
<1>11. \A c \in MatchBouts : IsTerminal(d, c, t) /\ ~IsTerminal(e, c, t) =>
         c = b /\ LatestLife(d, c, t).state # "replaced"
  <2>1. ASSUME NEW c \in MatchBouts, IsTerminal(d, c, t), ~IsTerminal(e, c, t)
        PROVE  c = b /\ LatestLife(d, c, t).state # "replaced"
    <3>1. IsTerminal(a, c, t) /\ ~IsTerminal(l, c, t) /\ LatestLife(a, c, t) = LatestLife(d, c, t)
      BY <1>2, <1>9, <2>1, ClosedByLife
    <3> QED
      BY <1>4, <3>1
  <2> QED
    BY <2>1
<1> QED
  BY <1>10, <1>11 DEF e, f, own, l, a

(* reverse_bout_match_review.                                              *)
LEMMA WithdrawalWrites ==
  ASSUME NEW d \in OddsRows, NEW r \in ReviewRow, NEW t \in Nat
  PROVE  LET e == Withdraw(d, r, t) IN
         Writes(d, e, t) /\ Keeps(d, e, t) /\ e.reviews = d.reviews
<1> DEFINE s == Superseded(d, {r.alias}, t)
           l == Apply(s, r.decision, "review_blocked", "reversed", t)
           e == Observe(l, "ambiguous", None, None, t)
<1>1. CASE r.alias \notin Current(d)
  <2>1. Withdraw(d, r, t) = d
    BY <1>1 DEF Withdraw
  <2>2. Writes(d, d, t)
    BY WritesNothing
  <2> QED
    BY <2>1, <2>2 DEF Keeps
<1>2. CASE r.alias \in Current(d)
  <2>1. Withdraw(d, r, t) = e
    BY <1>2 DEF Withdraw
  <2>2. Writes(d, s, t) /\ SameButAliases(d, s)
    <3>1. PICK ids \in SUBSET Current(d) : ids = {r.alias}
      BY <1>2
    <3>2. LET m == Superseded(d, ids, t) IN Writes(d, m, t) /\ SameButAliases(d, m)
      BY SupersededWrites
    <3> QED
      BY <3>1, <3>2
  <2> HIDE DEF s
  <2>3. s \in OddsRows /\ s.life = d.life /\ s.reviews = d.reviews
    BY <2>2 DEF Writes, SameButAliases
  <2>4. Writes(s, l, t) /\ SameButLife(s, l) /\ Keeps(s, l, t)
    <3>1. PICK state \in States, why \in Reasons : state = "review_blocked" /\ why = "reversed"
      BY DEF States, Reasons
    <3>2. r.decision \in MatchBouts \cup {None}
      BY DEF ReviewRow
    <3>3. LET m == Apply(s, r.decision, state, why, t) IN
          /\ Writes(s, m, t) /\ SameButLife(s, m)
          /\ state \in Terminal => Keeps(s, m, t)
      BY <2>3, <3>2, ApplyKeeps
    <3> QED
      BY <3>1, <3>3 DEF Terminal
  <2> HIDE DEF l
  <2>5. l \in OddsRows /\ l.reviews = d.reviews
    BY <2>3, <2>4 DEF Writes, SameButLife
  <2>6. Writes(l, e, t) /\ SameButMatches(l, e)
    <3>1. PICK status \in {"matched", "ambiguous", "unmatched"}, b \in MatchBouts \cup {None},
               rule \in Rule \cup {None} : status = "ambiguous" /\ b = None /\ rule = None
      OBVIOUS
    <3>2. LET m == Observe(l, status, b, rule, t) IN Writes(l, m, t) /\ SameButMatches(l, m)
      BY <2>5, ObserveWrites
    <3> QED
      BY <3>1, <3>2
  <2> HIDE DEF e
  <2>7. Writes(d, e, t)
    <3>1. Writes(d, l, t)
      BY <2>2, <2>3, <2>4, WritesAreTransitive
    <3> QED
      BY <2>5, <2>6, <3>1, WritesAreTransitive
  <2>8. ASSUME NEW c \in MatchBouts, IsTerminal(d, c, t) PROVE IsTerminal(e, c, t)
    <3>1. IsTerminal(s, c, t)
      BY <2>3, <2>8, ClosedByLife
    <3>2. IsTerminal(l, c, t)
      BY <2>4, <3>1 DEF Keeps
    <3>3. e.life = l.life
      BY <2>6 DEF SameButMatches
    <3> QED
      BY <3>2, <3>3, ClosedByLife
  <2>9. Keeps(d, e, t) /\ e.reviews = d.reviews
    BY <2>5, <2>6, <2>8 DEF Keeps, SameButMatches
  <2> QED
    BY <2>1, <2>7, <2>9
<1> QED
  BY <1>1, <1>2
-----------------------------------------------------------------------------
(* An open reconcile began before now.  If nothing was committed since, no *)
(* alias is newer than it; and if it matched a bout that it may open, the  *)
(* bout was open when it began.                                            *)
RematchInv ==
  rematch # None =>
    /\ rematch.at < stamp /\ rematch.after <= odds.writes
    /\ rematch.after = odds.writes => AliasBy(odds.aliases, rematch.at)
    /\ rematch.dec.status = "matched" /\ rematch.dec.life \notin Terminal =>
         ~IsTerminal(odds, rematch.dec.bout, rematch.at)

(* What an operator has in hand is a version that the review had, and with *)
(* the review's own version it is the review's own content.                *)
SeenInv ==
  \A o \in Operators : operator[o] # None =>
    LET review == odds.reviews[operator[o].review] IN
    /\ operator[o].review \in 1..Len(odds.reviews)
    /\ operator[o].version <= review.version
    /\ operator[o].version = review.version => operator[o].content = review.content
    /\ operator[o].bout # None => operator[o].bout \in operator[o].content.candidates

(* The inductive invariant.                                                *)
MatchingInv ==
  /\ MatchingTypeOK
  /\ LifeBy(odds.life, stamp) /\ AliasBy(odds.aliases, stamp)
  /\ RematchInv /\ SeenInv
  /\ ~odds.overtaken => Chained(odds.aliases)

LEMMA MatchingInitially ==
  ASSUME MatchingInit
  PROVE  MatchingInv
<1>1. stamp = 0 /\ rematch = None /\ operator = [o \in Operators |-> None]
  BY DEF MatchingInit
<1>2. /\ odds \in OddsRows /\ odds.life = <<>> /\ odds.aliases = <<>>
  BY DEF MatchingInit, OddsRows
<1>3. MatchingTypeOK
  BY <1>1, <1>2 DEF MatchingTypeOK
<1>4. LifeBy(odds.life, stamp) /\ AliasBy(odds.aliases, stamp) /\ Chained(odds.aliases)
  BY <1>2 DEF LifeBy, AliasBy, Chained
<1> QED
  BY <1>1, <1>3, <1>4 DEF MatchingInv, RematchInv, SeenInv

(* A write at the present time.                                            *)
LEMMA WritesNow ==
  ASSUME MatchingInv, Commits(odds, odds', stamp), stamp' = stamp, rematch' = rematch,
         odds'.overtaken = odds.overtaken
  PROVE  /\ odds' \in OddsRows /\ stamp' \in Nat /\ rematch' \in Attempt \cup {None}
         /\ LifeBy(odds'.life, stamp') /\ AliasBy(odds'.aliases, stamp')
         /\ RematchInv' /\ (~odds'.overtaken => Chained(odds'.aliases))
<1>1. /\ stamp \in Nat /\ odds \in OddsRows /\ odds' \in OddsRows
      /\ rematch \in Attempt \cup {None}
      /\ LifeBy(odds.life, stamp) /\ AliasBy(odds.aliases, stamp)
      /\ ~odds.overtaken => Chained(odds.aliases)
  BY DEF MatchingInv, MatchingTypeOK, Commits
<1>2. stamp <= stamp
  BY <1>1
<1>3. LifeBy(odds'.life, stamp)
  BY <1>1, <1>2 DEF Commits
<1>4. AliasBy(odds'.aliases, stamp) /\ (~odds.overtaken => Chained(odds'.aliases))
  BY <1>1, <1>2 DEF Commits, AliasesFollow
<1>5. ASSUME rematch # None
      PROVE  /\ rematch.at < stamp /\ rematch.after <= odds'.writes
             /\ rematch.after # odds'.writes
             /\ rematch.dec.status = "matched" /\ rematch.dec.life \notin Terminal =>
                  ~IsTerminal(odds', rematch.dec.bout, rematch.at)
  <2>1. /\ rematch.at < stamp /\ rematch.after <= odds.writes
        /\ rematch.dec.status = "matched" /\ rematch.dec.life \notin Terminal =>
             ~IsTerminal(odds, rematch.dec.bout, rematch.at)
    BY <1>5 DEF MatchingInv, RematchInv
  <2>2. rematch.at \in Nat /\ rematch.after \in Nat /\ odds.writes \in Nat
    BY <1>1, <1>5 DEF Attempt, OddsRows
  <2>3. odds'.writes = odds.writes + 1 /\ Appended(odds.life, odds'.life, stamp)
    BY DEF Commits, LaterRows
  <2>4. LatestLife(odds', rematch.dec.bout, rematch.at) = LatestLife(odds, rematch.dec.bout, rematch.at)
    BY <1>1, <2>1, <2>2, <2>3, LifeIsFixed
  <2> QED
    BY <2>1, <2>2, <2>3, <2>4 DEF IsTerminal
<1>6. RematchInv'
  BY <1>5 DEF RematchInv
<1> QED
  BY <1>1, <1>3, <1>4, <1>6

(* New and newer reviews leave what an operator has in hand.               *)
LEMMA SeenStays ==
  ASSUME MatchingInv, odds' \in OddsRows, Grown(odds.reviews, odds'.reviews),
         operator' \in [Operators -> InHand \cup {None}],
         \A o \in Operators : operator'[o] \in {operator[o], None}
  PROVE  SeenInv'
<1> DEFINE s == odds.reviews  r == odds'.reviews
<1>1. /\ s \in Seq(ReviewRow) /\ r \in Seq(ReviewRow)
      /\ operator \in [Operators -> InHand \cup {None}]
  BY DEF MatchingInv, MatchingTypeOK, OddsRows
<1>2. ASSUME NEW o \in Operators, operator'[o] # None
      PROVE  /\ operator'[o].review \in 1..Len(r)
             /\ operator'[o].version <= r[operator'[o].review].version
             /\ operator'[o].version = r[operator'[o].review].version =>
                  operator'[o].content = r[operator'[o].review].content
             /\ operator'[o].bout # None => operator'[o].bout \in operator'[o].content.candidates
  <2> DEFINE h == operator[o]
  <2>1. operator'[o] = h /\ h # None
    BY <1>2
  <2>2. /\ h.review \in 1..Len(s) /\ h.version <= s[h.review].version
        /\ h.version = s[h.review].version => h.content = s[h.review].content
        /\ h.bout # None => h.bout \in h.content.candidates
    BY <2>1 DEF MatchingInv, SeenInv
  <2>3. h \in InHand
    BY <1>1, <2>1
  <2>4. h.version \in Nat
    BY <2>3 DEF InHand
  <2> HIDE DEF s, r, h
  <2>5. h.review \in 1..Len(r) /\ (r[h.review] = s[h.review] \/ r[h.review].version > s[h.review].version)
    BY <1>1, <2>2 DEF Grown, s, r
  <2>6. s[h.review].version \in Nat /\ r[h.review].version \in Nat
    <3>1. \A x \in ReviewRow : x.version \in Nat
      BY DEF ReviewRow
    <3> QED
      BY <1>1, <2>2, <2>5, <3>1
  <2> QED
    BY <2>1, <2>2, <2>4, <2>5, <2>6
<1> QED
  BY <1>2 DEF SeenInv

(* What each step does: it keeps the invariant, its rows are not before an *)
(* open reconcile, and it opens a closed bout only as an approval.         *)
OnlyLater == \E h \in Nat : Horizon <= h /\ LaterRows(odds, odds', h)

OpensByApproval ==
  \A b \in MatchBouts :
    IsTerminal(odds, b, stamp) /\ ~IsTerminal(odds', b, stamp') =>
      /\ LatestLife(odds, b, stamp).state = "review_blocked"
      /\ \E o \in Operators : Approve(o) /\ operator[o].bout = b

Sound == MatchingInv' /\ OnlyLater /\ OpensByApproval

LEMMA HorizonIs ==
  ASSUME MatchingInv
  PROVE  Horizon \in Nat /\ Horizon <= stamp /\ (rematch # None => Horizon = rematch.at)
<1>1. stamp \in Nat /\ rematch \in Attempt \cup {None}
  BY DEF MatchingInv, MatchingTypeOK
<1>2. CASE rematch = None
  BY <1>1, <1>2 DEF Horizon
<1>3. CASE rematch # None
  <2>1. rematch.at \in Nat /\ rematch.at < stamp
    BY <1>1, <1>3 DEF Attempt, MatchingInv, RematchInv
  <2> QED
    BY <1>1, <1>3, <2>1 DEF Horizon
<1> QED
  BY <1>2, <1>3

(* The tables stand still.                                                 *)
LEMMA TablesStand ==
  ASSUME MatchingInv, odds' = odds, stamp' = stamp, rematch' \in {rematch, None},
         operator' \in [Operators -> InHand \cup {None}], SeenInv'
  PROVE  Sound
<1>1. odds \in OddsRows /\ stamp \in Nat
  BY DEF MatchingInv, MatchingTypeOK
<1>2. MatchingTypeOK'
  BY DEF MatchingInv, MatchingTypeOK
<1>4. RematchInv'
  BY DEF MatchingInv, RematchInv
<1>5. /\ LifeBy(odds'.life, stamp') /\ AliasBy(odds'.aliases, stamp')
      /\ ~odds'.overtaken => Chained(odds'.aliases)
  BY DEF MatchingInv
<1>6. OnlyLater
  <2>1. LaterRows(odds, odds, stamp)
    BY <1>1, WritesNothing DEF Writes
  <2> QED
    BY <1>1, <2>1, HorizonIs DEF OnlyLater
<1>7. OpensByApproval
  BY DEF OpensByApproval
<1> QED
  BY <1>2, <1>4, <1>5, <1>6, <1>7 DEF Sound, MatchingInv

LEMMA TimePassesStep ==
  ASSUME MatchingInv, TimePasses
  PROVE  Sound
<1>1. /\ odds \in OddsRows /\ stamp \in Nat /\ stamp' = stamp + 1
      /\ odds' = odds /\ rematch' = rematch /\ operator' = operator
  BY DEF MatchingInv, MatchingTypeOK, TimePasses
<1>2. /\ \A i \in 1..Len(odds.life) : odds.life[i].at \in Nat
      /\ \A i \in 1..Len(odds.aliases) :
           odds.aliases[i].at \in Nat /\ odds.aliases[i].gone \in Nat \cup {None}
  BY <1>1, RowTimes
<1>3. MatchingTypeOK'
  BY <1>1 DEF MatchingInv, MatchingTypeOK
<1>4. LifeBy(odds.life, stamp + 1) /\ AliasBy(odds.aliases, stamp + 1)
  BY <1>1, <1>2 DEF MatchingInv, LifeBy, AliasBy
<1>5. RematchInv'
  <2>1. rematch # None => rematch.at \in Nat
    BY DEF MatchingInv, MatchingTypeOK, Attempt
  <2> QED
    BY <1>1, <2>1 DEF MatchingInv, RematchInv
<1>6. SeenInv'
  BY <1>1 DEF MatchingInv, SeenInv
<1>7. OnlyLater
  <2>1. LaterRows(odds, odds, stamp)
    BY <1>1, WritesNothing DEF Writes
  <2> QED
    BY <1>1, <2>1, HorizonIs DEF OnlyLater
<1>8. OpensByApproval
  <2>1. \A b : LatestLife(odds, b, stamp + 1) = LatestLife(odds, b, stamp)
    BY <1>1, LifeNow DEF MatchingInv
  <2> QED
    BY <1>1, <2>1 DEF OpensByApproval, IsTerminal
<1>9. ~odds'.overtaken => Chained(odds'.aliases)
  BY <1>1 DEF MatchingInv
<1> QED
  BY <1>1, <1>3, <1>4, <1>5, <1>6, <1>7, <1>8, <1>9 DEF Sound, MatchingInv

LEMMA StoreQuotesStep ==
  ASSUME MatchingInv, StoreQuotes
  PROVE  Sound
<1>1. /\ odds \in OddsRows /\ stamp \in Nat /\ stamp' = stamp
      /\ rematch' = rematch /\ operator' = operator
      /\ odds' = [odds EXCEPT !.quotes = @ \cup {stamp}]
  BY DEF MatchingInv, MatchingTypeOK, StoreQuotes
<1>2. /\ odds' \in OddsRows /\ odds.quotes \subseteq odds'.quotes
      /\ odds'.aliases = odds.aliases /\ odds'.life = odds.life
      /\ odds'.matches = odds.matches /\ odds'.reviews = odds.reviews
      /\ odds'.writes = odds.writes /\ odds'.overtaken = odds.overtaken
  BY <1>1 DEF OddsRows
<1>3. MatchingTypeOK'
  BY <1>1, <1>2 DEF MatchingInv, MatchingTypeOK
<1>4. /\ LifeBy(odds'.life, stamp') /\ AliasBy(odds'.aliases, stamp')
      /\ ~odds'.overtaken => Chained(odds'.aliases)
  BY <1>1, <1>2 DEF MatchingInv
<1>5. \A b, t : /\ IsTerminal(odds', b, t) <=> IsTerminal(odds, b, t)
                /\ LatestLife(odds', b, t) = LatestLife(odds, b, t)
  BY <1>2, ClosedByLife
<1>6. RematchInv'
  BY <1>1, <1>2, <1>5 DEF MatchingInv, RematchInv
<1>7. SeenInv'
  BY <1>1, <1>2 DEF MatchingInv, SeenInv
<1>8. OnlyLater
  <2>1. LaterRows(odds, odds, stamp)
    BY <1>1, WritesNothing DEF Writes
  <2>2. LaterRows(odds, odds', stamp)
    BY <1>2, <2>1 DEF LaterRows
  <2> QED
    BY <1>1, <2>2, HorizonIs DEF OnlyLater
<1>9. OpensByApproval
  BY <1>1, <1>5 DEF OpensByApproval
<1> QED
  BY <1>3, <1>4, <1>6, <1>7, <1>8, <1>9 DEF Sound, MatchingInv

(* A commit at the present time by one that holds no version but its own.  *)
LEMMA CommitNow ==
  ASSUME MatchingInv, Commits(odds, odds', stamp), stamp' = stamp, rematch' = rematch,
         odds'.overtaken = odds.overtaken, OpensByApproval,
         operator' \in [Operators -> InHand \cup {None}],
         \A o \in Operators : operator'[o] \in {operator[o], None}
  PROVE  Sound
<1>1. /\ odds' \in OddsRows /\ stamp' \in Nat /\ rematch' \in Attempt \cup {None}
      /\ LifeBy(odds'.life, stamp') /\ AliasBy(odds'.aliases, stamp')
      /\ RematchInv' /\ (~odds'.overtaken => Chained(odds'.aliases))
  BY WritesNow
<1>2. SeenInv'
  BY <1>1, SeenStays DEF Commits
<1>3. OnlyLater
  BY HorizonIs DEF OnlyLater, Commits, MatchingInv, MatchingTypeOK
<1> QED
  BY <1>1, <1>2, <1>3 DEF Sound, MatchingInv, MatchingTypeOK

LEMMA CancelBoutStep ==
  ASSUME MatchingInv, NEW b \in MatchBouts, CancelBout(b)
  PROVE  Sound
<1> DEFINE m == [odds EXCEPT !.status[b] = "cancelled"]
<1>1. /\ odds \in OddsRows /\ stamp \in Nat /\ odds.overtaken \in BOOLEAN
      /\ odds' = Written(m) /\ stamp' = stamp /\ rematch' = rematch /\ operator' = operator
  BY DEF MatchingInv, MatchingTypeOK, OddsRows, CancelBout
<1>2. Writes(odds, m, stamp) /\ m.life = odds.life
  <2>1. PICK status \in {"scheduled", "cancelled", "replaced"} : status = "cancelled"
    OBVIOUS
  <2>2. LET e == [odds EXCEPT !.status[b] = status] IN
        Writes(odds, e, stamp) /\ e.life = odds.life
    BY <1>1, StatusWrites
  <2> QED
    BY <2>1, <2>2
<1> HIDE DEF m
<1>3. Commits(odds, odds', stamp) /\ odds'.life = odds.life /\ odds'.overtaken = odds.overtaken
  BY <1>1, <1>2, CommitStep
<1>4. OpensByApproval
  BY <1>1, <1>3, ClosedByLife DEF OpensByApproval
<1> QED
  BY <1>1, <1>3, <1>4, CommitNow DEF MatchingInv, MatchingTypeOK

LEMMA ReadEventStep ==
  ASSUME MatchingInv, ReadEvent
  PROVE  Sound
<1>1. /\ odds \in OddsRows /\ stamp \in Nat /\ stamp' = stamp + 1 /\ rematch = None
      /\ odds' = odds /\ operator' = operator
  BY DEF MatchingInv, MatchingTypeOK, ReadEvent
<1>2. PICK fit \in SUBSET MatchBouts, named \in BOOLEAN :
        rematch' = [at |-> stamp, after |-> odds.writes,
                    dec |-> MatchEvent(odds, fit, named, stamp)]
  BY DEF ReadEvent
<1> DEFINE dec == MatchEvent(odds, fit, named, stamp)
<1>3. /\ dec \in Decisions
      /\ dec.status = "matched" /\ dec.life \notin Terminal => ~IsTerminal(odds, dec.bout, stamp)
  BY <1>1, MatchEventType
<1> HIDE DEF dec
<1>4. /\ rematch' \in Attempt /\ rematch'.at = stamp /\ rematch'.after = odds.writes
      /\ rematch'.dec = dec
  BY <1>1, <1>2, <1>3 DEF Attempt, OddsRows, dec
<1>5. /\ \A i \in 1..Len(odds.life) : odds.life[i].at \in Nat
      /\ \A i \in 1..Len(odds.aliases) :
           odds.aliases[i].at \in Nat /\ odds.aliases[i].gone \in Nat \cup {None}
  BY <1>1, RowTimes
<1>6. MatchingTypeOK'
  BY <1>1, <1>4 DEF MatchingInv, MatchingTypeOK
<1>7. /\ AliasBy(odds.aliases, stamp)
      /\ LifeBy(odds.life, stamp + 1) /\ AliasBy(odds.aliases, stamp + 1)
  BY <1>1, <1>5 DEF MatchingInv, LifeBy, AliasBy
<1>8. RematchInv'
  <2>1. stamp < stamp + 1 /\ odds.writes <= odds.writes
    BY <1>1 DEF OddsRows
  <2> QED
    BY <1>1, <1>3, <1>4, <1>7, <2>1 DEF RematchInv
<1>9. SeenInv'
  BY <1>1 DEF MatchingInv, SeenInv
<1>10. OnlyLater
  <2>1. LaterRows(odds, odds, stamp)
    BY <1>1, WritesNothing DEF Writes
  <2> QED
    BY <1>1, <2>1, HorizonIs DEF OnlyLater
<1>11. OpensByApproval
  <2>1. \A b : LatestLife(odds, b, stamp + 1) = LatestLife(odds, b, stamp)
    BY <1>1, LifeNow DEF MatchingInv
  <2> QED
    BY <1>1, <2>1 DEF OpensByApproval, IsTerminal
<1>12. ~odds'.overtaken => Chained(odds'.aliases)
  BY <1>1 DEF MatchingInv
<1> QED
  BY <1>1, <1>6, <1>7, <1>8, <1>9, <1>10, <1>11, <1>12 DEF Sound, MatchingInv

(* The only write into the past: back to when the reconcile began.         *)
LEMMA WriteDecisionStep ==
  ASSUME MatchingInv, WriteDecision
  PROVE  Sound
<1> DEFINE t == rematch.at  dec == rematch.dec
           m == Persist(Enqueued(odds, dec), dec, t)
           o == m.overtaken \/ rematch.after # odds.writes
<1>1. /\ odds \in OddsRows /\ stamp \in Nat /\ stamp' = stamp /\ operator' = operator
      /\ rematch # None /\ rematch \in Attempt /\ rematch' = None
      /\ operator \in [Operators -> InHand \cup {None}]
      /\ odds' = Written([m EXCEPT !.overtaken = @ \/ rematch.after # odds.writes])
  BY DEF MatchingInv, MatchingTypeOK, WriteDecision
<1>2. /\ t \in Nat /\ dec \in Decisions /\ t < stamp /\ t <= stamp
      /\ dec.status = "matched" /\ dec.life \notin Terminal => ~IsTerminal(odds, dec.bout, t)
      /\ rematch.after = odds.writes => AliasBy(odds.aliases, t)
  BY <1>1 DEF Attempt, MatchingInv, RematchInv
<1>3. odds' = Written([m EXCEPT !.overtaken = o])
  BY <1>1
<1> HIDE DEF t, dec
<1>4. Writes(odds, m, t) /\ Keeps(odds, m, stamp)
  BY <1>1, <1>2, DecisionWrites
<1> HIDE DEF m
<1>5. m \in OddsRows /\ m.overtaken = odds.overtaken /\ o \in BOOLEAN
  BY <1>4 DEF Writes
<1> HIDE DEF o
<1>6. Commits(odds, odds', t) /\ odds'.life = m.life /\ odds'.overtaken = o
  BY <1>1, <1>2, <1>3, <1>4, <1>5, CommitStep
<1>7. odds' \in OddsRows /\ Grown(odds.reviews, odds'.reviews)
  BY <1>6 DEF Commits
<1>8. MatchingTypeOK' /\ RematchInv'
  BY <1>1, <1>7 DEF MatchingTypeOK, RematchInv
<1>9. LifeBy(odds'.life, stamp) /\ AliasBy(odds'.aliases, stamp)
  BY <1>1, <1>2, <1>6 DEF MatchingInv, Commits, AliasesFollow
<1>10. ~odds'.overtaken => Chained(odds'.aliases)
  <2>1. ASSUME ~odds'.overtaken PROVE Chained(odds'.aliases)
    <3>1. ~odds.overtaken /\ rematch.after = odds.writes
      BY <1>5, <1>6, <2>1 DEF o
    <3>2. AliasBy(odds.aliases, t) /\ Chained(odds.aliases)
      BY <1>2, <3>1 DEF MatchingInv
    <3> QED
      BY <1>6, <3>2 DEF Commits, AliasesFollow
  <2> QED
    BY <2>1
<1>11. SeenInv'
  BY <1>1, <1>7, SeenStays
<1>12. OnlyLater
  <2>1. Horizon = t
    BY <1>1, HorizonIs DEF t
  <2> QED
    BY <1>2, <1>6, <2>1 DEF OnlyLater, Commits
<1>13. OpensByApproval
  <2>1. ASSUME NEW b \in MatchBouts, IsTerminal(odds, b, stamp) PROVE IsTerminal(odds', b, stamp)
    <3>1. IsTerminal(m, b, stamp)
      BY <1>4, <2>1 DEF Keeps
    <3> QED
      BY <1>6, <3>1, ClosedByLife
  <2> QED
    BY <1>1, <2>1 DEF OpensByApproval
<1> QED
  BY <1>1, <1>8, <1>9, <1>10, <1>11, <1>12, <1>13 DEF Sound, MatchingInv

LEMMA ReplaceBoutStep ==
  ASSUME MatchingInv, NEW old \in MatchBouts, NEW new \in MatchBouts, ReplaceBout(old, new)
  PROVE  Sound
<1>1. /\ odds \in OddsRows /\ stamp \in Nat /\ stamp' = stamp /\ odds.overtaken \in BOOLEAN
      /\ rematch' = rematch /\ operator' = operator
  BY DEF MatchingInv, MatchingTypeOK, OddsRows, ReplaceBout
<1>2. PICK fit \in SUBSET MatchBouts, named \in BOOLEAN :
        LET gone == Apply(Superseded([odds EXCEPT !.status[old] = "replaced"],
                                     Current(odds), stamp),
                          old, "replaced", "replaced", stamp)
            dec == ReplacementDecision(gone, new, fit, named)
        IN odds' = Written(Persist(Enqueued(gone, dec), dec, stamp))
  BY DEF ReplaceBout
<1> DEFINE gone == Apply(Superseded([odds EXCEPT !.status[old] = "replaced"],
                                    Current(odds), stamp),
                         old, "replaced", "replaced", stamp)
           dec == ReplacementDecision(gone, new, fit, named)
           m == Persist(Enqueued(gone, dec), dec, stamp)
<1>3. odds' = Written(m)
  BY <1>2
<1>4. Writes(odds, m, stamp) /\ Keeps(odds, m, stamp)
  BY <1>1, ReplacementWrites
<1> HIDE DEF m
<1>5. Commits(odds, odds', stamp) /\ odds'.life = m.life /\ odds'.overtaken = odds.overtaken
  BY <1>1, <1>3, <1>4, CommitStep
<1>6. OpensByApproval
  <2>1. ASSUME NEW b \in MatchBouts, IsTerminal(odds, b, stamp) PROVE IsTerminal(odds', b, stamp)
    <3>1. IsTerminal(m, b, stamp)
      BY <1>4, <2>1 DEF Keeps
    <3> QED
      BY <1>5, <3>1, ClosedByLife
  <2> QED
    BY <1>1, <2>1 DEF OpensByApproval
<1> QED
  BY <1>1, <1>5, <1>6, CommitNow DEF MatchingInv, MatchingTypeOK

LEMMA DropDecisionStep ==
  ASSUME MatchingInv, DropDecision
  PROVE  Sound
<1>1. odds' = odds /\ stamp' = stamp /\ rematch' = None /\ operator' = operator
  BY DEF DropDecision
<1>2. SeenInv' /\ operator' \in [Operators -> InHand \cup {None}]
  BY <1>1 DEF MatchingInv, MatchingTypeOK, SeenInv
<1>3. RematchInv' /\ MatchingTypeOK'
  BY <1>1 DEF MatchingInv, MatchingTypeOK, RematchInv
<1>4. /\ LifeBy(odds'.life, stamp') /\ AliasBy(odds'.aliases, stamp')
      /\ ~odds'.overtaken => Chained(odds'.aliases)
  BY <1>1 DEF MatchingInv
<1>5. OnlyLater
  <2>1. LaterRows(odds, odds, stamp)
    BY WritesNothing DEF Writes, MatchingInv, MatchingTypeOK
  <2> QED
    BY <1>1, <2>1, HorizonIs DEF OnlyLater, MatchingInv, MatchingTypeOK
<1>6. OpensByApproval
  BY <1>1 DEF OpensByApproval
<1> QED
  BY <1>2, <1>3, <1>4, <1>5, <1>6 DEF Sound, MatchingInv

LEMMA LookStep ==
  ASSUME MatchingInv, NEW o \in Operators, Look(o)
  PROVE  Sound
<1>1. /\ odds \in OddsRows /\ odds' = odds /\ stamp' = stamp /\ rematch' = rematch
      /\ operator \in [Operators -> InHand \cup {None}]
  BY DEF MatchingInv, MatchingTypeOK, Look
<1>2. PICK i \in DOMAIN odds.reviews :
        operator' = [operator EXCEPT ![o] =
          [review |-> i, version |-> odds.reviews[i].version, bout |-> None,
           content |-> odds.reviews[i].content]]
  BY DEF Look
<1> DEFINE hand == [review |-> i, version |-> odds.reviews[i].version, bout |-> None,
                    content |-> odds.reviews[i].content]
<1>3. /\ odds.reviews[i] \in ReviewRow /\ i \in 1..Len(odds.reviews) /\ i \in Nat
  BY <1>1 DEF OddsRows
<1>4. /\ hand \in InHand /\ hand.review = i /\ hand.version = odds.reviews[i].version
      /\ hand.bout = None /\ hand.content = odds.reviews[i].content
      /\ odds.reviews[i].version \in Nat
  BY <1>3 DEF InHand, ReviewRow
<1> HIDE DEF hand
<1>5. /\ operator' \in [Operators -> InHand \cup {None}]
      /\ \A p \in Operators : operator'[p] = operator[p] \/ operator'[p] = hand
  BY <1>1, <1>2, <1>4 DEF hand
<1>6. SeenInv'
  <2>1. ASSUME NEW p \in Operators, operator'[p] # None
        PROVE  LET review == odds'.reviews[operator'[p].review] IN
               /\ operator'[p].review \in 1..Len(odds'.reviews)
               /\ operator'[p].version <= review.version
               /\ operator'[p].version = review.version => operator'[p].content = review.content
               /\ operator'[p].bout # None => operator'[p].bout \in operator'[p].content.candidates
    <3>1. CASE operator'[p] = operator[p]
      BY <1>1, <2>1, <3>1 DEF MatchingInv, SeenInv
    <3>2. CASE operator'[p] = hand
      BY <1>1, <1>3, <1>4, <3>2
    <3> QED
      BY <1>5, <3>1, <3>2
  <2> QED
    BY <2>1 DEF SeenInv
<1> QED
  BY <1>1, <1>5, <1>6, TablesStand

LEMMA ValidateStep ==
  ASSUME MatchingInv, NEW o \in Operators, Validate(o)
  PROVE  Sound
<1>1. /\ odds \in OddsRows /\ odds' = odds /\ stamp' = stamp /\ rematch' = rematch
      /\ operator \in [Operators -> InHand \cup {None}] /\ operator[o] # None
      /\ odds.reviews[operator[o].review].version = operator[o].version
  BY DEF MatchingInv, MatchingTypeOK, Validate, Holds
<1>2. PICK b \in odds.reviews[operator[o].review].content.candidates :
        operator' = [operator EXCEPT ![o].bout = b]
  BY DEF Validate
<1> DEFINE h == operator[o]  hand == [h EXCEPT !.bout = b]
<1>3. /\ h \in InHand /\ h.review \in 1..Len(odds.reviews)
      /\ h.content = odds.reviews[h.review].content
  BY <1>1 DEF MatchingInv, SeenInv
<1>4. b \in h.content.candidates /\ b \in MatchBouts
  <2>1. h.content \in Evidence
    BY <1>3 DEF InHand
  <2>2. h.content.candidates \in SUBSET MatchBouts
    BY <2>1 DEF Evidence
  <2> QED
    BY <1>2, <1>3, <2>2
<1>5. operator' = [operator EXCEPT ![o] = hand]
  BY <1>2, <1>3
<1> HIDE DEF h
<1>6. /\ hand \in InHand /\ hand.review = h.review /\ hand.version = h.version
      /\ hand.bout = b /\ hand.content = h.content
  BY <1>3, <1>4 DEF InHand
<1> HIDE DEF hand
<1>7. /\ operator' \in [Operators -> InHand \cup {None}]
      /\ \A p \in Operators : operator'[p] = operator[p] \/ (p = o /\ operator'[p] = hand)
  BY <1>1, <1>5, <1>6
<1>8. SeenInv'
  <2>1. ASSUME NEW p \in Operators, operator'[p] # None
        PROVE  LET review == odds'.reviews[operator'[p].review] IN
               /\ operator'[p].review \in 1..Len(odds'.reviews)
               /\ operator'[p].version <= review.version
               /\ operator'[p].version = review.version => operator'[p].content = review.content
               /\ operator'[p].bout # None => operator'[p].bout \in operator'[p].content.candidates
    <3>1. CASE operator'[p] = operator[p]
      BY <1>1, <2>1, <3>1 DEF MatchingInv, SeenInv
    <3>2. CASE operator'[p] = hand
      <4>1. h.version <= odds.reviews[h.review].version
        BY <1>1 DEF MatchingInv, SeenInv, h
      <4> QED
        BY <1>1, <1>3, <1>4, <1>6, <3>2, <4>1
    <3> QED
      BY <1>7, <3>1, <3>2
  <2> QED
    BY <2>1 DEF SeenInv
<1> QED
  BY <1>1, <1>7, <1>8, TablesStand

LEMMA StaleStep ==
  ASSUME MatchingInv, NEW o \in Operators, Stale(o)
  PROVE  Sound
<1>1. /\ odds' = odds /\ stamp' = stamp /\ rematch' = rematch /\ odds \in OddsRows
      /\ operator \in [Operators -> InHand \cup {None}]
      /\ operator' = [operator EXCEPT ![o] = None]
  BY DEF MatchingInv, MatchingTypeOK, Stale
<1>2. /\ operator' \in [Operators -> InHand \cup {None}]
      /\ \A p \in Operators : operator'[p] \in {operator[p], None}
  BY <1>1
<1>3. Grown(odds.reviews, odds'.reviews)
  BY <1>1 DEF Grown, OddsRows
<1>4. SeenInv'
  BY <1>1, <1>2, <1>3, SeenStays
<1> QED
  BY <1>1, <1>2, <1>4, TablesStand

(* The three answers of an operator: the call of each lets go of the       *)
(* version that it holds.                                                  *)
LEMMA LetsGo ==
  ASSUME MatchingInv, NEW o \in Operators, operator' = [operator EXCEPT ![o] = None]
  PROVE  /\ operator' \in [Operators -> InHand \cup {None}]
         /\ \A p \in Operators : operator'[p] \in {operator[p], None}
  BY DEF MatchingInv, MatchingTypeOK

LEMMA ApproveStep ==
  ASSUME MatchingInv, NEW o \in Operators, Approve(o)
  PROVE  Sound
<1> DEFINE b == operator[o].bout  i == operator[o].review
           a == ActivateAlias(odds, b, "manual_review", stamp)
           l == Apply(a, b, "active", "approved", stamp)
           own == CHOOSE k \in Current(a) :
                    a.aliases[k].bout = b /\ a.aliases[k].rule = "manual_review"
           m == Moved(Observe(l, "matched", b, "manual_review", stamp), i, "approved", b, own)
<1>1. /\ odds \in OddsRows /\ stamp \in Nat /\ stamp' = stamp /\ rematch' = rematch
      /\ operator[o] # None /\ b # None /\ odds' = Written(m)
      /\ operator' = [operator EXCEPT ![o] = None] /\ odds.overtaken \in BOOLEAN
  BY DEF MatchingInv, MatchingTypeOK, OddsRows, Approve, Holds
<1>2. i \in 1..Len(odds.reviews) /\ b \in MatchBouts
  <2>1. operator[o] \in InHand
    BY <1>1 DEF MatchingInv, MatchingTypeOK
  <2> QED
    BY <1>1, <2>1 DEF MatchingInv, SeenInv, InHand
<1>3. Approve(o) /\ operator[o].bout = b
  OBVIOUS
<1> HIDE DEF b, i
<1>4. /\ Writes(odds, m, stamp)
      /\ \A c \in MatchBouts : IsTerminal(odds, c, stamp) /\ ~IsTerminal(m, c, stamp) =>
           c = b /\ LatestLife(odds, c, stamp).state # "replaced"
  BY <1>1, <1>2, ApprovalWrites
<1> HIDE DEF m
<1>5. Commits(odds, odds', stamp) /\ odds'.life = m.life /\ odds'.overtaken = odds.overtaken
  BY <1>1, <1>4, CommitStep
<1>6. OpensByApproval
  <2>1. ASSUME NEW c \in MatchBouts, IsTerminal(odds, c, stamp), ~IsTerminal(odds', c, stamp)
        PROVE  LatestLife(odds, c, stamp).state = "review_blocked" /\ c = b
    <3>1. ~IsTerminal(m, c, stamp)
      BY <1>5, <2>1, ClosedByLife
    <3>2. c = b /\ LatestLife(odds, c, stamp).state # "replaced"
      BY <1>4, <2>1, <3>1
    <3> QED
      BY <2>1, <3>2 DEF IsTerminal, Terminal
  <2> QED
    BY <1>1, <1>3, <2>1 DEF OpensByApproval
<1> QED
  BY <1>1, <1>5, <1>6, CommitNow, LetsGo

LEMMA RejectStep ==
  ASSUME MatchingInv, NEW o \in Operators, Reject(o)
  PROVE  Sound
<1> DEFINE i == operator[o].review  m == Moved(odds, i, "rejected", None, 0)
<1>1. /\ odds \in OddsRows /\ stamp \in Nat /\ stamp' = stamp /\ rematch' = rematch
      /\ operator[o] # None /\ odds' = Written(m)
      /\ operator' = [operator EXCEPT ![o] = None] /\ odds.overtaken \in BOOLEAN
  BY DEF MatchingInv, MatchingTypeOK, OddsRows, Reject, Holds
<1>2. i \in 1..Len(odds.reviews)
  BY <1>1 DEF MatchingInv, SeenInv
<1> HIDE DEF i
<1>3. m \in OddsRows /\ SameButReviews(odds, m) /\ Grown(odds.reviews, m.reviews)
  <2>1. PICK status \in {"pending", "approved", "rejected", "reversed"},
             b \in MatchBouts \cup {None}, alias \in Nat :
          status = "rejected" /\ b = None /\ alias = 0
    OBVIOUS
  <2>2. LET e == Moved(odds, i, status, b, alias) IN
        e \in OddsRows /\ SameButReviews(odds, e) /\ Grown(odds.reviews, e.reviews)
    BY <1>1, <1>2, MovedStep
  <2> QED
    BY <2>1, <2>2
<1> HIDE DEF m
<1>4. Writes(odds, m, stamp) /\ m.life = odds.life
  BY <1>1, <1>3, ReviewsWrite DEF SameButReviews
<1>5. Commits(odds, odds', stamp) /\ odds'.life = odds.life /\ odds'.overtaken = odds.overtaken
  BY <1>1, <1>4, CommitStep
<1>6. OpensByApproval
  BY <1>1, <1>5, ClosedByLife DEF OpensByApproval
<1> QED
  BY <1>1, <1>5, <1>6, CommitNow, LetsGo

LEMMA ReverseMatchStep ==
  ASSUME MatchingInv, NEW o \in Operators, ReverseMatch(o)
  PROVE  Sound
<1> DEFINE i == operator[o].review  r == odds.reviews[i]
           w == Withdraw(odds, r, stamp)  m == Moved(w, i, "reversed", r.decision, r.alias)
<1>1. /\ odds \in OddsRows /\ stamp \in Nat /\ stamp' = stamp /\ rematch' = rematch
      /\ operator[o] # None /\ odds' = Written(m)
      /\ operator' = [operator EXCEPT ![o] = None] /\ odds.overtaken \in BOOLEAN
  BY DEF MatchingInv, MatchingTypeOK, OddsRows, ReverseMatch, Holds
<1>2. i \in 1..Len(odds.reviews)
  BY <1>1 DEF MatchingInv, SeenInv
<1>3. r \in ReviewRow
  BY <1>1, <1>2 DEF OddsRows
<1>4. r.decision \in MatchBouts \cup {None} /\ r.alias \in Nat
  BY <1>3 DEF ReviewRow
<1> HIDE DEF i, r
<1>5. Writes(odds, w, stamp) /\ Keeps(odds, w, stamp) /\ w.reviews = odds.reviews
  BY <1>1, <1>3, WithdrawalWrites
<1> HIDE DEF w
<1>6. w \in OddsRows /\ i \in 1..Len(w.reviews)
  BY <1>2, <1>5 DEF Writes
<1>7. m \in OddsRows /\ SameButReviews(w, m) /\ Grown(w.reviews, m.reviews)
  <2>1. PICK status \in {"pending", "approved", "rejected", "reversed"} : status = "reversed"
    OBVIOUS
  <2>2. LET e == Moved(w, i, status, r.decision, r.alias) IN
        e \in OddsRows /\ SameButReviews(w, e) /\ Grown(w.reviews, e.reviews)
    BY <1>4, <1>6, MovedStep
  <2> QED
    BY <2>1, <2>2
<1> HIDE DEF m
<1>8. Writes(odds, m, stamp) /\ m.life = w.life
  <2>1. Writes(w, m, stamp)
    BY <1>1, <1>6, <1>7, ReviewsWrite
  <2>2. Writes(odds, m, stamp)
    BY <1>1, <1>5, <1>6, <2>1, WritesAreTransitive
  <2> QED
    BY <1>7, <2>2 DEF SameButReviews
<1>9. Commits(odds, odds', stamp) /\ odds'.life = w.life /\ odds'.overtaken = odds.overtaken
  BY <1>1, <1>8, CommitStep
<1>10. OpensByApproval
  <2>1. ASSUME NEW b \in MatchBouts, IsTerminal(odds, b, stamp) PROVE IsTerminal(odds', b, stamp)
    <3>1. IsTerminal(w, b, stamp)
      BY <1>5, <2>1 DEF Keeps
    <3> QED
      BY <1>9, <3>1, ClosedByLife
  <2> QED
    BY <1>1, <2>1 DEF OpensByApproval
<1> QED
  BY <1>1, <1>9, <1>10, CommitNow, LetsGo
-----------------------------------------------------------------------------
LEMMA EveryStepIsSound ==
  ASSUME MatchingInv, [MatchingNext]_matchingVars
  PROVE  Sound
<1>1. CASE UNCHANGED matchingVars
  <2>1. odds' = odds /\ stamp' = stamp /\ rematch' = rematch /\ operator' = operator
    BY <1>1 DEF matchingVars
  <2>2. SeenInv' /\ operator' \in [Operators -> InHand \cup {None}]
    BY <2>1 DEF MatchingInv, MatchingTypeOK, SeenInv
  <2> QED
    BY <2>1, <2>2, TablesStand
<1>2. CASE TimePasses
  BY <1>2, TimePassesStep
<1>3. CASE StoreQuotes
  BY <1>3, StoreQuotesStep
<1>4. CASE \E b \in MatchBouts : CancelBout(b)
  BY <1>4, CancelBoutStep
<1>5. CASE ReadEvent
  BY <1>5, ReadEventStep
<1>6. CASE WriteDecision
  BY <1>6, WriteDecisionStep
<1>7. CASE DropDecision
  BY <1>7, DropDecisionStep
<1>8. CASE \E old, new \in MatchBouts : ReplaceBout(old, new)
  BY <1>8, ReplaceBoutStep
<1>9. ASSUME NEW o \in Operators,
             Look(o) \/ Validate(o) \/ Approve(o) \/ Reject(o) \/ ReverseMatch(o) \/ Stale(o)
      PROVE  Sound
  BY <1>9, LookStep, ValidateStep, ApproveStep, RejectStep, ReverseMatchStep, StaleStep
<1> QED
  BY <1>1, <1>2, <1>3, <1>4, <1>5, <1>6, <1>7, <1>8, <1>9 DEF MatchingNext

(* The tables, what an open reconcile decided and what the operators have  *)
(* in hand fit together in every state.                                    *)
THEOREM MatchingInvariant == MatchingSpec => []MatchingInv
<1>1. MatchingInit => MatchingInv
  BY MatchingInitially
<1>2. MatchingInv /\ [MatchingNext]_matchingVars => MatchingInv'
  BY EveryStepIsSound DEF Sound
<1> QED
  BY <1>1, <1>2, PTL DEF MatchingSpec

(* Rows that arrive later do not change what was eligible as of a time     *)
(* before the start of the oldest open reconcile: what resolve_quote_value_*)
(* eligibility said then can be said again.                                *)
THEOREM ThePastIsFixed == MatchingSpec => PastIsFixed
<1>1. ASSUME MatchingInv, [MatchingNext]_matchingVars, NEW t \in 0..MaxStamp, t < Horizon,
             NEW q \in odds.quotes
      PROVE  Eligible(odds, q, t) <=> Eligible(odds', q, t)
  <2>1. PICK h \in Nat : Horizon <= h /\ LaterRows(odds, odds', h)
    BY <1>1, EveryStepIsSound DEF Sound, OnlyLater
  <2>2. t \in Nat /\ Horizon \in Nat
    BY <1>1, MatchingAssumption, HorizonIs
  <2>3. t < h
    BY <1>1, <2>1, <2>2
  <2>4. odds \in OddsRows /\ odds' \in OddsRows
    BY <1>1, EveryStepIsSound DEF Sound, MatchingInv, MatchingTypeOK
  <2> QED
    BY <2>1, <2>2, <2>3, <2>4, EligibleIsFixed
<1>2. MatchingInv /\ [MatchingNext]_matchingVars =>
        [\A t \in 0..MaxStamp : t < Horizon =>
           \A q \in odds.quotes : Eligible(odds, q, t) <=> Eligible(odds', q, t)]_matchingVars
  BY <1>1
<1> QED
  BY <1>2, MatchingInvariant, PTL DEF MatchingSpec, PastIsFixed

(* Whatever writes to the lifecycle, and from however old a reading, opens *)
(* a blocked bout only as the table of evidence lists it and a replaced one*)
(* never.  (Of the two ways out of a block the reconcile leaves one unused:*)
(* it is an approval every time.)                                          *)
THEOREM BoutsOpenAsListed == MatchingSpec => UnblocksAsListed
<1>1. MatchingInv /\ [MatchingNext]_matchingVars => OpensByApproval
  BY EveryStepIsSound DEF Sound
<1>2. MatchingInv /\ [MatchingNext]_matchingVars =>
        [\A b \in MatchBouts :
           IsTerminal(odds, b, stamp) /\ ~IsTerminal(odds', b, stamp') =>
             LET block == LatestLife(odds, b, stamp) IN
             /\ block.state = "review_blocked"
             /\ \/ \E o \in Operators : Approve(o) /\ operator[o].bout = b
                \/ /\ WriteDecision /\ rematch.at >= block.at
                   /\ rematch.dec.status = "matched" /\ rematch.dec.bout = b]_matchingVars
  BY <1>1 DEF OpensByApproval
<1> QED
  BY <1>2, MatchingInvariant, PTL DEF MatchingSpec, UnblocksAsListed

(* approve_bout_match_review closes the review over the evidence and the   *)
(* candidates its caller saw, whatever a reconcile did in between.         *)
THEOREM ApprovalsAreInformed == MatchingSpec => ApprovesWhatWasSeen
<1>1. ASSUME MatchingInv, NEW o \in Operators, Approve(o)
      PROVE  /\ odds.reviews[operator[o].review].content = operator[o].content
             /\ operator[o].bout \in operator[o].content.candidates
  BY <1>1 DEF MatchingInv, SeenInv, Approve, Holds
<1>2. MatchingInv /\ [MatchingNext]_matchingVars =>
        [\A o \in Operators : Approve(o) =>
           /\ odds.reviews[operator[o].review].content = operator[o].content
           /\ operator[o].bout \in operator[o].content.candidates]_matchingVars
  BY <1>1
<1> QED
  BY <1>2, MatchingInvariant, PTL DEF MatchingSpec, ApprovesWhatWasSeen

(* As long as no decision was written over a commit that it had not seen,  *)
(* the quotes of a bout are not valued for the bout that takes its id.     *)
THEOREM QuotesStayWithTheirBout == MatchingSpec => []NoInheritedQuote
<1>1. ASSUME MatchingInv, ~odds.overtaken, NEW q \in odds.quotes, Eligible(odds, q, stamp),
             NEW i \in ValidAt(odds, q)
      PROVE  odds.aliases[i].bout = odds.aliases[Effective(odds, stamp)].bout
  <2> DEFINE s == odds.aliases  v == Effective(odds, stamp)
  <2>1. /\ odds \in OddsRows /\ stamp \in Nat /\ q \in Nat /\ None \notin Nat
        /\ AliasBy(s, stamp) /\ Chained(s)
    BY <1>1, MatchingAssumption DEF MatchingInv, MatchingTypeOK, OddsRows
  <2>2. /\ DOMAIN s = 1..Len(s) /\ Len(s) \in Nat
        /\ \A j \in 1..Len(s) : s[j].at \in Nat /\ s[j].gone \in Nat \cup {None}
    BY <2>1, RowTimes
  <2>3. v > 0 /\ q \in Visible(odds, stamp)
    BY <1>1 DEF Eligible
  <2>4. v \in ValidAt(odds, stamp)
    BY <2>1, <2>3, EffectiveIs
  <2>5. v > 1 => s[v].at <= q
    BY <2>3 DEF Visible
  <2>6. i \in 1..Len(s) /\ s[i].at <= q /\ (s[i].gone = None \/ q < s[i].gone)
    BY <2>2 DEF ValidAt
  <2>7. v \in 1..Len(s) /\ (s[v].gone = None \/ stamp < s[v].gone)
    BY <2>2, <2>4 DEF ValidAt
  <2> HIDE DEF v, s
  <2>8. s[v].gone = None
    BY <2>1, <2>2, <2>7 DEF AliasBy
  <2>9. ~(v < i)
    BY <2>1, <2>6, <2>7, <2>8 DEF Chained
  <2>10. ~(i < v)
    <3>1. SUFFICES ASSUME i < v PROVE FALSE
      OBVIOUS
    <3>2. v > 1 /\ s[i].gone # None /\ s[i].gone <= s[v].at
      BY <2>1, <2>2, <2>6, <2>7, <3>1 DEF Chained
    <3> QED
      BY <2>1, <2>2, <2>5, <2>6, <2>7, <3>2
  <2>11. i = v
    BY <2>2, <2>6, <2>7, <2>9, <2>10
  <2> QED
    BY <2>11 DEF s, v
<1>2. MatchingInv => NoInheritedQuote
  BY <1>1 DEF NoInheritedQuote
<1> QED
  BY <1>2, MatchingInvariant, PTL

-----------------------------------------------------------------------------
(* QuoteValue: what a selection was worth at the lock of its card.         *)
QuoteRows ==
  [id : Nat, book : Books, side : Sides, price : Prices, source : Int \cup {None}, seen : Nat]

UnknownRows == [book : Books, seen : Nat]

ScopedRows ==
  [bout : MatchBouts, book : Books, side : Sides \cup {None}, state : {"locked", "active"},
   why : {"lock", "unlock", "clear"}, at : Nat]

ManualRows ==
  [side : Sides, price : Prices, seen : Nat, boundTo : MatchBouts \cup {None},
   boundAt : Nat \cup {None}]

BookType(b) ==
  /\ b.quotes \subseteq QuoteRows /\ b.unknown \subseteq UnknownRows
  /\ b.scoped \in Seq(ScopedRows) /\ b.manual \subseteq ManualRows
  /\ b.news \in Nat
  /\ b = [quotes |-> b.quotes, unknown |-> b.unknown, scoped |-> b.scoped,
          manual |-> b.manual, news |-> b.news, report |-> b.report]

(* A poll numbers the quotes that it stores, one for each selection.       *)
Numbers(b) ==
  /\ \A q \in b.quotes : q.id <= b.news
  /\ \A p, q \in b.quotes : p.id = q.id /\ p.side = q.side => p = q

(* What was recorded since h, beside what is there.                        *)
BookExtends(b, c, h) ==
  /\ b.quotes \subseteq c.quotes /\ \A q \in c.quotes \ b.quotes : q.seen >= h
  /\ b.unknown \subseteq c.unknown /\ \A u \in c.unknown \ b.unknown : u.seen >= h
  /\ Appended(b.scoped, c.scoped, h)
  /\ \A m \in c.manual \ b.manual : m.boundTo = None \/ m.boundAt >= h
  /\ \A m \in b.manual \ c.manual : m.boundTo = None

(* Only the aliases tell which times count.                                *)
LEMMA OtherQuotes ==
  ASSUME NEW d \in OddsRows, NEW T \in SUBSET Nat
  PROVE  /\ [d EXCEPT !.quotes = T] \in OddsRows /\ [d EXCEPT !.quotes = T].quotes = T
         /\ LET e == [d EXCEPT !.quotes = T] IN
            /\ e.aliases = d.aliases /\ e.matches = d.matches /\ e.life = d.life
BY DEF OddsRows

LEMMA LaterWithout ==
  ASSUME NEW d \in OddsRows, NEW e \in OddsRows, NEW h \in Nat, LaterRows(d, e, h),
         NEW T \in SUBSET Nat
  PROVE  LaterRows([d EXCEPT !.quotes = T], [e EXCEPT !.quotes = T], h)
BY OtherQuotes DEF LaterRows

LEMMA VisibleIsFixed ==
  ASSUME NEW d \in OddsRows, NEW e \in OddsRows, NEW h \in Nat, NEW t \in Nat, t < h,
         LaterRows(d, e, h), d.quotes = e.quotes
  PROVE  Visible(d, t) = Visible(e, t)
<1> DEFINE v == Effective(d, t)
<1>1. /\ Effective(e, t) = v
      /\ (\A i \in DOMAIN e.aliases : t < e.aliases[i].at)
           <=> (\A i \in DOMAIN d.aliases : t < d.aliases[i].at)
  BY AliasIsFixed DEF LaterRows
<1>2. v # 0 => e.aliases[v].at = d.aliases[v].at
  BY EffectiveIs, AliasIsFixed DEF LaterRows
<1>3. v \in Nat
  <2>1. Len(d.aliases) \in Nat
    BY RowTimes
  <2>2. v = 0 \/ v \in 1..Len(d.aliases)
    BY EffectiveIs
  <2> QED
    BY <2>1, <2>2
<1> HIDE DEF v
<1> QED
  BY <1>1, <1>2, <1>3 DEF Visible, v

(* Only rows of h or later are added, by a step.                           *)
OnlySince(h) ==
  /\ h \in Nat /\ odds \in OddsRows /\ odds' \in OddsRows
  /\ BookType(book) /\ BookType(book') /\ Numbers(book)
  /\ LaterRows(odds, odds', h) /\ BookExtends(book, book', h)

LEMMA OneSeen ==
  ASSUME NEW h, OnlySince(h), NEW x \in Nat
  PROVE  LET d == [odds EXCEPT !.quotes = {x}]
             e == [odds' EXCEPT !.quotes = {x}]
         IN /\ d \in OddsRows /\ e \in OddsRows /\ LaterRows(d, e, h)
            /\ d.quotes = {x} /\ e.quotes = {x} /\ d.aliases = odds.aliases
<1>0. odds \in OddsRows /\ odds' \in OddsRows /\ LaterRows(odds, odds', h) /\ h \in Nat
  BY DEF OnlySince
<1> DEFINE T == {x}
<1>1. T \in SUBSET Nat
  OBVIOUS
<1> HIDE DEF T
<1>2. [odds EXCEPT !.quotes = T] \in OddsRows /\ [odds EXCEPT !.quotes = T].quotes = T
      /\ [odds EXCEPT !.quotes = T].aliases = odds.aliases
  BY <1>0, <1>1, OtherQuotes
<1>3. [odds' EXCEPT !.quotes = T] \in OddsRows /\ [odds' EXCEPT !.quotes = T].quotes = T
  BY <1>0, <1>1, OtherQuotes
<1>4. LaterRows([odds EXCEPT !.quotes = T], [odds' EXCEPT !.quotes = T], h)
  BY <1>0, <1>1, LaterWithout
<1> QED
  BY <1>2, <1>3, <1>4 DEF T

LEMMA CountsAlike ==
  ASSUME NEW h, OnlySince(h), NEW t \in Nat, t < h, NEW x \in Nat
  PROVE  CountAt({x}, t)' = CountAt({x}, t)
<1> DEFINE d == [odds EXCEPT !.quotes = {x}]
           e == [odds' EXCEPT !.quotes = {x}]
<1>1. d \in OddsRows /\ e \in OddsRows /\ LaterRows(d, e, h) /\ d.quotes = e.quotes
  BY OneSeen
<1>2. CountAt({x}, t) = Visible(d, t) /\ CountAt({x}, t)' = Visible(e, t)
  BY DEF CountAt
<1> HIDE DEF d, e
<1> QED
  BY <1>1, <1>2, VisibleIsFixed DEF OnlySince

LEMMA CountsBy ==
  ASSUME NEW x, NEW t, x \in CountAt({x}, t)
  PROVE  x <= t
BY DEF CountAt, Visible

LEMMA SeenInTime ==
  ASSUME NEW h, OnlySince(h), NEW t \in Nat, t < h
  PROVE  VisibleQuotes(t)' = VisibleQuotes(t)
<1>1. book.quotes \subseteq book'.quotes /\ \A q \in book'.quotes \ book.quotes : q.seen >= h
  BY DEF OnlySince, BookExtends
<1>2. \A q \in book'.quotes : q.seen \in Nat
  BY DEF OnlySince, BookType, QuoteRows
<1>3. \A q \in book'.quotes : q.seen \in CountAt({q.seen}, t)' <=> q.seen \in CountAt({q.seen}, t)
  BY <1>2, CountsAlike
<1>4. \A q \in book'.quotes \ book.quotes : q.seen \notin CountAt({q.seen}, t)
  <2> SUFFICES ASSUME NEW q \in book'.quotes \ book.quotes, q.seen \in CountAt({q.seen}, t) PROVE FALSE
    OBVIOUS
  <2>1. q.seen <= t /\ q.seen >= h /\ q.seen \in Nat /\ h \in Nat
    BY <1>1, <1>2, CountsBy DEF OnlySince
  <2> QED
    BY <2>1
<1>5. VisibleQuotes(t)' = { q \in book'.quotes : q.seen \in CountAt({q.seen}, t)' /\ Freshness(q) <= t }
  BY DEF VisibleQuotes
<1> QED
  BY <1>1, <1>3, <1>4, <1>5 DEF VisibleQuotes

LEMMA ScopedIsFixed ==
  ASSUME NEW h, OnlySince(h), NEW t \in Nat, t < h, NEW b, NEW q
  PROVE  LatestScoped(b, q, t)' = LatestScoped(b, q, t)
<1> DEFINE s == book.scoped  r == book'.scoped  n == Len(s)
           ids == { i \in 1..n : s[i].bout = b /\ Applies(s[i], q) /\ s[i].at <= t }
<1>0. s \in Seq(ScopedRows) /\ r \in Seq(ScopedRows) /\ h \in Nat
  BY DEF OnlySince, BookType
<1>1. /\ n \in Nat /\ Len(r) \in Nat /\ DOMAIN s = 1..n /\ DOMAIN r = 1..Len(r)
      /\ \A i \in 1..n : s[i].at \in Nat
      /\ \A i \in 1..Len(r) : r[i].at \in Nat
  <2>1. \A x \in ScopedRows : x.at \in Nat
    BY DEF ScopedRows
  <2> HIDE DEF s, r
  <2> QED
    BY <1>0, <2>1
<1>2. /\ n <= Len(r) /\ \A i \in 1..n : r[i] = s[i]
      /\ \A i \in 1..Len(r) : i > n => r[i].at >= h
  BY DEF OnlySince, BookExtends, Appended
<1>3. LatestScoped(b, q, t) = LatestOf(s, ids)
  BY <1>1 DEF LatestScoped
<1>31. LatestScoped(b, q, t)' =
         LatestOf(r, { i \in 1..Len(r) : r[i].bout = b /\ Applies(r[i], q) /\ r[i].at <= t })
  BY <1>1 DEF LatestScoped
<1> HIDE DEF s, r
<1>4. { i \in 1..Len(r) : r[i].bout = b /\ Applies(r[i], q) /\ r[i].at <= t } = ids
  <2>1. ASSUME NEW i \in 1..Len(r), r[i].at <= t PROVE i \in 1..n
    BY <1>0, <1>1, <1>2, <2>1
  <2>2. \A i \in 1..n : i \in 1..Len(r)
    BY <1>1, <1>2
  <2> QED
    BY <1>2, <2>1, <2>2
<1>6. /\ ids \in SUBSET (1..n)
      /\ \A i \in ids : s[i].at \in Nat /\ s[i].at <= t /\ r[i] = s[i]
  BY <1>1, <1>2
<1> HIDE DEF ids
<1>7. LatestOf(s, ids) = LatestOf(r, ids)
  BY <1>0, <1>1, <1>6, LatestIsFixed
<1> QED
  BY <1>3, <1>31, <1>4, <1>7

LEMMA UnknownIsFixed ==
  ASSUME NEW h, OnlySince(h), NEW t \in Nat, t < h, NEW q
  PROVE  MarketUnknown(q, t)' <=> MarketUnknown(q, t)
<1>1. book.unknown \subseteq book'.unknown /\ \A u \in book'.unknown \ book.unknown : u.seen >= h
  BY DEF OnlySince, BookExtends
<1>2. \A u \in book'.unknown : u.seen \in Nat
  BY DEF OnlySince, BookType, UnknownRows
<1>3. \A u \in book'.unknown : u.seen \in CountAt({u.seen}, t)' <=> u.seen \in CountAt({u.seen}, t)
  BY <1>2, CountsAlike
<1>4. \A u \in book'.unknown \ book.unknown : u.seen \notin CountAt({u.seen}, t)
  <2> SUFFICES ASSUME NEW u \in book'.unknown \ book.unknown, u.seen \in CountAt({u.seen}, t) PROVE FALSE
    OBVIOUS
  <2>1. u.seen <= t /\ u.seen >= h /\ u.seen \in Nat /\ h \in Nat
    BY <1>1, <1>2, CountsBy DEF OnlySince
  <2> QED
    BY <2>1
<1> QED
  BY <1>1, <1>3, <1>4 DEF MarketUnknown

LEMMA AliasStays ==
  ASSUME NEW h, OnlySince(h), NEW t \in Nat, t < h
  PROVE  /\ Effective(odds, t)' = Effective(odds, t) /\ Effective(odds, t) \in Nat
         /\ Effective(odds, t) > 0 =>
              odds'.aliases[Effective(odds, t)].bout = odds.aliases[Effective(odds, t)].bout
<1> DEFINE v == Effective(odds, t)
<1>0. odds \in OddsRows /\ odds' \in OddsRows /\ h \in Nat /\ AliasesExtend(odds.aliases, odds'.aliases, h)
  BY DEF OnlySince, LaterRows
<1>1. Effective(odds', t) = v
  BY <1>0, AliasIsFixed
<1>2. v # 0 => odds'.aliases[v].bout = odds.aliases[v].bout
  BY <1>0, EffectiveIs, AliasIsFixed
<1>3. v \in Nat
  <2>1. Len(odds.aliases) \in Nat
    BY <1>0, RowTimes
  <2>2. v = 0 \/ v \in 1..Len(odds.aliases)
    BY <1>0, EffectiveIs
  <2> QED
    BY <2>1, <2>2
<1>4. Effective(odds, t)' = Effective(odds', t)
  OBVIOUS
<1> HIDE DEF v
<1> QED
  BY <1>1, <1>2, <1>3, <1>4 DEF v

(* The verdict on a quote, as of a time before h.                          *)
LEMMA VerdictIsFixed ==
  ASSUME NEW h, OnlySince(h), NEW t \in Nat, t < h, NEW q, NEW b
  PROVE  /\ QuoteEligible(q, b, t)' = QuoteEligible(q, b, t)
         /\ ValueDecision(q, b, t)' = ValueDecision(q, b, t)
<1> DEFINE old == QuoteEligible(q, b, t)
           new == QuoteEligible(q, b, t)'
<1>1. q \in VisibleQuotes(t)' <=> q \in VisibleQuotes(t)
  BY SeenInTime
<1>2. ASSUME q \in VisibleQuotes(t) PROVE old <=> new
  <2>1. q.seen \in Nat
    BY <1>2 DEF VisibleQuotes, OnlySince, BookType, QuoteRows
  <2> DEFINE d == [odds EXCEPT !.quotes = {q.seen}]
             e == [odds' EXCEPT !.quotes = {q.seen}]
  <2>2. d \in OddsRows /\ e \in OddsRows /\ LaterRows(d, e, h) /\ q.seen \in d.quotes
    BY <2>1, OneSeen
  <2>20. d.aliases = odds.aliases
    BY <2>1, OneSeen
  <2>21. Effective(d, t) = Effective(odds, t)
    BY <2>20 DEF Effective, ValidAt
  <2>3. Eligible(d, q.seen, t) => Effective(odds, t) > 0
    BY <2>21 DEF Eligible
  <2>4. /\ old <=> /\ Eligible(d, q.seen, t) /\ odds.aliases[Effective(odds, t)].bout = b
                  /\ ~IsLocked(b, q, t) /\ ~MarketUnknown(q, t) /\ ~IsStale(q, t)
        /\ new <=> /\ Eligible(e, q.seen, t) /\ odds'.aliases[Effective(odds, t)'].bout = b
                  /\ ~IsLocked(b, q, t)' /\ ~MarketUnknown(q, t)' /\ ~IsStale(q, t)
    BY <1>1, <1>2 DEF QuoteEligible, IsStale
  <2>5. IsLocked(b, q, t)' <=> IsLocked(b, q, t)
    BY ScopedIsFixed DEF IsLocked
  <2> HIDE DEF d, e, old, new
  <2>6. Eligible(d, q.seen, t) <=> Eligible(e, q.seen, t)
    BY <2>2, EligibleIsFixed DEF OnlySince
  <2> QED
    BY <2>3, <2>4, <2>5, <2>6, AliasStays, UnknownIsFixed
<1>3. ASSUME q \notin VisibleQuotes(t) PROVE old <=> new
  BY <1>1, <1>3 DEF QuoteEligible
<1>4. old \in BOOLEAN /\ new \in BOOLEAN
  BY DEF QuoteEligible
<1>5. old = new
  BY <1>2, <1>3, <1>4
<1>6. LatestLife(odds, b, t)' = LatestLife(odds, b, t)
  <2>1. LatestLife(odds', b, t) = LatestLife(odds, b, t)
    BY LifeIsFixed DEF OnlySince, LaterRows
  <2> QED
    BY <2>1
<1> QED
  BY <1>5, <1>6 DEF ValueDecision

LEMMA LoadedIsFixed ==
  ASSUME NEW h, OnlySince(h), NEW t \in Nat, t < h, NEW b
  PROVE  LoadedAt(b, t)' = LoadedAt(b, t)
<1> DEFINE old == {ValueDecision(q, b, t) : q \in VisibleQuotes(t)}
           new == {ValueDecision(q, b, t)' : q \in VisibleQuotes(t)'}
<1>1. old = new
  BY SeenInTime, VerdictIsFixed
<1>2. LoadedAt(b, t) = { d \in old : /\ Effective(odds, t) > 0
                                     /\ odds.aliases[Effective(odds, t)].bout = b
                                     /\ Usable(d) }
  BY DEF LoadedAt
<1>3. LoadedAt(b, t)' = { d \in new : /\ Effective(odds, t)' > 0
                                      /\ odds'.aliases[Effective(odds, t)'].bout = b
                                      /\ Usable(d) }
  BY DEF LoadedAt, Usable, Freshness
<1> HIDE DEF old, new
<1> QED
  BY <1>1, <1>2, <1>3, AliasStays

(* join_quote's answer, for the decisions on one side and their newest      *)
(* quote.                                                                  *)
Joined(D, q, fits, decision) ==
  IF D = {} \/ (\E d \in D : d.quote.seen = q.seen /\ d.quote.price # q.price) \/ ~fits
  THEN None ELSE decision

LEMMA OpeningIsFixed ==
  ASSUME NEW h, OnlySince(h), NEW t \in Nat, t < h, NEW b, NEW side
  PROVE  Opening(b, side, t)' = Opening(b, side, t)
<1> DEFINE D == { d \in LoadedAt(b, t) : d.quote.side = side }
           q == NewestQuote({d.quote : d \in D})
<1>1. D' = D
  BY LoadedIsFixed
<1>2. q' = q
  BY <1>1 DEF NewestQuote, Later
<1>3. Opening(b, side, t) = Joined(D, q, QuoteEligible(q, b, t), ValueDecision(q, b, t))
  BY DEF Opening, Joined
<1>4. Opening(b, side, t)' = Joined(D', q', QuoteEligible(q, b, t)', ValueDecision(q, b, t)')
  BY DEF Opening, Joined
<1>5. QuoteEligible(q, b, t)' = QuoteEligible(q, b, t) /\ ValueDecision(q, b, t)' = ValueDecision(q, b, t)
  <2> DEFINE E(x) == QuoteEligible(x, b, t)  V(x) == ValueDecision(x, b, t)
  <2>1. \A x : E(x)' = E(x) /\ V(x)' = V(x)
    BY VerdictIsFixed
  <2> QED
    BY <1>2, <2>1
<1> HIDE DEF D, q
<1> QED
  BY <1>1, <1>2, <1>3, <1>4, <1>5

(* The newest quote of a selection is one: the ids tell those of one time  *)
(* apart.                                                                  *)
LEMMA NewestExists ==
  ASSUME NEW Q \in SUBSET QuoteRows, Q # {}, NEW n \in Nat, NEW m \in Nat,
         \A q \in Q : q.seen <= n /\ q.id <= m,
         \A p, q \in Q : p.id = q.id => p = q
  PROVE  NewestQuote(Q) \in Q
<1>0. \A q \in Q : q.seen \in Nat /\ q.id \in Nat
  BY DEF QuoteRows
<1> DEFINE T == { q.seen : q \in Q }
<1>1. T \in SUBSET (0..n) /\ T # {}
  BY <1>0
<1>2. PICK x \in T : \A y \in T : y <= x
  <2> HIDE DEF T
  <2> QED
    BY <1>1, HasGreatest
<1> DEFINE R == { q \in Q : q.seen = x }  U == { q.id : q \in R }
<1>3. U \in SUBSET (0..m) /\ U # {}
  BY <1>0
<1>4. PICK i \in U : \A j \in U : j <= i
  <2> HIDE DEF U
  <2> QED
    BY <1>3, HasGreatest
<1>5. PICK q \in R : q.id = i
  OBVIOUS
<1>6. q \in Q /\ q.seen = x
  OBVIOUS
<1>7. \A p \in Q \ {q} : Later(q, p)
  <2> SUFFICES ASSUME NEW p \in Q \ {q} PROVE Later(q, p)
    OBVIOUS
  <2>1. p.seen <= x /\ p.seen \in Nat /\ p.id \in Nat /\ q.id \in Nat /\ p.id # q.id
    BY <1>0, <1>2, <1>6
  <2>2. CASE p.seen = x
    <3>1. p.id <= i
      BY <1>4, <2>2
    <3> QED
      BY <1>5, <1>6, <2>1, <2>2, <3>1 DEF Later
  <2>3. CASE p.seen # x
    BY <1>0, <1>6, <2>1, <2>3 DEF Later
  <2> QED
    BY <2>2, <2>3
<1> HIDE DEF T, R, U
<1> QED
  BY <1>6, <1>7 DEF NewestQuote

(* select_closing_row's answer, for the quotes after the opening.          *)
ClosingPrice(later, fits, decision) ==
  IF later = {} \/ ~fits \/ ~Usable(decision) THEN None ELSE decision

LEMMA ClosingIsFixed ==
  ASSUME NEW h, OnlySince(h), StartAt < h, NEW d
  PROVE  Closing(d)' = Closing(d)
<1> DEFINE q == d.quote
           L == { p \in book.quotes :
                    p.book = q.book /\ p.side = q.side /\ q.seen < p.seen /\ p.seen <= StartAt }
           p == NewestQuote(L)
<1>0. StartAt \in Nat /\ h \in Nat
  BY QuoteAssumption DEF OnlySince
<1>1. L' = L
  <2>1. book.quotes \subseteq book'.quotes /\ \A x \in book'.quotes \ book.quotes : x.seen >= h
    BY DEF OnlySince, BookExtends
  <2>2. \A x \in book'.quotes : x.seen \in Nat
    BY DEF OnlySince, BookType, QuoteRows
  <2>3. \A x \in book'.quotes \ book.quotes : ~(x.seen <= StartAt)
    BY <1>0, <2>1, <2>2
  <2> QED
    BY <2>1, <2>3
<1>2. L # {} => p \in L
  <2>1. L \subseteq book.quotes /\ book.quotes \subseteq QuoteRows /\ book.news \in Nat
    BY DEF OnlySince, BookType
  <2>2. \A x \in L : x.seen <= StartAt /\ x.id <= book.news
    BY DEF OnlySince, Numbers
  <2>3. \A x, y \in L : x.id = y.id => x = y
    BY DEF OnlySince, Numbers
  <2> HIDE DEF L
  <2> QED
    BY <1>0, <2>1, <2>2, <2>3, NewestExists
<1>3. L # {} => p.seen \in Nat /\ p.seen < h
  <2>1. \A x \in L : x.seen \in Nat /\ x.seen <= StartAt
    BY DEF OnlySince, BookType, QuoteRows
  <2>2. \A x \in L : x.seen \in Nat /\ x.seen < h
    BY <1>0, <2>1
  <2> HIDE DEF L, p
  <2> QED
    BY <1>2, <2>2
<1>4. p' = p
  BY <1>1 DEF NewestQuote, Later
<1> DEFINE F(x) == QuoteEligible(x, d.bout, x.seen)  V(x) == ValueDecision(x, d.bout, x.seen)
<1>5. L # {} => F(p)' = F(p) /\ V(p)' = V(p)
  <2>1. \A x : x.seen \in Nat /\ x.seen < h => F(x)' = F(x) /\ V(x)' = V(x)
    BY VerdictIsFixed
  <2> HIDE DEF L
  <2> QED
    BY <1>3, <1>4, <2>1
<1>6. Closing(d) = ClosingPrice(L, F(p), V(p))
  BY DEF Closing, ClosingPrice
<1>7. Closing(d)' = ClosingPrice(L', F(p)', V(p)')
  BY DEF Closing, ClosingPrice, Usable, Freshness
<1> HIDE DEF L, p, F, V
<1>8. CASE L # {}
  BY <1>1, <1>5, <1>6, <1>7, <1>8
<1>9. CASE L = {}
  BY <1>1, <1>6, <1>7, <1>9 DEF ClosingPrice
<1> QED
  BY <1>8, <1>9

LEMMA PricedIsFixed ==
  ASSUME NEW h, OnlySince(h), StartAt < h
  PROVE  Priced' = Priced
<1>0. StartAt \in Nat /\ CutoffAt \in Nat /\ CutoffAt <= StartAt /\ h \in Nat
  BY QuoteAssumption DEF OnlySince
<1>1. ASSUME NEW b \in MatchBouts, NEW side \in Sides
      PROVE  Metrics(b, side)' = Metrics(b, side)
  <2> DEFINE o == Opening(b, side, CutoffAt)
  <2>1. o' = o
    BY <1>0, OpeningIsFixed
  <2> DEFINE C(x) == Closing(x)  c == C(o)
  <2>2. C(o)' = c
    <3>1. \A x : C(x)' = C(x)
      BY ClosingIsFixed
    <3> HIDE DEF o
    <3> QED
      BY <2>1, <3>1
  <2> QED
    BY <2>1, <2>2 DEF Metrics, PairHolds
<1>2. ASSUME NEW b \in MatchBouts, NEW side \in Sides
      PROVE  ManualMetrics(b, side)' = ManualMetrics(b, side)
  <2> DEFINE In(w) == /\ w.side = side /\ w.boundTo = b /\ w.seen <= CutoffAt
                      /\ w.boundAt # None /\ w.seen <= w.boundAt /\ w.boundAt <= CutoffAt
  <2>1. b # None
    BY MatchingAssumption
  <2>2. \A w \in book'.manual \ book.manual : ~In(w)
    <3> SUFFICES ASSUME NEW w \in book'.manual \ book.manual, In(w) PROVE FALSE
      OBVIOUS
    <3>1. w.boundAt >= h
      BY <2>1 DEF OnlySince, BookExtends
    <3>2. w.boundAt \in Nat
      BY DEF OnlySince, BookType, ManualRows
    <3> QED
      BY <1>0, <3>1, <3>2
  <2>3. \A w \in book.manual \ book'.manual : ~In(w)
    BY <2>1 DEF OnlySince, BookExtends
  <2>4. { w \in book'.manual : In(w) } = { w \in book.manual : In(w) }
    BY <2>2, <2>3
  <2>5. /\ ManualMetrics(b, side) = { m.price : m \in { w \in book.manual : In(w) } }
        /\ ManualMetrics(b, side)' = { m.price : m \in { w \in book'.manual : In(w) } }
    BY DEF ManualMetrics
  <2> QED
    BY <2>4, <2>5
<1> QED
  BY <1>1, <1>2 DEF Priced
-----------------------------------------------------------------------------
(* The invariant: what there is is of its type, the polls have numbered    *)
(* it, and a report is about a card that has started.                      *)
QuoteInv ==
  /\ stamp \in Nat /\ odds \in OddsRows /\ BookType(book) /\ Numbers(book)
  /\ book.report # None => stamp > StartAt /\ Priced = book.report

(* What a step records is of now.                                          *)
Records ==
  /\ stamp' = stamp /\ odds' \in OddsRows /\ LaterRows(odds, odds', stamp)
  /\ BookType(book') /\ Numbers(book') /\ BookExtends(book, book', stamp)

LEMMA RecordsKeep ==
  ASSUME QuoteInv, Records
  PROVE  /\ book'.report = book.report => QuoteInv'
         /\ stamp > StartAt => Priced' = Priced
<1>1. OnlySince(stamp)
  BY DEF QuoteInv, Records, OnlySince
<1>2. stamp > StartAt => Priced' = Priced
  BY <1>1, PricedIsFixed, QuoteAssumption DEF QuoteInv
<1> QED
  BY <1>2 DEF QuoteInv, Records

LEMMA SameOdds ==
  ASSUME QuoteInv, odds' = odds
  PROVE  odds' \in OddsRows /\ LaterRows(odds, odds', stamp)
BY WritesNothing DEF QuoteInv, Writes

(* What each step writes, on what it leaves alone.                         *)
BookOf(q, u, s, m, k, r) ==
  [quotes |-> q, unknown |-> u, scoped |-> s, manual |-> m, news |-> k, report |-> r]

PolledBook(b, n, T) == [b EXCEPT !.news = n, !.quotes = T]
MissedBook(b, n, T) == [b EXCEPT !.news = n, !.unknown = T]
SignalBook(b, n, T) == [b EXCEPT !.news = n, !.scoped = T]
PriceBook(b, n, T) == [b EXCEPT !.news = n, !.manual = T]

LEMMA BookFields ==
  ASSUME NEW q, NEW u, NEW s, NEW m, NEW k, NEW r
  PROVE  LET c == BookOf(q, u, s, m, k, r) IN
         /\ c.quotes = q /\ c.unknown = u /\ c.scoped = s /\ c.manual = m /\ c.news = k
         /\ c.report = r
         /\ q \subseteq QuoteRows /\ u \subseteq UnknownRows /\ s \in Seq(ScopedRows)
              /\ m \subseteq ManualRows /\ k \in Nat => BookType(c)
BY DEF BookType, BookOf

LEMMA BookIs ==
  ASSUME NEW b, BookType(b)
  PROVE  b = BookOf(b.quotes, b.unknown, b.scoped, b.manual, b.news, b.report)
BY DEF BookType, BookOf

LEMMA PollFields ==
  ASSUME NEW b, BookType(b), NEW n \in Nat, NEW T
  PROVE  LET c == PolledBook(b, n, T) IN
         /\ c.quotes = T /\ c.unknown = b.unknown /\ c.scoped = b.scoped
         /\ c.manual = b.manual /\ c.news = n /\ c.report = b.report
         /\ T \subseteq QuoteRows => BookType(c)
<1> DEFINE Q == b.quotes  U == b.unknown  S == b.scoped  M == b.manual  N == b.news  R == b.report
           c == PolledBook(b, n, T)
<1>1. b = BookOf(Q, U, S, M, N, R)
  BY BookIs
<1>2. Q \subseteq QuoteRows /\ U \subseteq UnknownRows /\ S \in Seq(ScopedRows)
      /\ M \subseteq ManualRows /\ N \in Nat
  BY DEF BookType
<1> HIDE DEF Q, U, S, M, N, R
<1>3. c = BookOf(T, U, S, M, n, R)
  <2> DEFINE x == [b EXCEPT !.news = n]
  <2>1. x = BookOf(Q, U, S, M, n, R)
    BY <1>1 DEF BookOf
  <2>2. c = [x EXCEPT !.quotes = T]
    BY DEF PolledBook
  <2> HIDE DEF x
  <2>3. [x EXCEPT !.quotes = T] = BookOf(T, U, S, M, n, R)
    BY <2>1 DEF BookOf
  <2> QED
    BY <2>2, <2>3
<1> HIDE DEF c
<1> QED
  BY <1>2, <1>3, BookFields DEF c, Q, U, S, M, N, R

LEMMA MissingFields ==
  ASSUME NEW b, BookType(b), NEW n \in Nat, NEW T
  PROVE  LET c == MissedBook(b, n, T) IN
         /\ c.quotes = b.quotes /\ c.unknown = T /\ c.scoped = b.scoped
         /\ c.manual = b.manual /\ c.news = n /\ c.report = b.report
         /\ T \subseteq UnknownRows => BookType(c)
<1> DEFINE Q == b.quotes  U == b.unknown  S == b.scoped  M == b.manual  N == b.news  R == b.report
           c == MissedBook(b, n, T)
<1>1. b = BookOf(Q, U, S, M, N, R)
  BY BookIs
<1>2. Q \subseteq QuoteRows /\ U \subseteq UnknownRows /\ S \in Seq(ScopedRows)
      /\ M \subseteq ManualRows /\ N \in Nat
  BY DEF BookType
<1> HIDE DEF Q, U, S, M, N, R
<1>3. c = BookOf(Q, T, S, M, n, R)
  <2> DEFINE x == [b EXCEPT !.news = n]
  <2>1. x = BookOf(Q, U, S, M, n, R)
    BY <1>1 DEF BookOf
  <2>2. c = [x EXCEPT !.unknown = T]
    BY DEF MissedBook
  <2> HIDE DEF x
  <2>3. [x EXCEPT !.unknown = T] = BookOf(Q, T, S, M, n, R)
    BY <2>1 DEF BookOf
  <2> QED
    BY <2>2, <2>3
<1> HIDE DEF c
<1> QED
  BY <1>2, <1>3, BookFields DEF c, Q, U, S, M, N, R

LEMMA SignalFields ==
  ASSUME NEW b, BookType(b), NEW n \in Nat, NEW T
  PROVE  LET c == SignalBook(b, n, T) IN
         /\ c.quotes = b.quotes /\ c.unknown = b.unknown /\ c.scoped = T
         /\ c.manual = b.manual /\ c.news = n /\ c.report = b.report
         /\ T \in Seq(ScopedRows) => BookType(c)
<1> DEFINE Q == b.quotes  U == b.unknown  S == b.scoped  M == b.manual  N == b.news  R == b.report
           c == SignalBook(b, n, T)
<1>1. b = BookOf(Q, U, S, M, N, R)
  BY BookIs
<1>2. Q \subseteq QuoteRows /\ U \subseteq UnknownRows /\ S \in Seq(ScopedRows)
      /\ M \subseteq ManualRows /\ N \in Nat
  BY DEF BookType
<1> HIDE DEF Q, U, S, M, N, R
<1>3. c = BookOf(Q, U, T, M, n, R)
  <2> DEFINE x == [b EXCEPT !.news = n]
  <2>1. x = BookOf(Q, U, S, M, n, R)
    BY <1>1 DEF BookOf
  <2>2. c = [x EXCEPT !.scoped = T]
    BY DEF SignalBook
  <2> HIDE DEF x
  <2>3. [x EXCEPT !.scoped = T] = BookOf(Q, U, T, M, n, R)
    BY <2>1 DEF BookOf
  <2> QED
    BY <2>2, <2>3
<1> HIDE DEF c
<1> QED
  BY <1>2, <1>3, BookFields DEF c, Q, U, S, M, N, R

LEMMA PriceFields ==
  ASSUME NEW b, BookType(b), NEW n \in Nat, NEW T
  PROVE  LET c == PriceBook(b, n, T) IN
         /\ c.quotes = b.quotes /\ c.unknown = b.unknown /\ c.scoped = b.scoped
         /\ c.manual = T /\ c.news = n /\ c.report = b.report
         /\ T \subseteq ManualRows => BookType(c)
<1> DEFINE Q == b.quotes  U == b.unknown  S == b.scoped  M == b.manual  N == b.news  R == b.report
           c == PriceBook(b, n, T)
<1>1. b = BookOf(Q, U, S, M, N, R)
  BY BookIs
<1>2. Q \subseteq QuoteRows /\ U \subseteq UnknownRows /\ S \in Seq(ScopedRows)
      /\ M \subseteq ManualRows /\ N \in Nat
  BY DEF BookType
<1> HIDE DEF Q, U, S, M, N, R
<1>3. c = BookOf(Q, U, S, T, n, R)
  <2> DEFINE x == [b EXCEPT !.news = n]
  <2>1. x = BookOf(Q, U, S, M, n, R)
    BY <1>1 DEF BookOf
  <2>2. c = [x EXCEPT !.manual = T]
    BY DEF PriceBook
  <2> HIDE DEF x
  <2>3. [x EXCEPT !.manual = T] = BookOf(Q, U, S, T, n, R)
    BY <2>1 DEF BookOf
  <2> QED
    BY <2>2, <2>3
<1> HIDE DEF c
<1> QED
  BY <1>2, <1>3, BookFields DEF c, Q, U, S, M, N, R

LEMMA BindingFields ==
  ASSUME NEW b, BookType(b), NEW T
  PROVE  LET c == [b EXCEPT !.manual = T] IN
         /\ c.quotes = b.quotes /\ c.unknown = b.unknown /\ c.scoped = b.scoped
         /\ c.manual = T /\ c.news = b.news /\ c.report = b.report
         /\ T \subseteq ManualRows => BookType(c)
<1> DEFINE Q == b.quotes  U == b.unknown  S == b.scoped  M == b.manual  N == b.news  R == b.report
           c == [b EXCEPT !.manual = T]
<1>1. b = BookOf(Q, U, S, M, N, R)
  BY BookIs
<1>2. Q \subseteq QuoteRows /\ U \subseteq UnknownRows /\ S \in Seq(ScopedRows)
      /\ M \subseteq ManualRows /\ N \in Nat
  BY DEF BookType
<1> HIDE DEF Q, U, S, M, N, R
<1>3. c = BookOf(Q, U, S, T, N, R)
  BY <1>1 DEF BookOf
<1> HIDE DEF c
<1> QED
  BY <1>2, <1>3, BookFields DEF c, Q, U, S, M, N, R

LEMMA ReportFields ==
  ASSUME NEW b, BookType(b), NEW T
  PROVE  LET c == [b EXCEPT !.report = T] IN
         /\ c.quotes = b.quotes /\ c.unknown = b.unknown /\ c.scoped = b.scoped
         /\ c.manual = b.manual /\ c.news = b.news /\ c.report = T
         /\ BookType(c)
<1> DEFINE Q == b.quotes  U == b.unknown  S == b.scoped  M == b.manual  N == b.news  R == b.report
           c == [b EXCEPT !.report = T]
<1>1. b = BookOf(Q, U, S, M, N, R)
  BY BookIs
<1>2. Q \subseteq QuoteRows /\ U \subseteq UnknownRows /\ S \in Seq(ScopedRows)
      /\ M \subseteq ManualRows /\ N \in Nat
  BY DEF BookType
<1> HIDE DEF Q, U, S, M, N, R
<1>3. c = BookOf(Q, U, S, M, N, T)
  BY <1>1 DEF BookOf
<1> HIDE DEF c
<1> QED
  BY <1>2, <1>3, BookFields DEF c, Q, U, S, M, N, R

(* With nothing but one kind of row added, the others extend themselves.   *)
LEMMA ScopedSame ==
  ASSUME NEW b, BookType(b), NEW h \in Nat
  PROVE  Appended(b.scoped, b.scoped, h)
<1> DEFINE s == b.scoped
<1>1. s \in Seq(ScopedRows)
  BY DEF BookType
<1> HIDE DEF s
<1>2. Appended(s, s, h)
  BY <1>1 DEF Appended
<1> QED
  BY <1>2 DEF s

(* QuoteNext, one lemma for each of its steps.                             *)
LEMMA PollQuotesStep ==
  ASSUME QuoteInv, NEW k \in Books, PollQuotes(k)
  PROVE  QuoteInv'
<1>1. /\ BookType(book) /\ Numbers(book) /\ stamp \in Nat /\ odds \in OddsRows /\ book.news \in Nat
  BY DEF QuoteInv, BookType
<1>2. PICK price \in Prices, source \in {None} \cup {stamp + s : s \in Skews} :
        /\ book' = [book EXCEPT !.news = @ + 1, !.quotes = @ \cup NewQuotes(k, price, source)]
        /\ odds' = [odds EXCEPT !.quotes = @ \cup {q.seen : q \in NewQuotes(k, price, source)}]
  BY DEF PollQuotes
<1> DEFINE N == NewQuotes(k, price, source)  T == book.quotes \cup N  n == book.news + 1
           U == odds.quotes \cup {q.seen : q \in N}
<1>3. source \in Int \cup {None}
  BY <1>1, QuoteAssumption
<1>4. /\ N \subseteq QuoteRows /\ \A q \in N : q.id = n /\ q.seen = stamp
      /\ \A p, q \in N : p.side = q.side => p = q
  BY <1>1, <1>3 DEF NewQuotes, QuoteRows
<1>5. book' = PolledBook(book, n, T) /\ odds' = [odds EXCEPT !.quotes = U]
  BY <1>2 DEF PolledBook
<1>6. n \in Nat /\ n = book.news + 1 /\ T = book.quotes \cup N /\ U \in SUBSET Nat
      /\ odds.quotes \subseteq U
  BY <1>1, <1>4 DEF OddsRows
<1> HIDE DEF N, n, T, U
<1>7. /\ book'.quotes = T /\ book'.news = n /\ book'.unknown = book.unknown
      /\ book'.scoped = book.scoped /\ book'.manual = book.manual /\ book'.report = book.report
      /\ T \subseteq QuoteRows => BookType(book')
  BY <1>1, <1>5, <1>6, PollFields
<1>8. BookType(book')
  BY <1>1, <1>4, <1>6, <1>7 DEF BookType
<1>9. Numbers(book')
  <2>1. \A q \in book.quotes : q.id \in Nat /\ q.id <= book.news
    BY <1>1 DEF Numbers, BookType, QuoteRows
  <2>2. \A q \in book.quotes : q.id <= n /\ q.id # n
    BY <1>1, <1>6, <2>1
  <2>3. \A q \in T : q.id <= n
    BY <1>4, <1>6, <2>2
  <2>4. \A p, q \in T : p.id = q.id /\ p.side = q.side => p = q
    BY <1>1, <1>4, <1>6, <2>2 DEF Numbers
  <2> QED
    BY <1>7, <2>3, <2>4 DEF Numbers
<1>10. BookExtends(book, book', stamp)
  <2>1. Appended(book.scoped, book'.scoped, stamp)
    BY <1>1, <1>7, ScopedSame
  <2>2. \A q \in N : q.seen >= stamp
    BY <1>1, <1>4
  <2> QED
    BY <1>6, <1>7, <2>1, <2>2 DEF BookExtends
<1>11. odds' \in OddsRows /\ LaterRows(odds, odds', stamp)
  <2>1. /\ odds' \in OddsRows /\ odds'.quotes = U /\ odds'.aliases = odds.aliases
        /\ odds'.matches = odds.matches /\ odds'.life = odds.life
    BY <1>1, <1>5, <1>6, OtherQuotes
  <2>2. LaterRows(odds, odds, stamp)
    BY <1>1, WritesNothing DEF Writes
  <2> QED
    BY <1>6, <2>1, <2>2 DEF LaterRows
<1>12. stamp' = stamp
  BY DEF PollQuotes, NoMatching
<1> QED
  BY <1>7, <1>8, <1>9, <1>10, <1>11, <1>12, RecordsKeep DEF Records

LEMMA PollMissingStep ==
  ASSUME QuoteInv, NEW k \in Books, PollMissing(k)
  PROVE  QuoteInv'
<1> DEFINE n == book.news + 1  N == {[book |-> k, seen |-> stamp]}  T == book.unknown \cup N
<1>1. /\ BookType(book) /\ Numbers(book) /\ stamp \in Nat /\ book.news \in Nat
      /\ book.unknown \subseteq UnknownRows
  BY DEF QuoteInv, BookType
<1>2. n \in Nat /\ n = book.news + 1 /\ N \subseteq UnknownRows /\ \A u \in N : u.seen >= stamp
  BY <1>1 DEF UnknownRows
<1>3. T = book.unknown \cup N
  OBVIOUS
<1>4. book' = MissedBook(book, n, T) /\ stamp' = stamp /\ odds' = odds
  BY DEF PollMissing, NoMatching, MissedBook
<1> HIDE DEF n, N, T
<1>5. /\ book'.quotes = book.quotes /\ book'.news = n /\ book'.unknown = T
      /\ book'.scoped = book.scoped /\ book'.manual = book.manual /\ book'.report = book.report
      /\ T \subseteq UnknownRows => BookType(book')
  BY <1>1, <1>2, <1>4, MissingFields
<1>6. Numbers(book')
  <2>1. \A q \in book.quotes : q.id \in Nat /\ q.id <= book.news
    BY <1>1 DEF Numbers, BookType, QuoteRows
  <2>2. \A q \in book.quotes : q.id <= n
    BY <1>1, <1>2, <2>1
  <2> QED
    BY <1>1, <1>5, <2>2 DEF Numbers
<1>7. BookExtends(book, book', stamp)
  BY <1>1, <1>2, <1>3, <1>5, ScopedSame DEF BookExtends
<1> QED
  BY <1>1, <1>2, <1>3, <1>4, <1>5, <1>6, <1>7, SameOdds, RecordsKeep DEF Records

LEMMA SignalStep ==
  ASSUME QuoteInv, NEW b \in MatchBouts, NEW k \in Books, NEW side \in Sides \cup {None},
         NEW state \in {"locked", "active"}, NEW why \in {"lock", "unlock", "clear"},
         Signal(b, k, side, state, why)
  PROVE  QuoteInv'
<1> DEFINE n == book.news + 1
           row == [bout |-> b, book |-> k, side |-> side, state |-> state, why |-> why, at |-> stamp]
           T == AddOnce(book.scoped, row)
<1>1. /\ BookType(book) /\ Numbers(book) /\ stamp \in Nat /\ book.news \in Nat
      /\ book.scoped \in Seq(ScopedRows)
  BY DEF QuoteInv, BookType
<1>2. n \in Nat /\ n = book.news + 1 /\ row \in ScopedRows /\ row.at = stamp
  BY <1>1 DEF ScopedRows
<1>3. T \in Seq(ScopedRows) /\ Appended(book.scoped, T, stamp)
  <2> HIDE DEF row
  <2> QED
    BY <1>1, <1>2, AddOnceType
<1>4. book' = SignalBook(book, n, T) /\ stamp' = stamp /\ odds' = odds
  BY DEF Signal, NoMatching, SignalBook
<1> HIDE DEF n, row, T
<1>5. /\ book'.quotes = book.quotes /\ book'.news = n /\ book'.unknown = book.unknown
      /\ book'.scoped = T /\ book'.manual = book.manual /\ book'.report = book.report
      /\ BookType(book')
  <2> DEFINE c == SignalBook(book, n, T)
  <2>1. BookType(book) /\ n \in Nat
    BY <1>1, <1>2
  <2>2. /\ c.quotes = book.quotes /\ c.unknown = book.unknown /\ c.scoped = T
        /\ c.manual = book.manual /\ c.news = n /\ c.report = book.report
        /\ T \in Seq(ScopedRows) => BookType(c)
    BY <2>1, SignalFields
  <2>3. T \in Seq(ScopedRows) /\ book' = c
    BY <1>3, <1>4
  <2> HIDE DEF c
  <2> QED
    BY <2>2, <2>3
<1>6. Numbers(book')
  <2>1. \A q \in book.quotes : q.id \in Nat /\ q.id <= book.news
    BY <1>1 DEF Numbers, BookType, QuoteRows
  <2>2. \A q \in book.quotes : q.id <= n
    BY <1>1, <1>2, <2>1
  <2> QED
    BY <1>1, <1>5, <2>2 DEF Numbers
<1>7. BookExtends(book, book', stamp)
  BY <1>3, <1>5 DEF BookExtends
<1> QED
  BY <1>4, <1>5, <1>6, <1>7, SameOdds, RecordsKeep DEF Records

LEMMA EnterPriceStep ==
  ASSUME QuoteInv, NEW side \in Sides, NEW price \in Prices, EnterPrice(side, price)
  PROVE  QuoteInv'
<1> DEFINE n == book.news + 1
           N == {[side |-> side, price |-> price, seen |-> stamp, boundTo |-> None, boundAt |-> None]}
           T == book.manual \cup N
<1>1. /\ BookType(book) /\ Numbers(book) /\ stamp \in Nat /\ book.news \in Nat
      /\ book.manual \subseteq ManualRows
  BY DEF QuoteInv, BookType
<1>2. n \in Nat /\ n = book.news + 1 /\ N \subseteq ManualRows /\ \A m \in N : m.boundTo = None
  BY <1>1 DEF ManualRows
<1>3. T = book.manual \cup N
  OBVIOUS
<1>4. book' = PriceBook(book, n, T) /\ stamp' = stamp /\ odds' = odds
  BY DEF EnterPrice, NoMatching, PriceBook
<1> HIDE DEF n, N, T
<1>5. /\ book'.quotes = book.quotes /\ book'.news = n /\ book'.unknown = book.unknown
      /\ book'.scoped = book.scoped /\ book'.manual = T /\ book'.report = book.report
      /\ T \subseteq ManualRows => BookType(book')
  BY <1>1, <1>2, <1>4, PriceFields
<1>6. Numbers(book')
  <2>1. \A q \in book.quotes : q.id \in Nat /\ q.id <= book.news
    BY <1>1 DEF Numbers, BookType, QuoteRows
  <2>2. \A q \in book.quotes : q.id <= n
    BY <1>1, <1>2, <2>1
  <2> QED
    BY <1>1, <1>5, <2>2 DEF Numbers
<1>7. BookExtends(book, book', stamp)
  BY <1>1, <1>2, <1>3, <1>5, ScopedSame DEF BookExtends
<1> QED
  BY <1>1, <1>2, <1>3, <1>4, <1>5, <1>6, <1>7, SameOdds, RecordsKeep DEF Records

LEMMA BindPriceStep ==
  ASSUME QuoteInv, NEW b \in MatchBouts, BindPrice(b)
  PROVE  QuoteInv'
<1>1. /\ BookType(book) /\ Numbers(book) /\ stamp \in Nat /\ book.news \in Nat
      /\ book.manual \subseteq ManualRows
  BY DEF QuoteInv, BookType
<1>2. PICK m \in { w \in book.manual : w.boundTo = None } :
        book' = [book EXCEPT !.manual = (@ \ {m}) \cup {[m EXCEPT !.boundTo = b, !.boundAt = stamp]}]
  BY DEF BindPrice
<1> DEFINE w == [m EXCEPT !.boundTo = b, !.boundAt = stamp]  T == (book.manual \ {m}) \cup {w}
<1>3. w \in ManualRows /\ w.boundAt = stamp
  BY <1>1 DEF ManualRows
<1>4. book' = [book EXCEPT !.manual = T] /\ stamp' = stamp /\ odds' = odds
  BY <1>2 DEF BindPrice, NoMatching
<1> HIDE DEF w
<1>5. /\ T \subseteq ManualRows /\ \A x \in T \ book.manual : x = w
      /\ \A x \in book.manual \ T : x = m
  BY <1>1, <1>3
<1> HIDE DEF T
<1>6. /\ book'.quotes = book.quotes /\ book'.news = book.news /\ book'.unknown = book.unknown
      /\ book'.scoped = book.scoped /\ book'.manual = T /\ book'.report = book.report
      /\ BookType(book')
  BY <1>1, <1>4, <1>5, BindingFields
<1>7. Numbers(book')
  BY <1>1, <1>6 DEF Numbers
<1>8. BookExtends(book, book', stamp)
  <2>1. \A x \in T \ book.manual : x.boundAt >= stamp
    BY <1>1, <1>3, <1>5
  <2>2. m.boundTo = None
    OBVIOUS
  <2> QED
    BY <1>1, <1>5, <1>6, <2>1, <2>2, ScopedSame DEF BookExtends
<1> QED
  BY <1>4, <1>6, <1>7, <1>8, SameOdds, RecordsKeep DEF Records

LEMMA ReconcileStep ==
  ASSUME QuoteInv, Reconcile
  PROVE  QuoteInv'
<1>1. BookType(book) /\ Numbers(book) /\ stamp \in Nat /\ odds \in OddsRows
  BY DEF QuoteInv
<1>2. PICK fit \in SUBSET MatchBouts :
        LET dec == MatchEvent(odds, fit, TRUE, stamp) IN
        odds' = Written(Persist(Enqueued(odds, dec), dec, stamp))
  BY DEF Reconcile
<1> DEFINE dec == MatchEvent(odds, fit, TRUE, stamp)  d == Persist(Enqueued(odds, dec), dec, stamp)
<1>3. /\ dec \in Decisions
      /\ dec.status = "matched" /\ dec.life \notin Terminal => ~IsTerminal(odds, dec.bout, stamp)
  BY <1>1, MatchEventType
<1>4. odds' = Written(d)
  BY <1>2
<1>5. Writes(odds, d, stamp)
  <2> HIDE DEF dec
  <2> QED
    BY <1>1, <1>3, DecisionWrites
<1> HIDE DEF d, dec
<1>6. odds' \in OddsRows /\ LaterRows(odds, odds', stamp)
  BY <1>1, <1>4, <1>5, CommitStep DEF Commits
<1>7. book' = book /\ stamp' = stamp
  BY DEF Reconcile, NoMatching
<1>8. BookExtends(book, book, stamp)
  BY <1>1, ScopedSame DEF BookExtends
<1> QED
  BY <1>1, <1>6, <1>7, <1>8, RecordsKeep DEF Records

LEMMA BacktestStep ==
  ASSUME QuoteInv, Backtest
  PROVE  QuoteInv'
<1>1. BookType(book) /\ Numbers(book) /\ stamp \in Nat /\ book.news \in Nat
  BY DEF QuoteInv, BookType
<1> DEFINE T == Priced
<1>2. stamp > StartAt /\ book' = [book EXCEPT !.report = T] /\ stamp' = stamp /\ odds' = odds
  BY DEF Backtest, NoMatching
<1> HIDE DEF T
<1>3. /\ book'.quotes = book.quotes /\ book'.news = book.news /\ book'.unknown = book.unknown
      /\ book'.scoped = book.scoped /\ book'.manual = book.manual /\ book'.report = T
      /\ BookType(book')
  BY <1>1, <1>2, ReportFields
<1>4. Numbers(book')
  BY <1>1, <1>3 DEF Numbers
<1>5. BookExtends(book, book', stamp)
  BY <1>1, <1>3, ScopedSame DEF BookExtends
<1>6. Priced' = T
  BY <1>2, <1>3, <1>4, <1>5, SameOdds, RecordsKeep DEF Records, T
<1> QED
  BY <1>1, <1>2, <1>3, <1>4, <1>6, SameOdds DEF QuoteInv

LEMMA ClockTicksStep ==
  ASSUME QuoteInv, ClockTicks
  PROVE  QuoteInv'
<1>1. /\ stamp \in Nat /\ stamp' = stamp + 1 /\ odds' = odds /\ book' = book
      /\ StartAt \in Nat
  BY QuoteAssumption DEF QuoteInv, ClockTicks
<1>2. BookExtends(book, book, stamp) /\ Numbers(book) /\ BookType(book)
  BY <1>1, ScopedSame DEF BookExtends, QuoteInv
<1>3. OnlySince(stamp)
  BY <1>1, <1>2, SameOdds DEF OnlySince, QuoteInv
<1>4. stamp > StartAt => Priced' = Priced
  BY <1>1, <1>3, PricedIsFixed
<1>5. stamp > StartAt => stamp' > StartAt
  BY <1>1
<1> QED
  BY <1>1, <1>2, <1>4, <1>5, SameOdds DEF QuoteInv
-----------------------------------------------------------------------------
LEMMA QuotesInitially ==
  ASSUME QuoteInit
  PROVE  QuoteInv
<1>1. odds \in OddsRows /\ stamp \in Nat
  <2>1. MatchingInv
    BY MatchingInitially DEF QuoteInit
  <2> QED
    BY <2>1 DEF MatchingInv, MatchingTypeOK
<1>2. BookType(book) /\ Numbers(book) /\ book.report = None
  BY DEF QuoteInit, BookType, Numbers
<1> QED
  BY <1>1, <1>2 DEF QuoteInv

LEMMA QuotesAlways ==
  ASSUME QuoteInv, [QuoteNext]_quoteVars
  PROVE  QuoteInv'
<1>1. CASE ClockTicks
  BY <1>1, ClockTicksStep
<1>2. CASE Reconcile
  BY <1>2, ReconcileStep
<1>3. CASE Backtest
  BY <1>3, BacktestStep
<1>4. ASSUME NEW k \in Books, PollQuotes(k) \/ PollMissing(k)
      PROVE  QuoteInv'
  BY <1>4, PollQuotesStep, PollMissingStep
<1>5. ASSUME NEW b \in MatchBouts, NEW k \in Books, NEW side \in Sides \cup {None},
             \/ Signal(b, k, side, "locked", "lock") \/ Signal(b, k, side, "active", "unlock")
             \/ Signal(b, k, side, "active", "clear")
      PROVE  QuoteInv'
  BY <1>5, SignalStep
<1>6. ASSUME NEW side \in Sides, NEW price \in Prices, EnterPrice(side, price)
      PROVE  QuoteInv'
  BY <1>6, EnterPriceStep
<1>7. ASSUME NEW b \in MatchBouts, BindPrice(b)
      PROVE  QuoteInv'
  BY <1>7, BindPriceStep
<1>8. CASE UNCHANGED quoteVars
  <2>1. stamp' = stamp /\ odds' = odds /\ book' = book
    BY <1>8 DEF quoteVars
  <2>2. BookExtends(book, book, stamp)
    BY ScopedSame DEF BookExtends, QuoteInv
  <2> QED
    BY <2>1, <2>2, SameOdds, RecordsKeep DEF Records, QuoteInv
<1> QED
  BY <1>1, <1>2, <1>3, <1>4, <1>5, <1>6, <1>7, <1>8 DEF QuoteNext

(* What is stored of quotes is of its type and numbered, and what the first*)
(* backtest reported is still what the rows say (odds/store.py).           *)
THEOREM QuoteInvariant == QuoteSpec => []QuoteInv
<1>1. QuoteInit => QuoteInv
  BY QuotesInitially
<1>2. QuoteInv /\ [QuoteNext]_quoteVars => QuoteInv'
  BY QuotesAlways
<1> QED
  BY <1>1, <1>2, PTL DEF QuoteSpec

(* A backtest that is repeated finds what the first one found: whatever a  *)
(* poll, a reconcile, a lock or a user adds after the card has started, it *)
(* is later than every time that the valuation reads (backtest/quotes.py,  *)
(* priced.py).                                                             *)
THEOREM PricesAreReproduced == QuoteSpec => []PricesReproduce
<1>1. QuoteInv => PricesReproduce
  BY DEF QuoteInv, PricesReproduce
<1> QED
  BY <1>1, QuoteInvariant, PTL
=============================================================================
