------------------------- MODULE IdentityResolution -------------------------
(***************************************************************************)
(* Who is who: the discover job creates the fighters and bouts of upcoming *)
(* cards from UFCStats or, when that lists none, from ESPN; the resolver   *)
(* (identity/resolver.py) links the ids of other sources to them, creates  *)
(* fighters of its own, or queues what it cannot tell.  Reports are true:  *)
(* each is about a person, whose name may be spelled in several ways, and  *)
(* two persons may share a spelling.                                       *)
(***************************************************************************)
EXTENDS Naturals, Sequences, FiniteSets, SequencesExt, Nothing

CONSTANTS Spellings, BornOn, PersonOf, Listings, Reports, Seeds, MaxFighters

Persons == DOMAIN Spellings
SourceIds == DOMAIN PersonOf

(* What sources say about a person is true; nobody shares a spelling and a *)
(* birth date, nor has a namesake who fights on the same day an opponent   *)
(* of the same spelling; and a fight's id stays with its two persons.      *)
SpelledRight(x) == x.id \in SourceIds /\ x.name \in Spellings[PersonOf[x.id]]

Truthful(x) ==
  /\ SpelledRight(x)
  /\ x.dob \in {None, BornOn[PersonOf[x.id]]}
  /\ x.wiki # None => x.wiki \in SourceIds /\ PersonOf[x.wiki] = PersonOf[x.id]

FightsOnThatDay(r, fight) ==
  \E card, later \in Listings :
    fight \in card.fights /\ later.event = card.event /\ later.date = r.date

MayBe(name, corner) == name \in Spellings[PersonOf[corner.id]]

AllFights == UNION {c.fights : c \in Listings}

ASSUME TruthAssumption ==
  /\ None \notin SourceIds \cup Nat /\ PersonOf \in [SourceIds -> Persons] /\ MaxFighters \in Nat
  /\ \A x \in Seeds \cup Reports : Truthful(x)
  /\ \A card \in Listings : IsFiniteSet(card.fights)
  /\ \A fight \in AllFights : SpelledRight(fight.a) /\ SpelledRight(fight.b)
  /\ \A p, q \in Persons : Spellings[p] \cap Spellings[q] # {} /\ BornOn[p] = BornOn[q] => p = q
  /\ \A r \in Reports, fight \in AllFights : FightsOnThatDay(r, fight) =>
       /\ MayBe(r.name, fight.a) /\ MayBe(r.opponent, fight.b) => PersonOf[fight.a.id] = PersonOf[r.id]
       /\ MayBe(r.name, fight.b) /\ MayBe(r.opponent, fight.a) => PersonOf[fight.b.id] = PersonOf[r.id]
  /\ \A f, g \in AllFights : f.fight = g.fight =>
       PersonOf[f.a.id] = PersonOf[g.a.id] /\ PersonOf[f.b.id] = PersonOf[g.b.id]

VARIABLES fighters,   \* canonical_fighters: the spelling, the birth date on record, the person
          known,      \* fighter_source_ids: the fighter of each source's id
          events,     \* canonical_events, by the source's event id: the date
          bouts,      \* canonical_bouts, by the source's fight id: event and fighters
          queued,     \* identity_review_queue: ids with a pending review
          blocked     \* identity_scoring_blocks: bouts

identityVars == <<fighters, known, events, bouts, queued, blocked>>

FighterIds == DOMAIN fighters

Known(id) == known[id]

(* _fighters_by_normalized_name                                            *)
Named(name) == {f \in FighterIds : fighters[f].name = name}

(* Mutant: whoever fights under that name on that day.                     *)
AnyOpponent(r) ==
  UNION {{f \in {bouts[b].a, bouts[b].b} :
            /\ r.opponent # None /\ r.date # None
            /\ events[bouts[b].event] = r.date /\ fighters[f].name = r.name}
         : b \in {b \in DOMAIN bouts : bouts[b] # None}}

(* Fighters of that name whose opponent on that day has the opponent's.    *)
ContextMatches(r) ==
  UNION {{f \in {bouts[b].a, bouts[b].b} :
            /\ r.opponent # None /\ r.date # None
            /\ events[bouts[b].event] = r.date /\ fighters[f].name = r.name
            /\ \E g \in {bouts[b].a, bouts[b].b} \ {f} : fighters[g].name = r.opponent}
         : b \in {b \in DOMAIN bouts : bouts[b] # None}}

-----------------------------------------------------------------------------
(* The resolver's rules, in their order: a fighter to link, candidates for *)
(* the review queue, or a new fighter.                                     *)
Link(f) == [is |-> "linked", to |-> {f}]
Queue(candidates) == [is |-> "queued", to |-> candidates]
Create == [is |-> "created", to |-> {}]
Undecided == [is |-> "undecided", to |-> {}]

Only(set) == CHOOSE x \in set : TRUE

ByExactId(r) ==
  IF Known(r.id) = None THEN Undecided
  ELSE IF fighters[Known(r.id)].name = r.name THEN Link(Known(r.id)) ELSE Queue({Known(r.id)})

SameBirth(r) == {f \in Named(r.name) : fighters[f].dob = r.dob}

ByWikidata(r) ==
  IF r.wiki = None \/ Known(r.wiki) = None THEN Undecided
  ELSE IF r.dob # None /\ Cardinality(SameBirth(r)) = 1 /\ SameBirth(r) # {Known(r.wiki)}
       THEN Queue({Known(r.wiki)} \cup SameBirth(r))
       ELSE Link(Known(r.wiki))

(* A nickname, a reordered or a transliterated name never links.           *)
ByHints(r) == IF r.hinted THEN Queue(Named(r.name)) ELSE Undecided

ByBirth(r) ==
  IF r.dob = None THEN Undecided
  ELSE IF SameBirth(r) # {}
       THEN IF Cardinality(SameBirth(r)) = 1 THEN Link(Only(SameBirth(r))) ELSE Queue(SameBirth(r))
       ELSE IF \E f \in Named(r.name) : fighters[f].dob # None THEN Queue(Named(r.name)) ELSE Undecided

ByContext(r) ==
  LET matches == ContextMatches(r)
  IN IF matches = {} THEN Undecided
     ELSE IF Cardinality(matches) = 1 THEN Link(Only(matches)) ELSE Queue(matches)

ByName(r) ==
  IF Named(r.name) # {} THEN Queue(Named(r.name))
  ELSE IF r.create THEN Create ELSE Queue({})

Verdict(r) ==
  LET rules == <<ByExactId(r), ByWikidata(r), ByHints(r), ByBirth(r), ByContext(r), ByName(r)>>
      first == CHOOSE i \in DOMAIN rules :
                 rules[i] # Undecided /\ \A j \in 1 .. i - 1 : rules[j] = Undecided
  IN rules[first]

Fighter(person, name, dob) == [person |-> person, name |-> name, dob |-> dob]

-----------------------------------------------------------------------------
IdentityInit ==
  /\ fighters = <<>> /\ known = [i \in SourceIds |-> None]
  /\ events = [e \in {c.event : c \in Listings} |-> None]
  /\ bouts = [b \in {f.fight : f \in UNION {c.fights : c \in Listings}} |-> None]
  /\ queued = {} /\ blocked = {}

(* A fighter of the adjudicated cases: an ESPN id, and perhaps a Wikidata  *)
(* id and a birth date.                                                    *)
SeedFighter(s) ==
  /\ Known(s.id) = None
  /\ Len(fighters) < MaxFighters
  /\ fighters' = Append(fighters, Fighter(PersonOf[s.id], s.name, s.dob))
  /\ known' = [i \in SourceIds |-> IF i \in {s.id, s.wiki} THEN Len(fighters) + 1 ELSE known[i]]
  /\ UNCHANGED <<events, bouts, queued, blocked>>

(* A report about an id: what links adds the id and nothing else, a new    *)
(* fighter also gets the Wikidata id, if it is free, and the birth date.   *)
(* What is queued about an upcoming bout blocks it.                        *)
ResolveReport(r) ==
  LET verdict == Verdict(r)
  IN /\ \/ /\ verdict.is = "linked"
           /\ known' = [known EXCEPT ![r.id] = IF @ = None THEN Only(verdict.to) ELSE @]
           /\ UNCHANGED <<fighters, queued, blocked>>
        \/ /\ verdict.is = "created"
           /\ Len(fighters) < MaxFighters
           /\ fighters' = Append(fighters, Fighter(PersonOf[r.id], r.name, r.dob))
           /\ known' = [i \in SourceIds |->
                IF i = r.id \/ (i = r.wiki /\ known[i] = None) THEN Len(fighters) + 1 ELSE known[i]]
           /\ UNCHANGED <<queued, blocked>>
        \/ /\ verdict.is = "queued"
           /\ queued' = queued \cup {r.id}
           /\ blocked' = IF r.bout = None THEN blocked ELSE blocked \cup {r.bout}
           /\ UNCHANGED <<fighters, known>>
     /\ UNCHANGED <<events, bouts>>

-----------------------------------------------------------------------------
(* The participants of a card that have no fighter yet, one after another. *)
Newcomers(card) ==
  {x \in UNION {{f.a, f.b} : f \in card.fights} : Known(x.id) = None}

(* ESPN's spelling replaces the one on record; UFCStats' does not.         *)
Respelled(card, f) ==
  LET said == {x.name : x \in {x \in UNION {{t.a, t.b} : t \in card.fights} : Known(x.id) = f}}
  IN IF card.source = "espn" /\ said # {} THEN Only(said) ELSE fighters[f].name

(* A fight that is known keeps its fighters, whoever is listed now.        *)
Bout(card, b, ids) ==
  IF bouts[b] # None THEN bouts[b]
  ELSE LET listed == {f \in card.fights : f.fight = b}
       IN IF listed = {} THEN None
          ELSE [event |-> card.event, a |-> ids[Only(listed).a.id], b |-> ids[Only(listed).b.id]]

(* The event is written or refreshed, its new fighters and bouts added.    *)
PersistCard(card) ==
  LET order == SetToSeq(Newcomers(card))
      new == [i \in DOMAIN order |-> Fighter(PersonOf[order[i].id], order[i].name, None)]
  IN /\ Len(fighters) + Len(new) <= MaxFighters
     /\ fighters' = [f \in FighterIds |-> [fighters[f] EXCEPT !.name = Respelled(card, f)]] \o new
     /\ known' = [i \in SourceIds |->
          IF \E n \in DOMAIN order : order[n].id = i
          THEN Len(fighters) + (CHOOSE n \in DOMAIN order : order[n].id = i) ELSE known[i]]
     /\ events' = [events EXCEPT ![card.event] = card.date]
     /\ bouts' = [b \in DOMAIN bouts |-> Bout(card, b, known')]

(* ESPN is asked when UFCStats is out of reach or lists no such card, which*)
(* may be so on any day.                                                   *)
Discover ==
  /\ \E card \in Listings : PersistCard(card)
  /\ UNCHANGED <<queued, blocked>>

(* A fighter of a bout resolves through its own ESPN or UFCStats id, so    *)
(* that only a block can stop a bout.                                      *)
ResolvesItself(f) ==
  \E card \in Listings : \E fight \in card.fights : f \in {Known(fight.a.id), Known(fight.b.id)}

Cleared(b) ==
  /\ bouts[b] # None /\ b \notin blocked
  /\ ResolvesItself(bouts[b].a) /\ ResolvesItself(bouts[b].b)

IdentityNext ==
  \/ \E s \in Seeds : SeedFighter(s)
  \/ \E r \in Reports : ResolveReport(r)
  \/ Discover

IdentitySpec == IdentityInit /\ [][IdentityNext]_identityVars

-----------------------------------------------------------------------------
(* The resolver links without asking: by id, by Wikidata, by name and birth*)
(* date, by name and opponent.  Whatever order reports come in, no id of   *)
(* one person is ever linked to a fighter that was created for another,    *)
(* though both bear one name, and a bout that the identity job clears is   *)
(* between the persons of its card (identity/resolver.py:134-560; the score*)
(* of the adjudicated cases counts such links as same_name_conflations,    *)
(* identity/adjudicated.py:335).                                           *)
NeverConflates ==
  /\ \A i \in SourceIds : Known(i) # None => fighters[Known(i)].person = PersonOf[i]
  /\ \A card \in Listings : \A fight \in card.fights :
       Cleared(fight.fight) => /\ fighters[bouts[fight.fight].a].person = PersonOf[fight.a.id]
                               /\ fighters[bouts[fight.fight].b].person = PersonOf[fight.b.id]
=============================================================================
