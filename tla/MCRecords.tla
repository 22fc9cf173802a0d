------------------------------ MODULE MCRecords -----------------------------
(***************************************************************************)
(* The components that keep append-only records, a run of one of them at a *)
(* time while the others stand still: grades and the model registry share  *)
(* no state with the rest, and the value of quotes is on top of the        *)
(* matching, with its reconciles in one step each.                         *)
(***************************************************************************)
EXTENDS Dashboard, ModelRegistry, QuoteValue, PoliteFetch, IdentityResolution, HostMonitor, TLC

CONSTANTS m0, m1, n1, g1, g2

MCVersions == {<<"event_night", 1>>, <<"current", 1>>}

(* Two artifacts of the champion's specification and one of another.       *)
MCArtifacts == {m0, m1, n1}
MCSpecOf == (m0 :> "ridge") @@ (m1 :> "ridge") @@ (n1 :> "joint")

(* A book's clock is behind the poll's or ahead of it.                     *)
MCSkews == {-1, 1}

(* Bouts are interchangeable, and so are bookmakers and prices.            *)
MCSymmetry == Permutations(CardBouts) \cup Permutations(Books) \cup Permutations(Prices)

(* PoliteFetch: two audits of one card; the host may answer with another   *)
(* fight's page, with a wall, or not.                                      *)
SitePage(of, shape) == [of |-> of, shape |-> shape]
PageAnswer(status, page) == [status |-> status, page |-> page]
MCAnswers ==
  ("list" :> {PageAnswer(200, SitePage("list", "whole")), PageAnswer(301, None)}) @@
  ("event" :> {PageAnswer(200, SitePage("event", "whole")), PageAnswer(200, SitePage("event", "wall")),
               PageAnswer(429, None)}) @@
  ("fight" :> {PageAnswer(200, SitePage("fight", "whole")), PageAnswer(200, SitePage("other", "whole")), PageAnswer(404, None)})
MCRobots ==
  {[status |-> 301, target |-> [url |-> "www", sameHost |-> TRUE]],
   [status |-> 404, groups |-> {}],
   [status |-> 200, groups |-> {[agents |-> {"*"}, rules |-> {[length |-> 1, allow |-> FALSE]}],
                               [agents |-> {"me"}, rules |-> {}]}],
   [status |-> 200, groups |-> {[agents |-> {"*", "x"}, rules |-> {[length |-> 1, allow |-> FALSE]}]}]}
Work(kind, url, cancelled) == [kind |-> kind, url |-> url, cancelled |-> cancelled]
MCTodo == (g1 :> <<Work("probe", "list", FALSE), Work("event", "event", FALSE), Work("bout", "fight", FALSE)>>) @@
          (g2 :> <<Work("probe", "list", FALSE), Work("event", None, TRUE), Work("bout", "fight", FALSE)>>)

(* IdentityResolution: two persons called "al", who fight on the same day. *)
MCSpellings == ("al1" :> {"al", "allan"}) @@ ("al2" :> {"al"}) @@ ("bo" :> {"bo"})
MCBornOn == ("al1" :> 1) @@ ("al2" :> 2) @@ ("bo" :> 3)
MCPersonOf == ("espn1" :> "al1") @@ ("espn2" :> "al2") @@ ("espnB" :> "bo") @@ ("ufc1" :> "al1") @@
              ("ufcB" :> "bo") @@ ("tap1" :> "al1") @@ ("tap2" :> "al2") @@ ("wiki1" :> "al1") @@ ("wiki2" :> "al2")
Corner(id, name) == [id |-> id, name |-> name]
Card(source, fight, a, b) ==
  [source |-> source, event |-> source, date |-> 1, fights |-> {[fight |-> fight, a |-> a, b |-> b]}]
MCListings == {Card("ufcstats", "ufcF", Corner("ufc1", "allan"), Corner("ufcB", "bo")),
               Card("espn", "espnF", Corner("espn1", "al"), Corner("espnB", "bo")),
               Card("espn", "espnF", Corner("espn1", "allan"), Corner("espnB", "bo"))}
Report(id, name) == [id |-> id, name |-> name, wiki |-> None, dob |-> None, opponent |-> None,
                     date |-> None, bout |-> None, hinted |-> FALSE, create |-> TRUE]
MCReports == {Report("tap1", "al"), [Report("tap1", "al") EXCEPT !.wiki = "wiki1"],
              [Report("tap1", "al") EXCEPT !.dob = 1], [Report("tap1", "allan") EXCEPT !.hinted = TRUE],
              [Report("tap1", "al") EXCEPT !.opponent = "bo", !.date = 1, !.bout = "espnF"],
              [Report("espn1", "al") EXCEPT !.create = FALSE, !.bout = "espnF"],
              Report("tap2", "al"), [Report("tap2", "al") EXCEPT !.opponent = "cy", !.date = 1],
              [Report("tap2", "al") EXCEPT !.dob = 2], [Report("tap2", "al") EXCEPT !.dob = 2, !.wiki = "wiki2"]}
MCSeeds == {[id |-> "espn2", name |-> "al", dob |-> 2, wiki |-> None],
            [id |-> "espn2", name |-> "al", dob |-> None, wiki |-> "wiki2"]}

VARIABLE component

recordsVars == <<component, gradeVars, registryVars, quoteVars, fetchVars, identityVars, monitorVars>>

Init ==
  /\ component \in {"grade", "registry", "matching", "value", "fetch", "identity", "monitor"}
  /\ GradeInit /\ RegistryInit /\ QuoteInit /\ FetchInit /\ IdentityInit /\ MonitorInit
  /\ component # "grade" => start = Max(Starts)
  /\ component # "monitor" => host = SoundHost /\ live = None

GradeStep ==
  /\ component = "grade" /\ GradeNext
  /\ UNCHANGED <<component, registryVars, quoteVars, fetchVars, identityVars, monitorVars>>

RegistryStep ==
  /\ component = "registry" /\ RegistryNext
  /\ UNCHANGED <<component, gradeVars, quoteVars, fetchVars, identityVars, monitorVars>>

MatchingStep ==
  /\ component = "matching" /\ MatchingNext
  /\ UNCHANGED <<component, gradeVars, registryVars, book, fetchVars, identityVars, monitorVars>>

ValueStep ==
  /\ component = "value" /\ QuoteNext
  /\ UNCHANGED <<component, gradeVars, registryVars, fetchVars, identityVars, monitorVars>>

FetchStep ==
  /\ component = "fetch" /\ FetchNext
  /\ UNCHANGED <<component, gradeVars, registryVars, quoteVars, identityVars, monitorVars>>

IdentityStep ==
  /\ component = "identity" /\ IdentityNext
  /\ UNCHANGED <<component, gradeVars, registryVars, quoteVars, fetchVars, monitorVars>>

MonitorStep ==
  /\ component = "monitor" /\ MonitorNext
  /\ UNCHANGED <<component, gradeVars, registryVars, quoteVars, fetchVars, identityVars>>

Next == GradeStep \/ RegistryStep \/ MatchingStep \/ ValueStep \/ FetchStep \/ IdentityStep
        \/ MonitorStep

Spec == Init /\ [][Next]_recordsVars
=============================================================================
