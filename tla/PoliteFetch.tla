----------------------------- MODULE PoliteFetch ----------------------------
(***************************************************************************)
(* Processes that audit UFCStats pages through polite HTTP clients which   *)
(* share one cache directory (sources/http, sources/ufcstats_public):      *)
(* robots.txt and one probe page first, then one page for each event and   *)
(* each bout of the manifests.  A page that was answered is stored under   *)
(* its digest, and the index that names it by URL is read, changed and put *)
(* in place through one temporary file whose name all processes share.     *)
(* A digest stands for the page.                                           *)
(***************************************************************************)
EXTENDS Naturals, Sequences, FiniteSets, Nothing

CONSTANTS Fetchers, Todo, Answers, RobotsAnswers, MaxRetries, MaxRobotsRedirects,
          Unreadable

(* Inodes of the index file and its temporary file.                        *)
Inodes == 0 .. Cardinality(Fetchers) + 1
Urls == DOMAIN Answers

(* An answer that is complete brings a page, and an item names a page of   *)
(* the site or none.                                                       *)
ASSUME FetchAssumption ==
  /\ IsFiniteSet(Fetchers) /\ None \notin Nat
  /\ \A u \in Urls : \A answer \in Answers[u] : answer.status = 200 => answer.page # None
  /\ \A c \in Fetchers : Len(Todo[c]) \in Nat /\ \A i \in 1 .. Len(Todo[c]) : Todo[c][i].url \in Urls \cup {None}

VARIABLES index, tmp, data, blobs, served, fetch

fetchVars == <<index, tmp, data, blobs, served, fetch>>

NoEntries == [u \in Urls |-> None]

-----------------------------------------------------------------------------
(* robots.txt.                                                             *)

(* Rules of the groups that name this client, of the wildcard's if none does. *)
RulesFor(groups) ==
  LET own == {g \in groups : "me" \in g.agents}
      shared == {g \in groups : "*" \in g.agents}
  IN UNION {g.rules : g \in IF own # {} THEN own ELSE shared}

(* The longest of the rules that match the path decides, an Allow on ties. *)
AllowedByRules(rules) ==
  rules = {} \/ \E r \in rules : r.allow /\ \A q \in rules : q.length <= r.length

RobotsAllow(answer) ==
  CASE answer.status \in 200 .. 299 -> AllowedByRules(RulesFor(answer.groups))
    [] answer.status \in 400 .. 499 -> answer.status \notin {401, 403}
    [] OTHER -> FALSE

(* A redirect is followed to the host itself, to no URL twice, a few times.*)
RedirectFollowed(target, visited) ==
  /\ Cardinality(visited) <= MaxRobotsRedirects
  /\ target.sameHost
  /\ target.url \notin visited

-----------------------------------------------------------------------------
(* Pages.                                                                  *)

BlockSignal(answer) ==
  \/ answer.status \in {403, 429, 503}
  \/ answer.page # None /\ answer.page.shape = "wall"

(* What the parsers accept: a card whose bouts have ids and two fighters   *)
(* each, or none at all; a fight with two fighters and their totals.       *)
EventParses(page) == page.shape \in {"whole", "empty", "cancelled"}
FightParses(page) == page.shape = "whole"

ClassifyEventPage(item, page) ==
  LET wanted == IF item.cancelled THEN {"whole", "cancelled"} ELSE {"whole"}
  IN IF EventParses(page) /\ page.shape \in wanted THEN "present" ELSE "schema_drift"

ClassifyFightPage(item, page) ==
  IF FightParses(page) /\ page.of = item.url THEN "present" ELSE "schema_drift"

ClassifyPage(item, page) ==
  CASE item.kind = "event" -> ClassifyEventPage(item, page)
    [] item.kind = "bout" -> ClassifyFightPage(item, page)
    [] OTHER -> "probed"

(* What a read of the index file finds: an unreadable one is an empty one. *)
LoadIndex == IF index = None \/ data[index] = Unreadable THEN NoEntries ELSE data[index]

ReadUrlCache(url) == LET page == LoadIndex[url] IN IF page \in blobs THEN page ELSE None

-----------------------------------------------------------------------------
FetchInit ==
  /\ index = None /\ tmp = None /\ data = [i \in Inodes |-> Unreadable]
  /\ blobs = {} /\ served = {}
  /\ fetch = [c \in Fetchers |->
       [pc |-> "idle", visited |-> {}, at |-> 1, attempt |-> 0, page |-> None,
        copy |-> NoEntries, handle |-> None, blocked |-> FALSE, rows |-> <<>>]]

cacheVars == <<index, tmp, data, blobs>>

Item(c) == Todo[c][fetch[c].at]

To(c, f) == fetch' = [fetch EXCEPT ![c] = f]

(* The row of the item is written, and the process turns to the next one.  *)
Row(c, status, page) ==
  [fetch[c] EXCEPT !.pc = "next", !.at = @ + 1, !.rows = Append(@, [is |-> status, page |-> page]),
                   !.page = None, !.copy = NoEntries, !.handle = None, !.attempt = 0]

(* Of the exceptions, only a refusal of the host is one that the probe     *)
(* expects; the audit has a status for each.                               *)
Failed(c, status) ==
  IF Item(c).kind = "probe" THEN [fetch[c] EXCEPT !.pc = "dead"] ELSE Row(c, status, None)

HostBlocks(c) ==
  IF Item(c).kind = "probe" THEN Row(c, "probed", None)
  ELSE [Row(c, "blocked", None) EXCEPT !.blocked = TRUE]

BeginAudit(c) ==
  /\ fetch[c].pc = "idle"
  /\ To(c, [fetch[c] EXCEPT !.pc = "robots", !.visited = {"robots"}])
  /\ UNCHANGED <<cacheVars, served>>

RobotsRedirected(c, answer) ==
  /\ fetch[c].pc = "robots" /\ answer.status \in 300 .. 399
  /\ To(c, IF RedirectFollowed(answer.target, fetch[c].visited)
           THEN [fetch[c] EXCEPT !.visited = @ \cup {answer.target.url}]
           ELSE [Row(c, "probed", None) EXCEPT !.visited = {}])
  /\ UNCHANGED <<cacheVars, served>>

(* A refusal of robots.txt, or none at all, ends the probe and not the     *)
(* audit.                                                                  *)
RobotsAnswered(c, answer) ==
  /\ fetch[c].pc = "robots" /\ answer.status \notin 300 .. 399
  /\ To(c, [(IF RobotsAllow(answer) THEN [fetch[c] EXCEPT !.pc = "next"]
             ELSE Row(c, "probed", None)) EXCEPT !.visited = {}])
  /\ UNCHANGED <<cacheVars, served>>

-----------------------------------------------------------------------------
(* An item of the manifests without an id, or a bout after a block.        *)
SkipItem(c) ==
  /\ fetch[c].pc = "next" /\ fetch[c].at <= Len(Todo[c])
  /\ \/ /\ Item(c).kind = "bout" /\ fetch[c].blocked
        /\ To(c, Row(c, "blocked", None))
     \/ /\ Item(c).url = None /\ ~(Item(c).kind = "bout" /\ fetch[c].blocked)
        /\ To(c, Row(c, "unresolved", None))
  /\ UNCHANGED <<cacheVars, served>>

WillGet(c) ==
  /\ fetch[c].pc = "next" /\ fetch[c].at <= Len(Todo[c])
  /\ Item(c).url # None
  /\ ~(Item(c).kind = "bout" /\ fetch[c].blocked)

GetCached(c) ==
  /\ WillGet(c) /\ ReadUrlCache(Item(c).url) # None
  /\ LET page == ReadUrlCache(Item(c).url) IN To(c, Row(c, ClassifyPage(Item(c), page), page))
  /\ UNCHANGED <<cacheVars, served>>

GetUncached(c) ==
  /\ WillGet(c) /\ ReadUrlCache(Item(c).url) = None
  /\ To(c, [fetch[c] EXCEPT !.pc = "asks"])
  /\ UNCHANGED <<cacheVars, served>>

Retried(c, answer) == answer.status \in {429, 503} /\ fetch[c].attempt < MaxRetries

(* Mutant: the page is stored before it is looked at.                      *)
MutPageAnswered(c, answer) ==
  /\ To(c, CASE answer.status \in 300 .. 399 -> Failed(c, "unresolved")
             [] Retried(c, answer) -> [fetch[c] EXCEPT !.attempt = @ + 1]
             [] answer.status = 200 -> [fetch[c] EXCEPT !.pc = "stores", !.page = answer.page]
             [] OTHER -> HostBlocks(c))
  /\ served' = IF answer.status = 200 /\ answer.page.shape # "wall"
               THEN served \cup {<<Item(c).url, answer.page>>} ELSE served
  /\ UNCHANGED cacheVars

(* An answer: a redirect is refused, too many requests are repeated a few  *)
(* times, and every other answer than an unmarked 200 is a block.          *)
PageAnswered(c, answer) ==
  /\ To(c, CASE answer.status \in 300 .. 399 -> Failed(c, "unresolved")
             [] Retried(c, answer) -> [fetch[c] EXCEPT !.attempt = @ + 1]
             [] answer.status = 200 /\ ~BlockSignal(answer) ->
                  [fetch[c] EXCEPT !.pc = "stores", !.page = answer.page]
             [] OTHER -> HostBlocks(c))
  /\ served' = IF answer.status = 200 /\ answer.page.shape # "wall"
               THEN served \cup {<<Item(c).url, answer.page>>} ELSE served
  /\ UNCHANGED cacheVars

RequestFails(c) ==
  /\ fetch[c].pc = "asks"
  /\ To(c, Failed(c, "unresolved"))
  /\ UNCHANGED <<cacheVars, served>>

(* The page is written to a file of its own and put in place whole.        *)
StorePage(c) ==
  /\ fetch[c].pc = "stores"
  /\ blobs' = blobs \cup {fetch[c].page}
  /\ To(c, [fetch[c] EXCEPT !.pc = "loads"])
  /\ UNCHANGED <<index, tmp, data, served>>

ReadIndex(c) ==
  /\ fetch[c].pc = "loads"
  /\ To(c, [fetch[c] EXCEPT !.pc = "opens", !.copy = [LoadIndex EXCEPT ![Item(c).url] = fetch[c].page]])
  /\ UNCHANGED <<cacheVars, served>>

(* The temporary file is opened, cut to nothing, by whoever comes.         *)
OpenTmp(c) ==
  /\ fetch[c].pc = "opens"
  /\ LET used == {index, tmp} \cup {fetch[d].handle : d \in Fetchers}
         file == IF tmp # None THEN tmp ELSE CHOOSE i \in Inodes : i \notin used
     IN /\ tmp' = file
        /\ data' = [data EXCEPT ![file] = Unreadable]
        /\ To(c, [fetch[c] EXCEPT !.pc = "writes", !.handle = file])
  /\ UNCHANGED <<index, blobs, served>>

(* What another process has written to the file since then may stick out   *)
(* behind what is written now.                                             *)
WriteTmp(c) ==
  /\ fetch[c].pc = "writes"
  /\ LET file == fetch[c].handle
     IN \E after \in IF data[file] = Unreadable THEN {fetch[c].copy} ELSE {fetch[c].copy, Unreadable} :
          data' = [data EXCEPT ![file] = after]
  /\ To(c, [fetch[c] EXCEPT !.pc = "replaces"])
  /\ UNCHANGED <<index, tmp, blobs, served>>

(* Whatever bears the temporary name becomes the index.  The name may be   *)
(* gone: to the audit, FileNotFoundError says that there is no page.       *)
ReplaceIndex(c) ==
  /\ fetch[c].pc = "replaces"
  /\ IF tmp = None
     THEN To(c, Failed(c, "missing")) /\ UNCHANGED <<index, tmp>>
     ELSE /\ index' = tmp /\ tmp' = None
          /\ To(c, Row(c, ClassifyPage(Item(c), fetch[c].page), fetch[c].page))
  /\ UNCHANGED <<data, blobs, served>>

EndAudit(c) ==
  /\ fetch[c].pc = "next" /\ fetch[c].at > Len(Todo[c])
  /\ To(c, [fetch[c] EXCEPT !.pc = "done"])
  /\ UNCHANGED <<cacheVars, served>>

KillFetcher(c) ==
  /\ fetch[c].pc \in {"stores", "loads", "opens", "writes", "replaces"}
  /\ To(c, [fetch[c] EXCEPT !.pc = "dead", !.handle = None, !.page = None, !.copy = NoEntries])
  /\ UNCHANGED <<cacheVars, served>>

FetchNext ==
  \E c \in Fetchers :
    \/ BeginAudit(c)
    \/ \E answer \in RobotsAnswers : RobotsRedirected(c, answer) \/ RobotsAnswered(c, answer)
    \/ SkipItem(c) \/ GetCached(c) \/ GetUncached(c)
    \/ /\ fetch[c].pc = "asks"
       /\ \E answer \in Answers[Item(c).url] : PageAnswered(c, answer)
    \/ RequestFails(c) \/ StorePage(c) \/ ReadIndex(c) \/ OpenTmp(c) \/ WriteTmp(c)
    \/ ReplaceIndex(c) \/ EndAudit(c) \/ KillFetcher(c)

FetchSpec == FetchInit /\ [][FetchNext]_fetchVars

-----------------------------------------------------------------------------
(* Clients that share a cache directory without a lock, and may be killed  *)
(* in the middle of a write, lose each other's entries and can leave an    *)
(* index that nobody can read.  But whatever the index names for a URL is a*)
(* whole page that the host answered for that URL without a sign of a      *)
(* block, and so is every page that an audit reports as present; a bout's  *)
(* page is moreover that bout's (polite_client.py:264-325, adapter.py:187).*)
PagesAreServed ==
  \A c \in Fetchers :
    \/ fetch[c].pc = "idle"
    \/ /\ \A u \in Urls : LoadIndex[u] # None => <<u, LoadIndex[u]>> \in served /\ LoadIndex[u] \in blobs
       /\ \A i \in DOMAIN fetch[c].rows :
            fetch[c].rows[i].is = "present" =>
              /\ <<Todo[c][i].url, fetch[c].rows[i].page>> \in served
              /\ Todo[c][i].kind = "bout" => fetch[c].rows[i].page.of = Todo[c][i].url
=============================================================================
