------------------------------ MODULE Dashboard -----------------------------
(***************************************************************************)
(* The pages that a publication makes of the grade ledger: what is chosen  *)
(* of its rows, what makes the build fail, and what the contract of the    *)
(* documents demands of the result.  A page that fails keeps the release   *)
(* before it, and rows are for ever: a ledger of which no page can be made *)
(* stops the dashboard.                                                    *)
(*                                                                         *)
(* Source: src/mma_model/publish/builder.py, schema.py and validator.py,   *)
(* observability/assemble.py and health.py, handle_publish of              *)
(* jobs/handlers.py.                                                       *)
(*                                                                         *)
(* Names, hashes, texts and amounts are left out, and so are the warnings  *)
(* and line movements of state events.                                     *)
(***************************************************************************)
EXTENDS GradeLedger

(* What the build reads beside the ledger: the bouts that discover has     *)
(* cancelled or that are over, and those whose prediction the caller named *)
(* (prediction_id).                                                        *)
Cards == [struck : SUBSET CardBouts, predicted : SUBSET CardBouts]
-----------------------------------------------------------------------------
OfBout(rows, b) == { p \in rows.pubs : p.bout = b }

(* Mutant: every publication of a bout has a row.                          *)
SelectAll(rows) == rows.pubs

(* The latest publication of each bout; created_at decides between equals. *)
SelectPublications(rows) ==
  LET latest(b) == { p \in OfBout(rows, b) : \A q \in OfBout(rows, b) : q.at <= p.at }
  IN { CHOOSE p \in latest(b) : TRUE : b \in { p.bout : p \in rows.pubs } }

(* _latest_observed: the price on the page.                                *)
LatestObserved(rows, p) ==
  LET Q == QuotesOf(rows, PubKey(p)) IN
  IF Q = {} THEN None ELSE (CHOOSE q \in Q : \A r \in Q : r.ts <= q.ts).ts

(* _build_prices: the probability comes with the prediction.               *)
ExactEV(rows, p, card) == LatestObserved(rows, p) # None /\ p.bout \in card.predicted

(* _assert_confirmed_value_priced of each row, or PublishValidationError.  *)
Builds(rows, shown, card) ==
  \A p \in shown : p.state = Confirmed => ExactEV(rows, p, card)

Matchup(rows, p, card) ==
  [bout |-> p.bout, pub |-> PubKey(p), state |-> p.state,
   observed |-> LatestObserved(rows, p), ev |-> ExactEV(rows, p, card)]

(* _paper_unpublished_matchup, for the bouts that are on and have no       *)
(* publication.                                                            *)
PaperRow(b) ==
  [bout |-> b, pub |-> None, state |-> NoBet, observed |-> None, ev |-> FALSE]

Unpublished(rows, card) ==
  CardBouts \ (card.struck \cup { p.bout : p \in rows.pubs })

Matchups(rows, shown, card) ==
  { Matchup(rows, p, card) : p \in shown }
    \cup { PaperRow(b) : b \in Unpublished(rows, card) }

(* The settlement that counts: the highest revision.                       *)
SettlementOf(rows, p) ==
  LET S == { s \in rows.settled : s.pub = PubKey(p) } IN
  IF S = {} THEN None
  ELSE CHOOSE s \in S : \A t \in S : t.version[2] <= s.version[2]

(* A point of history.json: only a priced confirmed_value has a result.    *)
HistoryPoint(rows, p) ==
  LET priced == p.state = Confirmed /\ LatestObserved(rows, p) # None IN
  [pub |-> PubKey(p),
   bucket |-> IF priced THEN "confirmed_price"
              ELSE IF p.state = "price_target" THEN "price_target_only" ELSE "predictive",
   result |-> IF priced THEN SettlementOf(rows, p) ELSE None]

History(rows, shown) == { HistoryPoint(rows, p) : p \in shown }

(* performance.json: the picks with a price, and those that were settled.  *)
Performance(rows, shown) ==
  LET priced == { p \in shown : p.state = Confirmed /\ LatestObserved(rows, p) # None }
  IN [picks |-> Cardinality(priced),
      settled |-> Cardinality({ p \in priced : SettlementOf(rows, p) # None })]

(* assemble_health, projected: one component for each name; the model, the *)
(* sources and the clocks are outside.                                     *)
HealthNames == {"pipeline", "data", "identity", "odds", "model", "grading",
                "backup", "quota", "freshness"}

GradeComponent(rows) == IF rows.pubs = {} THEN "missing" ELSE "healthy"

HealthDocument(rows) ==
  [n \in HealthNames |-> IF n = "grading" THEN GradeComponent(rows) ELSE "open"]

(* The documents that do not depend on the card, of build_release_files.   *)
Documents(rows, shown) ==
  [history |-> History(rows, shown), performance |-> Performance(rows, shown),
   health |-> HealthDocument(rows)]
-----------------------------------------------------------------------------
(* validate_document of matchups.json: a bout has one row, and the ranked  *)
(* list, the watchlist and the no-bets hold what they may.                 *)
ValidMatchups(M) ==
  /\ \A m, n \in M : m.bout = n.bout => m = n
  /\ \A m \in M : m.ev => m.observed # None
  /\ \A m \in M : m.state = Confirmed => m.observed # None /\ m.ev
  /\ \A m \in M : m.state = "price_target" => ~m.ev

ValidHistory(H) ==
  \A h \in H : h.result # None => h.bucket = "confirmed_price"

RequiredHealth == HealthNames \ {"quota", "freshness"}

(* validate_dashboard_release_dir, on the staged files.                    *)
Validates(M, d) ==
  /\ ValidMatchups(M)
  /\ ValidHistory(d.history)
  /\ RequiredHealth \subseteq DOMAIN d.health

(* handle_publish: a card without a publication does not replace what is   *)
(* there, unless it is a preview.                                          *)
Refused(rows, card, preview) ==
  CardBouts \ card.struck # {} /\ rows.pubs = {} /\ ~preview

Published(rows, shown, card, preview) ==
  /\ ~Refused(rows, card, preview)
  /\ Builds(rows, shown, card)
  /\ Validates(Matchups(rows, shown, card), Documents(rows, shown))
-----------------------------------------------------------------------------
(* What a publication reads: the rows of a tick whose jobs are done, or the *)
(* committed ones; without publications it is refused.                     *)
PublishedRows ==
  { r \in IF NoTick THEN {ledger} ELSE { t.tx : t \in { u \in {tick} : u.status # "running" } } :
      r.pubs # {} }

(* A recommend has failed half-way for the cutoff of a row, or the caller  *)
(* names no prediction for a confirmed pick.                               *)
Sound(rows, shown, card) ==
  \A p \in shown :
    p.cutoff \notin rows.failed /\ (p.state = Confirmed => p.bout \in card.predicted)

(* What recommend writes can be published, in the tick that writes it and  *)
(* ever after, whatever was moved, cancelled, settled or corrected since:  *)
(* each bout that is on has one row, the rows pass the contract, and a bet *)
(* is shown at the price that it is settled at, although the page takes    *)
(* the latest price and the settlement the earliest.  Only a recommend     *)
(* that fails half-way can leave a confirmed pick without its price.       *)
PageAgrees ==
  \A r \in PublishedRows :
    LET shown == SelectPublications(r)
        d == Documents(r, shown)
    IN \A card \in Cards :
         LET M == Matchups(r, shown, card) IN
         /\ Builds(r, shown, card) => Validates(M, d)
         /\ Sound(r, shown, card) =>
              /\ Published(r, shown, card, FALSE)
              /\ \A b \in CardBouts \ card.struck : \E m \in M : m.bout = b
              /\ \A m \in M : \A h \in d.history :
                   h.pub = m.pub /\ h.result # None => h.result.ts = m.observed
=============================================================================
