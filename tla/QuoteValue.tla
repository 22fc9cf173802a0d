----------------------------- MODULE QuoteValue -----------------------------
(***************************************************************************)
(* What a selection of a bout was worth when its card was locked: the      *)
(* quotes that polls store, the markets they miss, the locks, and the      *)
(* opening and closing prices that a backtest joins to the bout, each with *)
(* the decision that it was eligible at the time of its valuation.         *)
(*                                                                         *)
(* Source: src/mma_model/odds/normalize.py, store.py, lifecycle.py,        *)
(* manual_price.py and value_bridge.py, value/evidence.py and priced.py,   *)
(* backtest/quotes.py and engine.py.                                       *)
(*                                                                         *)
(* The bout that a provider event stands for is OddsMatching's; here a     *)
(* reconcile is one step.  Prices are names, and what is computed from a   *)
(* price (EV, CLV, profit, stake) is a function of the price kept.         *)
(***************************************************************************)
EXTENDS OddsMatching, Integers

CONSTANTS
  Books, Sides, Prices,  \* bookmakers, selections of the market, prices
  CutoffAt, StartAt,     \* the card's lock and start
  StaleAfter,            \* stale_after_minutes
  Skews,                 \* how far a book's clock is from the poll's
  EndAt, MaxNews, MaxMatches  \* bounds: the clock, the records, the reconciles

ASSUME QuoteAssumption ==
  /\ CutoffAt \in Nat /\ StartAt \in Nat /\ CutoffAt <= StartAt /\ EndAt \in Nat
  /\ StaleAfter \in Nat /\ MaxNews \in Nat /\ MaxMatches \in Nat /\ Skews \subseteq Int

VARIABLE book   \* the quotes, the missing markets, the rows of selection
                \* scope, the prices that users saw, how many records, and
                \* what the first backtest reported

quoteVars == <<stamp, odds, rematch, operator, book>>
-----------------------------------------------------------------------------
(* The times at which something was seen that count under the alias in     *)
(* force at t (quotes_visible_under_alias_at and its twin).                *)
CountAt(times, t) == Visible([odds EXCEPT !.quotes = times], t)

(* quote_authoritative_freshness: the book's clock, if it gave one.        *)
Freshness(q) == IF q.source = None THEN q.seen ELSE q.source

(* A quote whose own clock is ahead of t is not visible at t.              *)
VisibleQuotes(t) ==
  { q \in book.quotes : q.seen \in CountAt({q.seen}, t) /\ Freshness(q) <= t }

IsStale(q, t) == t - Freshness(q) > StaleAfter

(* _selection_scope_applies: what a row leaves open applies to all.        *)
Applies(row, q) ==
  /\ row.book = None \/ row.book = q.book
  /\ row.side = None \/ row.side = q.side

(* latest_selection_lifecycle.                                             *)
LatestScoped(b, q, t) ==
  LatestOf(book.scoped, { i \in DOMAIN book.scoped :
    LET row == book.scoped[i] IN row.bout = b /\ Applies(row, q) /\ row.at <= t })

IsLocked(b, q, t) ==
  LatestScoped(b, q, t) # None /\ LatestScoped(b, q, t).state = "locked"

(* Mutant: what was ever found missing blocks.                             *)
MutUnknownEver(q, t) == \E u \in book.unknown : u.book = q.book /\ q.seen <= u.seen

(* market_availability_unknown_at: missing no earlier than the quote was   *)
(* acquired.                                                               *)
MarketUnknown(q, t) ==
  \E u \in book.unknown :
    /\ u.book = q.book /\ u.seen \in CountAt({u.seen}, t)
    /\ q.seen <= u.seen

(* resolve_quote_value_eligibility: the match and the bout, and the gates  *)
(* of the single quote (which of them blocks is not kept).                 *)
QuoteEligible(q, b, t) ==
  /\ q \in VisibleQuotes(t)
  /\ Eligible([odds EXCEPT !.quotes = {q.seen}], q.seen, t)
  /\ odds.aliases[Effective(odds, t)].bout = b
  /\ ~IsLocked(b, q, t) /\ ~MarketUnknown(q, t) /\ ~IsStale(q, t)

ValueDecision(q, b, t) ==
  LET life == LatestLife(odds, b, t) IN
  [quote |-> q, bout |-> b, at |-> t, eligible |-> QuoteEligible(q, b, t),
   life |-> IF life = None THEN "active" ELSE life.state]

(* QuoteEligibilityEvidence accepts an eligible decision only in a life    *)
(* that does not block; missing_unknown does, although the decision let it *)
(* pass.                                                                   *)
Usable(decision) ==
  decision.eligible =>
    /\ Freshness(decision.quote) <= decision.at
    /\ decision.life \notin Terminal \cup {"missing_unknown"}
-----------------------------------------------------------------------------
(* load_quotes_at_cutoff: the decisions about what is visible at the lock  *)
(* under an alias of this bout.                                            *)
LoadedAt(b, t) ==
  { d \in {ValueDecision(q, b, t) : q \in VisibleQuotes(t)} :
      /\ Effective(odds, t) > 0 /\ odds.aliases[Effective(odds, t)].bout = b
      /\ Usable(d) }

Later(p, q) == p.seen > q.seen \/ (p.seen = q.seen /\ p.id > q.id)

NewestQuote(Q) == CHOOSE q \in Q : \A p \in Q \ {q} : Later(q, p)

(* join_quote: the newest, whatever its book, if the books of that time    *)
(* agree and it is eligible; no older one stands in for it.                *)
Opening(b, side, t) ==
  LET D == { d \in LoadedAt(b, t) : d.quote.side = side }
      q == NewestQuote({d.quote : d \in D})
  IN IF \/ D = {}
        \/ \E d \in D : d.quote.seen = q.seen /\ d.quote.price # q.price
        \/ ~QuoteEligible(q, b, t)
     THEN None ELSE ValueDecision(q, b, t)

(* select_closing_row: the last price of the same book up to the start, if *)
(* it was eligible when it was seen.                                       *)
Closing(d) ==
  LET q == d.quote
      later == { p \in book.quotes :
                   p.book = q.book /\ p.side = q.side /\ q.seen < p.seen /\ p.seen <= StartAt }
      p == NewestQuote(later)
  IN IF later = {} \/ ~QuoteEligible(p, d.bout, p.seen)
          \/ ~Usable(ValueDecision(p, d.bout, p.seen))
     THEN None ELSE ValueDecision(p, d.bout, p.seen)

(* _validate_provider_pair: the decision is of this quote, selection, bout *)
(* and time.                                                               *)
PairHolds(d, b, side, t) ==
  /\ d.quote.side = side /\ d.bout = b /\ d.at = t /\ d.quote.seen <= t
  /\ d.eligible

(* compute_priced_value_metrics, from a provider's quote: the prices that  *)
(* EV, stake and profit, and the closing metrics, are computed from.       *)
Metrics(b, side) ==
  LET o == Opening(b, side, CutoffAt) IN
  IF o = None \/ ~PairHolds(o, b, side, CutoffAt) THEN None
  ELSE LET c == Closing(o) IN
       [opening |-> o.quote.price,
        closing |-> IF /\ c # None /\ PairHolds(c, b, side, c.at)
                       /\ c.quote.book = o.quote.book /\ o.quote.seen < c.quote.seen
                    THEN c.quote.price ELSE None]

(* ... and from prices that a user saw and bound to the bout in time.      *)
ManualMetrics(b, side) ==
  { m.price : m \in { w \in book.manual :
      /\ w.side = side /\ w.boundTo = b /\ w.seen <= CutoffAt
      /\ w.boundAt # None /\ w.seen <= w.boundAt /\ w.boundAt <= CutoffAt } }

Priced ==
  [b \in MatchBouts |-> [side \in Sides |->
     [provider |-> Metrics(b, side), manual |-> ManualMetrics(b, side)]]]
-----------------------------------------------------------------------------
QuoteInit ==
  /\ MatchingInit
  /\ book = [quotes |-> {}, unknown |-> {}, scoped |-> <<>>, manual |-> {}, news |-> 0,
             report |-> None]

CanRecord == book.news < MaxNews

NoMatching == UNCHANGED <<stamp, rematch, operator>>

(* quote_dedupe_key: the price and the source's clock, not the time of the *)
(* poll: what is shown again unchanged is not stored again.                *)
NewQuotes(k, price, source) ==
  { [id |-> book.news + 1, book |-> k, side |-> s, price |-> price,
     source |-> source, seen |-> stamp] :
      s \in { x \in Sides : ~\E q \in book.quotes :
                q.book = k /\ q.side = x /\ q.price = price /\ q.source = source } }

(* A poll finds the market at a book, ...                                  *)
PollQuotes(k) ==
  /\ CanRecord
  /\ \E price \in Prices, source \in {None} \cup {stamp + s : s \in Skews} :
       /\ book' = [book EXCEPT !.news = @ + 1,
                     !.quotes = @ \cup NewQuotes(k, price, source)]
       /\ odds' = [odds EXCEPT !.quotes = @ \cup {q.seen : q \in NewQuotes(k, price, source)}]
  /\ NoMatching

(* ... or the book without the market.                                     *)
PollMissing(k) ==
  /\ CanRecord
  /\ book' = [book EXCEPT !.news = @ + 1, !.unknown = @ \cup {[book |-> k, seen |-> stamp]}]
  /\ NoMatching /\ UNCHANGED odds

(* A provider's lock or unlock of a book's market or of one selection of   *)
(* it, or an operator's clearing, which a lock of that scope refuses.      *)
Signal(b, k, side, state, why) ==
  LET over == LatestOf(book.scoped, { i \in DOMAIN book.scoped :
                LET row == book.scoped[i] IN
                row.bout = b /\ row.book = k /\ row.side \in {None, side} /\ row.at <= stamp }) IN
  /\ CanRecord
  /\ ~(why = "clear" /\ over # None /\ over.state = "locked")
  /\ book' = [book EXCEPT !.news = @ + 1,
       !.scoped = AddOnce(@, [bout |-> b, book |-> k, side |-> side,
                              state |-> state, why |-> why, at |-> stamp])]
  /\ NoMatching /\ UNCHANGED odds

(* A user enters a price (parse_manual_price_observation and the store).   *)
EnterPrice(side, price) ==
  /\ CanRecord
  /\ book' = [book EXCEPT !.news = @ + 1,
       !.manual = @ \cup {[side |-> side, price |-> price, seen |-> stamp,
                           boundTo |-> None, boundAt |-> None]}]
  /\ NoMatching /\ UNCHANGED odds

(* ManualBoutBindingAssertion, by whoever calls the value package.         *)
BindPrice(b) ==
  /\ \E m \in { w \in book.manual : w.boundTo = None } :
       book' = [book EXCEPT !.manual =
                  (@ \ {m}) \cup {[m EXCEPT !.boundTo = b, !.boundAt = stamp]}]
  /\ NoMatching /\ UNCHANGED odds

(* reconcile_provider_events in one step.                                  *)
Reconcile ==
  /\ odds.writes < MaxMatches
  /\ \E fit \in SUBSET MatchBouts :
       LET dec == MatchEvent(odds, fit, TRUE, stamp) IN
       odds' = Written(Persist(Enqueued(odds, dec), dec, stamp))
  /\ NoMatching /\ UNCHANGED book

(* A backtest of the card, once it has started.                            *)
Backtest ==
  /\ stamp > StartAt /\ book.report = None
  /\ book' = [book EXCEPT !.report = Priced]
  /\ NoMatching /\ UNCHANGED odds

ClockTicks ==
  /\ stamp < EndAt /\ stamp' = stamp + 1
  /\ UNCHANGED <<odds, rematch, operator, book>>

QuoteNext ==
  \/ ClockTicks \/ Reconcile \/ Backtest
  \/ \E k \in Books : PollQuotes(k) \/ PollMissing(k)
  \/ \E b \in MatchBouts, k \in Books, side \in Sides \cup {None} :
       \/ Signal(b, k, side, "locked", "lock") \/ Signal(b, k, side, "active", "unlock")
       \/ Signal(b, k, side, "active", "clear")
  \/ \E side \in Sides, price \in Prices : EnterPrice(side, price)
  \/ \E b \in MatchBouts : BindPrice(b)

QuoteSpec == QuoteInit /\ [][QuoteNext]_quoteVars
-----------------------------------------------------------------------------
(* A backtest that is repeated finds what the first one found: nothing     *)
(* that is recorded once the card has started changes what its selections  *)
(* were worth, not a poll, not a correction of the match, not a lock, not  *)
(* a binding (backtest/quotes.py: "a later post-cutoff quote cannot poison *)
(* a valid earlier line"; priced.py: "future assertions cannot authorize   *)
(* historical valuation").                                                 *)
PricesReproduce == book.report # None => Priced = book.report

(* lifecycle.py:799: "Bout observational ACTIVE when any quote is visible; *)
(* per-quote stale/missing never flips the whole event": a quote that      *)
(* passed every gate can be valued.                                        *)
MissingNeverFlips ==
  \A b \in MatchBouts : \A q \in VisibleQuotes(stamp) : Usable(ValueDecision(q, b, stamp))
=============================================================================
