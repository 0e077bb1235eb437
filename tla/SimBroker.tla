----------------------------- MODULE SimBroker -----------------------------
(***************************************************************************)
(* The paper broker (execution/sim_broker.py, class SimBroker): orders     *)
(* decided after the close of one session are staged for the next, filled  *)
(* when that session is executed, and settled T+N sessions later.          *)
(*                                                                         *)
(* A trading date is its ordinal on the market's calendar, so next_session *)
(* of day d is d + 1 and T+N is plain addition.  Money is a whole number   *)
(* of units; a lot's cost basis, the limit price (which the fill model     *)
(* never reads) and every rendering of an order are left out.              *)
(*                                                                         *)
(* execute_session is one call in the code and several actions here, one   *)
(* per loop iteration, strung together by `phase`: while phase # "idle"    *)
(* nothing but the next iteration can happen.                              *)
(***************************************************************************)
EXTENDS Integers, FiniteSets

CONSTANTS
  Isins,             \* the scrips the book may hold
  Ordered,           \* bound on those of them orders are placed for
  LastSession,       \* the last session of the market's calendar
  MaxOrders,         \* bound on the order ids ever issued
  Quantities,        \* the whole-share quantities a caller asks for
  OpeningCash,
  Lag,               \* SettlementSchedule.lag_for: the N of T+N, by trade date
  Bars,              \* the <<isin, session>> pairs with a reference bar
  ExitOnly,          \* those of them in an exit-only segment
  Reference,         \* the reference price of each of the Bars
  TradedValue,       \* and the session's turnover, which slippage is scaled against
  Impact,            \* slippage at full participation, in units of price
  ChargeRate,        \* the proportional charges of a trade, in percent of its turnover
  DpCharge,          \* the flat depository charge on the first sell of a scrip in a session
  Ratios,            \* the <<numerator, denominator>> of a split or bonus
  Credits,           \* the amounts of a dividend or of interest
  MaxCredits,        \* bound on the corporate actions and credits booked
  Reruns             \* whether a session may be executed a second time

Sides    == {"BUY", "SELL"}
Sessions == 1..LastSession
OrderIds == 0..(MaxOrders - 1)

ASSUME CalendarAssumption == LastSession \in Nat \ {0} /\ MaxOrders \in Nat
ASSUME QuantityAssumption == Quantities \subseteq Nat \ {0}
ASSUME CashAssumption     == OpeningCash \in Nat
ASSUME LagAssumption      == Lag \in [Sessions -> Nat \ {0}]
ASSUME BarsAssumption     == /\ ExitOnly \subseteq Bars /\ Bars \subseteq Isins \X Sessions
                             /\ Reference \in [Bars -> Nat \ {0}]
                             /\ TradedValue \in [Bars -> Nat \ {0}]
ASSUME CostAssumption     == Impact \in Nat /\ ChargeRate \in Nat /\ DpCharge \in Nat
ASSUME IsinsAssumption    == IsFiniteSet(Isins)
ASSUME RatiosAssumption   == Ratios \subseteq (Nat \ {0}) \X (Nat \ {0})
ASSUME CreditsAssumption  == Credits \subseteq Nat \ {0} /\ MaxCredits \in Nat
ASSUME RerunsAssumption   == Reruns \in BOOLEAN

VARIABLES
  today,          \* the injected Clock's date
  cash,           \* _cash: settled, spendable
  releasedAhead,  \* _released_ahead
  currentSession, \* _current_session, 0 for None
  holdings,       \* _holdings: settled shares, 0 for no lot
  pending,        \* _positions: bought shares by ISIN and trade date, 0 for no lot
  receivables,    \* _receivables: net proceeds still owed, by trade date
  orders,         \* _orders: order id -> order
  nextOrder,      \* _next_order_seq
  phase,          \* where execute_session is
  due,            \* its local `due`: the ids still to fill
  sessionQty,     \* its local `session_quantity`
  sold,           \* its local `sold`: scrips with a sell already filled
  credits         \* how many corporate actions and credits were booked (bound)

book      == <<cash, releasedAhead, currentSession, holdings, pending, receivables>>
execution == <<phase, due, sessionQty, sold>>
vars      == <<today, book, orders, nextOrder, execution, credits>>

-----------------------------------------------------------------------------
(* Helpers *)

Order == [status : {"STAGED", "COMPLETE", "REJECTED", "CANCELLED"},
          isin : Isins, side : Sides, quantity : Nat \ {0},
          decided : 0..LastSession, target : Sessions,
          price : Int, dp : BOOLEAN,   \* of the fill, once COMPLETE
          carried : BOOLEAN]           \* moved from another ISIN by a reissue (observer)

Known == DOMAIN orders
IsStaged(id) == orders[id].status = "STAGED"
\* Mutant: a resolved order is still found by the corporate actions' sweeps.
StagedForAnyStatus(isin) == {id \in Known : orders[id].isin = isin}
StagedFor(isin) == {id \in Known : IsStaged(id) /\ orders[id].isin = isin}

\* The sum of f over S, counted as a set of shares: one element per share.  A fold
\* would do for TLC, but nothing could be proved of its value.
Total(f, S) == Cardinality(UNION {{x} \X (1..f[x]) : x \in S})

\* _floor_ratio
FloorRatio(q, ratio) == (q * ratio[1]) \div ratio[2]

\* Mutant: the hop is one session too many.
SettlesLate(traded, session, inclusive) ==
  IF inclusive THEN traded + Lag[traded] <= session ELSE traded + Lag[traded] < session

\* Mutant: every release is made as if it were the one at the close.
SettlesEarly(traded, session, inclusive) == traded + Lag[traded] - 1 <= session

\* Mutant: every trade settles T+1, whatever the cycle of its day.
SettlesNextDay(traded, session, inclusive) ==
  IF inclusive THEN traded <= session ELSE traded < session

\* _settles_by: the (lag-1)-th session after the trade is before `session`
\* (inclusive: on or before it).
SettlesBy(traded, session, inclusive) ==
  LET paid == traded + Lag[traded] - 1
  IN  IF inclusive THEN paid <= session ELSE paid < session

\* held_quantity(isin, bought_before=before)
Before(t) == {s \in Sessions : s < t}
HeldQuantity(isin, before) == holdings[isin] + Total(pending[isin], Before(before))
OnBook(isin) == HeldQuantity(isin, LastSession + 1)

\* SlippageModel and _quantise_adverse: participation is capped at the whole session's
\* turnover, and the price is rounded a unit against the side that trades.
Slippage(bar, shares) ==
  LET turnover == Reference[bar] * shares
      capped   == IF turnover < TradedValue[bar] THEN turnover ELSE TradedValue[bar]
  IN  (Impact * capped + TradedValue[bar] - 1) \div TradedValue[bar]

FillPrice(bar, side, shares) ==
  IF side = "BUY" THEN Reference[bar] + Slippage(bar, shares)
                  ELSE Reference[bar] - Slippage(bar, shares)

\* CostBreakdown.net_amount: turnover plus charges on a buy, less charges on a sell.
NetAmount(side, turnover, dpDue) ==
  LET rated == (turnover * ChargeRate + 50) \div 100
  IN  IF side = "BUY" THEN turnover + rated
      ELSE turnover - rated - (IF dpDue THEN DpCharge ELSE 0)

NoShares == [isin \in Isins |-> 0]

Init ==
  /\ today = 0
  /\ cash = OpeningCash /\ releasedAhead = 0 /\ currentSession = 0
  /\ holdings = NoShares
  /\ pending = [isin \in Isins |-> [t \in Sessions |-> 0]]
  /\ receivables = [t \in Sessions |-> 0]
  /\ orders = [id \in {} |-> 0] /\ nextOrder = 0
  /\ phase = "idle" /\ due = {} /\ sold = {}
  /\ sessionQty = [k \in Isins \X Sides |-> 0]
  /\ credits = 0

-----------------------------------------------------------------------------
(* Order lifecycle: place, modify, cancel *)

\* Mutant: a sell beside a buy is let through.
DuplicatesBuyBesideBuy(isin, side, target) ==
  {id \in StagedFor(isin) : /\ orders[id].target = target
                            /\ orders[id].side = "BUY" /\ side = "BUY"}

\* The staged order, if any, that makes place raise DuplicateStagedOrderError.
Duplicates(isin, side, target) ==
  {id \in StagedFor(isin) : /\ orders[id].target = target
                            /\ ~(orders[id].side = "SELL" /\ side = "SELL")}

Place(isin, side, quantity) ==
  /\ phase = "idle" /\ today < LastSession
  /\ isin \in Ordered /\ nextOrder < MaxOrders   \* bounds
  /\ Duplicates(isin, side, today + 1) = {}
  /\ orders' = [id \in Known \cup {nextOrder} |->
                  IF id = nextOrder
                  THEN [status |-> "STAGED", isin |-> isin, side |-> side,
                        quantity |-> quantity, decided |-> today, target |-> today + 1,
                        price |-> 0, dp |-> FALSE, carried |-> FALSE]
                  ELSE orders[id]]
  /\ nextOrder' = nextOrder + 1
  /\ UNCHANGED <<today, book, execution, credits>>

Modify(id, quantity) ==
  /\ phase = "idle" /\ IsStaged(id)
  /\ quantity # orders[id].quantity
  /\ orders' = [orders EXCEPT ![id].quantity = quantity]
  /\ UNCHANGED <<today, book, nextOrder, execution, credits>>

Cancel(id) ==
  /\ phase = "idle" /\ IsStaged(id)
  /\ orders' = [orders EXCEPT ![id].status = "CANCELLED"]
  /\ UNCHANGED <<today, book, nextOrder, execution, credits>>

-----------------------------------------------------------------------------
(* execute_session(today): settle, fill what is due, release ahead *)

DueOrders == {id \in Known : IsStaged(id) /\ orders[id].target = today}

\* A session before the last settled one raises ValueError and changes nothing.
ExecuteSession ==
  /\ phase = "idle" /\ today \in Sessions
  /\ IF currentSession = today THEN Reruns ELSE currentSession < today
  /\ phase' = IF currentSession = today THEN "fill" ELSE "settle"
  /\ due' = DueOrders
  /\ sessionQty' =
       [k \in Isins \X Sides |->
          Total([id \in Known |-> orders[id].quantity],
                {id \in DueOrders : <<orders[id].isin, orders[id].side>> = k})]
  /\ sold' = {}
  /\ UNCHANGED <<today, book, orders, nextOrder, credits>>

Owed(t) == receivables[t] # 0 \/ \E isin \in Isins : pending[isin][t] # 0

\* _settle_into, for the lots and receivables traded on t.
SettleTrades(t) ==
  /\ phase = "settle" /\ Owed(t) /\ SettlesBy(t, today, FALSE)
  /\ holdings' = [isin \in Isins |-> holdings[isin] + pending[isin][t]]
  /\ pending' = [isin \in Isins |-> [pending[isin] EXCEPT ![t] = 0]]
  /\ cash' = cash + receivables[t]
  /\ receivables' = [receivables EXCEPT ![t] = 0]
  /\ UNCHANGED <<today, releasedAhead, currentSession, orders, nextOrder, execution, credits>>

Settled ==
  /\ phase = "settle"
  /\ \A t \in Sessions : ~(Owed(t) /\ SettlesBy(t, today, FALSE))
  /\ currentSession' = today
  /\ phase' = "fill"
  /\ UNCHANGED <<today, cash, releasedAhead, holdings, pending, receivables,
                 orders, nextOrder, due, sessionQty, sold, credits>>

\* The next order of the session, in placement order.
IsNext(id) == phase = "fill" /\ id \in due /\ \A other \in due : id <= other

\* Mutant: a slice pays for what has filled before it, not for the session's whole quantity.
PriceAsTheyCome(o) ==
  LET before == {id \in Known : /\ orders[id].status = "COMPLETE" /\ orders[id].side = o.side
                                /\ orders[id].isin = o.isin /\ orders[id].target = o.target}
  IN  FillPrice(<<o.isin, today>>, o.side,
                o.quantity + Total([id \in Known |-> orders[id].quantity], before))

PriceOf(o) == FillPrice(<<o.isin, today>>, o.side, sessionQty[<<o.isin, o.side>>])

\* The first sell of a scrip to fill in a session carries the day's DP charge.
DpDue(o) == o.side = "SELL" /\ o.isin \notin sold
NetOf(o) == NetAmount(o.side, o.quantity * PriceOf(o), DpDue(o))

\* _fill rejects an order with no reference bar, a buy in an exit-only segment, a sell of
\* more than has settled, and a buy the settled cash cannot pay for.
Fillable(o) ==
  /\ <<o.isin, today>> \in Bars
  /\ o.side = "BUY" => <<o.isin, today>> \notin ExitOnly
  /\ o.side = "SELL" => o.quantity <= holdings[o.isin]
  /\ o.side = "BUY" => NetOf(o) <= cash

Filled(o) == [o EXCEPT !.status = "COMPLETE", !.price = PriceOf(o),
                       !.dp = DpDue(o)]

RejectOrder(id) ==
  /\ IsNext(id)
  /\ ~Fillable(orders[id])
  /\ orders' = [orders EXCEPT ![id].status = "REJECTED"]
  /\ due' = due \ {id}
  /\ UNCHANGED <<today, book, nextOrder, phase, sessionQty, sold, credits>>

\* _apply on a buy: pay at once, the shares wait as a position for T+N.
FillBuy(id) ==
  /\ IsNext(id)
  /\ LET o == orders[id]
     IN  /\ o.side = "BUY" /\ Fillable(o)
         /\ cash' = cash - NetOf(o)
         /\ pending' = [pending EXCEPT ![o.isin][today] = @ + o.quantity]
         /\ orders' = [orders EXCEPT ![id] = Filled(o)]
  /\ due' = due \ {id}
  /\ UNCHANGED <<today, releasedAhead, currentSession, holdings, receivables,
                 nextOrder, phase, sessionQty, sold, credits>>

\* _apply on a sell: deliver settled shares at once, the proceeds wait for T+N.
FillSell(id) ==
  /\ IsNext(id)
  /\ LET o == orders[id]
     IN  /\ o.side = "SELL" /\ Fillable(o)
         /\ receivables' = [receivables EXCEPT ![today] = @ + NetOf(o)]
         /\ holdings' = [holdings EXCEPT ![o.isin] = @ - o.quantity]
         /\ orders' = [orders EXCEPT ![id] = Filled(o)]
         /\ sold' = sold \cup {o.isin}
  /\ due' = due \ {id}
  /\ UNCHANGED <<today, cash, releasedAhead, currentSession, pending,
                 nextOrder, phase, sessionQty, credits>>

\* Mutant: _released_ahead accumulates over the sessions.
StartReleaseKeeping ==
  /\ phase = "fill" /\ due = {}
  /\ phase' = "release"
  /\ UNCHANGED <<today, cash, releasedAhead, currentSession, holdings, pending, receivables,
                 orders, nextOrder, due, sessionQty, sold, credits>>

\* The fills are over; _released_ahead is about to be assigned afresh.
StartRelease ==
  /\ phase = "fill" /\ due = {}
  /\ phase' = "release"
  /\ releasedAhead' = 0
  /\ UNCHANGED <<today, cash, currentSession, holdings, pending, receivables,
                 orders, nextOrder, due, sessionQty, sold, credits>>

\* _release_proceeds(session, inclusive=True), for the receivables traded on t.
ReleaseAhead(t) ==
  /\ phase = "release" /\ receivables[t] # 0 /\ SettlesBy(t, today, TRUE)
  /\ cash' = cash + receivables[t]
  /\ releasedAhead' = releasedAhead + receivables[t]
  /\ receivables' = [receivables EXCEPT ![t] = 0]
  /\ UNCHANGED <<today, currentSession, holdings, pending, orders, nextOrder,
                 execution, credits>>

EndSession ==
  /\ phase = "release"
  /\ \A t \in Sessions : ~(receivables[t] # 0 /\ SettlesBy(t, today, TRUE))
  /\ phase' = "idle" /\ due' = {} /\ sold' = {}
  /\ sessionQty' = [k \in Isins \X Sides |-> 0]
  /\ UNCHANGED <<today, book, orders, nextOrder, credits>>

-----------------------------------------------------------------------------
(* Corporate actions: booked by BookActionApplier on the ex-date, before    *)
(* that session is executed, and only on a name the book holds.            *)

BookingAllowed == /\ phase = "idle" /\ today \in Sessions /\ currentSession < today
                  /\ credits < MaxCredits

\* Mutant: staged orders are left as they are.
NotRescaled(o, ratio) == o

\* Mutant: an order too small to survive the ratio is kept, at zero shares.
RescaledToNothing(o, ratio) == [o EXCEPT !.quantity = FloorRatio(o.quantity, ratio)]

Rescaled(o, ratio) ==
  IF FloorRatio(o.quantity, ratio) = 0 THEN [o EXCEPT !.status = "CANCELLED"]
  ELSE [o EXCEPT !.quantity = FloorRatio(o.quantity, ratio)]

\* Mutant: every lot is floored on its own and what is left over is lost.
RescaledLotByLot(isin, ratio) ==
  /\ BookingAllowed
  /\ HeldQuantity(isin, today) > 0 /\ HeldQuantity(isin, today) = OnBook(isin)
  /\ holdings' = [holdings EXCEPT ![isin] = FloorRatio(@, ratio)]
  /\ pending' = [pending EXCEPT ![isin] = [t \in Sessions |-> FloorRatio(pending[isin][t], ratio)]]
  /\ orders' = [id \in Known |-> IF id \in StagedFor(isin) THEN Rescaled(orders[id], ratio)
                                                           ELSE orders[id]]
  /\ credits' = credits + 1
  /\ UNCHANGED <<today, cash, releasedAhead, currentSession, receivables, nextOrder, execution>>

\* apply_share_rescale: the entitled count is floored once; each pending lot keeps
\* its own floor and what is left over goes to the holding, or to the last lot.
ApplyShareRescale(isin, ratio) ==
  LET lots      == {t \in Before(today) : pending[isin][t] > 0}
      newTotal  == FloorRatio(HeldQuantity(isin, today), ratio)
      scaled    == [t \in Sessions |-> IF t \in lots THEN FloorRatio(pending[isin][t], ratio)
                                                    ELSE pending[isin][t]]
      remainder == newTotal - Total(scaled, lots)
      lastLot   == CHOOSE t \in lots : \A other \in lots : other <= t
      settled   == holdings[isin] > 0
  IN  /\ BookingAllowed
      /\ HeldQuantity(isin, today) > 0
      /\ HeldQuantity(isin, today) = OnBook(isin)   \* _entitled refuses otherwise
      /\ holdings' = [holdings EXCEPT ![isin] = IF settled /\ remainder > 0 THEN remainder ELSE 0]
      /\ pending' = [pending EXCEPT ![isin] =
                       IF ~settled /\ remainder > 0
                       THEN [scaled EXCEPT ![lastLot] = @ + remainder] ELSE scaled]
      /\ orders' = [id \in Known |-> IF id \in StagedFor(isin) THEN Rescaled(orders[id], ratio)
                                                               ELSE orders[id]]
      /\ credits' = credits + 1
      /\ UNCHANGED <<today, cash, releasedAhead, currentSession, receivables,
                     nextOrder, execution>>

\* carry_over: a reissued ISIN's shares, lots and staged orders continue under its successor.
CarryOver(from, to) ==
  /\ BookingAllowed /\ from # to
  /\ OnBook(from) > 0
  /\ holdings' = [holdings EXCEPT ![from] = 0, ![to] = holdings[to] + holdings[from]]
  /\ pending' = [pending EXCEPT ![from] = [t \in Sessions |-> 0],
                                ![to] = [t \in Sessions |-> pending[to][t] + pending[from][t]]]
  /\ orders' = [id \in Known |-> IF id \in StagedFor(from)
                                 THEN [orders[id] EXCEPT !.isin = to, !.carried = TRUE]
                                 ELSE orders[id]]
  /\ credits' = credits + 1
  /\ UNCHANGED <<today, cash, releasedAhead, currentSession, receivables, nextOrder, execution>>

\* surrender, and the exit consideration the caller credits with it (price 1 a share).
Surrender(isin) ==
  /\ BookingAllowed
  /\ HeldQuantity(isin, today) > 0
  /\ HeldQuantity(isin, today) = OnBook(isin)
  /\ holdings' = [holdings EXCEPT ![isin] = 0]
  /\ pending' = [pending EXCEPT ![isin] =
                   [t \in Sessions |-> IF t < today THEN 0 ELSE pending[isin][t]]]
  /\ cash' = cash + HeldQuantity(isin, today)
  /\ orders' = [id \in Known |-> IF id \in StagedFor(isin)
                                 THEN [orders[id] EXCEPT !.status = "CANCELLED"]
                                 ELSE orders[id]]
  /\ credits' = credits + 1
  /\ UNCHANGED <<today, releasedAhead, currentSession, receivables, nextOrder, execution>>

\* credit_corporate_cash (a dividend, before the session) and credit_interest (after it).
CreditCash(amount) ==
  /\ phase = "idle" /\ credits < MaxCredits
  /\ cash' = cash + amount
  /\ credits' = credits + 1
  /\ UNCHANGED <<today, releasedAhead, currentSession, holdings, pending, receivables,
                 orders, nextOrder, execution>>

-----------------------------------------------------------------------------
(* The environment: the calendar advances; the process ends and the next one *)
(* restores what export_state wrote, which leaves out every resolved order. *)

NextDay ==
  /\ phase = "idle" /\ today < LastSession
  /\ today' = today + 1
  /\ UNCHANGED <<book, orders, nextOrder, execution, credits>>

\* Mutant: the lots still waiting for their T+N are not written.
RestoreWithoutLots ==
  /\ phase = "idle"
  /\ \E id \in Known : ~IsStaged(id)
  /\ orders' = [id \in {k \in Known : IsStaged(k)} |-> orders[id]]
  /\ pending' = [isin \in Isins |-> [t \in Sessions |-> 0]]
  /\ UNCHANGED <<today, cash, releasedAhead, currentSession, holdings, receivables,
                 nextOrder, execution, credits>>

Restore ==
  /\ phase = "idle"
  /\ \E id \in Known : ~IsStaged(id)
  /\ orders' = [id \in {k \in Known : IsStaged(k)} |-> orders[id]]
  /\ UNCHANGED <<today, book, nextOrder, execution, credits>>

Next ==
  \/ \E isin \in Isins, side \in Sides, q \in Quantities : Place(isin, side, q)
  \/ \E id \in Known, q \in Quantities : Modify(id, q)
  \/ \E id \in Known : Cancel(id)
  \/ ExecuteSession
  \/ \E t \in Sessions : SettleTrades(t)
  \/ Settled
  \/ \E id \in due : RejectOrder(id)
  \/ \E id \in due : FillBuy(id)
  \/ \E id \in due : FillSell(id)
  \/ StartRelease
  \/ \E t \in Sessions : ReleaseAhead(t)
  \/ EndSession
  \/ \E isin \in Isins, ratio \in Ratios : ApplyShareRescale(isin, ratio)
  \/ \E from, to \in Isins : CarryOver(from, to)
  \/ \E isin \in Isins : Surrender(isin)
  \/ \E amount \in Credits : CreditCash(amount)
  \/ NextDay
  \/ Restore

Spec == Init /\ [][Next]_vars

-----------------------------------------------------------------------------
(* Properties *)

\* Type invariant of the broker's fields and of execute_session's locals.
TypeOK ==
  /\ today \in 0..LastSession /\ currentSession \in 0..LastSession
  /\ cash \in Int /\ releasedAhead \in Int
  /\ holdings \in [Isins -> Nat]
  /\ pending \in [Isins -> [Sessions -> Nat]]
  /\ receivables \in [Sessions -> Int]
  /\ nextOrder \in 0..MaxOrders
  /\ Known \subseteq 0..(nextOrder - 1)
  /\ orders \in [Known -> Order]
  /\ phase \in {"idle", "settle", "fill", "release"}
  /\ due \subseteq Known /\ (phase \in {"idle", "release"} => due = {})
  /\ sold \subseteq Isins
  /\ sessionQty \in [Isins \X Sides -> Nat]
  /\ credits \in 0..MaxCredits

\* Once a session is under way, and until the next one, nothing whose T+N has come is
\* still owed: settlement is never late, whatever sessions were skipped in between
\* (_settle_into settles every due lot, not only the last session's).
SettlementPrompt ==
  phase \in {"fill", "release", "idle"} =>
    /\ \A isin \in Isins, t \in Sessions : pending[isin][t] > 0 => currentSession < t + Lag[t]
    /\ \A t \in Sessions : receivables[t] # 0 =>
         IF phase = "idle" THEN currentSession + 1 < t + Lag[t] ELSE currentSession < t + Lag[t]

\* The rule place enforces (one order per scrip and session, sells beside sells apart)
\* survives every modify, rescale, execution and restart, for orders no reissue moved
\* (carry_over moves a sell beside a buy without asking).
OneOrderPerScrip ==
  \A a, b \in Known :
    (/\ a # b /\ IsStaged(a) /\ IsStaged(b)
     /\ ~orders[a].carried /\ ~orders[b].carried
     /\ orders[a].isin = orders[b].isin /\ orders[a].target = orders[b].target)
    => orders[a].side = "SELL" /\ orders[b].side = "SELL"

FilledSells == {id \in Known : orders[id].status = "COMPLETE" /\ orders[id].side = "SELL"}

\* Slices of one exit that fill in one session fill at one price and pay one DP charge,
\* whichever of them were rejected (execute_session, _fill).
SlicesPricedAsOne ==
  phase = "idle" =>
    \A a \in FilledSells :
      LET slices == {b \in FilledSells : /\ orders[b].isin = orders[a].isin
                                         /\ orders[b].target = orders[a].target}
      IN  /\ \A b \in slices : orders[b].price = orders[a].price
          /\ Cardinality({b \in slices : orders[b].dp}) = 1

\* The staged sells of a scrip, and whether they would exit all the book holds of it.
StagedSells(isin) == {id \in StagedFor(isin) : orders[id].side = "SELL"}
ExitsWhole(isin) ==
  Total([id \in Known |-> orders[id].quantity], StagedSells(isin)) >= OnBook(isin)

\* A single sell sized to exit the position before a split or bonus still exits it after
\* (slices need not: apply_share_rescale floors each staged order on its own).
SingleExitSurvivesRescale ==
  [][\A isin \in Isins, ratio \in Ratios :
       ApplyShareRescale(isin, ratio) /\ Cardinality(StagedSells(isin)) = 1 /\ ExitsWhole(isin)
       => ExitsWhole(isin)']_vars

\* A resolved order is history: no later call changes it (a restart may forget it).
ResolvedIsFinal ==
  [][\A id \in Known : ~IsStaged(id) => id \notin DOMAIN orders' \/ orders'[id] = orders[id]]_vars

\* No trade settles before its cycle: a lot becomes deliverable in session T+N at the
\* earliest, and proceeds become spendable for the fills of session T+N at the earliest
\* (at the close of the session before it).
NeverSettledEarly ==
  [][\A t \in Sessions :
       /\ receivables'[t] # receivables[t] /\ phase # "fill" =>
            t + Lag[t] <= IF phase = "release" THEN today + 1 ELSE today
       /\ phase = "settle" /\ (\E isin \in Isins : pending'[isin][t] < pending[isin][t]) =>
            t + Lag[t] <= today]_vars

=============================================================================
