-------------------------- MODULE SimBrokerProofs --------------------------
(***************************************************************************)
(* Proofs about SimBroker, for every market, schedule and order stream:    *)
(* the broker's own types and safety, the cash ledger beside it            *)
(* (SimBrokerLedger) and that the broker implements the accounting book    *)
(* (SimBrokerBook).                                                        *)
(***************************************************************************)
EXTENDS SimBrokerLedger, SimBrokerBook, FoldLemmas

-----------------------------------------------------------------------------
(* The operators the broker is built from *)

\* The shares of finitely many lots are finitely many.
LEMMA SharesFinite ==
  ASSUME NEW S, IsFiniteSet(S), NEW f, \A x \in S : f[x] \in Nat
  PROVE  IsFiniteSet(UNION {{x} \X (1..f[x]) : x \in S})
<1> DEFINE Tokens(x) == {x} \X (1..f[x])
<1>1. \A x \in S : IsFiniteSet(Tokens(x))
  <2> TAKE x \in S
  <2>1. IsFiniteSet({x})
    BY FS_Singleton
  <2>2. IsFiniteSet(1..f[x])
    BY FS_Interval
  <2> QED BY <2>1, <2>2, FS_Product
<1>2. IsFiniteSet({Tokens(x) : x \in S})
  <2> DEFINE T == {Tokens(x) : x \in S}
             g == [x \in S |-> Tokens(x)]
  <2>1. g \in Surjection(S, T)
    <3>1. g \in [S -> T] /\ \A t \in T : \E x \in S : g[x] = t
      OBVIOUS
    <3> QED BY <3>1 DEF Surjection
  <2> HIDE DEF g, T
  <2>2. IsFiniteSet(T)
    BY <2>1, FS_Surjection
  <2> QED BY <2>2 DEF T
<1>3. \A T \in {Tokens(x) : x \in S} : IsFiniteSet(T)
  BY <1>1
<1>4. IsFiniteSet(UNION {Tokens(x) : x \in S})
  <2> HIDE DEF Tokens
  <2> QED BY <1>2, <1>3, FS_UNION
<1> QED BY <1>4

\* A total over a finite set is a natural number.
LEMMA TotalType ==
  ASSUME NEW S, IsFiniteSet(S), NEW f, \A x \in S : f[x] \in Nat
  PROVE  Total(f, S) \in Nat
BY SharesFinite, FS_CardinalityType DEF Total

\* Rescaling a count by a whole ratio and flooring it gives a count.
LEMMA FloorRatioType ==
  ASSUME NEW q \in Nat, NEW ratio \in Ratios
  PROVE  FloorRatio(q, ratio) \in Nat
<1>1. ratio[1] \in Nat /\ ratio[2] \in Nat \ {0}
  BY RatiosAssumption
<1>2. q * ratio[1] \in Nat
  BY <1>1
<1>3. \A n \in Nat, d \in Nat \ {0} : n \div d \in Nat
  OBVIOUS
<1> QED BY <1>1, <1>2, <1>3 DEF FloorRatio

\* The impact charged per share is a whole amount.
LEMMA SlippageType ==
  ASSUME NEW bar \in Bars, NEW shares \in Nat
  PROVE  Slippage(bar, shares) \in Int
<1>1. Reference[bar] \in Nat /\ TradedValue[bar] \in Nat \ {0} /\ Impact \in Nat
  BY BarsAssumption, CostAssumption
<1>2. Reference[bar] * shares \in Nat
  BY <1>1
<1>3. \A n \in Int, d \in Nat \ {0} : n \div d \in Int
  OBVIOUS
<1> DEFINE capped == IF Reference[bar] * shares < TradedValue[bar]
                     THEN Reference[bar] * shares ELSE TradedValue[bar]
<1>4. capped \in Nat
  BY <1>1, <1>2
<1> HIDE DEF capped
<1>5. Impact * capped + TradedValue[bar] - 1 \in Int
  BY <1>1, <1>4
<1>6. (Impact * capped + TradedValue[bar] - 1) \div TradedValue[bar] \in Int
  BY <1>1, <1>3, <1>5
<1> QED BY <1>6 DEF Slippage, capped

\* A fill's price is a whole amount.
LEMMA FillPriceType ==
  ASSUME NEW bar \in Bars, NEW side \in Sides, NEW shares \in Nat
  PROVE  FillPrice(bar, side, shares) \in Int
<1>1. Reference[bar] \in Nat
  BY BarsAssumption
<1> QED BY <1>1, SlippageType DEF FillPrice

\* What a fill moves in cash is a whole amount, of either sign.
LEMMA NetAmountType ==
  ASSUME NEW side \in Sides, NEW turnover \in Int, NEW dpDue \in BOOLEAN
  PROVE  NetAmount(side, turnover, dpDue) \in Int
<1>1. ChargeRate \in Nat /\ DpCharge \in Nat
  BY CostAssumption
<1>2. turnover * ChargeRate + 50 \in Int
  BY <1>1
<1>3. (turnover * ChargeRate + 50) \div 100 \in Int
  BY <1>2
<1> QED BY <1>1, <1>3 DEF NetAmount

\* The calendar is finite, and so is every set of its sessions.
LEMMA SessionsFinite ==
  ASSUME NEW S \in SUBSET Sessions
  PROVE  IsFiniteSet(S)
<1>1. IsFiniteSet(Sessions)
  BY CalendarAssumption, FS_Interval DEF Sessions
<1> QED BY <1>1, FS_Subset

\* What a caller of held_quantity gets back is a share count.
LEMMA HeldQuantityType ==
  ASSUME TypeOK, NEW isin \in Isins, NEW before
  PROVE  HeldQuantity(isin, before) \in Nat
<1>1. Before(before) \in SUBSET Sessions
  BY DEF Before
<1>2. IsFiniteSet(Before(before))
  BY <1>1, SessionsFinite
<1>3. \A t \in Before(before) : pending[isin][t] \in Nat
  BY <1>1 DEF TypeOK
<1>4. Total(pending[isin], Before(before)) \in Nat
  BY <1>2, <1>3, TotalType
<1> QED BY <1>4 DEF HeldQuantity, TypeOK

-----------------------------------------------------------------------------
(* Type correctness *)

\* A new broker is well typed.
LEMMA InitType == Init => TypeOK
<1> SUFFICES ASSUME Init PROVE TypeOK
  OBVIOUS
<1>1. orders \in [Known -> Order] /\ Known \subseteq 0..(nextOrder - 1)
  BY DEF Init, Known
<1> QED BY <1>1, CalendarAssumption, CashAssumption, CreditsAssumption
        DEF Init, TypeOK, NoShares, Known

\* A placement keeps the types: the next id, and an order for the next session.
LEMMA PlaceType ==
  ASSUME TypeOK, NEW isin \in Isins, NEW side \in Sides, NEW q \in Quantities,
         Place(isin, side, q)
  PROVE  TypeOK'
<1>1. q \in Nat \ {0}
  BY QuantityAssumption
<1>2. today + 1 \in Sessions /\ nextOrder + 1 \in 0..MaxOrders
  BY CalendarAssumption DEF TypeOK, Place, Sessions
<1>3. Known' = Known \cup {nextOrder}
  BY DEF Place, Known
<1>4. orders' \in [Known' -> Order]
  BY <1>1, <1>2, <1>3 DEF TypeOK, Place, Order, Known
<1>5. Known' \subseteq 0..(nextOrder' - 1)
  BY <1>3, CalendarAssumption DEF TypeOK, Place
<1> QED BY <1>2, <1>3, <1>4, <1>5 DEF TypeOK, Place, book, execution

\* Replacing one known order by an order leaves a table of orders on the same ids.
LEMMA OrderChanged ==
  ASSUME TypeOK, NEW id \in Known, NEW o \in Order, orders' = [orders EXCEPT ![id] = o]
  PROVE  orders' \in [Known -> Order] /\ Known' = Known
<1>1. orders \in [Known -> Order]
  BY DEF TypeOK
<1>2. orders' \in [Known -> Order]
  BY <1>1
<1> QED BY <1>1, <1>2 DEF Known

\* Re-sizing a staged order keeps the types.
LEMMA ModifyType ==
  ASSUME TypeOK, NEW id \in Known, NEW q \in Quantities, Modify(id, q)
  PROVE  TypeOK'
<1>1. q \in Nat \ {0}
  BY QuantityAssumption
<1> DEFINE o == [orders[id] EXCEPT !.quantity = q]
<1>2. o \in Order
  <2>1. orders[id] \in Order
    BY DEF TypeOK
  <2> QED BY <1>1, <2>1 DEF Order
<1>3. orders' = [orders EXCEPT ![id] = o]
  BY DEF Modify
<1> HIDE DEF o
<1>4. orders' \in [Known -> Order] /\ Known' = Known
  BY <1>2, <1>3, OrderChanged
<1> QED BY <1>4 DEF TypeOK, Modify, book, execution

\* Cancelling keeps the types.
LEMMA CancelType ==
  ASSUME TypeOK, NEW id \in Known, Cancel(id)
  PROVE  TypeOK'
<1> DEFINE o == [orders[id] EXCEPT !.status = "CANCELLED"]
<1>1. o \in Order
  <2>1. orders[id] \in Order
    BY DEF TypeOK
  <2> QED BY <2>1 DEF Order
<1>2. orders' = [orders EXCEPT ![id] = o]
  BY DEF Cancel
<1> HIDE DEF o
<1>3. orders' \in [Known -> Order] /\ Known' = Known
  BY <1>1, <1>2, OrderChanged
<1> QED BY <1>3 DEF TypeOK, Cancel, book, execution

\* Executing a session keeps the types: what it takes up are known orders.
LEMMA ExecuteSessionType ==
  ASSUME TypeOK, ExecuteSession
  PROVE  TypeOK'
<1>1. Known' = Known
  BY DEF ExecuteSession, Known
<1>2. IsFiniteSet(Known)
  <2>1. IsFiniteSet(0..(nextOrder - 1))
    BY FS_Interval, CalendarAssumption DEF TypeOK
  <2> QED BY <2>1, FS_Subset DEF TypeOK
<1>3. DueOrders \in SUBSET Known
  BY DEF DueOrders
<1> DEFINE quantities == [id \in Known |-> orders[id].quantity]
           ofKey(k) == {id \in DueOrders : <<orders[id].isin, orders[id].side>> = k}
<1>4. \A k \in Isins \X Sides : Total(quantities, ofKey(k)) \in Nat
  <2> TAKE k \in Isins \X Sides
  <2>1. ofKey(k) \in SUBSET Known
    BY <1>3
  <2>2. IsFiniteSet(ofKey(k))
    BY <2>1, <1>2, FS_Subset
  <2>3. \A id \in ofKey(k) : quantities[id] \in Nat
    BY <2>1 DEF TypeOK, Order
  <2> HIDE DEF quantities, ofKey
  <2> QED BY <2>2, <2>3, TotalType
<1>5. sessionQty' \in [Isins \X Sides -> Nat]
  <2>1. sessionQty' = [k \in Isins \X Sides |-> Total(quantities, ofKey(k))]
    BY DEF ExecuteSession
  <2> HIDE DEF quantities, ofKey
  <2> QED BY <2>1, <1>4
<1> QED BY <1>1, <1>3, <1>5 DEF TypeOK, ExecuteSession, book

\* Settling what is owed keeps the types.
LEMMA SettleTradesType ==
  ASSUME TypeOK, NEW t \in Sessions, SettleTrades(t)
  PROVE  TypeOK'
<1>1. holdings' \in [Isins -> Nat] /\ pending' \in [Isins -> [Sessions -> Nat]]
  BY DEF TypeOK, SettleTrades
<1>2. cash' \in Int /\ receivables' \in [Sessions -> Int]
  BY DEF TypeOK, SettleTrades
<1>3. Known' = Known
  BY DEF SettleTrades, Known
<1> QED BY <1>1, <1>2, <1>3 DEF TypeOK, SettleTrades, execution

\* What the fill of a staged order costs or brings is a whole amount.
LEMMA NetOfType ==
  ASSUME TypeOK, NEW id \in Known, <<orders[id].isin, today>> \in Bars
  PROVE  PriceOf(orders[id]) \in Int /\ NetOf(orders[id]) \in Int
<1> DEFINE o == orders[id]
<1>1. o.isin \in Isins /\ o.side \in Sides /\ o.quantity \in Nat
  BY DEF TypeOK, Order
<1>2. sessionQty[<<o.isin, o.side>>] \in Nat
  BY <1>1 DEF TypeOK
<1>3. PriceOf(o) \in Int
  BY <1>1, <1>2, FillPriceType DEF PriceOf
<1>4. o.quantity * PriceOf(o) \in Int
  BY <1>1, <1>3
<1>5. NetOf(o) \in Int
  BY <1>1, <1>4, NetAmountType DEF NetOf, DpDue
<1> QED BY <1>3, <1>5

\* A rejection keeps the types.
LEMMA RejectOrderType ==
  ASSUME TypeOK, NEW id \in due, RejectOrder(id)
  PROVE  TypeOK'
<1> DEFINE o == [orders[id] EXCEPT !.status = "REJECTED"]
<1>1. id \in Known
  BY DEF TypeOK
<1>2. o \in Order
  <2>1. orders[id] \in Order
    BY <1>1 DEF TypeOK
  <2> QED BY <2>1 DEF Order
<1>3. orders' = [orders EXCEPT ![id] = o]
  BY DEF RejectOrder
<1> HIDE DEF o
<1>4. orders' \in [Known -> Order] /\ Known' = Known
  BY <1>1, <1>2, <1>3, OrderChanged
<1> QED BY <1>4 DEF TypeOK, RejectOrder, book, IsNext

\* A buy's fill keeps the types: its shares wait for their session or settle at once.
LEMMA FillBuyType ==
  ASSUME TypeOK, NEW id \in due, FillBuy(id)
  PROVE  TypeOK'
<1> DEFINE o == orders[id]
<1>1. id \in Known /\ o \in Order
  BY DEF TypeOK
<1>2. PriceOf(o) \in Int /\ NetOf(o) \in Int
  BY <1>1, NetOfType DEF FillBuy, Fillable
<1>3. cash' \in Int
  BY <1>2 DEF TypeOK, FillBuy
<1>4. pending' \in [Isins -> [Sessions -> Nat]]
  <2>1. o.isin \in Isins /\ o.quantity \in Nat
    BY <1>1 DEF Order
  <2> DEFINE lots == [pending[o.isin] EXCEPT ![today] = pending[o.isin][today] + o.quantity]
  <2>2. pending' = [pending EXCEPT ![o.isin] = lots]
    BY DEF FillBuy
  <2>3. lots \in [Sessions -> Nat]
    <3>1. pending[o.isin] \in [Sessions -> Nat]
      BY <2>1 DEF TypeOK
    <3>2. \A t \in Sessions : pending[o.isin][t] + o.quantity \in Nat
      BY <2>1, <3>1
    <3> QED BY <3>1, <3>2
  <2> HIDE DEF lots
  <2> QED BY <2>1, <2>2, <2>3 DEF TypeOK
<1>5. Filled(o) \in Order
  BY <1>1, <1>2 DEF Filled, Order, DpDue
<1>6. orders' \in [Known -> Order] /\ Known' = Known
  BY <1>1, <1>5, OrderChanged DEF FillBuy
<1> QED BY <1>3, <1>4, <1>6 DEF TypeOK, FillBuy, IsNext

\* A sell's fill keeps the types: it never sells more than is held.
LEMMA FillSellType ==
  ASSUME TypeOK, NEW id \in due, FillSell(id)
  PROVE  TypeOK'
<1> DEFINE o == orders[id]
<1>1. id \in Known /\ o \in Order
  BY DEF TypeOK
<1>2. PriceOf(o) \in Int /\ NetOf(o) \in Int
  BY <1>1, NetOfType DEF FillSell, Fillable
<1>3. receivables' \in [Sessions -> Int]
  <2>1. receivables' = [receivables EXCEPT ![today] = receivables[today] + NetOf(o)]
    BY DEF FillSell
  <2>2. \A t \in Sessions : receivables[t] + NetOf(o) \in Int
    BY <1>2 DEF TypeOK
  <2> QED BY <2>1, <2>2 DEF TypeOK
<1>4. holdings' \in [Isins -> Nat]
  <2>1. o.quantity <= holdings[o.isin]
    BY DEF FillSell, Fillable
  <2> QED BY <1>1, <2>1 DEF TypeOK, FillSell, Order
<1>5. Filled(o) \in Order
  BY <1>1, <1>2 DEF Filled, Order, DpDue
<1>6. orders' \in [Known -> Order] /\ Known' = Known
  BY <1>1, <1>5, OrderChanged DEF FillSell
<1>7. sold' \subseteq Isins
  BY <1>1 DEF TypeOK, FillSell, Order
<1> QED BY <1>3, <1>4, <1>6, <1>7 DEF TypeOK, FillSell, IsNext

\* Releasing the proceeds the next session settles keeps the types.
LEMMA ReleaseAheadType ==
  ASSUME TypeOK, NEW t \in Sessions, ReleaseAhead(t)
  PROVE  TypeOK'
<1>1. cash' \in Int /\ releasedAhead' \in Int /\ receivables' \in [Sessions -> Int]
  BY DEF TypeOK, ReleaseAhead
<1>2. Known' = Known
  BY DEF ReleaseAhead, Known
<1> QED BY <1>1, <1>2 DEF TypeOK, ReleaseAhead, execution

\* The broker's value changes, its orders and the running session do not.
LEMMA BookMoved ==
  ASSUME TypeOK, UNCHANGED <<today, orders, nextOrder, execution>>,
         cash' \in Int, releasedAhead' \in Int, currentSession' \in 0..LastSession,
         holdings' \in [Isins -> Nat], pending' \in [Isins -> [Sessions -> Nat]],
         receivables' \in [Sessions -> Int], credits' \in 0..MaxCredits
  PROVE  TypeOK'
BY DEF TypeOK, execution, Known

\* Every step of the session's own control flow keeps the types.
LEMMA ControlType ==
  ASSUME TypeOK, Settled \/ StartRelease \/ EndSession
  PROVE  TypeOK'
<1>1. Known' = Known
  BY DEF Settled, StartRelease, EndSession, Known
<1>2. CASE Settled
  BY <1>1, <1>2 DEF TypeOK, Settled
<1>3. CASE StartRelease
  BY <1>1, <1>3 DEF TypeOK, StartRelease
<1>4. CASE EndSession
  BY <1>1, <1>4 DEF TypeOK, EndSession, book
<1> QED BY <1>2, <1>3, <1>4

\* The bound on bookings and credits is respected.
LEMMA CreditsType ==
  ASSUME TypeOK, credits < MaxCredits, credits' = credits + 1
  PROVE  credits' \in 0..MaxCredits
BY CreditsAssumption DEF TypeOK

\* A booking changes the holdings, the lots, cash and the staged orders, and nothing else.
LEMMA BookingType ==
  ASSUME TypeOK, credits < MaxCredits, credits' = credits + 1,
         UNCHANGED <<today, releasedAhead, currentSession, receivables, nextOrder, execution>>,
         cash' \in Int, holdings' \in [Isins -> Nat],
         pending' \in [Isins -> [Sessions -> Nat]],
         orders' \in [Known -> Order], Known' = Known
  PROVE  TypeOK'
<1>1. credits' \in 0..MaxCredits
  BY CreditsType
<1> QED BY <1>1 DEF TypeOK, execution

\* A split's floored counts and staged orders keep the types.
LEMMA ApplyShareRescaleType ==
  ASSUME TypeOK, NEW isin \in Isins, NEW ratio \in Ratios, ApplyShareRescale(isin, ratio)
  PROVE  TypeOK'
<1> DEFINE lots      == {t \in Before(today) : pending[isin][t] > 0}
           scaled    == [t \in Sessions |-> IF t \in lots THEN FloorRatio(pending[isin][t], ratio)
                                                         ELSE pending[isin][t]]
           remainder == FloorRatio(HeldQuantity(isin, today), ratio) - Total(scaled, lots)
           lastLot   == CHOOSE t \in lots : \A other \in lots : other <= t
<1>1. pending[isin] \in [Sessions -> Nat]
  BY DEF TypeOK
<1>2. scaled \in [Sessions -> Nat]
  BY <1>1, FloorRatioType
<1>3. remainder \in Int
  <2>1. FloorRatio(HeldQuantity(isin, today), ratio) \in Nat
    BY HeldQuantityType, FloorRatioType
  <2>2. lots \in SUBSET Sessions
    BY DEF Before
  <2>3. Total(scaled, lots) \in Nat
    <3>1. \A t \in lots : scaled[t] \in Nat
      BY <1>2, <2>2
    <3>2. IsFiniteSet(lots)
      BY <2>2, SessionsFinite
    <3> HIDE DEF scaled, lots
    <3> QED BY <3>1, <3>2, TotalType
  <2> HIDE DEF scaled, lots
  <2> QED BY <2>1, <2>3
<1>4. holdings' \in [Isins -> Nat]
  <2>1. holdings' = [holdings EXCEPT ![isin] = IF holdings[isin] > 0 /\ remainder > 0
                                               THEN remainder ELSE 0]
    BY DEF ApplyShareRescale
  <2> HIDE DEF remainder
  <2> QED BY <1>3, <2>1 DEF TypeOK
<1>5. pending' \in [Isins -> [Sessions -> Nat]]
  <2> DEFINE topped == [scaled EXCEPT ![lastLot] = scaled[lastLot] + remainder]
  <2>1. pending' = [pending EXCEPT ![isin] = IF ~(holdings[isin] > 0) /\ remainder > 0
                                             THEN topped ELSE scaled]
    BY DEF ApplyShareRescale
  <2>2. ASSUME remainder > 0 PROVE topped \in [Sessions -> Nat]
    <3> HIDE DEF remainder, scaled, lastLot
    <3>1. \A t \in Sessions : scaled[t] + remainder \in Nat
      BY <1>2, <1>3, <2>2
    <3> QED BY <1>2, <3>1
  <2> HIDE DEF remainder, scaled, lastLot, topped
  <2> QED BY <1>2, <2>1, <2>2 DEF TypeOK
<1>6. orders' \in [Known -> Order] /\ Known' = Known
  <2> DEFINE F(id) == IF id \in StagedFor(isin) THEN Rescaled(orders[id], ratio) ELSE orders[id]
  <2>1. \A id \in Known : F(id) \in Order
    <3> TAKE id \in Known
    <3>1. orders[id] \in Order
      BY DEF TypeOK
    <3>2. FloorRatio(orders[id].quantity, ratio) \in Nat
      BY <3>1, FloorRatioType DEF Order
    <3>3. Rescaled(orders[id], ratio) \in Order
      BY <3>1, <3>2 DEF Rescaled, Order
    <3> QED BY <3>1, <3>3
  <2>2. orders' = [id \in Known |-> F(id)]
    BY DEF ApplyShareRescale
  <2> HIDE DEF F
  <2> QED BY <2>1, <2>2 DEF Known
<1>7. /\ credits < MaxCredits /\ credits' = credits + 1 /\ cash' = cash
      /\ UNCHANGED <<today, releasedAhead, currentSession, receivables, nextOrder, execution>>
  BY DEF ApplyShareRescale, BookingAllowed
<1>8. cash' \in Int
  BY <1>7 DEF TypeOK
<1> QED BY <1>4, <1>5, <1>6, <1>7, <1>8, BookingType

\* A reissue, which moves a scrip's shares and orders to another, keeps the types.
LEMMA CarryOverType ==
  ASSUME TypeOK, NEW from \in Isins, NEW to \in Isins, CarryOver(from, to)
  PROVE  TypeOK'
<1>1. holdings' \in [Isins -> Nat]
  <2>1. holdings[to] + holdings[from] \in Nat
    BY DEF TypeOK
  <2>2. holdings' = [holdings EXCEPT ![from] = 0, ![to] = holdings[to] + holdings[from]]
    BY ZenonT(60) DEF CarryOver
  <2> QED BY <2>1, <2>2 DEF TypeOK
<1>2. pending' \in [Isins -> [Sessions -> Nat]]
  <2> DEFINE none   == [t \in Sessions |-> 0]
             merged == [t \in Sessions |-> pending[to][t] + pending[from][t]]
  <2>1. none \in [Sessions -> Nat] /\ merged \in [Sessions -> Nat]
    BY DEF TypeOK
  <2>2. pending' = [pending EXCEPT ![from] = none, ![to] = merged]
    BY ZenonT(60) DEF CarryOver
  <2> HIDE DEF none, merged
  <2> QED BY <2>1, <2>2 DEF TypeOK
<1>3. orders' \in [Known -> Order] /\ Known' = Known
  <2> DEFINE F(id) == IF id \in StagedFor(from)
                      THEN [orders[id] EXCEPT !.isin = to, !.carried = TRUE] ELSE orders[id]
  <2>1. ASSUME NEW id \in Known PROVE F(id) \in Order
    <3>1. orders[id] \in Order
      BY DEF TypeOK
    <3> QED BY <3>1 DEF Order
  <2>2. orders' = [id \in Known |-> F(id)]
    BY ZenonT(60) DEF CarryOver
  <2> HIDE DEF F
  <2> QED BY <2>1, <2>2 DEF Known
<1>4. /\ credits < MaxCredits /\ credits' = credits + 1 /\ cash' = cash
      /\ UNCHANGED <<today, releasedAhead, currentSession, receivables, nextOrder, execution>>
  BY ZenonT(60) DEF CarryOver, BookingAllowed
<1>5. cash' \in Int
  BY <1>4 DEF TypeOK
<1> QED BY <1>1, <1>2, <1>3, <1>4, <1>5, BookingType

\* A delisting, which cancels a scrip's orders and takes its shares, keeps the types.
LEMMA SurrenderType ==
  ASSUME TypeOK, NEW isin \in Isins, Surrender(isin)
  PROVE  TypeOK'
<1>1. holdings' \in [Isins -> Nat]
  BY DEF TypeOK, Surrender
<1>2. pending' \in [Isins -> [Sessions -> Nat]]
  <2> DEFINE kept == [t \in Sessions |-> IF t < today THEN 0 ELSE pending[isin][t]]
  <2>1. kept \in [Sessions -> Nat]
    BY DEF TypeOK
  <2>2. pending' = [pending EXCEPT ![isin] = kept]
    BY DEF Surrender
  <2> HIDE DEF kept
  <2> QED BY <2>1, <2>2 DEF TypeOK
<1>3. orders' \in [Known -> Order] /\ Known' = Known
  <2> DEFINE F(id) == IF id \in StagedFor(isin)
                      THEN [orders[id] EXCEPT !.status = "CANCELLED"] ELSE orders[id]
  <2>1. ASSUME NEW id \in Known PROVE F(id) \in Order
    <3>1. orders[id] \in Order
      BY DEF TypeOK
    <3> QED BY <3>1 DEF Order
  <2>2. orders' = [id \in Known |-> F(id)]
    BY DEF Surrender
  <2> HIDE DEF F
  <2> QED BY <2>1, <2>2 DEF Known
<1>4. /\ credits < MaxCredits /\ credits' = credits + 1
      /\ cash' = cash + HeldQuantity(isin, today)
      /\ UNCHANGED <<today, releasedAhead, currentSession, receivables, nextOrder, execution>>
  BY DEF Surrender, BookingAllowed
<1>5. cash' \in Int
  BY <1>4, HeldQuantityType DEF TypeOK
<1> QED BY <1>1, <1>2, <1>3, <1>4, <1>5, BookingType

\* A credit keeps the types.
LEMMA CreditCashType ==
  ASSUME TypeOK, NEW amount \in Credits, CreditCash(amount)
  PROVE  TypeOK'
<1>1. amount \in Int
  BY CreditsAssumption
<1>2. credits' \in 0..MaxCredits
  BY CreditsType DEF CreditCash
<1>3. Known' = Known
  BY DEF CreditCash, Known
<1> QED BY <1>1, <1>2, <1>3 DEF TypeOK, CreditCash, execution

\* The next day's opening and a restart from the saved state keep the types.
LEMMA EnvironmentType ==
  ASSUME TypeOK, NextDay \/ Restore
  PROVE  TypeOK'
<1>1. CASE NextDay
  <2>1. Known' = Known
    BY <1>1 DEF NextDay, Known
  <2>2. today' \in 0..LastSession
    BY <1>1, CalendarAssumption DEF TypeOK, NextDay
  <2> QED BY <1>1, <2>1, <2>2 DEF TypeOK, NextDay, book, execution
<1>2. CASE Restore
  <2>1. Known' \subseteq Known /\ orders' \in [Known' -> Order]
    BY <1>2 DEF TypeOK, Restore, Known
  <2> QED BY <1>2, <2>1 DEF TypeOK, Restore, book, execution
<1> QED BY <1>1, <1>2

\* Every step keeps the types.
LEMMA TypeKept == ASSUME TypeOK, [Next]_vars PROVE TypeOK'
<1>1. CASE UNCHANGED vars
  BY <1>1 DEF TypeOK, vars, book, execution, Known
<1>2. CASE \E isin \in Isins, side \in Sides, q \in Quantities : Place(isin, side, q)
  BY <1>2, PlaceType
<1>3. CASE \E id \in Known, q \in Quantities : Modify(id, q)
  BY <1>3, ModifyType
<1>4. CASE \E id \in Known : Cancel(id)
  BY <1>4, CancelType
<1>5. CASE ExecuteSession
  BY <1>5, ExecuteSessionType
<1>6. CASE \E t \in Sessions : SettleTrades(t)
  BY <1>6, SettleTradesType
<1>7. CASE Settled \/ StartRelease \/ EndSession
  BY <1>7, ControlType
<1>8. CASE \E id \in due : RejectOrder(id)
  BY <1>8, RejectOrderType
<1>9. CASE \E id \in due : FillBuy(id)
  BY <1>9, FillBuyType
<1>10. CASE \E id \in due : FillSell(id)
  BY <1>10, FillSellType
<1>11. CASE \E t \in Sessions : ReleaseAhead(t)
  BY <1>11, ReleaseAheadType
<1>12. CASE \E isin \in Isins, ratio \in Ratios : ApplyShareRescale(isin, ratio)
  BY <1>12, ApplyShareRescaleType
<1>13. CASE \E from, to \in Isins : CarryOver(from, to)
  BY <1>13, CarryOverType
<1>14. CASE \E isin \in Isins : Surrender(isin)
  BY <1>14, SurrenderType
<1>15. CASE \E amount \in Credits : CreditCash(amount)
  BY <1>15, CreditCashType
<1>16. CASE NextDay \/ Restore
  BY <1>16, EnvironmentType
<1> QED BY <1>1, <1>2, <1>3, <1>4, <1>5, <1>6, <1>7, <1>8, <1>9, <1>10, <1>11, <1>12,
           <1>13, <1>14, <1>15, <1>16 DEF Next

\* The broker's fields and the session's locals keep their types: no count is ever
\* negative, whatever is rescaled, surrendered, carried over or sold, on any market.
THEOREM TypeCorrect == Spec => []TypeOK
<1>1. Init => TypeOK
  BY InitType
<1>2. TypeOK /\ [Next]_vars => TypeOK'
  BY TypeKept
<1> QED BY <1>1, <1>2, PTL DEF Spec

-----------------------------------------------------------------------------
(* Where execute_session is: what its steps may count on *)

\* Where execute_session is, against the calendar and the order table.
Underway ==
  /\ currentSession <= today
  /\ phase \in {"fill", "release"} => currentSession = today
  /\ phase = "settle" => currentSession < today /\ sold = {}
  /\ phase # "idle" => today \in Sessions /\ due = DueOrders
  /\ phase = "idle" /\ currentSession = today => DueOrders = {}
  /\ \A id \in Known : orders[id].status = "COMPLETE" => orders[id].target <= currentSession

\* A staged order changed: still the same side of the same session, of the same scrip unless
\* carried over from another.
Changes(id, o) ==
  /\ IsStaged(id) /\ o.status \in {"STAGED", "CANCELLED"}
  /\ o.target = orders[id].target /\ o.side = orders[id].side
  /\ o.carried \/ (o.isin = orders[id].isin /\ o.carried = orders[id].carried)

\* What any step outside execute_session does to the orders: one may be placed for the next
\* session, a staged one may change or be cancelled, and a restart keeps the staged ones only.
Quiet ==
  /\ phase = "idle" /\ UNCHANGED <<currentSession, execution>>
  /\ today' = today \/ today' = today + 1
  /\ \A id \in Known' :
       \/ /\ id \notin Known /\ today' = today
          /\ orders'[id].status = "STAGED" /\ orders'[id].target = today + 1
       \/ id \in Known /\ orders'[id] = orders[id]
       \/ id \in Known /\ Changes(id, orders'[id])
  /\ Known \subseteq Known' \/ \A id \in Known' : orders'[id].status = "STAGED"

\* Placing an order is quiet.
LEMMA PlaceQuiet ==
  ASSUME TypeOK, NEW isin \in Isins, NEW side \in Sides, NEW q \in Quantities,
         Place(isin, side, q)
  PROVE  Quiet
<1>1. Known' = Known \cup {nextOrder} /\ nextOrder \notin Known
  BY DEF Place, Known, TypeOK
<1>2. \A id \in Known : orders'[id] = orders[id]
  BY <1>1 DEF Place
<1>3. orders'[nextOrder].status = "STAGED" /\ orders'[nextOrder].target = today + 1
  BY DEF Place
<1> QED BY <1>1, <1>2, <1>3 DEF Quiet, Place, book, execution

\* So is changing or cancelling a staged one.
LEMMA ModifyQuiet ==
  ASSUME TypeOK, NEW id \in Known, Cancel(id) \/ \E q \in Quantities : Modify(id, q)
  PROVE  Quiet
<1>1. Known' = Known /\ IsStaged(id)
  BY DEF Cancel, Modify, Known, TypeOK
<1>2. \A k \in Known : k # id => orders'[k] = orders[k]
  BY DEF Cancel, Modify, TypeOK
<1>3. orders[id] \in Order
  BY DEF TypeOK
<1>4. Changes(id, orders'[id])
  BY <1>1, <1>3 DEF Cancel, Modify, TypeOK, Order, IsStaged, Changes
<1> QED BY <1>1, <1>2, <1>4 DEF Quiet, Cancel, Modify, book, execution

\* A corporate action touches the staged orders of its scrip and no other.
LEMMA BookingOrders ==
  ASSUME TypeOK, NEW isin \in Isins, NEW changed,
         \A id \in Known : IsStaged(id) => Changes(id, changed[id]),
         orders' = [id \in Known |-> IF id \in StagedFor(isin) THEN changed[id] ELSE orders[id]],
         phase = "idle", UNCHANGED <<today, currentSession, execution>>
  PROVE  Quiet
<1>1. Known' = Known
  BY DEF Known
<1>2. ASSUME NEW id \in Known
      PROVE  orders'[id] = orders[id] \/ Changes(id, orders'[id])
  <2>1. orders'[id] = IF id \in StagedFor(isin) THEN changed[id] ELSE orders[id]
    OBVIOUS
  <2> QED BY <2>1 DEF StagedFor
<1> QED BY <1>1, <1>2 DEF Quiet

\* A rescale is quiet.
LEMMA RescaleQuiet ==
  ASSUME TypeOK, NEW isin \in Isins, NEW ratio \in Ratios,
         ApplyShareRescale(isin, ratio)
  PROVE  Quiet
<1> DEFINE F(id) == Rescaled(orders[id], ratio)
           changed == [id \in Known |-> F(id)]
<1>1. orders' = [id \in Known |-> IF id \in StagedFor(isin) THEN F(id) ELSE orders[id]]
  BY DEF ApplyShareRescale
<1>2. phase = "idle" /\ UNCHANGED <<today, currentSession, execution>>
  BY DEF ApplyShareRescale, BookingAllowed
<1>3. ASSUME NEW id \in Known, IsStaged(id) PROVE Changes(id, F(id))
  <2>1. orders[id] \in Order
    BY DEF TypeOK
  <2> QED BY <1>3, <2>1 DEF Changes, Rescaled, Order, IsStaged
<1> HIDE DEF F
<1>4. /\ \A id \in Known : IsStaged(id) => Changes(id, changed[id])
      /\ orders' = [id \in Known |-> IF id \in StagedFor(isin) THEN changed[id] ELSE orders[id]]
  BY <1>1, <1>3 DEF StagedFor
<1> HIDE DEF changed
<1> QED BY <1>2, <1>4, BookingOrders

\* So is a reissue.
LEMMA CarryOverQuiet ==
  ASSUME TypeOK, NEW from \in Isins, NEW to \in Isins, CarryOver(from, to)
  PROVE  Quiet /\ Known' = Known
<1>1. phase = "idle" /\ UNCHANGED <<today, currentSession, execution>>
  BY ZenonT(60) DEF CarryOver, BookingAllowed
<1> DEFINE F(id) == IF id \in StagedFor(from)
                    THEN [orders[id] EXCEPT !.isin = to, !.carried = TRUE] ELSE orders[id]
<1>2. orders' = [id \in Known |-> F(id)]
  BY ZenonT(60) DEF CarryOver
<1>3. ASSUME NEW id \in StagedFor(from) PROVE Changes(id, F(id))
  <2>1. orders[id] \in Order
    BY DEF TypeOK, StagedFor
  <2> QED BY <2>1 DEF Changes, Order, IsStaged, StagedFor
<1>4. \A id \in Known : id \notin StagedFor(from) => F(id) = orders[id]
  OBVIOUS
<1> HIDE DEF F
<1>5. Known' = Known /\ \A id \in Known : orders'[id] = F(id)
  BY <1>2 DEF Known
<1> QED BY <1>1, <1>3, <1>4, <1>5 DEF Quiet, StagedFor

\* So is a delisting.
LEMMA SurrenderQuiet ==
  ASSUME TypeOK, NEW isin \in Isins,
         Surrender(isin)
  PROVE  Quiet
<1> DEFINE F(id) == [orders[id] EXCEPT !.status = "CANCELLED"]
           changed == [id \in Known |-> F(id)]
<1>1. orders' = [id \in Known |-> IF id \in StagedFor(isin) THEN F(id) ELSE orders[id]]
  BY DEF Surrender
<1>2. phase = "idle" /\ UNCHANGED <<today, currentSession, execution>>
  BY DEF Surrender, BookingAllowed
<1>3. ASSUME NEW id \in Known, IsStaged(id) PROVE Changes(id, F(id))
  <2>1. orders[id] \in Order
    BY DEF TypeOK
  <2> QED BY <1>3, <2>1 DEF Changes, Order, IsStaged
<1> HIDE DEF F
<1>4. /\ \A id \in Known : IsStaged(id) => Changes(id, changed[id])
      /\ orders' = [id \in Known |-> IF id \in StagedFor(isin) THEN changed[id] ELSE orders[id]]
  BY <1>1, <1>3 DEF StagedFor
<1> HIDE DEF changed
<1> QED BY <1>2, <1>4, BookingOrders

\* A credit, a new day and a restart leave every staged order as it was.
LEMMA EnvironmentQuiet ==
  ASSUME TypeOK, (\E amount \in Credits : CreditCash(amount)) \/ NextDay \/ Restore
  PROVE  Quiet
<1>1. CASE (\E amount \in Credits : CreditCash(amount)) \/ NextDay
  <2>1. orders' = orders /\ Known' = Known
    BY <1>1 DEF CreditCash, NextDay, Known
  <2> QED BY <1>1, <2>1 DEF Quiet, CreditCash, NextDay, book, execution
<1>2. CASE Restore
  <2>1. Known' = {k \in Known : IsStaged(k)} /\ \A id \in Known' : orders'[id] = orders[id]
    BY <1>2 DEF Restore, Known
  <2> QED BY <1>2, <2>1 DEF Quiet, Restore, book, execution, IsStaged
<1> QED BY <1>1, <1>2

\* A quiet step leaves execute_session where it is.
LEMMA QuietUnderway ==
  ASSUME TypeOK, Underway, Quiet
  PROVE  Underway'
<1>1. /\ phase' = "idle" /\ currentSession' = currentSession /\ currentSession <= today
      /\ today \in Int /\ currentSession \in Int
  BY DEF Quiet, Underway, execution, TypeOK
<1>2. currentSession' <= today'
  BY <1>1 DEF Quiet
<1>3. ASSUME NEW id \in Known', orders'[id].status = "COMPLETE"
      PROVE  orders'[id].target <= currentSession'
  <2>1. id \in Known /\ orders'[id] = orders[id]
    BY <1>3 DEF Quiet, Changes
  <2> QED BY <1>1, <1>3, <2>1 DEF Underway
<1>4. ASSUME currentSession' = today', NEW id \in Known', orders'[id].status = "STAGED",
             orders'[id].target = today'
      PROVE  FALSE
  <2>1. today' = today /\ currentSession = today /\ DueOrders = {}
    BY <1>1, <1>4 DEF Quiet, Underway
  <2>2. id \in Known /\ IsStaged(id) /\ orders[id].target = today
    BY <1>1, <1>4, <2>1 DEF Quiet, IsStaged, Changes
  <2> QED BY <2>1, <2>2 DEF DueOrders
<1> QED BY <1>1, <1>2, <1>3, <1>4 DEF Underway, DueOrders, IsStaged, Known

\* Settling, and the turns of execute_session that touch no order, leave it where it says it is.
LEMMA ControlUnderway ==
  ASSUME TypeOK, Underway,
         \/ ExecuteSession \/ Settled \/ StartRelease \/ EndSession
         \/ \E t \in Sessions : SettleTrades(t) \/ ReleaseAhead(t)
  PROVE  Underway'
<1>1. orders' = orders /\ Known' = Known /\ today' = today
  BY DEF ExecuteSession, Settled, StartRelease, EndSession, SettleTrades, ReleaseAhead, Known
<1>2. DueOrders' = DueOrders
  BY <1>1 DEF DueOrders, IsStaged
<1>3. today \in Int /\ currentSession \in Int
  BY DEF TypeOK
<1>4. \A id \in Known : orders[id].target \in Int
  BY DEF TypeOK, Order, Sessions
<1>5. currentSession' \in Int /\ (currentSession' = currentSession \/ currentSession' = today)
  BY <1>3 DEF ExecuteSession, Settled, StartRelease, EndSession, SettleTrades, ReleaseAhead, book
<1>6. \A id \in Known' : orders'[id].status = "COMPLETE" => orders'[id].target <= currentSession'
  BY <1>1, <1>3, <1>4, <1>5 DEF Underway
<1>7. CASE ExecuteSession
  BY <1>1, <1>2, <1>3, <1>6, <1>7 DEF ExecuteSession, Underway, book
<1>8. CASE Settled
  BY <1>1, <1>2, <1>3, <1>6, <1>8 DEF Settled, Underway
<1>9. CASE StartRelease
  BY <1>1, <1>2, <1>3, <1>6, <1>9 DEF StartRelease, Underway
<1>10. CASE EndSession
  BY <1>1, <1>2, <1>3, <1>6, <1>10 DEF EndSession, Underway, TypeOK, book
<1>11. CASE \E t \in Sessions : SettleTrades(t)
  BY <1>1, <1>2, <1>3, <1>6, <1>11 DEF SettleTrades, Underway, execution
<1>12. CASE \E t \in Sessions : ReleaseAhead(t)
  BY <1>1, <1>2, <1>3, <1>6, <1>12 DEF ReleaseAhead, Underway, execution
<1> QED BY <1>7, <1>8, <1>9, <1>10, <1>11, <1>12

\* What resolving an order of the session does to it, and to no other.
LEMMA Resolves ==
  ASSUME TypeOK, Underway, NEW id \in due, RejectOrder(id) \/ FillBuy(id) \/ FillSell(id)
  PROVE  /\ Known' = Known /\ id \in Known /\ IsStaged(id) /\ orders[id].target = today
         /\ \A k \in Known : k # id => orders'[k] = orders[k]
         /\ orders'[id].isin = orders[id].isin /\ orders'[id].target = orders[id].target
         /\ orders'[id].side = orders[id].side /\ orders'[id].carried = orders[id].carried
         /\ RejectOrder(id) => orders'[id].status = "REJECTED"
         /\ FillBuy(id) \/ FillSell(id) =>
              /\ orders'[id].status = "COMPLETE"
              /\ orders'[id].price = PriceOf(orders[id]) /\ orders'[id].dp = DpDue(orders[id])
         /\ phase = "fill" /\ phase' = "fill" /\ due' = due \ {id} /\ sessionQty' = sessionQty
         /\ today' = today /\ currentSession' = currentSession
<1>1. /\ phase = "fill" /\ phase' = "fill" /\ due' = due \ {id} /\ sessionQty' = sessionQty
      /\ today' = today /\ currentSession' = currentSession
  BY DEF RejectOrder, FillBuy, FillSell, IsNext, book
<1>2. id \in Known /\ IsStaged(id) /\ orders[id].target = today
  BY <1>1 DEF Underway, DueOrders
<1>3. PICK o : orders' = [orders EXCEPT ![id] = o] /\
               o \in {Filled(orders[id]), [orders[id] EXCEPT !.status = "REJECTED"]} /\
               (RejectOrder(id) => o = [orders[id] EXCEPT !.status = "REJECTED"]) /\
               (FillBuy(id) \/ FillSell(id) => o = Filled(orders[id]))
  <2>1. CASE RejectOrder(id)
    <3>1. ~FillBuy(id) /\ ~FillSell(id)
      BY <2>1 DEF RejectOrder, FillBuy, FillSell
    <3> QED BY <2>1, <3>1 DEF RejectOrder
  <2>2. CASE FillBuy(id) \/ FillSell(id)
    <3>1. ~RejectOrder(id)
      BY <2>2 DEF RejectOrder, FillBuy, FillSell
    <3>2. orders' = [orders EXCEPT ![id] = Filled(orders[id])]
      BY <2>2 DEF FillBuy, FillSell
    <3> QED BY <3>1, <3>2
  <2> QED BY <2>1, <2>2
<1>4. Known' = Known /\ orders'[id] = o /\ \A k \in Known : k # id => orders'[k] = orders[k]
  BY <1>2, <1>3 DEF TypeOK, Known
<1>5. orders[id] \in Order
  BY <1>2 DEF TypeOK
<1>6. /\ o.isin = orders[id].isin /\ o.target = orders[id].target /\ o.side = orders[id].side
      /\ o.carried = orders[id].carried
      /\ RejectOrder(id) => o.status = "REJECTED"
      /\ FillBuy(id) \/ FillSell(id) => /\ o.status = "COMPLETE"
                                        /\ o.price = PriceOf(orders[id])
                                        /\ o.dp = DpDue(orders[id])
  <2>1. CASE o = [orders[id] EXCEPT !.status = "REJECTED"] /\ ~FillBuy(id) /\ ~FillSell(id)
    BY <1>5, <2>1 DEF Order
  <2>2. CASE o = Filled(orders[id]) /\ ~RejectOrder(id)
    BY <1>5, <2>2 DEF Filled, Order
  <2>3. RejectOrder(id) => ~FillBuy(id) /\ ~FillSell(id)
    BY DEF RejectOrder, FillBuy, FillSell
  <2> QED BY <1>3, <2>1, <2>2, <2>3
<1> QED BY <1>1, <1>2, <1>4, <1>6

\* Resolving an order takes it from those due.
LEMMA ResolvesUnderway ==
  ASSUME TypeOK, Underway, NEW id \in due, RejectOrder(id) \/ FillBuy(id) \/ FillSell(id)
  PROVE  Underway'
<1>1. /\ Known' = Known /\ id \in Known /\ IsStaged(id) /\ orders[id].target = today
      /\ \A k \in Known : k # id => orders'[k] = orders[k]
      /\ orders'[id].target = orders[id].target
      /\ orders'[id].status # "STAGED"
      /\ phase = "fill" /\ phase' = "fill" /\ due' = due \ {id}
      /\ today' = today /\ currentSession' = currentSession
  BY Resolves
<1>2. currentSession = today /\ today \in Sessions /\ due = DueOrders /\ currentSession \in Int
  BY <1>1 DEF Underway, TypeOK
<1>3. due' = DueOrders'
  BY <1>1, <1>2 DEF DueOrders, IsStaged
<1>4. \A k \in Known' : orders'[k].status = "COMPLETE" => orders'[k].target <= currentSession'
  BY <1>1, <1>2 DEF Underway
<1> QED BY <1>1, <1>2, <1>3, <1>4 DEF Underway

\* The kinds of steps there are.
LEMMA StepKinds ==
  ASSUME TypeOK, Next
  PROVE  \/ \E isin \in Isins, side \in Sides, q \in Quantities : Place(isin, side, q)
         \/ Quiet /\ Known' \subseteq Known
         \/ ExecuteSession \/ Settled \/ StartRelease \/ EndSession
         \/ \E t \in Sessions : SettleTrades(t) \/ ReleaseAhead(t)
         \/ \E id \in due : RejectOrder(id) \/ FillBuy(id) \/ FillSell(id)
<1>1. CASE \E id \in Known : Cancel(id) \/ \E q \in Quantities : Modify(id, q)
  <2>1. PICK id \in Known : Cancel(id) \/ \E q \in Quantities : Modify(id, q)
    BY <1>1
  <2>2. Known' \subseteq Known
    BY <2>1 DEF Cancel, Modify, Known, TypeOK
  <2> QED BY <2>1, <2>2, ModifyQuiet
<1>2. (\E id \in Known, q \in Quantities : Modify(id, q)) \/ (\E id \in Known : Cancel(id)) <=>
      \E id \in Known : Cancel(id) \/ \E q \in Quantities : Modify(id, q)
  OBVIOUS
<1>3. CASE \E isin \in Isins, ratio \in Ratios : ApplyShareRescale(isin, ratio)
  <2>1. Known' \subseteq Known
    BY <1>3 DEF ApplyShareRescale, Known
  <2> QED BY <1>3, <2>1, RescaleQuiet
<1>4. CASE \E from, to \in Isins : CarryOver(from, to)
  BY <1>4, CarryOverQuiet
<1>5. CASE \E isin \in Isins : Surrender(isin)
  <2>1. Known' \subseteq Known
    BY <1>5 DEF Surrender, Known
  <2> QED BY <1>5, <2>1, SurrenderQuiet
<1>6. CASE (\E amount \in Credits : CreditCash(amount)) \/ NextDay \/ Restore
  <2>1. Known' \subseteq Known
    BY <1>6 DEF CreditCash, NextDay, Restore, Known
  <2> QED BY <1>6, <2>1, EnvironmentQuiet
<1> QED BY <1>1, <1>2, <1>3, <1>4, <1>5, <1>6 DEF Next

\* A new broker has executed nothing.
LEMMA InitUnderway == Init => Underway
BY DEF Init, Underway, DueOrders, Known, Sessions

\* Every step leaves execute_session where the calendar and the orders say it is.
LEMMA UnderwayKept == ASSUME TypeOK, Underway, [Next]_vars PROVE Underway'
<1>1. CASE UNCHANGED vars
  BY <1>1 DEF vars, book, execution, Underway, DueOrders, IsStaged, Known
<1>2. CASE Next
  <2>1. CASE \E isin \in Isins, side \in Sides, q \in Quantities : Place(isin, side, q)
    BY <2>1, PlaceQuiet, QuietUnderway
  <2>2. CASE Quiet
    BY <2>2, QuietUnderway
  <2>3. CASE \/ ExecuteSession \/ Settled \/ StartRelease \/ EndSession
             \/ \E t \in Sessions : SettleTrades(t) \/ ReleaseAhead(t)
    BY <2>3, ControlUnderway
  <2>4. CASE \E id \in due : RejectOrder(id) \/ FillBuy(id) \/ FillSell(id)
    BY <2>4, ResolvesUnderway
  <2> QED BY <1>2, <2>1, <2>2, <2>3, <2>4, StepKinds
<1> QED BY <1>1, <1>2

\* Between executions the session the clock is at is either still to come or has no order left,
\* and while one is executed its orders and its date are those the loop took up.
THEOREM UnderwayAlways == Spec => [](TypeOK /\ Underway)
<1>1. Init => TypeOK /\ Underway
  BY InitType, InitUnderway
<1>2. TypeOK /\ Underway /\ [Next]_vars => TypeOK' /\ Underway'
  BY TypeKept, UnderwayKept
<1> QED BY <1>1, <1>2, PTL DEF Spec

\* No step changes an order that is no longer staged.
LEMMA ResolvedKept ==
  ASSUME TypeOK, Underway, [Next]_vars, NEW id \in Known, ~IsStaged(id), id \in Known'
  PROVE  orders'[id] = orders[id]
<1>1. CASE UNCHANGED vars
  BY <1>1 DEF vars
<1>2. CASE Next
  <2>1. CASE Quiet
    BY <2>1 DEF Quiet, Changes
  <2>2. CASE \E isin \in Isins, side \in Sides, q \in Quantities : Place(isin, side, q)
    BY <2>1, <2>2, PlaceQuiet
  <2>3. CASE \/ ExecuteSession \/ Settled \/ StartRelease \/ EndSession
             \/ \E t \in Sessions : SettleTrades(t) \/ ReleaseAhead(t)
    BY <2>3 DEF ExecuteSession, Settled, StartRelease, EndSession, SettleTrades, ReleaseAhead
  <2>4. CASE \E k \in due : RejectOrder(k) \/ FillBuy(k) \/ FillSell(k)
    BY <2>4, Resolves
  <2> QED BY <1>2, <2>1, <2>2, <2>3, <2>4, StepKinds
<1> QED BY <1>1, <1>2

\* A resolved order is history (orders are only ever filled, changed or cancelled while staged):
\* no later call changes it, though a restart may forget it.
THEOREM ResolvedStays == Spec => ResolvedIsFinal
<1>1. ASSUME TypeOK, Underway, [Next]_vars
      PROVE  [\A id \in Known : ~IsStaged(id) =>
                id \notin DOMAIN orders' \/ orders'[id] = orders[id]]_vars
  <2>1. Known' = DOMAIN orders'
    BY DEF Known
  <2> QED BY <1>1, <2>1, ResolvedKept
<1> QED BY <1>1, UnderwayAlways, PTL DEF Spec, ResolvedIsFinal

\* No step stages an order beside one it may not stand beside.
LEMMA OneOrderKept ==
  ASSUME TypeOK, Underway, OneOrderPerScrip, [Next]_vars
  PROVE  OneOrderPerScrip'
<1> DEFINE Beside(x, y) == /\ x # y /\ IsStaged(x) /\ IsStaged(y)
                           /\ ~orders[x].carried /\ ~orders[y].carried
                           /\ orders[x].isin = orders[y].isin
                           /\ orders[x].target = orders[y].target
<1>1. SUFFICES ASSUME NEW x \in Known', NEW y \in Known', Beside(x, y)'
               PROVE  orders'[x].side = "SELL" /\ orders'[y].side = "SELL"
  BY DEF OneOrderPerScrip
<1>2. \A k \in Known : orders[k].carried \in BOOLEAN
  BY DEF TypeOK, Order
<1>3. ASSUME x \in Known, y \in Known,
             \A k \in {x, y} : orders'[k] = orders[k] \/ Changes(k, orders'[k])
      PROVE  orders'[x].side = "SELL" /\ orders'[y].side = "SELL"
  <2>1. ASSUME NEW k \in {x, y}
        PROVE  /\ orders[k].isin = orders'[k].isin /\ orders[k].target = orders'[k].target
               /\ orders[k].side = orders'[k].side /\ IsStaged(k) /\ ~orders[k].carried
    <3>1. ~orders'[k].carried /\ orders'[k].status = "STAGED" /\ k \in Known
      BY <1>1, <1>3 DEF IsStaged
    <3>2. orders'[k] = orders[k] \/ Changes(k, orders'[k])
      BY <1>3
    <3> QED BY <3>1, <3>2 DEF Changes, IsStaged
  <2>2. Beside(x, y)
    BY <1>1, <2>1
  <2> QED BY <1>3, <2>1, <2>2 DEF OneOrderPerScrip
<1>4. CASE UNCHANGED vars
  <2>1. orders' = orders /\ Known' = Known
    BY <1>4 DEF vars, Known
  <2> QED BY <1>1, <1>3, <2>1
<1>5. CASE \E isin \in Isins, side \in Sides, q \in Quantities : Place(isin, side, q)
  <2>1. PICK isin \in Isins, side \in Sides, q \in Quantities : Place(isin, side, q)
    BY <1>5
  <2>2. Known' = Known \cup {nextOrder} /\ nextOrder \notin Known
    BY <2>1 DEF Place, Known, TypeOK
  <2>3. \A id \in Known : orders'[id] = orders[id]
    BY <2>1, <2>2 DEF Place
  <2>4. orders'[nextOrder].isin = isin /\ orders'[nextOrder].side = side
        /\ orders'[nextOrder].target = today + 1
    BY <2>1 DEF Place
  <2>5. ASSUME NEW k \in Known, orders'[k].status = "STAGED", orders'[k].isin = isin,
               orders'[k].target = today + 1
        PROVE  orders'[k].side = "SELL" /\ side = "SELL"
    <3>1. k \in StagedFor(isin) /\ orders[k].target = today + 1
      BY <2>3, <2>5 DEF StagedFor, IsStaged
    <3>2. Duplicates(isin, side, today + 1) = {}
      BY <2>1 DEF Place
    <3> QED BY <2>3, <3>1, <3>2 DEF Duplicates
  <2>6. CASE x \in Known /\ y \in Known
    BY <1>3, <2>3, <2>6
  <2>7. CASE x = nextOrder
    <3>1. y \in Known
      BY <1>1, <2>2, <2>7
    <3> QED BY <1>1, <2>4, <2>5, <2>7, <3>1 DEF IsStaged
  <2>8. CASE y = nextOrder
    <3>1. x \in Known
      BY <1>1, <2>2, <2>8
    <3> QED BY <1>1, <2>4, <2>5, <2>8, <3>1 DEF IsStaged
  <2> QED BY <2>2, <2>6, <2>7, <2>8
<1>6. CASE Quiet /\ Known' \subseteq Known
  BY <1>1, <1>3, <1>6 DEF Quiet
<1>7. CASE \/ ExecuteSession \/ Settled \/ StartRelease \/ EndSession
           \/ \E t \in Sessions : SettleTrades(t) \/ ReleaseAhead(t)
  <2>1. orders' = orders /\ Known' = Known
    BY <1>7 DEF ExecuteSession, Settled, StartRelease, EndSession, SettleTrades, ReleaseAhead,
                Known
  <2> QED BY <1>1, <1>3, <2>1
<1>8. CASE \E id \in due : RejectOrder(id) \/ FillBuy(id) \/ FillSell(id)
  <2>1. PICK id \in due : RejectOrder(id) \/ FillBuy(id) \/ FillSell(id)
    BY <1>8
  <2>2. Known' = Known /\ orders'[id].status # "STAGED"
        /\ \A k \in Known : k # id => orders'[k] = orders[k]
    BY <2>1, Resolves
  <2>3. x # id /\ y # id
    BY <1>1, <2>2 DEF IsStaged
  <2> QED BY <1>1, <1>3, <2>2, <2>3
<1> QED BY <1>4, <1>5, <1>6, <1>7, <1>8, StepKinds

\* The rule place enforces (DuplicateStagedOrderError: one order per scrip and session, sells
\* beside sells apart) survives every modify, corporate action, execution and restart, for orders
\* no reissue moved.
THEOREM OneOrderStands == Spec => []OneOrderPerScrip
<1>1. Init => OneOrderPerScrip
  BY DEF Init, OneOrderPerScrip, Known
<1>2. TypeOK /\ Underway /\ OneOrderPerScrip /\ [Next]_vars => OneOrderPerScrip'
  BY OneOrderKept
<1> QED BY <1>1, <1>2, UnderwayAlways, PTL DEF Spec

-----------------------------------------------------------------------------
(* Settlement: never early, never late *)

\* What is not nothing comes from somewhere.
LEMMA TotalPositive ==
  ASSUME NEW S, NEW f, \A x \in S : f[x] \in Nat, Total(f, S) # 0
  PROVE  \E x \in S : f[x] > 0
<1> SUFFICES ASSUME \A x \in S : ~(f[x] > 0) PROVE FALSE
  OBVIOUS
<1>1. \A x \in S : {x} \X (1..f[x]) = {}
  <2> TAKE x \in S
  <2>1. f[x] \in Nat /\ ~(f[x] > 0)
    OBVIOUS
  <2>2. 1..f[x] = {}
    BY <2>1
  <2> QED BY <2>2
<1>2. UNION {{x} \X (1..f[x]) : x \in S} = {}
  BY <1>1
<1>3. Total(f, S) = 0
  BY <1>2, FS_EmptySet DEF Total
<1> QED BY <1>3

\* A rescale makes no lot: one after it comes from one of the same trade date before it.
LEMMA RescaleMakesNoLot ==
  ASSUME TypeOK, NEW isin \in Isins, NEW ratio \in Ratios,
         ApplyShareRescale(isin, ratio),
         NEW i \in Isins, NEW t \in Sessions, pending'[i][t] > 0
  PROVE  \E j \in Isins : pending[j][t] > 0
<1>1. \A j \in Isins : pending[j] \in [Sessions -> Nat]
  BY DEF TypeOK
<1> DEFINE lots      == {s \in Before(today) : pending[isin][s] > 0}
           scaled    == [s \in Sessions |-> IF s \in lots THEN FloorRatio(pending[isin][s], ratio)
                                                         ELSE pending[isin][s]]
           remainder == FloorRatio(HeldQuantity(isin, today), ratio) - Total(scaled, lots)
           lastLot   == CHOOSE s \in lots : \A other \in lots : other <= s
           topped    == [scaled EXCEPT ![lastLot] = scaled[lastLot] + remainder]
<1>2. pending' = [pending EXCEPT ![isin] = IF ~(holdings[isin] > 0) /\ remainder > 0
                                           THEN topped ELSE scaled]
  BY DEF ApplyShareRescale
<1>3. HeldQuantity(isin, today) > 0
  BY DEF ApplyShareRescale
<1>4. \A s \in Sessions : scaled[s] > 0 => pending[isin][s] > 0
  OBVIOUS
<1>5. ASSUME ~(holdings[isin] > 0) PROVE lastLot \in lots
  <2>1. Before(today) \in SUBSET Sessions /\ \A s \in Before(today) : pending[isin][s] \in Nat
    BY <1>1 DEF Before
  <2>2. Total(pending[isin], Before(today)) # 0
    <3>1. holdings[isin] = 0
      BY <1>5 DEF TypeOK
    <3> QED BY <1>3, <3>1 DEF HeldQuantity
  <2>3. \E s \in Before(today) : pending[isin][s] > 0
    BY <2>1, <2>2, TotalPositive
  <2>4. lots # {} /\ lots \subseteq Int /\ lots \in SUBSET Sessions
    BY <2>1, <2>3 DEF Sessions
  <2> HIDE DEF lots
  <2>5. \E s \in lots : \A other \in lots : other <= s
    <3>1. IsFiniteSet(lots)
      BY <2>4, SessionsFinite
    <3> QED BY <2>4, <3>1, MaxIs
  <2> QED BY <2>5
<1> HIDE DEF remainder, scaled, lastLot
<1>6. CASE i # isin
  BY <1>2, <1>6 DEF TypeOK
<1>7. CASE i = isin
  <2>1. scaled \in [Sessions -> {scaled[s] : s \in Sessions}]
    BY DEF scaled
  <2>2. pending'[i] = IF ~(holdings[isin] > 0) /\ remainder > 0 THEN topped ELSE scaled
    BY <1>2, <1>7 DEF TypeOK
  <2>3. CASE scaled[t] > 0
    BY <1>4, <1>7, <2>3
  <2>4. CASE ~(scaled[t] > 0)
    <3>1. ~(holdings[isin] > 0) /\ t = lastLot
      BY <2>1, <2>2, <2>4
    <3> QED BY <1>5, <3>1
  <2> QED BY <2>3, <2>4
<1> QED BY <1>6, <1>7

\* Nor does a reissue.
LEMMA CarryOverMakesNoLot ==
  ASSUME TypeOK, NEW from \in Isins, NEW to \in Isins,
         CarryOver(from, to),
         NEW i \in Isins, NEW t \in Sessions, pending'[i][t] > 0
  PROVE  \E j \in Isins : pending[j][t] > 0
<1>1. \A j \in Isins : pending[j] \in [Sessions -> Nat]
  BY DEF TypeOK
<1> DEFINE none   == [s \in Sessions |-> 0]
           merged == [s \in Sessions |-> pending[to][s] + pending[from][s]]
<1>2. pending' = [pending EXCEPT ![from] = none, ![to] = merged]
  BY ZenonT(60) DEF CarryOver
<1>3. none[t] = 0 /\ merged[t] = pending[to][t] + pending[from][t]
  OBVIOUS
<1> HIDE DEF none, merged
<1>4. pending'[i] = IF i = to THEN merged ELSE IF i = from THEN none ELSE pending[i]
  BY <1>2 DEF TypeOK
<1>5. CASE i = to
  <2>1. pending[to][t] \in Nat /\ pending[from][t] \in Nat
    BY <1>1
  <2> QED BY <1>3, <1>4, <1>5, <2>1
<1>6. CASE i # to
  BY <1>3, <1>4, <1>6
<1> QED BY <1>5, <1>6

\* Nor does a delisting.
LEMMA SurrenderMakesNoLot ==
  ASSUME TypeOK, NEW isin \in Isins,
         Surrender(isin),
         NEW i \in Isins, NEW t \in Sessions, pending'[i][t] > 0
  PROVE  \E j \in Isins : pending[j][t] > 0
<1> DEFINE kept == [s \in Sessions |-> IF s < today THEN 0 ELSE pending[isin][s]]
<1>1. pending' = [pending EXCEPT ![isin] = kept]
  BY DEF Surrender
<1>2. kept[t] > 0 => pending[isin][t] > 0
  OBVIOUS
<1> HIDE DEF kept
<1> QED BY <1>1, <1>2 DEF TypeOK

\* A corporate action makes no lot.
LEMMA LotsComeFromLots ==
  ASSUME TypeOK, NEW isin \in Isins,
         \/ \E ratio \in Ratios : ApplyShareRescale(isin, ratio)
         \/ \E to \in Isins : CarryOver(isin, to)
         \/ Surrender(isin),
         NEW i \in Isins, NEW t \in Sessions, pending'[i][t] > 0
  PROVE  \E j \in Isins : pending[j][t] > 0
BY RescaleMakesNoLot, CarryOverMakesNoLot, SurrenderMakesNoLot

\* The steps that change a lot.
LEMMA LotsMove ==
  ASSUME TypeOK, [Next]_vars
  PROVE  \/ pending' = pending
         \/ \E t \in Sessions : SettleTrades(t)
         \/ \E id \in due : FillBuy(id)
         \/ \E isin \in Isins : \/ \E ratio \in Ratios : ApplyShareRescale(isin, ratio)
                                \/ \E to \in Isins : CarryOver(isin, to)
                                \/ Surrender(isin)
<1>1. UNCHANGED vars => pending' = pending
  BY DEF vars, book
<1>2. \A isin \in Isins, side \in Sides, q \in Quantities :
        Place(isin, side, q) => pending' = pending
  BY DEF Place, book
<1>3. \A id \in Known : (\E q \in Quantities : Modify(id, q)) \/ Cancel(id) => pending' = pending
  BY DEF Modify, Cancel, book
<1>4. ExecuteSession \/ Settled \/ StartRelease \/ EndSession \/ NextDay \/ Restore
      => pending' = pending
  BY DEF ExecuteSession, Settled, StartRelease, EndSession, NextDay, Restore, book
<1>5. \A id \in due : RejectOrder(id) \/ FillSell(id) => pending' = pending
  BY DEF RejectOrder, FillSell, book
<1>6. \A t \in Sessions : ReleaseAhead(t) => pending' = pending
  BY DEF ReleaseAhead
<1>7. \A amount \in Credits : CreditCash(amount) => pending' = pending
  BY DEF CreditCash
<1> QED BY <1>1, <1>2, <1>3, <1>4, <1>5, <1>6, <1>7 DEF Next

\* The steps that change what is owed for a trade date's sales.
LEMMA ProceedsMove ==
  ASSUME TypeOK, [Next]_vars
  PROVE  \/ receivables' = receivables
         \/ \E t \in Sessions : SettleTrades(t) \/ ReleaseAhead(t)
         \/ \E id \in due : FillSell(id)
<1>1. UNCHANGED vars => receivables' = receivables
  BY DEF vars, book
<1>2. \A isin \in Isins, side \in Sides, q \in Quantities :
        Place(isin, side, q) => receivables' = receivables
  BY DEF Place, book
<1>3. \A id \in Known : (\E q \in Quantities : Modify(id, q)) \/ Cancel(id)
                        => receivables' = receivables
  BY DEF Modify, Cancel, book
<1>4. ExecuteSession \/ Settled \/ StartRelease \/ EndSession \/ NextDay \/ Restore
      => receivables' = receivables
  BY DEF ExecuteSession, Settled, StartRelease, EndSession, NextDay, Restore, book
<1>5. \A id \in due : RejectOrder(id) \/ FillBuy(id) => receivables' = receivables
  BY DEF RejectOrder, FillBuy, book
<1>6. \A isin \in Isins, ratio \in Ratios : ApplyShareRescale(isin, ratio)
                                            => receivables' = receivables
  BY DEF ApplyShareRescale
<1>7. \A from, to \in Isins : CarryOver(from, to) => receivables' = receivables
  BY ZenonT(60) DEF CarryOver
<1>8. \A isin \in Isins : Surrender(isin) => receivables' = receivables
  BY DEF Surrender
<1>9. \A amount \in Credits : CreditCash(amount) => receivables' = receivables
  BY DEF CreditCash
<1> QED BY <1>1, <1>2, <1>3, <1>4, <1>5, <1>6, <1>7, <1>8, <1>9 DEF Next

\* The steps that move execute_session on, and what they do to the session settled last.
LEMMA SessionMoves ==
  ASSUME TypeOK, [Next]_vars
  PROVE  \/ currentSession' = currentSession /\ phase' = phase
         \/ ExecuteSession \/ Settled \/ StartRelease \/ EndSession
<1>1. UNCHANGED vars => currentSession' = currentSession /\ phase' = phase
  BY DEF vars, book, execution
<1>2. \A isin \in Isins, side \in Sides, q \in Quantities :
        Place(isin, side, q) => currentSession' = currentSession /\ phase' = phase
  BY DEF Place, book, execution
<1>3. Quiet => currentSession' = currentSession /\ phase' = phase
  BY DEF Quiet, execution
<1>4. \A t \in Sessions : SettleTrades(t) \/ ReleaseAhead(t)
                          => currentSession' = currentSession /\ phase' = phase
  BY DEF SettleTrades, ReleaseAhead, execution
<1>5. \A id \in due : RejectOrder(id) \/ FillBuy(id) \/ FillSell(id)
                      => currentSession' = currentSession /\ phase' = phase
  BY DEF RejectOrder, FillBuy, FillSell, book
<1> QED BY <1>1, <1>2, <1>3, <1>4, <1>5, StepKinds

\* The session of T+N is a whole number, after the trade.
LEMMA CycleIs ==
  ASSUME NEW t \in Sessions
  PROVE  t \in Int /\ Lag[t] \in Int /\ t + Lag[t] \in Int /\ t < t + Lag[t]
<1>1. t \in Int /\ Lag[t] \in Nat \ {0}
  BY LagAssumption DEF Sessions
<1> QED BY <1>1

\* No lot outlives its cycle.
LEMMA LotsPrompt ==
  ASSUME TypeOK, Underway, SettlementPrompt, [Next]_vars,
         phase' \in {"fill", "release", "idle"},
         NEW isin \in Isins, NEW t \in Sessions, pending'[isin][t] > 0
  PROVE  currentSession' < t + Lag[t]
<1>1. today \in Int /\ currentSession \in Int /\ currentSession' \in Int
  BY TypeKept DEF TypeOK
<1>2. ASSUME NEW j \in Isins, pending[j][t] > 0, phase # "settle"
      PROVE  currentSession < t + Lag[t]
  BY <1>2 DEF SettlementPrompt, TypeOK
<1>3. ASSUME phase # "settle" PROVE currentSession' = currentSession
  BY <1>3, SessionMoves DEF ExecuteSession, Settled, StartRelease, EndSession, book
<1>4. CASE phase # "settle" /\ pending' = pending
  BY <1>2, <1>3, <1>4
<1>5. CASE phase = "settle"
  <2>1. Settled
    BY <1>5, SessionMoves DEF ExecuteSession, Settled, StartRelease, EndSession
  <2>2. pending' = pending /\ currentSession' = today /\ ~SettlesBy(t, today, FALSE)
    <3>1. pending' = pending /\ currentSession' = today
          /\ ~(Owed(t) /\ SettlesBy(t, today, FALSE))
      BY <2>1 DEF Settled
    <3>2. pending[isin][t] \in Nat
      BY DEF TypeOK
    <3>3. pending[isin][t] # 0
      BY <3>1, <3>2
    <3>4. Owed(t)
      BY <3>3 DEF Owed
    <3> QED BY <3>1, <3>4
  <2> QED BY <1>1, <2>2, CycleIs DEF SettlesBy
<1>6. CASE \E u \in Sessions : SettleTrades(u)
  BY <1>5, <1>6 DEF SettleTrades
<1>7. CASE \E id \in due : FillBuy(id)
  <2>1. PICK id \in due : FillBuy(id)
    BY <1>7
  <2>2. phase = "fill" /\ currentSession = today /\ currentSession' = today
    BY <1>3, <2>1 DEF FillBuy, IsNext, Underway
  <2> DEFINE o == orders[id]
             lots == [pending[o.isin] EXCEPT ![today] = pending[o.isin][today] + o.quantity]
  <2>3. pending' = [pending EXCEPT ![o.isin] = lots]
    BY <2>1 DEF FillBuy
  <2>4. CASE t = today
    <3>1. Lag[t] \in Nat \ {0}
      BY LagAssumption
    <3> QED BY <1>1, <2>2, <2>4, <3>1
  <2>5. CASE t # today
    <3>1. lots[t] = pending[o.isin][t]
      <4>1. o.isin \in Isins
        BY DEF TypeOK, Order
      <4> QED BY <2>5, <4>1 DEF TypeOK
    <3> HIDE DEF lots
    <3>2. pending'[isin][t] = pending[isin][t]
      BY <2>3, <3>1 DEF TypeOK
    <3> QED BY <1>2, <1>3, <2>2, <3>2
  <2> QED BY <2>4, <2>5
<1>8. CASE \E i \in Isins : \/ \E ratio \in Ratios : ApplyShareRescale(i, ratio)
                            \/ \E to \in Isins : CarryOver(i, to)
                            \/ Surrender(i)
  <2>1. phase # "settle"
    <3>1. \A i \in Isins, ratio \in Ratios : ApplyShareRescale(i, ratio) => phase = "idle"
      BY RescaleQuiet DEF Quiet
    <3>2. \A i, to \in Isins : CarryOver(i, to) => phase = "idle"
      BY CarryOverQuiet DEF Quiet
    <3>3. \A i \in Isins : Surrender(i) => phase = "idle"
      BY SurrenderQuiet DEF Quiet
    <3> QED BY <1>8, <3>1, <3>2, <3>3
  <2>2. \E j \in Isins : pending[j][t] > 0
    BY <1>8, LotsComeFromLots
  <2> QED BY <1>2, <1>3, <2>1, <2>2
<1> QED BY <1>4, <1>5, <1>6, <1>7, <1>8, LotsMove

\* Nor do proceeds.
LEMMA ProceedsPrompt ==
  ASSUME TypeOK, Underway, SettlementPrompt, [Next]_vars,
         phase' \in {"fill", "release", "idle"},
         NEW t \in Sessions, receivables'[t] # 0
  PROVE  IF phase' = "idle" THEN currentSession' + 1 < t + Lag[t]
                            ELSE currentSession' < t + Lag[t]
<1>1. today \in Int /\ currentSession \in Int /\ t + Lag[t] \in Int
  BY CycleIs DEF SettlesBy, TypeOK
<1>2. ASSUME receivables[t] # 0, phase # "settle"
      PROVE  IF phase = "idle" THEN currentSession + 1 < t + Lag[t]
                               ELSE currentSession < t + Lag[t]
  BY <1>2 DEF SettlementPrompt, TypeOK
<1>3. CASE phase = "settle"
  <2>1. Settled
    BY <1>3, SessionMoves DEF ExecuteSession, Settled, StartRelease, EndSession
  <2>2. receivables' = receivables /\ currentSession' = today /\ ~SettlesBy(t, today, FALSE)
        /\ phase' = "fill"
    <3>1. receivables' = receivables /\ currentSession' = today /\ receivables[t] # 0
          /\ ~(Owed(t) /\ SettlesBy(t, today, FALSE)) /\ phase' = "fill"
      BY <2>1 DEF Settled
    <3>2. Owed(t)
      BY <3>1 DEF Owed
    <3> QED BY <3>1, <3>2
  <2> QED BY <1>1, <2>2, CycleIs DEF SettlesBy
<1>4. CASE EndSession
  <2>1. receivables' = receivables /\ currentSession' = currentSession /\ phase' = "idle"
        /\ phase = "release"
    BY <1>4 DEF EndSession, book
  <2>2. ~SettlesBy(t, today, TRUE) /\ currentSession = today
    BY <1>4, <2>1 DEF EndSession, Underway
  <2> QED BY <1>1, <2>1, <2>2, CycleIs DEF SettlesBy
<1>5. CASE ExecuteSession \/ StartRelease
  <2>1. receivables' = receivables /\ currentSession' = currentSession /\ phase' # "idle"
        /\ phase # "settle"
    BY <1>5 DEF ExecuteSession, StartRelease, book
  <2> QED BY <1>1, <1>2, <2>1
<1>6. CASE currentSession' = currentSession /\ phase' = phase /\ phase # "settle"
  <2>1. CASE receivables' = receivables
    BY <1>2, <1>6, <2>1
  <2>2. CASE \E u \in Sessions : SettleTrades(u) \/ ReleaseAhead(u)
    <3>1. PICK u \in Sessions : ReleaseAhead(u)
      BY <1>6, <2>2 DEF SettleTrades
    <3>2. receivables' = [receivables EXCEPT ![u] = 0]
      BY <3>1 DEF ReleaseAhead
    <3>3. receivables'[t] = receivables[t]
      BY <3>2 DEF TypeOK
    <3> QED BY <1>2, <1>6, <3>3
  <2>3. CASE \E id \in due : FillSell(id)
    <3>1. PICK id \in due : FillSell(id)
      BY <2>3
    <3>2. phase = "fill" /\ currentSession = today
      BY <3>1 DEF FillSell, IsNext, Underway
    <3>3. CASE t = today
      <4>1. Lag[t] \in Nat \ {0}
        BY LagAssumption
      <4> QED BY <1>1, <1>6, <3>2, <3>3, <4>1
    <3>4. CASE t # today
      <4>1. receivables'[t] = receivables[t]
        BY <3>1, <3>4 DEF FillSell, TypeOK
      <4> QED BY <1>2, <1>6, <4>1
    <3> QED BY <3>3, <3>4
  <2> QED BY <2>1, <2>2, <2>3, ProceedsMove
<1>7. ~Settled \/ phase = "settle"
  BY DEF Settled
<1> QED BY <1>3, <1>4, <1>5, <1>6, <1>7, SessionMoves

\* Once a session is under way, and until the next one, nothing whose T+N has come is still owed,
\* whatever sessions were skipped in between and whatever was split, reissued or surrendered
\* meanwhile (_settle_into, _release_proceeds): settlement is never late, on any schedule.
THEOREM NeverSettledLate == Spec => []SettlementPrompt
<1>1. Init => SettlementPrompt
  BY DEF Init, SettlementPrompt, NoShares
<1>2. TypeOK /\ Underway /\ SettlementPrompt /\ [Next]_vars => SettlementPrompt'
  BY LotsPrompt, ProceedsPrompt DEF SettlementPrompt
<1> QED BY <1>1, <1>2, UnderwayAlways, PTL DEF Spec

\* What a step takes off what is owed, or off a lot while it settles, has come to its cycle.
LEMMA SettledInTime ==
  ASSUME TypeOK, [Next]_vars, NEW t \in Sessions
  PROVE  /\ receivables'[t] # receivables[t] /\ phase # "fill" =>
              t + Lag[t] <= IF phase = "release" THEN today + 1 ELSE today
         /\ phase = "settle" /\ (\E isin \in Isins : pending'[isin][t] < pending[isin][t]) =>
              t + Lag[t] <= today
<1>1. today \in Int /\ \A isin \in Isins : pending[isin] \in [Sessions -> Nat]
  BY DEF TypeOK
<1>2. ASSUME receivables'[t] # receivables[t], phase # "fill"
      PROVE  t + Lag[t] <= IF phase = "release" THEN today + 1 ELSE today
  <2>1. ~\E id \in due : FillSell(id)
    BY <1>2 DEF FillSell, IsNext
  <2>2. PICK u \in Sessions : SettleTrades(u) \/ ReleaseAhead(u)
    BY <1>2, <2>1, ProceedsMove
  <2>3. receivables' = [receivables EXCEPT ![u] = 0]
    BY <2>2 DEF SettleTrades, ReleaseAhead
  <2>4. t = u
    BY <1>2, <2>3 DEF TypeOK
  <2> QED BY <1>1, <2>2, <2>4, CycleIs DEF SettlesBy, SettleTrades, ReleaseAhead
<1>3. ASSUME phase = "settle", NEW isin \in Isins, pending'[isin][t] < pending[isin][t]
      PROVE  t + Lag[t] <= today
  <2>1. \E u \in Sessions : SettleTrades(u)
    <3>1. ~\E id \in due : FillBuy(id)
      BY <1>3 DEF FillBuy, IsNext
    <3>2. \A i \in Isins, ratio \in Ratios : ~ApplyShareRescale(i, ratio)
      BY <1>3, RescaleQuiet DEF Quiet
    <3>3. \A i, to \in Isins : ~CarryOver(i, to)
      BY <1>3, CarryOverQuiet DEF Quiet
    <3>4. \A i \in Isins : ~Surrender(i)
      BY <1>3, SurrenderQuiet DEF Quiet
    <3>5. pending' # pending
      BY <1>1, <1>3
    <3> QED BY <3>1, <3>2, <3>3, <3>4, <3>5, LotsMove
  <2>2. PICK u \in Sessions : SettleTrades(u)
    BY <2>1
  <2>3. pending' = [i \in Isins |-> [pending[i] EXCEPT ![u] = 0]] /\ SettlesBy(u, today, FALSE)
    BY <2>2 DEF SettleTrades
  <2>4. t = u
    <3> SUFFICES ASSUME t # u PROVE FALSE
      OBVIOUS
    <3>1. pending'[isin][t] = pending[isin][t]
      BY <1>1, <2>3
    <3> QED BY <1>1, <1>3, <3>1
  <2> QED BY <1>1, <2>3, <2>4, CycleIs DEF SettlesBy
<1> QED BY <1>2, <1>3

\* No trade settles before its cycle, whatever was executed, skipped or rerun (_settles_by): a lot
\* is delivered in session T+N at the earliest, and proceeds are spendable from the close before
\* it at the earliest.
THEOREM NothingEarly == Spec => NeverSettledEarly
<1>1. ASSUME TypeOK, [Next]_vars
      PROVE  [\A t \in Sessions :
                /\ receivables'[t] # receivables[t] /\ phase # "fill" =>
                     t + Lag[t] <= IF phase = "release" THEN today + 1 ELSE today
                /\ phase = "settle" /\ (\E isin \in Isins : pending'[isin][t] < pending[isin][t])
                     => t + Lag[t] <= today]_vars
  BY <1>1, SettledInTime
<1> QED BY <1>1, TypeCorrect, PTL DEF Spec, NeverSettledEarly

-----------------------------------------------------------------------------
(* The slices of one exit *)

\* Two orders of one scrip for one session.
SameSale(x, y) == orders[x].isin = orders[y].isin /\ orders[x].target = orders[y].target

\* The fills of a scrip's sells in one session agree on the price, and exactly one of them paid
\* the depository charge.
Agreed ==
  \A x \in FilledSells :
    /\ \A y \in FilledSells : SameSale(x, y) => /\ orders[x].price = orders[y].price
                                                /\ orders[x].dp /\ orders[y].dp => x = y
    /\ \E y \in FilledSells : SameSale(x, y) /\ orders[y].dp

\* What the slices of an exit fill at in the session under way.
ExitPrices == [isin \in Isins |-> FillPrice(<<isin, today>>, "SELL", sessionQty[<<isin, "SELL">>])]

\* While orders are still due, `sold` is the scrips of the session's filled sells, and each of
\* those filled at the price the session's whole quantity fetches.
Counted ==
  phase \in {"settle", "fill"} /\ due # {} =>
    /\ \A x \in FilledSells : orders[x].target = today =>
         orders[x].isin \in sold /\ orders[x].price = ExitPrices[orders[x].isin]
    /\ \A isin \in sold :
         \E x \in FilledSells : orders[x].isin = isin /\ orders[x].target = today

\* A step that fills no sell keeps the filled sells as they are, or a restart forgets them all.
LEMMA SalesKept ==
  ASSUME TypeOK, Underway, [Next]_vars, \A id \in due : ~FillSell(id)
  PROVE  \/ FilledSells' = {}
         \/ FilledSells' = FilledSells /\ \A x \in FilledSells : orders'[x] = orders[x]
<1>1. \A x \in FilledSells : x \in Known /\ ~IsStaged(x)
  BY DEF FilledSells, IsStaged
<1>2. \A x \in FilledSells : x \in Known' => x \in FilledSells' /\ orders'[x] = orders[x]
  BY <1>1, ResolvedKept DEF FilledSells
<1>3. ASSUME Known \subseteq Known',
             \A x \in Known' : orders'[x].status = "COMPLETE" /\ orders'[x].side = "SELL" =>
               x \in Known /\ orders[x].status = "COMPLETE" /\ orders[x].side = "SELL"
      PROVE  FilledSells' = FilledSells /\ \A x \in FilledSells : orders'[x] = orders[x]
  BY <1>1, <1>2, <1>3 DEF FilledSells
<1>4. CASE UNCHANGED vars
  BY <1>4 DEF vars, FilledSells, Known
<1>5. CASE Quiet
  <2>1. \A x \in Known' : orders'[x].status = "COMPLETE" => x \in Known /\ orders'[x] = orders[x]
    BY <1>5 DEF Quiet, Changes
  <2>2. CASE Known \subseteq Known'
    BY <1>3, <2>1, <2>2
  <2>3. CASE \A x \in Known' : orders'[x].status = "STAGED"
    BY <2>3 DEF FilledSells
  <2> QED BY <1>5, <2>2, <2>3 DEF Quiet
<1>6. CASE \/ ExecuteSession \/ Settled \/ StartRelease \/ EndSession
           \/ \E t \in Sessions : SettleTrades(t) \/ ReleaseAhead(t)
  <2>1. orders' = orders
    BY <1>6 DEF ExecuteSession, Settled, StartRelease, EndSession, SettleTrades, ReleaseAhead
  <2> QED BY <2>1 DEF FilledSells, Known
<1>7. CASE \E id \in due : RejectOrder(id) \/ FillBuy(id) \/ FillSell(id)
  <2>1. PICK id \in due : RejectOrder(id) \/ FillBuy(id)
    BY <1>7
  <2>2. /\ Known' = Known /\ \A k \in Known : k # id => orders'[k] = orders[k]
        /\ orders'[id].side = orders[id].side
        /\ RejectOrder(id) => orders'[id].status = "REJECTED"
    BY <2>1, Resolves
  <2>3. FillBuy(id) => orders[id].side = "BUY"
    BY DEF FillBuy
  <2> QED BY <1>3, <2>1, <2>2, <2>3
<1> QED BY <1>4, <1>5, <1>6, <1>7, PlaceQuiet, StepKinds

\* They stand as long as the session does.
LEMMA ExitPricesStand ==
  ASSUME UNCHANGED <<today, sessionQty>>
  PROVE  ExitPrices' = ExitPrices
BY DEF ExitPrices, FillPrice, Slippage

\* Without a sell filling, what the filled sells agree on stands.
LEMMA AgreedKept ==
  ASSUME TypeOK, Underway, Agreed, [Next]_vars, \A id \in due : ~FillSell(id)
  PROVE  Agreed'
<1>1. CASE FilledSells' = {}
  BY <1>1 DEF Agreed
<1>2. CASE FilledSells' = FilledSells /\ \A x \in FilledSells : orders'[x] = orders[x]
  BY <1>2 DEF Agreed, SameSale
<1> QED BY <1>1, <1>2, SalesKept

\* A session taken up has no filled sell yet, unless nothing is due in it.
LEMMA CountedStarts ==
  ASSUME TypeOK, Underway, ExecuteSession
  PROVE  Counted'
<1> SUFFICES ASSUME due' # {} PROVE Counted'
  BY DEF Counted
<1>1. due' = DueOrders /\ sold' = {} /\ today' = today /\ phase = "idle"
      /\ orders' = orders
  BY DEF ExecuteSession
<1>2. currentSession < today
  BY <1>1 DEF Underway, TypeOK, ExecuteSession
<1>3. FilledSells' = FilledSells
  BY <1>1 DEF FilledSells, Known
<1>4. ASSUME NEW x \in FilledSells, orders[x].target = today PROVE FALSE
  <2>1. orders[x].target <= currentSession
    BY DEF Underway, FilledSells
  <2> QED BY <1>2, <1>4, <2>1 DEF TypeOK
<1> QED BY <1>1, <1>3, <1>4 DEF Counted

\* Without a sell filling, neither does what is counted of them change.
LEMMA CountedKept ==
  ASSUME TypeOK, Underway, Counted, [Next]_vars, \A id \in due : ~FillSell(id)
  PROVE  Counted'
<1>1. CASE ExecuteSession
  BY <1>1, CountedStarts
<1>2. CASE phase' \notin {"settle", "fill"}
  BY <1>2 DEF Counted
<1>3. ASSUME phase \in {"settle", "fill"}, due' \subseteq due,
             UNCHANGED <<today, sold, sessionQty>>,
             FilledSells' = FilledSells, \A x \in FilledSells : orders'[x] = orders[x]
      PROVE  Counted'
  <2>1. ExitPrices' = ExitPrices
    BY <1>3, ExitPricesStand
  <2> QED BY <1>3, <2>1 DEF Counted
<1>4. \/ FilledSells' = {}
      \/ FilledSells' = FilledSells /\ \A x \in FilledSells : orders'[x] = orders[x]
  BY SalesKept
<1>5. CASE UNCHANGED vars
  BY <1>3, <1>4, <1>5, ExitPricesStand DEF vars, execution, book, Counted, FilledSells, Known
<1>6. CASE Quiet
  BY <1>2, <1>6 DEF Quiet, execution
<1>7. CASE Settled \/ \E t \in Sessions : SettleTrades(t)
  <2>1. /\ phase = "settle" /\ due' = due /\ UNCHANGED <<today, sold, sessionQty, orders>>
    BY <1>7 DEF Settled, SettleTrades, execution
  <2>2. FilledSells' = FilledSells
    BY <2>1 DEF FilledSells, Known
  <2> QED BY <1>3, <2>1, <2>2
<1>8. CASE StartRelease \/ EndSession \/ \E t \in Sessions : ReleaseAhead(t)
  BY <1>2, <1>8 DEF StartRelease, EndSession, ReleaseAhead, execution
<1>9. CASE \E id \in due : RejectOrder(id) \/ FillBuy(id) \/ FillSell(id)
  <2>1. PICK id \in due : RejectOrder(id) \/ FillBuy(id)
    BY <1>9
  <2>2. phase = "fill" /\ due' \subseteq due /\ UNCHANGED <<today, sold, sessionQty>>
    BY <2>1 DEF RejectOrder, FillBuy, IsNext
  <2>3. Known' = Known /\ id \in Known /\ ~(id \in FilledSells)
    BY <2>1, Resolves DEF FilledSells, IsStaged
  <2>4. FilledSells' = FilledSells /\ \A x \in FilledSells : orders'[x] = orders[x]
    <3>1. \A x \in FilledSells : x \in Known /\ x # id
      BY <2>3 DEF FilledSells
    <3>2. \A x \in FilledSells : orders'[x] = orders[x] /\ x \in FilledSells'
      BY <2>1, <2>3, <3>1, Resolves DEF FilledSells
    <3> QED BY <1>4, <3>2
  <2> QED BY <1>3, <2>2, <2>4
<1> QED BY <1>1, <1>5, <1>6, <1>7, <1>8, <1>9, PlaceQuiet, StepKinds

\* A sell that fills joins the sales of its scrip in its session: at their price, and paying the
\* depository charge if it is the first.
LEMMA SaleJoins ==
  ASSUME TypeOK, Underway, Agreed, Counted, NEW id \in due, FillSell(id)
  PROVE  Agreed' /\ Counted'
<1>1. /\ Known' = Known /\ id \in Known /\ IsStaged(id) /\ orders[id].target = today
      /\ \A k \in Known : k # id => orders'[k] = orders[k]
      /\ orders'[id].isin = orders[id].isin /\ orders'[id].target = orders[id].target
      /\ orders'[id].side = orders[id].side
      /\ orders'[id].status = "COMPLETE"
      /\ orders'[id].price = PriceOf(orders[id]) /\ orders'[id].dp = DpDue(orders[id])
      /\ phase = "fill" /\ due' = due \ {id} /\ sessionQty' = sessionQty
      /\ today' = today
  BY Resolves
<1>2. orders[id].side = "SELL" /\ sold' = sold \cup {orders[id].isin}
  BY DEF FillSell
<1>3. FilledSells' = FilledSells \cup {id} /\ id \notin FilledSells
  BY <1>1, <1>2 DEF FilledSells, IsStaged
<1>4. \A x \in FilledSells : orders'[x] = orders[x] /\ x # id
  BY <1>1, <1>3 DEF FilledSells
<1>5. orders'[id].dp <=> orders[id].isin \notin sold
  BY <1>1, <1>2 DEF DpDue
<1>6. /\ \A x \in FilledSells : orders[x].target = today =>
           orders[x].isin \in sold /\ orders[x].price = ExitPrices[orders[x].isin]
      /\ \A isin \in sold :
           \E x \in FilledSells : orders[x].isin = isin /\ orders[x].target = today
  BY <1>1 DEF Counted
<1>7. orders'[id].price = ExitPrices[orders[id].isin] /\ ExitPrices' = ExitPrices
  <2>1. orders[id].isin \in Isins
    BY <1>1 DEF TypeOK, Order
  <2> QED BY <1>1, <1>2, <2>1, ExitPricesStand DEF ExitPrices, PriceOf
<1>8. ASSUME NEW x \in FilledSells, SameSale(x, id)
      PROVE  orders[x].price = orders'[id].price /\ ~orders'[id].dp
  BY <1>1, <1>5, <1>6, <1>7, <1>8 DEF SameSale
<1>9. Agreed'
  <2>1. ASSUME NEW x \in FilledSells, NEW y \in FilledSells
        PROVE  SameSale(x, y)' <=> SameSale(x, y)
    BY <1>4 DEF SameSale
  <2>2. ASSUME NEW x \in FilledSells
        PROVE  (SameSale(x, id)' <=> SameSale(x, id)) /\ (SameSale(id, x)' <=> SameSale(x, id))
    BY <1>1, <1>4 DEF SameSale
  <2>3. ASSUME NEW x \in FilledSells', NEW y \in FilledSells', SameSale(x, y)'
        PROVE  orders'[x].price = orders'[y].price /\ (orders'[x].dp /\ orders'[y].dp => x = y)
    <3>1. CASE x # id /\ y # id
      BY <1>3, <1>4, <2>1, <2>3, <3>1 DEF Agreed
    <3>2. CASE x = id /\ y # id
      BY <1>3, <1>4, <1>8, <2>2, <2>3, <3>2
    <3>3. CASE x # id /\ y = id
      BY <1>3, <1>4, <1>8, <2>2, <2>3, <3>3
    <3> QED BY <3>1, <3>2, <3>3
  <2>4. ASSUME NEW x \in FilledSells'
        PROVE  \E y \in FilledSells' : SameSale(x, y)' /\ orders'[y].dp
    <3>1. CASE x # id
      <4>1. PICK y \in FilledSells : SameSale(x, y) /\ orders[y].dp
        BY <1>3, <3>1 DEF Agreed
      <4> QED BY <1>3, <1>4, <2>1, <3>1, <4>1
    <3>2. CASE x = id /\ orders'[id].dp
      BY <1>3, <3>2 DEF SameSale
    <3>3. CASE x = id /\ ~orders'[id].dp
      <4>1. PICK z \in FilledSells : orders[z].isin = orders[id].isin /\ orders[z].target = today
        BY <1>5, <1>6, <3>3
      <4>2. PICK y \in FilledSells : SameSale(z, y) /\ orders[y].dp
        BY DEF Agreed
      <4>3. SameSale(y, id)
        BY <1>1, <4>1, <4>2 DEF SameSale
      <4> QED BY <1>3, <1>4, <2>2, <3>3, <4>2, <4>3
    <3> QED BY <3>1, <3>2, <3>3
  <2> QED BY <2>3, <2>4 DEF Agreed
<1>10. Counted'
  <2>1. ASSUME NEW x \in FilledSells', orders'[x].target = today'
        PROVE  orders'[x].isin \in sold' /\ orders'[x].price = ExitPrices'[orders'[x].isin]
    BY <1>1, <1>2, <1>3, <1>4, <1>6, <1>7, <2>1
  <2>2. ASSUME NEW isin \in sold'
        PROVE  \E x \in FilledSells' : orders'[x].isin = isin /\ orders'[x].target = today'
    BY <1>1, <1>2, <1>3, <1>4, <1>6
  <2> QED BY <2>1, <2>2 DEF Counted
<1> QED BY <1>9, <1>10

\* What the filled sells agree on is what one price and one charge for all their slices means.
LEMMA AgreedIsOne ==
  ASSUME Agreed
  PROVE  SlicesPricedAsOne
<1> SUFFICES ASSUME NEW x \in FilledSells
             PROVE  LET slices == {y \in FilledSells : /\ orders[y].isin = orders[x].isin
                                                       /\ orders[y].target = orders[x].target}
                    IN  /\ \A y \in slices : orders[y].price = orders[x].price
                        /\ Cardinality({y \in slices : orders[y].dp}) = 1
  BY DEF SlicesPricedAsOne
<1> DEFINE slices == {y \in FilledSells : /\ orders[y].isin = orders[x].isin
                                          /\ orders[y].target = orders[x].target}
           paying == {y \in slices : orders[y].dp}
<1>1. \A y \in slices : orders[y].price = orders[x].price
  BY DEF Agreed, SameSale
<1>2. PICK y \in FilledSells : SameSale(x, y) /\ orders[y].dp
  BY DEF Agreed
<1>3. paying = {y}
  <2>1. y \in paying
    BY <1>2 DEF SameSale
  <2>2. ASSUME NEW z \in paying PROVE z = y
    <3>1. z \in FilledSells /\ SameSale(z, y) /\ orders[z].dp
      BY <1>2 DEF SameSale
    <3> QED BY <1>2, <3>1 DEF Agreed
  <2> QED BY <2>1, <2>2
<1> HIDE DEF paying
<1>4. Cardinality(paying) = 1
  BY <1>3, FS_Singleton
<1> QED BY <1>1, <1>4 DEF paying

\* Slices of one exit that fill in one session fill at one price and pay one depository charge,
\* whichever of them were rejected (execute_session's session_quantity and sold): for any number
\* of slices, on any market.
THEOREM SlicesFillAsOne == Spec => []SlicesPricedAsOne
<1>1. Init => Agreed /\ Counted
  BY DEF Init, Agreed, Counted, FilledSells, Known
<1>2. TypeOK /\ Underway /\ (Agreed /\ Counted) /\ [Next]_vars => (Agreed /\ Counted)'
  BY AgreedKept, CountedKept, SaleJoins
<1>3. Agreed => SlicesPricedAsOne
  BY AgreedIsOne
<1> QED BY <1>1, <1>2, <1>3, UnderwayAlways, PTL DEF Spec

-----------------------------------------------------------------------------
(* The cash ledger *)

\* The ledger's sums are those of FoldLemmas.
LEMMA SumOverIs == ASSUME NEW f, NEW S PROVE SumOver(f, S) = SumOf(f, S)
BY DEF SumOver, SumOf

\* What the account is worth after a step: its cash and what is then owed.
LEMMA ValueNext ==
  /\ AccountValue = cash + SumOf(receivables, Sessions)
  /\ AccountValue' = cash' + SumOf(receivables', Sessions)
<1>1. AccountValue = cash + SumOf(receivables, Sessions)
  BY SumOverIs DEF AccountValue
<1>2. AccountValue' = cash' + SumOf(receivables', Sessions)
  <2>1. SumOver(receivables, Sessions)' = SumOf(receivables', Sessions)
    BY DEF SumOver, SumOf, MapThenSumSet, MapThenFoldSet, Sessions
  <2> QED BY <2>1 DEF AccountValue
<1> QED BY <1>1, <1>2

\* What the account has earned by its sales.
Earned == SumOf(proceeds, Sessions)

\* What it has earned after a step.
LEMMA EarnedNext == Earned' = SumOf(proceeds', Sessions)
BY DEF Earned, SumOf, MapThenSumSet, MapThenFoldSet, Sessions

\* The calendar's sums are of whole amounts.
LEMMA SessionSum ==
  ASSUME NEW f \in [Sessions -> Int]
  PROVE  IsFiniteSet(Sessions) /\ (\A t \in Sessions : f[t] \in Int) /\ SumOf(f, Sessions) \in Int
<1>1. IsFiniteSet(Sessions)
  BY SessionsFinite
<1>2. \A t \in Sessions : f[t] \in Int
  OBVIOUS
<1> QED BY <1>1, <1>2, SumUnfolds

\* One session's amount more makes the sum as much more.
LEMMA SessionAdds ==
  ASSUME NEW f \in [Sessions -> Int], NEW t \in Sessions, NEW n \in Int,
         NEW g, g = [f EXCEPT ![t] = f[t] + n]
  PROVE  SumOf(g, Sessions) = SumOf(f, Sessions) + n
<1>1. IsFiniteSet(Sessions) /\ \A u \in Sessions : f[u] \in Int
  BY SessionSum
<1>2. g[t] = f[t] + n /\ \A u \in Sessions : t # u => g[u] = f[u]
  OBVIOUS
<1>3. \A u \in Sessions : u # t => g[u] = f[u]
  BY <1>2
<1> QED BY ONLY <1>1, <1>2, <1>3, t \in Sessions, n \in Int, SumExcept

\* Settling or releasing moves money within the account.
LEMMA SettlingKeepsValue ==
  ASSUME TypeOK, NEW t \in Sessions, SettleTrades(t) \/ ReleaseAhead(t)
  PROVE  AccountValue' = AccountValue
<1>1. cash' = cash + receivables[t] /\ receivables' = [receivables EXCEPT ![t] = 0]
  BY DEF SettleTrades, ReleaseAhead
<1>2. receivables \in [Sessions -> Int] /\ cash \in Int /\ receivables[t] \in Int
  BY DEF TypeOK
<1>3. PICK n \in Int : receivables[t] + n = 0
  <2>1. -receivables[t] \in Int /\ receivables[t] + (-receivables[t]) = 0
    BY <1>2
  <2> QED BY <2>1
<1>4. receivables' = [receivables EXCEPT ![t] = receivables[t] + n]
  BY <1>1, <1>3
<1>5. SumOf(receivables', Sessions) = SumOf(receivables, Sessions) + n
  BY <1>2, <1>4, SessionAdds
<1>6. SumOf(receivables, Sessions) \in Int
  BY <1>2, SessionSum
<1>7. PICK owed \in Int : owed = receivables[t]
  BY <1>2
<1>8. cash' = cash + owed /\ owed + n = 0
  BY <1>1, <1>3, <1>7
<1> QED BY <1>2, <1>5, <1>6, <1>8, ValueNext

\* A sale adds what it is worth to what is owed for the session's sales.
LEMMA SaleAddsValue ==
  ASSUME TypeOK, Underway, NEW id \in due, FillSell(id)
  PROVE  \E net \in Int : /\ receivables' = [receivables EXCEPT ![today] = receivables[today] + net]
                          /\ AccountValue' = AccountValue + net /\ cash' = cash
                          /\ today \in Sessions /\ currentSession = today
                          /\ net = NetOf(orders[id])
<1>1. id \in Known /\ <<orders[id].isin, today>> \in Bars
  BY DEF FillSell, Fillable, TypeOK
<1>2. PICK net \in Int : net = NetOf(orders[id])
  BY <1>1, NetOfType
<1>3. receivables' = [receivables EXCEPT ![today] = receivables[today] + net] /\ cash' = cash
      /\ today \in Sessions /\ currentSession = today
  BY <1>2 DEF FillSell, IsNext, Underway
<1>4. receivables \in [Sessions -> Int] /\ cash \in Int
  BY DEF TypeOK
<1>5. SumOf(receivables', Sessions) = SumOf(receivables, Sessions) + net
  BY <1>3, <1>4, SessionAdds
<1>6. SumOf(receivables, Sessions) \in Int
  BY <1>4, SessionSum
<1>7. AccountValue' = AccountValue + net
  BY <1>3, <1>4, <1>5, <1>6, ValueNext
<1> QED BY <1>2, <1>3, <1>7

\* What only changes cash changes the account's value as much.
LEMMA CashAddsValue ==
  ASSUME TypeOK, TypeOK', receivables' = receivables
  PROVE  AccountValue' = AccountValue + (cash' - cash)
<1>1. receivables \in [Sessions -> Int] /\ cash \in Int /\ cash' \in Int
  BY DEF TypeOK
<1>2. SumOf(receivables, Sessions) \in Int
  BY <1>1, SessionSum
<1> QED BY <1>1, <1>2, ValueNext

\* The steps that post no line.
LEMMA NoLineMoves ==
  ASSUME TypeOK, NoLine
  PROVE  /\ UNCHANGED <<base, posted, balance, proceeds, outlay>>
         /\ \/ \E t \in Sessions : SettleTrades(t) \/ ReleaseAhead(t)
            \/ ExecuteSession \/ Settled \/ StartRelease \/ EndSession
            \/ \E id \in due : RejectOrder(id)
            \/ phase = "idle" /\ UNCHANGED <<cash, releasedAhead, receivables, currentSession,
                                             execution>>
<1>1. UNCHANGED <<base, posted, balance, proceeds, outlay>>
  BY DEF NoLine, ledger
<1>2. \A isin \in Isins, side \in Sides, q \in Quantities : Place(isin, side, q) =>
        phase = "idle" /\ UNCHANGED <<cash, releasedAhead, receivables, currentSession, execution>>
  BY DEF Place, book
<1>3. \A id \in Known : Cancel(id) =>
        phase = "idle" /\ UNCHANGED <<cash, releasedAhead, receivables, currentSession, execution>>
  BY DEF Cancel, book
<1>4. \A isin \in Isins, ratio \in Ratios : ApplyShareRescale(isin, ratio) =>
        phase = "idle" /\ UNCHANGED <<cash, releasedAhead, receivables, currentSession, execution>>
  BY DEF ApplyShareRescale, BookingAllowed
<1>5. NextDay =>
        phase = "idle" /\ UNCHANGED <<cash, releasedAhead, receivables, currentSession, execution>>
  BY DEF NextDay, book
<1> QED BY <1>1, <1>2, <1>3, <1>4, <1>5 DEF NoLine

\* The credits the ledger posts.
LEMMA CreditMoves ==
  ASSUME TypeOK, PostCredit
  PROVE  phase = "idle" /\ UNCHANGED <<releasedAhead, receivables, currentSession, execution>>
<1>1. \A amount \in Credits : CreditCash(amount) =>
        phase = "idle" /\ UNCHANGED <<releasedAhead, receivables, currentSession, execution>>
  BY DEF CreditCash
<1>2. \A isin \in Isins : Surrender(isin) =>
        phase = "idle" /\ UNCHANGED <<releasedAhead, receivables, currentSession, execution>>
  BY DEF Surrender, BookingAllowed
<1> QED BY <1>1, <1>2 DEF PostCredit

\* Every step of the ledger is one of the broker.
LEMMA LedgerSteps == ASSUME [LNext]_ledgerVars PROVE [Next]_vars
<1>1. PostBuy \/ PostSell \/ PostCredit \/ OpenLedger \/ NoLine => Next
  BY DEF PostBuy, PostSell, PostCredit, OpenLedger, NoLine, Next
<1> QED BY <1>1 DEF LNext, ledgerVars

\* A ledgered broker is one, and keeps what any broker keeps.
LEMMA LedgeredAlways == LSpec => [](TypeOK /\ Underway /\ SettlementPrompt)
<1>1. LInit => TypeOK /\ Underway /\ SettlementPrompt
  BY InitType, InitUnderway DEF LInit, Init, SettlementPrompt, NoShares
<1>2. TypeOK /\ Underway /\ SettlementPrompt /\ [LNext]_ledgerVars =>
        TypeOK' /\ Underway' /\ SettlementPrompt'
  BY LedgerSteps, TypeKept, UnderwayKept, LotsPrompt, ProceedsPrompt DEF SettlementPrompt
<1> QED BY <1>1, <1>2, PTL DEF LSpec

\* The ledger's own fields and its observers are whole amounts.
LedgerTyped == /\ base \in Int /\ posted \in Int /\ outlay \in Int
               /\ proceeds \in [Sessions -> Int]

\* The account is worth what it opened with, plus what came in, less what went out.
Reconciled == AccountValue = OpeningCash - outlay + Earned

\* And what the ledger was opened with, plus every line since.
Posted == base + posted = AccountValue

\* The account's value is a whole amount.
LEMMA ValueType == ASSUME TypeOK PROVE AccountValue \in Int
<1>1. receivables \in [Sessions -> Int] /\ cash \in Int
  BY DEF TypeOK
<1>2. SumOf(receivables, Sessions) \in Int
  BY <1>1, SessionSum
<1> QED BY <1>1, <1>2, ValueNext

\* Every line the ledger posts is a change of the account's value, and nothing else changes it.
LEMMA LedgerKept ==
  ASSUME TypeOK, Underway, LedgerTyped, Reconciled, Posted, [LNext]_ledgerVars
  PROVE  LedgerTyped' /\ Reconciled' /\ Posted'
<1>1. TypeOK' /\ cash \in Int /\ cash' \in Int /\ AccountValue \in Int /\ OpeningCash \in Int
  BY LedgerSteps, TypeKept, ValueType, CashAssumption DEF TypeOK
<1>2. Earned \in Int
  BY SessionSum DEF LedgerTyped, Earned
<1>3. ASSUME proceeds' = proceeds PROVE Earned' = Earned
  BY <1>3, EarnedNext DEF Earned
<1>4. ASSUME UNCHANGED <<base, posted, balance, proceeds, outlay>>, AccountValue' = AccountValue
      PROVE  LedgerTyped' /\ Reconciled' /\ Posted'
  BY <1>3, <1>4 DEF LedgerTyped, Reconciled, Posted
<1>5. CASE UNCHANGED ledgerVars
  <2>1. UNCHANGED <<base, posted, balance, proceeds, outlay, cash, receivables>>
    BY <1>5 DEF ledgerVars, vars, book, ledger
  <2>2. AccountValue' = AccountValue
    BY <2>1, ValueNext
  <2> QED BY <1>4, <2>1, <2>2
<1>6. ASSUME receivables' = receivables, proceeds' = proceeds, base' = base,
             posted' = posted + (cash' - cash), outlay' = outlay - (cash' - cash)
      PROVE  LedgerTyped' /\ Reconciled' /\ Posted'
  <2>1. AccountValue' = AccountValue + (cash' - cash)
    BY <1>1, <1>6, CashAddsValue
  <2>2. base \in Int /\ posted \in Int /\ outlay \in Int /\ proceeds' \in [Sessions -> Int]
    BY <1>6 DEF LedgerTyped
  <2>3. LedgerTyped'
    BY <1>1, <1>6, <2>2 DEF LedgerTyped
  <2>4. Reconciled'
    BY <1>1, <1>2, <1>3, <1>6, <2>1, <2>2 DEF Reconciled
  <2>5. Posted'
    BY <1>1, <1>6, <2>1, <2>2 DEF Posted
  <2> QED BY <2>3, <2>4, <2>5
<1>7. CASE PostBuy
  <2>1. receivables' = receivables
    BY <1>7 DEF PostBuy, FillBuy
  <2>2. /\ proceeds' = proceeds /\ base' = base /\ posted' = posted + (cash' - cash)
        /\ outlay' = outlay + (cash - cash')
    BY <1>7 DEF PostBuy, Post
  <2>3. outlay' = outlay - (cash' - cash)
    BY <1>1, <2>2 DEF LedgerTyped
  <2> QED BY <1>6, <2>1, <2>2, <2>3
<1>8. CASE PostCredit
  <2>1. receivables' = receivables
    BY <1>8, CreditMoves
  <2>2. /\ proceeds' = proceeds /\ base' = base /\ posted' = posted + (cash' - cash)
        /\ outlay' = outlay - (cash' - cash)
    BY <1>8 DEF PostCredit, Post
  <2> QED BY <1>6, <2>1, <2>2
<1>9. CASE PostSell
  <2>1. PICK id \in due : FillSell(id)
    BY <1>9 DEF PostSell
  <2>2. PICK net \in Int :
          /\ receivables' = [receivables EXCEPT ![today] = receivables[today] + net]
          /\ AccountValue' = AccountValue + net /\ today \in Sessions
    BY <2>1, SaleAddsValue
  <2>3. receivables'[today] - receivables[today] = net
    <3>1. receivables'[today] = receivables[today] + net /\ receivables[today] \in Int
      BY <2>2 DEF TypeOK
    <3> QED BY <3>1
  <2>4. /\ base' = base /\ posted' = posted + net /\ outlay' = outlay
        /\ proceeds' = [proceeds EXCEPT ![today] = proceeds[today] + net]
    BY <1>9, <2>3 DEF PostSell, Post
  <2>5. Earned' = Earned + net
    BY <2>2, <2>4, SessionAdds, EarnedNext DEF LedgerTyped, Earned
  <2>6. base \in Int /\ posted \in Int /\ outlay \in Int /\ proceeds \in [Sessions -> Int]
    BY DEF LedgerTyped
  <2>7. LedgerTyped'
    <3>1. \A t \in Sessions : proceeds[t] + net \in Int
      BY <2>6
    <3> QED BY <2>2, <2>4, <2>6, <3>1 DEF LedgerTyped
  <2>8. Reconciled'
    BY <1>1, <1>2, <2>2, <2>4, <2>5, <2>6 DEF Reconciled
  <2>9. Posted'
    BY <1>1, <2>2, <2>4, <2>6 DEF Posted
  <2> QED BY <2>7, <2>8, <2>9
<1>10. CASE OpenLedger
  <2>1. UNCHANGED <<cash, receivables>>
    BY <1>10 DEF OpenLedger, Restore, book
  <2>2. AccountValue' = AccountValue
    BY <2>1, ValueNext
  <2>3. base' = AccountValue /\ posted' = 0 /\ UNCHANGED <<proceeds, outlay>>
    BY <1>10 DEF OpenLedger
  <2>4. LedgerTyped' /\ Reconciled'
    BY <1>1, <1>3, <2>2, <2>3 DEF LedgerTyped, Reconciled
  <2>5. Posted'
    BY <1>1, <2>2, <2>3 DEF Posted
  <2> QED BY <2>4, <2>5
<1>11. CASE NoLine
  <2>1. UNCHANGED <<base, posted, balance, proceeds, outlay>>
    BY <1>11, NoLineMoves
  <2>2. AccountValue' = AccountValue
    <3>1. CASE UNCHANGED <<cash, receivables>>
      BY <3>1, ValueNext
    <3>2. CASE \E t \in Sessions : SettleTrades(t) \/ ReleaseAhead(t)
      BY <3>2, SettlingKeepsValue
    <3>3. ExecuteSession \/ Settled \/ StartRelease \/ EndSession => UNCHANGED <<cash, receivables>>
      BY DEF ExecuteSession, Settled, StartRelease, EndSession, book
    <3>4. (\E id \in due : RejectOrder(id)) => UNCHANGED <<cash, receivables>>
      BY DEF RejectOrder, book
    <3> QED BY <1>11, <3>1, <3>2, <3>3, <3>4, NoLineMoves
  <2> QED BY <1>4, <2>1, <2>2
<1> QED BY <1>5, <1>7, <1>8, <1>9, <1>10, <1>11 DEF LNext

\* Every ledger starts reconciled.
LEMMA InitLedger == LInit => LedgerTyped /\ Reconciled /\ Posted
<1> SUFFICES ASSUME LInit PROVE LedgerTyped /\ Reconciled /\ Posted
  OBVIOUS
<1>1. /\ base = OpeningCash /\ posted = 0 /\ outlay = 0 /\ proceeds = [t \in Sessions |-> 0]
      /\ cash = OpeningCash /\ receivables = [t \in Sessions |-> 0] /\ OpeningCash \in Int
  BY CashAssumption DEF LInit, Init
<1>2. IsFiniteSet(Sessions)
  BY SessionsFinite
<1>3. SumOf(proceeds, Sessions) = 0
  <2> DEFINE none == {t \in Sessions : FALSE}
  <2>1. none = {}
    OBVIOUS
  <2> HIDE DEF none
  <2>2. /\ IsFiniteSet(none) /\ none \subseteq Sessions /\ (\A t \in Sessions : proceeds[t] \in Int)
        /\ (\A t \in none : proceeds[t] = proceeds[t])
        /\ \A t \in Sessions \ none : proceeds[t] = 0
    BY <1>1, <2>1, FS_EmptySet
  <2>3. SumOf(proceeds, Sessions) = SumOf(proceeds, none)
    BY <1>2, <2>2, SumSupport
  <2>4. SumOf(proceeds, none) = 0
    BY <2>1, <2>2, SumUnfolds
  <2> QED BY <2>3, <2>4
<1>4. receivables = proceeds
  BY <1>1
<1>5. Earned = 0 /\ AccountValue = OpeningCash
  BY <1>1, <1>3, <1>4, ValueNext DEF Earned
<1> QED BY <1>1, <1>5 DEF LedgerTyped, Reconciled, Posted

\* The account's value is what it opened with and what moved since, in the books and on the ledger.
THEOREM LedgerAddsUp == LSpec => [](LedgerTyped /\ Reconciled /\ Posted)
<1>1. TypeOK /\ Underway /\ (LedgerTyped /\ Reconciled /\ Posted) /\ [LNext]_ledgerVars =>
        (LedgerTyped /\ Reconciled /\ Posted)'
  BY LedgerKept
<1> QED BY <1>1, InitLedger, LedgeredAlways, PTL DEF LSpec

\* The line of a fill carries the balance its debits and credits come to, whatever the cycle and
\* whatever was credited before (_apply posts _cash plus the unsettled proceeds).
THEOREM FillLinesAddUp == LSpec => FillLinesReconcile
<1>1. ASSUME Posted', phase = "fill", LNext, <<posted, balance>>' # <<posted, balance>>
      PROVE  balance' = base' + posted'
  <2>1. ~PostCredit
    BY <1>1 DEF PostCredit, CreditCash, Surrender, BookingAllowed
  <2>2. ~OpenLedger
    BY <1>1 DEF OpenLedger, Restore
  <2>3. ~NoLine
    BY <1>1 DEF NoLine, ledger
  <2>4. balance' = AccountValue'
    BY <1>1, <2>1, <2>2, <2>3 DEF LNext, PostBuy, PostSell, Post
  <2> QED BY <1>1, <2>4 DEF Posted
<1>2. Posted' /\ [LNext]_ledgerVars =>
        [phase = "fill" /\ <<posted, balance>>' # <<posted, balance>> =>
           balance' = base' + posted']_ledgerVars
  BY <1>1
<1>3. LSpec => []Posted
  BY LedgerAddsUp, PTL
<1> QED BY <1>2, <1>3, PTL DEF LSpec, FillLinesReconcile

\* Until when the proceeds of a trade date must have been owed, if they no longer are.
SettledBy == IF phase = "settle" THEN today
             ELSE IF phase = "fill" /\ ~Reruns THEN currentSession ELSE currentSession + 1

\* The sales of a trade date are owed whole until their cycle and not at all after it, and there
\* are none later than the session under way.
Outstanding ==
  /\ \A t \in Sessions : t > currentSession => proceeds[t] = 0 /\ receivables[t] = 0
  /\ \A t \in Sessions : receivables[t] # proceeds[t] =>
       receivables[t] = 0 /\ t + Lag[t] <= SettledBy
  /\ phase = "fill" /\ due # {} => receivables[today] = proceeds[today]

\* A step that changes neither side keeps what is outstanding, if it brings the date on which it
\* may have settled no nearer.
LEMMA OutstandingStands ==
  ASSUME TypeOK, TypeOK', Underway, Outstanding, UNCHANGED <<proceeds, receivables>>,
         currentSession' >= currentSession, SettledBy' >= SettledBy,
         phase' = "fill" /\ due' # {} =>
           \/ phase = "fill" /\ due # {} /\ today' = today
           \/ today' > currentSession /\ today' \in Sessions
  PROVE  Outstanding'
<1>1. /\ today \in Int /\ today' \in Int /\ currentSession \in Int /\ currentSession' \in Int
      /\ SettledBy \in Int /\ SettledBy' \in Int
  BY DEF TypeOK, SettledBy
<1>2. ASSUME NEW t \in Sessions, t > currentSession' PROVE proceeds'[t] = 0 /\ receivables'[t] = 0
  <2>1. t > currentSession
    BY <1>1, <1>2, CycleIs
  <2> QED BY <2>1 DEF Outstanding
<1>3. ASSUME NEW t \in Sessions, receivables'[t] # proceeds'[t]
      PROVE  receivables'[t] = 0 /\ t + Lag[t] <= SettledBy'
  <2>1. receivables[t] = 0 /\ t + Lag[t] <= SettledBy
    BY <1>3 DEF Outstanding
  <2> QED BY <1>1, <2>1, CycleIs
<1>4. phase' = "fill" /\ due' # {} => receivables'[today'] = proceeds'[today']
  BY DEF Outstanding
<1> HIDE DEF SettledBy
<1> QED BY <1>2, <1>3, <1>4 DEF Outstanding

\* Every step keeps what is outstanding in its cycle.
LEMMA OutstandingKept ==
  ASSUME TypeOK, Underway, LedgerTyped, Outstanding, [LNext]_ledgerVars
  PROVE  Outstanding'
<1>1. TypeOK' /\ Underway'
  BY LedgerSteps, TypeKept, UnderwayKept
<1>2. /\ today \in Int /\ today' \in Int /\ currentSession \in Int /\ currentSession' \in Int
  BY <1>1 DEF TypeOK
<1>3. ASSUME UNCHANGED <<proceeds, receivables, phase, currentSession>>, phase = "idle"
      PROVE  Outstanding'
  <2>1. SettledBy' = SettledBy /\ SettledBy \in Int
    BY <1>2, <1>3 DEF SettledBy
  <2> QED BY <1>1, <1>2, <1>3, <2>1, OutstandingStands
<1>4. ASSUME UNCHANGED <<proceeds, receivables, phase, currentSession, today>>, due' \subseteq due
      PROVE  Outstanding'
  <2>1. SettledBy' = SettledBy /\ SettledBy \in Int
    BY <1>2, <1>4 DEF SettledBy
  <2> QED BY <1>1, <1>2, <1>4, <2>1, OutstandingStands
<1>5. CASE UNCHANGED ledgerVars
  BY <1>4, <1>5 DEF ledgerVars, vars, book, execution
<1>6. CASE PostBuy
  BY <1>4, <1>6 DEF PostBuy, FillBuy, IsNext
<1>7. CASE PostCredit
  BY <1>3, <1>7, CreditMoves DEF PostCredit, execution
<1>8. CASE OpenLedger
  BY <1>3, <1>8 DEF OpenLedger, Restore, book, execution
<1>9. CASE PostSell
  <2>1. PICK id \in due : FillSell(id)
    BY <1>9 DEF PostSell
  <2>2. PICK net \in Int :
          /\ receivables' = [receivables EXCEPT ![today] = receivables[today] + net]
          /\ today \in Sessions /\ currentSession = today
    BY <2>1, SaleAddsValue
  <2>3. receivables'[today] = receivables[today] + net /\ receivables[today] \in Int
        /\ \A t \in Sessions : t # today => receivables'[t] = receivables[t]
    BY <2>2 DEF TypeOK
  <2>4. receivables'[today] - receivables[today] = net
    BY <2>3
  <2>5. proceeds' = [proceeds EXCEPT ![today] = proceeds[today] + net]
    BY <1>9, <2>4 DEF PostSell
  <2>6. proceeds'[today] = proceeds[today] + net
        /\ \A t \in Sessions : t # today => proceeds'[t] = proceeds[t]
    BY <2>2, <2>5 DEF LedgerTyped
  <2>7. /\ phase = "fill" /\ phase' = phase /\ due # {} /\ today' = today
        /\ currentSession' = currentSession
    BY <2>1 DEF FillSell, IsNext
  <2>8. receivables'[today] = proceeds'[today]
    BY <2>3, <2>6, <2>7 DEF Outstanding
  <2>9. SettledBy' = SettledBy
    BY <2>7 DEF SettledBy
  <2>10. ASSUME NEW t \in Sessions, t > currentSession'
         PROVE  proceeds'[t] = 0 /\ receivables'[t] = 0
    <3>1. t # today
      BY <1>2, <2>2, <2>7, <2>10
    <3> QED BY <2>3, <2>6, <2>7, <2>10, <3>1 DEF Outstanding
  <2>11. ASSUME NEW t \in Sessions, receivables'[t] # proceeds'[t]
         PROVE  receivables'[t] = 0 /\ t + Lag[t] <= SettledBy'
    BY <2>3, <2>6, <2>8, <2>9, <2>11 DEF Outstanding
  <2> HIDE DEF SettledBy
  <2> QED BY <2>7, <2>8, <2>10, <2>11 DEF Outstanding
<1>10. CASE NoLine
  <2>1. proceeds' = proceeds
    BY <1>10, NoLineMoves
  <2>2. CASE \E t \in Sessions : SettleTrades(t) \/ ReleaseAhead(t)
    <3>1. PICK u \in Sessions : SettleTrades(u) \/ ReleaseAhead(u)
      BY <2>2
    <3>2. /\ receivables' = [receivables EXCEPT ![u] = 0] /\ currentSession' = currentSession
          /\ phase' = phase /\ phase \in {"settle", "release"} /\ today' = today
      BY <3>1 DEF SettleTrades, ReleaseAhead, execution
    <3>3. receivables'[u] = 0 /\ \A t \in Sessions : t # u => receivables'[t] = receivables[t]
      BY <3>2 DEF TypeOK
    <3>4. SettledBy' = SettledBy
      BY <3>2 DEF SettledBy
    <3>5. u + Lag[u] <= SettledBy
      BY <1>2, <3>1, <3>2, CycleIs DEF SettleTrades, ReleaseAhead, SettlesBy, SettledBy, Underway
    <3>6. \A t \in Sessions : t > currentSession' => proceeds'[t] = 0 /\ receivables'[t] = 0
      BY <2>1, <3>2, <3>3 DEF Outstanding
    <3>7. ASSUME NEW t \in Sessions, receivables'[t] # proceeds'[t]
          PROVE  receivables'[t] = 0 /\ t + Lag[t] <= SettledBy'
      BY <2>1, <3>3, <3>4, <3>5, <3>7 DEF Outstanding
    <3> HIDE DEF SettledBy
    <3> QED BY <3>2, <3>6, <3>7 DEF Outstanding
  <2>3. CASE ExecuteSession
    <3>1. /\ UNCHANGED <<receivables, today, currentSession>>
          /\ phase = "idle" /\ today \in Sessions
          /\ due' = DueOrders
          /\ phase' = IF currentSession = today THEN "fill" ELSE "settle"
          /\ IF currentSession = today THEN Reruns ELSE currentSession < today
      BY <2>3 DEF ExecuteSession, book
    <3>2. SettledBy' >= SettledBy
      BY <1>2, <3>1 DEF SettledBy
    <3>3. phase' = "fill" => due' = {}
      BY <3>1 DEF Underway
    <3> QED BY <1>1, <1>2, <2>1, <3>1, <3>2, <3>3, OutstandingStands
  <2>4. CASE Settled
    <3>1. /\ UNCHANGED <<receivables, today>> /\ currentSession' = today /\ phase = "settle"
          /\ phase' = "fill"
      BY <2>4 DEF Settled
    <3>2. currentSession < today /\ today \in Sessions
      BY <3>1 DEF Underway
    <3>3. SettledBy' >= SettledBy
      BY <1>2, <3>1 DEF SettledBy
    <3> QED BY <1>1, <1>2, <2>1, <3>1, <3>2, <3>3, OutstandingStands
  <2>5. CASE StartRelease \/ EndSession
    <3>1. /\ UNCHANGED <<receivables, today, currentSession>> /\ phase \in {"fill", "release"}
          /\ phase' \in {"release", "idle"}
      BY <2>5 DEF StartRelease, EndSession, book
    <3>2. SettledBy' >= SettledBy
      BY <1>2, <3>1 DEF SettledBy
    <3> QED BY <1>1, <1>2, <2>1, <3>1, <3>2, OutstandingStands
  <2>6. CASE \E id \in due : RejectOrder(id)
    <3>1. UNCHANGED <<receivables, phase, currentSession, today>> /\ due' \subseteq due
      BY <2>6 DEF RejectOrder, book
    <3> QED BY <1>4, <2>1, <3>1
  <2>7. CASE phase = "idle" /\ UNCHANGED <<receivables, currentSession, execution>>
    BY <1>3, <2>1, <2>7 DEF execution
  <2> QED BY <1>10, <2>2, <2>3, <2>4, <2>5, <2>6, <2>7, NoLineMoves
<1> QED BY <1>5, <1>6, <1>7, <1>8, <1>9, <1>10 DEF LNext

\* When every sale up to a session is paid and every later one still owed, what is no longer owed
\* is what was due by that session.
LEMMA PaidIsDue ==
  ASSUME TypeOK, LedgerTyped, NEW day \in Int,
         \A t \in Sessions : t + Lag[t] <= day => receivables[t] = 0,
         \A t \in Sessions : t + Lag[t] > day => receivables[t] = proceeds[t]
  PROVE  ProceedsDueBy(day) \in Int /\ Earned = SumOf(receivables, Sessions) + ProceedsDueBy(day)
<1> DEFINE settled == {t \in Sessions : t + Lag[t] <= day}
           paid    == [t \in Sessions |-> IF t + Lag[t] <= day THEN proceeds[t] ELSE 0]
<1>1. receivables \in [Sessions -> Int] /\ proceeds \in [Sessions -> Int]
  BY DEF TypeOK, LedgerTyped
<1>2. \A t \in Sessions : t + Lag[t] \in Int
  BY CycleIs
<1>3. \A t \in Sessions : /\ receivables[t] \in Int /\ paid[t] \in Int
                          /\ proceeds[t] = receivables[t] + paid[t]
  BY <1>1, <1>2
<1>4. /\ IsFiniteSet(Sessions) /\ settled \subseteq Sessions
      /\ (\A t \in Sessions : paid[t] \in Int) /\ (\A t \in settled : proceeds[t] = paid[t])
      /\ \A t \in Sessions \ settled : paid[t] = 0
  BY <1>3, SessionsFinite
<1>5. ProceedsDueBy(day) = SumOf(proceeds, settled)
  BY SumOverIs DEF ProceedsDueBy
<1> HIDE DEF settled, paid
<1>6. SumOf(paid, Sessions) = SumOf(proceeds, settled)
  BY <1>4, SumSupport
<1>7. SumOf(proceeds, Sessions) = SumOf(receivables, Sessions) + SumOf(paid, Sessions)
  BY <1>3, <1>4, SumPlus
<1>8. SumOf(paid, Sessions) \in Int
  BY <1>4, SumUnfolds
<1> QED BY <1>5, <1>6, <1>7, <1>8 DEF Earned

\* Cash, when that is so, is what came in by that session less what went out.
LEMMA CashIsSettled ==
  ASSUME TypeOK, LedgerTyped, Reconciled, NEW day \in Int,
         \A t \in Sessions : t + Lag[t] <= day => receivables[t] = 0,
         \A t \in Sessions : t + Lag[t] > day => receivables[t] = proceeds[t]
  PROVE  cash = OpeningCash - outlay + ProceedsDueBy(day)
<1>1. Earned = SumOf(receivables, Sessions) + ProceedsDueBy(day) /\ ProceedsDueBy(day) \in Int
  BY PaidIsDue
<1>2. receivables \in [Sessions -> Int] /\ cash \in Int /\ outlay \in Int /\ OpeningCash \in Int
  BY CashAssumption DEF TypeOK, LedgerTyped
<1>3. SumOf(receivables, Sessions) \in Int
  BY <1>2, SessionSum
<1> QED BY <1>1, <1>2, <1>3, ValueNext DEF Reconciled

\* Between sessions every sale due by the next one is paid, and no later one.
LEMMA SpendableNow ==
  ASSUME TypeOK, SettlementPrompt, LedgerTyped, Reconciled, Outstanding
  PROVE  SpendableIsSettledByNextFill
<1> SUFFICES ASSUME phase = "idle"
             PROVE  cash = OpeningCash - outlay + ProceedsDueBy(currentSession + 1)
  BY DEF SpendableIsSettledByNextFill
<1>1. PICK day \in Int : day = currentSession + 1
  BY DEF TypeOK
<1>2. currentSession \in Int /\ \A t \in Sessions : t + Lag[t] \in Int
  BY CycleIs DEF TypeOK
<1>3. ASSUME NEW t \in Sessions, t + Lag[t] <= day PROVE receivables[t] = 0
  BY <1>1, <1>2, <1>3 DEF SettlementPrompt
<1>4. ASSUME NEW t \in Sessions, t + Lag[t] > day PROVE receivables[t] = proceeds[t]
  BY <1>1, <1>2, <1>4 DEF Outstanding, SettledBy
<1> QED BY <1>1, <1>3, <1>4, CashIsSettled

\* A broker that has sold nothing is owed nothing.
LEMMA InitOutstanding == LInit => Outstanding
BY DEF LInit, Init, Outstanding

\* What the ledger's theorems all rest on.
LEMMA LedgerSound ==
  LSpec => [](TypeOK /\ Underway /\ SettlementPrompt /\ LedgerTyped /\ Reconciled /\ Outstanding)
<1>1. TypeOK /\ Underway /\ LedgerTyped /\ Outstanding /\ [LNext]_ledgerVars => Outstanding'
  BY OutstandingKept
<1> QED BY <1>1, InitOutstanding, LedgeredAlways, LedgerAddsUp, PTL DEF LSpec

\* Between sessions the cash a decision may spend is exactly what will have settled when it can
\* first fill: every sale whose T+N is on or before the next session and no other, on any schedule
\* of cycles, with reruns or without (_release_proceeds at the close, _settle_into at the open).
THEOREM SpendableIsSettled == LSpec => []SpendableIsSettledByNextFill
<1>1. TypeOK /\ SettlementPrompt /\ LedgerTyped /\ Reconciled /\ Outstanding
        => SpendableIsSettledByNextFill
  BY SpendableNow
<1> QED BY <1>1, LedgerSound, PTL

\* What bears interest, from the last fill of a session on, is what has settled by that session.
Bearing ==
  phase \in {"idle", "release"} =>
    cash - releasedAhead = OpeningCash - outlay + ProceedsDueBy(currentSession)

\* As long as nothing is sold and no session settled, what is due by the last one does not change.
LEMMA DueStands ==
  ASSUME UNCHANGED <<proceeds, currentSession>>
  PROVE  ProceedsDueBy(currentSession)' = ProceedsDueBy(currentSession)
BY DEF ProceedsDueBy, SumOver, MapThenSumSet, MapThenFoldSet, Sessions

\* It is a whole amount.
LEMMA DueType ==
  ASSUME LedgerTyped, NEW day
  PROVE  ProceedsDueBy(day) \in Int
<1> DEFINE settled == {t \in Sessions : t + Lag[t] <= day}
<1>1. settled \in SUBSET Sessions /\ \A t \in settled : proceeds[t] \in Int
  BY DEF LedgerTyped
<1>2. ProceedsDueBy(day) = SumOf(proceeds, settled)
  BY SumOverIs DEF ProceedsDueBy
<1> HIDE DEF settled
<1>3. IsFiniteSet(settled)
  BY <1>1, SessionsFinite
<1> QED BY <1>1, <1>2, <1>3, SumUnfolds

\* At the last fill of a session not executed before, cash is what has settled by that session.
LEMMA BearingStarts ==
  ASSUME TypeOK, Underway, SettlementPrompt, LedgerTyped, Reconciled, Outstanding, ~Reruns,
         phase = "fill"
  PROVE  cash = OpeningCash - outlay + ProceedsDueBy(currentSession)
<1>1. currentSession \in Int /\ \A t \in Sessions : t + Lag[t] \in Int
  BY CycleIs DEF TypeOK
<1>2. ASSUME NEW t \in Sessions, t + Lag[t] <= currentSession PROVE receivables[t] = 0
  BY <1>1, <1>2 DEF SettlementPrompt
<1>3. ASSUME NEW t \in Sessions, t + Lag[t] > currentSession PROVE receivables[t] = proceeds[t]
  BY <1>1, <1>3 DEF Outstanding, SettledBy
<1> QED BY <1>1, <1>2, <1>3, CashIsSettled

\* Every step keeps what bears interest at what has settled.
LEMMA BearingKept ==
  ASSUME TypeOK, Underway, SettlementPrompt, LedgerTyped, Reconciled, Outstanding, Bearing,
         ~Reruns, [LNext]_ledgerVars
  PROVE  Bearing'
<1>1. TypeOK'
  BY LedgerSteps, TypeKept
<1>2. /\ cash \in Int /\ cash' \in Int /\ releasedAhead \in Int /\ releasedAhead' \in Int
      /\ outlay \in Int /\ OpeningCash \in Int
  BY <1>1, CashAssumption DEF TypeOK, LedgerTyped
<1>3. PICK due0 : due0 = ProceedsDueBy(currentSession)
  OBVIOUS
<1>4. ASSUME phase \in {"idle", "release"}, UNCHANGED <<proceeds, currentSession>>,
             (cash' - cash) - (releasedAhead' - releasedAhead) = outlay - outlay', outlay' \in Int
      PROVE  Bearing'
  <2>1. ProceedsDueBy(currentSession)' = due0
    BY <1>3, <1>4, DueStands
  <2>2. cash - releasedAhead = OpeningCash - outlay + due0
    BY <1>3, <1>4 DEF Bearing
  <2>3. (cash' - cash) - (releasedAhead' - releasedAhead) = outlay - outlay' /\ outlay' \in Int
    BY <1>4
  <2>4. due0 \in Int
    BY <1>3, DueType
  <2>5. cash' - releasedAhead' = OpeningCash - outlay' + due0
    BY ONLY <1>2, <2>2, <2>3, <2>4
  <2> QED BY <2>1, <2>5 DEF Bearing
<1>5. ASSUME phase \in {"idle", "release"},
             UNCHANGED <<proceeds, currentSession, cash, releasedAhead, outlay>>
      PROVE  Bearing'
  BY <1>2, <1>4, <1>5
<1>6. CASE UNCHANGED ledgerVars
  <2>1. phase' = phase /\ UNCHANGED <<proceeds, currentSession, cash, releasedAhead, outlay>>
    BY <1>6 DEF ledgerVars, vars, book, execution
  <2> QED BY <1>5, <2>1 DEF Bearing
<1>7. CASE PostBuy \/ PostSell
  BY <1>7 DEF PostBuy, PostSell, FillBuy, FillSell, IsNext, Bearing
<1>8. CASE PostCredit
  <2>1. phase = "idle" /\ UNCHANGED <<releasedAhead, currentSession>>
    BY <1>8, CreditMoves
  <2>2. outlay' = outlay - (cash' - cash) /\ proceeds' = proceeds
    BY <1>8 DEF PostCredit
  <2>3. (cash' - cash) - (releasedAhead' - releasedAhead) = outlay - outlay' /\ outlay' \in Int
    BY <1>2, <2>1, <2>2
  <2> QED BY <1>4, <2>1, <2>2, <2>3
<1>9. CASE OpenLedger
  BY <1>5, <1>9 DEF OpenLedger, Restore, book
<1>10. CASE NoLine
  <2>1. UNCHANGED <<proceeds, outlay>>
    BY <1>10, NoLineMoves
  <2>2. CASE \E t \in Sessions : SettleTrades(t)
    BY <2>2 DEF SettleTrades, execution, Bearing
  <2>3. CASE \E t \in Sessions : ReleaseAhead(t)
    <3>1. PICK t \in Sessions : ReleaseAhead(t)
      BY <2>3
    <3>2. PICK owed \in Int : owed = receivables[t]
      BY DEF TypeOK
    <3>3. phase = "release" /\ currentSession' = currentSession /\ cash' = cash + owed
          /\ releasedAhead' = releasedAhead + owed
      BY <3>1, <3>2 DEF ReleaseAhead
    <3>4. (cash' - cash) - (releasedAhead' - releasedAhead) = outlay - outlay' /\ outlay' \in Int
      BY <1>2, <2>1, <3>3
    <3> QED BY <1>4, <2>1, <3>3, <3>4
  <2>4. CASE ExecuteSession \/ Settled
    BY <2>4 DEF ExecuteSession, Settled, Bearing
  <2>5. CASE StartRelease
    <3>1. phase = "fill" /\ releasedAhead' = 0 /\ UNCHANGED <<cash, currentSession>>
      BY <2>5 DEF StartRelease
    <3>2. cash = OpeningCash - outlay + ProceedsDueBy(currentSession)
      BY <3>1, BearingStarts
    <3>3. ProceedsDueBy(currentSession)' = ProceedsDueBy(currentSession)
      BY <2>1, <3>1, DueStands
    <3>4. cash' - releasedAhead' = cash
      BY <1>2, <3>1
    <3> QED BY <2>1, <3>2, <3>3, <3>4 DEF Bearing
  <2>6. CASE EndSession
    BY <1>5, <2>1, <2>6 DEF EndSession, book
  <2>7. CASE \E id \in due : RejectOrder(id)
    BY <2>7 DEF RejectOrder, IsNext, Bearing
  <2>8. CASE phase = "idle" /\ UNCHANGED <<cash, releasedAhead, currentSession>>
    BY <1>5, <2>1, <2>8
  <2> QED BY <1>10, <2>2, <2>3, <2>4, <2>5, <2>6, <2>7, <2>8, NoLineMoves
<1> QED BY <1>6, <1>7, <1>8, <1>9, <1>10 DEF LNext

\* interest_bearing_cash, between sessions, is exactly the cash settled by the last of them: what
\* was released ahead for the next one bears none.  A session executed twice assigns
\* _released_ahead afresh, so this is for sessions executed once.
THEOREM InterestIsOnSettled ==
  ASSUME ~Reruns
  PROVE  LSpec => []InterestOnSettledCash
<1>1. LInit => Bearing
  <2> SUFFICES ASSUME LInit PROVE Bearing
    OBVIOUS
  <2>1. TypeOK /\ LedgerTyped /\ Reconciled
    BY InitType, InitLedger DEF LInit
  <2>2. /\ currentSession \in Int /\ releasedAhead = 0 /\ cash \in Int
        /\ \A t \in Sessions : receivables[t] = 0 /\ proceeds[t] = 0
    BY CashAssumption DEF LInit, Init
  <2>3. cash = OpeningCash - outlay + ProceedsDueBy(currentSession)
    BY <2>1, <2>2, CashIsSettled
  <2>4. cash - releasedAhead = cash
    BY <2>2
  <2> QED BY <2>3, <2>4 DEF Bearing
<1>2. TypeOK /\ Underway /\ SettlementPrompt /\ LedgerTyped /\ Reconciled /\ Outstanding /\ Bearing
        /\ [LNext]_ledgerVars => Bearing'
  BY BearingKept
<1>3. Bearing => InterestOnSettledCash
  BY DEF Bearing, InterestOnSettledCash
<1> QED BY <1>1, <1>2, <1>3, LedgerSound, PTL DEF LSpec

-----------------------------------------------------------------------------
(* The account: what the accounting book sees *)

\* A total, which the model counts as a set of shares, is the sum.
LEMMA TotalIs ==
  ASSUME NEW S, IsFiniteSet(S), NEW f, \A x \in S : f[x] \in Nat
  PROVE  Total(f, S) = SumOf(f, S)
<1> DEFINE Bad == {u \in SUBSET S : Total(f, u) # SumOf(f, u)}
<1>1. \A u \in SUBSET S : IsFiniteSet(u) /\ (\A x \in u : f[x] \in Nat) /\ \A x \in u : f[x] \in Int
  BY FS_Subset
<1>2. Bad = {}
  <2> SUFFICES ASSUME Bad # {} PROVE FALSE
    OBVIOUS
  <2>1. PICK u \in Bad : \A w \in Bad : w \subseteq u => w = u
    <3>1. Bad \subseteq SUBSET S
      OBVIOUS
    <3> HIDE DEF Bad
    <3> QED BY <3>1, MinimalSubset
  <2>2. u \in SUBSET S /\ Total(f, u) # SumOf(f, u)
    OBVIOUS
  <2>3. CASE u = {}
    <3>1. SumOf(f, u) = 0
      BY <1>1, <2>2, <2>3, SumUnfolds
    <3>2. UNION {{x} \X (1..f[x]) : x \in u} = {}
      BY <2>3
    <3>3. Total(f, u) = 0
      BY <3>2, FS_EmptySet DEF Total
    <3> QED BY <2>2, <3>1, <3>3
  <2>4. CASE u # {}
    <3>1. PICK x \in u : TRUE
      BY <2>4
    <3>2. PICK w : w = u \ {x}
      OBVIOUS
    <3>3. w \in SUBSET S /\ x \in S /\ w # u /\ w \subseteq u
      BY <2>2, <3>1, <3>2
    <3>4. Total(f, w) = SumOf(f, w)
      BY <2>1, <3>3
    <3>5. IsFiniteSet(u) /\ \A y \in u : f[y] \in Int
      BY <1>1, <2>2
    <3> HIDE DEF Bad
    <3>6. SumOf(f, u) = f[x] + SumOf(f, w)
      BY ONLY <3>1, <3>2, <3>5, SumAdd
    <3>7. PICK rest : rest = UNION {{y} \X (1..f[y]) : y \in w}
      OBVIOUS
    <3>8. PICK own : own = {x} \X (1..f[x])
      OBVIOUS
    <3>9. UNION {{y} \X (1..f[y]) : y \in u} = rest \cup own /\ rest \cap own = {}
      BY <3>1, <3>2, <3>7, <3>8
    <3>10. IsFiniteSet(own) /\ Cardinality(own) = f[x]
      <4>1. IsFiniteSet({x}) /\ Cardinality({x}) = 1
        BY FS_Singleton
      <4>2. PICK n \in Nat : n = f[x]
        BY <3>3
      <4>3. IsFiniteSet(1..n) /\ Cardinality(1..n) = n
        BY FS_Interval
      <4>4. PICK one, many : one = {x} /\ many = 1..n
        OBVIOUS
      <4>5. /\ IsFiniteSet(one \X many)
            /\ Cardinality(one \X many) = Cardinality(one) * Cardinality(many)
        BY ONLY <4>1, <4>3, <4>4, FS_Product
      <4> QED BY <3>8, <4>1, <4>2, <4>3, <4>4, <4>5
    <3>11. IsFiniteSet(rest)
      BY <1>1, <3>3, <3>7, SharesFinite
    <3>12. Cardinality(rest \cup own) = Cardinality(rest) + f[x]
      <4>1. Cardinality(rest \cup own)
              = Cardinality(rest) + Cardinality(own) - Cardinality(rest \cap own)
        BY <3>10, <3>11, FS_Union
      <4>2. Cardinality(rest \cap own) = 0
        BY <3>9, FS_EmptySet
      <4>3. Cardinality(rest) \in Nat /\ Cardinality(own) \in Nat
        BY <3>10, <3>11, FS_CardinalityType
      <4> QED BY <3>10, <4>1, <4>2, <4>3
    <3>13. Total(f, u) = Total(f, w) + f[x]
      BY <3>7, <3>9, <3>12 DEF Total
    <3>14. f[x] \in Nat /\ Total(f, w) \in Nat
      BY <1>1, <3>3, TotalType
    <3> QED BY <2>2, <3>4, <3>6, <3>13, <3>14
  <2> QED BY <2>3, <2>4
<1> QED BY <1>2

\* Rounding down is never less than the parts rounded down, and never overtaken by fewer shares.
LEMMA FloorAdds ==
  ASSUME NEW p \in Nat, NEW q \in Nat, NEW ratio \in Ratios
  PROVE  /\ FloorRatio(p, ratio) + FloorRatio(q, ratio) <= FloorRatio(p + q, ratio)
         /\ FloorRatio(p, ratio) <= FloorRatio(p + q, ratio)
         /\ FloorRatio(0, ratio) = 0
<1>1. PICK n \in Nat : n = ratio[1]
  BY RatiosAssumption
<1>2. PICK d \in Nat \ {0} : d = ratio[2]
  BY RatiosAssumption
<1>3. ASSUME NEW m \in Nat
      PROVE  m \div d \in Nat /\ d * (m \div d) <= m /\ m < d * (m \div d) + d
  OBVIOUS
<1>4. PICK x \in Nat, y \in Nat : x = p * n /\ y = q * n
  OBVIOUS
<1>5. (p + q) * n = x + y
  BY <1>4
<1>6. PICK a \in Nat, b \in Nat : a = x \div d /\ b = y \div d
  BY <1>3
<1>7. PICK c \in Nat : c = (x + y) \div d
  <2>1. PICK z \in Nat : z = x + y
    OBVIOUS
  <2>2. z \div d \in Nat
    BY <1>3
  <2> QED BY <2>1, <2>2
<1>8. d * a <= x /\ d * b <= y /\ x + y < d * c + d
  <2>1. PICK z \in Nat : z = x + y
    OBVIOUS
  <2>2. z < d * (z \div d) + d
    BY <1>3
  <2>3. d * a <= x /\ d * b <= y
    BY <1>3, <1>6
  <2> QED BY <1>7, <2>1, <2>2, <2>3
<1>9. d * (a + b) < d * (c + 1)
  BY <1>8
<1>10. a + b < c + 1
  BY <1>9
<1>11. a + b <= c /\ a <= c
  BY <1>10
<1>12. 0 \div d = 0 /\ 0 * n = 0
  OBVIOUS
<1> QED BY <1>1, <1>2, <1>4, <1>5, <1>6, <1>7, <1>11, <1>12 DEF FloorRatio

\* Rounding down each lot never comes to more than rounding down their sum.
LEMMA FloorSum ==
  ASSUME NEW S, IsFiniteSet(S), NEW f, \A x \in S : f[x] \in Nat, NEW ratio \in Ratios,
         NEW g, \A x \in S : g[x] = FloorRatio(f[x], ratio)
  PROVE  SumOf(g, S) <= FloorRatio(SumOf(f, S), ratio)
<1> DEFINE Bad == {u \in SUBSET S : ~(SumOf(g, u) <= FloorRatio(SumOf(f, u), ratio))}
<1>1. \A x \in S : g[x] \in Nat
  BY FloorRatioType
<1>2. \A u \in SUBSET S : /\ IsFiniteSet(u) /\ (\A x \in u : f[x] \in Nat)
                          /\ \A x \in u : g[x] \in Nat
  BY <1>1, FS_Subset
<1>3. Bad = {}
  <2> SUFFICES ASSUME Bad # {} PROVE FALSE
    OBVIOUS
  <2>1. PICK u \in Bad : \A w \in Bad : w \subseteq u => w = u
    <3>1. Bad \subseteq SUBSET S
      OBVIOUS
    <3> HIDE DEF Bad
    <3> QED BY <3>1, MinimalSubset
  <2>2. u \in SUBSET S /\ ~(SumOf(g, u) <= FloorRatio(SumOf(f, u), ratio))
    OBVIOUS
  <2>3. /\ IsFiniteSet(u) /\ (\A y \in u : f[y] \in Int) /\ (\A y \in u : g[y] \in Int)
    BY <1>2, <2>2
  <2>4. CASE u = {}
    <3>1. SumOf(f, u) = 0 /\ SumOf(g, u) = 0
      BY <2>3, <2>4, SumUnfolds
    <3>2. FloorRatio(0, ratio) = 0
      <4>1. PICK zero \in Nat : zero = 0
        OBVIOUS
      <4> QED BY <4>1, FloorAdds
    <3> QED BY <2>2, <3>1, <3>2
  <2>5. CASE u # {}
    <3>1. PICK x \in u : TRUE
      BY <2>5
    <3>2. PICK w : w = u \ {x}
      OBVIOUS
    <3>3. w \in SUBSET S /\ x \in S /\ w # u /\ w \subseteq u
      BY <2>2, <3>1, <3>2
    <3>4. SumOf(g, w) <= FloorRatio(SumOf(f, w), ratio)
      BY <2>1, <3>3
    <3> HIDE DEF Bad
    <3>5. SumOf(f, u) = f[x] + SumOf(f, w) /\ SumOf(g, u) = g[x] + SumOf(g, w)
      BY ONLY <2>3, <3>1, <3>2, SumAdd
    <3>6. PICK p \in Nat : p = SumOf(f, w)
      BY <1>2, <3>3, SumNat
    <3>7. PICK r \in Nat : r = SumOf(g, w)
      BY <1>2, <3>3, SumNat
    <3>8. PICK q \in Nat : q = f[x]
      BY <3>3
    <3>9. FloorRatio(p, ratio) + FloorRatio(q, ratio) <= FloorRatio(p + q, ratio)
      BY FloorAdds
    <3>10. /\ FloorRatio(p, ratio) \in Nat /\ FloorRatio(q, ratio) \in Nat
           /\ FloorRatio(p + q, ratio) \in Nat
      BY FloorRatioType
    <3>11. g[x] = FloorRatio(q, ratio) /\ r <= FloorRatio(p, ratio)
      BY <3>3, <3>4, <3>6, <3>7, <3>8
    <3>12. SumOf(f, u) = p + q
      BY <3>5, <3>6, <3>8
    <3>13. SumOf(g, u) = FloorRatio(q, ratio) + r
      BY <3>5, <3>7, <3>11
    <3>14. SumOf(g, u) <= FloorRatio(p + q, ratio)
      BY <3>9, <3>10, <3>11, <3>13
    <3> QED BY <2>2, <3>12, <3>14
  <2> QED BY <2>4, <2>5
<1> QED BY <1>3

\* What held_quantity counts, as a sum.
LEMMA HeldIs ==
  ASSUME TypeOK, NEW i \in Isins, NEW before
  PROVE  /\ HeldQuantity(i, before) = holdings[i] + SumOf(pending[i], Before(before))
         /\ SumOf(pending[i], Before(before)) \in Nat /\ holdings[i] \in Nat
<1>1. Before(before) \in SUBSET Sessions
  BY DEF Before
<1>2. PICK f \in [Sessions -> Nat] : f = pending[i]
  BY DEF TypeOK
<1>3. IsFiniteSet(Before(before)) /\ \A t \in Before(before) : f[t] \in Nat
  BY <1>1, SessionsFinite
<1>4. Total(f, Before(before)) = SumOf(f, Before(before))
  BY <1>3, TotalIs
<1>5. SumOf(f, Before(before)) \in Nat
  BY <1>3, SumNat
<1> QED BY <1>2, <1>4, <1>5 DEF HeldQuantity, TypeOK

\* Every session is before the one after the last.
LEMMA BeforeTheEnd == Before(LastSession + 1) = Sessions
BY CalendarAssumption DEF Before, Sessions

\* What is on the book, as a sum.
LEMMA OnBookIs ==
  ASSUME TypeOK, NEW i \in Isins
  PROVE  /\ OnBook(i) = holdings[i] + SumOf(pending[i], Sessions)
         /\ SumOf(pending[i], Sessions) \in Nat /\ holdings[i] \in Nat /\ OnBook(i) \in Nat
<1>1. PICK last : last = LastSession + 1
  OBVIOUS
<1>2. /\ HeldQuantity(i, last) = holdings[i] + SumOf(pending[i], Before(last))
      /\ SumOf(pending[i], Before(last)) \in Nat /\ holdings[i] \in Nat
  BY HeldIs
<1> QED BY <1>1, <1>2, BeforeTheEnd DEF OnBook

\* And after a step.
LEMMA OnBookNext ==
  ASSUME TypeOK', NEW i \in Isins
  PROVE  OnBook(i)' = holdings'[i] + SumOf(pending'[i], Sessions)
<1>1. PICK f \in [Sessions -> Nat] : f = pending'[i]
  BY DEF TypeOK
<1>2. IsFiniteSet(Sessions) /\ \A t \in Sessions : f[t] \in Nat
  BY SessionsFinite
<1>3. Total(f, Sessions) = SumOf(f, Sessions)
  BY <1>2, TotalIs
<1>4. OnBook(i)' = holdings'[i] + Total(f, Before(LastSession + 1))
  BY <1>1 DEF OnBook, HeldQuantity, Total, Before, Sessions
<1> QED BY <1>1, <1>3, <1>4, BeforeTheEnd

\* What the book holds entering today is all it holds only if no lot is of today or later.
LEMMA NothingLater ==
  ASSUME TypeOK, NEW i \in Isins, HeldQuantity(i, today) = OnBook(i),
         NEW t \in Sessions \ Before(today)
  PROVE  pending[i][t] = 0
<1>1. PICK f \in [Sessions -> Nat] : f = pending[i]
  BY DEF TypeOK
<1>2. IsFiniteSet(Sessions) /\ (\A s \in Sessions : f[s] \in Int)
  BY SessionsFinite
<1>3. PICK past : past = Before(today)
  OBVIOUS
<1>4. past \subseteq Sessions
  BY <1>3 DEF Before
<1>5. PICK rest : rest = Sessions \ past
  OBVIOUS
<1>6. SumOf(f, Sessions) = SumOf(f, past) + SumOf(f, rest)
  BY ONLY <1>2, <1>4, <1>5, SumSplit
<1>7. IsFiniteSet(rest) /\ (\A s \in rest : f[s] \in Int) /\ t \in rest
  BY <1>3, <1>5, SessionsFinite
<1>8. PICK others : others = rest \ {t}
  OBVIOUS
<1>9. SumOf(f, rest) = f[t] + SumOf(f, others)
  BY ONLY <1>7, <1>8, SumAdd
<1>10. SumOf(f, others) \in Nat
  <2>1. IsFiniteSet(others) /\ \A s \in others : f[s] \in Nat
    BY <1>5, <1>8, SessionsFinite
  <2> QED BY <2>1, SumNat
<1>11. holdings[i] + SumOf(f, past) = holdings[i] + SumOf(f, Sessions)
  <2>1. HeldQuantity(i, today) = holdings[i] + SumOf(f, past)
    BY <1>1, <1>3, HeldIs
  <2>2. OnBook(i) = holdings[i] + SumOf(f, Sessions)
    BY <1>1, OnBookIs
  <2> QED BY <2>1, <2>2
<1>12. SumOf(f, past) \in Nat /\ holdings[i] \in Nat
  BY <1>1, <1>3, HeldIs
<1>13. f[t] \in Nat
  OBVIOUS
<1>14. f[t] + SumOf(f, others) = 0
  <2>1. SumOf(f, rest) \in Int
    BY <1>9, <1>10, <1>13
  <2> QED BY <1>6, <1>9, <1>11, <1>12, <2>1
<1> QED BY <1>1, <1>10, <1>13, <1>14

\* A split or bonus leaves the account's count of the scrip rounded down once, however its lots
\* were rounded, and no other's.
LEMMA RescaledOnce ==
  ASSUME TypeOK, TypeOK', NEW isin \in Isins, NEW ratio \in Ratios, ApplyShareRescale(isin, ratio)
  PROVE  /\ OnBook(isin)' = FloorRatio(OnBook(isin), ratio)
         /\ \A i \in Isins : i # isin => OnBook(i)' = OnBook(i)
<1> DEFINE lots      == {t \in Before(today) : pending[isin][t] > 0}
           scaled    == [t \in Sessions |-> IF t \in lots THEN FloorRatio(pending[isin][t], ratio)
                                                         ELSE pending[isin][t]]
           remainder == FloorRatio(HeldQuantity(isin, today), ratio) - Total(scaled, lots)
           lastLot   == CHOOSE t \in lots : \A other \in lots : other <= t
           topped    == [scaled EXCEPT ![lastLot] = scaled[lastLot] + remainder]
<1>1. /\ holdings' = [holdings EXCEPT ![isin] = IF holdings[isin] > 0 /\ remainder > 0
                                                THEN remainder ELSE 0]
      /\ pending' = [pending EXCEPT ![isin] = IF ~(holdings[isin] > 0) /\ remainder > 0
                                              THEN topped ELSE scaled]
      /\ HeldQuantity(isin, today) > 0 /\ HeldQuantity(isin, today) = OnBook(isin)
  BY DEF ApplyShareRescale
<1>2. lots \in SUBSET Sessions /\ lots \subseteq Before(today) /\ Before(today) \subseteq Sessions
  BY DEF Before
<1>3. PICK f \in [Sessions -> Nat] : f = pending[isin]
  BY DEF TypeOK
<1>4. /\ IsFiniteSet(lots) /\ IsFiniteSet(Sessions) /\ IsFiniteSet(Before(today))
      /\ \A t \in Sessions : f[t] \in Nat /\ f[t] \in Int
  BY <1>2, SessionsFinite
<1>5. /\ \A t \in lots : scaled[t] = FloorRatio(f[t], ratio)
      /\ \A t \in Sessions \ lots : scaled[t] = f[t]
  BY <1>2, <1>3
<1>6. scaled \in [Sessions -> Nat]
  BY <1>3, FloorRatioType
<1>7. \A t \in Sessions \ lots : f[t] = 0
  <2> TAKE t \in Sessions \ lots
  <2>1. CASE t \in Before(today)
    BY <1>3, <2>1
  <2>2. CASE t \notin Before(today)
    BY <1>1, <1>3, <2>2, NothingLater
  <2> QED BY <2>1, <2>2
<1>8. PICK total \in Nat : total = SumOf(f, lots)
  BY <1>2, <1>4, SumNat
<1>9. PICK had \in Nat : had = holdings[isin]
  BY DEF TypeOK
<1>10. OnBook(isin) = had + total
  <2>1. SumOf(f, Sessions) = SumOf(f, lots)
    BY <1>2, <1>4, <1>7, SumSupport
  <2> QED BY <1>3, <1>8, <1>9, <2>1, OnBookIs
<1> HIDE DEF scaled
<1>11. PICK kept \in Nat : kept = Total(scaled, lots) /\ kept = SumOf(scaled, lots)
  <2>1. \A t \in lots : scaled[t] \in Nat
    BY <1>2, <1>6
  <2> HIDE DEF lots
  <2>2. Total(scaled, lots) = SumOf(scaled, lots) /\ SumOf(scaled, lots) \in Nat
    BY <1>4, <2>1, TotalIs, SumNat
  <2> QED BY <2>2
<1>12. kept <= FloorRatio(total, ratio)
  <2>1. \A t \in lots : f[t] \in Nat
    BY <1>2, <1>4
  <2> HIDE DEF lots
  <2>2. SumOf(scaled, lots) <= FloorRatio(SumOf(f, lots), ratio)
    BY <1>4, <1>5, <2>1, FloorSum
  <2> QED BY <1>8, <1>11, <2>2
<1>13. PICK entitled \in Nat : entitled = FloorRatio(had + total, ratio)
  BY FloorRatioType
<1>14. FloorRatio(total, ratio) <= entitled /\ FloorRatio(total, ratio) \in Nat
  <2>1. FloorRatio(total, ratio) <= FloorRatio(total + had, ratio)
    BY FloorAdds
  <2>2. total + had = had + total
    OBVIOUS
  <2> QED BY <1>13, <2>1, <2>2, FloorRatioType
<1>15. remainder = entitled - kept /\ remainder \in Nat
  BY <1>1, <1>10, <1>11, <1>12, <1>13, <1>14
<1>16. SumOf(scaled, Sessions) = kept
  <2>1. /\ \A t \in Sessions : scaled[t] \in Int
        /\ \A t \in Sessions \ lots : scaled[t] = 0
        /\ \A t \in lots : scaled[t] = scaled[t]
    BY <1>5, <1>6, <1>7
  <2> HIDE DEF lots
  <2>2. SumOf(scaled, Sessions) = SumOf(scaled, lots)
    BY ONLY <1>2, <1>4, <2>1, SumSupport
  <2> QED BY <1>11, <2>2
<1>17. had = 0 => lots # {}
  <2>1. ASSUME had = 0, lots = {} PROVE FALSE
    <3>1. SumOf(f, Before(today)) = 0
      <4>1. \A t \in Before(today) : f[t] = 0 /\ f[t] \in Int
        BY <1>2, <1>4, <1>7, <2>1
      <4>2. /\ {} \subseteq Before(today) /\ (\A t \in {} : f[t] = f[t])
            /\ \A t \in Before(today) \ {} : f[t] = 0
        BY <4>1
      <4>3. SumOf(f, Before(today)) = SumOf(f, {})
        BY ONLY <1>4, <4>1, <4>2, SumSupport
      <4> QED BY <4>3, FS_EmptySet, SumUnfolds
    <3>2. HeldQuantity(isin, today) = had + SumOf(f, Before(today))
      BY <1>3, <1>9, HeldIs
    <3> QED BY <1>1, <2>1, <3>1, <3>2
  <2> QED BY <2>1
<1>18. lots # {} => lastLot \in lots
  <2>1. lots \subseteq Int
    BY <1>2 DEF Sessions
  <2> HIDE DEF lots
  <2>2. lots # {} => \E t \in lots : \A other \in lots : other <= t
    BY <1>4, <2>1, MaxIs
  <2> QED BY <2>2
<1>19. PICK more \in Nat : more = remainder
  BY <1>15
<1>20. OnBook(isin)' = entitled
  <2>1. OnBook(isin)' = holdings'[isin] + SumOf(pending'[isin], Sessions)
    BY OnBookNext
  <2> HIDE DEF remainder
  <2>2. CASE had > 0 \/ more = 0
    <3>1. pending'[isin] = scaled
      BY <1>1, <1>9, <1>19, <2>2 DEF TypeOK
    <3>2. holdings'[isin] = more
      BY <1>1, <1>9, <1>19, <2>2 DEF TypeOK
    <3> QED BY <1>15, <1>16, <1>19, <2>1, <3>1, <3>2
  <2>3. CASE ~(had > 0) /\ more > 0
    <3>1. PICK last \in Sessions : last = lastLot
      BY <1>2, <1>9, <1>17, <1>18, <2>3
    <3>2. PICK g : g = pending'[isin]
      OBVIOUS
    <3>3. g = [scaled EXCEPT ![last] = scaled[last] + more] /\ holdings'[isin] = 0
      BY <1>1, <1>9, <1>19, <2>3, <3>1, <3>2 DEF TypeOK
    <3>4. SumOf(g, Sessions) = SumOf(scaled, Sessions) + more
      <4>1. scaled \in [Sessions -> Int] /\ more \in Int
        BY <1>6
      <4> QED BY ONLY <3>1, <3>3, <4>1, SessionAdds
    <3> QED BY <1>15, <1>16, <1>19, <2>1, <3>2, <3>3, <3>4
  <2> QED BY <2>2, <2>3
<1>21. ASSUME NEW i \in Isins, i # isin PROVE OnBook(i)' = OnBook(i)
  <2> HIDE DEF remainder
  <2>1. holdings'[i] = holdings[i] /\ pending'[i] = pending[i]
    BY <1>1, <1>21 DEF TypeOK
  <2> QED BY <2>1, OnBookIs, OnBookNext
<1> QED BY <1>10, <1>13, <1>20, <1>21

\* A reissue moves what the account has of the scrip to its successor.
LEMMA CarriedWhole ==
  ASSUME TypeOK, TypeOK', NEW from \in Isins, NEW to \in Isins, CarryOver(from, to)
  PROVE  /\ from # to /\ OnBook(from) > 0
         /\ OnBook(from)' = 0 /\ OnBook(to)' = OnBook(to) + OnBook(from)
         /\ \A i \in Isins : i # from /\ i # to => OnBook(i)' = OnBook(i)
<1> DEFINE none   == [t \in Sessions |-> 0]
           merged == [t \in Sessions |-> pending[to][t] + pending[from][t]]
<1>1. from # to /\ OnBook(from) > 0
  BY ZenonT(60) DEF CarryOver
<1>2. holdings' = [holdings EXCEPT ![from] = 0, ![to] = holdings[to] + holdings[from]]
  BY ZenonT(60) DEF CarryOver
<1>3. pending' = [pending EXCEPT ![from] = none, ![to] = merged]
  BY ZenonT(60) DEF CarryOver
<1>4. PICK f \in [Sessions -> Nat] : f = pending[from]
  BY DEF TypeOK
<1>5. PICK g \in [Sessions -> Nat] : g = pending[to]
  BY DEF TypeOK
<1>6. \A t \in Sessions : /\ none[t] = 0 /\ none[t] \in Int /\ f[t] \in Int /\ g[t] \in Int
                          /\ merged[t] = g[t] + f[t]
  BY <1>4, <1>5
<1> HIDE DEF none, merged
<1>7. /\ pending'[from] = none /\ pending'[to] = merged
      /\ holdings'[from] = 0 /\ holdings'[to] = holdings[to] + holdings[from]
      /\ \A i \in Isins : i # from /\ i # to => /\ pending'[i] = pending[i]
                                                /\ holdings'[i] = holdings[i]
  BY <1>1, <1>2, <1>3 DEF TypeOK
<1>8. IsFiniteSet(Sessions)
  BY SessionsFinite
<1>9. SumOf(merged, Sessions) = SumOf(g, Sessions) + SumOf(f, Sessions)
  BY <1>6, <1>8, SumPlus
<1>10. SumOf(none, Sessions) = 0
  <2>1. /\ \A t \in Sessions : none[t] \in Int
        /\ {} \subseteq Sessions /\ (\A t \in {} : none[t] = none[t])
        /\ \A t \in Sessions \ {} : none[t] = 0
    BY <1>6
  <2>2. SumOf(none, Sessions) = SumOf(none, {})
    BY ONLY <1>8, <2>1, SumSupport
  <2> QED BY <2>2, FS_EmptySet, SumUnfolds
<1>11. OnBook(from)' = 0
  BY <1>7, <1>10, OnBookNext
<1>12. OnBook(to)' = OnBook(to) + OnBook(from)
  <2>1. OnBook(to)' = holdings[to] + holdings[from] + SumOf(merged, Sessions)
    BY <1>7, OnBookNext
  <2>2. /\ OnBook(to) = holdings[to] + SumOf(g, Sessions)
        /\ SumOf(g, Sessions) \in Nat /\ holdings[to] \in Nat
    BY <1>5, OnBookIs
  <2>3. /\ OnBook(from) = holdings[from] + SumOf(f, Sessions)
        /\ SumOf(f, Sessions) \in Nat /\ holdings[from] \in Nat
    BY <1>4, OnBookIs
  <2> QED BY <1>9, <2>1, <2>2, <2>3
<1>13. \A i \in Isins : i # from /\ i # to => OnBook(i)' = OnBook(i)
  BY <1>7, OnBookIs, OnBookNext
<1> QED BY <1>1, <1>11, <1>12, <1>13

\* A delisting takes all the account has of the scrip.
LEMMA SurrenderedWhole ==
  ASSUME TypeOK, TypeOK', NEW isin \in Isins, Surrender(isin)
  PROVE  /\ OnBook(isin) > 0 /\ OnBook(isin)' = 0 /\ cash' = cash + OnBook(isin)
         /\ \A i \in Isins : i # isin => OnBook(i)' = OnBook(i)
<1> DEFINE kept == [t \in Sessions |-> IF t < today THEN 0 ELSE pending[isin][t]]
<1>1. /\ holdings' = [holdings EXCEPT ![isin] = 0]
      /\ pending' = [pending EXCEPT ![isin] = kept]
      /\ HeldQuantity(isin, today) > 0 /\ HeldQuantity(isin, today) = OnBook(isin)
      /\ cash' = cash + HeldQuantity(isin, today)
  BY DEF Surrender
<1>2. \A t \in Sessions : kept[t] = 0
  <2> TAKE t \in Sessions
  <2>1. CASE t < today
    BY <2>1
  <2>2. CASE ~(t < today)
    <3>1. pending[isin][t] = 0
      BY <1>1, <2>2, NothingLater DEF Before
    <3> QED BY <2>2, <3>1
  <2> QED BY <2>1, <2>2
<1> HIDE DEF kept
<1>3. holdings'[isin] = 0 /\ pending'[isin] = kept
  BY <1>1 DEF TypeOK
<1>4. SumOf(kept, Sessions) = 0
  <2>1. /\ \A t \in Sessions : kept[t] \in Int
        /\ {} \subseteq Sessions /\ (\A t \in {} : kept[t] = kept[t])
        /\ \A t \in Sessions \ {} : kept[t] = 0
    BY <1>2
  <2>2. IsFiniteSet(Sessions)
    BY SessionsFinite
  <2>3. SumOf(kept, Sessions) = SumOf(kept, {})
    BY ONLY <2>1, <2>2, SumSupport
  <2> QED BY <2>3, FS_EmptySet, SumUnfolds
<1>5. OnBook(isin)' = 0
  BY <1>3, <1>4, OnBookNext
<1>6. ASSUME NEW i \in Isins, i # isin PROVE OnBook(i)' = OnBook(i)
  <2>1. holdings'[i] = holdings[i] /\ pending'[i] = pending[i]
    BY <1>1, <1>6 DEF TypeOK
  <2> QED BY <2>1, OnBookIs, OnBookNext
<1> QED BY <1>1, <1>5, <1>6

\* Delivery moves a lot to the holding, within the account.
LEMMA SettlingKeepsShares ==
  ASSUME TypeOK, TypeOK', NEW t \in Sessions, SettleTrades(t), NEW i \in Isins
  PROVE  OnBook(i)' = OnBook(i)
<1>1. PICK f \in [Sessions -> Nat] : f = pending[i]
  BY DEF TypeOK
<1>2. PICK n \in Int : n = -f[t]
  OBVIOUS
<1>3. holdings'[i] = holdings[i] + f[t]
  BY <1>1 DEF SettleTrades
<1>4. PICK g : g = pending'[i]
  OBVIOUS
<1>5. g = [f EXCEPT ![t] = f[t] + n]
  <2>1. g = [f EXCEPT ![t] = 0]
    BY <1>1, <1>4 DEF SettleTrades
  <2>2. f[t] + n = 0
    BY <1>2
  <2> QED BY <2>1, <2>2
<1>6. SumOf(g, Sessions) = SumOf(f, Sessions) + n
  <2>1. f \in [Sessions -> Int]
    OBVIOUS
  <2> QED BY ONLY <1>5, <2>1, t \in Sessions, n \in Int, SessionAdds
<1>7. /\ OnBook(i) = holdings[i] + SumOf(f, Sessions)
      /\ SumOf(f, Sessions) \in Nat /\ holdings[i] \in Nat
  BY <1>1, OnBookIs
<1>8. OnBook(i)' = holdings'[i] + SumOf(g, Sessions)
  BY <1>4, OnBookNext
<1>9. f[t] \in Nat
  OBVIOUS
<1> QED BY <1>2, <1>3, <1>6, <1>7, <1>8, <1>9

\* A purchase puts its shares on the book at once.
LEMMA BoughtAtOnce ==
  ASSUME TypeOK, TypeOK', Underway, NEW id \in due, FillBuy(id)
  PROVE  \E isin \in Isins, q \in Nat \ {0} :
           /\ isin = orders[id].isin /\ q = orders[id].quantity
           /\ OnBook(isin)' = OnBook(isin) + q
           /\ \A i \in Isins : i # isin => OnBook(i)' = OnBook(i)
<1>1. id \in Known /\ orders[id] \in Order /\ today \in Sessions
  BY DEF FillBuy, IsNext, TypeOK, Underway
<1>2. PICK isin \in Isins : isin = orders[id].isin
  BY <1>1 DEF Order
<1>3. PICK q \in Nat \ {0} : q = orders[id].quantity
  BY <1>1 DEF Order
<1>4. /\ holdings' = holdings
      /\ pending' = [pending EXCEPT ![isin][today] = pending[isin][today] + q]
  BY <1>2, <1>3 DEF FillBuy
<1>5. PICK f \in [Sessions -> Nat] : f = pending[isin]
  BY DEF TypeOK
<1>6. PICK g : g = pending'[isin]
  OBVIOUS
<1>7. /\ g = [f EXCEPT ![today] = f[today] + q]
      /\ \A i \in Isins : i # isin => pending'[i] = pending[i]
  BY <1>4, <1>5, <1>6 DEF TypeOK
<1>8. SumOf(g, Sessions) = SumOf(f, Sessions) + q
  <2>1. f \in [Sessions -> Int] /\ q \in Int
    OBVIOUS
  <2>2. PICK t \in Sessions : t = today
    BY <1>1
  <2>3. g = [f EXCEPT ![t] = f[t] + q]
    BY <1>7, <2>2
  <2> QED BY ONLY <2>1, <2>3, t \in Sessions, SessionAdds
<1>9. /\ OnBook(isin) = holdings[isin] + SumOf(f, Sessions)
      /\ SumOf(f, Sessions) \in Nat /\ holdings[isin] \in Nat
  BY <1>5, OnBookIs
<1>10. OnBook(isin)' = holdings[isin] + SumOf(g, Sessions)
  BY <1>4, <1>6, OnBookNext
<1>11. \A i \in Isins : i # isin => OnBook(i)' = OnBook(i)
  BY <1>4, <1>7, OnBookIs, OnBookNext
<1> QED BY <1>2, <1>3, <1>8, <1>9, <1>10, <1>11

\* A sale takes its shares off the book at once, which holds them.
LEMMA SoldAtOnce ==
  ASSUME TypeOK, TypeOK', NEW id \in due, FillSell(id)
  PROVE  \E isin \in Isins, q \in Nat \ {0} :
           /\ isin = orders[id].isin /\ q = orders[id].quantity
           /\ q <= OnBook(isin) /\ OnBook(isin)' = OnBook(isin) - q
           /\ \A i \in Isins : i # isin => OnBook(i)' = OnBook(i)
<1>1. id \in Known /\ orders[id] \in Order
  BY DEF FillSell, IsNext, TypeOK
<1>2. PICK isin \in Isins : isin = orders[id].isin
  BY <1>1 DEF Order
<1>3. PICK q \in Nat \ {0} : q = orders[id].quantity
  BY <1>1 DEF Order
<1>4. /\ pending' = pending /\ holdings' = [holdings EXCEPT ![isin] = holdings[isin] - q]
      /\ q <= holdings[isin]
  BY <1>2, <1>3 DEF FillSell, Fillable
<1>5. /\ OnBook(isin) = holdings[isin] + SumOf(pending[isin], Sessions)
      /\ SumOf(pending[isin], Sessions) \in Nat /\ holdings[isin] \in Nat
  BY OnBookIs
<1>6. holdings'[isin] = holdings[isin] - q
      /\ \A i \in Isins : i # isin => holdings'[i] = holdings[i]
  BY <1>4 DEF TypeOK
<1>7. OnBook(isin)' = holdings'[isin] + SumOf(pending[isin], Sessions)
  BY <1>4, OnBookNext
<1>8. \A i \in Isins : i # isin => OnBook(i)' = OnBook(i)
  BY <1>4, <1>6, OnBookIs, OnBookNext
<1>9. q <= OnBook(isin) /\ OnBook(isin)' = OnBook(isin) - q
  BY <1>4, <1>5, <1>6, <1>7
<1> QED BY <1>2, <1>3, <1>8, <1>9

\* A sale is worth at least its charges, the depository's flat one included: what the book takes
\* for granted ("turnover - charges, positive", backtest/accounting.py).
SalesPay ==
  \A bar \in Bars, quantity \in Nat \ {0}, shares \in Nat, dpDue \in BOOLEAN :
    NetAmount("SELL", quantity * FillPrice(bar, "SELL", shares), dpDue) >= 0

\* No session's sales leave a debt in settlement.
NoDebt == \A t \in Sessions : receivables[t] >= 0

\* The steps that move money or shares.
LEMMA AccountMoves ==
  ASSUME TypeOK, [Next]_vars
  PROVE  \/ UNCHANGED <<cash, holdings, pending, receivables>>
         \/ \E t \in Sessions : SettleTrades(t) \/ ReleaseAhead(t)
         \/ \E id \in due : FillBuy(id) \/ FillSell(id)
         \/ \E isin \in Isins : \/ \E ratio \in Ratios : ApplyShareRescale(isin, ratio)
                                \/ \E to \in Isins : CarryOver(isin, to)
                                \/ Surrender(isin)
         \/ \E amount \in Credits : CreditCash(amount)
<1> DEFINE Still == UNCHANGED <<cash, holdings, pending, receivables>>
<1>1. UNCHANGED vars => Still
  BY DEF vars, book
<1>2. \A isin \in Isins, side \in Sides, q \in Quantities : Place(isin, side, q) => Still
  BY DEF Place, book
<1>3. \A id \in Known : (\E q \in Quantities : Modify(id, q)) \/ Cancel(id) => Still
  BY DEF Modify, Cancel, book
<1>4. ExecuteSession \/ Settled \/ StartRelease \/ EndSession \/ NextDay \/ Restore => Still
  BY DEF ExecuteSession, Settled, StartRelease, EndSession, NextDay, Restore, book
<1>5. \A id \in due : RejectOrder(id) => Still
  BY DEF RejectOrder, book
<1> QED BY <1>1, <1>2, <1>3, <1>4, <1>5 DEF Next

\* What a sale adds to what is owed.
LEMMA SalePays ==
  ASSUME TypeOK, Underway, SalesPay, NEW id \in due, FillSell(id)
  PROVE  \E net \in Nat : /\ receivables' = [receivables EXCEPT ![today] = receivables[today] + net]
                          /\ today \in Sessions
<1>1. id \in Known /\ orders[id] \in Order /\ <<orders[id].isin, today>> \in Bars
      /\ today \in Sessions
  BY DEF FillSell, Fillable, IsNext, TypeOK, Underway
<1>2. PICK net \in Int : net = NetOf(orders[id])
  BY <1>1, NetOfType
<1>3. receivables' = [receivables EXCEPT ![today] = receivables[today] + net]
  BY <1>2 DEF FillSell
<1>4. net >= 0
  <2>1. PICK isin \in Isins : isin = orders[id].isin
    BY <1>1 DEF Order
  <2>2. PICK q \in Nat \ {0} : q = orders[id].quantity
    BY <1>1 DEF Order
  <2>3. orders[id].side = "SELL"
    BY DEF FillSell
  <2>4. PICK shares \in Nat : shares = sessionQty[<<isin, "SELL">>]
    BY DEF TypeOK, Sides
  <2>5. PICK dpDue \in BOOLEAN : dpDue = DpDue(orders[id])
    BY DEF DpDue
  <2>6. PriceOf(orders[id]) = FillPrice(<<isin, today>>, "SELL", shares)
    BY <2>1, <2>3, <2>4 DEF PriceOf
  <2>7. net = NetAmount("SELL", q * FillPrice(<<isin, today>>, "SELL", shares), dpDue)
    BY <1>2, <2>2, <2>3, <2>5, <2>6 DEF NetOf
  <2> QED BY <1>1, <2>1, <2>7 DEF SalesPay
<1>5. net \in Nat
  BY <1>4
<1> QED BY <1>1, <1>3, <1>5

\* No step leaves a debt if sales pay for themselves.
LEMMA NoDebtKept ==
  ASSUME TypeOK, Underway, SalesPay, NoDebt, [Next]_vars
  PROVE  NoDebt'
<1>1. receivables \in [Sessions -> Int]
  BY DEF TypeOK
<1>2. CASE receivables' = receivables
  BY <1>2 DEF NoDebt, Sessions
<1>3. ASSUME NEW t \in Sessions, SettleTrades(t) \/ ReleaseAhead(t)
      PROVE  NoDebt'
  <2>1. receivables' = [receivables EXCEPT ![t] = 0]
    BY <1>3 DEF SettleTrades, ReleaseAhead
  <2> QED BY <1>1, <2>1 DEF NoDebt, Sessions
<1>4. ASSUME NEW id \in due, FillSell(id)
      PROVE  NoDebt'
  <2>1. PICK net \in Nat :
          /\ receivables' = [receivables EXCEPT ![today] = receivables[today] + net]
          /\ today \in Sessions
    BY <1>4, SalePays
  <2>2. \A t \in Sessions : \/ receivables'[t] = receivables[t]
                            \/ receivables'[t] = receivables[t] + net
    BY <1>1, <2>1
  <2>3. \A t \in Sessions : receivables[t] >= 0 /\ receivables[t] \in Int
    BY <1>1 DEF NoDebt
  <2>4. \A t \in Sessions : receivables'[t] >= 0
    BY <2>2, <2>3
  <2> QED BY <2>4 DEF NoDebt, Sessions
<1> QED BY <1>2, <1>3, <1>4, ProceedsMove

\* The account's cash is the value the ledger keeps.
LEMMA AccountIs == AccountCash = AccountValue /\ AccountCash' = AccountValue'
<1>1. AccountCash = cash + SumOf(receivables, Sessions)
  BY DEF AccountCash, SumOf
<1>2. AccountCash' = cash' + SumOf(receivables', Sessions)
  BY DEF AccountCash, SumOf, MapThenSumSet, MapThenFoldSet, Sessions
<1> QED BY <1>1, <1>2, ValueNext

\* So spendable cash is never more than the account's.
LEMMA CashWithin ==
  ASSUME TypeOK, NoDebt
  PROVE  cash <= AccountCash /\ AccountCash \in Int /\ cash \in Int
<1>1. IsFiniteSet(Sessions) /\ \A t \in Sessions : receivables[t] \in Nat
  BY SessionsFinite DEF TypeOK, NoDebt
<1>2. SumOf(receivables, Sessions) \in Nat
  BY <1>1, SumNat
<1>3. AccountCash = cash + SumOf(receivables, Sessions)
  BY AccountIs, ValueNext
<1> QED BY <1>2, <1>3 DEF TypeOK

\* The account's shares after a step, scrip by scrip.
LEMMA PositionNext ==
  /\ AccountPosition = [i \in Isins |-> OnBook(i)]
  /\ AccountPosition' = [i \in Isins |-> OnBook(i)']
BY DEF AccountPosition

\* The net amount on a fill's record is the one the broker computed.
LEMMA NetRecorded ==
  ASSUME TypeOK, NEW id \in due, FillBuy(id) \/ FillSell(id)
  PROVE  FillNet(orders'[id]) = NetOf(orders[id])
<1>1. PICK o : o = orders[id]
  OBVIOUS
<1>2. o \in Order /\ id \in DOMAIN orders
  BY <1>1 DEF FillBuy, FillSell, IsNext, TypeOK, Known
<1>3. orders' = [orders EXCEPT ![id] = Filled(o)]
  BY <1>1 DEF FillBuy, FillSell
<1>4. orders'[id] = Filled(o)
  BY <1>2, <1>3
<1>5. /\ Filled(o).side = o.side /\ Filled(o).quantity = o.quantity
      /\ Filled(o).price = PriceOf(o) /\ Filled(o).dp = DpDue(o)
  BY <1>2 DEF Filled, Order
<1> QED BY <1>1, <1>4, <1>5 DEF FillNet, NetOf

\* A purchase moves its own shares and its own net amount, which the account has if it owes
\* nothing.
LEMMA BuyRecorded ==
  ASSUME TypeOK, TypeOK', Underway, NEW id \in due, FillBuy(id)
  PROVE  /\ Account!Bought(orders[id].isin, orders[id].quantity, FillNet(orders'[id]))
         /\ NoDebt => FillNet(orders'[id]) <= AccountCash
<1>1. PICK isin \in Isins, q \in Nat :
        /\ isin = orders[id].isin /\ q = orders[id].quantity
        /\ OnBook(isin)' = OnBook(isin) + q
        /\ \A i \in Isins : i # isin => OnBook(i)' = OnBook(i)
  BY BoughtAtOnce
<1>2. AccountPosition' = [AccountPosition EXCEPT ![isin] = AccountPosition[isin] + q]
  BY <1>1, PositionNext
<1>3. PICK net \in Int : /\ net = NetOf(orders[id]) /\ net <= cash
                         /\ cash' = cash - net /\ receivables' = receivables
  <2>1. id \in Known /\ <<orders[id].isin, today>> \in Bars
    BY DEF FillBuy, Fillable, TypeOK
  <2>2. NetOf(orders[id]) \in Int
    BY <2>1, NetOfType
  <2> QED BY <2>2 DEF FillBuy, Fillable
<1>4. cash \in Int /\ AccountCash \in Int
  BY AccountIs, ValueType DEF TypeOK
<1>5. AccountCash' = AccountCash - net
  <2>1. AccountValue' = AccountValue + (cash' - cash)
    BY <1>3, CashAddsValue
  <2> QED BY <1>3, <1>4, <2>1, AccountIs
<1>6. FillNet(orders'[id]) = net
  BY <1>3, NetRecorded
<1>7. NoDebt => net <= AccountCash
  BY <1>3, <1>4, CashWithin
<1>8. Account!Bought(isin, q, net)
  BY <1>2, <1>5 DEF Account!Bought
<1> QED BY <1>1, <1>6, <1>7, <1>8

\* A sale moves its own shares, which the account has, and its own net amount at once.
LEMMA SellRecorded ==
  ASSUME TypeOK, TypeOK', Underway, NEW id \in due, FillSell(id)
  PROVE  Account!RecordSell(orders[id].isin, orders[id].quantity, FillNet(orders'[id]))
<1>1. PICK isin \in Isins, q \in Nat :
        /\ isin = orders[id].isin /\ q = orders[id].quantity /\ q <= OnBook(isin)
        /\ OnBook(isin)' = OnBook(isin) - q
        /\ \A i \in Isins : i # isin => OnBook(i)' = OnBook(i)
  BY SoldAtOnce
<1>2. /\ AccountPosition' = [AccountPosition EXCEPT ![isin] = AccountPosition[isin] - q]
      /\ q <= AccountPosition[isin]
  BY <1>1, PositionNext
<1>3. PICK net \in Int : net = NetOf(orders[id]) /\ AccountCash' = AccountCash + net
  BY SaleAddsValue, AccountIs
<1>4. FillNet(orders'[id]) = net
  BY <1>3, NetRecorded
<1>5. Account!RecordSell(isin, q, net)
  BY <1>2, <1>3 DEF Account!RecordSell
<1> QED BY <1>1, <1>4, <1>5

\* A split or bonus is one floor of the whole count.
LEMMA RescaleRecorded ==
  ASSUME TypeOK, TypeOK', NEW isin \in Isins, NEW ratio \in Ratios, ApplyShareRescale(isin, ratio)
  PROVE  Account!RescaleQuantity(isin, ratio)
<1>1. /\ OnBook(isin)' = FloorRatio(OnBook(isin), ratio)
      /\ \A i \in Isins : i # isin => OnBook(i)' = OnBook(i)
  BY RescaledOnce
<1>2. cash' = cash /\ receivables' = receivables
  BY DEF ApplyShareRescale
<1>3. HeldQuantity(isin, today) > 0 /\ HeldQuantity(isin, today) = OnBook(isin)
  BY DEF ApplyShareRescale
<1>4. AccountCash' = AccountCash
  BY <1>2, AccountIs, ValueNext
<1>5. AccountPosition' =
        [AccountPosition EXCEPT ![isin] = (AccountPosition[isin] * ratio[1]) \div ratio[2]]
  BY <1>1, PositionNext DEF FloorRatio
<1> QED BY <1>3, <1>4, <1>5, PositionNext DEF Account!RescaleQuantity

\* A reissue is a merger one for one.
LEMMA CarryRecorded ==
  ASSUME TypeOK, TypeOK', NEW isin \in Isins, NEW to \in Isins, CarryOver(isin, to)
  PROVE  Account!ApplyMerger(isin, to)
<1>1. /\ isin # to /\ OnBook(isin) > 0
      /\ OnBook(isin)' = 0 /\ OnBook(to)' = OnBook(to) + OnBook(isin)
      /\ \A i \in Isins : i # isin /\ i # to => OnBook(i)' = OnBook(i)
  BY CarriedWhole
<1>2. UNCHANGED <<cash, receivables>>
  BY ZenonT(60) DEF CarryOver
<1>3. AccountCash' = AccountCash
  BY <1>2, AccountIs, ValueNext
<1>4. AccountPosition' = [AccountPosition EXCEPT ![isin] = 0,
                            ![to] = AccountPosition[to] + AccountPosition[isin]]
  BY <1>1, PositionNext
<1> QED BY <1>1, <1>3, <1>4, PositionNext DEF Account!ApplyMerger

\* A delisting is an exit paid by the share.
LEMMA SurrenderRecorded ==
  ASSUME TypeOK, TypeOK', NEW isin \in Isins, Surrender(isin)
  PROVE  Account!ApplyCashExit(isin)
<1>1. /\ OnBook(isin) > 0 /\ OnBook(isin)' = 0 /\ cash' = cash + OnBook(isin)
      /\ \A i \in Isins : i # isin => OnBook(i)' = OnBook(i)
  BY SurrenderedWhole
<1>2. receivables' = receivables
  BY DEF Surrender
<1>3. AccountCash' = AccountCash + AccountPosition[isin]
  <2>1. AccountCash' = AccountCash + (cash' - cash) /\ cash \in Int /\ AccountCash \in Int
    BY <1>2, AccountIs, CashAddsValue, ValueType DEF TypeOK
  <2>2. PICK n \in Nat : n = OnBook(isin)
    BY OnBookIs
  <2> QED BY <1>1, <2>1, <2>2, PositionNext
<1>4. AccountPosition' = [AccountPosition EXCEPT ![isin] = 0]
  BY <1>1, PositionNext
<1> QED BY <1>1, <1>3, <1>4, PositionNext DEF Account!ApplyCashExit

\* A credit is the account's own.
LEMMA CreditRecorded ==
  ASSUME TypeOK, TypeOK', NEW amount \in Credits, CreditCash(amount)
  PROVE  Account!Credit(amount)
<1>1. amount > 0 /\ amount \in Int
  BY CreditsAssumption
<1>2. UNCHANGED <<holdings, pending, receivables>> /\ cash' = cash + amount
  BY DEF CreditCash
<1>3. \A i \in Isins : OnBook(i)' = OnBook(i)
  BY <1>2, OnBookIs, OnBookNext
<1>4. AccountCash' = AccountCash + amount
  <2>1. AccountCash' = AccountCash + (cash' - cash) /\ cash \in Int /\ AccountCash \in Int
    BY <1>2, AccountIs, CashAddsValue, ValueType DEF TypeOK
  <2> QED BY <1>1, <1>2, <2>1
<1>5. AccountPosition' = AccountPosition
  BY <1>3, PositionNext
<1> QED BY <1>1, <1>4, <1>5 DEF Account!Credit

\* Every other step is invisible to the account.
LEMMA SettlementInvisible ==
  ASSUME TypeOK, TypeOK', Underway, [Next]_vars
  PROVE  \/ UNCHANGED Account!bookVars
         \/ \E id \in due : FillBuy(id) \/ FillSell(id)
         \/ \E isin \in Isins : \/ \E ratio \in Ratios : ApplyShareRescale(isin, ratio)
                                \/ \E to \in Isins : CarryOver(isin, to)
                                \/ Surrender(isin)
         \/ \E amount \in Credits : CreditCash(amount)
<1>1. ASSUME \A i \in Isins : OnBook(i)' = OnBook(i), AccountValue' = AccountValue
      PROVE  UNCHANGED Account!bookVars
  BY <1>1, AccountIs, PositionNext DEF Account!bookVars
<1>2. CASE UNCHANGED <<cash, holdings, pending, receivables>>
  <2>1. \A i \in Isins : OnBook(i)' = OnBook(i)
    BY <1>2, OnBookIs, OnBookNext
  <2> QED BY <1>1, <1>2, <2>1, ValueNext
<1>3. ASSUME NEW t \in Sessions, SettleTrades(t)
      PROVE  UNCHANGED Account!bookVars
  BY <1>1, <1>3, SettlingKeepsShares, SettlingKeepsValue
<1>4. ASSUME NEW t \in Sessions, ReleaseAhead(t)
      PROVE  UNCHANGED Account!bookVars
  <2>1. UNCHANGED <<holdings, pending>>
    BY <1>4 DEF ReleaseAhead
  <2>2. \A i \in Isins : OnBook(i)' = OnBook(i)
    BY <2>1, OnBookIs, OnBookNext
  <2> QED BY <1>1, <1>4, <2>2, SettlingKeepsValue
<1> QED BY <1>2, <1>3, <1>4, AccountMoves

\* Every step of the broker moves in the account exactly what it should.
LEMMA StepAgrees ==
  ASSUME TypeOK, TypeOK', Underway, [Next]_vars
  PROVE  Agreement
<1>1. \A id \in due :
        /\ FillBuy(id) =>
             Account!Bought(orders[id].isin, orders[id].quantity, FillNet(orders'[id]))
        /\ FillSell(id) =>
             Account!RecordSell(orders[id].isin, orders[id].quantity, FillNet(orders'[id]))
  BY BuyRecorded, SellRecorded
<1>2. \A isin \in Isins :
        /\ \A ratio \in Ratios :
             ApplyShareRescale(isin, ratio) => Account!RescaleQuantity(isin, ratio)
        /\ \A to \in Isins : CarryOver(isin, to) => Account!ApplyMerger(isin, to)
        /\ Surrender(isin) => Account!ApplyCashExit(isin)
  BY RescaleRecorded, CarryRecorded, SurrenderRecorded
<1>3. \A amount \in Credits : CreditCash(amount) => Account!Credit(amount)
  BY CreditRecorded
<1> QED BY <1>1, <1>2, <1>3, SettlementInvisible DEF Agreement

\* And without a debt in settlement the account can pay for every buy.
LEMMA StepAccepted ==
  ASSUME TypeOK, TypeOK', Underway, NoDebt
  PROVE  Accepted
<1> SUFFICES ASSUME NEW id \in due, FillBuy(id)
             PROVE  Account!RecordBuy(orders[id].isin, orders[id].quantity, FillNet(orders'[id]))
  BY DEF Accepted
<1> QED BY BuyRecorded DEF Account!RecordBuy

\* A new broker is a new account.
LEMMA InitAccount == Init => NoDebt /\ Account!Init
<1> SUFFICES ASSUME Init PROVE NoDebt /\ Account!Init
  OBVIOUS
<1>1. TypeOK
  BY InitType
<1>2. \A t \in Sessions : receivables[t] = 0 /\ receivables[t] \in Int
  BY DEF Init
<1>3. /\ {} \subseteq Sessions /\ (\A t \in {} : receivables[t] = receivables[t])
      /\ \A t \in Sessions \ {} : receivables[t] = 0
  BY <1>2
<1>4. SumOf(receivables, Sessions) = 0
  <2>1. SumOf(receivables, Sessions) = SumOf(receivables, {})
    BY ONLY <1>2, <1>3, SessionsFinite, SumSupport
  <2> QED BY <2>1, FS_EmptySet, SumUnfolds
<1>5. AccountCash = OpeningCash
  BY <1>4, AccountIs, ValueNext, CashAssumption DEF Init
<1>6. \A i \in Isins : OnBook(i) = 0
  <2> TAKE i \in Isins
  <2>1. PICK f : f = pending[i]
    OBVIOUS
  <2>2. \A t \in Sessions : f[t] = 0 /\ f[t] \in Int
    BY <2>1 DEF Init
  <2>3. /\ {} \subseteq Sessions /\ (\A t \in {} : f[t] = f[t])
        /\ \A t \in Sessions \ {} : f[t] = 0
    BY <2>2
  <2>4. SumOf(f, Sessions) = SumOf(f, {})
    BY ONLY <2>2, <2>3, SessionsFinite, SumSupport
  <2>5. SumOf(f, Sessions) = 0
    BY <2>4, FS_EmptySet, SumUnfolds
  <2>6. OnBook(i) = holdings[i] + SumOf(f, Sessions) /\ holdings[i] = 0
    BY <1>1, <2>1, OnBookIs DEF Init, NoShares
  <2> QED BY <2>5, <2>6
<1>7. AccountPosition = [i \in Isins |-> 0]
  BY <1>6, PositionNext
<1> QED BY <1>2, <1>5, <1>7 DEF NoDebt, Account!Init

\* Broker and accounting book move alike, whatever the market, the schedule, the orders and the
\* corporate actions: each fill moves its own shares and its own net amount on both sides, each
\* action what the book's own method moves, and no settlement, release, re-run or restart moves
\* anything (SimBroker._apply and _settle_into against PortfolioBook.record_fill).
THEOREM BooksMoveAlike == Spec => BooksAgree
<1>1. Init => TypeOK /\ Underway /\ Account!Init
  BY InitType, InitUnderway, InitAccount
<1>2. TypeOK /\ Underway /\ [Next]_vars => TypeOK' /\ Underway'
  BY TypeKept, UnderwayKept
<1>3. TypeOK /\ TypeOK' /\ Underway /\ [Next]_vars => [Agreement]_vars
  BY StepAgrees
<1> QED BY <1>1, <1>2, <1>3, PTL DEF Spec, BooksAgree

\* And if sales pay for their charges the book refuses no fill the broker makes: the paper broker
\* implements the accounting book reconciliation compares it with.
THEOREM BookImplemented ==
  ASSUME SalesPay
  PROVE  Spec => ImplementsBook
<1>1. Init => TypeOK /\ Underway /\ NoDebt /\ Account!Init
  BY InitType, InitUnderway, InitAccount
<1>2. TypeOK /\ Underway /\ NoDebt /\ [Next]_vars => TypeOK' /\ Underway' /\ NoDebt'
  BY TypeKept, UnderwayKept, NoDebtKept
<1>3. TypeOK /\ TypeOK' /\ Underway /\ NoDebt /\ [Next]_vars => [Agreement /\ Accepted]_vars
  BY StepAgrees, StepAccepted
<1> QED BY <1>1, <1>2, <1>3, PTL DEF Spec, ImplementsBook

-----------------------------------------------------------------------------
(* An exit and a split *)

\* The total of one part is that part.
LEMMA TotalOne ==
  ASSUME NEW x, NEW f, f[x] \in Nat
  PROVE  Total(f, {x}) = f[x]
<1>1. PICK one : one = {x}
  OBVIOUS
<1>2. /\ IsFiniteSet(one) /\ x \in one
      /\ (\A y \in one : f[y] \in Nat) /\ (\A y \in one : f[y] \in Int)
  <2>1. IsFiniteSet(one)
    BY <1>1, FS_Singleton
  <2>2. \A y \in one : y = x
    BY <1>1
  <2>3. f[x] \in Int
    OBVIOUS
  <2> QED BY <1>1, <2>1, <2>2, <2>3
<1>3. PICK none : none = {}
  OBVIOUS
<1>4. none = one \ {x}
  BY <1>1, <1>3
<1>5. Total(f, one) = SumOf(f, one)
  BY <1>2, TotalIs
<1>6. SumOf(f, one) = f[x] + SumOf(f, none)
  BY ONLY <1>2, <1>4, SumAdd
<1>7. SumOf(f, none) = 0
  BY <1>3, FS_EmptySet, SumUnfolds
<1> QED BY <1>1, <1>5, <1>6, <1>7

\* What a step leaves staged to exit a scrip.
LEMMA ExitsNext ==
  ASSUME NEW isin \in Isins,
         NEW f, f = [id \in Known' |-> orders'[id].quantity],
         NEW S, S = {id \in Known' : /\ orders'[id].status = "STAGED" /\ orders'[id].isin = isin
                                     /\ orders'[id].side = "SELL"}
  PROVE  ExitsWhole(isin)' <=> Total(f, S) >= OnBook(isin)'
<1>1. StagedSells(isin)' = S
  BY DEF StagedSells, StagedFor, IsStaged
<1>2. ExitsWhole(isin)' <=>
        Total([id \in Known |-> orders[id].quantity], StagedSells(isin))' >= OnBook(isin)'
  BY DEF ExitsWhole
<1>3. Total([id \in Known |-> orders[id].quantity], StagedSells(isin))'
        = Total(f, StagedSells(isin)')
  BY DEF Total
<1> QED BY <1>1, <1>2, <1>3

\* A split or bonus floors an exit's only sell no lower than the position it exits.
LEMMA ExitKept ==
  ASSUME TypeOK, TypeOK', NEW isin \in Isins, NEW ratio \in Ratios,
         ApplyShareRescale(isin, ratio), Cardinality(StagedSells(isin)) = 1, ExitsWhole(isin)
  PROVE  ExitsWhole(isin)'
<1>1. IsFiniteSet(Known)
  <2>1. IsFiniteSet(0..(nextOrder - 1))
    BY FS_Interval, CalendarAssumption DEF TypeOK
  <2> QED BY <2>1, FS_Subset DEF TypeOK
<1>2. PICK sell : StagedSells(isin) = {sell}
  <2>1. IsFiniteSet(StagedSells(isin))
    BY <1>1, FS_Subset DEF StagedSells, StagedFor
  <2> QED BY <2>1, FS_Singleton
<1>3. /\ sell \in Known /\ IsStaged(sell) /\ orders[sell].isin = isin
      /\ orders[sell].side = "SELL" /\ orders[sell] \in Order
  BY <1>2 DEF StagedSells, StagedFor, TypeOK
<1>4. PICK q \in Nat : q = orders[sell].quantity
  BY <1>3 DEF Order
<1>5. PICK had \in Nat : had = OnBook(isin)
  BY OnBookIs
<1>6. q >= had
  <2>1. PICK f : f = [id \in Known |-> orders[id].quantity]
    OBVIOUS
  <2>2. Total(f, {sell}) = f[sell]
    BY <1>3, <1>4, <2>1, TotalOne
  <2> QED BY <1>2, <1>3, <1>4, <1>5, <2>1, <2>2 DEF ExitsWhole
<1>7. OnBook(isin)' = FloorRatio(had, ratio)
  BY <1>5, RescaledOnce
<1>8. FloorRatio(had, ratio) <= FloorRatio(q, ratio) /\ FloorRatio(q, ratio) \in Nat
      /\ FloorRatio(had, ratio) \in Nat
  <2>1. PICK over \in Nat : q = had + over
    <3>1. q - had \in Nat /\ q = had + (q - had)
      BY <1>6
    <3> QED BY <3>1
  <2> QED BY <2>1, FloorAdds, FloorRatioType
<1>9. orders' = [id \in Known |-> IF id \in StagedFor(isin) THEN Rescaled(orders[id], ratio)
                                                           ELSE orders[id]]
  BY DEF ApplyShareRescale
<1>10. Known' = Known
  BY <1>9 DEF Known
<1>11. \A id \in Known : orders'[id] = orders[id] \/ orders'[id] = Rescaled(orders[id], ratio)
  BY <1>9
<1>12. orders'[sell] = Rescaled(orders[sell], ratio)
  BY <1>3, <1>9 DEF StagedFor
<1>13. PICK after : after = {id \in Known' : /\ orders'[id].status = "STAGED"
                                             /\ orders'[id].isin = isin
                                             /\ orders'[id].side = "SELL"}
  OBVIOUS
<1>14. PICK g : g = [id \in Known' |-> orders'[id].quantity]
  OBVIOUS
<1>15. after \subseteq {sell}
  <2>1. \A id \in Known : orders[id] \in Order
    BY DEF TypeOK
  <2>2. \A id \in Known : /\ orders'[id].status = "STAGED" => orders[id].status = "STAGED"
                          /\ orders'[id].isin = orders[id].isin
                          /\ orders'[id].side = orders[id].side
    <3> SUFFICES ASSUME NEW id \in Known
                 PROVE  /\ orders'[id].status = "STAGED" => orders[id].status = "STAGED"
                        /\ orders'[id].isin = orders[id].isin
                        /\ orders'[id].side = orders[id].side
      OBVIOUS
    <3>1. CASE orders'[id] = orders[id]
      BY <3>1
    <3>2. CASE orders'[id] = [orders[id] EXCEPT !.status = "CANCELLED"]
      BY <2>1, <3>2 DEF Order
    <3>3. CASE orders'[id] = [orders[id] EXCEPT !.quantity = FloorRatio(orders[id].quantity, ratio)]
      BY <2>1, <3>3 DEF Order
    <3> QED BY <1>11, <3>1, <3>2, <3>3 DEF Rescaled
  <2> QED BY <1>2, <1>10, <1>13, <2>2 DEF StagedSells, StagedFor, IsStaged
<1>16. CASE FloorRatio(q, ratio) = 0
  <2>1. IsFiniteSet(after) /\ \A id \in after : g[id] \in Nat
    <3>1. \A id \in after : orders'[id] \in Order
      BY <1>13 DEF TypeOK
    <3> QED BY <1>13, <1>14, <1>15, <3>1, FS_Singleton, FS_Subset DEF Order
  <2>2. Total(g, after) \in Nat
    BY <2>1, TotalType
  <2>3. OnBook(isin)' = 0
    BY <1>7, <1>8, <1>16
  <2> QED BY <1>13, <1>14, <2>2, <2>3, ExitsNext
<1>17. CASE FloorRatio(q, ratio) # 0
  <2>1. orders'[sell] = [orders[sell] EXCEPT !.quantity = FloorRatio(q, ratio)]
    BY <1>4, <1>12, <1>17 DEF Rescaled
  <2>2. after = {sell} /\ g[sell] = FloorRatio(q, ratio)
    BY <1>3, <1>10, <1>13, <1>14, <1>15, <2>1 DEF Order, IsStaged
  <2>3. Total(g, after) = FloorRatio(q, ratio)
    BY <1>8, <2>2, TotalOne
  <2> QED BY <1>7, <1>8, <1>13, <1>14, <2>3, ExitsNext
<1> QED BY <1>16, <1>17

\* A single sell sized to exit the position before a split or bonus still exits it after, however
\* the lots, the holding and the order are rounded.
THEOREM ExitSurvives == Spec => SingleExitSurvivesRescale
<1>1. ASSUME TypeOK, TypeOK', [Next]_vars
      PROVE  [\A isin \in Isins, ratio \in Ratios :
                ApplyShareRescale(isin, ratio) /\ Cardinality(StagedSells(isin)) = 1
                /\ ExitsWhole(isin) => ExitsWhole(isin)']_vars
  BY <1>1, ExitKept
<1> QED BY <1>1, TypeCorrect, PTL DEF Spec, SingleExitSurvivesRescale

=============================================================================
