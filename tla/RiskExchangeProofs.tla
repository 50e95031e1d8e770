------------------------- MODULE RiskExchangeProofs ------------------------
(***************************************************************************)
(* The gate in front of an exchange is still the gate (refinement), and    *)
(* its views of its orders and position agree with the exchange, for all   *)
(* order ids, quantities and limits. The proof of the agreement needs the  *)
(* gate's own inductive invariant: it types the request in flight.         *)
(*                                                                         *)
(* The totals. The gate keeps its outstanding quantities as running sums,  *)
(* changed by difference. They never drift from the orders they stand for  *)
(* (TotalsNeverDrift), so what the gate shows as outstanding is what works *)
(* at the exchange, for however many orders. From that, the limits: while  *)
(* no modify has stretched an order past what it was checked for, the      *)
(* position the account would have if everything on one side filled stays  *)
(* within the limits, and only an accepted request raises it. The sums are *)
(* those of Sums; the room between the limits and half the word keeps the  *)
(* counters from wrapping.                                                 *)
(*                                                                         *)
(* The rate. RateWindow is the gate's limit per second with a clock and a  *)
(* history of sends; no second holds more than two windows' worth.         *)
(***************************************************************************)
EXTENDS RiskExchange, RiskManagerProofs, Sums

-----------------------------------------------------------------------------
(* Refinement *)

\* Every step of the composition is a step of the gate, or leaves it alone.
LEMMA ExchangeStepIsGateStep == [ExchangeNext]_allVars => [Next]_vars
<1>1. ASSUME Accept PROVE SenderAnswers
  BY <1>1 DEF Accept, SenderAnswers
<1>2. ASSUME Refuse PROVE SenderAnswers
  BY <1>2 DEF Refuse, SenderAnswers
<1>3. ASSUME NEW id \in OrderIds, NEW qty \in OrderQty, NEW price \in Price,
             Execute(id, qty, price)
      PROVE  Callback
  BY <1>3 DEF Execute, Callback
<1>4. ASSUME NEW id \in OrderIds, Expel(id) PROVE Callback
  BY <1>4 DEF Expel, Callback
<1>5. ExchangeNext => Next
  BY <1>1, <1>2, <1>3, <1>4 DEF ExchangeNext, Next
<1>6. QED BY <1>5 DEF allVars

\* The composition implements the gate's specification: what is proved of the gate
\* with an arbitrary sender holds behind this exchange.
THEOREM ExchangeImplementsGate == ExchangeSpec => Spec
<1>1. ExchangeInit => Init
  BY DEF ExchangeInit
<1>2. QED BY <1>1, ExchangeStepIsGateStep, PTL DEF ExchangeSpec, Spec

-----------------------------------------------------------------------------
(* Agreement *)

LiveOK ==
    /\ live \in [OrderIds -> Order \cup {NoOrder}]
    /\ traded \in Int
    /\ stretched \in BOOLEAN

EInv == IInv /\ LiveOK /\ ViewAgrees

\* Account and exchange both start empty.
LEMMA InitEInv == ExchangeInit => EInv
<1> SUFFICES ASSUME ExchangeInit PROVE EInv
  OBVIOUS
<1>1. Init
  BY DEF ExchangeInit
<1>2. LiveOK
  <2>1. live \in [OrderIds -> Order \cup {NoOrder}] /\ traded \in Int
    BY DEF ExchangeInit
  <2>2. stretched \in BOOLEAN
    BY DEF ExchangeInit
  <2>3. QED BY <2>1, <2>2 DEF LiveOK
<1>3. ViewAgrees
  <2>1. exposure.pending = live /\ open = live /\ position = traded
    BY DEF ExchangeInit, Init
  <2>2. \A id \in OrderIds : open[id] = NoOrder /\ open[id].qty >= open[id].qty
    BY DEF ExchangeInit, Init, NoOrder
  <2>3. QED BY <2>1, <2>2 DEF ViewAgrees
<1>4. QED BY <1>1, <1>2, <1>3, InitIInv DEF EInv

\* Registering the order that the exchange took makes both sides hold it.
LEMMA RegisterAgrees ==
    ASSUME EInv, call.op \in {"new", "modify"},
           NEW STATE before, before \in Exposures,
           \A id \in OrderIds \ {call.id} : before.pending[id] = exposure.pending[id],
           Registers(TRUE, before),
           live' = [live EXCEPT ![call.id] = call.order], UNCHANGED traded
    PROVE  ViewAgrees' /\ live' \in [OrderIds -> Order \cup {NoOrder}]
<1>1. call.id \in OrderIds /\ call.order \in Order
  BY InFlightCall DEF EInv
<1>2. /\ open' = [open EXCEPT ![call.id] = call.order]
      /\ exposure' = OnOrderSent(before, call.id, call.order)
      /\ position' = position
  BY DEF Registers, account
<1>3. exposure'.pending = [before.pending EXCEPT ![call.id] = call.order]
  BY <1>2 DEF OnOrderSent
<1>4. exposure'.pending = live'
  BY <1>1, <1>3 DEF EInv, LiveOK, ViewAgrees, Exposures
<1>5. call.order.qty \in Int /\ call.order # NoOrder
  BY <1>1, WordAssumption, NoOrderIsNone DEF Order
<1>6. ASSUME NEW id \in OrderIds
      PROVE  /\ open'[id] = NoOrder <=> live'[id] = NoOrder
             /\ open'[id].side = live'[id].side
             /\ open'[id].qty >= live'[id].qty
  <2>1. CASE id = call.id
    BY <1>1, <1>2, <1>5, <2>1 DEF EInv, IInv, TypeOK, LiveOK
  <2>2. CASE id # call.id
    BY <1>1, <1>2, <2>2 DEF EInv, IInv, TypeOK, LiveOK, ViewAgrees
  <2>3. QED BY <2>1, <2>2
<1>7. QED BY <1>1, <1>2, <1>4, <1>6 DEF EInv, LiveOK, ViewAgrees

\* Forgetting the order that the exchange dropped removes it from both sides.
LEMMA ForgetAgrees ==
    ASSUME EInv, NEW id \in OrderIds, Forget(id), Drop(id), UNCHANGED position
    PROVE  ViewAgrees' /\ LiveOK'
<1>1. /\ open' = [open EXCEPT ![id] = NoOrder]
      /\ exposure'.pending = [exposure.pending EXCEPT ![id] = NoOrder]
  BY DEF Forget, OnOrderRemoved, Drop, EInv, ViewAgrees
<1>2. live' = [live EXCEPT ![id] = NoOrder] /\ UNCHANGED <<traded, stretched>>
  BY DEF Drop
<1>3. exposure'.pending = live' /\ LiveOK'
  BY <1>1, <1>2 DEF EInv, LiveOK, ViewAgrees
<1>4. ASSUME NEW i \in OrderIds
      PROVE  /\ open'[i] = NoOrder <=> live'[i] = NoOrder
             /\ open'[i].side = live'[i].side
             /\ open'[i].qty >= live'[i].qty
  <2>1. NoOrder.qty >= NoOrder.qty
    BY DEF NoOrder
  <2>2. QED BY <1>1, <1>2, <2>1 DEF EInv, IInv, TypeOK, LiveOK, ViewAgrees
<1>5. QED BY <1>2, <1>3, <1>4 DEF EInv, ViewAgrees

\* An execution lowers the order on both sides by as much, or ends it on both.
LEMMA ExecuteAgrees ==
    ASSUME EInv, NEW id \in OrderIds, NEW qty \in OrderQty, NEW price \in Price,
           Execute(id, qty, price)
    PROVE  ViewAgrees' /\ LiveOK'
<1> DEFINE left == live[id].qty - qty
<1>1. /\ live[id] \in Order /\ open[id] \in Order /\ exposure.pending[id] = live[id]
      /\ open[id].side = live[id].side /\ open[id].qty >= live[id].qty
  BY DEF Execute, EInv, IInv, TypeOK, LiveOK, ViewAgrees
<1>2. left \in 0 .. Word - 1
  BY <1>1, WordAssumption, QtyAssumption DEF Execute, Order
<1>3. Wrap(left) = left
  BY <1>2, WrapFits
<1>4. OnFill(id, qty, price, left = 0)
  BY DEF Execute
<1>5. exposure'.pending = [exposure.pending EXCEPT ![id] =
                             IF left = 0 THEN NoOrder ELSE [live[id] EXCEPT !.qty = left]]
  BY <1>1, <1>3, <1>4, NoOrderIsNone DEF OnFill, OnOrderFilled
<1>6. live' = [live EXCEPT ![id] = IF left = 0 THEN NoOrder ELSE [live[id] EXCEPT !.qty = left]]
  BY DEF Execute
<1>7. open' = IF left = 0 THEN [open EXCEPT ![id] = NoOrder] ELSE open
  BY <1>4 DEF OnFill
<1>8. position' = position + Signed(live[id].side, qty) /\ traded' = traded + Signed(live[id].side, qty)
  BY <1>1, <1>4 DEF OnFill, Execute
<1>9. [live[id] EXCEPT !.qty = left] \in Order
  BY <1>1, <1>2 DEF Order
<1>10. LiveOK'
  <2>1. Signed(live[id].side, qty) \in Int
    BY WordAssumption, QtyAssumption DEF Signed
  <2>2. traded' \in Int
    BY <1>8, <2>1 DEF EInv, LiveOK
  <2>3. live' \in [OrderIds -> Order \cup {NoOrder}]
    BY <1>6, <1>9 DEF EInv, LiveOK
  <2>4. QED BY <2>2, <2>3 DEF EInv, LiveOK, Execute
<1>11. ASSUME NEW i \in OrderIds
       PROVE  /\ open'[i] = NoOrder <=> live'[i] = NoOrder
              /\ open'[i].side = live'[i].side
              /\ open'[i].qty >= live'[i].qty
  <2>1. CASE i # id
    BY <1>6, <1>7, <2>1 DEF EInv, IInv, TypeOK, LiveOK, ViewAgrees
  <2>2. CASE i = id /\ left = 0
    <3>1. open'[i] = NoOrder /\ live'[i] = NoOrder
      BY <1>6, <1>7, <2>2 DEF EInv, IInv, TypeOK, LiveOK
    <3>2. QED BY <3>1 DEF NoOrder
  <2>3. CASE i = id /\ left # 0
    <3>1. open'[i] = open[id] /\ live'[i] = [live[id] EXCEPT !.qty = left]
      BY <1>6, <1>7, <2>3 DEF EInv, IInv, TypeOK, LiveOK
    <3>2. live'[i].qty = left /\ live'[i].side = live[id].side
      BY <1>1, <3>1 DEF Order
    <3>3. left <= live[id].qty /\ left \in Int /\ live[id].qty \in Int /\ open[id].qty \in Int
      BY <1>1, <1>2, WordAssumption, QtyAssumption DEF Order
    <3>4. open'[i].qty >= live'[i].qty
      BY <1>1, <3>1, <3>2, <3>3
    <3>5. QED BY <1>1, <1>9, <3>1, <3>2, <3>4, NoOrderIsNone
  <2>4. QED BY <2>1, <2>2, <2>3
<1>12. exposure'.pending = live' /\ position' = traded'
  BY <1>5, <1>6, <1>8 DEF EInv, ViewAgrees
<1>13. QED BY <1>10, <1>11, <1>12 DEF ViewAgrees

\* Every step keeps the agreement.
LEMMA NextEInv ==
    ASSUME EInv, [ExchangeNext]_allVars
    PROVE  EInv'
<1>1. SUFFICES ViewAgrees' /\ LiveOK'
  <2>1. IInv'
    BY ExchangeStepIsGateStep, NextIInv DEF EInv
  <2>2. QED BY <2>1 DEF EInv
<1>2. ASSUME UNCHANGED <<position, exposure, open, exchange, stretched>>
      PROVE  ViewAgrees' /\ LiveOK'
  BY <1>2 DEF EInv, ViewAgrees, LiveOK, exchange
<1>3. CASE UNCHANGED allVars
  BY <1>2, <1>3 DEF allVars, vars, account
<1>4. CASE Strategy /\ UNCHANGED <<exchange, stretched>>
  <2>1. UNCHANGED <<position, exposure, open>>
    <3>1. ASSUME NEW id, NEW side, NEW qty, NEW price, NEW elapsed,
                 \/ SendNewOrder(id, side, qty, price, elapsed)
                 \/ ModifyOrder(id, side, qty, price, elapsed)
          PROVE  UNCHANGED <<position, exposure, open>>
      BY <3>1 DEF SendNewOrder, ModifyOrder, Request, account
    <3>2. QED BY <1>4, <3>1 DEF Strategy, DeleteOrder, CancelAllOpenOrders, UpdateMarkPrice,
                 OnSeqNumUpdate, CheckAndShutdownIfNeeded, account
  <2>2. QED BY <1>2, <1>4, <2>1
<1>5. CASE Accept
  <2>1. exposure \in Exposures
    BY TypeOKExposures DEF EInv, IInv
  <2>2. ASSUME SendReturns(TRUE), live' = [live EXCEPT ![call.id] = call.order],
               UNCHANGED <<traded, stretched>>
        PROVE  ViewAgrees' /\ LiveOK'
    BY <2>1, <2>2, RegisterAgrees DEF SendReturns, EInv, LiveOK
  <2>3. ASSUME ModifyReturns(TRUE), live' = [live EXCEPT ![call.id] = call.order],
               UNCHANGED traded, stretched' \in BOOLEAN
        PROVE  ViewAgrees' /\ LiveOK'
    <3>1. call.id \in OrderIds
      BY <2>3, InFlightCall DEF ModifyReturns, EInv
    <3>2. OnOrderRemoved(exposure, call.id) \in Exposures
      BY <2>1, <3>1, RemovedType
    <3>3. \A id \in OrderIds \ {call.id} :
             OnOrderRemoved(exposure, call.id).pending[id] = exposure.pending[id]
      BY <2>1, <3>1 DEF OnOrderRemoved, Exposures
    <3>4. QED BY <2>3, <3>2, <3>3, RegisterAgrees DEF ModifyReturns, EInv, LiveOK
  <2>4. ASSUME NEW id \in OrderIds, Deletes(id, TRUE), Drop(id)
        PROVE  ViewAgrees' /\ LiveOK'
    BY <2>4, ForgetAgrees DEF Deletes, account
  <2>5. ASSUME DeleteReturns(TRUE) PROVE call.id \in OrderIds
    BY <2>5 DEF DeleteReturns, EInv, IInv, TypeOK, Idle
  <2>6. QED BY <1>5, <2>2, <2>3, <2>4, <2>5
             DEF Accept, DeleteReturns, CancelReturns, SweepReturns, EInv, LiveOK
<1>6. CASE Refuse
  <2>1. ASSUME NEW before, Registers(FALSE, before)
        PROVE  UNCHANGED <<position, exposure, open>>
    BY <2>1 DEF Registers, account
  <2>2. ASSUME NEW id, Deletes(id, FALSE)
        PROVE  UNCHANGED <<position, exposure, open>>
    BY <2>2 DEF Deletes, account
  <2>3. UNCHANGED <<position, exposure, open, exchange, stretched>>
    BY <1>6, <2>1, <2>2 DEF Refuse, SendReturns, ModifyReturns, DeleteReturns, CancelReturns,
                            SweepReturns
  <2>4. QED BY <1>2, <2>3
<1>7. ASSUME NEW id \in OrderIds, NEW qty \in OrderQty, NEW price \in Price,
             Execute(id, qty, price)
      PROVE  ViewAgrees' /\ LiveOK'
  BY <1>7, ExecuteAgrees
<1>8. ASSUME NEW id \in OrderIds, Expel(id)
      PROVE  ViewAgrees' /\ LiveOK'
  BY <1>8, ForgetAgrees DEF Expel, OnReject, OnClose, account
<1>9. QED BY <1>3, <1>4, <1>5, <1>6, <1>7, <1>8 DEF ExchangeNext

\* The gate's view of its orders and its position is the exchange's, in every state
\* and for every number of orders: callbacks inside a blocked request included.
THEOREM ViewsAgree == ExchangeSpec => []ViewAgrees
<1>1. EInv /\ [ExchangeNext]_allVars => EInv'
  BY NextEInv
<1>2. EInv => ViewAgrees
  BY DEF EInv
<1>3. QED BY InitEInv, <1>1, <1>2, PTL DEF ExchangeSpec

\* The composition keeps its types.
THEOREM ExchangeTypeCorrect == ExchangeSpec => []ExchangeTypeOK
<1>1. EInv /\ [ExchangeNext]_allVars => EInv'
  BY NextEInv
<1>2. EInv => ExchangeTypeOK
  BY DEF EInv, IInv, LiveOK, ExchangeTypeOK
<1>3. QED BY InitEInv, <1>1, <1>2, PTL DEF ExchangeSpec

-----------------------------------------------------------------------------
(* Totals *)

\* What an order adds to the quantity of a side
Amount(order, side) == IF order.side = side THEN order.qty ELSE 0

Amounts(orders, side) == [id \in OrderIds |-> Amount(orders[id], side)]

Total(orders, side) == SumFunctionOnSet(Amounts(orders, side), OrderIds)

OrderMaps == [OrderIds -> Order \cup {NoOrder}]

\* A quantity is a natural number.
LEMMA AmountNat ==
    ASSUME NEW order \in Order \cup {NoOrder}, NEW side
    PROVE  Amount(order, side) \in Nat
BY WordAssumption DEF Amount, Order, NoOrder

\* A side's total is a natural number and at least each of its orders.
LEMMA TotalNat ==
    ASSUME NEW orders \in OrderMaps, NEW side
    PROVE  /\ Total(orders, side) \in Nat
           /\ \A id \in OrderIds : Amount(orders[id], side) <= Total(orders, side)
<1> DEFINE f == Amounts(orders, side)
<1>1. \A id \in OrderIds : f[id] \in Nat /\ f[id] = Amount(orders[id], side)
  BY AmountNat DEF Amounts, OrderMaps
<1> HIDE DEF f
<1>2. /\ SumFunctionOnSet(f, OrderIds) \in Nat
      /\ \A id \in OrderIds : f[id] <= SumFunctionOnSet(f, OrderIds)
  BY <1>1, SumNat, FiniteIdsAssumption
<1>3. Total(orders, side) = SumFunctionOnSet(f, OrderIds)
  BY DEF Total, f
<1>4. QED BY <1>1, <1>2, <1>3

\* Replacing an order moves the total by the difference of the two.
LEMMA TotalChange ==
    ASSUME NEW orders \in OrderMaps, NEW side, NEW id \in OrderIds,
           NEW order \in Order \cup {NoOrder}
    PROVE  Total([orders EXCEPT ![id] = order], side)
             = Total(orders, side) - Amount(orders[id], side) + Amount(order, side)
<1> DEFINE f == Amounts(orders, side)
           g == Amounts([orders EXCEPT ![id] = order], side)
<1>1. \A i \in OrderIds : f[i] = Amount(orders[i], side)
  BY DEF Amounts
<1>2. g[id] = Amount(order, side) /\ \A i \in OrderIds \ {id} : g[i] = f[i]
  BY DEF Amounts, OrderMaps
<1>3. \A i \in OrderIds : f[i] \in Int
  <2>1. \A i \in OrderIds : Amount(orders[i], side) \in Nat
    BY AmountNat DEF OrderMaps
  <2>2. QED BY <1>1, <2>1
<1>4. \A i \in OrderIds : g[i] \in Int
  <2>1. Amount(order, side) \in Nat
    BY AmountNat
  <2>2. g[id] \in Int
    BY <1>2, <2>1
  <2> HIDE DEF f, g
  <2>3. ASSUME NEW i \in OrderIds \ {id} PROVE g[i] \in Int
    BY <1>2, <1>3
  <2>4. QED BY <2>2, <2>3
<1> HIDE DEF f, g
<1>5. SumFunctionOnSet(g, OrderIds) = SumFunctionOnSet(f, OrderIds) - f[id] + g[id]
  BY <1>2, <1>3, <1>4, SumChange, FiniteIdsAssumption
<1>6. QED BY <1>1, <1>2, <1>5 DEF Total, f, g

\* Without orders there is nothing to add up.
LEMMA TotalNone ==
    ASSUME NEW side \in Side
    PROVE  Total([id \in OrderIds |-> NoOrder], side) = 0
<1> DEFINE f == Amounts([id \in OrderIds |-> NoOrder], side)
<1>1. \A id \in OrderIds \ {} : f[id] = 0
  BY DEF Amounts, Amount, NoOrder, Side
<1> HIDE DEF f
<1>2. SumFunctionOnSet(f, OrderIds) = SumFunctionOnSet(f, {})
  BY <1>1, SumFilter, FiniteIdsAssumption
<1>3. QED BY <1>2, SumEmpty DEF Total, f

\* The sum over one side's orders is the side's total.
LEMMA WorkingIsTotal ==
    ASSUME live \in OrderMaps, NEW side \in Side
    PROVE  Working(side) = Total(live, side)
<1> DEFINE T == {id \in OrderIds : live[id].side = side}
           f == [id \in OrderIds |-> live[id].qty]
           g == Amounts(live, side)
<1>1. \A id \in T : f[id] \in Int /\ g[id] = f[id]
  <2>1. \A id \in OrderIds : live[id].qty \in Int
    BY QtyIsInt DEF OrderMaps
  <2>2. QED BY <2>1 DEF Amounts, Amount
<1>2. \A id \in OrderIds \ T : g[id] = 0
  BY DEF Amounts, Amount
<1>3. T \in SUBSET OrderIds
  OBVIOUS
<1>4. Working(side) = SumFunctionOnSet(f, T) /\ Total(live, side) = SumFunctionOnSet(g, OrderIds)
  BY DEF Working, Total
<1> HIDE DEF T, f, g
<1>5. SumFunctionOnSet(g, OrderIds) = SumFunctionOnSet(f, T)
  BY <1>1, <1>2, <1>3, SumFilter, FiniteIdsAssumption
<1>6. QED BY <1>4, <1>5

-----------------------------------------------------------------------------
(* ExposureTracker *)

\* The incremental totals are those of the pending orders, up to the wrap of uint32_t
Consistent(e) ==
    \A side \in Side : e.outstanding[side] = Wrap(Total(e.pending, side))

\* Registering an order that is not pending keeps the totals consistent.
LEMMA SentConsistent ==
    ASSUME NEW e \in Exposures, Consistent(e), NEW id \in OrderIds, NEW order \in Order,
           e.pending[id] = NoOrder
    PROVE  Consistent(OnOrderSent(e, id, order))
<1> SUFFICES ASSUME NEW side \in Side
             PROVE  OnOrderSent(e, id, order).outstanding[side]
                      = Wrap(Total(OnOrderSent(e, id, order).pending, side))
  BY DEF Consistent
<1> DEFINE t == Total(e.pending, side)
<1>1. e.pending \in OrderMaps /\ t \in Nat /\ e.outstanding[side] = Wrap(t) /\ order.side \in Side
  BY TotalNat DEF Exposures, OrderMaps, Consistent, Order
<1>2. /\ OnOrderSent(e, id, order).pending = [e.pending EXCEPT ![id] = order]
      /\ OnOrderSent(e, id, order).outstanding[side]
           = IF side = order.side THEN Wrap(Wrap(t) + order.qty) ELSE Wrap(t)
  BY <1>1 DEF OnOrderSent, Exposures
<1>3. Total([e.pending EXCEPT ![id] = order], side) = t - Amount(NoOrder, side) + Amount(order, side)
  BY <1>1, TotalChange
<1>4. Amount(NoOrder, side) = 0
  BY DEF Amount, NoOrder
<1> HIDE DEF t
<1>5. order.qty \in Int
  BY WordAssumption DEF Order
<1>6. CASE side = order.side
  <2>1. Total([e.pending EXCEPT ![id] = order], side) = t + order.qty
    BY <1>1, <1>3, <1>4, <1>5, <1>6 DEF Amount
  <2>2. QED BY <1>1, <1>2, <1>5, <1>6, <2>1, WrapAdd
<1>7. CASE side # order.side
  <2>1. Total([e.pending EXCEPT ![id] = order], side) = t
    BY <1>1, <1>3, <1>4, <1>7 DEF Amount
  <2>2. QED BY <1>2, <1>7, <2>1
<1>8. QED BY <1>6, <1>7

\* Removing an order, known or not, keeps the totals consistent.
LEMMA RemovedConsistent ==
    ASSUME NEW e \in Exposures, Consistent(e), NEW id \in OrderIds
    PROVE  Consistent(OnOrderRemoved(e, id))
<1>1. CASE e.pending[id] = NoOrder
  BY <1>1 DEF OnOrderRemoved
<1>2. CASE e.pending[id] # NoOrder
  <2> SUFFICES ASSUME NEW side \in Side
               PROVE  OnOrderRemoved(e, id).outstanding[side]
                        = Wrap(Total(OnOrderRemoved(e, id).pending, side))
    BY DEF Consistent
  <2> DEFINE t == Total(e.pending, side)
             order == e.pending[id]
  <2>1. /\ e.pending \in OrderMaps /\ t \in Nat /\ e.outstanding[side] = Wrap(t)
        /\ order \in Order /\ order.side \in Side
    BY <1>2, TotalNat DEF Exposures, OrderMaps, Consistent, Order
  <2>2. /\ OnOrderRemoved(e, id).pending = [e.pending EXCEPT ![id] = NoOrder]
        /\ OnOrderRemoved(e, id).outstanding[side]
             = IF side = order.side THEN Wrap(Wrap(t) - order.qty) ELSE Wrap(t)
    BY <1>2, <2>1 DEF OnOrderRemoved, Exposures
  <2>3. Total([e.pending EXCEPT ![id] = NoOrder], side)
          = t - Amount(order, side) + Amount(NoOrder, side)
    BY <2>1, TotalChange
  <2>4. Amount(NoOrder, side) = 0
    BY DEF Amount, NoOrder
  <2>5. order.qty \in Int
    BY <2>1, WordAssumption DEF Order
  <2> HIDE DEF t, order
  <2>6. CASE side = order.side
    <3>1. Total([e.pending EXCEPT ![id] = NoOrder], side) = t + -order.qty
      BY <2>1, <2>3, <2>4, <2>5, <2>6 DEF Amount
    <3>2. Wrap(t) - order.qty = Wrap(t) + -order.qty
      BY <2>1, <2>5, WrapFits, WordAssumption
    <3>3. QED BY <2>1, <2>2, <2>5, <2>6, <3>1, <3>2, WrapAdd
  <2>7. CASE side # order.side
    <3>1. Total([e.pending EXCEPT ![id] = NoOrder], side) = t
      BY <2>1, <2>3, <2>4, <2>7 DEF Amount
    <3>2. QED BY <2>2, <2>7, <3>1
  <2>8. QED BY <2>6, <2>7
<1>3. QED BY <1>1, <1>2

\* So does a fill of any quantity: order and total wrap alike.
LEMMA FilledConsistent ==
    ASSUME NEW e \in Exposures, Consistent(e), NEW id \in OrderIds, NEW qty \in OrderQty
    PROVE  Consistent(OnOrderFilled(e, id, qty))
<1>1. CASE e.pending[id] = NoOrder
  BY <1>1 DEF OnOrderFilled
<1>2. CASE e.pending[id] # NoOrder
  <2> SUFFICES ASSUME NEW side \in Side
               PROVE  OnOrderFilled(e, id, qty).outstanding[side]
                        = Wrap(Total(OnOrderFilled(e, id, qty).pending, side))
    BY DEF Consistent
  <2> DEFINE t == Total(e.pending, side)
             order == e.pending[id]
             left == Wrap(order.qty - qty)
             after == IF left = 0 THEN NoOrder ELSE [order EXCEPT !.qty = left]
  <2>1. /\ e.pending \in OrderMaps /\ t \in Nat /\ e.outstanding[side] = Wrap(t)
        /\ order \in Order /\ order.side \in Side
    BY <1>2, TotalNat DEF Exposures, OrderMaps, Consistent, Order
  <2>2. /\ OnOrderFilled(e, id, qty).pending = [e.pending EXCEPT ![id] = after]
        /\ OnOrderFilled(e, id, qty).outstanding[side]
             = IF side = order.side THEN Wrap(Wrap(t) - qty) ELSE Wrap(t)
    BY <1>2, <2>1 DEF OnOrderFilled, Exposures
  <2>3. order.qty \in Int /\ qty \in Int
    BY <2>1, WordAssumption, QtyAssumption DEF Order
  <2>4. left \in 0 .. Word - 1
    BY <2>3, WrapFits
  <2>5. after \in Order \cup {NoOrder}
    BY <2>1, <2>4 DEF Order
  <2>6. Amount(after, side) = IF side = order.side THEN left ELSE 0
    BY <2>1 DEF Amount, NoOrder, Order
  <2> HIDE DEF after
  <2>7. Total([e.pending EXCEPT ![id] = after], side) = t - Amount(order, side) + Amount(after, side)
    BY <2>1, <2>5, TotalChange
  <2> HIDE DEF t, order
  <2>8. CASE side = order.side
    <3>1. Total([e.pending EXCEPT ![id] = after], side) = (t - order.qty) + left
      BY <2>1, <2>3, <2>6, <2>7, <2>8 DEF Amount
    <3> DEFINE a == order.qty - qty
               b == t - order.qty
               m == -qty
    <3>2. Wrap(left + b) = Wrap(a + b)
      <4>1. a \in Int /\ b \in Int /\ left = Wrap(a)
        BY <2>1, <2>3
      <4> HIDE DEF a, b, left
      <4>2. QED BY <4>1, WrapAdd
    <3>3. left + b = (t - order.qty) + left /\ a + b = t + m
      BY <2>1, <2>3, <2>4, WordAssumption
    <3>4. Wrap(Wrap(t) + m) = Wrap(t + m)
      <4>1. m \in Int
        BY <2>3
      <4> HIDE DEF m
      <4>2. QED BY <2>1, <4>1, WrapAdd
    <3>5. Wrap(t) + m = Wrap(t) - qty
      BY <2>1, <2>3, WrapFits, WordAssumption
    <3> HIDE DEF left, a, b, m
    <3>6. QED BY <2>2, <2>8, <3>1, <3>2, <3>3, <3>4, <3>5
  <2>9. CASE side # order.side
    <3>1. Total([e.pending EXCEPT ![id] = after], side) = t
      BY <2>1, <2>6, <2>7, <2>9 DEF Amount
    <3>2. QED BY <2>2, <2>9, <3>1
  <2>10. QED BY <2>8, <2>9
<1>3. QED BY <1>1, <1>2

-----------------------------------------------------------------------------
(* What a step can do to the orders, the position and the request in flight *)

Still == UNCHANGED <<position, exposure, open, live, stretched>>

\* The request in flight stays, or none is left
NoNewRequest == call' = call \/ ~InFlight'

\* A request that passed its checks goes to the sender
Asks(id, side, qty, price) ==
    /\ Ready
    /\ \/ CheckNewOrder(id, side, qty, price) /\ call'.op = "new"
       \/ CheckModifyOrder(id, side, qty, price) /\ call'.op = "modify"
    /\ call'.id = id /\ call'.order = [side |-> side, qty |-> qty]

TakesNew ==
    /\ SendReturns(TRUE)
    /\ live' = [live EXCEPT ![call.id] = call.order]
    /\ UNCHANGED stretched

TakesModify ==
    /\ ModifyReturns(TRUE)
    /\ live[call.id] # NoOrder
    /\ live' = [live EXCEPT ![call.id] = call.order]
    /\ stretched' = \/ stretched
                    \/ /\ call.order.side = live[call.id].side
                       /\ live[call.id].qty < open[call.id].qty

Loses(id) == Forget(id) /\ Drop(id) /\ UNCHANGED position /\ NoNewRequest

\* A call of the strategy touches no order, and sends a request that it has checked
\* or none.
LEMMA StrategyStep ==
    ASSUME Strategy, UNCHANGED <<exchange, stretched>>
    PROVE  Still /\ \/ NoNewRequest
                    \/ \E id \in OrderIds, side \in Side, qty \in OrderQty, price \in Price :
                          Asks(id, side, qty, price)
<1>1. ASSUME NEW id \in OrderIds, NEW side \in Side, NEW qty \in OrderQty,
             NEW price \in Price, NEW elapsed \in BOOLEAN,
             \/ SendNewOrder(id, side, qty, price, elapsed)
             \/ ModifyOrder(id, side, qty, price, elapsed)
      PROVE  Still /\ (NoNewRequest \/ Asks(id, side, qty, price))
  BY <1>1 DEF SendNewOrder, ModifyOrder, Request, Still, NoNewRequest, Asks, account, exchange
<1>2. ASSUME NEW id \in OrderIds, DeleteOrder(id)
      PROVE  Still /\ NoNewRequest
  BY <1>2 DEF DeleteOrder, Still, NoNewRequest, InFlight, account, exchange
<1>3. ASSUME CancelAllOpenOrders \/ CheckAndShutdownIfNeeded
      PROVE  Still /\ NoNewRequest
  BY <1>3 DEF CancelAllOpenOrders, CheckAndShutdownIfNeeded, Still, NoNewRequest, account, exchange
<1>4. ASSUME NEW x, UpdateMarkPrice(x) \/ OnSeqNumUpdate(x)
      PROVE  Still /\ NoNewRequest
  BY <1>4 DEF UpdateMarkPrice, OnSeqNumUpdate, Still, NoNewRequest, account, frames, exchange
<1>5. QED BY <1>1, <1>2, <1>3, <1>4 DEF Strategy

\* The six kinds of step.
LEMMA StepKinds ==
    ASSUME EInv, [ExchangeNext]_allVars
    PROVE  \/ Still /\ NoNewRequest
           \/ /\ Still
              /\ \E id \in OrderIds, side \in Side, qty \in OrderQty, price \in Price :
                    Asks(id, side, qty, price)
           \/ TakesNew
           \/ TakesModify
           \/ \E id \in OrderIds : Loses(id)
           \/ \E id \in OrderIds, qty \in OrderQty, price \in Price : Execute(id, qty, price)
<1>1. CASE UNCHANGED allVars
  BY <1>1 DEF allVars, vars, account, frames, exchange, Still, NoNewRequest
<1>2. CASE Strategy /\ UNCHANGED <<exchange, stretched>>
  BY <1>2, StrategyStep
<1>3. CASE Accept
  <2>1. ASSUME NEW id \in OrderIds, Drop(id),
               \/ DeleteReturns(TRUE) /\ id = call.id
               \/ CancelReturns(id, TRUE) \/ SweepReturns(id, TRUE)
        PROVE  Loses(id)
    BY <2>1 DEF DeleteReturns, CancelReturns, SweepReturns, Deletes, Loses, NoNewRequest, InFlight,
                Idle, account
  <2>2. ASSUME DeleteReturns(TRUE) PROVE call.id \in OrderIds
    BY <2>2 DEF DeleteReturns, EInv, IInv, TypeOK, Idle
  <2>3. QED BY <1>3, <2>1, <2>2 DEF Accept, TakesNew, TakesModify
<1>4. CASE Refuse
  <2>1. ASSUME SendReturns(FALSE) \/ ModifyReturns(FALSE)
        PROVE  UNCHANGED <<position, exposure, open>> /\ NoNewRequest
    BY <2>1 DEF SendReturns, ModifyReturns, Registers, NoNewRequest, InFlight, Idle, account
  <2>2. ASSUME NEW id \in OrderIds,
               \/ DeleteReturns(FALSE)
               \/ CancelReturns(id, FALSE) \/ SweepReturns(id, FALSE)
        PROVE  UNCHANGED <<position, exposure, open>> /\ NoNewRequest
    BY <2>2 DEF DeleteReturns, CancelReturns, SweepReturns, Deletes, NoNewRequest, InFlight, Idle,
                account
  <2>3. UNCHANGED <<live, stretched>>
    BY <1>4 DEF Refuse, exchange
  <2>4. ASSUME DeleteReturns(FALSE) PROVE call.id \in OrderIds
    BY <2>4 DEF DeleteReturns, EInv, IInv, TypeOK, Idle
  <2>5. QED BY <1>4, <2>1, <2>2, <2>3, <2>4 DEF Refuse, Still
<1>5. ASSUME NEW id \in OrderIds, Expel(id) PROVE Loses(id)
  BY <1>5 DEF Expel, OnReject, OnClose, Loses, NoNewRequest, account, frames
<1>6. QED BY <1>1, <1>2, <1>3, <1>4, <1>5 DEF ExchangeNext

-----------------------------------------------------------------------------
(* The per-side totals *)

\* A new order in flight is of an id that no order has
NewIsUnknown == call.op = "new" => open[call.id] = NoOrder

KInv == EInv /\ Consistent(exposure) /\ NewIsUnknown

\* Both sides start at zero.
LEMMA InitKInv == ExchangeInit => KInv
<1> SUFFICES ASSUME ExchangeInit PROVE KInv
  OBVIOUS
<1>1. Consistent(exposure)
  <2>1. \A side \in Side : exposure.outstanding[side] = 0
    BY DEF ExchangeInit, Init
  <2>2. \A side \in Side : Total(exposure.pending, side) = 0
    BY TotalNone DEF ExchangeInit, Init
  <2>3. Wrap(0) = 0
    BY WrapFits, WordAssumption
  <2>4. QED BY <2>1, <2>2, <2>3 DEF Consistent
<1>2. NewIsUnknown
  BY DEF ExchangeInit, Init, NewIsUnknown, Idle
<1>3. QED BY <1>1, <1>2, InitEInv DEF KInv

\* A new order goes to an id without an order, so no total is overwritten.
LEMMA TakesNewUnknown ==
    ASSUME KInv, TakesNew
    PROVE  /\ call.id \in OrderIds /\ call.order \in Order
           /\ exposure.pending[call.id] = NoOrder /\ live[call.id] = NoOrder
<1>1. call.op = "new"
  BY DEF TakesNew, SendReturns
<1>2. call.id \in OrderIds /\ call.order \in Order
  BY <1>1, InFlightCall DEF KInv, EInv
<1>3. QED BY <1>1, <1>2 DEF KInv, EInv, ViewAgrees, NewIsUnknown

\* Every step keeps the totals consistent.
LEMMA NextKInv ==
    ASSUME KInv, [ExchangeNext]_allVars
    PROVE  KInv'
<1>1. SUFFICES Consistent(exposure') /\ NewIsUnknown'
  BY NextEInv DEF KInv, Consistent
<1>2. exposure \in Exposures
  BY TypeOKExposures DEF KInv, EInv, IInv
<1>3. ASSUME NoNewRequest, \A id \in OrderIds : open[id] = NoOrder => open'[id] = NoOrder
      PROVE  NewIsUnknown'
  <2>1. CASE call' = call
    <3>1. call.op = "new" => call.id \in OrderIds
      BY InFlightCall DEF KInv, EInv
    <3>2. QED BY <1>3, <2>1, <3>1 DEF KInv, NewIsUnknown
  <2>2. CASE ~InFlight'
    BY <2>2 DEF NewIsUnknown, InFlight
  <2>3. QED BY <1>3, <2>1, <2>2 DEF NoNewRequest
<1>4. CASE Still /\ NoNewRequest
  BY <1>3, <1>4 DEF Still, KInv
<1>5. ASSUME Still, NEW id \in OrderIds, NEW side \in Side, NEW qty \in OrderQty,
             NEW price \in Price, Asks(id, side, qty, price)
      PROVE  Consistent(exposure') /\ NewIsUnknown'
  BY <1>5 DEF Still, Asks, CheckNewOrder, NewIsUnknown, KInv
<1>6. CASE TakesNew
  <2>1. exposure' = OnOrderSent(exposure, call.id, call.order) /\ call' = Idle
    BY <1>6 DEF TakesNew, SendReturns, Registers
  <2>2. Consistent(exposure')
    BY <1>2, <1>6, <2>1, TakesNewUnknown, SentConsistent DEF KInv
  <2>3. QED BY <2>1, <2>2 DEF NewIsUnknown, Idle
<1>7. CASE TakesModify
  <2> DEFINE before == OnOrderRemoved(exposure, call.id)
  <2>1. exposure' = OnOrderSent(before, call.id, call.order) /\ call' = Idle
    BY <1>7 DEF TakesModify, ModifyReturns, Registers
  <2>2. call.id \in OrderIds /\ call.order \in Order
    BY <1>7, InFlightCall DEF TakesModify, ModifyReturns, KInv, EInv
  <2>3. before \in Exposures /\ Consistent(before)
    BY <1>2, <2>2, RemovedType, RemovedConsistent DEF KInv
  <2>4. before.pending[call.id] = NoOrder
    BY <1>2, <2>2 DEF OnOrderRemoved, Exposures
  <2> HIDE DEF before
  <2>5. Consistent(exposure')
    BY <2>1, <2>2, <2>3, <2>4, SentConsistent
  <2>6. QED BY <2>1, <2>5 DEF NewIsUnknown, Idle
<1>8. ASSUME NEW id \in OrderIds, Loses(id)
      PROVE  Consistent(exposure') /\ NewIsUnknown'
  <2>1. /\ exposure' = OnOrderRemoved(exposure, id)
        /\ open' = [open EXCEPT ![id] = NoOrder] /\ NoNewRequest
    BY <1>8 DEF Loses, Forget
  <2>2. \A i \in OrderIds : open[i] = NoOrder => open'[i] = NoOrder
    BY <2>1 DEF KInv, EInv, IInv, TypeOK
  <2>3. Consistent(exposure')
    BY <1>2, <2>1, RemovedConsistent DEF KInv
  <2>4. QED BY <1>3, <2>1, <2>2, <2>3
<1>9. ASSUME NEW id \in OrderIds, NEW qty \in OrderQty, NEW price \in Price,
             Execute(id, qty, price)
      PROVE  Consistent(exposure') /\ NewIsUnknown'
  <2>1. /\ exposure' = OnOrderFilled(exposure, id, qty)
        /\ open' \in {open, [open EXCEPT ![id] = NoOrder]} /\ call' = call
    BY <1>9 DEF Execute, OnFill
  <2>2. \A i \in OrderIds : open[i] = NoOrder => open'[i] = NoOrder
    BY <2>1 DEF KInv, EInv, IInv, TypeOK
  <2>3. Consistent(exposure')
    BY <1>2, <2>1, FilledConsistent DEF KInv
  <2>4. QED BY <1>3, <2>1, <2>2, <2>3 DEF NoNewRequest
<1>10. QED BY <1>4, <1>5, <1>6, <1>7, <1>8, <1>9, StepKinds DEF KInv

\* Whatever the limits and however many orders a session has, the totals are those
\* of the orders at the exchange up to the wrap of uint32_t: no sequence of fills,
\* modifies, side flips, closes and cancels makes them drift.
THEOREM TotalsNeverDrift ==
    ExchangeSpec => [](\A side \in Side : exposure.outstanding[side] = Wrap(Working(side)))
<1>1. KInv /\ [ExchangeNext]_allVars => KInv'
  BY NextKInv
<1>2. KInv => \A side \in Side : exposure.outstanding[side] = Wrap(Working(side))
  BY WorkingIsTotal DEF KInv, EInv, LiveOK, ViewAgrees, Consistent, OrderMaps
<1>3. QED BY InitKInv, <1>1, <1>2, PTL DEF ExchangeSpec

-----------------------------------------------------------------------------
(* The limits *)

\* How far the position is already in the direction of side
Ahead(side) == IF Signed(side, position) > 0 THEN Signed(side, position) ELSE 0

\* The worst case of a side, before it wraps
Load(side) == Ahead(side) + Total(live, side)

\* n more on a side stays within both limits
HasRoom(side, n) ==
    /\ Total(live, side) + n <= MaxQtyPerSide
    /\ Load(side) + n <= MaxExposure

\* What the request in flight was judged to add to its side
Added ==
    IF call.order.side = open[call.id].side THEN call.order.qty - open[call.id].qty
                                            ELSE call.order.qty

\* The request in flight still fits, unless the order it modifies has gone
RequestFits ==
    InFlight /\ (call.op = "modify" => live[call.id] # NoOrder)
      => HasRoom(call.order.side, Added)

Roomy == ~stretched => RequestFits /\ \A side \in Side : HasRoom(side, 0)

\* Totals and worst cases are natural numbers.
LEMMA LoadNat ==
    ASSUME EInv, NEW side \in Side
    PROVE  /\ Total(live, side) \in Nat /\ Ahead(side) \in Nat /\ Load(side) \in Nat
           /\ Signed(side, position) \in Int
<1>1. Total(live, side) \in Nat
  BY TotalNat DEF EInv, LiveOK, OrderMaps
<1>2. Signed(side, position) \in Int
  BY BoundAssumption DEF Signed, EInv, IInv, TypeOK
<1>3. Ahead(side) \in Nat
  BY <1>2 DEF Ahead
<1>4. QED BY <1>1, <1>2, <1>3 DEF Load

\* A worst case below the word is what the gate computes.
LEMMA ExposureIsLoad ==
    ASSUME KInv, NEW side \in Side, Load(side) < Word
    PROVE  exposure.outstanding[side] = Total(live, side) /\ Exposure(side) = Load(side)
<1>1. Total(live, side) \in Nat /\ Ahead(side) \in Nat /\ Load(side) \in Nat
  BY LoadNat DEF KInv
<1>2. Total(live, side) \in 0 .. Word - 1 /\ Load(side) \in 0 .. Word - 1
  BY <1>1, WordAssumption DEF Load
<1>3. exposure.outstanding[side] = Total(live, side)
  BY <1>2, WrapFits DEF KInv, EInv, ViewAgrees, Consistent
<1>4. Exposure(side) = Wrap(Load(side))
  BY <1>3 DEF Exposure, Load, Ahead
<1>5. QED BY <1>2, <1>3, <1>4, WrapFits

\* What passes the gate's checks has room: the limits keep the compared sums in the word.
LEMMA CheckedHasRoom ==
    ASSUME KInv, NEW side \in Side, HasRoom(side, 0), NEW n \in 0 .. MaxQtyPerOrder,
           AddsWithinLimits(side, n)
    PROVE  HasRoom(side, n)
<1> DEFINE t == Total(live, side)
           l == Load(side)
<1>1. t \in Nat /\ l \in Nat
  BY LoadNat DEF KInv
<1>2. t <= MaxQtyPerSide /\ l <= MaxExposure
  BY <1>1 DEF HasRoom
<1>3. l < Word
  BY <1>1, <1>2, RoomAssumption, LimitsAssumption, WordAssumption
<1>4. exposure.outstanding[side] = t /\ Exposure(side) = l
  BY <1>3, ExposureIsLoad
<1> HIDE DEF t, l
<1>5. t + n \in 0 .. Word - 1 /\ l + n \in 0 .. Word - 1
  BY <1>1, <1>2, RoomAssumption, LimitsAssumption, WordAssumption
<1>6. Wrap(t + n) = t + n /\ Wrap(l + n) = l + n
  BY <1>5, WrapFits
<1>7. t + n <= MaxQtyPerSide /\ ~(l + n > MaxExposure)
  BY <1>4, <1>6 DEF AddsWithinLimits, WouldExceedExposure
<1>8. t + n <= MaxQtyPerSide /\ l + n <= MaxExposure
  BY <1>5, <1>7, LimitsAssumption, WordAssumption
<1>9. QED BY <1>8 DEF HasRoom, t, l

\* A request that goes to the sender has room when it goes.
LEMMA AsksHasRoom ==
    ASSUME KInv, \A s \in Side : HasRoom(s, 0), Still,
           NEW id \in OrderIds, NEW side \in Side, NEW qty \in OrderQty, NEW price \in Price,
           Asks(id, side, qty, price)
    PROVE  HasRoom(side, Added')
<1>1. call'.id = id /\ call'.order.side = side /\ call'.order.qty = qty /\ open' = open
  BY DEF Asks, Still
<1>2. Added' = IF side = open[id].side THEN qty - open[id].qty ELSE qty
  BY <1>1 DEF Added
<1>3. qty \in 0 .. MaxQtyPerOrder
  BY QtyAssumption, LimitsAssumption, WordAssumption DEF Asks, CheckNewOrder, CheckModifyOrder
<1>4. open[id] \in Order \cup {NoOrder} /\ open[id].qty \in Nat
  <2>1. open[id] \in Order \cup {NoOrder}
    BY DEF KInv, EInv, IInv, TypeOK
  <2>2. QED BY <2>1, WordAssumption DEF Order, NoOrder
<1>5. CASE side # open[id].side
  <2>1. AddsWithinLimits(side, qty)
    BY <1>5 DEF Asks, CheckNewOrder, CheckModifyOrder
  <2>2. QED BY <1>2, <1>3, <1>5, <2>1, CheckedHasRoom
<1>6. CASE side = open[id].side
  <2> DEFINE more == qty - open[id].qty
  <2>1. CheckModifyOrder(id, side, qty, price)
    BY <1>6 DEF Asks, CheckNewOrder, NoOrder, Side
  <2>2. CASE qty > open[id].qty
    <3>1. AddsWithinLimits(side, more)
      BY <1>6, <2>1, <2>2 DEF CheckModifyOrder
    <3>2. more \in 0 .. MaxQtyPerOrder
      BY <1>3, <1>4, <2>2, LimitsAssumption
    <3> HIDE DEF more
    <3>3. HasRoom(side, more)
      BY <3>1, <3>2, CheckedHasRoom
    <3>4. QED BY <1>2, <1>6, <3>3 DEF more
  <2>3. CASE ~(qty > open[id].qty)
    <3>1. more \in Int /\ more <= 0
      BY <1>3, <1>4, <2>3, LimitsAssumption
    <3> HIDE DEF more
    <3>2. Total(live, side) \in Nat /\ Load(side) \in Nat
      BY LoadNat DEF KInv
    <3>3. HasRoom(side, more)
      BY <3>1, <3>2, LimitsAssumption, WordAssumption DEF HasRoom
    <3>4. QED BY <1>2, <1>6, <3>3 DEF more
  <2>4. QED BY <2>2, <2>3
<1>7. QED BY <1>5, <1>6

\* The end of an order lowers the worst cases: the position stays.
LEMMA LosesLowers ==
    ASSUME EInv, NEW id \in OrderIds, Loses(id), NEW side \in Side
    PROVE  /\ Total(live', side) <= Total(live, side)
           /\ (Load(side))' <= Load(side)
<1>1. live' = [live EXCEPT ![id] = NoOrder] /\ position' = position
  BY DEF Loses, Drop
<1>2. live \in OrderMaps /\ live[id] \in Order \cup {NoOrder}
  BY DEF EInv, LiveOK, OrderMaps
<1>3. Total(live', side) = Total(live, side) - Amount(live[id], side) + Amount(NoOrder, side)
  BY <1>1, <1>2, TotalChange
<1>4. Amount(NoOrder, side) = 0 /\ Amount(live[id], side) \in Nat
  BY <1>2, AmountNat DEF Amount, NoOrder
<1>5. Total(live, side) \in Nat /\ Ahead(side) \in Nat
  BY LoadNat
<1>6. Total(live', side) <= Total(live, side) /\ Total(live', side) \in Int
  BY <1>3, <1>4, <1>5
<1>7. (Load(side))' = Ahead(side) + Total(live', side)
  BY <1>1 DEF Load, Ahead
<1>8. QED BY <1>5, <1>6, <1>7 DEF Load

\* An execution moves the position by what it takes off its side's total, so the worst
\* case of that side stays or falls, and the other side's falls if it moves.
LEMMA ExecuteLowers ==
    ASSUME EInv, NEW id \in OrderIds, NEW qty \in OrderQty, NEW price \in Price,
           Execute(id, qty, price), NEW side \in Side
    PROVE  /\ Total(live', side) <= Total(live, side)
           /\ (Load(side))' <= Load(side)
<1> DEFINE order == live[id]
           left == order.qty - qty
           after == IF left = 0 THEN NoOrder ELSE [order EXCEPT !.qty = left]
<1>1. /\ live \in OrderMaps /\ order \in Order /\ open[id].side = order.side
  BY DEF Execute, EInv, LiveOK, OrderMaps, ViewAgrees
<1>2. left \in 0 .. Word - 1 /\ order.qty \in Nat /\ qty \in Nat /\ order.side \in Side
  BY <1>1, WordAssumption, QtyAssumption DEF Execute, Order
<1>3. live' = [live EXCEPT ![id] = after]
  BY DEF Execute
<1>4. after \in Order \cup {NoOrder}
  BY <1>1, <1>2 DEF Order
<1>5. Amount(after, side) = IF side = order.side THEN left ELSE 0
  BY <1>1 DEF Amount, NoOrder, Order
<1>6. Amount(order, side) = IF side = order.side THEN order.qty ELSE 0
  BY DEF Amount
<1> HIDE DEF after
<1>7. Total(live', side) = Total(live, side) - Amount(order, side) + Amount(after, side)
  BY <1>1, <1>3, <1>4, TotalChange
<1>8. Total(live, side) \in Nat /\ Ahead(side) \in Nat /\ position \in Int
  BY LoadNat, BoundAssumption DEF EInv, IInv, TypeOK
<1>9. position' = position + Signed(order.side, qty)
  BY <1>1 DEF Execute, OnFill
<1>10. (Load(side))' = (Ahead(side))' + Total(live', side)
  BY DEF Load
<1>11. CASE side = order.side
  <2>1. Total(live', side) = Total(live, side) - qty
    BY <1>1, <1>2, <1>5, <1>6, <1>7, <1>8, <1>11
  <2>2. (Ahead(side))' <= Ahead(side) + qty /\ (Ahead(side))' \in Nat
    BY <1>2, <1>8, <1>9, <1>11 DEF Ahead, Signed
  <2> HIDE DEF order
  <2>3. QED BY <1>2, <1>8, <1>10, <2>1, <2>2 DEF Load
<1>12. CASE side # order.side
  <2>1. Total(live', side) = Total(live, side)
    BY <1>5, <1>6, <1>7, <1>8, <1>12
  <2>2. (Ahead(side))' <= Ahead(side) /\ (Ahead(side))' \in Nat
    BY <1>2, <1>8, <1>9, <1>12 DEF Ahead, Signed, Side
  <2> HIDE DEF order
  <2>3. QED BY <1>8, <1>10, <2>1, <2>2 DEF Load
<1>13. QED BY <1>11, <1>12

\* What keeps both limits of every side, the order maps' agreement and the request in
\* flight keeps the room for it.
LEMMA LoweredKeepsRoom ==
    ASSUME KInv, Roomy, NoNewRequest, stretched' = stretched,
           \A side \in Side : /\ Total(live', side) <= Total(live, side)
                              /\ (Load(side))' <= Load(side)
                              /\ Total(live', side) \in Int /\ (Load(side))' \in Int,
           \A id \in OrderIds : /\ live'[id] # NoOrder => live[id] # NoOrder /\ open'[id] = open[id]
                                /\ open[id] = NoOrder => open'[id] = NoOrder
    PROVE  Roomy'
<1> SUFFICES ASSUME ~stretched PROVE RequestFits' /\ \A side \in Side : HasRoom(side, 0)'
  BY DEF Roomy
<1>1. ASSUME NEW side \in Side, NEW n \in Int, HasRoom(side, n)
      PROVE  Total(live', side) + n <= MaxQtyPerSide /\ (Load(side))' + n <= MaxExposure
  <2>1. Total(live, side) \in Nat /\ Load(side) \in Nat
    BY LoadNat DEF KInv
  <2> DEFINE t == Total(live', side)
             l == (Load(side))'
  <2>2. t \in Int /\ l \in Int /\ t <= Total(live, side) /\ l <= Load(side)
    OBVIOUS
  <2> HIDE DEF t, l
  <2>3. t + n <= MaxQtyPerSide /\ l + n <= MaxExposure
    BY <1>1, <2>1, <2>2, LimitsAssumption, WordAssumption DEF HasRoom
  <2>4. QED BY <2>3 DEF t, l
<1>2. \A side \in Side : HasRoom(side, 0)'
  BY <1>1 DEF Roomy, HasRoom
<1>3. RequestFits'
  <2> SUFFICES ASSUME InFlight', call'.op = "modify" => live'[call'.id] # NoOrder
               PROVE  HasRoom(call.order.side, Added)'
    BY DEF RequestFits
  <2>1. call' = call /\ InFlight
    BY DEF NoNewRequest, InFlight
  <2>2. call.id \in OrderIds /\ call.order \in Order
    BY <2>1, InFlightCall DEF InFlight, KInv, EInv
  <2>3. open'[call.id] = open[call.id]
    <3>1. CASE call.op = "new"
      BY <2>2, <3>1 DEF KInv, NewIsUnknown
    <3>2. CASE call.op = "modify"
      BY <2>1, <2>2, <3>2
    <3>3. QED BY <2>1, <3>1, <3>2 DEF InFlight
  <2>4. Added' = Added
    BY <2>1, <2>3 DEF Added
  <2>5. HasRoom(call.order.side, Added)
    BY <2>1, <2>2 DEF Roomy, RequestFits
  <2>6. Added \in Int /\ call.order.side \in Side
    <3>1. open[call.id].qty \in Int
      BY <2>2, QtyIsInt DEF KInv, EInv, IInv, TypeOK
    <3>2. call.order.qty \in Int /\ call.order.side \in Side
      BY <2>2, WordAssumption DEF Order
    <3>3. QED BY <3>1, <3>2 DEF Added
  <2>7. QED BY <1>1, <2>1, <2>4, <2>5, <2>6 DEF HasRoom
<1>4. QED BY <1>2, <1>3

\* The next state's totals and worst cases are natural numbers too.
LEMMA LoadNatNext ==
    ASSUME EInv', NEW side \in Side
    PROVE  Total(live', side) \in Nat /\ (Ahead(side))' \in Nat /\ (Load(side))' \in Nat
<1>1. Total(live', side) \in Nat
  BY TotalNat DEF EInv, LiveOK, OrderMaps
<1>2. (Ahead(side))' \in Nat
  <2>1. position' \in Int
    BY BoundAssumption DEF EInv, IInv, TypeOK
  <2>2. Signed(side, position') \in Int
    BY <2>1 DEF Signed
  <2>3. (Ahead(side))' = IF Signed(side, position') > 0 THEN Signed(side, position') ELSE 0
    BY DEF Ahead
  <2>4. QED BY <2>2, <2>3
<1>3. QED BY <1>1, <1>2 DEF Load

\* Without a request in flight it is the limits that count.
LEMMA SettledHasRoom ==
    ASSUME EInv', ~InFlight',
           ~stretched' => \A side \in Side : /\ Total(live', side) <= MaxQtyPerSide
                                            /\ (Load(side))' <= MaxExposure
    PROVE  Roomy'
<1>1. ASSUME ~stretched', NEW side \in Side
      PROVE  Total(live', side) + 0 <= MaxQtyPerSide /\ (Load(side))' + 0 <= MaxExposure
  <2>1. Total(live', side) \in Nat /\ (Load(side))' \in Nat
    BY LoadNatNext
  <2>2. Total(live', side) + 0 = Total(live', side) /\ (Load(side))' + 0 = (Load(side))'
    BY <2>1
  <2>3. QED BY <1>1, <2>2
<1>2. ~stretched' => \A side \in Side : HasRoom(side, 0)'
  BY <1>1 DEF HasRoom
<1>3. QED BY <1>2 DEF Roomy, RequestFits

\* An order taken as new raises its side by what the request was judged to add.
LEMMA TakesNewHasRoom ==
    ASSUME KInv, EInv', Roomy, TakesNew
    PROVE  Roomy'
<1>1. call.id \in OrderIds /\ call.order \in Order /\ live[call.id] = NoOrder
  BY TakesNewUnknown
<1>2. /\ live' = [live EXCEPT ![call.id] = call.order] /\ position' = position
      /\ call' = Idle /\ stretched' = stretched /\ call.op = "new"
  BY DEF TakesNew, SendReturns, Registers, account
<1> SUFFICES ASSUME ~stretched, NEW side \in Side
             PROVE  Total(live', side) <= MaxQtyPerSide /\ (Load(side))' <= MaxExposure
  <2>1. ~InFlight'
    BY <1>2 DEF InFlight, Idle
  <2>2. QED BY <1>2, <2>1, SettledHasRoom
<1>3. Total(live', side) = Total(live, side) - Amount(NoOrder, side) + Amount(call.order, side)
  <2>1. live \in OrderMaps
    BY DEF KInv, EInv, LiveOK, OrderMaps
  <2>2. QED BY <1>1, <1>2, <2>1, TotalChange
<1>4. Amount(NoOrder, side) = 0 /\ Amount(call.order, side) \in Nat
  BY <1>1, AmountNat DEF Amount, NoOrder
<1>5. Total(live, side) \in Nat /\ Ahead(side) \in Nat /\ Load(side) = Ahead(side) + Total(live, side)
  BY LoadNat DEF KInv, Load
<1>6. HasRoom(side, Amount(call.order, side))
  <2>1. HasRoom(call.order.side, Added)
    BY <1>2 DEF Roomy, RequestFits, InFlight
  <2>2. Added = call.order.qty
    <3>1. open[call.id] = NoOrder
      BY <1>2 DEF KInv, NewIsUnknown
    <3>2. QED BY <1>1, <3>1 DEF Added, Order, Side, NoOrder
  <2>3. HasRoom(side, 0)
    BY DEF Roomy
  <2>4. QED BY <2>1, <2>2, <2>3 DEF Amount
<1>7. (Load(side))' = Ahead(side) + Total(live', side)
  BY <1>2 DEF Load, Ahead
<1>8. QED BY <1>3, <1>4, <1>5, <1>6, <1>7, LimitsAssumption, WordAssumption DEF HasRoom

\* So does an order taken as modified, unless it is stretched: where it had no fills,
\* the qty it replaces is the one the request was measured against.
LEMMA TakesModifyHasRoom ==
    ASSUME KInv, EInv', Roomy, TakesModify
    PROVE  Roomy'
<1> DEFINE old == live[call.id]
<1>1. call.id \in OrderIds /\ call.order \in Order /\ old \in Order
  BY InFlightCall DEF TakesModify, ModifyReturns, KInv, EInv, LiveOK
<1>2. /\ live' = [live EXCEPT ![call.id] = call.order] /\ position' = position
      /\ call' = Idle /\ call.op = "modify" /\ old # NoOrder
      /\ stretched' = (stretched \/ (call.order.side = old.side /\ old.qty < open[call.id].qty))
  BY DEF TakesModify, ModifyReturns, Registers, account
<1> SUFFICES ASSUME ~stretched', NEW side \in Side
             PROVE  Total(live', side) <= MaxQtyPerSide /\ (Load(side))' <= MaxExposure
  <2>1. ~InFlight'
    BY <1>2 DEF InFlight, Idle
  <2>2. QED BY <2>1, SettledHasRoom
<1>3. ~stretched /\ (call.order.side = old.side => old.qty >= open[call.id].qty)
  <2>1. old.qty \in Int /\ open[call.id].qty \in Int
    BY <1>1, QtyIsInt DEF KInv, EInv, IInv, TypeOK
  <2>2. ~(old.qty < open[call.id].qty) => old.qty >= open[call.id].qty
    BY <2>1
  <2>3. ~stretched /\ ~(call.order.side = old.side /\ old.qty < open[call.id].qty)
    BY <1>2
  <2> HIDE DEF old
  <2>4. QED BY <2>2, <2>3
<1>4. open[call.id].side = old.side /\ open[call.id].qty >= old.qty
  BY <1>1 DEF KInv, EInv, ViewAgrees
<1>5. Total(live', side) = Total(live, side) - Amount(old, side) + Amount(call.order, side)
  <2>1. live \in OrderMaps
    BY DEF KInv, EInv, LiveOK, OrderMaps
  <2>2. QED BY <1>1, <1>2, <2>1, TotalChange
<1>6. Amount(old, side) \in Nat /\ Amount(call.order, side) \in Nat
  BY <1>1, AmountNat
<1>7. Total(live, side) \in Nat /\ Ahead(side) \in Nat /\ Load(side) = Ahead(side) + Total(live, side)
  BY LoadNat DEF KInv, Load
<1>8. (Load(side))' = Ahead(side) + Total(live', side)
  BY <1>2 DEF Load, Ahead
<1>9. HasRoom(call.order.side, Added) /\ HasRoom(side, 0)
  BY <1>2, <1>3 DEF Roomy, RequestFits, InFlight
<1>10. old.qty \in Nat /\ call.order.qty \in Nat /\ open[call.id].qty \in Int
  <2>1. open[call.id].qty \in Int
    BY <1>1, QtyIsInt DEF KInv, EInv, IInv, TypeOK
  <2>2. QED BY <1>1, <2>1, WordAssumption DEF Order
<1> HIDE DEF old
<1>11. CASE side # call.order.side
  <2>1. Total(live', side) <= Total(live, side) /\ Total(live', side) \in Int
    BY <1>5, <1>6, <1>7, <1>11 DEF Amount
  <2> DEFINE t == Total(live', side)
  <2> HIDE DEF t
  <2>2. QED BY <1>7, <1>8, <1>9, <2>1, LimitsAssumption, WordAssumption DEF HasRoom
<1>12. CASE side = call.order.side /\ side # old.side
  <2>1. Added = call.order.qty
    BY <1>4, <1>12 DEF Added
  <2>2. Total(live', side) = Total(live, side) + call.order.qty
    BY <1>5, <1>6, <1>7, <1>10, <1>12 DEF Amount
  <2>3. QED BY <1>7, <1>8, <1>9, <1>10, <1>12, <2>1, <2>2, LimitsAssumption, WordAssumption DEF HasRoom
<1>13. CASE side = call.order.side /\ side = old.side
  <2>1. old.qty = open[call.id].qty
    BY <1>3, <1>4, <1>10, <1>13
  <2>2. Added = call.order.qty - old.qty
    BY <1>4, <1>13, <2>1 DEF Added
  <2>3. Total(live', side) = Total(live, side) + Added
    BY <1>5, <1>6, <1>7, <1>10, <1>13, <2>2 DEF Amount
  <2>4. Added \in Int
    BY <1>10, <2>2
  <2> HIDE DEF Added
  <2>5. QED BY <1>7, <1>8, <1>9, <1>13, <2>3, <2>4, LimitsAssumption, WordAssumption DEF HasRoom
<1>14. QED BY <1>11, <1>12, <1>13

\* Everything the limits need: the totals are right and the requests have room
UInv == KInv /\ Roomy

\* An account without orders or position is within the limits.
LEMMA InitUInv == ExchangeInit => UInv
<1> SUFFICES ASSUME ExchangeInit PROVE UInv
  OBVIOUS
<1>1. KInv
  BY InitKInv
<1>2. \A side \in Side : Total(live, side) = 0 /\ Ahead(side) = 0
  <2>1. \A side \in Side : Total(live, side) = 0
    BY TotalNone DEF ExchangeInit
  <2>2. position = 0
    BY DEF ExchangeInit, Init
  <2>3. QED BY <2>1, <2>2 DEF Ahead, Signed
<1>3. \A side \in Side : HasRoom(side, 0)
  BY <1>2, LimitsAssumption, WordAssumption DEF HasRoom, Load
<1>4. ~InFlight
  BY DEF ExchangeInit, Init, InFlight, Idle
<1>5. QED BY <1>1, <1>3, <1>4 DEF UInv, Roomy, RequestFits

\* A request that is sent, and nothing else changed, leaves the room that it was
\* judged by.
LEMMA AsksRoomy ==
    ASSUME UInv, Still, NEW id \in OrderIds, NEW side \in Side, NEW qty \in OrderQty,
           NEW price \in Price, Asks(id, side, qty, price)
    PROVE  Roomy'
<1> SUFFICES ASSUME ~stretched PROVE RequestFits' /\ \A s \in Side : HasRoom(s, 0)'
  BY DEF Roomy, Still
<1>1. \A s \in Side : HasRoom(s, 0)
  BY DEF UInv, Roomy
<1>2. HasRoom(side, Added')
  BY <1>1, AsksHasRoom DEF UInv
<1>3. call'.order.side = side
  BY DEF Asks
<1>4. HasRoom(call.order.side, Added)'
  BY <1>2, <1>3 DEF HasRoom, Still, Load, Ahead
<1>5. \A s \in Side : HasRoom(s, 0)'
  BY <1>1 DEF HasRoom, Still, Load, Ahead
<1>6. QED BY <1>4, <1>5 DEF RequestFits

\* Every step keeps the room.
LEMMA NextUInv ==
    ASSUME UInv, [ExchangeNext]_allVars
    PROVE  UInv'
<1>1. KInv' /\ EInv' /\ KInv /\ EInv /\ Roomy
  BY NextKInv DEF UInv, KInv
<1> SUFFICES Roomy'
  BY <1>1 DEF UInv
<1>2. \A side \in Side : Total(live', side) \in Int /\ (Load(side))' \in Int
  BY <1>1, LoadNatNext
<1>3. CASE Still /\ NoNewRequest
  <2>1. \A side \in Side : Total(live', side) = Total(live, side) /\ (Load(side))' = Load(side)
    BY <1>3 DEF Still, Load, Ahead
  <2>2. QED BY <1>1, <1>2, <1>3, <2>1, LoweredKeepsRoom DEF Still
<1>4. ASSUME Still, NEW id \in OrderIds, NEW side \in Side, NEW qty \in OrderQty,
             NEW price \in Price, Asks(id, side, qty, price)
      PROVE  Roomy'
  BY <1>4, AsksRoomy
<1>5. CASE TakesNew
  BY <1>1, <1>5, TakesNewHasRoom
<1>6. CASE TakesModify
  BY <1>1, <1>6, TakesModifyHasRoom
<1>7. ASSUME NEW id \in OrderIds, Loses(id)
      PROVE  Roomy'
  <2>1. \A side \in Side : Total(live', side) <= Total(live, side) /\ (Load(side))' <= Load(side)
    BY <1>1, <1>7, LosesLowers
  <2>2. /\ live' = [live EXCEPT ![id] = NoOrder] /\ open' = [open EXCEPT ![id] = NoOrder]
        /\ NoNewRequest /\ stretched' = stretched
    BY <1>7 DEF Loses, Drop, Forget
  <2>3. \A i \in OrderIds : /\ live'[i] # NoOrder => live[i] # NoOrder /\ open'[i] = open[i]
                            /\ open[i] = NoOrder => open'[i] = NoOrder
    BY <1>1, <2>2 DEF EInv, LiveOK, IInv, TypeOK
  <2>4. QED BY <1>1, <1>2, <2>1, <2>2, <2>3, LoweredKeepsRoom
<1>8. ASSUME NEW id \in OrderIds, NEW qty \in OrderQty, NEW price \in Price,
             Execute(id, qty, price)
      PROVE  Roomy'
  <2>1. \A side \in Side : Total(live', side) <= Total(live, side) /\ (Load(side))' <= Load(side)
    BY <1>1, <1>8, ExecuteLowers
  <2> DEFINE left == live[id].qty - qty
  <2>2. /\ live[id] # NoOrder
        /\ live' = [live EXCEPT ![id] = IF left = 0 THEN NoOrder ELSE [@ EXCEPT !.qty = left]]
        /\ open' = IF left = 0 THEN [open EXCEPT ![id] = NoOrder] ELSE open
        /\ NoNewRequest /\ stretched' = stretched
    BY <1>8 DEF Execute, OnFill, NoNewRequest
  <2> HIDE DEF left
  <2>3. \A i \in OrderIds : /\ live'[i] # NoOrder => live[i] # NoOrder /\ open'[i] = open[i]
                            /\ open[i] = NoOrder => open'[i] = NoOrder
    BY <1>1, <2>2 DEF EInv, LiveOK, IInv, TypeOK
  <2>4. QED BY <1>1, <1>2, <2>1, <2>2, <2>3, LoweredKeepsRoom
<1>9. QED BY <1>1, <1>3, <1>4, <1>5, <1>6, <1>7, <1>8, StepKinds

\* Until an order with fills has been modified on its own side, both limits hold at
\* all times, for every number of orders: no interleaving of requests, fills and
\* closes passes them, and the gate's totals are then exact.
THEOREM LimitsHoldUntilStretched ==
    ExchangeSpec => [](/\ LimitsHoldUnlessStretched
                       /\ \/ stretched
                          \/ \A side \in Side : exposure.outstanding[side] = Working(side))
<1>1. UInv /\ [ExchangeNext]_allVars => UInv'
  BY NextUInv
<1>2. ASSUME UInv, ~stretched, NEW side \in Side
      PROVE  WithinLimits(side) /\ exposure.outstanding[side] = Working(side)
  <2>1. KInv /\ EInv /\ HasRoom(side, 0)
    BY <1>2 DEF UInv, Roomy, KInv
  <2>2. Total(live, side) \in Nat /\ Load(side) \in Nat
    BY <2>1, LoadNat
  <2>3. Total(live, side) <= MaxQtyPerSide /\ Load(side) <= MaxExposure
    BY <2>1, <2>2 DEF HasRoom
  <2>4. Load(side) < Word
    BY <2>2, <2>3, LimitsAssumption, WordAssumption
  <2>5. exposure.outstanding[side] = Total(live, side) /\ Exposure(side) = Load(side)
    BY <2>1, <2>4, ExposureIsLoad
  <2>6. Working(side) = Total(live, side)
    BY <2>1, WorkingIsTotal DEF EInv, LiveOK, OrderMaps
  <2>7. QED BY <2>3, <2>5, <2>6 DEF WithinLimits
<1>3. UInv => /\ LimitsHoldUnlessStretched
              /\ stretched \/ \A side \in Side : exposure.outstanding[side] = Working(side)
  BY <1>2 DEF LimitsHoldUnlessStretched
<1>4. QED BY InitUInv, <1>1, <1>3, PTL DEF ExchangeSpec

-----------------------------------------------------------------------------
(* A session whose orders fit in the word *)

\* No order is larger than the limit per order, nor is the one in flight
NoneTooLarge ==
    /\ \A id \in OrderIds : live[id].qty <= MaxQtyPerOrder
    /\ InFlight => call.order.qty <= MaxQtyPerOrder

SInv == KInv /\ NoneTooLarge

\* No order is none too large.
LEMMA InitSInv == ExchangeInit => SInv
<1> SUFFICES ASSUME ExchangeInit PROVE SInv
  OBVIOUS
<1>1. \A id \in OrderIds : live[id].qty = 0
  BY DEF ExchangeInit, NoOrder
<1>2. ~InFlight
  BY DEF ExchangeInit, Init, InFlight, Idle
<1>3. QED BY <1>1, <1>2, InitKInv, LimitsAssumption, WordAssumption DEF SInv, NoneTooLarge

\* Requests are checked for their size, and executions only make orders smaller.
LEMMA NextSInv ==
    ASSUME SInv, [ExchangeNext]_allVars
    PROVE  SInv'
<1>1. KInv' /\ KInv /\ EInv /\ NoneTooLarge
  BY NextKInv DEF SInv, KInv
<1> SUFFICES NoneTooLarge'
  BY <1>1 DEF SInv
<1>2. live \in [OrderIds -> Order \cup {NoOrder}] /\ NoOrder.qty <= MaxQtyPerOrder
  BY <1>1, LimitsAssumption, WordAssumption DEF EInv, LiveOK, NoOrder
<1>3. ASSUME NoNewRequest PROVE InFlight' => call'.order.qty <= MaxQtyPerOrder
  BY <1>1, <1>3 DEF NoNewRequest, NoneTooLarge, InFlight
<1>4. CASE Still /\ NoNewRequest
  BY <1>1, <1>3, <1>4 DEF NoneTooLarge, Still
<1>5. ASSUME Still, NEW id \in OrderIds, NEW side \in Side, NEW qty \in OrderQty,
             NEW price \in Price, Asks(id, side, qty, price)
      PROVE  NoneTooLarge'
  BY <1>1, <1>5 DEF NoneTooLarge, Still, Asks, CheckNewOrder, CheckModifyOrder
<1>6. CASE TakesNew \/ TakesModify
  <2>1. call' = Idle /\ live' = [live EXCEPT ![call.id] = call.order]
    BY <1>6 DEF TakesNew, TakesModify, SendReturns, ModifyReturns, Registers
  <2>2. call.order.qty <= MaxQtyPerOrder
    BY <1>1, <1>6 DEF TakesNew, TakesModify, SendReturns, ModifyReturns, NoneTooLarge, InFlight
  <2>3. \A i \in OrderIds : live'[i].qty <= MaxQtyPerOrder
    BY <1>1, <1>2, <2>1, <2>2 DEF NoneTooLarge
  <2>4. QED BY <2>1, <2>3 DEF NoneTooLarge, InFlight, Idle
<1>7. ASSUME NEW id \in OrderIds, Loses(id)
      PROVE  NoneTooLarge'
  <2>1. live' = [live EXCEPT ![id] = NoOrder] /\ NoNewRequest
    BY <1>7 DEF Loses, Drop
  <2>2. \A i \in OrderIds : live'[i].qty <= MaxQtyPerOrder
    BY <1>1, <1>2, <2>1 DEF NoneTooLarge
  <2>3. QED BY <1>3, <2>1, <2>2 DEF NoneTooLarge
<1>8. ASSUME NEW id \in OrderIds, NEW qty \in OrderQty, NEW price \in Price,
             Execute(id, qty, price)
      PROVE  NoneTooLarge'
  <2> DEFINE left == live[id].qty - qty
  <2>1. /\ live[id] # NoOrder
        /\ live' = [live EXCEPT ![id] = IF left = 0 THEN NoOrder ELSE [live[id] EXCEPT !.qty = left]]
        /\ NoNewRequest
    BY <1>8 DEF Execute, OnFill, NoNewRequest
  <2>2. live[id] \in Order
    BY <1>2, <2>1
  <2>3. left <= MaxQtyPerOrder
    <3>1. live[id].qty \in Int /\ qty \in Nat /\ live[id].qty <= MaxQtyPerOrder
      BY <1>1, <2>2, WordAssumption, QtyAssumption DEF NoneTooLarge, Order
    <3>2. QED BY <3>1, LimitsAssumption, WordAssumption
  <2>4. [live[id] EXCEPT !.qty = left].qty = left
    BY <2>2 DEF Order
  <2> HIDE DEF left
  <2>5. \A i \in OrderIds : live'[i].qty <= MaxQtyPerOrder
    BY <1>1, <1>2, <2>1, <2>3, <2>4 DEF NoneTooLarge
  <2>6. QED BY <1>3, <2>1, <2>5 DEF NoneTooLarge
<1>9. QED BY <1>1, <1>4, <1>5, <1>6, <1>7, <1>8, StepKinds

\* The worst case of such a session does not wrap.
LEMMA LoadFits ==
    ASSUME SInv, NEW side \in Side
    PROVE  Load(side) < Word
<1> DEFINE f == Amounts(live, side)
           all == Cardinality(OrderIds) * MaxQtyPerOrder
<1>1. MaxQtyPerOrder \in Nat
  BY LimitsAssumption, WordAssumption
<1>2. live \in OrderMaps /\ EInv
  BY DEF SInv, KInv, EInv, LiveOK, OrderMaps
<1>3. ASSUME NEW id \in OrderIds PROVE f[id] \in 0 .. MaxQtyPerOrder
  <2>1. Amount(live[id], side) \in Nat
    BY <1>2, AmountNat DEF OrderMaps
  <2>2. Amount(live[id], side) <= MaxQtyPerOrder
    BY <1>1 DEF Amount, SInv, NoneTooLarge
  <2>3. f[id] = Amount(live[id], side)
    BY DEF Amounts
  <2>4. QED BY <1>1, <2>1, <2>2, <2>3
<1>4. Total(live, side) = SumFunctionOnSet(f, OrderIds)
  BY DEF Total
<1> HIDE DEF f
<1>5. Total(live, side) <= all
  BY <1>1, <1>3, <1>4, SumBound, FiniteIdsAssumption
<1>6. all \in Nat
  <2>1. Cardinality(OrderIds) \in Nat
    BY FiniteIdsAssumption, FS_CardinalityType
  <2>2. QED BY <1>1, <2>1
<1>7. Ahead(side) <= PositionBound
  BY <1>2, BoundAssumption DEF EInv, IInv, TypeOK, Ahead, Signed
<1>8. Total(live, side) \in Nat /\ Ahead(side) \in Nat
  BY <1>2, LoadNat
<1>9. all + PositionBound < Word
  BY SessionAssumption
<1> HIDE DEF all
<1>10. QED BY <1>5, <1>6, <1>7, <1>8, <1>9, BoundAssumption, WordAssumption DEF Load

\* In a session whose orders fit in the word, the running totals are the quantities
\* working at the exchange, also after orders have been stretched past the limits.
THEOREM TotalsAreExact == ExchangeSpec => []OutstandingIsWorking
<1>1. SInv /\ [ExchangeNext]_allVars => SInv'
  BY NextSInv
<1>2. SInv => OutstandingIsWorking
  BY LoadFits, ExposureIsLoad, WorkingIsTotal
     DEF OutstandingIsWorking, SInv, KInv, EInv, LiveOK, OrderMaps
<1>3. QED BY InitSInv, <1>1, <1>2, PTL DEF ExchangeSpec

\* An accepted request raises no other side: at most it takes its old order off it.
LEMMA TakesKeepsOtherSide ==
    ASSUME KInv, EInv', TakesNew \/ TakesModify, NEW side \in Side, side # call.order.side
    PROVE  (Load(side))' <= Load(side)
<1>1. /\ live' = [live EXCEPT ![call.id] = call.order] /\ position' = position
      /\ call.op \in {"new", "modify"}
  BY DEF TakesNew, TakesModify, SendReturns, ModifyReturns, Registers, account
<1>2. live \in OrderMaps /\ call.id \in OrderIds /\ call.order \in Order
  BY <1>1, InFlightCall DEF KInv, EInv, LiveOK, OrderMaps
<1>3. Total(live', side) = Total(live, side) - Amount(live[call.id], side) + Amount(call.order, side)
  BY <1>1, <1>2, TotalChange
<1>4. Amount(call.order, side) = 0
  BY DEF Amount
<1>5. Amount(live[call.id], side) \in Nat
  BY <1>2, AmountNat DEF OrderMaps
<1>6. Total(live, side) \in Nat /\ Ahead(side) \in Nat
  BY LoadNat DEF KInv
<1>7. Total(live', side) <= Total(live, side) /\ Total(live', side) \in Int
  BY <1>3, <1>4, <1>5, <1>6
<1>8. (Load(side))' = Ahead(side) + Total(live', side)
  BY <1>1 DEF Load, Ahead
<1>9. QED BY <1>6, <1>7, <1>8 DEF Load

\* Every step that raises the worst case of a side takes a request for it.
LEMMA RaisesOnlyByAccept ==
    ASSUME KInv, EInv', [ExchangeNext]_allVars, NEW side \in Side
    PROVE  (Load(side))' <= Load(side) \/ (InFlight /\ ~InFlight' /\ call.order.side = side)
<1>1. EInv /\ Load(side) \in Nat
  BY LoadNat DEF KInv
<1>2. CASE Still
  <2>1. (Load(side))' = Load(side)
    BY <1>2 DEF Still, Load, Ahead
  <2>2. QED BY <1>1, <2>1
<1>3. CASE TakesNew \/ TakesModify
  <2>1. call' = Idle /\ call.op \in {"new", "modify"}
    BY <1>3 DEF TakesNew, TakesModify, SendReturns, ModifyReturns, Registers
  <2>2. InFlight /\ ~InFlight'
    BY <2>1 DEF InFlight, Idle
  <2>3. QED BY <1>3, <2>2, TakesKeepsOtherSide
<1>4. ASSUME NEW id \in OrderIds, Loses(id) PROVE (Load(side))' <= Load(side)
  BY <1>1, <1>4, LosesLowers
<1>5. ASSUME NEW id \in OrderIds, NEW qty \in OrderQty, NEW price \in Price, Execute(id, qty, price)
      PROVE  (Load(side))' <= Load(side)
  BY <1>1, <1>5, ExecuteLowers
<1>6. QED BY <1>1, <1>2, <1>3, <1>4, <1>5, StepKinds

\* And in such a session only an accepted request raises the worst case of a side, and
\* only of its own side.
THEOREM OnlyAcceptRaises == ExchangeSpec => OnlyAcceptRaisesExposure
<1>1. SInv => \A side \in Side : Exposure(side) = Load(side) /\ Load(side) \in Nat
  BY LoadFits, ExposureIsLoad, LoadNat DEF SInv, KInv
<1>2. (SInv => \A side \in Side : Exposure(side) = Load(side) /\ Load(side) \in Nat)'
  BY <1>1, PTL
<1>3. ASSUME SInv, SInv', [ExchangeNext]_allVars, NEW side \in Side,
             (Exposure(side))' > Exposure(side)
      PROVE  InFlight /\ ~InFlight' /\ call.order.side = side
  <2>1. KInv /\ EInv'
    BY <1>3 DEF SInv, KInv
  <2>2. Exposure(side) = Load(side) /\ Load(side) \in Nat
    BY <1>1, <1>3
  <2>3. (Exposure(side))' = (Load(side))' /\ (Load(side))' \in Nat
    BY <1>2, <1>3
  <2>4. ~((Load(side))' <= Load(side))
    BY <1>3, <2>2, <2>3
  <2>5. QED BY <1>3, <2>1, <2>4, RaisesOnlyByAccept
<1>4. SInv /\ SInv' /\ [ExchangeNext]_allVars
        => [\A side \in Side : (Exposure(side))' > Exposure(side) =>
              InFlight /\ ~InFlight' /\ call.order.side = side]_allVars
  BY <1>3
<1>5. SInv /\ [ExchangeNext]_allVars => SInv'
  BY NextSInv
<1>6. QED BY InitSInv, <1>4, <1>5, PTL DEF ExchangeSpec, OnlyAcceptRaisesExposure

-----------------------------------------------------------------------------
(* The rate over any second *)

\* The clock of RateWindow, with the gate's limit
CONSTANT Window
VARIABLES age, count, sent

Rate == INSTANCE RateWindow

Ticks == 0 .. Window - 1

\* The requests of the ticks from l to h ago
Part(l, h) == SumFunctionOnSet(sent, l .. h)

\* Of a window of this age and count, the requests are those counted; the others of the
\* last second are of one window before. When the window is over no request has gone out
\* in the same tick.
WithinWindow(a, n) ==
    /\ a \in Ticks /\ n \in 0 .. MaxOrdersPerSecond
    /\ Part(0, a) <= n /\ Part(a + 1, Window - 1) <= MaxOrdersPerSecond

RateInv ==
    /\ sent \in [Ticks -> Nat]
    /\ \/ WithinWindow(age, count)
       \/ /\ age = Window /\ count \in 0 .. MaxOrdersPerSecond
          /\ sent[0] = 0 /\ Part(0, Window - 1) <= count

\* Parts of the last second are naturals, and no more than what they are part of.
LEMMA PartNat ==
    ASSUME Window \in Nat \ {0}, sent \in [Ticks -> Nat], NEW l \in Nat, NEW h \in Int, h < Window
    PROVE  /\ Part(l, h) \in Nat
           /\ \A k \in Int : k <= h => Part(l, k) <= Part(l, h)
<1>1. \A x \in l .. h : sent[x] \in Nat
  BY DEF Ticks
<1>2. IsFiniteSet(l .. h)
  BY FS_Interval
<1>3. Part(l, h) \in Nat
  BY <1>1, <1>2, SumNat DEF Part
<1>4. ASSUME NEW k \in Int, k <= h PROVE Part(l, k) <= Part(l, h)
  <2>1. l .. k \in SUBSET (l .. h)
    BY <1>4
  <2>2. QED BY <1>1, <1>2, <2>1, SumSubset DEF Part
<1>5. QED BY <1>3, <1>4

\* A refresh leaves a window that has begun.
LEMMA RefreshWithin ==
    ASSUME RateInv, Window \in Nat \ {0}
    PROVE  WithinWindow(Rate!RefreshRateWindow.age, Rate!RefreshRateWindow.count)
<1>1. CASE WithinWindow(age, count)
  <2>1. ~(age >= Window)
    BY <1>1 DEF WithinWindow, Ticks
  <2>2. Rate!RefreshRateWindow = [age |-> age, count |-> count]
    BY <2>1 DEF Rate!RefreshRateWindow
  <2>3. QED BY <1>1, <2>2
<1>2. CASE ~WithinWindow(age, count)
  <2>1. /\ age = Window /\ count \in 0 .. MaxOrdersPerSecond
        /\ sent[0] = 0 /\ Part(0, Window - 1) <= count
        /\ sent \in [Ticks -> Nat]
    BY <1>2 DEF RateInv
  <2>2. Rate!RefreshRateWindow = [age |-> 0, count |-> 0]
    BY <2>1 DEF Rate!RefreshRateWindow
  <2>3. MaxOrdersPerSecond \in Nat
    BY LimitTypes
  <2>4. Part(0, 0) = sent[0] /\ Part(0, Window - 1) = Part(0, 0) + Part(1, Window - 1)
    <3>1. PICK S, T : S = 0 .. Window - 1 /\ T = 0 .. 0
      OBVIOUS
    <3>2. T \in SUBSET S /\ S \ T = 1 .. Window - 1 /\ T = {0}
      BY <3>1
    <3>3. IsFiniteSet(S) /\ IsFiniteSet(T)
      <4>1. Window - 1 \in Int /\ 0 \in Int
        OBVIOUS
      <4>2. QED BY <3>1, <4>1, FS_Interval
    <3>4. \A x \in S : sent[x] \in Nat
      BY <2>1, <3>1 DEF Ticks
    <3>5. SumFunctionOnSet(sent, S) = SumFunctionOnSet(sent, T) + SumFunctionOnSet(sent, S \ T)
      BY <3>2, <3>3, <3>4, SumSplit
    <3>6. SumFunctionOnSet(sent, T) = sent[0] + SumFunctionOnSet(sent, {})
      <4>1. T \ {0} = {} /\ 0 \in T /\ \A x \in T : sent[x] \in Int
        BY <3>2, <3>4
      <4>2. QED BY <3>3, <4>1, SumRemove
    <3>7. SumFunctionOnSet(sent, {}) = 0 /\ sent[0] \in Nat
      BY <3>2, <3>4, SumEmpty
    <3>8. Part(0, 0) = SumFunctionOnSet(sent, T) /\ Part(0, Window - 1) = SumFunctionOnSet(sent, S)
      BY <3>1 DEF Part
    <3>9. Part(1, Window - 1) = SumFunctionOnSet(sent, S \ T)
      BY <3>2 DEF Part
    <3>10. SumFunctionOnSet(sent, T) = sent[0]
      BY <3>6, <3>7
    <3>11. QED BY <3>5, <3>8, <3>9, <3>10
  <2>5. Part(1, Window - 1) \in Nat
    BY <2>1, PartNat
  <2>6. Part(0, 0) <= 0 /\ Part(0 + 1, Window - 1) <= MaxOrdersPerSecond
    BY <2>1, <2>3, <2>4, <2>5
  <2>7. QED BY <2>2, <2>3, <2>6 DEF WithinWindow, Ticks
<1>3. QED BY <1>1, <1>2

\* A request counts in the window that the refresh left.
LEMMA RequestRate ==
    ASSUME RateInv, Window \in Nat \ {0}, Rate!Request \/ Rate!BlockedRequest
    PROVE  RateInv'
<1>1. PICK a, n : a = Rate!RefreshRateWindow.age /\ n = Rate!RefreshRateWindow.count
  OBVIOUS
<1>2. WithinWindow(a, n) /\ sent \in [Ticks -> Nat] /\ MaxOrdersPerSecond \in Nat
  BY <1>1, RefreshWithin, LimitTypes DEF RateInv
<1>3. CASE age' = a /\ count' = n /\ UNCHANGED sent
  BY <1>2, <1>3 DEF RateInv, WithinWindow, Part
<1>4. CASE /\ n < MaxOrdersPerSecond /\ age' = a /\ count' = n + 1
           /\ sent' = [sent EXCEPT ![0] = @ + 1]
  <2>1. /\ 0 \in Ticks /\ 0 \in 0 .. a /\ 0 \notin a + 1 .. Window - 1
        /\ 0 .. a \subseteq Ticks /\ a + 1 .. Window - 1 \subseteq Ticks
    BY <1>2 DEF WithinWindow, Ticks
  <2>2. PICK f, g : f = sent /\ g = sent'
    OBVIOUS
  <2>3. /\ f \in [Ticks -> Nat] /\ g \in [Ticks -> Nat] /\ g[0] = f[0] + 1
        /\ \A x \in Ticks \ {0} : g[x] = f[x]
    BY <1>2, <1>4, <2>1, <2>2
  <2>4. SumFunctionOnSet(g, 0 .. a) = SumFunctionOnSet(f, 0 .. a) + 1
    <3>1. PICK S : S = 0 .. a
      OBVIOUS
    <3>2. IsFiniteSet(S) /\ 0 \in S
      BY <1>2, <2>1, <3>1, FS_Interval DEF WithinWindow, Ticks
    <3>3. /\ \A x \in S : f[x] \in Int /\ g[x] \in Int
          /\ \A x \in S \ {0} : f[x] = g[x]
      BY <2>1, <2>3, <3>1
    <3>4. SumFunctionOnSet(g, S) = SumFunctionOnSet(f, S) - f[0] + g[0]
      BY <3>2, <3>3, SumChange
    <3>5. SumFunctionOnSet(f, S) \in Int /\ f[0] \in Int
      BY <3>2, <3>3, SumInt
    <3>6. SumFunctionOnSet(g, S) = SumFunctionOnSet(f, S) + 1
      BY <2>3, <3>4, <3>5
    <3>7. QED BY <3>1, <3>6
  <2>5. SumFunctionOnSet(g, a + 1 .. Window - 1) = SumFunctionOnSet(f, a + 1 .. Window - 1)
    <3>1. PICK S : S = a + 1 .. Window - 1
      OBVIOUS
    <3>2. IsFiniteSet(S)
      BY <1>2, <3>1, FS_Interval DEF WithinWindow, Ticks
    <3>3. \A x \in S : f[x] = g[x]
      BY <2>1, <2>3, <3>1
    <3>4. SumFunctionOnSet(f, S) = SumFunctionOnSet(g, S)
      BY <3>2, <3>3, SumAgree
    <3>5. QED BY <3>1, <3>4
  <2>6. Part(0, a)' = Part(0, a) + 1 /\ Part(a + 1, Window - 1)' = Part(a + 1, Window - 1)
    BY <2>2, <2>4, <2>5 DEF Part
  <2>7. Part(0, a) \in Nat
    BY <1>2, PartNat DEF WithinWindow, Ticks
  <2>8. /\ a \in Ticks /\ n + 1 \in 0 .. MaxOrdersPerSecond
        /\ Part(0, a)' <= n + 1 /\ Part(a + 1, Window - 1)' <= MaxOrdersPerSecond
    BY <1>2, <1>4, <2>6, <2>7 DEF WithinWindow
  <2>9. WithinWindow(age, count)'
    BY <1>4, <2>8 DEF WithinWindow, Part
  <2>10. QED BY <2>2, <2>3, <2>9 DEF RateInv
<1>5. QED BY <1>1, <1>3, <1>4 DEF Rate!Request, Rate!BlockedRequest

\* A tick moves the requests back by one.
LEMMA TickParts ==
    ASSUME sent \in [Ticks -> Nat], Window \in Nat \ {0}, Rate!Tick
    PROVE  /\ sent' \in [Ticks -> Nat] /\ sent'[0] = 0
           /\ \A b \in Ticks : /\ Part(0, b)' = Part(0, b - 1)
                               /\ Part(b + 1, Window - 1)' = Part(b, Window - 2)
<1>1. PICK f, g : f = sent /\ g = sent'
  OBVIOUS
<1>2. /\ f \in [Ticks -> Nat] /\ g = [k \in Ticks |-> IF k = 0 THEN 0 ELSE f[k - 1]]
  BY <1>1 DEF Rate!Tick, Ticks
<1>3. /\ 0 \in Ticks /\ g[0] = 0
      /\ \A k \in Ticks : k + 1 \in Ticks => g[k + 1] = f[k]
      /\ \A k \in Ticks : k # 0 => k - 1 \in Ticks
  BY <1>2 DEF Ticks
<1>4. \A k \in Ticks : g[k] \in Nat
  BY <1>2, <1>3
<1>5. g \in [Ticks -> Nat]
  BY <1>2, <1>4
<1>6. ASSUME NEW l \in Nat, NEW n \in Nat, l + n < Window
      PROVE  SumFunctionOnSet(g, l + 1 .. l + n) = SumFunctionOnSet(f, l .. l + n - 1)
  <2>1. \A i \in l .. l + n - 1 : i \in Ticks /\ i + 1 \in Ticks
    BY <1>6 DEF Ticks
  <2>2. \A i \in l .. l + n - 1 : f[i] \in Int /\ g[i + 1] = f[i]
    BY <1>2, <1>3, <2>1
  <2>3. QED BY <2>2, SumShift
<1>7. ASSUME NEW b \in Ticks PROVE SumFunctionOnSet(g, 0 .. b) = SumFunctionOnSet(f, 0 .. b - 1)
  <2>1. SumFunctionOnSet(g, 1 .. b) = SumFunctionOnSet(f, 0 .. b - 1)
    <3>1. b \in Nat /\ 0 + b < Window
      BY DEF Ticks
    <3>2. SumFunctionOnSet(g, 0 + 1 .. 0 + b) = SumFunctionOnSet(f, 0 .. 0 + b - 1)
      BY <1>6, <3>1
    <3>3. 0 + 1 .. 0 + b = 1 .. b /\ 0 .. 0 + b - 1 = 0 .. b - 1
      BY <3>1
    <3>4. QED BY <3>2, <3>3
  <2>2. PICK S : S = 0 .. b
    OBVIOUS
  <2>3. IsFiniteSet(S) /\ 0 \in S /\ S \ {0} = 1 .. b /\ S \subseteq Ticks
    <3>1. b \in Nat /\ b <= Window - 1
      BY DEF Ticks
    <3>2. IsFiniteSet(S)
      BY <2>2, <3>1, FS_Interval
    <3>3. 0 \in S /\ S \ {0} = 1 .. b /\ S \subseteq Ticks
      BY <2>2, <3>1 DEF Ticks
    <3>4. QED BY <3>2, <3>3
  <2>4. SumFunctionOnSet(g, S) = g[0] + SumFunctionOnSet(g, S \ {0})
    BY <1>4, <2>3, SumRemove
  <2>5. SumFunctionOnSet(g, S \ {0}) \in Int
    <3>1. IsFiniteSet(S \ {0}) /\ \A x \in S \ {0} : g[x] \in Int
      BY <1>4, <2>3, FS_Subset
    <3>2. QED BY <3>1, SumInt
  <2>6. SumFunctionOnSet(g, S) = SumFunctionOnSet(g, S \ {0})
    BY <1>3, <2>4, <2>5
  <2>7. QED BY <2>1, <2>2, <2>3, <2>6
<1>8. ASSUME NEW b \in Ticks
      PROVE  SumFunctionOnSet(g, b + 1 .. Window - 1) = SumFunctionOnSet(f, b .. Window - 2)
  <2>1. PICK n : n = Window - 1 - b
    OBVIOUS
  <2>2. /\ b \in Nat /\ n \in Nat /\ b + n < Window
        /\ b + 1 .. b + n = b + 1 .. Window - 1 /\ b .. b + n - 1 = b .. Window - 2
    BY <2>1 DEF Ticks
  <2>3. SumFunctionOnSet(g, b + 1 .. b + n) = SumFunctionOnSet(f, b .. b + n - 1)
    BY <1>6, <2>2
  <2>4. QED BY <2>2, <2>3
<1>9. QED BY <1>1, <1>3, <1>5, <1>7, <1>8 DEF Part

\* So the window's requests stay counted, and what leaves it was of one window.
LEMMA TickRate ==
    ASSUME RateInv, Window \in Nat \ {0}, Rate!Tick
    PROVE  RateInv'
<1>1. /\ sent \in [Ticks -> Nat] /\ count \in 0 .. MaxOrdersPerSecond
      /\ MaxOrdersPerSecond \in Nat /\ UNCHANGED count
      /\ age' = IF age < Window THEN age + 1 ELSE Window
  BY LimitTypes DEF RateInv, WithinWindow, Rate!Tick
<1>2. /\ sent' \in [Ticks -> Nat] /\ sent'[0] = 0
      /\ \A b \in Ticks : /\ Part(0, b)' = Part(0, b - 1)
                          /\ Part(b + 1, Window - 1)' = Part(b, Window - 2)
  BY <1>1, TickParts
<1>3. ASSUME age' = Window, Part(0, Window - 2) <= count PROVE RateInv'
  <2>1. Window - 1 \in Ticks /\ (Window - 1) - 1 = Window - 2
    BY DEF Ticks
  <2>2. Part(0, Window - 1)' = Part(0, (Window - 1) - 1)
    BY <1>2, <2>1
  <2>3. Part(0, Window - 1)' <= count'
    BY <1>1, <1>3, <2>1, <2>2
  <2>4. QED BY <1>1, <1>2, <1>3, <2>3 DEF RateInv
<1>4. CASE WithinWindow(age, count)
  <2>1. /\ age \in Nat /\ age < Window /\ age' = age + 1
        /\ Part(0, age) <= count /\ Part(age + 1, Window - 1) <= MaxOrdersPerSecond
    BY <1>1, <1>4 DEF WithinWindow, Ticks
  <2>2. PICK a : a = age
    OBVIOUS
  <2>3. /\ Part(0, a) \in Nat /\ Part(0, a - 1) \in Nat /\ Part(0, a - 1) <= Part(0, a)
        /\ Part(a + 1, Window - 1) \in Nat /\ Part(a + 1, Window - 2) <= Part(a + 1, Window - 1)
        /\ Part(a + 1, Window - 2) \in Nat
    <3>1. /\ a \in Nat /\ a + 1 \in Nat /\ a \in Int /\ a - 1 \in Int /\ a - 1 <= a /\ a < Window
          /\ Window - 1 \in Int /\ Window - 2 \in Int /\ Window - 2 <= Window - 1
          /\ Window - 1 < Window /\ Window - 2 < Window /\ a - 1 < Window /\ 0 \in Nat
      BY <2>1, <2>2
    <3>2. /\ Part(0, a) \in Nat /\ Part(0, a - 1) \in Nat /\ Part(0, a - 1) <= Part(0, a)
      BY <1>1, <3>1, PartNat
    <3>3. /\ Part(a + 1, Window - 1) \in Nat /\ Part(a + 1, Window - 2) \in Nat
          /\ Part(a + 1, Window - 2) <= Part(a + 1, Window - 1)
      BY <1>1, <3>1, PartNat
    <3>4. QED BY <3>2, <3>3
  <2>4. CASE a + 1 = Window
    <3>1. a - 1 = Window - 2
      BY <2>1, <2>2, <2>4
    <3>2. Part(0, Window - 2) <= count
      BY <1>1, <2>1, <2>2, <2>3, <3>1
    <3>3. QED BY <1>3, <2>1, <2>2, <2>4, <3>2
  <2>5. CASE a + 1 < Window
    <3>1. PICK b : b = a + 1
      OBVIOUS
    <3>2. b \in Ticks /\ b - 1 = a /\ age' = b
      BY <2>1, <2>2, <2>5, <3>1 DEF Ticks
    <3>3. Part(0, b)' = Part(0, a) /\ Part(b + 1, Window - 1)' = Part(a + 1, Window - 2)
      BY <1>2, <3>1, <3>2
    <3>4. Part(0, b)' <= count' /\ Part(b + 1, Window - 1)' <= MaxOrdersPerSecond
      BY <1>1, <2>1, <2>2, <2>3, <3>3
    <3>5. WithinWindow(age, count)'
      BY <1>1, <3>2, <3>4 DEF WithinWindow, Part
    <3>6. QED BY <1>2, <3>5 DEF RateInv
  <2>6. QED BY <2>1, <2>2, <2>4, <2>5
<1>5. CASE ~WithinWindow(age, count)
  <2>1. age = Window /\ Part(0, Window - 1) <= count
    BY <1>5 DEF RateInv
  <2>2. /\ Part(0, Window - 2) \in Nat /\ Part(0, Window - 1) \in Nat
        /\ Part(0, Window - 2) <= Part(0, Window - 1)
    <3>1. /\ Window - 1 \in Int /\ Window - 2 \in Int /\ Window - 2 <= Window - 1 /\ 0 \in Nat
          /\ Window - 1 < Window /\ Window - 2 < Window
      OBVIOUS
    <3>2. QED BY <1>1, <3>1, PartNat
  <2>3. Part(0, Window - 2) <= count
    BY <1>1, <2>1, <2>2
  <2>4. age' = Window
    BY <1>1, <2>1
  <2>5. QED BY <1>3, <2>3, <2>4
<1>6. QED BY <1>4, <1>5

\* Any second holds at most two windows' worth of requests, for every length of the window
\* in ticks and every limit: those of the current window are counted, and those before it
\* are of one window.
THEOREM AtMostTwoWindowsPerSecond ==
    ASSUME Window \in Nat \ {0}
    PROVE  Rate!Spec => []Rate!AtMostTwoWindows
<1>1. Rate!Init => RateInv
  <2> SUFFICES ASSUME Rate!Init PROVE RateInv
    OBVIOUS
  <2>1. age = 0 /\ count = 0 /\ sent = [k \in Ticks |-> 0]
    BY DEF Rate!Init, Ticks
  <2>2. ASSUME NEW l \in Nat, NEW h \in Int, h < Window PROVE Part(l, h) = 0
    <3>1. IsFiniteSet(l .. h)
      BY <2>2, FS_Interval
    <3>2. \A x \in l .. h : sent[x] = 0
      BY <2>1, <2>2 DEF Ticks
    <3>3. QED BY <3>1, <3>2, SumZero DEF Part
  <2>3. Part(0, 0) = 0 /\ Part(0 + 1, Window - 1) = 0
    <3>1. 0 + 1 \in Nat /\ Window - 1 \in Int /\ Window - 1 < Window /\ 0 < Window
      OBVIOUS
    <3>2. QED BY <2>2, <3>1
  <2>4. WithinWindow(age, count)
    BY <2>1, <2>3, LimitTypes DEF WithinWindow, Ticks
  <2>5. QED BY <2>1, <2>4 DEF RateInv
<1>2. RateInv /\ [Rate!Next]_Rate!vars => RateInv'
  <2> SUFFICES ASSUME RateInv, [Rate!Next]_Rate!vars PROVE RateInv'
    OBVIOUS
  <2>1. CASE UNCHANGED Rate!vars
    BY <2>1 DEF Rate!vars, RateInv, WithinWindow, Part
  <2>2. QED BY <2>1, RequestRate, TickRate DEF Rate!Next
<1>3. RateInv => Rate!AtMostTwoWindows
  <2> SUFFICES ASSUME RateInv PROVE Rate!AtMostTwoWindows
    OBVIOUS
  <2>1. sent \in [Ticks -> Nat] /\ MaxOrdersPerSecond \in Nat
    BY LimitTypes DEF RateInv
  <2>2. Rate!LastSecond = Part(0, Window - 1)
    <3>1. DOMAIN sent = 0 .. Window - 1
      BY <2>1 DEF Ticks
    <3>2. Rate!SumFunctionOnSet(sent, 0 .. Window - 1) = SumFunctionOnSet(sent, 0 .. Window - 1)
      BY DEF Rate!SumFunctionOnSet, SumFunctionOnSet, Rate!FoldFunctionOnSet, FoldFunctionOnSet,
         Rate!MapThenFoldSet, MapThenFoldSet
    <3>3. QED BY <3>1, <3>2 DEF Rate!LastSecond, Rate!SumFunction, Part
  <2>3. Part(0, Window - 1) <= MaxOrdersPerSecond + MaxOrdersPerSecond
    <3>1. CASE WithinWindow(age, count)
      <4>1. PICK a : a = age
        OBVIOUS
      <4>2. /\ a \in Nat /\ a <= Window - 1 /\ Part(0, a) <= MaxOrdersPerSecond
            /\ Part(a + 1, Window - 1) <= MaxOrdersPerSecond
        <5>1. /\ a \in Ticks /\ count \in 0 .. MaxOrdersPerSecond
              /\ Part(0, a) <= count /\ Part(a + 1, Window - 1) <= MaxOrdersPerSecond
          BY <3>1, <4>1 DEF WithinWindow
        <5>2. a \in Nat /\ a <= Window - 1
          BY <5>1 DEF Ticks
        <5>3. Part(0, a) \in Nat
          BY <2>1, <5>2, PartNat
        <5>4. QED BY <2>1, <5>1, <5>2, <5>3
      <4>3. PICK S, T : S = 0 .. Window - 1 /\ T = 0 .. a
        OBVIOUS
      <4>4. T \in SUBSET S /\ S \ T = a + 1 .. Window - 1
        BY <4>2, <4>3
      <4>5. IsFiniteSet(S)
        <5>1. Window - 1 \in Int /\ 0 \in Int
          OBVIOUS
        <5>2. QED BY <4>3, <5>1, FS_Interval
      <4>6. \A x \in S : sent[x] \in Int
        BY <2>1, <4>3 DEF Ticks
      <4>7. /\ SumFunctionOnSet(sent, S) = SumFunctionOnSet(sent, T) + SumFunctionOnSet(sent, S \ T)
            /\ SumFunctionOnSet(sent, T) \in Int /\ SumFunctionOnSet(sent, S \ T) \in Int
        BY <4>4, <4>5, <4>6, SumSplit
      <4>8. /\ Part(0, Window - 1) = Part(0, a) + Part(a + 1, Window - 1)
            /\ Part(0, a) \in Int /\ Part(a + 1, Window - 1) \in Int
        BY <4>3, <4>4, <4>7 DEF Part
      <4>9. QED BY <2>1, <4>2, <4>8
    <3>2. CASE ~WithinWindow(age, count)
      <4>1. count \in 0 .. MaxOrdersPerSecond /\ Part(0, Window - 1) <= count
        BY <3>2 DEF RateInv
      <4>2. Part(0, Window - 1) \in Nat
        <5>1. Window - 1 \in Int /\ Window - 1 < Window /\ 0 \in Nat
          OBVIOUS
        <5>2. QED BY <2>1, <5>1, PartNat
      <4>3. QED BY <2>1, <4>1, <4>2
    <3>3. QED BY <3>1, <3>2
  <2>4. 2 * MaxOrdersPerSecond = MaxOrdersPerSecond + MaxOrdersPerSecond
    BY <2>1
  <2>5. QED BY <2>2, <2>3, <2>4 DEF Rate!AtMostTwoWindows
<1>4. QED BY <1>1, <1>2, <1>3, PTL DEF Rate!Spec
=============================================================================
