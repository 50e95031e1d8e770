------------------------- MODULE RiskManagerProofs -------------------------
(***************************************************************************)
(* What RiskManager guarantees for all order ids, limits and prices, and   *)
(* for a sender that answers anything and reports any callback at any      *)
(* time.  The inductive invariant is the type invariant with three facts   *)
(* it does not contain: the unacked counter counts the request in flight,  *)
(* a position past its limit has shut the gate down, and only a gate that  *)
(* has shut down runs the shutdown's cancel loop.                          *)
(***************************************************************************)
EXTENDS RiskManager, TLAPS

\* A blocked send or modify is one unacknowledged order, and nothing else is
CallCounted == unacked = IF InFlight THEN 1 ELSE 0

SweepIsShutdown == sweep # {} => isShutdown

IInv == TypeOK /\ CallCounted /\ OverLimitIsShutdown /\ SweepIsShutdown

-----------------------------------------------------------------------------
(* Operators *)

\* A wrapped integer fits in Word, and one that already fits is unchanged.
LEMMA WrapFits ==
    ASSUME NEW n \in Int
    PROVE  /\ Wrap(n) \in 0 .. Word - 1
           /\ n \in 0 .. Word - 1 => Wrap(n) = n
BY WordAssumption DEF Wrap

\* Every integer is its wrapped value and a multiple of Word.
LEMMA WrapParts ==
    ASSUME NEW n \in Int
    PROVE  \E d \in Int : n = d * Word + Wrap(n)
<1>1. n = (n \div Word) * Word + (n % Word) /\ n \div Word \in Int
  BY WordAssumption
<1>2. QED BY <1>1 DEF Wrap

\* Only one multiple of Word lies strictly between -Word and Word.
LEMMA SmallMultiple ==
    ASSUME NEW d \in Int, NEW x \in Int, x = d * Word, x < Word, -Word < x
    PROVE  x = 0
<1>1. CASE d >= 1
  <2>1. (d - 1) * Word >= 0
    BY <1>1, WordAssumption
  <2>2. QED BY <2>1, WordAssumption
<1>2. CASE d <= -1
  <2>1. (-d - 1) * Word >= 0
    BY <1>2, WordAssumption
  <2>2. QED BY <2>1, WordAssumption
<1>3. CASE d = 0
  BY <1>3, WordAssumption
<1>4. QED BY <1>1, <1>2, <1>3

\* The wrapped value is the only one in a word that differs by a multiple of Word.
LEMMA WrapIs ==
    ASSUME NEW n \in Int, NEW q \in Int, NEW r \in 0 .. Word - 1, n = q * Word + r
    PROVE  Wrap(n) = r
<1> DEFINE x == r - Wrap(n)
<1>1. PICK d \in Int : n = d * Word + Wrap(n)
  BY WrapParts
<1>2. Wrap(n) \in 0 .. Word - 1
  BY WrapFits
<1>3. x = (d - q) * Word
  BY <1>1, <1>2, WordAssumption
<1>4. x \in Int /\ x < Word /\ -Word < x
  BY <1>2, WordAssumption
<1>5. x = 0
  BY <1>3, <1>4, SmallMultiple
<1>6. QED BY <1>2, <1>5, WordAssumption

\* A wrapped addend gives the same wrapped sum: unsigned totals may be updated in steps.
LEMMA WrapAdd ==
    ASSUME NEW a \in Int, NEW b \in Int
    PROVE  Wrap(Wrap(a) + b) = Wrap(a + b)
<1> DEFINE w == Wrap(a)
           r == Wrap(w + b)
<1>1. PICK d \in Int : a = d * Word + w
  BY WrapParts
<1>2. w \in 0 .. Word - 1
  BY WrapFits
<1>3. w + b \in Int
  BY <1>2, WordAssumption
<1> HIDE DEF w
<1>4. PICK e \in Int : w + b = e * Word + r
  BY <1>3, WrapParts
<1>5. r \in 0 .. Word - 1
  BY <1>3, WrapFits
<1> HIDE DEF r
<1>6. a + b = (d + e) * Word + r
  BY <1>1, <1>2, <1>4, <1>5, WordAssumption
<1>7. Wrap(a + b) = r
  BY <1>5, <1>6, WrapIs
<1>8. QED BY <1>7 DEF r, w

\* A number whose magnitude is bounded lies between the bounds.
LEMMA AbsBounds ==
    ASSUME NEW n \in Int, NEW b \in Nat, Abs(n) <= b
    PROVE  n \in -b .. b
BY DEF Abs

\* The trackers' maps, and what a sent order looks like
Exposures == [pending     : [OrderIds -> Order \cup {NoOrder}],
              outstanding : [Side -> 0 .. Word - 1]]

\* Quantities are numbers, also the zero of NoOrder.
LEMMA QtyIsInt ==
    ASSUME NEW order \in Order \cup {NoOrder}
    PROVE  order.qty \in Int
BY WordAssumption DEF Order, NoOrder

\* NoOrder is not the value of any order, so a map that holds it holds no order.
LEMMA NoOrderIsNone == NoOrder \notin Order
BY DEF Order, NoOrder, Side

\* Registering an order leaves the trackers well formed.
LEMMA SentType ==
    ASSUME NEW e \in Exposures, NEW id \in OrderIds, NEW order \in Order
    PROVE  OnOrderSent(e, id, order) \in Exposures
<1>1. Wrap(e.outstanding[order.side] + order.qty) \in 0 .. Word - 1
  <2>1. e.outstanding[order.side] \in Int /\ order.qty \in Int
    BY WordAssumption DEF Exposures, Order
  <2>2. QED BY <2>1, WrapFits
<1>2. QED BY <1>1 DEF OnOrderSent, Exposures, Order

\* Removing an order, known or not, leaves the trackers well formed.
LEMMA RemovedType ==
    ASSUME NEW e \in Exposures, NEW id \in OrderIds
    PROVE  OnOrderRemoved(e, id) \in Exposures
<1>1. CASE e.pending[id] = NoOrder
  BY <1>1 DEF OnOrderRemoved
<1>2. CASE e.pending[id] # NoOrder
  <2>1. e.pending[id] \in Order
    BY <1>2 DEF Exposures
  <2>2. Wrap(e.outstanding[e.pending[id].side] - e.pending[id].qty) \in 0 .. Word - 1
    <3>1. e.outstanding[e.pending[id].side] \in Int /\ e.pending[id].qty \in Int
      BY <2>1, WordAssumption DEF Exposures, Order
    <3>2. QED BY <3>1, WrapFits
  <2>3. QED BY <1>2, <2>1, <2>2 DEF OnOrderRemoved, Exposures, Order
<1>3. QED BY <1>1, <1>2

\* A fill of any quantity leaves the trackers well formed: subtraction wraps.
LEMMA FilledType ==
    ASSUME NEW e \in Exposures, NEW id \in OrderIds, NEW qty \in OrderQty
    PROVE  OnOrderFilled(e, id, qty) \in Exposures
<1> DEFINE order == e.pending[id]
           left  == Wrap(order.qty - qty)
<1>1. CASE order = NoOrder
  BY <1>1 DEF OnOrderFilled
<1>2. CASE order # NoOrder
  <2>1. order \in Order
    BY <1>2 DEF Exposures
  <2>2. qty \in Int /\ order.qty \in Int /\ e.outstanding[order.side] \in Int
    BY <2>1, WordAssumption, QtyAssumption DEF Exposures, Order
  <2>3. left \in 0 .. Word - 1 /\ Wrap(e.outstanding[order.side] - qty) \in 0 .. Word - 1
    BY <2>2, WrapFits
  <2>4. [order EXCEPT !.qty = left] \in Order
    BY <2>1, <2>3 DEF Order
  <2> DEFINE pending     == [e.pending EXCEPT ![id] =
                               IF left = 0 THEN NoOrder ELSE [order EXCEPT !.qty = left]]
             outstanding == [e.outstanding EXCEPT ![order.side] = Wrap(@ - qty)]
  <2>5. pending \in [OrderIds -> Order \cup {NoOrder}]
    BY <2>4 DEF Exposures
  <2>6. outstanding \in [Side -> 0 .. Word - 1]
    BY <2>1, <2>3 DEF Exposures, Order
  <2>7. OnOrderFilled(e, id, qty) = [pending |-> pending, outstanding |-> outstanding]
    BY <1>2 DEF OnOrderFilled
  <2>8. QED BY <2>5, <2>6, <2>7 DEF Exposures
<1>3. QED BY <1>1, <1>2


-----------------------------------------------------------------------------
(* The inductive invariant *)

\* The limits are integers.
LEMMA LimitTypes ==
    /\ MaxPosition \in Nat /\ MaxOrdersPerSecond \in Nat /\ MaxOrdersPerSeqNum \in Nat
    /\ MinPnl \in Int /\ MinPnl <= 0
BY LimitsAssumption, WordAssumption

\* The trackers' part of the type invariant, under one name.
LEMMA TypeOKExposures == TypeOK => exposure \in Exposures
BY DEF TypeOK, Exposures

\* A gate starts empty, idle and within its limits.
LEMMA InitIInv == Init => IInv
<1> SUFFICES ASSUME Init PROVE IInv
  OBVIOUS
<1>1. 0 \in 0 .. Word - 1 /\ 0 \in -PositionBound .. PositionBound /\ 0 \in -CashBound .. CashBound
  BY WordAssumption, BoundAssumption
<1>2. TypeOK
  <2>1. exposure \in [pending     : [OrderIds -> Order \cup {NoOrder}],
                      outstanding : [Side -> 0 .. Word - 1]]
    BY <1>1 DEF Init
  <2>2. open \in [OrderIds -> Order \cup {NoOrder}]
    BY DEF Init
  <2>3. /\ perSecond \in 0 .. MaxOrdersPerSecond /\ perSeq \in 0 .. MaxOrdersPerSeqNum
        /\ unacked \in 0 .. 1
    BY LimitTypes DEF Init
  <2>4. /\ mark \in Price \cup {0} /\ lastSeq \in SeqNum \cup {0} /\ isShutdown \in BOOLEAN
        /\ call \in {Idle} /\ cancelling \in SUBSET OrderIds /\ sweep \in SUBSET OrderIds
    BY DEF Init
  <2>5. position \in -PositionBound .. PositionBound /\ cash \in -CashBound .. CashBound
    BY <1>1 DEF Init
  <2>6. QED BY <2>1, <2>2, <2>3, <2>4, <2>5 DEF TypeOK
<1>3. CallCounted
  BY DEF Init, CallCounted, InFlight, Idle
<1>4. OverLimitIsShutdown
  BY LimitTypes DEF Init, OverLimitIsShutdown, Abs
<1>5. SweepIsShutdown
  BY DEF Init, SweepIsShutdown
<1>6. QED BY <1>2, <1>3, <1>4, <1>5 DEF IInv

\* Whatever a handler did, the check at its end leaves a gate that has shut down if
\* its position is past the limit, with a cancel loop only if it has.
LEMMA CheckedStep ==
    ASSUME TypeOK, SweepIsShutdown, CheckAndShutdown
    PROVE  /\ isShutdown' \in BOOLEAN /\ sweep' \in SUBSET OrderIds
           /\ OverLimitIsShutdown' /\ SweepIsShutdown'
<1>1. CASE ~isShutdown /\ Breached'
  BY <1>1 DEF CheckAndShutdown, OverLimitIsShutdown, SweepIsShutdown, OpenIds
<1>2. CASE ~(~isShutdown /\ Breached')
  BY <1>2 DEF CheckAndShutdown, OverLimitIsShutdown, SweepIsShutdown, TypeOK, Breached
<1>3. QED BY <1>1, <1>2

\* A request is judged in a gate with nothing in flight, so the one it sends is the
\* only one, and each count it passes was below its limit.
LEMMA RequestStep ==
    ASSUME IInv, NEW op \in {"new", "modify"}, NEW id \in OrderIds, NEW order \in Order,
           NEW elapsed \in BOOLEAN, NEW STATE passes, Request(op, id, order, elapsed, passes)
    PROVE  IInv'
<1> DEFINE sent == RefreshRateWindow(elapsed)
<1>1. sent \in 0 .. MaxOrdersPerSecond
  BY LimitTypes DEF RefreshRateWindow, IInv, TypeOK
<1>2. UNCHANGED <<account, exposure, open, lastSeq, isShutdown, cancelling, sweep>>
  BY DEF Request
<1>3. OverLimitIsShutdown' /\ SweepIsShutdown'
  BY <1>2 DEF IInv, OverLimitIsShutdown, SweepIsShutdown, account
<1>4. CASE passes /\ CheckRateLimits(sent)
  <2>1. unacked = 0 /\ unacked' = 1
    BY <1>4 DEF Request, Ready, IInv, CallCounted, InFlight, Idle
  <2>2. call' = [op |-> op, id |-> id, order |-> order]
    BY <1>4 DEF Request
  <2>3. perSecond' \in 0 .. MaxOrdersPerSecond /\ perSeq' \in 0 .. MaxOrdersPerSeqNum
    BY <1>1, <1>4, LimitTypes DEF Request, CheckRateLimits, IInv, TypeOK
  <2>4. TypeOK'
    BY <1>2, <2>1, <2>2, <2>3 DEF IInv, TypeOK, account
  <2>5. CallCounted'
    BY <2>1, <2>2 DEF CallCounted, InFlight
  <2>6. QED BY <1>3, <2>4, <2>5 DEF IInv
<1>5. CASE ~(passes /\ CheckRateLimits(sent))
  <2>1. perSecond' = sent /\ UNCHANGED <<unacked, perSeq, call>>
    BY <1>5 DEF Request
  <2>2. TypeOK'
    BY <1>1, <1>2, <2>1 DEF IInv, TypeOK, account
  <2>3. CallCounted'
    BY <2>1 DEF IInv, CallCounted, InFlight
  <2>4. QED BY <1>3, <2>2, <2>3 DEF IInv
<1>6. QED BY <1>4, <1>5

\* A request in flight holds an order; an answer to it frees the only unacked slot.
LEMMA InFlightCall ==
    ASSUME IInv, call.op \in {"new", "modify"}
    PROVE  call.id \in OrderIds /\ call.order \in Order /\ unacked = 1
BY DEF IInv, TypeOK, CallCounted, InFlight, Idle

\* An answered send or modify registers an order of the right type and is judged.
LEMMA RegistersStep ==
    ASSUME IInv, call.op \in {"new", "modify"}, NEW ok \in BOOLEAN,
           NEW STATE before, before \in Exposures, Registers(ok, before)
    PROVE  IInv'
<1>1. call.id \in OrderIds /\ call.order \in Order /\ unacked = 1
  BY InFlightCall
<1>2. /\ call' = Idle /\ unacked' = 0
      /\ UNCHANGED <<account, perSecond, perSeq, lastSeq, cancelling>>
      /\ CheckAndShutdown
  BY <1>1 DEF Registers
<1>3. exposure' \in Exposures
  BY <1>1, SentType, TypeOKExposures DEF Registers, IInv
<1>4. open' \in [OrderIds -> Order \cup {NoOrder}]
  BY <1>1 DEF Registers, IInv, TypeOK
<1>5. /\ isShutdown' \in BOOLEAN /\ sweep' \in SUBSET OrderIds
      /\ OverLimitIsShutdown' /\ SweepIsShutdown'
  BY <1>2, CheckedStep DEF IInv
<1>6. TypeOK'
  BY <1>2, <1>3, <1>4, <1>5 DEF IInv, TypeOK, Exposures, account
<1>7. CallCounted'
  BY <1>2 DEF CallCounted, InFlight, Idle
<1>8. QED BY <1>5, <1>6, <1>7 DEF IInv


\* Forgetting an order leaves both maps well formed.
LEMMA ForgetType ==
    ASSUME TypeOK, NEW id \in OrderIds, Forget(id)
    PROVE  exposure' \in Exposures /\ open' \in [OrderIds -> Order \cup {NoOrder}]
BY RemovedType, TypeOKExposures DEF Forget, TypeOK

\* An answered delete changes the two order maps at most.
LEMMA DeletesType ==
    ASSUME TypeOK, NEW id \in OrderIds, NEW ok \in BOOLEAN, Deletes(id, ok)
    PROVE  /\ exposure' \in Exposures /\ open' \in [OrderIds -> Order \cup {NoOrder}]
           /\ UNCHANGED <<account, rates, isShutdown>>
BY ForgetType, TypeOKExposures DEF Deletes, TypeOK

\* A step that keeps the account, the rate limits, the request in flight and the
\* shutdown keeps the invariant if the order maps stay well formed.
LEMMA OrderMapStep ==
    ASSUME IInv, exposure' \in Exposures, open' \in [OrderIds -> Order \cup {NoOrder}],
           UNCHANGED <<account, rates, isShutdown>>,
           call' = call \/ (~InFlight /\ call' \in {Idle} \cup [op : {"delete"}, id : OrderIds]),
           cancelling' \in SUBSET OrderIds, sweep' \in SUBSET sweep
    PROVE  IInv'
<1>1. TypeOK'
  BY DEF IInv, TypeOK, Exposures, account, rates
<1>2. CallCounted'
  <2>1. InFlight' <=> InFlight
    BY DEF InFlight, Idle
  <2>2. QED BY <2>1 DEF IInv, CallCounted, rates
<1>3. OverLimitIsShutdown' /\ SweepIsShutdown'
  BY DEF IInv, OverLimitIsShutdown, SweepIsShutdown, account
<1>4. QED BY <1>1, <1>2, <1>3 DEF IInv

\* A fill moves the position and the cash within their bounds, then is judged.
LEMMA FillStep ==
    ASSUME IInv, NEW id \in OrderIds, NEW qty \in OrderQty, NEW price \in Price,
           NEW closed \in BOOLEAN, OnFill(id, qty, price, closed)
    PROVE  IInv'
<1>1. open[id] \in Order
  BY DEF OnFill, IInv, TypeOK
<1>2. position' \in Int /\ cash' \in Int
  <2>1. Signed(open[id].side, qty) \in Int
    BY WordAssumption, QtyAssumption DEF Signed
  <2>2. Signed(open[id].side, qty) * price \in Int
    BY <2>1, PriceAssumption
  <2>3. position \in Int /\ cash \in Int
    BY BoundAssumption DEF IInv, TypeOK
  <2>4. /\ position' = position + Signed(open[id].side, qty)
        /\ cash' = cash - Signed(open[id].side, qty) * price
    BY DEF OnFill
  <2> DEFINE bought == Signed(open[id].side, qty)
             paid   == bought * price
  <2>5. bought \in Int /\ paid \in Int
    BY <2>1, <2>2
  <2>6. position' = position + bought /\ cash' = cash - paid
    BY <2>4
  <2> HIDE DEF bought, paid
  <2>7. QED BY <2>3, <2>5, <2>6
<1>3. position' \in -PositionBound .. PositionBound /\ cash' \in -CashBound .. CashBound
  <2>1. Abs(position') <= PositionBound /\ Abs(cash') <= CashBound
    BY DEF OnFill
  <2>2. QED BY <1>2, <2>1, AbsBounds, BoundAssumption
<1>4. exposure' \in Exposures
  BY FilledType, TypeOKExposures DEF OnFill, IInv
<1>5. open' \in [OrderIds -> Order \cup {NoOrder}]
  BY DEF OnFill, IInv, TypeOK
<1>6. UNCHANGED <<mark, rates, call, cancelling>> /\ CheckAndShutdown
  BY DEF OnFill
<1>7. /\ isShutdown' \in BOOLEAN /\ sweep' \in SUBSET OrderIds
      /\ OverLimitIsShutdown' /\ SweepIsShutdown'
  BY <1>6, CheckedStep DEF IInv
<1>8. TypeOK'
  BY <1>3, <1>4, <1>5, <1>6, <1>7 DEF IInv, TypeOK, Exposures, rates
<1>9. CallCounted'
  BY <1>6 DEF IInv, CallCounted, InFlight, rates
<1>10. QED BY <1>7, <1>8, <1>9 DEF IInv

\* Every step keeps the inductive invariant.
LEMMA NextIInv ==
    ASSUME IInv, [Next]_vars
    PROVE  IInv'
<1>0. exposure \in Exposures /\ open \in [OrderIds -> Order \cup {NoOrder}]
  BY TypeOKExposures DEF IInv, TypeOK
<1>1. CASE UNCHANGED vars
  BY <1>0, <1>1, OrderMapStep DEF IInv, TypeOK, vars, frames
<1>2. ASSUME NEW id \in OrderIds, NEW side \in Side, NEW qty \in OrderQty,
             NEW price \in Price, NEW elapsed \in BOOLEAN,
             SendNewOrder(id, side, qty, price, elapsed)
      PROVE  IInv'
  <2>1. [side |-> side, qty |-> qty] \in Order
    BY QtyAssumption DEF Order
  <2>2. QED BY <1>2, <2>1, RequestStep DEF SendNewOrder
<1>3. ASSUME NEW id \in OrderIds, NEW side \in Side, NEW qty \in OrderQty,
             NEW price \in Price, NEW elapsed \in BOOLEAN,
             ModifyOrder(id, side, qty, price, elapsed)
      PROVE  IInv'
  <2>1. [side |-> side, qty |-> qty] \in Order
    BY QtyAssumption DEF Order
  <2>2. QED BY <1>3, <2>1, RequestStep DEF ModifyOrder
<1>4. ASSUME NEW id \in OrderIds, DeleteOrder(id)
      PROVE  IInv'
  BY <1>0, <1>4, OrderMapStep DEF DeleteOrder, Ready, InFlight, Idle, IInv, TypeOK
<1>5. CASE CancelAllOpenOrders
  BY <1>0, <1>5, OrderMapStep DEF CancelAllOpenOrders, OpenIds
<1>6. ASSUME NEW price \in Price, UpdateMarkPrice(price)
      PROVE  IInv'
  <2>1. TypeOK'
    BY <1>6 DEF UpdateMarkPrice, IInv, TypeOK, rates, frames
  <2>2. CallCounted' /\ OverLimitIsShutdown' /\ SweepIsShutdown'
    BY <1>6 DEF UpdateMarkPrice, IInv, CallCounted, InFlight, OverLimitIsShutdown,
                SweepIsShutdown, rates, frames
  <2>3. QED BY <2>1, <2>2 DEF IInv
<1>7. ASSUME NEW seq \in SeqNum, OnSeqNumUpdate(seq)
      PROVE  IInv'
  <2>1. TypeOK'
    BY <1>7, LimitTypes DEF OnSeqNumUpdate, IInv, TypeOK, account, frames
  <2>2. CallCounted' /\ OverLimitIsShutdown' /\ SweepIsShutdown'
    BY <1>7 DEF OnSeqNumUpdate, IInv, CallCounted, InFlight, OverLimitIsShutdown,
                SweepIsShutdown, account, frames
  <2>3. QED BY <2>1, <2>2 DEF IInv
<1>8. CASE CheckAndShutdownIfNeeded
  <2>1. UNCHANGED <<account, exposure, open, rates, call, cancelling>> /\ CheckAndShutdown
    BY <1>8 DEF CheckAndShutdownIfNeeded
  <2>2. /\ isShutdown' \in BOOLEAN /\ sweep' \in SUBSET OrderIds
        /\ OverLimitIsShutdown' /\ SweepIsShutdown'
    BY <2>1, CheckedStep DEF IInv
  <2>3. TypeOK' /\ CallCounted'
    BY <2>1, <2>2 DEF IInv, TypeOK, CallCounted, InFlight, account, rates
  <2>4. QED BY <2>2, <2>3 DEF IInv
<1>9. ASSUME NEW ok \in BOOLEAN, SendReturns(ok)
      PROVE  IInv'
  BY <1>0, <1>9, RegistersStep DEF SendReturns
<1>10. ASSUME NEW ok \in BOOLEAN, ModifyReturns(ok)
       PROVE  IInv'
  <2>1. call.op = "modify" /\ Registers(ok, OnOrderRemoved(exposure, call.id))
    BY <1>10 DEF ModifyReturns
  <2>2. call.id \in OrderIds
    BY <2>1, InFlightCall
  <2>3. OnOrderRemoved(exposure, call.id) \in Exposures
    BY <1>0, <2>2, RemovedType
  <2>4. QED BY <2>1, <2>3, RegistersStep
<1>11. ASSUME NEW ok \in BOOLEAN, DeleteReturns(ok)
       PROVE  IInv'
  <2>1. call.op = "delete" /\ call.id \in OrderIds /\ ~InFlight
    BY <1>11 DEF DeleteReturns, InFlight, IInv, TypeOK, Idle
  <2>2. Deletes(call.id, ok) /\ call' = Idle /\ UNCHANGED <<cancelling, sweep>>
    BY <1>11 DEF DeleteReturns
  <2>3. QED BY <2>1, <2>2, DeletesType, OrderMapStep DEF IInv, TypeOK
<1>12. ASSUME NEW ok \in BOOLEAN, NEW id \in OrderIds, CancelReturns(id, ok)
       PROVE  IInv'
  BY <1>12, DeletesType, OrderMapStep DEF CancelReturns, IInv, TypeOK
<1>13. ASSUME NEW ok \in BOOLEAN, NEW id \in OrderIds, SweepReturns(id, ok)
       PROVE  IInv'
  BY <1>13, DeletesType, OrderMapStep DEF SweepReturns, IInv, TypeOK
<1>14. ASSUME NEW id \in OrderIds, OnReject(id) \/ OnClose(id)
       PROVE  IInv'
  <2>1. Forget(id) /\ UNCHANGED <<account, rates, isShutdown, frames>>
    BY <1>14 DEF OnReject, OnClose
  <2>2. QED BY <2>1, ForgetType, OrderMapStep DEF IInv, TypeOK, frames
<1>15. CASE Strategy
  BY <1>15, <1>2, <1>3, <1>4, <1>5, <1>6, <1>7, <1>8 DEF Strategy
<1>16. CASE SenderAnswers
  BY <1>16, <1>9, <1>10, <1>11, <1>12, <1>13 DEF SenderAnswers
<1>17. CASE Callback
  BY <1>17, <1>14, FillStep DEF Callback
<1>18. QED BY <1>1, <1>15, <1>16, <1>17 DEF Next


-----------------------------------------------------------------------------
(* Invariants of the gate *)

\* The inductive invariant holds in every state.
THEOREM Invariance == Spec => []IInv
<1>1. Init => IInv
  BY InitIInv
<1>2. IInv /\ [Next]_vars => IInv'
  BY NextIInv
<1>3. QED BY <1>1, <1>2, PTL DEF Spec

\* Every variable of the gate stays in its type; in particular the rate counters
\* never pass their limits and at most one request is unacknowledged.
THEOREM TypeCorrect == Spec => []TypeOK
<1>1. IInv => TypeOK
  BY DEF IInv
<1>2. QED BY <1>1, Invariance, PTL

\* Whatever limits, fills and interrupted calls: a gate past its position limit has
\* shut down.
THEOREM OverLimitShutsDown == Spec => []OverLimitIsShutdown
<1>1. IInv => OverLimitIsShutdown
  BY DEF IInv
<1>2. QED BY <1>1, Invariance, PTL

-----------------------------------------------------------------------------
(* What a step may never do *)

\* A request of a gate that has shut down is refused: the call stays as it is.
LEMMA ShutRefuses ==
    ASSUME isShutdown, Strategy
    PROVE  /\ InFlight' => call' = call
           /\ OpenIds' = OpenIds
           /\ isShutdown'
<1>1. ASSUME NEW id, NEW side, NEW qty, NEW price, NEW elapsed,
             \/ SendNewOrder(id, side, qty, price, elapsed)
             \/ ModifyOrder(id, side, qty, price, elapsed)
      PROVE  UNCHANGED <<call, open, isShutdown>>
  BY <1>1 DEF SendNewOrder, ModifyOrder, Request, CheckNewOrder, CheckModifyOrder
<1>2. ASSUME NEW id, DeleteOrder(id)
      PROVE  ~InFlight' /\ UNCHANGED <<open, isShutdown>>
  BY <1>2 DEF DeleteOrder, InFlight
<1>3. ASSUME \/ CancelAllOpenOrders
             \/ \E price \in Price : UpdateMarkPrice(price)
             \/ \E seq \in SeqNum : OnSeqNumUpdate(seq)
             \/ CheckAndShutdownIfNeeded
      PROVE  UNCHANGED <<call, open, isShutdown>>
  BY <1>3 DEF CancelAllOpenOrders, UpdateMarkPrice, OnSeqNumUpdate, CheckAndShutdownIfNeeded,
              CheckAndShutdown, frames
<1>4. \/ UNCHANGED <<call, open, isShutdown>>
      \/ ~InFlight' /\ UNCHANGED <<open, isShutdown>>
  BY <1>1, <1>2, <1>3 DEF Strategy
<1>5. QED BY <1>4 DEF OpenIds

\* An answer frees the call it answers and opens at most the order of a request.
LEMMA AnswerOpensItsOrder ==
    ASSUME IInv, SenderAnswers
    PROVE  /\ InFlight' => call' = call
           /\ \A id \in OpenIds' \ OpenIds : InFlight /\ call.id = id
           /\ isShutdown => isShutdown'
<1>1. ASSUME NEW ok, NEW before, Registers(ok, before), InFlight
      PROVE  /\ ~InFlight'
             /\ \A id \in OpenIds' \ OpenIds : InFlight /\ call.id = id
             /\ isShutdown => isShutdown'
  BY <1>1 DEF Registers, CheckAndShutdown, InFlight, Idle, OpenIds, IInv, TypeOK
<1>2. ASSUME NEW ok, NEW id, Deletes(id, ok)
      PROVE  OpenIds' \subseteq OpenIds /\ isShutdown' = isShutdown
  BY <1>2 DEF Deletes, Forget, OpenIds, IInv, TypeOK
<1>3. ASSUME NEW ok \in BOOLEAN, SendReturns(ok) \/ ModifyReturns(ok)
      PROVE  \E before : Registers(ok, before) /\ InFlight
  BY <1>3 DEF SendReturns, ModifyReturns, InFlight
<1>4. ASSUME NEW ok \in BOOLEAN,
             DeleteReturns(ok) \/ \E id \in OrderIds : CancelReturns(id, ok) \/ SweepReturns(id, ok)
      PROVE  /\ InFlight' => call' = call
             /\ \E id : Deletes(id, ok)
  BY <1>4 DEF DeleteReturns, CancelReturns, SweepReturns, InFlight, Idle
<1>5. QED BY <1>1, <1>2, <1>3, <1>4 DEF SenderAnswers

\* A callback opens no order and answers no call.
LEMMA CallbackOpensNothing ==
    ASSUME IInv, Callback
    PROVE  /\ call' = call
           /\ OpenIds' \subseteq OpenIds
           /\ isShutdown => isShutdown'
<1>1. ASSUME NEW id, NEW qty, NEW price, NEW closed, OnFill(id, qty, price, closed)
      PROVE  call' = call /\ OpenIds' \subseteq OpenIds /\ (isShutdown => isShutdown')
  BY <1>1 DEF OnFill, CheckAndShutdown, OpenIds, IInv, TypeOK
<1>2. ASSUME NEW id, OnReject(id) \/ OnClose(id)
      PROVE  call' = call /\ OpenIds' \subseteq OpenIds /\ (isShutdown => isShutdown')
  BY <1>2 DEF OnReject, OnClose, Forget, OpenIds, frames, IInv, TypeOK
<1>3. QED BY <1>1, <1>2 DEF Callback

\* A gate that has shut down stays so and admits nothing, for any number of orders
\* and whatever the sender and the callbacks do.
THEOREM ShutdownIsFinal == Spec => ShutdownAdmitsNothing
<1> DEFINE Admits == isShutdown =>
                       /\ isShutdown'
                       /\ InFlight' => call' = call
                       /\ \A id \in OpenIds' \ OpenIds : InFlight /\ call.id = id
<1>1. ASSUME IInv, [Next]_vars
      PROVE  [Admits]_vars
  <2>1. CASE Strategy
    BY <2>1, ShutRefuses
  <2>2. CASE SenderAnswers
    BY <1>1, <2>2, AnswerOpensItsOrder
  <2>3. CASE Callback
    BY <1>1, <2>3, CallbackOpensNothing
  <2>4. QED BY <1>1, <2>1, <2>2, <2>3 DEF Next
<1>2. QED BY <1>1, Invariance, PTL DEF Spec, ShutdownAdmitsNothing

\* After a step that keeps the type the account is a number, so it is on one side of
\* the PNL floor or the other.
LEMMA PnlIsInt == TypeOK' => Pnl' \in Int
<1>1. TypeOK' => position' \in Int /\ cash' \in Int /\ mark' \in Int
  BY BoundAssumption, PriceAssumption DEF TypeOK
<1>2. QED BY <1>1 DEF Pnl

\* The check at the end of a handler shuts a gate down that ends under its floor.
LEMMA FillIsJudged ==
    ASSUME CheckAndShutdown, Pnl' < MinPnl
    PROVE  isShutdown'
BY DEF CheckAndShutdown, Breached

\* The account of a working gate crosses its floor by a new mark only.
THEOREM OnlyMarkBreaches == Spec => OnlyMarkBreachesSilently
<1> DEFINE Silent == Pnl' < MinPnl /\ ~isShutdown' => Pnl < MinPnl \/ mark' # mark
<1>1. ASSUME [Next]_vars
      PROVE  [Silent]_vars
  <2>1. ASSUME UNCHANGED account
        PROVE  Silent
    BY <2>1 DEF Pnl, account
  <2>2. ASSUME NEW id, NEW qty, NEW price, NEW closed, OnFill(id, qty, price, closed)
        PROVE  Silent
    BY <2>2, FillIsJudged DEF OnFill
  <2>3. CASE Strategy
    <3>1. ASSUME NEW price, UpdateMarkPrice(price)
          PROVE  Silent
      BY <3>1 DEF UpdateMarkPrice, Pnl
    <3>2. ASSUME NEW id, NEW side, NEW qty, NEW price, NEW elapsed,
                 \/ SendNewOrder(id, side, qty, price, elapsed)
                 \/ ModifyOrder(id, side, qty, price, elapsed)
          PROVE  UNCHANGED account
      BY <3>2 DEF SendNewOrder, ModifyOrder, Request
    <3>3. QED BY <2>1, <2>3, <3>1, <3>2 DEF Strategy, DeleteOrder, CancelAllOpenOrders,
                 OnSeqNumUpdate, CheckAndShutdownIfNeeded
  <2>4. CASE SenderAnswers
    BY <2>1, <2>4 DEF SenderAnswers, SendReturns, ModifyReturns, Registers, DeleteReturns,
                      CancelReturns, SweepReturns, Deletes
  <2>5. CASE Callback
    BY <2>1, <2>2, <2>5 DEF Callback, OnReject, OnClose
  <2>6. QED BY <1>1, <2>3, <2>4, <2>5 DEF Next
<1>2. QED BY <1>1, PTL DEF Spec, OnlyMarkBreachesSilently

\* No second request can follow one that was answered under the PNL floor.
THEOREM AnsweredIsJudged == Spec => AnsweredRequestIsJudged
<1> DEFINE Judged == InFlight /\ ~InFlight' => Pnl' >= MinPnl \/ isShutdown'
<1>1. ASSUME IInv, IInv', [Next]_vars
      PROVE  [Judged]_vars
  <2>1. ASSUME CheckAndShutdown
        PROVE  Judged
    <3>1. Pnl' \in Int
      BY <1>1, PnlIsInt DEF IInv
    <3>2. QED BY <2>1, <3>1, FillIsJudged, LimitTypes
  <2>2. CASE Strategy
    <3>1. InFlight => call' = call
      <4>1. ASSUME InFlight PROVE ~Ready
        BY <4>1 DEF InFlight, Ready, Idle
      <4>2. QED BY <2>2, <4>1 DEF Strategy, SendNewOrder, ModifyOrder, Request, DeleteOrder,
                   CancelAllOpenOrders, UpdateMarkPrice, OnSeqNumUpdate, CheckAndShutdownIfNeeded
    <3>2. QED BY <3>1 DEF InFlight
  <2>3. CASE SenderAnswers
    BY <2>1, <2>3 DEF SenderAnswers, SendReturns, ModifyReturns, Registers, DeleteReturns,
                      CancelReturns, SweepReturns, InFlight
  <2>4. CASE Callback
    BY <1>1, <2>4, CallbackOpensNothing DEF InFlight
  <2>5. QED BY <1>1, <2>2, <2>3, <2>4 DEF Next, vars, frames, InFlight
<1>2. QED BY <1>1, Invariance, PTL DEF Spec, AnsweredRequestIsJudged

=============================================================================
