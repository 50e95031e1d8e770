------------------------- MODULE RiskOverOEProofs --------------------------
(***************************************************************************)
(* The gate over its real sender is still the gate: whatever the client's  *)
(* stream holds and whichever wait reads it, nested cancel loops included, *)
(* each step is a step of RiskManager or leaves it alone.  So all that is  *)
(* proved of the gate holds over the client, for every number of orders.   *)
(*                                                                         *)
(* The proof needs the gate's inductive invariant (a modify keeps the side *)
(* of an open order) and the client's.  Of the client's, what the stream   *)
(* tells and what is reported survive the nesting: each step is one of the *)
(* client's own, or reads a message as a wait does.  That the answers come *)
(* in the order of the waits does not: a shutdown's deletes may read the   *)
(* answer of the wait they interrupt.                                      *)
(*                                                                         *)
(* The position follows from the history: each fill reported is in it or   *)
(* was missed, on the side of its order.                                   *)
(*                                                                         *)
(* The gate's view of an order agrees with the exchange's once all is      *)
(* read because, before that, the two differ by what is unread: VInv says  *)
(* at each point of the stream what the gate will make of it.              *)
(***************************************************************************)
EXTENDS RiskOverOE, RiskManagerProofs, Sums, SequenceTheorems

\* The client's proofs
CP == INSTANCE OEClientProofs WITH cancelling <- {}, owed <- <<>>

-----------------------------------------------------------------------------
(* The client within the composition *)

\* The client's bounds are those of the gate's orders.
LEMMA Bounds ==
    /\ {MaxOrders, MaxQty} \subseteq Nat \ {0}
    /\ CP!ClientIds = OrderIds /\ Client!ClientIds = OrderIds /\ 1 .. MaxQty = OrderQty
    /\ OrderIds \subseteq Nat /\ OrderQty \subseteq Nat \ {0} /\ MaxQty \in Nat
  BY IdsAssumption DEF CP!ClientIds, Client!ClientIds

\* The client of the model is the client of the proofs: its steps,
LEMMA SameSteps ==
    ASSUME NEW id, NEW qty
    PROVE  /\ Client!SendNewOrder(id, qty) <=> CP!SendNewOrder(id, qty)
           /\ Client!ModifyOrder(id, qty) <=> CP!ModifyOrder(id, qty)
           /\ Client!DeleteOrder(id) <=> CP!DeleteOrder(id)
           /\ Client!ExchangeFills(id, qty) <=> CP!ExchangeFills(id, qty)
           /\ Client!Disconnect <=> CP!Disconnect
           /\ Client!ReadFails <=> CP!ReadFails
<1> USE DEF Client!Free, CP!Free, Client!Sends, CP!Sends, Client!Waits, CP!Waits, Client!Emit, CP!Emit,
        Client!Ack, CP!Ack, Client!Reject, CP!Reject, Client!Close, CP!Close, Client!Fill, CP!Fill,
        Client!None, CP!None, Client!client, CP!client, Client!caller, CP!caller,
        Client!exchange, CP!exchange
<1>1. Client!SendNewOrder(id, qty) <=> CP!SendNewOrder(id, qty)
  BY DEF Client!SendNewOrder, CP!SendNewOrder, Client!ExchangeTakesNew, CP!ExchangeTakesNew,
     Client!AnswersToNew, CP!AnswersToNew
<1>2. Client!ModifyOrder(id, qty) <=> CP!ModifyOrder(id, qty)
  BY DEF Client!ModifyOrder, CP!ModifyOrder, Client!ExchangeTakesModify, CP!ExchangeTakesModify
<1>3. Client!DeleteOrder(id) <=> CP!DeleteOrder(id)
  BY DEF Client!DeleteOrder, CP!DeleteOrder, Client!ExchangeTakesDelete, CP!ExchangeTakesDelete
<1>4. Client!ExchangeFills(id, qty) <=> CP!ExchangeFills(id, qty)
  BY DEF Client!ExchangeFills, CP!ExchangeFills
<1>5. Client!Disconnect <=> CP!Disconnect
  BY DEF Client!Disconnect, CP!Disconnect
<1>6. Client!ReadFails <=> CP!ReadFails
  BY DEF Client!ReadFails, CP!ReadFails, Client!Return, CP!Return
<1>7. QED BY <1>1, <1>2, <1>3, <1>4, <1>5, <1>6

\* and what its waits do with a message.
LEMMA SameReads ==
    /\ CP!None = None
    /\ Client!Responding <=> CP!Responding
    /\ \A m : Client!Absorb(m) <=> CP!Absorb(m)
    /\ \A m, id : Client!EndsWell(m, id) <=> CP!EndsWell(m, id)
    /\ \A m, id : Client!EndsBadly(m, id) <=> CP!EndsBadly(m, id)
  BY DEF None, Client!None, CP!None, Client!Responding, CP!Responding, Client!Absorb, CP!Absorb,
     Client!EndsWell, CP!EndsWell, Client!EndsBadly, CP!EndsBadly

\* and what it says of them.
LEMMA SameClaims ==
    /\ Client!LiveOrdersCatchUp <=> CP!LiveOrdersCatchUp
    /\ \A msgs, id : Client!FillsIn(msgs, id) = CP!FillsIn(msgs, id)
    /\ Client!FillsReportedOnce <=> CP!FillsReportedOnce
    /\ Client!TypeOK <=> CP!TypeOK
<1>1. ASSUME NEW f PROVE Client!SumFunction(f) = CP!SumFunction(f)
  BY DEF Client!SumFunction, CP!SumFunction, Client!FoldFunction, CP!FoldFunction,
     Client!FoldFunctionOnSet, CP!FoldFunctionOnSet, Client!SumFunctionOnSet, CP!SumFunctionOnSet,
     Client!MapThenFoldSet, CP!MapThenFoldSet
<1>2. ASSUME NEW msgs, NEW id PROVE Client!FillsIn(msgs, id) = CP!FillsIn(msgs, id)
  BY <1>1 DEF Client!FillsIn, CP!FillsIn, Client!FillQty, CP!FillQty
<1>3. Client!LiveOrdersCatchUp <=> CP!LiveOrdersCatchUp
  BY DEF Client!LiveOrdersCatchUp, CP!LiveOrdersCatchUp, Client!ClientIds, CP!ClientIds
<1>4. Client!FillsReportedOnce <=> CP!FillsReportedOnce
  BY <1>2 DEF Client!FillsReportedOnce, CP!FillsReportedOnce, Client!UnreadFills, CP!UnreadFills,
     Client!ClientIds, CP!ClientIds
<1>5. Client!TypeOK <=> CP!TypeOK
  BY DEF Client!TypeOK, CP!TypeOK, Client!ClientIds, CP!ClientIds, Client!Ids, CP!Ids, Client!None, CP!None
<1>6. QED BY <1>2, <1>3, <1>4, <1>5

Waits == [op : CP!Requests, id : OrderIds]

Answers == [op : CP!Requests, id : OrderIds, ok : BOOLEAN]

\* The client's invariants but for the order of answers; no wait for a fill, and the
\* interrupted wait is a wait or an answer
KInv ==
    /\ CP!TInv /\ CP!FInv
    /\ waiting \in {None} \cup Waits
    /\ returned \in {None} \cup Answers
    /\ outer.waiting \in {None} \cup Waits
    /\ outer.returned \in {None} \cup Answers
    /\ outer.waiting = None \/ outer.returned = None

\* A wait or an answer is typed for the client; neither is of a fill.
LEMMA WaitTypes ==
    ASSUME NEW w, NEW r
    PROVE  /\ w \in {CP!None} \cup CP!Ids(CP!Requests \cup {"fill"}) /\ w.op # "fill"
                => w \in {None} \cup Waits
           /\ w \in {None} \cup Waits
                => w \in {CP!None} \cup CP!Ids(CP!Requests \cup {"fill"}) /\ w.op # "fill"
           /\ r \in {CP!None} \cup CP!Answer /\ r.op # "fill" => r \in {None} \cup Answers
           /\ r \in {None} \cup Answers => r \in {CP!None} \cup CP!Answer /\ r.op # "fill"
  BY Bounds, SameReads DEF Waits, Answers, CP!Answer, CP!Ids, CP!Requests, CP!None

-----------------------------------------------------------------------------
(* Each step of the client's side *)

\* A step of the client, or none, with no wait for a fill.
LEMMA ClientStep ==
    ASSUME KInv, CP!Next \/ UNCHANGED clientVars, UNCHANGED outer,
           waiting'.op # "fill", returned'.op # "fill"
    PROVE  KInv'
<1>1. [CP!Next]_CP!vars
  BY DEF clientVars, answers, CP!vars, CP!exchange, CP!caller, CP!client
<1>2. CP!TInv' /\ CP!FInv'
  BY <1>1, Bounds, CP!NextTells, CP!NextFInv DEF KInv, CP!TInv
<1>3. waiting' \in {None} \cup Waits /\ returned' \in {None} \cup Answers
  BY <1>2, WaitTypes DEF CP!TInv, CP!Typed, CP!FInv
<1>4. QED BY <1>2, <1>3 DEF KInv

\* A request of the gate.
LEMMA RequestKInv ==
    ASSUME KInv, UNCHANGED outer, NEW id \in OrderIds, NEW qty \in OrderQty,
           \/ UNCHANGED clientVars
           \/ Client!SendNewOrder(id, qty)
           \/ Client!ModifyOrder(id, qty)
           \/ Client!DeleteOrder(id)
    PROVE  KInv'
<1>1. CASE UNCHANGED clientVars
  <2>1. waiting'.op # "fill" /\ returned'.op # "fill"
    BY <1>1, WaitTypes DEF KInv, clientVars, answers
  <2>2. QED BY <1>1, <2>1, ClientStep
<1>2. CASE CP!SendNewOrder(id, qty) \/ CP!ModifyOrder(id, qty) \/ CP!DeleteOrder(id)
  <2>1. CP!Next
    BY <1>2, Bounds DEF CP!Next, CP!Strategy
  <2>2. waiting'.op # "fill" /\ returned'.op # "fill"
    BY <1>2 DEF CP!SendNewOrder, CP!ModifyOrder, CP!DeleteOrder, CP!Waits, CP!None
  <2>3. QED BY <2>1, <2>2, ClientStep
<1>3. QED BY <1>1, <1>2, SameSteps

\* A read, a failed read or a step of the exchange, as the client knows them.
LEMMA ReadFailsKInv ==
    ASSUME KInv, ReadFails
    PROVE  KInv'
<1>1. CP!ReadFails
  BY SameSteps DEF ReadFails
<1>2. CP!Next
  BY <1>1 DEF CP!Next, CP!Read
<1>3. waiting'.op # "fill" /\ returned'.op # "fill"
  BY <1>1, WaitTypes DEF KInv, CP!ReadFails, CP!Return, CP!None
<1>4. QED BY <1>2, <1>3, ClientStep DEF ReadFails

LEMMA EnvironmentKInv ==
    ASSUME KInv, Environment
    PROVE  KInv'
<1>1. CP!Disconnect \/ \E id \in OrderIds, qty \in OrderQty : CP!ExchangeFills(id, qty)
  BY SameSteps DEF Environment
<1>2. CP!Next
  BY <1>1, Bounds DEF CP!Next
<1>3. waiting'.op # "fill" /\ returned'.op # "fill"
  BY <1>1, WaitTypes DEF KInv, CP!Disconnect, CP!ExchangeFills
<1>4. QED BY <1>2, <1>3, ClientStep DEF Environment

\* What a wait leaves after a message: itself or an answer, and never both.
LEMMA AfterTypes ==
    ASSUME KInv, Client!Responding, NEW m
    PROVE  /\ After(m).waiting \in {None} \cup Waits
           /\ After(m).returned \in {None} \cup Answers
           /\ After(m).waiting = None \/ After(m).returned = None
<1> DEFINE well == Client!EndsWell(m, waiting.id)
<1>1. waiting \in Waits /\ returned = None /\ well \in BOOLEAN
  BY SameReads DEF KInv, Client!Responding, None, Client!None, CP!FInv, Client!EndsWell
<1>2. CASE well \/ Client!EndsBadly(m, waiting.id)
  <2>1. After(m) = [waiting |-> None, returned |-> [op |-> waiting.op, id |-> waiting.id, ok |-> well]]
    BY <1>2 DEF After
  <2> HIDE DEF well
  <2>2. QED BY <1>1, <2>1 DEF Waits, Answers
<1>3. CASE ~(well \/ Client!EndsBadly(m, waiting.id))
  BY <1>1, <1>3 DEF After
<1>4. QED BY <1>2, <1>3

\* Reading a message, whether or not its callback interrupts the wait.
LEMMA ReadKInv ==
    ASSUME KInv, ReadResponse
    PROVE  KInv'
<1> DEFINE m == Head(stream)
<1>1. /\ Client!Responding /\ stream # <<>> /\ stream' = Tail(stream) /\ CP!Absorb(m)
      /\ UNCHANGED <<resting, executed, connected, lastId>>
      /\ \/ outer' = After(m) /\ waiting' = None /\ returned' = None
         \/ waiting' = After(m).waiting /\ returned' = After(m).returned /\ UNCHANGED outer
  BY SameReads DEF ReadResponse
<1>2. /\ CP!TInv /\ CP!Typed /\ CP!FInv /\ CP!Counted /\ CP!SentOnly
      /\ CP!Tales(stream, reported, executed, resting) /\ connected
  BY <1>1 DEF KInv, CP!TInv, CP!FInv
<1>3. /\ waiting' \in {None} \cup Waits /\ returned' \in {None} \cup Answers
      /\ waiting' = None \/ returned' = None
      /\ outer'.waiting \in {None} \cup Waits /\ outer'.returned \in {None} \cup Answers
      /\ outer'.waiting = None \/ outer'.returned = None
  BY <1>1, AfterTypes DEF KInv
<1>4. CP!TInv'
  <2>1. stream' \in Seq(CP!Messages) /\ liveOrders' \subseteq CP!ClientIds /\ CP!Tells'
    BY <1>1, <1>2, Bounds, CP!ReadTells DEF CP!TInv
  <2>2. waiting' \in {CP!None} \cup CP!Ids(CP!Requests \cup {"fill"})
    BY <1>3, WaitTypes
  <2>3. QED BY <1>1, <1>2, <2>1, <2>2 DEF CP!TInv, CP!Typed
<1>5. CP!FInv'
  <2>1. CP!Counted' /\ CP!SentOnly' /\ CP!Tales(stream', reported', executed', resting')
    BY <1>1, <1>2, Bounds, CP!ReadTales
  <2>2. returned' \in {CP!None} \cup CP!Answer /\ returned'.op # "fill"
    BY <1>3, WaitTypes
  <2>3. QED BY <1>1, <1>2, <1>3, <2>1, <2>2, SameReads DEF CP!FInv, CP!FillMeansDone
<1>6. QED BY <1>3, <1>4, <1>5 DEF KInv

\* The gate takes an answer, and the interrupted wait may go on.
LEMMA ReturnsKInv ==
    ASSUME KInv, GateReturns
    PROVE  KInv'
<1>1. /\ UNCHANGED <<resting, executed, stream, connected, lastId, liveOrders, reported>>
      /\ \/ waiting' = None /\ returned' = None /\ UNCHANGED outer
         \/ waiting' = outer.waiting /\ returned' = outer.returned /\ outer' = NoFrame
  BY DEF GateReturns
<1>2. /\ waiting' \in {None} \cup Waits /\ returned' \in {None} \cup Answers
      /\ waiting' = None \/ returned' = None
      /\ outer'.waiting \in {None} \cup Waits /\ outer'.returned \in {None} \cup Answers
      /\ outer'.waiting = None \/ outer'.returned = None
  BY <1>1 DEF KInv, NoFrame
<1>3. CP!TInv'
  <2>1. waiting' \in {CP!None} \cup CP!Ids(CP!Requests \cup {"fill"}) /\ waiting'.op # "fill"
    BY <1>2, WaitTypes
  <2>2. QED BY <1>1, <2>1 DEF KInv, CP!TInv, CP!Typed, CP!Tells, CP!Works
<1>4. CP!FInv'
  <2>1. returned' \in {CP!None} \cup CP!Answer /\ returned'.op # "fill"
    BY <1>2, WaitTypes
  <2>2. QED BY <1>1, <1>2, <2>1, SameReads DEF KInv, CP!FInv, CP!FillMeansDone, CP!Counted, CP!SentOnly
<1>5. QED BY <1>2, <1>3, <1>4 DEF KInv

\* Every step keeps the client's invariant.
LEMMA NextKInv ==
    ASSUME KInv, [OverNext]_allVars
    PROVE  KInv'
<1>1. MaxQty \in OrderQty
  BY IdsAssumption
<1>2. ASSUME NEW id \in OrderIds, NEW qty \in OrderQty, NEW price \in Price,
             (\E s \in Side : SendNew(id, s, qty, price)) \/ Modify(id, qty, price)
      PROVE  KInv'
  <2>1. UNCHANGED outer
    BY <1>2 DEF SendNew, Modify
  <2>2. UNCHANGED clientVars \/ Client!SendNewOrder(id, qty) \/ Client!ModifyOrder(id, qty)
    BY <1>2 DEF SendNew, Modify, HandsOver
  <2>3. QED BY <2>1, <2>2, RequestKInv
<1>3. ASSUME NEW id \in OrderIds, Delete(id) \/ LoopDelete(id)
      PROVE  KInv'
  <2>1. UNCHANGED outer /\ Client!DeleteOrder(id)
    BY <1>3 DEF Delete, LoopDelete
  <2>2. QED BY <1>1, <2>1, RequestKInv
<1>4. CASE CancelAll \/ UNCHANGED allVars
  <2>1. UNCHANGED clientVars /\ UNCHANGED outer
    BY <1>4 DEF CancelAll, allVars
  <2>2. 1 \in OrderIds
    BY IdsAssumption
  <2>3. QED BY <1>1, <2>1, <2>2, RequestKInv
<1>5. QED BY <1>2, <1>3, <1>4, ReadKInv, ReadFailsKInv, ReturnsKInv, EnvironmentKInv DEF OverNext

-----------------------------------------------------------------------------
(* Each step of the gate's side *)

\* The message that a wait reads; a fill's quantity is one of an order, because no order
\* executes more.
LEMMA ReadMessage ==
    ASSUME KInv, ReadResponse
    PROVE  LET m == Head(stream)
           IN  /\ m \in CP!Messages /\ m.id \in OrderIds /\ stream \in Seq(CP!Messages)
               /\ m.type = "FILL" => m.qty \in OrderQty /\ m.closed \in BOOLEAN
               /\ connected
               /\ \A id \in OrderIds :
                     /\ reported[id] \in Nat /\ executed[id] \in Nat /\ reported'[id] \in Nat
                     /\ executed[id] <= MaxQty
                     /\ reported'[id] = reported[id] + CP!FillQty(m, id)
                     /\ reported'[id] <= executed[id]
<1> DEFINE m == Head(stream)
<1>1. /\ CP!Absorb(m) /\ stream # <<>> /\ stream' = Tail(stream)
      /\ UNCHANGED <<resting, executed, connected, lastId>>
  BY SameReads DEF ReadResponse
<1>2. /\ CP!TInv /\ CP!Typed /\ CP!FInv /\ CP!Counted /\ CP!SentOnly
      /\ CP!Tales(stream, reported, executed, resting) /\ connected
  BY <1>1 DEF KInv, CP!TInv, CP!FInv
<1>3. m \in CP!Messages /\ m.id \in OrderIds
  BY <1>1, <1>2, Bounds, CP!ReadTells
<1>4. /\ CP!Counted'
      /\ \A id \in OrderIds : reported'[id] = reported[id] + CP!FillQty(m, id)
  BY <1>1, <1>2, Bounds, CP!ReadTales
<1>5. \A id \in OrderIds :
        /\ reported[id] \in Nat /\ executed[id] \in Nat /\ reported'[id] \in Nat
        /\ resting[id] \in Nat /\ executed[id] + resting[id] <= MaxQty
        /\ reported'[id] <= executed[id]
  BY <1>1, <1>2, <1>4, Bounds DEF CP!Counted, CP!Typed
<1> HIDE DEF m
<1>6. \A id \in OrderIds : executed[id] <= MaxQty
  BY <1>5, Bounds
<1>7. ASSUME m.type = "FILL" PROVE m.qty \in OrderQty /\ m.closed \in BOOLEAN
  <2>1. m.qty \in Nat \ {0} /\ m.closed \in BOOLEAN
    BY <1>3, <1>7 DEF CP!Messages
  <2>2. CP!FillQty(m, m.id) = m.qty
    BY <1>7 DEF CP!FillQty
  <2> DEFINE before == reported[m.id]
             after == reported'[m.id]
             all == executed[m.id]
             q == m.qty
  <2>3. before \in Nat /\ after \in Nat /\ all \in Nat /\ after = before + q /\ after <= all /\ all <= MaxQty
    BY <1>3, <1>4, <1>5, <1>6, <2>2
  <2>4. q \in Nat \ {0}
    BY <2>1
  <2> HIDE DEF before, after, all, q
  <2>5. q \in 1 .. MaxQty
    BY <2>3, <2>4, Bounds
  <2>6. QED BY <2>1, <2>5, Bounds DEF q
<1>8. stream \in Seq(CP!Messages)
  BY <1>2 DEF CP!Typed
<1>9. QED BY <1>2, <1>3, <1>4, <1>5, <1>6, <1>7, <1>8 DEF m

\* A message's callback is a callback of the gate, or the gate ignores it.
LEMMA CallbackIsGateStep ==
    ASSUME KInv, ReadResponse
    PROVE  [Next]_vars
<1> DEFINE m == Head(stream)
<1>1. /\ CallbackOf(m) /\ m \in CP!Messages /\ m.id \in OrderIds
      /\ m.type = "FILL" => m.qty \in OrderQty /\ m.closed \in BOOLEAN
  BY ReadMessage DEF ReadResponse
<1> HIDE DEF m
<1>2. CASE m.type = "FILL" /\ open[m.id] # NoOrder
  <2>1. \E price \in Price : OnFill(m.id, m.qty, price, m.closed)
    BY <1>1, <1>2 DEF CallbackOf
  <2>2. Callback
    BY <1>1, <1>2, <2>1 DEF Callback
  <2>3. QED BY <2>2 DEF Next
<1>3. CASE ~(m.type = "FILL" /\ open[m.id] # NoOrder)
  <2>1. OnReject(m.id) \/ OnClose(m.id) \/ UNCHANGED vars
    BY <1>1, <1>3 DEF CallbackOf
  <2>2. QED BY <1>1, <2>1 DEF Callback, Next
<1>4. QED BY <1>2, <1>3

\* What the client returned is an answer of the gate's sender.
LEMMA AnswerIsGateStep ==
    ASSUME IInv, KInv, GateReturns
    PROVE  Next
<1>1. returned.ok \in BOOLEAN
  BY DEF GateReturns, KInv, Answers
<1>2. CASE SendReturns(returned.ok) \/ ModifyReturns(returned.ok) \/ DeleteReturns(returned.ok)
  BY <1>1, <1>2 DEF SenderAnswers, Next
<1>3. CASE CancelReturns(returned.id, returned.ok) \/ SweepReturns(returned.id, returned.ok)
  <2>1. returned.id \in OrderIds
    BY <1>3 DEF CancelReturns, SweepReturns, IInv, TypeOK
  <2>2. QED BY <1>1, <1>3, <2>1 DEF SenderAnswers, Next
<1>4. QED BY <1>2, <1>3 DEF GateReturns

OInv == IInv /\ KInv

\* Every step over the client is a step of the gate or leaves it alone.
LEMMA OverStepIsGateStep ==
    ASSUME OInv, [OverNext]_allVars
    PROVE  [Next]_vars
<1> USE DEF OInv
<1>1. ASSUME NEW id \in OrderIds, NEW qty \in OrderQty, NEW price \in Price, NEW s \in Side,
             SendNew(id, s, qty, price)
      PROVE  Next
  BY <1>1 DEF SendNew, Strategy, Next
<1>2. ASSUME NEW id \in OrderIds, NEW qty \in OrderQty, NEW price \in Price, Modify(id, qty, price)
      PROVE  Next
  <2>1. open[id].side \in Side
    BY <1>2 DEF Modify, IInv, TypeOK, Order
  <2>2. QED BY <1>2, <2>1 DEF Modify, Strategy, Next
<1>3. ASSUME NEW id \in OrderIds, Delete(id)
      PROVE  Next
  BY <1>3 DEF Delete, Strategy, Next
<1>4. CASE CancelAll
  BY <1>4 DEF CancelAll, Strategy, Next
<1>5. CASE ReadResponse
  BY <1>5, CallbackIsGateStep
<1>6. CASE GateReturns
  BY <1>6, AnswerIsGateStep
<1>7. ASSUME NEW id \in OrderIds, LoopDelete(id)
      PROVE  UNCHANGED vars
  BY <1>7 DEF LoopDelete
<1>8. CASE ReadFails \/ Environment \/ UNCHANGED allVars
  BY <1>8 DEF ReadFails, Environment, allVars
<1>9. QED BY <1>1, <1>2, <1>3, <1>4, <1>5, <1>6, <1>7, <1>8 DEF OverNext

-----------------------------------------------------------------------------
(* The refinement *)

\* The gate's invariant holds over the client, and what it is handed is typed.
LEMMA OverInvariance == OverSpec => []OInv
<1>1. OverInit => OInv
  <2> SUFFICES ASSUME OverInit PROVE OInv
    OBVIOUS
  <2>1. CP!Init
    BY Bounds DEF OverInit, Client!Init, CP!Init, CP!None, Client!None
  <2>2. CP!TInv /\ CP!FInv
    BY <2>1, Bounds, CP!InitCInv, CP!InitFInv DEF CP!CInv
  <2>3. waiting = None /\ returned = None /\ outer = NoFrame
    BY DEF OverInit, Client!Init, None
  <2>4. QED BY <2>2, <2>3, InitIInv DEF OverInit, OInv, KInv, NoFrame
<1>2. ASSUME OInv, [OverNext]_allVars
      PROVE  OInv'
  <2>1. IInv'
    BY <1>2, OverStepIsGateStep, NextIInv DEF OInv
  <2>2. KInv'
    BY <1>2, NextKInv DEF OInv
  <2>3. QED BY <2>1, <2>2 DEF OInv
<1>3. QED BY <1>1, <1>2, PTL DEF OverSpec

\* The gate over the client implements the gate, for every number of orders, limit and
\* price: fills read by any wait, nested cancel loops and lost connections included.
THEOREM OverImplementsGate == OverSpec => ImplementsGate
<1>1. OverInit => Init
  BY DEF OverInit
<1>2. OInv /\ [OverNext]_allVars => [Next]_vars
  BY OverStepIsGateStep
<1>3. QED BY <1>1, <1>2, OverInvariance, PTL DEF OverSpec, ImplementsGate, Spec

\* So over the client too a gate whose position is past the limit has shut down, and a
\* gate that has shut down admits nothing.
THEOREM OverLimitShutsDownOverClient == OverSpec => []OverLimitIsShutdown /\ ShutdownAdmitsNothing
BY OverImplementsGate, OverLimitShutsDown, ShutdownIsFinal, PTL DEF ImplementsGate
-----------------------------------------------------------------------------
(* The client within the gate *)

\* The client's own view survives the nesting, for every number of orders: whichever wait
\* reads a fill hands it over once, and live_orders_ holds the orders at the exchange.
THEOREM ClientViewSurvivesNesting == OverSpec => []ClientStaysAccurate
<1>1. OInv => ClientStaysAccurate
  BY Bounds, SameClaims, CP!AllTold, CP!AllReported DEF OInv, KInv, CP!TInv, ClientStaysAccurate
<1>2. QED BY <1>1, OverInvariance, PTL

-----------------------------------------------------------------------------
(* The position and the fills it was told of *)

\* A fill is missed when it is read, and orders that are misread or spared exist
HTypes ==
    /\ side \in [OrderIds -> Side \cup {"NONE"}]
    /\ missed \in [OrderIds -> Nat]
    /\ \A id \in OrderIds : missed[id] <= reported[id]
    /\ doubtful \subseteq OrderIds /\ spared \subseteq OrderIds

\* The gate counts an order's fills on the side the order was sent with
SidesAgree ==
    /\ \A id \in OrderIds : open[id] # NoOrder => open[id].side = side[id]
    /\ InFlight => call.order.side = side[call.id]

\* What the gate was told of an order while it was open
Told(id) == Signed(side[id], reported[id] - missed[id])

PositionIsTold == position = SumFunctionOnSet([id \in OrderIds |-> Told(id)], OrderIds)

HInv == HTypes /\ SidesAgree /\ PositionIsTold

\* What was told of an order is an integer, and 0 before it is sent.
LEMMA ToldTypes ==
    ASSUME KInv, HTypes, NEW id \in OrderIds
    PROVE  /\ reported[id] \in Nat /\ missed[id] \in Nat /\ missed[id] <= reported[id]
           /\ Told(id) \in Int
           /\ id > lastId => Told(id) = 0 /\ reported[id] = 0 /\ missed[id] = 0
<1>1. /\ reported[id] \in Nat /\ executed[id] \in Nat /\ reported[id] <= executed[id]
      /\ id > lastId => executed[id] = 0
  BY Bounds DEF KInv, CP!FInv, CP!Counted
<1>2. missed[id] \in Nat /\ missed[id] <= reported[id]
  BY DEF HTypes
<1>3. id > lastId => reported[id] = 0 /\ missed[id] = 0
  BY <1>1, <1>2
<1>4. Told(id) \in Int /\ (reported[id] = 0 /\ missed[id] = 0 => Told(id) = 0)
  BY <1>1, <1>2 DEF Told, Signed
<1>5. QED BY <1>1, <1>2, <1>3, <1>4

\* A step that moves the position by n, and what was told of one order by n.
LEMMA ToldMoves ==
    ASSUME KInv, HInv, NEW id \in OrderIds, NEW n \in Int, position' = position + n,
           Told(id)' = Told(id) + n,
           \A x \in OrderIds \ {id} : Told(x)' = Told(x)
    PROVE  PositionIsTold'
<1>1. PICK f : f = [x \in OrderIds |-> Told(x)]
  OBVIOUS
<1>2. PICK g : g = [x \in OrderIds |-> Told(x)']
  OBVIOUS
<1>3. \A x \in OrderIds : f[x] \in Int
  BY <1>1, ToldTypes DEF HInv
<1>4. g[id] = f[id] + n /\ \A x \in OrderIds \ {id} : f[x] = g[x]
  BY <1>1, <1>2
<1>5. \A x \in OrderIds : f[x] \in Int /\ g[x] \in Int
  BY <1>3, <1>4
<1>6. SumFunctionOnSet(g, OrderIds) = SumFunctionOnSet(f, OrderIds) - f[id] + g[id]
  BY <1>4, <1>5, FiniteIdsAssumption, SumChange
<1>7. SumFunctionOnSet(f, OrderIds) \in Int /\ f[id] \in Int
  BY <1>3, FiniteIdsAssumption, SumInt
<1>8. position = SumFunctionOnSet(f, OrderIds)
  BY <1>1 DEF HInv, PositionIsTold
<1> DEFINE before == SumFunctionOnSet(f, OrderIds)
           after == SumFunctionOnSet(g, OrderIds)
<1> HIDE DEF before, after
<1>9. after = before + n
  BY <1>4, <1>6, <1>7 DEF before, after
<1>10. position' = after
  BY <1>8, <1>9 DEF before
<1>11. QED BY <1>2, <1>10 DEF after, PositionIsTold

\* A step that moves neither.
LEMMA ToldStays ==
    ASSUME HInv, UNCHANGED position, \A x \in OrderIds : Told(x)' = Told(x)
    PROVE  PositionIsTold'
BY DEF HInv, PositionIsTold

\* A step that moves neither counts nor sides, and spares only orders that exist.
LEMMA QuietStep ==
    ASSUME OInv, HInv, UNCHANGED <<position, reported, side, missed, doubtful>>,
           spared' \subseteq OrderIds, SidesAgree'
    PROVE  HInv'
<1>1. HTypes'
  BY DEF HInv, HTypes
<1>2. PositionIsTold'
  <2>1. \A x \in OrderIds : Told(x)' = Told(x)
    BY DEF Told
  <2>2. QED BY <2>1, ToldStays
<1>3. QED BY <1>1, <1>2 DEF HInv

\* The order spared by a shutdown is one in flight.
LEMMA SparedExists ==
    ASSUME IInv, spared \subseteq OrderIds, SparesInFlight
    PROVE  spared' \subseteq OrderIds
BY InFlightCall DEF SparesInFlight, InFlight

\* A new order gets its side when it is handed over; nothing was told of it before.
LEMMA SendNewHInv ==
    ASSUME OInv, HInv, NEW id \in OrderIds, NEW qty \in OrderQty, NEW price \in Price,
           NEW s \in Side, SendNew(id, s, qty, price)
    PROVE  HInv'
<1>1. /\ id = lastId + 1 /\ Ready
      /\ UNCHANGED <<position, open, missed, doubtful, spared>>
      /\ call' = Idle \/ call' = [op |-> "new", id |-> id, order |-> [side |-> s, qty |-> qty]]
      /\ side' = IF call' = Idle THEN side ELSE [side EXCEPT ![id] = s]
      /\ call' # Idle => open[id] = NoOrder
  BY DEF SendNew, SendNewOrder, Request, account, Ready, CheckNewOrder, Idle
<1>2. UNCHANGED reported
  BY SameSteps DEF SendNew, HandsOver, clientVars, CP!SendNewOrder, CP!client
<1>3. CASE call' = Idle
  <2>1. SidesAgree'
    BY <1>1, <1>3 DEF HInv, SidesAgree, InFlight, Idle
  <2>2. QED BY <1>1, <1>2, <1>3, <2>1, QuietStep DEF HInv, HTypes
<1>4. CASE call' # Idle
  <2>1. side' = [side EXCEPT ![id] = s] /\ side \in [OrderIds -> Side \cup {"NONE"}]
    BY <1>1, <1>4 DEF HInv, HTypes
  <2>2. HTypes'
    BY <1>1, <1>2, <2>1 DEF HInv, HTypes
  <2>3. SidesAgree'
    BY <1>1, <1>4, <2>1 DEF HInv, SidesAgree
  <2>4. Told(id) = 0 /\ reported[id] = 0 /\ missed[id] = 0
    <3>1. id \in Nat /\ lastId \in Nat
      BY Bounds DEF OInv, KInv, CP!FInv, CP!Counted
    <3>2. id > lastId
      BY <1>1, <3>1
    <3>3. QED BY <3>2, ToldTypes DEF OInv, HInv
  <2>5. Told(id)' = 0
    <3>1. reported'[id] - missed'[id] = 0
      BY <1>1, <1>2, <2>4
    <3>2. QED BY <3>1 DEF Told, Signed
  <2>6. \A x \in OrderIds : Told(x)' = Told(x)
    BY <1>1, <1>2, <2>1, <2>4, <2>5 DEF Told
  <2>7. PositionIsTold'
    BY <1>1, <2>6, ToldStays
  <2>8. QED BY <2>2, <2>3, <2>7 DEF HInv
<1>5. QED BY <1>3, <1>4

\* A modify keeps the side of the order.
LEMMA ModifyHInv ==
    ASSUME OInv, HInv, NEW id \in OrderIds, NEW qty \in OrderQty, NEW price \in Price,
           Modify(id, qty, price)
    PROVE  HInv'
<1>1. /\ open[id] # NoOrder
      /\ UNCHANGED <<position, open, side, missed, doubtful, spared>>
      /\ \/ call' = call
         \/ call' = [op |-> "modify", id |-> id, order |-> [side |-> open[id].side, qty |-> qty]]
  BY DEF Modify, ModifyOrder, Request, account, Ready, histories
<1>2. UNCHANGED reported
  BY SameSteps DEF Modify, HandsOver, clientVars, CP!ModifyOrder, CP!client
<1>3. SidesAgree'
  BY <1>1 DEF HInv, SidesAgree, InFlight
<1>4. QED BY <1>1, <1>2, <1>3, QuietStep DEF HInv, HTypes

\* Steps of the client, and the gate's deletes.
LEMMA OtherHInv ==
    ASSUME OInv, HInv,
           \/ \E id \in OrderIds : Delete(id) \/ LoopDelete(id)
           \/ CancelAll \/ ReadFails \/ Environment \/ UNCHANGED allVars
    PROVE  HInv'
<1>1. UNCHANGED <<position, open, side, missed, doubtful, spared>>
  BY DEF Delete, DeleteOrder, LoopDelete, CancelAll, CancelAllOpenOrders, ReadFails, Environment,
     allVars, vars, account, histories
<1>2. UNCHANGED reported
  <2>1. ASSUME NEW id \in OrderIds, Delete(id) \/ LoopDelete(id) PROVE UNCHANGED reported
    BY <2>1, SameSteps DEF Delete, LoopDelete, CP!DeleteOrder, CP!client
  <2>2. CASE CancelAll \/ UNCHANGED allVars
    BY <2>2 DEF CancelAll, allVars, clientVars
  <2>3. CASE ReadFails
    BY <2>3, SameSteps DEF ReadFails, CP!ReadFails, CP!client
  <2>4. CASE Environment
    BY <2>4, SameSteps DEF Environment, CP!Disconnect, CP!ExchangeFills, CP!client
  <2>5. QED BY <2>1, <2>2, <2>3, <2>4
<1>3. call' = call \/ call'.op = "delete"
  BY DEF Delete, DeleteOrder, LoopDelete, CancelAll, CancelAllOpenOrders, ReadFails, Environment,
     allVars, vars, frames
<1>4. SidesAgree'
  BY <1>1, <1>3 DEF HInv, SidesAgree, InFlight
<1>5. QED BY <1>1, <1>2, <1>4, QuietStep DEF HInv, HTypes

\* An answer opens the order in flight on its side, or forgets one.
LEMMA ReturnsHInv ==
    ASSUME OInv, HInv, GateReturns
    PROVE  HInv'
<1>1. UNCHANGED <<side, missed, doubtful, reported>> /\ SparesInFlight
  BY DEF GateReturns
<1>2. spared' \subseteq OrderIds
  BY <1>1, SparedExists DEF OInv, HInv, HTypes
<1>3. open \in [OrderIds -> Order \cup {NoOrder}]
  BY DEF OInv, IInv, TypeOK
<1>4. CASE SendReturns(returned.ok) \/ ModifyReturns(returned.ok)
  <2>1. /\ InFlight /\ call' = Idle /\ UNCHANGED position
        /\ open' = open \/ open' = [open EXCEPT ![call.id] = call.order]
    BY <1>4 DEF SendReturns, ModifyReturns, Registers, account, InFlight
  <2>2. SidesAgree'
    BY <1>1, <1>3, <2>1 DEF HInv, SidesAgree, InFlight, Idle
  <2>3. QED BY <1>1, <1>2, <2>1, <2>2, QuietStep
<1>5. CASE ~(SendReturns(returned.ok) \/ ModifyReturns(returned.ok))
  <2>1. PICK id : Deletes(id, returned.ok) /\ (call' = call \/ call' = Idle)
    BY <1>5 DEF GateReturns, DeleteReturns, CancelReturns, SweepReturns
  <2>2. /\ UNCHANGED position
        /\ open' = open \/ open' = [open EXCEPT ![id] = NoOrder]
    BY <2>1 DEF Deletes, Forget, account
  <2>3. SidesAgree'
    BY <1>1, <1>3, <2>1, <2>2 DEF HInv, SidesAgree, InFlight, Idle
  <2>4. QED BY <1>1, <1>2, <2>2, <2>3, QuietStep
<1>6. QED BY <1>4, <1>5

\* A fill is counted on the side of its open order, or missed.
LEMMA ReadHInv ==
    ASSUME OInv, HInv, ReadResponse
    PROVE  HInv'
<1> DEFINE m == Head(stream)
<1>1. /\ CallbackOf(m) /\ UNCHANGED side /\ SparesInFlight
      /\ missed' = IF m.type = "FILL" /\ open[m.id] = NoOrder
                   THEN [missed EXCEPT ![m.id] = @ + m.qty] ELSE missed
      /\ doubtful' \subseteq doubtful \cup {m.id, waiting.id}
      /\ Client!Responding
  BY DEF ReadResponse
<1>2. /\ m.id \in OrderIds
      /\ m.type = "FILL" => m.qty \in OrderQty
      /\ \A id \in OrderIds : /\ reported[id] \in Nat /\ reported'[id] \in Nat
                              /\ reported'[id] = reported[id] + CP!FillQty(m, id)
  BY ReadMessage DEF OInv
<1>3. OrderQty \subseteq Nat
  BY Bounds
<1>4. waiting.id \in OrderIds
  BY <1>1, SameReads DEF OInv, KInv, Waits, Client!Responding, None, Client!None
<1> HIDE DEF m
<1>5. /\ doubtful' \subseteq OrderIds /\ spared' \subseteq OrderIds
      /\ side' \in [OrderIds -> Side \cup {"NONE"}]
  BY <1>1, <1>2, <1>4, SparedExists DEF OInv, HInv, HTypes
<1>6. /\ missed \in [OrderIds -> Nat] /\ open \in [OrderIds -> Order \cup {NoOrder}]
      /\ side \in [OrderIds -> Side \cup {"NONE"}] /\ position \in Int
      /\ \A id \in OrderIds : /\ missed[id] <= reported[id]
                              /\ open[id] # NoOrder => open[id].side = side[id]
  BY DEF OInv, IInv, TypeOK, HInv, HTypes, SidesAgree
<1>7. CASE m.type = "FILL" /\ open[m.id] # NoOrder
  <2>1. PICK id \in OrderIds : id = m.id
    BY <1>2
  <2>2. UNCHANGED missed /\ m.qty \in Nat
    BY <1>1, <1>2, <1>3, <1>7
  <2>3. PICK n \in Int : n = Signed(side[id], m.qty)
    BY <2>2 DEF Signed
  <2>4. PICK price \in Price : OnFill(id, m.qty, price, m.closed)
    BY <1>1, <1>7, <2>1 DEF CallbackOf
  <2>5. /\ position' = position + n /\ UNCHANGED call
        /\ \A x \in OrderIds : open'[x] = open[x] \/ open'[x] = NoOrder
    BY <1>2, <1>6, <1>7, <2>1, <2>3, <2>4 DEF OnFill
  <2>6. /\ reported'[id] = reported[id] + m.qty
        /\ \A x \in OrderIds \ {id} : reported'[x] = reported[x] + 0
    BY <1>2, <1>7, <2>1 DEF CP!FillQty
  <2>7. HTypes'
    BY <1>2, <1>5, <1>6, <2>2, <2>6 DEF HTypes
  <2>8. SidesAgree'
    BY <1>1, <1>6, <2>5 DEF HInv, SidesAgree, InFlight
  <2>9. Told(id)' = Told(id) + n
    <3>1. PICK r, k, q, s : r = reported[id] /\ k = missed[id] /\ q = m.qty /\ s = side[id]
      OBVIOUS
    <3>2. r \in Nat /\ k \in Nat /\ q \in Nat
      BY <1>2, <1>6, <2>2, <3>1
    <3>3. Told(id) = Signed(s, r - k) /\ Told(id)' = Signed(s, (r + q) - k)
      BY <1>1, <2>2, <2>6, <3>1 DEF Told
    <3>4. Signed(s, (r + q) - k) = Signed(s, r - k) + Signed(s, q)
      BY <3>2 DEF Signed
    <3>5. QED BY <2>3, <3>1, <3>3, <3>4
  <2>10. \A x \in OrderIds \ {id} : Told(x)' = Told(x)
    BY <1>1, <1>2, <2>2, <2>6 DEF Told
  <2>11. PositionIsTold'
    BY <2>5, <2>9, <2>10, ToldMoves DEF OInv
  <2>12. QED BY <2>7, <2>8, <2>11 DEF HInv
<1>8. CASE ~(m.type = "FILL" /\ open[m.id] # NoOrder)
  <2>1. OnReject(m.id) \/ OnClose(m.id) \/ UNCHANGED vars
    BY <1>1, <1>8 DEF CallbackOf
  <2>2. /\ UNCHANGED <<position, call>>
        /\ \A id \in OrderIds : open'[id] = open[id] \/ open'[id] = NoOrder
    BY <1>2, <1>6, <2>1 DEF OnReject, OnClose, Forget, vars, account, frames
  <2>3. SidesAgree'
    BY <1>1, <1>6, <2>2 DEF HInv, SidesAgree, InFlight
  <2>4. \A x \in OrderIds : /\ missed'[x] = missed[x] + (reported'[x] - reported[x])
                            /\ missed'[x] \in Nat
    <3>1. CASE m.type = "FILL"
      <4>1. missed' = [missed EXCEPT ![m.id] = @ + m.qty] /\ m.qty \in Nat
        BY <1>1, <1>2, <1>3, <1>8, <3>1
      <4>2. /\ reported'[m.id] = reported[m.id] + m.qty
            /\ \A id \in OrderIds \ {m.id} : reported'[id] = reported[id] + 0
        BY <1>2, <3>1 DEF CP!FillQty
      <4>3. QED BY <1>2, <1>6, <4>1, <4>2
    <3>2. CASE m.type # "FILL"
      <4>1. missed' = missed /\ \A id \in OrderIds : reported'[id] = reported[id] + 0
        BY <1>1, <1>2, <3>2 DEF CP!FillQty
      <4>2. QED BY <1>2, <1>6, <4>1
    <3>3. QED BY <3>1, <3>2
  <2>5. missed' \in [OrderIds -> Nat]
    BY <1>1, <1>6, <2>4
  <2>6. \A x \in OrderIds : /\ missed'[x] <= reported'[x]
                            /\ reported'[x] - missed'[x] = reported[x] - missed[x]
    BY <1>2, <1>6, <2>4
  <2>7. \A x \in OrderIds : Told(x)' = Told(x)
    BY <1>1, <2>6 DEF Told
  <2>8. PositionIsTold'
    BY <2>2, <2>7, ToldStays
  <2>9. QED BY <1>5, <2>3, <2>5, <2>6, <2>8 DEF HInv, HTypes
<1>9. QED BY <1>7, <1>8

LEMMA HistoryInvariance == OverSpec => [](OInv /\ HInv)
<1>1. OverInit => HInv
  <2> SUFFICES ASSUME OverInit PROVE HInv
    OBVIOUS
  <2>1. /\ side = [id \in OrderIds |-> "NONE"] /\ missed = [id \in OrderIds |-> 0]
        /\ reported = [id \in OrderIds |-> 0] /\ doubtful = {} /\ spared = {}
        /\ open = [id \in OrderIds |-> NoOrder] /\ call = Idle /\ position = 0
    BY Bounds DEF OverInit, Init, Client!Init
  <2>2. HTypes
    BY <2>1 DEF HTypes
  <2>3. SidesAgree
    BY <2>1 DEF SidesAgree, InFlight, Idle
  <2>4. PositionIsTold
    <3>1. PICK f : f = [id \in OrderIds |-> Told(id)]
      OBVIOUS
    <3>2. \A id \in OrderIds : f[id] = 0
      <4>1. \A id \in OrderIds : reported[id] - missed[id] = 0
        BY <2>1
      <4>2. QED BY <3>1, <4>1 DEF Told, Signed
    <3>3. SumFunctionOnSet(f, OrderIds) = 0
      BY <3>2, FiniteIdsAssumption, SumZero
    <3>4. QED BY <2>1, <3>1, <3>3 DEF PositionIsTold
  <2>5. QED BY <2>2, <2>3, <2>4 DEF HInv
<1>2. ASSUME OInv, HInv, [OverNext]_allVars
      PROVE  HInv'
  <2>1. ASSUME NEW id \in OrderIds, NEW qty \in OrderQty, NEW price \in Price,
               (\E s \in Side : SendNew(id, s, qty, price)) \/ Modify(id, qty, price)
        PROVE  HInv'
    BY <1>2, <2>1, SendNewHInv, ModifyHInv
  <2>2. QED BY <1>2, <2>1, OtherHInv, ReadHInv, ReturnsHInv DEF OverNext
<1>3. QED BY <1>1, <1>2, OverInvariance, PTL DEF OverSpec

\* Over the client the gate's position is that of the exchange but for the fills that are
\* still unread and those it was told of before their order was registered.
THEOREM PositionMissesNothingElse == OverSpec => []PositionMissesOnlyEarlyFills
<1>1. OInv /\ HInv => PositionMissesOnlyEarlyFills
  <2> SUFFICES ASSUME OInv, HInv, connected
               PROVE  SignedSum(executed) =
                  position + SignedSum(missed) + SignedSum([id \in OrderIds |-> Client!UnreadFills(id)])
    BY DEF PositionMissesOnlyEarlyFills
  <2>1. PICK e, t, k, u :
            /\ e = [id \in OrderIds |-> Signed(side[id], executed[id])]
            /\ t = [id \in OrderIds |-> Told(id)]
            /\ k = [id \in OrderIds |-> Signed(side[id], missed[id])]
            /\ u = [id \in OrderIds |-> Signed(side[id], Client!UnreadFills(id))]
    OBVIOUS
  <2>2. PICK d : d = [id \in OrderIds |-> t[id] + k[id]]
    OBVIOUS
  <2>3. \A id \in OrderIds :
          /\ t[id] \in Int /\ k[id] \in Int /\ u[id] \in Int
          /\ d[id] = t[id] + k[id] /\ e[id] = d[id] + u[id]
    <3> SUFFICES ASSUME NEW id \in OrderIds
                 PROVE  /\ t[id] \in Int /\ k[id] \in Int /\ u[id] \in Int
                        /\ d[id] = t[id] + k[id] /\ e[id] = d[id] + u[id]
      OBVIOUS
    <3>1. PICK r, x, m, n, s : /\ r = reported[id] /\ x = executed[id] /\ m = missed[id]
                               /\ n = Client!UnreadFills(id) /\ s = side[id]
      OBVIOUS
    <3>2. r \in Nat /\ m \in Nat
      BY <3>1, ToldTypes DEF OInv, HInv
    <3>3. x = r + n
      BY <3>1, Bounds, SameClaims, CP!AllReported DEF OInv, KInv, Client!FillsReportedOnce
    <3>4. n \in Nat
      <4>1. stream \in Seq(CP!Messages)
        BY DEF OInv, KInv, CP!TInv, CP!Typed
      <4>2. QED BY <3>1, <4>1, Bounds, SameClaims, CP!FillsType DEF Client!UnreadFills
    <3>5. /\ t[id] = Signed(s, r - m) /\ k[id] = Signed(s, m) /\ u[id] = Signed(s, n)
          /\ e[id] = Signed(s, r + n) /\ d[id] = t[id] + k[id]
      BY <2>1, <2>2, <3>1, <3>3 DEF Told
    <3>6. /\ Signed(s, r - m) \in Int /\ Signed(s, m) \in Int /\ Signed(s, n) \in Int
          /\ Signed(s, r + n) = (Signed(s, r - m) + Signed(s, m)) + Signed(s, n)
      BY <3>2, <3>4 DEF Signed
    <3>7. QED BY <3>5, <3>6
  <2> DEFINE Sum(f) == SumFunctionOnSet(f, OrderIds)
  <2>4. Sum(d) = Sum(t) + Sum(k)
    BY <2>3, FiniteIdsAssumption, SumAdd
  <2>5. Sum(e) = Sum(d) + Sum(u)
    BY <2>3, FiniteIdsAssumption, SumAdd
  <2>6. position = Sum(t)
    BY <2>1 DEF HInv, PositionIsTold
  <2>7. /\ SignedSum(executed) = Sum(e) /\ SignedSum(missed) = Sum(k)
        /\ SignedSum([id \in OrderIds |-> Client!UnreadFills(id)]) = Sum(u)
    BY <2>1 DEF SignedSum
  <2> HIDE DEF Sum
  <2>8. QED BY <2>4, <2>5, <2>6, <2>7
<1>2. QED BY <1>1, HistoryInvariance, PTL

\* Every variable keeps its type: the nested calls leave one answer at most, and no fill is
\* missed twice.
THEOREM OverTypes == OverSpec => []OverTypeOK
<1>1. OInv /\ HInv => OverTypeOK
  <2> SUFFICES ASSUME OInv, HInv PROVE OverTypeOK
    OBVIOUS
  <2>1. CP!TypeOK
    BY Bounds, CP!CountedTypes DEF OInv, KInv, CP!TInv
  <2>2. missed \in [OrderIds -> 0 .. MaxQty]
    <3>1. \A id \in OrderIds : missed[id] \in Nat /\ missed[id] <= reported[id] /\ reported[id] \in 0 .. MaxQty
      BY <2>1, Bounds DEF HInv, HTypes, CP!TypeOK
    <3>2. \A id \in OrderIds : missed[id] \in 0 .. MaxQty
      BY <3>1, Bounds
    <3>3. QED BY <3>2 DEF HInv, HTypes
  <2>3. QED BY <2>1, <2>2, SameClaims DEF OInv, IInv, KInv, HInv, HTypes, OverTypeOK
<1>2. QED BY <1>1, HistoryInvariance, PTL

-----------------------------------------------------------------------------
(* The gate's view of its orders *)

\* The kind of a message: a closing fill and the reject of an unknown id are kinds of their own
Kind(m) ==
    IF m.type = "FILL" /\ m.closed THEN "FILLED"
    ELSE IF m.type = "REJECT" /\ m.reason = "UNKNOWN_ORDER_ID" THEN "UNKNOWN"
    ELSE m.type

\* A message of these kinds about the order is unread
Ahead(msgs, id, kinds) == \E i \in 1 .. Len(msgs) : msgs[i].id = id /\ Kind(msgs[i]) \in kinds

Refusals == {"REJECT", "UNKNOWN"}

\* The kinds on which the gate forgets an order
Forgets == Refusals \cup {"CLOSE"}

NewOf(id) == call.op = "new" /\ call.id = id

ModifyOf(id) == call.op = "modify" /\ call.id = id

\* What of an order works, or has filled and is not yet told
Due(id) == resting[id] + (executed[id] - reported[id])

\* An order that rests is open,
RestsOpen(id) == open[id] = NoOrder /\ ~NewOf(id) => resting[id] = 0

\* and pending with what is due, unless a message that makes the gate forget it is unread.
PendingIsDue(id) ==
    ~NewOf(id) /\ ~ModifyOf(id) /\ ~Ahead(stream, id, Forgets) =>
        IF open[id] = NoOrder
        THEN exposure.pending[id] = NoOrder
        ELSE /\ exposure.pending[id] # NoOrder
             /\ exposure.pending[id].qty = Due(id) /\ Due(id) > 0

\* Only while its modify waits is a resting order refused something.
RefusedInFlight(id) ==
    resting[id] > 0 /\ Ahead(stream, id, Refusals) =>
        ModifyOf(id) /\ waiting = [op |-> "modify", id |-> id]

\* An order that has filled to the end will be told so, unless it was closed before.
DoneIsTold(id) ==
    resting[id] = 0 /\ reported[id] < executed[id] /\ ~Ahead(stream, id, {"CLOSE"}) =>
        Ahead(stream, id, {"FILLED"})

\* A new order that is registered will be due as it was asked for, or refused.
NewIsDue(id) ==
    NewOf(id) =>
        /\ open[id] = NoOrder /\ exposure.pending[id] = NoOrder
        /\ returned = None =>
              waiting = [op |-> "new", id |-> id] /\ ~Ahead(stream, id, {"CLOSE", "UNKNOWN"})
        /\ IF (returned # None /\ ~returned.ok) \/ Ahead(stream, id, Forgets)
           THEN resting[id] = 0
           ELSE Due(id) = call.order.qty

\* A modify that waits has its answer ahead: a refusal, or an ACK after which what is due
\* is what was asked for.
AnswerAhead(id, before, m, after) ==
    /\ stream = (before \o <<m>>) \o after /\ m.id = id
    /\ \/ Kind(m) \in Refusals
       \/ /\ Kind(m) = "ACK" /\ ~Ahead(stream, id, Forgets)
          /\ Due(id) = call.order.qty + CP!FillsIn(before, id)

ModifyIsDue(id) ==
    ModifyOf(id) =>
        IF returned = None
        THEN /\ waiting = [op |-> "modify", id |-> id]
             /\ \E before, after \in Seq(CP!Messages), m \in CP!Messages :
                   AnswerAhead(id, before, m, after)
        ELSE IF returned.ok
             THEN ~Ahead(stream, id, Forgets) /\ Due(id) = call.order.qty
             ELSE resting[id] = 0 /\ open[id] = NoOrder /\ exposure.pending[id] = NoOrder

\* What rests when the gate has shut down has still to be cancelled.
SweepCovers(id) == isShutdown /\ resting[id] > 0 => id \in sweep

View(id) ==
    /\ RestsOpen(id) /\ PendingIsDue(id) /\ RefusedInFlight(id) /\ DoneIsTold(id)
    /\ NewIsDue(id) /\ ModifyIsDue(id) /\ SweepCovers(id)

Untroubled == OrderIds \ (doubtful \cup spared)

\* A call of the client that is a delete, or none
NoneOrDelete(c) == c = None \/ c.op = "delete"

\* The calls on the stack: a cancel loop runs when no request is in flight, or inside a
\* shutdown, which spared the request
Frames ==
    /\ call # Idle => call.id <= lastId
    /\ \A id \in OrderIds : id > lastId => open[id] = NoOrder /\ exposure.pending[id] = NoOrder
    /\ InFlight => cancelling = {}
    /\ sweep = {} => outer = NoFrame
    /\ IF isShutdown THEN InFlight => spared = {call.id} ELSE spared = {}
    /\ ~InFlight \/ sweep # {} => NoneOrDelete(waiting) /\ NoneOrDelete(returned)
    /\ ~InFlight => NoneOrDelete(outer.waiting) /\ NoneOrDelete(outer.returned)

\* An order that a call deletes, or has deleted, works no more
Gone(c) == c.op = "delete" => resting[c.id] = 0

AllGone == Gone(call) /\ Gone(waiting) /\ Gone(returned) /\ Gone(outer.waiting) /\ Gone(outer.returned)

VInv == Frames /\ (connected => AllGone /\ \A id \in Untroubled : View(id))

\* A request asks for a quantity
AsksForSome == InFlight => call.order.qty \in OrderQty

\* A message is ahead in what was sent before or after.
LEMMA AheadConcat ==
    ASSUME NEW a \in Seq(CP!Messages), NEW b \in Seq(CP!Messages), NEW id, NEW kinds
    PROVE  Ahead(a \o b, id, kinds) <=> Ahead(a, id, kinds) \/ Ahead(b, id, kinds)
<1>1. /\ Len(a) \in Nat /\ Len(b) \in Nat /\ Len(a \o b) = Len(a) + Len(b)
      /\ \A i \in 1 .. Len(a) : (a \o b)[i] = a[i]
      /\ \A i \in 1 .. Len(b) : (a \o b)[Len(a) + i] = b[i]
  BY ConcatProperties, LenProperties
<1>2. ASSUME Ahead(a \o b, id, kinds), ~Ahead(a, id, kinds) PROVE Ahead(b, id, kinds)
  <2>1. PICK i \in 1 .. Len(a) + Len(b) : (a \o b)[i].id = id /\ Kind((a \o b)[i]) \in kinds
    BY <1>1, <1>2 DEF Ahead
  <2>2. i \notin 1 .. Len(a)
    BY <1>1, <1>2, <2>1 DEF Ahead
  <2>3. PICK j \in 1 .. Len(b) : i = Len(a) + j
    <3>1. i - Len(a) \in 1 .. Len(b) /\ i = Len(a) + (i - Len(a))
      BY <1>1, <2>1, <2>2
    <3>2. QED BY <3>1
  <2>4. b[j].id = id /\ Kind(b[j]) \in kinds
    BY <1>1, <2>1, <2>3
  <2>5. QED BY <2>4 DEF Ahead
<1>3. ASSUME Ahead(a, id, kinds) PROVE Ahead(a \o b, id, kinds)
  <2>1. PICK i \in 1 .. Len(a) : a[i].id = id /\ Kind(a[i]) \in kinds
    BY <1>3 DEF Ahead
  <2>2. i \in 1 .. Len(a \o b) /\ (a \o b)[i] = a[i]
    BY <1>1
  <2>3. QED BY <2>1, <2>2 DEF Ahead
<1>4. ASSUME Ahead(b, id, kinds) PROVE Ahead(a \o b, id, kinds)
  <2>1. PICK i \in 1 .. Len(b) : b[i].id = id /\ Kind(b[i]) \in kinds
    BY <1>4 DEF Ahead
  <2>2. Len(a) + i \in 1 .. Len(a \o b) /\ (a \o b)[Len(a) + i] = b[i]
    BY <1>1
  <2>3. QED BY <2>1, <2>2 DEF Ahead
<1>5. QED BY <1>2, <1>3, <1>4

LEMMA AheadOne ==
    ASSUME NEW m, NEW id, NEW kinds
    PROVE  Ahead(<<m>>, id, kinds) <=> m.id = id /\ Kind(m) \in kinds
<1>1. Len(<<m>>) = 1 /\ <<m>>[1] = m /\ 1 .. 1 = {1}
  OBVIOUS
<1>2. QED BY <1>1 DEF Ahead

\* What is read is no longer ahead.
LEMMA AheadTail ==
    ASSUME NEW msgs \in Seq(CP!Messages), msgs # <<>>, NEW id, NEW kinds
    PROVE  Ahead(msgs, id, kinds) <=>
              (Head(msgs).id = id /\ Kind(Head(msgs)) \in kinds) \/ Ahead(Tail(msgs), id, kinds)
<1>1. /\ Head(msgs) \in CP!Messages /\ Tail(msgs) \in Seq(CP!Messages)
      /\ msgs = <<Head(msgs)>> \o Tail(msgs)
  BY HeadTailProperties, HeadTailAppend
<1>2. <<Head(msgs)>> \in Seq(CP!Messages)
  BY <1>1
<1>3. Ahead(<<Head(msgs)>> \o Tail(msgs), id, kinds) <=>
         Ahead(<<Head(msgs)>>, id, kinds) \/ Ahead(Tail(msgs), id, kinds)
  BY <1>1, <1>2, AheadConcat
<1>4. QED BY <1>1, <1>3, AheadOne

\* Messages about other orders are not ahead for this one.
LEMMA OthersAhead ==
    ASSUME NEW a \in Seq(CP!Messages), NEW b \in Seq(CP!Messages), NEW x,
           \A i \in 1 .. Len(b) : b[i].id # x
    PROVE  \A kinds : Ahead(a \o b, x, kinds) <=> Ahead(a, x, kinds)
<1> SUFFICES ASSUME NEW kinds PROVE Ahead(a \o b, x, kinds) <=> Ahead(a, x, kinds)
  OBVIOUS
<1>1. ~Ahead(b, x, kinds)
  BY DEF Ahead
<1>2. QED BY <1>1, AheadConcat

\* The view of an order that no step touches, and that is not in flight.
LEMMA Elsewhere ==
    ASSUME NEW id \in OrderIds, View(id), ~NewOf(id), ~ModifyOf(id), ~NewOf(id)', ~ModifyOf(id)',
           resting'[id] = resting[id], executed'[id] = executed[id], reported'[id] = reported[id],
           open'[id] = open[id], exposure'.pending[id] = exposure.pending[id],
           \A kinds : Ahead(stream', id, kinds) <=> Ahead(stream, id, kinds),
           SweepCovers(id)'
    PROVE  View(id)'
<1>1. RestsOpen(id)'
  BY DEF View, RestsOpen
<1>2. PendingIsDue(id)'
  BY DEF View, PendingIsDue, Due
<1>3. RefusedInFlight(id)'
  BY DEF View, RefusedInFlight
<1>4. DoneIsTold(id)'
  BY DEF View, DoneIsTold
<1>5. NewIsDue(id)' /\ ModifyIsDue(id)'
  BY DEF NewIsDue, ModifyIsDue
<1>6. QED BY <1>1, <1>2, <1>3, <1>4, <1>5 DEF View

\* What the invariants say of the client's variables.
LEMMA ViewTypes ==
    ASSUME OInv
    PROVE  /\ resting \in [OrderIds -> Nat] /\ executed \in [OrderIds -> Nat]
           /\ reported \in [OrderIds -> Nat] /\ stream \in Seq(CP!Messages)
           /\ connected \in BOOLEAN /\ lastId \in Nat
           /\ \A id \in OrderIds : reported[id] <= executed[id]
           /\ waiting \in {None} \cup Waits /\ returned \in {None} \cup Answers
           /\ outer.waiting \in {None} \cup Waits /\ outer.returned \in {None} \cup Answers
           /\ waiting = None \/ returned = None
           /\ call # Idle => call.id \in OrderIds
           /\ open \in [OrderIds -> Order \cup {NoOrder}]
           /\ exposure.pending \in [OrderIds -> Order \cup {NoOrder}]
<1>1. /\ resting \in [OrderIds -> Nat] /\ executed \in [OrderIds -> Nat]
      /\ reported \in [OrderIds -> Nat] /\ stream \in Seq(CP!Messages)
      /\ connected \in BOOLEAN /\ lastId \in Nat
      /\ \A id \in OrderIds : reported[id] <= executed[id]
      /\ waiting = None \/ returned = None
  BY Bounds, SameReads DEF OInv, KInv, CP!TInv, CP!Typed, CP!FInv, CP!Counted
<1>2. /\ call # Idle => call.id \in OrderIds
      /\ open \in [OrderIds -> Order \cup {NoOrder}]
      /\ exposure.pending \in [OrderIds -> Order \cup {NoOrder}]
  BY DEF OInv, IInv, TypeOK, Idle
<1>3. QED BY <1>1, <1>2 DEF OInv, KInv

\* An order that a shutdown has not spared is not in flight while the shutdown cancels.
LEMMA SweptNotInFlight ==
    ASSUME OInv, VInv, ~InFlight \/ sweep # {}, NEW x \in Untroubled
    PROVE  ~NewOf(x) /\ ~ModifyOf(x)
<1>1. InFlight => spared = {call.id}
  BY DEF VInv, Frames, OInv, IInv, SweepIsShutdown
<1>2. QED BY <1>1 DEF Untroubled, NewOf, ModifyOf, InFlight

\* What a delete does: its order works no more, and the answer makes the gate forget it.
LEMMA DeleteAnswer ==
    ASSUME OInv, connected, NEW d \in OrderIds, Client!DeleteOrder(d)
    PROVE  /\ resting' = [resting EXCEPT ![d] = 0]
           /\ UNCHANGED <<executed, reported, connected, lastId>>
           /\ \E m \in CP!Messages : /\ stream' = stream \o <<m>> /\ m.id = d
                                     /\ Kind(m) = IF resting[d] > 0 THEN "CLOSE" ELSE "UNKNOWN"
<1>1. CP!DeleteOrder(d)
  BY SameSteps
<1>2. /\ CP!ExchangeTakesDelete(d) /\ UNCHANGED <<connected, lastId, reported>>
  BY <1>1 DEF CP!DeleteOrder, CP!Sends, CP!caller, CP!client
<1>3. PICK m : /\ m = IF resting[d] > 0 THEN CP!Close(d) ELSE CP!Reject(d, "UNKNOWN_ORDER_ID")
               /\ stream' = stream \o <<m>>
  BY <1>2 DEF CP!ExchangeTakesDelete, CP!Emit
<1>4. /\ m \in CP!Messages /\ m.id = d
      /\ Kind(m) = IF resting[d] > 0 THEN "CLOSE" ELSE "UNKNOWN"
  BY <1>3, Bounds DEF CP!Close, CP!Reject, CP!Messages, CP!Reasons, Kind
<1>5. QED BY <1>2, <1>3, <1>4 DEF CP!ExchangeTakesDelete

\* A delete outside of a request: the views stay, that of its order because the answer
\* is ahead.
LEMMA DeleteView ==
    ASSUME OInv, VInv, connected, NEW d \in OrderIds, Client!DeleteOrder(d),
           UNCHANGED <<exposure, open, isShutdown, sweep, doubtful, spared>>,
           ~InFlight \/ sweep # {}, call' = call \/ call'.op = "delete", NEW x \in Untroubled
    PROVE  View(x)'
<1>1. /\ View(x) /\ ~NewOf(x) /\ ~ModifyOf(x) /\ ~NewOf(x)' /\ ~ModifyOf(x)' /\ x \in OrderIds
  BY SweptNotInFlight DEF VInv, Untroubled, NewOf, ModifyOf
<1>2. PICK m \in CP!Messages : /\ stream' = stream \o <<m>> /\ m.id = d
                               /\ Kind(m) = IF resting[d] > 0 THEN "CLOSE" ELSE "UNKNOWN"
  BY DeleteAnswer
<1>3. /\ stream \in Seq(CP!Messages) /\ resting \in [OrderIds -> Nat]
      /\ resting' = [resting EXCEPT ![d] = 0] /\ UNCHANGED <<executed, reported>>
  BY ViewTypes, DeleteAnswer
<1>4. <<m>> \in Seq(CP!Messages)
  OBVIOUS
<1>5. \A kinds : Ahead(stream', x, kinds) <=> Ahead(stream, x, kinds) \/ (d = x /\ Kind(m) \in kinds)
  BY <1>2, <1>3, <1>4, AheadConcat, AheadOne
<1>6. SweepCovers(x)'
  BY <1>1, <1>3 DEF View, SweepCovers
<1>7. CASE x # d
  BY <1>1, <1>3, <1>5, <1>6, <1>7, Elsewhere
<1>8. CASE x = d
  <2>1. resting'[x] = 0
    BY <1>1, <1>3, <1>8
  <2>2. Ahead(stream', x, Forgets)
    BY <1>2, <1>5, <1>8 DEF Forgets, Refusals
  <2>3. DoneIsTold(x)'
    <3>1. CASE resting[d] > 0
      <4>1. Ahead(stream', x, {"CLOSE"})
        BY <1>2, <1>5, <1>8, <3>1
      <4>2. QED BY <4>1 DEF DoneIsTold
    <3>2. CASE ~(resting[d] > 0)
      <4>1. resting[x] = 0
        BY <1>1, <1>3, <1>8, <3>2
      <4>2. QED BY <1>1, <1>3, <1>5, <4>1 DEF View, DoneIsTold
    <3>3. QED BY <3>1, <3>2
  <2>4. RestsOpen(x)' /\ PendingIsDue(x)' /\ RefusedInFlight(x)'
    BY <2>1, <2>2 DEF RestsOpen, PendingIsDue, RefusedInFlight
  <2>5. NewIsDue(x)' /\ ModifyIsDue(x)'
    BY <1>1 DEF NewIsDue, ModifyIsDue
  <2>6. QED BY <1>6, <2>3, <2>4, <2>5 DEF View
<1>9. QED BY <1>7, <1>8

\* What works no more after a delete.
LEMMA DeleteGone ==
    ASSUME OInv, AllGone, connected, NEW d \in OrderIds, Client!DeleteOrder(d), UNCHANGED outer,
           call' = call \/ call' = [op |-> "delete", id |-> d]
    PROVE  AllGone'
<1>1. /\ waiting' = [op |-> "delete", id |-> d] /\ returned' = None
  BY SameSteps, SameReads DEF CP!DeleteOrder, CP!Waits
<1>2. resting' = [resting EXCEPT ![d] = 0] /\ resting \in [OrderIds -> Nat]
  BY DeleteAnswer, ViewTypes
<1>3. resting'[d] = 0 /\ \A id \in OrderIds : resting[id] = 0 => resting'[id] = 0
  BY <1>2
<1>4. Gone(waiting)' /\ Gone(returned)'
  BY <1>1, <1>3 DEF Gone, None, Client!None
<1>5. Gone(call)'
  BY <1>3, ViewTypes DEF AllGone, Gone, Idle
<1>6. Gone(outer.waiting)' /\ Gone(outer.returned)'
  BY <1>3, ViewTypes, SMTT(40) DEF AllGone, Gone, Waits, Answers, None, Client!None
<1>7. QED BY <1>4, <1>5, <1>6 DEF AllGone

LEMMA DeleteVInv ==
    ASSUME OInv, VInv, NEW d \in OrderIds, Delete(d) \/ LoopDelete(d)
    PROVE  VInv'
<1>1. /\ Client!DeleteOrder(d)
      /\ UNCHANGED <<exposure, open, isShutdown, cancelling, sweep, outer, doubtful, spared>>
      /\ \/ call' = [op |-> "delete", id |-> d] /\ call = Idle
         \/ call' = call /\ (sweep # {} \/ cancelling # {})
  BY DEF Delete, DeleteOrder, Ready, LoopDelete, vars, frames, histories
<1>2. /\ d <= lastId /\ lastId' = lastId /\ connected' = connected
      /\ waiting' = [op |-> "delete", id |-> d] /\ returned' = None
  BY <1>1, SameSteps, SameReads DEF CP!DeleteOrder, CP!Waits, CP!caller
<1>3. /\ ~InFlight \/ sweep # {}
      /\ InFlight' => InFlight /\ call' = call
  BY <1>1 DEF VInv, Frames, InFlight, Idle
<1>4. Frames'
  <2>1. NoneOrDelete(waiting)' /\ NoneOrDelete(returned)'
    BY <1>2 DEF NoneOrDelete
  <2>2. call' # Idle => call'.id <= lastId'
    BY <1>1, <1>2 DEF VInv, Frames
  <2>3. \A id \in OrderIds : id > lastId' => open'[id] = NoOrder /\ exposure'.pending[id] = NoOrder
    BY <1>1, <1>2 DEF VInv, Frames
  <2>4. ~InFlight' => NoneOrDelete(outer.waiting)' /\ NoneOrDelete(outer.returned)'
    <3>1. CASE InFlight
      BY <1>1, <1>3, <3>1 DEF InFlight, Idle
    <3>2. CASE ~InFlight
      BY <1>1, <3>2 DEF VInv, Frames, NoneOrDelete
    <3>3. QED BY <3>1, <3>2
  <2>5. /\ InFlight' => cancelling' = {}
        /\ sweep' = {} => outer' = NoFrame
        /\ IF isShutdown' THEN InFlight' => spared' = {call'.id} ELSE spared' = {}
    BY <1>1, <1>3 DEF VInv, Frames
  <2>6. QED BY <2>1, <2>2, <2>3, <2>4, <2>5 DEF Frames, NoFrame
<1>5. ASSUME connected PROVE AllGone'
  BY <1>1, <1>5, DeleteGone DEF VInv
<1>6. ASSUME connected, NEW x \in Untroubled' PROVE View(x)'
  <2>1. x \in Untroubled
    BY <1>1 DEF Untroubled
  <2>2. call' = call \/ call'.op = "delete"
    BY <1>1
  <2>3. QED BY <1>1, <1>3, <1>6, <2>1, <2>2, DeleteView
<1>7. QED BY <1>2, <1>4, <1>5, <1>6 DEF VInv

\* Steps that no order's view depends on.
LEMMA StutterVInv ==
    ASSUME OInv, VInv, cancelling' = cancelling \/ ~InFlight,
           UNCHANGED <<open, exposure, call, isShutdown, sweep, clientVars, outer, doubtful, spared>>
    PROVE  VInv'
<1>1. Frames'
  <2>1. InFlight' <=> InFlight
    BY DEF InFlight
  <2>2. UNCHANGED <<waiting, returned, lastId>>
    BY DEF clientVars, answers
  <2>3. QED BY <2>1, <2>2 DEF VInv, Frames, NoneOrDelete, None, Client!None, NoFrame
<1>2. AllGone => AllGone'
  BY DEF AllGone, Gone, clientVars, answers
<1>3. ASSUME NEW x, View(x) PROVE View(x)'
  <2> USE <1>3 DEF View, clientVars, answers
  <2>1. RestsOpen(x)' /\ PendingIsDue(x)' /\ RefusedInFlight(x)'
    BY DEF RestsOpen, PendingIsDue, RefusedInFlight, NewOf, ModifyOf, Due
  <2>2. DoneIsTold(x)' /\ NewIsDue(x)' /\ SweepCovers(x)'
    BY DEF DoneIsTold, NewIsDue, NewOf, Due, SweepCovers, None, Client!None
  <2>3. ModifyIsDue(x)'
    BY DEF ModifyIsDue, ModifyOf, AnswerAhead, Due, None, Client!None
  <2>4. QED BY <2>1, <2>2, <2>3
<1>4. QED BY <1>1, <1>2, <1>3 DEF VInv, Untroubled, clientVars

LEMMA QuietVInv ==
    ASSUME OInv, VInv, CancelAll \/ ReadFails \/ UNCHANGED allVars
    PROVE  VInv'
<1>1. CASE CancelAll \/ UNCHANGED allVars
  <2>1. /\ UNCHANGED <<open, exposure, call, isShutdown, sweep, clientVars, outer, doubtful, spared>>
        /\ cancelling' = cancelling \/ ~InFlight
    BY <1>1 DEF CancelAll, CancelAllOpenOrders, Ready, InFlight, Idle, allVars, vars, frames, histories
  <2>2. QED BY <2>1, StutterVInv
<1>2. CASE ReadFails
  <2>1. /\ UNCHANGED <<vars, outer, histories, lastId>> /\ ~connected' /\ waiting # None
        /\ waiting' = None /\ returned' = [op |-> waiting.op, id |-> waiting.id, ok |-> FALSE]
    BY <1>2, SameSteps, SameReads DEF ReadFails, CP!ReadFails, CP!Return, CP!exchange, CP!caller
  <2>2. InFlight' <=> InFlight
    BY <2>1 DEF InFlight, vars, frames
  <2>3. NoneOrDelete(waiting) => NoneOrDelete(waiting)' /\ NoneOrDelete(returned)'
    BY <2>1 DEF NoneOrDelete, None, Client!None
  <2>4. Frames'
    BY <2>1, <2>2, <2>3 DEF VInv, Frames, NoneOrDelete, None, Client!None, NoFrame, vars, frames, histories
  <2>5. QED BY <2>1, <2>4 DEF VInv
<1>3. QED BY <1>1, <1>2

\* A fill at the exchange leaves what is due of its order; the last one will be told as such.
LEMMA FillView ==
    ASSUME OInv, VInv, connected, NEW d \in OrderIds, NEW qty \in OrderQty,
           CP!ExchangeFills(d, qty), UNCHANGED <<vars, outer, histories>>, NEW x \in Untroubled
    PROVE  View(x)'
<1>1. /\ View(x) /\ x \in OrderIds
      /\ UNCHANGED <<open, exposure, call, isShutdown, sweep, waiting, returned, reported>>
  BY DEF VInv, Untroubled, vars, frames, CP!ExchangeFills, CP!client
<1>2. PICK m : /\ m = CP!Fill(d, qty, resting[d] = qty) /\ stream' = stream \o <<m>>
               /\ resting' = [resting EXCEPT ![d] = @ - qty]
               /\ executed' = [executed EXCEPT ![d] = @ + qty] /\ qty \in 1 .. resting[d]
  BY DEF CP!ExchangeFills, CP!Emit
<1>3. /\ m \in CP!Messages /\ m.id = d
      /\ Kind(m) = IF resting[d] = qty THEN "FILLED" ELSE "FILL"
  <2>1. qty \in Nat \ {0} /\ (resting[d] = qty) \in BOOLEAN
    BY Bounds
  <2>2. m = [type |-> "FILL", id |-> d, qty |-> qty, closed |-> (resting[d] = qty)]
    BY <1>2 DEF CP!Fill
  <2>3. m \in CP!Messages
    BY <2>1, <2>2, Bounds DEF CP!Messages
  <2>4. QED BY <2>2, <2>3 DEF Kind
<1>4. /\ stream \in Seq(CP!Messages) /\ resting \in [OrderIds -> Nat]
      /\ executed \in [OrderIds -> Nat] /\ reported \in [OrderIds -> Nat]
  BY ViewTypes
<1>5. /\ resting'[x] \in Nat /\ resting'[x] <= resting[x]
      /\ x # d => resting'[x] = resting[x] /\ executed'[x] = executed[x]
      /\ resting'[d] = resting[d] - qty
  BY <1>1, <1>2, <1>4
<1>6. Due(x)' = Due(x)
  <2>1. CASE x = d
    <3>1. PICK r, e, t, q : r = resting[d] /\ e = executed[d] /\ t = reported[d] /\ q = qty
      OBVIOUS
    <3>2. r \in Int /\ e \in Int /\ t \in Int /\ q \in Int
      BY <1>2, <1>4, <3>1
    <3>3. resting'[d] = r - q /\ executed'[d] = e + q /\ reported'[d] = t
      BY <1>1, <1>2, <1>4, <3>1
    <3>4. Due(x) = r + (e - t) /\ Due(x)' = (r - q) + ((e + q) - t)
      BY <2>1, <3>1, <3>3 DEF Due
    <3>5. QED BY <3>2, <3>4
  <2>2. CASE x # d
    BY <1>1, <1>5, <2>2 DEF Due
  <2>3. QED BY <2>1, <2>2
<1>7. /\ <<m>> \in Seq(CP!Messages)
      /\ \A kinds : Ahead(stream', x, kinds) <=> Ahead(stream, x, kinds) \/ (d = x /\ Kind(m) \in kinds)
  <2>1. <<m>> \in Seq(CP!Messages)
    BY <1>3
  <2>2. stream' = stream \o <<m>> /\ m.id = d /\ stream \in Seq(CP!Messages)
    BY <1>2, <1>3, <1>4
  <2>3. QED BY <2>1, <2>2, AheadConcat, AheadOne
<1>8. \A kinds \in SUBSET Forgets : Ahead(stream', x, kinds) <=> Ahead(stream, x, kinds)
  BY <1>3, <1>7 DEF Forgets, Refusals
<1>9. /\ Ahead(stream', x, Forgets) <=> Ahead(stream, x, Forgets)
      /\ Ahead(stream', x, Refusals) <=> Ahead(stream, x, Refusals)
      /\ Ahead(stream', x, {"CLOSE"}) <=> Ahead(stream, x, {"CLOSE"})
      /\ Ahead(stream', x, {"CLOSE", "UNKNOWN"}) <=> Ahead(stream, x, {"CLOSE", "UNKNOWN"})
  BY <1>8 DEF Forgets, Refusals
<1>10. resting[x] = 0 => resting'[x] = 0
  BY <1>4, <1>5
<1>11. RestsOpen(x)' /\ RefusedInFlight(x)' /\ SweepCovers(x)'
  <2>1. resting'[x] > 0 => resting[x] > 0
    BY <1>1, <1>4, <1>5
  <2>2. QED BY <1>1, <1>9, <1>10, <2>1 DEF View, RestsOpen, NewOf, ModifyOf, RefusedInFlight, SweepCovers
<1>12. PendingIsDue(x)'
  BY <1>1, <1>6, <1>9 DEF View, PendingIsDue, NewOf, ModifyOf
<1>13. DoneIsTold(x)'
  <2>1. CASE x = d
    <3>1. resting'[x] = 0 => Kind(m) = "FILLED"
      BY <1>2, <1>3, <1>4, <1>5, <2>1
    <3>2. QED BY <1>7, <2>1, <3>1 DEF DoneIsTold
  <2>2. CASE x # d
    BY <1>1, <1>5, <1>7, <2>2 DEF View, DoneIsTold
  <2>3. QED BY <2>1, <2>2
<1>14. NewIsDue(x)'
  BY <1>1, <1>6, <1>9, <1>10 DEF View, NewIsDue, NewOf, None, Client!None
<1>15. ModifyIsDue(x)'
  <2>1. ASSUME NEW b \in Seq(CP!Messages), NEW c \in Seq(CP!Messages), NEW a \in CP!Messages,
               AnswerAhead(x, b, a, c)
        PROVE  AnswerAhead(x, b, a, c \o <<m>>)'
    <3>1. b \o <<a>> \in Seq(CP!Messages)
      BY ConcatProperties
    <3>2. ((b \o <<a>>) \o c) \o <<m>> = (b \o <<a>>) \o (c \o <<m>>)
      BY <1>7, <3>1, ConcatAssociative
    <3>3. stream' = (b \o <<a>>) \o (c \o <<m>>)
      BY <1>2, <2>1, <3>2 DEF AnswerAhead
    <3>4. QED BY <1>1, <1>6, <1>9, <2>1, <3>3 DEF AnswerAhead
  <2>2. \A c \in Seq(CP!Messages) : c \o <<m>> \in Seq(CP!Messages)
    BY <1>7, ConcatProperties
  <2>3. QED BY <1>1, <1>6, <1>9, <1>10, <2>1, <2>2 DEF View, ModifyIsDue, ModifyOf, None, Client!None
<1>16. QED BY <1>11, <1>12, <1>13, <1>14, <1>15 DEF View

LEMMA EnvironmentVInv ==
    ASSUME OInv, VInv, Environment
    PROVE  VInv'
<1>1. UNCHANGED <<vars, outer, histories>>
  BY DEF Environment
<1>2. CASE Client!Disconnect
  <2>1. UNCHANGED <<lastId, waiting, returned>> /\ ~connected'
    BY <1>2, SameSteps DEF CP!Disconnect, CP!caller
  <2>2. Frames'
    BY <1>1, <2>1 DEF VInv, Frames, NoneOrDelete, None, Client!None, NoFrame, InFlight, vars, frames, histories
  <2>3. QED BY <2>1, <2>2 DEF VInv
<1>3. ASSUME NEW d \in OrderIds, NEW qty \in OrderQty, Client!ExchangeFills(d, qty)
      PROVE  VInv'
  <2>1. CP!ExchangeFills(d, qty)
    BY <1>3, SameSteps
  <2>2. /\ UNCHANGED <<lastId, waiting, returned, connected>>
        /\ connected /\ resting' = [resting EXCEPT ![d] = @ - qty] /\ qty \in 1 .. resting[d]
    BY <2>1 DEF CP!ExchangeFills, CP!caller
  <2>3. Frames'
    BY <1>1, <2>2 DEF VInv, Frames, NoneOrDelete, None, Client!None, NoFrame, InFlight, vars, frames, histories
  <2>4. AllGone'
    <3>1. \A id \in OrderIds : resting[id] = 0 => resting'[id] = 0
      BY <2>2, ViewTypes
    <3>2. ASSUME NEW c, c.id \in OrderIds \/ c.op # "delete", Gone(c) PROVE Gone(c)'
      BY <3>1, <3>2 DEF Gone
    <3>3. \A c \in {None} \cup Waits \cup Answers : c.id \in OrderIds \/ c.op # "delete"
      BY DEF Waits, Answers, None, Client!None
    <3>4. call.id \in OrderIds \/ call.op # "delete"
      BY ViewTypes DEF Idle
    <3>5. AllGone
      BY <2>2 DEF VInv
    <3>6. QED BY <1>1, <2>2, <3>2, <3>3, <3>4, <3>5, ViewTypes DEF AllGone, Gone, vars, frames
  <2>5. ASSUME NEW x \in Untroubled' PROVE View(x)'
    <3>1. x \in Untroubled
      BY <1>1 DEF Untroubled, histories
    <3>2. QED BY <1>1, <2>1, <2>2, <3>1, FillView
  <2>6. QED BY <2>3, <2>4, <2>5 DEF VInv
<1>4. QED BY <1>2, <1>3 DEF Environment

\* The answers to a new order: a refusal, or fills and an ACK that leave the rest working.
LEMMA NewAnswer ==
    ASSUME OInv, connected, NEW id \in OrderIds, NEW qty \in OrderQty, CP!SendNewOrder(id, qty)
    PROVE  \E msgs \in Seq(CP!Messages) :
              /\ stream' = stream \o msgs /\ \A i \in 1 .. Len(msgs) : msgs[i].id = id
              /\ \/ /\ UNCHANGED <<resting, executed>>
                    /\ \A kinds : Ahead(msgs, id, kinds) <=> "REJECT" \in kinds
                 \/ \E now \in 0 .. qty :
                       /\ resting' = [resting EXCEPT ![id] = qty - now]
                       /\ executed' = [executed EXCEPT ![id] = now]
                       /\ ~Ahead(msgs, id, Forgets)
                       /\ now = qty => Ahead(msgs, id, {"FILLED"})
<1>1. CP!ExchangeTakesNew(id, qty)
  BY DEF CP!SendNewOrder, CP!Sends
<1>2. ASSUME NEW m \in CP!Messages, NEW n \in CP!Messages
      PROVE  /\ <<m, n>> \in Seq(CP!Messages)
             /\ m.id = id /\ n.id = id => \A i \in 1 .. Len(<<m, n>>) : <<m, n>>[i].id = id
  <2>1. Len(<<m, n>>) = 2 /\ 1 .. 2 = {1, 2} /\ <<m, n>>[1] = m /\ <<m, n>>[2] = n
    OBVIOUS
  <2>2. <<m, n>> \in Seq(CP!Messages)
    OBVIOUS
  <2>3. QED BY <2>1, <2>2
<1>3. ASSUME NEW m \in CP!Messages, NEW n \in CP!Messages, NEW kinds
      PROVE  Ahead(<<m, n>>, id, kinds) <=> (m.id = id /\ Kind(m) \in kinds) \/ (n.id = id /\ Kind(n) \in kinds)
  <2>1. Len(<<m, n>>) = 2 /\ 1 .. 2 = {1, 2} /\ <<m, n>>[1] = m /\ <<m, n>>[2] = n
    OBVIOUS
  <2>2. QED BY <2>1 DEF Ahead
<1>4. ASSUME NEW m \in CP!Messages
      PROVE  /\ <<m>> \in Seq(CP!Messages)
             /\ (\A i \in 1 .. Len(<<m>>) : <<m>>[i].id = id) <=> m.id = id
  OBVIOUS
<1>5. CP!Ack(id) \in CP!Messages /\ CP!Ack(id).id = id /\ Kind(CP!Ack(id)) = "ACK"
  BY Bounds DEF CP!Ack, CP!Messages, Kind
<1>6. ASSUME NEW q \in Nat \ {0}, NEW closed \in BOOLEAN
      PROVE  /\ CP!Fill(id, q, closed) \in CP!Messages /\ CP!Fill(id, q, closed).id = id
             /\ Kind(CP!Fill(id, q, closed)) = IF closed THEN "FILLED" ELSE "FILL"
  BY Bounds DEF CP!Fill, CP!Messages, Kind
<1>7. "ACK" \notin Forgets /\ "FILL" \notin Forgets /\ "FILLED" \notin Forgets /\ qty \in Nat \ {0}
  BY Bounds DEF Forgets, Refusals
<1>8. CASE CP!Emit(<<CP!Reject(id, "INVALID_ORDER")>>) /\ UNCHANGED <<resting, executed>>
  <2>1. PICK m : m = CP!Reject(id, "INVALID_ORDER")
    OBVIOUS
  <2>2. m \in CP!Messages /\ m.id = id /\ Kind(m) = "REJECT"
    BY <2>1, Bounds DEF CP!Reject, CP!Messages, CP!Reasons, Kind
  <2>3. \A kinds : Ahead(<<m>>, id, kinds) <=> "REJECT" \in kinds
    BY <2>2, AheadOne
  <2>4. stream' = stream \o <<m>>
    BY <1>8, <2>1 DEF CP!Emit
  <2>5. QED BY <1>4, <1>8, <2>2, <2>3, <2>4
<1>9. ASSUME NEW now \in 0 .. qty,
             resting' = [resting EXCEPT ![id] = qty - now], executed' = [executed EXCEPT ![id] = now],
             NEW msgs \in CP!AnswersToNew(id, now, qty - now), CP!Emit(msgs)
      PROVE  /\ msgs \in Seq(CP!Messages) /\ stream' = stream \o msgs
             /\ \A i \in 1 .. Len(msgs) : msgs[i].id = id
             /\ ~Ahead(msgs, id, Forgets)
             /\ now = qty => Ahead(msgs, id, {"FILLED"})
  <2>1. stream' = stream \o msgs
    BY <1>9 DEF CP!Emit
  <2>2. now \in Nat /\ qty - now \in Nat
    BY <1>7
  <2>3. \/ now = 0 /\ msgs = <<CP!Ack(id)>>
        \/ now > 0 /\ qty - now > 0 /\ msgs = <<CP!Fill(id, now, FALSE), CP!Ack(id)>>
        \/ now > 0 /\ msgs = <<CP!Fill(id, now, TRUE)>>
        \/ now > 1 /\ msgs = <<CP!Fill(id, 1, FALSE), CP!Fill(id, now - 1, TRUE)>>
    <3>1. CASE now = 0
      <4>1. ~(now > 0 /\ qty - now > 0) /\ ~(now = 1 /\ qty - now = 0)
        BY <3>1
      <4>2. CP!AnswersToNew(id, now, qty - now) = {<<CP!Ack(id)>>}
        BY <3>1, <4>1, Zenon DEF CP!AnswersToNew
      <4>3. QED BY <1>9, <3>1, <4>2
    <3>2. CASE now > 0 /\ qty - now > 0
      <4>1. now # 0 /\ ~(now = 1 /\ qty - now = 0)
        BY <2>2, <3>2
      <4>2. CP!AnswersToNew(id, now, qty - now) = {<<CP!Fill(id, now, FALSE), CP!Ack(id)>>}
        BY <3>2, <4>1, Zenon DEF CP!AnswersToNew
      <4>3. QED BY <1>9, <3>2, <4>2
    <3>3. CASE now = 1 /\ qty - now = 0
      <4>1. now # 0 /\ ~(now > 0 /\ qty - now > 0) /\ now > 0
        BY <3>3
      <4>2. CP!AnswersToNew(id, now, qty - now) = {<<CP!Fill(id, 1, TRUE)>>}
        BY <3>3, <4>1, Zenon DEF CP!AnswersToNew
      <4>3. QED BY <1>9, <3>3, <4>1, <4>2
    <3>4. CASE now > 1 /\ qty - now = 0
      <4>1. now # 0 /\ ~(now > 0 /\ qty - now > 0) /\ ~(now = 1 /\ qty - now = 0) /\ now > 0
        BY <2>2, <3>4
      <4>2. CP!AnswersToNew(id, now, qty - now)
              = {<<CP!Fill(id, now, TRUE)>>, <<CP!Fill(id, 1, FALSE), CP!Fill(id, now - 1, TRUE)>>}
        BY <4>1, Zenon DEF CP!AnswersToNew
      <4>3. QED BY <1>9, <3>4, <4>1, <4>2
    <3>5. now = 0 \/ (now > 0 /\ qty - now > 0) \/ (now = 1 /\ qty - now = 0) \/ (now > 1 /\ qty - now = 0)
      BY <2>2
    <3>6. QED BY <3>1, <3>2, <3>3, <3>4, <3>5
  <2>4. CASE now = 0 /\ msgs = <<CP!Ack(id)>>
    BY <1>4, <1>5, <1>7, <2>1, <2>4, AheadOne
  <2>5. CASE now > 0 /\ qty - now > 0 /\ msgs = <<CP!Fill(id, now, FALSE), CP!Ack(id)>>
    <3>1. now \in Nat \ {0} /\ now # qty
      BY <1>7, <2>2, <2>5
    <3>2. PICK m \in CP!Messages, n \in CP!Messages :
             msgs = <<m, n>> /\ m.id = id /\ n.id = id /\ Kind(m) = "FILL" /\ Kind(n) = "ACK"
      BY <1>5, <1>6, <2>5, <3>1
    <3>3. QED BY <1>2, <1>3, <1>7, <2>1, <3>1, <3>2
  <2>6. CASE now > 0 /\ msgs = <<CP!Fill(id, now, TRUE)>>
    <3>1. now \in Nat \ {0}
      BY <2>2, <2>6
    <3>2. PICK m \in CP!Messages : msgs = <<m>> /\ m.id = id /\ Kind(m) = "FILLED"
      BY <1>6, <2>6, <3>1
    <3>3. QED BY <1>4, <1>7, <2>1, <3>2, AheadOne
  <2>7. CASE now > 1 /\ msgs = <<CP!Fill(id, 1, FALSE), CP!Fill(id, now - 1, TRUE)>>
    <3>1. now - 1 \in Nat \ {0} /\ 1 \in Nat \ {0}
      BY <2>2, <2>7
    <3>2. PICK m \in CP!Messages, n \in CP!Messages :
             msgs = <<m, n>> /\ m.id = id /\ n.id = id /\ Kind(m) = "FILL" /\ Kind(n) = "FILLED"
      BY <1>6, <2>7, <3>1
    <3>3. QED BY <1>2, <1>3, <1>7, <2>1, <3>2
  <2>8. QED BY <2>3, <2>4, <2>5, <2>6, <2>7
<1>10. QED BY <1>1, <1>8, <1>9 DEF CP!ExchangeTakesNew

\* More kinds, more messages of them.
LEMMA AheadMore ==
    ASSUME NEW msgs, NEW id, NEW kinds, NEW more, kinds \subseteq more, Ahead(msgs, id, kinds)
    PROVE  Ahead(msgs, id, more)
BY DEF Ahead

\* A new order: what it will come to is what is asked for, or it is refused.
LEMMA SendNewVInv ==
    ASSUME OInv, VInv, NEW id \in OrderIds, NEW qty \in OrderQty, NEW price \in Price,
           NEW s \in Side, SendNew(id, s, qty, price)
    PROVE  VInv'
<1>1. /\ id = lastId + 1 /\ Ready
      /\ UNCHANGED <<exposure, open, isShutdown, cancelling, sweep, outer, doubtful, spared>>
      /\ \/ call' = Idle
         \/ /\ call' = [op |-> "new", id |-> id, order |-> [side |-> s, qty |-> qty]]
            /\ ~isShutdown
  BY DEF SendNew, SendNewOrder, Request, Ready, CheckNewOrder, Idle
<1>2. CASE call' = Idle
  <2>1. UNCHANGED clientVars /\ call' = call
    BY <1>1, <1>2 DEF SendNew, HandsOver, Ready
  <2>2. QED BY <1>1, <2>1, StutterVInv
<1>3. CASE call' # Idle
  <2>1. /\ CP!SendNewOrder(id, qty) /\ ~isShutdown
        /\ call' = [op |-> "new", id |-> id, order |-> [side |-> s, qty |-> qty]]
    BY <1>1, <1>3, SameSteps DEF SendNew, HandsOver
  <2>2. /\ waiting' = [op |-> "new", id |-> id] /\ returned' = None /\ lastId' = id
        /\ UNCHANGED <<connected, reported>>
    BY <2>1, SameReads DEF CP!SendNewOrder, CP!Waits, CP!client
  <2>3. /\ ~InFlight /\ cancelling = {} /\ sweep = {} /\ outer = NoFrame /\ spared = {}
        /\ call = Idle /\ InFlight' /\ lastId \in Nat /\ OrderIds \subseteq Nat
    BY <1>1, <2>1, Bounds, ViewTypes DEF Ready, InFlight, Idle, VInv, Frames
  <2>4. Frames'
    <3>1. \A x \in OrderIds : x > lastId' => open'[x] = NoOrder /\ exposure'.pending[x] = NoOrder
      <4>1. \A x \in OrderIds : x > lastId' => x > lastId
        BY <1>1, <2>2, <2>3
      <4>2. QED BY <1>1, <4>1 DEF VInv, Frames
    <3>2. call'.id <= lastId'
      BY <1>1, <2>1, <2>2, <2>3
    <3>3. QED BY <1>1, <2>1, <2>3, <3>1, <3>2 DEF Frames, NoFrame
  <2>5. AllGone'
    BY <1>1, <2>1, <2>2, <2>3 DEF AllGone, Gone, NoFrame, None, Client!None
  <2>6. ASSUME connected, NEW x \in Untroubled' PROVE View(x)'
    <3>1. x \in OrderIds /\ View(x)
      BY <1>1, <2>6 DEF VInv, Untroubled
    <3>2. SweepCovers(x)'
      BY <1>1, <2>1 DEF SweepCovers
    <3>3. PICK msgs \in Seq(CP!Messages) :
              /\ stream' = stream \o msgs /\ \A i \in 1 .. Len(msgs) : msgs[i].id = id
              /\ \/ /\ UNCHANGED <<resting, executed>>
                    /\ \A kinds : Ahead(msgs, id, kinds) <=> "REJECT" \in kinds
                 \/ \E now \in 0 .. qty :
                       /\ resting' = [resting EXCEPT ![id] = qty - now]
                       /\ executed' = [executed EXCEPT ![id] = now]
                       /\ ~Ahead(msgs, id, Forgets)
                       /\ now = qty => Ahead(msgs, id, {"FILLED"})
      BY <2>1, <2>6, NewAnswer
    <3>4. /\ stream \in Seq(CP!Messages) /\ resting \in [OrderIds -> Nat]
          /\ executed \in [OrderIds -> Nat] /\ reported \in [OrderIds -> Nat]
      BY ViewTypes
    <3>5. CASE x # id
      <4>1. \A kinds : Ahead(stream', x, kinds) <=> Ahead(stream, x, kinds)
        BY <3>3, <3>4, <3>5, OthersAhead
      <4>2. resting'[x] = resting[x] /\ executed'[x] = executed[x]
        BY <3>1, <3>3, <3>4, <3>5
      <4>3. ~NewOf(x) /\ ~ModifyOf(x) /\ ~NewOf(x)' /\ ~ModifyOf(x)'
        BY <2>1, <2>3, <3>5 DEF NewOf, ModifyOf, Idle
      <4>4. QED BY <1>1, <2>2, <3>1, <3>2, <4>1, <4>2, <4>3, Elsewhere
    <3>6. CASE x = id
      <4>1. executed[id] = 0 /\ resting[id] = 0 /\ reported[id] = 0 /\ CP!Silent(stream, id)
        <5>1. id > lastId
          BY <1>1, <2>3
        <5>2. executed[id] = 0 /\ resting[id] = 0 /\ CP!Silent(stream, id)
          BY <5>1, Bounds DEF OInv, KInv, CP!FInv, CP!Counted
        <5>3. reported[id] <= executed[id]
          BY ViewTypes
        <5>4. QED BY <3>4, <5>2, <5>3
      <4>2. \A kinds : Ahead(stream', id, kinds) <=> Ahead(msgs, id, kinds)
        <5>1. \A kinds : ~Ahead(stream, id, kinds)
          BY <4>1 DEF Ahead, CP!Silent
        <5>2. QED BY <3>3, <3>4, <5>1, AheadConcat
      <4>3. NewOf(id)' /\ ~ModifyOf(id)' /\ call'.order.qty = qty
        BY <2>1 DEF NewOf, ModifyOf
      <4>4. RestsOpen(id)' /\ PendingIsDue(id)' /\ ModifyIsDue(id)'
        BY <4>3 DEF RestsOpen, PendingIsDue, ModifyIsDue
      <4>5. open'[id] = NoOrder /\ exposure'.pending[id] = NoOrder
        <5>1. id > lastId
          BY <1>1, <2>3
        <5>2. QED BY <1>1, <5>1 DEF VInv, Frames
      <4>6. CASE UNCHANGED <<resting, executed>> /\ \A kinds : Ahead(msgs, id, kinds) <=> "REJECT" \in kinds
        <5>1. resting'[id] = 0 /\ executed'[id] = 0 /\ reported'[id] = 0
          BY <2>2, <4>1, <4>6
        <5>2. RefusedInFlight(id)' /\ DoneIsTold(id)'
          BY <5>1 DEF RefusedInFlight, DoneIsTold
        <5>3. Ahead(stream', id, Forgets) /\ ~Ahead(stream', id, {"CLOSE", "UNKNOWN"})
          BY <4>2, <4>6 DEF Forgets, Refusals
        <5>4. NewIsDue(id)'
          BY <2>2, <4>5, <5>1, <5>3 DEF NewIsDue
        <5>5. QED BY <3>2, <3>6, <4>4, <5>2, <5>4 DEF View
      <4>7. ASSUME NEW now \in 0 .. qty, resting' = [resting EXCEPT ![id] = qty - now],
                   executed' = [executed EXCEPT ![id] = now], ~Ahead(msgs, id, Forgets),
                   now = qty => Ahead(msgs, id, {"FILLED"})
            PROVE  View(id)'
        <5>1. qty \in Nat /\ now \in Nat /\ qty - now \in Nat
          BY Bounds
        <5>2. resting'[id] = qty - now /\ executed'[id] = now /\ reported'[id] = 0
          BY <2>2, <3>4, <4>1, <4>7
        <5>3. /\ ~Ahead(stream', id, Forgets) /\ ~Ahead(stream', id, Refusals)
              /\ ~Ahead(stream', id, {"CLOSE", "UNKNOWN"})
          BY <4>2, <4>7, AheadMore DEF Forgets, Refusals
        <5>4. RefusedInFlight(id)'
          BY <5>3 DEF RefusedInFlight
        <5>5. DoneIsTold(id)'
          <6>1. resting'[id] = 0 => now = qty
            BY <5>1, <5>2
          <6>2. QED BY <4>2, <4>7, <6>1 DEF DoneIsTold
        <5>6. Due(id)' = qty
          <6>1. Due(id)' = (qty - now) + (now - 0)
            BY <5>2 DEF Due
          <6>2. QED BY <5>1, <6>1
        <5>7. NewIsDue(id)'
          BY <2>2, <4>3, <4>5, <5>3, <5>6 DEF NewIsDue
        <5>8. QED BY <3>2, <3>6, <4>4, <5>4, <5>5, <5>7 DEF View
      <4>8. QED BY <3>3, <3>6, <4>6, <4>7
    <3>7. QED BY <3>5, <3>6
  <2>7. QED BY <2>2, <2>4, <2>5, <2>6 DEF VInv
<1>4. QED BY <1>2, <1>3

\* A message is of the kind that its type and its flags say.
LEMMA KindIs ==
    ASSUME NEW m \in CP!Messages
    PROVE  /\ m.id \in OrderIds
           /\ Kind(m) = "FILLED" <=> m.type = "FILL" /\ m.closed
           /\ Kind(m) = "FILL" <=> m.type = "FILL" /\ ~m.closed
           /\ Kind(m) = "UNKNOWN" <=> m.type = "REJECT" /\ m.reason = "UNKNOWN_ORDER_ID"
           /\ Kind(m) = "REJECT" <=> m.type = "REJECT" /\ m.reason # "UNKNOWN_ORDER_ID"
           /\ Kind(m) = "CLOSE" <=> m.type = "CLOSE"
           /\ Kind(m) = "ACK" <=> m.type = "ACK"
<1>1. m.type \in {"ACK", "CLOSE", "REJECT", "FILL"} /\ m.id \in OrderIds
  BY Bounds DEF CP!Messages
<1>2. QED BY <1>1 DEF Kind

\* Nothing works of an order that is about to be told closed or filled.
LEMMA FinishedAhead ==
    ASSUME OInv, connected, NEW id \in OrderIds, Ahead(stream, id, {"CLOSE", "FILLED"})
    PROVE  resting[id] = 0
<1>1. PICK i \in 1 .. Len(stream) : stream[i].id = id /\ Kind(stream[i]) \in {"CLOSE", "FILLED"}
  BY DEF Ahead
<1>2. CP!Finishes(stream[i], id)
  <2>1. stream[i] \in CP!Messages
    BY ViewTypes
  <2>2. QED BY <1>1, <2>1, KindIs DEF CP!Finishes
<1>3. CP!Tale(stream, id, reported[id], executed[id], resting[id])
  BY Bounds DEF OInv, KInv, CP!FInv, CP!Tales
<1>4. QED BY <1>2, <1>3 DEF CP!Tale

\* What has executed is what was told and the fills ahead.
LEMMA FillsAhead ==
    ASSUME OInv, connected, NEW id \in OrderIds
    PROVE  CP!FillsIn(stream, id) \in Nat /\ executed[id] = reported[id] + CP!FillsIn(stream, id)
<1>1. CP!Tale(stream, id, reported[id], executed[id], resting[id])
  BY Bounds DEF OInv, KInv, CP!FInv, CP!Tales
<1>2. CP!FillsIn(stream, id) \in Nat
  BY ViewTypes, Bounds, CP!FillsType
<1>3. QED BY <1>1, <1>2 DEF CP!Tale

\* A modify: its answer is put behind what is ahead.
LEMMA ModifyVInv ==
    ASSUME OInv, VInv, NEW id \in OrderIds, NEW qty \in OrderQty, NEW price \in Price,
           Modify(id, qty, price)
    PROVE  VInv'
<1>1. /\ Ready /\ open[id] # NoOrder
      /\ UNCHANGED <<exposure, open, isShutdown, cancelling, sweep, outer, doubtful, spared>>
      /\ \/ call' = call
         \/ /\ call' = [op |-> "modify", id |-> id, order |-> [side |-> open[id].side, qty |-> qty]]
            /\ ~isShutdown
  BY DEF Modify, ModifyOrder, Request, Ready, CheckModifyOrder, Idle, histories
<1>2. CASE call' = Idle
  <2>1. UNCHANGED clientVars /\ call' = call
    BY <1>1, <1>2 DEF Modify, HandsOver, Ready
  <2>2. QED BY <1>1, <2>1, StutterVInv
<1>3. CASE call' # Idle
  <2>1. /\ CP!ModifyOrder(id, qty) /\ ~isShutdown
        /\ call' = [op |-> "modify", id |-> id, order |-> [side |-> open[id].side, qty |-> qty]]
    BY <1>1, <1>3, SameSteps DEF Modify, HandsOver, Ready
  <2>2. /\ waiting' = [op |-> "modify", id |-> id] /\ returned' = None /\ waiting = None
        /\ id <= lastId /\ UNCHANGED <<connected, reported, lastId>>
    BY <2>1, SameReads DEF CP!ModifyOrder, CP!Waits, CP!client, CP!caller, CP!Free
  <2>3. /\ ~InFlight /\ cancelling = {} /\ sweep = {} /\ outer = NoFrame /\ spared = {}
        /\ call = Idle /\ InFlight'
    BY <1>1, <2>1 DEF Ready, InFlight, Idle, VInv, Frames
  <2>4. Frames'
    BY <1>1, <2>1, <2>2, <2>3 DEF VInv, Frames, NoFrame
  <2>5. AllGone'
    BY <1>1, <2>1, <2>2, <2>3 DEF AllGone, Gone, NoFrame, None, Client!None
  <2>6. ASSUME connected, NEW x \in Untroubled' PROVE View(x)'
    <3>1. x \in OrderIds /\ View(x)
      BY <1>1, <2>6 DEF VInv, Untroubled
    <3>2. SweepCovers(x)'
      BY <1>1, <2>1 DEF SweepCovers
    <3>3. /\ stream \in Seq(CP!Messages) /\ resting \in [OrderIds -> Nat]
          /\ executed \in [OrderIds -> Nat] /\ reported \in [OrderIds -> Nat]
          /\ qty \in Nat \ {0} /\ executed' = executed
      BY <2>1, <2>6, ViewTypes, Bounds DEF CP!ModifyOrder, CP!Sends, CP!ExchangeTakesModify
    <3>4. PICK m \in CP!Messages :
              /\ stream' = stream \o <<m>> /\ m.id = id
              /\ \/ Kind(m) = "ACK" /\ resting[id] > 0 /\ resting' = [resting EXCEPT ![id] = qty]
                 \/ Kind(m) \in Refusals /\ resting' = resting
      <4>1. CP!ExchangeTakesModify(id, qty)
        BY <2>1, <2>6 DEF CP!ModifyOrder, CP!Sends
      <4>2. /\ CP!Ack(id) \in CP!Messages /\ CP!Ack(id).id = id /\ Kind(CP!Ack(id)) = "ACK"
            /\ \A r \in CP!Reasons :
                  /\ CP!Reject(id, r) \in CP!Messages /\ CP!Reject(id, r).id = id
                  /\ Kind(CP!Reject(id, r)) \in Refusals
        BY Bounds DEF CP!Ack, CP!Reject, CP!Messages, CP!Reasons, Kind, Refusals
      <4>3. QED BY <4>1, <4>2 DEF CP!ExchangeTakesModify, CP!Emit, CP!Reasons
    <3>5. <<m>> \in Seq(CP!Messages)
      OBVIOUS
    <3>6. CASE x # id
      <4>1. \A i \in 1 .. Len(<<m>>) : <<m>>[i].id # x
        BY <3>4, <3>6
      <4>2. \A kinds : Ahead(stream', x, kinds) <=> Ahead(stream, x, kinds)
        BY <3>3, <3>4, <3>5, <4>1, OthersAhead
      <4>3. resting'[x] = resting[x] /\ executed'[x] = executed[x]
        BY <3>1, <3>3, <3>4, <3>6
      <4>4. ~NewOf(x) /\ ~ModifyOf(x) /\ ~NewOf(x)' /\ ~ModifyOf(x)'
        BY <2>1, <2>3, <3>6 DEF NewOf, ModifyOf, Idle
      <4>5. QED BY <1>1, <2>2, <3>1, <3>2, <4>2, <4>3, <4>4, Elsewhere
    <3>7. CASE x = id
      <4>1. ModifyOf(id)' /\ ~NewOf(id)' /\ call'.order.qty = qty /\ open'[id] # NoOrder
        BY <1>1, <2>1 DEF NewOf, ModifyOf
      <4>2. RestsOpen(id)' /\ PendingIsDue(id)' /\ RefusedInFlight(id)' /\ NewIsDue(id)'
        BY <2>2, <4>1 DEF RestsOpen, PendingIsDue, RefusedInFlight, NewIsDue
      <4>3. \A kinds : Ahead(stream', id, kinds) <=> Ahead(stream, id, kinds) \/ Kind(m) \in kinds
        BY <3>3, <3>4, <3>5, AheadConcat, AheadOne
      <4>4. DoneIsTold(id)'
        <5>1. resting'[id] = 0 => resting[id] = 0
          BY <3>3, <3>4
        <5>2. QED BY <2>2, <3>1, <3>3, <3>7, <4>3, <5>1 DEF View, DoneIsTold
      <4> PICK before \in Seq(CP!Messages) : before = stream
        BY <3>3
      <4>5. AnswerAhead(id, before, m, <<>>)'
        <5>1. stream' = (before \o <<m>>) \o <<>>
          <6>1. before \o <<m>> \in Seq(CP!Messages)
            BY <3>5, ConcatProperties
          <6>2. QED BY <3>4, <6>1, ConcatEmptySeq
        <5>2. CASE Kind(m) = "ACK" /\ resting[id] > 0 /\ resting' = [resting EXCEPT ![id] = qty]
          <6>1. ~Ahead(stream, id, Refusals)
            BY <2>2, <3>1, <3>7, <5>2 DEF View, RefusedInFlight, None, Client!None
          <6>2. ~Ahead(stream, id, {"CLOSE"})
            <7>1. ~Ahead(stream, id, {"CLOSE", "FILLED"})
              BY <2>6, <3>3, <5>2, FinishedAhead
            <7>2. QED BY <7>1, AheadMore
          <6>3. ~Ahead(stream, id, Forgets)
            BY <6>1, <6>2 DEF Ahead, Forgets
          <6>4. ~Ahead(stream', id, Forgets)
            BY <4>3, <5>2, <6>3 DEF Forgets, Refusals
          <6>5. Due(id)' = qty + CP!FillsIn(before, id)
            <7>1. PICK e, r, n : e = executed[id] /\ r = reported[id] /\ n = CP!FillsIn(before, id)
              OBVIOUS
            <7>2. Due(id)' = qty + (e - r)
              BY <2>2, <3>3, <5>2, <7>1 DEF Due
            <7>3. e = r + n /\ r \in Nat /\ n \in Nat
              BY <2>6, <3>3, <7>1, FillsAhead
            <7>4. QED BY <3>3, <7>1, <7>2, <7>3
          <6>6. QED BY <3>4, <4>1, <5>1, <5>2, <6>4, <6>5 DEF AnswerAhead
        <5>3. CASE Kind(m) \in Refusals
          BY <3>4, <5>1, <5>3 DEF AnswerAhead
        <5>4. QED BY <3>4, <5>2, <5>3
      <4>6. ModifyIsDue(id)'
        <5>1. <<>> \in Seq(CP!Messages)
          OBVIOUS
        <5>2. QED BY <2>2, <3>3, <4>5, <5>1 DEF ModifyIsDue
      <4>7. QED BY <3>2, <3>7, <4>2, <4>4, <4>6 DEF View
    <3>8. QED BY <3>6, <3>7
  <2>7. QED BY <2>2, <2>4, <2>5, <2>6 DEF VInv
<1>4. QED BY <1>2, <1>3

\* A closing fill ahead is a fill that is not yet told.
LEMMA FilledIsUntold ==
    ASSUME NEW msgs \in Seq(CP!Messages), NEW id, Ahead(msgs, id, {"FILLED"})
    PROVE  CP!FillsIn(msgs, id) > 0
<1>1. PICK i \in 1 .. Len(msgs) : msgs[i].id = id /\ Kind(msgs[i]) = "FILLED"
  BY DEF Ahead
<1> DEFINE f == [j \in 1 .. Len(msgs) |-> CP!FillQty(msgs[j], id)]
<1>2. msgs[i] \in CP!Messages
  OBVIOUS
<1>3. msgs[i].type = "FILL" /\ msgs[i].qty \in Nat \ {0}
  BY <1>1, <1>2, KindIs DEF CP!Messages
<1>4. f[i] > 0
  BY <1>1, <1>3 DEF CP!FillQty
<1>5. /\ \A j \in 1 .. Len(msgs) : f[j] \in Nat
      /\ CP!FillsIn(msgs, id) = SumFunctionOnSet(f, 1 .. Len(msgs))
      /\ CP!FillsIn(msgs, id) \in Nat
  <2>1. ASSUME NEW g, NEW S PROVE SumFunctionOnSet(g, S) = CP!SumFunctionOnSet(g, S)
    BY DEF SumFunctionOnSet, CP!SumFunctionOnSet, FoldFunctionOnSet, CP!FoldFunctionOnSet,
       MapThenFoldSet, CP!MapThenFoldSet
  <2>2. /\ \A j \in 1 .. Len(msgs) : CP!FillQty(msgs[j], id) \in Nat
        /\ CP!FillsIn(msgs, id) = CP!SumFunctionOnSet(f, 1 .. Len(msgs))
        /\ CP!FillsIn(msgs, id) \in Nat
    BY Bounds, CP!FillsType
  <2>3. \A j \in 1 .. Len(msgs) : f[j] \in Nat
    BY <2>2
  <2> HIDE DEF f
  <2>4. QED BY <2>1, <2>2, <2>3
<1>6. IsFiniteSet(1 .. Len(msgs))
  BY LenProperties, CountFinite
<1> HIDE DEF f
<1>7. f[i] <= SumFunctionOnSet(f, 1 .. Len(msgs))
  BY <1>5, <1>6, SumNat
<1>8. f[i] \in Nat
  BY <1>5
<1>9. QED BY <1>4, <1>5, <1>7, <1>8

\* What a read does to the client, whatever the message,
LEMMA ReadCounts ==
    ASSUME OInv, ReadResponse, NEW m, m = Head(stream)
    PROVE  /\ m \in CP!Messages /\ m.id \in OrderIds /\ m.id <= lastId
           /\ stream \in Seq(CP!Messages) /\ stream # <<>>
           /\ stream' = Tail(stream) /\ stream' \in Seq(CP!Messages)
           /\ connected /\ UNCHANGED <<resting, executed, connected, lastId>>
           /\ \A x \in OrderIds :
                 /\ CP!FillQty(m, x) \in Nat /\ reported'[x] \in Nat
                 /\ reported'[x] = reported[x] + CP!FillQty(m, x) /\ reported'[x] <= executed[x]
                 /\ CP!Finishes(m, x) => resting[x] = 0 /\ reported'[x] = executed[x]
           /\ \A x, kinds : Ahead(stream, x, kinds) <=>
                               (m.id = x /\ Kind(m) \in kinds) \/ Ahead(stream', x, kinds)
<1>1. /\ CP!Absorb(m) /\ stream # <<>> /\ stream' = Tail(stream)
      /\ UNCHANGED <<resting, executed, connected, lastId>>
  BY SameReads DEF ReadResponse
<1>2. /\ CP!TInv /\ CP!Typed /\ CP!FInv /\ CP!Counted /\ CP!SentOnly
      /\ CP!Tales(stream, reported, executed, resting) /\ connected
  BY <1>1 DEF OInv, KInv, CP!TInv, CP!FInv
<1>3. /\ m \in CP!Messages /\ m.id \in OrderIds /\ stream \in Seq(CP!Messages)
      /\ \A x \in OrderIds : reported'[x] \in Nat /\ reported'[x] <= executed[x]
  BY ReadMessage DEF OInv
<1>4. \A x \in OrderIds :
        /\ reported'[x] = reported[x] + CP!FillQty(m, x)
        /\ CP!Finishes(m, x) => resting[x] = 0 /\ reported'[x] = executed[x]
  BY <1>1, <1>2, Bounds, CP!ReadTales
<1>5. \A x : CP!FillQty(m, x) \in Nat
  BY <1>3 DEF CP!FillQty, CP!Messages
<1>6. m.id <= lastId
  <2>1. m = stream[1] /\ 1 \in 1 .. Len(stream)
    BY <1>1, <1>3, HeadTailProperties, LenProperties, EmptySeq
  <2>2. ~(m.id > lastId)
    BY <1>2, <1>3, <2>1, Bounds DEF CP!Counted, CP!Silent
  <2>3. m.id \in Nat /\ lastId \in Nat
    BY <1>3, Bounds, ViewTypes
  <2>4. QED BY <2>2, <2>3
<1>7. /\ stream' \in Seq(CP!Messages)
      /\ \A x, kinds : Ahead(stream, x, kinds) <=>
                          (m.id = x /\ Kind(m) \in kinds) \/ Ahead(stream', x, kinds)
  BY <1>1, <1>3, HeadTailProperties, AheadTail
<1>8. QED BY <1>1, <1>2, <1>3, <1>4, <1>5, <1>6, <1>7

\* to the gate,
LEMMA ReadGate ==
    ASSUME OInv, ReadResponse, NEW m, m = Head(stream)
    PROVE  /\ UNCHANGED <<call, cancelling>>
           /\ \/ UNCHANGED <<isShutdown, sweep>>
              \/ ~isShutdown /\ isShutdown' /\ sweep' = OpenIds'
           /\ \A x \in OrderIds \ {m.id} :
                 open'[x] = open[x] /\ exposure'.pending[x] = exposure.pending[x]
           /\ \A x \in OrderIds : /\ open'[x] \in {open[x], NoOrder}
                                  /\ exposure.pending[x] = NoOrder => exposure'.pending[x] = NoOrder
           /\ m.type \in {"REJECT", "CLOSE"} =>
                 open'[m.id] = NoOrder /\ exposure'.pending[m.id] = NoOrder
           /\ m.type = "ACK" \/ (m.type = "FILL" /\ open[m.id] = NoOrder) => UNCHANGED <<open, exposure>>
           /\ m.type = "FILL" /\ open[m.id] # NoOrder =>
                 /\ open' = IF m.closed THEN [open EXCEPT ![m.id] = NoOrder] ELSE open
                 /\ exposure' = OnOrderFilled(exposure, m.id, m.qty)
<1>1. CallbackOf(m) /\ m \in CP!Messages /\ m.id \in OrderIds
  BY ReadCounts DEF ReadResponse
<1>2. /\ open \in [OrderIds -> Order \cup {NoOrder}]
      /\ exposure.pending \in [OrderIds -> Order \cup {NoOrder}]
  BY ViewTypes
<1>3. CASE m.type = "FILL" /\ open[m.id] # NoOrder
  <2>1. PICK price \in Price : OnFill(m.id, m.qty, price, m.closed)
    BY <1>1, <1>3 DEF CallbackOf
  <2>2. /\ open' = IF m.closed THEN [open EXCEPT ![m.id] = NoOrder] ELSE open
        /\ exposure' = OnOrderFilled(exposure, m.id, m.qty)
        /\ UNCHANGED <<call, cancelling>>
        /\ UNCHANGED <<isShutdown, sweep>> \/ (~isShutdown /\ isShutdown' /\ sweep' = OpenIds')
    BY <2>1 DEF OnFill, CheckAndShutdown
  <2>3. \A x \in OrderIds : /\ x # m.id => open'[x] = open[x] /\ exposure'.pending[x] = exposure.pending[x]
                            /\ open'[x] \in {open[x], NoOrder}
                            /\ exposure.pending[x] = NoOrder => exposure'.pending[x] = NoOrder
    BY <1>1, <1>2, <2>2 DEF OnOrderFilled
  <2>4. QED BY <1>3, <2>2, <2>3
<1>4. CASE m.type \in {"REJECT", "CLOSE"}
  <2>1. Forget(m.id) /\ UNCHANGED <<isShutdown, call, cancelling, sweep>>
    BY <1>1, <1>4 DEF CallbackOf, OnReject, OnClose, frames
  <2>2. open' = [open EXCEPT ![m.id] = NoOrder] /\ exposure' = OnOrderRemoved(exposure, m.id)
    BY <2>1 DEF Forget
  <2>3. \A x \in OrderIds : exposure'.pending[x] = IF x = m.id THEN NoOrder ELSE exposure.pending[x]
    BY <1>1, <1>2, <2>2 DEF OnOrderRemoved
  <2>4. \A x \in OrderIds : open'[x] = IF x = m.id THEN NoOrder ELSE open[x]
    BY <1>2, <2>2
  <2>5. QED BY <1>1, <1>4, <2>1, <2>3, <2>4
<1>5. CASE m.type = "ACK" \/ (m.type = "FILL" /\ open[m.id] = NoOrder)
  <2>1. UNCHANGED vars
    BY <1>1, <1>5 DEF CallbackOf
  <2>2. QED BY <1>5, <2>1 DEF vars, frames
<1>6. m.type \in {"ACK", "CLOSE", "REJECT", "FILL"}
  BY <1>1 DEF CP!Messages
<1>7. QED BY <1>3, <1>4, <1>5, <1>6

\* and to the wait that reads it.
LEMMA ReadWait ==
    ASSUME OInv, ReadResponse, NEW m, m = Head(stream)
    PROVE  /\ waiting \in Waits /\ returned = None
           /\ Interrupts => waiting' = None /\ returned' = None
           /\ outer' = outer \/ (Interrupts /\ outer' = After(m))
           /\ ~Interrupts =>
                 /\ UNCHANGED outer
                 /\ \/ /\ ~Client!EndsWell(m, waiting.id) /\ ~Client!EndsBadly(m, waiting.id)
                       /\ UNCHANGED <<waiting, returned>>
                    \/ /\ Client!EndsWell(m, waiting.id) \/ Client!EndsBadly(m, waiting.id)
                       /\ waiting' = None
                       /\ returned' = [op |-> waiting.op, id |-> waiting.id,
                                       ok |-> Client!EndsWell(m, waiting.id)]
           /\ After(m).waiting \in {waiting, None}
           /\ \/ After(m).returned = None
              \/ After(m).returned.op = waiting.op /\ After(m).returned.id = waiting.id
<1>1. waiting \in Waits /\ returned = None
  BY SameReads DEF OInv, KInv, ReadResponse, Client!Responding, None, Client!None, CP!FInv
<1>2. /\ IF Interrupts
         THEN outer' = After(m) /\ waiting' = None /\ returned' = None
         ELSE waiting' = After(m).waiting /\ returned' = After(m).returned /\ UNCHANGED outer
  BY DEF ReadResponse
<1>3. CASE Client!EndsWell(m, waiting.id) \/ Client!EndsBadly(m, waiting.id)
  <2>1. After(m) = [waiting |-> None, returned |-> [op |-> waiting.op, id |-> waiting.id,
                                                   ok |-> Client!EndsWell(m, waiting.id)]]
    BY <1>3 DEF After
  <2>2. QED BY <1>1, <1>2, <1>3, <2>1
<1>4. CASE ~(Client!EndsWell(m, waiting.id) \/ Client!EndsBadly(m, waiting.id))
  <2>1. After(m) = [waiting |-> waiting, returned |-> returned]
    BY <1>4 DEF After
  <2>2. QED BY <1>1, <1>2, <1>4, <2>1
<1>5. QED BY <1>3, <1>4

\* An order that the read leaves untroubled was, and the read misleads nobody about it.
LEMMA ReadUntroubled ==
    ASSUME OInv, VInv, ReadResponse, NEW m, m = Head(stream), NEW x \in Untroubled'
    PROVE  /\ x \in OrderIds /\ x \in Untroubled /\ View(x)
           /\ isShutdown' => ~NewOf(x) /\ ~ModifyOf(x)
           /\ ~isShutdown' => ~Interrupts
           /\ m.id = x /\ m.type = "FILL" => open[x] # NoOrder
           /\ m.id = x /\ m.type = "REJECT" => resting[x] = 0
           /\ waiting = [op |-> "modify", id |-> x] /\ Client!EndsWell(m, x) =>
                 m.type # "REJECT" /\ ~AnswerUnread(x)
<1>1. /\ doubtful' = doubtful \cup (IF Misleads(m) THEN {m.id} ELSE {})
                              \cup (IF MisleadsModify(m) THEN {waiting.id} ELSE {})
      /\ SparesInFlight
  BY DEF ReadResponse
<1>2. /\ UNCHANGED call /\ connected
      /\ UNCHANGED <<isShutdown, sweep>> \/ (~isShutdown /\ isShutdown')
  BY ReadCounts, ReadGate
<1>3. IF isShutdown THEN InFlight => spared = {call.id} ELSE spared = {}
  BY DEF VInv, Frames
<1>4. x \in OrderIds /\ x \notin doubtful' /\ x \notin spared'
  BY DEF Untroubled
<1>5. x \notin doubtful /\ ~(Misleads(m) /\ m.id = x) /\ ~(MisleadsModify(m) /\ waiting.id = x)
  BY <1>1, <1>4
<1>6. x \notin spared
  BY <1>1, <1>3, <1>4 DEF SparesInFlight
<1>7. isShutdown' => ~NewOf(x) /\ ~ModifyOf(x)
  <2>1. ASSUME isShutdown', InFlight PROVE spared' = {call.id}
    BY <1>1, <1>2, <1>3, <2>1 DEF SparesInFlight
  <2>2. QED BY <1>4, <2>1 DEF NewOf, ModifyOf, InFlight
<1>8. ~isShutdown' => ~Interrupts
  BY <1>2 DEF Interrupts
<1>9. x \in Untroubled /\ View(x)
  BY <1>2, <1>4, <1>5, <1>6 DEF Untroubled, VInv
<1>10. /\ m.id = x /\ m.type = "FILL" => open[x] # NoOrder
       /\ m.id = x /\ m.type = "REJECT" => resting[x] = 0
  <2>1. resting[x] \in Nat
    BY <1>4, ViewTypes
  <2>2. QED BY <1>5, <2>1 DEF Misleads
<1>11. waiting = [op |-> "modify", id |-> x] /\ Client!EndsWell(m, x) =>
          m.type # "REJECT" /\ ~AnswerUnread(x)
  BY <1>5 DEF MisleadsModify
<1>12. QED BY <1>4, <1>7, <1>8, <1>9, <1>10, <1>11

\* A fill leaves pending what is due after it; the order stays open while that is something.
LEMMA ReadPending ==
    ASSUME OInv, VInv, ReadResponse, NEW x \in Untroubled'
    PROVE  PendingIsDue(x)'
<1>1. PICK m : m = Head(stream)
  OBVIOUS
<1>2. /\ x \in OrderIds /\ View(x) /\ UNCHANGED <<call, resting, executed>>
      /\ m.id = x /\ m.type = "FILL" => open[x] # NoOrder
      /\ m \in CP!Messages /\ connected
  BY <1>1, ReadUntroubled, ReadCounts, ReadGate
<1> SUFFICES ASSUME ~NewOf(x), ~ModifyOf(x), ~Ahead(stream', x, Forgets)
             PROVE  IF open'[x] = NoOrder
                    THEN exposure'.pending[x] = NoOrder
                    ELSE /\ exposure'.pending[x] # NoOrder
                         /\ exposure'.pending[x].qty = Due(x)' /\ Due(x)' > 0
  BY <1>2 DEF PendingIsDue, NewOf, ModifyOf
<1>3. CASE m.id = x /\ m.type \in {"REJECT", "CLOSE"}
  BY <1>1, <1>3, ReadGate
<1>4. CASE ~(m.id = x /\ m.type \in {"REJECT", "CLOSE", "FILL"})
  <2>1. ~(m.id = x /\ Kind(m) \in Forgets)
    BY <1>2, <1>4, KindIs DEF Forgets, Refusals
  <2>2. ~Ahead(stream, x, Forgets)
    BY <1>1, <2>1, ReadCounts
  <2>3. m.type \in {"ACK", "CLOSE", "REJECT", "FILL"}
    BY <1>2 DEF CP!Messages
  <2>4. open'[x] = open[x] /\ exposure'.pending[x] = exposure.pending[x]
    <3>1. CASE m.id # x
      BY <1>1, <1>2, <3>1, ReadGate
    <3>2. CASE m.id = x
      BY <1>1, <1>4, <2>3, <3>2, ReadGate
    <3>3. QED BY <3>1, <3>2
  <2>5. Due(x)' = Due(x)
    <3>1. CP!FillQty(m, x) = 0
      BY <1>4 DEF CP!FillQty
    <3>2. reported'[x] = reported[x] + CP!FillQty(m, x) /\ reported[x] \in Nat
      <4>1. reported[x] \in Nat
        BY <1>2, ViewTypes
      <4>2. QED BY <1>1, <1>2, <4>1, ReadCounts
    <3>3. reported'[x] = reported[x]
      BY <3>1, <3>2
    <3>4. QED BY <1>2, <3>3 DEF Due
  <2>6. QED BY <1>2, <2>2, <2>4, <2>5 DEF View, PendingIsDue
<1>5. CASE m.id = x /\ m.type = "FILL"
  <2>1. ~Ahead(stream, x, Forgets) /\ Kind(m) = IF m.closed THEN "FILLED" ELSE "FILL"
    <3>1. Kind(m) = IF m.closed THEN "FILLED" ELSE "FILL"
      BY <1>5 DEF Kind
    <3>2. QED BY <1>1, <3>1, ReadCounts DEF Forgets, Refusals
  <2>2. /\ exposure.pending[x] # NoOrder
        /\ exposure.pending[x].qty = Due(x) /\ Due(x) > 0
    BY <1>2, <1>5, <2>1 DEF View, PendingIsDue
  <2>3. /\ open' = IF m.closed THEN [open EXCEPT ![x] = NoOrder] ELSE open
        /\ exposure' = OnOrderFilled(exposure, x, m.qty)
    BY <1>1, <1>2, <1>5, ReadGate
  <2>4. PICK r, e, t, q : r = resting[x] /\ e = executed[x] /\ t = reported[x] /\ q = m.qty
    OBVIOUS
  <2>5. /\ r \in Nat /\ e \in Nat /\ t \in Nat /\ q \in Nat \ {0} /\ t + q <= e
        /\ Due(x) = r + (e - t) /\ Due(x)' = r + (e - (t + q))
    <3>1. q \in Nat \ {0}
      BY <1>2, <1>5, <2>4 DEF CP!Messages
    <3>2. CP!FillQty(m, x) = q
      BY <1>5, <2>4 DEF CP!FillQty
    <3>3. reported'[x] = t + q /\ reported'[x] <= e
      BY <1>1, <1>2, <2>4, <3>2, ReadCounts
    <3>4. r \in Nat /\ e \in Nat /\ t \in Nat
      BY <1>2, <2>4, ViewTypes
    <3>5. QED BY <1>2, <2>4, <3>1, <3>3, <3>4 DEF Due
  <2>6. exposure.pending[x] \in Order /\ exposure.pending[x].qty \in 0 .. Word - 1
    <3>1. exposure.pending[x] \in Order
      BY <1>2, <2>2, ViewTypes
    <3>2. QED BY <3>1 DEF Order
  <2>7. Wrap(exposure.pending[x].qty - q) = Due(x)'
    <3>1. Due(x) - q = Due(x)' /\ Due(x)' \in 0 .. Word - 1
      BY <2>2, <2>5, <2>6, WordAssumption
    <3>2. Wrap(Due(x)') = Due(x)' /\ Due(x)' \in Int
      BY <3>1, WrapFits
    <3>3. QED BY <2>2, <3>1, <3>2
  <2>8. exposure'.pending[x] = IF Due(x)' = 0 THEN NoOrder
                               ELSE [exposure.pending[x] EXCEPT !.qty = Due(x)']
    <3>1. exposure.pending \in [OrderIds -> Order \cup {NoOrder}]
      BY ViewTypes
    <3>2. QED BY <1>2, <2>2, <2>3, <2>4, <2>7, <3>1 DEF OnOrderFilled
  <2>9. CASE m.closed
    <3>1. CP!Finishes(m, x)
      BY <1>5, <2>9 DEF CP!Finishes
    <3>2. r = 0 /\ reported'[x] = e
      BY <1>1, <1>2, <2>4, <3>1, ReadCounts
    <3>3. Due(x)' = 0
      BY <1>2, <2>4, <2>5, <3>2 DEF Due
    <3>4. open'[x] = NoOrder
      BY <1>2, <2>3, <2>9, ViewTypes
    <3>5. QED BY <2>8, <3>3, <3>4
  <2>10. CASE ~m.closed
    <3>1. open'[x] # NoOrder
      BY <1>2, <1>5, <2>3, <2>10
    <3>2. Due(x)' > 0
      <4> SUFFICES ASSUME ~(Due(x)' > 0) PROVE FALSE
        OBVIOUS
      <4>1. r = 0 /\ t < e /\ e = t + q
        BY <2>5
      <4>2. ~Ahead(stream, x, {"CLOSE"})
        BY <2>1, AheadMore DEF Forgets
      <4>3. Ahead(stream, x, {"FILLED"})
        BY <1>2, <2>4, <4>1, <4>2 DEF View, DoneIsTold
      <4>4. Ahead(stream', x, {"FILLED"})
        BY <1>1, <2>1, <2>10, <4>3, ReadCounts
      <4>5. stream \in Seq(CP!Messages) /\ stream # <<>> /\ stream' = Tail(stream) /\ stream' \in Seq(CP!Messages)
        BY <1>1, ReadCounts
      <4>6. CP!FillsIn(stream, x) = CP!FillQty(m, x) + CP!FillsIn(stream', x)
        BY <1>1, <4>5, Bounds, CP!FillsTail
      <4>7. CP!FillQty(m, x) = q
        BY <1>5, <2>4 DEF CP!FillQty
      <4>8. CP!FillsIn(stream, x) \in Nat /\ e = t + CP!FillsIn(stream, x)
        BY <1>2, <2>4, FillsAhead
      <4>9. CP!FillsIn(stream', x) > 0 /\ CP!FillsIn(stream', x) \in Nat
        BY <4>4, <4>5, FilledIsUntold, Bounds, CP!FillsType
      <4>10. QED BY <2>5, <4>1, <4>6, <4>7, <4>8, <4>9
    <3>3. exposure'.pending[x] # NoOrder /\ exposure'.pending[x].qty = Due(x)'
      <4>1. exposure'.pending[x] = [exposure.pending[x] EXCEPT !.qty = Due(x)']
        BY <2>5, <2>8, <3>2
      <4>2. exposure'.pending[x].qty = Due(x)' /\ exposure'.pending[x].side = exposure.pending[x].side
        BY <2>6, <4>1 DEF Order
      <4>3. exposure.pending[x].side # "NONE"
        BY <2>6 DEF Order, Side
      <4>4. QED BY <4>2, <4>3 DEF NoOrder
    <3>4. QED BY <3>1, <3>2, <3>3
  <2>11. QED BY <2>9, <2>10
<1>6. m.type \in {"ACK", "CLOSE", "REJECT", "FILL"}
  BY <1>2 DEF CP!Messages
<1>7. QED BY <1>3, <1>4, <1>5, <1>6

\* What rests stays open, and a refusal ahead is that of the waiting modify; a message that
\* finishes an order leaves none of its fills untold.
LEMMA ReadRests ==
    ASSUME OInv, VInv, ReadResponse, NEW x \in Untroubled'
    PROVE  RestsOpen(x)' /\ RefusedInFlight(x)' /\ DoneIsTold(x)' /\ SweepCovers(x)'
<1>1. PICK m : m = Head(stream)
  OBVIOUS
<1>2. /\ x \in OrderIds /\ View(x) /\ UNCHANGED <<call, resting, executed>>
      /\ isShutdown' => ~NewOf(x) /\ ~ModifyOf(x)
      /\ ~isShutdown' => ~Interrupts
      /\ m.id = x /\ m.type = "REJECT" => resting[x] = 0
      /\ waiting = [op |-> "modify", id |-> x] /\ Client!EndsWell(m, x) =>
            m.type # "REJECT" /\ ~AnswerUnread(x)
      /\ m \in CP!Messages /\ connected
      /\ stream \in Seq(CP!Messages) /\ stream # <<>> /\ stream' = Tail(stream)
  BY <1>1, ReadUntroubled, ReadCounts, ReadGate
<1>3. resting[x] \in Nat /\ reported[x] \in Nat /\ executed[x] \in Nat
  BY <1>2, ViewTypes
<1>4. CP!Finishes(m, x) => resting[x] = 0 /\ reported'[x] = executed[x]
  BY <1>1, <1>2, ReadCounts
<1>5. RestsOpen(x)'
  <2> SUFFICES ASSUME open'[x] = NoOrder, ~NewOf(x) PROVE resting[x] = 0
    BY <1>2 DEF RestsOpen, NewOf
  <2>1. CASE open[x] = NoOrder
    BY <1>2, <2>1 DEF View, RestsOpen
  <2>2. CASE open[x] # NoOrder
    <3>1. m.id = x
      BY <1>1, <1>2, <2>2, ReadGate
    <3>2. CASE m.type = "FILL"
      <4>1. m.closed
        BY <1>1, <2>2, <3>1, <3>2, ReadGate
      <4>2. QED BY <1>4, <3>1, <3>2, <4>1 DEF CP!Finishes
    <3>3. CASE m.type = "CLOSE"
      BY <1>4, <3>1, <3>3 DEF CP!Finishes
    <3>4. CASE m.type = "REJECT"
      BY <1>2, <3>1, <3>4
    <3>5. CASE m.type = "ACK"
      BY <1>1, <2>2, <3>5, ReadGate
    <3>6. QED BY <1>2, <3>2, <3>3, <3>4, <3>5 DEF CP!Messages
  <2>3. QED BY <2>1, <2>2
<1>6. RefusedInFlight(x)'
  <2> SUFFICES ASSUME resting[x] > 0, Ahead(stream', x, Refusals)
               PROVE  ModifyOf(x)' /\ waiting' = [op |-> "modify", id |-> x]
    BY <1>2 DEF RefusedInFlight
  <2>1. ModifyOf(x) /\ waiting = [op |-> "modify", id |-> x]
    BY <1>1, <1>2, ReadCounts DEF View, RefusedInFlight
  <2>2. ~Interrupts
    BY <1>2, <2>1
  <2>3. AnswerUnread(x)
    <3>1. PICK i \in 1 .. Len(stream') : stream'[i].id = x /\ Kind(stream'[i]) \in Refusals
      BY DEF Ahead
    <3>2. /\ stream' \in Seq(CP!Messages) /\ Len(stream') = Len(stream) - 1 /\ Len(stream) \in Nat
          /\ \A j \in 1 .. Len(stream') : stream'[j] = stream[j + 1]
      BY <1>2, HeadTailProperties, LenProperties
    <3>3. stream'[i].type = "REJECT"
      BY <3>1, <3>2, KindIs DEF Refusals
    <3>4. i + 1 \in 2 .. Len(stream) /\ stream[i + 1] = stream'[i]
      BY <3>2
    <3>5. QED BY <3>1, <3>3, <3>4 DEF AnswerUnread
  <2>4. ~Client!EndsWell(m, waiting.id)
    BY <1>2, <2>1, <2>3
  <2>5. ~Client!EndsBadly(m, waiting.id)
    BY <1>2, <1>3, <2>1 DEF Client!EndsBadly
  <2>6. waiting' = waiting
    BY <1>1, <2>2, <2>4, <2>5, ReadWait
  <2>7. QED BY <1>2, <2>1, <2>6 DEF ModifyOf
<1>7. DoneIsTold(x)'
  <2> SUFFICES ASSUME resting[x] = 0, reported'[x] < executed[x], ~Ahead(stream', x, {"CLOSE"})
               PROVE  Ahead(stream', x, {"FILLED"})
    BY <1>2 DEF DoneIsTold
  <2>1. reported[x] < executed[x]
    <3>1. reported'[x] = reported[x] + CP!FillQty(m, x) /\ CP!FillQty(m, x) \in Nat
      BY <1>1, <1>2, ReadCounts
    <3>2. QED BY <1>3, <3>1
  <2>2. ~CP!Finishes(m, x)
    BY <1>3, <1>4
  <2>3. ~(m.id = x /\ Kind(m) \in {"CLOSE"}) /\ ~(m.id = x /\ Kind(m) \in {"FILLED"})
    BY <1>2, <2>2, KindIs DEF CP!Finishes
  <2>4. ~Ahead(stream, x, {"CLOSE"})
    BY <1>1, <2>3, ReadCounts
  <2>5. Ahead(stream, x, {"FILLED"})
    BY <1>2, <2>1, <2>4 DEF View, DoneIsTold
  <2>6. QED BY <1>1, <2>3, <2>5, ReadCounts
<1>8. SweepCovers(x)'
  <2> SUFFICES ASSUME isShutdown', resting[x] > 0 PROVE x \in sweep'
    BY <1>2 DEF SweepCovers
  <2>1. CASE UNCHANGED <<isShutdown, sweep>>
    BY <1>2, <2>1 DEF View, SweepCovers
  <2>2. CASE ~UNCHANGED <<isShutdown, sweep>>
    <3>1. sweep' = OpenIds'
      BY <1>1, <2>2, ReadGate
    <3>2. open'[x] # NoOrder
      BY <1>2, <1>3, <1>5 DEF RestsOpen, NewOf
    <3>3. QED BY <1>2, <3>1, <3>2 DEF OpenIds
  <2>3. QED BY <2>1, <2>2
<1>9. QED BY <1>5, <1>6, <1>7, <1>8

\* A message put in front is read first.
LEMMA HeadOfConcat ==
    ASSUME NEW h \in CP!Messages, NEW msgs \in Seq(CP!Messages)
    PROVE  Head(<<h>> \o msgs) = h /\ Tail(<<h>> \o msgs) = msgs
<1>1. <<h>> \in Seq(CP!Messages) /\ Len(<<h>>) = 1 /\ <<h>>[1] = h
  OBVIOUS
<1>2. PICK all \in Seq(CP!Messages) : all = <<h>> \o msgs
  BY <1>1, ConcatProperties
<1>3. /\ Len(msgs) \in Nat /\ Len(all) = 1 + Len(msgs) /\ all[1] = h
      /\ \A i \in 1 .. Len(msgs) : all[i + 1] = msgs[i]
  <2>1. Len(msgs) \in Nat
    BY LenProperties
  <2>2. /\ Len(all) = 1 + Len(msgs)
        /\ \A i \in 1 .. 1 + Len(msgs) : all[i] = IF i <= 1 THEN <<h>>[i] ELSE msgs[i - 1]
    BY <1>1, <1>2, ConcatProperties
  <2>3. all[1] = h
    BY <1>1, <2>1, <2>2
  <2>4. \A i \in 1 .. Len(msgs) : all[i + 1] = msgs[i]
    <3>1. TAKE i \in 1 .. Len(msgs)
    <3>2. i + 1 \in 1 .. 1 + Len(msgs) /\ ~(i + 1 <= 1) /\ (i + 1) - 1 = i
      BY <2>1
    <3>3. QED BY <2>2, <3>2
  <2>5. QED BY <2>1, <2>2, <2>3, <2>4
<1>4. all # <<>> /\ Head(all) = all[1]
  BY <1>3, EmptySeq
<1>5. Tail(all) = msgs
  <2>1. /\ Tail(all) \in Seq(CP!Messages) /\ Len(Tail(all)) = Len(msgs)
        /\ \A i \in 1 .. Len(Tail(all)) : Tail(all)[i] = msgs[i]
    BY <1>3, <1>4, HeadTailProperties
  <2>2. QED BY <2>1, SeqEqual
<1>6. QED BY <1>2, <1>3, <1>4, <1>5

\* A new order in flight: only its own refusal ends the wait badly, and no fill of it is
\* told before it is registered.
LEMMA ReadNew ==
    ASSUME OInv, VInv, ReadResponse, NEW x \in Untroubled'
    PROVE  NewIsDue(x)'
<1>1. PICK m : m = Head(stream)
  OBVIOUS
<1>2. /\ x \in OrderIds /\ View(x) /\ UNCHANGED <<call, resting, executed>>
      /\ isShutdown' => ~NewOf(x) /\ ~ModifyOf(x)
      /\ ~isShutdown' => ~Interrupts
      /\ m.id = x /\ m.type = "FILL" => open[x] # NoOrder
      /\ m \in CP!Messages /\ connected /\ returned = None
  BY <1>1, ReadUntroubled, ReadCounts, ReadGate, ReadWait
<1> SUFFICES ASSUME NewOf(x)
             PROVE  /\ open'[x] = NoOrder /\ exposure'.pending[x] = NoOrder
                    /\ returned' = None =>
                          /\ waiting' = [op |-> "new", id |-> x]
                          /\ ~Ahead(stream', x, {"CLOSE", "UNKNOWN"})
                    /\ IF (returned' # None /\ ~returned'.ok) \/ Ahead(stream', x, Forgets)
                       THEN resting[x] = 0
                       ELSE Due(x)' = call.order.qty
  BY <1>2 DEF NewIsDue, NewOf, None, Client!None
<1>3. /\ open[x] = NoOrder /\ exposure.pending[x] = NoOrder
      /\ waiting = [op |-> "new", id |-> x] /\ ~Ahead(stream, x, {"CLOSE", "UNKNOWN"})
      /\ IF Ahead(stream, x, Forgets) THEN resting[x] = 0 ELSE Due(x) = call.order.qty
  BY <1>2 DEF View, NewIsDue
<1>4. ~Interrupts
  BY <1>2
<1>5. ~(m.id = x /\ m.type = "FILL")
  BY <1>2, <1>3
<1>6. open'[x] = NoOrder /\ exposure'.pending[x] = NoOrder
  BY <1>1, <1>2, <1>3, ReadGate
<1>7. /\ \/ /\ ~Client!EndsWell(m, x) /\ ~Client!EndsBadly(m, x)
            /\ UNCHANGED <<waiting, returned>>
         \/ /\ Client!EndsWell(m, x) \/ Client!EndsBadly(m, x)
            /\ returned' = [op |-> "new", id |-> x, ok |-> Client!EndsWell(m, x)]
  BY <1>1, <1>3, <1>4, ReadWait
<1>8. returned' # None <=> Client!EndsWell(m, x) \/ Client!EndsBadly(m, x)
  BY <1>2, <1>7 DEF None, Client!None
<1>9. /\ ~Ahead(stream', x, {"CLOSE", "UNKNOWN"})
      /\ Ahead(stream', x, Forgets) => Ahead(stream, x, Forgets)
      /\ ~(m.id = x /\ Kind(m) \in {"CLOSE", "UNKNOWN"})
  BY <1>1, <1>3, ReadCounts
<1>10. Due(x)' = Due(x)
  <2>1. CP!FillQty(m, x) = 0
    BY <1>5 DEF CP!FillQty
  <2>2. reported'[x] = reported[x] + CP!FillQty(m, x) /\ reported[x] \in Nat
    <3>1. reported[x] \in Nat
      BY <1>2, ViewTypes
    <3>2. QED BY <1>1, <1>2, <3>1, ReadCounts
  <2>3. reported'[x] = reported[x]
    BY <2>1, <2>2
  <2>4. QED BY <1>2, <2>3 DEF Due
<1>11. CASE (returned' # None /\ ~returned'.ok) \/ Ahead(stream', x, Forgets)
  <2>1. Ahead(stream, x, Forgets)
    <3>1. CASE Ahead(stream', x, Forgets)
      BY <1>9, <3>1
    <3>2. CASE returned' # None /\ ~returned'.ok
      <4>1. Client!EndsBadly(m, x)
        BY <1>7, <1>8, <3>2
      <4>2. m.id = x /\ Kind(m) = "REJECT"
        BY <1>2, <4>1, KindIs DEF Client!EndsBadly
      <4>3. QED BY <1>1, <4>2, ReadCounts DEF Forgets, Refusals
    <3>3. QED BY <1>11, <3>1, <3>2
  <2>2. QED BY <1>3, <1>6, <1>7, <1>8, <1>9, <1>11, <2>1
<1>12. CASE ~((returned' # None /\ ~returned'.ok) \/ Ahead(stream', x, Forgets))
  <2>1. ~Ahead(stream, x, Forgets)
    <3> SUFFICES ASSUME Ahead(stream, x, Forgets) PROVE FALSE
      OBVIOUS
    <3>1. m.id = x /\ Kind(m) = "REJECT"
      BY <1>1, <1>9, <1>12, ReadCounts DEF Forgets, Refusals
    <3>2. Client!EndsBadly(m, x) /\ ~Client!EndsWell(m, x)
      BY <1>2, <3>1, KindIs DEF Client!EndsBadly, Client!EndsWell
    <3>3. QED BY <1>7, <1>8, <1>12, <3>2
  <2>2. Due(x)' = call.order.qty
    BY <1>3, <1>10, <2>1
  <2>3. QED BY <1>6, <1>7, <1>8, <1>9, <1>12, <1>3, <2>2
<1>13. QED BY <1>11, <1>12

\* A modify in flight: the wait ends on its own answer, or a refusal or a close leaves
\* nothing of the order.
LEMMA ReadModify ==
    ASSUME OInv, VInv, ReadResponse, NEW x \in Untroubled'
    PROVE  ModifyIsDue(x)'
<1>1. PICK m : m = Head(stream)
  OBVIOUS
<1>2. /\ x \in OrderIds /\ View(x) /\ UNCHANGED <<call, resting, executed>>
      /\ isShutdown' => ~NewOf(x) /\ ~ModifyOf(x)
      /\ ~isShutdown' => ~Interrupts
      /\ m.id = x /\ m.type = "REJECT" => resting[x] = 0
      /\ waiting = [op |-> "modify", id |-> x] /\ Client!EndsWell(m, x) =>
            m.type # "REJECT" /\ ~AnswerUnread(x)
      /\ m \in CP!Messages /\ connected /\ returned = None
      /\ stream \in Seq(CP!Messages) /\ stream # <<>>
      /\ stream' = Tail(stream) /\ stream' \in Seq(CP!Messages)
  BY <1>1, ReadUntroubled, ReadCounts, ReadGate, ReadWait
<1> SUFFICES ASSUME ModifyOf(x)
             PROVE  IF returned' = None
                    THEN /\ waiting' = [op |-> "modify", id |-> x]
                         /\ \E before, after \in Seq(CP!Messages), a \in CP!Messages :
                               AnswerAhead(x, before, a, after)'
                    ELSE IF returned'.ok
                         THEN ~Ahead(stream', x, Forgets) /\ Due(x)' = call.order.qty
                         ELSE resting[x] = 0 /\ open'[x] = NoOrder /\ exposure'.pending[x] = NoOrder
  BY <1>2 DEF ModifyIsDue, ModifyOf, None, Client!None
<1>3. /\ waiting = [op |-> "modify", id |-> x]
      /\ \E before, after \in Seq(CP!Messages), a \in CP!Messages : AnswerAhead(x, before, a, after)
  BY <1>2 DEF View, ModifyIsDue
<1>4. ~Interrupts
  BY <1>2
<1>5. /\ \/ /\ ~Client!EndsWell(m, x) /\ ~Client!EndsBadly(m, x)
            /\ UNCHANGED <<waiting, returned>>
         \/ /\ Client!EndsWell(m, x) \/ Client!EndsBadly(m, x)
            /\ returned' = [op |-> "modify", id |-> x, ok |-> Client!EndsWell(m, x)]
  BY <1>1, <1>3, <1>4, ReadWait
<1>6. returned' # None <=> Client!EndsWell(m, x) \/ Client!EndsBadly(m, x)
  BY <1>2, <1>5 DEF None, Client!None
<1>7. Client!EndsBadly(m, x) => resting[x] = 0 /\ open'[x] = NoOrder /\ exposure'.pending[x] = NoOrder
  BY <1>1, <1>2, ReadGate DEF Client!EndsBadly
<1>8. Client!EndsBadly(m, x) => ~Client!EndsWell(m, x)
  BY DEF Client!EndsBadly, Client!EndsWell
<1>9. CASE Client!EndsBadly(m, x)
  BY <1>5, <1>6, <1>7, <1>8, <1>9
<1>10. Ahead(stream', x, Forgets) => Ahead(stream, x, Forgets)
  BY <1>1, ReadCounts
<1>11. PICK before \in Seq(CP!Messages), after \in Seq(CP!Messages), a \in CP!Messages :
          AnswerAhead(x, before, a, after)
  BY <1>3
<1>12. /\ stream = (before \o <<a>>) \o after /\ a.id = x
       /\ \/ Kind(a) \in Refusals
          \/ /\ Kind(a) = "ACK" /\ ~Ahead(stream, x, Forgets)
             /\ Due(x) = call.order.qty + CP!FillsIn(before, x)
  BY <1>11 DEF AnswerAhead
<1>13. <<a>> \in Seq(CP!Messages)
  OBVIOUS
<1>14. PICK r, e, t, q : r = resting[x] /\ e = executed[x] /\ t = reported[x] /\ q = CP!FillQty(m, x)
  OBVIOUS
<1>15. /\ r \in Nat /\ e \in Nat /\ t \in Nat /\ q \in Nat
       /\ Due(x) = r + (e - t) /\ Due(x)' = r + (e - (t + q))
  <2>1. reported'[x] = t + q /\ q \in Nat
    BY <1>1, <1>2, <1>14, ReadCounts
  <2>2. r \in Nat /\ e \in Nat /\ t \in Nat
    BY <1>2, <1>14, ViewTypes
  <2>3. QED BY <1>2, <1>14, <2>1, <2>2 DEF Due
<1>16. CASE before = <<>> /\ ~Client!EndsBadly(m, x)
  <2>1. stream = <<a>> \o after
    BY <1>12, <1>13, <1>16, ConcatEmptySeq
  <2>2. m = a
    <3>1. Len(<<a>>) = 1 /\ <<a>>[1] = a /\ 1 \in 1 .. 1
      OBVIOUS
    <3>2. stream[1] = <<a>>[1]
      BY <1>13, <2>1, <3>1, ConcatProperties
    <3>3. Head(stream) = stream[1]
      BY <1>2, HeadTailProperties
    <3>4. QED BY <1>1, <3>1, <3>2, <3>3
  <2>3. ~(Kind(a) \in Refusals)
    <3> SUFFICES ASSUME Kind(a) \in Refusals PROVE FALSE
      OBVIOUS
    <3>1. m.id = x /\ m.type = "REJECT"
      BY <1>2, <1>12, <2>2, KindIs DEF Refusals
    <3>2. Client!EndsWell(m, x)
      BY <1>16, <3>1 DEF Client!EndsWell, Client!EndsBadly
    <3>3. QED BY <1>2, <1>3, <3>1, <3>2
  <2>4. Kind(m) = "ACK" /\ ~Ahead(stream, x, Forgets) /\ Due(x) = call.order.qty + CP!FillsIn(before, x)
    BY <1>12, <2>2, <2>3
  <2>5. m.type = "ACK" /\ Client!EndsWell(m, x)
    BY <1>2, <1>12, <2>2, <2>4, KindIs DEF Client!EndsWell
  <2>6. q = 0
    BY <1>14, <2>5 DEF CP!FillQty
  <2>7. CP!FillsIn(before, x) = 0
    <3>1. before \in Seq(CP!Messages) /\ Len(before) = 0
      BY <1>12, <1>16, EmptySeq
    <3>2. CP!Silent(before, x)
      BY <3>1 DEF CP!Silent
    <3>3. QED BY <1>12, <3>1, <3>2, Bounds, CP!SilentTale
  <2>8. Due(x) = call.order.qty + 0
    BY <2>4, <2>7
  <2>9. call.order.qty \in Int
    <3>1. call.order \in Order
      BY InFlightCall DEF OInv, ModifyOf, InFlight
    <3>2. QED BY <3>1, WordAssumption DEF Order
  <2>10. Due(x)' = call.order.qty
    BY <1>15, <2>6, <2>8, <2>9
  <2>11. QED BY <1>5, <1>6, <1>10, <2>4, <2>5, <2>10
<1>17. CASE before # <<>> /\ ~Client!EndsBadly(m, x)
  <2>1. PICK rest \in Seq(CP!Messages) : rest = Tail(before)
    BY <1>17, HeadTailProperties
  <2>2. /\ Head(before) = m /\ stream' = (rest \o <<a>>) \o after
    <3>1. before = <<Head(before)>> \o rest /\ <<Head(before)>> \in Seq(CP!Messages)
      <4>1. Head(before) \in CP!Messages /\ before = <<Head(before)>> \o rest
        BY <1>17, <2>1, HeadTailProperties, HeadTailAppend
      <4>2. QED BY <4>1
    <3>2. PICK h \in CP!Messages : h = Head(before)
      BY <1>17, HeadTailProperties
    <3>3. <<h>> \in Seq(CP!Messages) /\ rest \o <<a>> \in Seq(CP!Messages)
      BY <1>13, ConcatProperties
    <3>4. (<<h>> \o rest) \o <<a>> = <<h>> \o (rest \o <<a>>)
      BY <1>13, <3>3, ConcatAssociative
    <3>5. (<<h>> \o (rest \o <<a>>)) \o after = <<h>> \o ((rest \o <<a>>) \o after)
      BY <3>3, ConcatAssociative
    <3>6. stream = <<h>> \o ((rest \o <<a>>) \o after)
      <4>1. before = <<h>> \o rest
        BY <3>1, <3>2
      <4>2. stream = (before \o <<a>>) \o after
        BY <1>12
      <4>3. stream = ((<<h>> \o rest) \o <<a>>) \o after
        BY <4>1, <4>2, Zenon
      <4>4. QED BY <3>4, <3>5, <4>3, Zenon
    <3>7. (rest \o <<a>>) \o after \in Seq(CP!Messages)
      BY <3>3, ConcatProperties
    <3>8. Head(stream) = h /\ Tail(stream) = (rest \o <<a>>) \o after
      BY <3>6, <3>7, HeadOfConcat
    <3>9. QED BY <1>1, <1>2, <3>2, <3>8
  <2>3. CP!FillsIn(before, x) = q + CP!FillsIn(rest, x)
    BY <1>14, <1>17, <2>1, <2>2, Bounds, CP!FillsTail
  <2>4. a.type \in {"ACK", "REJECT"}
    BY <1>12, KindIs DEF Refusals
  <2>5. AnswerUnread(x)
    <3>1. PICK i \in 1 .. Len(stream') : stream'[i] = a
      <4>1. rest \o <<a>> \in Seq(CP!Messages) /\ Len(rest) \in Nat /\ Len(<<a>>) = 1 /\ <<a>>[1] = a
        BY <1>13, ConcatProperties, LenProperties
      <4>2. Len(rest \o <<a>>) = Len(rest) + 1 /\ (rest \o <<a>>)[Len(rest) + 1] = a
        BY <1>13, <4>1, ConcatProperties
      <4>3. /\ Len(stream') = (Len(rest) + 1) + Len(after) /\ Len(after) \in Nat
            /\ stream'[Len(rest) + 1] = a
        BY <2>2, <4>1, <4>2, ConcatProperties, LenProperties
      <4>4. Len(rest) + 1 \in 1 .. Len(stream')
        BY <4>1, <4>3
      <4>5. QED BY <4>3, <4>4
    <3>2. /\ Len(stream') = Len(stream) - 1 /\ Len(stream) \in Nat
          /\ \A j \in 1 .. Len(stream') : stream'[j] = stream[j + 1]
      BY <1>2, HeadTailProperties, LenProperties
    <3>3. i + 1 \in 2 .. Len(stream) /\ stream[i + 1] = a
      BY <3>1, <3>2
    <3>4. QED BY <1>12, <2>4, <3>3 DEF AnswerUnread
  <2>6. ~Client!EndsWell(m, x)
    BY <1>2, <1>3, <2>5
  <2>7. returned' = None /\ waiting' = waiting
    BY <1>2, <1>5, <1>17, <2>6
  <2>8. AnswerAhead(x, rest, a, after)'
    <3>1. CASE Kind(a) \in Refusals
      BY <1>12, <2>2, <3>1 DEF AnswerAhead
    <3>2. CASE /\ Kind(a) = "ACK" /\ ~Ahead(stream, x, Forgets)
               /\ Due(x) = call.order.qty + CP!FillsIn(before, x)
      <4>1. PICK n, k : n = CP!FillsIn(rest, x) /\ k = call.order.qty
        OBVIOUS
      <4>2. n \in Nat /\ k \in Int
        <5>1. call.order \in Order
          BY InFlightCall DEF OInv, ModifyOf, InFlight
        <5>2. k \in Int
          BY <4>1, <5>1, WordAssumption DEF Order
        <5>3. n \in Nat
          BY <1>1, <1>12, <2>1, <4>1, Bounds, CP!FillsType
        <5>4. QED BY <5>2, <5>3
      <4>3. Due(x) = k + (q + n)
        BY <2>3, <3>2, <4>1
      <4>4. Due(x)' = k + n
        BY <1>15, <4>2, <4>3
      <4>5. call'.order.qty = k /\ ~Ahead(stream', x, Forgets)
        BY <1>2, <1>10, <3>2, <4>1
      <4>6. QED BY <1>12, <2>2, <3>2, <4>1, <4>4, <4>5 DEF AnswerAhead
    <3>3. QED BY <1>12, <3>1, <3>2
  <2>9. QED BY <1>3, <2>7, <2>8
<1>18. QED BY <1>9, <1>16, <1>17


\* Whatever a message ends or interrupts, the stack stays in order,
LEMMA ReadFrames ==
    ASSUME OInv, VInv, ReadResponse
    PROVE  Frames'
<1>1. PICK m : m = Head(stream)
  OBVIOUS
<1>2. /\ UNCHANGED <<call, cancelling, lastId>> /\ (InFlight' <=> InFlight)
      /\ UNCHANGED <<isShutdown, sweep>> \/ (~isShutdown /\ isShutdown')
      /\ SparesInFlight
  BY <1>1, ReadCounts, ReadGate DEF ReadResponse, InFlight
<1>3. ~isShutdown => sweep = {}
  BY DEF OInv, IInv, SweepIsShutdown
<1>4. \A id \in OrderIds : id > lastId' => open'[id] = NoOrder /\ exposure'.pending[id] = NoOrder
  BY <1>1, <1>2, ReadGate DEF VInv, Frames
<1>5. sweep' = {} => outer' = NoFrame
  BY <1>1, <1>2, <1>3, ReadWait DEF VInv, Frames, Interrupts
<1>6. IF isShutdown' THEN InFlight' => spared' = {call'.id} ELSE spared' = {}
  <2>1. CASE ~isShutdown /\ isShutdown'
    BY <1>2, <2>1 DEF SparesInFlight
  <2>2. CASE UNCHANGED isShutdown
    BY <1>2, <2>2 DEF SparesInFlight, VInv, Frames
  <2>3. QED BY <1>2, <2>1, <2>2
<1>7. NoneOrDelete(waiting) =>
        /\ NoneOrDelete(waiting') /\ NoneOrDelete(returned')
        /\ NoneOrDelete(After(m).waiting) /\ NoneOrDelete(After(m).returned)
  <2> SUFFICES ASSUME NoneOrDelete(waiting)
               PROVE  /\ NoneOrDelete(waiting') /\ NoneOrDelete(returned')
                      /\ NoneOrDelete(After(m).waiting) /\ NoneOrDelete(After(m).returned)
    OBVIOUS
  <2>1. waiting.op = "delete"
    BY <1>1, ReadWait DEF NoneOrDelete, None, Client!None, Waits, CP!Requests
  <2>2. NoneOrDelete(After(m).waiting) /\ NoneOrDelete(After(m).returned)
    BY <1>1, <2>1, ReadWait DEF NoneOrDelete
  <2>3. NoneOrDelete(waiting') /\ NoneOrDelete(returned')
    <3>1. CASE Interrupts
      BY <1>1, <3>1, ReadWait DEF NoneOrDelete
    <3>2. CASE ~Interrupts
      BY <1>1, <2>1, <3>2, ReadWait DEF NoneOrDelete
    <3>3. QED BY <3>1, <3>2
  <2>4. QED BY <2>2, <2>3
<1>8. ~InFlight' \/ sweep' # {} => NoneOrDelete(waiting') /\ NoneOrDelete(returned')
  <2>1. CASE Interrupts
    BY <1>1, <2>1, ReadWait DEF NoneOrDelete
  <2>2. CASE ~Interrupts
    BY <1>2, <1>7, <2>2 DEF VInv, Frames, Interrupts
  <2>3. QED BY <2>1, <2>2
<1>9. ~InFlight' => NoneOrDelete(outer'.waiting) /\ NoneOrDelete(outer'.returned)
  <2>1. CASE outer' = outer
    BY <1>2, <2>1 DEF VInv, Frames, NoneOrDelete
  <2>2. CASE outer' = After(m)
    BY <1>2, <1>7, <2>2 DEF VInv, Frames
  <2>3. QED BY <1>1, <2>1, <2>2, ReadWait
<1>10. /\ call' # Idle => call'.id <= lastId'
       /\ InFlight' => cancelling' = {}
  BY <1>2 DEF VInv, Frames
<1>11. QED BY <1>4, <1>5, <1>6, <1>8, <1>9, <1>10 DEF Frames, NoneOrDelete, None, Client!None, NoFrame

\* and every view is kept.
LEMMA ReadVInv ==
    ASSUME OInv, VInv, ReadResponse
    PROVE  VInv'
<1>1. PICK m : m = Head(stream)
  OBVIOUS
<1>2. connected /\ UNCHANGED <<resting, call>>
  BY <1>1, ReadCounts, ReadGate
<1>3. AllGone'
  <2>1. /\ Gone(waiting') /\ Gone(returned')
        /\ Gone(After(m).waiting) /\ Gone(After(m).returned)
    BY <1>1, <1>2, ReadWait DEF VInv, AllGone, Gone, None, Client!None
  <2>2. Gone(outer'.waiting) /\ Gone(outer'.returned)
    BY <1>1, <1>2, <2>1, ReadWait DEF VInv, AllGone
  <2>3. QED BY <1>2, <2>1, <2>2 DEF VInv, AllGone, Gone
<1>4. \A x \in Untroubled' : View(x)'
  BY ReadPending, ReadRests, ReadNew, ReadModify DEF View
<1>5. QED BY <1>3, <1>4, ReadFrames DEF VInv


\* What a returning call leaves alone; the answer it takes is the only one.
LEMMA ReturnsStack ==
    ASSUME OInv, VInv, GateReturns
    PROVE  /\ UNCHANGED <<resting, executed, stream, connected, lastId, reported, doubtful>>
           /\ waiting = None /\ returned # None /\ returned \in Answers
           /\ SparesInFlight
           /\ \/ /\ waiting' = outer.waiting /\ returned' = outer.returned /\ outer' = NoFrame
                 /\ sweep # {} /\ sweep' = {}
              \/ /\ waiting' = None /\ returned' = None /\ outer' = outer
                 /\ sweep = {} \/ sweep' # {}
<1>1. /\ UNCHANGED <<resting, executed, stream, connected, lastId, reported, doubtful>>
      /\ returned # None /\ SparesInFlight
  BY DEF GateReturns
<1>2. waiting = None /\ returned \in Answers
  BY <1>1, ViewTypes
<1>3. \/ /\ waiting' = outer.waiting /\ returned' = outer.returned /\ outer' = NoFrame
         /\ sweep # {} /\ sweep' = {}
      \/ /\ waiting' = None /\ returned' = None /\ outer' = outer
         /\ sweep = {} \/ sweep' # {}
  BY DEF GateReturns
<1>4. QED BY <1>1, <1>2, <1>3

\* A returned send or modify: registered as asked, or not at all.
LEMMA RegistersGate ==
    ASSUME OInv, VInv, NEW ok \in BOOLEAN, SendReturns(ok) \/ ModifyReturns(ok)
    PROVE  /\ InFlight /\ sweep = {} /\ outer = NoFrame /\ call' = Idle /\ cancelling' = {}
           /\ call.id \in OrderIds /\ call.order \in Order
           /\ \/ UNCHANGED <<isShutdown, sweep>>
              \/ ~isShutdown /\ isShutdown' /\ sweep' = OpenIds'
           /\ \A x \in OrderIds \ {call.id} :
                 open'[x] = open[x] /\ exposure'.pending[x] = exposure.pending[x]
           /\ IF ok
              THEN open'[call.id] = call.order /\ exposure'.pending[call.id] = call.order
              ELSE UNCHANGED <<open, exposure>>
<1>1. /\ call.op \in {"new", "modify"}
      /\ Registers(ok, exposure) \/ Registers(ok, OnOrderRemoved(exposure, call.id))
  BY DEF SendReturns, ModifyReturns
<1>2. call.id \in OrderIds /\ call.order \in Order
  BY <1>1 DEF OInv, IInv, TypeOK, Idle
<1>3. /\ sweep = {} /\ call' = Idle /\ UNCHANGED cancelling
      /\ UNCHANGED <<isShutdown, sweep>> \/ (~isShutdown /\ isShutdown' /\ sweep' = OpenIds')
      /\ ~ok => UNCHANGED <<open, exposure>>
  BY <1>1 DEF Registers, CheckAndShutdown
<1>4. InFlight /\ outer = NoFrame /\ cancelling = {}
  BY <1>1, <1>3 DEF VInv, Frames, InFlight
<1>5. ASSUME ok
      PROVE  /\ open' = [open EXCEPT ![call.id] = call.order]
             /\ \E p \in [OrderIds -> Order \cup {NoOrder}] :
                   /\ \A x \in OrderIds \ {call.id} : p[x] = exposure.pending[x]
                   /\ exposure'.pending = [p EXCEPT ![call.id] = call.order]
  <2>1. PICK e : /\ e = exposure \/ e = OnOrderRemoved(exposure, call.id)
                 /\ Registers(ok, e)
    BY <1>1
  <2>2. /\ open' = [open EXCEPT ![call.id] = call.order]
        /\ exposure' = OnOrderSent(e, call.id, call.order)
    BY <1>5, <2>1 DEF Registers
  <2>3. exposure'.pending = [e.pending EXCEPT ![call.id] = call.order]
    BY <2>2 DEF OnOrderSent
  <2>4. /\ e.pending \in [OrderIds -> Order \cup {NoOrder}]
        /\ \A x \in OrderIds \ {call.id} : e.pending[x] = exposure.pending[x]
    <3>1. CASE e = exposure
      BY <3>1, ViewTypes
    <3>2. CASE e = OnOrderRemoved(exposure, call.id)
      <4>1. e.pending \in {exposure.pending, [exposure.pending EXCEPT ![call.id] = NoOrder]}
        BY <3>2 DEF OnOrderRemoved
      <4>2. QED BY <1>2, <4>1, ViewTypes
    <3>3. QED BY <2>1, <3>1, <3>2
  <2>5. QED BY <2>2, <2>3, <2>4
<1>6. CASE ok
  BY <1>2, <1>3, <1>4, <1>5, <1>6, ViewTypes
<1>7. CASE ~ok
  BY <1>2, <1>3, <1>4, <1>7
<1>8. QED BY <1>6, <1>7


\* The order is then seen as the client answered: what is due of it is pending, or nothing.
LEMMA RegistersView ==
    ASSUME OInv, VInv, AsksForSome, connected, GateReturns,
           SendReturns(returned.ok) \/ ModifyReturns(returned.ok), NEW x \in Untroubled'
    PROVE  View(x)'
<1>1. /\ UNCHANGED <<resting, executed, stream, reported, doubtful>>
      /\ returned # None /\ returned \in Answers /\ SparesInFlight
  BY ReturnsStack
<1>2. returned.ok \in BOOLEAN
  BY <1>1 DEF Answers
<1>3. /\ InFlight /\ sweep = {} /\ call' = Idle /\ call.id \in OrderIds /\ call.order \in Order
      /\ \/ UNCHANGED <<isShutdown, sweep>>
         \/ ~isShutdown /\ isShutdown' /\ sweep' = OpenIds'
      /\ \A y \in OrderIds \ {call.id} :
            open'[y] = open[y] /\ exposure'.pending[y] = exposure.pending[y]
      /\ IF returned.ok
         THEN open'[call.id] = call.order /\ exposure'.pending[call.id] = call.order
         ELSE UNCHANGED <<open, exposure>>
  BY <1>2, RegistersGate
<1>4. x \in OrderIds /\ x \in Untroubled /\ View(x) /\ (isShutdown' => x # call.id)
  <2>1. x \in OrderIds /\ x \notin doubtful /\ x \notin spared'
    BY <1>1 DEF Untroubled
  <2>2. IF isShutdown THEN spared = {call.id} ELSE spared = {}
    BY <1>3 DEF VInv, Frames
  <2>3. x \notin spared /\ (isShutdown' => x # call.id)
    BY <1>1, <1>3, <2>1, <2>2 DEF SparesInFlight
  <2>4. QED BY <2>1, <2>3 DEF Untroubled, VInv
<1>5. ~NewOf(x)' /\ ~ModifyOf(x)'
  BY <1>3 DEF NewOf, ModifyOf, Idle
<1>6. CASE x # call.id
  <2>1. open'[x] = open[x] /\ exposure'.pending[x] = exposure.pending[x]
    BY <1>3, <1>4, <1>6
  <2>2. ~NewOf(x) /\ ~ModifyOf(x)
    BY <1>6 DEF NewOf, ModifyOf
  <2>3. SweepCovers(x)'
    <3> SUFFICES ASSUME isShutdown', resting[x] > 0 PROVE x \in sweep'
      BY <1>1 DEF SweepCovers
    <3>1. CASE UNCHANGED <<isShutdown, sweep>>
      BY <1>4, <3>1 DEF View, SweepCovers
    <3>2. CASE sweep' = OpenIds'
      <4>1. open[x] # NoOrder
        <5>1. resting[x] # 0
          BY <1>4, ViewTypes
        <5>2. QED BY <1>4, <2>2, <5>1 DEF View, RestsOpen
      <4>2. QED BY <1>4, <2>1, <3>2, <4>1 DEF OpenIds
    <3>3. QED BY <1>3, <3>1, <3>2
  <2>4. QED BY <1>1, <1>4, <1>5, <2>1, <2>2, <2>3, Elsewhere
<1>7. CASE x = call.id
  <2>1. ~isShutdown' /\ (NewOf(x) \/ ModifyOf(x))
    BY <1>3, <1>4, <1>7 DEF NewOf, ModifyOf, InFlight
  <2>2. SweepCovers(x)' /\ NewIsDue(x)' /\ ModifyIsDue(x)'
    BY <1>5, <2>1 DEF SweepCovers, NewIsDue, ModifyIsDue
  <2>3. DoneIsTold(x)'
    BY <1>1, <1>4 DEF View, DoneIsTold
  <2>4. PICK n : n = call.order.qty
    OBVIOUS
  <2>5. n \in Nat \ {0} /\ call.order # NoOrder
    <3>1. n \in OrderQty
      BY <1>3, <2>4 DEF AsksForSome
    <3>2. n \in Nat \ {0}
      BY <3>1, Bounds
    <3>3. QED BY <2>4, <3>2 DEF NoOrder
  <2>6. ASSUME returned.ok PROVE resting[x] = 0 \/ ~Ahead(stream, x, Forgets)
    BY <1>1, <1>4, <2>1, <2>6 DEF View, NewIsDue, ModifyIsDue
  <2>7. ASSUME returned.ok, ~Ahead(stream, x, Forgets) PROVE Due(x) = n
    BY <1>1, <1>4, <2>1, <2>4, <2>7 DEF View, NewIsDue, ModifyIsDue
  <2>8. ASSUME ~returned.ok
        PROVE  resting[x] = 0 /\ open[x] = NoOrder /\ exposure.pending[x] = NoOrder
    BY <1>1, <1>4, <2>1, <2>8 DEF View, NewIsDue, ModifyIsDue
  <2>9. CASE returned.ok
    <3>1. open'[x] = call.order /\ exposure'.pending[x] = call.order
      BY <1>3, <1>7, <2>9
    <3>2. RestsOpen(x)'
      BY <2>5, <3>1 DEF RestsOpen
    <3>3. PendingIsDue(x)'
      <4>1. Due(x)' = Due(x)
        BY <1>1 DEF Due
      <4>2. ASSUME ~Ahead(stream, x, Forgets)
            PROVE  /\ exposure'.pending[x].qty = Due(x)' /\ Due(x)' > 0
        BY <2>4, <2>5, <2>7, <2>9, <3>1, <4>1, <4>2
      <4>3. QED BY <1>1, <2>5, <3>1, <4>2 DEF PendingIsDue
    <3>4. RefusedInFlight(x)'
      <4>1. Ahead(stream, x, Refusals) => Ahead(stream, x, Forgets)
        BY DEF Ahead, Forgets
      <4>2. QED BY <1>1, <2>6, <2>9, <4>1 DEF RefusedInFlight
    <3>5. QED BY <2>2, <2>3, <3>2, <3>3, <3>4 DEF View
  <2>10. CASE ~returned.ok
    <3>1. open'[x] = NoOrder /\ exposure'.pending[x] = NoOrder /\ resting'[x] = 0
      BY <1>1, <1>3, <2>8, <2>10
    <3>2. RestsOpen(x)' /\ PendingIsDue(x)' /\ RefusedInFlight(x)'
      BY <3>1 DEF RestsOpen, PendingIsDue, RefusedInFlight
    <3>3. QED BY <2>2, <2>3, <3>2 DEF View
  <2>11. QED BY <2>9, <2>10
<1>8. QED BY <1>6, <1>7

LEMMA RegistersVInv ==
    ASSUME OInv, VInv, AsksForSome, GateReturns,
           SendReturns(returned.ok) \/ ModifyReturns(returned.ok)
    PROVE  VInv'
<1>1. /\ UNCHANGED <<resting, connected, lastId>> /\ SparesInFlight /\ returned \in Answers
      /\ \/ sweep # {} /\ sweep' = {}
         \/ waiting' = None /\ returned' = None /\ outer' = outer
  BY ReturnsStack
<1>2. returned.ok \in BOOLEAN
  BY <1>1 DEF Answers
<1>3. /\ InFlight /\ sweep = {} /\ outer = NoFrame /\ call' = Idle /\ cancelling' = {}
      /\ call.id \in OrderIds
      /\ \/ UNCHANGED <<isShutdown, sweep>>
         \/ ~isShutdown /\ isShutdown' /\ sweep' = OpenIds'
      /\ \A y \in OrderIds \ {call.id} :
            open'[y] = open[y] /\ exposure'.pending[y] = exposure.pending[y]
  BY <1>2, RegistersGate
<1>4. waiting' = None /\ returned' = None /\ outer' = NoFrame /\ ~InFlight'
  BY <1>1, <1>3 DEF InFlight, Idle
<1>5. Frames'
  <2>1. \A id \in OrderIds : id > lastId' => open'[id] = NoOrder /\ exposure'.pending[id] = NoOrder
    <3> SUFFICES ASSUME NEW id \in OrderIds, id > lastId
                 PROVE  open'[id] = NoOrder /\ exposure'.pending[id] = NoOrder
      BY <1>1
    <3>1. call.id <= lastId
      BY <1>3 DEF VInv, Frames, InFlight, Idle
    <3>2. id # call.id
      BY <3>1, Bounds, ViewTypes
    <3>3. QED BY <1>3, <3>2 DEF VInv, Frames
  <2>2. ~isShutdown' => spared' = {}
    BY <1>1, <1>3 DEF SparesInFlight, VInv, Frames
  <2>3. QED BY <1>3, <1>4, <2>1, <2>2 DEF Frames, NoneOrDelete, NoFrame
<1>6. AllGone'
  BY <1>3, <1>4 DEF AllGone, Gone, NoFrame, None, Client!None, Idle
<1>7. QED BY <1>1, <1>5, <1>6, RegistersView DEF VInv


\* A returned delete: its order works no more, whichever loop or call sent the delete.
LEMMA DeletesGate ==
    ASSUME OInv, VInv, GateReturns, ~(SendReturns(returned.ok) \/ ModifyReturns(returned.ok))
    PROVE  /\ UNCHANGED isShutdown
           /\ call' = call \/ (call' = Idle /\ call.op = "delete")
           /\ cancelling' \subseteq cancelling
           /\ \E d \in OrderIds :
                 /\ connected => resting[d] = 0
                 /\ sweep' = sweep \/ sweep' = sweep \ {d}
                 /\ \/ UNCHANGED <<open, exposure>>
                    \/ /\ \A x \in OrderIds \ {d} :
                             open'[x] = open[x] /\ exposure'.pending[x] = exposure.pending[x]
                       /\ open'[d] = NoOrder /\ exposure'.pending[d] = NoOrder
           /\ ~InFlight \/ sweep # {}
<1>1. /\ waiting = None /\ returned # None /\ returned \in Answers
  BY ReturnsStack
<1>2. connected => Gone(call) /\ Gone(returned)
  BY DEF VInv, AllGone
<1>3. returned.id \in OrderIds /\ (returned.op = "delete" /\ connected => resting[returned.id] = 0)
  BY <1>1, <1>2 DEF Gone, Answers
<1>4. ASSUME NEW d \in OrderIds, Deletes(d, returned.ok)
      PROVE  /\ UNCHANGED isShutdown
             /\ \/ UNCHANGED <<open, exposure>>
                \/ /\ \A x \in OrderIds \ {d} :
                         open'[x] = open[x] /\ exposure'.pending[x] = exposure.pending[x]
                   /\ open'[d] = NoOrder /\ exposure'.pending[d] = NoOrder
  <2>1. UNCHANGED isShutdown
    BY <1>4 DEF Deletes
  <2>2. CASE returned.ok
    <3>1. open' = [open EXCEPT ![d] = NoOrder] /\ exposure' = OnOrderRemoved(exposure, d)
      BY <1>4, <2>2 DEF Deletes, Forget
    <3>2. \A x \in OrderIds : exposure'.pending[x] = IF x = d THEN NoOrder ELSE exposure.pending[x]
      BY <3>1, ViewTypes DEF OnOrderRemoved
    <3>3. \A x \in OrderIds : open'[x] = IF x = d THEN NoOrder ELSE open[x]
      BY <3>1, ViewTypes
    <3>4. QED BY <1>4, <2>1, <3>2, <3>3
  <2>3. CASE ~returned.ok
    BY <1>4, <2>1, <2>3 DEF Deletes
  <2>4. QED BY <2>2, <2>3
<1>5. CASE DeleteReturns(returned.ok)
  <2>1. /\ call.op = "delete" /\ Deletes(call.id, returned.ok) /\ call' = Idle
        /\ UNCHANGED <<cancelling, sweep>>
    BY <1>5 DEF DeleteReturns
  <2>2. call.id \in OrderIds /\ (connected => resting[call.id] = 0) /\ ~InFlight
    BY <1>2, <2>1, ViewTypes DEF Gone, Idle, InFlight
  <2>3. QED BY <1>4, <2>1, <2>2
<1>6. CASE CancelReturns(returned.id, returned.ok)
  <2>1. /\ returned.id \in cancelling /\ Deletes(returned.id, returned.ok) /\ call' = call
        /\ cancelling' \subseteq cancelling /\ UNCHANGED sweep
    BY <1>6 DEF CancelReturns
  <2>2. ~InFlight
    BY <2>1 DEF VInv, Frames
  <2>3. returned.op = "delete"
    BY <1>1, <2>2 DEF VInv, Frames, NoneOrDelete
  <2>4. QED BY <1>3, <1>4, <2>1, <2>2, <2>3
<1>7. CASE SweepReturns(returned.id, returned.ok)
  <2>1. /\ returned.id \in sweep /\ Deletes(returned.id, returned.ok)
        /\ UNCHANGED <<call, cancelling>> /\ sweep' = sweep \ {returned.id}
    BY <1>7 DEF SweepReturns
  <2>2. sweep # {}
    BY <2>1
  <2>3. returned.op = "delete"
    BY <1>1, <2>2 DEF VInv, Frames, NoneOrDelete
  <2>4. QED BY <1>3, <1>4, <2>1, <2>2, <2>3
<1>8. QED BY <1>5, <1>6, <1>7 DEF GateReturns

LEMMA DeletesVInv ==
    ASSUME OInv, VInv, GateReturns, ~(SendReturns(returned.ok) \/ ModifyReturns(returned.ok))
    PROVE  VInv'
<1>1. /\ UNCHANGED <<resting, executed, stream, connected, lastId, reported, doubtful>>
      /\ SparesInFlight
      /\ \/ /\ waiting' = outer.waiting /\ returned' = outer.returned /\ outer' = NoFrame
            /\ sweep # {} /\ sweep' = {}
         \/ /\ waiting' = None /\ returned' = None /\ outer' = outer
            /\ sweep = {} \/ sweep' # {}
  BY ReturnsStack
<1>2. /\ UNCHANGED isShutdown /\ cancelling' \subseteq cancelling
      /\ call' = call \/ (call' = Idle /\ call.op = "delete")
      /\ ~InFlight \/ sweep # {}
  BY DeletesGate
<1>3. PICK d \in OrderIds :
         /\ connected => resting[d] = 0
         /\ sweep' = sweep \/ sweep' = sweep \ {d}
         /\ \/ UNCHANGED <<open, exposure>>
            \/ /\ \A x \in OrderIds \ {d} :
                     open'[x] = open[x] /\ exposure'.pending[x] = exposure.pending[x]
               /\ open'[d] = NoOrder /\ exposure'.pending[d] = NoOrder
  BY DeletesGate
<1>4. UNCHANGED spared
  BY <1>1, <1>2 DEF SparesInFlight
<1>5. /\ InFlight' <=> InFlight
      /\ InFlight => call' = call
  BY <1>2 DEF InFlight, Idle
<1>6. Frames'
  <2>1. \A id \in OrderIds : id > lastId' => open'[id] = NoOrder /\ exposure'.pending[id] = NoOrder
    BY <1>1, <1>3 DEF VInv, Frames
  <2>2. call' # Idle => call'.id <= lastId'
    BY <1>1, <1>2 DEF VInv, Frames
  <2>3. InFlight' => cancelling' = {}
    BY <1>2, <1>5 DEF VInv, Frames
  <2>4. sweep' = {} => outer' = NoFrame
    BY <1>1 DEF VInv, Frames
  <2>5. IF isShutdown' THEN InFlight' => spared' = {call'.id} ELSE spared' = {}
    BY <1>2, <1>4, <1>5 DEF VInv, Frames
  <2>6. ~InFlight => NoneOrDelete(outer.waiting) /\ NoneOrDelete(outer.returned)
    BY DEF VInv, Frames
  <2>7. NoneOrDelete(None)
    BY DEF NoneOrDelete
  <2>8. ~InFlight' \/ sweep' # {} => NoneOrDelete(waiting') /\ NoneOrDelete(returned')
    BY <1>1, <1>5, <2>6, <2>7
  <2>9. ~InFlight' => NoneOrDelete(outer'.waiting) /\ NoneOrDelete(outer'.returned)
    BY <1>1, <1>5, <2>6, <2>7 DEF NoFrame
  <2>10. QED BY <2>1, <2>2, <2>3, <2>4, <2>5, <2>8, <2>9 DEF Frames, NoneOrDelete, None, Client!None, NoFrame
<1>7. AllGone => AllGone'
  <2>1. Gone(None) /\ Gone(Idle)
    BY DEF Gone, None, Client!None, Idle
  <2>2. ASSUME AllGone
        PROVE  /\ Gone(call') /\ Gone(waiting') /\ Gone(returned')
               /\ Gone(outer'.waiting) /\ Gone(outer'.returned)
    BY <1>1, <1>2, <2>1, <2>2 DEF AllGone, NoFrame
  <2>3. QED BY <1>1, <2>2 DEF AllGone, Gone
<1>8. ASSUME connected, NEW x \in Untroubled' PROVE View(x)'
  <2>1. x \in OrderIds /\ x \in Untroubled /\ View(x)
    BY <1>1, <1>4, <1>8 DEF Untroubled, VInv
  <2>2. ~NewOf(x) /\ ~ModifyOf(x) /\ ~NewOf(x)' /\ ~ModifyOf(x)'
    <3>1. ~NewOf(x) /\ ~ModifyOf(x)
      BY <1>2, <2>1, SweptNotInFlight
    <3>2. QED BY <1>2, <3>1 DEF NewOf, ModifyOf, Idle
  <2>3. resting[d] = 0 /\ resting'[d] = 0
    BY <1>1, <1>3, <1>8
  <2>4. SweepCovers(x)'
    BY <1>1, <1>2, <1>3, <2>1, <2>3 DEF View, SweepCovers
  <2>5. CASE open'[x] = open[x] /\ exposure'.pending[x] = exposure.pending[x]
    BY <1>1, <2>1, <2>2, <2>4, <2>5, Elsewhere
  <2>6. CASE x = d /\ open'[d] = NoOrder /\ exposure'.pending[d] = NoOrder
    <3>1. RestsOpen(x)' /\ PendingIsDue(x)' /\ RefusedInFlight(x)'
      BY <2>3, <2>6 DEF RestsOpen, PendingIsDue, RefusedInFlight
    <3>2. DoneIsTold(x)'
      BY <1>1, <2>1 DEF View, DoneIsTold
    <3>3. NewIsDue(x)' /\ ModifyIsDue(x)'
      BY <2>2 DEF NewIsDue, ModifyIsDue
    <3>4. QED BY <2>4, <3>1, <3>2, <3>3 DEF View
  <2>7. QED BY <1>3, <2>1, <2>5, <2>6
<1>9. QED BY <1>1, <1>6, <1>7, <1>8 DEF VInv


\* A request that is in flight asked for one of the quantities.
LEMMA AsksVInv ==
    ASSUME OInv, AsksForSome, [OverNext]_allVars
    PROVE  AsksForSome'
<1>1. ASSUME call' \in {call, Idle} \/ ~InFlight' PROVE AsksForSome'
  BY <1>1 DEF AsksForSome, InFlight, Idle
<1>2. ASSUME NEW id \in OrderIds, NEW qty \in OrderQty, NEW price \in Price,
             (\E s \in Side : SendNew(id, s, qty, price)) \/ Modify(id, qty, price)
      PROVE  AsksForSome'
  <2>1. \/ call' = call
        \/ \E op, s : call' = [op |-> op, id |-> id, order |-> [side |-> s, qty |-> qty]]
    BY <1>2 DEF SendNew, Modify, SendNewOrder, ModifyOrder, Request
  <2>2. QED BY <1>1, <2>1 DEF AsksForSome
<1>3. ASSUME NEW id \in OrderIds, Delete(id) \/ LoopDelete(id)
      PROVE  AsksForSome'
  <2>1. call' = call \/ call' = [op |-> "delete", id |-> id]
    BY <1>3 DEF Delete, DeleteOrder, LoopDelete, vars, frames
  <2>2. QED BY <1>1, <2>1 DEF InFlight
<1>4. CASE CancelAll \/ ReadFails \/ Environment \/ UNCHANGED allVars
  <2>1. call' = call
    BY <1>4 DEF CancelAll, CancelAllOpenOrders, ReadFails, Environment, allVars, vars, frames
  <2>2. QED BY <1>1, <2>1
<1>5. CASE ReadResponse
  BY <1>1, <1>5, ReadGate
<1>6. CASE GateReturns
  <2>1. call' \in {call, Idle}
    BY <1>6 DEF GateReturns, SendReturns, ModifyReturns, Registers, DeleteReturns, CancelReturns, SweepReturns
  <2>2. QED BY <1>1, <2>1
<1>7. QED BY <1>2, <1>3, <1>4, <1>5, <1>6 DEF OverNext

LEMMA ViewInvariance == OverSpec => [](OInv /\ VInv)
<1>1. OverInit => VInv /\ AsksForSome
  <2> SUFFICES ASSUME OverInit PROVE VInv /\ AsksForSome
    OBVIOUS
  <2>1. /\ resting = [id \in OrderIds |-> 0] /\ executed = [id \in OrderIds |-> 0]
        /\ reported = [id \in OrderIds |-> 0] /\ stream = <<>>
        /\ waiting = None /\ returned = None /\ outer = NoFrame /\ spared = {}
        /\ open = [id \in OrderIds |-> NoOrder]
        /\ exposure.pending = [id \in OrderIds |-> NoOrder]
        /\ call = Idle /\ cancelling = {} /\ sweep = {} /\ isShutdown = FALSE
    BY Bounds DEF OverInit, Init, Client!Init, None
  <2>2. AsksForSome /\ ~InFlight
    BY <2>1 DEF AsksForSome, InFlight, Idle
  <2>3. Frames
    BY <2>1, <2>2 DEF Frames, NoneOrDelete, NoFrame
  <2>4. AllGone
    BY <2>1 DEF AllGone, Gone, NoFrame, None, Client!None, Idle
  <2>5. ASSUME NEW x \in OrderIds PROVE View(x)
    <3>1. Len(stream) = 0
      BY <2>1, EmptySeq
    <3>2. \A kinds : ~Ahead(stream, x, kinds)
      BY <3>1 DEF Ahead
    <3>3. ~NewOf(x) /\ ~ModifyOf(x)
      BY <2>1 DEF NewOf, ModifyOf, Idle
    <3>4. /\ open[x] = NoOrder /\ exposure.pending[x] = NoOrder /\ resting[x] = 0
          /\ ~(reported[x] < executed[x])
      BY <2>1
    <3>5. QED BY <2>1, <3>2, <3>3, <3>4 DEF View, RestsOpen, PendingIsDue, RefusedInFlight, DoneIsTold,
                                          NewIsDue, ModifyIsDue, SweepCovers
  <2>6. QED BY <2>2, <2>3, <2>4, <2>5 DEF VInv, Untroubled
<1>2. ASSUME OInv, VInv, AsksForSome, [OverNext]_allVars
      PROVE  VInv' /\ AsksForSome'
  <2>1. ASSUME NEW id \in OrderIds, NEW qty \in OrderQty, NEW price \in Price,
               (\E s \in Side : SendNew(id, s, qty, price)) \/ Modify(id, qty, price)
        PROVE  VInv'
    BY <1>2, <2>1, SendNewVInv, ModifyVInv
  <2>2. ASSUME GateReturns PROVE VInv'
    <3>1. CASE SendReturns(returned.ok) \/ ModifyReturns(returned.ok)
      BY <1>2, <2>2, <3>1, RegistersVInv
    <3>2. CASE ~(SendReturns(returned.ok) \/ ModifyReturns(returned.ok))
      BY <1>2, <2>2, <3>2, DeletesVInv
    <3>3. QED BY <3>1, <3>2
  <2>3. VInv'
    BY <1>2, <2>1, <2>2, DeleteVInv, QuietVInv, ReadVInv, EnvironmentVInv DEF OverNext
  <2>4. QED BY <1>2, <2>3, AsksVInv
<1>3. QED BY <1>1, <1>2, OverInvariance, PTL DEF OverSpec

\* Over the client, for every number of orders, the gate's view of an order it has read all
\* about is the exchange's, unless its answers were misread or a shutdown spared it.
THEOREM ViewsAgreeOverClient == OverSpec => []ViewsAgreeUnlessMisled
<1>1. OInv /\ VInv => ViewsAgreeUnlessMisled
  <2> SUFFICES ASSUME OInv, VInv, connected, NEW x \in OrderIds \ (doubtful \cup spared),
                      ~Unread(x), call # Idle => call.id # x
               PROVE  /\ open[x] # NoOrder <=> resting[x] > 0
                      /\ exposure.pending[x].qty = resting[x]
    BY DEF ViewsAgreeUnlessMisled
  <2>1. x \in OrderIds /\ View(x)
    BY DEF VInv, Untroubled
  <2>2. ~NewOf(x) /\ ~ModifyOf(x)
    BY DEF NewOf, ModifyOf, Idle
  <2>3. stream \in Seq(CP!Messages) /\ DOMAIN stream = 1 .. Len(stream)
    BY ViewTypes, LenProperties
  <2>4. CP!Silent(stream, x) /\ \A kinds : ~Ahead(stream, x, kinds)
    <3>1. \A i \in 1 .. Len(stream) : stream[i].id # x
      BY <2>3 DEF Unread
    <3>2. QED BY <3>1 DEF CP!Silent, Ahead
  <2>5. CP!FillsIn(stream, x) = 0
    BY <2>3, <2>4, Bounds, CP!SilentTale
  <2>6. PICK r, e, t : r = resting[x] /\ e = executed[x] /\ t = reported[x]
    OBVIOUS
  <2>7. e = t + 0
    BY <2>1, <2>5, <2>6, FillsAhead
  <2>8. r \in Nat /\ e \in Nat /\ t \in Nat
    BY <2>1, <2>6, ViewTypes
  <2>9. Due(x) = r
    BY <2>6, <2>7, <2>8 DEF Due
  <2>10. IF open[x] = NoOrder
         THEN exposure.pending[x] = NoOrder
         ELSE exposure.pending[x].qty = r /\ r > 0
    BY <2>1, <2>2, <2>4, <2>9 DEF View, PendingIsDue
  <2>11. open[x] = NoOrder => r = 0
    BY <2>1, <2>2, <2>6 DEF View, RestsOpen
  <2>12. QED BY <2>6, <2>8, <2>10, <2>11 DEF NoOrder
<1>2. QED BY <1>1, ViewInvariance, PTL

\* And when a shutdown has run to its end, what still works at the exchange is the order
\* that was in flight when it began, or one whose answers were misread.
THEOREM ShutdownCancelsAllItCan == OverSpec => []ShutdownCancelsTheRest
<1>1. OInv /\ VInv => ShutdownCancelsTheRest
  BY DEF ShutdownCancelsTheRest, Ready, VInv, Untroubled, View, SweepCovers
<1>2. QED BY <1>1, ViewInvariance, PTL
=============================================================================
