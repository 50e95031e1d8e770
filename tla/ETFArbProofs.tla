---------------------------- MODULE ETFArbProofs ---------------------------
(***************************************************************************)
(* The strategy thread uses its client as the client expects: whatever it  *)
(* trades, and whatever the ETF service does, each of its steps is a step  *)
(* of OEClient or none. So what is proved of the client holds under it: no *)
(* order that an arb sent without waiting starves the wait for its answer, *)
(* and live_orders_, which the PnL guard cancels, is right.                *)
(*                                                                         *)
(* The proof needs that the ids the thread keeps are ids it has drawn: a   *)
(* quote is deleted by its kept id.                                        *)
(*                                                                         *)
(* The market maker never loses sight of a quote: for any basket, limits   *)
(* and number of orders, a bid or ask of it that works at the exchange is  *)
(* the one whose id the loop keeps, while the connection is there. An id   *)
(* is forgotten in two ways. The fill callback forgets it on a closing     *)
(* fill, so such a fill, unread, must mean that nothing of its order works *)
(* (Drawn). A delete forgets it whatever the delete returns, and a new     *)
(* quote replaces it, so the requote must have cleared it before           *)
(* (Cleared).                                                              *)
(*                                                                         *)
(* The books close: for every symbol, what the exchange executed for the   *)
(* bot since the start is what the position tells and what the stream      *)
(* still holds (PositionsAreAccounted), conversions at the ETF service     *)
(* included. It rests on the client's tale of fills.                       *)
(*                                                                         *)
(* From the books, the limits. Reach(s, side) is what the bot would hold   *)
(* if all its orders of one side filled; what it holds lies between the    *)
(* two, and where nothing of the symbol is out, what it has read lies      *)
(* there too. Every step is of one of few kinds (Trades): it sends nothing,*)
(* reads, converts what is covered, sells what is covered, or orders BLUE. *)
(* SInv keeps the sells covered: it says why, at each place of an arb, the *)
(* next sell or conversion is (the legs bought, the one buy a redemption   *)
(* waits for, the dorms it brought). MInv keeps BLUE between the least and *)
(* the most of BlueWithinTwiceLimit: a bid, an ask and a flatten order are *)
(* out at the most (OneEach), none for more than it may be (Sizes), and    *)
(* what the market maker read when it began still bounds what there is to  *)
(* buy when it sends the flatten order (PosAtRead).                        *)
(***************************************************************************)
EXTENDS ETFArb, OEClientProofs

-----------------------------------------------------------------------------
(* Ids *)

\* Ids drawn, and the id a call returned
IdsOK ==
    /\ lastId \in 0 .. MaxOrders
    /\ returned # None => returned.id \in ClientIds

QuotesOK == {bidId, askId, flattenId} \subseteq 0 .. lastId

AInv == CInv /\ IdsOK /\ QuotesOK

\* A kept id changes to that of the order just sent, or is cleared.
QuotesMove ==
    /\ bidId' \in {bidId, 0, lastId'}
    /\ askId' \in {askId, 0, lastId'}
    /\ flattenId' \in {flattenId, 0, lastId'}

ClientStep == [Next]_vars /\ QuotesMove

\* The client draws at most one id in a step, and returns only drawn ones.
LEMMA IdsStep == CInv /\ IdsOK /\ [Next]_vars => IdsOK' /\ lastId' \in {lastId, lastId + 1}
<1> SUFFICES ASSUME CInv, IdsOK, [Next]_vars PROVE IdsOK' /\ lastId' \in {lastId, lastId + 1}
  OBVIOUS
<1>1. waiting # None => waiting.id \in ClientIds
  BY DEF CInv, TInv, Typed, Ids
<1>2. ASSUME lastId' = lastId, returned' # None => returned'.id \in ClientIds
      PROVE  IdsOK' /\ lastId' \in {lastId, lastId + 1}
  BY <1>2 DEF IdsOK
<1>3. ASSUME NEW id \in ClientIds, NEW qty \in 1 .. MaxQty,
             SendNewOrder(id, qty) \/ SendNewOrderNoWait(id, qty)
      PROVE  IdsOK' /\ lastId' \in {lastId, lastId + 1}
  <2>1. lastId' = lastId + 1 /\ lastId' \in ClientIds /\ returned' = None
    BY <1>3 DEF SendNewOrder, SendNewOrderNoWait, Waits
  <2>2. QED BY <2>1, BoundsAssumption DEF IdsOK, ClientIds
<1>4. CASE \/ \E id \in ClientIds, qty \in 1 .. MaxQty : ModifyOrder(id, qty)
           \/ \E id \in ClientIds : DeleteOrder(id) \/ CancelNext(id) \/ WaitForFill(id)
           \/ WaitForResponse
           \/ CancelAllOpenOrders
  <2>1. lastId' = lastId /\ returned' = None
    BY <1>4 DEF DeleteOrder, CancelNext, WaitForFill, ModifyOrder, WaitForResponse,
       CancelAllOpenOrders, Waits, caller
  <2>2. QED BY <1>2, <2>1
<1>5. CASE Read
  <2>1. /\ lastId' = lastId /\ waiting # None
        /\ UNCHANGED returned \/ \E ok : returned' = [op |-> waiting.op, id |-> waiting.id, ok |-> ok]
    BY <1>5 DEF Read, ReadResponse, ReadFill, ReadFails, ReadOne, Return, caller, Responding, None
  <2>2. QED BY <1>1, <1>2, <2>1 DEF IdsOK
<1>6. CASE Disconnect \/ \E id \in ClientIds, qty \in 1 .. MaxQty : ExchangeFills(id, qty)
  <2>1. UNCHANGED <<lastId, returned>>
    BY <1>6 DEF Disconnect, ExchangeFills, caller
  <2>2. QED BY <1>2, <2>1 DEF IdsOK
<1>7. CASE UNCHANGED vars
  BY <1>7 DEF IdsOK, vars, caller
<1>8. QED BY <1>3, <1>4, <1>5, <1>6, <1>7 DEF Next, Strategy

-----------------------------------------------------------------------------
(* The thread's calls *)

\* Sending an order
LEMMA PlaceStep ==
    ASSUME AInv, NEW s, NEW side, NEW qty, NEW role, NEW next, Place(s, side, qty, role, next)
    PROVE  [Next]_vars
<1>1. qty \in 1 .. MaxQty /\ lastId + 1 \in ClientIds /\ SendNewOrder(lastId + 1, qty)
  BY BoundsAssumption DEF Place, AInv, IdsOK, ClientIds
<1>2. QED BY <1>1 DEF Next, Strategy

\* Sending an order without waiting
LEMMA PlaceNoWaitStep ==
    ASSUME AInv, NEW s, NEW side, NEW qty, NEW next, PlaceNoWait(s, side, qty, next)
    PROVE  ClientStep
<1>1. qty \in 1 .. MaxQty /\ lastId + 1 \in ClientIds /\ SendNewOrderNoWait(lastId + 1, qty)
      /\ UNCHANGED quotes
  BY BoundsAssumption DEF PlaceNoWait, AInv, IdsOK, ClientIds
<1>2. QED BY <1>1 DEF Next, Strategy, ClientStep, QuotesMove, quotes

\* Deleting a quote by its kept id
LEMMA SafeDeleteStep ==
    ASSUME AInv, NEW id \in {bidId, askId}, NEW next, SafeDelete(id, next)
    PROVE  [Next]_vars
<1>1. id # 0 => id \in ClientIds
  BY BoundsAssumption DEF AInv, IdsOK, QuotesOK, ClientIds
<1>2. QED BY <1>1 DEF SafeDelete, Next, Strategy

\* Closing out a position
LEMMA CloseOutStep ==
    ASSUME AInv, NEW next, CloseOut(next)
    PROVE  ClientStep
<1>1. CASE Goes(next) /\ UNCHANGED vars
  BY <1>1 DEF Goes, ClientStep, QuotesMove, quotes
<1>2. CASE \E s, side, qty : Place(s, side, qty, "arb", next) /\ UNCHANGED quotes
  BY <1>2, PlaceStep DEF ClientStep, QuotesMove, quotes
<1>3. QED BY <1>1, <1>2 DEF CloseOut

\* A step that makes no call
LEMMA QuietStep == UNCHANGED <<vars, quotes>> => ClientStep
  BY DEF ClientStep, QuotesMove, quotes

-----------------------------------------------------------------------------
(* Each step *)

\* The arbs and their unwinds
LEMMA ArbitrageStep == AInv /\ (Arbitrage \/ SellUndy \/ ArbTimeout) => ClientStep
<1> SUFFICES ASSUME AInv, Arbitrage \/ SellUndy \/ ArbTimeout PROVE ClientStep
  OBVIOUS
<1>1. CASE \/ \E qty \in 1 .. MaxQty : StartCreation(qty)
           \/ LegsCollected \/ PollTimeout \/ UndySold \/ AbandonRedemption
           \/ Collected \/ EndArb \/ NoArb \/ ArbTimeout
  <2>1. UNCHANGED <<vars, quotes>>
    BY <1>1 DEF StartCreation, LegsCollected, PollTimeout, UndySold, AbandonRedemption, Collected,
       EndArb, NoArb, ArbTimeout, Stays
  <2>2. QED BY <2>1, QuietStep
<1>2. CASE Create \/ Redeem \/ ArbFlat
  <2>1. UNCHANGED <<vars, quotes>>
    BY <1>2 DEF Create, Redeem, ArbFlat, EtfCall, Goes
  <2>2. QED BY <2>1, QuietStep
<1>3. CASE CollectLeg \/ Collect
  <2>1. WaitForResponse /\ UNCHANGED quotes
    BY <1>3 DEF CollectLeg, Collect, Goes
  <2>2. QED BY <2>1 DEF Next, Strategy, ClientStep, QuotesMove, quotes
<1>4. CASE AwaitUndy
  <2>1. WaitForFill(returned.id) /\ UNCHANGED quotes
    BY <1>4 DEF AwaitUndy, Goes
  <2>2. returned # None
    BY <2>1 DEF WaitForFill, None
  <2>3. returned.id \in ClientIds
    BY <2>2 DEF AInv, IdsOK
  <2>4. QED BY <2>1, <2>3 DEF Next, Strategy, ClientStep, QuotesMove, quotes
<1>5. CASE BuyLeg \/ SellLeg
  BY <1>5, PlaceNoWaitStep DEF BuyLeg, SellLeg
<1>6. CASE Unwind
  <2>1. CASE \E d, side, qty, next : PlaceNoWait(d, side, qty, next)
    BY <2>1, PlaceNoWaitStep
  <2>2. CASE UNCHANGED <<vars, quotes>>
    BY <2>2, QuietStep
  <2>3. QED BY <1>6, <2>1, <2>2 DEF Unwind, Goes
<1>7. CASE SellUndy \/ ForceUndy \/ \E qty \in 1 .. MaxQty : StartRedemption(qty)
  <2>1. CASE \E s, side, qty, role, next : Place(s, side, qty, role, next) /\ UNCHANGED quotes
    BY <2>1, PlaceStep DEF ClientStep, QuotesMove, quotes
  <2>2. CASE UNCHANGED <<vars, quotes>>
    BY <2>2, QuietStep
  <2>3. QED BY <1>7, <2>1, <2>2 DEF SellUndy, ForceUndy, StartRedemption, Goes
<1>8. CASE Residual
  BY <1>8, CloseOutStep DEF Residual
<1>9. QED BY <1>1, <1>2, <1>3, <1>4, <1>5, <1>6, <1>7, <1>8 DEF Arbitrage

\* The PnL guard
LEMMA GuardStep == AInv /\ Guard => ClientStep
<1> SUFFICES ASSUME AInv, Guard PROVE ClientStep
  OBVIOUS
<1>1. CASE PnlGuard \/ GuardAsk
  <2>1. [Next]_vars
    BY <1>1, SafeDeleteStep DEF PnlGuard, GuardAsk
  <2>2. QED BY <1>1, <2>1 DEF PnlGuard, GuardAsk, ClientStep, QuotesMove
<1>2. CASE GuardCancel
  BY <1>2 DEF GuardCancel, Goes, Next, Strategy, ClientStep, QuotesMove, quotes
<1>3. ASSUME NEW id \in ClientIds, GuardDelete(id) PROVE ClientStep
  BY <1>3 DEF GuardDelete, Goes, Next, Strategy, ClientStep, QuotesMove, quotes
<1>4. CASE GuardFlatten
  BY <1>4, CloseOutStep DEF GuardFlatten
<1>5. CASE GuardResume
  <2>1. UNCHANGED <<vars, quotes>>
    BY <1>5 DEF GuardResume, Goes
  <2>2. QED BY <2>1, QuietStep
<1>6. QED BY <1>1, <1>2, <1>3, <1>4, <1>5 DEF Guard

\* The market maker
LEMMA MarketMakerStep == AInv /\ MarketMaker => ClientStep
<1> SUFFICES ASSUME AInv, MarketMaker PROVE ClientStep
  OBVIOUS
<1>1. ASSUME NEW id \in {bidId, askId}, NEW next, SafeDelete(id, next), QuotesMove PROVE ClientStep
  BY <1>1, SafeDeleteStep DEF ClientStep
<1>2. ASSUME NEW s, NEW side, NEW qty, NEW role, NEW next, Place(s, side, qty, role, next), QuotesMove
      PROVE  ClientStep
  BY <1>2, PlaceStep DEF ClientStep
<1>3. CASE MmKeep
  <2>1. UNCHANGED <<vars, quotes>>
    BY <1>3 DEF MmKeep, Goes
  <2>2. QED BY <2>1, QuietStep
<1>4. CASE MmBid \/ MmAsk
  <2>1. CASE UNCHANGED <<vars, quotes>>
    BY <2>1, QuietStep
  <2>2. CASE \E id \in {bidId, askId} : \E next : SafeDelete(id, next) /\ QuotesMove
    BY <1>1, <2>2
  <2>3. QED BY <1>4, <2>1, <2>2 DEF MmBid, MmAsk, Goes, QuotesMove
<1>5. CASE MmMove \/ MmMoveAsk
  <2>1. \E id \in {bidId, askId} : \E next : SafeDelete(id, next) /\ QuotesMove
    BY <1>5 DEF MmMove, MmMoveAsk, QuotesMove
  <2>2. QED BY <1>1, <2>1
<1>6. CASE MmFlatten
  <2>1. CASE Stays /\ QuotesMove
    BY <2>1 DEF Stays, ClientStep
  <2>2. CASE \E s, side, qty, role, next : Place(s, side, qty, role, next) /\ QuotesMove
    BY <1>2, <2>2
  <2>3. QED BY <1>6, <2>1, <2>2 DEF MmFlatten, QuotesMove
<1>7. CASE QuoteBid \/ QuoteAsk
  <2>1. CASE UNCHANGED <<vars, quotes>>
    BY <2>1, QuietStep
  <2>2. CASE \E s, side, qty, role, next : Place(s, side, qty, role, next) /\ QuotesMove
    BY <1>2, <2>2
  <2>3. QED BY <1>7, <2>1, <2>2 DEF QuoteBid, QuoteAsk, Goes, QuotesMove
<1>8. QED BY <1>3, <1>4, <1>5, <1>6, <1>7 DEF MarketMaker

\* Reads with their callbacks, and what happens outside the thread
LEMMA OutsideStep == Reads \/ Environment => ClientStep
<1>1. CASE ReadAny
  <2>1. Read
    BY <1>1 DEF ReadAny, Read
  <2>2. QuotesMove
    BY <1>1 DEF ReadAny, Callback, QuotesMove
  <2>3. QED BY <2>1, <2>2 DEF Next, ClientStep
<1>2. CASE ReadFails /\ UNCHANGED arbVars
  BY <1>2 DEF Read, Next, ClientStep, QuotesMove, arbVars, quotes
<1>3. CASE Environment
  BY <1>3 DEF Environment, Next, ClientStep, QuotesMove, arbVars, quotes
<1>4. QED BY <1>1, <1>2, <1>3 DEF Reads

\* At the start no id is kept.
LEMMA InitAInv == ArbInit => AInv
<1>1. ArbInit => CInv
  BY InitCInv DEF ArbInit
<1>2. ArbInit => IdsOK /\ QuotesOK
  BY BoundsAssumption DEF ArbInit, Init, IdsOK, QuotesOK
<1>3. QED BY <1>1, <1>2 DEF AInv

\* A step of the thread is a step of its client, or no step of it, and keeps the ids.
LEMMA NextAInv == AInv /\ [ArbNext]_allVars => AInv' /\ [Next]_vars
<1> SUFFICES ASSUME AInv, [ArbNext]_allVars PROVE AInv' /\ [Next]_vars
  OBVIOUS
<1>1. ClientStep
  <2>1. CASE UNCHANGED allVars
    BY <2>1, QuietStep DEF allVars, arbVars
  <2>2. QED BY <2>1, ArbitrageStep, GuardStep, MarketMakerStep, OutsideStep DEF ArbNext
<1>2. CInv' /\ IdsOK' /\ lastId' \in {lastId, lastId + 1}
  BY <1>1, NextCInv, IdsStep DEF AInv, ClientStep
<1>3. QuotesOK'
  <2>1. lastId \in Nat
    BY DEF AInv, IdsOK
  <2>2. 0 .. lastId \subseteq 0 .. lastId' /\ {0, lastId'} \subseteq 0 .. lastId'
    BY <1>2, <2>1
  <2>3. QED BY <1>1, <2>2 DEF AInv, QuotesOK, QuotesMove, ClientStep
<1>4. QED BY <1>1, <1>2, <1>3 DEF AInv, ClientStep

-----------------------------------------------------------------------------
(* What follows *)

\* The strategy thread implements the client's specification.
THEOREM ArbImplementsClient == ArbSpec => Spec
<1>1. ArbInit => Init
  BY DEF ArbInit
<1>2. QED BY <1>1, InitAInv, NextAInv, PTL DEF ArbSpec, Spec

\* So under the arbs and the market maker too, no wait for a response starves, and the
\* PnL guard cancels exactly what works once all has been read.
THEOREM ArbKeepsItsAnswers == ArbSpec => []AnswerStillAhead /\ []LiveOrdersCatchUp
  BY ArbImplementsClient, NoAnswerIsStolen, LiveOrdersAreKnown, PTL

-----------------------------------------------------------------------------
(* The exchange's side: drawn ids and closing fills *)

Closes(m) == m.type = "FILL" /\ m.closed

\* Only drawn ids work, and a closing fill is of a drawn id that is done.
Drawn ==
    /\ \A id \in ClientIds : Works(id) => id <= lastId
    /\ \A i \in 1 .. Len(stream) :
          Closes(stream[i]) => stream[i].id <= lastId /\ ~Works(stream[i].id)

\* What is not working starts to only when its id is drawn.
StartsOnlyDrawn ==
    /\ \A id \in ClientIds : Works(id)' => Works(id) \/ (id = lastId' /\ lastId' = lastId + 1)
    /\ lastId' \in {lastId, lastId + 1}
    /\ connected' => connected

\* The stream loses its first message, or all, or gets some that close truly.
StreamMoves ==
    \/ stream' = stream \/ stream' = <<>>
    \/ stream # <<>> /\ stream' = Tail(stream)
    \/ \E msgs \in Seq(Messages) :
          /\ stream' = stream \o msgs
          /\ \A k \in 1 .. Len(msgs) :
                Closes(msgs[k]) => msgs[k].id <= lastId' /\ resting'[msgs[k].id] = 0

\* A request made to the exchange
LEMMA SendsMove ==
    ASSUME CInv, NEW id \in ClientIds,
           IF connected THEN \E msgs : Answered(id, msgs) ELSE UNCHANGED <<resting, stream>>,
           id <= lastId'
    PROVE  StreamMoves
<1>1. CASE ~connected
  BY <1>1 DEF StreamMoves
<1>2. CASE connected
  <2>1. PICK msgs : Answered(id, msgs)
    BY <1>2
  <2>2. /\ msgs \in Seq(Messages) /\ stream' = stream \o msgs
        /\ \A k \in 1 .. Len(msgs) :
              msgs[k].id = id /\ (BearsOn(msgs[k], id) /\ msgs[k].type = "FILL" => ~Works(id)')
    BY <2>1 DEF Answered, Emit
  <2>3. \A k \in 1 .. Len(msgs) : Closes(msgs[k]) => msgs[k].id <= lastId' /\ resting'[msgs[k].id] = 0
    BY <2>1, <2>2 DEF Answered, BearsOn, Closes, Works
  <2>4. QED BY <2>2, <2>3 DEF StreamMoves
<1>3. QED BY <1>1, <1>2

\* One message more
LEMMA OneMessageMoves ==
    ASSUME NEW m \in Messages, stream' = stream \o <<m>>,
           Closes(m) => m.id <= lastId' /\ resting'[m.id] = 0
    PROVE  StreamMoves
<1>1. <<m>> \in Seq(Messages) /\ \A k \in 1 .. Len(<<m>>) : <<m>>[k] = m
  OBVIOUS
<1>2. QED BY <1>1 DEF StreamMoves

\* What every step of the client does to working orders and to the stream.
LEMMA ClientMoves == CInv /\ IdsOK /\ Drawn /\ [Next]_vars => StartsOnlyDrawn /\ StreamMoves
<1> SUFFICES ASSUME CInv, IdsOK, Drawn, [Next]_vars PROVE StartsOnlyDrawn /\ StreamMoves
  OBVIOUS
<1>1. Typed /\ lastId \in Nat /\ resting \in [ClientIds -> Nat]
  BY DEF CInv, TInv, Typed, IdsOK
<1>2. lastId' \in {lastId, lastId + 1}
  BY IdsStep
<1>3. ASSUME UNCHANGED <<resting, stream>>, connected' => connected PROVE StartsOnlyDrawn /\ StreamMoves
  BY <1>2, <1>3 DEF StartsOnlyDrawn, StreamMoves, Works
<1>4. ASSUME NEW id \in ClientIds, NEW qty \in 1 .. MaxQty,
             SendNewOrder(id, qty) \/ SendNewOrderNoWait(id, qty)
      PROVE  StartsOnlyDrawn /\ StreamMoves
  <2>1. id = lastId' /\ lastId' = lastId + 1 /\ connected' = connected
    BY <1>4 DEF SendNewOrder, SendNewOrderNoWait
  <2>2. IF connected THEN \E msgs : Answered(id, msgs) ELSE UNCHANGED <<resting, stream>>
    BY <1>1, <1>4, NewAnswered DEF SendNewOrder, SendNewOrderNoWait, Sends
  <2>3. \E n : resting' = [resting EXCEPT ![id] = n] \/ resting' = resting
    BY <1>4 DEF SendNewOrder, SendNewOrderNoWait, Sends, ExchangeTakesNew
  <2>4. StartsOnlyDrawn
    BY <1>1, <1>2, <2>1, <2>3 DEF StartsOnlyDrawn, Works
  <2>5. id <= lastId'
    BY <1>1, <2>1
  <2>6. QED BY <2>2, <2>4, <2>5, SendsMove
<1>5. ASSUME NEW id \in ClientIds, NEW qty \in 1 .. MaxQty,
             DeleteOrder(id) \/ ModifyOrder(id, qty)
      PROVE  StartsOnlyDrawn /\ StreamMoves
  <2>1. id <= lastId /\ lastId' = lastId /\ connected' = connected
    BY <1>5 DEF DeleteOrder, ModifyOrder, caller
  <2>2. IF connected THEN \E msgs : Answered(id, msgs) ELSE UNCHANGED <<resting, stream>>
    BY <1>1, <1>5, OtherAnswered DEF DeleteOrder, ModifyOrder, Sends
  <2>3. \/ resting' = resting \/ resting' = [resting EXCEPT ![id] = 0]
        \/ Works(id) /\ resting' = [resting EXCEPT ![id] = qty]
    BY <1>5 DEF DeleteOrder, ModifyOrder, Sends, ExchangeTakesDelete, ExchangeTakesModify, Works
  <2>4. StartsOnlyDrawn
    BY <1>1, <1>2, <2>1, <2>3 DEF StartsOnlyDrawn, Works
  <2>5. QED BY <2>1, <2>2, <2>4, SendsMove
<1>6. ASSUME WaitForResponse \/ CancelAllOpenOrders \/ ReadFails \/ UNCHANGED vars
             \/ \E id \in ClientIds : WaitForFill(id)
      PROVE  StartsOnlyDrawn /\ StreamMoves
  <2>1. UNCHANGED <<resting, stream, connected>>
    BY <1>6 DEF WaitForResponse, CancelAllOpenOrders, ReadFails, WaitForFill, vars, exchange
  <2>2. QED BY <1>3, <2>1
<1>7. ASSUME ReadResponse \/ \E late \in BOOLEAN : ReadFill(late)
      PROVE  StartsOnlyDrawn /\ StreamMoves
  <2>1. stream # <<>> /\ stream' = Tail(stream) /\ UNCHANGED <<resting, connected>>
    BY <1>7 DEF ReadResponse, ReadFill, ReadOne, exchange
  <2>2. QED BY <1>2, <2>1 DEF StartsOnlyDrawn, StreamMoves, Works
<1>8. ASSUME Disconnect PROVE StartsOnlyDrawn /\ StreamMoves
  <2>1. connected' = FALSE /\ stream' = <<>> /\ resting' = resting
    BY <1>8 DEF Disconnect
  <2>2. StartsOnlyDrawn
    BY <1>2, <2>1 DEF StartsOnlyDrawn, Works
  <2>3. QED BY <2>1, <2>2 DEF StreamMoves
<1>9. ASSUME NEW id \in ClientIds, CancelNext(id) PROVE StartsOnlyDrawn /\ StreamMoves
  <2>1. UNCHANGED <<lastId, connected>>
    BY <1>9 DEF CancelNext
  <2>2. \A reason \in Reasons : {Close(id), Reject(id, reason)} \subseteq {m \in Messages : ~Closes(m)}
    BY MessageTypes DEF Closes, Close, Reject
  <2>3. ASSUME ExchangeTakesDelete(id)
        PROVE  /\ resting' = [resting EXCEPT ![id] = 0]
               /\ \E m \in Messages : ~Closes(m) /\ stream' = stream \o <<m>>
    <3>1. "UNKNOWN_ORDER_ID" \in Reasons
      BY DEF Reasons
    <3>2. QED BY <2>2, <2>3, <3>1 DEF ExchangeTakesDelete, Emit
  <2>4. UNCHANGED <<resting, stream>> \/ ExchangeTakesDelete(id)
    BY <1>9 DEF CancelNext, Sends
  <2>5. StartsOnlyDrawn
    BY <1>1, <1>2, <2>1, <2>3, <2>4 DEF StartsOnlyDrawn, Works
  <2>6. QED BY <2>3, <2>4, <2>5, OneMessageMoves DEF StreamMoves
<1>10. ASSUME NEW id \in ClientIds, NEW qty \in 1 .. MaxQty, ExchangeFills(id, qty)
       PROVE  StartsOnlyDrawn /\ StreamMoves
  <2> DEFINE closed == resting[id] = qty
             m == Fill(id, qty, closed)
  <2>1. /\ stream' = stream \o <<m>> /\ resting' = [resting EXCEPT ![id] = @ - qty]
        /\ UNCHANGED <<connected, lastId>>
    BY <1>10 DEF ExchangeFills, Emit, caller
  <2>2. qty \in Nat /\ qty > 0 /\ resting[id] \in Nat /\ qty <= resting[id] /\ closed \in BOOLEAN
    BY <1>1, <1>10, BoundsAssumption DEF ExchangeFills
  <2>3. Works(id) /\ id <= lastId
    BY <2>2 DEF Works, Drawn
  <2>4. \A i \in ClientIds : Works(i)' => Works(i)
    BY <1>1, <2>1, <2>2, <2>3 DEF Works
  <2>5. StartsOnlyDrawn
    BY <1>2, <2>1, <2>4 DEF StartsOnlyDrawn
  <2>6. closed => resting'[id] = 0
    <3>1. resting'[id] = resting[id] - qty
      BY <1>1, <2>1
    <3>2. resting[id] = qty => resting[id] - qty = 0
      BY <2>2
    <3>3. QED BY <3>1, <3>2
  <2>7. m \in Messages /\ (Closes(m) => m.id <= lastId' /\ resting'[m.id] = 0)
    <3> HIDE DEF closed
    <3>1. m \in Messages
      <4>1. qty \in Nat \ {0}
        BY <2>2
      <4>2. closed \in BOOLEAN
        BY <2>2
      <4>3. QED BY <4>1, <4>2, MessageTypes
    <3>2. m.id = id /\ (m.closed <=> closed)
      BY DEF Fill
    <3>3. Closes(m) => closed
      BY <3>2 DEF Closes
    <3>4. QED BY <2>1, <2>3, <2>6, <3>1, <3>2, <3>3
  <2> HIDE DEF m
  <2>8. QED BY <2>1, <2>5, <2>7, OneMessageMoves
<1>11. CASE Strategy
  <2>1. CASE \E id \in ClientIds, qty \in 1 .. MaxQty :
                SendNewOrder(id, qty) \/ SendNewOrderNoWait(id, qty) \/ ModifyOrder(id, qty)
    BY <1>4, <1>5, <2>1
  <2>2. CASE \E id \in ClientIds : DeleteOrder(id) \/ CancelNext(id) \/ WaitForFill(id)
    <3>1. 1 \in 1 .. MaxQty
      BY BoundsAssumption
    <3>2. QED BY <1>5, <1>6, <1>9, <2>2, <3>1
  <2>3. QED BY <1>6, <1>11, <2>1, <2>2 DEF Strategy
<1>12. CASE Read
  BY <1>6, <1>7, <1>12 DEF Read
<1>13. CASE \E id \in ClientIds, qty \in 1 .. MaxQty : ExchangeFills(id, qty)
  BY <1>10, <1>13
<1>14. CASE Next
  BY <1>8, <1>11, <1>12, <1>13, <1>14 DEF Next
<1>15. QED BY <1>6, <1>14

\* So it stays true that only drawn ids work, and that closing fills are of done orders.
LEMMA DrawnStep ==
    CInv /\ IdsOK /\ Drawn /\ [Next]_vars => Drawn' /\ StartsOnlyDrawn
<1> SUFFICES ASSUME CInv, IdsOK, Drawn, [Next]_vars PROVE Drawn' /\ StartsOnlyDrawn
  OBVIOUS
<1>1. StartsOnlyDrawn /\ StreamMoves
  BY ClientMoves
<1>2. /\ lastId \in Nat /\ lastId' \in {lastId, lastId + 1} /\ ClientIds \subseteq Nat
      /\ stream \in Seq(Messages) /\ stream' \in Seq(Messages) /\ resting' \in [ClientIds -> Nat]
  <2>1. CInv' /\ lastId' \in {lastId, lastId + 1}
    BY NextCInv, IdsStep
  <2>2. Typed /\ Typed'
    BY <2>1 DEF CInv, TInv
  <2>3. /\ stream \in Seq(Messages) /\ stream' \in Seq(Messages)
        /\ resting' \in [ClientIds -> Nat]
    BY <2>2 DEF Typed
  <2>4. lastId \in Nat /\ ClientIds \subseteq Nat
    BY BoundsAssumption DEF IdsOK, ClientIds
  <2>5. QED BY <2>1, <2>3, <2>4
<1>3. \A id \in ClientIds : Works(id)' => id <= lastId'
  BY <1>1, <1>2 DEF StartsOnlyDrawn, Drawn
<1>4. \A m \in Messages :
          Closes(m) /\ m.id <= lastId /\ ~Works(m.id) => m.id <= lastId' /\ ~Works(m.id)'
  <2>1. TAKE m \in Messages
  <2>2. m.id \in ClientIds
    BY DEF Messages
  <2>3. HAVE Closes(m) /\ m.id <= lastId /\ ~Works(m.id)
  <2>4. m.id <= lastId' /\ ~(m.id = lastId' /\ lastId' = lastId + 1)
    <3> DEFINE n == m.id
    <3>1. n \in Nat /\ n <= lastId
      BY <1>2, <2>2, <2>3
    <3> HIDE DEF n
    <3>2. n <= lastId' /\ ~(n = lastId' /\ lastId' = lastId + 1)
      BY <1>2, <3>1
    <3>3. QED BY <3>2 DEF n
  <2>5. QED BY <1>1, <2>2, <2>3, <2>4 DEF StartsOnlyDrawn
<1>5. ASSUME NEW i \in 1 .. Len(stream'), Closes(stream'[i])
      PROVE  stream'[i].id <= lastId' /\ ~(resting'[stream'[i].id] > 0)
  <2>1. \A j \in 1 .. Len(stream) :
            Closes(stream[j]) => stream[j].id <= lastId' /\ ~(resting'[stream[j].id] > 0)
    <3>1. TAKE j \in 1 .. Len(stream)
    <3>2. stream[j] \in Messages
      BY <1>2
    <3>3. HAVE Closes(stream[j])
    <3>4. stream[j].id <= lastId /\ ~Works(stream[j].id)
      BY <3>3 DEF Drawn
    <3>5. QED BY <1>4, <3>2, <3>3, <3>4 DEF Works
  <2>2. CASE stream' = stream \/ stream' = <<>>
    BY <1>5, <2>1, <2>2
  <2>3. CASE stream # <<>> /\ stream' = Tail(stream)
    <3>1. i + 1 \in 1 .. Len(stream) /\ stream'[i] = stream[i + 1]
      BY <1>2, <2>3, HeadTailProperties, LenProperties, EmptySeq
    <3>2. QED BY <1>5, <2>1, <3>1
  <2>4. ASSUME NEW msgs \in Seq(Messages), stream' = stream \o msgs,
               \A k \in 1 .. Len(msgs) :
                   Closes(msgs[k]) => msgs[k].id <= lastId' /\ resting'[msgs[k].id] = 0
        PROVE  stream'[i].id <= lastId' /\ ~(resting'[stream'[i].id] > 0)
    <3>1. CASE i \in 1 .. Len(stream)
      <4>1. stream'[i] = stream[i]
        BY <1>2, <2>4, <3>1, ConcatProperties
      <4>2. QED BY <1>5, <2>1, <3>1, <4>1
    <3>2. CASE i \notin 1 .. Len(stream)
      <4>1. i - Len(stream) \in 1 .. Len(msgs) /\ stream'[i] = msgs[i - Len(stream)]
        BY <1>2, <2>4, <3>2, ConcatProperties, LenProperties
      <4>2. QED BY <1>5, <2>4, <4>1
    <3>3. QED BY <3>1, <3>2
  <2>5. QED BY <1>1, <2>2, <2>3, <2>4 DEF StreamMoves
<1>6. QED BY <1>1, <1>3, <1>5 DEF Drawn, Works, Closes

-----------------------------------------------------------------------------
(* The market maker's side: kept ids *)

Requoting == {"mmMoveAsk", "mmQuoteBid", "mmQuoteAsk"}

\* Between its deletes and its orders, a requote has no id of the sides yet to quote.
Cleared ==
    /\ pc.at \in {"mmMoveAsk", "mmQuoteBid"} => bidId = 0
    /\ pc.at \in {"mmQuoteBid", "mmQuoteAsk"} => askId = 0

QInv ==
    /\ AInv /\ Drawn
    /\ "at" \in DOMAIN pc /\ DOMAIN sent = ClientIds
    /\ Cleared /\ QuotesAreTracked

\* The thread is not brought into a requote.
Elsewhere == "at" \in DOMAIN pc' /\ (pc'.at = pc.at \/ pc'.at \notin Requoting)

\* An id is dropped only if its order is done, and no order is sent.
DropsDone ==
    /\ UNCHANGED <<sent, lastId>>
    /\ bidId' = bidId \/ (bidId' = 0 /\ \A id \in ClientIds : connected' /\ Works(id)' => id # bidId)
    /\ askId' = askId \/ (askId' = 0 /\ \A id \in ClientIds : connected' /\ Works(id)' => id # askId)

SentAs(role) ==
    /\ lastId' = lastId + 1 /\ lastId' \in ClientIds
    /\ \E s, side : sent' = [sent EXCEPT ![lastId'] = [symbol |-> s, side |-> side, role |-> role]]

\* An order is sent that is no quote.
SendsOther ==
    /\ SentAs("arb") \/ SentAs("flatten")
    /\ UNCHANGED <<bidId, askId>>

\* A quote is sent on a side without one, and its id kept.
SendsQuote ==
    \/ SentAs("bid") /\ bidId = 0 /\ bidId' = lastId' /\ askId' = askId
    \/ SentAs("ask") /\ askId = 0 /\ askId' = lastId' /\ bidId' = bidId

LEMMA PlaceSends ==
    ASSUME IdsOK, NEW s, NEW side, NEW qty, NEW role, NEW next, Place(s, side, qty, role, next)
    PROVE  SentAs(role) /\ pc' = next
<1>1. lastId \in Nat /\ lastId < MaxOrders /\ MaxOrders \in Nat
  BY BoundsAssumption DEF Place, IdsOK
<1>2. lastId' = lastId + 1 /\ pc' = next
      /\ sent' = [sent EXCEPT ![lastId'] = [symbol |-> s, side |-> side, role |-> role]]
  BY DEF Place, SendNewOrder, Enter
<1>3. lastId' \in ClientIds
  BY <1>1, <1>2 DEF ClientIds
<1>4. QED BY <1>2, <1>3 DEF SentAs

LEMMA PlaceNoWaitSends ==
    ASSUME IdsOK, NEW s, NEW side, NEW qty, NEW next, PlaceNoWait(s, side, qty, next)
    PROVE  SendsOther /\ pc' = next
<1>1. lastId \in Nat /\ lastId < MaxOrders /\ MaxOrders \in Nat
  BY BoundsAssumption DEF PlaceNoWait, IdsOK
<1>2. lastId' = lastId + 1 /\ pc' = next /\ UNCHANGED <<bidId, askId>>
      /\ sent' = [sent EXCEPT ![lastId'] = [symbol |-> s, side |-> side, role |-> "arb"]]
  BY DEF PlaceNoWait, SendNewOrderNoWait, Enter, quotes
<1>3. lastId' \in ClientIds
  BY <1>1, <1>2 DEF ClientIds
<1>4. QED BY <1>2, <1>3 DEF SentAs, SendsOther

\* A step that neither sends an order nor drops an id
LEMMA KeepsAll == UNCHANGED <<sent, lastId, bidId, askId>> => DropsDone
  BY DEF DropsDone

\* A deleted quote no longer works.
LEMMA SafeDeleteDone ==
    ASSUME AInv, NEW id \in {bidId, askId}, NEW next, SafeDelete(id, next)
    PROVE  /\ UNCHANGED <<sent, lastId>> /\ pc' = next
           /\ \A i \in ClientIds : connected' /\ Works(i)' => i # id
<1>1. UNCHANGED <<sent, lastId>> /\ pc' = next
  BY DEF SafeDelete, DeleteOrder, maps, vars, caller
<1>2. CASE id = 0
  BY <1>1, <1>2 DEF ClientIds
<1>3. CASE id # 0
  <2>1. connected' = connected /\ (connected => resting' = [resting EXCEPT ![id] = 0])
    BY <1>3 DEF SafeDelete, DeleteOrder, Sends, ExchangeTakesDelete
  <2>2. resting \in [ClientIds -> Nat]
    BY DEF AInv, CInv, TInv, Typed
  <2>3. QED BY <1>1, <2>1, <2>2 DEF Works
<1>4. QED BY <1>2, <1>3

\* Closing out a position is no quote.
LEMMA CloseOutMoves ==
    ASSUME IdsOK, NEW next, CloseOut(next)
    PROVE  (DropsDone \/ SendsOther) /\ pc' = next
<1>1. CASE Goes(next) /\ UNCHANGED vars
  BY <1>1, KeepsAll DEF Goes, maps, vars, caller, quotes
<1>2. CASE \E s, side, qty : Place(s, side, qty, "arb", next) /\ UNCHANGED quotes
  BY <1>2, PlaceSends DEF SendsOther, quotes
<1>3. QED BY <1>1, <1>2 DEF CloseOut

-----------------------------------------------------------------------------
(* Each step *)

\* A call of an arb, its place, and what the arb does to ids and orders
LEMMA ArbitrageMoves ==
    ASSUME QInv, Arbitrage \/ SellUndy \/ ArbTimeout
    PROVE  Elsewhere /\ (DropsDone \/ SendsOther)
<1>1. IdsOK /\ "at" \in DOMAIN pc
  BY DEF QInv, AInv
<1>2. ASSUME UNCHANGED <<vars, maps, quotes>> PROVE DropsDone
  BY <1>2, KeepsAll DEF vars, caller, maps, quotes
<1>3. CASE \/ \E qty \in 1 .. MaxQty : StartCreation(qty)
           \/ LegsCollected \/ PollTimeout \/ UndySold \/ AbandonRedemption
           \/ Collected \/ EndArb \/ NoArb \/ ArbTimeout
  <2>1. UNCHANGED <<vars, maps, quotes>>
    BY <1>3 DEF StartCreation, LegsCollected, PollTimeout, UndySold, AbandonRedemption, Collected,
       EndArb, NoArb, ArbTimeout, Stays
  <2>2. Elsewhere
    BY <1>3 DEF StartCreation, LegsCollected, PollTimeout, UndySold, AbandonRedemption, Collected,
       EndArb, NoArb, ArbTimeout, ToMM, ToUnwind, Elsewhere, Requoting
  <2>3. QED BY <1>2, <2>1, <2>2
<1>4. CASE Create \/ Redeem \/ ArbFlat
  <2>1. UNCHANGED <<vars, maps, quotes>>
    BY <1>4 DEF Create, Redeem, ArbFlat, EtfCall, Goes
  <2>2. Elsewhere
    BY <1>4 DEF Create, Redeem, ArbFlat, EtfCall, Goes, Elsewhere, Requoting
  <2>3. QED BY <1>2, <2>1, <2>2
<1>5. CASE CollectLeg \/ Collect \/ AwaitUndy
  <2>1. UNCHANGED <<sent, lastId, bidId, askId>>
    BY <1>5 DEF CollectLeg, Collect, AwaitUndy, Goes, WaitForResponse, WaitForFill, caller, maps, quotes
  <2>2. Elsewhere
    BY <1>1, <1>5 DEF CollectLeg, Collect, AwaitUndy, Goes, Elsewhere, Requoting
  <2>3. QED BY <2>1, <2>2, KeepsAll
<1>6. CASE BuyLeg \/ SellLeg
  <2>1. SendsOther
    BY <1>1, <1>6, PlaceNoWaitSends DEF BuyLeg, SellLeg
  <2>2. Elsewhere
    BY <1>1, <1>6 DEF BuyLeg, SellLeg, PlaceNoWait, Elsewhere, Requoting
  <2>3. QED BY <2>1, <2>2
<1>7. CASE Unwind
  <2>1. pc' = UnwindNext
    BY <1>7 DEF Unwind, PlaceNoWait, Goes
  <2>2. Elsewhere
    BY <1>1, <2>1 DEF UnwindNext, Elsewhere, Requoting
  <2>3. CASE \E d, side, qty, next : PlaceNoWait(d, side, qty, next)
    BY <1>1, <2>2, <2>3, PlaceNoWaitSends
  <2>4. CASE UNCHANGED <<vars, maps, quotes>>
    BY <1>2, <2>2, <2>4
  <2>5. QED BY <1>7, <2>3, <2>4 DEF Unwind, Goes
<1>8. CASE SellUndy \/ ForceUndy \/ \E qty \in 1 .. MaxQty : StartRedemption(qty)
  <2>1. Elsewhere
    BY <1>1, <1>8 DEF SellUndy, ForceUndy, StartRedemption, Place, Goes, Elsewhere, Requoting
  <2>2. CASE \E s, side, qty, next : Place(s, side, qty, "arb", next) /\ UNCHANGED quotes
    BY <1>1, <2>1, <2>2, PlaceSends DEF SendsOther, quotes
  <2>3. CASE UNCHANGED <<vars, maps, quotes>>
    BY <1>2, <2>1, <2>3
  <2>4. QED BY <1>8, <2>2, <2>3 DEF SellUndy, ForceUndy, StartRedemption, Goes
<1>9. CASE Residual
  <2>1. (DropsDone \/ SendsOther)
        /\ pc' = IF Len(pc.todo) = 1 THEN [at |-> "endArb"] ELSE [pc EXCEPT !.todo = Tail(@)]
    BY <1>1, <1>9, CloseOutMoves DEF Residual
  <2>2. QED BY <1>1, <2>1 DEF Elsewhere, Requoting
<1>10. QED BY <1>3, <1>4, <1>5, <1>6, <1>7, <1>8, <1>9 DEF Arbitrage

\* A kept id is dropped without any order sent.
LEMMA DroppedBid ==
    ASSUME AInv, NEW next, SafeDelete(bidId, next), bidId' = 0, askId' = askId
    PROVE  DropsDone
  BY SafeDeleteDone DEF DropsDone

LEMMA DroppedAsk ==
    ASSUME AInv, NEW next, SafeDelete(askId, next), askId' = 0, bidId' = bidId
    PROVE  DropsDone
  BY SafeDeleteDone DEF DropsDone

LEMMA GuardMoves ==
    ASSUME QInv, Guard
    PROVE  Elsewhere /\ (DropsDone \/ SendsOther)
<1>1. AInv /\ IdsOK /\ "at" \in DOMAIN pc
  BY DEF QInv, AInv
<1>2. CASE PnlGuard \/ GuardAsk
  <2>1. Elsewhere
    BY <1>2 DEF PnlGuard, GuardAsk, SafeDelete, Elsewhere, Requoting
  <2>2. QED BY <1>1, <1>2, <2>1, DroppedBid, DroppedAsk DEF PnlGuard, GuardAsk
<1>3. CASE GuardCancel \/ GuardResume \/ \E id \in ClientIds : GuardDelete(id)
  <2>1. UNCHANGED <<sent, lastId, bidId, askId>>
    BY <1>3 DEF GuardCancel, GuardResume, GuardDelete, CancelNext, CancelAllOpenOrders, Goes,
       vars, caller, maps, quotes
  <2>2. Elsewhere
    BY <1>1, <1>3 DEF GuardCancel, GuardResume, GuardDelete, Goes, Loop, Elsewhere, Requoting
  <2>3. QED BY <2>1, <2>2, KeepsAll
<1>4. CASE GuardFlatten
  <2>1. (DropsDone \/ SendsOther)
        /\ pc' = IF Len(pc.todo) = 1 THEN [at |-> "guardWait"] ELSE [pc EXCEPT !.todo = Tail(@)]
    BY <1>1, <1>4, CloseOutMoves DEF GuardFlatten
  <2>2. QED BY <1>1, <2>1 DEF Elsewhere, Requoting
<1>5. QED BY <1>2, <1>3, <1>4 DEF Guard

\* The market maker outside its requote
LEMMA MarketMakerMoves ==
    ASSUME QInv, MmBid \/ MmAsk \/ MmFlatten \/ MmKeep
    PROVE  Elsewhere /\ (DropsDone \/ SendsOther)
<1>1. AInv /\ IdsOK /\ "at" \in DOMAIN pc
  BY DEF QInv, AInv
<1>2. CASE MmBid \/ MmAsk
  <2>1. pc' = [pc EXCEPT !.at = "mmAsk"] \/ pc' = [pc EXCEPT !.at = "mmFlatten"]
    BY <1>2 DEF MmBid, MmAsk, SafeDelete, Goes
  <2>2. Elsewhere
    BY <1>1, <2>1 DEF Elsewhere, Requoting
  <2>3. CASE Goes(pc') /\ UNCHANGED vars
    BY <2>2, <2>3, KeepsAll DEF Goes, vars, caller, maps, quotes
  <2>4. CASE SafeDelete(bidId, pc') /\ bidId' = 0 /\ askId' = askId
    BY <1>1, <2>2, <2>4, DroppedBid
  <2>5. CASE SafeDelete(askId, pc') /\ askId' = 0 /\ bidId' = bidId
    BY <1>1, <2>2, <2>5, DroppedAsk
  <2>6. QED BY <1>2, <2>3, <2>4, <2>5 DEF MmBid, MmAsk, Goes, SafeDelete
<1>3. CASE MmFlatten
  <2>1. pc' = [at |-> "mmQuote"]
    BY <1>3 DEF MmFlatten, Place
  <2>2. Elsewhere
    BY <2>1 DEF Elsewhere, Requoting
  <2>3. CASE Place("BLUE", "BUY", -pc.pos, "flatten", [at |-> "mmQuote"]) /\ UNCHANGED <<bidId, askId>>
    BY <1>1, <2>2, <2>3, PlaceSends DEF SendsOther
  <2>4. CASE Stays /\ UNCHANGED <<bidId, askId>>
    BY <2>2, <2>4, KeepsAll DEF Stays, vars, caller, maps
  <2>5. QED BY <1>3, <2>3, <2>4 DEF MmFlatten
<1>4. CASE MmKeep
  <2>1. UNCHANGED <<sent, lastId, bidId, askId>> /\ pc' = Loop
    BY <1>4 DEF MmKeep, Goes, vars, caller, maps, quotes
  <2>2. QED BY <2>1, KeepsAll DEF Elsewhere, Requoting, Loop
<1>5. QED BY <1>2, <1>3, <1>4

\* The requote: each delete leaves its side without an id, which its quote then takes.
LEMMA RequoteMoves ==
    ASSUME QInv, MmMove \/ MmMoveAsk \/ QuoteBid \/ QuoteAsk
    PROVE  "at" \in DOMAIN pc' /\ Cleared' /\ (DropsDone \/ SendsQuote)
<1>1. AInv /\ IdsOK /\ Cleared
  BY DEF QInv, AInv
<1>2. CASE MmMove
  <2>1. SafeDelete(bidId, [at |-> "mmMoveAsk"]) /\ bidId' = 0 /\ askId' = askId
    BY <1>2 DEF MmMove
  <2>2. pc' = [at |-> "mmMoveAsk"]
    BY <2>1 DEF SafeDelete
  <2>3. QED BY <1>1, <2>1, <2>2, DroppedBid DEF Cleared
<1>3. CASE MmMoveAsk
  <2>1. SafeDelete(askId, [at |-> "mmQuoteBid"]) /\ askId' = 0 /\ bidId' = bidId /\ pc.at = "mmMoveAsk"
    BY <1>3 DEF MmMoveAsk, At
  <2>2. pc' = [at |-> "mmQuoteBid"]
    BY <2>1 DEF SafeDelete
  <2>3. QED BY <1>1, <2>1, <2>2, DroppedAsk DEF Cleared
<1>4. CASE QuoteBid
  <2>1. pc' = [at |-> "mmQuoteAsk"] /\ pc.at = "mmQuoteBid" /\ askId' = askId
    BY <1>4 DEF QuoteBid, At, Place, Goes, quotes
  <2>2. CASE Place("BLUE", "BUY", 1, "bid", [at |-> "mmQuoteAsk"]) /\ bidId' = lastId'
    BY <1>1, <2>1, <2>2, PlaceSends DEF Cleared, SendsQuote
  <2>3. CASE UNCHANGED <<sent, lastId, bidId, askId>>
    BY <1>1, <2>1, <2>3, KeepsAll DEF Cleared
  <2>4. QED BY <1>4, <2>2, <2>3 DEF QuoteBid, Goes, vars, caller, maps, quotes
<1>5. CASE QuoteAsk
  <2>1. pc' = Loop /\ pc.at = "mmQuoteAsk" /\ bidId' = bidId
    BY <1>5 DEF QuoteAsk, At, Place, Goes, quotes
  <2>2. "at" \in DOMAIN pc' /\ Cleared'
    BY <2>1 DEF Loop, Cleared
  <2>3. CASE Place("BLUE", "SELL", 1, "ask", Loop) /\ askId' = lastId'
    BY <1>1, <2>1, <2>2, <2>3, PlaceSends DEF Cleared, SendsQuote
  <2>4. CASE UNCHANGED <<sent, lastId, bidId, askId>>
    BY <2>2, <2>4, KeepsAll
  <2>5. QED BY <1>5, <2>3, <2>4 DEF QuoteAsk, Goes, vars, caller, maps, quotes
<1>6. QED BY <1>2, <1>3, <1>4, <1>5

\* A read: its callback drops the id of the order whose closing fill it is.
LEMMA ReadMoves ==
    ASSUME QInv, ReadAny
    PROVE  Elsewhere /\ DropsDone
<1> DEFINE m == stream[1]
<1>1. UNCHANGED <<sent, lastId, pc>> /\ resting' = resting
  BY DEF ReadAny, Callback, ReadResponse, ReadFill, ReadOne, exchange, caller
<1>2. 1 \in 1 .. Len(stream) /\ Head(stream) = m
  BY EmptySeq, LenProperties, HeadTailProperties DEF ReadAny, QInv, AInv, CInv, TInv, Typed
<1>3. \/ bidId' = bidId
      \/ bidId' = 0 /\ Closes(m) /\ m.id = bidId
  BY <1>2 DEF ReadAny, Callback, Closes
<1>4. \/ askId' = askId
      \/ askId' = 0 /\ Closes(m) /\ m.id = askId
  BY <1>2 DEF ReadAny, Callback, Closes
<1>5. Closes(m) => \A id \in ClientIds : Works(id)' => id # m.id
  BY <1>1, <1>2 DEF QInv, Drawn, Works
<1>6. Elsewhere
  BY <1>1 DEF QInv, Elsewhere
<1> HIDE DEF m
<1>7. QED BY <1>1, <1>3, <1>4, <1>5, <1>6 DEF DropsDone

\* What happens outside the thread
LEMMA OutsideMoves ==
    ASSUME QInv, (ReadFails /\ UNCHANGED arbVars) \/ Environment \/ UNCHANGED allVars
    PROVE  Elsewhere /\ DropsDone
<1>1. UNCHANGED <<sent, lastId, bidId, askId, pc>>
  BY DEF ReadFails, Environment, Disconnect, ExchangeFills, arbVars, allVars, vars, caller, maps, quotes
<1>2. QED BY <1>1, KeepsAll DEF QInv, Elsewhere

\* Whatever the step, then, no order of a side works but the kept one.
LEMMA NextQInv == QInv /\ [ArbNext]_allVars => QInv'
<1> SUFFICES ASSUME QInv, [ArbNext]_allVars PROVE QInv'
  OBVIOUS
<1>1. AInv' /\ Drawn' /\ StartsOnlyDrawn
  BY NextAInv, DrawnStep DEF QInv, AInv
<1>2. \/ Elsewhere /\ (DropsDone \/ SendsOther)
      \/ "at" \in DOMAIN pc' /\ Cleared' /\ (DropsDone \/ SendsQuote)
  BY ArbitrageMoves, GuardMoves, MarketMakerMoves, RequoteMoves, ReadMoves, OutsideMoves
     DEF ArbNext, MarketMaker, Reads
<1>3. "at" \in DOMAIN pc' /\ Cleared'
  BY <1>2 DEF QInv, Elsewhere, Requoting, Cleared, DropsDone, SendsOther
<1>4. DOMAIN sent' = ClientIds
  BY <1>2 DEF QInv, DropsDone, SendsOther, SendsQuote, SentAs
<1>5. \A id \in ClientIds : connected' /\ Works(id)' /\ ~(id = lastId' /\ lastId' = lastId + 1) =>
          /\ sent[id].role = "bid" => id = bidId
          /\ sent[id].role = "ask" => id = askId
  BY <1>1 DEF QInv, QuotesAreTracked, StartsOnlyDrawn, Works
<1>6. lastId \in Nat
  BY DEF QInv, AInv, IdsOK
<1>7. ASSUME connected', NEW id \in ClientIds, Works(id)'
      PROVE  /\ sent'[id].role = "bid" => id = bidId'
             /\ sent'[id].role = "ask" => id = askId'
  <2>1. CASE DropsDone
    <3>1. sent' = sent /\ ~(id = lastId' /\ lastId' = lastId + 1)
      BY <1>6, <2>1 DEF DropsDone
    <3>2. QED BY <1>5, <1>7, <2>1, <3>1 DEF DropsDone
  <2>2. ASSUME NEW role, SentAs(role)
        PROVE  IF id = lastId' THEN sent'[id].role = role ELSE sent'[id] = sent[id]
    BY <2>2 DEF SentAs, QInv
  <2>3. CASE SendsOther
    BY <1>5, <1>7, <2>2, <2>3 DEF SendsOther
  <2>4. CASE SendsQuote
    <3>1. id # 0
      BY DEF ClientIds
    <3>2. QED BY <1>5, <1>7, <2>2, <2>4, <3>1 DEF SendsQuote
  <2>5. QED BY <1>2, <2>1, <2>3, <2>4
<1>8. QuotesAreTracked'
  BY <1>7 DEF QuotesAreTracked, Works
<1>9. QED BY <1>1, <1>3, <1>4, <1>8 DEF QInv

\* At the start no order works.
LEMMA InitQInv == ArbInit => QInv
<1> SUFFICES ASSUME ArbInit PROVE QInv
  OBVIOUS
<1>1. AInv
  BY InitAInv
<1>2. /\ pc = Loop /\ sent = [id \in ClientIds |-> Unused] /\ bidId = 0 /\ askId = 0
      /\ stream = <<>> /\ resting = [id \in ClientIds |-> 0]
  BY DEF ArbInit, Init
<1>3. Drawn
  BY <1>2 DEF Drawn, Works
<1>4. QED BY <1>1, <1>2, <1>3 DEF QInv, Loop, Cleared, QuotesAreTracked

\* However the market maker's requotes, the arbs and the fills interleave, and whatever its
\* deletes return, every bid or ask of it that works is the one whose id the loop keeps.
THEOREM NoQuoteIsLost == ArbSpec => []QuotesAreTracked
<1>1. QInv => QuotesAreTracked
  BY DEF QInv
<1>2. QED BY <1>1, InitQInv, NextQInv, PTL DEF ArbSpec

-----------------------------------------------------------------------------
(* Where the thread is, and what a step of it does to the counts *)

\* Lists of symbols and of dorms
Todo == Seq(Symbols) \ {<<>>}
Legs == Seq(Dorms) \ {<<>>}
Qtys == 1 .. MaxQty

\* Every place of the thread, with its locals
Places ==
    [at : {"loop", "forceUndy", "endArb", "guardAsk", "guardCancel", "guardWait",
           "mmQuote", "mmMoveAsk", "mmQuoteBid", "mmQuoteAsk"}]
        \cup [at : {"buyLegs", "sellLegs"}, todo : Legs, qty : Qtys]
        \cup [at : {"collectLegs"}, qty : Qtys, all : BOOLEAN]
        \cup [at : {"poll", "undySent", "undyFilled"}, qty : Qtys]
        \cup [at : {"sellUndy"}, attempts : Nat]
        \cup [at : {"unwind"}, todo : Legs, then : {"mm", "clear", "undy"}]
        \cup [at : {"collect"}, then : {"mm", "clear", "undy"}]
        \cup [at : {"residual"}, todo : Legs]
        \cup [at : {"guardFlatten"}, todo : Todo]
        \cup [at : {"mmBid", "mmAsk", "mmFlatten"}, pos : Int]

Sides == {"BUY", "SELL"}
Roles == {"arb", "flatten", "bid", "ask"}
Orders == [symbol : Symbols, side : Sides, role : Roles]

ArbTyped ==
    /\ pc \in Places
    /\ position \in [Symbols -> Int]
    /\ sent \in [ClientIds -> Orders \cup {Unused}]
    /\ \A id \in ClientIds : IF id <= lastId THEN sent[id] \in Orders ELSE sent[id] = Unused
    /\ routed \subseteq 1 .. lastId /\ overlapped \subseteq Symbols
    /\ arbInProgress \in BOOLEAN
    /\ etf \in Int /\ booked \in Int /\ lostReplies \in 0 .. MaxLostReplies

\* No order gets anything back, and what works of one that was sent only fills or goes.
Shrinks ==
    \A id \in ClientIds :
        id <= lastId =>
            executed'[id] >= executed[id] /\ executed'[id] + resting'[id] <= executed[id] + resting[id]

\* A step that sends no order and learns nothing
Quiet ==
    /\ Shrinks /\ (connected' => connected)
    /\ UNCHANGED <<position, maps, service, reported, lastId>>

\* An order is sent, and is accepted as a whole or rejected, or reaches nobody.
Ordered(s, side, qty, role) ==
    /\ Shrinks /\ lastId' = lastId + 1 /\ lastId' \in ClientIds
    /\ executed'[lastId'] + resting'[lastId'] \in IF connected THEN {0, qty} ELSE {0}
    /\ sent' = [sent EXCEPT ![lastId'] = [symbol |-> s, side |-> side, role |-> role]]
    /\ routed' = routed \cup {lastId'}
    /\ overlapped' = IF Outstanding(s, role) THEN overlapped \cup {s} ELSE overlapped
    /\ UNCHANGED <<position, service, reported, connected>>

\* The service answers, or its answer is lost.
Served(n) ==
    /\ UNCHANGED <<vars, maps>>
    /\ lostReplies' \in 0 .. MaxLostReplies
    /\ \/ etf' \in {etf, etf + n} /\ UNCHANGED <<position, booked>>
       \/ /\ etf' = etf + n /\ booked' = booked + n
          /\ position' = [s \in Symbols |-> position[s] + EtfEffect(n, s)]

SendsAny == \E s \in Symbols, side \in Sides, qty \in Qtys, role \in Roles : Ordered(s, side, qty, role)

Kind == Quiet \/ SendsAny \/ (\E n \in Int : Served(n)) \/ ReadAny

\* A step to another place, in one of these ways
Moves == pc' \in Places /\ arbInProgress' \in BOOLEAN /\ Kind

BInv == AInv /\ FInv /\ ArbTyped

\* The rest of a list
LEMMA ListFacts ==
    ASSUME NEW S, NEW todo \in Seq(S) \ {<<>>}
    PROVE  Head(todo) \in S /\ (Len(todo) # 1 => Tail(todo) \in Seq(S) \ {<<>>})
<1>1. todo \in Seq(S) /\ todo # <<>> /\ Len(todo) \in Nat /\ Len(todo) > 0
  OBVIOUS
<1>2. Head(todo) \in S /\ Tail(todo) \in Seq(S) /\ Len(Tail(todo)) = Len(todo) - 1
  BY <1>1
<1>3. Len(todo) # 1 => Len(Tail(todo)) # 0
  BY <1>1, <1>2
<1>4. ASSUME Len(todo) # 1 PROVE Tail(todo) # <<>>
  BY <1>2, <1>3, <1>4
<1>5. QED BY <1>2, <1>4

\* The symbols, and the lists of them
LEMMA TodoFacts ==
    /\ Dorms \subseteq Symbols /\ {"UNDY", "BLUE"} \subseteq Symbols
    /\ "UNDY" \notin Dorms /\ "BLUE" \notin Dorms
    /\ DormIds \in Legs /\ Legs \subseteq Todo /\ AllIds \in Todo
<1>1. Dorms \subseteq Symbols /\ {"UNDY", "BLUE"} \subseteq Symbols
  BY DEF Symbols
<1>2. DormIds \in Seq(STRING \ {"UNDY", "BLUE"}) /\ DormIds # <<>>
  BY BasketAssumption
<1>3. \A i \in 1 .. Len(DormIds) : DormIds[i] \in Dorms
  BY <1>2 DEF Dorms, Range
<1>4. DormIds \in Seq(Dorms) /\ DormIds \in Seq(Symbols)
  BY <1>1, <1>2, <1>3
<1>5. AllIds \in Seq(Symbols) /\ AllIds # <<>>
  <2>1. <<"BLUE">> \in Seq(Symbols) /\ <<"UNDY">> \in Seq(Symbols)
    BY <1>1
  <2>2. <<"BLUE">> \o DormIds \in Seq(Symbols) /\ Len(<<"BLUE">> \o DormIds) = 1 + Len(DormIds)
    BY <1>4, <2>1, ConcatProperties
  <2>3. AllIds \in Seq(Symbols) /\ Len(AllIds) = 1 + Len(DormIds) + 1
    BY <2>1, <2>2, ConcatProperties DEF AllIds
  <2>4. Len(DormIds) \in Nat
    BY <1>4
  <2>5. QED BY <2>3, <2>4
<1>6. \A d \in Dorms : d \in STRING \ {"UNDY", "BLUE"}
  BY <1>2 DEF Dorms, Range
<1>7. Legs \subseteq Todo
  BY <1>1 DEF Legs, Todo
<1>8. QED BY <1>1, <1>2, <1>4, <1>5, <1>6, <1>7 DEF Todo, Legs

\* The counts
LEMMA CountTypes ==
    ASSUME CInv, FInv
    PROVE  /\ executed \in [ClientIds -> Nat] /\ resting \in [ClientIds -> Nat]
           /\ reported \in [ClientIds -> Nat]
           /\ lastId \in Nat /\ ClientIds \subseteq Nat /\ stream \in Seq(Messages)
           /\ \A id \in ClientIds : reported[id] <= executed[id]
           /\ \A id \in ClientIds : id > lastId => executed[id] = 0 /\ resting[id] = 0 /\ reported[id] = 0
<1>1. /\ executed \in [ClientIds -> Nat] /\ reported \in [ClientIds -> Nat]
      /\ lastId \in 0 .. MaxOrders
      /\ \A id \in ClientIds : reported[id] <= executed[id]
      /\ \A id \in ClientIds : id > lastId => executed[id] = 0 /\ resting[id] = 0
  BY DEF FInv, Counted
<1>2. \A id \in ClientIds : id > lastId => reported[id] = 0
  BY <1>1
<1>3. QED BY <1>1, <1>2, BoundsAssumption DEF CInv, TInv, Typed, ClientIds

\* What sending an order does to the counts.
LEMMA SendCounts ==
    ASSUME CInv, FInv, NEW qty \in Qtys, lastId + 1 \in ClientIds,
           SendNewOrder(lastId + 1, qty) \/ SendNewOrderNoWait(lastId + 1, qty)
    PROVE  /\ Shrinks /\ lastId' = lastId + 1 /\ UNCHANGED <<reported, connected>>
           /\ executed'[lastId'] + resting'[lastId'] \in IF connected THEN {0, qty} ELSE {0}
<1> DEFINE id == lastId + 1
<1>1. /\ executed \in [ClientIds -> Nat] /\ resting \in [ClientIds -> Nat] /\ lastId \in Nat
      /\ ClientIds \subseteq Nat /\ executed[id] = 0 /\ resting[id] = 0 /\ qty \in Nat /\ id \in ClientIds
  BY CountTypes, BoundsAssumption DEF Qtys
<1>2. lastId' = id /\ UNCHANGED <<reported, connected>>
  BY DEF SendNewOrder, SendNewOrderNoWait, client
<1>3. \/ UNCHANGED <<executed, resting>>
      \/ /\ connected
         /\ \E now \in 0 .. qty :
               /\ resting' = [resting EXCEPT ![id] = qty - now]
               /\ executed' = [executed EXCEPT ![id] = now]
  BY DEF SendNewOrder, SendNewOrderNoWait, Sends, ExchangeTakesNew
<1>4. \A i \in ClientIds : i <= lastId => i # id
  BY <1>1
<1> HIDE DEF id
<1>5. \A i \in ClientIds \ {id} : executed'[i] = executed[i] /\ resting'[i] = resting[i]
  BY <1>1, <1>3
<1>6. executed'[id] + resting'[id] \in IF connected THEN {0, qty} ELSE {0}
  BY <1>1, <1>3
<1>7. Shrinks
  BY <1>1, <1>4, <1>5 DEF Shrinks
<1>8. QED BY <1>2, <1>6, <1>7 DEF id

\* What the other steps of the client do to them, reads apart.
LEMMA OtherCounts ==
    ASSUME CInv, FInv,
           \/ UNCHANGED vars \/ WaitForResponse \/ CancelAllOpenOrders \/ ReadFails \/ Disconnect
           \/ \E id \in ClientIds : DeleteOrder(id) \/ CancelNext(id) \/ WaitForFill(id)
           \/ \E id \in ClientIds, qty \in Qtys : ExchangeFills(id, qty)
    PROVE  Shrinks /\ UNCHANGED <<reported, lastId>> /\ (connected' => connected)
<1>1. executed \in [ClientIds -> Nat] /\ resting \in [ClientIds -> Nat]
  BY CountTypes
<1>2. ASSUME UNCHANGED <<executed, resting>> PROVE Shrinks
  BY <1>1, <1>2 DEF Shrinks
<1>3. CASE UNCHANGED vars \/ WaitForResponse \/ CancelAllOpenOrders \/ ReadFails \/ Disconnect
           \/ \E id \in ClientIds : WaitForFill(id)
  <2>1. CASE Disconnect
    BY <1>2, <2>1 DEF Disconnect, client, caller
  <2>2. CASE ~Disconnect
    <3>1. UNCHANGED <<executed, resting, reported, lastId, connected>>
      BY <1>3, <2>2 DEF vars, WaitForResponse, CancelAllOpenOrders, ReadFails, WaitForFill,
         exchange, client, caller
    <3>2. QED BY <1>2, <3>1
  <2>3. QED BY <2>1, <2>2
<1>4. ASSUME NEW id \in ClientIds, DeleteOrder(id) \/ CancelNext(id)
      PROVE  Shrinks /\ UNCHANGED <<reported, lastId>> /\ (connected' => connected)
  <2>1. UNCHANGED <<reported, lastId, connected, executed>> /\ resting' \in {resting, [resting EXCEPT ![id] = 0]}
    BY <1>4 DEF DeleteOrder, CancelNext, Sends, ExchangeTakesDelete, client, caller
  <2>2. QED BY <1>1, <2>1 DEF Shrinks
<1>5. ASSUME NEW id \in ClientIds, NEW qty \in Qtys, ExchangeFills(id, qty)
      PROVE  Shrinks /\ UNCHANGED <<reported, lastId>> /\ (connected' => connected)
  <2>1. /\ UNCHANGED <<reported, lastId, connected>> /\ qty \in 1 .. resting[id]
        /\ resting' = [resting EXCEPT ![id] = @ - qty] /\ executed' = [executed EXCEPT ![id] = @ + qty]
    BY <1>5 DEF ExchangeFills, client, caller
  <2>2. QED BY <1>1, <2>1 DEF Shrinks
<1>6. QED BY <1>3, <1>4, <1>5

\* Sending an order is one of the kinds.
LEMMA PlaceOrders ==
    ASSUME BInv, NEW s \in Symbols, NEW side \in Sides, NEW qty, NEW role \in Roles, NEW next,
           Place(s, side, qty, role, next)
    PROVE  pc' = next /\ qty \in Qtys /\ Ordered(s, side, qty, role)
<1>1. lastId \in Nat /\ lastId + 1 \in ClientIds /\ qty \in Qtys
  BY BoundsAssumption DEF Place, BInv, AInv, IdsOK, ClientIds, Qtys
<1>2. /\ Shrinks /\ lastId' = lastId + 1 /\ UNCHANGED <<reported, connected>>
      /\ executed'[lastId'] + resting'[lastId'] \in IF connected THEN {0, qty} ELSE {0}
  BY <1>1, SendCounts DEF Place, BInv, AInv
<1>3. QED BY <1>1, <1>2 DEF Place, Enter, Ordered

LEMMA PlaceNoWaitOrders ==
    ASSUME BInv, NEW s \in Symbols, NEW side \in Sides, NEW qty, NEW next,
           PlaceNoWait(s, side, qty, next)
    PROVE  pc' = next /\ arbInProgress' = arbInProgress /\ qty \in Qtys /\ Ordered(s, side, qty, "arb")
<1>1. lastId \in Nat /\ lastId + 1 \in ClientIds /\ qty \in Qtys
  BY BoundsAssumption DEF PlaceNoWait, BInv, AInv, IdsOK, ClientIds, Qtys
<1>2. /\ Shrinks /\ lastId' = lastId + 1 /\ UNCHANGED <<reported, connected>>
      /\ executed'[lastId'] + resting'[lastId'] \in IF connected THEN {0, qty} ELSE {0}
  BY <1>1, SendCounts DEF PlaceNoWait, BInv, AInv
<1>3. QED BY <1>1, <1>2 DEF PlaceNoWait, Enter, Ordered

\* So is closing out a position, whichever place is next.
LEMMA CloseOutOrders ==
    ASSUME BInv, Head(pc.todo) \in Symbols, NEW next, CloseOut(next)
    PROVE  pc' = next /\ arbInProgress' = arbInProgress /\ (Quiet \/ SendsAny)
<1>1. CASE Goes(next) /\ UNCHANGED vars
  BY <1>1, OtherCounts DEF Goes, BInv, AInv, Quiet, vars, exchange
<1>2. CASE Place(Head(pc.todo), Closing(Head(pc.todo)), Size(position[Head(pc.todo)]), "arb", next)
           /\ UNCHANGED <<arbInProgress, quotes>>
  <2>1. Closing(Head(pc.todo)) \in Sides /\ "arb" \in Roles
    BY DEF Closing, Sides, Roles
  <2>2. QED BY <1>2, <2>1, PlaceOrders DEF SendsAny
<1>3. QED BY <1>1, <1>2 DEF CloseOut

\* Deleting a kept quote, or none
LEMMA SafeDeleteQuiet ==
    ASSUME BInv, NEW id \in {bidId, askId}, NEW next, SafeDelete(id, next)
    PROVE  pc' = next /\ arbInProgress' = arbInProgress /\ Quiet
<1>1. id # 0 => id \in ClientIds
  BY BoundsAssumption DEF BInv, AInv, IdsOK, QuotesOK, ClientIds
<1>2. QED BY <1>1, OtherCounts DEF SafeDelete, BInv, AInv, Quiet

\* A step that makes no call to the client, or one that waits.
LEMMA StaysQuiet ==
    ASSUME BInv, UNCHANGED vars \/ WaitForResponse \/ CancelAllOpenOrders
                     \/ \E id \in ClientIds : CancelNext(id) \/ WaitForFill(id),
           UNCHANGED <<position, maps, service>>
    PROVE  Quiet
BY OtherCounts DEF BInv, AInv, Quiet

\* The service
LEMMA EtfCallServes ==
    ASSUME BInv, NEW n \in Int, NEW good, NEW bad, EtfCall(n, good, bad)
    PROVE  pc' \in {good, bad} /\ arbInProgress' = arbInProgress /\ Served(n)
<1>1. lostReplies \in 0 .. MaxLostReplies /\ etf \in Int /\ MaxLostReplies \in Nat
  BY ArbLimitsAssumption DEF BInv, ArbTyped
<1>2. lostReplies' \in {lostReplies, lostReplies + 1} /\ lostReplies' <= MaxLostReplies
  BY DEF EtfCall
<1>3. lostReplies' \in 0 .. MaxLostReplies
  BY <1>1, <1>2
<1>4. QED BY <1>3 DEF EtfCall, Served

\* The locals of a place
LEMMA PlaceFacts ==
    ASSUME pc \in Places
    PROVE  /\ pc.at \in {"buyLegs", "sellLegs"} => pc \in [at : {"buyLegs", "sellLegs"}, todo : Legs, qty : Qtys]
           /\ pc.at = "collectLegs" => pc \in [at : {"collectLegs"}, qty : Qtys, all : BOOLEAN]
           /\ pc.at \in {"poll", "undySent", "undyFilled"}
                 => pc \in [at : {"poll", "undySent", "undyFilled"}, qty : Qtys]
           /\ pc.at = "sellUndy" => pc \in [at : {"sellUndy"}, attempts : Nat]
           /\ pc.at = "unwind" => pc \in [at : {"unwind"}, todo : Legs, then : {"mm", "clear", "undy"}]
           /\ pc.at = "collect" => pc \in [at : {"collect"}, then : {"mm", "clear", "undy"}]
           /\ pc.at = "residual" => pc \in [at : {"residual"}, todo : Legs]
           /\ pc.at = "guardFlatten" => pc \in [at : {"guardFlatten"}, todo : Todo]
           /\ pc.at \in {"mmBid", "mmAsk", "mmFlatten"}
                 => pc \in [at : {"mmBid", "mmAsk", "mmFlatten"}, pos : Int]
BY DEF Places

\* The rest of a list is another place to be.
LEMMA RestOfTodo ==
    ASSUME BInv, pc.at \in {"buyLegs", "sellLegs", "unwind", "residual", "guardFlatten"}
    PROVE  /\ pc.todo \in Todo /\ Head(pc.todo) \in Symbols
           /\ pc.at # "guardFlatten" => pc.todo \in Legs /\ Head(pc.todo) \in Dorms
           /\ Len(pc.todo) # 1 => [pc EXCEPT !.todo = Tail(@)] \in Places
<1>1. pc \in Places
  BY DEF BInv, ArbTyped
<1>2. CASE pc.at = "guardFlatten"
  <2>1. pc.todo \in Todo /\ pc \in [at : {"guardFlatten"}, todo : Todo]
    BY <1>1, <1>2, PlaceFacts
  <2>2. Head(pc.todo) \in Symbols /\ (Len(pc.todo) # 1 => Tail(pc.todo) \in Todo)
    BY <2>1, ListFacts DEF Todo
  <2>3. QED BY <1>2, <2>1, <2>2 DEF Places
<1>3. CASE pc.at # "guardFlatten"
  <2>1. pc.todo \in Legs
    BY <1>1, <1>3, PlaceFacts
  <2>2. Head(pc.todo) \in Dorms /\ (Len(pc.todo) # 1 => Tail(pc.todo) \in Legs)
    BY <2>1, ListFacts DEF Legs
  <2>3. ASSUME Len(pc.todo) # 1 PROVE [pc EXCEPT !.todo = Tail(@)] \in Places
    BY <1>1, <1>3, <2>2, <2>3, PlaceFacts DEF Places
  <2>4. QED BY <1>3, <2>1, <2>2, <2>3, TodoFacts
<1>4. QED BY <1>2, <1>3

\* Where many steps go
LEMMA CommonPlaces ==
    ASSUME BInv
    PROVE  /\ Loop \in Places /\ [at |-> "mmBid", pos |-> position["BLUE"]] \in Places
           /\ \A t \in {"mm", "clear", "undy"} :
                 /\ [at |-> "unwind", todo |-> DormIds, then |-> t] \in Places
                 /\ [at |-> "collect", then |-> t] \in Places
<1>1. position["BLUE"] \in Int /\ DormIds \in Legs
  BY TodoFacts DEF BInv, ArbTyped
<1>2. QED BY <1>1 DEF Places, Loop

\* Steps that change nothing but the place
LEMMA StaysMoves ==
    ASSUME BInv, Stays, pc' \in Places, arbInProgress' \in BOOLEAN
    PROVE  Moves
BY StaysQuiet DEF Moves, Kind, Stays

LEMMA GoesMoves ==
    ASSUME BInv, NEW next \in Places, Goes(next),
           UNCHANGED vars \/ WaitForResponse \/ CancelAllOpenOrders
               \/ \E id \in ClientIds : CancelNext(id) \/ WaitForFill(id)
    PROVE  Moves
BY StaysQuiet DEF Moves, Kind, Goes, BInv, ArbTyped

\* Creation
LEMMA CreationMoves ==
    ASSUME BInv,
           \/ \E qty \in 1 .. MaxQty : StartCreation(qty)
           \/ BuyLeg \/ CollectLeg \/ LegsCollected \/ Create \/ PollTimeout \/ SellUndy \/ UndySold
    PROVE  Moves
<1>1. pc \in Places /\ arbInProgress \in BOOLEAN /\ position["UNDY"] \in Int
  BY TodoFacts DEF BInv, ArbTyped
<1>2. ASSUME NEW qty \in 1 .. MaxQty, StartCreation(qty) PROVE Moves
  <2>1. pc' \in Places
    BY <1>2, TodoFacts DEF StartCreation, Places, Qtys
  <2>2. QED BY <1>2, <2>1, StaysMoves DEF StartCreation
<1>3. CASE BuyLeg
  <2>1. pc \in [at : {"buyLegs", "sellLegs"}, todo : Legs, qty : Qtys] /\ pc.at = "buyLegs"
    BY <1>1, <1>3, PlaceFacts DEF BuyLeg, At
  <2>2. Head(pc.todo) \in Symbols /\ (Len(pc.todo) # 1 => [pc EXCEPT !.todo = Tail(@)] \in Places)
    BY <2>1, RestOfTodo
  <2>3. [at |-> "collectLegs", qty |-> pc.qty, all |-> TRUE] \in Places
    BY <2>1 DEF Places
  <2>4. "BUY" \in Sides /\ "arb" \in Roles
    BY DEF Sides, Roles
  <2>5. pc' \in Places /\ arbInProgress' = arbInProgress /\ SendsAny
    BY <1>3, <2>2, <2>3, <2>4, PlaceNoWaitOrders DEF BuyLeg, SendsAny
  <2>6. QED BY <1>1, <2>5 DEF Moves, Kind
<1>4. CASE CollectLeg
  <2>1. pc \in [at : {"collectLegs"}, qty : Qtys, all : BOOLEAN]
    BY <1>1, <1>4, PlaceFacts DEF CollectLeg, At
  <2>2. AllGood \in BOOLEAN
    BY DEF AllGood
  <2>3. [pc EXCEPT !.all = AllGood] \in Places
    BY <2>1, <2>2 DEF Places
  <2>4. QED BY <1>4, <2>3, GoesMoves DEF CollectLeg
<1>5. CASE LegsCollected
  <2>1. pc \in [at : {"collectLegs"}, qty : Qtys, all : BOOLEAN]
    BY <1>1, <1>5, PlaceFacts DEF LegsCollected, At
  <2>2. pc' \in {[at |-> "poll", qty |-> pc.qty], [at |-> "unwind", todo |-> DormIds, then |-> "mm"]}
    BY <1>5 DEF LegsCollected, ToUnwind
  <2>3. [at |-> "poll", qty |-> pc.qty] \in Places
    BY <2>1 DEF Places
  <2>4. QED BY <1>1, <1>5, <2>2, <2>3, CommonPlaces, StaysMoves DEF LegsCollected
<1>6. CASE Create
  <2>1. pc.qty \in Qtys
    BY <1>1, <1>6, PlaceFacts DEF Create, At
  <2>2. pc.qty \in Int
    BY <2>1 DEF Qtys
  <2>3. /\ pc' \in {[at |-> "sellUndy", attempts |-> 0], [at |-> "unwind", todo |-> DormIds, then |-> "mm"]}
        /\ arbInProgress' = arbInProgress /\ Served(pc.qty)
    BY <1>6, <2>2, EtfCallServes DEF Create
  <2>4. [at |-> "sellUndy", attempts |-> 0] \in Places
    BY DEF Places
  <2>5. QED BY <1>1, <2>2, <2>3, <2>4, CommonPlaces DEF Moves, Kind
<1>7. CASE PollTimeout
  BY <1>1, <1>7, CommonPlaces, StaysMoves DEF PollTimeout, ToUnwind
<1>8. CASE SellUndy
  <2>1. pc \in [at : {"sellUndy"}, attempts : Nat]
    BY <1>1, <1>8, PlaceFacts DEF SellUndy, At
  <2>2. [pc EXCEPT !.attempts = @ + 1] \in Places
    BY <2>1 DEF Places
  <2>3. "UNDY" \in Symbols /\ "SELL" \in Sides /\ "arb" \in Roles
    BY TodoFacts DEF Sides, Roles
  <2>4. pc' \in Places /\ arbInProgress' = arbInProgress /\ SendsAny
    BY <1>8, <2>2, <2>3, PlaceOrders DEF SellUndy, SendsAny
  <2>5. QED BY <1>1, <2>4 DEF Moves, Kind
<1>9. CASE UndySold
  BY <1>1, <1>9, CommonPlaces, StaysMoves DEF UndySold, ToMM
<1>10. QED BY <1>2, <1>3, <1>4, <1>5, <1>6, <1>7, <1>8, <1>9

\* Redemption
LEMMA RedemptionMoves ==
    ASSUME BInv,
           \/ \E qty \in 1 .. MaxQty : StartRedemption(qty)
           \/ AwaitUndy \/ AbandonRedemption \/ Redeem \/ SellLeg
    PROVE  Moves
<1>1. pc \in Places /\ arbInProgress \in BOOLEAN
  BY DEF BInv, ArbTyped
<1>2. ASSUME NEW qty \in 1 .. MaxQty, StartRedemption(qty) PROVE Moves
  <2>1. "UNDY" \in Symbols /\ "BUY" \in Sides /\ "arb" \in Roles
    BY TodoFacts DEF Sides, Roles
  <2>2. pc' = [at |-> "undySent", qty |-> qty] /\ SendsAny /\ arbInProgress' = TRUE
    BY <1>2, <2>1, PlaceOrders DEF StartRedemption, SendsAny
  <2>3. pc' \in Places
    BY <2>2 DEF Places, Qtys
  <2>4. QED BY <2>2, <2>3 DEF Moves, Kind
<1>3. CASE AwaitUndy
  <2>1. pc.qty \in Qtys
    BY <1>1, <1>3, PlaceFacts DEF AwaitUndy, At
  <2>2. [at |-> "undyFilled", qty |-> pc.qty] \in Places
    BY <2>1 DEF Places
  <2>3. returned.id \in ClientIds
    <3>1. returned # None
      BY <1>3 DEF AwaitUndy, WaitForFill, None
    <3>2. QED BY <3>1 DEF BInv, AInv, IdsOK
  <2>4. QED BY <1>3, <2>2, <2>3, GoesMoves DEF AwaitUndy
<1>4. CASE AbandonRedemption
  BY <1>1, <1>4, CommonPlaces, StaysMoves DEF AbandonRedemption, ToMM
<1>5. CASE Redeem
  <2>1. pc.qty \in Qtys
    BY <1>1, <1>5, PlaceFacts DEF Redeem, At
  <2>2. -pc.qty \in Int
    BY <2>1 DEF Qtys
  <2>3. /\ pc' \in {[at |-> "sellLegs", todo |-> DormIds, qty |-> pc.qty],
                    [at |-> "mmBid", pos |-> position["BLUE"]]}
        /\ arbInProgress' = arbInProgress /\ Served(-pc.qty)
    BY <1>5, <2>2, EtfCallServes DEF Redeem
  <2>4. [at |-> "sellLegs", todo |-> DormIds, qty |-> pc.qty] \in Places
    BY <2>1, TodoFacts DEF Places
  <2>5. QED BY <1>1, <2>2, <2>3, <2>4, CommonPlaces DEF Moves, Kind
<1>6. CASE SellLeg
  <2>1. pc.at = "sellLegs"
    BY <1>6 DEF SellLeg, At
  <2>2. Head(pc.todo) \in Symbols /\ (Len(pc.todo) # 1 => [pc EXCEPT !.todo = Tail(@)] \in Places)
    BY <2>1, RestOfTodo
  <2>3. "SELL" \in Sides /\ "arb" \in Roles /\ [at |-> "collect", then |-> "mm"] \in Places
    BY CommonPlaces DEF Sides, Roles
  <2>4. pc' \in Places /\ arbInProgress' = arbInProgress /\ SendsAny
    BY <1>6, <2>2, <2>3, PlaceNoWaitOrders DEF SellLeg, SendsAny
  <2>5. QED BY <1>1, <2>4 DEF Moves, Kind
<1>7. QED BY <1>2, <1>3, <1>4, <1>5, <1>6

\* Unwinding, and the end of an arb
LEMMA UnwindMoves ==
    ASSUME BInv,
           Unwind \/ Collect \/ Collected \/ ForceUndy \/ EndArb \/ ArbFlat \/ Residual \/ ArbTimeout \/ NoArb
    PROVE  Moves
<1>1. pc \in Places /\ arbInProgress \in BOOLEAN
  BY DEF BInv, ArbTyped
<1>2. [at |-> "endArb"] \in Places /\ [at |-> "forceUndy"] \in Places
  BY DEF Places
<1>3. CASE Unwind
  <2>1. pc \in [at : {"unwind"}, todo : Legs, then : {"mm", "clear", "undy"}] /\ pc.at = "unwind"
    BY <1>1, <1>3, PlaceFacts DEF Unwind, At
  <2>2. Head(pc.todo) \in Symbols /\ (Len(pc.todo) # 1 => [pc EXCEPT !.todo = Tail(@)] \in Places)
    BY <2>1, RestOfTodo
  <2>3. UnwindNext \in Places
    BY <2>1, <2>2, CommonPlaces DEF UnwindNext
  <2> DEFINE d == Head(pc.todo)
  <2>4. CASE PlaceNoWait(d, Closing(d), Size(position[d]), UnwindNext)
    <3>1. Closing(d) \in Sides /\ "arb" \in Roles
      BY DEF Closing, Sides, Roles
    <3>2. QED BY <1>1, <2>2, <2>3, <2>4, <3>1, PlaceNoWaitOrders DEF Moves, Kind, SendsAny
  <2>5. CASE Goes(UnwindNext) /\ UNCHANGED vars
    BY <2>3, <2>5, GoesMoves
  <2>6. QED BY <1>3, <2>4, <2>5 DEF Unwind
<1>4. CASE Collect
  BY <1>1, <1>4, GoesMoves DEF Collect
<1>5. CASE Collected
  <2>1. pc' \in {[at |-> "forceUndy"], [at |-> "mmBid", pos |-> position["BLUE"]]}
    BY <1>5 DEF Collected, ToMM
  <2>2. arbInProgress' \in BOOLEAN
    BY <1>5 DEF Collected
  <2>3. QED BY <1>2, <1>5, <2>1, <2>2, CommonPlaces, StaysMoves DEF Collected
<1>6. CASE ForceUndy
  <2>1. "UNDY" \in Symbols /\ "SELL" \in Sides /\ "arb" \in Roles
    BY TodoFacts DEF Sides, Roles
  <2>2. CASE Place("UNDY", "SELL", position["UNDY"], "arb", [at |-> "endArb"])
             /\ UNCHANGED <<arbInProgress, quotes>>
    BY <1>1, <1>2, <2>1, <2>2, PlaceOrders DEF Moves, Kind, SendsAny
  <2>3. CASE Goes([at |-> "endArb"]) /\ UNCHANGED vars
    BY <1>2, <2>3, GoesMoves
  <2>4. QED BY <1>6, <2>2, <2>3 DEF ForceUndy
<1>7. CASE EndArb
  BY <1>7, CommonPlaces, StaysMoves DEF EndArb, ToMM
<1>8. CASE ArbFlat
  <2>1. [at |-> "residual", todo |-> DormIds] \in Places
    BY TodoFacts DEF Places
  <2>2. QED BY <1>8, <2>1, GoesMoves DEF ArbFlat
<1>9. CASE Residual
  <2>1. pc.at = "residual"
    BY <1>9 DEF Residual, At
  <2>2. Head(pc.todo) \in Symbols /\ (Len(pc.todo) # 1 => [pc EXCEPT !.todo = Tail(@)] \in Places)
    BY <2>1, RestOfTodo
  <2>3. QED BY <1>1, <1>2, <1>9, <2>2, CloseOutOrders DEF Residual, Moves, Kind
<1>10. CASE ArbTimeout
  BY <1>1, <1>10, CommonPlaces, StaysMoves DEF ArbTimeout, ToUnwind
<1>11. CASE NoArb
  BY <1>1, <1>11, CommonPlaces, StaysMoves DEF NoArb, ToMM
<1>12. QED BY <1>3, <1>4, <1>5, <1>6, <1>7, <1>8, <1>9, <1>10, <1>11

\* The PnL guard
LEMMA GuardsMove == BInv /\ Guard => Moves
<1> SUFFICES ASSUME BInv, Guard PROVE Moves
  OBVIOUS
<1>1. pc \in Places /\ arbInProgress \in BOOLEAN
  BY DEF BInv, ArbTyped
<1>2. /\ [at |-> "guardAsk"] \in Places /\ [at |-> "guardCancel"] \in Places
      /\ [at |-> "guardFlatten", todo |-> AllIds] \in Places /\ [at |-> "guardWait"] \in Places
  BY TodoFacts DEF Places
<1>3. CASE PnlGuard \/ GuardAsk
  BY <1>1, <1>2, <1>3, SafeDeleteQuiet DEF PnlGuard, GuardAsk, Moves, Kind
<1>4. CASE GuardCancel
  BY <1>2, <1>4, GoesMoves DEF GuardCancel
<1>5. ASSUME NEW id \in ClientIds, GuardDelete(id) PROVE Moves
  BY <1>1, <1>5, GoesMoves DEF GuardDelete
<1>6. CASE GuardFlatten
  <2>1. pc.at = "guardFlatten"
    BY <1>6 DEF GuardFlatten, At
  <2>2. Head(pc.todo) \in Symbols /\ (Len(pc.todo) # 1 => [pc EXCEPT !.todo = Tail(@)] \in Places)
    BY <2>1, RestOfTodo
  <2>3. QED BY <1>1, <1>2, <1>6, <2>2, CloseOutOrders DEF GuardFlatten, Moves, Kind
<1>7. CASE GuardResume
  BY <1>7, CommonPlaces, GoesMoves DEF GuardResume
<1>8. QED BY <1>3, <1>4, <1>5, <1>6, <1>7 DEF Guard

\* The market maker
LEMMA MarketMakerMovesOn == BInv /\ MarketMaker => Moves
<1> SUFFICES ASSUME BInv, MarketMaker PROVE Moves
  OBVIOUS
<1>1. pc \in Places /\ arbInProgress \in BOOLEAN /\ "BLUE" \in Symbols
  BY TodoFacts DEF BInv, ArbTyped
<1>2. /\ [at |-> "mmQuote"] \in Places /\ [at |-> "mmMoveAsk"] \in Places
      /\ [at |-> "mmQuoteBid"] \in Places /\ [at |-> "mmQuoteAsk"] \in Places /\ Loop \in Places
  BY DEF Places, Loop
<1>3. ASSUME NEW id \in {bidId, askId}, NEW next \in Places, SafeDelete(id, next) PROVE Moves
  BY <1>1, <1>3, SafeDeleteQuiet DEF Moves, Kind
<1>4. ASSUME NEW side \in Sides, NEW role \in Roles, NEW qty, NEW next \in Places,
             Place("BLUE", side, qty, role, next), UNCHANGED arbInProgress
      PROVE  Moves
  BY <1>1, <1>4, PlaceOrders DEF Moves, Kind, SendsAny
<1>5. ASSUME NEW next \in Places, Goes(next), UNCHANGED vars PROVE Moves
  BY <1>5, GoesMoves
<1>6. CASE MmBid \/ MmAsk
  <2>1. pc \in [at : {"mmBid", "mmAsk", "mmFlatten"}, pos : Int]
    BY <1>1, <1>6, PlaceFacts DEF MmBid, MmAsk, At
  <2>2. [pc EXCEPT !.at = "mmAsk"] \in Places /\ [pc EXCEPT !.at = "mmFlatten"] \in Places
    BY <2>1 DEF Places
  <2>3. QED BY <1>3, <1>5, <1>6, <2>2 DEF MmBid, MmAsk
<1>7. CASE MmFlatten
  <2>1. "BUY" \in Sides /\ "flatten" \in Roles
    BY DEF Sides, Roles
  <2>2. CASE Place("BLUE", "BUY", -pc.pos, "flatten", [at |-> "mmQuote"]) /\ UNCHANGED arbInProgress
    BY <1>2, <1>4, <2>1, <2>2
  <2>3. CASE pc' = [at |-> "mmQuote"] /\ UNCHANGED arbInProgress /\ Stays
    BY <1>1, <1>2, <2>3, StaysMoves
  <2>4. QED BY <1>7, <2>2, <2>3 DEF MmFlatten
<1>8. CASE MmKeep
  BY <1>2, <1>5, <1>8 DEF MmKeep
<1>9. CASE MmMove \/ MmMoveAsk
  BY <1>2, <1>3, <1>9 DEF MmMove, MmMoveAsk
<1>10. CASE QuoteBid \/ QuoteAsk
  <2>1. "BUY" \in Sides /\ "SELL" \in Sides /\ "bid" \in Roles /\ "ask" \in Roles
    BY DEF Sides, Roles
  <2>2. QED BY <1>2, <1>4, <1>5, <1>10, <2>1 DEF QuoteBid, QuoteAsk
<1>11. QED BY <1>6, <1>7, <1>8, <1>9, <1>10 DEF MarketMaker

\* Every step moves in one of the ways.
LEMMA EveryStepMoves == BInv /\ [ArbNext]_allVars => Moves
<1> SUFFICES ASSUME BInv, [ArbNext]_allVars PROVE Moves
  OBVIOUS
<1>1. pc \in Places /\ arbInProgress \in BOOLEAN
  BY DEF BInv, ArbTyped
<1>2. CASE UNCHANGED allVars
  BY <1>1, <1>2, StaysMoves DEF allVars, arbVars, Stays
<1>3. CASE ReadAny
  BY <1>1, <1>3 DEF ReadAny, Callback, Moves, Kind
<1>4. CASE (ReadFails /\ UNCHANGED arbVars) \/ Environment
  <2>1. Shrinks /\ UNCHANGED <<reported, lastId>> /\ (connected' => connected)
    BY <1>4, OtherCounts DEF Environment, BInv, AInv, Qtys
  <2>2. UNCHANGED arbVars
    BY <1>4 DEF Environment
  <2>3. QED BY <1>1, <2>1, <2>2 DEF arbVars, Quiet, Moves, Kind
<1>5. QED
  BY <1>2, <1>3, <1>4, CreationMoves, RedemptionMoves, UnwindMoves, GuardsMove, MarketMakerMovesOn
  DEF ArbNext, Arbitrage, Reads

-----------------------------------------------------------------------------
(* The accounts: positions, and what was booked and reported *)

\* What orders o bought of a symbol in all, n of each
BoughtBy(o, s, n) ==
    SumFunction([id \in ClientIds |-> IF o[id].symbol = s THEN Signed(o[id].side, n[id]) ELSE 0])

LEMMA BoughtType ==
    ASSUME NEW o, NEW s, NEW n \in [ClientIds -> Int]
    PROVE  BoughtBy(o, s, n) \in Int
<1> DEFINE f == [id \in ClientIds |-> IF o[id].symbol = s THEN Signed(o[id].side, n[id]) ELSE 0]
<1>1. \A id \in ClientIds : f[id] \in Int
  BY DEF Signed
<1>2. IsFiniteSet(ClientIds)
  BY CountFinite, BoundsAssumption DEF ClientIds
<1>3. BoughtBy(o, s, n) = SumFunctionOnSet(f, ClientIds)
  BY DEF BoughtBy, SumFunction
<1>4. QED BY <1>1, <1>2, <1>3, SumInt

\* Orders may differ that count nothing.
LEMMA BoughtAgree ==
    ASSUME NEW o, NEW p, NEW s, NEW n \in [ClientIds -> Int], NEW m \in [ClientIds -> Int],
           \A id \in ClientIds : (o[id] = p[id] /\ n[id] = m[id]) \/ (n[id] = 0 /\ m[id] = 0)
    PROVE  BoughtBy(o, s, n) = BoughtBy(p, s, m)
<1> DEFINE f == [id \in ClientIds |-> IF o[id].symbol = s THEN Signed(o[id].side, n[id]) ELSE 0]
           g == [id \in ClientIds |-> IF p[id].symbol = s THEN Signed(p[id].side, m[id]) ELSE 0]
<1>1. \A id \in ClientIds : f[id] = g[id]
  BY DEF Signed
<1>2. IsFiniteSet(ClientIds)
  BY CountFinite, BoundsAssumption DEF ClientIds
<1>3. SumFunctionOnSet(f, ClientIds) = SumFunctionOnSet(g, ClientIds)
  BY <1>1, <1>2, SumAgree
<1>4. QED BY <1>3 DEF BoughtBy, SumFunction

\* Counts that add up
LEMMA BoughtAdd ==
    ASSUME NEW o, NEW s, NEW n \in [ClientIds -> Int], NEW m \in [ClientIds -> Int],
           NEW k \in [ClientIds -> Int], \A id \in ClientIds : k[id] = n[id] + m[id]
    PROVE  BoughtBy(o, s, k) = BoughtBy(o, s, n) + BoughtBy(o, s, m)
<1> DEFINE f == [id \in ClientIds |-> IF o[id].symbol = s THEN Signed(o[id].side, n[id]) ELSE 0]
           g == [id \in ClientIds |-> IF o[id].symbol = s THEN Signed(o[id].side, m[id]) ELSE 0]
           h == [id \in ClientIds |-> IF o[id].symbol = s THEN Signed(o[id].side, k[id]) ELSE 0]
<1>1. \A id \in ClientIds : f[id] \in Int /\ g[id] \in Int /\ h[id] = f[id] + g[id]
  BY DEF Signed
<1>2. IsFiniteSet(ClientIds)
  BY CountFinite, BoundsAssumption DEF ClientIds
<1>3. SumFunctionOnSet(h, ClientIds) = SumFunctionOnSet(f, ClientIds) + SumFunctionOnSet(g, ClientIds)
  BY <1>1, <1>2, SumAdd
<1>4. QED BY <1>3 DEF BoughtBy, SumFunction

\* A count that changes at one order
LEMMA BoughtChange ==
    ASSUME NEW o, NEW s, NEW n \in [ClientIds -> Int], NEW m \in [ClientIds -> Int],
           NEW a \in ClientIds, \A id \in ClientIds \ {a} : n[id] = m[id]
    PROVE  BoughtBy(o, s, m)
             = BoughtBy(o, s, n) + (IF o[a].symbol = s THEN Signed(o[a].side, m[a] - n[a]) ELSE 0)
<1> DEFINE f == [id \in ClientIds |-> IF o[id].symbol = s THEN Signed(o[id].side, n[id]) ELSE 0]
           g == [id \in ClientIds |-> IF o[id].symbol = s THEN Signed(o[id].side, m[id]) ELSE 0]
<1>1. /\ \A id \in ClientIds : f[id] \in Int /\ g[id] \in Int
      /\ \A id \in ClientIds \ {a} : f[id] = g[id]
  BY DEF Signed
<1>2. IsFiniteSet(ClientIds)
  BY CountFinite, BoundsAssumption DEF ClientIds
<1>3. g[a] - f[a] = IF o[a].symbol = s THEN Signed(o[a].side, m[a] - n[a]) ELSE 0
  BY DEF Signed
<1>4. BoughtBy(o, s, n) = SumFunctionOnSet(f, ClientIds)
      /\ BoughtBy(o, s, m) = SumFunctionOnSet(g, ClientIds)
  BY DEF BoughtBy, SumFunction
<1> HIDE DEF f, g
<1>5. SumFunctionOnSet(g, ClientIds) = SumFunctionOnSet(f, ClientIds) - f[a] + g[a]
  BY <1>1, <1>2, SumChange
<1>6. SumFunctionOnSet(f, ClientIds) \in Int /\ f[a] \in Int /\ g[a] \in Int
  BY <1>1, <1>2, SumInt
<1> DEFINE F == SumFunctionOnSet(f, ClientIds)
           G == SumFunctionOnSet(g, ClientIds)
           d == IF o[a].symbol = s THEN Signed(o[a].side, m[a] - n[a]) ELSE 0
           x == f[a]
           y == g[a]
<1> SUFFICES G = F + d
  BY <1>4
<1>7. G = F - x + y /\ F \in Int /\ x \in Int /\ y \in Int /\ y - x = d
  BY <1>3, <1>5, <1>6
<1> HIDE DEF F, G, d, x, y
<1>8. QED BY <1>7

\* Every position is the start's, with what was booked and what was reported.
Accounted ==
    \A s \in Symbols :
        position[s] = StartPosition[s] + EtfEffect(booked, s) + BoughtBy(sent, s, reported)

\* An order outside its map has nothing more to report.
RoutedTillDone ==
    connected =>
        \A id \in ClientIds : id <= lastId /\ id \notin routed => executed[id] + resting[id] = reported[id]

PInv == BInv /\ Accounted /\ RoutedTillDone

\* A message is read: of one order, which may report a fill.
ReadsOf(id, n) ==
    /\ connected /\ id <= lastId /\ n <= executed[id] - reported[id]
    /\ reported' = [reported EXCEPT ![id] = reported[id] + n]
    /\ \/ n = 0 /\ position' = position
       \/ position' = [position EXCEPT ![sent[id].symbol] = @ + Signed(sent[id].side, n)]
    /\ routed' \subseteq routed
    /\ \A i \in routed \ routed' : i = id /\ executed[i] + resting[i] = reported[i] + n
    /\ UNCHANGED <<executed, resting, connected, lastId, sent, overlapped, service, pc, arbInProgress>>

\* What a callback does to an order that still has something to report.
LEMMA ReadIsOf ==
    ASSUME PInv, ReadAny
    PROVE  \E id \in ClientIds, n \in Nat : ReadsOf(id, n)
<1> DEFINE m == Head(stream)
           id == m.id
           n == FillQty(m, id)
<1>1. /\ stream # <<>> /\ stream \in Seq(Messages) /\ m = stream[1] /\ m \in Messages
      /\ m = Head(stream) /\ m.id = id /\ FillQty(m, id) = n
  BY DEF ReadAny, PInv, BInv, AInv, CInv, TInv, Typed
<1>2. connected /\ Tales(stream, reported, executed, resting)
  BY <1>1 DEF PInv, BInv, FInv
<1>3. /\ id \in ClientIds /\ n \in Nat /\ n = IF m.type = "FILL" THEN m.qty ELSE 0
      /\ m.type = "FILL" => n > 0
  BY <1>1 DEF Messages, FillQty
<1>4. /\ executed \in [ClientIds -> Nat] /\ resting \in [ClientIds -> Nat]
      /\ reported \in [ClientIds -> Nat] /\ lastId \in Nat /\ ClientIds \subseteq Nat
  BY CountTypes DEF PInv, BInv, AInv
<1>5. /\ reported' = IF m.type = "FILL" THEN [reported EXCEPT ![id] = @ + m.qty] ELSE reported
      /\ UNCHANGED <<executed, resting, connected, lastId>>
      /\ Callback(m)
  BY DEF ReadAny, ReadResponse, ReadFill, ReadOne, Absorb, exchange, caller
<1> HIDE DEF m, id, n
<1>6. id <= lastId
  <2>1. SUFFICES ASSUME id > lastId PROVE FALSE
    BY <1>3, <1>4
  <2>2. Silent(stream, id)
    BY <1>3, <2>1 DEF PInv, BInv, FInv, Counted
  <2>3. 1 \in 1 .. Len(stream)
    BY <1>1
  <2>4. QED BY <1>1, <2>2, <2>3 DEF Silent
<1>7. /\ executed[id] \in Nat /\ reported[id] \in Nat /\ resting[id] \in Nat
      /\ reported[id] + n <= executed[id]
      /\ Finishes(m, id) => resting[id] = 0 /\ reported[id] + n = executed[id]
  <2>1. Tale(stream, id, reported[id], executed[id], resting[id])
    BY <1>2, <1>3 DEF Tales
  <2>2. executed[id] \in Nat /\ reported[id] \in Nat /\ resting[id] \in Nat
    BY <1>3, <1>4
  <2>3. QED BY <1>1, <2>1, <2>2, TaleTail
<1>8. m.type = "FILL" => id \in routed
  <2>1. SUFFICES ASSUME m.type = "FILL", id \notin routed PROVE FALSE
    OBVIOUS
  <2>2. executed[id] + resting[id] = reported[id]
    BY <1>2, <1>3, <1>6, <2>1 DEF PInv, RoutedTillDone
  <2>3. QED BY <1>3, <1>7, <2>1, <2>2
<1>9. reported' = [reported EXCEPT ![id] = reported[id] + n]
  <2>1. CASE m.type = "FILL"
    BY <1>3, <1>5, <2>1
  <2>2. CASE m.type # "FILL"
    <3>1. n = 0 /\ reported' = reported
      BY <1>3, <1>5, <2>2
    <3>2. reported[id] + n = reported[id]
      BY <1>7, <3>1
    <3>3. QED BY <1>3, <1>4, <3>1, <3>2
  <2>3. QED BY <2>1, <2>2
<1>10. \/ n = 0 /\ position' = position
       \/ position' = [position EXCEPT ![sent[id].symbol] = @ + Signed(sent[id].side, n)]
  BY <1>1, <1>3, <1>5, <1>8 DEF Callback
<1>11. /\ routed' \subseteq routed
       /\ \A i \in routed \ routed' : i = id /\ Finishes(m, id)
  BY <1>1, <1>5 DEF Callback, Finishes
<1>12. UNCHANGED <<sent, overlapped, service, pc, arbInProgress>>
  BY <1>5 DEF Callback
<1>13. n <= executed[id] - reported[id] /\ (Finishes(m, id) => executed[id] + resting[id] = reported[id] + n)
  BY <1>3, <1>7
<1>14. ReadsOf(id, n)
  BY <1>2, <1>5, <1>6, <1>9, <1>10, <1>11, <1>12, <1>13 DEF ReadsOf
<1>15. QED BY <1>3, <1>14

\* What the service made of any symbol adds up.
LEMMA EffectsAdd ==
    ASSUME NEW a \in Int, NEW b \in Int, NEW s
    PROVE  EtfEffect(a, s) \in Int /\ EtfEffect(a + b, s) = EtfEffect(a, s) + EtfEffect(b, s)
BY DEF EtfEffect

\* The types
LEMMA NextArbTyped == PInv /\ Moves /\ CInv' /\ FInv' => ArbTyped'
<1> SUFFICES ASSUME PInv, Moves, CInv', FInv' PROVE ArbTyped'
  OBVIOUS
<1>1. ArbTyped /\ lastId \in Nat /\ ClientIds \subseteq Nat
  BY CountTypes DEF PInv, BInv, AInv
<1>2. pc' \in Places /\ arbInProgress' \in BOOLEAN
  BY DEF Moves
<1>3. CASE Quiet
  BY <1>1, <1>2, <1>3 DEF ArbTyped, Quiet, maps, service
<1>4. ASSUME NEW s \in Symbols, NEW side \in Sides, NEW qty \in Qtys, NEW role \in Roles,
             Ordered(s, side, qty, role)
      PROVE  ArbTyped'
  <2> DEFINE order == [symbol |-> s, side |-> side, role |-> role]
  <2>1. order \in Orders
    BY DEF Orders
  <2>2. lastId' = lastId + 1 /\ lastId' \in ClientIds /\ sent' = [sent EXCEPT ![lastId'] = order]
    BY <1>4 DEF Ordered
  <2> HIDE DEF order
  <2>3. sent' \in [ClientIds -> Orders \cup {Unused}]
    BY <1>1, <2>1, <2>2 DEF ArbTyped
  <2>4. \A id \in ClientIds : IF id <= lastId' THEN sent'[id] \in Orders ELSE sent'[id] = Unused
    <3>1. TAKE id \in ClientIds
    <3>2. CASE id = lastId'
      BY <1>1, <2>1, <2>2, <3>2 DEF ArbTyped
    <3>3. CASE id # lastId'
      <4>1. sent'[id] = sent[id] /\ (id <= lastId' <=> id <= lastId)
        BY <1>1, <2>2, <3>3 DEF ArbTyped
      <4>2. QED BY <1>1, <4>1 DEF ArbTyped
    <3>4. QED BY <3>2, <3>3
  <2>5. routed' \subseteq 1 .. lastId'
    <3>1. routed \subseteq 1 .. lastId /\ routed' = routed \cup {lastId'}
      BY <1>1, <1>4 DEF ArbTyped, Ordered
    <3>2. QED BY <1>1, <2>2, <3>1
  <2>6. overlapped' \subseteq Symbols
    BY <1>1, <1>4 DEF ArbTyped, Ordered
  <2>7. UNCHANGED <<position, service>>
    BY <1>4 DEF Ordered
  <2>8. QED BY <1>1, <1>2, <2>3, <2>4, <2>5, <2>6, <2>7 DEF ArbTyped, service
<1>5. ASSUME NEW n \in Int, Served(n) PROVE ArbTyped'
  <2>1. etf' \in Int /\ booked' \in Int /\ lostReplies' \in 0 .. MaxLostReplies /\ UNCHANGED <<lastId, maps>>
    BY <1>1, <1>5 DEF ArbTyped, Served, vars, caller
  <2>2. position' \in [Symbols -> Int]
    <3>1. \A s \in Symbols : position[s] \in Int /\ EtfEffect(n, s) \in Int
      BY <1>1, EffectsAdd DEF ArbTyped
    <3>2. CASE position' = position
      BY <1>1, <3>2 DEF ArbTyped
    <3>3. CASE position' = [s \in Symbols |-> position[s] + EtfEffect(n, s)]
      BY <3>1, <3>3
    <3>4. QED BY <1>5, <3>2, <3>3 DEF Served
  <2>3. QED BY <1>1, <1>2, <2>1, <2>2 DEF ArbTyped, maps
<1>6. ASSUME NEW id \in ClientIds, NEW n \in Nat, ReadsOf(id, n) PROVE ArbTyped'
  <2>1. sent[id] \in Orders
    BY <1>1, <1>6 DEF ArbTyped, ReadsOf
  <2>2. sent[id].symbol \in Symbols /\ Signed(sent[id].side, n) \in Int
    BY <2>1 DEF Orders, Signed
  <2>3. position' \in [Symbols -> Int]
    BY <1>1, <1>6, <2>2 DEF ArbTyped, ReadsOf
  <2>4. QED BY <1>1, <1>2, <1>6, <2>3 DEF ArbTyped, ReadsOf, service
<1>7. QED BY <1>3, <1>4, <1>5, <1>6, ReadIsOf DEF Moves, Kind, SendsAny

\* An order that has nothing more to report stays so.
LEMMA DoneStays ==
    ASSUME CInv, FInv, CInv', FInv', Shrinks, NEW id \in ClientIds, id <= lastId,
           executed[id] + resting[id] = reported[id], reported'[id] = reported[id]
    PROVE  executed'[id] + resting'[id] = reported'[id]
<1>1. /\ executed[id] \in Nat /\ resting[id] \in Nat /\ reported[id] \in Nat
      /\ executed'[id] \in Nat /\ resting'[id] \in Nat /\ reported'[id] <= executed'[id]
  <2>1. executed[id] \in Nat /\ resting[id] \in Nat /\ reported[id] \in Nat
    BY CountTypes
  <2>2. executed'[id] \in Nat /\ resting'[id] \in Nat /\ reported'[id] <= executed'[id]
    BY DEF CInv, TInv, Typed, FInv, Counted
  <2>3. QED BY <2>1, <2>2
<1>2. executed'[id] + resting'[id] <= executed[id] + resting[id]
  BY DEF Shrinks
<1>3. QED BY <1>1, <1>2

\* Every step keeps the accounts.
LEMMA NextPInv == PInv /\ [ArbNext]_allVars => PInv'
<1> SUFFICES ASSUME PInv, [ArbNext]_allVars PROVE PInv'
  OBVIOUS
<1>1. AInv' /\ FInv' /\ CInv' /\ ArbTyped' /\ Moves
  <2>1. AInv' /\ [Next]_vars
    BY NextAInv DEF PInv, BInv
  <2>2. FInv'
    BY <2>1, NextFInv DEF PInv, BInv, AInv, CInv, TInv
  <2>3. CInv' /\ Moves
    BY <2>1, EveryStepMoves DEF AInv, PInv
  <2>4. QED BY <2>1, <2>2, <2>3, NextArbTyped
<1>2. /\ lastId \in Nat /\ ClientIds \subseteq Nat /\ reported \in [ClientIds -> Nat]
      /\ executed \in [ClientIds -> Nat] /\ resting \in [ClientIds -> Nat]
      /\ \A id \in ClientIds : id > lastId => reported[id] = 0
      /\ CInv /\ FInv
  BY CountTypes DEF PInv, BInv, AInv
<1>3. /\ StartPosition \in [Symbols -> Int] /\ booked \in Int /\ position \in [Symbols -> Int]
      /\ reported \in [ClientIds -> Int] /\ ArbTyped
      /\ \A s \in Symbols : BoughtBy(sent, s, reported) \in Int
  <2>1. reported \in [ClientIds -> Int]
    BY <1>2
  <2>2. QED BY <2>1, StartAssumption, BoughtType DEF PInv, BInv, ArbTyped
<1>4. CASE Quiet
  <2>1. UNCHANGED <<position, booked, sent, reported, routed, lastId>>
    BY <1>4 DEF Quiet, maps, service
  <2>2. Accounted'
    BY <2>1 DEF PInv, Accounted
  <2>3. RoutedTillDone'
    BY <1>1, <1>2, <1>4, <2>1, DoneStays DEF PInv, RoutedTillDone, Quiet
  <2>4. QED BY <1>1, <2>2, <2>3 DEF PInv, BInv
<1>5. ASSUME NEW s0 \in Symbols, NEW side \in Sides, NEW qty \in Qtys, NEW role \in Roles,
             Ordered(s0, side, qty, role)
      PROVE  PInv'
  <2>1. /\ lastId' = lastId + 1 /\ UNCHANGED <<position, booked, reported, connected>> /\ Shrinks
        /\ sent' = [sent EXCEPT ![lastId'] = [symbol |-> s0, side |-> side, role |-> role]]
        /\ routed' = routed \cup {lastId'}
    BY <1>5 DEF Ordered, service
  <2>2. \A id \in ClientIds : sent'[id] = sent[id] \/ reported[id] = 0
    BY <1>2, <1>3, <2>1 DEF ArbTyped
  <2>3. \A s : BoughtBy(sent', s, reported) = BoughtBy(sent, s, reported)
    BY <1>3, <2>2, BoughtAgree
  <2>4. Accounted'
    BY <2>1, <2>3 DEF PInv, Accounted
  <2>5. \A id \in ClientIds : id <= lastId' /\ id \notin routed' => id <= lastId /\ id \notin routed
    BY <1>2, <2>1
  <2>6. RoutedTillDone'
    BY <1>1, <1>2, <2>1, <2>5, DoneStays DEF PInv, RoutedTillDone
  <2>7. QED BY <1>1, <2>4, <2>6 DEF PInv, BInv
<1>6. ASSUME NEW n \in Int, Served(n) PROVE PInv'
  <2>1. UNCHANGED <<sent, routed, lastId, executed, resting, reported, connected>>
    BY <1>6 DEF Served, vars, exchange, caller, client, maps
  <2>2. Accounted'
    <3>1. CASE UNCHANGED <<position, booked>>
      <4>1. \A s \in Symbols :
              position[s] = StartPosition[s] + EtfEffect(booked, s) + BoughtBy(sent, s, reported)
        BY DEF PInv, Accounted
      <4>2. UNCHANGED <<position, booked, sent, reported>>
        BY <2>1, <3>1
      <4>3. QED BY <4>1, <4>2 DEF Accounted
    <3>2. CASE /\ booked' = booked + n
               /\ position' = [s \in Symbols |-> position[s] + EtfEffect(n, s)]
      <4> SUFFICES ASSUME NEW s \in Symbols
                   PROVE  position'[s] = StartPosition[s] + EtfEffect(booked', s) + BoughtBy(sent', s, reported')
        BY DEF Accounted
      <4>1. EtfEffect(booked', s) = EtfEffect(booked, s) + EtfEffect(n, s)
            /\ EtfEffect(booked, s) \in Int /\ EtfEffect(n, s) \in Int
        BY <1>3, <3>2, EffectsAdd, ZenonT(60)
      <4>2. position[s] = StartPosition[s] + EtfEffect(booked, s) + BoughtBy(sent, s, reported)
        BY DEF PInv, Accounted
      <4>3. StartPosition[s] \in Int /\ BoughtBy(sent, s, reported) \in Int
            /\ BoughtBy(sent', s, reported') = BoughtBy(sent, s, reported)
        BY <1>3, <2>1
      <4>4. position'[s] = position[s] + EtfEffect(n, s)
        BY <3>2
      <4>5. QED BY <4>1, <4>2, <4>3, <4>4
    <3>3. QED BY <1>6, <3>1, <3>2 DEF Served
  <2>3. RoutedTillDone'
    BY <2>1 DEF PInv, RoutedTillDone
  <2>4. QED BY <1>1, <2>2, <2>3 DEF PInv, BInv
<1>7. ASSUME NEW a \in ClientIds, NEW n \in Nat, ReadsOf(a, n) PROVE PInv'
  <2>1. /\ UNCHANGED <<executed, resting, connected, lastId, sent, booked>> /\ connected /\ a <= lastId
        /\ reported' = [reported EXCEPT ![a] = reported[a] + n]
        /\ routed' \subseteq routed
        /\ \A i \in routed \ routed' : i = a /\ executed[i] + resting[i] = reported[i] + n
        /\ n <= executed[a] - reported[a]
    BY <1>7 DEF ReadsOf, service
  <2>2. sent[a].symbol \in Symbols
    BY <1>3, <2>1 DEF ArbTyped, Orders
  <2>3. Accounted'
    <3> SUFFICES ASSUME NEW s \in Symbols
                 PROVE  position'[s] = StartPosition[s] + EtfEffect(booked', s) + BoughtBy(sent', s, reported')
      BY DEF Accounted
    <3> DEFINE d == IF sent[a].symbol = s THEN Signed(sent[a].side, n) ELSE 0
               rep == reported'
    <3>1. rep \in [ClientIds -> Int] /\ rep[a] - reported[a] = n /\ \A id \in ClientIds \ {a} : reported[id] = rep[id]
      BY <1>2, <2>1
    <3> HIDE DEF rep
    <3>2. BoughtBy(sent, s, rep) = BoughtBy(sent, s, reported) + d
      BY <1>3, <3>1, BoughtChange
    <3>3. position'[s] = position[s] + d
      BY <1>3, <1>7, <2>2 DEF ReadsOf, Signed
    <3>4. d \in Int
      BY DEF Signed
    <3>5. position[s] = StartPosition[s] + EtfEffect(booked, s) + BoughtBy(sent, s, reported)
      BY DEF PInv, Accounted
    <3>6. StartPosition[s] \in Int /\ BoughtBy(sent, s, reported) \in Int /\ EtfEffect(booked, s) \in Int
      BY <1>3, EffectsAdd
    <3>7. EtfEffect(booked', s) = EtfEffect(booked, s) /\ BoughtBy(sent', s, reported') = BoughtBy(sent, s, rep)
      BY <2>1 DEF rep
    <3> HIDE DEF d
    <3>8. QED BY <3>2, <3>3, <3>4, <3>5, <3>6, <3>7
  <2>4. RoutedTillDone'
    <3> SUFFICES ASSUME NEW id \in ClientIds, id <= lastId, id \notin routed'
                 PROVE  executed[id] + resting[id] = reported'[id]
      BY <2>1 DEF RoutedTillDone
    <3>1. CASE id \in routed
      <4>1. id = a /\ executed[id] + resting[id] = reported[id] + n
        BY <2>1, <3>1
      <4>2. QED BY <1>2, <2>1, <4>1
    <3>2. CASE id \notin routed
      <4>1. executed[id] + resting[id] = reported[id]
        BY <2>1, <3>2 DEF PInv, RoutedTillDone
      <4>2. id = a => n = 0
        BY <1>2, <2>1, <4>1
      <4>3. QED BY <1>2, <2>1, <4>1, <4>2
    <3>3. QED BY <3>1, <3>2
  <2>5. QED BY <1>1, <2>3, <2>4 DEF PInv, BInv
<1>8. QED BY <1>1, <1>4, <1>5, <1>6, <1>7, ReadIsOf DEF Moves, Kind, SendsAny

\* At the start nothing was booked, sent or reported.
LEMMA InitPInv == ArbInit => PInv
<1> SUFFICES ASSUME ArbInit PROVE PInv
  OBVIOUS
<1>1. Init /\ AInv /\ FInv
  BY InitAInv, InitFInv DEF ArbInit
<1>2. lastId = 0 /\ ClientIds \subseteq Nat \ {0} /\ reported = [id \in ClientIds |-> 0]
  BY <1>1, BoundsAssumption DEF Init, ClientIds
<1>3. ArbTyped
  <2>1. position \in [Symbols -> Int]
    BY StartAssumption DEF ArbInit
  <2>2. 0 \in 0 .. MaxLostReplies
    BY ArbLimitsAssumption
  <2>3. pc \in Places
    BY DEF ArbInit, Loop, Places
  <2>4. sent = [id \in ClientIds |-> Unused] /\ \A id \in ClientIds : ~(id <= lastId)
    BY <1>2 DEF ArbInit
  <2>5. /\ etf \in Int /\ booked \in Int /\ lostReplies \in 0 .. MaxLostReplies
        /\ routed \subseteq 1 .. lastId /\ overlapped \subseteq Symbols /\ arbInProgress \in BOOLEAN
    <3>1. /\ etf = 0 /\ booked = 0 /\ lostReplies = 0 /\ routed = {} /\ overlapped = {}
          /\ arbInProgress = FALSE
      BY DEF ArbInit
    <3>2. routed \subseteq 1 .. lastId /\ overlapped \subseteq Symbols
      BY <3>1, Zenon
    <3>3. arbInProgress \in BOOLEAN
      BY <3>1
    <3>4. etf \in Int /\ booked \in Int
      <4>1. etf = 0 /\ booked = 0
        BY <3>1
      <4>2. QED BY <4>1
    <3>5. lostReplies \in 0 .. MaxLostReplies
      BY <2>2, <3>1
    <3>6. QED BY <3>2, <3>3, <3>4, <3>5
  <2>6. sent \in [ClientIds -> Orders \cup {Unused}] /\ \A id \in ClientIds : sent[id] = Unused
    BY <2>4
  <2>7. QED BY <2>1, <2>3, <2>4, <2>5, <2>6 DEF ArbTyped
<1>4. Accounted
  <2> SUFFICES ASSUME NEW s \in Symbols
               PROVE  position[s] = StartPosition[s] + EtfEffect(booked, s) + BoughtBy(sent, s, reported)
    BY DEF Accounted
  <2> DEFINE f == [id \in ClientIds |-> IF sent[id].symbol = s THEN Signed(sent[id].side, reported[id]) ELSE 0]
  <2>1. \A id \in ClientIds : f[id] = 0
    <3>1. ASSUME NEW n \in Int, NEW side PROVE Signed(side, n) = n \/ Signed(side, n) = 0 - n
      BY DEF Signed
    <3>2. \A id \in ClientIds : reported[id] = 0
      BY <1>2
    <3>3. \A id \in ClientIds : f[id] = 0 \/ f[id] = reported[id] \/ f[id] = 0 - reported[id]
      BY <3>1, <3>2
    <3>4. QED BY <3>2, <3>3
  <2>2. IsFiniteSet(ClientIds)
    BY CountFinite, BoundsAssumption DEF ClientIds
  <2>3. BoughtBy(sent, s, reported) = SumFunctionOnSet(f, ClientIds)
    BY DEF BoughtBy, SumFunction
  <2> HIDE DEF f
  <2>4. BoughtBy(sent, s, reported) = 0
    BY <2>1, <2>2, <2>3, SumZero
  <2>5. EtfEffect(booked, s) = 0 /\ position[s] = StartPosition[s] /\ StartPosition[s] \in Int
    <3>1. \A n \in Int : EtfEffect(n, s) \in {n, 0 - n, 0}
      BY DEF EtfEffect
    <3>2. booked = 0 /\ position = StartPosition
      BY DEF ArbInit
    <3>3. EtfEffect(booked, s) \in {booked, 0 - booked, 0}
      BY <3>1, <3>2
    <3>4. QED BY <3>2, <3>3, StartAssumption
  <2>6. QED BY <2>4, <2>5
<1>5. RoutedTillDone
  BY <1>2 DEF RoutedTillDone
<1>6. QED BY <1>1, <1>3, <1>4, <1>5 DEF PInv, BInv

LEMMA ArbInvariance == ArbSpec => []PInv
<1>1. QED BY InitPInv, NextPInv, PTL DEF ArbSpec

\* The variables keep their types: the ids that are kept or routed were drawn, every order
\* sent is of a known symbol, and no client count leaves its range.
THEOREM ArbTypes == ArbSpec => []ArbTypeOK
<1>1. PInv => position \in [Symbols -> Int] /\ routed \subseteq 1 .. lastId /\ arbInProgress \in BOOLEAN
              /\ {bidId, askId, flattenId} \subseteq 0 .. lastId /\ etf \in Int /\ booked \in Int
              /\ lostReplies \in 0 .. MaxLostReplies /\ overlapped \subseteq Symbols
  BY DEF PInv, BInv, AInv, QuotesOK, ArbTyped
<1>2. PInv => \A id \in ClientIds : sent[id] # Unused => id <= lastId /\ sent[id].symbol \in Symbols
  BY DEF PInv, BInv, ArbTyped, Orders
<1>3. TypeOK /\ PInv => ArbTypeOK
  BY <1>1, <1>2 DEF ArbTypeOK
<1>4. QED BY <1>3, ArbInvariance, ArbImplementsClient, ClientTypes, PTL

\* A position differs from what is held at the exchange and the service by exactly the fills
\* that are unread, and by what the service did without the bot learning of it: for any
\* basket, start and number of orders, whatever was cancelled, rejected or left resting.
THEOREM EveryFillIsAccounted == ArbSpec => []PositionsAreAccounted
<1>1. PInv => PositionsAreAccounted
  <2> SUFFICES ASSUME PInv, connected, NEW s \in Symbols
               PROVE  Holding(s) = position[s] + EtfEffect(etf - booked, s)
                                     + Bought(s, [id \in ClientIds |-> UnreadFills(id)])
    BY DEF PositionsAreAccounted
  <2> DEFINE unread == [id \in ClientIds |-> UnreadFills(id)]
  <2>1. /\ executed \in [ClientIds -> Nat] /\ reported \in [ClientIds -> Nat] /\ stream \in Seq(Messages)
    BY CountTypes DEF PInv, BInv, AInv
  <2>2. \A id \in ClientIds : UnreadFills(id) \in Nat /\ executed[id] = reported[id] + UnreadFills(id)
    <3>1. TAKE id \in ClientIds
    <3>2. Tale(stream, id, reported[id], executed[id], resting[id])
      BY DEF PInv, BInv, FInv, Tales
    <3>3. QED BY <2>1, <3>2, FillsType DEF Tale, UnreadFills
  <2>3. /\ unread \in [ClientIds -> Int] /\ executed \in [ClientIds -> Int] /\ reported \in [ClientIds -> Int]
        /\ \A id \in ClientIds : executed[id] = reported[id] + unread[id]
    BY <2>1, <2>2
  <2> HIDE DEF unread
  <2>4. BoughtBy(sent, s, executed) = BoughtBy(sent, s, reported) + BoughtBy(sent, s, unread)
        /\ BoughtBy(sent, s, reported) \in Int /\ BoughtBy(sent, s, unread) \in Int
    <3> DEFINE ex == executed
               rep == reported
    <3>1. ex \in [ClientIds -> Int] /\ rep \in [ClientIds -> Int] /\ unread \in [ClientIds -> Int]
          /\ \A id \in ClientIds : ex[id] = rep[id] + unread[id]
      BY <2>3
    <3> HIDE DEF ex, rep
    <3>2. BoughtBy(sent, s, ex) = BoughtBy(sent, s, rep) + BoughtBy(sent, s, unread)
      BY <3>1, BoughtAdd
    <3>3. BoughtBy(sent, s, rep) \in Int /\ BoughtBy(sent, s, unread) \in Int
      BY <3>1, BoughtType
    <3>4. QED BY <3>2, <3>3 DEF ex, rep
  <2>5. position[s] = StartPosition[s] + EtfEffect(booked, s) + BoughtBy(sent, s, reported)
    BY DEF PInv, Accounted
  <2>6. /\ EtfEffect(etf, s) = EtfEffect(booked, s) + EtfEffect(etf - booked, s)
        /\ EtfEffect(booked, s) \in Int /\ EtfEffect(etf - booked, s) \in Int
        /\ StartPosition[s] \in Int
    <3>1. etf \in Int /\ booked \in Int /\ etf - booked \in Int /\ booked + (etf - booked) = etf
      BY DEF PInv, BInv, ArbTyped
    <3>2. QED BY <3>1, EffectsAdd, StartAssumption
  <2>7. Holding(s) = StartPosition[s] + EtfEffect(etf, s) + BoughtBy(sent, s, executed)
    BY DEF Holding, HeldIn, Bought, BoughtBy
  <2>8. Bought(s, unread) = BoughtBy(sent, s, unread)
    BY DEF Bought, BoughtBy
  <2>9. Holding(s) = position[s] + EtfEffect(etf - booked, s) + Bought(s, unread)
    BY <2>4, <2>5, <2>6, <2>7, <2>8
  <2>10. QED BY <2>9 DEF unread
<1>2. QED BY <1>1, ArbInvariance, PTL

-----------------------------------------------------------------------------
(* What is held at the least and at the most *)

\* What orders bought rises with every count, whatever one of them does.
LEMMA BoughtRises ==
    ASSUME NEW o, NEW s, NEW n \in [ClientIds -> Int], NEW m \in [ClientIds -> Int],
           NEW a \in ClientIds,
           \A id \in ClientIds \ {a} :
               o[id].symbol = s => Signed(o[id].side, n[id]) <= Signed(o[id].side, m[id])
    PROVE  BoughtBy(o, s, m)
             >= BoughtBy(o, s, n) + (IF o[a].symbol = s THEN Signed(o[a].side, m[a] - n[a]) ELSE 0)
<1> DEFINE f == [id \in ClientIds |-> IF o[id].symbol = s THEN Signed(o[id].side, n[id]) ELSE 0]
           g == [id \in ClientIds |-> IF o[id].symbol = s THEN Signed(o[id].side, m[id]) ELSE 0]
           d == [id \in ClientIds |-> g[id] - f[id]]
           rest == ClientIds \ {a}
<1>1. \A id \in ClientIds : f[id] \in Int /\ g[id] \in Int
  BY DEF Signed
<1>2. IsFiniteSet(ClientIds) /\ IsFiniteSet(rest)
  BY CountFinite, FS_Subset, BoundsAssumption DEF ClientIds
<1>3. d[a] = IF o[a].symbol = s THEN Signed(o[a].side, m[a] - n[a]) ELSE 0
  BY DEF Signed
<1>4. \A id \in rest : f[id] <= g[id]
  OBVIOUS
<1>5. BoughtBy(o, s, n) = SumFunctionOnSet(f, ClientIds)
      /\ BoughtBy(o, s, m) = SumFunctionOnSet(g, ClientIds)
  BY DEF BoughtBy, SumFunction
<1> HIDE DEF f, g
<1>6. /\ \A id \in ClientIds : d[id] \in Int /\ g[id] = f[id] + d[id]
      /\ \A id \in rest : d[id] \in Nat
  BY <1>1, <1>4
<1> HIDE DEF d
<1>7. SumFunctionOnSet(g, ClientIds) = SumFunctionOnSet(f, ClientIds) + SumFunctionOnSet(d, ClientIds)
  BY <1>1, <1>2, <1>6, SumAdd
<1>8. SumFunctionOnSet(d, ClientIds) = d[a] + SumFunctionOnSet(d, rest)
  BY <1>2, <1>6, SumRemove
<1>9. SumFunctionOnSet(d, rest) \in Nat
  BY <1>2, <1>6, SumNat
<1>10. SumFunctionOnSet(f, ClientIds) \in Int /\ d[a] \in Int
  BY <1>1, <1>2, <1>6, SumInt
<1> DEFINE F == SumFunctionOnSet(f, ClientIds)
           D == SumFunctionOnSet(d, rest)
           x == d[a]
<1>11. F \in Int /\ D \in Nat /\ x \in Int /\ SumFunctionOnSet(g, ClientIds) = F + (x + D)
  BY <1>7, <1>8, <1>9, <1>10
<1> HIDE DEF F, D, x
<1>12. F + (x + D) >= F + x
  BY <1>11
<1>13. QED BY <1>3, <1>5, <1>11, <1>12 DEF F, x

LEMMA BoughtGrows ==
    ASSUME NEW o, NEW s, NEW n \in [ClientIds -> Int], NEW m \in [ClientIds -> Int],
           \A id \in ClientIds :
               o[id].symbol = s => Signed(o[id].side, n[id]) <= Signed(o[id].side, m[id])
    PROVE  BoughtBy(o, s, m) >= BoughtBy(o, s, n)
<1>1. 1 \in ClientIds
  BY BoundsAssumption DEF ClientIds
<1>2. BoughtBy(o, s, m)
        >= BoughtBy(o, s, n) + (IF o[1].symbol = s THEN Signed(o[1].side, m[1] - n[1]) ELSE 0)
  BY <1>1, BoughtRises
<1>3. BoughtBy(o, s, m) \in Int /\ BoughtBy(o, s, n) \in Int
  BY BoughtType
<1> DEFINE d == IF o[1].symbol = s THEN Signed(o[1].side, m[1] - n[1]) ELSE 0
<1>4. d \in Nat
  BY <1>1 DEF Signed
<1> HIDE DEF d
<1>5. BoughtBy(o, s, m) >= BoughtBy(o, s, n) + d
  BY <1>2 DEF d
<1>6. QED BY <1>3, <1>4, <1>5

\* The count of each order, were all that works on one side to fill
IfFilled(side) ==
    [id \in ClientIds |-> executed[id] + IF sent[id].side = side THEN resting[id] ELSE 0]

\* What is then held, as far as the bot was told of the service: for the sells the least
\* that what works can lead to, for the buys the most
Reach(s, side) == StartPosition[s] + EtfEffect(booked, s) + BoughtBy(sent, s, IfFilled(side))

\* What an order has still to report or to fill
Left(id) == executed[id] + resting[id] - reported[id]

\* An invariant's facts in one place
LEMMA StateFacts ==
    ASSUME PInv
    PROVE  /\ executed \in [ClientIds -> Nat] /\ resting \in [ClientIds -> Nat]
           /\ reported \in [ClientIds -> Nat] /\ lastId \in Nat /\ ClientIds \subseteq Nat
           /\ \A id \in ClientIds :
                 /\ reported[id] <= executed[id]
                 /\ id > lastId => /\ executed[id] = 0 /\ resting[id] = 0 /\ reported[id] = 0
                                   /\ sent[id] = Unused
                 /\ id <= lastId => sent[id].symbol \in Symbols /\ sent[id].side \in Sides
                 /\ Left(id) \in Nat
           /\ position \in [Symbols -> Int] /\ booked \in Int
<1>1. CInv /\ FInv /\ ArbTyped
  BY DEF PInv, BInv, AInv
<1>2. /\ executed \in [ClientIds -> Nat] /\ resting \in [ClientIds -> Nat]
      /\ reported \in [ClientIds -> Nat] /\ lastId \in Nat /\ ClientIds \subseteq Nat
      /\ \A id \in ClientIds : reported[id] <= executed[id]
      /\ \A id \in ClientIds : id > lastId => executed[id] = 0 /\ resting[id] = 0 /\ reported[id] = 0
  BY <1>1, CountTypes
<1>3. \A id \in ClientIds : (id <= lastId \/ id > lastId) /\ (id > lastId => ~(id <= lastId))
  BY <1>2
<1>4. \A id \in ClientIds : /\ id > lastId => sent[id] = Unused
                            /\ id <= lastId => sent[id].symbol \in Symbols /\ sent[id].side \in Sides
  BY <1>1, <1>3 DEF ArbTyped, Orders
<1>5. \A id \in ClientIds : Left(id) \in Nat
  BY <1>2 DEF Left
<1>6. QED BY <1>1, <1>2, <1>4, <1>5 DEF ArbTyped

LEMMA ReachType ==
    ASSUME PInv, NEW s \in Symbols, NEW side
    PROVE  IfFilled(side) \in [ClientIds -> Int] /\ Reach(s, side) \in Int
<1>1. IfFilled(side) \in [ClientIds -> Int]
  BY StateFacts DEF IfFilled
<1>2. BoughtBy(sent, s, IfFilled(side)) \in Int
  BY <1>1, BoughtType
<1>3. StartPosition[s] \in Int /\ EtfEffect(booked, s) \in Int
  BY StateFacts, StartAssumption, EffectsAdd
<1>4. QED BY <1>1, <1>2, <1>3 DEF Reach

\* The counts after a step
LEMMA NextCounts ==
    ASSUME CInv', FInv'
    PROVE  /\ executed' \in [ClientIds -> Nat] /\ resting' \in [ClientIds -> Nat]
           /\ reported' \in [ClientIds -> Nat]
           /\ \A id \in ClientIds :
                 /\ reported'[id] <= executed'[id]
                 /\ id > lastId' => executed'[id] = 0 /\ resting'[id] = 0
<1>1. /\ executed' \in [ClientIds -> Nat] /\ reported' \in [ClientIds -> Nat]
      /\ \A id \in ClientIds : reported'[id] <= executed'[id]
      /\ \A id \in ClientIds : id > lastId' => executed'[id] = 0 /\ resting'[id] = 0
  BY DEF FInv, Counted
<1>2. resting' \in [ClientIds -> Nat]
  BY DEF CInv, TInv, Typed
<1>3. QED BY <1>1, <1>2

\* Fills, cancels and the loss of the connection raise the least and lower the most; a
\* fill of a buy raises the least by what it fills.
LEMMA ReachQuiet ==
    ASSUME PInv, CInv', FInv', Shrinks, UNCHANGED <<sent, booked, lastId>>, NEW s \in Symbols
    PROVE  /\ Reach(s, "SELL")' >= Reach(s, "SELL")
           /\ Reach(s, "BUY")' <= Reach(s, "BUY")
           /\ \A a \in ClientIds :
                 sent[a].symbol = s /\ sent[a].side = "BUY"
                     => Reach(s, "SELL")' >= Reach(s, "SELL") + (executed'[a] - executed[a])
<1> DEFINE n == IfFilled("SELL")
           m == IfFilled("SELL")'
           u == IfFilled("BUY")
           v == IfFilled("BUY")'
           B(c) == BoughtBy(sent, s, c)
           base == StartPosition[s] + EtfEffect(booked, s)
<1>1. /\ executed \in [ClientIds -> Nat] /\ resting \in [ClientIds -> Nat]
      /\ executed' \in [ClientIds -> Nat] /\ resting' \in [ClientIds -> Nat]
  BY StateFacts, NextCounts
<1>2. \A id \in ClientIds :
         /\ executed'[id] >= executed[id]
         /\ executed'[id] + resting'[id] <= executed[id] + resting[id]
  <2>1. TAKE id \in ClientIds
  <2>2. CASE id <= lastId
    BY <2>2 DEF Shrinks
  <2>3. CASE id > lastId
    <3>1. executed[id] = 0 /\ resting[id] = 0 /\ executed'[id] = 0 /\ resting'[id] = 0
      BY <2>3, StateFacts, NextCounts
    <3>2. QED BY <3>1
  <2>4. QED BY <2>2, <2>3, StateFacts
<1>3. /\ n \in [ClientIds -> Int] /\ m \in [ClientIds -> Int]
      /\ u \in [ClientIds -> Int] /\ v \in [ClientIds -> Int]
      /\ \A id \in ClientIds :
            /\ n[id] = executed[id] + (IF sent[id].side = "SELL" THEN resting[id] ELSE 0)
            /\ m[id] = executed'[id] + (IF sent[id].side = "SELL" THEN resting'[id] ELSE 0)
            /\ u[id] = executed[id] + (IF sent[id].side = "BUY" THEN resting[id] ELSE 0)
            /\ v[id] = executed'[id] + (IF sent[id].side = "BUY" THEN resting'[id] ELSE 0)
  BY <1>1 DEF IfFilled
<1>4. /\ base \in Int /\ Reach(s, "SELL") = base + B(n) /\ Reach(s, "SELL")' = base + B(m)
      /\ Reach(s, "BUY") = base + B(u) /\ Reach(s, "BUY")' = base + B(v)
  <2>1. StartPosition[s] \in Int /\ EtfEffect(booked, s) \in Int
    BY StateFacts, StartAssumption, EffectsAdd
  <2>2. QED BY <2>1 DEF Reach
<1> HIDE DEF n, m, u, v
<1>5. \A id \in ClientIds : sent[id].side \in Sides \/ sent[id] = Unused
  BY StateFacts
<1>6. \A id \in ClientIds :
         sent[id].symbol = s => /\ Signed(sent[id].side, n[id]) <= Signed(sent[id].side, m[id])
                                /\ Signed(sent[id].side, v[id]) <= Signed(sent[id].side, u[id])
  <2>1. TAKE id \in ClientIds
  <2> DEFINE e == executed[id]
             r == resting[id]
             f == executed'[id]
             q == resting'[id]
  <2>2. e \in Nat /\ r \in Nat /\ f \in Nat /\ q \in Nat /\ f >= e /\ f + q <= e + r
    BY <1>1, <1>2
  <2>3. CASE sent[id].side = "BUY"
    <3>1. n[id] = e /\ m[id] = f /\ u[id] = e + r /\ v[id] = f + q
      BY <1>3, <2>2, <2>3
    <3> HIDE DEF e, r, f, q
    <3>2. QED BY <2>2, <2>3, <3>1 DEF Signed
  <2>4. CASE sent[id].side = "SELL"
    <3>1. n[id] = e + r /\ m[id] = f + q /\ u[id] = e /\ v[id] = f
      BY <1>3, <2>2, <2>4
    <3> HIDE DEF e, r, f, q
    <3>2. QED BY <2>2, <2>4, <3>1 DEF Signed
  <2>5. CASE sent[id].side \notin Sides
    <3>1. id > lastId
      BY <2>5, StateFacts
    <3>2. e = 0 /\ r = 0 /\ f = 0 /\ q = 0
      BY <3>1, StateFacts, NextCounts
    <3>3. n[id] = 0 /\ m[id] = 0 /\ u[id] = 0 /\ v[id] = 0
      BY <1>3, <3>2
    <3>4. QED BY <3>3 DEF Signed
  <2>6. QED BY <2>3, <2>4, <2>5 DEF Sides
<1>7. B(n) \in Int /\ B(m) \in Int /\ B(u) \in Int /\ B(v) \in Int
  BY <1>3, BoughtType
<1>8. B(m) >= B(n) /\ B(u) >= B(v)
  BY <1>3, <1>6, BoughtGrows
<1>9. ASSUME NEW a \in ClientIds, sent[a].symbol = s, sent[a].side = "BUY"
      PROVE  B(m) >= B(n) + (executed'[a] - executed[a])
  <2>1. n[a] = executed[a] /\ m[a] = executed'[a]
    BY <1>1, <1>3, <1>9
  <2>2. B(m) >= B(n) + Signed(sent[a].side, m[a] - n[a])
    <3>1. B(m) >= B(n) + (IF sent[a].symbol = s THEN Signed(sent[a].side, m[a] - n[a]) ELSE 0)
      BY <1>3, <1>6, BoughtRises
    <3>2. QED BY <1>9, <3>1
  <2>3. QED BY <1>9, <2>1, <2>2 DEF Signed
<1> HIDE DEF base, B
<1>10. /\ base + B(m) >= base + B(n) /\ base + B(v) <= base + B(u)
       /\ \A a \in ClientIds :
             sent[a].symbol = s /\ sent[a].side = "BUY"
                 => base + B(m) >= (base + B(n)) + (executed'[a] - executed[a])
  <2>1. \A a \in ClientIds : executed'[a] - executed[a] \in Int
    BY <1>1
  <2>2. base \in Int
    BY <1>4
  <2>3. QED BY <1>7, <1>8, <1>9, <2>1, <2>2
<1>11. QED BY <1>4, <1>10

\* An order that is sent moves the bound of its own side by what it was accepted for; of a
\* buy, what fills at once is held.
LEMMA ReachOrdered ==
    ASSUME PInv, CInv', FInv', NEW t \in Symbols, NEW side \in Sides, NEW qty \in Qtys, NEW role,
           Ordered(t, side, qty, role), NEW s \in Symbols,
           NEW e, e = executed'[lastId'], NEW k, k = executed'[lastId'] + resting'[lastId']
    PROVE  /\ e \in Nat /\ k \in Nat /\ e <= k
           /\ t # s => Reach(s, "SELL")' >= Reach(s, "SELL") /\ Reach(s, "BUY")' <= Reach(s, "BUY")
           /\ t = s /\ side = "BUY" => /\ Reach(s, "SELL")' >= Reach(s, "SELL") + e
                                       /\ Reach(s, "BUY")' <= Reach(s, "BUY") + k
           /\ t = s /\ side = "SELL" => /\ Reach(s, "SELL")' >= Reach(s, "SELL") - k
                                        /\ Reach(s, "BUY")' <= Reach(s, "BUY")
<1> DEFINE n == IfFilled("SELL")
           m == IfFilled("SELL")'
           u == IfFilled("BUY")
           v == IfFilled("BUY")'
           a == lastId'
           order == [symbol |-> t, side |-> side, role |-> role]
           o == sent'
           B(c) == BoughtBy(o, s, c)
           base == StartPosition[s] + EtfEffect(booked, s)
<1>1. /\ executed \in [ClientIds -> Nat] /\ resting \in [ClientIds -> Nat]
      /\ executed' \in [ClientIds -> Nat] /\ resting' \in [ClientIds -> Nat]
      /\ ClientIds \subseteq Nat /\ lastId \in Nat
  BY StateFacts, NextCounts
<1>2. /\ a \in ClientIds /\ a = lastId + 1 /\ Shrinks /\ booked' = booked
      /\ o = [sent EXCEPT ![a] = order]
  BY DEF Ordered, service
<1>3. executed[a] = 0 /\ resting[a] = 0
  <2>1. a > lastId
    BY <1>1, <1>2
  <2>2. QED BY <1>2, <2>1, StateFacts
<1>4. o[a] = order /\ \A id \in ClientIds \ {a} : o[id] = sent[id]
  <2>1. sent \in [ClientIds -> Orders \cup {Unused}]
    BY DEF PInv, BInv, ArbTyped
  <2>2. QED BY <1>2, <2>1
<1>5. order.symbol = t /\ order.side = side
  OBVIOUS
<1> HIDE DEF order, o
<1>6. \A id \in ClientIds \ {a} :
         /\ executed'[id] >= executed[id]
         /\ executed'[id] + resting'[id] <= executed[id] + resting[id]
  <2>1. TAKE id \in ClientIds \ {a}
  <2>2. CASE id <= lastId
    BY <1>2, <2>2 DEF Shrinks
  <2>3. CASE id > lastId
    <3>1. id > a
      BY <1>1, <1>2, <2>3
    <3>2. executed[id] = 0 /\ resting[id] = 0 /\ executed'[id] = 0 /\ resting'[id] = 0
      BY <2>3, <3>1, StateFacts, NextCounts
    <3>3. QED BY <3>2
  <2>4. QED BY <1>1, <2>2, <2>3
<1>7. /\ n \in [ClientIds -> Int] /\ m \in [ClientIds -> Int]
      /\ u \in [ClientIds -> Int] /\ v \in [ClientIds -> Int]
      /\ \A id \in ClientIds :
            /\ n[id] = executed[id] + (IF sent[id].side = "SELL" THEN resting[id] ELSE 0)
            /\ m[id] = executed'[id] + (IF o[id].side = "SELL" THEN resting'[id] ELSE 0)
            /\ u[id] = executed[id] + (IF sent[id].side = "BUY" THEN resting[id] ELSE 0)
            /\ v[id] = executed'[id] + (IF o[id].side = "BUY" THEN resting'[id] ELSE 0)
  BY <1>1 DEF IfFilled, o
<1> HIDE DEF n, m, u, v
<1>8. n[a] = 0 /\ u[a] = 0
  BY <1>2, <1>3, <1>7
<1>9. BoughtBy(sent, s, n) = B(n) /\ BoughtBy(sent, s, u) = B(u)
  <2>1. \A id \in ClientIds : (sent[id] = o[id] /\ n[id] = n[id]) \/ (n[id] = 0 /\ n[id] = 0)
    BY <1>4, <1>8
  <2>2. \A id \in ClientIds : (sent[id] = o[id] /\ u[id] = u[id]) \/ (u[id] = 0 /\ u[id] = 0)
    BY <1>4, <1>8
  <2>3. BoughtBy(sent, s, n) = BoughtBy(o, s, n)
    BY <1>7, <2>1, BoughtAgree
  <2>4. BoughtBy(sent, s, u) = BoughtBy(o, s, u)
    BY <1>7, <2>2, BoughtAgree
  <2>5. QED BY <2>3, <2>4
<1>10. /\ base \in Int /\ Reach(s, "SELL") = base + B(n) /\ Reach(s, "SELL")' = base + B(m)
       /\ Reach(s, "BUY") = base + B(u) /\ Reach(s, "BUY")' = base + B(v)
  <2>1. StartPosition[s] \in Int /\ EtfEffect(booked, s) \in Int
    BY StateFacts, StartAssumption, EffectsAdd
  <2>2. QED BY <1>2, <1>9, <2>1 DEF Reach, n, m, u, v, o
<1>11. \A id \in ClientIds \ {a} :
          o[id].symbol = s => /\ Signed(o[id].side, n[id]) <= Signed(o[id].side, m[id])
                              /\ Signed(o[id].side, v[id]) <= Signed(o[id].side, u[id])
  <2>1. TAKE id \in ClientIds \ {a}
  <2> DEFINE x == executed[id]
             r == resting[id]
             f == executed'[id]
             q == resting'[id]
  <2>2. x \in Nat /\ r \in Nat /\ f \in Nat /\ q \in Nat /\ f >= x /\ f + q <= x + r
        /\ o[id] = sent[id]
    BY <1>1, <1>4, <1>6
  <2>3. CASE sent[id].side = "BUY"
    <3>1. n[id] = x /\ m[id] = f /\ u[id] = x + r /\ v[id] = f + q
      BY <1>7, <2>2, <2>3
    <3> HIDE DEF x, r, f, q
    <3>2. QED BY <2>2, <2>3, <3>1 DEF Signed
  <2>4. CASE sent[id].side = "SELL"
    <3>1. n[id] = x + r /\ m[id] = f + q /\ u[id] = x /\ v[id] = f
      BY <1>7, <2>2, <2>4
    <3> HIDE DEF x, r, f, q
    <3>2. QED BY <2>2, <2>4, <3>1 DEF Signed
  <2>5. CASE sent[id].side \notin Sides
    <3>1. id > lastId
      BY <2>5, StateFacts
    <3>2. id > a
      BY <1>1, <1>2, <3>1
    <3>3. x = 0 /\ r = 0 /\ f = 0 /\ q = 0
      BY <3>1, <3>2, StateFacts, NextCounts
    <3>4. n[id] = 0 /\ m[id] = 0 /\ u[id] = 0 /\ v[id] = 0
      BY <1>7, <3>3
    <3>5. QED BY <3>4 DEF Signed
  <2>6. QED BY <2>3, <2>4, <2>5 DEF Sides
<1>12. B(n) \in Int /\ B(m) \in Int /\ B(u) \in Int /\ B(v) \in Int
  BY <1>7, BoughtType
<1>13. /\ B(m) >= B(n) + (IF t = s THEN Signed(side, m[a] - n[a]) ELSE 0)
       /\ B(u) >= B(v) + (IF t = s THEN Signed(side, u[a] - v[a]) ELSE 0)
  <2> DEFINE b == a
  <2>1. /\ b \in ClientIds
        /\ n \in [ClientIds -> Int] /\ m \in [ClientIds -> Int]
        /\ u \in [ClientIds -> Int] /\ v \in [ClientIds -> Int]
        /\ \A id \in ClientIds \ {b} : o[id].symbol = s => Signed(o[id].side, n[id]) <= Signed(o[id].side, m[id])
        /\ \A id \in ClientIds \ {b} : o[id].symbol = s => Signed(o[id].side, v[id]) <= Signed(o[id].side, u[id])
    BY <1>2, <1>7, <1>11
  <2> HIDE DEF b
  <2>2. B(m) >= B(n) + (IF o[b].symbol = s THEN Signed(o[b].side, m[b] - n[b]) ELSE 0)
    BY <2>1, BoughtRises
  <2>3. B(u) >= B(v) + (IF o[b].symbol = s THEN Signed(o[b].side, u[b] - v[b]) ELSE 0)
    BY <2>1, BoughtRises
  <2>4. o[b].symbol = t /\ o[b].side = side
    BY <1>4, <1>5 DEF b
  <2>5. QED BY <2>2, <2>3, <2>4 DEF b
<1>14. e \in Nat /\ k \in Nat /\ e <= k
  BY <1>1, <1>2
<1>15. /\ side = "BUY" => m[a] = e /\ v[a] = k
       /\ side = "SELL" => m[a] = k /\ v[a] = e
  BY <1>1, <1>2, <1>4, <1>5, <1>7
<1> HIDE DEF base, B, a
<1>16. /\ t # s => B(m) >= B(n) /\ B(v) <= B(u)
       /\ t = s /\ side = "BUY" => B(m) >= B(n) + e /\ B(v) <= B(u) + k
       /\ t = s /\ side = "SELL" => B(m) >= B(n) - k /\ B(v) <= B(u)
  <2>1. CASE t # s
    BY <1>12, <1>13, <2>1
  <2>2. CASE t = s /\ side = "BUY"
    <3>1. B(m) >= B(n) + (e - 0) /\ B(u) >= B(v) + (0 - k)
      BY <1>8, <1>13, <1>15, <2>2 DEF Signed
    <3>2. QED BY <1>12, <1>14, <2>2, <3>1
  <2>3. CASE t = s /\ side = "SELL"
    <3>1. B(m) >= B(n) + (-(k - 0)) /\ B(u) >= B(v) + (-(0 - e))
      BY <1>8, <1>13, <1>15, <2>3 DEF Signed
    <3>2. QED BY <1>12, <1>14, <2>3, <3>1
  <2>4. QED BY <2>1, <2>2, <2>3 DEF Sides
<1>17. ASSUME NEW x \in Int, NEW y \in Int, NEW z \in Int, NEW w \in Int,
              x = base + B(n), y = base + B(m), z = base + B(u), w = base + B(v)
       PROVE  /\ t # s => y >= x /\ w <= z
              /\ t = s /\ side = "BUY" => y >= x + e /\ w <= z + k
              /\ t = s /\ side = "SELL" => y >= x - k /\ w <= z
  <2> DEFINE p == B(n)
             q == B(m)
             g == B(u)
             h == B(v)
  <2>1. /\ base \in Int /\ p \in Int /\ q \in Int /\ g \in Int /\ h \in Int
        /\ x = base + p /\ y = base + q /\ z = base + g /\ w = base + h
    BY <1>10, <1>12, <1>17
  <2>2. /\ t # s => q >= p /\ h <= g
        /\ t = s /\ side = "BUY" => q >= p + e /\ h <= g + k
        /\ t = s /\ side = "SELL" => q >= p - k /\ h <= g
    BY <1>16
  <2> HIDE DEF p, q, g, h
  <2>3. QED BY <1>14, <2>1, <2>2
<1>18. base + B(n) \in Int /\ base + B(m) \in Int /\ base + B(u) \in Int /\ base + B(v) \in Int
  BY <1>10, <1>12
<1> HIDE DEF Reach
<1>19. QED BY <1>10, <1>14, <1>17, <1>18

\* Nothing is out, of a symbol and for a purpose, that the bot has read up to and of which
\* nothing works.
LEMMA NothingLeft ==
    ASSUME PInv, connected, NEW s, NEW role, ~Outstanding(s, role),
           NEW id \in ClientIds, sent[id].symbol = s, SamePurpose(role, sent[id].role)
    PROVE  Left(id) = 0
<1>1. CASE id > lastId
  BY <1>1, StateFacts DEF Left
<1>2. CASE id <= lastId
  <2>1. id \in 1 .. lastId /\ stream \in Seq(Messages)
    BY <1>2, StateFacts DEF PInv, BInv, AInv, CInv, TInv, Typed, ClientIds
  <2>2. ~(resting[id] > 0) /\ ~(UnreadFills(id) > 0)
    BY <2>1 DEF Outstanding
  <2>3. UnreadFills(id) \in Nat
    BY <2>1, FillsType DEF UnreadFills
  <2>4. reported[id] + UnreadFills(id) = executed[id]
    BY DEF PInv, BInv, FInv, Tales, Tale, UnreadFills
  <2>5. QED BY <2>2, <2>3, <2>4, StateFacts DEF Left
<1>3. QED BY <1>1, <1>2, StateFacts

\* What an order has left to buy of a symbol
ToBuy(s, id) == IF sent[id].symbol = s /\ sent[id].side = "BUY" THEN Left(id) ELSE 0

\* Apart from what two orders of the symbol have left to buy, what is read is the most.
LEMMA ReadIsMost ==
    ASSUME PInv, NEW s \in Symbols, NEW a \in ClientIds, NEW b \in ClientIds,
           \A id \in ClientIds \ {a, b} : ToBuy(s, id) = 0
    PROVE  Reach(s, "BUY") <= position[s] + ToBuy(s, a) + (IF a = b THEN 0 ELSE ToBuy(s, b))
<1> DEFINE u == IfFilled("BUY")
           r == reported
           m == [id \in ClientIds |-> IF id = b THEN r[b] ELSE u[id]]
           B(c) == BoughtBy(sent, s, c)
           base == StartPosition[s] + EtfEffect(booked, s)
           x(id, d) == IF sent[id].symbol = s THEN Signed(sent[id].side, d) ELSE 0
<1>1. /\ executed \in [ClientIds -> Nat] /\ resting \in [ClientIds -> Nat] /\ r \in [ClientIds -> Nat]
      /\ \A id \in ClientIds : r[id] <= executed[id] /\ Left(id) \in Nat
  BY StateFacts
<1>2. /\ u \in [ClientIds -> Int] /\ r \in [ClientIds -> Int]
      /\ \A id \in ClientIds : /\ u[id] = executed[id] + (IF sent[id].side = "BUY" THEN resting[id] ELSE 0)
                               /\ Left(id) = executed[id] + resting[id] - r[id]
  BY <1>1 DEF IfFilled, Left
<1>3. base \in Int /\ Reach(s, "BUY") = base + B(u) /\ position[s] = base + B(r)
  <2>1. StartPosition[s] \in Int /\ EtfEffect(booked, s) \in Int
    BY StateFacts, StartAssumption, EffectsAdd
  <2>2. position[s] = StartPosition[s] + EtfEffect(booked, s) + B(r)
    BY DEF PInv, Accounted
  <2>3. QED BY <2>1, <2>2 DEF Reach
<1> HIDE DEF u, r
<1>4. \A id \in ClientIds : x(id, r[id] - u[id]) \in Int /\ x(id, r[id] - u[id]) >= 0 - ToBuy(s, id)
  <2>1. TAKE id \in ClientIds
  <2>2. CASE sent[id].symbol = s /\ sent[id].side = "BUY"
    <3>1. x(id, r[id] - u[id]) = r[id] - (executed[id] + resting[id]) /\ ToBuy(s, id) = Left(id)
      BY <1>2, <2>2 DEF Signed, ToBuy
    <3>2. QED BY <1>1, <1>2, <3>1
  <2>3. CASE sent[id].symbol = s /\ sent[id].side # "BUY"
    <3>1. x(id, r[id] - u[id]) = -(r[id] - u[id]) /\ ToBuy(s, id) = 0 /\ u[id] = executed[id]
      BY <1>1, <1>2, <2>3 DEF Signed, ToBuy
    <3>2. QED BY <1>1, <3>1
  <2>4. CASE sent[id].symbol # s
    BY <2>4 DEF ToBuy
  <2>5. QED BY <2>2, <2>3, <2>4
<1>5. \A id \in ClientIds \ {a, b} :
         sent[id].symbol = s => Signed(sent[id].side, u[id]) <= Signed(sent[id].side, r[id])
  <2>1. TAKE id \in ClientIds \ {a, b}
  <2>2. CASE sent[id].symbol = s
    <3>1. Signed(sent[id].side, r[id] - u[id]) >= 0
      BY <1>4, <2>2
    <3>2. QED BY <1>2, <3>1 DEF Signed
  <2>3. QED BY <2>2
<1>6. /\ m \in [ClientIds -> Int] /\ m[b] = r[b] /\ (a # b => m[a] = u[a])
      /\ \A id \in ClientIds \ {b} : m[id] = u[id]
  BY <1>2
<1> HIDE DEF m
<1>7. B(m) = B(u) + x(b, r[b] - u[b])
  <2>1. B(m) = B(u) + (IF sent[b].symbol = s THEN Signed(sent[b].side, m[b] - u[b]) ELSE 0)
    BY <1>2, <1>6, BoughtChange
  <2>2. QED BY <1>6, <2>1
<1>8. B(r) >= B(m) + (IF a = b THEN 0 ELSE x(a, r[a] - u[a]))
  <2>1. \A id \in ClientIds \ {a} :
           sent[id].symbol = s => Signed(sent[id].side, m[id]) <= Signed(sent[id].side, r[id])
    <3>1. TAKE id \in ClientIds \ {a}
    <3>2. CASE id = b
      BY <1>2, <1>6, <3>2 DEF Signed
    <3>3. CASE id # b
      BY <1>5, <1>6, <3>3
    <3>4. QED BY <3>2, <3>3
  <2>2. B(r) >= B(m) + (IF sent[a].symbol = s THEN Signed(sent[a].side, r[a] - m[a]) ELSE 0)
    BY <1>2, <1>6, <2>1, BoughtRises
  <2>3. CASE a # b
    BY <1>6, <2>2, <2>3
  <2>4. CASE a = b
    <3>1. (IF sent[a].symbol = s THEN Signed(sent[a].side, r[a] - m[a]) ELSE 0) = 0
      BY <1>2, <1>6, <2>4 DEF Signed
    <3>2. QED BY <2>2, <2>4, <3>1
  <2>5. QED BY <2>3, <2>4
<1>9. B(u) \in Int /\ B(r) \in Int /\ B(m) \in Int
  BY <1>2, <1>6, BoughtType
<1>10. PICK p, q, n, ka, kb, ya, yb :
          /\ p = B(u) /\ q = B(r) /\ n = B(m) /\ ya = ToBuy(s, a) /\ yb = ToBuy(s, b)
          /\ ka = x(a, r[a] - u[a]) /\ kb = x(b, r[b] - u[b])
  OBVIOUS
<1>11. /\ p \in Int /\ q \in Int /\ n \in Int /\ ya \in Int /\ yb \in Int /\ ka \in Int /\ kb \in Int
       /\ n = p + kb /\ ka >= 0 - ya /\ kb >= 0 - yb
       /\ q >= n + (IF a = b THEN 0 ELSE ka)
  <2>1. ya \in Int /\ yb \in Int
    BY <1>1, <1>10 DEF ToBuy
  <2>2. QED BY <1>4, <1>7, <1>8, <1>9, <1>10, <2>1
<1>12. Reach(s, "BUY") = base + p /\ position[s] = base + q
  BY <1>3, <1>10
<1> SUFFICES base + p <= (base + q) + ya + (IF a = b THEN 0 ELSE yb)
  BY <1>10, <1>12
<1> HIDE DEF base, B, x
<1>13. a = b => ya = yb
  BY <1>10
<1>14. QED BY <1>3, <1>11, <1>13

\* With no sell out, what is read is the least.
LEMMA ReadIsLeast ==
    ASSUME PInv, NEW s \in Symbols,
           \A id \in ClientIds : sent[id].symbol = s /\ sent[id].side = "SELL" => Left(id) = 0
    PROVE  Reach(s, "SELL") >= position[s]
<1> DEFINE u == IfFilled("SELL")
           r == reported
           B(c) == BoughtBy(sent, s, c)
           base == StartPosition[s] + EtfEffect(booked, s)
<1>1. /\ executed \in [ClientIds -> Nat] /\ resting \in [ClientIds -> Nat] /\ r \in [ClientIds -> Nat]
      /\ \A id \in ClientIds : r[id] <= executed[id]
  BY StateFacts
<1>2. /\ u \in [ClientIds -> Int] /\ r \in [ClientIds -> Int]
      /\ \A id \in ClientIds : u[id] = executed[id] + (IF sent[id].side = "SELL" THEN resting[id] ELSE 0)
  BY <1>1 DEF IfFilled
<1>3. base \in Int /\ Reach(s, "SELL") = base + B(u) /\ position[s] = base + B(r)
  <2>1. StartPosition[s] \in Int /\ EtfEffect(booked, s) \in Int
    BY StateFacts, StartAssumption, EffectsAdd
  <2>2. position[s] = StartPosition[s] + EtfEffect(booked, s) + B(r)
    BY DEF PInv, Accounted
  <2>3. QED BY <2>1, <2>2 DEF Reach
<1> HIDE DEF u, r
<1>4. \A id \in ClientIds :
         sent[id].symbol = s => Signed(sent[id].side, r[id]) <= Signed(sent[id].side, u[id])
  <2>1. TAKE id \in ClientIds
  <2>2. CASE sent[id].symbol = s /\ sent[id].side = "SELL"
    <3>1. executed[id] + resting[id] - r[id] = 0
      BY <2>2 DEF Left, r
    <3>2. QED BY <1>1, <1>2, <2>2, <3>1 DEF Signed
  <2>3. CASE sent[id].side = "BUY"
    BY <1>1, <1>2, <2>3 DEF Signed
  <2>4. CASE sent[id].side \notin Sides
    <3>1. id > lastId
      BY <2>4, StateFacts
    <3>2. executed[id] = 0 /\ resting[id] = 0 /\ r[id] = 0
      BY <3>1, StateFacts DEF r
    <3>3. u[id] = 0
      BY <1>2, <3>2
    <3>4. QED BY <3>2, <3>3 DEF Signed
  <2>5. QED BY <2>2, <2>3, <2>4 DEF Sides
<1>5. B(u) >= B(r)
  BY <1>2, <1>4, BoughtGrows
<1>6. B(u) \in Int /\ B(r) \in Int
  BY <1>2, BoughtType
<1> DEFINE p == B(u)
           q == B(r)
<1>7. p \in Int /\ q \in Int /\ p >= q /\ Reach(s, "SELL") = base + p /\ position[s] = base + q
  BY <1>3, <1>5, <1>6
<1> SUFFICES base + p >= base + q
  BY <1>7
<1> HIDE DEF base, p, q
<1>8. QED BY <1>3, <1>7

\* What is held lies between the least and the most.
LEMMA HeldBetween ==
    ASSUME PInv, NEW s \in Symbols, EtfEffect(etf, s) = EtfEffect(booked, s)
    PROVE  Holding(s) \in Int /\ Reach(s, "SELL") <= Holding(s) /\ Holding(s) <= Reach(s, "BUY")
<1> DEFINE u == IfFilled("BUY")
           v == IfFilled("SELL")
           e == executed
           B(c) == BoughtBy(sent, s, c)
           base == StartPosition[s] + EtfEffect(booked, s)
<1>1. executed \in [ClientIds -> Nat] /\ resting \in [ClientIds -> Nat]
  BY StateFacts
<1>2. /\ u \in [ClientIds -> Int] /\ v \in [ClientIds -> Int] /\ e \in [ClientIds -> Int]
      /\ \A id \in ClientIds : /\ u[id] = e[id] + (IF sent[id].side = "BUY" THEN resting[id] ELSE 0)
                               /\ v[id] = e[id] + (IF sent[id].side = "SELL" THEN resting[id] ELSE 0)
                               /\ e[id] \in Nat
  BY <1>1 DEF IfFilled
<1>3. /\ base \in Int /\ Reach(s, "SELL") = base + B(v) /\ Reach(s, "BUY") = base + B(u)
      /\ Holding(s) = base + B(e)
  <2>1. StartPosition[s] \in Int /\ EtfEffect(booked, s) \in Int
    BY StateFacts, StartAssumption, EffectsAdd
  <2>2. Bought(s, executed) = B(e)
    BY DEF Bought, BoughtBy
  <2>3. QED BY <2>1, <2>2 DEF Reach, Holding, HeldIn
<1> HIDE DEF u, v, e
<1>4. \A id \in ClientIds :
         sent[id].symbol = s => /\ Signed(sent[id].side, v[id]) <= Signed(sent[id].side, e[id])
                                /\ Signed(sent[id].side, e[id]) <= Signed(sent[id].side, u[id])
  <2>1. TAKE id \in ClientIds
  <2>2. CASE sent[id].side = "SELL"
    BY <1>1, <1>2, <2>2 DEF Signed
  <2>3. CASE sent[id].side = "BUY"
    BY <1>1, <1>2, <2>3 DEF Signed
  <2>4. CASE sent[id].side \notin Sides
    <3>1. u[id] = e[id] /\ v[id] = e[id]
      BY <1>2, <2>4 DEF Sides
    <3>2. QED BY <1>2, <3>1 DEF Signed
  <2>5. QED BY <2>2, <2>3, <2>4 DEF Sides
<1>5. B(v) <= B(e) /\ B(e) <= B(u)
  <2>1. B(e) >= B(v) /\ B(u) >= B(e)
    BY <1>2, <1>4, BoughtGrows
  <2>2. B(u) \in Int /\ B(v) \in Int /\ B(e) \in Int
    BY <1>2, BoughtType
  <2>3. QED BY <2>1, <2>2
<1>6. B(u) \in Int /\ B(v) \in Int /\ B(e) \in Int
  BY <1>2, BoughtType
<1> HIDE DEF base, B
<1>7. base + B(e) \in Int /\ base + B(v) <= base + B(e) /\ base + B(e) <= base + B(u)
  BY <1>3, <1>5, <1>6
<1>8. QED BY <1>3, <1>7

-----------------------------------------------------------------------------
(* What the thread trades on *)

\* No order of the symbol was sent while another was out.
Apart(s) == s \notin overlapped

\* The least that may be held
Floor(s) == Lesser(0, StartPosition[s])

\* No order of this side has anything left to fill or to report.
NoneOut(s, side) ==
    \A id \in ClientIds : sent[id].symbol = s /\ sent[id].side = side => Left(id) = 0

DormsSold == \A d \in Dorms : Apart(d) => NoneOut(d, "SELL")

\* Even if every sell fills and no buy, nothing is oversold.
NoneShort == \A s \in Symbols \ {"BLUE"} : Apart(s) => Reach(s, "SELL") >= Floor(s)

\* Once a dorm's leg is bought, no older sell of it is out.
Buying ==
    pc.at = "buyLegs" /\ connected =>
        \A d \in Dorms : Apart(d) => d \in Range(pc.todo) \/ NoneOut(d, "SELL")

Collecting ==
    pc.at = "collectLegs" =>
        DormsSold \/ (~connected /\ (owed # <<>> \/ waiting # None \/ ~AllGood))

Polling == pc.at = "poll" => DormsSold

\* A redemption waits for the one buy of UNDY it sent, and what this buys adds to the least.
Redeeming ==
    pc.at \in {"undySent", "undyFilled"} =>
        /\ lastId \in ClientIds /\ sent[lastId].symbol = "UNDY" /\ sent[lastId].side = "BUY"
        /\ executed[lastId] + resting[lastId] \in {0, pc.qty}
        /\ Apart("UNDY") => Reach("UNDY", "SELL") >= Floor("UNDY") + executed[lastId]
        /\ waiting # None => waiting.id = lastId
        /\ returned # None => returned.id = lastId
        /\ cancelling = {}

\* Past the wait for its fill, the answer is to that wait.
Filled ==
    pc.at = "undyFilled" =>
        /\ waiting # None => waiting.op = "fill"
        /\ waiting = None => returned.op = "fill" /\ (returned.ok => reported[lastId] > 0)

\* The dorms a redemption brought are there to sell, each once.
SellingLegs ==
    pc.at = "sellLegs" =>
        /\ IsInjective(pc.todo)
        /\ \A d \in Range(pc.todo) : Apart(d) => Reach(d, "SELL") >= Floor(d) + pc.qty

SInv ==
    /\ PInv /\ NoneShort
    /\ Buying /\ Collecting /\ Polling /\ Redeeming /\ Filled /\ SellingLegs

-----------------------------------------------------------------------------
(* What each step trades *)

MmPlaces == {"mmBid", "mmAsk", "mmFlatten"}

\* The market maker is entered with its position read, and keeps what it read.
Steers ==
    pc'.at \in MmPlaces => (pc.at \in MmPlaces /\ pc'.pos = pc.pos) \/ pc'.pos = position["BLUE"]

\* A sell of what is read to be held, or of what a redemption brought
Covered(t, qty) == qty = position[t] \/ (Apart(t) => Reach(t, "SELL") >= Floor(t) + qty)

\* A conversion of what is there at the least
CoveredCall(n) ==
    \A s \in Symbols \ {"BLUE"} : Apart(s) => Reach(s, "SELL") + EtfEffect(n, s) >= Floor(s)

OthersOrdered ==
    \E t \in Symbols \ {"BLUE"}, side \in Sides, qty \in Qtys :
        Ordered(t, side, qty, "arb") /\ (side = "SELL" => Covered(t, qty))

Called == \E n \in Int : Served(n) /\ CoveredCall(n)

\* A quote within the limit, the flatten order, or the guard's order
BlueOrdered ==
    \E side \in Sides, qty \in Qtys, role \in Roles :
        /\ Ordered("BLUE", side, qty, role) /\ pc'.at \notin MmPlaces
        /\ \/ role = "bid" /\ side = "BUY" /\ qty = 1 /\ position["BLUE"] < MmLimit
           \/ role = "ask" /\ side = "SELL" /\ qty = 1 /\ position["BLUE"] > -MmLimit
           \/ role = "flatten" /\ side = "BUY" /\ qty = -pc.pos /\ pc.at = "mmFlatten"
           \/ role = "arb" /\ side = Closing("BLUE") /\ qty = Size(position["BLUE"])

Trades == BlueOrdered \/ (Steers /\ (Quiet \/ OthersOrdered \/ Called \/ ReadAny))

\* The least
LEMMA FloorFacts == \A s \in Symbols : Floor(s) \in Int /\ Floor(s) <= 0 /\ Floor(s) <= StartPosition[s]
BY StartAssumption DEF Floor, Lesser

\* A step off the guard that sends nothing
LEMMA QuietTrades ==
    ASSUME BInv,
           pc'.at \in MmPlaces => pc'.pos = position["BLUE"],
           UNCHANGED vars \/ WaitForResponse \/ CancelAllOpenOrders
               \/ \E id \in ClientIds : CancelNext(id) \/ WaitForFill(id),
           UNCHANGED <<position, maps, service>>
    PROVE  Trades
<1>1. Quiet
  BY StaysQuiet
<1>2. QED BY <1>1 DEF Trades, Steers

LEMMA QuietStepsTrade ==
    ASSUME BInv,
           \/ \E qty \in 1 .. MaxQty : StartCreation(qty)
           \/ CollectLeg \/ LegsCollected \/ PollTimeout \/ UndySold
           \/ AwaitUndy \/ AbandonRedemption \/ Collect \/ Collected \/ EndArb \/ ArbFlat
           \/ ArbTimeout \/ NoArb \/ GuardCancel \/ MmKeep
    PROVE  Trades
<1>1. pc \in Places
  BY DEF BInv, ArbTyped
<1>2. ASSUME NEW qty \in 1 .. MaxQty, StartCreation(qty) PROVE Trades
  BY <1>2, QuietTrades DEF StartCreation, At, Loop, Stays, MmPlaces, quotes
<1>3. CASE CollectLeg
  <2>1. pc.at = "collectLegs" /\ pc \in [at : {"collectLegs"}, qty : Qtys, all : BOOLEAN]
    BY <1>1, <1>3, PlaceFacts DEF CollectLeg, At
  <2>2. pc'.at = "collectLegs"
    BY <1>3, <2>1 DEF CollectLeg, Goes
  <2>3. QED BY <1>3, <2>1, <2>2, QuietTrades DEF CollectLeg, Goes, MmPlaces, quotes
<1>4. CASE LegsCollected
  BY <1>4, QuietTrades DEF LegsCollected, ToUnwind, At, Stays, MmPlaces, quotes
<1>5. CASE PollTimeout
  BY <1>5, QuietTrades DEF PollTimeout, ToUnwind, At, Stays, MmPlaces, quotes
<1>6. CASE UndySold \/ AbandonRedemption
  <2>1. pc.at \in {"sellUndy", "undySent", "undyFilled"} /\ ToMM /\ Stays
    BY <1>6 DEF UndySold, AbandonRedemption, At, quotes
  <2>2. QED BY <2>1, QuietTrades DEF ToMM, Stays, MmPlaces
<1>7. CASE AwaitUndy
  <2>1. returned.id \in ClientIds
    <3>1. returned # None
      BY <1>7 DEF AwaitUndy, WaitForFill, None
    <3>2. QED BY <3>1 DEF BInv, AInv, IdsOK
  <2>2. QED BY <1>7, <2>1, QuietTrades DEF AwaitUndy, At, Goes, MmPlaces, quotes
<1>8. CASE Collect
  BY <1>8, QuietTrades DEF Collect, At, Goes, MmPlaces, quotes
<1>9. CASE Collected
  BY <1>9, QuietTrades DEF Collected, At, ToMM, Stays, MmPlaces, quotes
<1>10. CASE EndArb \/ NoArb
  BY <1>10, QuietTrades DEF EndArb, NoArb, At, ToMM, Stays, MmPlaces, quotes
<1>11. CASE ArbFlat
  BY <1>11, QuietTrades DEF ArbFlat, At, Goes, MmPlaces, quotes
<1>12. CASE ArbTimeout
  BY <1>12, QuietTrades DEF ArbTimeout, ToUnwind, At, Stays, MmPlaces, quotes
<1>13. CASE GuardCancel
  BY <1>13, QuietTrades DEF GuardCancel, At, Goes, MmPlaces, quotes
<1>14. CASE MmKeep
  BY <1>14, QuietTrades DEF MmKeep, At, Goes, Loop, MmPlaces, quotes
<1>15. QED BY <1>2, <1>3, <1>4, <1>5, <1>6, <1>7, <1>8, <1>9, <1>10, <1>11, <1>12, <1>13, <1>14

\* The rest of a list is in the same place, with the same quantity.
LEMMA RestFacts ==
    ASSUME BInv, pc.at \in {"buyLegs", "sellLegs", "unwind", "residual", "guardFlatten"},
           NEW rest, rest = [pc EXCEPT !.todo = Tail(@)]
    PROVE  /\ rest.at = pc.at /\ rest.todo = Tail(pc.todo)
           /\ pc.at \in {"buyLegs", "sellLegs"} => rest.qty = pc.qty
<1>1. pc \in Places
  BY DEF BInv, ArbTyped
<1>2. QED BY <1>1, PlaceFacts

\* An order of a dorm or UNDY
LEMMA OrderTrades ==
    ASSUME pc'.at \notin MmPlaces,
           NEW t \in Symbols \ {"BLUE"}, NEW side \in Sides, NEW qty \in Qtys,
           Ordered(t, side, qty, "arb"), side = "SELL" => Covered(t, qty)
    PROVE  Trades
BY DEF Trades, Steers, OthersOrdered

\* What an order that closes a position sells is held, as far as was read.
LEMMA ClosingCovered ==
    ASSUME PInv, NEW t \in Symbols
    PROVE  /\ Closing(t) \in Sides
           /\ Closing(t) = "SELL" => position[t] > 0 /\ Size(position[t]) = position[t]
           /\ Closing(t) = "BUY" => position[t] <= 0 /\ Size(position[t]) = 0 - position[t]
           /\ Closing(t) = "SELL" => Covered(t, Size(position[t]))
<1>1. position[t] \in Int
  BY StateFacts
<1>2. QED BY <1>1 DEF Closing, Size, Sides, Covered

LEMMA OrdersTrade ==
    ASSUME SInv,
           \/ \E qty \in 1 .. MaxQty : StartRedemption(qty)
           \/ BuyLeg \/ SellUndy \/ SellLeg \/ Unwind \/ ForceUndy \/ Residual
    PROVE  Trades
<1>1. BInv /\ PInv /\ pc \in Places /\ Dorms \subseteq Symbols \ {"BLUE"} /\ "UNDY" \in Symbols \ {"BLUE"}
  BY TodoFacts DEF SInv, PInv, BInv, ArbTyped
<1>2. "BUY" \in Sides /\ "SELL" \in Sides /\ "arb" \in Roles /\ "BUY" # "SELL"
  BY DEF Sides, Roles
<1>3. ASSUME NEW qty \in 1 .. MaxQty, StartRedemption(qty) PROVE Trades
  <2>1. /\ pc' = [at |-> "undySent", qty |-> qty] /\ qty \in Qtys /\ Ordered("UNDY", "BUY", qty, "arb")
    BY <1>1, <1>2, <1>3, PlaceOrders DEF StartRedemption
  <2>2. QED BY <1>1, <1>2, <2>1, OrderTrades DEF MmPlaces
<1>4. CASE BuyLeg
  <2> DEFINE next == IF Len(pc.todo) = 1 THEN [at |-> "collectLegs", qty |-> pc.qty, all |-> TRUE]
                                         ELSE [pc EXCEPT !.todo = Tail(@)]
  <2>1. pc.at = "buyLegs" /\ Head(pc.todo) \in Dorms
    BY <1>1, <1>4, RestOfTodo DEF BuyLeg, At
  <2>2. next.at \in {"collectLegs", "buyLegs"}
    BY <1>1, <2>1, RestFacts
  <2>3. PlaceNoWait(Head(pc.todo), "BUY", pc.qty, next)
    BY <1>4 DEF BuyLeg
  <2> HIDE DEF next
  <2>5. pc' = next /\ pc.qty \in Qtys /\ Ordered(Head(pc.todo), "BUY", pc.qty, "arb")
    BY <1>1, <1>2, <2>1, <2>3, PlaceNoWaitOrders
  <2>6. QED BY <1>1, <1>2, <2>1, <2>2, <2>5, OrderTrades DEF MmPlaces
<1>5. CASE SellUndy
  <2>1. pc.at = "sellUndy" /\ pc \in [at : {"sellUndy"}, attempts : Nat]
    BY <1>1, <1>5, PlaceFacts DEF SellUndy, At
  <2>2. /\ pc' = [pc EXCEPT !.attempts = @ + 1] /\ position["UNDY"] \in Qtys
        /\ Ordered("UNDY", "SELL", position["UNDY"], "arb")
    BY <1>1, <1>2, <1>5, PlaceOrders DEF SellUndy, quotes
  <2>3. pc'.at = "sellUndy"
    BY <2>1, <2>2
  <2>4. Covered("UNDY", position["UNDY"])
    BY DEF Covered
  <2>5. QED BY <1>1, <1>2, <2>1, <2>2, <2>3, <2>4, OrderTrades DEF MmPlaces
<1>6. CASE SellLeg
  <2> DEFINE next == IF Len(pc.todo) = 1 THEN [at |-> "collect", then |-> "mm"]
                                         ELSE [pc EXCEPT !.todo = Tail(@)]
             d == Head(pc.todo)
  <2>1. pc.at = "sellLegs" /\ d \in Dorms /\ pc.todo \in Legs
    BY <1>1, <1>6, RestOfTodo DEF SellLeg, At
  <2>2. next.at \in {"collect", "sellLegs"}
    BY <1>1, <2>1, RestFacts
  <2>3. PlaceNoWait(d, "SELL", pc.qty, next)
    BY <1>6 DEF SellLeg
  <2>5. d \in Range(pc.todo)
    <3>1. 1 \in DOMAIN pc.todo /\ d = pc.todo[1]
      BY <2>1 DEF Legs
    <3>2. QED BY <3>1 DEF Range
  <2>6. Covered(d, pc.qty)
    BY <2>1, <2>5 DEF SInv, SellingLegs, Covered
  <2> HIDE DEF next, d
  <2>7. pc' = next /\ pc.qty \in Qtys /\ Ordered(d, "SELL", pc.qty, "arb")
    BY <1>1, <1>2, <2>1, <2>3, PlaceNoWaitOrders
  <2>8. QED BY <1>1, <1>2, <2>1, <2>2, <2>6, <2>7, OrderTrades DEF MmPlaces
<1>7. CASE Unwind
  <2> DEFINE d == Head(pc.todo)
  <2>1. pc.at = "unwind" /\ d \in Dorms
    BY <1>1, <1>7, RestOfTodo DEF Unwind, At
  <2>2. UnwindNext.at \in {"collect", "unwind"}
    BY <1>1, <2>1, RestFacts DEF UnwindNext
  <2>3. CASE PlaceNoWait(d, Closing(d), Size(position[d]), UnwindNext)
    <3>1. Closing(d) \in Sides /\ (Closing(d) = "SELL" => Covered(d, Size(position[d])))
      BY <1>1, <2>1, ClosingCovered
    <3> HIDE DEF d
    <3>3. /\ pc' = UnwindNext /\ Size(position[d]) \in Qtys
          /\ Ordered(d, Closing(d), Size(position[d]), "arb")
      BY <1>1, <2>1, <2>3, <3>1, PlaceNoWaitOrders
    <3>4. QED BY <1>1, <1>2, <2>1, <2>2, <3>1, <3>3, OrderTrades DEF MmPlaces
  <2>4. CASE Goes(UnwindNext) /\ UNCHANGED vars
    BY <1>1, <2>1, <2>2, <2>4, QuietTrades DEF Goes, MmPlaces, quotes
  <2>5. QED BY <1>7, <2>3, <2>4 DEF Unwind
<1>8. CASE ForceUndy
  <2>1. pc.at = "forceUndy"
    BY <1>8 DEF ForceUndy, At
  <2>2. CASE Place("UNDY", "SELL", position["UNDY"], "arb", [at |-> "endArb"])
             /\ UNCHANGED <<arbInProgress, quotes>>
    <3>1. /\ pc' = [at |-> "endArb"] /\ position["UNDY"] \in Qtys
          /\ Ordered("UNDY", "SELL", position["UNDY"], "arb")
      BY <1>1, <1>2, <2>2, PlaceOrders DEF quotes
    <3>2. Covered("UNDY", position["UNDY"])
      BY DEF Covered
    <3>3. QED BY <1>1, <1>2, <2>1, <3>1, <3>2, OrderTrades DEF MmPlaces
  <2>3. CASE Goes([at |-> "endArb"]) /\ UNCHANGED vars
    BY <1>1, <2>1, <2>3, QuietTrades DEF Goes, MmPlaces, quotes
  <2>4. QED BY <1>8, <2>2, <2>3 DEF ForceUndy
<1>9. CASE Residual
  <2> DEFINE d == Head(pc.todo)
             next == IF Len(pc.todo) = 1 THEN [at |-> "endArb"] ELSE [pc EXCEPT !.todo = Tail(@)]
  <2>1. pc.at = "residual" /\ d \in Dorms
    BY <1>1, <1>9, RestOfTodo DEF Residual, At
  <2>2. next.at \in {"endArb", "residual"}
    BY <1>1, <2>1, RestFacts
  <2>3. CloseOut(next)
    BY <1>9 DEF Residual
  <2> HIDE DEF next
  <2>4. CASE Place(d, Closing(d), Size(position[d]), "arb", next) /\ UNCHANGED <<arbInProgress, quotes>>
    <3>1. Closing(d) \in Sides /\ (Closing(d) = "SELL" => Covered(d, Size(position[d])))
      BY <1>1, <2>1, ClosingCovered
    <3> HIDE DEF d
    <3>3. /\ pc' = next /\ Size(position[d]) \in Qtys
          /\ Ordered(d, Closing(d), Size(position[d]), "arb")
      BY <1>1, <1>2, <2>1, <2>4, <3>1, PlaceOrders
    <3>4. QED BY <1>1, <1>2, <2>1, <2>2, <3>1, <3>3, OrderTrades DEF MmPlaces
  <2>5. CASE Goes(next) /\ UNCHANGED vars
    BY <1>1, <2>1, <2>2, <2>5, QuietTrades DEF Goes, MmPlaces, quotes
  <2>6. QED BY <2>3, <2>4, <2>5 DEF CloseOut
<1>10. QED BY <1>3, <1>4, <1>5, <1>6, <1>7, <1>8, <1>9

\* A step that stays where it is
LEMMA SameTrades ==
    ASSUME pc' = pc, Quiet \/ ReadAny
    PROVE  Trades
BY DEF Trades, Steers

\* The guard
LEMMA GuardTrades ==
    ASSUME SInv, Guard
    PROVE  Trades
<1>1. BInv /\ PInv /\ pc \in Places /\ "BLUE" \in Symbols
  BY TodoFacts DEF SInv, PInv, BInv, ArbTyped
<1>2. CASE PnlGuard \/ GuardAsk
  <2>1. /\ pc.at \in {"loop", "guardAsk"} /\ pc'.at \in {"guardAsk", "guardCancel"}
        /\ Quiet
    BY <1>1, <1>2, SafeDeleteQuiet DEF PnlGuard, GuardAsk, At, Loop
  <2>2. QED BY <2>1 DEF Trades, Steers, MmPlaces
<1>3. CASE GuardCancel
  BY <1>1, <1>3, QuietStepsTrade
<1>4. ASSUME NEW id \in ClientIds, GuardDelete(id) PROVE Trades
  BY <1>1, <1>4, StaysQuiet, SameTrades DEF GuardDelete, Goes, quotes
<1>5. CASE GuardFlatten
  <2> DEFINE s == Head(pc.todo)
             next == IF Len(pc.todo) = 1 THEN [at |-> "guardWait"] ELSE [pc EXCEPT !.todo = Tail(@)]
  <2>1. pc.at = "guardFlatten" /\ s \in Symbols
    BY <1>1, <1>5, RestOfTodo DEF GuardFlatten, At
  <2>2. next.at \in {"guardWait", "guardFlatten"}
    BY <1>1, <2>1, RestFacts
  <2>3. CloseOut(next)
    BY <1>5 DEF GuardFlatten
  <2> HIDE DEF next
  <2>4. CASE Place(s, Closing(s), Size(position[s]), "arb", next) /\ UNCHANGED <<arbInProgress, quotes>>
    <3>1. Closing(s) \in Sides /\ (Closing(s) = "SELL" => Covered(s, Size(position[s]))) /\ "arb" \in Roles
      BY <1>1, <2>1, ClosingCovered DEF Roles
    <3> HIDE DEF s
    <3>3. /\ pc' = next /\ Size(position[s]) \in Qtys
          /\ Ordered(s, Closing(s), Size(position[s]), "arb")
      BY <1>1, <2>1, <2>4, <3>1, PlaceOrders
    <3>4. Steers /\ pc'.at \notin MmPlaces
      BY <2>2, <3>3 DEF Steers, MmPlaces
    <3>5. CASE s = "BLUE"
      BY <3>1, <3>3, <3>4, <3>5 DEF Trades, BlueOrdered
    <3>6. CASE s # "BLUE"
      BY <2>1, <3>1, <3>3, <3>4, <3>6 DEF Trades, OthersOrdered
    <3>7. QED BY <3>5, <3>6
  <2>5. CASE Goes(next) /\ UNCHANGED vars
    <3>1. Quiet /\ pc' = next
      BY <1>1, <2>5, StaysQuiet DEF Goes, quotes
    <3>2. QED BY <2>2, <3>1 DEF Trades, Steers, MmPlaces
  <2>6. QED BY <2>3, <2>4, <2>5 DEF CloseOut
<1>6. CASE GuardResume
  <2>1. Quiet /\ pc' = Loop
    BY <1>1, <1>6, StaysQuiet DEF GuardResume, Goes
  <2>2. QED BY <2>1 DEF Trades, Steers, MmPlaces, Loop
<1>7. QED BY <1>2, <1>3, <1>4, <1>5, <1>6 DEF Guard

\* The market maker
LEMMA MarketMakerTrades ==
    ASSUME SInv, MarketMaker
    PROVE  Trades
<1>1. BInv /\ PInv /\ pc \in Places /\ "BLUE" \in Symbols
  BY TodoFacts DEF SInv, PInv, BInv, ArbTyped
<1>2. CASE MmBid \/ MmAsk
  <2>1. pc.at \in {"mmBid", "mmAsk"} /\ pc \in [at : {"mmBid", "mmAsk", "mmFlatten"}, pos : Int]
    BY <1>1, <1>2, PlaceFacts DEF MmBid, MmAsk, At
  <2> DEFINE ask == [pc EXCEPT !.at = "mmAsk"]
             flatten == [pc EXCEPT !.at = "mmFlatten"]
  <2>2. ask.pos = pc.pos /\ flatten.pos = pc.pos
    BY <2>1
  <2>3. /\ (\E id \in {bidId, askId} : SafeDelete(id, ask) \/ SafeDelete(id, flatten))
           \/ (UNCHANGED vars /\ (Goes(ask) \/ Goes(flatten)))
    BY <1>2 DEF MmBid, MmAsk, Goes, quotes
  <2> HIDE DEF ask, flatten
  <2>4. pc' \in {ask, flatten} /\ Quiet
    BY <1>1, <2>3, SafeDeleteQuiet, StaysQuiet DEF Goes
  <2>5. QED BY <2>1, <2>2, <2>3, <2>4 DEF Trades, Steers, MmPlaces
<1>3. CASE MmFlatten
  <2>1. pc.at = "mmFlatten" /\ pc \in [at : {"mmBid", "mmAsk", "mmFlatten"}, pos : Int]
    BY <1>1, <1>3, PlaceFacts DEF MmFlatten, At
  <2>2. CASE /\ pc.pos < 0 /\ flattenId = 0
             /\ Place("BLUE", "BUY", -pc.pos, "flatten", [at |-> "mmQuote"])
             /\ flattenId' = lastId'
    <3>1. "BUY" \in Sides /\ "flatten" \in Roles
      BY DEF Sides, Roles
    <3>2. pc' = [at |-> "mmQuote"] /\ -pc.pos \in Qtys /\ Ordered("BLUE", "BUY", -pc.pos, "flatten")
      BY <1>1, <2>2, <3>1, PlaceOrders
    <3>3. pc'.at \notin MmPlaces
      BY <3>2 DEF MmPlaces
    <3>4. QED BY <2>1, <2>2, <3>1, <3>2, <3>3 DEF Trades, BlueOrdered
  <2>3. CASE /\ pc' = [at |-> "mmQuote"]
             /\ flattenId' = IF pc.pos >= 0 THEN 0 ELSE flattenId
             /\ UNCHANGED <<arbInProgress, bidId, askId>> /\ Stays
    <3>1. Quiet
      BY <1>1, <2>3, StaysQuiet DEF Stays
    <3>2. QED BY <2>1, <2>3, <3>1 DEF Trades, Steers, MmPlaces
  <2>4. QED BY <1>3, <2>2, <2>3 DEF MmFlatten
<1>4. CASE MmKeep
  BY <1>1, <1>4, QuietStepsTrade
<1>5. CASE MmMove \/ MmMoveAsk
  <2>1. /\ pc.at \in {"mmQuote", "mmMoveAsk"} /\ pc'.at \in {"mmMoveAsk", "mmQuoteBid"}
        /\ Quiet
    BY <1>1, <1>5, SafeDeleteQuiet DEF MmMove, MmMoveAsk, At
  <2>2. QED BY <2>1 DEF Trades, Steers, MmPlaces
<1>6. CASE QuoteBid
  <2>1. pc.at = "mmQuoteBid"
    BY <1>6 DEF QuoteBid, At
  <2>2. CASE position["BLUE"] < MmLimit
    <3>1. Place("BLUE", "BUY", 1, "bid", [at |-> "mmQuoteAsk"])
      BY <1>6, <2>2 DEF QuoteBid
    <3>2. "BUY" \in Sides /\ "bid" \in Roles /\ "BUY" # "SELL"
      BY DEF Sides, Roles
    <3>3. pc' = [at |-> "mmQuoteAsk"] /\ 1 \in Qtys /\ Ordered("BLUE", "BUY", 1, "bid")
      BY <1>1, <3>1, <3>2, PlaceOrders
    <3>4. pc'.at \notin MmPlaces
      BY <3>3 DEF MmPlaces
    <3>5. QED BY <2>2, <3>2, <3>3, <3>4 DEF Trades, BlueOrdered
  <2>3. CASE Goes([at |-> "mmQuoteAsk"]) /\ UNCHANGED vars
    BY <1>1, <2>1, <2>3, QuietTrades DEF Goes, MmPlaces, quotes
  <2>4. QED BY <1>6, <2>2, <2>3 DEF QuoteBid
<1>7. CASE QuoteAsk
  <2>1. pc.at = "mmQuoteAsk"
    BY <1>7 DEF QuoteAsk, At
  <2>2. CASE position["BLUE"] > -MmLimit
    <3>1. Place("BLUE", "SELL", 1, "ask", Loop)
      BY <1>7, <2>2 DEF QuoteAsk
    <3>2. "SELL" \in Sides /\ "ask" \in Roles /\ "BUY" # "SELL"
      BY DEF Sides, Roles
    <3>3. pc' = Loop /\ 1 \in Qtys /\ Ordered("BLUE", "SELL", 1, "ask")
      BY <1>1, <3>1, <3>2, PlaceOrders
    <3>4. pc'.at \notin MmPlaces
      BY <3>3 DEF MmPlaces, Loop
    <3>5. QED BY <2>2, <3>2, <3>3, <3>4 DEF Trades, BlueOrdered
  <2>3. CASE Goes(Loop) /\ UNCHANGED vars
    BY <1>1, <2>1, <2>3, QuietTrades DEF Goes, Loop, MmPlaces, quotes
  <2>4. QED BY <1>7, <2>2, <2>3 DEF QuoteAsk
<1>8. QED BY <1>2, <1>3, <1>4, <1>5, <1>6, <1>7 DEF MarketMaker

\* A creation takes dorms that are read to be held, of which no sell is out; a redemption
\* takes the UNDY that its buy brought.
LEMMA CallsTrade ==
    ASSUME SInv, Create \/ Redeem
    PROVE  Trades
<1>1. BInv /\ PInv /\ pc \in Places
  BY DEF SInv, PInv, BInv, ArbTyped
<1>2. pc.at \in {"poll", "undyFilled"} /\ pc.qty \in Qtys /\ pc.qty \in Nat /\ pc.qty > 0
  <2>1. pc.at \in {"poll", "undyFilled"}
    BY DEF Create, Redeem, At
  <2>2. pc.qty \in Qtys
    BY <1>1, <2>1, PlaceFacts
  <2>3. QED BY <2>1, <2>2, BoundsAssumption DEF Qtys
<1>3. \A s \in Symbols : Reach(s, "SELL") \in Int /\ position[s] \in Int /\ Floor(s) \in Int /\ Floor(s) <= 0
  BY <1>1, ReachType, StateFacts, FloorFacts
<1>4. /\ \A s \in Symbols \ {"BLUE"} : s = "UNDY" \/ (s \in Dorms /\ s # "UNDY")
      /\ "UNDY" \in Symbols /\ "UNDY" # "BLUE"
  BY TodoFacts DEF Symbols
<1>5. ASSUME NEW n \in Int, NEW good, NEW bad, EtfCall(n, good, bad), CoveredCall(n),
             good.at \notin MmPlaces,
             bad.at \in MmPlaces => bad.pos = position["BLUE"]
      PROVE  Trades
  <2>1. pc' \in {good, bad} /\ Served(n)
    BY <1>1, <1>5, EtfCallServes
  <2>3. Steers
    BY <1>2, <1>5, <2>1 DEF Steers, MmPlaces
  <2>4. QED BY <1>5, <2>1, <2>3 DEF Trades, Called
<1>6. CASE Create
  <2>1. pc.at = "poll" /\ \A d \in Dorms : position[d] >= pc.qty
    BY <1>6 DEF Create, At, PollFilled
  <2>2. CoveredCall(pc.qty)
    <3> SUFFICES ASSUME NEW s \in Symbols \ {"BLUE"}, Apart(s)
                 PROVE  Reach(s, "SELL") + EtfEffect(pc.qty, s) >= Floor(s)
      BY DEF CoveredCall
    <3>1. CASE s = "UNDY"
      <4>1. EtfEffect(pc.qty, s) = pc.qty /\ Reach(s, "SELL") >= Floor(s)
        BY <3>1 DEF EtfEffect, SInv, NoneShort
      <4>2. QED BY <1>2, <1>3, <4>1
    <3>2. CASE s \in Dorms /\ s # "UNDY"
      <4>1. EtfEffect(pc.qty, s) = -pc.qty
        BY <3>2 DEF EtfEffect
      <4>2. NoneOut(s, "SELL")
        BY <2>1, <3>2 DEF SInv, Polling, DormsSold
      <4>3. Reach(s, "SELL") >= position[s] /\ position[s] >= pc.qty
        BY <1>1, <2>1, <3>2, <4>2, ReadIsLeast DEF NoneOut
      <4>4. QED BY <1>2, <1>3, <4>1, <4>3
    <3>3. QED BY <1>4, <3>1, <3>2
  <2>3. EtfCall(pc.qty, [at |-> "sellUndy", attempts |-> 0],
                [at |-> "unwind", todo |-> DormIds, then |-> "mm"])
    BY <1>6 DEF Create
  <2>4. pc.qty \in Int
    BY <1>2
  <2>5. QED BY <1>5, <2>2, <2>3, <2>4 DEF MmPlaces
<1>7. CASE Redeem
  <2>1. pc.at = "undyFilled" /\ waiting = None /\ returned.ok
    BY <1>7 DEF Redeem, At, Free
  <2>2. executed[lastId] = pc.qty
    <3>1. /\ returned.op = "fill" /\ reported[lastId] > 0
          /\ sent[lastId].symbol = "UNDY" /\ executed[lastId] + resting[lastId] \in {0, pc.qty}
          /\ returned # None => returned.id = lastId
      BY <2>1 DEF SInv, Filled, Redeeming
    <3>2. returned # None
      BY <3>1 DEF None
    <3>3. resting[lastId] = 0 /\ reported[lastId] = executed[lastId]
      BY <1>1, <2>1, <3>1, <3>2 DEF BInv, FInv, FillMeansDone
    <3>4. returned.id \in ClientIds
      BY <1>1, <3>2 DEF BInv, AInv, IdsOK
    <3>5. executed[lastId] \in Nat
      BY <1>1, <3>1, <3>2, <3>4, StateFacts
    <3>6. QED BY <3>1, <3>3, <3>5
  <2>3. Apart("UNDY") => Reach("UNDY", "SELL") >= Floor("UNDY") + pc.qty
    BY <2>1, <2>2 DEF SInv, Redeeming
  <2>4. CoveredCall(-pc.qty)
    <3> SUFFICES ASSUME NEW s \in Symbols \ {"BLUE"}, Apart(s)
                 PROVE  Reach(s, "SELL") + EtfEffect(-pc.qty, s) >= Floor(s)
      BY DEF CoveredCall
    <3>1. CASE s = "UNDY"
      <4>1. EtfEffect(-pc.qty, s) = -pc.qty /\ Reach(s, "SELL") >= Floor(s) + pc.qty
        BY <2>3, <3>1 DEF EtfEffect
      <4>2. QED BY <1>2, <1>3, <4>1
    <3>2. CASE s \in Dorms /\ s # "UNDY"
      <4>1. EtfEffect(-pc.qty, s) = -(-pc.qty) /\ Reach(s, "SELL") >= Floor(s)
        BY <3>2 DEF EtfEffect, SInv, NoneShort
      <4>2. QED BY <1>2, <1>3, <4>1
    <3>3. QED BY <1>4, <3>1, <3>2
  <2>5. EtfCall(-pc.qty, [at |-> "sellLegs", todo |-> DormIds, qty |-> pc.qty],
                [at |-> "mmBid", pos |-> position["BLUE"]])
    BY <1>7 DEF Redeem
  <2>6. -pc.qty \in Int
    BY <1>2
  <2>7. QED BY <1>5, <2>4, <2>5, <2>6 DEF MmPlaces
<1>8. QED BY <1>6, <1>7

\* Every step
LEMMA EveryStepTrades ==
    ASSUME SInv, [ArbNext]_allVars
    PROVE  Trades
<1>1. BInv
  BY DEF SInv, PInv
<1>2. CASE UNCHANGED allVars
  BY <1>1, <1>2, StaysQuiet, SameTrades DEF allVars, arbVars, quotes
<1>3. CASE ReadAny
  BY <1>3, SameTrades DEF ReadAny, Callback
<1>4. CASE (ReadFails /\ UNCHANGED arbVars) \/ Environment
  <2>1. Shrinks /\ UNCHANGED <<reported, lastId>> /\ (connected' => connected)
    BY <1>1, <1>4, OtherCounts DEF Environment, BInv, AInv, Qtys
  <2>2. UNCHANGED arbVars
    BY <1>4 DEF Environment
  <2>3. Quiet /\ pc' = pc
    BY <2>1, <2>2 DEF arbVars, Quiet, quotes
  <2>4. QED BY <2>3, SameTrades
<1>5. CASE Arbitrage \/ SellUndy \/ ArbTimeout
  BY <1>1, <1>5, QuietStepsTrade, OrdersTrade, CallsTrade DEF Arbitrage
<1>6. QED BY <1>2, <1>3, <1>4, <1>5, GuardTrades, MarketMakerTrades DEF ArbNext, Reads

-----------------------------------------------------------------------------
(* What a step leaves out, and what it leads to *)

\* The counts after a step, and the least and most they lead to
LEMMA NextReachType ==
    ASSUME PInv', NEW s \in Symbols, NEW side
    PROVE  /\ Reach(s, side)' \in Int /\ CInv' /\ FInv'
           /\ \A id \in ClientIds : Left(id)' \in Nat
<1>1. CInv' /\ FInv' /\ booked' \in Int
  BY DEF PInv, BInv, AInv, ArbTyped
<1>2. /\ executed' \in [ClientIds -> Nat] /\ resting' \in [ClientIds -> Nat]
      /\ reported' \in [ClientIds -> Nat] /\ \A id \in ClientIds : reported'[id] <= executed'[id]
  BY <1>1, NextCounts
<1>3. \A id \in ClientIds : Left(id)' \in Nat
  BY <1>2 DEF Left
<1> DEFINE c == IfFilled(side)'
           o == sent'
           n == booked'
<1>4. c \in [ClientIds -> Int]
  BY <1>2 DEF IfFilled
<1>5. n \in Int
  BY <1>1
<1>6. Reach(s, side)' = StartPosition[s] + EtfEffect(n, s) + BoughtBy(o, s, c)
  BY DEF Reach
<1> HIDE DEF c, o, n
<1>7. BoughtBy(o, s, c) \in Int
  BY <1>4, BoughtType
<1>8. StartPosition[s] \in Int /\ EtfEffect(n, s) \in Int
  BY <1>5, StartAssumption, EffectsAdd
<1>9. QED BY <1>1, <1>3, <1>6, <1>7, <1>8

\* What an older order has left does not grow.
LEMMA LeftShrinks ==
    ASSUME PInv, PInv', Shrinks, reported' = reported, lastId' \in {lastId, lastId + 1},
           NEW id \in ClientIds, id = lastId' => lastId' = lastId
    PROVE  Left(id)' <= Left(id)
<1>1. /\ executed \in [ClientIds -> Nat] /\ resting \in [ClientIds -> Nat] /\ reported \in [ClientIds -> Nat]
      /\ lastId \in Nat /\ ClientIds \subseteq Nat /\ Left(id) \in Nat
  BY StateFacts
<1>2. /\ executed' \in [ClientIds -> Nat] /\ resting' \in [ClientIds -> Nat] /\ reported' \in [ClientIds -> Nat]
      /\ reported'[id] <= executed'[id] /\ (id > lastId' => executed'[id] = 0 /\ resting'[id] = 0)
  BY NextCounts DEF PInv, BInv, AInv
<1>3. CASE id <= lastId
  <2>1. executed'[id] + resting'[id] <= executed[id] + resting[id]
    BY <1>3 DEF Shrinks
  <2>2. QED BY <1>1, <1>2, <2>1 DEF Left
<1>4. CASE id > lastId
  <2>1. id > lastId'
    BY <1>1, <1>4
  <2>2. Left(id)' = 0
    BY <1>1, <1>2, <2>1 DEF Left
  <2>3. QED BY <1>1, <2>2
<1>5. QED BY <1>1, <1>3, <1>4

\* No order of the symbol is new, and none has more left.
Calm(s) ==
    \A id \in ClientIds : sent'[id].symbol = s => sent'[id] = sent[id] /\ Left(id)' <= Left(id)

\* Orders with nothing left stay so.
LEMMA NoneOutStays ==
    ASSUME PInv', NEW s, NEW side, NoneOut(s, side), Calm(s)
    PROVE  NoneOut(s, side)'
<1> SUFFICES ASSUME NEW id \in ClientIds, sent'[id].symbol = s, sent'[id].side = side
             PROVE  Left(id)' = 0
  BY DEF NoneOut
<1>1. Left(id) = 0 /\ Left(id)' <= Left(id)
  BY DEF NoneOut, Calm
<1>2. Left(id)' \in Nat
  BY TodoFacts, NextReachType
<1>3. QED BY <1>1, <1>2

LEMMA QuietCalm ==
    ASSUME PInv, PInv', Quiet, NEW s
    PROVE  Calm(s)
<1>1. Shrinks /\ reported' = reported /\ lastId' = lastId /\ sent' = sent
  BY DEF Quiet, maps
<1>2. \A id \in ClientIds : Left(id)' <= Left(id)
  BY <1>1, LeftShrinks
<1>3. QED BY <1>1, <1>2 DEF Calm

\* Of the other orders nothing changes but that they fill; the new one is the symbol's only
\* order out that serves its purpose, unless the symbol is not apart.
LEMMA OrderedCalm ==
    ASSUME PInv, PInv', NEW t \in Symbols, NEW side \in Sides, NEW qty \in Qtys, NEW role,
           Ordered(t, side, qty, role), NEW a, a = lastId'
    PROVE  /\ \A s \in Symbols : s # t => Calm(s)
           /\ \A s \in Symbols : s \notin overlapped' => s \notin overlapped
           /\ t \notin overlapped' => ~Outstanding(t, role)
           /\ connected' = connected
           /\ connected /\ t \notin overlapped' =>
                 \A id \in ClientIds \ {a} :
                     sent'[id].symbol = t /\ SamePurpose(role, sent'[id].role) => Left(id)' = 0
           /\ a \in ClientIds /\ sent'[a].symbol = t /\ sent'[a].side = side /\ sent'[a].role = role
           /\ \A id \in ClientIds \ {a} : sent'[id] = sent[id] /\ Left(id)' <= Left(id)
           /\ Left(a)' = executed'[a] + resting'[a]
           /\ a # 0
<1> DEFINE order == [symbol |-> t, side |-> side, role |-> role]
<1>1. /\ Shrinks /\ reported' = reported /\ a = lastId + 1 /\ a \in ClientIds /\ lastId \in Nat
      /\ sent' = [sent EXCEPT ![a] = order] /\ connected' = connected
      /\ overlapped' = IF Outstanding(t, role) THEN overlapped \cup {t} ELSE overlapped
  BY StateFacts DEF Ordered
<1>2. sent \in [ClientIds -> Orders \cup {Unused}]
  BY DEF PInv, BInv, ArbTyped
<1>3. sent'[a] = order /\ \A id \in ClientIds \ {a} : sent'[id] = sent[id]
  BY <1>1, <1>2
<1>4. order.symbol = t /\ order.side = side /\ order.role = role
  OBVIOUS
<1> HIDE DEF order
<1>5. \A id \in ClientIds \ {a} : Left(id)' <= Left(id)
  BY <1>1, LeftShrinks
<1>6. \A s \in Symbols : s # t => Calm(s)
  BY <1>3, <1>4, <1>5 DEF Calm
<1>7. /\ \A s \in Symbols : s \notin overlapped' => s \notin overlapped
      /\ t \notin overlapped' => ~Outstanding(t, role)
  BY <1>1
<1>8. ASSUME connected, t \notin overlapped', NEW id \in ClientIds \ {a}, sent'[id].symbol = t,
             SamePurpose(role, sent'[id].role)
      PROVE  Left(id)' = 0
  <2>1. sent[id] = sent'[id] /\ ~Outstanding(t, role)
    BY <1>3, <1>7, <1>8
  <2>2. Left(id) = 0
    BY <1>8, <2>1, NothingLeft
  <2>3. Left(id)' \in Nat /\ Left(id)' <= 0
    BY <1>5, <2>2, NextReachType
  <2>4. QED BY <2>3
<1>9. Left(a)' = executed'[a] + resting'[a]
  <2>1. reported[a] = 0
    BY <1>1, StateFacts
  <2>2. executed'[a] \in Nat /\ resting'[a] \in Nat
    BY <1>1, NextCounts DEF PInv, BInv, AInv
  <2>3. Left(a)' = executed'[a] + resting'[a] - reported'[a]
    BY DEF Left
  <2>4. QED BY <1>1, <2>1, <2>2, <2>3
<1>10. QED BY <1>1, <1>3, <1>4, <1>5, <1>6, <1>7, <1>8, <1>9

\* The service does not touch orders.
LEMMA ServedCalm ==
    ASSUME PInv, NEW n \in Int, Served(n), NEW s \in Symbols
    PROVE  /\ Calm(s) /\ UNCHANGED <<vars, maps>>
           /\ \/ position' = position /\ \A side : Reach(s, side)' = Reach(s, side)
              \/ /\ position'[s] = position[s] + EtfEffect(n, s)
                 /\ \A side : Reach(s, side)' = Reach(s, side) + EtfEffect(n, s)
<1>1. UNCHANGED <<vars, maps>>
  BY DEF Served
<1>2. UNCHANGED <<sent, overlapped, executed, resting, reported, lastId, connected>>
  BY <1>1 DEF vars, maps, exchange, caller, client
<1>3. \A id \in ClientIds : Left(id) \in Nat
  BY StateFacts
<1>4. Calm(s)
  BY <1>2, <1>3 DEF Calm, Left
<1>5. \A side : IfFilled(side)' = IfFilled(side)
  BY <1>2 DEF IfFilled
<1>6. CASE UNCHANGED <<position, booked>>
  <2>1. \A side : Reach(s, side)' = Reach(s, side)
    BY <1>2, <1>5, <1>6 DEF Reach
  <2>2. QED BY <1>1, <1>4, <1>6, <2>1
<1>7. CASE booked' = booked + n /\ position' = [x \in Symbols |-> position[x] + EtfEffect(n, x)]
  <2>1. /\ EtfEffect(booked, s) \in Int /\ EtfEffect(n, s) \in Int /\ StartPosition[s] \in Int
        /\ EtfEffect(booked + n, s) = EtfEffect(booked, s) + EtfEffect(n, s)
    BY StateFacts, EffectsAdd, StartAssumption
  <2>2. ASSUME NEW side PROVE Reach(s, side)' = Reach(s, side) + EtfEffect(n, s)
    <3> DEFINE b == BoughtBy(sent, s, IfFilled(side))
               x == EtfEffect(booked, s)
               y == EtfEffect(n, s)
               z == StartPosition[s]
    <3>1. b \in Int
      BY ReachType, BoughtType
    <3>2. Reach(s, side) = z + x + b
      BY DEF Reach
    <3>3. Reach(s, side)' = z + EtfEffect(booked', s) + b
      BY <1>2, <1>5 DEF Reach
    <3>4. EtfEffect(booked', s) = x + y
      BY <1>7, <2>1
    <3>5. x \in Int /\ y \in Int /\ z \in Int
      BY <2>1
    <3> SUFFICES z + (x + y) + b = z + x + b + y
      BY <3>2, <3>3, <3>4
    <3> HIDE DEF b, x, y, z
    <3>6. QED BY <3>1, <3>5
  <2>3. QED BY <1>1, <1>4, <1>7, <2>2
<1>8. QED BY <1>6, <1>7 DEF Served

\* A message read changes no count of the exchange.
LEMMA ReadCalm ==
    ASSUME PInv, PInv', NEW a \in ClientIds, NEW n \in Nat, ReadsOf(a, n), NEW s
    PROVE  /\ Calm(s) /\ \A side : Reach(s, side)' = Reach(s, side)
           /\ Left(a)' = Left(a) - n
<1>1. UNCHANGED <<executed, resting, sent, booked>> /\ reported' = [reported EXCEPT ![a] = reported[a] + n]
  BY DEF ReadsOf, service
<1>2. /\ executed \in [ClientIds -> Nat] /\ resting \in [ClientIds -> Nat] /\ reported \in [ClientIds -> Nat]
  BY StateFacts
<1>3. \A id \in ClientIds : Left(id)' <= Left(id)
  BY <1>1, <1>2 DEF Left
<1>4. Left(a)' = Left(a) - n
  BY <1>1, <1>2 DEF Left
<1>5. \A side : IfFilled(side)' = IfFilled(side)
  BY <1>1 DEF IfFilled
<1>6. QED BY <1>1, <1>3, <1>4, <1>5 DEF Calm, Reach

\* Every step leaves enough.
LEMMA NextNoneShort ==
    ASSUME SInv, PInv', Trades
    PROVE  NoneShort'
<1> SUFFICES ASSUME NEW s \in Symbols \ {"BLUE"}, Apart(s)'
             PROVE  Reach(s, "SELL")' >= Floor(s)
  BY DEF NoneShort, Floor
<1>1. /\ PInv /\ CInv' /\ FInv' /\ s \in Symbols /\ Reach(s, "SELL") \in Int /\ Reach(s, "SELL")' \in Int
      /\ Floor(s) \in Int /\ Floor(s) <= 0 /\ position[s] \in Int
  BY ReachType, NextReachType, FloorFacts, StateFacts DEF SInv
<1>2. Apart(s) => Reach(s, "SELL") >= Floor(s)
  BY DEF SInv, NoneShort
<1>3. CASE Quiet
  <2>1. Apart(s) /\ Shrinks /\ UNCHANGED <<sent, booked, lastId>>
    BY <1>3 DEF Quiet, maps, service, Apart
  <2>2. Reach(s, "SELL")' >= Reach(s, "SELL")
    BY <1>1, <2>1, ReachQuiet
  <2>3. QED BY <1>1, <1>2, <2>1, <2>2
<1>4. ASSUME NEW t \in Symbols, NEW side \in Sides, NEW qty \in Qtys, NEW role,
             Ordered(t, side, qty, role), t = s => role = "arb" /\ (side = "SELL" => Covered(t, qty))
      PROVE  Reach(s, "SELL")' >= Floor(s)
  <2> DEFINE e == executed'[lastId']
             k == executed'[lastId'] + resting'[lastId']
             a == lastId'
  <2>1. Apart(s) /\ (t = s => ~Outstanding(s, "arb"))
    BY <1>1, <1>4, OrderedCalm DEF Apart
  <2>2. k \in IF connected THEN {0, qty} ELSE {0}
    BY <1>4 DEF Ordered
  <2>3. e = executed'[lastId'] /\ k = executed'[lastId'] + resting'[lastId']
    OBVIOUS
  <2> HIDE DEF e, k
  <2>4. /\ e \in Nat /\ k \in Nat
        /\ t # s => Reach(s, "SELL")' >= Reach(s, "SELL")
        /\ t = s /\ side = "BUY" => Reach(s, "SELL")' >= Reach(s, "SELL") + e
        /\ t = s /\ side = "SELL" => Reach(s, "SELL")' >= Reach(s, "SELL") - k
    BY <1>1, <1>4, <2>3, ReachOrdered
  <2>5. CASE t # s \/ side = "BUY"
    BY <1>1, <1>2, <2>1, <2>4, <2>5
  <2>6. CASE t = s /\ side = "SELL" /\ k = 0
    BY <1>1, <1>2, <2>1, <2>4, <2>6
  <2>7. CASE t = s /\ side = "SELL" /\ k = qty /\ connected
    <3>1. Reach(s, "SELL") >= position[s]
      <4>1. \A id \in ClientIds : sent[id].symbol = s /\ sent[id].side = "SELL" => Left(id) = 0
        BY <1>1, <2>1, <2>7, NothingLeft DEF SamePurpose
      <4>2. QED BY <1>1, <4>1, ReadIsLeast
    <3>2. qty = position[s] \/ Reach(s, "SELL") >= Floor(s) + qty
      BY <1>4, <2>1, <2>7 DEF Covered
    <3>3. qty \in Int
      BY DEF Qtys
    <3>4. Reach(s, "SELL")' >= Reach(s, "SELL") - qty
      BY <2>4, <2>7
    <3> HIDE DEF k
    <3>5. QED BY <1>1, <3>1, <3>2, <3>3, <3>4
  <2>8. QED BY <2>2, <2>5, <2>6, <2>7 DEF Sides
<1>5. ASSUME NEW n \in Int, Served(n), CoveredCall(n)
      PROVE  Reach(s, "SELL")' >= Floor(s)
  <2>1. /\ overlapped' = overlapped
        /\ Reach(s, "SELL")' = Reach(s, "SELL") \/ Reach(s, "SELL")' = Reach(s, "SELL") + EtfEffect(n, s)
    BY <1>1, <1>5, ServedCalm DEF maps
  <2>2. Apart(s)
    BY <2>1 DEF Apart
  <2>3. Reach(s, "SELL") + EtfEffect(n, s) >= Floor(s)
    BY <1>5, <2>2 DEF CoveredCall
  <2>4. QED BY <1>1, <1>2, <2>1, <2>2, <2>3
<1>6. ASSUME NEW a \in ClientIds, NEW n \in Nat, ReadsOf(a, n)
      PROVE  Reach(s, "SELL")' >= Floor(s)
  <2>1. Apart(s) /\ Reach(s, "SELL")' = Reach(s, "SELL")
    BY <1>1, <1>6, ReadCalm DEF ReadsOf, Apart
  <2>2. QED BY <1>1, <1>2, <2>1
<1>7. CASE BlueOrdered
  BY <1>1, <1>4, <1>7, TodoFacts DEF BlueOrdered
<1>8. CASE OthersOrdered
  BY <1>4, <1>8 DEF OthersOrdered
<1>9. CASE ReadAny
  BY <1>1, <1>6, <1>9, ReadIsOf
<1>10. QED BY <1>3, <1>5, <1>7, <1>8, <1>9 DEF Trades, Called

-----------------------------------------------------------------------------
(* At the places where an arb relies on something *)

\* What happens while the thread waits, or when the guard deletes
Outside ==
    \/ UNCHANGED allVars \/ ReadAny \/ (ReadFails /\ UNCHANGED arbVars) \/ Environment
    \/ \E id \in ClientIds : GuardDelete(id)

LegPlaces == {"buyLegs", "collectLegs", "poll", "undySent", "undyFilled", "sellLegs"}

\* Every other step leads elsewhere.
LEMMA StepsToLegs ==
    ASSUME BInv, [ArbNext]_allVars
    PROVE  \/ pc'.at \notin LegPlaces
           \/ Outside
           \/ \E qty \in 1 .. MaxQty : StartCreation(qty) \/ StartRedemption(qty)
           \/ BuyLeg \/ CollectLeg \/ LegsCollected \/ AwaitUndy \/ Redeem \/ SellLeg
<1>1. pc \in Places
  BY DEF BInv, ArbTyped
<1>2. CASE Create
  <2>1. pc' \in {[at |-> "sellUndy", attempts |-> 0], [at |-> "unwind", todo |-> DormIds, then |-> "mm"]}
    BY <1>2 DEF Create, EtfCall
  <2>2. QED BY <2>1 DEF LegPlaces
<1>3. CASE PollTimeout \/ UndySold \/ AbandonRedemption \/ Collected \/ EndArb \/ ArbFlat \/ NoArb \/ ArbTimeout
  <2>1. pc'.at \in {"unwind", "mmBid", "forceUndy", "residual"}
    BY <1>3 DEF PollTimeout, UndySold, AbandonRedemption, Collected, EndArb, ArbFlat, NoArb, ArbTimeout,
       ToMM, ToUnwind, Goes
  <2>2. QED BY <2>1 DEF LegPlaces
<1>4. CASE SellUndy
  <2>1. pc.at = "sellUndy" /\ pc \in [at : {"sellUndy"}, attempts : Nat]
    BY <1>1, <1>4, PlaceFacts DEF SellUndy, At
  <2>2. pc' = [pc EXCEPT !.attempts = @ + 1]
    BY <1>4 DEF SellUndy, Place
  <2>3. QED BY <2>1, <2>2 DEF LegPlaces
<1>5. CASE Unwind
  <2>1. pc.at = "unwind" /\ pc' = UnwindNext
    BY <1>5 DEF Unwind, At, PlaceNoWait, Goes
  <2>2. UnwindNext.at \in {"collect", "unwind"}
    BY <2>1, RestFacts DEF UnwindNext
  <2>3. QED BY <2>1, <2>2 DEF LegPlaces
<1>6. CASE Collect
  BY <1>6 DEF Collect, At, Goes, LegPlaces
<1>7. CASE ForceUndy
  BY <1>7 DEF ForceUndy, Place, Goes, LegPlaces
<1>8. CASE Residual
  <2> DEFINE next == IF Len(pc.todo) = 1 THEN [at |-> "endArb"] ELSE [pc EXCEPT !.todo = Tail(@)]
  <2>1. pc.at = "residual" /\ pc' = next
    BY <1>8 DEF Residual, At, CloseOut, Place, Goes
  <2>2. next.at \in {"endArb", "residual"}
    BY <2>1, RestFacts
  <2>3. QED BY <2>1, <2>2 DEF LegPlaces
<1>9. CASE PnlGuard \/ GuardAsk \/ GuardCancel \/ GuardResume
  <2>1. pc'.at \in {"guardAsk", "guardCancel", "guardFlatten", "loop"}
    BY <1>9 DEF PnlGuard, GuardAsk, GuardCancel, GuardResume, SafeDelete, Goes, Loop
  <2>2. QED BY <2>1 DEF LegPlaces
<1>10. CASE GuardFlatten
  <2> DEFINE next == IF Len(pc.todo) = 1 THEN [at |-> "guardWait"] ELSE [pc EXCEPT !.todo = Tail(@)]
  <2>1. pc.at = "guardFlatten" /\ pc' = next
    BY <1>10 DEF GuardFlatten, At, CloseOut, Place, Goes
  <2>2. next.at \in {"guardWait", "guardFlatten"}
    BY <2>1, RestFacts
  <2>3. QED BY <2>1, <2>2 DEF LegPlaces
<1>11. CASE MmBid \/ MmAsk
  <2>1. pc \in [at : {"mmBid", "mmAsk", "mmFlatten"}, pos : Int]
    BY <1>1, <1>11, PlaceFacts DEF MmBid, MmAsk, At
  <2>2. pc' \in {[pc EXCEPT !.at = "mmAsk"], [pc EXCEPT !.at = "mmFlatten"]}
    BY <1>11 DEF MmBid, MmAsk, SafeDelete, Goes
  <2>3. QED BY <2>1, <2>2 DEF LegPlaces
<1>12. CASE MmFlatten \/ MmKeep \/ MmMove \/ MmMoveAsk \/ QuoteBid \/ QuoteAsk
  <2>1. pc'.at \in {"mmQuote", "loop", "mmMoveAsk", "mmQuoteBid", "mmQuoteAsk"}
    BY <1>12 DEF MmFlatten, MmKeep, MmMove, MmMoveAsk, QuoteBid, QuoteAsk, SafeDelete, Place, Goes, Loop
  <2>2. QED BY <2>1 DEF LegPlaces
<1>13. QED
  BY <1>2, <1>3, <1>4, <1>5, <1>6, <1>7, <1>8, <1>9, <1>10, <1>11, <1>12
  DEF ArbNext, Arbitrage, Guard, MarketMaker, Reads, Outside

\* What happens outside the thread leaves its orders calm, and enough.
LEMMA OutsideCalm ==
    ASSUME PInv, PInv', Outside
    PROVE  /\ pc' = pc /\ UNCHANGED <<overlapped, sent, lastId>> /\ (connected' => connected)
           /\ \A s \in Symbols : Calm(s) /\ Reach(s, "SELL")' >= Reach(s, "SELL")
<1>1. BInv /\ CInv' /\ FInv'
  BY DEF PInv, BInv, AInv
<1>2. pc' = pc /\ (Quiet \/ ReadAny)
  <2>1. CASE UNCHANGED allVars
    BY <1>1, <2>1, StaysQuiet DEF allVars, arbVars
  <2>2. CASE ReadAny
    BY <2>2 DEF ReadAny, Callback
  <2>3. CASE (ReadFails /\ UNCHANGED arbVars) \/ Environment
    <3>1. Shrinks /\ UNCHANGED <<reported, lastId>> /\ (connected' => connected)
      BY <1>1, <2>3, OtherCounts DEF Environment, BInv, AInv, Qtys
    <3>2. UNCHANGED arbVars
      BY <2>3 DEF Environment
    <3>3. QED BY <3>1, <3>2 DEF arbVars, Quiet
  <2>4. CASE \E id \in ClientIds : GuardDelete(id)
    BY <1>1, <2>4, StaysQuiet DEF GuardDelete, Goes
  <2>5. QED BY <2>1, <2>2, <2>3, <2>4 DEF Outside
<1>3. CASE Quiet
  <2>1. Shrinks /\ UNCHANGED <<sent, booked, lastId, overlapped>> /\ (connected' => connected)
    BY <1>3 DEF Quiet, maps, service
  <2>2. QED BY <1>1, <1>2, <1>3, <2>1, QuietCalm, ReachQuiet
<1>4. CASE ReadAny
  <2>1. PICK a \in ClientIds, n \in Nat : ReadsOf(a, n)
    BY <1>4, ReadIsOf
  <2>2. \A s \in Symbols : Calm(s) /\ Reach(s, "SELL")' = Reach(s, "SELL") /\ Reach(s, "SELL") \in Int
    BY <2>1, ReadCalm, ReachType
  <2>3. QED BY <1>2, <2>1, <2>2 DEF ReadsOf
<1>5. QED BY <1>2, <1>3, <1>4

\* And a call that waits goes on waiting, or returns.
LEMMA OutsideCalls ==
    ASSUME PInv, Outside, cancelling = {}
    PROVE  /\ cancelling' = {}
           /\ \A id \in ClientIds : executed'[id] + resting'[id] = executed[id] + resting[id]
           /\ \/ UNCHANGED <<waiting, returned>>
              \/ /\ waiting # None /\ waiting' = None
                 /\ \E ok : returned' = [op |-> waiting.op, id |-> waiting.id, ok |-> ok]
<1>1. CASE UNCHANGED allVars
  BY <1>1 DEF allVars, vars, exchange, caller
<1>2. CASE ReadAny \/ ReadFails
  <2>1. UNCHANGED <<executed, resting, cancelling>>
    BY <1>2 DEF ReadAny, ReadResponse, ReadFill, ReadOne, ReadFails, exchange, caller
  <2>2. waiting # None
    <3>1. waiting.op # "none" \/ waiting # None
      BY <1>2 DEF ReadAny, ReadResponse, ReadFill, ReadFails, Responding
    <3>2. QED BY <3>1 DEF None
  <2>3. \/ UNCHANGED <<waiting, returned>>
        \/ waiting' = None /\ \E ok : returned' = [op |-> waiting.op, id |-> waiting.id, ok |-> ok]
    BY <1>2 DEF ReadAny, ReadResponse, ReadFill, ReadOne, ReadFails, Return
  <2>4. QED BY <2>1, <2>2, <2>3
<1>3. CASE Disconnect
  BY <1>3 DEF Disconnect, caller
<1>4. ASSUME NEW a \in ClientIds, NEW qty \in 1 .. MaxQty, ExchangeFills(a, qty)
      PROVE  /\ UNCHANGED <<waiting, returned, cancelling>>
             /\ \A id \in ClientIds : executed'[id] + resting'[id] = executed[id] + resting[id]
  <2>1. /\ UNCHANGED <<waiting, returned, cancelling>> /\ qty \in 1 .. resting[a]
        /\ resting' = [resting EXCEPT ![a] = @ - qty] /\ executed' = [executed EXCEPT ![a] = @ + qty]
    BY <1>4 DEF ExchangeFills, caller
  <2>2. executed \in [ClientIds -> Nat] /\ resting \in [ClientIds -> Nat]
    BY StateFacts
  <2>3. QED BY <2>1, <2>2
<1>5. ASSUME NEW id \in ClientIds, GuardDelete(id) PROVE FALSE
  BY <1>5 DEF GuardDelete, CancelNext
<1>6. QED BY <1>1, <1>2, <1>3, <1>4, <1>5 DEF Outside, Environment

\* So what an arb relies on at its place stays.
LEMMA OutsideKeepsDorms ==
    ASSUME SInv, PInv', Outside
    PROVE  Buying' /\ Collecting' /\ Polling' /\ SellingLegs'
<1>1. /\ PInv /\ pc' = pc /\ UNCHANGED <<overlapped, sent, lastId>> /\ (connected' => connected)
      /\ \A s \in Symbols : Calm(s) /\ Reach(s, "SELL")' >= Reach(s, "SELL")
  BY OutsideCalm DEF SInv
<1>2. \A d \in Dorms : NoneOut(d, "SELL") => NoneOut(d, "SELL")'
  BY <1>1, NoneOutStays, TodoFacts
<1>3. Buying'
  BY <1>1, <1>2 DEF SInv, Buying, Apart
<1>4. DormsSold => DormsSold'
  BY <1>1, <1>2 DEF DormsSold, Apart
<1>5. Polling'
  BY <1>1, <1>4 DEF SInv, Polling
<1>6. Collecting'
  <2> SUFFICES ASSUME pc.at = "collectLegs", ~DormsSold
               PROVE  ~connected' /\ (owed' # <<>> \/ waiting' # None \/ ~AllGood')
    BY <1>1, <1>4 DEF Collecting
  <2>1. ~connected /\ (owed # <<>> \/ waiting # None \/ ~AllGood)
    BY DEF SInv, Collecting
  <2>2. CASE UNCHANGED allVars
    BY <2>1, <2>2 DEF allVars, arbVars, vars, exchange, caller, AllGood
  <2>3. CASE ReadAny
    BY <1>1, <2>1, <2>3, ReadIsOf DEF ReadsOf
  <2>4. CASE ReadFails
    <3>1. connected' = connected /\ returned' = [op |-> waiting.op, id |-> waiting.id, ok |-> FALSE]
          /\ waiting # None
      BY <2>4 DEF ReadFails, Return, exchange
    <3>2. waiting.op # "none"
      BY <1>1, <3>1 DEF PInv, BInv, AInv, CInv, TInv, Typed, Ids, Requests
    <3>3. returned' # None /\ ~returned'.ok
      BY <3>1, <3>2 DEF None
    <3>4. ~AllGood'
      BY <3>3 DEF AllGood
    <3>5. QED BY <2>1, <3>1, <3>4
  <2>5. CASE Environment
    BY <2>1, <2>5 DEF Environment, Disconnect, ExchangeFills
  <2>6. ASSUME NEW id \in ClientIds, GuardDelete(id)
        PROVE  ~connected' /\ waiting' # None
    BY <2>1, <2>6 DEF GuardDelete, CancelNext, Waits, None
  <2>7. QED BY <2>2, <2>3, <2>4, <2>5, <2>6 DEF Outside
<1>7. SellingLegs'
  <2> SUFFICES ASSUME pc.at = "sellLegs", NEW d \in Range(pc.todo), Apart(d)
               PROVE  Reach(d, "SELL")' >= Floor(d) + pc.qty
    BY <1>1 DEF SInv, SellingLegs, Apart, Floor
  <2>1. pc \in [at : {"buyLegs", "sellLegs"}, todo : Legs, qty : Qtys]
    BY <1>1, PlaceFacts DEF PInv, BInv, ArbTyped
  <2>2. d \in Symbols /\ pc.qty \in Int
    BY <2>1, TodoFacts DEF Legs, Range, Qtys
  <2>3. Reach(d, "SELL") >= Floor(d) + pc.qty /\ Floor(d) \in Int
    BY <2>2, FloorFacts DEF SInv, SellingLegs
  <2>4. QED BY <1>1, <2>2, <2>3, ReachType, NextReachType
<1>8. QED BY <1>3, <1>5, <1>6, <1>7

LEMMA OutsideKeepsUndy ==
    ASSUME SInv, PInv', Outside
    PROVE  Redeeming' /\ Filled'
<1>1. PInv /\ pc' = pc /\ UNCHANGED <<overlapped, sent, lastId>>
  BY OutsideCalm DEF SInv
<1> SUFFICES ASSUME pc.at \in {"undySent", "undyFilled"}
             PROVE  Redeeming' /\ Filled'
  BY <1>1 DEF Redeeming, Filled
<1>2. /\ lastId \in ClientIds /\ sent[lastId].symbol = "UNDY" /\ sent[lastId].side = "BUY"
      /\ executed[lastId] + resting[lastId] \in {0, pc.qty}
      /\ Apart("UNDY") => Reach("UNDY", "SELL") >= Floor("UNDY") + executed[lastId]
      /\ waiting # None => waiting.id = lastId
      /\ returned # None => returned.id = lastId
      /\ cancelling = {}
  BY DEF SInv, Redeeming
<1>3. /\ cancelling' = {} /\ executed'[lastId] + resting'[lastId] = executed[lastId] + resting[lastId]
      /\ \/ UNCHANGED <<waiting, returned>>
         \/ /\ waiting # None /\ waiting' = None
            /\ \E ok : returned' = [op |-> waiting.op, id |-> waiting.id, ok |-> ok]
  BY <1>1, <1>2, OutsideCalls
<1>4. Apart("UNDY") => Reach("UNDY", "SELL")' >= Floor("UNDY") + executed'[lastId]
  <2> SUFFICES ASSUME Apart("UNDY")
               PROVE  Reach("UNDY", "SELL")' >= Floor("UNDY") + executed'[lastId]
    OBVIOUS
  <2> DEFINE x == Reach("UNDY", "SELL")
             y == Reach("UNDY", "SELL")'
             e == executed[lastId]
             f == executed'[lastId]
  <2>1. /\ x \in Int /\ y \in Int /\ e \in Int /\ f \in Int /\ Floor("UNDY") \in Int /\ "UNDY" \in Symbols
        /\ CInv' /\ FInv' /\ x >= Floor("UNDY") + e
    <3>1. "UNDY" \in Symbols
      BY TodoFacts
    <3>2. x \in Int /\ y \in Int /\ CInv' /\ FInv' /\ Floor("UNDY") \in Int
      BY <1>1, <3>1, ReachType, NextReachType, FloorFacts
    <3>3. e \in Int /\ f \in Int
      BY <1>1, <1>2, <3>2, StateFacts, NextCounts
    <3>4. QED BY <1>2, <3>1, <3>2, <3>3
  <2>2. y >= x + (f - e)
    <3>1. CASE ReadAny
      <4>1. PICK a \in ClientIds, n \in Nat : ReadsOf(a, n)
        BY <1>1, <3>1, ReadIsOf
      <4>2. y = x /\ f = e
        BY <1>1, <4>1, ReadCalm DEF ReadsOf
      <4>3. QED BY <2>1, <4>2
    <3>2. CASE ~ReadAny
      <4>1. Quiet
        <5>1. CASE UNCHANGED allVars
          BY <1>1, <5>1, StaysQuiet DEF allVars, arbVars, PInv
        <5>2. CASE (ReadFails /\ UNCHANGED arbVars) \/ Environment
          <6>1. Shrinks /\ UNCHANGED <<reported, lastId>> /\ (connected' => connected)
            BY <1>1, <5>2, OtherCounts DEF Environment, PInv, BInv, AInv, Qtys
          <6>2. UNCHANGED arbVars
            BY <5>2 DEF Environment
          <6>3. QED BY <6>1, <6>2 DEF arbVars, Quiet
        <5>3. ASSUME NEW id \in ClientIds, GuardDelete(id) PROVE Quiet
          BY <1>1, <5>3, StaysQuiet DEF GuardDelete, Goes, PInv
        <5>4. QED BY <3>2, <5>1, <5>2, <5>3 DEF Outside
      <4>2. Shrinks /\ UNCHANGED <<sent, booked, lastId>>
        BY <4>1 DEF Quiet, maps, service
      <4>3. QED BY <1>1, <1>2, <2>1, <4>2, ReachQuiet
    <3>3. QED BY <3>1, <3>2
  <2> HIDE DEF x, y, e, f
  <2>3. y >= Floor("UNDY") + f
    BY <2>1, <2>2
  <2>4. QED BY <2>3 DEF y, f
<1>5. /\ waiting' # None => waiting'.id = lastId
      /\ returned' # None => returned'.id = lastId
  BY <1>2, <1>3
<1>6. Redeeming'
  BY <1>1, <1>2, <1>3, <1>4, <1>5 DEF Redeeming, Apart, Floor
<1>7. Filled'
  <2> SUFFICES ASSUME pc.at = "undyFilled"
               PROVE  /\ waiting' # None => waiting'.op = "fill"
                      /\ waiting' = None => /\ returned'.op = "fill"
                                            /\ returned'.ok => reported'[lastId] > 0
    BY <1>1 DEF Filled
  <2>1. /\ waiting # None => waiting.op = "fill"
        /\ waiting = None => returned.op = "fill" /\ (returned.ok => reported[lastId] > 0)
    BY DEF SInv, Filled
  <2>2. CASE ReadAny
    <3>1. waiting # None
      BY <2>2 DEF ReadAny, ReadResponse, ReadFill, Responding, None
    <3>2. waiting.op = "fill" /\ ~Responding /\ waiting.id = lastId
      BY <1>2, <2>1, <3>1 DEF Responding
    <3>3. PICK late \in BOOLEAN : ReadFill(late)
      BY <2>2, <3>2 DEF ReadAny, ReadResponse
    <3> DEFINE m == Head(stream)
    <3>4. m \in Messages /\ reported \in [ClientIds -> Nat]
      <4>1. stream \in Seq(Messages) /\ stream # <<>>
        BY <1>1, <3>3 DEF ReadFill, PInv, BInv, AInv, CInv, TInv, Typed
      <4>2. QED BY <1>1, <4>1, StateFacts
    <3>5. \/ UNCHANGED <<waiting, returned>>
          \/ /\ waiting' = None
             /\ returned' = [op |-> waiting.op, id |-> waiting.id, ok |-> FillEndsWell(m, waiting.id)]
      BY <3>3 DEF ReadFill, ReadOne, Return
    <3>6. reported' = IF m.type = "FILL" THEN [reported EXCEPT ![m.id] = @ + m.qty] ELSE reported
      BY <3>3 DEF ReadFill, ReadOne, Absorb
    <3> HIDE DEF m
    <3>7. FillEndsWell(m, lastId) => reported'[lastId] > 0
      <4> SUFFICES ASSUME FillEndsWell(m, lastId) PROVE reported'[lastId] > 0
        OBVIOUS
      <4>1. m.type = "FILL" /\ m.id = lastId
        BY DEF FillEndsWell
      <4>2. m.qty \in Nat /\ m.qty > 0
        BY <3>4, <4>1 DEF Messages
      <4>3. reported'[lastId] = reported[lastId] + m.qty /\ reported[lastId] \in Nat
        BY <1>2, <3>4, <3>6, <4>1
      <4>4. QED BY <4>2, <4>3
    <3>8. CASE UNCHANGED <<waiting, returned>>
      BY <3>1, <3>2, <3>8
    <3>9. CASE /\ waiting' = None
               /\ returned' = [op |-> waiting.op, id |-> waiting.id, ok |-> FillEndsWell(m, waiting.id)]
      BY <3>2, <3>7, <3>9
    <3>10. QED BY <3>5, <3>8, <3>9
  <2>3. CASE ReadFails
    <3>1. waiting # None /\ waiting' = None /\ returned' = [op |-> waiting.op, id |-> waiting.id, ok |-> FALSE]
      BY <2>3 DEF ReadFails, Return
    <3>2. QED BY <2>1, <3>1
  <2>4. CASE UNCHANGED allVars \/ Environment
    <3>1. UNCHANGED <<waiting, returned, reported>>
      BY <2>4 DEF allVars, vars, client, Environment, Disconnect, ExchangeFills
    <3>2. QED BY <2>1, <3>1
  <2>5. ASSUME NEW id \in ClientIds, GuardDelete(id) PROVE FALSE
    BY <1>2, <2>5 DEF GuardDelete, CancelNext
  <2>6. QED BY <2>2, <2>3, <2>4, <2>5 DEF Outside
<1>8. QED BY <1>6, <1>7

\* What an arb relies on where it is
LegFacts == Buying /\ Collecting /\ Polling /\ Redeeming /\ Filled /\ SellingLegs

\* What is in a list is its head or in its rest.
LEMMA RangeFacts ==
    ASSUME NEW S, NEW todo \in Seq(S) \ {<<>>}
    PROVE  /\ Head(todo) \in Range(todo)
           /\ \A x \in Range(todo) : x = Head(todo) \/ (Len(todo) # 1 /\ x \in Range(Tail(todo)))
           /\ Range(Tail(todo)) \subseteq Range(todo)
           /\ IsInjective(todo) => IsInjective(Tail(todo)) /\ Head(todo) \notin Range(Tail(todo))
<1> DEFINE rest == Tail(todo)
           n == Len(todo)
<1>1. /\ n \in Nat /\ n > 0 /\ DOMAIN todo = 1 .. n /\ Head(todo) = todo[1]
      /\ rest \in Seq(S) /\ DOMAIN rest = 1 .. (n - 1) /\ \A i \in 1 .. (n - 1) : rest[i] = todo[i + 1]
  OBVIOUS
<1> HIDE DEF rest, n
<1>2. \A i \in 1 .. n : i = 1 \/ (i - 1 \in 1 .. (n - 1) /\ rest[i - 1] = todo[i] /\ n # 1)
  BY <1>1
<1>3. \A i \in 1 .. (n - 1) : i + 1 \in 1 .. n /\ i + 1 # 1
  BY <1>1
<1>4. Head(todo) \in Range(todo)
  BY <1>1 DEF Range
<1>5. \A x \in Range(todo) : x = Head(todo) \/ (n # 1 /\ x \in Range(rest))
  <2>1. TAKE x \in Range(todo)
  <2>2. PICK i \in 1 .. n : x = todo[i]
    BY <1>1 DEF Range
  <2>3. CASE i = 1
    BY <1>1, <2>2, <2>3
  <2>4. CASE i - 1 \in DOMAIN rest /\ rest[i - 1] = x /\ n # 1
    BY <2>4 DEF Range
  <2>5. QED BY <1>1, <1>2, <2>2, <2>3, <2>4
<1>6. Range(rest) \subseteq Range(todo)
  BY <1>1, <1>3 DEF Range
<1>7. ASSUME IsInjective(todo) PROVE IsInjective(rest) /\ Head(todo) \notin Range(rest)
  <2>1. \A i, j \in 1 .. n : todo[i] = todo[j] => i = j
    BY <1>1, <1>7 DEF IsInjective
  <2>2. \A i, j \in 1 .. (n - 1) : rest[i] = rest[j] => i = j
    <3>1. TAKE i, j \in 1 .. (n - 1)
    <3>2. todo[i + 1] = todo[j + 1] => i + 1 = j + 1
      BY <1>3, <2>1
    <3>3. QED BY <1>1, <3>2
  <2>3. \A i \in 1 .. (n - 1) : rest[i] # todo[1]
    <3>1. 1 \in 1 .. n
      BY <1>1
    <3>2. QED BY <1>1, <1>3, <2>1, <3>1
  <2>4. QED BY <1>1, <2>2, <2>3 DEF IsInjective, Range
<1>8. QED BY <1>4, <1>5, <1>6, <1>7 DEF n, rest

LEMMA ElsewhereNoLegs ==
    ASSUME pc'.at \notin LegPlaces
    PROVE  LegFacts'
BY DEF LegFacts, LegPlaces, Buying, Collecting, Polling, Redeeming, Filled, SellingLegs

LEMMA StartCreationKeeps ==
    ASSUME NEW qty, StartCreation(qty)
    PROVE  LegFacts'
<1>1. pc'.at = "buyLegs" /\ pc'.todo = DormIds
  BY DEF StartCreation
<1>2. Buying'
  BY <1>1 DEF Buying, Dorms
<1>3. QED
  BY <1>1, <1>2 DEF LegFacts, Collecting, Polling, Redeeming, Filled, SellingLegs

\* A leg is bought: an older sell of the dorm that is still out makes the dorm overlap.
LEMMA BuyLegKeeps ==
    ASSUME SInv, PInv', BuyLeg
    PROVE  LegFacts'
<1> DEFINE d == Head(pc.todo)
           next == IF Len(pc.todo) = 1 THEN [at |-> "collectLegs", qty |-> pc.qty, all |-> TRUE]
                                       ELSE [pc EXCEPT !.todo = Tail(@)]
<1>1. /\ PInv /\ BInv /\ pc.at = "buyLegs" /\ pc.todo \in Legs /\ d \in Dorms /\ d \in Symbols
  BY RestOfTodo, TodoFacts DEF SInv, PInv, BuyLeg, At
<1>2. PlaceNoWait(d, "BUY", pc.qty, next)
  BY DEF BuyLeg
<1>3. owed' # <<>>
  <2>1. owed' = Append(owed, lastId + 1) /\ owed \in Seq(ClientIds)
    BY <1>1, <1>2 DEF PlaceNoWait, SendNewOrderNoWait, BInv, AInv, CInv, TInv, Typed
  <2>2. QED BY <2>1
<1>4. \/ next.at = "collectLegs" /\ Len(pc.todo) = 1
      \/ next.at = "buyLegs" /\ Len(pc.todo) # 1 /\ next.todo = Tail(pc.todo)
  BY <1>1, RestFacts
<1>5. /\ \A x \in Range(pc.todo) : x = d \/ (Len(pc.todo) # 1 /\ x \in Range(Tail(pc.todo)))
      /\ d \in Range(pc.todo)
  BY <1>1, RangeFacts DEF Legs
<1> HIDE DEF d, next
<1>6. pc' = next /\ pc.qty \in Qtys /\ Ordered(d, "BUY", pc.qty, "arb")
  BY <1>1, <1>2, PlaceNoWaitOrders DEF Sides
<1>7. PICK a : a = lastId'
  OBVIOUS
<1>8. /\ \A s \in Symbols : s # d => Calm(s)
      /\ \A s \in Symbols : s \notin overlapped' => s \notin overlapped
      /\ connected' = connected
      /\ connected /\ d \notin overlapped' =>
            \A id \in ClientIds \ {a} : sent'[id].symbol = d => Left(id)' = 0
      /\ sent'[a].side = "BUY"
  BY <1>1, <1>6, <1>7, OrderedCalm DEF Sides, SamePurpose
<1>9. ASSUME connected', NEW x \in Dorms, Apart(x)', x = d \/ x \notin Range(pc.todo)
      PROVE  NoneOut(x, "SELL")'
  <2>1. CASE x = d
    BY <1>8, <1>9, <2>1 DEF NoneOut, Apart
  <2>2. CASE x # d
    <3>1. Apart(x) /\ Calm(x)
      BY <1>8, <1>9, <2>2, TodoFacts DEF Apart
    <3>2. NoneOut(x, "SELL")
      BY <1>1, <1>8, <1>9, <2>2, <3>1 DEF SInv, Buying
    <3>3. QED BY <3>1, <3>2, NoneOutStays
  <2>3. QED BY <2>1, <2>2
<1>10. Buying'
  BY <1>4, <1>5, <1>6, <1>9 DEF Buying
<1>11. Collecting'
  BY <1>3, <1>4, <1>5, <1>6, <1>9 DEF Collecting, DormsSold
<1>12. pc'.at \in {"collectLegs", "buyLegs"}
  BY <1>4, <1>6
<1>13. QED BY <1>10, <1>11, <1>12 DEF LegFacts, Polling, Redeeming, Filled, SellingLegs

LEMMA QuietKeepsSold ==
    ASSUME PInv, PInv', Quiet, DormsSold
    PROVE  DormsSold'
<1>1. overlapped' = overlapped /\ \A d \in Dorms : Calm(d)
  BY QuietCalm DEF Quiet, maps
<1>2. QED BY <1>1, NoneOutStays DEF DormsSold, Apart

LEMMA CollectLegKeeps ==
    ASSUME SInv, PInv', CollectLeg
    PROVE  LegFacts'
<1>1. PInv /\ BInv /\ pc.at = "collectLegs" /\ Collecting
  BY DEF SInv, PInv, CollectLeg, At
<1>2. pc \in [at : {"collectLegs"}, qty : Qtys, all : BOOLEAN]
  BY <1>1, PlaceFacts DEF BInv, ArbTyped
<1>3. pc'.at = "collectLegs"
  BY <1>2 DEF CollectLeg, Goes
<1>4. Quiet
  BY <1>1, StaysQuiet DEF CollectLeg, Goes
<1>5. connected' = connected /\ waiting' # None
  BY DEF CollectLeg, WaitForResponse, exchange, Waits, None
<1>6. Collecting'
  BY <1>1, <1>4, <1>5, QuietKeepsSold DEF Collecting
<1>7. QED BY <1>3, <1>6 DEF LegFacts, Buying, Polling, Redeeming, Filled, SellingLegs

LEMMA LegsCollectedKeeps ==
    ASSUME SInv, PInv', LegsCollected
    PROVE  LegFacts'
<1>1. PInv /\ BInv /\ pc.at = "collectLegs" /\ Collecting /\ owed = <<>> /\ waiting = None
  BY DEF SInv, PInv, LegsCollected, At, Free
<1>2. CASE AllGood
  <2>1. DormsSold /\ pc'.at = "poll"
    BY <1>1, <1>2 DEF Collecting, LegsCollected
  <2>2. Quiet
    BY <1>1, StaysQuiet DEF LegsCollected, Stays
  <2>3. Polling'
    BY <1>1, <2>1, <2>2, QuietKeepsSold DEF Polling
  <2>4. QED BY <2>1, <2>3 DEF LegFacts, Buying, Collecting, Redeeming, Filled, SellingLegs
<1>3. CASE ~AllGood
  BY <1>3, ElsewhereNoLegs DEF LegsCollected, ToUnwind, LegPlaces
<1>4. QED BY <1>2, <1>3

\* The redemption's buy: the least grows by whatever of it fills at once.
LEMMA StartRedemptionKeeps ==
    ASSUME SInv, PInv', NEW qty \in 1 .. MaxQty, StartRedemption(qty)
    PROVE  LegFacts'
<1>1. /\ PInv /\ BInv /\ CInv' /\ FInv' /\ "UNDY" \in Symbols \ {"BLUE"}
      /\ "BUY" \in Sides /\ "arb" \in Roles
  BY TodoFacts DEF SInv, PInv, BInv, AInv, Sides, Roles
<1>2. Place("UNDY", "BUY", qty, "arb", [at |-> "undySent", qty |-> qty])
  BY DEF StartRedemption
<1>3. /\ pc' = [at |-> "undySent", qty |-> qty] /\ qty \in Qtys /\ Ordered("UNDY", "BUY", qty, "arb")
  BY <1>1, <1>2, PlaceOrders
<1>4. /\ cancelling' = {} /\ returned' = None /\ waiting' = [op |-> "new", id |-> lastId + 1]
  BY <1>2 DEF Place, SendNewOrder, Free, Waits
<1>5. PICK a : a = lastId'
  OBVIOUS
<1>6. /\ a \in ClientIds /\ sent'[a].symbol = "UNDY" /\ sent'[a].side = "BUY" /\ a = lastId + 1
      /\ executed'[a] + resting'[a] \in {0, qty}
      /\ Apart("UNDY")' => Apart("UNDY")
  <2>1. a = lastId + 1 /\ executed'[a] + resting'[a] \in {0, qty}
    BY <1>3, <1>5 DEF Ordered
  <2>2. QED BY <1>1, <1>3, <1>5, <2>1, OrderedCalm DEF Apart
<1>7. PICK e, k : e = executed'[a] /\ k = executed'[a] + resting'[a]
  OBVIOUS
<1>8. e \in Nat /\ Reach("UNDY", "SELL")' >= Reach("UNDY", "SELL") + e
  BY <1>1, <1>3, <1>5, <1>7, ReachOrdered
<1>9. /\ Reach("UNDY", "SELL") \in Int /\ Reach("UNDY", "SELL")' \in Int /\ Floor("UNDY") \in Int
      /\ Apart("UNDY") => Reach("UNDY", "SELL") >= Floor("UNDY")
  BY <1>1, ReachType, NextReachType, FloorFacts DEF SInv, NoneShort
<1>10. Apart("UNDY")' => Reach("UNDY", "SELL")' >= Floor("UNDY") + e
  BY <1>6, <1>8, <1>9
<1>11. /\ pc'.at = "undySent" /\ pc'.qty = qty
       /\ lastId' \in ClientIds /\ sent'[lastId'].symbol = "UNDY" /\ sent'[lastId'].side = "BUY"
       /\ executed'[lastId'] + resting'[lastId'] \in {0, qty}
       /\ Apart("UNDY")' => Reach("UNDY", "SELL")' >= Floor("UNDY") + executed'[lastId']
       /\ waiting'.id = lastId'
  BY <1>3, <1>4, <1>5, <1>6, <1>7, <1>10
<1>12. Redeeming'
  BY <1>4, <1>11 DEF Redeeming, Floor
<1>13. QED
  BY <1>11, <1>12 DEF LegFacts, Buying, Collecting, Polling, Filled, SellingLegs

LEMMA AwaitUndyKeeps ==
    ASSUME SInv, AwaitUndy
    PROVE  LegFacts'
<1>1. pc.at = "undySent" /\ pc' = [at |-> "undyFilled", qty |-> pc.qty] /\ Redeeming
  BY DEF SInv, AwaitUndy, At, Goes
<1>2. returned # None /\ returned.id = lastId
  <2>1. returned # None
    BY DEF AwaitUndy, WaitForFill, None
  <2>2. QED BY <1>1, <2>1 DEF Redeeming
<1>3. /\ waiting' = [op |-> "fill", id |-> lastId] /\ returned' = None /\ waiting' # None
      /\ UNCHANGED <<executed, resting, lastId, cancelling, sent, overlapped, booked>>
  BY <1>2 DEF AwaitUndy, WaitForFill, Waits, None, exchange, caller, Goes, maps, service
<1>4. Reach("UNDY", "SELL")' = Reach("UNDY", "SELL")
  BY <1>3 DEF Reach, IfFilled
<1>5. Redeeming'
  BY <1>1, <1>3, <1>4 DEF Redeeming, Apart, Floor
<1>6. Filled'
  BY <1>3 DEF Filled
<1>7. QED BY <1>1, <1>5, <1>6 DEF LegFacts, Buying, Collecting, Polling, SellingLegs

\* A redemption that is told brings its dorms.
LEMMA RedeemKeeps ==
    ASSUME SInv, PInv', Redeem
    PROVE  LegFacts'
<1>1. PInv /\ BInv /\ pc.at = "undyFilled" /\ pc.qty \in Qtys /\ pc.qty \in Nat /\ pc.qty > 0
  <2>1. PInv /\ BInv /\ pc \in Places /\ pc.at = "undyFilled"
    BY DEF SInv, PInv, BInv, ArbTyped, Redeem, At
  <2>2. pc.qty \in Qtys
    BY <2>1, PlaceFacts
  <2>3. QED BY <2>1, <2>2, BoundsAssumption DEF Qtys
<1> DEFINE good == [at |-> "sellLegs", todo |-> DormIds, qty |-> pc.qty]
           bad == [at |-> "mmBid", pos |-> position["BLUE"]]
           n == 0 - pc.qty
<1>2. n \in Int /\ -pc.qty = n
  BY <1>1
<1>3. EtfCall(n, good, bad)
  BY <1>2 DEF Redeem
<1>4. good.at = "sellLegs" /\ good.todo = DormIds /\ good.qty = pc.qty /\ bad.at = "mmBid"
  OBVIOUS
<1> HIDE DEF good, bad, n
<1>5. pc' \in {good, bad} /\ Served(n)
  BY <1>1, <1>2, <1>3, EtfCallServes
<1>6. CASE pc' = bad
  BY <1>4, <1>6, ElsewhereNoLegs DEF LegPlaces
<1>7. CASE pc' = good
  <2>1. good # bad
    BY <1>4
  <2>2. position' = [s \in Symbols |-> position[s] + EtfEffect(n, s)] /\ overlapped' = overlapped
    BY <1>3, <1>7, <2>1 DEF EtfCall, maps
  <2>3. ASSUME NEW d \in Dorms, Apart(d)
        PROVE  Reach(d, "SELL")' >= Floor(d) + pc.qty
    <3>1. /\ d \in Symbols \ {"BLUE"} /\ d # "UNDY" /\ position[d] \in Int
          /\ Reach(d, "SELL") \in Int /\ Reach(d, "SELL")' \in Int /\ Floor(d) \in Int
      BY <1>1, TodoFacts, StateFacts, ReachType, NextReachType, FloorFacts
    <3>2. EtfEffect(n, d) = 0 - n /\ 0 - n = pc.qty
      BY <1>1, <3>1 DEF EtfEffect, n
    <3>3. position'[d] # position[d]
      BY <1>1, <2>2, <3>1, <3>2
    <3>4. Reach(d, "SELL")' = Reach(d, "SELL") + pc.qty
      BY <1>1, <1>2, <1>5, <3>1, <3>2, <3>3, ServedCalm
    <3>5. Reach(d, "SELL") >= Floor(d)
      BY <2>3, <3>1 DEF SInv, NoneShort
    <3>6. QED BY <1>1, <3>1, <3>4, <3>5
  <2>4. SellingLegs'
    BY <1>4, <1>7, <2>2, <2>3, BasketAssumption DEF SellingLegs, Dorms, Apart, Floor
  <2>5. QED BY <1>4, <1>7, <2>4 DEF LegFacts, Buying, Collecting, Polling, Redeeming, Filled
<1>8. QED BY <1>5, <1>6, <1>7

\* A leg sold leaves the other dorms' as they are.
LEMMA SellLegKeeps ==
    ASSUME SInv, PInv', SellLeg
    PROVE  LegFacts'
<1> DEFINE d == Head(pc.todo)
           next == IF Len(pc.todo) = 1 THEN [at |-> "collect", then |-> "mm"]
                                       ELSE [pc EXCEPT !.todo = Tail(@)]
           rest == Tail(pc.todo)
<1>1. /\ PInv /\ BInv /\ pc.at = "sellLegs" /\ pc.todo \in Legs /\ d \in Dorms /\ d \in Symbols
      /\ CInv' /\ FInv'
  BY RestOfTodo, TodoFacts DEF SInv, PInv, BInv, AInv, SellLeg, At
<1>2. PlaceNoWait(d, "SELL", pc.qty, next)
  BY DEF SellLeg
<1>3. \/ next.at = "collect"
      \/ next.at = "sellLegs" /\ next.todo = rest /\ next.qty = pc.qty
  BY <1>1, RestFacts
<1>4. IsInjective(rest) /\ d \notin Range(rest) /\ Range(rest) \subseteq Range(pc.todo)
  BY <1>1, RangeFacts DEF Legs, SInv, SellingLegs
<1>5. Range(pc.todo) \subseteq Dorms
  BY <1>1 DEF Legs, Range
<1> HIDE DEF d, next, rest
<1>6. pc' = next /\ pc.qty \in Qtys /\ Ordered(d, "SELL", pc.qty, "arb")
  BY <1>1, <1>2, PlaceNoWaitOrders DEF Sides
<1>7. ASSUME NEW t \in Range(rest), Apart(t)'
      PROVE  Reach(t, "SELL")' >= Floor(t) + pc.qty
  <2>1. t # d /\ t \in Range(pc.todo) /\ t \in Symbols
    BY <1>4, <1>5, TodoFacts
  <2>2. Apart(t)
    BY <1>1, <1>6, <1>7, <2>1, OrderedCalm DEF Apart, Sides
  <2>3. PICK e, k : e = executed'[lastId'] /\ k = executed'[lastId'] + resting'[lastId']
    OBVIOUS
  <2>4. Reach(t, "SELL")' >= Reach(t, "SELL")
    BY <1>1, <1>6, <2>1, <2>3, ReachOrdered DEF Sides
  <2>5. Reach(t, "SELL") >= Floor(t) + pc.qty
    BY <1>1, <2>1, <2>2 DEF SInv, SellingLegs
  <2>6. Reach(t, "SELL") \in Int /\ Reach(t, "SELL")' \in Int /\ Floor(t) \in Int /\ pc.qty \in Int
    BY <1>1, <1>6, <2>1, ReachType, NextReachType, FloorFacts DEF Qtys
  <2>7. QED BY <2>4, <2>5, <2>6
<1>8. CASE next.at = "collect"
  BY <1>6, <1>8, ElsewhereNoLegs DEF LegPlaces
<1>9. CASE next.at = "sellLegs" /\ next.todo = rest /\ next.qty = pc.qty
  <2>1. SellingLegs'
    BY <1>4, <1>6, <1>7, <1>9 DEF SellingLegs, Floor
  <2>2. QED BY <1>6, <1>9, <2>1 DEF LegFacts, Buying, Collecting, Polling, Redeeming, Filled
<1>10. QED BY <1>3, <1>8, <1>9

\* The inductive invariant of the sells
LEMMA NextSInv == SInv /\ [ArbNext]_allVars => SInv'
<1> SUFFICES ASSUME SInv, [ArbNext]_allVars PROVE SInv'
  OBVIOUS
<1>1. PInv' /\ Trades /\ BInv
  BY NextPInv, EveryStepTrades DEF SInv, PInv
<1>2. NoneShort'
  BY <1>1, NextNoneShort
<1>3. LegFacts'
  <2>1. CASE pc'.at \notin LegPlaces
    BY <2>1, ElsewhereNoLegs
  <2>2. CASE Outside
    BY <1>1, <2>2, OutsideKeepsDorms, OutsideKeepsUndy DEF LegFacts
  <2>3. ASSUME NEW qty \in 1 .. MaxQty, StartCreation(qty) \/ StartRedemption(qty) PROVE LegFacts'
    BY <1>1, <2>3, StartCreationKeeps, StartRedemptionKeeps
  <2>4. CASE BuyLeg \/ CollectLeg \/ LegsCollected
    BY <1>1, <2>4, BuyLegKeeps, CollectLegKeeps, LegsCollectedKeeps
  <2>5. CASE AwaitUndy \/ Redeem \/ SellLeg
    BY <1>1, <2>5, AwaitUndyKeeps, RedeemKeeps, SellLegKeeps
  <2>6. QED BY <1>1, <2>1, <2>2, <2>3, <2>4, <2>5, StepsToLegs
<1>4. QED BY <1>1, <1>2, <1>3 DEF SInv, LegFacts

\* At the start nothing is out.
LEMMA InitNothingOut ==
    ASSUME ArbInit, PInv
    PROVE  /\ \A id \in ClientIds : Left(id) = 0
           /\ position = StartPosition /\ pc.at = "loop"
<1>1. lastId = 0 /\ position = StartPosition /\ pc.at = "loop"
  BY DEF ArbInit, Init, Loop
<1>2. \A id \in ClientIds : id > lastId
  BY <1>1, BoundsAssumption DEF ClientIds
<1>3. QED BY <1>1, <1>2, StateFacts DEF Left

LEMMA InitSInv == ArbInit => SInv
<1> SUFFICES ASSUME ArbInit PROVE SInv
  OBVIOUS
<1>1. PInv /\ (\A id \in ClientIds : Left(id) = 0) /\ position = StartPosition /\ pc.at = "loop"
  BY InitPInv, InitNothingOut
<1>2. NoneShort
  <2> SUFFICES ASSUME NEW s \in Symbols PROVE Reach(s, "SELL") >= Floor(s)
    BY DEF NoneShort
  <2>1. Reach(s, "SELL") >= position[s] /\ position[s] = StartPosition[s]
    BY <1>1, ReadIsLeast
  <2>2. /\ Reach(s, "SELL") \in Int /\ StartPosition[s] \in Int
        /\ Floor(s) \in Int /\ Floor(s) <= StartPosition[s]
    BY <1>1, ReachType, FloorFacts, StartAssumption
  <2>3. QED BY <2>1, <2>2
<1>3. QED
  BY <1>1, <1>2 DEF SInv, Buying, Collecting, Polling, Redeeming, Filled, SellingLegs

LEMMA SellsInvariance == ArbSpec => []SInv
<1>1. QED BY InitSInv, NextSInv, PTL DEF ArbSpec

\* The bot never sells a dorm or UNDY that it does not hold: what its positions, its legs
\* and its redemptions let it send is covered by what it holds at the exchange, as long as
\* it sent no order for the symbol while another was out and learned of all the service did.
THEOREM NothingIsOversold == ArbSpec => []NeverOversold
<1>1. SInv => NeverOversold
  <2> SUFFICES ASSUME SInv, NEW s \in Symbols \ {"BLUE"}, s \notin overlapped, etf = booked
               PROVE  Holding(s) >= Lesser(0, StartPosition[s])
    BY DEF NeverOversold
  <2>1. PInv /\ Reach(s, "SELL") >= Floor(s)
    BY DEF SInv, NoneShort, Apart
  <2>2. Holding(s) \in Int /\ Reach(s, "SELL") <= Holding(s)
    BY <2>1, HeldBetween
  <2>3. Reach(s, "SELL") \in Int /\ Floor(s) \in Int
    BY <2>1, ReachType, FloorFacts
  <2>4. Holding(s) >= Floor(s)
    BY <2>1, <2>2, <2>3
  <2>5. QED BY <2>4 DEF Floor
<1>2. QED BY <1>1, SellsInvariance, PTL

-----------------------------------------------------------------------------
(* The limit of BLUE *)

BlueApart == connected /\ Apart("BLUE")

\* An order of BLUE that has something left to fill or to report
IsOut(id) == sent[id].symbol = "BLUE" /\ Left(id) # 0

\* Which side each kind of order of BLUE takes
RolesOf ==
    \A id \in ClientIds :
        sent[id].symbol = "BLUE" =>
            /\ sent[id].role \in {"bid", "flatten"} => sent[id].side = "BUY"
            /\ sent[id].role = "ask" => sent[id].side = "SELL"

\* A bid, an ask and a flatten order are out at the most, or one order of the guard alone.
OneEach ==
    BlueApart => \A i, j \in ClientIds :
        IsOut(i) /\ IsOut(j) /\ i # j => ~SamePurpose(sent[i].role, sent[j].role)

\* A quote is for one, and no buy for more than BLUE may be short.
Sizes ==
    BlueApart => \A id \in ClientIds : sent[id].symbol = "BLUE" =>
        /\ sent[id].role \in {"bid", "ask"} => Left(id) <= 1
        /\ sent[id].side = "BUY" => Left(id) <= 0 - BlueLeast

\* No sell that is out takes what is read below the least.
PosFloor ==
    BlueApart =>
        /\ position["BLUE"] >= BlueLeast
        /\ \A id \in ClientIds :
              sent[id].symbol = "BLUE" /\ sent[id].side = "SELL" => position["BLUE"] - Left(id) >= BlueLeast

\* What was read when the market maker began is all there is to buy, but for a bid and a
\* flatten order.
PosAtRead ==
    BlueApart /\ pc.at \in MmPlaces =>
        pc.pos >= BlueLeast /\ Reach("BLUE", "BUY") <= pc.pos + 1 - BlueLeast

BlueBounds ==
    Apart("BLUE") => Reach("BLUE", "SELL") >= BlueLeast /\ Reach("BLUE", "BUY") <= BlueMost

BlueFollows == RolesOf /\ OneEach /\ Sizes /\ PosFloor /\ PosAtRead /\ BlueBounds

MInv == SInv /\ BlueFollows

\* The limit
LEMMA LimitFacts ==
    /\ MmLimit \in Int /\ MmLimit >= 1 /\ BlueLeast \in Int /\ BlueMost \in Int
    /\ BlueLeast <= 0 - MmLimit /\ BlueMost >= MmLimit - BlueLeast
    /\ BlueLeast <= StartPosition["BLUE"] /\ BlueMost >= StartPosition["BLUE"]
<1>1. MmLimit \in Nat /\ MmLimit > 0 /\ StartPosition["BLUE"] \in Int
  BY ArbLimitsAssumption, StartAssumption, TodoFacts
<1>2. QED BY <1>1 DEF BlueLeast, BlueMost, Lesser, Greater

LEMMA BlueFacts ==
    ASSUME PInv
    PROVE  /\ "BLUE" \in Symbols /\ position["BLUE"] \in Int
           /\ Reach("BLUE", "SELL") \in Int /\ Reach("BLUE", "BUY") \in Int
           /\ (pc.at \in MmPlaces => pc.pos \in Int)
           /\ \A id \in ClientIds : /\ Left(id) \in Nat
                                    /\ sent[id].symbol = "BLUE" => sent[id].role \in Roles
                                                                   /\ sent[id].side \in Sides
<1>1. "BLUE" \in Symbols
  BY TodoFacts
<1>2. pc.at \in MmPlaces => pc.pos \in Int
  <2>1. pc \in Places
    BY DEF PInv, BInv, ArbTyped
  <2>2. QED BY <2>1, PlaceFacts DEF MmPlaces
<1>3. \A id \in ClientIds : sent[id].symbol = "BLUE" => sent[id].role \in Roles /\ sent[id].side \in Sides
  <2>1. TAKE id \in ClientIds
  <2>2. sent[id] \in Orders \cup {Unused}
    BY DEF PInv, BInv, ArbTyped
  <2>3. QED BY <2>2 DEF Orders, Unused
<1>4. QED BY <1>1, <1>2, <1>3, StateFacts, ReachType

\* What BLUE may rise to is what is read, a bid, and what else is out to buy.
LEMMA MostBought ==
    ASSUME MInv, BlueApart
    PROVE  /\ Reach("BLUE", "BUY") <= position["BLUE"] + 1 - BlueLeast
           /\ (\A id \in ClientIds : IsOut(id) => sent[id].role \notin {"bid", "arb"})
                  => Reach("BLUE", "BUY") <= position["BLUE"] - BlueLeast
<1>1. /\ PInv /\ "BLUE" \in Symbols /\ position["BLUE"] \in Int /\ Reach("BLUE", "BUY") \in Int
      /\ \A id \in ClientIds : Left(id) \in Nat /\ (sent[id].symbol = "BLUE" => sent[id].role \in Roles)
  BY BlueFacts DEF MInv, SInv
<1> DEFINE b(id) == ToBuy("BLUE", id)
<1>2. \A id \in ClientIds : /\ b(id) \in Nat /\ b(id) <= 0 - BlueLeast
                            /\ b(id) # 0 => IsOut(id) /\ sent[id].role \in {"bid", "flatten", "arb"}
                            /\ sent[id].role = "bid" => b(id) <= 1
  <2>1. TAKE id \in ClientIds
  <2>2. CASE sent[id].symbol = "BLUE" /\ sent[id].side = "BUY"
    <3>1. b(id) = Left(id) /\ sent[id].role \in {"bid", "flatten", "arb"}
      BY <1>1, <2>2 DEF ToBuy, MInv, BlueFollows, RolesOf, Roles
    <3>2. Left(id) <= 0 - BlueLeast /\ (sent[id].role = "bid" => Left(id) <= 1)
      BY <2>2 DEF MInv, BlueFollows, Sizes
    <3>3. QED BY <1>1, <2>2, <3>1, <3>2 DEF IsOut
  <2>3. CASE ~(sent[id].symbol = "BLUE" /\ sent[id].side = "BUY")
    <3>1. b(id) = 0
      BY <2>3 DEF ToBuy
    <3>2. QED BY <3>1, LimitFacts
  <2>4. QED BY <2>2, <2>3
<1>3. \A i, j \in ClientIds : i # j /\ b(i) # 0 /\ b(j) # 0 =>
         sent[i].role # sent[j].role /\ sent[i].role # "arb" /\ sent[j].role # "arb"
  BY <1>2 DEF MInv, BlueFollows, OneEach, SamePurpose
<1>4. PICK f \in ClientIds : \A id \in ClientIds \ {f} : b(id) # 0 => sent[id].role = "bid"
  <2>1. CASE \E i \in ClientIds : b(i) # 0 /\ sent[i].role # "bid"
    BY <1>2, <1>3, <2>1
  <2>2. CASE ~\E i \in ClientIds : b(i) # 0 /\ sent[i].role # "bid"
    <3>1. 1 \in ClientIds
      BY BoundsAssumption DEF ClientIds
    <3>2. QED BY <2>2, <3>1
  <2>3. QED BY <2>1, <2>2
<1>5. PICK g \in ClientIds : /\ \A id \in ClientIds \ {f, g} : b(id) = 0
                             /\ g = f \/ (b(g) # 0 /\ sent[g].role = "bid")
  <2>1. CASE \E i \in ClientIds \ {f} : b(i) # 0
    <3>1. PICK i \in ClientIds \ {f} : b(i) # 0
      BY <2>1
    <3>2. \A id \in ClientIds \ {f, i} : b(id) = 0
      BY <1>3, <1>4, <3>1
    <3>3. QED BY <1>4, <3>1, <3>2
  <2>2. CASE ~\E i \in ClientIds \ {f} : b(i) # 0
    BY <2>2
  <2>3. QED BY <2>1, <2>2
<1>6. Reach("BLUE", "BUY") <= position["BLUE"] + b(f) + (IF f = g THEN 0 ELSE b(g))
  BY <1>1, <1>5, ReadIsMost
<1>7. PICK y, p, m, n, l : /\ y = Reach("BLUE", "BUY") /\ p = position["BLUE"]
                           /\ m = b(f) /\ n = b(g) /\ l = BlueLeast
  OBVIOUS
<1>8. /\ y \in Int /\ p \in Int /\ m \in Nat /\ n \in Nat /\ l \in Int
      /\ m <= 0 - l /\ y <= p + m + (IF f = g THEN 0 ELSE n) /\ (f = g \/ n <= 1)
  BY <1>1, <1>2, <1>5, <1>6, <1>7, LimitFacts
<1>9. y <= p + 1 - l
  BY <1>8
<1>10. ASSUME \A id \in ClientIds : IsOut(id) => sent[id].role \notin {"bid", "arb"}
       PROVE  y <= p - l
  <2>1. f = g
    BY <1>2, <1>5, <1>10
  <2>2. QED BY <1>8, <2>1
<1>11. QED BY <1>7, <1>9, <1>10

\* A step that leaves BLUE alone
LEMMA CalmKeepsBlue ==
    ASSUME MInv, PInv', Steers, Calm("BLUE"), position'["BLUE"] = position["BLUE"],
           connected' => connected, Apart("BLUE")' => Apart("BLUE"),
           Reach("BLUE", "SELL")' >= Reach("BLUE", "SELL"), Reach("BLUE", "BUY")' <= Reach("BLUE", "BUY")
    PROVE  BlueFollows'
<1>1. /\ PInv /\ position["BLUE"] \in Int /\ (pc.at \in MmPlaces => pc.pos \in Int)
      /\ Reach("BLUE", "SELL") \in Int /\ Reach("BLUE", "BUY") \in Int
  BY BlueFacts DEF MInv, SInv
<1>2. /\ Reach("BLUE", "SELL")' \in Int /\ Reach("BLUE", "BUY")' \in Int
      /\ \A id \in ClientIds : Left(id) \in Nat /\ Left(id)' \in Nat
  BY <1>1, NextReachType, StateFacts, TodoFacts
<1>3. BlueApart' => BlueApart
  BY DEF BlueApart
<1>4. \A id \in ClientIds : sent'[id].symbol = "BLUE" => /\ sent'[id] = sent[id] /\ Left(id)' <= Left(id)
                                                         /\ Left(id)' # 0 => Left(id) # 0
  BY <1>2 DEF Calm
<1>5. BlueLeast' = BlueLeast /\ BlueMost' = BlueMost /\ BlueLeast \in Int /\ BlueMost \in Int
  BY LimitFacts DEF BlueLeast, BlueMost
<1>6. RolesOf'
  BY <1>4 DEF MInv, BlueFollows, RolesOf
<1>7. OneEach'
  <2> SUFFICES ASSUME BlueApart', NEW i \in ClientIds, NEW j \in ClientIds, IsOut(i)', IsOut(j)', i # j
               PROVE  ~SamePurpose(sent'[i].role, sent'[j].role)
    BY DEF OneEach
  <2>1. IsOut(i) /\ IsOut(j) /\ sent'[i] = sent[i] /\ sent'[j] = sent[j]
    BY <1>4 DEF IsOut
  <2>2. QED BY <1>3, <2>1 DEF MInv, BlueFollows, OneEach
<1>8. Sizes'
  <2> SUFFICES ASSUME BlueApart', NEW id \in ClientIds, sent'[id].symbol = "BLUE"
               PROVE  /\ sent'[id].role \in {"bid", "ask"} => Left(id)' <= 1
                      /\ sent'[id].side = "BUY" => Left(id)' <= 0 - BlueLeast
    BY <1>5 DEF Sizes
  <2>1. sent'[id] = sent[id] /\ Left(id)' <= Left(id)
    BY <1>4
  <2>2. /\ sent[id].role \in {"bid", "ask"} => Left(id) <= 1
        /\ sent[id].side = "BUY" => Left(id) <= 0 - BlueLeast
    BY <1>3, <2>1 DEF MInv, BlueFollows, Sizes
  <2>3. QED BY <1>2, <1>5, <2>1, <2>2
<1>9. PosFloor'
  <2> SUFFICES ASSUME BlueApart'
               PROVE  /\ position["BLUE"] >= BlueLeast
                      /\ \A id \in ClientIds : sent'[id].symbol = "BLUE" /\ sent'[id].side = "SELL"
                                                  => position["BLUE"] - Left(id)' >= BlueLeast
    BY <1>5 DEF PosFloor
  <2>1. position["BLUE"] >= BlueLeast
    BY <1>3 DEF MInv, BlueFollows, PosFloor
  <2>2. ASSUME NEW id \in ClientIds, sent'[id].symbol = "BLUE", sent'[id].side = "SELL"
        PROVE  position["BLUE"] - Left(id)' >= BlueLeast
    <3>1. position["BLUE"] - Left(id) >= BlueLeast /\ Left(id)' <= Left(id)
      BY <1>3, <1>4, <2>2 DEF MInv, BlueFollows, PosFloor
    <3>2. QED BY <1>1, <1>2, <1>5, <3>1
  <2>3. QED BY <2>1, <2>2
<1>10. PosAtRead'
  <2> SUFFICES ASSUME BlueApart', pc'.at \in MmPlaces
               PROVE  pc'.pos >= BlueLeast /\ Reach("BLUE", "BUY")' <= pc'.pos + 1 - BlueLeast
    BY <1>5 DEF PosAtRead
  <2>1. /\ pc'.pos \in Int /\ pc'.pos >= BlueLeast
        /\ Reach("BLUE", "BUY") <= pc'.pos + 1 - BlueLeast
    <3>1. CASE pc.at \in MmPlaces /\ pc'.pos = pc.pos
      BY <1>1, <1>3, <3>1 DEF MInv, BlueFollows, PosAtRead
    <3>2. CASE pc'.pos = position["BLUE"]
      <4>1. position["BLUE"] >= BlueLeast
        BY <1>3 DEF MInv, BlueFollows, PosFloor
      <4>2. Reach("BLUE", "BUY") <= position["BLUE"] + 1 - BlueLeast
        BY <1>3, MostBought
      <4>3. QED BY <1>1, <3>2, <4>1, <4>2
    <3>3. QED BY <3>1, <3>2 DEF Steers
  <2>2. QED BY <1>1, <1>2, <1>5, <2>1
<1>11. BlueBounds'
  BY <1>1, <1>2, <1>5 DEF MInv, BlueFollows, BlueBounds
<1>12. QED BY <1>6, <1>7, <1>8, <1>9, <1>10, <1>11 DEF BlueFollows

\* A fill is read: one of a sell is of the only sell out.
LEMMA ReadKeepsBlue ==
    ASSUME MInv, PInv', pc' = pc, NEW a \in ClientIds, NEW n \in Nat, ReadsOf(a, n)
    PROVE  BlueFollows'
<1>1. /\ PInv /\ position["BLUE"] \in Int /\ (pc.at \in MmPlaces => pc.pos \in Int)
      /\ \A id \in ClientIds : /\ Left(id) \in Nat /\ Left(id)' \in Nat
                               /\ sent[id].symbol = "BLUE" => sent[id].role \in Roles
                                                              /\ sent[id].side \in Sides
  BY BlueFacts, NextReachType, TodoFacts DEF MInv, SInv
<1>2. /\ Calm("BLUE") /\ Reach("BLUE", "SELL")' = Reach("BLUE", "SELL")
      /\ Reach("BLUE", "BUY")' = Reach("BLUE", "BUY") /\ Left(a)' = Left(a) - n
  BY <1>1, ReadCalm
<1>3. UNCHANGED <<connected, overlapped, sent>>
  BY DEF ReadsOf
<1>4. BlueApart' = BlueApart /\ Apart("BLUE")' = Apart("BLUE")
  BY <1>3 DEF BlueApart, Apart
<1>5. \A id \in ClientIds : sent[id].symbol = "BLUE" => Left(id)' <= Left(id) /\ (Left(id)' # 0 => Left(id) # 0)
  BY <1>1, <1>2, <1>3 DEF Calm
<1>6. BlueLeast' = BlueLeast /\ BlueMost' = BlueMost /\ BlueLeast \in Int
  BY LimitFacts DEF BlueLeast, BlueMost
<1>7. RolesOf'
  BY <1>3 DEF MInv, BlueFollows, RolesOf
<1>8. OneEach'
  BY <1>3, <1>4, <1>5 DEF MInv, BlueFollows, OneEach, IsOut
<1>9. Sizes'
  <2> SUFFICES ASSUME BlueApart, NEW id \in ClientIds, sent[id].symbol = "BLUE"
               PROVE  /\ sent[id].role \in {"bid", "ask"} => Left(id)' <= 1
                      /\ sent[id].side = "BUY" => Left(id)' <= 0 - BlueLeast
    BY <1>3, <1>4, <1>6 DEF Sizes
  <2>1. /\ sent[id].role \in {"bid", "ask"} => Left(id) <= 1
        /\ sent[id].side = "BUY" => Left(id) <= 0 - BlueLeast
    BY DEF MInv, BlueFollows, Sizes
  <2>2. QED BY <1>1, <1>5, <1>6, <2>1
<1>10. PosFloor'
  <2> DEFINE q == position'["BLUE"]
             p == position["BLUE"]
  <2>1. /\ q = IF sent[a].symbol = "BLUE" THEN p + Signed(sent[a].side, n) ELSE p
        /\ p \in Int
    <3>1. position \in [Symbols -> Int] /\ "BLUE" \in Symbols
      BY <1>1, StateFacts, TodoFacts
    <3>2. CASE n = 0 /\ position' = position
      BY <1>1, <3>1, <3>2 DEF Signed
    <3>3. CASE position' = [position EXCEPT ![sent[a].symbol] = @ + Signed(sent[a].side, n)]
      BY <3>1, <3>3
    <3>4. QED BY <3>2, <3>3 DEF ReadsOf
  <2> SUFFICES ASSUME BlueApart
               PROVE  /\ q >= BlueLeast
                      /\ \A id \in ClientIds : sent[id].symbol = "BLUE" /\ sent[id].side = "SELL"
                                                  => q - Left(id)' >= BlueLeast
    BY <1>3, <1>4, <1>6 DEF PosFloor
  <2>2. /\ p >= BlueLeast
        /\ \A id \in ClientIds :
              sent[id].symbol = "BLUE" /\ sent[id].side = "SELL" => p - Left(id) >= BlueLeast
    BY DEF MInv, BlueFollows, PosFloor
  <2>3. CASE sent[a].symbol = "BLUE" /\ sent[a].side = "SELL" /\ n # 0
    <3>1. q = p - n
      BY <1>1, <2>1, <2>3 DEF Signed
    <3>2. p - Left(a) >= BlueLeast /\ Left(a) >= n /\ Left(a) # 0
      BY <1>1, <1>2, <2>2, <2>3
    <3>3. ASSUME NEW id \in ClientIds, sent[id].symbol = "BLUE", sent[id].side = "SELL"
          PROVE  q - Left(id)' >= BlueLeast
      <4>1. CASE id = a
        <5> HIDE DEF q, p
        <5>1. QED BY <1>1, <1>2, <1>6, <2>1, <3>1, <3>2, <4>1
      <4>2. CASE id # a
        <5>1. \A i \in {id, a} : sent[i].role \in {"ask", "arb"}
          BY <1>1, <2>3, <3>3 DEF MInv, BlueFollows, RolesOf, Roles
        <5>2. SamePurpose(sent[id].role, sent[a].role)
          BY <5>1 DEF SamePurpose
        <5>3. Left(id) = 0
          BY <2>3, <3>2, <3>3, <4>2, <5>2 DEF MInv, BlueFollows, OneEach, IsOut
        <5>4. Left(id)' = 0
          BY <1>5, <3>3, <5>3
        <5> HIDE DEF q, p
        <5>5. QED BY <1>1, <1>6, <2>1, <3>1, <3>2, <5>4
      <4>3. QED BY <4>1, <4>2
    <3>4. q >= BlueLeast
      <4> HIDE DEF q, p
      <4>1. QED BY <1>1, <1>6, <2>1, <3>1, <3>2
    <3>5. QED BY <3>3, <3>4
  <2>4. CASE ~(sent[a].symbol = "BLUE" /\ sent[a].side = "SELL" /\ n # 0)
    <3>1. q \in Int /\ q >= p
      <4>1. CASE sent[a].symbol = "BLUE"
        <5>1. q = p + Signed(sent[a].side, n) /\ Signed(sent[a].side, n) \in Nat
          BY <1>1, <2>1, <2>4, <4>1 DEF Signed, Sides
        <5>2. QED BY <1>1, <5>1
      <4>2. CASE sent[a].symbol # "BLUE"
        BY <1>1, <2>1, <4>2
      <4>3. QED BY <4>1, <4>2
    <3> HIDE DEF q, p
    <3>2. ASSUME NEW id \in ClientIds, sent[id].symbol = "BLUE", sent[id].side = "SELL"
          PROVE  q - Left(id)' >= BlueLeast
      <4>1. p - Left(id) >= BlueLeast /\ Left(id)' <= Left(id) /\ Left(id) \in Nat /\ Left(id)' \in Nat
        BY <1>1, <1>5, <2>2, <3>2
      <4>2. QED BY <1>6, <2>1, <3>1, <4>1
    <3>3. q >= BlueLeast
      BY <1>6, <2>1, <2>2, <3>1
    <3>4. QED BY <3>2, <3>3
  <2>5. QED BY <2>3, <2>4
<1>11. PosAtRead'
  BY <1>2, <1>4, <1>6 DEF MInv, BlueFollows, PosAtRead
<1>12. BlueBounds'
  BY <1>2, <1>4, <1>6 DEF MInv, BlueFollows, BlueBounds
<1>13. QED BY <1>7, <1>8, <1>9, <1>10, <1>11, <1>12 DEF BlueFollows

\* An order of BLUE is the only one out for its purpose, or BLUE overlaps.
LEMMA OrderKeepsBlue ==
    ASSUME MInv, PInv', BlueOrdered
    PROVE  BlueFollows'
<1> DEFINE WithinBlue(side, qty, role) ==
              \/ role = "bid" /\ side = "BUY" /\ qty = 1 /\ position["BLUE"] < MmLimit
              \/ role = "ask" /\ side = "SELL" /\ qty = 1 /\ position["BLUE"] > -MmLimit
              \/ role = "flatten" /\ side = "BUY" /\ qty = -pc.pos /\ pc.at = "mmFlatten"
              \/ role = "arb" /\ side = Closing("BLUE") /\ qty = Size(position["BLUE"])
           x == Reach("BLUE", "SELL")
           y == Reach("BLUE", "BUY")
           v == Reach("BLUE", "SELL")'
           w == Reach("BLUE", "BUY")'
           p == position["BLUE"]
           l == BlueLeast
<1>1. PICK side \in Sides, qty \in Qtys, role \in Roles :
         Ordered("BLUE", side, qty, role) /\ pc'.at \notin MmPlaces /\ WithinBlue(side, qty, role)
  BY DEF BlueOrdered
<1>2. /\ PInv /\ CInv' /\ FInv' /\ "BLUE" \in Symbols /\ p \in Int /\ x \in Int /\ y \in Int
      /\ (pc.at \in MmPlaces => pc.pos \in Int)
      /\ \A id \in ClientIds : /\ Left(id) \in Nat
                               /\ sent[id].symbol = "BLUE" => sent[id].role \in Roles
                                                              /\ sent[id].side \in Sides
  BY BlueFacts DEF MInv, SInv, PInv, BInv, AInv
<1>3. v \in Int /\ w \in Int /\ \A id \in ClientIds : Left(id)' \in Nat
  BY <1>2, NextReachType
<1>4. qty \in Int /\ qty >= 0
  BY BoundsAssumption DEF Qtys
<1>5. PICK a : a = lastId'
  OBVIOUS
<1>6. /\ Apart("BLUE")' => Apart("BLUE") /\ ~Outstanding("BLUE", role)
      /\ connected' = connected /\ a \in ClientIds
      /\ sent'[a].symbol = "BLUE" /\ sent'[a].side = side /\ sent'[a].role = role
      /\ connected /\ Apart("BLUE")' =>
            \A id \in ClientIds \ {a} :
                sent'[id].symbol = "BLUE" /\ SamePurpose(role, sent'[id].role) => Left(id)' = 0
      /\ \A id \in ClientIds \ {a} : sent'[id] = sent[id] /\ Left(id)' <= Left(id)
      /\ Left(a)' = executed'[a] + resting'[a]
  BY <1>1, <1>2, <1>5, OrderedCalm DEF Apart
<1>7. position' = position /\ executed'[a] + resting'[a] \in IF connected THEN {0, qty} ELSE {0}
  BY <1>1, <1>5 DEF Ordered
<1>8. PICK e, k : e = executed'[a] /\ k = executed'[a] + resting'[a]
  OBVIOUS
<1>9. /\ e \in Nat /\ k \in Nat
      /\ side = "BUY" => v >= x + e /\ w <= y + k
      /\ side = "SELL" => v >= x - k /\ w <= y
  BY <1>1, <1>2, <1>5, <1>8, ReachOrdered
<1>10. (k = 0 \/ (connected /\ k = qty)) /\ Left(a)' = k /\ k <= qty
  BY <1>4, <1>6, <1>7, <1>8
<1>11. BlueApart' => BlueApart /\ Apart("BLUE")'
  BY <1>6 DEF BlueApart
<1>12. BlueLeast' = BlueLeast /\ BlueMost' = BlueMost
  BY DEF BlueLeast, BlueMost
<1>13. ASSUME BlueApart
       PROVE  /\ p >= l
              /\ role = "arb" => /\ side = "SELL" => p > 0 /\ qty = p
                                 /\ side = "BUY" => p <= 0 /\ qty = 0 - p
              /\ role = "flatten" => /\ pc.pos \in Int /\ pc.pos >= l /\ qty = 0 - pc.pos
                                     /\ y <= pc.pos + 1 - l
  <2>1. p >= l
    BY <1>13 DEF MInv, BlueFollows, PosFloor
  <2>2. CASE role = "arb"
    <3>1. side = Closing("BLUE") /\ qty = Size(position["BLUE"])
      BY <1>1, <2>2
    <3>2. QED BY <1>2, <2>1, <2>2, <3>1, ClosingCovered
  <2>3. CASE role = "flatten"
    <3>1. qty = -pc.pos /\ pc.at \in MmPlaces
      BY <1>1, <2>3 DEF MmPlaces
    <3>2. pc.pos \in Int /\ pc.pos >= l /\ y <= pc.pos + 1 - l
      BY <1>2, <1>13, <3>1 DEF MInv, BlueFollows, PosAtRead
    <3>3. QED BY <2>1, <2>3, <3>1, <3>2
  <2>4. QED BY <2>1, <2>2, <2>3
<1>14. RolesOf'
  <2>1. /\ role \in {"bid", "flatten"} => side = "BUY"
        /\ role = "ask" => side = "SELL"
    BY <1>1
  <2>2. QED BY <1>6, <2>1 DEF MInv, BlueFollows, RolesOf
<1>15. OneEach'
  <2> SUFFICES ASSUME BlueApart', NEW i \in ClientIds, NEW j \in ClientIds, IsOut(i)', IsOut(j)', i # j
               PROVE  ~SamePurpose(sent'[i].role, sent'[j].role)
    BY DEF OneEach
  <2>1. sent'[i].symbol = "BLUE" /\ Left(i)' # 0 /\ sent'[j].symbol = "BLUE" /\ Left(j)' # 0
    BY DEF IsOut
  <2>2. CASE i = a \/ j = a
    BY <1>6, <1>11, <2>1, <2>2 DEF SamePurpose, BlueApart
  <2>3. CASE i # a /\ j # a
    <3>1. IsOut(i) /\ IsOut(j) /\ sent'[i] = sent[i] /\ sent'[j] = sent[j]
      BY <1>2, <1>3, <1>6, <2>1, <2>3 DEF IsOut
    <3>2. QED BY <1>11, <3>1 DEF MInv, BlueFollows, OneEach
  <2>4. QED BY <2>2, <2>3
<1>16. Sizes'
  <2> SUFFICES ASSUME BlueApart', NEW id \in ClientIds, sent'[id].symbol = "BLUE"
               PROVE  /\ sent'[id].role \in {"bid", "ask"} => Left(id)' <= 1
                      /\ sent'[id].side = "BUY" => Left(id)' <= 0 - BlueLeast
    BY <1>12 DEF Sizes
  <2>1. CASE id = a
    <3>1. role \in {"bid", "ask"} => qty = 1
      BY <1>1
    <3>2. side = "BUY" => role \in {"bid", "flatten", "arb"}
      BY <1>1
    <3>3. side = "BUY" => qty <= 0 - l
      <4> HIDE DEF p, l, y, WithinBlue
      <4>1. l \in Int /\ l <= 0 - 1
        BY LimitFacts DEF l
      <4>2. QED BY <1>2, <1>4, <1>11, <1>13, <3>1, <3>2, <4>1
    <3>4. sent'[id].role = role /\ sent'[id].side = side /\ Left(id)' <= qty
      BY <1>6, <1>10, <2>1
    <3>5. QED BY <1>3, <1>4, <3>1, <3>3, <3>4, LimitFacts
  <2>2. CASE id # a
    <3>1. sent'[id] = sent[id] /\ Left(id)' <= Left(id)
      BY <1>6, <2>2
    <3>2. /\ sent[id].role \in {"bid", "ask"} => Left(id) <= 1
          /\ sent[id].side = "BUY" => Left(id) <= 0 - BlueLeast
      BY <1>11, <3>1 DEF MInv, BlueFollows, Sizes
    <3>3. QED BY <1>2, <1>3, <3>1, <3>2, LimitFacts
  <2>3. QED BY <2>1, <2>2
<1>17. PosFloor'
  <2> SUFFICES ASSUME BlueApart'
               PROVE  /\ p >= l
                      /\ \A id \in ClientIds :
                            sent'[id].symbol = "BLUE" /\ sent'[id].side = "SELL" => p - Left(id)' >= l
    BY <1>7, <1>12 DEF PosFloor
  <2>1. p >= l
    BY <1>11, <1>13
  <2>2. ASSUME NEW id \in ClientIds, sent'[id].symbol = "BLUE", sent'[id].side = "SELL"
        PROVE  p - Left(id)' >= l
    <3>1. CASE id = a
      <4>1. side = "SELL" => role \in {"ask", "arb"}
        BY <1>1
      <4>2. role = "ask" => qty = 1 /\ p > 0 - MmLimit
        BY <1>1, LimitFacts
      <4>3. side = "SELL" /\ Left(id)' <= qty
        BY <1>6, <1>10, <2>2, <3>1
      <4> HIDE DEF p, l, y, WithinBlue
      <4>4. l \in Int /\ l <= 0 - MmLimit /\ MmLimit \in Int /\ MmLimit >= 1
        BY LimitFacts DEF l
      <4>5. qty <= p - l
        BY <1>2, <1>4, <1>11, <1>13, <4>1, <4>2, <4>3, <4>4
      <4>6. Left(id)' \in Nat
        BY <1>3
      <4>7. QED BY <1>2, <1>4, <4>3, <4>4, <4>5, <4>6
    <3>2. CASE id # a
      <4>1. sent'[id] = sent[id] /\ Left(id)' <= Left(id)
        BY <1>6, <3>2
      <4>2. p - Left(id) >= l
        BY <1>11, <2>2, <4>1 DEF MInv, BlueFollows, PosFloor
      <4> HIDE DEF p, l
      <4>3. l \in Int
        BY LimitFacts DEF l
      <4>4. QED BY <1>2, <1>3, <4>1, <4>2, <4>3
    <3>3. QED BY <3>1, <3>2
  <2>3. QED BY <2>1, <2>2
<1>18. PosAtRead'
  BY <1>1 DEF PosAtRead
<1>19. ASSUME Apart("BLUE")'
       PROVE  v >= BlueLeast /\ w <= BlueMost
  <2>1. Apart("BLUE") /\ x >= BlueLeast /\ y <= BlueMost
    BY <1>6, <1>19 DEF MInv, BlueFollows, BlueBounds
  <2>2. side \in {"BUY", "SELL"}
    BY DEF Sides
  <2>3. CASE k = 0
    <3> HIDE DEF x, y, v, w
    <3>1. v >= x /\ w <= y
      BY <1>2, <1>3, <1>9, <2>2, <2>3
    <3>2. QED BY <1>2, <1>3, <2>1, <3>1, LimitFacts
  <2>4. CASE connected /\ k = qty
    <3>1. BlueApart
      BY <2>1, <2>4 DEF BlueApart
    <3>2. \A id \in ClientIds : sent[id].symbol = "BLUE" /\ SamePurpose(role, sent[id].role) => Left(id) = 0
      BY <1>2, <1>6, <1>19, <2>4, NothingLeft
    <3>3. side = "SELL" => x >= p
      <4>1. SUFFICES ASSUME side = "SELL"
                     PROVE  \A id \in ClientIds : sent[id].symbol = "BLUE" /\ sent[id].side = "SELL" => Left(id) = 0
        BY <1>2, ReadIsLeast
      <4>2. role \in {"ask", "arb"}
        BY <1>1, <4>1
      <4>3. \A id \in ClientIds : sent[id].symbol = "BLUE" /\ sent[id].side = "SELL" =>
                                     sent[id].role \in {"ask", "arb"}
        BY <1>2 DEF MInv, BlueFollows, RolesOf, Roles
      <4>4. QED BY <3>2, <4>2, <4>3 DEF SamePurpose
    <3>4. role = "bid" => y <= p - l
      <4>1. role = "bid" => \A id \in ClientIds : IsOut(id) => sent[id].role \notin {"bid", "arb"}
        BY <3>2 DEF IsOut, SamePurpose
      <4>2. QED BY <3>1, <4>1, MostBought
    <3>5. role = "arb" => y <= p
      <4>1. role = "arb" => \A id \in ClientIds : ToBuy("BLUE", id) = 0
        BY <3>2 DEF ToBuy, SamePurpose
      <4>2. role = "arb" => y <= p + ToBuy("BLUE", a) + 0
        BY <1>2, <1>6, <4>1, ReadIsMost
      <4>3. role = "arb" => ToBuy("BLUE", a) = 0
        BY <1>6, <4>1
      <4> HIDE DEF y, p
      <4>4. QED BY <1>2, <4>2, <4>3
    <3>6. /\ side = "SELL" => (role = "ask" /\ qty = 1 /\ p > 0 - MmLimit) \/ role = "arb"
          /\ side = "BUY" => (role = "bid" /\ qty = 1 /\ p < MmLimit) \/ role \in {"flatten", "arb"}
      BY <1>1, LimitFacts
    <3>7. /\ role = "arb" => /\ side = "SELL" => p > 0 /\ qty = p
                             /\ side = "BUY" => p <= 0 /\ qty = 0 - p
          /\ role = "flatten" => /\ pc.pos \in Int /\ qty = 0 - pc.pos
                                 /\ y <= pc.pos + 1 - l
      BY <1>13, <3>1
    <3>8. /\ l \in Int /\ MmLimit \in Int /\ MmLimit >= 1 /\ BlueMost \in Int
          /\ l <= 0 - MmLimit /\ BlueMost >= MmLimit - l
      BY LimitFacts
    <3> HIDE DEF x, y, v, w, p, l, WithinBlue
    <3>9. side = "SELL" => v >= l /\ w <= y
      BY <1>2, <1>3, <1>9, <2>4, <3>3, <3>6, <3>7, <3>8
    <3>10. side = "BUY" => v >= x /\ w <= BlueMost
      <4>1. CASE side = "BUY" /\ role = "bid"
        BY <1>2, <1>3, <1>9, <2>4, <3>4, <3>6, <3>8, <4>1
      <4>2. CASE side = "BUY" /\ role = "flatten"
        BY <1>2, <1>3, <1>9, <2>4, <3>7, <3>8, <4>2
      <4>3. CASE side = "BUY" /\ role = "arb"
        BY <1>2, <1>3, <1>9, <2>4, <3>5, <3>7, <3>8, <4>3
      <4>4. QED BY <3>6, <4>1, <4>2, <4>3
    <3>11. x >= l
      BY <2>1 DEF l
    <3>12. v >= l /\ w <= BlueMost
      BY <1>2, <1>3, <2>1, <2>2, <3>8, <3>9, <3>10, <3>11
    <3>13. QED BY <3>12 DEF l
  <2>5. QED BY <1>10, <2>3, <2>4
<1>20. BlueBounds'
  BY <1>12, <1>19 DEF BlueBounds
<1>21. QED BY <1>14, <1>15, <1>16, <1>17, <1>18, <1>20 DEF BlueFollows

\* The inductive invariant of the market maker
LEMMA NextMInv == MInv /\ [ArbNext]_allVars => MInv'
<1> SUFFICES ASSUME MInv, [ArbNext]_allVars PROVE MInv'
  OBVIOUS
<1>1. SInv /\ SInv' /\ PInv /\ PInv' /\ Trades
  BY NextSInv, EveryStepTrades DEF MInv, SInv
<1>2. /\ "BLUE" \in Symbols /\ position["BLUE"] \in Int /\ CInv' /\ FInv'
      /\ Reach("BLUE", "SELL") \in Int /\ Reach("BLUE", "BUY") \in Int
  BY <1>1, BlueFacts DEF PInv, BInv, AInv
<1>3. CASE BlueOrdered
  BY <1>1, <1>3, OrderKeepsBlue DEF MInv
<1>4. CASE Steers /\ Quiet
  <2>1. /\ Shrinks /\ UNCHANGED <<sent, booked, lastId, overlapped, position>> /\ (connected' => connected)
    BY <1>4 DEF Quiet, maps, service
  <2>2. Calm("BLUE") /\ (Apart("BLUE")' => Apart("BLUE"))
    BY <1>1, <1>4, <2>1, QuietCalm DEF Apart
  <2>3. /\ Reach("BLUE", "SELL")' >= Reach("BLUE", "SELL") /\ Reach("BLUE", "BUY")' <= Reach("BLUE", "BUY")
    BY <1>1, <1>2, <2>1, ReachQuiet
  <2>4. QED BY <1>1, <1>4, <2>1, <2>2, <2>3, CalmKeepsBlue DEF MInv
<1>5. CASE Steers /\ OthersOrdered
  <2>1. PICK t \in Symbols \ {"BLUE"}, side \in Sides, qty \in Qtys : Ordered(t, side, qty, "arb")
    BY <1>5 DEF OthersOrdered
  <2>2. Calm("BLUE") /\ connected' = connected /\ (Apart("BLUE")' => Apart("BLUE"))
    BY <1>1, <1>2, <2>1, OrderedCalm DEF Apart
  <2>3. PICK e, k : e = executed'[lastId'] /\ k = executed'[lastId'] + resting'[lastId']
    OBVIOUS
  <2>4. /\ Reach("BLUE", "SELL")' >= Reach("BLUE", "SELL") /\ Reach("BLUE", "BUY")' <= Reach("BLUE", "BUY")
    BY <1>1, <1>2, <2>1, <2>3, ReachOrdered
  <2>5. position' = position
    BY <2>1 DEF Ordered
  <2>6. QED BY <1>1, <1>5, <2>2, <2>4, <2>5, CalmKeepsBlue DEF MInv
<1>6. CASE Steers /\ Called
  <2>1. PICK n \in Int : Served(n)
    BY <1>6 DEF Called
  <2>2. EtfEffect(n, "BLUE") = 0
    BY TodoFacts DEF EtfEffect
  <2>3. /\ Calm("BLUE") /\ UNCHANGED <<vars, maps>> /\ position'["BLUE"] = position["BLUE"]
        /\ Reach("BLUE", "SELL")' = Reach("BLUE", "SELL") /\ Reach("BLUE", "BUY")' = Reach("BLUE", "BUY")
    BY <1>1, <1>2, <2>1, <2>2, ServedCalm
  <2>4. connected' = connected /\ (Apart("BLUE")' => Apart("BLUE"))
    BY <2>3 DEF vars, exchange, maps, Apart
  <2>5. /\ Reach("BLUE", "SELL")' >= Reach("BLUE", "SELL") /\ Reach("BLUE", "BUY")' <= Reach("BLUE", "BUY")
    BY <1>2, <2>3
  <2>6. QED BY <1>1, <1>6, <2>3, <2>4, <2>5, CalmKeepsBlue DEF MInv
<1>7. CASE ReadAny
  <2>1. (\E a \in ClientIds, n \in Nat : ReadsOf(a, n)) /\ pc' = pc
    BY <1>1, <1>7, ReadIsOf DEF ReadAny, Callback
  <2>2. QED BY <1>1, <2>1, ReadKeepsBlue DEF MInv
<1>8. QED BY <1>1, <1>3, <1>4, <1>5, <1>6, <1>7 DEF Trades

LEMMA InitMInv == ArbInit => MInv
<1> SUFFICES ASSUME ArbInit PROVE MInv
  OBVIOUS
<1>1. /\ SInv /\ PInv /\ (\A id \in ClientIds : Left(id) = 0) /\ position = StartPosition
      /\ pc.at = "loop"
  BY InitSInv, InitNothingOut DEF SInv
<1>2. /\ "BLUE" \in Symbols /\ StartPosition["BLUE"] \in Int
      /\ Reach("BLUE", "SELL") \in Int /\ Reach("BLUE", "BUY") \in Int
  BY <1>1, BlueFacts, StartAssumption
<1>3. Reach("BLUE", "SELL") >= StartPosition["BLUE"]
  BY <1>1, <1>2, ReadIsLeast
<1>4. Reach("BLUE", "BUY") <= StartPosition["BLUE"]
  <2>1. 1 \in ClientIds /\ \A id \in ClientIds : ToBuy("BLUE", id) = 0
    BY <1>1, BoundsAssumption DEF ClientIds, ToBuy
  <2>2. Reach("BLUE", "BUY") <= position["BLUE"] + ToBuy("BLUE", 1) + 0
    BY <1>1, <1>2, <2>1, ReadIsMost
  <2>3. QED BY <1>1, <1>2, <2>1, <2>2
<1>5. BlueBounds
  BY <1>2, <1>3, <1>4, LimitFacts DEF BlueBounds
<1>6. RolesOf
  BY DEF RolesOf, ArbInit, Unused
<1>7. Sizes
  BY <1>1, LimitFacts DEF Sizes
<1>8. PosFloor
  BY <1>1, <1>2, LimitFacts DEF PosFloor
<1>9. OneEach /\ PosAtRead
  BY <1>1 DEF OneEach, IsOut, PosAtRead, MmPlaces
<1>10. QED BY <1>1, <1>5, <1>6, <1>7, <1>8, <1>9 DEF MInv, BlueFollows

LEMMA LimitInvariance == ArbSpec => []MInv
<1>1. QED BY InitMInv, NextMInv, PTL DEF ArbSpec

\* Quotes and flatten orders keep BLUE above -mm_limit at the exchange, not only in what the
\* bot has read, and below twice mm_limit, or where it started beyond, whether the bid, the
\* ask and the flatten order rest, fill or wait to be read, as long as no second order was
\* sent for the purpose of one that was out.
THEOREM BlueStaysWithinTwiceLimit == ArbSpec => []BlueWithinTwiceLimit
<1>1. MInv => BlueWithinTwiceLimit
  <2> SUFFICES ASSUME MInv, "BLUE" \notin overlapped
               PROVE  Holding("BLUE") \in BlueLeast .. BlueMost
    BY DEF BlueWithinTwiceLimit
  <2>1. PInv /\ Reach("BLUE", "SELL") >= BlueLeast /\ Reach("BLUE", "BUY") <= BlueMost
    BY DEF MInv, SInv, BlueFollows, BlueBounds, Apart
  <2>2. \A n : EtfEffect(n, "BLUE") = 0
    BY TodoFacts DEF EtfEffect
  <2>3. /\ Holding("BLUE") \in Int /\ Reach("BLUE", "SELL") <= Holding("BLUE")
        /\ Holding("BLUE") <= Reach("BLUE", "BUY")
    BY <2>1, <2>2, HeldBetween, TodoFacts
  <2>4. Reach("BLUE", "SELL") \in Int /\ Reach("BLUE", "BUY") \in Int
    BY <2>1, BlueFacts
  <2>5. QED BY <2>1, <2>3, <2>4, LimitFacts
<1>2. QED BY <1>1, LimitInvariance, PTL
=============================================================================
