------------------------------- MODULE ETFArb ------------------------------
(***************************************************************************)
(* The strategy thread: ETFArb::run_with_mm, the ETF arbitrage and the     *)
(* BLUE market maker in one loop, on top of the order-entry client.        *)
(*                                                                         *)
(* All it knows of its fills arrives through the client's fill callback,   *)
(* which runs inside whichever blocking call reads the message.  pc is     *)
(* where the thread is, with the locals that are alive there; a step of    *)
(* the thread runs up to the next blocking call of the client.             *)
(*                                                                         *)
(* Prices are left out: the books move while the thread runs, so every     *)
(* read of a price finds one or none, every look for an edge may find one  *)
(* for any quantity, and the PnL may be near its limit at any loop.        *)
(* External: the exchange (OEClient) and the ETF service, which may act    *)
(* and lose its reply.                                                     *)
(***************************************************************************)
EXTENDS OEClient, Integers

CONSTANTS
    DormIds,           \* DORM_IDS: the symbols of the basket, in order
    StartPosition,     \* what load_positions found
    PositionLimit,     \* POSITION_LIMIT, 9
    CoverAt,           \* 8: a dorm this far short is covered by an unwind
    SellAttempts,      \* 5: sends of UNDY after a creation
    MmLimit,           \* mm_limit, 7
    MaxLostReplies     \* bound on the replies of the ETF service that are lost

Dorms == Range(DormIds)
Symbols == Dorms \cup {"UNDY", "BLUE"}
AllIds == <<"BLUE">> \o DormIds \o <<"UNDY">>

ASSUME BasketAssumption ==
    /\ DormIds \in Seq(STRING \ {"UNDY", "BLUE"}) \ {<<>>}
    /\ IsInjective(DormIds)

ASSUME StartAssumption == StartPosition \in [Symbols -> Int]

ASSUME ArbLimitsAssumption ==
    /\ {PositionLimit, CoverAt, SellAttempts, MmLimit, MaxLostReplies} \subseteq Nat
    /\ MmLimit > 0

VARIABLES
    pc,
    position,          \* SymbolManager's position per symbol
    sent,              \* what each order id was drawn for
    routed,            \* ids in order_map_ or mm_order_map_
    arbInProgress,
    bidId, askId, flattenId,    \* blue_bid_id_, blue_ask_id_, blue_flatten_id
    etf,               \* external: UNDY created less redeemed by the service
    booked,            \* history: the same, as far as the bot was told
    lostReplies,       \* history: how many replies were lost
    overlapped         \* history: symbols with an order sent while another that serves
                       \* the same purpose was out

Unused == [symbol |-> "none", side |-> "none", role |-> "none"]

maps == <<sent, routed, overlapped>>
quotes == <<bidId, askId, flattenId>>
service == <<etf, booked, lostReplies>>
arbVars == <<pc, position, maps, arbInProgress, quotes, service>>
allVars == <<vars, arbVars>>

Signed(side, n) == IF side = "BUY" THEN n ELSE -n
Size(n) == IF n < 0 THEN -n ELSE n
Closing(s) == IF position[s] > 0 THEN "SELL" ELSE "BUY"

\* The loop with no local alive, and the market maker with blue_pos read
Loop == [at |-> "loop"]
ToMM == pc' = [at |-> "mmBid", pos |-> position["BLUE"]]
ToUnwind(then) == pc' = [at |-> "unwind", todo |-> DormIds, then |-> then]

\* The thread is outside the client, at this place
At(place) == pc.at = place /\ Free

ArbInit ==
    /\ Init
    /\ pc = Loop
    /\ position = StartPosition
    /\ sent = [id \in ClientIds |-> Unused] /\ routed = {} /\ overlapped = {}
    /\ arbInProgress = FALSE
    /\ bidId = 0 /\ askId = 0 /\ flattenId = 0
    /\ etf = 0 /\ booked = 0 /\ lostReplies = 0

-----------------------------------------------------------------------------
(* Orders and fills *)

\* BLUE's bid, ask and flatten order are meant to be out together; what the arbs and the
\* PnL guard send is meant to be alone.
SamePurpose(r, q) == q = r \/ "arb" \in {r, q}

\* An order of the symbol that serves the same purpose works at the exchange, or a fill
\* of one is unread
Outstanding(s, role) ==
    \E id \in 1 .. lastId :
        /\ sent[id].symbol = s /\ (resting[id] > 0 \/ UnreadFills(id) > 0)
        /\ SamePurpose(role, sent[id].role)

\* The order is in its map before it is sent, so that its fill finds it
Enter(s, side, role) ==
    /\ sent' = [sent EXCEPT ![lastId'] = [symbol |-> s, side |-> side, role |-> role]]
    /\ routed' = routed \cup {lastId'}
    /\ overlapped' = IF Outstanding(s, role) THEN overlapped \cup {s} ELSE overlapped

Place(s, side, qty, role, next) ==
    /\ lastId < MaxOrders /\ qty \in 1 .. MaxQty
    /\ SendNewOrder(lastId + 1, qty)
    /\ Enter(s, side, role)
    /\ pc' = next
    /\ UNCHANGED <<position, service>>

PlaceNoWait(s, side, qty, next) ==
    /\ lastId < MaxOrders /\ qty \in 1 .. MaxQty
    /\ SendNewOrderNoWait(lastId + 1, qty)
    /\ Enter(s, side, "arb")
    /\ pc' = next
    /\ UNCHANGED <<position, service, arbInProgress, quotes>>

\* Mutant: a partial fill takes its order out of the map
CallbackDropsPartial(m) ==
    LET order == sent[m.id]
        fills == m.type = "FILL" /\ m.id \in routed
    IN  /\ position' = IF fills
                       THEN [position EXCEPT ![order.symbol] = @ + Signed(order.side, m.qty)]
                       ELSE position
        /\ routed' = IF fills THEN routed \ {m.id} ELSE routed
        /\ UNCHANGED <<pc, sent, overlapped, arbInProgress, quotes, service>>

\* The callbacks that the constructor and main register.  A closed order leaves its
\* map; BLUE's own ids are cleared by a closing fill only.
Callback(m) ==
    LET order  == sent[m.id]
        fills  == m.type = "FILL" /\ m.id \in routed
        done   == fills /\ m.closed
        leaves == done \/ (m.type = "CLOSE" /\ order.role # "arb")
    IN  /\ position' = IF fills
                       THEN [position EXCEPT ![order.symbol] = @ + Signed(order.side, m.qty)]
                       ELSE position
        /\ routed' = IF leaves THEN routed \ {m.id} ELSE routed
        /\ bidId' = IF done /\ m.id = bidId THEN 0 ELSE bidId
        /\ askId' = IF done /\ m.id = askId THEN 0 ELSE askId
        /\ UNCHANGED <<pc, sent, overlapped, arbInProgress, flattenId, service>>

ReadAny ==
    /\ stream # <<>>
    /\ ReadResponse \/ \E late \in BOOLEAN : ReadFill(late)
    /\ Callback(Head(stream))

\* A step that neither calls the client nor moves a position
Stays == UNCHANGED <<vars, position, maps, service>>

Goes(next) == pc' = next /\ UNCHANGED <<position, maps, service, arbInProgress, quotes>>

-----------------------------------------------------------------------------
(* The ETF service *)

\* What n units created change in a symbol
EtfEffect(n, s) == IF s = "UNDY" THEN n ELSE IF s \in Dorms THEN -n ELSE 0

\* What we hold at the exchange and the service
Bought(s, count) ==
    SumFunction([id \in ClientIds |->
        IF sent[id].symbol = s THEN Signed(sent[id].side, count[id]) ELSE 0])
HeldIn(s, n, count) == StartPosition[s] + EtfEffect(n, s) + Bought(s, count)
Holding(s) == HeldIn(s, etf, executed)

\* Mutant: after a success the thread waits for fills that the service does not send
EtfCallUnbooked(n, good, bad) ==
    \E acted, told \in BOOLEAN :
        /\ told => acted
        /\ acted => \A s \in Symbols : EtfEffect(n, s) < 0 => Holding(s) + EtfEffect(n, s) >= 0
        /\ lostReplies' = IF acted /\ ~told THEN lostReplies + 1 ELSE lostReplies
        /\ lostReplies' <= MaxLostReplies
        /\ etf' = IF acted THEN etf + n ELSE etf
        /\ booked' = IF told THEN booked + n ELSE booked
        /\ pc' = IF told THEN good ELSE bad
        /\ UNCHANGED <<vars, position, maps, arbInProgress, quotes>>

\* create(n), or redeem(-n).  The service needs what it takes to be there.  Every
\* answer but a "success":true is a failure to the client, a lost reply included.
\* After a success the thread books what the service did, as fills of its own.
EtfCall(n, good, bad) ==
    \E acted, told \in BOOLEAN :
        /\ told => acted
        /\ acted => \A s \in Symbols : EtfEffect(n, s) < 0 => Holding(s) + EtfEffect(n, s) >= 0
        /\ lostReplies' = IF acted /\ ~told THEN lostReplies + 1 ELSE lostReplies
        /\ lostReplies' <= MaxLostReplies
        /\ etf' = IF acted THEN etf + n ELSE etf
        /\ booked' = IF told THEN booked + n ELSE booked
        /\ position' = IF told THEN [s \in Symbols |-> position[s] + EtfEffect(n, s)] ELSE position
        /\ pc' = IF told THEN good ELSE bad
        /\ UNCHANGED <<vars, maps, arbInProgress, quotes>>

-----------------------------------------------------------------------------
(* Arbitrage *)

Room(s) == PositionLimit - position[s]
RoomToSell(s) == PositionLimit + position[s]

\* creation_qty and redemption_qty, for books of any depth
CreationQty == {q \in 1 .. MaxQty : q <= RoomToSell("UNDY") /\ \A d \in Dorms : q <= Room(d)}
RedemptionQty == {q \in 1 .. MaxQty : q <= Room("UNDY") /\ \A d \in Dorms : q <= RoomToSell(d)}

StartCreation(qty) ==
    /\ At("loop") /\ ~arbInProgress
    /\ qty \in CreationQty
    /\ arbInProgress' = TRUE
    /\ pc' = [at |-> "buyLegs", todo |-> DormIds, qty |-> qty]
    /\ UNCHANGED quotes /\ Stays

BuyLeg ==
    /\ At("buyLegs")
    /\ PlaceNoWait(Head(pc.todo), "BUY", pc.qty,
                   IF Len(pc.todo) = 1 THEN [at |-> "collectLegs", qty |-> pc.qty, all |-> TRUE]
                                       ELSE [pc EXCEPT !.todo = Tail(@)])

\* Whether the answers collected so far were all good
AllGood == pc.all /\ (returned = None \/ returned.ok)

CollectLeg ==
    /\ At("collectLegs")
    /\ WaitForResponse
    /\ Goes([pc EXCEPT !.all = AllGood])

LegsCollected ==
    /\ At("collectLegs") /\ owed = <<>>
    /\ IF AllGood THEN pc' = [at |-> "poll", qty |-> pc.qty] ELSE ToUnwind("mm")
    /\ UNCHANGED <<arbInProgress, quotes>> /\ Stays

\* Polls positions for 5 s.  Nothing reads the stream meanwhile, so that they are as
\* they were when the legs had been collected.
PollFilled == \A d \in Dorms : position[d] >= pc.qty

Create ==
    /\ At("poll") /\ PollFilled
    /\ EtfCall(pc.qty, [at |-> "sellUndy", attempts |-> 0],
               [at |-> "unwind", todo |-> DormIds, then |-> "mm"])

PollTimeout ==
    /\ At("poll") /\ ~PollFilled
    /\ ToUnwind("clear")
    /\ UNCHANGED <<arbInProgress, quotes>> /\ Stays

UndyToSell == position["UNDY"] > 0 /\ pc.attempts < SellAttempts

\* Only when there is a bid; without one the thread sleeps and looks again
SellUndy ==
    /\ At("sellUndy") /\ UndyToSell
    /\ Place("UNDY", "SELL", position["UNDY"], "arb", [pc EXCEPT !.attempts = @ + 1])
    /\ UNCHANGED <<arbInProgress, quotes>>

UndySold ==
    /\ At("sellUndy") /\ ~UndyToSell
    /\ ToMM
    /\ UNCHANGED <<arbInProgress, quotes>> /\ Stays

StartRedemption(qty) ==
    /\ At("loop") /\ ~arbInProgress
    /\ qty \in RedemptionQty
    /\ arbInProgress' = TRUE
    /\ Place("UNDY", "BUY", qty, "arb", [at |-> "undySent", qty |-> qty])
    /\ UNCHANGED quotes

AwaitUndy ==
    /\ At("undySent") /\ returned.ok
    /\ WaitForFill(returned.id)
    /\ Goes([at |-> "undyFilled", qty |-> pc.qty])

AbandonRedemption ==
    /\ At("undySent") \/ At("undyFilled")
    /\ ~returned.ok
    /\ arbInProgress' = FALSE
    /\ ToMM
    /\ UNCHANGED quotes /\ Stays

Redeem ==
    /\ At("undyFilled") /\ returned.ok
    /\ EtfCall(-pc.qty, [at |-> "sellLegs", todo |-> DormIds, qty |-> pc.qty],
               [at |-> "mmBid", pos |-> position["BLUE"]])

SellLeg ==
    /\ At("sellLegs")
    /\ PlaceNoWait(Head(pc.todo), "SELL", pc.qty,
                   IF Len(pc.todo) = 1 THEN [at |-> "collect", then |-> "mm"]
                                       ELSE [pc EXCEPT !.todo = Tail(@)])

\* unwind_dorm_longs: sells what is held and covers what is far short, where there is
\* a price
UnwindNext ==
    IF Len(pc.todo) = 1 THEN [at |-> "collect", then |-> pc.then] ELSE [pc EXCEPT !.todo = Tail(@)]

Unwind ==
    /\ At("unwind")
    /\ LET d == Head(pc.todo)
       IN  \/ /\ position[d] > 0 \/ position[d] <= -CoverAt
              /\ PlaceNoWait(d, Closing(d), Size(position[d]), UnwindNext)
           \/ Goes(UnwindNext) /\ UNCHANGED vars

Collect ==
    /\ At("collect")
    /\ WaitForResponse
    /\ Goes(pc)

Collected ==
    /\ At("collect") /\ owed = <<>>
    /\ IF pc.then = "undy" THEN pc' = [at |-> "forceUndy"] ELSE ToMM
    /\ arbInProgress' = (arbInProgress /\ pc.then # "clear")
    /\ UNCHANGED quotes /\ Stays

ForceUndy ==
    /\ At("forceUndy")
    /\ \/ /\ position["UNDY"] > 0
          /\ Place("UNDY", "SELL", position["UNDY"], "arb", [at |-> "endArb"])
          /\ UNCHANGED <<arbInProgress, quotes>>
       \/ Goes([at |-> "endArb"]) /\ UNCHANGED vars

\* Mutant: the forced unwind leaves arb_in_progress_ set
EndArbStill ==
    /\ At("endArb")
    /\ ToMM
    /\ UNCHANGED <<arbInProgress, quotes>> /\ Stays

EndArb ==
    /\ At("endArb")
    /\ arbInProgress' = FALSE
    /\ ToMM
    /\ UNCHANGED quotes /\ Stays

\* Dorms may be short, and are bought back before the next arb
Flat == position["UNDY"] = 0 /\ \A d \in Dorms : position[d] <= 0

ArbFlat ==
    /\ At("loop") /\ arbInProgress /\ Flat
    /\ Goes([at |-> "residual", todo |-> DormIds]) /\ UNCHANGED vars

\* Sends the order that closes a position, if there is a price for it
CloseOut(next) ==
    LET s == Head(pc.todo)
    IN  \/ /\ position[s] # 0
           /\ Place(s, Closing(s), Size(position[s]), "arb", next)
           /\ UNCHANGED <<arbInProgress, quotes>>
        \/ Goes(next) /\ UNCHANGED vars

Residual ==
    /\ At("residual")
    /\ CloseOut(IF Len(pc.todo) = 1 THEN [at |-> "endArb"] ELSE [pc EXCEPT !.todo = Tail(@)])

\* 3 s after it began
ArbTimeout ==
    /\ At("loop") /\ arbInProgress /\ ~Flat
    /\ ToUnwind("undy")
    /\ UNCHANGED <<arbInProgress, quotes>> /\ Stays

\* No edge, or an arb that has neither ended nor run out of time
NoArb ==
    /\ At("loop") /\ (arbInProgress => ~Flat)
    /\ ToMM
    /\ UNCHANGED <<arbInProgress, quotes>> /\ Stays

-----------------------------------------------------------------------------
(* The PnL guard *)

\* Mutant: the id is forgotten and the order left alone
SafeForget(id, next) ==
    /\ UNCHANGED vars
    /\ pc' = next
    /\ UNCHANGED <<position, maps, service, arbInProgress>>

\* Deletes a quote, and forgets its id whatever the delete returned
SafeDelete(id, next) ==
    /\ IF id = 0 THEN UNCHANGED vars ELSE DeleteOrder(id)
    /\ pc' = next
    /\ UNCHANGED <<position, maps, service, arbInProgress>>

PnlGuard ==
    /\ At("loop")
    /\ SafeDelete(bidId, [at |-> "guardAsk"])
    /\ bidId' = 0 /\ UNCHANGED <<askId, flattenId>>

GuardAsk ==
    /\ At("guardAsk")
    /\ SafeDelete(askId, [at |-> "guardCancel"])
    /\ askId' = 0 /\ UNCHANGED <<bidId, flattenId>>

GuardCancel ==
    /\ At("guardCancel")
    /\ CancelAllOpenOrders
    /\ Goes([at |-> "guardFlatten", todo |-> AllIds])

GuardDelete(id) == CancelNext(id) /\ Goes(pc)

GuardFlatten ==
    /\ At("guardFlatten")
    /\ CloseOut(IF Len(pc.todo) = 1 THEN [at |-> "guardWait"] ELSE [pc EXCEPT !.todo = Tail(@)])

\* Looks once a second whether every position is zero, and does not read the stream
GuardResume ==
    /\ At("guardWait") /\ \A s \in Symbols : position[s] = 0
    /\ Goes(Loop) /\ UNCHANGED vars

-----------------------------------------------------------------------------
(* The BLUE market maker *)

MmBid ==
    /\ At("mmBid")
    /\ LET next == [pc EXCEPT !.at = "mmAsk"]
       IN  IF pc.pos >= MmLimit - 1
           THEN SafeDelete(bidId, next) /\ bidId' = 0 /\ UNCHANGED <<askId, flattenId>>
           ELSE Goes(next) /\ UNCHANGED vars

MmAsk ==
    /\ At("mmAsk")
    /\ LET next == [pc EXCEPT !.at = "mmFlatten"]
       IN  IF pc.pos <= -(MmLimit - 1)
           THEN SafeDelete(askId, next) /\ askId' = 0 /\ UNCHANGED <<bidId, flattenId>>
           ELSE Goes(next) /\ UNCHANGED vars

\* Mutant: the flatten order overshoots by one
MmFlattenOneMore ==
    /\ At("mmFlatten")
    /\ \/ /\ pc.pos < 0 /\ flattenId = 0
          /\ Place("BLUE", "BUY", 1 - pc.pos, "flatten", [at |-> "mmQuote"])
          /\ flattenId' = lastId'
          /\ UNCHANGED <<arbInProgress, bidId, askId>>
       \/ /\ pc' = [at |-> "mmQuote"]
          /\ flattenId' = IF pc.pos >= 0 THEN 0 ELSE flattenId
          /\ UNCHANGED <<arbInProgress, bidId, askId>> /\ Stays

\* For the position read before the two deletes, if there is an ask
MmFlatten ==
    /\ At("mmFlatten")
    /\ \/ /\ pc.pos < 0 /\ flattenId = 0
          /\ Place("BLUE", "BUY", -pc.pos, "flatten", [at |-> "mmQuote"])
          /\ flattenId' = lastId'
          /\ UNCHANGED <<arbInProgress, bidId, askId>>
       \/ /\ pc' = [at |-> "mmQuote"]
          /\ flattenId' = IF pc.pos >= 0 THEN 0 ELSE flattenId
          /\ UNCHANGED <<arbInProgress, bidId, askId>> /\ Stays

\* The mid price has not moved, or one side of the book is empty
MmKeep == At("mmQuote") /\ Goes(Loop) /\ UNCHANGED vars

MmMove ==
    /\ At("mmQuote") /\ ~arbInProgress
    /\ SafeDelete(bidId, [at |-> "mmMoveAsk"])
    /\ bidId' = 0 /\ UNCHANGED <<askId, flattenId>>

MmMoveAsk ==
    /\ At("mmMoveAsk")
    /\ SafeDelete(askId, [at |-> "mmQuoteBid"])
    /\ askId' = 0 /\ UNCHANGED <<bidId, flattenId>>

QuoteBid ==
    /\ At("mmQuoteBid")
    /\ IF position["BLUE"] < MmLimit
       THEN /\ Place("BLUE", "BUY", 1, "bid", [at |-> "mmQuoteAsk"])
            /\ bidId' = lastId'
            /\ UNCHANGED <<arbInProgress, askId, flattenId>>
       ELSE Goes([at |-> "mmQuoteAsk"]) /\ UNCHANGED vars

QuoteAsk ==
    /\ At("mmQuoteAsk")
    /\ IF position["BLUE"] > -MmLimit
       THEN /\ Place("BLUE", "SELL", 1, "ask", Loop)
            /\ askId' = lastId'
            /\ UNCHANGED <<arbInProgress, bidId, flattenId>>
       ELSE Goes(Loop) /\ UNCHANGED vars


-----------------------------------------------------------------------------
(* The loop *)

Arbitrage ==
    \/ \E qty \in 1 .. MaxQty : StartCreation(qty) \/ StartRedemption(qty)
    \/ BuyLeg \/ CollectLeg \/ LegsCollected \/ Create \/ PollTimeout \/ UndySold
    \/ AwaitUndy \/ AbandonRedemption \/ Redeem \/ SellLeg
    \/ Unwind \/ Collect \/ Collected \/ ForceUndy \/ EndArb
    \/ ArbFlat \/ Residual \/ NoArb

Guard ==
    \/ PnlGuard \/ GuardAsk \/ GuardCancel \/ GuardFlatten \/ GuardResume
    \/ \E id \in ClientIds : GuardDelete(id)

MarketMaker ==
    \/ MmBid \/ MmAsk \/ MmFlatten \/ MmKeep \/ MmMove \/ MmMoveAsk \/ QuoteBid \/ QuoteAsk

Reads == ReadAny \/ (ReadFails /\ UNCHANGED arbVars)

Environment ==
    /\ Disconnect \/ \E id \in ClientIds, qty \in 1 .. MaxQty : ExchangeFills(id, qty)
    /\ UNCHANGED arbVars

ArbNext == Arbitrage \/ SellUndy \/ ArbTimeout \/ Guard \/ MarketMaker \/ Reads \/ Environment

ArbSpec == ArbInit /\ [][ArbNext]_allVars

\* The thread goes on wherever it can, recv returns what has arrived, and the 3 s of
\* an arb pass
FairArbSpec ==
    /\ ArbSpec
    /\ WF_allVars(Reads)
    /\ WF_allVars(Arbitrage \/ Guard \/ MarketMaker)
    /\ SF_allVars(ArbTimeout)

-----------------------------------------------------------------------------
(* Properties *)

\* Every variable keeps its type
ArbTypeOK ==
    /\ TypeOK
    /\ position \in [Symbols -> Int]
    /\ \A id \in ClientIds : sent[id] # Unused => id <= lastId /\ sent[id].symbol \in Symbols
    /\ routed \subseteq 1 .. lastId
    /\ arbInProgress \in BOOLEAN
    /\ {bidId, askId, flattenId} \subseteq 0 .. lastId
    /\ etf \in Int /\ booked \in Int /\ lostReplies \in 0 .. MaxLostReplies
    /\ overlapped \subseteq Symbols

\* A position misses exactly the fills still unread in the stream, and what the
\* service did without the bot learning of it.
PositionsAreAccounted ==
    connected => \A s \in Symbols :
        Holding(s) = position[s] + EtfEffect(etf - booked, s)
                         + Bought(s, [id \in ClientIds |-> UnreadFills(id)])

\* No quote of the market maker works at the exchange without the loop knowing it
QuotesAreTracked ==
    connected => \A id \in ClientIds :
        resting[id] > 0 => /\ sent[id].role = "bid" => id = bidId
                           /\ sent[id].role = "ask" => id = askId

Lesser(a, b) == IF a < b THEN a ELSE b
Greater(a, b) == IF a < b THEN b ELSE a

\* The bot never sells a dorm or UNDY that it does not hold, whatever its legs did,
\* unless it sent an order for the symbol while an earlier one was still out (it
\* counts only what it has read), or the service acted without the bot learning of it.
\* A start that was short gets no shorter.
NeverOversold ==
    \A s \in Symbols \ {"BLUE"} :
        s \notin overlapped /\ etf = booked => Holding(s) >= Lesser(0, StartPosition[s])

\* How far below and above zero BLUE may get.  -BlueLeast is the most a flatten order buys
BlueLeast == Lesser(-MmLimit, StartPosition["BLUE"])
BlueMost == Greater(MmLimit - BlueLeast, StartPosition["BLUE"])

\* BLUE stays above -mm_limit at the exchange, not only in what the bot has read, and
\* below twice mm_limit, or where it started beyond.  Quotes are held against the
\* position that was read: a flatten order that rests, its id kept or forgotten, does
\* not count, and makes the second mm_limit of the bound when the bids fill first.  Bid,
\* ask and flatten order are out together; the reservation is of a second bid, ask or
\* flatten order sent while a fill of the last one is unread (or, for a flatten order,
\* while the forgotten one rests), and of an order of the PnL guard beside any other.
BlueWithinTwiceLimit == "BLUE" \notin overlapped => Holding("BLUE") \in BlueLeast .. BlueMost

\* What may hold an arb up for ever: a wait for a fill that was read before it began, no
\* bid for UNDY, the PnL guard, and the bound on order ids
HeldUp ==
    \/ waiting.op = "fill"
    \/ pc.at \in {"sellUndy", "guardAsk", "guardCancel", "guardFlatten", "guardWait"}
    \/ lastId = MaxOrders

\* No arb lasts for ever otherwise: whichever leg failed or rests, arb_in_progress_ is
\* cleared, so that arbs and requotes go on.
ArbsEnd == []<>(~arbInProgress \/ HeldUp)

\* "Flat — resuming" (etf_arb.cpp:478): once everything is sold the guard
\* ends.  It fails: the wait reads positions, but not the stream that would change them.
GuardResumes ==
    connected /\ At("guardWait") /\ (\A s \in Symbols : Holding(s) = 0)
        ~> pc.at # "guardWait"
=============================================================================
