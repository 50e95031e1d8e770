------------------------------ MODULE Listener -----------------------------
(***************************************************************************)
(* The market-data thread: run_listener with the books it feeds.           *)
(*                                                                         *)
(* The venue is external.  It sends every change of its book on the live   *)
(* feed, and snapshots of whole symbols and heartbeats on the replay feed. *)
(* The feeds are UDP multicast: a live packet can be lost, and the two     *)
(* feeds are read in no particular order with respect to each other.       *)
(*                                                                         *)
(* feed is the history of the live messages; live messages are named by    *)
(* their place in it, on the wire and in the buffer.  The listener itself  *)
(* never looks at sequence numbers.                                        *)
(***************************************************************************)
EXTENDS OrderBook, Sequences, SequencesExt

CONSTANTS
    OrderIds, Symbols,
    Info,            \* the orders the venue has: side, quantity and price
    MaxMessages,     \* bound on the live messages
    MaxReplays,      \* bound on the messages of the replay feed
    MaxLost,         \* bound on the live packets lost
    MaxBuffer,       \* 100000 in the code
    QuietPolls       \* 100 in the code: silent polls before the switch to live

ASSUME BoundsAssumption ==
    {MaxMessages, MaxReplays, MaxLost, MaxBuffer, QuietPolls} \subseteq Nat

\* Order ids are words of a fixed width
ASSUME FiniteIdsAssumption == IsFiniteSet(OrderIds)

\* An exchange's orders have a quantity and a price; handle_new_order checks both
ASSUME InfoAssumption == Info \subseteq [side : Side, qty : Nat \ {0}, price : Nat \ {0}]

VARIABLES
    venue,              \* external: resting orders by id
    venueSymbol,        \* external: the symbol of each id ever used
    feed,               \* external history: the live messages sent
    replay,             \* external: replay messages sent and not yet read
    replays,            \* external: how many were sent
    liveRead,           \* live messages taken off the wire, in order
    lost,               \* history: the live messages that never arrived
    books, orderToSymbol, liveBuffer, caughtUp, receivedSnapshot, noReplayCount,
    stopped,            \* run_listener has returned
    included,           \* history: live messages contained in a symbol's last snapshot
    doubtful            \* history: orders with a message lost, undone or applied twice

venueVars == <<venue, venueSymbol, feed, replay, replays>>
bookVars == <<books, orderToSymbol>>
modeVars == <<caughtUp, receivedSnapshot, noReplayCount, stopped>>
vars == <<venueVars, liveRead, lost, bookVars, liveBuffer, modeVars, included, doubtful>>

-----------------------------------------------------------------------------
(* The venue *)

Publish(m) ==
    /\ Len(feed) < MaxMessages
    /\ feed' = Append(feed, m)
    /\ UNCHANGED <<replay, replays, liveRead, lost, bookVars, liveBuffer, modeVars, included, doubtful>>

VenueNew(id, symbol, info) ==
    /\ id \notin DOMAIN venueSymbol
    /\ venue' = Put(venue, id, info)
    /\ venueSymbol' = Put(venueSymbol, id, symbol)
    /\ Publish([type |-> "NEW_ORDER", id |-> id, symbol |-> symbol, info |-> info])

VenueDelete(id) ==
    /\ id \in DOMAIN venue
    /\ venue' = Without(venue, id)
    /\ UNCHANGED venueSymbol
    /\ Publish([type |-> "DELETE_ORDER", id |-> id])

VenueModify(id, info) ==
    /\ id \in DOMAIN venue
    /\ venue' = Put(venue, id, info)
    /\ UNCHANGED venueSymbol
    /\ Publish([type |-> "MODIFY_ORDER", id |-> id, info |-> info])

VenueTrade(id, qty) ==
    /\ id \in DOMAIN venue
    /\ qty \in 1 .. venue[id].qty
    /\ venue' = IF qty = venue[id].qty THEN Without(venue, id) ELSE [venue EXCEPT ![id].qty = @ - qty]
    /\ UNCHANGED venueSymbol
    /\ Publish([type |-> "TRADE", id |-> id, qty |-> qty])

Replays(m) ==
    /\ replays < MaxReplays
    /\ replays' = replays + 1
    /\ replay' = Append(replay, m)
    /\ UNCHANGED <<venue, venueSymbol, feed, liveRead, lost, bookVars, liveBuffer, modeVars,
                   included, doubtful>>

VenueSnapshot(symbols) ==
    Replays([type |-> "SNAPSHOT", symbols |-> symbols, seq |-> Len(feed),
             orders |-> Restrict(venue, {id \in DOMAIN venue : venueSymbol[id] \in symbols})])

VenueHeartbeat == Replays([type |-> "HEARTBEAT"])

LoseLive ==
    /\ liveRead < Len(feed)
    /\ Cardinality(lost) < MaxLost
    /\ liveRead' = liveRead + 1
    /\ lost' = lost \cup {liveRead + 1}
    /\ doubtful' = doubtful \cup {feed[liveRead + 1].id}
    /\ UNCHANGED <<venueVars, bookVars, liveBuffer, modeVars, included>>

-----------------------------------------------------------------------------
(* Dispatch *)

\* What the listener's two maps are
State == [books |-> books, route |-> orderToSymbol]

\* Mutant: a deleted order's route is kept and its book is not told
DispatchLosesDelete(s, m) ==
    IF m.type = "NEW_ORDER"
    THEN [books |-> [s.books EXCEPT ![m.symbol] = HandleNewOrder(@, m.id, m.info)],
          route |-> Put(s.route, m.id, m.symbol)]
    ELSE IF m.id \notin DOMAIN s.route
    THEN s
    ELSE CASE m.type = "DELETE_ORDER" -> [s EXCEPT !.route = Without(@, m.id)]
           [] m.type = "MODIFY_ORDER" ->
                [s EXCEPT !.books[s.route[m.id]] = HandleModifyOrder(@, m.id, m.info)]
           [] m.type = "TRADE" ->
                [s EXCEPT !.books[s.route[m.id]] = HandleTrade(@, m.id, m.qty)]

\* The four dispatch helpers: messages for ids without a route are dropped
Dispatch(s, m) ==
    IF m.type = "NEW_ORDER"
    THEN [books |-> [s.books EXCEPT ![m.symbol] = HandleNewOrder(@, m.id, m.info)],
          route |-> Put(s.route, m.id, m.symbol)]
    ELSE IF m.id \notin DOMAIN s.route
    THEN s
    ELSE CASE m.type = "DELETE_ORDER" ->
                [books |-> [s.books EXCEPT ![s.route[m.id]] = HandleDeleteOrder(@, m.id)],
                 route |-> Without(s.route, m.id)]
           [] m.type = "MODIFY_ORDER" ->
                [s EXCEPT !.books[s.route[m.id]] = HandleModifyOrder(@, m.id, m.info)]
           [] m.type = "TRADE" ->
                [s EXCEPT !.books[s.route[m.id]] = HandleTrade(@, m.id, m.qty)]

Becomes(s) == books' = s.books /\ orderToSymbol' = s.route

\* Message i again, where the last snapshot contains it: a trade counts twice, and any
\* message undoes what a lost later one had done
Doubts(set, i) ==
    LET id        == feed[i].id
        again     == included[venueSymbol[id]]
        lostLater == \E j \in lost : feed[j].id = id /\ j \in i .. again
    IN  IF i <= again /\ (feed[i].type = "TRADE" \/ lostLater) THEN set \cup {id} ELSE set

-----------------------------------------------------------------------------
(* The loop *)

\* The listener joins a venue that may have an order already
Init ==
    /\ \E info \in Info, id \in OrderIds, symbol \in Symbols :
          \/ venue = EmptyMap /\ venueSymbol = EmptyMap
          \/ venue = Put(EmptyMap, id, info) /\ venueSymbol = Put(EmptyMap, id, symbol)
    /\ feed = <<>> /\ replay = <<>> /\ replays = 0
    /\ liveRead = 0 /\ lost = {}
    /\ books = [s \in Symbols |-> EmptyBook]
    /\ orderToSymbol = EmptyMap
    /\ liveBuffer = <<>>
    /\ caughtUp = FALSE /\ receivedSnapshot = FALSE /\ noReplayCount = 0 /\ stopped = FALSE
    /\ included = [s \in Symbols |-> -1]
    /\ doubtful = {}

NextLive == liveRead + 1

\* Mutant: nothing stops the buffer
BufferLiveForever ==
    /\ ~stopped /\ ~caughtUp
    /\ liveRead < Len(feed)
    /\ liveRead' = NextLive
    /\ liveBuffer' = Append(liveBuffer, NextLive)
    /\ UNCHANGED <<venueVars, lost, bookVars, modeVars, included, doubtful>>

\* Until the switch live packets are only kept; too many end the thread
BufferLive ==
    /\ ~stopped /\ ~caughtUp
    /\ liveRead < Len(feed)
    /\ liveRead' = NextLive
    /\ IF Len(liveBuffer) > MaxBuffer
       THEN stopped' = TRUE /\ UNCHANGED liveBuffer
       ELSE liveBuffer' = Append(liveBuffer, NextLive) /\ UNCHANGED stopped
    /\ UNCHANGED <<venueVars, lost, bookVars, caughtUp, receivedSnapshot, noReplayCount,
                   included, doubtful>>

ApplyLive ==
    /\ ~stopped /\ caughtUp
    /\ liveRead < Len(feed)
    /\ liveRead' = NextLive
    /\ Becomes(Dispatch(State, feed[NextLive]))
    /\ noReplayCount' = 0
    /\ doubtful' = Doubts(doubtful, NextLive)
    /\ UNCHANGED <<venueVars, lost, liveBuffer, caughtUp, receivedSnapshot, stopped, included>>

ReadHeartbeat ==
    /\ ~stopped
    /\ replay # <<>> /\ Head(replay).type = "HEARTBEAT"
    /\ replay' = Tail(replay)
    /\ noReplayCount' = 0
    /\ UNCHANGED <<venue, venueSymbol, feed, replays, liveRead, lost, bookVars, liveBuffer,
                   caughtUp, receivedSnapshot, stopped, included, doubtful>>

\* Mutant: the books keep the orders that are not in the snapshot
ResetRoutes(symbols) ==
    [books |-> books,
     route |-> Restrict(orderToSymbol, {id \in DOMAIN orderToSymbol : orderToSymbol[id] \notin symbols})]

\* The books of symbols without their orders, and the routes without theirs
ResetBooks(symbols) ==
    [books |-> [s \in Symbols |-> IF s \in symbols THEN EmptyBook ELSE books[s]],
     route |-> Restrict(orderToSymbol, {id \in DOMAIN orderToSymbol : orderToSymbol[id] \notin symbols})]

\* It puts its symbols right, but undoes what was applied from the live feed after the
\* venue took it
ReadSnapshot ==
    /\ ~stopped
    /\ replay # <<>> /\ Head(replay).type = "SNAPSHOT"
    /\ replay' = Tail(replay)
    /\ LET m == Head(replay)
           place(s, id) == Dispatch(s, [type |-> "NEW_ORDER", id |-> id,
                                        symbol |-> venueSymbol[id], info |-> m.orders[id]])
           ours(id) == venueSymbol[id] \in m.symbols
           later  == IF caughtUp THEN m.seq + 1 .. liveRead ELSE {i \in lost : i > m.seq}
           undone == {feed[i].id : i \in later}
       IN  /\ Becomes(FoldLeft(place, ResetBooks(m.symbols), SetToSeq(DOMAIN m.orders)))
           /\ included' = [s \in Symbols |-> IF s \in m.symbols THEN m.seq ELSE included[s]]
           /\ doubtful' = {id \in doubtful \cup undone : ours(id) => id \in undone}
    /\ receivedSnapshot' = TRUE /\ noReplayCount' = 0
    /\ UNCHANGED <<venue, venueSymbol, feed, replays, liveRead, lost, liveBuffer, caughtUp, stopped>>

\* What was kept, in the order it came
Drain == FoldLeft(LAMBDA s, i : Dispatch(s, feed[i]), State, liveBuffer)

\* 10 ms without a packet on either feed; enough of them, and all that was kept is
\* applied at once
QuietPoll ==
    /\ ~stopped /\ ~caughtUp /\ receivedSnapshot
    /\ liveRead = Len(feed) /\ replay = <<>>
    /\ noReplayCount' = noReplayCount + 1
    /\ IF noReplayCount' > QuietPolls
       THEN /\ caughtUp' = TRUE
            /\ Becomes(Drain)
            /\ doubtful' = FoldLeft(Doubts, doubtful, liveBuffer)
            /\ liveBuffer' = <<>>
       ELSE UNCHANGED <<caughtUp, bookVars, doubtful, liveBuffer>>
    /\ UNCHANGED <<venueVars, liveRead, lost, receivedSnapshot, stopped, included>>

Venue ==
    \/ \E id \in OrderIds, info \in Info :
          VenueModify(id, info) \/ \E symbol \in Symbols : VenueNew(id, symbol, info)
    \/ \E id \in OrderIds : VenueDelete(id) \/ \E qty \in {info.qty : info \in Info} : VenueTrade(id, qty)
    \/ \E symbols \in SUBSET Symbols \ {{}} : VenueSnapshot(symbols)
    \/ VenueHeartbeat

Network == LoseLive

Loop == BufferLive \/ ApplyLive \/ ReadHeartbeat \/ ReadSnapshot \/ QuietPoll

Next == Venue \/ Network \/ Loop

Spec == Init /\ [][Next]_vars

-----------------------------------------------------------------------------
(* Properties *)

\* The maps and counters keep their types, the buffer its limit, and no book holds an
\* order with nothing left.
TypeOK ==
    /\ DOMAIN venue \subseteq DOMAIN venueSymbol
    /\ liveRead \in 0 .. Len(feed)
    /\ lost \subseteq 1 .. liveRead
    /\ \A s \in Symbols : \A id \in DOMAIN books[s].orders : books[s].orders[id].qty > 0
    /\ \A id \in DOMAIN orderToSymbol : orderToSymbol[id] \in Symbols
    /\ Len(liveBuffer) <= MaxBuffer + 1
    /\ noReplayCount \in 0 .. QuietPolls + 1
    /\ {caughtUp, receivedSnapshot, stopped} \subseteq BOOLEAN
    /\ doubtful \subseteq OrderIds

\* The levels, kept incrementally and the only thing the strategy sees, are those of
\* the orders of the book, whatever was repeated, lost, undone or traded too much.
LevelsMatchOrders ==
    \A s \in Symbols, side \in Side :
        books[s].levels[side] = LevelOfOrders(books[s], side)

\* Every booked order can be found by the messages that would change or remove it,
\* and no order is booked under two symbols.
BookedOrdersAreRouted ==
    \A s \in Symbols : \A id \in DOMAIN books[s].orders :
        id \in DOMAIN orderToSymbol /\ orderToSymbol[id] = s

\* An id of a symbol with a snapshot, all of whose messages count once
Trusted(id) == included[venueSymbol[id]] >= 0 /\ id \notin doubtful

BookHas(id, info) ==
    LET orders == books[venueSymbol[id]].orders
    IN  id \in DOMAIN orders /\ orders[id] = info

BookLacks(id) == id \notin DOMAIN books[venueSymbol[id]].orders

Agrees(id) == IF id \in DOMAIN venue THEN BookHas(id, venue[id]) ELSE BookLacks(id)

UpToDate == caughtUp /\ liveRead = Len(feed)

\* Once live and with nothing unread, the book has every order as the venue has it,
\* except where a trade contained in the snapshot was applied again, a late snapshot
\* undid what was applied, or a packet was lost: repeated new orders, modifies and
\* deletes of the overlap between snapshot and buffer do no harm.
TrustedOrdersAgree ==
    UpToDate => \A id \in DOMAIN venueSymbol : Trusted(id) => Agrees(id)

\* "Caught up" (listener.cpp): with no packet lost, a listener that is live and has
\* read everything has the venue's orders.  It fails: the drain applies buffered
\* trades that the snapshot already contains, because last_md_seq_num is not used.
CaughtUpMeansUpToDate ==
    UpToDate /\ lost = {} =>
        \A id \in DOMAIN venueSymbol : included[venueSymbol[id]] >= 0 => Agrees(id)
=============================================================================
