----------------------------- MODULE OrderBook -----------------------------
(***************************************************************************)
(* One symbol's book: its orders by id and, per side, the quantity at each *)
(* price.  The two are updated separately by every handler, and only the   *)
(* levels are read for the top of book.  A handler is an operator from a   *)
(* book to a book; Listener.tla calls them as the market data arrives.     *)
(* last_seq_num_ is written and never read, and is left out.               *)
(***************************************************************************)
EXTENDS Integers, FiniteSets, Functions

Side == {"BUY", "SELL"}

\* Maps that hold only what was put into them
EmptyMap == [k \in {} |-> 0]
Put(map, k, v) == [j \in DOMAIN map \cup {k} |-> IF j = k THEN v ELSE map[j]]
Without(map, k) == Restrict(map, DOMAIN map \ {k})

EmptyBook == [orders |-> EmptyMap, levels |-> [s \in Side |-> EmptyMap]]

AddToPriceLevel(levels, side, price, qty) ==
    LET old == levels[side]
    IN  [levels EXCEPT ![side] = Put(old, price, IF price \in DOMAIN old THEN old[price] + qty ELSE qty)]

\* Also where more is removed than the level holds, the level goes
RemoveFromPriceLevel(levels, side, price, qty) ==
    LET old == levels[side]
    IN  IF price \notin DOMAIN old
        THEN levels
        ELSE [levels EXCEPT ![side] =
                IF old[price] <= qty THEN Without(old, price) ELSE [old EXCEPT ![price] = @ - qty]]

\* The levels without what is left of an order
WithdrawFrom(book, id) ==
    LET info == book.orders[id]
    IN  RemoveFromPriceLevel(book.levels, info.side, info.price, info.qty)

\* Mutant: a repeated id is added to its level once more
HandleNewOrderTwice(book, id, info) ==
    IF info.qty = 0 \/ info.price < 0
    THEN book
    ELSE [orders |-> Put(book.orders, id, info),
          levels |-> AddToPriceLevel(book.levels, info.side, info.price, info.qty)]

HandleNewOrder(book, id, info) ==
    IF id \in DOMAIN book.orders \/ info.qty = 0 \/ info.price < 0
    THEN book
    ELSE [orders |-> Put(book.orders, id, info),
          levels |-> AddToPriceLevel(book.levels, info.side, info.price, info.qty)]

HandleDeleteOrder(book, id) ==
    IF id \notin DOMAIN book.orders
    THEN book
    ELSE [orders |-> Without(book.orders, id), levels |-> WithdrawFrom(book, id)]

\* Side, price and quantity are all replaced, unchecked
HandleModifyOrder(book, id, info) ==
    IF id \notin DOMAIN book.orders
    THEN book
    ELSE [orders |-> Put(book.orders, id, info),
          levels |-> AddToPriceLevel(WithdrawFrom(book, id), info.side, info.price, info.qty)]

\* A trade larger than its order takes the whole order
HandleTrade(book, id, qty) ==
    IF id \notin DOMAIN book.orders
    THEN book
    ELSE LET info  == book.orders[id]
             taken == IF qty > info.qty THEN info.qty ELSE qty
             left  == info.qty - taken
         IN  [orders |-> IF left = 0 THEN Without(book.orders, id)
                         ELSE Put(book.orders, id, [info EXCEPT !.qty = left]),
              levels |-> RemoveFromPriceLevel(book.levels, info.side, info.price, taken)]

-----------------------------------------------------------------------------
(* What the levels should be *)

OrdersAt(book, side, price) ==
    {id \in DOMAIN book.orders : book.orders[id].side = side /\ book.orders[id].price = price}

QtyOf(book) == [id \in DOMAIN book.orders |-> book.orders[id].qty]

LevelOfOrders(book, side) ==
    [price \in {book.orders[id].price : id \in {i \in DOMAIN book.orders : book.orders[i].side = side}}
        |-> SumFunctionOnSet(QtyOf(book), OrdersAt(book, side, price))]
=============================================================================
