--------------------------- MODULE ListenerProofs --------------------------
(***************************************************************************)
(* The market-data thread, for any number of orders, levels and messages:  *)
(* types; levels are those of the booked orders; orders that a message can *)
(* reach are in a book; and the book of a symbol agrees with the venue on  *)
(* every order no message of which is doubtful.                            *)
(*                                                                         *)
(* The agreement compares the listener with the venue's past. Right(V)     *)
(* says of a sequence V of books, one for the start and one for each       *)
(* message published, that the messages lead from each to the next, that a *)
(* snapshot on its way is the book of its time, and that what is booked of *)
(* a trusted order is its entry in the book of the place the listener has  *)
(* come to, or, before that of its snapshot, what the snapshot had. V is   *)
(* not a variable of the model: the invariant is that there is one.        *)
(*                                                                         *)
(* Snapshots and the drain are folds over sets and sequences. A fold is    *)
(* followed one step at a time (IsFold), by induction on a prefix, the     *)
(* property given as the set of numbers that have it.                      *)
(***************************************************************************)
EXTENDS Listener, Sums

-----------------------------------------------------------------------------
(* Folds *)

\* What folding step over the members of s, in rising order, makes of b
IsFold(g, step, b, n) ==
    \A s \in SUBSET (1 .. n) :
        g[s] = IF s = {} THEN b ELSE step[<<g[s \ {Max(s)}], Max(s)>>]

\* The largest member of a set of numbers up to n + 1.
LEMMA MaxOfPrefix ==
    ASSUME NEW n \in Nat, NEW s \in SUBSET (1 .. n + 1), n + 1 \in s
    PROVE  Max(s) = n + 1
<1>1. \A y \in s : n + 1 >= y
  OBVIOUS
<1>2. PICK x \in s : x = Max(s) /\ \A y \in s : x >= y
  BY <1>1 DEF Max
<1>3. x \in 1 .. n + 1 /\ x >= n + 1
  BY <1>2
<1>4. QED BY <1>2, <1>3

\* A non-empty set of numbers up to n has its largest member.
LEMMA MaxIsMember ==
    ASSUME NEW n \in Nat, NEW s \in SUBSET (1 .. n), s # {}
    PROVE  Max(s) \in s
<1> DEFINE P == {k \in Nat : \A t \in SUBSET (1 .. k) : t # {} => Max(t) \in t}
<1>1. 0 \in P
  <2>1. 1 .. 0 = {}
    OBVIOUS
  <2>2. QED BY <2>1
<1>2. ASSUME NEW k \in Nat, k \in P PROVE k + 1 \in P
  <2>1. ASSUME NEW t \in SUBSET (1 .. k + 1), t # {} PROVE Max(t) \in t
    <3>1. CASE k + 1 \in t
      BY <3>1, MaxOfPrefix
    <3>2. CASE k + 1 \notin t
      <4>1. t \in SUBSET (1 .. k)
        BY <3>2
      <4>2. QED BY <1>2, <2>1, <4>1
    <3>3. QED BY <3>1, <3>2
  <2>2. QED BY <2>1
<1> HIDE DEF P
<1>3. Nat \subseteq P
  BY <1>1, <1>2, CountInduction
<1>4. QED BY <1>3 DEF P

\* A step that keeps to a set can be folded.
LEMMA FoldExists ==
    ASSUME NEW A, NEW b \in A, NEW n \in Nat, NEW step \in [A \X (1 .. n) -> A]
    PROVE  \E g \in [SUBSET (1 .. n) -> A] : IsFold(g, step, b, n)
<1> DEFINE Ok(k) == \E g \in [SUBSET (1 .. k) -> A] : IsFold(g, step, b, k)
           P == {k \in Nat : k <= n => Ok(k)}
<1>1. Ok(0)
  <2> DEFINE g == [s \in SUBSET (1 .. 0) |-> b]
  <2>1. 1 .. 0 = {}
    OBVIOUS
  <2>2. \A s \in SUBSET (1 .. 0) : s = {}
    BY <2>1
  <2>3. g \in [SUBSET (1 .. 0) -> A]
    OBVIOUS
  <2>4. \A s \in SUBSET (1 .. 0) : g[s] = b
    OBVIOUS
  <2> HIDE DEF g
  <2>5. IsFold(g, step, b, 0)
    BY <2>2, <2>4 DEF IsFold
  <2>6. QED BY <2>3, <2>5
<1>2. ASSUME NEW k \in Nat, k + 1 <= n, Ok(k) PROVE Ok(k + 1)
  <2>1. PICK g \in [SUBSET (1 .. k) -> A] : IsFold(g, step, b, k)
    BY <1>2
  <2> DEFINE h == [s \in SUBSET (1 .. k + 1) |->
                      IF k + 1 \in s THEN step[<<g[s \ {k + 1}], k + 1>>] ELSE g[s]]
  <2>2. \A s \in SUBSET (1 .. k + 1) : /\ s \ {k + 1} \in SUBSET (1 .. k)
                                       /\ k + 1 \notin s => s \in SUBSET (1 .. k)
    OBVIOUS
  <2>3. k + 1 \in 1 .. n
    BY <1>2
  <2>4. h \in [SUBSET (1 .. k + 1) -> A]
    BY <2>1, <2>2, <2>3
  <2>5. \A s \in SUBSET (1 .. k) : h[s] = g[s]
    OBVIOUS
  <2>6. ASSUME NEW s \in SUBSET (1 .. k + 1)
        PROVE  h[s] = IF s = {} THEN b ELSE step[<<h[s \ {Max(s)}], Max(s)>>]
    <3>1. CASE k + 1 \in s
      <4>1. Max(s) = k + 1
        BY <3>1, MaxOfPrefix
      <4>2. h[s] = step[<<g[s \ {k + 1}], k + 1>>]
        BY <3>1
      <4>3. h[s \ {k + 1}] = g[s \ {k + 1}]
        BY <2>2, <2>5
      <4>4. QED BY <3>1, <4>1, <4>2, <4>3
    <3>2. CASE k + 1 \notin s
      <4>1. s \in SUBSET (1 .. k) /\ s \ {Max(s)} \in SUBSET (1 .. k)
        BY <2>2, <3>2
      <4>2. g[s] = IF s = {} THEN b ELSE step[<<g[s \ {Max(s)}], Max(s)>>]
        BY <2>1, <4>1 DEF IsFold
      <4>3. h[s] = g[s] /\ h[s \ {Max(s)}] = g[s \ {Max(s)}]
        BY <2>5, <4>1
      <4>4. QED BY <4>2, <4>3
    <3>3. QED BY <3>1, <3>2
  <2> HIDE DEF h
  <2>7. IsFold(h, step, b, k + 1)
    BY <2>6 DEF IsFold
  <2>8. QED BY <2>4, <2>7
<1> HIDE DEF Ok
<1>3. 0 \in P /\ \A k \in Nat : k \in P => k + 1 \in P
  BY <1>1, <1>2
<1> HIDE DEF P
<1>4. Nat \subseteq P
  BY <1>3, CountInduction
<1>5. n \in P /\ n <= n
  BY <1>4
<1>6. Ok(n)
  BY <1>5 DEF P
<1>7. QED BY <1>6 DEF Ok

-----------------------------------------------------------------------------
(* Maps, and the levels of a map of orders *)

Maps(S, T) == UNION {[D -> T] : D \in SUBSET S}

LEMMA MapType ==
    ASSUME NEW S, NEW T
    PROVE  \A m : m \in Maps(S, T) <=> DOMAIN m \subseteq S /\ m \in [DOMAIN m -> T]
BY DEF Maps

\* What an order on a book is: something is left of it
OrderInfo == [side : Side, qty : Nat \ {0}, price : Nat \ {0}]
Orders == Maps(OrderIds, OrderInfo)

LEMMA OrderFields ==
    ASSUME NEW o \in Orders, NEW id \in DOMAIN o
    PROVE  /\ id \in OrderIds /\ o[id] \in OrderInfo
           /\ o[id].side \in Side /\ o[id].qty \in Nat \ {0} /\ o[id].price \in Nat \ {0}
<1>1. DOMAIN o \subseteq OrderIds /\ o \in [DOMAIN o -> OrderInfo]
  BY MapType DEF Orders
<1>2. o[id] \in OrderInfo
  BY <1>1
<1>3. QED BY <1>1, <1>2 DEF OrderInfo

\* Adding an entry to a map and taking one out.
LEMMA PutType ==
    ASSUME NEW S, NEW T, NEW m \in Maps(S, T), NEW k \in S, NEW v \in T
    PROVE  /\ Put(m, k, v) \in Maps(S, T)
           /\ DOMAIN Put(m, k, v) = DOMAIN m \cup {k}
           /\ Put(m, k, v)[k] = v
           /\ \A j \in DOMAIN m : j # k => Put(m, k, v)[j] = m[j]
BY MapType DEF Put

LEMMA WithoutType ==
    ASSUME NEW S, NEW T, NEW m \in Maps(S, T), NEW k
    PROVE  /\ Without(m, k) \in Maps(S, T)
           /\ DOMAIN Without(m, k) = DOMAIN m \ {k}
           /\ \A j \in DOMAIN m \ {k} : Without(m, k)[j] = m[j]
BY MapType DEF Without, Restrict

LEMMA EmptyMapType ==
    ASSUME NEW S, NEW T
    PROVE  EmptyMap \in Maps(S, T) /\ DOMAIN EmptyMap = {}
BY MapType DEF EmptyMap

\* An entry replaced is the entry taken out and put back.
LEMMA PutBack ==
    ASSUME NEW S, NEW T, NEW m \in Maps(S, T), NEW k \in DOMAIN m
    PROVE  /\ \A v : Put(m, k, v) = Put(Without(m, k), k, v)
           /\ m = Put(Without(m, k), k, m[k])
<1>1. m = [j \in DOMAIN m |-> m[j]]
  BY MapType
<1>2. DOMAIN Without(m, k) \cup {k} = DOMAIN m
  BY DEF Without, Restrict
<1>3. DOMAIN m \cup {k} = DOMAIN m
  OBVIOUS
<1>4. ASSUME NEW v PROVE Put(m, k, v) = Put(Without(m, k), k, v)
  <2>1. Put(Without(m, k), k, v) = [j \in DOMAIN m |-> IF j = k THEN v ELSE m[j]]
    BY <1>2 DEF Put, Without, Restrict
  <2>2. QED BY <1>3, <2>1 DEF Put
<1>5. m = Put(Without(m, k), k, m[k])
  <2>1. Put(m, k, m[k]) = [j \in DOMAIN m |-> m[j]]
    BY <1>3 DEF Put
  <2>2. QED BY <1>1, <1>4, <2>1
<1>6. QED BY <1>4, <1>5

\* What each id contributes to a side's quantity at a price, and the quantities
At(o, side, p) ==
    [id \in OrderIds |-> IF id \in DOMAIN o /\ o[id].side = side /\ o[id].price = p
                         THEN o[id].qty ELSE 0]
Depth(o, side) == [p \in Nat |-> SumFunctionOnSet(At(o, side, p), OrderIds)]

\* The prices with a quantity, each with its quantity
Ladder(t) == [p \in {q \in Nat : t[q] > 0} |-> t[p]]

\* The levels of both sides, and the book of a map of orders
Ladders(o) == [side \in Side |-> Ladder(Depth(o, side))]
BookOf(o) == [orders |-> o, levels |-> Ladders(o)]

\* The depth at a price is what the orders there hold; there is none without an order.
LEMMA DepthType ==
    ASSUME NEW o \in Orders, NEW side
    PROVE  /\ Depth(o, side) \in [Nat -> Nat]
           /\ \A id \in DOMAIN o : o[id].side = side => o[id].qty <= Depth(o, side)[o[id].price]
<1>1. \A p : \A id \in OrderIds : At(o, side, p)[id] \in Nat
  BY OrderFields DEF At
<1>2. ASSUME NEW p
      PROVE  /\ SumFunctionOnSet(At(o, side, p), OrderIds) \in Nat
             /\ \A id \in OrderIds : At(o, side, p)[id] <= SumFunctionOnSet(At(o, side, p), OrderIds)
  <2>1. \A id \in OrderIds : At(o, side, p)[id] \in Nat
    BY <1>1
  <2>2. QED BY <2>1, SumNat, FiniteIdsAssumption
<1>3. Depth(o, side) \in [Nat -> Nat]
  BY <1>2 DEF Depth
<1>4. ASSUME NEW id \in DOMAIN o, o[id].side = side
      PROVE  o[id].qty <= Depth(o, side)[o[id].price]
  <2>1. id \in OrderIds /\ o[id].price \in Nat
    BY OrderFields
  <2>2. At(o, side, o[id].price)[id] = o[id].qty
    BY <1>4, <2>1 DEF At
  <2>3. Depth(o, side)[o[id].price] = SumFunctionOnSet(At(o, side, o[id].price), OrderIds)
    BY <2>1 DEF Depth
  <2>4. QED BY <1>2, <2>1, <2>2, <2>3
<1>5. QED BY <1>3, <1>4

\* The levels of a book's orders are the ladder of their depth.
LEMMA LevelsAreLadders ==
    ASSUME NEW book, book.orders \in Orders, NEW side
    PROVE  LevelOfOrders(book, side) = Ladder(Depth(book.orders, side))
<1> DEFINE o == book.orders
           Prices == {o[id].price : id \in {i \in DOMAIN o : o[i].side = side}}
           t == Depth(o, side)
<1>0. o \in Orders
  OBVIOUS
<1>1. ASSUME NEW p \in Nat
      PROVE  SumFunctionOnSet(QtyOf(book), OrdersAt(book, side, p)) = t[p]
  <2>1. OrdersAt(book, side, p) \in SUBSET OrderIds
    BY <1>0, OrderFields DEF OrdersAt
  <2>2. \A x \in OrdersAt(book, side, p) :
           QtyOf(book)[x] \in Int /\ At(o, side, p)[x] = QtyOf(book)[x]
    BY <1>0, OrderFields DEF OrdersAt, QtyOf, At
  <2>3. \A x \in OrderIds \ OrdersAt(book, side, p) : At(o, side, p)[x] = 0
    BY DEF OrdersAt, At
  <2>4. SumFunctionOnSet(At(o, side, p), OrderIds) = SumFunctionOnSet(QtyOf(book), OrdersAt(book, side, p))
    BY <2>1, <2>2, <2>3, SumFilter, FiniteIdsAssumption
  <2>5. QED BY <2>4 DEF Depth
<1>2. t \in [Nat -> Nat]
  BY <1>0, DepthType
<1>3. Prices \subseteq Nat
  BY <1>0, OrderFields
<1>4. \A p \in Prices : t[p] > 0
  <2> SUFFICES ASSUME NEW id \in DOMAIN o, o[id].side = side PROVE t[o[id].price] > 0
    OBVIOUS
  <2>1. o[id].qty \in Nat \ {0} /\ o[id].price \in Nat /\ o[id].qty <= t[o[id].price]
    BY <1>0, OrderFields, DepthType
  <2>2. QED BY <1>2, <2>1
<1>5. ASSUME NEW p \in Nat, p \notin Prices PROVE t[p] = 0
  <2>1. OrdersAt(book, side, p) = {}
    BY <1>5 DEF OrdersAt
  <2>2. QED BY <1>1, <2>1, SumEmpty
<1>6. Prices = {q \in Nat : t[q] > 0}
  BY <1>2, <1>3, <1>4, <1>5
<1>7. LevelOfOrders(book, side) = [p \in Prices |-> t[p]]
  BY <1>1, <1>3 DEF LevelOfOrders
<1>8. QED BY <1>6, <1>7 DEF Ladder

\* A new order adds to the depth at its price on its side.
LEMMA DepthPut ==
    ASSUME NEW o \in Orders, NEW id \in OrderIds, id \notin DOMAIN o, NEW info \in OrderInfo,
           NEW side
    PROVE  Depth(Put(o, id, info), side) =
              IF side = info.side THEN [Depth(o, side) EXCEPT ![info.price] = @ + info.qty]
                                  ELSE Depth(o, side)
<1> DEFINE n == Put(o, id, info)
<1>1. /\ DOMAIN n = DOMAIN o \cup {id} /\ n[id] = info
      /\ \A j \in DOMAIN o : n[j] = o[j]
      /\ n \in Orders
  <2>1. o \in Maps(OrderIds, OrderInfo)
    BY DEF Orders
  <2>2. /\ n \in Maps(OrderIds, OrderInfo)
        /\ DOMAIN n = DOMAIN o \cup {id} /\ n[id] = info
        /\ \A j \in DOMAIN o : j # id => n[j] = o[j]
    <3> HIDE DEF n
    <3>1. n = Put(o, id, info)
      BY DEF n
    <3>2. n \in Maps(OrderIds, OrderInfo)
      BY <2>1, <3>1, PutType
    <3>3. QED BY <3>1, <3>2 DEF Put
  <2>3. \A j \in DOMAIN o : j # id
    OBVIOUS
  <2> HIDE DEF n
  <2>4. QED BY <2>2, <2>3 DEF Orders
<1>2. info.qty \in Nat /\ info.price \in Nat
  BY DEF OrderInfo
<1> HIDE DEF n
<1>3. ASSUME NEW p \in Nat
      PROVE  SumFunctionOnSet(At(n, side, p), OrderIds) =
                SumFunctionOnSet(At(o, side, p), OrderIds)
                   + (IF side = info.side /\ p = info.price THEN info.qty ELSE 0)
  <2>1. \A x \in OrderIds \ {id} : At(n, side, p)[x] = At(o, side, p)[x]
    BY <1>1 DEF At
  <2>2. \A x \in OrderIds : At(n, side, p)[x] \in Int /\ At(o, side, p)[x] \in Int
    BY <1>1, OrderFields DEF At
  <2>3. At(o, side, p)[id] = 0
    BY DEF At
  <2>4. At(n, side, p)[id] = IF side = info.side /\ p = info.price THEN info.qty ELSE 0
    BY <1>1 DEF At
  <2>5. SumFunctionOnSet(At(n, side, p), OrderIds) =
           SumFunctionOnSet(At(o, side, p), OrderIds) - At(o, side, p)[id] + At(n, side, p)[id]
    BY <2>1, <2>2, SumChange, FiniteIdsAssumption
  <2>6. SumFunctionOnSet(At(o, side, p), OrderIds) \in Int
    BY <2>2, SumInt, FiniteIdsAssumption
  <2>7. QED BY <1>2, <2>3, <2>4, <2>5, <2>6
<1>4. Depth(o, side) \in [Nat -> Nat]
  BY DepthType
<1>5. CASE side = info.side
  <2>1. \A p \in Nat : Depth(n, side)[p] = [Depth(o, side) EXCEPT ![info.price] = @ + info.qty][p]
    BY <1>2, <1>3, <1>4, <1>5 DEF Depth
  <2>2. QED BY <1>4, <1>5, <2>1 DEF Depth, n
<1>6. CASE side # info.side
  <2>1. \A p \in Nat : Depth(n, side)[p] = Depth(o, side)[p]
    BY <1>2, <1>3, <1>4, <1>6 DEF Depth
  <2>2. QED BY <1>4, <1>6, <2>1 DEF Depth, n
<1>7. QED BY <1>5, <1>6

\* Adding to a level of a ladder, and taking from one.
LEMMA AddToLadder ==
    ASSUME NEW t \in [Nat -> Nat], NEW price \in Nat, NEW qty \in Nat \ {0}
    PROVE  Put(Ladder(t), price, IF price \in DOMAIN Ladder(t) THEN Ladder(t)[price] + qty ELSE qty)
              = Ladder([t EXCEPT ![price] = @ + qty])
<1> DEFINE v == IF price \in DOMAIN Ladder(t) THEN Ladder(t)[price] + qty ELSE qty
           u == [t EXCEPT ![price] = @ + qty]
<1>1. v = t[price] + qty
  BY DEF Ladder
<1>2. \A p \in Nat : u[p] = IF p = price THEN t[p] + qty ELSE t[p]
  OBVIOUS
<1>3. {p \in Nat : u[p] > 0} = {p \in Nat : t[p] > 0} \cup {price}
  BY <1>2
<1> HIDE DEF v, u
<1>4. Ladder(u) = [p \in {q \in Nat : t[q] > 0} \cup {price} |-> u[p]]
  BY <1>3 DEF Ladder
<1>5. Put(Ladder(t), price, v) =
         [p \in {q \in Nat : t[q] > 0} \cup {price} |-> IF p = price THEN v ELSE t[p]]
  BY DEF Put, Ladder
<1>6. \A p \in {q \in Nat : t[q] > 0} \cup {price} : u[p] = IF p = price THEN v ELSE t[p]
  BY <1>1, <1>2
<1>7. Put(Ladder(t), price, v) = Ladder(u)
  BY <1>4, <1>5, <1>6
<1>8. QED BY <1>7 DEF u, v

LEMMA TakeFromLadder ==
    ASSUME NEW t \in [Nat -> Nat], NEW price \in Nat, NEW qty \in Nat \ {0}, qty <= t[price]
    PROVE  /\ price \in DOMAIN Ladder(t)
           /\ Ladder([t EXCEPT ![price] = @ - qty]) =
                 IF Ladder(t)[price] <= qty THEN Without(Ladder(t), price)
                 ELSE [Ladder(t) EXCEPT ![price] = @ - qty]
<1> DEFINE u == [t EXCEPT ![price] = @ - qty]
           D == {p \in Nat : t[p] > 0}
<1>1. price \in D /\ DOMAIN Ladder(t) = D /\ \A p \in D : Ladder(t)[p] = t[p]
  BY DEF Ladder
<1>2. \A p \in Nat : u[p] = IF p = price THEN t[p] - qty ELSE t[p]
  OBVIOUS
<1>3. CASE t[price] <= qty
  <2>1. u[price] = 0
    BY <1>2, <1>3
  <2>2. {p \in Nat : u[p] > 0} = D \ {price}
    BY <1>2, <2>1
  <2>3. \A p \in D \ {price} : u[p] = t[p]
    BY <1>2
  <2> HIDE DEF u
  <2>4. Ladder(u) = [p \in D \ {price} |-> t[p]]
    BY <2>2, <2>3 DEF Ladder
  <2>5. Without(Ladder(t), price) = [p \in D \ {price} |-> t[p]]
    BY <1>1 DEF Without, Restrict
  <2>6. QED BY <1>1, <1>3, <2>4, <2>5 DEF u
<1>4. CASE ~(t[price] <= qty)
  <2>1. u[price] > 0
    BY <1>2, <1>4
  <2>2. {p \in Nat : u[p] > 0} = D
    BY <1>1, <1>2, <2>1
  <2>3. \A p \in D : u[p] = [Ladder(t) EXCEPT ![price] = @ - qty][p]
    BY <1>1, <1>2
  <2> HIDE DEF u
  <2>4. Ladder(u) = [p \in D |-> u[p]]
    BY <2>2 DEF Ladder
  <2>5. [Ladder(t) EXCEPT ![price] = @ - qty] = [p \in D |-> u[p]]
    BY <1>1, <2>3 DEF Ladder
  <2>6. QED BY <1>1, <1>4, <2>4, <2>5 DEF u
<1>5. QED BY <1>3, <1>4

\* A new order's quantity belongs on its level.
LEMMA AddToLevels ==
    ASSUME NEW o \in Orders, NEW id \in OrderIds, id \notin DOMAIN o, NEW info \in OrderInfo
    PROVE  AddToPriceLevel(Ladders(o), info.side, info.price, info.qty) = Ladders(Put(o, id, info))
<1>1. info.side \in Side /\ info.price \in Nat /\ info.qty \in Nat \ {0}
  BY DEF OrderInfo
<1>2. Depth(o, info.side) \in [Nat -> Nat]
  BY DepthType
<1>3. Ladder(Depth(Put(o, id, info), info.side)) =
         Ladder([Depth(o, info.side) EXCEPT ![info.price] = @ + info.qty])
  BY DepthPut
<1>4. \A side : side # info.side => Depth(Put(o, id, info), side) = Depth(o, side)
  BY DepthPut
<1> DEFINE t == Depth(o, info.side)
           L == Ladder(t)
<1>5. Put(L, info.price, IF info.price \in DOMAIN L THEN L[info.price] + info.qty ELSE info.qty)
         = Ladder(Depth(Put(o, id, info), info.side))
  <2> DEFINE price == info.price
             qty == info.qty
  <2>1. price \in Nat /\ qty \in Nat \ {0} /\ t \in [Nat -> Nat]
    BY <1>1, <1>2
  <2> HIDE DEF t, price, qty
  <2>2. Put(L, price, IF price \in DOMAIN L THEN L[price] + qty ELSE qty)
           = Ladder([t EXCEPT ![price] = @ + qty])
    BY <2>1, AddToLadder, ZenonT(60)
  <2>3. QED BY <1>3, <2>2 DEF t, price, qty
<1>6. AddToPriceLevel(Ladders(o), info.side, info.price, info.qty) =
         [Ladders(o) EXCEPT ![info.side] = Ladder(Depth(Put(o, id, info), info.side))]
  BY <1>1, <1>5 DEF AddToPriceLevel, Ladders
<1>7. QED BY <1>1, <1>4, <1>6 DEF Ladders

\* What is left of an order is taken off its level with the order, and a part of it
\* leaves the level of the smaller order.
LEMMA TakeFromLevels ==
    ASSUME NEW o \in Orders, NEW id \in OrderIds, id \notin DOMAIN o, NEW info \in OrderInfo,
           NEW qty \in Nat \ {0}, qty <= info.qty
    PROVE  RemoveFromPriceLevel(Ladders(Put(o, id, info)), info.side, info.price, qty) =
              IF qty = info.qty THEN Ladders(o)
              ELSE Ladders(Put(o, id, [info EXCEPT !.qty = info.qty - qty]))
<1> DEFINE n == Put(o, id, info)
           t == Depth(n, info.side)
           d == Depth(o, info.side)
           left == [info EXCEPT !.qty = info.qty - qty]
           m == Put(o, id, left)
           price == info.price
<1>1. info.side \in Side /\ price \in Nat /\ info.qty \in Nat \ {0}
  BY DEF OrderInfo
<1>2. d \in [Nat -> Nat]
  BY DepthType
<1>3. t = [d EXCEPT ![price] = @ + info.qty]
  BY DepthPut
<1>4. t \in [Nat -> Nat] /\ qty <= t[price]
  BY <1>1, <1>2, <1>3
<1>5. \A side : side # info.side => Depth(n, side) = Depth(o, side)
  BY DepthPut
<1>6. CASE qty = info.qty
  <2>1. [t EXCEPT ![price] = @ - qty] = d
    BY <1>1, <1>2, <1>3, <1>6
  <2> HIDE DEF t, d, n, m
  <2> DEFINE L == Ladder(t)
  <2>2. /\ price \in DOMAIN L
        /\ Ladder(d) = IF L[price] <= qty THEN Without(L, price) ELSE [L EXCEPT ![price] = @ - qty]
    <3> HIDE DEF price
    <3>1. price \in Nat /\ t \in [Nat -> Nat] /\ qty <= t[price]
      BY <1>1, <1>4
    <3>2. /\ price \in DOMAIN Ladder(t)
          /\ Ladder([t EXCEPT ![price] = @ - qty]) =
                IF Ladder(t)[price] <= qty THEN Without(Ladder(t), price)
                ELSE [Ladder(t) EXCEPT ![price] = @ - qty]
      BY <3>1, TakeFromLadder, ZenonT(60)
    <3>3. QED BY <2>1, <3>2
  <2>3. Ladders(n)[info.side] = L
    BY <1>1 DEF Ladders, t
  <2> HIDE DEF L
  <2>4. RemoveFromPriceLevel(Ladders(n), info.side, price, qty) =
           [Ladders(n) EXCEPT ![info.side] = Ladder(d)]
    BY <2>2, <2>3 DEF RemoveFromPriceLevel
  <2>5. [Ladders(n) EXCEPT ![info.side] = Ladder(d)] = Ladders(o)
    BY <1>1, <1>5 DEF Ladders, d
  <2>6. QED BY <1>6, <2>4, <2>5 DEF n
<1>7. CASE qty # info.qty
  <2>1. left \in OrderInfo /\ left.qty = info.qty - qty /\ left.side = info.side /\ left.price = price
    BY <1>1, <1>7 DEF OrderInfo
  <2> HIDE DEF left
  <2>2. /\ Depth(m, info.side) = [d EXCEPT ![price] = @ + left.qty]
        /\ \A side : side # info.side => Depth(m, side) = Depth(o, side)
    BY <2>1, DepthPut
  <2>3. [t EXCEPT ![price] = @ - qty] = Depth(m, info.side)
    BY <1>1, <1>2, <1>3, <2>1, <2>2
  <2> HIDE DEF t, d, n, m
  <2> DEFINE L == Ladder(t)
             e == Depth(m, info.side)
  <2>4. /\ price \in DOMAIN L
        /\ Ladder(e) = IF L[price] <= qty THEN Without(L, price) ELSE [L EXCEPT ![price] = @ - qty]
    <3> HIDE DEF price
    <3>1. price \in Nat /\ t \in [Nat -> Nat] /\ qty <= t[price]
      BY <1>1, <1>4
    <3>2. /\ price \in DOMAIN Ladder(t)
          /\ Ladder([t EXCEPT ![price] = @ - qty]) =
                IF Ladder(t)[price] <= qty THEN Without(Ladder(t), price)
                ELSE [Ladder(t) EXCEPT ![price] = @ - qty]
      BY ZenonT(60), <3>1, TakeFromLadder
    <3>3. QED BY <2>3, <3>2
  <2>5. Ladders(n)[info.side] = L
    BY <1>1 DEF Ladders, t
  <2> HIDE DEF L
  <2>6. RemoveFromPriceLevel(Ladders(n), info.side, price, qty) =
           [Ladders(n) EXCEPT ![info.side] = Ladder(e)]
    BY <2>4, <2>5 DEF RemoveFromPriceLevel
  <2>7. [Ladders(n) EXCEPT ![info.side] = Ladder(e)] = Ladders(m)
    BY <1>1, <1>5, <2>2 DEF Ladders
  <2>8. QED BY <1>7, <2>6, <2>7 DEF n, m, left
<1>8. QED BY <1>6, <1>7

\* Every handler makes the book of other orders of the book of some.
LEMMA NewOrderBooks ==
    ASSUME NEW o \in Orders, NEW id \in OrderIds, NEW info \in OrderInfo
    PROVE  LET n == IF id \in DOMAIN o THEN o ELSE Put(o, id, info)
           IN  n \in Orders /\ HandleNewOrder(BookOf(o), id, info) = BookOf(n)
<1>1. BookOf(o).orders = o /\ BookOf(o).levels = Ladders(o)
  BY DEF BookOf
<1>2. CASE id \in DOMAIN o
  BY <1>1, <1>2 DEF HandleNewOrder
<1>3. CASE id \notin DOMAIN o
  <2>1. info.qty # 0 /\ ~(info.price < 0)
    BY DEF OrderInfo
  <2>2. AddToPriceLevel(Ladders(o), info.side, info.price, info.qty) = Ladders(Put(o, id, info))
    BY <1>3, AddToLevels
  <2>3. Put(o, id, info) \in Orders
    BY PutType DEF Orders
  <2>4. HandleNewOrder(BookOf(o), id, info) = [orders |-> Put(o, id, info), levels |-> Ladders(Put(o, id, info))]
    BY <1>1, <1>3, <2>1, <2>2 DEF HandleNewOrder
  <2>5. QED BY <1>3, <2>3, <2>4 DEF BookOf
<1>4. QED BY <1>2, <1>3

\* What is left of a book when an order leaves it.
LEMMA OrderLeaves ==
    ASSUME NEW o \in Orders, NEW id \in DOMAIN o
    PROVE  /\ Without(o, id) \in Orders /\ id \in OrderIds
           /\ id \notin DOMAIN Without(o, id)
           /\ o = Put(Without(o, id), id, o[id])
           /\ \A v : Put(o, id, v) = Put(Without(o, id), id, v)
           /\ WithdrawFrom(BookOf(o), id) = Ladders(Without(o, id))
<1> DEFINE w == Without(o, id)
           info == o[id]
<1>1. o \in Maps(OrderIds, OrderInfo)
  BY DEF Orders
<1>2. w \in Orders /\ DOMAIN w = DOMAIN o \ {id}
  BY <1>1, WithoutType DEF Orders
<1>3. info \in OrderInfo /\ info.qty \in Nat \ {0} /\ id \in OrderIds
  BY OrderFields
<1>4. info.qty <= info.qty
  BY <1>3
<1>5. o = Put(w, id, info) /\ \A v : Put(o, id, v) = Put(w, id, v)
  BY <1>1, PutBack
<1>6. WithdrawFrom(BookOf(o), id) = RemoveFromPriceLevel(Ladders(o), info.side, info.price, info.qty)
  BY DEF WithdrawFrom, BookOf
<1> HIDE DEF w, info
<1>7. RemoveFromPriceLevel(Ladders(Put(w, id, info)), info.side, info.price, info.qty) = Ladders(w)
  BY <1>2, <1>3, <1>4, TakeFromLevels
<1>8. WithdrawFrom(BookOf(o), id) = Ladders(w)
  BY <1>5, <1>6, <1>7
<1>9. QED BY <1>2, <1>3, <1>5, <1>8 DEF w, info

LEMMA DeleteOrderBooks ==
    ASSUME NEW o \in Orders, NEW id \in OrderIds
    PROVE  LET n == IF id \in DOMAIN o THEN Without(o, id) ELSE o
           IN  n \in Orders /\ HandleDeleteOrder(BookOf(o), id) = BookOf(n)
<1>1. BookOf(o).orders = o
  BY DEF BookOf
<1>2. CASE id \in DOMAIN o
  <2>1. Without(o, id) \in Orders /\ WithdrawFrom(BookOf(o), id) = Ladders(Without(o, id))
    BY <1>2, OrderLeaves
  <2>2. QED BY <1>1, <1>2, <2>1 DEF HandleDeleteOrder, BookOf
<1>3. CASE id \notin DOMAIN o
  BY <1>1, <1>3 DEF HandleDeleteOrder
<1>4. QED BY <1>2, <1>3

LEMMA ModifyOrderBooks ==
    ASSUME NEW o \in Orders, NEW id \in OrderIds, NEW info \in OrderInfo
    PROVE  LET n == IF id \in DOMAIN o THEN Put(o, id, info) ELSE o
           IN  n \in Orders /\ HandleModifyOrder(BookOf(o), id, info) = BookOf(n)
<1>1. BookOf(o).orders = o
  BY DEF BookOf
<1>2. CASE id \in DOMAIN o
  <2> DEFINE w == Without(o, id)
  <2>1. /\ w \in Orders /\ id \notin DOMAIN w /\ WithdrawFrom(BookOf(o), id) = Ladders(w)
        /\ Put(o, id, info) = Put(w, id, info)
    BY <1>2, OrderLeaves
  <2> HIDE DEF w
  <2>2. AddToPriceLevel(Ladders(w), info.side, info.price, info.qty) = Ladders(Put(w, id, info))
    BY <2>1, AddToLevels
  <2>3. Put(o, id, info) \in Orders
    BY PutType DEF Orders
  <2>4. HandleModifyOrder(BookOf(o), id, info) =
           [orders |-> Put(o, id, info), levels |-> Ladders(Put(o, id, info))]
    BY <1>1, <1>2, <2>1, <2>2 DEF HandleModifyOrder
  <2>5. QED BY <1>2, <2>3, <2>4 DEF BookOf
<1>3. CASE id \notin DOMAIN o
  BY <1>1, <1>3 DEF HandleModifyOrder
<1>4. QED BY <1>2, <1>3

\* What a trade makes of an order that it does not use up
Less(info, qty) == [info EXCEPT !.qty = info.qty - qty]

LEMMA TradeBooks ==
    ASSUME NEW o \in Orders, NEW id \in OrderIds, NEW qty \in Nat \ {0}
    PROVE  LET n == IF id \notin DOMAIN o THEN o
                    ELSE IF qty >= o[id].qty THEN Without(o, id)
                    ELSE Put(o, id, Less(o[id], qty))
           IN  n \in Orders /\ HandleTrade(BookOf(o), id, qty) = BookOf(n)
<1>1. BookOf(o).orders = o /\ BookOf(o).levels = Ladders(o)
  BY DEF BookOf
<1>2. CASE id \notin DOMAIN o
  BY <1>1, <1>2 DEF HandleTrade
<1>3. CASE id \in DOMAIN o
  <2> DEFINE w == Without(o, id)
             info == o[id]
             taken == IF qty > info.qty THEN info.qty ELSE qty
  <2>1. /\ w \in Orders /\ id \notin DOMAIN w
        /\ o = Put(w, id, info) /\ \A v : Put(o, id, v) = Put(w, id, v)
    BY <1>3, OrderLeaves
  <2>2. info \in OrderInfo /\ info.qty \in Nat \ {0}
    BY <1>3, OrderFields
  <2> HIDE DEF w
  <2>3. taken \in Nat \ {0} /\ taken <= info.qty
    BY <2>2
  <2> DEFINE rest == RemoveFromPriceLevel(Ladders(o), info.side, info.price, taken)
  <2>4. rest = IF taken = info.qty THEN Ladders(w) ELSE Ladders(Put(o, id, Less(info, taken)))
    <3> HIDE DEF info, taken
    <3>1. RemoveFromPriceLevel(Ladders(Put(w, id, info)), info.side, info.price, taken) =
             IF taken = info.qty THEN Ladders(w)
             ELSE Ladders(Put(w, id, [info EXCEPT !.qty = info.qty - taken]))
      BY <2>1, <2>2, <2>3, TakeFromLevels
    <3>2. QED BY <2>1, <3>1 DEF Less
  <2>5. HandleTrade(BookOf(o), id, qty) =
           [orders |-> IF info.qty - taken = 0 THEN w ELSE Put(o, id, Less(info, taken)),
            levels |-> rest]
    <3>1. [info EXCEPT !.qty = info.qty - taken] = Less(info, taken)
      BY DEF Less
    <3> QED BY <1>1, <1>3, <3>1 DEF HandleTrade, w, Less
  <2>6. CASE qty >= info.qty
    <3>1. taken = info.qty /\ info.qty - taken = 0
      BY <2>2, <2>6
    <3> HIDE DEF info, taken, rest
    <3>2. HandleTrade(BookOf(o), id, qty) = BookOf(w)
      BY <2>4, <2>5, <3>1 DEF BookOf
    <3>3. QED BY <1>3, <2>1, <2>6, <3>2 DEF w, info
  <2>7. CASE ~(qty >= info.qty)
    <3>1. taken = qty /\ info.qty - taken # 0 /\ taken # info.qty
      BY <2>2, <2>7
    <3>2. Less(info, qty) \in OrderInfo
      BY <2>2, <2>7 DEF Less, OrderInfo
    <3>3. Put(o, id, Less(info, qty)) \in Orders
      BY <3>2, PutType DEF Orders
    <3> HIDE DEF info, taken, rest
    <3>4. HandleTrade(BookOf(o), id, qty) = BookOf(Put(o, id, Less(info, qty)))
      BY <2>4, <2>5, <3>1 DEF BookOf
    <3>5. QED BY <1>3, <2>7, <3>3, <3>4 DEF info
  <2>8. QED BY <2>6, <2>7
<1>4. QED BY <1>2, <1>3

-----------------------------------------------------------------------------
(* Dispatch *)

Messages ==
    [type : {"NEW_ORDER"}, id : OrderIds, symbol : Symbols, info : OrderInfo]
       \cup [type : {"DELETE_ORDER"}, id : OrderIds]
       \cup [type : {"MODIFY_ORDER"}, id : OrderIds, info : OrderInfo]
       \cup [type : {"TRADE"}, id : OrderIds, qty : Nat \ {0}]

\* A message of the venue is for an id it has used, and a new order is for its symbol
Named(m) ==
    m.id \in DOMAIN venueSymbol /\ (m.type = "NEW_ORDER" => m.symbol = venueSymbol[m.id])

Books == {BookOf(o) : o \in Orders}

\* The route of every booked order is its book's symbol, and every route is the venue's
Placed(s) ==
    /\ \A symbol \in Symbols : \A id \in DOMAIN s.books[symbol].orders :
          id \in DOMAIN s.route /\ s.route[id] = symbol
    /\ \A id \in DOMAIN s.route : id \in DOMAIN venueSymbol /\ s.route[id] = venueSymbol[id]

States == {s \in [books : [Symbols -> Books], route : Maps(OrderIds, Symbols)] : Placed(s)}

\* An order in a map: none, or the one
In(o, id) == {o[j] : j \in DOMAIN o \cap {id}}

\* The order of an id in the book of its symbol
View(s, id) == In(s.books[venueSymbol[id]].orders, id)

\* What a message makes of the order it is for
Taken(v, m) ==
    CASE m.type = "NEW_ORDER"    -> IF v = {} THEN {m.info} ELSE v
      [] m.type = "DELETE_ORDER" -> {}
      [] m.type = "MODIFY_ORDER" -> IF v = {} THEN v ELSE {m.info}
      [] m.type = "TRADE"        -> {Less(info, m.qty) : info \in {i \in v : ~(m.qty >= i.qty)}}

SymbolsTyped == venueSymbol \in Maps(OrderIds, Symbols)

LEMMA InEither ==
    ASSUME NEW o, NEW id
    PROVE  In(o, id) = IF id \in DOMAIN o THEN {o[id]} ELSE {}
BY DEF In

\* One order of one book changes, and its route with it.
LEMMA OneOrderChanges ==
    ASSUME SymbolsTyped, NEW s \in States, NEW id \in DOMAIN venueSymbol, NEW n \in Orders,
           \A j \in OrderIds : j # id =>
              In(n, j) = In(s.books[venueSymbol[id]].orders, j),
           \A j \in OrderIds : j # id => (j \in DOMAIN n <=> j \in DOMAIN s.books[venueSymbol[id]].orders),
           NEW r \in Maps(OrderIds, Symbols),
           \A j \in OrderIds : j # id => (j \in DOMAIN r <=> j \in DOMAIN s.route),
           \A j \in DOMAIN r : j # id => r[j] = s.route[j],
           id \in DOMAIN n => id \in DOMAIN r,
           id \in DOMAIN r => r[id] = venueSymbol[id],
           NEW t, t = [books |-> [s.books EXCEPT ![venueSymbol[id]] = BookOf(n)], route |-> r]
    PROVE  /\ t \in States
           /\ \A j \in DOMAIN venueSymbol : View(t, j) = IF j = id THEN In(n, id) ELSE View(s, j)
<1> DEFINE sy == venueSymbol[id]
           o == s.books[sy].orders
<1>1. id \in OrderIds /\ sy \in Symbols
  BY MapType DEF SymbolsTyped
<1>2. s.books \in [Symbols -> Books] /\ Placed(s)
  BY DEF States
<1>3. t.books = [s.books EXCEPT ![sy] = BookOf(n)] /\ t.route = r
  OBVIOUS
<1>4. t.books \in [Symbols -> Books]
  BY <1>1, <1>2, <1>3 DEF Books
<1>5. /\ t.books[sy].orders = n
      /\ \A y \in Symbols : y # sy => t.books[y] = s.books[y]
  BY <1>1, <1>2, <1>3 DEF BookOf
<1>6. \A y \in Symbols : DOMAIN s.books[y].orders \subseteq OrderIds
  <2> SUFFICES ASSUME NEW y \in Symbols PROVE DOMAIN s.books[y].orders \subseteq OrderIds
    OBVIOUS
  <2>1. PICK p \in Orders : s.books[y] = BookOf(p)
    BY <1>2 DEF Books
  <2>2. s.books[y].orders = p
    BY <2>1 DEF BookOf
  <2>3. QED BY <2>2, MapType DEF Orders
<1>7. DOMAIN n \subseteq OrderIds /\ DOMAIN r \subseteq OrderIds
  BY MapType DEF Orders
<1>8. ASSUME NEW y \in Symbols, NEW j \in DOMAIN t.books[y].orders
      PROVE  j \in DOMAIN t.route /\ t.route[j] = y
  <2>1. CASE y = sy /\ j = id
    BY <1>3, <1>5, <1>8, <2>1
  <2>2. CASE y = sy /\ j # id
    <3>1. j \in OrderIds /\ j \in DOMAIN o
      BY <1>5, <1>7, <1>8, <2>2
    <3>2. j \in DOMAIN s.route /\ s.route[j] = sy
      BY <1>1, <1>2, <3>1 DEF Placed
    <3>3. QED BY <1>3, <2>2, <3>1, <3>2
  <2>3. CASE y # sy
    <3>1. j \in DOMAIN s.books[y].orders /\ j \in OrderIds
      BY <1>5, <1>6, <1>8, <2>3
    <3>2. j \in DOMAIN s.route /\ s.route[j] = y /\ s.route[j] = venueSymbol[j]
      BY <1>2, <3>1 DEF Placed
    <3>3. j # id
      BY <2>3, <3>2
    <3>4. QED BY <1>3, <3>1, <3>2, <3>3
  <2>4. QED BY <2>1, <2>2, <2>3
<1>9. ASSUME NEW j \in DOMAIN t.route PROVE j \in DOMAIN venueSymbol /\ t.route[j] = venueSymbol[j]
  <2>1. CASE j = id
    BY <1>3, <1>9, <2>1
  <2>2. CASE j # id
    <3>1. j \in DOMAIN s.route /\ t.route[j] = s.route[j]
      BY <1>3, <1>7, <1>9, <2>2
    <3>2. QED BY <1>2, <3>1 DEF Placed
  <2>3. QED BY <2>1, <2>2
<1>10. Placed(t)
  BY <1>8, <1>9 DEF Placed
<1>11. t \in States
  BY <1>3, <1>4, <1>10 DEF States
<1>12. ASSUME NEW j \in DOMAIN venueSymbol
       PROVE  View(t, j) = IF j = id THEN In(n, id) ELSE View(s, j)
  <2>1. venueSymbol[j] \in Symbols /\ j \in OrderIds
    BY MapType DEF SymbolsTyped
  <2>2. CASE j = id
    BY <1>5, <2>2 DEF View
  <2>3. CASE j # id /\ venueSymbol[j] = sy
    BY <1>5, <2>1, <2>3 DEF View
  <2>4. CASE venueSymbol[j] # sy
    BY <1>5, <2>1, <2>4 DEF View
  <2>5. QED BY <2>2, <2>3, <2>4
<1>13. QED BY <1>11, <1>12

\* A state's book of a symbol, and what its handlers keep.
LEMMA BookInState ==
    ASSUME SymbolsTyped, NEW s \in States, NEW symbol \in Symbols
    PROVE  /\ s.books[symbol].orders \in Orders
           /\ s.books[symbol] = BookOf(s.books[symbol].orders)
           /\ s.route \in Maps(OrderIds, Symbols)
<1>1. s.books[symbol] \in Books /\ s.route \in Maps(OrderIds, Symbols)
  BY DEF States
<1>2. PICK o \in Orders : s.books[symbol] = BookOf(o)
  BY <1>1 DEF Books
<1>3. s.books[symbol].orders = o
  BY <1>2 DEF BookOf
<1>4. QED BY <1>1, <1>2, <1>3

\* A message keeps the books in step with the routes and with their levels, changes its
\* own order only, and that as Taken says.
LEMMA DispatchTakes ==
    ASSUME SymbolsTyped, NEW s \in States, NEW m \in Messages, Named(m)
    PROVE  /\ Dispatch(s, m) \in States
           /\ \A j \in DOMAIN venueSymbol :
                 View(Dispatch(s, m), j) = IF j = m.id THEN Taken(View(s, j), m) ELSE View(s, j)
<1> DEFINE id == m.id
           sy == venueSymbol[id]
           o == s.books[sy].orders
           t == Dispatch(s, m)
           Done == /\ t \in States
                   /\ \A j \in DOMAIN venueSymbol :
                         View(t, j) = IF j = id THEN Taken(View(s, j), m) ELSE View(s, j)
<1>1. id \in DOMAIN venueSymbol /\ id \in OrderIds /\ sy \in Symbols
  BY MapType DEF Named, SymbolsTyped
<1>2. /\ o \in Orders /\ s.books[sy] = BookOf(o)
      /\ s.route \in Maps(OrderIds, Symbols) /\ s.books \in [Symbols -> Books]
  BY <1>1, BookInState DEF States
<1>3. /\ id \in DOMAIN o => id \in DOMAIN s.route
      /\ id \in DOMAIN s.route => s.route[id] = sy
  BY <1>1 DEF States, Placed
<1>4. View(s, id) = In(o, id)
  BY DEF View
<1>5. s = [books |-> s.books, route |-> s.route]
  BY DEF States
<1>6. m.type \in {"NEW_ORDER", "DELETE_ORDER", "MODIFY_ORDER", "TRADE"}
  BY DEF Messages
<1>7. o \in Maps(OrderIds, OrderInfo)
  BY <1>2 DEF Orders
<1>8. \A j \in OrderIds : j # id =>
         /\ j \in DOMAIN Without(o, id) <=> j \in DOMAIN o
         /\ In(Without(o, id), j) = In(o, j)
         /\ \A v : j \in DOMAIN Put(o, id, v) <=> j \in DOMAIN o
         /\ \A v : In(Put(o, id, v), j) = In(o, j)
  <2> SUFFICES ASSUME NEW j \in OrderIds, j # id
               PROVE  /\ j \in DOMAIN Without(o, id) <=> j \in DOMAIN o
                      /\ In(Without(o, id), j) = In(o, j)
                      /\ \A v : j \in DOMAIN Put(o, id, v) <=> j \in DOMAIN o
                      /\ \A v : In(Put(o, id, v), j) = In(o, j)
    OBVIOUS
  <2> HIDE DEF o, id
  <2>1. DOMAIN Without(o, id) = DOMAIN o \ {id} /\ \A k \in DOMAIN o \ {id} : Without(o, id)[k] = o[k]
    BY DEF Without, Restrict
  <2>2. ASSUME NEW v PROVE (j \in DOMAIN Put(o, id, v) <=> j \in DOMAIN o) /\ In(Put(o, id, v), j) = In(o, j)
    <3>1. DOMAIN Put(o, id, v) = DOMAIN o \cup {id} /\ \A k \in DOMAIN o : k # id => Put(o, id, v)[k] = o[k]
      BY DEF Put
    <3>2. QED BY <3>1, InEither
  <2>3. In(Without(o, id), j) = In(o, j)
    BY <2>1, InEither
  <2>4. QED BY <2>1, <2>2, <2>3
<1>9. In(Without(o, id), id) = {} /\ \A v : In(Put(o, id, v), id) = {v} /\ id \in DOMAIN Put(o, id, v)
  BY InEither DEF Without, Restrict, Put
<1>10. CASE m.type = "NEW_ORDER"
  <2> DEFINE n == IF id \in DOMAIN o THEN o ELSE Put(o, id, m.info)
             r == Put(s.route, id, sy)
  <2>1. m.info \in OrderInfo /\ m.symbol = sy
    BY <1>10 DEF Messages, Named
  <2>2. n \in Orders /\ HandleNewOrder(BookOf(o), id, m.info) = BookOf(n)
    BY <1>1, <1>2, <2>1, NewOrderBooks
  <2>3. t = [books |-> [s.books EXCEPT ![sy] = BookOf(n)], route |-> r]
    BY <1>2, <1>10, <2>1, <2>2 DEF Dispatch
  <2>4. /\ r \in Maps(OrderIds, Symbols) /\ DOMAIN r = DOMAIN s.route \cup {id} /\ r[id] = sy
        /\ \A j \in DOMAIN s.route : j # id => r[j] = s.route[j]
    <3> HIDE DEF id, sy
    <3>1. r \in Maps(OrderIds, Symbols)
      BY <1>1, <1>2, PutType
    <3>2. QED BY <3>1 DEF Put
  <2>5. \A j \in OrderIds : j # id => In(n, j) = In(o, j) /\ (j \in DOMAIN n <=> j \in DOMAIN o)
    BY <1>8
  <2>6. In(n, id) = Taken(View(s, id), m)
    BY <1>4, <1>9, <1>10, InEither DEF Taken
  <2> HIDE DEF n, r, t
  <2>7. t \in States /\ \A j \in DOMAIN venueSymbol : View(t, j) = IF j = id THEN In(n, id) ELSE View(s, j)
    BY <1>1, <2>2, <2>3, <2>4, <2>5, OneOrderChanges
  <2>8. QED BY <2>6, <2>7 DEF t
<1>11. CASE m.type # "NEW_ORDER" /\ id \notin DOMAIN s.route
  <2>1. t = s
    BY <1>11 DEF Dispatch
  <2>2. View(s, id) = {}
    BY <1>3, <1>4, <1>11, InEither
  <2>3. Taken({}, m) = {}
    BY <1>6, <1>11 DEF Taken
  <2>4. QED BY <2>1, <2>2, <2>3
<1>12. CASE m.type = "DELETE_ORDER" /\ id \in DOMAIN s.route
  <2> DEFINE n == IF id \in DOMAIN o THEN Without(o, id) ELSE o
             r == Without(s.route, id)
  <2>1. n \in Orders /\ HandleDeleteOrder(BookOf(o), id) = BookOf(n)
    BY <1>1, <1>2, DeleteOrderBooks
  <2>2. t = [books |-> [s.books EXCEPT ![sy] = BookOf(n)], route |-> r]
    BY <1>2, <1>3, <1>12, <2>1 DEF Dispatch
  <2>3. /\ r \in Maps(OrderIds, Symbols) /\ DOMAIN r = DOMAIN s.route \ {id}
        /\ \A j \in DOMAIN s.route \ {id} : r[j] = s.route[j]
    <3> HIDE DEF id
    <3>1. r \in Maps(OrderIds, Symbols)
      BY <1>2, WithoutType
    <3>2. QED BY <3>1 DEF Without, Restrict
  <2>4. \A j \in OrderIds : j # id => In(n, j) = In(o, j) /\ (j \in DOMAIN n <=> j \in DOMAIN o)
    BY <1>8
  <2>5. In(n, id) = {} /\ id \notin DOMAIN n
    BY <1>9, InEither DEF Without, Restrict
  <2>6. Taken(View(s, id), m) = {}
    BY <1>12 DEF Taken
  <2> HIDE DEF n, r, t
  <2>7. t \in States /\ \A j \in DOMAIN venueSymbol : View(t, j) = IF j = id THEN In(n, id) ELSE View(s, j)
    BY <1>1, <2>1, <2>2, <2>3, <2>4, <2>5, OneOrderChanges
  <2>8. QED BY <2>5, <2>6, <2>7 DEF t
<1>13. CASE m.type = "MODIFY_ORDER" /\ id \in DOMAIN s.route
  <2> DEFINE n == IF id \in DOMAIN o THEN Put(o, id, m.info) ELSE o
  <2>1. m.info \in OrderInfo
    BY <1>13 DEF Messages
  <2>2. n \in Orders /\ HandleModifyOrder(BookOf(o), id, m.info) = BookOf(n)
    BY <1>1, <1>2, <2>1, ModifyOrderBooks
  <2>3. t = [books |-> [s.books EXCEPT ![sy] = BookOf(n)], route |-> s.route]
    <3>1. t = [s EXCEPT !.books[sy] = BookOf(n)]
      BY <1>2, <1>3, <1>13, <2>2 DEF Dispatch
    <3> HIDE DEF t, n, sy
    <3>2. QED BY <1>2, <1>5, <3>1
  <2>4. \A j \in OrderIds : j # id => In(n, j) = In(o, j) /\ (j \in DOMAIN n <=> j \in DOMAIN o)
    BY <1>8
  <2>5. In(n, id) = Taken(View(s, id), m)
    BY <1>4, <1>9, <1>13, InEither DEF Taken
  <2> HIDE DEF n, t
  <2>6. t \in States /\ \A j \in DOMAIN venueSymbol : View(t, j) = IF j = id THEN In(n, id) ELSE View(s, j)
    BY <1>1, <1>2, <1>3, <1>13, <2>2, <2>3, <2>4, OneOrderChanges
  <2>7. QED BY <2>5, <2>6 DEF t
<1>14. CASE m.type = "TRADE" /\ id \in DOMAIN s.route
  <2> DEFINE n == IF id \notin DOMAIN o THEN o
                  ELSE IF m.qty >= o[id].qty THEN Without(o, id)
                  ELSE Put(o, id, Less(o[id], m.qty))
  <2>1. m.qty \in Nat \ {0}
    BY <1>14 DEF Messages
  <2>2. n \in Orders /\ HandleTrade(BookOf(o), id, m.qty) = BookOf(n)
    BY <1>1, <1>2, <2>1, TradeBooks, SMTT(40)
  <2>3. t = [books |-> [s.books EXCEPT ![sy] = BookOf(n)], route |-> s.route]
    <3>1. t = [s EXCEPT !.books[sy] = BookOf(n)]
      BY <1>2, <1>3, <1>14, <2>2 DEF Dispatch
    <3> HIDE DEF t, n, sy
    <3>2. QED BY <1>2, <1>5, <3>1
  <2>4. \A j \in OrderIds : j # id => In(n, j) = In(o, j) /\ (j \in DOMAIN n <=> j \in DOMAIN o)
    BY <1>8
  <2>5. In(n, id) = Taken(View(s, id), m)
    <3>1. Taken(View(s, id), m) = {Less(info, m.qty) : info \in {i \in In(o, id) : ~(m.qty >= i.qty)}}
      BY <1>4, <1>14 DEF Taken
    <3>2. CASE id \notin DOMAIN o
      BY <3>1, <3>2, InEither, SMTT(40)
    <3>3. CASE id \in DOMAIN o /\ m.qty >= o[id].qty
      BY <1>9, <3>1, <3>3, InEither, SMTT(40)
    <3>4. CASE id \in DOMAIN o /\ ~(m.qty >= o[id].qty)
      BY <1>9, <3>1, <3>4, InEither, SMTT(40)
    <3>5. QED BY <3>2, <3>3, <3>4
  <2> HIDE DEF n, t
  <2>6. t \in States /\ \A j \in DOMAIN venueSymbol : View(t, j) = IF j = id THEN In(n, id) ELSE View(s, j)
    BY <1>1, <1>2, <1>3, <1>14, <2>2, <2>3, <2>4, OneOrderChanges
  <2>7. QED BY <2>5, <2>6 DEF t
<1>15. QED BY <1>6, <1>10, <1>11, <1>12, <1>13, <1>14

-----------------------------------------------------------------------------
(* The folds of the listener, one member after the other *)

\* h folds step from b, as long as it keeps to A
Follows(h, step, b, A, n) ==
    /\ h[{}] = b
    /\ \A s \in SUBSET (1 .. n) : s # {} /\ h[s \ {Max(s)}] \in A =>
          h[s] = step[<<h[s \ {Max(s)}], Max(s)>>]

\* The steps lead from b to e
Leads(step, b, e, A, n) ==
    \E g \in [0 .. n -> A] :
       /\ g[0] = b /\ g[n] = e
       /\ \A k \in 1 .. n : g[k] = step[<<g[k - 1], k>>]

\* A fold over all the subsets goes through the prefixes.
LEMMA FoldByPrefix ==
    ASSUME NEW A, NEW b \in A, NEW n \in Nat, NEW step \in [A \X (1 .. n) -> A],
           NEW h, Follows(h, step, b, A, n)
    PROVE  Leads(step, b, h[1 .. n], A, n)
<1> DEFINE P == {k \in Nat : k <= n => h[1 .. k] \in A}
           g == [k \in 0 .. n |-> h[1 .. k]]
<1>1. ASSUME NEW k \in Nat, k + 1 <= n, h[1 .. k] \in A
      PROVE  h[1 .. k + 1] = step[<<h[1 .. k], k + 1>>] /\ h[1 .. k + 1] \in A
  <2>1. 1 .. k + 1 \in SUBSET (1 .. n) /\ k + 1 \in 1 .. k + 1 /\ k + 1 \in 1 .. n
    BY <1>1
  <2>2. Max(1 .. k + 1) = k + 1
    BY <2>1, MaxOfPrefix
  <2>3. (1 .. k + 1) \ {k + 1} = 1 .. k
    OBVIOUS
  <2>4. h[1 .. k + 1] = step[<<h[1 .. k], k + 1>>]
    BY <1>1, <2>1, <2>2, <2>3 DEF Follows
  <2>5. QED BY <1>1, <2>1, <2>4
<1>2. 1 .. 0 = {}
  OBVIOUS
<1>3. 0 \in P /\ \A k \in Nat : k \in P => k + 1 \in P
  <2>1. h[1 .. 0] \in A
    BY <1>2 DEF Follows
  <2>2. ASSUME NEW k \in P, k + 1 <= n PROVE h[1 .. k + 1] \in A
    <3>1. k \in Nat /\ k <= n
      BY <2>2
    <3>2. QED BY <1>1, <2>2, <3>1
  <2>3. QED BY <2>1, <2>2
<1> HIDE DEF P
<1>4. Nat \subseteq P
  BY <1>3, CountInduction
<1>5. \A k \in 0 .. n : h[1 .. k] \in A
  <2> SUFFICES ASSUME NEW k \in 0 .. n PROVE h[1 .. k] \in A
    OBVIOUS
  <2>1. k \in P /\ k <= n
    BY <1>4
  <2>2. QED BY <2>1 DEF P
<1>6. g \in [0 .. n -> A] /\ g[0] = b /\ g[n] = h[1 .. n]
  BY <1>2, <1>5 DEF Follows
<1>7. ASSUME NEW k \in 1 .. n PROVE g[k] = step[<<g[k - 1], k>>]
  <2>1. k - 1 \in Nat /\ (k - 1) + 1 = k /\ k <= n /\ k - 1 \in 0 .. n /\ k \in 0 .. n
    OBVIOUS
  <2>2. h[1 .. k] = step[<<h[1 .. k - 1], k>>]
    BY <1>1, <1>5, <2>1
  <2>3. QED BY <2>1, <2>2
<1> HIDE DEF g
<1>8. QED BY <1>6, <1>7 DEF Leads

\* h is the drain of every part of the buffer
IsDrain(h) ==
    h = [s \in SUBSET DOMAIN liveBuffer |->
            IF s = {} THEN State ELSE Dispatch(h[s \ {Max(s)}], feed[liveBuffer[Max(s)]])]

\* The drain dispatches the buffered messages one by one.
LEMMA DrainByStep ==
    ASSUME SymbolsTyped, State \in States, NEW n \in Nat, DOMAIN liveBuffer = 1 .. n,
           \A k \in 1 .. n : feed[liveBuffer[k]] \in Messages /\ Named(feed[liveBuffer[k]])
    PROVE  \E g \in [0 .. n -> States] :
              /\ g[0] = State /\ g[n] = Drain
              /\ \A k \in 1 .. n : g[k] = Dispatch(g[k - 1], feed[liveBuffer[k]])
<1> DEFINE step == [p \in States \X (1 .. n) |-> Dispatch(p[1], feed[liveBuffer[p[2]]])]
           h == CHOOSE x : IsDrain(x)
<1>1. \A s \in States, k \in 1 .. n : Dispatch(s, feed[liveBuffer[k]]) \in States
  BY DispatchTakes
<1>2. step \in [States \X (1 .. n) -> States]
  BY <1>1
<1>3. \A s \in States, k \in 1 .. n : step[<<s, k>>] = Dispatch(s, feed[liveBuffer[k]])
  OBVIOUS
<1> HIDE DEF step
<1>4. \E x : IsDrain(x)
  <2>1. PICK x \in [SUBSET (1 .. n) -> States] : IsFold(x, step, State, n)
    BY <1>2, FoldExists
  <2>2. ASSUME NEW s \in SUBSET (1 .. n)
        PROVE  x[s] = IF s = {} THEN State ELSE Dispatch(x[s \ {Max(s)}], feed[liveBuffer[Max(s)]])
    <3>1. s # {} => Max(s) \in 1 .. n /\ s \ {Max(s)} \in SUBSET (1 .. n)
      BY MaxIsMember
    <3>2. QED BY <1>3, <2>1, <3>1 DEF IsFold
  <2>3. x = [s \in SUBSET (1 .. n) |->
               IF s = {} THEN State ELSE Dispatch(x[s \ {Max(s)}], feed[liveBuffer[Max(s)]])]
    BY <2>2
  <2>4. QED BY <2>3 DEF IsDrain
<1>5. IsDrain(h)
  BY <1>4
<1>6. Drain = h[1 .. n]
  BY DEF Drain, FoldLeft, MapThenFoldSet, IsDrain
<1> HIDE DEF h
<1>7. \A s \in SUBSET (1 .. n) :
         h[s] = IF s = {} THEN State ELSE Dispatch(h[s \ {Max(s)}], feed[liveBuffer[Max(s)]])
  BY <1>5 DEF IsDrain
<1>8. h[{}] = State
  BY <1>7
<1>9. \A s \in SUBSET (1 .. n) : s # {} /\ h[s \ {Max(s)}] \in States =>
         h[s] = step[<<h[s \ {Max(s)}], Max(s)>>]
  <2>1. \A s \in SUBSET (1 .. n) : s # {} => Max(s) \in 1 .. n
    BY MaxIsMember
  <2>2. QED BY <1>3, <1>7, <2>1
<1>10. PICK g \in [0 .. n -> States] :
         /\ g[0] = State /\ g[n] = h[1 .. n]
         /\ \A k \in 1 .. n : g[k] = step[<<g[k - 1], k>>]
  <2>1. Follows(h, step, State, States, n)
    BY <1>8, <1>9 DEF Follows
  <2>2. Leads(step, State, h[1 .. n], States, n)
    BY <1>2, <2>1, FoldByPrefix
  <2>3. QED BY <2>2 DEF Leads
<1>11. \A k \in 1 .. n : g[k] = Dispatch(g[k - 1], feed[liveBuffer[k]])
  <2> SUFFICES ASSUME NEW k \in 1 .. n PROVE g[k] = Dispatch(g[k - 1], feed[liveBuffer[k]])
    OBVIOUS
  <2>1. k - 1 \in 0 .. n
    OBVIOUS
  <2>2. QED BY <1>3, <1>10, <2>1
<1>12. QED BY <1>6, <1>10, <1>11

\* h is the doubt after every part of the buffer
IsDoubting(h) ==
    h = [s \in SUBSET DOMAIN liveBuffer |->
            IF s = {} THEN doubtful ELSE Doubts(h[s \ {Max(s)}], liveBuffer[Max(s)])]

\* The doubtful after the drain
Doubted == FoldLeft(Doubts, doubtful, liveBuffer)

\* The drain adds to the doubtful message by message.
LEMMA DoubtByStep ==
    ASSUME doubtful \subseteq OrderIds, NEW n \in Nat, DOMAIN liveBuffer = 1 .. n,
           \A k \in 1 .. n : feed[liveBuffer[k]].id \in OrderIds
    PROVE  \E g \in [0 .. n -> SUBSET OrderIds] :
              /\ g[0] = doubtful /\ g[n] = Doubted
              /\ \A k \in 1 .. n : g[k] = Doubts(g[k - 1], liveBuffer[k])
<1> DEFINE A == SUBSET OrderIds
           step == [p \in A \X (1 .. n) |-> Doubts(p[1], liveBuffer[p[2]])]
           h == CHOOSE x : IsDoubting(x)
<1>1. \A s \in A, k \in 1 .. n : Doubts(s, liveBuffer[k]) \in A
  BY DEF Doubts
<1>2. step \in [A \X (1 .. n) -> A]
  BY <1>1
<1>3. \A s \in A, k \in 1 .. n : step[<<s, k>>] = Doubts(s, liveBuffer[k])
  OBVIOUS
<1>4. doubtful \in A
  OBVIOUS
<1> HIDE DEF step, A
<1>5. \E x : IsDoubting(x)
  <2>1. PICK x \in [SUBSET (1 .. n) -> A] : IsFold(x, step, doubtful, n)
    BY <1>2, <1>4, FoldExists
  <2>2. ASSUME NEW s \in SUBSET (1 .. n)
        PROVE  x[s] = IF s = {} THEN doubtful ELSE Doubts(x[s \ {Max(s)}], liveBuffer[Max(s)])
    <3>1. s # {} => Max(s) \in 1 .. n /\ s \ {Max(s)} \in SUBSET (1 .. n)
      BY MaxIsMember
    <3>2. QED BY <1>3, <2>1, <3>1 DEF IsFold
  <2>3. x = [s \in SUBSET (1 .. n) |->
               IF s = {} THEN doubtful ELSE Doubts(x[s \ {Max(s)}], liveBuffer[Max(s)])]
    BY <2>2
  <2>4. QED BY <2>3 DEF IsDoubting
<1>6. IsDoubting(h)
  BY <1>5
<1>7. Doubted = h[1 .. n]
  BY DEF Doubted, FoldLeft, MapThenFoldSet, IsDoubting
<1> HIDE DEF h
<1>8. \A s \in SUBSET (1 .. n) :
         h[s] = IF s = {} THEN doubtful ELSE Doubts(h[s \ {Max(s)}], liveBuffer[Max(s)])
  BY <1>6 DEF IsDoubting
<1>9. Follows(h, step, doubtful, A, n)
  <2>1. \A s \in SUBSET (1 .. n) : s # {} => Max(s) \in 1 .. n
    BY MaxIsMember
  <2>2. \A s \in SUBSET (1 .. n) : s # {} /\ h[s \ {Max(s)}] \in A =>
           h[s] = step[<<h[s \ {Max(s)}], Max(s)>>]
    BY <1>3, <1>8, <2>1
  <2>3. QED BY <1>8, <2>2 DEF Follows
<1>10. Leads(step, doubtful, h[1 .. n], A, n)
  BY <1>2, <1>4, <1>9, FoldByPrefix
<1>11. PICK g \in [0 .. n -> A] :
          /\ g[0] = doubtful /\ g[n] = h[1 .. n]
          /\ \A k \in 1 .. n : g[k] = step[<<g[k - 1], k>>]
  BY <1>10 DEF Leads
<1>12. \A k \in 1 .. n : g[k] = Doubts(g[k - 1], liveBuffer[k])
  <2> SUFFICES ASSUME NEW k \in 1 .. n PROVE g[k] = Doubts(g[k - 1], liveBuffer[k])
    OBVIOUS
  <2>1. k - 1 \in 0 .. n
    OBVIOUS
  <2>2. QED BY <1>3, <1>11, <2>1
<1>13. QED BY <1>7, <1>11, <1>12 DEF A

\* One order of a snapshot, in the order that SetToSeq has them
Refills(m, s, k) ==
    LET id == SetToSeq(DOMAIN m.orders)[k]
    IN  Dispatch(s, [type |-> "NEW_ORDER", id |-> id,
                     symbol |-> venueSymbol[id], info |-> m.orders[id]])

IsRefill(h, m) ==
    h = [s \in SUBSET DOMAIN SetToSeq(DOMAIN m.orders) |->
            IF s = {} THEN ResetBooks(m.symbols) ELSE Refills(m, h[s \ {Max(s)}], Max(s))]

\* The books and routes after a snapshot
Refilled(m) == (CHOOSE h : IsRefill(h, m))[DOMAIN SetToSeq(DOMAIN m.orders)]

\* The sequence of a finite set has its members, each of them.
LEMMA SeqOfSet ==
    ASSUME NEW S, IsFiniteSet(S)
    PROVE  /\ Cardinality(S) \in Nat
           /\ SetToSeq(S) \in [1 .. Cardinality(S) -> S]
           /\ \A x \in S : \E k \in 1 .. Cardinality(S) : SetToSeq(S)[k] = x
<1> DEFINE D == 1 .. Cardinality(S)
           q == SetToSeq(S)
<1>1. Cardinality(S) \in Nat /\ \E f : f \in Bijection(D, S)
  BY FS_CardinalityType DEF ExistsBijection
<1>2. \E f \in [D -> S] : IsInjective(f)
  BY <1>1 DEF Bijection, Injection
<1>3. q \in [D -> S] /\ IsInjective(q)
  BY <1>2 DEF SetToSeq
<1>4. IsFiniteSet(D) /\ Cardinality(D) = Cardinality(S)
  <2>1. 1 \in Int /\ Cardinality(S) \in Int
    BY <1>1
  <2>2. IsFiniteSet(D) /\ Cardinality(D) = IF 1 > Cardinality(S) THEN 0 ELSE Cardinality(S) - 1 + 1
    BY <2>1, FS_Interval
  <2>3. QED BY <1>1, <2>2
<1> HIDE DEF q, D
<1>5. q \in Injection(D, S)
  BY <1>3 DEF Injection
<1>6. q \in Surjection(D, S)
  BY <1>4, <1>5, FS_Injection
<1>7. QED BY <1>1, <1>3, <1>6 DEF Surjection, D, q

\* What a snapshot needs to be to be one of the venue's
Faithful(m) ==
    /\ m.symbols \subseteq Symbols /\ m.orders \in Orders
    /\ \A id \in DOMAIN m.orders : id \in DOMAIN venueSymbol /\ venueSymbol[id] \in m.symbols

\* The empty book is the book of no orders.
LEMMA EmptyBookIs == EmptyMap \in Orders /\ EmptyBook = BookOf(EmptyMap)
<1>0. EmptyMap \in Orders
  BY EmptyMapType DEF Orders
<1>1. \A side : Depth(EmptyMap, side) = [p \in Nat |-> 0]
  <2> SUFFICES ASSUME NEW side PROVE Depth(EmptyMap, side) = [p \in Nat |-> 0]
    OBVIOUS
  <2>1. ASSUME NEW p PROVE SumFunctionOnSet(At(EmptyMap, side, p), OrderIds) = 0
    <3>1. \A x \in OrderIds : At(EmptyMap, side, p)[x] = 0
      BY DEF At, EmptyMap
    <3>2. QED BY <3>1, SumZero, FiniteIdsAssumption
  <2>2. QED BY <2>1 DEF Depth
<1>2. Ladder([p \in Nat |-> 0]) = EmptyMap
  <2>1. {q \in Nat : [p \in Nat |-> 0][q] > 0} = {}
    OBVIOUS
  <2>2. QED BY <2>1 DEF Ladder, EmptyMap
<1>3. QED BY <1>0, <1>1, <1>2 DEF EmptyBook, BookOf, Ladders

\* A reset empties the books of its symbols and leaves the others.
LEMMA ResetView ==
    ASSUME SymbolsTyped, State \in States, NEW symbols \in SUBSET Symbols
    PROVE  /\ ResetBooks(symbols) \in States
           /\ \A j \in DOMAIN venueSymbol :
                 View(ResetBooks(symbols), j) = IF venueSymbol[j] \in symbols THEN {} ELSE View(State, j)
<1> DEFINE t == ResetBooks(symbols)
           keep == {id \in DOMAIN orderToSymbol : orderToSymbol[id] \notin symbols}
<1>1. /\ books \in [Symbols -> Books] /\ orderToSymbol \in Maps(OrderIds, Symbols)
      /\ \A symbol \in Symbols : \A id \in DOMAIN books[symbol].orders :
            id \in DOMAIN orderToSymbol /\ orderToSymbol[id] = symbol
      /\ \A id \in DOMAIN orderToSymbol : id \in DOMAIN venueSymbol /\ orderToSymbol[id] = venueSymbol[id]
  BY DEF State, States, Placed
<1>3. EmptyMap \in Orders /\ EmptyBook = BookOf(EmptyMap)
  BY EmptyBookIs
<1>4. t.books = [s \in Symbols |-> IF s \in symbols THEN EmptyBook ELSE books[s]]
      /\ t.route = Restrict(orderToSymbol, keep)
  BY DEF ResetBooks
<1>5. t.books \in [Symbols -> Books]
  BY <1>1, <1>3, <1>4 DEF Books
<1>6. DOMAIN t.route = keep /\ \A id \in keep : t.route[id] = orderToSymbol[id]
  BY <1>4 DEF Restrict
<1>7. t.route \in Maps(OrderIds, Symbols)
  BY <1>1, <1>4, MapType DEF Restrict
<1>8. EmptyBook.orders = EmptyMap /\ DOMAIN EmptyMap = {}
  BY DEF EmptyBook, EmptyMap
<1>9. ASSUME NEW symbol \in Symbols, NEW id \in DOMAIN t.books[symbol].orders
      PROVE  id \in DOMAIN t.route /\ t.route[id] = symbol
  <2>1. symbol \notin symbols /\ id \in DOMAIN books[symbol].orders
    BY <1>4, <1>8
  <2>2. id \in DOMAIN orderToSymbol /\ orderToSymbol[id] = symbol
    BY <1>1, <2>1
  <2>3. QED BY <1>6, <2>1, <2>2
<1>10. Placed(t)
  BY <1>1, <1>6, <1>9 DEF Placed
<1>11. t \in [books : [Symbols -> Books], route : Maps(OrderIds, Symbols)]
  BY <1>5, <1>7 DEF ResetBooks
<1>12. t \in States
  BY <1>10, <1>11 DEF States
<1>13. ASSUME NEW j \in DOMAIN venueSymbol
       PROVE  View(t, j) = IF venueSymbol[j] \in symbols THEN {} ELSE View(State, j)
  <2>1. venueSymbol[j] \in Symbols
    BY MapType DEF SymbolsTyped
  <2>2. CASE venueSymbol[j] \in symbols
    <3>1. View(t, j) = In(EmptyMap, j)
      BY <1>4, <1>8, <2>1, <2>2 DEF View
    <3>2. QED BY <1>8, <2>2, <3>1, InEither
  <2>3. CASE venueSymbol[j] \notin symbols
    BY <1>4, <2>1, <2>3 DEF View, State
  <2>4. QED BY <2>2, <2>3
<1>14. QED BY <1>12, <1>13

\* A snapshot leaves the books of its symbols with its orders, the others as they were.
LEMMA RefillByStep ==
    ASSUME SymbolsTyped, State \in States, NEW m, Faithful(m)
    PROVE  /\ Refilled(m) \in States
           /\ \A j \in DOMAIN venueSymbol :
                 View(Refilled(m), j) =
                    IF venueSymbol[j] \in m.symbols THEN In(m.orders, j) ELSE View(State, j)
<1> DEFINE q == SetToSeq(DOMAIN m.orders)
           n == Cardinality(DOMAIN m.orders)
           b == ResetBooks(m.symbols)
           placed(k) == [type |-> "NEW_ORDER", id |-> q[k],
                         symbol |-> venueSymbol[q[k]], info |-> m.orders[q[k]]]
           step == [p \in States \X (1 .. n) |-> Refills(m, p[1], p[2])]
           h == CHOOSE x : IsRefill(x, m)
<1>1. m.orders \in Orders /\ DOMAIN m.orders \subseteq OrderIds
  BY MapType DEF Faithful, Orders
<1>2. IsFiniteSet(DOMAIN m.orders)
  BY <1>1, FS_Subset, FiniteIdsAssumption
<1>3. /\ n \in Nat /\ q \in [1 .. n -> DOMAIN m.orders]
      /\ \A x \in DOMAIN m.orders : \E k \in 1 .. n : q[k] = x
  BY <1>2, SeqOfSet
<1>4. /\ b \in States
      /\ \A j \in DOMAIN venueSymbol :
            View(b, j) = IF venueSymbol[j] \in m.symbols THEN {} ELSE View(State, j)
  BY ResetView DEF Faithful
<1>5. ASSUME NEW k \in 1 .. n
      PROVE  /\ q[k] \in DOMAIN m.orders /\ q[k] \in DOMAIN venueSymbol
             /\ venueSymbol[q[k]] \in m.symbols
             /\ placed(k) \in Messages /\ Named(placed(k))
  <2>1. q[k] \in DOMAIN m.orders /\ q[k] \in OrderIds
    BY <1>1, <1>3
  <2>2. q[k] \in DOMAIN venueSymbol /\ venueSymbol[q[k]] \in m.symbols /\ venueSymbol[q[k]] \in Symbols
    BY <2>1 DEF Faithful
  <2>3. m.orders[q[k]] \in OrderInfo
    BY <1>1, <2>1, OrderFields
  <2> HIDE DEF q
  <2>4. placed(k) \in Messages
    BY <2>1, <2>2, <2>3 DEF Messages
  <2>5. Named(placed(k))
    BY <2>2 DEF Named
  <2>6. QED BY <2>1, <2>2, <2>4, <2>5
<1>6. \A s, k : Refills(m, s, k) = Dispatch(s, placed(k))
  BY DEF Refills
<1>7. \A s \in States, k \in 1 .. n :
         /\ Refills(m, s, k) \in States
         /\ \A j \in DOMAIN venueSymbol :
               View(Refills(m, s, k), j) = IF j = q[k] THEN Taken(View(s, j), placed(k)) ELSE View(s, j)
  <2> SUFFICES ASSUME NEW s \in States, NEW k \in 1 .. n
               PROVE  /\ Dispatch(s, placed(k)) \in States
                      /\ \A j \in DOMAIN venueSymbol :
                            View(Dispatch(s, placed(k)), j) =
                               IF j = q[k] THEN Taken(View(s, j), placed(k)) ELSE View(s, j)
    BY <1>6
  <2>1. placed(k) \in Messages /\ Named(placed(k)) /\ placed(k).id = q[k]
    BY <1>5
  <2> HIDE DEF placed, q
  <2>2. QED BY <2>1, DispatchTakes
<1>8. step \in [States \X (1 .. n) -> States]
  BY <1>7
<1>9. \A s \in States, k \in 1 .. n : step[<<s, k>>] = Refills(m, s, k)
  OBVIOUS
<1>10. DOMAIN q = 1 .. n
  BY <1>3
<1> HIDE DEF step, b, n
<1>11. \E x : IsRefill(x, m)
  <2>1. PICK x \in [SUBSET (1 .. n) -> States] : IsFold(x, step, b, n)
    BY <1>3, <1>4, <1>8, FoldExists
  <2>2. ASSUME NEW s \in SUBSET (1 .. n)
        PROVE  x[s] = IF s = {} THEN b ELSE Refills(m, x[s \ {Max(s)}], Max(s))
    <3>1. s # {} => Max(s) \in 1 .. n /\ s \ {Max(s)} \in SUBSET (1 .. n)
      BY <1>3, MaxIsMember
    <3>2. QED BY <1>9, <2>1, <3>1 DEF IsFold
  <2>3. x = [s \in SUBSET (1 .. n) |-> IF s = {} THEN b ELSE Refills(m, x[s \ {Max(s)}], Max(s))]
    BY <2>2
  <2>4. QED BY <1>10, <2>3 DEF IsRefill, b
<1>12. IsRefill(h, m)
  BY <1>11
<1>13. Refilled(m) = h[1 .. n]
  BY <1>10 DEF Refilled
<1> HIDE DEF h
<1>14. \A s \in SUBSET (1 .. n) : h[s] = IF s = {} THEN b ELSE Refills(m, h[s \ {Max(s)}], Max(s))
  BY <1>10, <1>12 DEF IsRefill, b
<1>15. Follows(h, step, b, States, n)
  <2>1. \A s \in SUBSET (1 .. n) : s # {} => Max(s) \in 1 .. n
    BY <1>3, MaxIsMember
  <2>2. \A s \in SUBSET (1 .. n) : s # {} /\ h[s \ {Max(s)}] \in States =>
           h[s] = step[<<h[s \ {Max(s)}], Max(s)>>]
    BY <1>9, <1>14, <2>1
  <2>3. QED BY <1>14, <2>2 DEF Follows
<1>16. Leads(step, b, h[1 .. n], States, n)
  BY <1>3, <1>4, <1>8, <1>15, FoldByPrefix
<1>17. PICK g \in [0 .. n -> States] :
          /\ g[0] = b /\ g[n] = h[1 .. n]
          /\ \A k \in 1 .. n : g[k] = step[<<g[k - 1], k>>]
  BY <1>16 DEF Leads
<1> DEFINE Shown(k, j) == IF \E i \in 1 .. k : q[i] = j THEN {m.orders[j]} ELSE {}
           Right(k) == \A j \in DOMAIN venueSymbol :
                          View(g[k], j) = IF venueSymbol[j] \in m.symbols THEN Shown(k, j)
                                          ELSE View(State, j)
           P == {k \in Nat : k <= n => Right(k)}
<1>18. Right(0)
  <2>1. \A j : Shown(0, j) = {}
    OBVIOUS
  <2>2. QED BY <1>4, <1>17, <2>1
<1>19. ASSUME NEW k \in Nat, k + 1 <= n, Right(k) PROVE Right(k + 1)
  <2>1. k + 1 \in 1 .. n /\ k \in 0 .. n /\ (k + 1) - 1 = k
    <3>1. n \in Nat /\ k \in Nat /\ k + 1 <= n
      BY <1>3, <1>19
    <3> HIDE DEF n
    <3>2. QED BY <3>1
  <2>2. g[k + 1] = Refills(m, g[k], k + 1) /\ g[k] \in States
    BY <1>9, <1>17, <2>1
  <2> SUFFICES ASSUME NEW j \in DOMAIN venueSymbol
               PROVE  View(g[k + 1], j) = IF venueSymbol[j] \in m.symbols THEN Shown(k + 1, j)
                                          ELSE View(State, j)
    OBVIOUS
  <2>3. View(g[k + 1], j) = IF j = q[k + 1] THEN Taken(View(g[k], j), placed(k + 1)) ELSE View(g[k], j)
    BY <1>7, <2>1, <2>2
  <2>4. View(g[k], j) = IF venueSymbol[j] \in m.symbols THEN Shown(k, j) ELSE View(State, j)
    BY <1>19
  <2>5. CASE j = q[k + 1]
    <3>1. venueSymbol[j] \in m.symbols
      BY <1>5, <2>1, <2>5
    <3>2. Shown(k + 1, j) = {m.orders[j]}
      <4>1. k + 1 \in 1 .. k + 1
        OBVIOUS
      <4>2. QED BY <2>5, <4>1
    <3>3. \A v : Taken(v, placed(k + 1)) = IF v = {} THEN {m.orders[j]} ELSE v
      BY <2>5 DEF Taken
    <3>4. Shown(k, j) \in {{}, {m.orders[j]}}
      OBVIOUS
    <3> HIDE DEF placed, Shown
    <3>5. QED BY <2>3, <2>4, <2>5, <3>1, <3>2, <3>3, <3>4
  <2>6. CASE j # q[k + 1]
    <3>1. Shown(k + 1, j) = Shown(k, j)
      <4>1. \A i \in 1 .. k + 1 : i \in 1 .. k \/ i = k + 1
        OBVIOUS
      <4>2. 1 .. k \subseteq 1 .. k + 1
        OBVIOUS
      <4>3. (\E i \in 1 .. k + 1 : q[i] = j) <=> (\E i \in 1 .. k : q[i] = j)
        BY <2>6, <4>1, <4>2
      <4>4. QED BY <4>3
    <3> HIDE DEF Shown
    <3>2. QED BY <2>3, <2>4, <2>6, <3>1
  <2>7. QED BY <2>5, <2>6
<1> HIDE DEF Right
<1>20. 0 \in P /\ \A k \in Nat : k \in P => k + 1 \in P
  <2>1. ASSUME NEW k \in P, k + 1 <= n PROVE Right(k + 1)
    <3>1. k \in Nat /\ k <= n
      BY <1>3, <2>1
    <3>2. QED BY <1>19, <2>1, <3>1
  <2>2. QED BY <1>18, <2>1
<1> HIDE DEF P
<1>21. Nat \subseteq P
  BY <1>20, CountInduction
<1>22. n \in P /\ n <= n
  BY <1>3, <1>21
<1>23. Right(n)
  BY <1>22 DEF P
<1>24. ASSUME NEW j \in DOMAIN venueSymbol
       PROVE  View(Refilled(m), j) =
                 IF venueSymbol[j] \in m.symbols THEN In(m.orders, j) ELSE View(State, j)
  <2>1. View(Refilled(m), j) = IF venueSymbol[j] \in m.symbols THEN Shown(n, j) ELSE View(State, j)
    BY <1>13, <1>17, <1>23 DEF Right
  <2>2. (\E i \in 1 .. n : q[i] = j) <=> j \in DOMAIN m.orders
    BY <1>3
  <2>3. Shown(n, j) = In(m.orders, j)
    BY <2>2, InEither
  <2>4. QED BY <2>1, <2>3
<1>25. Refilled(m) \in States
  <2>1. n \in 0 .. n
    BY <1>3
  <2>2. QED BY <1>13, <1>17, <2>1
<1>26. QED BY <1>24, <1>25

-----------------------------------------------------------------------------
(* Types, routes and levels *)

Snapshots == [type : {"SNAPSHOT"}, symbols : SUBSET Symbols, seq : Nat, orders : Orders]
Replies == [type : {"HEARTBEAT"}] \cup Snapshots

VenueTyped ==
    /\ SymbolsTyped
    /\ venue \in Orders /\ DOMAIN venue \subseteq DOMAIN venueSymbol

FeedTyped ==
    /\ feed \in Seq(Messages)
    /\ \A i \in 1 .. Len(feed) : Named(feed[i])

ReplayTyped ==
    /\ replay \in Seq(Replies)
    /\ \A i \in 1 .. Len(replay) :
          replay[i].type = "SNAPSHOT" => Faithful(replay[i]) /\ replay[i].seq <= Len(feed)

\* What was read, lost and kept are places in the feed
PlacesTyped ==
    /\ liveRead \in 0 .. Len(feed) /\ lost \in SUBSET (1 .. liveRead)
    /\ liveBuffer \in Seq(Nat) /\ \A k \in 1 .. Len(liveBuffer) : liveBuffer[k] \in 1 .. liveRead
    /\ Len(liveBuffer) <= MaxBuffer + 1

ModesTyped ==
    /\ caughtUp \in BOOLEAN /\ receivedSnapshot \in BOOLEAN /\ stopped \in BOOLEAN
    /\ noReplayCount \in 0 .. QuietPolls + 1
    /\ ~caughtUp => noReplayCount <= QuietPolls

\* The histories
PastTyped ==
    /\ included \in [Symbols -> Int]
    /\ \A s \in Symbols : included[s] >= -1 /\ included[s] <= Len(feed)
    /\ doubtful \in SUBSET OrderIds

ListenerTyped ==
    /\ VenueTyped /\ FeedTyped /\ ReplayTyped /\ PlacesTyped /\ ModesTyped /\ PastTyped
    /\ State \in States

LEMMA InfoIsOrder ==
    ASSUME NEW info \in Info
    PROVE  info \in OrderInfo
BY InfoAssumption DEF OrderInfo

\* A state of the maps stays one when the venue uses another id.
LEMMA StatesGrow ==
    ASSUME NEW s \in States, UNCHANGED s, \A id \in DOMAIN venueSymbol :
              id \in DOMAIN venueSymbol' /\ venueSymbol'[id] = venueSymbol[id]
    PROVE  s \in States'
<1>1. s \in [books : [Symbols -> Books], route : Maps(OrderIds, Symbols)] /\ Placed(s)
  BY DEF States
<1>2. \A id \in DOMAIN s.route : id \in DOMAIN venueSymbol' /\ s.route[id] = venueSymbol'[id]
  BY <1>1 DEF Placed
<1>3. QED BY <1>1, <1>2 DEF States, Placed

\* The books and routes become a state.
LEMMA BecomesState ==
    ASSUME NEW s \in States, Becomes(s)
    PROVE  State' = s
<1>1. s = [books |-> s.books, route |-> s.route]
  BY DEF States
<1>2. QED BY <1>1 DEF Becomes, State

\* A message of the venue: its orders stay in bounds, the feed has one more.
LEMMA PublishTyped ==
    ASSUME ListenerTyped, NEW m \in Messages, Publish(m),
           venueSymbol' \in Maps(OrderIds, Symbols),
           \A id \in DOMAIN venueSymbol :
              id \in DOMAIN venueSymbol' /\ venueSymbol'[id] = venueSymbol[id],
           venue' \in Orders, DOMAIN venue' \subseteq DOMAIN venueSymbol',
           m.id \in DOMAIN venueSymbol', m.type = "NEW_ORDER" => m.symbol = venueSymbol'[m.id]
    PROVE  ListenerTyped'
<1>1. /\ feed' = Append(feed, m)
      /\ UNCHANGED <<replay, replays, liveRead, lost, bookVars, liveBuffer, modeVars, included, doubtful>>
  BY DEF Publish
<1>2. feed \in Seq(Messages) /\ \A i \in 1 .. Len(feed) : Named(feed[i])
  BY DEF ListenerTyped, FeedTyped
<1>3. /\ feed' \in Seq(Messages) /\ Len(feed') = Len(feed) + 1 /\ Len(feed) \in Nat
      /\ feed'[Len(feed) + 1] = m /\ \A i \in 1 .. Len(feed) : feed'[i] = feed[i]
  BY <1>1, <1>2
<1>4. FeedTyped'
  <2> SUFFICES ASSUME NEW i \in 1 .. Len(feed') PROVE Named(feed[i])'
    BY <1>3 DEF FeedTyped
  <2>1. CASE i = Len(feed) + 1
    BY <1>3, <2>1 DEF Named
  <2>2. CASE i # Len(feed) + 1
    <3>1. i \in 1 .. Len(feed)
      BY <1>3, <2>2
    <3>2. Named(feed[i]) /\ feed'[i] = feed[i]
      BY <1>2, <1>3, <3>1
    <3>3. QED BY <3>2 DEF Named
  <2>3. QED BY <2>1, <2>2
<1>5. VenueTyped'
  BY DEF VenueTyped, SymbolsTyped
<1>6. ReplayTyped'
  <2>1. \A i \in 1 .. Len(replay) :
           replay[i].type = "SNAPSHOT" => Faithful(replay[i]) /\ replay[i].seq <= Len(feed)
    BY DEF ListenerTyped, ReplayTyped
  <2>2. replay \in Seq(Replies) /\ replay' = replay
    BY <1>1 DEF ListenerTyped, ReplayTyped
  <2>3. ASSUME NEW i \in 1 .. Len(replay), replay[i].type = "SNAPSHOT"
        PROVE  Faithful(replay[i])' /\ replay[i].seq <= Len(feed')
    <3>1. Faithful(replay[i]) /\ replay[i].seq <= Len(feed)
      BY <2>1, <2>3
    <3>2. replay[i].seq \in Nat
      <4>1. replay[i] \in Replies
        BY <2>2
      <4>2. QED BY <2>3, <4>1 DEF Replies, Snapshots
    <3>3. Faithful(replay[i])'
      BY <2>2, <3>1 DEF Faithful
    <3>4. QED BY <1>3, <3>1, <3>2, <3>3
  <2>4. QED BY <2>2, <2>3 DEF ReplayTyped
<1>7. PlacesTyped'
  BY <1>1, <1>3 DEF ListenerTyped, PlacesTyped
<1>8. ModesTyped'
  BY <1>1 DEF ListenerTyped, ModesTyped, modeVars
<1>9. PastTyped'
  BY <1>1, <1>3 DEF ListenerTyped, PastTyped
<1>10. (State \in States)'
  <2>1. State \in States /\ State' = State
    BY <1>1 DEF ListenerTyped, bookVars, State
  <2>2. State \in States'
    BY <2>1, StatesGrow
  <2>3. QED BY <2>1, <2>2
<1>11. QED BY <1>4, <1>5, <1>6, <1>7, <1>8, <1>9, <1>10 DEF ListenerTyped

\* Every action of the venue on its book.
LEMMA VenueTypes ==
    ASSUME ListenerTyped, NEW id \in OrderIds,
           \/ \E info \in Info : VenueModify(id, info) \/ \E symbol \in Symbols : VenueNew(id, symbol, info)
           \/ VenueDelete(id) \/ \E qty \in {info.qty : info \in Info} : VenueTrade(id, qty)
    PROVE  ListenerTyped'
<1>0. /\ venue \in Orders /\ DOMAIN venue \subseteq DOMAIN venueSymbol
      /\ venueSymbol \in Maps(OrderIds, Symbols)
      /\ venue \in Maps(OrderIds, OrderInfo)
  BY DEF ListenerTyped, VenueTyped, SymbolsTyped, Orders
<1>1. ASSUME NEW info \in Info, NEW symbol \in Symbols, VenueNew(id, symbol, info) PROVE ListenerTyped'
  <2> DEFINE m == [type |-> "NEW_ORDER", id |-> id, symbol |-> symbol, info |-> info]
  <2>1. /\ id \notin DOMAIN venueSymbol /\ venue' = Put(venue, id, info)
        /\ venueSymbol' = Put(venueSymbol, id, symbol) /\ Publish(m)
    BY <1>1 DEF VenueNew
  <2>2. info \in OrderInfo
    BY InfoIsOrder
  <2>3. m \in Messages /\ m.id = id /\ m.symbol = symbol
    BY <2>2 DEF Messages
  <2>4. venueSymbol' \in Maps(OrderIds, Symbols) /\ venue' \in Orders
    BY <1>0, <2>1, <2>2, PutType DEF Orders
  <2>5. /\ DOMAIN venueSymbol' = DOMAIN venueSymbol \cup {id} /\ venueSymbol'[id] = symbol
        /\ \A j \in DOMAIN venueSymbol : j # id => venueSymbol'[j] = venueSymbol[j]
        /\ DOMAIN venue' = DOMAIN venue \cup {id}
    BY <2>1 DEF Put
  <2> HIDE DEF m
  <2>6. QED BY <1>0, <2>1, <2>3, <2>4, <2>5, PublishTyped
<1>2. ASSUME NEW info \in Info, VenueModify(id, info) PROVE ListenerTyped'
  <2> DEFINE m == [type |-> "MODIFY_ORDER", id |-> id, info |-> info]
  <2>1. id \in DOMAIN venue /\ venue' = Put(venue, id, info) /\ venueSymbol' = venueSymbol /\ Publish(m)
    BY <1>2 DEF VenueModify
  <2>2. info \in OrderInfo
    BY InfoIsOrder
  <2>3. m \in Messages /\ m.id = id /\ m.type # "NEW_ORDER"
    BY <2>2 DEF Messages
  <2>4. venue' \in Orders /\ DOMAIN venue' = DOMAIN venue \cup {id}
    <3>1. venue' \in Orders
      BY <1>0, <2>1, <2>2, PutType DEF Orders
    <3>2. QED BY <2>1, <3>1 DEF Put
  <2> HIDE DEF m
  <2>5. QED BY <1>0, <2>1, <2>3, <2>4, PublishTyped
<1>3. ASSUME VenueDelete(id) PROVE ListenerTyped'
  <2> DEFINE m == [type |-> "DELETE_ORDER", id |-> id]
  <2>1. id \in DOMAIN venue /\ venue' = Without(venue, id) /\ venueSymbol' = venueSymbol /\ Publish(m)
    BY <1>3 DEF VenueDelete
  <2>2. m \in Messages /\ m.id = id /\ m.type # "NEW_ORDER"
    BY DEF Messages
  <2>3. venue' \in Orders /\ DOMAIN venue' = DOMAIN venue \ {id}
    <3>1. venue' \in Orders
      BY <1>0, <2>1, WithoutType DEF Orders
    <3>2. QED BY <2>1, <3>1 DEF Without, Restrict
  <2> HIDE DEF m
  <2>4. QED BY <1>0, <2>1, <2>2, <2>3, PublishTyped
<1>4. ASSUME NEW qty \in {info.qty : info \in Info}, VenueTrade(id, qty) PROVE ListenerTyped'
  <2> DEFINE m == [type |-> "TRADE", id |-> id, qty |-> qty]
  <2>1. /\ id \in DOMAIN venue /\ qty \in 1 .. venue[id].qty
        /\ venue' = IF qty = venue[id].qty THEN Without(venue, id) ELSE [venue EXCEPT ![id].qty = @ - qty]
        /\ venueSymbol' = venueSymbol /\ Publish(m)
    BY <1>4 DEF VenueTrade
  <2>2. venue[id] \in OrderInfo /\ venue[id].qty \in Nat
    BY <1>0, <2>1, OrderFields
  <2>3. qty \in Nat \ {0}
    BY <2>1, <2>2
  <2>4. m \in Messages /\ m.id = id /\ m.type # "NEW_ORDER"
    BY <2>3 DEF Messages
  <2>5. venue' \in Orders /\ DOMAIN venue' \subseteq DOMAIN venue
    <3>1. CASE qty = venue[id].qty
      <4>1. venue' = Without(venue, id)
        BY <2>1, <3>1
      <4>2. venue' \in Orders
        BY <1>0, <4>1, WithoutType DEF Orders
      <4>3. QED BY <4>1, <4>2 DEF Without, Restrict
    <3>2. CASE qty # venue[id].qty
      <4>1. [venue[id] EXCEPT !.qty = @ - qty] \in OrderInfo
        BY <2>1, <2>2, <2>3, <3>2 DEF OrderInfo
      <4>2. venue' = [venue EXCEPT ![id] = [venue[id] EXCEPT !.qty = @ - qty]]
        BY <2>1, <3>2
      <4> DEFINE v == [venue[id] EXCEPT !.qty = @ - qty]
      <4> HIDE DEF v
      <4>3. DOMAIN venue \subseteq OrderIds /\ venue \in [DOMAIN venue -> OrderInfo]
        BY <1>0, MapType
      <4>4. venue' \in [DOMAIN venue -> OrderInfo]
        BY <4>1, <4>2, <4>3 DEF v
      <4>5. QED BY <4>3, <4>4, MapType DEF Orders
    <3>3. QED BY <3>1, <3>2
  <2> HIDE DEF m
  <2>6. QED BY <1>0, <2>1, <2>4, <2>5, PublishTyped
<1>5. QED BY <1>1, <1>2, <1>3, <1>4

\* An answer of the venue on the replay feed.
LEMMA ReplaysTyped ==
    ASSUME ListenerTyped, NEW m \in Replies, Replays(m),
           m.type = "SNAPSHOT" => Faithful(m) /\ m.seq <= Len(feed)
    PROVE  ListenerTyped'
<1>1. /\ replay' = Append(replay, m)
      /\ UNCHANGED <<venue, venueSymbol, feed, liveRead, lost, bookVars, liveBuffer, modeVars,
                     included, doubtful>>
  BY DEF Replays
<1>2. /\ replay \in Seq(Replies)
      /\ \A i \in 1 .. Len(replay) :
            replay[i].type = "SNAPSHOT" => Faithful(replay[i]) /\ replay[i].seq <= Len(feed)
  BY DEF ListenerTyped, ReplayTyped
<1>3. /\ replay' \in Seq(Replies) /\ Len(replay') = Len(replay) + 1 /\ Len(replay) \in Nat
      /\ replay'[Len(replay) + 1] = m /\ \A i \in 1 .. Len(replay) : replay'[i] = replay[i]
  BY <1>1, <1>2
<1>4. ReplayTyped'
  <2>1. ASSUME NEW i \in 1 .. Len(replay'), replay'[i].type = "SNAPSHOT"
        PROVE  Faithful(replay'[i]) /\ replay'[i].seq <= Len(feed)
    <3>1. CASE i = Len(replay) + 1
      BY <1>3, <2>1, <3>1
    <3>2. CASE i # Len(replay) + 1
      <4>1. i \in 1 .. Len(replay)
        BY <1>3, <3>2
      <4>2. QED BY <1>2, <1>3, <2>1, <4>1
    <3>3. QED BY <3>1, <3>2
  <2>2. QED BY <1>1, <1>3, <2>1 DEF ReplayTyped, Faithful
<1>5. /\ VenueTyped' /\ FeedTyped' /\ PlacesTyped' /\ ModesTyped' /\ PastTyped'
  BY <1>1 DEF ListenerTyped, VenueTyped, SymbolsTyped, FeedTyped, Named, PlacesTyped, ModesTyped,
     PastTyped, modeVars
<1>6. (State \in States)'
  BY <1>1 DEF ListenerTyped, State, States, Placed, bookVars
<1>7. QED BY <1>4, <1>5, <1>6 DEF ListenerTyped

\* What the venue's orders of some symbols are.
LEMMA SnapshotFaithful ==
    ASSUME ListenerTyped, NEW symbols \in SUBSET Symbols,
           NEW orders, orders = Restrict(venue, {id \in DOMAIN venue : venueSymbol[id] \in symbols})
    PROVE  /\ orders \in Orders
           /\ \A id \in DOMAIN orders : id \in DOMAIN venueSymbol /\ venueSymbol[id] \in symbols
           /\ \A id \in OrderIds : id \in DOMAIN venueSymbol /\ venueSymbol[id] \in symbols =>
                 In(orders, id) = In(venue, id)
<1> DEFINE D == {id \in DOMAIN venue : venueSymbol[id] \in symbols}
<1>1. /\ DOMAIN orders = D /\ orders = [id \in D |-> venue[id]]
      /\ \A id \in D : orders[id] = venue[id]
  BY DEF Restrict
<1>2. venue \in Orders /\ DOMAIN venue \subseteq DOMAIN venueSymbol
  BY DEF ListenerTyped, VenueTyped
<1>3. DOMAIN venue \subseteq OrderIds /\ venue \in [DOMAIN venue -> OrderInfo]
  BY <1>2, MapType DEF Orders
<1>4. orders \in [D -> OrderInfo]
  BY <1>3 DEF Restrict
<1>5. orders \in Orders
  BY <1>1, <1>3, <1>4, MapType DEF Orders
<1>6. QED BY <1>1, <1>2, <1>5, InEither

\* The listener takes a live packet, keeps it or misses it.
LEMMA LiveTyped ==
    ASSUME ListenerTyped, LoseLive \/ BufferLive \/ ApplyLive
    PROVE  ListenerTyped'
<1>1. UNCHANGED <<venue, venueSymbol, feed, replay, included, receivedSnapshot, caughtUp>>
  BY DEF LoseLive, BufferLive, ApplyLive, venueVars, modeVars
<1>2. VenueTyped' /\ FeedTyped' /\ ReplayTyped'
  BY <1>1 DEF ListenerTyped, VenueTyped, SymbolsTyped, FeedTyped, Named, ReplayTyped, Faithful
<1>3. /\ liveRead \in Nat /\ liveRead + 1 \in 1 .. Len(feed) /\ liveRead + 1 \in Nat /\ Len(feed) \in Nat
      /\ liveRead' = liveRead + 1
  <2>1. liveRead < Len(feed) /\ liveRead' = liveRead + 1
    BY DEF LoseLive, BufferLive, ApplyLive, NextLive
  <2>2. Len(feed) \in Nat /\ liveRead \in 0 .. Len(feed)
    BY DEF ListenerTyped, FeedTyped, PlacesTyped
  <2>3. QED BY <2>1, <2>2
<1>4. feed[liveRead + 1] \in Messages /\ Named(feed[liveRead + 1])
  BY <1>3 DEF ListenerTyped, FeedTyped
<1>5. feed[liveRead + 1].id \in OrderIds
  BY <1>4, MapType DEF Named, ListenerTyped, VenueTyped, SymbolsTyped
<1>6. /\ liveRead \in 0 .. Len(feed) /\ lost \in SUBSET (1 .. liveRead)
      /\ liveBuffer \in Seq(Nat) /\ \A k \in 1 .. Len(liveBuffer) : liveBuffer[k] \in 1 .. liveRead
      /\ Len(liveBuffer) <= MaxBuffer + 1
  BY DEF ListenerTyped, PlacesTyped
<1>7. PlacesTyped'
  <2>1. liveRead' \in 0 .. Len(feed') /\ 1 .. liveRead \subseteq 1 .. liveRead'
    BY <1>1, <1>3
  <2>2. lost' \in SUBSET (1 .. liveRead')
    <3>1. liveRead + 1 \in 1 .. liveRead'
      BY <1>3
    <3>2. lost' = lost \/ lost' = lost \cup {liveRead + 1}
      BY DEF LoseLive, BufferLive, ApplyLive
    <3>3. QED BY <1>6, <2>1, <3>1, <3>2
  <2>3. /\ liveBuffer' \in Seq(Nat) /\ \A k \in 1 .. Len(liveBuffer') : liveBuffer'[k] \in 1 .. liveRead'
        /\ Len(liveBuffer') <= MaxBuffer + 1
    <3>1. CASE liveBuffer' = liveBuffer
      BY <1>6, <2>1, <3>1
    <3>2. CASE liveBuffer' = Append(liveBuffer, liveRead + 1) /\ ~(Len(liveBuffer) > MaxBuffer)
      <4>1. /\ liveBuffer' \in Seq(Nat) /\ Len(liveBuffer') = Len(liveBuffer) + 1
            /\ Len(liveBuffer) \in Nat
            /\ liveBuffer'[Len(liveBuffer) + 1] = liveRead + 1
            /\ \A i \in 1 .. Len(liveBuffer) : liveBuffer'[i] = liveBuffer[i]
        BY <1>3, <1>6, <3>2
      <4>2. MaxBuffer \in Nat
        BY BoundsAssumption
      <4>3. ASSUME NEW k \in 1 .. Len(liveBuffer') PROVE liveBuffer'[k] \in 1 .. liveRead'
        <5>1. CASE k = Len(liveBuffer) + 1
          BY <1>3, <4>1, <5>1
        <5>2. CASE k # Len(liveBuffer) + 1
          <6>1. k \in 1 .. Len(liveBuffer)
            BY <4>1, <5>2
          <6>2. QED BY <1>6, <2>1, <4>1, <6>1
        <5>3. QED BY <5>1, <5>2
      <4>4. QED BY <3>2, <4>1, <4>2, <4>3
    <3>3. QED BY <3>1, <3>2 DEF LoseLive, BufferLive, ApplyLive, NextLive
  <2>4. QED BY <2>1, <2>2, <2>3 DEF PlacesTyped
<1>8. ModesTyped'
  <2>1. stopped' \in BOOLEAN
    BY DEF LoseLive, BufferLive, ApplyLive, ListenerTyped, ModesTyped, modeVars
  <2>2. noReplayCount' = noReplayCount \/ noReplayCount' = 0
    BY DEF LoseLive, BufferLive, ApplyLive, modeVars
  <2>3. QuietPolls \in Nat
    BY BoundsAssumption
  <2>4. QED BY <1>1, <2>1, <2>2, <2>3 DEF ListenerTyped, ModesTyped
<1>9. PastTyped'
  <2>1. doubtful' \in SUBSET OrderIds
    <3>1. doubtful \in SUBSET OrderIds
      BY DEF ListenerTyped, PastTyped
    <3>2. \/ doubtful' = doubtful \/ doubtful' = doubtful \cup {feed[liveRead + 1].id}
          \/ doubtful' = Doubts(doubtful, liveRead + 1)
      BY DEF LoseLive, BufferLive, ApplyLive, NextLive
    <3>3. QED BY <1>5, <3>1, <3>2 DEF Doubts
  <2>2. QED BY <1>1, <2>1 DEF ListenerTyped, PastTyped
<1>10. (State \in States)'
  <2>1. CASE LoseLive \/ BufferLive
    BY <1>1, <2>1 DEF LoseLive, BufferLive, ListenerTyped, State, States, Placed, bookVars
  <2>2. CASE ApplyLive
    <3>1. Dispatch(State, feed[liveRead + 1]) \in States
      BY <1>4, DispatchTakes DEF ListenerTyped, VenueTyped
    <3>2. State' = Dispatch(State, feed[liveRead + 1])
      BY <2>2, <3>1, BecomesState DEF ApplyLive, NextLive
    <3>3. QED BY <1>1, <3>1, <3>2 DEF States, Placed
  <2>3. QED BY <2>1, <2>2
<1>11. QED BY <1>2, <1>7, <1>8, <1>9, <1>10 DEF ListenerTyped

\* The reads of the replay feed take its first message.
LEMMA ReplayRead ==
    ASSUME ListenerTyped, replay # <<>>, replay' = Tail(replay), UNCHANGED <<feed, venueSymbol>>
    PROVE  /\ ReplayTyped'
           /\ Head(replay) = replay[1] /\ 1 \in 1 .. Len(replay) /\ replay[1] \in Replies
           /\ Len(replay') \in Nat
           /\ \A i \in 1 .. Len(replay') : i + 1 \in 1 .. Len(replay) /\ replay'[i] = replay[i + 1]
<1>1. /\ replay \in Seq(Replies)
      /\ \A i \in 1 .. Len(replay) :
            replay[i].type = "SNAPSHOT" => Faithful(replay[i]) /\ replay[i].seq <= Len(feed)
  BY DEF ListenerTyped, ReplayTyped
<1>2. /\ Len(replay) \in Nat /\ Len(replay) > 0 /\ Head(replay) = replay[1]
      /\ replay' \in Seq(Replies) /\ Len(replay') = Len(replay) - 1
      /\ \A i \in 1 .. Len(replay') : replay'[i] = replay[i + 1]
  BY <1>1
<1>3. \A i \in 1 .. Len(replay') : i + 1 \in 1 .. Len(replay)
  BY <1>2
<1>4. 1 \in 1 .. Len(replay) /\ replay[1] \in Replies
  BY <1>1, <1>2
<1>5. ReplayTyped'
  BY <1>1, <1>2, <1>3 DEF ReplayTyped, Faithful
<1>6. QED BY <1>2, <1>3, <1>4, <1>5

\* The snapshot as the thread reads it.
LEMMA SnapshotRead ==
    ASSUME ListenerTyped, ReadSnapshot
    PROVE  /\ replay[1] \in Snapshots /\ Faithful(replay[1]) /\ replay[1].seq <= Len(feed)
           /\ Becomes(Refilled(replay[1]))
<1>1. replay # <<>> /\ Head(replay).type = "SNAPSHOT" /\ replay' = Tail(replay)
      /\ UNCHANGED <<feed, venueSymbol>>
  BY DEF ReadSnapshot
<1>2. Head(replay) = replay[1] /\ 1 \in 1 .. Len(replay) /\ replay[1] \in Replies
  BY <1>1, ReplayRead
<1>3. replay[1] \in Snapshots /\ Faithful(replay[1]) /\ replay[1].seq <= Len(feed)
  BY <1>1, <1>2, SMTT(40) DEF ListenerTyped, ReplayTyped, Replies
<1>4. Becomes(Refilled(Head(replay)))
  BY Zenon DEF ReadSnapshot, FoldLeft, MapThenFoldSet, Refilled, IsRefill, Refills
<1>5. QED BY <1>2, <1>3, <1>4

LEMMA ReplayReadTyped ==
    ASSUME ListenerTyped, ReadHeartbeat \/ ReadSnapshot
    PROVE  ListenerTyped'
<1>1. /\ UNCHANGED <<venue, venueSymbol, feed, liveRead, lost, liveBuffer, caughtUp, stopped>>
      /\ replay # <<>> /\ replay' = Tail(replay) /\ noReplayCount' = 0
      /\ receivedSnapshot' \in {receivedSnapshot, TRUE}
  BY DEF ReadHeartbeat, ReadSnapshot
<1>2. ReplayTyped'
  <2>1. UNCHANGED <<feed, venueSymbol>>
    BY <1>1
  <2>2. QED BY <1>1, <2>1, ReplayRead
<1>3. QuietPolls \in Nat
  BY BoundsAssumption
<1>4. VenueTyped' /\ FeedTyped' /\ PlacesTyped' /\ ModesTyped'
  <2>1. VenueTyped'
    BY <1>1 DEF ListenerTyped, VenueTyped, SymbolsTyped
  <2>2. FeedTyped'
    BY <1>1 DEF ListenerTyped, FeedTyped, Named
  <2>3. PlacesTyped'
    BY <1>1 DEF ListenerTyped, PlacesTyped
  <2>4. ModesTyped'
    <3>1. receivedSnapshot' \in BOOLEAN
      BY <1>1 DEF ListenerTyped, ModesTyped
    <3>2. QED BY <1>1, <1>3, <3>1 DEF ListenerTyped, ModesTyped
  <2>5. QED BY <2>1, <2>2, <2>3, <2>4
<1>5. CASE ReadHeartbeat
  <2>1. UNCHANGED <<books, orderToSymbol, included, doubtful>>
    BY <1>5 DEF ReadHeartbeat, bookVars
  <2>2. PastTyped' /\ (State \in States)'
    BY <1>1, <2>1 DEF ListenerTyped, PastTyped, State, States, Placed
  <2>3. QED BY <1>2, <1>4, <2>2 DEF ListenerTyped
<1>6. CASE ReadSnapshot
  <2>1. /\ replay[1] \in Snapshots /\ Faithful(replay[1]) /\ replay[1].seq <= Len(feed)
        /\ Becomes(Refilled(replay[1])) /\ Head(replay) = replay[1]
    BY <1>1, <1>6, SnapshotRead, ReplayRead
  <2>2. Refilled(replay[1]) \in States
    BY <2>1, RefillByStep DEF ListenerTyped, VenueTyped
  <2>3. State' = Refilled(replay[1])
    BY <2>1, <2>2, BecomesState
  <2>4. (State \in States)'
    BY <1>1, <2>2, <2>3 DEF States, Placed
  <2>5. replay[1].seq \in Nat
    BY <2>1 DEF Snapshots
  <2> DEFINE m == replay[1]
             undone == {feed[i].id : i \in IF caughtUp THEN m.seq + 1 .. liveRead ELSE {i \in lost : i > m.seq}}
  <2>6. /\ included' = [s \in Symbols |-> IF s \in m.symbols THEN m.seq ELSE included[s]]
        /\ doubtful' \subseteq doubtful \cup undone
    BY <1>6, <2>1 DEF ReadSnapshot
  <2>7. undone \subseteq OrderIds
    <3>1. \A i \in 1 .. Len(feed) : feed[i].id \in OrderIds
      BY MapType DEF ListenerTyped, FeedTyped, VenueTyped, SymbolsTyped, Named
    <3>2. liveRead \in 0 .. Len(feed) /\ lost \subseteq 1 .. liveRead /\ Len(feed) \in Nat
      BY DEF ListenerTyped, PlacesTyped, FeedTyped
    <3>3. \A i \in m.seq + 1 .. liveRead : i \in 1 .. Len(feed)
      BY <2>5, <3>2
    <3>4. \A i \in lost : i \in 1 .. Len(feed)
      BY <3>2
    <3>5. QED BY <3>1, <3>3, <3>4
  <2>8. PastTyped'
    <3>1. doubtful' \in SUBSET OrderIds
      BY <2>6, <2>7 DEF ListenerTyped, PastTyped
    <3>2. m.seq \in Int /\ m.seq >= -1 /\ m.seq <= Len(feed)
      BY <2>1, <2>5
    <3> HIDE DEF m
    <3>3. included' \in [Symbols -> Int] /\ \A s \in Symbols : included'[s] >= -1 /\ included'[s] <= Len(feed)
      BY <2>6, <3>2 DEF ListenerTyped, PastTyped
    <3>4. QED BY <1>1, <3>1, <3>3 DEF PastTyped
  <2>9. QED BY <1>2, <1>4, <2>4, <2>8 DEF ListenerTyped
<1>7. QED BY <1>5, <1>6

\* The messages kept are the venue's.
LEMMA BufferedMessages ==
    ASSUME ListenerTyped
    PROVE  /\ Len(liveBuffer) \in Nat /\ DOMAIN liveBuffer = 1 .. Len(liveBuffer)
           /\ \A i \in 1 .. liveRead :
                 feed[i] \in Messages /\ Named(feed[i]) /\ feed[i].id \in OrderIds
           /\ \A k \in 1 .. Len(liveBuffer) :
                 /\ liveBuffer[k] \in 1 .. liveRead
                 /\ feed[liveBuffer[k]] \in Messages /\ Named(feed[liveBuffer[k]])
                 /\ feed[liveBuffer[k]].id \in OrderIds
<1>1. liveBuffer \in Seq(Nat) /\ \A k \in 1 .. Len(liveBuffer) : liveBuffer[k] \in 1 .. liveRead
  BY DEF ListenerTyped, PlacesTyped
<1>2. liveRead \in 0 .. Len(feed) /\ Len(feed) \in Nat
  BY DEF ListenerTyped, PlacesTyped, FeedTyped
<1>3. \A i \in 1 .. liveRead : i \in 1 .. Len(feed)
  BY <1>2
<1>4. \A i \in 1 .. Len(feed) : feed[i] \in Messages /\ Named(feed[i]) /\ feed[i].id \in OrderIds
  BY MapType DEF ListenerTyped, FeedTyped, VenueTyped, SymbolsTyped, Named
<1>5. QED BY <1>1, <1>3, <1>4

LEMMA QuietPollTyped ==
    ASSUME ListenerTyped, QuietPoll
    PROVE  ListenerTyped'
<1>1. /\ UNCHANGED <<venue, venueSymbol, feed, replay, liveRead, lost, receivedSnapshot, stopped, included>>
      /\ ~caughtUp /\ noReplayCount' = noReplayCount + 1
  BY DEF QuietPoll, venueVars
<1>2. VenueTyped' /\ FeedTyped' /\ ReplayTyped'
  BY <1>1 DEF ListenerTyped, VenueTyped, SymbolsTyped, FeedTyped, Named, ReplayTyped, Faithful
<1>3. QuietPolls \in Nat /\ MaxBuffer \in Nat
  BY BoundsAssumption
<1>4. CASE noReplayCount' > QuietPolls
  <2>1. caughtUp' = TRUE /\ Becomes(Drain) /\ doubtful' = Doubted /\ liveBuffer' = <<>>
    BY <1>4 DEF QuietPoll, Doubted
  <2> DEFINE n == Len(liveBuffer)
  <2>2. /\ n \in Nat /\ DOMAIN liveBuffer = 1 .. n
        /\ \A k \in 1 .. n : feed[liveBuffer[k]] \in Messages /\ Named(feed[liveBuffer[k]])
        /\ \A k \in 1 .. n : feed[liveBuffer[k]].id \in OrderIds
    BY BufferedMessages
  <2> HIDE DEF n
  <2>3. Drain \in States
    <3>1. n \in 0 .. n
      BY <2>2
    <3>2. QED BY <2>2, <3>1, DrainByStep DEF ListenerTyped, VenueTyped
  <2>4. State' = Drain
    BY <2>1, <2>3, BecomesState
  <2>5. (State \in States)'
    BY <1>1, <2>3, <2>4 DEF States, Placed
  <2>6. doubtful' \in SUBSET OrderIds
    <3>1. n \in 0 .. n /\ doubtful \subseteq OrderIds
      BY <2>2 DEF ListenerTyped, PastTyped
    <3>2. QED BY <2>1, <2>2, <3>1, DoubtByStep
  <2>7. PastTyped'
    BY <1>1, <2>6 DEF ListenerTyped, PastTyped
  <2>8. PlacesTyped'
    <3>1. liveBuffer' \in Seq(Nat) /\ Len(liveBuffer') = 0
      BY <2>1
    <3>2. QED BY <1>1, <1>3, <3>1 DEF ListenerTyped, PlacesTyped
  <2>9. ModesTyped'
    BY <1>1, <1>3, <2>1 DEF ListenerTyped, ModesTyped
  <2>10. QED BY <1>2, <2>5, <2>7, <2>8, <2>9 DEF ListenerTyped
<1>5. CASE ~(noReplayCount' > QuietPolls)
  <2>1. UNCHANGED <<caughtUp, books, orderToSymbol, doubtful, liveBuffer>>
    BY <1>5 DEF QuietPoll, bookVars
  <2>2. ModesTyped'
    BY <1>1, <1>3, <1>5, <2>1 DEF ListenerTyped, ModesTyped
  <2>3. PlacesTyped' /\ PastTyped' /\ (State \in States)'
    BY <1>1, <2>1 DEF ListenerTyped, PlacesTyped, PastTyped, State, States, Placed
  <2>4. QED BY <1>2, <2>2, <2>3 DEF ListenerTyped
<1>6. QED BY <1>4, <1>5

LEMMA InitTyped == Init => ListenerTyped
<1> SUFFICES ASSUME Init PROVE ListenerTyped
  OBVIOUS
<1>1. PICK info \in Info, id \in OrderIds, symbol \in Symbols :
         \/ venue = EmptyMap /\ venueSymbol = EmptyMap
         \/ venue = Put(EmptyMap, id, info) /\ venueSymbol = Put(EmptyMap, id, symbol)
  BY DEF Init
<1>2. VenueTyped
  <2>1. info \in OrderInfo
    BY InfoIsOrder
  <2>2. /\ EmptyMap \in Maps(OrderIds, OrderInfo) /\ EmptyMap \in Maps(OrderIds, Symbols)
        /\ DOMAIN EmptyMap = {}
    BY EmptyMapType
  <2>3. /\ Put(EmptyMap, id, info) \in Maps(OrderIds, OrderInfo)
        /\ Put(EmptyMap, id, symbol) \in Maps(OrderIds, Symbols)
    BY <2>1, <2>2, PutType
  <2>4. DOMAIN Put(EmptyMap, id, info) = {id} /\ DOMAIN Put(EmptyMap, id, symbol) = {id}
    BY <2>2 DEF Put
  <2>5. QED BY <1>1, <2>2, <2>3, <2>4 DEF VenueTyped, SymbolsTyped, Orders
<1>3. FeedTyped /\ ReplayTyped
  <2>1. /\ feed \in Seq(Messages) /\ replay \in Seq(Replies)
        /\ 1 .. Len(feed) = {} /\ 1 .. Len(replay) = {}
    <3>1. feed = <<>> /\ replay = <<>>
      BY DEF Init
    <3>2. QED BY <3>1
  <2>2. FeedTyped
    BY <2>1 DEF FeedTyped
  <2>3. ReplayTyped
    BY <2>1 DEF ReplayTyped
  <2>4. QED BY <2>2, <2>3
<1>4. QuietPolls \in Nat /\ MaxBuffer \in Nat
  BY BoundsAssumption
<1>5. PlacesTyped
  <2>1. Len(feed) = 0 /\ Len(liveBuffer) = 0 /\ liveBuffer \in Seq(Nat)
    BY DEF Init
  <2>2. QED BY <1>4, <2>1 DEF Init, PlacesTyped
<1>6. ModesTyped
  <2>1. caughtUp \in BOOLEAN /\ receivedSnapshot \in BOOLEAN /\ stopped \in BOOLEAN
    BY DEF Init
  <2>2. noReplayCount \in 0 .. QuietPolls + 1 /\ noReplayCount <= QuietPolls
    BY <1>4 DEF Init
  <2>3. QED BY <2>1, <2>2 DEF ModesTyped
<1>7. PastTyped
  <2>1. Len(feed) = 0
    BY DEF Init
  <2>2. QED BY <2>1 DEF Init, PastTyped
<1>8. State \in States
  <2>1. EmptyBook \in Books /\ EmptyBook.orders = EmptyMap /\ DOMAIN EmptyMap = {}
    BY EmptyBookIs, EmptyMapType DEF Books, EmptyBook
  <2>2. State.books = [s \in Symbols |-> EmptyBook] /\ State.route = EmptyMap
    BY DEF Init, State
  <2>3. State \in [books : [Symbols -> Books], route : Maps(OrderIds, Symbols)]
    BY <2>1, <2>2, EmptyMapType DEF State
  <2>4. Placed(State)
    BY <2>1, <2>2 DEF Placed
  <2>5. QED BY <2>3, <2>4 DEF States
<1>9. QED BY <1>2, <1>3, <1>5, <1>6, <1>7, <1>8 DEF ListenerTyped

LEMMA StepTyped == ListenerTyped /\ [Next]_vars => ListenerTyped'
<1> SUFFICES ASSUME ListenerTyped, [Next]_vars PROVE ListenerTyped'
  OBVIOUS
<1>1. CASE \E id \in OrderIds :
              \/ \E info \in Info : VenueModify(id, info) \/ \E symbol \in Symbols : VenueNew(id, symbol, info)
              \/ VenueDelete(id) \/ \E qty \in {info.qty : info \in Info} : VenueTrade(id, qty)
  BY <1>1, VenueTypes
<1>2. ASSUME NEW symbols \in SUBSET Symbols, VenueSnapshot(symbols) PROVE ListenerTyped'
  <2> DEFINE orders == Restrict(venue, {id \in DOMAIN venue : venueSymbol[id] \in symbols})
             m == [type |-> "SNAPSHOT", symbols |-> symbols, seq |-> Len(feed), orders |-> orders]
  <2>1. /\ orders \in Orders
        /\ \A id \in DOMAIN orders : id \in DOMAIN venueSymbol /\ venueSymbol[id] \in symbols
    BY SnapshotFaithful
  <2>2. Len(feed) \in Nat
    BY DEF ListenerTyped, FeedTyped
  <2>3. Replays(m)
    BY <1>2 DEF VenueSnapshot
  <2> HIDE DEF orders
  <2>4. m \in Replies /\ Faithful(m) /\ m.seq <= Len(feed)
    BY <2>1, <2>2 DEF Replies, Snapshots, Faithful
  <2> HIDE DEF m
  <2>5. QED BY <2>3, <2>4, ReplaysTyped
<1>3. CASE VenueHeartbeat
  <2> DEFINE m == [type |-> "HEARTBEAT"]
  <2>1. m \in Replies /\ m.type # "SNAPSHOT" /\ Replays(m)
    BY <1>3 DEF Replies, VenueHeartbeat
  <2> HIDE DEF m
  <2>2. QED BY <2>1, ReplaysTyped
<1>4. CASE LoseLive \/ BufferLive \/ ApplyLive
  BY <1>4, LiveTyped
<1>5. CASE ReadHeartbeat \/ ReadSnapshot
  BY <1>5, ReplayReadTyped
<1>6. CASE QuietPoll
  BY <1>6, QuietPollTyped
<1>7. CASE UNCHANGED vars
  BY <1>7 DEF vars, venueVars, bookVars, modeVars, ListenerTyped, VenueTyped, SymbolsTyped, FeedTyped,
     Named, ReplayTyped, Faithful, PlacesTyped, ModesTyped, PastTyped, State, States, Placed
<1>8. QED
  <2>1. CASE Venue
    <3>1. CASE \E id \in OrderIds, info \in Info :
                  VenueModify(id, info) \/ \E symbol \in Symbols : VenueNew(id, symbol, info)
      BY <1>1, <3>1
    <3>2. CASE \E id \in OrderIds : VenueDelete(id) \/ \E qty \in {info.qty : info \in Info} : VenueTrade(id, qty)
      BY <1>1, <3>2
    <3>3. CASE \E symbols \in SUBSET Symbols \ {{}} : VenueSnapshot(symbols)
      BY <1>2, <3>3
    <3>4. QED BY <1>3, <2>1, <3>1, <3>2, <3>3 DEF Venue
  <2>2. QED BY <1>4, <1>5, <1>6, <1>7, <2>1 DEF Next, Network, Loop

LEMMA ListenerInvariance == Spec => []ListenerTyped
BY InitTyped, StepTyped, PTL DEF Spec

\* The maps, the counters and the buffer keep their types and bounds; in particular no
\* book holds an order of which nothing is left.
THEOREM ListenerTypes == Spec => []TypeOK
<1>1. ListenerTyped => TypeOK
  <2> SUFFICES ASSUME ListenerTyped PROVE TypeOK
    OBVIOUS
  <2>1. \A s \in Symbols : \A id \in DOMAIN books[s].orders : books[s].orders[id].qty > 0
    <3> SUFFICES ASSUME NEW s \in Symbols, NEW id \in DOMAIN books[s].orders
                 PROVE  books[s].orders[id].qty > 0
      OBVIOUS
    <3>1. State.books[s].orders \in Orders
      BY BookInState DEF ListenerTyped, VenueTyped
    <3>2. books[s].orders \in Orders
      BY <3>1 DEF State
    <3>3. books[s].orders[id].qty \in Nat \ {0}
      BY <3>2, OrderFields
    <3>4. QED BY <3>3
  <2>2. \A id \in DOMAIN orderToSymbol : orderToSymbol[id] \in Symbols
    <3>1. orderToSymbol \in Maps(OrderIds, Symbols)
      BY DEF ListenerTyped, States, State
    <3>2. QED BY <3>1, MapType
  <2>3. QED BY <2>1, <2>2 DEF TypeOK, ListenerTyped, VenueTyped, PlacesTyped, ModesTyped, PastTyped
<1>2. QED BY <1>1, ListenerInvariance, PTL

\* The levels, which every handler adjusts on its own and which are all the strategy
\* sees, are always those of the orders of the book.
THEOREM LevelsAreOfOrders == Spec => []LevelsMatchOrders
<1>1. ListenerTyped => LevelsMatchOrders
  <2> SUFFICES ASSUME ListenerTyped, NEW s \in Symbols, NEW side \in Side
               PROVE  books[s].levels[side] = LevelOfOrders(books[s], side)
    BY DEF LevelsMatchOrders
  <2>1. State.books[s].orders \in Orders /\ State.books[s] = BookOf(State.books[s].orders)
    BY BookInState DEF ListenerTyped, VenueTyped
  <2>2. books[s].orders \in Orders /\ books[s] = BookOf(books[s].orders)
    BY <2>1 DEF State
  <2>3. books[s].levels[side] = Ladder(Depth(books[s].orders, side))
    <3>1. BookOf(books[s].orders).levels = Ladders(books[s].orders)
      BY DEF BookOf
    <3>2. QED BY <2>2, <3>1 DEF Ladders
  <2>4. QED BY <2>2, <2>3, LevelsAreLadders
<1>2. QED BY <1>1, ListenerInvariance, PTL

\* Every booked order has its route, and no order is booked under two symbols.
THEOREM RoutesFindOrders == Spec => []BookedOrdersAreRouted
<1>1. ListenerTyped => BookedOrdersAreRouted
  BY DEF ListenerTyped, BookedOrdersAreRouted, State, States, Placed
<1>2. QED BY <1>1, ListenerInvariance, PTL

-----------------------------------------------------------------------------
(* The listener's books and the venue's *)

Inc(id) == included[venueSymbol[id]]

\* V is the venue's book before the feed and after each of its messages
History(V) ==
    /\ V \in [0 .. Len(feed) -> Orders] /\ V[Len(feed)] = venue
    /\ \A i \in 0 .. Len(feed) : DOMAIN V[i] \subseteq DOMAIN venueSymbol
    /\ \A i \in 1 .. Len(feed) :
          /\ feed[i].type = "NEW_ORDER" <=> In(V[i - 1], feed[i].id) = {}
          /\ In(V[i], feed[i].id) = Taken(In(V[i - 1], feed[i].id), feed[i])
          /\ \A j \in OrderIds : j # feed[i].id => In(V[i], j) = In(V[i - 1], j)

\* What an order is when the messages up to i have been applied to what the last snapshot
\* of its symbol had: up to the snapshot's own place it is still what that had, or what
\* the venue had at i, if no message that would bring it on is missing
Kept(V, missing, v, id, i) ==
    IF i > Inc(id) THEN v = In(V[i], id)
    ELSE \/ v = In(V[Inc(id)], id)
         \/ v = In(V[i], id) /\ \A j \in missing : j \in i + 1 .. Inc(id) => feed[j].id # id

\* A snapshot on its way has the orders of its time
SnapsRight(V) ==
    \A k \in 1 .. Len(replay) : replay[k].type = "SNAPSHOT" =>
       \A id \in DOMAIN venueSymbol : venueSymbol[id] \in replay[k].symbols =>
          In(replay[k].orders, id) = In(V[replay[k].seq], id)

\* Before the switch the books are those of the snapshots, after it what was applied since
EarlyRight(V) ==
    ~caughtUp => \A id \in DOMAIN venueSymbol : Inc(id) >= 0 => View(State, id) = In(V[Inc(id)], id)
LateRight(V) ==
    caughtUp => \A id \in DOMAIN venueSymbol : Inc(id) >= 0 /\ id \notin doubtful =>
       Kept(V, lost, View(State, id), id, liveRead)

\* A message lost after the snapshot of its symbol makes its order doubtful
LostDoubted ==
    \A j \in lost : Inc(feed[j].id) >= 0 /\ j > Inc(feed[j].id) => feed[j].id \in doubtful

\* The buffer has all that was read and not lost, in order
Upto(k) == IF k = 0 THEN 0 ELSE liveBuffer[k]
BufferOrdered ==
    ~caughtUp /\ ~stopped =>
       /\ \A k \in 1 .. Len(liveBuffer) :
             /\ Upto(k - 1) < liveBuffer[k] /\ liveBuffer[k] \notin lost
             /\ \A i \in Upto(k - 1) + 1 .. liveBuffer[k] - 1 : i \in lost
       /\ \A i \in Upto(Len(liveBuffer)) + 1 .. liveRead : i \in lost

Right(V) == History(V) /\ SnapsRight(V) /\ EarlyRight(V) /\ LateRight(V)

ListenerInv == ListenerTyped /\ LostDoubted /\ BufferOrdered /\ \E V : Right(V)

\* The places that the invariant speaks of.
LEMMA Places ==
    ASSUME ListenerTyped
    PROVE  /\ Len(feed) \in Nat /\ liveRead \in Nat /\ liveRead <= Len(feed)
           /\ \A j \in lost : j \in 1 .. liveRead /\ j \in 1 .. Len(feed)
           /\ \A id \in DOMAIN venueSymbol :
                 id \in OrderIds /\ venueSymbol[id] \in Symbols
                 /\ Inc(id) \in Int /\ Inc(id) >= -1 /\ Inc(id) <= Len(feed)
           /\ \A i \in 1 .. Len(feed) : feed[i] \in Messages /\ Named(feed[i])
                 /\ feed[i].id \in DOMAIN venueSymbol /\ feed[i].id \in OrderIds
<1>1. Len(feed) \in Nat /\ liveRead \in 0 .. Len(feed) /\ lost \in SUBSET (1 .. liveRead)
  BY DEF ListenerTyped, FeedTyped, PlacesTyped
<1>2. \A id \in DOMAIN venueSymbol : id \in OrderIds /\ venueSymbol[id] \in Symbols
  BY MapType DEF ListenerTyped, VenueTyped, SymbolsTyped
<1>3. \A id \in DOMAIN venueSymbol : Inc(id) \in Int /\ Inc(id) >= -1 /\ Inc(id) <= Len(feed)
  BY <1>2 DEF Inc, ListenerTyped, PastTyped
<1>4. \A i \in 1 .. Len(feed) : feed[i] \in Messages /\ Named(feed[i]) /\ feed[i].id \in DOMAIN venueSymbol
  BY DEF ListenerTyped, FeedTyped, Named
<1>5. \A j \in lost : j \in 1 .. liveRead /\ j \in 1 .. Len(feed)
  BY <1>1
<1>6. QED BY <1>1, <1>2, <1>3, <1>4, <1>5

\* A message for another order passes an order by.
LEMMA KeptPasses ==
    ASSUME ListenerTyped, NEW V, History(V), NEW id \in DOMAIN venueSymbol, Inc(id) >= 0,
           NEW i \in 1 .. Len(feed), feed[i].id # id, NEW v, NEW missing, NEW more,
           \A j \in more : j \in missing \/ j = i,
           Kept(V, missing, v, id, i - 1)
    PROVE  Kept(V, more, v, id, i)
<1>1. Inc(id) \in Nat /\ id \in OrderIds /\ Len(feed) \in Nat
  BY Places
<1>2. In(V[i], id) = In(V[i - 1], id)
  BY <1>1 DEF History
<1>3. CASE i - 1 > Inc(id)
  BY <1>1, <1>2, <1>3 DEF Kept
<1>4. CASE i - 1 = Inc(id)
  BY <1>1, <1>2, <1>4 DEF Kept
<1>5. CASE i - 1 < Inc(id)
  <2>1. ~(i > Inc(id)) /\ ~(i - 1 > Inc(id)) /\ i \in Int
    BY <1>1, <1>5
  <2>2. CASE v = In(V[Inc(id)], id)
    BY <2>1, <2>2 DEF Kept
  <2>3. CASE v = In(V[i - 1], id) /\ \A j \in missing : j \in (i - 1) + 1 .. Inc(id) => feed[j].id # id
    <3>1. ASSUME NEW j \in more, j \in i + 1 .. Inc(id) PROVE feed[j].id # id
      <4>1. j # i /\ j \in (i - 1) + 1 .. Inc(id)
        BY <1>1, <2>1, <3>1
      <4>2. QED BY <2>3, <4>1
    <3>2. QED BY <1>2, <2>1, <2>3, <3>1 DEF Kept
  <2>4. QED BY <2>1, <2>2, <2>3 DEF Kept
<1>6. QED BY <1>1, <1>3, <1>4, <1>5

\* A lost message that the snapshot has does no harm.
LEMMA KeptSkips ==
    ASSUME ListenerTyped, LostDoubted, NEW V, History(V), NEW id \in DOMAIN venueSymbol, Inc(id) >= 0,
           id \notin doubtful, NEW i \in lost, NEW v, Kept(V, lost, v, id, i - 1)
    PROVE  Kept(V, lost, v, id, i)
<1>1. i \in 1 .. Len(feed) /\ Inc(id) \in Nat
  BY Places
<1>2. CASE feed[i].id # id
  <2>1. \A j \in lost : j \in lost \/ j = i
    OBVIOUS
  <2>2. QED BY <1>1, <1>2, <2>1, KeptPasses
<1>3. CASE feed[i].id = id
  <2>1. ~(i > Inc(id))
    BY <1>3 DEF LostDoubted
  <2>2. ~(i - 1 > Inc(id)) /\ i \in (i - 1) + 1 .. Inc(id)
    BY <1>1, <2>1
  <2>3. v = In(V[Inc(id)], id)
    BY <1>3, <2>2 DEF Kept
  <2>4. QED BY <2>1, <2>3 DEF Kept
<1>4. QED BY <1>2, <1>3

\* Applying the order's message at i: again where the snapshot has it, or once.
LEMMA KeptTakes ==
    ASSUME ListenerTyped, NEW V, History(V), NEW i \in 1 .. Len(feed), Inc(feed[i].id) >= 0,
           i <= Inc(feed[i].id) =>
              /\ feed[i].type # "TRADE"
              /\ \A j \in lost : j \in i .. Inc(feed[i].id) => feed[j].id # feed[i].id,
           NEW v, Kept(V, lost, v, feed[i].id, i - 1)
    PROVE  Kept(V, lost, Taken(v, feed[i]), feed[i].id, i)
<1> DEFINE id == feed[i].id
           m == feed[i]
<1>1. Inc(id) \in Nat /\ m \in Messages /\ Len(feed) \in Nat
  BY Places
<1>2. /\ m.type = "NEW_ORDER" <=> In(V[i - 1], id) = {}
      /\ In(V[i], id) = Taken(In(V[i - 1], id), m)
  BY DEF History
<1>3. CASE i > Inc(id)
  <2>1. i - 1 > Inc(id) \/ i - 1 = Inc(id)
    BY <1>1, <1>3
  <2>2. v = In(V[i - 1], id)
    BY <1>1, <2>1 DEF Kept
  <2>3. QED BY <1>2, <1>3, <2>2 DEF Kept
<1>4. CASE ~(i > Inc(id))
  <2>1. i <= Inc(id) /\ ~(i - 1 > Inc(id))
    BY <1>1, <1>4
  <2>2. /\ m.type # "TRADE"
        /\ \A j \in lost : j \in i + 1 .. Inc(id) => feed[j].id # id
    <3>1. \A j : j \in i + 1 .. Inc(id) => j \in i .. Inc(id)
      BY <1>1
    <3>2. QED BY <2>1, <3>1
  <2>3. m.type \in {"NEW_ORDER", "DELETE_ORDER", "MODIFY_ORDER"}
    BY <1>1, <2>2 DEF Messages
  <2>4. v = In(V[Inc(id)], id) \/ v = In(V[i - 1], id)
    BY <2>1 DEF Kept
  <2> HIDE DEF id, m
  <2>5. Taken(v, m) = In(V[Inc(id)], id) \/ Taken(v, m) = In(V[i], id)
    <3>1. CASE m.type = "NEW_ORDER"
      <4>1. \A w : Taken(w, m) = IF w = {} THEN {m.info} ELSE w
        BY <3>1 DEF Taken
      <4>2. QED BY <1>2, <2>4, <3>1, <4>1
    <3>2. CASE m.type = "DELETE_ORDER"
      <4>1. \A w : Taken(w, m) = {}
        BY <3>2 DEF Taken
      <4>2. QED BY <1>2, <4>1
    <3>3. CASE m.type = "MODIFY_ORDER"
      <4>1. \A w : Taken(w, m) = IF w = {} THEN w ELSE {m.info}
        BY <3>3 DEF Taken
      <4>2. In(V[i - 1], id) # {}
        BY <1>2, <3>3
      <4>3. QED BY <1>2, <2>4, <4>1, <4>2
    <3>4. QED BY <2>3, <3>1, <3>2, <3>3
  <2>6. Kept(V, lost, Taken(v, m), id, i)
    BY <1>4, <2>2, <2>5 DEF Kept
  <2>7. QED BY <2>6 DEF id, m
<1>5. QED BY <1>3, <1>4

\* A row of lost messages.
LEMMA KeptSkipsRow ==
    ASSUME ListenerTyped, LostDoubted, NEW V, History(V), NEW id \in DOMAIN venueSymbol, Inc(id) >= 0,
           id \notin doubtful, NEW a \in Nat, NEW b \in Nat, a <= b,
           \A i \in a + 1 .. b : i \in lost, NEW v, Kept(V, lost, v, id, a)
    PROVE  Kept(V, lost, v, id, b)
<1> DEFINE P == {n \in Nat : a + n <= b => Kept(V, lost, v, id, a + n)}
<1>1. 0 \in P
  <2>1. a + 0 = a
    OBVIOUS
  <2>2. QED BY <2>1
<1>2. ASSUME NEW n \in P PROVE n + 1 \in P
  <2>1. n \in Nat
    OBVIOUS
  <2>2. ASSUME a + (n + 1) <= b PROVE Kept(V, lost, v, id, a + (n + 1))
    <3> DEFINE i == a + (n + 1)
    <3>1. a + n <= b /\ i \in a + 1 .. b /\ i - 1 = a + n
      BY <2>1, <2>2
    <3>2. Kept(V, lost, v, id, a + n)
      BY <1>2, <3>1
    <3>3. i \in lost
      BY <3>1
    <3> HIDE DEF i
    <3>4. Kept(V, lost, v, id, i - 1)
      BY <3>1, <3>2
    <3>5. Kept(V, lost, v, id, i)
      BY <3>3, <3>4, KeptSkips
    <3>6. QED BY <3>5 DEF i
  <2>3. QED BY <2>1, <2>2
<1> HIDE DEF P
<1>3. \A n \in Nat : n \in P => n + 1 \in P
  BY <1>2
<1>4. Nat \subseteq P
  BY <1>1, <1>3, CountInduction
<1>5. b - a \in P /\ a + (b - a) = b
  BY <1>4
<1>6. QED BY <1>5 DEF P

\* What the invariant needs of a step on the venue's side that keeps the listener as it was.
LEMMA NotYetSeen ==
    ASSUME ListenerTyped, NEW V, History(V), NEW id \in OrderIds, id \notin DOMAIN venueSymbol
    PROVE  /\ \A i \in 0 .. Len(feed) : In(V[i], id) = {}
           /\ \A s \in Symbols : In(State.books[s].orders, id) = {}
           /\ \A k \in 1 .. Len(replay) : replay[k].type = "SNAPSHOT" => In(replay[k].orders, id) = {}
<1>1. \A i \in 0 .. Len(feed) : id \notin DOMAIN V[i]
  BY DEF History
<1>2. \A s \in Symbols : id \notin DOMAIN State.books[s].orders
  BY DEF ListenerTyped, States, Placed
<1>3. \A k \in 1 .. Len(replay) : replay[k].type = "SNAPSHOT" => id \notin DOMAIN replay[k].orders
  BY DEF ListenerTyped, ReplayTyped, Faithful
<1>4. QED BY <1>1, <1>2, <1>3, InEither

\* A message of the venue: its book's past has one book more, and the listener knows
\* nothing of it yet.
LEMMA PublishRight ==
    ASSUME ListenerInv, ListenerTyped', NEW m \in Messages, Publish(m),
           DOMAIN venueSymbol' = DOMAIN venueSymbol \cup {m.id},
           \A id \in DOMAIN venueSymbol : venueSymbol'[id] = venueSymbol[id],
           m.type = "NEW_ORDER" <=> In(venue, m.id) = {},
           In(venue', m.id) = Taken(In(venue, m.id), m),
           \A j \in OrderIds : j # m.id => In(venue', j) = In(venue, j)
    PROVE  ListenerInv'
<1>1. PICK V : Right(V)
  BY DEF ListenerInv
<1> DEFINE n == Len(feed)
<1>2. /\ ListenerTyped /\ LostDoubted /\ BufferOrdered
      /\ History(V) /\ SnapsRight(V) /\ EarlyRight(V) /\ LateRight(V)
  BY <1>1 DEF ListenerInv, Right
<1>3. /\ feed' = Append(feed, m)
      /\ UNCHANGED <<replay, liveRead, lost, books, orderToSymbol, liveBuffer, caughtUp, stopped,
                     included, doubtful>>
  BY DEF Publish, bookVars, modeVars
<1>4. /\ Len(feed) \in Nat /\ liveRead \in Nat /\ liveRead <= Len(feed)
      /\ \A j \in lost : j \in 1 .. liveRead /\ j \in 1 .. Len(feed)
      /\ \A id \in DOMAIN venueSymbol :
            id \in OrderIds /\ venueSymbol[id] \in Symbols
            /\ Inc(id) \in Int /\ Inc(id) >= -1 /\ Inc(id) <= Len(feed)
      /\ \A i \in 1 .. Len(feed) : feed[i].id \in DOMAIN venueSymbol /\ feed[i].id \in OrderIds
  BY <1>2, Places
<1>5. /\ Len(feed') = n + 1 /\ feed'[n + 1] = m
      /\ \A i \in 1 .. n : feed'[i] = feed[i]
  <2>1. feed \in Seq(Messages)
    BY <1>2 DEF ListenerTyped, FeedTyped
  <2>2. QED BY <1>3, <2>1
<1>7. /\ venue' \in Orders /\ DOMAIN venue' \subseteq DOMAIN venueSymbol' /\ m.id \in OrderIds
      /\ \A id \in DOMAIN venueSymbol' : id \in OrderIds /\ venueSymbol'[id] \in Symbols
      /\ \A id \in DOMAIN venueSymbol' : Inc(id)' \in Int
  BY MapType DEF ListenerTyped, VenueTyped, SymbolsTyped, Messages, Inc, PastTyped
<1>8. \A id \in DOMAIN venueSymbol : Inc(id)' = Inc(id)
  BY <1>3 DEF Inc
<1>9. PICK W : /\ W \in [0 .. n + 1 -> Orders] /\ W[n + 1] = venue'
               /\ \A i \in 0 .. n : W[i] = V[i]
  <2> DEFINE U == [i \in 0 .. n + 1 |-> IF i = n + 1 THEN venue' ELSE V[i]]
  <2>1. U \in [0 .. n + 1 -> Orders] /\ U[n + 1] = venue' /\ \A i \in 0 .. n : U[i] = V[i]
    BY <1>2, <1>4, <1>7 DEF History
  <2> HIDE DEF U
  <2>2. QED BY <2>1
<1> HIDE DEF n
<1>6. /\ \A i \in 0 .. n : i \in 0 .. n + 1 /\ i # n + 1 /\ W[i] = V[i]
      /\ W[n + 1] = venue' /\ n \in 0 .. n /\ V[n] = venue
  <2>1. n \in Nat /\ V[n] = venue
    BY <1>2, <1>4 DEF History, n
  <2>2. n \in 0 .. n /\ \A i \in 0 .. n : i \in 0 .. n + 1 /\ i # n + 1
    BY <2>1
  <2>3. QED BY <1>9, <2>1, <2>2
<1>10. History(W)'
  <2>1. \A i \in 0 .. n + 1 : DOMAIN W[i] \subseteq DOMAIN venueSymbol'
    <3>1. \A i \in 0 .. n : DOMAIN V[i] \subseteq DOMAIN venueSymbol
      BY <1>2 DEF History, n
    <3>2. \A i \in 0 .. n + 1 : i \in 0 .. n \/ i = n + 1
      BY <1>4 DEF n
    <3>3. QED BY <1>6, <1>7, <3>1, <3>2
  <2>2. ASSUME NEW i \in 1 .. n + 1
        PROVE  /\ feed'[i].type = "NEW_ORDER" <=> In(W[i - 1], feed'[i].id) = {}
               /\ In(W[i], feed'[i].id) = Taken(In(W[i - 1], feed'[i].id), feed'[i])
               /\ \A j \in OrderIds : j # feed'[i].id => In(W[i], j) = In(W[i - 1], j)
    <3>1. CASE i = n + 1
      <4>1. i - 1 = n /\ n \in Nat
        BY <1>4, <3>1 DEF n
      <4>2. W[i - 1] = venue /\ W[i] = venue' /\ feed'[i] = m
        BY <1>5, <1>6, <3>1, <4>1
      <4>3. QED BY <4>2
    <3>2. CASE i # n + 1
      <4>1. i \in 1 .. n /\ i \in 0 .. n /\ i - 1 \in 0 .. n
        BY <1>4, <3>2 DEF n
      <4>2. W[i] = V[i] /\ W[i - 1] = V[i - 1] /\ feed'[i] = feed[i]
        BY <1>5, <1>6, <4>1
      <4>3. /\ feed[i].type = "NEW_ORDER" <=> In(V[i - 1], feed[i].id) = {}
            /\ In(V[i], feed[i].id) = Taken(In(V[i - 1], feed[i].id), feed[i])
            /\ \A j \in OrderIds : j # feed[i].id => In(V[i], j) = In(V[i - 1], j)
        BY <1>2, <4>1 DEF History, n
      <4>4. QED BY <4>2, <4>3
    <3>3. QED BY <3>1, <3>2
  <2>3. QED BY <1>5, <1>6, <1>9, <2>1, <2>2 DEF History
<1>11. ASSUME m.id \notin DOMAIN venueSymbol
       PROVE  /\ \A i \in 0 .. n : In(V[i], m.id) = {}
              /\ \A s \in Symbols : In(State.books[s].orders, m.id) = {}
              /\ \A k \in 1 .. Len(replay) : replay[k].type = "SNAPSHOT" => In(replay[k].orders, m.id) = {}
  BY <1>2, <1>7, <1>11, NotYetSeen DEF n
<1>12. SnapsRight(W)'
  <2> SUFFICES ASSUME NEW k \in 1 .. Len(replay), replay[k].type = "SNAPSHOT",
                      NEW id \in DOMAIN venueSymbol', venueSymbol'[id] \in replay[k].symbols
               PROVE  In(replay[k].orders, id) = In(W[replay[k].seq], id)
    BY <1>3 DEF SnapsRight
  <2>1. replay[k].seq \in 0 .. n
    <3>1. replay[k] \in Replies /\ replay[k].seq <= Len(feed)
      BY <1>2 DEF ListenerTyped, ReplayTyped
    <3>2. replay[k].seq \in Nat
      BY <3>1 DEF Replies, Snapshots
    <3>3. QED BY <1>4, <3>1, <3>2 DEF n
  <2>2. W[replay[k].seq] = V[replay[k].seq]
    BY <1>6, <2>1
  <2>3. CASE id \in DOMAIN venueSymbol
    BY <1>2, <2>2, <2>3 DEF SnapsRight
  <2>4. CASE id \notin DOMAIN venueSymbol
    <3>1. id = m.id
      BY <2>4
    <3>2. QED BY <1>11, <2>1, <2>2, <2>4, <3>1
  <2>5. QED BY <2>3, <2>4
<1>13. \A id \in DOMAIN venueSymbol' :
          View(State, id)' = In(State.books[venueSymbol'[id]].orders, id)
  BY <1>3 DEF View, State
<1>14. \A id \in DOMAIN venueSymbol : View(State, id)' = View(State, id)
  BY <1>3 DEF View, State
<1>15. \A id \in DOMAIN venueSymbol' \ DOMAIN venueSymbol : id = m.id /\ View(State, id)' = {}
  <2> SUFFICES ASSUME NEW id \in DOMAIN venueSymbol' \ DOMAIN venueSymbol
               PROVE  id = m.id /\ View(State, id)' = {}
    OBVIOUS
  <2>1. id = m.id /\ venueSymbol'[id] \in Symbols
    BY <1>7
  <2>2. QED BY <1>11, <1>13, <2>1
<1>16. \A id \in DOMAIN venueSymbol' : Inc(id)' \in Int /\ Inc(id)' <= n
  <2> SUFFICES ASSUME NEW id \in DOMAIN venueSymbol' PROVE Inc(id)' <= n
    BY <1>7
  <2>1. venueSymbol'[id] \in Symbols
    BY <1>7
  <2>2. \A s \in Symbols : included[s] <= Len(feed)
    BY <1>2 DEF ListenerTyped, PastTyped
  <2>3. QED BY <1>3, <2>1, <2>2 DEF Inc, n
<1>17. EarlyRight(W)'
  <2> SUFFICES ASSUME ~caughtUp, NEW id \in DOMAIN venueSymbol', Inc(id)' >= 0
               PROVE  View(State, id)' = In(W[Inc(id)'], id)
    BY <1>3 DEF EarlyRight
  <2>1. Inc(id)' \in 0 .. n
    BY <1>16
  <2>2. W[Inc(id)'] = V[Inc(id)']
    BY <1>6, <2>1
  <2>3. CASE id \in DOMAIN venueSymbol
    BY <1>2, <1>8, <1>14, <2>2, <2>3 DEF EarlyRight
  <2>4. CASE id \notin DOMAIN venueSymbol
    BY <1>11, <1>15, <2>1, <2>2, <2>4
  <2>5. QED BY <2>3, <2>4
<1>18. LateRight(W)'
  <2> SUFFICES ASSUME caughtUp, NEW id \in DOMAIN venueSymbol', Inc(id)' >= 0, id \notin doubtful
               PROVE  Kept(W, lost, View(State, id), id, liveRead)'
    BY <1>3 DEF LateRight
  <2>1. Inc(id)' \in 0 .. n /\ liveRead \in 0 .. n
    BY <1>4, <1>16 DEF n
  <2>2. W[Inc(id)'] = V[Inc(id)'] /\ W[liveRead] = V[liveRead]
    BY <1>6, <2>1
  <2>3. CASE id \in DOMAIN venueSymbol
    <3>1. Kept(V, lost, View(State, id), id, liveRead)
      BY <1>2, <1>8, <2>3 DEF LateRight
    <3>2. \A j \in lost : feed'[j] = feed[j]
      BY <1>4, <1>5 DEF n
    <3>3. Inc(id)' = Inc(id) /\ View(State, id)' = View(State, id)
      BY <1>8, <1>14, <2>3
    <3>4. QED BY <1>3, <2>2, <3>1, <3>2, <3>3 DEF Kept
  <2>4. CASE id \notin DOMAIN venueSymbol
    <3>1. View(State, id)' = {} /\ In(V[Inc(id)'], id) = {} /\ In(V[liveRead], id) = {}
      BY <1>11, <1>15, <2>1, <2>4
    <3>2. QED BY <1>3, <2>2, <3>1 DEF Kept
  <2>5. QED BY <2>3, <2>4
<1>19. LostDoubted'
  <2> SUFFICES ASSUME NEW j \in lost, (Inc(feed[j].id) >= 0 /\ j > Inc(feed[j].id))'
               PROVE  feed'[j].id \in doubtful
    BY <1>3 DEF LostDoubted
  <2>1. feed'[j] = feed[j] /\ feed[j].id \in DOMAIN venueSymbol
    BY <1>4, <1>5 DEF n
  <2>2. Inc(feed[j].id)' = Inc(feed[j].id)
    <3>1. feed'[j].id \in DOMAIN venueSymbol
      BY <2>1
    <3>2. QED BY <1>3, <2>1 DEF Inc
  <2>3. j' = j
    OBVIOUS
  <2>4. QED BY <1>2, <2>1, <2>2 DEF LostDoubted
<1>20. BufferOrdered'
  BY <1>2, <1>3 DEF BufferOrdered, Upto
<1>21. Right(W)'
  BY <1>10, <1>12, <1>17, <1>18 DEF Right
<1>22. \E U : Right(U)'
  BY <1>21
<1>23. QED BY <1>19, <1>20, <1>22 DEF ListenerInv

\* Every action of the venue on its book is the message it sends.
LEMMA VenueRight ==
    ASSUME ListenerInv, ListenerTyped', NEW id \in OrderIds,
           \/ \E info \in Info : VenueModify(id, info) \/ \E symbol \in Symbols : VenueNew(id, symbol, info)
           \/ VenueDelete(id) \/ \E qty \in {info.qty : info \in Info} : VenueTrade(id, qty)
    PROVE  ListenerInv'
<1>0. /\ venue \in Maps(OrderIds, OrderInfo) /\ DOMAIN venue \subseteq DOMAIN venueSymbol
  BY DEF ListenerInv, ListenerTyped, VenueTyped, SymbolsTyped, Orders
<1>1. ASSUME NEW info \in Info, NEW symbol \in Symbols, VenueNew(id, symbol, info) PROVE ListenerInv'
  <2> DEFINE m == [type |-> "NEW_ORDER", id |-> id, symbol |-> symbol, info |-> info]
  <2>1. /\ id \notin DOMAIN venueSymbol /\ venue' = Put(venue, id, info)
        /\ venueSymbol' = Put(venueSymbol, id, symbol) /\ Publish(m)
    BY <1>1 DEF VenueNew
  <2>2. info \in OrderInfo
    BY InfoIsOrder
  <2>3. m \in Messages /\ m.id = id /\ m.type = "NEW_ORDER" /\ m.info = info
    BY <2>2 DEF Messages
  <2>4. /\ DOMAIN venueSymbol' = DOMAIN venueSymbol \cup {id}
        /\ \A j \in DOMAIN venueSymbol : venueSymbol'[j] = venueSymbol[j]
    BY <2>1 DEF Put
  <2>5. In(venue, id) = {} /\ In(venue', id) = {info}
    BY <1>0, <2>1 DEF In, Put
  <2>6. \A j \in OrderIds : j # id => In(venue', j) = In(venue, j)
    BY <2>1 DEF In, Put
  <2> HIDE DEF m
  <2>7. In(venue', id) = Taken(In(venue, id), m)
    BY <2>3, <2>5 DEF Taken
  <2>8. QED BY <2>1, <2>3, <2>4, <2>5, <2>6, <2>7, PublishRight
<1>2. ASSUME id \in DOMAIN venue, venueSymbol' = venueSymbol, NEW m \in Messages, Publish(m),
             m.id = id, m.type # "NEW_ORDER", In(venue', id) = Taken({venue[id]}, m),
             \A j \in OrderIds : j # id => In(venue', j) = In(venue, j)
      PROVE  ListenerInv'
  <2>1. In(venue, id) = {venue[id]}
    BY <1>2, InEither
  <2>2. DOMAIN venueSymbol' = DOMAIN venueSymbol \cup {id}
    BY <1>0, <1>2
  <2>3. QED BY <1>2, <2>1, <2>2, PublishRight
<1>3. ASSUME NEW info \in Info, VenueModify(id, info) PROVE ListenerInv'
  <2> DEFINE m == [type |-> "MODIFY_ORDER", id |-> id, info |-> info]
  <2>1. id \in DOMAIN venue /\ venue' = Put(venue, id, info) /\ venueSymbol' = venueSymbol /\ Publish(m)
    BY <1>3 DEF VenueModify
  <2>2. info \in OrderInfo
    BY InfoIsOrder
  <2>3. m \in Messages /\ m.id = id /\ m.type = "MODIFY_ORDER" /\ m.info = info
    BY <2>2 DEF Messages
  <2>4. In(venue', id) = {info} /\ \A j \in OrderIds : j # id => In(venue', j) = In(venue, j)
    BY <2>1 DEF In, Put
  <2> HIDE DEF m
  <2>5. Taken({venue[id]}, m) = {info}
    BY <2>3 DEF Taken
  <2>6. QED BY <1>2, <2>1, <2>3, <2>4, <2>5
<1>4. ASSUME VenueDelete(id) PROVE ListenerInv'
  <2> DEFINE m == [type |-> "DELETE_ORDER", id |-> id]
  <2>1. id \in DOMAIN venue /\ venue' = Without(venue, id) /\ venueSymbol' = venueSymbol /\ Publish(m)
    BY <1>4 DEF VenueDelete
  <2>2. m \in Messages /\ m.id = id /\ m.type = "DELETE_ORDER"
    BY DEF Messages
  <2>3. In(venue', id) = {} /\ \A j \in OrderIds : j # id => In(venue', j) = In(venue, j)
    BY <2>1 DEF In, Without, Restrict
  <2> HIDE DEF m
  <2>4. Taken({venue[id]}, m) = {}
    BY <2>2 DEF Taken
  <2>5. QED BY <1>2, <2>1, <2>2, <2>3, <2>4
<1>5. ASSUME NEW qty \in {info.qty : info \in Info}, VenueTrade(id, qty) PROVE ListenerInv'
  <2> DEFINE m == [type |-> "TRADE", id |-> id, qty |-> qty]
             o == venue[id]
  <2>1. /\ id \in DOMAIN venue /\ qty \in 1 .. o.qty
        /\ venue' = IF qty = o.qty THEN Without(venue, id) ELSE [venue EXCEPT ![id].qty = @ - qty]
        /\ venueSymbol' = venueSymbol /\ Publish(m)
    BY <1>5 DEF VenueTrade
  <2>2. o \in OrderInfo /\ o.qty \in Nat
    BY <1>0, <2>1, OrderFields DEF Orders
  <2>3. qty \in Nat \ {0}
    BY <2>1, <2>2
  <2>4. m \in Messages /\ m.id = id /\ m.type = "TRADE" /\ m.qty = qty
    BY <2>3 DEF Messages
  <2> HIDE DEF m
  <2>5. Taken({o}, m) = IF qty >= o.qty THEN {} ELSE {Less(o, qty)}
    BY <2>4 DEF Taken
  <2>6. In(venue', id) = Taken({o}, m) /\ \A j \in OrderIds : j # id => In(venue', j) = In(venue, j)
    <3>1. CASE qty = o.qty
      <4>1. venue' = Without(venue, id) /\ qty >= o.qty
        BY <2>1, <2>2, <3>1
      <4>2. In(venue', id) = {} /\ \A j \in OrderIds : j # id => In(venue', j) = In(venue, j)
        BY <4>1 DEF In, Without, Restrict
      <4>3. QED BY <2>5, <4>1, <4>2
    <3>2. CASE qty # o.qty
      <4>1. ~(qty >= o.qty)
        BY <2>1, <2>2, <3>2
      <4>2. venue' = [venue EXCEPT ![id] = Less(o, qty)]
        BY <2>1, <3>2 DEF Less
      <4>3. DOMAIN venue' = DOMAIN venue /\ venue'[id] = Less(o, qty)
            /\ \A j \in DOMAIN venue : j # id => venue'[j] = venue[j]
        BY <2>1, <4>2
      <4>4. In(venue', id) = {Less(o, qty)} /\ \A j \in OrderIds : j # id => In(venue', j) = In(venue, j)
        BY <2>1, <4>3, InEither
      <4>5. QED BY <2>5, <4>1, <4>4
    <3>3. QED BY <3>1, <3>2
  <2>7. QED BY <1>2, <2>1, <2>4, <2>6
<1>6. QED BY <1>1, <1>3, <1>4, <1>5

\* The sender's side of the replay feed: a snapshot has the orders of its time.
LEMMA ReplaysRight ==
    ASSUME ListenerInv, ListenerTyped', NEW m \in Replies, Replays(m),
           m.type = "SNAPSHOT" =>
              /\ m.seq = Len(feed)
              /\ \A id \in DOMAIN venueSymbol : venueSymbol[id] \in m.symbols => In(m.orders, id) = In(venue, id)
    PROVE  ListenerInv'
<1>1. PICK V : Right(V)
  BY DEF ListenerInv
<1>2. /\ ListenerTyped /\ LostDoubted /\ BufferOrdered
      /\ History(V) /\ SnapsRight(V) /\ EarlyRight(V) /\ LateRight(V)
  BY <1>1 DEF ListenerInv, Right
<1>3. /\ replay' = Append(replay, m)
      /\ UNCHANGED <<venue, venueSymbol, feed, liveRead, lost, books, orderToSymbol, liveBuffer,
                     caughtUp, stopped, included, doubtful>>
  BY DEF Replays, bookVars, modeVars
<1>4. SnapsRight(V)'
  <2>1. /\ Len(replay') = Len(replay) + 1 /\ Len(replay) \in Nat
        /\ replay'[Len(replay) + 1] = m /\ \A i \in 1 .. Len(replay) : replay'[i] = replay[i]
    <3>1. replay \in Seq(Replies)
      BY <1>2 DEF ListenerTyped, ReplayTyped
    <3>2. QED BY <1>3, <3>1
  <2> SUFFICES ASSUME NEW k \in 1 .. Len(replay'), replay'[k].type = "SNAPSHOT",
                      NEW id \in DOMAIN venueSymbol, venueSymbol[id] \in replay'[k].symbols
               PROVE  In(replay'[k].orders, id) = In(V[replay'[k].seq], id)
    BY <1>3 DEF SnapsRight
  <2>2. CASE k = Len(replay) + 1
    <3>1. replay'[k] = m /\ V[Len(feed)] = venue
      BY <1>2, <2>1, <2>2 DEF History
    <3>2. QED BY <3>1
  <2>3. CASE k # Len(replay) + 1
    <3>1. k \in 1 .. Len(replay) /\ replay'[k] = replay[k]
      BY <2>1, <2>3
    <3>2. QED BY <1>2, <3>1 DEF SnapsRight
  <2>4. QED BY <2>2, <2>3
<1>5. History(V)' /\ EarlyRight(V)' /\ LateRight(V)'
  BY <1>2, <1>3 DEF History, EarlyRight, LateRight, Kept, View, State, Inc
<1>6. LostDoubted' /\ BufferOrdered'
  BY <1>2, <1>3 DEF LostDoubted, BufferOrdered, Upto, Inc
<1>7. \E U : Right(U)'
  BY <1>4, <1>5 DEF Right
<1>8. QED BY <1>6, <1>7 DEF ListenerInv

\* What a step that is not the venue's has to show.
LEMMA RightBy ==
    ASSUME ListenerInv, ListenerTyped', UNCHANGED <<venue, venueSymbol, feed>>, NEW V, Right(V),
           LostDoubted', BufferOrdered', SnapsRight(V)', EarlyRight(V)', LateRight(V)'
    PROVE  ListenerInv'
<1>1. History(V)'
  BY DEF Right, History
<1>2. \E U : Right(U)'
  BY <1>1 DEF Right
<1>3. QED BY <1>2 DEF ListenerInv

\* A message lost makes its order doubtful, and brings no other on.
LEMMA LoseRight ==
    ASSUME ListenerInv, ListenerTyped', LoseLive
    PROVE  ListenerInv'
<1>1. PICK V : Right(V)
  BY DEF ListenerInv
<1> DEFINE i == liveRead + 1
           n == Len(liveBuffer)
<1>2. /\ ListenerTyped /\ LostDoubted /\ BufferOrdered
      /\ History(V) /\ SnapsRight(V) /\ EarlyRight(V) /\ LateRight(V)
  BY <1>1 DEF ListenerInv, Right
<1>3. /\ liveRead' = i /\ lost' = lost \cup {i} /\ doubtful' = doubtful \cup {feed[i].id}
      /\ liveRead < Len(feed)
      /\ UNCHANGED <<venue, venueSymbol, feed, replay, books, orderToSymbol, liveBuffer,
                     caughtUp, stopped, included>>
  BY DEF LoseLive, venueVars, bookVars, modeVars
<1>4. /\ liveRead \in Nat /\ i \in 1 .. Len(feed) /\ i - 1 = liveRead
      /\ \A j \in lost : j \in 1 .. liveRead
      /\ n \in Nat /\ \A k \in 1 .. n : liveBuffer[k] \in 1 .. liveRead
  BY <1>2, <1>3, Places, BufferedMessages
<1> HIDE DEF i, n
<1>5. LostDoubted'
  BY <1>2, <1>3 DEF LostDoubted, Inc
<1>6. BufferOrdered'
  <2> SUFFICES ASSUME ~caughtUp, ~stopped
               PROVE  /\ \A k \in 1 .. n :
                            /\ Upto(k - 1) < liveBuffer[k] /\ liveBuffer[k] \notin lost'
                            /\ \A j \in Upto(k - 1) + 1 .. liveBuffer[k] - 1 : j \in lost'
                      /\ \A j \in Upto(n) + 1 .. i : j \in lost'
    BY <1>3 DEF BufferOrdered, Upto, n
  <2>1. /\ \A k \in 1 .. n :
              /\ Upto(k - 1) < liveBuffer[k] /\ liveBuffer[k] \notin lost
              /\ \A j \in Upto(k - 1) + 1 .. liveBuffer[k] - 1 : j \in lost
        /\ \A j \in Upto(n) + 1 .. liveRead : j \in lost
    BY <1>2 DEF BufferOrdered, n
  <2>2. ASSUME NEW k \in 1 .. n PROVE liveBuffer[k] # i
    BY <1>4
  <2>3. Upto(n) \in Int
    BY <1>4 DEF Upto
  <2>4. ASSUME NEW j \in Upto(n) + 1 .. i PROVE j \in lost'
    <3>1. j = i \/ j \in Upto(n) + 1 .. liveRead
      BY <1>4, <2>3
    <3>2. QED BY <1>3, <2>1, <3>1
  <2>5. QED BY <1>3, <2>1, <2>2, <2>4
<1>7. SnapsRight(V)' /\ EarlyRight(V)'
  BY <1>2, <1>3 DEF SnapsRight, EarlyRight, View, State, Inc
<1>8. LateRight(V)'
  <2> SUFFICES ASSUME caughtUp, NEW id \in DOMAIN venueSymbol, Inc(id) >= 0, id \notin doubtful'
               PROVE  Kept(V, lost, View(State, id), id, liveRead)'
    BY <1>3 DEF LateRight, Inc
  <2>1. id \notin doubtful /\ feed[i].id # id
    BY <1>3
  <2>2. Kept(V, lost, View(State, id), id, i - 1)
    BY <1>2, <1>4, <2>1 DEF LateRight
  <2>3. \A j \in lost' : j \in lost \/ j = i
    BY <1>3
  <2>4. Kept(V, lost', View(State, id), id, i)
    BY <1>2, <1>4, <2>1, <2>2, <2>3, KeptPasses
  <2>5. View(State, id)' = View(State, id)
    BY <1>3 DEF View, State
  <2>6. QED BY <1>3, <2>4, <2>5 DEF Kept, Inc
<1>9. QED BY <1>1, <1>3, <1>5, <1>6, <1>7, <1>8, RightBy

\* A message kept comes last in the buffer.
LEMMA BufferRight ==
    ASSUME ListenerInv, ListenerTyped', BufferLive
    PROVE  ListenerInv'
<1>1. PICK V : Right(V)
  BY DEF ListenerInv
<1> DEFINE i == liveRead + 1
           n == Len(liveBuffer)
<1>2. /\ ListenerTyped /\ LostDoubted /\ BufferOrdered
      /\ History(V) /\ SnapsRight(V) /\ EarlyRight(V) /\ LateRight(V)
  BY <1>1 DEF ListenerInv, Right
<1>3. /\ liveRead' = i /\ ~caughtUp /\ ~stopped
      /\ stopped' = TRUE \/ (liveBuffer' = Append(liveBuffer, i) /\ stopped' = stopped)
      /\ UNCHANGED <<venue, venueSymbol, feed, replay, books, orderToSymbol, lost, doubtful,
                     caughtUp, included>>
  BY DEF BufferLive, NextLive, venueVars, bookVars
<1>4. /\ liveRead \in Nat /\ i \in Nat /\ i = liveRead + 1
      /\ \A j \in lost : j \in 1 .. liveRead
      /\ n \in Nat /\ \A k \in 1 .. n : liveBuffer[k] \in 1 .. liveRead
  BY <1>2, Places, BufferedMessages
<1> HIDE DEF i
<1>5. LostDoubted' /\ SnapsRight(V)' /\ EarlyRight(V)' /\ LateRight(V)'
  BY <1>2, <1>3 DEF LostDoubted, SnapsRight, EarlyRight, LateRight, View, State, Inc
<1>6. CASE stopped' = TRUE
  <2>1. BufferOrdered'
    BY <1>6 DEF BufferOrdered
  <2>2. QED BY <1>1, <1>3, <1>5, <2>1, RightBy
<1>7. CASE liveBuffer' = Append(liveBuffer, i)
  <2>1. /\ Len(liveBuffer') = n + 1 /\ liveBuffer'[n + 1] = i
        /\ \A k \in 1 .. n : liveBuffer'[k] = liveBuffer[k]
    <3>1. liveBuffer \in Seq(Nat)
      BY <1>2 DEF ListenerTyped, PlacesTyped
    <3>2. QED BY <1>4, <1>7, <3>1
  <2> HIDE DEF n
  <2>2. /\ \A k \in 1 .. n :
              /\ Upto(k - 1) < liveBuffer[k] /\ liveBuffer[k] \notin lost
              /\ \A j \in Upto(k - 1) + 1 .. liveBuffer[k] - 1 : j \in lost
        /\ \A j \in Upto(n) + 1 .. liveRead : j \in lost
    BY <1>2, <1>3 DEF BufferOrdered, n
  <2>3. Upto(n) \in Int /\ Upto(n) <= liveRead
    BY <1>4 DEF Upto
  <2>4. \A k \in 0 .. n : Upto(k)' = Upto(k)
    BY <1>4, <2>1 DEF Upto
  <2>5. ASSUME NEW k \in 1 .. n + 1
        PROVE  /\ Upto(k - 1)' < liveBuffer'[k] /\ liveBuffer'[k] \notin lost
               /\ \A j \in Upto(k - 1)' + 1 .. liveBuffer'[k] - 1 : j \in lost
    <3>1. CASE k = n + 1
      <4>1. k - 1 = n /\ n \in 0 .. n
        BY <1>4, <3>1
      <4>2. Upto(k - 1)' = Upto(n) /\ liveBuffer'[k] = i
        BY <2>1, <2>4, <3>1, <4>1
      <4>3. i - 1 = liveRead /\ i \notin lost /\ Upto(n) < i
        BY <1>4, <2>3
      <4>4. QED BY <2>2, <4>2, <4>3
    <3>2. CASE k # n + 1
      <4>1. k \in 1 .. n /\ k - 1 \in 0 .. n
        BY <1>4, <3>2
      <4>2. QED BY <2>1, <2>2, <2>4, <4>1
    <3>3. QED BY <3>1, <3>2
  <2>6. Upto(Len(liveBuffer))' = i /\ i + 1 .. i = {}
    BY <1>4, <2>1 DEF Upto
  <2>7. BufferOrdered'
    BY <1>3, <2>1, <2>5, <2>6 DEF BufferOrdered
  <2>8. QED BY <1>1, <1>3, <1>5, <2>7, RightBy
<1>8. QED BY <1>3, <1>6, <1>7

\* A message dispatched brings its order on and passes the others by, or it is one that
\* makes its order doubtful.
LEMMA KeptByDispatch ==
    ASSUME ListenerTyped, NEW V, History(V), NEW s \in States, NEW i \in 1 .. Len(feed),
           NEW set, NEW id \in DOMAIN venueSymbol, Inc(id) >= 0, id \notin Doubts(set, i),
           Kept(V, lost, View(s, id), id, i - 1)
    PROVE  Kept(V, lost, View(Dispatch(s, feed[i]), id), id, i)
<1> DEFINE m == feed[i]
<1>1. m \in Messages /\ Named(m) /\ m.id \in DOMAIN venueSymbol
  BY Places
<1>2. \A j \in DOMAIN venueSymbol :
         View(Dispatch(s, m), j) = IF j = m.id THEN Taken(View(s, j), m) ELSE View(s, j)
  BY <1>1, DispatchTakes DEF ListenerTyped, VenueTyped
<1>3. CASE id # m.id
  <2>1. View(Dispatch(s, m), id) = View(s, id)
    BY <1>2, <1>3
  <2>2. \A j \in lost : j \in lost \/ j = i
    OBVIOUS
  <2>3. Kept(V, lost, View(s, id), id, i)
    BY <1>3, <2>2, KeptPasses
  <2>4. QED BY <2>1, <2>3
<1>4. CASE id = m.id
  <2>1. View(Dispatch(s, m), id) = Taken(View(s, id), m)
    BY <1>2, <1>4
  <2>2. i <= Inc(id) => m.type # "TRADE" /\ \A j \in lost : j \in i .. Inc(id) => feed[j].id # id
    BY <1>4 DEF Doubts, Inc
  <2>3. Kept(V, lost, Taken(View(s, id), m), id, i)
    BY <1>4, <2>2, KeptTakes
  <2>4. QED BY <2>1, <2>3
<1>5. QED BY <1>3, <1>4

\* A message applied brings its order on, or is one too many and makes it doubtful.
LEMMA ApplyRight ==
    ASSUME ListenerInv, ListenerTyped', ApplyLive
    PROVE  ListenerInv'
<1>1. PICK V : Right(V)
  BY DEF ListenerInv
<1> DEFINE i == liveRead + 1
           m == feed[i]
<1>2. /\ ListenerTyped /\ LostDoubted /\ BufferOrdered
      /\ History(V) /\ SnapsRight(V) /\ EarlyRight(V) /\ LateRight(V)
  BY <1>1 DEF ListenerInv, Right
<1>3. /\ liveRead' = i /\ caughtUp /\ doubtful' = Doubts(doubtful, i) /\ liveRead < Len(feed)
      /\ Becomes(Dispatch(State, m))
      /\ UNCHANGED <<venue, venueSymbol, feed, replay, lost, liveBuffer, caughtUp, stopped, included>>
  BY DEF ApplyLive, NextLive, venueVars
<1>4. /\ liveRead \in Nat /\ i \in 1 .. Len(feed) /\ i - 1 = liveRead
      /\ m \in Messages /\ Named(m) /\ m.id \in DOMAIN venueSymbol
  BY <1>2, <1>3, Places
<1>5. doubtful \subseteq doubtful'
  BY <1>3 DEF Doubts
<1>6. LostDoubted' /\ BufferOrdered' /\ SnapsRight(V)' /\ EarlyRight(V)'
  BY <1>2, <1>3, <1>5 DEF LostDoubted, BufferOrdered, SnapsRight, EarlyRight, Inc
<1>7. /\ Dispatch(State, m) \in States
      /\ \A j \in DOMAIN venueSymbol :
            View(Dispatch(State, m), j) = IF j = m.id THEN Taken(View(State, j), m) ELSE View(State, j)
  BY <1>2, <1>4, DispatchTakes DEF ListenerTyped, VenueTyped
<1>8. State' = Dispatch(State, m)
  BY <1>3, <1>7, BecomesState
<1>9. LateRight(V)'
  <2> SUFFICES ASSUME NEW id \in DOMAIN venueSymbol, Inc(id) >= 0, id \notin doubtful'
               PROVE  Kept(V, lost, View(State, id), id, liveRead)'
    BY <1>3 DEF LateRight, Inc
  <2>1. id \notin doubtful
    BY <1>5
  <2> HIDE DEF i
  <2>2. Kept(V, lost, View(State, id), id, i - 1)
    BY <1>2, <1>3, <1>4, <2>1 DEF LateRight
  <2>3. Kept(V, lost, View(Dispatch(State, m), id), id, i)
    BY <1>2, <1>3, <1>4, <2>2, KeptByDispatch DEF ListenerTyped
  <2>4. View(State, id)' = View(Dispatch(State, m), id)
    BY <1>3, <1>8 DEF View
  <2>5. QED BY <1>3, <2>3, <2>4 DEF Kept, Inc
<1>10. QED BY <1>1, <1>3, <1>6, <1>9, RightBy

\* Between two places of the feed without a message for it the venue's order is the same.
LEMMA Untouched ==
    ASSUME ListenerTyped, NEW V, History(V), NEW id \in OrderIds, NEW a \in Nat, NEW b \in Nat,
           a <= b, b <= Len(feed), \A i \in a + 1 .. b : feed[i].id # id
    PROVE  In(V[b], id) = In(V[a], id)
<1> DEFINE P == {n \in Nat : a + n <= b => In(V[a + n], id) = In(V[a], id)}
<1>1. Len(feed) \in Nat
  BY Places
<1>2. 0 \in P
  <2>1. a + 0 = a
    OBVIOUS
  <2>2. QED BY <2>1
<1>3. ASSUME NEW n \in P PROVE n + 1 \in P
  <2>1. ASSUME a + (n + 1) <= b PROVE In(V[a + (n + 1)], id) = In(V[a], id)
    <3> DEFINE i == a + (n + 1)
    <3>1. a + n <= b /\ i \in a + 1 .. b /\ i - 1 = a + n /\ i \in 1 .. Len(feed)
      BY <1>1, <2>1
    <3>2. In(V[a + n], id) = In(V[a], id) /\ feed[i].id # id
      BY <1>3, <3>1
    <3> HIDE DEF i
    <3>3. In(V[i], id) = In(V[i - 1], id)
      BY <3>1, <3>2 DEF History
    <3>4. QED BY <3>1, <3>2, <3>3 DEF i
  <2>2. QED BY <2>1
<1> HIDE DEF P
<1>4. \A n \in Nat : n \in P => n + 1 \in P
  BY <1>3
<1>5. Nat \subseteq P
  BY <1>2, <1>4, CountInduction
<1>6. b - a \in P /\ a + (b - a) = b
  BY <1>5
<1>7. QED BY <1>6 DEF P

\* Reading the replay feed leaves the snapshots behind the first.
LEMMA SnapsRightAfterRead ==
    ASSUME ListenerTyped, NEW V, SnapsRight(V), replay # <<>>, replay' = Tail(replay),
           UNCHANGED <<feed, venueSymbol>>
    PROVE  SnapsRight(V)'
<1>1. \A i \in 1 .. Len(replay') : i + 1 \in 1 .. Len(replay) /\ replay'[i] = replay[i + 1]
  BY ReplayRead
<1>2. QED BY <1>1 DEF SnapsRight

LEMMA HeartbeatRight ==
    ASSUME ListenerInv, ListenerTyped', ReadHeartbeat
    PROVE  ListenerInv'
<1>1. PICK V : Right(V)
  BY DEF ListenerInv
<1>2. /\ ListenerTyped /\ LostDoubted /\ BufferOrdered
      /\ SnapsRight(V) /\ EarlyRight(V) /\ LateRight(V)
  BY <1>1 DEF ListenerInv, Right
<1>3. /\ replay # <<>> /\ replay' = Tail(replay)
      /\ UNCHANGED <<venue, venueSymbol, feed, liveRead, lost, books, orderToSymbol, liveBuffer,
                     caughtUp, stopped, included, doubtful>>
  BY DEF ReadHeartbeat, bookVars
<1>4. SnapsRight(V)'
  <2>1. UNCHANGED <<feed, venueSymbol>>
    BY <1>3
  <2>2. QED BY <1>2, <1>3, <2>1, SnapsRightAfterRead
<1>5. EarlyRight(V)' /\ LateRight(V)'
  BY <1>2, <1>3 DEF EarlyRight, LateRight, Kept, View, State, Inc
<1>6. LostDoubted' /\ BufferOrdered'
  BY <1>2, <1>3 DEF LostDoubted, BufferOrdered, Upto, Inc
<1>7. QED BY <1>1, <1>3, <1>4, <1>5, <1>6, RightBy

\* A snapshot puts the orders of its symbols right as of its place in the feed; those
\* with a later message that was lost, or that it undoes, become doubtful.
LEMMA SnapshotRight ==
    ASSUME ListenerInv, ListenerTyped', ReadSnapshot
    PROVE  ListenerInv'
<1>1. PICK V : Right(V)
  BY DEF ListenerInv
<1>2. /\ ListenerTyped /\ LostDoubted /\ BufferOrdered
      /\ History(V) /\ SnapsRight(V) /\ EarlyRight(V) /\ LateRight(V)
  BY <1>1 DEF ListenerInv, Right
<1>3. /\ replay # <<>> /\ replay' = Tail(replay) /\ Head(replay).type = "SNAPSHOT"
      /\ UNCHANGED <<venue, venueSymbol, feed, liveRead, lost, liveBuffer, caughtUp, stopped>>
  BY DEF ReadSnapshot
<1>4. /\ Head(replay) = replay[1] /\ 1 \in 1 .. Len(replay)
  <2>1. UNCHANGED <<feed, venueSymbol>>
    BY <1>3
  <2>2. QED BY <1>2, <1>3, <2>1, ReplayRead
<1>5. PICK m : m = replay[1]
  OBVIOUS
<1> DEFINE ours(id) == venueSymbol[id] \in m.symbols
           later == IF caughtUp THEN m.seq + 1 .. liveRead ELSE {i \in lost : i > m.seq}
           undone == {feed[i].id : i \in later}
<1>6. /\ included' = [s \in Symbols |-> IF s \in m.symbols THEN m.seq ELSE included[s]]
      /\ doubtful' = {id \in doubtful \cup undone : ours(id) => id \in undone}
  BY <1>4, <1>5 DEF ReadSnapshot
<1>7. /\ m \in Snapshots /\ Faithful(m) /\ m.seq <= Len(feed) /\ Becomes(Refilled(m))
  BY <1>2, <1>5, SnapshotRead
<1>8. m.seq \in Nat
  BY <1>7 DEF Snapshots
<1>9. /\ Refilled(m) \in States
      /\ \A j \in DOMAIN venueSymbol :
            View(Refilled(m), j) = IF ours(j) THEN In(m.orders, j) ELSE View(State, j)
  BY <1>2, <1>7, RefillByStep DEF ListenerTyped, VenueTyped
<1>10. State' = Refilled(m)
  BY <1>7, <1>9, BecomesState
<1>11. /\ Len(feed) \in Nat /\ liveRead \in Nat /\ liveRead <= Len(feed)
       /\ \A j \in lost : j \in 1 .. liveRead /\ j \in 1 .. Len(feed)
       /\ \A id \in DOMAIN venueSymbol : id \in OrderIds /\ venueSymbol[id] \in Symbols /\ Inc(id) \in Int
       /\ \A i \in 1 .. Len(feed) : feed[i].id \in DOMAIN venueSymbol
  BY <1>2, Places
<1>12. \A id \in DOMAIN venueSymbol :
          /\ View(State, id)' = IF ours(id) THEN In(V[m.seq], id) ELSE View(State, id)
          /\ Inc(id)' = IF ours(id) THEN m.seq ELSE Inc(id)
  <2> SUFFICES ASSUME NEW id \in DOMAIN venueSymbol
               PROVE  /\ View(State, id)' = IF ours(id) THEN In(V[m.seq], id) ELSE View(State, id)
                      /\ Inc(id)' = IF ours(id) THEN m.seq ELSE Inc(id)
    OBVIOUS
  <2>1. View(State, id)' = View(Refilled(m), id)
    BY <1>3, <1>10 DEF View
  <2>2. ours(id) => In(m.orders, id) = In(V[m.seq], id)
    BY <1>2, <1>3, <1>4, <1>5 DEF SnapsRight
  <2>3. Inc(id)' = IF ours(id) THEN m.seq ELSE Inc(id)
    BY <1>3, <1>6, <1>11 DEF Inc
  <2>4. QED BY <1>9, <2>1, <2>2, <2>3
<1>13. \A id \in OrderIds : id \notin doubtful' => IF ours(id) THEN id \notin undone ELSE id \notin doubtful
  BY <1>6
<1>14. SnapsRight(V)'
  <2>1. UNCHANGED <<feed, venueSymbol>>
    BY <1>3
  <2>2. QED BY <1>2, <1>3, <2>1, SnapsRightAfterRead
<1> HIDE DEF undone
<1>15. EarlyRight(V)'
  BY <1>2, <1>3, <1>12 DEF EarlyRight
<1>16. LateRight(V)'
  <2> SUFFICES ASSUME caughtUp, NEW id \in DOMAIN venueSymbol, Inc(id)' >= 0, id \notin doubtful'
               PROVE  Kept(V, lost, View(State, id), id, liveRead)'
    BY <1>3 DEF LateRight
  <2>1. CASE ours(id)
    <3>1. View(State, id)' = In(V[m.seq], id) /\ Inc(id)' = m.seq /\ id \notin undone
      BY <1>11, <1>12, <1>13, <2>1
    <3>2. liveRead > m.seq => In(V[liveRead], id) = In(V[m.seq], id)
      <4> SUFFICES ASSUME liveRead > m.seq PROVE In(V[liveRead], id) = In(V[m.seq], id)
        OBVIOUS
      <4>1. \A i \in m.seq + 1 .. liveRead : feed[i].id # id
        BY <3>1 DEF undone
      <4>2. m.seq <= liveRead
        BY <1>8, <1>11
      <4>3. QED BY <1>2, <1>8, <1>11, <4>1, <4>2, Untouched
    <3>3. QED BY <1>3, <3>1, <3>2 DEF Kept
  <2>2. CASE ~ours(id)
    <3>1. View(State, id)' = View(State, id) /\ Inc(id)' = Inc(id) /\ id \notin doubtful
      BY <1>11, <1>12, <1>13, <2>2
    <3>2. Kept(V, lost, View(State, id), id, liveRead)
      BY <1>2, <3>1 DEF LateRight
    <3>3. QED BY <1>3, <3>1, <3>2 DEF Kept
  <2>3. QED BY <2>1, <2>2
<1>17. LostDoubted'
  <2> SUFFICES ASSUME NEW j \in lost, Inc(feed[j].id)' >= 0, j > Inc(feed[j].id)'
               PROVE  feed[j].id \in doubtful'
    BY <1>3 DEF LostDoubted
  <2>1. PICK id : id = feed[j].id
    OBVIOUS
  <2>2. id \in DOMAIN venueSymbol /\ id \in OrderIds
    BY <1>11, <2>1
  <2>3. Inc(feed[j].id)' = Inc(id)'
    BY <1>3, <2>1 DEF Inc
  <2>4. /\ Inc(id)' = IF ours(id) THEN m.seq ELSE Inc(id)
        /\ Inc(id)' >= 0 /\ j > Inc(id)'
    BY <1>12, <2>2, <2>3
  <2>5. CASE ours(id)
    <3>1. j > m.seq /\ j \in 1 .. liveRead
      BY <1>3, <1>11, <2>4, <2>5
    <3>2. j \in later
      BY <1>8, <1>11, <3>1
    <3>3. id \in undone
      BY <2>1, <3>2 DEF undone
    <3>4. QED BY <1>6, <2>1, <3>3
  <2>6. CASE ~ours(id)
    <3>1. id \in doubtful
      BY <1>2, <1>3, <2>4, <2>6, <2>1 DEF LostDoubted
    <3>2. QED BY <1>6, <2>6, <2>1, <3>1
  <2>7. QED BY <2>5, <2>6
<1>18. BufferOrdered'
  BY <1>2, <1>3 DEF BufferOrdered, Upto
<1>19. QED BY <1>1, <1>3, <1>14, <1>15, <1>16, <1>17, <1>18, RightBy

\* The drain brings every order on that it does not make doubtful: by the messages kept,
\* over the lost ones between them.
LEMMA DrainKeeps ==
    ASSUME ListenerTyped, LostDoubted, BufferOrdered, ~caughtUp, ~stopped,
           NEW V, History(V), EarlyRight(V)
    PROVE  /\ doubtful \subseteq Doubted /\ Drain \in States
           /\ \A id \in DOMAIN venueSymbol : Inc(id) >= 0 /\ id \notin Doubted =>
                 Kept(V, lost, View(Drain, id), id, liveRead)
<1> DEFINE n == Len(liveBuffer)
<1>1. /\ n \in Nat /\ DOMAIN liveBuffer = 1 .. n
      /\ \A k \in 1 .. n :
            /\ liveBuffer[k] \in 1 .. liveRead
            /\ feed[liveBuffer[k]] \in Messages /\ Named(feed[liveBuffer[k]])
            /\ feed[liveBuffer[k]].id \in OrderIds
  BY BufferedMessages
<1>2. /\ \A k \in 1 .. n :
            /\ Upto(k - 1) < liveBuffer[k]
            /\ \A i \in Upto(k - 1) + 1 .. liveBuffer[k] - 1 : i \in lost
      /\ \A i \in Upto(n) + 1 .. liveRead : i \in lost
  BY DEF BufferOrdered
<1> HIDE DEF n
<1>3. PICK g \in [0 .. n -> States] :
         /\ g[0] = State /\ g[n] = Drain
         /\ \A k \in 1 .. n : g[k] = Dispatch(g[k - 1], feed[liveBuffer[k]])
  BY <1>1, DrainByStep DEF ListenerTyped, VenueTyped
<1>4. PICK d \in [0 .. n -> SUBSET OrderIds] :
         /\ d[0] = doubtful /\ d[n] = Doubted
         /\ \A k \in 1 .. n : d[k] = Doubts(d[k - 1], liveBuffer[k])
  BY <1>1, DoubtByStep DEF ListenerTyped, PastTyped
<1>5. /\ Len(feed) \in Nat /\ liveRead \in Nat /\ liveRead <= Len(feed)
      /\ \A id \in DOMAIN venueSymbol : Inc(id) \in Int
  BY Places
<1>6. \A k \in 0 .. n : Upto(k) \in Nat /\ Upto(k) <= liveRead
  BY <1>1, <1>5 DEF Upto
<1> DEFINE Row(k) == /\ doubtful \subseteq d[k]
                     /\ \A id \in DOMAIN venueSymbol : Inc(id) >= 0 /\ id \notin d[k] =>
                           Kept(V, lost, View(g[k], id), id, Upto(k))
           P == {k \in Nat : k <= n => Row(k)}
<1>7. Row(0)
  <2> SUFFICES ASSUME NEW id \in DOMAIN venueSymbol, Inc(id) >= 0
               PROVE  Kept(V, lost, View(g[0], id), id, Upto(0))
    BY <1>4
  <2>1. ~(0 > Inc(id)) /\ Upto(0) = 0
    BY <1>5 DEF Upto
  <2>2. View(g[0], id) = In(V[Inc(id)], id)
    BY <1>3 DEF EarlyRight
  <2>3. QED BY <2>1, <2>2 DEF Kept
<1>8. ASSUME NEW k \in Nat, k + 1 <= n, Row(k) PROVE Row(k + 1)
  <2> DEFINE i == liveBuffer[k + 1]
  <2>1. k + 1 \in 1 .. n /\ k \in 0 .. n /\ (k + 1) - 1 = k
    BY <1>1, <1>8
  <2>2. /\ i \in 1 .. liveRead /\ i \in 1 .. Len(feed) /\ Upto(k) < i
        /\ \A j \in Upto(k) + 1 .. i - 1 : j \in lost
        /\ Upto(k) \in Nat /\ i - 1 \in Nat /\ Upto(k) <= i - 1 /\ Upto(k + 1) = i
    <3>1. i \in 1 .. liveRead
      BY <1>1, <2>1
    <3>2. Upto(k) < i /\ \A j \in Upto(k) + 1 .. i - 1 : j \in lost
      BY <1>2, <2>1
    <3>3. Upto(k) \in Nat
      BY <1>6, <2>1
    <3>4. Upto(k + 1) = i
      BY <2>1 DEF Upto
    <3> HIDE DEF i
    <3>5. QED BY <1>5, <3>1, <3>2, <3>3, <3>4
  <2>3. /\ g[k] \in States /\ g[k + 1] = Dispatch(g[k], feed[i]) /\ d[k + 1] = Doubts(d[k], i)
    BY <1>3, <1>4, <2>1
  <2> HIDE DEF i
  <2>4. d[k] \subseteq d[k + 1]
    BY <2>3 DEF Doubts
  <2>5. ASSUME NEW id \in DOMAIN venueSymbol, Inc(id) >= 0, id \notin d[k + 1]
        PROVE  Kept(V, lost, View(g[k + 1], id), id, i)
    <3>1. id \notin d[k] /\ id \notin doubtful
      BY <1>8, <2>4, <2>5
    <3>2. Kept(V, lost, View(g[k], id), id, Upto(k))
      BY <1>8, <2>5, <3>1
    <3>3. Kept(V, lost, View(g[k], id), id, i - 1)
      BY <2>2, <2>5, <3>1, <3>2, KeptSkipsRow
    <3>4. id \notin Doubts(d[k], i)
      BY <2>3, <2>5
    <3>5. QED BY <2>2, <2>3, <2>5, <3>3, <3>4, KeptByDispatch
  <2>6. QED BY <1>8, <2>2, <2>4, <2>5
<1> HIDE DEF Row
<1>9. 0 \in P /\ \A k \in Nat : k \in P => k + 1 \in P
  <2>1. 0 \in P
    BY <1>7
  <2>2. ASSUME NEW k \in P, k + 1 <= n PROVE Row(k + 1)
    <3>1. k \in Nat /\ k <= n
      BY <1>1, <2>2
    <3>2. QED BY <1>8, <2>2, <3>1
  <2>3. QED BY <2>1, <2>2
<1> HIDE DEF P
<1>10. Nat \subseteq P
  BY <1>9, CountInduction
<1>11. Row(n)
  <2>1. n \in P /\ n <= n
    BY <1>1, <1>10
  <2>2. QED BY <2>1 DEF P
<1>12. ASSUME NEW id \in DOMAIN venueSymbol, Inc(id) >= 0, id \notin Doubted
       PROVE  Kept(V, lost, View(Drain, id), id, liveRead)
  <2>1. id \notin doubtful /\ Kept(V, lost, View(Drain, id), id, Upto(n))
    BY <1>3, <1>4, <1>11, <1>12 DEF Row
  <2>2. Upto(n) \in Nat /\ Upto(n) <= liveRead
    BY <1>1, <1>6
  <2>3. QED BY <1>2, <1>5, <1>12, <2>1, <2>2, KeptSkipsRow
<1>13. doubtful \subseteq Doubted
  BY <1>4, <1>11 DEF Row
<1>14. Drain \in States
  BY <1>1, <1>3
<1>15. QED BY <1>12, <1>13, <1>14

LEMMA QuietPollRight ==
    ASSUME ListenerInv, ListenerTyped', QuietPoll
    PROVE  ListenerInv'
<1>1. PICK V : Right(V)
  BY DEF ListenerInv
<1>2. /\ ListenerTyped /\ LostDoubted /\ BufferOrdered
      /\ History(V) /\ SnapsRight(V) /\ EarlyRight(V) /\ LateRight(V)
  BY <1>1 DEF ListenerInv, Right
<1>3. /\ ~caughtUp /\ ~stopped
      /\ UNCHANGED <<venue, venueSymbol, feed, replay, liveRead, lost, stopped, included>>
  BY DEF QuietPoll, venueVars
<1>4. SnapsRight(V)'
  BY <1>2, <1>3 DEF SnapsRight
<1>5. CASE noReplayCount' > QuietPolls
  <2>1. caughtUp' = TRUE /\ Becomes(Drain) /\ doubtful' = Doubted
    BY <1>5 DEF QuietPoll, Doubted
  <2>2. /\ doubtful \subseteq Doubted /\ Drain \in States
        /\ \A id \in DOMAIN venueSymbol : Inc(id) >= 0 /\ id \notin Doubted =>
              Kept(V, lost, View(Drain, id), id, liveRead)
    BY <1>2, <1>3, DrainKeeps
  <2>3. State' = Drain
    BY <2>1, <2>2, BecomesState
  <2>4. LateRight(V)'
    <3> SUFFICES ASSUME NEW id \in DOMAIN venueSymbol, Inc(id) >= 0, id \notin Doubted
                 PROVE  Kept(V, lost, View(State, id), id, liveRead)'
      BY <1>3, <2>1 DEF LateRight, Inc
    <3>1. Kept(V, lost, View(Drain, id), id, liveRead)
      BY <2>2
    <3>2. View(State, id)' = View(Drain, id)
      BY <1>3, <2>3 DEF View
    <3>3. QED BY <1>3, <3>1, <3>2 DEF Kept, Inc
  <2>5. LostDoubted' /\ BufferOrdered' /\ EarlyRight(V)'
    BY <1>2, <1>3, <2>1, <2>2 DEF LostDoubted, BufferOrdered, EarlyRight, Inc
  <2>6. QED BY <1>1, <1>3, <1>4, <2>4, <2>5, RightBy
<1>6. CASE ~(noReplayCount' > QuietPolls)
  <2>1. UNCHANGED <<caughtUp, books, orderToSymbol, doubtful, liveBuffer>>
    BY <1>6 DEF QuietPoll, bookVars
  <2>2. EarlyRight(V)' /\ LateRight(V)'
    BY <1>2, <1>3, <2>1 DEF EarlyRight, LateRight, Kept, View, State, Inc
  <2>3. LostDoubted' /\ BufferOrdered'
    BY <1>2, <1>3, <2>1 DEF LostDoubted, BufferOrdered, Upto, Inc
  <2>4. QED BY <1>1, <1>3, <1>4, <2>2, <2>3, RightBy
<1>7. QED BY <1>5, <1>6

LEMMA InitRight == Init => ListenerInv
<1> SUFFICES ASSUME Init PROVE ListenerInv
  OBVIOUS
<1>1. ListenerTyped
  BY InitTyped
<1>2. /\ feed = <<>> /\ replay = <<>> /\ lost = {} /\ liveBuffer = <<>> /\ liveRead = 0
      /\ caughtUp = FALSE /\ included = [s \in Symbols |-> -1]
  BY DEF Init
<1>3. Len(feed) = 0 /\ Len(replay) = 0 /\ Len(liveBuffer) = 0
  BY <1>2
<1>4. \A id \in DOMAIN venueSymbol : Inc(id) = -1
  BY <1>1, <1>2, MapType DEF Inc, ListenerTyped, VenueTyped, SymbolsTyped
<1>5. LostDoubted
  BY <1>2 DEF LostDoubted
<1>6. BufferOrdered
  BY <1>2, <1>3 DEF BufferOrdered, Upto
<1>7. PICK V : V = [i \in 0 .. 0 |-> venue]
  OBVIOUS
<1>8. History(V)
  BY <1>1, <1>3, <1>7 DEF History, ListenerTyped, VenueTyped
<1>9. SnapsRight(V) /\ EarlyRight(V) /\ LateRight(V)
  BY <1>2, <1>3, <1>4 DEF SnapsRight, EarlyRight, LateRight
<1>10. Right(V)
  BY <1>8, <1>9 DEF Right
<1>11. QED BY <1>1, <1>5, <1>6, <1>10 DEF ListenerInv

LEMMA StepRight == ListenerInv /\ [Next]_vars => ListenerInv'
<1> SUFFICES ASSUME ListenerInv, [Next]_vars PROVE ListenerInv'
  OBVIOUS
<1>1. ListenerTyped /\ ListenerTyped'
  BY StepTyped DEF ListenerInv
<1>2. CASE \E id \in OrderIds :
              \/ \E info \in Info : VenueModify(id, info) \/ \E symbol \in Symbols : VenueNew(id, symbol, info)
              \/ VenueDelete(id) \/ \E qty \in {info.qty : info \in Info} : VenueTrade(id, qty)
  BY <1>1, <1>2, VenueRight
<1>3. ASSUME NEW symbols \in SUBSET Symbols, VenueSnapshot(symbols) PROVE ListenerInv'
  <2> DEFINE orders == Restrict(venue, {id \in DOMAIN venue : venueSymbol[id] \in symbols})
             m == [type |-> "SNAPSHOT", symbols |-> symbols, seq |-> Len(feed), orders |-> orders]
  <2>1. /\ orders \in Orders
        /\ \A id \in OrderIds : id \in DOMAIN venueSymbol /\ venueSymbol[id] \in symbols =>
              In(orders, id) = In(venue, id)
    BY <1>1, SnapshotFaithful
  <2>2. Len(feed) \in Nat /\ DOMAIN venueSymbol \subseteq OrderIds
    BY <1>1, MapType DEF ListenerTyped, FeedTyped, VenueTyped, SymbolsTyped
  <2>3. Replays(m)
    BY <1>3 DEF VenueSnapshot
  <2> HIDE DEF orders
  <2>4. /\ m \in Replies /\ m.seq = Len(feed)
        /\ \A id \in DOMAIN venueSymbol : venueSymbol[id] \in m.symbols => In(m.orders, id) = In(venue, id)
    BY <2>1, <2>2 DEF Replies, Snapshots
  <2> HIDE DEF m
  <2>5. QED BY <1>1, <2>3, <2>4, ReplaysRight
<1>4. CASE VenueHeartbeat
  <2> DEFINE m == [type |-> "HEARTBEAT"]
  <2>1. m \in Replies /\ m.type # "SNAPSHOT" /\ Replays(m)
    BY <1>4 DEF Replies, VenueHeartbeat
  <2> HIDE DEF m
  <2>2. QED BY <1>1, <2>1, ReplaysRight
<1>5. CASE LoseLive
  BY <1>1, <1>5, LoseRight
<1>6. CASE BufferLive
  BY <1>1, <1>6, BufferRight
<1>7. CASE ApplyLive
  BY <1>1, <1>7, ApplyRight
<1>8. CASE ReadHeartbeat
  BY <1>1, <1>8, HeartbeatRight
<1>9. CASE ReadSnapshot
  BY <1>1, <1>9, SnapshotRight
<1>10. CASE QuietPoll
  BY <1>1, <1>10, QuietPollRight
<1>11. CASE UNCHANGED vars
  <2>1. UNCHANGED <<venue, venueSymbol, feed, replay, liveRead, lost, books, orderToSymbol, liveBuffer,
                    caughtUp, stopped, included, doubtful>>
    BY <1>11 DEF vars, venueVars, bookVars, modeVars
  <2>2. PICK V : Right(V)
    BY DEF ListenerInv
  <2>3. SnapsRight(V)' /\ EarlyRight(V)' /\ LateRight(V)'
    BY <2>1, <2>2 DEF Right, SnapsRight, EarlyRight, LateRight, Kept, View, State, Inc
  <2>4. LostDoubted' /\ BufferOrdered'
    BY <2>1 DEF ListenerInv, LostDoubted, BufferOrdered, Upto, Inc
  <2>5. QED BY <1>1, <2>1, <2>2, <2>3, <2>4, RightBy
<1>12. QED
  <2>1. CASE Venue
    <3>1. CASE \E id \in OrderIds, info \in Info :
                  VenueModify(id, info) \/ \E symbol \in Symbols : VenueNew(id, symbol, info)
      BY <1>2, <3>1
    <3>2. CASE \E id \in OrderIds : VenueDelete(id) \/ \E qty \in {info.qty : info \in Info} : VenueTrade(id, qty)
      BY <1>2, <3>2
    <3>3. CASE \E symbols \in SUBSET Symbols \ {{}} : VenueSnapshot(symbols)
      BY <1>3, <3>3
    <3>4. QED BY <1>4, <2>1, <3>1, <3>2, <3>3 DEF Venue
  <2>2. QED BY <1>5, <1>6, <1>7, <1>8, <1>9, <1>10, <1>11, <2>1 DEF Next, Network, Loop

\* Live and with nothing unread, the thread has every order exactly as the venue has it,
\* unless it had a trade twice, an update undone by a late snapshot, or a message lost:
\* what the overlap of snapshot and buffer repeats otherwise does no harm.
THEOREM BooksAgree == Spec => []TrustedOrdersAgree
<1>1. ListenerInv => TrustedOrdersAgree
  <2> SUFFICES ASSUME ListenerInv, UpToDate, NEW id \in DOMAIN venueSymbol, Trusted(id)
               PROVE  Agrees(id)
    BY DEF TrustedOrdersAgree
  <2>1. PICK V : Right(V)
    BY DEF ListenerInv
  <2>2. ListenerTyped /\ History(V) /\ LateRight(V) /\ caughtUp /\ liveRead = Len(feed)
    BY <2>1 DEF ListenerInv, Right, UpToDate
  <2>3. Inc(id) \in Int /\ Inc(id) <= liveRead /\ liveRead \in Nat
    BY <2>2, Places
  <2>4. Kept(V, lost, View(State, id), id, liveRead)
    BY <2>2 DEF LateRight, Trusted, Inc
  <2>5. View(State, id) = In(venue, id)
    <3>1. V[liveRead] = venue
      BY <2>2 DEF History
    <3>2. liveRead > Inc(id) \/ liveRead = Inc(id)
      BY <2>3
    <3>3. QED BY <2>4, <3>1, <3>2 DEF Kept
  <2>6. View(State, id) = In(books[venueSymbol[id]].orders, id)
    BY DEF View, State
  <2> DEFINE o == books[venueSymbol[id]].orders
  <2>7. (id \in DOMAIN o <=> id \in DOMAIN venue) /\ (id \in DOMAIN venue => o[id] = venue[id])
    BY <2>5, <2>6 DEF In
  <2>8. QED BY <2>7 DEF Agrees, BookHas, BookLacks
<1>2. Spec => []ListenerInv
  BY InitRight, StepRight, PTL DEF Spec
<1>3. QED BY <1>1, <1>2, PTL
=============================================================================
