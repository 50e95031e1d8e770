-------------------------- MODULE OEClientProofs ---------------------------
(***************************************************************************)
(* The order-entry client, for any number of orders and any quantities: no *)
(* call that waits for a response is starved by what other waits read, and *)
(* the client's set of live orders is the exchange's once it has read      *)
(* everything.                                                             *)
(*                                                                         *)
(* Both are facts about the stream. The first: the ids whose answers are   *)
(* to be collected, in the order of their collection, have messages that   *)
(* end their waits in the same order in the stream. The second: the last   *)
(* message that bears on an order agrees with the exchange.                *)
(*                                                                         *)
(* The third tale is of fills. What has executed of an order is what the   *)
(* client has reported of it and the fills that are still unread, a sum    *)
(* over the positions of the stream; reading takes from it the messages up *)
(* to one position, emitting adds one. So no fill is reported twice or     *)
(* lost, and a wait for a fill that says filled has seen the order done.   *)
(***************************************************************************)
EXTENDS OEClient, SequenceTheorems, Sums

-----------------------------------------------------------------------------
(* The inductive invariant *)

Reasons == {"INVALID_ORDER", "UNKNOWN_ORDER_ID"}

Messages ==
    [type : {"ACK", "CLOSE"}, id : ClientIds]
        \cup [type : {"REJECT"}, id : ClientIds, reason : Reasons]
        \cup [type : {"FILL"}, id : ClientIds, qty : Nat \ {0}, closed : BOOLEAN]

Requests == {"new", "delete", "modify"}

\* Orders are sent without waiting only while nothing else is going on, and are
\* collected before anything else is.
Typed ==
    /\ resting \in [ClientIds -> Nat]
    /\ stream \in Seq(Messages)
    /\ connected \in BOOLEAN
    /\ owed \in Seq(ClientIds)
    /\ liveOrders \subseteq ClientIds /\ cancelling \subseteq ClientIds
    /\ waiting \in {None} \cup Ids(Requests \cup {"fill"})
    /\ cancelling # {} \/ waiting.op \in {"delete", "modify", "fill"} => owed = <<>>

\* The ids whose answers are to be collected, in this order
Awaited == IF Responding THEN <<waiting.id>> \o owed ELSE owed

Ends(m, id) == EndsWell(m, id) \/ EndsBadly(m, id)

\* at gives each id a message that ends its wait, later ids later messages.
Answers(at, msgs, ids) ==
    /\ at \in [1 .. Len(ids) -> 1 .. Len(msgs)]
    /\ \A k \in 1 .. Len(ids) : Ends(msgs[at[k]], ids[k])
    /\ \A j, k \in 1 .. Len(ids) : j < k => at[j] < at[k]

InOrder(msgs, ids) == \E at : Answers(at, msgs, ids)

\* The messages after which an order is live, or is not
BearsOn(m, id) ==
    m.id = id /\ (m.type \in {"ACK", "CLOSE"} \/ (m.type = "FILL" /\ m.closed))

\* To a reader who thinks that the order is live or not (before), the messages tell
\* that it is or is not (after).
Tell(msgs, id, before, after) ==
    \/ /\ \A i \in 1 .. Len(msgs) : ~BearsOn(msgs[i], id)
       /\ before <=> after
    \/ \E i \in 1 .. Len(msgs) :
          /\ BearsOn(msgs[i], id)
          /\ \A j \in i + 1 .. Len(msgs) : ~BearsOn(msgs[j], id)
          /\ after <=> msgs[i].type = "ACK"

Works(id) == resting[id] > 0

\* The stream brings what the client thinks of each order to what the exchange knows.
Tells == \A id \in ClientIds : Tell(stream, id, id \in liveOrders, Works(id))

\* After the loss of the connection nothing is claimed of the stream.
TInv == Typed /\ (connected => Tells)

CInv == TInv /\ (connected => InOrder(stream, Awaited))

-----------------------------------------------------------------------------
(* Answers in order *)

\* More messages leave the answers where they are.
LEMMA MoreInOrder ==
    ASSUME NEW msgs \in Seq(Messages), NEW more \in Seq(Messages), NEW ids \in Seq(ClientIds),
           InOrder(msgs, ids)
    PROVE  InOrder(msgs \o more, ids)
<1>1. PICK at : Answers(at, msgs, ids)
  BY DEF InOrder
<1>2. /\ Len(msgs) \in Nat /\ Len(more) \in Nat /\ Len(ids) \in Nat
      /\ Len(msgs \o more) = Len(msgs) + Len(more)
      /\ \A i \in 1 .. Len(msgs) : (msgs \o more)[i] = msgs[i]
  BY ConcatProperties, LenProperties
<1>3. Answers(at, msgs \o more, ids)
  <2>1. at \in [1 .. Len(ids) -> 1 .. Len(msgs \o more)]
    BY <1>1, <1>2 DEF Answers
  <2>2. \A k \in 1 .. Len(ids) : (msgs \o more)[at[k]] = msgs[at[k]]
    BY <1>1, <1>2 DEF Answers
  <2>3. QED BY <1>1, <2>1, <2>2 DEF Answers
<1>4. QED BY <1>3 DEF InOrder

\* A request whose answer is the last message is awaited last.
LEMMA RequestInOrder ==
    ASSUME NEW msgs \in Seq(Messages), NEW more \in Seq(Messages), NEW ids \in Seq(ClientIds),
           NEW id \in ClientIds, InOrder(msgs, ids),
           more # <<>>, Ends(more[Len(more)], id)
    PROVE  InOrder(msgs \o more, Append(ids, id))
<1>1. PICK at : Answers(at, msgs, ids)
  BY DEF InOrder
<1> DEFINE n == Len(ids)
           all == msgs \o more
           to == [k \in 1 .. n + 1 |-> IF k = n + 1 THEN Len(all) ELSE at[k]]
<1>2. /\ Len(msgs) \in Nat /\ Len(more) \in Nat /\ Len(more) > 0 /\ n \in Nat
      /\ Len(all) = Len(msgs) + Len(more)
      /\ \A i \in 1 .. Len(msgs) : all[i] = msgs[i]
      /\ all[Len(all)] = more[Len(more)]
  BY ConcatProperties, LenProperties, EmptySeq
<1>3. /\ Len(Append(ids, id)) = n + 1
      /\ \A k \in 1 .. n : Append(ids, id)[k] = ids[k]
      /\ Append(ids, id)[n + 1] = id
  BY AppendProperties, <1>2
<1>4. \A k \in 1 .. n : at[k] \in 1 .. Len(msgs) /\ Ends(msgs[at[k]], ids[k])
  BY <1>1 DEF Answers
<1>5. \A j, k \in 1 .. n : j < k => at[j] < at[k]
  BY <1>1 DEF Answers
<1> HIDE DEF all, n
<1>6. to \in [1 .. n + 1 -> 1 .. Len(all)]
  <2>1. ASSUME NEW k \in 1 .. n + 1 PROVE (IF k = n + 1 THEN Len(all) ELSE at[k]) \in 1 .. Len(all)
    <3>1. Len(all) \in 1 .. Len(all) /\ 1 .. Len(msgs) \subseteq 1 .. Len(all)
      BY <1>2
    <3>2. k # n + 1 => k \in 1 .. n
      BY <1>2
    <3>3. QED BY <1>4, <3>1, <3>2
  <2>2. QED BY <2>1
<1>7. \A k \in 1 .. n + 1 : Ends(all[to[k]], Append(ids, id)[k])
  <2>1. TAKE k \in 1 .. n + 1
  <2>2. CASE k = n + 1
    BY <1>2, <1>3, <2>2
  <2>3. CASE k # n + 1
    <3>1. k \in 1 .. n
      BY <1>2, <2>3
    <3>2. QED BY <1>2, <1>3, <1>4, <2>3, <3>1
  <2>4. QED BY <2>2, <2>3
<1>8. \A j, k \in 1 .. n + 1 : j < k => to[j] < to[k]
  <2>1. TAKE j, k \in 1 .. n + 1
  <2>2. HAVE j < k
  <2>3. j \in 1 .. n
    BY <1>2, <2>2
  <2>4. at[j] \in 1 .. Len(msgs) /\ to[j] = at[j]
    BY <1>2, <1>4, <2>3
  <2>5. CASE k = n + 1
    <3>1. to[k] = Len(all)
      BY <2>5
    <3>2. QED BY <1>2, <2>4, <3>1
  <2>6. CASE k # n + 1
    <3>1. k \in 1 .. n /\ to[k] = at[k]
      BY <1>2, <2>6
    <3>2. QED BY <1>5, <2>2, <2>3, <2>4, <3>1
  <2>7. QED BY <2>5, <2>6
<1>9. Answers(to, all, Append(ids, id))
  BY <1>3, <1>6, <1>7, <1>8 DEF Answers
<1>10. QED BY <1>9 DEF InOrder, all

\* Reading a message that ends no wait for the next answer leaves the answers.
LEMMA ReadPast ==
    ASSUME NEW msgs \in Seq(Messages), NEW ids \in Seq(ClientIds), InOrder(msgs, ids), msgs # <<>>,
           ids # <<>> => ~Ends(Head(msgs), ids[1])
    PROVE  InOrder(Tail(msgs), ids)
<1>1. PICK at : Answers(at, msgs, ids)
  BY DEF InOrder
<1> DEFINE to == [k \in 1 .. Len(ids) |-> at[k] - 1]
<1>2. /\ Len(msgs) \in Nat /\ Len(ids) \in Nat /\ Head(msgs) = msgs[1]
      /\ Len(Tail(msgs)) = Len(msgs) - 1
      /\ \A i \in 1 .. Len(msgs) - 1 : Tail(msgs)[i] = msgs[i + 1]
  BY HeadTailProperties, LenProperties
<1>3. \A k \in 1 .. Len(ids) : at[k] \in 2 .. Len(msgs)
  <2>1. TAKE k \in 1 .. Len(ids)
  <2>2. 1 \in 1 .. Len(ids) /\ ids # <<>>
    BY <1>2, EmptySeq
  <2>3. at[1] \in 1 .. Len(msgs) /\ at[1] # 1 /\ at[k] \in 1 .. Len(msgs)
    BY <1>1, <1>2, <2>2 DEF Answers
  <2>4. at[1] <= at[k]
    BY <1>1, <1>2, <2>2, <2>3 DEF Answers
  <2>5. QED BY <1>2, <2>3, <2>4
<1>4. Answers(to, Tail(msgs), ids)
  <2>1. to \in [1 .. Len(ids) -> 1 .. Len(Tail(msgs))]
    BY <1>2, <1>3
  <2>2. \A k \in 1 .. Len(ids) : Tail(msgs)[to[k]] = msgs[at[k]]
    BY <1>2, <1>3
  <2>3. \A j, k \in 1 .. Len(ids) : j < k => to[j] < to[k]
    BY <1>1, <1>3 DEF Answers
  <2>4. QED BY <1>1, <2>1, <2>2, <2>3 DEF Answers
<1>5. QED BY <1>4 DEF InOrder

\* Reading any message leaves the answers of all but the first awaited id.
LEMMA ReadAnswer ==
    ASSUME NEW msgs \in Seq(Messages), NEW ids \in Seq(ClientIds), InOrder(msgs, ids), msgs # <<>>,
           ids # <<>>
    PROVE  InOrder(Tail(msgs), Tail(ids))
<1>1. PICK at : Answers(at, msgs, ids)
  BY DEF InOrder
<1> DEFINE n == Len(ids)
           to == [k \in 1 .. n - 1 |-> at[k + 1] - 1]
<1>2. /\ Len(msgs) \in Nat /\ n \in Nat /\ n > 0
      /\ Len(Tail(msgs)) = Len(msgs) - 1
      /\ \A i \in 1 .. Len(msgs) - 1 : Tail(msgs)[i] = msgs[i + 1]
      /\ Len(Tail(ids)) = n - 1
      /\ \A i \in 1 .. n - 1 : Tail(ids)[i] = ids[i + 1]
  BY HeadTailProperties, LenProperties, EmptySeq
<1>3. /\ \A k \in 1 .. n : at[k] \in 1 .. Len(msgs) /\ Ends(msgs[at[k]], ids[k])
      /\ \A j, k \in 1 .. n : j < k => at[j] < at[k]
  BY <1>1 DEF Answers
<1> HIDE DEF n
<1>4. \A k \in 1 .. n - 1 : k + 1 \in 1 .. n /\ at[k + 1] \in 2 .. Len(msgs)
  <2>1. TAKE k \in 1 .. n - 1
  <2>2. 1 \in 1 .. n /\ k + 1 \in 1 .. n /\ 1 < k + 1
    BY <1>2
  <2>3. at[1] < at[k + 1] /\ at[1] \in 1 .. Len(msgs) /\ at[k + 1] \in 1 .. Len(msgs)
    BY <1>3, <2>2
  <2>4. QED BY <1>2, <2>2, <2>3
<1>5. Answers(to, Tail(msgs), Tail(ids))
  <2>1. to \in [1 .. n - 1 -> 1 .. Len(Tail(msgs))]
    BY <1>2, <1>4
  <2>2. \A k \in 1 .. n - 1 : Tail(msgs)[to[k]] = msgs[at[k + 1]] /\ Tail(ids)[k] = ids[k + 1]
    BY <1>2, <1>4
  <2>3. \A j, k \in 1 .. n - 1 : j < k => to[j] < to[k]
    <3>1. TAKE j, k \in 1 .. n - 1
    <3>2. HAVE j < k
    <3>3. at[j + 1] < at[k + 1] /\ at[j + 1] \in Int /\ at[k + 1] \in Int
      BY <1>2, <1>3, <1>4, <3>2
    <3>4. QED BY <3>3
  <2>4. QED BY <1>2, <1>3, <1>4, <2>1, <2>2, <2>3 DEF Answers
<1>6. QED BY <1>5 DEF InOrder
-----------------------------------------------------------------------------
(* What the stream tells of an order *)

\* The later message decides.
LEMMA TellMore ==
    ASSUME NEW msgs \in Seq(Messages), NEW more \in Seq(Messages), NEW id,
           NEW a \in BOOLEAN, NEW b \in BOOLEAN, NEW c \in BOOLEAN,
           Tell(msgs, id, a, b), Tell(more, id, b, c)
    PROVE  Tell(msgs \o more, id, a, c)
<1> DEFINE all == msgs \o more
<1>1. /\ Len(msgs) \in Nat /\ Len(more) \in Nat
      /\ Len(all) = Len(msgs) + Len(more)
      /\ \A i \in 1 .. Len(msgs) : i \in 1 .. Len(all) /\ all[i] = msgs[i]
      /\ \A i \in 1 .. Len(more) :
            Len(msgs) + i \in 1 .. Len(all) /\ all[Len(msgs) + i] = more[i]
  BY ConcatProperties, LenProperties
<1> HIDE DEF all
<1>2. \A i \in 1 .. Len(all) :
        i \in 1 .. Len(msgs) \/ \E j \in 1 .. Len(more) : i = Len(msgs) + j
  <2>1. TAKE i \in 1 .. Len(all)
  <2>2. CASE i > Len(msgs)
    <3>1. i - Len(msgs) \in 1 .. Len(more) /\ i = Len(msgs) + (i - Len(msgs))
      BY <1>1, <2>2
    <3>2. QED BY <3>1
  <2>3. QED BY <1>1, <2>2
<1>3. CASE \E i \in 1 .. Len(more) :
            /\ BearsOn(more[i], id)
            /\ \A j \in i + 1 .. Len(more) : ~BearsOn(more[j], id)
            /\ c <=> more[i].type = "ACK"
  <2>1. PICK i \in 1 .. Len(more) :
            /\ BearsOn(more[i], id)
            /\ \A j \in i + 1 .. Len(more) : ~BearsOn(more[j], id)
            /\ c <=> more[i].type = "ACK"
    BY <1>3
  <2> DEFINE at == Len(msgs) + i
  <2>2. at \in 1 .. Len(all) /\ all[at] = more[i]
    BY <1>1
  <2>3. ASSUME NEW k \in at + 1 .. Len(all) PROVE ~BearsOn(all[k], id)
    <3>1. k - Len(msgs) \in i + 1 .. Len(more) /\ k - Len(msgs) \in 1 .. Len(more)
          /\ k = Len(msgs) + (k - Len(msgs))
      BY <1>1
    <3>2. all[k] = more[k - Len(msgs)]
      BY <1>1, <3>1
    <3>3. QED BY <2>1, <3>1, <3>2
  <2>4. QED BY <2>1, <2>2, <2>3 DEF Tell, all
<1>4. CASE (\A i \in 1 .. Len(more) : ~BearsOn(more[i], id)) /\ (b <=> c)
  <2>1. CASE (\A i \in 1 .. Len(msgs) : ~BearsOn(msgs[i], id)) /\ (a <=> b)
    <3>1. \A i \in 1 .. Len(all) : ~BearsOn(all[i], id)
      BY <1>1, <1>2, <1>4, <2>1
    <3>2. QED BY <1>4, <2>1, <3>1 DEF Tell, all
  <2>2. CASE \E i \in 1 .. Len(msgs) :
              /\ BearsOn(msgs[i], id)
              /\ \A j \in i + 1 .. Len(msgs) : ~BearsOn(msgs[j], id)
              /\ b <=> msgs[i].type = "ACK"
    <3>1. PICK i \in 1 .. Len(msgs) :
              /\ BearsOn(msgs[i], id)
              /\ \A j \in i + 1 .. Len(msgs) : ~BearsOn(msgs[j], id)
              /\ b <=> msgs[i].type = "ACK"
      BY <2>2
    <3>2. ASSUME NEW k \in i + 1 .. Len(all) PROVE ~BearsOn(all[k], id)
      <4>1. k \in 1 .. Len(all)
        BY <1>1
      <4>2. CASE k \in 1 .. Len(msgs)
        <5>1. k \in i + 1 .. Len(msgs)
          BY <1>1, <4>2
        <5>2. QED BY <1>1, <3>1, <4>2, <5>1
      <4>3. QED BY <1>1, <1>2, <1>4, <4>1, <4>2
    <3>3. i \in 1 .. Len(all) /\ all[i] = msgs[i]
      BY <1>1
    <3>4. QED BY <1>4, <3>1, <3>2, <3>3 DEF Tell, all
  <2>3. QED BY <2>1, <2>2 DEF Tell
<1>5. QED BY <1>3, <1>4 DEF Tell

\* Reading a message moves what it tells from the stream to the reader.
LEMMA TellTail ==
    ASSUME NEW msgs \in Seq(Messages), msgs # <<>>, NEW id,
           NEW a \in BOOLEAN, NEW b \in BOOLEAN, NEW c \in BOOLEAN,
           Tell(msgs, id, a, c),
           IF BearsOn(Head(msgs), id) THEN b <=> Head(msgs).type = "ACK" ELSE a <=> b
    PROVE  Tell(Tail(msgs), id, b, c)
<1> DEFINE rest == Tail(msgs)
<1>1. /\ Len(msgs) \in Nat /\ Len(rest) = Len(msgs) - 1 /\ Head(msgs) = msgs[1] /\ 1 \in 1 .. Len(msgs)
      /\ \A i \in 1 .. Len(rest) : i + 1 \in 1 .. Len(msgs) /\ rest[i] = msgs[i + 1]
  BY HeadTailProperties, LenProperties, EmptySeq
<1> HIDE DEF rest
<1>2. CASE (\A i \in 1 .. Len(msgs) : ~BearsOn(msgs[i], id)) /\ (a <=> c)
  BY <1>1, <1>2 DEF Tell, rest
<1>3. CASE \E i \in 1 .. Len(msgs) :
            /\ BearsOn(msgs[i], id)
            /\ \A j \in i + 1 .. Len(msgs) : ~BearsOn(msgs[j], id)
            /\ c <=> msgs[i].type = "ACK"
  <2>1. PICK i \in 1 .. Len(msgs) :
            /\ BearsOn(msgs[i], id)
            /\ \A j \in i + 1 .. Len(msgs) : ~BearsOn(msgs[j], id)
            /\ c <=> msgs[i].type = "ACK"
    BY <1>3
  <2>2. \A j \in 1 .. Len(rest) : j + 1 > i => ~BearsOn(rest[j], id)
    <3>1. TAKE j \in 1 .. Len(rest)
    <3>2. HAVE j + 1 > i
    <3>3. j + 1 \in i + 1 .. Len(msgs)
      BY <1>1, <3>2
    <3>4. QED BY <1>1, <2>1, <3>3
  <2>3. CASE i = 1
    <3>1. b <=> c
      BY <1>1, <2>1, <2>3
    <3>2. \A j \in 1 .. Len(rest) : ~BearsOn(rest[j], id)
      BY <1>1, <2>2, <2>3
    <3>3. QED BY <3>1, <3>2 DEF Tell, rest
  <2>4. CASE i # 1
    <3>1. i - 1 \in 1 .. Len(rest) /\ rest[i - 1] = msgs[i]
      BY <1>1, <2>4
    <3>2. \A j \in i .. Len(rest) : ~BearsOn(rest[j], id)
      BY <1>1, <2>2
    <3>3. (i - 1) + 1 = i
      BY <1>1
    <3>4. QED BY <2>1, <3>1, <3>2, <3>3 DEF Tell, rest
  <2>5. QED BY <2>3, <2>4
<1>4. QED BY <1>2, <1>3 DEF Tell
-----------------------------------------------------------------------------
(* Requests and their answers *)

\* The client's messages are Messages.
LEMMA MessageTypes ==
    ASSUME NEW id \in ClientIds
    PROVE  /\ Ack(id) \in Messages
           /\ Close(id) \in Messages
           /\ \A reason \in Reasons : Reject(id, reason) \in Messages
           /\ \A qty \in Nat \ {0}, closed \in BOOLEAN : Fill(id, qty, closed) \in Messages
  BY DEF Ack, Close, Reject, Fill, Messages

\* One message tells what it says itself.
LEMMA TellOne ==
    ASSUME NEW m \in Messages, NEW id, NEW a \in BOOLEAN, NEW b \in BOOLEAN,
           IF BearsOn(m, id) THEN b <=> m.type = "ACK" ELSE a <=> b
    PROVE  Tell(<<m>>, id, a, b)
<1>1. Len(<<m>>) = 1 /\ <<m>>[1] = m
  OBVIOUS
<1>2. CASE BearsOn(m, id)
  <2>1. 1 \in 1 .. 1 /\ \A j \in 1 + 1 .. 1 : FALSE
    OBVIOUS
  <2>2. QED BY <1>1, <1>2, <2>1 DEF Tell
<1>3. CASE ~BearsOn(m, id)
  BY <1>1, <1>3 DEF Tell
<1>4. QED BY <1>2, <1>3

\* msgs answer a request about id: they end its wait, and tell of every order whether it
\* now works at the exchange; a closing fill among them says so truly.
Answered(id, msgs) ==
    /\ msgs \in Seq(Messages) /\ msgs # <<>>
    /\ Ends(msgs[Len(msgs)], id)
    /\ \A k \in 1 .. Len(msgs) :
          msgs[k].id = id /\ (BearsOn(msgs[k], id) /\ msgs[k].type = "FILL" => ~Works(id)')
    /\ Emit(msgs)
    /\ resting' \in [ClientIds -> Nat]
    /\ \A i \in ClientIds : Tell(msgs, i, Works(i), Works(i)')

\* An answer of one message.
LEMMA AnsweredByOne ==
    ASSUME Typed, NEW id \in ClientIds, NEW m \in Messages, m.id = id, Emit(<<m>>), Ends(m, id),
           resting' \in [ClientIds -> Nat], \A i \in ClientIds \ {id} : resting'[i] = resting[i],
           IF BearsOn(m, id) THEN Works(id)' <=> m.type = "ACK" ELSE Works(id) <=> Works(id)'
    PROVE  Answered(id, <<m>>)
<1>1. <<m>> \in Seq(Messages) /\ <<m>> # <<>> /\ <<m>>[Len(<<m>>)] = m
  OBVIOUS
<1>2. ASSUME NEW i \in ClientIds PROVE Tell(<<m>>, i, Works(i), Works(i)')
  <2>1. Works(i) \in BOOLEAN /\ Works(i)' \in BOOLEAN
    BY DEF Works
  <2>2. CASE i = id
    <3>1. QED BY <2>1, <2>2, TellOne
  <2>3. CASE i # id
    <3>1. ~BearsOn(m, i) /\ (Works(i) <=> Works(i)')
      BY <2>3 DEF BearsOn, Works
    <3>2. QED BY <2>1, <3>1, TellOne
  <2>4. QED BY <2>2, <2>3
<1>3. ASSUME NEW k \in 1 .. Len(<<m>>)
      PROVE  <<m>>[k].id = id /\ (BearsOn(<<m>>[k], id) /\ <<m>>[k].type = "FILL" => ~Works(id)')
  <2>1. <<m>>[k] = m
    OBVIOUS
  <2>2. QED BY <2>1
<1>4. QED BY <1>1, <1>2, <1>3 DEF Answered

\* An answer of a partial fill and a message.
LEMMA AnsweredByTwo ==
    ASSUME Typed, NEW id \in ClientIds, NEW qty \in Nat \ {0}, NEW m \in Messages, m.id = id, Ends(m, id),
           Emit(<<Fill(id, qty, FALSE), m>>),
           resting' \in [ClientIds -> Nat], \A i \in ClientIds \ {id} : resting'[i] = resting[i],
           BearsOn(m, id), Works(id)' <=> m.type = "ACK"
    PROVE  Answered(id, <<Fill(id, qty, FALSE), m>>)
<1> DEFINE f == Fill(id, qty, FALSE)
           both == <<f, m>>
<1>1. f \in Messages
  BY MessageTypes
<1>2. \A i \in ClientIds : ~BearsOn(f, i)
  BY DEF BearsOn, Fill
<1> HIDE DEF f
<1>3. both \in Seq(Messages) /\ both # <<>> /\ both[Len(both)] = m /\ both = <<f>> \o <<m>>
  BY <1>1
<1>4. ASSUME NEW i \in ClientIds PROVE Tell(both, i, Works(i), Works(i)')
  <2>1. Works(i) \in BOOLEAN /\ Works(i)' \in BOOLEAN
    BY DEF Works
  <2>2. Tell(<<f>>, i, Works(i), Works(i))
    BY <1>1, <1>2, <2>1, TellOne
  <2>3. Tell(<<m>>, i, Works(i), Works(i)')
    <3>1. i # id => ~BearsOn(m, i) /\ (Works(i) <=> Works(i)')
      BY DEF BearsOn, Works
    <3>2. QED BY <2>1, <3>1, TellOne
  <2>4. <<f>> \in Seq(Messages) /\ <<m>> \in Seq(Messages)
    BY <1>1
  <2> HIDE DEF both
  <2>5. Tell(<<f>> \o <<m>>, i, Works(i), Works(i)')
    BY <2>1, <2>2, <2>3, <2>4, TellMore
  <2>6. QED BY <1>3, <2>5
<1>5. ASSUME NEW k \in 1 .. Len(both)
      PROVE  both[k].id = id /\ (BearsOn(both[k], id) /\ both[k].type = "FILL" => ~Works(id)')
  <2>1. both[k] = f \/ both[k] = m
    OBVIOUS
  <2>2. f.id = id
    BY DEF f, Fill
  <2>3. QED BY <1>2, <2>1, <2>2
<1>6. QED BY <1>3, <1>4, <1>5 DEF Answered, f

\* The exchange answers every new order.
LEMMA NewAnswered ==
    ASSUME Typed, NEW id \in ClientIds, NEW qty \in 1 .. MaxQty, ExchangeTakesNew(id, qty)
    PROVE  \E msgs : Answered(id, msgs)
<1>1. ASSUME Emit(<<Reject(id, "INVALID_ORDER")>>), UNCHANGED resting
      PROVE  \E msgs : Answered(id, msgs)
  <2> DEFINE m == Reject(id, "INVALID_ORDER")
  <2>1. m \in Messages
    BY MessageTypes DEF Reasons
  <2>2. m.id = id /\ Ends(m, id) /\ ~BearsOn(m, id)
    BY DEF Reject, Ends, EndsBadly, BearsOn
  <2>3. resting' \in [ClientIds -> Nat] /\ (Works(id) <=> Works(id)')
    BY <1>1 DEF Typed, Works
  <2> HIDE DEF m
  <2>4. Answered(id, <<m>>)
    BY <1>1, <2>1, <2>2, <2>3, AnsweredByOne DEF m
  <2>5. QED BY <2>4
<1>2. ASSUME NEW now \in 0 .. qty, resting' = [resting EXCEPT ![id] = qty - now],
             NEW msgs \in AnswersToNew(id, now, qty - now), Emit(msgs)
      PROVE  Answered(id, msgs)
  <2>1. now \in Nat /\ qty \in Nat /\ qty > 0 /\ now <= qty
    BY <1>2, BoundsAssumption
  <2>2. /\ resting' \in [ClientIds -> Nat] /\ \A i \in ClientIds \ {id} : resting'[i] = resting[i]
        /\ Works(id)' <=> now # qty
    BY <1>2, <2>1 DEF Typed, Works
  <2>3. /\ Ack(id) \in Messages /\ Ack(id).id = id /\ Ack(id).type = "ACK"
        /\ Ends(Ack(id), id) /\ BearsOn(Ack(id), id)
    BY MessageTypes DEF Ack, Ends, EndsWell, BearsOn
  <2>4. ASSUME NEW q \in Nat \ {0}
        PROVE  /\ Fill(id, q, TRUE) \in Messages /\ Fill(id, q, TRUE).id = id
               /\ Fill(id, q, TRUE).type # "ACK"
               /\ Ends(Fill(id, q, TRUE), id) /\ BearsOn(Fill(id, q, TRUE), id)
    BY MessageTypes DEF Fill, Ends, EndsWell, BearsOn
  <2>5. CASE now # qty /\ msgs = <<Ack(id)>>
    BY <1>2, <2>2, <2>3, <2>5, AnsweredByOne
  <2>6. CASE now \in Nat \ {0} /\ now # qty /\ msgs = <<Fill(id, now, FALSE), Ack(id)>>
    BY <1>2, <2>2, <2>3, <2>6, AnsweredByTwo
  <2>7. CASE now = qty /\ msgs = <<Fill(id, now, TRUE)>>
    <3>1. now \in Nat \ {0}
      BY <2>1, <2>7
    <3>2. QED BY <1>2, <2>2, <2>4, <2>7, <3>1, AnsweredByOne
  <2>8. CASE now = qty /\ now > 1 /\ msgs = <<Fill(id, 1, FALSE), Fill(id, now - 1, TRUE)>>
    <3>1. now - 1 \in Nat \ {0} /\ 1 \in Nat \ {0}
      BY <2>1, <2>8
    <3>2. QED BY <1>2, <2>2, <2>4, <2>8, <3>1, AnsweredByTwo
  <2>9. CASE now = 0
    BY <1>2, <2>1, <2>5, <2>9 DEF AnswersToNew
  <2>10. CASE now > 0 /\ now # qty
    <3>1. now # 0 /\ qty - now > 0 /\ ~(now = 1 /\ qty - now = 0)
      BY <2>1, <2>10
    <3>2. AnswersToNew(id, now, qty - now) = {<<Fill(id, now, FALSE), Ack(id)>>}
      BY <2>10, <3>1, Zenon DEF AnswersToNew
    <3>3. now \in Nat \ {0}
      BY <2>1, <2>10
    <3>4. QED BY <1>2, <2>6, <2>10, <3>2, <3>3, Zenon
  <2>11. CASE now = 1 /\ now = qty
    <3>1. now # 0 /\ ~(now > 0 /\ qty - now > 0) /\ now = 1 /\ qty - now = 0
      BY <2>1, <2>11
    <3>2. AnswersToNew(id, now, qty - now) = {<<Fill(id, 1, TRUE)>>}
      BY <3>1, Zenon DEF AnswersToNew
    <3>3. msgs = <<Fill(id, now, TRUE)>>
      BY <1>2, <3>1, <3>2, Zenon
    <3>4. QED BY <2>7, <2>11, <3>3
  <2>12. CASE now > 1 /\ now = qty
    <3>1. now # 0 /\ ~(now > 0 /\ qty - now > 0) /\ ~(now = 1 /\ qty - now = 0)
      BY <2>1, <2>12
    <3>2. AnswersToNew(id, now, qty - now)
            = {<<Fill(id, now, TRUE)>>, <<Fill(id, 1, FALSE), Fill(id, now - 1, TRUE)>>}
      BY <3>1, Zenon DEF AnswersToNew
    <3>3. QED BY <1>2, <2>7, <2>8, <2>12, <3>2, Zenon
  <2>13. QED BY <2>1, <2>9, <2>10, <2>11, <2>12
<1>3. QED
  <2>1. CASE \E now \in 0 .. qty :
               /\ resting' = [resting EXCEPT ![id] = qty - now]
               /\ \E msgs \in AnswersToNew(id, now, qty - now) : Emit(msgs)
    BY <1>2, <2>1
  <2>2. QED BY <1>1, <2>1 DEF ExchangeTakesNew

\* The exchange answers every delete and every modify.
LEMMA OtherAnswered ==
    ASSUME Typed, NEW id \in ClientIds, NEW qty \in 1 .. MaxQty,
           ExchangeTakesDelete(id) \/ ExchangeTakesModify(id, qty)
    PROVE  \E msgs : Answered(id, msgs)
<1>1. resting[id] \in Nat /\ qty \in Nat /\ qty > 0
  BY BoundsAssumption DEF Typed
<1>2. ASSUME NEW reason \in Reasons, Emit(<<Reject(id, reason)>>), resting' = resting
      PROVE  \E msgs : Answered(id, msgs)
  <2> DEFINE m == Reject(id, reason)
  <2>1. m \in Messages
    BY MessageTypes
  <2>2. m.id = id /\ Ends(m, id) /\ ~BearsOn(m, id)
    BY DEF Reject, Ends, EndsBadly, EndsWell, BearsOn
  <2>3. resting' \in [ClientIds -> Nat] /\ (Works(id) <=> Works(id)')
    BY <1>2 DEF Typed, Works
  <2> HIDE DEF m
  <2>4. Answered(id, <<m>>)
    BY <1>2, <2>1, <2>2, <2>3, AnsweredByOne DEF m
  <2>5. QED BY <2>4
<1>3. ASSUME Emit(<<Close(id)>>), resting' = [resting EXCEPT ![id] = 0]
      PROVE  \E msgs : Answered(id, msgs)
  <2>1. Close(id) \in Messages /\ Close(id).id = id /\ Close(id).type # "ACK"
        /\ Ends(Close(id), id) /\ BearsOn(Close(id), id)
    BY MessageTypes DEF Close, Ends, EndsWell, BearsOn
  <2>2. /\ resting' \in [ClientIds -> Nat] /\ \A i \in ClientIds \ {id} : resting'[i] = resting[i]
        /\ ~Works(id)'
    BY <1>3 DEF Typed, Works
  <2>3. QED BY <1>3, <2>1, <2>2, AnsweredByOne
<1>4. ASSUME Emit(<<Ack(id)>>), resting' = [resting EXCEPT ![id] = qty]
      PROVE  \E msgs : Answered(id, msgs)
  <2>1. Ack(id) \in Messages /\ Ack(id).id = id /\ Ack(id).type = "ACK"
        /\ Ends(Ack(id), id) /\ BearsOn(Ack(id), id)
    BY MessageTypes DEF Ack, Ends, EndsWell, BearsOn
  <2>2. /\ resting' \in [ClientIds -> Nat] /\ \A i \in ClientIds \ {id} : resting'[i] = resting[i]
        /\ Works(id)'
    BY <1>1, <1>4 DEF Typed, Works
  <2>3. QED BY <1>4, <2>1, <2>2, AnsweredByOne
<1>5. CASE ExchangeTakesDelete(id)
  <2>1. CASE resting[id] > 0
    BY <1>3, <1>5, <2>1 DEF ExchangeTakesDelete
  <2>2. CASE ~(resting[id] > 0)
    <3>1. resting' = resting
      BY <1>1, <1>5, <2>2 DEF ExchangeTakesDelete, Typed
    <3>2. QED BY <1>2, <1>5, <2>2, <3>1 DEF ExchangeTakesDelete, Reasons
  <2>3. QED BY <2>1, <2>2
<1>6. CASE ExchangeTakesModify(id, qty)
  BY <1>2, <1>4, <1>6 DEF ExchangeTakesModify, Reasons
<1>7. QED BY <1>5, <1>6
-----------------------------------------------------------------------------
(* Steps *)

\* At the start nothing is awaited or known.
LEMMA InitCInv == Init => CInv
<1> SUFFICES ASSUME Init PROVE CInv
  OBVIOUS
<1>1. /\ stream = <<>> /\ owed = <<>> /\ cancelling = {} /\ liveOrders = {} /\ connected
      /\ resting = [id \in ClientIds |-> 0] /\ waiting = None
  BY DEF Init
<1>2. Typed
  BY <1>1 DEF Typed, None
<1>3. Awaited = <<>>
  BY <1>1 DEF Awaited, Responding, None
<1>4. InOrder(stream, Awaited)
  <2>1. Answers(<<>>, stream, Awaited)
    BY <1>1, <1>3 DEF Answers
  <2>2. QED BY <2>1 DEF InOrder
<1>5. \A id \in ClientIds : Tell(stream, id, id \in liveOrders, Works(id))
  BY <1>1 DEF Tell, Works
<1>6. QED BY <1>2, <1>4, <1>5 DEF CInv, TInv, Tells

\* Awaited ids are ids.
LEMMA AwaitedType == Typed => Awaited \in Seq(ClientIds)
  BY ConcatProperties DEF Typed, Awaited, Responding, Ids, None, Requests

\* A request made while the connection is there adds its answer, and its id to the awaited;
\* one made after its loss adds nothing that counts.
LEMMA RequestTells ==
    ASSUME Typed, Tells, NEW id, NEW msgs, Answered(id, msgs), UNCHANGED liveOrders
    PROVE  Tells'
<1>1. stream \in Seq(Messages) /\ msgs \in Seq(Messages) /\ stream' = stream \o msgs
  BY DEF Answered, Typed, Emit
<1>2. SUFFICES ASSUME NEW i \in ClientIds
               PROVE  Tell(stream', i, i \in liveOrders', Works(i)')
  BY DEF Tells
<1>3. (i \in liveOrders) \in BOOLEAN /\ Works(i) \in BOOLEAN /\ Works(i)' \in BOOLEAN
  BY DEF Works
<1>4. Tell(stream, i, i \in liveOrders, Works(i)) /\ Tell(msgs, i, Works(i), Works(i)')
  BY DEF Tells, Answered
<1>5. Tell(stream \o msgs, i, i \in liveOrders, Works(i)')
  BY <1>1, <1>3, <1>4, TellMore
<1>6. QED BY <1>1, <1>5

\* Its answer is the last.
LEMMA RequestStep ==
    ASSUME CInv, NEW id \in ClientIds, UNCHANGED connected, TInv',
           IF connected THEN \E msgs : Answered(id, msgs) ELSE TRUE,
           Awaited' = Append(Awaited, id)
    PROVE  CInv'
<1>1. CASE ~connected
  BY <1>1 DEF CInv
<1>2. CASE connected
  <2>1. PICK msgs : Answered(id, msgs)
    BY <1>2
  <2>2. stream \in Seq(Messages) /\ msgs \in Seq(Messages) /\ stream' = stream \o msgs
    BY <2>1 DEF Answered, CInv, TInv, Typed, Emit
  <2>3. Awaited \in Seq(ClientIds) /\ InOrder(stream, Awaited)
    BY <1>2, AwaitedType DEF CInv, TInv
  <2>4. InOrder(stream', Awaited')
    BY <2>1, <2>2, <2>3, RequestInOrder DEF Answered
  <2>5. QED BY <2>4 DEF CInv
<1>3. QED BY <1>1, <1>2

\* What a request does to the types: the exchange's side of them.
LEMMA RequestTypes ==
    ASSUME Typed, IF connected THEN \E id, msgs : Answered(id, msgs) ELSE UNCHANGED <<resting, stream>>
    PROVE  resting' \in [ClientIds -> Nat] /\ stream' \in Seq(Messages)
  BY ConcatProperties DEF Answered, Typed, Emit

\* A trade of a resting order adds its fill, and tells whether it still works.
LEMMA FillTells ==
    ASSUME TInv, NEW id \in ClientIds, NEW qty \in 1 .. MaxQty, ExchangeFills(id, qty)
    PROVE  TInv' /\ \E m \in Messages : stream' = stream \o <<m>>
<1> DEFINE closed == resting[id] = qty
           m == Fill(id, qty, closed)
<1>1. resting[id] \in Nat /\ qty \in Nat /\ qty > 0 /\ qty <= resting[id] /\ closed \in BOOLEAN
  BY BoundsAssumption DEF TInv, Typed, ExchangeFills
<1>2. /\ stream' = stream \o <<m>> /\ resting' = [resting EXCEPT ![id] = @ - qty]
      /\ UNCHANGED <<connected, owed, cancelling, liveOrders, waiting>>
  BY DEF ExchangeFills, Emit, caller, client
<1>3. m \in Messages
  <2>1. qty \in Nat \ {0}
    BY <1>1
  <2>2. QED BY <1>1, <2>1, MessageTypes
<1>4. m.id = id /\ m.type = "FILL" /\ m.closed = closed
  BY DEF Fill
<1> HIDE DEF m
<1>5. stream \in Seq(Messages) /\ <<m>> \in Seq(Messages)
  BY <1>3 DEF TInv, Typed
<1>6. Typed'
  <2>1. stream' \in Seq(Messages)
    BY <1>2, <1>5, ConcatProperties
  <2>2. resting' \in [ClientIds -> Nat]
    BY <1>1, <1>2 DEF TInv, Typed
  <2>3. QED BY <1>2, <2>1, <2>2 DEF TInv, Typed
<1>7. ASSUME connected, NEW i \in ClientIds PROVE Tell(stream', i, i \in liveOrders', Works(i)')
  <2>1. (i \in liveOrders) \in BOOLEAN /\ Works(i) \in BOOLEAN /\ Works(i)' \in BOOLEAN
    BY DEF Works
  <2>2. IF BearsOn(m, i) THEN Works(i)' <=> m.type = "ACK" ELSE Works(i) <=> Works(i)'
    <3>1. CASE i = id
      <4>1. Works(i)' <=> ~closed
        BY <1>1, <1>2, <3>1 DEF Works, TInv, Typed
      <4>2. BearsOn(m, i) <=> closed
        BY <1>1, <1>4, <3>1 DEF BearsOn
      <4>3. Works(i)
        BY <1>1, <3>1 DEF Works
      <4>4. QED BY <1>4, <4>1, <4>2, <4>3
    <3>2. CASE i # id
      BY <1>2, <1>4, <3>2 DEF Works, BearsOn, TInv, Typed
    <3>3. QED BY <3>1, <3>2
  <2>3. Tell(<<m>>, i, Works(i), Works(i)')
    BY <1>3, <2>1, <2>2, TellOne
  <2>4. Tell(stream, i, i \in liveOrders, Works(i))
    BY <1>7 DEF TInv, Tells
  <2>5. QED BY <1>2, <1>5, <2>1, <2>3, <2>4, TellMore
<1>8. connected => Tells'
  BY <1>7 DEF Tells
<1>9. QED BY <1>2, <1>3, <1>6, <1>8 DEF TInv

LEMMA FillStep ==
    ASSUME CInv, NEW id \in ClientIds, NEW qty \in 1 .. MaxQty, ExchangeFills(id, qty)
    PROVE  CInv'
<1>1. UNCHANGED <<connected, owed, waiting>>
  BY DEF ExchangeFills, caller
<1>2. TInv' /\ \E m \in Messages : stream' = stream \o <<m>>
  BY FillTells DEF CInv
<1>3. PICK m \in Messages : stream' = stream \o <<m>>
  BY <1>2
<1>4. stream \in Seq(Messages) /\ <<m>> \in Seq(Messages)
  BY DEF CInv, TInv, Typed
<1>5. connected => InOrder(stream', Awaited)
  BY <1>3, <1>4, AwaitedType, MoreInOrder DEF CInv, TInv
<1>6. Awaited' = Awaited
  BY <1>1 DEF Awaited, Responding
<1>7. QED BY <1>1, <1>2, <1>5, <1>6 DEF CInv

\* Reading a message moves what it tells to the reader, whoever reads it.
LEMMA ReadTells ==
    ASSUME Typed, stream # <<>>, Absorb(Head(stream)), stream' = Tail(stream), UNCHANGED resting
    PROVE  /\ Head(stream) \in Messages /\ Head(stream).id \in ClientIds
           /\ stream' \in Seq(Messages)
           /\ liveOrders' \subseteq ClientIds
           /\ Tells => Tells'
<1> DEFINE m == Head(stream)
<1>1. stream \in Seq(Messages) /\ m \in Messages /\ m.id \in ClientIds /\ stream' \in Seq(Messages)
  <2>1. m \in Messages /\ Tail(stream) \in Seq(Messages) /\ stream \in Seq(Messages)
    BY HeadTailProperties DEF Typed
  <2>2. m.id \in ClientIds
    BY <2>1 DEF Messages
  <2>3. QED BY <2>1, <2>2
<1>2. liveOrders' = CASE m.type = "ACK" -> liveOrders \cup {m.id}
                      [] m.type = "CLOSE" \/ (m.type = "FILL" /\ m.closed) -> liveOrders \ {m.id}
                      [] OTHER -> liveOrders
  BY DEF Absorb
<1> HIDE DEF m
<1>3. \A i \in ClientIds :
        IF BearsOn(m, i) THEN i \in liveOrders' <=> m.type = "ACK" ELSE i \in liveOrders <=> i \in liveOrders'
  BY <1>2 DEF BearsOn
<1>4. liveOrders' \subseteq ClientIds
  BY <1>1, <1>2 DEF Typed
<1>5. ASSUME Tells, NEW i \in ClientIds PROVE Tell(stream', i, i \in liveOrders', Works(i)')
  <2>1. /\ (i \in liveOrders) \in BOOLEAN /\ (i \in liveOrders') \in BOOLEAN /\ Works(i) \in BOOLEAN
        /\ Works(i)' = Works(i)
    BY DEF Works
  <2>2. Tell(stream, i, i \in liveOrders, Works(i))
    BY <1>5 DEF Tells
  <2>3. QED BY <1>1, <1>3, <2>1, <2>2, TellTail DEF m
<1>6. QED BY <1>1, <1>4, <1>5 DEF Tells, m

\* A wait reads one message.
LEMMA ReadOneTells ==
    ASSUME TInv, NEW endsWell, NEW endsBadly, stream # <<>>, ReadOne(endsWell, endsBadly)
    PROVE  TInv'
<1>1. Typed /\ Absorb(Head(stream)) /\ stream' = Tail(stream) /\ UNCHANGED resting
  BY DEF TInv, ReadOne, exchange
<1>2. /\ stream' \in Seq(Messages) /\ liveOrders' \subseteq ClientIds
      /\ connected => Tells'
  BY <1>1, ReadTells DEF TInv
<1>3. UNCHANGED <<resting, connected, owed, cancelling>>
  BY DEF ReadOne, exchange, caller
<1>4. waiting' = None \/ waiting' = waiting
  BY DEF ReadOne, Return
<1>5. Typed'
  <2>1. waiting' \in {None} \cup Ids(Requests \cup {"fill"})
    BY <1>4 DEF TInv, Typed
  <2>2. cancelling' # {} \/ waiting'.op \in {"delete", "modify", "fill"} => owed' = <<>>
    BY <1>3, <1>4 DEF TInv, Typed, None
  <2>3. QED BY <1>2, <1>3, <2>1, <2>2 DEF TInv, Typed
<1>6. QED BY <1>2, <1>3, <1>5 DEF TInv

\* The answers still awaited stay in the stream.
LEMMA ReadStep ==
    ASSUME CInv, NEW endsWell, NEW endsBadly, stream # <<>>, ReadOne(endsWell, endsBadly), waiting # None,
           Responding => (Ends(Head(stream), waiting.id) => endsWell \/ endsBadly)
    PROVE  CInv'
<1> DEFINE m == Head(stream)
<1>1. TInv' /\ Typed /\ stream \in Seq(Messages) /\ stream' = Tail(stream)
  BY ReadOneTells DEF CInv, TInv, Typed, ReadOne
<1>2. UNCHANGED <<connected, owed>>
  BY DEF ReadOne, exchange, caller
<1>3. waiting' = None \/ (~(endsWell \/ endsBadly) /\ waiting' = waiting)
  BY DEF ReadOne, Return
<1> HIDE DEF m
<1>4. connected => InOrder(stream', Awaited')
  <2>1. HAVE connected
  <2>2. InOrder(stream, Awaited) /\ Awaited \in Seq(ClientIds)
    BY <1>1, <2>1, AwaitedType DEF CInv
  <2>3. CASE Responding /\ waiting' = None
    <3>1. Awaited = <<waiting.id>> \o owed /\ Awaited' = owed
      BY <1>2, <2>3 DEF Awaited, Responding, None
    <3>2. waiting.id \in ClientIds /\ owed \in Seq(ClientIds)
      BY <1>1, <2>3 DEF Typed, Responding, Ids, None
    <3>3. Awaited # <<>> /\ Tail(Awaited) = owed
      BY <3>1, <3>2
    <3>4. QED BY <1>1, <2>2, <3>1, <3>3, ReadAnswer
  <2>4. CASE Responding /\ waiting' # None
    <3>1. Awaited' = Awaited /\ ~Ends(m, waiting.id)
      BY <1>2, <1>3, <2>4 DEF Awaited, Responding, m
    <3>2. waiting.id \in ClientIds /\ owed \in Seq(ClientIds)
      BY <1>1, <2>4 DEF Typed, Responding, Ids, None
    <3>3. Awaited[1] = waiting.id
      BY <2>4, <3>2 DEF Awaited
    <3>4. QED BY <1>1, <2>2, <3>1, <3>3, ReadPast DEF m
  <2>5. CASE ~Responding
    <3>1. waiting.op = "fill" /\ owed = <<>>
      BY <1>1, <2>5 DEF Typed, Responding, Ids, Requests
    <3>2. Awaited = <<>> /\ Awaited' = <<>>
      BY <1>2, <1>3, <2>5, <3>1 DEF Awaited, Responding, None
    <3>3. QED BY <1>1, <2>2, <3>2, ReadPast
  <2>6. QED BY <2>3, <2>4, <2>5
<1>5. QED BY <1>1, <1>2, <1>4 DEF CInv

\* A request that is waited for: nothing was being waited for, and the exchange answers it
\* unless the connection is gone.
LEMMA Asks ==
    ASSUME Typed, NEW id \in ClientIds, NEW qty \in 1 .. MaxQty,
           \/ SendNewOrder(id, qty)
           \/ DeleteOrder(id)
           \/ ModifyOrder(id, qty)
           \/ CancelNext(id)
    PROVE  /\ waiting = None /\ owed = <<>> /\ owed' = owed
           /\ UNCHANGED <<connected, liveOrders>>
           /\ cancelling' \subseteq cancelling
           /\ \E op \in Requests : waiting' = [op |-> op, id |-> id]
           /\ IF connected THEN \E msgs : Answered(id, msgs) ELSE UNCHANGED <<resting, stream>>
<1>1. /\ waiting = None /\ owed = <<>> /\ owed' = owed
      /\ UNCHANGED <<connected, liveOrders>>
      /\ cancelling' \subseteq cancelling
      /\ \E op \in Requests : waiting' = [op |-> op, id |-> id]
  BY DEF SendNewOrder, DeleteOrder, ModifyOrder, CancelNext, Free, Waits, caller, client, Requests, Typed
<1>2. IF connected THEN \E msgs : Answered(id, msgs) ELSE UNCHANGED <<resting, stream>>
  BY NewAnswered, OtherAnswered DEF SendNewOrder, DeleteOrder, ModifyOrder, CancelNext, Sends
<1>3. QED BY <1>1, <1>2

\* A request that is not.
LEMMA AsksNoWait ==
    ASSUME Typed, NEW id \in ClientIds, NEW qty \in 1 .. MaxQty, SendNewOrderNoWait(id, qty)
    PROVE  /\ waiting = None /\ cancelling = {} /\ owed' = Append(owed, id)
           /\ UNCHANGED <<connected, liveOrders, waiting, cancelling>>
           /\ IF connected THEN \E msgs : Answered(id, msgs) ELSE UNCHANGED <<resting, stream>>
<1>1. /\ waiting = None /\ cancelling = {} /\ owed' = Append(owed, id)
      /\ UNCHANGED <<connected, liveOrders, waiting, cancelling>>
  BY DEF SendNewOrderNoWait, Free, client
<1>2. IF connected THEN \E msgs : Answered(id, msgs) ELSE UNCHANGED <<resting, stream>>
  BY NewAnswered DEF SendNewOrderNoWait, Sends
<1>3. QED BY <1>1, <1>2

\* The calls that ask nothing.
LEMMA AsksNothing ==
    ASSUME Typed, WaitForResponse \/ CancelAllOpenOrders \/ \E id \in ClientIds : WaitForFill(id)
    PROVE  UNCHANGED <<exchange, stream, liveOrders>> /\ Typed' /\ Awaited' = Awaited
<1>1. waiting \in {None} \cup Ids(Requests \cup {"fill"}) /\ owed \in Seq(ClientIds)
  BY DEF Typed
<1>2. waiting = None => Awaited = owed
  BY DEF Awaited, Responding, None
<1>3. CASE WaitForResponse
  <2>1. /\ waiting = None /\ cancelling = {} /\ owed # <<>> /\ owed' = Tail(owed)
        /\ waiting' = [op |-> "new", id |-> Head(owed)]
        /\ UNCHANGED <<exchange, stream, liveOrders, cancelling>>
    BY <1>3 DEF WaitForResponse, Free, Waits, client
  <2>2. Head(owed) \in ClientIds /\ Tail(owed) \in Seq(ClientIds) /\ <<Head(owed)>> \o Tail(owed) = owed
    <3>1. Head(owed) \in ClientIds /\ Tail(owed) \in Seq(ClientIds)
      BY <1>1, <2>1, HeadTailProperties
    <3>2. QED BY <1>1, <2>1, <3>1
  <2>3. Typed'
    <3> DEFINE first == Head(owed)
    <3>1. first \in ClientIds /\ waiting' = [op |-> "new", id |-> first]
      BY <2>1, <2>2
    <3> HIDE DEF first
    <3>2. waiting' \in Ids(Requests \cup {"fill"})
      BY <3>1 DEF Ids, Requests
    <3>3. QED BY <2>1, <2>2, <3>2, SMTT(40) DEF Typed, exchange
  <2>4. Awaited' = Awaited
    <3>1. Responding'
      BY <2>1 DEF Responding
    <3>2. QED BY <1>2, <2>1, <2>2, <3>1 DEF Awaited
  <2>5. QED BY <2>1, <2>3, <2>4
<1>4. CASE CancelAllOpenOrders
  <2>1. /\ waiting = None /\ owed = <<>> /\ cancelling' = liveOrders
        /\ UNCHANGED <<exchange, stream, liveOrders, owed, waiting>>
    BY <1>4 DEF CancelAllOpenOrders, Free, client
  <2>2. QED BY <2>1 DEF Typed, exchange, Awaited, Responding
<1>5. ASSUME NEW id \in ClientIds, WaitForFill(id)
      PROVE  UNCHANGED <<exchange, stream, liveOrders>> /\ Typed' /\ Awaited' = Awaited
  <2>1. /\ waiting = None /\ owed = <<>> /\ waiting' = [op |-> "fill", id |-> id]
        /\ UNCHANGED <<exchange, stream, liveOrders, owed, cancelling>>
    BY <1>5 DEF WaitForFill, Free, Waits, client, caller
  <2>2. Typed'
    BY <2>1 DEF Typed, exchange, Ids
  <2>3. Awaited' = Awaited
    BY <1>2, <2>1 DEF Awaited, Responding
  <2>4. QED BY <2>1, <2>2, <2>3
<1>6. QED BY <1>3, <1>4, <1>5

\* Requests keep the types and what the stream tells.
LEMMA StrategyTells == TInv /\ Strategy => TInv'
<1> SUFFICES ASSUME TInv, Strategy PROVE TInv'
  OBVIOUS
<1> USE DEF TInv
<1>1. ASSUME NEW id \in ClientIds, UNCHANGED <<connected, liveOrders>>, Typed',
             IF connected THEN \E msgs : Answered(id, msgs) ELSE TRUE
      PROVE  TInv'
  BY <1>1, RequestTells
<1>2. ASSUME NEW id \in ClientIds, NEW qty \in 1 .. MaxQty,
             \/ SendNewOrder(id, qty)
             \/ DeleteOrder(id)
             \/ ModifyOrder(id, qty)
             \/ CancelNext(id)
      PROVE  TInv'
  <2>1. /\ waiting = None /\ owed = <<>> /\ owed' = owed
        /\ UNCHANGED <<connected, liveOrders>>
        /\ cancelling' \subseteq cancelling
        /\ \E op \in Requests : waiting' = [op |-> op, id |-> id]
        /\ IF connected THEN \E msgs : Answered(id, msgs) ELSE UNCHANGED <<resting, stream>>
    BY <1>2, Asks
  <2>2. resting' \in [ClientIds -> Nat] /\ stream' \in Seq(Messages)
    BY <2>1, RequestTypes
  <2>3. Typed'
    <3>1. waiting' \in Ids(Requests \cup {"fill"})
      BY <2>1 DEF Ids
    <3>2. QED BY <2>1, <2>2, <3>1 DEF Typed
  <2>4. QED BY <1>1, <2>1, <2>3
<1>3. ASSUME NEW id \in ClientIds, NEW qty \in 1 .. MaxQty, SendNewOrderNoWait(id, qty)
      PROVE  TInv'
  <2>1. /\ waiting = None /\ cancelling = {} /\ owed' = Append(owed, id)
        /\ UNCHANGED <<connected, liveOrders, waiting, cancelling>>
        /\ IF connected THEN \E msgs : Answered(id, msgs) ELSE UNCHANGED <<resting, stream>>
    BY <1>3, AsksNoWait
  <2>2. resting' \in [ClientIds -> Nat] /\ stream' \in Seq(Messages)
    BY <2>1, RequestTypes
  <2>3. Typed'
    <3>1. owed' \in Seq(ClientIds)
      BY <2>1 DEF Typed
    <3>2. QED BY <2>1, <2>2, <3>1 DEF Typed, None
  <2>4. QED BY <1>1, <2>1, <2>3
<1>4. CASE WaitForResponse \/ CancelAllOpenOrders \/ \E id \in ClientIds : WaitForFill(id)
  BY <1>4, AsksNothing DEF Tells, exchange, Works
<1>5. 1 \in 1 .. MaxQty
  BY BoundsAssumption
<1>6. QED BY <1>2, <1>3, <1>4, <1>5 DEF Strategy

\* Every step keeps them.
LEMMA NextTells == TInv /\ [Next]_vars => TInv'
<1> SUFFICES ASSUME TInv, [Next]_vars PROVE TInv'
  OBVIOUS
<1>1. CASE Disconnect
  <2>1. connected' = FALSE /\ stream' = <<>> /\ UNCHANGED <<resting, owed, cancelling, liveOrders, waiting>>
    BY <1>1 DEF Disconnect, caller, client
  <2>2. stream' \in Seq(Messages)
    BY <2>1
  <2>3. Typed'
    BY <2>1, <2>2, Zenon DEF TInv, Typed
  <2>4. QED BY <2>1, <2>3, Zenon DEF TInv
<1>2. CASE UNCHANGED vars
  BY <1>2 DEF TInv, Tells, Typed, vars, exchange, caller, client, Works
<1>3. CASE Read
  <2>1. CASE ReadFails
    <3>1. ~connected /\ waiting' = None /\ UNCHANGED <<resting, connected, stream, owed, cancelling, liveOrders>>
      BY <2>1 DEF ReadFails, Return, exchange, caller, client
    <3>2. QED BY <3>1 DEF TInv, Typed, None
  <2>2. QED BY <1>3, <2>1, ReadOneTells DEF Read, ReadResponse, ReadFill
<1>4. QED BY <1>1, <1>2, <1>3, StrategyTells, FillTells DEF Next

\* Requests and their effect on what is awaited.
LEMMA StrategyStep == CInv /\ Strategy => CInv'
<1> SUFFICES ASSUME CInv, Strategy PROVE CInv'
  OBVIOUS
<1>1. Typed /\ TInv' /\ owed \in Seq(ClientIds)
  BY StrategyTells DEF CInv, TInv, Typed
<1>2. waiting = None => Awaited = owed
  BY DEF Awaited, Responding, None
<1>3. ASSUME NEW id \in ClientIds, NEW qty \in 1 .. MaxQty,
             \/ SendNewOrder(id, qty)
             \/ DeleteOrder(id)
             \/ ModifyOrder(id, qty)
             \/ CancelNext(id)
      PROVE  CInv'
  <2>1. /\ waiting = None /\ owed = <<>> /\ owed' = owed
        /\ UNCHANGED connected
        /\ \E op \in Requests : waiting' = [op |-> op, id |-> id]
        /\ IF connected THEN \E msgs : Answered(id, msgs) ELSE TRUE
    BY <1>1, <1>3, Asks
  <2>2. Awaited = <<>> /\ Awaited' = <<id>>
    <3>1. Responding'
      BY <2>1 DEF Responding, Requests
    <3>2. Awaited' = <<id>> \o <<>>
      BY <2>1, <3>1 DEF Awaited
    <3>3. QED BY <1>2, <2>1, <3>2
  <2>3. Awaited' = Append(Awaited, id)
    BY <2>2
  <2>4. QED BY <1>1, <2>1, <2>3, RequestStep
<1>4. ASSUME NEW id \in ClientIds, NEW qty \in 1 .. MaxQty, SendNewOrderNoWait(id, qty)
      PROVE  CInv'
  <2>1. /\ waiting = None /\ owed' = Append(owed, id)
        /\ UNCHANGED <<connected, waiting>>
        /\ IF connected THEN \E msgs : Answered(id, msgs) ELSE TRUE
    BY <1>1, <1>4, AsksNoWait
  <2>2. Awaited' = Append(Awaited, id)
    BY <1>2, <2>1 DEF Awaited, Responding, None
  <2>3. QED BY <1>1, <2>1, <2>2, RequestStep
<1>5. CASE WaitForResponse \/ CancelAllOpenOrders \/ \E id \in ClientIds : WaitForFill(id)
  BY <1>1, <1>5, AsksNothing DEF CInv, exchange
<1>6. 1 \in 1 .. MaxQty
  BY BoundsAssumption
<1>7. QED BY <1>3, <1>4, <1>5, <1>6 DEF Strategy

\* Reads, by either loop, and the failure of a read.
LEMMA ReadsStep == CInv /\ Read => CInv'
<1> SUFFICES ASSUME CInv, Read PROVE CInv'
  OBVIOUS
<1>1. CASE ReadResponse
  BY <1>1, ReadStep DEF ReadResponse, Ends, Responding, None
<1>2. ASSUME NEW late \in BOOLEAN, ReadFill(late)
      PROVE  CInv'
  <2>1. ~Responding /\ waiting # None
    BY <1>2 DEF ReadFill, Responding, None
  <2>2. QED BY <1>2, <2>1, ReadStep DEF ReadFill
<1>3. CASE ReadFails
  <2>1. ~connected /\ UNCHANGED connected
    BY <1>3 DEF ReadFails, exchange
  <2>2. TInv'
    BY <1>3, NextTells DEF CInv, Read, Next
  <2>3. QED BY <2>1, <2>2 DEF CInv
<1>4. QED BY <1>1, <1>2, <1>3 DEF Read

\* Every step keeps the invariant.
LEMMA NextCInv == CInv /\ [Next]_vars => CInv'
<1> SUFFICES ASSUME CInv, [Next]_vars PROVE CInv'
  OBVIOUS
<1>1. TInv'
  BY NextTells DEF CInv
<1>2. CASE Disconnect
  BY <1>1, <1>2 DEF CInv, Disconnect
<1>3. CASE UNCHANGED vars
  BY <1>1, <1>3 DEF CInv, vars, exchange, caller, Awaited, Responding
<1>4. QED BY <1>2, <1>3, StrategyStep, ReadsStep, FillStep DEF Next

\* So every state has it.
LEMMA ClientInvariance == Spec => []CInv
  BY InitCInv, NextCInv, PTL DEF Spec

-----------------------------------------------------------------------------
(* What follows *)

\* While wait_for_response waits for an answer, a message that ends it is still unread,
\* however many orders were sent without waiting and whatever earlier waits consumed.
THEOREM NoAnswerIsStolen == Spec => []AnswerStillAhead
<1>1. CInv => AnswerStillAhead
  <2> SUFFICES ASSUME CInv, Responding, connected
               PROVE  \E i \in DOMAIN stream : EndsWell(stream[i], waiting.id) \/ EndsBadly(stream[i], waiting.id)
    BY DEF AnswerStillAhead
  <2>1. PICK at : Answers(at, stream, Awaited)
    BY DEF CInv, InOrder
  <2>2. waiting.id \in ClientIds /\ owed \in Seq(ClientIds) /\ stream \in Seq(Messages)
    BY DEF CInv, TInv, Typed, Responding, Ids, None
  <2>3. 1 \in 1 .. Len(Awaited) /\ Awaited[1] = waiting.id
    BY <2>2 DEF Awaited
  <2>4. at[1] \in 1 .. Len(stream) /\ Ends(stream[at[1]], waiting.id)
    BY <2>1, <2>3 DEF Answers
  <2>5. QED BY <2>2, <2>4 DEF Ends
<1>2. QED BY <1>1, ClientInvariance, PTL

\* A stream that tells of every order has told it all once it is empty.
LEMMA AllTold == TInv => LiveOrdersCatchUp
<1> SUFFICES ASSUME Typed, Tells, stream = <<>>
             PROVE  liveOrders = {id \in ClientIds : resting[id] > 0}
  BY DEF TInv, LiveOrdersCatchUp
<1>1. \A id \in ClientIds : id \in liveOrders <=> resting[id] > 0
  BY DEF Tells, Tell, Works
<1>2. liveOrders \subseteq ClientIds
  BY DEF Typed
<1>3. QED BY <1>1, <1>2

\* live_orders_, after everything has been read, holds exactly the orders that work at the
\* exchange, whichever wait read their messages.
THEOREM LiveOrdersAreKnown == Spec => []LiveOrdersCatchUp
  BY AllTold, ClientInvariance, PTL DEF CInv
-----------------------------------------------------------------------------
(* What the stream still has to report: the invariant *)

\* The messages after which nothing more of an order fills
Finishes(m, id) == m.id = id /\ (m.type = "CLOSE" \/ (m.type = "FILL" /\ m.closed))

\* After the fills told so far, the messages bring what is reported of an order to what is
\* done of it; a closing fill among them is the last fill, and leaves nothing working.
Tale(msgs, id, told, done, left) ==
    /\ told + FillsIn(msgs, id) = done
    /\ \A i \in 1 .. Len(msgs) :
          Finishes(msgs[i], id) =>
              left = 0 /\ \A j \in i + 1 .. Len(msgs) : FillQty(msgs[j], id) = 0

Tales(msgs, told, done, left) ==
    \A id \in ClientIds : Tale(msgs, id, told[id], done[id], left[id])

Silent(msgs, id) == \A i \in 1 .. Len(msgs) : msgs[i].id # id

\* The counts, and that nothing was ever said of an order that was not sent
Counted ==
    /\ executed \in [ClientIds -> Nat] /\ reported \in [ClientIds -> Nat]
    /\ lastId \in 0 .. MaxOrders
    /\ \A id \in ClientIds : executed[id] + resting[id] <= MaxQty /\ reported[id] <= executed[id]
    /\ \A id \in ClientIds :
          id > lastId => executed[id] = 0 /\ resting[id] = 0 /\ Silent(stream, id)

\* Only orders that were sent are live, or to be deleted
SentOnly == \A id \in ClientIds : id \in liveOrders \cup cancelling => id <= lastId

\* The result of the last call, of which nothing is left once a call waits
Answer == [op : Requests \cup {"fill"}, id : ClientIds, ok : BOOLEAN]

FInv ==
    /\ Counted
    /\ SentOnly
    /\ waiting = None \/ returned = None
    /\ returned \in {None} \cup Answer
    /\ IF connected THEN Tales(stream, reported, executed, resting) ELSE stream = <<>>
    /\ FillMeansDone

-----------------------------------------------------------------------------
(* Fills in a stream *)

\* Fills are natural, message by message and in all.
LEMMA FillsType ==
    ASSUME NEW msgs \in Seq(Messages), NEW id
    PROVE  /\ \A i \in 1 .. Len(msgs) : FillQty(msgs[i], id) \in Nat
           /\ FillsIn(msgs, id) \in Nat
           /\ FillsIn(msgs, id)
                = SumFunctionOnSet([i \in 1 .. Len(msgs) |-> FillQty(msgs[i], id)], 1 .. Len(msgs))
<1> DEFINE f == [i \in 1 .. Len(msgs) |-> FillQty(msgs[i], id)]
<1>1. Len(msgs) \in Nat /\ DOMAIN msgs = 1 .. Len(msgs) /\ \A i \in 1 .. Len(msgs) : msgs[i] \in Messages
  BY LenProperties
<1>2. \A m \in Messages : FillQty(m, id) \in Nat
  BY DEF FillQty, Messages
<1>3. FillsIn(msgs, id) = SumFunctionOnSet(f, 1 .. Len(msgs))
  <2>1. FillsIn(msgs, id) = SumFunction(f)
    BY <1>1 DEF FillsIn
  <2>2. DOMAIN f = 1 .. Len(msgs)
    OBVIOUS
  <2> HIDE DEF f
  <2>3. QED BY <2>1, <2>2 DEF SumFunction
<1>4. IsFiniteSet(1 .. Len(msgs)) /\ \A i \in 1 .. Len(msgs) : f[i] \in Nat
  BY <1>1, <1>2, CountFinite
<1> HIDE DEF f
<1>5. SumFunctionOnSet(f, 1 .. Len(msgs)) \in Nat
  BY <1>4, SumNat
<1>6. QED BY <1>1, <1>2, <1>3, <1>5 DEF f

\* A message more adds its fill.
LEMMA FillsAppend ==
    ASSUME NEW msgs \in Seq(Messages), NEW m \in Messages, NEW id
    PROVE  FillsIn(Append(msgs, m), id) = FillsIn(msgs, id) + FillQty(m, id)
<1> DEFINE n == Len(msgs)
           all == Append(msgs, m)
           f == [i \in 1 .. Len(msgs) |-> FillQty(msgs[i], id)]
           g == [i \in 1 .. Len(all) |-> FillQty(all[i], id)]
<1>1. /\ n \in Nat /\ all \in Seq(Messages) /\ Len(all) = n + 1
      /\ \A i \in 1 .. n : all[i] = msgs[i]
      /\ all[n + 1] = m
  BY LenProperties, AppendProperties
<1>2. /\ FillsIn(msgs, id) = SumFunctionOnSet(f, 1 .. Len(msgs))
      /\ FillsIn(all, id) = SumFunctionOnSet(g, 1 .. Len(all))
  BY <1>1, FillsType
<1>3. /\ \A i \in 1 .. n + 1 : g[i] \in Nat
      /\ \A i \in 1 .. n : f[i] = g[i]
      /\ g[n + 1] = FillQty(m, id)
  <2>1. \A i \in 1 .. Len(all) : FillQty(all[i], id) \in Nat
    BY <1>1, FillsType
  <2>2. n = Len(msgs)
    OBVIOUS
  <2> HIDE DEF all, n
  <2>3. \A i \in 1 .. n + 1 : g[i] = FillQty(all[i], id)
    BY <1>1
  <2>4. \A i \in 1 .. n : i \in 1 .. n + 1 /\ f[i] = FillQty(msgs[i], id)
    BY <1>1, <2>2
  <2> HIDE DEF f, g
  <2>5. n + 1 \in 1 .. n + 1
    BY <1>1
  <2>6. \A i \in 1 .. n + 1 : g[i] \in Nat
    BY <1>1, <2>1, <2>3
  <2>7. \A i \in 1 .. n : f[i] = g[i]
    BY <1>1, <2>3, <2>4
  <2>8. QED BY <1>1, <2>3, <2>5, <2>6, <2>7
<1> HIDE DEF all, f, g, n
<1>4. IsFiniteSet(1 .. n) /\ \A i \in 1 .. n + 1 : g[i] \in Int
  <2>1. IsFiniteSet(1 .. n)
    BY <1>1, CountFinite
  <2>2. QED BY <1>3, <2>1
<1>5. SumFunctionOnSet(g, 1 .. n + 1) = SumFunctionOnSet(g, 1 .. n) + g[n + 1]
  BY <1>1, <1>4, SumLast
<1>6. SumFunctionOnSet(f, 1 .. n) = SumFunctionOnSet(g, 1 .. n)
  BY <1>3, <1>4, SumAgree
<1>7. QED BY <1>1, <1>2, <1>3, <1>5, <1>6 DEF all, n

\* The message read leaves with its fill.
LEMMA FillsTail ==
    ASSUME NEW msgs \in Seq(Messages), msgs # <<>>, NEW id
    PROVE  FillsIn(msgs, id) = FillQty(Head(msgs), id) + FillsIn(Tail(msgs), id)
<1> DEFINE n == Len(Tail(msgs))
           rest == Tail(msgs)
           f == [i \in 1 .. Len(msgs) |-> FillQty(msgs[i], id)]
           g == [i \in 1 .. Len(rest) |-> FillQty(rest[i], id)]
<1>1. /\ n \in Nat /\ rest \in Seq(Messages) /\ Len(msgs) = n + 1
      /\ \A i \in 1 .. n : rest[i] = msgs[i + 1]
      /\ Head(msgs) = msgs[1]
  BY LenProperties, HeadTailProperties, EmptySeq
<1>2. /\ FillsIn(msgs, id) = SumFunctionOnSet(f, 1 .. Len(msgs))
      /\ FillsIn(rest, id) = SumFunctionOnSet(g, 1 .. Len(rest))
  BY <1>1, FillsType
<1>3. /\ \A i \in 1 .. n + 1 : f[i] \in Int
      /\ \A i \in 1 .. n : g[i] = f[i + 1]
      /\ f[1] = FillQty(Head(msgs), id)
  <2>1. \A i \in 1 .. Len(msgs) : FillQty(msgs[i], id) \in Nat
    BY FillsType
  <2>2. Len(rest) = n
    OBVIOUS
  <2> HIDE DEF rest, n
  <2>3. QED BY <1>1, <2>1, <2>2
<1>4. Len(rest) = n
  OBVIOUS
<1> HIDE DEF rest, f, g, n
<1>5. SumFunctionOnSet(f, 1 .. n + 1) = f[1] + SumFunctionOnSet(g, 1 .. n)
  BY <1>1, <1>3, SumTail
<1>6. QED BY <1>1, <1>2, <1>3, <1>4, <1>5 DEF rest

\* Messages that are silent about an order say nothing of its fills.
LEMMA SilentTale ==
    ASSUME NEW msgs \in Seq(Messages), NEW id, Silent(msgs, id)
    PROVE  FillsIn(msgs, id) = 0 /\ \A i \in 1 .. Len(msgs) : ~Finishes(msgs[i], id)
<1> DEFINE f == [i \in 1 .. Len(msgs) |-> FillQty(msgs[i], id)]
<1>1. \A i \in 1 .. Len(msgs) : f[i] = 0
  BY DEF Silent, FillQty
<1>2. IsFiniteSet(1 .. Len(msgs))
  BY LenProperties, CountFinite
<1>3. FillsIn(msgs, id) = SumFunctionOnSet(f, 1 .. Len(msgs))
  BY FillsType
<1> HIDE DEF f
<1>4. FillsIn(msgs, id) = 0
  BY <1>1, <1>2, <1>3, SumZero
<1>5. QED BY <1>4 DEF Silent, Finishes

\* A tale goes on with one more message: it fills only what works, and closes with nothing left.
LEMMA TaleAppend ==
    ASSUME NEW msgs \in Seq(Messages), NEW m \in Messages, NEW id, NEW told \in Nat,
           NEW done \in Nat, NEW left \in Nat, NEW more, Tale(msgs, id, told, done, left),
           FillQty(m, id) > 0 => left > 0,
           left = 0 => more = 0,
           Finishes(m, id) => more = 0
    PROVE  Tale(Append(msgs, m), id, told, done + FillQty(m, id), more)
<1> DEFINE n == Len(msgs)
           all == Append(msgs, m)
<1>1. /\ n \in Nat /\ Len(all) = n + 1
      /\ \A i \in 1 .. n : all[i] = msgs[i]
      /\ all[n + 1] = m
  BY LenProperties, AppendProperties
<1>2. FillsIn(msgs, id) \in Nat /\ FillQty(m, id) \in Nat
  BY FillsType DEF FillQty, Messages
<1>3. FillsIn(all, id) = FillsIn(msgs, id) + FillQty(m, id)
  BY FillsAppend
<1>4. told + FillsIn(msgs, id) = done
  BY DEF Tale
<1> HIDE DEF all, n
<1>5. told + FillsIn(all, id) = done + FillQty(m, id)
  BY <1>2, <1>3, <1>4
<1>6. ASSUME NEW i \in 1 .. Len(all), Finishes(all[i], id)
      PROVE  more = 0 /\ \A j \in i + 1 .. Len(all) : FillQty(all[j], id) = 0
  <2>1. CASE i = n + 1
    <3>1. \A j \in i + 1 .. Len(all) : FALSE
      BY <1>1, <2>1
    <3>2. QED BY <1>1, <1>6, <2>1, <3>1
  <2>2. CASE i # n + 1
    <3>1. i \in 1 .. n /\ all[i] = msgs[i]
      BY <1>1, <2>2
    <3>2. left = 0 /\ \A j \in i + 1 .. n : FillQty(msgs[j], id) = 0
      BY <1>6, <3>1 DEF Tale, n
    <3>3. FillQty(m, id) = 0
      BY <1>2, <3>2
    <3>4. ASSUME NEW j \in i + 1 .. Len(all) PROVE FillQty(all[j], id) = 0
      <4>1. j = n + 1 \/ (j \in i + 1 .. n /\ j \in 1 .. n)
        BY <1>1, <3>1
      <4>2. QED BY <1>1, <3>2, <3>3, <4>1
    <3>5. QED BY <3>2, <3>4
  <2>3. QED BY <2>1, <2>2
<1>7. QED BY <1>5, <1>6 DEF Tale, all

\* Reading a message moves its fill from the tale to what was told.  After a closing fill
\* nothing is left to tell.
LEMMA TaleTail ==
    ASSUME NEW msgs \in Seq(Messages), msgs # <<>>, NEW id, NEW told \in Nat,
           NEW done \in Nat, NEW left, Tale(msgs, id, told, done, left)
    PROVE  /\ Tale(Tail(msgs), id, told + FillQty(Head(msgs), id), done, left)
           /\ told + FillQty(Head(msgs), id) <= done
           /\ Finishes(Head(msgs), id) => left = 0 /\ told + FillQty(Head(msgs), id) = done
<1> DEFINE n == Len(Tail(msgs))
           rest == Tail(msgs)
           q == FillQty(Head(msgs), id)
<1>1. /\ n \in Nat /\ n = Len(rest) /\ Len(msgs) = n + 1 /\ rest \in Seq(Messages)
      /\ \A i \in 1 .. n : rest[i] = msgs[i + 1]
      /\ Head(msgs) = msgs[1] /\ 1 \in 1 .. Len(msgs)
  BY LenProperties, HeadTailProperties, EmptySeq
<1>2. FillsIn(rest, id) \in Nat /\ q \in Nat
  BY <1>1, FillsType
<1>3. FillsIn(msgs, id) = q + FillsIn(rest, id)
  BY FillsTail
<1>4. told + FillsIn(msgs, id) = done
  BY DEF Tale
<1> HIDE DEF rest, n, q
<1>5. (told + q) + FillsIn(rest, id) = done /\ told + q <= done
  BY <1>2, <1>3, <1>4
<1>6. ASSUME NEW i \in 1 .. Len(rest), Finishes(rest[i], id)
      PROVE  left = 0 /\ \A j \in i + 1 .. Len(rest) : FillQty(rest[j], id) = 0
  <2>1. i + 1 \in 1 .. Len(msgs) /\ rest[i] = msgs[i + 1]
    BY <1>1
  <2>2. left = 0 /\ \A j \in (i + 1) + 1 .. Len(msgs) : FillQty(msgs[j], id) = 0
    BY <1>6, <2>1 DEF Tale
  <2>3. \A j \in i + 1 .. Len(rest) : j \in 1 .. n /\ j + 1 \in (i + 1) + 1 .. Len(msgs)
    BY <1>1
  <2>4. QED BY <1>1, <2>2, <2>3
<1>7. ASSUME Finishes(Head(msgs), id)
      PROVE  left = 0 /\ told + q = done
  <2>1. left = 0 /\ \A j \in 1 + 1 .. Len(msgs) : FillQty(msgs[j], id) = 0
    BY <1>1, <1>7 DEF Tale
  <2> DEFINE f == [i \in 1 .. Len(rest) |-> FillQty(rest[i], id)]
  <2>2. \A i \in 1 .. Len(rest) : f[i] = 0
    <3>1. \A i \in 1 .. n : i + 1 \in 1 + 1 .. Len(msgs)
      BY <1>1
    <3>2. QED BY <1>1, <2>1, <3>1
  <2>3. FillsIn(rest, id) = SumFunctionOnSet(f, 1 .. Len(rest)) /\ IsFiniteSet(1 .. Len(rest))
    BY <1>1, FillsType, CountFinite
  <2> HIDE DEF f
  <2>4. FillsIn(rest, id) = 0
    BY <2>2, <2>3, SumZero
  <2>5. QED BY <1>2, <1>5, <2>1, <2>4
<1>8. QED BY <1>5, <1>6, <1>7 DEF Tale, rest, q

-----------------------------------------------------------------------------
(* What the exchange says of an order *)

\* One message more, about one order, whose counts move with it.
LEMMA TalesAppend ==
    ASSUME NEW msgs \in Seq(Messages), NEW m \in Messages, NEW id \in ClientIds, m.id = id,
           NEW told \in [ClientIds -> Nat],
           NEW done \in [ClientIds -> Nat], NEW left \in [ClientIds -> Nat],
           NEW done2 \in [ClientIds -> Nat], NEW left2 \in [ClientIds -> Nat],
           Tales(msgs, told, done, left),
           \A i \in ClientIds \ {id} : done2[i] = done[i] /\ left2[i] = left[i],
           done2[id] = done[id] + FillQty(m, id),
           FillQty(m, id) > 0 => left[id] > 0,
           left[id] = 0 => left2[id] = 0,
           Finishes(m, id) => left2[id] = 0
    PROVE  Tales(Append(msgs, m), told, done2, left2)
<1> SUFFICES ASSUME NEW i \in ClientIds
             PROVE  Tale(Append(msgs, m), i, told[i], done2[i], left2[i])
  BY DEF Tales
<1>1. Tale(msgs, i, told[i], done[i], left[i])
  BY DEF Tales
<1>2. told[i] \in Nat /\ done[i] \in Nat /\ left[i] \in Nat
  OBVIOUS
<1>3. CASE i = id
  <2>1. Tale(Append(msgs, m), id, told[id], done[id] + FillQty(m, id), left2[id])
    BY <1>1, <1>2, <1>3, TaleAppend
  <2>2. QED BY <1>3, <2>1
<1>4. CASE i # id
  <2>1. FillQty(m, i) = 0 /\ ~Finishes(m, i)
    BY <1>4 DEF FillQty, Finishes
  <2>2. Tale(Append(msgs, m), i, told[i], done[i] + FillQty(m, i), left[i])
    BY <1>1, <1>2, <2>1, TaleAppend
  <2>3. done[i] + FillQty(m, i) = done[i]
    BY <1>2, <2>1
  <2>4. QED BY <1>4, <2>2, <2>3
<1>5. QED BY <1>3, <1>4

\* Before anything is said of an order, any quantity of it may be about to work.
LEMMA TalesSilent ==
    ASSUME NEW msgs \in Seq(Messages), NEW id \in ClientIds, Silent(msgs, id),
           NEW told, NEW done, NEW left \in [ClientIds -> Nat], NEW qty, Tales(msgs, told, done, left)
    PROVE  Tales(msgs, told, done, [left EXCEPT ![id] = qty])
<1> SUFFICES ASSUME NEW i \in ClientIds
             PROVE  Tale(msgs, i, told[i], done[i], [left EXCEPT ![id] = qty][i])
  BY DEF Tales
<1>1. Tale(msgs, i, told[i], done[i], left[i])
  BY DEF Tales
<1>2. CASE i = id
  BY <1>1, <1>2, SilentTale DEF Tale
<1>3. CASE i # id
  BY <1>1, <1>3
<1>4. QED BY <1>2, <1>3

\* Messages about one order leave the silence about another.
LEMMA SilentAppend ==
    ASSUME NEW msgs \in Seq(Messages), NEW m \in Messages, NEW id, m.id # id, Silent(msgs, id)
    PROVE  Silent(Append(msgs, m), id)
<1>1. /\ Len(msgs) \in Nat /\ Len(Append(msgs, m)) = Len(msgs) + 1
      /\ \A i \in 1 .. Len(msgs) : Append(msgs, m)[i] = msgs[i]
      /\ Append(msgs, m)[Len(msgs) + 1] = m
  BY LenProperties, AppendProperties
<1>2. QED BY <1>1 DEF Silent

\* What is true after the exchange has handled something about one order
Reported(id) ==
    /\ executed' \in [ClientIds -> Nat] /\ resting' \in [ClientIds -> Nat]
    /\ \A i \in ClientIds \ {id} : executed'[i] = executed[i] /\ resting'[i] = resting[i]
    /\ executed'[id] >= executed[id] /\ executed'[id] + resting'[id] <= MaxQty
    /\ \A i \in ClientIds \ {id} : Silent(stream, i) => Silent(stream', i)
    /\ Tales(stream', reported, executed', resting')

\* One message about an order, with what it does to the order's counts.
LEMMA ReportedByOne ==
    ASSUME Typed, FInv, connected, NEW id \in ClientIds, NEW m \in Messages, m.id = id, Emit(<<m>>),
           NEW now \in Nat, NEW left \in Nat,
           executed' = [executed EXCEPT ![id] = executed[id] + now],
           resting' = [resting EXCEPT ![id] = left],
           FillQty(m, id) = now, now > 0 => resting[id] > 0,
           resting[id] = 0 => left = 0, Finishes(m, id) => left = 0,
           executed[id] + now + left <= MaxQty
    PROVE  Reported(id)
<1>1. /\ executed \in [ClientIds -> Nat] /\ resting \in [ClientIds -> Nat]
      /\ reported \in [ClientIds -> Nat] /\ stream \in Seq(Messages)
      /\ Tales(stream, reported, executed, resting)
  BY DEF Typed, FInv, Counted
<1>2. /\ executed' \in [ClientIds -> Nat] /\ resting' \in [ClientIds -> Nat]
      /\ \A i \in ClientIds \ {id} : executed'[i] = executed[i] /\ resting'[i] = resting[i]
      /\ executed'[id] = executed[id] + now /\ resting'[id] = left
  BY <1>1
<1>3. stream' = Append(stream, m)
  BY <1>1 DEF Emit
<1>4. Tales(Append(stream, m), reported, executed', resting')
  <2>1. /\ executed'[id] = executed[id] + FillQty(m, id)
        /\ FillQty(m, id) > 0 => resting[id] > 0
        /\ resting[id] = 0 => resting'[id] = 0
        /\ Finishes(m, id) => resting'[id] = 0
    BY <1>2
  <2> DEFINE ex == executed'
             re == resting'
  <2>2. ex \in [ClientIds -> Nat] /\ re \in [ClientIds -> Nat]
    BY <1>2
  <2> HIDE DEF ex, re
  <2>3. \A i \in ClientIds \ {id} : ex[i] = executed[i] /\ re[i] = resting[i]
    BY <1>2 DEF ex, re
  <2>4. /\ ex[id] = executed[id] + FillQty(m, id)
        /\ FillQty(m, id) > 0 => resting[id] > 0
        /\ resting[id] = 0 => re[id] = 0
        /\ Finishes(m, id) => re[id] = 0
    BY <2>1 DEF ex, re
  <2>5. Tales(Append(stream, m), reported, ex, re)
    BY <1>1, <2>2, <2>3, <2>4, TalesAppend
  <2>6. QED BY <2>5 DEF ex, re
<1>5. \A i \in ClientIds \ {id} : Silent(stream, i) => Silent(Append(stream, m), i)
  BY <1>1, SilentAppend
<1>6. executed'[id] >= executed[id] /\ executed'[id] + resting'[id] <= MaxQty
  <2>1. executed[id] \in Nat /\ MaxQty \in Nat
    BY <1>1, BoundsAssumption
  <2>2. QED BY <1>2, <2>1
<1>7. QED BY <1>2, <1>3, <1>4, <1>5, <1>6 DEF Reported

\* A new order, of which nothing was said, is answered by a rejection, by an acknowledgement
\* or by its first fills.
LEMMA NewReported ==
    ASSUME Typed, FInv, connected, NEW id \in ClientIds, id > lastId, NEW qty \in 1 .. MaxQty,
           ExchangeTakesNew(id, qty)
    PROVE  Reported(id)
<1>1. /\ executed \in [ClientIds -> Nat] /\ resting \in [ClientIds -> Nat]
      /\ reported \in [ClientIds -> Nat] /\ stream \in Seq(Messages)
      /\ Tales(stream, reported, executed, resting)
      /\ executed[id] = 0 /\ resting[id] = 0 /\ Silent(stream, id)
  BY DEF Typed, FInv, Counted
<1>2. qty \in Nat /\ qty > 0 /\ qty <= MaxQty /\ MaxQty \in Nat
  BY BoundsAssumption
<1>3. ASSUME Emit(<<Reject(id, "INVALID_ORDER")>>), UNCHANGED <<resting, executed>>
      PROVE  Reported(id)
  <2> DEFINE m == Reject(id, "INVALID_ORDER")
  <2>1. m \in Messages /\ m.id = id /\ FillQty(m, id) = 0 /\ ~Finishes(m, id)
    BY MessageTypes DEF Reject, FillQty, Finishes, Reasons
  <2>2. /\ executed' = [executed EXCEPT ![id] = executed[id] + 0]
        /\ resting' = [resting EXCEPT ![id] = 0]
        /\ executed[id] + 0 + 0 <= MaxQty
    BY <1>1, <1>2, <1>3
  <2> HIDE DEF m
  <2>3. Emit(<<m>>)
    BY <1>3 DEF m
  <2>4. 0 \in Nat /\ ~(0 > 0)
    OBVIOUS
  <2>5. QED BY <2>1, <2>2, <2>3, <2>4, ReportedByOne
<1>4. ASSUME NEW now \in 0 .. qty, resting' = [resting EXCEPT ![id] = qty - now],
             executed' = [executed EXCEPT ![id] = now],
             NEW msgs \in AnswersToNew(id, now, qty - now), Emit(msgs)
      PROVE  Reported(id)
  <2>1. now \in Nat /\ qty - now \in Nat /\ now <= qty
    BY <1>2
  <2> DEFINE ready == [resting EXCEPT ![id] = qty]
             ex == executed'
             re == resting'
  <2>2. Tales(stream, reported, executed, ready) /\ ready \in [ClientIds -> Nat]
    <3>1. ready \in [ClientIds -> Nat]
      BY <1>1, <1>2
    <3>2. QED BY <1>1, <3>1, TalesSilent
  <2>3. /\ ex \in [ClientIds -> Nat] /\ re \in [ClientIds -> Nat]
        /\ \A i \in ClientIds \ {id} : ex[i] = executed[i] /\ re[i] = ready[i] /\ re[i] = resting[i]
        /\ ex[id] = now /\ re[id] = qty - now /\ ready[id] = qty
    BY <1>1, <1>4, <2>1
  <2> HIDE DEF ready, ex, re
  <2>4. SUFFICES /\ Tales(stream', reported, ex, re)
                 /\ \A i \in ClientIds \ {id} : Silent(stream, i) => Silent(stream', i)
    <3>1. ex[id] >= executed[id] /\ ex[id] + re[id] <= MaxQty
      BY <1>1, <1>2, <2>1, <2>3
    <3>2. ASSUME Tales(stream', reported, ex, re),
                 \A i \in ClientIds \ {id} : Silent(stream, i) => Silent(stream', i)
          PROVE  Reported(id)
      BY <2>3, <3>1, <3>2 DEF Reported, ex, re
    <3>3. QED BY <3>2
  <2>5. ASSUME NEW m \in Messages, m.id = id, msgs = <<m>>, FillQty(m, id) = now,
               Finishes(m, id) => now = qty
        PROVE  /\ Tales(stream', reported, ex, re)
               /\ \A i \in ClientIds \ {id} : Silent(stream, i) => Silent(stream', i)
    <3>1. stream' = Append(stream, m)
      BY <1>1, <1>4, <2>5 DEF Emit
    <3>2. /\ ex[id] = executed[id] + FillQty(m, id)
          /\ FillQty(m, id) > 0 => ready[id] > 0
          /\ ready[id] = 0 => re[id] = 0
          /\ Finishes(m, id) => re[id] = 0
      BY <1>1, <1>2, <2>1, <2>3, <2>5
    <3>3. Tales(Append(stream, m), reported, ex, re)
      BY ZenonT(60), <1>1, <2>2, <2>3, <2>5, <3>2, TalesAppend
    <3>4. QED BY <1>1, <2>5, <3>1, <3>3, SilentAppend
  <2>6. ASSUME NEW first \in 1 .. now, NEW m \in Messages, m.id = id,
               msgs = <<Fill(id, first, FALSE), m>>, FillQty(m, id) = now - first,
               first < qty, Finishes(m, id) => now = qty
        PROVE  /\ Tales(stream', reported, ex, re)
               /\ \A i \in ClientIds \ {id} : Silent(stream, i) => Silent(stream', i)
    <3> DEFINE f == Fill(id, first, FALSE)
               some == Append(stream, f)
               ex1 == [executed EXCEPT ![id] = first]
               re1 == [resting EXCEPT ![id] = qty - first]
    <3>1. /\ f \in Messages /\ f.id = id /\ FillQty(f, id) = first /\ ~Finishes(f, id)
          /\ first \in Nat /\ first > 0 /\ qty - first \in Nat /\ qty - first > 0 /\ now - first \in Nat
      <4>1. first \in Nat /\ first > 0 /\ qty - first \in Nat /\ qty - first > 0 /\ now - first \in Nat
        BY <1>2, <2>1, <2>6
      <4>2. first \in Nat \ {0}
        BY <4>1
      <4>3. QED BY <4>1, <4>2, MessageTypes DEF Fill, FillQty, Finishes
    <3>2. /\ ex1 \in [ClientIds -> Nat] /\ re1 \in [ClientIds -> Nat]
          /\ \A i \in ClientIds \ {id} : ex1[i] = executed[i] /\ re1[i] = ready[i]
          /\ ex1[id] = first /\ re1[id] = qty - first
          /\ \A i \in ClientIds \ {id} : ex[i] = ex1[i] /\ re[i] = re1[i]
      BY <1>1, <2>3, <3>1 DEF ready
    <3> HIDE DEF f, ex1, re1
    <3>3. some \in Seq(Messages) /\ stream' = Append(some, m)
      <4>1. msgs = <<f, m>>
        BY <2>6 DEF f
      <4>2. QED BY <1>1, <1>4, <3>1, <4>1 DEF Emit
    <3>4. Tales(some, reported, ex1, re1)
      <4>1. /\ ex1[id] = executed[id] + FillQty(f, id)
            /\ FillQty(f, id) > 0 => ready[id] > 0
            /\ ready[id] = 0 => re1[id] = 0
            /\ Finishes(f, id) => re1[id] = 0
        BY <1>1, <1>2, <2>3, <3>1, <3>2
      <4>2. QED BY <1>1, <2>2, <3>1, <3>2, <4>1, TalesAppend
    <3>5. \A i \in ClientIds \ {id} : Silent(stream, i) => Silent(some, i)
      BY <1>1, <3>1, SilentAppend
    <3> HIDE DEF some
    <3>6. /\ ex[id] = ex1[id] + FillQty(m, id)
          /\ FillQty(m, id) > 0 => re1[id] > 0
          /\ re1[id] = 0 => re[id] = 0
          /\ Finishes(m, id) => re[id] = 0
      BY <2>1, <2>3, <2>6, <3>1, <3>2, <1>2
    <3>7. Tales(Append(some, m), reported, ex, re)
      BY <1>1, <2>3, <2>6, <3>2, <3>3, <3>4, <3>6, TalesAppend
    <3>8. QED BY <2>6, <3>3, <3>5, <3>7, SilentAppend
  <2>7. /\ Ack(id) \in Messages /\ Ack(id).id = id /\ FillQty(Ack(id), id) = 0
        /\ ~Finishes(Ack(id), id)
    BY MessageTypes DEF Ack, FillQty, Finishes
  <2>8. ASSUME NEW q \in Nat \ {0}
        PROVE  /\ Fill(id, q, TRUE) \in Messages /\ Fill(id, q, TRUE).id = id
               /\ FillQty(Fill(id, q, TRUE), id) = q
    BY MessageTypes DEF Fill, FillQty
  <2>9. CASE now = 0
    <3>1. msgs = <<Ack(id)>>
      BY <2>9 DEF AnswersToNew
    <3>2. QED BY <2>5, <2>7, <2>9, <3>1
  <2>10. CASE now > 0 /\ now # qty
    <3>1. now # 0 /\ qty - now > 0 /\ ~(now = 1 /\ qty - now = 0)
      BY <1>2, <2>1, <2>10
    <3>2. AnswersToNew(id, now, qty - now) = {<<Fill(id, now, FALSE), Ack(id)>>}
      BY <2>10, <3>1, Zenon DEF AnswersToNew
    <3>3. msgs = <<Fill(id, now, FALSE), Ack(id)>>
      BY <1>4, <3>2, Zenon
    <3>4. now \in 1 .. now /\ now < qty /\ now - now = 0
      BY <1>2, <2>1, <2>10
    <3>5. QED BY <2>6, <2>7, <3>3, <3>4
  <2>11. CASE now = 1 /\ now = qty
    <3>1. now # 0 /\ ~(now > 0 /\ qty - now > 0) /\ now = 1 /\ qty - now = 0
      BY <2>1, <2>11
    <3>2. AnswersToNew(id, now, qty - now) = {<<Fill(id, 1, TRUE)>>}
      BY <3>1, Zenon DEF AnswersToNew
    <3>3. msgs = <<Fill(id, now, TRUE)>>
      BY <1>4, <3>1, <3>2, Zenon
    <3>4. now \in Nat \ {0}
      BY <2>1, <2>11
    <3>5. QED BY <2>1, <2>5, <2>8, <2>11, <3>3, <3>4
  <2>12. CASE now > 1 /\ now = qty
    <3>1. now # 0 /\ ~(now > 0 /\ qty - now > 0) /\ ~(now = 1 /\ qty - now = 0)
      BY <2>1, <2>12
    <3>2. AnswersToNew(id, now, qty - now)
            = {<<Fill(id, now, TRUE)>>, <<Fill(id, 1, FALSE), Fill(id, now - 1, TRUE)>>}
      BY <3>1, Zenon DEF AnswersToNew
    <3>3. CASE msgs = <<Fill(id, now, TRUE)>>
      <4>1. now \in Nat \ {0}
        BY <2>1, <2>12
      <4>2. QED BY <2>1, <2>5, <2>8, <2>12, <3>3, <4>1
    <3>4. CASE msgs = <<Fill(id, 1, FALSE), Fill(id, now - 1, TRUE)>>
      <4>1. 1 \in 1 .. now /\ now - 1 \in Nat \ {0} /\ 1 < qty
        BY <2>1, <2>12
      <4>2. QED BY <2>6, <2>8, <2>12, <3>4, <4>1
    <3>5. QED BY <1>4, <3>2, <3>3, <3>4, Zenon
  <2>13. QED BY <2>1, <2>9, <2>10, <2>11, <2>12
<1>5. CASE \E now \in 0 .. qty :
             /\ resting' = [resting EXCEPT ![id] = qty - now]
             /\ executed' = [executed EXCEPT ![id] = now]
             /\ \E msgs \in AnswersToNew(id, now, qty - now) : Emit(msgs)
  BY <1>4, <1>5
<1>6. QED BY <1>3, <1>5 DEF ExchangeTakesNew

\* A message that is not a fill, with a new quantity that works.
LEMMA ReportedByAnswer ==
    ASSUME Typed, FInv, connected, NEW id \in ClientIds, NEW m \in Messages, m.id = id,
           m.type # "FILL", Emit(<<m>>), UNCHANGED executed,
           NEW left \in Nat, resting' = [resting EXCEPT ![id] = left], m.type = "CLOSE" => left = 0,
           resting[id] = 0 => left = 0, executed[id] + left <= MaxQty
    PROVE  Reported(id)
<1>1. executed \in [ClientIds -> Nat] /\ executed[id] \in Nat
  BY DEF FInv, Counted
<1>2. executed' = [executed EXCEPT ![id] = executed[id] + 0]
  BY <1>1
<1>3. FillQty(m, id) = 0 /\ (Finishes(m, id) => left = 0)
  BY DEF FillQty, Finishes
<1>4. 0 \in Nat /\ ~(0 > 0) /\ executed[id] + 0 + left <= MaxQty
  BY <1>1
<1>5. QED BY <1>2, <1>3, <1>4, ReportedByOne

\* A delete closes the order or finds nothing to close.
LEMMA DeleteReported ==
    ASSUME Typed, FInv, connected, NEW id \in ClientIds, ExchangeTakesDelete(id)
    PROVE  Reported(id)
<1>1. resting[id] \in Nat /\ executed[id] \in Nat /\ executed[id] + resting[id] <= MaxQty /\ MaxQty \in Nat
  BY BoundsAssumption DEF Typed, FInv, Counted
<1> DEFINE m == IF resting[id] > 0 THEN Close(id) ELSE Reject(id, "UNKNOWN_ORDER_ID")
<1>2. m \in Messages /\ m.id = id /\ m.type # "FILL"
  BY MessageTypes DEF Close, Reject, Reasons
<1>3. Emit(<<m>>) /\ UNCHANGED executed /\ resting' = [resting EXCEPT ![id] = 0]
  BY DEF ExchangeTakesDelete
<1>4. executed[id] + 0 <= MaxQty
  BY <1>1
<1> HIDE DEF m
<1>5. QED BY <1>2, <1>3, <1>4, ReportedByAnswer

\* A modify acknowledges the new quantity of a working order, or rejects.
LEMMA ModifyReported ==
    ASSUME Typed, FInv, connected, NEW id \in ClientIds, NEW qty \in 1 .. MaxQty,
           executed[id] + qty <= MaxQty, ExchangeTakesModify(id, qty)
    PROVE  Reported(id)
<1>1. /\ resting \in [ClientIds -> Nat] /\ resting[id] \in Nat /\ executed[id] \in Nat /\ qty \in Nat
      /\ executed[id] + resting[id] <= MaxQty
  BY BoundsAssumption DEF Typed, FInv, Counted
<1>2. ASSUME NEW reason \in Reasons, Emit(<<Reject(id, reason)>>), UNCHANGED <<resting, executed>>
      PROVE  Reported(id)
  <2> DEFINE m == Reject(id, reason)
  <2>1. m \in Messages /\ m.id = id /\ m.type # "FILL" /\ m.type # "CLOSE"
    BY MessageTypes DEF Reject
  <2>2. Emit(<<m>>) /\ UNCHANGED executed /\ resting' = [resting EXCEPT ![id] = resting[id]]
    BY <1>1, <1>2
  <2> HIDE DEF m
  <2>3. QED BY <1>1, <2>1, <2>2, ReportedByAnswer
<1>3. ASSUME Emit(<<Ack(id)>>), UNCHANGED executed, resting[id] > 0,
             resting' = [resting EXCEPT ![id] = qty]
      PROVE  Reported(id)
  <2>1. /\ Ack(id) \in Messages /\ Ack(id).id = id
        /\ Ack(id).type # "FILL" /\ Ack(id).type # "CLOSE"
    BY MessageTypes DEF Ack
  <2>2. resting[id] = 0 => qty = 0
    BY <1>1, <1>3
  <2> DEFINE m == Ack(id)
  <2> HIDE DEF m
  <2>3. m \in Messages /\ m.id = id /\ m.type # "FILL" /\ m.type # "CLOSE" /\ Emit(<<m>>)
    BY <1>3, <2>1 DEF m
  <2>4. QED BY <1>1, <1>3, <2>2, <2>3, ReportedByAnswer
<1>4. "INVALID_ORDER" \in Reasons /\ "UNKNOWN_ORDER_ID" \in Reasons
  BY DEF Reasons
<1>5. UNCHANGED executed
  BY DEF ExchangeTakesModify
<1>6. CASE Emit(<<Ack(id)>>) /\ resting[id] > 0 /\ resting' = [resting EXCEPT ![id] = qty]
  BY <1>3, <1>5, <1>6
<1>7. CASE UNCHANGED resting /\ \E reason \in Reasons : Emit(<<Reject(id, reason)>>)
  BY <1>2, <1>5, <1>7
<1>8. QED BY <1>4, <1>6, <1>7 DEF ExchangeTakesModify

\* A resting order trades, in part or in full.
LEMMA FillReported ==
    ASSUME Typed, FInv, NEW id \in ClientIds, NEW qty \in 1 .. MaxQty, ExchangeFills(id, qty)
    PROVE  Reported(id)
<1>1. /\ resting \in [ClientIds -> Nat] /\ resting[id] \in Nat /\ executed[id] \in Nat
      /\ executed[id] + resting[id] <= MaxQty
      /\ qty \in Nat /\ qty > 0 /\ qty <= resting[id] /\ connected
  BY BoundsAssumption DEF Typed, FInv, Counted, ExchangeFills
<1> DEFINE m == Fill(id, qty, resting[id] = qty)
           left == resting[id] - qty
<1>2. m \in Messages /\ m.id = id /\ FillQty(m, id) = qty /\ (Finishes(m, id) <=> resting[id] = qty)
  <2>1. (resting[id] = qty) \in BOOLEAN /\ qty \in Nat \ {0}
    BY <1>1
  <2>2. QED BY <1>1, <2>1, MessageTypes DEF Fill, FillQty, Finishes
<1>3. /\ Emit(<<m>>)
      /\ executed' = [executed EXCEPT ![id] = executed[id] + qty]
      /\ resting' = [resting EXCEPT ![id] = left]
  BY DEF ExchangeFills
<1>4. /\ left \in Nat /\ executed[id] + qty + left <= MaxQty /\ resting[id] > 0
      /\ resting[id] = 0 => left = 0
      /\ Finishes(m, id) => left = 0
  <2>1. left \in Nat /\ executed[id] + qty + left = executed[id] + resting[id] /\ resting[id] > 0
    BY <1>1
  <2>2. resting[id] = qty => left = 0
    BY <1>1
  <2>3. QED BY <1>1, <1>2, <2>1, <2>2
<1> HIDE DEF m, left
<1>5. QED BY <1>1, <1>2, <1>3, <1>4, ReportedByOne

-----------------------------------------------------------------------------
(* Every step keeps the second invariant *)

LEMMA InitFInv == Init => FInv
<1> SUFFICES ASSUME Init PROVE FInv
  OBVIOUS
<1>1. /\ stream = <<>> /\ connected /\ lastId = 0 /\ waiting = None /\ returned = None
      /\ \A id \in ClientIds : resting[id] = 0 /\ executed[id] = 0 /\ reported[id] = 0
      /\ executed \in [ClientIds -> Nat] /\ reported \in [ClientIds -> Nat]
  BY DEF Init
<1>2. \A id \in ClientIds : Silent(stream, id)
  BY <1>1 DEF Silent
<1>3. stream \in Seq(Messages)
  BY <1>1
<1>4. Counted
  <2>1. MaxQty \in Nat /\ MaxOrders \in Nat
    BY BoundsAssumption
  <2>2. QED BY <1>1, <1>2, <2>1 DEF Counted
<1>5. Tales(stream, reported, executed, resting)
  <2> SUFFICES ASSUME NEW id \in ClientIds
               PROVE  Tale(stream, id, reported[id], executed[id], resting[id])
    BY DEF Tales
  <2>1. FillsIn(stream, id) = 0 /\ \A i \in 1 .. Len(stream) : ~Finishes(stream[i], id)
    BY <1>2, <1>3, SilentTale
  <2>2. QED BY <1>1, <2>1 DEF Tale
<1>6. FillMeansDone
  BY <1>1 DEF FillMeansDone, None
<1>7. SentOnly
  BY DEF Init, SentOnly
<1>8. QED BY <1>1, <1>4, <1>5, <1>6, <1>7 DEF FInv

\* A step after which the exchange's counts are reported, and no result is outstanding that
\* they could belie.
LEMMA ReportedStep ==
    ASSUME Typed, FInv, connected, NEW id \in ClientIds, Reported(id), UNCHANGED <<connected, reported>>,
           lastId' = lastId \/ lastId' = id, lastId <= lastId', id <= lastId',
           \/ returned' = None
           \/ returned' = returned /\ waiting' = waiting /\ resting[id] > 0,
           liveOrders' \cup cancelling' \subseteq liveOrders \cup cancelling
    PROVE  FInv'
<1>1. /\ executed \in [ClientIds -> Nat] /\ reported \in [ClientIds -> Nat]
      /\ executed' \in [ClientIds -> Nat] /\ reported' = reported
      /\ resting \in [ClientIds -> Nat] /\ resting' \in [ClientIds -> Nat]
      /\ lastId \in 0 .. MaxOrders
      /\ \A i \in ClientIds : executed[i] + resting[i] <= MaxQty /\ reported[i] <= executed[i]
      /\ \A i \in ClientIds :
            i > lastId => executed[i] = 0 /\ resting[i] = 0 /\ Silent(stream, i)
  BY DEF Typed, FInv, Counted, Reported
<1>2. /\ \A i \in ClientIds \ {id} : executed'[i] = executed[i] /\ resting'[i] = resting[i]
      /\ executed'[id] >= executed[id] /\ executed'[id] + resting'[id] <= MaxQty
      /\ \A i \in ClientIds \ {id} : Silent(stream, i) => Silent(stream', i)
      /\ Tales(stream', reported, executed', resting')
  BY DEF Reported
<1>3. lastId' \in 0 .. MaxOrders
  BY <1>1 DEF ClientIds
<1>4. \A i \in ClientIds : executed'[i] + resting'[i] <= MaxQty /\ reported'[i] <= executed'[i]
  <2>1. TAKE i \in ClientIds
  <2>2. CASE i = id
    <3>1. reported[id] \in Nat /\ executed[id] \in Nat /\ executed'[id] \in Nat /\ reported[id] <= executed[id]
      BY <1>1
    <3>2. reported[id] <= executed'[id]
      BY <1>2, <3>1
    <3>3. QED BY <1>1, <1>2, <2>2, <3>2
  <2>3. CASE i # id
    BY <1>1, <1>2, <2>3
  <2>4. QED BY <2>2, <2>3
<1>5. \A i \in ClientIds :
        i > lastId' => executed'[i] = 0 /\ resting'[i] = 0 /\ Silent(stream', i)
  <2>1. TAKE i \in ClientIds
  <2>2. HAVE i > lastId'
  <2>3. i \in Nat /\ id \in Nat /\ lastId \in Nat /\ lastId' \in Nat
    BY <1>1, <1>3, BoundsAssumption DEF ClientIds
  <2>4. i # id /\ i > lastId
    BY <2>2, <2>3
  <2>5. QED BY <1>1, <1>2, <2>4
<1>6. Counted'
  BY <1>1, <1>3, <1>4, <1>5 DEF Counted
<1>7. FillMeansDone'
  <2>1. CASE returned' = None
    BY <2>1 DEF FillMeansDone, None
  <2>2. CASE returned' = returned /\ returned # None /\ resting[id] > 0
    <3>1. returned.id \in ClientIds /\ returned \in Answer
      BY <2>2 DEF FInv, Answer
    <3>2. SUFFICES ASSUME returned'.op = "fill", returned'.ok
                   PROVE  resting'[returned'.id] = 0 /\ reported'[returned'.id] = executed'[returned'.id]
      BY DEF FillMeansDone
    <3>3. resting[returned.id] = 0 /\ reported[returned.id] = executed[returned.id]
      BY <2>2, <3>2 DEF FInv, FillMeansDone
    <3>4. returned.id # id
      BY <2>2, <3>3
    <3>5. QED BY <1>1, <1>2, <2>2, <3>1, <3>3, <3>4
  <2>3. QED BY <2>1, <2>2
<1>8. /\ waiting' = None \/ returned' = None
      /\ returned' \in {None} \cup Answer
  BY DEF FInv
<1>9. SentOnly'
  <2>1. \A i \in ClientIds : i \in liveOrders' \cup cancelling' => i <= lastId
    BY DEF FInv, SentOnly
  <2>2. ClientIds \subseteq Nat /\ lastId \in Nat /\ lastId' \in Nat
    BY <1>1, <1>3, BoundsAssumption DEF ClientIds
  <2>3. QED BY <2>1, <2>2 DEF SentOnly
<1>10. QED BY <1>1, <1>2, <1>6, <1>7, <1>8, <1>9 DEF FInv

\* A step that moves no count, reads nothing, and leaves no true answer to wait_for_fill.
LEMMA UncountedStep ==
    ASSUME Typed, FInv, UNCHANGED <<resting, executed, reported, stream, connected>>,
           lastId' \in lastId .. MaxOrders,
           \/ returned' = None
           \/ waiting' = None /\ returned' \in Answer /\ returned'.ok = FALSE
           \/ UNCHANGED <<waiting, returned>>,
           liveOrders' \cup cancelling' \subseteq liveOrders \cup cancelling
    PROVE  FInv'
<1>1. Counted'
  <2>1. lastId \in Nat /\ lastId' \in 0 .. MaxOrders /\ lastId' \in Nat /\ lastId <= lastId'
    BY BoundsAssumption DEF FInv, Counted
  <2>2. \A id \in ClientIds : id \in Nat
    BY BoundsAssumption DEF ClientIds
  <2>3. \A id \in ClientIds : id > lastId' => id > lastId
    BY <2>1, <2>2
  <2>4. QED BY <2>1, <2>3 DEF FInv, Counted, Silent
<1>2. FillMeansDone'
  BY DEF FInv, FillMeansDone, None
<1>3. (waiting' = None \/ returned' = None) /\ returned' \in {None} \cup Answer
  BY DEF FInv
<1>4. IF connected' THEN Tales(stream', reported', executed', resting') ELSE stream' = <<>>
  BY DEF FInv
<1>5. SentOnly'
  <2>1. \A i \in ClientIds : i \in liveOrders' \cup cancelling' => i <= lastId
    BY DEF FInv, SentOnly
  <2>2. ClientIds \subseteq Nat /\ lastId \in Nat /\ lastId' \in Nat /\ lastId <= lastId'
    BY BoundsAssumption DEF ClientIds, FInv, Counted
  <2>3. QED BY <2>1, <2>2 DEF SentOnly
<1>6. QED BY <1>1, <1>2, <1>3, <1>4, <1>5 DEF FInv

\* The exchange handles a request: what it says is reported, or the connection is lost.
LEMMA RequestFInv ==
    ASSUME Typed, FInv, NEW id \in ClientIds,
           IF connected THEN Reported(id) ELSE UNCHANGED <<resting, executed, stream>>,
           UNCHANGED <<connected, reported>>, returned' = None,
           \/ lastId' = lastId /\ id <= lastId
           \/ lastId' = id /\ id = lastId + 1,
           liveOrders' \cup cancelling' \subseteq liveOrders \cup cancelling
    PROVE  FInv'
<1>1. /\ lastId \in Nat /\ lastId' \in Nat /\ lastId <= lastId' /\ id <= lastId'
      /\ lastId' = lastId \/ lastId' = id
      /\ lastId' \in lastId .. MaxOrders
  BY BoundsAssumption DEF FInv, Counted, ClientIds
<1>2. CASE connected
  BY <1>1, <1>2, ReportedStep
<1>3. CASE ~connected
  BY <1>1, <1>3, UncountedStep
<1>4. QED BY <1>2, <1>3

\* A message is read, by whoever: what it fills is reported, and after a closing fill of an
\* order nothing of it works and all of it is reported.
LEMMA ReadTales ==
    ASSUME Typed, Counted, SentOnly, Tales(stream, reported, executed, resting),
           stream # <<>>, Absorb(Head(stream)), stream' = Tail(stream),
           UNCHANGED <<resting, executed, lastId, cancelling>>
    PROVE  /\ Counted' /\ SentOnly'
           /\ Tales(stream', reported', executed', resting')
           /\ \A id \in ClientIds :
                /\ reported'[id] = reported[id] + FillQty(Head(stream), id)
                /\ Finishes(Head(stream), id) => resting[id] = 0 /\ reported'[id] = executed[id]
<1> DEFINE m == Head(stream)
           told == [id \in ClientIds |-> reported[id] + FillQty(m, id)]
<1>1. /\ stream \in Seq(Messages) /\ m \in Messages /\ m.id \in ClientIds
      /\ Tail(stream) \in Seq(Messages)
  <2>1. stream \in Seq(Messages)
    BY DEF Typed
  <2>2. Head(stream) \in Messages /\ Tail(stream) \in Seq(Messages)
    BY <2>1, HeadTailProperties
  <2>3. QED BY <2>1, <2>2 DEF Messages
<1>2. /\ executed \in [ClientIds -> Nat] /\ reported \in [ClientIds -> Nat]
      /\ resting \in [ClientIds -> Nat]
  BY DEF Counted, Typed
<1>3. reported' = IF m.type = "FILL" THEN [reported EXCEPT ![m.id] = @ + m.qty] ELSE reported
  BY DEF Absorb
<1>4. \A id \in ClientIds : FillQty(m, id) \in Nat
  BY <1>1 DEF FillQty, Messages
<1> HIDE DEF m
<1>5. reported' = told
  <2>1. CASE m.type = "FILL"
    <3>1. FillQty(m, m.id) = m.qty /\ \A id \in ClientIds : id # m.id => FillQty(m, id) = 0
      BY <2>1 DEF FillQty
    <3>2. reported' = [reported EXCEPT ![m.id] = @ + FillQty(m, m.id)]
      BY <1>3, <2>1, <3>1
    <3>3. \A id \in ClientIds : reported'[id] = told[id]
      BY <1>1, <1>2, <3>1, <3>2
    <3>4. QED BY <1>2, <3>2, <3>3
  <2>2. CASE m.type # "FILL"
    <3>1. \A id \in ClientIds : FillQty(m, id) = 0
      BY <2>2 DEF FillQty
    <3>2. \A id \in ClientIds : reported[id] = told[id]
      BY <1>2, <3>1
    <3>3. QED BY <1>2, <1>3, <2>2, <3>2
  <2>3. QED BY <2>1, <2>2
<1>6. told \in [ClientIds -> Nat] /\ \A id \in ClientIds : told[id] = reported[id] + FillQty(m, id)
  BY <1>2, <1>4
<1> HIDE DEF told
<1>7. ASSUME NEW id \in ClientIds
      PROVE  /\ Tale(Tail(stream), id, told[id], executed[id], resting[id])
             /\ told[id] <= executed[id]
             /\ Finishes(m, id) => resting[id] = 0 /\ told[id] = executed[id]
  <2>1. Tale(stream, id, reported[id], executed[id], resting[id])
    BY DEF Tales
  <2>2. reported[id] \in Nat /\ executed[id] \in Nat
    BY <1>2
  <2>3. /\ Tale(Tail(stream), id, reported[id] + FillQty(Head(stream), id), executed[id], resting[id])
        /\ reported[id] + FillQty(Head(stream), id) <= executed[id]
        /\ Finishes(Head(stream), id) =>
              resting[id] = 0 /\ reported[id] + FillQty(Head(stream), id) = executed[id]
    BY <1>1, <2>1, <2>2, TaleTail
  <2>4. QED BY <1>6, <2>3 DEF m
<1>8. Counted'
  <2>1. \A id \in ClientIds : Silent(stream, id) => Silent(Tail(stream), id)
    <3>1. /\ Len(stream) \in Nat /\ Len(Tail(stream)) = Len(stream) - 1
          /\ \A i \in 1 .. Len(Tail(stream)) : Tail(stream)[i] = stream[i + 1]
      BY <1>1, HeadTailProperties, LenProperties
    <3>2. \A i \in 1 .. Len(Tail(stream)) : i + 1 \in 1 .. Len(stream)
      BY <3>1
    <3>3. QED BY <3>1, <3>2 DEF Silent
  <2>2. \A id \in ClientIds :
          id > lastId' => executed'[id] = 0 /\ resting'[id] = 0 /\ Silent(stream', id)
    BY <2>1 DEF Counted
  <2>3. reported' \in [ClientIds -> Nat]
    BY <1>5, <1>6
  <2>4. \A id \in ClientIds : executed'[id] + resting'[id] <= MaxQty /\ reported'[id] <= executed'[id]
    BY <1>5, <1>7 DEF Counted
  <2>5. QED BY <2>2, <2>3, <2>4 DEF Counted
<1>9. Tales(stream', reported', executed', resting')
  BY <1>5, <1>7 DEF Tales
<1>10. SentOnly'
  <2>1. m = stream[1] /\ 1 \in 1 .. Len(stream)
    BY <1>1, HeadTailProperties, LenProperties, EmptySeq DEF m
  <2>2. ~(m.id > lastId)
    BY <1>1, <2>1 DEF Counted, Silent
  <2>3. m.id <= lastId
    BY <1>1, <2>2, BoundsAssumption DEF ClientIds, Counted
  <2>4. cancelling' = cancelling /\ liveOrders' \subseteq liveOrders \cup {m.id}
    BY DEF Absorb, m
  <2>5. QED BY <2>3, <2>4 DEF SentOnly
<1>11. \A id \in ClientIds :
          /\ reported'[id] = reported[id] + FillQty(m, id)
          /\ Finishes(m, id) => resting[id] = 0 /\ reported'[id] = executed[id]
  BY <1>5, <1>6, <1>7
<1>12. QED BY <1>8, <1>9, <1>10, <1>11 DEF m

\* A wait reads a message.  Only wait_for_fill returns an answer that claims anything,
\* and it returns true on the closing fill of its order.
LEMMA ReadFInv ==
    ASSUME Typed, FInv, stream # <<>>, waiting # None, NEW endsWell \in BOOLEAN, NEW endsBadly \in BOOLEAN,
           ReadOne(endsWell, endsBadly),
           waiting.op = "fill" /\ endsWell => Finishes(Head(stream), waiting.id)
    PROVE  FInv'
<1>1. /\ connected /\ Counted /\ SentOnly /\ Tales(stream, reported, executed, resting)
      /\ returned = None /\ waiting \in Ids(Requests \cup {"fill"})
  BY DEF FInv, Typed
<1>2. /\ Absorb(Head(stream)) /\ stream' = Tail(stream)
      /\ UNCHANGED <<resting, executed, connected, lastId, cancelling>>
      /\ IF endsWell \/ endsBadly
           THEN waiting' = None /\ returned' = [op |-> waiting.op, id |-> waiting.id, ok |-> endsWell]
           ELSE UNCHANGED <<waiting, returned>>
  BY DEF ReadOne, Return, exchange, caller
<1>3. /\ Counted' /\ SentOnly'
      /\ Tales(stream', reported', executed', resting')
      /\ \A id \in ClientIds :
            Finishes(Head(stream), id) => resting[id] = 0 /\ reported'[id] = executed[id]
  BY <1>1, <1>2, ReadTales
<1>4. FillMeansDone'
  <2>1. CASE endsWell \/ endsBadly
    <3>1. SUFFICES ASSUME waiting.op = "fill", endsWell
                   PROVE  resting'[waiting.id] = 0 /\ reported'[waiting.id] = executed'[waiting.id]
      BY <1>2, <2>1 DEF FillMeansDone
    <3>2. waiting.id \in ClientIds /\ Finishes(Head(stream), waiting.id)
      BY <1>1, <3>1 DEF Ids
    <3>3. QED BY <1>2, <1>3, <3>2
  <2>2. CASE ~(endsWell \/ endsBadly)
    BY <1>1, <1>2, <2>2 DEF FillMeansDone, None
  <2>3. QED BY <2>1, <2>2
<1>5. (waiting' = None \/ returned' = None) /\ returned' \in {None} \cup Answer
  <2>1. waiting.op \in Requests \cup {"fill"} /\ waiting.id \in ClientIds
    BY <1>1 DEF Ids
  <2>2. QED BY <1>1, <1>2, <2>1 DEF Answer
<1>6. QED BY <1>1, <1>2, <1>3, <1>4, <1>5 DEF FInv

\* Requests and waits, one by one.
LEMMA StrategyFInv == Typed /\ FInv /\ Strategy => FInv'
<1> SUFFICES ASSUME Typed, FInv, Strategy PROVE FInv'
  OBVIOUS
<1>1. Typed /\ Counted /\ lastId \in 0 .. MaxOrders /\ lastId \in Nat /\ MaxOrders \in Nat
  BY BoundsAssumption DEF FInv, Counted
<1>2. ASSUME NEW id \in ClientIds, NEW qty \in 1 .. MaxQty,
             SendNewOrder(id, qty) \/ SendNewOrderNoWait(id, qty)
      PROVE  FInv'
  <2>1. /\ Sends(ExchangeTakesNew(id, qty)) /\ id = lastId + 1 /\ lastId' = id
        /\ UNCHANGED <<connected, reported>> /\ returned' = None
        /\ liveOrders' \cup cancelling' \subseteq liveOrders \cup cancelling
    BY <1>2 DEF SendNewOrder, SendNewOrderNoWait, Waits, client
  <2>2. id > lastId
    BY <1>1, <2>1
  <2>3. connected => Reported(id)
    BY <1>1, <2>1, <2>2, NewReported DEF Sends
  <2>4. ~connected => UNCHANGED <<resting, executed, stream>>
    BY <2>1 DEF Sends
  <2>5. QED BY <1>1, <2>1, <2>3, <2>4, RequestFInv
<1>3. ASSUME NEW id \in ClientIds, NEW qty \in 1 .. MaxQty, ModifyOrder(id, qty)
      PROVE  FInv'
  <2>1. /\ Sends(ExchangeTakesModify(id, qty)) /\ id <= lastId /\ lastId' = lastId
        /\ executed[id] + qty <= MaxQty
        /\ UNCHANGED <<connected, reported>> /\ returned' = None
        /\ liveOrders' \cup cancelling' \subseteq liveOrders \cup cancelling
    BY <1>3 DEF ModifyOrder, Waits, client, caller
  <2>2. connected => Reported(id)
    BY <1>1, <2>1, ModifyReported DEF Sends
  <2>3. ~connected => UNCHANGED <<resting, executed, stream>>
    BY <2>1 DEF Sends
  <2>4. QED BY <1>1, <2>1, <2>2, <2>3, RequestFInv
<1>4. ASSUME NEW id \in ClientIds, DeleteOrder(id) \/ CancelNext(id)
      PROVE  FInv'
  <2>1. /\ Sends(ExchangeTakesDelete(id)) /\ id <= lastId /\ lastId' = lastId
        /\ UNCHANGED <<connected, reported>> /\ returned' = None
        /\ liveOrders' \cup cancelling' \subseteq liveOrders \cup cancelling
    BY <1>4 DEF DeleteOrder, CancelNext, Waits, client, caller, FInv, SentOnly
  <2>2. connected => Reported(id)
    BY <1>1, <2>1, DeleteReported DEF Sends
  <2>3. ~connected => UNCHANGED <<resting, executed, stream>>
    BY <2>1 DEF Sends
  <2>4. QED BY <1>1, <2>1, <2>2, <2>3, RequestFInv
<1>5. ASSUME WaitForResponse \/ CancelAllOpenOrders \/ \E id \in ClientIds : WaitForFill(id)
      PROVE  FInv'
  <2>1. /\ UNCHANGED <<resting, executed, reported, stream, connected>> /\ lastId' = lastId
        /\ returned' = None /\ liveOrders' \cup cancelling' \subseteq liveOrders \cup cancelling
    BY <1>5 DEF WaitForResponse, CancelAllOpenOrders, WaitForFill, Waits, client, caller, exchange
  <2>2. lastId' \in lastId .. MaxOrders
    BY <1>1, <2>1
  <2>3. QED BY <1>1, <2>1, <2>2, UncountedStep
<1>6. QED BY <1>2, <1>3, <1>4, <1>5 DEF Strategy

\* Reads, by either loop, and the failure of a read.
LEMMA ReadsFInv == Typed /\ FInv /\ Read => FInv'
<1> SUFFICES ASSUME Typed, FInv, Read PROVE FInv'
  OBVIOUS
<1>1. ASSUME NEW m, NEW id PROVE EndsWell(m, id) \in BOOLEAN /\ EndsBadly(m, id) \in BOOLEAN
  BY DEF EndsWell, EndsBadly
<1>2. CASE ReadResponse
  <2>1. waiting # None /\ waiting.op # "fill" /\ stream # <<>>
    BY <1>2 DEF ReadResponse, Responding, None
  <2>2. ReadOne(EndsWell(Head(stream), waiting.id), EndsBadly(Head(stream), waiting.id))
    BY <1>2 DEF ReadResponse
  <2>3. QED BY <1>1, <2>1, <2>2, ReadFInv
<1>3. ASSUME NEW late \in BOOLEAN, ReadFill(late)
      PROVE  FInv'
  <2> DEFINE m == Head(stream)
             well == FillEndsWell(m, waiting.id)
             badly == FillEndsBadly(m, waiting.id) \/ (late /\ ~FillEndsWell(m, waiting.id))
  <2>1. waiting # None /\ stream # <<>> /\ ReadOne(well, badly)
    BY <1>3 DEF ReadFill, None
  <2>2. well \in BOOLEAN /\ badly \in BOOLEAN
    <3>1. (m.closed /\ FillEndsWell(m, waiting.id)) \in BOOLEAN
      OBVIOUS
    <3>2. stream \in Seq(Messages) /\ m \in Messages
      <4>1. stream \in Seq(Messages)
        BY DEF Typed
      <4>2. QED BY <2>1, <4>1, HeadTailProperties
    <3>3. m.type = "FILL" => m.closed \in BOOLEAN
      BY <3>2 DEF Messages
    <3>4. QED BY <3>3 DEF FillEndsWell, FillEndsBadly
  <2>3. well => Finishes(m, waiting.id)
    BY DEF FillEndsWell, Finishes
  <2> HIDE DEF well, badly
  <2>4. QED BY <2>1, <2>2, <2>3, ReadFInv
<1>4. CASE ReadFails
  <2>1. /\ UNCHANGED <<resting, executed, reported, stream, connected>> /\ lastId' = lastId
        /\ waiting # None /\ waiting' = None
        /\ returned' = [op |-> waiting.op, id |-> waiting.id, ok |-> FALSE]
        /\ liveOrders' \cup cancelling' \subseteq liveOrders \cup cancelling
    BY <1>4 DEF ReadFails, Return, exchange, caller, client
  <2>2. waiting \in Ids(Requests \cup {"fill"})
    BY <2>1 DEF Typed
  <2>3. returned' \in Answer /\ returned'.ok = FALSE
    BY <2>1, <2>2 DEF Ids, Answer
  <2>4. lastId' \in lastId .. MaxOrders
    BY <2>1, BoundsAssumption DEF FInv, Counted
  <2>5. QED BY <2>1, <2>3, <2>4, UncountedStep
<1>5. QED BY <1>2, <1>3, <1>4 DEF Read

\* Every step keeps the second invariant.
LEMMA NextFInv == Typed /\ FInv /\ [Next]_vars => FInv'
<1> SUFFICES ASSUME Typed, FInv, [Next]_vars PROVE FInv'
  OBVIOUS
<1>1. ASSUME NEW id \in ClientIds, NEW qty \in 1 .. MaxQty, ExchangeFills(id, qty)
      PROVE  FInv'
  <2>1. Typed /\ Reported(id)
    BY <1>1, FillReported
  <2>2. /\ connected /\ UNCHANGED <<connected, reported, waiting, returned>> /\ lastId' = lastId
        /\ qty <= resting[id] /\ qty > 0 /\ qty \in Nat /\ resting[id] \in Nat
        /\ liveOrders' \cup cancelling' \subseteq liveOrders \cup cancelling
    BY <1>1, <2>1, BoundsAssumption DEF ExchangeFills, caller, client, Typed
  <2>3. id <= lastId' /\ lastId <= lastId' /\ resting[id] > 0
    BY <2>2, BoundsAssumption DEF FInv, Counted, ClientIds
  <2>4. QED BY <2>1, <2>2, <2>3, ReportedStep
<1>2. CASE Disconnect
  <2>1. /\ connected' = FALSE /\ stream' = <<>> /\ waiting # None
        /\ UNCHANGED <<resting, executed, reported, lastId, liveOrders, cancelling, waiting, returned>>
    BY <1>2 DEF Disconnect, caller, client
  <2>2. \A id : Silent(<<>>, id)
    BY DEF Silent
  <2>3. QED BY <2>1, <2>2 DEF FInv, Counted, SentOnly, FillMeansDone
<1>3. CASE UNCHANGED vars
  BY <1>3 DEF vars, exchange, caller, client, FInv, Counted, SentOnly, FillMeansDone
<1>4. QED BY <1>1, <1>2, <1>3, StrategyFInv, ReadsFInv DEF Next

LEMMA FillsInvariance == Spec => [](CInv /\ FInv)
<1>1. Init => CInv /\ FInv
  BY InitCInv, InitFInv
<1>2. CInv /\ FInv /\ [Next]_vars => (CInv /\ FInv)'
  BY NextCInv, NextFInv DEF CInv, TInv
<1>3. QED BY <1>1, <1>2, PTL DEF Spec

\* The tales are of what is reported and what is unread.
LEMMA AllReported == FInv => FillsReportedOnce
  BY DEF FInv, Tales, Tale, FillsReportedOnce, UnreadFills

\* Every execution that the exchange reports reaches on_fill_cb_ exactly once: what was
\* executed is what was reported and what is still unread, for every order, whichever
\* loop reads.
THEOREM EveryFillIsReportedOnce == Spec => []FillsReportedOnce
  BY AllReported, FillsInvariance, PTL

\* When wait_for_fill has returned true, nothing of the order works and all that was
\* executed of it was reported.
THEOREM FilledMeansDone == Spec => []FillMeansDone
  BY FillsInvariance, PTL DEF FInv

\* Counted and typed is TypeOK.
LEMMA CountedTypes == Typed /\ FInv => TypeOK
<1> SUFFICES ASSUME Typed, FInv PROVE TypeOK
  OBVIOUS
<1>1. /\ \A id \in ClientIds : executed[id] + resting[id] <= MaxQty /\ reported[id] <= executed[id]
      /\ resting \in [ClientIds -> Nat] /\ executed \in [ClientIds -> Nat]
      /\ reported \in [ClientIds -> Nat] /\ MaxQty \in Nat
  BY BoundsAssumption DEF Typed, FInv, Counted
<1>2. ASSUME NEW id \in ClientIds
      PROVE  resting[id] \in 0 .. MaxQty /\ executed[id] \in 0 .. MaxQty /\ reported[id] \in 0 .. MaxQty
  <2>1. resting[id] \in Nat /\ executed[id] \in Nat /\ reported[id] \in Nat
    BY <1>1
  <2>2. QED BY <1>1, <2>1
<1>3. /\ resting \in [ClientIds -> 0 .. MaxQty] /\ executed \in [ClientIds -> 0 .. MaxQty]
      /\ reported \in [ClientIds -> 0 .. MaxQty]
  BY <1>1, <1>2
<1>4. returned = None \/ returned.op \in {"new", "delete", "modify", "fill"}
  BY DEF FInv, Answer, Requests
<1>5. waiting \in {None} \cup Ids({"new", "delete", "modify", "fill"})
  <2>1. Requests \cup {"fill"} = {"new", "delete", "modify", "fill"}
    BY DEF Requests
  <2>2. QED BY <2>1 DEF Typed
<1>6. QED BY <1>3, <1>4, <1>5 DEF Typed, FInv, Counted, TypeOK

\* The variables keep their types; no order is reported to have filled by more than it could.
THEOREM ClientTypes == Spec => []TypeOK
  BY CountedTypes, FillsInvariance, PTL DEF CInv, TInv
=============================================================================
