---------------------------- MODULE GatewayProofs ----------------------------
(***************************************************************************)
(* Proofs about the order book, the order service and the market-maker     *)
(* gateway, for any number of sessions, accounts, orders and faults.       *)
(*                                                                         *)
(* The first half is about the book alone: Book(b, n, open) is kept by     *)
(* every operation, the matching loop included, which is an induction over *)
(* its turns.  The second half carries it through the service's steps.     *)
(***************************************************************************)
EXTENDS MmGateway, NumberFacts

Order == [account : Accounts, nonce : Nat, side : Sides, price : Nat, size : Nat,
          remaining : Nat, tif : TimesInForce, postOnly : BOOLEAN, client : STRING,
          status : OrderStatuses]

Place == [side : Sides, price : Nat]

\* The shape of a book whose orders are numbered up to n.
Shaped(b, n) ==
    /\ b = [levels |-> b.levels, locations |-> b.locations, orders |-> b.orders]
    /\ b.levels = [side \in Sides |-> b.levels[side]]
    /\ \A side \in Sides :
          /\ DOMAIN b.levels[side] \subseteq Nat
          /\ b.levels[side] \in [DOMAIN b.levels[side] -> Seq(Nat)]
    /\ b.locations \in [DOMAIN b.locations -> Place]
    /\ b.orders \in [DOMAIN b.orders -> Order]
    /\ DOMAIN b.orders \subseteq 1 .. n

Increasing(l) == \A i, j \in 1 .. Len(l) : i < j => l[i] < l[j]

\* A level is a non-empty queue, in order of arrival, of orders located there.
LevelsHold(b) ==
    \A side \in Sides : \A p \in DOMAIN b.levels[side] :
       /\ b.levels[side][p] # <<>>
       /\ Increasing(b.levels[side][p])
       /\ \A i \in 1 .. Len(b.levels[side][p]) :
             /\ b.levels[side][p][i] \in DOMAIN b.locations
             /\ b.locations[b.levels[side][p][i]] = [side |-> side, price |-> p]

\* A located order is in its level and can trade.
InLevel(b, id, side, price) ==
    /\ price \in DOMAIN b.levels[side]
    /\ \E i \in 1 .. Len(b.levels[side][price]) : b.levels[side][price][i] = id

CanTrade(o) ==
    /\ o.tif = "Gtc" /\ o.remaining > 0 /\ o.remaining <= o.size
    /\ o.status \in {"Open", "PartiallyFilled"}

LocatedRest(b) ==
    \A id \in DOMAIN b.locations :
       /\ id \in DOMAIN b.orders
       /\ b.orders[id].side = b.locations[id].side
       /\ b.orders[id].price = b.locations[id].price
       /\ CanTrade(b.orders[id])
       /\ InLevel(b, id, b.orders[id].side, b.orders[id].price)

\* Every other order but those in open is done.
Done(o) == o.tif = "Gtc" /\ o.remaining > 0 => o.status = "Rejected"

OthersDone(b, open) ==
    \A id \in DOMAIN b.orders \ (DOMAIN b.locations \cup open) : Done(b.orders[id])

NotCrossed(b) == \A bid \in DOMAIN b.levels["Buy"], ask \in DOMAIN b.levels["Sell"] : bid < ask

PricesBounded(b) ==
    \A side \in Sides : \E top \in Nat : \A p \in DOMAIN b.levels[side] : p <= top

Book(b, n, open) ==
    /\ Shaped(b, n) /\ LevelsHold(b) /\ LocatedRest(b) /\ OthersDone(b, open)
    /\ NotCrossed(b) /\ PricesBounded(b)

\* What no operation changes of an order.
SameTerms(o, p) ==
    /\ o.account = p.account /\ o.nonce = p.nonce /\ o.side = p.side /\ o.price = p.price
    /\ o.size = p.size /\ o.tif = p.tif /\ o.client = p.client

-----------------------------------------------------------------------------
(* Sequences.                                                              *)

\* The level without id.
IsRest(rest, level, id) ==
    /\ rest \in Seq(Nat) /\ Increasing(rest)
    /\ \A x : (\E i \in 1 .. Len(rest) : rest[i] = x)
                 <=> x # id /\ \E i \in 1 .. Len(level) : level[i] = x

LEMMA TailIncreasing ==
    ASSUME NEW l \in Seq(Nat), l # <<>>, Increasing(l)
    PROVE  IsRest(Tail(l), l, l[1])
<1>1. Len(l) \in Nat /\ Len(l) >= 1
  BY EmptySeq
<1>2. /\ Tail(l) \in Seq(Nat) /\ Len(Tail(l)) = Len(l) - 1
      /\ \A i \in 1 .. Len(l) - 1 : Tail(l)[i] = l[i + 1]
  BY <1>1
<1>3. Increasing(Tail(l))
  BY <1>1, <1>2 DEF Increasing
<1>4. ASSUME NEW i \in 1 .. Len(Tail(l))
      PROVE  i + 1 \in 1 .. Len(l) /\ Tail(l)[i] = l[i + 1] /\ Tail(l)[i] # l[1]
  <2>1. i + 1 \in 1 .. Len(l) /\ 1 \in 1 .. Len(l) /\ Tail(l)[i] = l[i + 1]
    BY <1>1, <1>2
  <2>2. l[1] < l[i + 1] /\ l[1] \in Nat /\ l[i + 1] \in Nat
    BY <2>1 DEF Increasing
  <2> QED BY <2>1, <2>2
<1>5. ASSUME NEW i \in 1 .. Len(l), l[i] # l[1]
      PROVE  i - 1 \in 1 .. Len(Tail(l)) /\ Tail(l)[i - 1] = l[i]
  <2>1. i # 1
    BY <1>5
  <2> QED BY <1>1, <1>2, <2>1
<1>6. ASSUME NEW x
      PROVE  (\E i \in 1 .. Len(Tail(l)) : Tail(l)[i] = x)
                <=> x # l[1] /\ \E i \in 1 .. Len(l) : l[i] = x
  BY <1>4, <1>5
<1> QED BY <1>2, <1>3, <1>6 DEF IsRest

LEMMA RemoveIncreasing ==
    ASSUME NEW l \in Seq(Nat), Increasing(l), NEW e \in Nat, \E i \in 1 .. Len(l) : l[i] = e
    PROVE  IsRest(RemoveFirst(l, e), l, e)
<1> DEFINE I == {i \in 1 .. Len(l) : l[i] = e}
<1>1. PICK k \in 1 .. Len(l) : l[k] = e
  OBVIOUS
<1>2. \A i \in 1 .. Len(l) : l[i] = e => i = k
  BY <1>1 DEF Increasing
<1>3. I = {k}
  BY <1>1, <1>2
<1>4. Min(I) = k
  BY <1>3 DEF Min
<1> DEFINE r == SubSeq(l, 1, k - 1) \o SubSeq(l, k + 1, Len(l))
<1>5. RemoveFirst(l, e) = r
  BY <1>1, <1>4, <1>3 DEF RemoveFirst, SelectInSeq, RemoveAt
<1>6. Len(l) \in Nat /\ k \in Nat /\ k >= 1 /\ k <= Len(l)
  OBVIOUS
<1>7. /\ SubSeq(l, 1, k - 1) \in Seq(Nat) /\ Len(SubSeq(l, 1, k - 1)) = k - 1
      /\ \A i \in 1 .. k - 1 : SubSeq(l, 1, k - 1)[i] = l[i]
  BY <1>6
<1>8. /\ SubSeq(l, k + 1, Len(l)) \in Seq(Nat) /\ Len(SubSeq(l, k + 1, Len(l))) = Len(l) - k
      /\ \A i \in 1 .. Len(l) - k : SubSeq(l, k + 1, Len(l))[i] = l[k + i]
  BY <1>6
<1>9. /\ r \in Seq(Nat) /\ Len(r) = Len(l) - 1
      /\ \A i \in 1 .. Len(l) - 1 : i < k => r[i] = l[i]
      /\ \A i \in 1 .. Len(l) - 1 : ~ (i < k) => r[i] = l[i + 1]
  <2>1. PICK p, q, n : p = SubSeq(l, 1, k - 1) /\ q = SubSeq(l, k + 1, Len(l)) /\ n = Len(l)
    OBVIOUS
  <2>2. /\ n \in Nat /\ p \in Seq(Nat) /\ Len(p) = k - 1 /\ \A i \in 1 .. k - 1 : p[i] = l[i]
        /\ q \in Seq(Nat) /\ Len(q) = n - k /\ \A i \in 1 .. n - k : q[i] = l[k + i]
    <3>1. n \in Nat /\ p \in Seq(Nat) /\ Len(p) = k - 1 /\ \A i \in 1 .. k - 1 : p[i] = l[i]
      BY <1>6, <1>7, <2>1
    <3>2. q \in Seq(Nat) /\ Len(q) = n - k
      BY <1>8, <2>1
    <3>3. \A i \in 1 .. n - k : q[i] = l[k + i]
      BY <1>8, <2>1
    <3> QED BY <3>1, <3>2, <3>3
  <2>3. /\ p \o q \in Seq(Nat) /\ Len(p \o q) = Len(p) + Len(q)
        /\ \A i \in 1 .. Len(p) + Len(q) : (p \o q)[i] = IF i <= Len(p) THEN p[i] ELSE q[i - Len(p)]
    BY <2>2, ConcatProperties
  <2>4. Len(p) + Len(q) = n - 1
    BY <1>6, <2>2
  <2>5. ASSUME NEW i \in 1 .. n - 1, i < k
        PROVE  (p \o q)[i] = l[i]
    BY <1>6, <2>2, <2>3, <2>4, <2>5
  <2>6. ASSUME NEW i \in 1 .. n - 1, ~ (i < k)
        PROVE  (p \o q)[i] = l[i + 1]
    <3>1. PICK j : j = i - Len(p)
      OBVIOUS
    <3>2. j \in 1 .. n - k /\ k + j = i + 1 /\ ~ (i <= Len(p))
      BY <1>6, <2>2, <2>6, <3>1, <2>1
    <3>3. q[j] = l[i + 1]
      BY <2>2, <3>2
    <3> QED BY <2>3, <2>4, <3>1, <3>2, <3>3
  <2> QED BY <2>1, <2>3, <2>4, <2>5, <2>6
<1> HIDE DEF r
<1>10. Increasing(r)
  <2> SUFFICES ASSUME NEW i \in 1 .. Len(r), NEW j \in 1 .. Len(r), i < j
               PROVE  r[i] < r[j]
    BY DEF Increasing
  <2>0. i \in 1 .. Len(l) - 1 /\ j \in 1 .. Len(l) - 1 /\ Len(l) \in Nat
    BY <1>9
  <2>1. /\ i \in 1 .. Len(l) /\ i + 1 \in 1 .. Len(l)
        /\ j \in 1 .. Len(l) /\ j + 1 \in 1 .. Len(l)
    BY <2>0
  <2>2. CASE j < k
    BY <1>6, <1>9, <2>0, <2>1, <2>2 DEF Increasing
  <2>3. CASE i < k /\ ~ (j < k)
    <3>1. r[i] = l[i] /\ r[j] = l[j + 1]
      BY <1>9, <2>0, <2>3
    <3>2. i < j + 1
      OBVIOUS
    <3> QED BY <2>1, <3>1, <3>2 DEF Increasing
  <2>4. CASE ~ (i < k)
    <3>0. ~ (j < k)
      BY <1>6, <2>4
    <3>1. r[i] = l[i + 1] /\ r[j] = l[j + 1]
      BY <1>9, <2>0, <2>4, <3>0
    <3>2. i + 1 < j + 1
      OBVIOUS
    <3> QED BY <2>1, <3>1, <3>2 DEF Increasing
  <2> QED BY <2>2, <2>3, <2>4
<1>11. ASSUME NEW i \in 1 .. Len(r)
       PROVE  \E j \in 1 .. Len(l) : r[i] = l[j] /\ r[i] # e
  <2>1. i \in 1 .. Len(l) - 1
    BY <1>9
  <2>2. CASE i < k
    <3>1. i \in 1 .. Len(l) /\ i # k /\ r[i] = l[i]
      BY <1>6, <1>9, <2>1, <2>2
    <3> QED BY <1>2, <3>1
  <2>3. CASE ~ (i < k)
    <3>1. i + 1 \in 1 .. Len(l) /\ i + 1 # k /\ r[i] = l[i + 1]
      BY <1>6, <1>9, <2>1, <2>3
    <3> QED BY <1>2, <3>1
  <2> QED BY <2>2, <2>3
<1>12. ASSUME NEW j \in 1 .. Len(l), l[j] # e
       PROVE  \E i \in 1 .. Len(r) : r[i] = l[j]
  <2>1. CASE j < k
    <3>1. j \in 1 .. Len(r) /\ r[j] = l[j]
      BY <1>6, <1>9, <2>1
    <3> QED BY <3>1
  <2>2. CASE j > k
    <3>1. j - 1 \in 1 .. Len(r) /\ r[j - 1] = l[j]
      BY <1>6, <1>9, <2>2
    <3> QED BY <3>1
  <2> QED BY <1>1, <1>12, <2>1, <2>2
<1>13. ASSUME NEW x
       PROVE  (\E i \in 1 .. Len(r) : r[i] = x) <=> x # e /\ \E i \in 1 .. Len(l) : l[i] = x
  BY <1>11, <1>12
<1> QED BY <1>5, <1>9, <1>10, <1>13 DEF IsRest

-----------------------------------------------------------------------------
(* One order leaves its level, filled or cancelled.                        *)

Removed(b, id, rest, after) ==
    [levels    |-> [b.levels EXCEPT ![b.orders[id].side] =
                      RemoveEmptyLevel([b.levels[b.orders[id].side] EXCEPT ![b.orders[id].price] = rest],
                                       b.orders[id].price)],
     locations |-> Without(b.locations, {id}),
     orders    |-> [b.orders EXCEPT ![id] = after]]

\* What an operation on one order does to the orders.
OnlyTouches(b, c, id, after) ==
    /\ DOMAIN c.orders = DOMAIN b.orders
    /\ c.orders[id] = after
    /\ \A o \in DOMAIN b.orders \ {id} : c.orders[o] = b.orders[o]

LEMMA Resting ==
    ASSUME NEW n, NEW open, NEW b, Book(b, n, open), NEW id \in DOMAIN b.locations
    PROVE  /\ id \in DOMAIN b.orders /\ b.orders[id] \in Order /\ CanTrade(b.orders[id])
           /\ b.orders[id].side \in Sides /\ b.orders[id].price \in Nat
           /\ b.locations[id] = [side |-> b.orders[id].side, price |-> b.orders[id].price]
           /\ InLevel(b, id, b.orders[id].side, b.orders[id].price)
<1>1. /\ id \in DOMAIN b.orders /\ b.orders[id] \in Order /\ CanTrade(b.orders[id])
      /\ InLevel(b, id, b.orders[id].side, b.orders[id].price)
  BY DEF Book, Shaped, LocatedRest
<1>2. b.orders[id].side \in Sides /\ b.orders[id].price \in Nat
  BY <1>1 DEF Order
<1>3. /\ b.locations[id] \in Place /\ b.locations[id].side = b.orders[id].side
      /\ b.locations[id].price = b.orders[id].price
  BY DEF Book, Shaped, LocatedRest
<1>4. b.locations[id] = [side |-> b.orders[id].side, price |-> b.orders[id].price]
  BY <1>3 DEF Place
<1> QED BY <1>1, <1>2, <1>4

\* The levels of c are those of b but for the one at s and p.
LevelReplaced(b, c, s, p, rest) ==
    /\ s \in Sides /\ p \in DOMAIN b.levels[s]
    /\ c.levels = [side \in Sides |-> c.levels[side]]
    /\ \A side \in Sides : side # s => c.levels[side] = b.levels[side]
    /\ DOMAIN c.levels[s] = IF rest = <<>> THEN DOMAIN b.levels[s] \ {p} ELSE DOMAIN b.levels[s]
    /\ c.levels[s] \in [DOMAIN c.levels[s] -> Seq(Nat)]
    /\ \A q \in DOMAIN c.levels[s] : c.levels[s][q] = IF q = p THEN rest ELSE b.levels[s][q]
    /\ \A side \in Sides : DOMAIN c.levels[side] \subseteq DOMAIN b.levels[side]

LEMMA RemovedLevels ==
    ASSUME NEW n, NEW open, NEW b, Book(b, n, open), NEW id \in DOMAIN b.locations,
           NEW s, NEW p, s = b.orders[id].side, p = b.orders[id].price,
           NEW rest, IsRest(rest, b.levels[s][p], id), NEW after,
           NEW c, c = Removed(b, id, rest, after)
    PROVE  LevelReplaced(b, c, s, p, rest)
<1>2. s \in Sides /\ p \in DOMAIN b.levels[s]
  BY Resting DEF InLevel
<1> DEFINE old == b.levels[s]
           put == [old EXCEPT ![p] = rest]
<1>3. /\ DOMAIN b.levels = Sides /\ b.levels = [side \in Sides |-> b.levels[side]]
      /\ old \in [DOMAIN old -> Seq(Nat)] /\ rest \in Seq(Nat)
  BY <1>2 DEF Book, Shaped, IsRest
<1>4. c.levels = [b.levels EXCEPT ![s] = RemoveEmptyLevel(put, p)]
  BY DEF Removed
<1>5. c.levels = [side \in Sides |-> IF side = s THEN RemoveEmptyLevel(put, p) ELSE b.levels[side]]
  BY <1>3, <1>4
<1>6. put \in [DOMAIN old -> Seq(Nat)] /\ \A q \in DOMAIN old : put[q] = IF q = p THEN rest ELSE old[q]
  BY <1>2, <1>3
<1>7. RemoveEmptyLevel(put, p) = IF rest = <<>> THEN [q \in DOMAIN old \ {p} |-> put[q]] ELSE put
  BY <1>2, <1>6 DEF RemoveEmptyLevel, Without
<1> HIDE DEF put
<1>8. PICK new : new = RemoveEmptyLevel(put, p)
  OBVIOUS
<1>9. /\ DOMAIN new = IF rest = <<>> THEN DOMAIN old \ {p} ELSE DOMAIN old
      /\ new \in [DOMAIN new -> Seq(Nat)]
      /\ \A q \in DOMAIN new : new[q] = IF q = p THEN rest ELSE old[q]
  <2>1. CASE rest = <<>>
    <3>1. new = [q \in DOMAIN old \ {p} |-> put[q]]
      BY <1>7, <1>8, <2>1
    <3> QED BY <1>6, <2>1, <3>1
  <2>2. CASE rest # <<>>
    <3>1. new = put
      BY <1>7, <1>8, <2>2
    <3> QED BY <1>6, <2>2, <3>1
  <2> QED BY <2>1, <2>2
<1>10. c.levels[s] = new /\ \A side \in Sides : side # s => c.levels[side] = b.levels[side]
  BY <1>2, <1>5, <1>8
<1>11. c.levels = [side \in Sides |-> c.levels[side]]
  BY <1>5
<1> QED BY <1>2, <1>9, <1>10, <1>11 DEF LevelReplaced

LEMMA RemovedKeepsBook ==
    ASSUME NEW n, NEW open, NEW b, Book(b, n, open), NEW id \in DOMAIN b.locations,
           NEW rest, IsRest(rest, b.levels[b.orders[id].side][b.orders[id].price], id),
           NEW after \in Order, SameTerms(after, b.orders[id]), after.remaining = 0,
           NEW c, c = Removed(b, id, rest, after)
    PROVE  /\ Book(c, n, open) /\ DOMAIN c.locations = DOMAIN b.locations \ {id}
           /\ OnlyTouches(b, c, id, after)
<1>2. PICK s, p : s = b.orders[id].side /\ p = b.orders[id].price
  OBVIOUS
<1>3. /\ s \in Sides /\ p \in DOMAIN b.levels[s]
      /\ c.levels = [side \in Sides |-> c.levels[side]]
      /\ \A side \in Sides : side # s => c.levels[side] = b.levels[side]
      /\ DOMAIN c.levels[s] = IF rest = <<>> THEN DOMAIN b.levels[s] \ {p} ELSE DOMAIN b.levels[s]
      /\ c.levels[s] \in [DOMAIN c.levels[s] -> Seq(Nat)]
      /\ \A q \in DOMAIN c.levels[s] : c.levels[s][q] = IF q = p THEN rest ELSE b.levels[s][q]
      /\ \A side \in Sides : DOMAIN c.levels[side] \subseteq DOMAIN b.levels[side]
  <2>1. IsRest(rest, b.levels[s][p], id)
    BY <1>2
  <2>2. LevelReplaced(b, c, s, p, rest)
    BY <1>2, <2>1, RemovedLevels
  <2> QED BY <2>2 DEF LevelReplaced
<1>4. /\ DOMAIN c.locations = DOMAIN b.locations \ {id}
      /\ \A o \in DOMAIN b.locations \ {id} : c.locations[o] = b.locations[o]
      /\ c.locations \in [DOMAIN c.locations -> Place]
  BY DEF Removed, Without, Book, Shaped
<1>5. /\ DOMAIN c.orders = DOMAIN b.orders /\ c.orders[id] = after
      /\ \A o \in DOMAIN b.orders \ {id} : c.orders[o] = b.orders[o]
      /\ c.orders \in [DOMAIN c.orders -> Order]
      /\ id \in DOMAIN b.orders
  BY DEF Removed, Book, Shaped, LocatedRest
<1>6. Shaped(c, n)
  <2>1. c = [levels |-> c.levels, locations |-> c.locations, orders |-> c.orders]
    BY DEF Removed
  <2>2. \A side \in Sides : /\ DOMAIN c.levels[side] \subseteq Nat
                            /\ c.levels[side] \in [DOMAIN c.levels[side] -> Seq(Nat)]
    BY <1>3 DEF Book, Shaped
  <2> QED BY <1>3, <1>4, <1>5, <2>1, <2>2 DEF Book, Shaped
<1>7. LevelsHold(c)
  <2> SUFFICES ASSUME NEW side \in Sides, NEW q \in DOMAIN c.levels[side]
               PROVE  /\ c.levels[side][q] # <<>>
                      /\ Increasing(c.levels[side][q])
                      /\ \A i \in 1 .. Len(c.levels[side][q]) :
                            /\ c.levels[side][q][i] \in DOMAIN c.locations
                            /\ c.locations[c.levels[side][q][i]] = [side |-> side, price |-> q]
    BY DEF LevelsHold
  <2>0. q \in DOMAIN b.levels[side]
    BY <1>3
  <2>1. /\ b.levels[side][q] # <<>> /\ Increasing(b.levels[side][q])
        /\ \A i \in 1 .. Len(b.levels[side][q]) :
              /\ b.levels[side][q][i] \in DOMAIN b.locations
              /\ b.locations[b.levels[side][q][i]] = [side |-> side, price |-> q]
    BY <2>0 DEF Book, LevelsHold
  <2>2. CASE side = s /\ q = p
    <3>1. c.levels[side][q] = rest /\ rest # <<>>
      BY <1>3, <2>2
    <3>2. ASSUME NEW i \in 1 .. Len(rest)
          PROVE  rest[i] \in DOMAIN c.locations /\ c.locations[rest[i]] = [side |-> side, price |-> q]
      <4>1. rest[i] # id /\ \E j \in 1 .. Len(b.levels[s][p]) : b.levels[s][p][j] = rest[i]
        BY <1>2 DEF IsRest
      <4> QED BY <1>4, <2>1, <2>2, <4>1
    <3> QED BY <3>1, <3>2 DEF IsRest
  <2>3. CASE ~ (side = s /\ q = p)
    <3>1. c.levels[side][q] = b.levels[side][q]
      BY <1>3, <2>3
    <3>2. b.locations[id] = [side |-> s, price |-> p]
      BY <1>2, Resting
    <3>3. [side |-> s, price |-> p] # [side |-> side, price |-> q]
      BY <2>3
    <3> QED BY <1>4, <2>1, <3>1, <3>2, <3>3
  <2> QED BY <2>2, <2>3
<1>8. LocatedRest(c)
  <2> SUFFICES ASSUME NEW o \in DOMAIN c.locations
               PROVE  /\ o \in DOMAIN c.orders
                      /\ c.orders[o].side = c.locations[o].side
                      /\ c.orders[o].price = c.locations[o].price
                      /\ CanTrade(c.orders[o])
                      /\ InLevel(c, o, c.orders[o].side, c.orders[o].price)
    BY DEF LocatedRest
  <2>1. o \in DOMAIN b.locations /\ o # id /\ o \in DOMAIN b.orders /\ c.locations[o] = b.locations[o]
        /\ c.orders[o] = b.orders[o]
    BY <1>4, <1>5 DEF Book, LocatedRest
  <2>2. PICK t, q : t = b.orders[o].side /\ q = b.orders[o].price
    OBVIOUS
  <2>3. /\ t \in Sides /\ InLevel(b, o, t, q) /\ CanTrade(c.orders[o])
        /\ c.orders[o].side = t /\ c.orders[o].price = q
        /\ c.locations[o].side = t /\ c.locations[o].price = q
    <3>1. /\ CanTrade(b.orders[o]) /\ b.orders[o].side \in Sides
          /\ b.locations[o] = [side |-> b.orders[o].side, price |-> b.orders[o].price]
          /\ InLevel(b, o, b.orders[o].side, b.orders[o].price)
      BY <2>1, Resting
    <3> QED BY <2>1, <2>2, <3>1
  <2>4. CASE t = s /\ q = p
    <3>1. \E i \in 1 .. Len(rest) : rest[i] = o
      BY <1>2, <2>1, <2>3, <2>4 DEF IsRest, InLevel
    <3>2. rest # <<>>
      BY <3>1
    <3>3. q \in DOMAIN c.levels[t] /\ c.levels[t][q] = rest
      BY <1>3, <2>3, <2>4, <3>2
    <3>4. InLevel(c, o, t, q)
      BY <3>1, <3>3 DEF InLevel
    <3> QED BY <1>5, <2>1, <2>3, <3>4
  <2>5. CASE ~ (t = s /\ q = p)
    <3>1. q \in DOMAIN c.levels[t] /\ c.levels[t][q] = b.levels[t][q]
      BY <1>3, <2>3, <2>5 DEF InLevel
    <3>2. InLevel(c, o, t, q)
      BY <2>3, <3>1 DEF InLevel
    <3> QED BY <1>5, <2>1, <2>3, <3>2
  <2> QED BY <2>4, <2>5
<1>9. OthersDone(c, open)
  <2> SUFFICES ASSUME NEW o \in DOMAIN c.orders, o \notin DOMAIN c.locations, o \notin open
               PROVE  Done(c.orders[o])
    BY DEF OthersDone
  <2>1. CASE o = id
    BY <1>5, <2>1 DEF Done
  <2>2. CASE o # id
    BY <1>4, <1>5, <2>2 DEF Book, OthersDone
  <2> QED BY <2>1, <2>2
<1>10. NotCrossed(c)
  BY <1>3 DEF NotCrossed, Book, Sides
<1>11. PricesBounded(c)
  BY <1>3 DEF PricesBounded, Book
<1> QED BY <1>4, <1>5, <1>6, <1>7, <1>8, <1>9, <1>10, <1>11 DEF Book, OnlyTouches

LEMMA CancelKeepsBook ==
    ASSUME NEW n, NEW open, NEW b, Book(b, n, open), NEW id \in DOMAIN b.locations
    PROVE  /\ Book(BookCancel(b, id), n, open)
           /\ DOMAIN BookCancel(b, id).locations = DOMAIN b.locations \ {id}
           /\ OnlyTouches(b, BookCancel(b, id), id,
                          [b.orders[id] EXCEPT !.status = "Cancelled", !.remaining = 0])
<1>1. PICK s, p, l : s = b.orders[id].side /\ p = b.orders[id].price /\ l = b.levels[s][p]
  OBVIOUS
<1>2. PICK after : after = [b.orders[id] EXCEPT !.status = "Cancelled", !.remaining = 0]
  OBVIOUS
<1>3. PICK rest : rest = RemoveFirst(l, id)
  OBVIOUS
<1>4. /\ id \in DOMAIN b.orders /\ b.orders[id] \in Order /\ s \in Sides
      /\ b.locations[id] = [side |-> s, price |-> p] /\ InLevel(b, id, s, p)
  BY <1>1, Resting
<1>5. after \in Order /\ SameTerms(after, b.orders[id]) /\ after.remaining = 0
  BY <1>2, <1>4 DEF Order, SameTerms, OrderStatuses
<1>6. IsRest(rest, l, id)
  <2>1. l \in Seq(Nat) /\ Increasing(l) /\ \E i \in 1 .. Len(l) : l[i] = id
    BY <1>1, <1>4 DEF InLevel, Book, Shaped, LevelsHold
  <2>2. id \in Nat
    BY <1>4 DEF Book, Shaped
  <2> QED BY <1>3, <2>1, <2>2, RemoveIncreasing
<1>7. BookCancel(b, id) = Removed(b, id, rest, after)
  <2>1. BookCancel(b, id) =
          [levels |-> [b.levels EXCEPT ![s] = RemoveEmptyLevel([b.levels[s] EXCEPT ![p] = rest], p)],
           locations |-> Without(b.locations, {id}),
           orders |-> [b.orders EXCEPT ![id].status = "Cancelled", ![id].remaining = 0]]
    BY <1>1, <1>3, <1>4 DEF BookCancel
  <2>2. [b.orders EXCEPT ![id].status = "Cancelled", ![id].remaining = 0] = [b.orders EXCEPT ![id] = after]
    BY <1>2, <1>4 DEF Book, Shaped
  <2> QED BY <1>1, <2>1, <2>2 DEF Removed
<1>8. IsRest(rest, b.levels[b.orders[id].side][b.orders[id].price], id)
  BY <1>1, <1>6
<1>9. PICK c : c = Removed(b, id, rest, after)
  OBVIOUS
<1>10. /\ Book(c, n, open) /\ DOMAIN c.locations = DOMAIN b.locations \ {id}
       /\ OnlyTouches(b, c, id, after)
  BY <1>5, <1>8, <1>9, RemovedKeepsBook
<1> QED BY <1>2, <1>7, <1>9, <1>10

\* An order in part or completely filled.
Filling(o, fill) ==
    [o EXCEPT !.remaining = o.remaining - fill,
              !.status = IF o.remaining - fill = 0 THEN "Filled" ELSE "PartiallyFilled"]

\* id is the oldest order of its level.
IsFront(b, id) == b.levels[b.orders[id].side][b.orders[id].price][1] = id

\* The book c after a fill of the front order id of b.
FilledBook(b, c, id, fill, n, open) ==
    /\ Book(c, n, open)
    /\ DOMAIN c.locations =
          IF fill = b.orders[id].remaining THEN DOMAIN b.locations \ {id} ELSE DOMAIN b.locations
    /\ OnlyTouches(b, c, id, Filling(b.orders[id], fill))

LEMMA FillKeepsBook ==
    ASSUME NEW n, NEW open, NEW b, Book(b, n, open), NEW id \in DOMAIN b.locations,
           IsFront(b, id),
           NEW fill \in Nat, fill > 0, fill <= b.orders[id].remaining
    PROVE  FilledBook(b, ApplyMakerFill(b, id, fill), id, fill, n, open)
<1>1. PICK s, p, l : s = b.orders[id].side /\ p = b.orders[id].price /\ l = b.levels[s][p]
  OBVIOUS
<1>2. PICK after : after = Filling(b.orders[id], fill)
  OBVIOUS
<1>3. PICK rest : rest = Tail(l)
  OBVIOUS
<1>4. /\ id \in DOMAIN b.orders /\ b.orders[id] \in Order /\ s \in Sides /\ CanTrade(b.orders[id])
      /\ b.locations[id] = [side |-> s, price |-> p] /\ InLevel(b, id, s, p)
  BY <1>1, Resting
<1>5. /\ b.orders[id].remaining \in Nat /\ b.orders[id].remaining - fill \in Nat
      /\ after \in Order /\ SameTerms(after, b.orders[id])
      /\ after.remaining = b.orders[id].remaining - fill
      /\ after.status = IF after.remaining = 0 THEN "Filled" ELSE "PartiallyFilled"
  <2>1. b.orders[id].remaining \in Nat
    BY <1>4 DEF Order
  <2>2. PICK left \in Nat : left = b.orders[id].remaining - fill
    BY <2>1
  <2>3. PICK st \in {"Filled", "PartiallyFilled"} : st = IF left = 0 THEN "Filled" ELSE "PartiallyFilled"
    OBVIOUS
  <2>4. after = [b.orders[id] EXCEPT !.remaining = left, !.status = st]
    BY <1>2, <2>2, <2>3 DEF Filling
  <2>5. after \in Order /\ SameTerms(after, b.orders[id]) /\ after.remaining = left /\ after.status = st
    BY <1>4, <2>4 DEF Order, SameTerms, OrderStatuses
  <2> QED BY <2>1, <2>2, <2>3, <2>5
<1>6. PICK c : c = ApplyMakerFill(b, id, fill)
  OBVIOUS
<1>7. b = [levels |-> b.levels, locations |-> b.locations, orders |-> b.orders]
  BY DEF Book, Shaped
<1>8. CASE fill = b.orders[id].remaining
  <2>0. after.remaining = 0 /\ ~ (b.orders[id].remaining - fill > 0)
    BY <1>5, <1>8
  <2>1. IsRest(rest, l, id)
    <3>1. l \in Seq(Nat) /\ Increasing(l) /\ l # <<>>
      BY <1>1, <1>4 DEF InLevel, Book, Shaped, LevelsHold
    <3>2. id = l[1]
      BY <1>1 DEF IsFront
    <3> QED BY <1>3, <3>1, <3>2, TailIncreasing
  <2>2. c = Removed(b, id, rest, after)
    <3>1. c = [levels |-> [b.levels EXCEPT ![s] = RemoveEmptyLevel([b.levels[s] EXCEPT ![p] = rest], p)],
               locations |-> Without(b.locations, {id}),
               orders |-> [b.orders EXCEPT ![id] = after]]
      BY <1>1, <1>2, <1>3, <1>6, <2>0 DEF ApplyMakerFill, Filling
    <3> QED BY <1>1, <1>7, <3>1 DEF Removed
  <2>3. IsRest(rest, b.levels[b.orders[id].side][b.orders[id].price], id)
    BY <1>1, <2>1
  <2>4. /\ Book(c, n, open) /\ DOMAIN c.locations = DOMAIN b.locations \ {id}
        /\ OnlyTouches(b, c, id, after)
    <3>1. after \in Order /\ SameTerms(after, b.orders[id]) /\ after.remaining = 0
      BY <1>5, <2>0
    <3> HIDE <1>5
    <3> QED BY <2>2, <2>3, <3>1, RemovedKeepsBook
  <2> QED BY <1>2, <1>6, <1>8, <2>4 DEF FilledBook
<1>9. CASE fill # b.orders[id].remaining
  <2>0. b.orders[id].remaining - fill > 0
    BY <1>5, <1>9
  <2>1. c = [levels |-> b.levels, locations |-> b.locations, orders |-> [b.orders EXCEPT ![id] = after]]
    <3>1. c = [b EXCEPT !.orders = [b.orders EXCEPT ![id] = after]]
      BY <1>2, <1>6, <2>0 DEF ApplyMakerFill, Filling
    <3> QED BY <1>7, <3>1
  <2>2. /\ c.levels = b.levels /\ c.locations = b.locations
        /\ DOMAIN c.orders = DOMAIN b.orders /\ c.orders[id] = after
        /\ \A o \in DOMAIN b.orders \ {id} : c.orders[o] = b.orders[o]
        /\ c.orders \in [DOMAIN c.orders -> Order]
    BY <1>4, <1>5, <2>1 DEF Book, Shaped
  <2>3. Shaped(c, n)
    <3>1. c = [levels |-> c.levels, locations |-> c.locations, orders |-> c.orders]
      BY <2>1
    <3> QED BY <2>2, <3>1 DEF Book, Shaped
  <2>4. LevelsHold(c) /\ NotCrossed(c) /\ PricesBounded(c)
    BY <2>2 DEF Book, LevelsHold, NotCrossed, PricesBounded
  <2>5. LocatedRest(c)
    <3> SUFFICES ASSUME NEW o \in DOMAIN c.locations
                 PROVE  /\ o \in DOMAIN c.orders
                        /\ c.orders[o].side = c.locations[o].side
                        /\ c.orders[o].price = c.locations[o].price
                        /\ CanTrade(c.orders[o])
                        /\ InLevel(c, o, c.orders[o].side, c.orders[o].price)
      BY DEF LocatedRest
    <3>1. /\ o \in DOMAIN b.orders /\ b.orders[o].side = b.locations[o].side
          /\ b.orders[o].price = b.locations[o].price /\ CanTrade(b.orders[o])
          /\ InLevel(b, o, b.orders[o].side, b.orders[o].price)
      BY <2>2 DEF Book, LocatedRest
    <3>2. CASE o = id
      <4>1. CanTrade(after)
        <5>1. b.orders[id].size \in Nat /\ after.size = b.orders[id].size /\ after.tif = b.orders[id].tif
          BY <1>4, <1>5 DEF Order, SameTerms
        <5> QED BY <1>4, <1>5, <2>0, <5>1 DEF CanTrade
      <4> QED BY <1>5, <2>2, <3>1, <3>2, <4>1 DEF SameTerms, InLevel
    <3>3. CASE o # id
      BY <2>2, <3>1, <3>3 DEF InLevel
    <3> QED BY <3>2, <3>3
  <2>6. OthersDone(c, open)
    BY <2>2 DEF Book, OthersDone
  <2> QED BY <1>2, <1>6, <1>9, <2>2, <2>3, <2>4, <2>5, <2>6 DEF Book, OnlyTouches, FilledBook
<1> QED BY <1>8, <1>9

-----------------------------------------------------------------------------
(* The maker a taker meets.                                                *)

LEMMA BestPrice ==
    ASSUME NEW n, NEW open, NEW b, Book(b, n, open), NEW side \in Sides,
           DOMAIN b.levels[Opposite(side)] # {}
    PROVE  /\ Opposite(side) \in Sides
           /\ BestOppositePrice(b, side) \in DOMAIN b.levels[Opposite(side)]
           /\ \A q \in DOMAIN b.levels[Opposite(side)] :
                 /\ side = "Buy" => BestOppositePrice(b, side) <= q
                 /\ side # "Buy" => q <= BestOppositePrice(b, side)
<1>1. PICK P : P = DOMAIN b.levels[Opposite(side)]
  OBVIOUS
<1>2. Opposite(side) \in Sides
  BY DEF Opposite, Sides
<1>3. PICK top \in Nat : \A p \in P : p <= top
  BY <1>1, <1>2 DEF Book, PricesBounded
<1>4. P \subseteq Nat /\ P # {}
  BY <1>1, <1>2 DEF Book, Shaped
<1>5. P \subseteq 0 .. top
  BY <1>3, <1>4
<1>6. CASE side = "Buy"
  <2>1. \E x \in P : \A y \in P : x <= y
    BY <1>4, LeastElement
  <2>2. BestOppositePrice(b, side) = CHOOSE x \in P : \A y \in P : x <= y
    BY <1>1, <1>6 DEF BestOppositePrice, Min
  <2> QED BY <1>1, <1>2, <1>6, <2>1, <2>2
<1>7. CASE side # "Buy"
  <2>1. \E x \in P : \A y \in P : y <= x
    BY <1>4, <1>5, GreatestElement
  <2>2. \E x \in P : \A y \in P : x >= y
    BY <1>4, <2>1
  <2>3. BestOppositePrice(b, side) = CHOOSE x \in P : \A y \in P : x >= y
    BY <1>1, <1>7 DEF BestOppositePrice, Max
  <2>4. BestOppositePrice(b, side) \in P /\ \A y \in P : BestOppositePrice(b, side) >= y
    BY <2>2, <2>3
  <2> QED BY <1>1, <1>2, <1>4, <1>7, <2>4
<1> QED BY <1>6, <1>7

\* It rests at the front of the best level: no resting order beats it.
LEMMA BestMaker ==
    ASSUME NEW n, NEW open, NEW b, Book(b, n, open), NEW taker, taker.side \in Sides,
           WouldMatch(b, taker), NEW m, m = BestMatchOrderId(b, taker)
    PROVE  /\ m \in DOMAIN b.locations /\ IsFront(b, m)
           /\ \A o \in DOMAIN b.locations : ~ Beats(b, o, m)
<1>1. PICK s, p, l : /\ s = Opposite(taker.side) /\ p = BestOppositePrice(b, taker.side)
                     /\ l = b.levels[s][p]
  OBVIOUS
<1>2. /\ s \in Sides /\ p \in DOMAIN b.levels[s]
      /\ \A q \in DOMAIN b.levels[s] : /\ taker.side = "Buy" => p <= q
                                       /\ taker.side # "Buy" => q <= p
  BY <1>1, BestPrice DEF WouldMatch
<1>3. m = Head(l)
  BY <1>1 DEF BestMatchOrderId
<1>4. /\ l # <<>> /\ Increasing(l) /\ l \in Seq(Nat)
      /\ \A i \in 1 .. Len(l) : l[i] \in DOMAIN b.locations /\ b.locations[l[i]] = [side |-> s, price |-> p]
  BY <1>1, <1>2 DEF Book, LevelsHold, Shaped
<1>5. m = l[1] /\ 1 \in 1 .. Len(l)
  BY <1>3, <1>4, EmptySeq
<1>6. m \in DOMAIN b.locations /\ b.locations[m] = [side |-> s, price |-> p]
  BY <1>4, <1>5
<1>7. b.orders[m].side = s /\ b.orders[m].price = p
  BY <1>6 DEF Book, LocatedRest
<1>8. IsFront(b, m)
  BY <1>1, <1>5, <1>7 DEF IsFront
<1>9. ASSUME NEW o \in DOMAIN b.locations, Beats(b, o, m)
      PROVE  FALSE
  <2>1. PICK q : q = b.orders[o].price
    OBVIOUS
  <2>2. b.orders[o].side = s
    BY <1>7, <1>9 DEF Beats
  <2>3. q \in DOMAIN b.levels[s] /\ \E i \in 1 .. Len(b.levels[s][q]) : b.levels[s][q][i] = o
    BY <2>1, <2>2 DEF Book, LocatedRest, InLevel
  <2>4. q \in Nat /\ p \in Nat
    BY <1>2, <2>3 DEF Book, Shaped
  <2>5. q = p /\ o < m
    <3>1. s = "Buy" <=> taker.side # "Buy"
      BY <1>1 DEF Opposite, Sides
    <3>2. s \in {"Buy", "Sell"}
      BY <1>2 DEF Sides
    <3> QED BY <1>2, <1>7, <1>9, <2>1, <2>2, <2>3, <2>4, <3>1, <3>2 DEF Beats
  <2>6. PICK i \in 1 .. Len(l) : l[i] = o
    BY <1>1, <2>3, <2>5
  <2>7. m \in Nat /\ o \in Nat /\ (i = 1 \/ m < o)
    BY <1>4, <1>5, <2>6 DEF Increasing
  <2> QED BY <1>5, <2>5, <2>6, <2>7
<1> QED BY <1>6, <1>8, <1>9

-----------------------------------------------------------------------------
(* The matching loop, an induction over its turns.                         *)

FirstTurn(b, taker) ==
    [book |-> b, taker |-> taker, remaining |-> taker.size, makers |-> <<>>, trades |-> <<>>]

Turn(run, id) == IF CanMatch(run) THEN MatchOne(run, id) ELSE run

IsRun(it, b, id, taker, turns) ==
    it = [n \in 0 .. turns |-> IF n = 0 THEN FirstTurn(b, taker) ELSE Turn(it[n - 1], id)]

LEMMA RunExists ==
    ASSUME NEW b, NEW id, NEW taker
    PROVE  \A turns \in Nat : \E it : IsRun(it, b, id, taker, turns)
<1> DEFINE Body(it, n) == IF n = 0 THEN FirstTurn(b, taker) ELSE Turn(it[n - 1], id)
           Good == {m \in Nat : \E it : it = [n \in 0 .. m |-> Body(it, n)]}
<1>1. 0 \in Good
  <2> DEFINE g == [n \in 0 .. 0 |-> FirstTurn(b, taker)]
  <2>1. g = [n \in 0 .. 0 |-> Body(g, n)]
    OBVIOUS
  <2>2. \E it : it = [n \in 0 .. 0 |-> Body(it, n)]
    BY <2>1
  <2> QED BY <2>2
<1>2. ASSUME NEW m \in Nat, m \in Good
      PROVE  m + 1 \in Good
  <2>1. PICK h : h = [n \in 0 .. m |-> Body(h, n)]
    BY <1>2
  <2> DEFINE g == [n \in 0 .. m + 1 |-> IF n \in 0 .. m THEN h[n] ELSE Body(h, n)]
  <2>2. \A n \in 0 .. m + 1 : g[n] = Body(g, n)
    BY <2>1
  <2>3. g = [n \in 0 .. m + 1 |-> Body(g, n)]
    BY <2>2
  <2> HIDE DEF Body, g
  <2>4. \E it : it = [n \in 0 .. m + 1 |-> Body(it, n)]
    BY <2>3
  <2> QED BY <2>4
<1>3. \A m \in Nat : m \in Good
  <2> HIDE DEF Good
  <2> QED BY <1>1, <1>2, EveryNumber
<1> QED BY <1>3 DEF IsRun

LEMMA MatchAllIsRun ==
    ASSUME NEW b, NEW id, NEW taker, NEW turns \in Nat, turns = Cardinality(DOMAIN b.locations)
    PROVE  \E it : IsRun(it, b, id, taker, turns) /\ MatchAll(b, id, taker) = it[turns]
<1> DEFINE it == CHOOSE it : IsRun(it, b, id, taker, turns)
<1>1. IsRun(it, b, id, taker, turns)
  BY RunExists
<1>2. MatchAll(b, id, taker) = it[turns]
  BY DEF MatchAll, IsRun, FirstTurn, Turn
<1> QED BY <1>1, <1>2

Trade == [maker : Nat, taker : Nat, price : Nat, size : Nat]

\* The book c that a run started on b has come to.
Matched(b, c) ==
    /\ DOMAIN c.orders = DOMAIN b.orders
    /\ DOMAIN c.locations \subseteq DOMAIN b.locations
    /\ \A o \in DOMAIN b.orders :
          /\ SameTerms(c.orders[o], b.orders[o])
          /\ c.orders[o].remaining <= b.orders[o].remaining
    /\ \A o \in DOMAIN b.orders \ DOMAIN b.locations : c.orders[o] = b.orders[o]
    /\ \A o \in DOMAIN b.locations \ DOMAIN c.locations : c.orders[o].status = "Filled"

\* Its trades: all with resting makers, each taken in price-time priority.
TradesFit(b, c, id, trades) ==
    /\ trades \in Seq(Trade)
    /\ \A i \in 1 .. Len(trades) :
          /\ trades[i].maker \in DOMAIN b.locations /\ trades[i].taker = id /\ trades[i].size > 0
          /\ \A o \in DOMAIN b.locations :
                Beats(b, o, trades[i].maker) => c.orders[o].status = "Filled"

MakersFit(b, makers) ==
    makers \in Seq(Nat) /\ \A i \in 1 .. Len(makers) : makers[i] \in DOMAIN b.locations

RunOK(run, b, id, taker, n) ==
    /\ run.taker = taker /\ run.remaining \in Nat /\ run.remaining <= taker.size
    /\ Book(run.book, n, {id}) /\ Matched(b, run.book)
    /\ TradesFit(b, run.book, id, run.trades)
    /\ MakersFit(b, run.makers)
    /\ run.trades = <<>> <=> run.remaining = taker.size

\* What a run is given: a book in which the taker is recorded but does not rest.
Taking(b, id, taker, n) ==
    /\ Book(b, n, {id}) /\ taker \in Order /\ taker.size > 0
    /\ id \in DOMAIN b.orders /\ id \notin DOMAIN b.locations

\* A turn trades fill with m, the order no other resting order beats.
Meets(run, id, taker, m, fill) ==
    /\ fill > 0 /\ fill <= run.remaining /\ fill <= run.book.orders[m].remaining
    /\ fill = run.remaining \/ fill = run.book.orders[m].remaining
    /\ IsFront(run.book, m)
    /\ \A o \in DOMAIN run.book.locations : ~ Beats(run.book, o, m)
    /\ MatchOne(run, id) =
          [book |-> ApplyMakerFill(run.book, m, fill), taker |-> taker,
           remaining |-> run.remaining - fill,
           makers |-> Append(run.makers, m),
           trades |-> Append(run.trades, [maker |-> m, taker |-> id,
                        price |-> run.book.orders[m].price, size |-> fill])]

LEMMA OneTurn ==
    ASSUME NEW n, NEW b, NEW id, NEW taker, Taking(b, id, taker, n),
           NEW run, RunOK(run, b, id, taker, n), CanMatch(run)
    PROVE  \E m \in DOMAIN run.book.locations : \E fill \in Nat : Meets(run, id, taker, m, fill)
<1>1. /\ Book(run.book, n, {id}) /\ run.taker = taker /\ WouldMatch(run.book, taker)
      /\ run.remaining > 0 /\ run.remaining \in Nat
  BY DEF RunOK, CanMatch
<1>2. taker.side \in Sides
  BY DEF Taking, Order
<1>3. PICK m : m = BestMatchOrderId(run.book, taker)
  OBVIOUS
<1>4. m \in DOMAIN run.book.locations /\ IsFront(run.book, m)
      /\ \A o \in DOMAIN run.book.locations : ~ Beats(run.book, o, m)
  BY <1>1, <1>2, <1>3, BestMaker
<1>5. run.book.orders[m] \in Order /\ CanTrade(run.book.orders[m])
  BY <1>1, <1>4, Resting
<1>6. PICK r : r = run.book.orders[m].remaining
  OBVIOUS
<1>7. r \in Nat /\ r > 0
  BY <1>5, <1>6 DEF Order, CanTrade
<1>8. PICK fill \in {run.remaining, r} : \A y \in {run.remaining, r} : fill <= y
  <2>1. {run.remaining, r} \subseteq Nat /\ {run.remaining, r} # {}
    BY <1>1, <1>7
  <2> QED BY <2>1, LeastElement
<1>9. Min({run.remaining, r}) = fill
  <2>1. \E x \in {run.remaining, r} : \A y \in {run.remaining, r} : x =< y
    BY <1>8
  <2>2. PICK f : f = Min({run.remaining, r})
    OBVIOUS
  <2>3. f \in {run.remaining, r} /\ \A y \in {run.remaining, r} : f =< y
    BY <2>1, <2>2 DEF Min
  <2> QED BY <1>1, <1>7, <1>8, <2>2, <2>3
<1>10. fill \in Nat /\ fill > 0 /\ fill <= run.remaining /\ fill <= r /\ (fill = run.remaining \/ fill = r)
  BY <1>1, <1>7, <1>8
<1>11. MatchOne(run, id) =
          [book |-> ApplyMakerFill(run.book, m, fill), taker |-> taker,
           remaining |-> run.remaining - fill,
           makers |-> Append(run.makers, m),
           trades |-> Append(run.trades, [maker |-> m, taker |-> id,
                        price |-> run.book.orders[m].price, size |-> fill])]
  BY <1>1, <1>3, <1>6, <1>9 DEF MatchOne
<1> QED BY <1>4, <1>6, <1>10, <1>11 DEF Meets

\* Beats looks at the terms only.
LEMMA BeatsSame ==
    ASSUME NEW b, NEW c, NEW o, NEW m,
           SameTerms(c.orders[o], b.orders[o]), SameTerms(c.orders[m], b.orders[m])
    PROVE  Beats(b, o, m) <=> Beats(c, o, m)
BY DEF Beats, SameTerms

LEMMA OneTurnKeeps ==
    ASSUME NEW n, NEW b, NEW id \in Nat, NEW taker, Taking(b, id, taker, n),
           NEW run, RunOK(run, b, id, taker, n), CanMatch(run),
           NEW m \in DOMAIN run.book.locations, NEW fill \in Nat, Meets(run, id, taker, m, fill),
           NEW next, next = MatchOne(run, id)
    PROVE  /\ RunOK(next, b, id, taker, n)
           /\ FilledBook(run.book, next.book, m, fill, n, {id})
<1>0. /\ fill > 0 /\ fill <= run.remaining /\ fill <= run.book.orders[m].remaining
      /\ IsFront(run.book, m)
      /\ \A o \in DOMAIN run.book.locations : ~ Beats(run.book, o, m)
      /\ next = [book |-> ApplyMakerFill(run.book, m, fill), taker |-> taker,
                 remaining |-> run.remaining - fill,
                 makers |-> Append(run.makers, m),
                 trades |-> Append(run.trades, [maker |-> m, taker |-> id,
                              price |-> run.book.orders[m].price, size |-> fill])]
  BY DEF Meets
<1> USE <1>0
<1>1. PICK c, d : c = run.book /\ d = next.book
  OBVIOUS
<1>2. Book(c, n, {id}) /\ Matched(b, c) /\ TradesFit(b, c, id, run.trades) /\ MakersFit(b, run.makers)
  BY <1>1 DEF RunOK
<1>3. /\ Book(d, n, {id})
      /\ DOMAIN d.locations = IF fill = c.orders[m].remaining THEN DOMAIN c.locations \ {m} ELSE DOMAIN c.locations
      /\ OnlyTouches(c, d, m, Filling(c.orders[m], fill))
  <2>1. d = ApplyMakerFill(c, m, fill)
    BY <1>1
  <2>2. m \in DOMAIN c.locations /\ IsFront(c, m) /\ fill <= c.orders[m].remaining
    BY <1>1
  <2>3. FilledBook(c, ApplyMakerFill(c, m, fill), m, fill, n, {id})
    BY <1>2, <2>2, FillKeepsBook
  <2> QED BY <2>1, <2>3 DEF FilledBook
<1>4. /\ m \in DOMAIN c.orders /\ c.orders[m] \in Order /\ c.orders[m].remaining \in Nat
      /\ m \in DOMAIN b.locations /\ m \in DOMAIN b.orders /\ m \in Nat /\ c.orders[m].price \in Nat
  <2>1. m \in DOMAIN c.orders /\ c.orders[m] \in Order
    BY <1>1, <1>2, Resting
  <2>2. c.orders[m].remaining \in Nat /\ c.orders[m].price \in Nat
    BY <2>1 DEF Order
  <2>3. m \in Nat
    BY <1>2, <2>1 DEF Book, Shaped
  <2> QED BY <1>1, <1>2, <2>1, <2>2, <2>3 DEF Matched
<1>5. PICK after : after = Filling(c.orders[m], fill)
  OBVIOUS
<1>6. /\ SameTerms(after, c.orders[m]) /\ after.remaining = c.orders[m].remaining - fill
      /\ after.status = IF c.orders[m].remaining - fill = 0 THEN "Filled" ELSE "PartiallyFilled"
  BY <1>4, <1>5 DEF Filling, SameTerms, Order
<1>7. /\ DOMAIN d.orders = DOMAIN c.orders /\ d.orders[m] = after
      /\ \A o \in DOMAIN c.orders \ {m} : d.orders[o] = c.orders[o]
  BY <1>3, <1>5 DEF OnlyTouches
<1>8. Matched(b, d)
  <2>1. ASSUME NEW o \in DOMAIN b.orders
        PROVE  SameTerms(d.orders[o], b.orders[o]) /\ d.orders[o].remaining <= b.orders[o].remaining
    <3>1. SameTerms(c.orders[o], b.orders[o]) /\ c.orders[o].remaining <= b.orders[o].remaining
          /\ o \in DOMAIN c.orders
      BY <1>2 DEF Matched
    <3>2. CASE o = m
      <4>1. SameTerms(after, b.orders[m])
        BY <1>6, <3>1, <3>2 DEF SameTerms
      <4>2. b.orders[m].remaining \in Nat
        BY <1>4 DEF Taking, Book, Shaped, Order
      <4>3. after.remaining <= b.orders[m].remaining
        BY <1>4, <1>6, <3>1, <3>2, <4>2
      <4> QED BY <1>7, <3>2, <4>1, <4>3
    <3>3. CASE o # m
      BY <1>7, <3>1, <3>3
    <3> QED BY <3>2, <3>3
  <2>2. DOMAIN d.orders = DOMAIN b.orders /\ DOMAIN d.locations \subseteq DOMAIN b.locations
    BY <1>2, <1>3, <1>7 DEF Matched
  <2>3. \A o \in DOMAIN b.orders \ DOMAIN b.locations : d.orders[o] = b.orders[o]
    BY <1>2, <1>4, <1>7 DEF Matched
  <2>4. ASSUME NEW o \in DOMAIN b.locations \ DOMAIN d.locations
        PROVE  d.orders[o].status = "Filled"
    <3>1. CASE o = m
      <4>1. fill = c.orders[m].remaining
        BY <1>1, <1>3, <3>1, <2>4
      <4>2. c.orders[m].remaining - fill = 0
        BY <1>4, <4>1
      <4> QED BY <1>6, <1>7, <3>1, <4>2
    <3>2. CASE o # m
      <4>1. o \notin DOMAIN c.locations
        BY <1>3, <2>4, <3>2
      <4>2. c.orders[o].status = "Filled" /\ o \in DOMAIN c.orders
        BY <1>2, <2>4, <4>1 DEF Matched, Taking, Book, LocatedRest
      <4> QED BY <1>7, <3>2, <4>2
    <3> QED BY <3>1, <3>2
  <2> QED BY <2>1, <2>2, <2>3, <2>4 DEF Matched
<1>9. \A o \in DOMAIN b.locations : c.orders[o].status = "Filled" => d.orders[o].status = "Filled"
  <2>1. ASSUME NEW o \in DOMAIN b.locations, c.orders[o].status = "Filled"
        PROVE  d.orders[o].status = "Filled"
    <3>1. o # m
      <4>1. c.orders[m].status # "Filled"
        BY <1>1, <1>2 DEF Book, LocatedRest, CanTrade
      <4> QED BY <2>1, <4>1
    <3>2. o \in DOMAIN c.orders
      BY <1>2 DEF Matched, Taking, Book, LocatedRest
    <3> QED BY <1>7, <2>1, <3>1, <3>2
  <2> QED BY <2>1
<1>10. TradesFit(b, d, id, next.trades)
  <2>1. PICK t : t = [maker |-> m, taker |-> id, price |-> c.orders[m].price, size |-> fill]
    OBVIOUS
  <2>2. t \in Trade /\ t.maker = m /\ t.taker = id /\ t.size = fill
    BY <1>4, <2>1 DEF Trade
  <2>3. PICK old \in Seq(Trade) : old = run.trades
    BY <1>2 DEF TradesFit
  <2>4. next.trades = Append(old, t)
    BY <1>1, <2>1, <2>3
  <2>5. /\ Append(old, t) \in Seq(Trade) /\ Len(Append(old, t)) = Len(old) + 1
        /\ \A i \in 1 .. Len(old) : Append(old, t)[i] = old[i]
        /\ Append(old, t)[Len(old) + 1] = t /\ Len(old) \in Nat
    BY <2>2
  <2>6. ASSUME NEW o \in DOMAIN b.locations, Beats(b, o, m)
        PROVE  d.orders[o].status = "Filled"
    <3>1. o \in DOMAIN b.orders
      BY DEF Taking, Book, LocatedRest
    <3>2. Beats(c, o, m)
      BY <1>2, <1>4, <2>6, <3>1, BeatsSame DEF Matched
    <3>3. o \notin DOMAIN c.locations
      BY <1>1, <3>2
    <3> QED BY <1>2, <1>9, <3>3 DEF Matched
  <2>7. ASSUME NEW i \in 1 .. Len(old) + 1
        PROVE  /\ Append(old, t)[i].maker \in DOMAIN b.locations /\ Append(old, t)[i].taker = id
               /\ Append(old, t)[i].size > 0
               /\ \A o \in DOMAIN b.locations :
                     Beats(b, o, Append(old, t)[i].maker) => d.orders[o].status = "Filled"
    <3>1. CASE i \in 1 .. Len(old)
      BY <1>2, <1>9, <2>3, <2>5, <3>1 DEF TradesFit
    <3>2. CASE i = Len(old) + 1
      BY <1>4, <2>2, <2>5, <2>6, <3>2
    <3> QED BY <2>5, <3>1, <3>2
  <2> QED BY <2>4, <2>5, <2>7 DEF TradesFit
<1>11. MakersFit(b, next.makers)
  <2>1. PICK old \in Seq(Nat) : old = run.makers
    BY <1>2 DEF MakersFit
  <2>2. next.makers = Append(old, m)
    BY <2>1
  <2>3. /\ Append(old, m) \in Seq(Nat) /\ Len(Append(old, m)) = Len(old) + 1
        /\ \A i \in 1 .. Len(old) : Append(old, m)[i] = old[i]
        /\ Append(old, m)[Len(old) + 1] = m /\ Len(old) \in Nat
    BY <1>4
  <2>4. ASSUME NEW i \in 1 .. Len(old) + 1
        PROVE  Append(old, m)[i] \in DOMAIN b.locations
    <3>1. CASE i \in 1 .. Len(old)
      BY <1>2, <2>1, <2>3, <3>1 DEF MakersFit
    <3>2. CASE i = Len(old) + 1
      BY <1>4, <2>3, <3>2
    <3> QED BY <2>3, <3>1, <3>2
  <2> QED BY <2>2, <2>3, <2>4 DEF MakersFit
<1>12. /\ next.taker = taker /\ next.remaining \in Nat /\ next.remaining <= taker.size
       /\ next.remaining # taker.size /\ next.trades # <<>>
  <2>1. next.taker = taker /\ next.remaining = run.remaining - fill
    OBVIOUS
  <2>2. run.remaining \in Nat /\ taker.size \in Nat /\ run.remaining <= taker.size
    BY DEF RunOK, Taking, Order
  <2>3. next.trades # <<>>
    <3>1. PICK t : t = [maker |-> m, taker |-> id, price |-> c.orders[m].price, size |-> fill]
      OBVIOUS
    <3>2. t \in Trade
      BY <1>4, <3>1 DEF Trade
    <3>3. PICK old \in Seq(Trade) : old = run.trades
      BY <1>2 DEF TradesFit
    <3>4. next.trades = Append(old, t)
      BY <1>1, <3>1, <3>3
    <3>5. Len(Append(old, t)) = Len(old) + 1 /\ Len(old) \in Nat
      BY <3>2
    <3> QED BY <3>4, <3>5
  <2> QED BY <2>1, <2>2, <2>3
<1> QED BY <1>1, <1>3, <1>8, <1>10, <1>11, <1>12 DEF RunOK, FilledBook

-----------------------------------------------------------------------------
(* What an order traded, trade by trade.                                   *)

LEMMA TradedNothing ==
    ASSUME NEW o
    PROVE  TradedIn(<<>>, o) = 0
<1>1. {i \in DOMAIN <<>> : o \in {<<>>[i].maker, <<>>[i].taker}} = {}
  OBVIOUS
<1> QED BY <1>1, SumEmpty DEF TradedIn

LEMMA TradedIsNat ==
    ASSUME NEW q \in Seq(Trade), NEW o
    PROVE  TradedIn(q, o) \in Nat
<1> DEFINE S == {i \in DOMAIN q : o \in {q[i].maker, q[i].taker}}
           f == [i \in DOMAIN q |-> q[i].size]
<1>1. DOMAIN q = 1 .. Len(q) /\ Len(q) \in Nat
  OBVIOUS
<1>2. IsFiniteSet(DOMAIN q)
  BY <1>1, FS_Interval
<1>3. IsFiniteSet(S)
  BY <1>2, FS_Subset
<1>4. \A i \in S : f[i] \in Nat
  <2>1. \A i \in 1 .. Len(q) : q[i] \in Trade
    OBVIOUS
  <2> QED BY <1>1, <2>1 DEF Trade
<1> HIDE DEF S, f
<1>5. SumFunctionOnSet(f, S) \in Nat
  BY <1>3, <1>4, SumFacts
<1> QED BY <1>5 DEF TradedIn, S, f

LEMMA TradedAppend ==
    ASSUME NEW q \in Seq(Trade), NEW t \in Trade, NEW o
    PROVE  TradedIn(Append(q, t), o) = TradedIn(q, o) + (IF o \in {t.maker, t.taker} THEN t.size ELSE 0)
<1>1. PICK r : r = Append(q, t)
  OBVIOUS
<1>2. PICK k \in Nat : k = Len(q)
  OBVIOUS
<1>3. /\ DOMAIN q = 1 .. k /\ DOMAIN r = 1 .. k + 1
      /\ \A i \in 1 .. k : r[i] = q[i]
      /\ r[k + 1] = t
  BY <1>1, <1>2
<1>4. \A i \in 1 .. k + 1 : r[i].size \in Nat
  <2>1. \A i \in 1 .. k + 1 : r[i] \in Trade
    BY <1>1, <1>2
  <2> QED BY <2>1 DEF Trade
<1> DEFINE S == {i \in DOMAIN q : o \in {q[i].maker, q[i].taker}}
           T == {i \in DOMAIN r : o \in {r[i].maker, r[i].taker}}
           f == [i \in DOMAIN q |-> q[i].size]
           g == [i \in DOMAIN r |-> r[i].size]
<1>5. IsFiniteSet(S) /\ S \subseteq 1 .. k
  <2>1. IsFiniteSet(1 .. k)
    BY FS_Interval
  <2>2. S \subseteq 1 .. k
    BY <1>3
  <2> HIDE DEF S
  <2> QED BY <2>1, <2>2, FS_Subset
<1>6. \A i \in S : f[i] = g[i]
  BY <1>3
<1>7. \A i \in 1 .. k + 1 : g[i] = r[i].size /\ g[i] \in Nat
  BY <1>3, <1>4
<1>8. T = IF o \in {t.maker, t.taker} THEN S \cup {k + 1} ELSE S
  <2>1. 1 .. k + 1 = (1 .. k) \cup {k + 1}
    OBVIOUS
  <2> QED BY <1>3, <2>1
<1>9. k + 1 \notin S /\ k + 1 \in 1 .. k + 1
  BY <1>5
<1>10. t.size \in Nat /\ g[k + 1] = t.size
  BY <1>3, <1>7 DEF Trade
<1> HIDE DEF S, T, f, g
<1>11. SumFunctionOnSet(f, S) = SumFunctionOnSet(g, S)
  BY <1>5, <1>6, SumSame
<1>12. \A y \in S \cup {k + 1} : g[y] \in Nat
  BY <1>5, <1>7
<1>13. SumFunctionOnSet(g, S \cup {k + 1}) = SumFunctionOnSet(g, S) + g[k + 1]
  <2>1. PICK j : j = k + 1
    OBVIOUS
  <2>2. j \notin S /\ \A y \in S \cup {j} : g[y] \in Nat
    BY <1>9, <1>12, <2>1
  <2>3. SumFunctionOnSet(g, S \cup {j}) = SumFunctionOnSet(g, S) + g[j]
    BY <1>5, <2>2, SumWithOne
  <2> QED BY <2>1, <2>3
<1>14. SumFunctionOnSet(g, S) \in Nat
  BY <1>5, <1>12, SumFacts
<1>15. TradedIn(q, o) = SumFunctionOnSet(f, S) /\ TradedIn(r, o) = SumFunctionOnSet(g, T)
  BY DEF TradedIn, S, T, f, g
<1>16. CASE o \in {t.maker, t.taker}
  BY <1>1, <1>8, <1>10, <1>11, <1>13, <1>15, <1>16
<1>17. CASE o \notin {t.maker, t.taker}
  BY <1>1, <1>8, <1>11, <1>14, <1>15, <1>17
<1> QED BY <1>16, <1>17

\* The trades of a run, queued after q, are what the taker and the makers lost.
Accounted(run, b, id, taker, q) ==
    \A o \in DOMAIN b.orders :
       TradedIn(q \o run.trades, o) =
          TradedIn(q, o) + (IF o = id THEN taker.size - run.remaining
                            ELSE b.orders[o].remaining - run.book.orders[o].remaining)

LEMMA QueueAppend ==
    ASSUME NEW q \in Seq(Trade), NEW r \in Seq(Trade), NEW t \in Trade
    PROVE  q \o Append(r, t) = Append(q \o r, t)
OBVIOUS

LEMMA OneTurnAccounts ==
    ASSUME NEW n, NEW b, NEW id \in Nat, NEW taker, Taking(b, id, taker, n), NEW q \in Seq(Trade),
           NEW run, RunOK(run, b, id, taker, n), Accounted(run, b, id, taker, q),
           NEW m \in DOMAIN run.book.locations, NEW fill \in Nat, Meets(run, id, taker, m, fill),
           NEW next, next = MatchOne(run, id), FilledBook(run.book, next.book, m, fill, n, {id})
    PROVE  Accounted(next, b, id, taker, q)
<1>0. /\ fill <= run.book.orders[m].remaining /\ next.remaining = run.remaining - fill
      /\ next.trades = Append(run.trades, [maker |-> m, taker |-> id,
                         price |-> run.book.orders[m].price, size |-> fill])
  BY DEF Meets
<1> USE <1>0
<1>1. PICK c, d : c = run.book /\ d = next.book
  OBVIOUS
<1>2. /\ Book(c, n, {id}) /\ Matched(b, c) /\ m \in DOMAIN c.locations
      /\ OnlyTouches(c, d, m, Filling(c.orders[m], fill))
  BY <1>1 DEF RunOK, FilledBook
<1>3. /\ m \in DOMAIN c.orders /\ c.orders[m] \in Order /\ m \in DOMAIN b.locations /\ m # id /\ m \in Nat
  <2>1. m \in DOMAIN c.orders /\ c.orders[m] \in Order
    BY <1>2, Resting
  <2> QED BY <1>2, <2>1 DEF Matched, Taking, Book, Shaped
<1>4. c.orders[m].remaining \in Nat /\ c.orders[m].price \in Nat
  BY <1>3 DEF Order
<1>5. d.orders[m].remaining = c.orders[m].remaining - fill
  BY <1>2, <1>3 DEF OnlyTouches, Filling, Order
<1>6. PICK t \in Trade : t = [maker |-> m, taker |-> id, price |-> c.orders[m].price, size |-> fill]
  BY <1>3, <1>4 DEF Trade
<1>7. PICK old \in Seq(Trade) : old = run.trades
  BY DEF RunOK, TradesFit
<1>8. PICK all \in Seq(Trade) : all = q \o old
  BY ConcatProperties
<1>9. q \o next.trades = Append(all, t)
  BY <1>1, <1>6, <1>7, <1>8, QueueAppend
<1> SUFFICES ASSUME NEW o \in DOMAIN b.orders
             PROVE  TradedIn(Append(all, t), o) =
                      TradedIn(q, o) + (IF o = id THEN taker.size - next.remaining
                                        ELSE b.orders[o].remaining - d.orders[o].remaining)
  BY <1>1, <1>9 DEF Accounted
<1>10. PICK now, base \in Nat : now = TradedIn(all, o) /\ base = TradedIn(q, o)
  <2>1. TradedIn(all, o) \in Nat /\ TradedIn(q, o) \in Nat
    BY TradedIsNat
  <2> QED BY <2>1
<1>11. now = base + (IF o = id THEN taker.size - run.remaining
                     ELSE b.orders[o].remaining - c.orders[o].remaining)
  BY <1>1, <1>7, <1>8, <1>10 DEF Accounted
<1>12. TradedIn(Append(all, t), o) = now + (IF o \in {m, id} THEN fill ELSE 0)
  BY <1>6, <1>10, TradedAppend
<1>13. run.remaining \in Nat /\ taker.size \in Nat
  BY DEF RunOK, Taking, Order
<1>14. o \in DOMAIN c.orders /\ b.orders[o].remaining \in Nat /\ c.orders[o].remaining \in Nat
  <2>1. o \in DOMAIN c.orders
    BY <1>2 DEF Matched
  <2>2. b.orders[o] \in Order /\ c.orders[o] \in Order
    BY <1>2, <2>1 DEF Taking, Book, Shaped
  <2> QED BY <2>1, <2>2 DEF Order
<1>15. CASE o = id
  BY <1>10, <1>11, <1>12, <1>13, <1>15
<1>16. CASE o = m
  <2>1. PICK x, y \in Nat : x = b.orders[o].remaining /\ y = c.orders[o].remaining
    BY <1>14
  <2>2. now = base + (x - y) /\ d.orders[o].remaining = y - fill
    BY <1>3, <1>5, <1>11, <1>16, <2>1
  <2>3. TradedIn(Append(all, t), o) = now + fill
    BY <1>12, <1>16
  <2>4. now + fill = base + (x - (y - fill))
    BY <1>10, <2>2
  <2> QED BY <1>3, <1>10, <1>16, <2>1, <2>2, <2>3, <2>4
<1>17. CASE o # id /\ o # m
  <2>1. d.orders[o] = c.orders[o]
    BY <1>2, <1>14, <1>17 DEF OnlyTouches
  <2> QED BY <1>10, <1>11, <1>12, <1>14, <1>17, <2>1
<1> QED BY <1>15, <1>16, <1>17

\* Turns are left for every order that may still be taken.
Fuel(run, left) == CanMatch(run) => Cardinality(DOMAIN run.book.locations) <= left

LEMMA FewLocations ==
    ASSUME NEW n \in Nat, NEW open, NEW b, Book(b, n, open)
    PROVE  IsFiniteSet(DOMAIN b.locations) /\ Cardinality(DOMAIN b.locations) \in Nat
<1>1. DOMAIN b.locations \subseteq 1 .. n
  BY DEF Book, Shaped, LocatedRest
<1>2. IsFiniteSet(1 .. n)
  BY FS_Interval
<1> QED BY <1>1, <1>2, FS_Subset, FS_CardinalityType

RunHolds(run, b, id, taker, n, q, left) ==
    RunOK(run, b, id, taker, n) /\ Accounted(run, b, id, taker, q) /\ Fuel(run, left)

LEMMA TurnHolds ==
    ASSUME NEW n \in Nat, NEW b, NEW id \in Nat, NEW taker, Taking(b, id, taker, n), NEW q \in Seq(Trade),
           NEW run, NEW left \in Nat, left > 0, RunHolds(run, b, id, taker, n, q, left)
    PROVE  RunHolds(Turn(run, id), b, id, taker, n, q, left - 1)
<1>0. RunOK(run, b, id, taker, n) /\ Accounted(run, b, id, taker, q) /\ Fuel(run, left)
  BY DEF RunHolds
<1>1. CASE ~ CanMatch(run)
  BY <1>0, <1>1 DEF RunHolds, Turn, Fuel
<1>2. CASE CanMatch(run)
  <2>1. PICK m \in DOMAIN run.book.locations, fill \in Nat : Meets(run, id, taker, m, fill)
    BY <1>0, <1>2, OneTurn
  <2>2. PICK next : next = MatchOne(run, id)
    OBVIOUS
  <2>3. RunOK(next, b, id, taker, n) /\ FilledBook(run.book, next.book, m, fill, n, {id})
    BY <1>0, <1>2, <2>1, <2>2, OneTurnKeeps
  <2>4. next.remaining = run.remaining - fill /\ (fill = run.remaining \/ fill = run.book.orders[m].remaining)
    BY <2>1, <2>2 DEF Meets
  <2>5. Accounted(next, b, id, taker, q)
    BY <1>0, <2>1, <2>2, <2>3, OneTurnAccounts
  <2>6. Fuel(next, left - 1)
    <3>1. CASE fill = run.remaining
      <4>1. next.remaining = 0
        BY <1>0, <2>4, <3>1 DEF RunOK
      <4> QED BY <4>1 DEF Fuel, CanMatch
    <3>2. CASE fill = run.book.orders[m].remaining
      <4>1. DOMAIN next.book.locations = DOMAIN run.book.locations \ {m}
        BY <2>3, <3>2 DEF FilledBook
      <4>2. /\ IsFiniteSet(DOMAIN run.book.locations) /\ Cardinality(DOMAIN run.book.locations) \in Nat
            /\ Cardinality(DOMAIN run.book.locations) <= left
        BY <1>0, <1>2, FewLocations DEF RunOK, Fuel
      <4>3. Cardinality(DOMAIN run.book.locations \ {m}) = Cardinality(DOMAIN run.book.locations) - 1
        BY <4>2, FS_RemoveElement
      <4>4. Cardinality(DOMAIN next.book.locations) <= left - 1
        BY <4>1, <4>2, <4>3
      <4> QED BY <4>4 DEF Fuel
    <3> QED BY <2>4, <3>1, <3>2
  <2> QED BY <1>2, <2>2, <2>3, <2>5, <2>6 DEF RunHolds, Turn
<1> QED BY <1>1, <1>2

LEMMA FirstHolds ==
    ASSUME NEW n \in Nat, NEW b, NEW id \in Nat, NEW taker, Taking(b, id, taker, n), NEW q \in Seq(Trade)
    PROVE  RunHolds(FirstTurn(b, taker), b, id, taker, n, q, Cardinality(DOMAIN b.locations))
<1>1. PICK run : run = FirstTurn(b, taker)
  OBVIOUS
<1>2. /\ run.book = b /\ run.taker = taker /\ run.remaining = taker.size
      /\ run.trades = <<>> /\ run.makers = <<>>
  BY <1>1 DEF FirstTurn
<1>3. Book(b, n, {id}) /\ taker.size \in Nat
  BY DEF Taking, Order
<1>4. \A o \in DOMAIN b.orders : b.orders[o].remaining \in Nat
  <2>1. \A o \in DOMAIN b.orders : b.orders[o] \in Order
    BY <1>3 DEF Book, Shaped
  <2> QED BY <2>1 DEF Order
<1>5. Matched(b, b)
  BY <1>4 DEF Matched, SameTerms
<1>6. TradesFit(b, b, id, <<>>) /\ MakersFit(b, <<>>)
  BY DEF TradesFit, MakersFit
<1>7. RunOK(run, b, id, taker, n)
  BY <1>2, <1>3, <1>5, <1>6 DEF RunOK
<1>8. Accounted(run, b, id, taker, q)
  <2>1. q \o <<>> = q
    OBVIOUS
  <2>2. \A o : TradedIn(q, o) \in Nat
    BY TradedIsNat
  <2> QED BY <1>2, <1>3, <1>4, <2>1, <2>2 DEF Accounted
<1>9. Fuel(run, Cardinality(DOMAIN b.locations))
  <2>1. Cardinality(DOMAIN b.locations) \in Nat
    BY <1>3, FewLocations
  <2> QED BY <1>2, <2>1 DEF Fuel
<1> QED BY <1>1, <1>7, <1>8, <1>9 DEF RunHolds

\* The loop ends because nothing is left to match.
LEMMA MatchAllFacts ==
    ASSUME NEW n \in Nat, NEW b, NEW id \in Nat, NEW taker, Taking(b, id, taker, n), NEW q \in Seq(Trade)
    PROVE  \E run : /\ run = MatchAll(b, id, taker)
                    /\ RunOK(run, b, id, taker, n) /\ Accounted(run, b, id, taker, q)
                    /\ ~ CanMatch(run)
<1>1. PICK turns \in Nat : turns = Cardinality(DOMAIN b.locations)
  BY FewLocations DEF Taking
<1>2. PICK it : IsRun(it, b, id, taker, turns) /\ MatchAll(b, id, taker) = it[turns]
  BY <1>1, MatchAllIsRun
<1> DEFINE Good == {k \in Nat : k <= turns => RunHolds(it[k], b, id, taker, n, q, turns - k)}
<1>3. 0 \in Good
  <2>1. it[0] = FirstTurn(b, taker)
    BY <1>2 DEF IsRun
  <2>2. turns - 0 = turns
    OBVIOUS
  <2> QED BY <1>1, <2>1, <2>2, FirstHolds
<1>4. ASSUME NEW k \in Nat, k \in Good
      PROVE  k + 1 \in Good
  <2> SUFFICES ASSUME k + 1 <= turns
               PROVE  RunHolds(it[k + 1], b, id, taker, n, q, turns - (k + 1))
    OBVIOUS
  <2>1. RunHolds(it[k], b, id, taker, n, q, turns - k)
    BY <1>4
  <2>2. it[k + 1] = Turn(it[k], id)
    <3>1. k + 1 \in 0 .. turns /\ k + 1 # 0 /\ (k + 1) - 1 = k
      OBVIOUS
    <3>2. it[k + 1] = Turn(it[(k + 1) - 1], id)
      BY <1>2, <3>1 DEF IsRun
    <3> QED BY <3>1, <3>2
  <2>3. PICK run : run = it[k]
    OBVIOUS
  <2>13. PICK left \in Nat : left = turns - k
    OBVIOUS
  <2>4. left > 0 /\ left - 1 = turns - (k + 1)
    BY <2>13
  <2>5. RunHolds(Turn(run, id), b, id, taker, n, q, left - 1)
    BY <2>1, <2>3, <2>13, <2>4, TurnHolds
  <2> QED BY <2>2, <2>3, <2>4, <2>5
<1>5. \A k \in Nat : k \in Good
  <2> HIDE DEF Good
  <2> QED BY <1>3, <1>4, EveryNumber
<1>6. PICK run : run = it[turns]
  OBVIOUS
<1>7. RunHolds(run, b, id, taker, n, q, 0)
  <2>1. turns - turns = 0 /\ turns <= turns
    OBVIOUS
  <2> QED BY <1>5, <1>6, <2>1
<1>8. RunOK(run, b, id, taker, n) /\ Accounted(run, b, id, taker, q) /\ Fuel(run, 0)
  BY <1>7 DEF RunHolds
<1>9. ~ CanMatch(run)
  <2> SUFFICES ASSUME CanMatch(run)
               PROVE  FALSE
    OBVIOUS
  <2>1. Cardinality(DOMAIN run.book.locations) <= 0
    BY <1>8 DEF Fuel
  <2>2. IsFiniteSet(DOMAIN run.book.locations) /\ Cardinality(DOMAIN run.book.locations) \in Nat
    BY <1>8, FewLocations DEF RunOK
  <2>3. Cardinality(DOMAIN run.book.locations) = 0
    BY <2>1, <2>2
  <2>4. DOMAIN run.book.locations = {}
    BY <2>2, <2>3, FS_EmptySet
  <2>5. \E m \in DOMAIN run.book.locations : TRUE
    BY <1>8, OneTurn
  <2> QED BY <2>4, <2>5
<1> QED BY <1>2, <1>6, <1>8, <1>9

-----------------------------------------------------------------------------
(* The taker rests or is finished.                                         *)

\* The level of an order that comes last: id is behind all the others.
IsExtended(l, old, id) ==
    /\ l \in Seq(Nat) /\ l # <<>> /\ Increasing(l)
    /\ \A x : (\E i \in 1 .. Len(l) : l[i] = x) <=> x = id \/ \E i \in 1 .. Len(old) : old[i] = x

LEMMA AppendIncreasing ==
    ASSUME NEW old \in Seq(Nat), Increasing(old), NEW id \in Nat, \A i \in 1 .. Len(old) : old[i] < id
    PROVE  IsExtended(Append(old, id), old, id)
<1>1. PICK l, k : l = Append(old, id) /\ k = Len(old)
  OBVIOUS
<1>2. /\ k \in Nat /\ l \in Seq(Nat) /\ Len(l) = k + 1
      /\ \A i \in 1 .. k : l[i] = old[i]
      /\ l[k + 1] = id
  BY <1>1
<1>3. ASSUME NEW i \in 1 .. k + 1, NEW j \in 1 .. k + 1, i < j
      PROVE  l[i] < l[j]
  <2>1. i \in 1 .. k /\ l[i] = old[i]
    BY <1>2, <1>3
  <2>2. CASE j \in 1 .. k
    BY <1>1, <1>2, <1>3, <2>1, <2>2 DEF Increasing
  <2>3. CASE j = k + 1
    BY <1>1, <1>2, <2>1, <2>3
  <2> QED BY <1>2, <2>2, <2>3
<1>4. ASSUME NEW x
      PROVE  (\E i \in 1 .. k + 1 : l[i] = x) <=> x = id \/ \E i \in 1 .. k : old[i] = x
  <2>1. ASSUME NEW i \in 1 .. k + 1, l[i] = x
        PROVE  x = id \/ \E j \in 1 .. k : old[j] = x
    <3>1. CASE i \in 1 .. k
      BY <1>2, <2>1, <3>1
    <3>2. CASE i = k + 1
      BY <1>2, <2>1, <3>2
    <3> QED BY <1>2, <3>1, <3>2
  <2>2. ASSUME NEW i \in 1 .. k, old[i] = x
        PROVE  \E j \in 1 .. k + 1 : l[j] = x
    <3>1. i \in 1 .. k + 1 /\ l[i] = x
      BY <1>2, <2>2
    <3> QED BY <3>1
  <2>3. k + 1 \in 1 .. k + 1
    BY <1>2
  <2> QED BY <1>2, <2>1, <2>2, <2>3
<1>5. l # <<>>
  BY <1>2
<1> QED BY <1>1, <1>2, <1>3, <1>4, <1>5 DEF IsExtended, Increasing

LEMMA SingleIncreasing ==
    ASSUME NEW id \in Nat
    PROVE  IsExtended(<<id>>, <<>>, id)
BY DEF IsExtended, Increasing

\* What resting taker, under id, at the end of its level makes of b.
Rested(b, id, taker, level) ==
    [levels    |-> [b.levels EXCEPT ![taker.side] = With(b.levels[taker.side], taker.price, level)],
     locations |-> With(b.locations, id, [side |-> taker.side, price |-> taker.price]),
     orders    |-> [b.orders EXCEPT ![id] = taker]]

\* The level of side s and price p, empty when there is none.
LevelAt(b, s, p) == IF p \in DOMAIN b.levels[s] THEN b.levels[s][p] ELSE <<>>

\* The book c in which the order n of b has become taker and rests if something of it is left.
Finished(b, c, n, taker) ==
    /\ Book(c, n, {}) /\ OnlyTouches(b, c, n, taker)
    /\ DOMAIN c.locations = DOMAIN b.locations \cup (IF taker.remaining > 0 THEN {n} ELSE {})

LEMMA RestKeepsBook ==
    ASSUME NEW n \in Nat, NEW b, Book(b, n, {n}), n \in DOMAIN b.orders, n \notin DOMAIN b.locations,
           NEW taker \in Order, CanTrade(taker), ~ WouldMatch(b, taker),
           NEW level, IsExtended(level, LevelAt(b, taker.side, taker.price), n),
           NEW c, c = Rested(b, n, taker, level)
    PROVE  Finished(b, c, n, taker)
<1>1. PICK s, p : s = taker.side /\ p = taker.price
  OBVIOUS
<1>2. s \in Sides /\ p \in Nat
  BY <1>1 DEF Order
<1>3. PICK at : at = [side |-> s, price |-> p]
  OBVIOUS
<1>4. /\ DOMAIN b.levels = Sides
      /\ \A side \in Sides : /\ DOMAIN b.levels[side] \subseteq Nat
                             /\ b.levels[side] \in [DOMAIN b.levels[side] -> Seq(Nat)]
  BY DEF Book, Shaped
<1>5. PICK new : new = With(b.levels[s], p, level)
  OBVIOUS
<1>6. /\ DOMAIN new = DOMAIN b.levels[s] \cup {p}
      /\ new \in [DOMAIN new -> Seq(Nat)]
      /\ new[p] = level
      /\ \A q \in DOMAIN b.levels[s] : q # p => new[q] = b.levels[s][q]
  <2>1. level \in Seq(Nat)
    BY DEF IsExtended
  <2>2. new = [x \in DOMAIN b.levels[s] \cup {p} |-> IF x = p THEN level ELSE b.levels[s][x]]
    BY <1>5 DEF With
  <2>3. \A x \in DOMAIN b.levels[s] : b.levels[s][x] \in Seq(Nat)
    BY <1>2, <1>4
  <2> QED BY <2>1, <2>2, <2>3
<1>7. /\ c.levels = [b.levels EXCEPT ![s] = new] /\ c.locations = With(b.locations, n, at)
      /\ c.orders = [b.orders EXCEPT ![n] = taker]
      /\ c = [levels |-> c.levels, locations |-> c.locations, orders |-> c.orders]
  BY <1>1, <1>3, <1>5 DEF Rested
<1>8. /\ c.levels = [side \in Sides |-> c.levels[side]]
      /\ c.levels[s] = new
      /\ \A side \in Sides : side # s => c.levels[side] = b.levels[side]
  BY <1>2, <1>4, <1>7
<1>9. /\ DOMAIN c.locations = DOMAIN b.locations \cup {n}
      /\ c.locations[n] = at /\ \A o \in DOMAIN b.locations : c.locations[o] = b.locations[o]
      /\ c.locations \in [DOMAIN c.locations -> Place]
  <2>1. c.locations = [x \in DOMAIN b.locations \cup {n} |-> IF x = n THEN at ELSE b.locations[x]]
    BY <1>7 DEF With
  <2>2. at \in Place /\ \A o \in DOMAIN b.locations : b.locations[o] \in Place
    BY <1>2, <1>3 DEF Place, Book, Shaped
  <2> QED BY <2>1, <2>2
<1>10. /\ DOMAIN c.orders = DOMAIN b.orders /\ c.orders[n] = taker
       /\ \A o \in DOMAIN b.orders \ {n} : c.orders[o] = b.orders[o]
       /\ c.orders \in [DOMAIN c.orders -> Order]
  BY <1>7 DEF Book, Shaped
<1>11. Shaped(c, n)
  <2>1. \A side \in Sides : /\ DOMAIN c.levels[side] \subseteq Nat
                            /\ c.levels[side] \in [DOMAIN c.levels[side] -> Seq(Nat)]
    BY <1>2, <1>4, <1>6, <1>8
  <2>2. DOMAIN c.orders \subseteq 1 .. n
    BY <1>10 DEF Book, Shaped
  <2> QED BY <1>7, <1>8, <1>9, <1>10, <2>1, <2>2 DEF Shaped
<1>12. PICK old : old = LevelAt(b, s, p)
  OBVIOUS
<1>13. /\ level \in Seq(Nat) /\ level # <<>> /\ Increasing(level)
       /\ \A x : (\E i \in 1 .. Len(level) : level[i] = x) <=> x = n \/ \E i \in 1 .. Len(old) : old[i] = x
  BY <1>1, <1>12 DEF IsExtended
<1>14. LevelsHold(c)
  <2> SUFFICES ASSUME NEW side \in Sides, NEW q \in DOMAIN c.levels[side]
               PROVE  /\ c.levels[side][q] # <<>>
                      /\ Increasing(c.levels[side][q])
                      /\ \A i \in 1 .. Len(c.levels[side][q]) :
                            /\ c.levels[side][q][i] \in DOMAIN c.locations
                            /\ c.locations[c.levels[side][q][i]] = [side |-> side, price |-> q]
    BY DEF LevelsHold
  <2>1. CASE side = s /\ q = p
    <3>1. c.levels[side][q] = level
      BY <1>6, <1>8, <2>1
    <3>2. ASSUME NEW i \in 1 .. Len(level)
          PROVE  level[i] \in DOMAIN c.locations /\ c.locations[level[i]] = at
      <4>1. CASE level[i] = n
        BY <1>9, <4>1
      <4>2. CASE level[i] # n
        <5>1. PICK j \in 1 .. Len(old) : old[j] = level[i]
          BY <1>13, <4>2
        <5>2. p \in DOMAIN b.levels[s] /\ old = b.levels[s][p]
          <6>1. CASE p \notin DOMAIN b.levels[s]
            <7>1. old = <<>>
              BY <1>12, <6>1 DEF LevelAt
            <7> QED BY <5>1, <7>1
          <6>2. CASE p \in DOMAIN b.levels[s]
            BY <1>12, <6>2 DEF LevelAt
          <6> QED BY <6>1, <6>2
        <5>3. old[j] \in DOMAIN b.locations /\ b.locations[old[j]] = at
          BY <1>2, <1>3, <5>1, <5>2 DEF Book, LevelsHold
        <5> QED BY <1>9, <5>1, <5>3
      <4> QED BY <4>1, <4>2
    <3> QED BY <1>3, <1>13, <2>1, <3>1, <3>2
  <2>2. CASE ~ (side = s /\ q = p)
    <3>1. q \in DOMAIN b.levels[side] /\ c.levels[side][q] = b.levels[side][q]
      BY <1>6, <1>8, <2>2
    <3>2. PICK l : l = b.levels[side][q]
      OBVIOUS
    <3>3. /\ l # <<>> /\ Increasing(l)
          /\ \A i \in 1 .. Len(l) : l[i] \in DOMAIN b.locations /\ b.locations[l[i]] = [side |-> side, price |-> q]
      BY <3>1, <3>2 DEF Book, LevelsHold
    <3> QED BY <1>9, <3>1, <3>2, <3>3
  <2> QED BY <2>1, <2>2
<1>15. LocatedRest(c)
  <2> SUFFICES ASSUME NEW o \in DOMAIN c.locations
               PROVE  /\ o \in DOMAIN c.orders
                      /\ c.orders[o].side = c.locations[o].side
                      /\ c.orders[o].price = c.locations[o].price
                      /\ CanTrade(c.orders[o])
                      /\ InLevel(c, o, c.orders[o].side, c.orders[o].price)
    BY DEF LocatedRest
  <2>1. CASE o = n
    <3>1. c.orders[o] = taker /\ c.locations[o].side = s /\ c.locations[o].price = p
      BY <1>3, <1>9, <1>10, <2>1
    <3>2. p \in DOMAIN c.levels[s] /\ c.levels[s][p] = level /\ \E i \in 1 .. Len(level) : level[i] = n
      BY <1>6, <1>8, <1>13
    <3>3. InLevel(c, o, s, p)
      BY <2>1, <3>2 DEF InLevel
    <3> QED BY <1>1, <1>10, <2>1, <3>1, <3>3
  <2>2. CASE o # n
    <3>1. o \in DOMAIN b.locations /\ c.locations[o] = b.locations[o]
      BY <1>9, <2>2
    <3>2. PICK t, q : t = b.orders[o].side /\ q = b.orders[o].price
      OBVIOUS
    <3>3. /\ o \in DOMAIN b.orders /\ t \in Sides /\ InLevel(b, o, t, q) /\ CanTrade(b.orders[o])
          /\ b.locations[o] = [side |-> t, price |-> q]
      BY <3>1, <3>2, Resting
    <3>4. c.orders[o] = b.orders[o]
      BY <1>10, <2>2, <3>3
    <3>5. InLevel(c, o, t, q)
      <4>1. CASE t = s /\ q = p
        <5>1. c.levels[t][q] = level /\ q \in DOMAIN c.levels[t]
          BY <1>6, <1>8, <4>1
        <5>2. old = b.levels[t][q]
          BY <1>12, <3>3, <4>1 DEF InLevel, LevelAt
        <5>3. \E i \in 1 .. Len(level) : level[i] = o
          BY <1>13, <3>3, <5>2 DEF InLevel
        <5> QED BY <5>1, <5>3 DEF InLevel
      <4>2. CASE ~ (t = s /\ q = p)
        <5>1. c.levels[t][q] = b.levels[t][q] /\ q \in DOMAIN c.levels[t]
          BY <1>6, <1>8, <3>3, <4>2 DEF InLevel
        <5> QED BY <3>3, <5>1 DEF InLevel
      <4> QED BY <4>1, <4>2
    <3> QED BY <1>10, <3>1, <3>2, <3>3, <3>4, <3>5
  <2> QED BY <2>1, <2>2
<1>16. OthersDone(c, {})
  BY <1>9, <1>10 DEF OthersDone, Book
<1>17. NotCrossed(c)
  <2>1. PICK t : t = Opposite(s)
    OBVIOUS
  <2>2. t \in Sides /\ t # s
    BY <1>2, <2>1 DEF Opposite, Sides
  <2>3. ASSUME NEW q \in DOMAIN b.levels[t]
        PROVE  IF s = "Buy" THEN p < q ELSE q < p
    <3>1. PICK best : best = BestOppositePrice(b, s)
      OBVIOUS
    <3>2. /\ best \in DOMAIN b.levels[t]
          /\ s = "Buy" => best <= q
          /\ s # "Buy" => q <= best
      BY <1>2, <2>1, <2>3, <3>1, BestPrice
    <3>3. ~ PricesCross(s, best, p)
      BY <1>1, <2>1, <2>3, <3>1 DEF WouldMatch
    <3>4. best \in Nat /\ q \in Nat
      BY <1>4, <2>2, <3>2
    <3> QED BY <1>2, <3>2, <3>3, <3>4 DEF PricesCross
  <2>4. ASSUME NEW bid \in DOMAIN c.levels["Buy"], NEW ask \in DOMAIN c.levels["Sell"]
        PROVE  bid < ask
    <3>1. CASE s = "Buy"
      <4>1. t = "Sell" /\ ask \in DOMAIN b.levels["Sell"] /\ (bid \in DOMAIN b.levels["Buy"] \/ bid = p)
        BY <1>6, <1>8, <2>1, <2>2, <3>1 DEF Opposite
      <4> QED BY <2>3, <3>1, <4>1 DEF Book, NotCrossed
    <3>2. CASE s = "Sell"
      <4>1. t = "Buy" /\ bid \in DOMAIN b.levels["Buy"] /\ (ask \in DOMAIN b.levels["Sell"] \/ ask = p)
        BY <1>6, <1>8, <2>1, <2>2, <3>2 DEF Opposite
      <4> QED BY <2>3, <3>2, <4>1 DEF Book, NotCrossed
    <3> QED BY <1>2, <3>1, <3>2 DEF Sides
  <2> QED BY <2>4 DEF NotCrossed
<1>18. PricesBounded(c)
  <2> SUFFICES ASSUME NEW side \in Sides
               PROVE  \E top \in Nat : \A q \in DOMAIN c.levels[side] : q <= top
    BY DEF PricesBounded
  <2>1. PICK top \in Nat : \A q \in DOMAIN b.levels[side] : q <= top
    BY DEF Book, PricesBounded
  <2>2. top + p \in Nat /\ p <= top + p
    BY <1>2
  <2>3. \A q \in DOMAIN b.levels[side] : q <= top + p
    BY <1>2, <1>4, <2>1
  <2>4. \A q \in DOMAIN c.levels[side] : q \in DOMAIN b.levels[side] \/ q = p
    BY <1>6, <1>8
  <2> QED BY <2>2, <2>3, <2>4
<1>19. taker.remaining > 0
  BY DEF CanTrade
<1> QED BY <1>9, <1>10, <1>11, <1>14, <1>15, <1>16, <1>17, <1>18, <1>19 DEF Book, OnlyTouches, Finished

\* An order of which nothing is left is only recorded.
LEMMA FinishKeepsBook ==
    ASSUME NEW n, NEW b, Book(b, n, {n}), n \in DOMAIN b.orders, n \notin DOMAIN b.locations,
           NEW taker \in Order, ~ (taker.remaining > 0),
           NEW c, c = [levels |-> b.levels, locations |-> b.locations, orders |-> [b.orders EXCEPT ![n] = taker]]
    PROVE  Finished(b, c, n, taker)
<1>1. /\ c.levels = b.levels /\ c.locations = b.locations
      /\ DOMAIN c.orders = DOMAIN b.orders /\ c.orders[n] = taker
      /\ \A o \in DOMAIN b.orders \ {n} : c.orders[o] = b.orders[o]
      /\ c.orders \in [DOMAIN c.orders -> Order]
      /\ c = [levels |-> c.levels, locations |-> c.locations, orders |-> c.orders]
  BY DEF Book, Shaped
<1>2. Shaped(c, n)
  BY <1>1 DEF Book, Shaped
<1>3. LevelsHold(c) /\ NotCrossed(c) /\ PricesBounded(c)
  BY <1>1 DEF Book, LevelsHold, NotCrossed, PricesBounded
<1>4. LocatedRest(c)
  <2>1. \A o \in DOMAIN b.locations : o # n /\ c.orders[o] = b.orders[o]
    BY <1>1 DEF Book, LocatedRest
  <2>2. ASSUME NEW o \in DOMAIN b.locations
        PROVE  /\ o \in DOMAIN b.orders /\ b.orders[o].side = b.locations[o].side
               /\ b.orders[o].price = b.locations[o].price /\ CanTrade(b.orders[o])
               /\ InLevel(b, o, b.orders[o].side, b.orders[o].price)
    BY DEF Book, LocatedRest
  <2>3. \A o, x, y : InLevel(c, o, x, y) <=> InLevel(b, o, x, y)
    BY <1>1 DEF InLevel
  <2> QED BY <1>1, <2>1, <2>2, <2>3 DEF LocatedRest
<1>5. OthersDone(c, {})
  BY <1>1 DEF Book, OthersDone, Done
<1> QED BY <1>1, <1>2, <1>3, <1>4, <1>5 DEF Book, OnlyTouches, Finished

\* The next order is recorded.
Added(b, c, id, order, still) ==
    /\ Book(c, id, still)
    /\ c.locations = b.locations /\ id \notin DOMAIN b.locations /\ id \notin DOMAIN b.orders
    /\ DOMAIN c.orders = DOMAIN b.orders \cup {id} /\ c.orders[id] = order
    /\ \A o \in DOMAIN b.orders : c.orders[o] = b.orders[o]

LEMMA NewOrderKeepsBook ==
    ASSUME NEW n \in Nat, NEW b, Book(b, n, {}), NEW order \in Order, NEW id \in Nat, id = n + 1,
           NEW still, Done(order) \/ id \in still,
           NEW c, c = [levels |-> b.levels, locations |-> b.locations,
                       orders |-> With(b.orders, id, order)]
    PROVE  Added(b, c, id, order, still)
<1>2. DOMAIN b.orders \subseteq 1 .. n /\ id \notin DOMAIN b.orders /\ id \notin DOMAIN b.locations
  BY DEF Book, Shaped, LocatedRest
<1>3. c.orders = [x \in DOMAIN b.orders \cup {id} |-> IF x = id THEN order ELSE b.orders[x]]
  BY DEF With
<1>4. b.orders \in [DOMAIN b.orders -> Order]
  BY DEF Book, Shaped
<1>5. /\ c.levels = b.levels /\ c.locations = b.locations
      /\ DOMAIN c.orders = DOMAIN b.orders \cup {id} /\ c.orders[id] = order
      /\ \A o \in DOMAIN b.orders : c.orders[o] = b.orders[o]
      /\ c.orders \in [DOMAIN c.orders -> Order]
      /\ c = [levels |-> c.levels, locations |-> c.locations, orders |-> c.orders]
  <2>1. PICK new : new = [x \in DOMAIN b.orders \cup {id} |-> IF x = id THEN order ELSE b.orders[x]]
    OBVIOUS
  <2>2. /\ DOMAIN new = DOMAIN b.orders \cup {id} /\ new[id] = order
        /\ \A o \in DOMAIN b.orders : new[o] = b.orders[o]
    BY <1>2, <2>1
  <2>3. new \in [DOMAIN new -> Order]
    BY <1>4, <2>1
  <2>4. c = [levels |-> b.levels, locations |-> b.locations, orders |-> new]
    BY <1>3, <2>1
  <2> QED BY <2>2, <2>3, <2>4
<1>6. Shaped(c, id)
  <2>1. DOMAIN c.orders \subseteq 1 .. id
    BY <1>2, <1>5
  <2> QED BY <1>5, <2>1 DEF Book, Shaped
<1>7. LevelsHold(c) /\ NotCrossed(c) /\ PricesBounded(c)
  BY <1>5 DEF Book, LevelsHold, NotCrossed, PricesBounded
<1>8. LocatedRest(c)
  <2>1. ASSUME NEW o \in DOMAIN b.locations
        PROVE  /\ o \in DOMAIN b.orders /\ b.orders[o].side = b.locations[o].side
               /\ b.orders[o].price = b.locations[o].price /\ CanTrade(b.orders[o])
               /\ InLevel(b, o, b.orders[o].side, b.orders[o].price)
    BY DEF Book, LocatedRest
  <2>2. \A o, x, y : InLevel(c, o, x, y) <=> InLevel(b, o, x, y)
    BY <1>5 DEF InLevel
  <2> QED BY <1>5, <2>1, <2>2 DEF LocatedRest
<1>9. OthersDone(c, still)
  BY <1>5 DEF Book, OthersDone
<1> QED BY <1>2, <1>5, <1>6, <1>7, <1>8, <1>9 DEF Book, Added

-----------------------------------------------------------------------------
(* A submission as a whole.                                                *)

\* The taker when left was not matched: an immediate-or-cancel order keeps nothing of it.
TakerFits(taker, order, left) ==
    /\ taker \in Order /\ SameTerms(taker, order) /\ taker.remaining \in Nat
    /\ taker.remaining > 0 => CanTrade(taker) /\ taker.remaining = left
    /\ taker.status = "Filled" => left = 0
    /\ taker.remaining <= left

LEMMA TakerCases ==
    ASSUME NEW order \in Order, order.tif # "Fok", NEW left \in Nat, left <= order.size,
           NEW trades, NEW taker, taker = TakerAfter(order, left, trades # <<>>)
    PROVE  TakerFits(taker, order, left)
<1>1. PICK killed \in BOOLEAN : killed = (order.tif = "Ioc" /\ left > 0)
  OBVIOUS
<1>2. PICK rest \in Nat : rest = IF killed THEN 0 ELSE left
  OBVIOUS
<1>3. PICK st : st = IF left = 0 THEN "Filled"
                    ELSE IF trades # <<>> THEN "PartiallyFilled"
                    ELSE IF killed THEN "Cancelled" ELSE "Open"
  OBVIOUS
<1>4. taker = [order EXCEPT !.remaining = rest, !.status = st]
  BY <1>1, <1>2, <1>3 DEF TakerAfter
<1>5. st \in OrderStatuses
  BY <1>3 DEF OrderStatuses
<1>6. /\ taker \in Order /\ SameTerms(taker, order) /\ taker.remaining = rest /\ taker.status = st
      /\ taker.size = order.size /\ taker.tif = order.tif
  BY <1>4, <1>5 DEF Order, SameTerms
<1>7. order.tif \in {"Gtc", "Ioc", "Fok"} /\ order.size \in Nat
  BY DEF Order, TimesInForce
<1>8. ASSUME rest > 0
      PROVE  CanTrade(taker) /\ rest = left
  <2>1. ~ killed /\ rest = left
    BY <1>2, <1>8
  <2>2. order.tif = "Gtc"
    BY <1>1, <1>7, <1>8, <2>1
  <2>3. st \in {"Open", "PartiallyFilled"}
    BY <1>3, <1>8, <2>1
  <2> QED BY <1>6, <1>7, <1>8, <2>1, <2>2, <2>3 DEF CanTrade
<1>9. st = "Filled" => left = 0
  BY <1>3
<1> QED BY <1>2, <1>6, <1>8, <1>9 DEF TakerFits

\* What a submission leaves of the orders that were there.
Kept(b, c, id) ==
    /\ DOMAIN b.orders \subseteq DOMAIN c.orders /\ DOMAIN c.orders \subseteq DOMAIN b.orders \cup {id}
    /\ DOMAIN c.locations \subseteq DOMAIN b.locations \cup {id}
    /\ \A o \in DOMAIN b.orders :
          SameTerms(c.orders[o], b.orders[o]) /\ c.orders[o].remaining <= b.orders[o].remaining
    /\ \A o \in DOMAIN b.orders \ DOMAIN b.locations : c.orders[o] = b.orders[o]
    /\ \A o \in DOMAIN b.locations \ DOMAIN c.locations : c.orders[o].status = "Filled"

\* What it records of the order itself.
Recorded(res, id, order) ==
    /\ res.accepted \in BOOLEAN
    /\ res.accepted => id \in DOMAIN res.book.orders
    /\ id \in DOMAIN res.book.orders => SameTerms(res.book.orders[id], order)
    /\ id \in DOMAIN res.book.locations => res.accepted

\* What it adds to the trades in q.
Counted(b, res, id, order, q) ==
    /\ \A o \in DOMAIN b.orders :
          TradedIn(q \o res.trades, o) =
             TradedIn(q, o) + (b.orders[o].remaining - res.book.orders[o].remaining)
    /\ id \in DOMAIN res.book.orders =>
          \E k \in 0 .. order.size :
             /\ TradedIn(q \o res.trades, id) = TradedIn(q, id) + k
             /\ id \in DOMAIN res.book.locations \/ res.book.orders[id].status = "Filled"
                   => res.book.orders[id].remaining = order.size - k

Submitted(b, res, id, order, q) ==
    /\ Book(res.book, id, {}) /\ Kept(b, res.book, id) /\ Recorded(res, id, order)
    /\ Counted(b, res, id, order, q)
    /\ TradesFit(b, res.book, id, res.trades) /\ MakersFit(b, res.makers)

\* The larger number does not matter to a book.
LEMMA BookGrows ==
    ASSUME NEW n \in Nat, NEW open, NEW b, Book(b, n, open)
    PROVE  Book(b, n + 1, open)
<1>1. Shaped(b, n + 1)
  BY DEF Book, Shaped
<1> QED BY <1>1 DEF Book

LEMMA RemainingIsNat ==
    ASSUME NEW n, NEW open, NEW b, Book(b, n, open), NEW o \in DOMAIN b.orders
    PROVE  /\ b.orders[o] \in Order /\ b.orders[o].remaining \in Nat /\ b.orders[o].size \in Nat
           /\ SameTerms(b.orders[o], b.orders[o]) /\ b.orders[o].remaining <= b.orders[o].remaining
<1>1. b.orders[o] \in Order
  BY DEF Book, Shaped
<1> QED BY <1>1 DEF Order, SameTerms

LEMMA KeptSame ==
    ASSUME NEW n, NEW open, NEW b, Book(b, n, open), NEW id, NEW c, c.locations = b.locations,
           DOMAIN b.orders \subseteq DOMAIN c.orders, DOMAIN c.orders \subseteq DOMAIN b.orders \cup {id},
           \A o \in DOMAIN b.orders : c.orders[o] = b.orders[o]
    PROVE  Kept(b, c, id)
<1>1. \A o \in DOMAIN b.orders :
         SameTerms(b.orders[o], b.orders[o]) /\ b.orders[o].remaining <= b.orders[o].remaining
  BY RemainingIsNat
<1> QED BY <1>1 DEF Kept

\* Refused orders.
LEMMA RefusalFacts ==
    ASSUME NEW n \in Nat, NEW b, Book(b, n, {}), NEW id, id = n + 1, NEW order \in Order,
           NEW q \in Seq(Trade), NEW res, res.accepted = FALSE, res.makers = <<>>, res.trades = <<>>,
           \/ res.book = b
           \/ /\ Book(res.book, id, {}) /\ res.book.locations = b.locations
              /\ DOMAIN res.book.orders = DOMAIN b.orders \cup {id}
              /\ \A o \in DOMAIN b.orders : res.book.orders[o] = b.orders[o]
              /\ SameTerms(res.book.orders[id], order) /\ res.book.orders[id].status # "Filled"
    PROVE  Submitted(b, res, id, order, q)
<1>1. PICK c : c = res.book
  OBVIOUS
<1>2. Book(c, id, {}) /\ c.locations = b.locations /\ \A o \in DOMAIN b.orders : c.orders[o] = b.orders[o]
  BY <1>1, BookGrows
<1>3. DOMAIN b.orders \subseteq DOMAIN c.orders /\ DOMAIN c.orders \subseteq DOMAIN b.orders \cup {id}
  BY <1>1
<1>4. Kept(b, c, id)
  BY <1>2, <1>3, KeptSame
<1>5. id \notin DOMAIN b.orders /\ id \notin DOMAIN b.locations
  BY DEF Book, Shaped, LocatedRest
<1>6. Recorded(res, id, order)
  BY <1>1, <1>2, <1>5 DEF Recorded
<1>7. q \o res.trades = q
  OBVIOUS
<1>8. order.size \in Nat
  BY DEF Order
<1>9. \A o : TradedIn(q, o) \in Nat
  BY TradedIsNat
<1>10. \A o \in DOMAIN b.orders :
          TradedIn(q, o) = TradedIn(q, o) + (b.orders[o].remaining - c.orders[o].remaining)
  <2>1. \A o \in DOMAIN b.orders : b.orders[o].remaining \in Nat
    BY RemainingIsNat
  <2> QED BY <1>2, <1>9, <2>1
<1>11. ASSUME id \in DOMAIN c.orders
       PROVE  c.orders[id].status # "Filled" /\ id \notin DOMAIN c.locations
  BY <1>1, <1>2, <1>5, <1>11
<1>12. Counted(b, res, id, order, q)
  <2>1. 0 \in 0 .. order.size /\ TradedIn(q, id) = TradedIn(q, id) + 0
    BY <1>8, <1>9
  <2> QED BY <1>1, <1>7, <1>10, <1>11, <2>1 DEF Counted
<1>13. TradesFit(b, c, id, <<>>) /\ MakersFit(b, <<>>)
  BY DEF TradesFit, MakersFit
<1> QED BY <1>1, <1>2, <1>4, <1>6, <1>12, <1>13 DEF Submitted

\* The taker, as it is at the end, is written into the run's book.
FinalBook(b, id, taker) ==
    [(IF taker.remaining > 0 THEN RestOrder(b, id, taker) ELSE b) EXCEPT !.orders[id] = taker]

LEMMA FinishFacts ==
    ASSUME NEW n \in Nat, NEW b, NEW order, Taking(b, n, order, n), order.tif # "Fok",
           NEW run, RunOK(run, b, n, order, n), ~ CanMatch(run),
           NEW taker, taker = TakerAfter(order, run.remaining, run.trades # <<>>),
           NEW c, c = FinalBook(run.book, n, taker)
    PROVE  Finished(run.book, c, n, taker)
<1>1. PICK d : d = run.book
  OBVIOUS
<1>2. /\ Book(d, n, {n}) /\ run.remaining \in Nat /\ run.remaining <= order.size /\ run.taker = order
      /\ Matched(b, d) /\ order \in Order
  BY <1>1 DEF RunOK, Taking
<1>3. /\ taker \in Order /\ SameTerms(taker, order) /\ taker.remaining \in Nat
      /\ taker.remaining > 0 => CanTrade(taker) /\ taker.remaining = run.remaining
  <2>1. TakerFits(taker, order, run.remaining)
    BY <1>2, TakerCases
  <2> QED BY <2>1 DEF TakerFits
<1>4. n \in DOMAIN d.orders /\ n \notin DOMAIN d.locations
  BY <1>2 DEF Matched, Taking
<1>5. d = [levels |-> d.levels, locations |-> d.locations, orders |-> d.orders]
  BY <1>2 DEF Book, Shaped
<1>6. CASE taker.remaining > 0
  <2>1. CanTrade(taker) /\ run.remaining > 0
    BY <1>3, <1>6
  <2>2. ~ WouldMatch(d, taker)
    <3>1. ~ WouldMatch(d, order)
      BY <1>1, <1>2, <2>1 DEF CanMatch
    <3> QED BY <1>3, <3>1 DEF SameTerms, WouldMatch
  <2>3. PICK s, p : s = taker.side /\ p = taker.price
    OBVIOUS
  <2>4. PICK old : old = LevelAt(d, s, p)
    OBVIOUS
  <2>5. PICK level : level = IF p \in DOMAIN d.levels[s] THEN Append(d.levels[s][p], n) ELSE <<n>>
    OBVIOUS
  <2>6. IsExtended(level, old, n)
    <3>1. CASE p \in DOMAIN d.levels[s]
      <4>1. old = d.levels[s][p] /\ level = Append(old, n)
        BY <2>4, <2>5, <3>1 DEF LevelAt
      <4>2. s \in Sides
        BY <1>3, <2>3 DEF Order
      <4>3. /\ old \in Seq(Nat) /\ Increasing(old)
            /\ \A i \in 1 .. Len(old) : old[i] \in DOMAIN d.locations
        BY <1>2, <3>1, <4>1, <4>2 DEF Book, Shaped, LevelsHold
      <4>4. \A o \in DOMAIN d.locations : o \in 1 .. n /\ o # n
        BY <1>2, <1>4 DEF Book, LocatedRest, Shaped
      <4>5. \A i \in 1 .. Len(old) : old[i] < n
        BY <4>3, <4>4
      <4> QED BY <4>1, <4>3, <4>5, AppendIncreasing
    <3>2. CASE p \notin DOMAIN d.levels[s]
      <4>1. old = <<>> /\ level = <<n>>
        BY <2>4, <2>5, <3>2 DEF LevelAt
      <4> QED BY <4>1, SingleIncreasing
    <3> QED BY <3>1, <3>2
  <2>7. PICK rested : rested =
                 [levels |-> [d.levels EXCEPT ![s] = With(d.levels[s], p, level)],
                  locations |-> With(d.locations, n, [side |-> s, price |-> p]),
                  orders |-> d.orders]
    OBVIOUS
  <2>11. RestOrder(d, n, taker) = rested
    BY <2>3, <2>5, <2>7 DEF RestOrder
  <2>8. c = Rested(d, n, taker, level)
    <3>0. c = [rested EXCEPT !.orders[n] = taker]
      BY <1>1, <1>6, <2>11 DEF FinalBook
    <3>1. c = [levels |-> rested.levels, locations |-> rested.locations,
               orders |-> [rested.orders EXCEPT ![n] = taker]]
      BY <2>7, <3>0
    <3> QED BY <2>3, <2>7, <3>1 DEF Rested
  <2>9. IsExtended(level, LevelAt(d, taker.side, taker.price), n)
    BY <2>3, <2>4, <2>6
  <2>10. Finished(d, c, n, taker)
    BY <1>2, <1>3, <1>4, <2>1, <2>2, <2>8, <2>9, RestKeepsBook
  <2> QED BY <1>1, <2>10
<1>7. CASE ~ (taker.remaining > 0)
  <2>0. c = [d EXCEPT !.orders[n] = taker]
    BY <1>1, <1>7 DEF FinalBook
  <2>1. c = [levels |-> d.levels, locations |-> d.locations, orders |-> [d.orders EXCEPT ![n] = taker]]
    BY <1>5, <2>0
  <2> QED BY <1>1, <1>2, <1>3, <1>4, <1>7, <2>1, FinishKeepsBook
<1> QED BY <1>6, <1>7

\* Matched orders: b is the book before, b1 the one the run starts on.
LEMMA MatchedFacts ==
    ASSUME NEW b, NEW m \in Nat, Book(b, m, {}), NEW n \in Nat, n = m + 1, NEW order \in Order, NEW q \in Seq(Trade),
           NEW b1, Taking(b1, n, order, n), b1.locations = b.locations,
           DOMAIN b1.orders = DOMAIN b.orders \cup {n},
           \A o \in DOMAIN b.orders : b1.orders[o] = b.orders[o],
           NEW run, RunOK(run, b1, n, order, n), Accounted(run, b1, n, order, q), 
           order.tif # "Fok", NEW taker, taker = TakerAfter(order, run.remaining, run.trades # <<>>),
           NEW c, Finished(run.book, c, n, taker),
           NEW res, res = [book |-> c, accepted |-> TRUE, makers |-> run.makers, trades |-> run.trades]
    PROVE  Submitted(b, res, n, order, q)
<1>1. PICK d : d = run.book
  OBVIOUS
<1>12. /\ Book(c, n, {}) /\ OnlyTouches(d, c, n, taker)
       /\ DOMAIN c.locations = DOMAIN d.locations \cup (IF taker.remaining > 0 THEN {n} ELSE {})
  BY <1>1 DEF Finished
<1>2. /\ run.remaining \in Nat /\ run.remaining <= order.size /\ Matched(b1, d)
      /\ TradesFit(b1, d, n, run.trades) /\ MakersFit(b1, run.makers)
  BY <1>1 DEF RunOK
<1>3. n \notin DOMAIN b.orders /\ n \notin DOMAIN b.locations
  BY DEF Book, Shaped, LocatedRest
<1>4. /\ taker \in Order /\ SameTerms(taker, order) /\ taker.remaining \in Nat
      /\ taker.remaining > 0 => CanTrade(taker) /\ taker.remaining = run.remaining
      /\ taker.status = "Filled" => run.remaining = 0
      /\ taker.remaining <= run.remaining
  <2>1. TakerFits(taker, order, run.remaining)
    BY <1>2, TakerCases
  <2> QED BY <2>1 DEF TakerFits
<1>5. /\ DOMAIN c.orders = DOMAIN b.orders \cup {n} /\ c.orders[n] = taker
      /\ \A o \in DOMAIN b.orders : c.orders[o] = d.orders[o]
  BY <1>2, <1>3, <1>12 DEF OnlyTouches, Matched
<1>6. /\ DOMAIN c.locations \subseteq DOMAIN b.locations \cup {n}
      /\ DOMAIN d.locations \subseteq DOMAIN c.locations
      /\ \A o \in DOMAIN b.locations : o \in DOMAIN b.orders
  BY <1>2, <1>12 DEF Matched, Book, LocatedRest
<1>7. Kept(b, c, n)
  <2>1. \A o \in DOMAIN b.orders :
           SameTerms(c.orders[o], b.orders[o]) /\ c.orders[o].remaining <= b.orders[o].remaining
    BY <1>2, <1>5 DEF Matched
  <2>2. \A o \in DOMAIN b.orders \ DOMAIN b.locations : c.orders[o] = b.orders[o]
    BY <1>2, <1>5 DEF Matched
  <2>3. \A o \in DOMAIN b.locations \ DOMAIN c.locations : c.orders[o].status = "Filled"
    BY <1>2, <1>5, <1>6 DEF Matched
  <2> QED BY <1>5, <1>6, <2>1, <2>2, <2>3 DEF Kept
<1>8. Recorded(res, n, order)
  BY <1>4, <1>5 DEF Recorded
<1>9. Counted(b, res, n, order, q)
  <2>1. ASSUME NEW o \in DOMAIN b.orders
        PROVE  TradedIn(q \o run.trades, o) = TradedIn(q, o) + (b.orders[o].remaining - c.orders[o].remaining)
    <3>1. o \in DOMAIN b1.orders /\ o # n
      BY <1>3
    <3> QED BY <1>1, <1>5, <3>1 DEF Accounted
  <2>2. PICK k : k = order.size - run.remaining
    OBVIOUS
  <2>3. order.size \in Nat
    BY DEF Order
  <2>4. k \in 0 .. order.size
    BY <1>2, <2>2, <2>3
  <2>5. TradedIn(q \o run.trades, n) = TradedIn(q, n) + k
    BY <2>2 DEF Accounted, Taking
  <2>6. ASSUME n \in DOMAIN c.locations \/ taker.status = "Filled"
        PROVE  taker.remaining = order.size - k
    <3>1. CASE taker.remaining > 0
      BY <1>2, <1>4, <2>2, <2>3, <3>1
    <3>2. CASE ~ (taker.remaining > 0)
      <4>1. n \notin DOMAIN c.locations
        BY <1>2, <1>3, <1>12, <3>2 DEF Matched
      <4>2. run.remaining = 0
        BY <1>4, <2>6, <4>1
      <4>3. taker.remaining = 0 /\ order.size - k = 0
        BY <1>2, <1>4, <2>2, <2>3, <3>2, <4>2
      <4> QED BY <4>3
    <3> QED BY <3>1, <3>2
  <2> QED BY <1>5, <2>1, <2>4, <2>5, <2>6 DEF Counted
<1>10. MakersFit(b, run.makers)
  BY <1>2 DEF MakersFit
<1>11. TradesFit(b, c, n, run.trades)
  <2>1. ASSUME NEW i \in 1 .. Len(run.trades), NEW o \in DOMAIN b.locations, Beats(b, o, run.trades[i].maker)
        PROVE  c.orders[o].status = "Filled"
    <3>1. run.trades[i].maker \in DOMAIN b.locations
      BY <1>2 DEF TradesFit
    <3>2. Beats(b1, o, run.trades[i].maker)
      <4>1. b1.orders[o] = b.orders[o] /\ b1.orders[run.trades[i].maker] = b.orders[run.trades[i].maker]
        BY <1>6, <3>1
      <4> QED BY <2>1, <4>1 DEF Beats
    <3>3. d.orders[o].status = "Filled"
      BY <1>2, <3>2 DEF TradesFit
    <3> QED BY <1>5, <1>6, <3>3
  <2> QED BY <1>2, <2>1 DEF TradesFit
<1> QED BY <1>12, <1>7, <1>8, <1>9, <1>10, <1>11 DEF Submitted

LEMMA SubmitFacts ==
    ASSUME NEW m \in Nat, NEW b, Book(b, m, {}), NEW n \in Nat, n = m + 1, NEW order \in Order,
           order.remaining = order.size, order.status = "New", NEW q \in Seq(Trade)
    PROVE  Submitted(b, BookSubmit(b, n, order), n, order, q)
<1>1. PICK res : res = BookSubmit(b, n, order)
  OBVIOUS
<1>2. b = [levels |-> b.levels, locations |-> b.locations, orders |-> b.orders]
  BY DEF Book, Shaped
<1>3. CASE order.price = 0 \/ order.size = 0
  <2>1. res = [book |-> b, accepted |-> FALSE, makers |-> <<>>, trades |-> <<>>]
    BY <1>1, <1>3 DEF BookSubmit
  <2>2. res.book = b /\ res.accepted = FALSE /\ res.makers = <<>> /\ res.trades = <<>>
    BY <2>1
  <2> QED BY <1>1, <2>2, RefusalFacts
<1>4. CASE /\ ~ (order.price = 0 \/ order.size = 0)
           /\ \/ order.tif = "Fok"
              \/ order.postOnly /\ WouldMatch(b, order)
              \/ WouldSelfTrade(b, order)
  <2>1. PICK no : no = Rejected(order)
    OBVIOUS
  <2>2. no \in Order /\ SameTerms(no, order) /\ no.status = "Rejected"
    BY <2>1 DEF Rejected, Order, OrderStatuses, SameTerms
  <2>3. PICK c : c = [levels |-> b.levels, locations |-> b.locations, orders |-> With(b.orders, n, no)]
    OBVIOUS
  <2>4. res = [book |-> c, accepted |-> FALSE, makers |-> <<>>, trades |-> <<>>]
    <3>1. c = [b EXCEPT !.orders = With(b.orders, n, no)]
      BY <1>2, <2>3
    <3> QED BY <1>1, <1>4, <2>1, <3>1 DEF BookSubmit
  <2>5. Done(no)
    BY <2>2 DEF Done
  <2>6. PICK still : still = {}
    OBVIOUS
  <2>7. /\ Book(c, n, still) /\ c.locations = b.locations
        /\ DOMAIN c.orders = DOMAIN b.orders \cup {n} /\ c.orders[n] = no
        /\ \A o \in DOMAIN b.orders : c.orders[o] = b.orders[o]
    <3>1. Added(b, c, n, no, still)
      BY <2>2, <2>3, <2>5, NewOrderKeepsBook
    <3> QED BY <3>1 DEF Added
  <2>8. res.book = c /\ res.accepted = FALSE /\ res.makers = <<>> /\ res.trades = <<>>
    BY <2>4
  <2>9. /\ Book(c, n, {}) /\ SameTerms(c.orders[n], order) /\ c.orders[n].status # "Filled"
    BY <2>2, <2>6, <2>7
  <2> QED BY <1>1, <2>7, <2>8, <2>9, RefusalFacts
<1>5. CASE /\ ~ (order.price = 0 \/ order.size = 0)
           /\ ~ \/ order.tif = "Fok"
                \/ order.postOnly /\ WouldMatch(b, order)
                \/ WouldSelfTrade(b, order)
  <2>1. PICK open : open = [order EXCEPT !.status = "Open"]
    OBVIOUS
  <2>2. open \in Order
    BY <2>1 DEF Order, OrderStatuses
  <2>3. PICK b1 : b1 = [levels |-> b.levels, locations |-> b.locations, orders |-> With(b.orders, n, open)]
    OBVIOUS
  <2>4. b1 = [b EXCEPT !.orders = With(b.orders, n, open)]
    BY <1>2, <2>3
  <2>5. PICK still : still = {n}
    OBVIOUS
  <2>6. /\ Book(b1, n, still) /\ b1.locations = b.locations /\ n \notin DOMAIN b.locations
        /\ DOMAIN b1.orders = DOMAIN b.orders \cup {n}
        /\ \A o \in DOMAIN b.orders : b1.orders[o] = b.orders[o]
    <3>1. n \in still
      BY <2>5
    <3>2. Added(b, b1, n, open, still)
      BY <2>2, <2>3, <3>1, NewOrderKeepsBook
    <3> QED BY <3>2 DEF Added
  <2>7. Taking(b1, n, order, n)
    <3>1. order.size \in Nat /\ order.size > 0
      BY <1>5 DEF Order
    <3> QED BY <2>5, <2>6, <3>1 DEF Taking
  <2>8. PICK run : /\ run = MatchAll(b1, n, order)
                   /\ RunOK(run, b1, n, order, n) /\ Accounted(run, b1, n, order, q)
                   /\ ~ CanMatch(run)
    BY <2>7, MatchAllFacts
  <2>9. PICK taker : taker = TakerAfter(order, run.remaining, run.trades # <<>>)
    OBVIOUS
  <2>10. PICK c : c = FinalBook(run.book, n, taker)
    OBVIOUS
  <2>12. res = [book |-> c, accepted |-> TRUE, makers |-> run.makers, trades |-> run.trades]
    BY <1>1, <1>5, <2>1, <2>4, <2>8, <2>9, <2>10 DEF BookSubmit, FinalBook
  <2>13. order.tif # "Fok"
    BY <1>5
  <2>14. Finished(run.book, c, n, taker)
    BY <2>7, <2>8, <2>9, <2>10, <2>13, FinishFacts
  <2> QED BY <1>1, <2>6, <2>7, <2>8, <2>9, <2>12, <2>13, <2>14, MatchedFacts
<1> QED BY <1>3, <1>4, <1>5

-----------------------------------------------------------------------------
(* Several orders cancelled, one after the other.                          *)

IsCancelFold(it, b, S) ==
    it = [s \in SUBSET S |-> IF s = {} THEN b ELSE BookCancel(it[s \ {AnyOf(s)}], AnyOf(s))]

LEMMA CancelFoldExists ==
    ASSUME NEW S, IsFiniteSet(S), NEW b
    PROVE  \E it : IsCancelFold(it, b, S)
<1> DEFINE Upto(n) == {s \in SUBSET S : Cardinality(s) <= n}
           Body(it, s) == IF s = {} THEN b ELSE BookCancel(it[s \ {AnyOf(s)}], AnyOf(s))
           Good == {n \in Nat : \E it : it = [s \in Upto(n) |-> Body(it, s)]}
<1>1. \A T \in SUBSET S : IsFiniteSet(T) /\ Cardinality(T) \in Nat
  BY FS_Subset, FS_CardinalityType
<1>2. ASSUME NEW T \in SUBSET S, T # {}
      PROVE  /\ AnyOf(T) \in T /\ T \ {AnyOf(T)} \in SUBSET S
             /\ Cardinality(T \ {AnyOf(T)}) = Cardinality(T) - 1
  <2>1. AnyOf(T) \in T
    BY <1>2 DEF AnyOf
  <2> QED BY <1>1, <2>1, FS_RemoveElement
<1>3. 0 \in Good
  <2> DEFINE g == [s \in Upto(0) |-> b]
  <2>1. \A s \in Upto(0) : s = {}
    BY <1>1, FS_EmptySet
  <2>2. g = [s \in Upto(0) |-> Body(g, s)]
    BY <2>1
  <2>3. \E it : it = [s \in Upto(0) |-> Body(it, s)]
    BY <2>2
  <2> QED BY <2>3
<1>4. ASSUME NEW n \in Nat, n \in Good
      PROVE  n + 1 \in Good
  <2>1. PICK h : h = [s \in Upto(n) |-> Body(h, s)]
    BY <1>4
  <2> DEFINE g == [s \in Upto(n + 1) |-> IF s \in Upto(n) THEN h[s] ELSE Body(h, s)]
  <2>2. ASSUME NEW s \in Upto(n + 1), s # {}
        PROVE  s \ {AnyOf(s)} \in Upto(n) /\ s \ {AnyOf(s)} \in Upto(n + 1)
    BY <1>1, <1>2, <2>2
  <2>3. \A s \in Upto(n + 1) : g[s] = Body(g, s)
    BY <2>1, <2>2
  <2>4. g = [s \in Upto(n + 1) |-> Body(g, s)]
    BY <2>3, Zenon
  <2> HIDE DEF Body, Upto, g
  <2>5. \E it : it = [s \in Upto(n + 1) |-> Body(it, s)]
    BY <2>4
  <2> QED BY <2>5
<1>5. \A n \in Nat : n \in Good
  <2> HIDE DEF Good
  <2> QED BY <1>3, <1>4, EveryNumber
<1>6. PICK it : it = [s \in Upto(Cardinality(S)) |-> Body(it, s)]
  BY <1>1, <1>5
<1>7. Upto(Cardinality(S)) = SUBSET S
  BY <1>1, FS_Subset
<1> QED BY <1>6, <1>7 DEF IsCancelFold

LEMMA CancelEachIsFold ==
    ASSUME NEW S, IsFiniteSet(S), NEW b
    PROVE  \E it : IsCancelFold(it, b, S) /\ CancelEach(b, S) = it[S]
<1> DEFINE it == CHOOSE it : IsCancelFold(it, b, S)
<1>1. IsCancelFold(it, b, S)
  BY CancelFoldExists
<1>2. CancelEach(b, S) = it[S]
  BY DEF CancelEach, FoldSet, MapThenFoldSet, IsCancelFold, AnyOf
<1> QED BY <1>1, <1>2

CancelledOrder(o) == [o EXCEPT !.status = "Cancelled", !.remaining = 0]

\* The book c after the orders of T are cancelled in b.
AllCancelled(b, c, T, n) ==
    /\ Book(c, n, {})
    /\ DOMAIN c.locations = DOMAIN b.locations \ T
    /\ DOMAIN c.orders = DOMAIN b.orders
    /\ \A o \in T : c.orders[o] = CancelledOrder(b.orders[o])
    /\ \A o \in DOMAIN b.orders \ T : c.orders[o] = b.orders[o]

LEMMA OneMoreCancelled ==
    ASSUME NEW n, NEW b, NEW T, T \subseteq DOMAIN b.locations, NEW x \in T, Book(b, n, {}),
           NEW c, AllCancelled(b, c, T \ {x}, n)
    PROVE  AllCancelled(b, BookCancel(c, x), T, n)
<1>1. Book(c, n, {}) /\ x \in DOMAIN c.locations /\ DOMAIN c.orders = DOMAIN b.orders
  BY DEF AllCancelled
<1>2. PICK d : d = BookCancel(c, x)
  OBVIOUS
<1>3. /\ Book(d, n, {}) /\ DOMAIN d.locations = DOMAIN c.locations \ {x}
      /\ OnlyTouches(c, d, x, CancelledOrder(c.orders[x]))
  <2>1. PICK open : open = {}
    OBVIOUS
  <2>2. Book(c, n, open)
    BY <1>1, <2>1
  <2>3. /\ Book(BookCancel(c, x), n, open)
        /\ DOMAIN BookCancel(c, x).locations = DOMAIN c.locations \ {x}
        /\ OnlyTouches(c, BookCancel(c, x), x,
                       [c.orders[x] EXCEPT !.status = "Cancelled", !.remaining = 0])
    BY <1>1, <2>2, CancelKeepsBook
  <2> QED BY <1>2, <2>1, <2>3 DEF CancelledOrder
<1>4. x \in DOMAIN b.orders /\ c.orders[x] = b.orders[x]
  BY DEF AllCancelled, Book, LocatedRest
<1>5. T \subseteq DOMAIN b.orders
  BY DEF Book, LocatedRest
<1>6. DOMAIN d.locations = DOMAIN b.locations \ T
  BY <1>3 DEF AllCancelled
<1>7. /\ DOMAIN d.orders = DOMAIN b.orders
      /\ d.orders[x] = CancelledOrder(b.orders[x])
      /\ \A o \in DOMAIN b.orders \ {x} : d.orders[o] = c.orders[o]
  BY <1>1, <1>3, <1>4 DEF OnlyTouches
<1>8. \A o \in T : d.orders[o] = CancelledOrder(b.orders[o])
  BY <1>5, <1>7 DEF AllCancelled
<1>9. \A o \in DOMAIN b.orders \ T : d.orders[o] = b.orders[o]
  BY <1>7 DEF AllCancelled
<1> QED BY <1>2, <1>3, <1>6, <1>7, <1>8, <1>9 DEF AllCancelled

LEMMA CancelEachFacts ==
    ASSUME NEW n \in Nat, NEW b, Book(b, n, {}), NEW S, S \subseteq DOMAIN b.locations
    PROVE  AllCancelled(b, CancelEach(b, S), S, n)
<1>1. IsFiniteSet(S)
  BY FewLocations, FS_Subset
<1>2. PICK it : IsCancelFold(it, b, S) /\ CancelEach(b, S) = it[S]
  BY <1>1, CancelEachIsFold
<1> DEFINE Good == {T \in SUBSET S : AllCancelled(b, it[T], T, n)}
<1>3. ASSUME NEW T \in SUBSET S, \A U \in SUBSET T : U # T => U \in Good
      PROVE  T \in Good
  <2>1. CASE T = {}
    <3>1. it[T] = b
      BY <1>2, <2>1 DEF IsCancelFold
    <3>2. AllCancelled(b, b, {}, n)
      BY DEF AllCancelled
    <3> QED BY <2>1, <3>1, <3>2
  <2>2. CASE T # {}
    <3>1. PICK x : x = AnyOf(T)
      OBVIOUS
    <3>2. x \in T
      BY <2>2, <3>1 DEF AnyOf
    <3>3. it[T] = BookCancel(it[T \ {x}], x)
      BY <1>2, <2>2, <3>1 DEF IsCancelFold
    <3>4. T \ {x} \in SUBSET T /\ T \ {x} # T
      BY <3>2
    <3>5. PICK c : c = it[T \ {x}]
      OBVIOUS
    <3>6. AllCancelled(b, c, T \ {x}, n)
      BY <1>3, <3>4, <3>5
    <3>7. T \subseteq DOMAIN b.locations
      OBVIOUS
    <3>8. AllCancelled(b, BookCancel(c, x), T, n)
      BY <3>2, <3>6, <3>7, OneMoreCancelled
    <3> QED BY <3>3, <3>5, <3>8
  <2> QED BY <2>1, <2>2
<1>4. \A T \in SUBSET S : T \in Good
  <2> HIDE DEF Good
  <2> QED BY <1>1, <1>3, EverySubset
<1> QED BY <1>2, <1>4

-----------------------------------------------------------------------------
(***************************************************************************)
(* The service and the gateway.  First the shape of a caller: its task,    *)
(* its session and how far the one is in serving the other.                *)
(***************************************************************************)
RowMaps == UNION {[D -> Row] : D \in SUBSET Nat}

Task == [pc : {"idle", "reserve", "process", "persist", "cancel", "done"},
         signed : SignedOrders \cup {NoOrder}, id : Nat, ids : SUBSET Nat, single : BOOLEAN,
         rows : RowMaps, intents : Seq(Trade), outcome : Outcome]

Session == [live : BOOLEAN, account : Accounts \cup {NoAccount}, open : SUBSET STRING,
            quotes : SUBSET STRING, call : {"none", "submit", "cancel", "disconnect"},
            todo : Seq(SignedOrders), quoting : BOOLEAN]

CallFits(t, s) ==
    /\ s.call = "none" => t.pc = "idle"
    /\ s.call = "submit" => t.pc \in {"reserve", "process", "persist", "done"}
    /\ s.call \in {"cancel", "disconnect"} => t.pc \in {"cancel", "persist", "done"}
    /\ t.pc \in {"reserve", "process"} => t.signed # NoOrder
    /\ t.pc \in {"idle", "cancel", "done"} => t.signed = NoOrder
    /\ t.pc = "persist" => (t.signed # NoOrder <=> s.call = "submit")
    /\ ~ s.live => s.call = "none" /\ s.todo = <<>>
    /\ s.call = "disconnect" => s.todo = <<>>

Types ==
    /\ task \in [Callers -> Task] /\ session \in [Callers -> Session] /\ repository \in BOOLEAN
    /\ \A c \in Callers : CallFits(task[c], session[c])

\* Only c's task, only s's session moves.
TaskMoves(c) ==
    task' \in [Callers -> Task] /\ \A d \in Callers \ {c} : task'[d] = task[d]

SessionMoves(s) ==
    session' \in [Callers -> Session] /\ \A d \in Callers \ {s} : session'[d] = session[d]

LEMMA IdleIsTask == IdleTask \in Task
<1>1. <<>> \in RowMaps
  <2>1. <<>> \in [{} -> Row]
    OBVIOUS
  <2>2. {} \in SUBSET Nat
    OBVIOUS
  <2>3. [{} -> Row] \in {[D -> Row] : D \in SUBSET Nat}
    BY <2>2
  <2> QED BY <2>1, <2>3 DEF RowMaps
<1>2. NoOutcome \in Outcome
  BY DEF NoOutcome, Outcome
<1>3. <<>> \in Seq(Trade)
  OBVIOUS
<1> QED BY <1>1, <1>2, <1>3 DEF IdleTask, Task

LEMMA NewSessionIsSession == NewSession \in Session
<1>1. <<>> \in Seq(SignedOrders)
  OBVIOUS
<1> QED BY <1>1 DEF NewSession, Session

LEMMA ReturnMoves ==
    ASSUME Types, NEW c \in Callers, NEW o \in Outcome, Return(c, o)
    PROVE  TaskMoves(c) /\ task'[c].pc = "done" /\ task'[c].signed = NoOrder /\ task'[c].outcome = o
<1>1. PICK t : t = [IdleTask EXCEPT !.pc = "done", !.outcome = o]
  OBVIOUS
<1>2. t \in Task /\ t.pc = "done" /\ t.signed = NoOrder /\ t.outcome = o
  <2>1. t.signed = IdleTask.signed /\ IdleTask.signed = NoOrder
    BY <1>1 DEF IdleTask
  <2> QED BY <1>1, <2>1, IdleIsTask DEF Task
<1>3. task' = [task EXCEPT ![c] = t]
  BY <1>1 DEF Return
<1> QED BY <1>2, <1>3 DEF Types, TaskMoves

LEMMA IdleMoves ==
    ASSUME Types, NEW c \in Callers, task' = [task EXCEPT ![c] = IdleTask]
    PROVE  TaskMoves(c) /\ task'[c].pc = "idle" /\ task'[c].signed = NoOrder
<1>1. IdleTask.pc = "idle" /\ IdleTask.signed = NoOrder
  BY DEF IdleTask
<1> QED BY <1>1, IdleIsTask DEF Types, TaskMoves

LEMMA TypesKept ==
    ASSUME Types, NEW s \in Callers, TaskMoves(s) \/ UNCHANGED task, SessionMoves(s) \/ UNCHANGED session,
           CallFits(task'[s], session'[s]), UNCHANGED repository
    PROVE  Types'
BY DEF Types, TaskMoves, SessionMoves

LEMMA SubmitPayloadMoves ==
    ASSUME Types, NEW s \in Callers, SubmitPayload(s)
    PROVE  /\ TaskMoves(s) /\ task'[s].pc = "reserve" /\ task'[s].signed \in SignedOrders
           /\ SessionMoves(s) /\ session'[s].call = "submit" /\ session'[s].open = session[s].open
           /\ session'[s].live = session[s].live
<1>1. PICK signed : signed = Head(session[s].todo)
  OBVIOUS
<1>2. session[s] \in Session /\ session[s].todo \in Seq(SignedOrders) /\ session[s].todo # <<>>
  BY DEF Types, Session, SubmitPayload
<1>3. signed \in SignedOrders /\ Tail(session[s].todo) \in Seq(SignedOrders)
  BY <1>1, <1>2
<1>4. signed.account \in Accounts
  BY <1>3, SignedOrdersAreOrders DEF SignedOrder
<1>5. task' = [task EXCEPT ![s].pc = "reserve", ![s].signed = signed]
  BY <1>1 DEF SubmitPayload, SubmitSignedOrder
<1>6. task[s] \in Task
  BY DEF Types
<1>7. TaskMoves(s) /\ task'[s].pc = "reserve" /\ task'[s].signed = signed
  BY <1>3, <1>5, <1>6 DEF Types, Task, TaskMoves
<1>8. PICK rest \in Seq(SignedOrders) : rest = Tail(session[s].todo)
  BY <1>3
<1>9. session' = [session EXCEPT ![s].account = signed.account, ![s].call = "submit", ![s].todo = rest]
  BY <1>1, <1>8 DEF SubmitPayload
<1>10. /\ SessionMoves(s) /\ session'[s].call = "submit" /\ session'[s].open = session[s].open
       /\ session'[s].live = session[s].live
  BY <1>2, <1>4, <1>9 DEF Types, Session, SessionMoves
<1> QED BY <1>3, <1>7, <1>10

-----------------------------------------------------------------------------
(***************************************************************************)
(* The inductive invariant, in parts.                                      *)
(***************************************************************************)
\* The engine: its book, and a queue that accounts for what the orders lost.
Accounting ==
    \A o \in DOMAIN book.orders :
       /\ Traded(o) <= book.orders[o].size
       /\ o \in DOMAIN book.locations \/ book.orders[o].status = "Filled"
             => book.orders[o].remaining = book.orders[o].size - Traded(o)

Engine ==
    /\ arrived \in Nat /\ Book(book, arrived, {}) /\ sender \in [1 .. arrived -> Callers]
    /\ queue \in Seq(Trade)
    /\ \A i \in 1 .. Len(queue) : queue[i].maker \in 1 .. arrived /\ queue[i].taker \in 1 .. arrived
    /\ Accounting

\* Rows, stored or still to be stored, show no less left than the engine has.
NotAhead(written, b) ==
    \A o \in DOMAIN written \cap DOMAIN b.orders : written[o].remaining >= b.orders[o].remaining

RowsBehind ==
    /\ rows \in RowMaps /\ DOMAIN rows \subseteq 1 .. arrived /\ NotAhead(rows, book)
    /\ \A c \in Callers : task[c].pc = "persist" =>
          DOMAIN task[c].rows \subseteq 1 .. arrived /\ NotAhead(task[c].rows, book)

\* The nonce of an order in the book is used up, or its call failed or is still persisting it.
Persisting(c, o) == task[c].pc = "persist" /\ task[c].signed # NoOrder /\ task[c].id = o

NonceTaken(o) ==
    \/ o \in failed
    \/ NonceOf(book.orders[o]) \in nonces \cup usedNonces
    \/ \E c \in Callers : Persisting(c, o) /\ NonceOf(task[c].signed) = NonceOf(book.orders[o])

NoncesHeld ==
    /\ \A o \in DOMAIN book.orders : NonceTaken(o)
    /\ \A c \in Callers : task[c].pc = "process" =>
          /\ \A o \in DOMAIN book.orders :
                NonceOf(book.orders[o]) = NonceOf(task[c].signed) => o \in failed
          /\ \A d \in Callers : task[d].pc = "process" /\ NonceOf(task[d].signed) = NonceOf(task[c].signed) => d = c
          /\ ~ repository => NonceOf(task[c].signed) \in nonces
    /\ \A c \in Callers : task[c].pc = "persist" => repository

\* An order no session answers for any more.
ClientCancelled(client) ==
    \E o \in DOMAIN book.orders : book.orders[o].status = "Cancelled" /\ book.orders[o].client = client

Excused(o) == o \in failed \/ ClientCancelled(book.orders[o].client)

\* The call under way knows of the order.
Registering(s, o) ==
    /\ session[s].call = "submit" /\ task[s].outcome.ok /\ task[s].outcome.resting
    /\ book.orders[o].client \in task[s].outcome.clients
    /\ Persisting(s, o) \/ task[s].pc = "done"

AnswersFor(s) ==
    \A o \in DOMAIN book.locations :
       sender[o] = s =>
          \/ Excused(o)
          \/ session[s].call # "disconnect" /\ (book.orders[o].client \in session[s].open \/ Registering(s, o))
          \/ session[s].call = "disconnect" /\ book.orders[o].account # session[s].account
          \/ session[s].call = "disconnect" /\ task[s].pc = "cancel" /\ o \in task[s].ids

Left(s) ==
    \A o \in DOMAIN book.locations :
       sender[o] = s => Excused(o) \/ book.orders[o].account # session[s].account

CancelsTold(s) ==
    session[s].call \in {"cancel", "disconnect"} /\ task[s].pc \in {"persist", "done"}
       => \A client \in task[s].outcome.clients : ClientCancelled(client)

Answers(s) ==
    /\ session[s].live => AnswersFor(s)
    /\ ~ session[s].live => Left(s)
    /\ CancelsTold(s)

SessionsAnswer == \A s \in Callers : Answers(s)

-----------------------------------------------------------------------------
(* What the engine's two steps do.                                         *)

LEMMA NewOrderIsOrder ==
    ASSUME NEW signed \in SignedOrders
    PROVE  /\ NewOrder(signed) \in Order /\ NewOrder(signed).remaining = NewOrder(signed).size
           /\ NewOrder(signed).status = "New" /\ NewOrder(signed).client = signed.client
           /\ NewOrder(signed).account = signed.account /\ NewOrder(signed).nonce = signed.nonce
           /\ signed.client \in STRING
<1>1. signed \in SignedOrder
  BY SignedOrdersAreOrders
<1>2. /\ signed.account \in Accounts /\ signed.nonce \in Nat /\ signed.side \in Sides
      /\ signed.price \in Nat /\ signed.size \in Nat /\ signed.tif \in TimesInForce
      /\ signed.postOnly \in BOOLEAN /\ signed.client \in STRING
  BY <1>1 DEF SignedOrder
<1>3. "New" \in OrderStatuses
  BY DEF OrderStatuses
<1> QED BY <1>2, <1>3 DEF NewOrder, Order

\* Rows of orders of b.
RowsOf(r, b) ==
    /\ DOMAIN r \subseteq DOMAIN b.orders
    /\ \A o \in DOMAIN r : r[o].remaining = b.orders[o].remaining

LEMMA RowsAreRows ==
    ASSUME NEW n, NEW open, NEW b, Book(b, n, open), NEW S, S \subseteq DOMAIN b.orders,
           NEW r, r = [o \in S |-> RowOf(b.orders[o])]
    PROVE  r \in RowMaps /\ RowsOf(r, b)
<1>1. \A o \in S : b.orders[o] \in Order /\ o \in Nat
  BY DEF Book, Shaped
<1>2. \A o \in S : RowOf(b.orders[o]) \in Row /\ RowOf(b.orders[o]).remaining = b.orders[o].remaining
  BY <1>1 DEF RowOf, Row, Order
<1>3. r \in [S -> Row] /\ S \in SUBSET Nat
  BY <1>1, <1>2
<1>4. [S -> Row] \in {[D -> Row] : D \in SUBSET Nat}
  BY <1>3
<1>5. r \in RowMaps
  BY <1>3, <1>4 DEF RowMaps
<1> QED BY <1>2, <1>5 DEF RowsOf

SubmitDone(c, res) ==
    /\ task[c].pc = "process" /\ task[c].signed \in SignedOrders
    /\ Submitted(book, res, arrived + 1, NewOrder(task[c].signed), queue)
    /\ arrived' = arrived + 1 /\ book' = res.book /\ queue' = queue \o res.trades
    /\ sender' = With(sender, arrived + 1, c)
    /\ TaskMoves(c)
    /\ task'[c].outcome = SubmitOutcome(res, arrived + 1, task[c].signed)
    /\ repository => /\ task'[c].pc = "persist" /\ task'[c].signed = task[c].signed
                     /\ task'[c].id = arrived + 1 /\ RowsOf(task'[c].rows, res.book)
    /\ ~ repository => task'[c].pc = "done" /\ task'[c].signed = NoOrder

LEMMA ProcessSubmitDoes ==
    ASSUME Types, Engine, NEW c \in Callers, ProcessSubmit(c)
    PROVE  \E res : SubmitDone(c, res)
<1> DEFINE n == arrived + 1
           signed == task[c].signed
           res == BookSubmit(book, n, NewOrder(signed))
           outcome == SubmitOutcome(res, n, signed)
           touched == {res.makers[i] : i \in DOMAIN res.makers} \cup (IF res.accepted THEN {n} ELSE {})
           r == [o \in touched |-> RowOf(res.book.orders[o])]
<1>12. /\ arrived' = n /\ book' = res.book /\ queue' = queue \o res.trades /\ sender' = With(sender, n, c)
       /\ repository => task' = [task EXCEPT ![c].pc = "persist", ![c].id = n, ![c].rows = r,
                                             ![c].intents = res.trades, ![c].outcome = outcome]
       /\ ~ repository => Return(c, outcome)
  BY DEF ProcessSubmit
<1>0. n \in Nat
  BY DEF Engine
<1>1. n = arrived + 1 /\ signed = task[c].signed
  OBVIOUS
<1>2. res = BookSubmit(book, n, NewOrder(signed))
  OBVIOUS
<1>6. outcome = SubmitOutcome(res, n, signed)
  OBVIOUS
<1>8. touched = {res.makers[i] : i \in DOMAIN res.makers} \cup (IF res.accepted THEN {n} ELSE {})
  OBVIOUS
<1>10. r = [o \in touched |-> RowOf(res.book.orders[o])]
  OBVIOUS
<1> HIDE DEF n, signed, res, outcome, touched, r
<1>3. task[c] \in Task /\ task[c].pc = "process" /\ signed \in SignedOrders
  <2>1. task[c] \in Task /\ task[c].pc = "process"
    BY DEF Types, ProcessSubmit
  <2>2. task[c].signed # NoOrder
    BY <2>1 DEF Types, CallFits
  <2> QED BY <1>1, <2>1, <2>2 DEF Task
<1>4. Submitted(book, res, n, NewOrder(signed), queue)
  BY <1>0, <1>1, <1>2, <1>3, NewOrderIsOrder, SubmitFacts DEF Engine
<1>5. /\ Book(res.book, n, {}) /\ res.accepted \in BOOLEAN /\ (res.accepted => n \in DOMAIN res.book.orders)
      /\ res.makers \in Seq(Nat) /\ \A i \in 1 .. Len(res.makers) : res.makers[i] \in DOMAIN res.book.orders
      /\ res.trades \in Seq(Trade)
  <2>1. Kept(book, res.book, n) /\ MakersFit(book, res.makers) /\ Recorded(res, n, NewOrder(signed))
        /\ Book(res.book, n, {}) /\ TradesFit(book, res.book, n, res.trades)
    BY <1>4 DEF Submitted
  <2>2. DOMAIN book.locations \subseteq DOMAIN res.book.orders
    BY <2>1 DEF Kept, Engine, Book, LocatedRest
  <2> QED BY <2>1, <2>2 DEF MakersFit, Recorded, TradesFit
<1>7. outcome \in Outcome
  <2>1. PICK resting \in BOOLEAN :
           resting = (/\ res.accepted
                      /\ \/ res.book.orders[n].remaining > 0
                         \/ \E i \in DOMAIN res.makers : res.book.orders[res.makers[i]].remaining > 0)
    OBVIOUS
  <2>2. {signed.client} \in SUBSET STRING
    BY <1>3, NewOrderIsOrder
  <2>3. outcome = [ok |-> res.accepted, resting |-> resting, clients |-> {signed.client}]
    BY <1>6, <2>1 DEF SubmitOutcome
  <2> QED BY <1>5, <2>2, <2>3 DEF Outcome
<1>9. touched \subseteq DOMAIN res.book.orders
  <2>1. DOMAIN res.makers = 1 .. Len(res.makers)
    BY <1>5
  <2> QED BY <1>5, <1>8, <2>1
<1>11. r \in RowMaps /\ RowsOf(r, res.book)
  <2>1. PICK open : open = {}
    OBVIOUS
  <2>2. Book(res.book, n, open)
    BY <1>5, <2>1
  <2> QED BY <1>9, <1>10, <2>2, RowsAreRows
<1>13. CASE repository
  <2>1. task' = [task EXCEPT ![c].pc = "persist", ![c].id = n, ![c].rows = r,
                             ![c].intents = res.trades, ![c].outcome = outcome]
    BY <1>12, <1>13
  <2>2. PICK trades \in Seq(Trade) : trades = res.trades
    BY <1>5
  <2>3. /\ TaskMoves(c) /\ task'[c].pc = "persist" /\ task'[c].signed = signed /\ task'[c].id = n
        /\ task'[c].rows = r /\ task'[c].outcome = outcome
    BY <1>0, <1>1, <1>3, <1>7, <1>11, <2>1, <2>2 DEF Types, Task, TaskMoves
  <2> QED BY <1>1, <1>3, <1>4, <1>6, <1>11, <1>12, <1>13, <2>3 DEF SubmitDone
<1>14. CASE ~ repository
  <2>1. TaskMoves(c) /\ task'[c].pc = "done" /\ task'[c].signed = NoOrder /\ task'[c].outcome = outcome
    BY <1>7, <1>12, <1>14, ReturnMoves
  <2> QED BY <1>1, <1>3, <1>4, <1>6, <1>12, <1>14, <2>1 DEF SubmitDone
<1> QED BY <1>13, <1>14

CancelDone(c, hits) ==
    /\ task[c].pc = "cancel" /\ hits = task[c].ids \cap DOMAIN book.locations
    /\ AllCancelled(book, book', hits, arrived)
    /\ UNCHANGED <<queue, arrived, sender>>
    /\ TaskMoves(c) /\ task'[c].signed = NoOrder /\ task'[c].pc \in {"persist", "done"}
    /\ task'[c].outcome.clients = {book.orders[o].client : o \in hits}
    /\ task'[c].pc = "persist" => repository /\ RowsOf(task'[c].rows, book')

LEMMA ProcessCancelDoes ==
    ASSUME Types, Engine, NEW c \in Callers, ProcessCancel(c)
    PROVE  \E hits : CancelDone(c, hits)
<1>1. PICK hits : hits = task[c].ids \cap DOMAIN book.locations
  OBVIOUS
<1>2. PICK after : after = CancelEach(book, hits)
  OBVIOUS
<1>3. task[c] \in Task /\ task[c].pc = "cancel" /\ task[c].signed = NoOrder
  <2>1. task[c] \in Task /\ task[c].pc = "cancel"
    BY DEF Types, ProcessCancel
  <2> QED BY <2>1 DEF Types, CallFits
<1>4. AllCancelled(book, after, hits, arrived)
  BY <1>1, <1>2, CancelEachFacts DEF Engine
<1>5. PICK outcome : outcome = [ok |-> ~task[c].single \/ hits # {}, resting |-> FALSE,
                                clients |-> {book.orders[id].client : id \in hits}]
  OBVIOUS
<1>6. outcome \in Outcome /\ outcome.clients = {book.orders[id].client : id \in hits}
  <2>1. PICK ok \in BOOLEAN : ok = (~task[c].single \/ hits # {})
    OBVIOUS
  <2>2. \A id \in hits : book.orders[id].client \in STRING
    <3>1. \A id \in hits : book.orders[id] \in Order
      BY <1>1 DEF Engine, Book, Shaped, LocatedRest
    <3> QED BY <3>1 DEF Order
  <2>3. PICK told \in SUBSET STRING : told = {book.orders[id].client : id \in hits}
    BY <2>2
  <2>4. outcome = [ok |-> ok, resting |-> FALSE, clients |-> told]
    BY <1>5, <2>1, <2>3
  <2> QED BY <2>3, <2>4 DEF Outcome
<1>7. PICK r : r = [o \in hits |-> RowOf(after.orders[o])]
  OBVIOUS
<1>8. r \in RowMaps /\ RowsOf(r, after)
  <2>1. PICK open : open = {}
    OBVIOUS
  <2>2. Book(after, arrived, open)
    BY <1>4, <2>1 DEF AllCancelled
  <2>3. hits \subseteq DOMAIN after.orders
    BY <1>1, <1>4 DEF AllCancelled, Engine, Book, LocatedRest
  <2> QED BY <1>7, <2>2, <2>3, RowsAreRows
<1>9. /\ book' = after /\ UNCHANGED <<queue, arrived, sender>>
      /\ IF repository /\ hits # {}
         THEN task' = [task EXCEPT ![c].pc = "persist", ![c].outcome = outcome, ![c].rows = r]
         ELSE Return(c, outcome)
  BY <1>1, <1>2, <1>5, <1>7 DEF ProcessCancel, RestingOrders
<1>10. CASE repository /\ hits # {}
  <2>1. task' = [task EXCEPT ![c].pc = "persist", ![c].outcome = outcome, ![c].rows = r]
    BY <1>9, <1>10
  <2>2. /\ TaskMoves(c) /\ task'[c].pc = "persist" /\ task'[c].signed = NoOrder
        /\ task'[c].rows = r /\ task'[c].outcome = outcome
    BY <1>3, <1>6, <1>8, <2>1 DEF Types, Task, TaskMoves
  <2> QED BY <1>1, <1>3, <1>4, <1>6, <1>8, <1>9, <1>10, <2>2 DEF CancelDone
<1>11. CASE ~ (repository /\ hits # {})
  <2>1. TaskMoves(c) /\ task'[c].pc = "done" /\ task'[c].signed = NoOrder /\ task'[c].outcome = outcome
    BY <1>6, <1>9, <1>11, ReturnMoves
  <2> QED BY <1>1, <1>3, <1>4, <1>6, <1>9, <2>1 DEF CancelDone
<1> QED BY <1>10, <1>11

-----------------------------------------------------------------------------
(* What the gateway's steps do: only the session moves, a cancel starts,   *)
(* or a call returns to its session.                                       *)

OthersSame ==
    UNCHANGED <<book, queue, arrived, sender, rows, usedNonces, nonces, failed, repository>>

SessionOnly(s) ==
    /\ UNCHANGED task /\ SessionMoves(s)
    /\ session[s].live /\ session[s].call = "none" /\ session'[s].call = "none"
    /\ session'[s].open = session[s].open
    /\ \/ session'[s].live
       \/ /\ ~ session'[s].live /\ session'[s].todo = <<>> /\ session'[s].account = session[s].account
          /\ session[s].account = NoAccount \/ session[s].open = {}

LEMMA AuthDoes ==
    ASSUME Types, NEW s \in Callers, NEW account \in Accounts, Auth(s, account)
    PROVE  OthersSame /\ SessionOnly(s)
<1>1. /\ session[s] \in Session /\ session[s].live /\ session[s].call = "none"
      /\ session' = [session EXCEPT ![s].account = account]
  BY DEF Types, Auth, Receive, Ready
<1>2. /\ SessionMoves(s) /\ session'[s].live /\ session'[s].call = "none"
      /\ session'[s].open = session[s].open
  BY <1>1 DEF Types, Session, SessionMoves
<1> QED BY <1>1, <1>2 DEF Auth, serviceVars, OthersSame, SessionOnly

LEMMA SubmitOrdersDoes ==
    ASSUME Types, NEW s \in Callers, NEW batch \in Batches, SubmitOrders(s, batch)
    PROVE  OthersSame /\ SessionOnly(s)
<1>1. /\ session[s] \in Session /\ session[s].live /\ session[s].call = "none"
      /\ session' = [session EXCEPT ![s].todo = batch, ![s].quoting = FALSE]
  BY DEF Types, SubmitOrders, Receive, Ready
<1>2. batch \in Seq(SignedOrders)
  BY ClientInputs
<1>3. /\ SessionMoves(s) /\ session'[s].live /\ session'[s].call = "none"
      /\ session'[s].open = session[s].open
  BY <1>1, <1>2 DEF Types, Session, SessionMoves
<1> QED BY <1>1, <1>3 DEF SubmitOrders, serviceVars, OthersSame, SessionOnly

LEMMA RefusePayloadDoes ==
    ASSUME Types, NEW s \in Callers, RefusePayload(s)
    PROVE  OthersSame /\ SessionOnly(s)
<1>1. /\ session[s] \in Session /\ session[s].call = "none" /\ session[s].todo \in Seq(SignedOrders)
      /\ session[s].todo # <<>> /\ session[s].live
  BY DEF Types, Session, CallFits, RefusePayload
<1>8. Tail(session[s].todo) \in Seq(SignedOrders) /\ Head(session[s].todo) \in SignedOrders
  BY <1>1
<1>2. PICK rest \in Seq(SignedOrders) : rest = Tail(session[s].todo)
  BY <1>8
<1>3. PICK signed \in SignedOrders : signed = Head(session[s].todo)
  BY <1>8
<1>4. signed.account \in Accounts /\ session[s].account \in Accounts \cup {NoAccount}
  BY <1>1, SignedOrdersAreOrders DEF SignedOrder, Session
<1>5. PICK a \in Accounts \cup {NoAccount} :
          a = IF session[s].account = NoAccount THEN signed.account ELSE session[s].account
  BY <1>4
<1>6. session' = [session EXCEPT ![s].todo = rest, ![s].account = a]
  BY <1>2, <1>3, <1>5 DEF RefusePayload
<1>7. /\ SessionMoves(s) /\ session'[s].live /\ session'[s].call = "none"
      /\ session'[s].open = session[s].open
  BY <1>1, <1>6 DEF Types, Session, SessionMoves
<1> QED BY <1>1, <1>7 DEF RefusePayload, serviceVars, OthersSame, SessionOnly

LEMMA DisconnectPlainlyDoes ==
    ASSUME Types, NEW s \in Callers, DisconnectPlainly(s)
    PROVE  OthersSame /\ SessionOnly(s)
<1>1. /\ session[s] \in Session /\ session[s].live /\ session[s].call = "none" /\ session[s].todo = <<>>
      /\ session' = [session EXCEPT ![s].live = FALSE]
  BY DEF Types, DisconnectPlainly, Ready
<1>2. /\ SessionMoves(s) /\ ~ session'[s].live /\ session'[s].call = "none"
      /\ session'[s].open = session[s].open /\ session'[s].todo = <<>>
      /\ session'[s].account = session[s].account
  BY <1>1 DEF Types, Session, SessionMoves
<1> QED BY <1>1, <1>2 DEF DisconnectPlainly, serviceVars, OthersSame, SessionOnly

\* The session waits for the cancel of the orders in its task.
CancelStarts(s) ==
    /\ TaskMoves(s) /\ SessionMoves(s)
    /\ task[s].pc = "idle" /\ task'[s].pc = "cancel" /\ task'[s].signed = NoOrder
    /\ session[s].live /\ session'[s].live /\ session[s].call = "none"
    /\ session'[s].open = session[s].open
    /\ \/ session'[s].call = "cancel"
       \/ /\ session'[s].call = "disconnect" /\ session'[s].todo = <<>>
          /\ session'[s].account = session[s].account
          /\ task'[s].ids = WithClients(session[s].account, session[s].open)

LEMMA CancelMoves ==
    ASSUME Types, NEW c \in Callers, NEW ids \in SUBSET Nat, NEW single \in BOOLEAN,
           Cancel(c, ids, single)
    PROVE  /\ TaskMoves(c) /\ task[c].pc = "idle" /\ task'[c].pc = "cancel" /\ task'[c].signed = NoOrder
           /\ task'[c].ids = ids /\ OthersSame
<1>1. task[c] \in Task /\ task[c].pc = "idle" /\ task[c].signed = NoOrder
  BY DEF Types, Cancel, CallFits
<1>2. task' = [task EXCEPT ![c].pc = "cancel", ![c].ids = ids, ![c].single = single]
  BY DEF Cancel
<1>3. /\ TaskMoves(c) /\ task'[c].pc = "cancel" /\ task'[c].signed = NoOrder /\ task'[c].ids = ids
  BY <1>1, <1>2 DEF Types, Task, TaskMoves
<1> QED BY <1>1, <1>3 DEF Cancel, OthersSame, engineVars, storeVars

LEMMA IdsAreNumbers ==
    ASSUME Engine
    PROVE  /\ DOMAIN book.orders \subseteq Nat /\ DOMAIN book.locations \subseteq Nat
           /\ \A account : RestingOf(account) \subseteq Nat
           /\ \A account, clients : WithClients(account, clients) \subseteq Nat
<1>1. DOMAIN book.orders \subseteq Nat /\ DOMAIN book.locations \subseteq Nat
  BY DEF Engine, Book, Shaped, LocatedRest
<1> QED BY <1>1 DEF RestingOf, WithClients, RestingOrders

LEMMA CancelOrderDoes ==
    ASSUME Types, Engine, NEW s \in Callers, CancelOrder(s)
    PROVE  OthersSame /\ CancelStarts(s)
<1>1. PICK ids \in SUBSET Nat : Cancel(s, ids, TRUE)
  <2>1. CASE \E ids \in ResolveByOrderId(session[s].account) : Cancel(s, ids, TRUE)
    BY <2>1, IdsAreNumbers DEF ResolveByOrderId
  <2>2. CASE \E client \in {signed.client : signed \in SignedOrders} :
                LET ids == ResolveByClientId(session[s].account, client)
                IN  ids # {} /\ Cancel(s, ids, TRUE)
    <3>1. PICK client : /\ ResolveByClientId(session[s].account, client) # {}
                        /\ Cancel(s, ResolveByClientId(session[s].account, client), TRUE)
      BY <2>2
    <3>2. PICK found : found = {id \in RestingOf(session[s].account) : book.orders[id].client = client}
      OBVIOUS
    <3>3. found \subseteq Nat
      BY <3>2, IdsAreNumbers
    <3>4. ResolveByClientId(session[s].account, client) = IF found = {} THEN {} ELSE {Min(found)}
      BY <3>2 DEF ResolveByClientId
    <3>5. found # {} /\ ResolveByClientId(session[s].account, client) = {Min(found)}
      BY <3>1, <3>4
    <3>6. Min(found) \in found
      <4>1. \E x \in found : \A y \in found : x <= y
        BY <3>3, <3>5, LeastElement
      <4> QED BY <4>1 DEF Min
    <3>7. ResolveByClientId(session[s].account, client) \in SUBSET Nat
      BY <3>3, <3>5, <3>6
    <3> QED BY <3>1, <3>7
  <2> QED BY <2>1, <2>2 DEF CancelOrder
<1>2. /\ TaskMoves(s) /\ task[s].pc = "idle" /\ task'[s].pc = "cancel" /\ task'[s].signed = NoOrder
      /\ OthersSame
  BY <1>1, CancelMoves
<1>3. /\ session[s] \in Session /\ session[s].live /\ session[s].call = "none"
      /\ session' = [session EXCEPT ![s].call = "cancel"]
  BY DEF Types, CancelOrder, Receive, Ready
<1>4. SessionMoves(s) /\ session'[s].live /\ session'[s].call = "cancel" /\ session'[s].open = session[s].open
  BY <1>3 DEF Types, Session, SessionMoves
<1> QED BY <1>2, <1>3, <1>4 DEF CancelStarts

LEMMA CancelAllDoes ==
    ASSUME Types, Engine, NEW s \in Callers, CancelAll(s)
    PROVE  OthersSame /\ CancelStarts(s)
<1>1. PICK ids \in SUBSET Nat : Cancel(s, ids, FALSE)
  BY IdsAreNumbers DEF CancelAll
<1>2. /\ TaskMoves(s) /\ task[s].pc = "idle" /\ task'[s].pc = "cancel" /\ task'[s].signed = NoOrder
      /\ OthersSame
  BY <1>1, CancelMoves
<1>3. /\ session[s] \in Session /\ session[s].live /\ session[s].call = "none"
      /\ session' = [session EXCEPT ![s].call = "cancel"]
  BY DEF Types, CancelAll, Receive, Ready
<1>4. SessionMoves(s) /\ session'[s].live /\ session'[s].call = "cancel" /\ session'[s].open = session[s].open
  BY <1>3 DEF Types, Session, SessionMoves
<1> QED BY <1>2, <1>3, <1>4 DEF CancelStarts

LEMMA DisconnectCancellingDoes ==
    ASSUME Types, Engine, NEW s \in Callers, DisconnectCancelling(s)
    PROVE  OthersSame /\ CancelStarts(s)
<1>1. PICK ids \in SUBSET Nat : ids = WithClients(session[s].account, session[s].open) /\ Cancel(s, ids, FALSE)
  BY IdsAreNumbers DEF DisconnectCancelling
<1>2. /\ TaskMoves(s) /\ task[s].pc = "idle" /\ task'[s].pc = "cancel" /\ task'[s].signed = NoOrder
      /\ OthersSame /\ task'[s].ids = ids
  BY <1>1, CancelMoves
<1>3. /\ session[s] \in Session /\ session[s].live /\ session[s].call = "none" /\ session[s].todo = <<>>
      /\ session' = [session EXCEPT ![s].call = "disconnect"]
  BY DEF Types, DisconnectCancelling, Ready
<1>4. /\ SessionMoves(s) /\ session'[s].live /\ session'[s].call = "disconnect" /\ session'[s].open = session[s].open
      /\ session'[s].todo = <<>> /\ session'[s].account = session[s].account
  BY <1>3 DEF Types, Session, SessionMoves
<1> QED BY <1>1, <1>2, <1>3, <1>4 DEF CancelStarts

LEMMA QuoteReplaceDoes ==
    ASSUME Types, Engine, NEW s \in Callers, NEW legs \in Quotes, NEW previous \in BOOLEAN,
           QuoteReplace(s, legs, previous)
    PROVE  OthersSame /\ (SessionOnly(s) \/ CancelStarts(s))
<1>1. legs \in Seq(SignedOrders) /\ legs # <<>>
  BY ClientInputs
<1>2. legs[1] \in SignedOrders
  <2>1. Len(legs) \in Nat /\ Len(legs) # 0
    BY <1>1, EmptySeq
  <2> QED BY <1>1, <2>1
<1>3. PICK account \in Accounts : account = legs[1].account
  BY <1>2, SignedOrdersAreOrders DEF SignedOrder
<1>4. session[s] \in Session /\ session[s].live /\ session[s].call = "none"
  BY DEF Types, QuoteReplace, Receive, Ready
<1>5. CASE previous
  <2>1. session' = [session EXCEPT ![s].account = account, ![s].todo = legs, ![s].quoting = TRUE,
                                   ![s].call = "cancel"]
    BY <1>3, <1>5 DEF QuoteReplace
  <2>2. PICK ids \in SUBSET Nat : Cancel(s, ids, FALSE)
    BY <1>5, IdsAreNumbers DEF QuoteReplace
  <2>3. /\ TaskMoves(s) /\ task[s].pc = "idle" /\ task'[s].pc = "cancel" /\ task'[s].signed = NoOrder
        /\ OthersSame
    BY <2>2, CancelMoves
  <2>4. SessionMoves(s) /\ session'[s].live /\ session'[s].call = "cancel" /\ session'[s].open = session[s].open
    BY <1>1, <1>4, <2>1 DEF Types, Session, SessionMoves
  <2> QED BY <1>4, <2>3, <2>4 DEF CancelStarts
<1>6. CASE ~ previous
  <2>1. session' = [session EXCEPT ![s].account = account, ![s].todo = legs, ![s].quoting = TRUE,
                                   ![s].call = "none"]
    BY <1>3, <1>6 DEF QuoteReplace
  <2>2. SessionMoves(s) /\ session'[s].live /\ session'[s].call = "none" /\ session'[s].open = session[s].open
    BY <1>1, <1>4, <2>1 DEF Types, Session, SessionMoves
  <2>3. UNCHANGED serviceVars
    BY <1>6 DEF QuoteReplace
  <2> QED BY <1>4, <2>2, <2>3 DEF serviceVars, OthersSame, SessionOnly
<1> QED BY <1>5, <1>6

\* The answer of a call reaches its session.
CallEnds(s) ==
    /\ TaskMoves(s) /\ SessionMoves(s)
    /\ task[s].pc = "done" /\ task'[s].pc = "idle" /\ task'[s].signed = NoOrder
    /\ session[s].live /\ session'[s].call = "none"
    /\ \/ /\ session[s].call = "submit" /\ session'[s].live
          /\ session'[s].open = session[s].open \cup
                (IF task[s].outcome.ok /\ task[s].outcome.resting THEN task[s].outcome.clients ELSE {})
       \/ /\ session[s].call = "cancel" /\ session'[s].live
          /\ session'[s].open = session[s].open \ task[s].outcome.clients
       \/ /\ session[s].call = "disconnect" /\ ~ session'[s].live /\ session'[s].todo = <<>>
          /\ session'[s].account = session[s].account

LEMMA TakerOfCall ==
    ASSUME Types, NEW s \in Callers, session[s].call # "none"
    PROVE  /\ session[s] \in Session /\ session[s].live /\ task[s] \in Task
           /\ task[s].outcome \in Outcome /\ task[s].outcome.clients \in SUBSET STRING
<1>1. session[s] \in Session /\ task[s] \in Task /\ session[s].live
  BY DEF Types, CallFits
<1>2. task[s].outcome \in Outcome
  BY <1>1 DEF Task
<1> QED BY <1>1, <1>2 DEF Outcome

LEMMA RegisterOpenDoes ==
    ASSUME Types, NEW s \in Callers, RegisterOpen(s)
    PROVE  OthersSame /\ CallEnds(s)
<1>1. /\ session[s].call = "submit" /\ task[s].pc = "done" /\ task' = [task EXCEPT ![s] = IdleTask]
      /\ OthersSame
  BY DEF RegisterOpen, OthersSame, engineVars, storeVars
<1>2. TaskMoves(s) /\ task'[s].pc = "idle" /\ task'[s].signed = NoOrder
  BY <1>1, IdleMoves
<1>3. session[s] \in Session /\ session[s].live /\ task[s].outcome.clients \in SUBSET STRING
  BY <1>1, TakerOfCall
<1> DEFINE add == IF task[s].outcome.ok /\ task[s].outcome.resting THEN task[s].outcome.clients ELSE {}
           open == session[s].open \cup add
           quotes == session[s].quotes \cup (IF session[s].quoting THEN add ELSE {})
<1>4. session' = [session EXCEPT ![s].call = "none", ![s].open = open, ![s].quotes = quotes]
  BY DEF RegisterOpen
<1>5. open \in SUBSET STRING /\ quotes \in SUBSET STRING
  BY <1>3 DEF Session
<1> HIDE DEF open, quotes
<1>6. SessionMoves(s) /\ session'[s].call = "none" /\ session'[s].live /\ session'[s].open = open
  BY <1>3, <1>4, <1>5 DEF Types, Session, SessionMoves
<1> QED BY <1>1, <1>2, <1>3, <1>6 DEF CallEnds, open

LEMMA CancelReturnsDoes ==
    ASSUME Types, NEW s \in Callers, CancelReturns(s)
    PROVE  OthersSame /\ CallEnds(s)
<1>1. /\ session[s].call = "cancel" /\ task[s].pc = "done" /\ task' = [task EXCEPT ![s] = IdleTask]
      /\ OthersSame
  BY DEF CancelReturns, OthersSame, engineVars, storeVars
<1>2. TaskMoves(s) /\ task'[s].pc = "idle" /\ task'[s].signed = NoOrder
  BY <1>1, IdleMoves
<1>3. session[s] \in Session /\ session[s].live
  BY <1>1, TakerOfCall
<1> DEFINE open == session[s].open \ task[s].outcome.clients
           quotes == session[s].quotes \ task[s].outcome.clients
           todo == IF task[s].outcome.ok THEN session[s].todo ELSE <<>>
<1>4. session' = [session EXCEPT ![s].call = "none", ![s].open = open, ![s].quotes = quotes, ![s].todo = todo]
  BY DEF CancelReturns
<1>5. open \in SUBSET STRING /\ quotes \in SUBSET STRING /\ todo \in Seq(SignedOrders)
  <2>1. session[s].todo \in Seq(SignedOrders) /\ <<>> \in Seq(SignedOrders)
    BY <1>3 DEF Session
  <2> QED BY <1>3, <2>1 DEF Session
<1> HIDE DEF open, quotes, todo
<1>6. SessionMoves(s) /\ session'[s].call = "none" /\ session'[s].live /\ session'[s].open = open
  BY <1>3, <1>4, <1>5 DEF Types, Session, SessionMoves
<1> QED BY <1>1, <1>2, <1>3, <1>6 DEF CallEnds, open

LEMMA DisconnectedDoes ==
    ASSUME Types, NEW s \in Callers, Disconnected(s)
    PROVE  OthersSame /\ CallEnds(s)
<1>1. /\ session[s].call = "disconnect" /\ task[s].pc = "done" /\ task' = [task EXCEPT ![s] = IdleTask]
      /\ OthersSame
  BY DEF Disconnected, OthersSame, engineVars, storeVars
<1>2. TaskMoves(s) /\ task'[s].pc = "idle" /\ task'[s].signed = NoOrder
  BY <1>1, IdleMoves
<1>3. session[s] \in Session /\ session[s].live /\ session[s].todo = <<>>
  BY <1>1, TakerOfCall DEF Types, CallFits
<1>4. session' = [session EXCEPT ![s].live = FALSE, ![s].call = "none"]
  BY DEF Disconnected
<1>5. /\ SessionMoves(s) /\ session'[s].call = "none" /\ ~ session'[s].live /\ session'[s].todo = <<>>
      /\ session'[s].account = session[s].account
  BY <1>3, <1>4 DEF Types, Session, SessionMoves
<1> QED BY <1>1, <1>2, <1>3, <1>5 DEF CallEnds

-----------------------------------------------------------------------------
(* What the service's other steps do, and all steps together.              *)

EngineSame == UNCHANGED <<book, queue, arrived, sender>>
StoreSame == UNCHANGED <<rows, usedNonces, nonces, failed, repository>>

SubmitStarts(s) ==
    /\ TaskMoves(s) /\ SessionMoves(s)
    /\ task[s].pc = "idle" /\ task'[s].pc = "reserve" /\ task'[s].signed \in SignedOrders
    /\ session[s].live /\ session'[s].live /\ session[s].call = "none" /\ session'[s].call = "submit"
    /\ session'[s].open = session[s].open

Reserves(c) ==
    /\ EngineSame /\ UNCHANGED <<rows, usedNonces, failed, repository>>
    /\ TaskMoves(c) /\ task[c].pc = "reserve" /\ task'[c].pc = "process"
    /\ task'[c].signed = task[c].signed
    /\ NonceOf(task[c].signed) \notin HeldNonces \cup nonces \cup usedNonces
    /\ nonces' = IF repository THEN nonces ELSE nonces \cup {NonceOf(task[c].signed)}

Refused(c) ==
    EngineSame /\ StoreSame /\ TaskMoves(c) /\ task[c].pc = "reserve"
    /\ task'[c].pc = "done" /\ task'[c].signed = NoOrder /\ task'[c].outcome = NoOutcome

Persisted(c) ==
    /\ EngineSame /\ UNCHANGED <<nonces, failed, repository>> /\ TaskMoves(c)
    /\ task[c].pc = "persist" /\ task'[c].pc = "done" /\ task'[c].signed = NoOrder
    /\ task'[c].outcome = task[c].outcome
    /\ usedNonces \subseteq usedNonces'
    /\ task[c].signed # NoOrder => NonceOf(task[c].signed) \in usedNonces'
    /\ \E inserted : rows' = RowsAfter(task[c].rows, inserted)

PersistFailed(c) ==
    /\ EngineSame /\ UNCHANGED <<rows, usedNonces, nonces, repository>> /\ TaskMoves(c)
    /\ task[c].pc = "persist" /\ task'[c].pc = "done" /\ task'[c].signed = NoOrder
    /\ task'[c].outcome = NoOutcome
    /\ failed \subseteq failed' /\ (task[c].signed # NoOrder => task[c].id \in failed')

ServiceDoes(c) ==
    /\ UNCHANGED session
    /\ \/ Reserves(c) \/ Refused(c) \/ Persisted(c) \/ PersistFailed(c)
       \/ StoreSame /\ \E res : SubmitDone(c, res)
       \/ StoreSame /\ \E hits : CancelDone(c, hits)

GatewayDoes(s) ==
    OthersSame /\ (SessionOnly(s) \/ SubmitStarts(s) \/ CancelStarts(s) \/ CallEnds(s))

Restarts ==
    /\ book' = EmptyBook /\ queue' = <<>> /\ nonces' = {}
    /\ UNCHANGED <<rows, usedNonces, repository, arrived, sender, failed>>
    /\ task' = [c \in Callers |-> IdleTask] /\ session' = [c \in Callers |-> NewSession]

LEMMA NoOutcomeIsOutcome == NoOutcome \in Outcome
BY DEF NoOutcome, Outcome

LEMMA ReserveDoes ==
    ASSUME Types, NEW c \in Callers, ReserveNonce(c)
    PROVE  Reserves(c)
<1>1. task[c] \in Task /\ task' = [task EXCEPT ![c].pc = "process"]
  BY DEF Types, ReserveNonce
<1>2. TaskMoves(c) /\ task'[c].pc = "process" /\ task'[c].signed = task[c].signed
  BY <1>1 DEF Types, Task, TaskMoves
<1> QED BY <1>2 DEF ReserveNonce, Reserves, EngineSame, engineVars, storeVars

LEMMA RefuseDoes ==
    ASSUME Types, NEW c \in Callers, NonceAlreadyUsed(c)
    PROVE  Refused(c)
<1>1. /\ TaskMoves(c) /\ task'[c].pc = "done" /\ task'[c].signed = NoOrder
      /\ task'[c].outcome = NoOutcome
  BY ReturnMoves, NoOutcomeIsOutcome DEF NonceAlreadyUsed
<1> QED BY <1>1 DEF NonceAlreadyUsed, Refused, EngineSame, StoreSame, engineVars, storeVars

LEMMA PersistDoes ==
    ASSUME Types, NEW c \in Callers, PersistSubmission(c) \/ PersistCancel(c)
    PROVE  Persisted(c)
<1>1. task[c].outcome \in Outcome
  BY DEF Types, Task
<1>2. Return(c, task[c].outcome) /\ task[c].pc = "persist"
  BY DEF PersistSubmission, PersistCancel
<1>3. /\ TaskMoves(c) /\ task'[c].pc = "done" /\ task'[c].signed = NoOrder
      /\ task'[c].outcome = task[c].outcome
  <2>1. PICK o \in Outcome : o = task[c].outcome
    BY <1>1
  <2>2. Return(c, o)
    BY <1>2, <2>1
  <2> QED BY <2>1, <2>2, ReturnMoves
<1>4. EngineSame /\ UNCHANGED <<nonces, failed, repository>>
  BY DEF PersistSubmission, PersistCancel, EngineSame, engineVars
<1>5. /\ usedNonces \subseteq usedNonces'
      /\ task[c].signed # NoOrder => NonceOf(task[c].signed) \in usedNonces'
      /\ \E inserted : rows' = RowsAfter(task[c].rows, inserted)
  BY DEF PersistSubmission, PersistCancel
<1> QED BY <1>2, <1>3, <1>4, <1>5 DEF Persisted

LEMMA PersistFailDoes ==
    ASSUME Types, NEW c \in Callers, PersistFails(c)
    PROVE  PersistFailed(c)
<1>1. /\ TaskMoves(c) /\ task'[c].pc = "done" /\ task'[c].signed = NoOrder
      /\ task'[c].outcome = NoOutcome
  BY ReturnMoves, NoOutcomeIsOutcome DEF PersistFails
<1> QED BY <1>1 DEF PersistFails, PersistFailed, EngineSame, engineVars, storeVars

LEMMA ServiceSteps ==
    ASSUME Types, Engine, NEW c \in Callers, ServiceStep(c), UNCHANGED session
    PROVE  ServiceDoes(c)
<1>1. CASE ReserveNonce(c)
  BY <1>1, ReserveDoes DEF ServiceDoes
<1>2. CASE NonceAlreadyUsed(c)
  BY <1>2, RefuseDoes DEF ServiceDoes
<1>3. CASE ProcessSubmit(c)
  <2>1. StoreSame
    BY <1>3 DEF ProcessSubmit, StoreSame, storeVars
  <2> QED BY <1>3, <2>1, ProcessSubmitDoes DEF ServiceDoes
<1>4. CASE PersistSubmission(c) \/ PersistCancel(c)
  BY <1>4, PersistDoes DEF ServiceDoes
<1>5. CASE PersistFails(c)
  BY <1>5, PersistFailDoes DEF ServiceDoes
<1>6. CASE ProcessCancel(c)
  <2>1. StoreSame
    BY <1>6 DEF ProcessCancel, StoreSame, storeVars
  <2> QED BY <1>6, <2>1, ProcessCancelDoes DEF ServiceDoes
<1> QED BY <1>1, <1>2, <1>3, <1>4, <1>5, <1>6 DEF ServiceStep

LEMMA SubmitPayloadDoes ==
    ASSUME Types, NEW s \in Callers, SubmitPayload(s)
    PROVE  OthersSame /\ SubmitStarts(s)
<1>1. session[s].live /\ session[s].call = "none" /\ task[s].pc = "idle"
  BY DEF Types, CallFits, SubmitPayload, SubmitSignedOrder
<1>2. OthersSame
  BY DEF SubmitPayload, SubmitSignedOrder, OthersSame, engineVars, storeVars
<1> QED BY <1>1, <1>2, SubmitPayloadMoves DEF SubmitStarts

LEMMA Steps ==
    ASSUME Types, Engine, [Next]_vars
    PROVE  \/ UNCHANGED vars
           \/ \E s \in Callers : GatewayDoes(s) \/ ServiceDoes(s)
           \/ Restarts
<1>1. CASE UNCHANGED vars
  BY <1>1
<1>2. CASE Restart
  BY <1>2 DEF Restart, RestartService, Restarts, storeVars, Sessions
<1>3. ASSUME NEW s \in Callers, ServiceStep(s), UNCHANGED session
      PROVE  ServiceDoes(s)
  BY <1>3, ServiceSteps
<1>4. ASSUME NEW s \in Callers,
             \/ \E account \in Accounts : Auth(s, account)
             \/ \E batch \in Batches : SubmitOrders(s, batch)
             \/ \E legs \in Quotes, previous \in BOOLEAN : QuoteReplace(s, legs, previous)
             \/ SubmitPayload(s) \/ RefusePayload(s) \/ RegisterOpen(s)
             \/ CancelOrder(s) \/ CancelAll(s) \/ CancelReturns(s)
             \/ DisconnectCancelling(s) \/ DisconnectPlainly(s) \/ Disconnected(s)
      PROVE  GatewayDoes(s)
  <2>1. CASE \E account \in Accounts : Auth(s, account)
    BY <2>1, AuthDoes DEF GatewayDoes
  <2>2. CASE \E batch \in Batches : SubmitOrders(s, batch)
    BY <2>2, SubmitOrdersDoes DEF GatewayDoes
  <2>3. CASE \E legs \in Quotes, previous \in BOOLEAN : QuoteReplace(s, legs, previous)
    BY <2>3, QuoteReplaceDoes DEF GatewayDoes
  <2>4. CASE SubmitPayload(s)
    BY <2>4, SubmitPayloadDoes DEF GatewayDoes
  <2>5. CASE RefusePayload(s)
    BY <2>5, RefusePayloadDoes DEF GatewayDoes
  <2>6. CASE RegisterOpen(s)
    BY <2>6, RegisterOpenDoes DEF GatewayDoes
  <2>7. CASE CancelOrder(s)
    BY <2>7, CancelOrderDoes DEF GatewayDoes
  <2>8. CASE CancelAll(s)
    BY <2>8, CancelAllDoes DEF GatewayDoes
  <2>9. CASE CancelReturns(s)
    BY <2>9, CancelReturnsDoes DEF GatewayDoes
  <2>10. CASE DisconnectCancelling(s)
    BY <2>10, DisconnectCancellingDoes DEF GatewayDoes
  <2>11. CASE DisconnectPlainly(s)
    BY <2>11, DisconnectPlainlyDoes DEF GatewayDoes
  <2>12. CASE Disconnected(s)
    BY <2>12, DisconnectedDoes DEF GatewayDoes
  <2> QED BY <1>4, <2>1, <2>2, <2>3, <2>4, <2>5, <2>6, <2>7, <2>8, <2>9, <2>10, <2>11, <2>12
<1> QED BY <1>1, <1>2, <1>3, <1>4 DEF Next, Sessions

LEMMA TypesStep ==
    ASSUME Types, Engine, [Next]_vars
    PROVE  Types'
<1>1. CASE UNCHANGED vars
  BY <1>1 DEF vars, serviceVars, Types
<1>2. CASE Restarts
  <2>1. task' \in [Callers -> Task] /\ session' \in [Callers -> Session]
    BY <1>2, IdleIsTask, NewSessionIsSession DEF Restarts
  <2>2. CallFits(IdleTask, NewSession)
    BY DEF CallFits, IdleTask, NewSession
  <2> QED BY <1>2, <2>1, <2>2 DEF Restarts, Types
<1>3. ASSUME NEW s \in Callers, GatewayDoes(s)
      PROVE  Types'
  <2>1. CallFits(task[s], session[s]) /\ session[s] \in Session
    BY DEF Types
  <2>2. CASE SessionOnly(s)
    BY <1>3, <2>1, <2>2, TypesKept DEF GatewayDoes, SessionOnly, CallFits, OthersSame
  <2>3. CASE SubmitStarts(s)
    BY <1>3, <2>1, <2>3, TypesKept, SignedOrdersAreOrders DEF GatewayDoes, SubmitStarts, CallFits, OthersSame
  <2>4. CASE CancelStarts(s)
    BY <1>3, <2>1, <2>4, TypesKept DEF GatewayDoes, CancelStarts, CallFits, OthersSame
  <2>5. CASE CallEnds(s)
    BY <1>3, <2>1, <2>5, TypesKept DEF GatewayDoes, CallEnds, CallFits, OthersSame
  <2> QED BY <1>3, <2>2, <2>3, <2>4, <2>5 DEF GatewayDoes
<1>4. ASSUME NEW c \in Callers, ServiceDoes(c)
      PROVE  Types'
  <2>1. CallFits(task[c], session[c]) /\ session'[c] = session[c] /\ UNCHANGED session
        /\ session[c] \in Session
    BY <1>4 DEF Types, ServiceDoes
  <2>6. session[c].call \in {"none", "submit", "cancel", "disconnect"}
    BY <2>1 DEF Session
  <2>2. CASE Reserves(c)
    BY <2>1, <2>2, <2>6, TypesKept DEF Reserves, CallFits
  <2>3. CASE Refused(c) \/ Persisted(c) \/ PersistFailed(c)
    BY <2>1, <2>3, <2>6, TypesKept DEF Refused, Persisted, PersistFailed, StoreSame, CallFits
  <2>4. ASSUME StoreSame, NEW res, SubmitDone(c, res)
        PROVE  Types'
    BY <2>1, <2>4, <2>6, TypesKept, SignedOrdersAreOrders DEF SubmitDone, StoreSame, CallFits
  <2>5. ASSUME StoreSame, NEW hits, CancelDone(c, hits)
        PROVE  Types'
    BY <2>1, <2>5, <2>6, TypesKept DEF CancelDone, StoreSame, CallFits
  <2> QED BY <1>4, <2>2, <2>3, <2>4, <2>5 DEF ServiceDoes
<1> QED BY <1>1, <1>2, <1>3, <1>4, Steps

-----------------------------------------------------------------------------
(* The engine's invariant is kept.                                         *)

LEMMA TradedFresh ==
    ASSUME NEW q \in Seq(Trade), NEW o, \A i \in 1 .. Len(q) : q[i].maker # o /\ q[i].taker # o
    PROVE  TradedIn(q, o) = 0
<1>1. {i \in DOMAIN q : o \in {q[i].maker, q[i].taker}} = {}
  OBVIOUS
<1> QED BY <1>1, SumEmpty DEF TradedIn

LEMMA EmptyIsBook ==
    ASSUME NEW n \in Nat
    PROVE  Book(EmptyBook, n, {}) /\ DOMAIN EmptyBook.orders = {} /\ DOMAIN EmptyBook.locations = {}
<1>1. PICK b : b = EmptyBook
  OBVIOUS
<1>2. /\ b = [levels |-> [side \in Sides |-> <<>>], locations |-> <<>>, orders |-> <<>>]
  BY <1>1 DEF EmptyBook
<1>3. /\ b.levels = [side \in Sides |-> <<>>] /\ b.locations = <<>> /\ b.orders = <<>>
      /\ \A side \in Sides : b.levels[side] = <<>>
  BY <1>2
<1>4. DOMAIN <<>> = {}
  OBVIOUS
<1>5. <<>> \in [{} -> Seq(Nat)] /\ <<>> \in [{} -> Place] /\ <<>> \in [{} -> Order]
  OBVIOUS
<1>6. Shaped(b, n)
  <2>1. b = [levels |-> b.levels, locations |-> b.locations, orders |-> b.orders]
    BY <1>2
  <2>2. b.levels = [side \in Sides |-> b.levels[side]]
    BY <1>3
  <2>3. \A side \in Sides : /\ DOMAIN b.levels[side] \subseteq Nat
                            /\ b.levels[side] \in [DOMAIN b.levels[side] -> Seq(Nat)]
    BY <1>3, <1>4, <1>5
  <2>4. /\ b.locations \in [DOMAIN b.locations -> Place] /\ b.orders \in [DOMAIN b.orders -> Order]
        /\ DOMAIN b.orders \subseteq 1 .. n
    BY <1>3, <1>4, <1>5
  <2> QED BY <2>1, <2>2, <2>3, <2>4 DEF Shaped
<1>7. LevelsHold(b) /\ NotCrossed(b) /\ LocatedRest(b) /\ OthersDone(b, {})
  BY <1>3, <1>4 DEF LevelsHold, NotCrossed, LocatedRest, OthersDone, Sides
<1>8. PricesBounded(b)
  BY <1>3, <1>4 DEF PricesBounded
<1> QED BY <1>1, <1>3, <1>4, <1>6, <1>7, <1>8 DEF Book

LEMMA EngineSubmit ==
    ASSUME Engine, NEW c \in Callers, NEW res, SubmitDone(c, res)
    PROVE  Engine'
<1>1. PICK n \in Nat : n = arrived + 1
  BY DEF Engine
<1>2. PICK order : order = NewOrder(task[c].signed)
  OBVIOUS
<1>3. /\ Book(res.book, n, {}) /\ Kept(book, res.book, n) /\ Recorded(res, n, order)
      /\ Counted(book, res, n, order, queue)
      /\ TradesFit(book, res.book, n, res.trades)
  BY <1>1, <1>2 DEF SubmitDone, Submitted
<1>4. order \in Order /\ order.size \in Nat
  BY <1>2, NewOrderIsOrder DEF SubmitDone, Order
<1>5. arrived' = n /\ book' = res.book /\ queue' = queue \o res.trades /\ sender' = With(sender, n, c)
  BY <1>1 DEF SubmitDone
<1>6. sender' \in [1 .. n -> Callers]
  <2>1. sender' = [x \in DOMAIN sender \cup {n} |-> IF x = n THEN c ELSE sender[x]]
    BY <1>5 DEF With
  <2>2. DOMAIN sender \cup {n} = 1 .. n /\ \A x \in DOMAIN sender : sender[x] \in Callers
    BY <1>1 DEF Engine
  <2> QED BY <2>1, <2>2
<1>7. /\ queue \in Seq(Trade) /\ res.trades \in Seq(Trade)
      /\ \A i \in 1 .. Len(res.trades) : res.trades[i].maker \in DOMAIN book.locations /\ res.trades[i].taker = n
  BY <1>3 DEF Engine, TradesFit
<1>8. PICK new \in Seq(Trade) : new = res.trades
  BY <1>7
<1>9. /\ queue \o new \in Seq(Trade) /\ Len(queue \o new) = Len(queue) + Len(new)
      /\ \A i \in 1 .. Len(queue) + Len(new) :
            (queue \o new)[i] = IF i <= Len(queue) THEN queue[i] ELSE new[i - Len(queue)]
  BY <1>7, <1>8, ConcatProperties
<1>10. DOMAIN book.locations \subseteq 1 .. arrived /\ DOMAIN book.orders \subseteq 1 .. arrived
  BY DEF Engine, Book, LocatedRest, Shaped
<1>11. ASSUME NEW i \in 1 .. Len(queue')
       PROVE  queue'[i].maker \in 1 .. n /\ queue'[i].taker \in 1 .. n
  <2>1. Len(queue) \in Nat /\ Len(new) \in Nat /\ i \in 1 .. Len(queue) + Len(new)
    BY <1>5, <1>7, <1>8, <1>9
  <2>2. CASE i <= Len(queue)
    <3>1. i \in 1 .. Len(queue) /\ queue'[i] = queue[i]
      BY <1>5, <1>8, <1>9, <2>1, <2>2
    <3>2. queue[i].maker \in 1 .. arrived /\ queue[i].taker \in 1 .. arrived
      BY <3>1 DEF Engine
    <3> QED BY <1>1, <3>1, <3>2 DEF Engine
  <2>3. CASE ~ (i <= Len(queue))
    <3>1. PICK j : j = i - Len(queue)
      OBVIOUS
    <3>2. j \in 1 .. Len(new) /\ queue'[i] = new[j]
      BY <1>5, <1>8, <1>9, <2>1, <2>3, <3>1
    <3>3. new[j].maker \in 1 .. arrived /\ new[j].taker = n
      BY <1>7, <1>8, <1>10, <3>2
    <3> QED BY <1>1, <3>2, <3>3 DEF Engine
  <2> QED BY <2>2, <2>3
<1>12. Accounting'
  <2> SUFFICES ASSUME NEW o \in DOMAIN res.book.orders
               PROVE  /\ TradedIn(queue \o res.trades, o) <= res.book.orders[o].size
                      /\ o \in DOMAIN res.book.locations \/ res.book.orders[o].status = "Filled"
                            => res.book.orders[o].remaining = res.book.orders[o].size - TradedIn(queue \o res.trades, o)
    BY <1>5 DEF Accounting, Traded
  <2>1. PICK now : now = TradedIn(queue \o res.trades, o)
    OBVIOUS
  <2>2. PICK base \in Nat : base = TradedIn(queue, o)
    BY <1>7, TradedIsNat
  <2>3. CASE o = n
    <3>1. base = 0
      <4>1. \A i \in 1 .. Len(queue) : queue[i].maker # n /\ queue[i].taker # n
        BY <1>1 DEF Engine
      <4> QED BY <1>7, <2>2, <2>3, <4>1, TradedFresh
    <3>2. PICK k \in 0 .. order.size :
             /\ TradedIn(queue \o res.trades, n) = TradedIn(queue, n) + k
             /\ n \in DOMAIN res.book.locations \/ res.book.orders[n].status = "Filled"
                   => res.book.orders[n].remaining = order.size - k
      BY <1>3, <2>3 DEF Counted
    <3>3. now = k
      BY <2>1, <2>2, <2>3, <3>1, <3>2
    <3>4. res.book.orders[n].size = order.size
      BY <1>3, <2>3 DEF Recorded, SameTerms
    <3> QED BY <1>4, <2>1, <2>3, <3>2, <3>3, <3>4
  <2>4. CASE o # n
    <3>1. o \in DOMAIN book.orders
      BY <1>3, <2>4 DEF Kept
    <3>2. PICK x, y, z : x = book.orders[o].remaining /\ y = res.book.orders[o].remaining /\ z = book.orders[o].size
      OBVIOUS
    <3>3. x \in Nat /\ z \in Nat /\ y \in Nat /\ res.book.orders[o].size = z
      <4>1. book.orders[o] \in Order /\ res.book.orders[o] \in Order
        BY <1>3, <3>1 DEF Engine, Book, Shaped
      <4>2. res.book.orders[o].size = z
        BY <1>3, <3>1, <3>2 DEF Kept, SameTerms
      <4> QED BY <3>2, <4>1, <4>2 DEF Order
    <3>4. now = base + (x - y)
      BY <1>3, <2>1, <2>2, <3>1, <3>2 DEF Counted
    <3>5. /\ base <= z
          /\ o \in DOMAIN book.locations \/ book.orders[o].status = "Filled" => x = z - base
      BY <2>2, <3>1, <3>2 DEF Engine, Accounting, Traded
    <3>6. CASE o \in DOMAIN book.locations
      <4>1. x = z - base
        BY <3>5, <3>6
      <4>3. now = z - y
        BY <2>2, <3>3, <3>4, <4>1
      <4>4. now <= z /\ y = z - now
        BY <3>3, <4>3
      <4> QED BY <2>1, <3>2, <3>3, <4>4
    <3>7. CASE o \notin DOMAIN book.locations
      <4>1. res.book.orders[o] = book.orders[o] /\ o \notin DOMAIN res.book.locations
        BY <1>3, <2>4, <3>1, <3>7 DEF Kept
      <4>2. y = x /\ now = base
        BY <2>2, <3>2, <3>3, <3>4, <4>1
      <4> QED BY <2>1, <3>2, <3>3, <3>5, <4>1, <4>2
    <3> QED BY <3>6, <3>7
  <2> QED BY <2>3, <2>4
<1>13. queue' \in Seq(Trade)
  BY <1>5, <1>8, <1>9
<1> QED BY <1>3, <1>5, <1>6, <1>11, <1>12, <1>13 DEF Engine

LEMMA EngineCancel ==
    ASSUME Engine, NEW c \in Callers, NEW hits, CancelDone(c, hits)
    PROVE  Engine'
<1>1. AllCancelled(book, book', hits, arrived) /\ UNCHANGED <<queue, arrived, sender>>
      /\ hits \subseteq DOMAIN book.locations
  BY DEF CancelDone
<1>2. hits \subseteq DOMAIN book.orders
  BY <1>1 DEF Engine, Book, LocatedRest
<1>3. Accounting'
  <2> SUFFICES ASSUME NEW o \in DOMAIN book'.orders
               PROVE  /\ TradedIn(queue, o) <= book'.orders[o].size
                      /\ o \in DOMAIN book'.locations \/ book'.orders[o].status = "Filled"
                            => book'.orders[o].remaining = book'.orders[o].size - TradedIn(queue, o)
    BY <1>1 DEF Accounting, Traded
  <2>1. o \in DOMAIN book.orders
    BY <1>1 DEF AllCancelled
  <2>2. CASE o \in hits
    <3>1. book'.orders[o] = CancelledOrder(book.orders[o]) /\ o \notin DOMAIN book'.locations
      BY <1>1, <2>2 DEF AllCancelled
    <3>2. book.orders[o] \in Order
      BY <2>1 DEF Engine, Book, Shaped
    <3>3. book'.orders[o].size = book.orders[o].size /\ book'.orders[o].status # "Filled"
      BY <3>1, <3>2 DEF CancelledOrder, Order
    <3> QED BY <2>1, <3>1, <3>3 DEF Engine, Accounting, Traded
  <2>3. CASE o \notin hits
    <3>1. book'.orders[o] = book.orders[o] /\ (o \in DOMAIN book'.locations => o \in DOMAIN book.locations)
      BY <1>1, <2>1, <2>3 DEF AllCancelled
    <3> QED BY <2>1, <3>1 DEF Engine, Accounting, Traded
  <2> QED BY <2>2, <2>3
<1>4. Book(book', arrived, {})
  BY <1>1 DEF AllCancelled
<1> QED BY <1>1, <1>3, <1>4 DEF Engine

LEMMA EngineStep ==
    ASSUME Types, Engine, [Next]_vars
    PROVE  Engine'
<1>1. ASSUME EngineSame
      PROVE  Engine'
  BY <1>1 DEF EngineSame, Engine, Accounting, Traded
<1>2. CASE UNCHANGED vars
  BY <1>1, <1>2 DEF vars, serviceVars, EngineSame
<1>3. CASE Restarts
  <2>1. arrived \in Nat /\ book' = EmptyBook /\ queue' = <<>> /\ arrived' = arrived /\ sender' = sender
    BY <1>3 DEF Restarts, Engine
  <2>2. Book(EmptyBook, arrived, {}) /\ DOMAIN EmptyBook.orders = {}
    BY <2>1, EmptyIsBook
  <2>3. Accounting'
    BY <2>1, <2>2 DEF Accounting
  <2>4. queue' \in Seq(Trade) /\ Len(queue') = 0
    BY <2>1
  <2> QED BY <2>1, <2>2, <2>3, <2>4 DEF Engine
<1>4. ASSUME NEW s \in Callers, GatewayDoes(s)
      PROVE  Engine'
  BY <1>1, <1>4 DEF GatewayDoes, OthersSame, EngineSame
<1>5. ASSUME NEW c \in Callers, ServiceDoes(c)
      PROVE  Engine'
  <2>1. CASE Reserves(c) \/ Refused(c) \/ Persisted(c) \/ PersistFailed(c)
    BY <1>1, <2>1 DEF Reserves, Refused, Persisted, PersistFailed
  <2> QED BY <1>5, <2>1, EngineSubmit, EngineCancel DEF ServiceDoes
<1> QED BY <1>2, <1>3, <1>4, <1>5, Steps

-----------------------------------------------------------------------------
(* Rows stay behind the engine.                                            *)

LEMMA RowNumbers ==
    ASSUME NEW r \in RowMaps
    PROVE  \A o \in DOMAIN r : r[o] \in Row /\ r[o].remaining \in Nat
<1>1. PICK D \in SUBSET Nat : r \in [D -> Row]
  BY DEF RowMaps
<1> QED BY <1>1 DEF Row

LEMMA OrderNumbers ==
    ASSUME NEW n, NEW open, NEW b, Book(b, n, open)
    PROVE  /\ DOMAIN b.orders \subseteq 1 .. n
           /\ \A o \in DOMAIN b.orders : b.orders[o] \in Order /\ b.orders[o].remaining \in Nat
<1>1. DOMAIN b.orders \subseteq 1 .. n /\ \A o \in DOMAIN b.orders : b.orders[o] \in Order
  BY DEF Book, Shaped
<1> QED BY <1>1 DEF Order

\* The orders the engine already had do not grow.
Shrinks(b, c, n) ==
    \A o \in DOMAIN c.orders : o \in 1 .. n =>
       /\ o \in DOMAIN b.orders
       /\ b.orders[o].remaining \in Nat /\ c.orders[o].remaining \in Nat
       /\ c.orders[o].remaining <= b.orders[o].remaining

LEMMA StillBehind ==
    ASSUME NEW n, NEW b, NEW c, Shrinks(b, c, n),
           NEW r \in RowMaps, DOMAIN r \subseteq 1 .. n, NotAhead(r, b)
    PROVE  NotAhead(r, c)
<1> SUFFICES ASSUME NEW o \in DOMAIN r, o \in DOMAIN c.orders
             PROVE  r[o].remaining >= c.orders[o].remaining
  BY DEF NotAhead
<1>1. PICK x, y, z : x = r[o].remaining /\ y = b.orders[o].remaining /\ z = c.orders[o].remaining
  OBVIOUS
<1>2. o \in DOMAIN b.orders /\ y \in Nat /\ z \in Nat /\ z <= y
  BY <1>1 DEF Shrinks
<1>3. x \in Nat /\ x >= y
  BY <1>1, <1>2, RowNumbers DEF NotAhead
<1> QED BY <1>1, <1>2, <1>3

LEMMA RowsOfBehind ==
    ASSUME NEW n, NEW open, NEW b, Book(b, n, open), NEW r, RowsOf(r, b)
    PROVE  DOMAIN r \subseteq 1 .. n /\ NotAhead(r, b)
<1>1. ASSUME NEW o \in DOMAIN r
      PROVE  o \in 1 .. n /\ r[o].remaining >= b.orders[o].remaining
  <2>1. PICK x : x = b.orders[o].remaining
    OBVIOUS
  <2>2. x \in Nat /\ r[o].remaining = x /\ o \in 1 .. n
    BY <2>1, OrderNumbers DEF RowsOf
  <2> QED BY <2>1, <2>2
<1> QED BY <1>1 DEF NotAhead

LEMMA WrittenBehind ==
    ASSUME NEW n, NEW b, NEW inserted,
           rows \in RowMaps, DOMAIN rows \subseteq 1 .. n, NotAhead(rows, b),
           NEW w \in RowMaps, DOMAIN w \subseteq 1 .. n, NotAhead(w, b),
           NEW r, r = RowsAfter(w, inserted)
    PROVE  r \in RowMaps /\ DOMAIN r \subseteq 1 .. n /\ NotAhead(r, b)
<1>1. PICK D : D = DOMAIN rows \cup (DOMAIN w \cap inserted)
  OBVIOUS
<1>2. r = [o \in D |-> IF o \in DOMAIN w THEN w[o] ELSE rows[o]]
  BY <1>1 DEF RowsAfter
<1>3. D \subseteq 1 .. n /\ D \in SUBSET Nat
  BY <1>1
<1>4. \A o \in D : r[o] \in Row
  BY <1>1, <1>2, RowNumbers
<1>5. r \in [D -> Row]
  BY <1>2, <1>4
<1>6. r \in RowMaps
  <2>1. [D -> Row] \in {[E -> Row] : E \in SUBSET Nat}
    BY <1>3
  <2> QED BY <1>5, <2>1 DEF RowMaps
<1>7. NotAhead(r, b)
  BY <1>1, <1>2 DEF NotAhead
<1> QED BY <1>2, <1>3, <1>6, <1>7

\* One caller moves, and the rows it holds then are behind.
LEMMA RowsBehindMoves ==
    ASSUME Types, RowsBehind, arrived \in Nat, arrived' \in Nat, arrived <= arrived',
           Shrinks(book, book', arrived), NEW c \in Callers, TaskMoves(c), rows' = rows,
           task'[c].pc = "persist" =>
              DOMAIN task'[c].rows \subseteq 1 .. arrived' /\ NotAhead(task'[c].rows, book')
    PROVE  RowsBehind'
<1>1. PICK after : after = book'
  OBVIOUS
<1>2. 1 .. arrived \subseteq 1 .. arrived'
  OBVIOUS
<1>3. rows \in RowMaps /\ DOMAIN rows \subseteq 1 .. arrived /\ NotAhead(rows, after)
  BY <1>1, StillBehind DEF RowsBehind
<1>4. ASSUME NEW d \in Callers, task'[d].pc = "persist"
      PROVE  DOMAIN task'[d].rows \subseteq 1 .. arrived' /\ NotAhead(task'[d].rows, book')
  <2>1. CASE d = c
    BY <1>4, <2>1
  <2>2. CASE d # c
    <3>1. task'[d] = task[d] /\ task[d] \in Task
      BY <2>2 DEF TaskMoves, Types
    <3>2. PICK r \in RowMaps : r = task[d].rows
      BY <3>1 DEF Task
    <3>3. DOMAIN r \subseteq 1 .. arrived /\ NotAhead(r, book)
      BY <1>4, <3>1, <3>2 DEF RowsBehind
    <3>4. NotAhead(r, after)
      BY <1>1, <3>3, StillBehind
    <3> QED BY <1>1, <1>2, <3>1, <3>2, <3>3, <3>4
  <2> QED BY <2>1, <2>2
<1> QED BY <1>1, <1>2, <1>3, <1>4 DEF RowsBehind

LEMMA RowsBehindStep ==
    ASSUME Types, Engine, RowsBehind, [Next]_vars, Engine'
    PROVE  RowsBehind'
<1>1. arrived \in Nat /\ arrived' \in Nat /\ Book(book, arrived, {}) /\ Book(book', arrived', {})
  BY DEF Engine
<1>2. PICK open : open = {}
  OBVIOUS
<1>3. Book(book, arrived, open) /\ Book(book', arrived', open)
  BY <1>1, <1>2
<1>4. /\ DOMAIN book.orders \subseteq 1 .. arrived
      /\ \A o \in DOMAIN book.orders : book.orders[o] \in Order /\ book.orders[o].remaining \in Nat
  BY <1>3, OrderNumbers
<1>5. PICK after, m : after = book' /\ m = arrived'
  OBVIOUS
<1>6. \A o \in DOMAIN after.orders : after.orders[o].remaining \in Nat
  BY <1>3, <1>5, OrderNumbers
<1>7. ASSUME EngineSame
      PROVE  arrived <= arrived' /\ Shrinks(book, book', arrived)
  BY <1>1, <1>4, <1>7 DEF EngineSame, Shrinks
<1>8. CASE UNCHANGED vars
  BY <1>8 DEF vars, serviceVars, RowsBehind, NotAhead
<1>9. CASE Restarts
  <2>1. DOMAIN EmptyBook.orders = {} /\ \A c \in Callers : task'[c].pc = "idle"
    BY <1>1, <1>9, EmptyIsBook DEF Restarts, IdleTask
  <2>2. rows' = rows /\ arrived' = arrived /\ book' = EmptyBook
    BY <1>9 DEF Restarts
  <2> QED BY <2>1, <2>2 DEF RowsBehind, NotAhead
<1>10. ASSUME NEW s \in Callers, GatewayDoes(s)
       PROVE  RowsBehind'
  <2>1. EngineSame /\ rows' = rows
    BY <1>10 DEF GatewayDoes, OthersSame, EngineSame
  <2>2. CASE SessionOnly(s)
    BY <2>1, <2>2 DEF SessionOnly, RowsBehind, NotAhead, EngineSame
  <2>3. CASE SubmitStarts(s) \/ CancelStarts(s) \/ CallEnds(s)
    <3>1. TaskMoves(s) /\ task'[s].pc # "persist"
      BY <2>3 DEF SubmitStarts, CancelStarts, CallEnds
    <3> QED BY <1>1, <1>7, <2>1, <3>1, RowsBehindMoves
  <2> QED BY <1>10, <2>2, <2>3 DEF GatewayDoes
<1>11. ASSUME NEW c \in Callers, ServiceDoes(c)
       PROVE  RowsBehind'
  <2>1. CASE Reserves(c) \/ Refused(c) \/ PersistFailed(c)
    <3>1. EngineSame /\ rows' = rows /\ TaskMoves(c) /\ task'[c].pc # "persist"
      BY <2>1 DEF Reserves, Refused, PersistFailed, StoreSame
    <3> QED BY <1>1, <1>7, <3>1, RowsBehindMoves
  <2>2. CASE Persisted(c)
    <3>1. EngineSame /\ TaskMoves(c) /\ task[c].pc = "persist" /\ task'[c].pc = "done"
      BY <2>2 DEF Persisted
    <3>2. PICK inserted : rows' = RowsAfter(task[c].rows, inserted)
      BY <2>2 DEF Persisted
    <3>3. PICK w \in RowMaps : w = task[c].rows
      BY DEF Types, Task
    <3>4. DOMAIN w \subseteq 1 .. arrived /\ NotAhead(w, book)
      BY <3>1, <3>3 DEF RowsBehind
    <3>5. PICK r : r = rows'
      OBVIOUS
    <3>6. r \in RowMaps /\ DOMAIN r \subseteq 1 .. arrived /\ NotAhead(r, book)
      BY <3>2, <3>3, <3>4, <3>5, WrittenBehind DEF RowsBehind
    <3>7. \A d \in Callers : task'[d].pc = "persist" =>
             DOMAIN task'[d].rows \subseteq 1 .. arrived /\ NotAhead(task'[d].rows, book)
      BY <3>1 DEF TaskMoves, RowsBehind
    <3> QED BY <3>1, <3>5, <3>6, <3>7 DEF EngineSame, RowsBehind, NotAhead
  <2>3. ASSUME StoreSame, NEW res, SubmitDone(c, res)
        PROVE  RowsBehind'
    <3>1. /\ arrived' = arrived + 1 /\ book' = res.book /\ TaskMoves(c) /\ rows' = rows
          /\ task'[c].pc = "persist" => RowsOf(task'[c].rows, res.book)
      BY <2>3 DEF SubmitDone, StoreSame, Types
    <3>2. Kept(book, res.book, m)
      BY <1>5, <2>3, <3>1 DEF SubmitDone, Submitted
    <3>3. m \notin 1 .. arrived /\ arrived <= arrived'
      BY <1>1, <1>5, <3>1
    <3>4. Shrinks(book, book', arrived)
      BY <1>4, <1>5, <1>6, <3>1, <3>2, <3>3 DEF Shrinks, Kept
    <3>5. task'[c].pc = "persist" =>
             DOMAIN task'[c].rows \subseteq 1 .. arrived' /\ NotAhead(task'[c].rows, book')
      BY <1>3, <3>1, RowsOfBehind
    <3> QED BY <1>1, <3>1, <3>3, <3>4, <3>5, RowsBehindMoves
  <2>4. ASSUME StoreSame, NEW hits, CancelDone(c, hits)
        PROVE  RowsBehind'
    <3>1. /\ arrived' = arrived /\ TaskMoves(c) /\ rows' = rows
          /\ task'[c].pc = "persist" => RowsOf(task'[c].rows, book')
          /\ AllCancelled(book, after, hits, arrived)
      BY <1>5, <2>4 DEF CancelDone, StoreSame
    <3>2. ASSUME NEW o \in DOMAIN after.orders
          PROVE  o \in DOMAIN book.orders /\ after.orders[o].remaining <= book.orders[o].remaining
      <4>1. o \in DOMAIN book.orders /\ book.orders[o] \in Order /\ book.orders[o].remaining \in Nat
        BY <1>4, <3>1, <3>2 DEF AllCancelled
      <4>2. CASE o \in hits
        <5>1. after.orders[o] = CancelledOrder(book.orders[o])
          BY <3>1, <4>2 DEF AllCancelled
        <5>2. after.orders[o].remaining = 0
          BY <4>1, <5>1 DEF CancelledOrder, Order
        <5> QED BY <4>1, <5>2
      <4>3. CASE o \notin hits
        BY <3>1, <4>1, <4>3 DEF AllCancelled
      <4> QED BY <4>1, <4>2, <4>3
    <3>3. Shrinks(book, book', arrived)
      BY <1>4, <1>5, <1>6, <3>2 DEF Shrinks
    <3>4. task'[c].pc = "persist" =>
             DOMAIN task'[c].rows \subseteq 1 .. arrived' /\ NotAhead(task'[c].rows, book')
      BY <1>3, <3>1, RowsOfBehind
    <3>5. arrived <= arrived'
      BY <1>1, <3>1
    <3> QED BY <1>1, <3>1, <3>3, <3>4, <3>5, RowsBehindMoves
  <2> QED BY <1>11, <2>1, <2>2, <2>3, <2>4 DEF ServiceDoes
<1> QED BY <1>8, <1>9, <1>10, <1>11, Steps

-----------------------------------------------------------------------------
(* A nonce in use stays in use, and a signed order is taken once.          *)

\* The orders of c are orders of b, with their nonces.
NoncesKept(b, c) ==
    \A o \in DOMAIN c.orders : o \in DOMAIN b.orders /\ NonceOf(c.orders[o]) = NonceOf(b.orders[o])

LEMMA NonceStaysTaken ==
    ASSUME NEW c \in Callers, TaskMoves(c), NEW o, NonceTaken(o),
           NonceOf(book'.orders[o]) = NonceOf(book.orders[o]),
           failed \subseteq failed', nonces \subseteq nonces', usedNonces \subseteq usedNonces',
           Persisting(c, o) /\ NonceOf(task[c].signed) = NonceOf(book.orders[o]) => NonceTaken(o)'
    PROVE  NonceTaken(o)'
<1>1. CASE o \in failed \/ NonceOf(book.orders[o]) \in nonces \cup usedNonces
  BY <1>1 DEF NonceTaken
<1>2. ASSUME NEW d \in Callers, Persisting(d, o), NonceOf(task[d].signed) = NonceOf(book.orders[o])
      PROVE  NonceTaken(o)'
  <2>1. CASE d = c
    BY <1>2, <2>1
  <2>2. CASE d # c
    <3>1. task'[d] = task[d]
      BY <2>2 DEF TaskMoves
    <3> QED BY <1>2, <3>1 DEF NonceTaken, Persisting
  <2> QED BY <2>1, <2>2
<1> QED BY <1>1, <1>2 DEF NonceTaken

\* One caller moves, not to the engine, and no order is added.
LEMMA NoncesHeldMoves ==
    ASSUME NoncesHeld, NEW c \in Callers, TaskMoves(c), NoncesKept(book, book'),
           failed \subseteq failed', nonces \subseteq nonces', usedNonces \subseteq usedNonces',
           repository' = repository, task'[c].pc # "process", task'[c].pc = "persist" => repository,
           \A o \in DOMAIN book.orders :
              Persisting(c, o) /\ NonceOf(task[c].signed) = NonceOf(book.orders[o]) => NonceTaken(o)'
    PROVE  NoncesHeld'
<1>1. ASSUME NEW o \in DOMAIN book'.orders
      PROVE  NonceTaken(o)'
  <2>1. /\ o \in DOMAIN book.orders /\ NonceOf(book'.orders[o]) = NonceOf(book.orders[o])
        /\ NonceTaken(o)
    BY DEF NoncesKept, NoncesHeld
  <2> QED BY <2>1, NonceStaysTaken
<1>2. ASSUME NEW d \in Callers, task'[d].pc = "process"
      PROVE  /\ d # c /\ task'[d] = task[d] /\ task[d].pc = "process"
  BY <1>2 DEF TaskMoves
<1>3. ASSUME NEW d \in Callers, task'[d].pc = "process"
      PROVE  /\ \A o \in DOMAIN book'.orders :
                   NonceOf(book'.orders[o]) = NonceOf(task'[d].signed) => o \in failed'
             /\ \A e \in Callers : task'[e].pc = "process" /\ NonceOf(task'[e].signed) = NonceOf(task'[d].signed) => e = d
             /\ ~ repository' => NonceOf(task'[d].signed) \in nonces'
  <2>1. task'[d] = task[d] /\ task[d].pc = "process"
    BY <1>2, <1>3
  <2>2. \A o \in DOMAIN book'.orders :
           NonceOf(book'.orders[o]) = NonceOf(task'[d].signed) => o \in failed'
    BY <2>1 DEF NoncesKept, NoncesHeld
  <2>3. \A e \in Callers : task'[e].pc = "process" /\ NonceOf(task'[e].signed) = NonceOf(task'[d].signed) => e = d
    BY <1>2, <2>1 DEF NoncesHeld
  <2> QED BY <2>1, <2>2, <2>3 DEF NoncesHeld
<1>4. \A d \in Callers : task'[d].pc = "persist" => repository'
  BY DEF TaskMoves, NoncesHeld
<1> QED BY <1>1, <1>3, <1>4 DEF NoncesHeld

LEMMA NoncesHeldReserves ==
    ASSUME Types, NoncesHeld, NEW c \in Callers, Reserves(c)
    PROVE  NoncesHeld'
<1>1. PICK nonce : nonce = NonceOf(task[c].signed)
  OBVIOUS
<1>2. /\ book' = book /\ failed' = failed /\ usedNonces' = usedNonces /\ repository' = repository
      /\ nonces \subseteq nonces' /\ (~ repository => nonce \in nonces')
      /\ TaskMoves(c) /\ task[c].pc = "reserve" /\ task'[c].pc = "process"
      /\ task'[c].signed = task[c].signed
  BY <1>1 DEF Reserves, EngineSame
<1>3. nonce \notin HeldNonces /\ nonce \notin nonces /\ nonce \notin usedNonces
  BY <1>1 DEF Reserves
<1>4. ASSUME NEW d \in Callers, repository, task[d].pc \in {"process", "persist"}, task[d].signed # NoOrder
      PROVE  NonceOf(task[d].signed) # nonce
  BY <1>3, <1>4 DEF HeldNonces
<1>5. \A o \in DOMAIN book'.orders : NonceTaken(o)'
  <2>1. \A o \in DOMAIN book.orders : NonceTaken(o) /\ ~ Persisting(c, o)
    BY <1>2 DEF NoncesHeld, Persisting
  <2> QED BY <1>2, <2>1, NonceStaysTaken
<1>6. ASSUME NEW o \in DOMAIN book.orders, NonceOf(book.orders[o]) = nonce
      PROVE  o \in failed
  <2>1. NonceTaken(o)
    BY DEF NoncesHeld
  <2>2. \A d \in Callers : Persisting(d, o) => NonceOf(task[d].signed) # nonce
    BY <1>4 DEF Persisting, NoncesHeld
  <2> QED BY <1>3, <1>6, <2>1, <2>2 DEF NonceTaken
<1>7. ASSUME NEW d \in Callers, task[d].pc = "process"
      PROVE  NonceOf(task[d].signed) # nonce
  <2>1. task[d].signed # NoOrder
    BY <1>7 DEF Types, CallFits
  <2>2. ~ repository => NonceOf(task[d].signed) \in nonces
    BY <1>7 DEF NoncesHeld
  <2> QED BY <1>3, <1>4, <1>7, <2>1, <2>2
<1>8. \A d \in Callers \ {c} : task'[d] = task[d]
  BY <1>2 DEF TaskMoves
<1>9. ASSUME NEW d \in Callers, task'[d].pc = "process"
      PROVE  /\ \A o \in DOMAIN book'.orders :
                   NonceOf(book'.orders[o]) = NonceOf(task'[d].signed) => o \in failed'
             /\ \A e \in Callers : task'[e].pc = "process" /\ NonceOf(task'[e].signed) = NonceOf(task'[d].signed) => e = d
             /\ ~ repository' => NonceOf(task'[d].signed) \in nonces'
  <2>1. CASE d = c
    BY <1>1, <1>2, <1>6, <1>7, <1>8, <2>1
  <2>2. CASE d # c
    <3>1. task'[d] = task[d] /\ task[d].pc = "process"
      BY <1>8, <1>9, <2>2
    <3>2. \A e \in Callers : task'[e].pc = "process" /\ NonceOf(task'[e].signed) = NonceOf(task[d].signed) => e = d
      BY <1>1, <1>2, <1>7, <1>8, <3>1 DEF NoncesHeld
    <3> QED BY <1>2, <3>1, <3>2 DEF NoncesHeld
  <2> QED BY <2>1, <2>2
<1>10. \A d \in Callers : task'[d].pc = "persist" => repository'
  BY <1>2, <1>8 DEF NoncesHeld
<1> QED BY <1>5, <1>9, <1>10 DEF NoncesHeld

\* What a submission does to the nonces in the book.
LEMMA SubmittedNonces ==
    ASSUME Engine, NEW c \in Callers, NEW res, SubmitDone(c, res), NEW n, n = arrived + 1
    PROVE  /\ n \in Nat /\ n > arrived /\ n \notin DOMAIN book.orders
           /\ DOMAIN book'.orders \subseteq DOMAIN book.orders \cup {n}
           /\ \A o \in DOMAIN book.orders : NonceOf(book'.orders[o]) = NonceOf(book.orders[o])
           /\ n \in DOMAIN book'.orders => NonceOf(book'.orders[n]) = NonceOf(task[c].signed)
<1>1. PICK order : order = NewOrder(task[c].signed)
  OBVIOUS
<1>2. Kept(book, res.book, n) /\ Recorded(res, n, order) /\ book' = res.book
  BY <1>1 DEF SubmitDone, Submitted
<1>3. n \in Nat /\ n > arrived /\ n \notin DOMAIN book.orders
  <2>1. arrived \in Nat /\ DOMAIN book.orders \subseteq 1 .. arrived
    BY DEF Engine, Book, Shaped
  <2> QED BY <2>1
<1>4. \A o \in DOMAIN book.orders : NonceOf(book'.orders[o]) = NonceOf(book.orders[o])
  BY <1>2 DEF Kept, SameTerms, NonceOf
<1>5. n \in DOMAIN book'.orders => NonceOf(book'.orders[n]) = NonceOf(task[c].signed)
  <2>1. order.account = task[c].signed.account /\ order.nonce = task[c].signed.nonce
    BY <1>1, NewOrderIsOrder DEF SubmitDone
  <2> QED BY <1>2, <2>1 DEF Recorded, SameTerms, NonceOf
<1> QED BY <1>2, <1>3, <1>4, <1>5 DEF Kept

LEMMA NoncesHeldSubmit ==
    ASSUME Types, Engine, NoncesHeld, NEW c \in Callers, NEW res, SubmitDone(c, res), StoreSame
    PROVE  NoncesHeld'
<1>1. PICK n : n = arrived + 1
  OBVIOUS
<1>2. /\ n \notin DOMAIN book.orders /\ DOMAIN book'.orders \subseteq DOMAIN book.orders \cup {n}
      /\ \A o \in DOMAIN book.orders : NonceOf(book'.orders[o]) = NonceOf(book.orders[o])
      /\ n \in DOMAIN book'.orders => NonceOf(book'.orders[n]) = NonceOf(task[c].signed)
  BY <1>1, SubmittedNonces
<1>3. /\ failed' = failed /\ nonces' = nonces /\ usedNonces' = usedNonces /\ repository' = repository
      /\ task[c].pc = "process" /\ task[c].signed # NoOrder /\ TaskMoves(c)
      /\ repository => task'[c].pc = "persist" /\ task'[c].signed = task[c].signed /\ task'[c].id = n
      /\ ~ repository => task'[c].pc = "done"
  BY <1>1, SignedOrdersAreOrders DEF StoreSame, SubmitDone
<1>4. \A d \in Callers \ {c} : task'[d] = task[d]
  BY <1>3 DEF TaskMoves
<1>5. ASSUME NEW o \in DOMAIN book'.orders
      PROVE  NonceTaken(o)'
  <2>1. CASE o = n
    <3>1. CASE repository
      BY <1>2, <1>3, <2>1, <3>1 DEF NonceTaken, Persisting
    <3>2. CASE ~ repository
      <4>1. NonceOf(task[c].signed) \in nonces
        BY <1>3, <3>2 DEF NoncesHeld
      <4> QED BY <1>2, <1>3, <2>1, <4>1 DEF NonceTaken
    <3> QED BY <3>1, <3>2
  <2>2. CASE o # n
    <3>1. o \in DOMAIN book.orders /\ NonceTaken(o) /\ ~ Persisting(c, o)
      BY <1>2, <1>3, <2>2 DEF NoncesHeld, Persisting
    <3> QED BY <1>2, <1>3, <3>1, NonceStaysTaken
  <2> QED BY <2>1, <2>2
<1>6. ASSUME NEW d \in Callers, task'[d].pc = "process"
      PROVE  /\ \A o \in DOMAIN book'.orders :
                   NonceOf(book'.orders[o]) = NonceOf(task'[d].signed) => o \in failed'
             /\ \A e \in Callers : task'[e].pc = "process" /\ NonceOf(task'[e].signed) = NonceOf(task'[d].signed) => e = d
             /\ ~ repository' => NonceOf(task'[d].signed) \in nonces'
  <2>1. d # c /\ task'[d] = task[d] /\ task[d].pc = "process"
    BY <1>3, <1>4, <1>6
  <2>2. NonceOf(task[d].signed) # NonceOf(task[c].signed)
    BY <1>3, <2>1 DEF NoncesHeld
  <2>3. \A e \in Callers : task'[e].pc = "process" => task'[e] = task[e]
    BY <1>3, <1>4
  <2>4. \A o \in DOMAIN book'.orders : NonceOf(book'.orders[o]) = NonceOf(task[d].signed) => o \in failed
    BY <1>2, <2>1, <2>2 DEF NoncesHeld
  <2>5. \A e \in Callers : task'[e].pc = "process" /\ NonceOf(task'[e].signed) = NonceOf(task[d].signed) => e = d
    BY <2>1, <2>3 DEF NoncesHeld
  <2> QED BY <1>3, <2>1, <2>4, <2>5 DEF NoncesHeld
<1>7. \A d \in Callers : task'[d].pc = "persist" => repository'
  BY <1>3, <1>4 DEF NoncesHeld
<1> QED BY <1>5, <1>6, <1>7 DEF NoncesHeld

LEMMA CancelledNonces ==
    ASSUME Engine, NEW c \in Callers, NEW hits, CancelDone(c, hits)
    PROVE  NoncesKept(book, book')
<1> SUFFICES ASSUME NEW o \in DOMAIN book'.orders
             PROVE  o \in DOMAIN book.orders /\ NonceOf(book'.orders[o]) = NonceOf(book.orders[o])
  BY DEF NoncesKept
<1>1. AllCancelled(book, book', hits, arrived)
  BY DEF CancelDone
<1>2. o \in DOMAIN book.orders /\ book.orders[o] \in Order
  BY <1>1 DEF AllCancelled, Engine, Book, Shaped
<1>3. CASE o \in hits
  <2>1. book'.orders[o] = CancelledOrder(book.orders[o])
    BY <1>1, <1>3 DEF AllCancelled
  <2> QED BY <1>2, <2>1 DEF CancelledOrder, Order, NonceOf
<1>4. CASE o \notin hits
  BY <1>1, <1>2, <1>4 DEF AllCancelled
<1> QED BY <1>3, <1>4, <1>2

LEMMA NoncesHeldStep ==
    ASSUME Types, Engine, NoncesHeld, [Next]_vars
    PROVE  NoncesHeld'
<1>1. CASE UNCHANGED vars
  BY <1>1 DEF vars, serviceVars, NoncesHeld, NonceTaken, Persisting
<1>2. CASE Restarts
  <2>1. DOMAIN EmptyBook.orders = {} /\ \A c \in Callers : task'[c].pc = "idle"
    BY <1>2, EmptyIsBook DEF Restarts, IdleTask, Engine
  <2> QED BY <1>2, <2>1 DEF Restarts, NoncesHeld
<1>3. ASSUME NEW s \in Callers, GatewayDoes(s)
      PROVE  NoncesHeld'
  <2>1. /\ UNCHANGED <<book, usedNonces, nonces, failed, repository>>
    BY <1>3 DEF GatewayDoes, OthersSame
  <2>2. CASE SessionOnly(s)
    BY <2>1, <2>2 DEF SessionOnly, NoncesHeld, NonceTaken, Persisting
  <2>3. CASE SubmitStarts(s) \/ CancelStarts(s) \/ CallEnds(s)
    <3>1. TaskMoves(s) /\ task'[s].pc \notin {"process", "persist"} /\ task[s].pc # "persist"
      BY <2>3 DEF SubmitStarts, CancelStarts, CallEnds
    <3>2. \A o : ~ Persisting(s, o)
      BY <3>1 DEF Persisting
    <3>3. NoncesKept(book, book')
      BY <2>1 DEF NoncesKept
    <3> QED BY <2>1, <3>1, <3>2, <3>3, NoncesHeldMoves
  <2> QED BY <1>3, <2>2, <2>3 DEF GatewayDoes
<1>4. ASSUME NEW c \in Callers, ServiceDoes(c)
      PROVE  NoncesHeld'
  <2>1. CASE Reserves(c)
    BY <2>1, NoncesHeldReserves
  <2>2. CASE Refused(c)
    <3>1. /\ UNCHANGED <<book, usedNonces, nonces, failed, repository>>
          /\ TaskMoves(c) /\ task'[c].pc = "done" /\ task[c].pc = "reserve"
      BY <2>2 DEF Refused, EngineSame, StoreSame
    <3>2. \A o : ~ Persisting(c, o)
      BY <3>1 DEF Persisting
    <3>3. NoncesKept(book, book')
      BY <3>1 DEF NoncesKept
    <3> QED BY <3>1, <3>2, <3>3, NoncesHeldMoves
  <2>3. CASE Persisted(c) \/ PersistFailed(c)
    <3>1. /\ UNCHANGED <<book, nonces, repository>> /\ usedNonces \subseteq usedNonces'
          /\ failed \subseteq failed' /\ TaskMoves(c) /\ task'[c].pc = "done"
          /\ task[c].signed # NoOrder =>
                NonceOf(task[c].signed) \in usedNonces' \/ task[c].id \in failed'
      BY <2>3 DEF Persisted, PersistFailed, EngineSame
    <3>2. \A o \in DOMAIN book.orders :
             Persisting(c, o) /\ NonceOf(task[c].signed) = NonceOf(book.orders[o]) => NonceTaken(o)'
      BY <3>1 DEF Persisting, NonceTaken
    <3>3. NoncesKept(book, book')
      BY <3>1 DEF NoncesKept
    <3> QED BY <3>1, <3>2, <3>3, NoncesHeldMoves
  <2>4. ASSUME StoreSame, NEW res, SubmitDone(c, res)
        PROVE  NoncesHeld'
    BY <2>4, NoncesHeldSubmit
  <2>5. ASSUME StoreSame, NEW hits, CancelDone(c, hits)
        PROVE  NoncesHeld'
    <3>1. /\ UNCHANGED <<usedNonces, nonces, failed, repository>>
          /\ TaskMoves(c) /\ task'[c].pc \in {"persist", "done"} /\ task[c].pc = "cancel"
          /\ task'[c].pc = "persist" => repository
      BY <2>5 DEF CancelDone, StoreSame
    <3>2. \A o : ~ Persisting(c, o)
      BY <3>1 DEF Persisting
    <3>3. NoncesKept(book, book')
      BY <2>5, CancelledNonces
    <3> QED BY <3>1, <3>2, <3>3, NoncesHeldMoves
  <2> QED BY <1>4, <2>1, <2>2, <2>3, <2>4, <2>5 DEF ServiceDoes
<1> QED BY <1>1, <1>2, <1>3, <1>4, Steps

LEMMA OnceKept ==
    ASSUME SignedOrderOnce, NoncesKept(book, book'), failed \subseteq failed'
    PROVE  SignedOrderOnce'
<1> SUFFICES ASSUME NEW first \in DOMAIN book'.orders, NEW second \in DOMAIN book'.orders,
                    first < second, NonceOf(book'.orders[first]) = NonceOf(book'.orders[second])
             PROVE  first \in failed'
  BY DEF SignedOrderOnce
<1>1. /\ first \in DOMAIN book.orders /\ second \in DOMAIN book.orders
      /\ NonceOf(book.orders[first]) = NonceOf(book.orders[second])
  BY DEF NoncesKept
<1> QED BY <1>1 DEF SignedOrderOnce

LEMMA OnceStep ==
    ASSUME Types, Engine, NoncesHeld, SignedOrderOnce, [Next]_vars
    PROVE  SignedOrderOnce'
<1>1. ASSUME book' = book, failed \subseteq failed'
      PROVE  SignedOrderOnce'
  BY <1>1, OnceKept DEF NoncesKept
<1>2. CASE UNCHANGED vars
  BY <1>1, <1>2 DEF vars, serviceVars
<1>3. CASE Restarts
  <2>1. DOMAIN EmptyBook.orders = {}
    BY EmptyIsBook DEF Engine
  <2> QED BY <1>3, <2>1 DEF Restarts, SignedOrderOnce
<1>4. ASSUME NEW s \in Callers, GatewayDoes(s)
      PROVE  SignedOrderOnce'
  BY <1>1, <1>4 DEF GatewayDoes, OthersSame
<1>5. ASSUME NEW c \in Callers, ServiceDoes(c)
      PROVE  SignedOrderOnce'
  <2>1. CASE Reserves(c) \/ Refused(c) \/ Persisted(c) \/ PersistFailed(c)
    BY <1>1, <2>1 DEF Reserves, Refused, Persisted, PersistFailed, EngineSame, StoreSame
  <2>2. ASSUME StoreSame, NEW res, SubmitDone(c, res)
        PROVE  SignedOrderOnce'
    <3>1. PICK n : n = arrived + 1
      OBVIOUS
    <3>2. /\ n \in Nat /\ n > arrived
          /\ DOMAIN book'.orders \subseteq DOMAIN book.orders \cup {n}
          /\ \A o \in DOMAIN book.orders : NonceOf(book'.orders[o]) = NonceOf(book.orders[o])
          /\ n \in DOMAIN book'.orders => NonceOf(book'.orders[n]) = NonceOf(task[c].signed)
      BY <2>2, <3>1, SubmittedNonces
    <3>3. arrived \in Nat /\ DOMAIN book.orders \subseteq 1 .. arrived
      BY DEF Engine, Book, Shaped
    <3>4. failed' = failed /\ task[c].pc = "process"
      BY <2>2 DEF StoreSame, SubmitDone
    <3> SUFFICES ASSUME NEW first \in DOMAIN book'.orders, NEW second \in DOMAIN book'.orders,
                        first < second, NonceOf(book'.orders[first]) = NonceOf(book'.orders[second])
                 PROVE  first \in failed
      BY <3>4 DEF SignedOrderOnce
    <3>5. first # n
      BY <3>2, <3>3
    <3>6. first \in DOMAIN book.orders /\ NonceOf(book'.orders[first]) = NonceOf(book.orders[first])
      BY <3>2, <3>5
    <3>7. CASE second = n
      BY <3>2, <3>4, <3>6, <3>7 DEF NoncesHeld
    <3>8. CASE second # n
      <4>1. second \in DOMAIN book.orders /\ NonceOf(book'.orders[second]) = NonceOf(book.orders[second])
        BY <3>2, <3>8
      <4> QED BY <3>6, <4>1 DEF SignedOrderOnce
    <3> QED BY <3>7, <3>8
  <2>3. ASSUME StoreSame, NEW hits, CancelDone(c, hits)
        PROVE  SignedOrderOnce'
    BY <2>3, CancelledNonces, OnceKept DEF StoreSame
  <2> QED BY <1>5, <2>1, <2>2, <2>3 DEF ServiceDoes
<1> QED BY <1>2, <1>3, <1>4, <1>5, Steps

-----------------------------------------------------------------------------
(* A session answers for the orders it sent until it has cancelled them.   *)

\* What was excused stays excused.
Settles ==
    /\ failed \subseteq failed'
    /\ \A client : ClientCancelled(client) => ClientCancelled(client)'

\* The orders of s that rest rested before.
Steady(s) ==
    \A o \in DOMAIN book'.locations : sender'[o] = s =>
       /\ o \in DOMAIN book.locations /\ sender[o] = s
       /\ book'.orders[o].client = book.orders[o].client
       /\ book'.orders[o].account = book.orders[o].account

LEMMA ExcusedStays ==
    ASSUME Settles, NEW o, book'.orders[o].client = book.orders[o].client, Excused(o)
    PROVE  Excused(o)'
BY DEF Settles, Excused

LEMMA OthersAnswer ==
    ASSUME Settles, NEW s \in Callers, Steady(s), Answers(s),
           session'[s] = session[s], task'[s] = task[s]
    PROVE  Answers(s)'
<1>1. ASSUME NEW o \in DOMAIN book'.locations, sender'[o] = s
      PROVE  /\ o \in DOMAIN book.locations /\ sender[o] = s
             /\ book'.orders[o].client = book.orders[o].client
             /\ book'.orders[o].account = book.orders[o].account
             /\ Excused(o) => Excused(o)'
             /\ Registering(s, o) => Registering(s, o)'
  <2>1. /\ o \in DOMAIN book.locations /\ sender[o] = s
        /\ book'.orders[o].client = book.orders[o].client
        /\ book'.orders[o].account = book.orders[o].account
    BY <1>1 DEF Steady
  <2>2. Registering(s, o) => Registering(s, o)'
    BY <2>1 DEF Registering, Persisting
  <2> QED BY <2>1, <2>2, ExcusedStays
<1>2. session[s].live => AnswersFor(s)'
  BY <1>1 DEF Answers, AnswersFor
<1>3. ~ session[s].live => Left(s)'
  BY <1>1 DEF Answers, Left
<1>4. CancelsTold(s)'
  BY DEF Answers, CancelsTold, Settles
<1> QED BY <1>2, <1>3, <1>4 DEF Answers

LEMMA EngineSettles ==
    ASSUME EngineSame, failed \subseteq failed'
    PROVE  Settles /\ \A s : Steady(s)
BY DEF EngineSame, Settles, Steady, ClientCancelled

\* A call that is neither cancelling nor registering leaves only the list of open orders.
LEMMA OpenOnly ==
    ASSUME NEW s \in Callers, Answers(s), session[s].live, session[s].call # "disconnect",
           session[s].call # "submit" \/ task[s].pc \notin {"persist", "done"}
    PROVE  \A o \in DOMAIN book.locations :
              sender[o] = s => Excused(o) \/ book.orders[o].client \in session[s].open
BY DEF Answers, AnswersFor, Registering, Persisting

LEMMA GatewayAnswers ==
    ASSUME Types, Engine, SessionsAnswer, NEW s \in Callers, GatewayDoes(s)
    PROVE  Answers(s)'
<1>2. book' = book /\ sender' = sender /\ failed' = failed
  BY DEF GatewayDoes, OthersSame
<1>3. Answers(s) /\ CallFits(task[s], session[s])
  BY DEF SessionsAnswer, Types
<1>4. \A o : Excused(o) => Excused(o)'
  BY <1>2 DEF Excused, ClientCancelled
<1>5. CASE SessionOnly(s)
  <2>1. \A o \in DOMAIN book.locations :
           sender[o] = s => Excused(o) \/ book.orders[o].client \in session[s].open
    BY <1>3, <1>5, OpenOnly DEF SessionOnly
  <2>2. CancelsTold(s)'
    BY <1>5 DEF SessionOnly, CancelsTold
  <2>3. CASE session'[s].live
    <3>1. AnswersFor(s)'
      BY <1>2, <1>4, <1>5, <2>1 DEF SessionOnly, AnswersFor
    <3> QED BY <2>2, <2>3, <3>1 DEF Answers
  <2>4. CASE ~ session'[s].live
    <3>1. /\ session'[s].account = session[s].account
          /\ session[s].account = NoAccount \/ session[s].open = {}
      BY <1>5, <2>4 DEF SessionOnly
    <3>2. \A o \in DOMAIN book.locations : book.orders[o].account # NoAccount
      <4>1. \A o \in DOMAIN book.locations : book.orders[o] \in Order
        BY DEF Engine, Book, Shaped, LocatedRest
      <4> QED BY <4>1, ClientInputs DEF Order
    <3>3. Left(s)'
      BY <1>2, <1>4, <2>1, <3>1, <3>2 DEF Left
    <3> QED BY <2>2, <2>4, <3>3 DEF Answers
  <2> QED BY <2>3, <2>4
<1>6. CASE SubmitStarts(s)
  <2>1. \A o \in DOMAIN book.locations :
           sender[o] = s => Excused(o) \/ book.orders[o].client \in session[s].open
    BY <1>3, <1>6, OpenOnly DEF SubmitStarts
  <2>2. AnswersFor(s)'
    BY <1>2, <1>4, <1>6, <2>1 DEF SubmitStarts, AnswersFor
  <2> QED BY <1>6, <2>2 DEF SubmitStarts, Answers, CancelsTold
<1>7. CASE CancelStarts(s)
  <2>1. \A o \in DOMAIN book.locations :
           sender[o] = s => Excused(o) \/ book.orders[o].client \in session[s].open
    BY <1>3, <1>7, OpenOnly DEF CancelStarts
  <2>2. AnswersFor(s)'
    <3>1. CASE session'[s].call = "cancel"
      BY <1>2, <1>4, <1>7, <2>1, <3>1 DEF CancelStarts, AnswersFor
    <3>2. CASE session'[s].call # "cancel"
      <4>1. /\ session'[s].call = "disconnect" /\ session'[s].account = session[s].account
            /\ task'[s].pc = "cancel"
            /\ task'[s].ids = WithClients(session[s].account, session[s].open)
        BY <1>7, <3>2 DEF CancelStarts
      <4>2. \A o \in DOMAIN book.locations :
               book.orders[o].client \in session[s].open /\ book.orders[o].account = session[s].account
                  => o \in task'[s].ids
        BY <4>1 DEF WithClients, RestingOf, RestingOrders
      <4> QED BY <1>2, <1>4, <2>1, <4>1, <4>2 DEF AnswersFor
    <3> QED BY <3>1, <3>2
  <2> QED BY <1>7, <2>2 DEF CancelStarts, Answers, CancelsTold
<1>8. CASE CallEnds(s)
  <2>1. session[s].live /\ task[s].pc = "done" /\ session'[s].call = "none" /\ AnswersFor(s)
    BY <1>3, <1>8 DEF CallEnds, Answers
  <2>2. CancelsTold(s)'
    BY <2>1 DEF CancelsTold
  <2>3. CASE session[s].call = "submit"
    <3>1. /\ session'[s].live
          /\ session'[s].open = session[s].open \cup
                (IF task[s].outcome.ok /\ task[s].outcome.resting THEN task[s].outcome.clients ELSE {})
      BY <1>8, <2>3 DEF CallEnds
    <3>2. \A o \in DOMAIN book.locations :
             sender[o] = s => Excused(o) \/ book.orders[o].client \in session'[s].open
      BY <2>1, <2>3, <3>1 DEF AnswersFor, Registering
    <3>3. AnswersFor(s)'
      BY <1>2, <1>4, <2>1, <3>2 DEF AnswersFor
    <3> QED BY <2>2, <3>1, <3>3 DEF Answers
  <2>4. CASE session[s].call = "cancel"
    <3>1. session'[s].live /\ session'[s].open = session[s].open \ task[s].outcome.clients
      BY <1>8, <2>4 DEF CallEnds
    <3>2. \A client \in task[s].outcome.clients : ClientCancelled(client)
      BY <1>3, <2>1, <2>4 DEF Answers, CancelsTold
    <3>3. \A o \in DOMAIN book.locations :
             sender[o] = s => Excused(o) \/ book.orders[o].client \in session'[s].open
      BY <2>1, <2>4, <3>1, <3>2 DEF AnswersFor, Registering, Excused
    <3>4. AnswersFor(s)'
      BY <1>2, <1>4, <2>1, <3>3 DEF AnswersFor
    <3> QED BY <2>2, <3>1, <3>4 DEF Answers
  <2>5. CASE session[s].call = "disconnect"
    <3>1. ~ session'[s].live /\ session'[s].account = session[s].account
      BY <1>8, <2>5 DEF CallEnds
    <3>2. Left(s)'
      BY <1>2, <1>4, <2>1, <2>5, <3>1 DEF AnswersFor, Left
    <3> QED BY <2>2, <3>1, <3>2 DEF Answers
  <2> QED BY <1>8, <2>3, <2>4, <2>5 DEF CallEnds
<1> QED BY <1>5, <1>6, <1>7, <1>8 DEF GatewayDoes

\* The engine's steps leave what is cancelled alone.
LEMMA SubmitSettles ==
    ASSUME Engine, NEW c \in Callers, NEW res, SubmitDone(c, res), StoreSame
    PROVE  /\ Settles
           /\ \A o \in DOMAIN book'.locations \ {arrived + 1} :
                 /\ o \in DOMAIN book.locations /\ sender'[o] = sender[o]
                 /\ book'.orders[o].client = book.orders[o].client
                 /\ book'.orders[o].account = book.orders[o].account
           /\ sender'[arrived + 1] = c
<1>1. PICK n : n = arrived + 1
  OBVIOUS
<1>2. Kept(book, res.book, n) /\ book' = res.book /\ sender' = With(sender, n, c) /\ failed' = failed
  BY <1>1 DEF SubmitDone, Submitted, StoreSame
<1>3. \A o \in DOMAIN book.orders : book.orders[o].status = "Cancelled" => o \notin DOMAIN book.locations
  BY DEF Engine, Book, LocatedRest, CanTrade
<1>4. \A o \in DOMAIN book.orders : book.orders[o].status = "Cancelled" =>
         o \in DOMAIN book'.orders /\ book'.orders[o] = book.orders[o]
  BY <1>2, <1>3 DEF Kept
<1>5. Settles
  BY <1>2, <1>4 DEF Settles, ClientCancelled
<1>6. DOMAIN sender = 1 .. arrived /\ n \in Nat /\ arrived \in Nat
  BY <1>1 DEF Engine
<1>7. \A o \in DOMAIN book.locations : o \in DOMAIN book.orders /\ o \in DOMAIN sender /\ o # n
  BY <1>1, <1>6 DEF Engine, Book, Shaped, LocatedRest
<1>8. /\ sender'[n] = c
      /\ \A o \in DOMAIN book.locations : sender'[o] = sender[o]
  BY <1>2, <1>7 DEF With
<1>9. ASSUME NEW o \in DOMAIN book'.locations, o # n
      PROVE  /\ o \in DOMAIN book.locations /\ sender'[o] = sender[o]
             /\ book'.orders[o].client = book.orders[o].client
             /\ book'.orders[o].account = book.orders[o].account
  <2>1. o \in DOMAIN book.locations
    BY <1>2, <1>9 DEF Kept
  <2> QED BY <1>2, <1>7, <1>8, <2>1 DEF Kept, SameTerms
<1> QED BY <1>1, <1>5, <1>8, <1>9

LEMMA CancelSettles ==
    ASSUME Engine, NEW c \in Callers, NEW hits, CancelDone(c, hits), StoreSame
    PROVE  /\ Settles /\ \A s : Steady(s)
           /\ \A client \in {book.orders[o].client : o \in hits} : ClientCancelled(client)'
           /\ DOMAIN book'.locations = DOMAIN book.locations \ hits
<1>1. /\ AllCancelled(book, book', hits, arrived) /\ sender' = sender /\ failed' = failed
      /\ hits \subseteq DOMAIN book.locations
  BY DEF CancelDone, StoreSame
<1>2. ASSUME NEW o \in hits
      PROVE  /\ o \in DOMAIN book'.orders /\ book'.orders[o].status = "Cancelled"
             /\ book'.orders[o].client = book.orders[o].client
  <2>1. o \in DOMAIN book.orders /\ book.orders[o] \in Order
    BY <1>1 DEF Engine, Book, Shaped, LocatedRest
  <2>2. book'.orders[o] = CancelledOrder(book.orders[o]) /\ o \in DOMAIN book'.orders
    BY <1>1, <2>1 DEF AllCancelled
  <2> QED BY <2>1, <2>2 DEF CancelledOrder, Order
<1>3. \A client \in {book.orders[o].client : o \in hits} : ClientCancelled(client)'
  BY <1>2 DEF ClientCancelled
<1>4. ASSUME NEW client, ClientCancelled(client)
      PROVE  ClientCancelled(client)'
  <2>1. PICK o \in DOMAIN book.orders : book.orders[o].status = "Cancelled" /\ book.orders[o].client = client
    BY <1>4 DEF ClientCancelled
  <2>2. CASE o \in hits
    BY <1>3, <2>1, <2>2
  <2>3. CASE o \notin hits
    <3>1. o \in DOMAIN book'.orders /\ book'.orders[o] = book.orders[o]
      BY <1>1, <2>1, <2>3 DEF AllCancelled
    <3> QED BY <2>1, <3>1 DEF ClientCancelled
  <2> QED BY <2>2, <2>3
<1>5. \A o \in DOMAIN book'.locations : o \in DOMAIN book.locations /\ book'.orders[o] = book.orders[o]
  <2>1. \A o \in DOMAIN book.locations : o \in DOMAIN book.orders
    BY DEF Engine, Book, LocatedRest
  <2> QED BY <1>1, <2>1 DEF AllCancelled
<1>6. \A s : Steady(s)
  BY <1>1, <1>5 DEF Steady
<1>7. Settles
  BY <1>1, <1>4 DEF Settles
<1> QED BY <1>1, <1>3, <1>6, <1>7 DEF AllCancelled

\* The session's part when its own call moves in the service.
LEMMA ServiceAnswers ==
    ASSUME Types, Engine, SessionsAnswer, NEW c \in Callers, ServiceDoes(c), Engine'
    PROVE  Answers(c)'
<1>1. /\ session' = session /\ session[c] \in Session /\ CallFits(task[c], session[c]) /\ Answers(c)
      /\ session[c].call \in {"none", "submit", "cancel", "disconnect"}
  BY DEF ServiceDoes, Types, Session, SessionsAnswer
<1>2. CASE Reserves(c) \/ Refused(c)
  <2>1. EngineSame /\ failed' = failed /\ task[c].pc = "reserve"
    BY <1>2 DEF Reserves, Refused, StoreSame
  <2>2. session[c].call = "submit" /\ session[c].live
    BY <1>1, <2>1 DEF CallFits
  <2>3. \A o \in DOMAIN book.locations :
           sender[o] = c => Excused(o) \/ book.orders[o].client \in session[c].open
    BY <1>1, <2>1, <2>2, OpenOnly
  <2>4. \A o : Excused(o) => Excused(o)'
    BY <2>1 DEF EngineSame, Excused, ClientCancelled
  <2>5. AnswersFor(c)'
    BY <1>1, <2>1, <2>2, <2>3, <2>4 DEF EngineSame, AnswersFor
  <2> QED BY <1>1, <2>2, <2>5 DEF Answers, CancelsTold
<1>3. CASE Persisted(c)
  <2>1. /\ EngineSame /\ failed' = failed /\ task[c].pc = "persist" /\ task'[c].pc = "done"
        /\ task'[c].outcome = task[c].outcome
    BY <1>3 DEF Persisted
  <2>2. session[c].live /\ AnswersFor(c) /\ CancelsTold(c)
    BY <1>1, <2>1 DEF CallFits, Answers
  <2>3. \A o : Excused(o) => Excused(o)'
    BY <2>1 DEF EngineSame, Excused, ClientCancelled
  <2>4. \A o : Registering(c, o) => Registering(c, o)'
    BY <1>1, <2>1 DEF EngineSame, Registering
  <2>5. AnswersFor(c)'
    BY <1>1, <2>1, <2>2, <2>3, <2>4 DEF EngineSame, AnswersFor
  <2>6. CancelsTold(c)'
    BY <1>1, <2>1, <2>2 DEF EngineSame, CancelsTold, ClientCancelled
  <2> QED BY <1>1, <2>2, <2>5, <2>6 DEF Answers
<1>4. CASE PersistFailed(c)
  <2>1. /\ EngineSame /\ failed \subseteq failed' /\ task[c].pc = "persist" /\ task'[c].outcome = NoOutcome
        /\ (task[c].signed # NoOrder => task[c].id \in failed')
    BY <1>4 DEF PersistFailed
  <2>2. session[c].live /\ AnswersFor(c)
    BY <1>1, <2>1 DEF CallFits, Answers
  <2>3. \A o : Excused(o) => Excused(o)'
    BY <2>1 DEF EngineSame, Excused, ClientCancelled
  <2>4. \A o : Registering(c, o) => Excused(o)'
    BY <2>1 DEF Registering, Persisting, Excused
  <2>5. AnswersFor(c)'
    BY <1>1, <2>1, <2>2, <2>3, <2>4 DEF EngineSame, AnswersFor
  <2>6. CancelsTold(c)'
    BY <2>1 DEF CancelsTold, NoOutcome
  <2> QED BY <1>1, <2>2, <2>5, <2>6 DEF Answers
<1>5. ASSUME StoreSame, NEW res, SubmitDone(c, res)
      PROVE  Answers(c)'
  <2>1. PICK n : n = arrived + 1
    OBVIOUS
  <2>2. /\ Settles /\ sender'[n] = c
        /\ \A o \in DOMAIN book'.locations \ {n} :
              /\ o \in DOMAIN book.locations /\ sender'[o] = sender[o]
              /\ book'.orders[o].client = book.orders[o].client
              /\ book'.orders[o].account = book.orders[o].account
    BY <1>5, <2>1, SubmitSettles
  <2>3. task[c].pc = "process" /\ session[c].call = "submit" /\ session[c].live
    BY <1>1, <1>5 DEF SubmitDone, CallFits
  <2>4. \A o \in DOMAIN book.locations :
           sender[o] = c => Excused(o) \/ book.orders[o].client \in session[c].open
    BY <1>1, <2>3, OpenOnly
  <2>5. ASSUME n \in DOMAIN book'.locations
        PROVE  Registering(c, n)'
    <3>1. PICK order : order = NewOrder(task[c].signed)
      OBVIOUS
    <3>2. /\ Recorded(res, n, order) /\ book' = res.book
          /\ task'[c].outcome = SubmitOutcome(res, n, task[c].signed)
          /\ \/ task'[c].pc = "persist" /\ task'[c].signed # NoOrder /\ task'[c].id = n
             \/ task'[c].pc = "done"
          /\ order.client = task[c].signed.client
      BY <1>5, <2>1, <3>1, NewOrderIsOrder, SignedOrdersAreOrders DEF SubmitDone, Submitted, Types
    <3>3. res.accepted = TRUE /\ n \in DOMAIN res.book.orders /\ res.book.orders[n].client = task[c].signed.client
      BY <2>5, <3>2 DEF Recorded, SameTerms
    <3>4. res.book.orders[n].remaining > 0
      BY <2>5, <3>2 DEF Engine, Book, LocatedRest, CanTrade
    <3>5. task'[c].outcome.ok /\ task'[c].outcome.resting /\ task'[c].outcome.clients = {task[c].signed.client}
      BY <3>2, <3>3, <3>4 DEF SubmitOutcome
    <3> QED BY <1>1, <2>3, <3>2, <3>3, <3>5 DEF Registering, Persisting
  <2>6. AnswersFor(c)'
    <3> SUFFICES ASSUME NEW o \in DOMAIN book'.locations, sender'[o] = c
                 PROVE  Excused(o)' \/ book'.orders[o].client \in session[c].open \/ Registering(c, o)'
      BY <1>1, <2>3 DEF AnswersFor
    <3>1. CASE o = n
      BY <2>5, <3>1
    <3>2. CASE o # n
      <4>1. o \in DOMAIN book.locations /\ sender[o] = c /\ book'.orders[o].client = book.orders[o].client
        BY <2>2, <3>2
      <4> QED BY <2>2, <2>4, <4>1, ExcusedStays
    <3> QED BY <3>1, <3>2
  <2> QED BY <1>1, <2>3, <2>6 DEF Answers, CancelsTold
<1>6. ASSUME StoreSame, NEW hits, CancelDone(c, hits)
      PROVE  Answers(c)'
  <2>1. /\ Settles /\ Steady(c) /\ \A client \in {book.orders[o].client : o \in hits} : ClientCancelled(client)'
        /\ DOMAIN book'.locations = DOMAIN book.locations \ hits
    BY <1>6, CancelSettles
  <2>2. /\ task[c].pc = "cancel" /\ hits = task[c].ids \cap DOMAIN book.locations
        /\ task'[c].outcome.clients = {book.orders[o].client : o \in hits}
    BY <1>6 DEF CancelDone
  <2>3. session[c].live /\ AnswersFor(c) /\ session[c].call \in {"cancel", "disconnect"}
    BY <1>1, <2>2 DEF CallFits, Answers
  <2>4. CancelsTold(c)'
    BY <2>1, <2>2 DEF CancelsTold
  <2>5. AnswersFor(c)'
    <3> SUFFICES ASSUME NEW o \in DOMAIN book'.locations, sender'[o] = c
                 PROVE  \/ Excused(o)'
                        \/ session[c].call # "disconnect" /\ book'.orders[o].client \in session[c].open
                        \/ session[c].call = "disconnect" /\ book'.orders[o].account # session[c].account
      BY <1>1 DEF AnswersFor
    <3>1. /\ o \in DOMAIN book.locations /\ sender[o] = c
          /\ book'.orders[o].client = book.orders[o].client
          /\ book'.orders[o].account = book.orders[o].account
          /\ o \notin task[c].ids
      BY <2>1, <2>2 DEF Steady
    <3>2. Excused(o) => Excused(o)'
      BY <2>1, <3>1, ExcusedStays
    <3> QED BY <2>3, <3>1, <3>2 DEF AnswersFor, Registering
  <2> QED BY <1>1, <2>3, <2>4, <2>5 DEF Answers
<1> QED BY <1>2, <1>3, <1>4, <1>5, <1>6 DEF ServiceDoes

LEMMA SessionsAnswerStep ==
    ASSUME Types, Engine, SessionsAnswer, [Next]_vars, Engine'
    PROVE  SessionsAnswer'
<1>1. CASE UNCHANGED vars
  <2>1. EngineSame /\ failed' = failed /\ session' = session /\ task' = task
    BY <1>1 DEF vars, serviceVars, EngineSame
  <2> QED BY <2>1, EngineSettles, OthersAnswer DEF SessionsAnswer
<1>2. CASE Restarts
  <2>1. DOMAIN book'.locations = {} /\ session' = [c \in Callers |-> NewSession]
    BY <1>2, EmptyIsBook DEF Restarts, EmptyBook
  <2>2. \A s \in Callers : session'[s].live /\ session'[s].call = "none"
    BY <2>1 DEF NewSession
  <2> QED BY <2>1, <2>2 DEF SessionsAnswer, Answers, AnswersFor, CancelsTold
<1>3. ASSUME NEW s \in Callers, GatewayDoes(s)
      PROVE  SessionsAnswer'
  <2>1. EngineSame /\ failed' = failed
    BY <1>3 DEF GatewayDoes, OthersSame, EngineSame
  <2>2. \A d \in Callers \ {s} : session'[d] = session[d] /\ task'[d] = task[d]
    BY <1>3 DEF GatewayDoes, SessionOnly, SubmitStarts, CancelStarts, CallEnds, TaskMoves, SessionMoves
  <2>3. \A d \in Callers \ {s} : Answers(d)'
    BY <2>1, <2>2, EngineSettles, OthersAnswer DEF SessionsAnswer
  <2> QED BY <1>3, <2>3, GatewayAnswers DEF SessionsAnswer
<1>4. ASSUME NEW c \in Callers, ServiceDoes(c)
      PROVE  SessionsAnswer'
  <2>1. session' = session /\ TaskMoves(c)
    BY <1>4 DEF ServiceDoes, Reserves, Refused, Persisted, PersistFailed, SubmitDone, CancelDone
  <2>2. Settles /\ \A d \in Callers \ {c} : Steady(d)
    <3>1. CASE Reserves(c) \/ Refused(c) \/ Persisted(c) \/ PersistFailed(c)
      BY <3>1, EngineSettles DEF Reserves, Refused, Persisted, PersistFailed, StoreSame
    <3>2. ASSUME StoreSame, NEW res, SubmitDone(c, res)
          PROVE  Settles /\ \A d \in Callers \ {c} : Steady(d)
      <4>1. PICK n : n = arrived + 1
        OBVIOUS
      <4>2. /\ Settles /\ sender'[n] = c
            /\ \A o \in DOMAIN book'.locations \ {n} :
                  /\ o \in DOMAIN book.locations /\ sender'[o] = sender[o]
                  /\ book'.orders[o].client = book.orders[o].client
                  /\ book'.orders[o].account = book.orders[o].account
        BY <3>2, <4>1, SubmitSettles
      <4> QED BY <4>2 DEF Steady
    <3>3. ASSUME StoreSame, NEW hits, CancelDone(c, hits)
          PROVE  Settles /\ \A d \in Callers \ {c} : Steady(d)
      BY <3>3, CancelSettles
    <3> QED BY <1>4, <3>1, <3>2, <3>3 DEF ServiceDoes
  <2>3. \A d \in Callers \ {c} : Answers(d)'
    BY <2>1, <2>2, OthersAnswer DEF SessionsAnswer, TaskMoves
  <2> QED BY <1>4, <2>3, ServiceAnswers DEF SessionsAnswer
<1> QED BY <1>1, <1>2, <1>3, <1>4, Steps

-----------------------------------------------------------------------------
(* The inductive invariant and what follows from it.                       *)

Inv ==
    Types /\ Engine /\ RowsBehind /\ NoncesHeld /\ SignedOrderOnce /\ SessionsAnswer

LEMMA InitInv == Init => Inv
<1> SUFFICES ASSUME Init
             PROVE  Inv
  OBVIOUS
<1>1. /\ book = EmptyBook /\ queue = <<>> /\ nonces = {} /\ repository \in BOOLEAN
      /\ usedNonces = {} /\ rows = <<>> /\ task = [c \in Callers |-> IdleTask]
      /\ arrived = 0 /\ sender = <<>> /\ failed = {}
      /\ session = [s \in Callers |-> NewSession]
  BY DEF Init, ServiceInit, Sessions
<1>2. Types
  <2>1. task \in [Callers -> Task] /\ session \in [Callers -> Session]
    BY <1>1, IdleIsTask, NewSessionIsSession
  <2>2. CallFits(IdleTask, NewSession)
    BY DEF CallFits, IdleTask, NewSession
  <2> QED BY <1>1, <2>1, <2>2 DEF Types
<1>3. Book(EmptyBook, 0, {}) /\ DOMAIN EmptyBook.orders = {} /\ DOMAIN EmptyBook.locations = {}
  BY EmptyIsBook DEF EmptyBook
<1>4. Engine
  <2>1. sender \in [1 .. arrived -> Callers]
    BY <1>1
  <2>2. queue \in Seq(Trade) /\ Len(queue) = 0
    BY <1>1
  <2>3. Accounting
    BY <1>1, <1>3 DEF Accounting
  <2> QED BY <1>1, <1>3, <2>1, <2>2, <2>3 DEF Engine
<1>5. \A c \in Callers : task[c].pc = "idle"
  BY <1>1 DEF IdleTask
<1>6. RowsBehind
  <2>1. <<>> \in [{} -> Row] /\ {} \in SUBSET Nat
    OBVIOUS
  <2>2. rows \in RowMaps /\ DOMAIN rows = {}
    BY <1>1, <2>1 DEF RowMaps
  <2> QED BY <1>5, <2>2 DEF RowsBehind, NotAhead
<1>7. NoncesHeld /\ SignedOrderOnce
  BY <1>1, <1>3, <1>5 DEF NoncesHeld, SignedOrderOnce
<1>8. SessionsAnswer
  <2>1. \A s \in Callers : session[s].live /\ session[s].call = "none"
    BY <1>1 DEF NewSession
  <2> QED BY <1>1, <1>3, <2>1 DEF SessionsAnswer, Answers, AnswersFor, CancelsTold
<1> QED BY <1>2, <1>4, <1>6, <1>7, <1>8 DEF Inv

\* The inductive invariant of the book, the service and the gateway: the book
\* and its queue of trades agree, rows lag, nonces in use are known, and every
\* session answers for the orders it sent.
THEOREM Invariant == Spec => []Inv
<1>1. Init => Inv
  BY InitInv
<1>2. Inv /\ [Next]_vars => Inv'
  BY TypesStep, EngineStep, RowsBehindStep, NoncesHeldStep, OnceStep, SessionsAnswerStep DEF Inv
<1> QED BY <1>1, <1>2, PTL DEF Spec

\* However submissions and cancels interleave, no two resting orders could
\* trade: the best bid stays below the best ask.
THEOREM BookNotCrossedCorrect == Spec => []BookNotCrossed
<1>1. Inv => BookNotCrossed
  BY DEF Inv, Engine, Book, NotCrossed, BookNotCrossed
<1> QED BY <1>1, Invariant, PTL

\* Levels, locations and orders of the engine never disagree: a level holds
\* the orders located there in order of arrival, and an order rests exactly
\* when something of it is left.
THEOREM LevelsAndLocationsAgreeCorrect == Spec => []LevelsAndLocationsAgree
<1>1. ASSUME Inv
      PROVE  LevelsAndLocationsAgree
  <2>1. Shaped(book, arrived) /\ LevelsHold(book) /\ LocatedRest(book) /\ OthersDone(book, {})
    BY <1>1 DEF Inv, Engine, Book
  <2>2. ASSUME NEW side \in Sides, NEW p \in DOMAIN book.levels[side], NEW level, level = book.levels[side][p]
        PROVE  /\ level # <<>>
               /\ Range(level) = {id \in RestingOrders(book) :
                                     book.locations[id] = [side |-> side, price |-> p]}
               /\ \A i, j \in DOMAIN level : i < j => level[i] < level[j]
    <3>1. level \in Seq(Nat) /\ DOMAIN level = 1 .. Len(level)
      BY <2>1, <2>2 DEF Shaped
    <3>2. /\ level # <<>> /\ Increasing(level)
          /\ \A i \in 1 .. Len(level) :
                level[i] \in DOMAIN book.locations /\ book.locations[level[i]] = [side |-> side, price |-> p]
      BY <2>1, <2>2 DEF LevelsHold
    <3>3. ASSUME NEW id \in DOMAIN book.locations, book.locations[id] = [side |-> side, price |-> p]
          PROVE  \E i \in 1 .. Len(level) : level[i] = id
      <4>1. /\ book.orders[id].side = side /\ book.orders[id].price = p
            /\ InLevel(book, id, book.orders[id].side, book.orders[id].price)
        BY <2>1, <3>3 DEF LocatedRest
      <4> QED BY <2>2, <4>1 DEF InLevel
    <3>4. Range(level) = {id \in RestingOrders(book) : book.locations[id] = [side |-> side, price |-> p]}
      <4>1. PICK place : place = [side |-> side, price |-> p]
        OBVIOUS
      <4>2. PICK here : here = {id \in DOMAIN book.locations : book.locations[id] = place}
        OBVIOUS
      <4>3. \A i \in 1 .. Len(level) : level[i] \in here
        BY <3>2, <4>1, <4>2
      <4>4. \A id \in here : \E i \in 1 .. Len(level) : level[i] = id
        BY <3>3, <4>1, <4>2
      <4>5. Range(level) = {level[i] : i \in 1 .. Len(level)}
        BY <3>1 DEF Range
      <4>6. Range(level) = here
        BY <4>3, <4>4, <4>5
      <4> QED BY <4>1, <4>2, <4>6 DEF RestingOrders
    <3> QED BY <3>1, <3>2, <3>4 DEF Increasing
  <2>3. \A id \in DOMAIN book.locations :
           book.locations[id].price \in DOMAIN book.levels[book.locations[id].side]
    BY <2>1 DEF LocatedRest, InLevel
  <2>4. ASSUME NEW id \in DOMAIN book.orders
        PROVE  id \in DOMAIN book.locations <=>
                  book.orders[id].tif = "Gtc" /\ book.orders[id].remaining > 0 /\ book.orders[id].status # "Rejected"
    BY <2>1 DEF LocatedRest, CanTrade, OthersDone, Done
  <2>5. DOMAIN book.locations \subseteq DOMAIN book.orders
    BY <2>1 DEF LocatedRest
  <2> QED BY <2>2, <2>3, <2>4, <2>5 DEF LevelsAndLocationsAgree, RestingOrders
<1> QED BY <1>1, Invariant, PTL

\* What an open or filled order has lost is what the execution queue holds of
\* it, for every sequence of submissions, partial fills and cancels.
THEOREM FillsAreConservedCorrect == Spec => []FillsAreConserved
<1>1. ASSUME Inv
      PROVE  FillsAreConserved
  <2> SUFFICES ASSUME NEW o \in DOMAIN book.orders
               PROVE  /\ Traded(o) <= book.orders[o].size
                      /\ o \in DOMAIN book.locations \/ book.orders[o].status = "Filled"
                            => book.orders[o].size - book.orders[o].remaining = Traded(o)
    BY DEF FillsAreConserved, RestingOrders
  <2>1. PICK t \in Nat : t = Traded(o)
    BY <1>1, TradedIsNat DEF Inv, Engine, Traded
  <2>2. book.orders[o] \in Order
    BY <1>1 DEF Inv, Engine, Book, Shaped
  <2>3. PICK size \in Nat : size = book.orders[o].size
    BY <2>2 DEF Order
  <2>4. /\ t <= size
        /\ o \in DOMAIN book.locations \/ book.orders[o].status = "Filled"
              => book.orders[o].remaining = size - t
    BY <1>1, <2>1, <2>3 DEF Inv, Engine, Accounting
  <2>5. size - (size - t) = t
    BY <2>1, <2>3
  <2> QED BY <2>1, <2>3, <2>4, <2>5
<1> QED BY <1>1, Invariant, PTL

\* A stored row never shows a fill or a cancel that the engine has not made,
\* whatever the order in which calls persist, fail and restart.
THEOREM StoredRowsNeverAheadCorrect == Spec => []StoredRowsNeverAhead
<1>1. Inv => StoredRowsNeverAhead
  BY DEF Inv, RowsBehind, NotAhead, StoredRowsNeverAhead
<1> QED BY <1>1, Invariant, PTL

\* Two orders of one account and nonce are in the engine only if the call of
\* the first one failed after the engine had taken it.
THEOREM SignedOrderOnceCorrect == Spec => []SignedOrderOnce
<1>1. Inv => SignedOrderOnce
  BY DEF Inv
<1> QED BY <1>1, Invariant, PTL

\* After cancel_on_disconnect an order of the session rests only if its call
\* failed, the session is bound to another account, or an order under the same
\* client id was cancelled.
THEOREM DisconnectCancelsCorrect == Spec => []DisconnectCancels
<1>1. ASSUME Inv
      PROVE  DisconnectCancels
  <2> SUFFICES ASSUME NEW s \in Callers, ~ session[s].live, NEW id \in DOMAIN book.locations, sender[id] = s
               PROVE  \/ id \in failed
                      \/ book.orders[id].account # session[s].account
                      \/ \E o \in DOMAIN book.orders \ {id} :
                            /\ book.orders[o].status = "Cancelled"
                            /\ book.orders[o].client = book.orders[id].client
    BY DEF DisconnectCancels, Sessions, RestingOrders
  <2>1. Excused(id) \/ book.orders[id].account # session[s].account
    BY <1>1 DEF Inv, SessionsAnswer, Answers, Left
  <2>2. book.orders[id].status # "Cancelled"
    BY <1>1 DEF Inv, Engine, Book, LocatedRest, CanTrade
  <2> QED BY <2>1, <2>2 DEF Excused, ClientCancelled
<1> QED BY <1>1, Invariant, PTL

LEMMA PriorityStep ==
    ASSUME Types, Engine, [Next]_vars,
           NEW i \in DOMAIN queue' \ DOMAIN queue, NEW o \in RestingOrders(book), Beats(book, o, queue'[i].maker)
    PROVE  book'.orders[o].status = "Filled"
<1>1. queue \in Seq(Trade) /\ Len(queue) \in Nat
  BY DEF Engine
<1>2. ~ UNCHANGED queue
  OBVIOUS
<1>3. ~ Restarts
  <2>1. Restarts => DOMAIN queue' = {}
    BY DEF Restarts
  <2> QED BY <2>1
<1>4. \A s \in Callers : ~ GatewayDoes(s)
  BY <1>2 DEF GatewayDoes, OthersSame
<1>5. PICK c \in Callers : ServiceDoes(c)
  BY <1>2, <1>3, <1>4, Steps DEF vars, serviceVars
<1>6. PICK res : SubmitDone(c, res)
  BY <1>2, <1>5 DEF ServiceDoes, Reserves, Refused, Persisted, PersistFailed, EngineSame, CancelDone
<1>7. PICK n : n = arrived + 1
  OBVIOUS
<1>8. queue' = queue \o res.trades /\ book' = res.book /\ TradesFit(book, res.book, n, res.trades)
  BY <1>6, <1>7 DEF SubmitDone, Submitted
<1>9. PICK new \in Seq(Trade) : new = res.trades
  BY <1>8 DEF TradesFit
<1>10. /\ queue \o new \in Seq(Trade) /\ Len(queue \o new) = Len(queue) + Len(new)
       /\ \A j \in 1 .. Len(queue) + Len(new) :
             (queue \o new)[j] = IF j <= Len(queue) THEN queue[j] ELSE new[j - Len(queue)]
  BY <1>1, <1>9, ConcatProperties
<1>11. PICK j : j = i - Len(queue)
  OBVIOUS
<1>12. j \in 1 .. Len(new) /\ queue'[i] = new[j]
  BY <1>1, <1>8, <1>9, <1>10, <1>11
<1> QED BY <1>8, <1>9, <1>12 DEF TradesFit, RestingOrders

\* Price-time priority: a step that trades with a maker fills every resting
\* order that comes before it, however deep the book is.
THEOREM PriceTimePriorityCorrect == Spec => PriceTimePriority
<1>1. ASSUME Inv, [Next]_vars
      PROVE  \A i \in DOMAIN queue' \ DOMAIN queue :
                \A o \in RestingOrders(book) :
                   Beats(book, o, queue'[i].maker) => book'.orders[o].status = "Filled"
  BY <1>1, PriorityStep DEF Inv
<1> QED BY <1>1, Invariant, PTL DEF Spec, PriceTimePriority
=============================================================================
