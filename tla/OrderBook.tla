------------------------------- MODULE OrderBook -------------------------------
(***************************************************************************)
(* The matching engine of one market (src/src/orderbook): price levels in  *)
(* price order, a FIFO of order ids in every level, the location of every  *)
(* resting order and the map of all orders the book has ever seen.  A book *)
(* is a record and an operation maps a book to a result, because the       *)
(* engine runs each of them whole under its mutex (orders/service.rs).     *)
(*                                                                         *)
(*   levels     the two BTreeMaps, bids under "Buy" and asks under "Sell": *)
(*              a price is in the domain exactly when its level exists     *)
(*   locations  order id |-> side and price of a resting order             *)
(*   orders     order id |-> order, rejected and finished ones included    *)
(*                                                                         *)
(* Order ids are numbered in order of arrival.  Timestamps, markets and    *)
(* signatures are left out: no decision of the book reads them.            *)
(***************************************************************************)
EXTENDS Naturals, Sequences, SequencesExt, FiniteSetsExt

Sides == {"Buy", "Sell"}

TimesInForce == {"Gtc", "Ioc", "Fok"}

OrderStatuses == {"New", "Open", "PartiallyFilled", "Filled", "Cancelled", "Rejected"}

Opposite(side) == IF side = "Buy" THEN "Sell" ELSE "Buy"

EmptyBook == [levels |-> [side \in Sides |-> <<>>], locations |-> <<>>, orders |-> <<>>]

(* f without the keys of S: what BTreeMap::remove and HashMap::remove leave *)
Without(f, S) == [k \in DOMAIN f \ S |-> f[k]]

(* f with v under k: what insert leaves *)
With(f, k, v) == [x \in DOMAIN f \cup {k} |-> IF x = k THEN v ELSE f[x]]

(* Mutant: equal prices no longer trade. *)
PricesCrossStrict(takerSide, makerPrice, takerPrice) ==
    IF takerSide = "Buy" THEN makerPrice < takerPrice ELSE makerPrice > takerPrice

PricesCross(takerSide, makerPrice, takerPrice) ==
    IF takerSide = "Buy" THEN makerPrice <= takerPrice ELSE makerPrice >= takerPrice

(* Mutant: the worst price of the other side is taken first. *)
WorstOppositePrice(b, takerSide) ==
    LET prices == DOMAIN b.levels[Opposite(takerSide)]
    IN  IF takerSide = "Buy" THEN Max(prices) ELSE Min(prices)

BestOppositePrice(b, takerSide) ==
    LET prices == DOMAIN b.levels[Opposite(takerSide)]
    IN  IF takerSide = "Buy" THEN Min(prices) ELSE Max(prices)

(* True also when best_match_order_id finds an order: the front of the best level *)
WouldMatch(b, order) ==
    /\ DOMAIN b.levels[Opposite(order.side)] # {}
    /\ PricesCross(order.side, BestOppositePrice(b, order.side), order.price)

BestMatchOrderId(b, taker) ==
    Head(b.levels[Opposite(taker.side)][BestOppositePrice(b, taker.side)])

WouldSelfTrade(b, order) ==
    LET levels == b.levels[Opposite(order.side)]
    IN  \E p \in DOMAIN levels :
           /\ PricesCross(order.side, p, order.price)
           /\ \E i \in DOMAIN levels[p] : b.orders[levels[p][i]].account = order.account

RemoveEmptyLevel(levels, price) ==
    IF levels[price] = <<>> THEN Without(levels, {price}) ELSE levels

(* Mutant: a cancelled order leaves the map of locations but not its level. *)
CancelKeepsLevel(b, id) ==
    [b EXCEPT !.locations = Without(b.locations, {id}),
              !.orders[id].status = "Cancelled", !.orders[id].remaining = 0]

BookCancel(b, id) ==
    LET at == b.locations[id]
        level == RemoveFirst(b.levels[at.side][at.price], id)
    IN  [levels    |-> [b.levels EXCEPT ![at.side] =
                          RemoveEmptyLevel([@ EXCEPT ![at.price] = level], at.price)],
         locations |-> Without(b.locations, {id}),
         orders    |-> [b.orders EXCEPT ![id].status = "Cancelled", ![id].remaining = 0]]

(* The maker is the front of its level: pop_front removes it when it is filled *)
ApplyMakerFill(b, id, fillSize) ==
    LET maker == b.orders[id]
        left == maker.remaining - fillSize
        after == [maker EXCEPT !.remaining = left,
                               !.status = IF left = 0 THEN "Filled" ELSE "PartiallyFilled"]
        orders == [b.orders EXCEPT ![id] = after]
        level == Tail(b.levels[maker.side][maker.price])
    IN  IF left > 0 THEN [b EXCEPT !.orders = orders]
        ELSE [levels    |-> [b.levels EXCEPT ![maker.side] =
                               RemoveEmptyLevel([@ EXCEPT ![maker.price] = level], maker.price)],
              locations |-> Without(b.locations, {id}),
              orders    |-> orders]

RestOrder(b, id, order) ==
    LET side == b.levels[order.side]
        level == IF order.price \in DOMAIN side THEN Append(side[order.price], id) ELSE <<id>>
    IN  [levels    |-> [b.levels EXCEPT ![order.side] = With(side, order.price, level)],
         locations |-> With(b.locations, id, [side |-> order.side, price |-> order.price]),
         orders    |-> b.orders]

(***************************************************************************)
(* One turn of the matching loop.  A run is the record of the book, what   *)
(* is left of the taker, the trades and the makers touched so far.         *)
(***************************************************************************)
CanMatch(run) == run.remaining > 0 /\ WouldMatch(run.book, run.taker)

(* Mutant: the trade is recorded for the size the taker still wants. *)
MatchOverfilling(run, takerId) ==
    LET makerId == BestMatchOrderId(run.book, run.taker)
        maker == run.book.orders[makerId]
        fill == Min({run.remaining, maker.remaining})
    IN  [run EXCEPT
           !.book = ApplyMakerFill(@, makerId, fill),
           !.remaining = @ - fill,
           !.makers = Append(@, makerId),
           !.trades = Append(@, [maker |-> makerId, taker |-> takerId,
                                 price |-> maker.price, size |-> run.remaining])]

MatchOne(run, takerId) ==
    LET makerId == BestMatchOrderId(run.book, run.taker)
        maker == run.book.orders[makerId]
        fill == Min({run.remaining, maker.remaining})
    IN  [book |-> ApplyMakerFill(run.book, makerId, fill),
         taker |-> run.taker,
         remaining |-> run.remaining - fill,
         makers |-> Append(run.makers, makerId),
         trades |-> Append(run.trades, [maker |-> makerId, taker |-> takerId,
                                        price |-> maker.price, size |-> fill])]

(* Every turn but the last removes a maker, so the number of resting orders bounds them *)
MatchAll(b, takerId, taker) ==
    LET turns == Cardinality(DOMAIN b.locations)
        run[n \in 0..turns] ==
          IF n = 0 THEN [book |-> b, taker |-> taker, remaining |-> taker.size,
                         makers |-> <<>>, trades |-> <<>>]
          ELSE LET before == run[n - 1]
               IN  IF CanMatch(before) THEN MatchOne(before, takerId) ELSE before
    IN  run[turns]

Rejected(order) == [order EXCEPT !.status = "Rejected"]

TakerAfter(taker, remaining, traded) ==
    LET killed == taker.tif = "Ioc" /\ remaining > 0
    IN  [taker EXCEPT !.remaining = IF killed THEN 0 ELSE remaining,
                      !.status = IF remaining = 0 THEN "Filled"
                                 ELSE IF traded THEN "PartiallyFilled"
                                 ELSE IF killed THEN "Cancelled" ELSE "Open"]

(***************************************************************************)
(* submit: an order without price or size is refused unrecorded; a         *)
(* fill-or-kill order, a post-only order that would match and an order     *)
(* that would meet one of its own account are recorded as rejected; any    *)
(* other one is matched and its remainder rests or is cancelled.           *)
(***************************************************************************)
BookSubmit(b, id, order) ==
    IF order.price = 0 \/ order.size = 0
    THEN [book |-> b, accepted |-> FALSE, makers |-> <<>>, trades |-> <<>>]
    ELSE
    IF \/ order.tif = "Fok"
       \/ order.postOnly /\ WouldMatch(b, order)
       \/ WouldSelfTrade(b, order)
    THEN [book |-> [b EXCEPT !.orders = With(@, id, Rejected(order))],
          accepted |-> FALSE, makers |-> <<>>, trades |-> <<>>]
    ELSE LET run == MatchAll([b EXCEPT !.orders = With(@, id, [order EXCEPT !.status = "Open"])], id, order)
             taker == TakerAfter(order, run.remaining, run.trades # <<>>)
             rested == IF taker.remaining > 0 THEN RestOrder(run.book, id, taker) ELSE run.book
         IN  [book |-> [rested EXCEPT !.orders[id] = taker],
              accepted |-> TRUE, makers |-> run.makers, trades |-> run.trades]

RestingOrders(b) == DOMAIN b.locations
================================================================================
