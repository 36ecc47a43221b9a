------------------------------ MODULE OptionOrders ------------------------------
(***************************************************************************)
(* Submission, cancellation and expiry of options orders on the Postgres   *)
(* path, with the reservation ledger the matcher writes.                   *)
(*                                                                         *)
(* A submission has four steps: it takes created_at, it issues the         *)
(* SELECT ... FOR UPDATE of the opposite side (the statement snapshot), it *)
(* matches and commits, and it inserts the execution intents of its fills, *)
(* each in a transaction of its own.  Under READ COMMITTED the locked read *)
(* returns the current version of every row of the snapshot that is still  *)
(* live; an order committed after the snapshot is not seen.  The locks do  *)
(* not outlive the commit, so locking and committing are one step.         *)
(*                                                                         *)
(* hold[o] is the quantity of the ACTIVE OPEN_ORDER reservation (0: none; *)
(* the partial unique index admits one), pending the ACTIVE                *)
(* PENDING_SETTLEMENT rows.  Settlement is the subject of OptionExecution. *)
(* The canonical execution id of a fill is the pair of its orders.         *)
(***************************************************************************)
EXTENDS OptionMatching

CONSTANTS
    IsCall, Underlying, SettlementAsset,    \* of the series
    MaxSubmissions, \* of the orders that clients may submit, how many they do
    MaxFaults       \* failed reads, failed statements and crashes

ASSUME SeriesIsValid == IsCall \in BOOLEAN

ASSUME EnvironmentBounds == MaxSubmissions \in Nat /\ MaxFaults \in Nat

VARIABLES
    order,      \* option_orders
    hold,       \* option_reservations, purpose OPEN_ORDER
    pending,    \* option_reservations, purpose PENDING_SETTLEMENT
    fills,      \* option_fills
    intents,    \* executions with an intent and an awaiting correlation
    task,       \* the submit_option_order call of each order
    snapshot,   \* what the FOR UPDATE statement of each order saw
    arrived,    \* orders by created_at
    releasing,  \* cancelled orders whose call has still to release the hold
    due,        \* orders whose deadline_ms has passed
    unledgered, \* history: orders of a match made without a reservation plan
    unreleased, \* history: cancelled orders whose release failed or was cut off
    faults

vars == <<order, hold, pending, fills, intents, task, snapshot, arrived,
          releasing, due, unledgered, unreleased, faults>>

Fill == [buy : Orders, sell : Orders, size : Nat, taker : Orders]

EmptyBook == [m \in {} |-> None]

Init ==
    /\ order = [o \in Orders |-> None]
    /\ hold = [o \in Orders |-> 0]
    /\ pending = {} /\ fills = {} /\ intents = {}
    /\ task = [o \in Orders |-> [at |-> "new", todo |-> <<>>]]
    /\ snapshot = [o \in Orders |-> EmptyBook]
    /\ arrived = <<>>
    /\ releasing = {} /\ due = {} /\ unledgered = {} /\ unreleased = {}
    /\ faults = 0

At(o) == task[o].at

Goto(o, at, todo) == task' = [task EXCEPT ![o] = [at |-> at, todo |-> todo]]

(* the call returns once every fill has its intent *)
IntentsLeft(o, todo) == Goto(o, IF todo = <<>> THEN "accepted" ELSE "matched", todo)

Fault == faults < MaxFaults /\ faults' = faults + 1

IsLive(o) == order[o] # None /\ order[o].status \in Live

Age == [o \in Orders |-> IF o \in Range(arrived)
                         THEN CHOOSE i \in DOMAIN arrived : arrived[i] = o ELSE 0]

--------------------------------------------------------------------------------
(***************************************************************************)
(* submit_option_order                                                     *)
(*                                                                         *)
(* Two submissions in one millisecond are ordered by their random order    *)
(* ids: that is one of the two arrival orders.                             *)
(***************************************************************************)
Arrive(o) ==
    /\ At(o) = "new"
    /\ Cardinality({n \in Orders : At(n) # "new"}) < MaxSubmissions
    /\ IF o \in due THEN Goto(o, "rejected", <<>>) /\ UNCHANGED arrived
                    ELSE Goto(o, "arrived", <<>>) /\ arrived' = Append(arrived, o)
    /\ UNCHANGED <<order, hold, pending, fills, intents, snapshot, releasing, due,
                   unledgered, unreleased, faults>>

ReadOppositeSide(o) ==
    /\ At(o) = "arrived"
    /\ Goto(o, "reading", <<>>)
    /\ snapshot' = [snapshot EXCEPT ![o] =
            [m \in {n \in Orders : IsLive(n) /\ Terms[n].side # Terms[o].side} |-> order[m]]]
    /\ UNCHANGED <<order, hold, pending, fills, intents, arrived, releasing, due,
                   unledgered, unreleased, faults>>

(* Mutant: the sizes of the snapshot are used. *)
SnapshotRows(o) == snapshot[o]

(* the rows the locks give out: the versions that are current now *)
LockedRows(o) == [m \in {n \in DOMAIN snapshot[o] : IsLive(n)} |-> order[m]]

FillOf(o, leg) ==
    IF Terms[o].side = "buy"
    THEN [buy |-> o, sell |-> leg.maker, size |-> leg.size, taker |-> o]
    ELSE [buy |-> leg.maker, sell |-> o, size |-> leg.size, taker |-> o]

Taken(plan, m) == plan.legs[CHOOSE i \in DOMAIN plan.legs : plan.legs[i].maker = m].size

Makers(plan) == {plan.legs[i].maker : i \in DOMAIN plan.legs}

MakerRow(m, book, plan) ==
    LET left == book[m].remaining - Taken(plan, m)
    IN  [remaining |-> left, status |-> StatusForRemaining(Terms[m].size, left)]

(* buyer_collateral_token, seller_collateral_token *)
CollateralToken(side) == IF side = "sell" /\ IsCall THEN Underlying ELSE SettlementAsset

(* the two inserts of a fill have one key: execution, account and token *)
KeysCollide(f) ==
    /\ Terms[f.buy].account = Terms[f.sell].account
    /\ CollateralToken("buy") = CollateralToken("sell")

(***************************************************************************)
(* insert_pending_settlement_reservation_tx for the buyer, then for the    *)
(* seller: ON CONFLICT DO NOTHING leaves the first of two equal keys.      *)
(***************************************************************************)
PendingRows(f) ==
    {[fill |-> f, side |-> side] : side \in {s \in Sides : s = "buy" \/ ~KeysCollide(f)}}

(* Mutant: the hold is converted without a successor. *)
ConvertOnly(m, rest) == 0

(***************************************************************************)
(* The reservation writes of the match: the hold of a resting taker is     *)
(* inserted with the size of the order; the hold of a consumed maker is    *)
(* CONVERTED, and succeeded by one for the residual if it was ACTIVE; each *)
(* fill gets its pending rows.                                             *)
(***************************************************************************)
ResidualHold(m, rest) == IF hold[m] = 0 THEN 0 ELSE rest

TakerHold(o, row) ==
    IF row.remaining > 0 /\ row.status \in Live THEN Terms[o].size ELSE 0

WriteReservations(o, row, book, plan) ==
    /\ hold' = [m \in Orders |->
            CASE m = o              -> TakerHold(o, row)
              [] m \in Makers(plan) -> ResidualHold(m, MakerRow(m, book, plan).remaining)
              [] OTHER              -> hold[m]]
    /\ pending' = pending \cup UNION {PendingRows(FillOf(o, plan.legs[i])) : i \in DOMAIN plan.legs}

RefuseByTif(o) ==
    /\ At(o) = "reading"
    /\ ~TifAccepts(o, BuildMatchPlan(o, LockedRows(o), Age))
    /\ Goto(o, "rejected", <<>>)
    /\ UNCHANGED <<order, hold, pending, fills, intents, snapshot, arrived, releasing, due,
                   unledgered, unreleased, faults>>

CommitMatch(o, book, plan) ==
    LET row == [remaining |-> plan.left, status |-> FinalStatusForTif(o, plan.left)]
    IN  /\ At(o) = "reading"
        /\ TifAccepts(o, plan)
        /\ order' = [m \in Orders |->
                CASE m = o              -> row
                  [] m \in Makers(plan) -> MakerRow(m, book, plan)
                  [] OTHER              -> order[m]]
        /\ fills' = fills \cup {FillOf(o, plan.legs[i]) : i \in DOMAIN plan.legs}
        /\ IntentsLeft(o, [i \in DOMAIN plan.legs |-> FillOf(o, plan.legs[i])])
        /\ \/ /\ WriteReservations(o, row, book, plan)
              /\ UNCHANGED <<unledgered, faults>>
           \* build_matcher_reservation_plan could not read the series
           \/ /\ Fault
              /\ unledgered' = unledgered \cup {o} \cup Makers(plan)
              /\ UNCHANGED <<hold, pending>>
        /\ UNCHANGED <<intents, snapshot, arrived, releasing, due, unreleased>>

SubmitAndMatch(o) ==
    LET book == LockedRows(o)
    IN  CommitMatch(o, book, BuildMatchPlan(o, book, Age))

(***************************************************************************)
(* create_option_orderbook_execution_intents: the first fill that fails    *)
(* ends the call with an error.                                            *)
(***************************************************************************)
AbortOnFailedIntent(o) == Goto(o, "failed", <<>>)

CreateIntent(o) ==
    /\ At(o) = "matched"
    /\ \/ /\ intents' = intents \cup {Head(task[o].todo)}
          /\ IntentsLeft(o, Tail(task[o].todo))
          /\ UNCHANGED faults
       \/ Fault /\ AbortOnFailedIntent(o) /\ UNCHANGED intents
    /\ UNCHANGED <<order, hold, pending, fills, snapshot, arrived, releasing, due,
                   unledgered, unreleased>>

--------------------------------------------------------------------------------
(***************************************************************************)
(* cancel_option_order, sweep_expired_option_orders                        *)
(***************************************************************************)
Cancel(o) ==
    /\ IsLive(o)
    /\ order' = [order EXCEPT ![o].status = "cancelled"]
    /\ releasing' = releasing \cup {o}
    /\ UNCHANGED <<hold, pending, fills, intents, task, snapshot, arrived, due,
                   unledgered, unreleased, faults>>

(* release_open_order_reservation_for: best effort, its error is logged *)
ReleaseHold(o) ==
    /\ o \in releasing
    /\ releasing' = releasing \ {o}
    /\ \/ hold' = [hold EXCEPT ![o] = 0] /\ UNCHANGED <<unreleased, faults>>
       \/ Fault /\ unreleased' = unreleased \cup {o} /\ UNCHANGED hold
    /\ UNCHANGED <<order, pending, fills, intents, task, snapshot, arrived, due, unledgered>>

DeadlinePasses(o) ==
    /\ Terms[o].deadline /\ o \notin due
    /\ due' = due \cup {o}
    /\ UNCHANGED <<order, hold, pending, fills, intents, task, snapshot, arrived,
                   releasing, unledgered, unreleased, faults>>

SweepExpired ==
    /\ \E o \in due : IsLive(o)
    /\ order' = [o \in Orders |->
            IF o \in due /\ IsLive(o) THEN [order[o] EXCEPT !.status = "expired"] ELSE order[o]]
    /\ UNCHANGED <<hold, pending, fills, intents, task, snapshot, arrived, releasing, due,
                   unledgered, unreleased, faults>>

(* the process dies: its calls end where they are, committed rows stay *)
Crash ==
    /\ Fault
    /\ task' = [o \in Orders |->
            CASE At(o) \in {"arrived", "reading"} -> [at |-> "rejected", todo |-> <<>>]
              [] At(o) = "matched"                -> [at |-> "failed", todo |-> <<>>]
              [] OTHER                            -> task[o]]
    /\ releasing' = {}
    /\ unreleased' = unreleased \cup releasing
    /\ UNCHANGED <<order, hold, pending, fills, intents, snapshot, arrived, due, unledgered>>

Next ==
    \/ \E o \in Orders :
        \/ Arrive(o) \/ ReadOppositeSide(o) \/ RefuseByTif(o) \/ SubmitAndMatch(o)
        \/ CreateIntent(o) \/ Cancel(o) \/ ReleaseHold(o) \/ DeadlinePasses(o)
    \/ SweepExpired
    \/ Crash

Spec == Init /\ [][Next]_vars

--------------------------------------------------------------------------------
(* The tables and the calls keep their types. *)
TypeOK ==
    /\ order \in [Orders -> OrderRow \cup {None}]
    /\ hold \in [Orders -> Nat]
    /\ fills \subseteq Fill /\ pending \subseteq [fill : fills, side : Sides] /\ intents \subseteq fills
    /\ \A o \in Orders :
        /\ At(o) \in {"new", "arrived", "reading", "matched", "accepted", "failed", "rejected"}
        /\ Range(task[o].todo) \subseteq fills
        /\ DOMAIN snapshot[o] \subseteq Orders
    /\ Range(arrived) \subseteq Orders
    /\ releasing \cup due \cup unledgered \cup unreleased \subseteq Orders
    /\ faults \in 0 .. MaxFaults

FillsOf(o) == {f \in fills : o \in {f.buy, f.sell}}

Traded(fs) == SumFunctionOnSet([f \in fs |-> f.size], fs)

(***************************************************************************)
(* However submissions and cancellations interleave, the fills of an order *)
(* account for exactly what its row has lost, and never for more than its  *)
(* size: two takers that read the same maker do not both consume it        *)
(* (the FOR UPDATE of submit_option_order_and_match_with_reservations).    *)
(***************************************************************************)
FillsConserved ==
    \A o \in Orders :
        IF order[o] = None THEN FillsOf(o) = {}
        ELSE order[o].remaining + Traded(FillsOf(o)) = Terms[o].size

(* the fills of an order that have its side's PENDING_SETTLEMENT row *)
Reserved(o) == {f \in FillsOf(o) : [fill |-> f, side |-> Terms[o].side] \in pending}

(* the sell side of a trade of an account with itself in one token *)
LosesRow(o, f) == Terms[o].side = "sell" /\ KeysCollide(f)

(***************************************************************************)
(* The comment on insert_pending_settlement_reservation_tx                 *)
(* (reservation_repository.rs:511-513), "so the buyer + seller of the same *)
(* canonical execution get distinct rows".  It is not kept: see README.    *)
(***************************************************************************)
EachSideHasItsRow == \A o \in Orders \ unledgered : Reserved(o) = FillsOf(o)

(***************************************************************************)
(* Of the fills of an order exactly those lack the row of its side that    *)
(* lose it to ON CONFLICT DO NOTHING.  Orders of a match that had to run   *)
(* without a reservation plan (build_matcher_reservation_plan) are         *)
(* excepted, here and below.                                               *)
(***************************************************************************)
PendingIsExact ==
    \A o \in Orders \ unledgered : Reserved(o) = {f \in FillsOf(o) : ~LosesRow(o, f)}

(***************************************************************************)
(* What the hold of an order is for: the code inserts it with the size of  *)
(* the order, also for a taker that rests a residual only, and resizes it  *)
(* to what is left when the order is consumed as a maker.                  *)
(***************************************************************************)
HoldFor(o) == IF \E f \in FillsOf(o) : f.taker # o THEN order[o].remaining ELSE Terms[o].size

HoldsAreExact ==
    \A o \in Orders \ unledgered : IsLive(o) \/ hold[o] > 0 => hold[o] = HoldFor(o)

(***************************************************************************)
(* No hold outlives its order except the ones the code is known to leave:  *)
(* while the cancelling call has not released it yet, after that call      *)
(* failed or was cut off, and on expiry, where the sweep releases nothing. *)
(***************************************************************************)
HoldsAreExplained ==
    \A o \in Orders \ unledgered :
        hold[o] > 0 => \/ IsLive(o)
                       \/ o \in releasing \cup unreleased
                       \/ order[o] # None /\ order[o].status = "expired"

(***************************************************************************)
(* An order that can still trade, or that has traded in full, is covered:  *)
(* its OPEN_ORDER hold and the pending rows of its fills together reserve  *)
(* at least its size, unless one of its fills lost the row.                *)
(***************************************************************************)
NeverUnderReserved ==
    \A o \in Orders \ unledgered :
        (/\ order[o] # None /\ order[o].status \in Live \cup {"filled"}
         /\ \A f \in FillsOf(o) : ~LosesRow(o, f))
            => hold[o] + Traded(Reserved(o)) >= Terms[o].size

(***************************************************************************)
(* The reservation ledger follows the book through partial fills, cancels  *)
(* and expiry: what is held is exactly what the code means to hold, enough *)
(* for what can still trade or has traded, and nothing is held for ever    *)
(* but what the code leaves (resize_open_order_on_partial_fill_tx,         *)
(* insert_pending_settlement_reservation_tx, release on cancel).           *)
(***************************************************************************)
LedgerFollowsBook == PendingIsExact /\ HoldsAreExact /\ HoldsAreExplained /\ NeverUnderReserved

(***************************************************************************)
(* The book is crossed only between submissions that overlapped: of two    *)
(* live orders that could trade with each other, neither saw the other in  *)
(* its locking read.                                                       *)
(***************************************************************************)
CrossedOnlyByOverlap ==
    \A b, s \in {o \in Orders : IsLive(o)} :
        Terms[b].side = "buy" /\ Terms[s].side = "sell" /\ Terms[b].price >= Terms[s].price
            => s \notin DOMAIN snapshot[b] /\ b \notin DOMAIN snapshot[s]

(***************************************************************************)
(* Price and time priority of the rows the taker locked: when a step gives *)
(* a maker a fill, every maker of the taker's snapshot that ranks before   *)
(* it and could trade is left filled.                                      *)
(***************************************************************************)
PriorityKept ==
    [][\A f \in fills' \ fills :
        LET o == f.taker
            m == IF f.buy = o THEN f.sell ELSE f.buy
            First(n) == \/ Better(o, Terms[n].price, Terms[m].price)
                        \/ Terms[n].price = Terms[m].price /\ Age[n] < Age[m]
        IN  \A n \in DOMAIN LockedRows(o) :
                Crosses(o, n) /\ First(n) => order[n]'.remaining = 0]_vars

================================================================================
