----------------------------- MODULE OptionMatching -----------------------------
(***************************************************************************)
(* The pure part of the options matcher: which resting orders an incoming  *)
(* order can trade with, in which order, how much of each, and whether its *)
(* time in force accepts the plan.                                         *)
(*                                                                         *)
(* One option series is modelled: every statement of the matcher selects   *)
(* by option_series_id.  The terms of an order never change; its row is    *)
(* [remaining, status].                                                    *)
(***************************************************************************)
EXTENDS Naturals, Sequences, FiniteSets, Functions

CONSTANTS
    Orders,     \* the orders that clients may submit
    Accounts,   \* an owner and one of its subaccounts
    Terms,      \* [account, side, price, size, tif, postOnly, deadline] of each
    None        \* no row, no task

Sides == {"buy", "sell"}

ASSUME TermsAreValid ==
    /\ Terms \in [Orders -> [account : Accounts, side : Sides, price : Nat \ {0}, size : Nat \ {0},
                             tif : {"gtc", "ioc", "fok"}, postOnly : BOOLEAN, deadline : BOOLEAN]]
    /\ \A o \in Orders : Terms[o].postOnly => Terms[o].tif = "gtc"

Live == {"open", "partially_filled"}

OrderRow == [remaining : Nat, status : Live \cup {"filled", "cancelled", "expired"}]

ASSUME NoneIsNoRow == None \notin OrderRow

(* status_for_remaining *)
StatusForRemaining(size, remaining) ==
    CASE remaining = 0    -> "filled"
      [] remaining = size -> "open"
      [] OTHER            -> "partially_filled"

(* final_status_for_tif: only an IOC order gives its residual up *)
FinalStatusForTif(o, remaining) ==
    LET base == StatusForRemaining(Terms[o].size, remaining)
    IN  IF Terms[o].tif = "ioc" /\ base \in Live THEN "cancelled" ELSE base

Better(o, p, q) == IF Terms[o].side = "buy" THEN p < q ELSE p > q

(* Mutant: equal prices do not trade. *)
RivalCrosses(o, m) ==
    /\ Terms[o].side # Terms[m].side
    /\ Better(o, Terms[m].price, Terms[o].price)

Crosses(o, m) ==
    /\ Terms[o].side # Terms[m].side
    /\ ~Better(o, Terms[o].price, Terms[m].price)

(* can_match_option_orders, on the rows the matcher has read *)
CanMatch(o, m, book) ==
    /\ Crosses(o, m)
    /\ book[m].status \in Live
    /\ book[m].remaining > 0

(* Mutant: the price is not looked at. *)
TimeFirst(o, m, n, age) == age[m] < age[n]

(***************************************************************************)
(* sort_option_match_candidates: price first, then created_at, then the    *)
(* order id.  age is the position of the order among all that arrived.     *)
(***************************************************************************)
RanksBefore(o, m, n, age) ==
    \/ Better(o, Terms[m].price, Terms[n].price)
    \/ Terms[m].price = Terms[n].price /\ age[m] < age[n]

(* the rows that can trade, each once and in that order *)
Candidates(o, book, age) ==
    LET makers == {m \in DOMAIN book : CanMatch(o, m, book)}
    IN  CHOOSE s \in [1 .. Cardinality(makers) -> makers] :
            /\ Range(s) = makers
            /\ \A i, j \in DOMAIN s : i < j => RanksBefore(o, s[i], s[j], age)

(***************************************************************************)
(* build_option_match_plan: walk the candidates until the taker is         *)
(* exhausted.  left is what the plan leaves of the taker.                  *)
(***************************************************************************)
Take(plan, m, available) ==
    LET size == IF plan.left < available THEN plan.left ELSE available
    IN  IF size = 0 THEN plan
        ELSE [left |-> plan.left - size,
              legs |-> Append(plan.legs, [maker |-> m, size |-> size])]

BuildMatchPlan(o, book, age) ==
    LET makers == Candidates(o, book, age)
        plan[n \in 0 .. Len(makers)] ==
            IF n = 0 THEN [left |-> Terms[o].size, legs |-> <<>>]
            ELSE Take(plan[n - 1], makers[n], book[makers[n]].remaining)
    IN  plan[Len(makers)]

(* enforce_tif_plan *)
TifAccepts(o, plan) ==
    /\ Terms[o].postOnly => plan.legs = <<>>
    /\ Terms[o].tif = "fok" => plan.left = 0
=================================================================================
