-------------------------- MODULE OptionOrderProofs --------------------------
(***************************************************************************)
(* Proofs about the options matcher and its reservation ledger, for any    *)
(* set of orders and terms and any number of submissions and faults.       *)
(*                                                                         *)
(* First the plan of one match, by induction over the candidates it walks; *)
(* then the tables, step by step.                                          *)
(***************************************************************************)
EXTENDS OptionOrders, NumberFacts

-----------------------------------------------------------------------------
(* The candidates in rank order.                                           *)

Term == [account : Accounts, side : Sides, price : Nat \ {0}, size : Nat \ {0},
         tif : {"gtc", "ioc", "fok"}, postOnly : BOOLEAN, deadline : BOOLEAN]

\* Makers that a taker can tell apart: every two have different ages.
Ranked(makers, age) ==
    /\ makers \subseteq Orders /\ \A m \in makers : age[m] \in Nat
    /\ \A m, n \in makers : age[m] = age[n] => m = n

LEMMA TermFacts ==
    ASSUME NEW o \in Orders
    PROVE  /\ Terms[o] \in Term /\ Terms[o].side \in Sides /\ Terms[o].price \in Nat
           /\ Terms[o].size \in Nat /\ Terms[o].size > 0
           /\ Terms[o].tif \in {"gtc", "ioc", "fok"}
BY TermsAreValid DEF Term

LEMMA RanksAreTotal ==
    ASSUME NEW o \in Orders, NEW makers, NEW age, Ranked(makers, age),
           NEW m \in makers, NEW n \in makers
    PROVE  /\ m = n \/ RanksBefore(o, m, n, age) \/ RanksBefore(o, n, m, age)
           /\ RanksBefore(o, m, n, age) => m # n /\ ~ RanksBefore(o, n, m, age)
<1>1. /\ Terms[m].price \in Nat /\ Terms[n].price \in Nat
      /\ age[m] \in Nat /\ age[n] \in Nat /\ (age[m] = age[n] => m = n)
  BY TermFacts DEF Ranked
<1>2. PICK p, q, a, b : p = Terms[m].price /\ q = Terms[n].price /\ a = age[m] /\ b = age[n]
  OBVIOUS
<1>3. p \in Nat /\ q \in Nat /\ a \in Nat /\ b \in Nat /\ (a = b => m = n)
  BY <1>1, <1>2
<1>4. CASE Terms[o].side = "buy"
  BY <1>2, <1>3, <1>4 DEF RanksBefore, Better
<1>5. CASE Terms[o].side # "buy"
  BY <1>2, <1>3, <1>5 DEF RanksBefore, Better
<1> QED BY <1>4, <1>5

LEMMA RanksAreTransitive ==
    ASSUME NEW o \in Orders, NEW makers, NEW age, Ranked(makers, age),
           NEW l \in makers, NEW m \in makers, NEW n \in makers,
           RanksBefore(o, l, m, age), RanksBefore(o, m, n, age)
    PROVE  RanksBefore(o, l, n, age)
<1>1. PICK p, q, r, a, b, c : /\ p = Terms[l].price /\ q = Terms[m].price /\ r = Terms[n].price
                              /\ a = age[l] /\ b = age[m] /\ c = age[n]
  OBVIOUS
<1>2. p \in Nat /\ q \in Nat /\ r \in Nat /\ a \in Nat /\ b \in Nat /\ c \in Nat
  BY <1>1, TermFacts DEF Ranked
<1>3. CASE Terms[o].side = "buy"
  BY <1>1, <1>2, <1>3 DEF RanksBefore, Better
<1>4. CASE Terms[o].side # "buy"
  BY <1>1, <1>2, <1>4 DEF RanksBefore, Better
<1> QED BY <1>3, <1>4

LEMMA LastExists ==
    ASSUME NEW o \in Orders, NEW makers, IsFiniteSet(makers), NEW age, Ranked(makers, age), makers # {}
    PROVE  \E m \in makers : \A n \in makers \ {m} : RanksBefore(o, n, m, age)
<1> DEFINE Good == {T \in SUBSET makers : T # {} =>
                       \E m \in T : \A n \in T \ {m} : RanksBefore(o, n, m, age)}
<1>1. ASSUME NEW T \in SUBSET makers, \A U \in SUBSET T : U # T => U \in Good
      PROVE  T \in Good
  <2> SUFFICES ASSUME T # {}
               PROVE  \E m \in T : \A n \in T \ {m} : RanksBefore(o, n, m, age)
    OBVIOUS
  <2>1. PICK x \in T : TRUE
    OBVIOUS
  <2>2. PICK U : U = T \ {x}
    OBVIOUS
  <2>3. CASE U = {}
    BY <2>1, <2>2, <2>3
  <2>4. CASE U # {}
    <3>1. U \in SUBSET T /\ U # T
      BY <2>1, <2>2
    <3>2. PICK y \in U : \A n \in U \ {y} : RanksBefore(o, n, y, age)
      BY <1>1, <2>4, <3>1
    <3>3. x \in makers /\ y \in makers /\ x # y
      BY <2>1, <2>2, <3>2
    <3>4. CASE RanksBefore(o, x, y, age)
      BY <2>2, <3>2, <3>4
    <3>5. CASE RanksBefore(o, y, x, age)
      <4>1. \A n \in T \ {x} : RanksBefore(o, n, x, age)
        BY <2>2, <3>2, <3>3, <3>5, RanksAreTransitive
      <4> QED BY <2>1, <4>1
    <3> QED BY <3>3, <3>4, <3>5, RanksAreTotal
  <2> QED BY <2>3, <2>4
<1> HIDE DEF Good
<1>2. makers \in Good
  BY <1>1, EverySubset
<1> QED BY <1>2 DEF Good

\* The makers, each once and in rank order.
IsSorted(s, o, makers, age) ==
    /\ Range(s) = makers
    /\ \A i, j \in DOMAIN s : i < j => RanksBefore(o, s[i], s[j], age)

LEMMA SortedExists ==
    ASSUME NEW o \in Orders, NEW makers, IsFiniteSet(makers), NEW age, Ranked(makers, age)
    PROVE  \E s \in [1 .. Cardinality(makers) -> makers] : IsSorted(s, o, makers, age)
<1> DEFINE Good == {T \in SUBSET makers :
                       \E s \in [1 .. Cardinality(T) -> T] : IsSorted(s, o, T, age)}
<1>1. ASSUME NEW T \in SUBSET makers, \A U \in SUBSET T : U # T => U \in Good
      PROVE  T \in Good
  <2>0. IsFiniteSet(T) /\ Cardinality(T) \in Nat
    BY FS_Subset, FS_CardinalityType
  <2>1. CASE T = {}
    <3>1. Cardinality(T) = 0
      BY <2>1, FS_EmptySet
    <3>2. <<>> \in [1 .. Cardinality(T) -> T] /\ IsSorted(<<>>, o, T, age)
      BY <2>1, <3>1 DEF IsSorted, Range
    <3> QED BY <3>2
  <2>2. CASE T # {}
    <3>1. Ranked(T, age)
      BY DEF Ranked
    <3>2. PICK x \in T : \A n \in T \ {x} : RanksBefore(o, n, x, age)
      BY <2>0, <2>2, <3>1, LastExists
    <3>3. PICK U : U = T \ {x}
      OBVIOUS
    <3>4. U \in SUBSET T /\ U # T /\ x \notin U /\ T = U \cup {x}
      BY <3>2, <3>3
    <3>5. PICK s \in [1 .. Cardinality(U) -> U] : IsSorted(s, o, U, age)
      BY <1>1, <3>4
    <3>6. PICK k : k = Cardinality(U)
      OBVIOUS
    <3>7. k \in Nat /\ Cardinality(T) = k + 1
      <4>1. IsFiniteSet(U) /\ Cardinality(U) \in Nat
        BY <2>0, <3>4, FS_Subset, FS_CardinalityType
      <4>2. Cardinality(U \cup {x}) = Cardinality(U) + 1
        BY <3>4, <4>1, FS_AddElement
      <4> QED BY <3>4, <3>6, <4>1, <4>2
    <3>8. PICK t : t = [i \in 1 .. k + 1 |-> IF i \in 1 .. k THEN s[i] ELSE x]
      OBVIOUS
    <3>9. t \in [1 .. Cardinality(T) -> T] /\ DOMAIN t = 1 .. k + 1
      BY <3>4, <3>5, <3>6, <3>7, <3>8
    <3>10. \A i \in 1 .. k : i \in 1 .. k + 1 /\ t[i] = s[i] /\ s[i] \in U
      BY <3>5, <3>6, <3>7, <3>8
    <3>11. t[k + 1] = x
      BY <3>7, <3>8
    <3>12. Range(s) = U /\ DOMAIN s = 1 .. k
      BY <3>5, <3>6 DEF IsSorted
    <3>13. \A y \in U : \E i \in 1 .. k : t[i] = y
      BY <3>10, <3>12 DEF Range
    <3>14. Range(t) = T
      <4>1. \A y \in T : \E i \in 1 .. k + 1 : t[i] = y
        BY <3>4, <3>7, <3>10, <3>11, <3>13
      <4> QED BY <3>9, <4>1 DEF Range
    <3>15. ASSUME NEW i \in 1 .. k + 1, NEW j \in 1 .. k + 1, i < j
           PROVE  RanksBefore(o, t[i], t[j], age)
      <4>1. i \in 1 .. k
        BY <3>7, <3>15
      <4>2. CASE j \in 1 .. k
        BY <3>5, <3>10, <3>12, <3>15, <4>1, <4>2 DEF IsSorted
      <4>3. CASE j \notin 1 .. k
        <5>1. j = k + 1
          BY <3>7, <4>3
        <5> QED BY <3>2, <3>3, <3>10, <3>11, <4>1, <5>1
      <4> QED BY <4>2, <4>3
    <3> QED BY <3>9, <3>14, <3>15 DEF IsSorted
  <2> QED BY <2>1, <2>2
<1> HIDE DEF Good
<1>2. makers \in Good
  BY <1>1, EverySubset
<1> QED BY <1>2 DEF Good

CanMatchSet(o, book) == {m \in DOMAIN book : CanMatch(o, m, book)}

\* What the matcher is given: the locked rows, finitely many and told apart.
Given(o, book, age) ==
    /\ o \in Orders /\ DOMAIN book \subseteq Orders \ {o}
    /\ \A m \in DOMAIN book : book[m].remaining \in Nat
    /\ IsFiniteSet(CanMatchSet(o, book)) /\ Ranked(CanMatchSet(o, book), age)

LEMMA CandidatesFacts ==
    ASSUME NEW o, NEW book, NEW age, Given(o, book, age), NEW c, c = Candidates(o, book, age)
    PROVE  /\ c \in Seq(Orders) /\ IsSorted(c, o, CanMatchSet(o, book), age)
           /\ DOMAIN c = 1 .. Len(c)
<1>1. PICK makers : makers = CanMatchSet(o, book)
  OBVIOUS
<1>2. o \in Orders /\ IsFiniteSet(makers) /\ Ranked(makers, age) /\ makers \subseteq Orders
  BY <1>1 DEF Given, Ranked
<1>3. \E s \in [1 .. Cardinality(makers) -> makers] : IsSorted(s, o, makers, age)
  BY <1>2, SortedExists
<1>4. c = CHOOSE s \in [1 .. Cardinality(makers) -> makers] : IsSorted(s, o, makers, age)
  BY <1>1 DEF Candidates, CanMatchSet, IsSorted
<1>5. c \in [1 .. Cardinality(makers) -> makers] /\ IsSorted(c, o, makers, age)
  BY <1>3, <1>4
<1>6. Cardinality(makers) \in Nat
  BY <1>2, FS_CardinalityType
<1>7. c \in [1 .. Cardinality(makers) -> Orders]
  BY <1>2, <1>5
<1>8. c \in Seq(Orders)
  BY <1>6, <1>7
<1> QED BY <1>1, <1>5, <1>8

-----------------------------------------------------------------------------
(* The plan, an induction over the candidates.                             *)

Leg == [maker : Orders, size : Nat]

FirstPlan(o) == [left |-> Terms[o].size, legs |-> <<>>]

IsPlan(it, o, book, c, k) ==
    it = [n \in 0 .. k |-> IF n = 0 THEN FirstPlan(o) ELSE Take(it[n - 1], c[n], book[c[n]].remaining)]

LEMMA PlanExists ==
    ASSUME NEW o, NEW book, NEW c
    PROVE  \A k \in Nat : \E it : IsPlan(it, o, book, c, k)
<1> DEFINE Body(it, n) == IF n = 0 THEN FirstPlan(o) ELSE Take(it[n - 1], c[n], book[c[n]].remaining)
           Good == {m \in Nat : \E it : it = [n \in 0 .. m |-> Body(it, n)]}
<1>1. 0 \in Good
  <2> DEFINE g == [n \in 0 .. 0 |-> FirstPlan(o)]
  <2>1. g = [n \in 0 .. 0 |-> Body(g, n)]
    OBVIOUS
  <2>2. \E it : it = [n \in 0 .. 0 |-> Body(it, n)]
    BY <2>1
  <2> QED BY <2>2
<1>2. ASSUME NEW m \in Nat, m \in Good
      PROVE  m + 1 \in Good
  <2>1. PICK h : h = [n \in 0 .. m |-> Body(h, n)]
    BY <1>2
  <2> DEFINE g == [n \in 0 .. m + 1 |-> IF n \in 0 .. m THEN h[n] ELSE Body(h, n)]
  <2>2. \A n \in 0 .. m + 1 : g[n] = Body(g, n)
    BY <2>1
  <2>3. g = [n \in 0 .. m + 1 |-> Body(g, n)]
    BY <2>2
  <2> HIDE DEF Body, g
  <2>4. \E it : it = [n \in 0 .. m + 1 |-> Body(it, n)]
    BY <2>3
  <2> QED BY <2>4
<1>3. \A m \in Nat : m \in Good
  <2> HIDE DEF Good
  <2> QED BY <1>1, <1>2, EveryNumber
<1> QED BY <1>3 DEF IsPlan

LEMMA BuildIsPlan ==
    ASSUME NEW o, NEW book, NEW age, NEW c, c = Candidates(o, book, age), Len(c) \in Nat
    PROVE  \E it : IsPlan(it, o, book, c, Len(c)) /\ BuildMatchPlan(o, book, age) = it[Len(c)]
<1> DEFINE it == CHOOSE it : IsPlan(it, o, book, c, Len(c))
<1>1. IsPlan(it, o, book, c, Len(c))
  BY PlanExists
<1>2. BuildMatchPlan(o, book, age) = it[Len(c)]
  BY DEF BuildMatchPlan, IsPlan, FirstPlan
<1> QED BY <1>1, <1>2

LegFills(o, legs) == {FillOf(o, legs[i]) : i \in 1 .. Len(legs)}

\* The plan after the first n candidates: it has taken a prefix of them, all
\* but the last in full, and the last too if the taker has something left.
PlanAfter(plan, o, book, c, n) ==
    /\ plan.left \in Nat /\ plan.legs \in Seq(Leg) /\ Len(plan.legs) <= n
    /\ \A i \in 1 .. Len(plan.legs) :
          /\ plan.legs[i].maker = c[i] /\ plan.legs[i].size > 0
          /\ plan.legs[i].size <= book[c[i]].remaining
          /\ i < Len(plan.legs) => plan.legs[i].size = book[c[i]].remaining
    /\ plan.left > 0 =>
          /\ Len(plan.legs) = n
          /\ \A i \in 1 .. n : plan.legs[i].size = book[c[i]].remaining
    /\ plan.left + Traded(LegFills(o, plan.legs)) = Terms[o].size

LEMMA TradedFacts ==
    ASSUME NEW fs, IsFiniteSet(fs), \A f \in fs : f.size \in Nat
    PROVE  /\ Traded(fs) \in Nat
           /\ \A f : f \notin fs /\ f.size \in Nat => Traded(fs \cup {f}) = Traded(fs) + f.size
<1> DEFINE g == [f \in fs |-> f.size]
<1>1. Traded(fs) = SumFunctionOnSet(g, fs) /\ \A f \in fs : g[f] \in Nat
  BY DEF Traded
<1>2. Traded(fs) \in Nat
  <2> HIDE DEF g
  <2> QED BY <1>1, SumFacts
<1>3. ASSUME NEW x, x \notin fs, x.size \in Nat
      PROVE  Traded(fs \cup {x}) = Traded(fs) + x.size
  <2> DEFINE h == [f \in fs \cup {x} |-> f.size]
  <2>1. /\ Traded(fs \cup {x}) = SumFunctionOnSet(h, fs \cup {x}) /\ h[x] = x.size
        /\ \A f \in fs \cup {x} : h[f] \in Nat
        /\ \A f \in fs : g[f] = h[f]
    BY <1>3 DEF Traded
  <2> HIDE DEF g, h
  <2>2. SumFunctionOnSet(g, fs) = SumFunctionOnSet(h, fs)
    BY <2>1, SumSame
  <2>3. SumFunctionOnSet(h, fs \cup {x}) = SumFunctionOnSet(h, fs) + h[x]
    <3>1. PICK k : k = h
      OBVIOUS
    <3>2. x \notin fs /\ \A y \in fs \cup {x} : k[y] \in Nat
      BY <1>3, <2>1, <3>1
    <3>3. SumFunctionOnSet(k, fs \cup {x}) = SumFunctionOnSet(k, fs) + k[x]
      BY <3>2, SumWithOne
    <3> QED BY <3>1, <3>3
  <2> QED BY <1>1, <2>1, <2>2, <2>3
<1> QED BY <1>2, <1>3

LEMMA FillOfFacts ==
    ASSUME NEW o \in Orders, NEW leg \in Leg
    PROVE  /\ FillOf(o, leg) \in Fill /\ FillOf(o, leg).size = leg.size /\ FillOf(o, leg).taker = o
           /\ {FillOf(o, leg).buy, FillOf(o, leg).sell} = {o, leg.maker}
           /\ \A other \in Leg : FillOf(o, leg) = FillOf(o, other) => leg.maker = other.maker
<1>1. leg.maker \in Orders /\ leg.size \in Nat
  BY DEF Leg
<1>2. CASE Terms[o].side = "buy"
  BY <1>1, <1>2 DEF FillOf, Fill
<1>3. CASE Terms[o].side # "buy"
  BY <1>1, <1>3 DEF FillOf, Fill
<1> QED BY <1>2, <1>3

LEMMA LegFillsFacts ==
    ASSUME NEW o \in Orders, NEW legs \in Seq(Leg)
    PROVE  /\ IsFiniteSet(LegFills(o, legs)) /\ LegFills(o, legs) \subseteq Fill
           /\ \A f \in LegFills(o, legs) : f.size \in Nat
           /\ \A leg \in Leg : LegFills(o, Append(legs, leg)) = LegFills(o, legs) \cup {FillOf(o, leg)}
<1>1. Len(legs) \in Nat /\ \A i \in 1 .. Len(legs) : legs[i] \in Leg
  OBVIOUS
<1>2. LegFills(o, legs) \subseteq Fill
  BY <1>1, FillOfFacts DEF LegFills
<1>3. IsFiniteSet(LegFills(o, legs))
  <2>1. IsFiniteSet(1 .. Len(legs))
    BY <1>1, FS_Interval
  <2>2. PICK f : f = [i \in 1 .. Len(legs) |-> FillOf(o, legs[i])]
    OBVIOUS
  <2>3. f \in [1 .. Len(legs) -> LegFills(o, legs)] /\ \A y \in LegFills(o, legs) : \E i \in 1 .. Len(legs) : f[i] = y
    BY <2>2 DEF LegFills
  <2> QED BY <2>1, <2>3, ImageIsSmaller
<1>4. ASSUME NEW leg \in Leg
      PROVE  LegFills(o, Append(legs, leg)) = LegFills(o, legs) \cup {FillOf(o, leg)}
  <2>1. PICK l : l = Append(legs, leg)
    OBVIOUS
  <2>2. /\ Len(l) = Len(legs) + 1 /\ l[Len(legs) + 1] = leg
        /\ \A i \in 1 .. Len(legs) : l[i] = legs[i]
    BY <2>1
  <2>3. 1 .. Len(l) = (1 .. Len(legs)) \cup {Len(legs) + 1}
    BY <1>1, <2>2
  <2>4. LegFills(o, l) = LegFills(o, legs) \cup {FillOf(o, leg)}
    <3>1. \A x : x \in LegFills(o, l) <=> \E i \in 1 .. Len(l) : x = FillOf(o, l[i])
      BY DEF LegFills
    <3>2. \A x : x \in LegFills(o, legs) <=> \E i \in 1 .. Len(legs) : x = FillOf(o, legs[i])
      BY DEF LegFills
    <3>3. \A x : (\E i \in 1 .. Len(l) : x = FillOf(o, l[i]))
                    <=> (\E i \in 1 .. Len(legs) : x = FillOf(o, legs[i])) \/ x = FillOf(o, leg)
      BY <2>2, <2>3
    <3> QED BY <3>1, <3>2, <3>3
  <2> QED BY <2>1, <2>4
<1> QED BY <1>2, <1>3, <1>4 DEF Fill

LEMMA TradedNothing == Traded({}) = 0
BY SumEmpty DEF Traded

LEMMA CandidatesDiffer ==
    ASSUME NEW o, NEW book, NEW age, Given(o, book, age), NEW c, c = Candidates(o, book, age)
    PROVE  \A i \in 1 .. Len(c) :
               /\ c[i] \in CanMatchSet(o, book) /\ c[i] \in Orders \ {o}
               /\ book[c[i]].remaining \in Nat /\ book[c[i]].remaining > 0
               /\ \A j \in 1 .. Len(c) : /\ i < j => RanksBefore(o, c[i], c[j], age)
                                         /\ c[i] = c[j] => i = j
<1>1. /\ c \in Seq(Orders) /\ IsSorted(c, o, CanMatchSet(o, book), age)
      /\ DOMAIN c = 1 .. Len(c) /\ Len(c) \in Nat
  BY CandidatesFacts
<1>2. ASSUME NEW i \in 1 .. Len(c)
      PROVE  /\ c[i] \in CanMatchSet(o, book) /\ c[i] \in Orders \ {o}
             /\ book[c[i]].remaining \in Nat /\ book[c[i]].remaining > 0
  <2>1. c[i] \in CanMatchSet(o, book)
    BY <1>1 DEF IsSorted, Range
  <2> QED BY <2>1 DEF CanMatchSet, Given, CanMatch
<1>3. ASSUME NEW i \in 1 .. Len(c), NEW j \in 1 .. Len(c), i < j
      PROVE  RanksBefore(o, c[i], c[j], age) /\ c[i] # c[j]
  <2>1. RanksBefore(o, c[i], c[j], age)
    BY <1>1, <1>3 DEF IsSorted
  <2>2. o \in Orders /\ Ranked(CanMatchSet(o, book), age)
    BY DEF Given
  <2>3. c[i] # c[j]
    BY <1>2, <2>1, <2>2, RanksAreTotal
  <2> QED BY <2>1, <2>3
<1> QED BY <1>1, <1>2, <1>3

LEMMA PlanStarts ==
    ASSUME NEW o \in Orders, NEW book, NEW c
    PROVE  PlanAfter(FirstPlan(o), o, book, c, 0)
<1>1. FirstPlan(o).left = Terms[o].size /\ FirstPlan(o).legs = <<>>
  BY DEF FirstPlan
<1>2. LegFills(o, <<>>) = {}
  BY DEF LegFills
<1>3. Terms[o].size \in Nat
  BY TermFacts
<1>4. PICK p : p = FirstPlan(o)
  OBVIOUS
<1>5. p.left = Terms[o].size /\ p.legs = <<>>
  BY <1>1, <1>4
<1>6. /\ p.left \in Nat /\ p.legs \in Seq(Leg) /\ Len(p.legs) = 0 /\ 1 .. 0 = {}
      /\ p.left + Traded(LegFills(o, p.legs)) = Terms[o].size
  <2>1. PICK z : z = Traded(LegFills(o, p.legs))
    OBVIOUS
  <2>2. z = 0
    BY <1>2, <1>5, <2>1, TradedNothing
  <2>3. p.left + z = Terms[o].size
    BY <1>3, <1>5, <2>2
  <2>4. p.legs \in Seq(Leg) /\ Len(p.legs) = 0 /\ 1 .. 0 = {}
    BY <1>5
  <2> QED BY <1>3, <1>5, <2>1, <2>3, <2>4
<1>7. PlanAfter(p, o, book, c, 0)
  BY <1>6 DEF PlanAfter
<1> QED BY <1>4, <1>7

LEMMA TakeKeepsPlan ==
    ASSUME NEW o, NEW book, NEW age, Given(o, book, age), NEW c, c = Candidates(o, book, age),
           NEW n \in Nat, n + 1 <= Len(c), NEW plan, PlanAfter(plan, o, book, c, n)
    PROVE  PlanAfter(Take(plan, c[n + 1], book[c[n + 1]].remaining), o, book, c, n + 1)
<1>1. PICK m, a : m = c[n + 1] /\ a = book[m].remaining
  OBVIOUS
<1>2. Len(c) \in Nat /\ n + 1 \in 1 .. Len(c) /\ \A i \in 1 .. n : i \in 1 .. Len(c)
  BY CandidatesFacts
<1>3. m \in Orders \ {o} /\ a \in Nat /\ a > 0 /\ \A i \in 1 .. n : c[i] # m
  BY <1>1, <1>2, CandidatesDiffer
<1>4. PICK left, legs : left = plan.left /\ legs = plan.legs
  OBVIOUS
<1>5. left \in Nat /\ legs \in Seq(Leg) /\ Len(legs) \in Nat /\ Len(legs) <= n
  BY <1>4 DEF PlanAfter
<1>6. CASE left = 0
  <2>1. Take(plan, m, a) = plan
    BY <1>3, <1>4, <1>6 DEF Take
  <2>2. plan.left = 0 /\ Len(plan.legs) <= n + 1
    BY <1>4, <1>5, <1>6
  <2>3. PlanAfter(plan, o, book, c, n + 1)
    BY <2>2 DEF PlanAfter
  <2> QED BY <1>1, <2>1, <2>3
<1>7. CASE left > 0
  <2>1. PICK size : size = IF left < a THEN left ELSE a
    OBVIOUS
  <2>2. /\ size \in Nat /\ size > 0 /\ size <= a /\ left - size \in Nat
        /\ left - size > 0 => size = a
    BY <1>3, <1>5, <1>7, <2>1
  <2>3. PICK leg : leg = [maker |-> m, size |-> size]
    OBVIOUS
  <2>4. leg \in Leg /\ leg.maker = m /\ leg.size = size
    BY <1>3, <2>2, <2>3 DEF Leg
  <2>5. PICK l : l = Append(legs, leg)
    OBVIOUS
  <2>6. Take(plan, m, a) = [left |-> left - size, legs |-> l]
    BY <1>4, <2>1, <2>2, <2>3, <2>5 DEF Take
  <2>7. PICK p : p = Take(plan, m, a)
    OBVIOUS
  <2>8. p.left = left - size /\ p.legs = l
    BY <2>6, <2>7
  <2>9. /\ Len(legs) = n
        /\ \A i \in 1 .. n : /\ legs[i].maker = c[i] /\ legs[i].size > 0
                             /\ legs[i].size = book[c[i]].remaining
    BY <1>4, <1>7 DEF PlanAfter
  <2>10. /\ l \in Seq(Leg) /\ Len(l) = n + 1 /\ l[n + 1] = leg
         /\ \A i \in 1 .. n : l[i] = legs[i]
    BY <1>5, <2>4, <2>5, <2>9
  <2>11. \A i \in 1 .. n : book[c[i]].remaining \in Nat
    BY <1>2, CandidatesDiffer
  <2>12. ASSUME NEW i \in 1 .. n + 1
         PROVE  /\ l[i].maker = c[i] /\ l[i].size > 0
                /\ l[i].size <= book[c[i]].remaining
                /\ (i < n + 1 \/ left - size > 0) => l[i].size = book[c[i]].remaining
    <3>1. CASE i \in 1 .. n
      <4>1. l[i] = legs[i] /\ book[c[i]].remaining \in Nat
        BY <2>10, <2>11, <3>1
      <4> QED BY <2>9, <3>1, <4>1
    <3>2. CASE i = n + 1
      <4>1. l[i].maker = c[i] /\ l[i].size = size /\ book[c[i]].remaining = a
        BY <1>1, <2>4, <2>10, <3>2
      <4> QED BY <2>2, <3>2, <4>1
    <3> QED BY <3>1, <3>2
  <2>13. FillOf(o, leg) \notin LegFills(o, legs)
    <3>1. o \in Orders
      BY DEF Given
    <3>2. ASSUME NEW i \in 1 .. Len(legs), FillOf(o, leg) = FillOf(o, legs[i])
          PROVE  FALSE
      <4>1. legs[i] \in Leg /\ i \in 1 .. n
        BY <1>5, <2>9
      <4>2. leg.maker = legs[i].maker
        BY <2>4, <3>1, <3>2, <4>1, FillOfFacts
      <4> QED BY <1>3, <2>4, <2>9, <4>1, <4>2
    <3> QED BY <3>2 DEF LegFills
  <2>14. Traded(LegFills(o, l)) = Traded(LegFills(o, legs)) + size /\ Traded(LegFills(o, legs)) \in Nat
    <3>1. o \in Orders
      BY DEF Given
    <3>2. /\ IsFiniteSet(LegFills(o, legs)) /\ \A f \in LegFills(o, legs) : f.size \in Nat
          /\ LegFills(o, l) = LegFills(o, legs) \cup {FillOf(o, leg)}
      BY <1>5, <2>4, <2>5, <3>1, LegFillsFacts
    <3>3. FillOf(o, leg).size = size
      BY <2>4, <3>1, FillOfFacts
    <3>4. PICK fs, f : fs = LegFills(o, legs) /\ f = FillOf(o, leg)
      OBVIOUS
    <3>5. Traded(fs) \in Nat /\ Traded(fs \cup {f}) = Traded(fs) + f.size
      BY <2>2, <2>13, <3>2, <3>3, <3>4, TradedFacts
    <3> QED BY <3>2, <3>3, <3>4, <3>5
  <2>15. left + Traded(LegFills(o, legs)) = Terms[o].size
    BY <1>4 DEF PlanAfter
  <2>16. (left - size) + Traded(LegFills(o, l)) = Terms[o].size
    BY <1>5, <2>2, <2>14, <2>15
  <2>17. PlanAfter(p, o, book, c, n + 1)
    BY <2>2, <2>8, <2>10, <2>12, <2>16 DEF PlanAfter
  <2> QED BY <1>1, <2>7, <2>17
<1> QED BY <1>5, <1>6, <1>7

LEMMA PlanIsBuilt ==
    ASSUME NEW o, NEW book, NEW age, Given(o, book, age), NEW c, c = Candidates(o, book, age)
    PROVE  PlanAfter(BuildMatchPlan(o, book, age), o, book, c, Len(c))
<1>1. Len(c) \in Nat /\ o \in Orders
  BY CandidatesFacts DEF Given
<1>2. PICK it : IsPlan(it, o, book, c, Len(c)) /\ BuildMatchPlan(o, book, age) = it[Len(c)]
  BY <1>1, BuildIsPlan
<1> DEFINE Good == {n \in Nat : n <= Len(c) => PlanAfter(it[n], o, book, c, n)}
<1>3. 0 \in Good
  <2>1. it[0] = FirstPlan(o)
    BY <1>1, <1>2 DEF IsPlan
  <2> QED BY <1>1, <2>1, PlanStarts
<1>4. ASSUME NEW n \in Nat, n \in Good
      PROVE  n + 1 \in Good
  <2> SUFFICES ASSUME n + 1 <= Len(c)
               PROVE  PlanAfter(it[n + 1], o, book, c, n + 1)
    OBVIOUS
  <2>1. PlanAfter(it[n], o, book, c, n)
    BY <1>1, <1>4
  <2>2. it[n + 1] = Take(it[n], c[n + 1], book[c[n + 1]].remaining)
    <3>1. n + 1 \in 0 .. Len(c) /\ n + 1 # 0 /\ (n + 1) - 1 = n
      BY <1>1
    <3>2. it[n + 1] = IF n + 1 = 0 THEN FirstPlan(o)
                      ELSE Take(it[(n + 1) - 1], c[n + 1], book[c[n + 1]].remaining)
      BY <1>2, <3>1 DEF IsPlan
    <3> QED BY <3>1, <3>2
  <2> QED BY <2>1, <2>2, TakeKeepsPlan
<1>5. \A n \in Nat : n \in Good
  <2> HIDE DEF Good
  <2> QED BY <1>3, <1>4, EveryNumber
<1> QED BY <1>1, <1>2, <1>5

-----------------------------------------------------------------------------
(* What the rest of the proof knows of a plan.                             *)

PlanFills(o, plan) == {FillOf(o, plan.legs[i]) : i \in DOMAIN plan.legs}

\* The whole of n is taken.
TakenUp(n, book, plan) == n \in Makers(plan) /\ Taken(plan, n) = book[n].remaining

\* The fills of the plan are the taker's with its makers, one with each.
FillsOfPlan(o, plan) ==
    /\ IsFiniteSet(PlanFills(o, plan)) /\ PlanFills(o, plan) \subseteq Fill
    /\ \A f \in PlanFills(o, plan) :
          f.taker = o /\ \E m \in Makers(plan) : {f.buy, f.sell} = {o, m}
    /\ \A m \in Makers(plan) : \E f \in PlanFills(o, plan) :
          /\ m \in {f.buy, f.sell} /\ f.size = Taken(plan, m)
          /\ \A g \in PlanFills(o, plan) : m \in {g.buy, g.sell} => g = f

PlanFits(plan, o, book, age) ==
    /\ plan.left \in Nat /\ Makers(plan) \subseteq CanMatchSet(o, book)
    /\ \A m \in Makers(plan) :
          /\ Taken(plan, m) \in Nat /\ Taken(plan, m) > 0 /\ Taken(plan, m) <= book[m].remaining
          /\ \A n \in CanMatchSet(o, book) : RanksBefore(o, n, m, age) => TakenUp(n, book, plan)
    /\ plan.left > 0 => \A n \in CanMatchSet(o, book) : TakenUp(n, book, plan)
    /\ FillsOfPlan(o, plan)
    /\ plan.left + Traded(PlanFills(o, plan)) = Terms[o].size

LEMMA PlanIsSound ==
    ASSUME NEW o, NEW book, NEW age, Given(o, book, age), NEW plan, plan = BuildMatchPlan(o, book, age)
    PROVE  PlanFits(plan, o, book, age)
<1>1. PICK c : c = Candidates(o, book, age)
  OBVIOUS
<1>2. PlanAfter(plan, o, book, c, Len(c)) /\ Len(c) \in Nat /\ o \in Orders
  BY <1>1, PlanIsBuilt, CandidatesFacts DEF Given
<1>3. PICK legs, left, k : legs = plan.legs /\ left = plan.left /\ k = Len(legs)
  OBVIOUS
<1>4. /\ left \in Nat /\ legs \in Seq(Leg) /\ k \in Nat /\ k <= Len(c) /\ DOMAIN legs = 1 .. k
      /\ left + Traded(LegFills(o, legs)) = Terms[o].size
  BY <1>2, <1>3 DEF PlanAfter
<1>5. \A i \in 1 .. k :
         /\ legs[i].maker = c[i] /\ legs[i].size > 0
         /\ legs[i].size <= book[c[i]].remaining
         /\ i < k => legs[i].size = book[c[i]].remaining
  BY <1>2, <1>3 DEF PlanAfter
<1>6. left > 0 => k = Len(c) /\ \A i \in 1 .. k : legs[i].size = book[c[i]].remaining
  BY <1>2, <1>3 DEF PlanAfter
<1>7. \A i \in 1 .. Len(c) :
         /\ c[i] \in CanMatchSet(o, book) /\ c[i] \in Orders \ {o}
         /\ \A j \in 1 .. Len(c) : /\ i < j => RanksBefore(o, c[i], c[j], age)
                                   /\ c[i] = c[j] => i = j
  BY <1>1, CandidatesDiffer
<1>8. \A i \in 1 .. k : i \in 1 .. Len(c) /\ legs[i] \in Leg /\ legs[i].size \in Nat
  <2>1. \A i \in 1 .. k : i \in 1 .. Len(c) /\ legs[i] \in Leg
    BY <1>2, <1>4
  <2> QED BY <2>1 DEF Leg
<1>9. Makers(plan) = {legs[i].maker : i \in 1 .. k}
  BY <1>3, <1>4 DEF Makers
<1>10. \A n \in CanMatchSet(o, book) : \E i \in 1 .. Len(c) : c[i] = n
  BY <1>1, CandidatesFacts DEF IsSorted, Range
<1>11. ASSUME NEW i \in 1 .. k
       PROVE  Taken(plan, c[i]) = legs[i].size /\ c[i] \in Makers(plan)
  <2>1. PICK j : j = CHOOSE x \in 1 .. k : legs[x].maker = c[i]
    OBVIOUS
  <2>2. j \in 1 .. k /\ legs[j].maker = c[i]
    BY <1>5, <2>1
  <2>3. j = i
    BY <1>5, <1>7, <1>8, <2>2
  <2>4. Taken(plan, c[i]) = legs[j].size
    BY <1>3, <1>4, <2>1 DEF Taken
  <2> QED BY <1>5, <1>9, <2>3, <2>4
<1>12. ASSUME NEW m \in Makers(plan)
       PROVE  \E i \in 1 .. k : m = c[i]
  BY <1>5, <1>9
<1>13. Makers(plan) \subseteq CanMatchSet(o, book)
  BY <1>7, <1>8, <1>12
<1>14. ASSUME NEW m \in Makers(plan)
       PROVE  /\ Taken(plan, m) \in Nat /\ Taken(plan, m) > 0 /\ Taken(plan, m) <= book[m].remaining
              /\ \A n \in CanMatchSet(o, book) : RanksBefore(o, n, m, age) => TakenUp(n, book, plan)
  <2>1. PICK i \in 1 .. k : m = c[i]
    BY <1>12
  <2>2. Taken(plan, m) \in Nat /\ Taken(plan, m) > 0 /\ Taken(plan, m) <= book[m].remaining
    BY <1>5, <1>8, <1>11, <2>1
  <2>3. ASSUME NEW n \in CanMatchSet(o, book), RanksBefore(o, n, m, age)
        PROVE  TakenUp(n, book, plan)
    <3>1. PICK j \in 1 .. Len(c) : c[j] = n
      BY <1>10
    <3>2. i \in 1 .. Len(c) /\ m \in CanMatchSet(o, book)
      BY <1>8, <1>13
    <3>3. Ranked(CanMatchSet(o, book), age)
      BY DEF Given
    <3>4. n # m /\ ~ RanksBefore(o, m, n, age)
      BY <1>2, <2>3, <3>2, <3>3, RanksAreTotal
    <3>5. ~ (i < j) /\ i # j
      BY <1>7, <2>1, <3>1, <3>2, <3>4
    <3>6. j \in 1 .. k /\ j < k
      BY <1>2, <1>4, <3>1, <3>5
    <3> QED BY <1>5, <1>11, <3>1, <3>6 DEF TakenUp
  <2> QED BY <2>2, <2>3
<1>15. ASSUME left > 0, NEW n \in CanMatchSet(o, book)
       PROVE  TakenUp(n, book, plan)
  <2>1. PICK j \in 1 .. Len(c) : c[j] = n
    BY <1>10
  <2>2. j \in 1 .. k /\ legs[j].size = book[c[j]].remaining
    BY <1>6, <1>15, <2>1
  <2> QED BY <1>11, <2>1, <2>2 DEF TakenUp
<1>16. PlanFills(o, plan) = LegFills(o, legs)
  BY <1>3, <1>4 DEF PlanFills, LegFills
<1>17. \A f \in PlanFills(o, plan) : \E i \in 1 .. k : f = FillOf(o, legs[i])
  BY <1>3, <1>4 DEF PlanFills
<1>18. \A i \in 1 .. k : FillOf(o, legs[i]) \in PlanFills(o, plan)
  BY <1>3, <1>4 DEF PlanFills
<1>19. \A i \in 1 .. k : LET f == FillOf(o, legs[i])
                         IN  f.taker = o /\ {f.buy, f.sell} = {o, c[i]} /\ f.size = legs[i].size
  <2> SUFFICES ASSUME NEW i \in 1 .. k, NEW f, f = FillOf(o, legs[i])
               PROVE  f.taker = o /\ {f.buy, f.sell} = {o, c[i]} /\ f.size = legs[i].size
    OBVIOUS
  <2>1. PICK leg : leg = legs[i]
    OBVIOUS
  <2>2. leg \in Leg /\ leg.maker = c[i]
    BY <1>5, <1>8, <2>1
  <2>3. /\ FillOf(o, leg).size = leg.size /\ FillOf(o, leg).taker = o
        /\ {FillOf(o, leg).buy, FillOf(o, leg).sell} = {o, leg.maker}
    BY <1>2, <2>2, FillOfFacts
  <2> QED BY <2>1, <2>2, <2>3
<1>20. FillsOfPlan(o, plan)
  <2>1. IsFiniteSet(PlanFills(o, plan)) /\ PlanFills(o, plan) \subseteq Fill
    BY <1>2, <1>4, <1>16, LegFillsFacts
  <2>2. ASSUME NEW f \in PlanFills(o, plan)
        PROVE  f.taker = o /\ \E m \in Makers(plan) : {f.buy, f.sell} = {o, m}
    BY <1>11, <1>17, <1>19
  <2>3. ASSUME NEW m \in Makers(plan)
        PROVE  \E f \in PlanFills(o, plan) :
                  /\ m \in {f.buy, f.sell} /\ f.size = Taken(plan, m)
                  /\ \A g \in PlanFills(o, plan) : m \in {g.buy, g.sell} => g = f
    <3>1. PICK i \in 1 .. k : m = c[i]
      BY <1>12
    <3>2. PICK f : f = FillOf(o, legs[i])
      OBVIOUS
    <3>3. f \in PlanFills(o, plan) /\ m \in {f.buy, f.sell} /\ f.size = Taken(plan, m)
      BY <1>11, <1>18, <1>19, <3>1, <3>2
    <3>4. ASSUME NEW g \in PlanFills(o, plan), m \in {g.buy, g.sell}
          PROVE  g = f
      <4>1. PICK j \in 1 .. k : g = FillOf(o, legs[j])
        BY <1>17
      <4>2. m \in {o, c[j]} /\ m # o
        BY <1>7, <1>8, <1>19, <3>1, <3>4, <4>1
      <4>3. i = j
        BY <1>7, <1>8, <3>1, <4>2
      <4> QED BY <3>2, <4>1, <4>3
    <3> QED BY <3>3, <3>4
  <2> QED BY <2>1, <2>2, <2>3 DEF FillsOfPlan
<1> QED BY <1>3, <1>4, <1>13, <1>14, <1>15, <1>16, <1>20 DEF PlanFits

-----------------------------------------------------------------------------
(* The inductive invariant.                                                *)

HasRow(o) == order[o] # None

Types ==
    /\ order \in [Orders -> OrderRow \cup {None}] /\ hold \in [Orders -> Nat]
    /\ DOMAIN task = Orders /\ DOMAIN snapshot = Orders
    /\ fills \subseteq Fill /\ IsFiniteSet(fills)
    /\ arrived \in Seq(Orders)

\* A call that has not matched yet has written no row, and every row belongs to
\* an order that has its created_at.
CallsAhead ==
    \A o \in Orders :
        /\ At(o) \in {"new", "arrived", "reading"} => ~ HasRow(o)
        /\ HasRow(o) \/ At(o) \in {"arrived", "reading"} => o \in Range(arrived)

\* The status of a row agrees with what is left of the order.
StatusFits ==
    \A o \in Orders : HasRow(o) =>
        /\ order[o].status \in Live => order[o].remaining > 0
        /\ order[o].status = "filled" => order[o].remaining = 0

\* A locking read saw only rows that exist, of the other side.
SnapshotsFit ==
    \A o \in Orders : \A m \in DOMAIN snapshot[o] :
        m \in Orders /\ HasRow(m) /\ Terms[m].side # Terms[o].side

ReleasingFits == \A o \in releasing : o \in Orders /\ HasRow(o) /\ order[o].status = "cancelled"

\* Outside unledgered matches the rows of the fills and the holds are the ones
\* the code means to write, and no pending row is of a fill that is not there.
LedgerFits ==
    /\ \A r \in pending : r.fill \in fills
    /\ PendingIsExact /\ HoldsAreExact

Inv ==
    /\ Types /\ CallsAhead /\ StatusFits /\ SnapshotsFit /\ ReleasingFits /\ LedgerFits
    /\ FillsConserved /\ HoldsAreExplained /\ CrossedOnlyByOverlap

-----------------------------------------------------------------------------
(* Steps that leave most of the tables alone.                              *)

LEMMA InitHolds == Init => Inv
<1> SUFFICES ASSUME Init
             PROVE  Inv
  OBVIOUS
<1> USE DEF Init
<1>1. \A o \in Orders : ~ HasRow(o) /\ ~ IsLive(o) /\ FillsOf(o) = {} /\ At(o) = "new"
  BY DEF HasRow, IsLive, FillsOf, At
<1>2. Types
  <2>1. IsFiniteSet({})
    BY FS_EmptySet
  <2> QED BY <2>1 DEF Types
<1>3. CallsAhead /\ StatusFits /\ ReleasingFits
  BY <1>1 DEF CallsAhead, StatusFits, ReleasingFits
<1>4. SnapshotsFit
  BY DEF SnapshotsFit, EmptyBook
<1>5. LedgerFits /\ HoldsAreExplained
  BY <1>1 DEF LedgerFits, PendingIsExact, HoldsAreExact, Reserved, HoldsAreExplained
<1>6. FillsConserved
  BY <1>1 DEF FillsConserved
<1>7. CrossedOnlyByOverlap
  BY <1>1 DEF CrossedOnlyByOverlap
<1> QED BY <1>2, <1>3, <1>4, <1>5, <1>6, <1>7 DEF Inv

LEMMA SameRows ==
    ASSUME Inv, order' = order, fills' = fills
    PROVE  StatusFits' /\ FillsConserved'
<1>1. StatusFits'
  BY DEF Inv, StatusFits, HasRow
<1>2. \A o : FillsOf(o)' = FillsOf(o)
  BY DEF FillsOf
<1>3. FillsConserved'
  BY <1>2 DEF Inv, FillsConserved
<1> QED BY <1>1, <1>3

LEMMA SameLedger ==
    ASSUME Inv, order' = order, fills' = fills, hold' = hold, pending' = pending,
           unledgered' = unledgered, releasing \cup unreleased \subseteq releasing' \cup unreleased'
    PROVE  LedgerFits' /\ HoldsAreExplained'
<1>1. LedgerFits'
  <2>1. \A o : /\ FillsOf(o)' = FillsOf(o) /\ Reserved(o)' = Reserved(o)
               /\ HoldFor(o)' = HoldFor(o) /\ (IsLive(o)' <=> IsLive(o))
    BY DEF FillsOf, Reserved, HoldFor, IsLive
  <2> QED BY <2>1 DEF Inv, LedgerFits, PendingIsExact, HoldsAreExact
<1>2. HoldsAreExplained'
  BY DEF Inv, HoldsAreExplained, IsLive
<1> QED BY <1>1, <1>2

LEMMA SameCrossing ==
    ASSUME Inv, order' = order, snapshot' = snapshot
    PROVE  SnapshotsFit' /\ CrossedOnlyByOverlap'
<1>1. SnapshotsFit'
  BY DEF Inv, SnapshotsFit, HasRow
<1>2. CrossedOnlyByOverlap'
  BY DEF Inv, CrossedOnlyByOverlap, IsLive
<1> QED BY <1>1, <1>2

LEMMA GotoFacts ==
    ASSUME Inv, NEW o \in Orders, NEW at, NEW todo, Goto(o, at, todo)
    PROVE  DOMAIN task' = Orders /\ At(o)' = at /\ \A n \in Orders \ {o} : At(n)' = At(n)
BY DEF Inv, Types, Goto, At

LEMMA StutterKeeps == Inv /\ UNCHANGED vars => Inv'
<1> SUFFICES ASSUME Inv, UNCHANGED vars
             PROVE  Inv'
  OBVIOUS
<1> USE DEF vars
<1>1. Types' /\ CallsAhead' /\ ReleasingFits'
  BY DEF Inv, Types, CallsAhead, ReleasingFits, HasRow, At
<1>2. StatusFits' /\ FillsConserved'
  BY SameRows
<1>3. LedgerFits' /\ HoldsAreExplained'
  BY SameLedger
<1>4. SnapshotsFit' /\ CrossedOnlyByOverlap'
  BY SameCrossing
<1> QED BY <1>1, <1>2, <1>3, <1>4 DEF Inv

LEMMA AppendRange ==
    ASSUME NEW s \in Seq(Orders), NEW o \in Orders
    PROVE  o \in Range(Append(s, o)) /\ Range(s) \subseteq Range(Append(s, o))
<1>1. PICK t : t = Append(s, o)
  OBVIOUS
<1>2. /\ DOMAIN s = 1 .. Len(s) /\ DOMAIN t = 1 .. Len(s) + 1 /\ Len(s) \in Nat
      /\ t[Len(s) + 1] = o /\ \A i \in 1 .. Len(s) : t[i] = s[i]
  BY <1>1
<1>3. Len(s) + 1 \in DOMAIN t /\ \A i \in DOMAIN s : i \in DOMAIN t /\ t[i] = s[i]
  BY <1>2
<1>4. o \in Range(t) /\ Range(s) \subseteq Range(t)
  BY <1>2, <1>3 DEF Range
<1> QED BY <1>1, <1>4

LEMMA ArriveKeeps ==
    ASSUME Inv, NEW o \in Orders, Arrive(o)
    PROVE  Inv'
<1>1. /\ At(o) = "new"
      /\ UNCHANGED <<order, hold, pending, fills, intents, snapshot, releasing, due,
                     unledgered, unreleased, faults>>
  BY DEF Arrive
<1>2. StatusFits' /\ FillsConserved' /\ LedgerFits' /\ HoldsAreExplained'
  BY <1>1, SameRows, SameLedger
<1>3. SnapshotsFit' /\ CrossedOnlyByOverlap' /\ ReleasingFits'
  BY <1>1, SameCrossing DEF Inv, ReleasingFits, HasRow
<1>4. CASE o \in due
  <2>1. Goto(o, "rejected", <<>>) /\ arrived' = arrived
    BY <1>4 DEF Arrive
  <2>2. DOMAIN task' = Orders /\ At(o)' = "rejected" /\ \A n \in Orders \ {o} : At(n)' = At(n)
    BY <2>1, GotoFacts
  <2>3. Types' /\ CallsAhead'
    BY <1>1, <2>1, <2>2 DEF Inv, Types, CallsAhead, HasRow
  <2> QED BY <1>2, <1>3, <2>3 DEF Inv
<1>5. CASE o \notin due
  <2>1. Goto(o, "arrived", <<>>) /\ arrived' = Append(arrived, o)
    BY <1>5 DEF Arrive
  <2>2. DOMAIN task' = Orders /\ At(o)' = "arrived" /\ \A n \in Orders \ {o} : At(n)' = At(n)
    BY <2>1, GotoFacts
  <2>3. arrived' \in Seq(Orders) /\ o \in Range(arrived') /\ Range(arrived) \subseteq Range(arrived')
    BY <2>1, AppendRange DEF Inv, Types
  <2>4. Types'
    BY <1>1, <2>2, <2>3 DEF Inv, Types
  <2>5. CallsAhead'
    BY <1>1, <2>2, <2>3 DEF Inv, CallsAhead, HasRow
  <2> QED BY <1>2, <1>3, <2>4, <2>5 DEF Inv
<1> QED BY <1>4, <1>5

LEMMA ReadKeeps ==
    ASSUME Inv, NEW o \in Orders, ReadOppositeSide(o)
    PROVE  Inv'
<1>1. /\ At(o) = "arrived" /\ Goto(o, "reading", <<>>)
      /\ UNCHANGED <<order, hold, pending, fills, intents, arrived, releasing, due,
                     unledgered, unreleased, faults>>
  BY DEF ReadOppositeSide
<1>2. StatusFits' /\ FillsConserved' /\ LedgerFits' /\ HoldsAreExplained'
  BY <1>1, SameRows, SameLedger
<1>3. DOMAIN task' = Orders /\ At(o)' = "reading" /\ \A n \in Orders \ {o} : At(n)' = At(n)
  BY <1>1, GotoFacts
<1>4. PICK seen : seen = {n \in Orders : IsLive(n) /\ Terms[n].side # Terms[o].side}
  OBVIOUS
<1>5. /\ DOMAIN snapshot' = Orders /\ DOMAIN snapshot'[o] = seen
      /\ \A n \in Orders \ {o} : snapshot'[n] = snapshot[n]
  BY <1>4 DEF ReadOppositeSide, Inv, Types
<1>6. Types' /\ CallsAhead' /\ ReleasingFits'
  BY <1>1, <1>3, <1>5 DEF Inv, Types, CallsAhead, ReleasingFits, HasRow
<1>7. SnapshotsFit'
  <2>1. \A n \in Orders : HasRow(n)' <=> HasRow(n)
    BY <1>1 DEF HasRow
  <2>2. \A m \in seen : m \in Orders /\ HasRow(m) /\ Terms[m].side # Terms[o].side
    BY <1>4 DEF IsLive, HasRow
  <2> QED BY <1>5, <2>1, <2>2 DEF Inv, SnapshotsFit
<1>8. CrossedOnlyByOverlap'
  <2>1. ~ IsLive(o) /\ \A n \in Orders : IsLive(n)' <=> IsLive(n)
    BY <1>1 DEF Inv, CallsAhead, HasRow, IsLive
  <2>2. \A n \in {m \in Orders : IsLive(m)'} : n \in Orders \ {o} /\ IsLive(n)
    BY <2>1
  <2>3. \A n \in {m \in Orders : IsLive(m)'} : snapshot'[n] = snapshot[n]
    BY <1>5, <2>2
  <2> QED BY <2>2, <2>3 DEF Inv, CrossedOnlyByOverlap
<1> QED BY <1>2, <1>6, <1>7, <1>8 DEF Inv

\* A call moves on and the tables stay.
LEMMA CallKeeps ==
    ASSUME Inv, NEW o \in Orders, NEW at, NEW todo, Goto(o, at, todo),
           at \notin {"new", "arrived", "reading"},
           UNCHANGED <<order, hold, pending, fills, snapshot, arrived, releasing, unledgered, unreleased>>
    PROVE  Inv'
<1>1. StatusFits' /\ FillsConserved' /\ LedgerFits' /\ HoldsAreExplained'
  BY SameRows, SameLedger
<1>2. DOMAIN task' = Orders /\ At(o)' = at /\ \A n \in Orders \ {o} : At(n)' = At(n)
  BY GotoFacts
<1>3. SnapshotsFit' /\ CrossedOnlyByOverlap' /\ ReleasingFits'
  BY SameCrossing DEF Inv, ReleasingFits, HasRow
<1>4. Types' /\ CallsAhead'
  BY <1>2 DEF Inv, Types, CallsAhead, HasRow
<1> QED BY <1>1, <1>3, <1>4 DEF Inv

LEMMA RefuseKeeps ==
    ASSUME Inv, NEW o \in Orders, RefuseByTif(o)
    PROVE  Inv'
BY CallKeeps DEF RefuseByTif

LEMMA CreateIntentKeeps ==
    ASSUME Inv, NEW o \in Orders, CreateIntent(o)
    PROVE  Inv'
<1>1. UNCHANGED <<order, hold, pending, fills, snapshot, arrived, releasing, unledgered, unreleased>>
  BY DEF CreateIntent
<1>2. \E at \in {"accepted", "matched", "failed"}, todo \in {Tail(task[o].todo), <<>>} : Goto(o, at, todo)
  <2>1. PICK t : t = Tail(task[o].todo)
    OBVIOUS
  <2>2. IntentsLeft(o, t) \/ Goto(o, "failed", <<>>)
    BY <2>1 DEF CreateIntent, AbortOnFailedIntent
  <2>3. CASE t = <<>>
    BY <2>1, <2>2, <2>3 DEF IntentsLeft
  <2>4. CASE t # <<>>
    BY <2>1, <2>2, <2>4 DEF IntentsLeft
  <2> QED BY <2>3, <2>4
<1> QED BY <1>1, <1>2, CallKeeps

LEMMA DeadlineKeeps ==
    ASSUME Inv, NEW o \in Orders, DeadlinePasses(o)
    PROVE  Inv'
<1>1. UNCHANGED <<order, hold, pending, fills, task, snapshot, arrived, releasing, unledgered, unreleased>>
  BY DEF DeadlinePasses
<1>2. StatusFits' /\ FillsConserved' /\ LedgerFits' /\ HoldsAreExplained'
  BY <1>1, SameRows, SameLedger
<1>3. SnapshotsFit' /\ CrossedOnlyByOverlap'
  BY <1>1, SameCrossing
<1>4. Types' /\ CallsAhead' /\ ReleasingFits'
  BY <1>1 DEF Inv, Types, CallsAhead, ReleasingFits, HasRow, At
<1> QED BY <1>2, <1>3, <1>4 DEF Inv

LEMMA CrashKeeps ==
    ASSUME Inv, Crash
    PROVE  Inv'
<1>1. /\ UNCHANGED <<order, hold, pending, fills, snapshot, arrived, unledgered>>
      /\ releasing' = {} /\ unreleased' = unreleased \cup releasing
  BY DEF Crash
<1>2. StatusFits' /\ FillsConserved' /\ LedgerFits' /\ HoldsAreExplained'
  BY <1>1, SameRows, SameLedger
<1>3. SnapshotsFit' /\ CrossedOnlyByOverlap' /\ ReleasingFits'
  BY <1>1, SameCrossing DEF ReleasingFits
<1>4. DOMAIN task' = Orders
  BY DEF Crash
<1>5. \A n \in Orders : At(n)' \in {"new", "arrived", "reading"} => At(n)' = At(n)
  <2> SUFFICES ASSUME NEW n \in Orders
               PROVE  At(n)' \in {"new", "arrived", "reading"} => At(n)' = At(n)
    OBVIOUS
  <2>1. task'[n] = CASE At(n) \in {"arrived", "reading"} -> [at |-> "rejected", todo |-> <<>>]
                     [] At(n) = "matched"                -> [at |-> "failed", todo |-> <<>>]
                     [] OTHER                            -> task[n]
    BY DEF Crash
  <2>2. CASE At(n) \in {"arrived", "reading"}
    BY <2>1, <2>2 DEF At
  <2>3. CASE At(n) = "matched"
    BY <2>1, <2>3 DEF At
  <2>4. CASE At(n) \notin {"arrived", "reading", "matched"}
    BY <2>1, <2>4 DEF At
  <2> QED BY <2>2, <2>3, <2>4
<1>6. Types' /\ CallsAhead'
  BY <1>1, <1>4, <1>5 DEF Inv, Types, CallsAhead, HasRow
<1> QED BY <1>2, <1>3, <1>6 DEF Inv

LEMMA ReleaseKeeps ==
    ASSUME Inv, NEW o \in Orders, ReleaseHold(o)
    PROVE  Inv'
<1>1. /\ UNCHANGED <<order, pending, fills, task, snapshot, arrived, unledgered>>
      /\ o \in releasing /\ releasing' = releasing \ {o}
  BY DEF ReleaseHold
<1>2. StatusFits' /\ FillsConserved' /\ SnapshotsFit' /\ CrossedOnlyByOverlap'
  BY <1>1, SameRows, SameCrossing
<1>3. CallsAhead' /\ ReleasingFits'
  BY <1>1 DEF Inv, CallsAhead, ReleasingFits, HasRow, At
<1>4. hold \in [Orders -> Nat]
  BY DEF Inv, Types
<1>5. CASE hold' = [hold EXCEPT ![o] = 0] /\ unreleased' = unreleased
  <2>1. hold' \in [Orders -> Nat] /\ hold'[o] = 0 /\ \A n \in Orders \ {o} : hold'[n] = hold[n]
    BY <1>4, <1>5
  <2>2. Types'
    BY <1>1, <2>1 DEF Inv, Types
  <2>3. ~ IsLive(o) /\ \A n \in Orders : IsLive(n)' <=> IsLive(n)
    BY <1>1 DEF Inv, ReleasingFits, IsLive, Live
  <2>4. LedgerFits'
    <3>1. \A n : FillsOf(n)' = FillsOf(n) /\ Reserved(n)' = Reserved(n) /\ HoldFor(n)' = HoldFor(n)
      BY <1>1 DEF FillsOf, Reserved, HoldFor
    <3>2. \A n \in Orders : IsLive(n)' \/ hold'[n] > 0 => n # o /\ hold'[n] = hold[n]
      BY <2>1, <2>3
    <3> QED BY <1>1, <2>3, <3>1, <3>2 DEF Inv, LedgerFits, PendingIsExact, HoldsAreExact
  <2>5. HoldsAreExplained'
    <3> SUFFICES ASSUME NEW n \in Orders \ unledgered, hold'[n] > 0
                 PROVE  \/ IsLive(n)'
                        \/ n \in releasing' \cup unreleased'
                        \/ order'[n] # None /\ order'[n].status = "expired"
      BY <1>1 DEF HoldsAreExplained
    <3>1. n # o /\ hold'[n] = hold[n]
      BY <2>1
    <3> QED BY <1>1, <1>5, <2>3, <3>1 DEF Inv, HoldsAreExplained
  <2> QED BY <1>2, <1>3, <2>2, <2>4, <2>5 DEF Inv
<1>6. CASE hold' = hold /\ unreleased' = unreleased \cup {o}
  <2>1. LedgerFits' /\ HoldsAreExplained'
    BY <1>1, <1>6, SameLedger
  <2>2. Types'
    BY <1>1, <1>6 DEF Inv, Types
  <2> QED BY <1>2, <1>3, <2>1, <2>2 DEF Inv
<1> QED BY <1>5, <1>6 DEF ReleaseHold

-----------------------------------------------------------------------------
(* Cancellation and expiry.                                                *)

\* The orders of S end with what is left of them.
EndWith(S, status) ==
    /\ order' \in [Orders -> OrderRow \cup {None}]
    /\ \A o \in Orders : o \notin S => order'[o] = order[o]
    /\ \A o \in S : /\ o \in Orders /\ IsLive(o) /\ order'[o] # None
                    /\ order'[o].remaining = order[o].remaining /\ order'[o].status = status

LEMMA EndKeeps ==
    ASSUME Inv, NEW S, NEW status \in {"cancelled", "expired"}, EndWith(S, status),
           releasing' = IF status = "cancelled" THEN releasing \cup S ELSE releasing,
           UNCHANGED <<hold, pending, fills, task, snapshot, arrived, unledgered, unreleased>>
    PROVE  Inv'
<1>1. /\ order' \in [Orders -> OrderRow \cup {None}]
      /\ \A o \in Orders \ S : order'[o] = order[o]
      /\ \A o \in S : /\ o \in Orders /\ order[o] # None /\ order'[o] # None /\ order[o].status \in Live
                      /\ order'[o].remaining = order[o].remaining /\ order'[o].status = status
                      /\ status \notin Live \cup {"filled"}
  BY DEF EndWith, IsLive, Live
<1>2. \A o \in Orders : /\ HasRow(o)' <=> HasRow(o)
                        /\ IsLive(o)' <=> IsLive(o) /\ o \notin S
                        /\ HasRow(o) => order'[o].remaining = order[o].remaining
  BY <1>1 DEF HasRow, IsLive
<1>3. Types' /\ CallsAhead'
  BY <1>1, <1>2 DEF Inv, Types, CallsAhead, At
<1>4. StatusFits'
  <2> SUFFICES ASSUME NEW o \in Orders, HasRow(o)'
               PROVE  /\ order'[o].status \in Live => order'[o].remaining > 0
                      /\ order'[o].status = "filled" => order'[o].remaining = 0
    BY DEF StatusFits
  <2>1. CASE o \in S
    BY <1>1, <2>1
  <2>2. CASE o \notin S
    BY <1>1, <1>2, <2>2 DEF Inv, StatusFits
  <2> QED BY <2>1, <2>2
<1>5. SnapshotsFit'
  BY <1>2 DEF Inv, SnapshotsFit
<1>6. ReleasingFits'
  <2>1. \A o \in releasing : o \in Orders \ S /\ order'[o] = order[o]
    BY <1>1 DEF Inv, ReleasingFits, HasRow, Live
  <2>2. CASE status = "cancelled"
    <3>1. releasing' = releasing \cup S
      BY <2>2
    <3>2. \A o \in releasing : o \in Orders /\ HasRow(o)' /\ order'[o].status = "cancelled"
      BY <1>2, <2>1 DEF Inv, ReleasingFits
    <3>3. \A o \in S : o \in Orders /\ HasRow(o)' /\ order'[o].status = "cancelled"
      BY <1>1, <2>2 DEF HasRow
    <3> QED BY <3>1, <3>2, <3>3 DEF ReleasingFits
  <2>3. CASE status # "cancelled"
    <3>1. releasing' = releasing
      BY <2>3
    <3> QED BY <1>2, <2>1, <3>1 DEF Inv, ReleasingFits
  <2> QED BY <2>2, <2>3
<1>7. LedgerFits'
  <2>1. \A o \in Orders : order'[o].remaining = order[o].remaining
    BY <1>1
  <2>2. \A o : FillsOf(o)' = FillsOf(o) /\ Reserved(o)' = Reserved(o)
    BY DEF FillsOf, Reserved
  <2>3. \A o \in Orders : HoldFor(o)' = HoldFor(o)
    BY <2>1, <2>2 DEF HoldFor
  <2> QED BY <1>2, <2>2, <2>3 DEF Inv, LedgerFits, PendingIsExact, HoldsAreExact
<1>8. FillsConserved'
  <2>1. \A o : FillsOf(o)' = FillsOf(o)
    BY DEF FillsOf
  <2>2. \A o \in Orders : IF order'[o] = None THEN FillsOf(o) = {}
                          ELSE order'[o].remaining + Traded(FillsOf(o)) = Terms[o].size
    <3> SUFFICES ASSUME NEW o \in Orders
                 PROVE  IF order'[o] = None THEN FillsOf(o) = {}
                        ELSE order'[o].remaining + Traded(FillsOf(o)) = Terms[o].size
      OBVIOUS
    <3>1. PICK r, q, z : r = order[o] /\ q = order'[o] /\ z = Traded(FillsOf(o))
      OBVIOUS
    <3>2. IF r = None THEN FillsOf(o) = {} ELSE r.remaining + z = Terms[o].size
      BY <3>1 DEF Inv, FillsConserved
    <3>3. (q = None <=> r = None) /\ (r # None => q.remaining = r.remaining)
      BY <1>2, <3>1 DEF HasRow
    <3> QED BY <3>1, <3>2, <3>3
  <2> QED BY <2>1, <2>2 DEF FillsConserved
<1>9. HoldsAreExplained'
  <2> SUFFICES ASSUME NEW o \in Orders \ unledgered, hold[o] > 0
               PROVE  \/ IsLive(o)'
                      \/ o \in releasing' \cup unreleased
                      \/ order'[o] # None /\ order'[o].status = "expired"
    BY DEF HoldsAreExplained
  <2>1. CASE o \in S
    BY <1>1, <2>1
  <2>2. CASE o \notin S
    <3>1. order'[o] = order[o] /\ (IsLive(o)' <=> IsLive(o)) /\ releasing \subseteq releasing'
      BY <1>1, <1>2, <2>2
    <3> QED BY <3>1 DEF Inv, HoldsAreExplained
  <2> QED BY <2>1, <2>2
<1>10. CrossedOnlyByOverlap'
  <2>1. \A n \in {m \in Orders : IsLive(m)'} : n \in {m \in Orders : IsLive(m)}
    BY <1>2
  <2> QED BY <2>1 DEF Inv, CrossedOnlyByOverlap
<1> QED BY <1>3, <1>4, <1>5, <1>6, <1>7, <1>8, <1>9, <1>10 DEF Inv

LEMMA RowEnds ==
    ASSUME NEW row \in OrderRow, NEW status \in {"cancelled", "expired"}, NEW new,
           new = [row EXCEPT !.status = status]
    PROVE  new \in OrderRow /\ new # None /\ new.remaining = row.remaining /\ new.status = status
<1>1. new \in OrderRow /\ new.remaining = row.remaining /\ new.status = status
  BY DEF OrderRow
<1> QED BY <1>1, NoneIsNoRow

LEMMA CancelKeeps ==
    ASSUME Inv, NEW o \in Orders, Cancel(o)
    PROVE  Inv'
<1>1. /\ IsLive(o) /\ order' = [order EXCEPT ![o].status = "cancelled"] /\ releasing' = releasing \cup {o}
      /\ UNCHANGED <<hold, pending, fills, task, snapshot, arrived, unledgered, unreleased>>
  BY DEF Cancel
<1>2. order \in [Orders -> OrderRow \cup {None}] /\ order[o] \in OrderRow
  BY <1>1 DEF Inv, Types, IsLive
<1>3. /\ order'[o] = [order[o] EXCEPT !.status = "cancelled"] /\ DOMAIN order' = Orders
      /\ \A n \in Orders \ {o} : order'[n] = order[n]
  BY <1>1, <1>2
<1>4. /\ order'[o] \in OrderRow /\ order'[o] # None
      /\ order'[o].remaining = order[o].remaining /\ order'[o].status = "cancelled"
  BY <1>2, <1>3, RowEnds
<1>5. order' \in [Orders -> OrderRow \cup {None}]
  <2>1. order' = [order EXCEPT ![o] = order'[o]]
    BY <1>1, <1>2, <1>3
  <2> QED BY <1>2, <1>4, <2>1
<1>6. EndWith({o}, "cancelled")
  BY <1>1, <1>3, <1>4, <1>5 DEF EndWith
<1> QED BY <1>1, <1>6, EndKeeps

LEMMA SweepKeeps ==
    ASSUME Inv, SweepExpired
    PROVE  Inv'
<1>1. /\ order' = [o \in Orders |->
            IF o \in due /\ IsLive(o) THEN [order[o] EXCEPT !.status = "expired"] ELSE order[o]]
      /\ UNCHANGED <<hold, pending, fills, task, snapshot, arrived, releasing, unledgered, unreleased>>
  BY DEF SweepExpired
<1>2. PICK S : S = {o \in Orders : o \in due /\ IsLive(o)}
  OBVIOUS
<1>3. order \in [Orders -> OrderRow \cup {None}] /\ \A o \in S : order[o] \in OrderRow
  BY <1>2 DEF Inv, Types, IsLive
<1>4. /\ \A o \in S : order'[o] = [order[o] EXCEPT !.status = "expired"]
      /\ \A o \in Orders \ S : order'[o] = order[o]
  BY <1>1, <1>2
<1>5. \A o \in S : /\ order'[o] \in OrderRow /\ order'[o] # None
                   /\ order'[o].remaining = order[o].remaining /\ order'[o].status = "expired"
  <2> TAKE o \in S
  <2>1. PICK row, new : row = order[o] /\ new = order'[o]
    OBVIOUS
  <2>2. row \in OrderRow /\ new = [row EXCEPT !.status = "expired"]
    BY <1>3, <1>4, <2>1
  <2>3. new \in OrderRow /\ new # None /\ new.remaining = row.remaining /\ new.status = "expired"
    BY <2>2, RowEnds
  <2> QED BY <2>1, <2>3
<1>6. \A o \in Orders : order'[o] \in OrderRow \cup {None}
  BY <1>3, <1>4, <1>5
<1>7. order' \in [Orders -> OrderRow \cup {None}]
  BY <1>1, <1>6
<1>8. EndWith(S, "expired")
  BY <1>2, <1>4, <1>5, <1>7 DEF EndWith
<1> QED BY <1>1, <1>8, EndKeeps

-----------------------------------------------------------------------------
(* The match.                                                              *)

LEMMA AgesTellApart ==
    ASSUME Inv, NEW m \in Range(arrived), m \in Orders
    PROVE  Age[m] \in Nat /\ arrived[Age[m]] = m
<1>1. DOMAIN arrived \subseteq Nat /\ \E i \in DOMAIN arrived : arrived[i] = m
  BY DEF Inv, Types, Range
<1>2. Age[m] = CHOOSE i \in DOMAIN arrived : arrived[i] = m
  BY DEF Age
<1> QED BY <1>1, <1>2

LEMMA LockedFacts ==
    ASSUME Inv, NEW o \in Orders, At(o) = "reading"
    PROVE  /\ Given(o, LockedRows(o), Age) /\ ~ HasRow(o)
           /\ \A m \in DOMAIN LockedRows(o) :
                 /\ m \in Orders \ {o} /\ m \in DOMAIN snapshot[o] /\ IsLive(m)
                 /\ LockedRows(o)[m] = order[m] /\ order[m] \in OrderRow /\ order[m].remaining > 0
           /\ \A m \in DOMAIN snapshot[o] : IsLive(m) => m \in DOMAIN LockedRows(o)
<1>1. PICK book : book = LockedRows(o)
  OBVIOUS
<1>2. ~ HasRow(o)
  BY DEF Inv, CallsAhead
<1>3. DOMAIN book = {n \in DOMAIN snapshot[o] : IsLive(n)} /\ \A m \in DOMAIN book : book[m] = order[m]
  BY <1>1 DEF LockedRows
<1>4. ASSUME NEW m \in DOMAIN book
      PROVE  /\ m \in Orders \ {o} /\ m \in DOMAIN snapshot[o] /\ IsLive(m) /\ m \in Range(arrived)
             /\ book[m] = order[m] /\ order[m] \in OrderRow /\ order[m].remaining > 0
             /\ order[m].remaining \in Nat
  <2>1. m \in DOMAIN snapshot[o] /\ IsLive(m) /\ book[m] = order[m]
    BY <1>3
  <2>2. m \in Orders /\ HasRow(m)
    BY <2>1 DEF Inv, SnapshotsFit
  <2>3. m # o /\ m \in Range(arrived)
    BY <1>2, <2>2 DEF Inv, CallsAhead
  <2>4. order[m] \in OrderRow
    BY <2>2 DEF Inv, Types, HasRow
  <2>5. order[m].remaining > 0
    BY <2>1, <2>2 DEF Inv, StatusFits, IsLive
  <2> QED BY <2>1, <2>2, <2>3, <2>4, <2>5 DEF OrderRow
<1>5. PICK makers : makers = CanMatchSet(o, book)
  OBVIOUS
<1>6. \A m \in makers : m \in DOMAIN book
  BY <1>5 DEF CanMatchSet
<1>7. IsFiniteSet(makers)
  <2>1. IsFiniteSet(Range(arrived))
    <3>1. Len(arrived) \in Nat /\ DOMAIN arrived = 1 .. Len(arrived)
      BY DEF Inv, Types
    <3>2. IsFiniteSet(1 .. Len(arrived))
      BY <3>1, FS_Interval
    <3>3. PICK f : f = [i \in 1 .. Len(arrived) |-> arrived[i]]
      OBVIOUS
    <3>4. f \in [1 .. Len(arrived) -> Range(arrived)] /\ \A y \in Range(arrived) : \E i \in 1 .. Len(arrived) : f[i] = y
      BY <3>1, <3>3 DEF Range
    <3> QED BY <3>2, <3>4, ImageIsSmaller
  <2>2. makers \subseteq Range(arrived)
    BY <1>4, <1>6
  <2> QED BY <2>1, <2>2, FS_Subset
<1>8. Ranked(makers, Age)
  <2>1. \A m \in makers : m \in Orders /\ Age[m] \in Nat /\ arrived[Age[m]] = m
    BY <1>4, <1>6, AgesTellApart
  <2> QED BY <2>1 DEF Ranked
<1>9. Given(o, book, Age)
  <2>1. DOMAIN book \subseteq Orders \ {o} /\ \A m \in DOMAIN book : book[m].remaining \in Nat
    BY <1>4
  <2> QED BY <1>5, <1>7, <1>8, <2>1 DEF Given
<1> QED BY <1>1, <1>2, <1>3, <1>4, <1>9

LEMMA StatusFacts ==
    ASSUME NEW size \in Nat, size > 0, NEW left \in Nat, NEW s, s = StatusForRemaining(size, left)
    PROVE  s \in Live \cup {"filled"} /\ (s \in Live <=> left > 0)
<1>1. CASE left = 0
  BY <1>1 DEF StatusForRemaining, Live
<1>2. CASE left # 0 /\ left = size
  BY <1>2 DEF StatusForRemaining, Live
<1>3. CASE left # 0 /\ left # size
  BY <1>3 DEF StatusForRemaining, Live
<1> QED BY <1>1, <1>2, <1>3

LEMMA FinalStatusFacts ==
    ASSUME NEW o \in Orders, NEW left \in Nat, NEW s, s = FinalStatusForTif(o, left)
    PROVE  /\ s \in Live \cup {"filled", "cancelled"} /\ (s \in Live => left > 0)
           /\ (s = "filled" => left = 0)
<1>1. PICK b : b = StatusForRemaining(Terms[o].size, left)
  OBVIOUS
<1>2. b \in Live \cup {"filled"} /\ (b \in Live <=> left > 0)
  BY <1>1, StatusFacts, TermFacts
<1>3. s = IF Terms[o].tif = "ioc" /\ b \in Live THEN "cancelled" ELSE b
  BY <1>1 DEF FinalStatusForTif
<1> QED BY <1>2, <1>3 DEF Live

\* The rows and the fills that a match of o leaves.
RowsMatched(o, plan) ==
    /\ order' \in [Orders -> OrderRow \cup {None}]
    /\ HasRow(o)' /\ order'[o].remaining = plan.left
    /\ order'[o].status \in Live => plan.left > 0
    /\ order'[o].status = "filled" => plan.left = 0
    /\ \A m \in Makers(plan) :
          /\ HasRow(m)' /\ order[m].remaining \in Nat /\ order'[m].remaining \in Nat
          /\ order'[m].remaining = order[m].remaining - Taken(plan, m)
          /\ order'[m].status \in Live \cup {"filled"}
          /\ order'[m].status \in Live <=> order'[m].remaining > 0
    /\ \A n \in Orders \ ({o} \cup Makers(plan)) : order'[n] = order[n]
    /\ fills' = fills \cup PlanFills(o, plan)

PlanRows(o, plan) == UNION {PendingRows(f) : f \in PlanFills(o, plan)}

\* The reservations it leaves, in either branch.
LedgerMatched(o, plan) ==
    \/ /\ hold'[o] = IF order'[o].status \in Live /\ plan.left > 0 THEN Terms[o].size ELSE 0
       /\ \A m \in Makers(plan) : hold'[m] = IF hold[m] = 0 THEN 0 ELSE order'[m].remaining
       /\ \A n \in Orders \ ({o} \cup Makers(plan)) : hold'[n] = hold[n]
       /\ pending' = pending \cup PlanRows(o, plan) /\ unledgered' = unledgered
    \/ /\ hold' = hold /\ pending' = pending
       /\ unledgered' = unledgered \cup {o} \cup Makers(plan)

Matched(o, plan) ==
    /\ o \in Orders /\ ~ HasRow(o) /\ At(o) = "reading" /\ PlanFits(plan, o, LockedRows(o), Age)
    /\ \A m \in Makers(plan) : m \in Orders \ {o} /\ IsLive(m)
    /\ RowsMatched(o, plan)
    /\ hold' \in [Orders -> Nat] /\ LedgerMatched(o, plan)
    /\ DOMAIN task' = Orders /\ At(o)' \in {"matched", "accepted"}
    /\ \A n \in Orders \ {o} : At(n)' = At(n)
    /\ UNCHANGED <<snapshot, arrived, releasing, unreleased>>

LEMMA SubmitMatches ==
    ASSUME Inv, NEW o \in Orders, SubmitAndMatch(o)
    PROVE  \E plan : Matched(o, plan)
<1>1. PICK book : book = LockedRows(o)
  OBVIOUS
<1>2. PICK plan : plan = BuildMatchPlan(o, book, Age)
  OBVIOUS
<1>3. CommitMatch(o, book, plan)
  BY <1>1, <1>2 DEF SubmitAndMatch
<1>4. At(o) = "reading"
  BY <1>3 DEF CommitMatch
<1>5. /\ Given(o, book, Age) /\ ~ HasRow(o)
      /\ \A m \in DOMAIN book :
            /\ m \in Orders \ {o} /\ IsLive(m)
            /\ book[m] = order[m] /\ order[m] \in OrderRow /\ order[m].remaining > 0
  BY <1>1, <1>4, LockedFacts
<1>6. PlanFits(plan, o, book, Age)
  BY <1>2, <1>5, PlanIsSound
<1>7. \A m \in Makers(plan) : m \in DOMAIN book
  BY <1>6 DEF PlanFits, CanMatchSet
<1>8. PICK row : row = [remaining |-> plan.left, status |-> FinalStatusForTif(o, plan.left)]
  OBVIOUS
<1>9. /\ row \in OrderRow /\ row # None /\ row.remaining = plan.left
      /\ (row.status \in Live => plan.left > 0) /\ (row.status = "filled" => plan.left = 0)
  <2>1. plan.left \in Nat
    BY <1>6 DEF PlanFits
  <2>2. PICK left, s : left = plan.left /\ s = FinalStatusForTif(o, left)
    OBVIOUS
  <2>3. /\ s \in Live \cup {"filled", "cancelled"} /\ (s \in Live => left > 0)
        /\ (s = "filled" => left = 0)
    BY <2>1, <2>2, FinalStatusFacts
  <2>4. row = [remaining |-> left, status |-> s]
    BY <1>8, <2>2
  <2>5. row \in OrderRow
    BY <2>1, <2>2, <2>3, <2>4 DEF OrderRow
  <2> QED BY <2>2, <2>3, <2>4, <2>5, NoneIsNoRow
<1>10. order' = [m \in Orders |->
                CASE m = o              -> row
                  [] m \in Makers(plan) -> MakerRow(m, book, plan)
                  [] OTHER              -> order[m]]
  BY <1>3, <1>8 DEF CommitMatch
<1>11. o \notin Makers(plan) /\ order'[o] = row
  <2>1. o \notin Makers(plan)
    BY <1>5, <1>7
  <2> QED BY <1>10, <2>1
<1>12. \A m \in Makers(plan) : m \in Orders \ {o} /\ IsLive(m) /\ order'[m] = MakerRow(m, book, plan)
  <2> TAKE m \in Makers(plan)
  <2>1. m \in Orders \ {o} /\ IsLive(m)
    BY <1>5, <1>7
  <2> QED BY <1>10, <2>1
<1>13. \A n \in Orders \ ({o} \cup Makers(plan)) : order'[n] = order[n]
  BY <1>10
<1>14. ASSUME NEW m \in Makers(plan)
       PROVE  /\ order'[m] \in OrderRow /\ order'[m] # None
              /\ order[m].remaining \in Nat /\ order'[m].remaining \in Nat
              /\ order'[m].remaining = order[m].remaining - Taken(plan, m)
              /\ order'[m].status \in Live \cup {"filled"}
              /\ order'[m].status \in Live <=> order'[m].remaining > 0
  <2>1. PICK r, t, left, s : /\ r = order[m].remaining /\ t = Taken(plan, m) /\ left = r - t
                             /\ s = StatusForRemaining(Terms[m].size, left)
    OBVIOUS
  <2>2. m \in DOMAIN book /\ book[m] = order[m] /\ order[m] \in OrderRow /\ m \in Orders
    BY <1>5, <1>7
  <2>3. r \in Nat
    BY <2>1, <2>2 DEF OrderRow
  <2>4. t \in Nat /\ t <= r
    BY <1>6, <2>1, <2>2 DEF PlanFits
  <2>5. left \in Nat
    BY <2>1, <2>3, <2>4
  <2>6. s \in Live \cup {"filled"} /\ (s \in Live <=> left > 0)
    BY <2>1, <2>2, <2>5, StatusFacts, TermFacts
  <2>7. order'[m] = [remaining |-> left, status |-> s]
    BY <1>12, <2>1, <2>2 DEF MakerRow
  <2>8. order'[m] \in OrderRow
    BY <2>5, <2>6, <2>7 DEF OrderRow
  <2> QED BY <2>1, <2>3, <2>5, <2>6, <2>7, <2>8, NoneIsNoRow
<1>15. order' \in [Orders -> OrderRow \cup {None}]
  <2>1. \A n \in Orders : order'[n] \in OrderRow \cup {None}
    BY <1>9, <1>11, <1>13, <1>14 DEF Inv, Types
  <2> QED BY <1>10, <2>1
<1>16. RowsMatched(o, plan)
  <2>1. fills' = fills \cup PlanFills(o, plan)
    BY <1>3 DEF CommitMatch, PlanFills
  <2> QED BY <1>9, <1>11, <1>13, <1>14, <1>15, <2>1 DEF RowsMatched, HasRow
<1>17. hold' \in [Orders -> Nat] /\ LedgerMatched(o, plan)
  <2>1. CASE WriteReservations(o, row, book, plan) /\ unledgered' = unledgered
    <3>1. /\ hold' = [m \in Orders |->
                CASE m = o              -> TakerHold(o, row)
                  [] m \in Makers(plan) -> ResidualHold(m, MakerRow(m, book, plan).remaining)
                  [] OTHER              -> hold[m]]
          /\ pending' = pending \cup PlanRows(o, plan)
      BY <2>1 DEF WriteReservations, PlanFills, PlanRows
    <3>2. hold'[o] = TakerHold(o, row)
      BY <1>11, <3>1
    <3>3. \A m \in Makers(plan) : hold'[m] = ResidualHold(m, order'[m].remaining)
      <4> TAKE m \in Makers(plan)
      <4>1. m \in Orders \ {o} /\ order'[m] = MakerRow(m, book, plan)
        BY <1>12
      <4>2. hold'[m] = ResidualHold(m, MakerRow(m, book, plan).remaining)
        BY <3>1, <4>1
      <4> QED BY <4>1, <4>2
    <3>4. \A n \in Orders \ ({o} \cup Makers(plan)) : hold'[n] = hold[n]
      BY <3>1
    <3>5. hold'[o] = IF order'[o].status \in Live /\ plan.left > 0 THEN Terms[o].size ELSE 0
      BY <1>9, <1>11, <3>2 DEF TakerHold
    <3>6. \A m \in Makers(plan) : hold'[m] = IF hold[m] = 0 THEN 0 ELSE order'[m].remaining
      BY <3>3 DEF ResidualHold
    <3>7. \A n \in Orders : hold'[n] \in Nat
      <4>1. Terms[o].size \in Nat /\ hold \in [Orders -> Nat]
        BY TermFacts DEF Inv, Types
      <4>2. hold'[o] \in Nat
        BY <3>5, <4>1
      <4>3. \A m \in Makers(plan) : hold'[m] \in Nat
        BY <1>14, <3>6
      <4> QED BY <3>4, <4>1, <4>2, <4>3
    <3> QED BY <2>1, <3>1, <3>4, <3>5, <3>6, <3>7 DEF LedgerMatched
  <2>2. CASE /\ unledgered' = unledgered \cup {o} \cup Makers(plan)
             /\ UNCHANGED <<hold, pending>>
    BY <2>2 DEF LedgerMatched, Inv, Types
  <2> QED BY <1>3, <1>8, <2>1, <2>2 DEF CommitMatch
<1>18. /\ DOMAIN task' = Orders /\ At(o)' \in {"matched", "accepted"}
       /\ \A n \in Orders \ {o} : At(n)' = At(n)
  <2>1. \E at, todo : at \in {"matched", "accepted"} /\ Goto(o, at, todo)
    <3>1. PICK todo : IntentsLeft(o, todo)
      BY <1>3 DEF CommitMatch
    <3>2. CASE todo = <<>>
      BY <3>1, <3>2 DEF IntentsLeft
    <3>3. CASE todo # <<>>
      BY <3>1, <3>3 DEF IntentsLeft
    <3> QED BY <3>2, <3>3
  <2> QED BY <2>1, GotoFacts
<1>19. UNCHANGED <<snapshot, arrived, releasing, unreleased>>
  BY <1>3 DEF CommitMatch
<1>20. Matched(o, plan)
  BY <1>1, <1>4, <1>5, <1>6, <1>12, <1>16, <1>17, <1>18, <1>19 DEF Matched
<1> QED BY <1>20

LEMMA MatchedRows ==
    ASSUME Inv, NEW o, NEW plan, Matched(o, plan)
    PROVE  /\ Types' /\ CallsAhead' /\ StatusFits' /\ SnapshotsFit' /\ ReleasingFits'
           /\ \A n \in Orders : (HasRow(n) => HasRow(n)') /\ (IsLive(n)' => IsLive(n) \/ n = o)
<1>1. /\ o \in Orders /\ ~ HasRow(o) /\ At(o) = "reading"
      /\ \A m \in Makers(plan) : m \in Orders \ {o} /\ IsLive(m)
      /\ hold' \in [Orders -> Nat] /\ RowsMatched(o, plan)
      /\ DOMAIN task' = Orders /\ At(o)' \in {"matched", "accepted"}
      /\ \A n \in Orders \ {o} : At(n)' = At(n)
      /\ UNCHANGED <<snapshot, arrived, releasing, unreleased>>
      /\ PlanFits(plan, o, LockedRows(o), Age)
  BY DEF Matched
<1>2. /\ order' \in [Orders -> OrderRow \cup {None}] /\ HasRow(o)'
      /\ \A m \in Makers(plan) : HasRow(m)'
      /\ \A n \in Orders \ ({o} \cup Makers(plan)) : order'[n] = order[n]
      /\ fills' = fills \cup PlanFills(o, plan)
  BY <1>1 DEF RowsMatched
<1>3. \A n \in Orders : (HasRow(n) => HasRow(n)') /\ (HasRow(n)' => HasRow(n) \/ n = o)
  <2> TAKE n \in Orders
  <2>1. CASE n \in {o} \cup Makers(plan)
    BY <1>1, <1>2, <2>1 DEF IsLive, HasRow
  <2>2. CASE n \notin {o} \cup Makers(plan)
    BY <1>2, <2>2 DEF HasRow
  <2> QED BY <2>1, <2>2
<1>4. \A n \in Orders : IsLive(n)' => IsLive(n) \/ n = o
  <2> TAKE n \in Orders
  <2>1. CASE n \in {o} \cup Makers(plan)
    BY <1>1, <2>1
  <2>2. CASE n \notin {o} \cup Makers(plan)
    BY <1>2, <2>2 DEF IsLive
  <2> QED BY <2>1, <2>2
<1>5. Types'
  <2>1. fills' \subseteq Fill /\ IsFiniteSet(fills')
    <3>1. IsFiniteSet(PlanFills(o, plan)) /\ PlanFills(o, plan) \subseteq Fill
      BY <1>1 DEF PlanFits, FillsOfPlan
    <3>2. fills \subseteq Fill /\ IsFiniteSet(fills)
      BY DEF Inv, Types
    <3>3. IsFiniteSet(fills \cup PlanFills(o, plan))
      BY <3>1, <3>2, FS_Union
    <3> QED BY <1>2, <3>1, <3>2, <3>3
  <2> QED BY <1>1, <1>2, <2>1 DEF Inv, Types
<1>6. CallsAhead'
  <2> SUFFICES ASSUME NEW n \in Orders
               PROVE  /\ At(n)' \in {"new", "arrived", "reading"} => ~ HasRow(n)'
                      /\ HasRow(n)' \/ At(n)' \in {"arrived", "reading"} => n \in Range(arrived)
    BY <1>1 DEF CallsAhead
  <2>1. CASE n = o
    BY <1>1, <2>1 DEF Inv, CallsAhead
  <2>2. CASE n # o
    BY <1>1, <1>3, <2>2 DEF Inv, CallsAhead
  <2> QED BY <2>1, <2>2
<1>7. StatusFits'
  <2> SUFFICES ASSUME NEW n \in Orders, HasRow(n)'
               PROVE  /\ order'[n].status \in Live => order'[n].remaining > 0
                      /\ order'[n].status = "filled" => order'[n].remaining = 0
    BY DEF StatusFits
  <2>1. CASE n = o
    BY <1>1, <2>1 DEF RowsMatched
  <2>2. CASE n \in Makers(plan)
    <3>1. /\ order'[n].remaining \in Nat /\ (order'[n].status \in Live <=> order'[n].remaining > 0)
      BY <1>1, <2>2 DEF RowsMatched
    <3> QED BY <3>1 DEF Live
  <2>3. CASE n \notin {o} \cup Makers(plan)
    BY <1>2, <2>3 DEF Inv, StatusFits, HasRow
  <2> QED BY <2>1, <2>2, <2>3
<1>8. SnapshotsFit'
  BY <1>1, <1>3 DEF Inv, SnapshotsFit
<1>9. ReleasingFits'
  <2>1. \A n \in releasing : n \in Orders /\ HasRow(n) /\ order[n].status = "cancelled"
    BY DEF Inv, ReleasingFits
  <2>2. \A n \in releasing : n \notin {o} \cup Makers(plan)
    BY <1>1, <2>1 DEF IsLive, Live
  <2>3. \A n \in releasing : order'[n] = order[n]
    BY <1>2, <2>1, <2>2
  <2> QED BY <1>1, <2>1, <2>3 DEF ReleasingFits, HasRow
<1> QED BY <1>3, <1>4, <1>5, <1>6, <1>7, <1>8, <1>9

LEMMA MatchedConserves ==
    ASSUME Inv, NEW o, NEW plan, Matched(o, plan)
    PROVE  FillsConserved'
<1>1. /\ o \in Orders /\ ~ HasRow(o) /\ FillsOf(o) = {}
      /\ \A m \in Makers(plan) : m \in Orders \ {o} /\ IsLive(m)
      /\ RowsMatched(o, plan) /\ FillsOfPlan(o, plan)
      /\ plan.left + Traded(PlanFills(o, plan)) = Terms[o].size
  BY DEF Matched, PlanFits, HasRow, Inv, FillsConserved
<1>2. fills' = fills \cup PlanFills(o, plan)
  BY <1>1 DEF RowsMatched
<1>3. PICK pf : pf = PlanFills(o, plan)
  OBVIOUS
<1>4. /\ \A f \in pf : \E m \in Makers(plan) : {f.buy, f.sell} = {o, m}
      /\ \A m \in Makers(plan) : \E f \in pf :
            /\ m \in {f.buy, f.sell} /\ f.size = Taken(plan, m)
            /\ \A g \in pf : m \in {g.buy, g.sell} => g = f
      /\ pf \subseteq Fill
  BY <1>1, <1>3 DEF FillsOfPlan
<1>5. \A n : FillsOf(n)' = FillsOf(n) \cup {f \in pf : n \in {f.buy, f.sell}}
  BY <1>2, <1>3 DEF FillsOf
<1> SUFFICES ASSUME NEW n \in Orders
             PROVE  IF order'[n] = None THEN FillsOf(n)' = {}
                    ELSE order'[n].remaining + Traded(FillsOf(n)') = Terms[n].size
  BY DEF FillsConserved, FillsOf
<1>6. CASE n = o
  <2>1. FillsOf(o)' = pf
    <3>1. \A f \in pf : o \in {f.buy, f.sell}
      <4> TAKE f \in pf
      <4>1. PICK m \in Makers(plan) : {f.buy, f.sell} = {o, m}
        BY <1>4
      <4> QED BY <4>1
    <3>2. {f \in pf : o \in {f.buy, f.sell}} = pf
      BY <3>1
    <3>3. FillsOf(o)' = FillsOf(o) \cup {f \in pf : o \in {f.buy, f.sell}}
      BY <1>5
    <3> QED BY <1>1, <3>2, <3>3
  <2>2. order'[o] # None /\ order'[o].remaining = plan.left
    BY <1>1 DEF RowsMatched, HasRow
  <2> QED BY <1>1, <1>3, <1>6, <2>1, <2>2
<1>7. CASE n \in Makers(plan)
  <2>1. PICK f \in pf : /\ n \in {f.buy, f.sell} /\ f.size = Taken(plan, n)
                        /\ \A g \in pf : n \in {g.buy, g.sell} => g = f
    BY <1>4, <1>7
  <2>2. FillsOf(n)' = FillsOf(n) \cup {f}
    BY <1>5, <2>1
  <2>3. f \notin FillsOf(n)
    <3>1. o \in {f.buy, f.sell}
      BY <1>4, <2>1
    <3> QED BY <1>1, <3>1 DEF FillsOf
  <2>4. IsFiniteSet(FillsOf(n)) /\ \A g \in FillsOf(n) : g.size \in Nat
    <3>1. fills \subseteq Fill /\ IsFiniteSet(fills) /\ FillsOf(n) \subseteq fills
      BY DEF Inv, Types, FillsOf
    <3>2. IsFiniteSet(FillsOf(n))
      BY <3>1, FS_Subset
    <3> QED BY <3>1, <3>2 DEF Fill
  <2>5. f.size \in Nat
    BY <1>4, <2>1 DEF Fill
  <2>6. PICK fs, z : fs = FillsOf(n) /\ z = Traded(fs)
    OBVIOUS
  <2>7. z \in Nat /\ Traded(fs \cup {f}) = z + f.size
    BY <2>3, <2>4, <2>5, <2>6, TradedFacts
  <2>8. /\ order'[n] # None /\ order[n].remaining \in Nat
        /\ order'[n].remaining = order[n].remaining - Taken(plan, n)
    BY <1>1, <1>7 DEF RowsMatched, HasRow
  <2>9. order[n].remaining + z = Terms[n].size
    BY <1>1, <1>7, <2>6 DEF Inv, FillsConserved, IsLive
  <2>10. order'[n].remaining + (z + f.size) = Terms[n].size
    <3>1. PICK r, q, t : r = order[n].remaining /\ q = order'[n].remaining /\ t = f.size
      OBVIOUS
    <3>2. r \in Nat /\ z \in Nat /\ t \in Nat /\ q = r - t /\ r + z = Terms[n].size
      BY <2>1, <2>5, <2>7, <2>8, <2>9, <3>1
    <3>3. q + (z + t) = r + z
      BY <3>2
    <3> QED BY <3>1, <3>2, <3>3
  <2> QED BY <2>2, <2>6, <2>7, <2>8, <2>10
<1>8. CASE n \notin {o} \cup Makers(plan)
  <2>1. FillsOf(n)' = FillsOf(n)
    BY <1>4, <1>5, <1>8
  <2>2. order'[n] = order[n]
    BY <1>1, <1>8 DEF RowsMatched
  <2> QED BY <2>1, <2>2 DEF Inv, FillsConserved
<1> QED BY <1>6, <1>7, <1>8

\* The rows that a match adds are of its own fills.
LEMMA PlanRowsFacts ==
    ASSUME NEW o, NEW plan
    PROVE  /\ \A r \in PlanRows(o, plan) : r.fill \in PlanFills(o, plan)
           /\ \A f \in PlanFills(o, plan) : \A side \in Sides :
                 [fill |-> f, side |-> side] \in PlanRows(o, plan) <=> side = "buy" \/ ~ KeysCollide(f)
<1>1. ASSUME NEW f
      PROVE  /\ \A r \in PendingRows(f) : r.fill = f
             /\ \A side \in Sides : [fill |-> f, side |-> side] \in PendingRows(f)
                                       <=> side = "buy" \/ ~ KeysCollide(f)
  <2>1. \A r : r \in PendingRows(f) <=>
                  \E t \in Sides : (t = "buy" \/ ~ KeysCollide(f)) /\ r = [fill |-> f, side |-> t]
    BY DEF PendingRows
  <2>2. \A t, u : [fill |-> f, side |-> t] = [fill |-> f, side |-> u] => t = u
    OBVIOUS
  <2> QED BY <2>1, <2>2
<1>2. \A r : r \in PlanRows(o, plan) <=> \E f \in PlanFills(o, plan) : r \in PendingRows(f)
  BY DEF PlanRows
<1>3. \A r \in PlanRows(o, plan) : r.fill \in PlanFills(o, plan)
  BY <1>1, <1>2
<1>4. ASSUME NEW f \in PlanFills(o, plan), NEW side \in Sides
      PROVE  [fill |-> f, side |-> side] \in PlanRows(o, plan) <=> side = "buy" \/ ~ KeysCollide(f)
  <2>1. PICK r : r = [fill |-> f, side |-> side]
    OBVIOUS
  <2>2. r.fill = f
    BY <2>1
  <2>3. r \in PlanRows(o, plan) <=> r \in PendingRows(f)
    BY <1>1, <1>2, <2>2
  <2> QED BY <1>1, <2>1, <2>3
<1> QED BY <1>3, <1>4

\* The fills that a match adds: new ones, all of o, one of each maker.
LEMMA MatchedFills ==
    ASSUME Inv, NEW o, NEW plan, Matched(o, plan)
    PROVE  /\ FillsOf(o)' = PlanFills(o, plan)
           /\ \A f \in PlanFills(o, plan) : f \notin fills /\ f.taker = o
           /\ \A m \in Makers(plan) : \E f \in FillsOf(m)' : f.taker # m
           /\ \A n : FillsOf(n)' = FillsOf(n) \cup {f \in PlanFills(o, plan) : n \in {f.buy, f.sell}}
           /\ \A n : n \notin {o} \cup Makers(plan) => FillsOf(n)' = FillsOf(n)
<1>1. /\ o \in Orders /\ FillsOf(o) = {} /\ FillsOfPlan(o, plan)
      /\ \A m \in Makers(plan) : m # o
      /\ fills' = fills \cup PlanFills(o, plan)
  BY DEF Matched, PlanFits, HasRow, Inv, FillsConserved, RowsMatched
<1>2. PICK pf : pf = PlanFills(o, plan)
  OBVIOUS
<1>3. \A n : FillsOf(n)' = FillsOf(n) \cup {f \in pf : n \in {f.buy, f.sell}}
  BY <1>1, <1>2 DEF FillsOf
<1>4. \A f \in pf : f.taker = o /\ \E m \in Makers(plan) : {f.buy, f.sell} = {o, m}
  BY <1>1, <1>2 DEF FillsOfPlan
<1>5. \A f \in pf : o \in {f.buy, f.sell}
  <2> TAKE f \in pf
  <2>1. PICK m \in Makers(plan) : {f.buy, f.sell} = {o, m}
    BY <1>4
  <2> QED BY <2>1
<1>6. FillsOf(o)' = pf
  <2>1. {f \in pf : o \in {f.buy, f.sell}} = pf
    BY <1>5
  <2>2. FillsOf(o)' = FillsOf(o) \cup {f \in pf : o \in {f.buy, f.sell}}
    BY <1>3
  <2> QED BY <1>1, <2>1, <2>2
<1>7. \A f \in pf : f \notin fills
  BY <1>1, <1>5 DEF FillsOf
<1>8. ASSUME NEW m \in Makers(plan)
      PROVE  \E f \in FillsOf(m)' : f.taker # m
  <2>1. PICK f \in pf : m \in {f.buy, f.sell}
    BY <1>1, <1>2 DEF FillsOfPlan
  <2>2. f \in FillsOf(m)' /\ f.taker = o
    BY <1>3, <1>4, <2>1
  <2> QED BY <1>1, <2>2
<1>9. ASSUME NEW n, n \notin {o} \cup Makers(plan)
      PROVE  FillsOf(n)' = FillsOf(n)
  BY <1>3, <1>4, <1>9
<1> QED BY <1>2, <1>3, <1>4, <1>6, <1>7, <1>8, <1>9

\* A match with a reservation plan keeps the pending rows exact.
LEMMA MatchedPending ==
    ASSUME Inv, NEW o, NEW plan, Matched(o, plan),
           pending' = pending \cup PlanRows(o, plan), unledgered' = unledgered
    PROVE  (\A r \in pending : r.fill \in fills)' /\ PendingIsExact'
<1>1. /\ \A r \in pending : r.fill \in fills
      /\ \A n \in Orders \ unledgered : Reserved(n) = {f \in FillsOf(n) : ~ LosesRow(n, f)}
  BY DEF Inv, LedgerFits, PendingIsExact
<1>2. fills' = fills \cup PlanFills(o, plan)
  BY DEF Matched, RowsMatched
<1>3. /\ \A f \in PlanFills(o, plan) : f \notin fills
      /\ \A n : FillsOf(n)' = FillsOf(n) \cup {f \in PlanFills(o, plan) : n \in {f.buy, f.sell}}
  BY MatchedFills
<1>4. /\ \A r \in PlanRows(o, plan) : r.fill \in PlanFills(o, plan)
      /\ \A f \in PlanFills(o, plan) : \A side \in Sides :
            [fill |-> f, side |-> side] \in PlanRows(o, plan) <=> side = "buy" \/ ~ KeysCollide(f)
  BY PlanRowsFacts
<1>5. \A r \in pending' : r.fill \in fills'
  BY <1>1, <1>2, <1>4
<1>6. ASSUME NEW n \in Orders \ unledgered, NEW f \in FillsOf(n)'
      PROVE  [fill |-> f, side |-> Terms[n].side] \in pending' <=> ~ LosesRow(n, f)
  <2>1. PICK r : r = [fill |-> f, side |-> Terms[n].side]
    OBVIOUS
  <2>2. r.fill = f /\ Terms[n].side \in Sides
    BY <2>1, TermFacts
  <2>3. CASE f \in PlanFills(o, plan)
    <3>1. r \notin pending
      BY <1>1, <1>3, <2>2, <2>3
    <3>2. r \in PlanRows(o, plan) <=> Terms[n].side = "buy" \/ ~ KeysCollide(f)
      BY <1>4, <2>1, <2>2, <2>3
    <3> QED BY <2>1, <2>2, <3>1, <3>2 DEF LosesRow, Sides
  <2>4. CASE f \notin PlanFills(o, plan)
    <3>1. f \in FillsOf(n) /\ r \notin PlanRows(o, plan)
      BY <1>3, <1>4, <1>6, <2>2, <2>4
    <3>2. f \in Reserved(n) <=> ~ LosesRow(n, f)
      BY <1>1, <3>1
    <3>3. f \in Reserved(n) <=> r \in pending
      BY <2>1, <3>1 DEF Reserved
    <3> QED BY <2>1, <3>1, <3>2, <3>3
  <2> QED BY <2>3, <2>4
<1>7. \A n \in Orders \ unledgered : Reserved(n)' = {f \in FillsOf(n)' : ~ LosesRow(n, f)}
  <2> TAKE n \in Orders \ unledgered
  <2>1. Reserved(n)' = {f \in FillsOf(n)' : [fill |-> f, side |-> Terms[n].side] \in pending'}
    BY DEF Reserved
  <2> QED BY <1>6, <2>1
<1>8. PendingIsExact'
  BY <1>7 DEF PendingIsExact
<1> QED BY <1>5, <1>8

LEMMA MatchedLedger ==
    ASSUME Inv, NEW o, NEW plan, Matched(o, plan)
    PROVE  LedgerFits' /\ HoldsAreExplained'
<1>1. /\ o \in Orders /\ RowsMatched(o, plan) /\ LedgerMatched(o, plan)
      /\ \A m \in Makers(plan) : m \in Orders \ {o} /\ IsLive(m)
      /\ UNCHANGED <<releasing, unreleased>>
  BY DEF Matched
<1>2. /\ \A m \in Makers(plan) :
            /\ order'[m].remaining \in Nat /\ HasRow(m)'
            /\ order'[m].status \in Live <=> order'[m].remaining > 0
      /\ \A n \in Orders \ ({o} \cup Makers(plan)) : order'[n] = order[n]
      /\ fills' = fills \cup PlanFills(o, plan)
      /\ HasRow(o)' /\ (order'[o].status \in Live => plan.left > 0)
  BY <1>1 DEF RowsMatched
<1>3. /\ \A r \in pending : r.fill \in fills
      /\ \A n \in Orders \ unledgered : Reserved(n) = {f \in FillsOf(n) : ~ LosesRow(n, f)}
      /\ \A n \in Orders \ unledgered : IsLive(n) \/ hold[n] > 0 => hold[n] = HoldFor(n)
      /\ hold \in [Orders -> Nat]
  BY DEF Inv, LedgerFits, PendingIsExact, HoldsAreExact, Types
<1>4. /\ FillsOf(o)' = PlanFills(o, plan)
      /\ \A f \in PlanFills(o, plan) : f.taker = o
      /\ \A m \in Makers(plan) : \E f \in FillsOf(m)' : f.taker # m
      /\ \A n : n \notin {o} \cup Makers(plan) => FillsOf(n)' = FillsOf(n)
  BY MatchedFills
<1>5. ASSUME NEW n \in Orders, n \notin {o} \cup Makers(plan), n \notin unledgered, hold'[n] = hold[n]
      PROVE  /\ IsLive(n)' \/ hold'[n] > 0 => hold'[n] = HoldFor(n)'
             /\ hold'[n] > 0 => \/ IsLive(n)'
                                \/ n \in releasing' \cup unreleased'
                                \/ order'[n] # None /\ order'[n].status = "expired"
  <2>1. order'[n] = order[n] /\ (IsLive(n)' <=> IsLive(n))
    BY <1>2, <1>5 DEF IsLive
  <2>2. HoldFor(n)' = HoldFor(n)
    BY <1>4, <1>5, <2>1 DEF HoldFor
  <2>3. releasing' \cup unreleased' = releasing \cup unreleased
    BY <1>1
  <2> QED BY <1>3, <1>5, <2>1, <2>2, <2>3 DEF Inv, HoldsAreExplained
<1>6. CASE /\ hold'[o] = IF order'[o].status \in Live /\ plan.left > 0 THEN Terms[o].size ELSE 0
           /\ \A m \in Makers(plan) : hold'[m] = IF hold[m] = 0 THEN 0 ELSE order'[m].remaining
           /\ \A n \in Orders \ ({o} \cup Makers(plan)) : hold'[n] = hold[n]
           /\ pending' = pending \cup PlanRows(o, plan) /\ unledgered' = unledgered
  <2>1. (\A r \in pending : r.fill \in fills)' /\ PendingIsExact'
    BY <1>6, MatchedPending
  <2>2. ASSUME NEW n \in Orders, n \notin unledgered
        PROVE  /\ IsLive(n)' \/ hold'[n] > 0 => hold'[n] = HoldFor(n)'
               /\ hold'[n] > 0 => \/ IsLive(n)'
                                  \/ n \in releasing' \cup unreleased'
                                  \/ order'[n] # None /\ order'[n].status = "expired"
    <3>1. CASE n = o
      <4>1. HoldFor(o)' = Terms[o].size
        BY <1>4 DEF HoldFor
      <4>2. IsLive(o)' <=> order'[o].status \in Live
        BY <1>2 DEF IsLive, HasRow
      <4>3. CASE order'[o].status \in Live
        <5>1. hold'[o] = Terms[o].size
          BY <1>2, <1>6, <4>3
        <5> QED BY <3>1, <4>1, <4>2, <4>3, <5>1
      <4>4. CASE order'[o].status \notin Live
        <5>1. hold'[o] = 0
          BY <1>6, <4>4
        <5> QED BY <3>1, <4>2, <4>4, <5>1
      <4> QED BY <4>3, <4>4
    <3>2. CASE n \in Makers(plan)
      <4>1. hold[n] # 0
        <5>1. IsLive(n) /\ hold[n] = HoldFor(n)
          BY <1>1, <1>3, <2>2, <3>2
        <5>2. order[n].remaining > 0 /\ order[n].remaining \in Nat
          BY <5>1 DEF Inv, Types, OrderRow, StatusFits, IsLive, HasRow
        <5>3. Terms[n].size > 0 /\ Terms[n].size \in Nat
          BY TermFacts
        <5>4. HoldFor(n) \in {order[n].remaining, Terms[n].size}
          BY DEF HoldFor
        <5> QED BY <5>1, <5>2, <5>3, <5>4
      <4>2. hold'[n] = order'[n].remaining /\ order'[n].remaining \in Nat
        BY <1>2, <1>6, <3>2, <4>1
      <4>3. HoldFor(n)' = order'[n].remaining
        BY <1>4, <3>2 DEF HoldFor
      <4>4. IsLive(n)' <=> order'[n].remaining > 0
        BY <1>2, <3>2 DEF IsLive, HasRow
      <4> QED BY <4>2, <4>3, <4>4
    <3>3. CASE n \notin {o} \cup Makers(plan)
      BY <1>5, <1>6, <2>2, <3>3
    <3> QED BY <3>1, <3>2, <3>3
  <2>3. HoldsAreExact'
    BY <1>6, <2>2 DEF HoldsAreExact
  <2>4. HoldsAreExplained'
    BY <1>6, <2>2 DEF HoldsAreExplained
  <2> QED BY <2>1, <2>3, <2>4 DEF LedgerFits
<1>7. CASE /\ hold' = hold /\ pending' = pending
           /\ unledgered' = unledgered \cup {o} \cup Makers(plan)
  <2>1. \A r \in pending' : r.fill \in fills'
    BY <1>2, <1>3, <1>7
  <2>2. ASSUME NEW n \in Orders, n \notin unledgered'
        PROVE  n \notin {o} \cup Makers(plan) /\ n \notin unledgered /\ hold'[n] = hold[n]
    BY <1>7, <2>2
  <2>3. PendingIsExact'
    <3>1. \A n \in Orders \ unledgered' : FillsOf(n)' = FillsOf(n) /\ Reserved(n)' = Reserved(n)
      BY <1>4, <1>7, <2>2 DEF Reserved
    <3> QED BY <1>3, <2>2, <3>1 DEF PendingIsExact
  <2>4. HoldsAreExact'
    BY <1>5, <2>2 DEF HoldsAreExact
  <2>5. HoldsAreExplained'
    BY <1>5, <2>2 DEF HoldsAreExplained
  <2> QED BY <2>1, <2>3, <2>4, <2>5 DEF LedgerFits
<1> QED BY <1>1, <1>6, <1>7 DEF LedgerMatched

LEMMA MatchedUncrossed ==
    ASSUME Inv, NEW o, NEW plan, Matched(o, plan)
    PROVE  CrossedOnlyByOverlap'
<1>1. /\ o \in Orders /\ ~ HasRow(o) /\ At(o) = "reading" /\ PlanFits(plan, o, LockedRows(o), Age)
      /\ snapshot' = snapshot /\ RowsMatched(o, plan)
  BY DEF Matched
<1>2. \A n \in Orders : IsLive(n)' => IsLive(n) \/ n = o
  BY MatchedRows
<1>3. ASSUME NEW n \in Orders, n # o, IsLive(n)', Crosses(o, n), IsLive(o)'
      PROVE  n \notin DOMAIN snapshot[o]
  <2> SUFFICES ASSUME n \in DOMAIN snapshot[o]
               PROVE  FALSE
    OBVIOUS
  <2>1. IsLive(n)
    BY <1>2, <1>3
  <2>2. n \in DOMAIN LockedRows(o) /\ LockedRows(o)[n] = order[n] /\ order[n].remaining > 0
    BY <1>1, <2>1, LockedFacts
  <2>3. n \in CanMatchSet(o, LockedRows(o))
    BY <1>3, <2>1, <2>2 DEF CanMatchSet, CanMatch, IsLive
  <2>4. plan.left > 0
    BY <1>1, <1>3 DEF RowsMatched, IsLive
  <2>5. n \in Makers(plan) /\ Taken(plan, n) = order[n].remaining
    BY <1>1, <2>2, <2>3, <2>4 DEF PlanFits, TakenUp
  <2>6. /\ order[n].remaining \in Nat /\ order'[n].remaining = order[n].remaining - Taken(plan, n)
        /\ order'[n].status \in Live <=> order'[n].remaining > 0
    BY <1>1, <2>5 DEF RowsMatched
  <2>7. ~ (order'[n].remaining > 0)
    BY <2>5, <2>6
  <2> QED BY <1>3, <2>6, <2>7 DEF IsLive
<1>4. \A n \in Orders : o \notin DOMAIN snapshot[n]
  BY <1>1 DEF Inv, SnapshotsFit
<1> SUFFICES ASSUME NEW b \in Orders, NEW s \in Orders, IsLive(b)', IsLive(s)',
                    Terms[b].side = "buy", Terms[s].side = "sell", Terms[b].price >= Terms[s].price
             PROVE  s \notin DOMAIN snapshot[b] /\ b \notin DOMAIN snapshot[s]
  BY <1>1 DEF CrossedOnlyByOverlap
<1>5. Crosses(b, s) /\ Crosses(s, b) /\ b # s
  <2>1. PICK p, q : p = Terms[b].price /\ q = Terms[s].price
    OBVIOUS
  <2>2. p \in Nat /\ q \in Nat /\ p >= q
    BY <2>1, TermFacts
  <2>3. ~ (p < q) /\ ~ (q > p)
    BY <2>2
  <2> QED BY <2>1, <2>3 DEF Crosses, Better
<1>6. CASE b = o
  BY <1>3, <1>4, <1>5, <1>6
<1>7. CASE s = o
  BY <1>3, <1>4, <1>5, <1>7
<1>8. CASE b # o /\ s # o
  BY <1>2, <1>8 DEF Inv, CrossedOnlyByOverlap
<1> QED BY <1>6, <1>7, <1>8

LEMMA SubmitKeeps ==
    ASSUME Inv, NEW o \in Orders, SubmitAndMatch(o)
    PROVE  Inv'
<1>1. PICK plan : Matched(o, plan)
  BY SubmitMatches
<1> QED BY <1>1, MatchedRows, MatchedConserves, MatchedLedger, MatchedUncrossed DEF Inv

-----------------------------------------------------------------------------
(* The theorems.                                                           *)

LEMMA StepKeeps == Inv /\ [Next]_vars => Inv'
<1> SUFFICES ASSUME Inv, [Next]_vars
             PROVE  Inv'
  OBVIOUS
<1>1. ASSUME NEW o \in Orders,
             \/ Arrive(o) \/ ReadOppositeSide(o) \/ RefuseByTif(o) \/ SubmitAndMatch(o)
             \/ CreateIntent(o) \/ Cancel(o) \/ ReleaseHold(o) \/ DeadlinePasses(o)
      PROVE  Inv'
  BY <1>1, ArriveKeeps, ReadKeeps, RefuseKeeps, SubmitKeeps, CreateIntentKeeps, CancelKeeps,
     ReleaseKeeps, DeadlineKeeps
<1>2. CASE SweepExpired
  BY <1>2, SweepKeeps
<1>3. CASE Crash
  BY <1>3, CrashKeeps
<1>4. CASE UNCHANGED vars
  BY <1>4, StutterKeeps
<1> QED BY <1>1, <1>2, <1>3, <1>4 DEF Next

(***************************************************************************)
(* The inductive invariant holds in every state of the options matcher.    *)
(***************************************************************************)
THEOREM Invariant == Spec => []Inv
<1>1. Init => Inv
  BY InitHolds
<1>2. Inv /\ [Next]_vars => Inv'
  BY StepKeeps
<1> QED BY <1>1, <1>2, PTL DEF Spec

(***************************************************************************)
(* However submissions, cancels, expiry and crashes interleave, the fills  *)
(* of an order and what its row has left add up to its size               *)
(* (submit_option_order_and_match_with_reservations).                      *)
(***************************************************************************)
THEOREM FillsConservedCorrect == Spec => []FillsConserved
<1>1. Inv => FillsConserved
  BY DEF Inv
<1> QED BY <1>1, Invariant, PTL

(***************************************************************************)
(* The book is crossed only between submissions that overlapped, whatever  *)
(* the orders and however many (the FOR UPDATE read of the opposite side). *)
(***************************************************************************)
THEOREM CrossedOnlyByOverlapCorrect == Spec => []CrossedOnlyByOverlap
<1>1. Inv => CrossedOnlyByOverlap
  BY DEF Inv
<1> QED BY <1>1, Invariant, PTL

(***************************************************************************)
(* The reservation ledger follows the book through partial fills, cancels, *)
(* expiry, failed releases and crashes, in a put and in a call series: the *)
(* holds and the pending rows are exactly the ones the code means to write *)
(* less the seller's row of a trade of an account with itself, every order *)
(* whose fills kept their rows is covered, and no hold is left but the     *)
(* ones the code leaves (insert_pending_settlement_reservation_tx).        *)
(***************************************************************************)
THEOREM LedgerFollowsBookCorrect == Spec => []LedgerFollowsBook
<1>1. ASSUME Inv
      PROVE  LedgerFollowsBook
  <2>1. HoldsAreExplained /\ PendingIsExact /\ HoldsAreExact
    BY <1>1 DEF Inv, LedgerFits
  <2>2. ASSUME NEW o \in Orders \ unledgered, order[o] # None, order[o].status \in Live \cup {"filled"},
               \A f \in FillsOf(o) : ~ LosesRow(o, f)
        PROVE  hold[o] + Traded(Reserved(o)) >= Terms[o].size
    <3>1. Reserved(o) = FillsOf(o)
      BY <2>1, <2>2 DEF PendingIsExact
    <3>2. PICK h, r, z : h = hold[o] /\ r = order[o].remaining /\ z = Traded(FillsOf(o))
      OBVIOUS
    <3>3. r + z = Terms[o].size
      BY <1>1, <2>2, <3>2 DEF Inv, FillsConserved
    <3>4. h \in Nat /\ r \in Nat
      BY <1>1, <2>2, <3>2 DEF Inv, Types, OrderRow
    <3>5. z \in Nat
      <4>1. fills \subseteq Fill /\ IsFiniteSet(fills) /\ FillsOf(o) \subseteq fills
        BY <1>1 DEF Inv, Types, FillsOf
      <4>2. IsFiniteSet(FillsOf(o)) /\ \A f \in FillsOf(o) : f.size \in Nat
        BY <4>1, FS_Subset DEF Fill
      <4> QED BY <3>2, <4>2, TradedFacts
    <3>6. h >= r
      <4>1. CASE order[o].status \in Live
        <5>1. h = HoldFor(o)
          BY <2>1, <2>2, <3>2, <4>1 DEF HoldsAreExact, IsLive
        <5>2. h = r \/ h = Terms[o].size
          BY <3>2, <5>1 DEF HoldFor
        <5> QED BY <3>3, <3>4, <3>5, <5>2
      <4>2. CASE order[o].status = "filled"
        <5>1. r = 0
          BY <1>1, <2>2, <3>2, <4>2 DEF Inv, StatusFits, HasRow
        <5> QED BY <3>4, <5>1
      <4> QED BY <2>2, <4>1, <4>2
    <3>7. h + z >= Terms[o].size
      BY <3>3, <3>4, <3>5, <3>6
    <3> QED BY <3>1, <3>2, <3>7
  <2> QED BY <2>1, <2>2 DEF LedgerFollowsBook, NeverUnderReserved
<1> QED BY <1>1, Invariant, PTL

(***************************************************************************)
(* No step gives a maker a fill while a maker of the taker's locked rows   *)
(* that ranks before it, by price and then by arrival, is left unfilled    *)
(* (sort_option_match_candidates, build_option_match_plan).                *)
(***************************************************************************)
THEOREM PriorityKeptCorrect == Spec => PriorityKept
<1> DEFINE A == \A f \in fills' \ fills :
        LET o == f.taker
            m == IF f.buy = o THEN f.sell ELSE f.buy
            First(n) == \/ Better(o, Terms[n].price, Terms[m].price)
                        \/ Terms[n].price = Terms[m].price /\ Age[n] < Age[m]
        IN  \A n \in DOMAIN LockedRows(o) :
                Crosses(o, n) /\ First(n) => order[n]'.remaining = 0
<1>1. ASSUME Inv, [Next]_vars
      PROVE  A
  <2>1. ASSUME NEW o \in Orders, SubmitAndMatch(o)
        PROVE  A
    <3>1. PICK plan : Matched(o, plan)
      BY <1>1, <2>1, SubmitMatches
    <3>2. /\ At(o) = "reading" /\ PlanFits(plan, o, LockedRows(o), Age) /\ RowsMatched(o, plan)
          /\ \A m \in Makers(plan) : m # o
      BY <3>1 DEF Matched
    <3>3. ASSUME NEW f \in fills' \ fills, NEW m, m = IF f.buy = f.taker THEN f.sell ELSE f.buy,
                 NEW n \in DOMAIN LockedRows(f.taker), Crosses(f.taker, n),
                 RanksBefore(f.taker, n, m, Age)
          PROVE  order'[n].remaining = 0
      <4>1. f \in PlanFills(o, plan)
        BY <3>2, <3>3 DEF RowsMatched
      <4>2. f.taker = o /\ m \in Makers(plan)
        <5>1. f.taker = o /\ \E l \in Makers(plan) : {f.buy, f.sell} = {o, l}
          BY <3>2, <4>1 DEF PlanFits, FillsOfPlan
        <5>2. PICK l \in Makers(plan) : {f.buy, f.sell} = {o, l}
          BY <5>1
        <5>3. l # o
          BY <3>2
        <5>4. PICK x, y : x = f.buy /\ y = f.sell
          OBVIOUS
        <5>5. {x, y} = {o, l} /\ m = IF x = o THEN y ELSE x
          BY <3>3, <5>1, <5>2, <5>4
        <5>6. m = l
          BY <5>3, <5>5
        <5> QED BY <5>1, <5>6
      <4>3. LockedRows(o)[n] = order[n] /\ IsLive(n) /\ order[n].remaining > 0
        BY <1>1, <3>2, <3>3, <4>2, LockedFacts
      <4>4. n \in CanMatchSet(o, LockedRows(o))
        BY <3>3, <4>2, <4>3 DEF CanMatchSet, CanMatch, IsLive
      <4>5. n \in Makers(plan) /\ Taken(plan, n) = order[n].remaining
        BY <3>2, <3>3, <4>2, <4>3, <4>4 DEF PlanFits, TakenUp
      <4>6. order[n].remaining \in Nat /\ order'[n].remaining = order[n].remaining - Taken(plan, n)
        BY <3>2, <4>5 DEF RowsMatched
      <4> QED BY <4>5, <4>6
    <3> QED BY <3>3 DEF RanksBefore
  <2>2. ASSUME fills' = fills
        PROVE  A
    BY <2>2
  <2>3. CASE \E o \in Orders : SubmitAndMatch(o)
    BY <2>1, <2>3
  <2>4. CASE ~ \E o \in Orders : SubmitAndMatch(o)
    <3>1. fills' = fills
      BY <1>1, <2>4 DEF Next, vars, Arrive, ReadOppositeSide, RefuseByTif, CreateIntent, Cancel,
                       ReleaseHold, DeadlinePasses, SweepExpired, Crash
    <3> QED BY <2>2, <3>1
  <2> QED BY <2>3, <2>4
<1>2. Spec => []Inv
  BY Invariant
<1> QED BY <1>1, <1>2, PTL DEF Spec, PriorityKept
=============================================================================
