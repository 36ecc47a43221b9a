---------------------------- MODULE NumberFacts ----------------------------
(***************************************************************************)
(* Facts about numbers, ranks, finite sets and sequences that the proofs   *)
(* of several components use.                                              *)
(***************************************************************************)
EXTENDS Integers, TLAPS, FiniteSetTheorems, SequenceTheorems, Functions

\* A non-empty set of natural numbers has a least element.
LEMMA LeastElement ==
    ASSUME NEW S, S \subseteq Nat, S # {}
    PROVE  \E x \in S : \A y \in S : x <= y
<1>1. PICK x \in S : \A y \in S : ~ (<<y, x>> \in OpToRel(<, Nat))
  BY NatLessThanWellFounded, WFMin
<1>2. \A y \in S : ~ (y < x)
  BY <1>1 DEF OpToRel
<1> QED BY <1>2

\* A non-empty set of numbers between 0 and M has a greatest element: what the
\* SELECT MAX of the nonce and epoch columns relies on.
LEMMA GreatestElement ==
    ASSUME NEW M \in Nat, NEW S, S \subseteq 0 .. M, S # {}
    PROVE  \E x \in S : \A y \in S : y <= x
<1> DEFINE D == {M - y : y \in S}
<1>1. PICK s \in S : TRUE
  OBVIOUS
<1>2. M - s \in D
  OBVIOUS
<1>3. \A d \in D : d \in Nat
  OBVIOUS
<1>4. D \subseteq Nat /\ D # {}
  BY <1>2, <1>3
<1>5. PICK x \in D : \A y \in D : x <= y
  BY <1>4, LeastElement
<1>6. PICK z \in S : x = M - z
  OBVIOUS
<1>7. \A y \in S : M - y \in D
  OBVIOUS
<1>8. \A y \in S : y <= z
  BY <1>5, <1>6, <1>7
<1> QED BY <1>8

\* Above m, a finite set P leaves a number free within |P| steps of m, and the
\* first one has only members of P before it: what a pending nonce is.
LEMMA FirstGap ==
    ASSUME NEW m \in Nat, NEW P, IsFiniteSet(P), NEW c \in Nat, Cardinality(P) <= c
    PROVE  \E n \in m .. m + c : n \notin P /\ m .. (n - 1) \subseteq P
<1> DEFINE Free == {n \in m .. m + c : n \notin P}
<1>1. Free # {}
  <2> SUFFICES ASSUME m .. m + c \subseteq P
               PROVE  FALSE
    OBVIOUS
  <2>1. Cardinality(m .. m + c) = c + 1
    BY FS_Interval, m <= m + c
  <2>2. Cardinality(m .. m + c) <= Cardinality(P)
    BY FS_Subset
  <2>3. Cardinality(P) \in Nat
    BY FS_CardinalityType
  <2> QED BY <2>1, <2>2, <2>3
<1>2. Free \subseteq Nat
  OBVIOUS
<1>3. PICK n \in Free : \A y \in Free : n <= y
  BY <1>1, <1>2, LeastElement
<1>4. \A y \in m .. (n - 1) : y \in m .. m + c /\ ~ (n <= y)
  OBVIOUS
<1>5. m .. (n - 1) \subseteq P
  BY <1>3, <1>4
<1> QED BY <1>5

\* Among finitely many elements with different ranks there is, for every k, one
\* with k - 1 smaller ones: the k-th row of an ordered query.
LEMMA RankExists ==
    ASSUME NEW S, IsFiniteSet(S), NEW f \in [S -> Nat],
           \A i, j \in S : f[i] = f[j] => i = j,
           NEW k \in 1 .. Cardinality(S)
    PROVE  \E i \in S : Cardinality({j \in S : f[j] < f[i]}) = k - 1
<1> DEFINE Below(i) == {j \in S : f[j] < f[i]}
           Missed == {n \in Nat : n < Cardinality(S) /\ \A i \in S : Cardinality(Below(i)) # n}
<1>1. Cardinality(S) \in Nat
  BY FS_CardinalityType
<1>2. SUFFICES Missed = {}
  BY <1>1, k - 1 \in Nat, k - 1 < Cardinality(S)
<1>3. SUFFICES ASSUME Missed # {}
               PROVE  FALSE
  OBVIOUS
<1>4. PICK n \in Missed : \A m \in Missed : n <= m
  <2> HIDE DEF Below
  <2> QED BY <1>3, LeastElement
<1>5. ASSUME NEW T \in SUBSET S, T # {}
      PROVE  \E i \in T : \A j \in T : f[i] <= f[j]
  <2> DEFINE V == {f[j] : j \in T}
  <2>0. PICK t \in T : TRUE
    BY <1>5
  <2>1. V \subseteq Nat /\ V # {}
    <3>1. \A j \in T : f[j] \in Nat
      OBVIOUS
    <3>2. f[t] \in V
      OBVIOUS
    <3> QED BY <3>1, <3>2
  <2>2. PICK v \in V : \A w \in V : v <= w
    BY <2>1, LeastElement
  <2> QED BY <2>2
<1>6. CASE n = 0
  <2>1. S # {}
    BY <1>4, <1>6, FS_EmptySet
  <2>2. PICK i \in S : \A j \in S : f[i] <= f[j]
    BY <2>1, <1>5
  <2>3. Below(i) = {}
    BY <2>2
  <2> QED BY <2>3, <1>4, <1>6, FS_EmptySet
<1>7. CASE n # 0
  <2>1. n - 1 \in Nat /\ n - 1 < Cardinality(S) /\ n - 1 \notin Missed
    <3> HIDE DEF Below
    <3> QED BY <1>1, <1>4, <1>7
  <2>2. PICK i \in S : Cardinality(Below(i)) = n - 1
    BY <2>1
  <2> DEFINE Upto == Below(i) \cup {i}
  <2>3. IsFiniteSet(Below(i)) /\ i \notin Below(i)
    BY FS_Subset
  <2>4. IsFiniteSet(Upto) /\ Cardinality(Upto) = n
    <3> DEFINE B == Below(i)
    <3>1. IsFiniteSet(B) /\ i \notin B /\ Cardinality(B) = n - 1 /\ n \in Nat
      BY <2>2, <2>3, <1>4
    <3> HIDE DEF B
    <3>2. IsFiniteSet(B \cup {i}) /\ Cardinality(B \cup {i}) = Cardinality(B) + 1
      BY <3>1, FS_AddElement, Zenon
    <3>3. Cardinality(B) + 1 = n
      BY <3>1
    <3> QED BY <3>2, <3>3 DEF B
  <2>5. S \ Upto # {}
    <3>1. Upto \subseteq S
      OBVIOUS
    <3>2. Upto # S
      <4> HIDE DEF Upto
      <4> QED BY <2>4, <1>4, <1>1
    <3> QED BY <3>1, <3>2
  <2>6. PICK s \in S \ Upto : \A j \in S \ Upto : f[s] <= f[j]
    BY <2>5, <1>5
  <2>7. f[i] < f[s]
    <3>1. ~ (f[s] < f[i]) /\ s # i
      OBVIOUS
    <3> QED BY <3>1
  <2>8. Below(s) = Upto
    <3>1. ASSUME NEW j \in Below(s)
          PROVE  j \in Upto
      BY <2>6
    <3>2. ASSUME NEW j \in Upto
          PROVE  j \in Below(s)
      BY <2>7
    <3> QED BY <3>1, <3>2
  <2> QED
    <3> HIDE DEF Below, Upto
    <3> QED BY <2>4, <2>8, <1>4
<1> QED BY <1>6, <1>7

\* The image of a finite set under a function is finite and not larger.
LEMMA ImageIsSmaller ==
    ASSUME NEW S, IsFiniteSet(S), NEW T, NEW f \in [S -> T], \A y \in T : \E x \in S : f[x] = y
    PROVE  IsFiniteSet(T) /\ Cardinality(T) <= Cardinality(S)
<1>1. f \in Surjection(S, T)
  BY DEF Surjection
<1> QED BY <1>1, FS_Surjection

\* What is left of a queue when its head is done.
LEMMA TailFacts ==
    ASSUME NEW S, NEW s \in Seq(S), s # <<>>
    PROVE  /\ Tail(s) \in Seq(S)
           /\ Len(s) # 1 => Tail(s) # <<>>
           /\ \A k \in DOMAIN Tail(s) : k + 1 \in DOMAIN s /\ Tail(s)[k] = s[k + 1]
<1>1. Len(s) \in Nat /\ Len(s) >= 1
  BY EmptySeq
<1>2. Tail(s) \in Seq(S) /\ Len(Tail(s)) = Len(s) - 1
  BY <1>1
<1>3. Len(s) # 1 => Tail(s) # <<>>
  BY <1>1, <1>2
<1>4. \A k \in DOMAIN Tail(s) : k + 1 \in DOMAIN s /\ Tail(s)[k] = s[k + 1]
  BY <1>1, <1>2
<1> QED BY <1>2, <1>3, <1>4

\* Induction over the numbers, for a set in place of a predicate.
LEMMA EveryNumber ==
    ASSUME NEW S, 0 \in S, \A n \in Nat : n \in S => n + 1 \in S
    PROVE  \A n \in Nat : n \in S
<1> DEFINE T == {k \in Nat : k \notin S}
<1>1. SUFFICES ASSUME T # {}
               PROVE  FALSE
  OBVIOUS
<1>2. PICK x \in T : \A y \in T : x <= y
  BY <1>1, LeastElement
<1>3. x # 0 /\ x - 1 \in Nat /\ x - 1 \notin T
  BY <1>2
<1> QED BY <1>3

\* Induction over the subsets of a finite set.
LEMMA EverySubset ==
    ASSUME NEW S, IsFiniteSet(S), NEW Good,
           \A T \in SUBSET S : (\A U \in SUBSET T : U # T => U \in Good) => T \in Good
    PROVE  \A T \in SUBSET S : T \in Good
<1> DEFINE Sizes == {Cardinality(T) : T \in {R \in SUBSET S : R \notin Good}}
<1>1. \A T \in SUBSET S : IsFiniteSet(T) /\ Cardinality(T) \in Nat
  BY FS_Subset, FS_CardinalityType
<1>2. SUFFICES ASSUME NEW R \in SUBSET S, R \notin Good
               PROVE  FALSE
  OBVIOUS
<1>3. Cardinality(R) \in Sizes /\ Sizes \subseteq Nat
  BY <1>1, <1>2
<1>4. PICK n \in Sizes : \A m \in Sizes : n <= m
  <2> HIDE DEF Sizes
  <2> QED BY <1>3, LeastElement
<1>5. PICK T \in SUBSET S : T \notin Good /\ Cardinality(T) = n
  BY <1>4
<1>6. ASSUME NEW U \in SUBSET T, U # T
      PROVE  U \in Good
  <2>1. Cardinality(U) < Cardinality(T)
    BY <1>1, <1>6, FS_Subset
  <2>2. U \in SUBSET S /\ Cardinality(U) \in Nat /\ n \in Nat
    BY <1>1, <1>5
  <2> QED BY <1>4, <1>5, <2>1, <2>2
<1> QED BY <1>5, <1>6

(***************************************************************************)
(* Sums over finite sets.  SumFunctionOnSet is a fold, a recursive         *)
(* function over the subsets of its index set: it exists because the index *)
(* set is finite, and its equation follows.                                *)
(***************************************************************************)
AnyOf(s) == CHOOSE x \in s : TRUE

IsSum(it, f, S) ==
    it = [s \in SUBSET S |-> IF s = {} THEN 0 ELSE f[AnyOf(s)] + it[s \ {AnyOf(s)}]]

LEMMA SumExists ==
    ASSUME NEW S, IsFiniteSet(S), NEW f
    PROVE  \E it : IsSum(it, f, S)
<1> DEFINE Upto(n) == {s \in SUBSET S : Cardinality(s) <= n}
           Body(it, s) == IF s = {} THEN 0 ELSE f[AnyOf(s)] + it[s \ {AnyOf(s)}]
           Good == {n \in Nat : \E it : it = [s \in Upto(n) |-> Body(it, s)]}
<1>1. \A T \in SUBSET S : IsFiniteSet(T) /\ Cardinality(T) \in Nat
  BY FS_Subset, FS_CardinalityType
<1>2. ASSUME NEW T \in SUBSET S, T # {}
      PROVE  /\ AnyOf(T) \in T /\ T \ {AnyOf(T)} \in SUBSET S
             /\ Cardinality(T \ {AnyOf(T)}) = Cardinality(T) - 1
  <2>1. AnyOf(T) \in T
    BY <1>2 DEF AnyOf
  <2> QED BY <1>1, <2>1, FS_RemoveElement
<1>3. 0 \in Good
  <2> DEFINE g == [s \in Upto(0) |-> 0]
  <2>1. \A s \in Upto(0) : s = {}
    BY <1>1, FS_EmptySet
  <2>2. g = [s \in Upto(0) |-> Body(g, s)]
    BY <2>1
  <2>3. \E it : it = [s \in Upto(0) |-> Body(it, s)]
    BY <2>2
  <2> QED BY <2>3
<1>4. ASSUME NEW n \in Nat, n \in Good
      PROVE  n + 1 \in Good
  <2>1. PICK h : h = [s \in Upto(n) |-> Body(h, s)]
    BY <1>4
  <2> DEFINE g == [s \in Upto(n + 1) |-> IF s \in Upto(n) THEN h[s] ELSE Body(h, s)]
  <2>2. ASSUME NEW s \in Upto(n + 1), s # {}
        PROVE  s \ {AnyOf(s)} \in Upto(n) /\ s \ {AnyOf(s)} \in Upto(n + 1)
    BY <1>1, <1>2, <2>2
  <2>3. \A s \in Upto(n + 1) : g[s] = Body(g, s)
    BY <2>1, <2>2
  <2>4. g = [s \in Upto(n + 1) |-> Body(g, s)]
    BY <2>3, Zenon
  <2> HIDE DEF Body, Upto, g
  <2>5. \E it : it = [s \in Upto(n + 1) |-> Body(it, s)]
    BY <2>4
  <2> QED BY <2>5
<1>5. \A n \in Nat : n \in Good
  <2> HIDE DEF Good
  <2> QED BY <1>3, <1>4, EveryNumber
<1>6. PICK it : it = [s \in Upto(Cardinality(S)) |-> Body(it, s)]
  BY <1>1, <1>5
<1>7. Upto(Cardinality(S)) = SUBSET S
  BY <1>1, FS_Subset
<1> QED BY <1>6, <1>7 DEF IsSum

LEMMA SumIsSum ==
    ASSUME NEW S, IsFiniteSet(S), NEW f
    PROVE  \E it : IsSum(it, f, S) /\ SumFunctionOnSet(f, S) = it[S]
<1> DEFINE it == CHOOSE it : IsSum(it, f, S)
<1>1. IsSum(it, f, S)
  BY SumExists
<1>2. SumFunctionOnSet(f, S) = it[S]
  BY DEF SumFunctionOnSet, FoldFunctionOnSet, MapThenFoldSet, IsSum, AnyOf
<1> QED BY <1>1, <1>2

LEMMA SumEmpty ==
    ASSUME NEW f
    PROVE  SumFunctionOnSet(f, {}) = 0
<1>1. IsFiniteSet({})
  BY FS_EmptySet
<1>2. PICK it : IsSum(it, f, {}) /\ SumFunctionOnSet(f, {}) = it[{}]
  BY <1>1, SumIsSum
<1>3. {} \in SUBSET {}
  OBVIOUS
<1> QED BY <1>2, <1>3 DEF IsSum

\* The sum only depends on the index set and on the values there.
LEMMA SumAgrees ==
    ASSUME NEW S, IsFiniteSet(S), NEW f, NEW g, NEW R, IsFiniteSet(R), S \subseteq R,
           \A x \in S : f[x] = g[x],
           NEW it, IsSum(it, f, S), NEW jt, IsSum(jt, g, R)
    PROVE  it[S] = jt[S]
<1> DEFINE Good == {s \in SUBSET S : it[s] = jt[s]}
<1>1. ASSUME NEW T \in SUBSET S, \A U \in SUBSET T : U # T => U \in Good
      PROVE  T \in Good
  <2>1. CASE T = {}
    BY <2>1 DEF IsSum
  <2>2. CASE T # {}
    <3>1. AnyOf(T) \in T
      BY <2>2 DEF AnyOf
    <3>2. T \ {AnyOf(T)} \in Good
      BY <1>1, <3>1
    <3>3. T \in SUBSET R /\ f[AnyOf(T)] = g[AnyOf(T)]
      BY <3>1
    <3>4. it[T] = f[AnyOf(T)] + it[T \ {AnyOf(T)}]
      BY <2>2 DEF IsSum
    <3>5. jt[T] = g[AnyOf(T)] + jt[T \ {AnyOf(T)}]
      BY <2>2, <3>3 DEF IsSum
    <3> QED BY <3>2, <3>3, <3>4, <3>5
  <2> QED BY <2>1, <2>2
<1>2. \A T \in SUBSET S : T \in Good
  <2> HIDE DEF Good
  <2> QED BY <1>1, EverySubset
<1> QED BY <1>2

LEMMA SumSame ==
    ASSUME NEW S, IsFiniteSet(S), NEW f, NEW g, \A x \in S : f[x] = g[x]
    PROVE  SumFunctionOnSet(f, S) = SumFunctionOnSet(g, S)
<1>1. PICK it : IsSum(it, f, S) /\ SumFunctionOnSet(f, S) = it[S]
  BY SumIsSum
<1>2. PICK jt : IsSum(jt, g, S) /\ SumFunctionOnSet(g, S) = jt[S]
  BY SumIsSum
<1> QED BY <1>1, <1>2, SumAgrees

LEMMA SumEquation ==
    ASSUME NEW S, IsFiniteSet(S), NEW f, S # {}
    PROVE  SumFunctionOnSet(f, S) = f[AnyOf(S)] + SumFunctionOnSet(f, S \ {AnyOf(S)})
<1> DEFINE T == S \ {AnyOf(S)}
<1>0. IsFiniteSet(T) /\ T \subseteq S
  BY FS_Subset
<1>1. PICK it : IsSum(it, f, S) /\ SumFunctionOnSet(f, S) = it[S]
  BY SumIsSum
<1>2. PICK jt : IsSum(jt, f, T) /\ SumFunctionOnSet(f, T) = jt[T]
  BY <1>0, SumIsSum
<1>3. jt[T] = it[T]
  <2> HIDE DEF T
  <2> QED BY <1>0, <1>1, <1>2, SumAgrees
<1>4. it[S] = f[AnyOf(S)] + it[T]
  BY <1>1 DEF IsSum
<1> QED BY <1>1, <1>2, <1>3, <1>4

\* A sum of natural numbers is one, and any element may be taken out of it.
LEMMA SumFacts ==
    ASSUME NEW S, IsFiniteSet(S), NEW f, \A x \in S : f[x] \in Nat
    PROVE  /\ SumFunctionOnSet(f, S) \in Nat
           /\ \A x \in S : SumFunctionOnSet(f, S) = f[x] + SumFunctionOnSet(f, S \ {x})
<1> DEFINE Sum(T) == SumFunctionOnSet(f, T)
           Good == {T \in SUBSET S : Sum(T) \in Nat /\ \A x \in T : Sum(T) = f[x] + Sum(T \ {x})}
<1>1. ASSUME NEW T \in SUBSET S, \A U \in SUBSET T : U # T => U \in Good
      PROVE  T \in Good
  <2>1. CASE T = {}
    <3>1. Sum(T) = 0
      BY <2>1, SumEmpty
    <3> QED BY <2>1, <3>1
  <2>2. CASE T # {}
    <3> DEFINE c == AnyOf(T)
    <3>1. c \in T
      BY <2>2 DEF AnyOf
    <3> HIDE DEF c
    <3>2. IsFiniteSet(T) /\ T \ {c} \in SUBSET T /\ T \ {c} # T
      BY <3>1, FS_Subset
    <3>3. Sum(T) = f[c] + Sum(T \ {c})
      BY <2>2, <3>2, SumEquation DEF c
    <3>4. T \ {c} \in Good /\ Sum(T \ {c}) \in Nat
      BY <1>1, <3>2
    <3>5. ASSUME NEW x \in T, x # c
          PROVE  Sum(T) = f[x] + Sum(T \ {x})
      <4>1. T \ {x} \in SUBSET T /\ T \ {x} # T /\ c \in T \ {x} /\ x \in T \ {c}
        BY <3>1, <3>5
      <4>2. Sum(T \ {x}) = f[c] + Sum((T \ {x}) \ {c})
        BY <1>1, <4>1
      <4>3. Sum(T \ {c}) = f[x] + Sum((T \ {c}) \ {x})
        BY <3>4, <4>1
      <4>4. (T \ {x}) \ {c} = (T \ {c}) \ {x}
        OBVIOUS
      <4> DEFINE r == Sum((T \ {c}) \ {x})
      <4>5. r \in Nat
        <5>1. (T \ {c}) \ {x} \in SUBSET T /\ (T \ {c}) \ {x} # T
          BY <3>1
        <5> QED BY <1>1, <5>1
      <4>6. f[x] \in Nat /\ f[c] \in Nat
        BY <3>1
      <4>7. Sum(T \ {x}) = f[c] + r /\ Sum(T \ {c}) = f[x] + r
        BY <4>2, <4>3, <4>4
      <4> HIDE DEF r, Sum
      <4> QED BY <3>3, <4>5, <4>6, <4>7
    <3>6. Sum(T) \in Nat
      <4>1. f[c] \in Nat
        BY <3>1
      <4> HIDE DEF Sum
      <4> QED BY <3>3, <3>4, <4>1
    <3> HIDE DEF Sum
    <3> QED BY <3>3, <3>5, <3>6
  <2> QED BY <2>1, <2>2
<1>2. \A T \in SUBSET S : T \in Good
  <2> HIDE DEF Good
  <2> QED BY <1>1, EverySubset
<1>3. S \in Good
  BY <1>2
<1> QED BY <1>3

LEMMA SumWithOne ==
    ASSUME NEW S, IsFiniteSet(S), NEW f, NEW x, x \notin S, \A y \in S \cup {x} : f[y] \in Nat
    PROVE  SumFunctionOnSet(f, S \cup {x}) = SumFunctionOnSet(f, S) + f[x]
<1>1. IsFiniteSet(S \cup {x})
  BY FS_AddElement
<1>2. SumFunctionOnSet(f, S \cup {x}) = f[x] + SumFunctionOnSet(f, (S \cup {x}) \ {x})
  BY <1>1, SumFacts
<1>3. (S \cup {x}) \ {x} = S
  OBVIOUS
<1>4. SumFunctionOnSet(f, S) \in Nat /\ f[x] \in Nat
  BY SumFacts
<1> QED BY <1>2, <1>3, <1>4
=============================================================================
