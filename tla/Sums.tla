-------------------------------- MODULE Sums --------------------------------
(***************************************************************************)
(* Facts about SumFunctionOnSet, which the balances of the pool and of the *)
(* wallets are computed with.  The library defines it by a recursion that  *)
(* takes the elements out in an order CHOOSE fixes; what is proved here is *)
(* that the order does not matter, so that a sum can be taken apart at any *)
(* element.                                                                *)
(*                                                                         *)
(* An induction is stated over the set of the numbers for which a formula  *)
(* holds, by way of the least one for which it does not.                   *)
(***************************************************************************)
EXTENDS Functions, FiniteSetTheorems, TLAPS

-----------------------------------------------------------------------------
\* Induction: a set that holds 0 and is closed under successor holds Nat.
LEMMA NaturalsInSet ==
  ASSUME NEW A, 0 \in A, \A n \in Nat : n \in A => n + 1 \in A
  PROVE  \A n \in Nat : n \in A
<1> DEFINE T == Nat \ A
<1>1. SUFFICES ASSUME T # {} PROVE FALSE
  OBVIOUS
<1>2. T \subseteq Nat
  OBVIOUS
<1>3. \E x \in T : \A y \in T : ~ (<<y, x>> \in OpToRel(<, Nat))
  <2> HIDE DEF T
  <2> QED BY <1>1, <1>2, NatLessThanWellFounded, WFMin, Zenon
<1>4. PICK x \in T : \A y \in T : ~ (<<y, x>> \in OpToRel(<, Nat))
  BY <1>3
<1>5. x \in Nat /\ x # 0 /\ x - 1 \in Nat
  OBVIOUS
<1>6. x - 1 \in T
  <2>1. (x - 1) + 1 = x
    BY <1>5
  <2> QED BY <1>5, <2>1
<1>7. <<x - 1, x>> \in OpToRel(<, Nat)
  BY <1>5 DEF OpToRel
<1> QED BY <1>4, <1>6, <1>7

-----------------------------------------------------------------------------
(***************************************************************************)
(* The recursion.                                                          *)
(***************************************************************************)
\* What the library's recursion assigns to s, given what it assigns to less.
Value(w, it, s) ==
  IF s = {} THEN 0 ELSE LET x == CHOOSE x \in s : TRUE IN w[x] + it[s \ {x}]

\* g sums w over the subsets of S with at most n elements, in any order.
SumsUpto(w, S, g, n) ==
  /\ g \in [SUBSET S -> Int]
  /\ g[{}] = 0
  /\ \A s \in SUBSET S : Cardinality(s) <= n => \A x \in s : g[s] = w[x] + g[s \ {x}]

\* g sums w over every subset of S, in any order.
Sums(w, S, g) ==
  /\ g \in [SUBSET S -> Int]
  /\ g[{}] = 0
  /\ \A s \in SUBSET S : \A x \in s : g[s] = w[x] + g[s \ {x}]

\* If g sums up to n elements, then adding any element chosen first sums n + 1.
LEMMA OneMore ==
  ASSUME NEW S, IsFiniteSet(S), NEW w, \A x \in S : w[x] \in Int,
         NEW n \in Nat, NEW g, SumsUpto(w, S, g, n)
  PROVE  \E h : SumsUpto(w, S, h, n + 1)
<1> DEFINE h == [s \in SUBSET S |-> IF Cardinality(s) <= n THEN g[s] ELSE Value(w, g, s)]
<1>0. /\ g \in [SUBSET S -> Int] /\ g[{}] = 0
      /\ \A s \in SUBSET S : Cardinality(s) <= n => \A x \in s : g[s] = w[x] + g[s \ {x}]
  BY DEF SumsUpto
<1>1. \A s \in SUBSET S : /\ Cardinality(s) \in Nat
                          /\ IsFiniteSet(s)
                          /\ \A x \in s : Cardinality(s \ {x}) = Cardinality(s) - 1
  BY FS_Subset, FS_CardinalityType, FS_RemoveElement
<1>2. \A s \in SUBSET S : Value(w, g, s) \in Int
  <2>1. ASSUME NEW s \in SUBSET S, s # {} PROVE Value(w, g, s) \in Int
    <3> DEFINE x == CHOOSE x \in s : TRUE
    <3>1. x \in s
      BY <2>1
    <3> HIDE DEF x
    <3>2. w[x] \in Int /\ g[s \ {x}] \in Int
      BY <1>0, <3>1
    <3> QED BY <2>1, <3>2 DEF Value, x
  <2> QED BY <2>1 DEF Value
<1>3. h \in [SUBSET S -> Int]
  BY <1>0, <1>2
<1>4. \A s \in SUBSET S : Cardinality(s) <= n => h[s] = g[s]
  OBVIOUS
<1>5. h[{}] = 0
  <2>1. Cardinality({}) = 0 /\ {} \in SUBSET S
    BY FS_EmptySet
  <2> QED BY <1>0, <1>4, <2>1
<1>6. ASSUME NEW s \in SUBSET S, Cardinality(s) <= n + 1, NEW x \in s
      PROVE  h[s] = w[x] + h[s \ {x}]
  <2>1. s \ {x} \in SUBSET S /\ h[s \ {x}] = g[s \ {x}]
    <3>1. s \ {x} \in SUBSET S
      OBVIOUS
    <3>2. Cardinality(s \ {x}) <= n
      BY <1>1, <1>6
    <3> QED BY <3>1, <3>2, <1>4
  <2>2. CASE Cardinality(s) <= n
    BY <1>0, <1>4, <2>1, <2>2
  <2>3. CASE ~(Cardinality(s) <= n)
    <3> DEFINE c == CHOOSE y \in s : TRUE
    <3>1. c \in s
      OBVIOUS
    <3>2. h[s] = w[c] + g[s \ {c}]
      BY <2>3 DEF Value
    <3> HIDE DEF c, h
    <3>3. CASE x = c
      BY <3>2, <3>3, <2>1
    <3>4. CASE x # c
      <4>1. /\ s \ {c} \in SUBSET S /\ x \in s \ {c} /\ c \in s \ {x}
            /\ (s \ {c}) \ {x} = (s \ {x}) \ {c}
        BY <3>1, <3>4
      <4>2. Cardinality(s \ {c}) <= n /\ Cardinality(s \ {x}) <= n
        BY <1>1, <1>6, <3>1
      <4>3. g[s \ {c}] = w[x] + g[(s \ {x}) \ {c}]
        <5> DEFINE t == s \ {c}
        <5>1. t \in SUBSET S /\ Cardinality(t) <= n /\ x \in t
          BY <4>1, <4>2
        <5> HIDE DEF t
        <5>2. g[t] = w[x] + g[t \ {x}]
          BY <1>0, <5>1, Zenon
        <5> QED BY <4>1, <5>2, Zenon DEF t
      <4>4. g[s \ {x}] = w[c] + g[(s \ {x}) \ {c}]
        <5> DEFINE t == s \ {x}
        <5>1. t \in SUBSET S /\ Cardinality(t) <= n /\ c \in t
          BY <2>1, <4>1, <4>2
        <5> HIDE DEF t
        <5>2. g[t] = w[c] + g[t \ {c}]
          BY <1>0, <5>1, Zenon
        <5> QED BY <5>2, Zenon DEF t
      <4>5. w[x] \in Int /\ w[c] \in Int /\ g[(s \ {x}) \ {c}] \in Int
        BY <1>0, <3>1, <4>1
      <4> QED BY <2>1, <3>2, <4>3, <4>4, <4>5
    <3> QED BY <3>3, <3>4
  <2> QED BY <2>2, <2>3
<1>7. SumsUpto(w, S, h, n + 1)
  <2> HIDE DEF h
  <2> QED BY <1>3, <1>5, <1>6 DEF SumsUpto
<1> QED BY <1>7

\* Every finite set of integers has a sum that does not depend on the order.
LEMMA SumsExist ==
  ASSUME NEW S, IsFiniteSet(S), NEW w, \A x \in S : w[x] \in Int
  PROVE  \E g : Sums(w, S, g)
<1> DEFINE A == {n \in Nat : \E g : SumsUpto(w, S, g, n)}
<1>1. \A s \in SUBSET S : Cardinality(s) \in Nat /\ IsFiniteSet(s) /\ Cardinality(s) <= Cardinality(S)
  BY FS_Subset, FS_CardinalityType
<1>2. 0 \in A
  <2> DEFINE g == [s \in SUBSET S |-> 0]
  <2>1. \A s \in SUBSET S : Cardinality(s) <= 0 => s = {}
    BY <1>1, FS_EmptySet
  <2>2. SumsUpto(w, S, g, 0)
    BY <2>1 DEF SumsUpto
  <2> QED BY <2>2
<1>3. \A n \in Nat : n \in A => n + 1 \in A
  <2>1. ASSUME NEW n \in Nat, n \in A PROVE n + 1 \in A
    <3>1. PICK g : SumsUpto(w, S, g, n)
      BY <2>1
    <3>2. \E h : SumsUpto(w, S, h, n + 1)
      BY <3>1, OneMore, Zenon
    <3> QED BY <3>2
  <2> QED BY <2>1
<1>4. Cardinality(S) \in A
  <2> HIDE DEF A
  <2> QED BY <1>1, <1>2, <1>3, NaturalsInSet, Zenon
<1>5. PICK g : SumsUpto(w, S, g, Cardinality(S))
  BY <1>4
<1>6. Sums(w, S, g)
  BY <1>1, <1>5 DEF SumsUpto, Sums
<1> QED BY <1>6

\* Whatever takes elements out one by one, in some order, computes the sum.
LEMMA SumsAreUnique ==
  ASSUME NEW S, IsFiniteSet(S), NEW w, NEW g, Sums(w, S, g),
         NEW T \in SUBSET S, NEW it, \A s \in SUBSET T : it[s] = Value(w, it, s)
  PROVE  it[T] = g[T]
<1> DEFINE A == {n \in Nat : \A s \in SUBSET T : Cardinality(s) <= n => it[s] = g[s]}
<1>0. /\ g[{}] = 0
      /\ \A s \in SUBSET S : \A x \in s : g[s] = w[x] + g[s \ {x}]
  BY DEF Sums
<1>1. \A s \in SUBSET T : /\ IsFiniteSet(s)
                          /\ Cardinality(s) \in Nat
                          /\ \A x \in s : Cardinality(s \ {x}) = Cardinality(s) - 1
  BY FS_Subset, FS_CardinalityType, FS_RemoveElement
<1>2. it[{}] = g[{}]
  <2>1. {} \in SUBSET T
    OBVIOUS
  <2> QED BY <1>0, <2>1 DEF Value
<1>3. 0 \in A
  <2>1. \A s \in SUBSET T : Cardinality(s) <= 0 => s = {}
    BY <1>1, FS_EmptySet
  <2> QED BY <1>2, <2>1
<1>4. \A n \in Nat : n \in A => n + 1 \in A
  <2>1. ASSUME NEW n \in Nat, n \in A, NEW s \in SUBSET T, Cardinality(s) <= n + 1
        PROVE  it[s] = g[s]
    <3>1. CASE s = {}
      BY <1>2, <3>1
    <3>2. CASE s # {}
      <4> DEFINE x == CHOOSE y \in s : TRUE
      <4>1. x \in s /\ it[s] = w[x] + it[s \ {x}]
        BY <3>2 DEF Value
      <4> HIDE DEF x
      <4>2. s \ {x} \in SUBSET T /\ Cardinality(s \ {x}) <= n
        BY <1>1, <2>1, <4>1
      <4>3. it[s \ {x}] = g[s \ {x}]
        BY <2>1, <4>2
      <4> QED BY <1>0, <4>1, <4>3
    <3> QED BY <3>1, <3>2
  <2> QED BY <2>1
<1>5. Cardinality(T) \in A
  <2>1. T \in SUBSET T
    OBVIOUS
  <2> HIDE DEF A
  <2> QED BY <1>1, <1>3, <1>4, <2>1, NaturalsInSet, Zenon
<1>6. T \in SUBSET T /\ Cardinality(T) <= Cardinality(T)
  BY <1>1
<1> QED BY <1>5, <1>6

\* The library's recursion computes it.
LEMMA SumIsSum ==
  ASSUME NEW S, IsFiniteSet(S), NEW w, NEW g, Sums(w, S, g), NEW T \in SUBSET S
  PROVE  SumFunctionOnSet(w, T) = g[T]
<1> DEFINE Fold == CHOOSE it : it = [s \in SUBSET T |-> Value(w, it, s)]
           h == [s \in SUBSET T |-> g[s]]
<1>1. SumFunctionOnSet(w, T) = Fold[T]
  BY Zenon DEF SumFunctionOnSet, FoldFunctionOnSet, MapThenFoldSet, Value
<1>2. \A s \in SUBSET T : h[s] = Value(w, h, s)
  <2>1. ASSUME NEW s \in SUBSET T PROVE h[s] = Value(w, h, s)
    <3>1. CASE s = {}
      BY <3>1 DEF Value, Sums
    <3>2. CASE s # {}
      <4> DEFINE x == CHOOSE y \in s : TRUE
      <4>1. x \in s /\ Value(w, h, s) = w[x] + h[s \ {x}]
        BY <3>2 DEF Value
      <4> HIDE DEF x
      <4>2. s \in SUBSET S /\ s \ {x} \in SUBSET T
        OBVIOUS
      <4>3. g[s] = w[x] + g[s \ {x}]
        BY <4>1, <4>2 DEF Sums
      <4> QED BY <4>1, <4>2, <4>3
    <3> QED BY <3>1, <3>2
  <2> QED BY <2>1
<1>3. h = [s \in SUBSET T |-> Value(w, h, s)]
  <2>1. h = [s \in SUBSET T |-> h[s]]
    OBVIOUS
  <2> HIDE DEF h
  <2> QED BY <1>2, <2>1, Zenon
<1>4. Fold = [s \in SUBSET T |-> Value(w, Fold, s)]
  <2> HIDE DEF h
  <2> QED BY <1>3, Zenon
<1> HIDE DEF Fold
<1>5. \A s \in SUBSET T : Fold[s] = Value(w, Fold, s)
  BY <1>4, Zenon
<1>6. Fold[T] = g[T]
  <2> HIDE DEF h
  <2> QED BY <1>5, SumsAreUnique
<1> QED BY <1>1, <1>6

-----------------------------------------------------------------------------
(***************************************************************************)
(* The facts to cite.                                                      *)
(***************************************************************************)
\* Nothing adds up to 0.
LEMMA SumEmpty == ASSUME NEW w PROVE SumFunctionOnSet(w, {}) = 0
<1>1. IsFiniteSet({}) /\ \A x \in {} : w[x] \in Int
  BY FS_EmptySet
<1>2. PICK g : Sums(w, {}, g)
  BY <1>1, SumsExist
<1>3. SumFunctionOnSet(w, {}) = g[{}]
  <2>1. {} \in SUBSET {}
    OBVIOUS
  <2> QED BY <1>1, <1>2, <2>1, SumIsSum, Zenon
<1> QED BY <1>2, <1>3 DEF Sums

\* A sum of integers is an integer.
LEMMA SumInt ==
  ASSUME NEW S, IsFiniteSet(S), NEW w, \A x \in S : w[x] \in Int
  PROVE  SumFunctionOnSet(w, S) \in Int
<1>1. PICK g : Sums(w, S, g)
  BY SumsExist
<1>2. S \in SUBSET S
  OBVIOUS
<1>3. SumFunctionOnSet(w, S) = g[S]
  BY <1>1, <1>2, SumIsSum, Zenon
<1> QED BY <1>1, <1>3 DEF Sums

\* Any element can be taken out first.
LEMMA SumRemove ==
  ASSUME NEW S, IsFiniteSet(S), NEW w, \A x \in S : w[x] \in Int, NEW x \in S
  PROVE  SumFunctionOnSet(w, S) = w[x] + SumFunctionOnSet(w, S \ {x})
<1>1. PICK g : Sums(w, S, g)
  BY SumsExist
<1>2. S \in SUBSET S /\ S \ {x} \in SUBSET S
  OBVIOUS
<1>3. SumFunctionOnSet(w, S) = g[S]
  BY <1>1, <1>2, SumIsSum, Zenon
<1>4. SumFunctionOnSet(w, S \ {x}) = g[S \ {x}]
  BY <1>1, <1>2, SumIsSum
<1> QED BY <1>1, <1>2, <1>3, <1>4 DEF Sums

\* Adding an element adds its value.
LEMMA SumAdd ==
  ASSUME NEW S, IsFiniteSet(S), NEW w, NEW x, x \notin S, \A y \in S \cup {x} : w[y] \in Int
  PROVE  SumFunctionOnSet(w, S \cup {x}) = w[x] + SumFunctionOnSet(w, S)
<1>1. IsFiniteSet(S \cup {x}) /\ x \in S \cup {x} /\ (S \cup {x}) \ {x} = S
  BY FS_AddElement
<1>2. SumFunctionOnSet(w, S \cup {x}) = w[x] + SumFunctionOnSet(w, (S \cup {x}) \ {x})
  BY <1>1, SumRemove, Zenon
<1> QED BY <1>1, <1>2

\* The sum of one element is its value.
LEMMA SumOne ==
  ASSUME NEW w, NEW x, w[x] \in Int
  PROVE  SumFunctionOnSet(w, {x}) = w[x]
<1>1. IsFiniteSet({}) /\ x \notin {} /\ {} \cup {x} = {x}
  BY FS_EmptySet
<1>2. SumFunctionOnSet(w, {} \cup {x}) = w[x] + SumFunctionOnSet(w, {})
  <2>1. \A y \in {} \cup {x} : w[y] \in Int
    OBVIOUS
  <2> QED BY <1>1, <2>1, SumAdd, Zenon
<1>3. SumFunctionOnSet(w, {}) = 0
  BY SumEmpty, Zenon
<1> QED BY <1>1, <1>2, <1>3

\* A sum only depends on the values of what is summed.
LEMMA SumSame ==
  ASSUME NEW S, IsFiniteSet(S), NEW w, \A x \in S : w[x] \in Int,
         NEW v, \A x \in S : v[x] = w[x]
  PROVE  SumFunctionOnSet(v, S) = SumFunctionOnSet(w, S)
<1>1. PICK g : Sums(w, S, g)
  BY SumsExist
<1>2. Sums(v, S, g)
  BY <1>1 DEF Sums
<1>3. S \in SUBSET S
  OBVIOUS
<1>4. SumFunctionOnSet(w, S) = g[S]
  BY <1>1, <1>3, SumIsSum
<1>5. SumFunctionOnSet(v, S) = g[S]
  BY <1>2, <1>3, SumIsSum
<1> QED BY <1>4, <1>5

\* A sum of natural numbers is one.
LEMMA SumNat ==
  ASSUME NEW S, IsFiniteSet(S), NEW w, \A x \in S : w[x] \in Nat
  PROVE  SumFunctionOnSet(w, S) \in Nat
<1> DEFINE A == {n \in Nat : \A s \in SUBSET S :
                   Cardinality(s) <= n => SumFunctionOnSet(w, s) \in Nat}
<1>1. \A s \in SUBSET S : /\ IsFiniteSet(s)
                          /\ Cardinality(s) \in Nat
                          /\ \A x \in s : Cardinality(s \ {x}) = Cardinality(s) - 1
  BY FS_Subset, FS_CardinalityType, FS_RemoveElement
<1>2. SumFunctionOnSet(w, {}) = 0
  BY SumEmpty, Zenon
<1>3. 0 \in A
  <2>1. \A s \in SUBSET S : Cardinality(s) <= 0 => s = {}
    BY <1>1, FS_EmptySet
  <2> QED BY <1>2, <2>1
<1>4. \A n \in Nat : n \in A => n + 1 \in A
  <2>1. ASSUME NEW n \in Nat, n \in A, NEW s \in SUBSET S, Cardinality(s) <= n + 1
        PROVE  SumFunctionOnSet(w, s) \in Nat
    <3>1. CASE s = {}
      BY <1>2, <3>1
    <3>2. CASE s # {}
      <4>1. PICK x \in s : TRUE
        BY <3>2
      <4>2. s \ {x} \in SUBSET S /\ Cardinality(s \ {x}) <= n
        BY <1>1, <2>1
      <4>3. SumFunctionOnSet(w, s \ {x}) \in Nat
        BY <2>1, <4>2
      <4>4. SumFunctionOnSet(w, s) = w[x] + SumFunctionOnSet(w, s \ {x})
        <5>1. IsFiniteSet(s) /\ \A y \in s : w[y] \in Int
          BY <1>1
        <5> QED BY <5>1, SumRemove, Zenon
      <4> QED BY <4>3, <4>4
    <3> QED BY <3>1, <3>2
  <2> QED BY <2>1
<1>5. Cardinality(S) \in A
  <2>1. S \in SUBSET S
    OBVIOUS
  <2> HIDE DEF A
  <2> QED BY <1>1, <1>3, <1>4, <2>1, NaturalsInSet, Zenon
<1>6. S \in SUBSET S /\ Cardinality(S) <= Cardinality(S)
  BY <1>1
<1> QED BY <1>5, <1>6

\* A sum over two disjoint sets is the sum of their sums.
LEMMA SumUnion ==
  ASSUME NEW S, IsFiniteSet(S), NEW T, IsFiniteSet(T), S \cap T = {},
         NEW w, \A x \in S \cup T : w[x] \in Int
  PROVE  SumFunctionOnSet(w, S \cup T) = SumFunctionOnSet(w, S) + SumFunctionOnSet(w, T)
<1> DEFINE Splits(s) ==
             SumFunctionOnSet(w, S \cup s) = SumFunctionOnSet(w, S) + SumFunctionOnSet(w, s)
           A == {n \in Nat : \A s \in SUBSET T : Cardinality(s) <= n => Splits(s)}
<1>1. \A s \in SUBSET T : /\ IsFiniteSet(s)
                          /\ Cardinality(s) \in Nat
                          /\ \A x \in s : Cardinality(s \ {x}) = Cardinality(s) - 1
  BY FS_Subset, FS_CardinalityType, FS_RemoveElement
<1>2. \A s \in SUBSET T : SumFunctionOnSet(w, s) \in Int /\ SumFunctionOnSet(w, S) \in Int
  <2>1. \A s \in SUBSET T : \A x \in s : w[x] \in Int
    OBVIOUS
  <2>2. \A x \in S : w[x] \in Int
    OBVIOUS
  <2> QED BY <1>1, <2>1, <2>2, SumInt
<1>3. Splits({})
  <2>1. SumFunctionOnSet(w, {}) = 0 /\ S \cup {} = S /\ {} \in SUBSET T
    BY SumEmpty
  <2> QED BY <1>2, <2>1
<1>4. 0 \in A
  <2>1. \A s \in SUBSET T : Cardinality(s) <= 0 => s = {}
    BY <1>1, FS_EmptySet
  <2> HIDE DEF Splits
  <2> QED BY <1>3, <2>1
<1>5. \A n \in Nat : n \in A => n + 1 \in A
  <2>1. ASSUME NEW n \in Nat, n \in A, NEW s \in SUBSET T, Cardinality(s) <= n + 1
        PROVE  Splits(s)
    <3>1. CASE s = {}
      <4> HIDE DEF Splits
      <4> QED BY <1>3, <3>1
    <3>2. CASE s # {}
      <4>1. PICK x \in s : TRUE
        BY <3>2
      <4> DEFINE r == s \ {x}
      <4>2. /\ r \in SUBSET T /\ Cardinality(r) <= n /\ x \notin S /\ x \in T
            /\ (S \cup s) \ {x} = S \cup r
        <5>1. r \in SUBSET T /\ x \in T /\ x \notin S
          OBVIOUS
        <5>2. (S \cup s) \ {x} = S \cup r
          BY <5>1
        <5>3. Cardinality(r) <= n
          BY <1>1, <2>1
        <5> QED BY <5>1, <5>2, <5>3
      <4>3. Splits(r)
        <5> HIDE DEF Splits, r
        <5> QED BY <2>1, <4>2
      <4>4. SumFunctionOnSet(w, s) = w[x] + SumFunctionOnSet(w, r)
        <5>1. IsFiniteSet(s) /\ \A y \in s : w[y] \in Int
          BY <1>1
        <5> QED BY <5>1, SumRemove, Zenon
      <4>5. SumFunctionOnSet(w, S \cup s) = w[x] + SumFunctionOnSet(w, S \cup r)
        <5>1. IsFiniteSet(S \cup s) /\ x \in S \cup s /\ \A y \in S \cup s : w[y] \in Int
          BY <1>1, FS_Union
        <5>2. SumFunctionOnSet(w, S \cup s) = w[x] + SumFunctionOnSet(w, (S \cup s) \ {x})
          BY <5>1, SumRemove, Zenon
        <5> QED BY <4>2, <5>2
      <4>6. /\ w[x] \in Int
            /\ SumFunctionOnSet(w, r) \in Int /\ SumFunctionOnSet(w, S) \in Int
        BY <1>2, <4>2
      <4> HIDE DEF r
      <4> QED BY <4>3, <4>4, <4>5, <4>6
    <3> QED BY <3>1, <3>2
  <2> HIDE DEF Splits
  <2> QED BY <2>1
<1>6. Cardinality(T) \in A
  <2>1. T \in SUBSET T
    OBVIOUS
  <2> HIDE DEF A
  <2> QED BY <1>1, <1>4, <1>5, <2>1, NaturalsInSet, Zenon
<1>7. T \in SUBSET T /\ Cardinality(T) <= Cardinality(T)
  BY <1>1
<1> QED BY <1>6, <1>7

\* Taking a subset out takes its sum out.
LEMMA SumDifference ==
  ASSUME NEW S, IsFiniteSet(S), NEW T \in SUBSET S, NEW w, \A x \in S : w[x] \in Int
  PROVE  SumFunctionOnSet(w, S \ T) = SumFunctionOnSet(w, S) - SumFunctionOnSet(w, T)
<1>1. IsFiniteSet(S \ T) /\ IsFiniteSet(T) /\ (S \ T) \cap T = {} /\ (S \ T) \cup T = S
  BY FS_Subset
<1>2. \A x \in (S \ T) \cup T : w[x] \in Int
  OBVIOUS
<1>3. SumFunctionOnSet(w, (S \ T) \cup T) = SumFunctionOnSet(w, S \ T) + SumFunctionOnSet(w, T)
  BY <1>1, <1>2, SumUnion, Zenon
<1>4. SumFunctionOnSet(w, S \ T) \in Int /\ SumFunctionOnSet(w, T) \in Int
  BY <1>1, SumInt
<1>5. SumFunctionOnSet(w, S) = SumFunctionOnSet(w, (S \ T) \cup T)
  BY <1>1
<1> QED BY <1>3, <1>4, <1>5

\* The sum of two elements.
LEMMA SumTwo ==
  ASSUME NEW w, NEW x, NEW y, x # y, w[x] \in Int, w[y] \in Int
  PROVE  SumFunctionOnSet(w, {x, y}) = w[x] + w[y]
<1>1. IsFiniteSet({y}) /\ x \notin {y} /\ {y} \cup {x} = {x, y}
  BY FS_Singleton
<1>2. \A z \in {y} \cup {x} : w[z] \in Int
  OBVIOUS
<1>3. SumFunctionOnSet(w, {y} \cup {x}) = w[x] + SumFunctionOnSet(w, {y})
  BY <1>1, <1>2, SumAdd, Zenon
<1>4. SumFunctionOnSet(w, {y}) = w[y]
  BY SumOne, Zenon
<1> QED BY <1>1, <1>3, <1>4

\* An element of a sum of natural numbers is no larger than the sum.
LEMMA SumBounds ==
  ASSUME NEW S, IsFiniteSet(S), NEW w, \A x \in S : w[x] \in Nat, NEW T \in SUBSET S
  PROVE  SumFunctionOnSet(w, T) \in Nat /\ SumFunctionOnSet(w, T) <= SumFunctionOnSet(w, S)
<1>1. IsFiniteSet(T) /\ IsFiniteSet(S \ T)
  BY FS_Subset
<1>2. /\ SumFunctionOnSet(w, S) \in Nat
      /\ SumFunctionOnSet(w, T) \in Nat
      /\ SumFunctionOnSet(w, S \ T) \in Nat
  BY <1>1, SumNat
<1>3. SumFunctionOnSet(w, S \ T) = SumFunctionOnSet(w, S) - SumFunctionOnSet(w, T)
  <2>1. \A x \in S : w[x] \in Int
    OBVIOUS
  <2> QED BY <2>1, SumDifference, Zenon
<1> QED BY <1>2, <1>3

-----------------------------------------------------------------------------
(***************************************************************************)
(* A function is summed over its domain.  When keys leave the domain and   *)
(* others enter, and the values of the rest stay, the sum changes by what  *)
(* left and what entered.                                                  *)
(***************************************************************************)
LEMMA SumChanges ==
  ASSUME NEW S, IsFiniteSet(S), NEW Out \in SUBSET S, NEW In, IsFiniteSet(In), S \cap In = {},
         NEW w, \A x \in S \cup In : w[x] \in Int
  PROVE  SumFunctionOnSet(w, (S \ Out) \cup In) =
           SumFunctionOnSet(w, S) - SumFunctionOnSet(w, Out) + SumFunctionOnSet(w, In)
<1>1. /\ IsFiniteSet(S \ Out) /\ (S \ Out) \cap In = {}
      /\ \A x \in (S \ Out) \cup In : w[x] \in Int
      /\ \A x \in S : w[x] \in Int
  BY FS_Subset
<1>2. SumFunctionOnSet(w, (S \ Out) \cup In) =
        SumFunctionOnSet(w, S \ Out) + SumFunctionOnSet(w, In)
  BY <1>1, SumUnion, Zenon
<1>3. SumFunctionOnSet(w, S \ Out) = SumFunctionOnSet(w, S) - SumFunctionOnSet(w, Out)
  BY <1>1, SumDifference, Zenon
<1> QED BY <1>2, <1>3
=============================================================================
