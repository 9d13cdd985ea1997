----------------------------- MODULE SumLemmas ------------------------------
(* Sums over finite sets: what the folds of the community modules compute when *)
(* the operation is addition.  Induction over sets is by the smallest set that *)
(* is an exception.                                                            *)
EXTENDS Integers, FiniteSets, FiniteSetsExt, FiniteSetTheorems, WellFoundedInduction, TLAPS

(* Sum(g, S) is the sum of g[x] over the elements x of S.                      *)
Sum(g, S) == MapThenSumSet(LAMBDA x : g[x], S)

Some(s) == CHOOSE x \in s : TRUE

(* h maps every subset of S to its sum: the function that MapThenSumSet builds. *)
IsSum(h, g, S) ==
    h = [s \in SUBSET S |-> IF s = {} THEN 0 ELSE g[Some(s)] + h[s \ {Some(s)}]]

IsInteger(g, S) == \A x \in S : g[x] \in Int

(* Every nonempty set of natural numbers has a least element.                *)
LEMMA LeastNat ==
    ASSUME NEW S, S \subseteq Nat, S # {}
    PROVE  \E n \in S : \A m \in S : n <= m
<1>1. PICK n \in S : \A m \in S : ~(<<m, n>> \in OpToRel(<, Nat))
  BY NatLessThanWellFounded, WFMin
<1>2. ASSUME NEW m \in S PROVE n <= m
  <2>1. ~(m < n)
    BY <1>1 DEF OpToRel
  <2>2. QED
    BY <2>1
<1>3. QED
  BY <1>2

-----------------------------------------------------------------------------
(* A set of finite sets that is not empty has a smallest member.               *)
LEMMA Smallest ==
    ASSUME NEW S, IsFiniteSet(S), NEW Bad, Bad \subseteq SUBSET S, Bad # {}
    PROVE  \E s \in Bad : \A x \in s : s \ {x} \notin Bad
<1> DEFINE Cards == {Cardinality(s) : s \in Bad}
<1>1. \A s \in Bad : IsFiniteSet(s) /\ Cardinality(s) \in Nat
  BY FS_Subset, FS_CardinalityType
<1>2. Cards \subseteq Nat /\ Cards # {}
  BY <1>1
<1>3. PICK n \in Cards : \A m \in Cards : n <= m
  <2> HIDE DEF Cards
  <2>1. QED
    BY <1>2, LeastNat
<1>4. PICK s \in Bad : n = Cardinality(s)
  BY <1>3
<1>5. ASSUME NEW x \in s, s \ {x} \in Bad PROVE FALSE
  <2>1. Cardinality(s \ {x}) = Cardinality(s) - 1
    BY <1>1, <1>5, FS_RemoveElement
  <2>2. n <= Cardinality(s \ {x})
    BY <1>3, <1>5
  <2>3. QED
    BY <1>1, <1>4, <2>1, <2>2
<1>6. QED
  BY <1>5

-----------------------------------------------------------------------------
(* There is a function that maps every subset of a finite set to its sum.      *)
LEMMA SumExists ==
    ASSUME NEW g, NEW S, IsFiniteSet(S)
    PROVE  \E h : IsSum(h, g, S)
<1> DEFINE Rec(h, s) == IF s = {} THEN 0 ELSE g[Some(s)] + h[s \ {Some(s)}]
           Upto(h, n) == \A s \in SUBSET S : Cardinality(s) <= n => h[s] = Rec(h, s)
           Bad == {n \in Nat : ~(\E h : Upto(h, n))}
<1>1. \A s \in SUBSET S : /\ IsFiniteSet(s) /\ Cardinality(s) \in Nat
                          /\ Cardinality(s) <= Cardinality(S)
                          /\ Cardinality(s) = 0 => s = {}
                          /\ s # {} => /\ Some(s) \in s
                                       /\ Cardinality(s \ {Some(s)}) = Cardinality(s) - 1
  <2> SUFFICES ASSUME NEW s \in SUBSET S
               PROVE  /\ IsFiniteSet(s) /\ Cardinality(s) \in Nat
                      /\ Cardinality(s) <= Cardinality(S)
                      /\ Cardinality(s) = 0 => s = {}
                      /\ s # {} => /\ Some(s) \in s
                                   /\ Cardinality(s \ {Some(s)}) = Cardinality(s) - 1
    OBVIOUS
  <2>1. IsFiniteSet(s) /\ Cardinality(s) \in Nat /\ Cardinality(s) <= Cardinality(S)
    BY FS_Subset, FS_CardinalityType
  <2>2. Cardinality(s) = 0 => s = {}
    BY <2>1, FS_EmptySet
  <2>3. s # {} => Some(s) \in s
    BY DEF Some
  <2>4. QED
    BY <2>1, <2>2, <2>3, FS_RemoveElement
<1>2. ASSUME NEW n \in Nat, n = 0 \/ n - 1 \notin Bad
      PROVE  n \notin Bad
  <2>1. CASE n = 0
    <3> DEFINE h == [s \in SUBSET S |-> 0]
    <3>1. ASSUME NEW s \in SUBSET S, Cardinality(s) <= 0 PROVE h[s] = Rec(h, s)
      <4>1. s = {}
        <5>1. Cardinality(s) \in Nat /\ (Cardinality(s) = 0 => s = {})
          BY <1>1
        <5>2. Cardinality(s) <= 0
          BY <3>1
        <5> HIDE DEF h, Rec
        <5>3. QED
          BY <5>1, <5>2
      <4>2. h[s] = 0
        OBVIOUS
      <4>3. Rec(h, s) = 0
        BY <4>1
      <4>4. QED
        BY <4>2, <4>3
    <3>2. Upto(h, 0)
      BY <3>1
    <3> HIDE DEF h, Upto
    <3>3. QED
      BY <3>2, <2>1
  <2>2. CASE n # 0
    <3>1. n - 1 \in Nat
      BY <2>2
    <3>2. PICK k : Upto(k, n - 1)
      <4> HIDE DEF Upto
      <4>1. QED
        BY <1>2, <2>2, <3>1
    <3> DEFINE h == [s \in SUBSET S |-> Rec(k, s)]
    <3>3. ASSUME NEW s \in SUBSET S, Cardinality(s) <= n PROVE h[s] = Rec(h, s)
      <4>1. CASE s = {}
        BY <4>1
      <4>2. CASE s # {}
        <5> DEFINE t == s \ {Some(s)}
        <5>1. t \in SUBSET S /\ Cardinality(t) <= n - 1
          BY <4>2, <3>3, <1>1
        <5>2. k[t] = Rec(k, t)
          BY <5>1, <3>2
        <5>3. h[t] = Rec(k, t)
          BY <5>1
        <5>4. h[s] = g[Some(s)] + k[t]
          BY <4>2
        <5>5. Rec(h, s) = g[Some(s)] + h[t]
          BY <4>2
        <5> HIDE DEF h, Rec
        <5>6. QED
          BY <5>2, <5>3, <5>4, <5>5
      <4>3. QED
        BY <4>1, <4>2
    <3>4. Upto(h, n)
      BY <3>3
    <3> HIDE DEF h, Upto
    <3>5. QED
      BY <3>4
  <2>3. QED
    BY <2>1, <2>2
<1>3. Bad = {}
  <2>1. SUFFICES ASSUME Bad # {} PROVE FALSE
    OBVIOUS
  <2>2. Bad \subseteq Nat
    OBVIOUS
  <2> HIDE DEF Bad
  <2>3. PICK n \in Bad : \A m \in Bad : n <= m
    BY <2>1, <2>2, LeastNat
  <2>4. n \in Nat /\ n - 1 \notin Bad
    BY <2>2, <2>3
  <2>5. QED
    BY <1>2, <2>3, <2>4
<1>4. PICK k : Upto(k, Cardinality(S))
  <2>1. Cardinality(S) \in Nat
    BY FS_CardinalityType
  <2> HIDE DEF Upto
  <2>2. QED
    BY <1>3, <2>1
<1> DEFINE h == [s \in SUBSET S |-> k[s]]
<1>5. \A s \in SUBSET S : h[s] = Rec(h, s)
  <2> SUFFICES ASSUME NEW s \in SUBSET S PROVE h[s] = Rec(h, s)
    OBVIOUS
  <2>1. k[s] = Rec(k, s) /\ h[s] = k[s]
    BY <1>1, <1>4
  <2>2. s # {} => h[s \ {Some(s)}] = k[s \ {Some(s)}]
    OBVIOUS
  <2> HIDE DEF h
  <2>3. QED
    BY <2>1, <2>2
<1>6. h = [s \in SUBSET S |-> Rec(h, s)]
  <2>1. h = [s \in SUBSET S |-> h[s]]
    OBVIOUS
  <2> HIDE DEF h, Rec
  <2>2. QED
    BY <2>1, <1>5
<1>7. IsSum(h, g, S)
  <2> HIDE DEF h
  <2>1. QED
    BY <1>6 DEF IsSum
<1> HIDE DEF h
<1>8. QED
  BY <1>7

(* So that is what Sum takes its value from.                                   *)
LEMMA SumIs ==
    ASSUME NEW g, NEW S, IsFiniteSet(S)
    PROVE  \E h : IsSum(h, g, S) /\ Sum(g, S) = h[S]
<1>1. Sum(g, S) = (CHOOSE h : IsSum(h, g, S))[S]
  BY DEF Sum, MapThenSumSet, MapThenFoldSet, IsSum, Some
<1>2. IsSum(CHOOSE h : IsSum(h, g, S), g, S)
  BY SumExists
<1>3. QED
  BY <1>1, <1>2

(* There is only one, whatever the set is a subset of.                         *)
LEMMA SumUnique ==
    ASSUME NEW g, NEW S, IsFiniteSet(S), NEW h, IsSum(h, g, S),
           NEW T \in SUBSET S, NEW k, IsSum(k, g, T)
    PROVE  \A s \in SUBSET T : h[s] = k[s]
<1> DEFINE Bad == {s \in SUBSET T : h[s] # k[s]}
<1>1. SUFFICES ASSUME Bad # {} PROVE FALSE
  OBVIOUS
<1>2. PICK s \in Bad : \A x \in s : s \ {x} \notin Bad
  <2>1. IsFiniteSet(T) /\ Bad \subseteq SUBSET T
    BY FS_Subset
  <2> HIDE DEF Bad
  <2>2. QED
    BY <1>1, <2>1, Smallest
<1>3. s \in SUBSET T /\ s \in SUBSET S /\ h[s] # k[s]
  BY <1>2
<1>4. /\ h[s] = IF s = {} THEN 0 ELSE g[Some(s)] + h[s \ {Some(s)}]
      /\ k[s] = IF s = {} THEN 0 ELSE g[Some(s)] + k[s \ {Some(s)}]
  BY <1>3 DEF IsSum
<1>5. s # {} /\ Some(s) \in s
  BY <1>3, <1>4 DEF Some
<1>6. h[s \ {Some(s)}] = k[s \ {Some(s)}]
  BY <1>2, <1>3, <1>5
<1>7. QED
  BY <1>3, <1>4, <1>5, <1>6

-----------------------------------------------------------------------------
(* The laws of Sum.                                                            *)

(* The sum of integers is an integer.                                        *)
LEMMA SumInteger ==
    ASSUME NEW g, NEW S, IsFiniteSet(S), IsInteger(g, S), NEW h, IsSum(h, g, S)
    PROVE  \A s \in SUBSET S : h[s] \in Int
<1> DEFINE Bad == {s \in SUBSET S : h[s] \notin Int}
<1>1. SUFFICES ASSUME Bad # {} PROVE FALSE
  OBVIOUS
<1>2. PICK s \in Bad : \A x \in s : s \ {x} \notin Bad
  <2>1. Bad \subseteq SUBSET S
    OBVIOUS
  <2> HIDE DEF Bad
  <2>2. QED
    BY <1>1, <2>1, Smallest
<1>3. s \in SUBSET S /\ h[s] \notin Int
  BY <1>2
<1>4. h[s] = IF s = {} THEN 0 ELSE g[Some(s)] + h[s \ {Some(s)}]
  BY <1>3 DEF IsSum
<1>5. s # {} /\ Some(s) \in s
  BY <1>3, <1>4 DEF Some
<1>6. h[s \ {Some(s)}] \in Int /\ g[Some(s)] \in Int
  BY <1>2, <1>3, <1>5 DEF IsInteger
<1>7. QED
  BY <1>3, <1>4, <1>5, <1>6

(* The choices that the sum makes do not matter: any element may be taken out. *)
LEMMA SumSplits ==
    ASSUME NEW g, NEW S, IsFiniteSet(S), IsInteger(g, S), NEW h, IsSum(h, g, S)
    PROVE  \A s \in SUBSET S : \A x \in s : h[s] = g[x] + h[s \ {x}]
<1> DEFINE Fine(s) == \A x \in s : h[s] = g[x] + h[s \ {x}]
           Bad == {s \in SUBSET S : ~Fine(s)}
<1>1. SUFFICES ASSUME Bad # {} PROVE FALSE
  OBVIOUS
<1>2. PICK s \in Bad : \A x \in s : s \ {x} \notin Bad
  <2>1. Bad \subseteq SUBSET S
    OBVIOUS
  <2> HIDE DEF Bad
  <2>2. QED
    BY <1>1, <2>1, Smallest
<1>3. s \in SUBSET S /\ ~Fine(s) /\ \A x \in s : Fine(s \ {x}) /\ g[x] \in Int
  BY <1>2 DEF IsInteger
<1>4. \A t \in SUBSET S : h[t] \in Int
  BY SumInteger
<1> DEFINE c == Some(s)
<1>5. c \in s /\ h[s] = g[c] + h[s \ {c}]
  <2>1. s # {}
    BY <1>3
  <2>2. QED
    BY <1>3, <2>1 DEF IsSum, Some
<1> HIDE DEF c
<1>6. ASSUME NEW x \in s PROVE h[s] = g[x] + h[s \ {x}]
  <2>1. CASE x = c
    BY <1>5, <2>1
  <2>2. CASE x # c
    <3>1. (s \ {c}) \ {x} = (s \ {x}) \ {c}
      OBVIOUS
    <3>2. h[s \ {c}] = g[x] + h[(s \ {c}) \ {x}]
      BY <1>3, <1>5, <2>2
    <3>3. h[s \ {x}] = g[c] + h[(s \ {x}) \ {c}]
      BY <1>3, <1>5, <2>2
    <3>4. g[x] \in Int /\ g[c] \in Int /\ h[(s \ {c}) \ {x}] \in Int
      BY <1>3, <1>4, <1>5
    <3>5. h[s] = g[c] + (g[x] + h[(s \ {c}) \ {x}])
      BY <1>5, <3>2
    <3>6. h[s \ {x}] = g[c] + h[(s \ {c}) \ {x}]
      BY <3>1, <3>3
    <3>7. QED
      BY <3>4, <3>5, <3>6
  <2>3. QED
    BY <2>1, <2>2
<1>7. QED
  BY <1>3, <1>6

(* Sum, one element at a time.                                                 *)
LEMMA SumEmpty == ASSUME NEW g PROVE Sum(g, {}) = 0
<1>1. PICK h : IsSum(h, g, {}) /\ Sum(g, {}) = h[{}]
  BY SumIs, FS_EmptySet
<1>2. {} \in SUBSET {}
  OBVIOUS
<1>3. QED
  BY <1>1, <1>2 DEF IsSum

(* An element taken out of a sum.                                            *)
LEMMA SumSplit ==
    ASSUME NEW g, NEW S, IsFiniteSet(S), IsInteger(g, S)
    PROVE  /\ Sum(g, S) \in Int
           /\ \A x \in S : Sum(g, S) = g[x] + Sum(g, S \ {x})
<1>1. PICK h : IsSum(h, g, S) /\ Sum(g, S) = h[S]
  BY SumIs
<1>2. Sum(g, S) \in Int
  BY <1>1, SumInteger
<1>3. ASSUME NEW T \in SUBSET S PROVE Sum(g, T) = h[T]
  <2>1. IsFiniteSet(T)
    BY FS_Subset
  <2>2. PICK k : IsSum(k, g, T) /\ Sum(g, T) = k[T]
    BY <2>1, SumIs
  <2>3. T \in SUBSET T
    OBVIOUS
  <2>4. h[T] = k[T]
    BY <1>1, <2>2, <2>3, SumUnique
  <2>5. QED
    BY <2>2, <2>4
<1>4. ASSUME NEW x \in S PROVE Sum(g, S) = g[x] + Sum(g, S \ {x})
  <2>1. h[S] = g[x] + h[S \ {x}]
    BY <1>1, SumSplits
  <2>2. Sum(g, S \ {x}) = h[S \ {x}]
    BY <1>3
  <2>3. QED
    BY <1>1, <2>1, <2>2
<1>5. QED
  BY <1>2, <1>4

(* A summand is added.                                                         *)
LEMMA SumAdd ==
    ASSUME NEW g, NEW S, IsFiniteSet(S), NEW x, x \notin S, IsInteger(g, S \cup {x})
    PROVE  Sum(g, S \cup {x}) = Sum(g, S) + g[x]
<1>1. IsFiniteSet(S \cup {x}) /\ (S \cup {x}) \ {x} = S
  BY FS_AddElement
<1>2. Sum(g, S \cup {x}) = g[x] + Sum(g, S)
  BY <1>1, SumSplit
<1>3. Sum(g, S) \in Int /\ g[x] \in Int
  BY SumSplit DEF IsInteger
<1>4. QED
  BY <1>2, <1>3

(* Equal summands have equal sums.                                             *)
LEMMA SumSame ==
    ASSUME NEW f, NEW g, NEW S, IsFiniteSet(S), \A x \in S : f[x] = g[x]
    PROVE  Sum(f, S) = Sum(g, S)
<1>1. PICK h : IsSum(h, f, S) /\ Sum(f, S) = h[S]
  BY SumIs
<1>2. PICK k : IsSum(k, g, S) /\ Sum(g, S) = k[S]
  BY SumIs
<1>3. \A s \in SUBSET S : s # {} => f[Some(s)] = g[Some(s)]
  BY DEF Some
<1>4. h = [s \in SUBSET S |-> IF s = {} THEN 0 ELSE f[Some(s)] + h[s \ {Some(s)}]]
  BY <1>1 DEF IsSum
<1>5. IsSum(h, g, S)
  BY <1>3, <1>4 DEF IsSum
<1>6. S \in SUBSET S
  OBVIOUS
<1>7. h[S] = k[S]
  BY <1>2, <1>5, <1>6, SumUnique
<1>8. QED
  BY <1>1, <1>2, <1>7

(* One summand changes.                                                        *)
LEMMA SumUpdate ==
    ASSUME NEW f, NEW g, NEW S, IsFiniteSet(S), IsInteger(f, S), IsInteger(g, S),
           NEW x \in S, \A y \in S : y # x => f[y] = g[y]
    PROVE  Sum(g, S) = Sum(f, S) - f[x] + g[x]
<1> DEFINE T == S \ {x}
<1>1. IsFiniteSet(T) /\ IsInteger(f, T) /\ \A y \in T : f[y] = g[y]
  BY FS_Subset DEF IsInteger
<1>2. Sum(f, T) = Sum(g, T) /\ Sum(f, T) \in Int
  <2> HIDE DEF T
  <2>1. QED
    BY <1>1, SumSame, SumSplit
<1>3. Sum(f, S) = f[x] + Sum(f, T) /\ Sum(g, S) = g[x] + Sum(g, T)
  BY SumSplit
<1>4. f[x] \in Int /\ g[x] \in Int
  BY DEF IsInteger
<1>5. QED
  BY <1>2, <1>3, <1>4

(* Summands that are bounded have bounded sums: f[x] by k more than g[x].       *)
LEMMA SumBound ==
    ASSUME NEW f, NEW g, NEW S, IsFiniteSet(S), IsInteger(f, S), IsInteger(g, S),
           NEW k \in Int, \A x \in S : f[x] <= k + g[x]
    PROVE  Sum(f, S) <= k * Cardinality(S) + Sum(g, S)
<1> DEFINE Bad == {s \in SUBSET S : ~(Sum(f, s) <= k * Cardinality(s) + Sum(g, s))}
<1>1. SUFFICES ASSUME Bad # {} PROVE FALSE
  <2>1. S \in SUBSET S
    OBVIOUS
  <2>2. QED
    BY <2>1
<1>2. PICK s \in Bad : \A x \in s : s \ {x} \notin Bad
  <2>1. Bad \subseteq SUBSET S
    OBVIOUS
  <2> HIDE DEF Bad
  <2>2. QED
    BY <1>1, <2>1, Smallest
<1>3. s \in SUBSET S /\ IsFiniteSet(s) /\ IsInteger(f, s) /\ IsInteger(g, s)
      /\ ~(Sum(f, s) <= k * Cardinality(s) + Sum(g, s))
  BY <1>2, FS_Subset DEF IsInteger
<1>4. s # {}
  <2>1. Cardinality({}) = 0 /\ k * 0 = 0
    BY FS_EmptySet
  <2>2. QED
    BY <1>3, <2>1, SumEmpty
<1>5. PICK x \in s : TRUE
  BY <1>4
<1> DEFINE t == s \ {x}
<1>6. t \in SUBSET S /\ t \notin Bad
  BY <1>2, <1>3
<1>7. Sum(f, t) <= k * Cardinality(t) + Sum(g, t)
  BY <1>6
<1>8. /\ IsFiniteSet(t) /\ IsInteger(f, t) /\ IsInteger(g, t)
      /\ Cardinality(s) = Cardinality(t) + 1 /\ Cardinality(t) \in Nat
  <2>1. IsFiniteSet(t) /\ Cardinality(t) = Cardinality(s) - 1
    BY <1>3, <1>5, FS_RemoveElement
  <2>2. Cardinality(s) \in Nat /\ Cardinality(t) \in Nat
    BY <1>3, <2>1, FS_CardinalityType
  <2>3. IsInteger(f, t) /\ IsInteger(g, t)
    BY <1>3 DEF IsInteger
  <2> HIDE DEF t
  <2>4. QED
    BY <2>1, <2>2, <2>3
<1>9. /\ Sum(f, s) = f[x] + Sum(f, t) /\ Sum(g, s) = g[x] + Sum(g, t)
  BY <1>3, SumSplit
<1> HIDE DEF t
<1>10. /\ Sum(f, t) \in Int /\ Sum(g, t) \in Int
       /\ f[x] \in Int /\ g[x] \in Int /\ f[x] <= k + g[x]
  BY <1>3, <1>8, SumSplit DEF IsInteger
<1>11. k * Cardinality(s) = k * Cardinality(t) + k /\ k * Cardinality(t) \in Int
  BY <1>8
<1> HIDE DEF Bad
<1>12. QED
  BY <1>3, <1>7, <1>9, <1>10, <1>11

(* A sum of zeros.                                                           *)
LEMMA SumZero ==
    ASSUME NEW g, NEW S, IsFiniteSet(S), \A x \in S : g[x] = 0
    PROVE  Sum(g, S) = 0
<1> DEFINE Bad == {s \in SUBSET S : Sum(g, s) # 0}
<1>1. IsInteger(g, S)
  BY DEF IsInteger
<1>2. SUFFICES ASSUME Bad # {} PROVE FALSE
  <2>1. S \in SUBSET S
    OBVIOUS
  <2>2. QED
    BY <1>2, <2>1
<1>3. PICK s \in Bad : \A x \in s : s \ {x} \notin Bad
  BY <1>2, Smallest
<1>4. s \subseteq S /\ IsFiniteSet(s) /\ IsInteger(g, s) /\ Sum(g, s) # 0
  BY <1>1, <1>3, FS_Subset DEF IsInteger
<1>5. s # {}
  BY <1>4, SumEmpty
<1>6. PICK x \in s : TRUE
  BY <1>5
<1>7. Sum(g, s) = g[x] + Sum(g, s \ {x})
  BY <1>4, <1>6, SumSplit
<1>8. Sum(g, s \ {x}) = 0
  BY <1>3, <1>4, <1>6
<1>9. QED
  BY <1>4, <1>6, <1>7, <1>8

(* The sum of naturals is one.                                                 *)
LEMMA SumNatural ==
    ASSUME NEW g, NEW S, IsFiniteSet(S), \A x \in S : g[x] \in Nat
    PROVE  Sum(g, S) \in Nat
<1> DEFINE Bad == {s \in SUBSET S : ~(Sum(g, s) >= 0)}
<1>1. IsInteger(g, S)
  BY DEF IsInteger
<1>2. SUFFICES ASSUME Bad # {} PROVE FALSE
  <2>1. S \in SUBSET S /\ Sum(g, S) \in Int
    BY <1>1, SumSplit
  <2>2. QED
    BY <2>1
<1>3. PICK s \in Bad : \A x \in s : s \ {x} \notin Bad
  <2>1. Bad \subseteq SUBSET S
    OBVIOUS
  <2> HIDE DEF Bad
  <2>2. QED
    BY <1>2, <2>1, Smallest
<1>4. s \in SUBSET S /\ IsFiniteSet(s) /\ IsInteger(g, s) /\ ~(Sum(g, s) >= 0)
  BY <1>1, <1>3, FS_Subset DEF IsInteger
<1>5. s # {}
  BY <1>4, SumEmpty
<1>6. PICK x \in s : TRUE
  BY <1>5
<1>7. s \ {x} \in SUBSET S /\ IsFiniteSet(s \ {x}) /\ IsInteger(g, s \ {x})
  BY <1>4, FS_Subset DEF IsInteger
<1>8. Sum(g, s \ {x}) >= 0 /\ Sum(g, s \ {x}) \in Int
  BY <1>3, <1>7, SumSplit
<1>9. Sum(g, s) = g[x] + Sum(g, s \ {x}) /\ g[x] \in Nat
  BY <1>4, SumSplit
<1> HIDE DEF Bad
<1>10. QED
  BY <1>4, <1>8, <1>9

(* The sum of the images under an injection m.                                  *)
LEMMA SumImage ==
    ASSUME NEW f, NEW g, NEW m, NEW S, IsFiniteSet(S), IsInteger(f, S),
           \A x, y \in S : m[x] = m[y] => x = y,
           \A x \in S : g[m[x]] = f[x],
           NEW T, \A x \in S : m[x] \in T, \A y \in T : \E x \in S : y = m[x]
    PROVE  Sum(g, T) = Sum(f, S)
<1> DEFINE Of(s) == {m[x] : x \in s}
           Bad == {s \in SUBSET S : Sum(g, Of(s)) # Sum(f, s)}
<1>1. SUFFICES ASSUME Bad # {} PROVE FALSE
  <2>1. S \in SUBSET S /\ T = Of(S)
    OBVIOUS
  <2> HIDE DEF Of
  <2>2. QED
    BY <2>1
<1>2. PICK s \in Bad : \A x \in s : s \ {x} \notin Bad
  <2>1. Bad \subseteq SUBSET S
    OBVIOUS
  <2> HIDE DEF Bad
  <2>2. QED
    BY <1>1, <2>1, Smallest
<1>3. s \in SUBSET S /\ IsFiniteSet(s) /\ IsInteger(f, s) /\ Sum(g, Of(s)) # Sum(f, s)
  BY <1>2, FS_Subset DEF IsInteger
<1>4. IsFiniteSet(Of(s)) /\ IsInteger(g, Of(s))
  <2>1. IsFiniteSet(Of(s))
    <3> DEFINE r == [x \in s |-> m[x]]
    <3>1. r \in Surjection(s, Of(s))
      BY DEF Surjection
    <3>2. QED
      BY <1>3, <3>1, FS_Surjection
  <2>2. QED
    BY <1>3, <2>1 DEF IsInteger
<1>5. s # {}
  <2>1. SUFFICES ASSUME s = {} PROVE FALSE
    OBVIOUS
  <2>2. Of(s) = {}
    BY <2>1
  <2> HIDE DEF Of
  <2>3. QED
    BY <1>3, <2>1, <2>2, SumEmpty
<1>6. PICK x \in s : TRUE
  BY <1>5
<1>7. Of(s \ {x}) = Of(s) \ {m[x]} /\ m[x] \in Of(s)
  BY <1>3, <1>6
<1>8. Sum(g, Of(s \ {x})) = Sum(f, s \ {x})
  BY <1>2, <1>3
<1> HIDE DEF Of
<1>9. Sum(g, Of(s)) = g[m[x]] + Sum(g, Of(s) \ {m[x]})
  BY <1>4, <1>7, SumSplit
<1>10. Sum(f, s) = f[x] + Sum(f, s \ {x})
  BY <1>3, SumSplit
<1>11. QED
  BY <1>3, <1>6, <1>7, <1>8, <1>9, <1>10

(* Sums over positions: all of them move up by one.                             *)
LEMMA SumShift ==
    ASSUME NEW K, IsFiniteSet(K), K \subseteq Int, NEW f, NEW g, IsInteger(f, K),
           \A k \in K : g[k + 1] = f[k]
    PROVE  Sum(g, {k + 1 : k \in K}) = Sum(f, K)
<1> DEFINE m == [k \in K |-> k + 1]
           T == {k + 1 : k \in K}
<1>1. /\ \A x, y \in K : m[x] = m[y] => x = y
      /\ \A x \in K : g[m[x]] = f[x]
      /\ \A x \in K : m[x] \in T
      /\ \A y \in T : \E x \in K : y = m[x]
  OBVIOUS
<1>2. IsFiniteSet(K) /\ IsInteger(f, K)
  OBVIOUS
<1> HIDE DEF m, T
<1>3. Sum(g, T) = Sum(f, K)
  BY ONLY <1>1, <1>2, SumImage
<1>4. QED
  BY <1>3 DEF T

=============================================================================
