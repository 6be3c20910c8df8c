--------------------------------- MODULE Sums ---------------------------------
(***************************************************************************)
(* What the sum of a function over a finite set is, in whatever order its  *)
(* elements are added up: how it changes with the set, and with a value.   *)
(***************************************************************************)
EXTENDS FiniteSetTheorems, TLAPS

-----------------------------------------------------------------------------
(* Induction, over a set of naturals. *)

LEMMA LessIsWellFounded ==
  \E R : /\ IsWellFoundedOn(R, Nat)
         /\ \A m, n \in Nat : m < n => <<m, n>> \in R
<1>1. \A m, n \in Nat : m < n => <<m, n>> \in OpToRel(<, Nat)
  BY DEF OpToRel
<1> QED BY <1>1, NatLessThanWellFounded

LEMMA LeastNatural ==
  ASSUME NEW S, S \subseteq Nat, S # {}
  PROVE  \E n \in S : \A m \in S : n <= m
<1>1. PICK R : /\ IsWellFoundedOn(R, Nat)
               /\ \A m, n \in Nat : m < n => <<m, n>> \in R
  BY LessIsWellFounded
<1>2. IsWellFoundedOn(R, Nat)
  BY <1>1
<1>3. \A m, n \in Nat : m < n => <<m, n>> \in R
  BY <1>1
<1>4. PICK n \in S : \A m \in S : ~(<<m, n>> \in R)
  BY <1>2, WFMin, Zenon
<1>5. ASSUME NEW m \in S PROVE n <= m
  <2>1. m \in Nat /\ n \in Nat
    OBVIOUS
  <2>2. ~(m < n)
    BY <1>3, <1>4, <2>1
  <2> QED BY <2>1, <2>2
<1> QED BY <1>5

LEMMA AllNaturals ==
  ASSUME NEW P, 0 \in P, \A n \in Nat : n \in P => n + 1 \in P
  PROVE  \A n \in Nat : n \in P
<1> SUFFICES ASSUME Nat \ P # {} PROVE FALSE
  OBVIOUS
<1>1. PICK n \in Nat \ P : \A m \in Nat \ P : n <= m
  BY LeastNatural
<1>2. n # 0 /\ n - 1 \in Nat /\ (n - 1) + 1 = n /\ ~(n <= n - 1)
  BY <1>1
<1>3. n - 1 \in P
  BY <1>1, <1>2
<1> QED BY <1>1, <1>2, <1>3

-----------------------------------------------------------------------------
(* The function the sum is read from. *)

Picked(s) == CHOOSE x \in s : TRUE
SumFrom(f, g, s) == IF s = {} THEN 0 ELSE f[Picked(s)] + g[s \ {Picked(s)}]

\* g knows the sum of f over each subset of S, or of each small one.
SumsUp(f, g, S) == g = [s \in SUBSET S |-> SumFrom(f, g, s)]
Small(S, n) == {s \in SUBSET S : Cardinality(s) <= n}
SumsUpSmall(f, g, S, n) == g = [s \in Small(S, n) |-> SumFrom(f, g, s)]

\* A set loses an element.
LEMMA OneLess ==
  ASSUME NEW s, IsFiniteSet(s), NEW x \in s
  PROVE  /\ IsFiniteSet(s \ {x}) /\ Cardinality(s) \in Nat \ {0}
         /\ Cardinality(s \ {x}) = Cardinality(s) - 1
<1>1. IsFiniteSet(s \ {x}) /\ Cardinality(s \ {x}) = Cardinality(s) - 1
  BY FS_RemoveElement
<1>2. Cardinality(s) \in Nat /\ Cardinality(s \ {x}) \in Nat
  BY <1>1, FS_CardinalityType
<1> QED BY <1>1, <1>2

LEMMA PickedIsElement ==
  ASSUME NEW s, s # {}
  PROVE  Picked(s) \in s
  BY DEF Picked

LEMMA SmallSums ==
  ASSUME NEW f, NEW S, IsFiniteSet(S)
  PROVE  \A n \in Nat : \E g : SumsUpSmall(f, g, S, n)
<1> DEFINE P == {n \in Nat : \E g : SumsUpSmall(f, g, S, n)}
<1>1. \A s \in SUBSET S : IsFiniteSet(s) /\ Cardinality(s) \in Nat
  BY FS_Subset, FS_CardinalityType
<1>2. 0 \in P
  <2> DEFINE g == [s \in Small(S, 0) |-> 0]
  <2>1. \A s \in Small(S, 0) : s = {}
    BY <1>1, FS_EmptySet DEF Small
  <2>2. SumsUpSmall(f, g, S, 0)
    BY <2>1 DEF SumsUpSmall, SumFrom
  <2> QED BY <2>2
<1>3. ASSUME NEW n \in Nat, n \in P PROVE n + 1 \in P
  <2>1. PICK g : SumsUpSmall(f, g, S, n)
    BY <1>3
  <2> DEFINE h == [s \in Small(S, n + 1) |-> SumFrom(f, g, s)]
  <2>2. \A s \in Small(S, n) : s \in Small(S, n + 1)
    BY <1>1, <1>3 DEF Small
  <2>3. \A s \in Small(S, n) : g[s] = h[s]
    BY <2>1, <2>2 DEF SumsUpSmall
  <2>4. \A s \in Small(S, n + 1) : s # {} => s \ {Picked(s)} \in Small(S, n)
    BY <1>1, <1>3, OneLess, PickedIsElement DEF Small
  <2>5. \A s \in Small(S, n + 1) : SumFrom(f, g, s) = SumFrom(f, h, s)
    BY <2>3, <2>4 DEF SumFrom
  <2>6. h = [s \in Small(S, n + 1) |-> SumFrom(f, h, s)]
    BY <2>5
  <2>7. SumsUpSmall(f, h, S, n + 1)
    BY <2>6 DEF SumsUpSmall
  <2> QED BY <2>7
<1> HIDE DEF P
<1>4. \A n \in Nat : n \in P
  BY <1>2, <1>3, AllNaturals
<1> QED BY <1>4 DEF P

LEMMA SumExists ==
  ASSUME NEW f, NEW S, IsFiniteSet(S)
  PROVE  \E g : SumsUp(f, g, S)
<1>1. Cardinality(S) \in Nat
  BY FS_CardinalityType
<1>2. PICK g : SumsUpSmall(f, g, S, Cardinality(S))
  BY <1>1, SmallSums
<1>3. Small(S, Cardinality(S)) = SUBSET S
  BY FS_Subset DEF Small
<1> QED BY <1>2, <1>3 DEF SumsUpSmall, SumsUp

\* Two such functions agree on what both know.
LEMMA SumIsOne ==
  ASSUME NEW f, NEW e, NEW g, NEW h, NEW R, NEW S,
         IsFiniteSet(S), R \subseteq S, SumsUp(f, g, R), SumsUp(e, h, S),
         \A x \in R : f[x] = e[x]
  PROVE  g[R] = h[R]
<1> DEFINE P == {n \in Nat : \A s \in SUBSET R : Cardinality(s) = n => g[s] = h[s]}
<1>1. \A s \in SUBSET R : /\ IsFiniteSet(s) /\ Cardinality(s) \in Nat
                          /\ g[s] = SumFrom(f, g, s) /\ h[s] = SumFrom(e, h, s)
  BY FS_Subset, FS_CardinalityType DEF SumsUp
<1>2. 0 \in P
  BY <1>1, FS_EmptySet DEF SumFrom
<1>3. ASSUME NEW n \in Nat, n \in P PROVE n + 1 \in P
  <2>1. ASSUME NEW s \in SUBSET R, Cardinality(s) = n + 1 PROVE g[s] = h[s]
    <3>1. s # {}
      BY <1>1, <2>1, FS_EmptySet
    <3>2. Picked(s) \in s
      BY <3>1, PickedIsElement
    <3>3. Cardinality(s \ {Picked(s)}) = n
      BY <1>1, <2>1, <3>2, OneLess
    <3>4. g[s \ {Picked(s)}] = h[s \ {Picked(s)}]
      BY <1>3, <3>3
    <3> QED BY <1>1, <3>1, <3>2, <3>4 DEF SumFrom
  <2> QED BY <2>1
<1> HIDE DEF P
<1>4. \A n \in Nat : n \in P
  BY <1>2, <1>3, AllNaturals
<1>5. Cardinality(R) \in Nat
  BY <1>1
<1> QED BY <1>4, <1>5 DEF P

LEMMA SumIsRead ==
  ASSUME NEW f, NEW S, IsFiniteSet(S)
  PROVE  \E g : SumsUp(f, g, S) /\ SumFunctionOnSet(f, S) = g[S]
<1> DEFINE g == CHOOSE h : SumsUp(f, h, S)
<1>1. SumsUp(f, g, S)
  BY SumExists
<1>2. SumFunctionOnSet(f, S) = g[S]
  BY DEF SumFunctionOnSet, FoldFunctionOnSet, MapThenFoldSet, SumsUp, SumFrom, Picked
<1> QED BY <1>1, <1>2

-----------------------------------------------------------------------------
(* What a sum is. *)

Total(f, S) == SumFunctionOnSet(f, S)

LEMMA SumOfNothing ==
  ASSUME NEW f
  PROVE  Total(f, {}) = 0
<1>1. IsFiniteSet({})
  BY FS_EmptySet
<1>2. PICK g : SumsUp(f, g, {}) /\ Total(f, {}) = g[{}]
  BY <1>1, SumIsRead DEF Total
<1> QED BY <1>2 DEF SumsUp, SumFrom

\* The sum looks at its set only.
LEMMA SumSame ==
  ASSUME NEW f, NEW e, NEW S, IsFiniteSet(S), \A x \in S : f[x] = e[x]
  PROVE  Total(f, S) = Total(e, S)
<1>1. PICK g : SumsUp(f, g, S) /\ Total(f, S) = g[S]
  BY SumIsRead DEF Total
<1>2. PICK h : SumsUp(e, h, S) /\ Total(e, S) = h[S]
  BY SumIsRead DEF Total
<1>3. g[S] = h[S]
  BY <1>1, <1>2, SumIsOne
<1> QED BY <1>1, <1>2, <1>3

LEMMA SumFromPicked ==
  ASSUME NEW f, NEW S, IsFiniteSet(S), S # {}
  PROVE  Total(f, S) = f[Picked(S)] + Total(f, S \ {Picked(S)})
<1> DEFINE R == S \ {Picked(S)}
<1>1. Picked(S) \in S /\ R \subseteq S /\ IsFiniteSet(R)
  BY PickedIsElement, FS_Subset
<1>2. PICK g : SumsUp(f, g, S) /\ Total(f, S) = g[S]
  BY SumIsRead DEF Total
<1>3. PICK h : SumsUp(f, h, R) /\ Total(f, R) = h[R]
  BY <1>1, SumIsRead DEF Total
<1> HIDE DEF R
<1>4. h[R] = g[R]
  BY <1>1, <1>2, <1>3, SumIsOne
<1>5. g[S] = f[Picked(S)] + g[R]
  BY <1>1, <1>2 DEF SumsUp, SumFrom, R
<1> QED BY <1>2, <1>3, <1>4, <1>5 DEF R

LEMMA SumType ==
  ASSUME NEW S, IsFiniteSet(S), NEW f, \A x \in S : f[x] \in Nat
  PROVE  Total(f, S) \in Nat
<1> DEFINE P == {n \in Nat : \A R \in SUBSET S :
                               Cardinality(R) = n => Total(f, R) \in Nat}
<1>1. \A R \in SUBSET S : IsFiniteSet(R) /\ Cardinality(R) \in Nat
  BY FS_Subset, FS_CardinalityType
<1>2. 0 \in P
  BY <1>1, FS_EmptySet, SumOfNothing
<1>3. ASSUME NEW n \in Nat, n \in P PROVE n + 1 \in P
  <2>1. ASSUME NEW R \in SUBSET S, Cardinality(R) = n + 1 PROVE Total(f, R) \in Nat
    <3>1. R # {} /\ IsFiniteSet(R)
      BY <1>1, <2>1, FS_EmptySet
    <3>2. Picked(R) \in R
      BY <3>1, PickedIsElement
    <3>3. Cardinality(R \ {Picked(R)}) = n
      BY <2>1, <3>1, <3>2, OneLess
    <3>4. Total(f, R \ {Picked(R)}) \in Nat
      BY <1>3, <3>3
    <3>5. Total(f, R) = f[Picked(R)] + Total(f, R \ {Picked(R)})
      BY <3>1, SumFromPicked
    <3> QED BY <3>2, <3>4, <3>5
  <2> QED BY <2>1
<1> HIDE DEF P
<1>4. \A n \in Nat : n \in P
  BY <1>2, <1>3, AllNaturals
<1> QED BY <1>1, <1>4 DEF P

\* Any element may be the first.
LEMMA SumWithout ==
  ASSUME NEW S, IsFiniteSet(S), NEW f, \A x \in S : f[x] \in Nat, NEW y \in S
  PROVE  Total(f, S) = f[y] + Total(f, S \ {y})
<1> DEFINE P == {n \in Nat : \A R \in SUBSET S : Cardinality(R) = n =>
                    \A x \in R : Total(f, R) = f[x] + Total(f, R \ {x})}
<1>1. \A R \in SUBSET S : IsFiniteSet(R) /\ Cardinality(R) \in Nat
  BY FS_Subset, FS_CardinalityType
<1>2. 0 \in P
  BY <1>1, FS_EmptySet
<1>3. ASSUME NEW n \in Nat, n \in P PROVE n + 1 \in P
  <2>1. ASSUME NEW R \in SUBSET S, Cardinality(R) = n + 1, NEW x \in R
        PROVE  Total(f, R) = f[x] + Total(f, R \ {x})
    <3> DEFINE p == Picked(R)
    <3>1. IsFiniteSet(R) /\ p \in R
      BY <1>1, PickedIsElement
    <3>2. Total(f, R) = f[p] + Total(f, R \ {p})
      BY <3>1, SumFromPicked
    <3> HIDE DEF p
    <3>3. CASE x # p
      <4>1. Cardinality(R \ {p}) = n /\ Cardinality(R \ {x}) = n
        BY <2>1, <3>1, OneLess
      <4>2. Total(f, R \ {p}) = f[x] + Total(f, (R \ {p}) \ {x})
        BY <1>3, <3>3, <4>1
      <4>3. Total(f, R \ {x}) = f[p] + Total(f, (R \ {x}) \ {p})
        BY <1>3, <3>1, <3>3, <4>1
      <4>4. (R \ {p}) \ {x} = (R \ {x}) \ {p}
        OBVIOUS
      <4>5. Total(f, (R \ {p}) \ {x}) \in Nat
        <5>1. (R \ {p}) \ {x} \in SUBSET S
          OBVIOUS
        <5> QED BY <1>1, <5>1, SumType
      <4>6. f[p] \in Nat /\ f[x] \in Nat
        BY <3>1
      <4> QED BY <3>2, <4>2, <4>3, <4>4, <4>5, <4>6
    <3> QED BY <3>2, <3>3
  <2> QED BY <2>1
<1> HIDE DEF P
<1>4. \A n \in Nat : n \in P
  BY <1>2, <1>3, AllNaturals
<1> QED BY <1>1, <1>4 DEF P

LEMMA SumWith ==
  ASSUME NEW S, IsFiniteSet(S), NEW f, NEW y, y \notin S,
         \A x \in S \cup {y} : f[x] \in Nat
  PROVE  Total(f, S \cup {y}) = f[y] + Total(f, S)
<1>1. IsFiniteSet(S \cup {y})
  BY FS_AddElement
<1>2. (S \cup {y}) \ {y} = S
  OBVIOUS
<1> QED BY <1>1, <1>2, SumWithout

\* One value changes.
LEMMA SumChanges ==
  ASSUME NEW S, IsFiniteSet(S), NEW y \in S,
         NEW f, \A x \in S : f[x] \in Nat, NEW e, \A x \in S : e[x] \in Nat,
         \A x \in S \ {y} : f[x] = e[x]
  PROVE  Total(e, S) = Total(f, S) - f[y] + e[y]
<1>1. IsFiniteSet(S \ {y})
  BY FS_RemoveElement
<1>2. Total(f, S) = f[y] + Total(f, S \ {y}) /\ Total(e, S) = e[y] + Total(e, S \ {y})
  BY SumWithout
<1>3. Total(f, S \ {y}) = Total(e, S \ {y})
  BY <1>1, SumSame
<1>4. Total(f, S \ {y}) \in Nat
  BY <1>1, SumType
<1> QED BY <1>2, <1>3, <1>4

\* A sum of naturals grows with its set.
LEMMA SumGrows ==
  ASSUME NEW S, IsFiniteSet(S), NEW f, \A x \in S : f[x] \in Nat,
         NEW T \in SUBSET S
  PROVE  Total(f, T) <= Total(f, S)
<1> DEFINE P == {n \in Nat : \A R \in SUBSET S : Cardinality(R) = n /\ T \subseteq R =>
                                Total(f, T) <= Total(f, R)}
<1>1. \A R \in SUBSET S : /\ IsFiniteSet(R) /\ Cardinality(R) \in Nat
                          /\ Total(f, R) \in Nat
  BY FS_Subset, FS_CardinalityType, SumType
<1>2. 0 \in P
  BY <1>1, FS_EmptySet
<1>3. ASSUME NEW n \in Nat, n \in P PROVE n + 1 \in P
  <2>1. ASSUME NEW R \in SUBSET S, Cardinality(R) = n + 1, T \subseteq R
        PROVE  Total(f, T) <= Total(f, R)
    <3>1. CASE T # R
      <4>1. PICK x \in R : x \notin T
        BY <2>1, <3>1
      <4>2. Cardinality(R \ {x}) = n
        BY <1>1, <2>1, OneLess
      <4>3. Total(f, T) <= Total(f, R \ {x})
        BY <1>3, <2>1, <4>1, <4>2
      <4>4. Total(f, R) = f[x] + Total(f, R \ {x})
        BY <1>1, SumWithout
      <4>5. f[x] \in Nat /\ Total(f, R \ {x}) \in Nat /\ Total(f, T) \in Nat
        BY <1>1
      <4> QED BY <4>3, <4>4, <4>5
    <3> QED BY <1>1, <3>1
  <2> QED BY <2>1
<1> HIDE DEF P
<1>4. \A n \in Nat : n \in P
  BY <1>2, <1>3, AllNaturals
<1> QED BY <1>1, <1>4 DEF P

\* A sum of naturals is nothing only when all of them are.
LEMMA SumIsNothing ==
  ASSUME NEW S, IsFiniteSet(S), NEW f, \A x \in S : f[x] \in Nat
  PROVE  Total(f, S) = 0 <=> \A x \in S : f[x] = 0
<1>1. ASSUME NEW y \in S, Total(f, S) = 0 PROVE f[y] = 0
  <2>1. Total(f, S) = f[y] + Total(f, S \ {y})
    BY SumWithout
  <2>2. Total(f, S \ {y}) \in Nat
    BY FS_RemoveElement, SumType
  <2> QED BY <1>1, <2>1, <2>2
<1>2. ASSUME \A x \in S : f[x] = 0 PROVE Total(f, S) = 0
  <2>1. CASE S = {}
    BY <2>1, SumOfNothing
  <2>2. CASE S # {}
    <3> DEFINE P == {n \in Nat : \A R \in SUBSET S : Cardinality(R) = n => Total(f, R) = 0}
    <3>1. \A R \in SUBSET S : IsFiniteSet(R) /\ Cardinality(R) \in Nat
      BY FS_Subset, FS_CardinalityType
    <3>2. 0 \in P
      BY <3>1, FS_EmptySet, SumOfNothing
    <3>3. ASSUME NEW n \in Nat, n \in P PROVE n + 1 \in P
      <4>1. ASSUME NEW R \in SUBSET S, Cardinality(R) = n + 1 PROVE Total(f, R) = 0
        <5>1. R # {} /\ IsFiniteSet(R)
          BY <3>1, <4>1, FS_EmptySet
        <5>2. PICK x \in R : TRUE
          BY <5>1
        <5>3. Total(f, R \ {x}) = 0
          BY <3>3, <4>1, <5>1, OneLess
        <5>4. Total(f, R) = f[x] + Total(f, R \ {x})
          BY <5>1, SumWithout
        <5> QED BY <1>2, <5>3, <5>4
      <4> QED BY <4>1
    <3> HIDE DEF P
    <3>4. \A n \in Nat : n \in P
      BY <3>2, <3>3, AllNaturals
    <3> QED BY <3>1, <3>4 DEF P
  <2> QED BY <2>1, <2>2
<1> QED BY <1>1, <1>2
=============================================================================
