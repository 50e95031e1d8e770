-------------------------------- MODULE Sums -------------------------------
(***************************************************************************)
(* Facts about SumFunctionOnSet, the community modules' sum of a function  *)
(* over a finite set, on which the totals of the models are built.  The    *)
(* operator is defined by recursion over subsets, in the order in which    *)
(* CHOOSE picks the elements.  Induction is by the minimal set that lacks  *)
(* a property: the strict-subset ordering of a finite set is well-founded. *)
(***************************************************************************)
EXTENDS Functions, FiniteSetTheorems, WellFoundedInduction, TLAPS

\* The element that the sum of s takes first
First(s) == CHOOSE x \in s : TRUE

\* Subset induction, the property given as the set of the subsets that have it.
LEMMA SubsetInduction ==
    ASSUME NEW S, IsFiniteSet(S), NEW P,
           \A T \in SUBSET S : (\A x \in T : T \ {x} \in P) => T \in P
    PROVE  SUBSET S \subseteq P
<1> SUFFICES ASSUME ~(SUBSET S \subseteq P) PROVE FALSE
  OBVIOUS
<1> DEFINE Bad == (SUBSET S) \ P
           R == StrictSubsetOrdering(S)
<1>1. Bad \subseteq SUBSET S /\ Bad # {}
  OBVIOUS
<1>2. IsWellFoundedOn(R, SUBSET S)
  <2>1. IsWellFoundedOn(StrictSubsetOrdering(S), FiniteSubsetsOf(S))
    BY FS_StrictSubsetOrderingWellFounded
  <2>2. FiniteSubsetsOf(S) = SUBSET S
    BY FS_FiniteSubsetsOfFinite
  <2>3. QED BY <2>1, <2>2
<1> HIDE DEF R, Bad
<1>3. PICK T \in Bad : \A U \in Bad : ~(<<U, T>> \in R)
  BY <1>1, <1>2, WFMin
<1>4. T \in SUBSET S /\ T \notin P
  BY DEF Bad
<1>5. PICK x \in T : T \ {x} \notin P
  BY <1>4
<1>6. T \ {x} \in Bad
  BY <1>4, <1>5 DEF Bad
<1>7. <<T \ {x}, T>> \in R
  BY <1>4, <1>5 DEF R, StrictSubsetOrdering
<1>8. QED BY <1>3, <1>6, <1>7

\* g holds the sums of f over all subsets of S
IsSum(g, f, S) ==
    g = [s \in SUBSET S |-> IF s = {} THEN 0 ELSE f[First(s)] + g[s \ {First(s)}]]

\* Table of the sums of f over the subsets of S, where there is one
Table(f, S) == CHOOSE g : IsSum(g, f, S)

\* The library's sum is the table's entry.
LEMMA SumIsTable ==
    ASSUME NEW f, NEW S
    PROVE  SumFunctionOnSet(f, S) = Table(f, S)[S]
BY DEF SumFunctionOnSet, FoldFunctionOnSet, MapThenFoldSet, Table, IsSum, First

\* A table over S holds the table over each of its subsets.
LEMMA TableRestricts ==
    ASSUME NEW f, NEW S, NEW T \in SUBSET S, NEW g, IsSum(g, f, S)
    PROVE  IsSum([s \in SUBSET T |-> g[s]], f, T)
<1> DEFINE h == [s \in SUBSET T |-> g[s]]
<1>1. \A s \in SUBSET T : g[s] = IF s = {} THEN 0 ELSE f[First(s)] + g[s \ {First(s)}]
  BY DEF IsSum
<1>2. \A s \in SUBSET T : g[s] = IF s = {} THEN 0 ELSE f[First(s)] + h[s \ {First(s)}]
  BY <1>1
<1>3. h = [s \in SUBSET T |-> IF s = {} THEN 0 ELSE f[First(s)] + h[s \ {First(s)}]]
  BY <1>2
<1>4. QED BY <1>3 DEF IsSum

\* There is at most one table.
LEMMA TableUnique ==
    ASSUME NEW f, NEW S, IsFiniteSet(S), NEW g, IsSum(g, f, S), NEW h, IsSum(h, f, S)
    PROVE  g = h
<1> DEFINE P == {s \in SUBSET S : g[s] = h[s]}
<1>1. \A s \in SUBSET S : /\ g[s] = IF s = {} THEN 0 ELSE f[First(s)] + g[s \ {First(s)}]
                          /\ h[s] = IF s = {} THEN 0 ELSE f[First(s)] + h[s \ {First(s)}]
  BY DEF IsSum
<1>2. ASSUME NEW T \in SUBSET S, \A x \in T : T \ {x} \in P
      PROVE  T \in P
  <2>1. T # {} => First(T) \in T
    BY DEF First
  <2>2. T # {} => g[T \ {First(T)}] = h[T \ {First(T)}]
    BY <1>2, <2>1
  <2>3. QED BY <1>1, <2>2
<1> HIDE DEF P
<1>3. SUBSET S \subseteq P
  BY <1>2, SubsetInduction
<1>4. \A s \in SUBSET S : g[s] = h[s]
  BY <1>3 DEF P
<1>5. g = [s \in SUBSET S |-> g[s]] /\ h = [s \in SUBSET S |-> h[s]]
  BY DEF IsSum
<1>6. QED BY <1>4, <1>5

\* Every function has its table over a finite set.
LEMMA TableExists ==
    ASSUME NEW f, NEW S, IsFiniteSet(S)
    PROVE  IsSum(Table(f, S), f, S)
<1> DEFINE P == {T \in SUBSET S : IsSum(Table(f, T), f, T)}
<1>1. ASSUME NEW T \in SUBSET S, \A x \in T : T \ {x} \in P
      PROVE  T \in P
  <2> DEFINE Val(s) == Table(f, s)[s]
             g == [s \in SUBSET T |-> IF s = {} THEN 0 ELSE f[First(s)] + Val(s \ {First(s)})]
  <2>1. ASSUME NEW s \in SUBSET T, s # {}
        PROVE  g[s \ {First(s)}] = Val(s \ {First(s)})
    <3> DEFINE x == First(s)
               u == s \ {x}
               W == T \ {x}
    <3>1. x \in T /\ x \in s
      BY <2>1 DEF First
    <3>2. IsSum(Table(f, W), f, W) /\ IsFiniteSet(W) /\ u \in SUBSET W /\ W \in SUBSET S
      BY <1>1, <3>1, FS_Subset
    <3> HIDE DEF x, u, W
    <3>3. ASSUME NEW v \in SUBSET W PROVE Val(v) = Table(f, W)[v]
      <4> DEFINE h == [r \in SUBSET v |-> Table(f, W)[r]]
      <4>1. IsSum(h, f, v)
        BY <3>2, TableRestricts
      <4> HIDE DEF h
      <4>2. IsSum(Table(f, v), f, v)
        BY <4>1 DEF Table
      <4>3. IsFiniteSet(v)
        BY <3>2, FS_Subset
      <4>4. Table(f, v) = h
        BY <4>1, <4>2, <4>3, TableUnique
      <4>5. QED BY <4>4 DEF h
    <3>4. \A v \in SUBSET W : Val(v) = IF v = {} THEN 0 ELSE f[First(v)] + Val(v \ {First(v)})
      <4>1. ASSUME NEW v \in SUBSET W
            PROVE  Table(f, W)[v] = IF v = {} THEN 0 ELSE f[First(v)] + Table(f, W)[v \ {First(v)}]
        BY <3>2 DEF IsSum
      <4>2. QED BY <3>3, <4>1
    <3>5. u \in SUBSET T
      BY <3>2 DEF W
    <3>6. QED BY <3>2, <3>4, <3>5 DEF x, u
  <2>2. IsSum(g, f, T)
    <3>1. ASSUME NEW s \in SUBSET T
          PROVE  g[s] = IF s = {} THEN 0 ELSE f[First(s)] + g[s \ {First(s)}]
      BY <2>1
    <3>2. g = [s \in SUBSET T |-> g[s]]
      OBVIOUS
    <3> HIDE DEF g
    <3>3. g = [s \in SUBSET T |-> IF s = {} THEN 0 ELSE f[First(s)] + g[s \ {First(s)}]]
      BY <3>1, <3>2
    <3>4. QED BY <3>3 DEF IsSum
  <2> HIDE DEF g
  <2>3. QED BY <2>2 DEF Table
<1> HIDE DEF P
<1>2. SUBSET S \subseteq P
  BY <1>1, SubsetInduction
<1>3. QED BY <1>2 DEF P

-----------------------------------------------------------------------------
(* The facts that other modules cite *)

\* A sum takes its first element, then the others.
LEMMA SumFirst ==
    ASSUME NEW f, NEW S, IsFiniteSet(S), S # {}
    PROVE  /\ First(S) \in S
           /\ SumFunctionOnSet(f, S) = f[First(S)] + SumFunctionOnSet(f, S \ {First(S)})
<1> DEFINE x == First(S)
           T == S \ {x}
           h == [s \in SUBSET T |-> Table(f, S)[s]]
<1>1. x \in S
  BY DEF First
<1>2. IsSum(Table(f, S), f, S)
  BY TableExists
<1>3. IsFiniteSet(T) /\ T \in SUBSET S
  BY FS_Subset
<1> HIDE DEF T, x
<1>4. IsSum(h, f, T)
  BY <1>2, <1>3, TableRestricts
<1>5. IsSum(Table(f, T), f, T)
  BY <1>3, TableExists
<1> HIDE DEF h
<1>6. Table(f, T) = h
  BY <1>3, <1>4, <1>5, TableUnique
<1>7. Table(f, T)[T] = Table(f, S)[T]
  BY <1>6 DEF h
<1>8. Table(f, S)[S] = f[x] + Table(f, S)[T]
  BY <1>2 DEF IsSum, x, T
<1>9. SumFunctionOnSet(f, S) = f[x] + SumFunctionOnSet(f, T)
  BY <1>7, <1>8, SumIsTable
<1>10. QED BY <1>1, <1>9 DEF x, T

\* The sum of nothing is 0.
LEMMA SumEmpty ==
    ASSUME NEW f
    PROVE  SumFunctionOnSet(f, {}) = 0
<1>1. IsFiniteSet({})
  BY FS_EmptySet
<1>2. IsSum(Table(f, {}), f, {})
  BY <1>1, TableExists
<1>3. Table(f, {})[{}] = 0
  BY <1>2 DEF IsSum
<1>4. QED BY <1>3, SumIsTable

\* A sum of integers is an integer.
LEMMA SumInt ==
    ASSUME NEW S, IsFiniteSet(S), NEW f, \A x \in S : f[x] \in Int
    PROVE  SumFunctionOnSet(f, S) \in Int
<1> DEFINE P == {T \in SUBSET S : SumFunctionOnSet(f, T) \in Int}
<1>1. ASSUME NEW T \in SUBSET S, \A x \in T : T \ {x} \in P
      PROVE  T \in P
  <2>1. CASE T = {}
    BY <2>1, SumEmpty
  <2>2. CASE T # {}
    <3>1. /\ First(T) \in T
          /\ SumFunctionOnSet(f, T) = f[First(T)] + SumFunctionOnSet(f, T \ {First(T)})
      BY <2>2, SumFirst, FS_Subset
    <3>2. f[First(T)] \in Int /\ SumFunctionOnSet(f, T \ {First(T)}) \in Int
      BY <1>1, <3>1
    <3>3. QED BY <3>1, <3>2
  <2>3. QED BY <2>1, <2>2
<1> HIDE DEF P
<1>2. SUBSET S \subseteq P
  BY <1>1, SubsetInduction
<1>3. QED BY <1>2 DEF P

\* Any element may be taken first.
LEMMA SumRemove ==
    ASSUME NEW S, IsFiniteSet(S), NEW f, \A x \in S : f[x] \in Int, NEW a \in S
    PROVE  SumFunctionOnSet(f, S) = f[a] + SumFunctionOnSet(f, S \ {a})
<1> DEFINE Sum(T) == SumFunctionOnSet(f, T)
           P == {T \in SUBSET S : \A b \in T : Sum(T) = f[b] + Sum(T \ {b})}
<1>0. \A T \in SUBSET S : Sum(T) \in Int
  BY SumInt, FS_Subset
<1>1. \A T \in SUBSET S : T # {} => First(T) \in T /\ Sum(T) = f[First(T)] + Sum(T \ {First(T)})
  BY SumFirst, FS_Subset
<1> HIDE DEF Sum
<1>2. ASSUME NEW T \in SUBSET S, \A x \in T : T \ {x} \in P, NEW b \in T
      PROVE  Sum(T) = f[b] + Sum(T \ {b})
  <2> DEFINE c == First(T)
  <2>1. c \in T /\ Sum(T) = f[c] + Sum(T \ {c})
    BY <1>1
  <2> HIDE DEF c
  <2>2. CASE b = c
    BY <2>1, <2>2
  <2>3. CASE b # c
    <3>1. Sum(T \ {c}) = f[b] + Sum((T \ {c}) \ {b})
      BY <1>2, <2>1, <2>3
    <3>2. Sum(T \ {b}) = f[c] + Sum((T \ {b}) \ {c})
      BY <1>2, <2>1, <2>3
    <3>3. (T \ {c}) \ {b} = (T \ {b}) \ {c}
      OBVIOUS
    <3>4. f[b] \in Int /\ f[c] \in Int /\ Sum((T \ {b}) \ {c}) \in Int
      BY <1>0, <2>1
    <3> DEFINE r == Sum((T \ {b}) \ {c})
    <3>5. Sum(T) = f[c] + (f[b] + r) /\ Sum(T \ {b}) = f[c] + r
      BY <2>1, <3>1, <3>2, <3>3
    <3> HIDE DEF r
    <3>6. f[c] + (f[b] + r) = f[b] + (f[c] + r)
      BY <3>4 DEF r
    <3>7. QED BY <3>5, <3>6
  <2>4. QED BY <2>2, <2>3
<1>3. \A T \in SUBSET S : (\A x \in T : T \ {x} \in P) => T \in P
  BY <1>2
<1> HIDE DEF P
<1>4. SUBSET S \subseteq P
  BY <1>3, SubsetInduction
<1>5. QED BY <1>4 DEF P, Sum

\* Functions that agree on a set have the same sum over it.
LEMMA SumAgree ==
    ASSUME NEW S, IsFiniteSet(S), NEW f, NEW g, \A x \in S : f[x] = g[x]
    PROVE  SumFunctionOnSet(f, S) = SumFunctionOnSet(g, S)
<1> DEFINE P == {T \in SUBSET S : SumFunctionOnSet(f, T) = SumFunctionOnSet(g, T)}
<1>1. ASSUME NEW T \in SUBSET S, \A x \in T : T \ {x} \in P
      PROVE  T \in P
  <2>1. CASE T = {}
    BY <2>1, SumEmpty
  <2>2. CASE T # {}
    <3>1. /\ First(T) \in T
          /\ SumFunctionOnSet(f, T) = f[First(T)] + SumFunctionOnSet(f, T \ {First(T)})
          /\ SumFunctionOnSet(g, T) = g[First(T)] + SumFunctionOnSet(g, T \ {First(T)})
      BY <2>2, SumFirst, FS_Subset
    <3>2. QED BY <1>1, <3>1
  <2>3. QED BY <2>1, <2>2
<1> HIDE DEF P
<1>2. SUBSET S \subseteq P
  BY <1>1, SubsetInduction
<1>3. QED BY <1>2 DEF P

\* Changing the function at one element moves the sum by the difference.
LEMMA SumChange ==
    ASSUME NEW S, IsFiniteSet(S), NEW a \in S, NEW f, NEW g,
           \A x \in S : f[x] \in Int /\ g[x] \in Int,
           \A x \in S \ {a} : f[x] = g[x]
    PROVE  SumFunctionOnSet(g, S) = SumFunctionOnSet(f, S) - f[a] + g[a]
<1> DEFINE T == S \ {a}
<1>1. IsFiniteSet(T)
  BY FS_Subset
<1>2. /\ SumFunctionOnSet(f, S) = f[a] + SumFunctionOnSet(f, T)
      /\ SumFunctionOnSet(g, S) = g[a] + SumFunctionOnSet(g, T)
  BY SumRemove
<1>3. SumFunctionOnSet(f, T) = SumFunctionOnSet(g, T) /\ SumFunctionOnSet(f, T) \in Int
  BY <1>1, SumAgree, SumInt
<1>4. QED BY <1>2, <1>3

\* The sum of sums, term by term.
LEMMA SumAdd ==
    ASSUME NEW S, IsFiniteSet(S), NEW f, NEW g, NEW h,
           \A x \in S : f[x] \in Int /\ g[x] \in Int /\ h[x] = f[x] + g[x]
    PROVE  SumFunctionOnSet(h, S) = SumFunctionOnSet(f, S) + SumFunctionOnSet(g, S)
<1> DEFINE P == {T \in SUBSET S :
                    SumFunctionOnSet(h, T) = SumFunctionOnSet(f, T) + SumFunctionOnSet(g, T)}
<1>1. ASSUME NEW T \in SUBSET S, \A x \in T : T \ {x} \in P
      PROVE  T \in P
  <2>1. CASE T = {}
    BY <2>1, SumEmpty
  <2>2. CASE T # {}
    <3> DEFINE c == First(T)
               V == T \ {c}
    <3>1. /\ c \in T
          /\ SumFunctionOnSet(f, T) = f[c] + SumFunctionOnSet(f, V)
          /\ SumFunctionOnSet(g, T) = g[c] + SumFunctionOnSet(g, V)
          /\ SumFunctionOnSet(h, T) = h[c] + SumFunctionOnSet(h, V)
      BY <2>2, SumFirst, FS_Subset
    <3> HIDE DEF c
    <3>2. SumFunctionOnSet(f, V) \in Int /\ SumFunctionOnSet(g, V) \in Int
      BY SumInt, FS_Subset
    <3>3. SumFunctionOnSet(h, V) = SumFunctionOnSet(f, V) + SumFunctionOnSet(g, V)
      BY <1>1, <3>1
    <3>4. f[c] \in Int /\ g[c] \in Int /\ h[c] = f[c] + g[c]
      BY <3>1
    <3> HIDE DEF V
    <3>5. QED BY <3>1, <3>2, <3>3, <3>4
  <2>3. QED BY <2>1, <2>2
<1> HIDE DEF P
<1>2. SUBSET S \subseteq P
  BY <1>1, SubsetInduction
<1>3. QED BY <1>2 DEF P

\* A sum of naturals is a natural, and at least each of its terms.
LEMMA SumNat ==
    ASSUME NEW S, IsFiniteSet(S), NEW f, \A x \in S : f[x] \in Nat
    PROVE  /\ SumFunctionOnSet(f, S) \in Nat
           /\ \A a \in S : f[a] <= SumFunctionOnSet(f, S)
<1> DEFINE P == {T \in SUBSET S : SumFunctionOnSet(f, T) \in Nat}
<1>1. ASSUME NEW T \in SUBSET S, \A x \in T : T \ {x} \in P
      PROVE  T \in P
  <2>1. CASE T = {}
    BY <2>1, SumEmpty
  <2>2. CASE T # {}
    <3>1. /\ First(T) \in T
          /\ SumFunctionOnSet(f, T) = f[First(T)] + SumFunctionOnSet(f, T \ {First(T)})
      BY <2>2, SumFirst, FS_Subset
    <3>2. f[First(T)] \in Nat /\ SumFunctionOnSet(f, T \ {First(T)}) \in Nat
      BY <1>1, <3>1
    <3>3. QED BY <3>1, <3>2
  <2>3. QED BY <2>1, <2>2
<1> HIDE DEF P
<1>2. SUBSET S \subseteq P
  BY <1>1, SubsetInduction
<1>3. \A T \in SUBSET S : SumFunctionOnSet(f, T) \in Nat
  BY <1>2 DEF P
<1>4. ASSUME NEW a \in S PROVE f[a] <= SumFunctionOnSet(f, S)
  <2>1. SumFunctionOnSet(f, S) = f[a] + SumFunctionOnSet(f, S \ {a})
    BY SumRemove
  <2>2. SumFunctionOnSet(f, S \ {a}) \in Nat /\ f[a] \in Nat
    BY <1>3
  <2>3. QED BY <2>1, <2>2
<1>5. QED BY <1>3, <1>4

\* Elements of value 0 may be left out of a sum, or brought in.
LEMMA SumFilter ==
    ASSUME NEW S, IsFiniteSet(S), NEW T \in SUBSET S, NEW f, NEW g,
           \A x \in T : f[x] \in Int /\ g[x] = f[x],
           \A x \in S \ T : g[x] = 0
    PROVE  SumFunctionOnSet(g, S) = SumFunctionOnSet(f, T)
<1> DEFINE P == {U \in SUBSET S : SumFunctionOnSet(g, U) = SumFunctionOnSet(f, U \cap T)}
<1>1. ASSUME NEW U \in SUBSET S, \A x \in U : U \ {x} \in P
      PROVE  U \in P
  <2>1. CASE U = {}
    <3>1. U \cap T = {}
      BY <2>1
    <3>2. QED BY <2>1, <3>1, SumEmpty
  <2>2. CASE U # {}
    <3> DEFINE c == First(U)
               V == U \ {c}
    <3>1. c \in U /\ SumFunctionOnSet(g, U) = g[c] + SumFunctionOnSet(g, V)
      BY <2>2, SumFirst, FS_Subset
    <3>2. SumFunctionOnSet(g, V) = SumFunctionOnSet(f, V \cap T)
      BY <1>1, <3>1
    <3>3. IsFiniteSet(V \cap T) /\ IsFiniteSet(U \cap T)
      BY FS_Subset
    <3>4. SumFunctionOnSet(f, V \cap T) \in Int
      BY <3>3, SumInt
    <3>5. CASE c \in T
      <4>1. c \in U \cap T /\ (U \cap T) \ {c} = V \cap T
        BY <3>1, <3>5
      <4> HIDE DEF c, V
      <4>2. SumFunctionOnSet(f, U \cap T) = f[c] + SumFunctionOnSet(f, (U \cap T) \ {c})
        BY <3>3, <4>1, SumRemove
      <4>3. QED BY <3>1, <3>2, <3>5, <4>1, <4>2
    <3>6. CASE c \notin T
      <4>1. U \cap T = V \cap T /\ g[c] = 0
        BY <3>1, <3>6
      <4> HIDE DEF c, V
      <4>2. SumFunctionOnSet(g, U) = 0 + SumFunctionOnSet(f, V \cap T)
        BY <3>1, <3>2, <4>1
      <4>3. SumFunctionOnSet(g, U) = SumFunctionOnSet(f, V \cap T)
        BY <3>4, <4>2
      <4>4. QED BY <4>1, <4>3
    <3>7. QED BY <3>5, <3>6
  <2>3. QED BY <2>1, <2>2
<1> HIDE DEF P
<1>2. SUBSET S \subseteq P
  BY <1>1, SubsetInduction
<1>3. S \cap T = T
  OBVIOUS
<1>4. QED BY <1>2, <1>3 DEF P

\* A sum over more elements, of naturals, is no smaller.
LEMMA SumSubset ==
    ASSUME NEW S, IsFiniteSet(S), NEW T \in SUBSET S, NEW f, \A x \in S : f[x] \in Nat
    PROVE  SumFunctionOnSet(f, T) <= SumFunctionOnSet(f, S)
<1> DEFINE P == {U \in SUBSET S : SumFunctionOnSet(f, U \cap T) <= SumFunctionOnSet(f, U)}
<1>1. ASSUME NEW U \in SUBSET S, \A x \in U : U \ {x} \in P
      PROVE  U \in P
  <2>1. CASE U = {}
    <3>1. U \cap T = {}
      BY <2>1
    <3>2. QED BY <2>1, <3>1, SumEmpty
  <2>2. CASE U # {}
    <3> DEFINE c == First(U)
               V == U \ {c}
    <3>1. c \in U /\ SumFunctionOnSet(f, U) = f[c] + SumFunctionOnSet(f, V)
      BY <2>2, SumFirst, FS_Subset
    <3>2. SumFunctionOnSet(f, V \cap T) <= SumFunctionOnSet(f, V)
      BY <1>1, <3>1
    <3>3. IsFiniteSet(V \cap T) /\ IsFiniteSet(U \cap T) /\ IsFiniteSet(V)
      BY FS_Subset
    <3>4. SumFunctionOnSet(f, V \cap T) \in Nat /\ SumFunctionOnSet(f, V) \in Nat /\ f[c] \in Nat
      BY <3>1, <3>3, SumNat
    <3>5. CASE c \in T
      <4>1. c \in U \cap T /\ (U \cap T) \ {c} = V \cap T
        BY <3>1, <3>5
      <4> HIDE DEF c, V
      <4>2. SumFunctionOnSet(f, U \cap T) = f[c] + SumFunctionOnSet(f, (U \cap T) \ {c})
        BY <3>3, <4>1, SumRemove
      <4>3. SumFunctionOnSet(f, U \cap T) = f[c] + SumFunctionOnSet(f, V \cap T)
        BY <4>1, <4>2
      <4>4. SumFunctionOnSet(f, U \cap T) <= SumFunctionOnSet(f, U)
        BY <3>1, <3>2, <3>4, <4>3
      <4>5. QED BY <4>4
    <3>6. CASE c \notin T
      <4>1. U \cap T = V \cap T
        BY <3>1, <3>6
      <4> HIDE DEF c, V
      <4>2. SumFunctionOnSet(f, U \cap T) <= SumFunctionOnSet(f, U)
        <5>1. SumFunctionOnSet(f, V \cap T) <= f[c] + SumFunctionOnSet(f, V)
          BY <3>2, <3>4
        <5>2. QED BY <3>1, <4>1, <5>1
      <4>3. QED BY <4>2
    <3>7. QED BY <3>5, <3>6
  <2>3. QED BY <2>1, <2>2
<1> HIDE DEF P
<1>2. SUBSET S \subseteq P
  BY <1>1, SubsetInduction
<1>3. S \cap T = T
  OBVIOUS
<1>4. QED BY <1>2, <1>3 DEF P

\* A sum of terms up to m is at most m for each element.
LEMMA SumBound ==
    ASSUME NEW S, IsFiniteSet(S), NEW m \in Nat, NEW f, \A x \in S : f[x] \in 0 .. m
    PROVE  SumFunctionOnSet(f, S) <= Cardinality(S) * m
<1> DEFINE P == {T \in SUBSET S : SumFunctionOnSet(f, T) <= Cardinality(T) * m}
<1>1. ASSUME NEW T \in SUBSET S, \A x \in T : T \ {x} \in P
      PROVE  SumFunctionOnSet(f, T) <= Cardinality(T) * m
  <2>1. CASE T = {}
    BY <2>1, SumEmpty, FS_EmptySet
  <2>2. CASE T # {}
    <3> DEFINE c == First(T)
               V == T \ {c}
               k == Cardinality(V)
               r == SumFunctionOnSet(f, V)
    <3>1. c \in T /\ SumFunctionOnSet(f, T) = f[c] + r
      BY <2>2, SumFirst, FS_Subset
    <3>2. IsFiniteSet(T) /\ IsFiniteSet(V)
      BY FS_Subset
    <3>3. r <= k * m
      BY <1>1, <3>1
    <3>4. Cardinality(T) = k + 1 /\ k \in Nat
      BY <3>1, <3>2, FS_RemoveElement, FS_CardinalityType
    <3>5. r \in Nat /\ f[c] \in 0 .. m
      BY <3>1, <3>2, SumNat
    <3> HIDE DEF c, k, r, V
    <3>6. (k + 1) * m = k * m + m /\ k * m \in Nat
      BY <3>4
    <3>7. f[c] + r <= k * m + m
      BY <3>3, <3>5, <3>6
    <3>8. QED BY <3>1, <3>4, <3>6, <3>7
  <2>3. QED BY <2>1, <2>2
<1>2. \A T \in SUBSET S : (\A x \in T : T \ {x} \in P) => T \in P
  BY <1>1
<1> HIDE DEF P
<1>3. SUBSET S \subseteq P
  BY <1>2, SubsetInduction
<1>4. QED BY <1>3 DEF P
-----------------------------------------------------------------------------
(* Sums over 1 .. n, for functions of positions in a sequence *)

\* Induction over the naturals, the property given as the set of those that have it.
LEMMA CountInduction ==
    ASSUME NEW P, 0 \in P, \A n \in Nat : n \in P => n + 1 \in P
    PROVE  Nat \subseteq P
<1> SUFFICES ASSUME ~(Nat \subseteq P) PROVE FALSE
  OBVIOUS
<1> DEFINE Bad == Nat \ P
           R == {ss \in Nat \X Nat : ss[1] < ss[2]}
<1>1. Bad \subseteq Nat /\ Bad # {}
  OBVIOUS
<1>2. IsWellFoundedOn(R, Nat)
  BY NatLessThanWellFounded DEF OpToRel
<1> HIDE DEF R, Bad
<1>3. PICK n \in Bad : \A k \in Bad : ~(<<k, n>> \in R)
  BY <1>1, <1>2, WFMin
<1>4. n \in Nat /\ n # 0 /\ n - 1 \in Nat
  BY <1>3 DEF Bad
<1>5. n - 1 \notin Bad
  <2>1. <<n - 1, n>> \in R
    BY <1>4 DEF R
  <2>2. QED BY <1>3, <2>1
<1>6. QED BY <1>3, <1>4, <1>5 DEF Bad

\* 1 .. n is finite.
LEMMA CountFinite ==
    ASSUME NEW n \in Nat
    PROVE  IsFiniteSet(1 .. n) /\ IsFiniteSet(2 .. n + 1)
BY FS_Interval

\* A sum over a longer sequence takes its last term.
LEMMA SumLast ==
    ASSUME NEW n \in Nat, NEW f, \A i \in 1 .. n + 1 : f[i] \in Int
    PROVE  SumFunctionOnSet(f, 1 .. n + 1) = SumFunctionOnSet(f, 1 .. n) + f[n + 1]
<1>1. n + 1 \in 1 .. n + 1 /\ (1 .. n + 1) \ {n + 1} = 1 .. n /\ IsFiniteSet(1 .. n + 1)
  BY FS_Interval
<1>2. SumFunctionOnSet(f, 1 .. n + 1) = f[n + 1] + SumFunctionOnSet(f, (1 .. n + 1) \ {n + 1})
  BY <1>1, SumRemove
<1>3. SumFunctionOnSet(f, 1 .. n) \in Int
  <2>1. IsFiniteSet(1 .. n) /\ \A i \in 1 .. n : f[i] \in Int
    BY CountFinite
  <2>2. QED BY <2>1, SumInt
<1>4. f[n + 1] \in Int
  BY <1>1
<1>5. SumFunctionOnSet(f, 1 .. n + 1) = f[n + 1] + SumFunctionOnSet(f, 1 .. n)
  BY <1>1, <1>2, Zenon
<1> DEFINE all == SumFunctionOnSet(f, 1 .. n + 1)
           some == SumFunctionOnSet(f, 1 .. n)
           last == f[n + 1]
<1> HIDE DEF all, some, last
<1>6. all = last + some => all = some + last
  BY <1>3, <1>4 DEF some, last
<1>7. QED BY <1>5, <1>6 DEF all, some, last

\* A sum whose terms move down one place, the first of them leaving.
LEMMA SumTail ==
    ASSUME NEW m \in Nat, NEW f, NEW g, \A i \in 1 .. m + 1 : f[i] \in Int,
           \A i \in 1 .. m : g[i] = f[i + 1]
    PROVE  SumFunctionOnSet(f, 1 .. m + 1) = f[1] + SumFunctionOnSet(g, 1 .. m)
<1> DEFINE P == {n \in Nat : n <= m =>
                    SumFunctionOnSet(f, 1 .. n + 1) = f[1] + SumFunctionOnSet(g, 1 .. n)}
<1>1. 0 \in P
  <2>1. 1 .. 0 = {} /\ SumFunctionOnSet(g, 1 .. 0) = 0 /\ SumFunctionOnSet(f, 1 .. 0) = 0
    BY SumEmpty
  <2>2. \A i \in 1 .. 0 + 1 : f[i] \in Int
    OBVIOUS
  <2>3. SumFunctionOnSet(f, 1 .. 0 + 1) = SumFunctionOnSet(f, 1 .. 0) + f[0 + 1]
    BY <2>2, SumLast
  <2>4. f[1] \in Int
    OBVIOUS
  <2>5. QED BY <2>1, <2>3, <2>4
<1>2. ASSUME NEW n \in Nat, n \in P PROVE n + 1 \in P
  <2> SUFFICES ASSUME n + 1 <= m
               PROVE  SumFunctionOnSet(f, 1 .. (n + 1) + 1) = f[1] + SumFunctionOnSet(g, 1 .. n + 1)
    OBVIOUS
  <2>1. SumFunctionOnSet(f, 1 .. n + 1) = f[1] + SumFunctionOnSet(g, 1 .. n)
    BY <1>2
  <2>2. /\ \A i \in 1 .. (n + 1) + 1 : f[i] \in Int
        /\ \A i \in 1 .. n + 1 : g[i] \in Int
        /\ g[n + 1] = f[(n + 1) + 1]
    OBVIOUS
  <2>3. SumFunctionOnSet(f, 1 .. (n + 1) + 1) = SumFunctionOnSet(f, 1 .. n + 1) + f[(n + 1) + 1]
    BY <2>2, SumLast
  <2>4. SumFunctionOnSet(g, 1 .. n + 1) = SumFunctionOnSet(g, 1 .. n) + g[n + 1]
    BY <2>2, SumLast
  <2>5. SumFunctionOnSet(g, 1 .. n) \in Int /\ f[1] \in Int /\ g[n + 1] \in Int
    <3>1. IsFiniteSet(1 .. n) /\ \A i \in 1 .. n : g[i] \in Int
      BY <2>2, CountFinite
    <3>2. SumFunctionOnSet(g, 1 .. n) \in Int
      BY <3>1, SumInt
    <3>3. 1 \in 1 .. m + 1 /\ n + 1 \in 1 .. n + 1
      OBVIOUS
    <3>4. QED BY <2>2, <3>2, <3>3
  <2>6. QED BY <2>1, <2>2, <2>3, <2>4, <2>5
<1> HIDE DEF P
<1>3. Nat \subseteq P
  BY <1>1, <1>2, CountInduction
<1>4. QED BY <1>3 DEF P

\* A sum of zeros is 0.
LEMMA SumZero ==
    ASSUME NEW S, IsFiniteSet(S), NEW f, \A x \in S : f[x] = 0
    PROVE  SumFunctionOnSet(f, S) = 0
<1>1. SumFunctionOnSet(f, S) = SumFunctionOnSet(f, {})
  BY SumFilter
<1>2. QED BY <1>1, SumEmpty

\* A sum over a set is that over a part of it and that over the rest.
LEMMA SumSplit ==
    ASSUME NEW S, IsFiniteSet(S), NEW T \in SUBSET S, NEW f, \A x \in S : f[x] \in Int
    PROVE  /\ SumFunctionOnSet(f, S) = SumFunctionOnSet(f, T) + SumFunctionOnSet(f, S \ T)
           /\ SumFunctionOnSet(f, T) \in Int /\ SumFunctionOnSet(f, S \ T) \in Int
<1>1. PICK g, h : /\ g = [x \in S |-> IF x \in T THEN f[x] ELSE 0]
                  /\ h = [x \in S |-> IF x \in T THEN 0 ELSE f[x]]
  OBVIOUS
<1>2. SumFunctionOnSet(f, S) = SumFunctionOnSet(g, S) + SumFunctionOnSet(h, S)
  <2>1. \A x \in S : g[x] \in Int /\ h[x] \in Int /\ f[x] = g[x] + h[x]
    BY <1>1
  <2>2. QED BY <2>1, SumAdd
<1>3. SumFunctionOnSet(g, S) = SumFunctionOnSet(f, T)
  <2>1. (\A x \in T : f[x] \in Int /\ g[x] = f[x]) /\ (\A x \in S \ T : g[x] = 0)
    BY <1>1
  <2>2. QED BY <2>1, SumFilter
<1>4. SumFunctionOnSet(h, S) = SumFunctionOnSet(f, S \ T)
  <2>1. (\A x \in S \ T : f[x] \in Int /\ h[x] = f[x]) /\ (\A x \in S \ (S \ T) : h[x] = 0)
    BY <1>1
  <2>2. S \ T \in SUBSET S
    OBVIOUS
  <2>3. QED BY <2>1, <2>2, SumFilter
<1>5. IsFiniteSet(T) /\ IsFiniteSet(S \ T)
  BY FS_Subset
<1>6. SumFunctionOnSet(f, T) \in Int /\ SumFunctionOnSet(f, S \ T) \in Int
  BY <1>5, SumInt
<1>7. QED BY <1>2, <1>3, <1>4, <1>6

\* A sum whose terms all move up one place.
LEMMA SumShift ==
    ASSUME NEW l \in Nat, NEW n \in Nat, NEW f, NEW g,
           \A i \in l .. l + n - 1 : f[i] \in Int /\ g[i + 1] = f[i]
    PROVE  SumFunctionOnSet(g, l + 1 .. l + n) = SumFunctionOnSet(f, l .. l + n - 1)
<1> DEFINE Up(k) == SumFunctionOnSet(g, l + 1 .. l + k)
           Down(k) == SumFunctionOnSet(f, l .. l + k - 1)
           P == {k \in Nat : k <= n => Up(k) = Down(k)}
<1>1. Up(0) = Down(0)
  <2>1. l + 1 .. l + 0 = {} /\ l .. l + 0 - 1 = {}
    OBVIOUS
  <2>2. Up(0) = SumFunctionOnSet(g, {}) /\ Down(0) = SumFunctionOnSet(f, {})
    BY <2>1, Zenon
  <2>3. QED BY <2>2, SumEmpty
<1>2. ASSUME NEW k \in Nat, k \in P, k + 1 <= n PROVE Up(k + 1) = Down(k + 1)
  <2>1. SumFunctionOnSet(g, l + 1 .. l + k) = SumFunctionOnSet(f, l .. l + k - 1)
    BY <1>2
  <2>2. PICK A, B, a : /\ A = l + 1 .. l + (k + 1) /\ B = l .. l + (k + 1) - 1 /\ a = l + k
    OBVIOUS
  <2>3. /\ a + 1 \in A /\ A \ {a + 1} = l + 1 .. l + k
        /\ a \in B /\ B \ {a} = l .. l + k - 1
    BY <2>2
  <2>4. IsFiniteSet(A) /\ IsFiniteSet(B)
    BY <2>2, FS_Interval
  <2>5. /\ \A x \in B : f[x] \in Int
        /\ \A x \in A : g[x] \in Int
        /\ g[a + 1] = f[a]
    <3>1. ASSUME NEW x \in B PROVE f[x] \in Int /\ g[x + 1] = f[x]
      <4>1. x \in l .. l + n - 1
        BY <1>2, <2>2, <3>1
      <4>2. QED BY <4>1
    <3>2. ASSUME NEW x \in A PROVE g[x] \in Int
      <4>1. PICK y : y = x - 1
        OBVIOUS
      <4>2. y \in B /\ x = y + 1
        BY <2>2, <3>2, <4>1
      <4>3. QED BY <3>1, <4>2
    <3>3. QED BY <2>3, <3>1, <3>2
  <2>6. /\ SumFunctionOnSet(g, A) = g[a + 1] + SumFunctionOnSet(g, A \ {a + 1})
        /\ SumFunctionOnSet(f, B) = f[a] + SumFunctionOnSet(f, B \ {a})
    BY <2>3, <2>4, <2>5, SumRemove
  <2>7. QED BY <2>1, <2>2, <2>3, <2>5, <2>6
<1> HIDE DEF Up, Down
<1>3. 0 \in P /\ \A k \in Nat : k \in P => k + 1 \in P
  BY <1>1, <1>2
<1> HIDE DEF P
<1>4. Nat \subseteq P
  BY <1>3, CountInduction
<1>5. Up(n) = Down(n)
  BY <1>4 DEF P
<1>6. QED BY <1>5 DEF Up, Down
=============================================================================
