-------------------------------- MODULE Sums --------------------------------
(***************************************************************************)
(* Facts about the least number of a set, about induction on numbers and   *)
(* on finite sets, and about the sums of the community modules.            *)
(*                                                                         *)
(* The induction theorems of the library take the induction hypothesis as  *)
(* an operator.  Here it is a set: the numbers, or the subsets, for which  *)
(* the claim holds.                                                        *)
(***************************************************************************)
EXTENDS Functions, FiniteSetTheorems, WellFoundedInduction, TLAPS

-----------------------------------------------------------------------------
(* Induction *)

LEMMA Smallest ==
    ASSUME NEW S, S \subseteq Nat, S # {}
    PROVE  \E x \in S : \A y \in S : x <= y
<1> DEFINE Less == OpToRel(<, Nat)
<1>1. IsWellFoundedOn(Less, Nat)
    BY NatLessThanWellFounded
<1>2. \A m, n \in Nat : m < n => <<m, n>> \in Less
    BY DEF OpToRel
<1> HIDE DEF Less
<1>3. PICK x \in S : \A y \in S : ~(<<y, x>> \in Less)
    BY <1>1, WFMin, Zenon
<1>4. ASSUME NEW y \in S PROVE x <= y
    <2>1. x \in Nat /\ y \in Nat
        OBVIOUS
    <2>2. ~(y < x)
        BY <1>2, <1>3, <2>1, Zenon
    <2> QED
        BY <2>1, <2>2
<1> QED
    BY <1>4

\* Induction on the numbers, the claim given as the set N of those it holds for.
LEMMA NumberInduction ==
    ASSUME NEW N, 0 \in N, \A n \in Nat : n \in N => n + 1 \in N
    PROVE  Nat \subseteq N
<1> SUFFICES ASSUME Nat \ N # {} PROVE FALSE
    OBVIOUS
<1>1. PICK m \in Nat \ N : \A n \in Nat \ N : m <= n
    BY Smallest
<1>2. m # 0 /\ m - 1 \in Nat
    OBVIOUS
<1>3. m - 1 \in N
    BY <1>1, <1>2
<1>4. (m - 1) + 1 \in N
    BY <1>2, <1>3
<1> QED
    BY <1>4

\* Induction on a finite set, the claim given as the set P of those it holds for.
LEMMA SetInduction ==
    ASSUME NEW S, IsFiniteSet(S), NEW P, {} \in P,
           \A T \in SUBSET S, x \in S : T \in P /\ x \notin T => T \cup {x} \in P
    PROVE  S \in P
<1> DEFINE N == {n \in Nat : \A T \in SUBSET S : Cardinality(T) = n => T \in P}
<1>1. \A T \in SUBSET S : IsFiniteSet(T) /\ Cardinality(T) \in Nat
    BY FS_Subset, FS_CardinalityType
<1>2. 0 \in N
    BY <1>1, FS_EmptySet
<1>3. ASSUME NEW n \in Nat, n \in N PROVE n + 1 \in N
    <2> SUFFICES ASSUME NEW T \in SUBSET S, Cardinality(T) = n + 1 PROVE T \in P
        OBVIOUS
    <2>1. T # {}
        <3>1. Cardinality({}) = 0
            BY FS_EmptySet
        <3>2. n + 1 # 0
            OBVIOUS
        <3> QED
            BY <3>1, <3>2, Zenon
    <2>2. PICK x \in T : TRUE
        BY <2>1
    <2>3. Cardinality(T \ {x}) = n
        <3>1. IsFiniteSet(T)
            BY <1>1
        <3>2. Cardinality(T \ {x}) = Cardinality(T) - 1
            BY <3>1, FS_RemoveElement
        <3> QED
            BY <3>2
    <2>4. T \ {x} \in P
        BY <1>3, <2>3
    <2>5. (T \ {x}) \cup {x} \in P
        BY <2>4
    <2>6. (T \ {x}) \cup {x} = T
        OBVIOUS
    <2> QED
        BY <2>5, <2>6
<1> HIDE DEF N
<1>4. Cardinality(S) \in N
    BY <1>1, <1>2, <1>3, NumberInduction
<1> QED
    BY <1>4 DEF N

-----------------------------------------------------------------------------
(* The recursive function behind a sum *)

\* The element that the fold of the community modules takes out first.
First(s) == CHOOSE x \in s : TRUE

\* g sums f over every set of D by taking out its first element.
RecursOn(f, D, g) ==
    g = [s \in D |-> IF s = {} THEN 0 ELSE f[First(s)] + g[s \ {First(s)}]]

Recurs(f, S, g) == RecursOn(f, SUBSET S, g)

\* The subsets of at most n elements.
UpTo(S, n) == {s \in SUBSET S : Cardinality(s) <= n}

\* A sum is what such a function has for the whole set.
LEMMA SumRecurs ==
    ASSUME NEW f, NEW S, NEW g, Recurs(f, S, g)
    PROVE  \E h : Recurs(f, S, h) /\ SumFunctionOnSet(f, S) = h[S]
BY DEF SumFunctionOnSet, FoldFunctionOnSet, MapThenFoldSet, Recurs, RecursOn, First

LEMMA FirstIsIn == ASSUME NEW s, s # {} PROVE First(s) \in s
BY DEF First

\* It is built for the sets of at most n elements, one n after the other.
LEMMA RecursExists ==
    ASSUME NEW f, NEW S, IsFiniteSet(S)
    PROVE  \E g : Recurs(f, S, g)
<1> DEFINE N == {n \in Nat : \E g : RecursOn(f, UpTo(S, n), g)}
<1>1. \A s \in SUBSET S : IsFiniteSet(s) /\ Cardinality(s) \in Nat
    BY FS_Subset, FS_CardinalityType
<1>2. 0 \in N
    <2> DEFINE g == [s \in UpTo(S, 0) |-> 0]
    <2>1. \A s \in UpTo(S, 0) : s = {}
        BY <1>1, FS_EmptySet DEF UpTo
    <2>2. RecursOn(f, UpTo(S, 0), g)
        BY <2>1 DEF Recurs, RecursOn
    <2> QED
        BY <2>2
<1>3. ASSUME NEW n \in Nat, n \in N PROVE n + 1 \in N
    <2>1. PICK g : RecursOn(f, UpTo(S, n), g)
        BY <1>3
    <2> DEFINE h == [s \in UpTo(S, n + 1) |->
                        IF s = {} THEN 0 ELSE f[First(s)] + g[s \ {First(s)}]]
    <2>2. \A s \in UpTo(S, n) : s \in UpTo(S, n + 1)
        BY <1>1 DEF UpTo
    <2>3. \A s \in UpTo(S, n) : h[s] = g[s]
        BY <2>1, <2>2 DEF Recurs, RecursOn
    <2>4. \A s \in UpTo(S, n + 1) : s # {} => s \ {First(s)} \in UpTo(S, n)
        BY <1>1, FirstIsIn, FS_RemoveElement DEF UpTo
    <2>5. RecursOn(f, UpTo(S, n + 1), h)
        BY <2>3, <2>4 DEF Recurs, RecursOn
    <2> QED
        BY <2>5
<1> HIDE DEF N
<1>4. Cardinality(S) \in N
    BY <1>1, <1>2, <1>3, NumberInduction
<1>5. UpTo(S, Cardinality(S)) = SUBSET S
    BY FS_Subset, FS_CardinalityType DEF UpTo
<1> QED
    BY <1>4, <1>5 DEF N, Recurs

\* It does not depend on the set it is built for.
LEMMA RecursAgree ==
    ASSUME NEW f, NEW S, NEW T, NEW g, NEW h,
           IsFiniteSet(S), T \subseteq S, Recurs(f, S, g), Recurs(f, T, h)
    PROVE  g[T] = h[T]
<1> DEFINE N == {n \in Nat : \A s \in SUBSET T : Cardinality(s) = n => g[s] = h[s]}
<1>1. \A s \in SUBSET T : IsFiniteSet(s) /\ Cardinality(s) \in Nat /\ s \in SUBSET S
    BY FS_Subset, FS_CardinalityType
<1>2. 0 \in N
    BY <1>1, FS_EmptySet DEF Recurs, RecursOn
<1>3. ASSUME NEW n \in Nat, n \in N PROVE n + 1 \in N
    <2> SUFFICES ASSUME NEW s \in SUBSET T, Cardinality(s) = n + 1 PROVE g[s] = h[s]
        OBVIOUS
    <2>1. s # {}
        BY FS_EmptySet
    <2>2. Cardinality(s \ {First(s)}) = n
        BY <1>1, <2>1, FirstIsIn, FS_RemoveElement
    <2>3. g[s \ {First(s)}] = h[s \ {First(s)}]
        BY <1>3, <2>2
    <2> QED
        BY <1>1, <2>1, <2>3 DEF Recurs, RecursOn
<1> HIDE DEF N
<1>4. Nat \subseteq N
    BY <1>2, <1>3, NumberInduction
<1> QED
    BY <1>1, <1>4 DEF N

-----------------------------------------------------------------------------
(* Sums *)

\* The empty sum is 0.
LEMMA SumEmpty == ASSUME NEW f PROVE SumFunctionOnSet(f, {}) = 0
<1>1. PICK g : Recurs(f, {}, g)
    BY RecursExists, FS_EmptySet
<1>2. PICK h : Recurs(f, {}, h) /\ SumFunctionOnSet(f, {}) = h[{}]
    BY <1>1, SumRecurs
<1> QED
    BY <1>2 DEF Recurs, RecursOn

\* The function built for a set sums over each of its subsets.
LEMMA SumAgrees ==
    ASSUME NEW f, NEW S, IsFiniteSet(S), NEW T, T \subseteq S,
           NEW g, Recurs(f, S, g)
    PROVE  SumFunctionOnSet(f, T) = g[T]
<1>1. IsFiniteSet(T)
    BY FS_Subset
<1>2. PICK h : Recurs(f, T, h) /\ SumFunctionOnSet(f, T) = h[T]
    BY <1>1, RecursExists, SumRecurs
<1>3. g[T] = h[T]
    BY <1>2, RecursAgree
<1> QED
    BY <1>2, <1>3

\* A sum is its first summand and the sum of the others.
LEMMA SumFirst ==
    ASSUME NEW f, NEW S, IsFiniteSet(S), S # {}
    PROVE  SumFunctionOnSet(f, S) =
             f[First(S)] + SumFunctionOnSet(f, S \ {First(S)})
<1>1. PICK g : Recurs(f, S, g)
    BY RecursExists
<1>2. SumFunctionOnSet(f, S) = g[S]
    BY <1>1, SumAgrees
<1>3. SumFunctionOnSet(f, S \ {First(S)}) = g[S \ {First(S)}]
    BY <1>1, SumAgrees
<1>4. g[S] = f[First(S)] + g[S \ {First(S)}]
    BY <1>1 DEF Recurs, RecursOn
<1> QED
    BY <1>2, <1>3, <1>4

\* A sum of integers is an integer.
LEMMA SumIsInt ==
    ASSUME NEW f, NEW S, IsFiniteSet(S), \A x \in S : f[x] \in Int
    PROVE  SumFunctionOnSet(f, S) \in Int
<1> DEFINE N == {n \in Nat : \A s \in SUBSET S :
                    Cardinality(s) = n => SumFunctionOnSet(f, s) \in Int}
<1>1. \A s \in SUBSET S : IsFiniteSet(s) /\ Cardinality(s) \in Nat
    BY FS_Subset, FS_CardinalityType
<1>2. 0 \in N
    BY <1>1, FS_EmptySet, SumEmpty
<1>3. ASSUME NEW n \in Nat, n \in N PROVE n + 1 \in N
    <2> SUFFICES ASSUME NEW s \in SUBSET S, Cardinality(s) = n + 1
                 PROVE  SumFunctionOnSet(f, s) \in Int
        OBVIOUS
    <2>1. s # {} /\ First(s) \in s
        BY FS_EmptySet, FirstIsIn
    <2>2. Cardinality(s \ {First(s)}) = n
        BY <1>1, <2>1, FS_RemoveElement
    <2>3. SumFunctionOnSet(f, s \ {First(s)}) \in Int
        BY <1>3, <2>2
    <2>4. SumFunctionOnSet(f, s) = f[First(s)] + SumFunctionOnSet(f, s \ {First(s)})
        BY <1>1, <2>1, SumFirst
    <2> QED
        BY <2>1, <2>3, <2>4
<1> HIDE DEF N
<1>4. Cardinality(S) \in N
    BY <1>1, <1>2, <1>3, NumberInduction
<1> QED
    BY <1>4 DEF N

\* Any element may be taken out of a sum first.
LEMMA SumSplit ==
    ASSUME NEW f, NEW S, IsFiniteSet(S), \A x \in S : f[x] \in Int, NEW x \in S
    PROVE  SumFunctionOnSet(f, S) = f[x] + SumFunctionOnSet(f, S \ {x})
<1> DEFINE Splits(s) == \A y \in s :
               SumFunctionOnSet(f, s) = f[y] + SumFunctionOnSet(f, s \ {y})
<1> DEFINE N == {n \in Nat : \A s \in SUBSET S : Cardinality(s) = n => Splits(s)}
<1>1. \A s \in SUBSET S : IsFiniteSet(s) /\ Cardinality(s) \in Nat
    BY FS_Subset, FS_CardinalityType
<1>2. 0 \in N
    BY <1>1, FS_EmptySet
<1>3. ASSUME NEW n \in Nat, n \in N PROVE n + 1 \in N
    <2> SUFFICES ASSUME NEW s \in SUBSET S, Cardinality(s) = n + 1, NEW y \in s,
                        y # First(s)
                 PROVE  SumFunctionOnSet(f, s) = f[y] + SumFunctionOnSet(f, s \ {y})
        BY <1>1, SumFirst
    <2> DEFINE z == First(s)
    <2>1. z \in s
        BY FirstIsIn
    <2> HIDE DEF z
    <2>2. y # z
        BY DEF z
    <2>3. SumFunctionOnSet(f, s) = f[z] + SumFunctionOnSet(f, s \ {z})
        BY <1>1, SumFirst DEF z
    <2>4. Cardinality(s \ {z}) = n /\ Cardinality(s \ {y}) = n
        BY <1>1, <2>1, FS_RemoveElement
    <2>5. Splits(s \ {z}) /\ Splits(s \ {y})
        BY <1>3, <2>4
    <2>6. (s \ {z}) \ {y} = (s \ {y}) \ {z}
        OBVIOUS
    <2>7. SumFunctionOnSet(f, s \ {z}) = f[y] + SumFunctionOnSet(f, (s \ {y}) \ {z})
        BY <2>2, <2>5, <2>6
    <2>8. SumFunctionOnSet(f, s \ {y}) = f[z] + SumFunctionOnSet(f, (s \ {y}) \ {z})
        BY <2>1, <2>2, <2>5
    <2>9. SumFunctionOnSet(f, (s \ {y}) \ {z}) \in Int /\ f[y] \in Int /\ f[z] \in Int
        BY <1>1, <2>1, SumIsInt
    <2> QED
        BY <2>3, <2>7, <2>8, <2>9
<1> HIDE DEF N
<1>4. Cardinality(S) \in N
    BY <1>1, <1>2, <1>3, NumberInduction
<1> QED
    BY <1>4 DEF N

\* One more element adds its summand.
LEMMA SumAdd ==
    ASSUME NEW f, NEW T, NEW x, IsFiniteSet(T), x \notin T,
           \A y \in T \cup {x} : f[y] \in Int
    PROVE  SumFunctionOnSet(f, T \cup {x}) = f[x] + SumFunctionOnSet(f, T)
<1>1. IsFiniteSet(T \cup {x}) /\ x \in T \cup {x}
    BY FS_AddElement
<1>2. SumFunctionOnSet(f, T \cup {x}) = f[x] + SumFunctionOnSet(f, (T \cup {x}) \ {x})
    BY <1>1, SumSplit
<1>3. (T \cup {x}) \ {x} = T
    OBVIOUS
<1> QED
    BY <1>2, <1>3

\* Larger summands have the larger sum.
LEMMA SumMonotone ==
    ASSUME NEW f, NEW g, NEW S, IsFiniteSet(S),
           \A x \in S : f[x] \in Int /\ g[x] \in Int /\ f[x] <= g[x]
    PROVE  SumFunctionOnSet(f, S) <= SumFunctionOnSet(g, S)
<1> DEFINE P == {T \in SUBSET S : SumFunctionOnSet(f, T) <= SumFunctionOnSet(g, T)}
<1>1. {} \in P
    BY SumEmpty
<1>2. ASSUME NEW T \in SUBSET S, NEW x \in S, T \in P, x \notin T
      PROVE  T \cup {x} \in P
    <2>1. IsFiniteSet(T)
        BY FS_Subset
    <2>2. /\ SumFunctionOnSet(f, T \cup {x}) = f[x] + SumFunctionOnSet(f, T)
          /\ SumFunctionOnSet(g, T \cup {x}) = g[x] + SumFunctionOnSet(g, T)
        BY <1>2, <2>1, SumAdd
    <2>3. SumFunctionOnSet(f, T) \in Int /\ SumFunctionOnSet(g, T) \in Int
        BY <2>1, SumIsInt
    <2> QED
        BY <1>2, <2>2, <2>3
<1> HIDE DEF P
<1>3. S \in P
    BY <1>1, <1>2, SetInduction
<1> QED
    BY <1>3 DEF P

\* Equal summands have equal sums.
LEMMA SumEqual ==
    ASSUME NEW f, NEW g, NEW S, IsFiniteSet(S),
           \A x \in S : f[x] \in Int /\ f[x] = g[x]
    PROVE  SumFunctionOnSet(f, S) = SumFunctionOnSet(g, S)
<1>1. \A x \in S : g[x] \in Int /\ f[x] <= g[x] /\ g[x] <= f[x]
    OBVIOUS
<1>2. /\ SumFunctionOnSet(f, S) <= SumFunctionOnSet(g, S)
      /\ SumFunctionOnSet(g, S) <= SumFunctionOnSet(f, S)
    BY <1>1, SumMonotone
<1>3. SumFunctionOnSet(f, S) \in Int /\ SumFunctionOnSet(g, S) \in Int
    BY <1>1, SumIsInt
<1> QED
    BY <1>2, <1>3

LEMMA SumOfZeros ==
    ASSUME NEW S, IsFiniteSet(S)
    PROVE  SumFunctionOnSet([x \in S |-> 0], S) = 0
<1> DEFINE zero == [x \in S |-> 0]
<1> DEFINE P == {T \in SUBSET S : SumFunctionOnSet(zero, T) = 0}
<1>1. {} \in P
    BY SumEmpty
<1>2. ASSUME NEW T \in SUBSET S, NEW x \in S, T \in P, x \notin T
      PROVE  T \cup {x} \in P
    <2>1. IsFiniteSet(T)
        BY FS_Subset
    <2>2. SumFunctionOnSet(zero, T \cup {x}) = zero[x] + SumFunctionOnSet(zero, T)
        BY <1>2, <2>1, SumAdd
    <2> QED
        BY <1>2, <2>2
<1>3. S \in P
    <2> HIDE DEF P
    <2> QED
        BY <1>1, <1>2, SetInduction
<1> QED
    BY <1>3

\* A sum of naturals is a natural, and at least the sum of some of them.
LEMMA SumIsNat ==
    ASSUME NEW f, NEW S, IsFiniteSet(S), \A x \in S : f[x] \in Nat
    PROVE  SumFunctionOnSet(f, S) \in Nat
<1> DEFINE zero == [x \in S |-> 0]
<1>1. \A x \in S : zero[x] \in Int /\ f[x] \in Int /\ zero[x] <= f[x]
    OBVIOUS
<1>2. SumFunctionOnSet(zero, S) = 0
    BY SumOfZeros
<1> HIDE DEF zero
<1>3. 0 <= SumFunctionOnSet(f, S) /\ SumFunctionOnSet(f, S) \in Int
    BY <1>1, <1>2, SumMonotone, SumIsInt
<1> QED
    BY <1>3

LEMMA SumOfPart ==
    ASSUME NEW f, NEW S, NEW T, IsFiniteSet(S), T \subseteq S, \A x \in S : f[x] \in Nat
    PROVE  SumFunctionOnSet(f, T) <= SumFunctionOnSet(f, S)
<1> DEFINE P == {U \in SUBSET S :
                    SumFunctionOnSet(f, U \cap T) <= SumFunctionOnSet(f, U)}
<1>1. {} \in P
    <2>1. {} \cap T = {}
        OBVIOUS
    <2> QED
        BY <2>1, SumEmpty
<1>2. ASSUME NEW U \in SUBSET S, NEW x \in S, U \in P, x \notin U
      PROVE  U \cup {x} \in P
    <2>1. /\ IsFiniteSet(U) /\ IsFiniteSet(U \cap T) /\ f[x] \in Nat
          /\ \A y \in U : f[y] \in Nat
        BY FS_Subset
    <2>2. SumFunctionOnSet(f, U \cup {x}) = f[x] + SumFunctionOnSet(f, U)
        BY <1>2, <2>1, SumAdd
    <2>3. SumFunctionOnSet(f, U) \in Int /\ SumFunctionOnSet(f, U \cap T) \in Int
        BY <2>1, SumIsInt
    <2>4. CASE x \in T
        <3>1. (U \cup {x}) \cap T = (U \cap T) \cup {x}
            BY <2>4
        <3>2. SumFunctionOnSet(f, (U \cap T) \cup {x}) = f[x] + SumFunctionOnSet(f, U \cap T)
            <4>1. x \notin U \cap T /\ \A y \in (U \cap T) \cup {x} : f[y] \in Int
                BY <1>2, <2>1
            <4> QED
                BY <2>1, <4>1, SumAdd
        <3> QED
            BY <1>2, <2>1, <2>2, <2>3, <3>1, <3>2
    <2>5. CASE x \notin T
        <3>1. (U \cup {x}) \cap T = U \cap T
            BY <2>5
        <3>2. SumFunctionOnSet(f, U \cap T) <= f[x] + SumFunctionOnSet(f, U)
            BY <1>2, <2>1, <2>3
        <3>3. SumFunctionOnSet(f, (U \cup {x}) \cap T) <= SumFunctionOnSet(f, U \cup {x})
            BY <2>2, <3>1, <3>2
        <3> QED
            BY <3>3
    <2> QED
        BY <2>4, <2>5
<1>3. S \in P
    <2> HIDE DEF P
    <2> QED
        BY <1>1, <1>2, SetInduction
<1>4. S \cap T = T
    OBVIOUS
<1> QED
    BY <1>3, <1>4

\* Where one summand changes, the sum changes by as much.
LEMMA SumUpdate ==
    ASSUME NEW f, NEW g, NEW S, NEW x \in S, IsFiniteSet(S),
           \A y \in S : f[y] \in Int /\ g[y] \in Int,
           \A y \in S : y # x => f[y] = g[y]
    PROVE  SumFunctionOnSet(g, S) = SumFunctionOnSet(f, S) + g[x] - f[x]
<1>1. /\ SumFunctionOnSet(f, S) = f[x] + SumFunctionOnSet(f, S \ {x})
      /\ SumFunctionOnSet(g, S) = g[x] + SumFunctionOnSet(g, S \ {x})
    BY SumSplit
<1>2. IsFiniteSet(S \ {x})
    BY FS_RemoveElement
<1>3. SumFunctionOnSet(f, S \ {x}) = SumFunctionOnSet(g, S \ {x})
    BY <1>2, SumEqual
<1>4. SumFunctionOnSet(f, S \ {x}) \in Int
    BY <1>2, SumIsInt
<1> QED
    BY <1>1, <1>3, <1>4

\* f weighs the numbers n of the kinds S by w; in m there is one more of kind x.
Weighs(f, S, n, w) ==
    /\ DOMAIN f = S
    /\ \A y \in S : n[y] \in Nat /\ w[y] \in Nat /\ f[y] = n[y] * w[y]
OneMoreOf(x, S, m, n) == \A y \in S : m[y] = IF y = x THEN n[y] + 1 ELSE n[y]

\* One more of a kind weighs as much more as that kind does.
LEMMA SumOneMore ==
    ASSUME NEW S, NEW n, NEW m, NEW w, NEW x, NEW f, NEW g, IsFiniteSet(S), x \in S,
           Weighs(f, S, n, w), Weighs(g, S, m, w), OneMoreOf(x, S, m, n)
    PROVE  SumFunction(g) = SumFunction(f) + w[x]
<1> USE DEF Weighs, OneMoreOf
<1>1. \A i, j \in Nat : i * j \in Nat /\ (i + 1) * j = i * j + j
    OBVIOUS
<1>2. \A y \in S : f[y] \in Nat /\ g[y] \in Nat
    BY <1>1
<1>3. \A y \in S : y # x => f[y] = g[y]
    OBVIOUS
<1>4. g[x] = f[x] + w[x]
    BY <1>1
<1>5. SumFunctionOnSet(g, S) = SumFunctionOnSet(f, S) + g[x] - f[x]
    BY <1>2, <1>3, SumUpdate
<1>6. SumFunctionOnSet(f, S) \in Int
    BY <1>2, SumIsInt
<1> QED
    BY <1>2, <1>4, <1>5, <1>6 DEF SumFunction
=============================================================================
