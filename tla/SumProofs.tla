------------------------------- MODULE SumProofs -------------------------------
(***************************************************************************)
(* Sums over finite sets: what SumFunctionOnSet (Functions), a recursive   *)
(* fold, computes for every function and every finite set.  Each lemma     *)
(* that needs induction takes a minimal counterexample, which a            *)
(* well-founded order provides (WFMin).                                    *)
(***************************************************************************)
EXTENDS Integers, FiniteSets, Functions, FiniteSetTheorems, TLAPS

Pick(s) == CHOOSE x \in s : TRUE

\* it follows the recursion of SumFunctionOnSet(f, S), over the subsets of S.
Sums(it, f, S) ==
  it = [s \in SUBSET S |-> IF s = {} THEN 0 ELSE f[Pick(s)] + it[s \ {Pick(s)}]]

\* A non-empty set of numbers has a least one.
LEMMA LeastNumber ==
  ASSUME NEW T \in SUBSET Nat, T # {}
  PROVE  \E n \in T : \A m \in T : ~ (m < n)
<1>1. \E n \in T : \A m \in T : ~ (<<m, n>> \in OpToRel(<, Nat))
  BY NatLessThanWellFounded, WFMin, Zenon
<1> QED  BY <1>1 DEF OpToRel

\* A non-empty set of subsets of a finite set has a minimal one.
LEMMA MinimalSubset ==
  ASSUME NEW S, IsFiniteSet(S), NEW T \in SUBSET (SUBSET S), T # {}
  PROVE  \E s \in T : \A t \in T : ~ (t \subseteq s /\ t # s)
<1>1. IsWellFoundedOn(StrictSubsetOrdering(S), SUBSET S)
  BY FS_StrictSubsetOrderingWellFounded, FS_FiniteSubsetsOfFinite
<1>2. \E s \in T : \A t \in T : ~ (<<t, s>> \in StrictSubsetOrdering(S))
  BY <1>1, WFMin
<1> QED  BY <1>2 DEF StrictSubsetOrdering

\* The picked element of a non-empty set is one of it.
LEMMA PickIn == ASSUME NEW s, s # {} PROVE Pick(s) \in s
BY DEF Pick

\* What holds of the empty set, and of a set if it holds of the set without its picked
\* element, holds of every subset of a finite set.
LEMMA SubsetsByPicking ==
  ASSUME NEW S, IsFiniteSet(S), NEW Good \in SUBSET (SUBSET S), {} \in Good,
         \A s \in SUBSET S : s # {} /\ s \ {Pick(s)} \in Good => s \in Good
  PROVE  Good = SUBSET S
<1> DEFINE Bad == (SUBSET S) \ Good
<1> SUFFICES ASSUME Bad # {} PROVE FALSE
  OBVIOUS
<1>1. PICK s \in Bad : \A t \in Bad : ~ (t \subseteq s /\ t # s)
  <2>1. Bad \in SUBSET (SUBSET S)
    OBVIOUS
  <2> HIDE DEF Bad
  <2> QED  BY <2>1, MinimalSubset
<1>2. s # {} /\ s \in SUBSET S
  OBVIOUS
<1>3. Pick(s) \in s
  BY <1>2, PickIn
<1>4. s \ {Pick(s)} \in SUBSET S /\ s \ {Pick(s)} \notin Bad
  BY <1>1, <1>2, <1>3
<1> QED  BY <1>2, <1>4

\* The recursion has a solution.
LEMMA SumsExist ==
  ASSUME NEW S, IsFiniteSet(S), NEW f
  PROVE  \E it : Sums(it, f, S)
<1> DEFINE Small(n) == {s \in SUBSET S : Cardinality(s) <= n}
           Upto(it, n) == it = [s \in Small(n) |->
             IF s = {} THEN 0 ELSE f[Pick(s)] + it[s \ {Pick(s)}]]
           Bad == {n \in Nat : ~ \E it : Upto(it, n)}
<1>1. \A s \in SUBSET S : IsFiniteSet(s) /\ Cardinality(s) \in Nat /\ Cardinality(s) <= Cardinality(S)
  BY FS_Subset, FS_CardinalityType
<1>2. \A s \in SUBSET S : s # {} =>
        s \ {Pick(s)} \in SUBSET S /\ Cardinality(s \ {Pick(s)}) = Cardinality(s) - 1
  BY <1>1, PickIn, FS_RemoveElement
<1>3. Bad = {}
  <2> SUFFICES ASSUME Bad # {} PROVE FALSE
    OBVIOUS
  <2>1. PICK n \in Bad : \A m \in Bad : ~ (m < n)
    BY LeastNumber
  <2>2. CASE n = 0
    <3> DEFINE it == [s \in Small(0) |-> 0]
    <3>1. \A s \in Small(0) : s = {}
      BY <1>1, FS_EmptySet
    <3>2. Upto(it, 0)
      BY <3>1
    <3> QED  BY <2>1, <2>2, <3>2
  <2>3. CASE n # 0
    <3>1. n - 1 \in Nat /\ n - 1 \notin Bad
      <4>1. n \in Nat /\ \A m \in Bad : ~ (m < n)
        BY <2>1
      <4> HIDE DEF Bad
      <4> QED  BY <4>1, <2>3
    <3>2. PICK g : Upto(g, n - 1)
      BY <3>1
    <3> DEFINE it == [s \in Small(n) |->
                 IF s = {} THEN 0 ELSE f[Pick(s)] + g[s \ {Pick(s)}]]
    <3>3. ASSUME NEW s \in Small(n - 1) PROVE it[s] = g[s]
      <4>1. s \in Small(n)
        BY <1>1, <2>1
      <4>2. g[s] = IF s = {} THEN 0 ELSE f[Pick(s)] + g[s \ {Pick(s)}]
        BY <3>2
      <4> QED  BY <4>1, <4>2
    <3>4. ASSUME NEW s \in Small(n), s # {} PROVE s \ {Pick(s)} \in Small(n - 1)
      BY <1>1, <1>2, <2>1, <3>4
    <3>5. \A s \in Small(n) : it[s] = IF s = {} THEN 0 ELSE f[Pick(s)] + it[s \ {Pick(s)}]
      BY <3>3, <3>4
    <3>6. Upto(it, n)
      BY <3>5
    <3> QED  BY <2>1, <3>6
  <2> QED  BY <2>2, <2>3
<1>4. PICK it : Upto(it, Cardinality(S))
  BY <1>1, <1>3
<1>5. Small(Cardinality(S)) = SUBSET S
  BY <1>1
<1> QED  BY <1>4, <1>5 DEF Sums

\* ... which SumFunctionOnSet takes.
LEMMA SumIsASolution ==
  ASSUME NEW S, IsFiniteSet(S), NEW f
  PROVE  \E it : Sums(it, f, S) /\ SumFunctionOnSet(f, S) = it[S]
<1> DEFINE it == CHOOSE g : Sums(g, f, S)
<1>1. Sums(it, f, S)
  BY SumsExist
<1>2. SumFunctionOnSet(f, S) = it[S]
  BY DEF SumFunctionOnSet, FoldFunctionOnSet, MapThenFoldSet, Sums, Pick
<1> QED  BY <1>1, <1>2

\* Solutions agree where both are defined.
LEMMA SumsAgree ==
  ASSUME NEW S, IsFiniteSet(S), NEW T \in SUBSET S, NEW f, NEW g, NEW h,
         Sums(g, f, S), Sums(h, f, T)
  PROVE  \A s \in SUBSET T : g[s] = h[s]
<1> DEFINE Bad == {s \in SUBSET T : g[s] # h[s]}
<1> SUFFICES ASSUME Bad # {} PROVE FALSE
  OBVIOUS
<1>1. IsFiniteSet(T) /\ Bad \in SUBSET (SUBSET T)
  BY FS_Subset
<1>2. PICK s \in Bad : \A t \in Bad : ~ (t \subseteq s /\ t # s)
  <2> HIDE DEF Bad
  <2> QED  BY <1>1, MinimalSubset
<1>3. /\ g[s] = IF s = {} THEN 0 ELSE f[Pick(s)] + g[s \ {Pick(s)}]
      /\ h[s] = IF s = {} THEN 0 ELSE f[Pick(s)] + h[s \ {Pick(s)}]
  BY DEF Sums
<1>4. CASE s = {}
  BY <1>3, <1>4
<1>5. CASE s # {}
  <2>1. s \ {Pick(s)} \in SUBSET T /\ s \ {Pick(s)} \notin Bad
    BY <1>2, <1>5, PickIn
  <2> QED  BY <1>3, <1>5, <2>1
<1> QED  BY <1>4, <1>5

\* The sum of a non-empty set is that of the picked element and the rest.
LEMMA SumPicks ==
  ASSUME NEW S, IsFiniteSet(S), NEW f
  PROVE  SumFunctionOnSet(f, S) =
           IF S = {} THEN 0 ELSE f[Pick(S)] + SumFunctionOnSet(f, S \ {Pick(S)})
<1> DEFINE R == S \ {Pick(S)}
<1>1. PICK g : Sums(g, f, S) /\ SumFunctionOnSet(f, S) = g[S]
  BY SumIsASolution
<1>2. PICK h : Sums(h, f, R) /\ SumFunctionOnSet(f, R) = h[R]
  BY SumIsASolution, FS_Subset
<1>3. g[R] = h[R]
  BY <1>1, <1>2, SumsAgree
<1>4. g[S] = IF S = {} THEN 0 ELSE f[Pick(S)] + g[R]
  BY <1>1 DEF Sums
<1> QED  BY <1>1, <1>2, <1>3, <1>4
-----------------------------------------------------------------------------
(* What users of a sum need *)

\* The empty sum is zero.
LEMMA SumEmpty == ASSUME NEW f PROVE SumFunctionOnSet(f, {}) = 0
BY SumPicks, FS_EmptySet

\* A sum of integers is an integer.
LEMMA SumInt ==
  ASSUME NEW S, IsFiniteSet(S), NEW f, \A x \in S : f[x] \in Int
  PROVE  SumFunctionOnSet(f, S) \in Int
<1> DEFINE Good == {s \in SUBSET S : SumFunctionOnSet(f, s) \in Int}
<1>1. {} \in Good
  BY SumEmpty
<1>2. ASSUME NEW s \in SUBSET S, s # {}, s \ {Pick(s)} \in Good
      PROVE  SumFunctionOnSet(f, s) \in Int
  <2> DEFINE x == Pick(s)
             r == s \ {x}
  <2>1. r \in SUBSET S /\ x \in S /\ SumFunctionOnSet(f, r) \in Int
    BY <1>2, PickIn
  <2>2. /\ SumFunctionOnSet(f, s) = f[x] + SumFunctionOnSet(f, r)
    BY <1>2, SumPicks, FS_Subset
  <2> HIDE DEF x, r
  <2> QED  BY <2>1, <2>2
<1>3. Good = SUBSET S
  <2>1. Good \in SUBSET (SUBSET S) /\ \A s \in SUBSET S : s # {} /\ s \ {Pick(s)} \in Good => s \in Good
    BY <1>2
  <2> HIDE DEF Good
  <2> QED  BY <1>1, <2>1, SubsetsByPicking
<1> QED  BY <1>3

\* The order does not matter: any element may be added last.
LEMMA SumAdd ==
  ASSUME NEW S, IsFiniteSet(S), NEW x, x \notin S, NEW f,
         \A y \in S \cup {x} : f[y] \in Int
  PROVE  SumFunctionOnSet(f, S \cup {x}) = SumFunctionOnSet(f, S) + f[x]
<1> DEFINE All == S \cup {x}
           Bad == {s \in SUBSET All : \E y \in All \ s :
             SumFunctionOnSet(f, s \cup {y}) # SumFunctionOnSet(f, s) + f[y]}
<1>0. IsFiniteSet(All)
  BY FS_AddElement
<1> SUFFICES ASSUME Bad # {} PROVE FALSE
  OBVIOUS
<1>1. PICK s \in Bad : \A t \in Bad : ~ (t \subseteq s /\ t # s)
  <2>1. Bad \in SUBSET (SUBSET All)
    OBVIOUS
  <2> HIDE DEF Bad, All
  <2> QED  BY <1>0, <2>1, MinimalSubset
<1>2. PICK y \in All \ s :
        SumFunctionOnSet(f, s \cup {y}) # SumFunctionOnSet(f, s) + f[y]
  OBVIOUS
<1> DEFINE u == s \cup {y}
           z == Pick(u)
           r == s \ {z}
<1>3. /\ u \in SUBSET All /\ IsFiniteSet(u) /\ IsFiniteSet(s) /\ IsFiniteSet(r)
      /\ z \in u
  BY <1>0, PickIn, FS_Subset
<1>4. SumFunctionOnSet(f, u) = f[z] + SumFunctionOnSet(f, u \ {z})
  BY <1>3, SumPicks
<1>5. f[y] \in Int /\ f[z] \in Int /\ SumFunctionOnSet(f, s) \in Int /\ SumFunctionOnSet(f, r) \in Int
  BY <1>3, SumInt
<1>6. CASE z = y
  <2>1. u \ {z} = s
    BY <1>6
  <2>2. SumFunctionOnSet(f, u) = f[y] + SumFunctionOnSet(f, s)
    BY <1>4, <1>6, <2>1
  <2> HIDE DEF Bad, z
  <2> QED  BY <1>2, <1>5, <2>2
<1>7. CASE z # y
  <2>1. z \in s /\ r \in SUBSET All /\ r \notin Bad
    BY <1>1, <1>3, <1>7
  <2>2. u \ {z} = r \cup {y} /\ s = r \cup {z} /\ z \in All \ r /\ y \in All \ r
    BY <1>3, <1>7, <2>1
  <2>3. /\ SumFunctionOnSet(f, r \cup {y}) = SumFunctionOnSet(f, r) + f[y]
        /\ SumFunctionOnSet(f, r \cup {z}) = SumFunctionOnSet(f, r) + f[z]
    BY <2>1, <2>2
  <2>4. /\ SumFunctionOnSet(f, u) = f[z] + (SumFunctionOnSet(f, r) + f[y])
        /\ SumFunctionOnSet(f, s) = SumFunctionOnSet(f, r) + f[z]
    BY <1>4, <2>2, <2>3
  <2> HIDE DEF Bad, z, r
  <2> QED  BY <1>2, <1>5, <2>4
<1> QED  BY <1>6, <1>7

\* The sum of a set without one of its elements.
LEMMA SumRemove ==
  ASSUME NEW S, IsFiniteSet(S), NEW x \in S, NEW f, \A y \in S : f[y] \in Int
  PROVE  SumFunctionOnSet(f, S) = SumFunctionOnSet(f, S \ {x}) + f[x]
<1>1. IsFiniteSet(S \ {x}) /\ (S \ {x}) \cup {x} = S
  BY FS_Subset
<1> QED  BY <1>1, SumAdd

\* Only the values on the set matter.
LEMMA SumSame ==
  ASSUME NEW S, IsFiniteSet(S), NEW f, NEW g, \A x \in S : f[x] = g[x]
  PROVE  SumFunctionOnSet(f, S) = SumFunctionOnSet(g, S)
<1> DEFINE Good == {s \in SUBSET S : SumFunctionOnSet(f, s) = SumFunctionOnSet(g, s)}
<1>1. {} \in Good
  BY SumEmpty
<1>2. ASSUME NEW s \in SUBSET S, s # {}, s \ {Pick(s)} \in Good
      PROVE  SumFunctionOnSet(f, s) = SumFunctionOnSet(g, s)
  <2> DEFINE x == Pick(s)
             r == s \ {x}
  <2>1. r \in SUBSET S /\ x \in S /\ SumFunctionOnSet(f, r) = SumFunctionOnSet(g, r)
    BY <1>2, PickIn
  <2>2. /\ SumFunctionOnSet(f, s) = f[x] + SumFunctionOnSet(f, r)
        /\ SumFunctionOnSet(g, s) = g[x] + SumFunctionOnSet(g, r)
    BY <1>2, SumPicks, FS_Subset
  <2> HIDE DEF x, r
  <2> QED  BY <2>1, <2>2
<1>3. Good = SUBSET S
  <2>1. Good \in SUBSET (SUBSET S) /\ \A s \in SUBSET S : s # {} /\ s \ {Pick(s)} \in Good => s \in Good
    BY <1>2
  <2> HIDE DEF Good
  <2> QED  BY <1>1, <2>1, SubsetsByPicking
<1> QED  BY <1>3

\* One value changes.
LEMMA SumChange ==
  ASSUME NEW S, IsFiniteSet(S), NEW x \in S, NEW f, NEW g,
         \A y \in S : f[y] \in Int /\ g[y] \in Int,
         \A y \in S \ {x} : g[y] = f[y]
  PROVE  SumFunctionOnSet(g, S) = SumFunctionOnSet(f, S) - f[x] + g[x]
<1>1. SumFunctionOnSet(g, S \ {x}) = SumFunctionOnSet(f, S \ {x})
  BY SumSame, FS_Subset
<1>2. /\ SumFunctionOnSet(f, S) = SumFunctionOnSet(f, S \ {x}) + f[x]
      /\ SumFunctionOnSet(g, S) = SumFunctionOnSet(g, S \ {x}) + g[x]
  BY SumRemove
<1>3. SumFunctionOnSet(f, S \ {x}) \in Int /\ f[x] \in Int /\ g[x] \in Int
  BY SumInt, FS_Subset
<1> QED  BY <1>1, <1>2, <1>3

\* Sums are added value by value.
LEMMA SumPlus ==
  ASSUME NEW S, IsFiniteSet(S), NEW f, NEW g, NEW h,
         \A x \in S : f[x] \in Int /\ g[x] \in Int /\ h[x] = f[x] + g[x]
  PROVE  SumFunctionOnSet(h, S) = SumFunctionOnSet(f, S) + SumFunctionOnSet(g, S)
<1> DEFINE Good == {s \in SUBSET S :
             SumFunctionOnSet(h, s) = SumFunctionOnSet(f, s) + SumFunctionOnSet(g, s)}
<1>1. {} \in Good
  BY SumEmpty
<1>2. ASSUME NEW s \in SUBSET S, s # {}, s \ {Pick(s)} \in Good
      PROVE  SumFunctionOnSet(h, s) = SumFunctionOnSet(f, s) + SumFunctionOnSet(g, s)
  <2> DEFINE x == Pick(s)
             r == s \ {x}
  <2>1. r \in SUBSET S /\ x \in S /\ SumFunctionOnSet(h, r) = SumFunctionOnSet(f, r) + SumFunctionOnSet(g, r)
    BY <1>2, PickIn
  <2>2. /\ SumFunctionOnSet(f, s) = f[x] + SumFunctionOnSet(f, r)
        /\ SumFunctionOnSet(g, s) = g[x] + SumFunctionOnSet(g, r)
        /\ SumFunctionOnSet(h, s) = h[x] + SumFunctionOnSet(h, r)
    BY <1>2, SumPicks, FS_Subset
  <2>3. /\ f[x] \in Int /\ g[x] \in Int
        /\ SumFunctionOnSet(f, r) \in Int /\ SumFunctionOnSet(g, r) \in Int
    BY <2>1, SumInt, FS_Subset
  <2> HIDE DEF Good, x, r
  <2> QED  BY <2>1, <2>2, <2>3
<1>3. Good = SUBSET S
  <2>1. Good \in SUBSET (SUBSET S) /\ \A s \in SUBSET S : s # {} /\ s \ {Pick(s)} \in Good => s \in Good
    BY <1>2
  <2> HIDE DEF Good
  <2> QED  BY <1>1, <2>1, SubsetsByPicking
<1> QED  BY <1>3

\* Smaller values have a smaller sum.
LEMMA SumAtMost ==
  ASSUME NEW S, IsFiniteSet(S), NEW f, NEW g,
         \A x \in S : f[x] \in Int /\ g[x] \in Int /\ f[x] <= g[x]
  PROVE  SumFunctionOnSet(f, S) <= SumFunctionOnSet(g, S)
<1> DEFINE Good == {s \in SUBSET S :
             SumFunctionOnSet(f, s) <= SumFunctionOnSet(g, s)}
<1>1. {} \in Good
  BY SumEmpty
<1>2. ASSUME NEW s \in SUBSET S, s # {}, s \ {Pick(s)} \in Good
      PROVE  SumFunctionOnSet(f, s) <= SumFunctionOnSet(g, s)
  <2> DEFINE x == Pick(s)
             r == s \ {x}
  <2>1. r \in SUBSET S /\ x \in S /\ SumFunctionOnSet(f, r) <= SumFunctionOnSet(g, r)
    BY <1>2, PickIn
  <2>2. /\ SumFunctionOnSet(f, s) = f[x] + SumFunctionOnSet(f, r)
        /\ SumFunctionOnSet(g, s) = g[x] + SumFunctionOnSet(g, r)
    BY <1>2, SumPicks, FS_Subset
  <2>3. /\ f[x] \in Int /\ g[x] \in Int
        /\ SumFunctionOnSet(f, r) \in Int /\ SumFunctionOnSet(g, r) \in Int
    BY <2>1, SumInt, FS_Subset
  <2> HIDE DEF Good, x, r
  <2> QED  BY <2>1, <2>2, <2>3
<1>3. Good = SUBSET S
  <2>1. Good \in SUBSET (SUBSET S) /\ \A s \in SUBSET S : s # {} /\ s \ {Pick(s)} \in Good => s \in Good
    BY <1>2
  <2> HIDE DEF Good
  <2> QED  BY <1>1, <2>1, SubsetsByPicking
<1> QED  BY <1>3

\* A sum of zeros is zero.
LEMMA SumZero ==
  ASSUME NEW S, IsFiniteSet(S), NEW f, \A x \in S : f[x] = 0
  PROVE  SumFunctionOnSet(f, S) = 0
<1>1. SumFunctionOnSet(f, S) = SumFunctionOnSet(f, S) + SumFunctionOnSet(f, S)
  BY SumPlus
<1>2. SumFunctionOnSet(f, S) \in Int
  BY SumInt
<1>3. \A n \in Int : n = n + n => n = 0
  OBVIOUS
<1> QED  BY <1>1, <1>2, <1>3

\* A sum of natural numbers is one.
LEMMA SumNat ==
  ASSUME NEW S, IsFiniteSet(S), NEW f, \A x \in S : f[x] \in Nat
  PROVE  SumFunctionOnSet(f, S) \in Nat
<1> DEFINE zero == [x \in S |-> 0]
<1>1. SumFunctionOnSet(zero, S) <= SumFunctionOnSet(f, S) /\ SumFunctionOnSet(zero, S) = 0
  BY SumAtMost, SumZero
<1>2. SumFunctionOnSet(f, S) \in Int
  BY SumInt
<1> HIDE DEF zero
<1> QED  BY <1>1, <1>2

\* A part of a sum of natural numbers is no more than the whole.
LEMMA SumPart ==
  ASSUME NEW S, IsFiniteSet(S), NEW T \in SUBSET S, NEW f, \A x \in S : f[x] \in Nat
  PROVE  SumFunctionOnSet(f, T) <= SumFunctionOnSet(f, S)
<1> DEFINE Bad == {s \in SUBSET S :
             T \subseteq s /\ ~ (SumFunctionOnSet(f, T) <= SumFunctionOnSet(f, s))}
<1> SUFFICES ASSUME Bad # {} PROVE FALSE
  OBVIOUS
<1>1. PICK s \in Bad : \A t \in Bad : ~ (t \subseteq s /\ t # s)
  <2>1. Bad \in SUBSET (SUBSET S)
    OBVIOUS
  <2> HIDE DEF Bad
  <2> QED  BY <2>1, MinimalSubset
<1>2. IsFiniteSet(s) /\ IsFiniteSet(T) /\ T \subseteq s
  BY FS_Subset
<1>3. SumFunctionOnSet(f, T) \in Int
  BY <1>2, SumInt
<1>4. CASE s = T
  BY <1>3, <1>4
<1>5. CASE s # T
  <2>1. PICK x \in s : x \notin T
    BY <1>2, <1>5
  <2> DEFINE r == s \ {x}
  <2>2. r \in SUBSET S /\ T \subseteq r /\ r \notin Bad /\ f[x] \in Nat
    BY <1>1, <1>2, <2>1
  <2>3. SumFunctionOnSet(f, s) = SumFunctionOnSet(f, r) + f[x]
    BY <1>2, SumRemove
  <2>4. SumFunctionOnSet(f, T) <= SumFunctionOnSet(f, r) /\ SumFunctionOnSet(f, r) \in Int
    BY <2>2, SumInt, FS_Subset
  <2>5. ~ (SumFunctionOnSet(f, T) <= SumFunctionOnSet(f, s))
    OBVIOUS
  <2> HIDE DEF Bad, r
  <2> QED  BY <1>3, <2>2, <2>3, <2>4, <2>5
<1> QED  BY <1>4, <1>5

\* A function gets one more argument: its sum grows by the value there.
LEMMA SumExtends ==
  ASSUME NEW S, IsFiniteSet(S), NEW x, x \notin S, NEW f, NEW g,
         DOMAIN f = S, DOMAIN g = S \cup {x},
         \A y \in S : f[y] \in Int /\ g[y] = f[y], g[x] \in Int
  PROVE  SumFunction(g) = SumFunction(f) + g[x]
<1>1. SumFunctionOnSet(g, S \cup {x}) = SumFunctionOnSet(g, S) + g[x]
  BY SumAdd
<1>2. SumFunctionOnSet(g, S) = SumFunctionOnSet(f, S)
  BY SumSame
<1> QED  BY <1>1, <1>2 DEF SumFunction
=============================================================================
