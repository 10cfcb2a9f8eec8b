-------------------------------- MODULE Sums --------------------------------
(***************************************************************************)
(* Facts about the sums over finite sets by which the modules of the stock *)
(* and of purchase count pieces: SumFunctionOnSet(f, S) of module          *)
(* Functions.  The recursion behind it is resolved here once, by induction *)
(* over the subsets of a finite set.                                       *)
(***************************************************************************)
EXTENDS Integers, Functions, FiniteSetTheorems, WellFoundedInduction, TLAPS

\* Among natural numbers there is a least one (for induction over the size of a set).
LEMMA LeastNumber ==
    ASSUME NEW N, N \subseteq Nat, N # {}
    PROVE  \E n \in N : \A m \in N : n <= m
<1> DEFINE less == OpToRel(<, Nat)
<1>1. IsWellFoundedOn(less, Nat)
    BY NatLessThanWellFounded
<1>2. \A m, n \in Nat : ~(<<m, n>> \in less) => n <= m
    BY DEF OpToRel
<1> HIDE DEF less
<1>3. PICK n \in N : \A m \in N : ~(<<m, n>> \in less)
    BY <1>1, WFMin
<1> QED
    BY <1>2, <1>3

\* Induction over the subsets of a finite set, smaller ones first (for sums over
\* documents, holds and receipts).
LEMMA SubsetInduction ==
    ASSUME NEW S, IsFiniteSet(S), NEW U,
           \A T \in SUBSET S : (\A R \in SUBSET T : R # T => R \in U) => T \in U
    PROVE  \A T \in SUBSET S : T \in U
<1> DEFINE bad == {n \in Nat : \E T \in SUBSET S : Cardinality(T) = n /\ T \notin U}
<1>1. \A T \in SUBSET S : IsFiniteSet(T) /\ Cardinality(T) \in Nat
    BY FS_Subset, FS_CardinalityType
<1>2. \A T \in SUBSET S : \A R \in SUBSET T : R # T => Cardinality(R) < Cardinality(T)
    BY <1>1, FS_Subset
<1>3. SUFFICES ASSUME bad # {} PROVE FALSE
    BY <1>1, <1>3
<1>4. bad \subseteq Nat
    OBVIOUS
<1>6. PICK n \in bad : \A m \in bad : n <= m
    <2> HIDE DEF bad
    <2> QED  BY <1>3, <1>4, LeastNumber
<1>7. PICK T \in SUBSET S : Cardinality(T) = n /\ T \notin U
    BY <1>6
<1>8. \A R \in SUBSET T : R # T => R \in U
    <2> SUFFICES ASSUME NEW R \in SUBSET T, R # T, R \notin U PROVE FALSE
        OBVIOUS
    <2>1. Cardinality(R) < n /\ Cardinality(R) \in Nat /\ R \in SUBSET S
        BY <1>1, <1>2, <1>7
    <2>2. Cardinality(R) \in bad
        BY <2>1
    <2> QED  BY <1>4, <1>6, <2>1, <2>2
<1> QED  BY <1>7, <1>8

-----------------------------------------------------------------------------
(* What the recursion computes.                                             *)

Pick(S) == CHOOSE x \in S : TRUE

Table(f, S, g) ==
    g = [T \in SUBSET S |-> IF T = {} THEN 0 ELSE f[Pick(T)] + g[T \ {Pick(T)}]]

\* The library's definition, with its parameters put in (any sum of the model).
LEMMA SumDefinition ==
    ASSUME NEW f, NEW S
    PROVE  SumFunctionOnSet(f, S) = (CHOOSE g : Table(f, S, g))[S]
BY DEF SumFunctionOnSet, FoldFunctionOnSet, MapThenFoldSet, Table, Pick

\* Tables of two sets agree where both have an entry.
LEMMA TablesAgree ==
    ASSUME NEW f, NEW S, IsFiniteSet(S), NEW V, S \subseteq V, NEW g, NEW h,
           Table(f, V, g), Table(f, S, h)
    PROVE  \A T \in SUBSET S : g[T] = h[T]
<1> DEFINE U == {T \in SUBSET S : g[T] = h[T]}
<1>1. ASSUME NEW T \in SUBSET S, \A R \in SUBSET T : R # T => R \in U
      PROVE  T \in U
    <2>1. g[T] = IF T = {} THEN 0 ELSE f[Pick(T)] + g[T \ {Pick(T)}]
        BY DEF Table
    <2>2. h[T] = IF T = {} THEN 0 ELSE f[Pick(T)] + h[T \ {Pick(T)}]
        BY DEF Table
    <2>3. CASE T = {}
        BY <2>1, <2>2, <2>3
    <2>4. CASE T # {}
        <3>1. Pick(T) \in T
            BY <2>4 DEF Pick
        <3>2. T \ {Pick(T)} \in SUBSET T /\ T \ {Pick(T)} # T
            BY <3>1
        <3> QED  BY <1>1, <2>1, <2>2, <2>4, <3>2
    <2> QED  BY <2>3, <2>4
<1> HIDE DEF U
<1>2. \A T \in SUBSET S : T \in U
    BY <1>1, SubsetInduction
<1> QED  BY <1>2 DEF U

\* There is a table of every finite set.
LEMMA TableExists ==
    ASSUME NEW f, NEW S, IsFiniteSet(S)
    PROVE  \E g : Table(f, S, g)
<1> DEFINE U == {T \in SUBSET S : \E g : Table(f, T, g)}
           entry(T) == (CHOOSE g : Table(f, T, g))[T]
<1>1. ASSUME NEW T \in SUBSET S, \A R \in SUBSET T : R # T => R \in U
      PROVE  T \in U
    <2> DEFINE rest(R) == R \ {Pick(R)}
               g == [R \in SUBSET T |->
                        IF R = {} THEN 0
                        ELSE IF R = T THEN f[Pick(R)] + entry(rest(R)) ELSE entry(R)]
    <2>1. \A R \in SUBSET T : R # {} => Pick(R) \in R /\ rest(R) \in SUBSET T /\ rest(R) # T
        BY DEF Pick
    <2>2. ASSUME NEW R \in SUBSET T, R # T
          PROVE  /\ Table(f, R, CHOOSE h : Table(f, R, h))
                 /\ IsFiniteSet(R)
        BY <1>1, <2>2, FS_Subset
    <2>3. ASSUME NEW R \in SUBSET T, R # T, R # {}
          PROVE  entry(R) = f[Pick(R)] + entry(rest(R))
        <3> DEFINE big == CHOOSE h : Table(f, R, h)
                   small == CHOOSE h : Table(f, rest(R), h)
        <3>1. rest(R) \in SUBSET R /\ rest(R) \in SUBSET T /\ rest(R) # T
            BY <2>1, <2>3
        <3>2. Table(f, R, big) /\ Table(f, rest(R), small) /\ IsFiniteSet(rest(R))
            BY <2>2, <2>3, <3>1
        <3> HIDE DEF big, small
        <3>3. big[R] = f[Pick(R)] + big[rest(R)]
            BY <2>3, <3>2 DEF Table
        <3>4. big[rest(R)] = small[rest(R)]
            <4> HIDE DEF rest
            <4>1. \A Q \in SUBSET rest(R) : big[Q] = small[Q]
                BY <3>1, <3>2, TablesAgree
            <4> QED  BY <4>1
        <3> QED  BY <3>3, <3>4 DEF big, small
    <2>4. ASSUME NEW R \in SUBSET T, R # {}
          PROVE  g[rest(R)] = entry(rest(R))
        <3>1. rest(R) \in SUBSET T /\ rest(R) # T
            BY <2>1, <2>4
        <3>2. CASE rest(R) # {}
            <4> HIDE DEF rest, entry
            <4> QED  BY <3>1, <3>2
        <3>3. CASE rest(R) = {}
            <4>1. Table(f, {}, CHOOSE h : Table(f, {}, h))
                BY <2>2, <3>1, <3>3
            <4>2. entry({}) = 0
                <5> DEFINE h == CHOOSE h : Table(f, {}, h)
                <5>1. Table(f, {}, h)
                    BY <4>1
                <5> HIDE DEF h
                <5>2. h[{}] = 0
                    BY <5>1 DEF Table
                <5> QED  BY <5>2 DEF h
            <4> HIDE DEF rest, entry
            <4> QED  BY <3>1, <3>3, <4>2
        <3> QED  BY <3>2, <3>3
    <2>5. \A R \in SUBSET T :
             g[R] = IF R = {} THEN 0 ELSE f[Pick(R)] + g[rest(R)]
        <3> SUFFICES ASSUME NEW R \in SUBSET T
                     PROVE  g[R] = IF R = {} THEN 0 ELSE f[Pick(R)] + g[rest(R)]
            OBVIOUS
        <3>1. CASE R = {}
            BY <3>1
        <3>2. CASE R # {} /\ R = T
            <4>1. g[R] = f[Pick(R)] + entry(rest(R))
                <5> HIDE DEF rest, entry
                <5> QED  BY <3>2
            <4> HIDE DEF rest, entry, g
            <4> QED  BY <2>4, <3>2, <4>1
        <3>3. CASE R # {} /\ R # T
            <4>1. g[R] = entry(R)
                <5> HIDE DEF rest, entry
                <5> QED  BY <3>3
            <4> HIDE DEF rest, entry, g
            <4> QED  BY <2>3, <2>4, <3>3, <4>1
        <3> QED  BY <3>1, <3>2, <3>3
    <2>6. Table(f, T, g)
        <3>1. g = [R \in SUBSET T |-> g[R]]
            OBVIOUS
        <3> HIDE DEF g
        <3>2. [R \in SUBSET T |-> g[R]]
                = [R \in SUBSET T |-> IF R = {} THEN 0 ELSE f[Pick(R)] + g[rest(R)]]
            BY <2>5
        <3> QED  BY <3>1, <3>2 DEF Table
    <2> QED  BY <2>6
<1> HIDE DEF U
<1>2. \A T \in SUBSET S : T \in U
    BY <1>1, SubsetInduction
<1> QED  BY <1>2 DEF U

LEMMA SumEmpty ==
    ASSUME NEW f
    PROVE  SumFunctionOnSet(f, {}) = 0
<1>1. IsFiniteSet({})
    BY FS_EmptySet
<1>2. \E t : Table(f, {}, t)
    BY <1>1, TableExists
<1> DEFINE h == CHOOSE g : Table(f, {}, g)
<1>3. Table(f, {}, h)
    BY <1>2
<1> HIDE DEF h
<1>4. h[{}] = 0
    BY <1>3 DEF Table
<1> QED  BY <1>4, SumDefinition DEF h

\* One step of the recursion.
LEMMA SumStep ==
    ASSUME NEW f, NEW S, IsFiniteSet(S), S # {}
    PROVE  /\ Pick(S) \in S
           /\ SumFunctionOnSet(f, S) = f[Pick(S)] + SumFunctionOnSet(f, S \ {Pick(S)})
<1> DEFINE rest == S \ {Pick(S)}
           big == CHOOSE g : Table(f, S, g)
           small == CHOOSE g : Table(f, rest, g)
<1>1. Pick(S) \in S
    BY DEF Pick
<1>2. IsFiniteSet(rest) /\ rest \subseteq S
    BY FS_Subset
<1>3. Table(f, S, big) /\ Table(f, rest, small)
    <2>1. (\E g : Table(f, S, g)) /\ \E g : Table(f, rest, g)
        <3> HIDE DEF rest
        <3> QED  BY <1>2, TableExists
    <2> QED  BY <2>1
<1>4. SumFunctionOnSet(f, S) = big[S] /\ SumFunctionOnSet(f, rest) = small[rest]
    <2> HIDE DEF rest
    <2> QED  BY SumDefinition
<1> HIDE DEF big, small
<1>5. big[S] = f[Pick(S)] + big[rest]
    BY <1>3 DEF Table
<1>6. big[rest] = small[rest]
    <2> HIDE DEF rest
    <2>1. \A Q \in SUBSET rest : big[Q] = small[Q]
        BY <1>2, <1>3, TablesAgree
    <2> QED  BY <2>1
<1> QED  BY <1>1, <1>4, <1>5, <1>6

-----------------------------------------------------------------------------
(* What the proofs of the model use.                                        *)

LEMMA SumType ==
    ASSUME NEW S, IsFiniteSet(S), NEW f, \A x \in S : f[x] \in Int
    PROVE  SumFunctionOnSet(f, S) \in Int
<1> DEFINE U == {T \in SUBSET S : SumFunctionOnSet(f, T) \in Int}
<1>1. ASSUME NEW T \in SUBSET S, \A R \in SUBSET T : R # T => R \in U
      PROVE  T \in U
    <2>1. CASE T = {}
        BY <2>1, SumEmpty
    <2>2. CASE T # {}
        <3>1. IsFiniteSet(T)
            BY FS_Subset
        <3>2. /\ Pick(T) \in T
              /\ SumFunctionOnSet(f, T) = f[Pick(T)] + SumFunctionOnSet(f, T \ {Pick(T)})
            BY <2>2, <3>1, SumStep
        <3>3. SumFunctionOnSet(f, T \ {Pick(T)}) \in Int
            BY <1>1, <3>2
        <3> QED  BY <3>2, <3>3
    <2> QED  BY <2>1, <2>2
<1> HIDE DEF U
<1>2. S \in U
    BY <1>1, SubsetInduction
<1> QED  BY <1>2 DEF U

\* A sum may be taken in any order.
LEMMA SumSplit ==
    ASSUME NEW S, IsFiniteSet(S), NEW f, \A x \in S : f[x] \in Int
    PROVE  \A x \in S : SumFunctionOnSet(f, S) = f[x] + SumFunctionOnSet(f, S \ {x})
<1> DEFINE sum(T) == SumFunctionOnSet(f, T)
           U == {T \in SUBSET S : \A x \in T : sum(T) = f[x] + sum(T \ {x})}
<1>1. ASSUME NEW T \in SUBSET S, \A R \in SUBSET T : R # T => R \in U
      PROVE  T \in U
    <2> SUFFICES ASSUME NEW x \in T PROVE sum(T) = f[x] + sum(T \ {x})
        OBVIOUS
    <2> DEFINE p == Pick(T)
    <2>1. IsFiniteSet(T) /\ T # {}
        BY FS_Subset
    <2>2. p \in T /\ sum(T) = f[p] + sum(T \ {p})
        BY <2>1, SumStep
    <2>3. CASE x = p
        BY <2>2, <2>3
    <2>4. CASE x # p
        <3> HIDE DEF p
        <3>1. T \ {p} \in U /\ T \ {x} \in U
            BY <1>1, <2>2
        <3>2. sum(T \ {p}) = f[x] + sum((T \ {p}) \ {x})
            BY <2>4, <3>1
        <3>3. sum(T \ {x}) = f[p] + sum((T \ {x}) \ {p})
            BY <2>2, <2>4, <3>1
        <3>4. sum((T \ {p}) \ {x}) = sum((T \ {x}) \ {p})
            <4>1. (T \ {p}) \ {x} = (T \ {x}) \ {p}
                OBVIOUS
            <4> QED  BY <4>1
        <3>5. sum((T \ {x}) \ {p}) \in Int
            <4> DEFINE R == (T \ {x}) \ {p}
            <4>1. R \subseteq S /\ \A y \in R : f[y] \in Int
                OBVIOUS
            <4> HIDE DEF R
            <4>2. IsFiniteSet(R)
                BY <4>1, FS_Subset
            <4>3. sum(R) \in Int
                BY <4>1, <4>2, SumType
            <4> QED  BY <4>3 DEF R
        <3>6. f[p] \in Int /\ f[x] \in Int
            BY <2>2
        <3> HIDE DEF sum
        <3>7. sum(T) = f[p] + (f[x] + sum((T \ {x}) \ {p}))
            BY <2>2, <3>2, <3>4
        <3> QED  BY <3>3, <3>5, <3>6, <3>7
    <2> QED  BY <2>3, <2>4
<1> HIDE DEF U
<1>2. S \in U
    BY <1>1, SubsetInduction
<1> QED  BY <1>2 DEF U

\* One more element.
LEMMA SumInsert ==
    ASSUME NEW S, IsFiniteSet(S), NEW f, NEW x, x \notin S,
           \A y \in S \cup {x} : f[y] \in Int
    PROVE  /\ IsFiniteSet(S \cup {x})
           /\ SumFunctionOnSet(f, S \cup {x}) = f[x] + SumFunctionOnSet(f, S)
<1> DEFINE T == S \cup {x}
<1>1. IsFiniteSet(T)
    BY FS_AddElement
<1>2. T \ {x} = S /\ x \in T /\ \A y \in T : f[y] \in Int
    OBVIOUS
<1> HIDE DEF T
<1>3. SumFunctionOnSet(f, T) = f[x] + SumFunctionOnSet(f, T \ {x})
    BY <1>1, <1>2, SumSplit
<1> QED  BY <1>1, <1>2, <1>3 DEF T

\* Only what is summed up counts.
LEMMA SumEqual ==
    ASSUME NEW S, IsFiniteSet(S), NEW f, NEW g,
           \A x \in S : f[x] \in Int /\ f[x] = g[x]
    PROVE  SumFunctionOnSet(f, S) = SumFunctionOnSet(g, S)
<1> DEFINE U == {T \in SUBSET S : SumFunctionOnSet(f, T) = SumFunctionOnSet(g, T)}
<1>1. ASSUME NEW T \in SUBSET S, \A R \in SUBSET T : R # T => R \in U
      PROVE  T \in U
    <2>1. CASE T = {}
        BY <2>1, SumEmpty
    <2>2. CASE T # {}
        <3>1. IsFiniteSet(T)
            BY FS_Subset
        <3>2. /\ Pick(T) \in T
              /\ SumFunctionOnSet(f, T) = f[Pick(T)] + SumFunctionOnSet(f, T \ {Pick(T)})
              /\ SumFunctionOnSet(g, T) = g[Pick(T)] + SumFunctionOnSet(g, T \ {Pick(T)})
            BY <2>2, <3>1, SumStep
        <3>3. T \ {Pick(T)} \in U
            BY <1>1, <3>2
        <3> QED  BY <3>2, <3>3
    <2> QED  BY <2>1, <2>2
<1> HIDE DEF U
<1>2. S \in U
    BY <1>1, SubsetInduction
<1> QED  BY <1>2 DEF U

\* One summand changes.
LEMMA SumChange ==
    ASSUME NEW S, IsFiniteSet(S), NEW f, NEW g, NEW x \in S,
           \A y \in S : f[y] \in Int /\ g[y] \in Int,
           \A y \in S \ {x} : f[y] = g[y]
    PROVE  SumFunctionOnSet(g, S) = SumFunctionOnSet(f, S) + g[x] - f[x]
<1> DEFINE R == S \ {x}
<1>1. IsFiniteSet(R) /\ R \subseteq S
    BY FS_Subset
<1>2. /\ SumFunctionOnSet(g, S) = g[x] + SumFunctionOnSet(g, R)
      /\ SumFunctionOnSet(f, S) = f[x] + SumFunctionOnSet(f, R)
    BY SumSplit
<1>3. \A y \in R : f[y] \in Int /\ f[y] = g[y]
    OBVIOUS
<1> HIDE DEF R
<1>4. SumFunctionOnSet(f, R) = SumFunctionOnSet(g, R)
    BY <1>1, <1>3, SumEqual
<1>5. SumFunctionOnSet(f, R) \in Int
    BY <1>1, <1>3, SumType
<1> QED  BY <1>2, <1>4, <1>5

\* A sum of sums.
LEMMA SumPlus ==
    ASSUME NEW S, IsFiniteSet(S), NEW f, NEW g, NEW h,
           \A x \in S : f[x] \in Int /\ g[x] \in Int /\ h[x] = f[x] + g[x]
    PROVE  SumFunctionOnSet(h, S) = SumFunctionOnSet(f, S) + SumFunctionOnSet(g, S)
<1> DEFINE U == {T \in SUBSET S : SumFunctionOnSet(h, T)
                     = SumFunctionOnSet(f, T) + SumFunctionOnSet(g, T)}
<1>1. ASSUME NEW T \in SUBSET S, \A R \in SUBSET T : R # T => R \in U
      PROVE  T \in U
    <2>1. CASE T = {}
        BY <2>1, SumEmpty
    <2>2. CASE T # {}
        <3> DEFINE R == T \ {Pick(T)}
        <3>1. IsFiniteSet(T) /\ IsFiniteSet(R)
            BY FS_Subset
        <3>2. /\ Pick(T) \in T
              /\ SumFunctionOnSet(f, T) = f[Pick(T)] + SumFunctionOnSet(f, R)
              /\ SumFunctionOnSet(g, T) = g[Pick(T)] + SumFunctionOnSet(g, R)
              /\ SumFunctionOnSet(h, T) = h[Pick(T)] + SumFunctionOnSet(h, R)
            BY <2>2, <3>1, SumStep
        <3>3. R \in U /\ R \subseteq S
            BY <1>1, <3>2
        <3>4. SumFunctionOnSet(f, R) \in Int /\ SumFunctionOnSet(g, R) \in Int
            <4>1. \A x \in R : f[x] \in Int /\ g[x] \in Int
                BY <3>3
            <4> HIDE DEF R
            <4> QED  BY <3>1, <4>1, SumType
        <3>5. Pick(T) \in S
            BY <3>2
        <3> HIDE DEF R
        <3> QED  BY <3>2, <3>3, <3>4, <3>5
    <2> QED  BY <2>1, <2>2
<1> HIDE DEF U
<1>2. S \in U
    BY <1>1, SubsetInduction
<1> QED  BY <1>2 DEF U

\* A sum is not less than one of smaller summands.
LEMMA SumMonotone ==
    ASSUME NEW S, IsFiniteSet(S), NEW f, NEW g,
           \A x \in S : f[x] \in Int /\ g[x] \in Int /\ f[x] <= g[x]
    PROVE  SumFunctionOnSet(f, S) <= SumFunctionOnSet(g, S)
<1> DEFINE U == {T \in SUBSET S : SumFunctionOnSet(f, T) <= SumFunctionOnSet(g, T)}
<1>1. ASSUME NEW T \in SUBSET S, \A R \in SUBSET T : R # T => R \in U
      PROVE  T \in U
    <2>1. CASE T = {}
        BY <2>1, SumEmpty
    <2>2. CASE T # {}
        <3> DEFINE R == T \ {Pick(T)}
        <3>1. IsFiniteSet(T) /\ IsFiniteSet(R)
            BY FS_Subset
        <3>2. /\ Pick(T) \in T
              /\ SumFunctionOnSet(f, T) = f[Pick(T)] + SumFunctionOnSet(f, R)
              /\ SumFunctionOnSet(g, T) = g[Pick(T)] + SumFunctionOnSet(g, R)
            BY <2>2, <3>1, SumStep
        <3>3. R \in U /\ R \subseteq S
            BY <1>1, <3>2
        <3>4. SumFunctionOnSet(f, R) \in Int /\ SumFunctionOnSet(g, R) \in Int
            <4>1. \A x \in R : f[x] \in Int /\ g[x] \in Int
                BY <3>3
            <4> HIDE DEF R
            <4> QED  BY <3>1, <4>1, SumType
        <3>5. Pick(T) \in S
            BY <3>2
        <3> HIDE DEF R
        <3> QED  BY <3>2, <3>3, <3>4, <3>5
    <2> QED  BY <2>1, <2>2
<1> HIDE DEF U
<1>2. S \in U
    BY <1>1, SubsetInduction
<1> QED  BY <1>2 DEF U

\* A sum of nothing.
LEMMA SumZero ==
    ASSUME NEW S, IsFiniteSet(S), NEW f, \A x \in S : f[x] = 0
    PROVE  SumFunctionOnSet(f, S) = 0
<1> DEFINE U == {T \in SUBSET S : SumFunctionOnSet(f, T) = 0}
<1>1. ASSUME NEW T \in SUBSET S, \A R \in SUBSET T : R # T => R \in U
      PROVE  T \in U
    <2>1. CASE T = {}
        BY <2>1, SumEmpty
    <2>2. CASE T # {}
        <3>1. IsFiniteSet(T)
            BY FS_Subset
        <3>2. /\ Pick(T) \in T
              /\ SumFunctionOnSet(f, T) = f[Pick(T)] + SumFunctionOnSet(f, T \ {Pick(T)})
            BY <2>2, <3>1, SumStep
        <3>3. T \ {Pick(T)} \in U /\ Pick(T) \in S
            BY <1>1, <3>2
        <3> QED  BY <3>2, <3>3
    <2> QED  BY <2>1, <2>2
<1> HIDE DEF U
<1>2. S \in U
    BY <1>1, SubsetInduction
<1> QED  BY <1>2 DEF U

\* Summands of nothing may be left out.
LEMMA SumOutside ==
    ASSUME NEW S, IsFiniteSet(S), NEW V, V \subseteq S, NEW f,
           \A x \in S : f[x] \in Int, \A x \in S \ V : f[x] = 0
    PROVE  SumFunctionOnSet(f, S) = SumFunctionOnSet(f, V)
<1> DEFINE U == {T \in SUBSET S : SumFunctionOnSet(f, T) = SumFunctionOnSet(f, T \cap V)}
<1>1. ASSUME NEW T \in SUBSET S, \A R \in SUBSET T : R # T => R \in U
      PROVE  T \in U
    <2>1. CASE T \subseteq V
        <3>1. T \cap V = T
            BY <2>1
        <3> QED  BY <3>1
    <2>2. CASE ~(T \subseteq V)
        <3>1. PICK x \in T : x \notin V
            BY <2>2
        <3>2. IsFiniteSet(T) /\ \A y \in T : f[y] \in Int
            BY FS_Subset
        <3>3. SumFunctionOnSet(f, T) = f[x] + SumFunctionOnSet(f, T \ {x})
            BY <3>2, SumSplit
        <3>4. T \ {x} \in U /\ (T \ {x}) \cap V = T \cap V
            BY <1>1, <3>1
        <3>5. SumFunctionOnSet(f, T \ {x}) = SumFunctionOnSet(f, T \cap V)
            BY <3>4
        <3>6. SumFunctionOnSet(f, T \cap V) \in Int
            <4>1. IsFiniteSet(T \cap V) /\ \A y \in T \cap V : f[y] \in Int
                BY FS_Subset
            <4> QED  BY <4>1, SumType
        <3>7. f[x] = 0
            BY <3>1
        <3>8. SumFunctionOnSet(f, T) = SumFunctionOnSet(f, T \cap V)
            BY <3>3, <3>5, <3>6, <3>7
        <3> QED  BY <3>8
    <2> QED  BY <2>1, <2>2
<1> HIDE DEF U
<1>2. S \in U
    BY <1>1, SubsetInduction
<1>3. S \cap V = V
    OBVIOUS
<1> QED  BY <1>2, <1>3 DEF U

\* A sum of natural numbers is one, and not less than any of them.
LEMMA SumAtLeast ==
    ASSUME NEW S, IsFiniteSet(S), NEW f, \A x \in S : f[x] \in Nat
    PROVE  /\ SumFunctionOnSet(f, S) \in Nat
           /\ \A x \in S : f[x] <= SumFunctionOnSet(f, S)
<1> DEFINE zero == [x \in S |-> 0]
<1>1. ASSUME NEW T \in SUBSET S PROVE SumFunctionOnSet(f, T) \in Nat
    <2>1. IsFiniteSet(T) /\ \A x \in T : zero[x] = 0 /\ zero[x] \in Int /\ f[x] \in Int
                                          /\ zero[x] <= f[x]
        BY FS_Subset
    <2> HIDE DEF zero
    <2>2. SumFunctionOnSet(zero, T) = 0 /\ SumFunctionOnSet(f, T) \in Int
        BY <2>1, SumZero, SumType
    <2>3. SumFunctionOnSet(zero, T) <= SumFunctionOnSet(f, T)
        BY <2>1, SumMonotone
    <2> QED  BY <2>2, <2>3
<1>2. \A x \in S : SumFunctionOnSet(f, S) = f[x] + SumFunctionOnSet(f, S \ {x})
    BY SumSplit
<1>3. SumFunctionOnSet(f, S) \in Nat /\ \A x \in S : SumFunctionOnSet(f, S \ {x}) \in Nat
    BY <1>1
<1>4. ASSUME NEW x \in S PROVE f[x] <= SumFunctionOnSet(f, S)
    <2>1. /\ SumFunctionOnSet(f, S) = f[x] + SumFunctionOnSet(f, S \ {x})
          /\ f[x] \in Nat /\ SumFunctionOnSet(f, S \ {x}) \in Nat
        BY <1>2, <1>3
    <2> QED  BY <2>1
<1> QED  BY <1>3, <1>4

\* Of finitely many things in an order one is the last.
LEMMA LastOne ==
    ASSUME NEW S, IsFiniteSet(S), S # {}, NEW R,
           \A x, y \in S : x # y => <<x, y>> \in R \/ <<y, x>> \in R,
           \A x, y, z \in S : <<x, y>> \in R /\ <<y, z>> \in R => <<x, z>> \in R
    PROVE  \E x \in S : \A y \in S \ {x} : <<y, x>> \in R
<1> DEFINE U == {T \in SUBSET S : T # {} => \E x \in T : \A y \in T \ {x} : <<y, x>> \in R}
<1>1. ASSUME NEW T \in SUBSET S, \A Q \in SUBSET T : Q # T => Q \in U
      PROVE  T \in U
    <2>1. CASE T = {}
        BY <2>1
    <2>2. ASSUME NEW x \in T PROVE T \in U
        <3>1. CASE T \ {x} = {}
            BY <3>1
        <3>2. CASE T \ {x} # {}
            <4>1. PICK h \in T \ {x} : \A y \in (T \ {x}) \ {h} : <<y, h>> \in R
                <5>1. T \ {x} \in SUBSET T /\ T \ {x} # T
                    BY <2>2
                <5>2. T \ {x} \in U
                    <6> HIDE DEF U
                    <6> QED  BY <1>1, <5>1
                <5> QED  BY <3>2, <5>2
            <4>2. CASE <<x, h>> \in R
                BY <4>1, <4>2
            <4>3. CASE <<h, x>> \in R
                <5>1. \A y \in T \ {x} : <<y, x>> \in R
                    BY <4>1, <4>3
                <5> QED  BY <5>1
            <4> QED  BY <4>1, <4>2, <4>3
        <3> QED  BY <3>1, <3>2
    <2> QED  BY <2>1, <2>2
<1> HIDE DEF U
<1>2. S \in U
    BY <1>1, SubsetInduction
<1> QED  BY <1>2 DEF U
=============================================================================
