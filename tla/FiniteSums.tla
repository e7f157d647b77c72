------------------------------ MODULE FiniteSums -------------------------------
(***************************************************************************)
(* SumFunction and SumFunctionOnSet of the community modules, whose value  *)
(* is that of a recursive function on the subsets of an index set: that    *)
(* such a function exists, and from it the laws of sums over finite sets   *)
(* that the proofs about counters, reports and windows rest on.            *)
(***************************************************************************)
EXTENDS Functions, FiniteSets, FiniteSetTheorems, WellFoundedInduction, TLAPS

Pick(s) == CHOOSE x \in s : TRUE

(* g is the recursive function that sums f over the subsets of T. *)
IsSum(g, f, T) ==
  g = [s \in SUBSET T |-> IF s = {} THEN 0 ELSE f[Pick(s)] + g[s \ {Pick(s)}]]

(* Of the subsets of a finite set in B, one contains no other. *)
LEMMA SmallestSubset ==
  ASSUME NEW S, IsFiniteSet(S), NEW B \in SUBSET SUBSET S, B # {}
  PROVE  \E T \in B : \A U \in B : U \subseteq T => U = T
<1>1. IsWellFoundedOn(StrictSubsetOrdering(S), SUBSET S)
  BY FS_StrictSubsetOrderingWellFounded, FS_FiniteSubsetsOfFinite
<1>2. PICK T \in B : \A U \in B : <<U, T>> \notin StrictSubsetOrdering(S)
  BY <1>1, WFMin
<1> QED BY <1>2 DEF StrictSubsetOrdering

LEMMA SumIsChoice ==
  ASSUME NEW f, NEW S
  PROVE  SumFunctionOnSet(f, S) = (CHOOSE g : IsSum(g, f, S))[S]
BY Zenon DEF SumFunctionOnSet, FoldFunctionOnSet, MapThenFoldSet, IsSum, Pick

LEMMA PickIn == ASSUME NEW s, s # {} PROVE Pick(s) \in s
BY DEF Pick

LEMMA SumUnfolds ==
  ASSUME NEW f, NEW T, NEW g, IsSum(g, f, T), NEW s \in SUBSET T
  PROVE  g[s] = IF s = {} THEN 0 ELSE f[Pick(s)] + g[s \ {Pick(s)}]
BY DEF IsSum

LEMMA SumRestricts ==
  ASSUME NEW f, NEW T, NEW g, IsSum(g, f, T), NEW U \in SUBSET T
  PROVE  IsSum([s \in SUBSET U |-> g[s]], f, U)
<1> DEFINE h == [s \in SUBSET U |-> g[s]]
<1>1. \A s \in SUBSET U : h[s] = IF s = {} THEN 0 ELSE f[Pick(s)] + h[s \ {Pick(s)}]
  BY SumUnfolds
<1> QED BY <1>1 DEF IsSum

LEMMA SumIsUnique ==
  ASSUME NEW f, NEW T, IsFiniteSet(T), NEW g, IsSum(g, f, T), NEW h, IsSum(h, f, T)
  PROVE  g = h
<1> DEFINE B == {s \in SUBSET T : g[s] # h[s]}
<1>1. SUFFICES ASSUME B # {} PROVE FALSE
  BY DEF IsSum
<1>2. B \in SUBSET SUBSET T
  OBVIOUS
<1> HIDE DEF B
<1>3. PICK s \in B : \A U \in B : U \subseteq s => U = s
  BY <1>2, <1>1, SmallestSubset
<1> USE DEF B
<1>4. s # {}
  BY <1>3, SumUnfolds
<1>5. Pick(s) \in s
  BY <1>4, PickIn
<1>6. g[s \ {Pick(s)}] = h[s \ {Pick(s)}]
  BY <1>3, <1>5
<1> QED BY <1>3, <1>4, <1>6, SumUnfolds

LEMMA SumExists ==
  ASSUME NEW f, NEW S, IsFiniteSet(S)
  PROVE  \E g : IsSum(g, f, S)
<1> DEFINE B == {T \in SUBSET S : ~ \E g : IsSum(g, f, T)}
           Sum(T) == CHOOSE g : IsSum(g, f, T)
<1>1. SUFFICES ASSUME B # {} PROVE FALSE
  OBVIOUS
<1>2. B \in SUBSET SUBSET S
  OBVIOUS
<1> HIDE DEF B
<1>3. PICK T \in B : \A U \in B : U \subseteq T => U = T
  BY <1>2, <1>1, SmallestSubset
<1> USE DEF B
<1>4. ASSUME NEW U \in SUBSET T, U # T PROVE IsSum(Sum(U), f, U)
  BY <1>3, <1>4
<1> DEFINE g == [s \in SUBSET T |->
                   IF s = {} THEN 0
                   ELSE f[Pick(s)] + Sum(s \ {Pick(s)})[s \ {Pick(s)}]]
<1>5. ASSUME NEW s \in SUBSET T, s # T PROVE g[s] = Sum(s)[s]
  <2>1. IsSum(Sum(s), f, s)
    BY <1>4, <1>5
  <2>2. CASE s = {}
    BY <2>1, <2>2, SumUnfolds
  <2>3. CASE s # {}
    <3> DEFINE u == s \ {Pick(s)}
    <3>1. IsFiniteSet(u) /\ u \in SUBSET s /\ u # T /\ u \in SUBSET T
      BY FS_Subset, PickIn, <1>5
    <3>2. IsSum([v \in SUBSET u |-> Sum(s)[v]], f, u)
      BY <2>1, <3>1, SumRestricts
    <3>3. IsSum(Sum(u), f, u)
      BY <1>4, <3>1
    <3>4. Sum(u) = [v \in SUBSET u |-> Sum(s)[v]]
      BY <3>1, <3>2, <3>3, SumIsUnique
    <3>5. Sum(s)[s] = f[Pick(s)] + Sum(s)[u]
      BY <2>1, <2>3, SumUnfolds
    <3>6. Sum(u)[u] = Sum(s)[u]
      BY <3>4
    <3> QED BY <2>3, <3>5, <3>6
  <2> QED BY <2>2, <2>3
<1>6. ASSUME NEW s \in SUBSET T, s # {} PROVE g[s] = f[Pick(s)] + g[s \ {Pick(s)}]
  <2>1. s \ {Pick(s)} \in SUBSET T /\ s \ {Pick(s)} # T
    BY PickIn, <1>6
  <2>2. g[s \ {Pick(s)}] = Sum(s \ {Pick(s)})[s \ {Pick(s)}]
    BY <1>5, <2>1
  <2> QED BY <2>2, <1>6
<1>7. g[{}] = 0 /\ DOMAIN g = SUBSET T /\ g = [s \in DOMAIN g |-> g[s]]
  OBVIOUS
<1> HIDE DEF g
<1>8. \A s \in SUBSET T : g[s] = IF s = {} THEN 0 ELSE f[Pick(s)] + g[s \ {Pick(s)}]
  BY <1>6, <1>7
<1>9. IsSum(g, f, T)
  BY <1>7, <1>8 DEF IsSum
<1> QED BY <1>3, <1>9

-----------------------------------------------------------------------------
LEMMA SumStep ==
  ASSUME NEW f, NEW S, IsFiniteSet(S)
  PROVE  /\ SumFunctionOnSet(f, {}) = 0
         /\ S # {} => SumFunctionOnSet(f, S) = f[Pick(S)] + SumFunctionOnSet(f, S \ {Pick(S)})
<1> DEFINE Sum(T) == CHOOSE g : IsSum(g, f, T)
<1>1. ASSUME NEW T, IsFiniteSet(T)
      PROVE  IsSum(Sum(T), f, T) /\ SumFunctionOnSet(f, T) = Sum(T)[T]
  BY <1>1, SumExists, SumIsChoice
<1> HIDE DEF Sum
<1>2. SumFunctionOnSet(f, {}) = 0
  <2>1. IsFiniteSet({})
    BY FS_EmptySet
  <2> QED BY <2>1, <1>1, SumUnfolds
<1>3. ASSUME S # {}
      PROVE  SumFunctionOnSet(f, S) = f[Pick(S)] + SumFunctionOnSet(f, S \ {Pick(S)})
  <2> DEFINE U == S \ {Pick(S)}
  <2>1. IsFiniteSet(U) /\ U \in SUBSET S
    BY FS_Subset
  <2>2. IsSum([s \in SUBSET U |-> Sum(S)[s]], f, U)
    BY <1>1, <2>1, SumRestricts
  <2>3. IsSum(Sum(U), f, U)
    BY <1>1, <2>1
  <2>4. Sum(U) = [s \in SUBSET U |-> Sum(S)[s]]
    BY <2>1, <2>2, <2>3, SumIsUnique
  <2>5. Sum(U)[U] = Sum(S)[U]
    BY <2>4
  <2>6. Sum(S)[S] = f[Pick(S)] + Sum(S)[U]
    BY <1>1, <1>3, SumUnfolds
  <2> QED BY <1>1, <2>1, <2>5, <2>6
<1> QED BY <1>2, <1>3

LEMMA SumEmpty == ASSUME NEW f PROVE SumFunctionOnSet(f, {}) = 0
<1>1. IsFiniteSet({})
  BY FS_EmptySet
<1> QED BY <1>1, SumStep

(* What is summed over S is a natural number. *)
Naturally(f, S) == \A x \in S : f[x] \in Nat

LEMMA SumType ==
  ASSUME NEW f, NEW S, IsFiniteSet(S), Naturally(f, S)
  PROVE  SumFunctionOnSet(f, S) \in Nat
<1> DEFINE B == {T \in SUBSET S : SumFunctionOnSet(f, T) \notin Nat}
<1>0. B \in SUBSET SUBSET S
  OBVIOUS
<1>1. SUFFICES ASSUME B # {} PROVE FALSE
  OBVIOUS
<1> HIDE DEF B
<1>2. PICK T \in B : \A U \in B : U \subseteq T => U = T
  BY <1>0, <1>1, SmallestSubset
<1> USE DEF B
<1>3. IsFiniteSet(T) /\ T \subseteq S
  BY FS_Subset
<1>4. CASE T = {}
  BY <1>4, SumEmpty
<1>5. CASE T # {}
  <2>1. Pick(T) \in T
    BY <1>5, PickIn
  <2>2. SumFunctionOnSet(f, T \ {Pick(T)}) \in Nat
    BY <1>2, <1>3, <2>1
  <2>3. f[Pick(T)] \in Nat
    BY <1>3, <2>1 DEF Naturally
  <2>4. SumFunctionOnSet(f, T) = f[Pick(T)] + SumFunctionOnSet(f, T \ {Pick(T)})
    BY <1>3, <1>5, SumStep
  <2> QED BY <2>2, <2>3, <2>4
<1> QED BY <1>4, <1>5

(* A sum may begin with any of its elements. *)
LEMMA SumRemove ==
  ASSUME NEW f, NEW S, IsFiniteSet(S), Naturally(f, S), NEW x \in S
  PROVE  SumFunctionOnSet(f, S) = f[x] + SumFunctionOnSet(f, S \ {x})
<1> DEFINE Good(T) == \A y \in T : SumFunctionOnSet(f, T) = f[y] + SumFunctionOnSet(f, T \ {y})
           B == {T \in SUBSET S : ~Good(T)}
<1>0. B \in SUBSET SUBSET S
  OBVIOUS
<1>1. SUFFICES ASSUME B # {} PROVE FALSE
  OBVIOUS
<1> HIDE DEF B
<1>2. PICK T \in B : \A U \in B : U \subseteq T => U = T
  BY <1>0, <1>1, SmallestSubset
<1> USE DEF B
<1>3. PICK y \in T : SumFunctionOnSet(f, T) # f[y] + SumFunctionOnSet(f, T \ {y})
  OBVIOUS
<1> DEFINE p == Pick(T)
<1>4. IsFiniteSet(T) /\ T \subseteq S /\ p \in T
  BY <1>3, FS_Subset, PickIn
<1>5. SumFunctionOnSet(f, T) = f[p] + SumFunctionOnSet(f, T \ {p})
  BY <1>3, <1>4, SumStep
<1>6. p # y
  BY <1>3, <1>5
<1> HIDE DEF p
<1>7. Good(T \ {p}) /\ Good(T \ {y})
  BY <1>2, <1>4
<1>8. SumFunctionOnSet(f, T \ {p}) = f[y] + SumFunctionOnSet(f, (T \ {p}) \ {y})
  BY <1>6, <1>7
<1>9. SumFunctionOnSet(f, T \ {y}) = f[p] + SumFunctionOnSet(f, (T \ {y}) \ {p})
  BY <1>4, <1>6, <1>7
<1>10. (T \ {y}) \ {p} = (T \ {p}) \ {y}
  OBVIOUS
<1> DEFINE U == (T \ {p}) \ {y}
<1>11. IsFiniteSet(U) /\ Naturally(f, U)
  BY <1>4, FS_Subset DEF Naturally
<1>12. f[p] \in Nat /\ f[y] \in Nat /\ SumFunctionOnSet(f, U) \in Nat
  BY <1>4, <1>11, SumType DEF Naturally
<1> QED BY <1>3, <1>5, <1>8, <1>9, <1>10, <1>12

(* Functions that agree on the index set have the same sum over it, and the *)
(* sum grows with them.                                                     *)
LEMMA SumMonotone ==
  ASSUME NEW f, NEW g, NEW S, IsFiniteSet(S), Naturally(f, S), Naturally(g, S),
         \A x \in S : f[x] <= g[x]
  PROVE  SumFunctionOnSet(f, S) <= SumFunctionOnSet(g, S)
<1> DEFINE B == {T \in SUBSET S : ~(SumFunctionOnSet(f, T) <= SumFunctionOnSet(g, T))}
<1>0. B \in SUBSET SUBSET S
  OBVIOUS
<1>1. SUFFICES ASSUME B # {} PROVE FALSE
  OBVIOUS
<1> HIDE DEF B
<1>2. PICK T \in B : \A U \in B : U \subseteq T => U = T
  BY <1>0, <1>1, SmallestSubset
<1> USE DEF B
<1>3. IsFiniteSet(T) /\ T \subseteq S
  BY FS_Subset
<1>4. CASE T = {}
  BY <1>4, SumEmpty
<1>5. CASE T # {}
  <2> DEFINE p == Pick(T)
             U == T \ {p}
  <2>1. p \in T
    BY <1>5, PickIn
  <2>2. /\ SumFunctionOnSet(f, T) = f[p] + SumFunctionOnSet(f, U)
        /\ SumFunctionOnSet(g, T) = g[p] + SumFunctionOnSet(g, U)
    BY <1>3, <1>5, SumStep
  <2>3. IsFiniteSet(U) /\ Naturally(f, U) /\ Naturally(g, U)
    BY <1>3, FS_Subset DEF Naturally
  <2>4. SumFunctionOnSet(f, U) \in Nat /\ SumFunctionOnSet(g, U) \in Nat
    BY <2>3, SumType
  <2>5. SumFunctionOnSet(f, U) <= SumFunctionOnSet(g, U)
    BY <1>2, <1>3, <2>1
  <2>6. f[p] \in Nat /\ g[p] \in Nat /\ f[p] <= g[p]
    BY <1>3, <2>1 DEF Naturally
  <2> HIDE DEF p, U
  <2> QED BY <2>2, <2>4, <2>5, <2>6
<1> QED BY <1>4, <1>5

LEMMA SumStrict ==
  ASSUME NEW f, NEW g, NEW S, IsFiniteSet(S), S # {}, Naturally(f, S), Naturally(g, S),
         \A x \in S : f[x] < g[x]
  PROVE  SumFunctionOnSet(f, S) < SumFunctionOnSet(g, S)
<1>1. PICK x \in S : TRUE
  OBVIOUS
<1> DEFINE U == S \ {x}
<1>2. IsFiniteSet(U) /\ Naturally(f, U) /\ Naturally(g, U)
  BY FS_Subset DEF Naturally
<1>3. \A y \in S : f[y] <= g[y]
  BY DEF Naturally
<1>4. SumFunctionOnSet(f, U) <= SumFunctionOnSet(g, U)
  BY <1>2, <1>3, SumMonotone
<1>5. SumFunctionOnSet(f, U) \in Nat /\ SumFunctionOnSet(g, U) \in Nat
  BY <1>2, SumType
<1>6. f[x] \in Nat /\ g[x] \in Nat /\ f[x] < g[x]
  BY DEF Naturally
<1>7. /\ SumFunctionOnSet(f, S) = f[x] + SumFunctionOnSet(f, U)
      /\ SumFunctionOnSet(g, S) = g[x] + SumFunctionOnSet(g, U)
  BY SumRemove
<1> HIDE DEF U
<1> QED BY <1>4, <1>5, <1>6, <1>7

LEMMA SumScale ==
  ASSUME NEW f, NEW g, NEW S, IsFiniteSet(S), Naturally(f, S), NEW k \in Nat,
         \A x \in S : g[x] = k * f[x]
  PROVE  SumFunctionOnSet(g, S) = k * SumFunctionOnSet(f, S)
<1> DEFINE B == {T \in SUBSET S : SumFunctionOnSet(g, T) # k * SumFunctionOnSet(f, T)}
<1>0. B \in SUBSET SUBSET S
  OBVIOUS
<1>1. SUFFICES ASSUME B # {} PROVE FALSE
  OBVIOUS
<1> HIDE DEF B
<1>2. PICK T \in B : \A U \in B : U \subseteq T => U = T
  BY <1>0, <1>1, SmallestSubset
<1> USE DEF B
<1>3. IsFiniteSet(T) /\ T \subseteq S
  BY FS_Subset
<1>4. CASE T = {}
  BY <1>4, SumEmpty
<1>5. CASE T # {}
  <2> DEFINE p == Pick(T)
             U == T \ {p}
  <2>1. p \in T
    BY <1>5, PickIn
  <2>2. /\ SumFunctionOnSet(f, T) = f[p] + SumFunctionOnSet(f, U)
        /\ SumFunctionOnSet(g, T) = g[p] + SumFunctionOnSet(g, U)
    BY <1>3, <1>5, SumStep
  <2>3. IsFiniteSet(U) /\ Naturally(f, U)
    BY <1>3, FS_Subset DEF Naturally
  <2>4. SumFunctionOnSet(f, U) \in Nat /\ f[p] \in Nat
    BY <1>3, <2>1, <2>3, SumType DEF Naturally
  <2>5. SumFunctionOnSet(g, U) = k * SumFunctionOnSet(f, U)
    BY <1>2, <1>3, <2>1
  <2>6. g[p] = k * f[p]
    BY <1>3, <2>1
  <2>7. SumFunctionOnSet(g, T) # k * SumFunctionOnSet(f, T)
    OBVIOUS
  <2> HIDE DEF p, U
  <2>8. ASSUME NEW a \in Nat, NEW b \in Nat PROVE k * (a + b) = k * a + k * b
    OBVIOUS
  <2> QED BY <2>2, <2>4, <2>5, <2>6, <2>7, <2>8
<1> QED BY <1>4, <1>5

LEMMA SumCongruence ==
  ASSUME NEW f, NEW g, NEW S, IsFiniteSet(S), Naturally(f, S), \A x \in S : f[x] = g[x]
  PROVE  SumFunctionOnSet(f, S) = SumFunctionOnSet(g, S)
<1>1. Naturally(g, S) /\ \A x \in S : f[x] <= g[x] /\ g[x] <= f[x]
  BY DEF Naturally
<1>2. /\ SumFunctionOnSet(f, S) <= SumFunctionOnSet(g, S)
      /\ SumFunctionOnSet(g, S) <= SumFunctionOnSet(f, S)
  BY <1>1, SumMonotone
<1>3. SumFunctionOnSet(f, S) \in Nat /\ SumFunctionOnSet(g, S) \in Nat
  BY <1>1, SumType
<1> QED BY <1>2, <1>3

-----------------------------------------------------------------------------
(* The sum of a function of naturals, and what an update does to it. *)
LEMMA SumFunctionType ==
  ASSUME NEW S, IsFiniteSet(S), NEW v \in [S -> Nat]
  PROVE  SumFunction(v) \in Nat
<1>1. Naturally(v, S) /\ DOMAIN v = S
  BY DEF Naturally
<1> QED BY <1>1, SumType DEF SumFunction

(* Changing one value changes the sum by as much. *)
LEMMA SumMoves ==
  ASSUME NEW f, NEW g, NEW S, IsFiniteSet(S), Naturally(f, S), Naturally(g, S),
         NEW x \in S, \A y \in S \ {x} : g[y] = f[y]
  PROVE  SumFunctionOnSet(g, S) + f[x] = SumFunctionOnSet(f, S) + g[x]
<1> DEFINE U == S \ {x}
<1>1. IsFiniteSet(U) /\ Naturally(f, U)
  BY FS_Subset DEF Naturally
<1>2. SumFunctionOnSet(f, S) = f[x] + SumFunctionOnSet(f, U)
  BY SumRemove
<1>3. SumFunctionOnSet(g, S) = g[x] + SumFunctionOnSet(g, U)
  BY SumRemove
<1>4. SumFunctionOnSet(f, U) = SumFunctionOnSet(g, U)
  BY <1>1, SumCongruence
<1>5. SumFunctionOnSet(f, U) \in Nat /\ f[x] \in Nat /\ g[x] \in Nat
  BY <1>1, SumType DEF Naturally
<1> QED BY <1>2, <1>3, <1>4, <1>5

LEMMA SumUpdate ==
  ASSUME NEW S, IsFiniteSet(S), NEW v \in [S -> Nat], NEW w \in [S -> Nat], NEW x \in S,
         \A y \in S \ {x} : w[y] = v[y]
  PROVE  SumFunction(w) + v[x] = SumFunction(v) + w[x]
<1>1. Naturally(v, S) /\ Naturally(w, S) /\ DOMAIN v = S /\ DOMAIN w = S
  BY DEF Naturally
<1>2. SumFunctionOnSet(w, S) + v[x] = SumFunctionOnSet(v, S) + w[x]
  BY <1>1, SumMoves
<1> QED BY <1>1, <1>2 DEF SumFunction

LEMMA SumOfOne ==
  ASSUME NEW f, NEW x, f[x] \in Nat
  PROVE  SumFunctionOnSet(f, {x}) = f[x]
<1>1. IsFiniteSet({x}) /\ Naturally(f, {x}) /\ {x} \ {x} = {}
  BY FS_Singleton DEF Naturally
<1>2. SumFunctionOnSet(f, {x}) = f[x] + SumFunctionOnSet(f, {})
  BY <1>1, SumRemove
<1> QED BY <1>2, SumEmpty

LEMMA SumOfTwo ==
  ASSUME NEW f, NEW x, NEW y, x # y, f[x] \in Nat, f[y] \in Nat
  PROVE  SumFunctionOnSet(f, {x, y}) = f[x] + f[y]
<1>1. IsFiniteSet({x, y})
  <2>1. IsFiniteSet({x}) /\ {x, y} = {x} \cup {y}
    BY FS_Singleton
  <2> QED BY <2>1, FS_AddElement
<1>2. Naturally(f, {x, y}) /\ {x, y} \ {x} = {y}
  BY DEF Naturally
<1>3. SumFunctionOnSet(f, {x, y}) = f[x] + SumFunctionOnSet(f, {y})
  BY <1>1, <1>2, SumRemove
<1> QED BY <1>3, SumOfOne

LEMMA SumOfZeroes ==
  ASSUME NEW S, IsFiniteSet(S), NEW v, DOMAIN v = S, \A x \in S : v[x] = 0
  PROVE  SumFunction(v) = 0
<1> DEFINE B == {T \in SUBSET S : SumFunctionOnSet(v, T) # 0}
<1>0. B \in SUBSET SUBSET S
  OBVIOUS
<1>1. SUFFICES ASSUME B # {} PROVE FALSE
  BY DEF SumFunction
<1> HIDE DEF B
<1>2. PICK T \in B : \A U \in B : U \subseteq T => U = T
  BY <1>0, <1>1, SmallestSubset
<1> USE DEF B
<1>3. IsFiniteSet(T) /\ T \subseteq S
  BY FS_Subset
<1>4. T # {}
  BY SumEmpty
<1>5. Pick(T) \in T
  BY <1>4, PickIn
<1>6. SumFunctionOnSet(v, T) = v[Pick(T)] + SumFunctionOnSet(v, T \ {Pick(T)})
  BY <1>3, <1>4, SumStep
<1>7. SumFunctionOnSet(v, T \ {Pick(T)}) = 0 /\ v[Pick(T)] = 0
  BY <1>2, <1>3, <1>5
<1> QED BY <1>6, <1>7

(* The cells of K are disjoint parts of a finite set. *)
Disjoint(cell, K) == \A i, j \in K : i # j => cell[i] \cap cell[j] = {}

(* Counting a set is adding up the counts of the cells it is divided into. *)
LEMMA SumOfCells ==
  ASSUME NEW K, IsFiniteSet(K), NEW F, IsFiniteSet(F), NEW cell \in [K -> SUBSET F],
         Disjoint(cell, K)
  PROVE  SumFunction([k \in K |-> Cardinality(cell[k])]) = Cardinality(UNION {cell[k] : k \in K})
<1> DEFINE n == [k \in K |-> Cardinality(cell[k])]
           All(T) == UNION {cell[k] : k \in T}
           B == {T \in SUBSET K : SumFunctionOnSet(n, T) # Cardinality(All(T))}
<1>0. B \in SUBSET SUBSET K
  OBVIOUS
<1>1. SUFFICES ASSUME B # {} PROVE FALSE
  BY DEF SumFunction
<1> HIDE DEF B
<1>2. PICK T \in B : \A U \in B : U \subseteq T => U = T
  BY <1>0, <1>1, SmallestSubset
<1> USE DEF B
<1>3. IsFiniteSet(T) /\ T \subseteq K
  BY FS_Subset
<1>4. T # {}
  <2>1. All({}) = {}
    OBVIOUS
  <2> QED BY <2>1, SumEmpty, FS_EmptySet
<1> DEFINE p == Pick(T)
           U == T \ {p}
<1>5. p \in T
  BY <1>4, PickIn
<1>6. SumFunctionOnSet(n, T) = n[p] + SumFunctionOnSet(n, U)
  BY <1>3, <1>4, SumStep
<1>7. SumFunctionOnSet(n, U) = Cardinality(All(U))
  BY <1>2, <1>3, <1>5
<1> HIDE DEF p
<1>8. cell[p] \subseteq F /\ All(U) \subseteq F
  BY <1>3, <1>5
<1>9. IsFiniteSet(cell[p]) /\ IsFiniteSet(All(U))
  BY <1>8, FS_Subset
<1>10. cell[p] \cap All(U) = {}
  BY <1>3, <1>5 DEF Disjoint
<1>11. All(T) = cell[p] \cup All(U)
  BY <1>5
<1> HIDE DEF All
<1>12. Cardinality(All(T)) = Cardinality(cell[p]) + Cardinality(All(U))
  <2>1. Cardinality(cell[p] \cup All(U))
          = Cardinality(cell[p]) + Cardinality(All(U)) - Cardinality(cell[p] \cap All(U))
    BY <1>9, FS_Union
  <2>2. Cardinality(cell[p] \cap All(U)) = 0
    BY <1>10, FS_EmptySet
  <2>3. Cardinality(cell[p]) \in Nat /\ Cardinality(All(U)) \in Nat
    BY <1>9, FS_CardinalityType
  <2> QED BY <1>11, <2>1, <2>2, <2>3
<1>13. n[p] = Cardinality(cell[p])
  BY <1>3, <1>5
<1> QED BY <1>6, <1>7, <1>12, <1>13

(* ... and of any set whose members are all in one cell each. *)
LEMMA SumOfPartition ==
  ASSUME NEW K, IsFiniteSet(K), NEW F, IsFiniteSet(F), NEW cell \in [K -> SUBSET F],
         Disjoint(cell, K), \A x \in F : \E k \in K : x \in cell[k]
  PROVE  SumFunction([k \in K |-> Cardinality(cell[k])]) = Cardinality(F)
<1>1. UNION {cell[k] : k \in K} = F
  OBVIOUS
<1> QED BY <1>1, SumOfCells

(* Sets that differ in one element at most. *)
LEMMA CountMoves ==
  ASSUME NEW S, IsFiniteSet(S), NEW A \in SUBSET S, NEW B \in SUBSET S, NEW x,
         \A y \in S \ {x} : y \in A <=> y \in B
  PROVE  /\ Cardinality(A) \in Nat /\ Cardinality(B) \in Nat
         /\ (x \in A <=> x \in B) => Cardinality(B) = Cardinality(A)
         /\ x \notin A /\ x \in B => Cardinality(B) = Cardinality(A) + 1
         /\ x \in A /\ x \notin B => Cardinality(A) = Cardinality(B) + 1
<1>1. IsFiniteSet(A) /\ IsFiniteSet(B)
  BY FS_Subset
<1>2. Cardinality(A) \in Nat /\ Cardinality(B) \in Nat
  BY <1>1, FS_CardinalityType
<1>3. ASSUME x \in A <=> x \in B PROVE A = B
  BY <1>3
<1>4. ASSUME x \notin A, x \in B PROVE Cardinality(B) = Cardinality(A) + 1
  <2>1. B = A \cup {x}
    BY <1>4
  <2> QED BY <1>1, <1>4, <2>1, FS_AddElement
<1>5. ASSUME x \in A, x \notin B PROVE Cardinality(A) = Cardinality(B) + 1
  <2>1. A = B \cup {x}
    BY <1>5
  <2> QED BY <1>1, <1>5, <2>1, FS_AddElement
<1> QED BY <1>2, <1>3, <1>4, <1>5
=============================================================================
