------------------------------ MODULE FiniteSums ------------------------------
(***************************************************************************)
(* Sums of the values of a function over a finite set, as SumFunction of   *)
(* the community modules computes them: an arbitrary element is added and  *)
(* removed until none is left.  The sum does not depend on the order, so   *)
(* it changes by what one value changes, and by what is added to the set.  *)
(***************************************************************************)
EXTENDS Functions, FiniteSetTheorems, JackpotArithProofs

Pick(s) == CHOOSE x \in s : TRUE

SumStep(f, g, s) == IF s = {} THEN 0 ELSE f[Pick(s)] + g[s \ {Pick(s)}]

PartialSums(f, S) == CHOOSE g : g = [s \in SUBSET S |-> SumStep(f, g, s)]

LEMMA SumIsPartial ==
    ASSUME NEW f, NEW S
    PROVE  SumFunctionOnSet(f, S) = PartialSums(f, S)[S]
BY DEF SumFunctionOnSet, FoldFunctionOnSet, MapThenFoldSet, PartialSums, SumStep, Pick

LEMMA PickRemoved ==
    ASSUME NEW s, IsFiniteSet(s), s # {}
    PROVE  /\ Pick(s) \in s
           /\ IsFiniteSet(s \ {Pick(s)})
           /\ Cardinality(s) \in Nat /\ Cardinality(s) > 0
           /\ Cardinality(s \ {Pick(s)}) = Cardinality(s) - 1
<1>1. Pick(s) \in s
  BY DEF Pick
<1>2. Cardinality(s) \in Nat /\ Cardinality(s) # 0
  BY FS_CardinalityType, FS_EmptySet
<1> QED BY <1>1, <1>2, FS_RemoveElement

(***************************************************************************)
(* The recursive definition defines a function.                            *)
(***************************************************************************)
LEMMA PartialSumsStep ==
    ASSUME NEW f, NEW S, IsFiniteSet(S)
    PROVE  \A s \in SUBSET S : PartialSums(f, S)[s] = SumStep(f, PartialSums(f, S), s)
<1> DEFINE Small(n) == {s \in SUBSET S : Cardinality(s) <= n}
           IsSum(g, n) == g = [s \in Small(n) |-> SumStep(f, g, s)]
           N == {n \in Nat : \E g : IsSum(g, n)}
<1>1. \A s \in SUBSET S : IsFiniteSet(s) /\ Cardinality(s) \in Nat
  BY FS_Subset, FS_CardinalityType
<1>2. 0 \in N
  <2>1. \A s \in Small(0) : s = {}
    BY <1>1, FS_EmptySet
  <2> DEFINE g == [s \in Small(0) |-> 0]
  <2>2. \A s \in Small(0) : SumStep(f, g, s) = 0
    BY <2>1 DEF SumStep
  <2>3. IsSum(g, 0)
    BY <2>2
  <2> QED BY <2>3
<1>3. ASSUME NEW n \in Nat, n \in N
      PROVE  n + 1 \in N
  <2>1. PICK g : IsSum(g, n)
    BY <1>3
  <2> DEFINE h == [s \in Small(n + 1) |-> SumStep(f, g, s)]
  <2>2. ASSUME NEW s \in Small(n + 1), s # {}
        PROVE  h[s \ {Pick(s)}] = g[s \ {Pick(s)}]
    <3> DEFINE t == s \ {Pick(s)}
    <3>1. t \in Small(n) /\ t \in Small(n + 1)
      BY <1>1, <2>2, PickRemoved
    <3> HIDE DEF t
    <3> QED BY <2>1, <3>1 DEF t
  <2>3. \A s \in Small(n + 1) : SumStep(f, g, s) = SumStep(f, h, s)
    <3> HIDE DEF h
    <3> QED BY <2>2 DEF SumStep
  <2>4. IsSum(h, n + 1)
    BY <2>3
  <2>5. \E e : IsSum(e, n + 1)
    <3> HIDE DEF h, IsSum
    <3> QED BY <2>4
  <2> QED BY <2>5
<1>4. Cardinality(S) \in Nat /\ Small(Cardinality(S)) = SUBSET S
  BY FS_Subset, FS_CardinalityType
<1>5. \E g : g = [s \in SUBSET S |-> SumStep(f, g, s)]
  <2> HIDE DEF N
  <2>1. \A n \in Nat : n \in N
    BY <1>2, <1>3, SetInduction
  <2>2. PICK g : IsSum(g, Cardinality(S))
    BY <1>4, <2>1 DEF N
  <2> QED BY <1>4, <2>2
<1> DEFINE F == PartialSums(f, S)
<1>6. F = [s \in SUBSET S |-> SumStep(f, F, s)]
  BY <1>5 DEF PartialSums
<1> HIDE DEF F
<1>7. \A s \in SUBSET S : F[s] = SumStep(f, F, s)
  BY <1>6
<1> QED BY <1>7 DEF F

(***************************************************************************)
(* What is summed up over s, a part of a larger finite set, depends only   *)
(* on the values at the elements of s.                                     *)
(***************************************************************************)
LEMMA PartialSumsAgree ==
    ASSUME NEW f, NEW S, IsFiniteSet(S), NEW g, NEW T, IsFiniteSet(T),
           NEW s \in SUBSET S, s \in SUBSET T, \A x \in s : f[x] = g[x]
    PROVE  PartialSums(f, S)[s] = PartialSums(g, T)[s]
<1> DEFINE F == PartialSums(f, S)
           G == PartialSums(g, T)
           N == {n \in Nat : \A t \in SUBSET s : Cardinality(t) = n => F[t] = G[t]}
<1>1. /\ \A t \in SUBSET s : F[t] = SumStep(f, F, t)
      /\ \A t \in SUBSET s : G[t] = SumStep(g, G, t)
  <2>1. \A t \in SUBSET s : t \in SUBSET S /\ t \in SUBSET T
    OBVIOUS
  <2> QED BY <2>1, PartialSumsStep
<1> HIDE DEF F, G
<1>2. IsFiniteSet(s)
  BY FS_Subset
<1>3. \A t \in SUBSET s : IsFiniteSet(t) /\ Cardinality(t) \in Nat
  BY <1>2, FS_Subset, FS_CardinalityType
<1>4. 0 \in N
  BY <1>1, <1>3, FS_EmptySet DEF SumStep
<1>5. ASSUME NEW n \in Nat, n \in N
      PROVE  n + 1 \in N
  <2> SUFFICES ASSUME NEW t \in SUBSET s, Cardinality(t) = n + 1 PROVE F[t] = G[t]
    OBVIOUS
  <2>1. t # {}
    BY FS_EmptySet
  <2>2. Pick(t) \in t /\ Cardinality(t \ {Pick(t)}) = n
    BY <1>3, <2>1, PickRemoved
  <2>3. F[t \ {Pick(t)}] = G[t \ {Pick(t)}]
    BY <1>5, <2>2
  <2>4. f[Pick(t)] = g[Pick(t)]
    BY <2>2
  <2> QED BY <1>1, <2>1, <2>3, <2>4 DEF SumStep
<1>6. \A n \in Nat : n \in N
  <2> HIDE DEF N
  <2> QED BY <1>4, <1>5, SetInduction
<1> QED BY <1>3, <1>6 DEF F, G

(***************************************************************************)
(* Sums of integers are integers, and any element can be taken out first.  *)
(***************************************************************************)
LEMMA PartialSumsIn ==
    ASSUME NEW f, NEW S, IsFiniteSet(S), NEW V,
           0 \in V, \A x, y \in V : x + y \in V, \A x \in S : f[x] \in V
    PROVE  \A s \in SUBSET S : PartialSums(f, S)[s] \in V
<1> DEFINE F == PartialSums(f, S)
           N == {n \in Nat : \A t \in SUBSET S : Cardinality(t) = n => F[t] \in V}
<1>1. \A t \in SUBSET S : F[t] = SumStep(f, F, t)
  BY PartialSumsStep
<1> HIDE DEF F
<1>3. \A t \in SUBSET S : IsFiniteSet(t) /\ Cardinality(t) \in Nat
  BY FS_Subset, FS_CardinalityType
<1>4. 0 \in N
  BY <1>1, <1>3, FS_EmptySet DEF SumStep
<1>5. ASSUME NEW n \in Nat, n \in N
      PROVE  n + 1 \in N
  <2> SUFFICES ASSUME NEW t \in SUBSET S, Cardinality(t) = n + 1 PROVE F[t] \in V
    OBVIOUS
  <2>1. t # {}
    BY FS_EmptySet
  <2>2. Pick(t) \in t /\ Cardinality(t \ {Pick(t)}) = n
    BY <1>3, <2>1, PickRemoved
  <2>3. F[t \ {Pick(t)}] \in V
    BY <1>5, <2>2
  <2>4. f[Pick(t)] \in V
    BY <2>2
  <2> QED BY <1>1, <2>1, <2>3, <2>4 DEF SumStep
<1>6. \A n \in Nat : n \in N
  <2> HIDE DEF N
  <2> QED BY <1>4, <1>5, SetInduction
<1> QED BY <1>3, <1>6 DEF F

LEMMA PartialSumsInt ==
    ASSUME NEW f, NEW S, IsFiniteSet(S), \A x \in S : f[x] \in Int
    PROVE  \A s \in SUBSET S : PartialSums(f, S)[s] \in Int
BY PartialSumsIn, \A x, y \in Int : x + y \in Int

LEMMA PartialSumsRemove ==
    ASSUME NEW f, NEW S, IsFiniteSet(S), \A x \in S : f[x] \in Int,
           NEW s \in SUBSET S, NEW a \in s
    PROVE  PartialSums(f, S)[s] = f[a] + PartialSums(f, S)[s \ {a}]
<1> DEFINE F == PartialSums(f, S)
           Removes(t) == \A x \in t : F[t] = f[x] + F[t \ {x}]
           N == {n \in Nat : \A t \in SUBSET S : Cardinality(t) = n => Removes(t)}
<1>1. \A t \in SUBSET S : F[t] = SumStep(f, F, t) /\ F[t] \in Int
  BY PartialSumsStep, PartialSumsInt
<1> HIDE DEF F
<1>3. \A t \in SUBSET S : IsFiniteSet(t) /\ Cardinality(t) \in Nat
  BY FS_Subset, FS_CardinalityType
<1>4. 0 \in N
  BY <1>3, FS_EmptySet
<1>5. ASSUME NEW n \in Nat, n \in N
      PROVE  n + 1 \in N
  <2> SUFFICES ASSUME NEW t \in SUBSET S, Cardinality(t) = n + 1, NEW x \in t
               PROVE  F[t] = f[x] + F[t \ {x}]
    OBVIOUS
  <2> DEFINE p == Pick(t)
  <2>1. t # {}
    OBVIOUS
  <2>2. p \in t /\ Cardinality(t \ {p}) = n
    BY <1>3, <2>1, PickRemoved
  <2>3. F[t] = f[p] + F[t \ {p}]
    BY <1>1, <2>1 DEF SumStep
  <2> HIDE DEF p
  <2>4. Cardinality(t \ {x}) = n
    BY <1>3, FS_RemoveElement
  <2>5. CASE p = x
    BY <2>3, <2>5
  <2>6. CASE p # x
    <3>1. F[t \ {p}] = f[x] + F[(t \ {p}) \ {x}]
      <4>1. t \ {p} \in SUBSET S /\ x \in t \ {p}
        BY <2>6
      <4> QED BY <1>5, <2>2, <4>1
    <3>2. F[t \ {x}] = f[p] + F[(t \ {x}) \ {p}]
      <4>1. t \ {x} \in SUBSET S /\ p \in t \ {x}
        BY <2>2, <2>6
      <4> QED BY <1>5, <2>4, <4>1
    <3>3. (t \ {p}) \ {x} = (t \ {x}) \ {p}
      OBVIOUS
    <3>4. F[(t \ {p}) \ {x}] \in Int /\ f[x] \in Int /\ f[p] \in Int
      BY <1>1, <2>2
    <3> DEFINE rest == F[(t \ {p}) \ {x}]
    <3>5. F[t \ {p}] = f[x] + rest /\ F[t \ {x}] = f[p] + rest
      BY <3>1, <3>2, <3>3
    <3> HIDE DEF rest
    <3>6. f[p] + (f[x] + rest) = f[x] + (f[p] + rest)
      BY <3>4 DEF rest
    <3> QED BY <2>3, <3>5, <3>6
  <2> QED BY <2>5, <2>6
<1>6. \A n \in Nat : n \in N
  <2> HIDE DEF N
  <2> QED BY <1>4, <1>5, SetInduction
<1> QED BY <1>3, <1>6 DEF F

-----------------------------------------------------------------------------
(***************************************************************************)
(* The same for sums of whole functions.                                   *)
(***************************************************************************)
LEMMA SumFunctionEmpty ==
    ASSUME NEW f, DOMAIN f = {}
    PROVE  SumFunction(f) = 0
<1>1. PartialSums(f, {})[{}] = SumStep(f, PartialSums(f, {}), {})
  BY PartialSumsStep, FS_EmptySet, Zenon
<1> QED BY <1>1, SumIsPartial DEF SumFunction, SumStep

LEMMA SumFunctionInt ==
    ASSUME NEW S, IsFiniteSet(S), NEW f \in [S -> Int]
    PROVE  SumFunction(f) \in Int
BY SumIsPartial, PartialSumsInt DEF SumFunction

LEMMA SumFunctionSplit ==
    ASSUME NEW S, IsFiniteSet(S), NEW f \in [S -> Int], NEW a \in S
    PROVE  SumFunction(f) = f[a] + SumFunction(Restrict(f, S \ {a}))
<1> DEFINE T == S \ {a}
           g == Restrict(f, T)
<1>1. SumFunction(f) = PartialSums(f, S)[S]
  BY SumIsPartial DEF SumFunction
<1>2. SumFunction(g) = PartialSums(g, T)[T]
  <2>1. DOMAIN g = T
    BY DEF Restrict
  <2> HIDE DEF g, T
  <2> QED BY <2>1, SumIsPartial DEF SumFunction
<1>3. IsFiniteSet(T)
  BY FS_RemoveElement
<1>4. PartialSums(f, S)[T] = PartialSums(g, T)[T]
  <2>1. T \in SUBSET S /\ T \in SUBSET T /\ \A x \in T : f[x] = g[x]
    BY DEF Restrict
  <2> HIDE DEF g, T
  <2> QED BY <1>3, <2>1, PartialSumsAgree
<1>5. PartialSums(f, S)[S] = f[a] + PartialSums(f, S)[T]
  BY PartialSumsRemove
<1> QED BY <1>1, <1>2, <1>4, <1>5

LEMMA SumFunctionChange ==
    ASSUME NEW S, IsFiniteSet(S), NEW f \in [S -> Int], NEW g \in [S -> Int], NEW a \in S,
           \A x \in S : x # a => g[x] = f[x]
    PROVE  SumFunction(g) = SumFunction(f) + (g[a] - f[a])
<1> DEFINE h == Restrict(f, S \ {a})
<1>1. SumFunction(f) = f[a] + SumFunction(h)
  BY SumFunctionSplit
<1>2. SumFunction(g) = g[a] + SumFunction(h)
  <2>1. Restrict(g, S \ {a}) = h
    BY DEF Restrict
  <2>2. SumFunction(g) = g[a] + SumFunction(Restrict(g, S \ {a}))
    BY SumFunctionSplit
  <2> QED BY <2>1, <2>2
<1>3. SumFunction(h) \in Int
  <2>1. IsFiniteSet(S \ {a}) /\ h \in [S \ {a} -> Int]
    BY FS_RemoveElement DEF Restrict
  <2> HIDE DEF h
  <2> QED BY <2>1, SumFunctionInt
<1> HIDE DEF h
<1>4. f[a] \in Int /\ g[a] \in Int
  OBVIOUS
<1> QED BY <1>1, <1>2, <1>3, <1>4

LEMMA SumFunctionExtend ==
    ASSUME NEW S, IsFiniteSet(S), NEW f \in [S -> Int], NEW a, a \notin S,
           NEW T, T = S \cup {a}, NEW g \in [T -> Int], \A x \in S : g[x] = f[x]
    PROVE  SumFunction(g) = SumFunction(f) + g[a]
<1>1. IsFiniteSet(S \cup {a})
  BY FS_AddElement
<1>2. SumFunction(g) = g[a] + SumFunction(Restrict(g, (S \cup {a}) \ {a}))
  BY <1>1, SumFunctionSplit
<1>3. Restrict(g, (S \cup {a}) \ {a}) = f
  <2>1. (S \cup {a}) \ {a} = S
    OBVIOUS
  <2>2. [x \in S |-> g[x]] = f
    OBVIOUS
  <2> QED BY <2>1, <2>2 DEF Restrict
<1>4. SumFunction(f) \in Int /\ g[a] \in Int
  BY SumFunctionInt
<1> QED BY <1>2, <1>3, <1>4

LEMMA SumFunctionZero ==
    ASSUME NEW S, IsFiniteSet(S), NEW f \in [S -> Int], \A x \in S : f[x] = 0
    PROVE  SumFunction(f) = 0
<1>1. (\A x \in S : f[x] \in {0}) /\ 0 \in {0} /\ (\A x, y \in {0} : x + y \in {0})
  OBVIOUS
<1>2. PartialSums(f, S)[S] \in {0}
  BY <1>1, PartialSumsIn
<1> QED BY <1>2, SumIsPartial DEF SumFunction

LEMMA SumFunctionNat ==
    ASSUME NEW S, IsFiniteSet(S), NEW f \in [S -> Nat]
    PROVE  SumFunction(f) \in Nat
<1>1. (\A x \in S : f[x] \in Nat) /\ (\A x, y \in Nat : x + y \in Nat)
  OBVIOUS
<1>2. PartialSums(f, S)[S] \in Nat
  BY <1>1, PartialSumsIn
<1> QED BY <1>2, SumIsPartial DEF SumFunction

=============================================================================
