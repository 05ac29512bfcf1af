---------------------------- MODULE CapacityProofs ----------------------------
(***************************************************************************)
(* Theorems about capacity, for any number of nodes, resources, pods and   *)
(* replicas: how sums behave, that no node is filled beyond what it        *)
(* offers, and that the capacity report tells the truth.                   *)
(*                                                                         *)
(* A sum is a fold, a recursive definition.  What is proved of it here is  *)
(* proved by induction on finite sets, stated with the set of the sets     *)
(* that have a property so that no operator is a parameter.                *)
(***************************************************************************)
EXTENDS CommandProofs

-----------------------------------------------------------------------------
(* Sums.                                                                   *)

\* Induction on finite sets, for a property given as the set of the sets that have it.
LEMMA FiniteInduction ==
  ASSUME NEW S, IsFiniteSet(S), NEW Good,
         \A T \in SUBSET S : (\A x \in T : T \ {x} \in Good) => T \in Good
  PROVE  S \in Good
<1> SUFFICES ASSUME S \notin Good PROVE FALSE
  OBVIOUS
<1> DEFINE Bad == {T \in SUBSET S : T \notin Good}
<1>1. IsWellFoundedOn(StrictSubsetOrdering(S), SUBSET S)
  <2>1. FiniteSubsetsOf(S) = SUBSET S
    BY FS_FiniteSubsetsOfFinite
  <2>2. IsWellFoundedOn(StrictSubsetOrdering(S), FiniteSubsetsOf(S))
    BY FS_StrictSubsetOrderingWellFounded, Zenon
  <2> QED
    BY <2>1, <2>2, Zenon
<1>2. Bad \subseteq SUBSET S /\ Bad # {}
  OBVIOUS
<1> HIDE DEF Bad
<1>3. PICK T \in Bad : \A U \in Bad : ~ (<<U, T>> \in StrictSubsetOrdering(S))
  BY <1>1, <1>2, WFMin
<1>4. \A x \in T : T \ {x} \in Good
  <2> SUFFICES ASSUME NEW x \in T, T \ {x} \notin Good PROVE FALSE
    OBVIOUS
  <2>1. T \in SUBSET S /\ T \ {x} \in SUBSET S
    BY DEF Bad
  <2>2. T \ {x} \in Bad
    BY <2>1 DEF Bad
  <2>3. T \ {x} \subseteq T /\ T \ {x} # T
    OBVIOUS
  <2>4. <<T \ {x}, T>> \in (SUBSET S) \X (SUBSET S)
    BY <2>1
  <2>5. <<T \ {x}, T>> \in StrictSubsetOrdering(S)
    BY <2>3, <2>4 DEF StrictSubsetOrdering
  <2> QED
    BY <1>3, <2>2, <2>5
<1> QED
  BY <1>3, <1>4 DEF Bad

\* The element a fold takes next.
Pick(s) == CHOOSE x \in s : TRUE

\* g adds up f over every subset of S, one element after the other.
IsSum(g, f, S) ==
  g = [s \in SUBSET S |-> IF s = {} THEN 0 ELSE f[Pick(s)] + g[s \ {Pick(s)}]]

\* What the folds of the library define is such a g.
LEMMA SumDef ==
  ASSUME NEW f, NEW S
  PROVE  SumFunctionOnSet(f, S) = (CHOOSE g : IsSum(g, f, S))[S]
BY DEF SumFunctionOnSet, FoldFunctionOnSet, MapThenFoldSet, IsSum, Pick

LEMMA SumAt ==
  ASSUME NEW f, NEW S, NEW g, IsSum(g, f, S), NEW s \in SUBSET S
  PROVE  g[s] = IF s = {} THEN 0 ELSE f[Pick(s)] + g[s \ {Pick(s)}]
<1> DEFINE h == [u \in SUBSET S |-> IF u = {} THEN 0 ELSE f[Pick(u)] + g[u \ {Pick(u)}]]
<1>1. g = h
  BY DEF IsSum
<1>2. h[s] = IF s = {} THEN 0 ELSE f[Pick(s)] + g[s \ {Pick(s)}]
  OBVIOUS
<1> QED
  BY <1>1, <1>2

LEMMA Picked == ASSUME NEW s, s # {} PROVE Pick(s) \in s
BY DEF Pick

\* Two of them agree wherever both are defined.
LEMMA SumUnique ==
  ASSUME NEW f, NEW S, NEW T, NEW g, IsSum(g, f, S), NEW h, IsSum(h, f, T),
         NEW U, IsFiniteSet(U), U \subseteq S, U \subseteq T
  PROVE  g[U] = h[U]
<1> DEFINE Good == {V \in SUBSET U : g[V] = h[V]}
<1>a. \A s \in SUBSET S : g[s] = IF s = {} THEN 0 ELSE f[Pick(s)] + g[s \ {Pick(s)}]
  BY SumAt
<1>b. \A s \in SUBSET T : h[s] = IF s = {} THEN 0 ELSE f[Pick(s)] + h[s \ {Pick(s)}]
  BY SumAt
<1>1. ASSUME NEW V \in SUBSET U, \A x \in V : V \ {x} \in Good
      PROVE  V \in Good
  <2>1. V \in SUBSET S /\ V \in SUBSET T
    OBVIOUS
  <2>2. CASE V = {}
    BY <1>a, <1>b, <2>1, <2>2
  <2>3. CASE V # {}
    <3>1. g[V \ {Pick(V)}] = h[V \ {Pick(V)}]
      BY <1>1, <2>3, Picked
    <3>2. g[V] = f[Pick(V)] + g[V \ {Pick(V)}]
      BY <1>a, <2>1, <2>3
    <3>3. h[V] = f[Pick(V)] + h[V \ {Pick(V)}]
      BY <1>b, <2>1, <2>3
    <3> QED
      BY <3>1, <3>2, <3>3
  <2> QED
    BY <2>2, <2>3
<1> HIDE DEF Good
<1>2. U \in Good
  BY <1>1, FiniteInduction
<1> QED
  BY <1>2 DEF Good

\* One on S is one on every subset of S.
LEMMA SumRestricted ==
  ASSUME NEW f, NEW S, NEW g, IsSum(g, f, S), NEW T \in SUBSET S
  PROVE  \E h : IsSum(h, f, T)
<1> DEFINE h == [s \in SUBSET T |-> g[s]]
<1>1. \A s \in SUBSET T : h[s] = IF s = {} THEN 0 ELSE f[Pick(s)] + h[s \ {Pick(s)}]
  <2> TAKE s \in SUBSET T
  <2>1. s \in SUBSET S /\ s \ {Pick(s)} \in SUBSET T
    OBVIOUS
  <2>2. h[s] = g[s] /\ h[s \ {Pick(s)}] = g[s \ {Pick(s)}]
    BY <2>1
  <2> QED
    BY <2>1, <2>2, SumAt
<1>2. h = [s \in SUBSET T |-> IF s = {} THEN 0 ELSE f[Pick(s)] + h[s \ {Pick(s)}]]
  BY <1>1
<1> QED
  BY <1>2 DEF IsSum

\* There is one on every finite set.
LEMMA SumExists ==
  ASSUME NEW f, NEW S, IsFiniteSet(S)
  PROVE  \E g : IsSum(g, f, S)
<1> DEFINE Good == {T \in SUBSET S : \E g : IsSum(g, f, T)}
<1>1. ASSUME NEW T \in SUBSET S, \A x \in T : T \ {x} \in Good
      PROVE  T \in Good
  <2> DEFINE Of(U) == CHOOSE g : IsSum(g, f, U)
             h == [s \in SUBSET T |->
                     IF s = {} THEN 0 ELSE f[Pick(s)] + Of(s \ {Pick(s)})[s \ {Pick(s)}]]
  <2>1. ASSUME NEW U \in SUBSET T, U # T PROVE IsSum(Of(U), f, U)
    <3>1. PICK x \in T : x \notin U
      BY <2>1
    <3>2. PICK g : IsSum(g, f, T \ {x})
      BY <1>1, <3>1
    <3>3. U \in SUBSET (T \ {x})
      BY <3>1
    <3>4. \E k : IsSum(k, f, U)
      BY <3>2, <3>3, SumRestricted
    <3> QED
      BY <3>4
  <2>2. ASSUME NEW U \in SUBSET T, U # T PROVE h[U] = Of(U)[U]
    <3>1. CASE U = {}
      <4>1. Of(U)[U] = 0
        BY <2>1, <2>2, <3>1, SumAt
      <4> QED
        BY <3>1, <4>1
    <3>2. CASE U # {}
      <4> DEFINE V == U \ {Pick(U)}
      <4>1. V \in SUBSET T /\ V # T /\ V \in SUBSET U /\ IsFiniteSet(V)
        BY <2>2, FS_Subset
      <4>2. IsSum(Of(V), f, V) /\ IsSum(Of(U), f, U)
        BY <2>1, <2>2, <4>1
      <4>3. Of(U)[U] = f[Pick(U)] + Of(U)[V]
        BY <3>2, <4>2, SumAt
      <4>4. Of(U)[V] = Of(V)[V]
        BY <4>1, <4>2, SumUnique
      <4>5. h[U] = f[Pick(U)] + Of(V)[V]
        BY <3>2
      <4> QED
        BY <4>3, <4>4, <4>5
    <3> QED
      BY <3>1, <3>2
  <2>3. \A s \in SUBSET T : h[s] = IF s = {} THEN 0 ELSE f[Pick(s)] + h[s \ {Pick(s)}]
    <3> TAKE s \in SUBSET T
    <3>1. CASE s = {}
      BY <3>1
    <3>2. CASE s # {}
      <4>1. s \ {Pick(s)} \in SUBSET T /\ s \ {Pick(s)} # T
        BY <3>2, Picked
      <4>2. h[s \ {Pick(s)}] = Of(s \ {Pick(s)})[s \ {Pick(s)}]
        BY <2>2, <4>1
      <4>3. h[s] = f[Pick(s)] + Of(s \ {Pick(s)})[s \ {Pick(s)}]
        BY <3>2
      <4> QED
        BY <3>2, <4>2, <4>3
    <3> QED
      BY <3>1, <3>2
  <2> HIDE DEF h
  <2>4. h = [s \in SUBSET T |-> IF s = {} THEN 0 ELSE f[Pick(s)] + h[s \ {Pick(s)}]]
    <3>1. h = [s \in SUBSET T |-> h[s]]
      BY DEF h
    <3> QED
      BY <2>3, <3>1
  <2> QED
    BY <2>4 DEF IsSum
<1> HIDE DEF Good
<1>2. S \in Good
  BY <1>1, FiniteInduction
<1> QED
  BY <1>2 DEF Good
-----------------------------------------------------------------------------
LEMMA SumEmpty ==
  ASSUME NEW f
  PROVE  SumFunctionOnSet(f, {}) = 0
<1>1. IsSum(CHOOSE g : IsSum(g, f, {}), f, {})
  BY SumExists, FS_EmptySet
<1> QED
  BY <1>1, SumAt, SumDef

LEMMA SumPicked ==
  ASSUME NEW f, NEW S, IsFiniteSet(S), S # {}
  PROVE  SumFunctionOnSet(f, S) = f[Pick(S)] + SumFunctionOnSet(f, S \ {Pick(S)})
<1> DEFINE Of(U) == CHOOSE g : IsSum(g, f, U)
           V == S \ {Pick(S)}
<1>1. IsFiniteSet(V) /\ V \in SUBSET S
  BY FS_Subset
<1>2. IsSum(Of(S), f, S) /\ IsSum(Of(V), f, V)
  BY <1>1, SumExists
<1>3. Of(S)[S] = f[Pick(S)] + Of(S)[V]
  BY <1>2, SumAt
<1>4. Of(S)[V] = Of(V)[V]
  BY <1>1, <1>2, SumUnique
<1> QED
  BY <1>3, <1>4, SumDef

\* Sums of naturals are naturals.
LEMMA SumNat ==
  ASSUME NEW f, NEW S, IsFiniteSet(S), \A x \in S : f[x] \in Nat
  PROVE  SumFunctionOnSet(f, S) \in Nat
<1> DEFINE Good == {T \in SUBSET S : SumFunctionOnSet(f, T) \in Nat}
<1>1. ASSUME NEW T \in SUBSET S, \A x \in T : T \ {x} \in Good
      PROVE  T \in Good
  <2>1. CASE T = {}
    BY <2>1, SumEmpty
  <2>2. CASE T # {}
    <3>1. SumFunctionOnSet(f, T) = f[Pick(T)] + SumFunctionOnSet(f, T \ {Pick(T)})
      BY <2>2, SumPicked, FS_Subset
    <3>2. Pick(T) \in S /\ SumFunctionOnSet(f, T \ {Pick(T)}) \in Nat
      BY <1>1, <2>2, Picked
    <3> QED
      BY <3>1, <3>2
  <2> QED
    BY <2>1, <2>2
<1> HIDE DEF Good
<1>2. S \in Good
  BY <1>1, FiniteInduction
<1> QED
  BY <1>2 DEF Good

\* Any element may be taken out first.
LEMMA SumTake ==
  ASSUME NEW f, NEW S, IsFiniteSet(S), \A x \in S : f[x] \in Nat, NEW x \in S
  PROVE  SumFunctionOnSet(f, S) = f[x] + SumFunctionOnSet(f, S \ {x})
<1> DEFINE Sum(T) == SumFunctionOnSet(f, T)
           Good == {T \in SUBSET S : \A y \in T : Sum(T) = f[y] + Sum(T \ {y})}
<1>a. \A T \in SUBSET S : IsFiniteSet(T) /\ Sum(T) \in Nat
  BY SumNat, FS_Subset
<1>b. \A T \in SUBSET S : T # {} => Sum(T) = f[Pick(T)] + Sum(T \ {Pick(T)})
  BY <1>a, SumPicked
<1> HIDE DEF Sum
<1>1. ASSUME NEW T \in SUBSET S, \A y \in T : T \ {y} \in Good
      PROVE  T \in Good
  <2> SUFFICES ASSUME NEW y \in T PROVE Sum(T) = f[y] + Sum(T \ {y})
    OBVIOUS
  <2> DEFINE p == Pick(T)
  <2>1. p \in T /\ Sum(T) = f[p] + Sum(T \ {p})
    BY <1>b, Picked
  <2> HIDE DEF p
  <2>2. CASE p = y
    BY <2>1, <2>2
  <2>3. CASE p # y
    <3>1. T \ {p} \in Good /\ T \ {y} \in Good
      BY <1>1, <2>1
    <3>2. y \in T \ {p} /\ p \in T \ {y}
      BY <2>1, <2>3
    <3>3. Sum(T \ {p}) = f[y] + Sum((T \ {p}) \ {y})
      BY <3>1, <3>2
    <3>4. Sum(T \ {y}) = f[p] + Sum((T \ {y}) \ {p})
      BY <3>1, <3>2
    <3>5. (T \ {p}) \ {y} = (T \ {y}) \ {p}
      OBVIOUS
    <3>6. Sum((T \ {y}) \ {p}) \in Nat /\ f[y] \in Nat /\ f[p] \in Nat
      BY <1>a, <2>1
    <3> QED
      BY <2>1, <3>3, <3>4, <3>5, <3>6
  <2> QED
    BY <2>2, <2>3
<1> HIDE DEF Good
<1>2. S \in Good
  BY <1>1, FiniteInduction
<1>3. Sum(S) = f[x] + Sum(S \ {x})
  BY <1>2 DEF Good
<1> QED
  BY <1>3 DEF Sum

LEMMA SumEqual ==
  ASSUME NEW f, NEW g, NEW S, IsFiniteSet(S), \A x \in S : f[x] = g[x]
  PROVE  SumFunctionOnSet(f, S) = SumFunctionOnSet(g, S)
<1> DEFINE Good == {T \in SUBSET S : SumFunctionOnSet(f, T) = SumFunctionOnSet(g, T)}
<1>1. ASSUME NEW T \in SUBSET S, \A x \in T : T \ {x} \in Good
      PROVE  T \in Good
  <2>1. CASE T = {}
    BY <2>1, SumEmpty
  <2>2. CASE T # {}
    <3>1. IsFiniteSet(T) /\ Pick(T) \in T
      BY <2>2, FS_Subset, Picked
    <3>2. SumFunctionOnSet(f, T) = f[Pick(T)] + SumFunctionOnSet(f, T \ {Pick(T)})
      BY <2>2, <3>1, SumPicked
    <3>3. SumFunctionOnSet(g, T) = g[Pick(T)] + SumFunctionOnSet(g, T \ {Pick(T)})
      BY <2>2, <3>1, SumPicked
    <3>4. T \ {Pick(T)} \in Good
      BY <1>1, <3>1
    <3> QED
      BY <3>1, <3>2, <3>3, <3>4
  <2> QED
    BY <2>1, <2>2
<1> HIDE DEF Good
<1>2. S \in Good
  BY <1>1, FiniteInduction
<1> QED
  BY <1>2 DEF Good

\* A sum over two sets that have nothing in common.
LEMMA SumSplit ==
  ASSUME NEW f, NEW S, NEW T, IsFiniteSet(S), IsFiniteSet(T), S \cap T = {},
         \A x \in S \cup T : f[x] \in Nat
  PROVE  SumFunctionOnSet(f, S \cup T) = SumFunctionOnSet(f, S) + SumFunctionOnSet(f, T)
<1> DEFINE Sum(U) == SumFunctionOnSet(f, U)
           Good == {U \in SUBSET T : Sum(S \cup U) = Sum(S) + Sum(U)}
<1>a. \A U \in SUBSET T : IsFiniteSet(U) /\ IsFiniteSet(S \cup U) /\ Sum(U) \in Nat
  <2> TAKE U \in SUBSET T
  <2>1. IsFiniteSet(U)
    BY FS_Subset
  <2>2. IsFiniteSet(S \cup U)
    BY <2>1, FS_Union
  <2>3. Sum(U) \in Nat
    BY <2>1, SumNat
  <2> QED
    BY <2>1, <2>2, <2>3
<1>b. Sum(S) \in Nat /\ Sum({}) = 0
  BY SumNat, SumEmpty
<1>c. \A U \in SUBSET T : \A x \in U : Sum(U) = f[x] + Sum(U \ {x})
  BY <1>a, SumTake
<1>d. \A U \in SUBSET T : \A x \in U : Sum(S \cup U) = f[x] + Sum((S \cup U) \ {x})
  BY <1>a, SumTake
<1> HIDE DEF Sum
<1>1. ASSUME NEW U \in SUBSET T, \A x \in U : U \ {x} \in Good
      PROVE  U \in Good
  <2>1. CASE U = {}
    <3>1. S \cup U = S
      BY <2>1
    <3> QED
      BY <1>b, <2>1, <3>1
  <2>2. CASE U # {}
    <3>1. PICK x \in U : TRUE
      BY <2>2
    <3>2. (S \cup U) \ {x} = S \cup (U \ {x})
      BY <3>1
    <3>3. Sum(S \cup (U \ {x})) = Sum(S) + Sum(U \ {x})
      BY <1>1, <3>1
    <3>4. Sum(U \ {x}) \in Nat /\ f[x] \in Nat
      BY <1>a, <3>1
    <3>5. Sum(U) = f[x] + Sum(U \ {x})
      BY <1>c, <3>1
    <3>6. Sum(S \cup U) = f[x] + Sum(S \cup (U \ {x}))
      BY <1>d, <3>1, <3>2
    <3>7. Sum(S \cup U) = Sum(S) + Sum(U)
      BY <1>b, <3>3, <3>4, <3>5, <3>6
    <3> QED
      BY <3>7
  <2> QED
    BY <2>1, <2>2
<1> HIDE DEF Good
<1>2. T \in Good
  BY <1>1, FiniteInduction
<1>3. Sum(S \cup T) = Sum(S) + Sum(T)
  BY <1>2 DEF Good
<1> QED
  BY <1>3 DEF Sum

LEMMA SumSubset ==
  ASSUME NEW f, NEW S, IsFiniteSet(S), NEW T \in SUBSET S, \A x \in S : f[x] \in Nat
  PROVE  SumFunctionOnSet(f, T) <= SumFunctionOnSet(f, S)
<1>1. IsFiniteSet(T) /\ IsFiniteSet(S \ T) /\ T \cap (S \ T) = {} /\ S = T \cup (S \ T)
  BY FS_Subset
<1>2. SumFunctionOnSet(f, T) \in Nat /\ SumFunctionOnSet(f, S \ T) \in Nat
  BY <1>1, SumNat
<1>3. SumFunctionOnSet(f, S) = SumFunctionOnSet(f, T) + SumFunctionOnSet(f, S \ T)
  BY <1>1, SumSplit
<1> QED
  BY <1>2, <1>3

LEMMA SumMonotone ==
  ASSUME NEW f, NEW g, NEW S, IsFiniteSet(S),
         \A x \in S : f[x] \in Nat /\ g[x] \in Nat /\ f[x] <= g[x]
  PROVE  SumFunctionOnSet(f, S) <= SumFunctionOnSet(g, S)
<1> DEFINE Good == {T \in SUBSET S : SumFunctionOnSet(f, T) <= SumFunctionOnSet(g, T)}
<1>1. ASSUME NEW T \in SUBSET S, \A x \in T : T \ {x} \in Good
      PROVE  T \in Good
  <2>1. CASE T = {}
    BY <2>1, SumEmpty
  <2>2. CASE T # {}
    <3>1. PICK x \in T : TRUE
      BY <2>2
    <3>2. IsFiniteSet(T) /\ IsFiniteSet(T \ {x})
      BY FS_Subset
    <3>3. SumFunctionOnSet(f, T) = f[x] + SumFunctionOnSet(f, T \ {x})
      BY <3>1, <3>2, SumTake
    <3>4. SumFunctionOnSet(g, T) = g[x] + SumFunctionOnSet(g, T \ {x})
      BY <3>1, <3>2, SumTake
    <3>5. SumFunctionOnSet(f, T \ {x}) \in Nat /\ SumFunctionOnSet(g, T \ {x}) \in Nat
      BY <3>2, SumNat
    <3>6. T \ {x} \in Good
      BY <1>1, <3>1
    <3> QED
      BY <3>1, <3>3, <3>4, <3>5, <3>6
  <2> QED
    BY <2>1, <2>2
<1> HIDE DEF Good
<1>2. S \in Good
  BY <1>1, FiniteInduction
<1> QED
  BY <1>2 DEF Good

\* A sum of equal terms.
LEMMA SumConstant ==
  ASSUME NEW f, NEW S, IsFiniteSet(S), NEW c \in Nat, \A x \in S : f[x] = c
  PROVE  SumFunctionOnSet(f, S) = Cardinality(S) * c
<1> DEFINE Good == {T \in SUBSET S : SumFunctionOnSet(f, T) = Cardinality(T) * c}
<1>1. ASSUME NEW T \in SUBSET S, \A x \in T : T \ {x} \in Good
      PROVE  T \in Good
  <2>1. CASE T = {}
    BY <2>1, SumEmpty, FS_EmptySet
  <2>2. CASE T # {}
    <3>1. PICK x \in T : TRUE
      BY <2>2
    <3>2. IsFiniteSet(T)
      BY FS_Subset
    <3>3. SumFunctionOnSet(f, T) = c + SumFunctionOnSet(f, T \ {x})
      BY <3>1, <3>2, SumTake
    <3>4. Cardinality(T \ {x}) = Cardinality(T) - 1 /\ Cardinality(T) \in Nat
      BY <3>1, <3>2, FS_RemoveElement, FS_CardinalityType
    <3>5. SumFunctionOnSet(f, T \ {x}) = Cardinality(T \ {x}) * c
      BY <1>1, <3>1
    <3>6. c + (Cardinality(T) - 1) * c = Cardinality(T) * c
      BY <3>4
    <3> QED
      BY <3>3, <3>4, <3>5, <3>6
  <2> QED
    BY <2>1, <2>2
<1> HIDE DEF Good
<1>2. S \in Good
  BY <1>1, FiniteInduction
<1> QED
  BY <1>2 DEF Good
-----------------------------------------------------------------------------
(* What pods use.                                                          *)

Demands(r) == [p \in Pod |-> Demand(p.spec, r)]
At(pods, n) == {p \in pods : p.node = n}

LEMMA DemandNat ==
  ASSUME NEW p \in Pod, NEW r
  PROVE  Demand(p.spec, r) \in Nat /\ Demands(r)[p] = Demand(p.spec, r)
<1>1. p.spec \in Template
  BY DEF Pod
<1> QED
  BY <1>1, TemplateAssumption DEF Demand, Demands

LEMMA UsedIsSum ==
  ASSUME NEW pods \in SUBSET Pod, IsFiniteSet(pods), NEW r
  PROVE  UsedBy(pods, r) = SumFunctionOnSet(Demands(r), pods)
<1> DEFINE own == [p \in pods |-> Demand(p.spec, r)]
<1>1. UsedBy(pods, r) = SumFunctionOnSet(own, pods)
  BY DEF UsedBy, SumFunction
<1>2. \A p \in pods : own[p] = Demands(r)[p]
  BY DemandNat
<1> HIDE DEF own
<1> QED
  BY <1>1, <1>2, SumEqual

LEMMA UsedNat ==
  ASSUME NEW pods \in SUBSET Pod, IsFiniteSet(pods), NEW r
  PROVE  UsedBy(pods, r) \in Nat
<1>1. \A p \in pods : Demands(r)[p] \in Nat
  BY DemandNat
<1> QED
  BY <1>1, UsedIsSum, SumNat

LEMMA UsedSplit ==
  ASSUME NEW few \in SUBSET Pod, IsFiniteSet(few), NEW more \in SUBSET Pod, IsFiniteSet(more),
         few \cap more = {}, NEW r
  PROVE  UsedBy(few \cup more, r) = UsedBy(few, r) + UsedBy(more, r)
<1>1. \A p \in few \cup more : Demands(r)[p] \in Nat
  BY DemandNat
<1>2. IsFiniteSet(few \cup more) /\ few \cup more \in SUBSET Pod
  BY FS_Union
<1>3. SumFunctionOnSet(Demands(r), few \cup more)
        = SumFunctionOnSet(Demands(r), few) + SumFunctionOnSet(Demands(r), more)
  BY <1>1, SumSplit
<1> QED
  BY <1>2, <1>3, UsedIsSum

\* Fewer pods use no more.
LEMMA UsedSubset ==
  ASSUME NEW pods \in SUBSET Pod, IsFiniteSet(pods), NEW few \in SUBSET pods, NEW r
  PROVE  UsedBy(few, r) <= UsedBy(pods, r)
<1>1. IsFiniteSet(few) /\ few \in SUBSET Pod
  BY FS_Subset
<1>2. \A p \in pods : Demands(r)[p] \in Nat
  BY DemandNat
<1>3. SumFunctionOnSet(Demands(r), few) <= SumFunctionOnSet(Demands(r), pods)
  BY <1>2, SumSubset
<1> QED
  BY <1>1, <1>3, UsedIsSum

\* One pod more uses at most what it asks for more; exactly that, if it is new.
LEMMA UsedAdd ==
  ASSUME NEW pods \in SUBSET Pod, IsFiniteSet(pods), NEW p \in Pod, NEW r
  PROVE  /\ UsedBy(pods \cup {p}, r) <= UsedBy(pods, r) + Demand(p.spec, r)
         /\ p \notin pods => UsedBy(pods \cup {p}, r) = UsedBy(pods, r) + Demand(p.spec, r)
<1>1. UsedBy(pods, r) \in Nat /\ Demand(p.spec, r) \in Nat
  BY UsedNat, DemandNat
<1>2. CASE p \in pods
  <2>1. pods \cup {p} = pods
    BY <1>2
  <2>2. UsedBy(pods \cup {p}, r) = UsedBy(pods, r)
    BY <2>1
  <2> QED
    BY <1>1, <1>2, <2>2
<1>3. CASE p \notin pods
  <2>1. IsFiniteSet({p}) /\ Cardinality({p}) = 1
    BY FS_Singleton
  <2>2. UsedBy({p}, r) = Demand(p.spec, r)
    <3>1. \A q \in {p} : Demands(r)[q] = Demand(p.spec, r)
      BY DemandNat
    <3>2. SumFunctionOnSet(Demands(r), {p}) = 1 * Demand(p.spec, r)
      BY <1>1, <2>1, <3>1, SumConstant
    <3> QED
      BY <1>1, <2>1, <3>2, UsedIsSum
  <2>3. UsedBy(pods \cup {p}, r) = UsedBy(pods, r) + UsedBy({p}, r)
    BY <1>3, <2>1, UsedSplit
  <2> QED
    BY <1>1, <2>2, <2>3
<1> QED
  BY <1>2, <1>3

LEMMA AtFinite ==
  ASSUME NEW pods \in SUBSET Pod, IsFiniteSet(pods), NEW n
  PROVE  At(pods, n) \in SUBSET Pod /\ IsFiniteSet(At(pods, n))
BY FS_Subset DEF At

\* What pods use is what they use node by node.
LEMMA UsedNodeByNode ==
  ASSUME NEW pods \in SUBSET Pod, IsFiniteSet(pods), \A p \in pods : p.node \in Node, NEW r
  PROVE  UsedBy(pods, r) = SumFunctionOnSet([n \in Node |-> UsedBy(At(pods, n), r)], Node)
<1> DEFINE f == [n \in Node |-> UsedBy(At(pods, n), r)]
           On(nodes) == {p \in pods : p.node \in nodes}
           Good == {nodes \in SUBSET Node : UsedBy(On(nodes), r) = SumFunctionOnSet(f, nodes)}
<1>a. IsFiniteSet(Node)
  BY NodesAssumption, FS_Interval DEF Node
<1>b. \A nodes : On(nodes) \in SUBSET Pod /\ IsFiniteSet(On(nodes))
  BY FS_Subset
<1>c. \A n \in Node : f[n] = UsedBy(At(pods, n), r) /\ f[n] \in Nat
  BY AtFinite, UsedNat
<1>1. ASSUME NEW nodes \in SUBSET Node, \A n \in nodes : nodes \ {n} \in Good
      PROVE  nodes \in Good
  <2>1. CASE nodes = {}
    <3>1. On(nodes) = {} /\ IsFiniteSet({}) /\ {} \in SUBSET Pod
      BY <2>1, FS_EmptySet
    <3>2. UsedBy({}, r) = 0
      BY <3>1, UsedIsSum, SumEmpty
    <3> QED
      BY <2>1, <3>1, <3>2, SumEmpty
  <2>2. CASE nodes # {}
    <3>1. PICK n \in nodes : TRUE
      BY <2>2
    <3>2. On(nodes) = On(nodes \ {n}) \cup At(pods, n) /\ On(nodes \ {n}) \cap At(pods, n) = {}
      BY <3>1 DEF At
    <3>3. UsedBy(On(nodes), r) = UsedBy(On(nodes \ {n}), r) + UsedBy(At(pods, n), r)
      <4> DEFINE here == At(pods, n)  others == On(nodes \ {n})
      <4>1. others \in SUBSET Pod /\ IsFiniteSet(others) /\ here \in SUBSET Pod /\ IsFiniteSet(here)
        BY <1>b, AtFinite
      <4>2. On(nodes) = others \cup here /\ others \cap here = {}
        BY <3>2
      <4> HIDE DEF here, others, On
      <4>3. UsedBy(others \cup here, r) = UsedBy(others, r) + UsedBy(here, r)
        BY <4>1, <4>2, UsedSplit
      <4>4. UsedBy(On(nodes), r) = UsedBy(others, r) + UsedBy(here, r)
        BY <4>2, <4>3
      <4> QED
        BY <4>4 DEF here, others
    <3>4. UsedBy(On(nodes \ {n}), r) = SumFunctionOnSet(f, nodes \ {n})
      BY <1>1, <3>1
    <3>5. IsFiniteSet(nodes) /\ \A m \in nodes : f[m] \in Nat
      BY <1>a, <1>c, FS_Subset
    <3>6. SumFunctionOnSet(f, nodes) = f[n] + SumFunctionOnSet(f, nodes \ {n})
      <4> HIDE DEF f
      <4> QED
        BY <3>1, <3>5, SumTake
    <3>7. f[n] \in Nat /\ UsedBy(On(nodes \ {n}), r) \in Nat /\ f[n] = UsedBy(At(pods, n), r)
      BY <1>b, <1>c, <3>1, UsedNat
    <3>8. UsedBy(On(nodes), r) = SumFunctionOnSet(f, nodes)
      BY <3>3, <3>4, <3>6, <3>7
    <3> QED
      BY <3>8
  <2> QED
    BY <2>1, <2>2
<1> HIDE DEF Good
<1>2. Node \in Good
  BY <1>1, <1>a, FiniteInduction
<1>3. On(Node) = pods
  OBVIOUS
<1> QED
  BY <1>2, <1>3 DEF Good
-----------------------------------------------------------------------------
(* No node is filled beyond what it offers.                                *)

\* Among pods, node n has what spec asks for.
Room(alloc, pods, spec, n) ==
  \A r \in Resource : \/ Demand(spec, r) = 0
                      \/ UsedBy(At(pods, n), r) + Demand(spec, r) <= alloc[n][r]

\* What the filters are relied on for: a pod that fits finds room.
RespectsCapacity ==
  \A c \in Clusters, pvcs \in SUBSET PVC, pods \in SUBSET Pod, pod \in Pod, n \in Node :
    IsFiniteSet(pods) /\ FitsOnNode(View(c, pvcs, pods), pod, n)
      => Room(c.alloc, pods, pod.spec, n)

\* The ledger can be counted, and once the search for victims has some, the node at
\* hand has room without them.
RoomInv ==
  /\ IsFiniteSet(scheduledPods)
  /\ pc = "minimize" => \A n \in todo :
       First(n, todo) => Room(cluster.alloc, scheduledPods \ removed, W.spec, n)

\* A replica lands where there is room for it.
Lands ==
  \E n \in Node, victims \in SUBSET scheduledPods, viaPreemption \in BOOLEAN :
    /\ Commit(Current, n, victims, viaPreemption)
    /\ Attempting \/ pc = "minimize"
    /\ Room(cluster.alloc, scheduledPods \ victims, W.spec, n)

\* What no step changes of the cluster.
SameCapacity == cluster'.pods = cluster.pods /\ cluster'.alloc = cluster.alloc

LEMMA AttemptType ==
  ASSUME TypeOK, Attempting
  PROVE  Current \in Pod
<1>1. wi <= Len(batch) /\ Resolvable(cluster, W) /\ ordinal < W.replicas
  BY DEF TypeOK, Attempting
<1>2. IsCluster(cluster) /\ IsWorkload(W) /\ wi \in Nat
  BY <1>1, CurrentWorkload
<1>3. ordinal \in 0 .. W.replicas
  BY <1>1, <1>2 DEF TypeOK, IsWorkload
<1> QED
  BY <1>1, <1>2, <1>3, ReplicaType DEF Current

LEMMA RoomFound ==
  ASSUME RespectsCapacity, TypeOK, IsFiniteSet(scheduledPods), Current \in Pod,
         NEW c \in Clusters, NEW pvcs \in SUBSET PVC, NEW pods \in SUBSET scheduledPods,
         NEW n \in Node, FitsOnNode(View(c, pvcs, pods), Current, n)
  PROVE  Room(c.alloc, pods, W.spec, n)
<1>1. pods \in SUBSET Pod /\ IsFiniteSet(pods)
  BY FS_Subset DEF TypeOK
<1>2. Current.spec = W.spec
  BY DEF Current, Replica
<1> QED
  BY <1>1, <1>2 DEF RespectsCapacity

\* Every step keeps the ledger or lands a replica.
LEMMA LandingSteps ==
  ASSUME RespectsCapacity, TypeOK, SnapshotInSync, RoomInv, [LiveNext]_vars
  PROVE  /\ SameCapacity
         /\ UNCHANGED <<scheduledPods, simulated>> \/ Lands
<1> USE DEF inputs, outcome, progress, ledger
<1>1. CASE PlaceReplica
  <2>1. PICK n \in Node : First(n, Accepting(Cycle, Current)) /\ Commit(Current, n, {}, FALSE)
    BY <1>1 DEF PlaceReplica
  <2>2. Attempting /\ cluster' = cluster /\ snapshot = scheduledPods
    BY <1>1 DEF PlaceReplica, Attempting, SnapshotInSync
  <2>3. FitsOnNode(View(cluster, Claims, scheduledPods), Current, n)
    BY <2>1, <2>2 DEF First, FitsOnNode, Cycle
  <2>4. Room(cluster.alloc, scheduledPods, W.spec, n)
    <3>1. Claims \in SUBSET PVC /\ Current \in Pod /\ cluster \in Clusters
      BY <2>2, ClaimsType, AttemptType DEF TypeOK
    <3> QED
      BY <2>3, <3>1, RoomFound DEF RoomInv
  <2>5. scheduledPods \ {} = scheduledPods /\ {} \in SUBSET scheduledPods /\ FALSE \in BOOLEAN
    OBVIOUS
  <2> QED
    BY <2>1, <2>2, <2>4, <2>5 DEF Lands, SameCapacity
<1>2. CASE PreemptReplica
  <2>1. PICK n \in todo : First(n, todo) /\ Commit(Current, n, removed, TRUE)
    BY <1>2 DEF PreemptReplica
  <2>2. pc = "minimize" /\ cluster' = cluster /\ n \in Node /\ removed \in SUBSET scheduledPods
    BY <1>2 DEF PreemptReplica, TypeOK
  <2>3. Room(cluster.alloc, scheduledPods \ removed, W.spec, n)
    BY <2>1, <2>2 DEF RoomInv
  <2>4. TRUE \in BOOLEAN
    OBVIOUS
  <2> QED
    BY <2>1, <2>2, <2>3, <2>4 DEF Lands, SameCapacity
<1>3. CASE PlacesAmid
  <2>1. PICK n \in Node : /\ Commit(Current, n, {}, FALSE)
                          /\ \E c \in Clusters, pvcs \in SUBSET PVC :
                               SameLists(c) /\ FitsOnNode(View(c, pvcs, snapshot), Current, n)
    BY <1>3 DEF PlacesAmid
  <2>2. PICK c \in Clusters, pvcs \in SUBSET PVC :
          SameLists(c) /\ FitsOnNode(View(c, pvcs, snapshot), Current, n)
    BY <2>1
  <2>3. Attempting /\ SameCapacity /\ snapshot = scheduledPods
    BY <1>3 DEF PlacesAmid, SameWorld, SameLists, SameCapacity, Attempting, SnapshotInSync
  <2>4. Room(c.alloc, scheduledPods, W.spec, n)
    <3>1. Current \in Pod /\ scheduledPods \in SUBSET scheduledPods
      BY <2>3, AttemptType
    <3> QED
      BY <2>2, <2>3, <3>1, RoomFound DEF RoomInv
  <2>5. Room(cluster.alloc, scheduledPods, W.spec, n)
    BY <2>2, <2>4 DEF SameLists
  <2>6. scheduledPods \ {} = scheduledPods /\ {} \in SUBSET scheduledPods /\ FALSE \in BOOLEAN
    OBVIOUS
  <2> QED
    BY <2>1, <2>3, <2>5, <2>6 DEF Lands
<1>4. CASE Idle \/ StopsAmid
  BY <1>4 DEF Idle, StopsAmid, SameWorld, SameLists, SameCapacity
<1>5. CASE ProbeWorkload \/ RejectWorkload \/ ReportWorkload \/ Finish
  BY <1>5 DEF ProbeWorkload, RejectWorkload, ReportWorkload, Finish, SameCapacity
<1>6. CASE GiveUp \/ StartPreemption \/ RemoveVictim
  BY <1>6 DEF GiveUp, StartPreemption, RemoveVictim, SameCapacity
<1>7. CASE NextNode \/ AbandonPreemption \/ Reprieve
  BY <1>7 DEF NextNode, AbandonPreemption, Reprieve, SameCapacity
<1>8. CASE UNCHANGED vars
  BY <1>8 DEF vars, SameCapacity
<1> QED
  BY <1>1, <1>2, <1>3, <1>4, <1>5, <1>6, <1>7, <1>8, LiveSteps DEF Next

LEMMA RoomNext ==
  ASSUME RespectsCapacity
  PROVE  TypeOK /\ SnapshotInSync /\ RoomInv /\ [LiveNext]_vars => RoomInv'
<1> SUFFICES ASSUME TypeOK, SnapshotInSync, RoomInv, [LiveNext]_vars PROVE RoomInv'
  OBVIOUS
<1> USE DEF inputs, outcome, progress, ledger
<1>1. IsFiniteSet(scheduledPods')
  <2>1. CASE UNCHANGED scheduledPods
    BY <2>1 DEF RoomInv
  <2>2. CASE Lands
    <3>1. PICK n \in Node, victims \in SUBSET scheduledPods :
            scheduledPods' = (scheduledPods \ victims) \cup {[Current EXCEPT !.node = n]}
      BY <2>2 DEF Lands, Commit
    <3>2. IsFiniteSet(scheduledPods \ victims)
      BY FS_Subset DEF RoomInv
    <3> QED
      BY <3>1, <3>2, FS_AddElement
  <2> QED
    BY <2>1, <2>2, LandingSteps
<1>2. CASE pc' # "minimize"
  BY <1>1, <1>2 DEF RoomInv
<1>3. CASE RemoveVictim
  <2>1. PICK n \in todo : /\ First(n, todo)
                          /\ pc' = "minimize" => FitsOnNode(Trial(scheduledPods \ removed'), Current, n)
    BY <1>3 DEF RemoveVictim
  <2>2. Searching /\ UNCHANGED <<cluster, batch, wi, todo, scheduledPods>> /\ W' = W
    BY <1>3 DEF RemoveVictim, Searching, W
  <2>3. ASSUME pc' = "minimize" PROVE Room(cluster.alloc, scheduledPods \ removed', W.spec, n)
    <3>1. /\ Current \in Pod /\ cluster \in Clusters /\ pvcStore \in SUBSET PVC /\ n \in Node
          /\ scheduledPods \ removed' \in SUBSET scheduledPods
      BY <2>2, CurrentType DEF TypeOK
    <3> QED
      BY <2>1, <2>3, <3>1, RoomFound DEF RoomInv, Trial
  <2>4. \A m \in todo : First(m, todo) => m = n
    BY <2>1, FirstUnique DEF TypeOK
  <2> QED
    BY <1>1, <2>2, <2>3, <2>4 DEF RoomInv
<1>4. CASE Reprieve
  <2>1. PICK n \in todo, v \in pending :
          /\ First(n, todo)
          /\ snapshot' = scheduledPods \ (removed \ {v})
          /\ removed' = IF FitsOnNode(Trial(snapshot'), Current, n)
                        THEN removed \ {v} ELSE removed
    BY <1>4 DEF Reprieve
  <2>2. /\ pc = "minimize" /\ Searching /\ W' = W
        /\ UNCHANGED <<cluster, batch, wi, todo, scheduledPods>>
    BY <1>4 DEF Reprieve, Searching, W
  <2>3. Room(cluster.alloc, scheduledPods \ removed', W.spec, n)
    <3>1. CASE removed' = removed
      BY <2>1, <2>2, <3>1 DEF RoomInv
    <3>2. CASE FitsOnNode(Trial(scheduledPods \ removed'), Current, n)
      <4>1. /\ Current \in Pod /\ cluster \in Clusters /\ pvcStore \in SUBSET PVC /\ n \in Node
            /\ scheduledPods \ removed' \in SUBSET scheduledPods
        BY <2>2, CurrentType DEF TypeOK
      <4> QED
        BY <3>2, <4>1, RoomFound DEF RoomInv, Trial
    <3> QED
      BY <2>1, <3>1, <3>2
  <2>4. \A m \in todo : First(m, todo) => m = n
    BY <2>1, FirstUnique DEF TypeOK
  <2> QED
    BY <1>1, <2>2, <2>3, <2>4 DEF RoomInv
<1>5. CASE UNCHANGED <<pc, todo, removed, batch, wi, scheduledPods>> /\ SameCapacity
  BY <1>1, <1>5 DEF RoomInv, SameCapacity, W
<1>6. CASE Idle \/ UNCHANGED vars
  BY <1>5, <1>6, LandingSteps DEF Idle, vars, search
<1>7. CASE PlacesAmid \/ StopsAmid
  BY <1>2, <1>7 DEF PlacesAmid, StopsAmid, Attempting, Commit
<1>8. CASE ProbeWorkload \/ RejectWorkload \/ ReportWorkload \/ Finish
  BY <1>2, <1>8 DEF ProbeWorkload, RejectWorkload, ReportWorkload, Finish
<1>9. CASE PlaceReplica \/ GiveUp \/ StartPreemption \/ PreemptReplica
  BY <1>2, <1>9 DEF PlaceReplica, GiveUp, StartPreemption, PreemptReplica, Commit, Attempting
<1>10. CASE NextNode \/ AbandonPreemption
  BY <1>2, <1>10 DEF NextNode, AbandonPreemption
<1> QED
  BY <1>3, <1>4, <1>6, <1>7, <1>8, <1>9, <1>10, LiveSteps DEF Next

\* The demand that lands on n is room that n had; the other nodes only lose pods.
LEMMA LandedUse ==
  ASSUME TypeOK, RoomInv, NEW n \in Node, NEW victims \in SUBSET scheduledPods,
         NEW placed \in Pod, placed.node = n,
         scheduledPods' = (scheduledPods \ victims) \cup {placed},
         NEW m \in Node, NEW r \in Resource
  PROVE  LET rest == scheduledPods \ victims
         IN  /\ m = n => UsedBy(At(scheduledPods', m), r)
                           <= UsedBy(At(rest, n), r) + Demand(placed.spec, r)
             /\ m # n => At(scheduledPods', m) = At(rest, m)
             /\ UsedBy(At(rest, m), r) <= UsedBy(At(scheduledPods, m), r)
             /\ UsedBy(At(rest, m), r) \in Nat /\ UsedBy(At(scheduledPods, m), r) \in Nat
<1> DEFINE rest == scheduledPods \ victims
<1>1. rest \in SUBSET Pod /\ IsFiniteSet(rest) /\ scheduledPods \in SUBSET Pod
  BY FS_Subset DEF TypeOK, RoomInv
<1>2. /\ At(rest, m) \in SUBSET Pod /\ IsFiniteSet(At(rest, m))
      /\ At(scheduledPods, m) \in SUBSET Pod /\ IsFiniteSet(At(scheduledPods, m))
  BY <1>1, AtFinite DEF RoomInv
<1>3. At(rest, m) \in SUBSET At(scheduledPods, m)
  BY DEF At
<1>4. UsedBy(At(rest, m), r) <= UsedBy(At(scheduledPods, m), r)
  BY <1>2, <1>3, UsedSubset
<1>5. m # n => At(scheduledPods', m) = At(rest, m)
  BY DEF At
<1>6. m = n => At(scheduledPods', m) = At(rest, n) \cup {placed}
  BY DEF At
<1>7. UsedBy(At(rest, m) \cup {placed}, r) <= UsedBy(At(rest, m), r) + Demand(placed.spec, r)
  BY <1>2, UsedAdd
<1> HIDE DEF rest
<1>8. m = n => UsedBy(At(scheduledPods', m), r) <= UsedBy(At(rest, n), r) + Demand(placed.spec, r)
  BY <1>6, <1>7
<1>9. UsedBy(At(rest, m), r) \in Nat /\ UsedBy(At(scheduledPods, m), r) \in Nat
  BY <1>2, UsedNat
<1> QED
  BY <1>4, <1>5, <1>8, <1>9 DEF rest

LEMMA OvercommitNext ==
  ASSUME RespectsCapacity
  PROVE  TypeOK /\ SnapshotInSync /\ RoomInv /\ NoOvercommit /\ [LiveNext]_vars => NoOvercommit'
<1> SUFFICES ASSUME TypeOK, SnapshotInSync, RoomInv, NoOvercommit, [LiveNext]_vars
             PROVE  NoOvercommit'
  OBVIOUS
<1>1. SameCapacity /\ (UNCHANGED <<scheduledPods, simulated>> \/ Lands)
  BY LandingSteps
<1>2. Initial' = Initial /\ cluster'.alloc = cluster.alloc
  BY <1>1 DEF SameCapacity, Initial, ListScheduledPods
<1>3. SUFFICES ASSUME NEW m \in Node, NEW r \in Resource
               PROVE  \/ UsedBy(At(scheduledPods', m), r) <= cluster.alloc[m][r]
                      \/ UsedBy(At(scheduledPods', m), r) <= UsedBy(At(Initial, m), r)
  BY <1>2 DEF NoOvercommit, At
<1>4. \/ UsedBy(At(scheduledPods, m), r) <= cluster.alloc[m][r]
      \/ UsedBy(At(scheduledPods, m), r) <= UsedBy(At(Initial, m), r)
  BY DEF NoOvercommit, At
<1>5. cluster.alloc[m][r] \in Nat /\ UsedBy(At(Initial, m), r) \in Nat
  <2>1. Initial \in SUBSET Pod /\ IsFiniteSet(Initial)
    BY InitialFinite DEF Initial, TypeOK
  <2>2. At(Initial, m) \in SUBSET Pod /\ IsFiniteSet(At(Initial, m))
    BY <2>1, AtFinite
  <2>3. cluster.alloc[m][r] \in Nat
    BY ClustersAssumption DEF TypeOK, IsCluster
  <2> QED
    BY <2>2, <2>3, UsedNat
<1>6. CASE UNCHANGED scheduledPods
  BY <1>4, <1>6
<1>7. CASE Lands
  <2> DEFINE placed(n) == [Current EXCEPT !.node = n]
  <2>1. PICK n \in Node, victims \in SUBSET scheduledPods :
          /\ scheduledPods' = (scheduledPods \ victims) \cup {placed(n)}
          /\ Attempting \/ pc = "minimize"
          /\ Room(cluster.alloc, scheduledPods \ victims, W.spec, n)
    BY <1>7 DEF Lands, Commit
  <2>2. placed(n) \in Pod /\ placed(n).node = n /\ placed(n).spec = W.spec
    <3>1. Current \in Pod /\ Current.spec = W.spec
      BY <2>1, CurrentType, AttemptType DEF Searching, Current, Replica
    <3> QED
      BY <3>1 DEF Pod
  <2> HIDE DEF placed
  <2> DEFINE rest == scheduledPods \ victims
  <2>3. /\ m = n => UsedBy(At(scheduledPods', m), r)
                      <= UsedBy(At(rest, n), r) + Demand(W.spec, r)
        /\ m # n => At(scheduledPods', m) = At(rest, m)
        /\ UsedBy(At(rest, m), r) <= UsedBy(At(scheduledPods, m), r)
        /\ UsedBy(At(rest, m), r) \in Nat /\ UsedBy(At(scheduledPods, m), r) \in Nat
    BY <2>1, <2>2, LandedUse
  <2>4. \/ Demand(W.spec, r) = 0
        \/ UsedBy(At(rest, n), r) + Demand(W.spec, r) <= cluster.alloc[n][r]
    BY <2>1 DEF Room
  <2>5. Demand(W.spec, r) \in Nat /\ UsedBy(At(scheduledPods', m), r) \in Nat
    <3>1. Demand(placed(n).spec, r) \in Nat
      BY <2>2, DemandNat
    <3>2. scheduledPods' \in SUBSET Pod /\ IsFiniteSet(scheduledPods')
      BY LiveTypeNext, RoomNext DEF TypeOK, RoomInv
    <3>3. At(scheduledPods', m) \in SUBSET Pod /\ IsFiniteSet(At(scheduledPods', m))
      BY <3>2, AtFinite
    <3> QED
      BY <2>2, <3>1, <3>3, UsedNat
  <2> HIDE DEF rest
  <2>6. CASE m # n
    <3>1. UsedBy(At(scheduledPods', m), r) = UsedBy(At(rest, m), r)
      BY <2>3, <2>6
    <3> QED
      BY <1>4, <1>5, <2>3, <3>1
  <2>7. CASE m = n
    <3>1. UsedBy(At(scheduledPods', m), r) <= UsedBy(At(rest, m), r) + Demand(W.spec, r)
      BY <2>3, <2>7
    <3>2. \/ Demand(W.spec, r) = 0
          \/ UsedBy(At(rest, m), r) + Demand(W.spec, r) <= cluster.alloc[m][r]
      BY <2>4, <2>7
    <3> QED
      BY <1>4, <1>5, <2>3, <2>5, <3>1, <3>2
  <2> QED
    BY <2>6, <2>7
<1> QED
  BY <1>1, <1>6, <1>7

LEMMA RoomInit == Init => RoomInv /\ NoOvercommit
<1> SUFFICES ASSUME Init PROVE RoomInv /\ NoOvercommit
  OBVIOUS
<1>1. scheduledPods = Initial /\ pc = "probe" /\ cluster \in Clusters
  BY DEF Init, Initial
<1>2. RoomInv
  BY <1>1, InitialFinite DEF RoomInv, Initial
<1>3. ASSUME NEW n \in Node, NEW r \in Resource
      PROVE  UsedBy(At(Initial, n), r) <= UsedBy(At(Initial, n), r)
  <2>1. At(Initial, n) \in SUBSET Pod /\ IsFiniteSet(At(Initial, n))
    BY <1>1, InitialFinite, AtFinite DEF Initial
  <2>2. UsedBy(At(Initial, n), r) \in Nat
    BY <2>1, UsedNat
  <2> QED
    BY <2>2
<1> QED
  BY <1>1, <1>2, <1>3 DEF NoOvercommit, At

\* If a pod that fits has room, no node is filled beyond what it offers, unless the
\* cluster already had it so and then no further.
THEOREM NodesNotOvercommitted ==
  ASSUME RespectsCapacity
  PROVE  Spec => []NoOvercommit
<1>1. TypeOK /\ SnapshotInSync /\ RoomInv /\ [Next]_vars => RoomInv'
  BY RoomNext DEF LiveNext, Program
<1>2. TypeOK /\ SnapshotInSync /\ RoomInv /\ NoOvercommit /\ [Next]_vars => NoOvercommit'
  BY OvercommitNext DEF LiveNext, Program
<1> QED
  BY <1>1, <1>2, RoomInit, TypeCorrect, SnapshotRestored, PTL DEF Spec

\* And so beside live informers: what they deliver may cost a replica its fit, but
\* never puts one where there is no room for it.
THEOREM LiveNotOvercommitted ==
  ASSUME RespectsCapacity
  PROVE  LiveSpec => []NoOvercommit
<1>1. TypeOK /\ SnapshotInSync /\ RoomInv /\ [LiveNext]_vars => RoomInv'
  BY RoomNext
<1>2. TypeOK /\ SnapshotInSync /\ RoomInv /\ NoOvercommit /\ [LiveNext]_vars => NoOvercommit'
  BY OvercommitNext
<1> QED
  BY <1>1, <1>2, RoomInit, LiveTypeCorrect, LiveSnapshotRestored, PTL DEF LiveSpec, LiveInit
-----------------------------------------------------------------------------
(* The capacity report.                                                    *)

Statuses(k) == ResourceStatuses(cluster.alloc, allocated,
                                RequestedByWorkload(batch[k].spec, batch[k].replicas))

\* Each replica is made of its workload's template and is on a node, and what is
\* reported of capacity compares the workload with what the pods used at the start.
BooksInv ==
  /\ \A p \in simulated : p.id[1] \in Nat \ {0} /\ p.node \in Node /\ p.spec = batch[p.id[1]].spec
  /\ allocated = AllocatedByResource(Initial)
  /\ Working => wr.resources = Statuses(wi)
  /\ \A k \in Reported : results[k].resources = Statuses(k)
  /\ pc = "error" => results = << >>

BooksFrame == UNCHANGED <<batch, allocated>> /\ SameCapacity

LEMMA BooksKept ==
  ASSUME BooksFrame
  PROVE  Initial' = Initial /\ \A k : Statuses(k)' = Statuses(k)
BY DEF BooksFrame, SameCapacity, Initial, ListScheduledPods, Statuses

LEMMA BooksInit == Init => BooksInv
BY DEF Init, BooksInv, Initial, Working, Reported

LEMMA BooksNext == TypeOK /\ VerdictInv /\ BooksInv /\ [LiveNext]_vars => BooksInv'
<1> SUFFICES ASSUME TypeOK, VerdictInv, BooksInv, [LiveNext]_vars PROVE BooksInv'
  OBVIOUS
<1> USE DEF inputs, outcome, progress, ledger
<1>1. CASE /\ BooksFrame /\ UNCHANGED <<simulated, results, wi, wr>>
           /\ Working' => Working
           /\ pc' = "error" => pc = "error"
  BY <1>1, BooksKept DEF BooksFrame, BooksInv, Reported
<1>2. ASSUME BooksFrame, UNCHANGED <<results, wi>>, Attempting \/ pc = "minimize", NEW n \in Node,
             NEW victims, NEW viaPreemption, Commit(Current, n, victims, viaPreemption)
      PROVE  BooksInv'
  <2> DEFINE placed == [Current EXCEPT !.node = n]
  <2>1. placed.id[1] = wi /\ placed.node = n /\ placed.spec = batch[wi].spec
    BY DEF Current, Replica, W
  <2>2. wi \in Nat \ {0}
    BY <1>2, CurrentWorkload DEF TypeOK, Attempting
  <2>3. simulated' = simulated \cup {placed} /\ batch' = batch
    BY <1>2 DEF Commit, BooksFrame
  <2> HIDE DEF placed
  <2>4. \A p \in simulated' :
          p.id[1] \in Nat \ {0} /\ p.node \in Node /\ p.spec = batch'[p.id[1]].spec
    BY <2>1, <2>2, <2>3 DEF BooksInv
  <2>5. wr'.resources = wr.resources /\ Working /\ pc' # "error"
    BY <1>2 DEF Commit, TypeOK, WorkloadResult, Working, Attempting
  <2> QED
    BY <1>2, <2>4, <2>5, BooksKept DEF BooksFrame, BooksInv, Reported
<1>3. CASE PlaceReplica
  <2>1. BooksFrame
    BY <1>3 DEF PlaceReplica, BooksFrame, SameCapacity
  <2> QED
    BY <1>2, <1>3, <2>1 DEF PlaceReplica
<1>4. CASE PreemptReplica
  <2>1. BooksFrame /\ todo \subseteq Node
    BY <1>4 DEF PreemptReplica, BooksFrame, SameCapacity, TypeOK
  <2> QED
    BY <1>2, <1>4, <2>1 DEF PreemptReplica
<1>5. CASE PlacesAmid
  <2>1. BooksFrame
    BY <1>5 DEF PlacesAmid, SameWorld, SameLists, BooksFrame, SameCapacity
  <2> QED
    BY <1>2, <1>5, <2>1 DEF PlacesAmid
<1>6. CASE ProbeWorkload
  <2>1. BooksFrame /\ UNCHANGED <<simulated, results, wi>> /\ pc' # "error"
    BY <1>6 DEF ProbeWorkload, BooksFrame, SameCapacity
  <2>2. wr'.resources = Statuses(wi)
    BY <1>6 DEF ProbeWorkload, NewResult, Statuses, W
  <2> QED
    BY <2>1, <2>2, BooksKept DEF BooksFrame, BooksInv, Reported
<1>7. CASE RejectWorkload
  <2>1. BooksFrame /\ UNCHANGED simulated /\ results' = << >> /\ ~Working'
    BY <1>7 DEF RejectWorkload, BooksFrame, SameCapacity, Working
  <2> QED
    BY <2>1, BooksKept DEF BooksFrame, BooksInv, Reported
<1>8. CASE ReportWorkload
  <2>1. BooksFrame /\ UNCHANGED simulated /\ ~Working' /\ Working /\ pc' # "error"
    BY <1>8 DEF ReportWorkload, BooksFrame, SameCapacity, Working
  <2>2. \A k \in Reported' : \/ k \in Reported /\ results'[k] = results[k]
                             \/ k = wi /\ results'[k] = wr
    BY <1>8, Appended DEF Reported, VerdictInv, ReportWorkload
  <2> QED
    BY <2>1, <2>2, BooksKept DEF BooksFrame, BooksInv
<1>9. CASE Idle
  <2>1. BooksFrame /\ UNCHANGED <<simulated, results, wi, wr, pc>>
    BY <1>9 DEF Idle, SameWorld, SameLists, BooksFrame, SameCapacity
  <2> QED
    BY <1>1, <2>1 DEF Working
<1>10. CASE StopsAmid
  <2>1. BooksFrame /\ UNCHANGED <<simulated, results, wi, wr>> /\ Working
        /\ pc' # "error"
    BY <1>10 DEF StopsAmid, SameWorld, SameLists, BooksFrame, SameCapacity, Attempting, Working
  <2> QED
    BY <1>1, <2>1
<1>11. CASE GiveUp \/ StartPreemption \/ RemoveVictim
  <2>1. BooksFrame /\ UNCHANGED <<simulated, results, wi, wr>> /\ Working
        /\ pc' # "error"
    BY <1>11 DEF GiveUp, StartPreemption, RemoveVictim, BooksFrame, SameCapacity, Attempting, Working
  <2> QED
    BY <1>1, <2>1
<1>12. CASE NextNode \/ AbandonPreemption \/ Reprieve
  <2>1. BooksFrame /\ UNCHANGED <<simulated, results, wi, wr>> /\ Working
        /\ pc' # "error"
    BY <1>12 DEF NextNode, AbandonPreemption, Reprieve, BooksFrame, SameCapacity, Working
  <2> QED
    BY <1>1, <2>1
<1>13. CASE Finish \/ UNCHANGED vars
  <2>1. /\ BooksFrame /\ UNCHANGED <<simulated, results, wi, wr>>
        /\ (Working' => Working) /\ (pc' = "error" => pc = "error")
    BY <1>13 DEF Finish, vars, BooksFrame, SameCapacity, Working
  <2> QED
    BY <1>1, <2>1
<1> QED
  BY <1>3, <1>4, <1>5, <1>6, <1>7, <1>8, <1>9, <1>10, <1>11, <1>12, <1>13, LiveSteps DEF Next

LEMMA AllocatableIsSum ==
  ASSUME NEW c \in Clusters, NEW r \in Resource
  PROVE  LET alloc == c.alloc
         IN  /\ AllocatableOf(alloc, r) = SumFunctionOnSet([n \in Node |-> alloc[n][r]], Node)
             /\ AllocatableOf(alloc, r) \in Nat
<1> DEFINE share == [n \in Node |-> c.alloc[n][r]]
<1>1. c.alloc \in [Node -> [Resource -> Nat]]
  BY ClustersAssumption DEF IsCluster
<1>2. AllocatableOf(c.alloc, r) = SumFunctionOnSet(share, Node)
  BY <1>1 DEF AllocatableOf, SumFunction
<1>3. IsFiniteSet(Node) /\ \A n \in Node : share[n] \in Nat
  BY <1>1, NodesAssumption, FS_Interval DEF Node
<1> HIDE DEF share
<1>4. SumFunctionOnSet(share, Node) \in Nat
  BY <1>3, SumNat
<1> QED
  BY <1>2, <1>4 DEF share

\* Pods that leave no node overfull use no more in sum than the nodes offer in sum.
LEMMA EnoughInSum ==
  ASSUME NEW c \in Clusters, NEW r \in Resource,
         NEW pods \in SUBSET Pod, IsFiniteSet(pods), \A p \in pods : p.node \in Node,
         \A n \in Node : UsedBy(At(pods, n), r) <= c.alloc[n][r]
  PROVE  UsedBy(pods, r) <= AllocatableOf(c.alloc, r)
<1> DEFINE share == [n \in Node |-> c.alloc[n][r]]
           used  == [n \in Node |-> UsedBy(At(pods, n), r)]
<1>1. UsedBy(pods, r) = SumFunctionOnSet(used, Node)
  BY UsedNodeByNode
<1>2. AllocatableOf(c.alloc, r) = SumFunctionOnSet(share, Node)
  BY AllocatableIsSum
<1>3. IsFiniteSet(Node)
  BY NodesAssumption, FS_Interval DEF Node
<1>4. \A n \in Node : used[n] \in Nat /\ share[n] \in Nat /\ used[n] <= share[n]
  <2>1. \A n \in Node : c.alloc[n][r] \in Nat
    BY ClustersAssumption DEF IsCluster
  <2>2. \A n \in Node : UsedBy(At(pods, n), r) \in Nat
    BY AtFinite, UsedNat
  <2> QED
    BY <2>1, <2>2
<1> HIDE DEF share, used
<1>5. SumFunctionOnSet(used, Node) <= SumFunctionOnSet(share, Node)
  BY <1>3, <1>4, SumMonotone
<1> QED
  BY <1>1, <1>2, <1>5

\* Pods all made of the same template use as many times what it asks for.
LEMMA UsedByCopies ==
  ASSUME NEW pods \in SUBSET Pod, IsFiniteSet(pods), NEW spec \in Template,
         \A p \in pods : p.spec = spec, NEW r \in DOMAIN spec.req
  PROVE  UsedBy(pods, r) = Cardinality(pods) * spec.req[r]
<1>1. Demand(spec, r) = spec.req[r] /\ spec.req[r] \in Nat
  BY TemplateAssumption DEF Demand
<1>2. \A p \in pods : Demands(r)[p] = spec.req[r]
  BY <1>1, DemandNat
<1>3. SumFunctionOnSet(Demands(r), pods) = Cardinality(pods) * spec.req[r]
  BY <1>1, <1>2, SumConstant
<1> QED
  BY <1>3, UsedIsSum

\* When a workload is reported and nobody was ever evicted, the ledger holds the pods
\* of the cluster and the replicas of the workload side by side.
LEMMA HonestResult ==
  ASSUME TypeOK, RoomInv, NoOvercommit, CreditInv, BooksInv, EvictionInv, pc # "error",
         Working, Fits(wi, wr),
         ~wr.usedPreemption, \A j \in Reported : ~results[j].usedPreemption,
         \A p \in Initial : p.node # Elsewhere,
         \A n \in Node, r \in Resource : UsedBy(At(Initial, n), r) <= cluster.alloc[n][r],
         NEW r \in DOMAIN wr.resources, batch[wi].replicas * batch[wi].spec.req[r] > 0
  PROVE  wr.resources[r] = "OK"
<1> DEFINE spec == batch[wi].spec  replicas == batch[wi].replicas
           pods == Initial \cup ReplicasOf(wi)
<1>1. /\ cluster \in Clusters /\ IsWorkload(batch[wi]) /\ wi \in Nat
      /\ wr.resources = ResourceStatuses(cluster.alloc, allocated, RequestedByWorkload(spec, replicas))
      /\ allocated = AllocatedByResource(Initial)
  BY CurrentWorkload DEF TypeOK, Working, BooksInv, Statuses, W
<1>2. spec \in Template /\ replicas \in Nat /\ r \in DOMAIN spec.req /\ r \in Resource
      /\ spec.req[r] \in Nat
  <2>1. r \in DOMAIN spec.req
    BY <1>1 DEF ResourceStatuses, RequestedByWorkload
  <2> QED
    BY <1>1, <2>1, TemplateAssumption DEF IsWorkload
<1>3. pods \subseteq scheduledPods
  <2>1. Evicted = {}
    BY DEF EvictionInv, EvictedOnlyForHigher
  <2> QED
    BY <2>1 DEF Evicted, ReplicasOf, TypeOK
<1>4. pods \in SUBSET Pod /\ IsFiniteSet(pods) /\ \A p \in pods : p.node \in Node
  <2>1. pods \in SUBSET Pod /\ IsFiniteSet(pods)
    BY <1>3, FS_Subset DEF TypeOK, RoomInv
  <2>2. \A p \in Initial : p.node \in Node
    <3>1. \A p \in Initial : p \in Pod /\ p.node # NoNode
      BY <1>1, InitialFinite DEF Initial
    <3> QED
      BY <3>1 DEF Pod
  <2>3. \A p \in ReplicasOf(wi) : p.node \in Node
    BY DEF ReplicasOf, BooksInv
  <2> QED
    BY <2>1, <2>2, <2>3
<1>5. /\ Initial \in SUBSET Pod /\ IsFiniteSet(Initial)
      /\ ReplicasOf(wi) \in SUBSET Pod /\ IsFiniteSet(ReplicasOf(wi))
      /\ Initial \cap ReplicasOf(wi) = {}
  <2>1. \A p \in Initial : p.id[1] = 0
    BY <1>1, InitialFinite DEF Initial
  <2>2. \A p \in ReplicasOf(wi) : p.id[1] # 0
    BY DEF ReplicasOf, BooksInv
  <2> QED
    BY <1>4, <2>1, <2>2, FS_Subset
<1>6. \A n \in Node : UsedBy(At(pods, n), r) <= cluster.alloc[n][r]
  <2> SUFFICES ASSUME NEW n \in Node PROVE UsedBy(At(pods, n), r) <= cluster.alloc[n][r]
    OBVIOUS
  <2>1. UsedBy(At(scheduledPods, n), r) <= cluster.alloc[n][r]
    <3>1. UsedBy(At(Initial, n), r) <= cluster.alloc[n][r]
      BY <1>2
    <3>2. \/ UsedBy(At(scheduledPods, n), r) <= cluster.alloc[n][r]
          \/ UsedBy(At(scheduledPods, n), r) <= UsedBy(At(Initial, n), r)
      BY <1>2 DEF NoOvercommit, At
    <3>3. /\ At(scheduledPods, n) \in SUBSET Pod /\ IsFiniteSet(At(scheduledPods, n))
          /\ At(Initial, n) \in SUBSET Pod /\ IsFiniteSet(At(Initial, n))
      BY <1>5, AtFinite DEF TypeOK, RoomInv
    <3>4. UsedBy(At(scheduledPods, n), r) \in Nat /\ UsedBy(At(Initial, n), r) \in Nat
      BY <3>3, UsedNat
    <3>5. cluster.alloc[n][r] \in Nat
      BY <1>1, <1>2, ClustersAssumption DEF IsCluster
    <3> QED
      BY <3>1, <3>2, <3>4, <3>5
  <2>2. At(pods, n) \in SUBSET At(scheduledPods, n)
    BY <1>3 DEF At
  <2>3. At(scheduledPods, n) \in SUBSET Pod /\ IsFiniteSet(At(scheduledPods, n))
    BY AtFinite DEF TypeOK, RoomInv
  <2>4. UsedBy(At(pods, n), r) <= UsedBy(At(scheduledPods, n), r)
    BY <2>2, <2>3, UsedSubset
  <2>5. /\ UsedBy(At(pods, n), r) \in Nat /\ UsedBy(At(scheduledPods, n), r) \in Nat
        /\ cluster.alloc[n][r] \in Nat
    <3>1. At(pods, n) \in SUBSET Pod /\ IsFiniteSet(At(pods, n))
      BY <2>2, <2>3, FS_Subset
    <3> QED
      BY <1>1, <1>2, <2>3, <3>1, UsedNat, ClustersAssumption DEF IsCluster
  <2> HIDE DEF pods
  <2> QED
    BY <2>1, <2>4, <2>5
<1>7. UsedBy(pods, r) = UsedBy(Initial, r) + UsedBy(ReplicasOf(wi), r)
  BY <1>5, UsedSplit
<1>8. UsedBy(ReplicasOf(wi), r) = replicas * spec.req[r]
  <2>1. Cardinality(ReplicasOf(wi)) = replicas
    BY DEF CreditInv, Fits
  <2>2. \A p \in ReplicasOf(wi) : p.spec = spec
    BY DEF ReplicasOf, BooksInv
  <2>3. UsedBy(ReplicasOf(wi), r) = Cardinality(ReplicasOf(wi)) * spec.req[r]
    BY <1>2, <1>5, <2>2, UsedByCopies
  <2> QED
    BY <2>1, <2>3
<1>9. UsedBy(pods, r) <= AllocatableOf(cluster.alloc, r)
  <2> HIDE DEF pods
  <2> QED
    BY <1>1, <1>2, <1>4, <1>6, EnoughInSum
<1>10. UsedBy(Initial, r) \in Nat /\ AllocatableOf(cluster.alloc, r) \in Nat
  BY <1>1, <1>2, <1>5, UsedNat, AllocatableIsSum
<1>11. wr.resources[r] = ClassifyResource(AllocatableOf(cluster.alloc, r), UsedBy(Initial, r),
                                          replicas * spec.req[r])
  BY <1>1, <1>2 DEF ResourceStatuses, RequestedByWorkload, AllocatedByResource
<1> DEFINE asked == replicas * spec.req[r]
<1>12. asked \in Nat /\ asked > 0
  BY <1>2
<1>13. UsedBy(Initial, r) + asked <= AllocatableOf(cluster.alloc, r)
  BY <1>7, <1>8, <1>9
<1>14. wr.resources[r] = ClassifyResource(AllocatableOf(cluster.alloc, r), UsedBy(Initial, r), asked)
  BY <1>11
<1> HIDE DEF asked
<1> QED
  BY <1>10, <1>12, <1>13, <1>14 DEF ClassifyResource

HonestAbout(k) ==
  ( /\ Fits(k, results[k])
    /\ \A j \in 1 .. k : ~results[j].usedPreemption
    /\ \A p \in Initial : p.node # Elsewhere
    /\ \A n \in Node, r \in Resource : UsedBy(At(Initial, n), r) <= cluster.alloc[n][r] )
  => \A r \in DOMAIN results[k].resources :
       batch[k].replicas * batch[k].spec.req[r] > 0 => results[k].resources[r] = "OK"

LEMMA HonestNext ==
  TypeOK /\ VerdictInv /\ CreditInv /\ EvictionInv /\ RoomInv /\ NoOvercommit /\ BooksInv
    /\ CapacityHonest /\ [LiveNext]_vars => CapacityHonest'
<1> SUFFICES ASSUME TypeOK, VerdictInv, CreditInv, EvictionInv, RoomInv, NoOvercommit, BooksInv,
                    CapacityHonest, [LiveNext]_vars
             PROVE  CapacityHonest'
  OBVIOUS
<1> USE DEF inputs, outcome, progress, ledger
<1>1. \A k \in Reported : HonestAbout(k)
  BY DEF CapacityHonest, HonestAbout, At
<1>2. SUFFICES \A k \in Reported' : HonestAbout(k)'
  BY DEF CapacityHonest, HonestAbout, At
<1>3. ASSUME SameCapacity, UNCHANGED <<batch, results>> PROVE \A k \in Reported' : HonestAbout(k)'
  <2>1. Initial' = Initial /\ Reported' = Reported /\ cluster'.alloc = cluster.alloc
    BY <1>3 DEF SameCapacity, Initial, ListScheduledPods, Reported
  <2>2. \A k : HonestAbout(k)' <=> HonestAbout(k)
    BY <1>3, <2>1 DEF HonestAbout, Fits
  <2> QED
    BY <1>1, <2>1, <2>2
<1>4. CASE ReportWorkload
  <2>1. /\ Initial' = Initial /\ UNCHANGED <<batch, cluster>> /\ pc # "error" /\ Working
        /\ cluster'.alloc = cluster.alloc
    BY <1>4 DEF ReportWorkload, Initial, Working
  <2>2. /\ Len(results) \in Nat /\ wi \in Nat /\ Len(results) = wi - 1 /\ Len(results') = wi
        /\ results'[wi] = wr
        /\ \A k \in Reported : results'[k] = results[k]
    BY <1>4, <2>1, Appended DEF VerdictInv, Reported
  <2>3. ASSUME NEW k \in Reported PROVE HonestAbout(k)'
    <3>1. \A j \in 1 .. k : j \in Reported
      BY <2>2 DEF Reported
    <3>2. \A j \in 1 .. k : results'[j] = results[j]
      BY <2>2, <3>1
    <3>3. results'[k] = results[k]
      BY <2>2
    <3>4. HonestAbout(k)' <=> HonestAbout(k)
      BY <2>1, <3>2, <3>3 DEF HonestAbout, Fits
    <3> QED
      BY <1>1, <3>4
  <2>4. ASSUME NEW k, k = wi PROVE HonestAbout(k)'
    <3> SUFFICES ASSUME Fits(k, results'[k]), \A j \in 1 .. k : ~results'[j].usedPreemption,
                        \A p \in Initial : p.node # Elsewhere,
                        \A n \in Node, r \in Resource :
                          UsedBy(At(Initial, n), r) <= cluster.alloc[n][r],
                        NEW r \in DOMAIN results'[k].resources,
                        batch[k].replicas * batch[k].spec.req[r] > 0
                 PROVE  results'[k].resources[r] = "OK"
      BY <2>1 DEF HonestAbout, Fits
    <3>1. Fits(wi, wr) /\ ~wr.usedPreemption /\ r \in DOMAIN wr.resources
      <4>1. wi \in 1 .. wi
        BY <1>4, <2>2, CurrentWorkload DEF TypeOK, ReportWorkload
      <4> QED
        BY <2>2, <2>4, <4>1
    <3>2. \A j \in Reported : ~results[j].usedPreemption
      <4>1. \A j \in Reported : j \in 1 .. wi /\ results'[j] = results[j]
        BY <2>2 DEF Reported
      <4> QED
        BY <2>4, <4>1
    <3>3. wr.resources[r] = "OK"
      BY <2>1, <2>4, <3>1, <3>2, HonestResult
    <3> QED
      BY <2>2, <2>4, <3>3
  <2>5. \A k \in Reported' : k \in Reported \/ k = wi
    BY <2>2 DEF Reported
  <2> QED
    BY <2>3, <2>4, <2>5
<1>5. CASE RejectWorkload
  BY <1>5 DEF RejectWorkload, Reported
<1>6. CASE Idle \/ PlacesAmid \/ StopsAmid
  BY <1>3, <1>6 DEF Idle, PlacesAmid, StopsAmid, SameWorld, SameLists, SameCapacity
<1>7. CASE PlaceReplica \/ PreemptReplica
  BY <1>3, <1>7 DEF PlaceReplica, PreemptReplica, SameCapacity
<1>8. CASE ProbeWorkload \/ GiveUp \/ StartPreemption \/ RemoveVictim
  BY <1>3, <1>8 DEF ProbeWorkload, GiveUp, StartPreemption, RemoveVictim, SameCapacity
<1>9. CASE NextNode \/ AbandonPreemption \/ Reprieve \/ Finish \/ UNCHANGED vars
  BY <1>3, <1>9 DEF NextNode, AbandonPreemption, Reprieve, Finish, vars, SameCapacity
<1> QED
  BY <1>4, <1>5, <1>6, <1>7, <1>8, <1>9, LiveSteps DEF Next

\* If a pod that fits has room, the two halves of the report agree: what was placed
\* in full without an eviction was never told that something it asks for is short
\* or absent, in a cluster whose pods fit on nodes that were listed.
THEOREM ShortfallsHonest ==
  ASSUME RespectsCapacity
  PROVE  Spec => []CapacityHonest
<1>1. TypeOK /\ SnapshotInSync /\ RoomInv /\ [Next]_vars => RoomInv'
  BY RoomNext DEF LiveNext, Program
<1>2. TypeOK /\ VerdictInv /\ BooksInv /\ [Next]_vars => BooksInv'
  BY BooksNext DEF LiveNext, Program
<1>3. TypeOK /\ VerdictInv /\ CreditInv /\ EvictionInv /\ RoomInv /\ NoOvercommit /\ BooksInv
        /\ CapacityHonest /\ [Next]_vars => CapacityHonest'
  BY HonestNext DEF LiveNext, Program
<1>4. Init => CapacityHonest
  BY DEF Init, CapacityHonest, Reported
<1>5. Spec => []NoOvercommit
  BY NodesNotOvercommitted
<1> QED
  BY <1>1, <1>2, <1>3, <1>4, <1>5, RoomInit, BooksInit, CreditInit, EvictionInit, TypeCorrect,
     SnapshotRestored, VerdictNext, CreditNext, EligibleNext, EvictionNext, PTL DEF Spec

\* And so with claims that come and go while Run works.
THEOREM LiveShortfallsHonest ==
  ASSUME RespectsCapacity
  PROVE  LiveSpec => []CapacityHonest
<1>1. TypeOK /\ SnapshotInSync /\ RoomInv /\ [LiveNext]_vars => RoomInv'
  BY RoomNext
<1>2. Init => CapacityHonest
  BY DEF Init, CapacityHonest, Reported
<1>3. LiveSpec => []NoOvercommit
  BY LiveNotOvercommitted
<1> QED
  BY <1>1, <1>2, <1>3, RoomInit, BooksInit, BooksNext, HonestNext, CreditInit, EvictionInit,
     LiveTypeCorrect, LiveSnapshotRestored, LiveVerdictNext, LiveCreditNext, LiveEligibleNext,
     LiveEvictionNext, PTL DEF LiveSpec, LiveInit
-----------------------------------------------------------------------------
(* The cells of the report.                                                *)

LEMMA Division ==
  ASSUME NEW a \in Nat, NEW b \in Nat \ {0}
  PROVE  /\ a \div b \in Nat /\ a % b \in 0 .. b - 1
         /\ a = b * (a \div b) + (a % b)
OBVIOUS

\* A share of at least a hundredth is at least one percent, and of no more than all
\* there is at most a hundred.
LEMMA RoundedBounds ==
  ASSUME NEW a \in Nat, NEW b \in Nat \ {0}
  PROVE  /\ Rounded(a, b) \in Nat
         /\ b <= a => Rounded(a, b) >= 1
         /\ a <= 100 * b => Rounded(a, b) <= 100
<1> DEFINE q == a \div b  rest == a % b
<1>1. q \in Nat /\ rest \in 0 .. b - 1 /\ a = b * q + rest
  BY Division
<1>2. Rounded(a, b) = IF 2 * rest > b \/ (2 * rest = b /\ q % 2 = 1) THEN q + 1 ELSE q
  BY DEF Rounded
<1> HIDE DEF q, rest
<1>3. Rounded(a, b) \in Nat /\ Rounded(a, b) \in {q, q + 1}
  BY <1>1, <1>2
<1>4. b <= a => q >= 1
  <2>1. q = 0 => b * q = 0
    BY <1>1
  <2> QED
    BY <1>1, <2>1
<1>5. ASSUME a <= 100 * b PROVE q <= 99 \/ (q = 100 /\ rest = 0)
  <2>1. q >= 100 => b * q >= 100 * b
    <3>1. q >= 100 => \E d \in Nat : q = 100 + d
      <4>1. q >= 100 => q - 100 \in Nat /\ q = 100 + (q - 100)
        BY <1>1
      <4> QED
        BY <4>1
    <3>2. \A d \in Nat : b * (100 + d) = 100 * b + b * d /\ b * d \in Nat
      OBVIOUS
    <3> QED
      BY <3>1, <3>2
  <2>2. q >= 101 => b * q >= 101 * b
    <3>1. q >= 101 => \E d \in Nat : q = 101 + d
      <4>1. q >= 101 => q - 101 \in Nat /\ q = 101 + (q - 101)
        BY <1>1
      <4> QED
        BY <4>1
    <3>2. \A d \in Nat : b * (101 + d) = 101 * b + b * d /\ b * d \in Nat
      OBVIOUS
    <3> QED
      BY <3>1, <3>2
  <2>3. b * q \in Nat
    BY <1>1
  <2> QED
    BY <1>1, <1>5, <2>1, <2>2, <2>3
<1>6. rest = 0 => Rounded(a, b) = q
  BY <1>1, <1>2
<1> QED
  BY <1>1, <1>3, <1>4, <1>5, <1>6

\* What the simulator calls an amount, and the share the report writes of it.
LEMMA ShareFits ==
  ASSUME NEW allocatable \in Nat, NEW used \in Nat, NEW asked \in Nat
  PROVE  LET color == ResourceColor(ClassifyResource(allocatable, used, asked))
             share == WithPercent(asked, allocatable)
         IN  /\ color = "red" <=> share = -1
             /\ color = "green" => share <= 200
             /\ share = 0 => asked = 0
<1> DEFINE fit == ClassifyResource(allocatable, used, asked)
           share == WithPercent(asked, allocatable)
           all100 == 100 * asked
<1>1. /\ ResourceColor(fit) = "red" <=> allocatable = 0
      /\ ResourceColor(fit) = "green" <=> allocatable # 0 /\ asked <= allocatable - used
  BY DEF ResourceColor, ClassifyResource
<1>2. CASE allocatable = 0
  <2>1. share = -1
    BY <1>2 DEF WithPercent
  <2> QED
    BY <1>1, <1>2, <2>1
<1>3. CASE allocatable # 0 /\ asked = 0
  <2>1. share = 0
    BY <1>3 DEF WithPercent
  <2> QED
    BY <1>1, <1>3, <2>1
<1>4. CASE allocatable # 0 /\ asked # 0
  <2>1. all100 \in Nat /\ allocatable \in Nat \ {0}
    BY <1>4
  <2>2. share = IF all100 < allocatable THEN 1 ELSE 2 * Rounded(all100, allocatable)
    BY <1>4 DEF WithPercent
  <2>3. asked <= allocatable - used => all100 <= 100 * allocatable
    OBVIOUS
  <2> HIDE DEF all100, share, fit
  <2>4. /\ Rounded(all100, allocatable) \in Nat
        /\ allocatable <= all100 => Rounded(all100, allocatable) >= 1
        /\ all100 <= 100 * allocatable => Rounded(all100, allocatable) <= 100
    BY <2>1, RoundedBounds
  <2>5. share \in Nat \ {0}
    BY <2>1, <2>2, <2>4
  <2>6. all100 <= 100 * allocatable => share <= 200
    BY <2>1, <2>2, <2>4
  <2>7. /\ ResourceColor(fit) = "red" <=> share = -1
        /\ ResourceColor(fit) = "green" => share <= 200
        /\ share = 0 => asked = 0
    BY <1>1, <1>4, <2>3, <2>5, <2>6
  <2> QED
    BY <2>7 DEF share, fit
<1> QED
  BY <1>2, <1>3, <1>4

LEMMA CellsFollow == TypeOK /\ VerdictInv /\ BooksInv => CellsAgree
<1> SUFFICES ASSUME TypeOK, VerdictInv, BooksInv,
                    NEW k \in 1 .. Len(results), NEW d \in DOMAIN results[k].resources
             PROVE  /\ Cell(k, d).color = "red" <=> Cell(k, d).share = -1
                    /\ Cell(k, d).color = "green" => Cell(k, d).share <= 200
                    /\ Cell(k, d).share = 0 => batch[k].replicas * batch[k].spec.req[d] = 0
  BY DEF CellsAgree
<1> DEFINE asked == batch[k].replicas * batch[k].spec.req[d]
           offered == AllocatableOf(cluster.alloc, d)
           used == UsedBy(Initial, d)
<1>1. /\ cluster \in Clusters /\ IsWorkload(batch[k])
      /\ results[k].resources
           = ResourceStatuses(cluster.alloc, allocated,
                              RequestedByWorkload(batch[k].spec, batch[k].replicas))
      /\ allocated = AllocatedByResource(Initial)
  <2>1. k \in 1 .. Len(batch)
    <3>1. Len(batch) \in Nat
      BY BatchesAssumption DEF TypeOK
    <3>2. pc # "error"
      BY DEF BooksInv
    <3>3. Len(results) <= Len(batch) /\ Len(results) \in Nat
      BY <3>1, <3>2 DEF VerdictInv, TypeOK
    <3> QED
      BY <3>1, <3>3
  <2> QED
    BY <2>1, BatchesAssumption DEF TypeOK, BooksInv, Statuses, Reported
<1>2. d \in DOMAIN batch[k].spec.req /\ d \in Resource /\ batch[k].spec \in Template
      /\ batch[k].spec.req[d] \in Nat /\ batch[k].replicas \in Nat
  <2>1. d \in DOMAIN batch[k].spec.req
    BY <1>1 DEF ResourceStatuses, RequestedByWorkload
  <2> QED
    BY <1>1, <2>1, TemplateAssumption DEF IsWorkload
<1>3. RequestedByWorkload(batch[k].spec, batch[k].replicas)[d] = asked /\ allocated[d] = used
  BY <1>1, <1>2 DEF RequestedByWorkload, AllocatedByResource
<1>4. results[k].resources[d] = ClassifyResource(offered, used, asked)
  BY <1>1, <1>3 DEF ResourceStatuses
<1>5. asked \in Nat /\ offered \in Nat /\ used \in Nat
  <2>1. Initial \in SUBSET Pod /\ IsFiniteSet(Initial)
    BY <1>1, InitialFinite DEF Initial
  <2>2. used \in Nat
    BY <2>1, UsedNat
  <2>3. offered \in Nat
    BY <1>1, <1>2, AllocatableIsSum
  <2>4. asked \in Nat
    BY <1>2
  <2> QED
    BY <2>2, <2>3, <2>4
<1>6. Cell(k, d) = [color |-> ResourceColor(results[k].resources[d]),
                    share |-> WithPercent(RequestedByWorkload(batch[k].spec, batch[k].replicas)[d],
                                          offered)]
  BY DEF Cell
<1>7. Cell(k, d).color = ResourceColor(ClassifyResource(offered, used, asked))
      /\ Cell(k, d).share = WithPercent(asked, offered)
  BY <1>3, <1>4, <1>6
<1> HIDE DEF asked, offered, used
<1>8. /\ Cell(k, d).color = "red" <=> Cell(k, d).share = -1
      /\ Cell(k, d).color = "green" => Cell(k, d).share <= 200
      /\ Cell(k, d).share = 0 => asked = 0
  BY <1>5, <1>7, ShareFits
<1> QED
  BY <1>8 DEF asked

\* The colour of a cell, which the simulator chose, and the share in it, which the
\* report computes, never contradict each other; this takes nothing of the filters.
THEOREM CellsConsistent == Spec => []CellsAgree
<1>1. TypeOK /\ VerdictInv /\ BooksInv /\ [Next]_vars => BooksInv'
  BY BooksNext DEF LiveNext, Program
<1> QED
  BY <1>1, BooksInit, CreditInit, TypeCorrect, VerdictNext, CellsFollow, PTL DEF Spec

\* And so in every report the command writes.
THEOREM ReportedCellsConsistent == CommandSpec => []CellsAgree
<1>1. LiveSpec => []CellsAgree
  BY BooksInit, BooksNext, CreditInit, LiveTypeCorrect, LiveVerdictNext, CellsFollow, PTL
  DEF LiveSpec, LiveInit
<1> QED
  BY <1>1, CommandRunsLive, PTL
===============================================================================
