-------------------------------- MODULE Sums --------------------------------
(***************************************************************************)
(* Facts about the sum of a function over a finite set, the operator       *)
(* SumFunctionOnSet of the community module Functions: the counters of the *)
(* analytics buffer, the counts of the audit detector and the alert totals *)
(* are sums of that kind.  The library defines it as a fold, that is by a  *)
(* function that is recursive on the subsets of its argument; the lemmas   *)
(* below are derived from that definition alone.                           *)
(*                                                                         *)
(* Induction.  The induction theorems of the library take a predicate      *)
(* operator as a parameter.  Here the predicate is replaced by a set: a    *)
(* collection Good of sets to which every subset of S belongs as soon as   *)
(* all its proper subsets do contains S.  That strict inclusion is well    *)
(* founded on finite sets is a theorem of FiniteSetTheorems.               *)
(***************************************************************************)
EXTENDS Functions, FiniteSets, FiniteSetTheorems, WellFoundedInduction, TLAPS

(* A non-empty collection of subsets of a finite set has a minimal member. *)
LEMMA MinimalSubset ==
  ASSUME NEW S, IsFiniteSet(S), NEW B, B \subseteq SUBSET S, B # {}
  PROVE  \E m \in B : \A y \in B : y \subseteq m => y = m
<1>1. B \subseteq FiniteSubsetsOf(S)
  BY FS_Subset DEF FiniteSubsetsOf
<1>2. \E m \in B : \A y \in B : ~ (<<y, m>> \in StrictSubsetOrdering(S))
  BY <1>1, FS_StrictSubsetOrderingWellFounded, WFMin, Zenon
<1>. QED BY <1>2 DEF StrictSubsetOrdering

(* Induction on the subsets of a finite set. *)
LEMMA SetInduction ==
  ASSUME NEW S, IsFiniteSet(S), NEW Good,
         \A T \in SUBSET S : (\A U \in SUBSET T : U # T => U \in Good) => T \in Good
  PROVE  S \in Good
<1> DEFINE Bad == (SUBSET S) \ Good
<1> SUFFICES ASSUME S \notin Good PROVE FALSE
  OBVIOUS
<1>1. Bad \subseteq SUBSET S /\ Bad # {}
  OBVIOUS
<1>2. PICK m \in Bad : \A y \in Bad : y \subseteq m => y = m
  <2> HIDE DEF Bad
  <2>. QED BY <1>1, MinimalSubset
<1>3. \A U \in SUBSET m : U # m => U \in Good
  BY <1>2
<1>. QED BY <1>3

-----------------------------------------------------------------------------
(***************************************************************************)
(* The recursive function of the fold.  Pick is the choice it makes;       *)
(* Solves(g, f, S) says that g satisfies its defining equation.            *)
(***************************************************************************)
Pick(s) == CHOOSE x \in s : TRUE

Solves(g, f, S) ==
  g = [s \in SUBSET S |-> IF s = {} THEN 0 ELSE f[Pick(s)] + g[s \ {Pick(s)}]]

Solution(f, S) == CHOOSE g : Solves(g, f, S)

(* The library's sum, unfolded to the choice of a solution. *)
LEMMA SumIsChosen ==
  ASSUME NEW f, NEW S
  PROVE  SumFunctionOnSet(f, S) = Solution(f, S)[S]
BY Zenon DEF SumFunctionOnSet, FoldFunctionOnSet, MapThenFoldSet, Solution, Solves, Pick

(* A non-empty set holds the element the fold picks. *)
LEMMA PickIn == ASSUME NEW s, s # {} PROVE Pick(s) \in s
BY DEF Pick

(* Two solutions agree on every set in the domain of both. *)
LEMMA SolutionsAgree ==
  ASSUME NEW f, NEW S, NEW T, NEW g, NEW h,
         Solves(g, f, S), Solves(h, f, T),
         NEW V, IsFiniteSet(V), V \subseteq S, V \subseteq T
  PROVE  g[V] = h[V]
<1> DEFINE Good == {s \in SUBSET V : g[s] = h[s]}
<1>1. ASSUME NEW s \in SUBSET V, \A u \in SUBSET s : u # s => u \in Good
      PROVE  s \in Good
  <2>1. s \in SUBSET S /\ s \in SUBSET T
    OBVIOUS
  <2>2. g[s] = IF s = {} THEN 0 ELSE f[Pick(s)] + g[s \ {Pick(s)}]
    BY <2>1, Zenon DEF Solves
  <2>3. h[s] = IF s = {} THEN 0 ELSE f[Pick(s)] + h[s \ {Pick(s)}]
    BY <2>1, Zenon DEF Solves
  <2>4. s # {} => g[s \ {Pick(s)}] = h[s \ {Pick(s)}]
    BY <1>1, PickIn
  <2>. QED BY <2>2, <2>3, <2>4
<1>2. V \in Good
  <2> HIDE DEF Good
  <2>. QED BY <1>1, SetInduction
<1>. QED BY <1>2

(* Every finite set has a solution: the solutions of its proper subsets,   *)
(* read at those subsets, make one for it.                                 *)
LEMMA SolutionExists ==
  ASSUME NEW f, NEW S, IsFiniteSet(S)
  PROVE  Solves(Solution(f, S), f, S)
<1> DEFINE Good == {U \in SUBSET S : Solves(Solution(f, U), f, U)}
           val(s) == Solution(f, s)[s]
<1>1. ASSUME NEW m \in SUBSET S, \A U \in SUBSET m : U # m => U \in Good
      PROVE  m \in Good
  <2> DEFINE g == [s \in SUBSET m |->
                     IF s = {} THEN 0 ELSE f[Pick(s)] + val(s \ {Pick(s)})]
  <2>1. ASSUME NEW s \in SUBSET m, s # m
        PROVE  val(s) = g[s]
    <3>1. Solves(Solution(f, s), f, s)
      BY <1>1, <2>1
    <3>2. val(s) = IF s = {} THEN 0 ELSE f[Pick(s)] + Solution(f, s)[s \ {Pick(s)}]
      <4>1. s \in SUBSET s
        OBVIOUS
      <4>. QED BY <3>1, <4>1, Zenon DEF Solves
    <3>3. ASSUME s # {}
          PROVE  Solution(f, s)[s \ {Pick(s)}] = val(s \ {Pick(s)})
      <4> DEFINE t == s \ {Pick(s)}
      <4>1. t \in SUBSET m /\ t # m /\ t \subseteq s
        BY <2>1
      <4>2. Solves(Solution(f, t), f, t)
        BY <4>1, <1>1
      <4>3. IsFiniteSet(t)
        BY <4>1, FS_Subset
      <4> HIDE DEF t
      <4>4. Solution(f, s)[t] = Solution(f, t)[t]
        BY <3>1, <4>1, <4>2, <4>3, SolutionsAgree
      <4>. QED BY <4>4 DEF t
    <3>. QED BY <3>2, <3>3
  <2>2. \A s \in SUBSET m : s # {} => val(s \ {Pick(s)}) = g[s \ {Pick(s)}]
    <3>1. \A s \in SUBSET m : s # {} => s \ {Pick(s)} \in SUBSET m /\ s \ {Pick(s)} # m
      BY PickIn
    <3> HIDE DEF g, val
    <3>. QED BY <2>1, <3>1
  <2>3. \A s \in SUBSET m :
           (IF s = {} THEN 0 ELSE f[Pick(s)] + val(s \ {Pick(s)}))
             = (IF s = {} THEN 0 ELSE f[Pick(s)] + g[s \ {Pick(s)}])
    <3> HIDE DEF g, val
    <3>. QED BY <2>2
  <2>4. g = [s \in SUBSET m |-> IF s = {} THEN 0 ELSE f[Pick(s)] + g[s \ {Pick(s)}]]
    <3> HIDE DEF val
    <3>. QED BY <2>3, Zenon
  <2>5. \E h : Solves(h, f, m)
    BY <2>4 DEF Solves
  <2>6. Solves(Solution(f, m), f, m)
    BY <2>5, Zenon DEF Solution
  <2>. QED BY <2>6
<1>2. S \in Good
  <2> HIDE DEF Good
  <2>. QED BY <1>1, SetInduction
<1>. QED BY <1>2

(* The recursive equation of the sum. *)
LEMMA SumEquation ==
  ASSUME NEW f, NEW S, IsFiniteSet(S)
  PROVE  SumFunctionOnSet(f, S)
           = IF S = {} THEN 0 ELSE f[Pick(S)] + SumFunctionOnSet(f, S \ {Pick(S)})
<1> DEFINE T == S \ {Pick(S)}
<1>1. IsFiniteSet(T) /\ T \subseteq S
  BY FS_Subset
<1>2. Solves(Solution(f, S), f, S) /\ Solves(Solution(f, T), f, T)
  BY <1>1, SolutionExists
<1>3. Solution(f, S)[T] = Solution(f, T)[T]
  BY <1>1, <1>2, SolutionsAgree
<1>4. Solution(f, S)[S] = IF S = {} THEN 0 ELSE f[Pick(S)] + Solution(f, S)[T]
  <2>1. S \in SUBSET S
    OBVIOUS
  <2>. QED BY <1>2, <2>1, Zenon DEF Solves
<1>. QED BY <1>3, <1>4, SumIsChosen

-----------------------------------------------------------------------------
(***************************************************************************)
(* What the other modules use.                                             *)
(***************************************************************************)
(* The sum over no index is zero. *)
LEMMA SumEmpty == ASSUME NEW f PROVE SumFunctionOnSet(f, {}) = 0
BY SumEquation, FS_EmptySet

(* A sum of naturals is a natural. *)
LEMMA SumType ==
  ASSUME NEW f, NEW S, IsFiniteSet(S), \A x \in S : f[x] \in Nat
  PROVE  SumFunctionOnSet(f, S) \in Nat
<1> DEFINE Good == {U \in SUBSET S : SumFunctionOnSet(f, U) \in Nat}
<1>1. ASSUME NEW m \in SUBSET S, \A U \in SUBSET m : U # m => U \in Good
      PROVE  m \in Good
  <2>1. CASE m = {}
    BY <2>1, SumEmpty
  <2>2. CASE m # {}
    <3>1. Pick(m) \in m
      BY <2>2, PickIn
    <3>2. SumFunctionOnSet(f, m \ {Pick(m)}) \in Nat
      BY <1>1, <3>1
    <3>3. IsFiniteSet(m)
      BY FS_Subset
    <3>. QED BY <2>2, <3>1, <3>2, <3>3, SumEquation
  <2>. QED BY <2>1, <2>2
<1>2. S \in Good
  <2> HIDE DEF Good
  <2>. QED BY <1>1, SetInduction
<1>. QED BY <1>2

(* Any element, not only the one the fold picks, may be taken out first. *)
LEMMA SumRemove ==
  ASSUME NEW f, NEW S, IsFiniteSet(S), \A x \in S : f[x] \in Nat, NEW e \in S
  PROVE  SumFunctionOnSet(f, S) = f[e] + SumFunctionOnSet(f, S \ {e})
<1> DEFINE sum(U) == SumFunctionOnSet(f, U)
           Good == {U \in SUBSET S : \A x \in U : sum(U) = f[x] + sum(U \ {x})}
<1>1. ASSUME NEW m \in SUBSET S, \A U \in SUBSET m : U # m => U \in Good, NEW x \in m
      PROVE  sum(m) = f[x] + sum(m \ {x})
  <2> DEFINE p == Pick(m)
  <2>1. p \in m /\ IsFiniteSet(m)
    BY <1>1, PickIn, FS_Subset
  <2>2. sum(m) = f[p] + sum(m \ {p})
    BY <2>1, <1>1, SumEquation
  <2>3. CASE x = p
    BY <2>2, <2>3
  <2>4. CASE x # p
    <3>1. sum(m \ {p}) = f[x] + sum((m \ {p}) \ {x})
      BY <2>1, <2>4, <1>1
    <3>2. sum(m \ {x}) = f[p] + sum((m \ {x}) \ {p})
      BY <2>1, <2>4, <1>1
    <3>3. (m \ {p}) \ {x} = (m \ {x}) \ {p}
      OBVIOUS
    <3>4. sum((m \ {p}) \ {x}) \in Nat
      BY <2>1, FS_Subset, SumType
    <3>5. f[p] \in Nat /\ f[x] \in Nat
      BY <2>1, <1>1
    <3>. QED
      <4> HIDE DEF sum, p
      <4>. QED BY <2>2, <3>1, <3>2, <3>3, <3>4, <3>5
  <2>. QED BY <2>3, <2>4
<1>2. S \in Good
  <2>1. \A T \in SUBSET S : (\A U \in SUBSET T : U # T => U \in Good) => T \in Good
    BY <1>1
  <2> HIDE DEF Good
  <2>. QED BY <2>1, SetInduction
<1>. QED BY <1>2

(* The sum depends on the values at the indices alone. *)
LEMMA SumSame ==
  ASSUME NEW f, NEW g, NEW S, IsFiniteSet(S), \A x \in S : f[x] = g[x]
  PROVE  SumFunctionOnSet(f, S) = SumFunctionOnSet(g, S)
<1> DEFINE Good == {U \in SUBSET S : SumFunctionOnSet(f, U) = SumFunctionOnSet(g, U)}
<1>1. ASSUME NEW m \in SUBSET S, \A U \in SUBSET m : U # m => U \in Good
      PROVE  m \in Good
  <2>1. CASE m = {}
    BY <2>1, SumEmpty
  <2>2. CASE m # {}
    <3>1. Pick(m) \in m /\ IsFiniteSet(m)
      BY <2>2, PickIn, FS_Subset
    <3>2. SumFunctionOnSet(f, m \ {Pick(m)}) = SumFunctionOnSet(g, m \ {Pick(m)})
      BY <1>1, <3>1
    <3>. QED BY <2>2, <3>1, <3>2, SumEquation
  <2>. QED BY <2>1, <2>2
<1>2. S \in Good
  <2> HIDE DEF Good
  <2>. QED BY <1>1, SetInduction
<1>. QED BY <1>2

(* Summands that are no larger make a sum that is no larger. *)
LEMMA SumMonotone ==
  ASSUME NEW f, NEW g, NEW S, IsFiniteSet(S),
         \A x \in S : f[x] \in Nat /\ g[x] \in Nat /\ f[x] <= g[x]
  PROVE  SumFunctionOnSet(f, S) <= SumFunctionOnSet(g, S)
<1> DEFINE sf(U) == SumFunctionOnSet(f, U)
           sg(U) == SumFunctionOnSet(g, U)
           Good == {U \in SUBSET S : sf(U) <= sg(U)}
<1>1. ASSUME NEW m \in SUBSET S, \A U \in SUBSET m : U # m => U \in Good
      PROVE  sf(m) <= sg(m)
  <2>1. CASE m = {}
    BY <2>1, SumEmpty
  <2>2. CASE m # {}
    <3> DEFINE p == Pick(m)
               r == m \ {p}
    <3>1. p \in m /\ IsFiniteSet(m) /\ IsFiniteSet(r)
      BY <2>2, PickIn, FS_Subset
    <3>2. sf(m) = f[p] + sf(r) /\ sg(m) = g[p] + sg(r)
      BY <2>2, <3>1, SumEquation
    <3>3. sf(r) <= sg(r)
      BY <1>1, <3>1
    <3>4. sf(r) \in Nat /\ sg(r) \in Nat
      BY <3>1, SumType
    <3>5. f[p] \in Nat /\ g[p] \in Nat /\ f[p] <= g[p]
      BY <3>1
    <3> HIDE DEF sf, sg, p, r
    <3>. QED BY <3>2, <3>3, <3>4, <3>5
  <2>. QED BY <2>1, <2>2
<1>2. S \in Good
  <2>1. \A T \in SUBSET S : (\A U \in SUBSET T : U # T => U \in Good) => T \in Good
    BY <1>1
  <2> HIDE DEF Good
  <2>. QED BY <2>1, SetInduction
<1>. QED BY <1>2

(* The sum of a pointwise sum is the sum of the sums. *)
LEMMA SumPlus ==
  ASSUME NEW f, NEW g, NEW h, NEW S, IsFiniteSet(S),
         \A x \in S : f[x] \in Nat /\ g[x] \in Nat /\ h[x] = f[x] + g[x]
  PROVE  SumFunctionOnSet(h, S) = SumFunctionOnSet(f, S) + SumFunctionOnSet(g, S)
<1> DEFINE sf(U) == SumFunctionOnSet(f, U)
           sg(U) == SumFunctionOnSet(g, U)
           sh(U) == SumFunctionOnSet(h, U)
           Good == {U \in SUBSET S : sh(U) = sf(U) + sg(U)}
<1>1. ASSUME NEW m \in SUBSET S, \A U \in SUBSET m : U # m => U \in Good
      PROVE  sh(m) = sf(m) + sg(m)
  <2>1. CASE m = {}
    BY <2>1, SumEmpty
  <2>2. CASE m # {}
    <3> DEFINE p == Pick(m)
               r == m \ {p}
    <3>1. p \in m /\ IsFiniteSet(m) /\ IsFiniteSet(r)
      BY <2>2, PickIn, FS_Subset
    <3>2. sf(m) = f[p] + sf(r) /\ sg(m) = g[p] + sg(r) /\ sh(m) = h[p] + sh(r)
      BY <2>2, <3>1, SumEquation
    <3>3. sh(r) = sf(r) + sg(r)
      BY <1>1, <3>1
    <3>4. sf(r) \in Nat /\ sg(r) \in Nat
      BY <3>1, SumType
    <3>5. f[p] \in Nat /\ g[p] \in Nat /\ h[p] = f[p] + g[p]
      BY <3>1
    <3> HIDE DEF sf, sg, sh, p, r
    <3>. QED BY <3>2, <3>3, <3>4, <3>5
  <2>. QED BY <2>1, <2>2
<1>2. S \in Good
  <2>1. \A T \in SUBSET S : (\A U \in SUBSET T : U # T => U \in Good) => T \in Good
    BY <1>1
  <2> HIDE DEF Good
  <2>. QED BY <2>1, SetInduction
<1>. QED BY <1>2

(* A part of the indices sums to no more than all of them. *)
LEMMA SumSubset ==
  ASSUME NEW f, NEW S, IsFiniteSet(S), \A x \in S : f[x] \in Nat, NEW T \in SUBSET S
  PROVE  SumFunctionOnSet(f, T) <= SumFunctionOnSet(f, S)
<1> DEFINE sum(U) == SumFunctionOnSet(f, U)
           Good == {U \in SUBSET S : sum(T \cap U) <= sum(U)}
<1>1. ASSUME NEW m \in SUBSET S, \A U \in SUBSET m : U # m => U \in Good
      PROVE  sum(T \cap m) <= sum(m)
  <2>1. CASE m = {}
    <3>1. T \cap m = {}
      BY <2>1
    <3>. QED BY <2>1, <3>1, SumEmpty
  <2>2. CASE m # {}
    <3>1. PICK p \in m : TRUE
      BY <2>2
    <3> DEFINE r == m \ {p}
               tm == T \cap m
               tr == T \cap r
    <3>2. IsFiniteSet(m) /\ IsFiniteSet(r) /\ IsFiniteSet(tm) /\ IsFiniteSet(tr)
      BY FS_Subset
    <3>3. sum(m) = f[p] + sum(r)
      BY <3>2, SumRemove
    <3>4. sum(tr) <= sum(r)
      BY <1>1
    <3>5. sum(r) \in Nat /\ sum(tr) \in Nat /\ f[p] \in Nat
      BY <3>2, SumType
    <3>6. CASE p \in T
      <4>1. sum(tm) = f[p] + sum(tm \ {p}) /\ tm \ {p} = tr
        BY <3>2, <3>6, SumRemove
      <4>2. sum(tm) = f[p] + sum(tr)
        BY <4>1
      <4> HIDE DEF sum, r, tm, tr
      <4>3. sum(tm) <= sum(m)
        BY <3>3, <3>4, <3>5, <4>2
      <4>. QED BY <4>3 DEF tm
    <3>7. CASE p \notin T
      <4>1. sum(tm) = sum(tr)
        <5>1. tm = tr
          BY <3>7
        <5>. QED BY <5>1
      <4> HIDE DEF sum, r, tm, tr
      <4>2. sum(tm) <= sum(m)
        BY <3>3, <3>4, <3>5, <4>1
      <4>. QED BY <4>2 DEF tm
    <3>. QED BY <3>6, <3>7
  <2>. QED BY <2>1, <2>2
<1>2. S \in Good
  <2>1. \A V \in SUBSET S : (\A U \in SUBSET V : U # V => U \in Good) => V \in Good
    BY <1>1
  <2> HIDE DEF Good
  <2>. QED BY <2>1, SetInduction
<1>3. T \cap S = T
  OBVIOUS
<1>. QED BY <1>2, <1>3

(* Changing the value at one index changes the sum by the same amount. *)
LEMMA SumUpdate ==
  ASSUME NEW f, NEW g, NEW S, IsFiniteSet(S), NEW e \in S,
         \A x \in S : f[x] \in Nat /\ g[x] \in Nat,
         \A x \in S \ {e} : f[x] = g[x]
  PROVE  SumFunctionOnSet(g, S) + f[e] = SumFunctionOnSet(f, S) + g[e]
<1>1. IsFiniteSet(S \ {e})
  BY FS_Subset
<1>2. SumFunctionOnSet(f, S \ {e}) = SumFunctionOnSet(g, S \ {e})
  BY <1>1, SumSame
<1>3. SumFunctionOnSet(f, S \ {e}) \in Nat
  BY <1>1, SumType
<1>. QED BY <1>2, <1>3, SumRemove

(* A sum of naturals is zero exactly when every summand is. *)
LEMMA SumZero ==
  ASSUME NEW f, NEW S, IsFiniteSet(S), \A x \in S : f[x] \in Nat
  PROVE  SumFunctionOnSet(f, S) = 0 <=> \A x \in S : f[x] = 0
<1>1. ASSUME SumFunctionOnSet(f, S) = 0, NEW x \in S
      PROVE  f[x] = 0
  <2>1. SumFunctionOnSet(f, S) = f[x] + SumFunctionOnSet(f, S \ {x})
    BY SumRemove
  <2>2. IsFiniteSet(S \ {x})
    BY FS_Subset
  <2>3. SumFunctionOnSet(f, S \ {x}) \in Nat
    BY <2>2, SumType
  <2>. QED BY <1>1, <2>1, <2>3
<1>2. ASSUME \A x \in S : f[x] = 0
      PROVE  SumFunctionOnSet(f, S) = 0
  <2> DEFINE Good == {U \in SUBSET S : SumFunctionOnSet(f, U) = 0}
  <2>1. ASSUME NEW m \in SUBSET S, \A U \in SUBSET m : U # m => U \in Good
        PROVE  m \in Good
    <3>1. CASE m = {}
      BY <3>1, SumEmpty
    <3>2. CASE m # {}
      <4>1. Pick(m) \in m /\ IsFiniteSet(m)
        BY <3>2, PickIn, FS_Subset
      <4>2. SumFunctionOnSet(f, m \ {Pick(m)}) = 0
        BY <2>1, <4>1
      <4>. QED BY <3>2, <4>1, <4>2, <1>2, SumEquation
    <3>. QED BY <3>1, <3>2
  <2>2. S \in Good
    <3> HIDE DEF Good
    <3>. QED BY <2>1, SetInduction
  <2>. QED BY <2>2
<1>. QED BY <1>1, <1>2

(* The sum over a set is the sum over a part of it and the sum over the rest. *)
LEMMA SumSplit ==
  ASSUME NEW f, NEW S, IsFiniteSet(S), \A x \in S : f[x] \in Nat, NEW T \in SUBSET S
  PROVE  SumFunctionOnSet(f, S) = SumFunctionOnSet(f, T) + SumFunctionOnSet(f, S \ T)
<1> DEFINE sum(U) == SumFunctionOnSet(f, U)
           Good == {U \in SUBSET S : sum(U) = sum(U \cap T) + sum(U \ T)}
<1>1. ASSUME NEW m \in SUBSET S, \A U \in SUBSET m : U # m => U \in Good
      PROVE  sum(m) = sum(m \cap T) + sum(m \ T)
  <2>1. CASE m = {}
    <3>1. m \cap T = {} /\ m \ T = {}
      BY <2>1
    <3>. QED BY <2>1, <3>1, SumEmpty
  <2>2. CASE m # {}
    <3>1. PICK p \in m : TRUE
      BY <2>2
    <3> DEFINE r == m \ {p}
               mi == m \cap T
               mo == m \ T
               ri == r \cap T
               ro == r \ T
    <3>2. IsFiniteSet(m) /\ IsFiniteSet(mi) /\ IsFiniteSet(mo)
          /\ IsFiniteSet(ri) /\ IsFiniteSet(ro)
      BY FS_Subset
    <3>3. sum(m) = f[p] + sum(r)
      BY <3>2, SumRemove
    <3>4. sum(r) = sum(ri) + sum(ro)
      BY <1>1
    <3>5. sum(ri) \in Nat /\ sum(ro) \in Nat /\ f[p] \in Nat
      BY <3>2, SumType
    <3>6. sum(mi) + sum(mo) = f[p] + sum(ri) + sum(ro)
      <4>1. CASE p \in T
        <5>1. sum(mi) = f[p] + sum(mi \ {p}) /\ mi \ {p} = ri /\ mo = ro
          BY <3>2, <4>1, SumRemove
        <5>2. sum(mi) = f[p] + sum(ri) /\ sum(mo) = sum(ro)
          BY <5>1
        <5> HIDE DEF sum, r, mi, mo, ri, ro
        <5>. QED BY <3>5, <5>2
      <4>2. CASE p \notin T
        <5>1. sum(mo) = f[p] + sum(mo \ {p}) /\ mo \ {p} = ro /\ mi = ri
          BY <3>2, <4>2, SumRemove
        <5>2. sum(mo) = f[p] + sum(ro) /\ sum(mi) = sum(ri)
          BY <5>1
        <5> HIDE DEF sum, r, mi, mo, ri, ro
        <5>. QED BY <3>5, <5>2
      <4>. QED BY <4>1, <4>2
    <3>7. sum(m) = sum(mi) + sum(mo)
      <4> HIDE DEF sum, r, mi, mo, ri, ro
      <4>. QED BY <3>3, <3>4, <3>5, <3>6
    <3>. QED BY <3>7
  <2>. QED BY <2>1, <2>2
<1>2. S \in Good
  <2>1. \A V \in SUBSET S : (\A U \in SUBSET V : U # V => U \in Good) => V \in Good
    BY <1>1
  <2> HIDE DEF Good
  <2>. QED BY <2>1, SetInduction
<1>3. S \cap T = T
  OBVIOUS
<1>. QED BY <1>2, <1>3

(* Naming the indices otherwise leaves the sum as it is. *)
LEMMA SumReindex ==
  ASSUME NEW f, NEW g, NEW S, IsFiniteSet(S), NEW T, IsFiniteSet(T), NEW pi,
         \A x \in S : pi[x] \in T /\ g[x] = f[pi[x]] /\ f[pi[x]] \in Nat,
         \A x, y \in S : pi[x] = pi[y] => x = y
  PROVE  SumFunctionOnSet(g, S) = SumFunctionOnSet(f, {pi[x] : x \in S})
<1> DEFINE image(U) == {pi[x] : x \in U}
           Good == {U \in SUBSET S : SumFunctionOnSet(g, U) = SumFunctionOnSet(f, image(U))}
<1>1. ASSUME NEW m \in SUBSET S, \A U \in SUBSET m : U # m => U \in Good
      PROVE  SumFunctionOnSet(g, m) = SumFunctionOnSet(f, image(m))
  <2>1. CASE m = {}
    <3>1. image(m) = {}
      BY <2>1
    <3>. QED BY <2>1, <3>1, SumEmpty
  <2>2. CASE m # {}
    <3>1. PICK p \in m : TRUE
      BY <2>2
    <3> DEFINE r == m \ {p}
    <3>2. IsFiniteSet(m)
      BY FS_Subset
    <3>3. IsFiniteSet(image(m)) /\ pi[p] \in image(m) /\ \A y \in image(m) : f[y] \in Nat
      <4>1. image(m) \in SUBSET T
        OBVIOUS
      <4>2. IsFiniteSet(image(m))
        <5> HIDE DEF image
        <5>. QED BY <4>1, FS_Subset
      <4>. QED BY <4>2
    <3>4. image(m) \ {pi[p]} = image(r)
      BY <3>1
    <3>5. SumFunctionOnSet(g, m) = g[p] + SumFunctionOnSet(g, r)
      BY <3>2, SumRemove
    <3>6. SumFunctionOnSet(f, image(m)) = f[pi[p]] + SumFunctionOnSet(f, image(r))
      <4> DEFINE q == pi[p]
                 U == image(m)
      <4>1. IsFiniteSet(U) /\ q \in U /\ \A y \in U : f[y] \in Nat
        BY <3>3
      <4>2. SumFunctionOnSet(f, U) = f[q] + SumFunctionOnSet(f, U \ {q})
        <5> HIDE DEF q, U
        <5>. QED BY <4>1, SumRemove
      <4>3. U \ {q} = image(r)
        BY <3>4
      <4>. QED BY <4>2, <4>3
    <3>7. SumFunctionOnSet(g, r) = SumFunctionOnSet(f, image(r))
      BY <1>1
    <3>8. g[p] = f[pi[p]]
      OBVIOUS
    <3>. QED BY <3>5, <3>6, <3>7, <3>8
  <2>. QED BY <2>1, <2>2
<1>2. S \in Good
  <2>1. \A V \in SUBSET S : (\A U \in SUBSET V : U # V => U \in Good) => V \in Good
    BY <1>1
  <2> HIDE DEF Good
  <2>. QED BY <2>1, SetInduction
<1>. QED BY <1>2
=============================================================================
