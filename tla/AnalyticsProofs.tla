--------------------------- MODULE AnalyticsProofs ---------------------------
(***************************************************************************)
(* Theorems about Analytics.  The views of each goroutine that flushes are *)
(* summed over the goroutines, and the views of each key over the keys:    *)
(* with the lemmas of Sums a step of Flush moves a summand from one column *)
(* of Ledger to another.  What a dashboard is owed (Owed) follows its      *)
(* flush from place to place; and the age of what is cached is told by the *)
(* ticks whose rows it has (Aged).                                         *)
(*                                                                         *)
(* The second half is about Visits, the other state that a page view       *)
(* reaches: VisitsInv tells where the tracker has each visitor, what each  *)
(* date has spent of its paths, and which minute each bucket counts.       *)
(***************************************************************************)
EXTENDS Analytics, Visits, Sums
-----------------------------------------------------------------------------
(* The inductive invariants.                                               *)

\* The books in views: the totals of the columns of Ledger.
Conserved ==
  Views(received) = Views(pending) + SumFunctionOnSet(inHand, Flushers)
                    + Views(table) + Views(lost)

\* How far a viewer has come with the views it was promised: mark of them.
Owed(v) ==
  /\ at[v] \in {"lookup", "flush"} => mark[v] <= Views(received)
  /\ at[v] = "write" =>
       mark[v] <= Views(table) + Views(lost) + excused[v] + inHand[v]
  /\ at[v] \in {"restore", "invalidate", "query"} =>
       mark[v] <= Views(table) + Views(lost) + excused[v]
  /\ at[v] \in {"groups", "store"} =>
       mark[v] <= answer[v].views + Views(lost) + excused[v]

Fresh == \A v \in Viewers : Owed(v)

\* What is cached has the rows of every tick up to the one at which the viewer
\* that filled the cache was asked; so has what a viewer has queried.
AgedAnswer(v) ==
  /\ asked[v] <= now
  /\ at[v] \in {"groups", "store"} =>
       \A t \in 0..MaxTime : t <= asked[v] => snapshot[t] <= answer[v].views

AgedCache ==
  cached # None =>
    /\ cachedUntil <= now + CacheTTL
    /\ \A t \in 0..MaxTime : t + CacheTTL < cachedUntil => snapshot[t] <= cached.views

Aged ==
  /\ \A t \in 0..MaxTime : snapshot[t] <= Views(table)
  /\ \A v \in Viewers : AgedAnswer(v)
  /\ AgedCache

IInv == TypeOK /\ Conserved /\ Fresh /\ Aged
-----------------------------------------------------------------------------
(* Tallies.                                                                *)

LEMMA ViewsType ==
  ASSUME NEW f \in Tally
  PROVE  Views(f) \in Nat /\ Views(f) = SumFunctionOnSet(f, Keys)
<1>1. IsFiniteSet(Keys) /\ DOMAIN f = Keys /\ \A k \in Keys : f[k] \in Nat
  BY AnalyticsAssumption DEF Tally
<1>2. SumFunctionOnSet(f, Keys) \in Nat
  BY <1>1, SumType
<1> QED  BY <1>1, <1>2 DEF Views, SumFunction

LEMMA ViewsPlus ==
  ASSUME NEW f \in Tally, NEW g \in Tally
  PROVE  Plus(f, g) \in Tally /\ Views(Plus(f, g)) = Views(f) + Views(g)
<1> DEFINE h == Plus(f, g)
<1>1. h \in Tally /\ \A k \in Keys : h[k] = f[k] + g[k]
  BY DEF Plus, Tally
<1>2. IsFiniteSet(Keys) /\ \A k \in Keys : f[k] \in Nat /\ g[k] \in Nat
  BY AnalyticsAssumption DEF Tally
<1> HIDE DEF h
<1>3. SumFunctionOnSet(h, Keys) = SumFunctionOnSet(f, Keys) + SumFunctionOnSet(g, Keys)
  BY <1>1, <1>2, SumPlus
<1>4. /\ Views(f) = SumFunctionOnSet(f, Keys) /\ Views(g) = SumFunctionOnSet(g, Keys)
      /\ Views(h) = SumFunctionOnSet(h, Keys)
  BY <1>1, ViewsType
<1> QED  BY <1>1, <1>3, <1>4 DEF h

LEMMA ViewsZero == Zero \in Tally /\ Views(Zero) = 0
<1>1. Zero \in Tally /\ \A k \in Keys : Zero[k] = 0
  BY DEF Zero, Tally
<1>2. IsFiniteSet(Keys) /\ \A k \in Keys : Zero[k] \in Nat
  BY <1>1, AnalyticsAssumption
<1>3. SumFunctionOnSet(Zero, Keys) = 0
  BY <1>1, <1>2, SumZero
<1> QED  BY <1>1, <1>3, ViewsType

LEMMA ViewsOne ==
  ASSUME NEW f \in Tally, NEW k \in Keys
  PROVE  /\ [f EXCEPT ![k] = @ + 1] \in Tally
         /\ Views([f EXCEPT ![k] = @ + 1]) = Views(f) + 1
<1> DEFINE g == [f EXCEPT ![k] = @ + 1]
<1>1. g \in Tally /\ g[k] = f[k] + 1 /\ \A x \in Keys \ {k} : f[x] = g[x]
  BY DEF Tally
<1>2. IsFiniteSet(Keys) /\ \A x \in Keys : f[x] \in Nat /\ g[x] \in Nat
  BY <1>1, AnalyticsAssumption DEF Tally
<1> HIDE DEF g
<1>3. SumFunctionOnSet(g, Keys) + f[k] = SumFunctionOnSet(f, Keys) + g[k]
  BY <1>1, <1>2, SumUpdate
<1>4. /\ Views(f) = SumFunctionOnSet(f, Keys) /\ Views(g) = SumFunctionOnSet(g, Keys)
      /\ Views(f) \in Nat /\ Views(g) \in Nat
  BY <1>1, ViewsType
<1>5. Views(g) = Views(f) + 1
  BY <1>1, <1>2, <1>3, <1>4
<1> QED  BY <1>1, <1>5 DEF g

LEMMA EmptyIsZero ==
  ASSUME NEW f \in Tally, entries(f) = {}
  PROVE  f = Zero
<1>1. \A k \in Keys : f[k] \in Nat /\ ~(f[k] > 0)
  BY DEF entries, Tally
<1>2. \A k \in Keys : f[k] = 0
  BY <1>1
<1> QED  BY <1>2 DEF Tally, Zero

\* restore divides the batch: every view is kept or dropped.
LEMMA Divided ==
  ASSUME NEW b \in Tally, NEW p \in Tally,
         NEW S \in SUBSET (entries(b) \ entries(p))
  PROVE  LET kept    == Part(b, S \cup entries(p))
             dropped == Part(b, (entries(b) \ entries(p)) \ S)
         IN  kept \in Tally /\ dropped \in Tally /\ Plus(kept, dropped) = b
<1> DEFINE kept == Part(b, S \cup entries(p))
           dropped == Part(b, (entries(b) \ entries(p)) \ S)
<1>1. kept \in Tally /\ dropped \in Tally
  BY DEF Part, Tally
<1>2. \A k \in Keys : k \notin entries(b) => b[k] = 0
  BY DEF entries, Tally
<1>3. \A k \in Keys : kept[k] + dropped[k] = b[k]
  <2> SUFFICES ASSUME NEW k \in Keys PROVE kept[k] + dropped[k] = b[k]
    OBVIOUS
  <2>1. b[k] \in Nat
    BY DEF Tally
  <2>2. kept[k] = IF k \in S \cup entries(p) THEN b[k] ELSE 0
    BY DEF Part
  <2>3. dropped[k] = IF k \in (entries(b) \ entries(p)) \ S THEN b[k] ELSE 0
    BY DEF Part
  <2> HIDE DEF kept, dropped
  <2> QED  BY <1>2, <2>1, <2>2, <2>3
<1> HIDE DEF kept, dropped
<1>4. Plus(kept, dropped) = b
  BY <1>3 DEF Plus, Tally
<1> QED  BY <1>1, <1>4 DEF kept, dropped
-----------------------------------------------------------------------------
(* What the goroutines have in hand.                                       *)

LEMMA FlushersFinite == IsFiniteSet(Flushers)
<1>1. IsFiniteSet({"worker", "close"})
  <2>1. IsFiniteSet({"close"}) /\ {"worker", "close"} = {"close"} \cup {"worker"}
    BY FS_Singleton
  <2> QED  BY <2>1, FS_AddElement
<1> QED  BY <1>1, AnalyticsAssumption, FS_Union DEF Flushers

LEMMA InHandType ==
  ASSUME batch \in [Flushers -> Tally]
  PROVE  /\ inHand \in [Flushers -> Nat]
         /\ SumFunctionOnSet(inHand, Flushers) \in Nat
         /\ \A k \in Keys : SumFunctionOnSet(drained(k), Flushers) \in Nat
<1>1. inHand \in [Flushers -> Nat]
  BY ViewsType DEF inHand
<1>2. SumFunctionOnSet(inHand, Flushers) \in Nat
  <2>1. \A f \in Flushers : inHand[f] \in Nat
    BY <1>1
  <2> HIDE DEF inHand
  <2> QED  BY <2>1, FlushersFinite, SumType
<1>3. ASSUME NEW k \in Keys PROVE SumFunctionOnSet(drained(k), Flushers) \in Nat
  <2>1. \A f \in Flushers : drained(k)[f] \in Nat
    BY DEF drained, Tally
  <2> HIDE DEF drained
  <2> QED  BY <2>1, FlushersFinite, SumType
<1> QED  BY <1>1, <1>2, <1>3

\* A goroutine's batch becomes b.
LEMMA HandMoves ==
  ASSUME batch \in [Flushers -> Tally], NEW f \in Flushers, NEW b \in Tally,
         batch' = [batch EXCEPT ![f] = b]
  PROVE  /\ batch' \in [Flushers -> Tally]
         /\ SumFunctionOnSet(inHand, Flushers)' + Views(batch[f])
              = SumFunctionOnSet(inHand, Flushers) + Views(b)
         /\ SumFunctionOnSet(inHand, Flushers) \in Nat
         /\ SumFunctionOnSet(inHand, Flushers)' \in Nat
         /\ inHand' = [inHand EXCEPT ![f] = Views(b)]
<1>1. batch' \in [Flushers -> Tally]
  OBVIOUS
<1>2. inHand' = [inHand EXCEPT ![f] = Views(b)] /\ inHand[f] = Views(batch[f])
  BY DEF inHand
<1> DEFINE g == inHand'
<1>3. /\ inHand \in [Flushers -> Nat] /\ g \in [Flushers -> Nat]
      /\ SumFunctionOnSet(inHand, Flushers) \in Nat
      /\ SumFunctionOnSet(g, Flushers) \in Nat
  <2>1. Views(b) \in Nat
    BY ViewsType
  <2>2. inHand \in [Flushers -> Nat] /\ SumFunctionOnSet(inHand, Flushers) \in Nat
    BY InHandType
  <2>3. g \in [Flushers -> Nat]
    BY <1>2, <2>1, <2>2
  <2>4. \A x \in Flushers : g[x] \in Nat
    BY <2>3
  <2> HIDE DEF g
  <2>5. SumFunctionOnSet(g, Flushers) \in Nat
    BY <2>4, FlushersFinite, SumType
  <2> QED  BY <2>2, <2>3, <2>5
<1>4. /\ \A x \in Flushers : inHand[x] \in Nat /\ g[x] \in Nat
      /\ \A x \in Flushers \ {f} : inHand[x] = g[x]
      /\ g[f] = Views(b)
  BY <1>2, <1>3
<1> HIDE DEF g, inHand
<1>5. SumFunctionOnSet(g, Flushers) + inHand[f]
        = SumFunctionOnSet(inHand, Flushers) + g[f]
  BY <1>4, FlushersFinite, SumUpdate
<1> QED  BY <1>1, <1>2, <1>3, <1>4, <1>5 DEF g

LEMMA KeyMoves ==
  ASSUME batch \in [Flushers -> Tally], NEW f \in Flushers, NEW b \in Tally,
         batch' = [batch EXCEPT ![f] = b], NEW k \in Keys
  PROVE  /\ SumFunction(drained(k)') + batch[f][k] = SumFunction(drained(k)) + b[k]
         /\ SumFunction(drained(k)) \in Nat /\ SumFunction(drained(k)') \in Nat
<1> DEFINE h == drained(k)
           g == drained(k)'
<1>1. /\ DOMAIN h = Flushers /\ DOMAIN g = Flushers
      /\ \A x \in Flushers : h[x] = batch[x][k] /\ g[x] = batch'[x][k]
  BY DEF drained
<1>2. /\ \A x \in Flushers : batch[x][k] \in Nat /\ batch'[x][k] \in Nat
      /\ \A x \in Flushers \ {f} : batch[x][k] = batch'[x][k]
      /\ batch'[f][k] = b[k]
  BY DEF Tally
<1> HIDE DEF h, g
<1>3. /\ \A x \in Flushers : h[x] \in Nat /\ g[x] \in Nat
      /\ \A x \in Flushers \ {f} : h[x] = g[x]
      /\ h[f] = batch[f][k] /\ g[f] = b[k]
  BY <1>1, <1>2
<1>4. SumFunctionOnSet(g, Flushers) + h[f] = SumFunctionOnSet(h, Flushers) + g[f]
  BY <1>3, FlushersFinite, SumUpdate
<1>5. SumFunctionOnSet(g, Flushers) \in Nat /\ SumFunctionOnSet(h, Flushers) \in Nat
  BY <1>3, FlushersFinite, SumType
<1>6. SumFunction(g) + h[f] = SumFunction(h) + g[f]
  BY <1>1, <1>4 DEF SumFunction
<1> QED  BY <1>1, <1>3, <1>5, <1>6 DEF g, h, SumFunction
-----------------------------------------------------------------------------
(* Types, and who holds a batch.                                           *)

Place == {"idle", "write", "restore", "invalidate", "stopped", "stopping",
          "closed", "lookup", "flush", "query", "groups", "store"}

LEMMA NextPlace ==
  ASSUME NEW f \in Flushers
  PROVE  /\ next(f) \in Place \ {"write", "restore", "lookup", "flush", "groups", "store"}
         /\ f \in Viewers => next(f) = "query"
BY AnalyticsAssumption DEF next, Place, Flushers

\* A goroutine goes on with a batch b that it holds where batches are held.
LEMMA Goes ==
  ASSUME TypeOK, NEW f \in Flushers, NEW x \in Place, NEW b \in Tally,
         at' = [at EXCEPT ![f] = x], batch' = [batch EXCEPT ![f] = b],
         x \in {"write", "restore"} \/ b = Zero
  PROVE  /\ at' \in [Flushers -> Place] /\ batch' \in [Flushers -> Tally]
         /\ \A g \in Flushers : at'[g] \notin {"write", "restore"} => batch'[g] = Zero
<1>1. at \in [Flushers -> Place] /\ batch \in [Flushers -> Tally]
  BY DEF TypeOK, Types, Place
<1>2. at' \in [Flushers -> Place] /\ batch' \in [Flushers -> Tally]
  BY <1>1
<1>3. ASSUME NEW g \in Flushers, at'[g] \notin {"write", "restore"} PROVE batch'[g] = Zero
  <2>1. CASE g = f
    BY <1>1, <1>3, <2>1
  <2>2. CASE g # f
    BY <1>1, <1>3, <2>2 DEF TypeOK
  <2> QED  BY <2>1, <2>2
<1> QED  BY <1>2, <1>3

\* ... or with the batch it has.
LEMMA GoesOn ==
  ASSUME TypeOK, NEW f \in Flushers, NEW x \in Place,
         at' = [at EXCEPT ![f] = x], batch' = batch,
         x \in {"write", "restore"} \/ at[f] \notin {"write", "restore"}
  PROVE  /\ at' \in [Flushers -> Place] /\ batch' \in [Flushers -> Tally]
         /\ \A g \in Flushers : at'[g] \notin {"write", "restore"} => batch'[g] = Zero
<1>1. batch \in [Flushers -> Tally] /\ batch' = [batch EXCEPT ![f] = batch[f]]
  BY DEF TypeOK, Types
<1>2. batch[f] \in Tally /\ (x \in {"write", "restore"} \/ batch[f] = Zero)
  BY <1>1 DEF TypeOK
<1> QED  BY <1>1, <1>2, Goes

\* What a drain does.
LEMMA Drains ==
  ASSUME TypeOK, NEW f \in Flushers, at[f] \notin {"write", "restore"}, drain(f)
  PROVE  /\ pending' = Zero /\ pending \in Tally /\ batch[f] = Zero
         /\ batch' = [batch EXCEPT ![f] = pending]
         /\ at' \in [Flushers -> Place] /\ batch' \in [Flushers -> Tally]
         /\ \A g \in Flushers : at'[g] \notin {"write", "restore"} => batch'[g] = Zero
         /\ at'[f] = "write" \/ (at'[f] = next(f) /\ pending = Zero)
         /\ \A g \in Flushers \ {f} : at'[g] = at[g]
<1>1. /\ pending' = Zero /\ batch' = [batch EXCEPT ![f] = pending]
      /\ at' = [at EXCEPT ![f] = IF entries(pending) = {} THEN next(f) ELSE "write"]
  BY DEF drain
<1>2. pending \in Tally /\ batch[f] = Zero /\ at \in [Flushers -> Place]
  BY DEF TypeOK, Types, Place
<1>3. CASE entries(pending) = {}
  <2>1. pending = Zero
    BY <1>2, <1>3, EmptyIsZero
  <2>2. next(f) \in Place /\ at' = [at EXCEPT ![f] = next(f)]
    BY <1>1, <1>3, NextPlace
  <2>3. at'[f] = next(f) /\ \A g \in Flushers \ {f} : at'[g] = at[g]
    BY <1>2, <2>2
  <2> QED  BY <1>1, <1>2, <2>1, <2>2, <2>3, Goes
<1>4. CASE entries(pending) # {}
  <2>1. "write" \in Place /\ at' = [at EXCEPT ![f] = "write"]
    BY <1>1, <1>4 DEF Place
  <2>2. at'[f] = "write" /\ \A g \in Flushers \ {f} : at'[g] = at[g]
    BY <1>2, <2>1
  <2> QED  BY <1>1, <1>2, <2>1, <2>2, Goes
<1> QED  BY <1>3, <1>4

LEMMA AggregateType ==
  ASSUME NEW a \in Aggregate, NEW n \in Nat
  PROVE  /\ [a EXCEPT !.views = n] \in Aggregate /\ [a EXCEPT !.groups = n] \in Aggregate
         /\ [views |-> 0, groups |-> 0] \in Aggregate
BY DEF Aggregate

LEMMA ReturnTypes ==
  ASSUME TypeOK, NEW v \in Viewers, at[v] \notin {"write", "restore"}, batch' = batch,
         Return(v)
  PROVE  /\ at' \in [Flushers -> Place] /\ batch' \in [Flushers -> Tally]
         /\ \A g \in Flushers : at'[g] \notin {"write", "restore"} => batch'[g] = Zero
         /\ asked' \in [Viewers -> 0..MaxTime] /\ answer' \in [Viewers -> Aggregate]
         /\ mark' \in [Viewers -> Nat] /\ excused' \in [Viewers -> Nat]
<1>1. "idle" \in Place /\ v \in Flushers /\ at' = [at EXCEPT ![v] = "idle"]
  BY DEF Place, Flushers, Return
<1>2. 0 \in 0..MaxTime
  BY AnalyticsAssumption
<1>3. /\ asked' \in [Viewers -> 0..MaxTime]
      /\ mark' \in [Viewers -> Nat] /\ excused' \in [Viewers -> Nat]
  BY <1>2 DEF Return, TypeOK, Types
<1>4. answer' \in [Viewers -> Aggregate]
  BY AggregateType DEF Return, TypeOK, Types, Aggregate
<1> QED  BY <1>1, <1>3, <1>4, GoesOn

LEMMA TypeInit == Init => TypeOK
<1> SUFFICES ASSUME Init PROVE TypeOK
  OBVIOUS
<1>1. [views |-> 0, groups |-> 0] \in Aggregate
  BY DEF Aggregate
<1>2. /\ pending \in Tally /\ table \in Tally /\ received \in Tally /\ lost \in Tally
      /\ batch \in [Flushers -> Tally] /\ \A f \in Flushers : batch[f] = Zero
  BY ViewsZero DEF Init
<1>3. now \in 0..MaxTime /\ asked \in [Viewers -> 0..MaxTime]
      /\ snapshot \in [0..MaxTime -> Nat]
  BY AnalyticsAssumption DEF Init
<1>4. /\ answer \in [Viewers -> Aggregate] /\ cached = None /\ cachedUntil = 0
      /\ mark \in [Viewers -> Nat] /\ excused \in [Viewers -> Nat]
      /\ flushNow = FALSE /\ at = [f \in Flushers |-> "idle"]
  BY <1>1 DEF Init
<1> QED  BY <1>2, <1>3, <1>4 DEF TypeOK, Types

LEMMA TypeStep == TypeOK /\ [Next]_vars => TypeOK'
<1> SUFFICES ASSUME TypeOK, [Next]_vars PROVE TypeOK'
  OBVIOUS
<1>0. /\ now \in 0..MaxTime /\ MaxTime \in Nat
      /\ pending \in Tally /\ table \in Tally /\ received \in Tally /\ lost \in Tally
      /\ at \in [Flushers -> Place] /\ batch \in [Flushers -> Tally]
      /\ Viewers \subseteq Flushers /\ "worker" \in Flushers /\ "close" \in Flushers
      /\ flushNow \in BOOLEAN
  BY AnalyticsAssumption DEF TypeOK, Types, Place, Flushers
<1> DEFINE Kept(a, b) == /\ a \in [Flushers -> Place] /\ b \in [Flushers -> Tally]
                         /\ \A g \in Flushers : a[g] \notin {"write", "restore"} => b[g] = Zero
           Dash == /\ asked' \in [Viewers -> 0..MaxTime] /\ answer' \in [Viewers -> Aggregate]
                   /\ mark' \in [Viewers -> Nat] /\ excused' \in [Viewers -> Nat]
<1>1. CASE UNCHANGED vars
  BY <1>1 DEF vars, cache, dashboard, TypeOK, Types
<1>2. CASE Tick
  <2>1. Views(table) \in Nat /\ now' \in 0..MaxTime
    BY <1>0, <1>2, ViewsType DEF Tick
  <2>2. snapshot' \in [0..MaxTime -> Nat]
    BY <1>2, <2>1 DEF Tick, TypeOK, Types
  <2> QED  BY <1>2, <2>1, <2>2 DEF Tick, TypeOK, Types, cache, dashboard
<1>3. ASSUME NEW k \in Keys, Record(k) PROVE TypeOK'
  <2>1. pending' \in Tally /\ received' \in Tally /\ flushNow' \in BOOLEAN
    BY <1>0, <1>3, ViewsOne DEF Record
  <2> QED  BY <1>3, <2>1 DEF Record, TypeOK, Types, cache, dashboard
<1>4. ASSUME NEW f \in Flushers, WriteCommits(f) PROVE TypeOK'
  <2>1. Kept(at', batch')
    <3>1. "invalidate" \in Place /\ Zero \in Tally
      BY ViewsZero DEF Place
    <3> QED  BY <1>4, <3>1, Goes DEF WriteCommits
  <2>2. table' \in Tally
    BY <1>0, <1>4, ViewsPlus DEF WriteCommits
  <2> QED  BY <1>4, <2>1, <2>2 DEF WriteCommits, TypeOK, Types, Place, cache, dashboard
<1>5. ASSUME NEW f \in Flushers, WriteFails(f) PROVE TypeOK'
  <2>1. Kept(at', batch')
    <3>1. "restore" \in Place
      BY DEF Place
    <3> QED  BY <1>5, <3>1, GoesOn DEF WriteFails
  <2>2. Views(batch[f]) \in Nat
    BY <1>0, ViewsType
  <2>3. excused' \in [Viewers -> Nat]
    BY <1>5, <2>2 DEF WriteFails, TypeOK, Types
  <2> QED  BY <1>5, <2>1, <2>3 DEF WriteFails, TypeOK, Types, Place, cache
<1>6. ASSUME NEW f \in Flushers, Invalidate(f) PROVE TypeOK'
  <2>1. Kept(at', batch')
    <3>1. next(f) \in Place
      BY NextPlace
    <3> QED  BY <1>6, <3>1, GoesOn DEF Invalidate
  <2> QED  BY <1>6, <2>1 DEF Invalidate, TypeOK, Types, Place, dashboard
<1>7. ASSUME NEW f \in Flushers, NEW S \in SUBSET entries(batch[f]), Restore(f, S)
      PROVE  TypeOK'
  <2> DEFINE b == batch[f]
             kept == Part(b, S \cup entries(pending))
             dropped == Part(b, (entries(b) \ entries(pending)) \ S)
  <2>1. Kept(at', batch')
    <3>1. next(f) \in Place /\ Zero \in Tally
      BY NextPlace, ViewsZero
    <3> QED  BY <1>7, <3>1, Goes DEF Restore
  <2>2. kept \in Tally /\ dropped \in Tally
    <3>1. b \in Tally /\ S \subseteq entries(b) \ entries(pending)
      BY <1>0, <1>7 DEF Restore
    <3> HIDE DEF b
    <3> QED  BY <1>0, <3>1, Divided
  <2>3. pending' = Plus(pending, kept) /\ lost' = Plus(lost, dropped)
    BY <1>7 DEF Restore
  <2> HIDE DEF kept, dropped
  <2>4. pending' \in Tally /\ lost' \in Tally
    BY <1>0, <2>2, <2>3, ViewsPlus
  <2> QED  BY <1>7, <2>1, <2>4 DEF Restore, TypeOK, Types, Place, cache, dashboard
<1>8. ASSUME NEW requested \in BOOLEAN, WorkerFlushes(requested) PROVE TypeOK'
  <2>1. Kept(at', batch') /\ pending' = Zero
    BY <1>0, <1>8, Drains DEF WorkerFlushes
  <2>2. flushNow' \in BOOLEAN
    BY <1>0, <1>8 DEF WorkerFlushes
  <2> QED  BY <1>8, <2>1, <2>2, ViewsZero
           DEF WorkerFlushes, TypeOK, Types, Place, cache, dashboard
<1>9. CASE WorkerStops
  <2>1. Kept(at', batch')
    <3>1. "stopped" \in Place
      BY DEF Place
    <3> QED  BY <1>0, <1>9, <3>1, GoesOn DEF WorkerStops
  <2> QED  BY <1>9, <2>1 DEF WorkerStops, TypeOK, Types, Place, cache, dashboard
<1>10. CASE CloseStops
  <2>1. Kept(at', batch')
    <3>1. "stopping" \in Place
      BY DEF Place
    <3> QED  BY <1>0, <1>10, <3>1, GoesOn DEF CloseStops
  <2> QED  BY <1>10, <2>1 DEF CloseStops, TypeOK, Types, Place, cache, dashboard
<1>11. CASE CloseFlushes
  <2>1. Kept(at', batch') /\ pending' = Zero
    BY <1>0, <1>11, Drains DEF CloseFlushes
  <2> QED  BY <1>11, <2>1, ViewsZero DEF CloseFlushes, TypeOK, Types, Place, cache, dashboard
<1>12. ASSUME NEW v \in Viewers, GetData(v) PROVE TypeOK'
  <2>1. Kept(at', batch')
    <3>1. "lookup" \in Place
      BY DEF Place
    <3> QED  BY <1>0, <1>12, <3>1, GoesOn DEF GetData
  <2>2. Views(received) \in Nat
    BY <1>0, ViewsType
  <2>3. Dash
    BY <1>0, <1>12, <2>2 DEF GetData, TypeOK, Types
  <2> QED  BY <1>12, <2>1, <2>3 DEF GetData, TypeOK, Types, Place, cache
<1>13. ASSUME NEW v \in Viewers, CacheHit(v) PROVE TypeOK'
  <2>1. Kept(at', batch') /\ Dash
    BY <1>0, <1>13, ReturnTypes DEF CacheHit
  <2> QED  BY <1>13, <2>1 DEF CacheHit, TypeOK, Types, Place, cache
<1>14. ASSUME NEW v \in Viewers, CacheMiss(v) PROVE TypeOK'
  <2>1. Kept(at', batch')
    <3>1. "flush" \in Place
      BY DEF Place
    <3> QED  BY <1>0, <1>14, <3>1, GoesOn DEF CacheMiss
  <2> QED  BY <1>14, <2>1 DEF CacheMiss, TypeOK, Types, Place, cache, dashboard
<1>15. ASSUME NEW v \in Viewers, ViewerFlushes(v) PROVE TypeOK'
  <2>1. Kept(at', batch') /\ pending' = Zero
    BY <1>0, <1>15, Drains DEF ViewerFlushes
  <2>2. SumFunctionOnSet(inHand, Flushers \ {v}) \in Nat
    <3>1. \A f \in Flushers \ {v} : inHand[f] \in Nat
      BY <1>0, InHandType
    <3>2. IsFiniteSet(Flushers \ {v})
      BY FlushersFinite, FS_Subset
    <3> HIDE DEF inHand
    <3> QED  BY <3>1, <3>2, SumType
  <2>3. excused' \in [Viewers -> Nat]
    BY <1>15, <2>2 DEF ViewerFlushes, TypeOK, Types
  <2> QED  BY <1>15, <2>1, <2>3, ViewsZero DEF ViewerFlushes, TypeOK, Types, Place, cache
<1>16. ASSUME NEW v \in Viewers, QueryTotals(v) PROVE TypeOK'
  <2>1. Kept(at', batch')
    <3>1. "groups" \in Place
      BY DEF Place
    <3> QED  BY <1>0, <1>16, <3>1, GoesOn DEF QueryTotals
  <2>2. Views(table) \in Nat /\ answer[v] \in Aggregate
    BY <1>0, ViewsType DEF TypeOK, Types
  <2>3. answer' \in [Viewers -> Aggregate]
    <3>1. answer' = [answer EXCEPT ![v] = [answer[v] EXCEPT !.views = Views(table)]]
      BY <1>16 DEF QueryTotals
    <3> QED  BY <2>2, <3>1, AggregateType DEF TypeOK, Types
  <2> QED  BY <1>16, <2>1, <2>3 DEF QueryTotals, TypeOK, Types, Place, cache
<1>17. ASSUME NEW v \in Viewers, QueryGroups(v) PROVE TypeOK'
  <2>1. Kept(at', batch')
    <3>1. "store" \in Place
      BY DEF Place
    <3> QED  BY <1>0, <1>17, <3>1, GoesOn DEF QueryGroups
  <2>2. Views(table) \in Nat /\ answer[v] \in Aggregate
    BY <1>0, ViewsType DEF TypeOK, Types
  <2>3. answer' \in [Viewers -> Aggregate]
    <3>1. answer' = [answer EXCEPT ![v] = [answer[v] EXCEPT !.groups = Views(table)]]
      BY <1>17 DEF QueryGroups
    <3> QED  BY <2>2, <3>1, AggregateType DEF TypeOK, Types
  <2> QED  BY <1>17, <2>1, <2>3 DEF QueryGroups, TypeOK, Types, Place, cache
<1>18. ASSUME NEW v \in Viewers, Store(v) PROVE TypeOK'
  <2>1. Kept(at', batch') /\ Dash
    BY <1>0, <1>18, ReturnTypes DEF Store
  <2>2. cached' \in Aggregate /\ cachedUntil' \in Nat
    BY <1>0, <1>18, AnalyticsAssumption DEF Store, TypeOK, Types
  <2> QED  BY <1>18, <2>1, <2>2 DEF Store, TypeOK, Types, Place
<1>19. ASSUME NEW v \in Viewers, QueryFails(v) PROVE TypeOK'
  <2>1. Kept(at', batch') /\ Dash
    BY <1>0, <1>19, ReturnTypes DEF QueryFails
  <2> QED  BY <1>19, <2>1 DEF QueryFails, TypeOK, Types, Place, cache
<1> QED
  BY <1>1, <1>2, <1>3, <1>4, <1>5, <1>6, <1>7, <1>8, <1>9, <1>10, <1>11, <1>12, <1>13,
     <1>14, <1>15, <1>16, <1>17, <1>18, <1>19
  DEF Next, Flush, Close, Dashboard
-----------------------------------------------------------------------------
(* The books.                                                              *)

idle == UNCHANGED <<pending, batch, table, received, lost>>

\* A batch is taken out of the map, and the map is a new one.
Drained(f) ==
  /\ pending' = Zero /\ batch[f] = Zero /\ batch' = [batch EXCEPT ![f] = pending]
  /\ UNCHANGED <<table, received, lost>>

LEMMA Kinds ==
  ASSUME TypeOK, [Next]_vars
  PROVE  \/ idle
         \/ \E k \in Keys : Record(k)
         \/ \E f \in Flushers : Drained(f)
         \/ \E f \in Flushers : WriteCommits(f)
         \/ \E f \in Flushers : \E S \in SUBSET entries(batch[f]) : Restore(f, S)
<1>0. Viewers \subseteq Flushers /\ "worker" \in Flushers /\ "close" \in Flushers
  BY DEF Flushers
<1>1. CASE Tick \/ WorkerStops \/ CloseStops \/ UNCHANGED vars
  BY <1>1 DEF Tick, WorkerStops, CloseStops, vars, idle
<1>2. ASSUME NEW f \in Flushers, WriteFails(f) \/ Invalidate(f) PROVE idle
  BY <1>2 DEF WriteFails, Invalidate, idle
<1>3. ASSUME NEW requested \in BOOLEAN, WorkerFlushes(requested) PROVE Drained("worker")
  BY <1>0, <1>3, Drains DEF WorkerFlushes, Drained
<1>4. CASE CloseFlushes
  <2>1. Drained("close")
    BY <1>0, <1>4, Drains DEF CloseFlushes, Drained
  <2> QED  BY <1>0, <2>1
<1>5. ASSUME NEW v \in Viewers, ViewerFlushes(v) PROVE Drained(v)
  BY <1>0, <1>5, Drains DEF ViewerFlushes, Drained
<1>6. ASSUME NEW v \in Viewers,
             \/ GetData(v) \/ CacheHit(v) \/ CacheMiss(v) \/ QueryTotals(v)
             \/ QueryGroups(v) \/ Store(v) \/ QueryFails(v)
      PROVE  idle
  BY <1>6 DEF GetData, CacheHit, CacheMiss, QueryTotals, QueryGroups, Store, QueryFails, idle
<1> QED
  BY <1>0, <1>1, <1>2, <1>3, <1>4, <1>5, <1>6 DEF Next, Flush, Close, Dashboard

LEMMA StepKeepsBooks ==
  ASSUME TypeOK, [Next]_vars
  PROVE  [Books!Next]_(Books!books)
<1>0. /\ pending \in Tally /\ table \in Tally /\ received \in Tally /\ lost \in Tally
      /\ batch \in [Flushers -> Tally]
  BY DEF TypeOK, Types
<1>1. CASE idle
  BY <1>1 DEF idle, Books!books, waiting, drained
<1>2. ASSUME NEW k \in Keys, Record(k) PROVE Books!Accept(k)
  <2>1. /\ pending' = [pending EXCEPT ![k] = @ + 1] /\ batch' = batch
        /\ received' = [received EXCEPT ![k] = @ + 1] /\ table' = table /\ lost' = lost
    BY <1>2 DEF Record
  <2>2. \A x \in Keys : SumFunction(drained(x)') = SumFunction(drained(x))
    BY <2>1 DEF drained
  <2>3. \A x \in Keys : SumFunction(drained(x)) \in Nat
    <3>1. \A x \in Keys : DOMAIN drained(x) = Flushers
      BY DEF drained
    <3> QED  BY <1>0, <3>1, InHandType DEF SumFunction
  <2>4. waiting = [x \in Keys |-> pending[x] + SumFunction(drained(x))]
    BY DEF waiting
  <2>5. waiting' = [x \in Keys |-> pending'[x] + SumFunction(drained(x)')]
    BY DEF waiting
  <2>6. waiting' = [waiting EXCEPT ![k] = @ + 1]
    <3>1. \A x \in Keys : pending'[x] = IF x = k THEN pending[x] + 1 ELSE pending[x]
      BY <1>0, <2>1 DEF Tally
    <3>2. \A x \in Keys : pending[x] \in Nat
      BY <1>0 DEF Tally
    <3> HIDE DEF drained
    <3>3. \A x \in Keys : waiting'[x] = IF x = k THEN waiting[x] + 1 ELSE waiting[x]
      BY <2>2, <2>3, <2>4, <2>5, <3>1, <3>2
    <3> QED  BY <2>4, <2>5, <3>3
  <2> QED  BY <2>1, <2>6 DEF Books!Accept
<1>3. ASSUME NEW f \in Flushers, Drained(f) PROVE UNCHANGED Books!books
  <2>1. /\ pending' = Zero /\ batch' = [batch EXCEPT ![f] = pending] /\ batch[f] = Zero
        /\ table' = table /\ received' = received /\ lost' = lost
    BY <1>3 DEF Drained
  <2>2. \A k \in Keys :
          /\ SumFunction(drained(k)') + 0 = SumFunction(drained(k)) + pending[k]
          /\ SumFunction(drained(k)) \in Nat /\ SumFunction(drained(k)') \in Nat
    <3>1. \A k \in Keys : batch[f][k] = 0
      BY <2>1 DEF Zero
    <3> QED  BY <1>0, <2>1, <3>1, KeyMoves
  <2>3. \A k \in Keys : pending[k] \in Nat /\ pending'[k] = 0
    BY <1>0, <2>1 DEF Tally, Zero
  <2>4. \A k \in Keys : pending'[k] + SumFunction(drained(k)')
                          = pending[k] + SumFunction(drained(k))
    BY <2>2, <2>3
  <2>5. waiting' = waiting
    BY <2>4 DEF waiting
  <2> QED  BY <2>1, <2>5 DEF Books!books
<1>4. ASSUME NEW f \in Flushers, WriteCommits(f) PROVE Books!Record
  <2>1. /\ pending' = pending /\ batch' = [batch EXCEPT ![f] = Zero]
        /\ table' = Plus(table, batch[f]) /\ received' = received /\ lost' = lost
    BY <1>4 DEF WriteCommits
  <2>2. \A k \in Keys :
          /\ SumFunction(drained(k)') + batch[f][k] = SumFunction(drained(k)) + 0
          /\ SumFunction(drained(k)) \in Nat /\ SumFunction(drained(k)') \in Nat
    BY <1>0, <2>1, ViewsZero, KeyMoves DEF Zero
  <2>3. \A k \in Keys : /\ pending[k] \in Nat /\ batch[f][k] \in Nat /\ table[k] \in Nat
                        /\ pending'[k] = pending[k] /\ table'[k] = table[k] + batch[f][k]
    BY <1>0, <2>1 DEF Tally, Plus
  <2>4. \A k \in Keys : /\ waiting[k] = pending[k] + SumFunction(drained(k))
                        /\ waiting'[k] = pending'[k] + SumFunction(drained(k)')
    BY DEF waiting
  <2>5. waiting' = [k \in Keys |-> waiting'[k]] /\ table' = [k \in Keys |-> table'[k]]
    BY <2>1 DEF waiting, Plus
  <2> HIDE DEF waiting, drained
  <2>6. \A k \in Keys : /\ waiting'[k] \in Nat /\ waiting'[k] <= waiting[k]
                        /\ table'[k] = table[k] + (waiting[k] - waiting'[k])
    BY <2>2, <2>3, <2>4
  <2>7. Books!Leave
    BY <2>5, <2>6 DEF Books!Leave
  <2>8. table' = [k \in Keys |-> table[k] + (waiting[k] - waiting'[k])]
    BY <2>5, <2>6
  <2> QED  BY <2>1, <2>7, <2>8 DEF Books!Record
<1>5. ASSUME NEW f \in Flushers, NEW S \in SUBSET entries(batch[f]), Restore(f, S)
      PROVE  Books!Shed
  <2> DEFINE b == batch[f]
             kept == Part(b, S \cup entries(pending))
             dropped == Part(b, (entries(b) \ entries(pending)) \ S)
  <2>1. /\ pending' = Plus(pending, kept) /\ lost' = Plus(lost, dropped)
        /\ batch' = [batch EXCEPT ![f] = Zero] /\ table' = table /\ received' = received
        /\ b \in Tally /\ S \subseteq entries(b) \ entries(pending)
    BY <1>0, <1>5 DEF Restore
  <2>2. kept \in Tally /\ dropped \in Tally /\ Plus(kept, dropped) = b
    <3> HIDE DEF b
    <3> QED  BY <1>0, <2>1, Divided
  <2> HIDE DEF kept, dropped
  <2>3. \A k \in Keys :
          /\ SumFunction(drained(k)') + b[k] = SumFunction(drained(k)) + 0
          /\ SumFunction(drained(k)) \in Nat /\ SumFunction(drained(k)') \in Nat
    BY <1>0, <2>1, ViewsZero, KeyMoves DEF Zero
  <2>4. \A k \in Keys : /\ pending[k] \in Nat /\ lost[k] \in Nat
                        /\ kept[k] \in Nat /\ dropped[k] \in Nat
                        /\ b[k] = kept[k] + dropped[k]
                        /\ pending'[k] = pending[k] + kept[k]
                        /\ lost'[k] = lost[k] + dropped[k]
    <3>1. \A k \in Keys : /\ pending[k] \in Nat /\ lost[k] \in Nat
                          /\ kept[k] \in Nat /\ dropped[k] \in Nat
      BY <1>0, <2>2 DEF Tally
    <3>2. \A k \in Keys : b[k] = kept[k] + dropped[k]
      <4>1. \A k \in Keys : Plus(kept, dropped)[k] = kept[k] + dropped[k]
        BY DEF Plus
      <4> QED  BY <2>2, <4>1
    <3>3. \A k \in Keys : /\ pending'[k] = pending[k] + kept[k]
                          /\ lost'[k] = lost[k] + dropped[k]
      BY <2>1 DEF Plus
    <3> QED  BY <3>1, <3>2, <3>3
  <2>5. \A k \in Keys : /\ waiting[k] = pending[k] + SumFunction(drained(k))
                        /\ waiting'[k] = pending'[k] + SumFunction(drained(k)')
    BY DEF waiting
  <2>6. waiting' = [k \in Keys |-> waiting'[k]] /\ lost' = [k \in Keys |-> lost'[k]]
    BY <2>1 DEF waiting, Plus
  <2> HIDE DEF waiting, drained, b
  <2>7. \A k \in Keys : /\ waiting'[k] \in Nat /\ waiting'[k] <= waiting[k]
                        /\ lost'[k] = lost[k] + (waiting[k] - waiting'[k])
    BY <2>3, <2>4, <2>5
  <2>8. Books!Leave
    BY <2>6, <2>7 DEF Books!Leave
  <2>9. lost' = [k \in Keys |-> lost[k] + (waiting[k] - waiting'[k])]
    BY <2>6, <2>7
  <2> QED  BY <2>1, <2>8, <2>9 DEF Books!Shed
<1>6. CASE UNCHANGED Books!books
  BY <1>6
<1> QED  BY <1>1, <1>2, <1>3, <1>4, <1>5, Kinds DEF Books!Next, Books!books, idle, waiting, drained

LEMMA InitKeepsBooks == Init => Books!Init
<1> SUFFICES ASSUME Init PROVE Books!Init
  OBVIOUS
<1>1. /\ received = Zero /\ pending = Zero /\ table = Zero /\ lost = Zero
      /\ batch = [f \in Flushers |-> Zero]
  BY DEF Init
<1>2. \A k \in Keys : SumFunction(drained(k)) = 0
  <2> SUFFICES ASSUME NEW k \in Keys PROVE SumFunction(drained(k)) = 0
    OBVIOUS
  <2> DEFINE h == drained(k)
  <2>1. DOMAIN h = Flushers /\ \A f \in Flushers : h[f] = 0
    BY <1>1 DEF drained, Zero
  <2> HIDE DEF h
  <2>2. \A f \in Flushers : h[f] \in Nat
    BY <2>1
  <2>3. SumFunctionOnSet(h, Flushers) = 0
    BY <2>1, <2>2, FlushersFinite, SumZero
  <2> QED  BY <2>1, <2>3 DEF SumFunction, h
<1>3. waiting = [k \in Keys |-> 0]
  BY <1>1, <1>2 DEF waiting, Zero
<1> QED  BY <1>1, <1>3 DEF Books!Init, Zero
-----------------------------------------------------------------------------
(* The totals.                                                             *)

LEMMA ConservedInit == Init => Conserved
<1> SUFFICES ASSUME Init PROVE Conserved
  OBVIOUS
<1>1. /\ received = Zero /\ pending = Zero /\ table = Zero /\ lost = Zero
      /\ batch = [f \in Flushers |-> Zero]
  BY DEF Init
<1>2. \A f \in Flushers : inHand[f] = 0
  BY <1>1, ViewsZero DEF inHand
<1> HIDE DEF inHand
<1>3. SumFunctionOnSet(inHand, Flushers) = 0
  <2>1. \A f \in Flushers : inHand[f] \in Nat
    BY <1>2
  <2> QED  BY <1>2, <2>1, FlushersFinite, SumZero
<1> QED  BY <1>1, <1>3, ViewsZero DEF Conserved

\* Views are received, written and dropped for good.
LEMMA ConservedStep ==
  ASSUME TypeOK, TypeOK', Conserved, [Next]_vars
  PROVE  /\ Conserved'
         /\ Views(received) <= Views(received') /\ Views(table) <= Views(table')
         /\ Views(lost) <= Views(lost')
<1>0. /\ pending \in Tally /\ table \in Tally /\ received \in Tally /\ lost \in Tally
      /\ batch \in [Flushers -> Tally]
  BY DEF TypeOK, Types
<1>1. /\ Views(pending) \in Nat /\ Views(table) \in Nat /\ Views(received) \in Nat
      /\ Views(lost) \in Nat /\ \A f \in Flushers : Views(batch[f]) \in Nat
  BY <1>0, ViewsType
<1>2. CASE idle
  <2>1. inHand' = inHand
    BY <1>2 DEF idle, inHand
  <2>2. Views(received') = Views(received) /\ Views(table') = Views(table)
        /\ Views(lost') = Views(lost) /\ Views(pending') = Views(pending)
    BY <1>2 DEF idle
  <2> QED  BY <1>1, <2>1, <2>2 DEF Conserved
<1>3. ASSUME NEW k \in Keys, Record(k) PROVE Conserved' /\ Views(received) <= Views(received')
             /\ Views(table) <= Views(table') /\ Views(lost) <= Views(lost')
  <2>1. /\ Views(pending') = Views(pending) + 1 /\ Views(received') = Views(received) + 1
        /\ batch' = batch /\ table' = table /\ lost' = lost
    BY <1>0, <1>3, ViewsOne DEF Record
  <2>2. inHand' = inHand /\ SumFunctionOnSet(inHand, Flushers) \in Nat
    BY <1>0, <2>1, InHandType DEF inHand
  <2> QED  BY <1>1, <2>1, <2>2 DEF Conserved
<1>4. ASSUME NEW f \in Flushers, Drained(f) PROVE Conserved' /\ Views(received) <= Views(received')
             /\ Views(table) <= Views(table') /\ Views(lost) <= Views(lost')
  <2>1. /\ pending' = Zero /\ batch[f] = Zero /\ batch' = [batch EXCEPT ![f] = pending]
        /\ table' = table /\ received' = received /\ lost' = lost
    BY <1>4 DEF Drained
  <2>2. /\ SumFunctionOnSet(inHand, Flushers)' + Views(batch[f])
             = SumFunctionOnSet(inHand, Flushers) + Views(pending)
        /\ SumFunctionOnSet(inHand, Flushers) \in Nat
        /\ SumFunctionOnSet(inHand, Flushers)' \in Nat
    BY <1>0, <2>1, HandMoves
  <2>3. Views(batch[f]) = 0 /\ Views(pending') = 0
    BY <2>1, ViewsZero
  <2> QED  BY <1>1, <2>1, <2>2, <2>3 DEF Conserved
<1>5. ASSUME NEW f \in Flushers, WriteCommits(f) PROVE Conserved' /\ Views(received) <= Views(received')
             /\ Views(table) <= Views(table') /\ Views(lost) <= Views(lost')
  <2>1. /\ batch' = [batch EXCEPT ![f] = Zero] /\ table' = Plus(table, batch[f])
        /\ pending' = pending /\ received' = received /\ lost' = lost
    BY <1>5 DEF WriteCommits
  <2>2. /\ SumFunctionOnSet(inHand, Flushers)' + Views(batch[f])
             = SumFunctionOnSet(inHand, Flushers) + Views(Zero)
        /\ SumFunctionOnSet(inHand, Flushers) \in Nat
        /\ SumFunctionOnSet(inHand, Flushers)' \in Nat
    BY <1>0, <2>1, HandMoves, ViewsZero
  <2>3. Views(table') = Views(table) + Views(batch[f]) /\ Views(Zero) = 0
    BY <1>0, <2>1, ViewsPlus, ViewsZero
  <2> QED  BY <1>1, <2>1, <2>2, <2>3 DEF Conserved
<1>6. ASSUME NEW f \in Flushers, NEW S \in SUBSET entries(batch[f]), Restore(f, S)
      PROVE  Conserved' /\ Views(received) <= Views(received')
             /\ Views(table) <= Views(table') /\ Views(lost) <= Views(lost')
  <2> DEFINE b == batch[f]
             kept == Part(b, S \cup entries(pending))
             dropped == Part(b, (entries(b) \ entries(pending)) \ S)
  <2>1. /\ pending' = Plus(pending, kept) /\ lost' = Plus(lost, dropped)
        /\ batch' = [batch EXCEPT ![f] = Zero] /\ table' = table /\ received' = received
        /\ b \in Tally /\ S \subseteq entries(b) \ entries(pending)
    BY <1>0, <1>6 DEF Restore
  <2>2. kept \in Tally /\ dropped \in Tally /\ Plus(kept, dropped) = b
    <3> HIDE DEF b
    <3> QED  BY <1>0, <2>1, Divided
  <2> HIDE DEF kept, dropped
  <2>3. /\ SumFunctionOnSet(inHand, Flushers)' + Views(b)
             = SumFunctionOnSet(inHand, Flushers) + Views(Zero)
        /\ SumFunctionOnSet(inHand, Flushers) \in Nat
        /\ SumFunctionOnSet(inHand, Flushers)' \in Nat
    BY <1>0, <2>1, HandMoves, ViewsZero
  <2>4. /\ Views(pending') = Views(pending) + Views(kept)
        /\ Views(lost') = Views(lost) + Views(dropped)
        /\ Views(b) = Views(kept) + Views(dropped)
        /\ Views(kept) \in Nat /\ Views(dropped) \in Nat /\ Views(Zero) = 0
    BY <1>0, <2>1, <2>2, ViewsPlus, ViewsType, ViewsZero
  <2> HIDE DEF b
  <2> QED  BY <1>1, <2>1, <2>3, <2>4 DEF Conserved
<1> QED
  <2>1. \/ idle
        \/ \E k \in Keys : Record(k)
        \/ \E f \in Flushers : Drained(f)
        \/ \E f \in Flushers : WriteCommits(f)
        \/ \E f \in Flushers : \E S \in SUBSET entries(batch[f]) : Restore(f, S)
    BY Kinds
  <2>2. CASE idle
    BY <1>1, <1>2, <2>2 DEF idle
  <2> QED  BY <1>3, <1>4, <1>5, <1>6, <2>1, <2>2
-----------------------------------------------------------------------------
(* What a dashboard is owed.                                               *)

LEMMA Numbers ==
  ASSUME TypeOK, NEW v \in Viewers
  PROVE  /\ Views(pending) \in Nat /\ Views(table) \in Nat /\ Views(received) \in Nat
         /\ Views(lost) \in Nat /\ inHand[v] \in Nat /\ inHand[v] = Views(batch[v])
         /\ mark[v] \in Nat /\ excused[v] \in Nat /\ answer[v].views \in Nat
         /\ asked[v] \in 0..MaxTime /\ now \in 0..MaxTime /\ v \in Flushers
<1>1. /\ pending \in Tally /\ table \in Tally /\ received \in Tally /\ lost \in Tally
      /\ batch \in [Flushers -> Tally] /\ v \in Flushers
      /\ mark[v] \in Nat /\ excused[v] \in Nat /\ answer[v] \in Aggregate
      /\ asked[v] \in 0..MaxTime /\ now \in 0..MaxTime
  BY DEF TypeOK, Types, Flushers
<1>2. inHand[v] = Views(batch[v])
  BY <1>1 DEF inHand
<1>3. answer[v].views \in Nat
  BY <1>1 DEF Aggregate
<1> QED  BY <1>1, <1>2, <1>3, ViewsType

\* Steps of others.
LEMMA OwedKept ==
  ASSUME TypeOK, TypeOK', NEW v \in Viewers, Owed(v),
         Views(received) <= Views(received'), Views(table) <= Views(table'),
         Views(lost) <= Views(lost'),
         at'[v] = at[v], mark'[v] = mark[v], excused'[v] = excused[v],
         answer'[v] = answer[v], batch'[v] = batch[v]
  PROVE  Owed(v)'
<1>1. inHand'[v] = inHand[v]
  BY DEF inHand, Flushers
<1>2. /\ Views(table) \in Nat /\ Views(received) \in Nat
      /\ Views(lost) \in Nat /\ inHand[v] \in Nat
      /\ mark[v] \in Nat /\ excused[v] \in Nat /\ answer[v].views \in Nat
  BY Numbers
<1>3. /\ Views(table') \in Nat /\ Views(received') \in Nat /\ Views(lost') \in Nat
  BY ViewsType DEF TypeOK, Types
<1> HIDE DEF inHand
<1> QED  BY <1>1, <1>2, <1>3 DEF Owed

LEMMA FreshStep ==
  ASSUME TypeOK, TypeOK', Conserved, Fresh, [Next]_vars
  PROVE  Fresh'
<1>0. /\ Views(received) <= Views(received') /\ Views(table) <= Views(table')
      /\ Views(lost) <= Views(lost')
  BY ConservedStep
<1> SUFFICES ASSUME NEW v \in Viewers PROVE Owed(v)'
  BY DEF Fresh
<1>1. /\ Owed(v) /\ at \in [Flushers -> Place] /\ batch \in [Flushers -> Tally]
      /\ mark \in [Viewers -> Nat] /\ excused \in [Viewers -> Nat]
      /\ answer \in [Viewers -> Aggregate]
      /\ v \in Flushers /\ v # "worker" /\ v # "close"
      /\ Viewers \subseteq Flushers /\ "worker" \in Flushers /\ "close" \in Flushers
  BY AnalyticsAssumption DEF Fresh, TypeOK, Types, Place, Flushers
<1>2. /\ Views(pending) \in Nat /\ Views(table) \in Nat /\ Views(received) \in Nat
      /\ Views(lost) \in Nat /\ inHand[v] \in Nat /\ inHand[v] = Views(batch[v])
      /\ mark[v] \in Nat /\ excused[v] \in Nat /\ answer[v].views \in Nat
  BY Numbers
<1>3. /\ Views(table') \in Nat /\ Views(received') \in Nat /\ Views(lost') \in Nat
  BY ViewsType DEF TypeOK, Types
<1>4. CASE Tick \/ UNCHANGED vars
  BY <1>0, <1>1, <1>4, OwedKept DEF Tick, vars, dashboard
<1>5. ASSUME NEW k \in Keys, Record(k) PROVE Owed(v)'
  BY <1>0, <1>1, <1>5, OwedKept DEF Record, dashboard
<1>6. ASSUME NEW f \in Flushers, WriteCommits(f) PROVE Owed(v)'
  <2>1. CASE f # v
    BY <1>0, <1>1, <1>6, <2>1, OwedKept DEF WriteCommits, dashboard
  <2>2. CASE f = v
    <3>1. at[v] = "write" /\ at'[v] = "invalidate" /\ mark' = mark /\ excused' = excused
          /\ lost' = lost
      BY <1>1, <1>6, <2>2 DEF WriteCommits, dashboard
    <3>2. Views(table') = Views(table) + inHand[v]
      BY <1>1, <1>2, <1>6, <2>2, ViewsPlus DEF WriteCommits, TypeOK, Types
    <3>3. mark[v] <= Views(table) + Views(lost) + excused[v] + inHand[v]
      BY <1>1, <3>1 DEF Owed
    <3> QED  BY <1>2, <3>1, <3>2, <3>3 DEF Owed
  <2> QED  BY <2>1, <2>2
<1>7. ASSUME NEW f \in Flushers, WriteFails(f) PROVE Owed(v)'
  <2>1. CASE f # v
    <3>1. /\ at'[v] = at[v] /\ mark'[v] = mark[v] /\ answer'[v] = answer[v]
          /\ batch'[v] = batch[v]
      BY <1>1, <1>7, <2>1 DEF WriteFails
    <3>2. excused'[v] = excused[v]
      BY <1>1, <1>7, <2>1 DEF WriteFails
    <3> QED  BY <1>0, <1>1, <3>1, <3>2, OwedKept
  <2>2. CASE f = v
    <3>1. at[v] = "write" /\ at'[v] = "restore" /\ mark' = mark
          /\ lost' = lost /\ table' = table
      BY <1>1, <1>7, <2>2 DEF WriteFails
    <3>2. excused'[v] = excused[v] + inHand[v]
      BY <1>1, <1>2, <1>7, <2>2 DEF WriteFails
    <3>3. mark[v] <= Views(table) + Views(lost) + excused[v] + inHand[v]
      BY <1>1, <3>1 DEF Owed
    <3> QED  BY <1>2, <3>1, <3>2, <3>3 DEF Owed
  <2> QED  BY <2>1, <2>2
<1>8. ASSUME NEW f \in Flushers, Invalidate(f) PROVE Owed(v)'
  <2>1. CASE f # v
    BY <1>0, <1>1, <1>8, <2>1, OwedKept DEF Invalidate, dashboard
  <2>2. CASE f = v
    <3>1. at[v] = "invalidate" /\ at'[v] = "query" /\ mark' = mark /\ excused' = excused
          /\ lost' = lost /\ table' = table
      BY <1>1, <1>8, <2>2, NextPlace DEF Invalidate, dashboard
    <3> QED  BY <1>1, <3>1 DEF Owed
  <2> QED  BY <2>1, <2>2
<1>9. ASSUME NEW f \in Flushers, NEW S \in SUBSET entries(batch[f]), Restore(f, S)
      PROVE  Owed(v)'
  <2>1. CASE f # v
    BY <1>0, <1>1, <1>9, <2>1, OwedKept DEF Restore, dashboard
  <2>2. CASE f = v
    <3>1. at[v] = "restore" /\ at'[v] = "query" /\ mark' = mark /\ excused' = excused
          /\ table' = table
      BY <1>1, <1>9, <2>2, NextPlace DEF Restore, dashboard
    <3>2. mark[v] <= Views(table) + Views(lost) + excused[v]
      BY <1>1, <3>1 DEF Owed
    <3> QED  BY <1>0, <1>2, <1>3, <3>1, <3>2 DEF Owed
  <2> QED  BY <2>1, <2>2
<1>10. ASSUME NEW requested \in BOOLEAN, WorkerFlushes(requested) PROVE Owed(v)'
  <2>1. at'[v] = at[v] /\ batch'[v] = batch[v]
    BY <1>1, <1>10 DEF WorkerFlushes, drain
  <2> QED  BY <1>0, <1>1, <1>10, <2>1, OwedKept DEF WorkerFlushes, dashboard
<1>11. CASE CloseFlushes
  <2>1. at'[v] = at[v] /\ batch'[v] = batch[v]
    BY <1>1, <1>11 DEF CloseFlushes, drain
  <2> QED  BY <1>0, <1>1, <1>11, <2>1, OwedKept DEF CloseFlushes, dashboard
<1>12. CASE WorkerStops \/ CloseStops
  BY <1>0, <1>1, <1>12, OwedKept DEF WorkerStops, CloseStops, dashboard
<1>13. ASSUME NEW u \in Viewers, u # v, Dashboard(u) PROVE Owed(v)'
  <2>1. CASE ViewerFlushes(u)
    <3>1. at'[v] = at[v] /\ batch'[v] = batch[v]
      BY <1>1, <1>13, <2>1 DEF ViewerFlushes, drain
    <3> QED  BY <1>0, <1>1, <1>13, <2>1, <3>1, OwedKept DEF ViewerFlushes
  <2>2. CASE GetData(u) \/ CacheMiss(u) \/ QueryTotals(u) \/ QueryGroups(u)
    BY <1>0, <1>1, <1>13, <2>2, OwedKept
    DEF GetData, CacheMiss, QueryTotals, QueryGroups, dashboard
  <2>3. CASE CacheHit(u) \/ Store(u) \/ QueryFails(u)
    BY <1>0, <1>1, <1>13, <2>3, OwedKept DEF CacheHit, Store, QueryFails, Return
  <2> QED  BY <1>13, <2>1, <2>2, <2>3 DEF Dashboard
<1>14. CASE GetData(v)
  <2>1. at'[v] = "lookup" /\ mark'[v] = Views(received) /\ received' = received
    BY <1>1, <1>14 DEF GetData
  <2> QED  BY <1>2, <2>1 DEF Owed
<1>15. CASE CacheHit(v) \/ Store(v) \/ QueryFails(v)
  <2>1. at'[v] = "idle"
    BY <1>1, <1>15 DEF CacheHit, Store, QueryFails, Return
  <2> QED  BY <2>1 DEF Owed
<1>16. CASE CacheMiss(v)
  <2>1. at[v] = "lookup" /\ at'[v] = "flush" /\ mark' = mark /\ received' = received
    BY <1>1, <1>16 DEF CacheMiss, dashboard
  <2> QED  BY <1>1, <2>1 DEF Owed
<1>17. CASE ViewerFlushes(v)
  <2> DEFINE rest == SumFunctionOnSet(inHand, Flushers \ {v})
  <2>1. /\ at[v] = "flush" /\ mark' = mark /\ table' = table /\ lost' = lost
        /\ excused'[v] = rest
    BY <1>1, <1>17 DEF ViewerFlushes
  <2>2. /\ batch[v] = Zero /\ batch' = [batch EXCEPT ![v] = pending]
        /\ at'[v] = "write" \/ (at'[v] = "query" /\ pending = Zero)
    BY <1>1, <1>17, <2>1, Drains, NextPlace DEF ViewerFlushes
  <2>3. inHand[v] = 0 /\ inHand'[v] = Views(pending)
    <3>1. inHand'[v] = Views(batch'[v])
      BY <1>1 DEF inHand
    <3> QED  BY <1>1, <1>2, <2>2, <3>1, ViewsZero
  <2>4. SumFunctionOnSet(inHand, Flushers) = inHand[v] + rest /\ rest \in Nat
    <3>1. \A f \in Flushers : inHand[f] \in Nat
      BY <1>1, InHandType
    <3>2. IsFiniteSet(Flushers \ {v}) /\ IsFiniteSet(Flushers)
      BY FlushersFinite, FS_Subset
    <3> HIDE DEF inHand
    <3> QED  BY <1>1, <3>1, <3>2, SumRemove, SumType
  <2>5. mark[v] <= Views(received)
    BY <1>1, <2>1 DEF Owed
  <2> HIDE DEF rest, inHand
  <2>6. mark[v] <= Views(table) + Views(lost) + rest + Views(pending)
    BY <1>2, <2>3, <2>4, <2>5 DEF Conserved
  <2>7. CASE at'[v] = "write"
    BY <2>1, <2>3, <2>6, <2>7 DEF Owed
  <2>8. CASE at'[v] = "query" /\ pending = Zero
    <3>1. Views(pending) = 0
      BY <2>8, ViewsZero
    <3>2. mark[v] <= Views(table) + Views(lost) + rest
      BY <1>2, <2>4, <2>6, <3>1
    <3> QED  BY <2>1, <2>8, <3>2 DEF Owed
  <2> QED  BY <2>2, <2>7, <2>8
<1>18. CASE QueryTotals(v)
  <2>1. /\ at[v] = "query" /\ at'[v] = "groups" /\ mark' = mark /\ excused' = excused
        /\ lost' = lost
    BY <1>1, <1>18 DEF QueryTotals
  <2>2. answer'[v].views = Views(table)
    BY <1>1, <1>18 DEF QueryTotals, Aggregate
  <2> QED  BY <1>1, <2>1, <2>2 DEF Owed
<1>19. CASE QueryGroups(v)
  <2>1. /\ at[v] = "groups" /\ at'[v] = "store" /\ mark' = mark /\ excused' = excused
        /\ lost' = lost
    BY <1>1, <1>19 DEF QueryGroups
  <2>2. answer'[v].views = answer[v].views
    BY <1>1, <1>19 DEF QueryGroups, Aggregate
  <2> QED  BY <1>1, <2>1, <2>2 DEF Owed
<1>20. ASSUME NEW u \in Viewers, Dashboard(u) PROVE Owed(v)'
  BY <1>13, <1>14, <1>15, <1>16, <1>17, <1>18, <1>19, <1>20 DEF Dashboard
<1> QED
  BY <1>4, <1>5, <1>6, <1>7, <1>8, <1>9, <1>10, <1>11, <1>12, <1>20 DEF Next, Flush, Close
-----------------------------------------------------------------------------
(* The age of the cache.                                                   *)

LEMMA AgedStep ==
  ASSUME TypeOK, TypeOK', Conserved, Aged, [Next]_vars
  PROVE  Aged'
<1>0. /\ Views(table) <= Views(table') /\ Views(table) \in Nat /\ Views(table') \in Nat
      /\ snapshot \in [0..MaxTime -> Nat] /\ MaxTime \in Nat /\ CacheTTL \in Nat
      /\ now \in 0..MaxTime /\ at \in [Flushers -> Place]
      /\ asked \in [Viewers -> 0..MaxTime] /\ answer \in [Viewers -> Aggregate]
      /\ cached \in Aggregate \cup {None} /\ cachedUntil \in Nat
      /\ Viewers \subseteq Flushers
      /\ \A v \in Viewers : v # "worker" /\ v # "close"
  BY ConservedStep, ViewsType, AnalyticsAssumption DEF TypeOK, Types, Place, Flushers
<1>1. CASE Tick
  <2>1. /\ now' = now + 1 /\ snapshot' = [snapshot EXCEPT ![now + 1] = Views(table)]
        /\ table' = table /\ at' = at /\ asked' = asked /\ answer' = answer
        /\ cached' = cached /\ cachedUntil' = cachedUntil
    BY <1>1 DEF Tick, cache, dashboard
  <2>2. \A t \in 0..MaxTime : t # now + 1 => snapshot'[t] = snapshot[t]
    BY <1>0, <2>1
  <2>3. \A t \in 0..MaxTime : snapshot'[t] <= Views(table')
    <3> SUFFICES ASSUME NEW t \in 0..MaxTime PROVE snapshot'[t] <= Views(table)
      BY <2>1
    <3>1. CASE t = now + 1
      BY <1>0, <2>1, <3>1
    <3>2. CASE t # now + 1
      BY <2>2, <3>2 DEF Aged
    <3> QED  BY <3>1, <3>2
  <2>4. ASSUME NEW v \in Viewers PROVE AgedAnswer(v)'
    <3>1. AgedAnswer(v) /\ asked[v] \in Nat
      BY <1>0 DEF Aged
    <3>2. \A t \in 0..MaxTime : t <= asked[v] => t # now + 1
      BY <1>0, <3>1 DEF AgedAnswer
    <3> QED  BY <1>0, <2>1, <2>2, <3>1, <3>2 DEF AgedAnswer
  <2>5. AgedCache'
    <3>1. ASSUME cached # None
          PROVE  \A t \in 0..MaxTime : t + CacheTTL < cachedUntil => t # now + 1
      BY <1>0, <3>1 DEF Aged, AgedCache
    <3> QED  BY <1>0, <2>1, <2>2, <3>1 DEF Aged, AgedCache
  <2> QED  BY <2>3, <2>4, <2>5 DEF Aged
<1>2. ASSUME now' = now, snapshot' = snapshot,
             \A v \in Viewers : AgedAnswer(v)', AgedCache'
      PROVE  Aged'
  <2>1. \A t \in 0..MaxTime : snapshot[t] <= Views(table')
    BY <1>0 DEF Aged
  <2> QED  BY <1>2, <2>1 DEF Aged
<1>3. ASSUME NEW v \in Viewers, now' = now, snapshot' = snapshot,
             asked'[v] = asked[v], answer'[v] = answer[v],
             at'[v] \in {"groups", "store"} => at[v] = at'[v]
      PROVE  AgedAnswer(v)'
  BY <1>3 DEF Aged, AgedAnswer
<1>4. ASSUME now' = now, snapshot' = snapshot, cached' = cached, cachedUntil' = cachedUntil
      PROVE  AgedCache'
  BY <1>4 DEF Aged, AgedCache
<1>5. ASSUME NEW f \in Flushers, NEW x \in Place, x \notin {"groups", "store"},
             at' = [at EXCEPT ![f] = x], now' = now, snapshot' = snapshot,
             asked' = asked, answer' = answer, AgedCache'
      PROVE  Aged'
  <2>1. \A v \in Viewers : at'[v] \in {"groups", "store"} => at[v] = at'[v]
    BY <1>0, <1>5
  <2> QED  BY <1>2, <1>3, <1>5, <2>1
<1>6. CASE UNCHANGED vars
  BY <1>2, <1>3, <1>4, <1>6 DEF vars, cache, dashboard
<1>7. ASSUME NEW k \in Keys, Record(k) PROVE Aged'
  BY <1>2, <1>3, <1>4, <1>7 DEF Record, cache, dashboard
<1>8. ASSUME NEW f \in Flushers, WriteCommits(f) PROVE Aged'
  BY <1>4, <1>5, <1>8 DEF WriteCommits, Place, cache, dashboard
<1>9. ASSUME NEW f \in Flushers, WriteFails(f) PROVE Aged'
  BY <1>4, <1>5, <1>9 DEF WriteFails, Place, cache
<1>10. ASSUME NEW f \in Flushers, Invalidate(f) PROVE Aged'
  <2>1. cached' = None /\ next(f) \in Place /\ next(f) \notin {"groups", "store"}
    BY <1>10, NextPlace DEF Invalidate
  <2>2. AgedCache'
    BY <2>1 DEF AgedCache
  <2> QED  BY <1>5, <1>10, <2>1, <2>2 DEF Invalidate, dashboard
<1>11. ASSUME NEW f \in Flushers, NEW S \in SUBSET entries(batch[f]), Restore(f, S)
       PROVE  Aged'
  <2>1. next(f) \in Place /\ next(f) \notin {"groups", "store"}
    BY NextPlace
  <2> QED  BY <1>4, <1>5, <1>11, <2>1 DEF Restore, cache, dashboard
<1>12. ASSUME NEW f \in Flushers, drain(f), now' = now, snapshot' = snapshot,
              asked' = asked, answer' = answer, cached' = cached, cachedUntil' = cachedUntil
       PROVE  Aged'
  <2> DEFINE x == IF entries(pending) = {} THEN next(f) ELSE "write"
  <2>1. x \in Place /\ x \notin {"groups", "store"}
    BY NextPlace DEF Place
  <2>2. at' = [at EXCEPT ![f] = x]
    BY <1>12 DEF drain
  <2> HIDE DEF x
  <2> QED  BY <1>4, <1>5, <1>12, <2>1, <2>2
<1>13. ASSUME NEW requested \in BOOLEAN, WorkerFlushes(requested) PROVE Aged'
  BY <1>12, <1>13 DEF WorkerFlushes, cache, dashboard, Flushers
<1>14. CASE CloseFlushes
  BY <1>12, <1>14 DEF CloseFlushes, cache, dashboard, Flushers
<1>15. CASE WorkerStops
  BY <1>4, <1>5, <1>15 DEF WorkerStops, Place, cache, dashboard, Flushers
<1>16. CASE CloseStops
  BY <1>4, <1>5, <1>16 DEF CloseStops, Place, cache, dashboard, Flushers
<1>17. ASSUME NEW v \in Viewers, ViewerFlushes(v) PROVE Aged'
  BY <1>0, <1>12, <1>17 DEF ViewerFlushes, cache
<1>18. ASSUME NEW v \in Viewers, CacheMiss(v) PROVE Aged'
  BY <1>0, <1>4, <1>5, <1>18 DEF CacheMiss, Place, cache, dashboard
\* Only v, its answer and its time of asking change.
<1>19. ASSUME NEW v \in Viewers, now' = now, snapshot' = snapshot, AgedCache',
              AgedAnswer(v)',
              \A u \in Viewers \ {v} :
                at'[u] = at[u] /\ asked'[u] = asked[u] /\ answer'[u] = answer[u]
       PROVE  Aged'
  BY <1>2, <1>3, <1>19
<1>20. ASSUME NEW v \in Viewers, GetData(v) PROVE Aged'
  <2>1. /\ now' = now /\ snapshot' = snapshot /\ cached' = cached
        /\ cachedUntil' = cachedUntil /\ at'[v] = "lookup" /\ asked'[v] = now
        /\ \A u \in Viewers \ {v} :
             at'[u] = at[u] /\ asked'[u] = asked[u] /\ answer'[u] = answer[u]
    BY <1>0, <1>20 DEF GetData, cache
  <2>2. AgedAnswer(v)'
    BY <1>0, <2>1 DEF AgedAnswer
  <2> QED  BY <1>4, <1>19, <2>1, <2>2
<1>21. ASSUME NEW v \in Viewers, Return(v)
       PROVE  /\ at'[v] = "idle" /\ asked'[v] = 0
              /\ \A u \in Viewers \ {v} :
                   at'[u] = at[u] /\ asked'[u] = asked[u] /\ answer'[u] = answer[u]
  BY <1>0, <1>21 DEF Return
<1>22. ASSUME NEW v \in Viewers, CacheHit(v) \/ QueryFails(v) PROVE Aged'
  <2>1. /\ now' = now /\ snapshot' = snapshot /\ cached' = cached
        /\ cachedUntil' = cachedUntil /\ Return(v)
    BY <1>22 DEF CacheHit, QueryFails, cache
  <2>2. AgedAnswer(v)'
    BY <1>0, <1>21, <2>1 DEF AgedAnswer
  <2> QED  BY <1>4, <1>19, <1>21, <2>1, <2>2
<1>23. ASSUME NEW v \in Viewers, QueryTotals(v) PROVE Aged'
  <2>1. /\ now' = now /\ snapshot' = snapshot /\ cached' = cached
        /\ cachedUntil' = cachedUntil /\ asked' = asked
        /\ \A u \in Viewers \ {v} :
             at'[u] = at[u] /\ asked'[u] = asked[u] /\ answer'[u] = answer[u]
    BY <1>0, <1>23 DEF QueryTotals, cache
  <2>2. answer'[v].views = Views(table)
    BY <1>0, <1>23 DEF QueryTotals, Aggregate
  <2>3. AgedAnswer(v)'
    BY <2>1, <2>2 DEF Aged, AgedAnswer
  <2> QED  BY <1>4, <1>19, <2>1, <2>3
<1>24. ASSUME NEW v \in Viewers, QueryGroups(v) PROVE Aged'
  <2>1. /\ now' = now /\ snapshot' = snapshot /\ cached' = cached
        /\ cachedUntil' = cachedUntil /\ asked' = asked /\ at[v] = "groups"
        /\ \A u \in Viewers \ {v} :
             at'[u] = at[u] /\ asked'[u] = asked[u] /\ answer'[u] = answer[u]
    BY <1>0, <1>24 DEF QueryGroups, cache
  <2>2. answer'[v].views = answer[v].views
    BY <1>0, <1>24 DEF QueryGroups, Aggregate
  <2>3. AgedAnswer(v)'
    BY <2>1, <2>2 DEF Aged, AgedAnswer
  <2> QED  BY <1>4, <1>19, <2>1, <2>3
<1>25. ASSUME NEW v \in Viewers, Store(v) PROVE Aged'
  <2>1. /\ now' = now /\ snapshot' = snapshot /\ Return(v) /\ at[v] = "store"
        /\ cached' = answer[v] /\ cachedUntil' = asked[v] + CacheTTL
    BY <1>25 DEF Store
  <2>2. AgedAnswer(v)'
    BY <1>0, <1>21, <2>1 DEF AgedAnswer
  <2>3. asked[v] \in Nat /\ now \in Nat /\ AgedAnswer(v)
    BY <1>0 DEF Aged
  <2>4. \A t \in 0..MaxTime : t + CacheTTL < asked[v] + CacheTTL => t <= asked[v]
    BY <1>0, <2>3
  <2>5. asked[v] + CacheTTL <= now + CacheTTL
    BY <1>0, <2>3 DEF AgedAnswer
  <2>6. AgedCache'
    BY <2>1, <2>3, <2>4, <2>5 DEF AgedCache, AgedAnswer
  <2> QED  BY <1>19, <1>21, <2>1, <2>2, <2>6
<1> QED
  BY <1>1, <1>6, <1>7, <1>8, <1>9, <1>10, <1>11, <1>13, <1>14, <1>15, <1>16, <1>17,
     <1>18, <1>20, <1>22, <1>23, <1>24, <1>25
  DEF Next, Flush, Close, Dashboard
-----------------------------------------------------------------------------
(* The theorems.                                                           *)

LEMMA IInvInit == Init => IInv
<1> SUFFICES ASSUME Init PROVE IInv
  OBVIOUS
<1>1. /\ \A v \in Viewers : at[v] = "idle" /\ asked[v] = 0
      /\ \A t \in 0..MaxTime : snapshot[t] = 0
      /\ cached = None /\ now = 0 /\ Views(table) = 0
  BY ViewsZero DEF Init, Flushers
<1>2. Fresh
  BY <1>1 DEF Fresh, Owed
<1>3. Aged
  BY <1>1 DEF Aged, AgedAnswer, AgedCache
<1> QED  BY <1>2, <1>3, TypeInit, ConservedInit DEF IInv

LEMMA IInvNext == IInv /\ [Next]_vars => IInv'
  BY TypeStep, ConservedStep, FreshStep, AgedStep DEF IInv

\* The counters are what their types say; and whichever goroutines flush side by
\* side, none holds a batch outside its write or restore (core/analytics/analytics.go:135, Flush).
THEOREM TypeCorrect == Spec => []TypeOK
  BY TypeInit, TypeStep, PTL DEF Spec

\* Analytics implements Ledger: through concurrent drains, failed writes and
\* restores every view waits, is on record, or was counted as dropped, once.
THEOREM AnalyticsKeepsBooks == Spec => BooksKept
  BY InitKeepsBooks, StepKeepsBooks, TypeCorrect, PTL DEF Spec, BooksKept, Books!Spec

\* The books that Ledger describes always balance: every step moves a tally from
\* one column to another, or receives into one.
LEMMA BooksBalance == Books!Spec => [](Books!TypeOK /\ Books!Balanced)
<1>1. Books!Init => Books!TypeOK /\ Books!Balanced
  BY DEF Books!Init, Books!TypeOK, Books!Balanced
<1>2. Books!TypeOK /\ Books!Balanced /\ [Books!Next]_(Books!books)
        => (Books!TypeOK /\ Books!Balanced)'
  <2> SUFFICES ASSUME Books!TypeOK, Books!Balanced, [Books!Next]_(Books!books)
               PROVE  Books!TypeOK' /\ Books!Balanced'
    OBVIOUS
  <2>1. CASE \E k \in Keys : Books!Accept(k)
    BY <2>1 DEF Books!TypeOK, Books!Balanced, Books!Accept
  <2>2. CASE \E k \in Keys : Books!Refuse(k)
    BY <2>2 DEF Books!TypeOK, Books!Balanced, Books!Refuse
  <2>3. CASE Books!Record
    BY <2>3 DEF Books!TypeOK, Books!Balanced, Books!Record, Books!Leave
  <2>4. CASE Books!Shed
    BY <2>4 DEF Books!TypeOK, Books!Balanced, Books!Shed, Books!Leave
  <2>5. CASE UNCHANGED Books!books
    BY <2>5 DEF Books!TypeOK, Books!Balanced, Books!books
  <2> QED  BY <2>1, <2>2, <2>3, <2>4, <2>5 DEF Books!Next
<1> QED  BY <1>1, <1>2, PTL DEF Books!Spec

\* Hence the columns balance per key, whatever the number of dashboards.
THEOREM ViewsConserved == Spec => []Books!Balanced
  BY AnalyticsKeepsBooks, BooksBalance, PTL DEF BooksKept

\* What a dashboard queries after its own flush has every view that was recorded
\* before it was asked, but for those it is excused from.
THEOREM AnswersAreFresh == Spec => []FreshAnswer
<1>1. IInv => FreshAnswer
  <2> SUFFICES ASSUME IInv, NEW v \in Viewers, at[v] \in {"groups", "store"}
               PROVE  answer[v].views + excused[v] + Views(lost) >= mark[v]
    BY DEF FreshAnswer
  <2>1. /\ mark[v] \in Nat /\ excused[v] \in Nat /\ answer[v].views \in Nat
        /\ Views(lost) \in Nat
    BY Numbers DEF IInv
  <2>2. mark[v] <= answer[v].views + Views(lost) + excused[v]
    BY DEF IInv, Fresh, Owed
  <2> QED  BY <2>1, <2>2
<1> QED  BY <1>1, IInvInit, IInvNext, PTL DEF Spec

\* However fills and invalidations of the cache overlap, what is served from it
\* has every row that was written CacheTTL before it was asked for.
THEOREM CacheIsYoung == Spec => []ServedWithinTTL
<1>1. IInv => ServedWithinTTL
  <2> SUFFICES ASSUME IInv, NEW v \in Viewers, cached # None, asked[v] < cachedUntil,
                      asked[v] >= CacheTTL
               PROVE  cached.views >= snapshot[asked[v] - CacheTTL]
    BY DEF ServedWithinTTL
  <2>1. /\ asked[v] \in 0..MaxTime /\ CacheTTL \in Nat /\ MaxTime \in Nat
        /\ cached \in Aggregate /\ snapshot \in [0..MaxTime -> Nat]
    BY AnalyticsAssumption DEF IInv, TypeOK, Types
  <2>2. /\ asked[v] - CacheTTL \in 0..MaxTime
        /\ (asked[v] - CacheTTL) + CacheTTL < cachedUntil
    BY <2>1
  <2>3. snapshot[asked[v] - CacheTTL] <= cached.views
    BY <2>2 DEF IInv, Aged, AgedCache
  <2>4. snapshot[asked[v] - CacheTTL] \in Nat /\ cached.views \in Nat
    BY <2>1, <2>2 DEF Aggregate
  <2> QED  BY <2>3, <2>4
<1> QED  BY <1>1, IInvInit, IInvNext, PTL DEF Spec
-----------------------------------------------------------------------------
(* The inductive invariant of Visits.                                      *)

Paths == {visit[2] : visit \in Visit} \cup {OverflowPath, Absent}

VisitCall == [pc : {"idle", "classify", "record"}, at : 0..MaxMinutes,
              visitor : Visitor \cup {Absent}, path : Paths,
              class : {"new", "continued", "returning", Absent}]

Activities == [buckets : [0..Buckets - 1 -> Nat], idx : 0..Buckets - 1,
               stamp : 0..MaxMinutes, total : Nat, peak : Nat]

Rings == [ring : [0..RingSize - 1 -> Paths], head : 0..RingSize - 1, count : 0..RingSize]

Tallies == [last : [Visitor -> Nat \cup {Absent}], latest : Nat, roomy : BOOLEAN,
            count : Nat, visits : Seq(Paths), minutes : [0..MaxMinutes -> Nat],
            turns : [Date -> Nat]]

VisitsTyped ==
  /\ minute \in 0..MaxMinutes
  /\ call \in [Goroutine -> VisitCall]
  /\ \A g \in Goroutine : call[g].pc # "idle" => call[g].visitor \in Visitor
  /\ gens \in [1..Generations -> [Visitor -> Nat \cup {Absent}]]
  /\ lastRotate \in Nat
  /\ budget \in [date : Date \cup {Absent}, paths : SUBSET Paths]
  /\ recent \in Rings
  /\ activity \in Activities
  /\ seen \in Tallies

Holders(gen) == {v \in Visitor : gen[v] # Absent}

\* No generation of G holds more than it may.
Fitting(G) ==
  \A i \in 1..Generations :
    IsFiniteSet(Holders(G[i])) /\ Cardinality(Holders(G[i])) <= MaxPerGen

\* A visitor is in one generation at most, with the time it was last seen.
Apart(G, last) ==
  \A v \in Visitor :
    /\ \A i, j \in 1..Generations : G[i][v] # Absent /\ G[j][v] # Absent => i = j
    /\ \A i \in 1..Generations : G[i][v] # Absent => G[i][v] = last[v]

\* Where the visitors are that were seen at last, when no generation was full and
\* the generations rotated at rot: those of the running window in the first, and
\* whoever is in neither of the first two is too long ago.
Sorted(G, rot, last) ==
  \A v \in Visitor : last[v] # Absent =>
    /\ last[v] < rot + SessionWindow
    /\ G[1][v] = Absent => last[v] < rot
    /\ (Generations >= 2 /\ G[1][v] = Absent /\ G[2][v] = Absent)
         => last[v] + SessionWindow <= rot

Sessions ==
  /\ lastRotate <= seen.latest
  /\ Apart(gens, seen.last)
  /\ seen.roomy = TRUE => Sorted(gens, lastRotate, seen.last)

Named(d) == {row \in rows : row[2] = d /\ row[1] # OverflowPath}

\* What the budget of the running date has left.
Left(d) == IF budget.date = d THEN MaxDistinctPaths - Cardinality(budget.paths) ELSE 0

Budgeted ==
  /\ IsFiniteSet(rows) /\ IsFiniteSet(budget.paths)
  /\ Cardinality(budget.paths) <= MaxDistinctPaths
  /\ \A p \in budget.paths : p # OverflowPath => <<p, budget.date>> \in rows
  /\ \A d \in Date : Cardinality(Named(d)) + Left(d) <= MaxDistinctPaths * seen.turns[d]

\* The place of the i-th newest of a ring of n whose next place is h.
Slot(h, i, n) == (h - i + n * 2) % n

Recorded(r, visits) ==
  /\ Len(visits) = r.count
  /\ \A i \in 1..r.count : visits[i] = r.ring[Slot(r.head, i, RingSize)]

\* The bucket of the minute j minutes before that of bucket idx, of n buckets.
Bucket(idx, j, n) == (idx + n - j) % n

Past(a, minutes, j) == IF a.stamp - j \in Nat THEN minutes[a.stamp - j] ELSE 0

Booked(a, minutes) ==
  /\ a.total = SumFunctionOnSet(a.buckets, 0..Buckets - 1)
  /\ a.total <= a.peak
  /\ \A j \in 0..Buckets - 1 : a.buckets[Bucket(a.idx, j, Buckets)] = Past(a, minutes, j)
  /\ \A t \in 0..MaxMinutes : t > a.stamp => minutes[t] = 0

VisitsInv ==
  /\ VisitsTyped
  /\ Fitting(gens) /\ Sessions /\ Budgeted
  /\ Recorded(recent, seen.visits) /\ Booked(activity, seen.minutes)
-----------------------------------------------------------------------------
(* The visitor tracker.                                                    *)

\* One more fits where fewer than n are.
LEMMA AddOne ==
  ASSUME NEW S, IsFiniteSet(S), NEW x, NEW n \in Nat, Cardinality(S) < n
  PROVE  /\ IsFiniteSet(S \cup {x}) /\ Cardinality(S \cup {x}) <= n
         /\ Cardinality(S \cup {x}) \in Nat
<1>1. IsFiniteSet(S \cup {x}) /\ Cardinality(S) \in Nat
  BY FS_AddElement, FS_CardinalityType
<1>2. Cardinality(S \cup {x}) = IF x \in S THEN Cardinality(S) ELSE Cardinality(S) + 1
  BY FS_AddElement
<1>. QED BY <1>1, <1>2

GenSet == [1..Generations -> [Visitor -> Nat \cup {Absent}]]
LastSet == [Visitor -> Nat \cup {Absent}]
Shift(G) == [i \in 1..Generations |-> IF i = 1 THEN Nobody ELSE G[i - 1]]

LEMMA NobodyType == Nobody \in LastSet /\ Holders(Nobody) = {} /\ \A v \in Visitor : Nobody[v] = Absent
BY DEF Nobody, LastSet, Holders

LEMMA ShiftType ==
  ASSUME NEW G \in GenSet
  PROVE  /\ Shift(G) \in GenSet /\ Shift(G)[1] = Nobody
         /\ \A i \in 1..Generations : i # 1 => i - 1 \in 1..Generations /\ Shift(G)[i] = G[i - 1]
<1>1. 1 \in 1..Generations /\ \A i \in 1..Generations : i # 1 => i - 1 \in 1..Generations
  BY VisitsAssumption
<1>. QED BY <1>1, NobodyType DEF Shift, GenSet, LastSet

LEMMA ShiftFits ==
  ASSUME NEW G \in GenSet, Fitting(G)
  PROVE  Fitting(Shift(G)) /\ Cardinality(Holders(Shift(G)[1])) < MaxPerGen
<1>1. IsFiniteSet(Holders(Nobody)) /\ Cardinality(Holders(Nobody)) = 0
  BY NobodyType, FS_EmptySet
<1>2. 0 < MaxPerGen
  BY VisitsAssumption
<1>3. ASSUME NEW i \in 1..Generations
      PROVE  /\ IsFiniteSet(Holders(Shift(G)[i]))
             /\ Cardinality(Holders(Shift(G)[i])) <= MaxPerGen
  <2>1. CASE i = 1
    <3>1. Shift(G)[i] = Nobody
      BY <2>1, ShiftType
    <3>. QED BY <1>1, <1>2, <3>1, VisitsAssumption
  <2>2. CASE i # 1
    <3>1. i - 1 \in 1..Generations /\ Shift(G)[i] = G[i - 1]
      BY <2>2, ShiftType
    <3>. QED BY <3>1 DEF Fitting
  <2>. QED BY <2>1, <2>2
<1>. QED BY <1>1, <1>2, <1>3, ShiftType DEF Fitting

LEMMA ShiftApart ==
  ASSUME NEW G \in GenSet, NEW last \in LastSet, Apart(G, last)
  PROVE  Apart(Shift(G), last)
<1> SUFFICES ASSUME NEW v \in Visitor
             PROVE  /\ \A i, j \in 1..Generations :
                         Shift(G)[i][v] # Absent /\ Shift(G)[j][v] # Absent => i = j
                    /\ \A i \in 1..Generations : Shift(G)[i][v] # Absent => Shift(G)[i][v] = last[v]
  BY DEF Apart
<1>1. \A i \in 1..Generations : Shift(G)[i][v] # Absent =>
        /\ i - 1 \in 1..Generations
        /\ Shift(G)[i][v] = G[i - 1][v]
  BY ShiftType, NobodyType
<1>2. ASSUME NEW i \in 1..Generations, NEW j \in 1..Generations,
             Shift(G)[i][v] # Absent, Shift(G)[j][v] # Absent
      PROVE  i = j
  <2>1. i - 1 = j - 1
    BY <1>1, <1>2 DEF Apart
  <2>. QED BY <2>1
<1>. QED BY <1>1, <1>2 DEF Apart

LEMMA ShiftSorted ==
  ASSUME NEW G \in GenSet, NEW last \in LastSet, NEW rot \in Nat, NEW t \in Nat,
         Sorted(G, rot, last), t - rot >= SessionWindow
  PROVE  Sorted(Shift(G), t, last)
<1> SUFFICES ASSUME NEW v \in Visitor, last[v] # Absent
             PROVE  /\ last[v] < t + SessionWindow
                    /\ last[v] < t
                    /\ (Generations >= 2 /\ Shift(G)[2][v] = Absent)
                         => last[v] + SessionWindow <= t
  BY DEF Sorted
<1>1. last[v] \in Nat /\ last[v] < rot + SessionWindow /\ SessionWindow \in Nat
  BY VisitsAssumption DEF Sorted, LastSet
<1>2. ASSUME Generations >= 2, Shift(G)[2][v] = Absent
      PROVE  last[v] < rot
  <2>1. 2 \in 1..Generations /\ 2 # 1 /\ 2 - 1 = 1
    BY <1>2, VisitsAssumption
  <2>2. Shift(G)[2] = G[1]
    BY <2>1, ShiftType
  <2>. QED BY <1>2, <2>2 DEF Sorted
<1>. QED BY <1>1, <1>2

\* Under Apart a visitor is held once, or not at all.
LEMMA HeldOnce ==
  ASSUME NEW G \in GenSet, NEW last \in LastSet, Apart(G, last), NEW v \in Visitor,
         Held(G, v) # {}
  PROVE  /\ Newest(Held(G, v)) \in 1..Generations
         /\ Held(G, v) = {Newest(Held(G, v))}
         /\ G[Newest(Held(G, v))][v] = last[v]
         /\ last[v] # Absent
<1> DEFINE held == Held(G, v)
<1>1. \A i, j \in held : i = j
  BY DEF Apart, Held
<1>2. \A i \in held : i \in 1..Generations /\ G[i][v] # Absent /\ G[i][v] = last[v]
  BY DEF Apart, Held
<1>3. Newest(held) \in held
  <2>1. \E i \in held : \A j \in held : i <= j
    BY <1>1, <1>2, VisitsAssumption
  <2> HIDE DEF held
  <2>. QED BY <2>1 DEF Newest
<1>4. held = {Newest(held)}
  <2> HIDE DEF held
  <2>. QED BY <1>1, <1>3
<1>. QED BY <1>2, <1>3, <1>4

\* What promoted does to each generation.
LEMMA PromotedIs ==
  ASSUME NEW G \in GenSet, NEW last \in LastSet, Apart(G, last), NEW v \in Visitor, NEW t \in Nat
  PROVE  /\ promoted(G, v, t) \in GenSet
         /\ \A i \in 1..Generations :
              /\ promoted(G, v, t)[i][v] = IF i = 1 THEN t ELSE Absent
              /\ \A w \in Visitor : w # v => promoted(G, v, t)[i][w] = G[i][w]
<1> DEFINE P == promoted(G, v, t)
<1>1. ASSUME NEW i \in 1..Generations
      PROVE  /\ P[i] \in [Visitor -> Nat \cup {Absent}]
             /\ P[i][v] = IF i = 1 THEN t ELSE Absent
             /\ \A w \in Visitor : w # v => P[i][w] = G[i][w]
  <2>0. G[i] \in [Visitor -> Nat \cup {Absent}]
    BY DEF GenSet
  <2>1. CASE i = 1
    <3>1. P[i] = [G[i] EXCEPT ![v] = t]
      BY <2>1 DEF promoted
    <3> HIDE DEF P
    <3>. QED BY <2>0, <2>1, <3>1
  <2>2. CASE i # 1 /\ Held(G, v) # {} /\ i = Newest(Held(G, v))
    <3>1. P[i] = [G[i] EXCEPT ![v] = Absent]
      BY <2>2 DEF promoted
    <3> HIDE DEF P
    <3>. QED BY <2>0, <2>2, <3>1
  <2>3. CASE i # 1 /\ ~(Held(G, v) # {} /\ i = Newest(Held(G, v)))
    <3>1. P[i] = G[i]
      BY <2>3 DEF promoted
    <3>2. i \notin Held(G, v)
      BY <2>3, HeldOnce
    <3>3. G[i][v] = Absent
      BY <3>2 DEF Held
    <3> HIDE DEF P
    <3>. QED BY <2>0, <2>3, <3>1, <3>3
  <2>. QED BY <2>1, <2>2, <2>3
<1>2. P = [i \in 1..Generations |-> P[i]]
  BY DEF promoted
<1>3. P \in GenSet
  <2> HIDE DEF P
  <2>. QED BY <1>1, <1>2 DEF GenSet
<1>. QED BY <1>1, <1>3

LEMMA PromotedFits ==
  ASSUME NEW G \in GenSet, NEW last \in LastSet, Apart(G, last), NEW v \in Visitor, NEW t \in Nat,
         Fitting(G), Cardinality(Holders(G[1])) < MaxPerGen
  PROVE  Fitting(promoted(G, v, t))
<1> DEFINE P == promoted(G, v, t)
<1> SUFFICES ASSUME NEW i \in 1..Generations
             PROVE  /\ IsFiniteSet(Holders(P[i])) /\ Cardinality(Holders(P[i])) <= MaxPerGen
  BY DEF Fitting
<1>1. /\ P[i][v] = IF i = 1 THEN t ELSE Absent
      /\ \A w \in Visitor : w # v => P[i][w] = G[i][w]
  BY PromotedIs
<1> HIDE DEF P
<1> DEFINE H == Holders(G[i])
<1>2. IsFiniteSet(H) /\ Cardinality(H) <= MaxPerGen /\ MaxPerGen \in Nat
  BY VisitsAssumption DEF Fitting
<1>3. CASE i = 1
  <2>1. Holders(P[i]) \in SUBSET (H \cup {v})
    BY <1>1 DEF Holders
  <2>2. Cardinality(H) < MaxPerGen
    BY <1>3
  <2> HIDE DEF H
  <2>3. IsFiniteSet(H \cup {v}) /\ Cardinality(H \cup {v}) <= MaxPerGen
        /\ Cardinality(H \cup {v}) \in Nat
    BY <1>2, <2>2, AddOne
  <2>4. /\ IsFiniteSet(Holders(P[i])) /\ Cardinality(Holders(P[i])) <= Cardinality(H \cup {v})
        /\ Cardinality(Holders(P[i])) \in Nat
    BY <2>1, <2>3, FS_Subset, FS_CardinalityType
  <2>. QED BY <1>2, <2>3, <2>4
<1>4. CASE i # 1
  <2>1. Holders(P[i]) \in SUBSET H
    BY <1>1, <1>4 DEF Holders
  <2> HIDE DEF H
  <2>2. /\ IsFiniteSet(Holders(P[i])) /\ Cardinality(Holders(P[i])) <= Cardinality(H)
        /\ Cardinality(Holders(P[i])) \in Nat /\ Cardinality(H) \in Nat
    BY <1>2, <2>1, FS_Subset, FS_CardinalityType
  <2>. QED BY <1>2, <2>2
<1>. QED BY <1>3, <1>4

LEMMA PromotedApart ==
  ASSUME NEW G \in GenSet, NEW last \in LastSet, Apart(G, last), NEW v \in Visitor, NEW t \in Nat
  PROVE  Apart(promoted(G, v, t), [last EXCEPT ![v] = t])
<1> DEFINE P == promoted(G, v, t)
           L == [last EXCEPT ![v] = t]
<1>1. \A i \in 1..Generations :
        /\ P[i][v] = IF i = 1 THEN t ELSE Absent
        /\ \A w \in Visitor : w # v => P[i][w] = G[i][w]
  BY PromotedIs
<1>2. L[v] = t /\ \A w \in Visitor : w # v => L[w] = last[w]
  BY DEF LastSet
<1> HIDE DEF P, L
<1>3. ASSUME NEW w \in Visitor
      PROVE  /\ \A i, j \in 1..Generations : P[i][w] # Absent /\ P[j][w] # Absent => i = j
             /\ \A i \in 1..Generations : P[i][w] # Absent => P[i][w] = L[w]
  <2>1. CASE w = v
    BY <1>1, <1>2, <2>1
  <2>2. CASE w # v
    <3>1. L[w] = last[w] /\ \A i \in 1..Generations : P[i][w] = G[i][w]
      BY <1>1, <1>2, <2>2
    <3>. QED BY <3>1 DEF Apart
  <2>. QED BY <2>1, <2>2
<1>. QED BY <1>3 DEF Apart, P, L

LEMMA PromotedSorted ==
  ASSUME NEW G \in GenSet, NEW last \in LastSet, Apart(G, last), NEW v \in Visitor, NEW t \in Nat,
         NEW rot \in Nat, Sorted(G, rot, last), t < rot + SessionWindow
  PROVE  Sorted(promoted(G, v, t), rot, [last EXCEPT ![v] = t])
<1> DEFINE P == promoted(G, v, t)
           L == [last EXCEPT ![v] = t]
<1>1. \A i \in 1..Generations :
        /\ P[i][v] = IF i = 1 THEN t ELSE Absent
        /\ \A w \in Visitor : w # v => P[i][w] = G[i][w]
  BY PromotedIs
<1>2. L[v] = t /\ \A w \in Visitor : w # v => L[w] = last[w]
  BY DEF LastSet
<1>3. 1 \in 1..Generations /\ (Generations >= 2 => 2 \in 1..Generations) /\ t # Absent
  BY VisitsAssumption
<1> HIDE DEF P, L
<1>4. ASSUME NEW w \in Visitor, L[w] # Absent
      PROVE  /\ L[w] < rot + SessionWindow
             /\ P[1][w] = Absent => L[w] < rot
             /\ (Generations >= 2 /\ P[1][w] = Absent /\ P[2][w] = Absent)
                  => L[w] + SessionWindow <= rot
  <2>1. CASE w = v
    <3>1. P[1][w] = t /\ L[w] = t
      BY <1>1, <1>2, <1>3, <2>1
    <3>. QED BY <1>3, <3>1
  <2>2. CASE w # v
    <3>1. L[w] = last[w] /\ P[1][w] = G[1][w] /\ (Generations >= 2 => P[2][w] = G[2][w])
      BY <1>1, <1>2, <1>3, <2>2
    <3>. QED BY <1>4, <3>1 DEF Sorted
  <2>. QED BY <2>1, <2>2
<1>. QED BY <1>4 DEF Sorted, P, L

\* The class that classify finds.
Class(G, v, t) ==
  CASE Held(G, v) = {} -> "new"
    [] Held(G, v) # {} /\ t - G[Newest(Held(G, v))][v] < SessionWindow -> "continued"
    [] OTHER -> "returning"

LEMMA ClassRight ==
  ASSUME NEW G \in GenSet, NEW last \in LastSet, Apart(G, last), NEW v \in Visitor,
         NEW t \in Nat, NEW rot \in Nat
  PROVE  /\ Class(G, v, t) \in {"new", "continued", "returning"}
         /\ Class(G, v, t) = "continued" => last[v] # Absent /\ t - last[v] < SessionWindow
         /\ last[v] = Absent => Class(G, v, t) = "new"
         /\ (/\ Generations >= 2 /\ Sorted(G, rot, last) /\ rot <= t
             /\ last[v] # Absent /\ t - last[v] < SessionWindow) => Class(G, v, t) = "continued"
<1> DEFINE held == Held(G, v)
<1>1. CASE held = {}
  <2>1. Class(G, v, t) = "new"
    BY <1>1 DEF Class
  <2>2. ASSUME Generations >= 2, Sorted(G, rot, last), rot <= t,
               last[v] # Absent, t - last[v] < SessionWindow
        PROVE  FALSE
    <3>1. 1 \in 1..Generations /\ 2 \in 1..Generations
      BY <2>2, VisitsAssumption
    <3>2. G[1][v] = Absent /\ G[2][v] = Absent
      BY <1>1, <3>1 DEF Held
    <3>3. last[v] + SessionWindow <= rot
      BY <2>2, <3>2 DEF Sorted
    <3>4. last[v] \in Nat /\ SessionWindow \in Nat
      BY <2>2, VisitsAssumption DEF LastSet
    <3>. QED BY <2>2, <3>3, <3>4
  <2>. QED BY <2>1, <2>2
<1>2. CASE held # {}
  <2>1. G[Newest(held)][v] = last[v] /\ last[v] # Absent
    BY <1>2, HeldOnce
  <2>2. CASE t - last[v] < SessionWindow
    <3>1. Class(G, v, t) = "continued"
      BY <1>2, <2>1, <2>2 DEF Class
    <3>. QED BY <2>1, <2>2, <3>1
  <2>3. CASE ~(t - last[v] < SessionWindow)
    <3>1. Class(G, v, t) = "returning"
      BY <1>2, <2>1, <2>3 DEF Class
    <3>. QED BY <2>1, <2>3, <3>1
  <2>. QED BY <2>2, <2>3
<1>. QED BY <1>1, <1>2

\* When the generations rotated, after a visit at t has been let in.
Turned(t) == IF rotateIfNeeded(t) THEN t ELSE lastRotate

LEMMA RotatedRight ==
  ASSUME VisitsTyped, Fitting(gens), Sessions, NEW t \in Nat
  PROVE  /\ rotated(t) \in GenSet /\ Fitting(rotated(t)) /\ Apart(rotated(t), seen.last)
         /\ Cardinality(Holders(rotated(t)[1])) < MaxPerGen
         /\ Turned(t) \in Nat
         /\ seen.roomy = TRUE /\ size(gens[1]) < MaxPerGen =>
              Sorted(rotated(t), Turned(t), seen.last) /\ t < Turned(t) + SessionWindow
<1>1. /\ gens \in GenSet /\ seen.last \in LastSet /\ lastRotate \in Nat
      /\ Apart(gens, seen.last)
  BY DEF VisitsTyped, GenSet, LastSet, Tallies, Sessions
<1>2. size(gens[1]) = Cardinality(Holders(gens[1]))
  BY DEF size, Holders
<1>3. MaxPerGen \in Nat /\ SessionWindow \in Nat \ {0} /\ 1 \in 1..Generations
  BY VisitsAssumption
<1>4. Cardinality(Holders(gens[1])) \in Nat
  BY <1>3, FS_CardinalityType DEF Fitting
<1>5. CASE rotateIfNeeded(t)
  <2>1. rotated(t) = Shift(gens) /\ Turned(t) = t
    BY <1>5 DEF rotated, Shift, Turned
  <2>2. /\ Shift(gens) \in GenSet /\ Fitting(Shift(gens)) /\ Apart(Shift(gens), seen.last)
        /\ Cardinality(Holders(Shift(gens)[1])) < MaxPerGen
    BY <1>1, ShiftType, ShiftFits, ShiftApart
  <2>3. ASSUME seen.roomy = TRUE, size(gens[1]) < MaxPerGen
        PROVE  Sorted(Shift(gens), t, seen.last)
    <3>1. t - lastRotate >= SessionWindow
      BY <1>2, <1>3, <1>4, <1>5, <2>3 DEF rotateIfNeeded
    <3>2. Sorted(gens, lastRotate, seen.last)
      BY <2>3 DEF Sessions
    <3>. QED BY <1>1, <3>1, <3>2, ShiftSorted
  <2>4. t < t + SessionWindow
    BY <1>3
  <2>. QED BY <2>1, <2>2, <2>3, <2>4
<1>6. CASE ~rotateIfNeeded(t)
  <2>1. rotated(t) = gens /\ Turned(t) = lastRotate
    BY <1>6 DEF rotated, Turned
  <2>2. /\ Cardinality(Holders(gens[1])) < MaxPerGen
        /\ t < lastRotate + SessionWindow
    BY <1>1, <1>2, <1>3, <1>4, <1>6 DEF rotateIfNeeded
  <2>3. seen.roomy = TRUE => Sorted(gens, lastRotate, seen.last)
    BY DEF Sessions
  <2>. QED BY <1>1, <2>1, <2>2, <2>3
<1>. QED BY <1>5, <1>6

\* What a step of classify does.
LEMMA ClassifyIs ==
  ASSUME VisitsTyped, NEW g \in Goroutine, classify(g)
  PROVE  \E v \in Visitor, t \in 0..MaxMinutes :
           /\ t = call[g].at /\ v = call[g].visitor /\ t <= MaxMinutes
           /\ call' = [call EXCEPT ![g].pc = "record", ![g].class = Class(rotated(t), v, t)]
           /\ gens' = promoted(rotated(t), v, t)
           /\ lastRotate' = Turned(t)
           /\ seen' = [seen EXCEPT !.last[v] = t, !.latest = IF t > @ THEN t ELSE @,
                                   !.roomy = @ /\ size(gens[1]) < MaxPerGen]
           /\ UNCHANGED <<minute, aggregator>>
<1>1. call[g].pc = "classify"
  BY Zenon DEF classify
<1>2. call[g].visitor \in Visitor /\ call[g].at \in 0..MaxMinutes
  BY <1>1 DEF VisitsTyped, VisitCall
<1>3. PICK v \in Visitor, t \in 0..MaxMinutes : v = call[g].visitor /\ t = call[g].at
  BY <1>2
<1>4. t <= MaxMinutes
  BY VisitsAssumption
<1>5. /\ call' = [call EXCEPT ![g].pc = "record", ![g].class = Class(rotated(t), v, t)]
      /\ gens' = promoted(rotated(t), v, t)
      /\ lastRotate' = Turned(t)
      /\ seen' = [seen EXCEPT !.last[v] = t, !.latest = IF t > @ THEN t ELSE @,
                              !.roomy = @ /\ size(gens[1]) < MaxPerGen]
      /\ UNCHANGED <<minute, aggregator>>
  BY <1>3, Zenon DEF classify, Class, Turned
<1>. QED BY <1>3, <1>4, <1>5

LEMMA ClassifyKeeps ==
  ASSUME VisitsInv, NEW g \in Goroutine, classify(g)
  PROVE  /\ VisitsInv'
         /\ Deserves(call'[g].class, seen.last[call[g].visitor], call[g].at, seen'.roomy)
<1>0. VisitsTyped /\ Fitting(gens) /\ Sessions
  BY DEF VisitsInv
<1>1. PICK v \in Visitor, t \in 0..MaxMinutes :
        /\ t = call[g].at /\ v = call[g].visitor /\ t <= MaxMinutes
        /\ call' = [call EXCEPT ![g].pc = "record", ![g].class = Class(rotated(t), v, t)]
        /\ gens' = promoted(rotated(t), v, t)
        /\ lastRotate' = Turned(t)
        /\ seen' = [seen EXCEPT !.last[v] = t, !.latest = IF t > @ THEN t ELSE @,
                                !.roomy = @ /\ size(gens[1]) < MaxPerGen]
        /\ UNCHANGED <<minute, aggregator>>
  BY <1>0, ClassifyIs
<1>2. PICK G, rot, class, last, latest :
        /\ G = rotated(t) /\ rot = Turned(t) /\ class = Class(rotated(t), v, t)
        /\ last = seen.last /\ latest = seen.latest
  OBVIOUS
<1>3. t \in Nat
  BY VisitsAssumption
<1>4. /\ G \in GenSet /\ Fitting(G) /\ Apart(G, last) /\ Cardinality(Holders(G[1])) < MaxPerGen
      /\ rot \in Nat
      /\ seen.roomy = TRUE /\ size(gens[1]) < MaxPerGen =>
           Sorted(G, rot, last) /\ t < rot + SessionWindow
  BY <1>0, <1>2, <1>3, RotatedRight
<1>5. last \in LastSet /\ latest \in Nat /\ seen \in Tallies
  BY <1>0, <1>2 DEF VisitsTyped, Tallies, LastSet
<1>6. /\ class \in {"new", "continued", "returning"}
      /\ class = "continued" => last[v] # Absent /\ t - last[v] < SessionWindow
      /\ last[v] = Absent => class = "new"
      /\ (/\ Generations >= 2 /\ Sorted(G, rot, last) /\ rot <= t
          /\ last[v] # Absent /\ t - last[v] < SessionWindow) => class = "continued"
  BY <1>2, <1>3, <1>4, <1>5, ClassRight
<1>7. /\ seen'.last = [last EXCEPT ![v] = t]
      /\ seen'.latest = IF t > latest THEN t ELSE latest
      /\ seen'.visits = seen.visits /\ seen'.minutes = seen.minutes
      /\ seen'.turns = seen.turns /\ seen'.count = seen.count
      /\ seen' \in Tallies
  <2>1. seen.last \in LastSet /\ seen.roomy \in BOOLEAN
    BY <1>5 DEF Tallies, LastSet
  <2>2. [seen.last EXCEPT ![v] = t] \in LastSet
    BY <1>3, <2>1 DEF LastSet
  <2>3. (IF t > latest THEN t ELSE latest) \in Nat
    BY <1>3, <1>5
  <2>4. (seen.roomy /\ size(gens[1]) < MaxPerGen) \in BOOLEAN
    OBVIOUS
  <2>. QED BY <1>1, <1>2, <1>5, <2>2, <2>3, <2>4 DEF Tallies, LastSet
<1>8. seen'.roomy = TRUE => seen.roomy = TRUE /\ size(gens[1]) < MaxPerGen
  <2>1. seen'.roomy = (seen.roomy /\ size(gens[1]) < MaxPerGen)
    BY <1>1, <1>5 DEF Tallies
  <2>2. seen.roomy \in BOOLEAN
    BY <1>5 DEF Tallies
  <2>. QED BY <2>1, <2>2
<1>9. call'[g].class = class /\ call' \in [Goroutine -> VisitCall]
      /\ \A h \in Goroutine : call'[h].pc # "idle" => call'[h].visitor \in Visitor
  <2>1. call \in [Goroutine -> VisitCall] /\ call[g] \in VisitCall
        /\ \A h \in Goroutine : call[h].pc # "idle" => call[h].visitor \in Visitor
    BY <1>0 DEF VisitsTyped
  <2>2. call' = [call EXCEPT ![g] = [call[g] EXCEPT !.pc = "record", !.class = class]]
    BY <1>1, <1>2, <2>1
  <2>3. [call[g] EXCEPT !.pc = "record", !.class = class] \in VisitCall
    BY <1>6, <2>1 DEF VisitCall
  <2>4. [call[g] EXCEPT !.pc = "record", !.class = class].class = class
        /\ [call[g] EXCEPT !.pc = "record", !.class = class].visitor = v
    BY <1>1, <2>1 DEF VisitCall
  <2>. QED BY <2>1, <2>2, <2>3, <2>4
<1>10. gens' = promoted(G, v, t) /\ lastRotate' = rot
  BY <1>1, <1>2
<1>11. VisitsTyped'
  <2>1. gens' \in [1..Generations -> [Visitor -> Nat \cup {Absent}]]
    BY <1>3, <1>4, <1>5, <1>10, PromotedIs DEF GenSet
  <2>. QED BY <1>0, <1>1, <1>4, <1>7, <1>9, <1>10, <2>1 DEF VisitsTyped, aggregator
<1>12. Fitting(gens)'
  <2>1. Fitting(promoted(G, v, t))
    BY ONLY <1>3, <1>4, <1>5, v \in Visitor, PromotedFits
  <2>2. Fitting(gens')
    BY ONLY <1>10, <2>1
  <2>. QED BY ONLY <2>2 DEF Fitting, Holders
<1>13. Sessions'
  <2>1. rot <= t \/ rot <= latest
    BY <1>0, <1>2, <1>3 DEF Turned, Sessions
  <2>2. lastRotate' <= seen'.latest
    BY <1>3, <1>4, <1>5, <1>7, <1>10, <2>1
  <2>3. Apart(gens', seen'.last)
    BY <1>3, <1>4, <1>5, <1>7, <1>10, PromotedApart
  <2>4. seen'.roomy = TRUE => Sorted(gens', lastRotate', seen'.last)
    BY <1>3, <1>4, <1>5, <1>7, <1>8, <1>10, PromotedSorted
  <2>. QED BY <2>2, <2>3, <2>4 DEF Sessions, Apart, Sorted
<1>14. Budgeted' /\ Recorded(recent, seen.visits)' /\ Booked(activity, seen.minutes)'
  BY <1>1, <1>7 DEF VisitsInv, Budgeted, Recorded, Booked, Named, Left, Past, Bucket, aggregator
<1>15. Deserves(class, last[v], t, seen'.roomy)
  <2>1. ASSUME seen'.roomy = TRUE, t >= latest
        PROVE  Sorted(G, rot, last) /\ rot <= t
    <3>1. rot <= t \/ rot <= latest
      BY <1>0, <1>2, <1>3 DEF Turned, Sessions
    <3>. QED BY <1>3, <1>4, <1>5, <1>8, <2>1, <3>1
  <2>2. seen'.roomy \in BOOLEAN
    BY <1>7 DEF Tallies
  <2>. QED BY <1>2, <1>6, <2>1, <2>2 DEF Deserves
<1>. QED BY <1>1, <1>2, <1>9, <1>11, <1>12, <1>13, <1>14, <1>15 DEF VisitsInv
-----------------------------------------------------------------------------
(* The budget of paths.                                                    *)

LEMMA DateOf == ASSUME NEW t \in 0..MaxMinutes PROVE dateOf(t) \in Date
<1>1. t \in Nat /\ MaxMinutes \in Nat /\ DayLength \in Nat \ {0} /\ t <= MaxMinutes
  BY VisitsAssumption
<1>2. \A x, y \in Nat : \A b \in Nat \ {0} : x <= y => x \div b \in Nat /\ x \div b <= y \div b
  OBVIOUS
<1>3. t \div DayLength \in Nat /\ MaxMinutes \div DayLength \in Nat
      /\ t \div DayLength <= MaxMinutes \div DayLength
  BY <1>1, <1>2
<1>. QED BY <1>3 DEF dateOf, Date

\* The budget of a date has the paths P, and the rows of the date that name a path
\* are N, of which there may be k once the budget is spent.
Within(P, N, d, k) ==
  /\ IsFiniteSet(P) /\ IsFiniteSet(N) /\ Cardinality(P) <= MaxDistinctPaths
  /\ \A q \in P : q # OverflowPath => <<q, d>> \in N
  /\ Cardinality(N) + (MaxDistinctPaths - Cardinality(P)) <= k

\* The path that p is recorded as, what the budget has then, and the rows.
Charged(P, p) == IF p \in P \/ Cardinality(P) < MaxDistinctPaths THEN p ELSE OverflowPath
Taken(P, p) == P \cup (IF Cardinality(P) < MaxDistinctPaths THEN {p} ELSE {})
Extended(N, path, d) == N \cup (IF path # OverflowPath THEN {<<path, d>>} ELSE {})

LEMMA Spent ==
  ASSUME NEW P, NEW N, NEW p, NEW d, NEW k \in Nat, Within(P, N, d, k)
  PROVE  Within(Taken(P, p), Extended(N, Charged(P, p), d), d, k)
<1> DEFINE path == Charged(P, p)
           Q == Taken(P, p)
           M == Extended(N, path, d)
<1> USE DEF Charged, Taken, Extended
<1>0. /\ IsFiniteSet(P) /\ IsFiniteSet(N) /\ Cardinality(P) <= MaxDistinctPaths
      /\ \A q \in P : q # OverflowPath => <<q, d>> \in N
      /\ Cardinality(N) + (MaxDistinctPaths - Cardinality(P)) <= k
  BY DEF Within
<1> SUFFICES /\ IsFiniteSet(Q) /\ IsFiniteSet(M)
             /\ Cardinality(Q) <= MaxDistinctPaths
             /\ \A q \in Q : q # OverflowPath => <<q, d>> \in M
             /\ Cardinality(M) + (MaxDistinctPaths - Cardinality(Q)) <= k
  BY DEF Within
<1>1. MaxDistinctPaths \in Nat /\ Cardinality(P) \in Nat /\ Cardinality(N) \in Nat
  BY <1>0, VisitsAssumption, FS_CardinalityType
<1>2. CASE p \in P
  <2>1. Q = P /\ path = p
    BY <1>2
  <2>2. path # OverflowPath => <<path, d>> \in N
    BY <1>0, <1>2, <2>1
  <2>3. M = N
    BY <2>2
  <2>. QED BY <1>0, <2>1, <2>3
<1>3. CASE p \notin P /\ Cardinality(P) < MaxDistinctPaths
  <2>1. Q = P \cup {p} /\ path = p
    BY <1>3
  <2>2. IsFiniteSet(Q) /\ Cardinality(Q) = Cardinality(P) + 1
    BY <1>0, <1>3, <2>1, FS_AddElement
  <2>3. CASE p # OverflowPath
    <3>1. M = N \cup {<<p, d>>}
      BY <2>1, <2>3
    <3>2. IsFiniteSet(M) /\ Cardinality(M) \in Nat /\ Cardinality(M) <= Cardinality(N) + 1
      <4>1. Cardinality(N) + 1 \in Nat /\ Cardinality(N) < Cardinality(N) + 1
        BY <1>1
      <4> HIDE DEF M
      <4>. QED BY <1>0, AddOne, <3>1, <4>1
    <3>3. \A q \in Q : q # OverflowPath => <<q, d>> \in M
      BY <1>0, <2>1, <3>1
    <3>4. Cardinality(M) + (MaxDistinctPaths - Cardinality(Q)) <= k
      <4> HIDE DEF M, Q
      <4>. QED BY <1>0, <1>1, <2>2, <3>2
    <3>. QED BY <1>1, <1>3, <2>2, <3>2, <3>3, <3>4
  <2>4. CASE p = OverflowPath
    <3>1. M = N
      BY <2>1, <2>4
    <3>2. \A q \in Q : q # OverflowPath => <<q, d>> \in M
      BY <1>0, <2>1, <2>4, <3>1
    <3>. QED BY <1>0, <1>1, <1>3, <2>2, <3>1, <3>2
  <2>. QED BY <2>3, <2>4
<1>4. CASE p \notin P /\ ~(Cardinality(P) < MaxDistinctPaths)
  <2>1. Q = P /\ path = OverflowPath
    BY <1>4
  <2>2. M = N
    BY <2>1
  <2>. QED BY <1>0, <2>1, <2>2
<1>. QED BY <1>2, <1>3, <1>4

LEMMA RecordBudget ==
  ASSUME VisitsTyped, Budgeted, NEW p, NEW d \in Date, NEW path,
         path = budgetPath(p, d),
         rows' = rows \cup {<<path, d>>},
         budget' = [date |-> d,
                    paths |-> pathsSeen(d) \cup
                      (IF Cardinality(pathsSeen(d)) < MaxDistinctPaths THEN {p} ELSE {})],
         seen'.turns = [seen.turns EXCEPT ![d] = IF budget.date = d THEN @ ELSE @ + 1]
  PROVE  Budgeted'
<1> DEFINE P == pathsSeen(d)
           N == Named(d)
           Q == Taken(P, p)
           M == Extended(N, path, d)
           k == MaxDistinctPaths * seen.turns[d]
           k2 == MaxDistinctPaths * seen'.turns[d]
<1>1. /\ seen.turns \in [Date -> Nat] /\ seen.turns[d] \in Nat /\ MaxDistinctPaths \in Nat
      /\ seen'.turns[d] = IF budget.date = d THEN seen.turns[d] ELSE seen.turns[d] + 1
      /\ \A e \in Date \ {d} : seen'.turns[e] = seen.turns[e]
  BY VisitsAssumption DEF VisitsTyped, Tallies
<1>2. \A e \in Date : IsFiniteSet(Named(e)) /\ Cardinality(Named(e)) \in Nat
  <2>1. \A e \in Date : Named(e) \in SUBSET rows
    BY DEF Named
  <2>. QED BY <2>1, FS_Subset, FS_CardinalityType DEF Budgeted
<1>3. IsFiniteSet(P) /\ Cardinality(P) <= MaxDistinctPaths
  BY FS_EmptySet, <1>1 DEF pathsSeen, Budgeted
<1>4. \A q \in P : q # OverflowPath => <<q, d>> \in N
  BY DEF pathsSeen, Budgeted, Named
<1>5. Cardinality(N) + (MaxDistinctPaths - Cardinality(P)) <= k2
  <2>1. CASE budget.date = d
    BY <2>1, <1>1 DEF pathsSeen, Budgeted, Left
  <2>2. CASE budget.date # d
    <3>1. P = {} /\ Cardinality(P) = 0
      BY <2>2, FS_EmptySet DEF pathsSeen
    <3>2. Cardinality(N) + 0 <= k
      BY <2>2 DEF Budgeted, Left
    <3>3. \A x, y \in Nat : x * (y + 1) = x * y + x
      OBVIOUS
    <3>4. k2 = k + MaxDistinctPaths /\ k \in Nat
      <4>1. PICK x \in Nat : x = seen.turns[d]
        BY <1>1
      <4>2. seen'.turns[d] = x + 1
        BY <1>1, <2>2, <4>1
      <4>3. MaxDistinctPaths * x \in Nat
            /\ MaxDistinctPaths * (x + 1) = MaxDistinctPaths * x + MaxDistinctPaths
        BY <1>1
      <4>. QED BY <4>1, <4>2, <4>3
    <3>5. Cardinality(N) \in Nat
      BY <1>2
    <3> HIDE DEF N, P, k, k2
    <3>. QED BY <1>1, <3>1, <3>2, <3>4, <3>5
  <2>. QED BY <2>1, <2>2
<1>6. k2 \in Nat
  <2>1. \A x, y \in Nat : x * y \in Nat
    OBVIOUS
  <2>. QED BY <1>1, <2>1
<1>7. path = Charged(P, p)
  BY DEF budgetPath, Charged
<1>8. /\ IsFiniteSet(Q) /\ IsFiniteSet(M)
      /\ Cardinality(Q) <= MaxDistinctPaths
      /\ \A q \in Q : q # OverflowPath => <<q, d>> \in M
      /\ Cardinality(M) + (MaxDistinctPaths - Cardinality(Q)) <= k2
  <2>1. IsFiniteSet(N)
    BY <1>2
  <2> HIDE DEF P, N, k, k2
  <2>2. Within(P, N, d, k2)
    BY <1>3, <1>4, <1>5, <2>1 DEF Within
  <2>3. Within(Q, M, d, k2)
    BY <1>6, <1>7, <2>2, Spent
  <2> HIDE DEF Q, M
  <2>. QED BY <2>3 DEF Within
<1>9. /\ budget'.date = d /\ budget'.paths = Q
      /\ Named(d)' = M
      /\ \A e \in Date \ {d} : Named(e)' = Named(e)
  BY DEF Named, Taken, Extended
<1>10. IsFiniteSet(rows')
  BY FS_AddElement DEF Budgeted
<1>11. \A q \in budget'.paths : q # OverflowPath => <<q, budget'.date>> \in rows'
  <2>1. M \subseteq rows'
    BY <1>9 DEF Named
  <2> HIDE DEF Q, M
  <2>. QED BY <1>8, <1>9, <2>1
<1>12. ASSUME NEW e \in Date
       PROVE  Cardinality(Named(e)') + Left(e)' <= MaxDistinctPaths * seen'.turns[e]
  <2>1. CASE e = d
    <3>1. Left(e)' = MaxDistinctPaths - Cardinality(Q)
      BY <1>9, <2>1 DEF Left
    <3> HIDE DEF Q, M
    <3>. QED BY <1>8, <1>9, <2>1, <3>1
  <2>2. CASE e # d
    <3>1. Left(e)' = 0
      BY <1>9, <2>2 DEF Left
    <3>2. Left(e) \in Nat
      <4>1. Cardinality(budget.paths) \in Nat /\ Cardinality(budget.paths) <= MaxDistinctPaths
        BY FS_CardinalityType DEF Budgeted
      <4>. QED BY <1>1, <4>1 DEF Left
    <3>3. Cardinality(Named(e)) + Left(e) <= MaxDistinctPaths * seen.turns[e]
      BY DEF Budgeted
    <3>4. seen'.turns[e] = seen.turns[e] /\ Named(e)' = Named(e)
      BY <1>1, <1>9, <2>2
    <3>5. seen.turns[e] \in Nat /\ Cardinality(Named(e)) \in Nat
      BY <1>1, <1>2
    <3>6. MaxDistinctPaths * seen.turns[e] \in Nat
      BY <1>1, <3>5
    <3>. QED BY <3>1, <3>2, <3>3, <3>4, <3>5, <3>6
  <2>. QED BY <2>1, <2>2
<1>. QED BY <1>8, <1>9, <1>10, <1>11, <1>12 DEF Budgeted, Named, Left
-----------------------------------------------------------------------------
(* The recent visits.                                                      *)

LEMMA ModIs ==
  ASSUME NEW n \in Nat \ {0}
  PROVE  \A x \in Nat : /\ x % n \in 0..n - 1
                        /\ x < n => x % n = x
                        /\ n <= x /\ x < 2 * n => x % n = x - n
                        /\ 2 * n <= x /\ x < 3 * n => x % n = x - 2 * n
<1>1. ASSUME NEW x \in Nat PROVE x % n \in 0..n - 1
  OBVIOUS
<1>2. ASSUME NEW x \in Nat, x < n PROVE x % n = x
  BY <1>2
<1>3. ASSUME NEW x \in Nat, n <= x, x < 2 * n PROVE x % n = x - n
  BY <1>3
<1>4. ASSUME NEW x \in Nat, 2 * n <= x, x < 3 * n PROVE x % n = x - 2 * n
  BY <1>4
<1>. QED BY <1>1, <1>2, <1>3, <1>4

LEMMA SlotIs ==
  ASSUME NEW n \in Nat \ {0}, NEW h \in 0..n - 1, NEW i \in 1..n
  PROVE  Slot(h, i, n) = IF i <= h THEN h - i ELSE h - i + n
<1> DEFINE x == h - i + n * 2
<1>1. x \in Nat /\ n <= x /\ x < 3 * n
  OBVIOUS
<1>2. x % n = IF i <= h THEN h - i ELSE h - i + n
  <2>1. CASE i <= h
    <3>1. 2 * n <= x /\ x - 2 * n = h - i
      BY <2>1
    <3> HIDE DEF x
    <3>2. x % n = x - 2 * n
      BY <1>1, <3>1, ModIs
    <3>. QED BY <2>1, <3>1, <3>2
  <2>2. CASE ~(i <= h)
    <3>1. x < 2 * n /\ x - n = h - i + n
      BY <2>2
    <3> HIDE DEF x
    <3>2. x % n = x - n
      BY <1>1, <3>1, ModIs
    <3>. QED BY <2>2, <3>1, <3>2
  <2>. QED BY <2>1, <2>2
<1>. QED BY <1>2 DEF Slot

\* The next place of the ring, and the places from there on.
LEMMA NextSlot ==
  ASSUME NEW n \in Nat \ {0}, NEW h \in 0..n - 1
  PROVE  /\ (h + 1) % n \in 0..n - 1
         /\ Slot((h + 1) % n, 1, n) = h
         /\ \A i \in 2..n : /\ Slot((h + 1) % n, i, n) = Slot(h, i - 1, n)
                            /\ Slot(h, i - 1, n) \in (0..n - 1) \ {h}
<1>1. (h + 1) % n = IF h + 1 = n THEN 0 ELSE h + 1
  <2>1. h + 1 \in Nat /\ h + 1 < 2 * n /\ (h + 1 < n \/ h + 1 = n)
    OBVIOUS
  <2>2. CASE h + 1 < n
    <3>1. PICK x \in Nat : x = h + 1
      BY <2>1
    <3>2. x % n = x
      BY <2>2, <3>1, ModIs
    <3>. QED BY <2>2, <3>1, <3>2
  <2>3. CASE h + 1 = n
    <3>1. n % n = n - n
      BY ModIs
    <3>. QED BY <2>3, <3>1
  <2>. QED BY <2>1, <2>2, <2>3
<1>2. PICK ahead \in 0..n - 1 : ahead = (h + 1) % n
  BY <1>1
<1>3. Slot(ahead, 1, n) = h
  <2>1. 1 \in 1..n
    OBVIOUS
  <2>2. Slot(ahead, 1, n) = IF 1 <= ahead THEN ahead - 1 ELSE ahead - 1 + n
    BY <2>1, SlotIs
  <2>. QED BY <1>1, <1>2, <2>2
<1>4. ASSUME NEW i \in 2..n
      PROVE  /\ Slot(ahead, i, n) = Slot(h, i - 1, n)
             /\ Slot(h, i - 1, n) \in (0..n - 1) \ {h}
  <2>1. i \in 1..n /\ i - 1 \in 1..n
    OBVIOUS
  <2>2. /\ Slot(ahead, i, n) = IF i <= ahead THEN ahead - i ELSE ahead - i + n
        /\ Slot(h, i - 1, n) = IF i - 1 <= h THEN h - (i - 1) ELSE h - (i - 1) + n
    BY <2>1, SlotIs
  <2>. QED BY <1>1, <1>2, <2>2
<1>. QED BY <1>1, <1>2, <1>3, <1>4

\* The visits after one more, the newest first.
More(path, visits) ==
  SubSeq(<<path>> \o visits, 1, IF Len(visits) < RingSize THEN Len(visits) + 1 ELSE RingSize)

LEMMA MoreIs ==
  ASSUME NEW path \in Paths, NEW visits \in Seq(Paths), Len(visits) <= RingSize
  PROVE  /\ More(path, visits) \in Seq(Paths)
         /\ Len(More(path, visits)) = IF Len(visits) < RingSize THEN Len(visits) + 1 ELSE RingSize
         /\ More(path, visits)[1] = path
         /\ \A i \in 2..Len(More(path, visits)) : More(path, visits)[i] = visits[i - 1]
<1> DEFINE s == <<path>> \o visits
           n == IF Len(visits) < RingSize THEN Len(visits) + 1 ELSE RingSize
<1>1. Len(visits) \in Nat /\ RingSize \in Nat \ {0}
  BY VisitsAssumption
<1>2. /\ s \in Seq(Paths) /\ Len(s) = Len(visits) + 1 /\ s[1] = path
      /\ \A i \in 2..Len(visits) + 1 : s[i] = visits[i - 1]
  OBVIOUS
<1>3. n \in 1..Len(s) /\ n \in Nat
  BY <1>1, <1>2
<1> HIDE DEF s, n
<1>4. /\ SubSeq(s, 1, n) \in Seq(Paths) /\ Len(SubSeq(s, 1, n)) = n
      /\ \A i \in 1..n : SubSeq(s, 1, n)[i] = s[i]
  BY <1>2, <1>3
<1>5. \A i \in 2..n : i \in 2..Len(visits) + 1 /\ i \in 1..n
  BY <1>1, <1>2, <1>3
<1>6. /\ SubSeq(s, 1, n)[1] = path
      /\ \A i \in 2..n : SubSeq(s, 1, n)[i] = visits[i - 1]
  BY <1>2, <1>3, <1>4, <1>5
<1>. QED BY <1>4, <1>6 DEF More, s, n

LEMMA PushKeeps ==
  ASSUME NEW r \in Rings, NEW visits \in Seq(Paths), Recorded(r, visits), NEW path \in Paths
  PROVE  /\ pushRecent(r, path) \in Rings
         /\ Recorded(pushRecent(r, path), More(path, visits))
<1> DEFINE q == pushRecent(r, path)
           ahead == (r.head + 1) % RingSize
           more == More(path, visits)
<1>1. /\ RingSize \in Nat \ {0} /\ r.ring \in [0..RingSize - 1 -> Paths]
      /\ r.head \in 0..RingSize - 1 /\ r.count \in 0..RingSize
  BY VisitsAssumption DEF Rings
<1>2. PICK h \in 0..RingSize - 1 : h = r.head
  BY <1>1
<1>3. /\ ahead \in 0..RingSize - 1 /\ Slot(ahead, 1, RingSize) = h
      /\ \A i \in 2..RingSize : /\ Slot(ahead, i, RingSize) = Slot(h, i - 1, RingSize)
                                /\ Slot(h, i - 1, RingSize) \in (0..RingSize - 1) \ {h}
  <2>1. LET m == (h + 1) % RingSize
        IN  /\ m \in 0..RingSize - 1 /\ Slot(m, 1, RingSize) = h
            /\ \A i \in 2..RingSize : /\ Slot(m, i, RingSize) = Slot(h, i - 1, RingSize)
                                      /\ Slot(h, i - 1, RingSize) \in (0..RingSize - 1) \ {h}
    BY ONLY <1>1, h \in 0..RingSize - 1, NextSlot, Zenon
  <2>2. ahead = (h + 1) % RingSize
    BY <1>2
  <2>. QED BY <2>1, <2>2, Zenon
<1>4. /\ q.ring = [r.ring EXCEPT ![h] = path] /\ q.head = ahead
      /\ q.count = IF r.count < RingSize THEN r.count + 1 ELSE r.count
  BY <1>2 DEF pushRecent
<1>5. q \in Rings
  <2>1. /\ [r.ring EXCEPT ![h] = path] \in [0..RingSize - 1 -> Paths]
        /\ (IF r.count < RingSize THEN r.count + 1 ELSE r.count) \in 0..RingSize
    BY <1>1
  <2>. QED BY <1>2, <1>3, <2>1 DEF pushRecent, Rings
<1>6. Len(visits) = r.count /\ \A i \in 1..r.count : visits[i] = r.ring[Slot(h, i, RingSize)]
  BY <1>2 DEF Recorded
<1>7. /\ Len(more) = IF Len(visits) < RingSize THEN Len(visits) + 1 ELSE RingSize
      /\ more[1] = path
      /\ \A i \in 2..Len(more) : more[i] = visits[i - 1]
  <2>1. Len(visits) <= RingSize
    BY <1>1, <1>6
  <2>. QED BY <2>1, MoreIs, Zenon
<1> HIDE DEF q, ahead, more
<1>8. Len(more) = q.count /\ q.count \in 1..RingSize /\ q.count <= r.count + 1
  BY <1>1, <1>4, <1>6, <1>7
<1>9. ASSUME NEW i \in 1..q.count
      PROVE  more[i] = q.ring[Slot(q.head, i, RingSize)]
  <2>1. CASE i = 1
    BY <1>1, <1>3, <1>4, <1>7, <2>1
  <2>2. CASE i # 1
    <3>1. i \in 2..Len(more) /\ i \in 2..RingSize /\ i - 1 \in 1..r.count
      BY <1>1, <1>8, <2>2
    <3>2. more[i] = r.ring[Slot(h, i - 1, RingSize)]
      BY <1>6, <1>7, <3>1
    <3>3. q.ring[Slot(h, i - 1, RingSize)] = r.ring[Slot(h, i - 1, RingSize)]
      BY <1>1, <1>3, <1>4, <3>1
    <3>. QED BY <1>3, <1>4, <3>1, <3>2, <3>3
  <2>. QED BY <2>1, <2>2
<1>10. Recorded(q, more)
  BY <1>8, <1>9 DEF Recorded
<1>. QED BY <1>5, <1>10 DEF q, more

LEMMA RecordedIsRecent ==
  ASSUME VisitsTyped, Recorded(recent, seen.visits)
  PROVE  RecentAreNewest
<1>1. /\ recent.count \in 0..RingSize /\ seen.visits \in Seq(Paths) /\ RingSize \in Nat
  BY VisitsAssumption DEF VisitsTyped, Rings, Tallies
<1>2. (IF RingSize > recent.count THEN recent.count ELSE RingSize) = recent.count
  BY <1>1
<1>3. recentVisits(RingSize)
        = [i \in 1..recent.count |-> recent.ring[Slot(recent.head, i, RingSize)]]
  BY <1>2 DEF recentVisits, Slot
<1>4. seen.visits = [i \in 1..recent.count |-> seen.visits[i]]
  BY <1>1 DEF Recorded
<1>. QED BY <1>3, <1>4 DEF RecentAreNewest, Recorded
-----------------------------------------------------------------------------
(* The activity of the last hour.                                          *)

LEMMA BucketIs ==
  ASSUME NEW n \in Nat \ {0}, NEW idx \in 0..n - 1, NEW j \in 0..n - 1
  PROVE  Bucket(idx, j, n) = IF j <= idx THEN idx - j ELSE idx - j + n
<1>1. PICK x \in Nat : x = idx + n - j
  OBVIOUS
<1>2. x % n = IF j <= idx THEN idx - j ELSE idx - j + n
  <2>1. CASE j <= idx
    <3>1. n <= x /\ x < 2 * n /\ x - n = idx - j
      BY <1>1, <2>1
    <3>2. x % n = x - n
      BY <3>1, ModIs
    <3>. QED BY <2>1, <3>1, <3>2
  <2>2. CASE ~(j <= idx)
    <3>1. x < n /\ x = idx - j + n
      BY <1>1, <2>2
    <3>2. x % n = x
      BY <3>1, ModIs
    <3>. QED BY <2>2, <3>1, <3>2
  <2>. QED BY <2>1, <2>2
<1>. QED BY <1>1, <1>2 DEF Bucket

LEMMA AheadIs ==
  ASSUME NEW n \in Nat \ {0}, NEW idx \in 0..n - 1, NEW i \in 0..n - 1
  PROVE  (idx + i) % n = IF idx + i < n THEN idx + i ELSE idx + i - n
<1>1. PICK x \in Nat : x = idx + i
  OBVIOUS
<1>2. CASE x < n
  <2>1. x % n = x
    BY <1>2, ModIs
  <2>. QED BY <1>1, <1>2, <2>1
<1>3. CASE ~(x < n)
  <2>1. n <= x /\ x < 2 * n
    BY <1>1, <1>3
  <2>2. x % n = x - n
    BY <2>1, ModIs
  <2>. QED BY <1>1, <1>3, <2>2
<1>. QED BY <1>2, <1>3

\* The buckets that the clock passes when it goes on by e are those of the last e
\* minutes; the others are those of the minutes before.
Split(n, idx, e, ahead, S) ==
  /\ ahead \in 0..n - 1 /\ S \subseteq 0..n - 1
  /\ \A j \in 0..n - 1 :
       /\ j < e => Bucket(ahead, j, n) \in S
       /\ j >= e => /\ Bucket(ahead, j, n) \notin S
                    /\ Bucket(ahead, j, n) = Bucket(idx, j - e, n)

LEMMA PassedAre ==
  ASSUME NEW n \in Nat \ {0}, NEW idx \in 0..n - 1, NEW e \in 1..n - 1
  PROVE  Split(n, idx, e, (idx + e) % n, {(idx + i) % n : i \in 1..e})
<1>0. PICK ahead, S : ahead = (idx + e) % n /\ S = {(idx + i) % n : i \in 1..e}
  OBVIOUS
<1>1. ASSUME NEW i \in 1..e
      PROVE  (idx + i) % n = IF idx + i < n THEN idx + i ELSE idx + i - n
  <2>1. i \in 0..n - 1
    OBVIOUS
  <2>. QED BY <2>1, AheadIs, Zenon
<1>2. ahead = IF idx + e < n THEN idx + e ELSE idx + e - n
  <2>1. e \in 1..e
    OBVIOUS
  <2>. QED BY <1>0, <1>1, <2>1
<1>3. ahead \in 0..n - 1
  BY <1>2
<1>4. \A y : y \in S <=> \E i \in 1..e : y = IF idx + i < n THEN idx + i ELSE idx + i - n
  BY <1>0, <1>1
<1>5. ASSUME NEW y \in S
      PROVE  y \in 0..n - 1
  <2>1. PICK i \in 1..e : y = IF idx + i < n THEN idx + i ELSE idx + i - n
    BY <1>4
  <2>. QED BY <2>1
<1>6. ASSUME NEW j \in 0..n - 1, j < e
      PROVE  Bucket(ahead, j, n) \in S
  <2>1. Bucket(ahead, j, n) = IF j <= ahead THEN ahead - j ELSE ahead - j + n
    BY <1>3, BucketIs
  <2>2. PICK i \in 1..e : i = e - j
    BY <1>6
  <2>3. Bucket(ahead, j, n) = IF idx + i < n THEN idx + i ELSE idx + i - n
    BY <1>2, <1>6, <2>1, <2>2
  <2>. QED BY <1>4, <2>3
<1>7. ASSUME NEW j \in 0..n - 1, j >= e
      PROVE  /\ Bucket(ahead, j, n) \notin S
             /\ Bucket(ahead, j, n) = Bucket(idx, j - e, n)
  <2>1. j - e \in 0..n - 1
    BY <1>7
  <2>2. /\ Bucket(ahead, j, n) = IF j <= ahead THEN ahead - j ELSE ahead - j + n
        /\ Bucket(idx, j - e, n) = IF j - e <= idx THEN idx - (j - e) ELSE idx - (j - e) + n
    BY <1>3, <2>1, BucketIs
  <2>3. ASSUME NEW i \in 1..e
        PROVE  Bucket(ahead, j, n) # IF idx + i < n THEN idx + i ELSE idx + i - n
    BY <1>2, <1>7, <2>2
  <2>4. Bucket(ahead, j, n) \notin S
    BY <1>4, <2>3
  <2>. QED BY <1>2, <1>7, <2>2, <2>4
<1>8. Split(n, idx, e, ahead, S)
  BY <1>3, <1>5, <1>6, <1>7 DEF Split
<1>. QED BY <1>0, <1>8

\* The minutes of the last hour take all the buckets, each one its own.
LEMMA AllBuckets ==
  ASSUME NEW n \in Nat \ {0}, NEW idx \in 0..n - 1
  PROVE  /\ \A j \in 0..n - 1 : Bucket(idx, j, n) \in 0..n - 1
         /\ \A j, k \in 0..n - 1 : Bucket(idx, j, n) = Bucket(idx, k, n) => j = k
         /\ \A i \in 0..n - 1 : \E j \in 0..n - 1 : i = Bucket(idx, j, n)
         /\ Bucket(idx, 0, n) = idx
<1>1. \A j \in 0..n - 1 : Bucket(idx, j, n) = IF j <= idx THEN idx - j ELSE idx - j + n
  BY BucketIs
<1>2. ASSUME NEW j \in 0..n - 1, NEW k \in 0..n - 1, Bucket(idx, j, n) = Bucket(idx, k, n)
      PROVE  j = k
  <2>1. /\ Bucket(idx, j, n) = IF j <= idx THEN idx - j ELSE idx - j + n
        /\ Bucket(idx, k, n) = IF k <= idx THEN idx - k ELSE idx - k + n
    BY <1>1
  <2>2. PICK x \in Int, y \in Int :
          /\ x = IF j <= idx THEN idx - j ELSE idx - j + n
          /\ y = IF k <= idx THEN idx - k ELSE idx - k + n
    <3>1. /\ (IF j <= idx THEN idx - j ELSE idx - j + n) \in Int
          /\ (IF k <= idx THEN idx - k ELSE idx - k + n) \in Int
      OBVIOUS
    <3>. QED BY <3>1, Zenon
  <2>3. x = y
    BY <1>2, <2>1, <2>2
  <2>. QED BY <2>2, <2>3
<1>3. ASSUME NEW i \in 0..n - 1
      PROVE  \E j \in 0..n - 1 : i = Bucket(idx, j, n)
  <2>1. PICK j \in 0..n - 1 : j = IF i <= idx THEN idx - i ELSE idx - i + n
    <3>1. (IF i <= idx THEN idx - i ELSE idx - i + n) \in 0..n - 1
      OBVIOUS
    <3>. QED BY <3>1, Zenon
  <2>2. Bucket(idx, j, n) = IF j <= idx THEN idx - j ELSE idx - j + n
    BY <1>1
  <2>3. i = Bucket(idx, j, n)
    BY <2>1, <2>2
  <2>. QED BY <2>3
<1>4. Bucket(idx, 0, n) = idx
  <2>1. 0 \in 0..n - 1 /\ 0 <= idx
    OBVIOUS
  <2>2. Bucket(idx, 0, n) = idx - 0
    BY <1>1, <2>1
  <2>. QED BY <2>2
<1>5. ASSUME NEW j \in 0..n - 1
      PROVE  Bucket(idx, j, n) \in 0..n - 1
  <2>1. Bucket(idx, j, n) = IF j <= idx THEN idx - j ELSE idx - j + n
    BY <1>1
  <2>. QED BY <2>1
<1>. QED BY <1>2, <1>3, <1>4, <1>5

LEMMA Earlier ==
  ASSUME NEW n \in Nat \ {0}, NEW e \in 1..n - 1, NEW j \in 0..n - 1, j >= e
  PROVE  j - e \in 0..n - 1
OBVIOUS

LEMMA BucketsAre ==
  /\ Buckets \in Nat \ {0} /\ IsFiniteSet(0..Buckets - 1) /\ 0 \in 0..Buckets - 1
  /\ MaxMinutes \in Nat
<1>1. Buckets \in Nat \ {0} /\ MaxMinutes \in Nat
  BY VisitsAssumption
<1>2. 0 \in Int /\ Buckets - 1 \in Int /\ 0 \in 0..Buckets - 1
  BY <1>1
<1>. QED BY <1>1, <1>2, FS_Interval

LEMMA ActivityIs ==
  ASSUME NEW a \in Activities
  PROVE  /\ a.buckets \in [0..Buckets - 1 -> Nat] /\ a.idx \in 0..Buckets - 1
         /\ a.stamp \in 0..MaxMinutes /\ a.total \in Nat /\ a.peak \in Nat
BY DEF Activities

LEMMA AdvanceKeeps ==
  ASSUME NEW a \in Activities, NEW M \in [0..MaxMinutes -> Nat], Booked(a, M),
         NEW t \in 0..MaxMinutes
  PROVE  advanceActivity(a, t) \in Activities /\ Booked(advanceActivity(a, t), M)
<1> DEFINE b == advanceActivity(a, t)
           all == 0..Buckets - 1
<1>1. /\ Buckets \in Nat \ {0} /\ a.buckets \in [all -> Nat] /\ a.idx \in all
      /\ a.stamp \in 0..MaxMinutes /\ a.total \in Nat /\ a.peak \in Nat /\ MaxMinutes \in Nat
      /\ IsFiniteSet(all) /\ 0 \in all
  BY BucketsAre, ActivityIs
<1>2. /\ a.total = SumFunctionOnSet(a.buckets, all) /\ a.total <= a.peak
      /\ \A j \in all : a.buckets[Bucket(a.idx, j, Buckets)] = Past(a, M, j)
      /\ \A s \in 0..MaxMinutes : s > a.stamp => M[s] = 0
  BY DEF Booked
<1>3. PICK e \in Int, st \in 0..MaxMinutes : e = t - a.stamp /\ st = a.stamp /\ e = t - st
  <2>1. PICK st \in 0..MaxMinutes : st = a.stamp
    BY <1>1, Zenon
  <2>2. t - st \in Int
    BY <1>1
  <2>. QED BY <2>1, <2>2, Zenon
<1>4. CASE e <= 0
  <2>1. b = a
    BY <1>3, <1>4 DEF advanceActivity
  <2>. QED BY <2>1
<1>5. CASE e > 0 /\ e >= Buckets
  <2>1. b = [a EXCEPT !.buckets = [i \in all |-> 0], !.total = 0, !.idx = 0, !.stamp = t]
    BY <1>3, <1>5 DEF advanceActivity
  <2>2. b \in Activities
    <3>1. [i \in all |-> 0] \in [all -> Nat]
      OBVIOUS
    <3> HIDE DEF b
    <3>. QED BY <1>1, <2>1, <3>1 DEF Activities
  <2>3. /\ b.buckets = [i \in all |-> 0] /\ b.total = 0 /\ b.idx = 0 /\ b.stamp = t
        /\ b.peak = a.peak
    BY <2>1 DEF Activities
  <2> HIDE DEF b
  <2>4. SumFunctionOnSet(b.buckets, all) = 0
    <3>1. \A x \in all : b.buckets[x] \in Nat /\ b.buckets[x] = 0
      BY <2>3
    <3> HIDE DEF all
    <3>. QED BY <1>1, <3>1, SumZero
  <2>5. \A s \in 0..MaxMinutes : s > t => M[s] = 0
    <3>1. \A s \in 0..MaxMinutes : s > t => s > st
      BY <1>1, <1>3, <1>5
    <3>. QED BY <1>2, <1>3, <3>1
  <2>6. ASSUME NEW j \in all
        PROVE  b.buckets[Bucket(b.idx, j, Buckets)] = Past(b, M, j)
    <3>1. Bucket(b.idx, j, Buckets) \in all
      BY <1>1, <2>3, AllBuckets
    <3>2. t - j > st
      BY <1>1, <1>3, <1>5
    <3>3. t - j \in Nat => t - j \in 0..MaxMinutes
      BY <1>1
    <3>4. Past(b, M, j) = 0
      BY <1>2, <1>3, <2>3, <3>2, <3>3 DEF Past
    <3>. QED BY <2>3, <3>1, <3>4
  <2>7. Booked(b, M)
    <3>1. b.total <= b.peak
      BY <1>1, <2>3
    <3>. QED BY <2>3, <2>4, <2>5, <2>6, <3>1 DEF Booked
  <2>. QED BY <2>2, <2>7 DEF b
<1>6. CASE e > 0 /\ ~(e >= Buckets)
  <2> DEFINE S == Passed(a, e)
             rest == all \ S
             buckets == [i \in all |-> IF i \in S THEN 0 ELSE a.buckets[i]]
             ahead == (a.idx + e) % Buckets
             total == a.total - SumFunctionOnSet(a.buckets, S)
  <2>1. b = [a EXCEPT !.buckets = buckets, !.total = total, !.idx = ahead, !.stamp = t]
    BY <1>3, <1>6 DEF advanceActivity
  <2>2. e \in 1..Buckets - 1
    BY <1>1, <1>6
  <2>3. /\ ahead \in all /\ S \subseteq all
        /\ \A j \in all : /\ j < e => Bucket(ahead, j, Buckets) \in S
                          /\ j >= e => /\ Bucket(ahead, j, Buckets) \notin S
                                       /\ Bucket(ahead, j, Buckets) = Bucket(a.idx, j - e, Buckets)
    <3>1. S = {(a.idx + i) % Buckets : i \in 1..e}
      BY DEF Passed
    <3>2. PICK idx \in 0..Buckets - 1 : idx = a.idx
      BY <1>1
    <3>3. S = {(idx + i) % Buckets : i \in 1..e} /\ ahead = (idx + e) % Buckets
      BY <3>1, <3>2
    <3> HIDE DEF S, ahead
    <3>4. Split(Buckets, idx, e, ahead, S)
      <4>1. Split(Buckets, idx, e, (idx + e) % Buckets, {(idx + i) % Buckets : i \in 1..e})
        BY <1>1, <2>2, PassedAre
      <4>. QED BY <3>3, <4>1
    <3>. QED BY <3>2, <3>4 DEF Split
  <2> HIDE DEF S, ahead
  <2>4. /\ \A x \in all : buckets[x] \in Nat
        /\ \A x \in S : buckets[x] = 0
        /\ \A x \in rest : buckets[x] = a.buckets[x]
        /\ buckets \in [all -> Nat]
    BY <1>1, <2>3
  <2> HIDE DEF buckets
  <2>5. /\ SumFunctionOnSet(buckets, all) = total
        /\ total \in Nat /\ total <= a.total
    <3>1. IsFiniteSet(S) /\ IsFiniteSet(rest) /\ S \in SUBSET all
      BY <1>1, <2>3, FS_Subset
    <3>2. \A x \in all : a.buckets[x] \in Nat
      BY <1>1
    <3> HIDE DEF all
    <3>3. SumFunctionOnSet(a.buckets, all)
            = SumFunctionOnSet(a.buckets, S) + SumFunctionOnSet(a.buckets, rest)
      BY <1>1, <3>1, <3>2, SumSplit
    <3>4. SumFunctionOnSet(buckets, all)
            = SumFunctionOnSet(buckets, S) + SumFunctionOnSet(buckets, rest)
      BY <1>1, <2>4, <3>1, SumSplit
    <3>5. SumFunctionOnSet(buckets, S) = 0
      BY <2>4, <3>1, SumZero
    <3>6. SumFunctionOnSet(buckets, rest) = SumFunctionOnSet(a.buckets, rest)
      BY <2>4, <3>1, SumSame
    <3>7. SumFunctionOnSet(a.buckets, S) \in Nat /\ SumFunctionOnSet(a.buckets, rest) \in Nat
      BY <3>1, <3>2, SumType
    <3>. QED BY <1>1, <1>2, <3>3, <3>4, <3>5, <3>6, <3>7
  <2> HIDE DEF total
  <2>6. b \in Activities
    <3> HIDE DEF b
    <3>. QED BY <1>1, <2>1, <2>3, <2>4, <2>5 DEF Activities
  <2>7. /\ b.buckets = buckets /\ b.total = total /\ b.idx = ahead /\ b.stamp = t
        /\ b.peak = a.peak
    BY <2>1 DEF Activities
  <2> HIDE DEF b
  <2>8. \A s \in 0..MaxMinutes : s > t => M[s] = 0
    <3>1. \A s \in 0..MaxMinutes : s > t => s > st
      BY <1>1, <1>3, <1>6
    <3>. QED BY <1>2, <1>3, <3>1
  <2>9. ASSUME NEW j \in all
        PROVE  b.buckets[Bucket(b.idx, j, Buckets)] = Past(b, M, j)
    <3>1. CASE j < e
      <4>0. /\ t \in Nat /\ st \in Nat /\ j \in Nat /\ e = t - st /\ t <= MaxMinutes
            /\ MaxMinutes \in Nat
        BY <1>1, <1>3
      <4>1. t - j > st /\ t - j \in 0..MaxMinutes
        BY ONLY <3>1, <4>0
      <4>2. Past(b, M, j) = 0
        BY <1>2, <1>3, <2>7, <4>1 DEF Past
      <4>. QED BY <2>3, <2>4, <2>7, <3>1, <4>2
    <3>2. CASE j >= e
      <4>1. j - e \in all /\ t - j = st - (j - e)
        <5>1. t \in Int /\ st \in Int /\ t - j = st - (j - e)
          BY <1>1, <1>3
        <5>2. j - e \in 0..Buckets - 1
          BY <1>1, <2>2, <3>2, Earlier
        <5>. QED BY <5>1, <5>2
      <4>2. PICK k \in all : k = j - e /\ t - j = a.stamp - k
        BY <1>3, <4>1
      <4>3. Past(b, M, j) = Past(a, M, k)
        BY <2>7, <4>2 DEF Past
      <4>4. Bucket(ahead, j, Buckets) = Bucket(a.idx, k, Buckets)
            /\ Bucket(ahead, j, Buckets) \in rest
        <5>1. Bucket(ahead, j, Buckets) \in all
          BY <1>1, <2>3, AllBuckets
        <5>. QED BY <2>3, <3>2, <4>2, <5>1
      <4>5. buckets[Bucket(ahead, j, Buckets)] = a.buckets[Bucket(a.idx, k, Buckets)]
        BY <2>4, <4>4
      <4>. QED BY <1>2, <2>7, <4>3, <4>5
    <3>. QED BY <1>1, <1>3, <3>1, <3>2
  <2>10. total <= a.peak
    BY <1>1, <1>2, <2>5
  <2>11. Booked(b, M)
    BY <2>5, <2>7, <2>8, <2>9, <2>10 DEF Booked
  <2>. QED BY <2>6, <2>11 DEF b
<1>. QED BY <1>4, <1>5, <1>6

LEMMA TickKeeps ==
  ASSUME NEW a \in Activities, NEW M \in [0..MaxMinutes -> Nat], Booked(a, M),
         NEW t \in 0..MaxMinutes
  PROVE  /\ tickActivity(a, t) \in Activities
         /\ [M EXCEPT ![tickActivity(a, t).stamp] = @ + 1] \in [0..MaxMinutes -> Nat]
         /\ Booked(tickActivity(a, t), [M EXCEPT ![tickActivity(a, t).stamp] = @ + 1])
<1> DEFINE c == tickActivity(a, t)
           N == [M EXCEPT ![c.stamp] = @ + 1]
           all == 0..Buckets - 1
<1>1. PICK b \in Activities : b = advanceActivity(a, t) /\ Booked(b, M)
  BY AdvanceKeeps
<1>2. /\ Buckets \in Nat \ {0} /\ b.buckets \in [all -> Nat] /\ b.idx \in all
      /\ b.stamp \in 0..MaxMinutes /\ b.total \in Nat /\ b.peak \in Nat /\ MaxMinutes \in Nat
      /\ IsFiniteSet(all) /\ 0 \in all
  BY BucketsAre, ActivityIs
<1>3. /\ b.total = SumFunctionOnSet(b.buckets, all) /\ b.total <= b.peak
      /\ \A j \in all : b.buckets[Bucket(b.idx, j, Buckets)] = Past(b, M, j)
      /\ \A s \in 0..MaxMinutes : s > b.stamp => M[s] = 0
  BY <1>1 DEF Booked
<1> DEFINE buckets == [b.buckets EXCEPT ![b.idx] = @ + 1]
           peak == IF b.total + 1 > b.peak THEN b.total + 1 ELSE b.peak
<1>4. c = [b EXCEPT !.buckets = buckets, !.total = b.total + 1, !.peak = peak]
  BY <1>1, <1>2 DEF tickActivity, Activities
<1>5. /\ buckets \in [all -> Nat] /\ buckets[b.idx] = b.buckets[b.idx] + 1
      /\ \A x \in all \ {b.idx} : b.buckets[x] = buckets[x]
      /\ peak \in Nat /\ b.total + 1 <= peak /\ b.total + 1 \in Nat
  <2>1. PICK i \in all, f \in [all -> Nat], total \in Nat, high \in Nat :
          i = b.idx /\ f = b.buckets /\ total = b.total /\ high = b.peak
    BY <1>2
  <2>2. buckets = [f EXCEPT ![i] = f[i] + 1]
    BY <2>1
  <2>3. /\ buckets \in [all -> Nat] /\ buckets[i] = f[i] + 1
        /\ \A x \in all \ {i} : f[x] = buckets[x]
    <3> HIDE DEF buckets, all
    <3>. QED BY <2>2
  <2>4. peak = IF total + 1 > high THEN total + 1 ELSE high
    BY <2>1
  <2> HIDE DEF buckets, peak, all
  <2>. QED BY <2>1, <2>3, <2>4
<1> HIDE DEF buckets, peak
<1>6. c \in Activities
  <2> HIDE DEF c
  <2>. QED BY <1>2, <1>4, <1>5 DEF Activities
<1>7. /\ c.buckets = buckets /\ c.total = b.total + 1 /\ c.peak = peak
      /\ c.idx = b.idx /\ c.stamp = b.stamp
  BY <1>4 DEF Activities
<1> HIDE DEF c
<1>8. /\ N \in [0..MaxMinutes -> Nat] /\ N[b.stamp] = M[b.stamp] + 1
      /\ \A s \in (0..MaxMinutes) \ {b.stamp} : N[s] = M[s]
  BY <1>2, <1>7
<1> HIDE DEF N
<1>9. SumFunctionOnSet(buckets, all) = b.total + 1
  <2>1. \A x \in all : b.buckets[x] \in Nat /\ buckets[x] \in Nat
    BY <1>2, <1>5
  <2>2. SumFunctionOnSet(buckets, all) \in Nat
    BY <1>2, <2>1, SumType
  <2> HIDE DEF all
  <2>3. PICK i \in all, f \in [all -> Nat], total \in Nat : i = b.idx /\ f = b.buckets /\ total = b.total
    BY <1>2
  <2>4. SumFunctionOnSet(buckets, all) + f[i] = SumFunctionOnSet(f, all) + buckets[i]
    <3>1. \A x \in all : f[x] \in Nat /\ buckets[x] \in Nat
      BY <2>1, <2>3
    <3>2. \A x \in all \ {i} : f[x] = buckets[x]
      BY <1>5, <2>3
    <3>3. IsFiniteSet(all)
      BY <1>2
    <3>. QED BY ONLY i \in all, <3>1, <3>2, <3>3, SumUpdate
  <2>5. SumFunctionOnSet(f, all) = total /\ buckets[i] = f[i] + 1 /\ f[i] \in Nat
    BY <1>3, <1>5, <2>1, <2>3
  <2>6. SumFunctionOnSet(buckets, all) = total + 1
    BY <2>2, <2>4, <2>5
  <2>. QED BY <2>3, <2>6
<1>10. \A s \in 0..MaxMinutes : s > b.stamp => N[s] = 0
  BY <1>2, <1>3, <1>8
<1>11. ASSUME NEW j \in all
       PROVE  buckets[Bucket(b.idx, j, Buckets)] = Past(c, N, j)
  <2>1. /\ Bucket(b.idx, j, Buckets) \in all
        /\ Bucket(b.idx, 0, Buckets) = b.idx
        /\ Bucket(b.idx, j, Buckets) = Bucket(b.idx, 0, Buckets) => j = 0
    BY <1>2, AllBuckets
  <2>2. b.buckets[Bucket(b.idx, j, Buckets)] = Past(b, M, j)
    BY <1>3
  <2>3. CASE j = 0
    <3>1. b.stamp - j = b.stamp /\ b.stamp \in Nat
      BY <1>2, <2>3
    <3>2. Past(b, M, j) = M[b.stamp] /\ Past(c, N, j) = N[b.stamp]
      BY <1>7, <3>1 DEF Past
    <3>. QED BY <1>5, <1>8, <2>1, <2>2, <2>3, <3>2
  <2>4. CASE j # 0
    <3>1. b.stamp - j # b.stamp /\ (b.stamp - j \in Nat => b.stamp - j \in 0..MaxMinutes)
      BY <1>2, <2>4
    <3>2. Past(c, N, j) = Past(b, M, j)
      BY <1>7, <1>8, <3>1 DEF Past
    <3>. QED BY <1>5, <2>1, <2>2, <2>4, <3>2
  <2>. QED BY <2>3, <2>4
<1>12. Booked(c, N)
  BY <1>5, <1>7, <1>9, <1>10, <1>11 DEF Booked
<1>. QED BY <1>6, <1>8, <1>12 DEF N, c

LEMMA BookedIsExact ==
  ASSUME VisitsTyped, Booked(activity, seen.minutes)
  PROVE  ActivityExact
<1> DEFINE all == 0..Buckets - 1
           past == [i \in all |-> IF activity.stamp - i \in Nat
                                  THEN seen.minutes[activity.stamp - i] ELSE 0]
<1>1. PICK idx \in all, buckets \in [all -> Nat] : idx = activity.idx /\ buckets = activity.buckets
  BY DEF VisitsTyped, Activities
<1>2. Buckets \in Nat \ {0} /\ IsFiniteSet(all)
  BY BucketsAre
<1> DEFINE place == [j \in all |-> Bucket(idx, j, Buckets)]
<1>3. /\ \A j \in all : place[j] \in all
      /\ \A j, k \in all : place[j] = place[k] => j = k
      /\ \A i \in all : \E j \in all : i = place[j]
  <2>1. /\ \A j \in all : Bucket(idx, j, Buckets) \in all
        /\ \A j, k \in all : Bucket(idx, j, Buckets) = Bucket(idx, k, Buckets) => j = k
        /\ \A i \in all : \E j \in all : i = Bucket(idx, j, Buckets)
    BY <1>2, AllBuckets, Zenon
  <2> HIDE DEF all
  <2>. QED BY <2>1
<1>4. \A j \in all : past[j] = buckets[place[j]]
  BY <1>1 DEF Booked, Past
<1>5. {place[j] : j \in all} = all
  <2> HIDE DEF all, place
  <2>. QED BY <1>3
<1>6. \A j \in all : place[j] \in all /\ past[j] = buckets[place[j]] /\ buckets[place[j]] \in Nat
  BY <1>3, <1>4
<1>7. SumFunctionOnSet(past, all) = SumFunctionOnSet(buckets, all)
  <2> HIDE DEF all, place, past
  <2>1. SumFunctionOnSet(past, all) = SumFunctionOnSet(buckets, {place[j] : j \in all})
    BY <1>2, <1>3, <1>6, SumReindex
  <2>. QED BY <1>5, <2>1
<1>8. SumFunction(past) = SumFunctionOnSet(past, all)
  BY DEF SumFunction
<1>9. activity.total = SumFunctionOnSet(activity.buckets, all) /\ activity.total <= activity.peak
  BY DEF Booked
<1>. QED BY <1>1, <1>7, <1>8, <1>9 DEF ActivityExact
-----------------------------------------------------------------------------
(* The steps.                                                              *)

LEMMA VisitsInitially == VisitsInit => VisitsInv
<1> SUFFICES ASSUME VisitsInit PROVE VisitsInv
  OBVIOUS
<1>0. USE DEF VisitsInit
<1>1. /\ Buckets \in Nat \ {0} /\ RingSize \in Nat \ {0} /\ Generations \in Nat \ {0}
      /\ MaxPerGen \in Nat \ {0} /\ SessionWindow \in Nat \ {0} /\ MaxDistinctPaths \in Nat \ {0}
      /\ MaxMinutes \in Nat /\ Absent \notin Nat
  BY VisitsAssumption
<1>2. Date \subseteq Nat
  BY DEF Date
<1>3. VisitsTyped
  <2>1. /\ minute \in 0..MaxMinutes /\ call \in [Goroutine -> VisitCall]
        /\ \A g \in Goroutine : call[g].pc # "idle" => call[g].visitor \in Visitor
    BY <1>1 DEF VisitCall, Paths
  <2>2. gens \in [1..Generations -> [Visitor -> Nat \cup {Absent}]] /\ lastRotate \in Nat
    BY DEF Nobody
  <2>3. budget \in [date : Date \cup {Absent}, paths : SUBSET Paths]
    OBVIOUS
  <2>4. recent \in Rings
    BY <1>1 DEF Rings, Paths
  <2>5. activity \in Activities
    BY <1>1 DEF Activities
  <2>6. seen \in Tallies
    <3>1. Nobody \in [Visitor -> Nat \cup {Absent}] /\ <<>> \in Seq(Paths)
      BY DEF Nobody
    <3>. QED BY <3>1 DEF Tallies
  <2>. QED BY <2>1, <2>2, <2>3, <2>4, <2>5, <2>6 DEF VisitsTyped
<1>4. Fitting(gens)
  <2>1. \A i \in 1..Generations : gens[i] = Nobody
    OBVIOUS
  <2>2. IsFiniteSet(Holders(Nobody)) /\ Cardinality(Holders(Nobody)) = 0
    BY NobodyType, FS_EmptySet
  <2>. QED BY <1>1, <2>1, <2>2 DEF Fitting
<1>5. Sessions
  <2>1. \A v \in Visitor : seen.last[v] = Absent /\ \A i \in 1..Generations : gens[i][v] = Absent
    BY DEF Nobody
  <2>. QED BY <2>1 DEF Sessions, Apart, Sorted
<1>6. Budgeted
  <2>1. \A d \in Date : Named(d) = {} /\ Left(d) = 0 /\ seen.turns[d] = 0
    BY <1>1, <1>2 DEF Named, Left
  <2>2. MaxDistinctPaths * 0 = 0
    BY <1>1
  <2>3. rows = {} /\ budget.paths = {}
    OBVIOUS
  <2>4. IsFiniteSet({}) /\ Cardinality({}) = 0
    BY FS_EmptySet
  <2> HIDE DEF VisitsInit
  <2>5. \A d \in Date : Cardinality(Named(d)) + Left(d) <= MaxDistinctPaths * seen.turns[d]
    BY <2>1, <2>2, <2>4
  <2>6. Cardinality(budget.paths) <= MaxDistinctPaths
    BY <1>1, <2>3, <2>4
  <2>. QED BY <2>3, <2>4, <2>5, <2>6 DEF Budgeted
<1>7. Recorded(recent, seen.visits)
  BY DEF Recorded
<1>8. Booked(activity, seen.minutes)
  <2>1. activity.buckets = [i \in 0..Buckets - 1 |-> 0] /\ activity.idx = 0
        /\ activity.stamp = 0 /\ activity.total = 0 /\ activity.peak = 0
        /\ seen.minutes = [t \in 0..MaxMinutes |-> 0]
    OBVIOUS
  <2>2. SumFunctionOnSet(activity.buckets, 0..Buckets - 1) = 0
    <3>1. \A x \in 0..Buckets - 1 : activity.buckets[x] \in Nat /\ activity.buckets[x] = 0
      BY <2>1
    <3>. QED BY <3>1, BucketsAre, SumZero
  <2>3. ASSUME NEW j \in 0..Buckets - 1
        PROVE  activity.buckets[Bucket(0, j, Buckets)] = Past(activity, seen.minutes, j)
    <3>1. Bucket(0, j, Buckets) \in 0..Buckets - 1
      BY BucketsAre, AllBuckets
    <3>2. 0 - j \in Nat => 0 - j \in 0..MaxMinutes
      BY <1>1
    <3>. QED BY <2>1, <3>1, <3>2 DEF Past
  <2>4. \A s \in 0..MaxMinutes : seen.minutes[s] = 0
    BY <2>1
  <2> HIDE DEF VisitsInit
  <2>5. activity.total <= activity.peak
    BY <2>1
  <2>. QED BY <2>1, <2>2, <2>3, <2>4, <2>5 DEF Booked
<1>. QED BY <1>3, <1>4, <1>5, <1>6, <1>7, <1>8 DEF VisitsInv

\* The tracker's part of the invariant is not disturbed, or the aggregator's.
LEMMA TrackerSame ==
  ASSUME Fitting(gens) /\ Sessions, UNCHANGED tracker, seen'.last = seen.last,
         seen'.latest = seen.latest, seen'.roomy = seen.roomy
  PROVE  Fitting(gens)' /\ Sessions'
BY DEF tracker, Fitting, Holders, Sessions, Apart, Sorted

LEMMA AggregatorSame ==
  ASSUME Budgeted, UNCHANGED <<rows, budget>>, seen'.turns = seen.turns
  PROVE  Budgeted'
BY DEF Budgeted, Named, Left

LEMMA RecordIs ==
  ASSUME VisitsInv, NEW g \in Goroutine, record(g)
  PROVE  VisitsInv'
<1>0. /\ VisitsTyped /\ Fitting(gens) /\ Sessions /\ Budgeted
      /\ Recorded(recent, seen.visits) /\ Booked(activity, seen.minutes)
  BY DEF VisitsInv
<1>1. call[g] \in VisitCall /\ call \in [Goroutine -> VisitCall]
  BY <1>0 DEF VisitsTyped
<1>2. PICK t \in 0..MaxMinutes, p \in Paths : t = call[g].at /\ p = call[g].path
  BY <1>1 DEF VisitCall
<1>3. PICK d \in Date : d = dateOf(t)
  BY DateOf
<1>4. PICK path \in Paths : path = budgetPath(p, d)
  BY DEF budgetPath, Paths
<1>5. PICK stamp : stamp = tickActivity(activity, t).stamp
  OBVIOUS
<1>6. /\ call' = [call EXCEPT ![g] = [pc |-> "idle", at |-> 0, visitor |-> Absent,
                                      path |-> Absent, class |-> Absent]]
      /\ rows' = rows \cup {<<path, d>>}
      /\ budget' = [date |-> d,
           paths |-> pathsSeen(d) \cup
             (IF Cardinality(pathsSeen(d)) < MaxDistinctPaths THEN {p} ELSE {})]
      /\ recent' = pushRecent(recent, path)
      /\ activity' = tickActivity(activity, t)
      /\ UNCHANGED <<minute, tracker>>
  BY <1>2, <1>3, <1>4, Zenon DEF record
<1>7. seen' = [seen EXCEPT
           !.visits = SubSeq(<<path>> \o @, 1,
                             IF Len(@) < RingSize THEN Len(@) + 1 ELSE RingSize),
           !.minutes[activity'.stamp] = @ + 1,
           !.turns[d] = IF budget.date = d THEN @ ELSE @ + 1]
  BY <1>2, <1>3, <1>4, Zenon DEF record
<1>8. PICK visits \in Seq(Paths), M \in [0..MaxMinutes -> Nat], T \in [Date -> Nat],
           a \in Activities, r \in Rings :
        /\ visits = seen.visits /\ M = seen.minutes /\ T = seen.turns
        /\ a = activity /\ r = recent
  BY <1>0 DEF VisitsTyped, Tallies
<1>9. seen \in Tallies
  BY <1>0 DEF VisitsTyped
<1>10. seen' = [seen EXCEPT !.visits = More(path, visits),
                            !.minutes = [M EXCEPT ![stamp] = @ + 1],
                            !.turns = [T EXCEPT ![d] = IF budget.date = d THEN @ ELSE @ + 1]]
  BY <1>5, <1>6, <1>7, <1>8, <1>9 DEF More, Tallies
<1>11. /\ tickActivity(a, t) \in Activities
       /\ [M EXCEPT ![stamp] = @ + 1] \in [0..MaxMinutes -> Nat]
       /\ Booked(tickActivity(a, t), [M EXCEPT ![stamp] = @ + 1])
  BY <1>0, <1>5, <1>8, TickKeeps
<1>12. /\ pushRecent(r, path) \in Rings
       /\ Recorded(pushRecent(r, path), More(path, visits))
  BY <1>0, <1>8, PushKeeps
<1>13. More(path, visits) \in Seq(Paths)
  <2>1. r.count \in 0..RingSize /\ Len(visits) = r.count /\ RingSize \in Nat
    BY <1>0, <1>8, VisitsAssumption DEF Recorded, Rings
  <2>2. Len(visits) <= RingSize
    BY <2>1
  <2>. QED BY <2>2, MoreIs
<1>14. [T EXCEPT ![d] = IF budget.date = d THEN @ ELSE @ + 1] \in [Date -> Nat]
  OBVIOUS
<1>15. /\ seen' \in Tallies
       /\ seen'.visits = More(path, visits) /\ seen'.minutes = [M EXCEPT ![stamp] = @ + 1]
       /\ seen'.turns = [T EXCEPT ![d] = IF budget.date = d THEN @ ELSE @ + 1]
       /\ seen'.last = seen.last /\ seen'.latest = seen.latest /\ seen'.roomy = seen.roomy
  BY <1>9, <1>10, <1>11, <1>13, <1>14 DEF Tallies
<1>16. VisitsTyped'
  <2>1. /\ call' \in [Goroutine -> VisitCall]
        /\ \A h \in Goroutine : call'[h].pc # "idle" => call'[h].visitor \in Visitor
    <3>1. [pc |-> "idle", at |-> 0, visitor |-> Absent, path |-> Absent, class |-> Absent]
            \in VisitCall
      BY VisitsAssumption DEF VisitCall, Paths
    <3>. QED BY <1>0, <1>1, <1>6, <3>1 DEF VisitsTyped
  <2>2. budget' \in [date : Date \cup {Absent}, paths : SUBSET Paths]
    <3>1. pathsSeen(d) \subseteq Paths
      BY <1>0 DEF pathsSeen, VisitsTyped
    <3>2. pathsSeen(d) \cup (IF Cardinality(pathsSeen(d)) < MaxDistinctPaths THEN {p} ELSE {})
            \in SUBSET Paths
      BY <3>1
    <3>. QED BY <1>6, <3>2
  <2>3. recent' \in Rings /\ activity' \in Activities
    BY <1>6, <1>8, <1>11, <1>12
  <2>4. minute' \in 0..MaxMinutes /\ lastRotate' \in Nat
        /\ gens' \in [1..Generations -> [Visitor -> Nat \cup {Absent}]]
    BY <1>0, <1>6 DEF VisitsTyped, tracker
  <2>. QED BY <1>15, <2>1, <2>2, <2>3, <2>4 DEF VisitsTyped
<1>17. Fitting(gens)' /\ Sessions'
  BY <1>0, <1>6, <1>15, TrackerSame
<1>18. Budgeted'
  <2>1. seen'.turns = [seen.turns EXCEPT ![d] = IF budget.date = d THEN @ ELSE @ + 1]
    BY <1>8, <1>15
  <2>. QED BY <1>0, <1>4, <1>6, <2>1, RecordBudget
<1>19. Recorded(recent, seen.visits)'
  BY <1>6, <1>8, <1>12, <1>15 DEF Recorded
<1>20. Booked(activity, seen.minutes)'
  BY <1>6, <1>8, <1>11, <1>15 DEF Booked, Past
<1>. QED BY <1>16, <1>17, <1>18, <1>19, <1>20 DEF VisitsInv

LEMMA VisitsStep == VisitsInv /\ [VisitsNext]_visitsVars => VisitsInv'
<1> SUFFICES ASSUME VisitsInv, [VisitsNext]_visitsVars PROVE VisitsInv'
  OBVIOUS
<1>0. /\ VisitsTyped /\ Fitting(gens) /\ Sessions /\ Budgeted
      /\ Recorded(recent, seen.visits) /\ Booked(activity, seen.minutes)
  BY DEF VisitsInv
<1>1. CASE MinutePasses
  <2>1. minute' \in 0..MaxMinutes
    BY <1>0, <1>1, VisitsAssumption DEF MinutePasses, VisitsTyped
  <2>2. UNCHANGED <<call, tracker, aggregator, seen>>
    BY <1>1 DEF MinutePasses
  <2>3. VisitsTyped'
    BY <1>0, <2>1, <2>2 DEF VisitsTyped, tracker, aggregator
  <2>4. Fitting(gens)' /\ Sessions'
    BY <1>0, <2>2, TrackerSame
  <2>5. Budgeted'
    BY <1>0, <2>2, AggregatorSame DEF aggregator
  <2>6. Recorded(recent, seen.visits)' /\ Booked(activity, seen.minutes)'
    BY <1>0, <2>2 DEF aggregator, Recorded, Booked, Past
  <2>. QED BY <2>3, <2>4, <2>5, <2>6 DEF VisitsInv
<1>2. ASSUME NEW g \in Goroutine, NEW visit \in Visit, Track(g, visit)
      PROVE  VisitsInv'
  <2>1. /\ call' = [call EXCEPT ![g] = [pc |-> "classify", at |-> minute, visitor |-> visit[1],
                                        path |-> visit[2], class |-> Absent]]
        /\ seen' = [seen EXCEPT !.count = @ + 1]
        /\ UNCHANGED <<minute, tracker, aggregator>>
    BY <1>2, Zenon DEF Track
  <2>2. /\ seen' \in Tallies /\ seen'.last = seen.last /\ seen'.latest = seen.latest
        /\ seen'.roomy = seen.roomy /\ seen'.visits = seen.visits
        /\ seen'.minutes = seen.minutes /\ seen'.turns = seen.turns
    <3>1. PICK n \in Nat : n = seen.count + 1
      BY <1>0 DEF VisitsTyped, Tallies
    <3>2. seen' = [seen EXCEPT !.count = n] /\ seen \in Tallies
      BY <1>0, <2>1, <3>1 DEF VisitsTyped
    <3>. QED BY ONLY <3>2, n \in Nat DEF Tallies
  <2>3. /\ call' \in [Goroutine -> VisitCall]
        /\ \A h \in Goroutine : call'[h].pc # "idle" => call'[h].visitor \in Visitor
    <3>1. visit[1] \in Visitor /\ visit[2] \in Paths /\ minute \in 0..MaxMinutes
      BY <1>0, VisitsAssumption DEF Paths, VisitsTyped
    <3>2. [pc |-> "classify", at |-> minute, visitor |-> visit[1],
           path |-> visit[2], class |-> Absent] \in VisitCall
      BY <3>1 DEF VisitCall
    <3>. QED BY <1>0, <2>1, <3>1, <3>2 DEF VisitsTyped
  <2>4. VisitsTyped'
    BY <1>0, <2>1, <2>2, <2>3 DEF VisitsTyped, tracker, aggregator
  <2>5. Fitting(gens)' /\ Sessions'
    BY <1>0, <2>1, <2>2, TrackerSame
  <2>6. Budgeted'
    BY <1>0, <2>1, <2>2, AggregatorSame DEF aggregator
  <2>7. Recorded(recent, seen.visits)' /\ Booked(activity, seen.minutes)'
    BY <1>0, <2>1, <2>2 DEF aggregator, Recorded, Booked, Past
  <2>. QED BY <2>4, <2>5, <2>6, <2>7 DEF VisitsInv
<1>3. ASSUME NEW g \in Goroutine, classify(g)
      PROVE  VisitsInv'
  BY <1>3, ClassifyKeeps
<1>4. ASSUME NEW g \in Goroutine, record(g)
      PROVE  VisitsInv'
  BY <1>4, RecordIs
<1>5. CASE Activity
  <2>1. activity' = advanceActivity(activity, minute)
        /\ UNCHANGED <<minute, call, tracker, rows, budget, recent, seen>>
    BY <1>5 DEF Activity
  <2>2. /\ advanceActivity(activity, minute) \in Activities
        /\ Booked(advanceActivity(activity, minute), seen.minutes)
    <3>1. /\ activity \in Activities /\ minute \in 0..MaxMinutes
          /\ seen.minutes \in [0..MaxMinutes -> Nat]
      BY <1>0 DEF VisitsTyped, Tallies
    <3>. QED BY <1>0, <3>1, AdvanceKeeps
  <2>3. VisitsTyped'
    BY <1>0, <2>1, <2>2 DEF VisitsTyped, tracker
  <2>4. Fitting(gens)' /\ Sessions'
    BY <1>0, <2>1, TrackerSame
  <2>5. Budgeted'
    BY <1>0, <2>1, AggregatorSame
  <2>6. Recorded(recent, seen.visits)'
    BY <1>0, <2>1 DEF Recorded
  <2>7. Booked(activity, seen.minutes)'
    BY <2>1, <2>2 DEF Booked, Past
  <2>. QED BY <2>3, <2>4, <2>5, <2>6, <2>7 DEF VisitsInv
<1>6. CASE UNCHANGED visitsVars
  <2>1. /\ UNCHANGED <<call, tracker, aggregator, seen, minute>>
    BY <1>6 DEF visitsVars, tracker, aggregator
  <2>3. VisitsTyped'
    BY <1>0, <2>1 DEF VisitsTyped, tracker, aggregator
  <2>4. Fitting(gens)' /\ Sessions'
    BY <1>0, <2>1, TrackerSame
  <2>5. Budgeted'
    BY <1>0, <2>1, AggregatorSame DEF aggregator
  <2>6. Recorded(recent, seen.visits)' /\ Booked(activity, seen.minutes)'
    BY <1>0, <2>1 DEF aggregator, Recorded, Booked, Past
  <2>. QED BY <2>3, <2>4, <2>5, <2>6 DEF VisitsInv
<1>. QED BY <1>1, <1>2, <1>3, <1>4, <1>5, <1>6, Zenon DEF VisitsNext
-----------------------------------------------------------------------------
(* The theorems about Visits.                                              *)

LEMMA VisitsInvariant == VisitsSpec => []VisitsInv
BY VisitsInitially, VisitsStep, PTL DEF VisitsSpec

LEMMA BoundedWithin == VisitsInv => TrackersBounded
<1> SUFFICES ASSUME VisitsInv PROVE TrackersBounded
  OBVIOUS
<1>1. VisitorMemoryBounded
  BY DEF VisitorMemoryBounded, VisitsInv, Fitting, size, Holders
<1>2. ASSUME NEW d \in Date
      PROVE  Cardinality({row \in rows : row[2] = d /\ row[1] # OverflowPath})
               <= MaxDistinctPaths * seen.turns[d]
  <2>1. /\ Cardinality(Named(d)) + Left(d) <= MaxDistinctPaths * seen.turns[d]
        /\ IsFiniteSet(Named(d)) /\ IsFiniteSet(budget.paths)
        /\ Cardinality(budget.paths) <= MaxDistinctPaths
    <3>1. Budgeted /\ Named(d) \in SUBSET rows
      BY DEF VisitsInv, Named
    <3>. QED BY <3>1, FS_Subset DEF Budgeted
  <2>2. /\ Cardinality(Named(d)) \in Nat /\ Cardinality(budget.paths) \in Nat
        /\ MaxDistinctPaths \in Nat /\ seen.turns[d] \in Nat
    BY <2>1, FS_CardinalityType, VisitsAssumption DEF VisitsInv, VisitsTyped, Tallies
  <2>3. Left(d) \in Nat
    BY <2>1, <2>2 DEF Left
  <2>4. MaxDistinctPaths * seen.turns[d] \in Nat
    BY <2>2
  <2>5. Cardinality(Named(d)) <= MaxDistinctPaths * seen.turns[d]
    BY <2>1, <2>2, <2>3, <2>4
  <2>. QED BY <2>5 DEF Named
<1>. QED BY <1>1, <1>2 DEF TrackersBounded, PathsBounded

\* Whatever visitors come with whatever paths, a generation of the tracker holds
\* at most MaxPerGen visitors, and the counters of a date name at most
\* MaxDistinctPaths paths for each time the date came up (rotateIfNeeded,
\* budgetPath).
THEOREM MemoryBounded == VisitsSpec => []TrackersBounded
BY VisitsInvariant, BoundedWithin, PTL

LEMMA ExactWithin == VisitsInv => PresentIsExact
BY RecordedIsRecent, BookedIsExact DEF VisitsInv, PresentIsExact

\* In whatever order visits are recorded, the recent visits are the last ones
\* recorded, the newest first, and the activity counts those of the last hour
\* (recentVisits, tickActivity).
THEOREM PresentExact == VisitsSpec => []PresentIsExact
BY VisitsInvariant, ExactWithin, PTL

LEMMA SessionsStep ==
  VisitsInv /\ [VisitsNext]_visitsVars =>
    \A g \in Goroutine : call[g].pc = "classify" /\ call'[g].pc = "record" =>
      Deserves(call'[g].class, seen.last[call[g].visitor], call[g].at, seen'.roomy)
<1> SUFFICES ASSUME VisitsInv, [VisitsNext]_visitsVars, NEW g \in Goroutine,
                    call[g].pc = "classify", call'[g].pc = "record"
             PROVE  Deserves(call'[g].class, seen.last[call[g].visitor], call[g].at, seen'.roomy)
  OBVIOUS
<1>0. call \in [Goroutine -> VisitCall]
  BY DEF VisitsInv, VisitsTyped
<1>1. CASE classify(g)
  BY <1>1, ClassifyKeeps
<1>2. CASE MinutePasses \/ Activity \/ UNCHANGED visitsVars
  <2>1. call' = call
    BY <1>2 DEF MinutePasses, Activity, visitsVars
  <2>. QED BY <2>1
<1>3. ASSUME NEW h \in Goroutine, NEW visit \in Visit, Track(h, visit)
      PROVE  FALSE
  <2>1. call[h].pc = "idle"
        /\ call' = [call EXCEPT ![h] = [pc |-> "classify", at |-> minute, visitor |-> visit[1],
                                        path |-> visit[2], class |-> Absent]]
    BY <1>3, Zenon DEF Track
  <2>2. call'[g].pc = call[g].pc \/ call'[g].pc = "classify"
    BY <1>0, <2>1
  <2>. QED BY <2>2
<1>4. ASSUME NEW h \in Goroutine, record(h)
      PROVE  FALSE
  <2>1. call' = [call EXCEPT ![h] = [pc |-> "idle", at |-> 0, visitor |-> Absent,
                                     path |-> Absent, class |-> Absent]]
    BY <1>4, Zenon DEF record
  <2>2. call'[g].pc = call[g].pc \/ call'[g].pc = "idle"
    BY <1>0, <2>1
  <2>. QED BY <2>2
<1>5. ASSUME NEW h \in Goroutine, h # g, classify(h)
      PROVE  FALSE
  <2>1. PICK class : call' = [call EXCEPT ![h].pc = "record", ![h].class = class]
    BY <1>5, Zenon DEF classify
  <2>2. call'[g].pc = call[g].pc
    BY <1>0, <1>5, <2>1
  <2>. QED BY <2>2
<1>. QED BY <1>1, <1>2, <1>3, <1>4, <1>5, Zenon DEF VisitsNext

\* The class of a visit is the one that is due to its visitor, whatever other
\* visits were classified since it was last seen (rotateIfNeeded, classify).
THEOREM SessionsDeserved == VisitsSpec => SessionsRight
BY VisitsInvariant, SessionsStep, PTL DEF VisitsSpec, SessionsRight
=============================================================================
