----------------------------- MODULE Analytics -----------------------------
(***************************************************************************)
(* The page view counters of core/analytics: requests fold views into a    *)
(* map under a mutex; the worker, Close and every load of the dashboard    *)
(* swap the map out and write it, side by side; the dashboard keeps the    *)
(* aggregate it queried for CacheTTL.                                      *)
(*                                                                         *)
(* A counter is its key and counts views: the sessions counted with a view *)
(* go where it goes.  How a request comes by its key is in Visits.         *)
(* Retention, which deletes days behind the lookback window, is left out.  *)
(***************************************************************************)
EXTENDS Integers, FiniteSets, Functions

CONSTANTS
  Keys,                \* counter keys (counterKey)
  Viewers,             \* goroutines that load the dashboard
  None,
  MaxPendingCounters, CacheTTL,   \* of Config
  MaxTime, MaxViews    \* bounds: the clock, the views

ASSUME AnalyticsAssumption ==
  /\ IsFiniteSet(Keys) /\ IsFiniteSet(Viewers)
  /\ Viewers \cap {"worker", "close"} = {}
  /\ MaxPendingCounters \in Nat \ {0} /\ CacheTTL \in Nat
  /\ MaxTime \in Nat /\ MaxViews \in Nat

VARIABLES
  now,
  pending, flushNow,   \* the map of the aggregator; a request to flush early
  at,                  \* per goroutine: where it is
  batch,               \* per goroutine: what its Flush drained
  table,               \* the rows of _analytics
  cached, cachedUntil, \* the memoized aggregate
  asked, answer,       \* per viewer: now of GetData, and what it has queried
  received, lost,      \* histories: views recorded, and dropped by restore
  snapshot,            \* history: rows written when the clock came to a tick
  mark, excused        \* history: views received when a viewer asked, and those
                       \* of them that were in other hands or failed to be written

Flushers == Viewers \cup {"worker", "close"}
Aggregate == [views : Nat, groups : Nat]

cache == <<cached, cachedUntil>>
dashboard == <<asked, answer, mark, excused>>
vars == <<now, pending, flushNow, at, batch, table, cache, dashboard, received,
          lost, snapshot>>

Tally == [Keys -> Nat]
Zero == [k \in Keys |-> 0]
Plus(f, g) == [k \in Keys |-> f[k] + g[k]]
Part(f, S) == [k \in Keys |-> IF k \in S THEN f[k] ELSE 0]
entries(f) == {k \in Keys : f[k] > 0}
Views(f) == SumFunction(f)

Init ==
  /\ now = 0
  /\ pending = Zero /\ flushNow = FALSE
  /\ at = [f \in Flushers |-> "idle"]
  /\ batch = [f \in Flushers |-> Zero]
  /\ table = Zero
  /\ cached = None /\ cachedUntil = 0
  /\ asked = [v \in Viewers |-> 0]
  /\ answer = [v \in Viewers |-> [views |-> 0, groups |-> 0]]
  /\ received = Zero /\ lost = Zero
  /\ snapshot = [t \in 0..MaxTime |-> 0]
  /\ mark = [v \in Viewers |-> 0] /\ excused = [v \in Viewers |-> 0]

Tick ==
  /\ now < MaxTime
  /\ now' = now + 1
  /\ snapshot' = [snapshot EXCEPT ![now'] = Views(table)]
  /\ UNCHANGED <<pending, flushNow, at, batch, table, cache,
                 dashboard, received, lost>>
-----------------------------------------------------------------------------
(* record and requestFlush.                                                *)

Record(k) ==
  /\ Views(received) < MaxViews
  /\ pending' = [pending EXCEPT ![k] = @ + 1]
  /\ received' = [received EXCEPT ![k] = @ + 1]
  /\ flushNow' = (flushNow \/ Cardinality(entries(pending')) >= MaxPendingCounters)
  /\ UNCHANGED <<now, at, batch, table, cache, dashboard, lost, snapshot>>
-----------------------------------------------------------------------------
(* Flush, by any goroutine f; next is where f goes on after it.            *)

next(f) == CASE f = "worker" -> "idle"
             [] f = "close"  -> "closed"
             [] OTHER        -> "query"

\* Mutant: drain hands out the map and does not replace it.
drainShared(f) ==
  /\ batch' = [batch EXCEPT ![f] = pending]
  /\ at' = [at EXCEPT ![f] = IF entries(pending) = {} THEN next(f) ELSE "write"]
  /\ UNCHANGED pending

drain(f) ==
  /\ pending' = Zero
  /\ batch' = [batch EXCEPT ![f] = pending]
  /\ at' = [at EXCEPT ![f] = IF entries(pending) = {} THEN next(f) ELSE "write"]

\* The transaction commits every chunk ...
WriteCommits(f) ==
  /\ at[f] = "write"
  /\ table' = Plus(table, batch[f])
  /\ batch' = [batch EXCEPT ![f] = Zero]
  /\ at' = [at EXCEPT ![f] = "invalidate"]
  /\ UNCHANGED <<now, pending, flushNow, cache, dashboard,
                 received, lost, snapshot>>

\* ... or none of them.
WriteFails(f) ==
  /\ at[f] = "write"
  /\ at' = [at EXCEPT ![f] = "restore"]
  /\ excused' = IF f \in Viewers
                THEN [excused EXCEPT ![f] = @ + Views(batch[f])] ELSE excused
  /\ UNCHANGED <<now, pending, flushNow, batch, table, cache,
                 asked, answer, mark, received, lost, snapshot>>

\* invalidateCache.
Invalidate(f) ==
  /\ at[f] = "invalidate"
  /\ cached' = None /\ cachedUntil' = 0
  /\ at' = [at EXCEPT ![f] = next(f)]
  /\ UNCHANGED <<now, pending, flushNow, batch, table,
                 dashboard, received, lost, snapshot>>

\* restore keeps the counters of S besides those that are pending again: as
\* many as there is room for, and the order of the map says which.
Restore(f, S) ==
  LET new  == entries(batch[f]) \ entries(pending)
      over == Cardinality(entries(pending)) + Cardinality(new) - MaxPendingCounters
  IN  /\ at[f] = "restore"
      /\ S \subseteq new
      /\ Cardinality(new \ S) =
           IF over <= 0 THEN 0
           ELSE IF over <= Cardinality(new) THEN over ELSE Cardinality(new)
      /\ pending' = Plus(pending, Part(batch[f], S \cup entries(pending)))
      /\ lost' = Plus(lost, Part(batch[f], new \ S))
      /\ batch' = [batch EXCEPT ![f] = Zero]
      /\ at' = [at EXCEPT ![f] = next(f)]
      /\ UNCHANGED <<now, flushNow, table, cache, dashboard,
                     received, snapshot>>
-----------------------------------------------------------------------------
(* flushWorker and Close.                                                  *)

\* The select of the worker: a tick, or a request from Track (requested).
WorkerFlushes(requested) ==
  /\ at["worker"] = "idle"
  /\ IF requested THEN flushNow /\ flushNow' = FALSE ELSE UNCHANGED flushNow
  /\ drain("worker")
  /\ UNCHANGED <<now, table, cache, dashboard, received, lost,
                 snapshot>>

WorkerStops ==
  /\ at["worker"] = "idle" /\ at["close"] = "stopping"
  /\ at' = [at EXCEPT !["worker"] = "stopped"]
  /\ UNCHANGED <<now, pending, flushNow, batch, table, cache,
                 dashboard, received, lost, snapshot>>

CloseStops ==
  /\ at["close"] = "idle"
  /\ at' = [at EXCEPT !["close"] = "stopping"]
  /\ UNCHANGED <<now, pending, flushNow, batch, table, cache,
                 dashboard, received, lost, snapshot>>

CloseFlushes ==
  /\ at["close"] = "stopping" /\ at["worker"] = "stopped"
  /\ drain("close")
  /\ UNCHANGED <<now, flushNow, table, cache, dashboard,
                 received, lost, snapshot>>
-----------------------------------------------------------------------------
(* GetData.                                                                *)

\* The views that each goroutine has drained and not written.
inHand == [f \in Flushers |-> Views(batch[f])]

GetData(v) ==
  /\ at[v] = "idle"
  /\ at' = [at EXCEPT ![v] = "lookup"]
  /\ asked' = [asked EXCEPT ![v] = now]
  /\ mark' = [mark EXCEPT ![v] = Views(received)]
  /\ UNCHANGED <<now, pending, flushNow, batch, table, cache,
                 answer, excused, received, lost, snapshot>>

\* GetData returns, and with it its locals are gone.
Return(v) ==
  /\ at' = [at EXCEPT ![v] = "idle"]
  /\ asked' = [asked EXCEPT ![v] = 0]
  /\ answer' = [answer EXCEPT ![v] = [views |-> 0, groups |-> 0]]
  /\ mark' = [mark EXCEPT ![v] = 0] /\ excused' = [excused EXCEPT ![v] = 0]

CacheHit(v) ==
  /\ at[v] = "lookup" /\ cached # None /\ asked[v] < cachedUntil
  /\ Return(v)
  /\ UNCHANGED <<now, pending, flushNow, batch, table, cache,
                 received, lost, snapshot>>

\* Mutant: the dashboard reads without a flush of its own.
CacheMissUnflushed(v) ==
  /\ at[v] = "lookup" /\ (cached = None \/ asked[v] >= cachedUntil)
  /\ at' = [at EXCEPT ![v] = "query"]
  /\ UNCHANGED <<now, pending, flushNow, batch, table, cache,
                 dashboard, received, lost, snapshot>>

CacheMiss(v) ==
  /\ at[v] = "lookup" /\ (cached = None \/ asked[v] >= cachedUntil)
  /\ at' = [at EXCEPT ![v] = "flush"]
  /\ UNCHANGED <<now, pending, flushNow, batch, table, cache,
                 dashboard, received, lost, snapshot>>

ViewerFlushes(v) ==
  /\ at[v] = "flush"
  /\ drain(v)
  /\ excused' = [excused EXCEPT ![v] =
                   SumFunctionOnSet(inHand, Flushers \ {v})]
  /\ UNCHANGED <<now, flushNow, table, cache, asked, answer,
                 mark, received, lost, snapshot>>

\* The first of the four queries; the other three read what is there later.
QueryTotals(v) ==
  /\ at[v] = "query"
  /\ answer' = [answer EXCEPT ![v].views = Views(table)]
  /\ at' = [at EXCEPT ![v] = "groups"]
  /\ UNCHANGED <<now, pending, flushNow, batch, table, cache,
                 asked, mark, excused, received, lost, snapshot>>

QueryGroups(v) ==
  /\ at[v] = "groups"
  /\ answer' = [answer EXCEPT ![v].groups = Views(table)]
  /\ at' = [at EXCEPT ![v] = "store"]
  /\ UNCHANGED <<now, pending, flushNow, batch, table, cache,
                 asked, mark, excused, received, lost, snapshot>>

\* Mutant: the TTL counts from the end of the queries.
StoreFromNow(v) ==
  /\ at[v] = "store"
  /\ cached' = answer[v] /\ cachedUntil' = now + CacheTTL
  /\ Return(v)
  /\ UNCHANGED <<now, pending, flushNow, batch, table, received,
                 lost, snapshot>>

Store(v) ==
  /\ at[v] = "store"
  /\ cached' = answer[v] /\ cachedUntil' = asked[v] + CacheTTL
  /\ Return(v)
  /\ UNCHANGED <<now, pending, flushNow, batch, table, received,
                 lost, snapshot>>

\* A query fails: the page shows what is in memory only.
QueryFails(v) ==
  /\ at[v] \in {"query", "groups"}
  /\ Return(v)
  /\ UNCHANGED <<now, pending, flushNow, batch, table, cache,
                 received, lost, snapshot>>
-----------------------------------------------------------------------------
Flush(f) == \/ WriteCommits(f) \/ WriteFails(f) \/ Invalidate(f)
            \/ \E S \in SUBSET entries(batch[f]) : Restore(f, S)

Close == CloseStops \/ CloseFlushes

Dashboard(v) == \/ GetData(v) \/ CacheHit(v) \/ CacheMiss(v) \/ ViewerFlushes(v)
                \/ QueryTotals(v) \/ QueryGroups(v) \/ Store(v) \/ QueryFails(v)

Next == \/ Tick
        \/ \E k \in Keys : Record(k)
        \/ \E f \in Flushers : Flush(f)
        \/ \E requested \in BOOLEAN : WorkerFlushes(requested)
        \/ WorkerStops \/ Close
        \/ \E v \in Viewers : Dashboard(v)

Spec == Init /\ [][Next]_vars
-----------------------------------------------------------------------------
(* Properties.                                                             *)

Types ==
  /\ now \in 0..MaxTime
  /\ pending \in Tally /\ table \in Tally /\ received \in Tally /\ lost \in Tally
  /\ flushNow \in BOOLEAN
  /\ at \in [Flushers -> {"idle", "write", "restore", "invalidate", "stopped",
                          "stopping", "closed", "lookup", "flush", "query",
                          "groups", "store"}]
  /\ batch \in [Flushers -> Tally]
  /\ cached \in Aggregate \cup {None} /\ cachedUntil \in Nat
  /\ asked \in [Viewers -> 0..MaxTime] /\ answer \in [Viewers -> Aggregate]
  /\ mark \in [Viewers -> Nat] /\ excused \in [Viewers -> Nat]
  /\ snapshot \in [0..MaxTime -> Nat]

\* Every variable has its type; a goroutine holds counters only between drain
\* and the end of its write or restore.
TypeOK ==
  /\ Types
  /\ \A f \in Flushers : at[f] \notin {"write", "restore"} => batch[f] = Zero

\* Through drains of several goroutines, failed writes and restores every view
\* is waiting, on record, or was dropped because the buffer had filled again,
\* and is none of these twice: analytics keeps the books that Ledger describes.
drained(k) == [f \in Flushers |-> batch[f][k]]
waiting == [k \in Keys |-> pending[k] + SumFunction(drained(k))]
Books == INSTANCE Ledger WITH received <- received, waiting <- waiting,
                              recorded <- table, lost <- lost
BooksKept == Books!Spec

\* The numbers a dashboard queries include every view recorded before it was
\* asked, but for those another Flush had in hand, those its own Flush could
\* not write and those restore dropped.
FreshAnswer ==
  \A v \in Viewers :
    at[v] \in {"groups", "store"} =>
      answer[v].views + excused[v] + Views(lost) >= mark[v]

\* Whatever invalidations and fills overlap, the memoized aggregate is never
\* served when it is older than CacheTTL: it has every row that was written
\* CacheTTL before it is asked for.
ServedWithinTTL ==
  \A v \in Viewers :
    (/\ at[v] = "lookup" /\ cached # None /\ asked[v] < cachedUntil
     /\ asked[v] >= CacheTTL)
      => cached.views >= snapshot[asked[v] - CacheTTL]

\* The view total is a valid denominator for the breakdowns (storage.go:185-186).
BreakdownFits == cached # None => cached.groups <= cached.views
=============================================================================
