------------------------------- MODULE Visits -------------------------------
(***************************************************************************)
(* What core/analytics keeps of a page view in memory: who the visitor is  *)
(* (visitors.go), and the day's paths, the recent visits and the activity  *)
(* of the last hour (aggregator.go).  Track reads the clock before it      *)
(* takes either lock, so visits may be classified and recorded in another  *)
(* order than that of their times.                                         *)
(*                                                                         *)
(* The counters themselves, their flush and their rows are in Analytics:   *)
(* here `rows' has the path and the date of every counter there ever was.  *)
(***************************************************************************)
EXTENDS Integers, Sequences, FiniteSets, Functions

CONSTANTS
  Goroutine,          \* requests that are served at the same time
  Visitor,            \* session keys
  Visit,              \* who visits what: pairs of a visitor and a path
  Generations, MaxPerGen, SessionWindow,   \* of the visitor tracker
  MaxDistinctPaths, RingSize, Buckets,     \* of the aggregator
  DayLength,          \* in minutes, as every time here
  Absent,
  MaxMinutes, MaxVisits  \* bounds: the clock, the visits

ASSUME VisitsAssumption ==
  /\ Generations \in Nat \ {0} /\ MaxPerGen \in Nat \ {0} /\ SessionWindow \in Nat \ {0}
  /\ MaxDistinctPaths \in Nat \ {0} /\ RingSize \in Nat \ {0}
  /\ Buckets \in Nat \ {0} /\ DayLength \in Nat \ {0}
  /\ \A visit \in Visit : visit[1] \in Visitor
  /\ MaxMinutes \in Nat /\ MaxVisits \in Nat /\ Absent \notin Nat

VARIABLES
  minute,
  call,        \* where each call of Track is
  gens,        \* the generations, the newest first: when a visitor was last seen
  lastRotate,
  rows,        \* the counters: pairs of a path and a date
  budget,      \* the date the budget of paths is for, and the paths it has
  recent,      \* the ring of recent visits
  activity,    \* a bucket for each minute, and the sum of them
  seen         \* ghost: when each visitor was last classified, the latest time
               \* of all, whether a generation was ever full; the number of
               \* visits, the last ones recorded, how many were in each minute,
               \* and how often each date came up for the budget

tracker == <<gens, lastRotate>>
aggregator == <<rows, budget, recent, activity>>
visitsVars == <<minute, call, gens, lastRotate, rows, budget, recent, activity, seen>>

OverflowPath == "/*"
Date == 0..MaxMinutes \div DayLength
dateOf(t) == t \div DayLength
Nobody == [v \in Visitor |-> Absent]

VisitsInit ==
  /\ minute = 0
  /\ call = [g \in Goroutine |-> [pc |-> "idle", at |-> 0, visitor |-> Absent,
                                  path |-> Absent, class |-> Absent]]
  /\ gens = [i \in 1..Generations |-> Nobody] /\ lastRotate = 0
  /\ rows = {} /\ budget = [date |-> Absent, paths |-> {}]
  /\ recent = [ring |-> [i \in 0..RingSize - 1 |-> Absent], head |-> 0, count |-> 0]
  /\ activity = [buckets |-> [i \in 0..Buckets - 1 |-> 0], idx |-> 0, stamp |-> 0,
                 total |-> 0, peak |-> 0]
  /\ seen = [last |-> Nobody, latest |-> 0, roomy |-> TRUE, count |-> 0, visits |-> <<>>,
             minutes |-> [t \in 0..MaxMinutes |-> 0], turns |-> [d \in Date |-> 0]]

MinutePasses ==
  minute < MaxMinutes /\ minute' = minute + 1 /\ UNCHANGED <<call, tracker, aggregator, seen>>

\* Track reads the clock.
Track(g, visit) ==
  /\ call[g].pc = "idle"
  /\ seen.count < MaxVisits
  /\ call' = [call EXCEPT ![g] = [pc |-> "classify", at |-> minute, visitor |-> visit[1],
                                  path |-> visit[2], class |-> Absent]]
  /\ seen' = [seen EXCEPT !.count = @ + 1]
  /\ UNCHANGED <<minute, tracker, aggregator>>
-----------------------------------------------------------------------------
(* The visitor tracker.                                                    *)

size(gen) == Cardinality({v \in Visitor : gen[v] # Absent})

rotateIfNeeded(t) == size(gens[1]) >= MaxPerGen \/ t - lastRotate >= SessionWindow

rotated(t) == IF rotateIfNeeded(t)
              THEN [i \in 1..Generations |-> IF i = 1 THEN Nobody ELSE gens[i - 1]]
              ELSE gens

Held(G, visitor) == {i \in 1..Generations : G[i][visitor] # Absent}
Newest(S) == CHOOSE i \in S : \A j \in S : i <= j

\* Mutant: a visitor stays in the generation it was found in.
promotedInPlace(G, visitor, t) ==
  LET held == Held(G, visitor) IN
  [G EXCEPT ![IF held = {} THEN 1 ELSE Newest(held)][visitor] = t]

\* A visitor that is found moves to the newest generation.
promoted(G, visitor, t) ==
  LET held == Held(G, visitor) IN
  [i \in 1..Generations |->
     IF i = 1 THEN [G[i] EXCEPT ![visitor] = t]
     ELSE IF held # {} /\ i = Newest(held) THEN [G[i] EXCEPT ![visitor] = Absent]
     ELSE G[i]]

classify(g) ==
  LET t == call[g].at
      visitor == call[g].visitor
      G == rotated(t)
      held == Held(G, visitor)
      class == CASE held = {} -> "new"
                 [] held # {} /\ t - G[Newest(held)][visitor] < SessionWindow -> "continued"
                 [] OTHER -> "returning"
  IN  /\ call[g].pc = "classify"
      /\ call' = [call EXCEPT ![g].pc = "record", ![g].class = class]
      /\ gens' = promoted(G, visitor, t)
      /\ lastRotate' = IF rotateIfNeeded(t) THEN t ELSE lastRotate
      /\ seen' = [seen EXCEPT !.last[visitor] = t,
                              !.latest = IF t > @ THEN t ELSE @,
                              !.roomy = @ /\ size(gens[1]) < MaxPerGen]
      /\ UNCHANGED <<minute, aggregator>>
-----------------------------------------------------------------------------
(* The aggregator.                                                         *)

\* The paths of the budget, when a visit of date comes.
pathsSeen(date) == IF budget.date = date THEN budget.paths ELSE {}

\* Mutant: one path too many.
budgetPathLate(path, date) ==
  IF path \in pathsSeen(date) \/ Cardinality(pathsSeen(date)) <= MaxDistinctPaths
  THEN path ELSE OverflowPath

budgetPath(path, date) ==
  IF path \in pathsSeen(date) \/ Cardinality(pathsSeen(date)) < MaxDistinctPaths
  THEN path ELSE OverflowPath

\* Of a recent visit its path only.
pushRecent(r, path) ==
  [ring  |-> [r.ring EXCEPT ![r.head] = path],
   head  |-> (r.head + 1) % RingSize,
   count |-> IF r.count < RingSize THEN r.count + 1 ELSE r.count]

\* The newest first.
recentVisits(limit) ==
  [i \in 1..(IF limit > recent.count THEN recent.count ELSE limit) |->
     recent.ring[(recent.head - i + RingSize * 2) % RingSize]]

\* Mutant: empties the buckets but the one that is next.
PassedShort(a, elapsed) == {(a.idx + i) % Buckets : i \in 1..elapsed - 1}

\* The buckets that pass when the clock of a goes on by elapsed.
Passed(a, elapsed) == {(a.idx + i) % Buckets : i \in 1..elapsed}

advanceActivity(a, t) ==
  LET elapsed == t - a.stamp IN
  IF elapsed <= 0 THEN a
  ELSE IF elapsed >= Buckets
  THEN [a EXCEPT !.buckets = [i \in 0..Buckets - 1 |-> 0], !.total = 0, !.idx = 0,
                 !.stamp = t]
  ELSE [a EXCEPT !.buckets = [i \in 0..Buckets - 1 |->
                                IF i \in Passed(a, elapsed) THEN 0 ELSE @[i]],
                 !.total = @ - SumFunctionOnSet(a.buckets, Passed(a, elapsed)),
                 !.idx = (@ + elapsed) % Buckets,
                 !.stamp = t]

tickActivity(a, t) ==
  LET b == advanceActivity(a, t) IN
  [b EXCEPT !.buckets[b.idx] = @ + 1, !.total = @ + 1,
            !.peak = IF b.total + 1 > @ THEN b.total + 1 ELSE @]

record(g) ==
  LET t == call[g].at  date == dateOf(t)  path == budgetPath(call[g].path, date)
  IN  /\ call[g].pc = "record"
      /\ call' = [call EXCEPT ![g] = [pc |-> "idle", at |-> 0, visitor |-> Absent,
                                      path |-> Absent, class |-> Absent]]
      /\ rows' = rows \cup {<<path, date>>}
      /\ budget' = [date |-> date,
           paths |-> pathsSeen(date) \cup
             (IF Cardinality(pathsSeen(date)) < MaxDistinctPaths
              THEN {call[g].path} ELSE {})]
      /\ recent' = pushRecent(recent, path)
      /\ activity' = tickActivity(activity, t)
      /\ seen' = [seen EXCEPT
           !.visits = SubSeq(<<path>> \o @, 1,
                             IF Len(@) < RingSize THEN Len(@) + 1 ELSE RingSize),
           !.minutes[activity'.stamp] = @ + 1,
           !.turns[date] = IF budget.date = date THEN @ ELSE @ + 1]
      /\ UNCHANGED <<minute, tracker>>

\* The dashboard asks for the activity.
Activity ==
  /\ minute > activity.stamp
  /\ activity' = advanceActivity(activity, minute)
  /\ UNCHANGED <<minute, call, tracker, rows, budget, recent, seen>>

VisitsNext ==
  \/ MinutePasses
  \/ \E g \in Goroutine :
       \/ \E visit \in Visit : Track(g, visit)
       \/ classify(g) \/ record(g)
  \/ Activity

VisitsSpec == VisitsInit /\ [][VisitsNext]_visitsVars
-----------------------------------------------------------------------------
(* Properties.                                                             *)

\* Whoever comes, the tracker holds no more visitors than its capacity.
VisitorMemoryBounded ==
  \A i \in 1..Generations : size(gens[i]) <= MaxPerGen

\* The class that a visit at t deserves of a visitor that was last seen at last.
Deserves(class, last, t, roomy) ==
  LET open == last # Absent /\ t - last < SessionWindow
  IN  /\ class = "continued" => open
      /\ (Generations >= 2 /\ roomy /\ t >= seen.latest /\ open) => class = "continued"
      /\ last = Absent => class = "new"

\* A session is continued only while it is open.  While visitors fit into a
\* generation, an open one is continued by every visit that is not late, though
\* its visitor has been moved through the generations; and a visitor that never
\* came is new.
SessionsRight ==
  [][\A g \in Goroutine : call[g].pc = "classify" /\ call'[g].pc = "record" =>
       Deserves(call'[g].class, seen.last[call[g].visitor], call[g].at, seen'.roomy)]_visitsVars

\* A date has at most MaxDistinctPaths paths and the overflow for each time that
\* it came up: once, unless visits around midnight are recorded out of order.
PathsBounded ==
  \A d \in Date : Cardinality({row \in rows : row[2] = d /\ row[1] # OverflowPath})
                    <= MaxDistinctPaths * seen.turns[d]

\* Neither the visitors nor the paths that clients invent grow the memory beyond
\* the trackers' capacities (rotateIfNeeded, budgetPath).
TrackersBounded == VisitorMemoryBounded /\ PathsBounded

\* ... and what is promised (aggregator.go:42): distinct paths per day are
\* bounded by maxDistinctPaths.
PathsBoundedPerDay ==
  \A d \in Date : Cardinality({row \in rows : row[2] = d /\ row[1] # OverflowPath})
                    <= MaxDistinctPaths

\* The recent visits are the last ones recorded, the newest first.
RecentAreNewest == recentVisits(RingSize) = seen.visits

\* The activity is the number of the visits of the last hour, up to the minute it
\* was last asked for; a late visit counts for the minute it was recorded in.
ActivityExact ==
  /\ activity.total = SumFunction([i \in 0..Buckets - 1 |->
       IF activity.stamp - i \in Nat THEN seen.minutes[activity.stamp - i] ELSE 0])
  /\ activity.total <= activity.peak

\* What the dashboard shows of the present: the recent visits and the activity.
PresentIsExact == RecentAreNewest /\ ActivityExact
=============================================================================
