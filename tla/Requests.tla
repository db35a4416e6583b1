------------------------------ MODULE Requests ------------------------------
(***************************************************************************)
(* A request on its way through the middleware of pb-ext, from the outside *)
(* to the inside: the error handler and the logging of core/logging, the   *)
(* counters of core/server, analytics, audit, and the handler.  Requests   *)
(* are served concurrently; what a goroutine does between two accesses to  *)
(* shared counters is one step.                                            *)
(*                                                                         *)
(* The deferred recover of core/logging is called by a function that the   *)
(* deferred one calls, where recover returns nil: a panic passes through   *)
(* all of it, and PocketBase answers 500 outside.  A returned error is not *)
(* yet a status while it passes through the inner middleware.              *)
(***************************************************************************)
EXTENDS Integers, Sequences, FiniteSets, Functions

CONSTANTS
  Request,   \* the requests; each is made once
  Handler,   \* the handlers: pairs of a path and a result
  RingSize,  \* how many recent requests are kept
  None,
  MaxTime    \* bound: the clock

\* A page, an administrator's call of the API, the dashboard (for a superuser, or
\* for another, who gets its login), and a path excluded from the statistics.
Path == {"page", "admin", "dashboard", "login", "excluded"}

\* A handler writes its status itself, or returns an error (a ServerError that
\* has a status, or another one), or panics.
Result == {"ok", "missing", "forbidden", "failed", "denied", "rejected", "broken", "panics"}

ASSUME RequestsAssumption ==
  /\ Handler \subseteq Path \X Result /\ None \notin Path \cup Result
  /\ IsFiniteSet(Request)
  /\ RingSize \in Nat \ {0} /\ MaxTime \in Nat

VARIABLES
  now,
  req,       \* where each request is, and its local variables
  stats,     \* ServerStats: its counters and the average
  totals,    \* RequestStats: the counters by status
  ring,      \* ... and the circular buffer
  trail,     \* the events of the audit
  views,     \* the page views of analytics
  history    \* ghost: the requests in the order they were tracked, and whether
             \* each had ended before the next one came

vars == <<now, req, stats, totals, ring, trail, views, history>>

shouldExcludeFromStats(path) == path = "excluded"

Init ==
  /\ now = 0
  /\ req = [r \in Request |-> [at |-> "idle", path |-> None, result |-> None,
                               start |-> 0, duration |-> 0, oldAvg |-> 0,
                               totalReqs |-> 0, answer |-> None]]
  /\ stats = [active |-> 0, total |-> 0, errors |-> 0, average |-> 0]
  /\ totals = [requests |-> 0, client |-> 0, server |-> 0]
  /\ ring = [buffer |-> [i \in 0..RingSize - 1 |-> None], head |-> 0, count |-> 0]
  /\ trail = {} /\ views = {}
  /\ history = [tracked |-> <<>>, serial |-> TRUE]

At(r, where) == req[r].at = where
InFlight == {r \in Request : req[r].at \notin {"idle", "done"}}
Counted == {r \in Request : ~At(r, "idle") /\ ~shouldExcludeFromStats(req[r].path)}

Tick == /\ now < MaxTime /\ now' = now + 1
        /\ UNCHANGED <<req, stats, totals, ring, trail, views, history>>
-----------------------------------------------------------------------------
(* The counters before the handler.                                        *)

Arrive(r, path) ==
  /\ At(r, "idle")
  /\ req' = [req EXCEPT ![r] = [@ EXCEPT !.at = "handling", !.path = path, !.start = now]]
  /\ stats' = [stats EXCEPT
       !.active = @ + 1,
       !.total = IF shouldExcludeFromStats(path) THEN @ ELSE @ + 1]
  /\ history' = [history EXCEPT !.serial =
       @ /\ (shouldExcludeFromStats(path) \/ InFlight \cap Counted = {})]
  /\ UNCHANGED <<now, totals, ring, trail, views>>
-----------------------------------------------------------------------------
(* The handler, then the audit and the analytics around it.                *)

\* The dashboard turns a panic of its own into an error.
recoverDashboardPanic(path, result) ==
  IF path \in {"dashboard", "login"} /\ result = "panics" THEN "broken" ELSE result

\* The status that is written by the time the handler returns; 0: none.
Status(result) == CASE result = "ok" -> 200 [] result = "missing" -> 404
                    [] result = "forbidden" -> 403 [] result = "failed" -> 500
                    [] OTHER -> 0

Returned(result) == result \in {"denied", "rejected", "broken"}

responseStatus(result) == IF Status(result) = 0 THEN 200 ELSE Status(result)

isTrackableStatus(result) == Status(result) = 0 \/ Status(result) \in 200..399

Administrative == {"admin", "dashboard", "login"}

outcomeOf(path, result) ==
  IF path = "login" \/ responseStatus(result) \in {401, 403} THEN "denied"
  ELSE IF responseStatus(result) >= 400 THEN "failed" ELSE "allowed"

Handle(r, outcome) ==
  LET path == req[r].path  result == recoverDashboardPanic(path, outcome)
  IN  /\ At(r, "handling") /\ <<path, outcome>> \in Handler /\ result # "panics"
      /\ req' = [req EXCEPT ![r] = [@ EXCEPT !.at = "handled", !.result = result]]
      /\ trail' = IF path \in Administrative
                  THEN trail \cup {<<r, outcomeOf(path, result)>>} ELSE trail
      /\ views' = IF path = "page" /\ isTrackableStatus(result)
                  THEN views \cup {r} ELSE views
      /\ UNCHANGED <<now, stats, totals, ring, history>>

\* The panic unwinds all the middleware: RecoverFromPanic sees none.
Panic(r) ==
  /\ At(r, "handling") /\ <<req[r].path, "panics">> \in Handler
  /\ recoverDashboardPanic(req[r].path, "panics") = "panics"
  /\ req' = [req EXCEPT ![r] =
       [@ EXCEPT !.at = "done", !.result = "panics", !.answer = 500, !.start = 0]]
  /\ history' = [history EXCEPT !.serial = FALSE]
  /\ UNCHANGED <<now, stats, totals, ring, trail, views>>
-----------------------------------------------------------------------------
(* The counters after the handler.                                         *)

\* Mutant: a connection that is not counted is not given back.
FinishCounted(r) ==
  /\ At(r, "handled")
  /\ req' = [req EXCEPT ![r] =
       [@ EXCEPT !.duration = now - req[r].start, !.start = 0,
                 !.at = IF r \in Counted THEN "finished" ELSE "leaving"]]
  /\ stats' = IF r \in Counted THEN [stats EXCEPT !.active = @ - 1] ELSE stats
  /\ UNCHANGED <<now, totals, ring, trail, views, history>>

Finish(r) ==
  /\ At(r, "handled")
  /\ req' = [req EXCEPT ![r] =
       [@ EXCEPT !.duration = now - req[r].start, !.start = 0,
                 !.at = IF r \in Counted THEN "finished" ELSE "leaving"]]
  /\ stats' = [stats EXCEPT !.active = @ - 1]
  /\ UNCHANGED <<now, totals, ring, trail, views, history>>

Add(b, r) == [buffer |-> [b.buffer EXCEPT ![b.head] = r],
              head   |-> (b.head + 1) % RingSize,
              count  |-> IF b.count < RingSize THEN b.count + 1 ELSE b.count]

GetAll(b) ==
  [i \in 1..b.count |-> b.buffer[(RingSize + b.head - b.count + i - 1) % RingSize]]

\* Mutant: a 500 is not above 500.
ByStatusStrict(t, status) ==
  [requests |-> t.requests + 1,
   server   |-> t.server + (IF status > 500 THEN 1 ELSE 0),
   client   |-> t.client + (IF status \in 400..500 THEN 1 ELSE 0)]

ByStatus(t, status) ==
  [requests |-> t.requests + 1,
   server   |-> t.server + (IF status >= 500 THEN 1 ELSE 0),
   client   |-> t.client + (IF status \in 400..499 THEN 1 ELSE 0)]

\* The rate of the last seconds, which only the log prints, is left out.
TrackRequest(r) ==
  /\ At(r, "finished") /\ req' = [req EXCEPT ![r] = [@ EXCEPT !.at = "tracked"]]
  /\ totals' = ByStatus(totals, responseStatus(req[r].result))
  /\ ring' = Add(ring, r)
  /\ history' = [history EXCEPT !.tracked = Append(@, r)]
  /\ UNCHANGED <<now, stats, trail, views>>

LoadAverage(r) ==
  /\ At(r, "tracked")
  /\ req' = [req EXCEPT ![r] = [@ EXCEPT !.at = "averaging", !.oldAvg = stats.average]]
  /\ UNCHANGED <<now, stats, totals, ring, trail, views, history>>

LoadTotal(r) ==
  /\ At(r, "averaging")
  /\ req' = [req EXCEPT ![r] = [@ EXCEPT !.at = "storing", !.totalReqs = stats.total]]
  /\ UNCHANGED <<now, stats, totals, ring, trail, views, history>>

\* Mutant: the old average weighs as much as all the requests.
newAvgHeavy(q) == IF q.totalReqs > 1
                  THEN (q.oldAvg * q.totalReqs + q.duration) \div q.totalReqs
                  ELSE q.duration

newAvg(q) == IF q.totalReqs > 1
             THEN (q.oldAvg * (q.totalReqs - 1) + q.duration) \div q.totalReqs
             ELSE q.duration

StoreAverage(r) ==
  /\ At(r, "storing")
  /\ req' = [req EXCEPT ![r] = [@ EXCEPT !.at = "leaving", !.oldAvg = 0, !.totalReqs = 0]]
  /\ stats' = [stats EXCEPT !.average = newAvg(req[r])]
  /\ UNCHANGED <<now, totals, ring, trail, views, history>>

\* What the outermost middleware answers: an error that was returned has the
\* status of its ServerError, and is a 500 when it has none or is no ServerError.
statusCode(result) ==
  CASE result = "denied" -> 401
    [] result \in {"rejected", "broken"} -> 500
    [] OTHER -> responseStatus(result)

\* The error is counted, and becomes an answer.
Answer(r) ==
  LET failed == Returned(req[r].result)
  IN  /\ At(r, "leaving")
      /\ stats' = [stats EXCEPT !.errors = IF failed /\ r \in Counted THEN @ + 1 ELSE @]
      /\ req' = [req EXCEPT ![r] =
           [@ EXCEPT !.at = "done", !.answer = statusCode(req[r].result)]]
      /\ UNCHANGED <<now, totals, ring, trail, views, history>>

Next ==
  \/ Tick
  \/ \E r \in Request :
       \/ \E path \in Path : Arrive(r, path)
       \/ \E outcome \in Result : Handle(r, outcome)
       \/ Panic(r)
       \/ Finish(r) \/ TrackRequest(r)
       \/ LoadAverage(r) \/ LoadTotal(r) \/ StoreAverage(r)
       \/ Answer(r)

Spec == Init /\ [][Next]_vars
-----------------------------------------------------------------------------
(* Properties.                                                             *)

TypeOK ==
  /\ now \in 0..MaxTime
  /\ stats \in [active : Nat, total : Nat, errors : Nat, average : Nat]
  /\ totals \in [requests : Nat, client : Nat, server : Nat]
  /\ trail \subseteq Request \X {"denied", "failed", "allowed"} /\ views \subseteq Request

Panicked == {r \in Request : req[r].result = "panics"}

\* A connection is active while its request is served; and for ever, when it
\* ended in a panic, for the decrement is not deferred.
ActiveCounts ==
  stats.active = Cardinality({r \in Request : At(r, "handling") \/ At(r, "handled")})
                 + Cardinality(Panicked)

\* The recent requests are the last ones that were tracked, the oldest first.
RecentAreLast ==
  LET n == Len(history.tracked) IN
  GetAll(ring) = SubSeq(history.tracked,
                        IF n > RingSize THEN n - RingSize + 1 ELSE 1, n)

Answered(low) == Cardinality({r \in Counted : req[r].answer >= low})

\* The two sets of counters agree: a counted request is tracked once, unless it
\* panicked; and each error that was answered is in exactly one of ClientErrors
\* and ServerErrors (the handler wrote it), TotalErrors (it returned an error,
\* whatever its status) and none (it panicked).
BooksAgree ==
  /\ stats.total = totals.requests
       + Cardinality({r \in Counted : req[r].at \in {"handling", "handled", "finished"}})
       + Cardinality(Panicked \cap Counted)
  /\ InFlight = {} =>
       LET lost == Cardinality(Panicked \cap Counted) IN
       /\ Answered(400) = totals.client + totals.server + stats.errors + lost
       /\ Answered(500) \in totals.server + lost .. totals.server + stats.errors + lost

\* What monitoring tells of the requests: how many, how they ended, and which
\* were the last.
MonitoringAgrees == BooksAgree /\ RecentAreLast

Sum(rs) == SumFunction([i \in DOMAIN rs |-> req[rs[i]].duration])

\* However updates are lost, the average is no longer than the longest request;
\* and it is the mean, but for what the divisions drop, when each request ended
\* before the next one came.
AverageIsAMean ==
  LET n == Len(history.tracked)  total == Sum(history.tracked) IN
  /\ stats.average > 0 => \E r \in Request : stats.average <= req[r].duration
  /\ (history.serial /\ InFlight \cap Counted = {}) =>
       total - n * stats.average \in 0..(n * (n - 1)) \div 2

\* What is promised of a view (core/analytics/collector.go:93): an error makes no
\* row; and of the audit (core/audit/collector.go:212): it records the status a
\* request finished with.
RecordsAreServed ==
  \A r \in Request : (At(r, "done") /\ (<<r, "allowed">> \in trail \/ r \in views)) =>
    req[r].answer < 400

\* What is promised of the error rate (core/alerts/types.go:183): it is one of the
\* 5xx responses.
ServerErrorsCounted == InFlight = {} => totals.server = Answered(500)
=============================================================================
