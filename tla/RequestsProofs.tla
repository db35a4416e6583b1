---------------------------- MODULE RequestsProofs ----------------------------
(***************************************************************************)
(* Theorems about Requests.  Every counter is the size of a set of         *)
(* requests, told from where each request is: Books is that dictionary,    *)
(* and the formulas of BooksAgree are facts about the sets.  The circular  *)
(* buffer is read backwards from its head (Slot), which needs no division; *)
(* and while requests are serial the average is the mean of all requests   *)
(* but for the one under way (Serial).                                     *)
(***************************************************************************)
EXTENDS Requests, Sums, SequenceTheorems

Where == {"idle", "handling", "handled", "finished", "tracked", "averaging",
          "storing", "leaving", "done"}

Local == [at : Where, path : Path \cup {None}, result : Result \cup {None},
          start : Nat, duration : Nat, oldAvg : Nat, totalReqs : Nat,
          answer : Nat \cup {None}]

Types ==
  /\ now \in 0..MaxTime /\ req \in [Request -> Local]
  /\ stats \in [active : Int, total : Nat, errors : Nat, average : Nat]
  /\ totals \in [requests : Nat, client : Nat, server : Nat]
  /\ ring \in [buffer : [0..RingSize - 1 -> Request \cup {None}],
               head : 0..RingSize - 1, count : 0..RingSize]
  /\ trail \subseteq Request \X {"denied", "failed", "allowed"} /\ views \subseteq Request
  /\ history \in [tracked : Seq(Request), serial : BOOLEAN]

\* What the place of a request says of the rest of it.
Course(r) ==
  LET q == req[r] IN
  /\ q.at \in {"idle", "handling"} <=> q.result = None
  /\ q.result = "panics" => q.at = "done"
  /\ q.at # "idle" => q.path \in Path
  /\ q.at \in {"finished", "tracked", "averaging", "storing"} => q.path # "excluded"
  /\ q.at \in {"handling", "handled"} => q.start <= now
  /\ q.at \in {"idle", "handling", "handled"} => q.duration = 0
  /\ q.at = "done" =>
       q.answer = IF q.result = "panics" THEN 500 ELSE statusCode(q.result)

Courses == \A r \in Request : Course(r)

\* Step of one request.
Others(r) == \A q \in Request \ {r} : req'[q] = req[q]

-----------------------------------------------------------------------------
(* Where each step takes its request.                                      *)

\* A request moves, no other one does, and no time passes.
Moves(r) == req' \in [Request -> Local] /\ Others(r) /\ now' = now

LEMMA Taken ==
  ASSUME Types, NEW r \in Request, NEW v \in Local, req' = [req EXCEPT ![r] = v]
  PROVE  req' \in [Request -> Local] /\ Others(r) /\ req'[r] = v
BY DEF Types, Others

LEMMA ArriveMoves ==
  ASSUME Types, Courses, NEW r \in Request, NEW path \in Path, Arrive(r, path)
  PROVE  /\ req[r].at = "idle"
         /\ Moves(r)
         /\ req'[r].at = "handling" /\ req'[r].path = path
         /\ req'[r].result = req[r].result /\ req'[r].start = now
         /\ req'[r].duration = req[r].duration /\ req'[r].oldAvg = req[r].oldAvg
         /\ req'[r].totalReqs = req[r].totalReqs /\ req'[r].answer = req[r].answer
<1> DEFINE v == [req[r] EXCEPT !.at = "handling", !.path = path, !.start = now]
<1>1. req[r] \in Local
  BY DEF Types
<1>2. req[r].at = "idle"
  BY <1>1 DEF Arrive, At
<1>3. ASSUME NEW q \in Local, NEW a \in Where, NEW b \in Path, NEW c \in Nat
      PROVE  [q EXCEPT !.at = a, !.path = b, !.start = c] \in Local
  BY DEF Local
<1>4. /\ "handling" \in Where
      /\ path \in Path
      /\ now \in Nat
  BY <1>1, <1>2, RequestsAssumption DEF Where, Types
<1>5. v \in Local
  BY <1>1, <1>3, <1>4, Zenon
<1>6. req' = [req EXCEPT ![r] = v]
  BY DEF Arrive
<1> HIDE DEF v
<1>7. req' \in [Request -> Local] /\ Others(r) /\ req'[r] = v
  BY <1>5, <1>6, Taken
<1>8. now' = now
  BY DEF Arrive
<1> QED  BY <1>1, <1>2, <1>7, <1>8 DEF v, Local, Moves

LEMMA HandleMoves ==
  ASSUME Types, Courses, NEW r \in Request, NEW outcome \in Result, Handle(r, outcome)
  PROVE  /\ req[r].at = "handling"
         /\ recoverDashboardPanic(req[r].path, outcome) \in Result \ {"panics"}
         /\ Moves(r)
         /\ req'[r].at = "handled" /\ req'[r].path = req[r].path
         /\ req'[r].result = recoverDashboardPanic(req[r].path, outcome)
         /\ req'[r].start = req[r].start /\ req'[r].duration = req[r].duration
         /\ req'[r].oldAvg = req[r].oldAvg /\ req'[r].totalReqs = req[r].totalReqs
         /\ req'[r].answer = req[r].answer
<1> DEFINE v == [req[r] EXCEPT !.at = "handled",
              !.result = recoverDashboardPanic(req[r].path, outcome)]
<1>1. req[r] \in Local
  BY DEF Types
<1>2. req[r].at = "handling"
      /\ recoverDashboardPanic(req[r].path, outcome) \in Result \ {"panics"}
  BY <1>1 DEF Handle, At, recoverDashboardPanic, Result
<1>3. ASSUME NEW q \in Local, NEW a \in Where, NEW b \in Result
      PROVE  [q EXCEPT !.at = a, !.result = b] \in Local
  BY DEF Local
<1>4. /\ "handled" \in Where
      /\ recoverDashboardPanic(req[r].path, outcome) \in Result
  BY <1>1, <1>2, RequestsAssumption DEF Where, Types
<1>5. v \in Local
  BY <1>1, <1>3, <1>4, Zenon
<1>6. req' = [req EXCEPT ![r] = v]
  BY DEF Handle
<1> HIDE DEF v
<1>7. req' \in [Request -> Local] /\ Others(r) /\ req'[r] = v
  BY <1>5, <1>6, Taken
<1>8. now' = now
  BY DEF Handle
<1> QED  BY <1>1, <1>2, <1>7, <1>8 DEF v, Local, Moves

LEMMA PanicMoves ==
  ASSUME Types, Courses, NEW r \in Request, Panic(r)
  PROVE  /\ req[r].at = "handling"
         /\ Moves(r)
         /\ req'[r].at = "done" /\ req'[r].path = req[r].path
         /\ req'[r].result = "panics" /\ req'[r].start = 0
         /\ req'[r].duration = req[r].duration /\ req'[r].oldAvg = req[r].oldAvg
         /\ req'[r].totalReqs = req[r].totalReqs /\ req'[r].answer = 500
<1> DEFINE v == [req[r] EXCEPT !.at = "done",
              !.result = "panics",
              !.answer = 500,
              !.start = 0]
<1>1. req[r] \in Local
  BY DEF Types
<1>2. req[r].at = "handling"
  BY <1>1 DEF Panic, At
<1>3. ASSUME NEW q \in Local, NEW a \in Where, NEW b \in Result, NEW c \in Nat, NEW d \in Nat
      PROVE  [q EXCEPT !.at = a, !.result = b, !.answer = c, !.start = d] \in Local
  BY DEF Local
<1>4. /\ "done" \in Where
      /\ "panics" \in Result
      /\ 500 \in Nat
      /\ 0 \in Nat
  BY <1>1, <1>2, RequestsAssumption DEF Where, Types, Result
<1>5. v \in Local
  <2>1. \A n \in Nat : [req[r] EXCEPT !.at = "done", !.result = "panics", !.answer = n, !.start = 0] \in Local
    BY <1>1, <1>3, <1>4
  <2> QED  BY <1>4, <2>1
<1>6. req' = [req EXCEPT ![r] = v]
  BY DEF Panic
<1> HIDE DEF v
<1>7. req' \in [Request -> Local] /\ Others(r) /\ req'[r] = v
  BY <1>5, <1>6, Taken
<1>8. now' = now
  BY DEF Panic
<1> QED  BY <1>1, <1>2, <1>7, <1>8 DEF v, Local, Moves

LEMMA FinishMoves ==
  ASSUME Types, Courses, NEW r \in Request, Finish(r)
  PROVE  /\ req[r].at = "handled"
         /\ now - req[r].start \in Nat
         /\ Moves(r)
         /\ req'[r].at = (IF r \in Counted THEN "finished" ELSE "leaving")
         /\ req'[r].path = req[r].path /\ req'[r].result = req[r].result
         /\ req'[r].start = 0 /\ req'[r].duration = now - req[r].start
         /\ req'[r].oldAvg = req[r].oldAvg /\ req'[r].totalReqs = req[r].totalReqs
         /\ req'[r].answer = req[r].answer
<1> DEFINE v == [req[r] EXCEPT !.duration = now - req[r].start,
              !.start = 0,
              !.at = IF r \in Counted THEN "finished" ELSE "leaving"]
<1>1. req[r] \in Local
  BY DEF Types
<1>2. req[r].at = "handled"
      /\ now - req[r].start \in Nat
  BY <1>1 DEF Finish, At, Types, Local, Courses, Course
<1>3. ASSUME NEW q \in Local, NEW a \in Nat, NEW b \in Nat, NEW c \in Where
      PROVE  [q EXCEPT !.duration = a, !.start = b, !.at = c] \in Local
  BY DEF Local
<1>4. /\ now - req[r].start \in Nat
      /\ 0 \in Nat
      /\ (IF r \in Counted THEN "finished" ELSE "leaving") \in Where
  BY <1>1, <1>2, RequestsAssumption DEF Where, Types
<1>5. v \in Local
  BY <1>1, <1>3, <1>4, Zenon
<1>6. req' = [req EXCEPT ![r] = v]
  BY DEF Finish
<1> HIDE DEF v
<1>7. req' \in [Request -> Local] /\ Others(r) /\ req'[r] = v
  BY <1>5, <1>6, Taken
<1>8. now' = now
  BY DEF Finish
<1> QED  BY <1>1, <1>2, <1>7, <1>8 DEF v, Local, Moves

LEMMA TrackMoves ==
  ASSUME Types, Courses, NEW r \in Request, TrackRequest(r)
  PROVE  /\ req[r].at = "finished"
         /\ Moves(r)
         /\ req'[r].at = "tracked" /\ req'[r].path = req[r].path
         /\ req'[r].result = req[r].result /\ req'[r].start = req[r].start
         /\ req'[r].duration = req[r].duration /\ req'[r].oldAvg = req[r].oldAvg
         /\ req'[r].totalReqs = req[r].totalReqs /\ req'[r].answer = req[r].answer
<1> DEFINE v == [req[r] EXCEPT !.at = "tracked"]
<1>1. req[r] \in Local
  BY DEF Types
<1>2. req[r].at = "finished"
  BY <1>1 DEF TrackRequest, At
<1>3. ASSUME NEW q \in Local, NEW a \in Where
      PROVE  [q EXCEPT !.at = a] \in Local
  BY DEF Local
<1>4. /\ "tracked" \in Where
  BY <1>1, <1>2, RequestsAssumption DEF Where, Types
<1>5. v \in Local
  BY <1>1, <1>3, <1>4, Zenon
<1>6. req' = [req EXCEPT ![r] = v]
  BY DEF TrackRequest
<1> HIDE DEF v
<1>7. req' \in [Request -> Local] /\ Others(r) /\ req'[r] = v
  BY <1>5, <1>6, Taken
<1>8. now' = now
  BY DEF TrackRequest
<1> QED  BY <1>1, <1>2, <1>7, <1>8 DEF v, Local, Moves

LEMMA LoadAverageMoves ==
  ASSUME Types, Courses, NEW r \in Request, LoadAverage(r)
  PROVE  /\ req[r].at = "tracked"
         /\ Moves(r)
         /\ req'[r].at = "averaging" /\ req'[r].path = req[r].path
         /\ req'[r].result = req[r].result /\ req'[r].start = req[r].start
         /\ req'[r].duration = req[r].duration /\ req'[r].oldAvg = stats.average
         /\ req'[r].totalReqs = req[r].totalReqs /\ req'[r].answer = req[r].answer
<1> DEFINE v == [req[r] EXCEPT !.at = "averaging", !.oldAvg = stats.average]
<1>1. req[r] \in Local
  BY DEF Types
<1>2. req[r].at = "tracked"
  BY <1>1 DEF LoadAverage, At
<1>3. ASSUME NEW q \in Local, NEW a \in Where, NEW b \in Nat
      PROVE  [q EXCEPT !.at = a, !.oldAvg = b] \in Local
  BY DEF Local
<1>4. /\ "averaging" \in Where
      /\ stats.average \in Nat
  BY <1>1, <1>2, RequestsAssumption DEF Where, Types
<1>5. v \in Local
  BY <1>1, <1>3, <1>4, Zenon
<1>6. req' = [req EXCEPT ![r] = v]
  BY DEF LoadAverage
<1> HIDE DEF v
<1>7. req' \in [Request -> Local] /\ Others(r) /\ req'[r] = v
  BY <1>5, <1>6, Taken
<1>8. now' = now
  BY DEF LoadAverage
<1> QED  BY <1>1, <1>2, <1>7, <1>8 DEF v, Local, Moves

LEMMA LoadTotalMoves ==
  ASSUME Types, Courses, NEW r \in Request, LoadTotal(r)
  PROVE  /\ req[r].at = "averaging"
         /\ Moves(r)
         /\ req'[r].at = "storing" /\ req'[r].path = req[r].path
         /\ req'[r].result = req[r].result /\ req'[r].start = req[r].start
         /\ req'[r].duration = req[r].duration /\ req'[r].oldAvg = req[r].oldAvg
         /\ req'[r].totalReqs = stats.total /\ req'[r].answer = req[r].answer
<1> DEFINE v == [req[r] EXCEPT !.at = "storing", !.totalReqs = stats.total]
<1>1. req[r] \in Local
  BY DEF Types
<1>2. req[r].at = "averaging"
  BY <1>1 DEF LoadTotal, At
<1>3. ASSUME NEW q \in Local, NEW a \in Where, NEW b \in Nat
      PROVE  [q EXCEPT !.at = a, !.totalReqs = b] \in Local
  BY DEF Local
<1>4. /\ "storing" \in Where
      /\ stats.total \in Nat
  BY <1>1, <1>2, RequestsAssumption DEF Where, Types
<1>5. v \in Local
  BY <1>1, <1>3, <1>4, Zenon
<1>6. req' = [req EXCEPT ![r] = v]
  BY DEF LoadTotal
<1> HIDE DEF v
<1>7. req' \in [Request -> Local] /\ Others(r) /\ req'[r] = v
  BY <1>5, <1>6, Taken
<1>8. now' = now
  BY DEF LoadTotal
<1> QED  BY <1>1, <1>2, <1>7, <1>8 DEF v, Local, Moves

LEMMA StoreMoves ==
  ASSUME Types, Courses, NEW r \in Request, StoreAverage(r)
  PROVE  /\ req[r].at = "storing"
         /\ Moves(r)
         /\ req'[r].at = "leaving" /\ req'[r].path = req[r].path
         /\ req'[r].result = req[r].result /\ req'[r].start = req[r].start
         /\ req'[r].duration = req[r].duration /\ req'[r].oldAvg = 0
         /\ req'[r].totalReqs = 0 /\ req'[r].answer = req[r].answer
<1> DEFINE v == [req[r] EXCEPT !.at = "leaving", !.oldAvg = 0, !.totalReqs = 0]
<1>1. req[r] \in Local
  BY DEF Types
<1>2. req[r].at = "storing"
  BY <1>1 DEF StoreAverage, At
<1>3. ASSUME NEW q \in Local, NEW a \in Where, NEW b \in Nat, NEW c \in Nat
      PROVE  [q EXCEPT !.at = a, !.oldAvg = b, !.totalReqs = c] \in Local
  BY DEF Local
<1>4. /\ "leaving" \in Where
      /\ 0 \in Nat
      /\ 0 \in Nat
  BY <1>1, <1>2, RequestsAssumption DEF Where, Types
<1>5. v \in Local
  BY <1>1, <1>3, <1>4, Zenon
<1>6. req' = [req EXCEPT ![r] = v]
  BY DEF StoreAverage
<1> HIDE DEF v
<1>7. req' \in [Request -> Local] /\ Others(r) /\ req'[r] = v
  BY <1>5, <1>6, Taken
<1>8. now' = now
  BY DEF StoreAverage
<1> QED  BY <1>1, <1>2, <1>7, <1>8 DEF v, Local, Moves

LEMMA AnswerMoves ==
  ASSUME Types, Courses, NEW r \in Request, Answer(r)
  PROVE  /\ req[r].at = "leaving"
         /\ Moves(r)
         /\ req'[r].at = "done" /\ req'[r].path = req[r].path
         /\ req'[r].result = req[r].result /\ req'[r].start = req[r].start
         /\ req'[r].duration = req[r].duration /\ req'[r].oldAvg = req[r].oldAvg
         /\ req'[r].totalReqs = req[r].totalReqs
         /\ req'[r].answer = statusCode(req[r].result)
<1> DEFINE v == [req[r] EXCEPT !.at = "done",
              !.answer = statusCode(req[r].result)]
<1>1. req[r] \in Local
  BY DEF Types
<1>2. req[r].at = "leaving"
  BY <1>1 DEF Answer, At
<1>3. ASSUME NEW q \in Local, NEW a \in Where, NEW b \in Nat
      PROVE  [q EXCEPT !.at = a, !.answer = b] \in Local
  BY DEF Local
<1>4. /\ "done" \in Where
      /\ statusCode(req[r].result) \in Nat
  BY <1>1, <1>2, RequestsAssumption DEF Where, Types, statusCode, responseStatus, Status
<1>5. v \in Local
  <2>1. \A n \in Nat : [req[r] EXCEPT !.at = "done", !.answer = n] \in Local
    BY <1>1, <1>3, <1>4
  <2> QED  BY <1>4, <2>1
<1>6. req' = [req EXCEPT ![r] = v]
  BY DEF Answer
<1> HIDE DEF v
<1>7. req' \in [Request -> Local] /\ Others(r) /\ req'[r] = v
  BY <1>5, <1>6, Taken
<1>8. now' = now
  BY DEF Answer
<1> QED  BY <1>1, <1>2, <1>7, <1>8 DEF v, Local, Moves
-----------------------------------------------------------------------------
(* Types and courses.                                                      *)

LEMMA TypesInit == Init => Types /\ Courses
<1> SUFFICES ASSUME Init PROVE Types /\ Courses
  OBVIOUS
<1>1. req \in [Request -> Local] /\ Courses
  BY RequestsAssumption DEF Init, Local, Where, Courses, Course, Returned, Path, Result
<1>2. ring.buffer \in [0..RingSize - 1 -> Request \cup {None}]
  BY DEF Init
<1>3. ring \in [buffer : [0..RingSize - 1 -> Request \cup {None}],
                head : 0..RingSize - 1, count : 0..RingSize]
  BY <1>2, RequestsAssumption DEF Init
<1> QED  BY <1>1, <1>3, RequestsAssumption DEF Init, Types

LEMMA AddTypes ==
  ASSUME Types, NEW r \in Request
  PROVE  Add(ring, r) \in [buffer : [0..RingSize - 1 -> Request \cup {None}],
                           head : 0..RingSize - 1, count : 0..RingSize]
<1>1. /\ RingSize \in Nat \ {0} /\ ring.head \in 0..RingSize - 1
      /\ ring.count \in 0..RingSize
      /\ ring.buffer \in [0..RingSize - 1 -> Request \cup {None}]
  BY RequestsAssumption DEF Types
<1>2. (ring.head + 1) % RingSize \in 0..RingSize - 1
  BY <1>1
<1>3. [ring.buffer EXCEPT ![ring.head] = r] \in [0..RingSize - 1 -> Request \cup {None}]
  BY <1>1
<1>4. (IF ring.count < RingSize THEN ring.count + 1 ELSE ring.count) \in 0..RingSize
  BY <1>1
<1> QED  BY <1>2, <1>3, <1>4 DEF Add

\* A quotient of naturals is a natural, and no more than what the divisor times
\* over reaches.
LEMMA Quotient ==
  ASSUME NEW a \in Nat, NEW n \in Nat \ {0}
  PROVE  /\ a \div n \in Nat /\ a % n \in 0..n - 1 /\ a = n * (a \div n) + (a % n)
         /\ \A m \in Nat : a <= n * m => a \div n <= m
OBVIOUS

LEMMA AverageTypes ==
  ASSUME NEW q \in Local
  PROVE  newAvg(q) \in Nat
<1>1. q.oldAvg \in Nat /\ q.totalReqs \in Nat /\ q.duration \in Nat
  BY DEF Local
<1>2. ASSUME q.totalReqs > 1 PROVE q.oldAvg * (q.totalReqs - 1) + q.duration \in Nat
  BY <1>1, <1>2
<1> QED  BY <1>1, <1>2, Quotient DEF newAvg

\* What a step does to ServerStats.
StatsType == [active : Int, total : Nat, errors : Nat, average : Nat]

LEMMA StatsMove ==
  ASSUME NEW s \in StatsType, NEW a \in Int, NEW n \in Nat
  PROVE  /\ [s EXCEPT !.active = a, !.total = n] \in StatsType
         /\ [s EXCEPT !.active = a] \in StatsType
         /\ [s EXCEPT !.errors = n] \in StatsType
         /\ [s EXCEPT !.average = n] \in StatsType
BY DEF StatsType

LEMMA StepTypes ==
  ASSUME Types, Courses, NEW r \in Request
  PROVE  \/ \E path \in Path : Arrive(r, path)
         \/ \E outcome \in Result : Handle(r, outcome)
         \/ Panic(r) \/ Finish(r) \/ TrackRequest(r)
         \/ LoadAverage(r) \/ LoadTotal(r) \/ StoreAverage(r) \/ Answer(r)
         => Types'
<1>0. /\ req[r] \in Local /\ stats \in StatsType /\ stats.active \in Int
      /\ stats.total \in Nat /\ stats.errors \in Nat
      /\ history \in [tracked : Seq(Request), serial : BOOLEAN]
      /\ trail \subseteq Request \X {"denied", "failed", "allowed"} /\ views \subseteq Request
  BY DEF Types, StatsType
<1>10. ASSUME Moves(r), stats' \in StatsType, UNCHANGED <<totals, ring>>,
              trail' \subseteq Request \X {"denied", "failed", "allowed"}, views' \subseteq Request,
              history' \in [tracked : Seq(Request), serial : BOOLEAN]
       PROVE  Types'
  BY <1>10 DEF Moves, Types, StatsType
<1>1. ASSUME NEW path \in Path, Arrive(r, path) PROVE Types'
  <2> DEFINE total == IF shouldExcludeFromStats(path) THEN stats.total ELSE stats.total + 1
             alone == history.serial /\ (shouldExcludeFromStats(path) \/ InFlight \cap Counted = {})
  <2>1. stats.active + 1 \in Int /\ total \in Nat /\ alone \in BOOLEAN
    BY <1>0
  <2>2. stats' = [stats EXCEPT !.active = stats.active + 1, !.total = total]
    BY <1>1 DEF Arrive
  <2>3. history' = [history EXCEPT !.serial = alone]
    BY <1>1 DEF Arrive
  <2>4. UNCHANGED <<totals, ring, trail, views>>
    BY <1>1 DEF Arrive
  <2> HIDE DEF total, alone
  <2>5. stats' \in StatsType
    BY <1>0, <2>1, <2>2, StatsMove
  <2> QED  BY <1>0, <1>1, <1>10, <2>1, <2>3, <2>4, <2>5, ArriveMoves
<1>2. ASSUME NEW outcome \in Result, Handle(r, outcome) PROVE Types'
  <2>1. UNCHANGED <<stats, totals, ring, history>>
    BY <1>2 DEF Handle
  <2>2. views' \subseteq Request
    BY <1>0, <1>2 DEF Handle
  <2>3. trail' \subseteq Request \X {"denied", "failed", "allowed"}
    BY <1>0, <1>2 DEF Handle, outcomeOf
  <2> QED  BY <1>0, <1>2, <1>10, <2>1, <2>2, <2>3, HandleMoves
<1>3. ASSUME Panic(r) PROVE Types'
  <2>1. UNCHANGED <<stats, totals, ring, trail, views>>
    BY <1>3 DEF Panic
  <2>2. history' = [history EXCEPT !.serial = FALSE]
    BY <1>3 DEF Panic
  <2>3. history' \in [tracked : Seq(Request), serial : BOOLEAN]
    BY <1>0, <2>2
  <2> QED  BY <1>0, <1>3, <1>10, <2>1, <2>3, PanicMoves
<1>4. ASSUME Finish(r) PROVE Types'
  <2>1. /\ stats' = [stats EXCEPT !.active = stats.active - 1]
        /\ UNCHANGED <<totals, ring, trail, views, history>>
    BY <1>4 DEF Finish
  <2>2. stats.active - 1 \in Int
    BY <1>0
  <2>3. stats' \in StatsType
    BY <1>0, <2>1, <2>2, StatsMove
  <2> QED  BY <1>0, <1>4, <1>10, <2>1, <2>3, FinishMoves
<1>5. ASSUME TrackRequest(r) PROVE Types'
  <2>1. /\ totals' = ByStatus(totals, responseStatus(req[r].result))
        /\ ring' = Add(ring, r)
        /\ history' = [history EXCEPT !.tracked = Append(@, r)]
        /\ UNCHANGED <<stats, trail, views>>
    BY <1>5 DEF TrackRequest
  <2>2. totals' \in [requests : Nat, client : Nat, server : Nat]
    <3>1. totals.requests \in Nat /\ totals.server \in Nat /\ totals.client \in Nat
      BY DEF Types
    <3>2. ASSUME NEW status PROVE ByStatus(totals, status) \in [requests : Nat, client : Nat, server : Nat]
      <4>1. totals.requests + 1 \in Nat
        BY <3>1
      <4>2. totals.server + (IF status >= 500 THEN 1 ELSE 0) \in Nat
        BY <3>1
      <4>3. totals.client + (IF status \in 400..499 THEN 1 ELSE 0) \in Nat
        BY <3>1
      <4> QED  BY <4>1, <4>2, <4>3 DEF ByStatus
    <3> QED  BY <2>1, <3>2
  <2>3. history' \in [tracked : Seq(Request), serial : BOOLEAN]
    <3>1. Append(history.tracked, r) \in Seq(Request)
      BY <1>0
    <3> QED  BY <1>0, <2>1, <3>1
  <2>4. ring' \in [buffer : [0..RingSize - 1 -> Request \cup {None}],
                   head : 0..RingSize - 1, count : 0..RingSize]
    BY <2>1, AddTypes
  <2>5. Moves(r)
    BY <1>5, TrackMoves
  <2> QED  BY <2>1, <2>2, <2>3, <2>4, <2>5 DEF Types, Moves
<1>6. ASSUME LoadAverage(r) PROVE Types'
  <2>1. UNCHANGED <<stats, totals, ring, trail, views, history>>
    BY <1>6 DEF LoadAverage
  <2> QED  BY <1>0, <1>6, <1>10, <2>1, LoadAverageMoves
<1>7. ASSUME LoadTotal(r) PROVE Types'
  <2>1. UNCHANGED <<stats, totals, ring, trail, views, history>>
    BY <1>7 DEF LoadTotal
  <2> QED  BY <1>0, <1>7, <1>10, <2>1, LoadTotalMoves
<1>8. ASSUME StoreAverage(r) PROVE Types'
  <2>1. /\ stats' = [stats EXCEPT !.average = newAvg(req[r])]
        /\ UNCHANGED <<totals, ring, trail, views, history>>
    BY <1>8 DEF StoreAverage
  <2>2. stats' \in StatsType
    BY <1>0, <2>1, AverageTypes, StatsMove
  <2> QED  BY <1>0, <1>8, <1>10, <2>1, <2>2, StoreMoves
<1>9. ASSUME Answer(r) PROVE Types'
  <2> DEFINE errors == IF Returned(req[r].result) /\ r \in Counted
                       THEN stats.errors + 1 ELSE stats.errors
  <2>0. errors \in Nat
    BY <1>0
  <2>1. stats' = [stats EXCEPT !.errors = errors]
    BY <1>9 DEF Answer
  <2> HIDE DEF errors
  <2>2. UNCHANGED <<totals, ring, trail, views, history>>
    BY <1>9 DEF Answer
  <2>3. stats' \in StatsType
    BY <1>0, <2>0, <2>1, StatsMove
  <2> QED  BY <1>0, <1>9, <1>10, <2>2, <2>3, AnswerMoves
<1> QED BY <1>1, <1>2, <1>3, <1>4, <1>5, <1>6, <1>7, <1>8, <1>9

LEMMA CoursesStep ==
  ASSUME Types, Courses, NEW r \in Request
  PROVE  \/ \E path \in Path : Arrive(r, path)
         \/ \E outcome \in Result : Handle(r, outcome)
         \/ Panic(r) \/ Finish(r) \/ TrackRequest(r)
         \/ LoadAverage(r) \/ LoadTotal(r) \/ StoreAverage(r) \/ Answer(r)
         => Courses'
<1>0. /\ Course(r) /\ now \in Nat /\ None \notin Result /\ None # "panics"
      /\ ~Returned("panics")
  BY RequestsAssumption DEF Types, Courses, Result, Returned
<1>10. ASSUME Others(r), now' = now, Course(r)' PROVE Courses'
  BY <1>10 DEF Others, Courses, Course
<1>1. ASSUME NEW path \in Path, Arrive(r, path) PROVE Courses'
  <2>1. Course(r)'
    <3>1. req'[r].start <= now'
      <4>1. req'[r].start = now /\ now' = now
        BY <1>1, ArriveMoves DEF Moves
      <4> QED  BY <1>0, <4>1
    <3> QED  BY <1>0, <1>1, <3>1, ArriveMoves DEF Course, Moves
  <2> QED  BY <1>1, <1>10, <2>1, ArriveMoves DEF Moves
<1>2. ASSUME NEW outcome \in Result, Handle(r, outcome) PROVE Courses'
  <2>1. Course(r)'
    BY <1>0, <1>2, HandleMoves DEF Moves, Course
  <2> QED  BY <1>2, <1>10, <2>1, HandleMoves DEF Moves
<1>3. ASSUME Panic(r) PROVE Courses'
  <2>1. Course(r)'
    BY <1>0, <1>3, PanicMoves DEF Moves, Course
  <2> QED  BY <1>3, <1>10, <2>1, PanicMoves DEF Moves
<1>4. ASSUME Finish(r) PROVE Courses'
  <2>1. Course(r)'
    BY <1>0, <1>4, FinishMoves DEF Moves, Course, Counted, At, shouldExcludeFromStats
  <2> QED  BY <1>4, <1>10, <2>1, FinishMoves DEF Moves
<1>5. ASSUME TrackRequest(r) PROVE Courses'
  <2>1. Course(r)'
    BY <1>0, <1>5, TrackMoves DEF Moves, Course
  <2> QED  BY <1>5, <1>10, <2>1, TrackMoves DEF Moves
<1>6. ASSUME LoadAverage(r) PROVE Courses'
  <2>1. Course(r)'
    BY <1>0, <1>6, LoadAverageMoves DEF Moves, Course
  <2> QED  BY <1>6, <1>10, <2>1, LoadAverageMoves DEF Moves
<1>7. ASSUME LoadTotal(r) PROVE Courses'
  <2>1. Course(r)'
    BY <1>0, <1>7, LoadTotalMoves DEF Moves, Course
  <2> QED  BY <1>7, <1>10, <2>1, LoadTotalMoves DEF Moves
<1>8. ASSUME StoreAverage(r) PROVE Courses'
  <2>1. Course(r)'
    BY <1>0, <1>8, StoreMoves DEF Moves, Course
  <2> QED  BY <1>8, <1>10, <2>1, StoreMoves DEF Moves
<1>9. ASSUME Answer(r) PROVE Courses'
  <2>1. Course(r)'
    BY <1>0, <1>9, AnswerMoves DEF Moves, Course
  <2> QED  BY <1>9, <1>10, <2>1, AnswerMoves DEF Moves
<1> QED  BY <1>1, <1>2, <1>3, <1>4, <1>5, <1>6, <1>7, <1>8, <1>9
-----------------------------------------------------------------------------
(* The inductive invariants.                                               *)

Busy == {r \in Request : At(r, "handling") \/ At(r, "handled")}
After == {"tracked", "averaging", "storing", "leaving", "done"}
Tracked == {r \in Counted : req[r].at \in After /\ req[r].result # "panics"}
Failed == {r \in Tracked : req[r].result = "failed"}
Blamed == {r \in Tracked : req[r].result \in {"missing", "forbidden"}}
Erred == {r \in Counted : At(r, "done") /\ Returned(req[r].result)}

\* Every counter is the size of a set of requests.
Books ==
  /\ stats.active = Cardinality(Busy) + Cardinality(Panicked)
  /\ stats.total = Cardinality(Counted)
  /\ totals.requests = Cardinality(Tracked)
  /\ Len(history.tracked) = totals.requests
  /\ totals.server = Cardinality(Failed)
  /\ totals.client = Cardinality(Blamed)
  /\ stats.errors = Cardinality(Erred)

\* The place of the buffer that is j steps behind its head.
Slot(head, j) == IF j <= head THEN head - j ELSE RingSize + head - j

\* Read backwards from its head the buffer is the list read from its end.
Recent ==
  LET n == Len(history.tracked) IN
  /\ ring.count = IF n < RingSize THEN n ELSE RingSize
  /\ \A j \in 1..ring.count :
       ring.buffer[Slot(ring.head, j)] = history.tracked[n - j + 1]

\* Somebody's request took as long as t.
Reached(t) == t > 0 => \E r \in Request : t <= req[r].duration

Bounded == Reached(stats.average) /\ \A r \in Request : Reached(req[r].oldAvg)

\* What t, the sum of n durations, says of an average of them that was rounded down
\* n times.
Mean(a, t, n) == t - n * a \in 0..((n * (n - 1)) \div 2)

Averaging(r) == req[r].at \in {"tracked", "averaging", "storing"}

\* While requests come one after another only the one under way is missing in the
\* average, and it holds the values of the counters that it has loaded.
Serial ==
  LET list == history.tracked  n == Len(list) IN
  history.serial =>
    /\ Panicked = {}
    /\ \A p, q \in InFlight \cap Counted : p = q
    /\ (\A r \in Request : ~Averaging(r)) => Mean(stats.average, Sum(list), n)
    /\ \A r \in Request : Averaging(r) =>
         /\ n > 0 /\ list[n] = r
         /\ Mean(stats.average, Sum(list) - req[r].duration, n - 1)
         /\ req[r].at \in {"averaging", "storing"} => req[r].oldAvg = stats.average
         /\ At(r, "storing") => req[r].totalReqs = n

\* The list holds requests that were tracked.
Listed == \A i \in DOMAIN history.tracked : history.tracked[i] \in Tracked
-----------------------------------------------------------------------------
(* The counters.                                                           *)

One(r, S) == IF r \in S THEN 1 ELSE 0

\* Two sets that differ in r at most.
LEMMA SizeMoves ==
  ASSUME NEW S \in SUBSET Request, NEW T \in SUBSET Request, NEW r \in Request,
         S \ {r} = T \ {r}
  PROVE  /\ Cardinality(S) \in Nat /\ Cardinality(T) \in Nat
         /\ Cardinality(T) + One(r, S) = Cardinality(S) + One(r, T)
<1>1. IsFiniteSet(S) /\ IsFiniteSet(T)
  BY RequestsAssumption, FS_Subset
<1>2. Cardinality(S) \in Nat /\ Cardinality(T) \in Nat
  BY <1>1, FS_CardinalityType
<1>3. Cardinality(S \ {r}) = IF r \in S THEN Cardinality(S) - 1 ELSE Cardinality(S)
  BY <1>1, FS_RemoveElement
<1>4. Cardinality(T \ {r}) = IF r \in T THEN Cardinality(T) - 1 ELSE Cardinality(T)
  BY <1>1, FS_RemoveElement
<1>5. Cardinality(S \ {r}) = Cardinality(T \ {r})
  OBVIOUS
<1>6. Cardinality(S) - One(r, S) = Cardinality(T) - One(r, T)
  BY <1>2, <1>3, <1>4, <1>5 DEF One
<1>7. One(r, S) \in Nat /\ One(r, T) \in Nat
  BY DEF One
<1> QED  BY <1>2, <1>6, <1>7

LEMMA Sizes ==
  ASSUME NEW r \in Request, Others(r)
  PROVE  /\ Cardinality(Busy) \in Nat /\ Cardinality(Busy') \in Nat
         /\ Cardinality(Busy') + One(r, Busy) = Cardinality(Busy) + One(r, Busy')
         /\ Cardinality(Panicked) \in Nat /\ Cardinality(Panicked') \in Nat
         /\ Cardinality(Panicked') + One(r, Panicked)
              = Cardinality(Panicked) + One(r, Panicked')
         /\ Cardinality(Counted) \in Nat /\ Cardinality(Counted') \in Nat
         /\ Cardinality(Counted') + One(r, Counted)
              = Cardinality(Counted) + One(r, Counted')
         /\ Cardinality(Tracked) \in Nat /\ Cardinality(Tracked') \in Nat
         /\ Cardinality(Tracked') + One(r, Tracked)
              = Cardinality(Tracked) + One(r, Tracked')
         /\ Cardinality(Failed) \in Nat /\ Cardinality(Failed') \in Nat
         /\ Cardinality(Failed') + One(r, Failed)
              = Cardinality(Failed) + One(r, Failed')
         /\ Cardinality(Blamed) \in Nat /\ Cardinality(Blamed') \in Nat
         /\ Cardinality(Blamed') + One(r, Blamed)
              = Cardinality(Blamed) + One(r, Blamed')
         /\ Cardinality(Erred) \in Nat /\ Cardinality(Erred') \in Nat
         /\ Cardinality(Erred') + One(r, Erred)
              = Cardinality(Erred) + One(r, Erred')
<1>1. /\ Busy \subseteq Request /\ Busy' \subseteq Request /\ Busy \ {r} = Busy' \ {r}
      /\ Panicked \subseteq Request /\ Panicked' \subseteq Request
      /\ Panicked \ {r} = Panicked' \ {r}
  BY DEF Others, Busy, Panicked, At
<1>2. /\ Counted \subseteq Request /\ Counted' \subseteq Request
      /\ Counted \ {r} = Counted' \ {r}
  BY DEF Others, Counted, At
<1>3. /\ Tracked \subseteq Request /\ Tracked' \subseteq Request
      /\ Tracked \ {r} = Tracked' \ {r}
  BY <1>2 DEF Others, Tracked
<1>4. /\ Failed \subseteq Request /\ Failed' \subseteq Request
      /\ Failed \ {r} = Failed' \ {r}
  BY <1>3 DEF Others, Failed
<1>5. /\ Erred \subseteq Request /\ Erred' \subseteq Request
      /\ Erred \ {r} = Erred' \ {r}
  BY <1>2 DEF Others, Erred, At
<1>6. /\ Blamed \subseteq Request /\ Blamed' \subseteq Request
      /\ Blamed \ {r} = Blamed' \ {r}
  BY <1>3 DEF Others, Blamed
<1> HIDE DEF Busy, Panicked, Counted, Tracked, Failed, Blamed, Erred
<1> QED  BY <1>1, <1>2, <1>3, <1>4, <1>5, <1>6, SizeMoves

LEMMA BooksInit == Init => Books
<1> SUFFICES ASSUME Init PROVE Books
  OBVIOUS
<1>1. \A r \in Request : req[r].at = "idle" /\ req[r].result = None
  BY DEF Init
<1>2. None # "panics"
  BY RequestsAssumption DEF Result
<1>3. Busy = {} /\ Panicked = {} /\ Counted = {}
  BY <1>1, <1>2 DEF Busy, Panicked, Counted, At
<1>4. Tracked = {} /\ Failed = {} /\ Blamed = {} /\ Erred = {}
  BY <1>3 DEF Tracked, Failed, Blamed, Erred
<1>5. Cardinality({}) = 0
  BY FS_EmptySet
<1> QED  BY <1>3, <1>4, <1>5 DEF Books, Init

\* How a step that leaves the statistics alone keeps the books.
LEMMA BooksKept ==
  ASSUME Types, Books, NEW r \in Request, Others(r),
         r \in Busy' <=> r \in Busy, r \in Panicked' <=> r \in Panicked,
         r \in Counted' <=> r \in Counted, r \in Tracked' <=> r \in Tracked,
         r \in Failed' <=> r \in Failed, r \in Blamed' <=> r \in Blamed,
         r \in Erred' <=> r \in Erred,
         stats'.active = stats.active, stats'.total = stats.total,
         stats'.errors = stats.errors, totals' = totals,
         history'.tracked = history.tracked
  PROVE  Books'
<1>1. /\ One(r, Busy') = One(r, Busy) /\ One(r, Panicked') = One(r, Panicked)
      /\ One(r, Counted') = One(r, Counted) /\ One(r, Tracked') = One(r, Tracked)
      /\ One(r, Failed') = One(r, Failed) /\ One(r, Erred') = One(r, Erred)
      /\ One(r, Blamed') = One(r, Blamed) /\ One(r, Blamed) \in Nat
      /\ One(r, Busy) \in Nat /\ One(r, Panicked) \in Nat /\ One(r, Counted) \in Nat
      /\ One(r, Tracked) \in Nat /\ One(r, Failed) \in Nat /\ One(r, Erred) \in Nat
  BY DEF One
<1>2. /\ Cardinality(Busy') = Cardinality(Busy)
      /\ Cardinality(Panicked') = Cardinality(Panicked)
      /\ Cardinality(Counted') = Cardinality(Counted)
      /\ Cardinality(Tracked') = Cardinality(Tracked)
      /\ Cardinality(Failed') = Cardinality(Failed)
      /\ Cardinality(Blamed') = Cardinality(Blamed)
      /\ Cardinality(Erred') = Cardinality(Erred)
  BY <1>1, Sizes
<1> QED  BY <1>2 DEF Books

\* The sets r belongs to, told from where it is.
LEMMA Belongs ==
  ASSUME NEW r \in Request
  PROVE  /\ r \in Busy <=> req[r].at \in {"handling", "handled"}
         /\ r \in Panicked <=> req[r].result = "panics"
         /\ r \in Counted <=> req[r].at # "idle" /\ req[r].path # "excluded"
         /\ r \in Tracked <=> /\ req[r].path # "excluded" /\ req[r].at \in After
                              /\ req[r].result # "panics"
         /\ r \in Failed <=> /\ req[r].path # "excluded" /\ req[r].at \in After
                             /\ req[r].result = "failed"
         /\ r \in Blamed <=> /\ req[r].path # "excluded" /\ req[r].at \in After
                             /\ req[r].result \in {"missing", "forbidden"}
         /\ r \in Erred <=> /\ req[r].path # "excluded" /\ req[r].at = "done"
                            /\ Returned(req[r].result)
BY DEF Busy, Panicked, Counted, Tracked, Failed, Blamed, Erred, At, After,
       shouldExcludeFromStats

LEMMA BelongsNext ==
  ASSUME NEW r \in Request
  PROVE  /\ r \in Busy' <=> req'[r].at \in {"handling", "handled"}
         /\ r \in Panicked' <=> req'[r].result = "panics"
         /\ r \in Counted' <=> req'[r].at # "idle" /\ req'[r].path # "excluded"
         /\ r \in Tracked' <=> /\ req'[r].path # "excluded" /\ req'[r].at \in After
                               /\ req'[r].result # "panics"
         /\ r \in Failed' <=> /\ req'[r].path # "excluded" /\ req'[r].at \in After
                              /\ req'[r].result = "failed"
         /\ r \in Blamed' <=> /\ req'[r].path # "excluded" /\ req'[r].at \in After
                              /\ req'[r].result \in {"missing", "forbidden"}
         /\ r \in Erred' <=> /\ req'[r].path # "excluded" /\ req'[r].at = "done"
                             /\ Returned(req'[r].result)
BY DEF Busy, Panicked, Counted, Tracked, Failed, Blamed, Erred, At, After,
       shouldExcludeFromStats

LEMMA BooksStep ==
  ASSUME Types, Courses, Books, NEW r \in Request
  PROVE  \/ \E path \in Path : Arrive(r, path)
         \/ \E outcome \in Result : Handle(r, outcome)
         \/ Panic(r) \/ Finish(r) \/ TrackRequest(r)
         \/ LoadAverage(r) \/ LoadTotal(r) \/ StoreAverage(r) \/ Answer(r)
         => Books'
<1>0. /\ stats \in StatsType /\ stats.active \in Int /\ stats.total \in Nat
      /\ stats.errors \in Nat /\ totals.requests \in Nat /\ totals.server \in Nat
      /\ totals.client \in Nat
      /\ history \in [tracked : Seq(Request), serial : BOOLEAN]
      /\ Course(r) /\ None # "panics" /\ None # "failed" /\ ~Returned(None)
      /\ None \notin {"missing", "forbidden"}
  BY RequestsAssumption DEF Types, StatsType, Courses, Result, Returned
<1>1. ASSUME NEW path \in Path, Arrive(r, path) PROVE Books'
  <2>1. /\ Others(r) /\ req[r].at = "idle" /\ req'[r].at = "handling"
        /\ req'[r].path = path /\ req'[r].result = None /\ req[r].result = None
    BY <1>0, <1>1, ArriveMoves DEF Moves, Course
  <2>2. /\ One(r, Busy) = 0 /\ One(r, Busy') = 1
        /\ One(r, Panicked) = 0 /\ One(r, Panicked') = 0
        /\ One(r, Counted) = 0 /\ One(r, Counted') = IF path = "excluded" THEN 0 ELSE 1
        /\ One(r, Tracked) = 0 /\ One(r, Tracked') = 0
        /\ One(r, Failed) = 0 /\ One(r, Failed') = 0
        /\ One(r, Blamed) = 0 /\ One(r, Blamed') = 0
        /\ One(r, Erred) = 0 /\ One(r, Erred') = 0
    BY <1>0, <2>1, Belongs, BelongsNext DEF One, After
  <2>3. /\ stats'.active = stats.active + 1
        /\ stats'.total = IF path = "excluded" THEN stats.total ELSE stats.total + 1
        /\ stats'.errors = stats.errors /\ totals' = totals
        /\ history'.tracked = history.tracked
    BY <1>0, <1>1 DEF Arrive, StatsType, shouldExcludeFromStats
  <2>4. /\ Cardinality(Busy') = Cardinality(Busy) + 1
        /\ Cardinality(Panicked') = Cardinality(Panicked)
        /\ Cardinality(Counted') =
             IF path = "excluded" THEN Cardinality(Counted) ELSE Cardinality(Counted) + 1
        /\ Cardinality(Busy) \in Nat /\ Cardinality(Panicked) \in Nat
    BY <2>1, <2>2, Sizes
  <2>5. /\ Cardinality(Tracked') = Cardinality(Tracked)
        /\ Cardinality(Failed') = Cardinality(Failed)
        /\ Cardinality(Blamed') = Cardinality(Blamed)
        /\ Cardinality(Erred') = Cardinality(Erred)
    BY <2>1, <2>2, Sizes
  <2> QED  BY <1>0, <2>3, <2>4, <2>5 DEF Books
<1>2. ASSUME NEW outcome \in Result, Handle(r, outcome) PROVE Books'
  <2>1. /\ Others(r) /\ req[r].at = "handling" /\ req'[r].at = "handled"
        /\ req'[r].path = req[r].path /\ req'[r].result # "panics" /\ req[r].result = None
    BY <1>0, <1>2, HandleMoves DEF Moves, Course
  <2>2. stats' = stats /\ totals' = totals /\ history' = history
    BY <1>2 DEF Handle
  <2> QED  BY <1>0, <2>1, <2>2, Belongs, BelongsNext, BooksKept DEF After
<1>3. ASSUME Panic(r) PROVE Books'
  <2>1. /\ Others(r) /\ req[r].at = "handling" /\ req'[r].at = "done"
        /\ req'[r].path = req[r].path /\ req'[r].result = "panics" /\ req[r].result = None
    BY <1>0, <1>3, PanicMoves DEF Moves, Course
  <2>2. /\ One(r, Busy) = 1 /\ One(r, Busy') = 0
        /\ One(r, Panicked) = 0 /\ One(r, Panicked') = 1
        /\ One(r, Counted) = One(r, Counted')
        /\ One(r, Tracked) = 0 /\ One(r, Tracked') = 0
        /\ One(r, Failed) = 0 /\ One(r, Failed') = 0
        /\ One(r, Blamed) = 0 /\ One(r, Blamed') = 0
        /\ One(r, Erred) = 0 /\ One(r, Erred') = 0
        /\ One(r, Counted) \in Nat
    BY <1>0, <2>1, Belongs, BelongsNext DEF One, After, Returned
  <2>3. stats' = stats /\ totals' = totals /\ history'.tracked = history.tracked
    BY <1>0, <1>3 DEF Panic
  <2>4. /\ Cardinality(Busy') + 1 = Cardinality(Busy)
        /\ Cardinality(Panicked') = Cardinality(Panicked) + 1
        /\ Cardinality(Busy') \in Nat /\ Cardinality(Panicked) \in Nat
    BY <2>1, <2>2, Sizes
  <2>5. /\ Cardinality(Counted') = Cardinality(Counted)
        /\ Cardinality(Tracked') = Cardinality(Tracked)
        /\ Cardinality(Failed') = Cardinality(Failed)
        /\ Cardinality(Blamed') = Cardinality(Blamed)
        /\ Cardinality(Erred') = Cardinality(Erred)
    BY <2>1, <2>2, Sizes
  <2> QED  BY <2>3, <2>4, <2>5 DEF Books
<1>4. ASSUME Finish(r) PROVE Books'
  <2>1. /\ Others(r) /\ req[r].at = "handled"
        /\ req'[r].at = IF r \in Counted THEN "finished" ELSE "leaving"
        /\ req'[r].path = req[r].path /\ req'[r].result = req[r].result
        /\ req[r].result # "panics"
    BY <1>0, <1>4, FinishMoves DEF Moves, Course
  <2>2. /\ One(r, Busy) = 1 /\ One(r, Busy') = 0
        /\ One(r, Panicked) = 0 /\ One(r, Panicked') = 0
        /\ One(r, Counted) = One(r, Counted')
        /\ One(r, Tracked) = 0 /\ One(r, Tracked') = 0
        /\ One(r, Failed) = 0 /\ One(r, Failed') = 0
        /\ One(r, Blamed) = 0 /\ One(r, Blamed') = 0
        /\ One(r, Erred) = 0 /\ One(r, Erred') = 0
        /\ One(r, Counted) \in Nat
    BY <1>0, <2>1, Belongs, BelongsNext DEF One, After
  <2>3. /\ stats'.active = stats.active - 1 /\ stats'.total = stats.total
        /\ stats'.errors = stats.errors
        /\ totals' = totals /\ history' = history
    BY <1>0, <1>4 DEF Finish, StatsType
  <2>4. /\ Cardinality(Busy') + 1 = Cardinality(Busy)
        /\ Cardinality(Panicked') = Cardinality(Panicked)
        /\ Cardinality(Busy') \in Nat /\ Cardinality(Panicked) \in Nat
    BY <2>1, <2>2, Sizes
  <2>5. /\ Cardinality(Counted') = Cardinality(Counted)
        /\ Cardinality(Tracked') = Cardinality(Tracked)
        /\ Cardinality(Failed') = Cardinality(Failed)
        /\ Cardinality(Blamed') = Cardinality(Blamed)
        /\ Cardinality(Erred') = Cardinality(Erred)
    BY <2>1, <2>2, Sizes
  <2> QED  BY <1>0, <2>3, <2>4, <2>5 DEF Books
<1>5. ASSUME TrackRequest(r) PROVE Books'
  <2>1. /\ Others(r) /\ req[r].at = "finished" /\ req'[r].at = "tracked"
        /\ req'[r].path = req[r].path /\ req'[r].result = req[r].result
        /\ req[r].result # "panics" /\ req[r].path # "excluded"
    BY <1>0, <1>5, TrackMoves DEF Moves, Course
  <2>2. /\ One(r, Busy) = 0 /\ One(r, Busy') = 0
        /\ One(r, Panicked) = 0 /\ One(r, Panicked') = 0
        /\ One(r, Counted) = 1 /\ One(r, Counted') = 1
        /\ One(r, Tracked) = 0 /\ One(r, Tracked') = 1
        /\ One(r, Failed) = 0
        /\ One(r, Failed') = (IF req[r].result = "failed" THEN 1 ELSE 0)
        /\ One(r, Blamed) = 0
        /\ One(r, Blamed') = (IF req[r].result \in {"missing", "forbidden"} THEN 1 ELSE 0)
        /\ One(r, Erred) = 0 /\ One(r, Erred') = 0
    BY <1>0, <2>1, Belongs, BelongsNext DEF One, After
  <2>3. /\ responseStatus(req[r].result) >= 500 <=> req[r].result = "failed"
        /\ responseStatus(req[r].result) \in 400..499
             <=> req[r].result \in {"missing", "forbidden"}
    BY DEF responseStatus, Status
  <2>4. /\ totals'.requests = totals.requests + 1
        /\ totals'.server = totals.server + (IF req[r].result = "failed" THEN 1 ELSE 0)
        /\ totals'.client = totals.client
             + (IF req[r].result \in {"missing", "forbidden"} THEN 1 ELSE 0)
    BY <1>5, <2>3 DEF TrackRequest, ByStatus
  <2>5. stats' = stats /\ history'.tracked = Append(history.tracked, r)
    BY <1>0, <1>5 DEF TrackRequest
  <2>6. Len(history'.tracked) = Len(history.tracked) + 1
    BY <1>0, <2>5
  <2>7. /\ Cardinality(Busy') = Cardinality(Busy)
        /\ Cardinality(Panicked') = Cardinality(Panicked)
        /\ Cardinality(Counted') = Cardinality(Counted)
        /\ Cardinality(Erred') = Cardinality(Erred)
    BY <2>1, <2>2, Sizes
  <2>8. /\ Cardinality(Tracked') = Cardinality(Tracked) + 1
        /\ Cardinality(Failed') =
             Cardinality(Failed) + (IF req[r].result = "failed" THEN 1 ELSE 0)
        /\ Cardinality(Blamed') = Cardinality(Blamed)
             + (IF req[r].result \in {"missing", "forbidden"} THEN 1 ELSE 0)
    BY <2>1, <2>2, Sizes
  <2> QED  BY <1>0, <2>4, <2>5, <2>6, <2>7, <2>8 DEF Books
<1>6. ASSUME LoadAverage(r) PROVE Books'
  <2>1. /\ Others(r) /\ req[r].at = "tracked" /\ req'[r].at = "averaging"
        /\ req'[r].path = req[r].path /\ req'[r].result = req[r].result
    BY <1>6, LoadAverageMoves DEF Moves
  <2>2. stats' = stats /\ totals' = totals /\ history' = history
    BY <1>6 DEF LoadAverage
  <2> QED  BY <2>1, <2>2, Belongs, BelongsNext, BooksKept DEF After
<1>7. ASSUME LoadTotal(r) PROVE Books'
  <2>1. /\ Others(r) /\ req[r].at = "averaging" /\ req'[r].at = "storing"
        /\ req'[r].path = req[r].path /\ req'[r].result = req[r].result
    BY <1>7, LoadTotalMoves DEF Moves
  <2>2. stats' = stats /\ totals' = totals /\ history' = history
    BY <1>7 DEF LoadTotal
  <2> QED  BY <2>1, <2>2, Belongs, BelongsNext, BooksKept DEF After
<1>8. ASSUME StoreAverage(r) PROVE Books'
  <2>1. /\ Others(r) /\ req[r].at = "storing" /\ req'[r].at = "leaving"
        /\ req'[r].path = req[r].path /\ req'[r].result = req[r].result
    BY <1>8, StoreMoves DEF Moves
  <2>2. /\ stats'.active = stats.active /\ stats'.total = stats.total
        /\ stats'.errors = stats.errors /\ totals' = totals /\ history' = history
    BY <1>0, <1>8 DEF StoreAverage, StatsType
  <2> QED  BY <2>1, <2>2, Belongs, BelongsNext, BooksKept DEF After
<1>9. ASSUME Answer(r) PROVE Books'
  <2>1. /\ Others(r) /\ req[r].at = "leaving" /\ req'[r].at = "done"
        /\ req'[r].path = req[r].path /\ req'[r].result = req[r].result
    BY <1>9, AnswerMoves DEF Moves
  <2>2. /\ One(r, Busy) = One(r, Busy') /\ One(r, Panicked) = One(r, Panicked')
        /\ One(r, Counted) = One(r, Counted') /\ One(r, Tracked) = One(r, Tracked')
        /\ One(r, Failed) = One(r, Failed') /\ One(r, Busy) \in Nat
        /\ One(r, Blamed) = One(r, Blamed') /\ One(r, Blamed) \in Nat
        /\ One(r, Panicked) \in Nat /\ One(r, Counted) \in Nat
        /\ One(r, Tracked) \in Nat /\ One(r, Failed) \in Nat
    BY <2>1, Belongs, BelongsNext DEF One, After
  <2>3. /\ One(r, Erred) = 0
        /\ One(r, Erred') = IF Returned(req[r].result) /\ r \in Counted THEN 1 ELSE 0
    BY <2>1, Belongs, BelongsNext DEF One
  <2>4. /\ stats'.active = stats.active /\ stats'.total = stats.total
        /\ stats'.errors = IF Returned(req[r].result) /\ r \in Counted
                           THEN stats.errors + 1 ELSE stats.errors
        /\ totals' = totals /\ history' = history
    BY <1>0, <1>9 DEF Answer, StatsType
  <2>5. /\ Cardinality(Busy') = Cardinality(Busy)
        /\ Cardinality(Panicked') = Cardinality(Panicked)
        /\ Cardinality(Counted') = Cardinality(Counted)
        /\ Cardinality(Tracked') = Cardinality(Tracked)
        /\ Cardinality(Failed') = Cardinality(Failed)
        /\ Cardinality(Blamed') = Cardinality(Blamed)
    BY <2>1, <2>2, Sizes
  <2>6. Cardinality(Erred') = IF Returned(req[r].result) /\ r \in Counted
                              THEN Cardinality(Erred) + 1 ELSE Cardinality(Erred)
    BY <2>1, <2>3, Sizes
  <2> QED  BY <2>4, <2>5, <2>6 DEF Books
<1> QED BY <1>1, <1>2, <1>3, <1>4, <1>5, <1>6, <1>7, <1>8, <1>9
-----------------------------------------------------------------------------
(* The circular buffer.                                                    *)

LEMMA Wraps ==
  ASSUME NEW n \in Nat \ {0}, NEW h \in 0..n - 1
  PROVE  (h + 1) % n = IF h + 1 = n THEN 0 ELSE h + 1
<1>1. CASE h + 1 = n
  BY <1>1
<1>2. CASE h + 1 # n
  <2>1. h + 1 \in 0..n - 1
    BY <1>2
  <2> QED  BY <1>2, <2>1
<1> QED  BY <1>1, <1>2

\* Reading forward by the division and backwards without it.
LEMMA Backwards ==
  ASSUME NEW n \in Nat \ {0}, NEW h \in 0..n - 1, NEW c \in 0..n, NEW i \in 1..c
  PROVE  (n + h - c + i - 1) % n
           = IF c - i + 1 <= h THEN h - (c - i + 1) ELSE n + h - (c - i + 1)
<1>1. CASE c - i + 1 <= h
  <2>1. h - (c - i + 1) \in 0..n - 1 /\ n + h - c + i - 1 = n + (h - (c - i + 1))
    BY <1>1
  <2>2. \A x \in 0..n - 1 : (n + x) % n = x
    OBVIOUS
  <2> QED  BY <1>1, <2>1, <2>2
<1>2. CASE ~(c - i + 1 <= h)
  <2>1. n + h - (c - i + 1) \in 0..n - 1 /\ n + h - c + i - 1 = n + h - (c - i + 1)
    BY <1>2
  <2>2. \A x \in 0..n - 1 : x % n = x
    OBVIOUS
  <2> QED  BY <1>2, <2>1, <2>2
<1> QED  BY <1>1, <1>2


LEMMA OneBack ==
  ASSUME NEW size \in Nat \ {0}, NEW n \in Nat,
         NEW c, c = IF n < size THEN n ELSE size,
         NEW d, d = IF c < size THEN c + 1 ELSE c
  PROVE  /\ d = IF n + 1 < size THEN n + 1 ELSE size
         /\ \A j \in 1..d : j # 1 =>
              /\ j - 1 \in 1..size - 1 /\ j - 1 \in 1..c /\ j - 1 \in 1..n
              /\ (j - 1) + 1 = j /\ n - (j - 1) + 1 = n + 1 - j + 1
         /\ n + 1 - 1 + 1 = n + 1
OBVIOUS

LEMMA RecentAdd ==
  ASSUME Types, Recent, NEW r \in Request,
         ring' = Add(ring, r), history'.tracked = Append(history.tracked, r)
  PROVE  Recent'
<1> DEFINE n == Len(history.tracked)
           head == ring.head
           next == (head + 1) % RingSize
<1>1. /\ RingSize \in Nat \ {0} /\ head \in 0..RingSize - 1
      /\ ring.count \in 0..RingSize
      /\ ring.buffer \in [0..RingSize - 1 -> Request \cup {None}]
      /\ history.tracked \in Seq(Request) /\ n \in Nat
  BY RequestsAssumption DEF Types
<1>2. /\ ring'.head = next
      /\ ring'.count = IF ring.count < RingSize THEN ring.count + 1 ELSE ring.count
      /\ ring'.buffer = [ring.buffer EXCEPT ![head] = r]
  BY DEF Add
<1>3. /\ Len(history'.tracked) = n + 1 /\ history'.tracked[n + 1] = r
      /\ \A i \in 1..n : history'.tracked[i] = history.tracked[i]
  BY <1>1
<1>4. next = IF head + 1 = RingSize THEN 0 ELSE head + 1
  BY <1>1, Wraps DEF next
<1>5. ring.count = IF n < RingSize THEN n ELSE RingSize
  BY DEF Recent
<1> HIDE DEF n, head, next
<1>6. Slot(next, 1) = head
  BY <1>1, <1>4 DEF Slot
<1>7. ASSUME NEW j \in 1..RingSize - 1
      PROVE  /\ Slot(next, j + 1) = Slot(head, j)
             /\ Slot(head, j) \in 0..RingSize - 1 /\ Slot(head, j) # head
  BY <1>1, <1>4 DEF Slot
<1>8. /\ ring'.count = IF n + 1 < RingSize THEN n + 1 ELSE RingSize
      /\ \A j \in 1..ring'.count : j # 1 =>
           /\ j - 1 \in 1..RingSize - 1 /\ j - 1 \in 1..ring.count /\ j - 1 \in 1..n
           /\ (j - 1) + 1 = j /\ n - (j - 1) + 1 = n + 1 - j + 1
      /\ n + 1 - 1 + 1 = n + 1
  BY <1>1, <1>2, <1>5, OneBack
<1>9. ASSUME NEW j \in 1..ring'.count
      PROVE  ring'.buffer[Slot(next, j)] = history'.tracked[n + 1 - j + 1]
  <2>1. CASE j = 1
    BY <1>1, <1>2, <1>3, <1>6, <1>8, <2>1
  <2>2. CASE j # 1
    <3>1. j - 1 \in 1..RingSize - 1 /\ j - 1 \in 1..ring.count /\ j - 1 \in 1..n
      BY <1>8, <2>2
    <3>2. Slot(next, j) = Slot(head, j - 1)
      <4>1. (j - 1) + 1 = j
        BY <1>8, <2>2
      <4> QED  BY <1>7, <3>1, <4>1
    <3>3. ring'.buffer[Slot(next, j)] = ring.buffer[Slot(head, j - 1)]
      BY <1>1, <1>2, <1>7, <3>1, <3>2
    <3>4. ring.buffer[Slot(head, j - 1)] = history.tracked[n - (j - 1) + 1]
      BY <3>1 DEF Recent, n, head
    <3>5. n - (j - 1) + 1 = n + 1 - j + 1
      BY <1>8, <2>2
    <3>6. n - (j - 1) + 1 \in 1..n
      BY <1>1, <3>1
    <3> QED  BY <1>3, <3>3, <3>4, <3>5, <3>6
  <2> QED  BY <2>1, <2>2
<1>10. Len(history'.tracked) = n + 1
  BY <1>3
<1>11. \A j \in 1..ring'.count : ring'.buffer[Slot(ring'.head, j)]
          = history'.tracked[Len(history'.tracked) - j + 1]
  <2>1. ring'.head = next
    BY <1>2
  <2>2. \A j \in 1..ring'.count :
          ring'.buffer[Slot(next, j)] = history'.tracked[n + 1 - j + 1]
    BY <1>9
  <2> SUFFICES ASSUME NEW j \in 1..ring'.count
               PROVE  ring'.buffer[Slot(ring'.head, j)]
                        = history'.tracked[Len(history'.tracked) - j + 1]
    OBVIOUS
  <2>3. Slot(ring'.head, j) = Slot(next, j)
    BY <2>1
  <2>4. Len(history'.tracked) - j + 1 = n + 1 - j + 1
    BY <1>1, <1>10 DEF n
  <2>5. ring'.buffer[Slot(next, j)] = history'.tracked[n + 1 - j + 1]
    BY <2>2
  <2> QED  BY <2>3, <2>4, <2>5
<1> QED  BY <1>8, <1>10, <1>11 DEF Recent, Slot

\* What the buffer holds is the end of the list, in its order.
LEMMA RecentIsLast ==
  ASSUME Types, Recent
  PROVE  RecentAreLast
<1> DEFINE list == history.tracked
           n == Len(list)
           from == IF n > RingSize THEN n - RingSize + 1 ELSE 1
           last == SubSeq(list, from, n)
<1>1. /\ RingSize \in Nat \ {0} /\ ring.head \in 0..RingSize - 1
      /\ ring.count \in 0..RingSize /\ list \in Seq(Request) /\ n \in Nat
  BY RequestsAssumption DEF Types
<1>2. /\ ring.count = n - from + 1 /\ from \in 1..n + 1
      /\ \A i \in 1..ring.count :
           /\ ring.count - i + 1 \in 1..ring.count
           /\ n - (ring.count - i + 1) + 1 = from + i - 1
  <2>1. ring.count = IF n < RingSize THEN n ELSE RingSize
    BY DEF Recent
  <2>2. from = IF n > RingSize THEN n - RingSize + 1 ELSE 1
    OBVIOUS
  <2>3. RingSize \in Nat \ {0} /\ n \in Nat
    BY <1>1
  <2> HIDE DEF n, from
  <2>4. ring.count = n - from + 1 /\ from \in 1..n + 1
    BY <2>1, <2>2, <2>3
  <2> QED  BY <2>1, <2>2, <2>3, <2>4
<1>3. \A i \in from..n : list[i] \in Request
  BY <1>1, <1>2
<1>4. ASSUME NEW i \in 1..ring.count
      PROVE  ring.buffer[(RingSize + ring.head - ring.count + i - 1) % RingSize]
               = list[from + i - 1]
  <2>1. (RingSize + ring.head - ring.count + i - 1) % RingSize
          = Slot(ring.head, ring.count - i + 1)
    BY <1>1, Backwards DEF Slot
  <2>2. ring.buffer[Slot(ring.head, ring.count - i + 1)]
          = list[n - (ring.count - i + 1) + 1]
    BY <1>2 DEF Recent
  <2> QED  BY <1>2, <2>1, <2>2
<1> HIDE DEF list, n, from
<1>5. /\ last \in Seq(Request) /\ Len(last) = IF from <= n THEN n - from + 1 ELSE 0
      /\ \A i \in 1..n - from + 1 : last[i] = list[from + i - 1]
  BY <1>1, <1>2, <1>3, SubSeqProperties
<1>6. Len(last) = ring.count
  BY <1>1, <1>2, <1>5
<1> HIDE DEF last
<1>7. last = [i \in 1..Len(last) |-> last[i]]
  BY <1>5
<1>8. \A i \in 1..ring.count : last[i] = list[from + i - 1]
  BY <1>2, <1>5
<1>9. GetAll(ring) = last
  BY <1>4, <1>6, <1>7, <1>8 DEF GetAll
<1> QED  BY <1>9 DEF RecentAreLast, list, n, from, last
LEMMA RecentInit == Init => Recent
<1> SUFFICES ASSUME Init PROVE Recent
  OBVIOUS
<1>1. ring.count = 0 /\ history.tracked = <<>> /\ Len(history.tracked) = 0
  BY DEF Init
<1> QED  BY <1>1, RequestsAssumption DEF Recent

LEMMA RecentStep ==
  ASSUME Types, Recent, NEW r \in Request
  PROVE  \/ \E path \in Path : Arrive(r, path)
         \/ \E outcome \in Result : Handle(r, outcome)
         \/ Panic(r) \/ Finish(r) \/ TrackRequest(r)
         \/ LoadAverage(r) \/ LoadTotal(r) \/ StoreAverage(r) \/ Answer(r)
         => Recent'
<1>1. ASSUME ring' = ring, history'.tracked = history.tracked PROVE Recent'
  BY <1>1 DEF Recent
<1>2. history \in [tracked : Seq(Request), serial : BOOLEAN]
  BY DEF Types
<1>3. ASSUME TrackRequest(r) PROVE Recent'
  <2>1. ring' = Add(ring, r) /\ history'.tracked = Append(history.tracked, r)
    BY <1>2, <1>3 DEF TrackRequest
  <2> QED  BY <2>1, RecentAdd
<1>4. ASSUME NEW path \in Path, Arrive(r, path) PROVE Recent'
  <2>1. ring' = ring /\ history'.tracked = history.tracked
    BY <1>2, <1>4 DEF Arrive
  <2> QED  BY <1>1, <2>1
<1>5. ASSUME Panic(r) PROVE Recent'
  <2>1. ring' = ring /\ history'.tracked = history.tracked
    BY <1>2, <1>5 DEF Panic
  <2> QED  BY <1>1, <2>1
<1>6. ASSUME \/ \E outcome \in Result : Handle(r, outcome)
             \/ Finish(r) \/ LoadAverage(r) \/ LoadTotal(r) \/ StoreAverage(r) \/ Answer(r)
      PROVE  Recent'
  <2>1. ring' = ring /\ history' = history
    BY <1>6 DEF Handle, Finish, LoadAverage, LoadTotal, StoreAverage, Answer
  <2> QED  BY <1>1, <2>1
<1> QED  BY <1>3, <1>4, <1>5, <1>6
-----------------------------------------------------------------------------
(* The books agree, for the sets they count do.                            *)

LEMMA Apart ==
  ASSUME NEW S \in SUBSET Request, NEW T \in SUBSET Request, S \cap T = {}
  PROVE  /\ Cardinality(S) \in Nat /\ Cardinality(T) \in Nat
         /\ Cardinality(S \cup T) = Cardinality(S) + Cardinality(T)
<1>1. IsFiniteSet(S) /\ IsFiniteSet(T)
  BY RequestsAssumption, FS_Subset
<1>2. Cardinality(S) \in Nat /\ Cardinality(T) \in Nat
  BY <1>1, FS_CardinalityType
<1>3. Cardinality(S \cup T) = Cardinality(S) + Cardinality(T) - Cardinality(S \cap T)
  BY <1>1, FS_Union
<1>4. Cardinality(S \cap T) = 0
  BY FS_EmptySet
<1> QED  BY <1>2, <1>3, <1>4

\* A part is not larger than the whole.
LEMMA Within ==
  ASSUME NEW S \in SUBSET Request, NEW T \in SUBSET Request, S \subseteq T
  PROVE  /\ Cardinality(S) \in Nat /\ Cardinality(T) \in Nat
         /\ Cardinality(S) <= Cardinality(T)
<1>1. IsFiniteSet(T)
  BY RequestsAssumption, FS_Subset
<1>2. IsFiniteSet(S)
  BY <1>1, FS_Subset
<1> QED  BY <1>1, <1>2, FS_Subset, FS_CardinalityType

\* When nobody is in flight, which counted requests were answered by an error,
\* and which by one of the server.
LEMMA BadAnswers ==
  ASSUME Types, Courses, InFlight = {}, NEW r \in Counted
  PROVE  /\ req[r].answer >= 400 <=> r \in Blamed \cup Failed \cup Erred \cup Panicked
         /\ r \in Failed \cup Panicked => req[r].answer >= 500
         /\ req[r].answer >= 500 => r \in Failed \cup Erred \cup Panicked
<1>1. r \in Request /\ req[r].at = "done" /\ req[r].path # "excluded"
  BY DEF InFlight, Counted, At, shouldExcludeFromStats
<1>2. /\ r \in Panicked <=> req[r].result = "panics"
      /\ r \in Erred <=> Returned(req[r].result)
      /\ r \in Failed <=> req[r].result = "failed"
      /\ r \in Blamed <=> req[r].result \in {"missing", "forbidden"}
  BY <1>1, Belongs DEF After
<1>3. /\ req[r].result \in Result
      /\ req[r].answer = IF req[r].result = "panics" THEN 500
                         ELSE statusCode(req[r].result)
  BY <1>1 DEF Types, Local, Courses, Course
<1>4. ASSUME NEW x \in Result \ {"panics"}
      PROVE  /\ statusCode(x) >= 400 <=> Returned(x) \/ x \in {"failed", "missing", "forbidden"}
             /\ x = "failed" => statusCode(x) >= 500
             /\ statusCode(x) >= 500 => Returned(x) \/ x = "failed"
  BY DEF Result, Returned, statusCode, responseStatus, Status
<1>5. CASE req[r].result = "panics"
  BY <1>2, <1>3, <1>5
<1>6. CASE req[r].result # "panics"
  BY <1>2, <1>3, <1>4, <1>6
<1> QED  BY <1>5, <1>6

LEMMA BooksOfSets ==
  ASSUME Types, Courses, Books
  PROVE  BooksAgree
<1> DEFINE Pending == {r \in Counted : req[r].at \in {"handling", "handled", "finished"}}
           Lost == Panicked \cap Counted
           Bad(low) == {r \in Counted : req[r].answer >= low}
           Wrong == Failed \cup Erred
<1>1. \A r \in Request : req[r].at \in Where /\ Course(r)
  BY DEF Types, Local, Courses
<1>2. /\ Tracked \in SUBSET Request /\ Pending \in SUBSET Request
      /\ Lost \in SUBSET Request /\ Failed \in SUBSET Request /\ Erred \in SUBSET Request
      /\ Blamed \in SUBSET Request
  BY DEF Tracked, Counted, Panicked, Failed, Erred, Blamed
<1>3. Counted = (Tracked \cup Pending) \cup Lost
  BY <1>1 DEF Tracked, Counted, Panicked, Where, After, Course, At
<1>4. /\ Tracked \cap Pending = {} /\ (Tracked \cup Pending) \cap Lost = {}
  BY <1>1 DEF Tracked, Counted, Panicked, After, Course
<1>5. ASSUME InFlight = {}
      PROVE  /\ Bad(400) = (Blamed \cup Wrong) \cup Lost
             /\ Failed \cup Lost \subseteq Bad(500) /\ Bad(500) \subseteq Wrong \cup Lost
  <2>1. Failed \subseteq Counted /\ Erred \subseteq Counted /\ Blamed \subseteq Counted
    BY DEF Failed, Erred, Blamed, Tracked
  <2>2. \A r \in Counted :
          /\ req[r].answer >= 400 <=> r \in Blamed \cup Failed \cup Erred \cup Panicked
          /\ r \in Failed \cup Panicked => req[r].answer >= 500
          /\ req[r].answer >= 500 => r \in Failed \cup Erred \cup Panicked
    BY <1>5, BadAnswers
  <2> QED  BY <2>1, <2>2
<1>6. /\ Failed \cap Erred = {} /\ Wrong \cap Lost = {} /\ Failed \cap Lost = {}
      /\ Blamed \cap Wrong = {} /\ (Blamed \cup Wrong) \cap Lost = {}
  <2>1. \A x \in {"failed", "panics", "missing", "forbidden"} : ~Returned(x)
    BY DEF Returned
  <2> QED  BY <2>1 DEF Failed, Erred, Blamed, Tracked, Panicked
<1>7. /\ Wrong \in SUBSET Request /\ Blamed \cup Wrong \in SUBSET Request
      /\ Wrong \cup Lost \in SUBSET Request /\ Failed \cup Lost \in SUBSET Request
      /\ Bad(500) \in SUBSET Request /\ Tracked \cup Pending \in SUBSET Request
  BY <1>2 DEF Counted
<1>8. Cardinality(Wrong) = Cardinality(Failed) + Cardinality(Erred)
  BY <1>2, <1>6, Apart
<1>9. /\ Answered(400) = Cardinality(Bad(400))
      /\ Answered(500) = Cardinality(Bad(500))
  BY DEF Answered
<1> HIDE DEF Pending, Lost, Bad, Wrong
<1>10. Cardinality(Counted)
         = Cardinality(Tracked) + Cardinality(Pending) + Cardinality(Lost)
  <2>1. Cardinality(Tracked \cup Pending) = Cardinality(Tracked) + Cardinality(Pending)
    BY <1>2, <1>4, Apart
  <2>2. Cardinality((Tracked \cup Pending) \cup Lost)
          = Cardinality(Tracked \cup Pending) + Cardinality(Lost)
    BY <1>2, <1>4, <1>7, Apart
  <2> QED  BY <1>3, <2>1, <2>2
<1>11. stats.total = totals.requests + Cardinality(Pending) + Cardinality(Lost)
  BY <1>10 DEF Books
<1>12. ASSUME InFlight = {}
       PROVE  Answered(400) = totals.client + totals.server + stats.errors + Cardinality(Lost)
  <2>1. Cardinality(Blamed \cup Wrong) = Cardinality(Blamed) + Cardinality(Wrong)
    BY <1>2, <1>6, <1>7, Apart
  <2>2. Cardinality((Blamed \cup Wrong) \cup Lost)
          = Cardinality(Blamed \cup Wrong) + Cardinality(Lost)
    BY <1>2, <1>6, <1>7, Apart
  <2>3. /\ Cardinality(Blamed) \in Nat /\ Cardinality(Failed) \in Nat
        /\ Cardinality(Erred) \in Nat /\ Cardinality(Lost) \in Nat
    BY <1>2, Within
  <2>4. Answered(400) = Cardinality((Blamed \cup Wrong) \cup Lost)
    BY <1>5, <1>9, <1>12
  <2>5. /\ totals.server = Cardinality(Failed) /\ totals.client = Cardinality(Blamed)
        /\ stats.errors = Cardinality(Erred)
    BY DEF Books
  <2> QED  BY <1>8, <2>1, <2>2, <2>3, <2>4, <2>5
<1>13. ASSUME InFlight = {}
       PROVE  Answered(500) \in totals.server + Cardinality(Lost)
                                 .. totals.server + stats.errors + Cardinality(Lost)
  <2>1. Cardinality(Failed \cup Lost) = Cardinality(Failed) + Cardinality(Lost)
    BY <1>2, <1>6, Apart
  <2>2. Cardinality(Wrong \cup Lost) = Cardinality(Wrong) + Cardinality(Lost)
    BY <1>2, <1>6, <1>7, Apart
  <2>3. /\ Cardinality(Failed \cup Lost) <= Cardinality(Bad(500))
        /\ Cardinality(Bad(500)) <= Cardinality(Wrong \cup Lost)
        /\ Cardinality(Bad(500)) \in Nat
    BY <1>5, <1>7, <1>13, Within
  <2>4. /\ Cardinality(Failed) \in Nat /\ Cardinality(Erred) \in Nat
        /\ Cardinality(Lost) \in Nat
    BY <1>2, Within
  <2> QED  BY <1>8, <1>9, <2>1, <2>2, <2>3, <2>4 DEF Books
<1> QED  BY <1>11, <1>12, <1>13 DEF BooksAgree, Pending, Lost
-----------------------------------------------------------------------------
(* The average: its arithmetic.                                            *)

\* A weighed mean is not above both of its parts.
LEMMA MeanBelow ==
  ASSUME NEW a \in Nat, NEW d \in Nat, NEW n \in Nat, n > 1
  PROVE  LET new == (a * (n - 1) + d) \div n IN new <= a \/ new <= d
<1> DEFINE s == a * (n - 1) + d
<1>1. s \in Nat /\ n \in Nat \ {0}
  <2>1. n - 1 \in Nat
    OBVIOUS
  <2>2. a * (n - 1) \in Nat
    BY <2>1
  <2> QED  BY <2>2
<1>2. CASE d <= a
  <2>1. a * n = a * (n - 1) + a
    OBVIOUS
  <2>2. s <= n * a
    BY <1>2, <2>1
  <2> HIDE DEF s
  <2>3. s \div n <= a
    BY <1>1, <2>2, Quotient
  <2> QED  BY <2>3 DEF s
<1>3. CASE a <= d
  <2>1. a * (n - 1) <= d * (n - 1)
    BY <1>3
  <2>2. d * n = d * (n - 1) + d
    OBVIOUS
  <2>3. s <= n * d
    BY <2>1, <2>2
  <2> HIDE DEF s
  <2>4. s \div n <= d
    BY <1>1, <2>3, Quotient
  <2> QED  BY <2>4 DEF s
<1> QED  BY <1>2, <1>3

\* The triangular numbers.
LEMMA Triangle ==
  ASSUME NEW n \in Nat \ {0}
  PROVE  ((n - 1) * ((n - 1) - 1)) \div 2 + (n - 1) = (n * (n - 1)) \div 2
<1> DEFINE p == (n - 1) * ((n - 1) - 1)
           q == n * (n - 1)
<1>1. q = p + 2 * (n - 1)
  OBVIOUS
<1>2. p \in Int /\ n - 1 \in Int
  OBVIOUS
<1> HIDE DEF p, q
<1>3. \A x, y \in Int : (x + 2 * y) \div 2 = x \div 2 + y
  OBVIOUS
<1>4. q \div 2 = p \div 2 + (n - 1)
  BY <1>1, <1>2, <1>3
<1> QED  BY <1>4 DEF p, q

\* The division drops less than n; the others have dropped the rest.
LEMMA MeanStep ==
  ASSUME NEW a \in Nat, NEW d \in Nat, NEW t \in Nat, NEW n \in Nat \ {0},
         Mean(a, t - d, n - 1)
  PROVE  Mean(IF n > 1 THEN (a * (n - 1) + d) \div n ELSE d, t, n)
<1>1. CASE n > 1
  <2> DEFINE s == a * (n - 1) + d
             new == s \div n
             low == ((n - 1) * ((n - 1) - 1)) \div 2
             high == (n * (n - 1)) \div 2
  <2>1. (t - d) - (n - 1) * a \in 0..low
    BY DEF Mean
  <2>2. low + (n - 1) = high
    BY Triangle
  <2>3. s \in Nat
    <3>1. n - 1 \in Nat
      OBVIOUS
    <3>2. a * (n - 1) \in Nat
      BY <3>1
    <3> QED  BY <3>2
  <2>4. (n - 1) * a \in Int /\ s = (n - 1) * a + d
    OBVIOUS
  <2>5. low \in Int /\ high \in Int
    <3>1. (n - 1) * ((n - 1) - 1) \in Int /\ n * (n - 1) \in Int
      OBVIOUS
    <3>2. \A x \in Int : x \div 2 \in Int
      OBVIOUS
    <3> QED  BY <3>1, <3>2
  <2> HIDE DEF s, low, high
  <2>6. new \in Nat /\ s % n \in 0..n - 1 /\ s = n * new + (s % n)
    BY <2>3, Quotient
  <2>7. n * new \in Int
    BY <2>6
  <2> DEFINE x == (n - 1) * a
             y == n * new
             z == s % n
  <2>8. /\ (t - d) - x \in 0..low /\ s = x + d /\ s = y + z /\ z \in 0..n - 1
        /\ x \in Int /\ y \in Int
    BY <2>1, <2>4, <2>6, <2>7
  <2> HIDE DEF x, z
  <2>9. t - y \in 0..high
    <3> HIDE DEF y
    <3> QED  BY <2>2, <2>5, <2>8
  <2> QED  BY <1>1, <2>9 DEF Mean, s, high
<1>2. CASE n = 1
  <2>1. t - d \in 0..((0 * (0 - 1)) \div 2)
    BY <1>2 DEF Mean
  <2>2. t - d = 0
    BY <2>1
  <2>3. t - 1 * d \in 0..((1 * (1 - 1)) \div 2)
    BY <2>2
  <2> QED  BY <1>2, <2>3 DEF Mean
<1> QED  BY <1>1, <1>2
-----------------------------------------------------------------------------
(* The list of tracked requests and its sum.                               *)

LEMMA ListedKept ==
  ASSUME Listed, NEW r \in Request, Others(r),
         r \in Tracked => r \in Tracked',
         \/ history'.tracked = history.tracked
         \/ /\ history.tracked \in Seq(Request) /\ r \in Tracked'
            /\ history'.tracked = Append(history.tracked, r)
  PROVE  Listed'
<1>1. Tracked \subseteq Tracked'
  BY DEF Others, Tracked, Counted, At, After
<1>2. CASE history'.tracked = history.tracked
  BY <1>1, <1>2 DEF Listed
<1>3. CASE /\ history.tracked \in Seq(Request) /\ r \in Tracked'
           /\ history'.tracked = Append(history.tracked, r)
  <2> DEFINE list == history.tracked  next == history'.tracked
  <2>1. \A i \in DOMAIN list : list[i] \in Tracked
    BY DEF Listed
  <2>2. \A i \in DOMAIN next : next[i] = r \/ (i \in DOMAIN list /\ next[i] = list[i])
    BY <1>3
  <2> HIDE DEF list
  <2> SUFFICES ASSUME NEW i \in DOMAIN next PROVE next[i] \in Tracked'
    BY DEF Listed
  <2> HIDE DEF next
  <2> QED  BY <1>1, <1>3, <2>1, <2>2
<1> QED  BY <1>2, <1>3

LEMMA ListedStep ==
  ASSUME Types, Courses, Listed, NEW r \in Request
  PROVE  \/ \E path \in Path : Arrive(r, path)
         \/ \E outcome \in Result : Handle(r, outcome)
         \/ Panic(r) \/ Finish(r) \/ TrackRequest(r)
         \/ LoadAverage(r) \/ LoadTotal(r) \/ StoreAverage(r) \/ Answer(r)
         => Listed'
<1>0. history \in [tracked : Seq(Request), serial : BOOLEAN] /\ Course(r)
  BY DEF Types, Courses
<1>1. ASSUME NEW path \in Path, Arrive(r, path) PROVE Listed'
  <2>1. history'.tracked = history.tracked
    BY <1>0, <1>1 DEF Arrive
  <2> QED  BY <1>1, <2>1, ArriveMoves, Belongs, BelongsNext, ListedKept DEF Moves, After
<1>2. ASSUME NEW outcome \in Result, Handle(r, outcome) PROVE Listed'
  <2>1. history'.tracked = history.tracked
    BY <1>2 DEF Handle
  <2> QED  BY <1>2, <2>1, HandleMoves, Belongs, BelongsNext, ListedKept DEF Moves, After
<1>3. ASSUME Panic(r) PROVE Listed'
  <2>1. history'.tracked = history.tracked
    BY <1>0, <1>3 DEF Panic
  <2> QED  BY <1>3, <2>1, PanicMoves, Belongs, BelongsNext, ListedKept DEF Moves, After
<1>4. ASSUME Finish(r) PROVE Listed'
  <2>1. history'.tracked = history.tracked
    BY <1>4 DEF Finish
  <2> QED  BY <1>4, <2>1, FinishMoves, Belongs, BelongsNext, ListedKept DEF Moves, After
<1>5. ASSUME TrackRequest(r) PROVE Listed'
  <2>1. history'.tracked = Append(history.tracked, r) /\ history.tracked \in Seq(Request)
    BY <1>0, <1>5 DEF TrackRequest
  <2>2. Others(r) /\ r \in Tracked'
    BY <1>0, <1>5, TrackMoves, BelongsNext DEF Moves, After, Course
  <2> QED  BY <2>1, <2>2, ListedKept
<1>6. ASSUME LoadAverage(r) PROVE Listed'
  <2>1. history'.tracked = history.tracked
    BY <1>6 DEF LoadAverage
  <2> QED  BY <1>6, <2>1, LoadAverageMoves, Belongs, BelongsNext, ListedKept DEF Moves, After
<1>7. ASSUME LoadTotal(r) PROVE Listed'
  <2>1. history'.tracked = history.tracked
    BY <1>7 DEF LoadTotal
  <2> QED  BY <1>7, <2>1, LoadTotalMoves, Belongs, BelongsNext, ListedKept DEF Moves, After
<1>8. ASSUME StoreAverage(r) PROVE Listed'
  <2>1. history'.tracked = history.tracked
    BY <1>8 DEF StoreAverage
  <2> QED  BY <1>8, <2>1, StoreMoves, Belongs, BelongsNext, ListedKept DEF Moves, After
<1>9. ASSUME Answer(r) PROVE Listed'
  <2>1. history'.tracked = history.tracked
    BY <1>9 DEF Answer
  <2> QED  BY <1>9, <2>1, AnswerMoves, Belongs, BelongsNext, ListedKept DEF Moves, After
<1> QED  BY <1>1, <1>2, <1>3, <1>4, <1>5, <1>6, <1>7, <1>8, <1>9

\* A sum over a list, by its places.
LEMMA SumOfList ==
  ASSUME Types, NEW list \in Seq(Request)
  PROVE  /\ Sum(list) \in Nat
         /\ Sum(list) = SumFunctionOnSet([i \in DOMAIN list |-> req[list[i]].duration],
                                         DOMAIN list)
<1> DEFINE f == [i \in DOMAIN list |-> req[list[i]].duration]
<1>1. \A i \in DOMAIN list : f[i] \in Nat
  BY DEF Types, Local
<1>2. DOMAIN f = DOMAIN list /\ IsFiniteSet(DOMAIN list)
  <2>1. DOMAIN list = 1..Len(list) /\ Len(list) \in Nat
    OBVIOUS
  <2>2. IsFiniteSet(1..Len(list))
    BY <2>1, FS_Interval
  <2> QED  BY <2>1, <2>2
<1>3. Sum(list) = SumFunctionOnSet(f, DOMAIN list)
  BY <1>2 DEF Sum, SumFunction
<1> HIDE DEF f
<1>4. SumFunctionOnSet(f, DOMAIN list) \in Nat
  BY <1>1, <1>2, SumType
<1> QED  BY <1>3, <1>4 DEF f

\* The sum is as before when no duration of the list has changed.
LEMMA SumKept ==
  ASSUME Types, Types', history'.tracked = history.tracked,
         \A i \in DOMAIN history.tracked :
           req'[history.tracked[i]].duration = req[history.tracked[i]].duration
  PROVE  Sum(history.tracked)' = Sum(history.tracked)
<1> DEFINE list == history.tracked
           f == [i \in DOMAIN list |-> req[list[i]].duration]
           g == [i \in DOMAIN list |-> req'[list[i]].duration]
<1>1. f = g
  OBVIOUS
<1>2. Sum(list)' = SumFunction(g)
  BY DEF Sum
<1>3. Sum(list) = SumFunction(f)
  BY DEF Sum
<1> HIDE DEF f, g
<1> QED  BY <1>1, <1>2, <1>3

\* ... and has one more summand when the list has one more entry.
LEMMA SumAppend ==
  ASSUME Types, Types', NEW r \in Request,
         history'.tracked = Append(history.tracked, r),
         \A q \in Request : req'[q].duration = req[q].duration
  PROVE  Sum(history.tracked)' = Sum(history.tracked) + req'[r].duration
<1> DEFINE list == history.tracked
           n == Len(list)
           next == Append(list, r)
           f == [i \in DOMAIN list |-> req[list[i]].duration]
           g == [i \in DOMAIN next |-> req'[next[i]].duration]
<1>1. list \in Seq(Request) /\ n \in Nat
  BY DEF Types
<1>2. DOMAIN next = 1..n + 1 /\ DOMAIN list = 1..n
  BY <1>1
<1>3. Sum(history.tracked)' = SumFunctionOnSet(g, 1..n + 1)
  BY <1>2 DEF Sum, SumFunction
<1>4. Sum(list) = SumFunctionOnSet(f, 1..n)
  BY <1>2 DEF Sum, SumFunction
<1>5. \A i \in 1..n + 1 : next[i] \in Request
  BY <1>1
<1>6. \A i \in 1..n + 1 : g[i] \in Nat
  BY <1>2, <1>5 DEF Types, Local
<1>7. \A i \in 1..n : f[i] = g[i]
  <2>1. \A i \in 1..n : list[i] = next[i] /\ list[i] \in Request
    BY <1>1
  <2>2. \A i \in 1..n : i \in 1..n + 1
    BY <1>1
  <2> QED  BY <1>2, <2>1, <2>2
<1>8. g[n + 1] = req'[r].duration
  BY <1>1, <1>2
<1>9. n + 1 \in 1..n + 1 /\ (1..n + 1) \ {n + 1} = 1..n
  BY <1>1
<1>10. IsFiniteSet(1..n + 1) /\ IsFiniteSet(1..n)
  BY <1>1, FS_Interval
<1> HIDE DEF f, g
<1>11. SumFunctionOnSet(g, 1..n + 1) = g[n + 1] + SumFunctionOnSet(g, 1..n)
  <2> DEFINE S == 1..n + 1  e == n + 1
  <2>1. IsFiniteSet(S) /\ e \in S /\ (\A i \in S : g[i] \in Nat) /\ S \ {e} = 1..n
    BY <1>6, <1>9, <1>10
  <2> HIDE DEF S, e
  <2>2. SumFunctionOnSet(g, S) = g[e] + SumFunctionOnSet(g, S \ {e})
    BY <2>1, SumRemove
  <2> QED  BY <2>1, <2>2 DEF S, e
<1>12. SumFunctionOnSet(f, 1..n) = SumFunctionOnSet(g, 1..n)
  BY <1>7, <1>10, SumSame
<1>13. Sum(list) \in Nat /\ req'[r].duration \in Nat
  BY <1>1, SumOfList DEF Types, Local
<1> HIDE DEF list
<1> QED  BY <1>3, <1>4, <1>8, <1>11, <1>12, <1>13 DEF list
-----------------------------------------------------------------------------
(* The average is bounded by a duration.                                   *)

\* Durations grow only.
LEMMA BoundedKept ==
  ASSUME Types, Types', Bounded, NEW r \in Request, Others(r),
         req[r].duration <= req'[r].duration,
         req'[r].oldAvg \in {req[r].oldAvg, stats.average, 0},
         stats'.average \in {stats.average} \cup {t \in Nat : t <= req[r].oldAvg}
                              \cup {t \in Nat : t <= req[r].duration}
  PROVE  Bounded'
<1>1. \A q \in Request : /\ req[q].duration \in Nat /\ req'[q].duration \in Nat
                         /\ req[q].duration <= req'[q].duration
  <2> SUFFICES ASSUME NEW q \in Request
               PROVE  /\ req[q].duration \in Nat /\ req'[q].duration \in Nat
                      /\ req[q].duration <= req'[q].duration
    OBVIOUS
  <2>1. req[q].duration \in Nat
    BY DEF Types, Local
  <2>2. req'[q].duration \in Nat
    BY DEF Types, Local
  <2>3. CASE q = r
    BY <2>1, <2>2, <2>3
  <2>4. CASE q # r
    BY <2>1, <2>2, <2>4 DEF Others
  <2> QED  BY <2>3, <2>4
<1>2. /\ stats.average \in Nat /\ req[r].oldAvg \in Nat /\ req[r].duration \in Nat
  BY DEF Types, Local
<1>3. ASSUME NEW t \in Nat, Reached(t), t > 0
      PROVE  \E q \in Request : t <= req'[q].duration
  <2>1. PICK q \in Request : t <= req[q].duration
    BY <1>3 DEF Reached
  <2> QED  BY <1>1, <2>1
<1>4. ASSUME stats'.average > 0
      PROVE  \E q \in Request : stats'.average <= req'[q].duration
  <2>1. CASE stats'.average = stats.average
    BY <1>2, <1>3, <1>4, <2>1 DEF Bounded
  <2>2. CASE stats'.average \in Nat /\ stats'.average <= req[r].oldAvg
    <3>1. req[r].oldAvg > 0 /\ Reached(req[r].oldAvg)
      BY <1>2, <1>4, <2>2 DEF Bounded
    <3>2. PICK q \in Request : req[r].oldAvg <= req'[q].duration
      BY <1>2, <1>3, <3>1
    <3> QED  BY <1>1, <1>2, <2>2, <3>2
  <2>3. CASE stats'.average \in Nat /\ stats'.average <= req[r].duration
    BY <1>1, <1>2, <2>3
  <2> QED  BY <2>1, <2>2, <2>3
<1>5. ASSUME NEW p \in Request, req'[p].oldAvg > 0
      PROVE  \E q \in Request : req'[p].oldAvg <= req'[q].duration
  <2>1. req[p].oldAvg \in Nat
    BY DEF Types, Local
  <2>2. CASE p # r
    <3>1. req'[p].oldAvg = req[p].oldAvg /\ Reached(req[p].oldAvg)
      BY <2>2 DEF Others, Bounded
    <3> QED  BY <1>3, <1>5, <2>1, <3>1
  <2>3. CASE p = r /\ req'[r].oldAvg = req[r].oldAvg
    BY <1>3, <1>5, <2>1, <2>3 DEF Bounded
  <2>4. CASE p = r /\ req'[r].oldAvg = stats.average
    BY <1>2, <1>3, <1>5, <2>4 DEF Bounded
  <2>5. CASE p = r /\ req'[r].oldAvg = 0
    BY <1>5, <2>5
  <2> QED  BY <2>2, <2>3, <2>4, <2>5
<1> QED  BY <1>4, <1>5 DEF Bounded, Reached

\* What StoreAverage stores.
LEMMA NewAverage ==
  ASSUME NEW q \in Local
  PROVE  newAvg(q) <= q.oldAvg \/ newAvg(q) <= q.duration
<1>1. q.oldAvg \in Nat /\ q.totalReqs \in Nat /\ q.duration \in Nat
  BY DEF Local
<1>2. CASE q.totalReqs > 1
  <2> DEFINE new == (q.oldAvg * (q.totalReqs - 1) + q.duration) \div q.totalReqs
  <2>1. new <= q.oldAvg \/ new <= q.duration
    BY <1>1, <1>2, MeanBelow
  <2>2. newAvg(q) = new
    BY <1>2 DEF newAvg
  <2> HIDE DEF new
  <2> QED  BY <2>1, <2>2
<1>3. CASE ~(q.totalReqs > 1)
  BY <1>1, <1>3 DEF newAvg
<1> QED  BY <1>2, <1>3

LEMMA BoundedStep ==
  ASSUME Types, Types', Courses, Bounded, NEW r \in Request
  PROVE  \/ \E path \in Path : Arrive(r, path)
         \/ \E outcome \in Result : Handle(r, outcome)
         \/ Panic(r) \/ Finish(r) \/ TrackRequest(r)
         \/ LoadAverage(r) \/ LoadTotal(r) \/ StoreAverage(r) \/ Answer(r)
         => Bounded'
<1>0. /\ Course(r) /\ stats \in StatsType /\ req[r] \in Local
      /\ req[r].duration \in Nat
  BY DEF Types, Courses, StatsType, Local
<1>1. ASSUME NEW path \in Path, Arrive(r, path) PROVE Bounded'
  <2>1. stats'.average = stats.average
    BY <1>0, <1>1 DEF Arrive, StatsType
  <2> QED  BY <1>0, <1>1, <2>1, ArriveMoves, BoundedKept DEF Moves
<1>2. ASSUME NEW outcome \in Result, Handle(r, outcome) PROVE Bounded'
  <2>1. stats'.average = stats.average
    BY <1>2 DEF Handle
  <2> QED  BY <1>0, <1>2, <2>1, HandleMoves, BoundedKept DEF Moves
<1>3. ASSUME Panic(r) PROVE Bounded'
  <2>1. stats'.average = stats.average
    BY <1>3 DEF Panic
  <2> QED  BY <1>0, <1>3, <2>1, PanicMoves, BoundedKept DEF Moves
<1>4. ASSUME Finish(r) PROVE Bounded'
  <2>1. stats'.average = stats.average
    BY <1>0, <1>4 DEF Finish, StatsType
  <2>2. req[r].duration = 0 /\ req'[r].duration \in Nat
    BY <1>0, <1>4, FinishMoves DEF Course
  <2> QED  BY <1>4, <2>1, <2>2, FinishMoves, BoundedKept DEF Moves
<1>5. ASSUME TrackRequest(r) PROVE Bounded'
  <2>1. stats'.average = stats.average
    BY <1>5 DEF TrackRequest
  <2> QED  BY <1>0, <1>5, <2>1, TrackMoves, BoundedKept DEF Moves
<1>6. ASSUME LoadAverage(r) PROVE Bounded'
  <2>1. stats'.average = stats.average
    BY <1>6 DEF LoadAverage
  <2> QED  BY <1>0, <1>6, <2>1, LoadAverageMoves, BoundedKept DEF Moves
<1>7. ASSUME LoadTotal(r) PROVE Bounded'
  <2>1. stats'.average = stats.average
    BY <1>7 DEF LoadTotal
  <2> QED  BY <1>0, <1>7, <2>1, LoadTotalMoves, BoundedKept DEF Moves
<1>8. ASSUME StoreAverage(r) PROVE Bounded'
  <2>1. stats'.average = newAvg(req[r])
    BY <1>0, <1>8 DEF StoreAverage, StatsType
  <2>2. /\ newAvg(req[r]) \in Nat
        /\ newAvg(req[r]) <= req[r].oldAvg \/ newAvg(req[r]) <= req[r].duration
    BY <1>0, AverageTypes, NewAverage
  <2> QED  BY <1>0, <1>8, <2>1, <2>2, StoreMoves, BoundedKept DEF Moves
<1>9. ASSUME Answer(r) PROVE Bounded'
  <2>1. stats'.average = stats.average
    BY <1>0, <1>9 DEF Answer, StatsType
  <2> QED  BY <1>0, <1>9, <2>1, AnswerMoves, BoundedKept DEF Moves
<1> QED  BY <1>1, <1>2, <1>3, <1>4, <1>5, <1>6, <1>7, <1>8, <1>9
-----------------------------------------------------------------------------
(* The average is the mean while requests are serial.                      *)

Alone == \A p, q \in InFlight \cap Counted : p = q

LEMMA AveragingIsInFlight ==
  ASSUME Courses
  PROVE  \A r \in Request : Averaging(r) => r \in InFlight \cap Counted
BY DEF Courses, Course, Averaging, InFlight, Counted, At, shouldExcludeFromStats

\* A step that neither tracks a request nor touches the average.
LEMMA SerialKept ==
  ASSUME Types, Types', Listed, Serial, NEW r \in Request, Others(r),
         history'.serial => history.serial, history'.tracked = history.tracked,
         stats'.average = stats.average,
         ~Averaging(r), ~Averaging(r)',
         r \in Tracked => req'[r].duration = req[r].duration,
         history'.serial => (r \in Panicked' => r \in Panicked),
         history'.serial => Alone'
  PROVE  Serial'
<1> SUFFICES ASSUME history'.serial PROVE Serial'
  BY DEF Serial
<1> DEFINE list == history.tracked
           n == Len(list)
<1>1. history.serial
  OBVIOUS
<1>2. Sum(list)' = Sum(list)
  <2>1. \A i \in DOMAIN list : list[i] \in Tracked /\ list[i] \in Request
    BY DEF Listed, Tracked, Counted
  <2>2. \A i \in DOMAIN list : req'[list[i]].duration = req[list[i]].duration
    BY <2>1 DEF Others
  <2> QED  BY <2>2, SumKept
<1>3. Panicked' = {}
  <2>1. Panicked = {}
    BY <1>1 DEF Serial
  <2>2. r \notin Panicked'
    BY <2>1
  <2> QED  BY <2>1, <2>2 DEF Others, Panicked
<1>4. Alone'
  OBVIOUS
<1>5. \A q \in Request : Averaging(q)' <=> Averaging(q)
  BY DEF Others, Averaging
<1>6. \A q \in Request : Averaging(q) => req'[q] = req[q]
  BY DEF Others
<1> HIDE DEF list, n
<1>7. history'.tracked = list /\ Len(history'.tracked) = n
  BY DEF list, n
<1>8. /\ (\A q \in Request : ~Averaging(q)) => Mean(stats.average, Sum(list), n)
      /\ \A q \in Request : Averaging(q) =>
           /\ n > 0 /\ list[n] = q
           /\ Mean(stats.average, Sum(list) - req[q].duration, n - 1)
           /\ req[q].at \in {"averaging", "storing"} => req[q].oldAvg = stats.average
           /\ At(q, "storing") => req[q].totalReqs = n
  BY <1>1 DEF Serial, list, n
<1>9. (\A q \in Request : ~Averaging(q)') => Mean(stats'.average, Sum(list)', n)
  BY <1>2, <1>5, <1>8
<1>10. ASSUME NEW q \in Request, Averaging(q)'
       PROVE  /\ n > 0 /\ list[n] = q
              /\ Mean(stats'.average, Sum(list)' - req'[q].duration, n - 1)
              /\ req'[q].at \in {"averaging", "storing"} => req'[q].oldAvg = stats'.average
              /\ req'[q].at = "storing" => req'[q].totalReqs = n
  BY <1>2, <1>5, <1>6, <1>8, <1>10 DEF At
<1> QED  BY <1>3, <1>4, <1>7, <1>9, <1>10 DEF Serial, Alone, At, list

LEMMA AloneKept ==
  ASSUME Alone, NEW r \in Request, Others(r),
         r \in (InFlight \cap Counted)' => r \in InFlight \cap Counted
  PROVE  Alone'
<1>1. \A q \in Request \ {r} : q \in (InFlight \cap Counted)' => q \in InFlight \cap Counted
  BY DEF Others, InFlight, Counted, At
<1>2. (InFlight \cap Counted)' \subseteq Request
  BY DEF InFlight
<1>3. (InFlight \cap Counted)' \subseteq InFlight \cap Counted
  BY <1>1, <1>2
<1> QED  BY <1>3 DEF Alone

\* The one that is under way, told from where it is.
LEMMA UnderWay ==
  ASSUME NEW r \in Request
  PROVE  /\ r \in InFlight \cap Counted
              <=> req[r].at \notin {"idle", "done"} /\ req[r].path # "excluded"
         /\ r \in (InFlight \cap Counted)'
              <=> req'[r].at \notin {"idle", "done"} /\ req'[r].path # "excluded"
         /\ Averaging(r) <=> req[r].at \in {"tracked", "averaging", "storing"}
         /\ Averaging(r)' <=> req'[r].at \in {"tracked", "averaging", "storing"}
BY DEF InFlight, Counted, At, shouldExcludeFromStats, Averaging

LEMMA SerialArrive ==
  ASSUME Types, Types', Courses, Listed, Serial, NEW r \in Request,
         NEW path \in Path, Arrive(r, path)
  PROVE  Serial'
<1>1. /\ Others(r) /\ req[r].at = "idle" /\ req'[r].at = "handling"
      /\ req'[r].path = path /\ req'[r].result = req[r].result
      /\ req'[r].duration = req[r].duration
  BY ArriveMoves DEF Moves
<1>2. /\ history'.tracked = history.tracked
      /\ history'.serial <=>
           history.serial /\ (path = "excluded" \/ InFlight \cap Counted = {})
      /\ stats'.average = stats.average
  BY DEF Arrive, Types, shouldExcludeFromStats
<1>3. ASSUME history'.serial PROVE Alone'
  <2>0. Alone
    BY <1>2, <1>3 DEF Serial, Alone
  <2>1. CASE path = "excluded"
    BY <1>1, <2>0, <2>1, UnderWay, AloneKept
  <2>2. CASE InFlight \cap Counted = {}
    <3>1. \A q \in Request \ {r} : q \notin (InFlight \cap Counted)'
      BY <1>1, <2>2 DEF Others, InFlight, Counted, At
    <3>2. (InFlight \cap Counted)' \subseteq {r}
      BY <3>1 DEF InFlight
    <3> QED  BY <3>2 DEF Alone
  <2> QED  BY <1>2, <1>3, <2>1, <2>2
<1>4. ~Averaging(r) /\ ~Averaging(r)'
  BY <1>1, UnderWay
<1>5. r \in Panicked' => r \in Panicked
  BY <1>1, Belongs, BelongsNext
<1> QED  BY <1>1, <1>2, <1>3, <1>4, <1>5, SerialKept

LEMMA SerialHandle ==
  ASSUME Types, Types', Courses, Listed, Serial, NEW r \in Request,
         NEW outcome \in Result, Handle(r, outcome)
  PROVE  Serial'
<1>1. /\ Others(r) /\ req[r].at = "handling" /\ req'[r].at = "handled"
      /\ req'[r].path = req[r].path /\ req'[r].result # "panics"
      /\ req'[r].duration = req[r].duration
  BY HandleMoves DEF Moves
<1>2. history' = history /\ stats' = stats
  BY DEF Handle
<1>3. ASSUME history'.serial PROVE Alone'
  <2>1. Alone
    BY <1>2, <1>3 DEF Serial, Alone
  <2> QED  BY <1>1, <2>1, UnderWay, AloneKept
<1>4. ~Averaging(r) /\ ~Averaging(r)'
  BY <1>1, UnderWay
<1>5. r \notin Panicked'
  BY <1>1, BelongsNext
<1> QED  BY <1>1, <1>2, <1>3, <1>4, <1>5, SerialKept

LEMMA SerialFinish ==
  ASSUME Types, Types', Courses, Listed, Serial, NEW r \in Request, Finish(r)
  PROVE  Serial'
<1>1. /\ Others(r) /\ req[r].at = "handled" /\ req'[r].at \in {"finished", "leaving"}
      /\ req'[r].path = req[r].path /\ req'[r].result = req[r].result
  BY FinishMoves DEF Moves
<1>2. history' = history /\ stats'.average = stats.average
  BY DEF Finish, Types
<1>3. ASSUME history'.serial PROVE Alone'
  <2>1. Alone
    BY <1>2, <1>3 DEF Serial, Alone
  <2> QED  BY <1>1, <2>1, UnderWay, AloneKept
<1>4. ~Averaging(r) /\ ~Averaging(r)'
  BY <1>1, UnderWay
<1>5. (r \in Panicked' => r \in Panicked) /\ r \notin Tracked
  BY <1>1, Belongs, BelongsNext DEF After
<1> QED  BY <1>1, <1>2, <1>3, <1>4, <1>5, SerialKept

LEMMA SerialAnswer ==
  ASSUME Types, Types', Courses, Listed, Serial, NEW r \in Request, Answer(r)
  PROVE  Serial'
<1>1. /\ Others(r) /\ req[r].at = "leaving" /\ req'[r].at = "done"
      /\ req'[r].path = req[r].path /\ req'[r].result = req[r].result
      /\ req'[r].duration = req[r].duration
  BY AnswerMoves DEF Moves
<1>2. history' = history /\ stats'.average = stats.average
  BY DEF Answer, Types
<1>3. ASSUME history'.serial PROVE Alone'
  <2>1. Alone
    BY <1>2, <1>3 DEF Serial, Alone
  <2> QED  BY <1>1, <2>1, UnderWay, AloneKept
<1>4. ~Averaging(r) /\ ~Averaging(r)'
  BY <1>1, UnderWay
<1>5. r \in Panicked' => r \in Panicked
  BY <1>1, Belongs, BelongsNext
<1> QED  BY <1>1, <1>2, <1>3, <1>4, <1>5, SerialKept

\* From here on the request under way is averaged: what Serial says of it.
LEMMA SerialOf ==
  ASSUME Types, Types', Courses, Courses', NEW r \in Request, Others(r), Alone,
         r \in InFlight \cap Counted, Panicked = {},
         req'[r].path = req[r].path, req'[r].result = req[r].result,
         req'[r].at \notin {"idle", "done"}
  PROVE  /\ Panicked' = {} /\ Alone'
         /\ \A q \in Request : Averaging(q) \/ Averaging(q)' => q = r
<1>1. Panicked' = {}
  BY DEF Panicked, Others
<1>2. Alone'
  BY AloneKept
<1>3. r \in (InFlight \cap Counted)'
  BY UnderWay
<1>4. \A q \in Request : Averaging(q) => q = r
  BY AveragingIsInFlight DEF Alone
<1>5. \A q \in Request : Averaging(q)' => q = r
  BY <1>4 DEF Averaging, Others
<1> QED  BY <1>1, <1>2, <1>4, <1>5

LEMMA SerialTrack ==
  ASSUME Types, Types', Courses, Courses', Listed, Serial, NEW r \in Request,
         TrackRequest(r)
  PROVE  Serial'
<1> SUFFICES ASSUME history'.serial PROVE Serial'
  BY DEF Serial
<1> DEFINE list == history.tracked
           n == Len(list)
<1>1. /\ Others(r) /\ req[r].at = "finished" /\ req'[r].at = "tracked"
      /\ req'[r].path = req[r].path /\ req'[r].result = req[r].result
      /\ req'[r].duration = req[r].duration
  BY TrackMoves DEF Moves
<1>2. /\ history'.tracked = Append(list, r) /\ list \in Seq(Request) /\ n \in Nat
      /\ history.serial /\ stats' = stats
  <2>1. history \in [tracked : Seq(Request), serial : BOOLEAN]
    BY DEF Types
  <2>2. history' = [history EXCEPT !.tracked = Append(@, r)] /\ stats' = stats
    BY DEF TrackRequest
  <2>3. history'.tracked = Append(list, r) /\ history'.serial = history.serial
    BY <2>1, <2>2
  <2> QED  BY <2>1, <2>2, <2>3
<1>3. /\ Panicked = {} /\ Alone
      /\ (\A q \in Request : ~Averaging(q)) => Mean(stats.average, Sum(list), n)
  BY <1>2 DEF Serial, Alone
<1>4. /\ r \in InFlight \cap Counted /\ ~Averaging(r)
  BY <1>1, UnderWay DEF Courses, Course
<1>5. /\ Panicked' = {} /\ Alone'
      /\ \A q \in Request : Averaging(q) \/ Averaging(q)' => q = r
  BY <1>1, <1>3, <1>4, SerialOf
<1>6. Mean(stats.average, Sum(list), n)
  BY <1>3, <1>4, <1>5
<1>7. Sum(list)' = Sum(list) + req'[r].duration
  <2>1. \A q \in Request : req'[q].duration = req[q].duration
    BY <1>1 DEF Others
  <2> QED  BY <1>2, <2>1, SumAppend
<1>8. Sum(list)' - req'[r].duration = Sum(list)
  <2>1. Sum(list) \in Nat /\ req'[r].duration \in Nat
    BY <1>2, SumOfList DEF Types, Local
  <2> HIDE DEF list
  <2> QED  BY <1>7, <2>1
<1>9. /\ Len(history'.tracked) = n + 1 /\ history'.tracked[n + 1] = r
      /\ n + 1 > 0 /\ (n + 1) - 1 = n
  BY <1>2
<1>10. Averaging(r)'
  BY <1>1, UnderWay
<1> HIDE DEF list, n
<1>11. Mean(stats'.average, Sum(list)' - req'[r].duration, (n + 1) - 1)
  BY <1>2, <1>6, <1>8, <1>9
<1>12. ASSUME NEW q \in Request, Averaging(q)'
       PROVE  /\ n + 1 > 0 /\ history'.tracked[n + 1] = q
              /\ Mean(stats'.average, Sum(list)' - req'[q].duration, (n + 1) - 1)
              /\ req'[q].at \notin {"averaging", "storing"}
  BY <1>1, <1>5, <1>9, <1>11, <1>12
<1> QED  BY <1>5, <1>9, <1>10, <1>12 DEF Serial, Alone, At, list

\* A step of the request whose duration is averaged.
LEMMA SerialAveraging ==
  ASSUME Types, Types', Courses, Courses', Serial, history.serial,
         NEW r \in Request, Others(r), Averaging(r), history' = history,
         req'[r].path = req[r].path, req'[r].result = req[r].result,
         req'[r].duration = req[r].duration,
         req'[r].at \notin {"idle", "done"},
         IF Averaging(r)'
         THEN /\ stats'.average = stats.average
              /\ req'[r].at \in {"averaging", "storing"} => req'[r].oldAvg = stats.average
              /\ req'[r].at = "storing" => req'[r].totalReqs = Len(history.tracked)
         ELSE Mean(stats'.average, Sum(history.tracked), Len(history.tracked))
  PROVE  Serial'
<1> DEFINE list == history.tracked
           n == Len(list)
<1>1. r \in InFlight \cap Counted
  BY AveragingIsInFlight
<1>2. Panicked = {} /\ Alone
  BY DEF Serial, Alone
<1>3. /\ Panicked' = {} /\ Alone'
      /\ \A q \in Request : Averaging(q) \/ Averaging(q)' => q = r
  BY <1>1, <1>2, SerialOf
<1>4. Sum(list)' = Sum(list)
  <2>1. list \in Seq(Request)
    BY DEF Types
  <2>2. \A i \in DOMAIN list : req'[list[i]].duration = req[list[i]].duration
    BY <2>1 DEF Others
  <2> QED  BY <2>2, SumKept
<1>5. /\ n > 0 /\ list[n] = r
      /\ Mean(stats.average, Sum(list) - req[r].duration, n - 1)
  BY DEF Serial
<1> HIDE DEF n
<1>6. history'.tracked = list /\ Len(history'.tracked) = n
  BY DEF n
<1>7. (\A q \in Request : ~Averaging(q)') => Mean(stats'.average, Sum(list)', n)
  BY <1>4 DEF n
<1>8. ASSUME NEW q \in Request, Averaging(q)'
      PROVE  /\ n > 0 /\ list[n] = q
             /\ Mean(stats'.average, Sum(list)' - req'[q].duration, n - 1)
             /\ req'[q].at \in {"averaging", "storing"} => req'[q].oldAvg = stats'.average
             /\ req'[q].at = "storing" => req'[q].totalReqs = n
  <2>1. q = r
    BY <1>3, <1>8
  <2>2. Mean(stats'.average, Sum(list)' - req'[q].duration, n - 1)
    BY <1>4, <1>5, <1>8, <2>1
  <2> QED  BY <1>5, <1>8, <2>1, <2>2 DEF n
<1> HIDE DEF list
<1> QED  BY <1>3, <1>6, <1>7, <1>8 DEF Serial, Alone, At, list

LEMMA SerialLoadAverage ==
  ASSUME Types, Types', Courses, Courses', Serial, NEW r \in Request, LoadAverage(r)
  PROVE  Serial'
<1> SUFFICES ASSUME history'.serial PROVE Serial'
  BY DEF Serial
<1>1. /\ Others(r) /\ req[r].at = "tracked" /\ req'[r].at = "averaging"
      /\ req'[r].path = req[r].path /\ req'[r].result = req[r].result
      /\ req'[r].duration = req[r].duration /\ req'[r].oldAvg = stats.average
  BY LoadAverageMoves DEF Moves
<1>2. history' = history /\ stats' = stats
  BY DEF LoadAverage
<1>3. Averaging(r) /\ Averaging(r)'
  BY <1>1, UnderWay
<1> QED  BY <1>1, <1>2, <1>3, SerialAveraging

\* All counted requests have been tracked.
LEMMA TotalIsTracked ==
  ASSUME Types, Courses, Books, NEW r \in Request, Averaging(r), Alone, Panicked = {}
  PROVE  stats.total = Len(history.tracked)
<1> DEFINE Pending == {q \in Counted : req[q].at \in {"handling", "handled", "finished"}}
<1>1. r \in InFlight \cap Counted
  BY AveragingIsInFlight
<1>2. Pending = {}
  <2> SUFFICES ASSUME NEW q \in Pending PROVE FALSE
    OBVIOUS
  <2>1. q \in InFlight \cap Counted
    BY DEF InFlight, Counted
  <2>2. q = r
    BY <1>1, <2>1 DEF Alone
  <2> QED  BY <2>2 DEF Averaging
<1>3. Panicked \cap Counted = {}
  OBVIOUS
<1>4. stats.total = totals.requests + Cardinality(Pending)
                      + Cardinality(Panicked \cap Counted)
  BY BooksOfSets DEF BooksAgree
<1>5. Cardinality({}) = 0
  BY FS_EmptySet
<1>6. totals.requests \in Nat /\ Len(history.tracked) = totals.requests
  BY DEF Books, Types
<1> HIDE DEF Pending
<1> QED  BY <1>2, <1>3, <1>4, <1>5, <1>6

LEMMA SerialLoadTotal ==
  ASSUME Types, Types', Courses, Courses', Books, Serial, NEW r \in Request, LoadTotal(r)
  PROVE  Serial'
<1> SUFFICES ASSUME history'.serial PROVE Serial'
  BY DEF Serial
<1>1. /\ Others(r) /\ req[r].at = "averaging" /\ req'[r].at = "storing"
      /\ req'[r].path = req[r].path /\ req'[r].result = req[r].result
      /\ req'[r].duration = req[r].duration /\ req'[r].oldAvg = req[r].oldAvg
      /\ req'[r].totalReqs = stats.total
  BY LoadTotalMoves DEF Moves
<1>2. history' = history /\ stats' = stats
  BY DEF LoadTotal
<1>3. Averaging(r) /\ Averaging(r)'
  BY <1>1, UnderWay
<1>4. Panicked = {} /\ Alone /\ req[r].oldAvg = stats.average
  BY <1>1, <1>2, <1>3 DEF Serial, Alone
<1>5. stats.total = Len(history.tracked)
  BY <1>3, <1>4, TotalIsTracked
<1> QED  BY <1>1, <1>2, <1>3, <1>4, <1>5, SerialAveraging

LEMMA SerialStore ==
  ASSUME Types, Types', Courses, Courses', Serial, NEW r \in Request, StoreAverage(r)
  PROVE  Serial'
<1> SUFFICES ASSUME history'.serial PROVE Serial'
  BY DEF Serial
<1> DEFINE list == history.tracked
           n == Len(list)
<1>1. /\ Others(r) /\ req[r].at = "storing" /\ req'[r].at = "leaving"
      /\ req'[r].path = req[r].path /\ req'[r].result = req[r].result
      /\ req'[r].duration = req[r].duration
  BY StoreMoves DEF Moves
<1>2. history' = history /\ stats'.average = newAvg(req[r])
  BY DEF StoreAverage, Types
<1>3. Averaging(r) /\ ~Averaging(r)'
  BY <1>1, UnderWay
<1>4. /\ n > 0 /\ Mean(stats.average, Sum(list) - req[r].duration, n - 1)
      /\ req[r].oldAvg = stats.average /\ req[r].totalReqs = n
  BY <1>1, <1>2, <1>3 DEF Serial, At
<1>5. /\ n \in Nat \ {0} /\ Sum(list) \in Nat /\ stats.average \in Nat
      /\ req[r].duration \in Nat
  <2>1. list \in Seq(Request) /\ stats.average \in Nat /\ req[r].duration \in Nat
    BY DEF Types, Local
  <2>2. n \in Nat \ {0}
    BY <1>4, <2>1
  <2> QED  BY <2>1, <2>2, SumOfList
<1> HIDE DEF list, n
<1>6. newAvg(req[r]) = IF n > 1 THEN (stats.average * (n - 1) + req[r].duration) \div n
                       ELSE req[r].duration
  BY <1>4 DEF newAvg
<1>7. Mean(newAvg(req[r]), Sum(list), n)
  <2> DEFINE a == stats.average  d == req[r].duration  t == Sum(list)
  <2>1. a \in Nat /\ d \in Nat /\ t \in Nat /\ n \in Nat \ {0} /\ Mean(a, t - d, n - 1)
    BY <1>4, <1>5
  <2>2. newAvg(req[r]) = IF n > 1 THEN (a * (n - 1) + d) \div n ELSE d
    BY <1>6
  <2> HIDE DEF a, d, t
  <2>3. Mean(IF n > 1 THEN (a * (n - 1) + d) \div n ELSE d, t, n)
    BY <2>1, MeanStep
  <2> QED  BY <2>2, <2>3 DEF t
<1>8. Mean(stats'.average, Sum(history.tracked), Len(history.tracked))
  BY <1>2, <1>7 DEF list, n
<1> QED  BY <1>1, <1>2, <1>3, <1>8, SerialAveraging

LEMMA SerialStep ==
  ASSUME Types, Types', Courses, Courses', Books, Listed, Serial, NEW r \in Request
  PROVE  \/ \E path \in Path : Arrive(r, path)
         \/ \E outcome \in Result : Handle(r, outcome)
         \/ Panic(r) \/ Finish(r) \/ TrackRequest(r)
         \/ LoadAverage(r) \/ LoadTotal(r) \/ StoreAverage(r) \/ Answer(r)
         => Serial'
<1>1. ASSUME Panic(r) PROVE Serial'
  <2>1. history'.serial = FALSE
    BY <1>1 DEF Panic, Types
  <2> QED  BY <2>1 DEF Serial
<1> QED  BY <1>1, SerialArrive, SerialHandle, SerialFinish, SerialTrack, SerialAnswer,
            SerialLoadAverage, SerialLoadTotal, SerialStore
-----------------------------------------------------------------------------
(* The theorems.                                                           *)

\* What holds of every state that can be reached.
IInv == Types /\ Courses /\ Books /\ Recent /\ Listed /\ Bounded /\ Serial

LEMMA IInvInit == Init => IInv
<1> SUFFICES ASSUME Init PROVE IInv
  OBVIOUS
<1>1. /\ history.tracked = <<>> /\ stats.average = 0
      /\ \A r \in Request : req[r].at = "idle" /\ req[r].oldAvg = 0 /\ req[r].result = None
  BY DEF Init
<1>2. Listed
  BY <1>1 DEF Listed
<1>3. Bounded
  BY <1>1 DEF Bounded, Reached
<1>4. Sum(history.tracked) = 0
  <2>1. DOMAIN history.tracked = {}
    BY <1>1
  <2>2. Sum(history.tracked)
          = SumFunctionOnSet([i \in DOMAIN history.tracked |->
                                req[history.tracked[i]].duration], {})
    BY <2>1 DEF Sum, SumFunction
  <2> QED  BY <2>2, SumEmpty
<1>5. Serial
  <2>1. Panicked = {} /\ InFlight = {} /\ \A r \in Request : ~Averaging(r)
    BY <1>1, RequestsAssumption DEF Panicked, InFlight, Averaging, Result
  <2>2. Len(history.tracked) = 0
    BY <1>1
  <2>3. Mean(0, 0, 0)
    BY DEF Mean
  <2> QED  BY <1>1, <1>4, <2>1, <2>2, <2>3 DEF Serial
<1> QED  BY <1>2, <1>3, <1>5, TypesInit, BooksInit, RecentInit DEF IInv

\* A step in which no request moves.
LEMMA IInvIdle ==
  ASSUME IInv, now' \in now..MaxTime,
         UNCHANGED <<req, stats, totals, ring, trail, views, history>>
  PROVE  IInv'
<1>1. Types'
  BY DEF IInv, Types
<1>2. Courses'
  <2>1. now \in Nat /\ now' \in Nat /\ now <= now' /\ req \in [Request -> Local]
    BY RequestsAssumption DEF IInv, Types
  <2> SUFFICES ASSUME NEW r \in Request PROVE Course(r)'
    BY DEF Courses
  <2>2. req[r].start \in Nat /\ Course(r)
    BY <2>1 DEF IInv, Courses, Local
  <2> QED  BY <2>1, <2>2 DEF Course
<1>3. /\ Busy' = Busy /\ Panicked' = Panicked /\ Counted' = Counted /\ InFlight' = InFlight
      /\ Tracked' = Tracked /\ Failed' = Failed /\ Blamed' = Blamed /\ Erred' = Erred
  BY DEF Busy, Panicked, Counted, InFlight, Tracked, Failed, Blamed, Erred, At
<1>4. Books'
  BY <1>3 DEF IInv, Books
<1>5. Recent' /\ Bounded'
  BY DEF IInv, Recent, Bounded, Reached
<1>6. Listed'
  BY <1>3 DEF IInv, Listed
<1>7. Serial'
  BY <1>3 DEF IInv, Serial, Averaging, Sum, At
<1> QED  BY <1>1, <1>2, <1>4, <1>5, <1>6, <1>7 DEF IInv

LEMMA IInvNext == IInv /\ [Next]_vars => IInv'
<1> SUFFICES ASSUME IInv, [Next]_vars PROVE IInv'
  OBVIOUS
<1>1. CASE UNCHANGED vars
  <2>1. now \in 0..MaxTime /\ now' = now /\ MaxTime \in Nat
    BY <1>1, RequestsAssumption DEF vars, IInv, Types
  <2>2. now' \in now..MaxTime
    BY <2>1
  <2> QED  BY <1>1, <2>2, IInvIdle DEF vars
<1>2. CASE Tick
  <2>1. now \in 0..MaxTime /\ now' = now + 1 /\ now < MaxTime /\ MaxTime \in Nat
    BY <1>2, RequestsAssumption DEF Tick, IInv, Types
  <2>2. now' \in now..MaxTime
    BY <2>1
  <2> QED  BY <1>2, <2>2, IInvIdle DEF Tick
<1>3. ASSUME NEW r \in Request,
             \/ \E path \in Path : Arrive(r, path)
             \/ \E outcome \in Result : Handle(r, outcome)
             \/ Panic(r) \/ Finish(r) \/ TrackRequest(r)
             \/ LoadAverage(r) \/ LoadTotal(r) \/ StoreAverage(r) \/ Answer(r)
      PROVE  IInv'
  <2>0. /\ Types /\ Courses /\ Books /\ Recent /\ Listed /\ Bounded /\ Serial
    BY DEF IInv
  <2>1. Types' /\ Courses'
    BY <1>3, <2>0, StepTypes, CoursesStep
  <2>2. Books' /\ Recent' /\ Listed'
    BY <1>3, <2>0, BooksStep, RecentStep, ListedStep
  <2>3. Bounded' /\ Serial'
    BY <1>3, <2>0, <2>1, BoundedStep, SerialStep
  <2> QED  BY <2>1, <2>2, <2>3 DEF IInv
<1> QED  BY <1>1, <1>2, <1>3 DEF Next

\* The counters have the types of the code's fields: no decrement of
\* ActiveConnections comes before its increment (core/server/server.go:188-211).
THEOREM TypeCorrect == Spec => []TypeOK
<1>1. IInv => TypeOK
  <2> SUFFICES ASSUME IInv PROVE TypeOK
    OBVIOUS
  <2>1. stats.active \in Nat
    <3>1. Busy \subseteq Request /\ Panicked \subseteq Request
      BY DEF Busy, Panicked
    <3>2. IsFiniteSet(Busy) /\ IsFiniteSet(Panicked)
      BY <3>1, RequestsAssumption, FS_Subset
    <3>3. Cardinality(Busy) \in Nat /\ Cardinality(Panicked) \in Nat
      BY <3>2, FS_CardinalityType
    <3> QED  BY <3>3 DEF IInv, Books
  <2> QED  BY <2>1 DEF IInv, Types, TypeOK
<1> QED  BY <1>1, IInvInit, IInvNext, PTL DEF Spec

\* However the requests interleave, the active connections are those that are
\* served now and those that panicked, whose decrement is lost for good.
THEOREM ActiveConnectionsAreCounted == Spec => []ActiveCounts
<1>1. IInv => ActiveCounts
  BY DEF IInv, Books, ActiveCounts, Busy
<1> QED  BY <1>1, IInvInit, IInvNext, PTL DEF Spec

\* The counters of ServerStats and of RequestStats agree on what they count, and
\* the circular buffer hands out the requests that were tracked last, in order.
THEOREM MonitoringIsRight == Spec => []MonitoringAgrees
<1>1. IInv => MonitoringAgrees
  BY BooksOfSets, RecentIsLast DEF IInv, MonitoringAgrees
<1> QED  BY <1>1, IInvInit, IInvNext, PTL DEF Spec

\* However updates of it are lost, the average is no longer than the longest
\* request; and for serial requests it is their mean, less what n divisions drop.
THEOREM AveragesAreMeans == Spec => []AverageIsAMean
<1>1. IInv => AverageIsAMean
  <2> SUFFICES ASSUME IInv PROVE AverageIsAMean
    OBVIOUS
  <2>1. stats.average > 0 => \E r \in Request : stats.average <= req[r].duration
    BY DEF IInv, Bounded, Reached
  <2>2. ASSUME history.serial, InFlight \cap Counted = {}
        PROVE  Mean(stats.average, Sum(history.tracked), Len(history.tracked))
    <3>1. \A r \in Request : ~Averaging(r)
      BY <2>2, AveragingIsInFlight DEF IInv
    <3> QED  BY <2>2, <3>1 DEF IInv, Serial
  <2> QED  BY <2>1, <2>2 DEF AverageIsAMean, Mean
<1> QED  BY <1>1, IInvInit, IInvNext, PTL DEF Spec
=============================================================================
