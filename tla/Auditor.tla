------------------------------ MODULE Auditor ------------------------------
(***************************************************************************)
(* The admin access auditor of core/audit: Track folds an event into a     *)
(* bounded map under a mutex; one worker swaps the map out and, without    *)
(* the mutex, runs detection over the batch and writes it in one           *)
(* transaction, or folds it back; Close stops the worker and flushes once  *)
(* more.                                                                   *)
(*                                                                         *)
(* An event is abstracted to its aggregation key, a map entry and the rows *)
(* of a key to a count.  The totals of the code (dropped, droppedReported, *)
(* written) are kept per key.  A run is shorter than BruteForceWindow; what*)
(* retention removes is up to Purge.  An auditor that is disabled, or has  *)
(* no table, does nothing and is not modelled.                             *)
(***************************************************************************)
EXTENDS Integers, FiniteSets, FiniteSetsExt, Functions

CONSTANTS
  Keys,                         \* aggregation keys (eventKey)
  Failures, Successes, Probes,  \* those of Kind auth_failure, of auth_success,
                                \* and of a user token on an admin surface
  IPs, NoIP, IpOf,              \* IpOf[k]: key.IP; NoIP: not recorded
  AlertOnFailure, AlertOnNewIP, \* the Config switches
  BruteForceThreshold,          \* Config.BruteForceThreshold
  MaxPendingEvents,             \* Config.MaxPendingEvents
  MaxTracks                     \* bound on the events

ASSUME ConfigAssumption ==
  /\ IsFiniteSet(Keys)
  /\ Failures \subseteq Keys /\ Successes \subseteq Keys /\ Probes \subseteq Keys
  /\ Failures \cap Successes = {}
  /\ NoIP \notin IPs /\ IpOf \in [Keys -> IPs \cup {NoIP}]
  /\ AlertOnFailure \in BOOLEAN /\ AlertOnNewIP \in BOOLEAN
  /\ BruteForceThreshold \in Nat \ {0} /\ MaxPendingEvents \in Nat \ {0}
  /\ MaxTracks \in Nat

VARIABLES
  pending,          \* the buffer; 0: no entry
  flushNow,         \* the channel holds a request
  batch,            \* what Flush swapped out
  flush,            \* where Flush is
  worker, closer,   \* progress of flushWorker and of Close
  dropped, droppedReported, written,
  table,            \* the rows of _admin_access
  purged,           \* history: counts of the rows that Purge removed
  tracked,          \* history: calls of Track
  raised,           \* history: alerts handed to the notifier
  blind             \* history: keys whose detection query failed

counts == <<dropped, written, purged, tracked>>
detection == <<droppedReported, raised, blind>>
vars == <<pending, flushNow, batch, flush, worker, closer, counts, table,
          detection>>

Tally == [Keys -> Nat]
None == [k \in Keys |-> 0]
Plus(f, g) == [k \in Keys |-> f[k] + g[k]]
entries(f) == {k \in Keys : f[k] > 0}
Part(f, S) == [k \in Keys |-> IF k \in S THEN f[k] ELSE 0]

Alerts == [what : {"failure", "bruteforce", "new_source", "privilege_probe"},
           ip : IPs \cup {NoIP}]

Init ==
  /\ pending = None /\ flushNow = FALSE
  /\ batch = None /\ flush = "none"
  /\ worker = "select" /\ closer = "open"
  /\ dropped = None /\ droppedReported = None /\ written = None
  /\ table = None /\ purged = None /\ tracked = None
  /\ raised = {} /\ blind = {}
-----------------------------------------------------------------------------
(* Track and requestFlush.                                                 *)

room == Cardinality(entries(pending)) < MaxPendingEvents

\* An event with an entry, or with room for one, is buffered.
TrackBuffered(k) ==
  /\ SumFunction(tracked) < MaxTracks
  /\ pending[k] > 0 \/ room
  /\ pending' = [pending EXCEPT ![k] = @ + 1]
  /\ tracked' = [tracked EXCEPT ![k] = @ + 1]
  /\ flushNow' = (flushNow \/ Cardinality(entries(pending')) >= MaxPendingEvents)
  /\ UNCHANGED <<batch, flush, worker, closer, dropped, written, purged, table,
                 detection>>

\* At the ceiling a new key is refused, and counted.
TrackDropped(k) ==
  /\ SumFunction(tracked) < MaxTracks
  /\ pending[k] = 0 /\ ~room
  /\ dropped' = [dropped EXCEPT ![k] = @ + 1]
  /\ tracked' = [tracked EXCEPT ![k] = @ + 1]
  /\ flushNow' = TRUE
  /\ UNCHANGED <<pending, batch, flush, worker, closer, written, purged, table,
                 detection>>
-----------------------------------------------------------------------------
(* Flush.                                                                  *)

\* Flush swaps the buffer out, and has nothing to do if it was empty.
Swap ==
  /\ pending' = None /\ batch' = pending
  /\ flush' = IF entries(pending) = {} THEN "none" ELSE "detect"

\* Flush returns to its caller.
Return ==
  /\ flush' = "none"
  /\ IF worker = "flushing" THEN worker' = "select" /\ UNCHANGED closer
     ELSE closer' = "closed" /\ UNCHANGED worker

\* Mutants: detection runs after the insert, so that it reads its own batch.
recentAfterInsert(ip) ==
  SumFunctionOnSet(Plus(table, batch), {k \in Failures : IpOf[k] = ip})
priorAfterInsert(ip) ==
  \E k \in Successes : IpOf[k] = ip /\ table[k] + batch[k] > 0

\* The detection queries over the rows of the table.
recentFailures(ip) ==
  IF ip = NoIP THEN 0
  ELSE SumFunctionOnSet(table, {k \in Failures : IpOf[k] = ip})

hasPriorSuccess(ip) == \E k \in Successes : IpOf[k] = ip /\ table[k] > 0

\* Mutant: the failures in hand are forgotten.
onAuthFailureRecorded(U) ==
  {[what |-> IF recentFailures(IpOf[k]) >= BruteForceThreshold
             THEN "bruteforce" ELSE "failure",
    ip |-> IpOf[k]] : k \in Failures \cap entries(batch)}

\* The alerts a batch raises when the queries of the keys in U fail: a failed
\* count reads 0, a failed lookup as a known address.
onAuthFailure(U) ==
  {[what |-> IF (IF k \in U THEN 0 ELSE recentFailures(IpOf[k])) + batch[k]
                  >= BruteForceThreshold THEN "bruteforce" ELSE "failure",
    ip |-> IpOf[k]] :
     k \in {f \in Failures \cap entries(batch) : AlertOnFailure}}

onAuthSuccess(U) ==
  {[what |-> "new_source", ip |-> IpOf[k]] :
     k \in {s \in Successes \cap entries(batch) :
              /\ AlertOnNewIP /\ IpOf[s] # NoIP
              /\ s \notin U /\ ~hasPriorSuccess(IpOf[s])}}

onPrivilegeProbe ==
  {[what |-> "privilege_probe", ip |-> IpOf[k]] : k \in Probes \cap entries(batch)}

Detect(U) ==
  /\ flush = "detect" /\ U \subseteq entries(batch)
  /\ raised' = raised \cup onAuthFailure(U) \cup onAuthSuccess(U)
                      \cup onPrivilegeProbe
  /\ blind' = blind \cup U
  /\ flush' = "report"
  /\ UNCHANGED <<pending, flushNow, batch, worker, closer, counts, table,
                 droppedReported>>

\* Mutant: only the first loss is ever reported.
ReportDroppedOnce ==
  /\ flush = "report" /\ flush' = "write"
  /\ droppedReported' = IF droppedReported = None THEN dropped ELSE droppedReported
  /\ UNCHANGED <<pending, flushNow, batch, worker, closer, counts, table,
                 raised, blind>>

\* reportDropped: droppedReported # droppedReported' when it raises its alert.
ReportDropped ==
  /\ flush = "report" /\ flush' = "write"
  /\ droppedReported' = dropped
  /\ UNCHANGED <<pending, flushNow, batch, worker, closer, counts, table,
                 raised, blind>>

\* The transaction commits ...
WriteCommits ==
  /\ flush = "write" /\ flush' = "count"
  /\ table' = Plus(table, batch)
  /\ UNCHANGED <<pending, flushNow, batch, worker, closer, counts, detection>>

\* ... or nothing of it is written.
WriteFails ==
  /\ flush = "write" /\ flush' = "restore"
  /\ UNCHANGED <<pending, flushNow, batch, worker, closer, counts, table,
                 detection>>

CountWritten ==
  /\ flush = "count"
  /\ written' = Plus(written, batch)
  /\ batch' = None
  /\ Return
  /\ UNCHANGED <<pending, flushNow, dropped, purged, tracked, table, detection>>

\* Mutants: restore ignores the ceiling, or skips keys that are pending again.
RestoreAll(S) ==
  /\ flush = "restore" /\ S = entries(batch)
  /\ pending' = Plus(pending, batch)
  /\ batch' = None
  /\ Return
  /\ UNCHANGED <<flushNow, counts, table, detection>>
RestoreUnmerged(S) ==
  /\ flush = "restore" /\ S = entries(batch) \ entries(pending)
  /\ pending' = Plus(pending, Part(batch, S))
  /\ batch' = None
  /\ Return
  /\ UNCHANGED <<flushNow, counts, table, detection>>

\* restore merges the entries that were tracked anew and keeps others up to the
\* ceiling: which ones (S) depends on the iteration order of the map.
Restore(S) ==
  LET new  == entries(batch) \ entries(pending)
      free == MaxPendingEvents - Cardinality(entries(pending))
  IN  /\ flush = "restore"
      /\ S \subseteq new
      /\ Cardinality(S) = IF Cardinality(new) <= free
                          THEN Cardinality(new) ELSE free
      /\ pending' = Plus(pending, Part(batch, S \cup entries(pending)))
      /\ dropped' = Plus(dropped, Part(batch, new \ S))
      /\ batch' = None
      /\ Return
      /\ UNCHANGED <<flushNow, written, purged, tracked, table, detection>>
-----------------------------------------------------------------------------
(* flushWorker, Close and Purge.                                           *)

\* The select of the worker: a tick, or a request from Track (requested).
WorkerFlushes(requested) ==
  /\ worker = "select"
  /\ IF requested THEN flushNow /\ flushNow' = FALSE ELSE UNCHANGED flushNow
  /\ Swap
  /\ worker' = IF flush' = "none" THEN "select" ELSE "flushing"
  /\ UNCHANGED <<closer, counts, table, detection>>

\* Mutant: the worker stops only once the buffer is empty.
WorkerStopsWhenEmpty ==
  /\ worker = "select" /\ closer = "stopping" /\ entries(pending) = {}
  /\ worker' = "stopped"
  /\ UNCHANGED <<pending, flushNow, batch, flush, closer, counts, table,
                 detection>>

WorkerStops ==
  /\ worker = "select" /\ closer = "stopping"
  /\ worker' = "stopped"
  /\ UNCHANGED <<pending, flushNow, batch, flush, closer, counts, table,
                 detection>>

CloseStops ==
  /\ closer = "open" /\ closer' = "stopping"
  /\ UNCHANGED <<pending, flushNow, batch, flush, worker, counts, table,
                 detection>>

\* Close has seen the worker stop and flushes itself.
CloseFlushes ==
  /\ closer = "stopping" /\ worker = "stopped"
  /\ Swap
  /\ closer' = IF flush' = "none" THEN "closed" ELSE "flushing"
  /\ UNCHANGED <<flushNow, worker, counts, table, detection>>

\* The retention job deletes the rows of the keys in E, which have expired.
Purge(E) ==
  /\ E # {} /\ E \subseteq entries(table)
  /\ purged' = Plus(purged, Part(table, E))
  /\ table' = Part(table, Keys \ E)
  /\ UNCHANGED <<pending, flushNow, batch, flush, worker, closer, dropped,
                 written, tracked, detection>>
-----------------------------------------------------------------------------
Track(k) == TrackBuffered(k) \/ TrackDropped(k)

Flush == \/ \E U \in SUBSET Keys : Detect(U)
         \/ ReportDropped
         \/ WriteCommits \/ WriteFails \/ CountWritten
         \/ \E S \in SUBSET Keys : Restore(S)

Next == \/ \E k \in Keys : Track(k)
        \/ Flush
        \/ \E requested \in BOOLEAN : WorkerFlushes(requested)
        \/ WorkerStops \/ CloseStops \/ CloseFlushes
        \/ \E E \in SUBSET Keys : Purge(E)

\* The ticker fires, database calls return, and a select whose branches are
\* ready again and again takes each of them at some time.
Fairness == /\ WF_vars(Flush)
            /\ WF_vars(\E requested \in BOOLEAN : WorkerFlushes(requested))
            /\ SF_vars(WorkerStops)
            /\ WF_vars(CloseFlushes)

Spec == Init /\ [][Next]_vars /\ Fairness
-----------------------------------------------------------------------------
(* Properties.                                                             *)

Types ==
  /\ pending \in Tally /\ batch \in Tally /\ table \in Tally
  /\ dropped \in Tally /\ droppedReported \in Tally /\ written \in Tally
  /\ purged \in Tally /\ tracked \in Tally
  /\ flushNow \in BOOLEAN
  /\ flush \in {"none", "detect", "report", "write", "count", "restore"}
  /\ worker \in {"select", "flushing", "stopped"}
  /\ closer \in {"open", "stopping", "flushing", "closed"}
  /\ raised \subseteq Alerts /\ blind \subseteq Keys

\* Flush is idle, with an empty hand, unless the worker or Close is in it.
Phase ==
  /\ flush = "none" <=> (worker # "flushing" /\ closer # "flushing")
  /\ closer \in {"flushing", "closed"} => worker = "stopped"
  /\ flush = "none" => batch = None

\* Every variable has its type, and the worker and Close are never both in Flush,
\* whose batch is theirs alone without a lock: Close waits for the worker.
TypeOK == Types /\ Phase

\* The buffer never exceeds the ceiling, whatever is tracked while a batch that
\* will be folded back is out.
BufferBounded == Cardinality(entries(pending)) <= MaxPendingEvents

\* What Flush has in hand and has not written.
inHand == IF flush \in {"detect", "report", "write", "restore"} THEN batch ELSE None
stored == Plus(table, purged)

\* Through swaps, failed writes, merges and drops every event is waiting, is on
\* record or was counted as dropped, and is none of these twice: the auditor
\* keeps the books that Ledger describes.
Books == INSTANCE Ledger WITH received <- tracked, waiting <- Plus(pending, inHand),
                              recorded <- stored, lost <- dropped
BooksKept == Books!Spec

\* Stats never reports more written events than there are rows for, and once
\* Flush is over as many.
WrittenIsStored ==
  stored = IF flush = "count" THEN Plus(written, batch) ELSE written

\* The ceiling holds and the written counter tells the truth, also between a write
\* and the fold that follows it.
CountersTrue == BufferBounded /\ WrittenIsStored

\* An address with a successful sign-in on record was reported when it was new,
\* unless its lookup failed: detection comes before the insert, also for a batch
\* that was folded back.
NewSourceAlerted ==
  \A k \in Successes :
    (AlertOnNewIP /\ stored[k] > 0 /\ IpOf[k] # NoIP)
      => \/ [what |-> "new_source", ip |-> IpOf[k]] \in raised
         \/ \E s \in blind \cap Successes : IpOf[s] = IpOf[k]

\* Failures that reach the threshold, over however many batches, were reported
\* as a brute force, unless a query failed.
RepeatedFailureAlerted ==
  \A k \in Failures :
    (AlertOnFailure /\ table[k] >= BruteForceThreshold /\ IpOf[k] # NoIP)
      => \/ [what |-> "bruteforce", ip |-> IpOf[k]] \in raised
         \/ k \in blind

\* A brute force is only reported for an address that failed often enough: a
\* batch that was restored or written is not counted twice.
BruteForceDeserved ==
  \A ip \in IPs :
    [what |-> "bruteforce", ip |-> ip] \in raised
      => SumFunctionOnSet(tracked, {k \in Failures : IpOf[k] = ip})
           >= BruteForceThreshold

\* A hole in the log is told: the dropped count is reported as long as the
\* auditor runs, whether or not the database works.
DropsReported ==
  (dropped # droppedReported) ~> (dropped = droppedReported \/ closer # "open")

\* Close returns.
CloseTerminates == (closer # "open") ~> (closer = "closed")

\* README.md: "5 failures from one source inside 10 minutes" escalate.
SourceEscalates ==
  \A ip \in IPs :
    (AlertOnFailure /\ recentFailures(ip) >= BruteForceThreshold)
      => \/ [what |-> "bruteforce", ip |-> ip] \in raised
         \/ \E k \in blind : IpOf[k] = ip
=============================================================================
