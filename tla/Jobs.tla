-------------------------------- MODULE Jobs --------------------------------
(***************************************************************************)
(* One cron job of core/jobs: the wrapper the scheduler runs, the manual   *)
(* execution, the removal, and the logger they share: activeJobs (an entry *)
(* per job, not per execution), the buffer that takes a log whose start    *)
(* could not be saved, and the worker that flushes it.  Beside the server  *)
(* other commands of its binary boot on the same database; each boot reads *)
(* the rows that say "started" and then makes timeouts of them, one save   *)
(* after the other.                                                        *)
(*                                                                         *)
(* The rows of _job_logs are named by the execution whose start made them. *)
(* Left out: retention (rows older than 72 hours, or than                  *)
(* LogsLookbackDays), output and durations, the limit of 1000 rows in      *)
(* markOrphanedJobsAsTimeout, and its order (latest first: any order       *)
(* here).  A lookup of the collection that fails is a save that fails.     *)
(***************************************************************************)
EXTENDS Integers, FiniteSets

CONSTANTS
  Scheduled,    \* the executions of the wrapper, each runs at most once
  Manual,       \* the calls of ExecuteJobManually
  Commands,     \* the other processes that boot on the database, one or more
                \* times each
  Server,       \* the boot of the server, beside Commands
  Outcomes,     \* how the job function may end: it returns, it calls
                \* ExecutionLogger.Fail and returns, or it panics
  None,         \* no entry, no row
  BatchSize,    \* Logger.batchSize
  MaxRefused,   \* bound on the executions with a log write refused by the logger
  MaxBoots      \* bound on the starts of the server

Execs == Scheduled \cup Manual
Boots == Commands \cup {Server}
Statuses == {"started", "completed", "failed", "timeout"}
Entry == [run : Execs, saved : BOOLEAN]

ASSUME JobsAssumption ==
  /\ Scheduled \cap Manual = {} /\ None \notin Execs \cup Statuses \cup Entry
  /\ Outcomes \subseteq {"returned", "gave up", "panicked"}
  /\ "returned" \in Outcomes /\ None \notin Outcomes /\ Server \notin Commands
  /\ IsFiniteSet(Execs)
  /\ BatchSize \in Nat \ {0} /\ MaxRefused \in Nat /\ MaxBoots \in Nat

VARIABLES
  server, boots,    \* the state of the server, and how often it started
  inCron,           \* the scheduler has the job
  registered,       \* Manager.registry has it
  pc,               \* where each execution is
  logs,             \* executions that keep a log (~alreadyLogged)
  inner,            \* the wrapper that a manual execution waits for
  outcome,          \* how the job function ended
  active,           \* activeJobs[jobID]: the execution, and whether its row exists
  table,            \* the status of each row
  buffer, flushing, \* Logger.buffer; toFlush of flushBuffer
  flushAsked,       \* flushChan holds a request
  flushDue,         \* the worker has received one and not yet taken the buffer
  orphans,          \* what each boot read as started and has still to save
  alerted,          \* history: executions that alerted
  overlapped,       \* history: executions that ran beside another
  refused,          \* history: executions with a log write refused
  lost,             \* history: logs that the flush could not save
  misread           \* history: executions not dead whose row a command read as
                    \* started

process == <<server, boots, inCron, registered>>
logger == <<active, table, buffer, flushing, flushAsked, flushDue, refused, lost>>
sweeps == <<orphans, misread>>
vars == <<process, pc, logs, inner, outcome, logger, sweeps, alerted, overlapped>>

up == server = "up"

Log == [run : Execs, status : {"completed", "failed"}]

Over == {"idle", "done", "dead"}

\* Whether the database takes a write about the row of e.
Write(e) == IF e \in refused \/ Cardinality(refused) < MaxRefused
            THEN BOOLEAN ELSE {TRUE}

Init ==
  /\ server = "down" /\ boots = 0
  /\ inCron = FALSE /\ registered = FALSE
  /\ pc = [e \in Execs |-> "idle"] /\ logs = {}
  /\ inner = [e \in Manual |-> None] /\ outcome = [e \in Execs |-> None]
  /\ active = None /\ table = [e \in Execs |-> None]
  /\ buffer = {} /\ flushing = {} /\ flushAsked = FALSE /\ flushDue = FALSE
  /\ orphans = [b \in Boots |-> {}]
  /\ alerted = {} /\ overlapped = {} /\ refused = {} /\ lost = {} /\ misread = {}
-----------------------------------------------------------------------------
(* The logger.                                                             *)

\* saveRecord succeeds or not; the new entry takes the place of any other.
LogJobStart(e) ==
  \E saved \in Write(e) :
    /\ active' = [run |-> e, saved |-> saved]
    /\ table' = IF saved THEN [table EXCEPT ![e] = "started"] ELSE table
    /\ refused' = IF saved THEN refused ELSE refused \cup {e}
    /\ UNCHANGED <<buffer, flushing, flushAsked, flushDue, lost>>

\* Mutant: a failed execution leaves its entry behind.
LogJobCompleteKeepsFailed(status) ==
  IF active = None THEN UNCHANGED logger
  ELSE /\ active' = IF status = "failed" THEN active ELSE None
       /\ table' = IF active.saved THEN [table EXCEPT ![active.run] = status]
                   ELSE table
       /\ buffer' = IF active.saved THEN buffer
                    ELSE buffer \cup {[run |-> active.run, status |-> status]}
       /\ flushAsked' = (flushAsked \/ Cardinality(buffer') >= BatchSize)
       /\ UNCHANGED <<flushing, flushDue, refused, lost>>

\* LogJobComplete finishes whichever entry the job has now, if it has one.
LogJobComplete(status) ==
  IF active = None THEN UNCHANGED logger
  ELSE /\ active' = None
       /\ IF active.saved
          THEN \E ok \in Write(active.run) :
                 /\ table' = IF ok THEN [table EXCEPT ![active.run] = status]
                             ELSE table
                 /\ refused' = IF ok THEN refused ELSE refused \cup {active.run}
                 /\ UNCHANGED <<buffer, flushAsked>>
          ELSE /\ buffer' = buffer \cup {[run |-> active.run, status |-> status]}
               /\ flushAsked' = (flushAsked \/ Cardinality(buffer') >= BatchSize)
               /\ UNCHANGED <<table, refused>>
       /\ UNCHANGED <<flushing, flushDue, lost>>

\* The timer asks for a flush when something is buffered.  A request while one
\* is queued is dropped.
FlushTimer ==
  /\ up /\ buffer # {} /\ flushAsked' = TRUE
  /\ UNCHANGED <<process, pc, logs, inner, outcome, active, table, buffer,
                 flushing, flushDue, refused, lost, sweeps, alerted, overlapped>>

\* ForceFlush asks at any time.
ForceFlush ==
  /\ up /\ flushAsked' = TRUE
  /\ UNCHANGED <<process, pc, logs, inner, outcome, active, table, buffer,
                 flushing, flushDue, refused, lost, sweeps, alerted, overlapped>>

\* The worker, not flushing, receives a request, which makes room for the next ...
ReceiveRequest ==
  /\ up /\ flushAsked /\ ~flushDue /\ flushing = {}
  /\ flushAsked' = FALSE /\ flushDue' = TRUE
  /\ UNCHANGED <<process, pc, logs, inner, outcome, active, table, buffer,
                 flushing, refused, lost, sweeps, alerted, overlapped>>

\* ... takes the buffer, which may have grown or gone meanwhile ...
TakeBuffer ==
  /\ up /\ flushDue
  /\ flushDue' = FALSE /\ flushing' = buffer /\ buffer' = {}
  /\ UNCHANGED <<process, pc, logs, inner, outcome, active, table, flushAsked,
                 refused, lost, sweeps, alerted, overlapped>>

\* Mutant: the buffer is emptied by the end of the flush instead.
FlushLogThenEmpty(log) ==
  /\ up /\ log \in flushing /\ flushing' = flushing \ {log}
  /\ table' = [table EXCEPT ![log.run] = log.status]
  /\ buffer' = IF flushing' = {} THEN {} ELSE buffer
  /\ UNCHANGED <<process, pc, logs, inner, outcome, active, flushAsked, flushDue,
                 refused, lost, sweeps, alerted, overlapped>>

\* ... and makes a row of each log; one that is refused is gone.
FlushLog(log) ==
  /\ up /\ log \in flushing /\ flushing' = flushing \ {log}
  /\ \E ok \in Write(log.run) :
       /\ table' = IF ok THEN [table EXCEPT ![log.run] = log.status] ELSE table
       /\ refused' = IF ok THEN refused ELSE refused \cup {log.run}
       /\ lost' = IF ok THEN lost ELSE lost \cup {log}
  /\ UNCHANGED <<process, pc, logs, inner, outcome, active, buffer, flushAsked,
                 flushDue, sweeps, alerted, overlapped>>

\* Mutant: every row that is not a success is taken for an orphan.
readUnsuccessful(b) ==
  orphans' = [orphans EXCEPT ![b] = {e \in Execs : table[e] \in {"started", "failed"}}]

\* markOrphanedJobsAsTimeout reads the rows that say "started" ...
readStarted(b) ==
  orphans' = [orphans EXCEPT ![b] = {e \in Execs : table[e] = "started"}]

\* ... and saves each of them, whatever it says by then; an error is logged only.
\* A save that fails, or that the end of the process forgoes, changes nothing.
markOrphan(b, e) ==
  /\ e \in orphans[b] /\ orphans' = [orphans EXCEPT ![b] = @ \ {e}]
  /\ \E ok \in BOOLEAN :
       table' = IF ok THEN [table EXCEPT ![e] = "timeout"] ELSE table
  /\ UNCHANGED <<process, pc, logs, inner, outcome, active, buffer, flushing,
                 flushAsked, flushDue, refused, lost, misread, alerted, overlapped>>
-----------------------------------------------------------------------------
(* Executions.                                                             *)

\* e starts: whatever is under way runs beside it, but for its own caller.
Meets(e, caller) ==
  LET others == {x \in Execs \ {e} : pc[x] \notin Over} \ {caller}
  IN overlapped' = IF others = {} THEN overlapped
                   ELSE overlapped \cup others \cup {e}

\* The wrapper reads activeJobs; it keeps a log unless the job has an entry.
StartWrapper(e, caller) ==
  /\ pc[e] = "idle" /\ Meets(e, caller)
  /\ IF active = None THEN logs' = logs \cup {e} ELSE UNCHANGED logs

\* The scheduler runs the job when it is due, whatever else runs it.
Tick(e) ==
  /\ up /\ inCron /\ StartWrapper(e, None)
  /\ pc' = [pc EXCEPT ![e] = IF active = None THEN "starting" ELSE "running"]
  /\ UNCHANGED <<process, inner, outcome, logger, sweeps, alerted>>

\* ExecuteJobManually finds the job in the scheduler, then its metadata.
FindJob(e) ==
  /\ up /\ inCron /\ pc[e] = "idle" /\ Meets(e, None)
  /\ pc' = [pc EXCEPT ![e] = "found"] /\ logs' = logs \cup {e}
  /\ UNCHANGED <<process, inner, outcome, logger, sweeps, alerted>>

FindMetadata(e) ==
  /\ pc[e] = "found"
  /\ pc' = [pc EXCEPT ![e] = IF registered THEN "starting" ELSE "bare"]
  /\ UNCHANGED <<process, logs, inner, outcome, logger, sweeps, alerted, overlapped>>

\* The start is logged in a critical section of its own.
Start(e) ==
  /\ pc[e] \in {"starting", "bare"} /\ LogJobStart(e)
  /\ pc' = [pc EXCEPT ![e] = IF @ = "bare" THEN "calling" ELSE "running"]
  /\ UNCHANGED <<process, logs, inner, outcome, sweeps, alerted, overlapped>>

\* Without metadata the manual execution runs what the scheduler holds: the
\* wrapper.
CallWrapper(e, w) ==
  /\ pc[e] = "calling" /\ StartWrapper(w, e)
  /\ pc' = [pc EXCEPT ![e] = "waiting",
                      ![w] = IF active = None THEN "starting" ELSE "running"]
  /\ inner' = [inner EXCEPT ![e] = w]
  /\ UNCHANGED <<process, outcome, logger, sweeps, alerted>>

WrapperReturns(e) ==
  /\ pc[e] = "waiting" /\ pc[inner[e]] = "done"
  /\ pc' = [pc EXCEPT ![e] = "ended"]
  /\ outcome' = [outcome EXCEPT ![e] = "returned"]
  /\ UNCHANGED <<process, logs, inner, logger, sweeps, alerted, overlapped>>

\* The job function ends.
Finish(e, how) ==
  /\ pc[e] = "running" /\ pc' = [pc EXCEPT ![e] = "ended"]
  /\ outcome' = [outcome EXCEPT ![e] = how]
  /\ UNCHANGED <<process, logs, inner, logger, sweeps, alerted, overlapped>>

\* Mutant: what recover() returned does not reach the caller.
statusOfSwallowed(e) == "completed"

\* errorMsg is set by a recovered panic only.
status(e) == IF outcome[e] = "panicked" THEN "failed" ELSE "completed"

LogEnd(e) ==
  /\ pc[e] = "ended" /\ e \in logs /\ LogJobComplete(status(e))
  /\ pc' = [pc EXCEPT ![e] = IF e \in Scheduled THEN "logged" ELSE "done"]
  /\ UNCHANGED <<process, logs, inner, outcome, sweeps, alerted, overlapped>>

\* The wrapper alerts when there is an errorMsg, logged or not.
Report(e) ==
  /\ pc[e] = "logged" \/ (pc[e] = "ended" /\ e \notin logs)
  /\ alerted' = IF outcome[e] = "panicked" THEN alerted \cup {e} ELSE alerted
  /\ pc' = [pc EXCEPT ![e] = "done"]
  /\ UNCHANGED <<process, logs, inner, outcome, logger, sweeps, overlapped>>
-----------------------------------------------------------------------------
(* The process.                                                            *)

\* The server boots: the logger reads and marks the orphans ...
Boot ==
  /\ server = "down" /\ boots < MaxBoots /\ boots' = boots + 1
  /\ server' = "booting" /\ readStarted(Server)
  /\ UNCHANGED <<inCron, registered, pc, logs, inner, outcome, logger, misread,
                 alerted, overlapped>>

\* ... then the job is registered: RegisterJob fills the registry before the
\* scheduler, which runs nothing yet.
Register ==
  /\ server = "booting" /\ orphans[Server] = {} /\ server' = "up"
  /\ registered' = TRUE /\ inCron' = TRUE
  /\ UNCHANGED <<boots, pc, logs, inner, outcome, logger, sweeps, alerted,
                 overlapped>>

\* Another command of the same binary bootstraps on the same database, whatever
\* the server does.
OtherCommand(b) ==
  /\ orphans[b] = {} /\ readStarted(b) /\ orphans' # orphans
  /\ misread' = misread \cup {e \in orphans'[b] : pc[e] # "dead"}
  /\ UNCHANGED <<process, pc, logs, inner, outcome, logger, alerted, overlapped>>

\* The process ends, by crash or by shutdown: no hook of this package runs.
\* What the history says of the executions it takes along is dropped.
Stop ==
  LET kept == {e \in Execs : pc[e] = "done"}
  IN /\ server # "down" /\ server' = "down"
     /\ inCron' = FALSE /\ registered' = FALSE
     /\ pc' = [e \in Execs |-> IF pc[e] \in Over THEN pc[e] ELSE "dead"]
     /\ outcome' = [e \in Execs |-> IF e \in kept THEN outcome[e] ELSE None]
     /\ inner' = [e \in Manual |-> IF e \in kept THEN inner[e] ELSE None]
     /\ logs' = logs \cap kept /\ overlapped' = overlapped \cap kept
     /\ refused' = refused \cap kept /\ misread' = misread \cap kept
     /\ active' = None /\ buffer' = {} /\ flushing' = {} /\ lost' = {}
     /\ flushAsked' = FALSE /\ flushDue' = FALSE
     /\ orphans' = [orphans EXCEPT ![Server] = {}]
     /\ UNCHANGED <<boots, table, alerted>>

\* RemoveJob leaves the scheduler, then the registry.
RemoveFromCron ==
  /\ up /\ inCron /\ inCron' = FALSE
  /\ UNCHANGED <<server, boots, registered, pc, logs, inner, outcome, logger,
                 sweeps, alerted, overlapped>>

RemoveFromRegistry ==
  /\ registered /\ ~inCron /\ registered' = FALSE
  /\ UNCHANGED <<server, boots, inCron, pc, logs, inner, outcome, logger, sweeps,
                 alerted, overlapped>>

Flusher == ReceiveRequest \/ TakeBuffer \/ \E log \in Log : FlushLog(log)

Next ==
  \/ \E e \in Scheduled : Tick(e) \/ Report(e)
  \/ \E e \in Manual : FindJob(e) \/ FindMetadata(e) \/ WrapperReturns(e)
  \/ \E e \in Manual, w \in Scheduled : CallWrapper(e, w)
  \/ \E e \in Execs : Start(e) \/ LogEnd(e)
  \/ \E e \in Execs, how \in Outcomes : Finish(e, how)
  \/ Boot \/ Register \/ Stop \/ RemoveFromCron \/ RemoveFromRegistry
  \/ \E b \in Commands : OtherCommand(b)
  \/ \E b \in Boots, e \in Execs : markOrphan(b, e)
  \/ FlushTimer \/ ForceFlush \/ Flusher

\* The timer and the flush worker are goroutines of the running process.
Fairness ==
  /\ WF_vars(FlushTimer) /\ WF_vars(ReceiveRequest) /\ WF_vars(TakeBuffer)
  /\ WF_vars(\E log \in Log : FlushLog(log))

Spec == Init /\ [][Next]_vars /\ Fairness
-----------------------------------------------------------------------------
(* Properties.                                                             *)

\* Every variable has its type.
TypeOK ==
  /\ server \in {"down", "booting", "up"} /\ boots \in 0..MaxBoots
  /\ inCron \in BOOLEAN /\ registered \in BOOLEAN
  /\ pc \in [Execs -> {"idle", "found", "bare", "starting", "calling", "waiting",
                       "running", "ended", "logged", "done", "dead"}]
  /\ logs \subseteq Execs /\ inner \in [Manual -> Scheduled \cup {None}]
  /\ outcome \in [Execs -> Outcomes \cup {None}]
  /\ active \in Entry \cup {None} /\ table \in [Execs -> Statuses \cup {None}]
  /\ buffer \subseteq Log /\ flushing \subseteq Log
  /\ flushAsked \in BOOLEAN /\ flushDue \in BOOLEAN
  /\ orphans \in [Boots -> SUBSET Execs] /\ misread \subseteq Execs
  /\ lost \subseteq Log /\ alerted \subseteq Execs /\ overlapped \subseteq Execs /\ refused \subseteq Execs

\* The entry of activeJobs belongs to an execution that has still to log its
\* end.  One left behind would make every later run of the wrapper skip its log.
ActiveEntryEnds ==
  active # None =>
    active.run \in logs /\ pc[active.run] \in {"running", "calling", "waiting", "ended"}

\* An execution that ran alone, its writes accepted, leaves the row it earned, but
\* for a command that booted while it ran: that makes a timeout of it.
RunAloneIsRecorded ==
  \A e \in logs \ (overlapped \cup refused) :
    pc[e] \in {"logged", "done"} =>
      \/ table[e] = IF outcome[e] = "panicked" THEN "failed" ELSE "completed"
      \/ table[e] = "timeout" /\ e \in misread

\* A panic in the scheduled job alerts, also when a manual execution holds the
\* log of the job, and nothing else alerts.
PanicsAlert ==
  \A e \in Scheduled :
    pc[e] = "done" => (e \in alerted <=> outcome[e] = "panicked")

\* What becomes of an execution is told: by its row, and by an alert if it
\* panicked, whatever runs beside it.
EndIsTold == RunAloneIsRecorded /\ PanicsAlert

\* A row that says how an execution ended is written by nobody (not by the
\* execution it overlapped with, not by the flush, not by a boot that begins
\* later) but a command that read it before: to that it is still an orphan.
FinalRowStays ==
  [][\A e \in Execs :
       table[e] \in {"completed", "failed"} /\ table'[e] # table[e] =>
         table'[e] = "timeout" /\ \E b \in Commands : e \in orphans[b]]_vars

\* A buffered log reaches its row, or is refused by the database, while the server
\* is up: no log that joins a flush under way, and no request, is lost.
LogIsFlushed ==
  \A log \in Log :
    log \in buffer ~> table[log.run] = log.status \/ log \in lost \/ ~up

\* logger.go: a boot makes timeouts of rows stuck in "started".
OnlyStartedTimesOut ==
  [][\A e \in Execs :
       table[e] \in {"completed", "failed"} => table'[e] # "timeout"]_vars

\* README: a cron job that returns an error or panics is reported.
FailedJobAlerts ==
  \A e \in Scheduled :
    pc[e] = "done" /\ outcome[e] \in {"gave up", "panicked"} => e \in alerted

\* logger.go: a timeout means that the server stopped while the job was running.
TimeoutMeansStopped == \A e \in Execs : table[e] = "timeout" => pc[e] = "dead"
=============================================================================
