----------------------------- MODULE JobsProofs -----------------------------
(***************************************************************************)
(* Theorems about Jobs.  The inductive invariant Inv says what the logger  *)
(* never states: the entry of activeJobs belongs to an execution that has  *)
(* not logged its end, an execution has a row or one buffered log but not  *)
(* both, and none of either before it starts; and what a boot has still to *)
(* mark: rows that exist, and for the server's own boot rows that nobody   *)
(* else writes, for nothing runs yet.                                      *)
(* TellInv says who may run beside whom: two executions under way overlap, *)
(* unless one is the wrapper the other called, and one that runs alone     *)
(* holds the entry from its start to its end.                              *)
(***************************************************************************)
EXTENDS Jobs, TLAPS

Waiting == buffer \cup flushing
Early == {"idle", "found", "starting", "bare"}

\* An execution that goes on to log its start keeps a log.
Logging ==
  \A e \in Execs :
    pc[e] \in {"found", "bare", "starting", "calling", "waiting"} => e \in logs

\* Before its start is logged an execution has left no trace.
Fresh ==
  \A e \in Execs :
    pc[e] \in Early => table[e] = None /\ \A log \in Waiting : log.run # e

\* The row of the entry, if it has one, is open; if not, nothing waits for it.
ActiveRow ==
  active # None =>
    IF active.saved THEN table[active.run] \in {"started", "timeout"}
    ELSE table[active.run] = None /\ \A log \in Waiting : log.run # active.run

\* A waiting log has no row, and is the only one of its execution.
Apart ==
  /\ \A log \in Waiting : table[log.run] = None
  /\ \A l1, l2 \in Waiting : l1.run = l2.run => l1 = l2
  /\ buffer \cap flushing = {}

\* The worker that received a request has nothing left to save.
OneFlush == flushDue => flushing = {}

Live(e) == pc[e] \notin Over

\* Nothing runs and nothing waits for the database unless the server is up.
Quiet == ~up => active = None /\ Waiting = {} /\ \A e \in Execs : ~Live(e)

\* A boot marks rows that exist.  What the server's boot marks is open, and stays so:
\* the server is not up; what a command marks and is not dead, is known as misread.
Orphaned ==
  /\ \A b \in Boots : \A e \in orphans[b] : table[e] # None
  /\ orphans[Server] # {} => server = "booting"
  /\ \A e \in orphans[Server] : table[e] \in {"started", "timeout"}
  /\ \A b \in Commands : \A e \in orphans[b] : pc[e] # "dead" => e \in misread

Inv == /\ TypeOK /\ Logging /\ ActiveEntryEnds
       /\ Fresh /\ ActiveRow /\ Apart /\ OneFlush
       /\ Quiet /\ Orphaned

-----------------------------------------------------------------------------
(* Types.                                                                  *)

LEMMA BootsBounded == MaxBoots \in Nat
BY JobsAssumption

LEMMA LogsAreTyped ==
  ASSUME TypeOK, NEW e \in Execs, LogJobComplete(status(e))
  PROVE  /\ active' \in Entry \cup {None} /\ table' \in [Execs -> Statuses \cup {None}]
         /\ buffer' \subseteq Log /\ flushing' \subseteq Log
         /\ flushAsked' \in BOOLEAN /\ flushDue' \in BOOLEAN
         /\ refused' \subseteq Execs /\ lost' \subseteq Log
<1>1. status(e) \in {"completed", "failed"}
  BY DEF status
<1>2. CASE active = None
  BY <1>2 DEF LogJobComplete, logger, TypeOK
<1>3. CASE active # None
  <2>1. active \in Entry /\ active.run \in Execs
    BY <1>3 DEF TypeOK, Entry
  <2>2. CASE active.saved
    BY <1>1, <1>3, <2>1, <2>2 DEF LogJobComplete, TypeOK, Statuses
  <2>3. CASE ~active.saved
    BY <1>1, <1>3, <2>1, <2>3 DEF LogJobComplete, TypeOK, Log
  <2> QED BY <2>2, <2>3
<1> QED BY <1>2, <1>3

LEMMA TypeStep == TypeOK /\ [Next]_vars => TypeOK'
<1> SUFFICES ASSUME TypeOK, [Next]_vars PROVE TypeOK'
  OBVIOUS
<1> USE JobsAssumption DEF Execs
<1>1. ASSUME NEW e \in Scheduled, Tick(e) PROVE TypeOK'
  BY <1>1 DEF Tick, StartWrapper, Meets, TypeOK, process, logger, sweeps
<1>2. ASSUME NEW e \in Scheduled, Report(e) PROVE TypeOK'
  BY <1>2 DEF Report, TypeOK, process, logger, sweeps
<1>3. ASSUME NEW e \in Manual, FindJob(e) PROVE TypeOK'
  BY <1>3 DEF FindJob, Meets, TypeOK, process, logger, sweeps
<1>4. ASSUME NEW e \in Manual, FindMetadata(e) PROVE TypeOK'
  BY <1>4 DEF FindMetadata, TypeOK, process, logger, sweeps
<1>5. ASSUME NEW e \in Manual, WrapperReturns(e) PROVE TypeOK'
  BY <1>5 DEF WrapperReturns, TypeOK, process, logger, sweeps
<1>6. ASSUME NEW e \in Manual, NEW w \in Scheduled, CallWrapper(e, w) PROVE TypeOK'
  BY <1>6 DEF CallWrapper, StartWrapper, Meets, TypeOK, process, logger, sweeps
<1>7. ASSUME NEW e \in Execs, Start(e) PROVE TypeOK'
  <2>1. PICK saved \in BOOLEAN :
          /\ active' = [run |-> e, saved |-> saved]
          /\ table' = IF saved THEN [table EXCEPT ![e] = "started"] ELSE table
          /\ refused' = IF saved THEN refused ELSE refused \cup {e}
          /\ UNCHANGED <<buffer, flushing, flushAsked, flushDue, lost>>
    BY <1>7 DEF Start, LogJobStart, Write
  <2>2. active' \in Entry
    BY <2>1 DEF Entry
  <2>3. table' \in [Execs -> Statuses \cup {None}] /\ refused' \subseteq Execs
    BY <2>1 DEF TypeOK, Statuses
  <2>4. pc' = [pc EXCEPT ![e] = IF @ = "bare" THEN "calling" ELSE "running"]
    BY <1>7 DEF Start
  <2>5. pc' \in [Execs -> {"idle", "found", "bare", "starting", "calling", "waiting",
                          "running", "ended", "logged", "done", "dead"}]
    BY <2>4 DEF TypeOK
  <2> QED BY <1>7, <2>1, <2>2, <2>3, <2>5 DEF Start, TypeOK, process, sweeps
<1>8. ASSUME NEW e \in Execs, LogEnd(e) PROVE TypeOK'
  <2>1. /\ active' \in Entry \cup {None} /\ table' \in [Execs -> Statuses \cup {None}]
        /\ buffer' \subseteq Log /\ flushing' \subseteq Log
        /\ flushAsked' \in BOOLEAN /\ flushDue' \in BOOLEAN
        /\ refused' \subseteq Execs /\ lost' \subseteq Log
    BY <1>8, LogsAreTyped DEF LogEnd
  <2> QED BY <1>8, <2>1 DEF LogEnd, TypeOK, process, sweeps
<1>9. ASSUME NEW e \in Execs, NEW how \in Outcomes, Finish(e, how) PROVE TypeOK'
  BY <1>9 DEF Finish, TypeOK, process, logger, sweeps
<1>10. CASE Boot
  <2>1. orphans' \in [Boots -> SUBSET Execs]
    BY <1>10 DEF Boot, readStarted, Boots, TypeOK
  <2>2. boots' \in 0..MaxBoots
    <3> HIDE JobsAssumption
    <3> QED BY <1>10, BootsBounded DEF Boot, TypeOK
  <2> QED BY <1>10, <2>1, <2>2 DEF Boot, TypeOK, logger
<1>11. CASE Register
  BY <1>11 DEF Register, TypeOK, logger, sweeps
<1>12. ASSUME NEW b \in Commands, OtherCommand(b) PROVE TypeOK'
  <2>1. orphans' \in [Boots -> SUBSET Execs] /\ misread' \subseteq Execs
    BY <1>12 DEF OtherCommand, readStarted, Boots, TypeOK
  <2> QED BY <1>12, <2>1 DEF OtherCommand, TypeOK, process, logger
<1>13. ASSUME NEW b \in Boots, NEW e \in Execs, markOrphan(b, e) PROVE TypeOK'
  <2>1. orphans' \in [Boots -> SUBSET Execs]
    BY <1>13 DEF markOrphan, TypeOK
  <2>2. table' \in [Execs -> Statuses \cup {None}]
    BY <1>13 DEF markOrphan, Statuses, TypeOK
  <2> QED BY <1>13, <2>1, <2>2 DEF markOrphan, TypeOK, process
<1>14. CASE Stop
  BY <1>14 DEF Stop, Over, Boots, TypeOK
<1>15. CASE RemoveFromCron \/ RemoveFromRegistry
  BY <1>15 DEF RemoveFromCron, RemoveFromRegistry, TypeOK, logger, sweeps
<1>16. CASE FlushTimer \/ ForceFlush \/ ReceiveRequest \/ TakeBuffer
  BY <1>16 DEF FlushTimer, ForceFlush, ReceiveRequest, TakeBuffer, TypeOK, process,
     sweeps
<1>17. ASSUME NEW log \in Log, FlushLog(log) PROVE TypeOK'
  <2>1. log.run \in Execs /\ log.status \in Statuses
    BY DEF Log, Statuses
  <2>2. PICK ok \in BOOLEAN :
          /\ table' = IF ok THEN [table EXCEPT ![log.run] = log.status] ELSE table
          /\ refused' = IF ok THEN refused ELSE refused \cup {log.run}
          /\ lost' = IF ok THEN lost ELSE lost \cup {log}
    BY <1>17 DEF FlushLog, Write
  <2>3. /\ table' \in [Execs -> Statuses \cup {None}]
        /\ refused' \subseteq Execs /\ lost' \subseteq Log
    BY <2>1, <2>2 DEF TypeOK
  <2> QED BY <1>17, <2>3 DEF FlushLog, TypeOK, process, sweeps
<1>18. CASE UNCHANGED vars
  BY <1>18 DEF TypeOK, vars, process, logger, sweeps
<1> QED
  BY <1>1, <1>2, <1>3, <1>4, <1>5, <1>6, <1>7, <1>8, <1>9, <1>10, <1>11, <1>12,
     <1>13, <1>14, <1>15, <1>16, <1>17, <1>18 DEF Next, Flusher

LEMMA TypeInit == Init => TypeOK
<1> SUFFICES ASSUME Init PROVE TypeOK
  OBVIOUS
<1>1. 0 \in 0..MaxBoots
  BY BootsBounded
<1> QED BY <1>1 DEF Init, TypeOK, Execs

\* Every variable keeps its type in every behaviour of the job.
THEOREM TypeCorrect == Spec => []TypeOK
<1>1. Init => TypeOK
  BY TypeInit
<1>2. TypeOK /\ [Next]_vars => TypeOK'
  BY TypeStep
<1> QED BY <1>1, <1>2, PTL DEF Spec
-----------------------------------------------------------------------------
(* The inductive invariant.                                                *)

LEMMA LoggingStep == TypeOK /\ Logging /\ [Next]_vars => Logging'
<1> SUFFICES ASSUME TypeOK, Logging, [Next]_vars, NEW x \in Execs,
                    pc'[x] \in {"found", "bare", "starting", "calling", "waiting"}
             PROVE  x \in logs'
  BY DEF Logging
<1> USE JobsAssumption DEF Execs
<1>1. ASSUME NEW e \in Scheduled, Tick(e) PROVE x \in logs'
  BY <1>1 DEF Tick, StartWrapper, TypeOK, Logging
<1>2. ASSUME NEW e \in Scheduled, Report(e) PROVE x \in logs'
  BY <1>2 DEF Report, TypeOK, Logging
<1>3. ASSUME NEW e \in Manual, FindJob(e) PROVE x \in logs'
  BY <1>3 DEF FindJob, TypeOK, Logging
<1>4. ASSUME NEW e \in Manual, FindMetadata(e) PROVE x \in logs'
  BY <1>4 DEF FindMetadata, TypeOK, Logging
<1>5. ASSUME NEW e \in Manual, WrapperReturns(e) PROVE x \in logs'
  BY <1>5 DEF WrapperReturns, TypeOK, Logging
<1>6. ASSUME NEW e \in Manual, NEW w \in Scheduled, CallWrapper(e, w) PROVE x \in logs'
  BY <1>6 DEF CallWrapper, StartWrapper, TypeOK, Logging
<1>7. ASSUME NEW e \in Execs, Start(e) PROVE x \in logs'
  BY <1>7 DEF Start, TypeOK, Logging
<1>8. ASSUME NEW e \in Execs, LogEnd(e) PROVE x \in logs'
  BY <1>8 DEF LogEnd, TypeOK, Logging
<1>9. ASSUME NEW e \in Execs, NEW how \in Outcomes, Finish(e, how) PROVE x \in logs'
  BY <1>9 DEF Finish, TypeOK, Logging
<1>10. CASE Stop
  BY <1>10 DEF Stop, Over, TypeOK, Logging
<1>11. CASE UNCHANGED <<pc, logs>>
  BY <1>11 DEF Logging
<1> QED
  BY <1>1, <1>2, <1>3, <1>4, <1>5, <1>6, <1>7, <1>8, <1>9, <1>10, <1>11
  DEF Next, Flusher, Boot, Register, OtherCommand, markOrphan, RemoveFromCron,
      RemoveFromRegistry, FlushTimer, ForceFlush, ReceiveRequest,
      TakeBuffer, FlushLog, vars

LEMMA EntryStep ==
  TypeOK /\ Logging /\ ActiveEntryEnds /\ [Next]_vars => ActiveEntryEnds'
<1> SUFFICES ASSUME TypeOK, Logging, ActiveEntryEnds, [Next]_vars, active' # None
             PROVE  /\ active'.run \in logs'
                    /\ pc'[active'.run] \in {"running", "calling", "waiting", "ended"}
  BY DEF ActiveEntryEnds
<1> DEFINE Goal == /\ active'.run \in logs'
                   /\ pc'[active'.run] \in {"running", "calling", "waiting", "ended"}
<1> USE JobsAssumption DEF Execs
<1>0. ASSUME active' = active
      PROVE  /\ active.run \in Execs /\ active.run \in logs
             /\ pc[active.run] \in {"running", "calling", "waiting", "ended"}
  BY <1>0 DEF ActiveEntryEnds, TypeOK
<1>1. ASSUME NEW e \in Scheduled, Tick(e) PROVE Goal
  BY <1>0, <1>1 DEF Tick, StartWrapper, TypeOK, logger
<1>2. ASSUME NEW e \in Scheduled, Report(e) PROVE Goal
  BY <1>0, <1>2 DEF Report, TypeOK, logger
<1>3. ASSUME NEW e \in Manual, FindJob(e) PROVE Goal
  BY <1>0, <1>3 DEF FindJob, TypeOK, logger
<1>4. ASSUME NEW e \in Manual, FindMetadata(e) PROVE Goal
  BY <1>0, <1>4 DEF FindMetadata, TypeOK, logger
<1>5. ASSUME NEW e \in Manual, WrapperReturns(e) PROVE Goal
  BY <1>0, <1>5 DEF WrapperReturns, TypeOK, logger
<1>6. ASSUME NEW e \in Manual, NEW w \in Scheduled, CallWrapper(e, w) PROVE Goal
  BY <1>0, <1>6 DEF CallWrapper, StartWrapper, TypeOK, logger
<1>7. ASSUME NEW e \in Execs, Start(e) PROVE Goal
  <2>0. PICK saved \in BOOLEAN : active' = [run |-> e, saved |-> saved]
    BY <1>7 DEF Start, LogJobStart, Write
  <2>1. active'.run = e
    BY <2>0
  <2>2. e \in logs /\ logs' = logs
    BY <1>7 DEF Start, Logging
  <2>3. pc'[e] \in {"running", "calling"}
    BY <1>7 DEF Start, TypeOK
  <2> QED BY <2>1, <2>2, <2>3
<1>8. ASSUME NEW e \in Execs, LogEnd(e) PROVE Goal
  BY <1>8 DEF LogEnd, LogJobComplete, logger
<1>9. ASSUME NEW e \in Execs, NEW how \in Outcomes, Finish(e, how) PROVE Goal
  BY <1>0, <1>9 DEF Finish, TypeOK, logger
<1>10. CASE Stop
  BY <1>10 DEF Stop
<1>11. CASE UNCHANGED <<pc, logs, active>>
  BY <1>0, <1>11
<1> QED
  BY <1>1, <1>2, <1>3, <1>4, <1>5, <1>6, <1>7, <1>8, <1>9, <1>10, <1>11
  DEF Next, Flusher, Boot, Register, OtherCommand, markOrphan, RemoveFromCron,
      RemoveFromRegistry, FlushTimer, ForceFlush, ReceiveRequest,
      TakeBuffer, FlushLog, vars, logger
-----------------------------------------------------------------------------
(* The traces an execution leaves: its entry, its row, its waiting log.    *)

LEMMA EarlyStep ==
  ASSUME TypeOK, [Next]_vars, NEW x \in Execs, pc'[x] \in Early
  PROVE  pc[x] \in Early
<1> USE JobsAssumption DEF Execs, Early
<1>1. ASSUME NEW e \in Scheduled, Tick(e) PROVE pc[x] \in Early
  BY <1>1 DEF Tick, StartWrapper, TypeOK
<1>2. ASSUME NEW e \in Scheduled, Report(e) PROVE pc[x] \in Early
  BY <1>2 DEF Report, TypeOK
<1>3. ASSUME NEW e \in Manual, FindJob(e) PROVE pc[x] \in Early
  BY <1>3 DEF FindJob, TypeOK
<1>4. ASSUME NEW e \in Manual, FindMetadata(e) PROVE pc[x] \in Early
  BY <1>4 DEF FindMetadata, TypeOK
<1>5. ASSUME NEW e \in Manual, WrapperReturns(e) PROVE pc[x] \in Early
  BY <1>5 DEF WrapperReturns, TypeOK
<1>6. ASSUME NEW e \in Manual, NEW w \in Scheduled, CallWrapper(e, w)
      PROVE  pc[x] \in Early
  BY <1>6 DEF CallWrapper, StartWrapper, TypeOK
<1>7. ASSUME NEW e \in Execs, Start(e) PROVE pc[x] \in Early
  BY <1>7 DEF Start, TypeOK
<1>8. ASSUME NEW e \in Execs, LogEnd(e) PROVE pc[x] \in Early
  BY <1>8 DEF LogEnd, TypeOK
<1>9. ASSUME NEW e \in Execs, NEW how \in Outcomes, Finish(e, how)
      PROVE  pc[x] \in Early
  BY <1>9 DEF Finish, TypeOK
<1>10. CASE Stop
  BY <1>10 DEF Stop, Over, TypeOK
<1>11. CASE UNCHANGED pc
  BY <1>11
<1> QED
  BY <1>1, <1>2, <1>3, <1>4, <1>5, <1>6, <1>7, <1>8, <1>9, <1>10, <1>11
  DEF Next, Flusher, Boot, Register, OtherCommand, markOrphan, RemoveFromCron,
      RemoveFromRegistry, FlushTimer, ForceFlush, ReceiveRequest,
      TakeBuffer, FlushLog, vars

Traces == Fresh /\ ActiveRow /\ Apart

LEMMA StartTraces ==
  ASSUME Inv, [Next]_vars, NEW e \in Execs, Start(e)
  PROVE  Traces'
<1>1. PICK saved \in BOOLEAN :
        /\ active' = [run |-> e, saved |-> saved]
        /\ table' = IF saved THEN [table EXCEPT ![e] = "started"] ELSE table
        /\ UNCHANGED <<buffer, flushing>>
  BY DEF Start, LogJobStart, Write
<1>2. active'.run = e /\ active'.saved = saved
  BY <1>1
<1>3. pc[e] \in Early /\ pc'[e] \notin Early
  BY DEF Start, Early, Inv, TypeOK
<1>4. table[e] = None /\ \A log \in Waiting : log.run # e
  BY <1>3 DEF Inv, Fresh
<1>5. /\ Waiting' = Waiting
      /\ \A x \in Execs \ {e} : table'[x] = table[x]
      /\ table'[e] = IF saved THEN "started" ELSE None
  BY <1>1, <1>4 DEF Waiting, Inv, TypeOK
<1>6. \A log \in Waiting : log.run \in Execs
  BY DEF Waiting, Inv, TypeOK, Log
<1>7. Fresh'
  BY <1>3, <1>5, EarlyStep DEF Fresh, Inv
<1>8. ActiveRow'
  BY <1>2, <1>4, <1>5 DEF ActiveRow
<1>9. Apart'
  BY <1>1, <1>4, <1>5, <1>6 DEF Apart, Inv
<1> QED BY <1>7, <1>8, <1>9 DEF Traces

LEMMA LogEndTraces ==
  ASSUME Inv, [Next]_vars, NEW e \in Execs, LogEnd(e), active # None
  PROVE  Traces'
<1> USE JobsAssumption
<1>1. /\ active \in Entry /\ active.run \in Execs /\ pc[active.run] \notin Early
  BY DEF Inv, TypeOK, Entry, ActiveEntryEnds, Early
<1>2. ActiveRow'
  BY DEF LogEnd, LogJobComplete, ActiveRow
<1>3. \A log \in Waiting : log.run \in Execs
  BY DEF Waiting, Inv, TypeOK, Log
<1>4. CASE active.saved
  <2>1. /\ Waiting' = Waiting /\ buffer' = buffer /\ flushing' = flushing
        /\ \A x \in Execs \ {active.run} : table'[x] = table[x]
    BY <1>1, <1>4 DEF LogEnd, LogJobComplete, Waiting, Inv, TypeOK
  <2>2. \A log \in Waiting : log.run # active.run
    BY <1>4 DEF Inv, ActiveRow, Apart, Statuses
  <2>3. Fresh'
    BY <1>1, <2>1, EarlyStep DEF Fresh, Inv
  <2>4. Apart'
    BY <1>3, <2>1, <2>2 DEF Apart, Inv
  <2> QED BY <1>2, <2>3, <2>4 DEF Traces
<1>5. CASE ~active.saved
  <2> DEFINE new == [run |-> active.run, status |-> status(e)]
  <2>1. /\ buffer' = buffer \cup {new} /\ flushing' = flushing /\ table' = table
        /\ Waiting' = Waiting \cup {new}
    BY <1>5 DEF LogEnd, LogJobComplete, Waiting
  <2>2. new.run = active.run
    OBVIOUS
  <2>3. table[new.run] = None /\ \A log \in Waiting : log.run # new.run
    BY <1>5, <2>2 DEF Inv, ActiveRow
  <2>4. new \notin Waiting
    BY <2>3
  <2> HIDE DEF new
  <2>5. Fresh'
    BY <1>1, <2>1, <2>2, EarlyStep DEF Fresh, Inv
  <2>6. Apart'
    <3>1. \A log \in Waiting \cup {new} : table[log.run] = None
      BY <2>3 DEF Apart, Inv
    <3>2. \A l1, l2 \in Waiting \cup {new} : l1.run = l2.run => l1 = l2
      BY <2>3 DEF Apart, Inv
    <3>3. (buffer \cup {new}) \cap flushing = {}
      BY <2>4 DEF Apart, Inv, Waiting
    <3> QED BY <2>1, <3>1, <3>2, <3>3 DEF Apart
  <2> QED BY <1>2, <2>5, <2>6 DEF Traces
<1> QED BY <1>4, <1>5

LEMMA FlushLogTraces ==
  ASSUME Inv, [Next]_vars, NEW log \in Log, FlushLog(log)
  PROVE  Traces'
<1> USE JobsAssumption
<1>1. /\ log \in Waiting /\ log.run \in Execs /\ log \notin Waiting'
      /\ Waiting' \subseteq Waiting
      /\ buffer' = buffer /\ flushing' \subseteq flushing
      /\ active' = active /\ pc' = pc
  BY DEF FlushLog, Waiting, Inv, Apart, Log
<1>2. \A x \in Execs \ {log.run} : table'[x] = table[x]
  BY <1>1 DEF FlushLog, Inv, TypeOK
<1>3. table[log.run] = None
  BY <1>1 DEF Inv, Apart
<1>4. \A other \in Waiting' : other.run \in Execs /\ other.run # log.run
  <2> SUFFICES ASSUME NEW other \in Waiting'
               PROVE  other.run \in Execs /\ other.run # log.run
    OBVIOUS
  <2>1. other \in Waiting /\ other # log
    BY <1>1
  <2>2. other.run # log.run
    BY <1>1, <2>1 DEF Inv, Apart
  <2>3. other.run \in Execs
    BY <2>1 DEF Waiting, Inv, TypeOK, Log
  <2> QED BY <2>2, <2>3
<1>5. Fresh'
  BY <1>1, <1>2 DEF Fresh, Inv
<1>6. ActiveRow'
  <2> SUFFICES ASSUME active # None
               PROVE  IF active.saved THEN table'[active.run] \in {"started", "timeout"}
                      ELSE /\ table'[active.run] = None
                           /\ \A other \in Waiting' : other.run # active.run
    BY <1>1 DEF ActiveRow
  <2>1. active.run \in Execs /\ active.run # log.run
    BY <1>1, <1>3 DEF Inv, TypeOK, Entry, ActiveRow, Statuses
  <2> QED BY <1>1, <1>2, <2>1 DEF Inv, ActiveRow
<1>7. Apart'
  BY <1>1, <1>2, <1>4 DEF Inv, Apart
<1> QED BY <1>5, <1>6, <1>7 DEF Traces

LEMMA OrphanTraces ==
  ASSUME Inv, [Next]_vars, NEW b \in Boots, NEW e \in Execs, markOrphan(b, e)
  PROVE  Traces'
<1> USE JobsAssumption
<1>1. Waiting' = Waiting /\ active' = active /\ buffer' = buffer /\ flushing' = flushing
  BY DEF markOrphan, Waiting
<1>2. table[e] # None
  BY DEF markOrphan, Inv, Orphaned
<1>3. \A x \in Execs : \/ table'[x] = table[x]
                       \/ table[x] # None /\ table'[x] = "timeout"
  BY <1>2 DEF markOrphan, Inv, TypeOK
<1>4. /\ \A other \in Waiting : other.run \in Execs
      /\ active # None => active.run \in Execs
  BY DEF Waiting, Inv, TypeOK, Log, Entry
<1>5. Fresh'
  BY <1>1, <1>3, EarlyStep DEF Fresh, Inv
<1>6. ActiveRow'
  BY <1>1, <1>3, <1>4 DEF ActiveRow, Inv
<1>7. Apart'
  BY <1>1, <1>3, <1>4 DEF Apart, Inv
<1> QED BY <1>5, <1>6, <1>7 DEF Traces

LEMMA TracesStep == Inv /\ [Next]_vars => Traces'
<1> SUFFICES ASSUME Inv, [Next]_vars PROVE Traces'
  OBVIOUS
<1>1. ASSUME NEW e \in Execs, Start(e) PROVE Traces'
  BY <1>1, StartTraces
<1>2. ASSUME NEW e \in Execs, LogEnd(e), active # None PROVE Traces'
  BY <1>2, LogEndTraces
<1>3. ASSUME NEW log \in Log, FlushLog(log) PROVE Traces'
  BY <1>3, FlushLogTraces
<1>4. ASSUME NEW b \in Boots, NEW e \in Execs, markOrphan(b, e) PROVE Traces'
  BY <1>4, OrphanTraces
<1>5. CASE TakeBuffer
  <2>1. /\ Waiting' = Waiting /\ flushing' = buffer /\ buffer' = {}
        /\ UNCHANGED <<active, table, pc>>
    BY <1>5 DEF TakeBuffer, Waiting, Inv, OneFlush
  <2> QED BY <2>1 DEF Traces, Inv, Fresh, ActiveRow, Apart
<1>6. CASE Stop
  <2>1. Waiting' = {} /\ buffer' = {} /\ active' = None /\ table' = table
    BY <1>6 DEF Stop, Waiting
  <2> QED BY <2>1, EarlyStep DEF Traces, Inv, Fresh, ActiveRow, Apart
<1>7. CASE UNCHANGED <<active, table, buffer, flushing>>
  <2>1. Waiting' = Waiting
    BY <1>7 DEF Waiting
  <2> QED BY <1>7, <2>1, EarlyStep DEF Traces, Inv, Fresh, ActiveRow, Apart
<1>8. ASSUME NEW e \in Execs, LogEnd(e), active = None
      PROVE  UNCHANGED <<active, table, buffer, flushing>>
  BY <1>8 DEF LogEnd, LogJobComplete, logger
<1> QED
  BY <1>1, <1>2, <1>3, <1>4, <1>5, <1>6, <1>7, <1>8
  DEF Next, Flusher, Tick, Report, FindJob, FindMetadata, WrapperReturns,
      CallWrapper, Finish, Boot, OtherCommand, RemoveFromCron, RemoveFromRegistry,
      FlushTimer,
      ForceFlush, ReceiveRequest, Register,
      vars, logger

LEMMA OneFlushStep == OneFlush /\ [Next]_vars => OneFlush'
<1> SUFFICES ASSUME OneFlush, [Next]_vars, flushDue' PROVE flushing' = {}
  BY DEF OneFlush
<1>1. CASE UNCHANGED <<flushDue, flushing>>
  BY <1>1 DEF OneFlush
<1>2. ASSUME NEW e \in Execs, Start(e) \/ LogEnd(e)
      PROVE  UNCHANGED <<flushDue, flushing>>
  BY <1>2 DEF Start, LogJobStart, LogEnd, LogJobComplete, logger
<1>3. ASSUME NEW log \in Log, FlushLog(log) PROVE flushing' = {}
  BY <1>3 DEF FlushLog, OneFlush
<1> QED
  BY <1>1, <1>2, <1>3
  DEF Next, Flusher, Tick, Report, FindJob, FindMetadata, WrapperReturns,
      CallWrapper, Finish, Boot, Register, OtherCommand, markOrphan, Stop,
      RemoveFromCron, RemoveFromRegistry, FlushTimer, ForceFlush, ReceiveRequest,
      TakeBuffer, vars, logger

-----------------------------------------------------------------------------
(* The boots.                                                              *)

LEMMA QuietStep == Inv /\ [Next]_vars => Quiet'
<1> SUFFICES ASSUME Inv, [Next]_vars PROVE Quiet'
  OBVIOUS
<1> USE JobsAssumption DEF Execs, up, Live
<1>1. TypeOK /\ Quiet /\ ActiveEntryEnds
  BY DEF Inv
<1>2. CASE Stop
  BY <1>1, <1>2 DEF Stop, Over, Quiet, Waiting, TypeOK
<1>3. CASE up'
  BY <1>3 DEF Quiet
<1>4. CASE ~up /\ UNCHANGED <<pc, active, buffer, flushing>>
  BY <1>1, <1>4 DEF Quiet, Waiting
<1>5. CASE up /\ ~up'
  BY <1>2, <1>5
  DEF Next, Tick, Report, FindJob, FindMetadata, WrapperReturns, CallWrapper, Start,
      LogEnd, Finish, Boot, Register, OtherCommand, markOrphan, RemoveFromCron,
      RemoveFromRegistry, FlushTimer, ForceFlush, Flusher, ReceiveRequest, TakeBuffer,
      FlushLog, vars, process
<1>6. ASSUME ~up, ~Stop, ~up' PROVE UNCHANGED <<pc, active, buffer, flushing>>
  <2>1. \A e \in Execs : pc[e] \in Over
    BY <1>1, <1>6 DEF Quiet
  <2>2. ASSUME NEW e \in Scheduled, Tick(e) \/ Report(e) PROVE FALSE
    BY <1>6, <2>1, <2>2 DEF Tick, Report, Over
  <2>3. ASSUME NEW e \in Manual, FindJob(e) \/ FindMetadata(e) \/ WrapperReturns(e)
        PROVE  FALSE
    BY <1>6, <2>1, <2>3 DEF FindJob, FindMetadata, WrapperReturns, Over
  <2>4. ASSUME NEW e \in Manual, NEW w \in Scheduled, CallWrapper(e, w) PROVE FALSE
    BY <2>1, <2>4 DEF CallWrapper, Over
  <2>5. ASSUME NEW e \in Execs,
               Start(e) \/ LogEnd(e) \/ \E how \in Outcomes : Finish(e, how)
        PROVE  FALSE
    BY <2>1, <2>5 DEF Start, LogEnd, Finish, Over
  <2> QED
    BY <1>6, <2>2, <2>3, <2>4, <2>5
    DEF Next, Boot, Register, OtherCommand, markOrphan, RemoveFromCron,
        RemoveFromRegistry, FlushTimer, ForceFlush, Flusher, ReceiveRequest,
        TakeBuffer, FlushLog, vars, logger
<1> QED BY <1>2, <1>3, <1>4, <1>5, <1>6

\* A row is not deleted, and while the server is not up only orphans are written.
LEMMA RowsRemain ==
  ASSUME Inv, [Next]_vars, NEW x \in Execs, table[x] # None
  PROVE  /\ table'[x] # None
         /\ ~up => table'[x] \in {table[x], "timeout"}
<1> USE JobsAssumption DEF Execs
<1>1. TypeOK /\ Quiet
  BY DEF Inv
<1>2. ASSUME NEW e \in Execs, Start(e) PROVE table'[x] # None /\ up
  BY <1>1, <1>2 DEF Start, LogJobStart, Quiet, Live, Over, TypeOK, Statuses
<1>3. ASSUME NEW e \in Execs, LogEnd(e) PROVE table'[x] # None /\ up
  <2>1. up
    BY <1>1, <1>3 DEF LogEnd, Quiet, Live, Over
  <2>2. table'[x] \in {table[x], status(e)}
    BY <1>1, <1>3 DEF LogEnd, LogJobComplete, TypeOK, logger
  <2> QED BY <2>1, <2>2 DEF status, Statuses
<1>4. ASSUME NEW log \in Log, FlushLog(log) PROVE table'[x] # None /\ up
  BY <1>1, <1>4 DEF FlushLog, TypeOK, Log, Statuses
<1>5. ASSUME NEW b \in Boots, NEW e \in Execs, markOrphan(b, e)
      PROVE  table'[x] # None /\ table'[x] \in {table[x], "timeout"}
  BY <1>1, <1>5 DEF markOrphan, TypeOK, Statuses
<1>6. CASE UNCHANGED table
  BY <1>6
<1> QED
  BY <1>2, <1>3, <1>4, <1>5, <1>6
  DEF Next, Flusher, Tick, Report, FindJob, FindMetadata, WrapperReturns,
      CallWrapper, Finish, Boot, OtherCommand, RemoveFromCron, RemoveFromRegistry,
      FlushTimer, ForceFlush, ReceiveRequest, Register, TakeBuffer, Stop, vars, logger

LEMMA DeadStays ==
  ASSUME TypeOK, [Next]_vars, NEW x \in Execs, pc[x] = "dead"
  PROVE  pc'[x] = "dead"
<1> USE JobsAssumption DEF Execs
<1>1. ASSUME NEW e \in Scheduled, Tick(e) \/ Report(e) PROVE pc'[x] = "dead"
  BY <1>1 DEF Tick, StartWrapper, Report, TypeOK
<1>2. ASSUME NEW e \in Manual, FindJob(e) \/ FindMetadata(e) \/ WrapperReturns(e)
      PROVE  pc'[x] = "dead"
  BY <1>2 DEF FindJob, FindMetadata, WrapperReturns, TypeOK
<1>3. ASSUME NEW e \in Manual, NEW w \in Scheduled, CallWrapper(e, w)
      PROVE  pc'[x] = "dead"
  BY <1>3 DEF CallWrapper, StartWrapper, TypeOK
<1>4. ASSUME NEW e \in Execs,
             Start(e) \/ LogEnd(e) \/ \E how \in Outcomes : Finish(e, how)
      PROVE  pc'[x] = "dead"
  BY <1>4 DEF Start, LogEnd, Finish, TypeOK
<1>5. CASE Stop
  BY <1>5 DEF Stop, Over, TypeOK
<1>6. CASE UNCHANGED pc
  BY <1>6
<1> QED
  BY <1>1, <1>2, <1>3, <1>4, <1>5, <1>6
  DEF Next, Flusher, Boot, Register, OtherCommand, markOrphan, RemoveFromCron,
      RemoveFromRegistry, FlushTimer, ForceFlush, ReceiveRequest, TakeBuffer, FlushLog,
      vars

LEMMA OrphanedStep == Inv /\ [Next]_vars => Orphaned'
<1> SUFFICES ASSUME Inv, [Next]_vars PROVE Orphaned'
  OBVIOUS
<1> USE JobsAssumption DEF Boots
<1>1. TypeOK /\ Orphaned /\ Fresh
  BY DEF Inv
<1>2. \A b \in Boots : orphans[b] \subseteq Execs
  BY <1>1 DEF TypeOK
<1>3. ASSUME \A b \in Boots : orphans'[b] \subseteq orphans[b],
             misread \subseteq misread',
             orphans'[Server] # {} => server' = server,
             \A b \in Commands : \A e \in orphans[b] : pc[e] = "dead" => pc'[e] = "dead"
      PROVE  Orphaned'
  <2>1. \A b \in Boots : \A e \in orphans'[b] : table'[e] # None
    BY <1>1, <1>2, <1>3, RowsRemain DEF Orphaned
  <2>2. orphans'[Server] # {} => server' = "booting" /\ ~up
    BY <1>1, <1>3 DEF Orphaned, up
  <2>3. \A e \in orphans'[Server] : table'[e] \in {"started", "timeout"}
    BY <1>1, <1>2, <1>3, <2>2, RowsRemain DEF Orphaned
  <2>4. \A b \in Commands : \A e \in orphans'[b] : pc'[e] # "dead" => e \in misread'
    BY <1>1, <1>3 DEF Orphaned
  <2> QED BY <2>1, <2>2, <2>3, <2>4 DEF Orphaned
<1>4. CASE Boot
  <2>1. /\ orphans'[Server] = {e \in Execs : table[e] = "started"}
        /\ \A b \in Commands : orphans'[b] = orphans[b]
        /\ server' = "booting" /\ UNCHANGED <<table, pc, misread>>
    BY <1>1, <1>4 DEF Boot, readStarted, TypeOK, logger
  <2> QED BY <1>1, <2>1 DEF Orphaned, Statuses
<1>5. ASSUME NEW c \in Commands, OtherCommand(c) PROVE Orphaned'
  <2>1. /\ orphans'[c] = {e \in Execs : table[e] = "started"}
        /\ \A b \in Boots \ {c} : orphans'[b] = orphans[b]
        /\ misread' = misread \cup {e \in orphans'[c] : pc[e] # "dead"}
        /\ UNCHANGED <<server, table, pc>>
    BY <1>1, <1>5 DEF OtherCommand, readStarted, TypeOK, logger, process
  <2>2. Server # c
    OBVIOUS
  <2> QED BY <1>1, <2>1, <2>2 DEF Orphaned, Statuses
<1>6. ASSUME NEW c \in Boots, NEW x \in Execs, markOrphan(c, x) PROVE Orphaned'
  BY <1>1, <1>3, <1>6 DEF markOrphan, TypeOK, process
<1>7. CASE Stop
  <2>1. /\ orphans'[Server] = {} /\ \A b \in Commands : orphans'[b] = orphans[b]
        /\ table' = table /\ misread' = misread \cap {e \in Execs : pc[e] = "done"}
        /\ \A e \in Execs : pc'[e] = IF pc[e] \in Over THEN pc[e] ELSE "dead"
    BY <1>1, <1>7 DEF Stop, TypeOK
  <2>2. \A b \in Boots : \A e \in orphans[b] : pc[e] # "idle"
    BY <1>1, <1>2 DEF Orphaned, Fresh, Early
  <2>3. ASSUME NEW b \in Commands, NEW e \in orphans'[b], pc'[e] # "dead"
        PROVE  e \in misread'
    <3>1. e \in orphans[b] /\ b \in Boots /\ e \in Execs
      BY <1>2, <2>1, <2>3
    <3>2. pc[e] \in Over /\ pc'[e] = pc[e]
      BY <2>1, <2>3, <3>1
    <3>3. pc[e] = "done"
      BY <2>2, <2>3, <3>1, <3>2 DEF Over
    <3> QED BY <1>1, <2>1, <3>1, <3>3 DEF Orphaned
  <2>4. \A b \in Boots : \A e \in orphans'[b] : table'[e] # None
    BY <1>1, <2>1 DEF Orphaned
  <2> QED BY <2>1, <2>3, <2>4 DEF Orphaned
<1>8. CASE Register
  BY <1>1, <1>3, <1>8 DEF Register, sweeps
<1>9. CASE UNCHANGED <<sweeps, server>>
  <2>1. \A b \in Commands : \A e \in orphans[b] : pc[e] = "dead" => pc'[e] = "dead"
    BY <1>1, <1>2, DeadStays
  <2>2. orphans' = orphans /\ misread' = misread /\ server' = server
    BY <1>9 DEF sweeps
  <2> QED BY <1>3, <2>1, <2>2
<1> QED
  BY <1>4, <1>5, <1>6, <1>7, <1>8, <1>9
  DEF Next, Tick, Report, FindJob, FindMetadata, WrapperReturns, CallWrapper, Start,
      LogEnd, Finish, RemoveFromCron, RemoveFromRegistry, FlushTimer, ForceFlush,
      Flusher, ReceiveRequest,
      TakeBuffer, FlushLog, vars, process

LEMMA InvInit == Init => Inv
<1> SUFFICES ASSUME Init PROVE Inv
  OBVIOUS
<1>1. TypeOK
  BY TypeInit
<1>2. Logging /\ ActiveEntryEnds /\ Fresh /\ ActiveRow /\ Apart
  BY DEF Init, Logging, ActiveEntryEnds, Fresh, ActiveRow, Apart, Waiting
<1>3. Quiet
  BY DEF Init, Quiet, Waiting, Live, Over, Execs
<1>4. Orphaned
  BY DEF Init, Orphaned, Boots
<1>5. OneFlush
  BY DEF Init, OneFlush
<1> QED BY <1>1, <1>2, <1>3, <1>4, <1>5 DEF Inv

THEOREM Invariance == Spec => []Inv
<1>1. Init => Inv
  BY InvInit
<1>2. Inv /\ [Next]_vars => Inv'
  BY TypeStep, LoggingStep, EntryStep, TracesStep, OneFlushStep, QuietStep,
     OrphanedStep
  DEF Inv, Traces
<1> QED BY <1>1, <1>2, PTL DEF Spec
-----------------------------------------------------------------------------

\* The entry of activeJobs is never left behind, however executions overlap.
THEOREM NoEntryIsLeft == Spec => []ActiveEntryEnds
<1>1. Inv => ActiveEntryEnds
  BY DEF Inv
<1> QED BY <1>1, Invariance, PTL

\* A row that says how its execution ended, or of one past logging its end that a
\* boot gave up, is written only by a command that read it.
LEMMA RowStays ==
  ASSUME Inv, [Next]_vars, NEW x \in Execs,
         \/ table[x] \in {"completed", "failed"}
         \/ table[x] = "timeout" /\ pc[x] \in {"logged", "done"}
  PROVE  \/ table'[x] = table[x]
         \/ table'[x] = "timeout" /\ \E b \in Commands : x \in orphans[b]
<1> USE JobsAssumption
<1> DEFINE Goal == \/ table'[x] = table[x]
                   \/ table'[x] = "timeout" /\ \E b \in Commands : x \in orphans[b]
<1>0. table[x] # None /\ table[x] # "started"
  BY DEF Statuses
<1>1. ASSUME NEW e \in Execs, Start(e) PROVE Goal
  <2>1. table[e] = None
    BY <1>1 DEF Start, Inv, Fresh, Early
  <2> QED BY <1>0, <1>1, <2>1 DEF Start, LogJobStart, Inv, TypeOK
<1>2. ASSUME NEW e \in Execs, LogEnd(e) PROVE Goal
  <2>1. CASE active # None /\ active.saved
    <3>1. active.run # x
      BY <1>0, <2>1 DEF Inv, ActiveRow, ActiveEntryEnds
    <3> QED BY <1>2, <2>1, <3>1 DEF LogEnd, LogJobComplete, Inv, TypeOK
  <2> QED BY <1>2, <2>1 DEF LogEnd, LogJobComplete, logger
<1>3. ASSUME NEW log \in Log, FlushLog(log) PROVE Goal
  <2>1. log.run # x
    BY <1>0, <1>3 DEF FlushLog, Inv, Apart, Waiting
  <2> QED BY <1>3, <2>1 DEF FlushLog, Inv, TypeOK
<1>4. ASSUME NEW b \in Boots, NEW e \in Execs, markOrphan(b, e) PROVE Goal
  <2>1. CASE e # x
    BY <1>4, <2>1 DEF markOrphan, Inv, TypeOK
  <2>2. CASE e = x
    <3>1. x \in orphans[b] /\ table'[x] \in {table[x], "timeout"}
      BY <1>4, <2>2 DEF markOrphan, Inv, TypeOK
    <3>2. b = Server => table[x] = "timeout"
      BY <1>0, <3>1 DEF Inv, Orphaned
    <3> QED BY <3>1, <3>2 DEF Boots
  <2> QED BY <2>1, <2>2
<1>5. CASE UNCHANGED table
  BY <1>5
<1> QED
  BY <1>1, <1>2, <1>3, <1>4, <1>5
  DEF Next, Flusher, Tick, Report, FindJob, FindMetadata, WrapperReturns,
      CallWrapper, Finish, Boot, Register, OtherCommand, RemoveFromCron,
      RemoveFromRegistry, FlushTimer, ForceFlush, ReceiveRequest, TakeBuffer, Stop,
      vars, logger

\* However executions, flushes and boots overlap, a row that says how its execution
\* ended is written by nobody but a command that read it before it said so.
THEOREM FinalRowsStay == Spec => FinalRowStays
<1> DEFINE Stays ==
      \A e \in Execs :
        table[e] \in {"completed", "failed"} /\ table'[e] # table[e] =>
          table'[e] = "timeout" /\ \E b \in Commands : e \in orphans[b]
<1>1. Inv /\ [Next]_vars => Stays
  BY RowStays
<1>2. Inv /\ [Next]_vars => [Stays]_vars
  BY <1>1
<1> QED BY <1>2, Invariance, PTL DEF Spec, FinalRowStays
-----------------------------------------------------------------------------
(* What is told of an execution that ran alone.                            *)

Calls(x, y) == x \in Manual /\ pc[x] = "waiting" /\ inner[x] = y
Alone(e) == e \in logs \ (overlapped \cup refused)
Started == {"running", "calling", "waiting", "ended"}

\* Two executions under way overlap, unless one of them waits for the other.
Company ==
  \A x, y \in Execs :
    x # y /\ Live(x) /\ Live(y)
      => {x, y} \subseteq overlapped \/ Calls(x, y) \/ Calls(y, x)

\* A wrapper that was called has begun; while its caller has the entry, and runs
\* alone, the wrapper keeps no log.
Called ==
  \A x, y \in Execs :
    Calls(x, y) => pc[y] # "idle" /\ (Alone(x) => y \notin logs)

\* An execution keeps no log before it begins.
NoLogYet == \A e \in Execs : pc[e] = "idle" => e \notin logs

\* The entry of activeJobs is that of the execution that runs alone, and has a row.
OwnEntry ==
  \A e \in Execs :
    Alone(e) /\ pc[e] \in Started => active # None /\ active.run = e /\ active.saved

\* A wrapper alerts when it is done.
AlertLast == \A e \in Scheduled : pc[e] # "done" => e \notin alerted

TellInv == /\ Company /\ Called /\ NoLogYet /\ OwnEntry
           /\ AlertLast /\ RunAloneIsRecorded /\ PanicsAlert

\* An execution that begins meets whatever is under way, but for its caller.
LEMMA Meeting ==
  ASSUME NEW e, NEW caller, Meets(e, caller)
  PROVE  /\ overlapped \subseteq overlapped'
         /\ \A z \in Execs \ {e, caller} : Live(z) => {z, e} \subseteq overlapped'
BY DEF Meets, Live

\* A step of one execution, or of none, other than a stop of the process: histories
\* only grow, and an execution that begins meets all but its caller.
LEMMA CompanyStep == TypeOK /\ Company /\ [Next]_vars => Company'
<1> SUFFICES ASSUME TypeOK, Company, [Next]_vars, NEW x \in Execs, NEW y \in Execs,
                    x # y, Live(x)', Live(y)'
             PROVE  {x, y} \subseteq overlapped' \/ Calls(x, y)' \/ Calls(y, x)'
  BY DEF Company
<1> DEFINE Goal == {x, y} \subseteq overlapped' \/ Calls(x, y)' \/ Calls(y, x)'
<1> USE JobsAssumption DEF Execs
<1>1. ASSUME Live(x), Live(y), overlapped \subseteq overlapped',
             \/ UNCHANGED inner
             \/ \E e \in Manual : /\ pc[e] # "waiting"
                                 /\ \A z \in Manual \ {e} : inner'[z] = inner[z],
             \A z \in {x, y} : pc[z] = "waiting" => pc'[z] = "waiting" \/ ~Live(inner[z])
      PROVE  Goal
  <2>1. ASSUME NEW u \in {x, y}, NEW v \in {x, y}, Calls(u, v) PROVE Calls(u, v)'
    <3>1. pc'[u] = "waiting"
      BY <1>1, <2>1 DEF Calls
    <3>2. inner'[u] = v
      BY <1>1, <2>1 DEF Calls
    <3> QED  BY <2>1, <3>1, <3>2 DEF Calls
  <2>2. {x, y} \subseteq overlapped \/ Calls(x, y) \/ Calls(y, x)
    BY <1>1 DEF Company
  <2> QED  BY <1>1, <2>1, <2>2
<1>9. ASSUME NEW e \in Execs, Meets(e, None), pc[e] = "idle", UNCHANGED inner,
             \A z \in Execs \ {e} : pc'[z] = pc[z]
      PROVE  Goal
  <2>1. /\ overlapped \subseteq overlapped'
        /\ \A z \in Execs \ {e} : Live(z) => {z, e} \subseteq overlapped'
    <3>1. overlapped \subseteq overlapped'
      BY ONLY <1>9, Meeting
    <3>2. \A z \in Execs \ {e, None} : Live(z) => {z, e} \subseteq overlapped'
      BY ONLY <1>9, Meeting
    <3> QED  BY <3>1, <3>2
  <2>2. \A z \in Execs \ {e} : Live(z)' => Live(z)
    BY <1>9 DEF Live
  <2>3. CASE e \in {x, y}
    BY <2>1, <2>2, <2>3
  <2>4. CASE e \notin {x, y}
    <3>1. Live(x) /\ Live(y) /\ \A z \in {x, y} : pc'[z] = pc[z]
      BY <1>9, <2>2, <2>4
    <3> QED  BY <1>1, <1>9, <2>1, <3>1
  <2> QED  BY <2>3, <2>4
<1>2. ASSUME NEW e \in Scheduled, Tick(e) PROVE Goal
  BY <1>2, <1>9, None \notin Execs DEF Tick, StartWrapper, TypeOK
<1>3. ASSUME NEW e \in Manual, FindJob(e) PROVE Goal
  BY <1>3, <1>9, None \notin Execs DEF FindJob, TypeOK
<1>4. ASSUME NEW e \in Manual, NEW w \in Scheduled, CallWrapper(e, w) PROVE Goal
  <2>1. /\ pc[e] = "calling" /\ pc[w] = "idle" /\ e # w
        /\ pc'[e] = "waiting" /\ inner'[e] = w
        /\ \A z \in Execs \ {e, w} : pc'[z] = pc[z]
        /\ \A z \in Manual \ {e} : inner'[z] = inner[z]
    BY <1>4 DEF CallWrapper, StartWrapper, TypeOK
  <2>2. /\ overlapped \subseteq overlapped'
        /\ \A z \in Execs \ {e, w} : Live(z) => {z, w} \subseteq overlapped'
    <3>1. Meets(w, e)
      BY <1>4 DEF CallWrapper, StartWrapper
    <3>2. \A z \in Execs \ {w, e} : Live(z) => {z, w} \subseteq overlapped'
      BY <3>1, Meeting
    <3>3. overlapped \subseteq overlapped'
      BY <3>1, Meeting
    <3> QED  BY <3>2, <3>3
  <2>3. Calls(e, w)'
    BY <2>1 DEF Calls
  <2>4. Live(e)
    BY <2>1 DEF Live, Over
  <2>5. CASE w \in {x, y}
    <3>1. ASSUME NEW z \in {x, y}, z # w PROVE {z, w} \subseteq overlapped' \/ Calls(z, w)'
      <4>1. CASE z = e
        BY <2>3, <4>1
      <4>2. CASE z # e
        <5>1. Live(z)
          BY <2>1, <3>1, <4>2 DEF Live
        <5> QED  BY <2>2, <3>1, <4>2, <5>1
      <4> QED  BY <4>1, <4>2
    <3>2. CASE x = w
      BY <3>1, <3>2
    <3>3. CASE y = w
      BY <3>1, <3>3
    <3> QED  BY <2>5, <3>2, <3>3
  <2>6. CASE w \notin {x, y}
    <3>1. Live(x) /\ Live(y)
      BY <2>1, <2>4, <2>6 DEF Live
    <3>2. \A z \in {x, y} : pc[z] = "waiting" => pc'[z] = "waiting"
      BY <2>1, <2>6
    <3> QED  BY <1>1, <2>1, <2>2, <3>1, <3>2
  <2> QED  BY <2>5, <2>6
<1>5. ASSUME NEW e \in Execs,
             \/ FindMetadata(e) \/ Start(e) \/ LogEnd(e) \/ Report(e)
             \/ \E how \in Outcomes : Finish(e, how)
      PROVE  Goal
  <2>1. /\ Live(e) /\ pc[e] # "waiting" /\ \A z \in Execs \ {e} : pc'[z] = pc[z]
        /\ UNCHANGED <<inner, overlapped>>
    BY <1>5 DEF FindMetadata, Start, LogEnd, Report, Finish, Live, Over, TypeOK
  <2>2. Live(x) /\ Live(y) /\ \A z \in {x, y} : pc[z] = "waiting" => pc'[z] = "waiting"
    BY <2>1 DEF Live
  <2> QED  BY <1>1, <2>1, <2>2
<1>6. ASSUME NEW e \in Manual, WrapperReturns(e) PROVE Goal
  <2>1. /\ pc[e] = "waiting" /\ pc[inner[e]] = "done"
        /\ \A z \in Execs \ {e} : pc'[z] = pc[z]
        /\ UNCHANGED <<inner, overlapped>>
    BY <1>6 DEF WrapperReturns, TypeOK
  <2>2. Live(x) /\ Live(y)
    BY <2>1 DEF Live, Over
  <2>3. \A z \in {x, y} : pc[z] = "waiting" => pc'[z] = "waiting" \/ ~Live(inner[z])
    BY <2>1 DEF Live, Over
  <2> QED  BY <1>1, <2>1, <2>2, <2>3
<1>7. CASE Stop
  BY <1>7 DEF Stop, Live, Over
<1>8. CASE UNCHANGED <<pc, inner, overlapped>>
  <2>1. Live(x) /\ Live(y)
    BY <1>8 DEF Live
  <2> QED  BY <1>1, <1>8, <2>1
<1> QED
  BY <1>2, <1>3, <1>4, <1>5, <1>6, <1>7, <1>8
  DEF Next, Flusher, Boot, Register, OtherCommand, markOrphan, RemoveFromCron,
      RemoveFromRegistry, FlushTimer, ForceFlush, ReceiveRequest,
      TakeBuffer, FlushLog, vars

\* What is alone was so before, unless it has just begun to keep a log.
LEMMA AloneStep ==
  ASSUME TypeOK, [Next]_vars, ~Stop, NEW x \in Execs, Alone(x)', pc[x] # "idle"
  PROVE  Alone(x)
<1> USE JobsAssumption DEF Execs
<1>1. CASE UNCHANGED logs
  BY <1>1 DEF Next, Tick, Report, FindJob, FindMetadata, WrapperReturns,
     CallWrapper, StartWrapper, Meets, Start, LogJobStart, LogEnd, LogJobComplete,
     Finish, Boot, Register, OtherCommand, markOrphan, RemoveFromCron,
      RemoveFromRegistry, FlushTimer, ForceFlush, ReceiveRequest,
     Flusher, TakeBuffer, FlushLog, vars, logger, Alone
<1>5. ASSUME NEW e \in Execs, pc[e] = "idle", logs' \subseteq logs \cup {e},
             overlapped \subseteq overlapped', refused' = refused
      PROVE  Alone(x)
  BY <1>5 DEF Alone
<1>2. ASSUME NEW e \in Scheduled, Tick(e) PROVE Alone(x)
  BY <1>2, <1>5, Meeting DEF Tick, StartWrapper, logger
<1>3. ASSUME NEW e \in Manual, FindJob(e) PROVE Alone(x)
  BY <1>3, <1>5, Meeting DEF FindJob, logger
<1>4. ASSUME NEW e \in Manual, NEW w \in Scheduled, CallWrapper(e, w) PROVE Alone(x)
  BY <1>4, <1>5, Meeting DEF CallWrapper, StartWrapper, logger
<1> QED
  BY <1>1, <1>2, <1>3, <1>4
  DEF Next, Report, FindMetadata, WrapperReturns, Start, LogEnd, Finish, Boot,
      Register, OtherCommand, markOrphan, RemoveFromCron, RemoveFromRegistry, FlushTimer, ForceFlush, ReceiveRequest, Flusher,
      TakeBuffer, FlushLog, vars

LEMMA NoLogYetStep == TypeOK /\ NoLogYet /\ [Next]_vars => NoLogYet'
<1> SUFFICES ASSUME TypeOK, NoLogYet, [Next]_vars, NEW x \in Execs, pc'[x] = "idle"
             PROVE  pc[x] = "idle" /\ x \notin logs'
  BY DEF NoLogYet
<1> DEFINE Goal == pc[x] = "idle" /\ x \notin logs'
<1> USE JobsAssumption DEF Execs, NoLogYet
<1>1. ASSUME NEW e \in Scheduled, Tick(e) PROVE Goal
  BY <1>1 DEF Tick, StartWrapper, TypeOK
<1>2. ASSUME NEW e \in Scheduled, Report(e) PROVE Goal
  BY <1>2 DEF Report, TypeOK
<1>3. ASSUME NEW e \in Manual, FindJob(e) \/ FindMetadata(e) \/ WrapperReturns(e) PROVE Goal
  BY <1>3 DEF FindJob, FindMetadata, WrapperReturns, TypeOK
<1>4. ASSUME NEW e \in Manual, NEW w \in Scheduled, CallWrapper(e, w) PROVE Goal
  <2>1. /\ pc'[e] = "waiting" /\ pc'[w] # "idle" /\ logs' \subseteq logs \cup {w}
        /\ \A z \in Execs \ {e, w} : pc'[z] = pc[z]
    BY <1>4 DEF CallWrapper, StartWrapper, TypeOK
  <2> QED  BY <2>1
<1>5. ASSUME NEW e \in Execs,
             Start(e) \/ LogEnd(e) \/ \E how \in Outcomes : Finish(e, how)
      PROVE  Goal
  BY <1>5 DEF Start, LogEnd, Finish, TypeOK
<1>6. CASE Stop
  BY <1>6 DEF Stop, Over, TypeOK
<1>7. CASE UNCHANGED <<pc, logs>>
  BY <1>7
<1> QED
  BY <1>1, <1>2, <1>3, <1>4, <1>5, <1>6, <1>7
  DEF Next, Flusher, Boot, Register, OtherCommand, markOrphan, RemoveFromCron,
      RemoveFromRegistry, FlushTimer, ForceFlush, ReceiveRequest,
      TakeBuffer, FlushLog, vars

LEMMA CalledStep ==
  TypeOK /\ Called /\ NoLogYet /\ OwnEntry /\ [Next]_vars => Called'
<1> SUFFICES ASSUME TypeOK, Called, NoLogYet, OwnEntry, [Next]_vars,
                    NEW x \in Execs, NEW y \in Execs, Calls(x, y)'
             PROVE  pc'[y] # "idle" /\ (Alone(x)' => y \notin logs')
  BY DEF Called
<1> DEFINE Goal == pc'[y] # "idle" /\ (Alone(x)' => y \notin logs')
<1> USE JobsAssumption DEF Execs
<1>0. y \in Scheduled /\ x \in Manual /\ pc'[x] = "waiting" /\ inner'[x] = y
  <2>1. inner' \in [Manual -> Scheduled \cup {None}]
    BY TypeStep DEF TypeOK
  <2>2. x \in Manual /\ pc'[x] = "waiting" /\ inner'[x] = y
    BY DEF Calls
  <2>3. inner'[x] \in Scheduled \cup {None}
    BY <2>1, <2>2
  <2> QED  BY <2>2, <2>3, None \notin Execs
<1>1. ASSUME ~Stop, Calls(x, y), pc'[y] # "idle", pc[y] # "idle" => (y \in logs' => y \in logs)
      PROVE  Goal
  <2>1. pc[y] # "idle" /\ (Alone(x) => y \notin logs)
    BY <1>1 DEF Called
  <2>2. Alone(x)' => Alone(x)
    BY <1>1, AloneStep DEF Calls
  <2> QED  BY <1>1, <2>1, <2>2
<1>2. ASSUME NEW e \in Manual, NEW w \in Scheduled, CallWrapper(e, w) PROVE Goal
  <2>1. /\ pc[e] = "calling" /\ pc[w] = "idle" /\ pc'[w] # "idle" /\ inner'[e] = w
        /\ pc'[e] = "waiting"
        /\ \A z \in Execs \ {e, w} : pc'[z] = pc[z]
        /\ \A z \in Manual \ {e} : inner'[z] = inner[z]
        /\ active # None => logs' = logs
        /\ logs' \subseteq logs \cup {w} /\ ~Stop
    BY <1>2 DEF CallWrapper, StartWrapper, TypeOK, process, Stop
  <2>2. CASE x = e
    <3>1. y = w
      BY <1>0, <2>1, <2>2
    <3>2. Alone(x)' => active # None
      BY <2>1, <2>2, AloneStep DEF OwnEntry, Started
    <3>3. w \notin logs
      BY <2>1 DEF NoLogYet
    <3> QED  BY <2>1, <3>1, <3>2, <3>3
  <2>3. CASE x # e
    <3>1. Calls(x, y)
      BY <1>0, <2>1, <2>3 DEF Calls
    <3>2. pc[y] # "idle"
      BY <3>1 DEF Called
    <3>3. y # w
      BY <2>1, <3>2
    <3>4. pc'[y] # "idle"
      BY <2>1, <3>2
    <3>5. y \in logs' => y \in logs
      BY <2>1, <3>3
    <3> QED  BY <1>1, <2>1, <3>1, <3>4, <3>5
  <2> QED  BY <2>2, <2>3
<1>3. ASSUME NEW e \in Scheduled, Tick(e) PROVE Goal
  <2>1. Calls(x, y) /\ ~Stop /\ logs' \subseteq logs \cup {e} /\ pc[e] = "idle"
        /\ pc' = [pc EXCEPT ![e] = pc'[e]] /\ pc'[e] # "idle"
    BY <1>0, <1>3 DEF Tick, StartWrapper, TypeOK, Calls, Stop, process
  <2> QED  BY <1>0, <1>1, <2>1 DEF Called, TypeOK
<1>4. ASSUME NEW e \in Manual, FindJob(e) \/ FindMetadata(e) \/ WrapperReturns(e) PROVE Goal
  <2>1. Calls(x, y) /\ ~Stop /\ logs' \subseteq logs \cup {e} /\ pc'[y] = pc[y]
    <3>1. /\ ~Stop /\ logs' \subseteq logs \cup {e} /\ inner' = inner
          /\ \A z \in Execs \ {e} : pc'[z] = pc[z]
          /\ pc'[e] # "waiting"
      BY <1>4 DEF FindJob, FindMetadata, WrapperReturns, TypeOK, Stop, process
    <3>2. x # e /\ y # e
      BY <1>0, <3>1
    <3> QED  BY <1>0, <3>1, <3>2 DEF Calls
  <2>2. y # e
    BY <1>0
  <2>3. pc[y] # "idle"
    BY <2>1 DEF Called
  <2> QED  BY <1>1, <2>1, <2>2, <2>3
<1>5. ASSUME NEW e \in Execs,
             Start(e) \/ LogEnd(e) \/ \E how \in Outcomes : Finish(e, how)
      PROVE  Goal
  <2> DEFINE Kept == Calls(x, y) /\ ~Stop /\ logs' = logs
                     /\ (pc[y] # "idle" => pc'[y] # "idle")
  <2>1. CASE Start(e)
    <3>1. Kept
      BY <1>0, <2>1 DEF Start, TypeOK, Calls, Stop, process
    <3> QED  BY <1>0, <1>1, <3>1 DEF Called
  <2>2. CASE LogEnd(e)
    <3>1. Kept
      BY <1>0, <2>2 DEF LogEnd, TypeOK, Calls, Stop, process
    <3> QED  BY <1>0, <1>1, <3>1 DEF Called
  <2>3. ASSUME NEW how \in Outcomes, Finish(e, how) PROVE Goal
    <3>1. Kept
      BY <1>0, <2>3 DEF Finish, TypeOK, Calls, Stop, process
    <3> QED  BY <1>0, <1>1, <3>1 DEF Called
  <2> QED  BY <1>5, <2>1, <2>2, <2>3
<1>6. ASSUME NEW e \in Scheduled, Report(e) PROVE Goal
  <2>1. Calls(x, y) /\ ~Stop /\ logs' = logs /\ (pc[y] # "idle" => pc'[y] # "idle")
    BY <1>0, <1>6 DEF Report, TypeOK, Calls, Stop, process
  <2> QED  BY <1>0, <1>1, <2>1 DEF Called
<1>7. CASE Stop
  BY <1>0, <1>7 DEF Stop, Over
<1>8. CASE ~Stop /\ UNCHANGED <<pc, logs, inner>>
  <2>1. Calls(x, y)
    BY <1>0, <1>8 DEF Calls
  <2> QED  BY <1>0, <1>1, <1>8, <2>1 DEF Called
<1> QED
  BY <1>2, <1>3, <1>4, <1>5, <1>6, <1>7, <1>8
  DEF Next, Flusher, Boot, Register, OtherCommand, markOrphan, RemoveFromCron,
      RemoveFromRegistry, FlushTimer, ForceFlush, ReceiveRequest,
      TakeBuffer, FlushLog, vars

\* Nobody else logs a start or an end while an execution runs alone.
LEMMA NobodyElse ==
  ASSUME TypeOK, Logging, Company, Called, NEW x \in Execs, Alone(x), Live(x),
         NEW e \in Execs, e # x, e \in logs, Live(e), pc[e] # "waiting"
  PROVE  FALSE
BY DEF Company, Called, Calls, Alone

LEMMA OwnEntryStep ==
  ASSUME Inv, TellInv, [Next]_vars
  PROVE  OwnEntry'
<1> SUFFICES ASSUME NEW x \in Execs, Alone(x)', pc'[x] \in Started
             PROVE  active' # None /\ active'.run = x /\ active'.saved
  BY DEF OwnEntry
<1> DEFINE Goal == active' # None /\ active'.run = x /\ active'.saved
<1> USE JobsAssumption DEF Execs
<1>0. TypeOK /\ Logging /\ Company /\ Called /\ NoLogYet /\ OwnEntry
  BY DEF Inv, TellInv
<1>1. ASSUME ~Stop, UNCHANGED active, pc[x] \in Started PROVE Goal
  <2>1. Alone(x)
    BY <1>0, <1>1, AloneStep DEF Started
  <2> QED  BY <1>0, <1>1, <2>1 DEF OwnEntry
<1>2. ASSUME NEW e \in Scheduled, Tick(e) PROVE Goal
  <2>1. /\ ~Stop /\ UNCHANGED active /\ \A z \in Execs \ {e} : pc'[z] = pc[z]
        /\ pc[e] = "idle" /\ (pc'[e] = "starting" \/ logs' = logs)
    BY <1>0, <1>2 DEF Tick, StartWrapper, TypeOK, logger, process, Stop
  <2>2. x # e
    BY <1>0, <2>1 DEF NoLogYet, Started, Alone
  <2> QED  BY <1>1, <2>1, <2>2
<1>3. ASSUME NEW e \in Manual, NEW w \in Scheduled, CallWrapper(e, w) PROVE Goal
  <2>1. /\ ~Stop /\ UNCHANGED active /\ \A z \in Execs \ {e, w} : pc'[z] = pc[z]
        /\ pc[e] = "calling"
        /\ pc[w] = "idle" /\ (pc'[w] = "starting" \/ logs' = logs)
    BY <1>0, <1>3 DEF CallWrapper, StartWrapper, TypeOK, logger, process, Stop
  <2>2. x # w
    BY <1>0, <2>1 DEF NoLogYet, Started, Alone
  <2> QED  BY <1>1, <2>1, <2>2 DEF Started
<1>4. ASSUME NEW e \in Execs, Start(e) PROVE Goal
  <2>1. PICK saved \in BOOLEAN :
          /\ active' = [run |-> e, saved |-> saved]
          /\ refused' = IF saved THEN refused ELSE refused \cup {e}
    BY <1>4 DEF Start, LogJobStart, Write
  <2>2. CASE x = e
    <3>1. active'.run = x /\ active'.saved = saved /\ active' # None
      <4>1. active'.run = e /\ active'.saved = saved
        BY <2>1
      <4>2. active' \in Entry
        BY <2>1 DEF Entry
      <4> QED  BY <2>2, <4>1, <4>2
    <3>2. x \notin refused'
      BY DEF Alone
    <3> QED  BY <2>1, <2>2, <3>1, <3>2
  <2>3. CASE x # e
    <3>1. /\ ~Stop /\ pc'[x] = pc[x] /\ pc[e] \in {"starting", "bare"}
      BY <1>0, <1>4, <2>3 DEF Start, TypeOK, process, Stop
    <3>2. Alone(x) /\ Live(x) /\ Live(e) /\ e \in logs
      BY <1>0, <3>1, AloneStep DEF Started, Live, Over, Logging
    <3> QED  BY <1>0, <2>3, <3>1, <3>2, NobodyElse
  <2> QED  BY <2>2, <2>3
<1>5. ASSUME NEW e \in Execs, LogEnd(e) PROVE Goal
  <2>1. /\ ~Stop /\ pc[e] = "ended" /\ e \in logs /\ pc'[e] \notin Started
        /\ \A z \in Execs \ {e} : pc'[z] = pc[z]
    BY <1>0, <1>5 DEF LogEnd, TypeOK, process, Stop, Started
  <2>2. x # e /\ pc[x] = pc'[x]
    BY <2>1
  <2>3. Alone(x) /\ Live(x) /\ Live(e)
    BY <1>0, <2>1, <2>2, AloneStep DEF Started, Live, Over
  <2> QED  BY <1>0, <2>1, <2>2, <2>3, NobodyElse
<1>6. ASSUME NEW e \in Manual, FindJob(e) \/ FindMetadata(e) \/ WrapperReturns(e) PROVE Goal
  <2>1. ~Stop /\ UNCHANGED active /\ pc[x] \in Started
    BY <1>0, <1>6 DEF FindJob, FindMetadata, WrapperReturns, TypeOK, logger,
       process, Stop, Started
  <2> QED  BY <1>1, <2>1
<1>7. ASSUME NEW e \in Execs, Report(e) \/ \E how \in Outcomes : Finish(e, how) PROVE Goal
  <2>1. ~Stop /\ UNCHANGED active /\ pc[x] \in Started
    BY <1>0, <1>7 DEF Report, Finish, TypeOK, logger, process, Stop, Started
  <2> QED  BY <1>1, <2>1
<1>8. CASE Stop
  BY <1>8 DEF Stop, Over, Started
<1>9. CASE ~Stop /\ UNCHANGED <<pc, active>>
  BY <1>1, <1>9
<1> QED
  BY <1>2, <1>3, <1>4, <1>5, <1>6, <1>7, <1>8, <1>9
  DEF Next, Flusher, Boot, Register, OtherCommand, markOrphan, RemoveFromCron,
      RemoveFromRegistry, FlushTimer, ForceFlush, ReceiveRequest,
      TakeBuffer, FlushLog, vars, logger

\* What an execution that ran alone leaves in the table is how it ended.
LEMMA RecordedStep ==
  ASSUME Inv, TellInv, [Next]_vars
  PROVE  RunAloneIsRecorded'
<1> DEFINE Earned(e) == table[e] = status(e) \/ (table[e] = "timeout" /\ e \in misread)
<1>0. logs' \subseteq Execs
  BY TypeStep DEF Inv, TypeOK
<1> SUFFICES ASSUME NEW x \in Execs, Alone(x)', pc'[x] \in {"logged", "done"}
             PROVE  Earned(x)'
  BY <1>0 DEF RunAloneIsRecorded, Alone, status
<1>1. TypeOK /\ OwnEntry /\ RunAloneIsRecorded
  BY DEF Inv, TellInv
<1>2. CASE Stop
  <2>1. x \in Execs /\ pc[x] = "done" /\ Alone(x)
    BY <1>2 DEF Stop, Alone
  <2>2. outcome'[x] = outcome[x] /\ table' = table
    BY <1>2, <2>1 DEF Stop
  <2>3. Earned(x) /\ (x \in misread => x \in misread')
    BY <1>1, <1>2, <2>1 DEF RunAloneIsRecorded, Alone, status, Stop
  <2> QED  BY <2>2, <2>3 DEF status
<1>3. CASE ~Stop /\ pc[x] \in {"logged", "done"}
  <2>1. Alone(x)
    BY <1>1, <1>3, AloneStep
  <2>2. Earned(x)
    BY <1>1, <1>3, <2>1 DEF RunAloneIsRecorded, Alone, status
  <2>3. \/ table'[x] = table[x]
        \/ table'[x] = "timeout" /\ x \in misread
    <3>1. \/ table'[x] = table[x]
          \/ table'[x] = "timeout" /\ \E b \in Commands : x \in orphans[b]
      BY <1>3, <2>2, RowStays DEF status
    <3> QED BY <1>3, <3>1 DEF Inv, Orphaned
  <2>5. misread \subseteq misread'
    BY <1>3 DEF Next, Tick, Report, FindJob, FindMetadata, WrapperReturns,
       CallWrapper, Start, LogEnd, Finish, Boot, Register, OtherCommand, markOrphan,
       RemoveFromCron, RemoveFromRegistry, FlushTimer, ForceFlush, ReceiveRequest,
       Flusher, TakeBuffer, FlushLog, vars, sweeps
  <2>4. outcome'[x] = outcome[x]
    BY <1>1, <1>3 DEF Next, Tick, Report, FindJob, FindMetadata, WrapperReturns,
       CallWrapper, Start, LogEnd, Finish, Boot, Register, OtherCommand, markOrphan,
       RemoveFromCron, RemoveFromRegistry, FlushTimer, ForceFlush, ReceiveRequest,
       Flusher, TakeBuffer, FlushLog, vars, TypeOK
  <2> QED  BY <2>2, <2>3, <2>4, <2>5 DEF status
<1>4. CASE ~Stop /\ pc[x] \notin {"logged", "done"}
  <2>1. LogEnd(x) \/ Report(x)
    <3> USE <1>1, <1>4, JobsAssumption DEF Execs
    <3>1. ASSUME NEW e \in Scheduled, Tick(e) PROVE FALSE
      BY <3>1 DEF Tick, StartWrapper, TypeOK
    <3>2. ASSUME NEW e \in Manual, FindJob(e) \/ FindMetadata(e) \/ WrapperReturns(e)
          PROVE  FALSE
      BY <3>2 DEF FindJob, FindMetadata, WrapperReturns, TypeOK
    <3>3. ASSUME NEW e \in Manual, NEW w \in Scheduled, CallWrapper(e, w) PROVE FALSE
      <4>1. /\ pc'[e] = "waiting" /\ pc'[w] \in {"starting", "running"}
            /\ \A z \in Execs \ {e, w} : pc'[z] = pc[z]
        BY <3>3 DEF CallWrapper, StartWrapper, TypeOK
      <4> QED  BY <4>1
    <3>4. ASSUME NEW e \in Execs, Start(e) \/ \E how \in Outcomes : Finish(e, how)
          PROVE  FALSE
      BY <3>4 DEF Start, Finish, TypeOK
    <3>5. ASSUME NEW e \in Execs, LogEnd(e) \/ Report(e), e # x PROVE FALSE
      BY <3>5 DEF LogEnd, Report, TypeOK
    <3>6. CASE UNCHANGED pc
      BY <3>6
    <3> QED
      BY <3>1, <3>2, <3>3, <3>4, <3>5, <3>6
      DEF Next, Flusher, Boot, Register, OtherCommand, markOrphan, RemoveFromCron,
      RemoveFromRegistry, FlushTimer, ForceFlush, ReceiveRequest,
      TakeBuffer, FlushLog, vars
  <2>2. LogEnd(x)
    BY <1>4, <2>1 DEF Report, Alone
  <2>3. pc[x] = "ended" /\ outcome' = outcome /\ LogJobComplete(status(x))
    BY <2>2 DEF LogEnd
  <2>4. Alone(x)
    BY <1>1, <1>4, <2>3, AloneStep
  <2>5. active # None /\ active.run = x /\ active.saved
    BY <1>1, <2>3, <2>4 DEF OwnEntry, Started
  <2>6. PICK ok \in BOOLEAN :
          /\ table' = IF ok THEN [table EXCEPT ![x] = status(x)] ELSE table
          /\ refused' = IF ok THEN refused ELSE refused \cup {x}
    BY <2>3, <2>5 DEF LogJobComplete, Write
  <2>7. ok
    BY <2>6 DEF Alone
  <2>8. table'[x] = status(x)
    BY <1>1, <2>6, <2>7 DEF TypeOK
  <2> QED  BY <2>3, <2>8 DEF status
<1> QED  BY <1>2, <1>3, <1>4

\* Only the last step of a wrapper alerts, by how the job function ended.
LEMMA AlertStep ==
  ASSUME TypeOK, AlertLast, PanicsAlert, [Next]_vars
  PROVE  AlertLast' /\ PanicsAlert'
<1> DEFINE Told(e) == IF pc[e] = "done" THEN e \in alerted <=> outcome[e] = "panicked"
                      ELSE e \notin alerted
<1>1. SUFFICES ASSUME NEW x \in Scheduled PROVE Told(x)'
  BY DEF AlertLast, PanicsAlert
<1>2. Told(x)
  BY DEF AlertLast, PanicsAlert
<1> USE JobsAssumption DEF Execs
<1>3. ASSUME pc'[x] = "done" <=> pc[x] = "done", alerted' = alerted,
             pc[x] = "done" => outcome'[x] = outcome[x]
      PROVE  Told(x)'
  BY <1>2, <1>3
<1>4. ASSUME NEW e \in Scheduled, Tick(e) PROVE Told(x)'
  BY <1>3, <1>4 DEF Tick, StartWrapper, TypeOK
<1>5. ASSUME NEW e \in Scheduled, Report(e) PROVE Told(x)'
  <2>1. /\ pc[e] # "done" /\ pc'[e] = "done" /\ outcome' = outcome
        /\ \A z \in Execs \ {e} : pc'[z] = pc[z]
        /\ alerted' = IF outcome[e] = "panicked" THEN alerted \cup {e} ELSE alerted
    BY <1>5 DEF Report, TypeOK
  <2>2. CASE x = e
    BY <1>2, <2>1, <2>2
  <2>3. CASE x # e
    BY <1>2, <2>1, <2>3
  <2> QED  BY <2>2, <2>3
<1>6. ASSUME NEW e \in Manual, FindJob(e) \/ FindMetadata(e) \/ WrapperReturns(e)
      PROVE  Told(x)'
  <2>1. /\ alerted' = alerted
        /\ \A z \in Execs \ {e} : pc'[z] = pc[z] /\ outcome'[z] = outcome[z]
    BY <1>6 DEF FindJob, FindMetadata, WrapperReturns, TypeOK
  <2>2. x # e
    OBVIOUS
  <2> QED  BY <1>3, <2>1, <2>2
<1>7. ASSUME NEW e \in Manual, NEW w \in Scheduled, CallWrapper(e, w) PROVE Told(x)'
  <2>1. /\ pc[w] = "idle" /\ pc'[w] \in {"starting", "running"}
        /\ \A z \in Execs \ {e, w} : pc'[z] = pc[z]
        /\ alerted' = alerted /\ outcome' = outcome
    BY <1>7 DEF CallWrapper, StartWrapper, TypeOK
  <2> QED  BY <1>3, <2>1
<1>8. ASSUME NEW e \in Execs,
             Start(e) \/ LogEnd(e) \/ \E how \in Outcomes : Finish(e, how)
      PROVE  Told(x)'
  <2>1. /\ alerted' = alerted /\ pc[e] # "done"
        /\ pc'[e] = "done" => e \notin Scheduled
        /\ \A z \in Execs \ {e} : pc'[z] = pc[z] /\ outcome'[z] = outcome[z]
    BY <1>8 DEF Start, LogEnd, Finish, TypeOK
  <2>2. CASE x = e
    BY <1>3, <2>1, <2>2
  <2>3. CASE x # e
    BY <1>3, <2>1, <2>3
  <2> QED  BY <2>2, <2>3
<1>9. CASE Stop
  BY <1>3, <1>9 DEF Stop, Over
<1>10. CASE UNCHANGED <<pc, outcome, alerted>>
  BY <1>3, <1>10
<1> QED
  BY <1>4, <1>5, <1>6, <1>7, <1>8, <1>9, <1>10
  DEF Next, Flusher, Boot, Register, OtherCommand, markOrphan, RemoveFromCron,
      RemoveFromRegistry, FlushTimer, ForceFlush, ReceiveRequest,
      TakeBuffer, FlushLog, vars

LEMMA TellInit == Init => TellInv
<1> SUFFICES ASSUME Init PROVE TellInv
  OBVIOUS
<1>1. /\ \A e \in Execs : pc[e] = "idle" /\ e \notin logs /\ e \notin alerted
      /\ logs = {}
  BY DEF Init
<1>2. \A x, y \in Execs : ~Live(x) /\ ~Calls(x, y)
  BY <1>1 DEF Live, Over, Calls, Execs
<1>3. Company /\ Called /\ NoLogYet
  BY <1>1, <1>2 DEF Company, Called, NoLogYet
<1>4. OwnEntry /\ RunAloneIsRecorded
  BY <1>1 DEF OwnEntry, RunAloneIsRecorded, Alone
<1>5. AlertLast /\ PanicsAlert
  BY <1>1 DEF AlertLast, PanicsAlert, Execs
<1> QED  BY <1>3, <1>4, <1>5 DEF TellInv

\* What becomes of an execution is told whatever runs beside it: by its row if it
\* ran alone and the database took its writes, and by an alert if it panicked.
THEOREM EndsAreTold == Spec => []EndIsTold
<1>1. Init => TellInv
  BY TellInit
<1>2. Inv /\ TellInv /\ [Next]_vars => TellInv'
  BY CompanyStep, CalledStep, NoLogYetStep, OwnEntryStep, RecordedStep, AlertStep
  DEF Inv, TellInv
<1>3. TellInv => EndIsTold
  BY DEF TellInv, EndIsTold
<1> QED  BY <1>1, <1>2, <1>3, Invariance, PTL DEF Spec
=============================================================================
