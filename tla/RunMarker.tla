----------------------------- MODULE RunMarker -----------------------------
(***************************************************************************)
(* The crash marker of core/alerts/crash.go: a file that says "running"    *)
(* from NotifyStarted on and "stopped" after NotifyStopped, so that the    *)
(* next boot can tell a crash.  Within a run two goroutines write it: the  *)
(* main one, and the evaluator through heartbeat.  Both go through         *)
(* saveMarker and share the name of the temporary file.                    *)
(*                                                                         *)
(* A process may crash between any two steps.  Times are left out: whether *)
(* a restart is fast is chosen, and Beat is not kept.  The file system     *)
(* keeps what was written when the process dies.                           *)
(***************************************************************************)
EXTENDS Integers, FiniteSets

CONSTANTS
  RestartLoopThreshold,  \* restartLoopThreshold
  SavesMayFail,          \* the data directory may refuse a write
  MaxRuns                \* bound on the processes started

ASSUME MarkerAssumption ==
  /\ RestartLoopThreshold \in Nat \ {0}
  /\ SavesMayFail \in BOOLEAN /\ MaxRuns \in Nat \ {0}

Runs == 1..MaxRuns

NoMarker == [state |-> "", restarts |-> 0, run |-> 0]
Marker == [state : {"", "running", "stopped"}, restarts : 0..MaxRuns,
           run : 0..MaxRuns]

Writers == {"main", "beat"}
Inodes == 1..3   \* the marker, the temporary file, and one still open
Nil == 0
\* The contents of a file that hold no marker.
Empty == [NoMarker EXCEPT !.state = "empty"]
Torn  == [NoMarker EXCEPT !.state = "torn"]

VARIABLES
  run,        \* the number of the process
  life,       \* down, booted, serving, stopping, stopped
  previous,   \* markerState.previous; NoMarker: hasPrevious is false
  current,    \* markerState.current
  pc, lr, fd, \* where each writer is in saveMarker, with what, into which file
  path, tmp,  \* the directory entries
  data,       \* the contents of the files
  verdict,    \* history: what NotifyStarted reported
  streak,     \* history: runs in a row that were reported after an unclean one
  crashed,    \* history: runs that died between NotifyStarted, completed, and
              \* NotifyStopped
  stoppedClean,  \* history: runs that completed NotifyStopped
  muddled     \* history: runs in which saves overlapped or failed

memory  == <<previous, current>>
writers == <<pc, lr, fd>>
disk    == <<path, tmp, data>>
history == <<verdict, streak, stoppedClean>>
vars == <<run, life, memory, writers, disk, history, crashed, muddled>>

Idle == [w \in Writers |-> "idle"]

Init ==
  /\ run = 0 /\ life = "down"
  /\ previous = NoMarker /\ current = NoMarker
  /\ pc = Idle /\ lr = [w \in Writers |-> NoMarker]
  /\ fd = [w \in Writers |-> Nil]
  /\ path = Nil /\ tmp = Nil /\ data = [i \in Inodes |-> Empty]
  /\ verdict = "none" /\ streak = 0
  /\ crashed = {} /\ stoppedClean = {} /\ muddled = {}

\* readMarker: anything but a whole marker reads as no information.
readMarker == IF path = Nil \/ data[path] \in {Empty, Torn} THEN NoMarker
              ELSE data[path]

\* Initialize, in the bootstrap of a new process.
Boot ==
  /\ life = "down" /\ run < MaxRuns
  /\ run' = run + 1 /\ life' = "booted"
  /\ previous' = readMarker
  /\ UNCHANGED <<current, writers, disk, history, crashed, muddled>>

\* A process that dies leaves the named files as they are.
Die ==
  /\ life' = "down"
  /\ pc' = Idle /\ lr' = [w \in Writers |-> NoMarker]
  /\ fd' = [w \in Writers |-> Nil]
  /\ crashed' = IF life = "serving" /\ pc["main"] = "idle"
                THEN crashed \cup {run} ELSE crashed
  /\ data' = [i \in Inodes |-> IF i \in {path, tmp} THEN data[i] ELSE Empty]
  /\ previous' = NoMarker /\ current' = NoMarker /\ verdict' = "none"
  /\ UNCHANGED <<run, path, tmp, streak, stoppedClean, muddled>>

Crash == life \in {"booted", "serving", "stopping"} /\ Die
Exit  == life = "stopped" /\ Die
-----------------------------------------------------------------------------
(* saveMarker and writeMarker, step by step.                               *)

\* Writer w enters saveMarker with marker m.
Begin(w, m) ==
  /\ pc' = [pc EXCEPT ![w] = "assign"]
  /\ lr' = [lr EXCEPT ![w] = m]

busy(w) == pc[w] # "idle"

\* A run is muddled once both writers are under way.
Muddle == muddled' = IF \A w \in Writers : pc'[w] # "idle"
                     THEN muddled \cup {run} ELSE muddled

Assign(w) ==
  /\ pc[w] = "assign" /\ pc' = [pc EXCEPT ![w] = "open"]
  /\ current' = lr[w]
  /\ UNCHANGED <<run, life, previous, lr, fd, disk, history, crashed, muddled>>

free == Inodes \ {path, tmp, fd["main"], fd["beat"]}

\* A file that lost its last name, and is not open, is gone.
Unlink(i) == IF i = Nil \/ \E w \in Writers : fd[w] = i THEN data
             ELSE [data EXCEPT ![i] = Empty]

\* Mutant: the marker is overwritten in place.
OpenInPlace(w) ==
  /\ pc[w] = "open" /\ pc' = [pc EXCEPT ![w] = "write"]
  /\ path' = IF path # Nil THEN path ELSE CHOOSE i \in free : \A j \in free : i <= j
  /\ data' = [data EXCEPT ![path'] = Empty]
  /\ fd' = [fd EXCEPT ![w] = path']
  /\ UNCHANGED <<run, life, memory, lr, tmp, history, crashed, muddled>>

\* os.WriteFile truncates the temporary file or creates it ...
Open(w) ==
  /\ pc[w] = "open" /\ pc' = [pc EXCEPT ![w] = "write"]
  /\ tmp' = IF tmp # Nil THEN tmp ELSE CHOOSE i \in free : \A j \in free : i <= j
  /\ data' = [data EXCEPT ![tmp'] = Empty]
  /\ fd' = [fd EXCEPT ![w] = tmp']
  /\ UNCHANGED <<run, life, memory, lr, path, history, crashed, muddled>>

\* ... and writes at its start: over what the other writer has put there, this
\* leaves a tail if that was longer.
Write(w) ==
  /\ pc[w] = "write" /\ pc' = [pc EXCEPT ![w] = "rename"]
  /\ \E result \in {lr[w], Torn} :
       /\ result = Torn => data[fd[w]] # Empty
       /\ data' = [data EXCEPT ![fd[w]] = result]
  /\ fd' = [fd EXCEPT ![w] = Nil]
  /\ UNCHANGED <<run, life, memory, lr, path, tmp, history, crashed, muddled>>

Finish(w) ==
  /\ pc' = [pc EXCEPT ![w] = "idle"]
  /\ lr' = [lr EXCEPT ![w] = NoMarker]

\* os.Rename, of whatever has the temporary name by now.
Rename(w) ==
  /\ pc[w] = "rename" /\ tmp # Nil
  /\ path' = tmp /\ tmp' = Nil
  /\ data' = Unlink(path)
  /\ Finish(w)
  /\ UNCHANGED <<run, life, memory, fd, history, crashed, muddled>>

\* The other writer has renamed it: the error path.
RenameFails(w) ==
  /\ pc[w] = "rename" /\ tmp = Nil
  /\ pc' = [pc EXCEPT ![w] = "remove"]
  /\ UNCHANGED <<run, life, memory, lr, fd, disk, history, crashed, muddled>>

Remove(w) ==
  /\ pc[w] = "remove"
  /\ tmp' = Nil
  /\ data' = Unlink(tmp)
  /\ Finish(w)
  /\ UNCHANGED <<run, life, memory, fd, path, history, crashed, muddled>>

\* The file system refuses the write or the rename: no new marker.
SaveFails(w) ==
  /\ SavesMayFail /\ pc[w] = "open"
  /\ Finish(w)
  /\ muddled' = muddled \cup {run}
  /\ UNCHANGED <<run, life, memory, fd, disk, history, crashed>>
-----------------------------------------------------------------------------
unclean == previous.state = "running"

\* Mutant: any fast restart is counted, also after a clean stop.
NotifyStartedCountsAll(fast) ==
  /\ life = "booted" /\ life' = "serving"
  /\ LET restarts == IF fast THEN previous.restarts + 1 ELSE 0
     IN  /\ Begin("main", [state |-> "running", restarts |-> restarts, run |-> run])
         /\ verdict' = IF ~unclean THEN "started"
                       ELSE IF restarts >= RestartLoopThreshold THEN "looping"
                       ELSE "crashed"
  /\ streak' = IF unclean THEN streak + 1 ELSE 0
  /\ UNCHANGED <<run, memory, fd, disk, stoppedClean, crashed, muddled>>

\* NotifyStarted, from OnServe: it judges the previous run and claims the marker.
NotifyStarted(fast) ==
  /\ life = "booted" /\ life' = "serving"
  /\ LET restarts == IF unclean /\ fast THEN previous.restarts + 1 ELSE 0
     IN  /\ Begin("main", [state |-> "running", restarts |-> restarts, run |-> run])
         /\ verdict' = IF ~unclean THEN "started"
                       ELSE IF restarts >= RestartLoopThreshold THEN "looping"
                       ELSE "crashed"
  /\ streak' = IF unclean THEN streak + 1 ELSE 0
  /\ UNCHANGED <<run, memory, fd, disk, stoppedClean, crashed, muddled>>

\* heartbeat, on a tick of the evaluator: it copies current and lets go of it.
Heartbeat ==
  /\ life \in {"booted", "serving", "stopping", "stopped"} /\ ~busy("beat")
  /\ current.state = "running"
  /\ Begin("beat", current)
  /\ Muddle
  /\ UNCHANGED <<run, life, memory, fd, disk, history, crashed>>

\* Mutant: the shutdown does not mark the run.
NotifyStoppedUnmarked ==
  /\ life \in {"booted", "serving"} /\ ~busy("main")
  /\ life' = "stopping"
  /\ UNCHANGED <<run, memory, writers, disk, history, crashed, muddled>>

\* NotifyStopped, from OnTerminate: also in a process that never served.
NotifyStopped ==
  /\ life \in {"booted", "serving"} /\ ~busy("main")
  /\ life' = "stopping"
  /\ Begin("main", [current EXCEPT !.state = "stopped", !.run = run])
  /\ Muddle
  /\ UNCHANGED <<run, memory, fd, disk, history, crashed>>

\* NotifyStopped has returned; the evaluator runs on until the process ends.
Stopped ==
  /\ life = "stopping" /\ ~busy("main") /\ life' = "stopped"
  /\ stoppedClean' = stoppedClean \cup {run}
  /\ UNCHANGED <<run, memory, writers, disk, verdict, streak, crashed, muddled>>

Save == \E w \in Writers : \/ Assign(w) \/ Open(w) \/ Write(w)
                           \/ Rename(w) \/ RenameFails(w) \/ Remove(w)
                           \/ SaveFails(w)

Next == \/ Boot \/ Crash \/ Exit
        \/ \E fast \in BOOLEAN : NotifyStarted(fast)
        \/ Heartbeat \/ NotifyStopped \/ Stopped \/ Save

Spec == Init /\ [][Next]_vars
-----------------------------------------------------------------------------
(* Properties.                                                             *)

\* Every variable has its type, and a writer has a file open only to write it.
TypeOK ==
  /\ run \in 0..MaxRuns
  /\ life \in {"down", "booted", "serving", "stopping", "stopped"}
  /\ previous \in Marker /\ current \in Marker
  /\ pc \in [Writers -> {"idle", "assign", "open", "write", "rename", "remove"}]
  /\ lr \in [Writers -> Marker] /\ fd \in [Writers -> Inodes \cup {Nil}]
  /\ path \in Inodes \cup {Nil} /\ tmp \in Inodes \cup {Nil}
  /\ data \in [Inodes -> Marker \cup {Empty, Torn}]
  /\ verdict \in {"none", "started", "crashed", "looping"}
  /\ streak \in 0..MaxRuns
  /\ crashed \subseteq Runs /\ stoppedClean \subseteq Runs /\ muddled \subseteq Runs

alarmed == verdict \in {"crashed", "looping"}

\* The alarm is false only after a run in which a heartbeat overlapped another
\* save, or a save failed: one that stopped undisturbed is not called a crash.
FalseAlarmNeedsOverlap ==
  alarmed => \/ previous.run \notin stoppedClean
             \/ previous.run \in muddled

\* A run that died while it was serving, its saves undisturbed, is reported by
\* the next run if that one serves: no point of the heartbeat hides a crash.
CrashIsSeen == verdict = "started" => run - 1 \notin crashed \ muddled

\* A crash loop is reported only after as many unclean runs in a row, whatever
\* marker survived from which run.
LoopDeserved == verdict = "looping" => streak >= RestartLoopThreshold

\* server.go: marking the run clean is what stops the next boot reporting a
\* crash.
NoFalseAlarm == alarmed => previous.run \notin stoppedClean

\* crash.go: a crash mid-write cannot leave a truncated file.
MarkerIsWhole == path # Nil => data[path] \notin {Empty, Torn}
=============================================================================
