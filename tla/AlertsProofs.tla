---------------------------- MODULE AlertsProofs ----------------------------
(* Proofs about RunMarker and Rules: what the notifier is given to send.    *)
EXTENDS RunMarker, Rules, TLAPS

(***************************************************************************)
(* The crash marker.  What makes its three properties inductive: a save    *)
(* that is neither overlapped nor refused by the file system makes the     *)
(* file say what memory says, and whatever else lies around under a name   *)
(* was written by the process that runs, or is older than its boot.        *)
(***************************************************************************)

Alive == {"booted", "serving", "stopping", "stopped"}

\* A marker the process that runs has made.
Own(m) == /\ m.run = run /\ m.state \in {"running", "stopped"}
          /\ m.state = "running" => m.restarts <= streak

\* A marker is credible: it is of a run that was, it counts no more restarts than
\* there were, and calls a run that stopped undisturbed not running.
Credible(m) ==
  /\ m.run <= run
  /\ m.state = "running" => /\ m.restarts <= streak
                            /\ \/ m.run \notin stoppedClean
                               \/ m.run \in muddled

\* Names and open files.  The third inode is one that another writer renamed.
Names ==
  /\ path # Nil => path # tmp
  /\ \A w \in Writers : pc[w] = "write" <=> fd[w] # Nil

\* What each phase of a process implies.
Phases ==
  /\ life # "down" => run >= 1
  /\ life \in {"down", "booted"} => pc = Idle /\ current = NoMarker
  /\ life = "booted" => previous = readMarker
  /\ life = "stopped" => pc["main"] = "idle"
  /\ life \in {"down", "booted"} => verdict = "none"
  /\ streak <= (IF life = "booted" THEN run - 1 ELSE run)

\* The histories are of runs that were; they say of this run what its phase is.
Histories ==
  /\ \A r \in crashed : r <= run /\ (r = run => life = "down")
  /\ \A r \in stoppedClean : r <= run /\ (r = run => life \in {"down", "stopped"})
  /\ \A r \in muddled : r <= run

\* What is in memory is of this run.
InMemory ==
  /\ current = NoMarker \/ Own(current)
  /\ \A w \in Writers : pc[w] # "idle" => Own(lr[w])

\* What is on the disk: the marker is credible, and the temporary file is the
\* work of this process from the moment a writer has opened it.
OnDisk ==
  /\ path # Nil => Credible(data[path])
  /\ tmp # Nil /\ (\E w \in Writers : pc[w] \in {"write", "rename"})
       => data[tmp] \in {Empty, Torn} \/ Own(data[tmp])

\* What the process found at its boot.
Found ==
  life # "down" =>
    /\ previous.run < run
    /\ previous.state = "running" => \/ previous.run \notin stoppedClean
                                     \/ previous.run \in muddled
    /\ run - 1 \in crashed \ muddled => previous.state = "running"
    /\ verdict = "started" => previous.state # "running"
    /\ verdict \in {"crashed", "looping"} => previous.state = "running"
    /\ verdict = "looping" => streak >= RestartLoopThreshold

\* A run whose saves were undisturbed so far has at most one writer under way,
\* with the temporary file to itself; and once the main goroutine's last save is
\* over the file is what memory says, which is what the phase says.
Undisturbed ==
  run \notin muddled /\ life # "down" =>
    /\ \A w \in Writers :
         /\ pc[w] # "idle" => \A x \in Writers \ {w} : pc[x] = "idle"
         /\ pc[w] # "remove"
         /\ pc[w] = "write" => fd[w] = tmp /\ data[tmp] = Empty
         /\ pc[w] = "rename" => tmp # Nil /\ data[tmp] = lr[w]
    /\ life \in {"stopping", "stopped"} => pc["beat"] = "idle"
    /\ pc["beat"] # "idle" => lr["beat"] = current /\ current.state = "running"
    /\ pc["main"] # "idle" =>
         /\ lr["main"].state = IF life = "serving" THEN "running" ELSE "stopped"
         /\ pc["main"] # "assign" => current = lr["main"]
    /\ life \in {"serving", "stopping", "stopped"} /\ pc["main"] = "idle" =>
         /\ path # Nil /\ data[path] = current
         /\ current.state = IF life = "serving" THEN "running" ELSE "stopped"

\* A run that died while it was serving undisturbed has left its marker.
Left ==
  life = "down" /\ run \in crashed \ muddled =>
    path # Nil /\ data[path].state = "running"

IInv == /\ TypeOK /\ Names /\ Phases /\ Histories /\ InMemory
        /\ OnDisk /\ Found /\ Undisturbed /\ Left
-----------------------------------------------------------------------------
(* Facts about markers and inodes.                                         *)

\* What the three markers that are none look like.
LEMMA Blanks ==
  /\ NoMarker \in Marker
  /\ NoMarker.run = 0 /\ NoMarker.state = "" /\ NoMarker.restarts = 0
  /\ Empty.run = 0 /\ Empty.state = "empty" /\ Empty.restarts = 0
  /\ Torn.run = 0 /\ Torn.state = "torn" /\ Torn.restarts = 0
  BY MarkerAssumption DEF NoMarker, Marker, Empty, Torn

\* Of a marker or a blank the numbers are numbers.
LEMMA MarkerType ==
  ASSUME NEW m \in Marker \cup {Empty, Torn}
  PROVE  m.run \in Nat /\ m.restarts \in Nat
<1>1. CASE m \in Marker
  <2>1. m.run \in 0..MaxRuns /\ m.restarts \in 0..MaxRuns
    BY <1>1 DEF Marker
  <2> QED  BY <2>1, MarkerAssumption
<1>2. CASE m \in {Empty, Torn}
  <2>1. m.run = 0 /\ m.restarts = 0
    BY <1>2, Blanks
  <2> QED  BY <2>1
<1> QED  BY <1>1, <1>2

\* A marker that says running or stopped is none of the blanks.
LEMMA Distinct ==
  ASSUME NEW m, m.state \in {"running", "stopped"}
  PROVE  m # NoMarker /\ m # Empty /\ m # Torn
  BY Blanks

\* A file without a marker in it is never held against a run.
LEMMA BlanksAreCredible ==
  ASSUME TypeOK
  PROVE  /\ Credible(NoMarker) /\ Credible(Empty) /\ Credible(Torn)
         /\ NoMarker.run \in Nat
<1>1. \A m : m.run = 0 /\ m.state # "running" => Credible(m)
  <2>1. run >= 0
    BY DEF TypeOK
  <2> QED  BY <2>1 DEF Credible
<1>2. /\ NoMarker.run = 0 /\ NoMarker.state # "running"
      /\ Empty.run = 0 /\ Empty.state # "running"
      /\ Torn.run = 0 /\ Torn.state # "running"
  BY Blanks
<1> QED  BY <1>1, <1>2

\* A set of inodes that is not empty has a least one.
LEMMA LeastInode ==
  ASSUME NEW S, S \subseteq Inodes, S # {}
  PROVE  (CHOOSE i \in S : \A j \in S : i <= j) \in S
<1>1. \E i \in S : \A j \in S : i <= j
  <2>1. CASE 1 \in S  BY <2>1 DEF Inodes
  <2>2. CASE 1 \notin S /\ 2 \in S  BY <2>2 DEF Inodes
  <2>3. CASE 1 \notin S /\ 2 \notin S
    <3>1. \A i \in S : i = 3
      BY <2>3 DEF Inodes
    <3> QED  BY <3>1
  <2> QED  BY <2>1, <2>2, <2>3
<1> QED  BY <1>1

\* There is a new inode for a temporary file that does not exist.
LEMMA FreeInode ==
  ASSUME TypeOK, Names, NEW w \in Writers, pc[w] = "open", tmp = Nil
  PROVE  /\ (CHOOSE i \in free : \A j \in free : i <= j) \in Inodes
         /\ (CHOOSE i \in free : \A j \in free : i <= j) # path
<1>1. fd[w] = Nil
  BY DEF Names
<1>2. PICK x \in Writers : Writers = {w, x}
  BY DEF Writers
<1>3. free = Inodes \ {path, fd[x], Nil}
  BY <1>1, <1>2 DEF free, Writers
<1>4. free \subseteq Inodes /\ free # {}
  BY <1>3 DEF Inodes, Nil
<1> DEFINE least == CHOOSE i \in free : \A j \in free : i <= j
<1>5. least \in free
  BY <1>4, LeastInode
<1> QED  BY <1>5, <1>3, <1>4

LEMMA IInvInit == Init => IInv
<1> SUFFICES ASSUME Init PROVE IInv
  OBVIOUS
<1> USE DEF Init
<1>1. TypeOK
  <2>1. Empty \in Marker \cup {Empty, Torn} /\ NoMarker \in Marker
    BY Blanks
  <2>2. pc \in [Writers -> {"idle"}] /\ lr \in [Writers -> Marker]
    BY <2>1 DEF Idle
  <2>3. /\ fd \in [Writers -> Inodes \cup {Nil}]
        /\ data \in [Inodes -> Marker \cup {Empty, Torn}]
    BY <2>1
  <2>4. run \in 0..MaxRuns /\ streak \in 0..MaxRuns
    BY MarkerAssumption
  <2> QED  BY <2>1, <2>2, <2>3, <2>4 DEF TypeOK
<1>2. Names
  BY DEF Names, Idle, Nil, Writers
<1>3. Phases /\ Histories /\ InMemory
  BY DEF Phases, Histories, InMemory, Idle, Writers
<1>4. OnDisk /\ Found /\ Undisturbed /\ Left
  BY DEF OnDisk, Found, Undisturbed, Left, Nil
<1> QED  BY <1>1, <1>2, <1>3, <1>4 DEF IInv
-----------------------------------------------------------------------------
(* The life of a process: it boots, and it ends.                           *)

\* A new process reads the marker; nothing on the disk changes.
LEMMA BootStep == IInv /\ Boot => IInv'
<1> SUFFICES ASSUME IInv, Boot PROVE IInv'
  OBVIOUS
<1> USE DEF IInv, Boot, memory, writers, disk, history
<1>0. /\ run \in Nat /\ streak \in Nat /\ run' = run + 1 /\ run < MaxRuns
      /\ life = "down" /\ life' = "booted" /\ previous' = readMarker
      /\ current' = current /\ pc' = pc /\ lr' = lr /\ fd' = fd /\ path' = path
      /\ tmp' = tmp /\ data' = data /\ verdict' = verdict /\ streak' = streak
      /\ stoppedClean' = stoppedClean /\ crashed' = crashed /\ muddled' = muddled
      /\ pc = Idle /\ current = NoMarker /\ verdict = "none"
      /\ \A w \in Writers : pc[w] = "idle"
  BY MarkerAssumption DEF TypeOK, Phases, Idle
<1> HIDE DEF IInv, Boot, memory, writers, disk, history
<1> USE DEF IInv
<1>1. readMarker \in Marker /\ readMarker' = readMarker
  BY <1>0, Blanks DEF readMarker, TypeOK
<1>2. TypeOK'
  BY <1>0, <1>1, MarkerAssumption DEF TypeOK
<1>3. Names' /\ Phases' /\ Histories'
  BY <1>0, <1>1 DEF Names, Phases, Histories, Runs, TypeOK
<1>4. InMemory'
  BY <1>0 DEF InMemory
<1>5. \A m : m.run \in Nat /\ Credible(m) => Credible(m)'
  BY <1>0 DEF Credible
<1>6. path # Nil => data[path].run \in Nat
  BY MarkerType DEF TypeOK
<1>7. OnDisk'
  BY <1>0, <1>5, <1>6 DEF OnDisk
<1>8. Credible(readMarker) /\ readMarker.run \in Nat
  <2>1. Credible(NoMarker) /\ NoMarker.run \in Nat
    BY BlanksAreCredible
  <2>2. CASE path = Nil
    BY <2>1, <2>2 DEF readMarker
  <2>3. CASE path # Nil
    BY <2>1, <2>3, <1>6 DEF readMarker, OnDisk
  <2> QED  BY <2>2, <2>3
<1>9. run \in crashed \ muddled => readMarker.state = "running"
  <2> SUFFICES ASSUME run \in crashed \ muddled PROVE readMarker.state = "running"
    OBVIOUS
  <2>1. path # Nil /\ data[path].state = "running"
    BY <1>0 DEF Left
  <2>2. data[path] \notin {Empty, Torn}
    BY <2>1, Distinct
  <2> QED  BY <2>1, <2>2 DEF readMarker
<1>10. Found'
  BY <1>0, <1>8, <1>9 DEF Found, Credible
<1>11. Undisturbed' /\ Left'
  BY <1>0 DEF Undisturbed, Left, Writers
<1> QED  BY <1>2, <1>3, <1>4, <1>7, <1>10, <1>11

\* A process that dies leaves what has a name, and its histories.
LEMMA DieStep == IInv /\ life # "down" /\ Die => IInv'
<1> SUFFICES ASSUME IInv, life # "down", Die PROVE IInv'
  OBVIOUS
<1> USE DEF IInv
<1>0. /\ life' = "down" /\ pc' = Idle /\ lr' = [w \in Writers |-> NoMarker]
      /\ fd' = [w \in Writers |-> Nil] /\ previous' = NoMarker /\ current' = NoMarker
      /\ verdict' = "none" /\ run' = run /\ path' = path /\ tmp' = tmp
      /\ streak' = streak /\ stoppedClean' = stoppedClean /\ muddled' = muddled
      /\ data' = [i \in Inodes |-> IF i \in {path, tmp} THEN data[i] ELSE Empty]
      /\ crashed' = IF life = "serving" /\ pc["main"] = "idle"
                    THEN crashed \cup {run} ELSE crashed
      /\ run \in Nat /\ streak \in Nat /\ run >= 1 /\ run <= MaxRuns
  BY DEF Die, TypeOK, Phases
<1>1. \A w \in Writers : pc'[w] = "idle" /\ fd'[w] = Nil /\ lr'[w] = NoMarker
  BY <1>0 DEF Idle
<1>2. path # Nil => data'[path] = data[path]
  BY <1>0 DEF TypeOK
<1>3. TypeOK'
  <2>1. pc' \in [Writers -> {"idle"}]
    BY <1>0 DEF Idle
  <2>2. lr' \in [Writers -> Marker] /\ fd' \in [Writers -> Inodes \cup {Nil}]
    BY <1>0, Blanks
  <2>3. data' \in [Inodes -> Marker \cup {Empty, Torn}]
    BY <1>0 DEF TypeOK
  <2>4. crashed' \subseteq Runs
    BY <1>0 DEF TypeOK, Runs
  <2> QED  BY <1>0, <2>1, <2>2, <2>3, <2>4, Blanks DEF TypeOK
<1>4. Names'
  BY <1>0, <1>1 DEF Names
<1>5. Phases' /\ InMemory'
  BY <1>0, <1>1 DEF Phases, InMemory
<1>6. Histories'
  BY <1>0 DEF Histories
<1>7. OnDisk'
  BY <1>0, <1>1, <1>2 DEF OnDisk, Credible
<1>8. Found' /\ Undisturbed'
  BY <1>0 DEF Found, Undisturbed
<1>9. Left'
  <2> SUFFICES ASSUME run \in crashed' \ muddled
               PROVE  path # Nil /\ data'[path].state = "running"
    BY <1>0 DEF Left
  <2>1. life = "serving" /\ pc["main"] = "idle"
    BY <1>0 DEF Histories
  <2> QED  BY <2>1, <1>0, <1>2 DEF Undisturbed
<1> QED  BY <1>3, <1>4, <1>5, <1>6, <1>7, <1>8, <1>9

\* NotifyStopped has returned: from now on the run counts as one that stopped.
LEMMA StoppedStep == IInv /\ Stopped => IInv'
<1> SUFFICES ASSUME IInv, Stopped PROVE IInv'
  OBVIOUS
<1> USE DEF IInv
<1>0. /\ life = "stopping" /\ pc["main"] = "idle" /\ life' = "stopped"
      /\ stoppedClean' = stoppedClean \cup {run}
      /\ run' = run /\ previous' = previous /\ current' = current
      /\ pc' = pc /\ lr' = lr /\ fd' = fd /\ path' = path /\ tmp' = tmp
      /\ data' = data /\ verdict' = verdict /\ streak' = streak
      /\ crashed' = crashed /\ muddled' = muddled
      /\ run \in Nat /\ streak \in Nat /\ run >= 1 /\ run <= MaxRuns
  BY DEF Stopped, busy, memory, writers, disk, TypeOK, Phases
<1>1. TypeOK'
  BY <1>0 DEF TypeOK, Runs
<1>2. Names' /\ Phases' /\ Histories' /\ InMemory'
  BY <1>0 DEF Names, Phases, Histories, InMemory, Own, readMarker
<1>3. run \notin muddled => path # Nil /\ data[path].state = "stopped"
  BY <1>0 DEF Undisturbed
<1>4. OnDisk'
  BY <1>0, <1>3 DEF OnDisk, Credible, Own
<1>5. Found'
  BY <1>0 DEF Found
<1>6. Undisturbed' /\ Left'
  BY <1>0 DEF Undisturbed, Left
<1> QED  BY <1>1, <1>2, <1>4, <1>5, <1>6
-----------------------------------------------------------------------------
(* saveMarker.                                                             *)

\* What holds while a writer is under way.
LEMMA UnderWay ==
  ASSUME IInv, NEW w \in Writers, pc[w] # "idle"
  PROVE  /\ life \in {"serving", "stopping", "stopped"}
         /\ Own(lr[w]) /\ \A m : Own(m) => Credible(m)
         /\ run \notin muddled => /\ \A x \in Writers \ {w} : pc[x] = "idle"
                                  /\ life # "stopped"
<1> USE DEF IInv
<1>1. life \in {"serving", "stopping", "stopped"}
  BY DEF TypeOK, Phases, Idle
<1>2. Own(lr[w])
  BY DEF InMemory
<1>3. run \notin muddled => (\A x \in Writers \ {w} : pc[x] = "idle") /\ life # "stopped"
  BY <1>1 DEF Undisturbed, Phases, Writers
<1>4. run \in stoppedClean => run \in muddled
  BY <1>1, <1>3 DEF Histories
<1>5. \A m : Own(m) => Credible(m)
  BY <1>4 DEF Own, Credible, TypeOK
<1> QED  BY <1>1, <1>2, <1>3, <1>5

\* A step of a save leaves the phase of the process alone, and with it what the
\* process found and what the histories say.
LEMMA Aside ==
  ASSUME IInv, life \in {"serving", "stopping", "stopped"}, run' = run,
         life' = life, previous' = previous, verdict' = verdict, streak' = streak,
         stoppedClean' = stoppedClean, crashed' = crashed,
         muddled' \in {muddled, muddled \cup {run}},
         pc["main"] = "idle" => pc'["main"] = "idle"
  PROVE  /\ Phases' /\ Histories' /\ Found' /\ Left'
         /\ \A m : Credible(m) => Credible(m)'
         /\ \A m : Own(m) <=> Own(m)'
         /\ run' \in 0..MaxRuns /\ streak' \in 0..MaxRuns /\ muddled' \subseteq Runs
<1> USE DEF IInv
<1>1. run \in Nat /\ streak \in Nat /\ run \in 1..MaxRuns /\ streak \in 0..MaxRuns
  BY MarkerAssumption DEF TypeOK, Phases
<1>2. Phases'
  BY DEF Phases
<1>3. Histories'
  BY <1>1 DEF Histories
<1>4. Found'
  <2>1. previous.run < run
    BY DEF Found
  <2>2. previous.run \in muddled <=> previous.run \in muddled'
    BY <2>1, <1>1, MarkerType DEF TypeOK
  <2>3. run - 1 \in muddled <=> run - 1 \in muddled'
    BY <1>1
  <2> QED  BY <2>1, <2>2, <2>3 DEF Found
<1>5. Left'
  BY DEF Left
<1>6. \A m : Credible(m) => Credible(m)'
  BY DEF Credible
<1>7. \A m : Own(m) <=> Own(m)'
  BY DEF Own
<1>8. muddled' \subseteq Runs
  BY <1>1 DEF TypeOK, Runs
<1> QED  BY <1>1, <1>2, <1>3, <1>4, <1>5, <1>6, <1>7, <1>8

\* A writer puts its marker into memory.
LEMMA AssignStep ==
  ASSUME IInv, NEW w \in Writers, Assign(w)
  PROVE  IInv'
<1> USE DEF IInv
<1>0. /\ pc[w] = "assign" /\ pc' = [pc EXCEPT ![w] = "open"] /\ current' = lr[w]
      /\ run' = run /\ life' = life /\ previous' = previous /\ lr' = lr /\ fd' = fd
      /\ path' = path /\ tmp' = tmp /\ data' = data /\ verdict' = verdict
      /\ streak' = streak /\ stoppedClean' = stoppedClean /\ crashed' = crashed
      /\ muddled' = muddled
  BY DEF Assign, disk, history
<1>1. pc \in [Writers -> {"idle", "assign", "open", "write", "rename", "remove"}]
  BY DEF TypeOK
<1>2. pc'[w] = "open" /\ \A x \in Writers \ {w} : pc'[x] = pc[x]
  BY <1>0, <1>1
<1>3. /\ life \in {"serving", "stopping", "stopped"}
      /\ Own(lr[w]) /\ \A m : Own(m) => Credible(m)
      /\ run \notin muddled => /\ \A x \in Writers \ {w} : pc[x] = "idle"
                               /\ life # "stopped"
  BY <1>0, UnderWay
<1>4. /\ Phases' /\ Histories' /\ Found' /\ Left'
      /\ \A m : Credible(m) => Credible(m)'
      /\ \A m : Own(m) <=> Own(m)'
      /\ run' \in 0..MaxRuns /\ streak' \in 0..MaxRuns /\ muddled' \subseteq Runs
  BY <1>0, <1>2, <1>3, Aside DEF Writers
<1>5. TypeOK'
  <2>1. pc' \in [Writers -> {"idle", "assign", "open", "write", "rename", "remove"}]
    BY <1>0, <1>1
  <2>2. lr[w] \in Marker
    BY DEF TypeOK
  <2> QED  BY <1>0, <1>4, <2>1, <2>2 DEF TypeOK
<1>6. Names'
  BY <1>0, <1>2 DEF Names
<1>7. InMemory'
  BY <1>0, <1>2, <1>3, <1>4 DEF InMemory
<1>8. OnDisk'
  BY <1>0, <1>2, <1>4 DEF OnDisk
<1>9. Undisturbed'
  <2> SUFFICES ASSUME run \notin muddled PROVE Undisturbed'
    BY <1>0 DEF Undisturbed
  <2>1. CASE w = "main"
    BY <2>1, <1>0, <1>2, <1>3 DEF Undisturbed, Writers
  <2>2. CASE w = "beat"
    BY <2>2, <1>0, <1>2, <1>3 DEF Undisturbed, Writers
  <2> QED  BY <2>1, <2>2 DEF Writers
<1> QED  BY <1>4, <1>5, <1>6, <1>7, <1>8, <1>9

\* A writer truncates the temporary file, or creates it.
LEMMA OpenStep ==
  ASSUME IInv, NEW w \in Writers, Open(w)
  PROVE  IInv'
<1> USE DEF IInv
<1>0. /\ pc[w] = "open" /\ pc' = [pc EXCEPT ![w] = "write"]
      /\ tmp' = IF tmp # Nil THEN tmp ELSE CHOOSE i \in free : \A j \in free : i <= j
      /\ data' = [data EXCEPT ![tmp'] = Empty] /\ fd' = [fd EXCEPT ![w] = tmp']
      /\ run' = run /\ life' = life /\ previous' = previous /\ current' = current
      /\ lr' = lr /\ path' = path /\ verdict' = verdict
      /\ streak' = streak /\ stoppedClean' = stoppedClean /\ crashed' = crashed
      /\ muddled' = muddled
  BY DEF Open, memory, history
<1>1. /\ pc \in [Writers -> {"idle", "assign", "open", "write", "rename", "remove"}]
      /\ fd \in [Writers -> Inodes \cup {Nil}] /\ lr \in [Writers -> Marker]
      /\ data \in [Inodes -> Marker \cup {Empty, Torn}]
      /\ path \in Inodes \cup {Nil} /\ tmp \in Inodes \cup {Nil}
  BY DEF TypeOK
<1>2. tmp' \in Inodes /\ tmp' # Nil /\ tmp' # path
  <2>1. CASE tmp # Nil
    <3>1. tmp' = tmp
      BY <2>1, <1>0
    <3> QED  BY <2>1, <3>1, <1>1 DEF Names
  <2>2. CASE tmp = Nil
    BY <2>2, <1>0, FreeInode DEF Inodes, Nil
  <2> QED  BY <2>1, <2>2
<1>3. /\ pc'[w] = "write" /\ fd'[w] = tmp' /\ data'[tmp'] = Empty
      /\ \A x \in Writers \ {w} : pc'[x] = pc[x] /\ fd'[x] = fd[x]
      /\ \A i \in Inodes \ {tmp'} : data'[i] = data[i]
  BY <1>0, <1>1, <1>2
<1>4. /\ life \in {"serving", "stopping", "stopped"}
      /\ Own(lr[w]) /\ \A m : Own(m) => Credible(m)
      /\ run \notin muddled => /\ \A x \in Writers \ {w} : pc[x] = "idle"
                               /\ life # "stopped"
  BY <1>0, UnderWay
<1>5. /\ Phases' /\ Histories' /\ Found' /\ Left'
      /\ \A m : Credible(m) => Credible(m)'
      /\ \A m : Own(m) <=> Own(m)'
      /\ run' \in 0..MaxRuns /\ streak' \in 0..MaxRuns /\ muddled' \subseteq Runs
  BY <1>0, <1>3, <1>4, Aside DEF Writers
<1>6. TypeOK'
  <2>1. pc' \in [Writers -> {"idle", "assign", "open", "write", "rename", "remove"}]
    BY <1>0, <1>1
  <2>2. fd' \in [Writers -> Inodes \cup {Nil}]
    BY <1>0, <1>1, <1>2
  <2>3. data' \in [Inodes -> Marker \cup {Empty, Torn}]
    BY <1>0, <1>1, <1>2
  <2> QED  BY <1>0, <1>2, <1>5, <2>1, <2>2, <2>3 DEF TypeOK
<1>7. Names'
  BY <1>0, <1>2, <1>3 DEF Names
<1>8. InMemory'
  BY <1>0, <1>3, <1>4, <1>5 DEF InMemory
<1>9. path # Nil => data'[path] = data[path]
  BY <1>1, <1>2, <1>3
<1>10. OnDisk'
  BY <1>0, <1>3, <1>5, <1>9 DEF OnDisk
<1>11. Undisturbed'
  <2> SUFFICES ASSUME run \notin muddled PROVE Undisturbed'
    BY <1>0 DEF Undisturbed
  <2>1. CASE w = "main"
    BY <2>1, <1>0, <1>3, <1>4 DEF Undisturbed, Writers
  <2>2. CASE w = "beat"
    BY <2>2, <1>0, <1>3, <1>4, <1>9 DEF Undisturbed, Writers
  <2> QED  BY <2>1, <2>2 DEF Writers
<1> QED  BY <1>5, <1>6, <1>7, <1>8, <1>10, <1>11

\* A writer writes what it has at the start of the file it has open.
LEMMA WriteStep ==
  ASSUME IInv, NEW w \in Writers, Write(w)
  PROVE  IInv'
<1> USE DEF IInv
<1>0. PICK result \in {lr[w], Torn} :
        /\ result = Torn => data[fd[w]] # Empty
        /\ data' = [data EXCEPT ![fd[w]] = result]
  BY DEF Write
<1>1. /\ pc[w] = "write" /\ pc' = [pc EXCEPT ![w] = "rename"]
      /\ fd' = [fd EXCEPT ![w] = Nil]
      /\ run' = run /\ life' = life /\ previous' = previous /\ current' = current
      /\ lr' = lr /\ path' = path /\ tmp' = tmp /\ verdict' = verdict
      /\ streak' = streak /\ stoppedClean' = stoppedClean /\ crashed' = crashed
      /\ muddled' = muddled
  BY DEF Write, memory, history
<1>2. /\ pc \in [Writers -> {"idle", "assign", "open", "write", "rename", "remove"}]
      /\ fd \in [Writers -> Inodes \cup {Nil}] /\ lr \in [Writers -> Marker]
      /\ data \in [Inodes -> Marker \cup {Empty, Torn}]
      /\ path \in Inodes \cup {Nil} /\ tmp \in Inodes \cup {Nil}
  BY DEF TypeOK
<1>3. fd[w] \in Inodes
  BY <1>1, <1>2 DEF Names
<1>4. /\ pc'[w] = "rename" /\ fd'[w] = Nil /\ data'[fd[w]] = result
      /\ \A x \in Writers \ {w} : pc'[x] = pc[x] /\ fd'[x] = fd[x]
      /\ \A i \in Inodes \ {fd[w]} : data'[i] = data[i]
  BY <1>0, <1>1, <1>2, <1>3
<1>5. /\ life \in {"serving", "stopping", "stopped"}
      /\ Own(lr[w]) /\ \A m : Own(m) => Credible(m)
      /\ run \notin muddled => /\ \A x \in Writers \ {w} : pc[x] = "idle"
                               /\ life # "stopped"
  BY <1>1, UnderWay
<1>6. /\ Phases' /\ Histories' /\ Found' /\ Left'
      /\ \A m : Credible(m) => Credible(m)'
      /\ \A m : Own(m) <=> Own(m)'
      /\ run' \in 0..MaxRuns /\ streak' \in 0..MaxRuns /\ muddled' \subseteq Runs
  BY <1>1, <1>4, <1>5, Aside DEF Writers
<1>7. TypeOK'
  <2>1. pc' \in [Writers -> {"idle", "assign", "open", "write", "rename", "remove"}]
    BY <1>1, <1>2
  <2>2. fd' \in [Writers -> Inodes \cup {Nil}]
    BY <1>1, <1>2
  <2>3. data' \in [Inodes -> Marker \cup {Empty, Torn}]
    BY <1>0, <1>2, <1>3
  <2> QED  BY <1>1, <1>6, <2>1, <2>2, <2>3 DEF TypeOK
<1>8. Names'
  BY <1>1, <1>4 DEF Names
<1>9. InMemory'
  BY <1>1, <1>4, <1>5, <1>6 DEF InMemory
<1>10. result = Torn \/ Own(result)
  BY <1>0, <1>5
<1>11. OnDisk'
  <2>1. Credible(Torn)
    BY BlanksAreCredible
  <2>2. Credible(result)
    BY <2>1, <1>5, <1>10
  <2>3. path # Nil => Credible(data'[path])
    BY <1>2, <1>4, <2>2 DEF OnDisk
  <2>4. tmp # Nil => data'[tmp] \in {Empty, Torn} \/ Own(data'[tmp])
    BY <1>1, <1>2, <1>4, <1>10 DEF OnDisk
  <2> QED  BY <1>1, <1>6, <2>3, <2>4 DEF OnDisk
<1>12. Undisturbed'
  <2> SUFFICES ASSUME run \notin muddled PROVE Undisturbed'
    BY <1>1 DEF Undisturbed
  <2>1. fd[w] = tmp /\ data[tmp] = Empty /\ tmp # Nil /\ data'[tmp] = lr[w]
    <3>1. fd[w] = tmp /\ data[tmp] = Empty
      BY <1>1, <1>5 DEF Undisturbed
    <3> QED  BY <3>1, <1>0, <1>3, <1>4 DEF Inodes, Nil
  <2>2. path # Nil => data'[path] = data[path]
    BY <2>1, <1>2, <1>4 DEF Names
  <2>3. CASE w = "main"
    BY <2>1, <2>3, <1>1, <1>4, <1>5 DEF Undisturbed, Writers
  <2>4. CASE w = "beat"
    BY <2>1, <2>2, <2>4, <1>1, <1>4, <1>5 DEF Undisturbed, Writers
  <2> QED  BY <2>3, <2>4 DEF Writers
<1> QED  BY <1>6, <1>7, <1>8, <1>9, <1>11, <1>12

\* A file keeps its contents while it has a name.
LEMMA UnlinkStep ==
  ASSUME TypeOK, NEW i \in Inodes \cup {Nil}
  PROVE  /\ Unlink(i) \in [Inodes -> Marker \cup {Empty, Torn}]
         /\ \A j \in Inodes \ {i} : Unlink(i)[j] = data[j]
  BY DEF TypeOK, Unlink

\* A writer renames whatever has the temporary name by now.
LEMMA RenameStep ==
  ASSUME IInv, NEW w \in Writers, Rename(w)
  PROVE  IInv'
<1> USE DEF IInv
<1>1. /\ pc[w] = "rename" /\ pc' = [pc EXCEPT ![w] = "idle"]
      /\ lr' = [lr EXCEPT ![w] = NoMarker] /\ tmp # Nil
      /\ path' = tmp /\ tmp' = Nil /\ data' = Unlink(path)
      /\ run' = run /\ life' = life /\ previous' = previous /\ current' = current
      /\ fd' = fd /\ verdict' = verdict
      /\ streak' = streak /\ stoppedClean' = stoppedClean /\ crashed' = crashed
      /\ muddled' = muddled
  BY DEF Rename, Finish, memory, history
<1>2. /\ pc \in [Writers -> {"idle", "assign", "open", "write", "rename", "remove"}]
      /\ fd \in [Writers -> Inodes \cup {Nil}] /\ lr \in [Writers -> Marker]
      /\ data \in [Inodes -> Marker \cup {Empty, Torn}]
      /\ path \in Inodes \cup {Nil} /\ tmp \in Inodes \cup {Nil}
  BY DEF TypeOK
<1>3. /\ pc'[w] = "idle" /\ lr'[w] = NoMarker
      /\ \A x \in Writers \ {w} : pc'[x] = pc[x] /\ lr'[x] = lr[x]
  BY <1>1, <1>2
<1>4. tmp \in Inodes /\ tmp # path /\ data'[tmp] = data[tmp]
  BY <1>1, <1>2, UnlinkStep DEF Names
<1>5. /\ life \in {"serving", "stopping", "stopped"}
      /\ Own(lr[w]) /\ \A m : Own(m) => Credible(m)
      /\ run \notin muddled => /\ \A x \in Writers \ {w} : pc[x] = "idle"
                               /\ life # "stopped"
  BY <1>1, UnderWay
<1>6. /\ Phases' /\ Histories' /\ Found' /\ Left'
      /\ \A m : Credible(m) => Credible(m)'
      /\ \A m : Own(m) <=> Own(m)'
      /\ run' \in 0..MaxRuns /\ streak' \in 0..MaxRuns /\ muddled' \subseteq Runs
  BY <1>1, <1>3, <1>5, Aside DEF Writers
<1>7. TypeOK'
  <2>1. pc' \in [Writers -> {"idle", "assign", "open", "write", "rename", "remove"}]
    BY <1>1, <1>2
  <2>2. lr' \in [Writers -> Marker]
    BY <1>1, <1>2, Blanks
  <2>3. data' \in [Inodes -> Marker \cup {Empty, Torn}]
    BY <1>1, <1>2, UnlinkStep
  <2> QED  BY <1>1, <1>4, <1>6, <2>1, <2>2, <2>3 DEF TypeOK
<1>8. Names'
  <2>1. \A x \in Writers : pc'[x] = "write" <=> fd'[x] # Nil
    BY <1>1, <1>3 DEF Names
  <2> QED  BY <1>1, <2>1 DEF Names
<1>9. InMemory'
  BY <1>1, <1>3, <1>6 DEF InMemory
<1>10. OnDisk'
  <2>1. data[tmp] \in {Empty, Torn} \/ Own(data[tmp])
    BY <1>1 DEF OnDisk
  <2>2. Credible(data'[tmp])
    BY <2>1, <1>4, <1>5, BlanksAreCredible
  <2> QED  BY <1>1, <1>6, <2>2 DEF OnDisk
<1>11. Undisturbed'
  <2> SUFFICES ASSUME run \notin muddled PROVE Undisturbed'
    BY <1>1 DEF Undisturbed
  <2>1. data'[tmp] = lr[w]
    BY <1>1, <1>4, <1>5 DEF Undisturbed
  <2>2. CASE w = "main"
    BY <2>1, <2>2, <1>1, <1>3, <1>5 DEF Undisturbed, Writers
  <2>3. CASE w = "beat"
    BY <2>1, <2>3, <1>1, <1>3, <1>5 DEF Undisturbed, Writers
  <2> QED  BY <2>2, <2>3 DEF Writers
<1> QED  BY <1>6, <1>7, <1>8, <1>9, <1>10, <1>11

\* The other writer was faster: its rename has taken the temporary file.
LEMMA RenameFailsStep ==
  ASSUME IInv, NEW w \in Writers, RenameFails(w)
  PROVE  IInv'
<1> USE DEF IInv
<1>1. /\ pc[w] = "rename" /\ tmp = Nil /\ pc' = [pc EXCEPT ![w] = "remove"]
      /\ run' = run /\ life' = life /\ previous' = previous /\ current' = current
      /\ lr' = lr /\ fd' = fd /\ path' = path /\ tmp' = tmp /\ data' = data
      /\ verdict' = verdict /\ streak' = streak /\ stoppedClean' = stoppedClean
      /\ crashed' = crashed /\ muddled' = muddled
  BY DEF RenameFails, memory, disk, history
<1>2. pc \in [Writers -> {"idle", "assign", "open", "write", "rename", "remove"}]
  BY DEF TypeOK
<1>3. pc'[w] = "remove" /\ \A x \in Writers \ {w} : pc'[x] = pc[x]
  BY <1>1, <1>2
<1>4. life \in {"serving", "stopping", "stopped"} /\ Own(lr[w])
  BY <1>1, UnderWay
<1>5. /\ Phases' /\ Histories' /\ Found' /\ Left'
      /\ \A m : Credible(m) => Credible(m)'
      /\ \A m : Own(m) <=> Own(m)'
      /\ run' \in 0..MaxRuns /\ streak' \in 0..MaxRuns /\ muddled' \subseteq Runs
  BY <1>1, <1>3, <1>4, Aside DEF Writers
<1>6. TypeOK'
  <2>1. pc' \in [Writers -> {"idle", "assign", "open", "write", "rename", "remove"}]
    BY <1>1, <1>2
  <2> QED  BY <1>1, <1>5, <2>1 DEF TypeOK
<1>7. Names'
  BY <1>1, <1>3 DEF Names
<1>8. InMemory' /\ OnDisk'
  BY <1>1, <1>3, <1>4, <1>5 DEF InMemory, OnDisk
<1>9. Undisturbed'
  BY <1>1, <1>4 DEF Undisturbed
<1> QED  BY <1>5, <1>6, <1>7, <1>8, <1>9

\* ... and on the error path the writer removes what has the temporary name.
LEMMA RemoveStep ==
  ASSUME IInv, NEW w \in Writers, Remove(w)
  PROVE  IInv'
<1> USE DEF IInv
<1>1. /\ pc[w] = "remove" /\ pc' = [pc EXCEPT ![w] = "idle"]
      /\ lr' = [lr EXCEPT ![w] = NoMarker] /\ tmp' = Nil /\ data' = Unlink(tmp)
      /\ run' = run /\ life' = life /\ previous' = previous /\ current' = current
      /\ fd' = fd /\ path' = path /\ verdict' = verdict
      /\ streak' = streak /\ stoppedClean' = stoppedClean /\ crashed' = crashed
      /\ muddled' = muddled
  BY DEF Remove, Finish, memory, history
<1>2. /\ pc \in [Writers -> {"idle", "assign", "open", "write", "rename", "remove"}]
      /\ fd \in [Writers -> Inodes \cup {Nil}] /\ lr \in [Writers -> Marker]
      /\ data \in [Inodes -> Marker \cup {Empty, Torn}]
      /\ path \in Inodes \cup {Nil} /\ tmp \in Inodes \cup {Nil}
  BY DEF TypeOK
<1>3. /\ pc'[w] = "idle" /\ lr'[w] = NoMarker
      /\ \A x \in Writers \ {w} : pc'[x] = pc[x] /\ lr'[x] = lr[x]
  BY <1>1, <1>2
<1>4. path # Nil => data'[path] = data[path]
  BY <1>1, <1>2, UnlinkStep DEF Names
<1>5. life \in {"serving", "stopping", "stopped"} /\ Own(lr[w])
  BY <1>1, UnderWay
<1>6. /\ Phases' /\ Histories' /\ Found' /\ Left'
      /\ \A m : Credible(m) => Credible(m)'
      /\ \A m : Own(m) <=> Own(m)'
      /\ run' \in 0..MaxRuns /\ streak' \in 0..MaxRuns /\ muddled' \subseteq Runs
  BY <1>1, <1>3, <1>5, Aside DEF Writers
<1>7. TypeOK'
  <2>1. pc' \in [Writers -> {"idle", "assign", "open", "write", "rename", "remove"}]
    BY <1>1, <1>2
  <2>2. lr' \in [Writers -> Marker]
    BY <1>1, <1>2, Blanks
  <2>3. data' \in [Inodes -> Marker \cup {Empty, Torn}]
    BY <1>1, <1>2, UnlinkStep
  <2> QED  BY <1>1, <1>6, <2>1, <2>2, <2>3 DEF TypeOK
<1>8. Names'
  BY <1>1, <1>3 DEF Names
<1>9. InMemory' /\ OnDisk'
  BY <1>1, <1>3, <1>4, <1>6 DEF InMemory, OnDisk
<1>10. Undisturbed'
  BY <1>1, <1>5 DEF Undisturbed
<1> QED  BY <1>6, <1>7, <1>8, <1>9, <1>10

\* The file system refuses the save, and the run is marked as disturbed.
LEMMA SaveFailsStep ==
  ASSUME IInv, NEW w \in Writers, SaveFails(w)
  PROVE  IInv'
<1> USE DEF IInv
<1>1. /\ pc[w] = "open" /\ pc' = [pc EXCEPT ![w] = "idle"]
      /\ lr' = [lr EXCEPT ![w] = NoMarker] /\ muddled' = muddled \cup {run}
      /\ run' = run /\ life' = life /\ previous' = previous /\ current' = current
      /\ fd' = fd /\ path' = path /\ tmp' = tmp /\ data' = data
      /\ verdict' = verdict /\ streak' = streak /\ stoppedClean' = stoppedClean
      /\ crashed' = crashed
  BY DEF SaveFails, Finish, memory, disk, history
<1>2. /\ pc \in [Writers -> {"idle", "assign", "open", "write", "rename", "remove"}]
      /\ lr \in [Writers -> Marker]
  BY DEF TypeOK
<1>3. /\ pc'[w] = "idle" /\ lr'[w] = NoMarker
      /\ \A x \in Writers \ {w} : pc'[x] = pc[x] /\ lr'[x] = lr[x]
  BY <1>1, <1>2
<1>4. life \in {"serving", "stopping", "stopped"} /\ Own(lr[w])
  BY <1>1, UnderWay
<1>5. /\ Phases' /\ Histories' /\ Found' /\ Left'
      /\ \A m : Credible(m) => Credible(m)'
      /\ \A m : Own(m) <=> Own(m)'
      /\ run' \in 0..MaxRuns /\ streak' \in 0..MaxRuns /\ muddled' \subseteq Runs
  BY <1>1, <1>3, <1>4, Aside DEF Writers
<1>6. TypeOK'
  <2>1. pc' \in [Writers -> {"idle", "assign", "open", "write", "rename", "remove"}]
    BY <1>1, <1>2
  <2>2. lr' \in [Writers -> Marker]
    BY <1>1, <1>2, Blanks
  <2> QED  BY <1>1, <1>5, <2>1, <2>2 DEF TypeOK
<1>7. Names'
  BY <1>1, <1>3 DEF Names
<1>8. InMemory' /\ OnDisk'
  BY <1>1, <1>3, <1>5 DEF InMemory, OnDisk
<1>9. Undisturbed'
  BY <1>1 DEF Undisturbed
<1> QED  BY <1>5, <1>6, <1>7, <1>8, <1>9
-----------------------------------------------------------------------------
(* The three that save: NotifyStarted, heartbeat, NotifyStopped.           *)

\* The start of a save touches no file.
LEMMA BeginStep ==
  ASSUME TypeOK, NEW w \in Writers, pc[w] = "idle", NEW m \in Marker, Begin(w, m)
  PROVE  /\ pc' \in [Writers -> {"idle", "assign", "open", "write", "rename", "remove"}]
         /\ lr' \in [Writers -> Marker]
         /\ pc'[w] = "assign" /\ lr'[w] = m
         /\ \A x \in Writers \ {w} : pc'[x] = pc[x] /\ lr'[x] = lr[x]
  BY DEF TypeOK, Begin

\* NotifyStarted judges the run before by the marker, and claims the marker.
LEMMA NotifyStartedStep ==
  ASSUME IInv, NEW fast \in BOOLEAN, NotifyStarted(fast)
  PROVE  IInv'
<1> USE DEF IInv
<1> DEFINE restarts == IF unclean /\ fast THEN previous.restarts + 1 ELSE 0
           claim == [state |-> "running", restarts |-> restarts, run |-> run]
<1>1. /\ life = "booted" /\ life' = "serving" /\ Begin("main", claim)
      /\ verdict' = IF ~unclean THEN "started"
                    ELSE IF restarts >= RestartLoopThreshold THEN "looping"
                    ELSE "crashed"
      /\ streak' = IF unclean THEN streak + 1 ELSE 0
      /\ run' = run /\ previous' = previous /\ current' = current /\ fd' = fd
      /\ path' = path /\ tmp' = tmp /\ data' = data /\ stoppedClean' = stoppedClean
      /\ crashed' = crashed /\ muddled' = muddled
  BY DEF NotifyStarted, memory, disk
<1>2. /\ pc = Idle /\ current = NoMarker /\ previous = readMarker /\ verdict = "none"
      /\ \A w \in Writers : pc[w] = "idle"
      /\ run \in Nat /\ run >= 1 /\ run <= MaxRuns /\ MaxRuns \in Nat
      /\ streak \in Nat /\ streak <= run - 1
  BY <1>1, MarkerAssumption DEF TypeOK, Phases, Idle
<1>3. unclean => path # Nil /\ previous = data[path]
  BY <1>2, Blanks DEF unclean, readMarker
<1>4. ~unclean => (path # Nil => data[path].state # "running")
  BY <1>2, Blanks DEF unclean, readMarker
<1>5. previous.restarts \in Nat /\ (unclean => previous.restarts <= streak)
  BY <1>3, MarkerType DEF TypeOK, OnDisk, Credible, unclean
<1>6. restarts \in Nat /\ restarts <= streak'
  BY <1>1, <1>2, <1>5
<1>7. streak' \in Nat /\ streak' <= run
  BY <1>1, <1>2
<1>8. claim \in Marker
  <2> HIDE DEF restarts
  <2>1. restarts \in 0..MaxRuns /\ run \in 0..MaxRuns
    BY <1>2, <1>6, <1>7
  <2> QED  BY <2>1 DEF Marker
<1>9. claim.state = "running" /\ claim.run = run /\ claim.restarts = restarts
  OBVIOUS
<1> HIDE DEF claim, restarts
<1>10. /\ pc' \in [Writers -> {"idle", "assign", "open", "write", "rename", "remove"}]
       /\ lr' \in [Writers -> Marker]
       /\ pc'["main"] = "assign" /\ lr'["main"] = claim
       /\ \A x \in Writers \ {"main"} : pc'[x] = "idle"
  BY <1>1, <1>2, <1>8, BeginStep DEF Writers
<1>11. TypeOK'
  BY <1>1, <1>2, <1>7, <1>10 DEF TypeOK
<1>12. Names'
  BY <1>1, <1>2, <1>10 DEF Names
<1>13. Phases' /\ Histories'
  BY <1>1, <1>2, <1>7 DEF Phases, Histories
<1>14. InMemory'
  <2>1. Own(lr["main"])'
    BY <1>1, <1>6, <1>9, <1>10 DEF Own
  <2> QED  BY <1>1, <1>2, <1>10, <2>1 DEF InMemory
<1>15. OnDisk'
  <2>1. path # Nil => Credible(data[path])'
    <3> SUFFICES ASSUME path # Nil PROVE Credible(data[path])'
      OBVIOUS
    <3>1. data[path].restarts \in Nat
      BY MarkerType DEF TypeOK
    <3> QED  BY <1>1, <1>2, <1>4, <3>1 DEF OnDisk, Credible
  <2>2. \A w \in Writers : pc'[w] \notin {"write", "rename"}
    BY <1>10
  <2> QED  BY <1>1, <2>1, <2>2 DEF OnDisk
<1>16. Found'
  <2>1. verdict' = "looping" => restarts >= RestartLoopThreshold /\ unclean
    BY <1>1
  <2>2. verdict' = "looping" => streak' >= RestartLoopThreshold
    BY <2>1, <1>6, <1>7, MarkerAssumption
  <2>3. verdict' = "started" <=> ~unclean
    BY <1>1
  <2> QED  BY <1>1, <2>2, <2>3 DEF Found, unclean
<1>17. Undisturbed'
  <2> SUFFICES ASSUME run \notin muddled PROVE Undisturbed'
    BY <1>1 DEF Undisturbed
  <2> QED  BY <1>1, <1>9, <1>10 DEF Undisturbed, Writers
<1>18. Left'
  BY <1>1 DEF Left
<1> QED  BY <1>11, <1>12, <1>13, <1>14, <1>15, <1>16, <1>17, <1>18

\* The heartbeat copies what is in memory, and saves it again.
LEMMA HeartbeatStep == IInv /\ Heartbeat => IInv'
<1> SUFFICES ASSUME IInv, Heartbeat PROVE IInv'
  OBVIOUS
<1> USE DEF IInv
<1>1. /\ life \in Alive /\ pc["beat"] = "idle" /\ current.state = "running"
      /\ Begin("beat", current)
      /\ muddled' = IF \A w \in Writers : pc'[w] # "idle"
                    THEN muddled \cup {run} ELSE muddled
      /\ run' = run /\ life' = life /\ previous' = previous /\ current' = current
      /\ fd' = fd /\ path' = path /\ tmp' = tmp /\ data' = data
      /\ verdict' = verdict /\ streak' = streak /\ stoppedClean' = stoppedClean
      /\ crashed' = crashed
  BY DEF Heartbeat, Alive, busy, Muddle, memory, disk, history
<1>2. current # NoMarker
  BY <1>1, Blanks
<1>3. life \in {"serving", "stopping", "stopped"} /\ Own(current) /\ current \in Marker
  BY <1>1, <1>2 DEF TypeOK, Phases, InMemory
<1>4. /\ pc' \in [Writers -> {"idle", "assign", "open", "write", "rename", "remove"}]
      /\ lr' \in [Writers -> Marker]
      /\ pc'["beat"] = "assign" /\ lr'["beat"] = current
      /\ pc'["main"] = pc["main"] /\ lr'["main"] = lr["main"]
  BY <1>1, <1>3, BeginStep DEF Writers
<1>5. /\ Phases' /\ Histories' /\ Found' /\ Left'
      /\ \A m : Credible(m) => Credible(m)'
      /\ \A m : Own(m) <=> Own(m)'
      /\ run' \in 0..MaxRuns /\ streak' \in 0..MaxRuns /\ muddled' \subseteq Runs
  BY <1>1, <1>3, <1>4, Aside
<1>6. TypeOK'
  BY <1>1, <1>4, <1>5 DEF TypeOK
<1>7. Names'
  BY <1>1, <1>4 DEF Names, Writers
<1>8. InMemory' /\ OnDisk'
  BY <1>1, <1>3, <1>4, <1>5 DEF InMemory, OnDisk, Writers
<1>9. Undisturbed'
  <2> SUFFICES ASSUME run \notin muddled' PROVE Undisturbed'
    BY <1>1 DEF Undisturbed
  <2>1. run \notin muddled /\ pc["main"] = "idle"
    BY <1>1, <1>4 DEF Writers
  <2>2. life = "serving"
    BY <1>1, <1>3, <2>1 DEF Undisturbed
  <2> QED  BY <1>1, <1>4, <2>1, <2>2 DEF Undisturbed, Writers
<1> QED  BY <1>5, <1>6, <1>7, <1>8, <1>9

\* NotifyStopped marks the run as one that ended well.
LEMMA NotifyStoppedStep == IInv /\ NotifyStopped => IInv'
<1> SUFFICES ASSUME IInv, NotifyStopped PROVE IInv'
  OBVIOUS
<1> USE DEF IInv
<1> DEFINE final == [current EXCEPT !.state = "stopped", !.run = run]
<1>1. /\ life \in {"booted", "serving"} /\ pc["main"] = "idle" /\ life' = "stopping"
      /\ Begin("main", final)
      /\ muddled' = IF \A w \in Writers : pc'[w] # "idle"
                    THEN muddled \cup {run} ELSE muddled
      /\ run' = run /\ previous' = previous /\ current' = current
      /\ fd' = fd /\ path' = path /\ tmp' = tmp /\ data' = data
      /\ verdict' = verdict /\ streak' = streak /\ stoppedClean' = stoppedClean
      /\ crashed' = crashed
  BY DEF NotifyStopped, busy, Muddle, memory, disk, history
<1>2. /\ run \in Nat /\ run >= 1 /\ run \in 0..MaxRuns /\ MaxRuns \in Nat
      /\ streak \in Nat
  BY <1>1, MarkerAssumption DEF TypeOK, Phases
<1>3. final \in Marker /\ final.state = "stopped" /\ final.run = run
  BY <1>2 DEF TypeOK, Marker
<1> HIDE DEF final
<1>4. /\ pc' \in [Writers -> {"idle", "assign", "open", "write", "rename", "remove"}]
      /\ lr' \in [Writers -> Marker]
      /\ pc'["main"] = "assign" /\ lr'["main"] = final
      /\ pc'["beat"] = pc["beat"] /\ lr'["beat"] = lr["beat"]
  BY <1>1, <1>3, BeginStep DEF Writers
<1>5. muddled' \subseteq Runs /\ \A r : r # run => (r \in muddled' <=> r \in muddled)
  BY <1>1, <1>2 DEF TypeOK, Runs
<1>6. TypeOK'
  BY <1>1, <1>4, <1>5 DEF TypeOK
<1>7. Names'
  BY <1>1, <1>4 DEF Names, Writers
<1>8. Phases'
  BY <1>1, <1>2 DEF Phases
<1>9. Histories'
  BY <1>1, <1>2 DEF Histories
<1>10. InMemory'
  BY <1>1, <1>3, <1>4 DEF InMemory, Own, Writers
<1>11. OnDisk'
  BY <1>1, <1>4 DEF OnDisk, Credible, Own, Writers
<1>12. Found'
  <2>1. previous.run < run
    BY <1>1 DEF Found
  <2>2. previous.run # run
    BY <2>1, <1>2, MarkerType DEF TypeOK
  <2>3. previous.run \in muddled' <=> previous.run \in muddled
    BY <2>2, <1>5
  <2>4. run - 1 \in muddled' <=> run - 1 \in muddled
    BY <1>2, <1>5
  <2> QED  BY <1>1, <2>3, <2>4 DEF Found
<1>13. Undisturbed'
  <2> SUFFICES ASSUME run \notin muddled' PROVE Undisturbed'
    BY <1>1 DEF Undisturbed
  <2>1. run \notin muddled /\ pc["beat"] = "idle"
    BY <1>1, <1>4 DEF Writers
  <2> QED  BY <1>1, <1>3, <1>4, <2>1 DEF Undisturbed, Writers
<1>14. Left'
  BY <1>1 DEF Left
<1> QED  BY <1>6, <1>7, <1>8, <1>9, <1>10, <1>11, <1>12, <1>13, <1>14
-----------------------------------------------------------------------------
LEMMA IInvNext == IInv /\ [Next]_vars => IInv'
<1> SUFFICES ASSUME IInv, [Next]_vars PROVE IInv'
  OBVIOUS
<1>1. CASE Boot
  BY <1>1, BootStep
<1>2. CASE Crash
  BY <1>2, DieStep DEF Crash
<1>3. CASE Exit
  BY <1>3, DieStep DEF Exit
<1>4. ASSUME NEW fast \in BOOLEAN, NotifyStarted(fast) PROVE IInv'
  BY <1>4, NotifyStartedStep
<1>5. CASE Heartbeat
  BY <1>5, HeartbeatStep
<1>6. CASE NotifyStopped
  BY <1>6, NotifyStoppedStep
<1>7. CASE Stopped
  BY <1>7, StoppedStep
<1>8. CASE Save
  <2>1. PICK w \in Writers : \/ Assign(w) \/ Open(w) \/ Write(w)
                             \/ Rename(w) \/ RenameFails(w) \/ Remove(w)
                             \/ SaveFails(w)
    BY <1>8 DEF Save
  <2> QED  BY <2>1, AssignStep, OpenStep, WriteStep, RenameStep, RenameFailsStep,
              RemoveStep, SaveFailsStep
<1>9. CASE UNCHANGED vars
  BY <1>9 DEF vars, memory, writers, disk, history, IInv, TypeOK, Names, Phases,
              Histories, InMemory, OnDisk, Found, Undisturbed, Left, Own, Credible,
              readMarker
<1> QED  BY <1>1, <1>2, <1>3, <1>4, <1>5, <1>6, <1>7, <1>8, <1>9 DEF Next

\* The strengthening holds in every state of every run.
LEMMA MarkerInvariant == Spec => []IInv
  BY IInvInit, IInvNext, PTL DEF Spec

\* Every variable of the marker keeps its type, over any number of processes.
THEOREM TypeCorrect == Spec => []TypeOK
<1>1. IInv => TypeOK
  BY DEF IInv
<1> QED  BY <1>1, MarkerInvariant, PTL

\* A run is called a crash that stopped well only if a heartbeat overlapped its
\* saves or a save failed (core/alerts/crash.go:165, NotifyStarted).
THEOREM FalseAlarmsNeedOverlap == Spec => []FalseAlarmNeedsOverlap
<1>1. IInv => FalseAlarmNeedsOverlap
  BY DEF IInv, Found, Phases, FalseAlarmNeedsOverlap, alarmed
<1> QED  BY <1>1, MarkerInvariant, PTL

\* A run that died while it was serving, undisturbed, is not taken for one that
\* stopped, wherever the heartbeat was when it died.
THEOREM CrashesAreSeen == Spec => []CrashIsSeen
<1>1. IInv => CrashIsSeen
  BY DEF IInv, Found, Phases, CrashIsSeen
<1> QED  BY <1>1, MarkerInvariant, PTL

\* A crash loop is reported after as many unclean runs in a row, whatever marker
\* survived from which run and however saves overlapped.
THEOREM LoopsAreDeserved == Spec => []LoopDeserved
<1>1. IInv => LoopDeserved
  BY DEF IInv, Found, Phases, LoopDeserved
<1> QED  BY <1>1, MarkerInvariant, PTL

-----------------------------------------------------------------------------
(***************************************************************************)
(* The rules.  What makes their properties inductive: the cached           *)
(* statistics were true at some time since they were taken, or incomplete; *)
(* and the cooldown bucket of a rule's alerts is moved by nothing but its  *)
(* alerts, that of its recoveries by nothing but those.                    *)
(***************************************************************************)

RuleState == [firing : BOOLEAN, holds : Nat, panics : Nat, disabled : BOOLEAN]

Heard == [last : {"alert", "recovered"}, alert : Int, recovered : Int, edge : Int]

RulesTyped ==
  /\ now \in Nat /\ cpu \in {"low", "high"}
  /\ seen \in [low : Int, high : Int, blind : Int]
  /\ rule \in [Rule -> RuleState]
  /\ lastSent \in [Key -> Int]
  /\ heard \in [Rule -> Heard]

\* The load was what it is when it was last looked at; what the cache says was so
\* when it was taken or after, or the statistics were incomplete by then.
Witnessed ==
  /\ cpu = "low" => seen.low = now
  /\ cpu = "high" => seen.high = now
  /\ cache # None =>
       /\ cache.at \in Int /\ cache.at <= now
       /\ cache.usage = "high" => seen.high >= cache.at
       /\ cache.usage # "high" => seen.low >= cache.at \/ seen.blind >= cache.at

\* The cooldown knows of each rule when its last alert and its last recovery were
\* let through.
Told == \A r \in Rule : /\ lastSent[<<r, "alert">>] = heard[r].alert
                        /\ lastSent[<<r, "recovered">>] = heard[r].recovered

Fraction == [num : Nat, den : Nat \ {0}]

\* The samples are of counters that only grow.
Sampled ==
  /\ totals.requests \in Nat /\ {"prev", "baseline"} \subseteq DOMAIN eval
  /\ eval.prev # None => eval.prev.requests \in Nat /\ eval.prev.requests <= totals.requests
  /\ eval.baseline # None => eval.baseline \in Fraction

RulesInv == RulesTyped /\ Witnessed /\ Told /\ Sampled

LEMMA SampledInitially == RulesInit => Sampled
<1> SUFFICES ASSUME RulesInit PROVE Sampled
  OBVIOUS
<1>1. totals.requests = 0
  BY DEF RulesInit
<1>2. eval.prev = None /\ eval.baseline = None /\ {"prev", "baseline"} \subseteq DOMAIN eval
  BY DEF RulesInit
<1> QED  BY <1>1, <1>2 DEF Sampled

LEMMA RulesInitially == RulesInit => RulesInv /\ LastWordIsTrue
<1> SUFFICES ASSUME RulesInit PROVE  RulesInv /\ LastWordIsTrue
  OBVIOUS
<1>1. Never \in Int
  BY RulesAssumption DEF Never
<1>2. RulesTyped
  <2>1. rule \in [Rule -> RuleState]
    BY DEF RulesInit, RuleState
  <2>2. lastSent \in [Key -> Int]
    BY <1>1 DEF RulesInit
  <2>3. heard \in [Rule -> Heard]
    BY <1>1 DEF RulesInit, Heard
  <2>4. seen \in [low : Int, high : Int, blind : Int]
    BY <1>1 DEF RulesInit
  <2> QED  BY <2>1, <2>2, <2>3, <2>4 DEF RulesInit, RulesTyped
<1>3. Witnessed
  BY DEF RulesInit, Witnessed
<1>4. Told
  BY DEF RulesInit, Told, Key
<1>5. LastWordIsTrue
  BY DEF RulesInit, LastWordIsTrue
<1> QED  BY <1>2, <1>3, <1>4, <1>5, SampledInitially DEF RulesInv

\* The load is looked at once more with each tick of the clock.
LEMMA PassStep ==
  ASSUME RulesInv, LastWordIsTrue,
         NEW load \in {"low", "high"}, NEW arrived \in Traffic, Pass(load, arrived)
  PROVE  RulesInv' /\ LastWordIsTrue'
<1> USE DEF RulesInv
<1>1. /\ now' = now + 1 /\ cpu' = load /\ seen' = [seen EXCEPT ![load] = now']
      /\ cache' = cache /\ rule' = rule /\ lastSent' = lastSent /\ heard' = heard
  BY DEF Pass
<1>2. now \in Nat /\ seen \in [low : Int, high : Int, blind : Int]
  BY DEF RulesTyped
<1>3. now' \in Nat /\ now' >= now
  BY <1>1, <1>2
<1>4. /\ seen' \in [low : Int, high : Int, blind : Int] /\ seen'.blind = seen.blind
      /\ seen'.low = IF load = "low" THEN now' ELSE seen.low
      /\ seen'.high = IF load = "high" THEN now' ELSE seen.high
  <2>1. CASE load = "low"
    BY <2>1, <1>1, <1>2, <1>3
  <2>2. CASE load = "high"
    BY <2>2, <1>1, <1>2, <1>3
  <2> QED  BY <2>1, <2>2
<1>5. RulesTyped'
  BY <1>1, <1>3, <1>4 DEF RulesTyped
<1>6. Witnessed'
  <2>1. /\ cpu' = "low" => seen'.low = now'
        /\ cpu' = "high" => seen'.high = now'
    BY <1>1, <1>4
  <2>2. cache # None =>
          /\ cache.at \in Int /\ cache.at <= now'
          /\ cache.usage = "high" => seen'.high >= cache.at
          /\ cache.usage # "high" => seen'.low >= cache.at \/ seen'.blind >= cache.at
    BY <1>2, <1>3, <1>4 DEF Witnessed
  <2> QED  BY <2>1, <2>2, <1>1 DEF Witnessed
<1>7. Told' /\ LastWordIsTrue'
  BY <1>1 DEF Told, LastWordIsTrue
<1>8. Sampled'
  <2>1. /\ arrived.requests \in Nat /\ eval' = eval
        /\ totals'.requests = totals.requests + arrived.requests
    BY RulesAssumption DEF Pass
  <2> QED  BY <2>1 DEF Sampled
<1> QED  BY <1>5, <1>6, <1>7, <1>8

\* Whoever collects the statistics, what is kept of them was so, and so was what
\* is told of them.
LEMMA CollectStep ==
  ASSUME RulesTyped, Witnessed,
         NEW outcome \in Outcome, CollectSystemStats(outcome),
         now' = now, cpu' = cpu
  PROVE  /\ Witnessed' /\ seen' \in [low : Int, high : Int, blind : Int]
         /\ usage(outcome) = "high" => now - seen.high < StatsRefreshInterval
         /\ usage(outcome) # "high" =>
              \/ now - seen.low < StatsRefreshInterval
              \/ now - seen'.blind < StatsRefreshInterval
<1>1. /\ now \in Nat /\ seen \in [low : Int, high : Int, blind : Int]
      /\ StatsRefreshInterval \in Int /\ StatsRefreshInterval >= 1
      /\ cpu \in {"low", "high"}
  BY RulesAssumption DEF RulesTyped
<1>2. CASE isFresh
  <2>1. /\ cache' = cache /\ seen' = seen /\ usage(outcome) = cache.usage
        /\ cache # None /\ now - cache.at < StatsRefreshInterval
    BY <1>2 DEF CollectSystemStats, usage, isFresh
  <2>2. Witnessed'
    BY <2>1 DEF Witnessed
  <2> QED  BY <1>1, <2>1, <2>2 DEF Witnessed
<1>3. CASE ~isFresh
  <2> DEFINE told == averageCPUUsage(outcome)
  <2>1. /\ cache' = IF outcome = "cancelled" THEN cache ELSE [usage |-> told, at |-> now]
        /\ seen' = IF outcome = "whole" THEN seen ELSE [seen EXCEPT !.blind = now]
        /\ usage(outcome) = told
    BY <1>3 DEF CollectSystemStats, usage
  <2>2. told = "high" => cpu = "high"
    BY DEF averageCPUUsage
  <2>3. told # "high" => cpu = "low" \/ outcome # "whole"
    BY <1>1 DEF averageCPUUsage
  <2> HIDE DEF told
  <2>4. /\ seen' \in [low : Int, high : Int, blind : Int]
        /\ seen'.low = seen.low /\ seen'.high = seen.high
        /\ seen'.blind = IF outcome = "whole" THEN seen.blind ELSE now
    BY <1>1, <2>1
  <2>5. told = "high" => seen.high = now
    BY <2>2 DEF Witnessed
  <2>6. told # "high" => seen.low = now \/ seen'.blind = now
    BY <2>3, <2>4 DEF Witnessed
  <2>7. Witnessed'
    <3>1. CASE outcome = "cancelled"
      <4>1. cache' = cache /\ seen'.blind = now
        BY <3>1, <2>1, <2>4
      <4> QED  BY <4>1, <1>1, <2>4 DEF Witnessed
    <3>2. CASE outcome # "cancelled"
      <4>1. cache'.usage = told /\ cache'.at = now
        BY <3>2, <2>1
      <4> QED  BY <4>1, <1>1, <2>4, <2>5, <2>6 DEF Witnessed
    <3> QED  BY <3>1, <3>2
  <2> QED  BY <1>1, <2>1, <2>4, <2>5, <2>6, <2>7
<1> QED  BY <1>2, <1>3

\* A check that does not hold leaves nothing firing; one that holds, no rule that
\* fires cleared.  A panic of the check changes neither.
LEMMA RuleStep ==
  ASSUME NEW s \in RuleState, NEW r \in Rule
  PROVE  /\ handleRulePanic(s) \in RuleState
         /\ handleRulePanic(s).firing = s.firing
         /\ advance(r, s, TRUE) \in RuleState
         /\ advance(r, s, TRUE).firing \in {TRUE, s.firing}
         /\ advance(r, s, FALSE) \in RuleState
         /\ advance(r, s, FALSE).firing = FALSE
<1>1. s.panics \in Nat /\ s.holds \in Nat /\ s.firing \in BOOLEAN
  BY DEF RuleState
<1>2. /\ handleRulePanic(s) \in RuleState
      /\ handleRulePanic(s).firing = s.firing
  <2> DEFINE n == s.panics + 1
             f == s.panics + 1 >= maxRulePanics
  <2>1. n \in Nat /\ f \in BOOLEAN
    BY <1>1
  <2>2. handleRulePanic(s) = [s EXCEPT !.panics = n, !.disabled = f]
    BY Zenon DEF handleRulePanic
  <2> HIDE DEF n, f
  <2>3. /\ [s EXCEPT !.panics = n, !.disabled = f] \in RuleState
        /\ [s EXCEPT !.panics = n, !.disabled = f].firing = s.firing
    BY <2>1, Zenon DEF RuleState
  <2> QED  BY <2>2, <2>3, Zenon
<1>3. /\ advance(r, s, TRUE) \in RuleState
      /\ advance(r, s, TRUE).firing \in {TRUE, s.firing}
  <2> DEFINE n == s.holds + 1
             f == IF n >= Sustain(r) THEN TRUE ELSE TRUE /\ s.firing
  <2>1. n \in Nat
    BY <1>1
  <2>2. f \in BOOLEAN /\ f \in {TRUE, s.firing}
    BY <1>1, Zenon
  <2>3. advance(r, s, TRUE) = [s EXCEPT !.holds = n, !.firing = f]
    BY Zenon DEF advance
  <2> HIDE DEF n, f
  <2>4. /\ [s EXCEPT !.holds = n, !.firing = f] \in RuleState
        /\ [s EXCEPT !.holds = n, !.firing = f].firing = f
    BY <2>1, <2>2, Zenon DEF RuleState
  <2> QED  BY <2>2, <2>3, <2>4, Zenon
<1>4. /\ advance(r, s, FALSE) \in RuleState
      /\ advance(r, s, FALSE).firing = FALSE
  <2> DEFINE f == IF 0 >= Sustain(r) THEN TRUE ELSE FALSE /\ s.firing
  <2>1. f = FALSE
    <3>1. Sustain(r) \in Nat \ {0}
      BY RulesAssumption DEF Sustain
    <3>2. ~(0 >= Sustain(r))
      BY <3>1
    <3> QED  BY <3>2, Zenon
  <2>2. advance(r, s, FALSE) = [s EXCEPT !.holds = 0, !.firing = f]
    BY Zenon DEF advance
  <2>3. 0 \in Nat
    OBVIOUS
  <2> HIDE DEF f
  <2>4. /\ [s EXCEPT !.holds = 0, !.firing = f] \in RuleState
        /\ [s EXCEPT !.holds = 0, !.firing = f].firing = f
    BY <2>1, <2>3, Zenon DEF RuleState
  <2> QED  BY <2>1, <2>2, <2>4, Zenon
<1> QED  BY <1>2, <1>3, <1>4

\* What a tick makes of a rule: its state keeps its type, and an edge of its
\* firing is what its check says.
LEMMA TickOfRule ==
  ASSUME RulesTyped, NEW r \in Rule,
         NEW e, NEW check
  PROVE  /\ step(r, e, check) \in RuleState
         /\ \/ step(r, e, check).firing = rule[r].firing
            \/ /\ step(r, e, check).firing = TRUE
               /\ holds(r, e, check) = TRUE
            \/ /\ step(r, e, check).firing = FALSE
               /\ holds(r, e, check) = FALSE
<1> DEFINE s == rule[r]
           stepped == step(r, e, check)
           held == holds(r, e, check)
<1>1. s \in RuleState
  BY DEF RulesTyped
<1>2. held \in BOOLEAN
  BY Zenon DEF holds, errorRate, surge, Rule
<1>3. stepped \in {s, handleRulePanic(s), advance(r, s, held)}
  BY Zenon DEF step
<1> HIDE DEF s, stepped, held
<1>4. \/ stepped = s
      \/ stepped = handleRulePanic(s)
      \/ held = TRUE /\ stepped = advance(r, s, TRUE)
      \/ held = FALSE /\ stepped = advance(r, s, FALSE)
  BY <1>2, <1>3, Zenon
<1>5. /\ stepped \in RuleState
      /\ \/ stepped.firing = s.firing
         \/ stepped.firing = TRUE /\ held = TRUE
         \/ stepped.firing = FALSE /\ held = FALSE
  <2>1. CASE stepped = s
    BY <1>1, <2>1, Zenon
  <2>2. CASE stepped = handleRulePanic(s)
    BY <1>1, <2>2, RuleStep, Zenon
  <2>3. CASE held = TRUE /\ stepped = advance(r, s, TRUE)
    BY <1>1, <2>3, RuleStep, Zenon
  <2>4. CASE held = FALSE /\ stepped = advance(r, s, FALSE)
    BY <1>1, <2>4, RuleStep, Zenon
  <2> QED  BY <1>4, <2>1, <2>2, <2>3, <2>4
<1> QED  BY <1>5, Zenon DEF s, stepped, held

LEMMA Smoothed ==
  ASSUME NEW b, b # None => b \in Fraction, NEW n \in Nat
  PROVE  smoothed(b, n) \in Fraction
<1>1. CASE b = None
  BY <1>1 DEF smoothed, Fraction
<1>2. CASE b # None
  <2>1. PICK x \in Nat, d \in Nat \ {0} : b = [num |-> x, den |-> d]
    BY <1>2 DEF Fraction
  <2>2. n * d + 4 * x \in Nat /\ 5 * d \in Nat \ {0}
    BY <2>1
  <2>3. smoothed(b, n) = [num |-> n * d + 4 * x, den |-> 5 * d]
    BY <1>2, <2>1 DEF smoothed
  <2> QED  BY <2>2, <2>3 DEF Fraction
<1> QED  BY <1>1, <1>2

\* A sample makes the difference of two readings and the next baseline.
LEMMA SampleTaken ==
  ASSUME Sampled, NEW outcome, eval' = sample(outcome), totals' = totals
  PROVE  /\ Sampled'
         /\ eval.prev = None => eval'.valid = FALSE
         /\ eval.prev # None => /\ eval'.requests \in Nat
                                /\ eval'.baseline = smoothed(eval.baseline, eval'.requests)
<1>1. CASE eval.prev = None
  BY <1>1 DEF sample, Sampled
<1>2. CASE eval.prev # None
  <2> DEFINE n == totals.requests - eval.prev.requests
  <2>1. n \in Nat
    BY <1>2 DEF Sampled
  <2>2. /\ eval'.prev = totals /\ eval'.requests = n
        /\ eval'.baseline = smoothed(eval.baseline, n)
        /\ {"prev", "baseline"} \subseteq DOMAIN eval'
    BY <1>2 DEF sample
  <2> HIDE DEF n
  <2>3. eval'.baseline \in Fraction
    BY <2>1, <2>2, Smoothed DEF Sampled
  <2> QED  BY <1>2, <2>1, <2>2, <2>3 DEF Sampled
<1> QED  BY <1>1, <1>2

\* A rule's alert is the message of its key, and of no other.
LEMMA MessageOfEdge ==
  ASSUME NEW r \in Rule
  PROVE  /\ <<r, "alert">> \in messages <=> rule'[r].firing /\ ~rule[r].firing
         /\ <<r, "recovered">> \in messages
              <=> ~rule'[r].firing /\ rule[r].firing /\ Recovery(r)
<1>1. <<r, "alert">> \in Key /\ <<r, "recovered">> \in Key
  BY DEF Key
<1>2. /\ <<r, "alert">>[1] = r /\ <<r, "alert">>[2] = "alert"
      /\ <<r, "recovered">>[1] = r /\ <<r, "recovered">>[2] = "recovered"
  OBVIOUS
<1>3. <<r, "alert">> \in messages <=> rule'[r].firing /\ ~rule[r].firing
  BY <1>1, <1>2, Zenon DEF messages
<1>4. <<r, "recovered">> \in messages
        <=> ~rule'[r].firing /\ rule[r].firing /\ Recovery(r)
  BY <1>1, <1>2, Zenon DEF messages
<1> QED  BY <1>3, <1>4

\* What a tick does to the bucket of a message: it is moved by that message only.
LEMMA BucketOfMessage ==
  ASSUME RulesTyped, NEW check, NEW outcome, Evaluate(check, outcome),
         NEW r \in Rule, NEW kind \in {"alert", "recovered"}
  PROVE  /\ admitted(<<r, kind>>) <=> now - lastSent[<<r, kind>>] >= Cooldown
         /\ lastSent'[<<r, kind>>] =
              IF <<r, kind>> \in messages /\ admitted(<<r, kind>>)
              THEN now ELSE lastSent[<<r, kind>>]
<1> DEFINE m == <<r, kind>>
           sent == {bucket(n[1], n[2]) : n \in {l \in messages : admitted(l)}}
<1>1. m \in Key /\ m[1] = r /\ m[2] = kind
  BY DEF Key
<1>2. \A n \in messages : n = <<n[1], n[2]>>
  BY DEF messages, Key
<1>3. \A n \in messages : bucket(n[1], n[2]) = n
  BY <1>2 DEF bucket
<1>4. bucket(m[1], m[2]) = m
  BY <1>1 DEF bucket
<1>5. lastSent'[m] = IF m \in sent THEN now ELSE lastSent[m]
  <2>1. lastSent' = [key \in Key |-> IF key \in sent THEN now ELSE lastSent[key]]
    BY DEF Evaluate
  <2> HIDE DEF m, sent
  <2> QED  BY <1>1, <2>1
<1>6. admitted(m) <=> now - lastSent[m] >= Cooldown
  BY <1>4 DEF admitted
<1> HIDE DEF m
<1>7. m \in sent <=> m \in messages /\ admitted(m)
  BY <1>3, Zenon
<1> HIDE DEF sent
<1>8. lastSent'[m] = IF m \in messages /\ admitted(m) THEN now ELSE lastSent[m]
  BY <1>5, <1>7
<1> QED  BY <1>6, <1>8 DEF m

\* What a rule is after a tick, as a kind of message.
Word(r) == IF rule[r].firing THEN "alert" ELSE "recovered"

\* What a tick does to what is known of a rule's messages.
LEMMA WordOfRule ==
  ASSUME RulesTyped, Told, NEW check, NEW outcome,
         Evaluate(check, outcome), NEW r \in Rule
  PROVE  /\ heard'[r] \in Heard
         /\ lastSent'[<<r, "alert">>] = heard'[r].alert
         /\ lastSent'[<<r, "recovered">>] = heard'[r].recovered
         /\ \/ /\ heard'[r] = heard[r]
               /\ rule'[r].firing = rule[r].firing \/ (~Recovery(r) /\ ~rule'[r].firing)
            \/ heard'[r].last = Word(r)'
            \/ heard'[r].edge - heard'[r][Word(r)'] < Cooldown
<1> DEFINE al == <<r, "alert">>
           re == <<r, "recovered">>
<1>1. now \in Int /\ heard[r] \in Heard /\ Cooldown \in Int
  BY RulesAssumption DEF RulesTyped
<1>2. lastSent[al] = heard[r].alert /\ lastSent[re] = heard[r].recovered
  BY DEF Told
<1>3. /\ al \in messages <=> rule'[r].firing /\ ~rule[r].firing
      /\ re \in messages <=> ~rule'[r].firing /\ rule[r].firing /\ Recovery(r)
  BY MessageOfEdge
<1>4. heard'[r] = IF al \in messages THEN hears(r, "alert")
                  ELSE IF re \in messages THEN hears(r, "recovered")
                  ELSE heard[r]
  BY Zenon DEF Evaluate
<1>5. /\ admitted(al) <=> now - lastSent[al] >= Cooldown
      /\ lastSent'[al] = IF al \in messages /\ admitted(al) THEN now ELSE lastSent[al]
  BY BucketOfMessage
<1>6. /\ admitted(re) <=> now - lastSent[re] >= Cooldown
      /\ lastSent'[re] = IF re \in messages /\ admitted(re) THEN now ELSE lastSent[re]
  BY BucketOfMessage
<1>7. rule'[r].firing \in BOOLEAN /\ rule[r].firing \in BOOLEAN
  BY TickOfRule DEF RulesTyped, RuleState, Evaluate
<1>8. CASE al \in messages
  <2>1. Word(r)' = "alert" /\ re \notin messages
    BY <1>3, <1>8 DEF Word
  <2>2. CASE admitted(al)
    <3>1. heard'[r] = [heard[r] EXCEPT !.last = "alert", !["alert"] = now, !.edge = now]
      BY <1>4, <1>8, <2>2 DEF hears
    <3>2. lastSent'[al] = now /\ lastSent'[re] = lastSent[re]
      BY <1>5, <1>6, <1>8, <2>1, <2>2
    <3> HIDE DEF al, re
    <3>3. /\ heard'[r] \in Heard /\ heard'[r].last = "alert"
          /\ heard'[r].alert = now /\ heard'[r].recovered = heard[r].recovered
      BY <1>1, <3>1 DEF Heard
    <3> QED  BY <1>2, <2>1, <3>2, <3>3 DEF al, re
  <2>3. CASE ~admitted(al)
    <3>1. heard'[r] = [heard[r] EXCEPT !.edge = now]
      BY <1>4, <1>8, <2>3 DEF hears
    <3>2. lastSent'[al] = lastSent[al] /\ lastSent'[re] = lastSent[re]
      BY <1>5, <1>6, <2>1, <2>3
    <3>3. ~(now - heard[r].alert >= Cooldown)
      BY <1>2, <1>5, <2>3
    <3> HIDE DEF al, re
    <3>4. /\ heard'[r] \in Heard /\ heard'[r].edge = now
          /\ heard'[r].alert = heard[r].alert /\ heard'[r].recovered = heard[r].recovered
      BY <1>1, <3>1 DEF Heard
    <3>5. now - heard[r].alert < Cooldown
      BY <1>1, <3>3 DEF Heard
    <3> QED  BY <1>2, <2>1, <3>2, <3>4, <3>5 DEF al, re
  <2> QED  BY <2>2, <2>3
<1>9. CASE al \notin messages /\ re \in messages
  <2>1. Word(r)' = "recovered"
    BY <1>3, <1>9 DEF Word
  <2>2. CASE admitted(re)
    <3>1. heard'[r] = [heard[r] EXCEPT !.last = "recovered", !["recovered"] = now,
                                       !.edge = now]
      BY <1>4, <1>9, <2>2 DEF hears
    <3>2. lastSent'[al] = lastSent[al] /\ lastSent'[re] = now
      BY <1>5, <1>6, <1>9, <2>2
    <3> HIDE DEF al, re
    <3>3. /\ heard'[r] \in Heard /\ heard'[r].last = "recovered"
          /\ heard'[r].recovered = now /\ heard'[r].alert = heard[r].alert
      BY <1>1, <3>1 DEF Heard
    <3> QED  BY <1>2, <2>1, <3>2, <3>3 DEF al, re
  <2>3. CASE ~admitted(re)
    <3>1. heard'[r] = [heard[r] EXCEPT !.edge = now]
      BY <1>4, <1>9, <2>3 DEF hears
    <3>2. lastSent'[al] = lastSent[al] /\ lastSent'[re] = lastSent[re]
      BY <1>5, <1>6, <1>9, <2>3
    <3>3. ~(now - heard[r].recovered >= Cooldown)
      BY <1>2, <1>6, <2>3
    <3> HIDE DEF al, re
    <3>4. /\ heard'[r] \in Heard /\ heard'[r].edge = now
          /\ heard'[r].alert = heard[r].alert /\ heard'[r].recovered = heard[r].recovered
      BY <1>1, <3>1 DEF Heard
    <3>5. now - heard[r].recovered < Cooldown
      BY <1>1, <3>3 DEF Heard
    <3> QED  BY <1>2, <2>1, <3>2, <3>4, <3>5 DEF al, re
  <2> QED  BY <2>2, <2>3
<1>10. CASE al \notin messages /\ re \notin messages
  <2>1. heard'[r] = heard[r]
    BY <1>4, <1>10
  <2>2. lastSent'[al] = lastSent[al] /\ lastSent'[re] = lastSent[re]
    BY <1>5, <1>6, <1>10
  <2>3. rule'[r].firing = rule[r].firing \/ (~Recovery(r) /\ ~rule'[r].firing)
    BY <1>3, <1>7, <1>10
  <2> QED  BY <1>1, <1>2, <2>1, <2>2, <2>3 DEF al, re
<1> QED  BY <1>8, <1>9, <1>10

\* A tick samples, moves every rule and lets their messages through.
LEMMA EvaluateStep ==
  ASSUME RulesInv, LastWordIsTrue,
         NEW check, NEW outcome \in Outcome,
         Evaluate(check, outcome)
  PROVE  RulesInv' /\ LastWordIsTrue'
<1> USE DEF RulesInv
<1>1. /\ now' = now /\ cpu' = cpu /\ CollectSystemStats(outcome)
      /\ rule' = [r \in Rule |-> step(r, eval', check)]
  BY DEF Evaluate
<1>2. Witnessed' /\ seen' \in [low : Int, high : Int, blind : Int]
  BY <1>1, CollectStep
<1>3. rule' \in [Rule -> RuleState]
  <2>1. \A r \in Rule : step(r, eval', check) \in RuleState
    BY TickOfRule
  <2> QED  BY <1>1, <2>1
<1>4. lastSent' \in [Key -> Int]
  <2>1. \E sent : lastSent' = [key \in Key |-> IF key \in sent THEN now ELSE lastSent[key]]
    BY DEF Evaluate
  <2>2. now \in Int /\ lastSent \in [Key -> Int]
    BY DEF RulesTyped
  <2> QED  BY <2>1, <2>2
<1>5. heard' \in [Rule -> Heard]
  <2>1. \A r \in Rule : heard'[r] \in Heard
    BY WordOfRule
  <2>2. heard' = [r \in Rule |-> heard'[r]]
    BY DEF Evaluate
  <2> QED  BY <2>1, <2>2
<1>6. RulesTyped'
  BY <1>1, <1>2, <1>3, <1>4, <1>5 DEF RulesTyped
<1>7. Told'
  BY WordOfRule DEF Told
<1>8. LastWordIsTrue'
  <2> SUFFICES ASSUME NEW r \in Rule, rule'[r].firing \/ Recovery(r)
               PROVE  \/ heard'[r].last = Word(r)'
                      \/ heard'[r].edge - heard'[r][Word(r)'] < Cooldown
    BY DEF LastWordIsTrue, Word
  <2>1. rule[r].firing \/ Recovery(r) =>
          \/ heard[r].last = Word(r)
          \/ heard[r].edge - heard[r][Word(r)] < Cooldown
    BY DEF LastWordIsTrue, Word
  <2>2. \/ /\ heard'[r] = heard[r]
           /\ rule'[r].firing = rule[r].firing \/ (~Recovery(r) /\ ~rule'[r].firing)
        \/ heard'[r].last = Word(r)'
        \/ heard'[r].edge - heard'[r][Word(r)'] < Cooldown
    BY WordOfRule
  <2>3. ASSUME heard'[r] = heard[r], rule'[r].firing = rule[r].firing
        PROVE  \/ heard'[r].last = Word(r)'
               \/ heard'[r].edge - heard'[r][Word(r)'] < Cooldown
    <3>1. Word(r)' = Word(r)
      BY <2>3 DEF Word
    <3> QED  BY <2>1, <2>3, <3>1
  <2> QED  BY <2>2, <2>3
<1>9. Sampled'
  BY SampleTaken DEF Evaluate
<1> QED  BY <1>2, <1>6, <1>7, <1>8, <1>9

\* The dashboard collects too.
LEMMA DashboardStep ==
  ASSUME RulesInv, LastWordIsTrue,
         NEW outcome \in Outcome, Dashboard(outcome)
  PROVE  RulesInv' /\ LastWordIsTrue'
<1> USE DEF RulesInv
<1>1. /\ now' = now /\ cpu' = cpu /\ rule' = rule /\ lastSent' = lastSent
      /\ heard' = heard /\ CollectSystemStats(outcome)
  BY DEF Dashboard
<1>2. Witnessed' /\ seen' \in [low : Int, high : Int, blind : Int]
  BY <1>1, CollectStep
<1>3. Sampled'
  BY DEF Dashboard, Sampled
<1> QED  BY <1>1, <1>2, <1>3 DEF RulesTyped, Told, LastWordIsTrue

LEMMA RulesStep ==
  ASSUME RulesInv, LastWordIsTrue,
         [RulesNext]_rulesVars
  PROVE  RulesInv' /\ LastWordIsTrue'
<1>1. ASSUME NEW load \in {"low", "high"}, NEW arrived \in Traffic,
             Pass(load, arrived)
      PROVE  RulesInv' /\ LastWordIsTrue'
  BY <1>1, PassStep
<1>2. ASSUME NEW outcome \in Outcome, Dashboard(outcome)
      PROVE  RulesInv' /\ LastWordIsTrue'
  BY <1>2, DashboardStep
<1>3. ASSUME NEW check \in {"holds", "clear", "panics"},
             NEW outcome \in Outcome, Evaluate(check, outcome)
      PROVE  RulesInv' /\ LastWordIsTrue'
  BY <1>3, EvaluateStep
<1>4. CASE UNCHANGED rulesVars
  BY <1>4 DEF rulesVars, RulesInv, RulesTyped, Witnessed, Told, Sampled, LastWordIsTrue
<1> QED  BY <1>1, <1>2, <1>3, <1>4 DEF RulesNext

\* The last word is true, for every rule, any traffic and any durations: what was
\* last let through of a rule is what the rule is, or its last edge came less than
\* a cooldown after another of its kind (core/alerts/rules.go:120, evaluate;
\* alerts.go:299, admit).
THEOREM LastWordsAreTrue == RulesSpec => []LastWordIsTrue
<1>1. RulesInit => RulesInv /\ LastWordIsTrue
  BY RulesInitially
<1>2. RulesInv /\ LastWordIsTrue /\ [RulesNext]_rulesVars
        => RulesInv' /\ LastWordIsTrue'
  BY RulesStep
<1> QED  BY <1>1, <1>2, PTL DEF RulesSpec

\* One step of EdgesAreReal.
LEMMA EdgeIsReal ==
  ASSUME RulesInv, [RulesNext]_rulesVars
  PROVE  LET was == rule["cpu_high"].firing is == rule'["cpu_high"].firing IN
           /\ ~was /\ is => now - seen.high < StatsRefreshInterval
           /\ was /\ ~is => \/ now - seen.low < StatsRefreshInterval
                            \/ now - seen'.blind < StatsRefreshInterval
<1>1. CASE rule'["cpu_high"] = rule["cpu_high"]
  BY <1>1
<1>2. ASSUME NEW check, NEW outcome \in Outcome,
             Evaluate(check, outcome)
      PROVE  LET was == rule["cpu_high"].firing is == rule'["cpu_high"].firing IN
               /\ ~was /\ is => now - seen.high < StatsRefreshInterval
               /\ was /\ ~is => \/ now - seen.low < StatsRefreshInterval
                                \/ now - seen'.blind < StatsRefreshInterval
  <2>1. /\ now' = now /\ cpu' = cpu /\ CollectSystemStats(outcome)
        /\ eval' = sample(outcome)
        /\ rule' = [r \in Rule |-> step(r, eval', check)]
    BY <1>2 DEF Evaluate
  <2>2. "cpu_high" \in Rule
    BY DEF Rule
  <2>3. rule'["cpu_high"] = step("cpu_high", eval', check)
    BY <2>1, <2>2
  <2>4. \/ rule'["cpu_high"].firing = rule["cpu_high"].firing
        \/ /\ rule'["cpu_high"].firing = TRUE
           /\ holds("cpu_high", eval', check) = TRUE
        \/ /\ rule'["cpu_high"].firing = FALSE
           /\ holds("cpu_high", eval', check) = FALSE
    BY <2>2, <2>3, TickOfRule, Zenon DEF RulesInv
  <2>5. holds("cpu_high", eval', check) <=> eval'.usage = "high"
    BY DEF holds
  <2>6. eval'.usage = usage(outcome)
    BY <2>1 DEF sample
  <2>7. /\ usage(outcome) = "high" => now - seen.high < StatsRefreshInterval
        /\ usage(outcome) # "high" =>
             \/ now - seen.low < StatsRefreshInterval
             \/ now - seen'.blind < StatsRefreshInterval
    BY <2>1, CollectStep DEF RulesInv
  <2> QED  BY <2>4, <2>5, <2>6, <2>7
<1> QED  BY <1>1, <1>2 DEF RulesNext, rulesVars, Pass, Dashboard

\* A resource rule follows the resource, whoever collected the statistics it reads:
\* it fires and clears on what was so less than StatsRefreshInterval ago, or
\* clears on incomplete statistics (core/monitoring/stats.go:164).
THEOREM EdgesAreOfTheResource == RulesSpec => EdgesAreReal
<1>1. RulesInit => RulesInv /\ LastWordIsTrue
  BY RulesInitially
<1>2. RulesInv /\ LastWordIsTrue /\ [RulesNext]_rulesVars
        => RulesInv' /\ LastWordIsTrue'
  BY RulesStep
<1>3. RulesInv /\ [RulesNext]_rulesVars =>
        [LET was == rule["cpu_high"].firing is == rule'["cpu_high"].firing IN
           /\ ~was /\ is => now - seen.high < StatsRefreshInterval
           /\ was /\ ~is => \/ now - seen.low < StatsRefreshInterval
                            \/ now - seen'.blind < StatsRefreshInterval]_rulesVars
  BY EdgeIsReal
<1> QED  BY <1>1, <1>2, <1>3, PTL DEF RulesSpec, EdgesAreReal

\* What reaches a multiple of the average with itself reaches that of the rest.
LEMMA ReachesTheRest ==
  ASSUME NEW n \in Nat, NEW b \in Nat, NEW d \in Nat, NEW f \in Nat \ {0},
         n * (5 * d) >= f * (n * d + 4 * b)
  PROVE  n * d >= f * b
<1>1. PICK x \in Nat : x = n * d
  OBVIOUS
<1>2. PICK y \in Nat : y = f * b
  OBVIOUS
<1>3. n * (5 * d) = 5 * x
  BY <1>1
<1>4. f * (n * d + 4 * b) = f * x + 4 * y
  BY <1>1, <1>2
<1>5. f * x \in Nat /\ f * x >= x
  <2>1. PICK g \in Nat : f = g + 1
    <3>1. f - 1 \in Nat /\ f = (f - 1) + 1
      OBVIOUS
    <3> QED  BY <3>1
  <2>2. g * x \in Nat /\ f * x = g * x + x
    BY <2>1
  <2> QED  BY <2>2
<1>6. 5 * x >= f * x + 4 * y
  BY <1>3, <1>4
<1>7. x >= y
  BY <1>5, <1>6
<1> QED  BY <1>1, <1>2, <1>7

\* One step of SurgeDeserved.
LEMMA SurgeIsDeserved ==
  ASSUME RulesInv, [RulesNext]_rulesVars,
         eval.baseline # None,
         ~rule["traffic_surge"].firing, rule'["traffic_surge"].firing
  PROVE  exceeds(eval'.requests, SurgeFactor, eval.baseline)
<1>1. PICK check \in {"holds", "clear", "panics"}, outcome \in Outcome : Evaluate(check, outcome)
  BY DEF RulesNext, rulesVars, Pass, Dashboard
<1>2. /\ eval' = sample(outcome) /\ totals' = totals
      /\ rule' = [r \in Rule |-> step(r, eval', check)]
  BY <1>1 DEF Evaluate
<1>3. "traffic_surge" \in Rule
  BY DEF Rule
<1>4. rule'["traffic_surge"] = step("traffic_surge", eval', check)
  BY <1>2, <1>3
<1>5. holds("traffic_surge", eval', check) = TRUE
  BY <1>3, <1>4, TickOfRule, Zenon DEF RulesInv
<1>6. eval'.valid /\ exceeds(eval'.requests, SurgeFactor, eval'.baseline)
  BY <1>5 DEF holds, surge
<1>7. /\ eval'.requests \in Nat
      /\ eval'.baseline = smoothed(eval.baseline, eval'.requests)
  BY <1>2, <1>6, SampleTaken DEF RulesInv
<1>8. PICK n \in Nat : n = eval'.requests
  BY <1>7
<1>9. PICK x \in Nat, d \in Nat \ {0} : eval.baseline = [num |-> x, den |-> d]
  BY DEF RulesInv, Sampled, Fraction
<1>10. eval'.baseline = [num |-> n * d + 4 * x, den |-> 5 * d]
  BY <1>7, <1>8, <1>9 DEF smoothed
<1>11. n * (5 * d) >= SurgeFactor * (n * d + 4 * x)
  BY <1>6, <1>8, <1>10 DEF exceeds
<1>12. n * d >= SurgeFactor * x
  BY <1>11, ReachesTheRest, RulesAssumption
<1> QED  BY <1>8, <1>9, <1>12 DEF exceeds

\* A surge is one, for every factor from one up: the rate that is compared with a
\* baseline it is part of was that many times the baseline before it
\* (core/alerts/rules.go:359, the check of traffic_surge).
THEOREM SurgesAreDeserved == RulesSpec => SurgeDeserved
<1>1. RulesInit => RulesInv /\ LastWordIsTrue
  BY RulesInitially
<1>2. RulesInv /\ LastWordIsTrue /\ [RulesNext]_rulesVars
        => RulesInv' /\ LastWordIsTrue'
  BY RulesStep
<1>3. RulesInv /\ [RulesNext]_rulesVars =>
        [(eval.baseline # None /\ ~rule["traffic_surge"].firing
            /\ rule'["traffic_surge"].firing)
           => exceeds(eval'.requests, SurgeFactor, eval.baseline)]_rulesVars
  BY SurgeIsDeserved
<1> QED  BY <1>1, <1>2, <1>3, PTL DEF RulesSpec, SurgeDeserved
=============================================================================
