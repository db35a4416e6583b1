------------------------------ MODULE ApiProofs ------------------------------
(* Proofs about SpecFiles and Versions: the documents the server answers.   *)
EXTENDS SpecFiles, Versions, FiniteSetTheorems, WellFoundedInduction, TLAPS

(***************************************************************************)
(* The documents on disk.  What makes the answers inductive: of a version  *)
(* that nobody wrote since the server was started, whatever the server     *)
(* keeps or a request has in hand is what its file says.                   *)
(***************************************************************************)
Run == 1..MaxRuns

Copy == [pc : {"idle", "read", "fail", "store", "answer"},
         version : Versions \cup {None}, raw : {None, Torn, Assembled} \cup Run]

FilesTyped ==
  /\ file \in [Versions -> {None, Torn} \cup Run]
  /\ generator \in [pc : {"idle", "write", "fill"}, versions : SUBSET Versions,
                    todo : SUBSET Versions, run : 0..MaxRuns, valid : SUBSET Versions]
  /\ generator.pc # "idle" => generator.run # 0
  /\ parsedDocs \in [Versions -> {None} \cup Run]
  /\ parseErrs \in [Versions -> BOOLEAN]
  /\ request \in [Reader -> Copy]
  /\ \A r \in Reader : request[r].pc # "idle" => request[r].version \in Versions
  /\ \A r \in Reader : request[r].pc = "store" => request[r].raw \in Run
  /\ settled \in [Versions -> {None, Assembled} \cup Run]

\* The file that is being written, when one is.
Writing == IF generator.pc = "fill" THEN {First(generator.todo)} ELSE {}

\* What the command found valid can be parsed and is not being written.
ValidParses == \A v \in generator.valid : file[v] \in Run /\ v \notin Writing

\* What the server has of a version that was not written since its start.
HasTheFile(v) ==
  /\ parseErrs[v] => file[v] \in {None, Torn}
  /\ parsedDocs[v] \in {None, file[v]}
  /\ \A r \in Reader : request[r].version = v =>
       /\ request[r].pc = "store" => request[r].raw = file[v]
       /\ request[r].pc = "fail" => file[v] \in {None, Torn}

Untouched == /\ Writing \subseteq touched
             /\ \A v \in Versions \ touched : HasTheFile(v)

FilesInv == FilesTyped /\ ValidParses /\ Untouched /\ AnswersSettle

LEMMA FilesInitially == FilesInit => FilesInv
<1> SUFFICES ASSUME FilesInit PROVE FilesInv
  OBVIOUS
<1>1. FilesTyped
  BY SpecFilesAssumption, VersionNamesAssumption DEF FilesInit, FilesTyped, Copy, Run, Idle
<1>2. ValidParses /\ Untouched
  BY DEF FilesInit, ValidParses, Untouched, Writing, HasTheFile, Idle
<1>3. AnswersSettle
  BY DEF FilesInit, AnswersSettle
<1> QED  BY <1>1, <1>2, <1>3 DEF FilesInv

\* The server does not see the command's steps: what it answers with is settled still.
LEMMA CommandSettles ==
  ASSUME AnswersSettle, UNCHANGED <<server, settled>>
  PROVE  AnswersSettle'
BY DEF AnswersSettle, server, Known, answer, Loading

LEMMA GenerateStep ==
  ASSUME FilesInv, NEW names \in {Versions} \cup {{v} : v \in Versions}, Generate(names)
  PROVE  FilesInv'
<1>1. names \in SUBSET Versions
  OBVIOUS
<1>2. FilesTyped'
  <2>1. generator.run + 1 \in 0..MaxRuns /\ generator.run + 1 # 0
    BY SpecFilesAssumption DEF FilesInv, FilesTyped, Generate
  <2>2. generator' = [pc |-> "write", versions |-> names, todo |-> names,
                      run |-> generator.run + 1, valid |-> generator.valid]
    BY DEF FilesInv, FilesTyped, Generate
  <2>3. generator.valid \in SUBSET Versions
    BY DEF FilesInv, FilesTyped
  <2> QED  BY <1>1, <2>1, <2>2, <2>3 DEF FilesInv, FilesTyped, Generate, server
<1>3. ValidParses' /\ Untouched'
  BY DEF FilesInv, FilesTyped, ValidParses, Untouched, HasTheFile, Writing, Generate, server
<1>4. AnswersSettle'
  BY CommandSettles DEF FilesInv, Generate
<1> QED  BY <1>2, <1>3, <1>4 DEF FilesInv

LEMMA TruncateStep == ASSUME FilesInv, Truncate PROVE FilesInv'
<1> DEFINE v == First(generator.todo)
<1>0. /\ generator.pc = "write" /\ generator' = [generator EXCEPT !.pc = "fill", !.valid = @ \ {v}]
      /\ file' = [file EXCEPT ![v] = Torn] /\ touched' = touched \cup {v}
      /\ UNCHANGED <<server, settled>>
  BY DEF Truncate
<1>1. Writing' = {v}
  BY <1>0 DEF FilesInv, FilesTyped, Writing
<1> HIDE DEF v
<1>2. FilesTyped'
  BY <1>0 DEF FilesInv, FilesTyped, server
<1>3. ValidParses' /\ Untouched'
  BY <1>0, <1>1 DEF FilesInv, FilesTyped, ValidParses, Untouched, HasTheFile, server
<1>4. AnswersSettle'
  BY <1>0, CommandSettles DEF FilesInv
<1> QED  BY <1>2, <1>3, <1>4 DEF FilesInv

LEMMA FillStep == ASSUME FilesInv, Fill PROVE FilesInv'
<1> DEFINE v == First(generator.todo)
<1>0. /\ generator.pc = "fill"
      /\ generator' = [generator EXCEPT !.pc = "write", !.todo = @ \ {v}]
      /\ file' = [file EXCEPT ![v] = generator.run]
      /\ UNCHANGED <<server, settled, touched>>
  BY DEF Fill
<1>1. Writing = {v} /\ Writing' = {}
  BY <1>0 DEF FilesInv, FilesTyped, Writing
<1>5. generator.run \in Run
  BY <1>0, SpecFilesAssumption DEF FilesInv, FilesTyped, Run
<1> HIDE DEF v
<1>2. FilesTyped'
  BY <1>0, <1>5 DEF FilesInv, FilesTyped, server
<1>3. ValidParses' /\ Untouched'
  BY <1>0, <1>1, <1>5 DEF FilesInv, FilesTyped, ValidParses, Untouched, HasTheFile, server
<1>4. AnswersSettle'
  BY <1>0, CommandSettles DEF FilesInv
<1> QED  BY <1>2, <1>3, <1>4 DEF FilesInv

\* The end of a run, and a validation, change only what is found valid.
LEMMA EndOfRunStep ==
  ASSUME FilesInv, GenerateSucceeds \/ GenerateFails \/ Validate
  PROVE  FilesInv'
<1>0. UNCHANGED <<file, server, settled, touched>>
  BY DEF GenerateSucceeds, GenerateFails, Validate
<1>1. /\ FilesTyped' /\ Writing' = {}
      /\ \A v \in generator'.valid : v \in generator.valid \/ file[v] \in Run
  <2>1. CASE GenerateSucceeds
    <3>1. generator.valid \cup generator.versions \in SUBSET Versions
      BY DEF FilesInv, FilesTyped
    <3> QED  BY <1>0, <2>1, <3>1 DEF FilesInv, FilesTyped, Writing, GenerateSucceeds,
                                     ValidateSpecs, server, Run
  <2>2. CASE GenerateFails
    BY <1>0, <2>2 DEF FilesInv, FilesTyped, Writing, GenerateFails, server
  <2>3. CASE Validate
    BY <1>0, <2>3 DEF FilesInv, FilesTyped, Writing, Validate, ValidateSpecs, server, Run
  <2> QED  BY <2>1, <2>2, <2>3
<1>3. ValidParses' /\ Untouched'
  BY <1>0, <1>1 DEF FilesInv, ValidParses, Untouched, HasTheFile, server
<1>4. AnswersSettle'
  BY <1>0, CommandSettles DEF FilesInv
<1> QED  BY <1>1, <1>3, <1>4 DEF FilesInv

\* Once an answer has settled, no step of a request unsettles it.
LEMMA SettleStep ==
  ASSUME AnswersSettle, Settle,
         \A v \in Versions : settled[v] # None =>
           /\ parsedDocs'[v] = parsedDocs[v] /\ parseErrs'[v] = parseErrs[v]
           /\ Loading(v)' = {}
  PROVE  AnswersSettle'
BY DEF AnswersSettle, Settle, Known, answer

LEMMA SettledType ==
  ASSUME FilesTyped, Settle, parsedDocs' \in [Versions -> {None} \cup Run]
  PROVE  settled' \in [Versions -> {None, Assembled} \cup Run]
BY DEF FilesTyped, Settle, answer

LEMMA CheckStep ==
  ASSUME FilesInv, NEW r \in Reader, NEW v \in Versions, Check(r, v)
  PROVE  FilesInv'
<1>1. FilesTyped'
  <2>1. Settle /\ parsedDocs' = parsedDocs
    BY DEF Check
  <2>2. settled' \in [Versions -> {None, Assembled} \cup Run]
    BY <2>1, SettledType DEF FilesInv, FilesTyped
  <2>3. answer(v) \in {None, Assembled} \cup Run
    BY DEF FilesInv, FilesTyped, answer
  <2> HIDE DEF Settle
  <2> QED  BY <2>2, <2>3 DEF FilesInv, FilesTyped, Copy, Check
<1>2. ValidParses' /\ Untouched'
  BY DEF FilesInv, FilesTyped, ValidParses, Untouched, HasTheFile, Writing, Check
<1>3. AnswersSettle'
  <2>1. \A w \in Versions : settled[w] # None => Loading(w)' = {}
    BY DEF FilesInv, FilesTyped, AnswersSettle, Loading, Check
  <2> QED  BY <2>1, SettleStep DEF FilesInv, Check
<1> QED  BY <1>1, <1>2, <1>3 DEF FilesInv

LEMMA ReadSpecBytesStep ==
  ASSUME FilesInv, NEW r \in Reader, readSpecBytes(r)
  PROVE  FilesInv'
<1>1. FilesTyped'
  BY DEF FilesInv, FilesTyped, Copy, readSpecBytes
<1>2. ValidParses' /\ Untouched'
  BY DEF FilesInv, FilesTyped, ValidParses, Untouched, HasTheFile, Writing, readSpecBytes
<1>3. AnswersSettle'
  <2>1. \A w \in Versions : Loading(w)' = Loading(w)
    BY DEF FilesInv, FilesTyped, Loading, readSpecBytes
  <2> QED  BY <2>1 DEF FilesInv, AnswersSettle, Known, answer, readSpecBytes
<1> QED  BY <1>1, <1>2, <1>3 DEF FilesInv

LEMMA StoreErrorStep ==
  ASSUME FilesInv, NEW r \in Reader, StoreError(r)
  PROVE  FilesInv'
<1>0. /\ request[r].pc = "fail" /\ request[r].version \in Versions
      /\ parseErrs' = [parseErrs EXCEPT ![request[r].version] = TRUE]
      /\ request' = [request EXCEPT ![r].pc = "answer", ![r].raw = Assembled]
      /\ UNCHANGED <<file, generator, parsedDocs, touched>> /\ Settle
  BY DEF StoreError, failed, FilesInv, FilesTyped
<1>1. FilesTyped'
  <2>1. settled' \in [Versions -> {None, Assembled} \cup Run]
    BY <1>0, SettledType DEF FilesInv, FilesTyped
  <2> QED  BY <1>0, <2>1 DEF FilesInv, FilesTyped, Copy
<1>2. ValidParses' /\ Untouched'
  BY <1>0 DEF FilesInv, FilesTyped, ValidParses, Untouched, HasTheFile, Writing
<1>3. AnswersSettle'
  <2>1. r \in Loading(request[r].version)
    BY <1>0 DEF Loading
  <2>2. \A w \in Versions : settled[w] # None =>
          w # request[r].version /\ Loading(w)' = {}
    BY <1>0, <2>1 DEF FilesInv, FilesTyped, AnswersSettle, Loading
  <2> QED  BY <1>0, <2>2, SettleStep DEF FilesInv, FilesTyped
<1> QED  BY <1>1, <1>2, <1>3 DEF FilesInv

LEMMA StoreParsedStep ==
  ASSUME FilesInv, NEW r \in Reader, StoreParsed(r)
  PROVE  FilesInv'
<1>0. /\ request[r].pc = "store" /\ request[r].version \in Versions
      /\ request[r].raw \in Run
      /\ parsedDocs' = [parsedDocs EXCEPT ![request[r].version] = request[r].raw]
      /\ parseErrs' = [parseErrs EXCEPT ![request[r].version] = FALSE]
      /\ request' = [request EXCEPT ![r].pc = "answer"]
      /\ UNCHANGED <<file, generator, touched>> /\ Settle
  BY DEF StoreParsed, FilesInv, FilesTyped
<1>1. FilesTyped'
  <2>0. parsedDocs' \in [Versions -> {None} \cup Run]
    BY <1>0 DEF FilesInv, FilesTyped
  <2>1. settled' \in [Versions -> {None, Assembled} \cup Run]
    BY <1>0, <2>0, SettledType DEF FilesInv, FilesTyped
  <2> QED  BY <1>0, <2>0, <2>1 DEF FilesInv, FilesTyped, Copy
<1>2. ValidParses' /\ Untouched'
  BY <1>0 DEF FilesInv, FilesTyped, ValidParses, Untouched, HasTheFile, Writing
<1>3. AnswersSettle'
  <2>1. r \in Loading(request[r].version)
    BY <1>0 DEF Loading
  <2>2. \A w \in Versions : settled[w] # None =>
          w # request[r].version /\ Loading(w)' = {}
    BY <1>0, <2>1 DEF FilesInv, FilesTyped, AnswersSettle, Loading
  <2> QED  BY <1>0, <2>2, SettleStep DEF FilesInv, FilesTyped
<1> QED  BY <1>1, <1>2, <1>3 DEF FilesInv

LEMMA RespondStep ==
  ASSUME FilesInv, NEW r \in Reader, Respond(r)
  PROVE  FilesInv'
<1>1. FilesTyped'
  BY DEF FilesInv, FilesTyped, Copy, Respond, Idle
<1>2. ValidParses' /\ Untouched'
  BY DEF FilesInv, FilesTyped, ValidParses, Untouched, HasTheFile, Writing, Respond, Idle
<1>3. AnswersSettle'
  <2>1. \A w \in Versions : Loading(w)' = Loading(w)
    BY DEF FilesInv, FilesTyped, Loading, Respond, Idle
  <2> QED  BY <2>1 DEF FilesInv, AnswersSettle, Known, answer, Respond
<1> QED  BY <1>1, <1>2, <1>3 DEF FilesInv

LEMMA RestartStep == ASSUME FilesInv, Restart PROVE FilesInv'
<1>1. FilesTyped'
  BY DEF FilesInv, FilesTyped, Copy, Restart, Idle
<1>2. ValidParses' /\ Untouched'
  BY DEF FilesInv, FilesTyped, ValidParses, Untouched, HasTheFile, Writing, Restart, Idle
<1>3. AnswersSettle'
  BY DEF AnswersSettle, Restart
<1> QED  BY <1>1, <1>2, <1>3 DEF FilesInv

LEMMA FilesStep == FilesInv /\ [FilesNext]_filesVars => FilesInv'
<1> SUFFICES ASSUME FilesInv, [FilesNext]_filesVars PROVE FilesInv'
  OBVIOUS
<1>1. CASE UNCHANGED filesVars
  BY <1>1 DEF filesVars, FilesInv, FilesTyped, ValidParses, Untouched, HasTheFile, Writing,
              AnswersSettle, Known, answer, Loading
<1>2. CASE FilesNext
  BY <1>2, GenerateStep, TruncateStep, FillStep, EndOfRunStep, CheckStep, ReadSpecBytesStep,
     StoreErrorStep, StoreParsedStep, RespondStep, RestartStep DEF FilesNext
<1> QED  BY <1>1, <1>2

\* Whatever is written and however many requests load a version at once, its
\* answers settle until the next start (core/server/api/openapi_embedded_loader.go:64, GetSpec).
THEOREM AnswersDoSettle == FilesSpec => []AnswersSettle
<1>1. FilesInv => AnswersSettle
  BY DEF FilesInv
<1> QED  BY <1>1, FilesInitially, FilesStep, PTL DEF FilesSpec

\* What was reported valid, and not written since the server was started, is
\* answered from its file or not yet (core/server/api/spec_generator.go:156, ValidateSpecs).
THEOREM ValidIsServed == FilesSpec => []ServedAsGenerated
<1>1. FilesInv => ServedAsGenerated
  <2> SUFFICES ASSUME FilesInv, NEW v \in generator.valid \ touched
               PROVE  ~parseErrs[v] /\ parsedDocs[v] \in {None, file[v]}
    BY DEF ServedAsGenerated
  <2>1. v \in Versions /\ file[v] \in 1..MaxRuns
    BY DEF FilesInv, FilesTyped, ValidParses, Run
  <2>2. file[v] \notin {None, Torn}
    BY <2>1, SpecFilesAssumption, VersionNamesAssumption
  <2> QED  BY <2>1, <2>2 DEF FilesInv, Untouched, HasTheFile
<1> QED  BY <1>1, FilesInitially, FilesStep, PTL DEF FilesSpec

-----------------------------------------------------------------------------
(***************************************************************************)
(* The version manager.  Three things make its promises inductive: whose   *)
(* registry is whose, for ever; how far the calls of a version have come,  *)
(* and what is served and documented by then; and that a document that is  *)
(* kept or assembled has what was registered when it was asked for, unless *)
(* a registration overlapped it.                                           *)
(***************************************************************************)
Auth == {None, "open"} \cup MiddlewareAuth \cup HandlerAuth
Endpoints == [Keys -> Auth]
Routes == [Keys -> {None} \cup SUBSET Middleware]
Registry == [enabled : BOOLEAN, endpoints : Endpoints, cached : Endpoints \cup {None},
             dirty : BOOLEAN]
Routing == {"route", "document", "bind", "bindRoute"}

Serving ==
  [pc : {"idle", "validated", "refused", "next", "router", "failed", "done"} \cup Routing,
   docsOnly : BOOLEAN, todo : SUBSET Versions, version : Versions \cup {None},
   at : Nat, used : [Versions -> Nat \cup {None}], touched : SUBSET Versions]
Reading ==
  [pc : {"idle", "dump", "check", "copy", "assemble", "answered"}, dump : BOOLEAN,
   todo : SUBSET Versions, of : Nat \cup {None}, docs : Endpoints \cup {None},
   since : Endpoints \cup {None}]

Typed ==
  /\ versions \subseteq Versions /\ routeRegistrars \subseteq versions
  /\ defaultVersion \in Versions \cup {None}
  /\ registries \in [Versions -> Nat \cup {None}]
  /\ registry \in Seq(Registry)
  /\ served \in [Versions -> Routes]
  /\ serving \in Serving
  /\ reader \in [Readers -> Reading]
  /\ overlapped \subseteq DOMAIN registry

\* A registry is of one version for ever.
Owners ==
  /\ \A v \in Versions : IF v \in versions THEN registries[v] \in DOMAIN registry
                                           ELSE registries[v] = None
  /\ \A v, w \in versions : registries[v] = registries[w] => v = w
  /\ \A v \in Versions : serving.used[v] \in DOMAIN registry \cup {None}
  /\ \A v, w \in Versions :
       serving.used[v] # None /\ serving.used[v] \in {serving.used[w], registries[w]} => v = w

\* Where RegisterAllVersionRoutes is.  A version that nobody touched is as it was when the
\* registrars were validated.
Course ==
  /\ serving.pc \in {"idle", "validated", "refused"} =>
       serving.todo = {} /\ \A v \in Versions : serving.used[v] = None
  /\ \A v \in serving.todo : serving.used[v] = None
  /\ serving.pc \in Routing => /\ serving.version \in Versions /\ serving.at \in Calls
                               /\ serving.used[serving.version] # None
  /\ serving.pc \in {"router", "failed"} => serving.version \in Versions
  /\ serving.pc = "router" => /\ serving.used[serving.version] = None
                              /\ serving.version \notin serving.todo
  /\ serving.pc \in {"bind", "bindRoute"} => CRUD[serving.at].bound

Registered ==
  /\ serving.pc = "validated" => versions \ serving.touched \subseteq routeRegistrars
  /\ serving.todo \ serving.touched \subseteq routeRegistrars
  /\ serving.pc = "router" => serving.version \in serving.touched \cup versions
  /\ FailureNeedsChange

keyOf(k) == endpointKey(CRUD[k])
doc(v, k) == registry[serving.used[v]].endpoints[keyOf(k)]
givenTo(k) == IF CRUD[k].bound THEN Middleware ELSE {}
\* What is documented of a call with the middleware given, by a version that may not be.
said(v, k, given) ==
  IF registry[serving.used[v]].enabled THEN documented(CRUD[k].handler, given) ELSE None
Answered(v, k, bound) == served[v][keyOf(k)] = IF serving.docsOnly THEN None ELSE bound
Done(v, k) == /\ doc(v, k) = said(v, k, givenTo(k))
              /\ Answered(v, k, givenTo(k) \cap Bindable)

\* How far the calls of the version v have come.
Now(v) == serving.pc \in Routing /\ v = serving.version
Stage(v, k) ==
  /\ (~Now(v) \/ k < serving.at) => Done(v, k)
  /\ Now(v) /\ k > serving.at => doc(v, k) = None
  /\ Now(v) /\ k = serving.at =>
       /\ serving.pc \in {"route", "document"} => doc(v, k) = None
       /\ serving.pc \in {"document", "bind"} => Answered(v, k, {})
       /\ serving.pc = "bind" => doc(v, k) = said(v, k, {})
       /\ serving.pc = "bindRoute" => doc(v, k) = said(v, k, Middleware)

Progress ==
  /\ \A v \in Versions, k \in Calls : serving.used[v] # None => Stage(v, k)
  /\ \A i \in DOMAIN registry :
       (\A v \in Versions : serving.used[v] # i) => registry[i].endpoints = Empty
  /\ (serving.docsOnly \/ serving.pc = "idle") => served = [v \in Versions |-> Empty]


CoversSince(r) ==
  /\ reader[r].dump => reader[r].todo \subseteq versions
  /\ reader[r].pc \notin {"idle", "dump"} => reader[r].of \in DOMAIN registry
  /\ reader[r].pc = "dump" => reader[r].dump
  /\ reader[r].pc \in {"check", "copy", "assemble"} =>
       /\ reader[r].since \in Endpoints
       /\ Covers(reader[r].since, registry[reader[r].of].endpoints)
  /\ reader[r].pc = "assemble" =>
       /\ reader[r].docs \in Endpoints /\ Covers(reader[r].since, reader[r].docs)
       /\ \/ reader[r].of \in overlapped
          \/ reader[r].docs = registry[reader[r].of].endpoints

Cached(i) == ~registry[i].dirty /\ registry[i].cached # None =>
               registry[i].cached = registry[i].endpoints

Documents == /\ \A r \in Readers : CoversSince(r)
             /\ \A i \in DOMAIN registry \ overlapped : Cached(i)

VInv == Typed /\ Owners /\ Course /\ Registered /\ Progress /\ Documents

LEMMA CallsHaveKeys ==
  /\ \A i \in Calls : i \in 1..6 /\ endpointKey(CRUD[i]) \in Keys
  /\ \A i \in 1..6 : CRUD[i].bound \in BOOLEAN
  /\ \A i, j \in Calls : endpointKey(CRUD[i]) = endpointKey(CRUD[j]) => i = j
<1>1. /\ endpointKey(CRUD[1]) = <<"GET", "collection">>
      /\ endpointKey(CRUD[2]) = <<"POST", "collection">>
      /\ endpointKey(CRUD[3]) = <<"GET", "record">>
      /\ endpointKey(CRUD[4]) = <<"PUT", "record">>
      /\ endpointKey(CRUD[5]) = <<"PATCH", "record">>
      /\ endpointKey(CRUD[6]) = <<"DELETE", "record">>
  BY DEF CRUD, Route, endpointKey
<1>2. \A i, j \in 1..6 : endpointKey(CRUD[i]) = endpointKey(CRUD[j]) => i = j
  <2> DEFINE k(i) == endpointKey(CRUD[i])
  <2>1. \A i, j \in 1..6 : k(i) = k(j) => i = j
    <3>1. /\ k(1) = <<"GET", "collection">> /\ k(2) = <<"POST", "collection">>
          /\ k(3) = <<"GET", "record">> /\ k(4) = <<"PUT", "record">>
          /\ k(5) = <<"PATCH", "record">> /\ k(6) = <<"DELETE", "record">>
      BY <1>1
    <3> HIDE DEF k
    <3> SUFFICES ASSUME NEW i \in 1..6, NEW j \in 1..6, k(i) = k(j) PROVE i = j
      OBVIOUS
    <3>2. i \in {1, 2, 3, 4, 5, 6} /\ j \in {1, 2, 3, 4, 5, 6}
      OBVIOUS
    <3> QED  BY <3>1, <3>2
  <2> QED  BY <2>1
<1>3. \A i \in Calls : i \in 1..6 /\ endpointKey(CRUD[i]) \in Keys
  BY DEF Calls, Keys
<1>4. \A i \in 1..6 : CRUD[i].bound \in BOOLEAN
  <2> SUFFICES ASSUME NEW i \in 1..6 PROVE CRUD[i].bound \in BOOLEAN
    OBVIOUS
  <2>1. i \in {1, 2, 3, 4, 5, 6}
    OBVIOUS
  <2>2. CASE i \in {1, 3}
    <3>1. CRUD[1].bound = FALSE /\ CRUD[3].bound = FALSE
      BY DEF CRUD, Route
    <3> QED  BY <2>2, <3>1, Zenon
  <2>3. CASE i \in {2, 4, 5, 6}
    <3>1. CRUD[2].bound = TRUE /\ CRUD[4].bound = TRUE
      BY DEF CRUD, Route
    <3>2. CRUD[5].bound = TRUE /\ CRUD[6].bound = TRUE
      BY DEF CRUD, Route
    <3> QED  BY <2>3, <3>1, <3>2, Zenon
  <2> QED  BY <2>1, <2>2, <2>3
<1> QED  BY <1>2, <1>3, <1>4

LEMMA MinIs ==
  ASSUME NEW S \in SUBSET Nat, S # {}
  PROVE  Min(S) \in S /\ \A n \in S : Min(S) <= n
<1>1. PICK m \in S : \A n \in S : ~(<<n, m>> \in OpToRel(<, Nat))
  BY NatLessThanWellFounded, WFMin, Zenon
<1>2. \A n \in S : ~(n < m)
  <2>1. \A n \in S : m \in Nat /\ n \in Nat
    OBVIOUS
  <2> QED  BY <1>1, <2>1, Zenon DEF OpToRel
<1>3. \A n \in S : m <= n
  BY <1>2
<1> QED  BY <1>3 DEF Min

LEMMA NextCallIs ==
  ASSUME NEW i \in Nat, NEW s
  PROVE  \E j \in Nat :
           /\ NextCall(s, i) = [s EXCEPT !.at = j, !.pc = IF j = 0 THEN "next" ELSE "route"]
           /\ j = 0 => \A k \in Calls : k <= i
           /\ j # 0 => j \in Calls /\ j > i /\ \A k \in Calls : k > i => j <= k
<1>1. Later(i) \in SUBSET Nat /\ Later(i) \subseteq Calls /\ 0 \notin Calls
  BY DEF Later, Calls
<1>2. CASE Later(i) = {}
  <2>1. NextCall(s, i) = [s EXCEPT !.at = 0, !.pc = "next"]
    BY <1>2 DEF NextCall
  <2>2. \A k \in Calls : k <= i
    BY <1>2 DEF Later, Calls
  <2> QED  BY <2>1, <2>2
<1>3. CASE Later(i) # {}
  <2> DEFINE j == Min(Later(i))
  <2>1. j \in Later(i) /\ \A n \in Later(i) : j <= n
    BY <1>1, <1>3, MinIs
  <2>2. NextCall(s, i) = [s EXCEPT !.at = j, !.pc = "route"]
    BY <1>3 DEF NextCall
  <2> HIDE DEF j
  <2>3. j \in Calls /\ j > i /\ \A k \in Calls : k > i => j <= k
    BY <2>1 DEF Later
  <2>4. j \in Nat /\ j # 0
    BY <1>1, <2>1
  <2>5. NextCall(s, i) = [s EXCEPT !.at = j, !.pc = IF j = 0 THEN "next" ELSE "route"]
    BY <2>2, <2>4, Zenon
  <2> QED  BY <2>3, <2>4, <2>5, Zenon
<1> QED  BY <1>2, <1>3

LEMMA RegistriesFitIn ==
  ASSUME NEW S \in SUBSET Versions
  PROVE  /\ Cardinality(S) \in Nat
         /\ \A v \in S : Cardinality({w \in S : w <= v}) \in 1..Cardinality(S)
         /\ \A v, u \in S : Cardinality({w \in S : w <= v}) = Cardinality({w \in S : w <= u}) => v = u
<1> DEFINE upTo(v) == {w \in S : w <= v}
<1>1. S \in SUBSET Nat /\ IsFiniteSet(S)
  BY VersionNamesAssumption, FS_Subset
<1>2. \A v \in S : IsFiniteSet(upTo(v)) /\ upTo(v) \in SUBSET S /\ v \in upTo(v)
  BY <1>1, FS_Subset
<1>3. Cardinality(S) \in Nat /\ \A v \in S : Cardinality(upTo(v)) \in 1..Cardinality(S)
  <2>1. Cardinality(S) \in Nat
    BY <1>1, FS_CardinalityType
  <2> SUFFICES ASSUME NEW v \in S PROVE Cardinality(upTo(v)) \in 1..Cardinality(S)
    BY <2>1
  <2> HIDE DEF upTo
  <2>2. Cardinality(upTo(v)) \in Nat /\ Cardinality(upTo(v)) <= Cardinality(S)
    BY <1>1, <1>2, FS_CardinalityType, FS_Subset
  <2>3. Cardinality(upTo(v)) # 0
    BY <1>2, FS_EmptySet
  <2> QED  BY <2>1, <2>2, <2>3
<1>4. \A v, u \in S : v < u => Cardinality(upTo(v)) # Cardinality(upTo(u))
  <2> SUFFICES ASSUME NEW v \in S, NEW u \in S, v < u
               PROVE  Cardinality(upTo(v)) # Cardinality(upTo(u))
    OBVIOUS
  <2>1. upTo(v) \in SUBSET upTo(u)
    <3> SUFFICES ASSUME NEW w \in S, w <= v PROVE w <= u
      OBVIOUS
    <3>1. w \in Nat /\ v \in Nat /\ u \in Nat
      BY <1>1
    <3> QED  BY <3>1
  <2>2. u \notin upTo(v) /\ u \in upTo(u)
    BY <1>1
  <2> HIDE DEF upTo
  <2> QED  BY <1>2, <2>1, <2>2, FS_Subset
<1>5. \A v, u \in S : Cardinality(upTo(v)) = Cardinality(upTo(u)) => v = u
  <2> HIDE DEF upTo
  <2> QED  BY <1>1, <1>4
<1> QED  BY <1>3, <1>5

LEMMA NewRegistry ==
  /\ Empty \in Endpoints /\ Empty \in Routes
  /\ \A enabled \in BOOLEAN : /\ NewAPIRegistry(enabled) \in Registry
                              /\ NewAPIRegistry(enabled).endpoints = Empty
                              /\ NewAPIRegistry(enabled).cached = None
BY DEF NewAPIRegistry, Registry, Endpoints, Routes, Auth, Empty

LEMMA HierarchyIs ==
  /\ MiddlewareAuth = {"guest_only", "auth", "superuser_or_owner", "superuser"}
  /\ \A n \in 1..4 : hierarchy[n] \in MiddlewareAuth /\ level(hierarchy[n]) = n
<1>1. /\ hierarchy[1] = "guest_only" /\ hierarchy[2] = "auth"
      /\ hierarchy[3] = "superuser_or_owner" /\ hierarchy[4] = "superuser"
  BY DEF hierarchy
<1>2. \A n \in 1..4 : n \in {1, 2, 3, 4}
  OBVIOUS
<1>3. 1 \in 1..4 /\ 2 \in 1..4 /\ 3 \in 1..4 /\ 4 \in 1..4
  OBVIOUS
<1>4. \A n, m \in {1, 2, 3, 4} : hierarchy[n] = hierarchy[m] => n = m
  BY <1>1
<1>5. \A n \in 1..4 : level(hierarchy[n]) = n
  BY <1>2, <1>4 DEF level
<1>6. MiddlewareAuth = {hierarchy[1], hierarchy[2], hierarchy[3], hierarchy[4]}
  BY <1>2, <1>3, Zenon DEF MiddlewareAuth
<1> QED  BY <1>1, <1>5, <1>6 DEF MiddlewareAuth

LEMMA MaxLevelIs ==
  ASSUME NEW L \in SUBSET (1..4), L # {}
  PROVE  Max(L) \in L /\ \A n \in L : n <= Max(L)
<1>1. \E m \in L : \A n \in L : m >= n
  <2>1. CASE 4 \in L
    BY <2>1
  <2>2. CASE 4 \notin L /\ 3 \in L
    BY <2>2
  <2>3. CASE 4 \notin L /\ 3 \notin L /\ 2 \in L
    BY <2>3
  <2>4. CASE 4 \notin L /\ 3 \notin L /\ 2 \notin L
    <3>1. \A n \in L : n = 1
      <4>1. \A n \in 1..4 : n \in {1, 2, 3, 4}
        OBVIOUS
      <4> QED  BY <2>4, <4>1
    <3>2. PICK m \in L : m = 1
      BY <3>1
    <3>3. \A n \in L : m >= n
      BY <3>1, <3>2
    <3> QED  BY <3>3
  <2> QED  BY <2>1, <2>2, <2>3, <2>4
<1>2. Max(L) \in L /\ \A n \in L : Max(L) >= n
  BY <1>1 DEF Max
<1> QED  BY <1>2

\* detectAuthType finds, of what it recognises, what is the most restrictive.
LEMMA DocumentedIs ==
  ASSUME NEW handler \in Handlers, NEW given \in SUBSET Middleware
  PROVE  /\ documented(handler, given) \in Auth \ {None}
         /\ SaysWhatIsAsked(documented(handler, given), handler, given)
<1> DEFINE L == {n \in 1..4 : \E m \in given : AuthOf[m] = hierarchy[n]}
           recognised == {AuthOf[m] : m \in given} \ {None}
<1>1. InHandler[handler] \in HandlerAuth \cup {None}
  BY VersionsAssumption
<1>2. \A m \in given : AuthOf[m] \in MiddlewareAuth \cup {None}
  BY VersionsAssumption
<1>3. None \notin {"open"} \cup MiddlewareAuth \cup HandlerAuth
  BY VersionsAssumption
<1>4. \A n \in L : hierarchy[n] \in recognised
  BY <1>3, HierarchyIs
<1>5. \A a \in recognised : \E n \in L : a = hierarchy[n]
  BY <1>2 DEF MiddlewareAuth
<1>6. CASE InHandler[handler] # None
  <2>1. documented(handler, given) = InHandler[handler]
    BY <1>6 DEF documented
  <2> QED  BY <1>1, <1>6, <2>1 DEF Auth, SaysWhatIsAsked
<1>7. CASE InHandler[handler] = None /\ L = {}
  <2>1. documented(handler, given) = "open" /\ recognised = {}
    BY <1>5, <1>7 DEF documented, detectAuthType
  <2> QED  BY <1>3, <1>7, <2>1 DEF Auth, SaysWhatIsAsked
<1>8. CASE InHandler[handler] = None /\ L # {}
  <2> DEFINE max == Max(L)
  <2>1. documented(handler, given) = hierarchy[max]
    BY <1>8 DEF documented, detectAuthType
  <2>2. max \in L /\ \A n \in L : n <= max
    BY <1>8, MaxLevelIs
  <2>3. L \in SUBSET (1..4)
    OBVIOUS
  <2> HIDE DEF L, max
  <2>4. hierarchy[max] \in recognised /\ max \in 1..4
    BY <1>4, <2>2, <2>3
  <2>5. \A a \in recognised : level(a) <= level(hierarchy[max])
    BY <1>5, <2>2, <2>3, HierarchyIs
  <2>6. hierarchy[max] \in MiddlewareAuth
    BY <2>4, HierarchyIs
  <2> QED  BY <1>3, <1>8, <2>1, <2>4, <2>5, <2>6 DEF Auth, SaysWhatIsAsked
<1> QED  BY <1>6, <1>7, <1>8

LEMMA VersionsInitially == Init => VInv
<1> SUFFICES ASSUME Init PROVE VInv
  OBVIOUS
<1>1. /\ versions \in SUBSET Versions /\ Len(registry) = Cardinality(versions)
      /\ Len(registry) \in Nat /\ registry \in Seq(Registry)
      /\ DOMAIN registry = 1..Len(registry)
      /\ \A i \in DOMAIN registry : registry[i].endpoints = Empty /\ registry[i].cached = None
  <2>1. versions \in SUBSET Versions
    BY DEF Init
  <2>2. Cardinality(versions) \in Nat
    BY <2>1, RegistriesFitIn
  <2> DEFINE n == Cardinality(versions)
  <2>3. registry \in [1..n -> {NewAPIRegistry(enabled) : enabled \in BOOLEAN}] /\ n \in Nat
    BY <2>2 DEF Init
  <2> HIDE DEF n
  <2>4. registry \in [1..n -> Registry]
    BY <2>3, NewRegistry
  <2>5. registry \in Seq(Registry) /\ Len(registry) = n /\ DOMAIN registry = 1..n
    BY <2>3, <2>4
  <2>6. \A i \in DOMAIN registry : registry[i].endpoints = Empty /\ registry[i].cached = None
    BY <2>3, NewRegistry
  <2> QED  BY <2>1, <2>3, <2>5, <2>6 DEF n
<1>2. /\ \A v \in versions : registries[v] \in DOMAIN registry
      /\ \A v \in Versions \ versions : registries[v] = None
      /\ \A v, w \in versions : registries[v] = registries[w] => v = w
      /\ registries \in [Versions -> Nat \cup {None}]
  <2> DEFINE of(v) == Cardinality({w \in versions : w <= v})
  <2>1. /\ \A v \in versions : of(v) \in 1..Cardinality(versions)
        /\ \A v, u \in versions : of(v) = of(u) => v = u
    BY <1>1, RegistriesFitIn
  <2>2. registries = [v \in Versions |-> IF v \in versions THEN of(v) ELSE None]
    BY DEF Init
  <2> HIDE DEF of
  <2> QED  BY <1>1, <2>1, <2>2
<1>3. Typed
  <2>1. NotServing \in Serving /\ Waiting \in Reading
    BY DEF NotServing, Waiting, Serving, Reading
  <2>2. versions \subseteq Versions /\ routeRegistrars \subseteq versions
    BY DEF Init
  <2>3. /\ defaultVersion \in Versions \cup {None} /\ overlapped \subseteq DOMAIN registry
        /\ served \in [Versions -> Routes] /\ serving \in Serving
        /\ reader \in [Readers -> Reading]
    BY <2>1, NewRegistry DEF Init
  <2> QED  BY <1>1, <1>2, <2>2, <2>3 DEF Typed
<1>4. /\ serving.pc = "idle" /\ serving.todo = {} /\ \A v \in Versions : serving.used[v] = None
      /\ serving.touched = {} /\ served = [v \in Versions |-> Empty]
      /\ \A r \in Readers : reader[r].pc = "idle" /\ reader[r].dump = FALSE
      /\ \A i \in DOMAIN registry : registry[i].endpoints = Empty /\ registry[i].cached = None
  BY <1>1 DEF Init, NotServing, Waiting
<1>5. Owners
  BY <1>2, <1>4 DEF Owners
<1>6. Course /\ Registered /\ Progress
  BY <1>4 DEF Course, Registered, Progress, FailureNeedsChange, Routing
<1>7. Documents
  BY <1>4 DEF Documents, CoversSince, Cached
<1> QED  BY <1>3, <1>5, <1>6, <1>7 DEF VInv

\* What the changes of the manager have in common.
LEMMA ChangeKeeps ==
  ASSUME VInv, NEW T \in SUBSET Versions, serving' = [serving EXCEPT !.touched = T],
         serving.touched \subseteq T, versions' \ T \subseteq versions,
         versions \ T \subseteq versions', routeRegistrars \ T \subseteq routeRegistrars',
         UNCHANGED <<served, reader, overlapped>>, \A r \in Readers : ~reader[r].dump,
         DOMAIN registry \subseteq DOMAIN registry',
         \A i \in DOMAIN registry : registry'[i] = registry[i],
         \A i \in DOMAIN registry' \ DOMAIN registry :
           registry'[i].endpoints = Empty /\ registry'[i].cached = None
  PROVE  serving' \in Serving /\ Course' /\ Registered' /\ Progress' /\ Documents'
<1>1. /\ serving'.pc = serving.pc /\ serving'.docsOnly = serving.docsOnly
      /\ serving'.todo = serving.todo /\ serving'.version = serving.version
      /\ serving'.at = serving.at /\ serving'.used = serving.used /\ serving'.touched = T
      /\ serving' \in Serving
  BY DEF VInv, Typed, Serving
<1>2. Course'
  BY <1>1 DEF VInv, Course
<1>3. Registered'
  BY <1>1 DEF VInv, Registered, FailureNeedsChange
<1>4. \A v \in Versions : serving.used[v] # None => serving.used[v] \in DOMAIN registry
  BY DEF VInv, Owners
<1>5. \A v \in Versions, k \in Calls : serving.used[v] # None => Stage(v, k)'
  <2> SUFFICES ASSUME NEW v \in Versions, NEW k \in Calls, serving.used[v] # None
               PROVE  Stage(v, k)'
    OBVIOUS
  <2>1. doc(v, k)' = doc(v, k) /\ \A given : said(v, k, given)' = said(v, k, given)
    BY <1>1, <1>4 DEF doc, said
  <2>2. Stage(v, k)
    BY DEF VInv, Progress
  <2> QED  BY <1>1, <2>1, <2>2 DEF Stage, Done, Now, Answered
<1>6. Progress'
  BY <1>1, <1>5 DEF VInv, Progress
<1>7. \A r \in Readers : CoversSince(r)'
  BY DEF VInv, Documents, CoversSince
<1>8. \A i \in DOMAIN registry' \ overlapped' : Cached(i)'
  BY DEF VInv, Documents, Cached
<1> QED  BY <1>1, <1>2, <1>3, <1>6, <1>7, <1>8 DEF Documents

LEMMA RegisterVersionStep ==
  ASSUME VInv, NEW v \in Versions, NEW enabled \in BOOLEAN, RegisterVersion(v, enabled)
  PROVE  VInv'
<1> DEFINE T == serving.touched \cup {v}
<1> PICK new \in Registry : /\ new = NewAPIRegistry(enabled)
                            /\ new.endpoints = Empty /\ new.cached = None
  BY NewRegistry
<1>1. /\ registry \in Seq(Registry) /\ registry' = Append(registry, new)
      /\ versions \subseteq Versions /\ v \notin versions /\ versions' = versions \cup {v}
      /\ registries' = [registries EXCEPT ![v] = Len(registry')]
      /\ serving' = [serving EXCEPT !.touched = T] /\ T \in SUBSET Versions
      /\ UNCHANGED <<served, reader, overlapped, routeRegistrars>>
      /\ \A r \in Readers : ~reader[r].dump
  BY DEF VInv, Typed, Serving, RegisterVersion, Change
<1>2. /\ Len(registry) \in Nat /\ Len(registry') = Len(registry) + 1
      /\ DOMAIN registry = 1..Len(registry) /\ DOMAIN registry' = 1..(Len(registry) + 1)
      /\ registry' \in Seq(Registry)
      /\ \A i \in DOMAIN registry : registry'[i] = registry[i]
      /\ registry'[Len(registry) + 1] = new
  BY <1>1
<1>3. /\ DOMAIN registry \subseteq DOMAIN registry' /\ Len(registry') \notin DOMAIN registry
      /\ DOMAIN registry' \ DOMAIN registry = {Len(registry')}
  BY <1>2
<1>4. \A i \in DOMAIN registry' \ DOMAIN registry :
        registry'[i].endpoints = Empty /\ registry'[i].cached = None
  BY <1>2, <1>3
<1>5. /\ serving.touched \subseteq T /\ versions' \ T \subseteq versions
      /\ versions \ T \subseteq versions' /\ routeRegistrars \ T \subseteq routeRegistrars'
  BY <1>1
<1> HIDE DEF T
<1>6. serving' \in Serving /\ Course' /\ Registered' /\ Progress' /\ Documents'
  BY <1>1, <1>2, <1>3, <1>4, <1>5, ChangeKeeps
<1>7. registries \in [Versions -> Nat \cup {None}]
  BY DEF VInv, Typed
<1>8. Typed'
  <2>1. registries' \in [Versions -> Nat \cup {None}]
    BY <1>1, <1>2, <1>7
  <2>2. defaultVersion' \in Versions \cup {None}
    BY DEF VInv, Typed, RegisterVersion
  <2> QED  BY <1>1, <1>2, <1>3, <1>6, <2>1, <2>2 DEF VInv, Typed
<1>9. Owners'
  <2>1. serving'.used = serving.used
    BY <1>1 DEF VInv, Typed, Serving
  <2>2. registries'[v] = Len(registry') /\ \A w \in Versions \ {v} : registries'[w] = registries[w]
    BY <1>1, <1>7
  <2>3. None \notin DOMAIN registry'
    BY <1>2, VersionNamesAssumption
  <2>4. \A w \in Versions : w \in versions <=> registries[w] \in DOMAIN registry
    BY <1>3, <2>3 DEF VInv, Owners
  <2>5. \A w \in Versions' : IF w \in versions' THEN registries'[w] \in DOMAIN registry'
                                               ELSE registries'[w] = None
    BY <1>1, <1>2, <1>3, <2>2 DEF VInv, Owners
  <2>6. \A x, w \in versions' : registries'[x] = registries'[w] => x = w
    BY <1>1, <1>3, <2>2, <2>4 DEF VInv, Owners
  <2>7. \A w \in Versions : serving'.used[w] \in DOMAIN registry' \cup {None}
    BY <1>3, <2>1 DEF VInv, Owners
  <2>8. \A x, w \in Versions :
          serving'.used[x] # None /\ serving'.used[x] \in {serving'.used[w], registries'[w]} => x = w
    BY <1>3, <2>1, <2>2 DEF VInv, Owners
  <2> QED  BY <2>5, <2>6, <2>7, <2>8 DEF Owners
<1> QED  BY <1>6, <1>8, <1>9 DEF VInv

LEMMA ManagerStep ==
  ASSUME VInv, NEW v \in Versions,
         RemoveVersion(v) \/ SetDefaultVersion(v) \/ SetVersionRouteRegistrar(v)
  PROVE  VInv'
<1>1. registries \in [Versions -> Nat \cup {None}] /\ serving \in Serving
  BY DEF VInv, Typed
<1>2. /\ UNCHANGED <<served, reader, overlapped, registry>>
      /\ \A r \in Readers : ~reader[r].dump
  BY DEF RemoveVersion, SetDefaultVersion, SetVersionRouteRegistrar, Change
<1>3. PICK T \in SUBSET Versions :
        /\ serving' = [serving EXCEPT !.touched = T] /\ serving.touched \subseteq T
        /\ versions' \ T \subseteq versions /\ versions \ T \subseteq versions'
        /\ routeRegistrars \ T \subseteq routeRegistrars'
  <2>1. CASE RemoveVersion(v)
    <3> DEFINE T == serving.touched \cup {v}
    <3>1. T \in SUBSET Versions
      BY <1>1 DEF Serving
    <3>2. /\ serving' = [serving EXCEPT !.touched = T] /\ serving.touched \subseteq T
          /\ versions' \ T \subseteq versions /\ versions \ T \subseteq versions'
          /\ routeRegistrars \ T \subseteq routeRegistrars'
      BY <2>1 DEF RemoveVersion
    <3> QED  BY <3>1, <3>2
  <2>2. CASE SetDefaultVersion(v) \/ SetVersionRouteRegistrar(v)
    <3> DEFINE T == serving.touched
    <3>1. T \in SUBSET Versions /\ serving = [serving EXCEPT !.touched = T]
      BY <1>1 DEF Serving
    <3>2. /\ serving' = serving /\ versions' = versions
          /\ routeRegistrars \subseteq routeRegistrars'
      BY <2>2 DEF SetDefaultVersion, SetVersionRouteRegistrar
    <3> QED  BY <3>1, <3>2
  <2> QED  BY <2>1, <2>2
<1>4. \A i \in DOMAIN registry' \ DOMAIN registry :
        registry'[i].endpoints = Empty /\ registry'[i].cached = None
  BY <1>2
<1>5. serving' \in Serving /\ Course' /\ Registered' /\ Progress' /\ Documents'
  BY <1>2, <1>3, <1>4, ChangeKeeps
<1>6. /\ versions' \subseteq versions /\ routeRegistrars' \subseteq versions'
      /\ defaultVersion' \in Versions \cup {None}
      /\ registries' = [w \in Versions |-> IF w \in versions' THEN registries[w] ELSE None]
  <2>1. CASE RemoveVersion(v)
    BY <1>1, <2>1 DEF VInv, Typed, Owners, RemoveVersion
  <2>2. CASE SetDefaultVersion(v) \/ SetVersionRouteRegistrar(v)
    BY <1>1, <2>2 DEF VInv, Typed, Owners, SetDefaultVersion, SetVersionRouteRegistrar
  <2> QED  BY <2>1, <2>2
<1>7. Typed'
  BY <1>1, <1>2, <1>5, <1>6 DEF VInv, Typed
<1>8. Owners'
  <2>1. serving'.used = serving.used
    BY <1>1, <1>3 DEF Serving
  <2>2. versions \subseteq Versions
    BY DEF VInv, Typed
  <2> QED  BY <1>2, <1>6, <2>1, <2>2 DEF VInv, Owners
<1> QED  BY <1>5, <1>7, <1>8 DEF VInv

\* A lookup in the manager moves nothing but RegisterAllVersionRoutes itself.
LEMMA LookupKeeps ==
  ASSUME VInv, NEW pc, Lookup(pc), serving' \in Serving
  PROVE  /\ Typed' /\ Documents' /\ serving.pc = pc
         /\ UNCHANGED <<versions, registries, routeRegistrars, registry, served>>
<1>1. /\ UNCHANGED <<versions, defaultVersion, registries, routeRegistrars, registry, served,
                    reader, overlapped>>
      /\ serving.pc = pc
  BY DEF Lookup, manager
<1>2. Typed'
  BY <1>1 DEF VInv, Typed
<1>3. Documents'
  BY <1>1 DEF VInv, Documents, CoversSince, Cached
<1> QED  BY <1>1, <1>2, <1>3

\* Between two versions all the calls that were made are done, and stay so.
LEMMA DoneStays ==
  ASSUME VInv, UNCHANGED <<registry, served>>, serving'.used = serving.used,
         serving'.docsOnly = serving.docsOnly,
         serving.pc \notin Routing, serving'.pc \notin Routing \cup {"idle"}
  PROVE  Progress'
<1>1. \A v \in Versions, k \in Calls : serving.used[v] # None => Stage(v, k)'
  BY DEF VInv, Progress, Stage, Done, doc, said, Answered, Now
<1> QED  BY <1>1 DEF VInv, Progress

LEMMA ValidateStep ==
  ASSUME VInv, NEW docsOnly \in BOOLEAN, ValidateRouteRegistrars(docsOnly)
  PROVE  VInv'
<1>1. serving \in Serving /\ Lookup("idle")
  BY DEF VInv, Typed, ValidateRouteRegistrars
<1>2. PICK to \in {"validated", "refused"} :
        /\ serving' = [serving EXCEPT !.docsOnly = docsOnly, !.touched = {}, !.pc = to]
        /\ to = "validated" => versions \subseteq routeRegistrars
  BY DEF ValidateRouteRegistrars
<1>3. /\ serving' \in Serving /\ serving'.used = serving.used /\ serving'.todo = serving.todo
      /\ serving'.pc = to /\ serving'.docsOnly = docsOnly
  BY <1>1, <1>2 DEF Serving
<1>4. /\ Typed' /\ Documents' /\ serving.pc = "idle"
      /\ UNCHANGED <<versions, registries, routeRegistrars, registry, served>>
  BY <1>1, <1>3, LookupKeeps
<1>5. serving.todo = {} /\ \A v \in Versions : serving.used[v] = None
  BY <1>4 DEF VInv, Course
<1>6. Owners'
  BY <1>3, <1>4 DEF VInv, Owners
<1>7. Course'
  BY <1>3, <1>5 DEF Course, Routing
<1>8. Registered'
  BY <1>2, <1>3, <1>4, <1>5 DEF Registered, FailureNeedsChange
<1>9. Progress'
  BY <1>3, <1>4, <1>5 DEF VInv, Progress
<1> QED  BY <1>4, <1>6, <1>7, <1>8, <1>9 DEF VInv

LEMMA GetAllVersionsStep ==
  ASSUME VInv, GetAllVersions
  PROVE  VInv'
<1>1. serving \in Serving /\ Lookup("validated") /\ versions \in SUBSET Versions
  BY DEF VInv, Typed, GetAllVersions
<1>2. /\ serving' \in Serving /\ serving'.used = serving.used /\ serving'.todo = versions
      /\ serving'.pc = "next" /\ serving'.docsOnly = serving.docsOnly
      /\ serving'.touched = serving.touched
  BY <1>1 DEF Serving, GetAllVersions
<1>3. /\ Typed' /\ Documents' /\ serving.pc = "validated"
      /\ UNCHANGED <<versions, registries, routeRegistrars, registry, served>>
  BY <1>1, <1>2, LookupKeeps
<1>4. Owners'
  BY <1>2, <1>3 DEF VInv, Owners
<1>5. Course' /\ Registered'
  BY <1>1, <1>2, <1>3 DEF VInv, Course, Registered, Routing, FailureNeedsChange
<1>6. Progress'
  BY <1>2, <1>3, DoneStays DEF Routing
<1> QED  BY <1>3, <1>4, <1>5, <1>6 DEF VInv

LEMMA RegisterVersionRoutesStep ==
  ASSUME VInv, RegisterVersionRoutes
  PROVE  VInv'
<1>1. /\ serving \in Serving /\ Lookup("next") /\ serving.todo \in SUBSET Versions
      /\ serving.todo # {}
  BY DEF VInv, Typed, Serving, RegisterVersionRoutes
<1>2. PICK v \in serving.todo :
        serving' = [serving EXCEPT !.version = v, !.todo = serving.todo \ {v},
                      !.pc = IF v \in routeRegistrars THEN "router" ELSE "failed"]
  <2>1. Min(serving.todo) \in serving.todo
    BY <1>1, VersionNamesAssumption, MinIs
  <2> QED  BY <1>1, <2>1 DEF RegisterVersionRoutes
<1>3. v \in Versions /\ serving.todo \ {v} \in SUBSET Versions
  BY <1>1
<1>4. /\ serving' \in Serving /\ serving'.used = serving.used /\ serving'.version = v
      /\ serving'.pc = IF v \in routeRegistrars THEN "router" ELSE "failed"
      /\ serving'.todo = serving.todo \ {v} /\ serving'.docsOnly = serving.docsOnly
      /\ serving'.touched = serving.touched
  BY <1>1, <1>2, <1>3 DEF Serving
<1>5. /\ Typed' /\ Documents' /\ serving.pc = "next"
      /\ UNCHANGED <<versions, registries, routeRegistrars, registry, served>>
  BY <1>1, <1>4, LookupKeeps
<1>6. Owners'
  BY <1>4, <1>5 DEF VInv, Owners
<1>7. Course'
  BY <1>2, <1>3, <1>4 DEF VInv, Course, Routing
<1>8. Registered'
  <2>1. routeRegistrars \subseteq versions
    BY DEF VInv, Typed
  <2> QED  BY <1>2, <1>4, <1>5, <2>1 DEF VInv, Registered, FailureNeedsChange
<1>9. Progress'
  BY <1>4, <1>5, DoneStays DEF Routing
<1> QED  BY <1>5, <1>6, <1>7, <1>8, <1>9 DEF VInv

LEMMA AllRegisteredStep ==
  ASSUME VInv, AllRegistered
  PROVE  VInv'
<1>1. serving \in Serving /\ Lookup("next")
  BY DEF VInv, Typed, AllRegistered
<1>2. /\ serving' \in Serving /\ serving'.used = serving.used /\ serving'.todo = serving.todo
      /\ serving'.pc = "done" /\ serving'.docsOnly = serving.docsOnly
      /\ serving'.touched = serving.touched
  BY <1>1 DEF Serving, AllRegistered
<1>3. /\ Typed' /\ Documents' /\ serving.pc = "next"
      /\ UNCHANGED <<versions, registries, routeRegistrars, registry, served>>
  BY <1>1, <1>2, LookupKeeps
<1>4. Owners' /\ Course' /\ Registered'
  BY <1>2, <1>3 DEF VInv, Owners, Course, Registered, Routing, FailureNeedsChange
<1>5. Progress'
  BY <1>2, <1>3, DoneStays DEF Routing
<1> QED  BY <1>3, <1>4, <1>5 DEF VInv

LEMMA GetVersionRouterStep ==
  ASSUME VInv, GetVersionRouter
  PROVE  VInv'
<1>1. serving \in Serving /\ Lookup("router") /\ serving.pc = "router"
  BY DEF VInv, Typed, GetVersionRouter, Lookup
<1>2. PICK v \in Versions : /\ v = serving.version /\ serving.used[v] = None
                            /\ v \notin serving.todo /\ v \in serving.touched \cup versions
  BY <1>1 DEF VInv, Course, Registered
<1> PICK i : i = registries[v]
  OBVIOUS
<1> USE <1>2
<1>3. CASE i = None
  <2>1. /\ serving' \in Serving /\ serving'.used = serving.used /\ serving'.version = v
        /\ serving'.pc = "failed" /\ serving'.todo = serving.todo
        /\ serving'.docsOnly = serving.docsOnly /\ serving'.touched = serving.touched
    BY <1>1, <1>3 DEF Serving, GetVersionRouter
  <2>2. /\ Typed' /\ Documents'
        /\ UNCHANGED <<versions, registries, routeRegistrars, registry, served>>
    BY <1>1, <2>1, LookupKeeps
  <2>3. v \notin versions
    <3>1. None \notin DOMAIN registry
      BY VersionNamesAssumption DEF VInv, Typed
    <3> QED  BY <1>2, <1>3, <3>1 DEF VInv, Owners
  <2>4. Owners' /\ Course'
    BY <1>2, <2>1, <2>2 DEF VInv, Owners, Course, Routing
  <2>5. Registered'
    BY <1>2, <2>1, <2>2, <2>3 DEF VInv, Registered, FailureNeedsChange
  <2>6. Progress'
    BY <1>1, <2>1, <2>2, DoneStays DEF Routing
  <2> QED  BY <2>2, <2>4, <2>5, <2>6 DEF VInv
<1>4. CASE i # None
  <2>1. i \in DOMAIN registry /\ v \in versions /\ i \in Nat
    BY <1>2, <1>4 DEF VInv, Owners, Typed
  <2> DEFINE s == [serving EXCEPT !.used[v] = i]
  <2>2. PICK j \in Nat :
          /\ serving' = [s EXCEPT !.at = j, !.pc = IF j = 0 THEN "next" ELSE "route"]
          /\ j = 0 => \A k \in Calls : k <= 0
          /\ j # 0 => j \in Calls /\ \A k \in Calls : k > 0 => j <= k
    <3>1. serving' = NextCall(s, 0)
      BY <1>4 DEF GetVersionRouter
    <3> HIDE DEF s
    <3>2. \A t : \E j \in Nat :
            /\ NextCall(t, 0) = [t EXCEPT !.at = j, !.pc = IF j = 0 THEN "next" ELSE "route"]
            /\ j = 0 => \A k \in Calls : k <= 0
            /\ j # 0 => j \in Calls /\ j > 0 /\ \A k \in Calls : k > 0 => j <= k
      <4> TAKE t
      <4>1. 0 \in Nat
        OBVIOUS
      <4> QED  BY ONLY <4>1, NextCallIs
    <3> QED  BY <3>1, <3>2, Zenon

  <2>3. /\ s \in Serving /\ s.used = [serving.used EXCEPT ![v] = i] /\ s.version = v
        /\ s.todo = serving.todo /\ s.docsOnly = serving.docsOnly /\ s.touched = serving.touched
    BY <1>1, <1>2, <2>1 DEF Serving
  <2> HIDE DEF s
  <2>4. /\ serving' \in Serving /\ serving'.used = [serving.used EXCEPT ![v] = i]
        /\ serving'.version = v /\ serving'.at = j /\ serving'.todo = serving.todo
        /\ serving'.pc = (IF j = 0 THEN "next" ELSE "route")
        /\ serving'.docsOnly = serving.docsOnly /\ serving'.touched = serving.touched
    BY <2>2, <2>3 DEF Serving, Routing
  <2>5. /\ Typed' /\ Documents'
        /\ UNCHANGED <<versions, registries, routeRegistrars, registry, served>>
    BY <1>1, <2>4, LookupKeeps
  <2>6. serving'.used[v] = i /\ \A w \in Versions \ {v} : serving'.used[w] = serving.used[w]
    BY <1>1, <1>2, <2>4 DEF Serving
  <2>7. \A w \in Versions : serving.used[w] # i
    BY <1>2, <1>4 DEF VInv, Owners
  <2>8. Owners'
    <3>1. \A w \in Versions : serving'.used[w] \in DOMAIN registry' \cup {None}
      BY <2>1, <2>5, <2>6 DEF VInv, Owners
    <3>2. \A w \in Versions : registries[w] = i => w = v
      <4>1. None \notin DOMAIN registry
        BY VersionNamesAssumption DEF VInv, Typed
      <4> QED  BY <1>2, <2>1, <4>1 DEF VInv, Owners
    <3>3. ASSUME NEW x \in Versions, NEW w \in Versions, serving'.used[x] # None,
                 serving'.used[x] \in {serving'.used[w], registries'[w]}
          PROVE  x = w
      <4>1. CASE x = v
        BY <2>5, <2>6, <2>7, <3>2, <3>3, <4>1
      <4>2. CASE x # v
        <5>1. serving'.used[x] = serving.used[x] /\ serving.used[x] # i
          BY <2>6, <2>7, <4>2
        <5> QED  BY <2>5, <2>6, <3>3, <5>1 DEF VInv, Owners
      <4> QED  BY <4>1, <4>2
    <3> QED  BY <2>5, <3>1, <3>3 DEF VInv, Owners
  <2>9. Course'
    <3>1. \A w \in serving.todo : serving'.used[w] = None
      BY <1>1, <1>2, <2>6 DEF VInv, Course, Serving
    <3>2. CASE j = 0
      BY <2>4, <3>1, <3>2 DEF Course, Routing
    <3>3. CASE j # 0
      BY <1>2, <1>4, <2>2, <2>4, <2>6, <3>1, <3>3 DEF Course, Routing
    <3> QED  BY <3>2, <3>3
  <2>10. Registered'
    BY <2>4, <2>5 DEF VInv, Registered, FailureNeedsChange
  <2>11. Progress'
    <3>1. \A k \in Calls : k > 0 /\ k \in Nat
      BY DEF Calls
    <3>2. registry[i].endpoints = Empty
      BY <2>1, <2>7 DEF VInv, Progress
    <3>3. \A k \in Calls : doc(v, k)' = None
      BY <2>5, <2>6, <3>2, CallsHaveKeys DEF doc, Empty, keyOf
    <3>4. \A k \in Calls : Stage(v, k)'
      <4>1. CASE j = 0
        BY <2>2, <3>1, <4>1
      <4>2. CASE j # 0
        BY <2>2, <2>4, <3>1, <3>3, <4>2 DEF Stage, Now, Routing
      <4> QED  BY <4>1, <4>2
    <3>5. \A w \in Versions, k \in Calls : w # v /\ serving.used[w] # None => Stage(w, k)'
      <4> SUFFICES ASSUME NEW w \in Versions, NEW k \in Calls, w # v, serving.used[w] # None
                   PROVE  Stage(w, k)'
        OBVIOUS
      <4>1. Stage(w, k) /\ ~Now(w)
        BY <1>1 DEF VInv, Progress, Now, Routing
      <4>2. Done(w, k)
        BY <4>1 DEF Stage
      <4>3. Done(w, k)'
        BY <2>4, <2>5, <2>6, <4>2 DEF Done, doc, said, Answered
      <4>4. Now(w)' = FALSE
        BY <2>4 DEF Now
      <4> QED  BY <4>3, <4>4 DEF Stage
    <3>6. \A n \in DOMAIN registry' :
            (\A w \in Versions : serving'.used[w] # n) => registry'[n].endpoints = Empty
      BY <1>2, <2>5, <2>6, VersionNamesAssumption DEF VInv, Progress, Typed
    <3>7. (serving'.docsOnly \/ serving'.pc = "idle") => served' = [w \in Versions |-> Empty]
      BY <2>4, <2>5 DEF VInv, Progress
    <3> QED  BY <2>6, <3>4, <3>5, <3>6, <3>7 DEF Progress
  <2> QED  BY <2>5, <2>8, <2>9, <2>10, <2>11 DEF VInv
<1> QED  BY <1>3, <1>4

\* Where the calls of a version are.
LEMMA CallIs ==
  ASSUME VInv, serving.pc \in Routing
  PROVE  \E v \in Versions, c \in Calls :
           /\ v = serving.version /\ c = serving.at /\ endpointKey(Call) = keyOf(c)
           /\ serving.used[v] \in DOMAIN registry /\ serving.used[v] # None
           /\ keyOf(c) \in Keys /\ \A k \in Calls : keyOf(k) \in Keys /\ (k # c => keyOf(k) # keyOf(c))
           /\ Stage(v, c)
<1>1. /\ serving.version \in Versions /\ serving.at \in Calls
      /\ serving.used[serving.version] # None
  BY DEF VInv, Course
<1>2. PICK v \in Versions, c \in Calls : v = serving.version /\ c = serving.at
  BY <1>1
<1>3. serving.used[v] \in DOMAIN registry /\ serving.used[v] # None /\ Stage(v, c)
  BY <1>1, <1>2 DEF VInv, Owners, Progress
<1>4. keyOf(c) \in Keys /\ \A k \in Calls : keyOf(k) \in Keys /\ (k # c => keyOf(k) # keyOf(c))
  BY CallsHaveKeys DEF keyOf
<1> QED  BY <1>2, <1>3, <1>4 DEF Call, keyOf

LEMMA ServingNext ==
  ASSUME VInv, serving.pc \in Routing, serving' = NextCall(serving, serving.at)
  PROVE  \E j \in Nat :
           /\ serving' = [serving EXCEPT !.at = j, !.pc = IF j = 0 THEN "next" ELSE "route"]
           /\ j = 0 => \A k \in Calls : k <= serving.at
           /\ j # 0 => /\ j \in Calls /\ j > serving.at
                       /\ \A k \in Calls : k > serving.at => j <= k
<1>1. serving.at \in Nat
  BY DEF VInv, Typed, Serving
<1>2. PICK a \in Nat : a = serving.at
  BY <1>1
<1>3. \A t : \E j \in Nat :
        /\ NextCall(t, a) = [t EXCEPT !.at = j, !.pc = IF j = 0 THEN "next" ELSE "route"]
        /\ j = 0 => \A k \in Calls : k <= a
        /\ j # 0 => j \in Calls /\ j > a /\ \A k \in Calls : k > a => j <= k
  BY ONLY NextCallIs
<1> QED  BY <1>2, <1>3, Zenon

\* What the calls of a version need of a step of one of them, and what they leave as it was.
CallKeeps(v, c) ==
  /\ serving' \in Serving /\ serving'.version = v /\ serving'.docsOnly = serving.docsOnly
  /\ serving'.used = serving.used /\ serving'.todo = serving.todo
  /\ serving'.touched = serving.touched /\ serving'.pc \in Routing \cup {"next"}
  /\ serving'.pc # "next" => serving'.at \in Calls
  /\ serving'.pc \in {"bind", "bindRoute"} => CRUD[serving'.at].bound
  /\ UNCHANGED <<versions, registries, routeRegistrars>> /\ DOMAIN registry' = DOMAIN registry
  /\ \A i \in DOMAIN registry : /\ registry'[i].enabled = registry[i].enabled
                                /\ i # serving.used[v] =>
                                     registry'[i].endpoints = registry[i].endpoints
  /\ \A k \in Calls : k # c => doc(v, k)' = doc(v, k)
  /\ \A w \in Versions : w # v => served'[w] = served[w]
  /\ \A k \in Calls : k # c => served'[v][keyOf(k)] = served[v][keyOf(k)]
  /\ serving.docsOnly => served' = served

LEMMA CallKeepsCourse ==
  ASSUME VInv, serving.pc \in Routing, NEW v \in Versions, v = serving.version, NEW c \in Calls,
         CallKeeps(v, c)
  PROVE  Owners' /\ Course' /\ Registered'
<1>1. Owners'
  BY DEF VInv, Owners, CallKeeps
<1>2. serving.used[v] # None
  BY DEF VInv, Course
<1>3. Course'
  BY <1>2 DEF VInv, Course, CallKeeps, Routing
<1>4. Registered'
  BY DEF VInv, Registered, CallKeeps, Routing, FailureNeedsChange
<1> QED  BY <1>1, <1>3, <1>4

LEMMA CallKeepsProgress ==
  ASSUME VInv, serving.pc \in Routing, NEW v \in Versions, v = serving.version,
         NEW c \in Calls, c = serving.at, CallKeeps(v, c), Stage(v, c)',
         \/ serving'.pc \in Routing /\ serving'.at = c
         \/ serving'.pc = "next" /\ \A k \in Calls : k <= c
         \/ /\ serving'.pc = "route" /\ serving'.at > c
            /\ \A k \in Calls : k > c => serving'.at <= k
  PROVE  Progress'
<1>1. \A k \in Calls : k \in Nat
  BY DEF Calls
<1>10. serving'.at \in Nat
  BY DEF CallKeeps, Serving
<1>2. serving.used[v] # None /\ \A w \in Versions : serving.used[w] \in DOMAIN registry \cup {None}
  BY DEF VInv, Course, Owners
<1>3. ASSUME NEW w \in Versions, NEW k \in Calls, serving.used[w] # None, w # v
      PROVE  Stage(w, k)'
  <2>1. Done(w, k)
    BY <1>3 DEF VInv, Progress, Stage, Now
  <2>2. serving.used[w] # serving.used[v]
    BY <1>3 DEF VInv, Owners
  <2>3. doc(w, k)' = doc(w, k) /\ \A given : said(w, k, given)' = said(w, k, given)
    BY <1>2, <1>3, <2>2 DEF doc, said, CallKeeps
  <2>4. Done(w, k)'
    BY <1>3, <2>1, <2>3 DEF Done, Answered, CallKeeps
  <2>5. ~Now(w)'
    BY <1>3 DEF Now, CallKeeps
  <2> QED  BY <2>4, <2>5 DEF Stage
<1>4. ASSUME NEW k \in Calls, k < c
      PROVE  Stage(v, k)'
  <2>1. Done(v, k)
    BY <1>2, <1>4 DEF VInv, Progress, Stage
  <2>6. \A given : said(v, k, given)' = said(v, k, given)
    BY <1>2 DEF said, CallKeeps
  <2>2. Done(v, k)'
    BY <1>1, <1>4, <2>1, <2>6 DEF Done, Answered, CallKeeps
  <2>3. serving'.pc \in Routing => serving'.at >= c
    BY <1>10, <1>1 DEF Routing
  <2>4. Now(v)' => k < serving'.at
    BY <1>10, <1>1, <1>4, <2>3 DEF Now
  <2>5. k < serving'.at => ~(k > serving'.at) /\ k # serving'.at
    BY <1>10, <1>1
  <2> QED  BY <2>2, <2>4, <2>5 DEF Stage
<1>5. ASSUME NEW k \in Calls, k > c
      PROVE  Stage(v, k)'
  <2>1. doc(v, k) = None
    BY <1>1, <1>2, <1>5 DEF VInv, Progress, Stage, Now
  <2>2. doc(v, k)' = None
    BY <1>1, <1>5, <2>1 DEF CallKeeps
  <2>3. Now(v)' /\ ~(k < serving'.at)
    BY <1>1, <1>5 DEF Now, CallKeeps, Routing
  <2>4. serving'.pc = "route" \/ k # serving'.at
    BY <1>1, <1>5
  <2> QED  BY <2>2, <2>3, <2>4 DEF Stage
<1>6. \A w \in Versions, k \in Calls : serving.used[w] # None => Stage(w, k)'
  BY <1>1, <1>3, <1>4, <1>5
<1>7. \A i \in DOMAIN registry' :
        (\A w \in Versions : serving'.used[w] # i) => registry'[i].endpoints = Empty
  BY DEF VInv, Progress, CallKeeps
<1>8. (serving'.docsOnly \/ serving'.pc = "idle") => served' = [w \in Versions |-> Empty]
  BY DEF VInv, Progress, CallKeeps, Routing
<1>9. serving'.used = serving.used
  BY DEF CallKeeps
<1> QED  BY <1>6, <1>7, <1>8, <1>9 DEF Progress

LEMMA ServeIs ==
  ASSUME VInv, serving.pc \in Routing, NEW v \in Versions, v = serving.version,
         NEW c \in Calls, c = serving.at, NEW bound \in SUBSET Middleware, Serve(bound)
  PROVE  /\ served' \in [Versions -> Routes]
         /\ \A w \in Versions : w # v => served'[w] = served[w]
         /\ \A k \in Calls : k # c => served'[v][keyOf(k)] = served[v][keyOf(k)]
         /\ serving.docsOnly => served' = served
         /\ served'[v][keyOf(c)] = IF serving.docsOnly THEN None ELSE bound
<1>1. /\ served \in [Versions -> Routes]
      /\ served[v] \in [Keys -> {None} \cup SUBSET Middleware]
  BY DEF VInv, Typed, Routes
<1>2. endpointKey(Call) = keyOf(c) /\ keyOf(c) \in Keys
      /\ \A k \in Calls : keyOf(k) \in Keys /\ (k # c => keyOf(k) # keyOf(c))
  BY CallsHaveKeys DEF Call, keyOf
<1>3. CASE serving.docsOnly
  <2>1. served' = served /\ served = [w \in Versions |-> Empty]
    BY <1>3 DEF VInv, Progress, Serve
  <2>2. served'[v][keyOf(c)] = None
    BY <1>2, <2>1 DEF Empty
  <2> QED  BY <1>1, <1>3, <2>1, <2>2
<1>4. CASE ~serving.docsOnly
  <2> DEFINE f == [served[v] EXCEPT ![keyOf(c)] = bound]
  <2>1. served' = [served EXCEPT ![v] = f]
    BY <1>2, <1>4 DEF Serve
  <2>2. /\ f \in Routes /\ f[keyOf(c)] = bound
        /\ \A k \in Calls : k # c => f[keyOf(k)] = served[v][keyOf(k)]
    BY <1>1, <1>2 DEF Routes
  <2> HIDE DEF f
  <2> QED  BY <1>1, <1>4, <2>1, <2>2
<1> QED  BY <1>3, <1>4

RouteRegistered(c, i, auth) ==
  /\ i \in DOMAIN registry /\ registry' \in Seq(Registry)
  /\ DOMAIN registry' = DOMAIN registry
  /\ \A n \in DOMAIN registry : n # i => registry'[n] = registry[n]
  /\ registry'[i].endpoints = [registry[i].endpoints EXCEPT ![keyOf(c)] = auth]
  /\ registry'[i].cached = None /\ registry'[i].enabled = registry[i].enabled
  /\ overlapped' \subseteq DOMAIN registry
  /\ Assembling(i) # {} => i \in overlapped'
  /\ \A n \in DOMAIN registry : n # i => (n \in overlapped <=> n \in overlapped')
  /\ UNCHANGED <<versions, defaultVersion, registries, routeRegistrars, reader>>

LEMMA RegisterRouteIs ==
  ASSUME VInv, serving.pc \in Routing, NEW v \in Versions, v = serving.version,
         NEW c \in Calls, c = serving.at, NEW i, i = serving.used[v],
         NEW given \in SUBSET Middleware, RegisterRoute(given), registry[i].enabled,
         NEW auth, auth = documented(CRUD[c].handler, given)
  PROVE  RouteRegistered(c, i, auth)
<1>1. i \in DOMAIN registry /\ registry \in Seq(Registry) /\ overlapped \subseteq DOMAIN registry
  BY DEF VInv, Typed, Course, Owners
<1>2. endpointKey(Call) = keyOf(c) /\ keyOf(c) \in Keys /\ Call = CRUD[c] /\ auth \in Auth
  <2>1. CRUD[c].handler \in Handlers
    BY DEF Calls
  <2> QED  BY <2>1, CallsHaveKeys, DocumentedIs DEF Call, keyOf
<1>3. PICK e : e = [registry[i].endpoints EXCEPT ![keyOf(c)] = auth]
  OBVIOUS
<1> DEFINE new == [registry[i] EXCEPT !.endpoints = e, !.cached = None, !.dirty = TRUE]
<1>8. registry[i] \in Registry
  BY <1>1
<1>9. registry' = [registry EXCEPT ![i] = new]
  <2>1. /\ RegisterEndpoint(i, endpointKey(Call), documented(Call.handler, given))
    BY DEF RegisterRoute
  <2>2. registry' = [registry EXCEPT ![i] =
          [registry[i] EXCEPT !.endpoints[keyOf(c)] = auth, !.cached = None, !.dirty = TRUE]]
    BY <1>2, <2>1 DEF RegisterEndpoint
  <2>3. [registry[i] EXCEPT !.endpoints[keyOf(c)] = auth, !.cached = None, !.dirty = TRUE] = new
    BY <1>3, <1>8 DEF Registry
  <2> QED  BY <2>2, <2>3
<1>4. new \in Registry
  <2>1. registry[i].endpoints \in Endpoints
    BY <1>8 DEF Registry
  <2>2. e \in Endpoints
    BY <1>2, <1>3, <2>1 DEF Endpoints
  <2> QED  BY <1>8, <2>2 DEF Registry
<1>5. /\ new.endpoints = [registry[i].endpoints EXCEPT ![keyOf(c)] = auth] /\ new.cached = None
      /\ new.enabled = registry[i].enabled
  BY <1>3, <1>8 DEF Registry
<1> HIDE DEF new
<1>6. /\ registry' \in Seq(Registry) /\ DOMAIN registry' = DOMAIN registry
      /\ registry'[i] = new /\ \A n \in DOMAIN registry : n # i => registry'[n] = registry[n]
  BY <1>1, <1>4, <1>9
<1>7. /\ overlapped' \subseteq DOMAIN registry
      /\ Assembling(i) # {} => i \in overlapped'
      /\ \A n \in DOMAIN registry : n # i => (n \in overlapped <=> n \in overlapped')
      /\ UNCHANGED <<versions, defaultVersion, registries, routeRegistrars, reader>>
  BY <1>1 DEF RegisterRoute, manager
<1> QED  BY <1>1, <1>5, <1>6, <1>7 DEF RouteRegistered

\* What the registration of a call leaves: everything else, and what it says.
RouteSaid(v, c, given) ==
  /\ Typed' /\ Documents' /\ doc(v, c)' = said(v, c, given)
  /\ UNCHANGED <<versions, registries, routeRegistrars>> /\ DOMAIN registry' = DOMAIN registry
  /\ \A n \in DOMAIN registry : /\ registry'[n].enabled = registry[n].enabled
                                /\ n # serving.used[v] =>
                                     registry'[n].endpoints = registry[n].endpoints
  /\ \A k \in Calls : k # c => doc(v, k)' = doc(v, k)
  /\ \A k \in Calls : \A g : said(v, k, g)' = said(v, k, g)

\* A version that is not enabled: nothing is registered.
LEMMA NotEnabledKeeps ==
  ASSUME VInv, serving.pc \in Routing, NEW v \in Versions, v = serving.version,
         NEW c \in Calls, NEW given, RegisterRoute(given),
         ~registry[serving.used[v]].enabled, doc(v, c) = None,
         serving' \in Serving, served' \in [Versions -> Routes], serving'.used = serving.used
  PROVE  RouteSaid(v, c, given)
<1>1. UNCHANGED <<versions, defaultVersion, registries, routeRegistrars, registry, reader,
                  overlapped>>
  BY DEF RegisterRoute, manager
<1>2. Typed'
  BY <1>1 DEF VInv, Typed
<1>3. Documents'
  BY <1>1 DEF VInv, Documents, CoversSince, Cached
<1>4. /\ doc(v, c)' = said(v, c, given) /\ \A k \in Calls : doc(v, k)' = doc(v, k)
      /\ \A k \in Calls : \A g : said(v, k, g)' = said(v, k, g)
  BY <1>1 DEF doc, said
<1> QED  BY <1>1, <1>2, <1>3, <1>4 DEF RouteSaid

\* What a route was documented to require may not change: a document that answers for the one
\* would not for the other.
LEMMA RegisterRouteKeeps ==
  ASSUME VInv, serving.pc \in Routing, NEW v \in Versions, v = serving.version,
         NEW c \in Calls, c = serving.at,
         NEW given \in SUBSET Middleware, RegisterRoute(given), registry[serving.used[v]].enabled,
         NEW auth \in Auth \ {None}, auth = documented(CRUD[c].handler, given),
         doc(v, c) \in {None, "open", auth},
         serving' \in Serving, served' \in [Versions -> Routes], serving'.used = serving.used
  PROVE  RouteSaid(v, c, given)
<1> PICK i : i = serving.used[v]
  OBVIOUS
<1>1. /\ i \in DOMAIN registry /\ registry' \in Seq(Registry)
      /\ DOMAIN registry' = DOMAIN registry
      /\ \A n \in DOMAIN registry : n # i => registry'[n] = registry[n]
      /\ registry'[i].endpoints = [registry[i].endpoints EXCEPT ![keyOf(c)] = auth]
      /\ registry'[i].cached = None /\ registry'[i].enabled = registry[i].enabled
      /\ overlapped' \subseteq DOMAIN registry
      /\ Assembling(i) # {} => i \in overlapped'
      /\ \A n \in DOMAIN registry : n # i => (n \in overlapped <=> n \in overlapped')
      /\ UNCHANGED <<versions, defaultVersion, registries, routeRegistrars, reader>>
  <2>1. RouteRegistered(c, i, auth)
    BY RegisterRouteIs
  <2> QED  BY <2>1 DEF RouteRegistered
<1>2. /\ keyOf(c) \in Keys /\ registry[i].endpoints \in [Keys -> Auth]
      /\ \A k \in Calls : keyOf(k) \in Keys /\ (k # c => keyOf(k) # keyOf(c))
  <2>1. registry[i] \in Registry
    BY <1>1 DEF VInv, Typed
  <2>2. registry[i].endpoints \in [Keys -> Auth]
    BY <2>1 DEF Registry, Endpoints
  <2> QED  BY <2>2, CallsHaveKeys DEF keyOf
<1>3. /\ registry'[i].endpoints[keyOf(c)] = auth
      /\ \A k \in Keys : k # keyOf(c) => registry'[i].endpoints[k] = registry[i].endpoints[k]
  BY <1>1, <1>2
<1>4. /\ doc(v, c)' = said(v, c, given) /\ \A k \in Calls : k # c => doc(v, k)' = doc(v, k)
      /\ \A k \in Calls : \A g : said(v, k, g)' = said(v, k, g)
  BY <1>1, <1>2, <1>3 DEF doc, said
<1>5. Typed'
  <2>1. /\ registries' \in [Versions -> Nat \cup {None}] /\ reader' \in [Readers -> Reading]
        /\ overlapped' \subseteq DOMAIN registry'
    BY <1>1 DEF VInv, Typed
  <2>2. /\ versions' \subseteq Versions /\ routeRegistrars' \subseteq versions'
        /\ defaultVersion' \in Versions \cup {None}
    BY <1>1 DEF VInv, Typed
  <2> QED  BY <1>1, <2>1, <2>2 DEF Typed
<1>6. ASSUME NEW a, Covers(a, registry[i].endpoints) PROVE Covers(a, registry'[i].endpoints)
  <2>1. registry[i].endpoints[keyOf(c)] \in {None, "open", auth}
    BY DEF doc
  <2>2. ASSUME NEW k \in Keys
        PROVE  /\ a[k] # None => registry'[i].endpoints[k] # None
               /\ a[k] \notin {None, "open"} => registry'[i].endpoints[k] = a[k]
    <3>1. CASE k = keyOf(c)
      BY <1>3, <1>6, <2>1, <3>1 DEF Covers
    <3>2. CASE k # keyOf(c)
      BY <1>3, <1>6, <3>2 DEF Covers
    <3> QED  BY <3>1, <3>2
  <2> QED  BY <2>2 DEF Covers
<1>7. ASSUME NEW r \in Readers PROVE CoversSince(r)'
  <2>1. CoversSince(r) /\ reader'[r] = reader[r]
    BY <1>1 DEF VInv, Documents
  <2>2. CASE reader[r].of = i
    <3>1. reader[r].pc = "assemble" => i \in overlapped'
      <4>1. reader[r].pc = "assemble" => r \in Assembling(i)
        BY <2>2 DEF Assembling
      <4> QED  BY <1>1, <4>1
    <3> QED  BY <1>1, <1>6, <2>1, <2>2, <3>1 DEF CoversSince
  <2>3. CASE reader[r].of # i
    BY <1>1, <2>1, <2>3 DEF CoversSince
  <2> QED  BY <2>2, <2>3
<1>8. \A n \in DOMAIN registry' \ overlapped' : Cached(n)'
  BY <1>1 DEF VInv, Documents, Cached
<1>9. Documents'
  BY <1>7, <1>8 DEF Documents
<1> QED  BY <1>1, <1>4, <1>5, <1>9 DEF RouteSaid

\* Of a call that nothing was said of, or what is said with no middleware.
LEMMA RouteIsSaid ==
  ASSUME VInv, serving.pc \in Routing, NEW v \in Versions, v = serving.version,
         NEW c \in Calls, c = serving.at, NEW given \in SUBSET Middleware, RegisterRoute(given),
         doc(v, c) \in {None, said(v, c, {})},
         serving' \in Serving, served' \in [Versions -> Routes], serving'.used = serving.used
  PROVE  RouteSaid(v, c, given)
<1>1. CASE ~registry[serving.used[v]].enabled
  <2>1. doc(v, c) = None
    BY <1>1 DEF said
  <2> QED  BY <1>1, <2>1, NotEnabledKeeps
<1>2. CASE registry[serving.used[v]].enabled
  <2> DEFINE auth == documented(CRUD[c].handler, given)
  <2>1. CRUD[c].handler \in Handlers
    BY DEF Calls
  <2>2. auth \in Auth \ {None}
    BY <2>1, DocumentedIs
  <2>3. documented(CRUD[c].handler, {}) \in {"open", auth}
    BY DEF documented, detectAuthType
  <2>4. doc(v, c) \in {None, "open", auth}
    BY <1>2, <2>3 DEF said
  <2> HIDE DEF auth
  <2>5. auth = documented(CRUD[c].handler, given)
    BY DEF auth
  <2> QED  BY <1>2, <2>2, <2>4, <2>5, RegisterRouteKeeps
<1> QED  BY <1>1, <1>2

LEMMA AddRouteStep ==
  ASSUME VInv, AddRoute
  PROVE  VInv'
<1>1. serving.pc = "route" /\ serving.pc \in Routing /\ serving \in Serving
  BY DEF AddRoute, Routing, VInv, Typed
<1>2. PICK v \in Versions, c \in Calls : v = serving.version /\ c = serving.at /\ Stage(v, c)
  BY <1>1, CallIs
<1>3. Serve({}) /\ UNCHANGED <<versions, defaultVersion, registries, routeRegistrars,
                                  registry, reader, overlapped>>
  BY DEF AddRoute, manager
<1>4. /\ served' \in [Versions -> Routes]
      /\ \A w \in Versions : w # v => served'[w] = served[w]
      /\ \A k \in Calls : k # c => served'[v][keyOf(k)] = served[v][keyOf(k)]
      /\ serving.docsOnly => served' = served
      /\ served'[v][keyOf(c)] = IF serving.docsOnly THEN None ELSE {}
  BY <1>1, <1>2, <1>3, ServeIs
<1>5. /\ serving' \in Serving /\ serving'.version = v /\ serving'.docsOnly = serving.docsOnly
      /\ serving'.used = serving.used /\ serving'.todo = serving.todo /\ serving'.at = c
      /\ serving'.touched = serving.touched /\ serving'.pc = "document"
  BY <1>1, <1>2 DEF AddRoute, Serving, Routing
<1>6. CallKeeps(v, c)
  BY <1>3, <1>4, <1>5 DEF CallKeeps, Routing, doc
<1>7. Stage(v, c)'
  <2>1. doc(v, c) = None
    BY <1>1, <1>2 DEF Stage, Now
  <2>2. doc(v, c)' = None /\ Answered(v, c, {})'
    BY <1>3, <1>4, <1>5, <2>1 DEF doc, Answered
  <2>3. Now(v)' /\ c \in Nat
    BY <1>5 DEF Now, Routing, Calls
  <2> QED  BY <1>5, <2>2, <2>3 DEF Stage
<1>8. Owners' /\ Course' /\ Registered' /\ Progress'
  <2>1. serving'.pc \in Routing
    BY <1>5 DEF Routing
  <2> QED  BY <1>1, <1>2, <1>5, <1>6, <1>7, <2>1, CallKeepsCourse, CallKeepsProgress
<1>9. Typed'
  BY <1>3, <1>4, <1>5 DEF VInv, Typed
<1>10. Documents'
  BY <1>3 DEF VInv, Documents, CoversSince, Cached
<1> QED  BY <1>8, <1>9, <1>10 DEF VInv

LEMMA BindRouteStep ==
  ASSUME VInv, BindRoute
  PROVE  VInv'
<1>1. serving.pc = "bindRoute" /\ serving.pc \in Routing /\ serving \in Serving
  BY DEF BindRoute, Routing, VInv, Typed
<1>2. PICK v \in Versions, c \in Calls : v = serving.version /\ c = serving.at /\ Stage(v, c)
  BY <1>1, CallIs
<1>3. Serve(Middleware \cap Bindable) /\ UNCHANGED <<versions, defaultVersion, registries, routeRegistrars,
                                  registry, reader, overlapped>>
  BY DEF BindRoute, manager
<1>4. /\ served' \in [Versions -> Routes]
      /\ \A w \in Versions : w # v => served'[w] = served[w]
      /\ \A k \in Calls : k # c => served'[v][keyOf(k)] = served[v][keyOf(k)]
      /\ serving.docsOnly => served' = served
      /\ served'[v][keyOf(c)] = IF serving.docsOnly THEN None ELSE Middleware \cap Bindable
  BY <1>1, <1>2, <1>3, ServeIs
<1>5. PICK j \in Nat :
        /\ serving' = [serving EXCEPT !.at = j, !.pc = IF j = 0 THEN "next" ELSE "route"]
        /\ j = 0 => \A k \in Calls : k <= c
        /\ j # 0 => j \in Calls /\ j > c /\ \A k \in Calls : k > c => j <= k
  BY <1>1, <1>2, ServingNext DEF BindRoute
<1>6. /\ serving' \in Serving /\ serving'.version = v /\ serving'.docsOnly = serving.docsOnly
      /\ serving'.used = serving.used /\ serving'.todo = serving.todo /\ serving'.at = j
      /\ serving'.touched = serving.touched /\ serving'.pc = (IF j = 0 THEN "next" ELSE "route")
  BY <1>1, <1>2, <1>5 DEF Serving, Routing
<1>7. CallKeeps(v, c)
  BY <1>3, <1>4, <1>5, <1>6 DEF CallKeeps, Routing, doc
<1>8. Done(v, c)'
  <2>1. doc(v, c) = said(v, c, Middleware) /\ CRUD[c].bound
    BY <1>1, <1>2 DEF Stage, Now, VInv, Course
  <2>2. doc(v, c)' = said(v, c, Middleware)' /\ Answered(v, c, Middleware \cap Bindable)'
    BY <1>3, <1>4, <1>6, <2>1 DEF doc, said, Answered
  <2> QED  BY <2>1, <2>2 DEF Done, givenTo
<1>9. Stage(v, c)'
  <2>1. Now(v)' => c < serving'.at /\ c \in Nat /\ serving'.at \in Nat
    BY <1>5, <1>6 DEF Now, Routing, Calls
  <2> QED  BY <1>8, <2>1 DEF Stage
<1>10. Owners' /\ Course' /\ Registered' /\ Progress'
  BY <1>1, <1>2, <1>5, <1>6, <1>7, <1>9, CallKeepsCourse, CallKeepsProgress
<1>11. Typed'
  BY <1>3, <1>4, <1>6 DEF VInv, Typed
<1>12. Documents'
  BY <1>3 DEF VInv, Documents, CoversSince, Cached
<1> QED  BY <1>10, <1>11, <1>12 DEF VInv

LEMMA BindStep ==
  ASSUME VInv, Bind
  PROVE  VInv'
<1>1. serving.pc = "bind" /\ serving.pc \in Routing /\ serving \in Serving
      /\ RegisterRoute(Middleware) /\ served' = served /\ served' \in [Versions -> Routes]
  BY DEF Bind, Routing, VInv, Typed
<1>2. PICK v \in Versions, c \in Calls : v = serving.version /\ c = serving.at /\ Stage(v, c)
  BY <1>1, CallIs
<1>3. /\ serving' \in Serving /\ serving'.version = v /\ serving'.docsOnly = serving.docsOnly
      /\ serving'.used = serving.used /\ serving'.todo = serving.todo /\ serving'.at = c
      /\ serving'.touched = serving.touched /\ serving'.pc = "bindRoute"
  BY <1>1, <1>2 DEF Bind, Serving, Routing
<1>4. RouteSaid(v, c, Middleware)
  <2>1. doc(v, c) = said(v, c, {})
    BY <1>1, <1>2 DEF Stage, Now
  <2> QED  BY <1>1, <1>2, <1>3, <2>1, RouteIsSaid
<1>5. CRUD[c].bound
  BY <1>1, <1>2 DEF VInv, Course
<1>6. CallKeeps(v, c)
  BY <1>1, <1>3, <1>4, <1>5 DEF RouteSaid, CallKeeps, Routing
<1>7. Stage(v, c)'
  <2>1. Now(v)' /\ c \in Nat
    BY <1>3 DEF Now, Routing, Calls
  <2>2. doc(v, c)' = said(v, c, Middleware)'
    BY <1>4 DEF RouteSaid
  <2> QED  BY <1>3, <2>1, <2>2 DEF Stage
<1>8. Owners' /\ Course' /\ Registered' /\ Progress'
  <2>1. serving'.pc \in Routing
    BY <1>3 DEF Routing
  <2> QED  BY <1>1, <1>2, <1>3, <1>6, <1>7, <2>1, CallKeepsCourse, CallKeepsProgress
<1> QED  BY <1>4, <1>8 DEF RouteSaid, VInv

LEMMA DocumentStep ==
  ASSUME VInv, Document
  PROVE  VInv'
<1>1. serving.pc = "document" /\ serving.pc \in Routing /\ serving \in Serving
      /\ RegisterRoute({}) /\ served' = served /\ served' \in [Versions -> Routes]
  BY DEF Document, Routing, VInv, Typed
<1>2. PICK v \in Versions, c \in Calls : v = serving.version /\ c = serving.at /\ Stage(v, c)
  BY <1>1, CallIs
<1>3. doc(v, c) = None /\ Answered(v, c, {})
  BY <1>1, <1>2 DEF Stage, Now
<1>4. ASSUME serving' \in Serving, serving'.used = serving.used
      PROVE  RouteSaid(v, c, {})
  BY <1>1, <1>2, <1>3, <1>4, RouteIsSaid
<1>5. CASE CRUD[c].bound /\ Middleware # {}
  <2>1. /\ serving' \in Serving /\ serving'.version = v /\ serving'.docsOnly = serving.docsOnly
        /\ serving'.used = serving.used /\ serving'.todo = serving.todo /\ serving'.at = c
        /\ serving'.touched = serving.touched /\ serving'.pc = "bind"
    BY <1>1, <1>2, <1>5 DEF Document, Serving, Routing, Call
  <2>2. CallKeeps(v, c)
    BY <1>1, <1>4, <1>5, <2>1 DEF RouteSaid, CallKeeps, Routing
  <2>3. Stage(v, c)'
    <3>1. Now(v)' /\ c \in Nat
      BY <2>1 DEF Now, Routing, Calls
    <3>2. Answered(v, c, {})'
      BY <1>1, <1>3, <2>1 DEF Answered
    <3>3. doc(v, c)' = said(v, c, {})'
      BY <1>4, <2>1 DEF RouteSaid
    <3> QED  BY <2>1, <3>1, <3>2, <3>3 DEF Stage
  <2>4. Owners' /\ Course' /\ Registered' /\ Progress'
    <3>1. serving'.pc \in Routing
      BY <2>1 DEF Routing
    <3> QED  BY <1>1, <1>2, <2>1, <2>2, <2>3, <3>1, CallKeepsCourse, CallKeepsProgress
  <2> QED  BY <1>4, <2>1, <2>4 DEF RouteSaid, VInv
<1>6. CASE ~(CRUD[c].bound /\ Middleware # {})
  <2>1. PICK j \in Nat :
          /\ serving' = [serving EXCEPT !.at = j, !.pc = IF j = 0 THEN "next" ELSE "route"]
          /\ j = 0 => \A k \in Calls : k <= c
          /\ j # 0 => j \in Calls /\ j > c /\ \A k \in Calls : k > c => j <= k
    BY <1>1, <1>2, <1>6, ServingNext DEF Document, Call
  <2>2. /\ serving' \in Serving /\ serving'.version = v /\ serving'.docsOnly = serving.docsOnly
        /\ serving'.used = serving.used /\ serving'.todo = serving.todo /\ serving'.at = j
        /\ serving'.touched = serving.touched /\ serving'.pc = (IF j = 0 THEN "next" ELSE "route")
    BY <1>1, <1>2, <2>1 DEF Serving, Routing
  <2>3. CallKeeps(v, c)
    BY <1>1, <1>4, <2>1, <2>2 DEF RouteSaid, CallKeeps, Routing
  <2>4. Done(v, c)'
    <3>1. givenTo(c) = {} /\ givenTo(c) \cap Bindable = {}
      BY <1>6 DEF givenTo
    <3>2. Answered(v, c, givenTo(c) \cap Bindable)'
      BY <1>1, <1>3, <2>2, <3>1 DEF Answered
    <3>3. doc(v, c)' = said(v, c, givenTo(c))'
      BY <1>4, <2>2, <3>1 DEF RouteSaid
    <3> QED  BY <3>2, <3>3 DEF Done
  <2>5. Stage(v, c)'
    <3>1. Now(v)' => c < serving'.at /\ c \in Nat /\ serving'.at \in Nat
      BY <2>1, <2>2 DEF Now, Routing, Calls
    <3> QED  BY <2>4, <3>1 DEF Stage
  <2>6. Owners' /\ Course' /\ Registered' /\ Progress'
    BY <1>1, <1>2, <2>1, <2>2, <2>3, <2>5, CallKeepsCourse, CallKeepsProgress
  <2> QED  BY <1>4, <2>2, <2>6 DEF RouteSaid, VInv
<1> QED  BY <1>5, <1>6

\* A request reads: what the manager has and what was registered stays.
LEMMA ReadKeeps ==
  ASSUME VInv, UNCHANGED <<versions, registries, routeRegistrars, served, serving>>,
         DOMAIN registry' = DOMAIN registry,
         \A i \in DOMAIN registry : /\ registry'[i].endpoints = registry[i].endpoints
                                    /\ registry'[i].enabled = registry[i].enabled
  PROVE  Owners' /\ Course' /\ Registered' /\ Progress'
<1>1. Owners' /\ Course' /\ Registered'
  BY DEF VInv, Owners, Course, Registered, FailureNeedsChange
<1>2. \A v \in Versions, k \in Calls : serving.used[v] # None => Stage(v, k)'
  <2> SUFFICES ASSUME NEW v \in Versions, NEW k \in Calls, serving.used[v] # None
               PROVE  Stage(v, k)'
    OBVIOUS
  <2>1. Stage(v, k) /\ serving.used[v] \in DOMAIN registry
    BY DEF VInv, Progress, Owners
  <2>2. doc(v, k)' = doc(v, k) /\ \A given : said(v, k, given)' = said(v, k, given)
    BY <2>1 DEF doc, said
  <2> QED  BY <2>1, <2>2 DEF Stage, Done, Now, Answered
<1>3. Progress'
  BY <1>2 DEF VInv, Progress
<1> QED  BY <1>1, <1>3

LEMMA ReadStep ==
  ASSUME VInv, NEW r \in Readers, NEW pc, Read(r, pc), registry' = registry,
         NEW new \in Reading, reader' = [reader EXCEPT ![r] = new],
         (reader' = [reader EXCEPT ![r] = new]) => CoversSince(r)'
  PROVE  VInv'
<1>1. UNCHANGED <<versions, defaultVersion, registries, routeRegistrars, served, serving,
                  overlapped>>
  BY DEF Read, manager
<1>2. reader \in [Readers -> Reading]
  BY DEF VInv, Typed
<1>3. \A q \in Readers : CoversSince(q)'
  <2>1. ASSUME NEW q \in Readers, q # r PROVE CoversSince(q)'
    <3>1. reader'[q] = reader[q] /\ CoversSince(q)
      BY <1>2, <2>1 DEF VInv, Documents
    <3> QED  BY <1>1, <3>1 DEF CoversSince
  <2> QED  BY <2>1
<1>4. Documents'
  BY <1>1, <1>3 DEF VInv, Documents, Cached
<1>5. Typed'
  BY <1>1, <1>2 DEF VInv, Typed
<1> QED  BY <1>1, <1>4, <1>5, ReadKeeps DEF VInv

LEMMA CoversItself == ASSUME NEW a PROVE Covers(a, a)
BY DEF Covers

LEMMA RequestIs ==
  ASSUME VInv, NEW r \in Readers, NEW v \in versions
  PROVE  /\ Request(r, registries[v]) \in Reading /\ registries[v] \in DOMAIN registry
         /\ Request(r, registries[v]).pc = "check"
         /\ Request(r, registries[v]).of = registries[v]
         /\ Request(r, registries[v]).since = registry[registries[v]].endpoints
         /\ registry[registries[v]].endpoints \in Endpoints
         /\ Request(r, registries[v]).dump = reader[r].dump
         /\ Request(r, registries[v]).todo = reader[r].todo
<1>1. registries[v] \in DOMAIN registry
  BY DEF VInv, Typed, Owners
<1>2. registry[registries[v]] \in Registry /\ registries[v] \in Nat
  BY <1>1 DEF VInv, Typed
<1>3. reader[r] \in Reading /\ registry[registries[v]].endpoints \in Endpoints
  BY <1>2 DEF VInv, Typed, Registry
<1> QED  BY <1>1, <1>2, <1>3 DEF Request, Reading

LEMMA GetVersionOpenAPIStep ==
  ASSUME VInv, NEW r \in Readers, NEW v \in Versions, GetVersionOpenAPI(r, v)
  PROVE  VInv'
<1>1. Read(r, "idle") /\ registry' = registry /\ v \in versions
      /\ reader' = [reader EXCEPT ![r] = Request(r, registries[v])]
  BY DEF GetVersionOpenAPI, VInv, Owners
<1> PICK new : new = Request(r, registries[v])
  OBVIOUS
<1>2. /\ new \in Reading /\ registries[v] \in DOMAIN registry
      /\ new.pc = "check" /\ new.of = registries[v]
      /\ new.since = registry[registries[v]].endpoints
      /\ registry[registries[v]].endpoints \in Endpoints
      /\ new.dump = reader[r].dump /\ new.todo = reader[r].todo
  BY <1>1, RequestIs
<1>3. reader'[r] = new
  BY <1>1 DEF VInv, Typed
<1>4. CoversSince(r)'
  <2>1. UNCHANGED versions /\ Covers(new.since, registry[registries[v]].endpoints)
    BY <1>1, <1>2, CoversItself DEF Read, manager
  <2> QED  BY <1>1, <1>2, <1>3, <2>1 DEF VInv, Documents, CoversSince
<1> QED  BY <1>1, <1>2, <1>4, ReadStep

LEMMA DumpNextStep ==
  ASSUME VInv, NEW r \in Readers, DumpNext(r)
  PROVE  VInv'
<1>1. /\ Read(r, "dump") /\ registry' = registry /\ reader[r].pc = "dump"
      /\ UNCHANGED versions /\ reader[r] \in Reading /\ reader \in [Readers -> Reading]
  BY DEF DumpNext, Read, manager, VInv, Typed
<1>2. reader[r].todo \subseteq versions /\ versions \subseteq Versions
  BY <1>1 DEF VInv, Typed, Documents, CoversSince
<1>3. CASE reader[r].todo = {}
  <2>1. /\ Waiting \in Reading /\ Waiting.pc = "idle" /\ Waiting.dump = FALSE
    BY DEF Waiting, Reading
  <2>2. reader' = [reader EXCEPT ![r] = Waiting]
    BY <1>3 DEF DumpNext
  <2>3. CoversSince(r)'
    BY <1>1, <2>1, <2>2 DEF CoversSince
  <2> QED  BY <1>1, <2>1, <2>2, <2>3, ReadStep
<1>4. CASE reader[r].todo # {}
  <2>1. PICK v \in reader[r].todo :
          reader' = [reader EXCEPT ![r] = [Request(r, registries[v]) EXCEPT !.todo = @ \ {v}]]
    <3>1. Min(reader[r].todo) \in reader[r].todo
      BY <1>2, <1>4, VersionNamesAssumption, MinIs
    <3> QED  BY <1>4, <3>1 DEF DumpNext
  <2> PICK q : q = Request(r, registries[v])
    OBVIOUS
  <2> DEFINE new == [q EXCEPT !.todo = reader[r].todo \ {v}]
  <2>2. /\ q \in Reading /\ registries[v] \in DOMAIN registry /\ q.todo = reader[r].todo
        /\ q.pc = "check" /\ q.of = registries[v] /\ q.since = registry[registries[v]].endpoints
        /\ registry[registries[v]].endpoints \in Endpoints
    BY <1>2, <2>1, RequestIs
  <2>3. reader[r].todo \ {v} \in SUBSET Versions
    BY <1>2
  <2>4. /\ new \in Reading /\ new.pc = "check" /\ new.of = registries[v]
        /\ new.since = registry[registries[v]].endpoints /\ new.todo = reader[r].todo \ {v}
    BY <2>2, <2>3 DEF Reading
  <2>5. reader' = [reader EXCEPT ![r] = new]
    BY <2>1, <2>2
  <2> HIDE DEF new
  <2>6. reader'[r] = new /\ Covers(new.since, registry[registries[v]].endpoints)
    BY <1>1, <2>4, <2>5, CoversItself
  <2>7. CoversSince(r)'
    BY <1>1, <1>2, <2>2, <2>4, <2>6 DEF CoversSince
  <2> QED  BY <1>1, <2>4, <2>5, <2>7, ReadStep
<1> QED  BY <1>3, <1>4

LEMMA ReadingStep ==
  ASSUME VInv, NEW r \in Readers, BuildDebugData(r) \/ GetDocs(r) \/ Answer(r)
  PROVE  VInv'
<1>1. /\ reader[r] \in Reading /\ reader \in [Readers -> Reading] /\ CoversSince(r)
      /\ versions \in SUBSET Versions
  BY DEF VInv, Typed, Documents
<1>2. CASE BuildDebugData(r)
  <2> DEFINE new == [reader[r] EXCEPT !.pc = "dump", !.dump = TRUE, !.todo = versions]
  <2>1. Read(r, "idle") /\ registry' = registry /\ reader' = [reader EXCEPT ![r] = new]
        /\ UNCHANGED versions
    BY <1>2 DEF BuildDebugData, Read, manager
  <2>2. new \in Reading /\ new.pc = "dump" /\ new.todo = versions
    BY <1>1 DEF Reading
  <2>3. new.dump
    BY <1>1 DEF Reading
  <2> HIDE DEF new
  <2>4. CoversSince(r)'
    BY <1>1, <2>1, <2>2, <2>3 DEF CoversSince
  <2> QED  BY <2>1, <2>2, <2>4, ReadStep
<1>3. CASE GetDocs(r)
  <2> DEFINE at == registry[reader[r].of].endpoints
             new == [reader[r] EXCEPT !.pc = "assemble", !.docs = at]
  <2>1. Read(r, "copy") /\ registry' = registry /\ reader' = [reader EXCEPT ![r] = new]
        /\ UNCHANGED <<versions, overlapped>> /\ reader[r].pc = "copy"
    BY <1>3 DEF GetDocs, Read, manager
  <2>2. reader[r].of \in DOMAIN registry
    BY <1>1, <2>1 DEF CoversSince
  <2>3. at \in Endpoints
    <3>1. registry[reader[r].of] \in Registry
      BY <2>2 DEF VInv, Typed
    <3> QED  BY <3>1 DEF Registry
  <2>4. /\ new \in Reading /\ new.pc = "assemble" /\ new.docs = at /\ new.of = reader[r].of
        /\ new.since = reader[r].since /\ new.todo = reader[r].todo
        /\ new.dump = reader[r].dump
    BY <1>1, <2>3 DEF Reading
  <2>5. new.since \in Endpoints /\ Covers(new.since, at)
    BY <1>1, <2>1, <2>4 DEF CoversSince
  <2> HIDE DEF new
  <2>6. CoversSince(r)'
    BY <1>1, <2>1, <2>2, <2>3, <2>4, <2>5 DEF CoversSince
  <2> QED  BY <2>1, <2>4, <2>6, ReadStep
<1>4. CASE Answer(r)
  <2> DEFINE new == IF reader[r].dump
                    THEN [Waiting EXCEPT !.pc = "dump", !.dump = TRUE, !.todo = reader[r].todo]
                    ELSE Waiting
  <2>1. Read(r, "answered") /\ registry' = registry /\ reader' = [reader EXCEPT ![r] = new]
        /\ UNCHANGED versions
    BY <1>4 DEF Answer, Read, manager, Waiting
  <2>2. CASE reader[r].dump
    <3>1. new = [pc |-> "dump", dump |-> TRUE, todo |-> reader[r].todo, of |-> None,
                 docs |-> None, since |-> None]
      BY <2>2 DEF Waiting
    <3>2. reader[r].todo \in SUBSET Versions /\ reader[r].todo \subseteq versions
      BY <1>1, <2>2 DEF Reading, CoversSince
    <3> HIDE DEF new
    <3>3. new \in Reading /\ new.pc = "dump" /\ new.dump = TRUE /\ new.todo = reader[r].todo
      BY <3>1, <3>2 DEF Reading
    <3>4. CoversSince(r)'
      BY <1>1, <2>1, <3>2, <3>3 DEF CoversSince
    <3> QED  BY <2>1, <3>3, <3>4, ReadStep
  <2>3. CASE ~reader[r].dump
    <3>1. new \in Reading /\ new.pc = "idle" /\ new.dump = FALSE
      BY <2>3 DEF Waiting, Reading
    <3> HIDE DEF new
    <3>2. CoversSince(r)'
      BY <1>1, <2>1, <3>1 DEF CoversSince
    <3> QED  BY <2>1, <3>1, <3>2, ReadStep
  <2> QED  BY <2>2, <2>3
<1> QED  BY <1>2, <1>3, <1>4

LEMMA CachedDocsStep ==
  ASSUME VInv, NEW r \in Readers, CachedDocs(r)
  PROVE  /\ VInv'
         /\ reader'[r].pc = "answered" /\ reader[r].of \notin overlapped =>
              Covers(reader[r].since, reader'[r].docs)
<1>1. /\ reader[r] \in Reading /\ reader \in [Readers -> Reading] /\ CoversSince(r)
      /\ Read(r, "check") /\ registry' = registry /\ reader[r].pc = "check"
      /\ UNCHANGED <<versions, overlapped>>
  BY DEF VInv, Typed, Documents, CachedDocs, Read, manager
<1>2. reader[r].of \in DOMAIN registry /\ reader[r].since \in Endpoints
      /\ Covers(reader[r].since, registry[reader[r].of].endpoints)
  BY <1>1 DEF CoversSince
<1> PICK at : at = registry[reader[r].of]
  OBVIOUS
<1>3. at \in Registry
  BY <1>2 DEF VInv, Typed
<1>4. CASE ~at.dirty /\ at.cached # None
  <2> DEFINE new == [reader[r] EXCEPT !.pc = "answered", !.docs = at.cached]
  <2>1. reader' = [reader EXCEPT ![r] = new]
    BY <1>4 DEF CachedDocs
  <2>2. /\ new \in Reading /\ new.pc = "answered" /\ new.docs = at.cached
        /\ new.of = reader[r].of /\ new.todo = reader[r].todo /\ new.dump = reader[r].dump
    BY <1>1, <1>3, <1>4 DEF Reading, Registry
  <2> HIDE DEF new
  <2>3. reader'[r] = new /\ CoversSince(r)'
    BY <1>1, <1>2, <2>1, <2>2 DEF CoversSince
  <2>4. VInv'
    BY <1>1, <2>1, <2>2, <2>3, ReadStep
  <2>5. reader[r].of \notin overlapped => Cached(reader[r].of)
    BY <1>2 DEF VInv, Documents
  <2>6. reader[r].of \notin overlapped => at.cached = at.endpoints
    BY <1>4, <2>5 DEF Cached
  <2> QED  BY <1>2, <2>2, <2>3, <2>4, <2>6
<1>5. CASE ~(~at.dirty /\ at.cached # None)
  <2> DEFINE new == [reader[r] EXCEPT !.pc = "copy"]
  <2>1. reader' = [reader EXCEPT ![r] = new]
    BY <1>5 DEF CachedDocs
  <2>2. /\ new \in Reading /\ new.pc = "copy" /\ new.since = reader[r].since
        /\ new.of = reader[r].of /\ new.todo = reader[r].todo /\ new.dump = reader[r].dump
    BY <1>1 DEF Reading
  <2> HIDE DEF new
  <2>3. reader'[r] = new /\ CoversSince(r)'
    BY <1>1, <1>2, <2>1, <2>2 DEF CoversSince
  <2> QED  BY <1>1, <2>1, <2>2, <2>3, ReadStep
<1> QED  BY <1>4, <1>5

LEMMA StoreDocsStep ==
  ASSUME VInv, NEW r \in Readers, StoreDocs(r)
  PROVE  VInv' /\ Covers(reader[r].since, reader'[r].docs)
<1>1. /\ reader[r] \in Reading /\ reader \in [Readers -> Reading] /\ CoversSince(r)
      /\ reader[r].pc = "assemble"
      /\ UNCHANGED <<versions, defaultVersion, registries, routeRegistrars, served, serving,
                     overlapped>>
  BY DEF VInv, Typed, Documents, StoreDocs, Read, manager
<1> PICK i : i = reader[r].of
  OBVIOUS
<1>2. /\ i \in DOMAIN registry /\ registry \in Seq(Registry) /\ registry[i] \in Registry
      /\ reader[r].docs \in Endpoints /\ Covers(reader[r].since, reader[r].docs)
      /\ i \in overlapped \/ reader[r].docs = registry[i].endpoints
  BY <1>1 DEF CoversSince, VInv, Typed
<1> DEFINE new == [registry[i] EXCEPT !.cached = reader[r].docs, !.dirty = FALSE]
           q == [reader[r] EXCEPT !.pc = "answered"]
<1>3. registry' = [registry EXCEPT ![i] = new] /\ reader' = [reader EXCEPT ![r] = q]
  BY DEF StoreDocs
<1>4. /\ new \in Registry /\ new.endpoints = registry[i].endpoints /\ new.cached = reader[r].docs
      /\ new.enabled = registry[i].enabled
  BY <1>2 DEF Registry
<1>5. /\ q \in Reading /\ q.pc = "answered" /\ q.of = i /\ q.docs = reader[r].docs
      /\ q.todo = reader[r].todo /\ q.dump = reader[r].dump
  BY <1>1 DEF Reading
<1> HIDE DEF new, q
<1>6. /\ registry' \in Seq(Registry) /\ DOMAIN registry' = DOMAIN registry /\ registry'[i] = new
      /\ \A n \in DOMAIN registry : n # i => registry'[n] = registry[n]
  BY <1>2, <1>3, <1>4
<1>7. \A n \in DOMAIN registry : /\ registry'[n].endpoints = registry[n].endpoints
                                 /\ registry'[n].enabled = registry[n].enabled
  BY <1>4, <1>6
<1>8. reader'[r] = q /\ \A p \in Readers : p # r => reader'[p] = reader[p]
  BY <1>1, <1>3
<1>9. Typed'
  <2>1. reader' \in [Readers -> Reading]
    BY <1>1, <1>3, <1>5
  <2> QED  BY <1>1, <1>6, <2>1 DEF VInv, Typed
<1>10. ASSUME NEW p \in Readers PROVE CoversSince(p)'
  <2>1. CoversSince(p)
    BY DEF VInv, Documents
  <2>2. CASE p = r
    BY <1>1, <1>2, <1>5, <1>6, <1>8, <2>1, <2>2 DEF CoversSince
  <2>3. CASE p # r
    BY <1>1, <1>6, <1>7, <1>8, <2>1, <2>3 DEF CoversSince
  <2> QED  BY <2>2, <2>3
<1>11. \A n \in DOMAIN registry' \ overlapped' : Cached(n)'
  <2> SUFFICES ASSUME NEW n \in DOMAIN registry \ overlapped PROVE Cached(n)'
    BY <1>1, <1>6
  <2>1. CASE n = i
    BY <1>2, <1>4, <1>6, <2>1 DEF Cached
  <2>2. CASE n # i
    BY <1>6, <2>2 DEF VInv, Documents, Cached
  <2> QED  BY <2>1, <2>2
<1>12. Owners' /\ Course' /\ Registered' /\ Progress'
  BY <1>1, <1>6, <1>7, ReadKeeps
<1>13. VInv'
  BY <1>9, <1>10, <1>11, <1>12 DEF VInv, Documents
<1> QED  BY <1>2, <1>5, <1>8, <1>13

\* A step of a request alone: the one that answers it with what was assembled, or kept, is here
\* for what it answers.
ReadersStep(r) ==
  \/ \E v \in Versions : GetVersionOpenAPI(r, v)
  \/ BuildDebugData(r) \/ DumpNext(r) \/ CachedDocs(r) \/ GetDocs(r) \/ StoreDocs(r) \/ Answer(r)

ManagersStep ==
  \/ \E v \in Versions : \/ \E enabled \in BOOLEAN : RegisterVersion(v, enabled)
                         \/ RemoveVersion(v)
                         \/ SetDefaultVersion(v) \/ SetVersionRouteRegistrar(v)
  \/ \E docsOnly \in BOOLEAN : ValidateRouteRegistrars(docsOnly)
  \/ GetAllVersions \/ RegisterVersionRoutes \/ GetVersionRouter \/ AllRegistered
  \/ AddRoute \/ Document \/ Bind \/ BindRoute

LEMMA NextIs == Next => ManagersStep \/ \E r \in Readers : ReadersStep(r)
BY DEF Next, ManagersStep, ReadersStep

LEMMA ManagersKeep == ASSUME VInv, ManagersStep PROVE VInv'
<1>1. CASE \E v \in Versions, enabled \in BOOLEAN : RegisterVersion(v, enabled)
  BY <1>1, RegisterVersionStep
<1>2. CASE \E v \in Versions : RemoveVersion(v) \/ SetDefaultVersion(v) \/ SetVersionRouteRegistrar(v)
  BY <1>2, ManagerStep
<1>3. CASE \E docsOnly \in BOOLEAN : ValidateRouteRegistrars(docsOnly)
  BY <1>3, ValidateStep
<1>4. CASE GetAllVersions \/ RegisterVersionRoutes \/ GetVersionRouter \/ AllRegistered
  BY <1>4, GetAllVersionsStep, RegisterVersionRoutesStep, GetVersionRouterStep, AllRegisteredStep
<1>5. CASE AddRoute \/ Document \/ Bind \/ BindRoute
  BY <1>5, AddRouteStep, DocumentStep, BindStep, BindRouteStep
<1> QED  BY <1>1, <1>2, <1>3, <1>4, <1>5 DEF ManagersStep

LEMMA ReadersKeep == ASSUME VInv, NEW r \in Readers, ReadersStep(r) PROVE VInv'
<1>1. CASE \E v \in Versions : GetVersionOpenAPI(r, v)
  BY <1>1, GetVersionOpenAPIStep
<1>2. CASE DumpNext(r)
  BY <1>2, DumpNextStep
<1>3. CASE BuildDebugData(r) \/ GetDocs(r) \/ Answer(r)
  BY <1>3, ReadingStep
<1>4. CASE CachedDocs(r)
  BY <1>4, CachedDocsStep
<1>5. CASE StoreDocs(r)
  BY <1>5, StoreDocsStep
<1> QED  BY <1>1, <1>2, <1>3, <1>4, <1>5 DEF ReadersStep

LEMMA VersionsStep == VInv /\ [Next]_vars => VInv'
<1> SUFFICES ASSUME VInv, [Next]_vars PROVE VInv'
  OBVIOUS
<1>1. CASE Next
  BY <1>1, NextIs, ManagersKeep, ReadersKeep
<1>2. CASE UNCHANGED vars
  <2>1. UNCHANGED <<versions, defaultVersion, registries, routeRegistrars, registry, served, serving,
                    reader, overlapped>>
    BY <1>2 DEF vars, manager
  <2>2. Typed' /\ Documents'
    BY <2>1 DEF VInv, Typed, Documents, CoversSince, Cached
  <2>3. Owners' /\ Course' /\ Registered' /\ Progress'
    BY <2>1, ReadKeeps
  <2> QED  BY <2>2, <2>3 DEF VInv
<1> QED  BY <1>1, <1>2

LEMMA VersionsInvariant == Spec => []VInv
<1> QED  BY VersionsInitially, VersionsStep, PTL DEF Spec

\* The maps of the manager agree, and every actor holds a registry that was made (the type
\* invariant; core/server/api/version_manager.go:23, APIVersionManager).
THEOREM ManagerTypes == Spec => []TypeOK
<1>1. VInv => TypeOK
  <2> SUFFICES ASSUME VInv PROVE TypeOK
    OBVIOUS
  <2>1. \A i \in DOMAIN registry :
          registry[i].endpoints \in [Keys -> {None, "open"} \cup MiddlewareAuth \cup HandlerAuth]
    <3> SUFFICES ASSUME NEW i \in DOMAIN registry PROVE registry[i].endpoints \in [Keys -> Auth]
      BY DEF Auth
    <3>1. registry[i] \in Registry
      BY DEF VInv, Typed
    <3> QED  BY <3>1 DEF Registry, Endpoints
  <2>2. \A r \in Readers : reader[r].pc \notin {"idle", "dump"} => reader[r].of \in DOMAIN registry
    BY DEF VInv, Documents, CoversSince
  <2> QED  BY <2>1, <2>2 DEF VInv, Typed, Owners, TypeOK
<1> QED  BY <1>1, VersionsInvariant, PTL

\* Once the registrars were found complete, registering the routes fails only at a version that
\* was removed or added while it ran (core/server/api/version_manager.go:300,
\* RegisterAllVersionRoutes).
THEOREM FailuresNeedChange == Spec => []FailureNeedsChange
<1>1. VInv => FailureNeedsChange
  BY DEF VInv, Registered
<1> QED  BY <1>1, VersionsInvariant, PTL

\* When all routes are registered, every route has the middleware the server's router takes, and
\* an enabled version documents each with the authentication its handler's source or else the
\* middleware given to it asks for, the most restrictive that is recognised
\* (version_manager.go:563, Bind; registry_routes.go:20, RegisterRoute).
THEOREM DocumentedIsServed == Spec => []DocumentedAsServed
<1>1. VInv => DocumentedAsServed
  <2> SUFFICES ASSUME VInv, serving.pc = "done", NEW v \in versions, registries[v] = serving.used[v],
                      NEW k \in Calls
               PROVE  LET key == endpointKey(CRUD[k])
                          given == IF CRUD[k].bound THEN Middleware ELSE {}
                          by == registry[registries[v]] IN
                      /\ served[v][key] = IF serving.docsOnly THEN None ELSE given \cap Bindable
                      /\ IF by.enabled
                         THEN SaysWhatIsAsked(by.endpoints[key], CRUD[k].handler, given)
                         ELSE by.endpoints[key] = None
    BY DEF DocumentedAsServed
  <2>1. v \in Versions /\ serving.used[v] # None
    <3>1. None \notin DOMAIN registry
      BY VersionNamesAssumption DEF VInv, Typed
    <3> QED  BY <3>1 DEF VInv, Typed, Owners
  <2>2. Stage(v, k) /\ ~Now(v)
    BY <2>1 DEF VInv, Progress, Now, Routing
  <2>3. Done(v, k)
    BY <2>2 DEF Stage
  <2>4. CRUD[k].handler \in Handlers /\ givenTo(k) \in SUBSET Middleware
    BY DEF Calls, givenTo
  <2>5. SaysWhatIsAsked(documented(CRUD[k].handler, givenTo(k)), CRUD[k].handler, givenTo(k))
    BY <2>4, DocumentedIs
  <2> QED  BY <2>3, <2>5 DEF Done, doc, said, Answered, keyOf, givenTo
<1> QED  BY <1>1, VersionsInvariant, PTL

\* A document answers for everything that was registered when the request for it came in, except
\* of a registry with an assembly under way at a registration (core/server/api/registry_spec.go:16,
\* GetDocsWithComponents).
THEOREM AnswersCurrent == Spec => AnswersAreCurrent
<1> DEFINE Current ==
      \A r \in Readers :
        reader[r].pc # "answered" /\ reader'[r].pc = "answered"
          /\ reader[r].of \notin overlapped => Covers(reader[r].since, reader'[r].docs)
<1>1. VInv /\ [Next]_vars => [Current]_vars
  <2> SUFFICES ASSUME VInv, Next PROVE Current
    BY DEF vars
  <2> SUFFICES ASSUME NEW r \in Readers, reader[r].pc # "answered", reader'[r].pc = "answered",
                      reader[r].of \notin overlapped
               PROVE  Covers(reader[r].since, reader'[r].docs)
    OBVIOUS
  <2>1. reader \in [Readers -> Reading]
    BY DEF VInv, Typed
  <2>2. CASE ManagersStep
    <3>1. reader' = reader
      BY <2>2 DEF ManagersStep, RegisterVersion, RemoveVersion, SetDefaultVersion,
            SetVersionRouteRegistrar, Change, ValidateRouteRegistrars, GetAllVersions,
            RegisterVersionRoutes, GetVersionRouter, AllRegistered, Lookup, AddRoute, Document, Bind,
            BindRoute, RegisterRoute
    <3> QED  BY <3>1
  <2>3. ASSUME NEW q \in Readers, ReadersStep(q) PROVE Covers(reader[r].since, reader'[r].docs)
    <3>1. CASE q # r
      <4>1. reader'[r] = reader[r]
        BY <2>1, <2>3, <3>1 DEF ReadersStep, GetVersionOpenAPI, BuildDebugData, DumpNext, CachedDocs,
              GetDocs, StoreDocs, Answer
      <4> QED  BY <4>1
    <3>2. CASE q = r
      <4>1. CASE CachedDocs(r)
        BY <4>1, CachedDocsStep
      <4>2. CASE StoreDocs(r)
        BY <4>2, StoreDocsStep
      <4>3. CASE ~CachedDocs(r) /\ ~StoreDocs(r)
        <5>1. reader'[r].pc \in {"check", "dump", "idle", "assemble"}
          <6>1. CASE \E v \in Versions : GetVersionOpenAPI(r, v)
            BY <2>1, <6>1 DEF GetVersionOpenAPI, Request, Reading
          <6>2. CASE BuildDebugData(r) \/ GetDocs(r)
            BY <2>1, <6>2 DEF BuildDebugData, GetDocs, Reading
          <6>3. CASE DumpNext(r)
            <7> PICK v : v = Min(reader[r].todo)
              OBVIOUS
            <7>1. reader'[r] = IF reader[r].todo = {} THEN Waiting
                               ELSE [Request(r, registries[v]) EXCEPT
                                       !.todo = Request(r, registries[v]).todo \ {v}]
              BY <2>1, <6>3 DEF DumpNext
            <7>2. Request(r, registries[v]).pc = "check"
                  /\ "pc" \in DOMAIN Request(r, registries[v])
              BY <2>1 DEF Request, Reading
            <7>3. Waiting.pc = "idle"
              BY DEF Waiting
            <7> QED  BY <7>1, <7>2, <7>3
          <6>4. CASE Answer(r)
            BY <2>1, <6>4 DEF Answer, Reading, Waiting
          <6> QED  BY <2>3, <3>2, <4>3, <6>1, <6>2, <6>3, <6>4 DEF ReadersStep
        <5> QED  BY <5>1
      <4> QED  BY <4>1, <4>2, <4>3
    <3> QED  BY <3>1, <3>2
  <2> QED  BY <2>2, <2>3, NextIs
<1> QED  BY <1>1, VersionsInvariant, PTL DEF Spec, AnswersAreCurrent
=============================================================================
