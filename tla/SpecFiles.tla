----------------------------- MODULE SpecFiles -----------------------------
(***************************************************************************)
(* The documents on disk: the command that generates them                  *)
(* (core/server/api/spec_generator.go), and the server, another process,   *)
(* that loads one per version and answers with it, or with what it has     *)
(* assembled itself (openapi_embedded_loader.go).  os.WriteFile empties a  *)
(* file before it writes it, and a command may be killed between the two.  *)
(***************************************************************************)
EXTENDS Naturals, FiniteSets, VersionNames

CONSTANTS
  Reader,      \* requests that are served at the same time
  Torn,        \* a file that cannot be parsed
  Assembled,   \* the answer without a document: what the server assembles
  MaxRuns      \* bound: the commands, and as many starts of the server

ASSUME SpecFilesAssumption ==
  /\ MaxRuns \in Nat
  /\ Torn \notin Nat /\ Assembled \notin Nat
  /\ None # Torn /\ None # Assembled /\ Torn # Assembled

VARIABLES
  file,         \* per version: None, Torn, or the run that wrote it
  generator,    \* the command; valid: the versions that it reported valid, and
                \* that were not written since
  parsedDocs,   \* the document that was loaded, or None
  parseErrs,    \* whether a load has failed
  request,      \* the requests
  starts,       \* how often the server was started
  settled,      \* ghost: what the version was answered with when it was known
                \* and no load of it was under way any more
  touched       \* ghost: the versions written since the server was started

filesVars == <<file, generator, parsedDocs, parseErrs, request, starts, settled, touched>>

Idle == [pc |-> "idle", version |-> None, raw |-> None]

FilesInit ==
  /\ file \in [Versions -> {None, Torn}]
  /\ generator = [pc |-> "idle", versions |-> {}, todo |-> {}, run |-> 0, valid |-> {}]
  /\ parsedDocs = [v \in Versions |-> None]
  /\ parseErrs = [v \in Versions |-> FALSE]
  /\ request = [r \in Reader |-> Idle]
  /\ starts = 0
  /\ settled = [v \in Versions |-> None]
  /\ touched = {}
-----------------------------------------------------------------------------
(* The command.                                                            *)

server == <<parsedDocs, parseErrs, request, starts>>
First(S) == CHOOSE v \in S : \A w \in S : v <= w

\* What ValidateSpecs finds of versions: each has a file, and it can be parsed.
ValidateSpecs(versions) == \A v \in versions : file[v] \in 1..MaxRuns

\* Of all the versions, or of one of them.  The command assembles the documents
\* in memory: it has the files disabled.
Generate(versions) ==
  /\ generator.pc = "idle" /\ generator.run < MaxRuns
  /\ generator' = [generator EXCEPT !.pc = "write", !.versions = versions,
                                    !.todo = versions, !.run = @ + 1]
  /\ UNCHANGED <<file, server, settled, touched>>

\* os.WriteFile, version by version.
Truncate ==
  LET v == First(generator.todo) IN
  /\ generator.pc = "write" /\ generator.todo # {}
  /\ file' = [file EXCEPT ![v] = Torn]
  /\ generator' = [generator EXCEPT !.pc = "fill", !.valid = @ \ {v}]
  /\ touched' = touched \cup {v}
  /\ UNCHANGED <<server, settled>>

Fill ==
  LET v == First(generator.todo) IN
  /\ generator.pc = "fill"
  /\ file' = [file EXCEPT ![v] = generator.run]
  /\ generator' = [generator EXCEPT !.pc = "write", !.todo = @ \ {v}]
  /\ UNCHANGED <<server, settled, touched>>

GenerateSucceeds ==
  /\ generator.pc = "write" /\ generator.todo = {}
  /\ ValidateSpecs(generator.versions)
  /\ generator' = [generator EXCEPT !.pc = "idle", !.versions = {},
                                    !.valid = @ \cup generator.versions]
  /\ UNCHANGED <<file, server, settled, touched>>

\* A write fails, or the command is killed.
GenerateFails ==
  /\ generator.pc \in {"write", "fill"}
  /\ generator' = [generator EXCEPT !.pc = "idle", !.versions = {}, !.todo = {}]
  /\ UNCHANGED <<file, server, settled, touched>>

Validate ==
  /\ generator.pc = "idle" /\ ValidateSpecs(Versions)
  /\ generator' = [generator EXCEPT !.valid = Versions]
  /\ UNCHANGED <<file, server, settled, touched>>
-----------------------------------------------------------------------------
(* GetSpec, on a request for the document of a version.                    *)

Loading(v) == {r \in Reader : request[r].pc \in {"read", "fail", "store"}
                              /\ request[r].version = v}

\* What a request for v is answered with, when nothing has to be loaded.
Known(v) == parsedDocs[v] # None \/ parseErrs[v]
answer(v) == IF parseErrs[v] THEN Assembled ELSE parsedDocs[v]

Settle == settled' = [v \in Versions |->
  IF settled[v] # None THEN settled[v]
  ELSE IF Known(v)' /\ Loading(v)' = {} THEN answer(v)' ELSE None]

\* Mutant: what was loaded is loaded again.
CheckErrors(r, v) ==
  /\ request[r].pc = "idle"
  /\ request' = [request EXCEPT ![r] =
       IF parseErrs[v] THEN [pc |-> "answer", version |-> v, raw |-> answer(v)]
       ELSE [pc |-> "read", version |-> v, raw |-> None]]
  /\ UNCHANGED <<file, generator, parsedDocs, parseErrs, starts, touched>>
  /\ Settle

\* Under the read lock.
Check(r, v) ==
  /\ request[r].pc = "idle"
  /\ request' = [request EXCEPT ![r] =
       IF Known(v) THEN [pc |-> "answer", version |-> v, raw |-> answer(v)]
       ELSE [pc |-> "read", version |-> v, raw |-> None]]
  /\ UNCHANGED <<file, generator, parsedDocs, parseErrs, starts, touched>>
  /\ Settle

readSpecBytes(r) ==
  LET f == file[request[r].version] IN
  /\ request[r].pc = "read"
  /\ request' = [request EXCEPT ![r].raw = f, ![r].pc = IF f \notin {None, Torn} THEN "store" ELSE "fail"]
  /\ UNCHANGED <<file, generator, parsedDocs, parseErrs, starts, settled, touched>>

\* Mutant: the error is not of the version.
failedFor(v) == [w \in Versions |-> TRUE]

failed(v) == [parseErrs EXCEPT ![v] = TRUE]

StoreError(r) ==
  /\ request[r].pc = "fail"
  /\ parseErrs' = failed(request[r].version)
  /\ request' = [request EXCEPT ![r].pc = "answer", ![r].raw = Assembled]
  /\ UNCHANGED <<file, generator, parsedDocs, starts, touched>>
  /\ Settle

StoreParsed(r) ==
  LET v == request[r].version IN
  /\ request[r].pc = "store"
  /\ parsedDocs' = [parsedDocs EXCEPT ![v] = request[r].raw]
  /\ parseErrs' = [parseErrs EXCEPT ![v] = FALSE]
  /\ request' = [request EXCEPT ![r].pc = "answer"]
  /\ UNCHANGED <<file, generator, starts, touched>>
  /\ Settle

\* The answer is a copy of what is cached, with the address of the server.
Respond(r) ==
  /\ request[r].pc = "answer"
  /\ request' = [request EXCEPT ![r] = Idle]
  /\ UNCHANGED <<file, generator, parsedDocs, parseErrs, starts, settled, touched>>

\* Another process, with maps of its own.
Restart ==
  /\ starts < MaxRuns /\ starts' = starts + 1
  /\ parsedDocs' = [v \in Versions |-> None]
  /\ parseErrs' = [v \in Versions |-> FALSE]
  /\ request' = [r \in Reader |-> Idle]
  /\ settled' = [v \in Versions |-> None]
  /\ touched' = IF generator.pc = "fill" THEN {First(generator.todo)} ELSE {}
  /\ UNCHANGED <<file, generator>>

FilesNext ==
  \/ \E versions \in {Versions} \cup {{v} : v \in Versions} : Generate(versions)
  \/ Truncate \/ Fill \/ GenerateSucceeds \/ GenerateFails \/ Validate
  \/ \E r \in Reader : \/ \E v \in Versions : Check(r, v)
                       \/ readSpecBytes(r) \/ StoreError(r) \/ StoreParsed(r) \/ Respond(r)
  \/ Restart

FilesSpec == FilesInit /\ [][FilesNext]_filesVars
-----------------------------------------------------------------------------
(* Properties.                                                             *)

\* Once a load of a version has ended and no other is under way, every request
\* for it is answered the same until the server is started again, whatever is
\* written meanwhile: with the document that was read, or never with one.
AnswersSettle ==
  \A v \in Versions : settled[v] # None => /\ Known(v) /\ answer(v) = settled[v]
                                           /\ Loading(v) = {}

\* What the command reported valid and nobody has written since the server was
\* started is answered from its file: with the document in it, if with any, and
\* neither another version's failure nor two requests that load it at once
\* replace it by the assembled one.
ServedAsGenerated ==
  \A v \in generator.valid \ touched :
    /\ ~parseErrs[v]
    /\ parsedDocs[v] \in {None, file[v]}
=============================================================================
