------------------------------ MODULE Versions ------------------------------
(***************************************************************************)
(* The API version manager (src/core/server/api/version_manager.go), the   *)
(* registry of endpoints each version owns (registry.go, registry_spec.go) *)
(* and the requests for their documents.                                   *)
(*                                                                         *)
(* One goroutine registers the routes of all versions, step by step; others*)
(* change the versions at any moment; requests read the documents.  Every  *)
(* section under the manager's or a registry's lock is one step; what a    *)
(* function does between two sections is where the others come in.         *)
(*                                                                         *)
(* A version is a number, so that `versions`, which the code keeps sorted, *)
(* is a set.  A registry is an object with an identity: a version that was *)
(* removed and registered again has another one, while a goroutine may     *)
(* still hold the first.                                                   *)
(***************************************************************************)
EXTENDS Naturals, Sequences, FiniteSets, FiniteSetsExt, VersionNames

CONSTANTS
  Handlers,        \* the handlers of a resource given to CRUD
  Middleware,      \* what is given to CRUD for its writing routes
  AuthOf,          \* AuthOf[m]: the authentication its function's name tells of, or None
  Bindable,        \* those of a type the server's router takes
  InHandler,       \* InHandler[h]: the authentication found in a handler's source, or None
  Readers,         \* concurrent requests to the documentation endpoints
  MaxRegistries,   \* bound: registries made
  MaxChanges       \* bound: calls that change a version

\* The types of authentication: of middleware, from the least restrictive on, and of handlers.
hierarchy == <<"guest_only", "auth", "superuser_or_owner", "superuser">>
MiddlewareAuth == {hierarchy[level] : level \in 1..4}
HandlerAuth == {"user_auth", "admin_auth", "record_auth"}

ASSUME VersionsAssumption ==
  /\ MaxRegistries \in Nat /\ MaxChanges \in Nat
  /\ AuthOf \in [Middleware -> MiddlewareAuth \union {None}]
  /\ Bindable \subseteq Middleware
  /\ InHandler \in [Handlers -> HandlerAuth \union {None}]
  /\ None \notin {"open"} \union MiddlewareAuth \union HandlerAuth

(***************************************************************************)
(* The calls a registrar makes on its router.  CRUD registers the reading  *)
(* routes as they are and chains the middleware it is given, if any, with  *)
(* Bind onto the writing ones.                                             *)
(***************************************************************************)
Route(handler, method, path, bound) ==
  [handler |-> handler, method |-> method, path |-> path, bound |-> bound]

CRUD == << Route("List", "GET", "collection", FALSE),
           Route("Create", "POST", "collection", TRUE),
           Route("Get", "GET", "record", FALSE),
           Route("Update", "PUT", "record", TRUE),
           Route("Patch", "PATCH", "record", TRUE),
           Route("Delete", "DELETE", "record", TRUE) >>

\* The calls that are made: the others have no handler.
Calls == {i \in 1..6 : CRUD[i].handler \in Handlers}
endpointKey(route) == <<route.method, route.path>>
Keys == {endpointKey(CRUD[i]) : i \in Calls}
Empty == [key \in Keys |-> None]

(***************************************************************************)
(* What an endpoint is documented to require: what the source of its       *)
(* handler asks for, if it is found there, else the most restrictive of    *)
(* what the names of the middleware tell of, else nothing ("open").        *)
(***************************************************************************)
detectAuthType(given) ==
  LET levels == {level \in 1..4 : \E m \in given : AuthOf[m] = hierarchy[level]} IN
  IF levels = {} THEN "open" ELSE hierarchy[Max(levels)]

documented(handler, given) ==
  IF InHandler[handler] # None THEN InHandler[handler] ELSE detectAuthType(given)

VARIABLES
  versions,         \* the versions that have a configuration
  defaultVersion,   \* None before the first version
  registries,       \* registries[v]: None or the identity of a registry
  routeRegistrars,  \* the versions whose routes have a callback
  registry,         \* the registries made: Enabled, endpoints, cachedSpecDocs, specDirty
  served,           \* served[v]: the routes the server has, and the middleware bound to them
  serving,          \* RegisterAllVersionRoutes in progress
  reader,           \* the requests in progress
  changes,
  overlapped        \* ghost: registries that changed under an assembly

manager == <<versions, defaultVersion, registries, routeRegistrars>>
vars == <<manager, registry, served, serving, reader, changes, overlapped>>

NewAPIRegistry(enabled) ==
  [enabled |-> enabled, endpoints |-> Empty, cached |-> None, dirty |-> FALSE]

NotServing == [pc |-> "idle", docsOnly |-> FALSE, todo |-> {}, version |-> None,
               at |-> 0, used |-> [v \in Versions |-> None], touched |-> {}]

Waiting == [pc |-> "idle", dump |-> FALSE, todo |-> {}, of |-> None,
            docs |-> None, since |-> None]

(***************************************************************************)
(* InitializeVersionManager: the versions of a map are registered in an    *)
(* order nobody chose; the default is what the caller says, whether it is  *)
(* among them or not, or the first of them when the caller says nothing.   *)
(* The configuration of a version says whether it is documented at all.    *)
(***************************************************************************)
Init ==
  /\ versions \in {given \in SUBSET Versions : Cardinality(given) <= MaxRegistries}
  /\ defaultVersion \in Versions \union (IF versions = {} THEN {None} ELSE {})
  /\ registries = [v \in Versions |->
       IF v \in versions THEN Cardinality({w \in versions : w <= v}) ELSE None]
  /\ registry \in [1..Cardinality(versions) -> {NewAPIRegistry(enabled) : enabled \in BOOLEAN}]
  /\ routeRegistrars \in SUBSET versions
  /\ served = [v \in Versions |-> Empty]
  /\ serving = NotServing
  /\ reader = [r \in Readers |-> Waiting]
  /\ changes = 0
  /\ overlapped = {}

(***************************************************************************)
(* Changing the versions.  The debug dump holds the manager's lock for     *)
(* reading until its last document is assembled, so they wait for it.      *)
(***************************************************************************)
Change ==
  /\ \A r \in Readers : ~reader[r].dump
  /\ changes < MaxChanges
  /\ changes' = changes + 1
  /\ UNCHANGED <<served, reader, overlapped>>

RegisterVersion(v, enabled) ==
  /\ Change
  /\ v \notin versions
  /\ Len(registry) < MaxRegistries
  /\ registry' = Append(registry, NewAPIRegistry(enabled))
  /\ versions' = versions \union {v}
  /\ registries' = [registries EXCEPT ![v] = Len(registry')]
  /\ defaultVersion' = IF defaultVersion = None THEN v ELSE defaultVersion
  /\ serving' = [serving EXCEPT !.touched = @ \union {v}]
  /\ UNCHANGED routeRegistrars

RemoveVersion(v) ==
  /\ Change
  /\ v \in versions
  /\ v # defaultVersion
  /\ versions' = versions \ {v}
  /\ registries' = [registries EXCEPT ![v] = None]
  /\ routeRegistrars' = routeRegistrars \ {v}
  /\ serving' = [serving EXCEPT !.touched = @ \union {v}]
  /\ UNCHANGED <<defaultVersion, registry>>

SetDefaultVersion(v) ==
  /\ Change
  /\ v \in versions
  /\ defaultVersion' = v
  /\ UNCHANGED <<versions, registries, routeRegistrars, registry, serving>>

SetVersionRouteRegistrar(v) ==
  /\ Change
  /\ v \in versions
  /\ routeRegistrars' = routeRegistrars \union {v}
  /\ UNCHANGED <<versions, defaultVersion, registries, registry, serving>>

(***************************************************************************)
(* RegisterAllVersionRoutes, and RegisterAllVersionRoutesForDocs, which has*)
(* no server to add the routes to.  Each lookup takes the lock anew.       *)
(***************************************************************************)
Lookup(pc) ==
  /\ serving.pc = pc
  /\ UNCHANGED <<manager, registry, served, reader, changes, overlapped>>

\* Mutant: only the default version has to have a registrar.
ValidateDefaultRegistrar(docsOnly) ==
  /\ Lookup("idle")
  /\ serving' = [serving EXCEPT !.docsOnly = docsOnly, !.touched = {},
       !.pc = IF {defaultVersion} \intersect versions \subseteq routeRegistrars
              THEN "validated" ELSE "refused"]

ValidateRouteRegistrars(docsOnly) ==
  /\ Lookup("idle")
  /\ serving' = [serving EXCEPT !.docsOnly = docsOnly, !.touched = {},
       !.pc = IF versions \subseteq routeRegistrars THEN "validated" ELSE "refused"]

GetAllVersions ==
  /\ Lookup("validated")
  /\ serving' = [serving EXCEPT !.todo = versions, !.pc = "next"]

RegisterVersionRoutes ==
  /\ Lookup("next")
  /\ serving.todo # {}
  /\ LET v == Min(serving.todo) IN
       serving' = [serving EXCEPT !.version = v, !.todo = @ \ {v},
         !.pc = IF v \in routeRegistrars THEN "router" ELSE "failed"]

\* On to the next call after the one at i, or to the next version.
Later(i) == {j \in Calls : j > i}
NextCall(s, i) ==
  [s EXCEPT !.at = IF Later(i) = {} THEN 0 ELSE Min(Later(i)),
            !.pc = IF Later(i) = {} THEN "next" ELSE "route"]

GetVersionRouter ==
  /\ Lookup("router")
  /\ LET i == registries[serving.version] IN
       serving' = IF i = None THEN [serving EXCEPT !.pc = "failed"]
                  ELSE NextCall([serving EXCEPT !.used[serving.version] = i], 0)

AllRegistered ==
  /\ Lookup("next")
  /\ serving.todo = {}
  /\ serving' = [serving EXCEPT !.pc = "done"]

Call == CRUD[serving.at]

Serve(bound) ==
  served' = IF serving.docsOnly THEN served
            ELSE [served EXCEPT ![serving.version][endpointKey(Call)] = bound]

(* The router's GET, POST, PUT, PATCH and DELETE: the server's router first *)
AddRoute ==
  /\ serving.pc = "route"
  /\ Serve({})
  /\ serving' = [serving EXCEPT !.pc = "document"]
  /\ UNCHANGED <<manager, registry, reader, changes, overlapped>>

(***************************************************************************)
(* RegisterRoute ends in RegisterEndpoint, which replaces the entry of the *)
(* method and path, rebuilds the lists and drops the assembled document.   *)
(* Neither does anything to the registry of a version that is not enabled. *)
(***************************************************************************)
\* Mutant: only a new endpoint drops the assembled document.
RegisterEndpointOnce(i, key, auth) ==
  registry' = [registry EXCEPT ![i] =
    IF @.endpoints[key] = None
    THEN [@ EXCEPT !.endpoints[key] = auth, !.cached = None, !.dirty = TRUE]
    ELSE [@ EXCEPT !.endpoints[key] = auth]]

RegisterEndpoint(i, key, auth) ==
  registry' = [registry EXCEPT ![i] =
    [@ EXCEPT !.endpoints[key] = auth, !.cached = None, !.dirty = TRUE]]

Assembling(i) == {r \in Readers : reader[r].pc = "assemble" /\ reader[r].of = i}

RegisterRoute(given) ==
  LET i == serving.used[serving.version] IN
  /\ UNCHANGED <<manager, reader, changes>>
  /\ \/ /\ ~registry[i].enabled
        /\ UNCHANGED <<registry, overlapped>>
     \/ /\ registry[i].enabled
        /\ RegisterEndpoint(i, endpointKey(Call), documented(Call.handler, given))
        /\ overlapped' = IF Assembling(i) # {} THEN overlapped \union {i}
                                               ELSE overlapped \ {i}

(* ... then the documentation, still without middleware *)
Document ==
  /\ serving.pc = "document"
  /\ RegisterRoute({})
  /\ serving' = IF Call.bound /\ Middleware # {} THEN [serving EXCEPT !.pc = "bind"]
                ELSE NextCall(serving, serving.at)
  /\ UNCHANGED served

\* Mutant: the middleware is bound and not documented.
BindUndocumented ==
  /\ serving.pc = "bind"
  /\ serving' = [serving EXCEPT !.pc = "bindRoute"]
  /\ UNCHANGED <<manager, registry, served, reader, changes, overlapped>>

(* Bind documents the route again, with all of its middleware, and then    *)
(* binds what the router takes of it.                                      *)
Bind ==
  /\ serving.pc = "bind"
  /\ RegisterRoute(Middleware)
  /\ serving' = [serving EXCEPT !.pc = "bindRoute"]
  /\ UNCHANGED served

BindRoute ==
  /\ serving.pc = "bindRoute"
  /\ Serve(Middleware \intersect Bindable)
  /\ serving' = NextCall(serving, serving.at)
  /\ UNCHANGED <<manager, registry, reader, changes, overlapped>>

(***************************************************************************)
(* Requests for a document, when no specification was found on disk:       *)
(* GetVersionOpenAPI and GetVersionOpenAPIPublic look the registry up and  *)
(* call GetDocsWithComponents, BuildDebugData does so for every version.   *)
(***************************************************************************)
Read(r, pc) ==
  /\ reader[r].pc = pc
  /\ UNCHANGED <<manager, served, serving, changes, overlapped>>

Request(r, i) ==
  [reader[r] EXCEPT !.pc = "check", !.of = i, !.since = registry[i].endpoints]

GetVersionOpenAPI(r, v) ==
  /\ Read(r, "idle")
  /\ registries[v] # None
  /\ reader' = [reader EXCEPT ![r] = Request(r, registries[v])]
  /\ UNCHANGED registry

BuildDebugData(r) ==
  /\ Read(r, "idle")
  /\ reader' = [reader EXCEPT ![r] =
       [@ EXCEPT !.pc = "dump", !.dump = TRUE, !.todo = versions]]
  /\ UNCHANGED registry

DumpNext(r) ==
  /\ Read(r, "dump")
  /\ IF reader[r].todo = {}
     THEN reader' = [reader EXCEPT ![r] = Waiting]
     ELSE LET v == Min(reader[r].todo) IN
          reader' = [reader EXCEPT ![r] =
            [Request(r, registries[v]) EXCEPT !.todo = @ \ {v}]]
  /\ UNCHANGED registry

CachedDocs(r) ==
  LET at == registry[reader[r].of] IN
  /\ Read(r, "check")
  /\ reader' = [reader EXCEPT ![r] =
       IF ~at.dirty /\ at.cached # None
       THEN [@ EXCEPT !.pc = "answered", !.docs = at.cached]
       ELSE [@ EXCEPT !.pc = "copy"]]
  /\ UNCHANGED registry

GetDocs(r) ==
  /\ Read(r, "copy")
  /\ reader' = [reader EXCEPT ![r] =
       [@ EXCEPT !.pc = "assemble", !.docs = registry[reader[r].of].endpoints]]
  /\ UNCHANGED registry

(* The components are generated without the registry's lock; then: *)
StoreDocs(r) ==
  /\ Read(r, "assemble")
  /\ registry' = [registry EXCEPT ![reader[r].of] =
       [@ EXCEPT !.cached = reader[r].docs, !.dirty = FALSE]]
  /\ reader' = [reader EXCEPT ![r] = [@ EXCEPT !.pc = "answered"]]

Answer(r) ==
  /\ Read(r, "answered")
  /\ reader' = [reader EXCEPT ![r] =
       IF @.dump THEN [Waiting EXCEPT !.pc = "dump", !.dump = TRUE, !.todo = reader[r].todo]
                 ELSE Waiting]
  /\ UNCHANGED registry

Next ==
  \/ \E v \in Versions : \/ \E enabled \in BOOLEAN : RegisterVersion(v, enabled)
                         \/ RemoveVersion(v)
                         \/ SetDefaultVersion(v) \/ SetVersionRouteRegistrar(v)
  \/ \E docsOnly \in BOOLEAN : ValidateRouteRegistrars(docsOnly)
  \/ GetAllVersions \/ RegisterVersionRoutes \/ GetVersionRouter \/ AllRegistered
  \/ AddRoute \/ Document \/ Bind \/ BindRoute
  \/ \E r \in Readers : \/ \E v \in Versions : GetVersionOpenAPI(r, v)
                        \/ BuildDebugData(r) \/ DumpNext(r)
                        \/ CachedDocs(r) \/ GetDocs(r) \/ StoreDocs(r) \/ Answer(r)

Spec == Init /\ [][Next]_vars

-----------------------------------------------------------------------------

(* The maps of the manager agree: a version has a configuration exactly    *)
(* when it has a registry, its own and nobody else's, and only then may it *)
(* have a registrar; and every actor holds a registry that was made.       *)
TypeOK ==
  /\ versions \subseteq Versions
  /\ defaultVersion \in Versions \union {None}
  /\ \A v \in Versions : IF v \in versions THEN registries[v] \in DOMAIN registry
                                           ELSE registries[v] = None
  /\ \A v, w \in versions : registries[v] = registries[w] => v = w
  /\ routeRegistrars \subseteq versions
  /\ \A i \in DOMAIN registry :
       registry[i].endpoints \in [Keys -> {None, "open"} \union MiddlewareAuth \union HandlerAuth]
  /\ \A r \in Readers : reader[r].pc \notin {"idle", "dump"} => reader[r].of \in DOMAIN registry
  /\ overlapped \subseteq DOMAIN registry

(* Once the registrars were found complete, registering the routes can fail *)
(* only at a version that was removed or added while it ran: nothing else   *)
(* that happens to the manager leaves some versions served and others not.  *)
FailureNeedsChange ==
  serving.pc = "failed" => serving.version \in serving.touched

\* What is documented is in the handler's source or else is recognised in the middleware given,
\* and nothing there is recognised as more restrictive.
level(auth) == CHOOSE l \in 1..4 : hierarchy[l] = auth

SaysWhatIsAsked(auth, handler, given) ==
  LET recognised == {AuthOf[m] : m \in given} \ {None} IN
  \/ InHandler[handler] # None /\ auth = InHandler[handler]
  \/ /\ InHandler[handler] = None
     /\ IF recognised = {} THEN auth = "open"
        ELSE auth \in recognised /\ \A other \in recognised : level(other) <= level(auth)

(* When all routes are registered, a version that still has the registry it *)
(* was registered with answers every route with what of the middleware the  *)
(* router takes; and it documents none of them, if it is not enabled, or    *)
(* all, with the authentication that the handler or the middleware asks for *)
(* as far as the code recognises it, and as open only if it recognises none.*)
DocumentedAsServed ==
  serving.pc = "done" =>
    \A v \in versions : registries[v] = serving.used[v] =>
      \A i \in Calls :
        LET key == endpointKey(CRUD[i])
            given == IF CRUD[i].bound THEN Middleware ELSE {}
            by == registry[registries[v]] IN
        /\ served[v][key] = IF serving.docsOnly THEN None ELSE given \intersect Bindable
        /\ IF by.enabled THEN SaysWhatIsAsked(by.endpoints[key], CRUD[i].handler, given)
                         ELSE by.endpoints[key] = None

(* A document answers for everything that was registered when the request  *)
(* for it came in -- unless, some time before, an endpoint was registered  *)
(* while a document of the same registry was being assembled: that document*)
(* is stored over the invalidation and served until the next registration. *)
Covers(then, now) ==
  \A key \in Keys : /\ then[key] # None => now[key] # None
                    /\ then[key] \notin {None, "open"} => now[key] = then[key]
AnswersAreCurrent ==
  [][\A r \in Readers :
       reader[r].pc # "answered" /\ reader'[r].pc = "answered"
         /\ reader[r].of \notin overlapped => Covers(reader[r].since, reader'[r].docs)]_vars

(* What the registry says of its cache: it is invalidated whenever an      *)
(* endpoint is registered, so that a document held as clean is the current *)
(* one.                                                                    *)
CacheIsCurrent ==
  \A i \in DOMAIN registry :
    ~registry[i].dirty /\ registry[i].cached # None => registry[i].cached = registry[i].endpoints
=============================================================================
