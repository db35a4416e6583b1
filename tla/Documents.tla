----------------------------- MODULE Documents ------------------------------
(***************************************************************************)
(* From the sources of an application to its OpenAPI document: discovery   *)
(* and parsing of the files (ast.go, ast_file.go), registration of the     *)
(* routes (registry_routes.go, schema.go, discovery.go) and the assembly   *)
(* of the document with the components it refers to (registry_spec.go).    *)
(*                                                                         *)
(* program is the application: its files in the order filepath.Walk finds  *)
(* them, and its routes in the order they are registered.  A file has a    *)
(* directory, whether it carries API_SOURCE, structs, aliases, functions   *)
(* and the local directories it imports.  Directories are kept in Go maps: *)
(* the code visits them in any order.                                      *)
(***************************************************************************)
EXTENDS Handlers

CONSTANTS Programs,       \* the applications
          StripSuffix,    \* a handler's name without Handler, Func, API, Endpoint
          ResponseName    \* the component name derived from a handler's name

VARIABLES program, phase, parser, parsedDirs, pending, grew, routed, handlers, endpoints,
          paths, document

vars == <<program, phase, parser, parsedDirs, pending, grew, routed, handlers, endpoints,
          paths, document>>

NewASTParser == [structs |-> Empty, aliases |-> Empty, schemas |-> Empty,
                 funcReturnTypes |-> Empty, funcBodySchemas |-> Empty,
                 funcParamSchemas |-> Empty, handlers |-> Empty]

Files(P(_)) == SelectSeq(program.files, P)
ApiFiles == Files(LAMBDA f : f.api)
ApiDirs == {ApiFiles[i].dir : i \in DOMAIN ApiFiles}

Init == /\ program \in Programs
        /\ phase = "siblings"
        /\ parser = NewASTParser
        /\ parsedDirs = {}
        /\ pending = ApiDirs
        /\ grew = FALSE
        /\ routed = 0
        /\ handlers = Empty
        /\ endpoints = Empty
        /\ paths = Empty
        /\ document = Nil

-----------------------------------------------------------------------------
(***************************************************************************)
(* Discovery.                                                              *)
(***************************************************************************)
\* extractHelperParamsFromSiblingFiles, one directory: the helpers of its
\* files that are not API_SOURCE.
ScanSiblings(dir) ==
  LET siblings == Files(LAMBDA f : f.dir = dir /\ ~f.api /\ f.parses)
      scan(p, f) == FoldLeft(extractFuncReturnTypes, FoldLeft(extractHelperFuncParams, p, f.funcs),
                             f.funcs)
  IN /\ phase = "siblings" /\ dir \in pending
     /\ parser' = FoldLeft(scan, parser, siblings)
     /\ pending' = pending \ {dir}
     /\ phase' = IF pending' = {} THEN "files" ELSE phase
     /\ UNCHANGED <<program, parsedDirs, grew, routed, handlers, endpoints, paths, document>>

\* The order within a file: structs, result types, helpers, handlers.
parseFile(p, f) ==
  FoldLeft(extractHandlers,
    FoldLeft(extractHelperFuncParams,
      FoldLeft(extractFuncReturnTypes, extractStructs(p, f), f.funcs), f.funcs), f.funcs)

\* ParseFile over the API_SOURCE files in their order; one that does not
\* parse is reported and left out.
ParseFile ==
  LET f == ApiFiles[routed + 1]
      last == routed + 1 = Len(ApiFiles)
  IN /\ phase = "files"
     /\ parser' = IF f.parses THEN parseFile(parser, f) ELSE parser
     /\ parsedDirs' = IF f.parses THEN parsedDirs \cup {f.dir} ELSE parsedDirs
     /\ routed' = IF last THEN 0 ELSE routed + 1
     /\ phase' = IF last THEN "imports" ELSE phase
     /\ pending' = IF last
                   THEN UNION {ApiFiles[i].imports : i \in {j \in DOMAIN ApiFiles : ApiFiles[j].parses}}
                          \ parsedDirs'
                   ELSE {}
     /\ UNCHANGED <<program, grew, handlers, endpoints, paths, document>>

\* parseDirectoryStructs: the structs and aliases of an imported directory.
ParseDirectoryStructs(dir) ==
  /\ phase = "imports" /\ dir \in pending
  /\ parser' = FoldLeft(extractStructs, parser, Files(LAMBDA f : f.dir = dir /\ f.parses))
  /\ parsedDirs' = parsedDirs \cup {dir}
  /\ pending' = pending \ {dir}
  /\ grew' = (grew \/ Cardinality(DOMAIN parser'.structs) > Cardinality(DOMAIN parser.structs))
  /\ UNCHANGED <<program, phase, routed, handlers, endpoints, paths, document>>

\* The end of parseImportedPackages, after which handlers are looked up.
FinishImports ==
  /\ phase = "imports" /\ pending = {}
  /\ parser' = IF grew THEN extractStructs(parser, [structs |-> Empty, aliases |-> Empty])
               ELSE parser
  /\ handlers' = parser.handlers
  /\ phase' = "routes"
  /\ UNCHANGED <<program, parsedDirs, pending, grew, routed, endpoints, paths, document>>

-----------------------------------------------------------------------------
(***************************************************************************)
(* The schemas of a route whose handler tells none, by its path.           *)
(***************************************************************************)
generatePaginatedResponseSchema ==
  ObjectOf([k \in {"page", "perPage", "totalItems", "totalPages", "items"} |->
              IF k = "items" THEN ArrayOf(RecordRef) ELSE Schema("integer")])
generateRecordUpdateSchema == MapOf(True)
generateLoginRequestSchema ==
  ObjectOf([k \in {"identity", "password"} |-> Schema("string")])
generateAuthResponseSchema == ObjectOf([token |-> Schema("string"), record |-> RecordRef])

\* Of the patterns that match a path the first decides: the list of a
\* collection hides its creation, the update of a record its deletion.
getSchemaPatterns ==
  [records |-> [request |-> Nil, response |-> generatePaginatedResponseSchema],
   record  |-> [request |-> generateRecordUpdateSchema, response |-> RecordRef],
   login   |-> [request |-> generateLoginRequestSchema, response |-> generateAuthResponseSchema]]

AnalyzeRequestSchema(method, path) ==
  IF path.kind # "" THEN getSchemaPatterns[path.kind].request
  ELSE IF method \in {"POST", "PUT", "PATCH"} THEN ObjectOf([data |-> Schema("object")])
  ELSE Nil

AnalyzeResponseSchema(path) ==
  IF path.kind # "" THEN getSchemaPatterns[path.kind].response
  ELSE ObjectOf([data |-> Schema("object"), message |-> Schema("string")])

\* The most restrictive of the authentications the middlewares ask for.
Hierarchy == [guest_only |-> 1, auth |-> 2, superuser_or_owner |-> 3, superuser |-> 4]
detectAuthType(middlewares) ==
  LET asked == middlewares \cap DOMAIN Hierarchy
  IN IF asked = {} THEN ""
     ELSE CHOOSE a \in asked : \A b \in asked : Hierarchy[b] <= Hierarchy[a]

\* The endpoint of a route: what its middlewares and path say, replaced by
\* what is known of a handler of its name, with or without its suffix.
enhanceEndpointWithAST(route) ==
  LET names == SelectSeq(<<route.handler, StripSuffix[route.handler]>>,
                         LAMBDA n : n \in DOMAIN handlers)
      h == IF names = <<>> THEN [RequestSchema |-> Nil, ResponseSchema |-> Nil,
                                 Parameters |-> <<>>, auth |-> ""]
           ELSE handlers[names[1]]
  IN [method |-> route.method, path |-> route.path, handler |-> route.handler,
      Auth |-> IF h.auth # "" THEN h.auth ELSE detectAuthType(route.middlewares),
      Request |-> IF h.RequestSchema # Nil THEN h.RequestSchema
                  ELSE AnalyzeRequestSchema(route.method, route.path),
      Response |-> IF h.ResponseSchema # Nil THEN h.ResponseSchema
                   ELSE AnalyzeResponseSchema(route.path),
      Parameters |-> h.Parameters]

-----------------------------------------------------------------------------
(***************************************************************************)
(* Components.                                                             *)
(***************************************************************************)
\* What a handler answered before its schema was replaced by a reference.
original(h) == IF h.OriginalResponseSchema # Nil THEN h.OriginalResponseSchema
               ELSE h.ResponseSchema

Promoted(hs) == {n \in DOMAIN hs : original(hs[n]).ref = <<>> /\ isPromotableSchema(original(hs[n]))}

\* promoteHandlerResponseSchemas replaces the schema on the first call.
promoteHandlers(hs) ==
  [n \in DOMAIN hs |->
     IF n \in Promoted(hs)
     THEN [hs[n] EXCEPT !.OriginalResponseSchema = original(hs[n]),
                        !.ResponseSchema = Ref(<<ResponseName[n]>>)]
     ELSE hs[n]]

\* generateStructSchemas: the structs, then the handlers' responses, of
\* which owner takes each name's last one, then the two common schemas;
\* each replaces what had its name.
componentSchemas(hs, owner) ==
  LET own == [c \in DOMAIN owner |-> original(hs[owner[c]])]
  IN Over([Error |-> ErrorResponseSchema, PocketBaseRecord |-> PocketBaseRecordSchema],
          Over(own, parser.schemas))

\* The handlers whose schema may be the last under a name: a map's order.
Owners(hs) ==
  LET names == {ResponseName[n] : n \in Promoted(hs)}
  IN {o \in [names -> Promoted(hs)] : \A c \in names : ResponseName[o[c]] = c}

hasComponentSchema(hs, t) ==
  \/ Len(t) = 1 /\ t[1] \in {"Error", "PocketBaseRecord"}
  \/ IsStruct(parser, t)
  \/ Len(t) = 1 /\ t[1] \in {ResponseName[n] : n \in Promoted(hs)}

\* The schema of the answer 200: a reference in place of a structure, unless
\* no component has the name.
responseOf(e, hs) ==
  LET name == <<ResponseName[e.handler]>>
  IN IF e.Response.ref = <<>> /\ isPromotableSchema(e.Response) /\ hasComponentSchema(hs, name)
     THEN Ref(name) ELSE e.Response

endpointToOperation(e, hs) ==
  [parameters |-> {[name |-> n, source |-> "path"] : n \in e.path.params} \cup ToSet(e.Parameters),
   request |-> e.Request, response |-> responseOf(e, hs), secured |-> e.Auth # ""]

\* Paths are relative to the server URL, with an operation per method.
buildPaths(es, hs) ==
  LET at(doc) == {k \in DOMAIN es : es[k].path.doc = doc}
  IN [doc \in {es[k].path.doc : k \in DOMAIN es} |->
        [m \in {es[k].method : k \in at(doc)} |->
           endpointToOperation(es[CHOOSE k \in at(doc) : es[k].method = m], hs)]]

\* RegisterRoute: the endpoint under its method and path; every path is
\* built again, and the look at the components replaces the handlers'
\* schemas for the routes that follow.
RegisterRoute ==
  LET route == program.routes[routed + 1]
  IN /\ phase = "routes" /\ routed < Len(program.routes)
     /\ endpoints' = Bind(endpoints, <<route.method, route.path>>, enhanceEndpointWithAST(route))
     /\ handlers' = IF \E k \in DOMAIN endpoints' : \/ endpoints'[k].Response.ref # <<>>
                                                   \/ isPromotableSchema(endpoints'[k].Response)
                    THEN promoteHandlers(handlers) ELSE handlers
     /\ paths' = buildPaths(endpoints', handlers)
     /\ routed' = routed + 1
     /\ UNCHANGED <<program, phase, parser, parsedDirs, pending, grew, document>>

Operations == UNION {{paths[d][m] : m \in DOMAIN paths[d]} : d \in DOMAIN paths}

pathRefs(ps) == UNION {collectRefsFromSchema(o.request) \cup collectRefsFromSchema(o.response) :
                         o \in ps}

\* The names the document needs: what its operations refer to, and what the
\* components of those names refer to.
kept(components) == Reach(components, pathRefs(Operations), {})

\* GetDocsWithComponents: the paths, and the components they need.
Publish ==
  /\ phase = "routes" /\ routed = Len(program.routes)
  /\ \E owner \in Owners(handlers) :
       LET all == componentSchemas(handlers, owner)
           names == {n \in DOMAIN all : <<n>> \in kept(all)} \cup {"Error", "PocketBaseRecord"}
       IN document' = [paths |-> paths, schemas |-> [n \in names |-> all[n]]]
  /\ handlers' = promoteHandlers(handlers)
  /\ phase' = "published"
  /\ UNCHANGED <<program, parser, parsedDirs, pending, grew, routed, endpoints, paths>>

Published == phase = "published" /\ UNCHANGED vars

Next == \/ \E dir \in pending : ScanSiblings(dir) \/ ParseDirectoryStructs(dir)
        \/ ParseFile \/ FinishImports \/ RegisterRoute \/ Publish \/ Published

Spec == Init /\ [][Next]_vars

-----------------------------------------------------------------------------
(***************************************************************************)
(* What an application does, read from its functions as Go runs them.      *)
(***************************************************************************)
RECURSIVE GoFields(_, _)
AllStructs == FoldLeft(LAMBDA acc, f : Over(acc, f.structs), Empty, program.files)
AllAliases == FoldLeft(LAMBDA acc, f : Over(acc, f.aliases), Empty, program.files)
AllFuncs == UNION {{[func |-> program.files[i].funcs[j], file |-> i] :
                      j \in DOMAIN program.files[i].funcs} : i \in DOMAIN program.files}

\* The struct a type names, with or without a package; "" for none.
RECURSIVE StructOf(_, _)
StructOf(t, seen) ==
  CASE t = <<>> -> ""
    [] t # <<>> /\ Last(t) \in DOMAIN AllStructs -> Last(t)
    [] t # <<>> /\ Last(t) \in DOMAIN AllAliases \ seen ->
         StructOf(AllAliases[Last(t)], seen \cup {Last(t)})
    [] OTHER -> ""

\* The JSON names encoding/json writes for a struct, of any depth.
GoFields(name, depth) ==
  IF depth = 0 \/ name = "" THEN {}
  ELSE DOMAIN AllStructs[name].fields
         \cup UNION {GoFields(StructOf(AllStructs[name].embedded[i], {}), depth - 1) :
                       i \in DOMAIN AllStructs[name].embedded}

KeysOfType(t) == GoFields(StructOf(t, {}), 3)

\* The keys of the object that e is, or of the items of the list it is, when
\* env holds those of the variables.
RECURSIVE KeysIn(_, _), Outcome(_)
KeysIn(env, e) ==
  CASE e.k = "id" -> Lookup(env, e.n, {})
    [] e.k = "comp" /\ e.t = <<"map", "any">> -> {e.x[i].n : i \in DOMAIN e.x}
    [] e.k = "comp" /\ e.t # <<"map", "any">> -> KeysOfType(e.t)
    [] e.k = "addr" -> KeysIn(env, e.x[1])
    [] e.k = "call" /\ e.n = "append" -> KeysIn(env, e.x[1]) \cup KeysIn(env, e.x[2])
    [] e.k = "call" /\ e.n \in {g.func.name : g \in AllFuncs} ->
         LET g == CHOOSE a \in AllFuncs : a.func.name = e.n
         IN IF StructOf(g.func.result, {}) # "" THEN KeysOfType(g.func.result)
            ELSE Outcome(g.func).keys
    [] OTHER -> {}

\* What a body leaves: the keys of its variables, of what it returns or
\* answers last, and of what it takes from the request.
Outcome(f) ==
  LET set(env, lhs, rhs) ==
        IF lhs.k = "id" THEN Bind(env, lhs.n, KeysIn(env, rhs))
        ELSE IF lhs.x[2].k = "str"
        THEN Bind(env, lhs.x[1].n, Lookup(env, lhs.x[1].n, {}) \cup {lhs.x[2].n})
        ELSE Bind(env, lhs.x[1].n, KeysIn(env, rhs))
      step(acc, n) ==
        CASE n.k \in {"assign", "define"} -> [acc EXCEPT !.env = set(@, n.x[1], n.x[2])]
          [] n.k = "var" -> [acc EXCEPT !.env = Bind(@, n.n, KeysOfType(n.t))]
          [] n.k = "varstruct" -> [acc EXCEPT !.env = Bind(@, n.n, {g.n : g \in ToSet(n.x)})]
          [] n.k = "method" /\ n.n \in {"BindBody", "Decode"} ->
               [acc EXCEPT !.asked = KeysIn(acc.env, n.x[2])]
          [] n.k = "return" -> [acc EXCEPT !.keys = KeysIn(acc.env, n.x[1])]
          [] n.k = "method" /\ n.n = "JSON" -> [acc EXCEPT !.keys = KeysIn(acc.env, n.x[3])]
          [] OTHER -> acc
  IN FoldLeft(step, [env |-> Empty, keys |-> {}, asked |-> {}], Inspect(f.body))

\* The parameters f's own body reads when its parameter of type string is
\* name: what is looked up in a part of the request, or in a variable that is
\* given one somewhere in the body.
Reads(f, name) ==
  LET nodes == ToSet(Inspect(f.body))
      values(e) == {e} \cup {n.x[2] : n \in {m \in nodes : /\ m.k \in {"assign", "define"}
                                                         /\ m.x[1] = e}}
      info(e, field) == /\ e.k = "sel" /\ e.n = field
                        /\ \E v \in values(e.x[1]) : v.k = "method" /\ v.n = "RequestInfo"
      query(e) == \E v \in values(e) : v.k = "query" \/ info(v, "Query")
      header(e) == \E v \in values(e) : v.k \in {"header", "rheader"} \/ info(v, "Headers")
      asks(n, methods) == n.k = "index" \/ (n.k = "method" /\ n.n \in methods)
      called(n) == CASE n.x[2].k = "str" -> n.x[2].n
                     [] n.x[2].k = "id" /\ n.x[2].n \in f.strings -> name
      read(P(_), source) == {[name |-> called(n), source |-> source] : n \in {m \in nodes : P(m)}}
  IN read(LAMBDA n : asks(n, {"Get"}) /\ query(n.x[1]), "query")
       \cup read(LAMBDA n : asks(n, {"Get"}) /\ header(n.x[1]), "header")
       \cup read(LAMBDA n : n.k = "method" /\ n.n = "PathValue", "path")
       \cup read(LAMBDA n : n.k = "method" /\ n.n = "FormValue", "query")

Called(f) == {n \in ToSet(Inspect(f.body)) : n.k = "call"}
\* The helper a call reaches, when the parser has it before the handler.
InTime(a, call) ==
  {g \in AllFuncs : /\ g.func.name = call.n /\ g.func.event
                    /\ program.files[g.file].dir = program.files[a.file].dir
                    /\ program.files[g.file].parses
                    /\ ~program.files[g.file].api \/ g.file <= a.file}

ReadsWithHelpers(a) ==
  Reads(a.func, "") \cup
  UNION {UNION {Reads(g.func, IF Len(c.x) >= 2 THEN c.x[2].n ELSE "") : g \in InTime(a, c)} :
           c \in Called(a.func)}

-----------------------------------------------------------------------------
(***************************************************************************)
(* Properties.                                                             *)
(***************************************************************************)
\* The operation of a route, and the handler it is analysed as.
OperationOf(route) == document.paths[route.path.doc][route.method]
Analysed(route) == {a \in AllFuncs : a.func.name = route.handler /\ a.func.handler
                                       /\ program.files[a.file].api /\ program.files[a.file].parses}

\* Every reference in a schema, wherever it is.
RECURSIVE RefsIn(_)
RefsIn(s) == ToSet(s.ref) \cup UNION {RefsIn(s.props[k]) : k \in DOMAIN s.props}
               \cup UNION {RefsIn(sub) : sub \in ToSet(s.items \o s.addl)}

DocumentRefs == UNION {RefsIn(o.request) \cup RefsIn(o.response) : o \in Operations} \cup
                UNION {RefsIn(document.schemas[n]) : n \in DOMAIN document.schemas}

\* A name that is not merely one of a type the parser has not met.
Known(t) == t \in {<<n>> : n \in DOMAIN parser.structs \cup Range(ResponseName)
                                \cup {"Error", "PocketBaseRecord"}}

\* Pruning a document of the components it does not need never removes one
\* that it does, and a schema is replaced by a reference only when there is
\* a component for it: every reference in it is defined in it, but those to
\* types the parser has not met (GetDocsWithComponents,
\* promoteHandlerResponseSchemas, endpointToOperation).
NeededIsKept ==
  phase = "published" =>
    \A t \in DocumentRefs : Known(t) => t[1] \in DOMAIN document.schemas

\* No document holds a reference that it does not define (the comment of
\* endpointToOperation on its runtime safety).
RefsResolve ==
  phase = "published" => \A t \in DocumentRefs : t # <<>> /\ t[1] \in DOMAIN document.schemas

\* A component name that only one handler derives, and no struct has.
OwnName(handler) ==
  /\ \A n \in Promoted(handlers) \ {handler} : ResponseName[n] # ResponseName[handler]
  /\ ResponseName[handler] \notin DOMAIN parser.structs

\* The fields of the structs that are in no file the parser reads.
Unseen == UNION {DOMAIN AllStructs[s].fields : s \in DOMAIN AllStructs \ DOMAIN parser.structs}

RECURSIVE Documented(_)
Documented(schema) ==
  IF schema.ref # <<>>
  THEN IF schema.ref[1][1] \in DOMAIN document.schemas
       THEN Documented(document.schemas[schema.ref[1][1]]) ELSE {}
  ELSE IF schema.type = "array" THEN Documented(schema.items[1])
  ELSE DOMAIN schema.props \cup schema.req

\* The document does not say: it refers to a type the parser has not met,
\* or any key may come.
Open(schema) ==
  \/ schema.ref # <<>> /\ ~Known(schema.ref[1])
  \/ schema.addl # <<>> \/ (schema.type = "array" /\ schema.items[1].addl # <<>>)

\* Every key a handler answers last, and every key it takes from the body,
\* is in the document of its route, through the variables, helpers, structs,
\* promotions and components on the way (handleJSONResponse, handleBindBody
\* to GetDocsWithComponents): unless the component name it derives is also
\* another's, the field's struct is out of the parser's sight, or the schema
\* is open.
KeysDocumented ==
  phase = "published" =>
    \A i \in DOMAIN program.routes : \A a \in Analysed(program.routes[i]) :
      LET said(keys, schema) == Open(schema) \/ keys \ Unseen \subseteq Documented(schema)
          op == OperationOf(program.routes[i])
          does == Outcome(a.func)
      IN /\ OwnName(a.func.name) => said(does.keys, op.response)
         /\ said(does.asked, op.request)

\* Every parameter a handler reads, itself or through a helper the parser
\* met before it, is documented (extractQueryParameters and the phases of
\* DiscoverSourceFiles): unless the helper both names parameters and takes a
\* name.
ParamsDocumented ==
  phase = "published" =>
    \A i \in DOMAIN program.routes : \A a \in Analysed(program.routes[i]) :
      ReadsWithHelpers(a) \subseteq OperationOf(program.routes[i]).parameters

\* The published operation says what its handler does.
OperationsDocumented == KeysDocumented /\ ParamsDocumented
=============================================================================
