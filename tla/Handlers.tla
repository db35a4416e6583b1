------------------------------ MODULE Handlers ------------------------------
(***************************************************************************)
(* The analysis of function bodies in core/server/api: what a handler is   *)
(* documented to read and to answer (ast_func.go, ast_metadata.go).        *)
(*                                                                         *)
(* A syntax node is [k, n, t, x]: kind, name or text, type, children.      *)
(*   str int float  a literal n            id       the identifier n       *)
(*   comp   a literal of type t            kv       its entry n: x[1]      *)
(*   addr star slice  &x[1], *x[1], x[1][:]  type   a type as an argument  *)
(*   call   n(x...)                        method   x[1].n(x[2]...)        *)
(*   sel    x[1].n                         index    x[1][x[2]]             *)
(*   query header request  e.Request.URL.Query(), e.Request.Header and     *)
(*          e.Request; rheader httpreq  r.Header and r, an *http.Request   *)
(*   assign x[1] = x[2]                    define   x[1] := x[2]           *)
(*   var    var n t = x...                 varstruct  var n struct, with a *)
(*          child per field: field (n, type t) or optfield (omitempty)     *)
(* A body is the sequence of its statements; blocks are flattened, as      *)
(* ast.Inspect walks into them.  Names the code tells apart by prefix or   *)
(* content are members of the sets below.                                  *)
(***************************************************************************)
EXTENDS Schemas

Node(k, n, t, x) == [k |-> k, n |-> n, t |-> t, x |-> x]
None == Node("none", "", <<>>, <<>>)

\* Every node below and including node, a parent before its children.
RECURSIVE Nodes(_)
Nodes(node) == <<node>> \o FlattenSeq([i \in DOMAIN node.x |-> Nodes(node.x[i])])
Inspect(body) == FlattenSeq([i \in DOMAIN body |-> Nodes(body[i])])

\* h with key x bound to v in its map field f, where f is one of h's maps.
Bind(f, x, v) == Over([y \in {x} |-> v], f)
Lookup(f, x, default) == IF x \in DOMAIN f THEN f[x] ELSE default

\* What is known of a function while its body is walked: the types and the
\* defining expressions of its variables, the keys added to its maps, what
\* is appended to its slices, the schemas of its anonymous structs; then
\* what it reads, answers and requires.
NewInfo == [Variables |-> Empty, VariableExprs |-> Empty, MapAdditions |-> Empty,
            SliceAppendExprs |-> Empty, AnonStructSchemas |-> Empty, RequestType |-> <<>>,
            RequestSchema |-> Nil, ResponseSchema |-> Nil, Parameters |-> <<>>, auth |-> ""]

-----------------------------------------------------------------------------
(***************************************************************************)
(* Types of expressions.  <<>> is no type.                                 *)
(***************************************************************************)
Getters == [GetString |-> <<"string">>, GetDateTime |-> <<"string">>, GetInt |-> <<"int">>,
            GetFloat |-> <<"float64">>, GetBool |-> <<"bool">>,
            FindRecordById |-> <<"Record">>, FindRecordsByFilter |-> <<"[]", "Record">>]
\* Identifiers whose suffix makes the code take them for a type.
TypeLike == {"LoginRequest", "LoginResponse"}

\* Functions whose name, without New, is taken for the type they return.
Constructors == [NewOrder |-> <<"Order">>]

\* extractTypeName of an expression that is not a type: only a name is one,
\* whether it names a type or a variable.
nameAsType(e) == IF e.k = "id" THEN <<e.n>> ELSE <<>>

inferTypeFromExpression(p, h, e) ==
  CASE e.k = "comp" -> e.t
    [] e.k = "addr" -> nameAsType(e.x[1])
    [] e.k = "id" -> IF e.n \in DOMAIN h.Variables THEN h.Variables[e.n]
                     ELSE IF e.n \in DOMAIN p.structs \cup TypeLike THEN <<e.n>> ELSE <<>>
    [] e.k = "call" -> IF e.n = "make" THEN e.x[1].t
                       ELSE Lookup(Constructors, e.n, Lookup(p.funcReturnTypes, e.n, <<>>))
    [] e.k = "method" -> Lookup(Getters, e.n, <<>>)
    [] e.k = "slice" -> <<"[]", "interface{}">>
    [] e.k = "index" -> LET t == Lookup(h.Variables, e.x[1].n, <<>>)
                        IN IF HasPrefix(t, "[]") THEN Tail(t) ELSE <<"interface{}">>
    [] OTHER -> <<>>

-----------------------------------------------------------------------------
(***************************************************************************)
(* Schemas of values.                                                      *)
(***************************************************************************)
RECURSIVE analyzeValueExpression(_, _, _), analyzeCompositeLitSchema(_, _, _)
RECURSIVE mergeMapAdditions(_, _, _, _)

Texts == {"error", "message", "description"}  \* keys that are never required

\* A map literal: a key whose value says nothing (nil) is required and has
\* no schema yet.
parseMapLiteral(p, h, lit) ==
  LET keys == {lit.x[i].n : i \in DOMAIN lit.x}
      value(k) == analyzeValueExpression(p, h, (CHOOSE kv \in ToSet(lit.x) : kv.n = k).x[1])
      known == {k \in keys : value(k) # Nil}
  IN [ObjectOf([k \in known |-> value(k)]) EXCEPT !.req = keys \ Texts]

analyzeCompositeLitSchema(p, h, lit) ==
  CASE lit.t = <<>> ->
         ObjectOf([k \in {e.n : e \in {f \in ToSet(lit.x) : f.k = "kv"}} |->
                     analyzeValueExpression(p, h, (CHOOSE e \in ToSet(lit.x) : e.n = k).x[1])])
    [] HasPrefix(lit.t, "map") -> parseMapLiteral(p, h, lit)
    [] HasPrefix(lit.t, "[]") ->
         IF Tail(lit.t) # <<>> THEN ArrayOf(generateSchemaForEndpoint(p, Tail(lit.t)))
         ELSE IF lit.x = <<>> \/ analyzeValueExpression(p, h, lit.x[1]) = Nil
         THEN ArrayOf(Schema("object")) ELSE ArrayOf(analyzeValueExpression(p, h, lit.x[1]))
    [] OTHER -> IF IsStruct(p, Resolved(p, lit.t)) THEN Ref(Resolved(p, lit.t))
                ELSE Schema("object")

\* Mutant: keys added to a map after its literal are not documented.
mergeNothing(p, h, schema, x) == schema

\* schema with the keys added to the map x, where the schema lacks them; an
\* object that has properties no longer allows any key.
mergeMapAdditions(p, h, schema, x) ==
  LET with(s, k, v) == IF k \in DOMAIN s.props \/ v = Nil THEN s
                       ELSE [s EXCEPT !.props = Bind(@, k, v)]
      closed(s) == IF DOMAIN s.props # {} /\ s.addl = <<True>>
                   THEN [s EXCEPT !.addl = <<>>] ELSE s
  IN FoldLeft(LAMBDA s, kv : closed(with(s, kv.n, analyzeValueExpression(p, h, kv.x[1]))),
              schema, Lookup(h.MapAdditions, x, <<>>))

\* An array of unknown items takes the schema of what is appended to it.
enrichArraySchemaFromAppend(p, h, schema, x) ==
  LET item == analyzeValueExpression(p, h, h.SliceAppendExprs[x])
  IN IF /\ schema.type = "array"
        /\ DOMAIN schema.items[1].props = {} /\ schema.items[1].ref = <<>>
        /\ x \in DOMAIN h.SliceAppendExprs
        /\ item.type # "string" /\ (DOMAIN item.props # {} \/ item.ref # <<>>)
     THEN [schema EXCEPT !.items = <<item>>] ELSE schema

inner(e) == IF e.k = "addr" THEN e.x[1] ELSE e

\* A variable: by the expression it was last given, else by its type, else
\* it is a string.
variableSchema(p, h, x) ==
  LET e == inner(Lookup(h.VariableExprs, x, None))
      traced == analyzeValueExpression(p, h, e)
      typed == resolveTypeToSchema(p, Lookup(h.Variables, x, <<>>))
      whole(s) == enrichArraySchemaFromAppend(p, h, mergeMapAdditions(p, h, s, x), x)
  IN IF e.k = "comp" THEN mergeMapAdditions(p, h, analyzeCompositeLitSchema(p, h, e), x)
     ELSE IF e # None /\ traced # Nil /\ traced.type # "string" THEN whole(traced)
     ELSE IF typed # Nil THEN whole(typed)
     ELSE Schema("string")

callSchema(p, f, args) ==
  LET made == resolveTypeToSchema(p, args[1].t)
      returned == resolveTypeToSchema(p, Lookup(p.funcReturnTypes, f, <<>>))
  IN CASE f = "len" -> Schema("integer")
       [] f = "make" -> IF made # Nil THEN made ELSE ArrayOf(Schema("object"))
       [] OTHER -> IF f \in DOMAIN p.funcBodySchemas THEN p.funcBodySchemas[f]
                   ELSE IF returned # Nil THEN returned ELSE Schema("string")

\* v["key"], where v holds what a known helper returned, and v[0].
indexSchema(p, h, base, key) ==
  LET e == Lookup(h.VariableExprs, base.n, None)
      body == Lookup(p.funcBodySchemas, e.n, Nil)
      t == Lookup(h.Variables, base.n, <<>>)
      elem == resolveTypeToSchema(p, Tail(t))
  IN IF key.k = "str" /\ e.k = "call" /\ key.n \in DOMAIN body.props THEN body.props[key.n]
     ELSE IF key.k = "int" /\ HasPrefix(t, "[]") /\ elem # Nil THEN elem
     ELSE Schema("string")

\* v.Field, where v has a struct type; otherwise the name decides.
fieldSchema(p, h, v, field) ==
  LET t == Lookup(h.Variables, v.n, <<>>)
      s == IF HasPrefix(t, "[]") THEN Tail(t) ELSE t
  IN IF v.k = "id" /\ IsStruct(p, s) /\ field \in DOMAIN p.structs[s[1]].fields
     THEN resolveTypeToSchema(p, p.structs[s[1]].fields[field])
     ELSE IF field = "Count" THEN Schema("integer") ELSE Schema("string")

analyzeValueExpression(p, h, e) ==
  CASE e.k = "int" -> Schema("integer")
    [] e.k = "float" -> Schema("number")
    [] e.k = "id" -> IF e.n \in {"true", "false"} THEN Schema("boolean")
                     ELSE IF e.n = "nil" THEN Nil ELSE variableSchema(p, h, e.n)
    [] e.k = "comp" -> analyzeCompositeLitSchema(p, h, e)
    [] e.k \in {"addr", "star"} -> analyzeValueExpression(p, h, e.x[1])
    [] e.k = "method" ->
         CASE e.n = "GetBool" -> Schema("boolean")
           [] e.n \in {"GetInt", "Unix"} -> Schema("integer")
           [] e.n = "GetFloat" -> Schema("number")
           [] OTHER -> Schema("string")
    [] e.k = "call" -> callSchema(p, e.n, e.x)
    [] e.k = "index" -> indexSchema(p, h, e.x[1], e.x[2])
    [] e.k = "sel" -> fieldSchema(p, h, e.x[1], e.n)
    [] OTHER -> Schema("string")

-----------------------------------------------------------------------------
(***************************************************************************)
(* The walk over a body.                                                   *)
(***************************************************************************)
trackVariableAssignment(p, h, lhs, rhs) ==
  LET x == IF lhs.k = "id" THEN lhs.n ELSE lhs.x[1].n
      type == inferTypeFromExpression(p, h, rhs)
      appends == rhs.k = "call" /\ rhs.n = "append" /\ Len(rhs.x) = 2 /\ rhs.x[1] = lhs
  IN CASE lhs.k = "id" ->
            [h EXCEPT !.Variables = IF type # <<>> THEN Bind(@, x, type) ELSE @,
                      !.VariableExprs = Bind(@, x, rhs),
                      !.SliceAppendExprs = IF appends THEN Bind(@, x, rhs.x[2]) ELSE @]
       [] lhs.k = "index" /\ lhs.x[2].k = "str" ->
            [h EXCEPT !.MapAdditions =
                        Bind(@, x, Append(Lookup(@, x, <<>>),
                                          Node("kv", lhs.x[2].n, <<>>, <<rhs>>)))]
       [] lhs.k = "index" /\ lhs.x[2].k # "str" ->
            [h EXCEPT !.SliceAppendExprs =
                        IF Lookup(h.Variables, x, <<>>) = <<"[]", "map", "any">>
                        THEN Over(@, Bind(Empty, x, rhs)) ELSE @]
       [] OTHER -> h

\* The schema of a struct without a name: a type that is not known yet is a
\* string.
parseAnonStructType(p, fields) ==
  LET type(f) == resolveTypeToSchema(p, (CHOOSE g \in ToSet(fields) : g.n = f).t)
      names == {fields[i].n : i \in DOMAIN fields}
  IN [ObjectOf([f \in names |-> IF type(f) = Nil THEN Schema("string") ELSE type(f)])
        EXCEPT !.req = {g.n : g \in {f \in ToSet(fields) : f.k = "field"}}]

extractVarDecl(p, h, node) ==
  LET inferred == IF node.x = <<>> THEN <<>> ELSE inferTypeFromExpression(p, h, node.x[1])
      type == IF node.t # <<>> THEN node.t ELSE inferred
  IN IF node.k = "varstruct"
     THEN [h EXCEPT !.AnonStructSchemas = Bind(@, node.n, parseAnonStructType(p, node.x))]
     ELSE [h EXCEPT !.Variables = IF type # <<>> THEN Bind(@, node.n, type) ELSE @,
                    !.VariableExprs = IF node.x # <<>> THEN Bind(@, node.n, node.x[1]) ELSE @]

\* e.BindBody(&x): the request has the type of x, or its anonymous schema.
handleBindBody(h, arg) ==
  LET x == arg.x[1].n
  IN IF arg.k # "addr" THEN h
     ELSE IF x \in DOMAIN h.Variables THEN [h EXCEPT !.RequestType = h.Variables[x]]
     ELSE IF x \in DOMAIN h.AnonStructSchemas
     THEN [h EXCEPT !.RequestSchema = h.AnonStructSchemas[x]]
     ELSE h

handleJSONDecode(p, h, arg) ==
  LET t == Lookup(h.Variables, arg.x[1].n, <<>>)
  IN IF arg.k # "addr" \/ t = <<>> THEN h
     ELSE [h EXCEPT !.RequestType = t, !.RequestSchema = generateSchemaForEndpoint(p, t)]

\* e.JSON(status, x): the schema of the literal x is or was given, else of
\* its value when that has a structure, else of its type, else any object.
\* A later call replaces what an earlier one left.
handleJSONResponse(p, h, data) ==
  LET arg == inner(data)
      traced == IF arg.k = "id" THEN inner(Lookup(h.VariableExprs, arg.n, None)) ELSE None
      candidates == SelectSeq(<<arg, traced>>, LAMBDA e : e # None)
      value == [e \in {arg, traced} |-> analyzeValueExpression(p, h, e)]
      type == [e \in {arg, traced} |-> inferTypeFromExpression(p, h, e)]
      known == SelectSeq(candidates, LAMBDA e : e.k = "comp")
               \o SelectSeq(candidates, LAMBDA e :
                              /\ value[e].type # "string"
                              /\ DOMAIN value[e].props # {} \/ value[e].items # <<>>)
      typed == SelectSeq(candidates, LAMBDA e : type[e] # <<>>)
      merged(s) == IF arg.k = "id" THEN mergeMapAdditions(p, h, s, arg.n) ELSE s
  IN [h EXCEPT !.ResponseSchema =
        IF known # <<>> THEN merged(value[known[1]])
        ELSE IF typed # <<>> THEN generateSchemaForEndpoint(p, type[typed[1]])
        ELSE MapOf(True)]

Auths == [RequireAuth |-> "user_auth", RequireAdminAuth |-> "admin_auth",
          RequireRecordAuth |-> "record_auth"]

analyzePocketBaseCall(p, h, call) ==
  CASE call.n = "BindBody" -> handleBindBody(h, call.x[2])
    [] call.n = "JSON" -> handleJSONResponse(p, h, call.x[3])
    [] call.n = "Decode" -> handleJSONDecode(p, h, call.x[2])
    [] call.n \in DOMAIN Auths -> [h EXCEPT !.auth = Auths[call.n]]
    [] OTHER -> h

analyzePocketBasePatterns(p, h, node) ==
  CASE node.k = "method" -> analyzePocketBaseCall(p, h, node)
    [] node.k \in {"assign", "define"} -> trackVariableAssignment(p, h, node.x[1], node.x[2])
    [] node.k \in {"var", "varstruct"} -> extractVarDecl(p, h, node)
    [] OTHER -> h

-----------------------------------------------------------------------------
(***************************************************************************)
(* Parameters.  One is [name, source]; the name "" stands for the name a   *)
(* generic helper is given by its caller.                                  *)
(***************************************************************************)
appendParamIfNew(params, q) == IF q \in ToSet(params) THEN params ELSE Append(params, q)

\* The parameters node reads in the function f, where qs hold a query and
\* infos a RequestInfo.  A name that is a parameter of f, and an
\* http.Request, are only looked for in helpers.
paramsAt(f, node, qs, infos) ==
  LET recv == node.x[1]
      arg == node.x[2]
      literal == arg.k = "str"
      generic == arg.k = "id" /\ arg.n \in f.strings /\ ~f.handler
      is(n) == node.k = "method" /\ node.n = n
      held == recv.k = "id" /\ recv.n \in qs
      query == recv.k = "query" \/ held
      headers == recv.k = "header" \/ (recv.k = "rheader" /\ literal /\ ~f.handler)
      request == recv.k = "request" \/ (recv.k = "httpreq" /\ ~f.handler)
      info(field) == recv.k = "sel" /\ recv.n = field /\ recv.x[1].n \in infos
      param(source) == <<[name |-> IF literal THEN arg.n ELSE "", source |-> source]>>
  IN CASE is("Get") /\ (literal \/ generic) /\ query -> param("query")
       [] is("Get") /\ (literal \/ generic) /\ headers -> param("header")
       [] is("PathValue") /\ literal -> param("path")
       [] is("FormValue") /\ literal /\ request -> param("query")
       [] node.k = "index" /\ literal /\ (held \/ info("Query")) -> param("query")
       [] node.k = "index" /\ literal /\ info("Headers") -> param("header")
       [] OTHER -> <<>>

extractParamsFromBody(f) ==
  LET isSet(node) == node.k \in {"assign", "define"} /\ node.x[1].k = "id"
      visit(acc, node) ==
        CASE isSet(node) /\ node.x[2].k = "query" -> [acc EXCEPT !.qs = @ \cup {node.x[1].n}]
          [] isSet(node) /\ node.x[2].n = "RequestInfo" ->
               [acc EXCEPT !.infos = @ \cup {node.x[1].n}]
          [] node.k \in {"method", "index"} ->
               [acc EXCEPT !.params =
                  FoldLeft(appendParamIfNew, @, paramsAt(f, node, acc.qs, acc.infos))]
          [] OTHER -> acc
  IN FoldLeft(visit, [qs |-> {}, infos |-> {}, params |-> <<>>], Inspect(f.body)).params

\* What a call of a known helper adds: the names the helper reads, or, when
\* it reads only the name it is given, the literal in the second argument.
helperParams(p, call) ==
  LET known == Lookup(p.funcParamSchemas, call.n, <<>>)
      args == IF call.k = "method" THEN Tail(call.x) ELSE call.x
      literal == SelectSeq(known, LAMBDA q : q.name # "")
      generic == SelectSeq(known, LAMBDA q : q.name = "")
      source == IF generic = <<>> THEN "query" ELSE Last(generic).source
  IN IF literal # <<>> THEN literal
     ELSE IF known # <<>> /\ Len(args) >= 2 /\ args[2].k = "str"
     THEN <<[name |-> args[2].n, source |-> source]>>
     ELSE <<>>

extractQueryParameters(p, f) ==
  LET calls == SelectSeq(Inspect(f.body), LAMBDA node : node.k \in {"call", "method"})
      inherited == FlattenSeq([i \in DOMAIN calls |-> helperParams(p, calls[i])])
  IN FoldLeft(appendParamIfNew, extractParamsFromBody(f), inherited)

-----------------------------------------------------------------------------
(***************************************************************************)
(* The functions of a file.  f has a name, whether it has the signature of *)
(* a handler, whether it takes the event or the request, its parameters of *)
(* type string, its result and its body.                                   *)
(***************************************************************************)
\* The map literal of a helper with the most keys, with the keys added to
\* the variable it is assigned to.
analyzeHelperFuncBody(p, f) ==
  LET nodes == Inspect(f.body)
      size(s) == Cardinality(DOMAIN s.props) + Cardinality(s.req)
      variable(lit) == LET sets == SelectSeq(nodes, LAMBDA n : /\ n.k \in {"assign", "define"}
                                                               /\ n.x[1].k = "id"
                                                               /\ n.x[2] = lit)
                       IN IF sets = <<>> THEN "" ELSE sets[1].x[1].n
      larger(best, m) == IF size(m.schema) > size(best.schema) THEN m ELSE best
      best(maps) == FoldLeft(larger, [schema |-> Nil, var |-> ""], maps)
      whole(s) == IF HasPrefix(f.result, "[]") THEN ArrayOf(s) ELSE s
      visit(acc, n) ==
        CASE n.k \in {"assign", "define"} ->
               [acc EXCEPT !.h = trackVariableAssignment(p, @, n.x[1], n.x[2])]
          [] n.k = "comp" /\ n.t = <<"map", "any">> ->
               [acc EXCEPT !.maps = Append(@, [schema |-> parseMapLiteral(p, acc.h, n),
                                               var |-> variable(n)])]
          [] n = None ->
               LET m == best(acc.maps)
               IN IF m.schema = Nil THEN Nil
                  ELSE whole(mergeMapAdditions(p, acc.h, m.schema, m.var))
          [] OTHER -> acc
  IN FoldLeft(visit, [h |-> NewInfo, maps |-> <<>>], Append(nodes, None))

\* What a function's signature and body tell its callers.
extractFuncReturnTypes(p, f) ==
  LET q == [p EXCEPT !.funcReturnTypes = Bind(@, f.name, f.result)]
      body == analyzeHelperFuncBody(q, f)
      isMap == f.result \in {<<"map", "any">>, <<"[]", "map", "any">>}
  IN IF f.handler \/ f.result = <<>> THEN p
     ELSE [q EXCEPT !.funcBodySchemas =
             IF isMap /\ body # Nil THEN Bind(@, f.name, body) ELSE @]

extractHelperFuncParams(p, f) ==
  LET params == extractParamsFromBody(f)
      stored == IF params # <<>> THEN params
                ELSE IF f.strings # {} THEN <<[name |-> "", source |-> "query"]>> ELSE <<>>
  IN IF f.handler \/ ~f.event \/ stored = <<>> THEN p
     ELSE [p EXCEPT !.funcParamSchemas = Bind(@, f.name, stored)]

\* A handler's walk, which None ends.
analyzePocketBaseHandler(p, f) ==
  FoldLeft(LAMBDA h, node :
             IF node # None THEN analyzePocketBasePatterns(p, h, node)
             ELSE [RequestSchema |-> IF h.RequestType = <<>> THEN h.RequestSchema
                                     ELSE generateSchemaForEndpoint(p, h.RequestType),
                   ResponseSchema |-> h.ResponseSchema, OriginalResponseSchema |-> Nil,
                   Parameters |-> extractQueryParameters(p, f), auth |-> h.auth],
           NewInfo, Append(Inspect(f.body), None))

extractHandlers(p, f) ==
  IF f.handler THEN [p EXCEPT !.handlers = Bind(@, f.name, analyzePocketBaseHandler(p, f))] ELSE p
=============================================================================
