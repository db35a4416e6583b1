------------------------------ MODULE Schemas -------------------------------
(***************************************************************************)
(* How the source analysis of core/server/api turns Go types into OpenAPI  *)
(* schemas: type aliases, struct fields with their promotion, references   *)
(* to components, and the references a document holds.                     *)
(*                                                                         *)
(* A Go type is the sequence of its parts as extractTypeName writes them:  *)
(* []map[string]models.Order is <<"[]", "map", "models.", "Order">>, and   *)
(* <<>> is what it writes for a type it does not know (interface{}, func): *)
(* the empty string.  Pointers are dropped, as there.  A schema keeps what *)
(* the analysis reads back: its type, reference, properties, items, values *)
(* of other keys and required keys; examples, formats and texts are left   *)
(* out.  A parser p is a record of what ASTParser has collected.           *)
(***************************************************************************)
EXTENDS Naturals, Sequences, FiniteSets, SequencesExt

Qualifiers == {"models.", "time."}

Empty == [x \in {} |-> x]
Schema(type) == [type |-> type, ref |-> <<>>, props |-> Empty, items |-> <<>>,
                 addl |-> <<>>, req |-> {}]
Nil == Schema("nil")
True == Schema("true")                       \* additionalProperties: true
Ref(t) == [Schema("") EXCEPT !.ref = <<t>>]
ArrayOf(s) == [Schema("array") EXCEPT !.items = <<s>>]
MapOf(s) == [Schema("object") EXCEPT !.addl = <<s>>]
ObjectOf(props) == [Schema("object") EXCEPT !.props = props]

IsStruct(p, t) == Len(t) = 1 /\ t[1] \in DOMAIN p.structs
IsQualified(t) == \E i \in 1..Len(t) : t[i] \in Qualifiers
simpleName(t) == IF IsQualified(t) THEN <<Last(t)>> ELSE t

\* What a type name stands for after its aliases, and whether it was one.
RECURSIVE resolveTypeAlias(_, _, _)
resolveTypeAlias(p, t, visited) ==
  LET name == simpleName(t)
  IN IF t \in visited THEN [type |-> t, alias |-> FALSE]
     ELSE IF Len(name) = 1 /\ name[1] \in DOMAIN p.aliases
     THEN [type |-> resolveTypeAlias(p, p.aliases[name[1]], visited \cup {t}).type,
           alias |-> TRUE]
     ELSE [type |-> name, alias |-> FALSE]

Resolved(p, t) == resolveTypeAlias(p, t, {}).type

\* The types that are written in place; Nil is any other.
basicSchema(t) ==
  CASE t = <<"string">>                       -> Schema("string")
    [] t \in {<<"int">>, <<"int64">>}         -> Schema("integer")
    [] t = <<"float64">>                      -> Schema("number")
    [] t = <<"bool">>                         -> Schema("boolean")
    [] t \in {<<"time.", "Time">>, <<"Time">>} -> Schema("string")
    [] t \in {<<"any">>, <<"interface{}">>}   -> MapOf(True)
    [] OTHER                                  -> Nil

HasPrefix(t, part) == t # <<>> /\ t[1] = part
HoldsAny(t) == Tail(t) \in {<<>>, <<"any">>, <<"interface{}">>}

\* The schema of a type where it is used: structs, and every name that is
\* not known, become a reference.
RECURSIVE generateSchemaFromType(_, _)
generateSchemaFromType(p, t) ==
  LET r == resolveTypeAlias(p, t, {})
      use == IF r.alias THEN r.type ELSE t
  IN IF HasPrefix(t, "[]") THEN ArrayOf(generateSchemaFromType(p, Tail(t)))
     ELSE IF basicSchema(t) # Nil THEN basicSchema(t)
     ELSE IF basicSchema(use) # Nil THEN basicSchema(use)
     ELSE IF IsStruct(p, use) THEN Ref(use)
     ELSE IF HasPrefix(t, "map")
     THEN IF HoldsAny(t) THEN MapOf(True) ELSE MapOf(generateSchemaFromType(p, Tail(t)))
     ELSE Ref(simpleName(use))

\* The schema of a request or response type.
RECURSIVE generateSchemaForEndpoint(_, _)
generateSchemaForEndpoint(p, t) ==
  IF HasPrefix(t, "[]") THEN ArrayOf(generateSchemaForEndpoint(p, Tail(t)))
  ELSE IF IsStruct(p, Resolved(p, t)) THEN Ref(Resolved(p, t))
  ELSE generateSchemaFromType(p, t)

\* The schema of the type of a value in a handler: Nil when it is not known
\* yet, where generateSchemaFromType guesses a reference.
RECURSIVE resolveTypeToSchema(_, _)
resolveTypeToSchema(p, t) ==
  LET inner == resolveTypeToSchema(p, Tail(t))
  IN IF HasPrefix(t, "[]")
     THEN ArrayOf(IF inner = Nil THEN Schema("object") ELSE inner)
     ELSE IF HasPrefix(t, "map")
     THEN MapOf(IF HoldsAny(t) \/ inner = Nil THEN True ELSE inner)
     ELSE IF basicSchema(t) # Nil THEN basicSchema(t)
     ELSE IF IsStruct(p, Resolved(p, t)) THEN Ref(Resolved(p, t))
     ELSE Nil

-----------------------------------------------------------------------------
(***************************************************************************)
(* Structs.  A struct has fields, from JSON name to type, and the types it *)
(* embeds in their order.                                                  *)
(***************************************************************************)
Props(p, fields) == [f \in DOMAIN fields |-> generateSchemaFromType(p, fields[f])]

\* f, and g where f has no value.
Over(f, g) == [x \in DOMAIN f \cup DOMAIN g |-> IF x \in DOMAIN f THEN f[x] ELSE g[x]]

\* props with the fields of the embedded structs that it does not have yet:
\* the first one wins, an embedded struct before the ones after it, and
\* everything it embeds itself before them too.
RECURSIVE flattenEmbeddedFields(_, _, _)
flattenEmbeddedFields(p, embedded, props) ==
  LET s == p.structs[Resolved(p, embedded[1])[1]]
  IN IF embedded = <<>> THEN props
     ELSE flattenEmbeddedFields(p, Tail(embedded),
            IF IsStruct(p, Resolved(p, embedded[1]))
            THEN flattenEmbeddedFields(p, s.embedded, Over(props, Props(p, s.fields)))
            ELSE props)

generateStructSchema(p, s) ==
  ObjectOf(Over(Props(p, s.fields), flattenEmbeddedFields(p, s.embedded, Empty)))

\* extractStructs: the structs and aliases of a file join the parser, then
\* every schema is generated again, the ones of earlier files too.
extractStructs(p, file) ==
  LET q == [p EXCEPT !.structs = Over(file.structs, @), !.aliases = Over(file.aliases, @)]
  IN [q EXCEPT !.schemas = [s \in DOMAIN q.structs |-> generateStructSchema(q, q.structs[s])]]

-----------------------------------------------------------------------------
(***************************************************************************)
(* References between schemas.                                             *)
(***************************************************************************)
\* Mutant: the values of other keys are not searched.
RECURSIVE collectRefsNamed(_)
collectRefsNamed(s) ==
  ToSet(s.ref) \cup UNION {collectRefsNamed(s.props[k]) : k \in DOMAIN s.props}
    \cup UNION {collectRefsNamed(s.items[i]) : i \in DOMAIN s.items}

RECURSIVE collectRefsFromSchema(_)
collectRefsFromSchema(s) ==
  ToSet(s.ref) \cup UNION {collectRefsFromSchema(s.props[k]) : k \in DOMAIN s.props}
    \cup UNION {collectRefsFromSchema(s.items[i]) : i \in DOMAIN s.items}
    \cup UNION {collectRefsFromSchema(s.addl[i]) : i \in DOMAIN s.addl}

\* The pending list of GetDocsWithComponents: names are taken until no
\* component of theirs names another.
RECURSIVE Reach(_, _, _)
Reach(components, pending, resolved) ==
  LET found == resolved \cup pending
      next == UNION {collectRefsFromSchema(components[t[1]]) :
                       t \in {u \in pending : Len(u) = 1 /\ u[1] \in DOMAIN components}}
  IN IF pending \subseteq resolved THEN resolved
     ELSE Reach(components, next \ found, found)

\* A schema worth a component of its own.
isPromotableSchema(s) ==
  \/ s.type = "object" /\ DOMAIN s.props # {}
  \/ s.type = "array" /\ s.items # <<>>

ErrorResponseSchema ==
  ObjectOf([code |-> Schema("integer"), message |-> Schema("string"), data |-> Schema("object")])
PocketBaseRecordSchema ==
  ObjectOf([k \in {"id", "created", "updated"} |-> Schema("string")])
RecordRef == Ref(<<"PocketBaseRecord">>)
=============================================================================
