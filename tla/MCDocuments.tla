---------------------------- MODULE MCDocuments -----------------------------
EXTENDS Documents

(***************************************************************************)
(* Applications of three packages: api, with the handlers of two files     *)
(* and helpers of a third, models and base.                                *)
(***************************************************************************)
Id(x) == Node("id", x, <<>>, <<>>)
Str(x) == Node("str", x, <<>>, <<>>)
Num == Node("int", "0", <<>>, <<>>)
KV(k, v) == Node("kv", k, <<>>, <<v>>)
Map(kvs) == Node("comp", "", <<"map", "any">>, kvs)
Comp(t) == Node("comp", "", t, <<>>)
Addr(e) == Node("addr", "", <<>>, <<e>>)
Call(f, args) == Node("call", f, <<>>, args)
Make(t) == Call("make", <<Node("type", "", t, <<>>)>>)
Method(x, m, args) == Node("method", m, <<>>, <<x>> \o args)
Define(x, e) == Node("define", "", <<>>, <<Id(x), e>>)
At(x, i) == Node("index", "", <<>>, <<x, i>>)
Set(x, k, e) == Node("assign", "", <<>>, <<At(Id(x), Str(k)), e>>)
SetAt(x, e) == Node("assign", "", <<>>, <<At(Id(x), Num), e>>)
Sel(x, f) == Node("sel", f, <<>>, <<Id(x)>>)
Assign(x, e) == Node("assign", "", <<>>, <<Id(x), e>>)
Var(x, t) == Node("var", x, t, <<>>)
Return(e) == Node("return", "", <<>>, <<e>>)
JSON(e) == Method(Id("e"), "JSON", <<Num, e>>)
Query == Node("query", "", <<>>, <<>>)
Header == Node("header", "", <<>>, <<>>)

Handler(name, body) == [name |-> name, handler |-> TRUE, event |-> TRUE, strings |-> {},
                        result |-> <<>>, body |-> body]
Helper(name, event, strings, result, body) ==
  [name |-> name, handler |-> FALSE, event |-> event, strings |-> strings,
   result |-> result, body |-> body]
File(dir, api, structs, aliases, funcs, imports) ==
  [dir |-> dir, api |-> api, parses |-> TRUE, structs |-> structs, aliases |-> aliases,
   funcs |-> funcs, imports |-> imports]
Struct(fields, embedded) == [fields |-> fields, embedded |-> embedded]
Path(doc, params, kind) == [doc |-> doc, params |-> params, kind |-> kind]
Route(method, path, handler, mws) ==
  [method |-> method, path |-> path, handler |-> handler, middlewares |-> mws]

\* How listHandler answers.
Lists ==
  { <<JSON(Map(<<KV("items", Id("nil")), KV("total", Call("len", <<Id("rows")>>))>>))>>,
    <<Define("m", Map(<<KV("a", Num)>>)), Set("m", "b", Method(Id("r"), "GetInt", <<Str("b")>>)),
      JSON(Id("m"))>>,
    <<Define("m", Make(<<"map", "any">>)), Set("m", "b", Str("x")), JSON(Id("m"))>>,
    <<Define("m", Call("format", <<Id("r")>>)), Set("m", "c", Num), JSON(Id("m"))>>,
    <<Define("o", Comp(<<"Order">>)), JSON(Addr(Id("o")))>>,
    <<Define("o", Comp(<<"[]", "models.", "Order">>)), JSON(Id("o"))>>,
    <<Var("o", <<"Orders">>), JSON(Id("o"))>>,
    <<Define("o", Call("NewOrder", <<>>)), JSON(Id("o"))>>,
    <<Define("rows", Make(<<"[]", "map", "any">>)),
      Assign("rows", Call("append", <<Id("rows"), Map(<<KV("a", Num)>>)>>)), JSON(Id("rows"))>>,
    <<Define("rows", Make(<<"[]", "map", "any">>)), SetAt("rows", Map(<<KV("a", Num)>>)),
      Define("out", Map(<<KV("rows", Id("rows"))>>)), JSON(Id("out"))>>,
    <<Define("o", Comp(<<"Order">>)), Define("m", Call("format", <<Id("r")>>)),
      Define("rows", Make(<<"[]", "map", "any">>)), Define("first", At(Id("rows"), Num)),
      Define("few", Node("slice", "", <<>>, <<Id("rows")>>)),
      JSON(Map(<<KV("a", Sel("o", "id")), KV("b", At(Id("m"), Str("b"))), KV("c", Id("few")),
                 KV("d", Node("star", "", <<>>, <<Id("o")>>)), KV("e", Id("first")),
                 KV("f", Node("float", "1.5", <<>>, <<>>)), KV("message", Sel("first", "Count"))>>))>> }

\* What listHandler reads.
Asks ==
  { <<Define("q", Query), Method(Id("q"), "Get", <<Str("sort")>>),
      Define("page", Call("intParam", <<Id("e"), Str("page"), Num>>))>>,
    <<Define("info", Method(Id("e"), "RequestInfo", <<>>)),
      Define("s", At(Node("sel", "Query", <<>>, <<Id("info")>>), Str("s"))),
      Method(Header, "Get", <<Str("etag")>>), Call("times", <<Id("e")>>)>>,
    <<Method(Node("request", "", <<>>, <<>>), "PathValue", <<Str("id")>>),
      Method(Node("request", "", <<>>, <<>>), "FormValue", <<Str("f")>>),
      Call("agent", <<Node("request", "", <<>>, <<>>)>>),
      Define("q", Query), At(Id("q"), Str("all")), Define("info", Method(Id("e"), "RequestInfo", <<>>)),
      At(Node("sel", "Headers", <<>>, <<Id("info")>>), Str("agent"))>> }

\* How createHandler takes its input.
Inputs ==
  { <<Var("in", <<"Order">>), Method(Id("e"), "BindBody", <<Addr(Id("in"))>>)>>,
    <<Var("in", <<"models.", "Line">>), Method(Id("d"), "Decode", <<Addr(Id("in"))>>)>>,
    <<Node("varstruct", "in", <<>>, <<Node("field", "sku", <<"string">>, <<>>),
                                      Node("optfield", "line", <<"Line">>, <<>>)>>),
      Method(Id("e"), "BindBody", <<Addr(Id("in"))>>)>> }

\* Where the helpers of the handlers are: in the file, beside it, or in the
\* API_SOURCE file that comes after it.
Places == {"same", "sibling", "later"}

helpers ==
  << Helper("intParam", TRUE, {"name"}, <<"int">>,
            <<Return(Method(Query, "Get", <<Id("name")>>))>>),
     Helper("times", TRUE, {}, <<"string">>,
            <<Define("q", Query), Method(Id("q"), "Get", <<Str("from")>>),
              Method(Header, "Get", <<Str("zone")>>)>>),
     Helper("agent", TRUE, {}, <<"string">>,
            <<Method(Node("httpreq", "", <<>>, <<>>), "FormValue", <<Str("lang")>>),
              Return(Method(Node("rheader", "", <<>>, <<>>), "Get", <<Str("host")>>))>>),
     Helper("NewOrder", FALSE, {}, <<"Order">>, <<Return(Addr(Comp(<<"Order">>)))>>),
     Helper("format", FALSE, {}, <<"map", "any">>,
            <<Define("x", Map(<<KV("a", Id("nil")), KV("b", Num)>>)),
              Set("x", "d", Str("x")), Return(Id("x"))>>) >>

create(input) ==
  Handler("createHandler",
    input \o <<Method(Id("e"), "RequireAuth", <<>>), JSON(Map(<<KV("id", Id("e")), KV("ok", Id("true"))>>))>>)
detail == Handler("detail", <<JSON(Map(<<KV("one", Num)>>))>>)

\* Whether the embedded struct of Order is in a package that is imported.
application(list, asks, input, place, imports) ==
  LET main == Handler("listHandler", asks \o list)
      extra(p) == IF place = p THEN helpers ELSE <<>>
      order == [Order |-> Struct([id |-> <<"string">>, lines |-> <<"[]", "models.", "Line">>],
                                 <<<<"models.", "Base">>>>)]
      line == [Line |-> Struct([sku |-> <<"string">>, tags |-> <<"map", "Tag">>], <<>>)]
  IN [files |->
        << File("api", TRUE, order, [Orders |-> <<"[]", "Order">>], extra("same") \o <<main>>,
                {"models", "base"} \cap imports),
           File("api", FALSE, Empty, Empty, extra("sibling"), {}),
           File("api", TRUE, Empty, Empty, extra("later") \o <<create(input), detail>>, {"models"}),
           File("base", FALSE, [Tag |-> Struct([name |-> <<"string">>], <<>>)], Empty, <<>>, {}),
           File("models", FALSE,
                Over(line, [Base |-> Struct([created |-> <<"Time">>, id |-> <<"int">>], <<>>)]),
                Empty, <<>>, {}) >>,
      routes |->
        << Route("GET", Path("/orders", {}, ""), "listHandler", {"auth"}),
           Route("POST", Path("/orders", {}, ""), "createHandler", {}),
           Route("GET", Path("/orders/{id}", {"id"}, ""), "detailHandler", {"guest_only"}),
           Route("GET", Path("/records", {}, "records"), "proxyHandler", {}),
           Route("PATCH", Path("/records/{id}", {"id"}, "record"), "proxyHandler", {"auth"}),
           Route("POST", Path("/login", {}, "login"), "proxyHandler", {}),
           Route("POST", Path("/hook", {}, ""), "proxyHandler", {"superuser", "auth"}) >>]

MCPrograms ==
  {application(l, a, b, p, i) :
     l \in Lists, a \in Asks, b \in Inputs, p \in Places, i \in {{}, {"models", "base"}}}

MCStripSuffix == [listHandler |-> "list", createHandler |-> "create", detail |-> "detail",
                  detailHandler |-> "detail", proxyHandler |-> "proxy"]
MCResponseName == [listHandler |-> "ListResponse", createHandler |-> "CreateResponse",
                   detail |-> "DetailResponse", detailHandler |-> "DetailResponse",
                   proxyHandler |-> "ProxyResponse"]
=============================================================================
