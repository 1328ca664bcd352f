------------------------------- MODULE Router -------------------------------
(***************************************************************************)
(* The route table of fastudp/routing.py and the binding of a handler's    *)
(* parameters. Paths are sequences of characters; in a template, a         *)
(* parameter {name} is one element, its name. A call has its path, which   *)
(* ends where a "?" would be, and its query apart. Upper and lower case of *)
(* methods, and the quoting of query strings, are left out, and so are the *)
(* control characters urlsplit strips: Characters has none of them.        *)
(***************************************************************************)
EXTENDS SequencesExt

CONSTANTS
  Characters,        \* of paths
  Letters,           \* those a scheme begins with
  SchemeCharacters,  \* those it goes on with; ":" is none of them
  RejectedNetlocs,   \* urlsplit raises ValueError for these, as for //[
  Names,             \* of parameters
  Literals,          \* Literals["int"], Literals["float"]: what int() and float() take
  METHOD_CODES,      \* methods with a code of their own
  Signature          \* Signature[handler]: its parameters but for `request`

NamesIn(template) == {n \in Names : Contains(template, n)}

\* Mutant: a dot is not escaped.
CompileUnescaped(template) ==
  [i \in DOMAIN template |->
     IF template[i] \in Names THEN [takes |-> Characters \ {"/"}, many |-> TRUE]
     ELSE IF template[i] = "." THEN [takes |-> Characters, many |-> FALSE]
     ELSE [takes |-> {template[i]}, many |-> FALSE]]

\* _compile_path: [^/]+ for a parameter, the character itself for any other.
Compile(template) ==
  [i \in DOMAIN template |->
     IF template[i] \in Names THEN [takes |-> Characters \ {"/"}, many |-> TRUE]
     ELSE [takes |-> {template[i]}, many |-> FALSE]]

\* No ValueError, and no re.error for a group that is named twice.
Compiles(template) ==
  /\ template # <<>> /\ Head(template) = "/"
  /\ \A i, j \in DOMAIN template :
       (template[i] \in Names /\ template[i] = template[j]) => i = j

\* The places after an element of a regex that starts at j.
Stops(element, path, j) ==
  {k \in (j + 1) .. (Len(path) + 1) :
     /\ element.many \/ k = j + 1
     /\ \A n \in j .. (k - 1) : path[n] \in element.takes}

\* MatchesFrom(..)[i]: the places of the path from which the elements from i on match.
MatchesFrom(regex, path) ==
  LET m[i \in 1 .. Len(regex) + 1] ==
        IF i > Len(regex) THEN {Len(path) + 1}
        ELSE LET rest == m[i + 1]
             IN {j \in 1 .. Len(path) : Stops(regex[i], path, j) \cap rest # {}}
  IN m

\* re.fullmatch: whether, and where each element starts, longest first.
FullMatches(regex, path) == 1 \in MatchesFrom(regex, path)[1]

Starts(regex, path) ==
  LET m == MatchesFrom(regex, path)
      start[i \in 1 .. Len(regex) + 1] ==
        IF i = 1 THEN 1
        ELSE Max(Stops(regex[i - 1], path, start[i - 1]) \cap m[i])
  IN start

\* match.groupdict().
GroupDict(route, path) ==
  LET start == Starts(route.regex, path)
  IN [n \in NamesIn(route.template) |->
        LET i == CHOOSE i \in DOMAIN route.template : route.template[i] = n
        IN SubSeq(path, start[i], start[i + 1] - 1)]

\* RouteTable.add, once for each of the methods.
Add(routes, methods, template, handler) ==
  routes \o [i \in DOMAIN methods |->
    [method |-> methods[i], template |-> template, regex |-> Compile(template),
     handler |-> handler]]

Hits(routes, method, path) ==
  {i \in DOMAIN routes : routes[i].method = method /\ FullMatches(routes[i].regex, path)}

\* Mutant: the last registration wins.
MatchLast(routes, method, path) == Max(Hits(routes, method, path))

\* RouteTable.match: the first route of the method that matches, if any does.
Match(routes, method, path) == Min(Hits(routes, method, path))

\* The method on the wire: what has no code arrives as NONE.
MethodName(method) == IF method \in METHOD_CODES THEN method ELSE "NONE"

-----------------------------------------------------------------------------
(***************************************************************************)
(* split_path: urlsplit and parse_qs.                                      *)
(***************************************************************************)

\* The first place of one of the characters, or the one after the end.
First(characters, text) ==
  Min({i \in DOMAIN text : text[i] \in characters} \cup {Len(text) + 1})

\* urlsplit takes letters up to a colon for a scheme.
AfterScheme(path) ==
  LET colon == First({":"}, path)
  IN IF /\ colon \in 2 .. Len(path) /\ path[1] \in Letters
        /\ \A i \in 1 .. colon - 1 : path[i] \in SchemeCharacters
     THEN SubSeq(path, colon + 1, Len(path)) ELSE path

\* The netloc with its two slashes, which what begins with two slashes has.
Netloc(url) ==
  IF Len(url) >= 2 /\ url[1] = "/" /\ url[2] = "/"
  THEN SubSeq(url, 1, 1 + First({"/", "#"}, SubSeq(url, 3, Len(url))))
  ELSE <<>>

\* Whether urlsplit gives the call a path at all.
Splits(call) == Netloc(AfterScheme(call.path)) \notin RejectedNetlocs

\* The path between netloc and fragment, or "/" for none.
RoutePath(call) ==
  LET url == AfterScheme(call.path)
      path == SubSeq(url, Len(Netloc(url)) + 1, First({"#"}, url) - 1)
  IN IF path = <<>> THEN <<"/">> ELSE path

\* The last value of each name; behind a "#" there is no query.
QueryParams(call) ==
  [n \in {q.name : q \in {q \in Range(call.query) : ~ Contains(call.path, "#")}} |->
     LET last == Max({i \in DOMAIN call.query : call.query[i].name = n})
     IN call.query[last].value]

-----------------------------------------------------------------------------

\* Mutant: the query is asked before the path.
BindingsQueryFirst(path_params, query_params) == query_params @@ path_params

\* What build_handler_kwargs finds for a name: the path goes before the query.
Bindings(path_params, query_params) ==
  [n \in DOMAIN path_params \cup DOMAIN query_params |->
     IF n \in DOMAIN path_params THEN path_params[n] ELSE query_params[n]]

\* convert_param: int() and float() can fail, the other types take any text.
Converts(param, value) ==
  param.type \in DOMAIN Literals => value \in Literals[param.type]

\* _invoke_handler up to the call: ProtocolError or ValueError end in a 500. 200
\* stands for what the handler itself returns.
Invoke(handler, bindings) ==
  LET params == Signature[handler]
      bound == {p \in params : p.name \in DOMAIN bindings}
  IN IF \A p \in params : IF p \in bound THEN Converts(p, bindings[p.name]) ELSE p.default
     THEN [status |-> 200, handler |-> handler,
           kwargs |-> [n \in {p.name : p \in bound} |-> bindings[n]]]
     ELSE [status |-> 500, handler |-> handler, kwargs |-> <<>>]

\* What a call that splits comes to: _handle_request from the match on.
Outcome(routes, call) ==
  LET method == MethodName(call.method)
      path == RoutePath(call)
      hit == Match(routes, method, path)
  IN IF Hits(routes, method, path) = {}
     THEN [status |-> 404, handler |-> "none", kwargs |-> <<>>]
     ELSE Invoke(routes[hit].handler,
                 Bindings(GroupDict(routes[hit], path), QueryParams(call)))

-----------------------------------------------------------------------------
(***************************************************************************)
(* The same without a regex: a template fits a path that it becomes when   *)
(* its parameters are filled in. The path is what split_path leaves.       *)
(***************************************************************************)

Fill(template, values) ==
  FlattenSeq([i \in DOMAIN template |->
    IF template[i] \in Names THEN values[template[i]] ELSE <<template[i]>>])

\* What a parameter may stand for in a path.
Pieces(path) ==
  {SubSeq(path, i, j) : i, j \in DOMAIN path} \ {<<>>}

Values(template, path) ==
  {v \in [NamesIn(template) -> {p \in Pieces(path) : ~ Contains(p, "/")}] :
     Fill(template, v) = path}

Fitting(routes, call) ==
  {i \in DOMAIN routes :
     /\ routes[i].method = MethodName(call.method)
     /\ Values(routes[i].template, RoutePath(call)) # {}}

\* The answers a call may get from these routes.
RightAnswers(routes, call) ==
  IF Fitting(routes, call) = {}
  THEN {[status |-> 404, handler |-> "none", kwargs |-> <<>>]}
  ELSE LET first == routes[Min(Fitting(routes, call))]
       IN {Invoke(first.handler, [n \in DOMAIN QueryParams(call) \cup DOMAIN v |->
                    IF n \in DOMAIN v THEN v[n] ELSE QueryParams(call)[n]]) :
             v \in Values(first.template, RoutePath(call))}
=============================================================================
