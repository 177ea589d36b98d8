----------------------------- MODULE HTTPRouter -----------------------------
(***************************************************************************)
(* core/router/http_router.go and radix_tree.go: routes are added, also    *)
(* while requests are served; a handler runs under the router's read lock. *)
(***************************************************************************)
EXTENDS Naturals, Sequences, FiniteSets

CONSTANTS
    Methods,
    Paths,      \* paths of requests; a route's path is one of them or a pattern
    Patterns,
    First,      \* [Paths \cup Patterns -> its first character]
    Matches,    \* [Patterns -> the paths its regular expression matches]
    Requests,
    Writers,    \* goroutines that call AddRoute and Use
    MaxRoutes   \* bound: calls of AddRouteWithMiddleware

VARIABLES
    routes,       \* r.routes
    middlewares,  \* r.middlewares
    trees,        \* r.methodTrees: per method, the children of the root, by first character
    writer,       \* what each writer does about the write lock
    request       \* what ServeHTTP does for each request

vars == <<routes, middlewares, trees, writer, request>>

RoutePaths == Paths \cup Patterns
Route == [method : Methods, path : RoutePaths, own : BOOLEAN]
NoRoute == [method |-> "none", path |-> "none", own |-> FALSE]
Outside == [stage |-> "outside"]
Served == [stage : {"serving"}, method : Methods, path : Paths, route : Route \cup {NoRoute},
           chain : {<<>>, <<"global">>, <<"route">>, <<"global", "route">>}]

TypeOK ==
    /\ routes \in Seq(Route) /\ Len(routes) <= MaxRoutes
    /\ middlewares \in 0..1
    /\ DOMAIN trees \subseteq Methods
    /\ \A m \in DOMAIN trees : \A c \in DOMAIN trees[m] : trees[m][c] \in RoutePaths
    /\ writer \in [Writers -> {"idle", "routing", "using"}]
    /\ \A r \in Requests : request[r] = Outside \/ request[r] \in Served

Init ==
    /\ routes = <<>> /\ middlewares = 0 /\ trees = <<>>
    /\ writer = [w \in Writers |-> "idle"]
    /\ request = [r \in Requests |-> Outside]
-----------------------------------------------------------------------------
NoReader == \A r \in Requests : request[r] = Outside
NoWriterWaits == \A w \in Writers : writer[w] = "idle"

Ask(w, what) ==
    /\ writer[w] = "idle" /\ writer' = [writer EXCEPT ![w] = what]
    /\ UNCHANGED <<routes, middlewares, trees, request>>

AskRoute(w) == Len(routes) < MaxRoutes /\ Ask(w, "routing")
AskUse(w) == middlewares = 0 /\ Ask(w, "using")

\* RadixTree.Insert: the root's prefix is empty, so that every path becomes a child
\* of the root, in the place of the child with the same first character.
Insert(tree, path) ==
    [c \in DOMAIN tree \cup {First[path]} |-> IF c = First[path] THEN path ELSE tree[c]]

\* own: the route has a middleware of its own.
AddRouteWithMiddleware(w, method, path, own) ==
    /\ writer[w] = "routing" /\ NoReader /\ Len(routes) < MaxRoutes
    /\ routes' = Append(routes, [method |-> method, path |-> path, own |-> own])
    /\ trees' = [m \in DOMAIN trees \cup {method} |->
                    IF m = method THEN Insert(IF m \in DOMAIN trees THEN trees[m] ELSE <<>>, path)
                    ELSE trees[m]]
    /\ writer' = [writer EXCEPT ![w] = "idle"]
    /\ UNCHANGED <<middlewares, request>>

Use(w) ==
    /\ writer[w] = "using" /\ NoReader
    /\ middlewares' = 1 /\ writer' = [writer EXCEPT ![w] = "idle"]
    /\ UNCHANGED <<routes, trees, request>>

Indices(method, paths) ==
    {i \in 1..Len(routes) : routes[i].method = method /\ routes[i].path \in paths}
Matching(path) == {p \in Patterns : path \in Matches[p]}
Earliest(S) == routes[CHOOSE i \in S : \A j \in S : i <= j]

\* Mutant: the route added last comes first.
MatchRouteLast(method, path) ==
    LET S == Indices(method, {path} \cup Matching(path))
    IN IF S = {} THEN NoRoute ELSE routes[CHOOSE i \in S : \A j \in S : i >= j]

\* The route with the request's very path, or the first pattern that matches.
MatchRoute(method, path) ==
    LET exact   == Indices(method, {path})
        pattern == Indices(method, Matching(path))
    IN IF exact # {} THEN Earliest(exact)
       ELSE IF pattern # {} THEN Earliest(pattern) ELSE NoRoute

\* RadixTree.Search never leaves the root: nothing of its empty prefix is common.
Search(method, path) == {}

\* The global middlewares are outermost.
BuildHandler(route) ==
    (IF middlewares = 1 THEN <<"global">> ELSE <<>>) \o (IF route.own THEN <<"route">> ELSE <<>>)

ServeHTTP(r, method, path) ==
    /\ request[r] = Outside /\ NoWriterWaits
    /\ LET route == MatchRoute(method, path) IN
        request' = [request EXCEPT ![r] =
            [stage |-> "serving", method |-> method, path |-> path, route |-> route,
             chain |-> IF route = NoRoute THEN <<>> ELSE BuildHandler(route)]]
    /\ UNCHANGED <<routes, middlewares, trees, writer>>

\* The handler returns, or panics and is recovered.
Return(r) ==
    /\ request[r] # Outside /\ request' = [request EXCEPT ![r] = Outside]
    /\ UNCHANGED <<routes, middlewares, trees, writer>>

Next ==
    \/ \E w \in Writers :
        \/ AskRoute(w) \/ AskUse(w) \/ Use(w)
        \/ \E m \in Methods, p \in RoutePaths, own \in BOOLEAN : AddRouteWithMiddleware(w, m, p, own)
    \/ \E r \in Requests :
        \/ \E m \in Methods, p \in Paths : ServeHTTP(r, m, p)
        \/ Return(r)
-----------------------------------------------------------------------------
(* A request that has an answer keeps it, whatever routes are added later: *)
(* only a route with the request's very path takes it over, once, from a   *)
(* pattern; and while a handler runs the routes are those it was chosen    *)
(* from.                                                                   *)
AnswersSettle ==
    [][ \A m \in Methods, p \in Paths :
            LET now == MatchRoute(m, p) IN
            /\ now # NoRoute /\ MatchRoute(m, p)' # now =>
                    now.path \in Patterns /\ MatchRoute(m, p)'.path = p
            /\ \A r \in Requests : request[r] # Outside =>
                    (request[r].method = m /\ request[r].path = p =>
                        request[r].route = MatchRoute(m, p)') ]_vars
=============================================================================
