------------------------------- MODULE Router -------------------------------
(***************************************************************************)
(* router.h, router.cc, cweb.h, cweb.cc and Context::Next: how routes,     *)
(* groups and middlewares are registered, and which handlers a request     *)
(* runs.  A path is a sequence of characters.  A handler names who        *)
(* registered it: 0 for the server, a group, or -1 for a route.  One that  *)
(* answers does not call Next.                                             *)
(***************************************************************************)
EXTENDS Integers, Sequences, SequencesExt, FiniteSets

CONSTANTS
  Methods, Patterns, GroupPrefixes,  \* what the program registers with
  Paths,                        \* what clients ask for
  MaxCalls                      \* bound of the calls that set the server up

\* A node with the empty pattern counts as one without a route.
ASSUME RouterAssumption == MaxCalls \in Nat /\ <<>> \notin Patterns \cup GroupPrefixes

VARIABLES
  tries,            \* roots_: [m \in Methods |-> the nodes of its Trie], the root first
  routes,           \* history: the calls of AddRouter, [method, pattern, group]
  global_handlers,  \* global_handlers_
  groups,           \* groups_: [prefix, middlewares]
  served            \* the last request: the handlers that ran, the node of its route

routervars == <<tries, routes, global_handlers, groups, served>>

-----------------------------------------------------------------------------
(* Split does not look at the character behind a delimiter.                  *)
SplitStep(q, i) ==
  LET c == q.text[i]
  IN  IF q.skip \/ c # "/" THEN [q EXCEPT !.skip = FALSE, !.part = Append(@, c)]
      ELSE [q EXCEPT !.skip = TRUE, !.parts = Append(@, q.part), !.part = <<>>]
ParsePattern(pattern) ==
  LET text == IF pattern # <<>> /\ pattern[1] = "/" THEN Tail(pattern) ELSE pattern
      q == FoldLeft(SplitStep, [text |-> text, skip |-> FALSE, parts |-> <<>>, part |-> <<>>], [i \in DOMAIN text |-> i])
  IN  Append(q.parts, q.part)
IsWild(part) == part # <<>> /\ part[1] = ":"

\* Node: pattern is the index of the route whose pattern and handler it has.
NewNode(part) == [part |-> part, wild |-> IsWild(part), children |-> <<>>, pattern |-> 0]
Fits(nodes, n, part) == nodes[n].part = part \/ nodes[n].wild
FindChildren(nodes, n, part) == SelectSeq(nodes[n].children, LAMBDA child : Fits(nodes, child, part))
\* Fault: a parameter shares the node of a literal that is there already.
FindChildAny(nodes, n, part) ==
  IF (nodes[n].children = <<>>) \/ (FindChildren(nodes, n, part) = <<>> /\ ~ IsWild(part)) THEN 0 ELSE nodes[n].children[1]
\* The first child that fits, a wild one too; 0 for none.
FindChild(nodes, n, part) == IF FindChildren(nodes, n, part) = <<>> THEN 0 ELSE FindChildren(nodes, n, part)[1]
Descend(q, part) ==
  LET child == FindChild(q.nodes, q.at, part)
      new == Len(q.nodes) + 1
  IN  IF child # 0 THEN [q EXCEPT !.at = child]
      ELSE [at |-> new, nodes |-> Append([q.nodes EXCEPT ![q.at].children = Append(@, new)], NewNode(part))]
Insert(nodes, pattern, route) ==
  LET q == FoldLeft(Descend, [nodes |-> nodes, at |-> 1], ParsePattern(pattern))
  IN  [q.nodes EXCEPT ![q.at].pattern = route]
\* Depth first, children in the order in which they came; 0 for nullptr.
Search(nodes, parts) ==
  LET search[high \in 0 .. Len(parts), n \in DOMAIN nodes] ==
        IF high = Len(parts) THEN (IF nodes[n].pattern = 0 THEN 0 ELSE n)
        ELSE FoldLeft(LAMBDA found, child : IF found # 0 THEN found ELSE search[high + 1, child],
                      0, FindChildren(nodes, n, parts[high + 1]))
  IN  search[0, 1]

-----------------------------------------------------------------------------
Calls == Len(routes) + Len(global_handlers)
         + FoldLeft(LAMBDA n, g : n + 1 + Len(g.middlewares), 0, groups)
SetUp == Calls < MaxCalls /\ served = [path |-> <<>>]
AddRouter(method, pattern, group) ==
  /\ tries' = [tries EXCEPT ![method] = Insert(@, pattern, Len(routes) + 1)]
  /\ routes' = Append(routes, [method |-> method, pattern |-> pattern, group |-> group])
\* Cweb::GET, POST, PUT, DELETE
Register(method, pattern) ==
  SetUp /\ AddRouter(method, pattern, 0) /\ UNCHANGED <<global_handlers, groups, served>>
RegisterInGroup(method, g, pattern) ==
  SetUp /\ AddRouter(method, groups[g].prefix \o pattern, g) /\ UNCHANGED <<global_handlers, groups, served>>
Use(passes) ==
  /\ SetUp /\ global_handlers' = Append(global_handlers, [passes |-> passes, of |-> 0, at |-> Len(global_handlers) + 1])
  /\ UNCHANGED <<tries, routes, groups, served>>
NewGroup(prefix) ==
  SetUp /\ groups' = Append(groups, [prefix |-> prefix, middlewares |-> <<>>]) /\ UNCHANGED <<tries, routes, global_handlers, served>>
UseInGroup(g, passes) ==
  /\ SetUp
  /\ groups' = [groups EXCEPT ![g].middlewares = Append(@, [passes |-> passes, of |-> g, at |-> Len(@) + 1])]
  /\ UNCHANGED <<tries, routes, global_handlers, served>>

-----------------------------------------------------------------------------
\* Fault: the middlewares of a group guard its prefix and nothing below it.
GuardsOnlyPrefix(group, path) == group.prefix = path
Guards(group, path) == IsPrefix(group.prefix, path)
Middlewares(path) ==
  global_handlers \o FlattenSeq([g \in DOMAIN groups |-> IF Guards(groups[g], path) THEN groups[g].middlewares ELSE <<>>])
Params(pattern, parts) ==
  LET node_parts == ParsePattern(pattern)
  IN  {<<Tail(node_parts[i]), parts[i]>> : i \in {j \in DOMAIN node_parts : IsWild(node_parts[j])}}
\* Next runs the handlers up to the first one that does not call it.
Ran(handlers) == SelectSeq([i \in DOMAIN handlers |-> [handler |-> handlers[i], reached |-> \A j \in 1 .. i - 1 : handlers[j].passes]],
                           LAMBDA h : h.reached)
\* serverHTTP, Handle and findRoute: what is not found is answered at once.
ServerHTTP(method, path) ==
  LET parts == ParsePattern(path)
      node == Search(tries[method], parts)
      route == tries[method][node].pattern
      handlers == Append(Middlewares(path), [passes |-> FALSE, of |-> -1, at |-> route])
  IN  IF node = 0 THEN [method |-> method, path |-> path, route |-> 0, ran |-> <<>>, params |-> {}]
      ELSE [method |-> method, path |-> path, route |-> route, ran |-> Ran(handlers),
            params |-> Params(routes[route].pattern, parts)]
Serve(method, path) ==
  /\ served = [path |-> <<>>]
  /\ \E s \in {ServerHTTP(method, path)} : served' = s
  /\ UNCHANGED <<tries, routes, global_handlers, groups>>

RouterInit ==
  /\ tries = [m \in Methods |-> <<NewNode(<<"/">>)>>] /\ routes = <<>> /\ global_handlers = <<>> /\ groups = <<>>
  /\ served = [path |-> <<>>]
RouterNext ==
  \/ \E method \in Methods, pattern \in Patterns : Register(method, pattern)
  \/ \E method \in Methods, pattern \in Patterns, g \in DOMAIN groups : RegisterInGroup(method, g, pattern)
  \/ \E passes \in BOOLEAN : Use(passes) \/ \E g \in DOMAIN groups : UseInGroup(g, passes)
  \/ \E prefix \in GroupPrefixes : NewGroup(prefix)
  \/ \E method \in Methods, path \in Paths : Serve(method, path)
RouterSpec == RouterInit /\ [][RouterNext]_routervars

-----------------------------------------------------------------------------
PartsOf(r) == ParsePattern(routes[r].pattern)
Matches(r, path) ==
  /\ Len(PartsOf(r)) = Len(ParsePattern(path)) /\ routes[r].method = served.method
  /\ \A i \in DOMAIN PartsOf(r) : IsWild(PartsOf(r)[i]) \/ PartsOf(r)[i] = ParsePattern(path)[i]
\* A literal part that was registered behind a parameter in the same place shares its node.
Shadowed == \E i, j \in DOMAIN routes : i < j /\ \E k \in DOMAIN PartsOf(i) \cap DOMAIN PartsOf(j) :
               IsWild(PartsOf(i)[k]) /\ ~ IsWild(PartsOf(j)[k])
(* A request that fits a registered pattern is never answered NOT FOUND, and  *)
(* where no literal was registered behind a parameter, its handler is that of *)
(* a pattern that it fits, with the parameters taken from its own path.       *)
RouteFits ==
  served.path # <<>> =>
    /\ (\E r \in DOMAIN routes : Matches(r, served.path)) => served.route # 0
    /\ served.route # 0 /\ ~ Shadowed =>
         /\ Matches(served.route, served.path)
         /\ \A p \in served.params : p[2] \in ToSet(ParsePattern(served.path))
(* The handler of a route that a group registered runs only after every      *)
(* middleware of the group let the request pass, in the order of Use: for a   *)
(* group whose prefix is an absolute path without parameters.                 *)
GuardsComeFirst ==
  served.path # <<>> =>
    \A i \in DOMAIN served.ran :
      LET ran == [k \in DOMAIN served.ran |-> served.ran[k].handler]
          g == IF ran[i].of = -1 THEN routes[ran[i].at].group ELSE 0
          before == SelectSeq(SubSeq(ran, 1, i - 1), LAMBDA h : h.of = g)
      IN  g # 0 /\ ~ Shadowed /\ groups[g].prefix[1] = "/" /\ ":" \notin ToSet(groups[g].prefix) =>
            before = groups[g].middlewares /\ \A h \in ToSet(before) : h.passes
=============================================================================
