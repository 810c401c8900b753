----------------------------- MODULE RouteTrie ------------------------------
(***************************************************************************)
(* The route trie: RouteRegistry::Register and getHandler over Node and    *)
(* Trie (src/src/trie.cpp, src/src/RouteRegistry.cpp), with the calls of   *)
(* RoutingBase that register routes.                                       *)
(*                                                                         *)
(* A node is the path from the root to it: the method segment ("GET:")     *)
(* first, then literals, and Param for the one parameter child a node may  *)
(* have. Node::findFrom is recursive and binds parameters in one map that  *)
(* every level shares; here each level is a frame of a stack and each      *)
(* step of the recursion an action, so that every intermediate state of    *)
(* the map is a state. The level of a frame is the length of its node.     *)
(*                                                                         *)
(* Paths are taken after Utils::split, which drops empty segments, and     *)
(* start with "/", which keeps the method in a segment of its own.         *)
(***************************************************************************)
EXTENDS Naturals, Sequences, FiniteSetsExt

CONSTANTS
  Literals,   \* literal segments of the patterns
  Values,     \* texts a segment of a request can have
  Names,      \* parameter names, ":id" being the name id
  Param,      \* stands for the parameter child in the path of a node
  Patterns,   \* the patterns routes are registered with
  Verbs,      \* the registering calls made: "GET", "HEAD", "ALL", ...
  Requests,   \* [method, path]: the requests looked up
  MaxRoutes   \* bound: registrations made

Methods == {"GET", "POST", "PUT", "DELETE", "PATCH", "OPTIONS", "HEAD"}

ASSUME SegmentAssumption ==
  /\ Literals \subseteq Values
  /\ Names \cap (Values \cup Methods) = {}
  /\ Param \notin Values \cup Names \cup Methods
ASSUME InputAssumption ==
  /\ Patterns \subseteq Seq(Literals \cup Names)
  /\ Requests \subseteq [method : Methods, path : Seq(Values)]
  /\ Verbs \subseteq Methods \cup {"ALL"}
  /\ MaxRoutes \in Nat

VARIABLES
  nodes,    \* the nodes of the trie
  handler,  \* [nodes -> registration number], 0 for an empty std::function
  leaf,     \* the nodes with isLeaf, which only the dump of the wasm binding shows
  pname,    \* parameterName of each parameter node
  table,    \* history: the registrations in order, as in RouteTable
  request,  \* the request getHandler was called with, NoRequest when it is not
  stack,    \* the frames of findFrom, outermost first
  params,   \* the map findFrom binds parameters in
  answer    \* what getHandler left: the handler returned and req.params

trie == <<nodes, handler, leaf, pname, table>>
vars == <<trie, request, stack, params, answer>>

NoRequest == [method |-> "", path |-> <<>>]
NoParams  == <<>>
Miss      == [handler |-> 0, params |-> NoParams]

Root == <<>>

-----------------------------------------------------------------------------
(* Registering a route.                                                    *)

\* The methods a call of RoutingBase registers its handler under.
MethodsOf(verb) == CASE verb = "GET" -> {"GET", "HEAD"}
                     [] verb = "ALL" -> Methods
                     [] OTHER        -> {verb}

\* The node insertChild descends to, segment by segment, for "METHOD:/pattern".
NodeOf(method, pattern) ==
  <<method>> \o [i \in DOMAIN pattern |->
                   IF pattern[i] \in Names THEN Param ELSE pattern[i]]

\* Mutation: insertChild skips the nodes above the last two.
PathToSkip(node) == {SubSeq(node, 1, i) : i \in 2..Len(node)}

\* The nodes from the root to a node.
PathTo(node) == {SubSeq(node, 1, i) : i \in 0..Len(node)}

IsParam(node) == node # Root /\ node[Len(node)] = Param

Parent(node) == SubSeq(node, 1, Len(node) - 1)

\* Trie::insert under each method: the nodes missing on the way are created,
\* the last one gets the handler, in place of the one it may have had. A
\* parameter child that exists already keeps its name.
Insert(methods, pattern) ==
  LET Ends == {NodeOf(m, pattern) : m \in methods}
  IN  /\ request = NoRequest
      /\ Len(table) < MaxRoutes
      /\ table' = Append(table, [methods |-> methods, pattern |-> pattern])
      /\ nodes' = nodes \cup UNION {PathTo(n) : n \in Ends}
      /\ handler' = [n \in nodes' |-> IF n \in Ends THEN Len(table')
                                      ELSE IF n \in nodes THEN handler[n] ELSE 0]
      /\ leaf' = (leaf \ {Parent(n) : n \in nodes' \ nodes}) \cup Ends
      /\ pname' = [n \in {c \in nodes' : IsParam(c)} |->
                     IF n \in nodes THEN pname[n] ELSE pattern[Len(n) - 1]]
      /\ UNCHANGED <<request, stack, params, answer>>

Register(verb, pattern) == Insert(MethodsOf(verb), pattern)

-----------------------------------------------------------------------------
(* Looking a request up.                                                   *)

\* What Utils::split makes of "METHOD:/path".
Segments(r) == <<r.method>> \o r.path

Segment(node) == Segments(request)[Len(node) + 1]

Top == stack[Len(stack)]

\* A call of findFrom for a node; next is what it does next, had and saved are
\* its locals.
Frame(node) == [node |-> node, next |-> "literal", had |-> FALSE, saved |-> ""]

\* The caller's frame, about to do next, with a call for node above it.
Call(caller, node) ==
  stack' = Append([stack EXCEPT ![Len(stack)] = caller], Frame(node))

Bind(name, value) ==
  [n \in DOMAIN params \cup {name} |-> IF n = name THEN value ELSE params[n]]

Erase(name) == [n \in DOMAIN params \ {name} |-> params[n]]

\* findFrom returns nullptr to its caller; the outermost call to getHandler,
\* which then leaves req.params as it was.
ReturnNull ==
  /\ stack' = SubSeq(stack, 1, Len(stack) - 1)
  /\ request' = IF Len(stack) = 1 THEN NoRequest ELSE request
  /\ UNCHANGED answer

Lookup(r) ==
  /\ request = NoRequest
  /\ request' = r
  /\ stack' = <<Frame(Root)>>
  /\ params' = NoParams
  /\ answer' = Miss
  /\ UNCHANGED trie

AtEnd == Len(Top.node) = Len(Segments(request))

\* The node has a handler: every level returns it and getHandler stores the
\* parameters in the request.
Hit ==
  /\ request # NoRequest /\ AtEnd
  /\ handler[Top.node] # 0
  /\ answer' = [handler |-> handler[Top.node], params |-> params]
  /\ request' = NoRequest
  /\ stack' = <<>>
  /\ params' = NoParams
  /\ UNCHANGED trie

NoHandler ==
  /\ request # NoRequest /\ AtEnd
  /\ handler[Top.node] = 0
  /\ ReturnNull
  /\ UNCHANGED <<trie, params>>

\* Mutation: a literal child commits the search: no fall back to the parameter.
TryLiteralOnly ==
  LET child == Append(Top.node, Segment(Top.node))
  IN  /\ request # NoRequest /\ ~AtEnd
      /\ Top.next = "literal"
      /\ IF child \in nodes
           THEN stack' = [stack EXCEPT ![Len(stack)] = Frame(child)]
           ELSE stack' = [stack EXCEPT ![Len(stack)].next = "param"]
      /\ UNCHANGED <<trie, request, params, answer>>

TryLiteral ==
  LET child == Append(Top.node, Segment(Top.node))
  IN  /\ request # NoRequest /\ ~AtEnd
      /\ Top.next = "literal"
      /\ IF child \in nodes
           THEN Call([Top EXCEPT !.next = "param"], child)
           ELSE stack' = [stack EXCEPT ![Len(stack)].next = "param"]
      /\ UNCHANGED <<trie, request, params, answer>>

TryParam ==
  LET child == Append(Top.node, Param)
      name  == pname[child]
      had   == name \in DOMAIN params
  IN  /\ request # NoRequest /\ ~AtEnd
      /\ Top.next = "param"
      /\ child \in nodes
      /\ params' = Bind(name, Segment(Top.node))
      /\ Call([Top EXCEPT !.next = "undo", !.had = had,
                          !.saved = IF had THEN params[name] ELSE ""], child)
      /\ UNCHANGED <<trie, request, answer>>

NoParamChild ==
  /\ request # NoRequest /\ ~AtEnd
  /\ Top.next = "param"
  /\ Append(Top.node, Param) \notin nodes
  /\ ReturnNull
  /\ UNCHANGED <<trie, params>>

\* Mutation: the old value of a name bound twice is not put back.
UndoErases ==
  LET name == pname[Append(Top.node, Param)]
  IN  /\ request # NoRequest /\ ~AtEnd
      /\ Top.next = "undo"
      /\ params' = Erase(name)
      /\ ReturnNull
      /\ UNCHANGED trie

\* The call for the parameter child returned nullptr.
Undo ==
  LET name == pname[Append(Top.node, Param)]
  IN  /\ request # NoRequest /\ ~AtEnd
      /\ Top.next = "undo"
      /\ params' = IF Top.had THEN Bind(name, Top.saved) ELSE Erase(name)
      /\ ReturnNull
      /\ UNCHANGED trie

-----------------------------------------------------------------------------

Init ==
  /\ nodes = {Root}
  /\ handler = [n \in nodes |-> 0]
  /\ leaf = {Root}
  /\ pname = <<>>
  /\ table = <<>>
  /\ request = NoRequest
  /\ stack = <<>>
  /\ params = NoParams
  /\ answer = Miss

Search == Hit \/ NoHandler \/ TryLiteral \/ TryParam \/ NoParamChild \/ Undo

Next ==
  \/ \E verb \in Verbs, pattern \in Patterns : Register(verb, pattern)
  \/ \E r \in Requests : Lookup(r)
  \/ Search

\* A call of findFrom that started runs on: nothing it does can block.
Spec == Init /\ [][Next]_vars /\ WF_vars(Search)

-----------------------------------------------------------------------------
(* Properties.                                                             *)

Frames ==
  [node : nodes, next : {"literal", "param", "undo"}, had : BOOLEAN,
   saved : Values \cup {""}]

Maps == UNION {[D -> Values] : D \in SUBSET Names}

\* The state has its type; every registration has its node, in a tree that is
\* closed under prefixes (Node::insert).
TypeOK ==
  /\ table \in Seq([methods : SUBSET Methods, pattern : Patterns])
  /\ Root \in nodes
  /\ \A n \in nodes \ {Root} : Parent(n) \in nodes
  /\ handler \in [nodes -> 0..Len(table)]
  /\ leaf \subseteq nodes
  /\ pname \in [{n \in nodes : IsParam(n)} -> Names]
  /\ request \in Requests \cup {NoRequest}
  /\ stack \in Seq(Frames)
  /\ params \in Maps
  /\ answer \in [handler : 0..Len(table), params : Maps]

\* The frames that have bound a parameter and called for the parameter child.
Binders == {i \in 1..Len(stack) : stack[i].next = "undo"}

Bound(i) == pname[Append(stack[i].node, Param)]

\* During a lookup the stack is the path from the root to the node reached, each
\* step the literal or the parameter of the segment it stands for.
StackIsPath ==
  /\ stack # <<>> /\ stack[1].node = Root
  /\ \A i \in 1..(Len(stack) - 1) :
       stack[i + 1].node =
         Append(stack[i].node, IF i \in Binders THEN Param ELSE Segment(stack[i].node))

\* The map that the levels of findFrom share holds, at every moment of a lookup,
\* exactly the parameters of the path from the root to the node reached: no
\* binding of a branch given up stays, none that it replaced is lost
\* (trie.cpp:76-94, "a dead end cannot leave a stale param behind").
BindingsOfPath ==
  request # NoRequest =>
    /\ StackIsPath
    /\ params = [n \in {Bound(i) : i \in Binders} |->
                   Segments(request)[Max({i \in Binders : Bound(i) = n})]]

\* The abstract table: what a lookup answers is decided by the registrations
\* alone, whatever dead ends the search meets on its way (RouteRegistry.cpp:9-20).
Table == INSTANCE RouteTable
ImplementsTable == Table!Spec

-----------------------------------------------------------------------------
(* The inductive invariant behind the theorems of RouteTrieProofs.         *)

\* A node is a path of segments, the first of them a method.
NodeInv ==
  /\ nodes \subseteq Seq(Methods \cup Literals \cup {Param})
  /\ \A n \in nodes \ {Root} : n[1] \in Methods

\* The level of a frame is the length of its node; the frames below the top have
\* made their call, and who binds a parameter has a parameter child.
FrameInv ==
  /\ StackIsPath
  /\ \A i \in 1..Len(stack) :
       /\ Len(stack[i].node) = i - 1
       /\ i <= Len(Segments(request)) + 1
       /\ i < Len(stack) => stack[i].next # "literal"
  /\ \A i \in Binders : /\ Append(stack[i].node, Param) \in nodes
                        /\ i <= Len(Segments(request))

\* Frame i is the last of those below k that bind the name.
BoundLast(name, i, k) ==
  /\ i \in Binders /\ i < k /\ Bound(i) = name
  /\ \A j \in Binders : j < k /\ Bound(j) = name => j <= i

\* had and saved of a frame are what the map held when it bound its own value.
SavedInv ==
  \A k \in Binders :
    /\ stack[k].had <=> \E i \in Binders : i < k /\ Bound(i) = Bound(k)
    /\ stack[k].had =>
         \E i \in Binders : BoundLast(Bound(k), i, k) /\ stack[k].saved = Segments(request)[i]

\* The map, without saying that a last binder exists.
ParamsInv ==
  /\ DOMAIN params = {Bound(i) : i \in Binders}
  /\ \A name \in DOMAIN params :
       \E i \in Binders : /\ BoundLast(name, i, Len(stack) + 1)
                          /\ params[name] = Segments(request)[i]

SearchInv ==
  /\ request = NoRequest => stack = <<>>
  /\ request # NoRequest => FrameInv /\ SavedInv /\ ParamsInv

TrieInv == TypeOK /\ NodeInv /\ SearchInv

-----------------------------------------------------------------------------
(* What makes the trie an implementation of the table.                     *)

\* Registration i passed through the node, or stored its handler in it.
Through(i, node) == \E m \in table[i].methods : node \in PathTo(NodeOf(m, table[i].pattern))
EndsAt(i, node)  == \E m \in table[i].methods : node = NodeOf(m, table[i].pattern)

\* The trie is that of the registrations: their nodes and no others, in each the
\* handler of the last one that ends there, and the name that the first one through
\* it gave it.
TreeOfTable ==
  /\ \A n \in nodes \ {Root} : \E i \in 1..Len(table) : Through(i, n)
  /\ \A i \in 1..Len(table) : \A m \in table[i].methods :
       PathTo(NodeOf(m, table[i].pattern)) \subseteq nodes
  /\ \A n \in nodes :
       /\ handler[n] # 0 => EndsAt(handler[n], n)
       /\ \A i \in 1..Len(table) : EndsAt(i, n) => i <= handler[n]
  /\ \A n \in nodes : IsParam(n) =>
       \E i \in 1..Len(table) : /\ Through(i, n) /\ pname[n] = table[i].pattern[Len(n) - 1]
                                /\ \A j \in 1..Len(table) : Through(j, n) => i <= j

\* A node stands for the path of the request; it is the other one or below it.
Fits(node) ==
  /\ Len(node) = Len(Segments(request))
  /\ \A k \in 1..Len(node) : node[k] \in {Segments(request)[k], Param}
Below(node, other) ==
  /\ Len(other) <= Len(node)
  /\ \A k \in 1..Len(other) : node[k] = other[k]

\* No handler for the request is found from the node on.
Fruitless(node) == \A n \in nodes : Below(n, node) /\ Fits(n) => handler[n] = 0

\* What the frames tell of the search so far: the path to the top, and that the
\* literal child of a frame is fruitless when it has turned to the parameter.
SearchedInv ==
  /\ answer = Miss
  /\ \A i \in 1..Len(stack) : Below(Top.node, stack[i].node)
  /\ \A i \in 1..(Len(stack) - 1) :
       Top.node[i] = IF i \in Binders THEN Param ELSE Segments(request)[i]
  /\ \A i \in 1..Len(stack) :
       stack[i].next = "undo" \/ (i = Len(stack) /\ stack[i].next = "param") =>
         Fruitless(Append(stack[i].node, Segment(stack[i].node)))
  /\ Top.next = "undo" => Fruitless(Append(Top.node, Param))

ImplInv == TreeOfTable /\ (request # NoRequest => SearchedInv)

=============================================================================
