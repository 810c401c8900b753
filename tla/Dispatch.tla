------------------------------ MODULE Dispatch ------------------------------
(***************************************************************************)
(* How a request reaches its handler: the middleware of the server, the    *)
(* routers mounted on it, the routers mounted on those, and the routes     *)
(* (HttpServer::handleRequest and use, RoutingBase, Router).               *)
(*                                                                         *)
(* A middleware is a function that may call next(), and next() calls the   *)
(* rest of the chain: the rest runs inside it, on the same HttpRequest,    *)
(* whose path a mounted router rewrites. The stack holds the middleware    *)
(* that wait for their next() to return and, on top, what runs now. Calls  *)
(* with nothing left to do after them replace their frame.                 *)
(*                                                                         *)
(* A path is a sequence of characters, since a prefix may end inside a     *)
(* segment; paths have no empty segment. A registry is the set of paths it *)
(* has a route for: RouteTrie models the lookup. One router is mounted on  *)
(* the server, any number of times, and may itself have a second mounted   *)
(* on it; middleware call next() at most once.                             *)
(***************************************************************************)
EXTENDS Naturals, SequencesExt

CONSTANTS
  Server, Router, SubRouter,
  Paths,       \* paths requested and registered
  Scopes,    \* prefixes middleware are scoped to, <<>> for no prefix
  MountPaths,  \* paths given to use() for mounting, as written
  MaxUses,     \* bound: calls of use()
  MaxRoutes    \* bound: paths a registry has a route for

Owners == {Server, Router, SubRouter}

Slash == <<"/">>

ASSUME DispatchAssumption ==
  /\ Server # Router /\ Server # SubRouter /\ Router # SubRouter
  /\ Owners \cap {"mw", "stop", "threw", "404"} = {}
  /\ \A p \in Paths \cup Scopes \cup MountPaths : p \in Seq(Range(p))
  /\ \A p \in Paths : p # <<>> /\ p[1] = "/"
  /\ MaxUses \in Nat /\ MaxRoutes \in Nat

\* A registry splits a path at its slashes and ignores empty segments, so a path
\* stands for itself only if it has none before its end.
ASSUME SegmentAssumption ==
  \A p \in Paths : \A i \in 1..Len(p) - 1 : p[i] # "/" \/ p[i + 1] # "/"

VARIABLES
  queue,     \* RouteRegistry::queue of each owner
  routes,    \* the paths each registry has a route for
  uses,      \* calls of use() so far; numbers the entries
  received,  \* history: the path of the request as it came in
  path,      \* req.path
  stack,     \* frames, <<>> between requests
  ran        \* history: what ran for this request, in order

config == <<queue, routes, uses>>
vars   == <<config, received, path, stack, ran>>

-----------------------------------------------------------------------------
(* Paths.                                                                  *)

\* HttpServer::use and Router::normalizePath: "a/" and "/a" both become "/a".
Normalized(p) ==
  IF p = <<>> \/ p = Slash THEN Slash
  ELSE LET q == IF p[1] = "/" THEN p ELSE Slash \o p
       IN  IF Len(q) > 1 /\ Last(q) = "/" THEN Front(q) ELSE q

\* The rest of p after a prefix of that length, with a leading slash.
After(p, length) ==
  LET rest == SubSeq(p, length + 1, Len(p))
  IN  IF rest = <<>> \/ rest[1] # "/" THEN Slash \o rest ELSE rest

\* The server matches a mount point on a segment boundary.
Covers(mount, p) ==
  mount = Slash \/ p = mount \/ IsPrefix(mount \o Slash, p)

Relative(mount, p) == IF mount = Slash THEN p ELSE After(p, Len(mount))

\* A router takes any path that starts with the mount path of its sub-router.
SubCovers(mount, p) == IsPrefix(mount, p)

-----------------------------------------------------------------------------
(* Registering.                                                            *)

Idle == stack = <<>>

\* The last request is gone.
Forget == received' = <<>> /\ path' = <<>> /\ ran' = <<>>

Entry(kind, prefix, mws) ==
  [kind |-> kind, id |-> uses + 1, prefix |-> prefix, mws |-> mws]

Enqueue(owner, entry) ==
  /\ Idle /\ uses < MaxUses
  /\ queue' = [queue EXCEPT ![owner] = Append(@, entry)]
  /\ uses' = uses + 1
  /\ Forget
  /\ UNCHANGED <<routes, stack>>

\* use(mw), or use(prefix, mw), which skips mw for other paths.
UseMiddleware(owner, prefix) == Enqueue(owner, Entry("mw", prefix, <<>>))

\* Mutation: getMiddlewares() leaves the router's own middleware out.
UseRouterBare(p) == Enqueue(Server, Entry("mount", Normalized(p), <<>>))

\* app.use(path, router) copies the middleware the router has now.
UseRouter(p) == Enqueue(Server, Entry("mount", Normalized(p), queue[Router]))

\* router.use(path, subRouter) keeps a reference to it.
UseSubRouter(p) == Enqueue(Router, Entry("sub", Normalized(p), <<>>))

AddRoute(owner, p) ==
  /\ Idle
  /\ Cardinality(routes[owner]) < MaxRoutes
  /\ routes' = [routes EXCEPT ![owner] = @ \cup {p}]
  /\ Forget
  /\ UNCHANGED <<queue, uses, stack>>

-----------------------------------------------------------------------------
(* Dispatching.                                                            *)

\* A place in the server's chain, or in the chain of the router mounted by the
\* server's entry mount, called with the server's path original.
Frame(chain, index, mount, original) ==
  [chain |-> chain, index |-> index, mount |-> mount, original |-> original,
   next |-> "not called", at |-> <<>>]

ServerFrame(index) == Frame(Server, index, 0, <<>>)

Top == stack[Len(stack)]

Mount == queue[Server][Top.mount]

\* The entries of the chain a frame is in.
ChainOf(f) == IF f.chain = Server THEN queue[Server] ELSE queue[Server][f.mount].mws

\* Mutation: a mounted router is asked for its middleware on every request.
ChainLive == IF Top.chain = Server THEN queue[Server] ELSE queue[Router]

Chain == ChainOf(Top)

Current == Chain[Top.index]

HasEntry(kind) == ~Idle /\ Top.index <= Len(Chain) /\ Current.kind = kind

NextFrame == Frame(Top.chain, Top.index + 1, Top.mount, Top.original)

Goto(frame) == stack' = Append(Front(stack), frame)

Return == stack' = Front(stack)

Event(who, id) ==
  [who |-> who, id |-> id, path |-> path, mount |-> IF Top.chain = Server THEN 0 ELSE Mount.id]

\* A handler returns, or throws and leaves handleRequest() with all that waits.
Answered == Return \/ stack' = <<>>

Log(event) == ran' = Append(ran, event)

Receive(p) ==
  /\ Idle
  /\ received' = p
  /\ path' = p
  /\ stack' = <<ServerFrame(1)>>
  /\ ran' = <<>>
  /\ UNCHANGED config

Skip ==
  /\ HasEntry("mw") /\ Top.next = "not called"
  /\ ~IsPrefix(Current.prefix, path)
  /\ Goto(NextFrame)
  /\ UNCHANGED <<config, received, path, ran>>

\* A middleware that calls next(): the rest of the chain runs inside the call.
CallNext ==
  /\ HasEntry("mw") /\ Top.next = "not called"
  /\ IsPrefix(Current.prefix, path)
  /\ Log(Event("mw", Current.id))
  /\ stack' = Append(Append(Front(stack), [Top EXCEPT !.next = "called", !.at = path]), NextFrame)
  /\ UNCHANGED <<config, received, path>>

\* A middleware that answers by itself, or does nothing.
Stop ==
  /\ HasEntry("mw") /\ Top.next = "not called"
  /\ IsPrefix(Current.prefix, path)
  /\ Log(Event("stop", Current.id))
  /\ Return
  /\ UNCHANGED <<config, received, path>>

\* next() has returned to the middleware, which returns too.
NextReturned ==
  /\ HasEntry("mw") /\ Top.next = "called"
  /\ Return
  /\ UNCHANGED <<config, received, path, ran>>

\* A middleware throws, before or after it called next().
Throw ==
  /\ HasEntry("mw")
  /\ Top.next = "called" \/ IsPrefix(Current.prefix, path)
  /\ stack' = <<>>
  /\ Log(Event("threw", Current.id))
  /\ UNCHANGED <<config, received, path>>

PassBy ==
  /\ HasEntry("mount")
  /\ ~Covers(Current.prefix, path)
  /\ Goto(NextFrame)
  /\ UNCHANGED <<config, received, path, ran>>

EnterRouter ==
  /\ HasEntry("mount")
  /\ Covers(Current.prefix, path)
  /\ path' = Relative(Current.prefix, path)
  /\ Goto(Frame(Router, 1, Top.index, path))
  /\ UNCHANGED <<config, received, ran>>

\* Mutation: the sub-router is asked for the path of the router it is mounted on.
TrySubRouterWhole ==
  /\ HasEntry("sub")
  /\ IF SubCovers(Current.prefix, path) /\ path \in routes[SubRouter]
       THEN Log(Event(SubRouter, Current.id)) /\ Answered
       ELSE Goto(NextFrame) /\ UNCHANGED ran
  /\ UNCHANGED <<config, received, path>>

\* The sub-router's routes are tried on its relative path, which is undone
\* whether one matches or not.
TrySubRouter ==
  LET relative == After(path, Len(Current.prefix))
  IN  /\ HasEntry("sub")
      /\ IF SubCovers(Current.prefix, path) /\ relative \in routes[SubRouter]
           THEN /\ Log([Event(SubRouter, Current.id) EXCEPT !.path = relative])
                /\ Answered
           ELSE /\ Goto(NextFrame)
                /\ UNCHANGED ran
      /\ UNCHANGED <<config, received, path>>

\* Mutation: next() is called whether or not the router had a route.
TryRouterGoesOn ==
  /\ ~Idle /\ Top.chain = Router /\ Top.index = Len(Chain) + 1
  /\ IF path \in routes[Router] THEN Log(Event(Router, Mount.id)) ELSE UNCHANGED ran
  /\ Goto(NextFrame)
  /\ UNCHANGED <<config, received, path>>

\* The last middleware of a router looks its routes up and calls next() if none
\* matches.
InRouter == ~Idle /\ Top.chain = Router

TryRouter ==
  /\ InRouter /\ Top.index = Len(Chain) + 1
  /\ IF path \in routes[Router]
       THEN Log(Event(Router, Mount.id)) /\ Answered
       ELSE Goto(NextFrame) /\ UNCHANGED ran
  /\ UNCHANGED <<config, received, path>>

\* Mutations: the path is not put back, or the entry after the mount is left out.
LeaveRouterRelative ==
  /\ InRouter /\ Top.index > Len(Chain) + 1
  /\ Goto(ServerFrame(Top.mount + 1))
  /\ UNCHANGED <<config, received, path, ran>>
LeaveRouterSkips ==
  /\ InRouter /\ Top.index > Len(Chain) + 1
  /\ path' = Top.original
  /\ Goto(ServerFrame(Top.mount + 2))
  /\ UNCHANGED <<config, received, ran>>

LeaveRouter ==
  /\ InRouter /\ Top.index > Len(Chain) + 1
  /\ path' = Top.original
  /\ Goto(ServerFrame(Top.mount + 1))
  /\ UNCHANGED <<config, received, ran>>

\* runRoute: the server's own routes, or the 404.
RunRoute ==
  /\ ~Idle /\ Top.chain = Server /\ Top.index > Len(Chain)
  /\ Log(Event(IF path \in routes[Server] THEN Server ELSE "404", 0))
  /\ Answered
  /\ UNCHANGED <<config, received, path>>

-----------------------------------------------------------------------------

Init ==
  /\ queue = [o \in Owners |-> <<>>]
  /\ routes = [o \in Owners |-> {}]
  /\ uses = 0
  /\ received = <<>> /\ path = <<>>
  /\ stack = <<>>
  /\ ran = <<>>

Configure ==
  \/ \E owner \in Owners, prefix \in Scopes : UseMiddleware(owner, prefix)
  \/ \E p \in MountPaths : UseRouter(p) \/ UseSubRouter(p)
  \/ \E owner \in Owners, p \in Paths : AddRoute(owner, p)

Serve ==
  \/ Skip \/ CallNext \/ Stop \/ NextReturned \/ Throw
  \/ PassBy \/ EnterRouter \/ TrySubRouter \/ TryRouter \/ LeaveRouter \/ RunRoute

Next ==
  \/ Configure
  \/ \E p \in Paths : Receive(p)
  \/ Serve

Spec == Init /\ [][Next]_vars

-----------------------------------------------------------------------------
(* Properties.                                                             *)

MountPoints == {Normalized(p) : p \in MountPaths}

Own    == [kind : {"mw"}, id : 1..uses, prefix : Scopes, mws : {<<>>}]
Subs   == [kind : {"sub"}, id : 1..uses, prefix : MountPoints, mws : {<<>>}]
Mounts == [kind : {"mount"}, id : 1..uses, prefix : MountPoints, mws : Seq(Own \cup Subs)]

\* A frame stands for an entry of its chain or for one of the one or two places
\* after the last.
InChain(f) ==
  /\ f.chain = Router => f.mount \in DOMAIN queue[Server]
  /\ f.index \in 1..Len(ChainOf(f)) + (IF f.chain = Server THEN 1 ELSE 2)

\* The state has its type: routers are mounted on the server, sub-routers on the
\* router, and every frame is in its chain.
TypeOK ==
  /\ queue \in [Owners -> Seq(Own \cup Subs \cup Mounts)]
  /\ queue[Server] \in Seq(Own \cup Mounts) /\ queue[Router] \in Seq(Own \cup Subs)
  /\ routes \in [Owners -> SUBSET Paths]
  /\ uses \in 0..MaxUses
  /\ ~Idle => path # <<>> /\ path[1] = "/"
  /\ \A i \in DOMAIN stack : InChain(stack[i])

\* relative is what is left of whole below the mount point prefix, which ends where
\* a segment of whole ends.
IsBelow(whole, prefix, relative) ==
  \/ prefix = Slash /\ relative = whole
  \/ whole = prefix /\ relative = Slash
  \/ prefix # Slash /\ whole = prefix \o relative

\* Whatever was mounted and tried before, code of the server is called with the path
\* of the request and code of a mounted router with the rest of it below the mount
\* point: "mounting at /api does not capture /apiary", and a router left behind
\* leaves nothing of its relative path (HttpServer.cpp:298-328).
CalledWithOwnPath ==
  ~Idle /\ Top.next = "not called" =>
    IF Top.chain = Server THEN path = received ELSE IsBelow(received, Mount.prefix, path)

Handled(e) == e.who \in Owners \cup {"404"}

\* The places in ran where the request was answered.
Answers == {i \in DOMAIN ran : Handled(ran[i]) \/ ran[i].who = "stop"}

\* A request is answered once: by one handler, by the 404 or by the middleware that
\* stopped the chain, unless something threw (HttpServer.cpp:238-258,
\* Router.cpp:24-33).
AnsweredOnce ==
  /\ Cardinality(Answers) <= 1
  /\ Idle /\ ran # <<>> /\ Answers = {} => Last(ran).who = "threw"

\* The mount point of a router, as the server sees it, that is mounted at inner on
\* a router mounted at outer.
Joined(outer, inner) ==
  IF outer = Slash THEN inner ELSE IF inner = Slash THEN outer ELSE outer \o inner

\* The router mounted by entry m has no route for the request, and no router that
\* was mounted on it by then has one.
NoRouteBelow(m) ==
  /\ \A p \in routes[Router] : ~IsBelow(received, m.prefix, p)
  /\ \A s \in Range(m.mws), p \in routes[SubRouter] :
       s.kind = "sub" => ~IsBelow(received, Joined(m.prefix, s.prefix), p)

\* The 404 means that no registry had a route: not the server's for the path, no
\* mounted router's for its part of the path, and no router's mounted on one, for
\* what is left of that (HttpServer.cpp:238-258, Router.cpp:24-33, 68-99).
NotFoundIsTrue ==
  \A i \in DOMAIN ran : ran[i].who = "404" =>
    /\ received \notin routes[Server]
    /\ \A m \in Range(queue[Server]) : m.kind = "mount" => NoRouteBelow(m)

\* The middleware a handler has to wait for: that of the server registered before
\* the mount the request came through, or all of it, and that of the router
\* registered before it was mounted, as far as the paths are theirs.
Guards(e) ==
  {g \in Range(queue[Server]) :
     g.kind = "mw" /\ IsPrefix(g.prefix, received) /\ (e.mount # 0 => g.id < e.mount)}
  \cup
  {g \in Range(queue[Router]) :
     g.kind = "mw" /\ e.who = Router /\ g.id < e.mount /\ IsPrefix(g.prefix, e.path)}

\* No handler runs, and no 404 is sent, before every middleware that guards it has
\* run and called next(): "Middleware runs before routing, so it can short-circuit a
\* request" (README.md:194-195).
GuardsRunFirst ==
  \A i \in DOMAIN ran : Handled(ran[i]) =>
    \A g \in Guards(ran[i]) : \E j \in 1..i - 1 : ran[j].who = "mw" /\ ran[j].id = g.id

\* Middleware runs at most once for a request at each place it is mounted, in the
\* order of registration, and a mounted router only with what it had when it was
\* mounted (HttpServer.cpp:287-291, "middleware added after mounting is not").
RunsInOrder ==
  \A i, j \in DOMAIN ran :
    /\ ran[i].who = "mw" /\ ran[i].mount # 0 => ran[i].id < ran[i].mount
    /\ i < j /\ {ran[i].who, ran[j].who} \subseteq {"mw", "stop"} /\ ran[i].mount = ran[j].mount
         => ran[i].id < ran[j].id

\* The inductive invariant behind the theorems of DispatchProofs: all frames but the
\* top one wait, only middleware wait, and a router's frame knows the path of the
\* request to put back.
Text == Seq({"/"} \cup UNION {Range(p) : p \in Paths \cup Scopes \cup MountPaths})

Frames ==
  [chain : {Server, Router}, index : Nat, mount : Nat, original : Text,
   next : {"not called", "called"}, at : Text]

FrameInv(f) ==
  /\ f.chain = Router => f.original = received
  /\ f.next = "called" => f.index <= Len(ChainOf(f)) /\ ChainOf(f)[f.index].kind = "mw"

StackInv ==
  /\ stack \in Seq(Frames)
  /\ \A i \in 1..Len(stack) - 1 : stack[i].next = "called"
  /\ \A i \in 1..Len(stack) : FrameInv(stack[i])
  /\ path \in Text
  /\ ~Idle => received \in Paths

DispatchInv == TypeOK /\ StackInv /\ CalledWithOwnPath

\* The function on top of the stack is to run, or waits for its next().
Running == ~Idle /\ Top.next = "not called"
Waiting == ~Idle /\ Top.next = "called"

\* While functions go on being called nothing has answered; once they return,
\* something has.
AnswerInv ==
  /\ ran \in Seq(Range(ran))
  /\ Running => Answers = {}
  /\ Waiting => Answers # {}
  /\ AnsweredOnce

\* Entries are numbered in order, and a mount has the middleware that its router
\* had before it.
QueueInv ==
  \A i \in 1..Len(queue[Server]) :
    /\ \A j \in 1..i - 1 : queue[Server][j].id < queue[Server][i].id
    /\ queue[Server][i].kind = "mount" =>
         \A k \in 1..Len(queue[Router]) :
           queue[Router][k].id < queue[Server][i].id =>
             /\ k <= Len(queue[Server][i].mws)
             /\ queue[Server][i].mws[k] = queue[Router][k]

HasRun(entry) == \E i \in 1..Len(ran) : ran[i].who = "mw" /\ ran[i].id = entry.id

\* The place the request has reached in the server's chain.
Reached == IF Top.chain = Server THEN Top.index ELSE Top.mount

\* The middleware of a path before the place reached has run.
PassedInv ==
  Running =>
    /\ \A j \in 1..Len(queue[Server]) :
         /\ j < Reached /\ queue[Server][j].kind = "mw"
         /\ IsPrefix(queue[Server][j].prefix, received)
         => HasRun(queue[Server][j])
    /\ Top.chain = Router => Mount.kind = "mount"
    /\ Top.chain = Router =>
         \A k \in 1..Len(Chain) :
           k < Top.index /\ Chain[k].kind = "mw" /\ IsPrefix(Chain[k].prefix, path)
             => HasRun(Chain[k])

GuardInv == QueueInv /\ PassedInv /\ GuardsRunFirst

\* A router's entries are numbered in order, and those that a mount copied before it.
CopiesInv ==
  /\ \A k \in 1..Len(queue[Router]) : \A l \in 1..k - 1 : queue[Router][l].id < queue[Router][k].id
  /\ \A i \in 1..Len(queue[Server]) : \A k \in 1..Len(queue[Server][i].mws) :
       /\ queue[Server][i].mws[k].id < queue[Server][i].id
       /\ \A l \in 1..k - 1 : queue[Server][i].mws[l].id < queue[Server][i].mws[k].id

\* What ran so far is numbered below what the request may still come to, in the
\* server's chain and in that of the router it is in.
AheadInv ==
  Running =>
    /\ \A i \in 1..Len(ran), j \in 1..Len(queue[Server]) :
         j > Reached \/ (j = Reached /\ Top.chain = Server) =>
           /\ ran[i].mount < queue[Server][j].id
           /\ ran[i].mount = 0 => ran[i].id < queue[Server][j].id
    /\ Top.chain = Router =>
         \A i \in 1..Len(ran), k \in 1..Len(Chain) :
           k >= Top.index /\ ran[i].mount = Mount.id => ran[i].id < Chain[k].id

OrderInv == CopiesInv /\ AheadInv /\ RunsInOrder

\* The mounts before the place reached have no route for the request, nor have the
\* sub-routers that the router has tried, nor the router that goes on to the
\* server's next entry.
MissedInv ==
  Running =>
    /\ \A j \in 1..Len(queue[Server]) :
         j < Reached /\ queue[Server][j].kind = "mount" => NoRouteBelow(queue[Server][j])
    /\ Top.chain = Router =>
         \A k \in 1..Len(Chain) : k < Top.index /\ Chain[k].kind = "sub" =>
           \A p \in routes[SubRouter] : ~IsBelow(path, Chain[k].prefix, p)
    /\ Top.chain = Router /\ Top.index > Len(Chain) + 1 => path \notin routes[Router]

NotFoundInv == MissedInv /\ NotFoundIsTrue

\* A middleware finds req.path as it was when next() returns: mounted handlers are
\* presented "a relative path and restore it after" (HttpServer.cpp:322-323).
PathRestored == ~Idle /\ Top.next = "called" => path = Top.at

\* The middleware of a router mounted on another guards its routes as well
\* (README.md:194-195).
SubRouterGuarded ==
  \A i \in DOMAIN ran : ran[i].who = SubRouter =>
    \A g \in Range(queue[SubRouter]) :
      g.id < ran[i].id /\ IsPrefix(g.prefix, ran[i].path) =>
        \E j \in 1..i - 1 : ran[j].who = "mw" /\ ran[j].id = g.id

=============================================================================
