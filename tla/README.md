# PlusWeb in TLA+

Specifications of the PlusWeb HTTP framework (C++ on libuv and llhttp): what its
components do, what makes them correct, TLC runs that check it on small
instances, and TLAPS proofs of what matters most for every instance. Paths below
are relative to the repository, whose library sources are in `src/`.

## The system

PlusWeb is a library. An application registers handlers and middleware on an
`HttpServer`, calls `serve()`, and some thread later calls `stop()`. One libuv
loop serves every connection; handlers run on its thread.

| Part | State it keeps | Operations | Talks to |
|---|---|---|---|
| Server life cycle (`HttpServer.cpp`) | loop, listener, async handle, `running`, `stopRequested` | constructor, `serve`, `stop`, `onStop`, destructor | every connection (closes them), any thread |
| Connection (`HttpServer::Loop`) | uv handle, `closing`, a parser, outstanding `WriteReq`s | `onConnection`, `onRead`, `send`, `onWrite`, `closeConn`, `onConnClosed` | libuv, the peer, the parser, dispatch |
| Request parser (`HttpParser.cpp`) | target, field, value, headers, body, header budget, failure | `execute` and six llhttp callbacks | llhttp; calls the connection back per request |
| Request target (`applyTarget`, `Utils::url_decode`, `urlEncode`, `split`) | none | decoding, splitting, encoding | parser, handlers |
| Route trie (`trie.cpp`, `RouteRegistry.cpp`) | tree of segments, one parameter child per node, handlers | `insert`, `find`, `Register`, `getHandler` | dispatch |
| Dispatch (`HttpServer::handleRequest`/`use`, `RoutingBase`, `Router`) | middleware queues, mounts | the chain, mounted routers, path rewriting | trie, handlers |
| Response (`HttpResponse.cpp`, `HttpBody.cpp`) | status, headers, body | setters, `serialize` | handlers, connection |
| WebAssembly binding (`wasm/plusweb_wasm.cpp`) | a registry, the list of routes, result slots | seven `pw_*` functions | trie, parser, the page |
| Helpers, benchmarks, examples, packaging | none | | |

Calls go down one chain: a read reaches `onRead`, which runs the parser, which
calls the connection back once per request, which dispatches, serializes and
calls `send`; a failure of the parser, of a callback or of a handler comes back
up the same chain as the result of `execute()` and becomes one error answer and
a close. Three things cross the chain: `stop()` from another thread, which closes
connections from the loop; libuv's write callbacks, which outlive the `onRead`
that started them; and the peer, which moves at any time.

What is hard here: the interleaving of callbacks with the peer and with other
threads; who owns the objects libuv points to; order and number of answers on a
pipelined connection and what a close cuts off; reads that end in the middle of a
name; state that one level of a recursion or one middleware leaves for the next
(the parameter map, `req.path`, a half-replaced body).

### What makes each part correct

- **Connection**: the kernel gets answers in order, each message is answered, an
  answer that announces the close is the last of the requests, each `WriteReq`
  has one owner, the `Conn` outlives every use, `uv_close` is called once, a
  closed connection is freed, a reading peer gets its answers.
- **Server life cycle**: a stop is never lost, the walk of `onStop` leaves nothing
  open, the destructor always ends with a loop that can be closed.
- **Parser**: requests do not depend on where reads end; the budget is one
  message's, to the byte; nothing carries over; the status names the reason.
- **Route trie**: lookups mean what the list of registrations means; dead ends
  leave no binding.
- **Dispatch**: every function sees its own path, guards run before handlers, one
  answer, a 404 only when no router of the request has a route.
- **Response**: Content-Length is what follows the head, HEAD agrees with GET, a
  body is in one of the two buffers.
- **Request target**: what splitting before decoding would give, read within the
  text; a text that was encoded arrives as it was.
- **Binding**: ids, keys, handlers and the dump stay in step; `reset` forgets; a
  result outlives a call of another function, one that throws included.

## Modules

| Module | Models | State and actions |
|---|---|---|
| `Connection` | `struct HttpServer::Loop`, one connection | `handle`, `closing`: the `uv_tcp_t` and `Conn`; `wq`, `done`, `live`: libuv's queue, completions to come, `WriteReq`s on the heap; `input`, `failure`, `shouldClose`: `onRead`'s view of `execute()`. `OnReadData`..`OnReadReturns` are the steps of one `onRead`, since peer and kernel move meanwhile; every other callback is one action. `Drain`, `FailHead`, `PeerReads`, ... are libuv, the kernel and the peer. |
| `ResponseStream` | what a connection promises | `made`, `sent`, `ended`; `Connection` implements it (`StreamSpec`). |
| `EventLoop` | `HttpServer`'s constructor, `serve`, `stop`, `onStop`, destructor | `pc`: the owner's thread, which an exception of `onListening()` may throw out of `serve()`; `caller`: the threads in `stop()`, in two steps; `h`: all handles; `inPass`, `ready`: one pass of `uv_run`, which serves a snapshot in any order and then runs the close callbacks. |
| `RouteTrie` | `Node`, `Trie`, `RouteRegistry`, the verbs of `RoutingBase` | A node is its path from the root; `leaf` is `isLeaf`. `findFrom` is a stack of frames with its locals `had` and `saved`; each step of the recursion is an action, on the shared `params`. |
| `RouteTable` | what routes promise, without a trie | The list of registrations; `Resolve` gives the answer. `RouteTrie` implements it (`ImplementsTable`), liveness of a lookup included. |
| `HttpParser` | `HttpParser::Impl` and `execute()` | llhttp walks the elements of a script of messages (`message`, `at`, `off`); a read of any length ends anywhere. Each callback is an action, a refusal by `charge()` an alternative in it. |
| `RequestTarget` | `applyTarget`, `url_decode`, `urlEncode`, `split` | Functions of sequences of bytes, with the arithmetic of `char`; `HttpParser` applies them when a message is complete. |
| `Dispatch` | `use()` in all forms, `executeMiddlewareChain`, mounted routers, `handleRequest` | A stack of middleware that wait for `next()`; `path` is `req.path`. First any configuration, then requests through it, then more configuration. |
| `Response` | `HttpResponse`, `HttpBody`, the end of `handleRequest` | A payload is its size; calls in any order, then `Finish` (`serialize`). |
| `WasmBinding` | the exported functions of `wasm/plusweb_wasm.cpp` | A composition: it extends `RouteTrie`, whose variables are the registry and whose lookup `pw_dispatch` runs; what belongs to the whole is named for it (`BindingInit`, `BindingNext`, `BindingSpec`, `BindingTypeOK`). `patterns`, `ids`: the list of routes and the ids the handlers captured; `slots`: the static strings that hold the JSON, each a bit that every new text turns. |
| `...Proofs` | | theorems, see below; `DispatchOrderProofs` goes on from `DispatchProofs` |
| `MC...` | | the instances TLC checks |

How they fit: `Connection` takes from the parser only what `execute()` makes of a
message (`Kinds`, `Failures`) and from the response its size and whether it
closes; `HttpParser` and `Response` justify these. `EventLoop` sees of a
connection that it closes when it likes; `Connection` sees of the loop that
`onStop` may close it. `Dispatch` sees of a registry the set of paths with a
route; `RouteTrie` is the lookup. `HttpParser` and `RequestTarget` are one
specification, and so are `WasmBinding` and `RouteTrie`, since there the state is
shared; the other interfaces are one value, and are not multiplied into one state
space.

## Runs

`tlc -config <cfg> <module>`; times are of two workers on a small machine.

| Run | Module, cfg | Shows |
|---|---|---|
| `connection` | `MCConnection` | All interleavings of a connection's callbacks with peer and kernel: ownership (`WriteReqsOwned`, `ConnOutlivesUse`), answers (`InOrder`, `Answered`, `CloseAnnounced`), the abstract stream (`StreamSpec`), and under fairness `AnswersSent` and `Reclaimed`. 28,000 states, 20 s. |
| `event_loop` | `MCEventLoop` | Two connections, two threads calling `stop()`, an `onListening()` that may throw: `LoopCloseSucceeds`, `ClosedOnce`, `NothingOpenAfterWalk`, `ReturnsStopped`, and `StopReturns` under fairness. 2,000 states. |
| `route_trie` | `MCRouteTrie` | Three registrations out of eight patterns, eight requests: `BindingsOfPath` at every step of the search, and `ImplementsTable`. 216,000 states, 2 min. |
| `parser` | `MCHttpParser` | Every cut of two messages out of eight into reads: `RequestsAsSent`, `BudgetPerMessage`, `NothingCarriesOver`, `StatusNamesReason`; every target of a slash and up to three of eight bytes, and longer ones of each form: `TargetAsSent`, which speaks of targets whose form the comment of `applyTarget` describes and which hide no separator (`Plain`); every text of two out of ten bytes, encoded: `EncodingArrives`. 44,000 states, 15 s. |
| `dispatch` | `MCDispatch` | Every configuration of three `use()` calls and up to one route in each of the three registries, so that registries compete for a request: `CalledWithOwnPath`, `AnsweredOnce`, `NotFoundIsTrue` (nested routers included), `GuardsRunFirst`, `RunsInOrder`. 7.6 million states, 2 min. |
| `response` | `MCResponse` | Three calls, then `serialize()`: `Framed`, `HeadLikeGet`, `TypeOfLastSend`. 6,700 states. |
| `binding` | `MCWasmBinding` | Calls of the exported functions in any order, up to three routes between resets: `DispatchedAsListed`, `KeysOnce`, `DumpShowsListed`, and of every step `ResultsKept`. 511,000 states, 35 s. |

Each of these also checks the type invariant (`TypeOK`, `BindingTypeOK`). Five runs check a statement of the repository
that the code does not keep; TLC's trace is the counterexample:

| Run | Property | Finding |
|---|---|---|
| `error_answer_lost` | `ErrorAnswerSent` | the 400/431 queued behind an unsent answer is cancelled by the `closeConn()` that follows it |
| `path_restored` | `PathRestored` | after a mounted router answers, earlier middleware see the relative path in `req.path` |
| `nested_guards` | `SubRouterGuarded` | middleware of a router mounted on a router never runs |
| `form_body` | `FramedAlways` | a form body is declared by Content-Length and never written |
| `target_split` | `OriginFormPath` | a `://` in the path or the query of an origin-form target is taken for a scheme |

More disagreements were met and have no run of their own, the models state what
the code does:

- A request llhttp treats as an upgrade is answered by its route and then by a
  400, because `execute()` reports llhttp's pause as a failure (`Answered`).
- `$status` has no initial value; a handler that only calls `send()` sends
  whatever it holds (`Response` carries it to the wire as `Unset`).
- README.md:252-254 says a lookup costs one step per segment; a search that
  backtracks enters more nodes (`/:x` and `/a/b`, then `GET /a`). wasm/README.md
  says a literal route shadows its parameter sibling; the code backtracks into it.
- README.md:154-155 says a parameter lands in `req.params` under its name; after
  `/:y/b`, the name of `/:x` is lost (trie.cpp:24-26 says so; `RouteTable` too).
- A nested mount has no segment boundary (Router.cpp:73), unlike a mount on the
  server (HttpServer.cpp:298-302).
- A target is decoded before it is split, so an encoded separator separates.
- HttpParser.cpp:13-15 says that of an absolute-form target the scheme and the
  authority are stripped and the path is routed on. The slash that ends the
  authority is looked for past the question mark (line 21): `h://h?x=/admin` has no
  path and is routed as `/admin`, and `h://h?a=b` loses its query. `Plain` leaves
  such targets out of `TargetAsSent`; they are in the run and the model does what
  the code does.
- README.md:259-261 caps "request lines and headers"; what the code counts is the
  target, the names and the values, not the method, the version or the bytes
  between them. `BudgetPerMessage` is about the bytes the code counts.
- A large answer with `Connection: close` that the kernel does not take at once is
  cut off by the `uv_close()` that follows it, as the error answer is; only the
  error answer is promised by a document (`ErrorAnswerSent`).

### Bounds

| Constant | Value | Why it is enough |
|---|---|---|
| `Connection.Sizes`, `SndBuf` | {1, 3}, 2 | only how an answer compares with the free space matters: one that fits, fits later, or never fits whole |
| `MaxPerRead`, `MaxRequests` | 2, 3 | two messages in a chunk, a queue with several writes, an answer queued behind and one after a failure |
| `EventLoop.Conns`, `Stoppers`, `SpinLimit` | 2, 2, 3 | a connection beside the one being closed; a second `stop()` at each point; fewer passes than the code's 64 is the harder case |
| `RouteTrie.MaxRoutes`, patterns | 3, eight | a literal that leads nowhere, a parameter beside it, and a third route that shares a prefix; names reused on one path and across patterns, twice on one path with a literal between |
| `HttpParser.Scripts` | two messages of eight, or one of some 600 targets and 111 encoded texts | a message and its predecessor; messages of exactly the budget and one byte more; every way three bytes can be an escape, a separator or half of one |
| `HttpParser.MaxRead`, budget | 4, 10 | reads within and across elements, so that an escape, a name or a value is cut at each place |
| `Dispatch.MaxUses`, `MaxRoutes` | 3, 1 | guard, mount, guard in each order; a route in each registry at the same time, for the same path or for different ones |
| `Response.Sizes`, `kCoalesceBelow`, `MaxCalls` | {0, 2, 3, 4}, 3, 3 | empty, below, at and above the limit; a call that throws between two others |
| `WasmBinding.MaxRoutes`, keys, paths | 3, eight, five | a key registered again, another one after it and a reset; keys that are refused, texts with and without a slash at the end, text that is not UTF-8. `Verbs` is empty: routes come from `registerRoute()` only |

`CHECK_DEADLOCK FALSE` is set where the modelled system ends: a parser whose
script is over, a response that was serialized. `Connection` and `EventLoop` have
an explicit step for the end (`Gone`, `Finished`), so a deadlock there is found.

### Fairness

- `Connection.LoopFairness`: strong fairness of the loop's callbacks, because a
  pass of `uv_run` serves every ready event and a read in progress only disables
  them for a while; weak fairness of the steps inside `onRead`, which is a
  function that runs on. Nothing is assumed of the peer: `AnswersSent` states its
  own premise, that the peer keeps reading.
- `EventLoop.FairSpec`: a thread inside `serve`, `uv_run` or `stop` goes on, and
  `onListening()` returns or throws. No thread has to call anything and no client
  has to leave.
- `RouteTrie`: a call of `findFrom` that started runs on.

The parser, dispatch, response and binding have no liveness property: they are
functions that return when the application's handlers do.

## Proofs

`tlapm <module>`; every leaf is checked by SMT or Zenon, temporal steps by LS4.

**`ConnectionProofs`**, for any sizes, buffer and bounds (`SizesAssumption`,
`SndBufAssumption`, `BoundsAssumption`). The properties are not inductive: that a
`WriteReq` has one owner needs that no answer is in two places, that answers are
in order needs that the queue continues what was delivered while the socket
works, and both need what the handle's state says of queue and completions.
`IInv` is `ServerInv` (handle, flag, cause and stack agree), `OwnedInv` (every
answer in at most one place), `QueueInv` (the queue continues the deliveries),
`ReadInv` (`onRead`'s locals against the last answer), `LastWord` and `CountInv`
(the count of answers inside a chunk). Theorems: `TypeCorrect`, `AnswersInOrder`,
`MemorySafe`, `ConnFreedLast`, `AnswersMatch`, `CloseIsAnnounced`, and
`Implements`, which maps each action to a step or a stutter of `ResponseStream`.

**`EventLoopProofs`**, for any connections, threads and limit on passes
(`HandlesAssumption`, `SpinAssumption`). `IInv` is `PhaseInv` (where in its life
the server has handles, passes and events), `WalkInv` (listener and async handle
live until the walk, which ends all), `HandleInv` (closed once) and `SpinInv`: the
destructor's first pass runs `onStop`, so the loop drains in it. Theorems:
`TypeCorrect`, `DestructorFreesAll`, `StopsOnce`, `NothingOpens`,
`ServeReturnsStopped`.

**`HttpParserProofs`**, for any messages, cut into reads of any length, and any
budget (`ParserAssumption`). The lemma `ShapeOfMessage` says of the elements of a
message that the target comes first and only there, and that a message goes on
until it is done or garbage. `ParserInv` adds to the type `ReasonInv` (the limit
was hit exactly when a callback refused over budget), `CountInv` (the messages
before this one were delivered) and `FreshInv` (at the first element nothing is
left); that nothing carries over does not follow from itself, because the end of
one message must be known to be the beginning of the next. On top of it:

- `BudgetInv`: what is charged is the number of the message's header bytes that
  were read, counted as a set of pairs of element and offset, so that the total of
  a message, whole or refused, is compared with the budget by cardinality instead
  of by induction over its fields;
- `SentInv`: what has been collected is what the elements passed so far say, one
  stage per kind of element (target, names and values, body, trailers), so that
  what is delivered at the end is the message sent, headers committed late included.

What a client encodes arrives as it was for every text, not only for the short ones
of the run (`PlainAssumption`: a text that is to be a path has no question mark and
no scheme). `url_decode` and `urlEncode` are recursive over the text, so the proof
is by induction on the bytes dealt with, `SetInduction` taking the set of numbers
for which a claim holds. The functions exist (`DecodedExists`, `EncodedExists`);
each byte of the text has its place in the encoded one (`EncodedPlaces`); the two
digits of a byte, joined by `|`, give the byte (`PairReads`, from `BitsDiffer` and
`DigitsJoin`); so from each place on, the encoded text decodes to the rest of the
text (`DecodesEncoded`), and nothing of it is taken for a scheme or a query
(`EncodedIsPath`).

Theorems: `TypeCorrect`, `StatusRight`, `NothingLeft`, `BudgetRight`,
`RequestsRight`, `TargetWhole` (the target that is decoded is the one sent,
wherever the reads cut it), and with both of the above `EncodedTextArrives`.

**`RouteTrieProofs`**, for any patterns, requests and number of routes
(`SegmentAssumption`, `InputAssumption`). `BindingsOfPath` looks at one moment of
the search; that the next one still has it when a frame gives up needs what the
frame saved. `TrieInv` adds `NodeInv` (a node is a path under a method),
`FrameInv` (the frames are the prefixes of one path and whoever binds has a
parameter child), `SavedInv` (`had` and `saved` are what the map held when the
frame bound, the value of the last frame below with that name) and `ParamsInv`
(the map holds the last binding of each name). Theorems: `TypeCorrect`,
`PathBindings`.

That `RouteTrie` implements `RouteTable`, as far as safety goes, is
`AnswersFromTable`. `TreeOfTable` says what the trie is of its registrations: whose
path a node lies on, the last registration that ends in it and the first that
passed it, which named it. `SearchedInv` says what the search has found out: the
subtree of the literal child of every frame that has turned to the parameter is
fruitless, that is, holds no handler for the request. A lookup that ends with nothing is
then fruitless at the root, which no serving registration allows (`NothingServes`),
and one that ends in a node is at the most literal of the nodes that serve, because
a more literal one would lie under a fruitless child (`FoundMostLiteral`,
`FoundWinner`); `FoundName` and `FoundBinding` do the same for the parameters.
Every other step maps to a registration, a question or a stutter.

**`DispatchProofs`** and **`DispatchOrderProofs`**, for any paths, prefixes, mount
paths and bounds (`DispatchAssumption`). That code sees its own path is no
invariant by itself: a step that leaves a router puts back what the frame kept, in
a chain that other calls wait for. `DispatchInv` adds `StackInv`: every frame but
the top one waits for its `next()`, only middleware wait, and a router's frame
keeps the path of the request. The lemma `RelativeIsBelow` says of the code's
string operations that they cut at a segment boundary. What ran in which order is
proved on top of it, each property with an invariant of its own:

- `AnswerInv`: while functions go on being called nothing has answered, once they
  return something has;
- `GuardInv`: entries are numbered, a mount has copied what its router had
  (`QueueInv`), and whatever applies before the place reached has run (`PassedInv`);
- `OrderInv`: the copies are in order (`CopiesInv`), and what ran is numbered below
  what the request may still come to (`AheadInv`);
- `NotFoundInv`: no mount that was passed had a route, nor a router mounted on it,
  nor has what the router at hand has tried already (`MissedInv`). The lemmas
  `BelowIsCovered`, `BelowIsOne` and `BelowIsTried` relate a mount's prefix to the
  path cut by it, and `JoinedIsNested` a nested mount to the two it is made of. Paths
  have no empty segment (`SegmentAssumption`), or cutting a prefix would not be
  undone by putting it back.

Theorems: `TypeCorrect`, `OwnPath`; `OneAnswer`, `GuardsFirst`,
`MiddlewareInOrder`, `TrueNotFound`.

**`ResponseProofs`**, for any sizes, statuses, limit and number of calls
(`ResponseAssumption`). `ResponseInv` adds to the type that the body is the last
one sent unless a `setJson` that threw tore it (`BodyIsLastSent`), and that the
buffers hold the body as declared (`BuffersHoldBody`); `Framed` does not follow
from itself, because it speaks only of responses already serialized. Theorems:
`TypeCorrect`, `FramedRight`, `HeadRight`, `SplitRight` (a body is in one of the
two buffers, by the limit, which `Framed` alone would not notice to be off by one),
`TypeRight`. `HeadLikeGet` leaves a torn body out: its GET ends in a 400 when the text
cannot be dumped, and its HEAD declares the length of the body before.

**`WasmBindingProofs`**, for any keys, paths and order of calls
(`BindingAssumption`). `KeysInv`: the list has no key twice, and the id in the last
answer of `registerRoute()` is that key's place. `OwnSlots` needs only the
type of the slots (`SlotsInv`): every step that writes one is a return of the
function it belongs to (`SlotsStep`). `BindingInv` takes the trie's invariants over (`TrieInv`,
`ImplInv`: the binding extends `RouteTrie`, so its lemmas apply to the calls that
search, and a reset is shown to leave an empty trie that has them) and adds
`ListInv` (the registrations are the keys listed, each with its place as its id),
`CallInv` (what a search of `pw_dispatch` left is what the table resolves its
request to) and `LeafInv` (the leaves are the ends of routes, and the root only while it is all there is).
`ResolveOf` makes the answer of the table a function of the registrations, which
carries it from the trie's history to the list. Theorems: `OneIdPerKey`,
`OwnSlots`, `BindingTypeCorrect`, `DispatchRight`, `DumpRight`.

Only model-checked:

- that decoding the whole target and then splitting it gives what splitting first and
  decoding each part gives (`TargetAsSent`). The library's induction theorems take an
  operator as a parameter, which the provers cannot instantiate. Where a proof needs
  induction here it takes a set of numbers instead (`SetInduction` in
  `HttpParserProofs`, `LeastPlace` in `RouteTrieProofs`), one for each recursive
  function; this property also compares what `Split`, a fold, makes of a text and of
  its decoded form, and maps built from the pieces;
- every liveness property (`AnswersSent`, `Reclaimed`, `StopReturns`, and that a
  lookup ends, the fair half of `ImplementsTable`), which are out of the prover's
  reach, as `ENABLED` is.

## Not modelled

- Text: reason phrases, header names other than the two that matter, form
  encoding, MIME types, the wording of the binding's JSON, times, logging.
- `readFile` and `mimeTypeFor`, which the library does not call; `mountPath`,
  `matches()` and `getRelativePath()` of `Router`, which nothing uses.
- Dispatch is modelled for applications that keep three rules: a
  middleware calls `next()` at most once and before it returns, nothing calls
  `use()` while a request is served, and the application's objects outlive the
  server. The second is documented: RouteRegistry.h:25-28 says that registering in
  flight would invalidate what the request reads, "so routes and middleware are set
  up before serve()". The code checks none of them.
- Paths of the application are assumed to start with `/` and to be split already;
  so are the paths a page dispatches through the binding.
- Trailers are modelled as the code treats them (the last one is dropped), as are
  bodies without a limit.
- Benchmarks, examples, tests, the JavaScript loader and packaging: no logic of
  the library.

## Plan

Done, in this order: `Connection` with `ResponseStream`, `EventLoop`, `RouteTrie`
with `RouteTable`, `HttpParser`, `Dispatch`, `Response`; then `RequestTarget` inside
the parser, `WasmBinding` over `RouteTrie`, an `onListening()` that throws, the
leaves of the trie; the proofs of each.

What could come next:

1. *Dispatch*: a middleware that calls `next()` twice, once a document says what
   that should do.
2. *RequestTarget*: that splitting and decoding commute for a target without hidden
   separators (`TargetAsSent`) as a theorem, with `SetInduction` for `Split`.
3. *Connection over HttpParser*: the two in one state space for one short script,
   instead of the interface of one value.
