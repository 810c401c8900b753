---------------------------- MODULE WasmBinding -----------------------------
(***************************************************************************)
(* The contract that a page calls (src/wasm/plusweb_wasm.cpp): the route   *)
(* registry and the parser behind C functions that answer in JSON text. A  *)
(* composition: the registry is the trie of RouteTrie, registered in by    *)
(* Insert and searched by Lookup and the steps of findFrom. The functions  *)
(* run one at a time. The parser is taken by what execute() delivers.      *)
(*                                                                         *)
(* A text is the sequence of its pieces between slashes, "" an empty one:  *)
(* "/a/" is <<"", a, "">>, "a" is <<a>>. Each function keeps its JSON in a *)
(* slot of its own. A slot is modelled by a bit that turns whenever its    *)
(* text is replaced, since all that is said of a text is how long it stays *)
(* as it is; the JSON of the last call is the record result.               *)
(* dump() throws on text that is not UTF-8, before anything is kept.       *)
(***************************************************************************)
EXTENDS RouteTrie, Integers, SequencesExt

CONSTANTS
  Garbled,      \* segments and names that are not UTF-8
  Dispatched,   \* the methods the page dispatches
  Keys,         \* the routes it registers: [method, pattern], proper or not
  Paths         \* the paths it dispatches: each starts with a slash or is empty

Pieces(text) == SelectSeq(text, LAMBDA piece : piece # "")

Asked(method, path) == [method |-> method, path |-> Pieces(path)]

ASSUME BindingAssumption ==
  /\ Garbled \subseteq Values \cup Names /\ "" \notin Values \cup Names
  /\ Keys \subseteq [method : Methods \cup {""}, pattern : Seq(Values \cup Names \cup {""})]
  /\ \A key \in Keys : Pieces(key.pattern) \in Patterns
  /\ \A method \in Dispatched, path \in Paths : Asked(method, path) \in Requests
  /\ \A path \in Paths : path[1] = ""

VARIABLES
  ids,          \* the id that the handler of each registration captured
  patterns,     \* routeId -> method and pattern
  lastRouteId,
  asked,        \* the request pw_dispatch is running for, NoRequest otherwise
  slots,        \* for each slot, a bit that turns when its text is replaced
  result        \* what the last call returned, or that it threw

registry    == <<trie, request, stack, params, answer>>
bindingVars == <<registry, ids, patterns, lastRouteId, asked, slots, result>>

Slot == [version |-> 0, registerRoute |-> 1, dispatch |-> 2, parseRequest |-> 3, dumpTrie |-> 4]

Idle == asked = NoRequest

-----------------------------------------------------------------------------
(* How a call ends.                                                        *)

\* hold(): the function's slot gets the JSON.
Hold(slot, json) ==
  /\ slots' = [slots EXCEPT ![slot] = ~@]
  /\ result' = json

\* dump() threw.
Throw(fn) ==
  /\ result' = [fn |-> fn, threw |-> TRUE]
  /\ UNCHANGED slots

\* texts are all the pieces that go into the JSON.
HoldOrThrow(slot, json, texts) ==
  IF texts \cap Garbled = {} THEN Hold(slot, json) ELSE Throw(json.fn)

-----------------------------------------------------------------------------

PwVersion ==
  /\ Idle
  /\ Hold(0, [fn |-> "version"])
  /\ UNCHANGED <<registry, ids, patterns, lastRouteId, asked>>

EmptyRegistry ==
  /\ nodes' = {Root}
  /\ handler' = [n \in {Root} |-> 0]
  /\ leaf' = {Root}
  /\ pname' = <<>>
  /\ table' = <<>>
  /\ ids' = <<>>
  /\ UNCHANGED <<request, stack, params, answer>>

\* Mutation: only the list of patterns is cleared.
PwResetList ==
  /\ Idle
  /\ patterns' = <<>>
  /\ lastRouteId' = -1
  /\ result' = [fn |-> "reset"]
  /\ UNCHANGED <<registry, ids, asked, slots>>

PwReset ==
  /\ Idle
  /\ EmptyRegistry
  /\ patterns' = <<>>
  /\ lastRouteId' = -1
  /\ result' = [fn |-> "reset"]
  /\ UNCHANGED <<asked, slots>>

RegisterResult(key, routeId, error) ==
  [fn |-> "registerRoute", key |-> key, routeId |-> routeId, error |-> error]

Refuse(key, routeId, error) ==
  /\ Hold(1, RegisterResult(key, routeId, error))
  /\ UNCHANGED <<registry, ids, patterns>>

\* Mutation: the id is taken after the key was added.
AddAfter(key) ==
  /\ patterns' = Append(patterns, key)
  /\ Insert({key.method}, Pieces(key.pattern))
  /\ ids' = Append(ids, Len(patterns'))
  /\ Hold(1, RegisterResult(key, Len(patterns'), ""))

\* A new route: the next id, which the handler captures.
Add(key) ==
  /\ patterns' = Append(patterns, key)
  /\ Insert({key.method}, Pieces(key.pattern))
  /\ ids' = Append(ids, Len(patterns))
  /\ Hold(1, RegisterResult(key, Len(patterns), ""))

\* Mutation: the key is not looked for.
HasKeyNever(key) == FALSE

HasKey(key) == Contains(patterns, key)

StartsWithSlash(text) == Len(text) > 1 /\ text[1] = ""

PwRegisterRoute(key) ==
  /\ Idle
  /\ \/ key.method = "" /\ Refuse(key, -1, "method is empty")
     \/ /\ key.method # "" /\ ~StartsWithSlash(key.pattern)
        /\ Refuse(key, -1, "pattern must start with '/'")
     \/ /\ key.method # "" /\ StartsWithSlash(key.pattern)
        /\ HasKey(key)
        /\ Refuse(key, SelectInSeq(patterns, LAMBDA k : k = key) - 1, "route already registered")
     \/ /\ key.method # "" /\ StartsWithSlash(key.pattern)
        /\ ~HasKey(key)
        /\ Add(key)
  /\ UNCHANGED <<lastRouteId, asked>>

\* pw_dispatch up to the call of getHandler.
PwDispatch(method, path) ==
  /\ Idle
  /\ asked' = Asked(method, path)
  /\ Lookup(Asked(method, path))
  /\ lastRouteId' = -1
  /\ result' = [fn |-> ""]
  /\ UNCHANGED <<ids, patterns, slots>>

DispatchSearches ==
  /\ Search
  /\ UNCHANGED <<ids, patterns, lastRouteId, asked, slots, result>>

DispatchResult(routeId, bound) ==
  [fn |-> "dispatch", asked |-> asked, matched |-> answer.handler # 0, routeId |-> routeId,
   params |-> bound,
   pattern |-> IF routeId \in 0..Len(patterns) - 1 THEN patterns[routeId + 1] ELSE ""]

PatternPieces(i) == {patterns[i].method} \cup Range(patterns[i].pattern)

\* Mutation: the JSON goes to the slot of another function.
DispatchReturnsSlot1 ==
  /\ ~Idle /\ request = NoRequest
  /\ asked' = NoRequest
  /\ answer' = Miss
  /\ IF answer.handler = 0
       THEN Hold(1, DispatchResult(-1, <<>>)) /\ UNCHANGED lastRouteId
       ELSE /\ lastRouteId' = ids[answer.handler]
            /\ Hold(1, DispatchResult(lastRouteId', answer.params))
  /\ UNCHANGED <<trie, request, stack, params, ids, patterns>>

\* getHandler returned; on a match the handler records its id.
DispatchReturns ==
  /\ ~Idle /\ request = NoRequest
  /\ asked' = NoRequest
  /\ answer' = Miss
  /\ IF answer.handler = 0
       THEN Hold(2, DispatchResult(-1, <<>>)) /\ UNCHANGED lastRouteId
       ELSE /\ lastRouteId' = ids[answer.handler]
            /\ HoldOrThrow(2, DispatchResult(lastRouteId', answer.params),
                 DOMAIN answer.params \cup Range(answer.params) \cup
                 UNION {PatternPieces(i) : i \in {lastRouteId' + 1} \cap DOMAIN patterns})
  /\ UNCHANGED <<trie, request, stack, params, ids, patterns>>

\* A parser of its own for each call: it delivers the requests of the text, the
\* last of which is answered, or refuses it, or waits for more.
PwParseRequest ==
  /\ Idle
  /\ \E outcome \in {"ok", "refused", "incomplete"} :
       \/ Hold(3, [fn |-> "parseRequest", ok |-> outcome = "ok"])
       \/ outcome # "incomplete" /\ Throw("parseRequest")
  /\ UNCHANGED <<registry, ids, patterns, lastRouteId, asked>>

\* The lookups leave the registry as it is.
PwBenchDispatch(iters) ==
  /\ Idle
  /\ result' = [fn |-> "benchDispatch", measured |-> iters > 0]
  /\ UNCHANGED <<registry, ids, patterns, lastRouteId, asked, slots>>

\* dumpNode() from the root, and the routes.
PwDumpTrie ==
  /\ Idle
  /\ HoldOrThrow(4, [fn |-> "dumpTrie", nodes |-> nodes, leaves |-> leaf, names |-> pname,
                     hasHandler |-> {n \in nodes : handler[n] # 0}, routes |-> patterns],
       UNION {Range(n) : n \in nodes} \cup Range(pname)
         \cup UNION {PatternPieces(i) : i \in DOMAIN patterns})
  /\ UNCHANGED <<registry, ids, patterns, lastRouteId, asked>>

BindingInit ==
  /\ Init
  /\ ids = <<>> /\ patterns = <<>> /\ lastRouteId = -1
  /\ asked = NoRequest
  /\ slots = [i \in 0..4 |-> FALSE]
  /\ result = [fn |-> ""]

BindingNext ==
  \/ PwVersion \/ PwReset \/ PwParseRequest \/ PwDumpTrie
  \/ \E key \in Keys : PwRegisterRoute(key)
  \/ \E method \in Dispatched, path \in Paths : PwDispatch(method, path)
  \/ DispatchSearches
  \/ DispatchReturns
  \/ \E iters \in {0, 1} : PwBenchDispatch(iters)

BindingSpec == BindingInit /\ [][BindingNext]_bindingVars

-----------------------------------------------------------------------------
(* Properties.                                                             *)

\* The state has its type; every registration has its id and its key.
BindingTypeOK ==
  /\ TypeOK
  /\ patterns \in Seq(Keys)
  /\ Len(table) = Len(patterns)
  /\ ids = [i \in DOMAIN patterns |-> i - 1]
  /\ lastRouteId \in -1..Len(patterns) - 1
  /\ asked \in Requests \cup {NoRequest}
  /\ request # NoRequest => request = asked
  /\ slots \in [0..4 -> BOOLEAN]
  /\ result.fn \in DOMAIN Slot \cup {"", "reset", "benchDispatch"}

Returned(fn) == result.fn = fn /\ "threw" \notin DOMAIN result

\* The keys the page was given ids for, as the table of RouteTable.
Entries == [i \in DOMAIN patterns |->
              [methods |-> {patterns[i].method}, pattern |-> Pieces(patterns[i].pattern)]]
TableOf(registrations) == INSTANCE RouteTable WITH table <- registrations

\* What dispatch() answers is decided by the routes listed since the last reset,
\* after any calls, failed ones included: it matches exactly when one of them
\* serves the path, its id is the one registerRoute() gave that route, and its
\* pattern that route's key (plusweb_wasm.cpp:142, README.md of wasm: "Route ids are
\* assigned in registration order from 0, and restart after reset()").
DispatchedAsListed ==
  Returned("dispatch") =>
    LET expected == TableOf(Entries)!Resolve(result.asked)
    IN  /\ result.matched = (expected.handler # 0)
        /\ result.routeId = expected.handler - 1
        /\ result.params = expected.params
        /\ result.matched => result.pattern = patterns[expected.handler]

\* No key has two ids, no route is refused that is not registered already, and the
\* id that registerRoute() returns, with the error too, is that of the key
\* (plusweb_wasm.cpp:125-132).
KeysOnce ==
  /\ \A i, j \in DOMAIN patterns : patterns[i] = patterns[j] => i = j
  /\ Returned("registerRoute") /\ result.routeId >= 0 =>
       patterns[result.routeId + 1] = result.key

\* What a function returned stays as it is until that function returns again: no
\* step of another call touches it, a reset or one that throws included, and a
\* call of its own that throws leaves it too ("Returned pointers stay valid until
\* the next call to the same function", plusweb_wasm.cpp:10, 61-67).
OwnSlotOnly ==
  \A fn \in DOMAIN Slot : slots'[Slot[fn]] # slots[Slot[fn]] => Returned(fn)'
ResultsKept == [][OwnSlotOnly]_bindingVars

\* The graph that dumpTrie() shows is that of the routes it lists: a handler on the
\* node of each and nowhere else, no node that leads to none, and no leaf without a
\* handler but the root of an empty graph (plusweb_wasm.cpp:69-94).
DumpShowsListed ==
  Returned("dumpTrie") =>
    LET Ends == {NodeOf(k.method, Pieces(k.pattern)) : k \in Range(result.routes)}
    IN  /\ result.hasHandler = Ends
        /\ result.nodes = {Root} \cup UNION {PathTo(n) : n \in Ends}
        /\ result.leaves \subseteq Ends \cup {Root}
        /\ Root \in result.leaves => result.nodes = {Root}
        /\ \A n \in Ends : n \in result.leaves \/ \E c \in result.nodes : c # Root /\ Parent(c) = n

-----------------------------------------------------------------------------
(* The inductive invariant behind the theorems of WasmBindingProofs.       *)

\* The registrations of the trie are the keys listed, each with its place as its id.
ListInv ==
  /\ patterns \in Seq(Keys)
  /\ table = Entries
  /\ ids = [i \in DOMAIN patterns |-> i - 1]
  /\ lastRouteId \in -1..Len(patterns) - 1

\* What getHandler is doing for the call of pw_dispatch, and what it left.
CallInv ==
  /\ asked \in Requests \cup {NoRequest}
  /\ Idle => request = NoRequest /\ answer = Miss
  /\ request # NoRequest => request = asked
  /\ ~Idle /\ request = NoRequest => answer = Table!Resolve(asked)
  /\ answer.handler = 0 => answer = Miss

\* The leaves are the nodes of the listed keys that nothing was registered below.
RouteNodes == {NodeOf(k.method, Pieces(k.pattern)) : k \in Range(patterns)}
LeafInv ==
  /\ leaf \subseteq RouteNodes \cup {Root}
  /\ Root \in leaf => nodes = {Root}
  /\ \A n \in RouteNodes : n \in leaf \/ \E c \in nodes : c # Root /\ Parent(c) = n

BindingInv == TrieInv /\ ImplInv /\ ListInv /\ CallInv /\ LeafInv

=============================================================================
