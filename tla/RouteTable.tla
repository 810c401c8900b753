----------------------------- MODULE RouteTable -----------------------------
(***************************************************************************)
(* What the route table promises to whoever registers routes and looks     *)
(* them up, stated on the list of registrations and without a trie:        *)
(*                                                                         *)
(*   - a route serves a request when it is registered for its method and   *)
(*     its pattern has as many segments, each a parameter or the same text;*)
(*   - of the routes that serve a request the most literal one answers,    *)
(*     the leftmost segment deciding, and of several with the same         *)
(*     segments the last one registered (README.md:163-168);               *)
(*   - each parameter segment binds the text it stands for, under the name *)
(*     its place in the tree of patterns was given first (trie.cpp:24-26), *)
(*     and of two places with one name the deeper one counts.              *)
(*                                                                         *)
(* A path is the sequence of its non-empty segments; a segment of a        *)
(* pattern is a literal or the name of a parameter.                        *)
(***************************************************************************)
EXTENDS Naturals, Sequences, FiniteSetsExt

CONSTANTS Literals,   \* literal segments of the patterns
          Names,      \* parameter names, ":id" being the name id
          Patterns,   \* the patterns routes are registered with
          Verbs,      \* the registering calls made: "GET", "HEAD", "ALL", ...
          Requests,   \* [method, path]: the requests looked up
          MaxRoutes   \* bound: registrations made

VARIABLES table,      \* registrations in order: [methods, pattern]; the number
                      \* of a registration stands for its handler
          request,    \* the request being looked up, NoRequest between lookups
          answer      \* the last answer: [handler, params], handler 0 for a miss

vars == <<table, request, answer>>

Methods == {"GET", "POST", "PUT", "DELETE", "PATCH", "OPTIONS", "HEAD"}

\* The methods a registering call stores its handler under.
MethodsOf(verb) == CASE verb = "GET" -> {"GET", "HEAD"}
                     [] verb = "ALL" -> Methods
                     [] OTHER        -> {verb}

NoRequest == [method |-> "", path |-> <<>>]

Miss == [handler |-> 0, params |-> <<>>]

-----------------------------------------------------------------------------

Pattern(i) == table[i].pattern

Serves(i, r) ==
  /\ r.method \in table[i].methods
  /\ Len(Pattern(i)) = Len(r.path)
  /\ \A k \in 1..Len(r.path) : Pattern(i)[k] \in Names \cup {r.path[k]}

Serving(r) == {i \in 1..Len(table) : Serves(i, r)}

\* p and q have literals and parameters at the same places up to place k, and
\* the same literals.
SameUpTo(p, q, k) ==
  \A j \in 1..k : p[j] = q[j] \/ {p[j], q[j]} \subseteq Names

\* p is the more literal of two patterns that serve one request.
MoreLiteral(p, q) ==
  \E k \in 1..Len(p) : /\ SameUpTo(p, q, k - 1)
                       /\ p[k] \notin Names
                       /\ q[k] \in Names

Winner(r) ==
  Max({i \in Serving(r) : \A j \in Serving(r) : ~MoreLiteral(Pattern(j), Pattern(i))})

\* The name of the parameter at place k of the pattern p under a method: the
\* one used by the first registration that shares the pattern up to there.
NameAt(method, p, k) ==
  LET Sharing == {i \in 1..Len(table) : /\ method \in table[i].methods
                                        /\ Len(Pattern(i)) >= k
                                        /\ SameUpTo(Pattern(i), p, k)}
  IN  Pattern(Min(Sharing))[k]

Binding(r, i) ==
  LET Places  == {k \in 1..Len(r.path) : Pattern(i)[k] \in Names}
      Name(k) == NameAt(r.method, Pattern(i), k)
  IN  [n \in {Name(k) : k \in Places} |->
         r.path[Max({k \in Places : Name(k) = n})]]

Resolve(r) ==
  IF Serving(r) = {} THEN Miss
  ELSE [handler |-> Winner(r), params |-> Binding(r, Winner(r))]

-----------------------------------------------------------------------------

Init ==
  /\ table = <<>>
  /\ request = NoRequest
  /\ answer = Miss

Register(verb, pattern) ==
  /\ request = NoRequest
  /\ Len(table) < MaxRoutes
  /\ table' = Append(table, [methods |-> MethodsOf(verb), pattern |-> pattern])
  /\ UNCHANGED <<request, answer>>

Ask(r) ==
  /\ request = NoRequest
  /\ request' = r
  /\ answer' = Miss
  /\ UNCHANGED table

Reply ==
  /\ request # NoRequest
  /\ answer' = Resolve(request)
  /\ request' = NoRequest
  /\ UNCHANGED table

Next ==
  \/ \E verb \in Verbs, pattern \in Patterns : Register(verb, pattern)
  \/ \E r \in Requests : Ask(r)
  \/ Reply

\* What may be answered, and that an answer comes.
SafeSpec == Init /\ [][Next]_vars
Spec     == SafeSpec /\ WF_vars(Reply)

=============================================================================
