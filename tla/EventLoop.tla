------------------------------- MODULE EventLoop -------------------------------
(***************************************************************************)
(* The life of an HttpServer: constructor, serve(), stop() from any thread *)
(* and destructor (src/HttpServer.cpp), over libuv's loop and its handles: *)
(* the listening socket, the async handle that stop() pokes, and one handle *)
(* per connection.                                                         *)
(*                                                                         *)
(* The owner's thread constructs, serves and destroys.  The threads in     *)
(* Stoppers each call stop() once, at any time the object is alive, inside *)
(* a handler or onListening() as well as before serve() is entered: stop() *)
(* is two steps, and so is the entry of serve().  A pass of uv_run() takes *)
(* a snapshot of the events that are ready, serves them in any order, and  *)
(* then runs the close callbacks.  What a connection does in between is    *)
(* the business of module Connection: here it closes when it likes.        *)
(***************************************************************************)
EXTENDS Integers, FiniteSets

CONSTANTS
    Conns,      \* connections that may exist at the same time
    Stoppers,   \* threads that call stop()
    Listener,   \* Loop::server
    Stopper,    \* Loop::stopper
    SpinLimit   \* passes the destructor allows (64 in the code)

Handles == Conns \cup {Listener, Stopper}

ASSUME HandlesAssumption ==
    Listener # Stopper /\ Listener \notin Conns /\ Stopper \notin Conns
ASSUME SpinAssumption == SpinLimit \in Nat \ {0}

VARIABLES
    pc,            \* where the owner's thread is
    stopRequested, \* HttpServer::stopRequested
    running,       \* HttpServer::running
    threw,         \* history: onListening() has thrown out of serve()
    caller,        \* caller[t]: how far thread t is in stop()
    h,             \* h[x]: "none", "open", "closing", "closed"
    closeCalls,    \* closeCalls[x]: uv_close() calls in the life of handle x
    asyncPending,  \* the async handle was sent to and has not been served
    inPass,        \* uv_run() is inside a pass
    ready,         \* the events of this pass still to be served
    passes,        \* passes the destructor has made
    walks          \* history: how often onStop() ran

flags  == <<stopRequested, running, threw>>
uv     == <<h, closeCalls, asyncPending, inPass, ready>>
vars   == <<pc, flags, caller, uv, passes, walks>>

Init ==
    /\ pc = "constructing"
    /\ stopRequested = FALSE /\ running = FALSE /\ threw = FALSE
    /\ caller = [t \in Stoppers |-> "idle"]
    /\ h = [x \in Handles |-> "none"]
    /\ closeCalls = [x \in Handles |-> 0]
    /\ asyncPending = FALSE /\ inPass = FALSE /\ ready = {}
    /\ passes = 0 /\ walks = 0

Alive == \E x \in Handles : h[x] \in {"open", "closing"}    \* uv_loop_alive()

-------------------------------------------------------------------------------
(* The constructor.  When bind or listen fails it throws with both handles  *)
(* initialised; when the loop cannot be created it throws with none.  A     *)
(* constructor that threw leaves no object to serve, stop or destroy.       *)

Construct ==
    /\ pc = "constructing"
    /\ pc' = "ready"
    /\ h' = [h EXCEPT ![Listener] = "open", ![Stopper] = "open"]
    /\ UNCHANGED <<flags, caller, closeCalls, asyncPending, inPass, ready,
                   passes, walks>>

ConstructThrows ==
    /\ pc = "constructing"
    /\ pc' = "failed"
    /\ \/ UNCHANGED h
       \/ h' = [h EXCEPT ![Listener] = "open", ![Stopper] = "open"]
    /\ UNCHANGED <<flags, caller, closeCalls, asyncPending, inPass, ready,
                   passes, walks>>

-------------------------------------------------------------------------------
(* serve(): the early return, then running = true and onListening(), then   *)
(* the loop until nothing in it is alive.                                   *)

ServeCalled ==
    /\ pc \in {"ready", "returned"}
    /\ pc' = IF stopRequested THEN "returned" ELSE "entered"
    /\ UNCHANGED <<flags, caller, uv, passes, walks>>

ServeStarts ==
    /\ pc = "entered"
    /\ pc' = "listening"
    /\ running' = TRUE
    /\ UNCHANGED <<stopRequested, threw, caller, uv, passes, walks>>

OnListeningReturns ==
    /\ pc = "listening"
    /\ pc' = "run"
    /\ UNCHANGED <<flags, caller, uv, passes, walks>>

(* The exception leaves serve() before the loop ran and past the line that   *)
(* resets running; the owner may serve again, or destroy the server.         *)
OnListeningThrows ==
    /\ pc = "listening"
    /\ pc' = "ready"
    /\ threw' = TRUE
    /\ UNCHANGED <<stopRequested, running, caller, uv, passes, walks>>

(* Mutation: the flag stays set.                                             *)
ServeReturnsRunning ==
    /\ pc = "run" /\ ~inPass /\ ~Alive
    /\ pc' = "returned"
    /\ UNCHANGED <<flags, caller, uv, passes, walks>>

ServeReturns ==
    /\ pc = "run" /\ ~inPass /\ ~Alive
    /\ pc' = "returned"
    /\ running' = FALSE
    /\ UNCHANGED <<stopRequested, threw, caller, uv, passes, walks>>

-------------------------------------------------------------------------------
(* stop(): the flag first, then uv_async_send(), which coalesces with a send *)
(* that is still pending.  On a closed async handle it wakes nobody.         *)

ObjectAlive == pc \in {"ready", "entered", "listening", "run", "returned"}

StopSets(t) ==
    /\ ObjectAlive /\ caller[t] = "idle"
    /\ caller' = [caller EXCEPT ![t] = "set"]
    /\ stopRequested' = TRUE
    /\ UNCHANGED <<pc, running, threw, uv, passes, walks>>

AsyncSend == asyncPending' = (asyncPending \/ h[Stopper] = "open")

(* Mutation: stop() pokes the loop only if it sees it running.               *)
StopSendsIfRunning(t) ==
    /\ caller[t] = "set"
    /\ caller' = [caller EXCEPT ![t] = "done"]
    /\ IF running THEN AsyncSend ELSE UNCHANGED asyncPending
    /\ UNCHANGED <<pc, flags, h, closeCalls, inPass, ready, passes, walks>>

StopSends(t) ==
    /\ caller[t] = "set"
    /\ caller' = [caller EXCEPT ![t] = "done"]
    /\ AsyncSend
    /\ UNCHANGED <<pc, flags, h, closeCalls, inPass, ready, passes, walks>>

-------------------------------------------------------------------------------
(* The destructor: its own stop(), then at most SpinLimit passes that do not *)
(* wait, then uv_loop_close().  The owner destroys the server only when no   *)
(* call of stop() is under way.                                              *)

(* Mutation: a destructor that does not stop the loop first.                 *)
DestroyUnstopped ==
    /\ pc \in {"ready", "returned"}
    /\ \A t \in Stoppers : caller[t] # "set"
    /\ pc' = "spin" /\ passes' = 0
    /\ UNCHANGED <<flags, caller, uv, walks>>

Destroy ==
    /\ pc \in {"ready", "returned"}
    /\ \A t \in Stoppers : caller[t] # "set"
    /\ pc' = "spin" /\ passes' = 0
    /\ stopRequested' = TRUE
    /\ AsyncSend
    /\ UNCHANGED <<running, threw, caller, h, closeCalls, inPass, ready, walks>>

LoopClose ==
    /\ pc = "spin" /\ ~inPass
    /\ ~Alive \/ passes = SpinLimit
    /\ pc' = "destroyed"
    /\ UNCHANGED <<flags, caller, uv, passes, walks>>

-------------------------------------------------------------------------------
(* A pass of uv_run().  serve() uses UV_RUN_DEFAULT, which waits for an      *)
(* event, the destructor UV_RUN_NOWAIT.  Write callbacks, which libuv runs   *)
(* before it polls, count as events of the pass.                             *)

BeginPass ==
    /\ ~inPass /\ Alive
    /\ \/ pc = "run" /\ UNCHANGED passes
       \/ pc = "spin" /\ passes < SpinLimit /\ passes' = passes + 1
    /\ inPass' = TRUE
    /\ \E events \in SUBSET {x \in Handles \ {Stopper} : h[x] = "open"} :
          /\ ready' = events \cup
                      (IF asyncPending /\ h[Stopper] = "open" THEN {Stopper} ELSE {})
          /\ pc = "run" => ready' # {}
    /\ UNCHANGED <<pc, flags, caller, h, closeCalls, asyncPending, walks>>

(* uv_close() takes the handle's events out of the pass.                     *)
UvClose(S) ==
    /\ h' = [x \in Handles |-> IF x \in S THEN "closing" ELSE h[x]]
    /\ closeCalls' = [x \in Handles |->
                        IF x \in S THEN closeCalls[x] + 1 ELSE closeCalls[x]]

(* onConnection(): a connection of the backlog becomes a Conn; if uv_accept() *)
(* fails the new handle is closed at once.                                    *)
OnConnection ==
    /\ inPass /\ Listener \in ready
    /\ ready' = ready \ {Listener}
    /\ \/ \E c \in Conns :
             /\ h[c] \in {"none", "closed"}
             /\ \/ /\ h' = [h EXCEPT ![c] = "open"]
                   /\ closeCalls' = [closeCalls EXCEPT ![c] = 0]
                \/ /\ h' = [h EXCEPT ![c] = "closing"]
                   /\ closeCalls' = [closeCalls EXCEPT ![c] = 1]
       \/ UNCHANGED <<h, closeCalls>>            \* accept failed: status < 0
    /\ UNCHANGED <<pc, flags, caller, asyncPending, inPass, passes, walks>>

(* A callback of connection c: it goes on, or it calls closeConn().           *)
OnConnEvent(c) ==
    /\ inPass /\ c \in ready
    /\ ready' = ready \ {c}
    /\ \/ UNCHANGED <<h, closeCalls>>
       \/ UvClose({c})
    /\ UNCHANGED <<pc, flags, caller, asyncPending, inPass, passes, walks>>

(* Mutations: the walk forgets the listener, does not ask uv_is_closing(), or *)
(* leaves the events of closed handles in the pass.                           *)
OnStopKeepsListener ==
    /\ inPass /\ Stopper \in ready
    /\ asyncPending' = FALSE /\ walks' = walks + 1
    /\ UvClose({x \in Handles \ {Listener} : h[x] = "open"})
    /\ ready' = ready \cap {Listener}
    /\ UNCHANGED <<pc, flags, caller, inPass, passes>>
OnStopClosesTwice ==
    /\ inPass /\ Stopper \in ready
    /\ asyncPending' = FALSE /\ walks' = walks + 1
    /\ UvClose({x \in Handles : h[x] \in {"open", "closing"}})
    /\ ready' = {}
    /\ UNCHANGED <<pc, flags, caller, inPass, passes>>
OnStopKeepsEvents ==
    /\ inPass /\ Stopper \in ready
    /\ asyncPending' = FALSE /\ walks' = walks + 1
    /\ UvClose({x \in Handles : h[x] = "open"})
    /\ ready' = ready \ {Stopper}
    /\ UNCHANGED <<pc, flags, caller, inPass, passes>>

(* onStop(): every handle that is not closing is closed.                      *)
OnStop ==
    /\ inPass /\ Stopper \in ready
    /\ asyncPending' = FALSE
    /\ walks' = walks + 1
    /\ UvClose({x \in Handles : h[x] = "open"})
    /\ ready' = {}
    /\ UNCHANGED <<pc, flags, caller, inPass, passes>>

(* The end of a pass: the close callbacks; onConnClosed() deletes the Conn.   *)
EndPass ==
    /\ inPass /\ ready = {}
    /\ inPass' = FALSE
    /\ h' = [x \in Handles |-> IF h[x] = "closing" THEN "closed" ELSE h[x]]
    /\ UNCHANGED <<pc, flags, caller, closeCalls, asyncPending, ready, passes,
                   walks>>

Finished == pc \in {"destroyed", "failed"} /\ UNCHANGED vars

-------------------------------------------------------------------------------
Owner   == Construct \/ ConstructThrows \/ ServeCalled \/ ServeStarts
           \/ OnListeningReturns \/ OnListeningThrows \/ ServeReturns \/ Destroy \/ LoopClose
Pass    == BeginPass \/ OnConnection \/ (\E c \in Conns : OnConnEvent(c))
           \/ OnStop \/ EndPass
Stops   == \E t \in Stoppers : StopSets(t) \/ StopSends(t)
Next    == Owner \/ Pass \/ Stops \/ Finished

Spec == Init /\ [][Next]_vars

(* A thread inside serve(), uv_run() or stop() goes on, and onListening()     *)
(* returns or throws; no thread has to call them, and no client has to        *)
(* connect or leave.                                                          *)
FairSpec ==
    /\ Spec
    /\ WF_vars(ServeStarts) /\ WF_vars(OnListeningReturns \/ OnListeningThrows)
    /\ WF_vars(ServeReturns) /\ WF_vars(LoopClose)
    /\ WF_vars(Pass)
    /\ \A t \in Stoppers : WF_vars(StopSends(t))

-------------------------------------------------------------------------------
TypeOK ==
    /\ pc \in {"constructing", "failed", "ready", "entered", "listening", "run",
               "returned", "spin", "destroyed"}
    /\ stopRequested \in BOOLEAN /\ running \in BOOLEAN /\ threw \in BOOLEAN
    /\ caller \in [Stoppers -> {"idle", "set", "done"}]
    /\ h \in [Handles -> {"none", "open", "closing", "closed"}]
    /\ closeCalls \in [Handles -> Nat]
    /\ asyncPending \in BOOLEAN /\ inPass \in BOOLEAN
    /\ ready \subseteq {x \in Handles : h[x] = "open"}
    /\ passes \in 0 .. SpinLimit /\ walks \in Nat

(* "Spin the loop until they have, so uv_loop_close() can succeed": when the  *)
(* destructor calls it every handle is closed, whether serve() ran or not and *)
(* whoever called stop() when; so no Conn is leaked and none outlives its     *)
(* loop.                                                                      *)
LoopCloseSucceeds ==
    pc = "destroyed" => \A x \in Handles : h[x] \in {"none", "closed"}

(* "safe to call twice": however many threads call stop() and in whatever     *)
(* order, the handles are walked once, and uv_close() is called once in the   *)
(* life of a handle, by the connection's own closeConn() or by onStop().      *)
ClosedOnce == walks <= 1 /\ \A x \in Handles : closeCalls[x] <= 1

(* Once onStop() has run no handle is open or opened again, although accepts  *)
(* and reads may be waiting in the same pass: the loop can only drain.        *)
NothingOpenAfterWalk == walks > 0 => \A x \in Handles : h[x] # "open"

(* serve() comes back only because it was asked to, whatever clients do; only *)
(* an onListening() that threw leaves the flag set that isRunning() reads     *)
(* when no serve() is under way, until a later serve() has come back.         *)
ReturnsStopped ==
    /\ pc = "returned" => stopRequested
    /\ running => pc \in {"listening", "run"} \/ threw

(* stop() is what unblocks serve(): once it has been called a serve() that is *)
(* under way returns, even if stop() fell between the test of the flag and    *)
(* the loop, and even if clients stay connected and idle; or onListening()    *)
(* threw.                                                                     *)
StopReturns ==
    (stopRequested /\ pc \in {"entered", "listening", "run"}) ~> pc \in {"returned", "ready"}

(***************************************************************************)
(* The inductive invariant behind the theorems of EventLoopProofs.         *)
(***************************************************************************)
Ended(x) == h[x] \in {"none", "closed"}

(* Where in its life the server may have handles, passes and events.         *)
PhaseInv ==
    /\ inPass => pc \in {"run", "spin"}
    /\ ~inPass => ready = {}
    /\ pc = "constructing" => /\ \A x \in Handles : h[x] = "none"
                              /\ walks = 0 /\ ~stopRequested /\ ~asyncPending
    /\ running => pc \in {"listening", "run"} \/ threw
    /\ \A t \in Stoppers : caller[t] # "idle" => stopRequested
    /\ asyncPending => stopRequested
    /\ Stopper \in ready => asyncPending

(* The listener and the async handle live until the walk, which ends all.     *)
WalkInv ==
    /\ NothingOpenAfterWalk
    /\ walks = 0 /\ pc \notin {"constructing", "failed"}
          => h[Listener] = "open" /\ h[Stopper] = "open"
    /\ walks <= 1
    /\ walks > 0 => stopRequested
    /\ pc = "returned" => stopRequested

(* Each handle is closed once.                                                *)
HandleInv ==
    \A x \in Handles : /\ h[x] \in {"none", "open"} => closeCalls[x] = 0
                       /\ h[x] \in {"closing", "closed"} => closeCalls[x] = 1

(* The destructor's first pass runs onStop(), so the loop drains in it.       *)
SpinInv ==
    /\ pc = "spin" /\ walks = 0 => asyncPending /\ (inPass => Stopper \in ready)
    /\ pc = "spin" /\ ~inPass /\ passes > 0 => \A x \in Handles : Ended(x)
    /\ LoopCloseSucceeds

IInv == PhaseInv /\ WalkInv /\ HandleInv /\ SpinInv
================================================================================
