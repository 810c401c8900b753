---------------------------- MODULE EventLoopProofs ----------------------------
(***************************************************************************)
(* Theorems about EventLoop, for any set of connections, any number of     *)
(* threads that call stop() and any limit on the destructor's passes.      *)
(***************************************************************************)
EXTENDS EventLoop, TLAPS

(* What uv_close() on a set of handles does to one of them.                 *)
LEMMA UvCloseAt ==
    ASSUME NEW S, UvClose(S), NEW x \in Handles
    PROVE  /\ x \in S => h'[x] = "closing" /\ closeCalls'[x] = closeCalls[x] + 1
           /\ x \notin S => h'[x] = h[x] /\ closeCalls'[x] = closeCalls[x]
  BY DEF UvClose

LEMMA UvCloseType ==
    ASSUME TypeOK, NEW S, UvClose(S)
    PROVE  /\ h' \in [Handles -> {"none", "open", "closing", "closed"}]
           /\ closeCalls' \in [Handles -> Nat]
  BY DEF UvClose, TypeOK

(* What an accepted connection does to the handles.                         *)
LEMMA OnConnectionAt ==
    ASSUME TypeOK, OnConnection, NEW x \in Handles
    PROVE  \/ h'[x] = h[x] /\ closeCalls'[x] = closeCalls[x]
           \/ /\ x \in Conns /\ h[x] \in {"none", "closed"}
              /\ \/ h'[x] = "open" /\ closeCalls'[x] = 0
                 \/ h'[x] = "closing" /\ closeCalls'[x] = 1
<1>1. CASE UNCHANGED <<h, closeCalls>>
  BY <1>1
<1>2. ASSUME NEW c \in Conns, h[c] \in {"none", "closed"},
             \/ h' = [h EXCEPT ![c] = "open"] /\ closeCalls' = [closeCalls EXCEPT ![c] = 0]
             \/ h' = [h EXCEPT ![c] = "closing"] /\ closeCalls' = [closeCalls EXCEPT ![c] = 1]
      PROVE  \/ h'[x] = h[x] /\ closeCalls'[x] = closeCalls[x]
             \/ /\ x \in Conns /\ h[x] \in {"none", "closed"}
                /\ \/ h'[x] = "open" /\ closeCalls'[x] = 0
                   \/ h'[x] = "closing" /\ closeCalls'[x] = 1
  <2>1. CASE x = c
    BY <1>2, <2>1 DEF TypeOK
  <2>2. CASE x # c
    BY <1>2, <2>2 DEF TypeOK
  <2> QED BY <2>1, <2>2
<1> QED BY <1>1, <1>2, Zenon DEF OnConnection

LEMMA TypeInit == Init => TypeOK
<1> SUFFICES ASSUME Init PROVE TypeOK
  OBVIOUS
<1>1. 0 \in 0 .. SpinLimit /\ 0 \in Nat
  BY SpinAssumption
<1>2. closeCalls \in [Handles -> Nat]
  BY <1>1 DEF Init
<1> QED BY <1>1, <1>2, Zenon DEF Init, TypeOK

LEMMA TypeStep == TypeOK /\ [Next]_vars => TypeOK'
<1> SUFFICES ASSUME TypeOK, [Next]_vars PROVE TypeOK'
  OBVIOUS
<1> USE DEF TypeOK, flags, uv
<1>1. CASE Construct
  BY <1>1 DEF Construct
<1>2. CASE ConstructThrows
  BY <1>2 DEF ConstructThrows
<1>3. CASE ServeCalled
  BY <1>3 DEF ServeCalled
<1>4. CASE ServeStarts \/ OnListeningReturns \/ OnListeningThrows
  BY <1>4 DEF ServeStarts, OnListeningReturns, OnListeningThrows
<1>5. CASE ServeReturns
  BY <1>5 DEF ServeReturns
<1>6. CASE Destroy
  BY <1>6, SpinAssumption DEF Destroy, AsyncSend
<1>7. CASE LoopClose
  BY <1>7 DEF LoopClose
<1>8. CASE BeginPass
  <2>1. passes' \in 0 .. SpinLimit
    BY <1>8, SpinAssumption DEF BeginPass
  <2>2. ready' \subseteq {x \in Handles : h[x] = "open"}
    BY <1>8 DEF BeginPass, Handles
  <2>3. inPass' = TRUE /\ UNCHANGED <<pc, flags, caller, h, closeCalls, asyncPending, walks>>
    BY <1>8, Zenon DEF BeginPass
  <2>4. UNCHANGED <<stopRequested, running, threw, pc, caller, h, closeCalls, asyncPending, walks>>
    BY <2>3
  <2> QED BY <2>1, <2>2, <2>3, <2>4, Zenon
<1>9. CASE OnConnection
  BY <1>9 DEF OnConnection
<1>10. ASSUME NEW c \in Conns, OnConnEvent(c) PROVE TypeOK'
  BY <1>10, UvCloseType, UvCloseAt DEF OnConnEvent
<1>11. CASE OnStop
  <2>1. /\ h' \in [Handles -> {"none", "open", "closing", "closed"}]
        /\ closeCalls' \in [Handles -> Nat]
    BY <1>11, UvCloseType, Zenon DEF OnStop
  <2>2. walks' \in Nat /\ ready' = {} /\ asyncPending' = FALSE
    BY <1>11 DEF OnStop
  <2>3. UNCHANGED <<stopRequested, running, threw, pc, caller, inPass, passes>>
    BY <1>11 DEF OnStop
  <2> QED BY <2>1, <2>2, <2>3, Zenon
<1>12. CASE EndPass
  BY <1>12 DEF EndPass
<1>13. ASSUME NEW t \in Stoppers, StopSets(t) PROVE TypeOK'
  BY <1>13 DEF StopSets
<1>14. ASSUME NEW t \in Stoppers, StopSends(t) PROVE TypeOK'
  BY <1>14 DEF StopSends, AsyncSend
<1>15. CASE UNCHANGED vars
  BY <1>15 DEF vars
<1> QED BY <1>1, <1>2, <1>3, <1>4, <1>5, <1>6, <1>7, <1>8, <1>9, <1>10, <1>11,
           <1>12, <1>13, <1>14, <1>15 DEF Next, Owner, Pass, Stops, Finished

(* The loop's state stays within its types; a pass only ever has events of   *)
(* handles that are open.                                                    *)
THEOREM TypeCorrect == Spec => []TypeOK
  BY TypeInit, TypeStep, PTL DEF Spec

-------------------------------------------------------------------------------
(* The parts of the inductive invariant, one lemma each.                     *)

LEMMA PhaseStep == TypeOK /\ PhaseInv /\ WalkInv /\ [Next]_vars => PhaseInv'
<1> SUFFICES ASSUME TypeOK, PhaseInv, WalkInv, [Next]_vars PROVE PhaseInv'
  OBVIOUS
<1> USE DEF PhaseInv, flags, uv
<1>1. CASE Construct \/ ConstructThrows
  BY <1>1 DEF Construct, ConstructThrows
<1>2. CASE ServeCalled \/ ServeStarts \/ ServeReturns \/ LoopClose
  BY <1>2 DEF ServeCalled, ServeStarts, ServeReturns, LoopClose
<1>12. CASE OnListeningReturns \/ OnListeningThrows
  BY <1>12 DEF OnListeningReturns, OnListeningThrows
<1>3. CASE Destroy
  BY <1>3 DEF Destroy, AsyncSend
<1>4. CASE BeginPass
  <2>1. /\ pc \in {"run", "spin"} /\ inPass'
        /\ UNCHANGED <<pc, stopRequested, running, threw, caller, h, asyncPending, walks>>
    BY <1>4 DEF BeginPass
  <2>2. Stopper \in ready' => asyncPending
    BY <1>4 DEF BeginPass
  <2> QED BY <2>1, <2>2
<1>5. CASE OnConnection
  <2>1. /\ inPass /\ ready' \subseteq ready
        /\ UNCHANGED <<pc, stopRequested, running, threw, caller, inPass, asyncPending, walks>>
    BY <1>5 DEF OnConnection
  <2> QED BY <2>1
<1>6. ASSUME NEW c \in Conns, OnConnEvent(c) PROVE PhaseInv'
  <2>1. /\ inPass /\ ready' \subseteq ready
        /\ UNCHANGED <<pc, stopRequested, running, threw, caller, inPass, asyncPending, walks>>
    BY <1>6 DEF OnConnEvent
  <2> QED BY <2>1
<1>7. CASE OnStop
  <2>1. /\ inPass /\ ready' = {} /\ asyncPending' = FALSE
        /\ UNCHANGED <<pc, stopRequested, running, threw, caller, inPass>>
    BY <1>7 DEF OnStop
  <2> QED BY <2>1
<1>8. CASE EndPass
  <2>1. /\ inPass /\ ready = {} /\ ~inPass'
        /\ UNCHANGED <<pc, stopRequested, running, threw, caller, asyncPending, walks, ready>>
    BY <1>8 DEF EndPass
  <2> QED BY <2>1
<1>9. ASSUME NEW t \in Stoppers, StopSets(t) PROVE PhaseInv'
  BY <1>9 DEF StopSets, ObjectAlive, TypeOK
<1>10. ASSUME NEW t \in Stoppers, StopSends(t) PROVE PhaseInv'
  <2>1. /\ stopRequested /\ (asyncPending => asyncPending')
        /\ \A u \in Stoppers : caller'[u] # "idle" => caller[u] # "idle"
        /\ UNCHANGED <<pc, stopRequested, running, threw, h, inPass, walks, ready>>
    BY <1>10 DEF StopSends, AsyncSend, TypeOK
  <2>2. pc # "constructing"
    BY <2>1
  <2> QED BY <2>1, <2>2
<1>11. CASE UNCHANGED vars
  BY <1>11 DEF vars
<1> QED BY <1>1, <1>2, <1>3, <1>4, <1>5, <1>6, <1>7, <1>8, <1>9, <1>10, <1>11,
           <1>12 DEF Next, Owner, Pass, Stops, Finished

LEMMA WalkStep == TypeOK /\ PhaseInv /\ WalkInv /\ [Next]_vars => WalkInv'
<1> SUFFICES ASSUME TypeOK, PhaseInv, WalkInv, [Next]_vars PROVE WalkInv'
  OBVIOUS
<1> USE DEF WalkInv, NothingOpenAfterWalk, flags, uv
<1>0. Listener \in Handles /\ Stopper \in Handles
  BY DEF Handles
<1>1. CASE Construct
  <2>1. /\ h' = [h EXCEPT ![Listener] = "open", ![Stopper] = "open"]
        /\ walks = 0 /\ walks' = 0 /\ pc' = "ready"
    BY <1>1 DEF Construct, PhaseInv
  <2>2. h'[Listener] = "open" /\ h'[Stopper] = "open"
    BY <1>0, <2>1, HandlesAssumption DEF TypeOK
  <2> QED BY <2>1, <2>2
<1>2. CASE ConstructThrows
  BY <1>2 DEF ConstructThrows, PhaseInv
<1>3. CASE ServeCalled \/ ServeStarts \/ OnListeningReturns \/ OnListeningThrows \/ LoopClose
  BY <1>3 DEF ServeCalled, ServeStarts, OnListeningReturns, OnListeningThrows, LoopClose
<1>4. CASE ServeReturns
  <2>1. pc = "run" /\ h[Listener] # "open"
    BY <1>0, <1>4 DEF ServeReturns, Alive
  <2>2. walks > 0
    BY <2>1 DEF TypeOK
  <2> QED BY <1>4, <2>2 DEF ServeReturns
<1>5. CASE Destroy
  BY <1>5 DEF Destroy
<1>6. CASE BeginPass
  BY <1>6 DEF BeginPass
<1>7. CASE OnConnection
  <2>1. walks = 0 /\ UNCHANGED <<walks, pc, stopRequested>>
    <3>1. Listener \in ready
      BY <1>7 DEF OnConnection
    <3>2. h[Listener] = "open"
      BY <3>1 DEF TypeOK
    <3> QED BY <1>0, <1>7, <3>2 DEF OnConnection, TypeOK
  <2>2. h'[Listener] = h[Listener] /\ h'[Stopper] = h[Stopper]
    BY <1>0, <1>7, OnConnectionAt, HandlesAssumption
  <2> QED BY <2>1, <2>2
<1>8. ASSUME NEW c \in Conns, OnConnEvent(c) PROVE WalkInv'
  <2>1. walks = 0 /\ UNCHANGED <<walks, pc, stopRequested>>
    <3>1. c \in Handles /\ h[c] = "open"
      BY <1>8 DEF OnConnEvent, TypeOK
    <3> QED BY <1>8, <3>1 DEF OnConnEvent, TypeOK
  <2>2. c # Listener /\ c # Stopper
    BY HandlesAssumption
  <2>3. h'[Listener] = h[Listener] /\ h'[Stopper] = h[Stopper]
    BY <1>0, <1>8, <2>2 DEF OnConnEvent, UvClose
  <2> QED BY <2>1, <2>3
<1>9. CASE OnStop
  <2>1. Stopper \in ready /\ stopRequested /\ walks' = walks + 1
        /\ UNCHANGED <<pc, stopRequested>>
    BY <1>9 DEF OnStop, PhaseInv
  <2>2. walks = 0
    <3>1. h[Stopper] = "open"
      BY <2>1 DEF TypeOK
    <3> QED BY <1>0, <3>1 DEF TypeOK
  <2>3. \A x \in Handles : h'[x] # "open"
    <3> DEFINE S == {x \in Handles : h[x] = "open"}
    <3>1. UvClose(S)
      BY <1>9, Zenon DEF OnStop
    <3> QED BY <3>1, UvCloseAt
  <2> QED BY <2>1, <2>2, <2>3
<1>10. CASE EndPass
  <2>1. UNCHANGED <<walks, pc, stopRequested>>
        /\ \A x \in Handles : (h'[x] = "open") <=> (h[x] = "open")
    BY <1>10 DEF EndPass
  <2> QED BY <1>0, <2>1
<1>11. ASSUME NEW t \in Stoppers, StopSets(t) PROVE WalkInv'
  BY <1>11 DEF StopSets
<1>12. ASSUME NEW t \in Stoppers, StopSends(t) PROVE WalkInv'
  BY <1>12 DEF StopSends
<1>13. CASE UNCHANGED vars
  BY <1>13 DEF vars
<1> QED BY <1>1, <1>2, <1>3, <1>4, <1>5, <1>6, <1>7, <1>8, <1>9, <1>10, <1>11, <1>12,
           <1>13 DEF Next, Owner, Pass, Stops, Finished
(* The actions that leave every handle as it is.                             *)
Quiet == \/ ServeCalled \/ ServeStarts \/ OnListeningReturns \/ OnListeningThrows
         \/ ServeReturns \/ Destroy \/ LoopClose
         \/ BeginPass \/ Stops \/ UNCHANGED vars

LEMMA QuietHandles ==
    ASSUME Quiet PROVE h' = h /\ closeCalls' = closeCalls
  BY DEF Quiet, ServeCalled, ServeStarts, OnListeningReturns, OnListeningThrows, ServeReturns, Destroy, LoopClose, BeginPass,
         Stops, StopSets, StopSends, vars, uv

LEMMA HandleStep ==
    TypeOK /\ PhaseInv /\ WalkInv /\ HandleInv /\ [Next]_vars => HandleInv'
<1> SUFFICES ASSUME TypeOK, PhaseInv, WalkInv, HandleInv, [Next]_vars,
                    NEW x \in Handles
             PROVE  /\ h'[x] \in {"none", "open"} => closeCalls'[x] = 0
                    /\ h'[x] \in {"closing", "closed"} => closeCalls'[x] = 1
  BY DEF HandleInv
<1>0. /\ h[x] \in {"none", "open"} => closeCalls[x] = 0
      /\ h[x] \in {"closing", "closed"} => closeCalls[x] = 1
  BY DEF HandleInv
<1>1. CASE Construct \/ ConstructThrows
  <2>1. h[x] = "none" /\ closeCalls' = closeCalls
    BY <1>1 DEF Construct, ConstructThrows, PhaseInv
  <2>2. h'[x] \in {"none", "open"}
    BY <1>1, <2>1 DEF Construct, ConstructThrows, TypeOK
  <2> QED BY <1>0, <2>1, <2>2
<1>2. CASE Quiet
  BY <1>0, <1>2, QuietHandles
<1>3. CASE OnConnection
  BY <1>0, <1>3, OnConnectionAt
<1>4. ASSUME NEW c \in Conns, OnConnEvent(c)
      PROVE  /\ h'[x] \in {"none", "open"} => closeCalls'[x] = 0
             /\ h'[x] \in {"closing", "closed"} => closeCalls'[x] = 1
  <2>1. h[c] = "open"
    BY <1>4 DEF OnConnEvent, TypeOK
  <2>2. CASE UNCHANGED <<h, closeCalls>>
    BY <1>0, <2>2
  <2>3. CASE UvClose({c})
    BY <1>0, <2>1, <2>3, UvCloseAt
  <2> QED BY <1>4, <2>2, <2>3, Zenon DEF OnConnEvent
<1>5. CASE OnStop
  <2> DEFINE S == {y \in Handles : h[y] = "open"}
  <2>1. UvClose(S)
    BY <1>5, Zenon DEF OnStop
  <2> QED BY <1>0, <2>1, UvCloseAt
<1>6. CASE EndPass
  BY <1>0, <1>6 DEF EndPass
<1> QED BY <1>1, <1>2, <1>3, <1>4, <1>5, <1>6, Zenon
        DEF Next, Owner, Pass, Finished, Quiet

LEMMA SpinStep ==
    TypeOK /\ PhaseInv /\ WalkInv /\ SpinInv /\ [Next]_vars => SpinInv'
<1> SUFFICES ASSUME TypeOK, PhaseInv, WalkInv, SpinInv, [Next]_vars PROVE SpinInv'
  OBVIOUS
<1> USE DEF SpinInv, LoopCloseSucceeds, Ended
<1>1. CASE \/ Construct \/ ConstructThrows \/ ServeCalled \/ ServeStarts
           \/ OnListeningReturns \/ OnListeningThrows \/ ServeReturns
  BY <1>1 DEF Construct, ConstructThrows, ServeCalled, ServeStarts, OnListeningReturns,
              OnListeningThrows, ServeReturns
<1>2. CASE Destroy
  <2>1. /\ pc \in {"ready", "returned"} /\ pc' = "spin" /\ passes' = 0
        /\ UNCHANGED <<h, inPass, walks>> /\ ~inPass
    BY <1>2 DEF Destroy, PhaseInv
  <2>2. walks = 0 => asyncPending'
    BY <1>2, <2>1 DEF Destroy, AsyncSend, WalkInv
  <2> QED BY <2>1, <2>2
<1>3. CASE LoopClose
  <2>1. pc = "spin" /\ ~inPass /\ pc' = "destroyed" /\ h' = h
    BY <1>3 DEF LoopClose, uv
  <2>2. CASE ~Alive
    BY <2>1, <2>2 DEF Alive, TypeOK
  <2>3. CASE passes = SpinLimit
    BY <2>1, <2>3, SpinAssumption
  <2> QED BY <1>3, <2>1, <2>2, <2>3 DEF LoopClose
<1>4. CASE BeginPass
  <2>1. /\ pc \in {"run", "spin"} /\ inPass'
        /\ UNCHANGED <<pc, h, asyncPending, walks>>
    BY <1>4 DEF BeginPass
  <2>2. pc = "spin" /\ walks = 0 => asyncPending /\ Stopper \in ready'
    BY <1>4 DEF BeginPass, WalkInv
  <2> QED BY <2>1, <2>2
<1>5. CASE OnConnection \/ \E c \in Conns : OnConnEvent(c)
  <2>1. /\ inPass /\ UNCHANGED <<pc, inPass, asyncPending, walks>>
        /\ (Stopper \in ready => Stopper \in ready')
    BY <1>5, HandlesAssumption DEF OnConnection, OnConnEvent
  <2>2. pc \in {"run", "spin"}
    BY <2>1 DEF PhaseInv
  <2> QED BY <2>1, <2>2
<1>6. CASE OnStop
  <2>1. inPass /\ UNCHANGED <<pc, inPass>> /\ walks' = walks + 1
    BY <1>6 DEF OnStop
  <2>2. pc \in {"run", "spin"} /\ walks' # 0
    BY <2>1 DEF PhaseInv, TypeOK
  <2> QED BY <2>1, <2>2
<1>7. CASE EndPass
  <2>1. /\ inPass /\ ready = {} /\ ~inPass' /\ UNCHANGED <<pc, walks, asyncPending>>
        /\ \A x \in Handles : h'[x] = IF h[x] = "closing" THEN "closed" ELSE h[x]
    BY <1>7 DEF EndPass
  <2>2. pc \in {"run", "spin"}
    BY <2>1 DEF PhaseInv
  <2>3. ASSUME pc = "spin" PROVE walks > 0 /\ \A x \in Handles : h'[x] \in {"none", "closed"}
    <3>1. walks > 0
      BY <2>1, <2>3 DEF TypeOK
    <3>2. \A x \in Handles : h[x] # "open"
      BY <3>1 DEF WalkInv, NothingOpenAfterWalk
    <3> QED BY <2>1, <3>1, <3>2 DEF TypeOK
  <2> QED BY <2>1, <2>2, <2>3
<1>8. CASE Stops
  <2>1. UNCHANGED <<pc, h, inPass, ready, passes, walks>> /\ (asyncPending => asyncPending')
    <3>1. ASSUME NEW t \in Stoppers, StopSets(t)
          PROVE  UNCHANGED <<pc, h, inPass, ready, passes, walks, asyncPending>>
      BY <3>1 DEF StopSets, uv
    <3>2. ASSUME NEW t \in Stoppers, StopSends(t)
          PROVE  /\ UNCHANGED <<pc, h, inPass, ready, passes, walks>>
                 /\ asyncPending => asyncPending'
      BY <3>2, Zenon DEF StopSends, AsyncSend
    <3> QED BY <1>8, <3>1, <3>2 DEF Stops
  <2> QED BY <2>1
<1>9. CASE UNCHANGED vars
  BY <1>9 DEF vars, uv
<1> QED BY <1>1, <1>2, <1>3, <1>4, <1>5, <1>6, <1>7, <1>8, <1>9
        DEF Next, Owner, Pass, Finished

LEMMA InvInit == Init => IInv
<1> SUFFICES ASSUME Init PROVE IInv
  OBVIOUS
<1>1. PhaseInv
  BY DEF Init, PhaseInv
<1>2. WalkInv
  BY DEF Init, WalkInv, NothingOpenAfterWalk
<1>3. HandleInv /\ SpinInv
  BY DEF Init, HandleInv, SpinInv, LoopCloseSucceeds
<1> QED BY <1>1, <1>2, <1>3 DEF IInv

(* IInv is inductive.                                                        *)
THEOREM Invariance == Spec => [](TypeOK /\ IInv)
<1>1. TypeOK /\ IInv /\ [Next]_vars => IInv'
  BY PhaseStep, WalkStep, HandleStep, SpinStep, Zenon DEF IInv
<1> QED BY <1>1, InvInit, TypeInit, TypeStep, PTL DEF Spec

(* ~HttpServer(): whatever threads called stop() and whatever clients did,   *)
(* one pass of the loop is enough for uv_loop_close() to succeed.            *)
THEOREM DestructorFreesAll == Spec => []LoopCloseSucceeds
<1>1. IInv => LoopCloseSucceeds
  BY Zenon DEF IInv, SpinInv
<1> QED BY <1>1, Invariance, PTL

(* stop() and onStop(): one walk however many calls, and every handle is     *)
(* closed once.                                                              *)
THEOREM StopsOnce == Spec => []ClosedOnce
<1>1. TypeOK /\ IInv => ClosedOnce
  <2> SUFFICES ASSUME TypeOK, WalkInv, HandleInv PROVE ClosedOnce
    BY Zenon DEF IInv
  <2>1. walks <= 1
    BY DEF WalkInv
  <2>2. ASSUME NEW x \in Handles PROVE closeCalls[x] <= 1
    <3>1. h[x] \in {"none", "open", "closing", "closed"}
      BY DEF TypeOK
    <3> QED BY <3>1 DEF HandleInv
  <2> QED BY <2>1, <2>2 DEF ClosedOnce
<1> QED BY <1>1, Invariance, PTL

(* onStop(): after the walk nothing is open and nothing opens.               *)
THEOREM NothingOpens == Spec => []NothingOpenAfterWalk
<1>1. IInv => NothingOpenAfterWalk
  BY Zenon DEF IInv, WalkInv
<1> QED BY <1>1, Invariance, PTL

(* serve() comes back only when it was asked to, and running is cleared but  *)
(* for an onListening() that threw.                                          *)
THEOREM ServeReturnsStopped == Spec => []ReturnsStopped
<1>1. IInv => ReturnsStopped
  BY DEF IInv, PhaseInv, WalkInv, ReturnsStopped
<1> QED BY <1>1, Invariance, PTL
================================================================================
