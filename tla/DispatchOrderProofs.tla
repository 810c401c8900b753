------------------------- MODULE DispatchOrderProofs -------------------------
(***************************************************************************)
(* Theorems about what runs for a request in Dispatch and in which order,  *)
(* for any configuration and any requests, on top of the invariant of      *)
(* DispatchProofs.                                                         *)
(***************************************************************************)
EXTENDS DispatchProofs, FiniteSetTheorems

-----------------------------------------------------------------------------
(* What is on top of the stack after a step.                               *)

LEMMA NowWaits ==
  ASSUME DispatchInv, ~Idle, Return \/ stack' = <<>>
  PROVE  (Idle \/ Waiting)'
<1>1. CASE stack' = <<>>
  BY <1>1 DEF Idle
<1>2. CASE Return
  <2>1. /\ stack' \in Seq(Frames) /\ Len(stack') = Len(stack) - 1
        /\ \A i \in 1..Len(stack) - 1 : stack'[i] = stack[i]
        /\ Len(stack) \in Nat \ {0}
    BY <1>2, ReturnFacts, TopFacts DEF DispatchInv
  <2>2. stack' # <<>> => Len(stack') \in 1..Len(stack) - 1
    BY <2>1, EmptySeq
  <2>3. \A i \in 1..Len(stack) - 1 : stack[i].next = "called"
    BY DEF DispatchInv, StackInv
  <2> QED BY <2>1, <2>2, <2>3, Zenon DEF Idle, Waiting, Top
<1> QED BY <1>1, <1>2

LEMMA NowRuns ==
  ASSUME DispatchInv, ~Idle, NEW f \in Frames, Goto(f)
  PROVE  ~Idle' /\ Top' = f
<1>1. stack' \in Seq(Frames) /\ Len(stack') = Len(stack) /\ stack'[Len(stack)] = f
      /\ Len(stack) \in Nat \ {0}
  BY GotoFacts, TopFacts DEF DispatchInv
<1>2. stack' # <<>>
  BY <1>1, EmptySeq
<1> QED BY <1>1, <1>2, Zenon DEF Idle, Top

LEMMA CallRuns ==
  ASSUME DispatchInv, CallNext
  PROVE  ~Idle' /\ Top' = NextFrame
<1> DEFINE waiting == [Top EXCEPT !.next = "called", !.at = path]
           s == Append(Front(stack), waiting)
<1>1. ~Idle /\ stack' = Append(s, NextFrame)
  BY DEF CallNext, HasEntry
<1>2. stack \in Seq(Frames) /\ stack # <<>> /\ path \in Text /\ Top \in Frames
  BY <1>1, TopFacts DEF DispatchInv, StackInv, Idle
<1>3. waiting \in Frames
  BY <1>2 DEF Frames
<1>4. Front(stack) \in Seq(Frames) /\ NextFrame \in Frames
  BY <1>1, <1>2, FrontFacts, NextFrameFacts DEF DispatchInv
<1> HIDE DEF waiting
<1>5. s \in Seq(Frames)
  BY <1>3, <1>4, AppendProperties
<1> HIDE DEF s
<1>6. Append(s, NextFrame) # <<>> /\ Len(Append(s, NextFrame)) = Len(s) + 1
      /\ Append(s, NextFrame)[Len(s) + 1] = NextFrame
  BY <1>4, <1>5, AppendProperties
<1> QED BY <1>1, <1>6, Zenon DEF Idle, Top

LEMMA RunningOrWaiting ==
  ASSUME DispatchInv, ~Idle
  PROVE  /\ Running <=> Top.next = "not called"
         /\ Waiting <=> Top.next = "called"
         /\ Running <=> ~Waiting
<1>1. Top.next \in {"not called", "called"}
  BY TopFacts DEF DispatchInv, Frames
<1> QED BY <1>1 DEF Running, Waiting

-----------------------------------------------------------------------------
(* The history.                                                            *)

LEMMA Logged ==
  ASSUME ran \in Seq(Range(ran)), NEW e, Log(e)
  PROVE  /\ ran' \in Seq(Range(ran')) /\ Len(ran) \in Nat /\ Len(ran') = Len(ran) + 1
         /\ 1..Len(ran') = 1..Len(ran) \cup {Len(ran')} /\ Len(ran') \notin 1..Len(ran)
         /\ \A i \in 1..Len(ran) : ran'[i] = ran[i]
         /\ ran'[Len(ran')] = e /\ Last(ran') = e /\ ran' # <<>>
         /\ DOMAIN ran = 1..Len(ran) /\ DOMAIN ran' = 1..Len(ran')
<1> DEFINE S == Range(ran) \cup {e}
<1>1. ran \in Seq(S) /\ e \in S
  <2>1. Range(ran) \subseteq S
    OBVIOUS
  <2> HIDE DEF S
  <2> QED BY <2>1, SeqMonotonic DEF S
<1>2. ran' = Append(ran, e)
  BY DEF Log
<1> HIDE DEF S
<1>3. /\ ran' \in Seq(S) /\ Len(ran') = Len(ran) + 1 /\ Len(ran) \in Nat
      /\ \A i \in 1..Len(ran) : ran'[i] = ran[i]
      /\ ran'[Len(ran) + 1] = e
  BY <1>1, <1>2, AppendProperties
<1>4. DOMAIN ran = 1..Len(ran) /\ DOMAIN ran' = 1..Len(ran')
  BY <1>1, <1>3
<1>5. ran' \in Seq(Range(ran'))
  <2>1. \A i \in 1..Len(ran') : ran'[i] \in Range(ran')
    BY <1>4, Zenon DEF Range
  <2> QED BY <1>3, <2>1
<1>6. 1..Len(ran') = 1..Len(ran) \cup {Len(ran')} /\ Len(ran') \notin 1..Len(ran)
  BY <1>3
<1>7. ran' # <<>>
  BY <1>3, EmptySeq
<1> QED BY <1>3, <1>4, <1>5, <1>6, <1>7 DEF Last

(* Every step of a request, by what it adds to the history and by whether  *)
(* functions are called or return.                                         *)
GoesOn == /\ Running /\ Running'
          /\ ran' = ran \/ \E e : Log(e) /\ e.who = "mw"

Answers1 == /\ Running /\ (Idle \/ Waiting)'
            /\ \E e : Log(e) /\ (Handled(e) \/ e.who = "stop")

Returns == /\ Waiting /\ (Idle \/ Waiting)'
           /\ ran' = ran

Aborts == /\ ~Idle /\ Idle'
          /\ \E e : Log(e) /\ e.who = "threw"

LEMMA NextRuns ==
  ASSUME DispatchInv, ~Idle, Goto(NextFrame)
  PROVE  Running' /\ Top' = NextFrame
BY NowRuns, NextFrameFacts DEF DispatchInv, Running

LEMMA AnsweredWaits ==
  ASSUME DispatchInv, ~Idle, Answered
  PROVE  (Idle \/ Waiting)'
BY NowWaits DEF Answered

LEMMA EventFacts ==
  ASSUME NEW who, NEW id
  PROVE  /\ Event(who, id).who = who /\ Event(who, id).id = id /\ Event(who, id).path = path
         /\ Event(who, id).mount = IF Top.chain = Server THEN 0 ELSE Mount.id
BY DEF Event

LEMMA Steps ==
  ASSUME DispatchInv, Serve
  PROVE  GoesOn \/ Answers1 \/ Returns \/ Aborts
<1>1. CASE Skip
  <2>1. ~Idle /\ Top.next = "not called" /\ Goto(NextFrame) /\ ran' = ran
    BY <1>1 DEF Skip, HasEntry
  <2> QED BY <2>1, NextRuns DEF GoesOn, Running
<1>2. CASE CallNext
  <2>1. ~Idle /\ Top.next = "not called" /\ Log(Event("mw", Current.id))
    BY <1>2 DEF CallNext, HasEntry
  <2>2. Running'
    BY <1>2, <2>1, CallRuns, NextFrameFacts DEF DispatchInv, Running
  <2>3. Event("mw", Current.id).who = "mw"
    BY EventFacts
  <2> QED BY <2>1, <2>2, <2>3, Zenon DEF GoesOn, Running
<1>3. CASE Stop
  <2>1. ~Idle /\ Top.next = "not called" /\ Log(Event("stop", Current.id)) /\ Return
    BY <1>3 DEF Stop, HasEntry
  <2>2. (Idle \/ Waiting)'
    BY <2>1, NowWaits
  <2>3. Event("stop", Current.id).who = "stop"
    BY EventFacts
  <2> QED BY <2>1, <2>2, <2>3, Zenon DEF Answers1, Running
<1>4. CASE NextReturned
  <2>1. ~Idle /\ Top.next = "called" /\ ran' = ran /\ Return
    BY <1>4 DEF NextReturned, HasEntry
  <2> QED BY <2>1, NowWaits DEF Returns, Waiting
<1>5. CASE Throw
  <2>1. ~Idle /\ Log(Event("threw", Current.id)) /\ stack' = <<>>
    BY <1>5 DEF Throw, HasEntry
  <2>2. Idle'
    BY <2>1 DEF Idle
  <2>3. Event("threw", Current.id).who = "threw"
    BY EventFacts
  <2> QED BY <2>1, <2>2, <2>3, Zenon DEF Aborts
<1>6. CASE PassBy
  <2>1. ~Idle /\ Current.kind = "mount" /\ Goto(NextFrame) /\ ran' = ran
    BY <1>6 DEF PassBy, HasEntry
  <2> QED BY <2>1, NotWaiting, NextRuns DEF GoesOn, Running
<1>7. CASE EnterRouter
  <2> DEFINE f == Frame(Router, 1, Top.index, path)
  <2>1. ~Idle /\ Current.kind = "mount" /\ Goto(f) /\ ran' = ran
    BY <1>7 DEF EnterRouter, HasEntry
  <2>2. f \in Frames /\ f.next = "not called"
    <3>1. <<>> \in Text /\ Top.index \in Nat /\ path \in Text
      BY <2>1, ChainFacts DEF Text, DispatchInv, StackInv
    <3> QED BY <3>1 DEF Frame, Frames
  <2> HIDE DEF f
  <2>3. Running'
    BY <2>1, <2>2, NowRuns DEF Running
  <2> QED BY <2>1, <2>3, NotWaiting DEF GoesOn, Running
<1>8. CASE TrySubRouter
  <2> DEFINE relative == After(path, Len(Current.prefix))
             e == [Event(SubRouter, Current.id) EXCEPT !.path = relative]
  <2>1. /\ ~Idle /\ Current.kind = "sub"
        /\ \/ Log(e) /\ Answered
           \/ Goto(NextFrame) /\ ran' = ran
    BY <1>8 DEF TrySubRouter, HasEntry
  <2>2. e.who = SubRouter /\ Handled(e)
    BY DEF Event, Handled, Owners
  <2> HIDE DEF e
  <2>3. Running
    BY <2>1, NotWaiting DEF Running
  <2>4. CASE Log(e) /\ Answered
    BY <2>1, <2>2, <2>3, <2>4, AnsweredWaits, Zenon DEF Answers1
  <2>5. CASE Goto(NextFrame) /\ ran' = ran
    BY <2>1, <2>3, <2>5, NextRuns, Zenon DEF GoesOn
  <2> QED BY <2>1, <2>4, <2>5
<1>9. CASE TryRouter
  <2> DEFINE e == Event(Router, Mount.id)
  <2>1. /\ ~Idle /\ Top.index = Len(Chain) + 1
        /\ \/ Log(e) /\ Answered
           \/ Goto(NextFrame) /\ ran' = ran
    BY <1>9 DEF TryRouter, InRouter
  <2>2. Handled(e)
    BY DEF Event, Handled, Owners
  <2> HIDE DEF e
  <2>3. Running
    <3>1. Top.index > Len(Chain)
      BY <2>1, ChainFacts
    <3> QED BY <2>1, <3>1, NotWaiting DEF Running
  <2>4. CASE Log(e) /\ Answered
    BY <2>1, <2>2, <2>3, <2>4, AnsweredWaits, Zenon DEF Answers1
  <2>5. CASE Goto(NextFrame) /\ ran' = ran
    BY <2>1, <2>3, <2>5, NextRuns, Zenon DEF GoesOn
  <2> QED BY <2>1, <2>4, <2>5
<1>10. CASE LeaveRouter
  <2> DEFINE f == ServerFrame(Top.mount + 1)
  <2>1. ~Idle /\ Top.chain = Router /\ Top.index > Len(Chain) + 1 /\ Goto(f) /\ ran' = ran
    BY <1>10 DEF LeaveRouter, InRouter
  <2>2. f \in Frames /\ f.next = "not called"
    <3>1. <<>> \in Text /\ Top.mount \in 1..Len(queue[Server]) /\ Len(queue[Server]) \in Nat
      BY <2>1, ChainFacts DEF Text, DispatchInv, TypeOK
    <3>2. Top.mount + 1 \in Nat
      BY <3>1
    <3> QED BY <3>1, <3>2 DEF ServerFrame, Frame, Frames
  <2> HIDE DEF f
  <2>3. Top.index > Len(Chain)
    BY <2>1, ChainFacts
  <2>4. Running /\ Running'
    BY <2>1, <2>2, <2>3, NowRuns, NotWaiting DEF Running
  <2> QED BY <2>1, <2>4 DEF GoesOn
<1>11. CASE RunRoute
  <2> DEFINE e == Event(IF path \in routes[Server] THEN Server ELSE "404", 0)
  <2>1. ~Idle /\ Top.index > Len(Chain) /\ Log(e) /\ Answered
    BY <1>11 DEF RunRoute
  <2>2. Handled(e)
    BY DEF Event, Handled, Owners
  <2> HIDE DEF e
  <2>3. Running
    BY <2>1, NotWaiting DEF Running
  <2> QED BY <2>1, <2>2, <2>3, AnsweredWaits, Zenon DEF Answers1
<1> QED BY <1>1, <1>2, <1>3, <1>4, <1>5, <1>6, <1>7, <1>8, <1>9, <1>10, <1>11 DEF Serve

(* Between requests, and when one comes in, the history is empty.          *)
LEMMA StepsBetween ==
  ASSUME DispatchInv
  PROVE  /\ Configure => Idle /\ Idle' /\ ran' = <<>>
         /\ \A p \in Paths : Receive(p) => Idle /\ Running' /\ ran' = <<>>
<1>1. ASSUME Configure PROVE Idle /\ Idle' /\ ran' = <<>>
  BY <1>1 DEF Configure, UseMiddleware, UseRouter, UseSubRouter, Enqueue, AddRoute, Forget, Idle
<1>2. ASSUME NEW p \in Paths, Receive(p) PROVE Idle /\ Running' /\ ran' = <<>>
  <2>1. Idle /\ stack' = <<ServerFrame(1)>> /\ ran' = <<>>
    BY <1>2 DEF Receive
  <2>2. ServerFrame(1).next = "not called"
    BY DEF ServerFrame, Frame
  <2>3. \A f : <<f>> # <<>> /\ Len(<<f>>) = 1 /\ <<f>>[1] = f
    OBVIOUS
  <2> QED BY <2>1, <2>2, <2>3, Zenon DEF Running, Idle, Top
<1> QED BY <1>1, <1>2

-----------------------------------------------------------------------------
(* One answer.                                                             *)

LEMMA AnswersLogged ==
  ASSUME ran \in Seq(Range(ran)), NEW e, Log(e)
  PROVE  Answers' = Answers \cup (IF Handled(e) \/ e.who = "stop" THEN {Len(ran')} ELSE {})
<1>1. \A i \in DOMAIN ran : ran'[i] = ran[i]
  BY Logged
<1>2. DOMAIN ran' = DOMAIN ran \cup {Len(ran')} /\ ran'[Len(ran')] = e
  BY Logged
<1> QED BY <1>1, <1>2, Zenon DEF Answers, Handled

LEMMA NoHistory ==
  ASSUME ran' = <<>>
  PROVE  ran' \in Seq(Range(ran')) /\ Answers' = {} /\ AnsweredOnce'
<1>1. ran' \in Seq(Range(ran')) /\ DOMAIN ran' = {}
  OBVIOUS
<1>2. Answers' = {}
  BY <1>1, Zenon DEF Answers
<1>3. Cardinality(Answers') <= 1
  BY <1>2, FS_EmptySet
<1> QED BY <1>1, <1>2, <1>3 DEF AnsweredOnce

LEMMA AnswerInvStep ==
  ASSUME DispatchInv, AnswerInv, [Next]_vars
  PROVE  AnswerInv'
<1>1. CASE Configure
  BY <1>1, StepsBetween, NoHistory DEF AnswerInv, Running, Waiting
<1>2. ASSUME NEW p \in Paths, Receive(p) PROVE AnswerInv'
  BY <1>2, StepsBetween, NoHistory DEF AnswerInv, Running, Waiting
<1>3. CASE GoesOn
  <2>1. Answers = {} /\ Running' /\ ~Idle' /\ ~Waiting'
    BY <1>3 DEF GoesOn, AnswerInv, Running, Waiting
  <2>2. Answers' = {} /\ ran' \in Seq(Range(ran'))
    <3>1. CASE ran' = ran
      BY <2>1, <3>1, Zenon DEF AnswerInv, Answers
    <3>2. CASE ran' # ran
      <4>1. PICK e : Log(e) /\ e.who = "mw"
        BY <1>3, <3>2 DEF GoesOn
      <4>2. ~Handled(e) /\ e.who # "stop"
        <5>1. "mw" \notin Owners
          BY DispatchAssumption
        <5> QED BY <4>1, <5>1 DEF Handled
      <4> QED BY <2>1, <4>1, <4>2, AnswersLogged, Logged, Zenon DEF AnswerInv
    <3> QED BY <3>1, <3>2
  <2>3. Cardinality(Answers') <= 1
    BY <2>2, FS_EmptySet
  <2> QED BY <2>1, <2>2, <2>3 DEF AnswerInv, AnsweredOnce
<1>4. CASE Answers1
  <2>1. PICK e : Log(e) /\ (Handled(e) \/ e.who = "stop")
    BY <1>4 DEF Answers1
  <2>2. Answers = {} /\ ~Running' /\ ran \in Seq(Range(ran))
    BY <1>4 DEF Answers1, AnswerInv, Running, Waiting
  <2>3. Answers' = {Len(ran')} /\ ran' \in Seq(Range(ran'))
    BY <2>1, <2>2, AnswersLogged, Logged, Zenon
  <2>4. Cardinality(Answers') <= 1
    <3>1. Cardinality(Answers') = 1
      BY <2>3, FS_Singleton, Zenon
    <3> QED BY <3>1
  <2> QED BY <2>2, <2>3, <2>4 DEF AnswerInv, AnsweredOnce
<1>5. CASE Returns
  <2>1. Answers' = Answers /\ Answers # {} /\ ~Running' /\ ran' = ran
    BY <1>5 DEF Returns, AnswerInv, Running, Waiting, Answers
  <2> QED BY <2>1 DEF AnswerInv, AnsweredOnce
<1>6. CASE Aborts
  <2>1. PICK e : Log(e) /\ e.who = "threw"
    BY <1>6 DEF Aborts
  <2>2. ~Handled(e) /\ e.who # "stop"
    <3>1. "threw" \notin Owners
      BY DispatchAssumption
    <3> QED BY <2>1, <3>1 DEF Handled
  <2>3. Answers' = Answers /\ ran' \in Seq(Range(ran')) /\ Last(ran') = e
    BY <2>1, <2>2, AnswersLogged, Logged, Zenon DEF AnswerInv
  <2>4. Idle'
    BY <1>6 DEF Aborts
  <2> QED BY <2>1, <2>3, <2>4 DEF AnswerInv, AnsweredOnce, Running, Waiting
<1>7. CASE UNCHANGED vars
  <2>1. ran' = ran /\ stack' = stack
    BY <1>7 DEF vars
  <2> QED BY <2>1, Zenon DEF AnswerInv, AnsweredOnce, Answers, Running, Waiting, Idle, Top
<1> QED BY <1>1, <1>2, <1>3, <1>4, <1>5, <1>6, <1>7, Steps DEF Next

(* A request is answered exactly once, by one handler, by the 404 or by    *)
(* the middleware that stopped the chain, unless something threw; for any  *)
(* chains, routers, routes and nesting of middleware (HttpServer.cpp:      *)
(* 238-258, Router.cpp:24-33).                                             *)
THEOREM OneAnswer == Spec => []AnsweredOnce
<1>1. Init => AnswerInv
  <2> SUFFICES ASSUME Init PROVE AnswerInv
    OBVIOUS
  <2>1. ran = <<>> /\ Idle
    BY DEF Init, Idle
  <2>2. ran \in Seq(Range(ran)) /\ DOMAIN ran = {}
    BY <2>1
  <2>3. Answers = {}
    BY <2>2, Zenon DEF Answers
  <2>4. Cardinality(Answers) <= 1
    BY <2>3, FS_EmptySet
  <2> QED BY <2>1, <2>2, <2>4 DEF AnswerInv, AnsweredOnce, Running, Waiting
<1>2. AnswerInv => AnsweredOnce
  BY DEF AnswerInv
<1> QED BY <1>1, <1>2, AnswerInvStep, Invariant, PTL DEF Spec
-----------------------------------------------------------------------------
(* Entries are numbered in order.                                          *)

LEMMA EntryFacts ==
  ASSUME DispatchInv
  PROVE  /\ Len(queue[Server]) \in Nat /\ DOMAIN queue[Server] = 1..Len(queue[Server])
         /\ Len(queue[Router]) \in Nat /\ DOMAIN queue[Router] = 1..Len(queue[Router])
         /\ \A i \in 1..Len(queue[Server]) : /\ queue[Server][i].id \in 1..uses
                                            /\ queue[Server][i].kind \in {"mw", "mount"}
         /\ \A i \in 1..Len(queue[Router]) : queue[Router][i].id \in 1..uses
         /\ uses \in Nat
<1>1. queue[Server] \in Seq(Own \cup Mounts) /\ queue[Router] \in Seq(Own \cup Subs) /\ uses \in Nat
  BY DEF DispatchInv, TypeOK
<1>2. \A e \in Own \cup Mounts : e.id \in 1..uses /\ e.kind \in {"mw", "mount"}
  BY DEF Own, Mounts
<1>3. \A e \in Own \cup Subs : e.id \in 1..uses
  BY DEF Own, Subs
<1>4. \A i \in 1..Len(queue[Server]) : queue[Server][i] \in Own \cup Mounts
  BY <1>1, ElementOfSeq
<1>5. \A i \in 1..Len(queue[Router]) : queue[Router][i] \in Own \cup Subs
  BY <1>1, ElementOfSeq
<1>6. /\ Len(queue[Server]) \in Nat /\ DOMAIN queue[Server] = 1..Len(queue[Server])
      /\ Len(queue[Router]) \in Nat /\ DOMAIN queue[Router] = 1..Len(queue[Router])
  BY <1>1, LenProperties
<1> QED BY <1>1, <1>2, <1>3, <1>4, <1>5, <1>6, Zenon

LEMMA Appended ==
  ASSUME NEW S, NEW s \in Seq(S), NEW entry
  PROVE  /\ Len(s) \in Nat
         /\ Len(Append(s, entry)) = Len(s) + 1 /\ Append(s, entry)[Len(s) + 1] = entry
         /\ \A i \in 1..Len(s) : Append(s, entry)[i] = s[i]
<1> DEFINE T == S \cup {entry}
<1>1. s \in Seq(T)
  <2>1. S \subseteq T
    OBVIOUS
  <2> HIDE DEF T
  <2> QED BY <2>1, SeqMonotonic
<1>2. entry \in T
  OBVIOUS
<1> HIDE DEF T
<1> QED BY <1>1, <1>2, AppendProperties

LEMMA QueueGrows ==
  ASSUME DispatchInv, QueueInv, NEW owner \in Owners, NEW entry, Enqueue(owner, entry),
         entry.id = uses + 1, entry.kind = "mount" => entry.mws = queue[Router]
  PROVE  QueueInv'
<1> DEFINE n == Len(queue[Server])
           m == Len(queue[Router])
<1>1. queue' = [queue EXCEPT ![owner] = Append(@, entry)]
  BY DEF Enqueue
<1>2. /\ n \in Nat /\ m \in Nat /\ uses \in Nat
      /\ \A i \in 1..n : queue[Server][i].id \in 1..uses
      /\ \A i \in 1..m : queue[Router][i].id \in 1..uses
  BY EntryFacts
<1>3. /\ queue \in [Owners -> Seq(Own \cup Subs \cup Mounts)]
      /\ Server \in Owners /\ Router \in Owners /\ Server # Router
  BY DispatchAssumption DEF DispatchInv, TypeOK, Owners
<1>4. /\ Len(Append(queue[Server], entry)) = n + 1 /\ Append(queue[Server], entry)[n + 1] = entry
      /\ \A i \in 1..n : Append(queue[Server], entry)[i] = queue[Server][i]
      /\ Len(Append(queue[Router], entry)) = m + 1 /\ Append(queue[Router], entry)[m + 1] = entry
      /\ \A i \in 1..m : Append(queue[Router], entry)[i] = queue[Router][i]
  BY <1>3, Appended
<1>5. CASE owner = Server
  <2>1. queue'[Router] = queue[Router] /\ queue'[Server] = Append(queue[Server], entry)
    BY <1>1, <1>3, <1>5, Zenon
  <2>2. /\ Len(queue'[Server]) = n + 1 /\ queue'[Server][n + 1] = entry
        /\ \A i \in 1..n : queue'[Server][i] = queue[Server][i]
    BY <1>4, <2>1, Zenon
  <2>3. ASSUME NEW i \in 1..n + 1, NEW j \in 1..i - 1
        PROVE  queue'[Server][j].id < queue'[Server][i].id
    <3>1. j \in 1..n /\ queue'[Server][j] = queue[Server][j]
      BY <1>2, <2>2
    <3>2. CASE i \in 1..n
      BY <2>2, <3>1, <3>2, Zenon DEF QueueInv
    <3>3. CASE i = n + 1
      <4>1. queue'[Server][i].id = uses + 1 /\ queue[Server][j].id \in 1..uses
        BY <1>2, <2>2, <3>1, <3>3, Zenon
      <4> QED BY <1>2, <3>1, <4>1
    <3>4. i \in 1..n \/ i = n + 1
      BY ONLY <1>2
    <3> QED BY <3>2, <3>3, <3>4
  <2>4. ASSUME NEW i \in 1..n + 1, queue'[Server][i].kind = "mount", NEW k \in 1..m,
               queue[Router][k].id < queue'[Server][i].id
        PROVE  /\ k <= Len(queue'[Server][i].mws)
               /\ queue'[Server][i].mws[k] = queue[Router][k]
    <3>1. CASE i \in 1..n
      BY <2>2, <2>4, <3>1, Zenon DEF QueueInv
    <3>2. CASE i = n + 1
      <4>1. queue'[Server][i].mws = queue[Router]
        BY <2>2, <2>4, <3>2, Zenon
      <4>2. k <= m
        BY <1>2
      <4> QED BY <4>1, <4>2, Zenon
    <3> QED BY <1>2, <3>1, <3>2
  <2>5. 1..Len(queue'[Server]) = 1..n + 1 /\ 1..Len(queue'[Router]) = 1..m
    BY <2>1, <2>2, Zenon
  <2> HIDE DEF n, m
  <2>6. \A i \in 1..Len(queue'[Server]) :
          /\ \A j \in 1..i - 1 : queue'[Server][j].id < queue'[Server][i].id
          /\ queue'[Server][i].kind = "mount" =>
               \A k \in 1..Len(queue'[Router]) :
                 queue'[Router][k].id < queue'[Server][i].id =>
                   /\ k <= Len(queue'[Server][i].mws)
                   /\ queue'[Server][i].mws[k] = queue'[Router][k]
    BY ONLY <2>1, <2>3, <2>4, <2>5, Zenon
  <2> QED BY <2>6, Zenon DEF QueueInv
<1>6. CASE owner = Router
  <2>1. queue'[Server] = queue[Server] /\ queue'[Router] = Append(queue[Router], entry)
    BY <1>1, <1>3, <1>6, Zenon
  <2>2. /\ Len(queue'[Router]) = m + 1 /\ queue'[Router][m + 1] = entry
        /\ \A k \in 1..m : queue'[Router][k] = queue[Router][k]
    BY <1>4, <2>1, Zenon
  <2>3. ASSUME NEW i \in 1..n, queue[Server][i].kind = "mount", NEW k \in 1..m + 1,
               queue'[Router][k].id < queue[Server][i].id
        PROVE  /\ k <= Len(queue[Server][i].mws)
               /\ queue[Server][i].mws[k] = queue'[Router][k]
    <3>1. CASE k \in 1..m
      BY <2>2, <2>3, <3>1, Zenon DEF QueueInv
    <3>2. CASE k = m + 1
      <4>1. queue'[Router][k].id = uses + 1 /\ queue[Server][i].id \in 1..uses
        BY <1>2, <2>2, <3>2, Zenon
      <4> QED BY <1>2, <2>3, <4>1
    <3> QED BY <1>2, <3>1, <3>2
  <2>4. \A i \in 1..n : \A j \in 1..i - 1 : queue[Server][j].id < queue[Server][i].id
    BY Zenon DEF QueueInv
  <2>5. 1..Len(queue'[Server]) = 1..n /\ 1..Len(queue'[Router]) = 1..m + 1
    BY <2>1, <2>2, Zenon
  <2> HIDE DEF n, m
  <2>6. \A i \in 1..Len(queue'[Server]) :
          /\ \A j \in 1..i - 1 : queue'[Server][j].id < queue'[Server][i].id
          /\ queue'[Server][i].kind = "mount" =>
               \A k \in 1..Len(queue'[Router]) :
                 queue'[Router][k].id < queue'[Server][i].id =>
                   /\ k <= Len(queue'[Server][i].mws)
                   /\ queue'[Server][i].mws[k] = queue'[Router][k]
    BY ONLY <2>1, <2>3, <2>4, <2>5, Zenon
  <2> QED BY <2>6, Zenon DEF QueueInv
<1>7. CASE owner # Server /\ owner # Router
  <2>1. queue'[Server] = queue[Server] /\ queue'[Router] = queue[Router]
    BY <1>1, <1>3, <1>7, Zenon
  <2> QED BY <2>1, Zenon DEF QueueInv
<1> QED BY <1>5, <1>6, <1>7

LEMMA QueueSteps ==
  ASSUME [Next]_vars
  PROVE  \/ \E owner \in Owners, prefix \in Scopes : UseMiddleware(owner, prefix)
         \/ \E p \in MountPaths : UseRouter(p) \/ UseSubRouter(p)
         \/ UNCHANGED queue
<1>1. CASE Configure
  BY <1>1 DEF Configure, AddRoute
<1>2. ASSUME NEW p \in Paths, Receive(p) PROVE UNCHANGED queue
  BY <1>2, Zenon DEF Receive, config
<1>3. ASSUME Serve PROVE UNCHANGED queue
  BY <1>3, Zenon DEF Serve, Skip, CallNext, Stop, NextReturned, Throw, PassBy, EnterRouter,
       TrySubRouter, TryRouter, LeaveRouter, RunRoute, config
<1>4. ASSUME UNCHANGED vars PROVE UNCHANGED queue
  BY <1>4, Zenon DEF vars, config
<1> QED BY <1>1, <1>2, <1>3, <1>4, Zenon DEF Next

LEMMA QueueInvStep ==
  ASSUME DispatchInv, QueueInv, [Next]_vars
  PROVE  QueueInv'
<1>1. ASSUME NEW owner \in Owners, NEW prefix \in Scopes, UseMiddleware(owner, prefix)
      PROVE  QueueInv'
  <2> DEFINE entry == Entry("mw", prefix, <<>>)
  <2>1. Enqueue(owner, entry)
    BY <1>1 DEF UseMiddleware
  <2>2. entry.id = uses + 1 /\ entry.kind # "mount"
    BY DEF Entry
  <2> HIDE DEF entry
  <2> QED BY <2>1, <2>2, QueueGrows
<1>2. ASSUME NEW p \in MountPaths, UseRouter(p) PROVE QueueInv'
  <2> DEFINE entry == Entry("mount", Normalized(p), queue[Router])
  <2>1. Enqueue(Server, entry)
    BY <1>2 DEF UseRouter
  <2>2. entry.id = uses + 1 /\ entry.mws = queue[Router] /\ Server \in Owners
    BY DEF Entry, Owners
  <2> HIDE DEF entry
  <2> QED BY <2>1, <2>2, QueueGrows
<1>3. ASSUME NEW p \in MountPaths, UseSubRouter(p) PROVE QueueInv'
  <2> DEFINE entry == Entry("sub", Normalized(p), <<>>)
  <2>1. Enqueue(Router, entry)
    BY <1>3 DEF UseSubRouter
  <2>2. entry.id = uses + 1 /\ entry.kind # "mount" /\ Router \in Owners
    BY DEF Entry, Owners
  <2> HIDE DEF entry
  <2> QED BY <2>1, <2>2, QueueGrows
<1>4. ASSUME UNCHANGED queue PROVE QueueInv'
  BY <1>4, Zenon DEF QueueInv
<1> QED BY <1>1, <1>2, <1>3, <1>4, QueueSteps, Zenon

-----------------------------------------------------------------------------
(* The middleware passed has run.                                          *)

RanNow(id) == \E i \in 1..Len(ran') : ran'[i].who = "mw" /\ ran'[i].id = id

LEMMA StaysRun ==
  ASSUME ran \in Seq(Range(ran)), ran' = ran \/ \E e : Log(e), NEW entry, HasRun(entry)
  PROVE  RanNow(entry.id)
<1>1. CASE ran' = ran
  BY <1>1 DEF HasRun, RanNow
<1>2. CASE \E e : Log(e)
  <2>1. PICK e : Log(e)
    BY <1>2
  <2>2. 1..Len(ran) \subseteq 1..Len(ran') /\ \A i \in 1..Len(ran) : ran'[i] = ran[i]
    BY <2>1, Logged
  <2> QED BY <2>2, Zenon DEF HasRun, RanNow
<1> QED BY <1>1, <1>2

(* What PassedInv' says of the frame that is on top after a step.          *)
PassedServer(f) ==
  \A j \in 1..Len(queue[Server]) :
    /\ j < (IF f.chain = Server THEN f.index ELSE f.mount) /\ queue[Server][j].kind = "mw"
    /\ IsPrefix(queue[Server][j].prefix, received)
    => RanNow(queue[Server][j].id)

PassedRouter(f) ==
  f.chain = Router =>
    /\ queue[Server][f.mount].kind = "mount"
    /\ \A k \in 1..Len(queue[Server][f.mount].mws) :
         /\ k < f.index /\ queue[Server][f.mount].mws[k].kind = "mw"
         /\ IsPrefix(queue[Server][f.mount].mws[k].prefix, path')
         => RanNow(queue[Server][f.mount].mws[k].id)

LEMMA PassedNow ==
  ASSUME queue' = queue, received' = received, NEW f, Top' = f,
         PassedServer(f), PassedRouter(f)
  PROVE  PassedInv'
<1>1. Server # Router
  BY DispatchAssumption
<1>2. Reached' = IF f.chain = Server THEN f.index ELSE f.mount
  BY Zenon DEF Reached
<1>3. /\ Mount' = queue[Server][f.mount]
      /\ f.chain = Router => Chain' = queue[Server][f.mount].mws
  BY <1>1, Zenon DEF Mount, Chain, ChainOf
<1>4. \A j \in 1..Len(queue'[Server]) :
        /\ j < Reached' /\ queue'[Server][j].kind = "mw"
        /\ IsPrefix(queue'[Server][j].prefix, received')
        => RanNow(queue'[Server][j].id)
  BY <1>2, Zenon DEF PassedServer
<1>5. Top'.chain = Router =>
        /\ Mount'.kind = "mount"
        /\ \A k \in 1..Len(Chain') :
             k < Top'.index /\ Chain'[k].kind = "mw" /\ IsPrefix(Chain'[k].prefix, path')
               => RanNow(Chain'[k].id)
  BY <1>3, Zenon DEF PassedRouter
<1> QED BY <1>4, <1>5, Zenon DEF PassedInv, HasRun, RanNow

LEMMA PassedNext ==
  ASSUME DispatchInv, PassedInv, Running, ran \in Seq(Range(ran)),
         ran' = ran \/ \E e : Log(e), UNCHANGED <<config, received, path>>,
         Top' = NextFrame,
         /\ Top.index <= Len(Chain) /\ Current.kind = "mw" /\ IsPrefix(Current.prefix, path)
         => RanNow(Current.id)
  PROVE  PassedInv'
<1>1. ~Idle /\ Top.next = "not called" /\ Server # Router
  BY DispatchAssumption DEF Running
<1>2. /\ NextFrame.chain = Top.chain /\ NextFrame.mount = Top.mount
      /\ NextFrame.index = Top.index + 1
  BY <1>1, NextFrameFacts DEF DispatchInv
<1>3. /\ Top.chain \in {Server, Router} /\ Top.index \in Nat
      /\ Top.chain = Router => Top.mount \in 1..Len(queue[Server])
  BY <1>1, ChainFacts
<1>4. \A j : HasRun(queue[Server][j]) => RanNow(queue[Server][j].id)
  BY StaysRun
<1>5. \A k : HasRun(Chain[k]) => RanNow(Chain[k].id)
  BY StaysRun
<1>6. \A n \in Nat : n < Top.index + 1 => n < Top.index \/ n = Top.index
  BY <1>3
<1>7. \A n, k : k \in 1..n => k \in Nat /\ k <= n
  OBVIOUS
<1>8. PassedServer(NextFrame)
  <2>1. ASSUME NEW j \in 1..Len(queue[Server]), queue[Server][j].kind = "mw",
               j < (IF NextFrame.chain = Server THEN NextFrame.index ELSE NextFrame.mount),
               IsPrefix(queue[Server][j].prefix, received)
        PROVE  RanNow(queue[Server][j].id)
    <3>1. CASE j < Reached
      BY <1>4, <2>1, <3>1, Zenon DEF PassedInv
    <3>2. CASE ~(j < Reached)
      <4>1. Top.chain = Server /\ j = Top.index
        BY <1>2, <1>6, <1>7, <2>1, <3>2, Zenon DEF Reached
      <4>2. Chain = queue[Server] /\ path = received
        BY <1>1, <4>1, Zenon DEF Chain, ChainOf, DispatchInv, CalledWithOwnPath
      <4>3. Current = queue[Server][j] /\ Top.index <= Len(Chain)
        BY <1>7, <2>1, <4>1, <4>2, Zenon DEF Current
      <4> QED BY <2>1, <4>2, <4>3, Zenon
    <3> QED BY <3>1, <3>2
  <2> QED BY <2>1, Zenon DEF PassedServer
<1>9. PassedRouter(NextFrame)
  <2>1. SUFFICES ASSUME Top.chain = Router PROVE PassedRouter(NextFrame)
    BY <1>2, Zenon DEF PassedRouter
  <2>2. Chain = queue[Server][Top.mount].mws /\ path' = path
    BY <1>1, <2>1, Zenon DEF Chain, ChainOf
  <2>3. Mount.kind = "mount" /\ Mount = queue[Server][Top.mount]
    BY <2>1, Zenon DEF PassedInv, Mount
  <2>4. ASSUME NEW k \in 1..Len(Chain), k < Top.index + 1, Chain[k].kind = "mw",
               IsPrefix(Chain[k].prefix, path)
        PROVE  RanNow(Chain[k].id)
    <3>1. CASE k < Top.index
      BY <1>5, <2>1, <2>4, <3>1, Zenon DEF PassedInv
    <3>2. CASE k = Top.index
      BY <1>7, <2>4, <3>2, Zenon DEF Current
    <3> QED BY <1>6, <1>7, <2>4, <3>1, <3>2, Zenon
  <2> QED BY <1>2, <2>2, <2>3, <2>4, Zenon DEF PassedRouter
<1> QED BY <1>8, <1>9, PassedNow DEF config

LEMMA PassedInvStep ==
  ASSUME DispatchInv, AnswerInv, PassedInv, [Next]_vars
  PROVE  PassedInv'
<1>0. ran \in Seq(Range(ran)) /\ Server # Router
  BY DispatchAssumption DEF AnswerInv
<1>1. ASSUME ~Running' PROVE PassedInv'
  BY <1>1, Zenon DEF PassedInv
<1>2. CASE Skip
  <2>1. /\ ~Idle /\ Top.next = "not called" /\ ~IsPrefix(Current.prefix, path) /\ Goto(NextFrame)
        /\ ran' = ran /\ UNCHANGED <<config, received, path>>
    BY <1>2 DEF Skip, HasEntry
  <2>2. Top' = NextFrame
    BY <2>1, NextRuns
  <2> QED BY <1>0, <2>1, <2>2, PassedNext DEF Running
<1>3. CASE CallNext
  <2>1. /\ ~Idle /\ Top.next = "not called" /\ UNCHANGED <<config, received, path>>
        /\ Log(Event("mw", Current.id))
    BY <1>3 DEF CallNext, HasEntry
  <2>2. Top' = NextFrame
    BY <1>3, CallRuns
  <2>3. RanNow(Current.id)
    <3>1. Event("mw", Current.id).who = "mw" /\ Event("mw", Current.id).id = Current.id
      BY EventFacts
    <3>2. ran'[Len(ran')] = Event("mw", Current.id) /\ Len(ran') \in 1..Len(ran')
      BY <1>0, <2>1, Logged
    <3> QED BY <3>1, <3>2, Zenon DEF RanNow
  <2> QED BY <1>0, <2>1, <2>2, <2>3, PassedNext DEF Running
<1>4. CASE Stop \/ NextReturned \/ Throw \/ RunRoute
  <2>1. (Idle \/ Waiting)'
    <3>1. ~Idle /\ (Return \/ stack' = <<>>)
      BY <1>4 DEF Stop, NextReturned, Throw, RunRoute, HasEntry, Answered
    <3> QED BY <3>1, NowWaits
  <2>2. ~Running'
    BY <2>1, Zenon DEF Running, Waiting
  <2> QED BY <1>1, <2>2
<1>5. CASE PassBy
  <2>1. /\ ~Idle /\ Current.kind = "mount" /\ Goto(NextFrame)
        /\ ran' = ran /\ UNCHANGED <<config, received, path>>
    BY <1>5 DEF PassBy, HasEntry
  <2>2. Top' = NextFrame /\ Top.next = "not called"
    BY <2>1, NextRuns, NotWaiting
  <2> QED BY <1>0, <2>1, <2>2, PassedNext DEF Running
<1>6. CASE EnterRouter
  <2> DEFINE f == Frame(Router, 1, Top.index, path)
  <2>1. /\ ~Idle /\ Top.index <= Len(Chain) /\ Current.kind = "mount" /\ Goto(f)
        /\ ran' = ran /\ UNCHANGED <<config, received>>
    BY <1>6 DEF EnterRouter, HasEntry
  <2>2. Top.index \in Nat \ {0} /\ Len(Chain) \in Nat
    BY <2>1, ChainFacts
  <2>3. f \in Frames /\ f.chain = Router /\ f.index = 1 /\ f.mount = Top.index
    <3>1. <<>> \in Text /\ path \in Text
      BY DEF Text, DispatchInv, StackInv
    <3> QED BY <2>2, <3>1 DEF Frame, Frames
  <2> HIDE DEF f
  <2>4. Top' = f
    BY <2>1, <2>3, NowRuns
  <2>5. Top.chain = Server /\ Running
    <3>1. Top.index \in 1..Len(Chain)
      BY <2>1, <2>2
    <3> QED BY <2>1, <3>1, ChainFacts, NotWaiting DEF Current, Running
  <2>6. Chain = queue[Server] /\ Current = queue[Server][Top.index] /\ Reached = Top.index
    BY <2>5, Zenon DEF Chain, ChainOf, Current, Reached
  <2>7. PassedServer(f)
    <3>1. \A j : HasRun(queue[Server][j]) => RanNow(queue[Server][j].id)
      BY <1>0, <2>1, StaysRun
    <3> QED BY <1>0, <2>3, <2>5, <2>6, <3>1, Zenon DEF PassedServer, PassedInv
  <2>8. PassedRouter(f)
    <3>1. \A n : \A k \in 1..n : ~(k < 1)
      OBVIOUS
    <3> QED BY <2>1, <2>3, <2>6, <3>1, Zenon DEF PassedRouter
  <2> QED BY <2>1, <2>4, <2>7, <2>8, PassedNow DEF config
<1>7. CASE TrySubRouter
  <2>1. /\ ~Idle /\ Current.kind = "sub" /\ UNCHANGED <<config, received, path>>
        /\ Answered \/ (Goto(NextFrame) /\ ran' = ran)
    BY <1>7 DEF TrySubRouter, HasEntry
  <2>2. CASE Answered
    <3>1. ~Running'
      BY <2>1, <2>2, AnsweredWaits, Zenon DEF Running, Waiting
    <3> QED BY <1>1, <3>1
  <2>3. CASE Goto(NextFrame) /\ ran' = ran
    <3>1. Top' = NextFrame /\ Top.next = "not called"
      BY <2>1, <2>3, NextRuns, NotWaiting
    <3> QED BY <1>0, <2>1, <2>3, <3>1, PassedNext DEF Running
  <2> QED BY <2>1, <2>2, <2>3
<1>8. CASE TryRouter
  <2>1. /\ ~Idle /\ Top.index = Len(Chain) + 1 /\ UNCHANGED <<config, received, path>>
        /\ Answered \/ (Goto(NextFrame) /\ ran' = ran)
    BY <1>8 DEF TryRouter, InRouter
  <2>2. CASE Answered
    <3>1. ~Running'
      BY <2>1, <2>2, AnsweredWaits, Zenon DEF Running, Waiting
    <3> QED BY <1>1, <3>1
  <2>3. CASE Goto(NextFrame) /\ ran' = ran
    <3>1. Top.index > Len(Chain) /\ ~(Top.index <= Len(Chain))
      BY <2>1, ChainFacts
    <3>2. Top' = NextFrame /\ Top.next = "not called"
      BY <2>1, <2>3, <3>1, NextRuns, NotWaiting
    <3> QED BY <1>0, <2>1, <2>3, <3>1, <3>2, PassedNext DEF Running
  <2> QED BY <2>1, <2>2, <2>3
<1>9. CASE LeaveRouter
  <2> DEFINE f == ServerFrame(Top.mount + 1)
  <2>1. /\ ~Idle /\ Top.chain = Router /\ Top.index > Len(Chain) + 1 /\ Goto(f)
        /\ ran' = ran /\ UNCHANGED <<config, received>>
    BY <1>9 DEF LeaveRouter, InRouter
  <2>2. /\ Top.mount \in 1..Len(queue[Server]) /\ Len(queue[Server]) \in Nat
        /\ Top.index > Len(Chain)
    BY <2>1, ChainFacts, EntryFacts
  <2>3. f \in Frames /\ f.chain = Server /\ f.index = Top.mount + 1
    <3>1. <<>> \in Text /\ Top.mount + 1 \in Nat
      BY <2>2 DEF Text
    <3> QED BY <3>1 DEF ServerFrame, Frame, Frames
  <2> HIDE DEF f
  <2>4. Top' = f
    BY <2>1, <2>3, NowRuns
  <2>5. Running /\ Mount.kind = "mount" /\ Reached = Top.mount /\ Mount = queue[Server][Top.mount]
    <3>1. Running
      BY <2>1, <2>2, NotWaiting DEF Running
    <3> QED BY <1>0, <2>1, <3>1, Zenon DEF PassedInv, Reached, Mount
  <2>6. PassedServer(f)
    <3>1. \A j : HasRun(queue[Server][j]) => RanNow(queue[Server][j].id)
      BY <1>0, <2>1, StaysRun
    <3>2. \A j \in 1..Len(queue[Server]) : j < Top.mount + 1 => j < Top.mount \/ j = Top.mount
      BY <2>2
    <3>3. "mount" # "mw"
      OBVIOUS
    <3> QED BY <1>0, <2>3, <2>5, <3>1, <3>2, <3>3, Zenon DEF PassedServer, PassedInv
  <2>7. PassedRouter(f)
    BY <1>0, <2>3, Zenon DEF PassedRouter
  <2> QED BY <2>1, <2>4, <2>6, <2>7, PassedNow DEF config
<1>10. ASSUME NEW p \in Paths, Receive(p) PROVE PassedInv'
  <2> DEFINE f == ServerFrame(1)
  <2>1. stack' = <<f>> /\ queue' = queue
    BY <1>10 DEF Receive, config
  <2>2. f.chain = Server /\ f.index = 1
    BY DEF ServerFrame, Frame
  <2> HIDE DEF f
  <2>3. Top' = f
    <3>1. Len(<<f>>) = 1 /\ <<f>>[1] = f
      OBVIOUS
    <3> QED BY <2>1, <3>1, Zenon DEF Top
  <2>4. Reached' = 1 /\ Top'.chain # Router
    BY <1>0, <2>2, <2>3, Zenon DEF Reached
  <2>5. \A n : \A j \in 1..n : ~(j < 1)
    OBVIOUS
  <2> QED BY <2>4, <2>5, Zenon DEF PassedInv
<1>11. CASE Configure
  BY <1>1, <1>11, StepsBetween, Zenon DEF Running
<1>12. CASE UNCHANGED vars
  BY <1>12, Zenon DEF vars, config, PassedInv, HasRun, Running, Idle, Reached, Top, Mount,
       Chain, ChainOf
<1> QED BY <1>2, <1>3, <1>4, <1>5, <1>6, <1>7, <1>8, <1>9, <1>10, <1>11, <1>12 DEF Next, Serve

-----------------------------------------------------------------------------
(* No handler before its guards.                                           *)

(* The server's middleware before a mounted router has run when the router *)
(* is reached.                                                             *)
LEMMA ServerGuards ==
  ASSUME DispatchInv, QueueInv, PassedInv, Running, Top.chain = Router,
         NEW g \in Range(queue[Server]), g.kind = "mw", IsPrefix(g.prefix, received),
         g.id < Mount.id
  PROVE  HasRun(g)
<1>1. ~Idle /\ Server # Router
  BY DispatchAssumption DEF Running
<1>2. Top.mount \in 1..Len(queue[Server])
  BY <1>1, ChainFacts
<1>3. PICK j \in 1..Len(queue[Server]) : g = queue[Server][j]
  BY EntryFacts, Zenon DEF Range
<1>4. Len(queue[Server]) \in Nat /\ \A i \in 1..Len(queue[Server]) : queue[Server][i].id \in Nat
  BY EntryFacts
<1>5. PICK m \in 1..Len(queue[Server]) : m = Top.mount
  BY <1>2
<1>6. Mount = queue[Server][m] /\ Reached = m
  BY <1>1, <1>5, Zenon DEF Mount, Reached
<1>7. queue[Server][j].id < queue[Server][m].id
  BY <1>3, <1>6, Zenon
<1>8. j < m
  <2>1. CASE m < j
    <3>1. m \in 1..j - 1
      BY <2>1, <1>4
    <3>2. queue[Server][m].id < queue[Server][j].id
      BY <3>1, Zenon DEF QueueInv
    <3> QED BY <1>4, <1>7, <3>2
  <2>2. CASE m = j
    <3>1. queue[Server][j].id < queue[Server][j].id
      BY <1>7, <2>2, Zenon
    <3> QED BY <1>4, <3>1
  <2> QED BY <1>4, <2>1, <2>2
<1> QED BY <1>3, <1>6, <1>8, Zenon DEF PassedInv

LEMMA HandlerGuarded ==
  ASSUME DispatchInv, AnswerInv, GuardInv, Serve
  PROVE  ran' = ran \/ \E e : Log(e) /\ (Handled(e) => \A g \in Guards(e) : HasRun(g))
<1>0. QueueInv /\ PassedInv /\ ran \in Seq(Range(ran)) /\ Server # Router
      /\ SubRouter # Router /\ "404" # Router
  BY DispatchAssumption DEF GuardInv, AnswerInv, Owners
<1>1. ASSUME NEW e, Log(e), e.who \in {"mw", "stop", "threw"} PROVE ~Handled(e)
  <2>1. e.who \notin Owners /\ e.who # "404"
    BY <1>1, DispatchAssumption
  <2> QED BY <2>1 DEF Handled
<1>2. CASE GoesOn \/ Returns \/ Aborts
  BY <1>1, <1>2, Zenon DEF GoesOn, Returns, Aborts
<1>3. CASE Stop
  <2>1. Log(Event("stop", Current.id))
    BY <1>3 DEF Stop
  <2>2. Event("stop", Current.id).who \in {"mw", "stop", "threw"}
    BY EventFacts
  <2> QED BY <1>1, <2>1, <2>2, Zenon
<1>4. CASE TrySubRouter
  <2> DEFINE e == [Event(SubRouter, Current.id) EXCEPT !.path = After(path, Len(Current.prefix))]
  <2>1. ~Idle /\ Top.index <= Len(Chain) /\ Current.kind = "sub" /\ (ran' = ran \/ Log(e))
    BY <1>4 DEF TrySubRouter, HasEntry
  <2>2. Top.chain = Router /\ Running
    <3>1. Top.chain \in {Server, Router} /\ Top.index \in 1..Len(Chain)
      BY <2>1, ChainFacts
    <3>2. Top.chain = Server => Current.kind \in {"mw", "mount"}
      BY <3>1, EntryFacts, Zenon DEF Current, Chain, ChainOf
    <3> QED BY <2>1, <3>1, <3>2, NotWaiting DEF Running
  <2>3. e.who = SubRouter /\ e.mount = Mount.id
    BY <1>0, <2>2 DEF Event
  <2> HIDE DEF e
  <2>4. Mount.id # 0
    <3>1. Top.mount \in 1..Len(queue[Server])
      BY <2>1, <2>2, ChainFacts
    <3>2. Mount.id \in 1..uses /\ uses \in Nat
      BY <3>1, EntryFacts, Zenon DEF Mount
    <3> QED BY <3>2
  <2>5. ASSUME NEW g \in Guards(e) PROVE HasRun(g)
    <3>1. /\ g \in Range(queue[Server]) /\ g.kind = "mw" /\ IsPrefix(g.prefix, received)
          /\ g.id < Mount.id
      BY <1>0, <2>3, <2>4, <2>5, Zenon DEF Guards
    <3> QED BY <1>0, <2>2, <3>1, ServerGuards
  <2> QED BY <2>1, <2>5, Zenon
<1>5. CASE TryRouter
  <2> DEFINE e == Event(Router, Mount.id)
  <2>1. ~Idle /\ Top.chain = Router /\ Top.index = Len(Chain) + 1 /\ (ran' = ran \/ Log(e))
    BY <1>5 DEF TryRouter, InRouter
  <2>2. e.who = Router /\ e.mount = Mount.id /\ e.path = path
    BY <1>0, <2>1 DEF Event
  <2> HIDE DEF e
  <2>3. Top.mount \in 1..Len(queue[Server]) /\ Len(Chain) \in Nat
    BY <2>1, ChainFacts
  <2>4. Mount.id # 0
    <3>1. Mount.id \in 1..uses /\ uses \in Nat
      BY <2>3, EntryFacts, Zenon DEF Mount
    <3> QED BY <3>1
  <2>5. Running
    <3>1. Top.index > Len(Chain)
      BY <2>1, <2>3
    <3> QED BY <2>1, <3>1, NotWaiting DEF Running
  <2>6. Mount.kind = "mount" /\ Mount = queue[Server][Top.mount] /\ Chain = Mount.mws
    BY <1>0, <2>1, <2>5, Zenon DEF PassedInv, Mount, Chain, ChainOf
  <2>7. ASSUME NEW g \in Guards(e) PROVE HasRun(g)
    <3>1. CASE /\ g \in Range(queue[Server]) /\ g.kind = "mw" /\ IsPrefix(g.prefix, received)
               /\ g.id < Mount.id
      BY <1>0, <2>1, <2>5, <3>1, ServerGuards
    <3>2. CASE /\ g \in Range(queue[Router]) /\ g.kind = "mw" /\ g.id < Mount.id
               /\ IsPrefix(g.prefix, path)
      <4>1. PICK k \in 1..Len(queue[Router]) : g = queue[Router][k]
        BY <3>2, EntryFacts, Zenon DEF Range
      <4>2. k <= Len(Chain) /\ Chain[k] = g
        BY <1>0, <2>3, <2>6, <3>2, <4>1, Zenon DEF QueueInv
      <4>3. k \in 1..Len(Chain) /\ k < Top.index
        BY <2>1, <2>3, <4>2, EntryFacts
      <4> QED BY <1>0, <2>1, <2>5, <3>2, <4>2, <4>3, Zenon DEF PassedInv
    <3> QED BY <2>2, <2>4, <2>7, <3>1, <3>2, Zenon DEF Guards
  <2> QED BY <2>1, <2>7, Zenon
<1>6. CASE RunRoute
  <2> DEFINE e == Event(IF path \in routes[Server] THEN Server ELSE "404", 0)
  <2>1. ~Idle /\ Top.chain = Server /\ Top.index > Len(Chain) /\ Log(e)
    BY <1>6 DEF RunRoute
  <2>2. e.who # Router /\ e.mount = 0
    BY <1>0, <2>1 DEF Event
  <2> HIDE DEF e
  <2>3. Running /\ Chain = queue[Server] /\ Reached = Top.index /\ Top.index \in Nat
        /\ Len(Chain) \in Nat
    BY <2>1, ChainFacts, NotWaiting DEF Running, Chain, ChainOf, Reached
  <2>4. ASSUME NEW g \in Guards(e) PROVE HasRun(g)
    <3>1. g \in Range(queue[Server]) /\ g.kind = "mw" /\ IsPrefix(g.prefix, received)
      BY <2>2, <2>4, Zenon DEF Guards
    <3>2. PICK j \in 1..Len(queue[Server]) : g = queue[Server][j]
      BY <3>1, EntryFacts, Zenon DEF Range
    <3>3. j < Reached
      BY <2>1, <2>3, <3>2
    <3> QED BY <1>0, <2>3, <3>1, <3>2, <3>3, Zenon DEF PassedInv
  <2> QED BY <2>1, <2>4, Zenon
<1>7. CASE Answers1
  <2>1. ~Running'
    BY <1>7, Zenon DEF Answers1, Running, Waiting
  <2>2. ~GoesOn
    BY <2>1 DEF GoesOn
  <2>3. PICK d : Log(d) /\ (Handled(d) \/ d.who = "stop")
    BY <1>7 DEF Answers1
  <2>4. CASE d.who = "stop"
    BY <1>1, <2>3, <2>4, Zenon
  <2>5. CASE Skip \/ NextReturned \/ PassBy \/ EnterRouter \/ LeaveRouter
    BY <2>5, Zenon DEF Skip, NextReturned, PassBy, EnterRouter, LeaveRouter
  <2>6. CASE CallNext
    <3>1. Log(Event("mw", Current.id)) /\ Event("mw", Current.id).who = "mw"
      BY <2>6, EventFacts DEF CallNext
    <3> QED BY <1>1, <3>1, Zenon
  <2>7. CASE Throw
    <3>1. Log(Event("threw", Current.id)) /\ Event("threw", Current.id).who = "threw"
      BY <2>7, EventFacts DEF Throw
    <3> QED BY <1>1, <3>1, Zenon
  <2> QED BY <1>3, <1>4, <1>5, <1>6, <2>5, <2>6, <2>7 DEF Serve
<1> QED BY <1>2, <1>7, Steps

LEMMA GuardsLogged ==
  ASSUME ran \in Seq(Range(ran)), GuardsRunFirst, UNCHANGED <<config, received>>,
         ran' = ran \/ \E e : Log(e) /\ (Handled(e) => \A g \in Guards(e) : HasRun(g))
  PROVE  GuardsRunFirst'
<1>0. queue' = queue /\ received' = received
  BY DEF config
<1>1. CASE ran' = ran
  BY <1>0, <1>1 DEF GuardsRunFirst, Guards, Handled
<1>2. CASE \E e : Log(e) /\ (Handled(e) => \A g \in Guards(e) : HasRun(g))
  <2>1. PICK e : Log(e) /\ (Handled(e) => \A g \in Guards(e) : HasRun(g))
    BY <1>2
  <2>2. /\ Len(ran) \in Nat /\ Len(ran') = Len(ran) + 1 /\ ran'[Len(ran')] = e
        /\ DOMAIN ran' = 1..Len(ran) \cup {Len(ran')} /\ DOMAIN ran = 1..Len(ran)
        /\ \A i \in 1..Len(ran) : ran'[i] = ran[i]
    BY <2>1, Logged
  <2>3. ASSUME NEW i \in DOMAIN ran', Handled(ran'[i]), NEW g \in Guards(ran'[i])
        PROVE  \E j \in 1..i - 1 : ran'[j].who = "mw" /\ ran'[j].id = g.id
    <3>1. CASE i \in 1..Len(ran)
      <4>1. PICK j \in 1..i - 1 : ran[j].who = "mw" /\ ran[j].id = g.id
        BY <2>2, <2>3, <3>1, Zenon DEF GuardsRunFirst
      <4>2. j \in 1..Len(ran)
        BY <2>2, <3>1
      <4> QED BY <2>2, <4>1, <4>2, Zenon
    <3>2. CASE i = Len(ran')
      <4>1. HasRun(g)
        BY <2>1, <2>2, <2>3, <3>2, Zenon
      <4>2. PICK j \in 1..Len(ran) : ran[j].who = "mw" /\ ran[j].id = g.id
        BY <4>1, Zenon DEF HasRun
      <4>3. j \in 1..i - 1
        BY <2>2, <3>2
      <4> QED BY <2>2, <4>2, <4>3, Zenon
    <3> QED BY <2>2, <3>1, <3>2
  <2> QED BY <1>0, <2>3 DEF GuardsRunFirst, Guards, Handled
<1> QED BY <1>1, <1>2

LEMMA GuardInvStep ==
  ASSUME DispatchInv, AnswerInv, GuardInv, [Next]_vars
  PROVE  GuardInv'
<1>1. QueueInv' /\ PassedInv'
  BY QueueInvStep, PassedInvStep DEF GuardInv
<1>2. ran \in Seq(Range(ran)) /\ GuardsRunFirst
  BY DEF AnswerInv, GuardInv
<1>3. ASSUME ran' = <<>> PROVE GuardsRunFirst'
  <2>1. DOMAIN ran' = {}
    BY <1>3
  <2> QED BY <2>1, Zenon DEF GuardsRunFirst
<1>4. CASE Serve
  <2>1. UNCHANGED <<config, received>>
    BY <1>4, Zenon DEF Serve, Skip, CallNext, Stop, NextReturned, Throw, PassBy, EnterRouter,
         TrySubRouter, TryRouter, LeaveRouter, RunRoute
  <2> QED BY <1>1, <1>2, <1>4, <2>1, HandlerGuarded, GuardsLogged DEF GuardInv
<1>5. CASE UNCHANGED vars
  <2>1. UNCHANGED <<config, received>> /\ ran' = ran
    BY <1>5 DEF vars
  <2> QED BY <1>1, <1>2, <2>1, GuardsLogged DEF GuardInv
<1>6. CASE Configure \/ \E p \in Paths : Receive(p)
  BY <1>1, <1>3, <1>6, StepsBetween DEF GuardInv
<1> QED BY <1>4, <1>5, <1>6 DEF Next

LEMMA InitOrder == Init => AnswerInv /\ GuardInv
<1> SUFFICES ASSUME Init PROVE AnswerInv /\ GuardInv
  OBVIOUS
<1>1. ran = <<>> /\ Idle /\ \A o \in Owners : queue[o] = <<>>
  BY DEF Init, Idle
<1>2. ran \in Seq(Range(ran)) /\ DOMAIN ran = {} /\ Answers = {}
  BY <1>1 DEF Answers
<1>3. Cardinality(Answers) <= 1
  BY <1>2, FS_EmptySet
<1>4. 1..Len(queue[Server]) = {}
  BY <1>1 DEF Owners
<1> QED BY <1>1, <1>2, <1>3, <1>4, Zenon
      DEF AnswerInv, AnsweredOnce, Running, Waiting, GuardInv, QueueInv, PassedInv, GuardsRunFirst

(* No handler runs, and no 404 is sent, before every middleware that       *)
(* guards it has run and called next(), for any order of registration and  *)
(* any mounts (README.md:194-195, HttpServer.cpp:287-336).                 *)
THEOREM GuardsFirst == Spec => []GuardsRunFirst
<1>1. Init => AnswerInv /\ GuardInv
  BY InitOrder
<1>2. GuardInv => GuardsRunFirst
  BY DEF GuardInv
<1> QED BY <1>1, <1>2, AnswerInvStep, GuardInvStep, Invariant, PTL DEF Spec

-----------------------------------------------------------------------------
(* Middleware in the order of registration.                                *)

LEMMA CopiesGrow ==
  ASSUME DispatchInv, CopiesInv, NEW owner \in Owners, NEW entry, Enqueue(owner, entry),
         entry.id = uses + 1, entry.mws = <<>> \/ entry.mws = queue[Router]
  PROVE  CopiesInv'
<1> DEFINE n == Len(queue[Server])
           m == Len(queue[Router])
<1>1. queue' = [queue EXCEPT ![owner] = Append(@, entry)]
  BY DEF Enqueue
<1>2. n \in Nat /\ m \in Nat /\ uses \in Nat /\ \A k \in 1..m : queue[Router][k].id \in 1..uses
  BY EntryFacts
<1>3. /\ queue \in [Owners -> Seq(Own \cup Subs \cup Mounts)]
      /\ Server \in Owners /\ Router \in Owners /\ Server # Router
  BY DispatchAssumption DEF DispatchInv, TypeOK, Owners
<1>4. /\ Len(Append(queue[Server], entry)) = n + 1 /\ Append(queue[Server], entry)[n + 1] = entry
      /\ \A i \in 1..n : Append(queue[Server], entry)[i] = queue[Server][i]
      /\ Len(Append(queue[Router], entry)) = m + 1 /\ Append(queue[Router], entry)[m + 1] = entry
      /\ \A i \in 1..m : Append(queue[Router], entry)[i] = queue[Router][i]
  BY <1>3, Appended
<1>5. CASE owner = Server
  <2>1. queue'[Router] = queue[Router] /\ queue'[Server] = Append(queue[Server], entry)
    BY <1>1, <1>3, <1>5, Zenon
  <2>2. /\ Len(queue'[Server]) = n + 1 /\ queue'[Server][n + 1] = entry
        /\ \A i \in 1..n : queue'[Server][i] = queue[Server][i]
    BY <1>4, <2>1, Zenon
  <2>3. ASSUME NEW i \in 1..Len(queue'[Server]), NEW k \in 1..Len(queue'[Server][i].mws)
        PROVE  /\ queue'[Server][i].mws[k].id < queue'[Server][i].id
               /\ \A l \in 1..k - 1 : queue'[Server][i].mws[l].id < queue'[Server][i].mws[k].id
    <3>1. CASE i \in 1..n
      BY <2>2, <2>3, <3>1, Zenon DEF CopiesInv
    <3>2. CASE i = n + 1
      <4>1. queue'[Server][i] = entry
        BY <2>2, <3>2, Zenon
      <4>2. entry.mws # <<>>
        <5>1. 1..Len(<<>>) = {}
          OBVIOUS
        <5> QED BY <2>3, <4>1, <5>1, Zenon
      <4>3. entry.mws = queue[Router] /\ k \in 1..m
        BY <2>3, <4>1, <4>2, Zenon
      <4>4. queue[Router][k].id < uses + 1
        BY <1>2, <4>3
      <4> QED BY <4>1, <4>3, <4>4, Zenon DEF CopiesInv
    <3>3. i \in 1..n \/ i = n + 1
      BY <1>2, <2>2
    <3> QED BY <3>1, <3>2, <3>3
  <2> QED BY <2>1, <2>3, Zenon DEF CopiesInv
<1>6. CASE owner = Router
  <2>1. queue'[Server] = queue[Server] /\ queue'[Router] = Append(queue[Router], entry)
    BY <1>1, <1>3, <1>6, Zenon
  <2>2. /\ Len(queue'[Router]) = m + 1 /\ queue'[Router][m + 1] = entry
        /\ \A k \in 1..m : queue'[Router][k] = queue[Router][k]
    BY <1>4, <2>1, Zenon
  <2>3. ASSUME NEW k \in 1..Len(queue'[Router]), NEW l \in 1..k - 1
        PROVE  queue'[Router][l].id < queue'[Router][k].id
    <3>1. l \in 1..m /\ (k \in 1..m \/ k = m + 1)
      BY <1>2, <2>2
    <3>2. CASE k \in 1..m
      BY <2>2, <2>3, <3>1, <3>2, Zenon DEF CopiesInv
    <3>3. CASE k = m + 1
      <4>1. queue'[Router][k].id = uses + 1 /\ queue'[Router][l] = queue[Router][l]
        BY <2>2, <3>1, <3>3, Zenon
      <4>2. queue[Router][l].id < uses + 1
        BY <1>2, <3>1
      <4> QED BY <4>1, <4>2, Zenon
    <3> QED BY <3>1, <3>2, <3>3
  <2> QED BY <2>1, <2>3, Zenon DEF CopiesInv
<1>7. CASE owner # Server /\ owner # Router
  <2>1. queue'[Server] = queue[Server] /\ queue'[Router] = queue[Router]
    BY <1>1, <1>3, <1>7, Zenon
  <2> QED BY <2>1, Zenon DEF CopiesInv
<1> QED BY <1>5, <1>6, <1>7

LEMMA CopiesInvStep ==
  ASSUME DispatchInv, CopiesInv, [Next]_vars
  PROVE  CopiesInv'
<1>1. ASSUME NEW owner \in Owners, NEW prefix \in Scopes, UseMiddleware(owner, prefix)
      PROVE  CopiesInv'
  <2> DEFINE entry == Entry("mw", prefix, <<>>)
  <2>1. Enqueue(owner, entry)
    BY <1>1 DEF UseMiddleware
  <2>2. entry.id = uses + 1 /\ entry.mws = <<>>
    BY DEF Entry
  <2> HIDE DEF entry
  <2> QED BY <2>1, <2>2, CopiesGrow
<1>2. ASSUME NEW p \in MountPaths, UseRouter(p) PROVE CopiesInv'
  <2> DEFINE entry == Entry("mount", Normalized(p), queue[Router])
  <2>1. Enqueue(Server, entry)
    BY <1>2 DEF UseRouter
  <2>2. entry.id = uses + 1 /\ entry.mws = queue[Router] /\ Server \in Owners
    BY DEF Entry, Owners
  <2> HIDE DEF entry
  <2> QED BY <2>1, <2>2, CopiesGrow
<1>3. ASSUME NEW p \in MountPaths, UseSubRouter(p) PROVE CopiesInv'
  <2> DEFINE entry == Entry("sub", Normalized(p), <<>>)
  <2>1. Enqueue(Router, entry)
    BY <1>3 DEF UseSubRouter
  <2>2. entry.id = uses + 1 /\ entry.mws = <<>> /\ Router \in Owners
    BY DEF Entry, Owners
  <2> HIDE DEF entry
  <2> QED BY <2>1, <2>2, CopiesGrow
<1>4. ASSUME UNCHANGED queue PROVE CopiesInv'
  BY <1>4, Zenon DEF CopiesInv
<1> QED BY <1>1, <1>2, <1>3, <1>4, QueueSteps, Zenon

(* d, which ran, is numbered below what a request in frame f may come to.  *)
Place(f) == IF f.chain = Server THEN f.index ELSE f.mount

Ahead(f, d) ==
  /\ \A j \in 1..Len(queue[Server]) :
       j > Place(f) \/ (j = Place(f) /\ f.chain = Server) =>
         /\ d.mount < queue[Server][j].id
         /\ d.mount = 0 => d.id < queue[Server][j].id
  /\ f.chain = Router =>
       \A k \in 1..Len(queue[Server][f.mount].mws) :
         k >= f.index /\ d.mount = queue[Server][f.mount].id
           => d.id < queue[Server][f.mount].mws[k].id

LEMMA AheadIs ==
  ASSUME AheadInv, Running, NEW i \in 1..Len(ran)
  PROVE  Ahead(Top, ran[i])
<1>1. Server # Router
  BY DispatchAssumption
<1>2. Place(Top) = Reached /\ (Top.chain = Router => Chain = Mount.mws)
      /\ Mount = queue[Server][Top.mount]
  BY <1>1, Zenon DEF Place, Reached, Chain, ChainOf, Mount
<1> QED BY <1>2, Zenon DEF Ahead, AheadInv

LEMMA AheadNow ==
  ASSUME queue' = queue, NEW f, Top' = f, \A i \in 1..Len(ran') : Ahead(f, ran'[i])
  PROVE  AheadInv'
<1>1. Server # Router
  BY DispatchAssumption
<1>2. Reached' = Place(f)
  BY Zenon DEF Place, Reached
<1>3. /\ Mount' = queue[Server][f.mount]
      /\ f.chain = Router => Chain' = queue[Server][f.mount].mws
  BY <1>1, Zenon DEF Mount, Chain, ChainOf
<1>4. \A i \in 1..Len(ran'), j \in 1..Len(queue'[Server]) :
        j > Reached' \/ (j = Reached' /\ Top'.chain = Server) =>
          /\ ran'[i].mount < queue'[Server][j].id
          /\ ran'[i].mount = 0 => ran'[i].id < queue'[Server][j].id
  BY <1>2, Zenon DEF Ahead
<1>5. Top'.chain = Router =>
        \A i \in 1..Len(ran'), k \in 1..Len(Chain') :
          k >= Top'.index /\ ran'[i].mount = Mount'.id => ran'[i].id < Chain'[k].id
  BY <1>3, Zenon DEF Ahead
<1> QED BY <1>4, <1>5, Zenon DEF AheadInv

LEMMA AheadKept ==
  ASSUME ran \in Seq(Range(ran)), NEW f, \A i \in 1..Len(ran) : Ahead(f, ran[i]),
         ran' = ran \/ \E e : Log(e) /\ Ahead(f, e)
  PROVE  \A i \in 1..Len(ran') : Ahead(f, ran'[i])
<1>1. CASE ran' = ran
  BY <1>1
<1>2. CASE \E e : Log(e) /\ Ahead(f, e)
  <2>1. PICK e : Log(e) /\ Ahead(f, e)
    BY <1>2
  <2>2. /\ 1..Len(ran') = 1..Len(ran) \cup {Len(ran')} /\ ran'[Len(ran')] = e
        /\ \A i \in 1..Len(ran) : ran'[i] = ran[i]
    BY <2>1, Logged
  <2> QED BY <2>1, <2>2, Zenon
<1> QED BY <1>1, <1>2

LEMMA AheadNext ==
  ASSUME DispatchInv, Running, NEW d, Ahead(Top, d)
  PROVE  Ahead(NextFrame, d)
<1>1. ~Idle /\ Server # Router
  BY DispatchAssumption DEF Running
<1>2. /\ NextFrame.chain = Top.chain /\ NextFrame.mount = Top.mount
      /\ NextFrame.index = Top.index + 1
  BY <1>1, NextFrameFacts DEF DispatchInv
<1>3. Top.chain \in {Server, Router} /\ Top.index \in Nat
  BY <1>1, ChainFacts
<1>4. CASE Top.chain = Server
  <2>1. Place(Top) = Top.index /\ Place(NextFrame) = Top.index + 1 /\ NextFrame.chain # Router
    BY <1>1, <1>2, <1>4, Zenon DEF Place
  <2>2. ASSUME NEW j \in 1..Len(queue[Server]),
               j > Place(NextFrame) \/ (j = Place(NextFrame) /\ NextFrame.chain = Server)
        PROVE  j > Place(Top)
    BY <1>3, <2>1, <2>2
  <2> QED BY <2>1, <2>2, Zenon DEF Ahead
<1>5. CASE Top.chain = Router
  <2>1. Place(Top) = Top.mount /\ Place(NextFrame) = Top.mount /\ NextFrame.chain # Server
    BY <1>1, <1>2, <1>5, Zenon DEF Place
  <2>2. ASSUME NEW k \in 1..Len(queue[Server][Top.mount].mws), k >= NextFrame.index
        PROVE  k >= Top.index
    BY <1>2, <1>3, <2>2
  <2> QED BY <1>2, <1>5, <2>1, <2>2, Zenon DEF Ahead
<1> QED BY <1>3, <1>4, <1>5

(* The middleware called now, in the order of both chains.                 *)
LEMMA CurrentAhead ==
  ASSUME DispatchInv, QueueInv, CopiesInv, PassedInv, Running, Top.index <= Len(Chain),
         NEW e, e.id = Current.id, e.mount = IF Top.chain = Server THEN 0 ELSE Mount.id
  PROVE  /\ Ahead(NextFrame, e)
         /\ e.mount # 0 => e.id < e.mount
         /\ \A d : Ahead(Top, d) /\ d.mount = e.mount => d.id < e.id
<1>1. ~Idle /\ Server # Router
  BY DispatchAssumption DEF Running
<1>2. /\ NextFrame.chain = Top.chain /\ NextFrame.mount = Top.mount
      /\ NextFrame.index = Top.index + 1
  BY <1>1, NextFrameFacts DEF DispatchInv
<1>3. Top.chain \in {Server, Router} /\ Top.index \in 1..Len(Chain) /\ Len(Chain) \in Nat
  BY <1>1, ChainFacts
<1>4. /\ Len(queue[Server]) \in Nat /\ uses \in Nat
      /\ \A j \in 1..Len(queue[Server]) : queue[Server][j].id \in 1..uses
  BY EntryFacts
<1>5. CASE Top.chain = Server
  <2>1. Chain = queue[Server] /\ e.mount = 0 /\ e.id = queue[Server][Top.index].id
    BY <1>5, Zenon DEF Chain, ChainOf, Current
  <2>2. ASSUME NEW j \in 1..Len(queue[Server]), j > Top.index + 1 \/ j = Top.index + 1
        PROVE  e.mount < queue[Server][j].id /\ e.id < queue[Server][j].id
    <3>1. Top.index \in 1..j - 1
      BY <1>3, <2>1, <2>2
    <3>2. e.id < queue[Server][j].id
      BY <2>1, <3>1, Zenon DEF QueueInv
    <3>3. 0 < queue[Server][j].id
      BY <1>4
    <3> QED BY <2>1, <3>2, <3>3
  <2>3. Ahead(NextFrame, e)
    BY <1>1, <1>2, <1>5, <2>2, Zenon DEF Ahead, Place
  <2>4. ASSUME NEW d, Ahead(Top, d), d.mount = e.mount PROVE d.id < e.id
    BY <1>3, <1>5, <2>1, <2>4, Zenon DEF Ahead, Place
  <2> QED BY <2>1, <2>3, <2>4
<1>6. CASE Top.chain = Router
  <2>1. PICK m \in 1..Len(queue[Server]) : m = Top.mount
    BY <1>1, <1>6, ChainFacts
  <2>2. /\ Chain = queue[Server][m].mws /\ e.mount = queue[Server][m].id
        /\ e.id = queue[Server][m].mws[Top.index].id
    BY <1>1, <1>6, <2>1, Zenon DEF Chain, ChainOf, Current, Mount
  <2>3. e.id < e.mount
    BY <1>3, <2>2, Zenon DEF CopiesInv
  <2>4. e.mount # 0
    BY <1>4, <2>2
  <2>5. ASSUME NEW j \in 1..Len(queue[Server]), j > m PROVE e.mount < queue[Server][j].id
    <3>1. m \in 1..j - 1
      BY <1>4, <2>5
    <3> QED BY <2>2, <3>1, Zenon DEF QueueInv
  <2>6. ASSUME NEW k \in 1..Len(queue[Server][m].mws), k >= Top.index + 1
        PROVE  e.id < queue[Server][m].mws[k].id
    <3>1. Top.index \in 1..k - 1
      BY <1>3, <2>2, <2>6
    <3> QED BY <2>2, <3>1, Zenon DEF CopiesInv
  <2>7. Ahead(NextFrame, e)
    BY <1>1, <1>2, <1>6, <2>1, <2>4, <2>5, <2>6, Zenon DEF Ahead, Place
  <2>8. ASSUME NEW d, Ahead(Top, d), d.mount = e.mount PROVE d.id < e.id
    <3>1. Top.index >= Top.index
      BY <1>3
    <3> QED BY <1>3, <1>6, <2>1, <2>2, <2>8, <3>1, Zenon DEF Ahead
  <2> QED BY <2>3, <2>7, <2>8
<1> QED BY <1>3, <1>5, <1>6

LEMMA AheadInvStep ==
  ASSUME DispatchInv, AnswerInv, GuardInv, OrderInv, [Next]_vars
  PROVE  AheadInv'
<1>0. /\ ran \in Seq(Range(ran)) /\ Server # Router
      /\ QueueInv /\ PassedInv /\ CopiesInv /\ AheadInv
  BY DispatchAssumption DEF AnswerInv, GuardInv, OrderInv
<1>1. ASSUME ~Running' PROVE AheadInv'
  BY <1>1, Zenon DEF AheadInv
<1>2. ASSUME Running PROVE \A i \in 1..Len(ran) : Ahead(Top, ran[i])
  BY <1>0, <1>2, AheadIs
<1>3. ASSUME Running, ran' = ran, Top' = NextFrame, UNCHANGED config PROVE AheadInv'
  <2>1. \A i \in 1..Len(ran) : Ahead(NextFrame, ran[i])
    BY <1>2, <1>3, AheadNext
  <2>2. queue' = queue
    BY <1>3 DEF config
  <2> QED BY <1>3, <2>1, <2>2, AheadNow
<1>4. CASE Skip
  <2>1. ~Idle /\ Top.next = "not called" /\ Goto(NextFrame) /\ ran' = ran /\ UNCHANGED config
    BY <1>4 DEF Skip, HasEntry
  <2> QED BY <1>3, <2>1, NextRuns DEF Running
<1>5. CASE CallNext
  <2> DEFINE e == Event("mw", Current.id)
  <2>1. ~Idle /\ Top.index <= Len(Chain) /\ Top.next = "not called" /\ queue' = queue /\ Log(e)
    BY <1>5 DEF CallNext, HasEntry, config
  <2>2. Top' = NextFrame
    BY <1>5, CallRuns
  <2>3. e.id = Current.id /\ e.mount = IF Top.chain = Server THEN 0 ELSE Mount.id
    BY EventFacts
  <2> HIDE DEF e
  <2>4. Running
    BY <2>1 DEF Running
  <2>5. Ahead(NextFrame, e)
    BY <1>0, <2>1, <2>3, <2>4, CurrentAhead
  <2>6. \A i \in 1..Len(ran) : Ahead(NextFrame, ran[i])
    BY <1>2, <2>4, AheadNext
  <2>7. \A i \in 1..Len(ran') : Ahead(NextFrame, ran'[i])
    BY <1>0, <2>1, <2>5, <2>6, AheadKept
  <2> QED BY <2>1, <2>2, <2>7, AheadNow
<1>6. CASE Stop \/ NextReturned \/ Throw \/ RunRoute
  <2>1. (Idle \/ Waiting)'
    <3>1. ~Idle /\ (Return \/ stack' = <<>>)
      BY <1>6 DEF Stop, NextReturned, Throw, RunRoute, HasEntry, Answered
    <3> QED BY <3>1, NowWaits
  <2>2. ~Running'
    BY <2>1, Zenon DEF Running, Waiting
  <2> QED BY <1>1, <2>2
<1>7. CASE PassBy
  <2>1. ~Idle /\ Current.kind = "mount" /\ Goto(NextFrame) /\ ran' = ran /\ UNCHANGED config
    BY <1>7 DEF PassBy, HasEntry
  <2> QED BY <1>3, <2>1, NextRuns, NotWaiting DEF Running
<1>8. CASE EnterRouter
  <2> DEFINE f == Frame(Router, 1, Top.index, path)
  <2>1. /\ ~Idle /\ Top.index <= Len(Chain) /\ Current.kind = "mount" /\ Goto(f)
        /\ ran' = ran /\ queue' = queue
    BY <1>8 DEF EnterRouter, HasEntry, config
  <2>2. Top.index \in 1..Len(Chain) /\ Top.index \in Nat
    BY <2>1, ChainFacts
  <2>3. f \in Frames /\ f.chain = Router /\ f.index = 1 /\ f.mount = Top.index
    <3>1. <<>> \in Text /\ path \in Text
      BY DEF Text, DispatchInv, StackInv
    <3> QED BY <2>2, <3>1 DEF Frame, Frames
  <2> HIDE DEF f
  <2>4. Top' = f
    BY <2>1, <2>3, NowRuns
  <2>5. Top.chain = Server /\ Running
    BY <2>1, <2>2, ChainFacts, NotWaiting DEF Current, Running
  <2>6. PICK m \in 1..Len(queue[Server]) : m = Top.index
    BY <2>2, <2>5, Zenon DEF Chain, ChainOf
  <2>7. ASSUME NEW d, Ahead(Top, d) PROVE Ahead(f, d)
    <3>1. /\ d.mount < queue[Server][m].id
          /\ \A j \in 1..Len(queue[Server]) : j > m =>
               d.mount < queue[Server][j].id /\ (d.mount = 0 => d.id < queue[Server][j].id)
      BY <2>5, <2>6, <2>7, Zenon DEF Ahead, Place
    <3>2. d.mount # queue[Server][m].id
      <4>1. queue[Server][m].id \in Nat
        BY EntryFacts
      <4> QED BY <3>1, <4>1
    <3> QED BY <1>0, <2>3, <2>6, <3>1, <3>2, Zenon DEF Ahead, Place
  <2>8. \A i \in 1..Len(ran) : Ahead(f, ran[i])
    BY <1>2, <2>5, <2>7
  <2> QED BY <2>1, <2>4, <2>8, AheadNow
<1>9. CASE TrySubRouter
  <2>1. /\ ~Idle /\ Current.kind = "sub" /\ UNCHANGED config
        /\ Answered \/ (Goto(NextFrame) /\ ran' = ran)
    BY <1>9 DEF TrySubRouter, HasEntry
  <2>2. CASE Answered
    <3>1. ~Running'
      BY <2>1, <2>2, AnsweredWaits, Zenon DEF Running, Waiting
    <3> QED BY <1>1, <3>1
  <2>3. CASE Goto(NextFrame) /\ ran' = ran
    BY <1>3, <2>1, <2>3, NextRuns, NotWaiting DEF Running
  <2> QED BY <2>1, <2>2, <2>3
<1>10. CASE TryRouter
  <2>1. /\ ~Idle /\ Top.index = Len(Chain) + 1 /\ UNCHANGED config
        /\ Answered \/ (Goto(NextFrame) /\ ran' = ran)
    BY <1>10 DEF TryRouter, InRouter
  <2>2. CASE Answered
    <3>1. ~Running'
      BY <2>1, <2>2, AnsweredWaits, Zenon DEF Running, Waiting
    <3> QED BY <1>1, <3>1
  <2>3. CASE Goto(NextFrame) /\ ran' = ran
    <3>1. Top.index > Len(Chain)
      BY <2>1, ChainFacts
    <3> QED BY <1>3, <2>1, <2>3, <3>1, NextRuns, NotWaiting DEF Running
  <2> QED BY <2>1, <2>2, <2>3
<1>11. CASE LeaveRouter
  <2> DEFINE f == ServerFrame(Top.mount + 1)
  <2>1. /\ ~Idle /\ Top.chain = Router /\ Top.index > Len(Chain) + 1 /\ Goto(f)
        /\ ran' = ran /\ queue' = queue
    BY <1>11 DEF LeaveRouter, InRouter, config
  <2>2. Top.mount \in 1..Len(queue[Server]) /\ Top.index > Len(Chain)
    BY <2>1, ChainFacts
  <2>3. f \in Frames /\ f.chain = Server /\ f.index = Top.mount + 1
    <3>1. <<>> \in Text /\ Top.mount + 1 \in Nat
      BY <2>2, EntryFacts DEF Text
    <3> QED BY <3>1 DEF ServerFrame, Frame, Frames
  <2> HIDE DEF f
  <2>4. Top' = f
    BY <2>1, <2>3, NowRuns
  <2>5. Running
    BY <2>1, <2>2, NotWaiting DEF Running
  <2>6. ASSUME NEW d, Ahead(Top, d) PROVE Ahead(f, d)
    <3>1. Place(Top) = Top.mount /\ Place(f) = Top.mount + 1 /\ f.chain # Router
      BY <1>0, <2>1, <2>3, Zenon DEF Place
    <3>2. \A j \in 1..Len(queue[Server]) : j > Place(f) \/ j = Place(f) => j > Place(Top)
      BY <2>2, <3>1, EntryFacts
    <3> QED BY <2>6, <3>1, <3>2, Zenon DEF Ahead
  <2>7. \A i \in 1..Len(ran) : Ahead(f, ran[i])
    BY <1>2, <2>5, <2>6
  <2> QED BY <2>1, <2>4, <2>7, AheadNow
<1>12. ASSUME ran' = <<>> PROVE AheadInv'
  <2>1. 1..Len(ran') = {}
    BY <1>12
  <2> QED BY <2>1, Zenon DEF AheadInv
<1>13. CASE Configure \/ \E p \in Paths : Receive(p)
  BY <1>12, <1>13, StepsBetween
<1>14. CASE UNCHANGED vars
  BY <1>0, <1>14, Zenon DEF vars, config, AheadInv, Running, Idle, Reached, Top, Mount, Chain, ChainOf
<1> QED BY <1>4, <1>5, <1>6, <1>7, <1>8, <1>9, <1>10, <1>11, <1>13, <1>14 DEF Next, Serve

LEMMA RunsLogged ==
  ASSUME ran \in Seq(Range(ran)), RunsInOrder, NEW e, Log(e),
         e.who = "mw" /\ e.mount # 0 => e.id < e.mount,
         e.who \in {"mw", "stop"} =>
           \A i \in 1..Len(ran) : ran[i].mount = e.mount => ran[i].id < e.id
  PROVE  RunsInOrder'
<1>1. /\ Len(ran) \in Nat /\ Len(ran') = Len(ran) + 1 /\ ran'[Len(ran')] = e
      /\ DOMAIN ran' = 1..Len(ran') /\ DOMAIN ran = 1..Len(ran)
      /\ 1..Len(ran') = 1..Len(ran) \cup {Len(ran')}
      /\ \A i \in 1..Len(ran) : ran'[i] = ran[i]
  BY Logged
<1>2. ASSUME NEW i \in DOMAIN ran', ran'[i].who = "mw", ran'[i].mount # 0
      PROVE  ran'[i].id < ran'[i].mount
  <2>1. CASE i \in 1..Len(ran)
    BY <1>1, <1>2, <2>1, Zenon DEF RunsInOrder
  <2>2. CASE i = Len(ran')
    BY <1>1, <1>2, <2>2, Zenon
  <2> QED BY <1>1, <2>1, <2>2
<1>3. ASSUME NEW i \in DOMAIN ran', NEW j \in DOMAIN ran', i < j,
             {ran'[i].who, ran'[j].who} \subseteq {"mw", "stop"}, ran'[i].mount = ran'[j].mount
      PROVE  ran'[i].id < ran'[j].id
  <2>1. i \in 1..Len(ran)
    BY <1>1, <1>3
  <2>2. CASE j \in 1..Len(ran)
    BY <1>1, <1>3, <2>1, <2>2, Zenon DEF RunsInOrder
  <2>3. CASE j = Len(ran')
    BY <1>1, <1>3, <2>1, <2>3, Zenon
  <2> QED BY <1>1, <2>2, <2>3
<1> QED BY <1>2, <1>3, Zenon DEF RunsInOrder

LEMMA OrderInvStep ==
  ASSUME DispatchInv, AnswerInv, GuardInv, OrderInv, [Next]_vars
  PROVE  OrderInv'
<1>0. /\ ran \in Seq(Range(ran)) /\ RunsInOrder
      /\ QueueInv /\ PassedInv /\ CopiesInv /\ AheadInv
  BY DEF AnswerInv, GuardInv, OrderInv
<1>1. CopiesInv' /\ AheadInv'
  BY <1>0, CopiesInvStep, AheadInvStep
<1>2. ASSUME NEW e, Log(e), e.who \notin {"mw", "stop"} PROVE RunsInOrder'
  BY <1>0, <1>2, RunsLogged
<1>3. ASSUME ran' = ran PROVE RunsInOrder'
  BY <1>0, <1>3, Zenon DEF RunsInOrder
<1>4. ASSUME CallNext \/ Stop PROVE RunsInOrder'
  <2>1. PICK who : Log(Event(who, Current.id))
    BY <1>4 DEF CallNext, Stop
  <2> DEFINE e == Event(who, Current.id)
  <2>2. /\ Running /\ Top.index <= Len(Chain) /\ Log(e)
        /\ e.id = Current.id /\ e.mount = IF Top.chain = Server THEN 0 ELSE Mount.id
    <3>1. Running /\ Top.index <= Len(Chain)
      BY <1>4, Zenon DEF CallNext, Stop, HasEntry, Running
    <3>2. e.id = Current.id /\ e.mount = IF Top.chain = Server THEN 0 ELSE Mount.id
      BY EventFacts
    <3> QED BY <2>1, <3>1, <3>2
  <2> HIDE DEF e
  <2>3. /\ e.mount # 0 => e.id < e.mount
        /\ \A d : Ahead(Top, d) /\ d.mount = e.mount => d.id < e.id
    BY <1>0, <2>2, CurrentAhead
  <2>4. \A i \in 1..Len(ran) : Ahead(Top, ran[i])
    BY <1>0, <2>2, AheadIs
  <2>5. \A i \in 1..Len(ran) : ran[i].mount = e.mount => ran[i].id < e.id
    BY <2>3, <2>4, Zenon
  <2> QED BY <1>0, <2>2, <2>3, <2>5, RunsLogged
<1>5. ASSUME Serve PROVE RunsInOrder'
  <2>1. ASSUME NEW who, NEW id, who \in {"threw", "404"} \cup Owners, Log(Event(who, id))
        PROVE  RunsInOrder'
    <3>1. Event(who, id).who \notin {"mw", "stop"}
      BY <2>1, EventFacts, DispatchAssumption
    <3> QED BY <1>2, <2>1, <3>1
  <2>2. CASE Skip \/ NextReturned \/ PassBy \/ EnterRouter \/ LeaveRouter
    BY <1>3, <2>2 DEF Skip, NextReturned, PassBy, EnterRouter, LeaveRouter
  <2>3. CASE Throw
    BY <2>1, <2>3 DEF Throw
  <2>4. CASE TrySubRouter
    <3> DEFINE e == [Event(SubRouter, Current.id) EXCEPT !.path = After(path, Len(Current.prefix))]
    <3>1. ran' = ran \/ Log(e)
      BY <2>4 DEF TrySubRouter
    <3>2. e.who \notin {"mw", "stop"}
      <4>1. e.who = SubRouter
        BY DEF Event
      <4> QED BY <4>1, DispatchAssumption DEF Owners
    <3> HIDE DEF e
    <3> QED BY <1>2, <1>3, <3>1, <3>2
  <2>5. CASE TryRouter
    <3>1. ran' = ran \/ Log(Event(Router, Mount.id))
      BY <2>5 DEF TryRouter
    <3> QED BY <1>3, <2>1, <3>1 DEF Owners
  <2>6. CASE RunRoute
    <3>1. Log(Event(IF path \in routes[Server] THEN Server ELSE "404", 0))
      BY <2>6 DEF RunRoute
    <3> QED BY <2>1, <3>1 DEF Owners
  <2> QED BY <1>4, <1>5, <2>2, <2>3, <2>4, <2>5, <2>6 DEF Serve
<1>6. CASE Configure \/ \E p \in Paths : Receive(p)
  <2>1. ran' = <<>>
    BY <1>6, StepsBetween
  <2>2. DOMAIN ran' = {}
    BY <2>1
  <2> QED BY <1>1, <2>2, Zenon DEF OrderInv, RunsInOrder
<1>7. CASE UNCHANGED vars
  <2>1. ran' = ran
    BY <1>7 DEF vars
  <2> QED BY <1>1, <1>3, <2>1 DEF OrderInv
<1> QED BY <1>1, <1>5, <1>6, <1>7 DEF OrderInv, Next

(* At each place it is mounted, middleware runs at most once for a request *)
(* and in the order of registration, and a mounted router runs only what   *)
(* it had when it was mounted (HttpServer.cpp:287-291).                    *)
THEOREM MiddlewareInOrder == Spec => []RunsInOrder
<1>1. Init => AnswerInv /\ GuardInv /\ OrderInv
  <2> SUFFICES ASSUME Init PROVE OrderInv
    BY InitOrder
  <2>1. ran = <<>> /\ Idle /\ \A o \in Owners : queue[o] = <<>>
    BY DEF Init, Idle
  <2>2. DOMAIN ran = {}
    BY <2>1
  <2>3. 1..Len(queue[Server]) = {} /\ 1..Len(queue[Router]) = {}
    BY <2>1 DEF Owners
  <2> QED BY <2>1, <2>2, <2>3, Zenon DEF Running, OrderInv, CopiesInv, AheadInv, RunsInOrder
<1>2. OrderInv => RunsInOrder
  BY DEF OrderInv
<1> QED BY <1>1, <1>2, AnswerInvStep, GuardInvStep, OrderInvStep, Invariant, PTL DEF Spec

-----------------------------------------------------------------------------
(* No route was missed.                                                    *)

LEMMA PrefixOfEqual ==
  ASSUME NEW S, NEW s \in Seq(S), NEW w \in Seq(S), Len(s) <= Len(w),
         \A i \in 1..Len(s) : w[i] = s[i]
  PROVE  IsPrefix(s, w)
<1>1. PICK n \in Nat : n = Len(s)
  OBVIOUS
<1>2. PICK u, v : u = SubSeq(s, 1, n) /\ v = SubSeq(w, 1, n)
  OBVIOUS
<1>3. u \in Seq(S) /\ Len(u) = n /\ \A i \in 1..n : u[i] = s[i]
  BY <1>1, <1>2
<1>4. v \in Seq(S) /\ Len(v) = n /\ \A i \in 1..n : v[i] = w[i]
  BY <1>1, <1>2
<1>5. \A i \in 1..n : u[i] = v[i]
  BY <1>1, <1>3, <1>4, Zenon
<1>6. u = v
  BY <1>3, <1>4, <1>5, SeqEqual
<1> QED BY <1>1, <1>2, <1>6 DEF IsPrefix

(* There is one path below a mount point, and it is one the mount covers.  *)
LEMMA BelowIsCovered ==
  ASSUME NEW S, NEW whole \in Seq(S), NEW mount \in Seq(S), NEW p \in Seq(S),
         p # <<>>, p[1] = "/", IsBelow(whole, mount, p)
  PROVE  Covers(mount, whole)
<1>1. CASE mount = Slash \/ whole = mount
  BY <1>1 DEF Covers
<1>2. CASE whole = mount \o p
  <2>1. /\ Len(p) \in Nat \ {0} /\ Len(mount) \in Nat /\ Len(mount \o p) = Len(mount) + Len(p)
        /\ mount \o p \in Seq(S) /\ \A i \in 1..Len(mount) : (mount \o p)[i] = mount[i]
        /\ (mount \o p)[Len(mount) + 1] = "/"
    <3>1. Len(p) \in Nat \ {0}
      BY EmptySeq
    <3>2. (mount \o p)[Len(mount) + 1] = p[1]
      BY <3>1
    <3> QED BY <3>1, <3>2
  <2>2. /\ mount \o Slash \in Seq(S) /\ Len(mount \o Slash) = Len(mount) + 1
        /\ \A i \in 1..Len(mount) : (mount \o Slash)[i] = mount[i]
        /\ (mount \o Slash)[Len(mount) + 1] = "/"
    <3>1. p[1] \in S
      BY <2>1
    <3> QED BY <3>1 DEF Slash
  <2> DEFINE s == mount \o Slash
             w == mount \o p
             n == Len(mount) + 1
  <2>3. n \in Nat /\ n <= Len(w) /\ \A i \in 1..n : s[i] = w[i]
    <3>1. n \in Nat /\ n <= Len(w)
      BY <2>1
    <3>2. \A i \in 1..n : i \in 1..Len(mount) \/ i = Len(mount) + 1
      BY <2>1
    <3> QED BY <2>1, <2>2, <3>1, <3>2, Zenon
  <2>4. s \in Seq(S) /\ w \in Seq(S) /\ Len(s) = n /\ Len(w) \in Nat
    BY <2>1, <2>2
  <2> HIDE DEF s, w, n
  <2>5. SubSeq(s, 1, n) = SubSeq(w, 1, n)
    <3>1. /\ SubSeq(s, 1, n) \in Seq(S) /\ Len(SubSeq(s, 1, n)) = n
          /\ \A i \in 1..n : SubSeq(s, 1, n)[i] = s[i]
      BY <2>3, <2>4
    <3>2. /\ SubSeq(w, 1, n) \in Seq(S) /\ Len(SubSeq(w, 1, n)) = n
          /\ \A i \in 1..n : SubSeq(w, 1, n)[i] = w[i]
      BY <2>3, <2>4
    <3> DEFINE a == SubSeq(s, 1, n)
               b == SubSeq(w, 1, n)
    <3>3. a \in Seq(S) /\ b \in Seq(S) /\ Len(a) = n /\ Len(b) = n /\ \A i \in 1..n : a[i] = b[i]
      BY <2>3, <3>1, <3>2, Zenon
    <3> HIDE DEF a, b
    <3>4. a = b
      BY <3>3, SeqEqual
    <3> QED BY <3>4 DEF a, b
  <2>6. IsPrefix(s, w)
    BY <2>3, <2>4, <2>5 DEF IsPrefix
  <2> QED BY <1>2, <2>6, Zenon DEF s, w, Covers
<1> QED BY <1>1, <1>2 DEF IsBelow

LEMMA BelowIsOne ==
  ASSUME NEW S, NEW whole \in Seq(S), NEW mount \in Seq(S), NEW p \in Seq(S), NEW q \in Seq(S),
         p # <<>>, q # <<>>, IsBelow(whole, mount, p), IsBelow(whole, mount, q)
  PROVE  p = q
<1>0. ASSUME NEW r \in Seq(S), r # <<>> PROVE mount \o r # mount
  <2>1. Len(mount \o r) = Len(mount) + Len(r) /\ Len(mount) \in Nat /\ Len(r) \in Nat \ {0}
    <3>1. Len(r) \in Nat \ {0}
      BY <1>0, EmptySeq
    <3> QED BY <3>1
  <2>2. Len(mount \o r) # Len(mount)
    BY <2>1
  <2> QED BY <2>2, Zenon
<1>1. CASE mount = Slash
  BY <1>1 DEF IsBelow
<1>2. CASE mount # Slash /\ whole = mount
  BY <1>0, <1>2 DEF IsBelow
<1>3. CASE mount # Slash /\ whole # mount
  <2>1. mount \o p = mount \o q
    BY <1>3, Zenon DEF IsBelow
  <2>2. /\ Len(mount \o p) = Len(mount) + Len(p) /\ Len(mount \o q) = Len(mount) + Len(q)
        /\ Len(mount) \in Nat /\ Len(p) \in Nat /\ Len(q) \in Nat
    OBVIOUS
  <2>3. Len(p) = Len(q)
    <3>1. Len(mount \o p) = Len(mount \o q)
      BY <2>1, Zenon
    <3> QED BY <2>2, <3>1
  <2>4. \A i \in 1..Len(p) : (mount \o p)[Len(mount) + i] = p[i] /\ (mount \o q)[Len(mount) + i] = q[i]
    BY <2>3
  <2>5. \A i \in 1..Len(p) : p[i] = q[i]
    BY <2>1, <2>4, Zenon
  <2> QED BY <2>3, <2>5, SeqEqual
<1> QED BY <1>1, <1>2, <1>3

LEMMA Regrouped ==
  ASSUME NEW S, NEW a \in Seq(S), NEW b \in Seq(S), NEW c \in Seq(S)
  PROVE  (a \o b) \o c = a \o (b \o c)
BY ConcatAssociative

(* A path below a mount point of a mount point is one below the outer, and *)
(* then below the inner one.                                               *)
LEMMA JoinedIsNested ==
  ASSUME NEW S, NEW whole \in Seq(S), NEW a \in Seq(S), NEW b \in Seq(S), NEW p \in Seq(S),
         whole # <<>>, whole[1] = "/", a # <<>>, b # <<>>, b[1] = "/", p # <<>>, p[1] = "/",
         IsBelow(whole, Joined(a, b), p)
  PROVE  \E q \in Seq(S) : /\ q # <<>> /\ q[1] = "/"
                           /\ IsBelow(whole, a, q) /\ IsBelow(q, b, p)
<1>1. CASE a = Slash
  <2>1. IsBelow(whole, b, p) /\ IsBelow(whole, a, whole)
    BY <1>1, Zenon DEF Joined, IsBelow
  <2> QED BY <2>1, Zenon
<1>2. CASE a # Slash /\ b = Slash
  <2>1. IsBelow(whole, a, p) /\ IsBelow(p, b, p)
    BY <1>2, Zenon DEF Joined, IsBelow
  <2> QED BY <2>1, Zenon
<1>3. CASE a # Slash /\ b # Slash
  <2>1. Joined(a, b) = a \o b
    BY <1>3, Zenon DEF Joined
  <2>2. Len(a) \in Nat \ {0} /\ Len(b) \in Nat \ {0} /\ Len(p) \in Nat \ {0}
    BY EmptySeq
  <2>3. a \o b # Slash
    <3>1. Len(a \o b) = Len(a) + Len(b)
      OBVIOUS
    <3>2. Len(a \o b) # 1
      BY <2>2, <3>1
    <3>3. Len(Slash) = 1
      BY DEF Slash
    <3> QED BY <3>2, <3>3, Zenon
  <2>4. CASE whole = a \o b /\ p = Slash
    <3>1. IsBelow(whole, a, b) /\ IsBelow(b, b, p)
      BY <1>3, <2>4, Zenon DEF IsBelow
    <3> QED BY <3>1, Zenon
  <2>5. CASE whole = (a \o b) \o p
    <3>1. PICK q : q = b \o p
      OBVIOUS
    <3>2. q \in Seq(S) /\ Len(q) = Len(b) + Len(p) /\ q[1] = b[1]
      BY <2>2, <3>1
    <3>3. q # <<>>
      <4>1. Len(q) # 0
        BY <2>2, <3>2
      <4> QED BY <4>1, <3>2, EmptySeq
    <3>4. (a \o b) \o p = a \o q
      <4>1. (a \o b) \o p = a \o (b \o p)
        BY Regrouped
      <4> QED BY <3>1, <4>1, Zenon
    <3>5. IsBelow(whole, a, q) /\ IsBelow(q, b, p)
      BY <1>3, <2>5, <3>1, <3>4, Zenon DEF IsBelow
    <3> QED BY <3>2, <3>3, <3>5, Zenon
  <2> QED BY <2>1, <2>3, <2>4, <2>5, Zenon DEF IsBelow
<1> QED BY <1>1, <1>2, <1>3

(* What Router::use takes off a path that is below its mount point is what *)
(* is left of it, if the path does not begin with two slashes.             *)
LEMMA BelowIsTried ==
  ASSUME NEW S, NEW whole \in Seq(S), NEW b \in Seq(S), NEW p \in Seq(S), "/" \in S,
         whole # <<>>, whole[1] = "/", Len(whole) > 1 => whole[2] # "/",
         p # <<>>, p[1] = "/", IsBelow(whole, b, p)
  PROVE  SubCovers(b, whole) /\ After(whole, Len(b)) = p
<1> DEFINE rest == SubSeq(whole, Len(b) + 1, Len(whole))
<1>1. Len(whole) \in Nat \ {0} /\ Len(p) \in Nat \ {0} /\ Len(b) \in Nat
  BY EmptySeq
<1>2. After(whole, Len(b)) = IF rest = <<>> \/ rest[1] # "/" THEN Slash \o rest ELSE rest
  BY Zenon DEF After
<1>3. CASE b = Slash /\ p = whole
  <2>1. Len(b) = 1 /\ b[1] = "/"
    BY <1>3 DEF Slash
  <2>2. rest \in Seq(S) /\ Len(rest) = Len(whole) - 1
        /\ \A i \in 1..Len(whole) - 1 : rest[i] = whole[i + 1]
    BY <1>1, <2>1
  <2>3. rest = <<>> \/ rest[1] # "/"
    <3>1. CASE Len(whole) = 1
      <4>1. Len(rest) = 0
        BY <2>2, <3>1
      <4> QED BY <2>2, <4>1, EmptySeq
    <3>2. CASE Len(whole) # 1
      BY <1>1, <2>2, <3>2
    <3> QED BY <3>1, <3>2
  <2> HIDE DEF rest
  <2>4. Slash \o rest = whole
    <3> DEFINE s == Slash \o rest
    <3>1. s \in Seq(S) /\ Len(s) = Len(whole)
      BY <1>1, <2>2 DEF Slash
    <3>2. ASSUME NEW i \in 1..Len(whole) PROVE s[i] = whole[i]
      <4>1. CASE i = 1
        BY <2>2, <4>1 DEF Slash
      <4>2. CASE i # 1
        <5>1. i - 1 \in 1..Len(whole) - 1 /\ (i - 1) + 1 = i
          BY <1>1, <4>2
        <5>2. s[i] = rest[i - 1]
          BY <2>2, <5>1 DEF Slash
        <5> QED BY <2>2, <5>1, <5>2
      <4> QED BY <4>1, <4>2
    <3> HIDE DEF s
    <3>3. s = whole
      BY <3>1, <3>2, SeqEqual
    <3> QED BY <3>3 DEF s
  <2>5. IsPrefix(b, whole)
    <3>1. Len(b) <= Len(whole) /\ \A i \in 1..Len(b) : b[i] = whole[i]
      BY <1>1, <2>1
    <3> QED BY <3>1, PrefixOfEqual
  <2> QED BY <1>2, <1>3, <2>3, <2>4, <2>5, Zenon DEF SubCovers
<1>4. CASE whole = b /\ p = Slash
  <2>1. rest = <<>>
    BY <1>1, <1>4
  <2>2. Slash \o <<>> = Slash
    BY DEF Slash
  <2>3. IsPrefix(b, whole)
    BY <1>1, <1>4, PrefixOfEqual
  <2> QED BY <1>2, <1>4, <2>1, <2>2, <2>3, Zenon DEF SubCovers
<1>5. CASE whole = b \o p
  <2>1. /\ Len(whole) = Len(b) + Len(p)
        /\ \A i \in 1..Len(b) : whole[i] = b[i]
        /\ \A i \in 1..Len(p) : whole[Len(b) + i] = p[i]
    BY <1>5
  <2>2. rest \in Seq(S) /\ Len(rest) = Len(p) /\ \A i \in 1..Len(p) : rest[i] = p[i]
    BY <1>1, <2>1
  <2> HIDE DEF rest
  <2>3. rest = p
    BY <2>2, SeqEqual
  <2>4. IsPrefix(b, whole)
    <3>1. Len(b) <= Len(whole)
      BY <1>1, <2>1
    <3> QED BY <2>1, <3>1, PrefixOfEqual
  <2> QED BY <1>2, <2>3, <2>4, Zenon DEF SubCovers
<1> QED BY <1>3, <1>4, <1>5, Zenon DEF IsBelow

LEMMA NormalizedStarts ==
  ASSUME NEW p \in MountPaths
  PROVE  Normalized(p) # <<>> /\ Normalized(p)[1] = "/"
<1> DEFINE q == IF p[1] = "/" THEN p ELSE Slash \o p
<1>1. Slash # <<>> /\ Slash[1] = "/"
  BY DEF Slash
<1>2. CASE p = <<>> \/ p = Slash
  BY <1>1, <1>2, Zenon DEF Normalized
<1>3. CASE p # <<>> /\ p # Slash
  <2>1. p \in Text /\ Slash \in Text
    BY PathsAreText, <1>1 DEF Text, Slash
  <2>2. q \in Text /\ Len(q) \in Nat \ {0} /\ q[1] = "/"
    <3>1. CASE p[1] = "/"
      BY <1>3, <2>1, <3>1, EmptySeq DEF Text
    <3>2. CASE p[1] # "/"
      <4>1. Slash \o p \in Text /\ Len(Slash \o p) = 1 + Len(p) /\ (Slash \o p)[1] = "/"
        BY <2>1 DEF Text, Slash
      <4>2. Len(p) \in Nat
        BY <2>1 DEF Text
      <4> QED BY <3>2, <4>1, <4>2
    <3> QED BY <3>1, <3>2
  <2> HIDE DEF q
  <2>3. q # <<>>
    BY <2>2, EmptySeq DEF Text
  <2>4. CASE Len(q) > 1 /\ Last(q) = "/"
    <3>1. Front(q) \in Text /\ Len(Front(q)) = Len(q) - 1 /\ Front(q)[1] = q[1]
      BY <2>2, <2>4 DEF Text, Front
    <3>2. Front(q) # <<>>
      <4>1. Len(Front(q)) # 0
        BY <2>2, <2>4, <3>1
      <4> QED BY <3>1, <4>1, EmptySeq DEF Text
    <3>3. Normalized(p) = Front(q)
      BY <1>3, <2>4, Zenon DEF Normalized, q
    <3> QED BY <2>2, <3>1, <3>2, <3>3, Zenon
  <2>5. CASE ~(Len(q) > 1 /\ Last(q) = "/")
    <3>1. Normalized(p) = q
      BY <1>3, <2>5, Zenon DEF Normalized, q
    <3> QED BY <2>2, <2>3, <3>1, Zenon
  <2> QED BY <2>4, <2>5
<1> QED BY <1>2, <1>3

LEMMA PathFacts ==
  ASSUME DispatchInv
  PROVE  /\ \A p \in routes[Router] \cup routes[SubRouter] : p \in Text /\ p # <<>> /\ p[1] = "/"
         /\ ~Idle => /\ received \in Text /\ received # <<>> /\ received[1] = "/"
                     /\ path \in Text /\ path # <<>> /\ path[1] = "/"
         /\ \A j \in 1..Len(queue[Server]) : queue[Server][j].kind = "mount" =>
              /\ queue[Server][j].prefix \in Text /\ queue[Server][j].prefix # <<>>
              /\ Len(queue[Server][j].mws) \in Nat
              /\ DOMAIN queue[Server][j].mws = 1..Len(queue[Server][j].mws)
         /\ \A j \in 1..Len(queue[Server]) : queue[Server][j].kind = "mount" =>
              \A k \in 1..Len(queue[Server][j].mws) : queue[Server][j].mws[k].kind = "sub" =>
                /\ queue[Server][j].mws[k].prefix \in Text
                /\ queue[Server][j].mws[k].prefix # <<>>
                /\ queue[Server][j].mws[k].prefix[1] = "/"
<1>1. \A p \in routes[Router] \cup routes[SubRouter] : p \in Text /\ p # <<>> /\ p[1] = "/"
  <2>1. routes[Router] \cup routes[SubRouter] \subseteq Paths
    BY DEF DispatchInv, TypeOK, Owners
  <2> QED BY <2>1, PathsAreText, DispatchAssumption
<1>2. ~Idle => /\ received \in Text /\ received # <<>> /\ received[1] = "/"
               /\ path \in Text /\ path # <<>> /\ path[1] = "/"
  BY PathsAreText, DispatchAssumption DEF DispatchInv, TypeOK, StackInv
<1>4. \A e \in Subs : e.prefix \in Text /\ e.prefix # <<>> /\ e.prefix[1] = "/"
  <2>1. \A e \in Subs : e.prefix \in MountPoints
    BY DEF Subs
  <2> QED BY <2>1, NormalizedIsText, NormalizedStarts, Zenon DEF MountPoints
<1>3. ASSUME NEW j \in 1..Len(queue[Server]), queue[Server][j].kind = "mount"
      PROVE  /\ queue[Server][j].prefix \in Text /\ queue[Server][j].prefix # <<>>
             /\ Len(queue[Server][j].mws) \in Nat
             /\ DOMAIN queue[Server][j].mws = 1..Len(queue[Server][j].mws)
             /\ queue[Server][j].mws \in Seq(Own \cup Subs)
  <2>1. queue[Server][j] \in Own \cup Mounts
    <3>1. queue[Server] \in Seq(Own \cup Mounts)
      BY DEF DispatchInv, TypeOK
    <3> QED BY <3>1, ElementOfSeq
  <2>2. queue[Server][j].prefix \in MountPoints /\ queue[Server][j].mws \in Seq(Own \cup Subs)
    BY <1>3, <2>1 DEF Own, Mounts
  <2>3. queue[Server][j].prefix \in Text /\ queue[Server][j].prefix # <<>>
    BY <2>2, NormalizedIsText, NormalizedStarts, Zenon DEF MountPoints
  <2> QED BY <2>2, <2>3, LenProperties
<1>5. ASSUME NEW j \in 1..Len(queue[Server]), queue[Server][j].kind = "mount",
             NEW k \in 1..Len(queue[Server][j].mws), queue[Server][j].mws[k].kind = "sub"
      PROVE  /\ queue[Server][j].mws[k].prefix \in Text
             /\ queue[Server][j].mws[k].prefix # <<>>
             /\ queue[Server][j].mws[k].prefix[1] = "/"
  <2>1. PICK e : e = queue[Server][j].mws[k]
    OBVIOUS
  <2>2. e \in Own \cup Subs
    BY <1>3, <1>5, <2>1, ElementOfSeq
  <2>3. e \in Subs
    BY <1>5, <2>1, <2>2 DEF Own
  <2> QED BY <1>4, <2>1, <2>3, Zenon
<1> QED BY <1>1, <1>2, <1>3, <1>5, Zenon

(* A mount that does not cover the path has no route for it.               *)
LEMMA PassedBy ==
  ASSUME DispatchInv, ~Idle, NEW j \in 1..Len(queue[Server]), queue[Server][j].kind = "mount",
         ~Covers(queue[Server][j].prefix, received)
  PROVE  NoRouteBelow(queue[Server][j])
<1>1. PICK m : m = queue[Server][j]
  OBVIOUS
<1>2. /\ received \in Text /\ received # <<>> /\ received[1] = "/"
      /\ m.prefix \in Text /\ m.prefix # <<>> /\ DOMAIN m.mws = 1..Len(m.mws)
  BY <1>1, PathFacts, Zenon
<1>3. ASSUME NEW p \in Text, p # <<>>, p[1] = "/" PROVE ~IsBelow(received, m.prefix, p)
  BY <1>1, <1>2, <1>3, BelowIsCovered DEF Text
<1>4. ASSUME NEW p \in routes[Router] PROVE ~IsBelow(received, m.prefix, p)
  BY <1>3, PathFacts, Zenon
<1>5. ASSUME NEW s \in Range(m.mws), NEW p \in routes[SubRouter], s.kind = "sub"
      PROVE  ~IsBelow(received, Joined(m.prefix, s.prefix), p)
  <2>1. s.prefix \in Text /\ s.prefix # <<>> /\ s.prefix[1] = "/"
    <3>1. PICK k \in 1..Len(m.mws) : s = m.mws[k]
      BY <1>2, Zenon DEF Range
    <3> QED BY <1>1, <1>5, <3>1, PathFacts, Zenon
  <2>2. p \in Text /\ p # <<>> /\ p[1] = "/"
    BY PathFacts, Zenon
  <2>3. ASSUME IsBelow(received, Joined(m.prefix, s.prefix), p) PROVE FALSE
    <3>1. PICK q \in Text : q # <<>> /\ q[1] = "/" /\ IsBelow(received, m.prefix, q)
      BY <1>2, <2>1, <2>2, <2>3, JoinedIsNested DEF Text
    <3> QED BY <1>3, <3>1, Zenon
  <2> QED BY <2>3
<1> QED BY <1>1, <1>4, <1>5, Zenon DEF NoRouteBelow

(* A path in a mounted router does not begin with two slashes.             *)
LEMMA PathBegins ==
  ASSUME DispatchInv, Running, Top.chain = Router, Mount.kind = "mount"
  PROVE  Len(path) > 1 => path[2] # "/"
<1>1. Server # Router /\ ~Idle /\ Top.next = "not called"
  BY DispatchAssumption DEF Running
<1>2. received \in Paths /\ received \in Text /\ path \in Text /\ path # <<>> /\ path[1] = "/"
  BY <1>1, PathFacts DEF DispatchInv, StackInv
<1>3. Mount.prefix \in Text
  BY <1>1, ChainFacts, PathFacts, Zenon DEF Mount
<1>4. \A i \in 1..Len(received) - 1 : received[i] # "/" \/ received[i + 1] # "/"
  BY <1>2, SegmentAssumption
<1>5. IsBelow(received, Mount.prefix, path)
  BY <1>1, Zenon DEF DispatchInv, CalledWithOwnPath
<1> SUFFICES ASSUME Len(path) > 1 PROVE path[2] # "/"
  OBVIOUS
<1>6. CASE path = received
  <2>1. Len(received) \in Nat /\ 1 \in 1..Len(received) - 1
    BY <1>2, <1>6 DEF Text
  <2> QED BY <1>2, <1>4, <1>6, <2>1
<1>7. CASE path = Slash
  BY <1>7 DEF Slash
<1>8. CASE received = Mount.prefix \o path
  <2>1. PICK n : n = Len(Mount.prefix)
    OBVIOUS
  <2>2. /\ n \in Nat /\ Len(received) = n + Len(path) /\ Len(path) \in Nat
        /\ \A i \in 1..Len(path) : received[n + i] = path[i]
    BY <1>2, <1>3, <1>8, <2>1 DEF Text
  <2>3. n + 1 \in 1..Len(received) - 1 /\ received[n + 1] = "/" /\ received[n + 2] = path[2]
        /\ (n + 1) + 1 = n + 2
    BY <1>2, <2>2
  <2> QED BY <1>4, <2>3
<1> QED BY <1>5, <1>6, <1>7, <1>8, Zenon DEF IsBelow

(* Nor has a router that was left behind.                                  *)
LEMMA LeftBehind ==
  ASSUME DispatchInv, MissedInv, Running, Top.chain = Router, Mount.kind = "mount",
         Top.index > Len(Chain) + 1
  PROVE  NoRouteBelow(Mount)
<1>1. Server # Router /\ ~Idle /\ Top.next = "not called"
  BY DispatchAssumption DEF Running
<1>2. PICK m : m = Mount
  OBVIOUS
<1>3. Top.mount \in 1..Len(queue[Server]) /\ m = queue[Server][Top.mount]
  BY <1>1, <1>2, ChainFacts DEF Mount
<1>4. /\ received \in Text /\ received # <<>> /\ received[1] = "/"
      /\ path \in Text /\ path # <<>> /\ path[1] = "/"
      /\ m.prefix \in Text /\ m.prefix # <<>>
      /\ DOMAIN m.mws = 1..Len(m.mws) /\ Len(m.mws) \in Nat
  BY <1>1, <1>2, <1>3, PathFacts, Zenon
<1>5. Chain = m.mws
  BY <1>1, <1>3, Zenon DEF Chain, ChainOf
<1>6. IsBelow(received, m.prefix, path)
  BY <1>1, <1>2, Zenon DEF DispatchInv, CalledWithOwnPath
<1>7. ASSUME NEW q \in Text, q # <<>>, IsBelow(received, m.prefix, q) PROVE q = path
  BY <1>4, <1>6, <1>7, BelowIsOne DEF Text
<1>8. ASSUME NEW p \in routes[Router] PROVE ~IsBelow(received, m.prefix, p)
  <2>1. path \notin routes[Router]
    BY Zenon DEF MissedInv
  <2>2. p \in Text /\ p # <<>>
    BY PathFacts, Zenon
  <2> QED BY <1>7, <2>1, <2>2, Zenon
<1>9. ASSUME NEW s \in Range(m.mws), NEW p \in routes[SubRouter], s.kind = "sub"
      PROVE  ~IsBelow(received, Joined(m.prefix, s.prefix), p)
  <2>1. PICK k \in 1..Len(m.mws) : s = m.mws[k]
    BY <1>4, Zenon DEF Range
  <2>2. s.prefix \in Text /\ s.prefix # <<>> /\ s.prefix[1] = "/"
    BY <1>2, <1>3, <1>9, <2>1, PathFacts, Zenon
  <2>3. p \in Text /\ p # <<>> /\ p[1] = "/"
    BY PathFacts, Zenon
  <2>4. k < Top.index
    <3>1. Top.index \in Nat
      BY <1>1, ChainFacts
    <3> QED BY <1>4, <1>5, <3>1
  <2>5. ~IsBelow(path, s.prefix, p)
    BY <1>5, <1>9, <2>1, <2>4, Zenon DEF MissedInv
  <2>6. ASSUME IsBelow(received, Joined(m.prefix, s.prefix), p) PROVE FALSE
    <3>1. PICK q \in Text : /\ q # <<>> /\ IsBelow(received, m.prefix, q)
                            /\ IsBelow(q, s.prefix, p)
      BY <1>4, <2>2, <2>3, <2>6, JoinedIsNested DEF Text
    <3> QED BY <1>7, <2>5, <3>1, Zenon
  <2> QED BY <2>6
<1> QED BY <1>2, <1>8, <1>9, Zenon DEF NoRouteBelow

(* What MissedInv' says of the frame that is on top after a step.          *)
Missed(f) ==
  /\ \A j \in 1..Len(queue[Server]) :
       j < Place(f) /\ queue[Server][j].kind = "mount" => NoRouteBelow(queue[Server][j])
  /\ f.chain = Router =>
       \A k \in 1..Len(queue[Server][f.mount].mws) :
         k < f.index /\ queue[Server][f.mount].mws[k].kind = "sub" =>
           \A p \in routes[SubRouter] : ~IsBelow(path', queue[Server][f.mount].mws[k].prefix, p)
  /\ f.chain = Router /\ f.index > Len(queue[Server][f.mount].mws) + 1 => path' \notin routes[Router]

LEMMA MissedNow ==
  ASSUME UNCHANGED <<config, received>>, NEW f, Top' = f, Missed(f)
  PROVE  MissedInv'
<1>1. Server # Router /\ queue' = queue /\ routes' = routes
  BY DispatchAssumption DEF config
<1>2. Reached' = Place(f) /\ (f.chain = Router => Chain' = queue[Server][f.mount].mws)
  BY <1>1, Zenon DEF Place, Reached, Chain, ChainOf
<1>3. \A j \in 1..Len(queue'[Server]) : j < Reached' /\ queue'[Server][j].kind = "mount" =>
        /\ \A p \in routes'[Router] : ~IsBelow(received', queue'[Server][j].prefix, p)
        /\ \A s \in Range(queue'[Server][j].mws), p \in routes'[SubRouter] :
             s.kind = "sub" => ~IsBelow(received', Joined(queue'[Server][j].prefix, s.prefix), p)
  BY <1>1, <1>2, Zenon DEF Missed, NoRouteBelow
<1>5. Top'.chain = Router =>
        \A k \in 1..Len(Chain') : k < Top'.index /\ Chain'[k].kind = "sub" =>
          \A p \in routes'[SubRouter] : ~IsBelow(path', Chain'[k].prefix, p)
  BY <1>1, <1>2, Zenon DEF Missed
<1>4. Top'.chain = Router /\ Top'.index > Len(Chain') + 1 => path' \notin routes'[Router]
  BY <1>1, <1>2, Zenon DEF Missed
<1> QED BY <1>3, <1>4, <1>5, Zenon DEF MissedInv, NoRouteBelow, Joined, IsBelow, Slash

LEMMA MissedNext ==
  ASSUME DispatchInv, MissedInv, Running, UNCHANGED <<config, received, path>>, Top' = NextFrame,
         /\ Top.chain = Server /\ Current.kind = "mount"
         => NoRouteBelow(Current),
         Top.chain = Router => Top.index <= Len(Chain) \/ path \notin routes[Router],
         /\ Top.chain = Router /\ Top.index <= Len(Chain) /\ Current.kind = "sub"
         => \A p \in routes[SubRouter] : ~IsBelow(path, Current.prefix, p)
  PROVE  MissedInv'
<1>1. ~Idle /\ Server # Router
  BY DispatchAssumption DEF Running
<1>2. /\ NextFrame.chain = Top.chain /\ NextFrame.mount = Top.mount
      /\ NextFrame.index = Top.index + 1
  BY <1>1, NextFrameFacts DEF DispatchInv
<1>3. Top.chain \in {Server, Router} /\ Top.index \in Nat /\ Len(Chain) \in Nat
  BY <1>1, ChainFacts
<1>4. CASE Top.chain = Server
  <2>1. /\ Place(NextFrame) = Top.index + 1 /\ Reached = Top.index /\ Chain = queue[Server]
        /\ NextFrame.chain # Router
    BY <1>1, <1>2, <1>4, Zenon DEF Place, Reached, Chain, ChainOf
  <2>2. ASSUME NEW j \in 1..Len(queue[Server]), j < Top.index + 1, queue[Server][j].kind = "mount"
        PROVE  NoRouteBelow(queue[Server][j])
    <3>1. j < Top.index \/ j = Top.index
      BY <1>3, <2>2
    <3>2. CASE j < Top.index
      BY <2>1, <2>2, <3>2, Zenon DEF MissedInv
    <3>3. CASE j = Top.index
      BY <1>4, <2>1, <2>2, <3>3, Zenon DEF Current
    <3> QED BY <3>1, <3>2, <3>3
  <2>3. Missed(NextFrame)
    BY <2>1, <2>2, Zenon DEF Missed
  <2> QED BY <2>3, MissedNow
<1>5. CASE Top.chain = Router
  <2>1. /\ Place(NextFrame) = Top.mount /\ Reached = Top.mount
        /\ Chain = queue[Server][Top.mount].mws
    BY <1>1, <1>2, <1>5, Zenon DEF Place, Reached, Chain, ChainOf
  <2>2. NextFrame.index > Len(Chain) + 1 => ~(Top.index <= Len(Chain))
    BY <1>2, <1>3
  <2>4. ASSUME NEW k \in 1..Len(Chain), k < Top.index + 1, Chain[k].kind = "sub",
               NEW p \in routes[SubRouter]
        PROVE  ~IsBelow(path, Chain[k].prefix, p)
    <3>1. k < Top.index \/ (k = Top.index /\ Top.index <= Len(Chain))
      BY <1>3, <2>4
    <3>2. CASE k < Top.index
      BY <1>5, <2>4, <3>2, Zenon DEF MissedInv
    <3>3. CASE k = Top.index /\ Top.index <= Len(Chain)
      BY <1>5, <2>4, <3>3, Zenon DEF Current
    <3> QED BY <3>1, <3>2, <3>3
  <2>3. Missed(NextFrame)
    BY <1>2, <1>5, <2>1, <2>2, <2>4, Zenon DEF Missed, MissedInv
  <2> QED BY <2>3, MissedNow
<1> QED BY <1>3, <1>4, <1>5

(* A sub-router that goes on had no route for what is below its own mount  *)
(* point.                                                                  *)
LEMMA NotTried ==
  ASSUME DispatchInv, PassedInv, Running, Top.chain = Router, TrySubRouter, Goto(NextFrame),
         Running', NEW p \in routes[SubRouter]
  PROVE  ~IsBelow(path, Current.prefix, p)
<1>1. Server # Router /\ ~Idle /\ Mount.kind = "mount"
  BY DispatchAssumption DEF Running, PassedInv
<1>2. Top.index \in 1..Len(Chain) /\ Current.kind = "sub"
  <2>1. Top.index <= Len(Chain) /\ Current.kind = "sub"
    BY DEF TrySubRouter, HasEntry
  <2> QED BY <1>1, <2>1, ChainFacts
<1>3. Current.prefix \in Text /\ Current.prefix # <<>>
  <2>1. Chain = queue[Server][Top.mount].mws
    BY <1>1, Zenon DEF Chain, ChainOf
  <2>2. Top.mount \in 1..Len(queue[Server])
    BY <1>1, ChainFacts
  <2> QED BY <1>1, <1>2, <2>1, <2>2, PathFacts, Zenon DEF Current, Mount
<1>4. /\ path \in Text /\ path # <<>> /\ path[1] = "/" /\ (Len(path) > 1 => path[2] # "/")
      /\ p \in Text /\ p # <<>> /\ p[1] = "/"
  BY <1>1, PathFacts, PathBegins
<1>5. ~(SubCovers(Current.prefix, path) /\ After(path, Len(Current.prefix)) \in routes[SubRouter])
  <2>1. ~Answered
    <3>1. Answered => ~Running'
      BY <1>1, AnsweredWaits, Zenon DEF Running, Waiting
    <3> QED BY <3>1
  <2> QED BY <2>1, Zenon DEF TrySubRouter
<1>6. ASSUME IsBelow(path, Current.prefix, p) PROVE FALSE
  <2>1. PICK S : S = {"/"} \cup UNION {Range(q) : q \in Paths \cup Scopes \cup MountPaths}
    OBVIOUS
  <2>3. PICK b : b = Current.prefix
    OBVIOUS
  <2>4. /\ "/" \in S /\ b \in Seq(S) /\ path \in Seq(S) /\ p \in Seq(S)
        /\ IsBelow(path, b, p)
    <3>1. "/" \in S
      BY <2>1
    <3>2. Text = Seq(S)
      BY <2>1, Zenon DEF Text
    <3> QED BY <1>3, <1>4, <1>6, <2>3, <3>1, <3>2, Zenon
  <2>2. SubCovers(Current.prefix, path) /\ After(path, Len(Current.prefix)) = p
    <3>1. SubCovers(b, path) /\ After(path, Len(b)) = p
      BY <1>4, <2>4, BelowIsTried
    <3> QED BY <2>3, <3>1, Zenon
  <2> QED BY <1>5, <2>2, Zenon
<1> QED BY <1>6

LEMMA MissedInvStep ==
  ASSUME DispatchInv, MissedInv, PassedInv, [Next]_vars
  PROVE  MissedInv'
<1>0. Server # Router
  BY DispatchAssumption
<1>1. ASSUME ~Running' PROVE MissedInv'
  BY <1>1, Zenon DEF MissedInv
<1>2. CASE Skip \/ CallNext
  <2>1. /\ ~Idle /\ Top.index <= Len(Chain) /\ Current.kind = "mw" /\ Top.next = "not called"
        /\ UNCHANGED <<config, received, path>>
    BY <1>2 DEF Skip, CallNext, HasEntry
  <2>2. Top' = NextFrame
    <3>1. CASE Skip
      BY <2>1, <3>1, NextRuns DEF Skip
    <3>2. CASE CallNext
      BY <3>2, CallRuns
    <3> QED BY <1>2, <3>1, <3>2
  <2> QED BY <2>1, <2>2, MissedNext DEF Running
<1>3. CASE Stop \/ NextReturned \/ Throw \/ RunRoute
  <2>1. (Idle \/ Waiting)'
    <3>1. ~Idle /\ (Return \/ stack' = <<>>)
      BY <1>3 DEF Stop, NextReturned, Throw, RunRoute, HasEntry, Answered
    <3> QED BY <3>1, NowWaits
  <2>2. ~Running'
    BY <2>1, Zenon DEF Running, Waiting
  <2> QED BY <1>1, <2>2
<1>4. CASE PassBy
  <2>1. /\ ~Idle /\ Top.index <= Len(Chain) /\ Current.kind = "mount" /\ Goto(NextFrame)
        /\ ~Covers(Current.prefix, path) /\ UNCHANGED <<config, received, path>>
    BY <1>4 DEF PassBy, HasEntry
  <2>2. Top.chain = Server /\ Top.next = "not called" /\ Top.index \in 1..Len(Chain)
    <3>1. Top.index \in 1..Len(Chain)
      BY <2>1, ChainFacts
    <3>2. Top.next = "not called"
      BY <2>1, NotWaiting
    <3> QED BY <2>1, <3>1, <3>2, ChainFacts DEF Current
  <2>3. Chain = queue[Server] /\ path = received
    BY <2>1, <2>2, Zenon DEF Chain, ChainOf, DispatchInv, CalledWithOwnPath
  <2>4. NoRouteBelow(Current)
    BY <2>1, <2>2, <2>3, PassedBy, Zenon DEF Current
  <2>5. Top' = NextFrame
    BY <2>1, NextRuns
  <2> QED BY <1>0, <2>1, <2>2, <2>4, <2>5, MissedNext DEF Running
<1>5. CASE EnterRouter
  <2> DEFINE f == Frame(Router, 1, Top.index, path)
  <2>1. /\ ~Idle /\ Top.index <= Len(Chain) /\ Current.kind = "mount" /\ Goto(f)
        /\ UNCHANGED <<config, received>>
    BY <1>5 DEF EnterRouter, HasEntry
  <2>2. Top.index \in 1..Len(Chain) /\ Top.index \in Nat
    BY <2>1, ChainFacts
  <2>3. f \in Frames /\ f.chain = Router /\ f.index = 1 /\ f.mount = Top.index
    <3>1. <<>> \in Text /\ path \in Text
      BY DEF Text, DispatchInv, StackInv
    <3> QED BY <2>2, <3>1 DEF Frame, Frames
  <2> HIDE DEF f
  <2>4. Top' = f
    BY <2>1, <2>3, NowRuns
  <2>5. Top.chain = Server /\ Running
    BY <2>1, <2>2, ChainFacts, NotWaiting DEF Current, Running
  <2>6. Top.index \in 1..Len(queue[Server]) /\ queue[Server][Top.index].kind = "mount"
        /\ Place(f) = Reached
    BY <1>0, <2>1, <2>2, <2>3, <2>5, Zenon DEF Chain, ChainOf, Current, Place, Reached
  <2>7. ~(f.index > Len(queue[Server][f.mount].mws) + 1)
    <3>1. Len(queue[Server][f.mount].mws) \in Nat
      BY <2>3, <2>6, PathFacts
    <3> QED BY <2>3, <3>1
  <2>9. \A k \in Nat : ~(1 <= k /\ k < 1)
    OBVIOUS
  <2>10. \A n \in Nat : \A k \in 1..n : k \in Nat /\ 1 <= k
    OBVIOUS
  <2>11. Len(queue[Server][f.mount].mws) \in Nat
    BY <2>3, <2>6, PathFacts
  <2>8. Missed(f)
    BY <2>3, <2>5, <2>6, <2>7, <2>9, <2>10, <2>11, Zenon DEF Missed, MissedInv
  <2> QED BY <2>1, <2>4, <2>8, MissedNow
<1>6. CASE TrySubRouter
  <2>1. /\ ~Idle /\ Top.index <= Len(Chain) /\ Current.kind = "sub"
        /\ UNCHANGED <<config, received, path>>
        /\ Answered \/ Goto(NextFrame)
    BY <1>6 DEF TrySubRouter, HasEntry
  <2>2. CASE Answered
    <3>1. ~Running'
      BY <2>1, <2>2, AnsweredWaits, Zenon DEF Running, Waiting
    <3> QED BY <1>1, <3>1
  <2>3. CASE Goto(NextFrame)
    <3>1. Top' = NextFrame /\ Running
      BY <2>1, <2>3, NextRuns, NotWaiting DEF Running
    <3>2. Current.kind # "mount"
      BY <2>1
    <3>3. ASSUME Top.chain = Router, NEW p \in routes[SubRouter]
          PROVE  ~IsBelow(path, Current.prefix, p)
      <4>1. Running'
        BY <2>1, <2>3, NextRuns
      <4> QED BY <1>6, <2>3, <3>1, <3>3, <4>1, NotTried, Zenon
    <3> QED BY <2>1, <3>1, <3>2, <3>3, MissedNext
  <2> QED BY <2>1, <2>2, <2>3
<1>7. CASE TryRouter
  <2>1. /\ ~Idle /\ Top.chain = Router /\ Top.index = Len(Chain) + 1
        /\ UNCHANGED <<config, received, path>>
        /\ Answered \/ (Goto(NextFrame) /\ path \notin routes[Router])
    BY <1>7 DEF TryRouter, InRouter
  <2>2. CASE Answered
    <3>1. ~Running'
      BY <2>1, <2>2, AnsweredWaits, Zenon DEF Running, Waiting
    <3> QED BY <1>1, <3>1
  <2>3. CASE Goto(NextFrame) /\ path \notin routes[Router]
    <3>1. Top.index > Len(Chain)
      BY <2>1, ChainFacts
    <3>2. Top' = NextFrame /\ Running
      BY <2>1, <2>3, <3>1, NextRuns, NotWaiting DEF Running
    <3> QED BY <1>0, <2>1, <2>3, <3>2, MissedNext
  <2> QED BY <2>1, <2>2, <2>3
<1>8. CASE LeaveRouter
  <2> DEFINE f == ServerFrame(Top.mount + 1)
  <2>1. /\ ~Idle /\ Top.chain = Router /\ Top.index > Len(Chain) + 1 /\ Goto(f)
        /\ UNCHANGED <<config, received>>
    BY <1>8 DEF LeaveRouter, InRouter
  <2>2. Top.mount \in 1..Len(queue[Server]) /\ Top.index > Len(Chain)
    BY <2>1, ChainFacts
  <2>3. f \in Frames /\ f.chain = Server /\ f.index = Top.mount + 1
    <3>1. <<>> \in Text /\ Top.mount + 1 \in Nat
      BY <2>2, EntryFacts DEF Text
    <3> QED BY <3>1 DEF ServerFrame, Frame, Frames
  <2> HIDE DEF f
  <2>4. Top' = f
    BY <2>1, <2>3, NowRuns
  <2>5. Running /\ Top.next = "not called"
    BY <2>1, <2>2, NotWaiting DEF Running
  <2>6. /\ Place(f) = Top.mount + 1 /\ Reached = Top.mount /\ Mount = queue[Server][Top.mount]
        /\ Mount.kind = "mount"
    BY <1>0, <2>1, <2>3, <2>5, Zenon DEF Place, Reached, Mount, PassedInv
  <2>7. NoRouteBelow(Mount)
    BY <2>1, <2>5, <2>6, LeftBehind
  <2>8. ASSUME NEW j \in 1..Len(queue[Server]), j < Top.mount + 1, queue[Server][j].kind = "mount"
        PROVE  NoRouteBelow(queue[Server][j])
    <3>1. j < Top.mount \/ j = Top.mount
      BY <2>2, <2>8, EntryFacts
    <3>2. CASE j < Top.mount
      BY <2>5, <2>6, <2>8, <3>2, Zenon DEF MissedInv
    <3>3. CASE j = Top.mount
      BY <2>6, <2>7, <3>3, Zenon
    <3> QED BY <3>1, <3>2, <3>3
  <2>9. Missed(f)
    BY <1>0, <2>3, <2>6, <2>8, Zenon DEF Missed
  <2> QED BY <2>1, <2>4, <2>9, MissedNow
<1>9. ASSUME NEW p \in Paths, Receive(p) PROVE MissedInv'
  <2> DEFINE f == ServerFrame(1)
  <2>1. stack' = <<f>>
    BY <1>9 DEF Receive
  <2>2. f.chain = Server /\ f.index = 1
    BY DEF ServerFrame, Frame
  <2> HIDE DEF f
  <2>3. Top' = f
    <3>1. Len(<<f>>) = 1 /\ <<f>>[1] = f
      OBVIOUS
    <3> QED BY <2>1, <3>1, Zenon DEF Top
  <2>4. Reached' = 1 /\ Top'.chain # Router
    BY <1>0, <2>2, <2>3, Zenon DEF Reached
  <2>5. \A n : \A j \in 1..n : ~(j < 1)
    OBVIOUS
  <2> QED BY <2>4, <2>5, Zenon DEF MissedInv
<1>10. CASE Configure
  BY <1>1, <1>10, StepsBetween, Zenon DEF Running
<1>11. CASE UNCHANGED vars
  <2>1. UNCHANGED <<config, received>> /\ path' = path /\ Top' = Top /\ (Running' => Running)
    BY <1>11, Zenon DEF vars, Running, Idle, Top
  <2>2. CASE Running
    <3>1. Place(Top) = Reached /\ (Top.chain = Router => Chain = queue[Server][Top.mount].mws)
      BY <1>0, Zenon DEF Place, Reached, Chain, ChainOf
    <3>2. Missed(Top)
      BY <2>1, <2>2, <3>1, Zenon DEF Missed, MissedInv
    <3> QED BY <2>1, <3>2, MissedNow
  <2> QED BY <1>1, <2>1, <2>2
<1> QED BY <1>2, <1>3, <1>4, <1>5, <1>6, <1>7, <1>8, <1>9, <1>10, <1>11 DEF Next, Serve

NoRoute ==
  /\ received \notin routes[Server]
  /\ \A m \in Range(queue[Server]) : m.kind = "mount" => NoRouteBelow(m)

LEMMA NotFoundLogged ==
  ASSUME DispatchInv, MissedInv, Serve
  PROVE  ran' = ran \/ \E e : Log(e) /\ (e.who = "404" => NoRoute)
<1>0. "404" \notin Owners /\ {Server, Router, SubRouter} \subseteq Owners /\ Server # Router
  BY DispatchAssumption DEF Owners
<1>1. ASSUME NEW e, Log(e), e.who \in Owners \cup {"mw", "stop", "threw"}
      PROVE  \E d : Log(d) /\ (d.who = "404" => NoRoute)
  <2>1. e.who # "404"
    BY <1>0, <1>1
  <2> QED BY <1>1, <2>1, Zenon
<1>2. ASSUME NEW who \in Owners \cup {"mw", "stop", "threw"}, NEW id, Log(Event(who, id))
      PROVE  \E d : Log(d) /\ (d.who = "404" => NoRoute)
  <2>1. Event(who, id).who \in Owners \cup {"mw", "stop", "threw"}
    BY EventFacts
  <2> QED BY <1>1, <1>2, <2>1
<1>3. CASE Skip \/ NextReturned \/ PassBy \/ EnterRouter \/ LeaveRouter
  BY <1>3 DEF Skip, NextReturned, PassBy, EnterRouter, LeaveRouter
<1>4. CASE CallNext
  BY <1>2, <1>4 DEF CallNext
<1>5. CASE Stop
  BY <1>2, <1>5 DEF Stop
<1>6. CASE Throw
  BY <1>2, <1>6 DEF Throw
<1>7. CASE TrySubRouter
  <2> DEFINE e == [Event(SubRouter, Current.id) EXCEPT !.path = After(path, Len(Current.prefix))]
  <2>1. ran' = ran \/ Log(e)
    BY <1>7 DEF TrySubRouter
  <2>2. e.who = SubRouter
    BY DEF Event
  <2> HIDE DEF e
  <2> QED BY <1>0, <1>1, <2>1, <2>2
<1>8. CASE TryRouter
  <2>1. ran' = ran \/ Log(Event(Router, Mount.id))
    BY <1>8 DEF TryRouter
  <2> QED BY <1>0, <1>2, <2>1
<1>9. CASE RunRoute
  <2>1. /\ ~Idle /\ Top.chain = Server /\ Top.index > Len(Chain)
        /\ Log(Event(IF path \in routes[Server] THEN Server ELSE "404", 0))
    BY <1>9 DEF RunRoute
  <2>2. CASE path \in routes[Server]
    BY <1>0, <1>2, <2>1, <2>2
  <2>3. CASE path \notin routes[Server]
    <3>1. Running /\ Top.next = "not called"
      BY <2>1, NotWaiting DEF Running
    <3>2. path = received /\ Chain = queue[Server] /\ Reached = Top.index
      BY <2>1, <3>1, Zenon DEF DispatchInv, CalledWithOwnPath, Chain, ChainOf, Reached
    <3>3. \A j \in 1..Len(queue[Server]) : j < Reached
      BY <2>1, <3>2, ChainFacts
    <3>4. ASSUME NEW m \in Range(queue[Server]), m.kind = "mount" PROVE NoRouteBelow(m)
      <4>1. PICK j \in 1..Len(queue[Server]) : m = queue[Server][j]
        BY EntryFacts, Zenon DEF Range
      <4> QED BY <3>1, <3>3, <3>4, <4>1, Zenon DEF MissedInv
    <3>5. NoRoute
      BY <2>3, <3>2, <3>4, Zenon DEF NoRoute
    <3> QED BY <2>1, <3>5, Zenon
  <2> QED BY <2>2, <2>3
<1> QED BY <1>3, <1>4, <1>5, <1>6, <1>7, <1>8, <1>9 DEF Serve

LEMMA NotFoundKept ==
  ASSUME ran \in Seq(Range(ran)), NotFoundIsTrue, UNCHANGED <<config, received>>,
         ran' = ran \/ \E e : Log(e) /\ (e.who = "404" => NoRoute)
  PROVE  NotFoundIsTrue'
<1>1. queue' = queue /\ routes' = routes /\ received' = received
  BY DEF config
<1>2. ASSUME NEW i \in DOMAIN ran', ran'[i].who = "404" PROVE NoRoute
  <2>1. CASE ran' = ran
    BY <1>2, <2>1, Zenon DEF NotFoundIsTrue, NoRoute
  <2>2. CASE \E e : Log(e) /\ (e.who = "404" => NoRoute)
    <3>1. PICK e : Log(e) /\ (e.who = "404" => NoRoute)
      BY <2>2
    <3>2. /\ DOMAIN ran' = DOMAIN ran \cup {Len(ran')} /\ ran'[Len(ran')] = e
          /\ \A j \in DOMAIN ran : ran'[j] = ran[j]
      BY <3>1, Logged
    <3> QED BY <1>2, <3>1, <3>2, Zenon DEF NotFoundIsTrue, NoRoute
  <2> QED BY <2>1, <2>2
<1>3. ASSUME NoRoute PROVE NoRoute'
  <2>1. received' \notin routes'[Server]
    BY <1>1, <1>3, Zenon DEF NoRoute
  <2>2. \A m \in Range(queue'[Server]) : m.kind = "mount" =>
          /\ \A p \in routes'[Router] : ~IsBelow(received', m.prefix, p)
          /\ \A s \in Range(m.mws), p \in routes'[SubRouter] :
               s.kind = "sub" => ~IsBelow(received', Joined(m.prefix, s.prefix), p)
    BY <1>1, <1>3, Zenon DEF NoRoute, NoRouteBelow
  <2> QED BY <2>1, <2>2, Zenon DEF NoRoute, NoRouteBelow, Joined, IsBelow, Slash
<1> QED BY <1>2, <1>3, Zenon DEF NotFoundIsTrue, NoRoute

LEMMA NotFoundInvStep ==
  ASSUME DispatchInv, AnswerInv, GuardInv, NotFoundInv, [Next]_vars
  PROVE  NotFoundInv'
<1>1. MissedInv' /\ MissedInv /\ NotFoundIsTrue /\ ran \in Seq(Range(ran))
  BY MissedInvStep DEF GuardInv, NotFoundInv, AnswerInv
<1>2. CASE Serve
  <2>1. UNCHANGED <<config, received>>
    BY <1>2, Zenon DEF Serve, Skip, CallNext, Stop, NextReturned, Throw, PassBy, EnterRouter,
         TrySubRouter, TryRouter, LeaveRouter, RunRoute
  <2> QED BY <1>1, <1>2, <2>1, NotFoundLogged, NotFoundKept DEF NotFoundInv
<1>3. CASE Configure \/ \E p \in Paths : Receive(p)
  <2>1. ran' = <<>>
    BY <1>3, StepsBetween
  <2>2. DOMAIN ran' = {}
    BY <2>1
  <2> QED BY <1>1, <2>2, Zenon DEF NotFoundInv, NotFoundIsTrue
<1>4. CASE UNCHANGED vars
  <2>1. UNCHANGED <<config, received>> /\ ran' = ran
    BY <1>4 DEF vars
  <2> QED BY <1>1, <2>1, NotFoundKept DEF NotFoundInv
<1> QED BY <1>2, <1>3, <1>4 DEF Next

(* A 404 is sent only when the server has no route for the request, the    *)
(* mounted router none for the rest of it below a place it is mounted at,  *)
(* and the router mounted on that one none for what is left below both;    *)
(* for any routes and mounts (HttpServer.cpp:238-258, Router.cpp:24-33,    *)
(* 68-99).                                                                 *)
THEOREM TrueNotFound == Spec => []NotFoundIsTrue
<1>1. Init => AnswerInv /\ GuardInv /\ NotFoundInv
  <2> SUFFICES ASSUME Init PROVE NotFoundInv
    BY InitOrder
  <2>1. ran = <<>> /\ Idle
    BY DEF Init, Idle
  <2>2. DOMAIN ran = {}
    BY <2>1
  <2> QED BY <2>1, <2>2, Zenon DEF NotFoundInv, MissedInv, NotFoundIsTrue, Running
<1>2. NotFoundInv => NotFoundIsTrue
  BY DEF NotFoundInv
<1> QED BY <1>1, <1>2, AnswerInvStep, GuardInvStep, NotFoundInvStep, Invariant, PTL DEF Spec

=============================================================================
