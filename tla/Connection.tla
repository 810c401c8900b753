------------------------------ MODULE Connection ------------------------------
(***************************************************************************)
(* One HTTP connection of PlusWeb::HttpServer, from the callback that      *)
(* accepts it to the callback that frees it (struct HttpServer::Loop in    *)
(* src/HttpServer.cpp), together with the parts of libuv and of the TCP    *)
(* peer it depends on.                                                     *)
(*                                                                         *)
(* Every callback runs on the loop's thread, so a callback is interrupted  *)
(* by no other callback: the actions that start one require ~reading.      *)
(* onRead alone is split into steps (one per message in the chunk), since  *)
(* the peer and the kernel move while llhttp works through a chunk.        *)
(*                                                                         *)
(* A chunk of input is the sequence of messages whose last byte lies in    *)
(* it, each abstracted to its kind, that is, to what execute() makes of    *)
(* it.  Answers are numbered in the order send() is called.  Sizes are in  *)
(* arbitrary units: only how an answer compares with the free space of the *)
(* kernel's send buffer matters.                                           *)
(***************************************************************************)
EXTENDS Integers, Sequences, FiniteSets

CONSTANTS
    Sizes,       \* possible sizes of a route's answer
    SndBuf,      \* capacity of the kernel's send buffer for the socket
    MaxPerRead,  \* most messages one chunk completes (bound of the model)
    MaxRequests  \* most messages in the life of the connection (bound)

ASSUME SizesAssumption == Sizes \subseteq Nat \ {0} /\ Sizes # {}
ASSUME SndBufAssumption == SndBuf \in Nat \ {0}
ASSUME BoundsAssumption == MaxPerRead \in Nat /\ MaxRequests \in Nat

-------------------------------------------------------------------------------
(* What a message in the input is.                                         *)

Routed    == {"keep", "close", "upgrade"}           \* handleRequest answers it
Rejected  == {"malformed", "badjson", "oversized"}  \* the parser refuses it
Kinds     == Routed \cup Rejected \cup {"throws"}   \* the handler throws on it

\* Why HttpParser::execute gave up on the chunk ("none": it has not).
Failures  == {"none", "upgrade", "throws", "afterclose"} \cup Rejected

ErrorSize == 1    \* the answer errorResponse() builds is a few dozen bytes

VARIABLES
    handle,      \* the uv_tcp_t: "none", "open", "closing", "closed"
    closing,     \* Conn::closing
    closeCalls,  \* how many times uv_close was called on the handle
    cause,       \* history: what first called closeConn
    reading,     \* onRead is on the stack
    input,       \* messages of the current chunk not yet parsed
    shouldClose, \* onRead's local
    failure,     \* why execute() stopped; "none" while it goes on
    replied,     \* the failure of this chunk was answered
    wq,          \* libuv's write queue: [id, left], oldest first
    done,        \* writes finished whose callback has not run: [id, ok]
    live,        \* WriteReqs allocated and not deleted, by answer number
    answers,     \* history: [by, close] of every answer handed to send()
    parsed,      \* history: messages taken from the input
    delivered,   \* history: answers entirely accepted by the kernel
    unread,      \* units in the kernel's send buffer
    peer         \* "up", "eof" (it shut its side down), "reset"

server  == <<handle, closing, closeCalls, cause>>
parse   == <<reading, input, shouldClose, failure, replied>>
output  == <<wq, done, live>>
history == <<answers, parsed, delivered>>
network == <<unread, peer>>
vars    == <<server, parse, output, history, network>>

Init ==
    /\ handle = "none" /\ closing = FALSE /\ closeCalls = 0 /\ cause = "none"
    /\ reading = FALSE /\ input = <<>> /\ shouldClose = FALSE
    /\ failure = "none" /\ replied = FALSE
    /\ wq = <<>> /\ done = {} /\ live = {}
    /\ answers = <<>> /\ parsed = 0 /\ delivered = <<>>
    /\ unread = 0 /\ peer = "up"

-------------------------------------------------------------------------------
(* closeConn(): the flag makes it idempotent; uv_close() on a handle that  *)
(* is already closing is a programming error, hence the counter.           *)

(* Mutation: the Conn is freed at once.                                      *)
CloseConnFreesNow(why) ==
    \/ closing /\ UNCHANGED server
    \/ ~closing /\ closing' = TRUE /\ handle' = "closed"
       /\ closeCalls' = closeCalls + 1 /\ cause' = why

CloseConn(why) ==
    \/ closing /\ UNCHANGED server
    \/ /\ ~closing
       /\ closing' = TRUE
       /\ handle' = "closing"
       /\ closeCalls' = closeCalls + 1
       /\ cause' = why

(* libuv's uv__write(): the kernel takes what fits.                        *)
Room     == SndBuf - unread
Taken(n) == IF n <= Room THEN n ELSE Room

(* send(): one WriteReq per answer, owned by libuv until onWrite.  uv_write *)
(* fails at once on a closed descriptor (and may fail by its interface); an *)
(* answer behind others is queued; an answer at the head goes to the kernel *)
(* as far as it fits, or fails if the peer has reset the connection.        *)
(* Mutation: a refused write drops the answer and goes on.                   *)
SendRefusedIgnored == UNCHANGED <<server, output, delivered, unread>>
SendRefused ==
    /\ CloseConn("write")
    /\ UNCHANGED <<output, delivered, unread>>

(* Mutation: an answer that overtakes the queue.                             *)
SendOvertakes(id, n) ==
    /\ handle = "open" /\ Len(wq) > 0
    /\ delivered' = Append(delivered, id)
    /\ UNCHANGED <<server, output, unread>>

SendQueued(id, n) ==
    /\ handle = "open"
    /\ Len(wq) > 0 \/ \E d \in done : ~d.ok
    /\ wq' = Append(wq, [id |-> id, left |-> n])
    /\ live' = live \cup {id}
    /\ UNCHANGED <<server, done, delivered, unread>>

(* Mutation: send() tries the write itself and queues the rest, without      *)
(* asking whether there is one.                                              *)
SendQueuesEmptyRest(id, n) ==
    /\ handle = "open" /\ wq = <<>> /\ \A d \in done : d.ok
    /\ peer # "reset"
    /\ live' = live \cup {id}
    /\ wq' = <<[id |-> id, left |-> n - Taken(n)]>>
    /\ unread' = unread + Taken(n)
    /\ UNCHANGED <<server, done, delivered>>

SendTried(id, n) ==
    /\ handle = "open" /\ wq = <<>> /\ \A d \in done : d.ok
    /\ live' = live \cup {id}
    /\ \/ /\ peer = "reset"
          /\ done' = done \cup {[id |-> id, ok |-> FALSE]}
          /\ UNCHANGED <<wq, delivered, unread>>
       \/ /\ peer # "reset" /\ n <= Room
          /\ done' = done \cup {[id |-> id, ok |-> TRUE]}
          /\ delivered' = Append(delivered, id)
          /\ unread' = unread + n
          /\ UNCHANGED wq
       \/ /\ peer # "reset" /\ n > Room
          /\ wq' = <<[id |-> id, left |-> n - Room]>>
          /\ unread' = SndBuf
          /\ UNCHANGED <<done, delivered>>
    /\ UNCHANGED server

Send(by, close, n) ==
    LET id == Len(answers) + 1 IN
    /\ answers' = Append(answers, [by |-> by, close |-> close])
    /\ \/ SendRefused
       \/ SendQueued(id, n)
       \/ SendTried(id, n)
    /\ UNCHANGED peer

-------------------------------------------------------------------------------
(* onConnection(): allocate the Conn and accept; a failed accept closes the *)
(* handle that was just initialised.                                        *)

OnConnection ==
    /\ handle = "none"
    /\ handle' = "open"
    /\ UNCHANGED <<closing, closeCalls, cause, parse, output, history, network>>

AcceptFails ==
    /\ handle = "none"
    /\ CloseConn("accept")
    /\ UNCHANGED <<parse, output, history, network>>

-------------------------------------------------------------------------------
(* onRead(), nread >= 0: execute() is entered with a chunk that completes   *)
(* any number of messages, possibly none.                                   *)

Chunks == UNION {[1 .. n -> Kinds] : n \in 0 .. MaxPerRead}

OnReadData ==
    /\ handle = "open" /\ ~reading /\ peer # "reset"
    /\ \E chunk \in Chunks :
          /\ parsed + Len(chunk) <= MaxRequests
          /\ input' = chunk
    /\ reading' = TRUE
    /\ shouldClose' = FALSE /\ failure' = "none" /\ replied' = FALSE
    /\ UNCHANGED <<server, output, history, network>>

Parsing == reading /\ failure = "none" /\ input # <<>>

(* llhttp stays in its "closed" state after a message that does not keep    *)
(* the connection alive: anything but blank lines is then an error.  Such a *)
(* message is the only thing that sets shouldClose while llhttp still runs. *)
AfterClose == shouldClose

Take == parsed' = parsed + 1 /\ input' = Tail(input)

(* The request callback: handleRequest() then send().  An upgrade request is *)
(* answered like any other, but llhttp then pauses, and execute() reports    *)
(* the pause as a failure.                                                   *)
(* Mutation: "Connection: close" is announced but shouldClose is not set.    *)
HandleRequestStaysOpen ==
    /\ Parsing /\ ~AfterClose /\ Head(input) \in Routed
    /\ Take
    /\ failure' = IF Head(input) = "upgrade" THEN "upgrade" ELSE "none"
    /\ \E n \in Sizes : Send("route", Head(input) = "close", n)
    /\ UNCHANGED <<reading, shouldClose, replied>>

HandleRequest ==
    /\ Parsing /\ ~AfterClose /\ Head(input) \in Routed
    /\ Take
    /\ shouldClose' = (Head(input) = "close")
    /\ failure' = IF Head(input) = "upgrade" THEN "upgrade" ELSE "none"
    /\ \E n \in Sizes : Send("route", Head(input) = "close", n)
    /\ UNCHANGED <<reading, replied>>

(* The handler throws: nothing is sent, onMessageComplete returns HPE_USER.  *)
HandlerThrows ==
    /\ Parsing /\ ~AfterClose /\ Head(input) = "throws"
    /\ Take
    /\ failure' = "throws"
    /\ UNCHANGED <<server, reading, shouldClose, replied, output,
                   answers, delivered, network>>

(* llhttp or one of the parser's callbacks rejects the bytes.                *)
ParseError ==
    /\ Parsing
    /\ Take
    /\ \/ AfterClose /\ failure' = "afterclose"
       \/ ~AfterClose /\ Head(input) \in Rejected /\ failure' = Head(input)
    /\ UNCHANGED <<server, reading, shouldClose, replied, output,
                   answers, delivered, network>>

(* onRead() after a failed execute(): one error answer, then close.          *)
SendError ==
    /\ reading /\ failure # "none" /\ ~replied
    /\ replied' = TRUE
    /\ shouldClose' = TRUE
    /\ Send("error", TRUE, ErrorSize)
    /\ UNCHANGED <<reading, input, failure, parsed>>

(* Mutations: a failure that is not answered; a close that is forgotten.     *)
OnReadReturnsSilently ==
    /\ reading
    /\ failure # "none" \/ input = <<>>
    /\ IF shouldClose \/ failure # "none" THEN CloseConn("answer")
       ELSE UNCHANGED server
    /\ reading' = FALSE
    /\ input' = <<>> /\ replied' = FALSE /\ shouldClose' = FALSE
    /\ UNCHANGED <<failure, output, history, network>>
OnReadReturnsOpen ==
    /\ reading
    /\ replied \/ (failure = "none" /\ input = <<>>)
    /\ reading' = FALSE
    /\ input' = <<>> /\ replied' = FALSE /\ shouldClose' = FALSE
    /\ UNCHANGED <<server, failure, output, history, network>>

(* The end of onRead(); the bytes after a failure are dropped.               *)
OnReadReturns ==
    /\ reading
    /\ \/ failure = "none" /\ input = <<>>
       \/ replied
    /\ IF shouldClose THEN CloseConn("answer") ELSE UNCHANGED server
    /\ reading' = FALSE
    /\ input' = <<>> /\ replied' = FALSE /\ shouldClose' = FALSE
    /\ UNCHANGED <<failure, output, history, network>>

(* onRead(), nread < 0: the peer hung up or the read failed.                 *)
OnReadEnd ==
    /\ handle = "open" /\ ~reading /\ peer # "up"
    /\ CloseConn("peer")
    /\ UNCHANGED <<parse, output, history, network>>

-------------------------------------------------------------------------------
(* onWrite(): a failed write closes the connection; the WriteReq is deleted. *)

(* Mutation: the error path returns before the delete.                       *)
OnWriteLeaks ==
    /\ ~reading
    /\ \E d \in done :
          /\ done' = done \ {d}
          /\ IF d.ok THEN live' = live \ {d.id} /\ UNCHANGED server
             ELSE CloseConn("write") /\ UNCHANGED live
    /\ UNCHANGED <<parse, wq, history, network>>

OnWrite ==
    /\ ~reading
    /\ \E d \in done :
          /\ IF d.ok THEN UNCHANGED server ELSE CloseConn("write")
          /\ done' = done \ {d}
          /\ live' = live \ {d.id}
    /\ UNCHANGED <<parse, wq, history, network>>

(* onConnClosed(): libuv runs it last, after every write callback.           *)
OnConnClosed ==
    /\ handle = "closing" /\ ~reading /\ wq = <<>> /\ done = {}
    /\ handle' = "closed"
    /\ UNCHANGED <<closing, closeCalls, cause, parse, output, history, network>>

(* onStop() walks the loop's handles and closes this one if it is not        *)
(* closing already.                                                          *)
OnStop ==
    /\ handle = "open" /\ ~reading
    /\ CloseConn("stop")
    /\ UNCHANGED <<parse, output, history, network>>

-------------------------------------------------------------------------------
(* libuv: the socket is writable, the head of the queue moves on.            *)

Drain ==
    /\ handle = "open" /\ ~reading /\ wq # <<>> /\ peer # "reset" /\ Room > 0
    /\ \A d \in done : d.ok
    /\ unread' = unread + Taken(wq[1].left)
    /\ IF wq[1].left <= Room
       THEN /\ wq' = Tail(wq)
            /\ done' = done \cup {[id |-> wq[1].id, ok |-> TRUE]}
            /\ delivered' = Append(delivered, wq[1].id)
       ELSE /\ wq' = [wq EXCEPT ![1].left = @ - Room]
            /\ UNCHANGED <<done, delivered>>
    /\ UNCHANGED <<server, parse, live, answers, parsed, peer>>

(* libuv: the head of the queue fails on a reset connection, or is cancelled *)
(* because the handle is closing.                                            *)
FailHead ==
    /\ wq # <<>> /\ ~reading
    /\ \/ handle = "open" /\ peer = "reset"
       \/ handle = "closing"
    /\ wq' = Tail(wq)
    /\ done' = done \cup {[id |-> wq[1].id, ok |-> FALSE]}
    /\ UNCHANGED <<server, parse, live, history, network>>

PeerReads ==
    /\ unread > 0 /\ peer # "reset"
    /\ \E n \in 0 .. unread - 1 : unread' = n
    /\ UNCHANGED <<server, parse, output, history, peer>>

PeerShutsDown ==
    /\ handle = "open" /\ peer = "up"
    /\ peer' = "eof"
    /\ UNCHANGED <<server, parse, output, history, unread>>

PeerResets ==
    /\ handle = "open" /\ peer # "reset"
    /\ peer' = "reset"
    /\ UNCHANGED <<server, parse, output, history, unread>>

(* The connection object is gone: nothing is left to do.                     *)
Gone == handle = "closed" /\ UNCHANGED vars

-------------------------------------------------------------------------------
OnRead     == \/ OnReadData \/ HandleRequest \/ HandlerThrows \/ ParseError
              \/ SendError \/ OnReadReturns \/ OnReadEnd
Callbacks  == OnConnection \/ AcceptFails \/ OnRead \/ OnWrite \/ OnConnClosed
              \/ OnStop
Transport  == Drain \/ FailHead \/ PeerReads \/ PeerShutsDown \/ PeerResets
Next       == Callbacks \/ Transport \/ Gone

Spec == Init /\ [][Next]_vars

(* llhttp terminates on every chunk, and a pass of uv_run() attends to every *)
(* event that is ready, so what is due again and again between the reads is  *)
(* not put off for ever (strong fairness: a read in progress disables the    *)
(* other callbacks).  Nothing is assumed of the answers a handler chooses,   *)
(* of new input, or of the peer's own steps.                                 *)
LoopFairness ==
    /\ WF_vars(HandleRequest \/ HandlerThrows \/ ParseError \/ SendError
               \/ OnReadReturns)
    /\ SF_vars(OnReadEnd)
    /\ SF_vars(OnWrite)
    /\ SF_vars(OnConnClosed)
    /\ SF_vars(Drain)
    /\ SF_vars(FailHead)

FairSpec == Spec /\ LoopFairness

-------------------------------------------------------------------------------
(* The type invariant.  A WriteReq is queued with something left to write,   *)
(* and the kernel's buffer never holds more than it can (send()).            *)

Answer == [by : {"route", "error"}, close : BOOLEAN]

TypeOK ==
    /\ handle \in {"none", "open", "closing", "closed"}
    /\ closing \in BOOLEAN /\ closeCalls \in Nat
    /\ cause \in {"none", "accept", "peer", "write", "answer", "stop"}
    /\ reading \in BOOLEAN /\ shouldClose \in BOOLEAN /\ replied \in BOOLEAN
    /\ input \in Seq(Kinds) /\ failure \in Failures
    /\ wq \in Seq([id : Nat, left : Nat \ {0}])
    /\ done \subseteq [id : Nat, ok : BOOLEAN]
    /\ live \subseteq Nat
    /\ answers \in Seq(Answer) /\ parsed \in Nat /\ delivered \in Seq(Nat)
    /\ unread \in 0 .. SndBuf /\ peer \in {"up", "eof", "reset"}

(* The kernel was given answers 1, 2, 3, ... in that order, none twice and   *)
(* none skipped, although some were written by send() itself, some by the    *)
(* loop later, and others failed or were cancelled (send(), onWrite()).      *)
InOrder == \A i \in 1 .. Len(delivered) : delivered[i] = i

(* The WriteReqs on the heap are exactly those whose onWrite is still to     *)
(* come: onWrite is the only owner, no request leaks and none is deleted     *)
(* twice, whether the write succeeded, failed, was refused or was cancelled. *)
WriteReqsOwned ==
    live = {wq[i].id : i \in 1 .. Len(wq)} \cup {d.id : d \in done}

(* uv_close() is called on the handle at most once, and exactly when         *)
(* Conn::closing says so, whichever of its six callers comes first.          *)
ClosedOnce ==
    /\ closeCalls = IF closing THEN 1 ELSE 0
    /\ closing <=> handle \in {"closing", "closed"}

(* When onConnClosed() deletes the Conn, nothing that refers to it is left:  *)
(* no onRead() on the stack and no WriteReq whose onWrite() would reach the  *)
(* Conn through req->handle->data; and it is deleted once, since the handle  *)
(* is closed once (closeConn(), onConnClosed()).                             *)
ConnOutlivesUse ==
    /\ ClosedOnce
    /\ handle = "closed" => ~reading /\ live = {}

(* A request is never answered after an answer that said "Connection:        *)
(* close", and an error answer is the last of its connection: the error that *)
(* answers bytes after such a request is the only thing that may follow it.  *)
LastWord ==
    \A i \in 1 .. Len(answers) - 1 :
        /\ answers[i].by = "route"
        /\ answers[i].close =>
               i + 1 = Len(answers) /\ answers[i + 1].by = "error"

(* Both ways: what follows an answer that announced the close is at most an  *)
(* error, and the server never closes on its own account a connection that   *)
(* it last told the peer would be kept (handleRequest() and errorResponse()  *)
(* against the closeConn() that ends onRead()).                              *)
CloseAnnounced ==
    /\ LastWord
    /\ cause = "answer" => answers[Len(answers)].close

(* Between two callbacks every message llhttp took from the input has been   *)
(* answered once, the one it gave up on included; only the message that      *)
(* upgrades gets a second answer, the error that ends its connection.        *)
Answered ==
    ~reading => Len(answers) = parsed + (IF failure = "upgrade" THEN 1 ELSE 0)

(* README.md: "malformed input gets a 400", "past which the request gets a   *)
(* 431".  When such a connection, whose peer is still there, is closed       *)
(* because of the error, the error answer has been handed to the kernel.     *)
(* The code cancels it if answers ahead of it are still queued.              *)
ErrorAnswerSent ==
    handle = "closed" /\ cause = "answer" /\ peer = "up"
        /\ answers[Len(answers)].by = "error"
    => Len(delivered) = Len(answers)

(* A connection is freed once closeConn() was called on it, once the peer    *)
(* has gone, or once it was sent an answer that announces the end: nothing   *)
(* waits for the peer to read or for the queue to drain.                     *)
Reclaimed ==
    \/ closing
    \/ handle = "open" /\ peer # "up"
    \/ answers # <<>> /\ answers[Len(answers)].close
    ~> handle = "closed"

(* With a peer that does not stop reading what it is sent, every answer made *)
(* is eventually in the kernel's hands, unless the connection is being       *)
(* closed: onWrite() and send() leave nothing behind (HttpServer.cpp:60-93). *)
AnswersSent ==
    WF_vars(PeerReads) =>
        \A i \in 1 .. MaxRequests + 1 :
            Len(answers) >= i ~> Len(delivered) >= i \/ closing

(***************************************************************************)
(* The inductive invariant behind the theorems of ConnectionProofs.        *)
(***************************************************************************)
Announced == answers # <<>> /\ answers[Len(answers)].close
AllRoutes == \A i \in 1 .. Len(answers) : answers[i].by = "route"

(* The handle against the flag, the cause and the stack.                     *)
ServerInv ==
    /\ ClosedOnce
    /\ ~closing => cause = "none"
    /\ reading => handle \in {"open", "closing"} /\ cause # "answer"
    /\ handle = "none" => answers = <<>> /\ delivered = <<>> /\ wq = <<>>
                          /\ done = {} /\ parsed = 0
    /\ handle = "closed" => wq = <<>> /\ done = {}

(* Every answer has at most one WriteReq, in one place.                      *)
OwnedInv ==
    /\ WriteReqsOwned
    /\ \A i \in 1 .. Len(wq) : wq[i].id \in 1 .. Len(answers)
    /\ \A d \in done : d.id \in 1 .. Len(answers)
    /\ \A i, j \in 1 .. Len(wq) : wq[i].id = wq[j].id => i = j
    /\ \A d, e \in done : d.id = e.id => d = e
    /\ \A d \in done : \A i \in 1 .. Len(wq) : d.id # wq[i].id

(* While the kernel takes data, the queue continues what was delivered.      *)
QueueInv ==
    /\ InOrder
    /\ Len(delivered) <= Len(answers)
    /\ handle = "open" /\ peer # "reset" =>
         /\ Len(answers) = Len(delivered) + Len(wq)
         /\ \A i \in 1 .. Len(wq) : wq[i].id = Len(delivered) + i

(* What onRead()'s locals know of the last answer.                           *)
ReadInv ==
    /\ reading => (shouldClose <=> Announced)
    /\ replied => reading /\ shouldClose /\ failure # "none"
    /\ ~reading /\ ~closing => ~Announced /\ AllRoutes /\ failure = "none"
    /\ reading /\ ~replied => AllRoutes
    /\ cause = "answer" => Announced

(* The count of answers in the middle of a chunk.                            *)
CountInv ==
    Len(answers) = parsed + (IF failure = "upgrade" THEN 1 ELSE 0)
                          - (IF reading /\ failure # "none" /\ ~replied
                             THEN 1 ELSE 0)

IInv == ServerInv /\ OwnedInv /\ QueueInv /\ ReadInv /\ LastWord /\ CountInv

(* The connection implements the abstract stream of answers.                 *)
Stream == INSTANCE ResponseStream
              WITH made <- answers, sent <- Len(delivered), ended <- closing
StreamSpec == Stream!Spec

===============================================================================
