--------------------------- MODULE ConnectionProofs ---------------------------
(***************************************************************************)
(* Theorems about Connection, for every set of answer sizes, every send    *)
(* buffer and every bound on the input.                                    *)
(***************************************************************************)
EXTENDS Connection, SequenceTheorems, TLAPS

WriteEntry == [id : Nat, left : Nat \ {0}]

(* Facts about sequences in the form the proofs below need them.            *)
LEMMA AppendFacts ==
    ASSUME NEW S, NEW s \in Seq(S), NEW x \in S
    PROVE  /\ Append(s, x) \in Seq(S)
           /\ Len(Append(s, x)) = Len(s) + 1
           /\ \A i \in 1 .. Len(s) : Append(s, x)[i] = s[i]
           /\ Append(s, x)[Len(s) + 1] = x
  BY AppendProperties

LEMMA TailFacts ==
    ASSUME NEW S, NEW s \in Seq(S), s # <<>>
    PROVE  /\ Tail(s) \in Seq(S)
           /\ Len(s) \in Nat \ {0}
           /\ Len(Tail(s)) = Len(s) - 1
           /\ \A i \in 1 .. Len(Tail(s)) : Tail(s)[i] = s[i + 1]
           /\ s[1] \in S
           /\ Head(s) = s[1]
  BY HeadTailProperties, EmptySeq

-------------------------------------------------------------------------------
(* closeConn() and send() keep the types of what they touch.                *)

LEMMA CloseConnType ==
    ASSUME TypeOK, NEW why \in {"accept", "peer", "write", "answer", "stop"},
           CloseConn(why)
    PROVE  /\ handle' \in {"none", "open", "closing", "closed"}
           /\ closing' \in BOOLEAN /\ closeCalls' \in Nat
           /\ cause' \in {"none", "accept", "peer", "write", "answer", "stop"}
<1>1. closeCalls' \in Nat
  BY DEF TypeOK, CloseConn, server
<1>2. CASE closing /\ UNCHANGED server
  <2>1. UNCHANGED <<handle, closing, cause>>
    BY <1>2 DEF server
  <2> QED BY <1>1, <2>1, Zenon DEF TypeOK
<1>3. CASE closing' = TRUE /\ handle' = "closing" /\ cause' = why
  BY <1>1, <1>3, Zenon
<1> QED BY <1>2, <1>3, Zenon DEF CloseConn

LEMMA SendType ==
    ASSUME TypeOK, NEW by \in {"route", "error"}, NEW close \in BOOLEAN,
           NEW n \in Nat \ {0}, Send(by, close, n)
    PROVE  /\ handle' \in {"none", "open", "closing", "closed"}
           /\ closing' \in BOOLEAN /\ closeCalls' \in Nat
           /\ cause' \in {"none", "accept", "peer", "write", "answer", "stop"}
           /\ wq' \in Seq(WriteEntry)
           /\ done' \subseteq [id : Nat, ok : BOOLEAN]
           /\ live' \subseteq Nat
           /\ answers' \in Seq(Answer) /\ delivered' \in Seq(Nat)
           /\ unread' \in 0 .. SndBuf /\ peer' \in {"up", "eof", "reset"}
<1> DEFINE id == Len(answers) + 1
<1>0. /\ id \in Nat
      /\ answers' = Append(answers, [by |-> by, close |-> close])
      /\ SendRefused \/ SendQueued(id, n) \/ SendTried(id, n)
      /\ UNCHANGED peer
  BY DEF Send, TypeOK
<1>1. answers' \in Seq(Answer) /\ peer' \in {"up", "eof", "reset"}
  BY <1>0, AppendFacts DEF Answer, TypeOK
<1>2. CASE SendRefused
  BY <1>1, <1>2, CloseConnType DEF SendRefused, TypeOK, WriteEntry, output
<1>3. CASE SendQueued(id, n)
  <2>1. [id |-> id, left |-> n] \in WriteEntry
    BY <1>0 DEF WriteEntry
  <2>2. wq' \in Seq(WriteEntry)
    BY <1>3, <2>1, AppendFacts DEF SendQueued, TypeOK, WriteEntry
  <2> QED BY <1>0, <1>1, <1>3, <2>2 DEF SendQueued, TypeOK, server
<1>4. CASE SendTried(id, n)
  <2>1. live' \subseteq Nat /\ UNCHANGED server
    BY <1>0, <1>4 DEF SendTried, TypeOK
  <2>2. delivered' \in Seq(Nat)
    <3>1. delivered' = delivered \/ delivered' = Append(delivered, id)
      BY <1>4, Zenon DEF SendTried
    <3>2. delivered \in Seq(Nat)
      BY DEF TypeOK
    <3>3. id \in Nat
      BY <1>0
    <3> HIDE DEF id
    <3> QED BY ONLY <3>1, <3>2, <3>3, AppendFacts
  <2>3. done' \subseteq [id : Nat, ok : BOOLEAN]
    <3>1. \A b \in BOOLEAN : [id |-> id, ok |-> b] \in [id : Nat, ok : BOOLEAN]
      BY <1>0, Zenon
    <3>2. \/ done' = done
          \/ done' = done \cup {[id |-> id, ok |-> FALSE]}
          \/ done' = done \cup {[id |-> id, ok |-> TRUE]}
      BY <1>4, Zenon DEF SendTried
    <3>3. done \subseteq [id : Nat, ok : BOOLEAN]
      BY Zenon DEF TypeOK
    <3> QED BY <3>1, <3>2, <3>3, Zenon
  <2>4. wq' \in Seq(WriteEntry) /\ unread' \in 0 .. SndBuf
    <3>0. wq \in Seq(WriteEntry) /\ unread \in 0 .. SndBuf
      BY DEF TypeOK, WriteEntry
    <3>1. \/ wq' = wq /\ unread' = unread
          \/ wq' = wq /\ unread' = unread + n /\ n <= Room
          \/ /\ wq' = <<[id |-> id, left |-> n - Room]>>
             /\ unread' = SndBuf /\ n > Room
      BY <1>4, Zenon DEF SendTried
    <3>2. ASSUME n > Room, wq' = <<[id |-> id, left |-> n - Room]>>
          PROVE  wq' \in Seq(WriteEntry)
      <4>1. n - Room \in Nat \ {0}
        BY <3>0, <3>2, SndBufAssumption DEF Room
      <4>2. [id |-> id, left |-> n - Room] \in WriteEntry
        BY <4>1, <1>0 DEF WriteEntry
      <4> QED BY <3>2, <4>2
    <3>3. unread' \in 0 .. SndBuf
      BY <3>0, <3>1, SndBufAssumption DEF Room
    <3> QED BY <3>0, <3>1, <3>2, <3>3
  <2> QED BY <1>1, <2>1, <2>2, <2>3, <2>4 DEF TypeOK, server
<1> QED BY <1>0, <1>2, <1>3, <1>4

-------------------------------------------------------------------------------
(* The type invariant, by the groups of variables that the actions name in  *)
(* their UNCHANGED clauses.                                                 *)

ServerType ==
    /\ handle \in {"none", "open", "closing", "closed"}
    /\ closing \in BOOLEAN /\ closeCalls \in Nat
    /\ cause \in {"none", "accept", "peer", "write", "answer", "stop"}
ParseType ==
    /\ reading \in BOOLEAN /\ shouldClose \in BOOLEAN /\ replied \in BOOLEAN
    /\ input \in Seq(Kinds) /\ failure \in Failures
OutputType ==
    /\ wq \in Seq(WriteEntry)
    /\ done \subseteq [id : Nat, ok : BOOLEAN]
    /\ live \subseteq Nat
HistoryType ==
    answers \in Seq(Answer) /\ parsed \in Nat /\ delivered \in Seq(Nat)
NetworkType == unread \in 0 .. SndBuf /\ peer \in {"up", "eof", "reset"}

LEMMA TypeParts ==
    TypeOK <=> ServerType /\ ParseType /\ OutputType /\ HistoryType /\ NetworkType
  BY Zenon DEF TypeOK, ServerType, ParseType, OutputType, HistoryType,
               NetworkType, WriteEntry

LEMMA TypePartsPrime ==
    TypeOK' <=> ServerType' /\ ParseType' /\ OutputType' /\ HistoryType'
                /\ NetworkType'
  BY Zenon DEF TypeOK, ServerType, ParseType, OutputType, HistoryType,
               NetworkType, WriteEntry

LEMMA TypeStable ==
    /\ ServerType /\ UNCHANGED server => ServerType'
    /\ ParseType /\ UNCHANGED parse => ParseType'
    /\ OutputType /\ UNCHANGED output => OutputType'
    /\ HistoryType /\ UNCHANGED history => HistoryType'
    /\ NetworkType /\ UNCHANGED network => NetworkType'
<1>1. ServerType /\ UNCHANGED server => ServerType'
  <2> SUFFICES ASSUME ServerType, UNCHANGED server PROVE ServerType' OBVIOUS
  <2>1. UNCHANGED <<handle, closing, closeCalls, cause>> BY DEF server
  <2> QED BY <2>1, Zenon DEF ServerType
<1>2. ParseType /\ UNCHANGED parse => ParseType'
  <2> SUFFICES ASSUME ParseType, UNCHANGED parse PROVE ParseType' OBVIOUS
  <2>1. UNCHANGED <<reading, input, shouldClose, failure, replied>> BY DEF parse
  <2> QED BY <2>1, Zenon DEF ParseType
<1>3. OutputType /\ UNCHANGED output => OutputType'
  BY DEF OutputType, output
<1>4. HistoryType /\ UNCHANGED history => HistoryType'
  BY DEF HistoryType, history
<1>5. NetworkType /\ UNCHANGED network => NetworkType'
  BY DEF NetworkType, network
<1> QED BY <1>1, <1>2, <1>3, <1>4, <1>5

LEMMA CloseConnPart ==
    ASSUME TypeOK, NEW why \in {"accept", "peer", "write", "answer", "stop"},
           CloseConn(why)
    PROVE  ServerType'
  BY CloseConnType, Zenon DEF ServerType

(* Taking the next message of the chunk.                                     *)
LEMMA TakeType ==
    ASSUME TypeOK, Parsing, Take
    PROVE  /\ parsed' \in Nat /\ input' \in Seq(Kinds)
           /\ Head(input) \in Kinds
<1>1. input \in Seq(Kinds) /\ input # <<>> /\ parsed \in Nat
  BY DEF TypeOK, Parsing
<1> QED BY <1>1, TailFacts DEF Take

LEMMA TypeStep == TypeOK /\ [Next]_vars => TypeOK'
<1> SUFFICES ASSUME TypeOK, [Next]_vars PROVE TypeOK'
  OBVIOUS
<1>0. ServerType /\ ParseType /\ OutputType /\ HistoryType /\ NetworkType
  BY TypeParts
<1>1. CASE OnConnection
  <2>1. ServerType'
    BY <1>0, <1>1, Zenon DEF OnConnection, ServerType
  <2> QED BY <1>0, <1>1, <2>1, TypeStable, TypePartsPrime, Zenon DEF OnConnection
<1>2. CASE AcceptFails
  BY <1>0, <1>2, CloseConnPart, TypeStable, TypePartsPrime, Zenon DEF AcceptFails
<1>3. CASE OnReadData
  <2>1. PICK chunk \in Chunks : input' = chunk
    BY <1>3, Zenon DEF OnReadData
  <2>2. chunk \in Seq(Kinds)
    BY BoundsAssumption DEF Chunks
  <2>3. ParseType'
    BY <1>0, <1>3, <2>1, <2>2, Zenon DEF OnReadData, ParseType, Failures
  <2> QED BY <1>0, <1>3, <2>3, TypeStable, TypePartsPrime, Zenon DEF OnReadData
<1>4. CASE HandleRequest
  <2>1. Parsing /\ Take /\ UNCHANGED <<reading, replied>>
    BY <1>4, Zenon DEF HandleRequest
  <2>2. parsed' \in Nat /\ input' \in Seq(Kinds)
    BY <2>1, TakeType
  <2>3. ParseType'
    <3>1. shouldClose' \in BOOLEAN /\ failure' \in Failures
      BY <1>4 DEF HandleRequest, Failures
    <3> QED BY <1>0, <2>1, <2>2, <3>1, Zenon DEF ParseType
  <2>4. PICK n \in Sizes : Send("route", Head(input) = "close", n)
    BY <1>4, Zenon DEF HandleRequest
  <2>5. n \in Nat \ {0}
    BY SizesAssumption
  <2>6. (Head(input) = "close") \in BOOLEAN
    OBVIOUS
  <2>7. ServerType' /\ OutputType' /\ HistoryType' /\ NetworkType'
    BY <2>2, <2>4, <2>5, <2>6, SendType, Zenon
       DEF ServerType, OutputType, HistoryType, NetworkType
  <2> QED BY <2>3, <2>7, TypePartsPrime, Zenon
<1>5. CASE HandlerThrows
  <2>1. Parsing /\ Take /\ failure' = "throws"
        /\ UNCHANGED <<reading, shouldClose, replied, answers, delivered>>
        /\ UNCHANGED <<server, output, network>>
    BY <1>5, Zenon DEF HandlerThrows
  <2>2. parsed' \in Nat /\ input' \in Seq(Kinds)
    BY <2>1, TakeType
  <2>3. ParseType' /\ HistoryType'
    BY <1>0, <2>1, <2>2, Zenon DEF ParseType, HistoryType, Failures
  <2> QED BY <1>0, <2>1, <2>3, TypeStable, TypePartsPrime, Zenon
<1>6. CASE ParseError
  <2>1. Parsing /\ Take
        /\ UNCHANGED <<reading, shouldClose, replied, answers, delivered>>
        /\ UNCHANGED <<server, output, network>>
        /\ failure' \in Rejected \cup {"afterclose"}
    BY <1>6 DEF ParseError
  <2>2. parsed' \in Nat /\ input' \in Seq(Kinds)
    BY <2>1, TakeType
  <2>3. failure' \in Failures
    BY <2>1 DEF Failures
  <2>4. ParseType' /\ HistoryType'
    BY <1>0, <2>1, <2>2, <2>3, Zenon DEF ParseType, HistoryType
  <2> QED BY <1>0, <2>1, <2>4, TypeStable, TypePartsPrime, Zenon
<1>7. CASE SendError
  <2>1. Send("error", TRUE, ErrorSize) /\ replied' = TRUE /\ shouldClose' = TRUE
        /\ UNCHANGED <<reading, input, failure, parsed>>
    BY <1>7, Zenon DEF SendError
  <2>2. ErrorSize \in Nat \ {0}
    BY DEF ErrorSize
  <2>3. ServerType' /\ OutputType' /\ HistoryType' /\ NetworkType'
    BY <1>0, <2>1, <2>2, SendType, Zenon
       DEF ServerType, OutputType, HistoryType, NetworkType
  <2>4. ParseType'
    BY <1>0, <2>1, Zenon DEF ParseType
  <2> QED BY <2>3, <2>4, TypePartsPrime, Zenon
<1>8. CASE OnReadReturns
  <2>1. ServerType'
    BY <1>0, <1>8, CloseConnPart, TypeStable, Zenon DEF OnReadReturns
  <2>2. <<>> \in Seq(Kinds)
    OBVIOUS
  <2>3. ParseType'
    BY <1>0, <1>8, <2>2, Zenon DEF OnReadReturns, ParseType
  <2> QED BY <1>0, <1>8, <2>1, <2>3, TypeStable, TypePartsPrime, Zenon
          DEF OnReadReturns
<1>9. CASE OnReadEnd
  BY <1>0, <1>9, CloseConnPart, TypeStable, TypePartsPrime, Zenon DEF OnReadEnd
<1>10. CASE OnWrite
  <2>1. ServerType'
    BY <1>0, <1>10, CloseConnPart, TypeStable, Zenon DEF OnWrite
  <2>2. OutputType'
    BY <1>0, <1>10 DEF OnWrite, OutputType
  <2> QED BY <1>0, <1>10, <2>1, <2>2, TypeStable, TypePartsPrime, Zenon DEF OnWrite
<1>11. CASE OnConnClosed
  <2>1. ServerType'
    BY <1>0, <1>11, Zenon DEF OnConnClosed, ServerType
  <2> QED BY <1>0, <1>11, <2>1, TypeStable, TypePartsPrime, Zenon DEF OnConnClosed
<1>12. CASE OnStop
  BY <1>0, <1>12, CloseConnPart, TypeStable, TypePartsPrime, Zenon DEF OnStop
<1>13. CASE Drain
  <2>1. wq # <<>> /\ Room > 0 /\ unread' = unread + Taken(wq[1].left)
        /\ UNCHANGED <<server, parse, live, answers, parsed, peer>>
    BY <1>13, Zenon DEF Drain
  <2>2. wq[1] \in WriteEntry /\ Tail(wq) \in Seq(WriteEntry) /\ Len(wq) \in Nat \ {0}
    BY <1>0, <2>1, TailFacts DEF OutputType
  <2>3. wq[1].left \in Nat \ {0} /\ wq[1].id \in Nat
    BY <2>2 DEF WriteEntry
  <2>4. NetworkType'
    BY <1>0, <2>1, <2>3, SndBufAssumption DEF NetworkType, Taken, Room
  <2>5. CASE wq[1].left <= Room
    <3>1. wq' = Tail(wq) /\ delivered' = Append(delivered, wq[1].id)
          /\ done' = done \cup {[id |-> wq[1].id, ok |-> TRUE]}
      BY <1>13, <2>5, Zenon DEF Drain
    <3>2. OutputType'
      <4>1. [id |-> wq[1].id, ok |-> TRUE] \in [id : Nat, ok : BOOLEAN]
        BY <2>3, Zenon
      <4>2. UNCHANGED live
        BY <2>1
      <4> QED BY <1>0, <2>2, <3>1, <4>1, <4>2, Zenon DEF OutputType
    <3>3. HistoryType'
      BY <1>0, <2>1, <2>3, <3>1, AppendFacts DEF HistoryType
    <3> QED BY <1>0, <2>1, <2>4, <3>2, <3>3, TypeStable, TypePartsPrime, Zenon
  <2>6. CASE ~(wq[1].left <= Room)
    <3>1. wq' = [wq EXCEPT ![1].left = @ - Room] /\ UNCHANGED <<done, delivered>>
      BY <1>13, <2>6, Zenon DEF Drain
    <3>2. wq[1].left - Room \in Nat \ {0}
      BY <1>0, <2>1, <2>3, <2>6, SndBufAssumption DEF NetworkType, Room
    <3>3. [wq[1] EXCEPT !.left = @ - Room] \in WriteEntry
      BY <2>2, <3>2 DEF WriteEntry
    <3>4. wq' = [wq EXCEPT ![1] = [wq[1] EXCEPT !.left = @ - Room]]
      BY <3>1, <2>2
    <3>5. wq' \in Seq(WriteEntry)
      BY <1>0, <2>2, <3>3, <3>4, ExceptSeq DEF OutputType
    <3>6. OutputType' /\ HistoryType'
      BY <1>0, <2>1, <3>1, <3>5 DEF OutputType, HistoryType
    <3> QED BY <1>0, <2>1, <2>4, <3>6, TypeStable, TypePartsPrime, Zenon
  <2> QED BY <2>5, <2>6
<1>14. CASE FailHead
  <2>1. wq # <<>> /\ wq' = Tail(wq) /\ UNCHANGED <<live>>
        /\ done' = done \cup {[id |-> wq[1].id, ok |-> FALSE]}
    BY <1>14, Zenon DEF FailHead
  <2>2. wq' \in Seq(WriteEntry) /\ wq[1] \in WriteEntry
    BY <1>0, <2>1, TailFacts DEF OutputType
  <2>3. OutputType'
    <3>1. wq[1].id \in Nat
      BY <2>2 DEF WriteEntry
    <3>2. [id |-> wq[1].id, ok |-> FALSE] \in [id : Nat, ok : BOOLEAN]
      BY <3>1, Zenon
    <3> QED BY <1>0, <2>1, <2>2, <3>2, Zenon DEF OutputType
  <2> QED BY <1>0, <1>14, <2>3, TypeStable, TypePartsPrime, Zenon DEF FailHead
<1>15. CASE PeerReads
  <2>1. NetworkType'
    BY <1>0, <1>15, SndBufAssumption DEF PeerReads, NetworkType
  <2> QED BY <1>0, <1>15, <2>1, TypeStable, TypePartsPrime, Zenon DEF PeerReads
<1>16. CASE PeerShutsDown
  <2>1. NetworkType'
    BY <1>0, <1>16 DEF PeerShutsDown, NetworkType
  <2> QED BY <1>0, <1>16, <2>1, TypeStable, TypePartsPrime, Zenon DEF PeerShutsDown
<1>17. CASE PeerResets
  <2>1. NetworkType'
    BY <1>0, <1>17 DEF PeerResets, NetworkType
  <2> QED BY <1>0, <1>17, <2>1, TypeStable, TypePartsPrime, Zenon DEF PeerResets
<1>18. CASE UNCHANGED vars
  <2>1. UNCHANGED <<server, parse, output, history, network>>
    BY <1>18, Zenon DEF vars
  <2> QED BY <1>0, <2>1, TypeStable, TypePartsPrime
<1> QED BY <1>1, <1>2, <1>3, <1>4, <1>5, <1>6, <1>7, <1>8, <1>9, <1>10, <1>11,
           <1>12, <1>13, <1>14, <1>15, <1>16, <1>17, <1>18, Zenon
        DEF Next, Callbacks, OnRead, Transport, Gone

(* Connection's state stays within its types.                                *)
THEOREM TypeCorrect == Spec => []TypeOK
<1>1. Init => TypeOK
  <2> SUFFICES ASSUME Init PROVE TypeOK
    OBVIOUS
  <2>1. /\ 0 \in Nat /\ 0 \in 0 .. SndBuf
        /\ \A S : <<>> \in Seq(S)
    BY SndBufAssumption
  <2> QED BY <2>1, Zenon DEF Init, TypeOK, Failures
<1>2. TypeOK /\ [Next]_vars => TypeOK'
  BY TypeStep
<1> QED BY <1>1, <1>2, PTL DEF Spec

-------------------------------------------------------------------------------
(* The possible outcomes of send(), in terms of the answer's number.        *)

NextId == Len(answers) + 1

Refused == CloseConn("write") /\ UNCHANGED <<wq, done, live, delivered>>
Queued  == /\ handle = "open" /\ UNCHANGED server /\ live' = live \cup {NextId}
           /\ \E l \in Nat \ {0} : wq' = Append(wq, [id |-> NextId, left |-> l])
           /\ UNCHANGED <<done, delivered>>
Failed  == /\ handle = "open" /\ UNCHANGED server /\ live' = live \cup {NextId}
           /\ peer = "reset"
           /\ done' = done \cup {[id |-> NextId, ok |-> FALSE]}
           /\ UNCHANGED <<wq, delivered>>
Written == /\ handle = "open" /\ UNCHANGED server /\ live' = live \cup {NextId}
           /\ peer # "reset" /\ wq = <<>>
           /\ done' = done \cup {[id |-> NextId, ok |-> TRUE]}
           /\ delivered' = Append(delivered, NextId)
           /\ UNCHANGED wq

LEMMA SendOutcome ==
    ASSUME TypeOK, NEW by \in {"route", "error"}, NEW close \in BOOLEAN,
           NEW n \in Nat \ {0}, Send(by, close, n)
    PROVE  /\ answers' = Append(answers, [by |-> by, close |-> close])
           /\ peer' = peer
           /\ Refused \/ Queued \/ Failed \/ Written
<1>1. /\ answers' = Append(answers, [by |-> by, close |-> close])
      /\ peer' = peer
      /\ SendRefused \/ SendQueued(NextId, n) \/ SendTried(NextId, n)
  BY DEF Send, NextId
<1>2. SendRefused => Refused
  BY DEF SendRefused, Refused, output
<1>3. SendQueued(NextId, n) => Queued
  BY Zenon DEF SendQueued, Queued
<1>4. SendTried(NextId, n) => Failed \/ Written \/ Queued
  <2> SUFFICES ASSUME SendTried(NextId, n) PROVE Failed \/ Written \/ Queued
    OBVIOUS
  <2>1. \/ /\ peer = "reset" /\ UNCHANGED <<wq, delivered>>
           /\ done' = done \cup {[id |-> NextId, ok |-> FALSE]}
        \/ /\ peer # "reset" /\ delivered' = Append(delivered, NextId)
           /\ done' = done \cup {[id |-> NextId, ok |-> TRUE]} /\ UNCHANGED wq
        \/ /\ n > Room /\ UNCHANGED <<done, delivered>>
           /\ wq' = <<[id |-> NextId, left |-> n - Room]>>
    BY Zenon DEF SendTried
  <2>2. /\ handle = "open" /\ wq = <<>> /\ UNCHANGED server
        /\ live' = live \cup {NextId}
    BY Zenon DEF SendTried
  <2>3. ASSUME n > Room, wq' = <<[id |-> NextId, left |-> n - Room]>>
        PROVE  \E l \in Nat \ {0} : wq' = Append(wq, [id |-> NextId, left |-> l])
    <3>1. n - Room \in Nat \ {0}
      BY <2>3, SndBufAssumption DEF Room, TypeOK
    <3> QED BY <2>2, <2>3, <3>1
  <2> QED BY <2>1, <2>2, <2>3, Zenon DEF Failed, Written, Queued
<1> QED BY <1>1, <1>2, <1>3, <1>4

(* Only the writing actions touch the answers and their WriteReqs.          *)
Writing == HandleRequest \/ SendError \/ OnWrite \/ Drain \/ FailHead

LEMMA NotWriting ==
    ASSUME [Next]_vars, ~Writing
    PROVE  UNCHANGED <<wq, done, live, answers, delivered>>
<1> USE DEF Writing
<1>1. CASE OnConnection
  BY <1>1 DEF OnConnection, output, history
<1>2. CASE AcceptFails
  BY <1>2 DEF AcceptFails, output, history
<1>3. CASE OnReadData
  BY <1>3 DEF OnReadData, output, history
<1>4. CASE HandlerThrows
  BY <1>4 DEF HandlerThrows, output
<1>5. CASE ParseError
  BY <1>5 DEF ParseError, output
<1>6. CASE OnReadReturns
  BY <1>6 DEF OnReadReturns, output, history
<1>7. CASE OnReadEnd
  BY <1>7 DEF OnReadEnd, output, history
<1>8. CASE OnConnClosed
  BY <1>8 DEF OnConnClosed, output, history
<1>9. CASE OnStop
  BY <1>9 DEF OnStop, output, history
<1>10. CASE PeerReads \/ PeerShutsDown \/ PeerResets
  BY <1>10 DEF PeerReads, PeerShutsDown, PeerResets, output, history
<1>11. CASE UNCHANGED vars
  BY <1>11 DEF vars, output, history
<1> QED BY <1>1, <1>2, <1>3, <1>4, <1>5, <1>6, <1>7, <1>8, <1>9, <1>10, <1>11, Zenon
        DEF Next, Callbacks, OnRead, Transport, Gone

(* The two actions that send, as one.                                        *)
Sending(by, close) ==
    /\ answers' = Append(answers, [by |-> by, close |-> close])
    /\ peer' = peer /\ reading /\ reading'
    /\ Refused \/ Queued \/ Failed \/ Written

LEMMA HandleRequestSends ==
    ASSUME TypeOK, HandleRequest
    PROVE  Sending("route", Head(input) = "close")
<1>1. PICK n \in Sizes : Send("route", Head(input) = "close", n)
  BY Zenon DEF HandleRequest
<1>2. n \in Nat \ {0} /\ (Head(input) = "close") \in BOOLEAN
  BY SizesAssumption
<1>3. reading /\ reading'
  BY DEF HandleRequest, Parsing
<1> QED BY <1>1, <1>2, <1>3, SendOutcome, Zenon DEF Sending

LEMMA SendErrorSends ==
    ASSUME TypeOK, SendError
    PROVE  Sending("error", TRUE)
<1>1. Send("error", TRUE, ErrorSize) /\ reading /\ reading'
  BY Zenon DEF SendError
<1>2. ErrorSize \in Nat \ {0}
  BY DEF ErrorSize
<1> QED BY <1>1, <1>2, SendOutcome, Zenon DEF Sending

-------------------------------------------------------------------------------
(* OwnedInv: an answer's WriteReq is in one place, and freed from there.     *)

LEMMA OwnedSending ==
    ASSUME TypeOK, OwnedInv, NEW by \in {"route", "error"}, NEW close \in BOOLEAN,
           Sending(by, close)
    PROVE  OwnedInv'
<1>0. /\ NextId \in Nat /\ Len(answers') = NextId /\ Len(answers) \in Nat
      /\ wq \in Seq(WriteEntry) /\ Len(wq) \in Nat
  <2>1. answers \in Seq(Answer) /\ [by |-> by, close |-> close] \in Answer
    BY DEF TypeOK, Answer
  <2>2. answers' = Append(answers, [by |-> by, close |-> close])
    BY DEF Sending
  <2> QED BY <2>1, <2>2, AppendFacts DEF TypeOK, NextId, WriteEntry
<1>1. CASE Refused
  BY <1>0, <1>1 DEF Refused, OwnedInv, WriteReqsOwned, NextId
<1>2. CASE Queued
  <2>1. PICK l \in Nat \ {0} : wq' = Append(wq, [id |-> NextId, left |-> l])
    BY <1>2, Zenon DEF Queued
  <2>2. /\ Len(wq') = Len(wq) + 1
        /\ \A i \in 1 .. Len(wq) : wq'[i] = wq[i]
        /\ wq'[Len(wq) + 1].id = NextId
    <3>1. [id |-> NextId, left |-> l] \in WriteEntry
      BY <1>0 DEF WriteEntry
    <3> QED BY <1>0, <2>1, <3>1, AppendFacts
  <2>3. live' = live \cup {NextId} /\ done' = done
    BY <1>2, Zenon DEF Queued
  <2>4. \A i \in 1 .. Len(wq) : wq'[i].id \in 1 .. Len(answers)
    BY <1>0, <2>2 DEF OwnedInv
  <2>5. {wq'[i].id : i \in 1 .. Len(wq')} = {wq[i].id : i \in 1 .. Len(wq)} \cup {NextId}
    BY <1>0, <2>2
  <2>6. WriteReqsOwned'
    BY <2>3, <2>5 DEF OwnedInv, WriteReqsOwned
  <2>7. \A i \in 1 .. Len(wq') : i \in 1 .. Len(wq) \/ i = Len(wq) + 1
    BY <1>0, <2>2
  <2>8. \A i \in 1 .. Len(wq') : wq'[i].id \in 1 .. Len(answers')
    BY <1>0, <2>2, <2>4, <2>7 DEF NextId
  <2>9. \A i, j \in 1 .. Len(wq') : wq'[i].id = wq'[j].id => i = j
    BY <1>0, <2>2, <2>4, <2>7 DEF OwnedInv, NextId
  <2>10. \A d \in done' : d.id \in 1 .. Len(answers) /\ d.id \in 1 .. Len(answers')
    BY <1>0, <2>3 DEF OwnedInv, NextId
  <2>11. \A d \in done' : \A i \in 1 .. Len(wq') : d.id # wq'[i].id
    BY <1>0, <2>2, <2>3, <2>7, <2>10 DEF OwnedInv, NextId
  <2> QED BY <2>3, <2>6, <2>8, <2>9, <2>10, <2>11 DEF OwnedInv
<1>3. CASE Failed \/ Written
  <2>1. PICK e : e.id = NextId /\ done' = done \cup {e}
                 /\ live' = live \cup {NextId} /\ wq' = wq
    <3>1. CASE Failed
      BY <3>1 DEF Failed
    <3>2. CASE Written
      BY <3>2 DEF Written
    <3> QED BY <1>3, <3>1, <3>2
  <2>2. WriteReqsOwned'
    BY <2>1 DEF OwnedInv, WriteReqsOwned
  <2> QED BY <1>0, <2>1, <2>2 DEF OwnedInv, NextId
<1> QED BY <1>1, <1>2, <1>3, Zenon DEF Sending

LEMMA OwnedMoves ==
    ASSUME TypeOK, OwnedInv, wq # <<>>, wq' = Tail(wq), UNCHANGED <<live, answers>>,
           NEW ok \in BOOLEAN,
           done' = done \cup {[id |-> wq[1].id, ok |-> ok]}
    PROVE  OwnedInv'
<1>1. /\ wq \in Seq(WriteEntry) /\ Len(wq) \in Nat \ {0}
      /\ Len(wq') = Len(wq) - 1
      /\ \A i \in 1 .. Len(wq') : wq'[i] = wq[i + 1]
  BY TailFacts DEF TypeOK, WriteEntry
<1>2. \A i \in 1 .. Len(wq') : i + 1 \in 1 .. Len(wq) /\ i + 1 # 1
  BY <1>1
<1>3. 1 \in 1 .. Len(wq) /\ \A i \in 1 .. Len(wq) : i = 1 \/ i - 1 \in 1 .. Len(wq')
  BY <1>1
<1>4. {wq[i].id : i \in 1 .. Len(wq)} = {wq'[i].id : i \in 1 .. Len(wq')} \cup {wq[1].id}
  <2>1. ASSUME NEW i \in 1 .. Len(wq)
        PROVE  wq[i].id \in {wq'[j].id : j \in 1 .. Len(wq')} \cup {wq[1].id}
    <3>1. CASE i = 1
      BY <3>1
    <3>2. CASE i # 1
      <4>1. i - 1 \in 1 .. Len(wq') /\ wq'[i - 1] = wq[i]
        BY <1>1, <1>3, <3>2
      <4> QED BY <4>1
    <3> QED BY <3>1, <3>2
  <2>2. \A i \in 1 .. Len(wq') : wq'[i].id \in {wq[j].id : j \in 1 .. Len(wq)}
    BY <1>1, <1>2
  <2>3. wq[1].id \in {wq[j].id : j \in 1 .. Len(wq)}
    BY <1>3
  <2> QED BY <2>1, <2>2, <2>3
<1>5. PICK e : e.id = wq[1].id /\ done' = done \cup {e}
  OBVIOUS
<1>6. WriteReqsOwned'
  <2>1. {d.id : d \in done'} = {d.id : d \in done} \cup {wq[1].id}
    BY <1>5
  <2>2. live = {wq[i].id : i \in 1 .. Len(wq)} \cup {d.id : d \in done}
    BY DEF OwnedInv, WriteReqsOwned
  <2>3. live' = {wq'[i].id : i \in 1 .. Len(wq')} \cup {d.id : d \in done'}
    BY <1>4, <2>1, <2>2
  <2> QED BY <2>3, Zenon DEF WriteReqsOwned
<1>7. /\ \A i \in 1 .. Len(wq') : wq'[i].id \in 1 .. Len(answers')
      /\ \A i, j \in 1 .. Len(wq') : wq'[i].id = wq'[j].id => i = j
      /\ \A i \in 1 .. Len(wq') : wq'[i].id # wq[1].id
      /\ \A i \in 1 .. Len(wq') : \A d \in done : d.id # wq'[i].id
  BY <1>1, <1>2, <1>3 DEF OwnedInv
<1>8. \A d \in done : d.id # wq[1].id
  BY <1>3 DEF OwnedInv
<1> QED BY <1>3, <1>5, <1>6, <1>7, <1>8 DEF OwnedInv

LEMMA OwnedStep == TypeOK /\ OwnedInv /\ [Next]_vars => OwnedInv'
<1> SUFFICES ASSUME TypeOK, OwnedInv, [Next]_vars PROVE OwnedInv'
  OBVIOUS
<1>1. CASE HandleRequest
  BY <1>1, HandleRequestSends, OwnedSending
<1>2. CASE SendError
  BY <1>2, SendErrorSends, OwnedSending
<1>3. CASE OnWrite
  <2>1. PICK d \in done : done' = done \ {d} /\ live' = live \ {d.id}
    BY <1>3, Zenon DEF OnWrite
  <2>2. UNCHANGED <<wq, answers>>
    BY <1>3 DEF OnWrite, history
  <2>3. WriteReqsOwned'
    BY <2>1, <2>2 DEF OwnedInv, WriteReqsOwned
  <2> QED BY <2>1, <2>2, <2>3 DEF OwnedInv
<1>4. CASE Drain
  <2>1. wq # <<>> /\ UNCHANGED <<live, answers>>
    BY <1>4, Zenon DEF Drain
  <2>2. CASE wq[1].left <= Room
    <3>1. wq' = Tail(wq) /\ done' = done \cup {[id |-> wq[1].id, ok |-> TRUE]}
      BY <1>4, <2>2, Zenon DEF Drain
    <3> QED BY <2>1, <3>1, OwnedMoves
  <2>3. CASE ~(wq[1].left <= Room)
    <3>1. wq' = [wq EXCEPT ![1].left = @ - Room] /\ UNCHANGED done
      BY <1>4, <2>3, Zenon DEF Drain
    <3>2. wq \in Seq(WriteEntry) /\ Len(wq) \in Nat \ {0}
      BY <2>1, TailFacts DEF TypeOK, WriteEntry
    <3>3. Len(wq') = Len(wq) /\ \A i \in 1 .. Len(wq) : wq'[i].id = wq[i].id
      BY <3>1, <3>2 DEF WriteEntry
    <3>4. WriteReqsOwned'
      BY <2>1, <3>1, <3>3 DEF OwnedInv, WriteReqsOwned
    <3> QED BY <2>1, <3>1, <3>3, <3>4 DEF OwnedInv
  <2> QED BY <2>2, <2>3
<1>5. CASE FailHead
  <2>1. /\ wq # <<>> /\ wq' = Tail(wq) /\ live' = live
        /\ done' = done \cup {[id |-> wq[1].id, ok |-> FALSE]}
        /\ UNCHANGED history
    BY <1>5, Zenon DEF FailHead
  <2>2. answers' = answers
    BY <2>1 DEF history
  <2> QED BY <2>1, <2>2, OwnedMoves
<1>6. CASE ~Writing
  <2>1. UNCHANGED <<wq, done, live, answers>>
    BY <1>6, NotWriting
  <2> QED BY <2>1 DEF OwnedInv, WriteReqsOwned
<1> QED BY <1>1, <1>2, <1>3, <1>4, <1>5, <1>6, Zenon DEF Writing

-------------------------------------------------------------------------------
(* QueueInv: the queue continues what the kernel was given.                  *)

LEMMA QueueSending ==
    ASSUME TypeOK, ServerInv, QueueInv, NEW by \in {"route", "error"},
           NEW close \in BOOLEAN, Sending(by, close)
    PROVE  QueueInv'
<1>0. /\ NextId \in Nat /\ Len(answers') = NextId /\ Len(answers) \in Nat
      /\ wq \in Seq(WriteEntry) /\ Len(wq) \in Nat
      /\ delivered \in Seq(Nat) /\ Len(delivered) \in Nat
      /\ peer' = peer
  <2>1. answers \in Seq(Answer) /\ [by |-> by, close |-> close] \in Answer
    BY DEF TypeOK, Answer
  <2>2. answers' = Append(answers, [by |-> by, close |-> close]) /\ peer' = peer
    BY DEF Sending
  <2> QED BY <2>1, <2>2, AppendFacts DEF TypeOK, NextId, WriteEntry
<1>1. CASE Refused
  <2>1. delivered' = delivered
    BY <1>1 DEF Refused
  <2>2. handle' # "open"
    BY <1>1 DEF Refused, CloseConn, server, ServerInv, ClosedOnce
  <2> QED BY <1>0, <2>1, <2>2 DEF QueueInv, InOrder, NextId
<1>2. CASE Queued
  <2>1. PICK l \in Nat \ {0} : wq' = Append(wq, [id |-> NextId, left |-> l])
    BY <1>2, Zenon DEF Queued
  <2>2. /\ Len(wq') = Len(wq) + 1
        /\ \A i \in 1 .. Len(wq) : wq'[i] = wq[i]
        /\ wq'[Len(wq) + 1].id = NextId
    <3>1. [id |-> NextId, left |-> l] \in WriteEntry
      BY <1>0 DEF WriteEntry
    <3> QED BY <1>0, <2>1, <3>1, AppendFacts
  <2>3. delivered' = delivered /\ handle' = handle
    BY <1>2 DEF Queued, server
  <2>4. ASSUME handle' = "open", peer' # "reset"
        PROVE  /\ Len(answers') = Len(delivered') + Len(wq')
               /\ \A i \in 1 .. Len(wq') : wq'[i].id = Len(delivered') + i
    <3>1. /\ Len(answers) = Len(delivered) + Len(wq)
          /\ \A i \in 1 .. Len(wq) : wq[i].id = Len(delivered) + i
      BY <1>0, <2>3, <2>4 DEF QueueInv
    <3>2. \A i \in 1 .. Len(wq') : i \in 1 .. Len(wq) \/ i = Len(wq) + 1
      BY <1>0, <2>2
    <3>3. Len(answers') = Len(delivered') + Len(wq')
      BY <1>0, <2>2, <2>3, <3>1 DEF NextId
    <3>4. ASSUME NEW i \in 1 .. Len(wq)
          PROVE  wq'[i].id = Len(delivered') + i
      BY <2>2, <2>3, <3>1
    <3>5. wq'[Len(wq) + 1].id = Len(delivered') + (Len(wq) + 1)
      BY <1>0, <2>2, <2>3, <3>1 DEF NextId
    <3> QED BY <3>2, <3>3, <3>4, <3>5
  <2>5. InOrder' /\ Len(delivered') <= Len(answers')
    BY <1>0, <2>3 DEF QueueInv, InOrder, NextId
  <2> QED BY <2>4, <2>5 DEF QueueInv
<1>3. CASE Failed
  <2>1. delivered' = delivered /\ peer = "reset"
    BY <1>3 DEF Failed
  <2> QED BY <1>0, <2>1 DEF QueueInv, InOrder, NextId
<1>4. CASE Written
  <2>1. /\ delivered' = Append(delivered, NextId) /\ wq = <<>> /\ wq' = wq
        /\ handle = "open" /\ peer # "reset"
    BY <1>4 DEF Written
  <2>2. Len(delivered) = Len(answers)
    BY <1>0, <2>1 DEF QueueInv
  <2>3. /\ Len(delivered') = Len(delivered) + 1
        /\ \A i \in 1 .. Len(delivered) : delivered'[i] = delivered[i]
        /\ delivered'[Len(delivered) + 1] = NextId
    BY <1>0, <2>1, AppendFacts
  <2>4. \A i \in 1 .. Len(delivered') : delivered'[i] = i
    BY <1>0, <2>2, <2>3 DEF QueueInv, InOrder, NextId
  <2> QED BY <1>0, <2>1, <2>2, <2>3, <2>4 DEF QueueInv, InOrder, NextId
<1> QED BY <1>1, <1>2, <1>3, <1>4, Zenon DEF Sending

LEMMA QueueStep == TypeOK /\ ServerInv /\ QueueInv /\ [Next]_vars => QueueInv'
<1> SUFFICES ASSUME TypeOK, ServerInv, QueueInv, [Next]_vars PROVE QueueInv'
  OBVIOUS
<1>1. CASE HandleRequest
  <2>1. (Head(input) = "close") \in BOOLEAN
    OBVIOUS
  <2> QED BY <1>1, <2>1, HandleRequestSends, QueueSending
<1>2. CASE SendError
  BY <1>2, SendErrorSends, QueueSending
<1>3. CASE OnWrite
  <2>1. UNCHANGED <<wq, answers, delivered, peer>>
    BY <1>3 DEF OnWrite, history, network
  <2>2. handle' = handle \/ handle' # "open"
    BY <1>3 DEF OnWrite, CloseConn, server
  <2> QED BY <2>1, <2>2 DEF QueueInv, InOrder
<1>4. CASE Drain
  <2>1. /\ wq # <<>> /\ handle = "open" /\ peer # "reset"
        /\ UNCHANGED <<server, answers, peer>>
    BY <1>4, Zenon DEF Drain
  <2>2. /\ wq \in Seq(WriteEntry) /\ Len(wq) \in Nat \ {0} /\ wq[1] \in WriteEntry
        /\ delivered \in Seq(Nat) /\ Len(delivered) \in Nat /\ Len(answers) \in Nat
    <3>1. wq \in Seq(WriteEntry) /\ delivered \in Seq(Nat) /\ answers \in Seq(Answer)
      BY Zenon DEF TypeOK, WriteEntry
    <3>2. Len(delivered) \in Nat /\ Len(answers) \in Nat
      BY <3>1, LenProperties
    <3> QED BY <2>1, <3>1, <3>2, TailFacts
  <2>7. Len(answers) = Len(delivered) + Len(wq) /\ handle' = handle
    BY <2>1 DEF QueueInv, server
  <2>3. CASE wq[1].left <= Room
    <3>1. wq' = Tail(wq) /\ delivered' = Append(delivered, wq[1].id)
      BY <1>4, <2>3, Zenon DEF Drain
    <3>2. wq[1].id = Len(delivered) + 1
      BY <2>1, <2>2 DEF QueueInv
    <3>3. /\ Len(wq') = Len(wq) - 1
          /\ \A i \in 1 .. Len(wq') : wq'[i] = wq[i + 1]
      BY <2>1, <2>2, <3>1, TailFacts
    <3>4. /\ Len(delivered') = Len(delivered) + 1
          /\ \A i \in 1 .. Len(delivered) : delivered'[i] = delivered[i]
          /\ delivered'[Len(delivered) + 1] = Len(delivered) + 1
      BY <2>2, <3>1, <3>2, AppendFacts
    <3>5. \A i \in 1 .. Len(delivered') : delivered'[i] = i
      BY <2>2, <3>4 DEF QueueInv, InOrder
    <3>6. \A i \in 1 .. Len(wq') : wq'[i].id = Len(delivered') + i
      <4>1. \A i \in 1 .. Len(wq) : wq[i].id = Len(delivered) + i
        BY <2>1 DEF QueueInv
      <4>2. \A i \in 1 .. Len(wq') : i + 1 \in 1 .. Len(wq)
        BY <2>2, <3>3
      <4> TAKE i \in 1 .. Len(wq')
      <4>3. wq'[i] = wq[i + 1] /\ wq[i + 1].id = Len(delivered) + (i + 1)
        BY <3>3, <4>1, <4>2
      <4> QED BY <2>2, <3>4, <4>3
    <3> QED BY <2>1, <2>2, <2>7, <3>3, <3>4, <3>5, <3>6 DEF QueueInv, InOrder
  <2>4. CASE ~(wq[1].left <= Room)
    <3>1. wq' = [wq EXCEPT ![1].left = @ - Room] /\ delivered' = delivered
      BY <1>4, <2>4, Zenon DEF Drain
    <3>2. Len(wq') = Len(wq) /\ \A i \in 1 .. Len(wq) : wq'[i].id = wq[i].id
      BY <2>2, <3>1 DEF WriteEntry
    <3> QED BY <2>1, <2>2, <2>7, <3>1, <3>2 DEF QueueInv, InOrder
  <2> QED BY <2>3, <2>4
<1>5. CASE FailHead
  <2>1. UNCHANGED <<answers, delivered, peer, handle>>
    BY <1>5 DEF FailHead, history, network, server
  <2>2. ~(handle = "open" /\ peer # "reset")
    BY <1>5 DEF FailHead
  <2> QED BY <2>1, <2>2 DEF QueueInv, InOrder
<1>6. CASE ~Writing
  <2>1. UNCHANGED <<wq, answers, delivered>>
    BY <1>6, NotWriting
  <2>2. CASE OnConnection
    <3>1. handle = "none" /\ answers = <<>> /\ delivered = <<>> /\ wq = <<>>
      BY <2>2 DEF OnConnection, ServerInv
    <3> QED BY <2>1, <3>1 DEF QueueInv, InOrder
  <2>3. CASE ~OnConnection
    <3>1. /\ handle' = "open" => handle = "open"
          /\ peer' # "reset" => peer # "reset"
      <4> USE DEF server, network
      <4>1. CASE AcceptFails \/ OnReadEnd \/ OnStop
        BY <4>1 DEF AcceptFails, OnReadEnd, OnStop, CloseConn
      <4>2. CASE OnReadData \/ HandlerThrows \/ ParseError
        BY <4>2 DEF OnReadData, HandlerThrows, ParseError
      <4>3. CASE OnReadReturns
        BY <4>3 DEF OnReadReturns, CloseConn
      <4>4. CASE OnConnClosed
        BY <4>4 DEF OnConnClosed
      <4>5. CASE PeerReads \/ PeerShutsDown \/ PeerResets
        BY <4>5 DEF PeerReads, PeerShutsDown, PeerResets
      <4>6. CASE UNCHANGED vars
        BY <4>6 DEF vars
      <4> QED BY <1>6, <2>3, <4>1, <4>2, <4>3, <4>4, <4>5, <4>6, Zenon
              DEF Writing, Next, Callbacks, OnRead, Transport, Gone
    <3> QED BY <2>1, <3>1 DEF QueueInv, InOrder
  <2> QED BY <2>2, <2>3
<1> QED BY <1>1, <1>2, <1>3, <1>4, <1>5, <1>6, Zenon DEF Writing

-------------------------------------------------------------------------------
(* ServerInv: the handle is closed once, and freed last.                     *)

LEMMA CloseConnEffect ==
    ASSUME TypeOK, ServerInv, NEW why, CloseConn(why)
    PROVE  /\ ClosedOnce' /\ closing'
           /\ handle' = handle \/ handle' = "closing"
           /\ handle' = "closing" \/ handle' = "closed"
           /\ cause' = cause \/ (~closing /\ cause' = why)
<1>1. CASE closing /\ UNCHANGED server
  <2>1. UNCHANGED <<handle, closing, closeCalls, cause>>
    BY <1>1 DEF server
  <2>2. ClosedOnce
    BY DEF ServerInv
  <2>3. closeCalls' = (IF closing' THEN 1 ELSE 0)
    BY <2>1, <2>2 DEF ClosedOnce
  <2>4. closing' <=> handle' \in {"closing", "closed"}
    BY <2>1, <2>2, Zenon DEF ClosedOnce
  <2>5. handle \in {"closing", "closed"}
    BY <1>1, <2>2, Zenon DEF ClosedOnce
  <2> QED BY <1>1, <2>1, <2>3, <2>4, <2>5, Zenon DEF ClosedOnce
<1>2. CASE /\ ~closing /\ closing' = TRUE /\ handle' = "closing"
           /\ closeCalls' = closeCalls + 1 /\ cause' = why
  <2>1. closeCalls = 0
    BY <1>2 DEF ServerInv, ClosedOnce
  <2>2. closeCalls' = 1
    BY <1>2, <2>1
  <2>3. closeCalls' = (IF closing' THEN 1 ELSE 0)
    BY <1>2, <2>2
  <2>4. handle' \in {"closing", "closed"}
    BY <1>2
  <2>5. ClosedOnce'
    BY <1>2, <2>3, <2>4, Zenon DEF ClosedOnce
  <2> QED BY <1>2, <2>5, Zenon
<1> QED BY <1>1, <1>2, Zenon DEF CloseConn

(* Nothing of the server's side changes, or closeConn() is called: what      *)
(* remains to be shown is about the rest of the state.                       *)
LEMMA ServerUnchanged ==
    ASSUME ServerInv, UNCHANGED server
    PROVE  /\ ClosedOnce' /\ (~closing' => cause' = "none")
           /\ UNCHANGED <<handle, closing, cause>>
<1>1. UNCHANGED <<handle, closing, closeCalls, cause>>
  BY DEF server
<1>2. ClosedOnce
  BY DEF ServerInv
<1>3. ClosedOnce'
  BY <1>1, <1>2, Zenon DEF ClosedOnce
<1> QED BY <1>1, <1>3, Zenon DEF ServerInv

LEMMA ServerSending ==
    ASSUME TypeOK, ServerInv, NEW by, NEW close, Sending(by, close)
    PROVE  ServerInv'
<1>1. reading /\ reading' /\ handle \in {"open", "closing"} /\ cause # "answer"
  BY Zenon DEF Sending, ServerInv
<1>2. CASE Refused
  <2>1. CloseConn("write")
    BY <1>2, Zenon DEF Refused
  <2>2. /\ ClosedOnce' /\ closing' /\ cause' # "answer"
        /\ handle' = "closing"
    BY <1>1, <2>1, CloseConnEffect
  <2> QED BY <1>1, <2>2 DEF ServerInv
<1>3. CASE UNCHANGED server
  <2>1. /\ ClosedOnce' /\ (~closing' => cause' = "none")
        /\ UNCHANGED <<handle, cause>>
    BY <1>3, ServerUnchanged
  <2> QED BY <1>1, <2>1 DEF ServerInv
<1> QED BY <1>2, <1>3, Zenon DEF Sending, Queued, Failed, Written

LEMMA ServerStep == TypeOK /\ ServerInv /\ [Next]_vars => ServerInv'
<1> SUFFICES ASSUME TypeOK, ServerInv, [Next]_vars PROVE ServerInv'
  OBVIOUS
<1>0. \A why : CloseConn(why) =>
         /\ ClosedOnce' /\ closing'
         /\ handle' = handle \/ handle' = "closing"
         /\ handle' = "closing" \/ handle' = "closed"
         /\ cause' = cause \/ (~closing /\ cause' = why)
  BY CloseConnEffect
<1>1. CASE HandleRequest
  BY <1>1, HandleRequestSends, ServerSending
<1>2. CASE SendError
  BY <1>2, SendErrorSends, ServerSending
<1>3. CASE OnWrite
  <2>1. done # {} /\ ~reading /\ UNCHANGED <<reading, wq>>
    BY <1>3 DEF OnWrite, parse
  <2>2. CASE UNCHANGED server
    <3>1. /\ ClosedOnce' /\ (~closing' => cause' = "none") /\ handle' = handle
      BY <2>2, ServerUnchanged
    <3> QED BY <2>1, <3>1 DEF ServerInv
  <2>3. CASE CloseConn("write")
    <3>1. ClosedOnce' /\ closing' /\ handle' # "none"
          /\ (handle' = "closed" => handle = "closed")
      BY <1>0, <2>3
    <3> QED BY <2>1, <3>1 DEF ServerInv
  <2> QED BY <1>3, <2>2, <2>3, Zenon DEF OnWrite
<1>4. CASE Drain \/ FailHead
  <2>1. /\ ~reading /\ UNCHANGED <<server, parse>> /\ handle # "closed" /\ wq # <<>>
    BY <1>4 DEF Drain, FailHead
  <2>2. ~reading'
    BY <2>1 DEF parse
  <2>3. /\ ClosedOnce' /\ (~closing' => cause' = "none") /\ handle' = handle
    BY <2>1, ServerUnchanged
  <2> QED BY <2>1, <2>2, <2>3 DEF ServerInv
<1>5. CASE ~Writing
  <2>1. UNCHANGED <<wq, done, answers, delivered>>
    BY <1>5, NotWriting
  <2>2. CASE OnConnection
    <3>1. /\ handle = "none" /\ handle' = "open"
          /\ UNCHANGED <<closing, closeCalls, cause, reading>>
      BY <2>2 DEF OnConnection, parse
    <3>2. ClosedOnce /\ (~closing => cause = "none") /\ ~reading
      BY <3>1, Zenon DEF ServerInv
    <3>3. ~closing
      BY <3>1, <3>2, Zenon DEF ClosedOnce
    <3>4. handle' \notin {"closing", "closed"} /\ handle' # "none"
      BY <3>1
    <3>5. ClosedOnce'
      BY <3>1, <3>2, <3>3, <3>4, Zenon DEF ClosedOnce
    <3> QED BY <3>1, <3>2, <3>4, <3>5, Zenon DEF ServerInv
  <2>3. CASE AcceptFails \/ OnReadEnd \/ OnStop
    <3>1. /\ handle # "closed" /\ ~reading /\ ~reading'
          /\ CloseConn("accept") \/ CloseConn("peer") \/ CloseConn("stop")
      BY <2>3 DEF AcceptFails, OnReadEnd, OnStop, ServerInv, parse
    <3>2. ClosedOnce' /\ closing' /\ handle' = "closing"
      BY <1>0, <3>1
    <3> QED BY <3>1, <3>2, Zenon DEF ServerInv
  <2>4. CASE OnReadData
    <3>1. handle = "open" /\ UNCHANGED server /\ UNCHANGED parsed
      BY <2>4 DEF OnReadData, history
    <3>2. /\ ClosedOnce' /\ (~closing' => cause' = "none")
          /\ UNCHANGED <<handle, closing, cause>>
      BY <3>1, ServerUnchanged
    <3>3. cause = "none"
      BY <3>1 DEF ServerInv, ClosedOnce
    <3> QED BY <2>1, <3>1, <3>2, <3>3 DEF ServerInv
  <2>5. CASE HandlerThrows \/ ParseError
    <3>1. reading /\ reading' = reading /\ UNCHANGED server
      BY <2>5 DEF HandlerThrows, ParseError, Parsing
    <3>2. /\ ClosedOnce' /\ (~closing' => cause' = "none")
          /\ UNCHANGED <<handle, closing, cause>>
      BY <3>1, ServerUnchanged
    <3> QED BY <2>1, <3>1, <3>2 DEF ServerInv
  <2>6. CASE OnReadReturns
    <3>1. reading /\ ~reading' /\ handle # "closed" /\ handle # "none"
      BY <2>6 DEF OnReadReturns, ServerInv
    <3>2. CASE UNCHANGED server
      <4>1. /\ ClosedOnce' /\ (~closing' => cause' = "none") /\ handle' = handle
        BY <3>2, ServerUnchanged
      <4> QED BY <3>1, <4>1, Zenon DEF ServerInv
    <3>3. CASE CloseConn("answer")
      <4>1. ClosedOnce' /\ closing' /\ handle' = "closing"
        BY <1>0, <3>1, <3>3
      <4> QED BY <3>1, <4>1, Zenon DEF ServerInv
    <3> QED BY <2>6, <3>2, <3>3, Zenon DEF OnReadReturns
  <2>7. CASE OnConnClosed
    <3>1. /\ handle = "closing" /\ handle' = "closed" /\ ~reading /\ wq = <<>>
          /\ done = {} /\ UNCHANGED <<closing, closeCalls, cause, reading>>
      BY <2>7 DEF OnConnClosed, parse
    <3>2. handle \in {"closing", "closed"} /\ handle' \in {"closing", "closed"}
          /\ handle' # "none"
      BY <3>1
    <3>3. ClosedOnce'
      BY <3>1, <3>2, Zenon DEF ClosedOnce, ServerInv
    <3> QED BY <2>1, <3>1, <3>2, <3>3, Zenon DEF ServerInv
  <2>8. CASE UNCHANGED <<server, reading, parsed>>
    <3>1. /\ ClosedOnce' /\ (~closing' => cause' = "none")
          /\ UNCHANGED <<handle, closing, cause, reading, parsed>>
      BY <2>8, ServerUnchanged
    <3> QED BY <2>1, <3>1 DEF ServerInv
  <2>9. CASE PeerReads \/ PeerShutsDown \/ PeerResets \/ UNCHANGED vars
    BY <2>8, <2>9 DEF PeerReads, PeerShutsDown, PeerResets, vars, parse, history
  <2> QED BY <1>5, <2>2, <2>3, <2>4, <2>5, <2>6, <2>7, <2>9, Zenon
          DEF Writing, Next, Callbacks, OnRead, Transport, Gone
<1> QED BY <1>1, <1>2, <1>3, <1>4, <1>5, Zenon DEF Writing

-------------------------------------------------------------------------------
(* ReadInv and LastWord: what onRead() knows of the last answer.             *)

LEMMA NextAnswer ==
    ASSUME answers \in Seq(Answer), NEW a \in Answer, answers' = Append(answers, a)
    PROVE  /\ Announced' <=> a.close
           /\ AllRoutes /\ a.by = "route" => AllRoutes'
           /\ AllRoutes /\ LastWord /\ (Announced => a.by = "error") => LastWord'
<1>1. /\ Len(answers) \in Nat /\ Len(answers') = Len(answers) + 1
      /\ \A i \in 1 .. Len(answers) : answers'[i] = answers[i]
      /\ answers'[Len(answers) + 1] = a /\ answers' # <<>>
  BY AppendFacts, LenProperties
<1>2. \A i \in 1 .. Len(answers') : i \in 1 .. Len(answers) \/ i = Len(answers) + 1
  BY <1>1
<1>3. Announced' <=> a.close
  BY <1>1 DEF Announced
<1>4. AllRoutes /\ a.by = "route" => AllRoutes'
  BY <1>1, <1>2 DEF AllRoutes
<1>5. ASSUME AllRoutes, LastWord, Announced => a.by = "error"
      PROVE  LastWord'
  <2> SUFFICES ASSUME NEW i \in 1 .. Len(answers') - 1
               PROVE  /\ answers'[i].by = "route"
                      /\ answers'[i].close =>
                             i + 1 = Len(answers') /\ answers'[i + 1].by = "error"
    BY DEF LastWord
  <2>1. i \in 1 .. Len(answers) /\ answers'[i] = answers[i]
    BY <1>1
  <2>2. answers[i].by = "route"
    BY <1>5, <2>1 DEF AllRoutes
  <2>3. CASE i = Len(answers)
    <3>1. answers # <<>> /\ i + 1 = Len(answers')
      BY <1>1, <2>1, <2>3
    <3>2. answers[i].close => a.by = "error"
      BY <1>5, <2>3, <3>1 DEF Announced
    <3> QED BY <1>1, <2>1, <2>2, <2>3, <3>1, <3>2
  <2>4. CASE i # Len(answers)
    <3>1. i \in 1 .. Len(answers) - 1 /\ i + 1 \in 1 .. Len(answers)
      BY <1>1, <2>1, <2>4
    <3>2. answers[i + 1].by = "route" /\ (answers[i].close => answers[i + 1].by = "error")
      BY <1>5, <3>1 DEF AllRoutes, LastWord
    <3> QED BY <2>1, <2>2, <3>2
  <2> QED BY <2>3, <2>4
<1> QED BY <1>3, <1>4, <1>5

LEMMA ReadStep ==
    TypeOK /\ ServerInv /\ ReadInv /\ LastWord /\ [Next]_vars => ReadInv' /\ LastWord'
<1> SUFFICES ASSUME TypeOK, ServerInv, ReadInv, LastWord, [Next]_vars
             PROVE  ReadInv' /\ LastWord'
  OBVIOUS
<1>0. \A why : CloseConn(why) =>
         closing' /\ (cause' = cause \/ (~closing /\ cause' = why))
  BY CloseConnEffect
<1>1. answers \in Seq(Answer)
  BY Zenon DEF TypeOK
<1>2. \A by, close : Sending(by, close) =>
         reading /\ reading' /\ cause # "answer" /\ cause' # "answer"
  <2>1. \A by, close : Sending(by, close) => ServerInv' /\ reading /\ reading'
    BY ServerSending, Zenon DEF Sending
  <2> QED BY <2>1, Zenon DEF ServerInv
<1>3. CASE HandleRequest
  <2> DEFINE last == Head(input) = "close"
             a == [by |-> "route", close |-> last]
  <2>1. /\ reading /\ failure = "none" /\ ~shouldClose /\ shouldClose' = last
        /\ replied' = replied
    BY <1>3 DEF HandleRequest, Parsing, AfterClose
  <2>2. Sending("route", last) /\ answers' = Append(answers, a)
    BY <1>3, HandleRequestSends, Zenon DEF Sending
  <2>3. a \in Answer /\ a.close = last /\ a.by = "route"
    BY DEF Answer
  <2>4. ~replied /\ ~Announced /\ AllRoutes
    BY <2>1, Zenon DEF ReadInv
  <2>5. (Announced' <=> last) /\ AllRoutes' /\ LastWord'
    BY <1>1, <2>2, <2>3, <2>4, NextAnswer
  <2>6. reading' /\ cause' # "answer"
    BY <1>2, <2>2
  <2> QED BY <2>1, <2>4, <2>5, <2>6, Zenon DEF ReadInv
<1>4. CASE SendError
  <2> DEFINE a == [by |-> "error", close |-> TRUE]
  <2>1. /\ reading /\ failure # "none" /\ ~replied /\ shouldClose' = TRUE
        /\ replied' = TRUE /\ failure' = failure
    BY <1>4, Zenon DEF SendError
  <2>2. Sending("error", TRUE) /\ answers' = Append(answers, a)
    BY <1>4, SendErrorSends, Zenon DEF Sending
  <2>3. a \in Answer /\ a.close = TRUE /\ a.by = "error"
    BY DEF Answer
  <2>4. AllRoutes
    BY <2>1, Zenon DEF ReadInv
  <2>5. Announced' /\ LastWord'
    BY <1>1, <2>2, <2>3, <2>4, NextAnswer
  <2>6. reading' /\ cause' # "answer"
    BY <1>2, <2>2
  <2> QED BY <2>1, <2>5, <2>6, Zenon DEF ReadInv
<1>5. CASE UNCHANGED answers
  <2>1. (Announced' <=> Announced) /\ (AllRoutes' <=> AllRoutes) /\ LastWord'
    BY <1>5 DEF Announced, AllRoutes, LastWord
  <2>2. CASE OnReadData
    <3>1. /\ handle = "open" /\ ~reading /\ reading' = TRUE /\ shouldClose' = FALSE
          /\ replied' = FALSE /\ UNCHANGED server
      BY <2>2, Zenon DEF OnReadData
    <3>2. ~closing /\ cause' = cause
      BY <3>1 DEF ServerInv, ClosedOnce, server
    <3>3. ~Announced /\ AllRoutes
      BY <3>1, <3>2, Zenon DEF ReadInv
    <3> QED BY <2>1, <3>1, <3>2, <3>3, Zenon DEF ReadInv
  <2>3. CASE HandlerThrows \/ ParseError
    <3>1. /\ reading /\ UNCHANGED <<server, reading, shouldClose, replied>>
          /\ failure = "none"
      BY <2>3 DEF HandlerThrows, ParseError, Parsing
    <3>2. UNCHANGED <<closing, cause>>
      BY <3>1 DEF server
    <3> QED BY <2>1, <3>1, <3>2 DEF ReadInv
  <2>4. CASE OnReadReturns
    <3>1. /\ reading /\ reading' = FALSE /\ replied' = FALSE /\ failure' = failure
          /\ (failure = "none" \/ replied)
      BY <2>4, Zenon DEF OnReadReturns
    <3>2. cause # "answer"
      BY <3>1, Zenon DEF ServerInv
    <3>3. CASE shouldClose
      <4>1. CloseConn("answer")
        BY <2>4, <3>3, Zenon DEF OnReadReturns
      <4> QED BY <1>0, <2>1, <3>1, <3>3, <4>1, Zenon DEF ReadInv
    <3>4. CASE ~shouldClose
      <4>1. UNCHANGED <<closing, cause>>
        BY <2>4, <3>4 DEF OnReadReturns, server
      <4> QED BY <2>1, <3>1, <3>2, <3>4, <4>1, Zenon DEF ReadInv
    <3> QED BY <3>3, <3>4
  <2>5. CASE /\ UNCHANGED parse
             /\ UNCHANGED server \/ \E why \in {"accept", "peer", "write", "stop"} :
                                        CloseConn(why)
    <3>1. UNCHANGED <<reading, shouldClose, replied, failure>>
      BY <2>5 DEF parse
    <3>2. (~closing' => ~closing) /\ (cause' = "answer" => cause = "answer")
      <4>1. CASE UNCHANGED server
        BY <4>1 DEF server
      <4>2. CASE \E why \in {"accept", "peer", "write", "stop"} : CloseConn(why)
        BY <1>0, <4>2
      <4> QED BY <2>5, <4>1, <4>2
    <3> QED BY <2>1, <3>1, <3>2, Zenon DEF ReadInv
  <2>6. CASE AcceptFails \/ OnReadEnd \/ OnStop
    BY <2>5, <2>6 DEF AcceptFails, OnReadEnd, OnStop
  <2>7. CASE OnWrite
    <3>1. UNCHANGED parse /\ (UNCHANGED server \/ CloseConn("write"))
      BY <2>7, Zenon DEF OnWrite
    <3> QED BY <2>5, <3>1
  <2>8. CASE OnConnection \/ OnConnClosed
    <3>1. UNCHANGED <<closing, cause>> /\ UNCHANGED parse
      BY <2>8 DEF OnConnection, OnConnClosed
    <3>2. UNCHANGED <<reading, shouldClose, replied, failure>>
      BY <3>1 DEF parse
    <3> QED BY <2>1, <3>1, <3>2, Zenon DEF ReadInv
  <2>9. CASE Drain \/ FailHead \/ PeerReads \/ PeerShutsDown \/ PeerResets
             \/ UNCHANGED vars
    BY <2>5, <2>9 DEF Drain, FailHead, PeerReads, PeerShutsDown, PeerResets, vars
  <2> QED BY <1>3, <1>4, <2>2, <2>3, <2>4, <2>6, <2>7, <2>8, <2>9, Zenon
          DEF Next, Callbacks, OnRead, Transport, Gone
<1>6. UNCHANGED answers \/ HandleRequest \/ SendError
  BY NotWriting DEF Writing, OnWrite, Drain, FailHead, history
<1> QED BY <1>3, <1>4, <1>5, <1>6

-------------------------------------------------------------------------------
(* CountInv: every message is answered.                                      *)

LEMMA CountStep ==
    TypeOK /\ ServerInv /\ ReadInv /\ CountInv /\ [Next]_vars => CountInv'
<1> SUFFICES ASSUME TypeOK, ServerInv, ReadInv, CountInv, [Next]_vars
             PROVE  CountInv'
  OBVIOUS
<1>0. parsed \in Nat /\ answers \in Seq(Answer) /\ Len(answers) \in Nat
  BY LenProperties DEF TypeOK
<1>1. \A a \in Answer : answers' = Append(answers, a) => Len(answers') = Len(answers) + 1
  BY <1>0, AppendFacts
<1>2. CASE HandleRequest
  <2>1. /\ reading /\ reading' = reading /\ failure = "none" /\ replied' = replied
        /\ failure' = "upgrade" \/ failure' = "none"
        /\ parsed' = parsed + 1
    BY <1>2 DEF HandleRequest, Parsing, Take
  <2>2. ~replied
    BY <2>1, Zenon DEF ReadInv
  <2>3. Len(answers') = Len(answers) + 1
    <3>1. PICK close \in BOOLEAN : answers' = Append(answers, [by |-> "route", close |-> close])
      BY <1>2, HandleRequestSends DEF Sending
    <3>2. [by |-> "route", close |-> close] \in Answer
      BY DEF Answer
    <3> QED BY <1>1, <3>1, <3>2
  <2> QED BY <1>0, <2>1, <2>2, <2>3 DEF CountInv
<1>3. CASE SendError
  <2>1. /\ reading /\ failure # "none" /\ ~replied /\ replied'
        /\ reading' = reading /\ failure' = failure /\ parsed' = parsed
    BY <1>3 DEF SendError
  <2>2. Len(answers') = Len(answers) + 1
    <3>1. answers' = Append(answers, [by |-> "error", close |-> TRUE])
      BY <1>3, SendErrorSends, Zenon DEF Sending
    <3>2. [by |-> "error", close |-> TRUE] \in Answer
      BY DEF Answer
    <3> QED BY <1>1, <3>1, <3>2
  <2> QED BY <1>0, <2>1, <2>2 DEF CountInv
<1>4. CASE HandlerThrows \/ ParseError
  <2>1. /\ reading /\ reading' = reading /\ replied' = replied /\ failure = "none"
        /\ failure' \in Rejected \cup {"throws", "afterclose"}
        /\ parsed' = parsed + 1 /\ answers' = answers
    BY <1>4 DEF HandlerThrows, ParseError, Parsing, Take
  <2>2. ~replied
    BY <2>1, Zenon DEF ReadInv
  <2>3. failure' # "upgrade" /\ failure' # "none"
    BY <2>1 DEF Rejected
  <2> QED BY <1>0, <2>1, <2>2, <2>3 DEF CountInv
<1>5. CASE OnReadData
  <2>1. /\ handle = "open" /\ ~reading /\ failure' = "none" /\ UNCHANGED <<answers, parsed>>
    BY <1>5 DEF OnReadData, history
  <2>2. failure = "none"
    <3>1. ~closing
      BY <2>1 DEF ServerInv, ClosedOnce
    <3> QED BY <2>1, <3>1, Zenon DEF ReadInv
  <2> QED BY <2>1, <2>2 DEF CountInv
<1>6. CASE OnReadReturns
  <2>1. /\ reading /\ (failure = "none" \/ replied) /\ ~reading' /\ failure' = failure
        /\ UNCHANGED <<answers, parsed>>
    BY <1>6 DEF OnReadReturns, history
  <2> QED BY <1>0, <2>1 DEF CountInv
<1>7. CASE UNCHANGED <<reading, failure, replied, answers, parsed>>
  BY <1>7 DEF CountInv
<1>8. CASE OnConnection \/ AcceptFails \/ OnReadEnd \/ OnWrite \/ OnConnClosed \/ OnStop
           \/ Drain \/ FailHead \/ PeerReads \/ PeerShutsDown \/ PeerResets
           \/ UNCHANGED vars
  BY <1>7, <1>8 DEF OnConnection, AcceptFails, OnReadEnd, OnWrite, OnConnClosed, OnStop,
     Drain, FailHead, PeerReads, PeerShutsDown, PeerResets, vars, parse, history
<1> QED BY <1>2, <1>3, <1>4, <1>5, <1>6, <1>8, Zenon
        DEF Next, Callbacks, OnRead, Transport, Gone

-------------------------------------------------------------------------------
(* The invariant and what follows from it.                                   *)

LEMMA InvInit == Init => IInv
<1> SUFFICES ASSUME Init PROVE IInv
  OBVIOUS
<1>1. /\ handle = "none" /\ closing = FALSE /\ closeCalls = 0 /\ cause = "none"
      /\ reading = FALSE /\ shouldClose = FALSE /\ failure = "none"
      /\ replied = FALSE /\ wq = <<>> /\ done = {} /\ live = {} /\ answers = <<>>
      /\ parsed = 0 /\ delivered = <<>>
  BY Zenon DEF Init
<1>2. ServerInv
  BY <1>1 DEF ServerInv, ClosedOnce
<1>3. OwnedInv /\ QueueInv
  BY <1>1 DEF OwnedInv, WriteReqsOwned, QueueInv, InOrder
<1>4. ReadInv /\ LastWord /\ CountInv
  BY <1>1 DEF ReadInv, LastWord, CountInv, Announced, AllRoutes
<1> QED BY <1>2, <1>3, <1>4 DEF IInv

(* IInv is inductive: the steps of all the actions, part by part.            *)
THEOREM Invariance == Spec => [](TypeOK /\ IInv)
<1>1. TypeOK /\ IInv /\ [Next]_vars => IInv'
  BY ServerStep, OwnedStep, QueueStep, ReadStep, CountStep, Zenon DEF IInv
<1> QED BY <1>1, InvInit, TypeStep, TypeCorrect, PTL DEF Spec

(* The kernel gets the answers in the order send() was called, with no gap.  *)
THEOREM AnswersInOrder == Spec => []InOrder
<1>1. IInv => InOrder
  BY DEF IInv, QueueInv
<1> QED BY <1>1, Invariance, PTL

(* No WriteReq leaks or is deleted twice, on any path of send(), onWrite()   *)
(* and closeConn().                                                          *)
THEOREM MemorySafe == Spec => []WriteReqsOwned
<1>1. IInv => WriteReqsOwned
  BY Zenon DEF IInv, OwnedInv
<1> QED BY <1>1, Invariance, PTL

(* The handle is closed once, and the Conn is freed after the last callback  *)
(* that dereferences it: closeConn(), onWrite() and onConnClosed().          *)
THEOREM ConnFreedLast == Spec => []ConnOutlivesUse
<1>1. IInv => ConnOutlivesUse
  <2> SUFFICES ASSUME IInv
               PROVE  ClosedOnce /\ (handle = "closed" => ~reading /\ live = {})
    BY Zenon DEF ConnOutlivesUse
  <2>1. ClosedOnce
    BY Zenon DEF IInv, ServerInv
  <2>2. ASSUME handle = "closed" PROVE ~reading /\ live = {}
    <3>1. ~reading /\ wq = <<>> /\ done = {}
      BY <2>2 DEF IInv, ServerInv
    <3>2. WriteReqsOwned
      BY Zenon DEF IInv, OwnedInv
    <3> QED BY <3>1, <3>2 DEF WriteReqsOwned
  <2> QED BY <2>1, <2>2
<1> QED BY <1>1, Invariance, PTL

(* Every message is answered once between callbacks, an upgrade twice.       *)
THEOREM AnswersMatch == Spec => []Answered
<1>1. TypeOK /\ IInv => Answered
  BY LenProperties DEF IInv, CountInv, Answered, TypeOK
<1> QED BY <1>1, Invariance, PTL

(* No request is answered after an answer that announced the end, and the    *)
(* server itself only closes after such an answer: onRead(), handleRequest() *)
(* and errorResponse() together.                                             *)
THEOREM CloseIsAnnounced == Spec => []CloseAnnounced
<1>1. IInv => CloseAnnounced
  BY Zenon DEF IInv, ReadInv, CloseAnnounced, Announced
<1> QED BY <1>1, Invariance, PTL

-------------------------------------------------------------------------------
(* The connection implements ResponseStream.                                 *)

LEMMA StreamInit == Init => Stream!Init
  BY Zenon DEF Init, Stream!Init

(* An answer is handed to send(): it is sent, queued, or ends the stream.    *)
LEMMA StreamMake ==
    ASSUME TypeOK, IInv, TypeOK', NEW by \in {"route", "error"},
           NEW close \in BOOLEAN, Sending(by, close), Announced => by = "error"
    PROVE  Stream!Next
<1> DEFINE a == [by |-> by, close |-> close]
<1>1. /\ a \in Stream!Answer /\ answers' = Append(answers, a)
      /\ (Stream!Announced => a.by = "error")
  BY DEF Stream!Answer, Stream!Announced, Sending, Announced
<1>2. closing' \in BOOLEAN
  BY Zenon DEF TypeOK
<1>3. Stream!Make(a)
  <2>1. CASE Refused
    <3>1. Len(delivered)' = Len(delivered) /\ closing'
      <4>1. delivered' = delivered /\ CloseConn("write")
        BY <2>1, Zenon DEF Refused
      <4> QED BY <4>1, CloseConnEffect DEF IInv
    <3> QED BY <1>1, <1>2, <3>1, Zenon DEF Stream!Make
  <2>2. CASE Queued \/ Failed
    <3>1. Len(delivered)' = Len(delivered) /\ closing' = closing
      BY <2>2 DEF Queued, Failed, server
    <3> QED BY <1>1, <1>2, <3>1, Zenon DEF Stream!Make
  <2>3. CASE Written
    <3>1. /\ handle = "open" /\ peer # "reset" /\ wq = <<>> /\ closing' = closing
          /\ delivered' = Append(delivered, NextId)
      BY <2>3 DEF Written, server
    <3>2. ~closing
      BY <3>1 DEF IInv, ServerInv, ClosedOnce
    <3>3. Len(delivered) = Len(answers)
      BY <3>1, LenProperties DEF IInv, QueueInv, TypeOK
    <3>4. Len(delivered)' = Len(delivered) + 1
      <4>1. delivered \in Seq(Nat) /\ NextId \in Nat
        BY LenProperties DEF TypeOK, NextId
      <4> QED BY <3>1, <4>1, AppendFacts
    <3> QED BY <1>1, <3>1, <3>2, <3>3, <3>4, Zenon DEF Stream!Make
  <2> QED BY <2>1, <2>2, <2>3, Zenon DEF Sending
<1> QED BY <1>1, <1>3, Zenon DEF Stream!Next

(* Whatever else happens keeps the stream, sends the next answer or ends it. *)
LEMMA StreamOther ==
    ASSUME TypeOK, IInv, [Next]_vars, ~HandleRequest, ~SendError
    PROVE  \/ answers' = answers /\ delivered' = delivered /\ closing' = closing
           \/ answers' = answers /\ delivered' = delivered /\ ~closing /\ closing' = TRUE
           \/ Stream!Transmit
<1>0. \A why : CloseConn(why) => closing' = closing \/ (~closing /\ closing' = TRUE)
  BY DEF CloseConn, server
<1>1. CASE Drain
  <2>1. /\ handle = "open" /\ peer # "reset" /\ wq # <<>> /\ UNCHANGED <<server, answers>>
    BY <1>1, Zenon DEF Drain
  <2>2. ~closing /\ closing' = closing
    BY <2>1 DEF IInv, ServerInv, ClosedOnce, server
  <2>3. /\ wq \in Seq(WriteEntry) /\ delivered \in Seq(Nat) /\ answers \in Seq(Answer)
    BY Zenon DEF TypeOK, WriteEntry
  <2>4. /\ Len(delivered) \in Nat /\ Len(answers) \in Nat /\ Len(wq) \in Nat \ {0}
        /\ wq[1] \in WriteEntry
    BY <2>1, <2>3, TailFacts, LenProperties
  <2>5. Len(delivered) < Len(answers)
    <3>1. Len(answers) = Len(delivered) + Len(wq)
      BY <2>1 DEF IInv, QueueInv
    <3> QED BY <2>4, <3>1
  <2>6. delivered' = delivered \/ delivered' = Append(delivered, wq[1].id)
    BY <1>1, Zenon DEF Drain
  <2>7. ASSUME delivered' = Append(delivered, wq[1].id)
        PROVE  Len(delivered)' = Len(delivered) + 1
    <3>1. wq[1].id \in Nat
      BY <2>4 DEF WriteEntry
    <3> QED BY <2>3, <2>7, <3>1, AppendFacts
  <2>10. answers' = answers
    BY <2>1
  <2>8. CASE delivered' = delivered
    BY <2>2, <2>8, <2>10
  <2>9. CASE delivered' = Append(delivered, wq[1].id)
    <3>1. Stream!Transmit
      BY <2>1, <2>2, <2>5, <2>7, <2>9, Zenon DEF Stream!Transmit
    <3> QED BY <2>1, <3>1
  <2> QED BY <2>6, <2>8, <2>9
<1>2. CASE OnWrite \/ OnReadReturns
  <2>1. answers' = answers /\ delivered' = delivered
    BY <1>2 DEF OnWrite, OnReadReturns, history
  <2>2. UNCHANGED server \/ \E why \in {"write", "answer"} : CloseConn(why)
    BY <1>2, Zenon DEF OnWrite, OnReadReturns
  <2>3. UNCHANGED server => closing' = closing
    BY DEF server
  <2> QED BY <1>0, <2>1, <2>2, <2>3, Zenon
<1>3. CASE AcceptFails \/ OnReadEnd \/ OnStop
  <2>1. answers' = answers /\ delivered' = delivered
    BY <1>3 DEF AcceptFails, OnReadEnd, OnStop, history
  <2>2. \E why : CloseConn(why)
    BY <1>3, Zenon DEF AcceptFails, OnReadEnd, OnStop
  <2> QED BY <1>0, <2>1, <2>2, Zenon
<1>4. CASE OnConnection \/ OnReadData \/ HandlerThrows \/ ParseError \/ OnConnClosed
           \/ FailHead \/ PeerReads \/ PeerShutsDown \/ PeerResets \/ UNCHANGED vars
  <2>1. answers' = answers /\ delivered' = delivered
    BY <1>4 DEF OnConnection, OnReadData, HandlerThrows, ParseError, OnConnClosed,
       FailHead, PeerReads, PeerShutsDown, PeerResets, vars, history
  <2>2. closing' = closing
    BY <1>4 DEF OnConnection, OnReadData, HandlerThrows, ParseError, OnConnClosed,
       FailHead, PeerReads, PeerShutsDown, PeerResets, vars, server
  <2> QED BY <2>1, <2>2
<1> QED BY <1>1, <1>2, <1>3, <1>4, Zenon DEF Next, Callbacks, OnRead, Transport, Gone

(* Answers made, sent and cut off by send(), onWrite() and closeConn() are a *)
(* stream of answers in the sense of ResponseStream.                         *)
THEOREM Implements == Spec => StreamSpec
<1>1. TypeOK /\ IInv /\ TypeOK' /\ [Next]_vars => [Stream!Next]_(Stream!vars)
  <2> SUFFICES ASSUME TypeOK, IInv, TypeOK', [Next]_vars
               PROVE  [Stream!Next]_(Stream!vars)
    OBVIOUS
  <2>1. CASE HandleRequest
    <3>1. ~Announced
      <4>1. reading /\ ~shouldClose
        BY <2>1, Zenon DEF HandleRequest, Parsing, AfterClose
      <4> QED BY <4>1, Zenon DEF IInv, ReadInv
    <3>2. (Head(input) = "close") \in BOOLEAN
      OBVIOUS
    <3> QED BY <2>1, <3>1, <3>2, HandleRequestSends, StreamMake
  <2>2. CASE SendError
    BY <2>2, SendErrorSends, StreamMake
  <2>3. CASE ~HandleRequest /\ ~SendError
    <3>1. \/ answers' = answers /\ delivered' = delivered /\ closing' = closing
          \/ answers' = answers /\ delivered' = delivered /\ ~closing /\ closing' = TRUE
          \/ Stream!Transmit
      BY <2>3, StreamOther
    <3>2. CASE answers' = answers /\ delivered' = delivered /\ closing' = closing
      BY <3>2 DEF Stream!vars
    <3>3. CASE answers' = answers /\ delivered' = delivered /\ ~closing /\ closing' = TRUE
      <4>1. Stream!End
        BY <3>3 DEF Stream!End
      <4> QED BY <4>1, Zenon DEF Stream!Next
    <3>4. CASE Stream!Transmit
      BY <3>4, Zenon DEF Stream!Next
    <3> QED BY <3>1, <3>2, <3>3, <3>4
  <2> QED BY <2>1, <2>2, <2>3
<1> QED BY <1>1, StreamInit, Invariance, PTL DEF Spec, StreamSpec, Stream!Spec

===============================================================================
