-------------------------- MODULE ResponseProofs --------------------------
(***************************************************************************)
(* Theorems about Response, for any payload sizes and statuses, any limit  *)
(* on the buffer of the head and any number of calls.                      *)
(***************************************************************************)
EXTENDS Response, TLAPS

Types == {"EMPTY", "TEXT", "JSON", "FORM_DATA", "BINARY"}

Body == [type : Types, raw : Sizes, json : Sizes \cup {Undumpable}, binary : Sizes]

(* A setter leaves an untorn body of its type and of the length it was given. *)
LEMMA SetFacts ==
    ASSUME NEW b \in Body, NEW type \in Types \ {"EMPTY"}, NEW n \in Sizes
    PROVE  /\ Set(b, type, n) \in Body
           /\ Set(b, type, n).type = type
           /\ Length(Set(b, type, n)) = n
           /\ ~Torn(Set(b, type, n))
<1>1. n # Undumpable
  BY ResponseAssumption
<1>2. CASE type = "BINARY"
  BY <1>2 DEF Set, Length, Torn, Body, Types
<1>3. CASE type = "JSON"
  BY <1>1, <1>3 DEF Set, Length, Torn, Body, Types
<1>4. CASE type \notin {"BINARY", "JSON"}
  BY <1>4 DEF Set, Length, Torn, Body, Types
<1> QED BY <1>2, <1>3, <1>4

(* The length of a body is a size, torn or not: dump() throws before raw_data *)
(* is replaced (HttpBody.cpp:6).                                              *)
LEMMA LengthIsSize ==
    ASSUME NEW b \in Body
    PROVE  Length(b) \in Sizes
  BY ResponseAssumption DEF Length, Body, Types

LEMMA NoBodyFacts == NoBody \in Body /\ Length(NoBody) = 0 /\ ~Torn(NoBody)
  BY ResponseAssumption DEF NoBody, Body, Types, Length, Torn

(* What a handler hands to send(const HttpBody&) is an untorn body.           *)
LEMMA BodiesFacts ==
    ASSUME NEW b \in Bodies
    PROVE  b \in Body /\ ~Torn(b)
<1>1. CASE b = NoBody
  BY <1>1, NoBodyFacts
<1>2. ASSUME NEW t \in {"TEXT", "JSON", "FORM_DATA", "BINARY"}, NEW n \in Sizes,
             b = Set(NoBody, t, n)
      PROVE  b \in Body /\ ~Torn(b)
  BY <1>2, NoBodyFacts, SetFacts DEF Types
<1> QED BY <1>1, <1>2 DEF Bodies

(* setJson() that throws leaves a torn body.                                  *)
LEMMA SetUndumpableFacts ==
    ASSUME NEW b \in Body
    PROVE  SetUndumpable(b) \in Body /\ Torn(SetUndumpable(b))
  BY DEF SetUndumpable, Torn, Body, Types

-----------------------------------------------------------------------------
LEMMA InitInv == Init => ResponseInv
<1> SUFFICES ASSUME Init PROVE ResponseInv
  OBVIOUS
<1>1. TypeOK
  BY ResponseAssumption, NoBodyFacts DEF Init, TypeOK, NotOut, Body, Types
<1>2. BodyIsLastSent
  BY NoBodyFacts DEF Init, BodyIsLastSent, NoBody
<1>3. BuffersHoldBody
  BY DEF Init, BuffersHoldBody, Sent
<1> QED BY <1>1, <1>2, <1>3 DEF ResponseInv

(* The calls of a handler keep the invariant when they keep the body's part.  *)
LEMMA CallInv ==
    ASSUME ResponseInv, phase = "handling", calls < MaxCalls, calls' = calls + 1,
           phase' \in {"handling", "threw"}, head' = head, out' = out,
           status' \in Statuses \cup {Unset}, clength' \in Sizes \cup {None},
           body' \in Body, BodyIsLastSent'
    PROVE  ResponseInv'
<1>1. calls' \in 0..MaxCalls
  BY ResponseAssumption DEF ResponseInv, TypeOK
<1>2. TypeOK'
  BY <1>1 DEF ResponseInv, TypeOK, Body, Types
<1>3. BuffersHoldBody'
  BY DEF BuffersHoldBody, Sent
<1> QED BY <1>2, <1>3 DEF ResponseInv

LEMMA StepInv == ResponseInv /\ [Next]_vars => ResponseInv'
<1> SUFFICES ASSUME ResponseInv, [Next]_vars PROVE ResponseInv'
  OBVIOUS
<1>t. TypeOK /\ BodyIsLastSent /\ body \in Body
  BY DEF ResponseInv, TypeOK, Body, Types
<1>1. ASSUME NEW s \in Statuses, Status(s) PROVE ResponseInv'
  <2>1. body' = body /\ sent' = sent /\ clength' = clength
    BY <1>1 DEF Status, Called, headers
  <2>2. BodyIsLastSent'
    BY <1>t, <2>1 DEF BodyIsLastSent
  <2> QED BY <1>1, <1>t, <2>1, <2>2, CallInv DEF Status, Called, Handling, TypeOK
<1>2. CASE SetType
  <2>1. body' = body /\ sent' = sent
    BY <1>2 DEF SetType, Called
  <2>2. BodyIsLastSent'
    BY <1>t, <2>1 DEF BodyIsLastSent
  <2> QED BY <1>2, <1>t, <2>1, <2>2, CallInv DEF SetType, Called, Handling, TypeOK
<1>3. ASSUME NEW n \in Sizes, SetLength(n) PROVE ResponseInv'
  <2>1. body' = body /\ sent' = sent
    BY <1>3 DEF SetLength, Called
  <2>2. BodyIsLastSent'
    BY <1>t, <2>1 DEF BodyIsLastSent
  <2> QED BY <1>3, <1>t, <2>1, <2>2, CallInv DEF SetLength, Called, Handling, TypeOK
<1>4. ASSUME NEW type \in {"JSON", "TEXT", "FORM_DATA", "BINARY"}, NEW n \in Sizes,
             Send(type, n)
      PROVE  ResponseInv'
  <2>1. body' = Set(body, type, n) /\ sent' = [type |-> type, payload |-> n]
        /\ clength' = Length(body')
    BY <1>4 DEF Send
  <2>2. type \in Types \ {"EMPTY"}
    BY DEF Types
  <2>3. body' \in Body /\ body'.type = type /\ Length(body') = n
    BY <1>t, <2>1, <2>2, SetFacts
  <2>4. BodyIsLastSent'
    BY <2>1, <2>3 DEF BodyIsLastSent, Length
  <2> QED BY <1>4, <1>t, <2>1, <2>3, <2>4, CallInv DEF Send, Called, Handling, TypeOK
<1>5. ASSUME NEW b \in Bodies, NEW moved \in BOOLEAN, SendBody(b, moved)
      PROVE  ResponseInv'
  <2>1. body' = b /\ sent' = [type |-> b.type, payload |-> Length(b)]
        /\ clength' = clength
    BY <1>5 DEF SendBody, Called
  <2>2. BodyIsLastSent'
    BY <2>1 DEF BodyIsLastSent, Length
  <2> QED BY <1>5, <1>t, <2>1, <2>2, BodiesFacts, CallInv
          DEF SendBody, Called, Handling, TypeOK
<1>6. CASE SendThrows
  <2>1. body' \in Body /\ Torn(body')
    BY <1>6, <1>t, SetUndumpableFacts DEF SendThrows
  <2>2. BodyIsLastSent'
    BY <2>1 DEF BodyIsLastSent, Torn
  <2> QED BY <1>6, <1>t, <2>1, <2>2, CallInv DEF SendThrows, Handling, headers, TypeOK
<1>7. CASE Finish
  <2>1. Length(body) \in Sizes /\ 0 \in Sizes
    BY <1>t, LengthIsSize, ResponseAssumption
  <2>2. Written \in Sizes
    BY <2>1 DEF Written
  <2>3. TypeOK'
    BY <1>7, <1>t, <2>1, <2>2 DEF Finish, TypeOK, Declared
  <2>4. body' = body /\ sent' = sent /\ head' = head
    BY <1>7 DEF Finish
  <2>5. BodyIsLastSent'
    BY <1>t, <2>4 DEF BodyIsLastSent
  <2>6. BuffersHoldBody'
    BY <1>7, <2>4 DEF Finish, BuffersHoldBody, Declared, Split, Written
  <2> QED BY <2>3, <2>5, <2>6 DEF ResponseInv
<1>8. CASE FinishThrows
  <2>1. TypeOK'
    BY <1>8, <1>t, LengthIsSize DEF FinishThrows, TypeOK, Declared
  <2>2. BodyIsLastSent'
    BY <1>8, <1>t DEF FinishThrows, BodyIsLastSent
  <2>3. BuffersHoldBody'
    BY <1>8 DEF FinishThrows, BuffersHoldBody, Sent
  <2> QED BY <2>1, <2>2, <2>3 DEF ResponseInv
<1>9. CASE UNCHANGED vars
  BY <1>9 DEF vars, headers, ResponseInv, TypeOK, BodyIsLastSent, BuffersHoldBody, Sent,
              Split, Written
<1> QED BY <1>1, <1>2, <1>3, <1>4, <1>5, <1>6, <1>7, <1>8, <1>9 DEF Next

THEOREM Invariant == Spec => []ResponseInv
  BY InitInv, StepInv, PTL DEF Spec

(* The state has its type, whatever handleRequest() and the handlers do.      *)
THEOREM TypeCorrect == Spec => []TypeOK
<1>1. ResponseInv => TypeOK
  BY DEF ResponseInv
<1> QED BY <1>1, Invariant, PTL

(* What is declared by Content-Length is what follows the head, and it is the *)
(* payload of the last send(), for every body but a form.                     *)
THEOREM FramedRight == Spec => []Framed
<1>1. ResponseInv => Framed
  <2> SUFFICES ASSUME ResponseInv, Sent, ~head, sent.type # "FORM_DATA"
               PROVE  out.length = out.inHead + out.inBody /\ out.length = sent.payload
    BY DEF Framed
  <2>1. ~Torn(body) /\ out.length = Length(body)
    BY DEF ResponseInv, BuffersHoldBody
  <2>2. sent.type = body.type /\ sent.payload = Length(body)
    BY <2>1 DEF ResponseInv, BodyIsLastSent
  <2>3. Length(body) \in Nat
    BY LengthIsSize, ResponseAssumption DEF ResponseInv, TypeOK, Body, Types
  <2>4. Written = Length(body)
    BY <2>2 DEF Written, Length, ResponseInv, TypeOK
  <2> QED BY <2>1, <2>2, <2>3, <2>4 DEF ResponseInv, BuffersHoldBody
<1> QED BY <1>1, Invariant, PTL

(* A HEAD is answered by the head of its GET and nothing else.                *)
THEOREM HeadRight == Spec => []HeadLikeGet
<1>1. ResponseInv => HeadLikeGet
  BY DEF ResponseInv, BuffersHoldBody, BodyIsLastSent, HeadLikeGet
<1> QED BY <1>1, Invariant, PTL

(* A body goes into one buffer, by its length against kCoalesceBelow.         *)
THEOREM SplitRight == Spec => []SplitAboveLimit
<1>1. ResponseInv => SplitAboveLimit
  <2> SUFFICES ASSUME ResponseInv, Sent
               PROVE  /\ out.inHead <= kCoalesceBelow
                      /\ out.inBody # 0 => out.inBody > kCoalesceBelow /\ out.inHead = 0
    BY DEF SplitAboveLimit
  <2>1. Length(body) \in Nat /\ kCoalesceBelow \in Nat
    BY LengthIsSize, ResponseAssumption DEF ResponseInv, TypeOK, Body, Types
  <2>2. Written \in {0, Length(body)}
    BY DEF Written
  <2> QED BY <2>1, <2>2 DEF ResponseInv, BuffersHoldBody, Split
<1> QED BY <1>1, Invariant, PTL

(* send() and the header that goes with it change together, and a send() that *)
(* throws changes neither.                                                    *)
TypeKept ==
  sent.type # "EMPTY" => ctype \in {TypeSent(sent.type), TypeOfBody(sent.type), "other"}

LEMMA TypeKeptStep == TypeKept /\ [Next]_vars => TypeKept'
<1> SUFFICES ASSUME TypeKept, [Next]_vars PROVE TypeKept'
  OBVIOUS
<1>1. ASSUME sent' = sent, ctype' = ctype PROVE TypeKept'
  BY <1>1, Zenon DEF TypeKept
<1>2. ASSUME NEW s \in Statuses, Status(s) PROVE TypeKept'
  BY <1>1, <1>2 DEF Status, Called, headers
<1>3. CASE SetType
  BY <1>3, Zenon DEF SetType, TypeKept
<1>4. ASSUME NEW n \in Sizes, SetLength(n) PROVE TypeKept'
  BY <1>1, <1>4 DEF SetLength, Called
<1>5. ASSUME NEW type, NEW n, Send(type, n) PROVE TypeKept'
  <2>1. sent'.type = type /\ ctype' = TypeSent(type)
    BY <1>5 DEF Send
  <2> QED BY <2>1, Zenon DEF TypeKept
<1>6. ASSUME NEW b, NEW moved, SendBody(b, moved) PROVE TypeKept'
  <2>1. sent'.type = b.type /\ (b.type # "EMPTY" => ctype' = TypeOfBody(b.type))
    BY <1>6 DEF SendBody
  <2> QED BY <2>1, Zenon DEF TypeKept
<1>7. CASE SendThrows \/ Finish \/ FinishThrows \/ UNCHANGED vars
  BY <1>1, <1>7 DEF SendThrows, Finish, FinishThrows, vars, headers
<1> QED BY <1>2, <1>3, <1>4, <1>5, <1>6, <1>7 DEF Next

(* The Content-Type is the one of what was sent last, unless the handler set  *)
(* another (README.md:182-184).                                               *)
THEOREM TypeRight == Spec => []TypeOfLastSend
<1>1. Init => TypeKept
  BY DEF Init, TypeKept
<1>2. TypeKept => TypeOfLastSend
  BY DEF TypeKept, TypeOfLastSend
<1> QED BY <1>1, <1>2, TypeKeptStep, PTL DEF Spec

=============================================================================
