------------------------------ MODULE Response ------------------------------
(***************************************************************************)
(* The response to one request, from the HttpResponse that handleRequest() *)
(* makes, through the calls of middleware and handlers on it, to the two   *)
(* buffers it is serialized into (src/src/HttpResponse.cpp, HttpBody.cpp   *)
(* and the end of HttpServer::handleRequest).                              *)
(*                                                                         *)
(* A payload is its size in bytes, which is what framing depends on; one   *)
(* JSON value, Undumpable, holds text that is not UTF-8, so that dump()    *)
(* throws. Of the headers only Content-Type and Content-Length are kept.   *)
(***************************************************************************)
EXTENDS Naturals

CONSTANTS
  Sizes,          \* sizes of payloads
  Statuses,       \* codes a handler may set
  kCoalesceBelow, \* bodies up to this size share the buffer of the head
  Undumpable,     \* a JSON value that dump() throws on
  None,           \* no such header
  MaxCalls        \* bound: calls a handler makes on its response

ASSUME ResponseAssumption ==
  /\ Sizes \subseteq Nat /\ 0 \in Sizes
  /\ Statuses \subseteq Nat \ {0}
  /\ Undumpable \notin Nat /\ None \notin Nat
  /\ kCoalesceBelow \in Nat /\ MaxCalls \in Nat

VARIABLES
  phase,    \* "handling", "sent", or "threw": the exception left handleRequest()
            \* for the parser, which gives up on the connection (Connection)
  calls,    \* calls made on the response
  status,   \* $status, Unset until status() is called
  ctype,    \* headers["Content-Type"], None when there is none
  clength,  \* headers["Content-Length"]
  body,     \* Body: the active type and what each setter left
  head,     \* the request is a HEAD
  out,      \* the buffers: [length (declared), inHead, inBody]
  sent      \* history: type and payload of the last send() that returned

headers == <<ctype, clength>>
vars    == <<phase, calls, status, headers, body, head, out, sent>>

Unset == 0          \* $status is not initialised: it may read as any number
NoBody == [type |-> "EMPTY", raw |-> 0, json |-> 0, binary |-> 0]
NotOut == [length |-> 0, inHead |-> 0, inBody |-> 0]

-----------------------------------------------------------------------------
(* HttpBody.                                                               *)

\* What b is after a setter; setBinary leaves raw_data, the others binary_data.
Set(b, type, n) ==
  IF type = "BINARY" THEN [b EXCEPT !.type = type, !.binary = n]
  ELSE IF type = "JSON" THEN [b EXCEPT !.type = type, !.json = n, !.raw = n]
  ELSE [b EXCEPT !.type = type, !.raw = n]

\* setJson() stores the value, then dump() throws.
SetUndumpable(b) == [b EXCEPT !.type = "JSON", !.json = Undumpable]

\* b is left as a setJson() that threw leaves it.
Torn(b) == b.type = "JSON" /\ b.json = Undumpable

\* Mutation: a JSON body is measured by the value it holds.
LengthOfValue(b) ==
  IF b.type = "EMPTY" THEN 0 ELSE IF b.type = "BINARY" THEN b.binary
  ELSE IF b.type = "JSON" THEN b.json ELSE b.raw

Length(b) ==
  IF b.type = "EMPTY" THEN 0 ELSE IF b.type = "BINARY" THEN b.binary ELSE b.raw

\* A body as a handler builds one: empty, or by one setter.
Bodies == {NoBody} \cup {Set(NoBody, t, n) : t \in {"TEXT", "JSON", "FORM_DATA", "BINARY"},
                                             n \in Sizes}

-----------------------------------------------------------------------------
(* The calls of middleware and handlers.                                   *)

Handling == phase = "handling" /\ calls < MaxCalls

Called(changed) ==
  /\ Handling
  /\ calls' = calls + 1
  /\ UNCHANGED <<phase, head, out>>
  /\ UNCHANGED changed

\* status(): nothing else ever sets $status.
Status(s) ==
  /\ Called(<<headers, body, sent>>)
  /\ status' = s

\* setHeader() of either header.
SetType ==
  /\ Called(<<status, clength, body, sent>>)
  /\ ctype' = "other"

SetLength(n) ==
  /\ Called(<<status, ctype, body, sent>>)
  /\ clength' = n

\* The Content-Type of a send() overload, by the type it is called with.
TypeSent(type) ==
  CASE type = "JSON"      -> "application/json"
    [] type = "TEXT"      -> "text/html"
    [] type = "FORM_DATA" -> "application/x-www-form-urlencoded"
    [] type = "BINARY"    -> "application/octet-stream"

\* The same by the type of an HttpBody.
TypeOfBody(type) == IF type = "TEXT" THEN "text/plain" ELSE TypeSent(type)

\* Mutation: send(data) leaves the Content-Type of an earlier send().
SendKeepsType(type, n) ==
  /\ Called(<<status>>)
  /\ body' = Set(body, type, n)
  /\ ctype' = IF ctype = None THEN TypeSent(type) ELSE ctype
  /\ clength' = Length(body')
  /\ sent' = [type |-> type, payload |-> n]

\* send(json), send(text), send(form), send(bytes).
Send(type, n) ==
  /\ Called(<<status>>)
  /\ body' = Set(body, type, n)
  /\ ctype' = TypeSent(type)
  /\ clength' = Length(body')
  /\ sent' = [type |-> type, payload |-> n]

\* send(const HttpBody&) sets no Content-Type for an empty body,
\* send(HttpBody&&) does.
SendBody(b, moved) ==
  /\ Called(<<status, clength>>)
  /\ body' = b
  /\ ctype' = IF b.type # "EMPTY" THEN TypeOfBody(b.type)
              ELSE IF moved THEN "text/plain" ELSE ctype
  /\ sent' = [type |-> b.type, payload |-> Length(b)]

\* send(json) throws half way; the handler goes on or lets it pass.
SendThrows ==
  /\ Handling
  /\ calls' = calls + 1
  /\ body' = SetUndumpable(body)
  /\ phase' \in {"handling", "threw"}
  /\ UNCHANGED <<status, headers, head, out, sent>>

-----------------------------------------------------------------------------
(* The end of handleRequest().                                             *)

\* Mutation: the length that the handler set stays.
DeclaredByHandler == IF clength = None THEN Length(body) ELSE clength

\* headers["Content-Length"] as handleRequest() sets it, last.
Declared == Length(body)

Split == Length(body) > kCoalesceBelow

\* The bytes serialize() appends for the body: none for a form.
Written == IF body.type \in {"TEXT", "JSON", "BINARY"} THEN Length(body) ELSE 0

\* Mutation: Content-Length counts what is written.
FinishHeadEmpty ==
  /\ phase = "handling"
  /\ head \/ ~Torn(body)
  /\ clength' = IF head THEN 0 ELSE Declared
  /\ out' = [length |-> clength',
             inHead |-> IF head \/ Split THEN 0 ELSE Written,
             inBody |-> IF ~head /\ Split THEN Written ELSE 0]
  /\ phase' = "sent"
  /\ UNCHANGED <<calls, status, ctype, body, head, sent>>

Finish ==
  /\ phase = "handling"
  /\ head \/ ~Torn(body)
  /\ clength' = Declared
  /\ out' = [length |-> clength',
             inHead |-> IF head \/ Split THEN 0 ELSE Written,
             inBody |-> IF ~head /\ Split THEN Written ELSE 0]
  /\ phase' = "sent"
  /\ UNCHANGED <<calls, status, ctype, body, head, sent>>

\* serialize() dumps the JSON value again, which throws.
FinishThrows ==
  /\ phase = "handling"
  /\ ~head /\ Torn(body)
  /\ clength' = Declared
  /\ phase' = "threw"
  /\ UNCHANGED <<calls, status, ctype, body, head, out, sent>>

Init ==
  /\ phase = "handling" /\ calls = 0
  /\ status = Unset /\ ctype = None /\ clength = None
  /\ body = NoBody
  /\ head \in BOOLEAN
  /\ out = NotOut
  /\ sent = [type |-> "EMPTY", payload |-> 0]

Next ==
  \/ \E s \in Statuses : Status(s)
  \/ SetType
  \/ \E n \in Sizes : SetLength(n)
  \/ \E type \in {"JSON", "TEXT", "FORM_DATA", "BINARY"}, n \in Sizes : Send(type, n)
  \/ \E b \in Bodies, moved \in BOOLEAN : SendBody(b, moved)
  \/ SendThrows
  \/ Finish
  \/ FinishThrows

Spec == Init /\ [][Next]_vars

-----------------------------------------------------------------------------
(* Properties.                                                             *)

\* The state has its type.
TypeOK ==
  /\ phase \in {"handling", "sent", "threw"}
  /\ calls \in 0..MaxCalls
  /\ status \in Statuses \cup {Unset}
  /\ clength \in Sizes \cup {None}
  /\ body \in [type : {"EMPTY", "TEXT", "JSON", "FORM_DATA", "BINARY"}, raw : Sizes,
               json : Sizes \cup {Undumpable}, binary : Sizes]
  /\ head \in BOOLEAN
  /\ out \in [length : Sizes, inHead : Sizes, inBody : Sizes]

Sent == phase = "sent"

\* The declared length is that of the bytes that follow the head, and these are the
\* payload of the last send(), whatever was sent, set or went wrong before: the next
\* answer on the connection starts where this one says it ends.
Framed ==
  Sent /\ ~head /\ sent.type # "FORM_DATA" =>
    /\ out.length = out.inHead + out.inBody
    /\ out.length = sent.payload

\* The same for every body: "anything smaller is appended straight to head" and "a
\* body larger than splitAbove is left in body" (HttpResponse.h:22-26).
FramedAlways == Sent /\ ~head => out.length = out.inHead + out.inBody

\* A HEAD declares the length its GET would have declared, and is followed by
\* nothing (HttpServer.cpp:264-266, README.md:168); a GET whose send() threw has no
\* answer to compare with.
HeadLikeGet ==
  Sent /\ head => /\ out.inHead = 0 /\ out.inBody = 0
                  /\ Torn(body) \/ out.length = sent.payload

\* The body is in the buffer of the head up to kCoalesceBelow bytes and in its own
\* above it, never in both (HttpResponse.h:22-26).
SplitAboveLimit ==
  Sent => /\ out.inHead <= kCoalesceBelow
          /\ out.inBody # 0 => out.inBody > kCoalesceBelow /\ out.inHead = 0

\* The Content-Type is the one of what was sent last, whichever send() took it and
\* whatever was sent before, unless the handler set another ("send() picks the
\* Content-Type from the type you hand it", README.md:182-184).
TypeOfLastSend ==
  Sent /\ sent.type # "EMPTY" => ctype \in {TypeSent(sent.type), TypeOfBody(sent.type), "other"}

\* The inductive invariant behind the theorems of ResponseProofs: the body is the
\* last one sent unless a setJson() tore it, and the buffers hold it as declared.
BodyIsLastSent ==
  Torn(body) \/ (sent.type = body.type /\ sent.payload = Length(body))

BuffersHoldBody ==
  Sent => /\ out.length = Length(body)
          /\ head  => out.inHead = 0 /\ out.inBody = 0
          /\ ~head => /\ ~Torn(body)
                      /\ out.inHead = IF Split THEN 0 ELSE Written
                      /\ out.inBody = IF Split THEN Written ELSE 0

ResponseInv == TypeOK /\ BodyIsLastSent /\ BuffersHoldBody

=============================================================================
