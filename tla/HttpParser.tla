----------------------------- MODULE HttpParser -----------------------------
(***************************************************************************)
(* The request parser of a connection: HttpParser over llhttp              *)
(* (src/src/HttpParser.cpp). llhttp reports the elements of a message in   *)
(* callbacks while execute() feeds it one read after the other; a read may *)
(* end anywhere, so a target, a header name or a header value can reach    *)
(* its callback in any number of pieces, empty ones included. The          *)
(* callbacks put the pieces together and charge them against the header    *)
(* budget; when the message is complete its target becomes a path and a    *)
(* query (RequestTarget).                                                  *)
(*                                                                         *)
(* The input is a script of messages. A text is a sequence of bytes, since *)
(* where it is cut is what matters; a byte that separates two elements     *)
(* (the space after the target, the colon, a line end) has no value of its *)
(* own. Deciding keep-alive is left out.                                   *)
(***************************************************************************)
EXTENDS RequestTarget

CONSTANTS
  Scripts,         \* what a client may send: sequences of messages
  PlainTexts,      \* texts without "?" and "://" that a client may encode
  MaxRead,         \* bound: bytes of one read
  maxHeaderBytes,  \* the budget, kMaxHeaderBytes in the server
  ContentType,     \* the name "Content-Type"
  JsonType,        \* the value "application/json"
  JsonTexts        \* the bodies nlohmann::json::parse accepts

Text == Seq(0..255)

\* A field: name and value. llhttp takes an empty name for bytes that are not HTTP.
Field == (Text \ {<<>>}) \X Text

\* A message: target, header fields, body, trailer fields after a chunked body,
\* and whether the bytes stop being HTTP after the target.
Messages == [target : Text, headers : Seq(Field), body : Text,
             trailers : Seq(Field), garbled : BOOLEAN]

ASSUME ParserAssumption ==
  /\ Scripts \subseteq Seq(Messages)
  /\ MaxRead \in Nat \ {0} /\ maxHeaderBytes \in Nat

ASSUME PlainAssumption ==
  PlainTexts \subseteq {t \in Text : Question \notin Range(t) /\ SchemeEnds(t) = {}}

VARIABLES
  script,          \* the messages the client sends, in order
  message,         \* the one llhttp is in
  at, off,         \* the element of it llhttp is in and the bytes reported of that
  left,            \* bytes of this read that llhttp has not consumed
  executing,       \* execute() is running
  rc,              \* llhttp's error: "ok", "user" (a callback refused), "invalid"
  target, field, value, body, headers, readingValue,
  headerBytes, headerLimitHit,
  delivered,       \* the requests handed to the handler, in order
  errorStatus

input    == <<script, message, at, off, left>>
request  == <<target, field, value, body, headers, readingValue, headerBytes>>
vars     == <<input, executing, rc, request, headerLimitHit, delivered, errorStatus>>

-----------------------------------------------------------------------------
(* What llhttp finds in the input.                                         *)

Element(kind, text) == [kind |-> kind, text |-> text]

\* Name and value of each field in turn.
FieldElements(fields) ==
  [i \in 1..2 * Len(fields) |->
     IF i % 2 = 1 THEN Element("name", fields[(i + 1) \div 2][1])
                  ELSE Element("value", fields[i \div 2][2])]

Elements(m) ==
  <<Element("url", m.target)>> \o
  IF m.garbled THEN <<Element("garbage", <<>>)>>
  ELSE FieldElements(m.headers) \o <<Element("headers", <<>>)>> \o
       (IF m.body = <<>> THEN <<>> ELSE <<Element("body", m.body)>>) \o
       FieldElements(m.trailers) \o <<Element("done", <<>>)>>

More == message <= Len(script)

Current == Elements(script[message])[at]

Kind == IF More THEN Current.kind ELSE "end"

\* A text is followed by a separator, which llhttp must see to end it; a body
\* ends by its length, and the message with it.
Separator == IF Kind \in {"body", "done"} THEN 0 ELSE 1

Unreported == Len(Current.text) - off

\* The part of the text that this read holds.
Piece == SubSeq(Current.text, off + 1,
                off + (IF left < Unreported THEN left ELSE Unreported))

\* llhttp goes on to the next element or runs out of bytes in this one.
Advance ==
  /\ IF left >= Unreported + Separator
       THEN /\ IF Kind = "done" THEN message' = message + 1 /\ at' = 1
                                ELSE message' = message /\ at' = at + 1
            /\ off' = 0
            /\ left' = left - Unreported - Separator
       ELSE /\ off' = off + Len(Piece)
            /\ left' = 0
            /\ UNCHANGED <<message, at>>
  /\ UNCHANGED script

\* llhttp calls the callback for an element of this kind. The end of a message
\* is known without a further byte.
Reports(kind) ==
  /\ executing /\ rc = "ok"
  /\ Kind = kind
  /\ kind # "done" => left > 0

-----------------------------------------------------------------------------
(* The callbacks.                                                          *)

OverBudget == headerBytes + Len(Piece) > maxHeaderBytes

\* charge() refuses: the callback returns HPE_USER and llhttp stops.
Refuse ==
  /\ OverBudget
  /\ headerBytes' = headerBytes + Len(Piece)
  /\ headerLimitHit' = TRUE
  /\ rc' = "user"
  /\ UNCHANGED <<input, executing, target, field, value, body, headers, readingValue,
                 delivered, errorStatus>>

\* charge() accepts the piece.
Charge ==
  /\ ~OverBudget
  /\ headerBytes' = headerBytes + Len(Piece)
  /\ Advance
  /\ UNCHANGED <<executing, rc, headerLimitHit, delivered, errorStatus>>

Store(name, text) ==
  [n \in DOMAIN headers \cup {name} |-> IF n = name THEN text ELSE headers[n]]

Committed == IF field # <<>> THEN Store(field, value) ELSE headers

OnUrl ==
  /\ Reports("url")
  /\ \/ Refuse
     \/ /\ Charge
        /\ target' = target \o Piece
        /\ UNCHANGED <<field, value, body, headers, readingValue>>

\* Mutation: a field is committed whenever a piece of a name arrives.
OnHeaderFieldCommits ==
  /\ Reports("name")
  /\ \/ Refuse
     \/ /\ Charge
        /\ headers' = Committed
        /\ field' = Piece
        /\ value' = <<>>
        /\ readingValue' = FALSE
        /\ UNCHANGED <<target, body>>

OnHeaderField ==
  /\ Reports("name")
  /\ \/ Refuse
     \/ /\ Charge
        /\ IF readingValue
             THEN /\ headers' = Committed
                  /\ field' = Piece
                  /\ value' = <<>>
             ELSE /\ field' = field \o Piece
                  /\ UNCHANGED <<headers, value>>
        /\ readingValue' = FALSE
        /\ UNCHANGED <<target, body>>

OnHeaderValue ==
  /\ Reports("value")
  /\ \/ Refuse
     \/ /\ Charge
        /\ readingValue' = TRUE
        /\ value' = value \o Piece
        /\ UNCHANGED <<target, field, body, headers>>

OnHeadersComplete ==
  /\ Reports("headers")
  /\ Advance
  /\ headers' = Committed
  /\ field' = <<>>
  /\ value' = <<>>
  /\ UNCHANGED <<executing, rc, target, body, readingValue, headerBytes, headerLimitHit,
                 delivered, errorStatus>>

OnBody ==
  /\ Reports("body")
  /\ Advance
  /\ body' = body \o Piece
  /\ UNCHANGED <<executing, rc, target, field, value, headers, readingValue, headerBytes,
                 headerLimitHit, delivered, errorStatus>>

\* Mutation: the budget is not renewed for the next message.
ResetKeepsBudget ==
  /\ target' = <<>> /\ field' = <<>> /\ value' = <<>> /\ body' = <<>>
  /\ headers' = <<>>
  /\ readingValue' = FALSE
  /\ UNCHANGED headerBytes

\* Mutation: the name and value that were not committed stay.
ResetKeepsField ==
  /\ target' = <<>> /\ body' = <<>>
  /\ headers' = <<>>
  /\ readingValue' = FALSE
  /\ headerBytes' = 0
  /\ UNCHANGED <<field, value>>

ResetRequest ==
  /\ target' = <<>> /\ field' = <<>> /\ value' = <<>> /\ body' = <<>>
  /\ headers' = <<>>
  /\ readingValue' = FALSE
  /\ headerBytes' = 0

\* Looking Content-Type up in a map with operator[] adds it, empty, when the
\* request has a body and no such header.
HeadersLookedUp ==
  IF body = <<>> \/ ContentType \in DOMAIN headers THEN headers
  ELSE Store(ContentType, <<>>)

IsJson == body # <<>> /\ HeadersLookedUp[ContentType] = JsonType

OnMessageComplete ==
  /\ Reports("done")
  /\ IF IsJson /\ body \notin JsonTexts
       THEN /\ rc' = "user"
            /\ UNCHANGED <<input, request, delivered>>
       ELSE /\ delivered' = Append(delivered,
                 [path |-> ApplyTarget(target).path, query |-> ApplyTarget(target).query,
                  headers |-> HeadersLookedUp, body |-> body, json |-> IsJson])
            /\ ResetRequest
            /\ \/ rc' = "ok" /\ Advance
               \/ rc' = "user" /\ UNCHANGED input   \* the handler threw
  /\ UNCHANGED <<executing, headerLimitHit, errorStatus>>

\* llhttp finds bytes that are not HTTP.
Invalid ==
  /\ Reports("garbage")
  /\ rc' = "invalid"
  /\ UNCHANGED <<input, executing, request, headerLimitHit, delivered, errorStatus>>

-----------------------------------------------------------------------------
(* execute().                                                              *)

\* A read of n bytes; after an error the connection closes and reads no more.
Execute(n) ==
  /\ ~executing /\ rc = "ok" /\ More
  /\ executing' = TRUE
  /\ left' = n
  /\ headerLimitHit' = FALSE
  /\ UNCHANGED <<script, message, at, off, rc, request, delivered, errorStatus>>

\* Mutation: a read without an error clears the status.
ExecuteReturnsZero ==
  /\ executing
  /\ \/ rc # "ok"
     \/ Kind # "done" /\ left = 0
     \/ ~More
  /\ executing' = FALSE
  /\ left' = 0
  /\ errorStatus' = IF rc = "ok" THEN 0 ELSE IF headerLimitHit THEN 431 ELSE 400
  /\ UNCHANGED <<script, message, at, off, rc, request, headerLimitHit, delivered>>

\* Mutation: whatever a callback refused is taken for the limit.
ExecuteReturnsLimit ==
  /\ executing
  /\ \/ rc # "ok"
     \/ Kind # "done" /\ left = 0
     \/ ~More
  /\ executing' = FALSE
  /\ left' = 0
  /\ errorStatus' = IF rc = "user" THEN 431 ELSE 400
  /\ UNCHANGED <<script, message, at, off, rc, request, headerLimitHit, delivered>>

ExecuteReturns ==
  /\ executing
  /\ \/ rc # "ok"
     \/ Kind # "done" /\ left = 0
     \/ ~More
  /\ executing' = FALSE
  /\ left' = 0
  /\ errorStatus' = IF rc = "ok" THEN errorStatus ELSE IF headerLimitHit THEN 431 ELSE 400
  /\ UNCHANGED <<script, message, at, off, rc, request, headerLimitHit, delivered>>

Init ==
  /\ script \in Scripts
  /\ message = 1 /\ at = 1 /\ off = 0 /\ left = 0
  /\ executing = FALSE /\ rc = "ok"
  /\ target = <<>> /\ field = <<>> /\ value = <<>> /\ body = <<>> /\ headers = <<>>
  /\ readingValue = FALSE
  /\ headerBytes = 0 /\ headerLimitHit = FALSE
  /\ delivered = <<>>
  /\ errorStatus = 400

Callback ==
  \/ OnUrl \/ OnHeaderField \/ OnHeaderValue \/ OnHeadersComplete \/ OnBody
  \/ OnMessageComplete \/ Invalid

Next ==
  \/ \E n \in 1..MaxRead : Execute(n)
  \/ Callback
  \/ ExecuteReturns

Spec == Init /\ [][Next]_vars

-----------------------------------------------------------------------------
(* Properties.                                                             *)

\* The state has its type, and llhttp is never past the end of an element.
TypeOK ==
  /\ script \in Scripts
  /\ message \in 1..Len(script) + 1
  /\ More => at \in DOMAIN Elements(script[message]) /\ off \in 0..Len(Current.text)
  /\ left \in 0..MaxRead
  /\ executing \in BOOLEAN /\ rc \in {"ok", "user", "invalid"}
  /\ target \in Text /\ field \in Text /\ value \in Text /\ body \in Text
  /\ DOMAIN headers \subseteq Text /\ \A n \in DOMAIN headers : headers[n] \in Text
  /\ readingValue \in BOOLEAN
  /\ headerBytes \in Nat /\ headerLimitHit \in BOOLEAN
  /\ Len(delivered) <= Len(script)
  /\ errorStatus \in {400, 431}

\* The fields of a message that reach the request: those of its header section
\* and, of the trailers, all but the last, which nothing commits.
Fields(m) == m.headers \o SubSeq(m.trailers, 1, Len(m.trailers) - 1)

\* The request a message means.
Meant(m) ==
  LET map  == MapOf(Fields(m))
      full == IF m.body = <<>> \/ ContentType \in DOMAIN map THEN map
              ELSE [n \in DOMAIN map \cup {ContentType} |-> IF n = ContentType THEN <<>> ELSE map[n]]
  IN  [headers |-> full, body |-> m.body,
       json |-> m.body # <<>> /\ full[ContentType] = JsonType]

\* However the bytes are cut into reads, the handler gets the requests that the
\* messages mean, one each and in order: "pipelined requests, chunked bodies and
\* requests split across packets all work" (HttpParser.h:12-13).
RequestsAsSent ==
  \A i \in DOMAIN delivered :
    \A f \in {"headers", "body", "json"} : delivered[i][f] = Meant(script[i])[f]

-----------------------------------------------------------------------------
(* The target, taken apart before it is decoded.                           *)

IsHex(c) == c \in Digits \cup 65..70 \cup 97..102
HexValue(c) == IF c \in Digits THEN c - 48 ELSE (c % 32) + 9

\* What the escapes of a text stand for, each byte at the place where it begins.
Decoded(t) ==
  LET escapes == {i \in DOMAIN t : t[i] = Percent}
      places  == SelectSeq([i \in DOMAIN t |-> i], LAMBDA i : {i - 1, i - 2} \cap escapes = {})
  IN  [k \in DOMAIN places |->
         LET i == places[k]
         IN  IF i \in escapes THEN 16 * HexValue(t[i + 1]) + HexValue(t[i + 2])
             ELSE IF t[i] = Plus THEN Space ELSE t[i]]

\* Where the authority of an absolute-form target ends: before the first slash or
\* question mark after the scheme, or with the target.
AuthorityEnd(t) ==
  Min({i \in Min(SchemeEnds(t)) + 1..Len(t) : t[i] \in {Slash, Question}} \cup {Len(t) + 1})

\* What follows the authority, of a target that has one.
Origin(t) ==
  IF t[1] = Slash \/ SchemeEnds(t) = {} THEN t ELSE SubSeq(t, AuthorityEnd(t), Len(t))

\* Every percent sign begins an escape, and neither an escape nor the text holds a
\* NUL, nor an escape a separator. A target in origin form holds no "://"
\* (OriginFormPath has those), and in absolute form a slash follows the authority,
\* or nothing does: the code looks past a question mark for the slash that ends it.
Plain(t) ==
  /\ 0 \notin Range(t)
  /\ \A i \in DOMAIN t : t[i] = Percent =>
       /\ i + 2 <= Len(t) /\ IsHex(t[i + 1]) /\ IsHex(t[i + 2])
       /\ 16 * HexValue(t[i + 1]) + HexValue(t[i + 2])
            \notin {0, Ampersand, Slash, Colon, Equals, Question}
  /\ t[1] = Slash => SchemeEnds(t) = {}
  /\ t[1] # Slash => Origin(t) = <<>> \/ Origin(t)[1] # Question

\* What stands before the query, and the query.
RawPath(t)  == Before(Origin(t), Find(Origin(t), Question))
RawQuery(t) == IF Contains(Origin(t), Question) THEN After(Origin(t), Find(Origin(t), Question))
               ELSE <<>>

\* The pair of a raw piece of the query.
Pair(piece) == LET eq == Find(piece, Equals)
               IN  <<Decoded(Before(piece, eq)), Decoded(After(piece, eq))>>

\* A plain target gives the path and the query that splitting first and decoding
\* each part gives, whether it is in origin or in absolute form (HttpParser.cpp:11-15);
\* the path a router sees is never empty.
TargetAsSent ==
  \A i \in DOMAIN delivered :
    LET t      == script[i].target
        pieces == SelectSeq(Split(RawQuery(t), Ampersand), LAMBDA p : Contains(p, Equals))
    IN  /\ delivered[i].path # <<>>
        /\ Plain(t) =>
             /\ delivered[i].path = OrSlash(Decoded(RawPath(t)))
             /\ delivered[i].query = MapOf([k \in DOMAIN pieces |-> Pair(pieces[k])])

\* A target that begins with a slash is a path and a query, whatever either holds
\* after it: only an absolute-form target has a scheme and an authority to strip
\* (HttpParser.cpp:11-15).
OriginFormPath ==
  \A i \in DOMAIN delivered :
    LET t == script[i].target
    IN  t[1] = Slash /\ Percent \notin Range(t) => delivered[i].path = Decoded(RawPath(t))

\* A text that a client appends to a path through urlEncode() reaches the router as
\* it was, however its escapes are cut by reads (utils.h:31, utils.h:55).
EncodingArrives ==
  \A i \in DOMAIN delivered : \A t \in PlainTexts :
    script[i].target = <<Slash>> \o UrlEncode(t) => delivered[i].path = <<Slash>> \o t

\* The bytes the budget counts in a message, each by its element and its place
\* there: those of the target, the names and the values.
Counted(m) ==
  LET e == Elements(m)
  IN  UNION {{k} \X (1..Len(e[k].text)) : k \in {i \in DOMAIN e : e[i].kind \in {"url", "name", "value"}}}

HeaderSize(m) == Cardinality(Counted(m))

\* The budget is one message's, to the byte: a message of up to maxHeaderBytes is
\* never refused for its size, whatever was sent before it, a larger one always is
\* (HttpParser.h:20, README.md:262).
BudgetPerMessage ==
  /\ \A i \in DOMAIN delivered : HeaderSize(script[i]) <= maxHeaderBytes
  /\ headerLimitHit => HeaderSize(script[Len(delivered) + 1]) > maxHeaderBytes

\* execute() answers 431 exactly when the budget was the reason, and 400 for bytes
\* that are not HTTP, a body that is not JSON and a handler that threw, also when
\* the request before in the same read was fine (HttpParser.cpp:196).
StatusNamesReason ==
  rc # "ok" /\ ~executing =>
    (errorStatus = 431) = (rc = "user" /\ headerBytes > maxHeaderBytes)

\* Nothing of a message is left when the next one begins, the trailer that was
\* never committed included (HttpParser.cpp:85-93).
NothingCarriesOver ==
  (Kind = "url" /\ off = 0 /\ rc = "ok") =>
    request = <<<<>>, <<>>, <<>>, <<>>, <<>>, FALSE, 0>>

-----------------------------------------------------------------------------
(* The inductive invariant behind the theorems of HttpParserProofs.        *)

\* The limit was hit exactly when a callback refused with the budget exceeded,
\* and the status of a read that failed tells.
ReasonInv ==
  /\ headerLimitHit = (rc = "user" /\ headerBytes > maxHeaderBytes)
  /\ rc = "ok" => headerBytes <= maxHeaderBytes
  /\ ~executing /\ rc # "ok" => errorStatus = IF headerLimitHit THEN 431 ELSE 400

\* Each message before this one was delivered; of this one at most the handler
\* that threw has seen the request.
CountInv ==
  /\ delivered \in Seq(Range(delivered))
  /\ rc # "user" => Len(delivered) = message - 1
  /\ rc = "user" => Len(delivered) \in {message - 1, message}
  /\ rc # "ok" => More

\* Only the first element of a message is its target.
FreshInv ==
  More /\ at = 1 /\ off = 0 /\ rc = "ok" =>
    request = <<<<>>, <<>>, <<>>, <<>>, <<>>, FALSE, 0>>

ParserInv == TypeOK /\ ReasonInv /\ CountInv /\ FreshInv

\* Those of the counted bytes that come before a place in an element.
Seen(m, k, o) == {b \in Counted(m) : b[1] < k \/ (b[1] = k /\ b[2] <= o)}

\* The bytes of this message that llhttp has reported are those charged.
BudgetInv ==
  /\ rc = "ok" /\ More => headerBytes = Cardinality(Seen(script[message], at, off))
  /\ headerLimitHit => Len(delivered) = message - 1
  /\ BudgetPerMessage

\* All fields of a message, and where the name of each is among its elements: the
\* end of the headers and a body come between those of the headers and the trailers.
AllFields(m)    == m.headers \o m.trailers
Count(m)        == Len(m.headers) + Len(m.trailers)
EndOfHeaders(m) == 2 * Len(m.headers) + 2
AfterBody(m)    == EndOfHeaders(m) + (IF m.body = <<>> THEN 1 ELSE 2)
NamePlace(m, i) == IF i <= Len(m.headers) THEN 2 * i
                   ELSE AfterBody(m) + 2 * (i - 1 - Len(m.headers))
EndOfMessage(m) == AfterBody(m) + 2 * Len(m.trailers)

FieldsUpTo(m, n) == MapOf(SubSeq(AllFields(m), 1, n))

\* Between two fields: the map lacks the last one of its section, if there is one.
Between(m, n, first) ==
  IF n = first
    THEN field = <<>> /\ value = <<>> /\ headers = FieldsUpTo(m, n)
    ELSE /\ readingValue
         /\ <<field, value>> = AllFields(m)[n]
         /\ headers = FieldsUpTo(m, n - 1)

Done(text) == SubSeq(text, 1, off)

\* What the parser keeps of the message while llhttp is in each of its elements.
InTarget(m) ==
  at = 1 /\ target = Done(m.target) /\ body = <<>> /\ Between(m, 0, 0)

InName(m, i) ==
  /\ at = NamePlace(m, i)
  /\ target = m.target /\ body = (IF i <= Len(m.headers) THEN <<>> ELSE m.body)
  /\ IF off = 0 THEN Between(m, i - 1, IF i <= Len(m.headers) THEN 0 ELSE Len(m.headers))
     ELSE /\ ~readingValue /\ field = Done(AllFields(m)[i][1]) /\ value = <<>>
          /\ headers = FieldsUpTo(m, i - 1)

InValue(m, i) ==
  /\ at = NamePlace(m, i) + 1
  /\ target = m.target /\ body = (IF i <= Len(m.headers) THEN <<>> ELSE m.body)
  /\ field = AllFields(m)[i][1] /\ value = Done(AllFields(m)[i][2])
  /\ headers = FieldsUpTo(m, i - 1)

InHeadersEnd(m) ==
  /\ at = EndOfHeaders(m) /\ target = m.target /\ body = <<>>
  /\ Between(m, Len(m.headers), 0)

InBody(m) ==
  /\ m.body # <<>> /\ at = EndOfHeaders(m) + 1 /\ target = m.target /\ body = Done(m.body)
  /\ Between(m, Len(m.headers), Len(m.headers))

InEnd(m) ==
  /\ at = EndOfMessage(m) /\ target = m.target /\ body = m.body
  /\ Between(m, Count(m), Len(m.headers))

InMessage(m) ==
  IF m.garbled THEN InTarget(m) \/ at = 2
  ELSE \/ InTarget(m)
       \/ \E i \in 1..Count(m) : InName(m, i) \/ InValue(m, i)
       \/ InHeadersEnd(m) \/ InBody(m) \/ InEnd(m)

\* A request handed over is that of its message, its target taken apart whole.
AsSent(i) ==
  /\ \A f \in {"headers", "body", "json"} : delivered[i][f] = Meant(script[i])[f]
  /\ \A f \in {"path", "query"} : delivered[i][f] = ApplyTarget(script[i].target)[f]

SentInv ==
  /\ rc = "ok" /\ More => InMessage(script[message])
  /\ \A i \in DOMAIN delivered : AsSent(i)

=============================================================================
