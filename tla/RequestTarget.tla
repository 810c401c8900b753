--------------------------- MODULE RequestTarget ----------------------------
(***************************************************************************)
(* From the target of a request line to a path and a query: applyTarget    *)
(* (src/src/HttpParser.cpp) with url_decode, urlEncode                     *)
(* (src/include/PlusWeb/utils.h) and split (src/src/utils.cpp). A text is  *)
(* the sequence of its bytes, a byte a number below 256.                   *)
(***************************************************************************)
EXTENDS Integers, SequencesExt, FiniteSetsExt

Space == 32
Percent == 37
Ampersand == 38
Plus == 43
Slash == 47
Colon == 58
Equals == 61
Question == 63
Digits == 48..57
UpperCase == 65..90
LowerCase == 97..122

-----------------------------------------------------------------------------
(* Bytes and texts.                                                        *)

\* tolower() and the arithmetic of char; whatever is not a hexadecimal digit
\* gives some value too.
FromHex(c) ==
  IF c \in Digits THEN c - 48
  ELSE ((IF c \in UpperCase THEN c + 32 ELSE c) - 97 + 10) % 256

\* The bits that are set in a byte, each by its weight.
Bits(n) == {w \in {1, 2, 4, 8, 16, 32, 64, 128} : (n \div w) % 2 = 1}

\* The two digits, joined by |.
HexPair(hi, lo) ==
  CHOOSE c \in 0..255 : Bits(c) = Bits((FromHex(hi) * 16) % 256) \cup Bits(FromHex(lo))

\* Past the last byte of a std::string stands a NUL.
ByteAt(text, i) == IF i <= Len(text) THEN text[i] ELSE 0

HasPair(text, i) == ByteAt(text, i + 1) # 0 /\ ByteAt(text, i + 2) # 0

\* Mutation: one byte too few is skipped after an escape.
UrlDecodeSkipsOne(text) ==
  LET From[i \in 1..Len(text) + 3] ==
        IF i > Len(text) THEN <<>>
        ELSE IF text[i] = Percent THEN
               IF HasPair(text, i) THEN <<HexPair(text[i + 1], text[i + 2])>> \o From[i + 2]
                                   ELSE From[i + 1]
        ELSE <<IF text[i] = Plus THEN Space ELSE text[i]>> \o From[i + 1]
  IN  From[1]

\* A percent sign that two more bytes do not follow is dropped.
UrlDecode(text) ==
  LET From[i \in 1..Len(text) + 3] ==      \* what the bytes from the i-th on give
        IF i > Len(text) THEN <<>>
        ELSE IF text[i] = Percent THEN
               IF HasPair(text, i) THEN <<HexPair(text[i + 1], text[i + 2])>> \o From[i + 3]
                                   ELSE From[i + 1]
        ELSE <<IF text[i] = Plus THEN Space ELSE text[i]>> \o From[i + 1]
  IN  From[1]

Unreserved == Digits \cup UpperCase \cup LowerCase \cup {45, 46, 95, 126}   \* - . _ ~

HexDigit(n) == IF n < 10 THEN 48 + n ELSE 65 + n - 10

\* Mutation: the width of an escape is not set.
EncodeByteNarrow(c) ==
  IF c \in Unreserved THEN <<c>>
  ELSE IF c < 16 THEN <<Percent, HexDigit(c)>>
  ELSE <<Percent, HexDigit(c \div 16), HexDigit(c % 16)>>

EncodeByte(c) ==
  IF c \in Unreserved THEN <<c>> ELSE <<Percent, HexDigit(c \div 16), HexDigit(c % 16)>>

UrlEncode(text) == FlattenSeq([i \in DOMAIN text |-> EncodeByte(text[i])])

\* The pieces between separators, without the empty ones.
Split(text, separator) ==
  LET Add(parts, c) == IF c = separator THEN Append(parts, <<>>)
                       ELSE [parts EXCEPT ![Len(parts)] = Append(@, c)]
  IN  SelectSeq(FoldLeft(Add, << <<>> >>, text), LAMBDA part : part # <<>>)

Before(text, i) == IF i = 0 THEN text ELSE SubSeq(text, 1, i - 1)
After(text, i)  == SubSeq(text, i + 1, Len(text))

Find(text, c) == SelectInSeq(text, LAMBDA d : d = c)

\* Pairs as a map: the last one of a name counts.
MapOf(pairs) ==
  [n \in {pairs[i][1] : i \in DOMAIN pairs} |->
     pairs[SelectLastInSeq(pairs, LAMBDA p : p[1] = n)][2]]

-----------------------------------------------------------------------------
(* The target.                                                             *)

SchemeEnds(text) ==
  {i + 2 : i \in {j \in 1..Len(text) - 2 : SubSeq(text, j, j + 2) = <<Colon, Slash, Slash>>}}

\* Absolute form: what follows the authority, which ends at the next slash.
StripAuthority(text) ==
  IF SchemeEnds(text) = {} THEN text
  ELSE LET slashes == {i \in DOMAIN text : i > Min(SchemeEnds(text)) /\ text[i] = Slash}
       IN  IF slashes = {} THEN <<Slash>> ELSE SubSeq(text, Min(slashes), Len(text))

OrSlash(path) == IF path = <<>> THEN <<Slash>> ELSE path

\* The text goes through c_str(); a piece without an equals sign is ignored.
QueryOf(text) ==
  LET pieces == SelectSeq(Split(Before(text, Find(text, 0)), Ampersand),
                          LAMBDA piece : Contains(piece, Equals))
  IN  MapOf([i \in DOMAIN pieces |->
               LET eq == Find(pieces[i], Equals)
               IN  <<Before(pieces[i], eq), After(pieces[i], eq)>>])

ApplyTarget(target) ==
  LET decoded == StripAuthority(UrlDecode(target))
      q       == Find(decoded, Question)
  IN  [path  |-> OrSlash(Before(decoded, q)),
       query |-> IF q = 0 THEN <<>> ELSE QueryOf(After(decoded, q))]

=============================================================================
