-------------------------- MODULE HttpParserProofs --------------------------
(***************************************************************************)
(* Theorems about HttpParser, for any messages, cut into reads of any      *)
(* length, and any budget: the state has its type, the handler gets the    *)
(* requests that the messages mean, the budget counts the bytes of one     *)
(* message, the status of a failed read names its reason, nothing of a     *)
(* message is left for the next, and a text that a client encodes in a     *)
(* path arrives as it was.                                                 *)
(***************************************************************************)
EXTENDS HttpParser, SequenceTheorems, FiniteSetTheorems, WellFoundedInduction, TLAPS

-----------------------------------------------------------------------------
(* The elements of a message: its target, then others, then its end.       *)

Inner == [kind : {"name", "value", "headers", "body"}, text : Text]

LEMMA TextIsSeq == Text = Seq(0..255)
BY DEF Text

(* Names and values alternate.                                             *)
LEMMA FieldElementsAreInner ==
  ASSUME NEW fields \in Seq(Text \X Text)
  PROVE  FieldElements(fields) \in Seq(Inner)
<1> DEFINE n == Len(fields)
<1>1. n \in Nat
  OBVIOUS
<1>2. ASSUME NEW i \in 1..2 * n
      PROVE  (IF i % 2 = 1 THEN Element("name", fields[(i + 1) \div 2][1])
                           ELSE Element("value", fields[i \div 2][2])) \in Inner
  <2>1. CASE i % 2 = 1
    <3>1. (i + 1) \div 2 \in 1..n
      BY <1>1, <1>2, <2>1
    <3>2. fields[(i + 1) \div 2] \in Text \X Text
      BY <3>1, ElementOfSeq
    <3>3. fields[(i + 1) \div 2][1] \in Text
      BY <3>2, Zenon
    <3> QED BY <2>1, <3>3, Zenon DEF Element, Inner
  <2>2. CASE i % 2 # 1
    <3>1. i \div 2 \in 1..n
      BY <1>1, <1>2, <2>2
    <3>2. fields[i \div 2] \in Text \X Text
      BY <3>1, ElementOfSeq
    <3>3. fields[i \div 2][2] \in Text
      BY <3>2, Zenon
    <3> QED BY <2>2, <3>3, Zenon DEF Element, Inner
  <2> QED BY <2>1, <2>2
<1>3. FieldElements(fields) \in [1..2 * n -> Inner]
  BY <1>2, Zenon DEF FieldElements
<1>4. 2 * n \in Nat
  BY <1>1
<1> HIDE DEF n
<1> QED BY <1>3, <1>4

LEMMA FieldsOfMessage ==
  ASSUME NEW m \in Messages
  PROVE  /\ m.target \in Text /\ m.body \in Text /\ m.garbled \in BOOLEAN
         /\ m.headers \in Seq(Field) /\ m.trailers \in Seq(Field)
         /\ m.headers \in Seq(Text \X Text) /\ m.trailers \in Seq(Text \X Text)
<1>1. /\ m.target \in Text /\ m.body \in Text /\ m.garbled \in BOOLEAN
      /\ m.headers \in Seq(Field) /\ m.trailers \in Seq(Field)
  BY Zenon DEF Messages
<1>2. Field \subseteq Text \X Text
  BY DEF Field
<1> QED BY <1>1, <1>2, SeqMonotonic

(* What the parser relies on: the target comes first and only there, and   *)
(* the message goes on until it is done or turns out to be garbage.        *)
LEMMA ShapeOfMessage ==
  ASSUME NEW m \in Messages, NEW e, e = Elements(m)
  PROVE  /\ Len(e) \in Nat /\ Len(e) >= 2 /\ DOMAIN e = 1..Len(e)
         /\ \A i \in 1..Len(e) : e[i].text \in Text
         /\ e[1].kind = "url"
         /\ \A i \in 1..Len(e) : i # 1 => e[i].kind # "url"
         /\ \A i \in 1..Len(e) : i # Len(e) => e[i].kind \notin {"done", "garbage"}
         /\ \A i \in 1..Len(e) : e[i].kind \in
              {"url", "name", "value", "headers", "body", "done", "garbage"}
         /\ e[Len(e)].kind \in {"done", "garbage"} /\ e[Len(e)].text = <<>>
<1> DEFINE U == Element("url", m.target)
           Outer == [kind : {"url", "name", "value", "headers", "body", "done", "garbage"},
                   text : Text]
<1>1. /\ m.target \in Text /\ m.body \in Text
      /\ m.headers \in Seq(Text \X Text) /\ m.trailers \in Seq(Text \X Text)
  BY FieldsOfMessage
<1>2. <<>> \in Text
  BY EmptySeq, TextIsSeq
<1>3. \E middle \in Seq(Inner), last \in {Element("done", <<>>), Element("garbage", <<>>)} :
        e = <<U>> \o (middle \o <<last>>)
  <2>1. CASE m.garbled
    <3>1. e = <<U>> \o <<Element("garbage", <<>>)>>
      BY <2>1, Zenon DEF Elements
    <3>2. <<>> \o <<Element("garbage", <<>>)>> = <<Element("garbage", <<>>)>>
      OBVIOUS
    <3>3. <<>> \in Seq(Inner)
      BY EmptySeq
    <3> QED BY <3>1, <3>2, <3>3, Zenon
  <2>2. CASE ~m.garbled
    <3> DEFINE H == FieldElements(m.headers)
               C == <<Element("headers", <<>>)>>
               B == IF m.body = <<>> THEN <<>> ELSE <<Element("body", m.body)>>
               T == FieldElements(m.trailers)
    <3>1. H \in Seq(Inner) /\ T \in Seq(Inner)
      BY <1>1, FieldElementsAreInner
    <3>2. C \in Seq(Inner)
      <4>1. Element("headers", <<>>) \in Inner
        BY <1>2, Zenon DEF Element, Inner
      <4> QED BY <4>1
    <3>3. B \in Seq(Inner)
      <4>1. Element("body", m.body) \in Inner
        BY <1>1, Zenon DEF Element, Inner
      <4> QED BY <4>1, EmptySeq
    <3>4. e = <<U>> \o (H \o C \o B \o T \o <<Element("done", <<>>)>>)
      BY <2>2, Zenon DEF Elements
    <3> HIDE DEF H, C, B, T
    <3>5. H \o C \in Seq(Inner)
      BY <3>1, <3>2, ConcatProperties
    <3>6. H \o C \o B \in Seq(Inner)
      BY <3>5, <3>3, ConcatProperties
    <3>7. H \o C \o B \o T \in Seq(Inner)
      BY <3>6, <3>1, ConcatProperties
    <3> QED BY <3>4, <3>7, Zenon
  <2>3. m.garbled \in BOOLEAN
    BY Zenon DEF Messages
  <2> QED BY <2>1, <2>2, <2>3, Zenon
<1>4. PICK middle \in Seq(Inner), last \in {Element("done", <<>>), Element("garbage", <<>>)} :
        e = <<U>> \o (middle \o <<last>>)
  BY <1>3, Zenon
<1>5. U \in Outer /\ U.kind = "url"
  BY <1>1, Zenon DEF Element
<1>6. last \in Outer /\ last.kind \in {"done", "garbage"} /\ last.text = <<>>
  <2>1. CASE last = Element("done", <<>>)
    BY <1>2, <2>1, Zenon DEF Element
  <2>2. CASE last = Element("garbage", <<>>)
    BY <1>2, <2>2, Zenon DEF Element
  <2> QED BY <1>4, <2>1, <2>2, Zenon
<1>7. Inner \subseteq Outer /\ \A x \in Inner : x.kind \notin {"url", "done", "garbage"}
  BY Zenon DEF Inner
<1>8. \A x \in Outer : /\ x.text \in Text
                     /\ x.kind \in {"url", "name", "value", "headers", "body", "done", "garbage"}
  BY Zenon
<1> HIDE DEF U, Outer
<1>9. middle \in Seq(Outer)
  BY <1>7, SeqMonotonic
<1>10. Len(middle) \in Nat /\ \A i \in 1..Len(middle) : middle[i] \in Inner
  BY <1>4, ElementOfSeq
<1>11. <<last>> \in Seq(Outer) /\ <<U>> \in Seq(Outer)
  BY <1>5, <1>6
<1>12. /\ middle \o <<last>> \in Seq(Outer)
       /\ Len(middle \o <<last>>) = Len(middle) + 1
       /\ \A i \in 1..Len(middle) + 1 :
            (middle \o <<last>>)[i] = IF i <= Len(middle) THEN middle[i] ELSE <<last>>[i - Len(middle)]
  BY <1>9, <1>11, ConcatProperties
<1> DEFINE R == middle \o <<last>>
<1>13. /\ R[Len(middle) + 1] = last
       /\ \A i \in 1..Len(middle) : R[i] \in Inner
  BY <1>10, <1>12
<1>14. R \in Seq(Outer) /\ Len(R) = Len(middle) + 1 /\ e = <<U>> \o R
  BY <1>4, <1>12
<1> HIDE DEF R
<1>15. /\ e \in Seq(Outer) /\ Len(e) = Len(middle) + 2
       /\ e[1] = U
       /\ \A i \in 1..Len(middle) + 2 : i # 1 => e[i] = R[i - 1]
  BY <1>10, <1>11, <1>14, ConcatProperties
<1>16. /\ \A i \in 1..Len(e) : e[i] \in Outer
       /\ DOMAIN e = 1..Len(e)
  BY <1>15, ElementOfSeq, LenProperties
<1>17. e[Len(e)] = last
  BY <1>10, <1>13, <1>15
<1>18. \A i \in 1..Len(e) : i # 1 /\ i # Len(e) => e[i] \in Inner
  <2> SUFFICES ASSUME NEW i \in 1..Len(e), i # 1, i # Len(e)
               PROVE  e[i] \in Inner
    OBVIOUS
  <2>1. i - 1 \in 1..Len(middle) /\ i \in 1..Len(middle) + 2
    BY <1>10, <1>15
  <2> QED BY <2>1, <1>13, <1>15, Zenon
<1>19. Len(e) \in Nat /\ Len(e) >= 2 /\ Len(e) # 1
  BY <1>10, <1>15
<1>20. \A i \in 1..Len(e) : i # 1 => e[i].kind # "url"
  BY <1>6, <1>7, <1>17, <1>18, Zenon
<1>21. \A i \in 1..Len(e) : i # Len(e) => e[i].kind \notin {"done", "garbage"}
  BY <1>5, <1>7, <1>15, <1>18, Zenon
<1> QED BY <1>5, <1>6, <1>8, <1>15, <1>16, <1>17, <1>19, <1>20, <1>21, Zenon

LEMMA ElementOfScript ==
  ASSUME NEW s \in Scripts, NEW i \in 1..Len(s), NEW e, e = Elements(s[i]), NEW k \in DOMAIN e
  PROVE  /\ DOMAIN e = 1..Len(e) /\ Len(e) \in Nat /\ k \in 1..Len(e)
         /\ e[k].text \in Text
         /\ e[k].kind \in {"url", "name", "value", "headers", "body", "done", "garbage"}
         /\ (e[k].kind = "url") = (k = 1)
         /\ e[k].kind \in {"done", "garbage"} => e[k].text = <<>>
         /\ e[k].kind \notin {"done", "garbage"} => k + 1 \in DOMAIN e
<1>1. s \in Seq(Messages)
  BY ParserAssumption
<1>2. s[i] \in Messages
  BY <1>1, ElementOfSeq
<1>3. /\ Len(e) \in Nat /\ Len(e) >= 2 /\ DOMAIN e = 1..Len(e)
      /\ \A j \in 1..Len(e) : e[j].text \in Text
      /\ e[1].kind = "url"
      /\ \A j \in 1..Len(e) : j # 1 => e[j].kind # "url"
      /\ \A j \in 1..Len(e) : j # Len(e) => e[j].kind \notin {"done", "garbage"}
      /\ \A j \in 1..Len(e) : e[j].kind \in
           {"url", "name", "value", "headers", "body", "done", "garbage"}
      /\ e[Len(e)].kind \in {"done", "garbage"} /\ e[Len(e)].text = <<>>
  BY <1>2, ShapeOfMessage, Zenon
<1>4. k \in 1..Len(e)
  BY <1>3
<1>5. k # Len(e) => k + 1 \in DOMAIN e
  BY <1>3, <1>4
<1>6. (e[k].kind = "url") = (k = 1)
  BY <1>3, <1>4, Zenon
<1>7. e[k].kind \in {"done", "garbage"} => e[k].text = <<>>
  BY <1>3, <1>4, Zenon
<1> QED BY <1>3, <1>4, <1>5, <1>6, <1>7, Zenon

LEMMA FirstOfMessage ==
  ASSUME NEW s \in Scripts, NEW i \in 1..Len(s), NEW e, e = Elements(s[i])
  PROVE  1 \in DOMAIN e
<1>1. s \in Seq(Messages)
  BY ParserAssumption
<1>2. s[i] \in Messages
  BY <1>1, ElementOfSeq
<1>3. Len(e) \in Nat /\ Len(e) >= 2 /\ DOMAIN e = 1..Len(e)
  BY <1>2, ShapeOfMessage, Zenon
<1> QED BY <1>3

-----------------------------------------------------------------------------
(* The place in the input.                                                 *)

\* Where llhttp can be.
Placed ==
  /\ script \in Scripts
  /\ message \in 1..Len(script) + 1
  /\ More => at \in DOMAIN Elements(script[message]) /\ off \in 0..Len(Current.text)
  /\ left \in 0..MaxRead

LEMMA ScriptLength ==
  ASSUME Placed
  PROVE  Len(script) \in Nat /\ message \in Nat /\ (More => message \in 1..Len(script))
<1>1. script \in Seq(Messages)
  BY ParserAssumption DEF Placed
<1> QED BY <1>1 DEF Placed, More

(* The element llhttp is in, and what of it this read holds.               *)
LEMMA Position ==
  ASSUME Placed, More
  PROVE  /\ Current.kind = Kind /\ Current.text \in Text
         /\ Kind \in {"url", "name", "value", "headers", "body", "done", "garbage"}
         /\ (Kind = "url") = (at = 1)
         /\ Kind = "done" => Current.text = <<>>
         /\ Kind \notin {"done", "garbage"} => at + 1 \in DOMAIN Elements(script[message])
         /\ at \in Nat \ {0} /\ off \in Nat /\ left \in Nat /\ Len(Current.text) \in Nat
         /\ off <= Len(Current.text)
<1> DEFINE e == Elements(script[message])
<1>1. message \in 1..Len(script)
  BY ScriptLength
<1>2. script \in Scripts /\ at \in DOMAIN e /\ off \in 0..Len(Current.text)
  BY Zenon DEF Placed
<1>3. Current = e[at] /\ Current.kind = Kind
  BY Zenon DEF Current, Kind
<1>4. /\ Len(e) \in Nat /\ at \in 1..Len(e)
      /\ e[at].text \in Text
      /\ e[at].kind \in {"url", "name", "value", "headers", "body", "done", "garbage"}
      /\ (e[at].kind = "url") = (at = 1)
      /\ e[at].kind \in {"done", "garbage"} => e[at].text = <<>>
      /\ e[at].kind \notin {"done", "garbage"} => at + 1 \in DOMAIN e
  <2>1. PICK f : f = e
    OBVIOUS
  <2>2. at \in DOMAIN f
    BY <1>2, <2>1
  <2> HIDE DEF e
  <2>3. /\ DOMAIN f = 1..Len(f) /\ Len(f) \in Nat /\ at \in 1..Len(f)
        /\ f[at].text \in Text
        /\ f[at].kind \in {"url", "name", "value", "headers", "body", "done", "garbage"}
        /\ (f[at].kind = "url") = (at = 1)
        /\ f[at].kind \in {"done", "garbage"} => f[at].text = <<>>
        /\ f[at].kind \notin {"done", "garbage"} => at + 1 \in DOMAIN f
    BY <1>1, <1>2, <2>1, <2>2, ElementOfScript, SMT DEF e
  <2> QED BY <2>1, <2>3, Zenon
<1> HIDE DEF e
<1>5. at \in Nat \ {0}
  BY <1>4
<1>6. Current.text \in Text
  BY <1>3, <1>4, Zenon
<1>7. Len(Current.text) \in Nat
  BY <1>6 DEF Text
<1>8. off \in Nat /\ off <= Len(Current.text)
  BY <1>2, <1>7
<1>9. left \in Nat
  BY ParserAssumption DEF Placed
<1> USE DEF e
<1> QED BY <1>3, <1>4, <1>5, <1>6, <1>7, <1>8, <1>9, Zenon

LEMMA PieceOfText ==
  ASSUME Placed, More
  PROVE  /\ Piece \in Text /\ Unreported \in Nat
         /\ Len(Piece) = IF left < Unreported THEN left ELSE Unreported
<1>1. /\ Current.text \in Seq(0..255) /\ Len(Current.text) \in Nat
      /\ off \in Nat /\ off <= Len(Current.text) /\ left \in Nat
  BY Position DEF Text
<1> DEFINE c == Current.text
           n == IF left < Unreported THEN left ELSE Unreported
<1>2. Unreported \in Nat /\ off + Unreported = Len(c)
  BY <1>1 DEF Unreported
<1>3. n \in Nat /\ off + n <= Len(c)
  BY <1>1, <1>2
<1>4. Piece = SubSeq(c, off + 1, off + n)
  BY DEF Piece
<1> HIDE DEF c, n
<1>5. c \in Seq(0..255)
  BY <1>1 DEF c
<1>6. /\ \A i \in off + 1..off + n : i \in 1..Len(c)
      /\ off + 1 \in Int /\ off + n \in Int
  BY <1>1, <1>3
<1>7. \A i \in off + 1..off + n : c[i] \in 0..255
  BY <1>5, <1>6, ElementOfSeq
<1>8. /\ Piece \in Seq(0..255)
      /\ Len(Piece) = IF off + 1 <= off + n THEN (off + n) - (off + 1) + 1 ELSE 0
  BY <1>4, <1>6, <1>7, SubSeqProperties
<1>9. Len(Piece) = n
  BY <1>1, <1>3, <1>8
<1> QED BY <1>2, <1>8, <1>9 DEF Text, n

(* llhttp goes on within the message, or at its end to the next.           *)
LEMMA AdvancePlaces ==
  ASSUME Placed, NEW kind \in {"url", "name", "value", "headers", "body", "done"},
         Reports(kind), Advance
  PROVE  /\ Placed'
         /\ kind # "done" => message' = message /\ ~(at' = 1 /\ off' = 0)
         /\ kind = "done" => message' = message + 1 /\ at' = 1 /\ off' = 0
<1>1. Kind = kind /\ (kind # "done" => left > 0)
  BY Zenon DEF Reports
<1>2. More
  BY <1>1, Zenon DEF Kind
<1>3. /\ script' = script /\ script \in Scripts
      /\ message \in 1..Len(script) /\ Len(script) \in Nat
  BY <1>2, ScriptLength DEF Advance, Placed
<1>4. /\ kind # "done" => at + 1 \in DOMAIN Elements(script[message])
      /\ kind = "done" => Current.text = <<>>
      /\ Current.text \in Text
      /\ at \in Nat \ {0} /\ off \in Nat /\ left \in Nat /\ Len(Current.text) \in Nat
      /\ off <= Len(Current.text)
  BY <1>1, <1>2, Position
<1>5. /\ Unreported \in Nat /\ Unreported = Len(Current.text) - off
      /\ Len(Piece) = IF left < Unreported THEN left ELSE Unreported
  BY <1>2, PieceOfText DEF Unreported
<1>6. Separator \in {0, 1} /\ (kind = "done" => Separator = 0 /\ Len(Current.text) = 0)
  <2>1. Separator \in {0, 1} /\ (kind = "done" => Separator = 0)
    BY <1>1, Zenon DEF Separator
  <2>2. Len(<<>>) = 0
    BY EmptySeq
  <2> QED BY <1>4, <2>1, <2>2, Zenon
<1>7. left <= MaxRead /\ MaxRead \in Nat
  BY ParserAssumption DEF Placed
<1>8. CASE left >= Unreported + Separator
  <2>1. off' = 0 /\ left' = left - Unreported - Separator
    BY <1>8, Zenon DEF Advance
  <2>2. left' \in 0..MaxRead
    <3>1. Unreported \in Nat /\ Separator \in {0, 1} /\ left \in Nat
      BY <1>4, <1>5, <1>6
    <3> QED BY ONLY <1>7, <1>8, <2>1, <3>1
  <2>3. CASE kind = "done"
    <3>1. message' = message + 1 /\ at' = 1
      BY <1>1, <1>8, <2>3, Zenon DEF Advance
    <3>2. message' \in 1..Len(script) + 1
      BY <1>3, <3>1
    <3>3. ASSUME More'
          PROVE  at' \in DOMAIN Elements(script'[message']) /\ off' \in 0..Len(Current.text)'
      <4>1. message' \in 1..Len(script')
        BY <1>3, <3>2, <3>3 DEF More
      <4>2. 1 \in DOMAIN Elements(script'[message'])
        BY <1>3, <4>1, FirstOfMessage, Zenon
      <4>3. Elements(script'[message'])[1].text \in Text
        BY <1>3, <4>1, <4>2, ElementOfScript, SMT
      <4>4. Current' = Elements(script'[message'])[1]
        BY <3>1 DEF Current
      <4>5. 0 \in 0..Len(Current.text)'
        BY <4>3, <4>4 DEF Text
      <4> QED BY <2>1, <3>1, <4>2, <4>5, Zenon
    <3>4. Placed'
      BY <1>3, <2>2, <3>2, <3>3, Zenon DEF Placed
    <3> QED BY <2>1, <2>3, <3>1, <3>4, Zenon
  <2>4. CASE kind # "done"
    <3>1. message' = message /\ at' = at + 1
      BY <1>1, <1>8, <2>4, Zenon DEF Advance
    <3>2. at + 1 \in DOMAIN Elements(script[message]) /\ at + 1 # 1
      BY <1>4, <2>4
    <3>3. Elements(script[message])[at + 1].text \in Text
      BY <1>3, <3>2, ElementOfScript, SMT
    <3>4. Current' = Elements(script[message])[at + 1]
      BY <1>3, <3>1, Zenon DEF Current
    <3>5. 0 \in 0..Len(Current.text)'
      BY <3>3, <3>4 DEF Text
    <3>6. message' \in 1..Len(script) + 1
      BY <1>3, <3>1
    <3>7. Placed'
      BY <1>3, <2>1, <2>2, <3>1, <3>2, <3>5, <3>6, Zenon DEF Placed
    <3> QED BY <2>4, <3>1, <3>2, <3>7, Zenon
  <2> QED BY <2>3, <2>4
<1>9. CASE ~(left >= Unreported + Separator)
  <2>1. off' = off + Len(Piece) /\ left' = 0 /\ message' = message /\ at' = at
    BY <1>9, Zenon DEF Advance
  <2>2. kind # "done"
    <3>1. SUFFICES ASSUME kind = "done"
                   PROVE  FALSE
      OBVIOUS
    <3>2. Separator = 0 /\ Len(Current.text) = 0
      BY <1>6, <3>1
    <3>3. /\ off \in Nat /\ left \in Nat /\ off <= Len(Current.text)
          /\ Unreported = Len(Current.text) - off
      BY <1>4, <1>5
    <3> QED BY ONLY <1>9, <3>2, <3>3
  <2>3. Len(Piece) = left /\ left <= Unreported
    <3>1. Unreported \in Nat /\ Separator \in {0, 1} /\ left \in Nat
      BY <1>4, <1>5, <1>6
    <3>2. Len(Piece) = IF left < Unreported THEN left ELSE Unreported
      BY <1>5
    <3> QED BY ONLY <1>9, <3>1, <3>2
  <2>4. off' # 0 /\ off' \in 0..Len(Current.text)
    BY <1>1, <1>4, <1>5, <2>1, <2>2, <2>3
  <2>5. Current' = Current
    BY <1>3, <2>1, Zenon DEF Current
  <2>6. at \in DOMAIN Elements(script[message])
    BY <1>2, Zenon DEF Placed
  <2>7. 0 \in 0..MaxRead /\ message \in 1..Len(script) + 1
    BY <1>3, <1>7
  <2>8. Placed'
    BY <1>3, <2>1, <2>4, <2>5, <2>6, <2>7, Zenon DEF Placed
  <2> QED BY <2>1, <2>2, <2>4, <2>8, Zenon
<1> QED BY <1>8, <1>9

(* A text that is not at its end stays or is at its end, and the piece is   *)
(* what was reported of it.                                                *)
LEMMA AdvanceGoesOn ==
  ASSUME Placed, NEW kind \in {"url", "name", "value", "headers", "body"},
         Reports(kind), Advance,
         NEW c, c = Current.text, NEW n, n = Len(Piece)
  PROVE  /\ UNCHANGED <<script, message>>
         /\ c \in Text /\ off \in Nat /\ n \in Nat /\ off + n <= Len(c) /\ Len(c) \in Nat
         /\ Piece = SubSeq(c, off + 1, off + n)
         /\ \/ at' = at /\ off' = off + n /\ off' # 0
            \/ at' = at + 1 /\ off' = 0 /\ off + n = Len(c)
<1>1. Kind = kind /\ left > 0 /\ kind # "done"
  BY Zenon DEF Reports
<1>2. More
  BY <1>1, Zenon DEF Kind
<1>3. /\ c \in Text /\ off \in Nat /\ left \in Nat /\ Len(c) \in Nat /\ off <= Len(c)
  BY <1>2, Position
<1>4. /\ Unreported \in Nat /\ Unreported = Len(c) - off
      /\ n = IF left < Unreported THEN left ELSE Unreported
  BY <1>2, PieceOfText DEF Unreported
<1>5. Separator \in {0, 1}
  BY Zenon DEF Separator
<1>6. Piece = SubSeq(c, off + 1, off + n)
  BY <1>4, Zenon DEF Piece
<1>7. UNCHANGED <<script, message>>
  BY <1>1, Zenon DEF Advance
<1>8. CASE left >= Unreported + Separator
  <2>1. at' = at + 1 /\ off' = 0
    BY <1>1, <1>8, Zenon DEF Advance
  <2>2. n = Unreported
    BY ONLY <1>3, <1>4, <1>5, <1>8
  <2> QED BY <1>3, <1>4, <1>6, <1>7, <2>1, <2>2
<1>9. CASE ~(left >= Unreported + Separator)
  <2>1. at' = at /\ off' = off + n
    BY <1>1, <1>9, Zenon DEF Advance
  <2>2. n = left /\ n <= Unreported
    BY ONLY <1>3, <1>4, <1>5, <1>9
  <2> QED BY <1>1, <1>3, <1>4, <1>6, <1>7, <2>1, <2>2
<1> QED BY <1>8, <1>9

LEMMA StaysPlaced ==
  ASSUME Placed, UNCHANGED <<script, message, at, off>>, left' \in 0..MaxRead
  PROVE  Placed'
<1>1. Current' = Current /\ (More' <=> More)
  BY Zenon DEF Current, More
<1> QED BY <1>1, Zenon DEF Placed

(* A callback moves on in the input, or stops the parser where it is.      *)
LEMMA CallbackMoves ==
  ASSUME Callback
  PROVE  /\ executing /\ rc = "ok" /\ More
         /\ \/ UNCHANGED input /\ rc' # "ok"
            \/ /\ UNCHANGED rc
               /\ \E kind \in {"url", "name", "value", "headers", "body", "done"} :
                    Reports(kind) /\ Advance
<1> DEFINE Goal ==
      /\ executing /\ rc = "ok" /\ More
      /\ \/ UNCHANGED input /\ rc' # "ok"
         \/ /\ UNCHANGED rc
            /\ \E kind \in {"url", "name", "value", "headers", "body", "done"} :
                 Reports(kind) /\ Advance
<1>1. ASSUME NEW kind \in {"url", "name", "value", "headers", "body", "done", "garbage"},
             Reports(kind)
      PROVE  executing /\ rc = "ok" /\ More
  BY <1>1, Zenon DEF Reports, Kind
<1>2. ASSUME NEW kind \in {"url", "name", "value"}, Reports(kind), Refuse \/ Charge
      PROVE  Goal
  <2>1. executing /\ rc = "ok" /\ More
    BY <1>1, <1>2, Zenon
  <2>2. CASE Refuse
    BY <2>1, <2>2, Zenon DEF Refuse
  <2>3. CASE Charge
    BY <1>2, <2>1, <2>3, Zenon DEF Charge
  <2> QED BY <1>2, <2>2, <2>3, Zenon
<1>3. CASE OnUrl
  BY <1>2, <1>3, Zenon DEF OnUrl
<1>4. CASE OnHeaderField
  BY <1>2, <1>4, Zenon DEF OnHeaderField
<1>5. CASE OnHeaderValue
  BY <1>2, <1>5, Zenon DEF OnHeaderValue
<1>6. CASE OnHeadersComplete
  BY <1>1, <1>6, Zenon DEF OnHeadersComplete
<1>7. CASE OnBody
  BY <1>1, <1>7, Zenon DEF OnBody
<1>8. CASE OnMessageComplete
  <2>1. executing /\ rc = "ok" /\ More /\ Reports("done")
    BY <1>1, <1>8, Zenon DEF OnMessageComplete
  <2>2. \/ rc' = "user" /\ UNCHANGED input
        \/ rc' = "ok" /\ Advance
    BY <1>8, Zenon DEF OnMessageComplete
  <2> QED BY <2>1, <2>2, Zenon
<1>9. CASE Invalid
  BY <1>1, <1>9, Zenon DEF Invalid
<1> QED BY <1>3, <1>4, <1>5, <1>6, <1>7, <1>8, <1>9, Zenon DEF Callback

LEMMA PlacedStep ==
  ASSUME Placed, [Next]_vars
  PROVE  Placed'
<1>1. ASSUME NEW n \in 1..MaxRead, Execute(n)
      PROVE  Placed'
  <2>1. left' \in 0..MaxRead
    BY <1>1, ParserAssumption DEF Execute
  <2> QED BY <1>1, <2>1, StaysPlaced, Zenon DEF Execute
<1>2. CASE Callback
  <2>1. CASE UNCHANGED input
    BY <2>1, StaysPlaced, Zenon DEF input, Placed
  <2>2. ASSUME NEW kind \in {"url", "name", "value", "headers", "body", "done"},
               Reports(kind), Advance
        PROVE  Placed'
    BY <2>2, AdvancePlaces, Zenon
  <2> QED BY <1>2, <2>1, <2>2, CallbackMoves, Zenon
<1>3. CASE ExecuteReturns
  <2>1. left' \in 0..MaxRead
    BY <1>3, ParserAssumption DEF ExecuteReturns
  <2> QED BY <1>3, <2>1, StaysPlaced, Zenon DEF ExecuteReturns
<1>4. CASE UNCHANGED vars
  BY <1>4, StaysPlaced, Zenon DEF vars, input, Placed
<1> QED BY <1>1, <1>2, <1>3, <1>4, Zenon DEF Next

-----------------------------------------------------------------------------
(* What the callbacks put together.                                        *)

Typed(map) == DOMAIN map \subseteq Text /\ \A n \in DOMAIN map : map[n] \in Text

\* The types of what the parser keeps of a request.
Kept ==
  /\ target \in Text /\ field \in Text /\ value \in Text /\ body \in Text
  /\ Typed(headers)
  /\ readingValue \in BOOLEAN
  /\ headerBytes \in Nat

LEMMA EmptyText == <<>> \in Text
BY EmptySeq DEF Text

LEMMA NoHeaders == Typed(<<>>)
<1>1. DOMAIN <<>> = {}
  OBVIOUS
<1> QED BY <1>1, Zenon DEF Typed

LEMMA Joined ==
  ASSUME NEW s \in Text, NEW t \in Text
  PROVE  s \o t \in Text
BY ConcatProperties DEF Text

LEMMA CommittedIsTyped ==
  ASSUME Kept
  PROVE  Typed(Committed)
<1>1. /\ field \in Text /\ value \in Text
      /\ DOMAIN headers \subseteq Text /\ \A n \in DOMAIN headers : headers[n] \in Text
  BY Zenon DEF Kept, Typed
<1>2. DOMAIN Store(field, value) = DOMAIN headers \cup {field}
  BY Zenon DEF Store
<1>3. \A n \in DOMAIN headers \cup {field} : Store(field, value)[n] \in Text
  BY <1>1, Zenon DEF Store
<1> HIDE DEF Kept
<1>4. DOMAIN Committed \subseteq Text
  BY <1>1, <1>2, Zenon DEF Committed
<1>5. \A n \in DOMAIN Committed : Committed[n] \in Text
  <2>1. CASE field # <<>>
    BY <1>2, <1>3, <2>1, Zenon DEF Committed
  <2>2. CASE field = <<>>
    BY <1>1, <2>2, Zenon DEF Committed
  <2> QED BY <2>1, <2>2
<1> QED BY <1>4, <1>5, Zenon DEF Typed

LEMMA PieceCharged ==
  ASSUME Placed, Kept, More
  PROVE  Piece \in Text /\ headerBytes + Len(Piece) \in Nat
<1>1. Piece \in Text
  BY PieceOfText
<1>2. Len(Piece) \in Nat /\ headerBytes \in Nat
  BY <1>1 DEF Text, Kept
<1> QED BY <1>1, <1>2

LEMMA RefusedKept ==
  ASSUME Placed, Kept, More, Refuse
  PROVE  Kept'
<1>1. headerBytes' \in Nat
  BY PieceCharged, Zenon DEF Refuse
<1>2. UNCHANGED <<target, field, value, body, headers, readingValue>>
  BY Zenon DEF Refuse
<1> QED BY <1>1, <1>2, Zenon DEF Kept

LEMMA ChargedKept ==
  ASSUME Placed, Kept, More, Charge,
         target' \in Text, field' \in Text, value' \in Text, body' \in Text,
         Typed(headers'),
         readingValue' \in BOOLEAN
  PROVE  Kept'
<1>1. headerBytes' \in Nat
  BY PieceCharged, Zenon DEF Charge
<1> QED BY <1>1, Zenon DEF Kept

LEMMA SameRequestKept ==
  ASSUME Kept, UNCHANGED request
  PROVE  Kept'
<1>1. UNCHANGED <<target, field, value, body, headers, readingValue, headerBytes>>
  BY Zenon DEF request
<1>2. /\ target \in Text /\ field \in Text /\ value \in Text /\ body \in Text
      /\ Typed(headers) /\ readingValue \in BOOLEAN /\ headerBytes \in Nat
  BY Zenon DEF Kept
<1>3. /\ target' \in Text /\ field' \in Text /\ value' \in Text /\ body' \in Text
      /\ Typed(headers') /\ readingValue' \in BOOLEAN /\ headerBytes' \in Nat
  BY <1>1, <1>2, Zenon
<1> QED BY <1>3, Zenon DEF Kept

LEMMA KeptByCallback ==
  ASSUME Placed, Kept, Callback
  PROVE  Kept'
<1>1. /\ More /\ Piece \in Text
      /\ Typed(Committed)
      /\ target \in Text /\ field \in Text /\ value \in Text /\ body \in Text
      /\ Typed(headers)
      /\ readingValue \in BOOLEAN
  BY CallbackMoves, PieceCharged, CommittedIsTyped, Zenon DEF Kept
<1>2. CASE OnUrl
  <2>1. CASE Charge /\ target' = target \o Piece
                    /\ UNCHANGED <<field, value, body, headers, readingValue>>
    <3>1. target' \in Text
      BY <1>1, <2>1, Joined, Zenon
    <3> QED BY <1>1, <2>1, <3>1, ChargedKept, Zenon
  <2> QED BY <1>1, <1>2, <2>1, RefusedKept, Zenon DEF OnUrl
<1>3. CASE OnHeaderField
  <2>1. CASE Refuse
    BY <1>1, <2>1, RefusedKept
  <2>2. CASE ~Refuse
    <3>1. /\ Charge /\ readingValue' = FALSE /\ UNCHANGED <<target, body>>
          /\ \/ headers' = Committed /\ field' = Piece /\ value' = <<>>
             \/ field' = field \o Piece /\ UNCHANGED <<headers, value>>
      BY <1>3, <2>2, Zenon DEF OnHeaderField
    <3>2. target' \in Text /\ field' \in Text /\ value' \in Text /\ body' \in Text
      BY <1>1, <3>1, Joined, EmptyText, Zenon
    <3>3. Typed(headers')
      BY <1>1, <3>1, Zenon
    <3> QED BY <1>1, <3>1, <3>2, <3>3, ChargedKept, Zenon
  <2> QED BY <2>1, <2>2
<1>4. CASE OnHeaderValue
  <2>1. CASE /\ Charge /\ readingValue' = TRUE /\ value' = value \o Piece
             /\ UNCHANGED <<target, field, body, headers>>
    <3>1. value' \in Text
      BY <1>1, <2>1, Joined, Zenon
    <3> QED BY <1>1, <2>1, <3>1, ChargedKept, Zenon
  <2> QED BY <1>1, <1>4, <2>1, RefusedKept, Zenon DEF OnHeaderValue
<1>5. CASE OnHeadersComplete
  <2>1. /\ headers' = Committed /\ field' = <<>> /\ value' = <<>>
        /\ UNCHANGED <<target, body, readingValue, headerBytes>>
    BY <1>5, Zenon DEF OnHeadersComplete
  <2>2. Typed(headers') /\ field' \in Text /\ value' \in Text
    BY <1>1, <2>1, EmptyText, Zenon
  <2> QED BY <2>1, <2>2, Zenon DEF Kept
<1>6. CASE OnBody
  <2>1. /\ body' = body \o Piece
        /\ UNCHANGED <<target, field, value, headers, readingValue, headerBytes>>
    BY <1>6, Zenon DEF OnBody
  <2>2. Typed(headers') /\ body' \in Text
    BY <1>1, <2>1, Joined, Zenon
  <2> QED BY <2>1, <2>2, Zenon DEF Kept
<1>7. CASE OnMessageComplete
  <2>1. UNCHANGED request \/ ResetRequest
    BY <1>7, Zenon DEF OnMessageComplete
  <2>2. CASE ResetRequest
    <3>1. 0 \in Nat
      OBVIOUS
    <3> QED BY <2>2, <3>1, EmptyText, NoHeaders, Zenon DEF ResetRequest, Kept
  <2> QED BY <2>1, <2>2, SameRequestKept
<1>8. CASE Invalid
  BY <1>8, SameRequestKept, Zenon DEF Invalid
<1> QED BY <1>2, <1>3, <1>4, <1>5, <1>6, <1>7, <1>8, Zenon DEF Callback

LEMMA KeptStep ==
  ASSUME Placed, Kept, [Next]_vars
  PROVE  Kept'
<1>1. CASE Callback
  BY <1>1, KeptByCallback
<1>2. ASSUME NEW n \in 1..MaxRead, Execute(n)
      PROVE  Kept'
  BY <1>2, SameRequestKept, Zenon DEF Execute
<1>3. CASE ExecuteReturns
  BY <1>3, SameRequestKept, Zenon DEF ExecuteReturns
<1>4. CASE UNCHANGED vars
  BY <1>4, SameRequestKept, Zenon DEF vars
<1> QED BY <1>1, <1>2, <1>3, <1>4, Zenon DEF Next

-----------------------------------------------------------------------------
(* How a read ends.                                                        *)

\* The types of what execute() and the handler's failure leave.
Ended ==
  /\ executing \in BOOLEAN /\ headerLimitHit \in BOOLEAN
  /\ rc \in {"ok", "user", "invalid"}
  /\ errorStatus \in {400, 431}

(* What a callback does to flags and budget.                               *)
LEMMA FlagsByCallback ==
  ASSUME Callback
  PROVE  /\ UNCHANGED <<executing, errorStatus>>
         /\ \/ Refuse
            \/ Charge
            \/ /\ rc' \in {"ok", "user"} /\ UNCHANGED headerLimitHit
               /\ headerBytes' \in {0, headerBytes}
            \/ rc' = "invalid" /\ UNCHANGED <<headerLimitHit, headerBytes>>
<1>1. CASE OnUrl
  BY <1>1, Zenon DEF OnUrl, Refuse, Charge
<1>2. CASE OnHeaderField
  BY <1>2, Zenon DEF OnHeaderField, Refuse, Charge
<1>3. CASE OnHeaderValue
  BY <1>3, Zenon DEF OnHeaderValue, Refuse, Charge
<1>4. rc = "ok"
  BY CallbackMoves
<1>5. CASE OnHeadersComplete
  BY <1>4, <1>5, Zenon DEF OnHeadersComplete
<1>6. CASE OnBody
  BY <1>4, <1>6, Zenon DEF OnBody
<1>7. CASE OnMessageComplete
  <2>1. rc' \in {"ok", "user"} /\ UNCHANGED <<executing, headerLimitHit, errorStatus>>
    BY <1>4, <1>7, Zenon DEF OnMessageComplete
  <2>2. headerBytes' \in {0, headerBytes}
    BY <1>7, Zenon DEF OnMessageComplete, ResetRequest, request
  <2> QED BY <2>1, <2>2
<1>8. CASE Invalid
  BY <1>8, Zenon DEF Invalid, request
<1> QED BY <1>1, <1>2, <1>3, <1>5, <1>6, <1>7, <1>8, Zenon DEF Callback

LEMMA EndedStep ==
  ASSUME Ended, [Next]_vars
  PROVE  Ended'
<1>1. CASE Callback
  <2>1. /\ UNCHANGED <<executing, errorStatus>>
        /\ rc' \in {"ok", "user", "invalid"} /\ headerLimitHit' \in {TRUE, headerLimitHit}
    BY <1>1, FlagsByCallback, CallbackMoves, Zenon DEF Refuse, Charge
  <2>2. /\ executing \in BOOLEAN /\ headerLimitHit \in BOOLEAN /\ errorStatus \in {400, 431}
    BY Zenon DEF Ended
  <2>3. executing' \in BOOLEAN /\ headerLimitHit' \in BOOLEAN
    BY ONLY <2>1, <2>2
  <2>4. errorStatus' \in {400, 431}
    BY ONLY <2>1, <2>2, Zenon
  <2> QED BY ONLY <2>1, <2>3, <2>4, Zenon DEF Ended
<1>2. ASSUME NEW n \in 1..MaxRead, Execute(n)
      PROVE  Ended'
  BY <1>2 DEF Execute, Ended
<1>3. CASE ExecuteReturns
  <2>1. /\ executing' = FALSE /\ UNCHANGED <<rc, headerLimitHit>>
        /\ errorStatus' = IF rc = "ok" THEN errorStatus ELSE IF headerLimitHit THEN 431 ELSE 400
    BY <1>3, Zenon DEF ExecuteReturns
  <2>2. errorStatus' \in {400, 431}
    <3>1. CASE headerLimitHit
      BY <2>1, <3>1 DEF Ended
    <3>2. CASE ~headerLimitHit
      BY <2>1, <3>2 DEF Ended
    <3> QED BY <3>1, <3>2
  <2>3. executing' \in BOOLEAN /\ rc' \in {"ok", "user", "invalid"} /\ headerLimitHit' \in BOOLEAN
    BY <2>1 DEF Ended
  <2> QED BY <2>2, <2>3 DEF Ended
<1>4. CASE UNCHANGED vars
  BY <1>4 DEF vars, Ended
<1> QED BY <1>1, <1>2, <1>3, <1>4, Zenon DEF Next

LEMMA ReasonStep ==
  ASSUME Placed, Kept, Ended, ReasonInv, [Next]_vars
  PROVE  ReasonInv'
<1>1. headerBytes \in Nat /\ maxHeaderBytes \in Nat /\ headerLimitHit \in BOOLEAN
  BY ParserAssumption DEF Kept, Ended
<1>2. CASE Callback
  <2>1. executing' = TRUE /\ rc = "ok" /\ More
    BY <1>2, CallbackMoves, FlagsByCallback
  <2>2. headerBytes <= maxHeaderBytes /\ headerLimitHit = FALSE
    BY <2>1 DEF ReasonInv
  <2>3. headerBytes + Len(Piece) \in Nat
    BY <2>1, PieceCharged
  <2>4. CASE Refuse
    <3>1. headerBytes' > maxHeaderBytes /\ rc' = "user" /\ headerLimitHit' = TRUE
      BY <2>4 DEF Refuse, OverBudget
    <3> QED BY <2>1, <3>1 DEF ReasonInv
  <2>5. CASE Charge
    <3>1. headerBytes' <= maxHeaderBytes /\ rc' = "ok" /\ headerLimitHit' = FALSE
      BY <1>1, <2>1, <2>2, <2>3, <2>5 DEF Charge, OverBudget
    <3> QED BY <2>1, <3>1 DEF ReasonInv
  <2>6. CASE rc' \in {"ok", "user"} /\ UNCHANGED headerLimitHit /\ headerBytes' \in {0, headerBytes}
    <3>1. headerBytes' \in Nat /\ headerBytes' <= maxHeaderBytes
      BY <1>1, <2>2, <2>6
    <3> QED BY <1>1, <2>1, <2>2, <2>6, <3>1 DEF ReasonInv
  <2>7. CASE rc' = "invalid" /\ UNCHANGED <<headerLimitHit, headerBytes>>
    BY <2>1, <2>2, <2>7 DEF ReasonInv
  <2> QED BY <1>2, <2>4, <2>5, <2>6, <2>7, FlagsByCallback, Zenon
<1>3. ASSUME NEW n \in 1..MaxRead, Execute(n)
      PROVE  ReasonInv'
  BY <1>3 DEF Execute, request, ReasonInv
<1>4. CASE ExecuteReturns
  BY <1>4 DEF ExecuteReturns, request, ReasonInv
<1>5. CASE UNCHANGED vars
  BY <1>5 DEF vars, request, ReasonInv
<1> QED BY <1>2, <1>3, <1>4, <1>5, Zenon DEF Next

-----------------------------------------------------------------------------
(* Which message the parser is in.                                         *)

LEMMA AppendCounts ==
  ASSUME NEW s, s \in Seq(Range(s)), NEW x, NEW r, r = Append(s, x)
  PROVE  r \in Seq(Range(r)) /\ Len(r) = Len(s) + 1
<1> DEFINE S == Range(s) \cup {x}
<1>1. s \in Seq(S) /\ x \in S
  BY SeqMonotonic
<1>2. /\ r \in Seq(S) /\ Len(r) = Len(s) + 1
      /\ \A i \in 1..Len(s) : r[i] = s[i]
      /\ r[Len(s) + 1] = x
  BY <1>1, AppendProperties
<1>3. DOMAIN r = 1..Len(r) /\ Len(s) \in Nat
  BY <1>1, <1>2, LenProperties
<1> HIDE DEF S
<1>4. r \in [1..Len(r) -> Range(r)]
  <2>1. r = [i \in 1..Len(r) |-> r[i]]
    BY <1>2, LenProperties
  <2>2. \A i \in 1..Len(r) : r[i] \in Range(r)
    BY <1>3, Zenon DEF Range
  <2> QED BY <2>1, <2>2, Zenon
<1>5. Len(r) \in Nat
  BY <1>2, <1>3
<1>6. ASSUME NEW n \in Nat, NEW f \in [1..n -> Range(r)]
      PROVE  f \in Seq(Range(r))
  BY <1>6
<1>7. r \in Seq(Range(r))
  BY <1>4, <1>5, <1>6, Zenon
<1> QED BY <1>2, <1>7

LEMMA CountStep ==
  ASSUME Placed, CountInv, [Next]_vars
  PROVE  CountInv'
<1>1. ASSUME UNCHANGED <<delivered, script, message>>, rc' = rc \/ (rc = "ok" /\ More)
      PROVE  CountInv'
  BY <1>1 DEF CountInv, More
<1>2. CASE Callback
  <2>1. rc = "ok" /\ More /\ script' = script /\ Len(delivered) = message - 1 /\ message \in Nat
    BY <1>2, CallbackMoves, ScriptLength DEF input, Advance, CountInv
  <2>2. CASE ~OnMessageComplete
    <3>1. delivered' = delivered
      BY <1>2, <2>2, Zenon DEF Callback, OnUrl, OnHeaderField, OnHeaderValue, OnHeadersComplete,
                               OnBody, Invalid, Refuse, Charge
    <3>2. message' = message
      <4>1. ASSUME NEW kind \in {"url", "name", "value", "headers", "body", "done"},
                   Reports(kind), Advance
            PROVE  message' = message
        <5>1. kind # "done"
          BY <1>2, <2>2, <4>1 DEF Callback, OnUrl, OnHeaderField, OnHeaderValue,
                                  OnHeadersComplete, OnBody, Invalid, Reports
        <5> QED BY <4>1, <5>1, AdvancePlaces
      <4> QED BY <1>2, <4>1, CallbackMoves DEF input
    <3> QED BY <1>1, <2>1, <3>1, <3>2
  <2>3. CASE OnMessageComplete
    <3>1. CASE UNCHANGED <<input, delivered>>
      BY <1>1, <2>1, <3>1 DEF input
    <3>2. ASSUME NEW r, delivered' = Append(delivered, r)
          PROVE  CountInv'
      <4>1. delivered' \in Seq(Range(delivered')) /\ Len(delivered') = message
        <5>1. delivered \in Seq(Range(delivered))
          BY Zenon DEF CountInv
        <5>2. delivered' \in Seq(Range(delivered')) /\ Len(delivered') = Len(delivered) + 1
          BY <3>2, <5>1, AppendCounts, Zenon
        <5>3. Len(delivered) + 1 = message
          BY <2>1
        <5> QED BY <5>2, <5>3, Zenon
      <4>2. CASE rc' = "ok" /\ Advance
        <5>1. message' = message + 1
          BY <2>3, <4>2, AdvancePlaces DEF OnMessageComplete
        <5> QED BY <2>1, <4>1, <4>2, <5>1 DEF CountInv
      <4>3. CASE rc' = "user" /\ UNCHANGED input
        BY <2>1, <4>1, <4>3 DEF CountInv, input, More
      <4> QED BY <2>3, <4>2, <4>3, Zenon DEF OnMessageComplete
    <3> QED BY <2>3, <3>1, <3>2, Zenon DEF OnMessageComplete
  <2> QED BY <2>2, <2>3
<1>3. ASSUME NEW n \in 1..MaxRead, Execute(n)
      PROVE  CountInv'
  BY <1>1, <1>3, Zenon DEF Execute
<1>4. CASE ExecuteReturns
  BY <1>1, <1>4, Zenon DEF ExecuteReturns
<1>5. CASE UNCHANGED vars
  BY <1>1, <1>5, Zenon DEF vars, input
<1> QED BY <1>2, <1>3, <1>4, <1>5, Zenon DEF Next

-----------------------------------------------------------------------------
(* The budget.                                                             *)

LEMMA CountedBytes ==
  ASSUME NEW m \in Messages, NEW e, e = Elements(m)
  PROVE  /\ IsFiniteSet(Counted(m))
         /\ \A b : b \in Counted(m) <=>
              \E k \in DOMAIN e : /\ e[k].kind \in {"url", "name", "value"}
                                /\ b \in {k} \X (1..Len(e[k].text))
<1> DEFINE Places == {i \in DOMAIN e : e[i].kind \in {"url", "name", "value"}}
           Bytes(k) == {k} \X (1..Len(e[k].text))
<1>1. /\ Len(e) \in Nat /\ DOMAIN e = 1..Len(e)
      /\ \A i \in 1..Len(e) : e[i].text \in Text
  BY ShapeOfMessage, Zenon
<1>2. Counted(m) = UNION {Bytes(k) : k \in Places}
  BY Zenon DEF Counted
<1>3. ASSUME NEW k \in DOMAIN e PROVE IsFiniteSet(Bytes(k))
  <2>1. e[k].text \in Text
    BY <1>1, <1>3, Zenon
  <2>2. Len(e[k].text) \in Int /\ 1 \in Int
    BY <2>1 DEF Text
  <2>3. IsFiniteSet(1..Len(e[k].text))
    BY <2>2, FS_Interval
  <2> QED BY <2>3, FS_Singleton, FS_Product
<1>4. IsFiniteSet(DOMAIN e)
  BY <1>1, FS_Interval
<1>5. IsFiniteSet(Places)
  BY <1>4, FS_Subset
<1> HIDE DEF Places, Bytes
<1> DEFINE f == [k \in Places |-> Bytes(k)]
<1>6. IsFiniteSet({Bytes(k) : k \in Places})
  <2>1. f \in Surjection(Places, {Bytes(k) : k \in Places})
    BY Zenon DEF Surjection
  <2> QED BY <1>5, <2>1, FS_Surjection
<1>7. IsFiniteSet(Counted(m))
  <2>1. \A T \in {Bytes(k) : k \in Places} : IsFiniteSet(T)
    <3>1. Places \subseteq DOMAIN e
      BY DEF Places
    <3> QED BY <1>3, <3>1, Zenon
  <2> QED BY <1>2, <1>6, <2>1, FS_UNION
<1> USE DEF Places, Bytes
<1> QED BY <1>2, <1>7, Zenon

LEMMA SeenIsFinite ==
  ASSUME NEW m \in Messages, NEW k, NEW o
  PROVE  /\ IsFiniteSet(Seen(m, k, o)) /\ HeaderSize(m) \in Nat
         /\ Cardinality(Seen(m, k, o)) \in Nat
         /\ Cardinality(Seen(m, k, o)) <= HeaderSize(m)
<1>1. IsFiniteSet(Counted(m))
  BY CountedBytes
<1>2. Seen(m, k, o) \in SUBSET Counted(m)
  BY Zenon DEF Seen
<1> QED BY <1>1, <1>2, FS_Subset, FS_CardinalityType DEF HeaderSize

(* What a piece of n bytes adds to the bytes seen.                         *)
LEMMA SeenGrows ==
  ASSUME NEW m \in Messages, NEW e, e = Elements(m), NEW k \in DOMAIN e, NEW o \in Nat, NEW n \in Nat,
         o + n <= Len(e[k].text)
  PROVE  /\ e[k].kind \in {"url", "name", "value"} =>
              Cardinality(Seen(m, k, o + n)) = Cardinality(Seen(m, k, o)) + n
         /\ e[k].kind \notin {"url", "name", "value"} => Seen(m, k, o + n) = Seen(m, k, o)
<1>1. /\ Len(e) \in Nat /\ DOMAIN e = 1..Len(e) /\ k \in 1..Len(e)
      /\ \A i \in 1..Len(e) : e[i].text \in Text
  BY ShapeOfMessage, Zenon
<1>2. Len(e[k].text) \in Nat /\ k \in Nat
  BY <1>1 DEF Text
<1>3. \A b : b \in Counted(m) <=>
         \E i \in DOMAIN e : /\ e[i].kind \in {"url", "name", "value"}
                           /\ b \in {i} \X (1..Len(e[i].text))
  BY CountedBytes
<1> DEFINE Old == Seen(m, k, o)
           Piece_ == {k} \X (o + 1..o + n)
<1>4. CASE e[k].kind \notin {"url", "name", "value"}
  <2>1. ASSUME NEW b \in Counted(m) PROVE b[1] # k
    BY <1>3, <1>4
  <2> QED BY <1>4, <2>1, Zenon DEF Seen
<1>5. CASE e[k].kind \in {"url", "name", "value"}
  <2>1. ASSUME NEW b
        PROVE  b \in Piece_ => b \in Counted(m) /\ b[1] = k /\ b[2] \in o + 1..o + n
    <3>1. SUFFICES ASSUME b \in Piece_
                   PROVE  b \in {k} \X (1..Len(e[k].text)) /\ b[1] = k /\ b[2] \in o + 1..o + n
      BY <1>3, <1>5
    <3>2. o + 1..o + n \subseteq 1..Len(e[k].text)
      BY <1>2
    <3> QED BY <3>1, <3>2
  <2>2. ASSUME NEW b \in Counted(m), b[1] = k
        PROVE  b[2] \in Nat /\ (b[2] \in o + 1..o + n => b \in Piece_)
    <3>1. PICK i \in DOMAIN e : b \in {i} \X (1..Len(e[i].text))
      BY <1>3
    <3>2. i = k /\ b = <<k, b[2]>> /\ b[2] \in 1..Len(e[k].text)
      BY <2>2, <3>1
    <3> QED BY <1>2, <3>2
  <2>3. Seen(m, k, o + n) = Old \cup Piece_
    <3>1. ASSUME NEW b \in Counted(m), b[1] = k
          PROVE  b[2] <= o + n <=> b[2] <= o \/ b \in Piece_
      BY <2>1, <2>2, <3>1
    <3>2. ASSUME NEW b \in Counted(m), b[1] < k
          PROVE  b \in Seen(m, k, o + n) /\ b \in Old
      BY <3>2, Zenon DEF Seen
    <3>3. \A b \in Seen(m, k, o + n) : b \in Counted(m) /\ (b[1] < k \/ (b[1] = k /\ b[2] <= o + n))
      BY Zenon DEF Seen
    <3>4. \A b \in Old : b \in Counted(m) /\ (b[1] < k \/ (b[1] = k /\ b[2] <= o))
      BY Zenon DEF Seen
    <3>5. ASSUME NEW b \in Old \cup Piece_ PROVE b \in Seen(m, k, o + n)
      BY <2>1, <3>1, <3>2, <3>4, Zenon DEF Seen
    <3>6. ASSUME NEW b \in Seen(m, k, o + n) PROVE b \in Old \cup Piece_
      BY <3>1, <3>2, <3>3, Zenon DEF Seen
    <3> QED BY <3>5, <3>6, Zenon
  <2>4. Old \cap Piece_ = {}
    <3>1. ASSUME NEW b \in Old, b \in Piece_ PROVE FALSE
      <4>1. b[1] = k /\ b[2] \in o + 1..o + n /\ (b[1] < k \/ b[2] <= o)
        BY <2>1, <3>1, Zenon DEF Seen
      <4> QED BY <1>2, <4>1
    <3> QED BY <3>1, Zenon
  <2>5. IsFiniteSet(Old) /\ Cardinality(Old) \in Nat
    BY SeenIsFinite
  <2>6. IsFiniteSet(Piece_) /\ Cardinality(Piece_) = n
    <3>1. IsFiniteSet(o + 1..o + n) /\ Cardinality(o + 1..o + n) = n
      <4>1. o + 1 \in Int /\ o + n \in Int
        OBVIOUS
      <4>2. /\ IsFiniteSet(o + 1..o + n)
            /\ Cardinality(o + 1..o + n) = IF o + 1 > o + n THEN 0 ELSE (o + n) - (o + 1) + 1
        BY <4>1, FS_Interval
      <4> QED BY <4>2
    <3>2. IsFiniteSet({k}) /\ Cardinality({k}) = 1
      BY FS_Singleton
    <3>3. IsFiniteSet(Piece_) /\ Cardinality(Piece_) = Cardinality({k}) * Cardinality(o + 1..o + n)
      BY <3>1, <3>2, FS_Product
    <3> QED BY <3>1, <3>2, <3>3
  <2> HIDE DEF Old, Piece_
  <2>7. Cardinality(Old \cup Piece_) = Cardinality(Old) + Cardinality(Piece_) - Cardinality(Old \cap Piece_)
    BY <2>5, <2>6, FS_Union
  <2>8. Cardinality(Old \cup Piece_) = Cardinality(Old) + n
    <3>1. Cardinality(Old \cap Piece_) = 0
      BY <2>4, FS_EmptySet, Zenon
    <3> QED BY ONLY <2>5, <2>6, <2>7, <3>1
  <2> QED BY <1>5, <2>3, <2>8, Zenon DEF Old
<1> QED BY <1>4, <1>5

(* Nothing is seen at the beginning, the end of one element is the         *)
(* beginning of the next, and at the end of the message all is seen.       *)
LEMMA SeenPlaces ==
  ASSUME NEW m \in Messages, NEW e, e = Elements(m), NEW k \in DOMAIN e
  PROVE  /\ Cardinality(Seen(m, 1, 0)) = 0
         /\ Seen(m, k + 1, 0) = Seen(m, k, Len(e[k].text))
         /\ e[k].kind = "done" => \A o : Seen(m, k, o) = Counted(m)
<1>1. /\ Len(e) \in Nat /\ DOMAIN e = 1..Len(e) /\ k \in 1..Len(e) /\ k \in Nat
      /\ \A i \in 1..Len(e) : e[i].text \in Text
      /\ \A i \in 1..Len(e) : i # Len(e) => e[i].kind \notin {"done", "garbage"}
  BY ShapeOfMessage
<1>2. \A b : b \in Counted(m) <=>
         \E i \in DOMAIN e : /\ e[i].kind \in {"url", "name", "value"}
                           /\ b \in {i} \X (1..Len(e[i].text))
  BY CountedBytes
<1>3. ASSUME NEW b \in Counted(m)
      PROVE  /\ b[1] \in 1..Len(e) /\ b[2] \in Nat \ {0} /\ b[2] <= Len(e[b[1]].text)
             /\ e[b[1]].kind \in {"url", "name", "value"}
  <2>1. PICK i \in DOMAIN e : /\ e[i].kind \in {"url", "name", "value"}
                              /\ b \in {i} \X (1..Len(e[i].text))
    BY <1>2
  <2>2. b[1] = i /\ b[2] \in 1..Len(e[i].text)
    BY <2>1
  <2>3. Len(e[i].text) \in Nat
    <3>1. e[i].text \in Text
      BY <1>1, <2>1, Zenon
    <3> QED BY <3>1 DEF Text
  <2>4. \A l \in Nat : \A y \in 1..l : y \in Nat \ {0} /\ y <= l
    OBVIOUS
  <2> QED BY <1>1, <2>1, <2>2, <2>3, <2>4, Zenon
<1>4. Cardinality(Seen(m, 1, 0)) = 0
  <2>1. ASSUME NEW b \in Counted(m) PROVE ~(b[1] < 1 \/ (b[1] = 1 /\ b[2] <= 0))
    BY <1>3
  <2>2. Seen(m, 1, 0) = {}
    BY <2>1, Zenon DEF Seen
  <2> QED BY <2>2, FS_EmptySet, Zenon
<1>5. Seen(m, k + 1, 0) = Seen(m, k, Len(e[k].text))
  <2>1. ASSUME NEW b \in Counted(m)
        PROVE  (b[1] < k + 1 \/ (b[1] = k + 1 /\ b[2] <= 0))
                 <=> (b[1] < k \/ (b[1] = k /\ b[2] <= Len(e[k].text)))
    <3>1. /\ b[1] \in 1..Len(e) /\ b[2] \in Nat \ {0}
          /\ (b[1] = k => b[2] <= Len(e[k].text))
      BY <1>3, Zenon
    <3>2. Len(e[k].text) \in Nat
      <4>1. e[k].text \in Text
        BY <1>1, Zenon
      <4> QED BY <4>1 DEF Text
    <3>3. PICK x, y, l, s : x = b[1] /\ y = b[2] /\ l = Len(e[k].text) /\ s = Len(e)
      OBVIOUS
    <3>4. /\ x \in 1..s /\ y \in Nat \ {0} /\ (x = k => y <= l) /\ l \in Nat /\ s \in Nat /\ k \in Nat
      BY <1>1, <3>1, <3>2, <3>3, Zenon
    <3>5. (x < k + 1 \/ (x = k + 1 /\ y <= 0)) <=> (x < k \/ (x = k /\ y <= l))
      BY ONLY <3>4
    <3> QED BY <3>3, <3>5, Zenon
  <2> QED BY <2>1, Zenon DEF Seen
<1>6. ASSUME e[k].kind = "done", NEW o
      PROVE  Seen(m, k, o) = Counted(m)
  <2>1. k = Len(e)
    BY <1>1, <1>6
  <2>2. ASSUME NEW b \in Counted(m) PROVE b[1] < k
    <3>1. b[1] # k
      BY <1>3, <1>6
    <3> QED BY <1>3, <2>1, <3>1
  <2> QED BY <2>2, Zenon DEF Seen
<1> QED BY <1>4, <1>5, <1>6, Zenon

LEMMA MessageOfScript ==
  ASSUME Placed, More
  PROVE  /\ script[message] \in Messages /\ message \in Nat
         /\ at \in DOMAIN Elements(script[message])
         /\ Current = Elements(script[message])[at] /\ Kind = Elements(script[message])[at].kind
<1>1. script \in Seq(Messages) /\ message \in 1..Len(script)
  BY ScriptLength, ParserAssumption DEF Placed
<1> QED BY <1>1, ElementOfSeq DEF Placed, Current, Kind

LEMMA SeenAdvances ==
  ASSUME Placed, NEW kind \in {"url", "name", "value", "headers", "body"},
         Reports(kind), Advance, NEW m, m = script[message],
         NEW k, k = at', NEW o, o = off'
  PROVE  Cardinality(Seen(m, k, o)) =
           Cardinality(Seen(m, at, off)) + (IF kind \in {"url", "name", "value"} THEN Len(Piece) ELSE 0)
<1>1. More /\ Kind = kind
  BY Zenon DEF Reports, Kind
<1>2. PICK e, c, n : e = Elements(m) /\ c = Current.text /\ n = Len(Piece)
  OBVIOUS
<1>3. m \in Messages /\ at \in DOMAIN e /\ c = e[at].text /\ kind = e[at].kind
  BY <1>1, <1>2, MessageOfScript
<1>4. /\ off \in Nat /\ n \in Nat /\ off + n <= Len(c)
      /\ \/ k = at /\ o = off + n
         \/ k = at + 1 /\ o = 0 /\ off + n = Len(c)
  BY <1>2, AdvanceGoesOn
<1>5. Seen(m, k, o) = Seen(m, at, off + n)
  <2>1. Seen(m, at + 1, 0) = Seen(m, at, Len(e[at].text))
    BY <1>2, <1>3, SeenPlaces
  <2> QED BY <1>3, <1>4, <2>1, Zenon
<1>6. Cardinality(Seen(m, at, off)) \in Nat
  BY <1>3, SeenIsFinite
<1>7. CASE kind \in {"url", "name", "value"}
  <2>1. Cardinality(Seen(m, at, off + n)) = Cardinality(Seen(m, at, off)) + n
    BY ONLY <1>2, <1>3, <1>4, <1>7, SeenGrows
  <2> QED BY <1>2, <1>5, <1>7, <2>1, Zenon
<1>8. CASE kind \notin {"url", "name", "value"}
  <2>1. Seen(m, at, off + n) = Seen(m, at, off)
    BY ONLY <1>2, <1>3, <1>4, <1>8, SeenGrows
  <2>2. Cardinality(Seen(m, k, o)) = Cardinality(Seen(m, at, off)) + 0
    BY <1>5, <1>6, <2>1
  <2> QED BY <1>8, <2>2, Zenon
<1> QED BY <1>7, <1>8

LEMMA BudgetByPiece ==
  ASSUME Placed, Kept, ReasonInv, CountInv, BudgetInv,
         NEW kind \in {"url", "name", "value"}, Reports(kind), Refuse \/ Charge
  PROVE  BudgetInv'
<1>1. /\ More /\ rc = "ok" /\ script[message] \in Messages /\ message \in Nat
      /\ Kind = kind /\ at \in DOMAIN Elements(script[message])
      /\ Current = Elements(script[message])[at] /\ Kind = Elements(script[message])[at].kind
  BY MessageOfScript, Zenon DEF Reports, Kind
<1>2. PICK m, e, n : m = script[message] /\ e = Elements(m) /\ n = Len(Piece)
  OBVIOUS
<1>3. /\ headerBytes = Cardinality(Seen(m, at, off)) /\ BudgetPerMessage
      /\ Len(delivered) = message - 1 /\ headerLimitHit = FALSE
  BY <1>1, <1>2, Zenon DEF BudgetInv, ReasonInv, CountInv
<1>4. CASE Charge
  <2>1. /\ headerBytes' = headerBytes + n /\ Advance
        /\ UNCHANGED <<rc, headerLimitHit, delivered>>
    BY <1>2, <1>4, Zenon DEF Charge
  <2>2. UNCHANGED <<script, message>>
    BY <2>1, AdvanceGoesOn, Zenon
  <2>3. headerBytes' = Cardinality(Seen(m, at', off'))
    BY <1>2, <1>3, <2>1, SeenAdvances
  <2>4. BudgetPerMessage'
    BY <1>3, <2>1, <2>2, Zenon DEF BudgetPerMessage
  <2> QED BY <1>2, <1>3, <2>1, <2>2, <2>3, <2>4, Zenon DEF BudgetInv
<1>5. CASE Refuse
  <2>1. /\ headerBytes + n > maxHeaderBytes /\ rc' = "user"
        /\ UNCHANGED <<script, message, delivered>>
    BY <1>2, <1>5, Zenon DEF Refuse, OverBudget, input
  <2>2. HeaderSize(m) > maxHeaderBytes
    <3>1. n \in Nat /\ off \in Nat /\ off + n <= Len(e[at].text) /\ e[at].kind = kind
      <4>1. /\ Unreported \in Nat /\ n = IF left < Unreported THEN left ELSE Unreported
            /\ Unreported = Len(Current.text) - off
        BY <1>1, <1>2, PieceOfText DEF Unreported
      <4>2. off \in Nat /\ left \in Nat /\ Len(Current.text) \in Nat
        BY <1>1, Position
      <4>3. n \in Nat /\ off + n <= Len(Current.text)
        BY ONLY <4>1, <4>2
      <4> QED BY <1>1, <1>2, <4>2, <4>3
    <3>2. Cardinality(Seen(m, at, off + n)) = Cardinality(Seen(m, at, off)) + n
      <4>1. m \in Messages /\ e = Elements(m) /\ at \in DOMAIN e
        BY <1>1, <1>2, Zenon
      <4> QED BY ONLY <3>1, <4>1, SeenGrows
    <3>3. /\ Cardinality(Seen(m, at, off + n)) <= HeaderSize(m) /\ HeaderSize(m) \in Nat
          /\ Cardinality(Seen(m, at, off + n)) \in Nat
      BY <1>1, <1>2, SeenIsFinite
    <3>4. maxHeaderBytes \in Nat
      BY ParserAssumption
    <3> QED BY ONLY <1>3, <2>1, <3>2, <3>3, <3>4
  <2>3. Len(delivered) + 1 = message
    BY <1>1, <1>3
  <2>4. BudgetPerMessage'
    BY <1>2, <1>3, <2>1, <2>2, <2>3, Zenon DEF BudgetPerMessage
  <2>5. rc' # "ok"
    BY <2>1
  <2> QED BY <1>3, <2>1, <2>4, <2>5, Zenon DEF BudgetInv
<1> QED BY <1>4, <1>5

LEMMA BudgetStep ==
  ASSUME Placed, Kept, ReasonInv, CountInv, BudgetInv, [Next]_vars
  PROVE  BudgetInv'
<1>1. ASSUME UNCHANGED <<script, message, delivered>>, headerLimitHit' => headerLimitHit,
             rc' # "ok" \/ UNCHANGED <<at, off, rc, headerBytes>>
      PROVE  BudgetInv'
  <2>1. BudgetPerMessage' /\ (headerLimitHit' => Len(delivered') = message' - 1)
    BY <1>1, Zenon DEF BudgetInv, BudgetPerMessage
  <2> QED BY <1>1, <2>1, Zenon DEF BudgetInv, More
<1>2. CASE OnUrl \/ OnHeaderField \/ OnHeaderValue
  BY <1>2, BudgetByPiece, Zenon DEF OnUrl, OnHeaderField, OnHeaderValue
<1>3. CASE OnHeadersComplete \/ OnBody
  <2>1. PICK kind \in {"headers", "body"} : Reports(kind) /\ Advance
    BY <1>3, Zenon DEF OnHeadersComplete, OnBody
  <2>2. UNCHANGED <<rc, headerBytes, headerLimitHit, delivered>>
    BY <1>3, Zenon DEF OnHeadersComplete, OnBody
  <2>3. More /\ rc = "ok"
    BY <2>1, Zenon DEF Reports, Kind
  <2>4. UNCHANGED <<script, message>>
    BY <2>1, AdvanceGoesOn, Zenon
  <2>5. PICK m, k, o : m = script[message] /\ k = at' /\ o = off'
    OBVIOUS
  <2>6. headerBytes = Cardinality(Seen(m, at, off))
    BY <2>3, <2>5, Zenon DEF BudgetInv
  <2>7. headerBytes = Cardinality(Seen(m, k, o))
    <3>1. Cardinality(Seen(m, k, o)) = Cardinality(Seen(m, at, off)) + 0
      BY <2>1, <2>5, SeenAdvances
    <3>2. headerBytes \in Nat
      BY Zenon DEF Kept
    <3> QED BY ONLY <2>6, <3>1, <3>2
  <2>8. BudgetPerMessage' /\ (headerLimitHit' => Len(delivered') = message' - 1)
    BY <2>2, <2>4, Zenon DEF BudgetInv, BudgetPerMessage
  <2> QED BY <2>2, <2>4, <2>5, <2>7, <2>8, Zenon DEF BudgetInv
<1>4. CASE OnMessageComplete
  <2>1. CASE UNCHANGED <<input, request, delivered>> /\ rc' = "user" /\ UNCHANGED headerLimitHit
    <3>1. rc' # "ok"
      BY <2>1
    <3> QED BY <1>1, <2>1, <3>1, Zenon DEF input
  <2>2. ASSUME NEW r, delivered' = Append(delivered, r), ResetRequest
        PROVE  BudgetInv'
    <3>1. More /\ rc = "ok" /\ Kind = "done" /\ UNCHANGED headerLimitHit
      BY <1>4, Zenon DEF OnMessageComplete, Reports, Kind
    <3>2. PICK m, e : m = script[message] /\ e = Elements(m)
      OBVIOUS
    <3>3. /\ m \in Messages /\ message \in Nat /\ at \in DOMAIN e /\ e[at].kind = "done"
      BY <3>1, <3>2, MessageOfScript
    <3>4. /\ headerBytes = HeaderSize(m) /\ headerBytes <= maxHeaderBytes /\ headerLimitHit = FALSE
      <4>1. Seen(m, at, off) = Counted(m)
        BY <3>2, <3>3, SeenPlaces
      <4> QED BY <3>1, <3>2, <4>1, Zenon DEF BudgetInv, ReasonInv, HeaderSize
    <3>5. /\ delivered \in Seq(Range(delivered)) /\ Len(delivered) = message - 1
      BY <3>1, Zenon DEF CountInv
    <3>6. /\ DOMAIN delivered' = 1..message
          /\ DOMAIN delivered = 1..message - 1
      BY <2>2, <3>3, <3>5
    <3>7. script' = script
      BY <1>4, Zenon DEF OnMessageComplete, Advance, input
    <3>8. ASSUME NEW i \in DOMAIN delivered' PROVE HeaderSize(script'[i]) <= maxHeaderBytes
      <4>1. i \in DOMAIN delivered \/ i = message
        BY <3>3, <3>6
      <4>2. \A j \in DOMAIN delivered : HeaderSize(script[j]) <= maxHeaderBytes
        BY Zenon DEF BudgetInv, BudgetPerMessage
      <4> QED BY <3>2, <3>4, <3>7, <4>1, <4>2, Zenon
    <3>9. BudgetPerMessage' /\ headerLimitHit' = FALSE
      BY <3>1, <3>4, <3>8, Zenon DEF BudgetPerMessage
    <3>10. CASE rc' = "user"
      <4>1. rc' # "ok"
        BY <3>10
      <4> QED BY <3>9, <4>1, Zenon DEF BudgetInv
    <3>11. CASE rc' = "ok" /\ Advance
      <4>1. Reports("done")
        BY <1>4, Zenon DEF OnMessageComplete
      <4>2. message' = message + 1 /\ at' = 1 /\ off' = 0 /\ Placed'
        BY <3>11, <4>1, AdvancePlaces
      <4>3. headerBytes' = 0
        BY <2>2, Zenon DEF ResetRequest
      <4>4. ASSUME More'
            PROVE  headerBytes' = Cardinality(Seen(script'[message'], 1, 0))
        <5>1. PICK n, f : n = script'[message'] /\ f = Elements(n)
          OBVIOUS
        <5>2. script' \in Seq(Messages) /\ message' \in 1..Len(script')
          <6>1. Len(script) \in Nat /\ script \in Seq(Messages)
            BY ScriptLength, ParserAssumption DEF Placed
          <6> QED BY <3>3, <3>7, <4>2, <4>4, <6>1 DEF More
        <5>3. n \in Messages
          BY <5>1, <5>2, ElementOfSeq
        <5>4. 1 \in DOMAIN f
          <6>1. Len(f) \in Nat /\ Len(f) >= 2 /\ DOMAIN f = 1..Len(f)
            BY <5>1, <5>3, ShapeOfMessage, Zenon
          <6> QED BY <6>1
        <5> QED BY <4>3, <5>1, <5>3, <5>4, SeenPlaces
      <4> QED BY <3>9, <4>2, <4>4, Zenon DEF BudgetInv
    <3> QED BY <1>4, <2>2, <3>10, <3>11, Zenon DEF OnMessageComplete, request, ResetRequest
  <2> QED BY <1>4, <2>1, <2>2, Zenon DEF OnMessageComplete
<1>5. CASE Invalid
  <2>1. UNCHANGED <<script, message, delivered, headerLimitHit>> /\ rc' = "invalid"
    BY <1>5, Zenon DEF Invalid, input
  <2> QED BY <1>1, <2>1
<1>6. ASSUME NEW n \in 1..MaxRead, Execute(n)
      PROVE  BudgetInv'
  BY <1>1, <1>6, Zenon DEF Execute, request
<1>7. CASE ExecuteReturns
  BY <1>1, <1>7, Zenon DEF ExecuteReturns, request
<1>8. CASE UNCHANGED vars
  BY <1>1, <1>8, Zenon DEF vars, input, request
<1> QED BY <1>2, <1>3, <1>4, <1>5, <1>6, <1>7, <1>8, Zenon DEF Next, Callback

LEMMA BudgetStart ==
  ASSUME Init
  PROVE  BudgetInv
<1>1. /\ script \in Seq(Messages) /\ message = 1 /\ at = 1 /\ off = 0 /\ headerBytes = 0
      /\ headerLimitHit = FALSE /\ delivered = <<>>
  BY ParserAssumption DEF Init
<1>2. ASSUME More PROVE headerBytes = Cardinality(Seen(script[message], at, off))
  <2>1. PICK n, f : n = script[1] /\ f = Elements(n)
    OBVIOUS
  <2>2. 1 \in 1..Len(script)
    BY <1>1, <1>2 DEF More
  <2>3. n \in Messages
    BY <1>1, <2>1, <2>2, ElementOfSeq
  <2>4. 1 \in DOMAIN f
    <3>1. Len(f) \in Nat /\ Len(f) >= 2 /\ DOMAIN f = 1..Len(f)
      BY <2>1, <2>3, ShapeOfMessage, Zenon
    <3> QED BY <3>1
  <2> QED BY <1>1, <2>1, <2>3, <2>4, SeenPlaces
<1>3. DOMAIN delivered = {}
  BY <1>1
<1> QED BY <1>1, <1>2, <1>3, Zenon DEF BudgetInv, BudgetPerMessage

-----------------------------------------------------------------------------
(* The elements of a message, one by one.                                  *)

LEMMA Joining ==
  ASSUME NEW S, NEW s \in Seq(S), NEW u \in Seq(S), NEW r, r = s \o u
  PROVE  /\ r \in Seq(S) /\ Len(s) \in Nat /\ Len(u) \in Nat /\ Len(r) = Len(s) + Len(u)
         /\ \A i \in 1..Len(s) : r[i] = s[i]
         /\ \A i \in 1..Len(u) : r[Len(s) + i] = u[i]
<1>1. Len(s) \in Nat /\ Len(u) \in Nat
  OBVIOUS
<1>2. /\ r \in Seq(S) /\ Len(r) = Len(s) + Len(u)
      /\ \A i \in 1..Len(s) + Len(u) : r[i] = IF i <= Len(s) THEN s[i] ELSE u[i - Len(s)]
  BY ConcatProperties
<1>3. ASSUME NEW i \in 1..Len(s) PROVE r[i] = s[i]
  <2>1. i \in 1..Len(s) + Len(u) /\ i <= Len(s)
    BY <1>1
  <2> QED BY <1>2, <2>1, Zenon
<1>4. ASSUME NEW i \in 1..Len(u) PROVE r[Len(s) + i] = u[i]
  <2>1. /\ Len(s) + i \in 1..Len(s) + Len(u) /\ ~(Len(s) + i <= Len(s)) /\ (Len(s) + i) - Len(s) = i
    BY <1>1
  <2> QED BY <1>2, <2>1, Zenon
<1> QED BY <1>1, <1>2, <1>3, <1>4

LEMMA FieldElementsOf ==
  ASSUME NEW fields \in Seq(Text \X Text), NEW r, r = FieldElements(fields)
  PROVE  /\ r \in Seq(Inner) /\ Len(r) = 2 * Len(fields) /\ Len(fields) \in Nat
         /\ \A i \in 1..Len(fields) : /\ r[2 * i - 1] = Element("name", fields[i][1])
                                      /\ r[2 * i] = Element("value", fields[i][2])
<1>1. r \in Seq(Inner) /\ Len(fields) \in Nat
  BY FieldElementsAreInner
<1>2. r = [i \in 1..2 * Len(fields) |->
             IF i % 2 = 1 THEN Element("name", fields[(i + 1) \div 2][1])
                          ELSE Element("value", fields[i \div 2][2])]
  BY Zenon DEF FieldElements
<1>3. Len(r) = 2 * Len(fields)
  <2>1. DOMAIN r = 1..2 * Len(fields) /\ 2 * Len(fields) \in Nat
    BY <1>1, <1>2
  <2>2. DOMAIN r = 1..Len(r) /\ Len(r) \in Nat
    BY <1>1, LenProperties
  <2> QED BY <2>1, <2>2
<1>4. ASSUME NEW i \in 1..Len(fields)
      PROVE  r[2 * i - 1] = Element("name", fields[i][1]) /\ r[2 * i] = Element("value", fields[i][2])
  <2>1. /\ 2 * i - 1 \in 1..2 * Len(fields) /\ (2 * i - 1) % 2 = 1
        /\ ((2 * i - 1) + 1) \div 2 = i
        /\ 2 * i \in 1..2 * Len(fields) /\ (2 * i) % 2 # 1 /\ (2 * i) \div 2 = i
    BY <1>1
  <2> QED BY <1>2, <2>1, Zenon
<1> QED BY <1>1, <1>3, <1>4

LEMMA Counts ==
  ASSUME NEW m \in Messages
  PROVE  /\ Len(m.headers) \in Nat /\ Len(m.trailers) \in Nat
         /\ Count(m) = Len(m.headers) + Len(m.trailers)
         /\ EndOfHeaders(m) = 2 * Len(m.headers) + 2
         /\ m.body = <<>> => AfterBody(m) = EndOfHeaders(m) + 1
         /\ m.body # <<>> => AfterBody(m) = EndOfHeaders(m) + 2
         /\ EndOfMessage(m) = AfterBody(m) + 2 * Len(m.trailers)
         /\ \A i \in 1..Count(m) :
              /\ i <= Len(m.headers) => NamePlace(m, i) = 2 * i
              /\ i > Len(m.headers) => NamePlace(m, i) = AfterBody(m) + 2 * (i - 1 - Len(m.headers))
<1>1. Len(m.headers) \in Nat /\ Len(m.trailers) \in Nat
  BY FieldsOfMessage
<1>2. /\ Count(m) = Len(m.headers) + Len(m.trailers)
      /\ EndOfHeaders(m) = 2 * Len(m.headers) + 2
      /\ EndOfMessage(m) = AfterBody(m) + 2 * Len(m.trailers)
      /\ m.body = <<>> => AfterBody(m) = EndOfHeaders(m) + 1
      /\ m.body # <<>> => AfterBody(m) = EndOfHeaders(m) + 2
  BY Zenon DEF Count, EndOfHeaders, EndOfMessage, AfterBody
<1>3. ASSUME NEW i \in 1..Count(m)
      PROVE  /\ i <= Len(m.headers) => NamePlace(m, i) = 2 * i
             /\ i > Len(m.headers) => NamePlace(m, i) = AfterBody(m) + 2 * (i - 1 - Len(m.headers))
  <2>1. i \in Nat
    BY <1>1, <1>2
  <2>2. i > Len(m.headers) => ~(i <= Len(m.headers))
    BY <1>1, <2>1
  <2> QED BY <2>2, Zenon DEF NamePlace
<1> QED BY <1>1, <1>2, <1>3

LEMMA Sizes ==
  ASSUME NEW m \in Messages
  PROVE  \E h \in Nat, s \in Nat, e \in Nat, a \in Nat :
           /\ h = Len(m.headers) /\ s = Len(m.trailers) /\ Count(m) = h + s
           /\ e = EndOfHeaders(m) /\ a = AfterBody(m)
<1>1. /\ Len(m.headers) \in Nat /\ Len(m.trailers) \in Nat
      /\ Count(m) = Len(m.headers) + Len(m.trailers)
      /\ m.body = <<>> => AfterBody(m) = EndOfHeaders(m) + 1
      /\ m.body # <<>> => AfterBody(m) = EndOfHeaders(m) + 2
      /\ EndOfHeaders(m) = 2 * Len(m.headers) + 2
  BY Counts, Zenon
<1>2. EndOfHeaders(m) \in Nat /\ AfterBody(m) \in Nat
  <2>1. PICK h : h = Len(m.headers) /\ h \in Nat
    BY <1>1, Zenon
  <2>2. EndOfHeaders(m) = 2 * h + 2
    BY <1>1, <2>1, Zenon
  <2>3. EndOfHeaders(m) \in Nat
    BY ONLY <2>1, <2>2
  <2>4. AfterBody(m) = EndOfHeaders(m) + 1 \/ AfterBody(m) = EndOfHeaders(m) + 2
    BY <1>1, Zenon
  <2> QED BY ONLY <2>3, <2>4
<1> QED BY <1>1, <1>2, Zenon

LEMMA FieldsAre ==
  ASSUME NEW m \in Messages
  PROVE  /\ AllFields(m) \in Seq(Field) /\ Len(AllFields(m)) = Count(m) /\ Count(m) \in Nat
         /\ \A i \in 1..Count(m) :
              /\ AllFields(m)[i] = IF i <= Len(m.headers) THEN m.headers[i]
                                   ELSE m.trailers[i - Len(m.headers)]
              /\ AllFields(m)[i] \in Field
              /\ AllFields(m)[i] = <<AllFields(m)[i][1], AllFields(m)[i][2]>>
              /\ AllFields(m)[i][1] \in Text /\ AllFields(m)[i][1] # <<>>
              /\ AllFields(m)[i][2] \in Text
<1>1. m.headers \in Seq(Field) /\ m.trailers \in Seq(Field)
  BY FieldsOfMessage
<1>2. PICK f : f = AllFields(m)
  OBVIOUS
<1>3. /\ f \in Seq(Field) /\ Len(f) = Len(m.headers) + Len(m.trailers)
      /\ \A i \in 1..Len(m.headers) + Len(m.trailers) :
           f[i] = IF i <= Len(m.headers) THEN m.headers[i] ELSE m.trailers[i - Len(m.headers)]
  BY <1>1, <1>2, ConcatProperties DEF AllFields
<1>4. \A i \in 1..Len(f) : f[i] \in Field
  BY <1>3, ElementOfSeq
<1>5. \A x \in Field : x = <<x[1], x[2]>> /\ x[1] \in Text /\ x[1] # <<>> /\ x[2] \in Text
  BY DEF Field
<1>6. Len(f) \in Nat
  BY <1>3, LenProperties
<1> QED BY <1>2, <1>3, <1>4, <1>5, <1>6, Zenon DEF Count

LEMMA Layout ==
  ASSUME NEW m \in Messages, ~m.garbled, NEW e, e = Elements(m)
  PROVE  /\ Len(e) = EndOfMessage(m)
         /\ e[1] = Element("url", m.target)
         /\ \A i \in 1..Count(m) :
              /\ e[NamePlace(m, i)] = Element("name", AllFields(m)[i][1])
              /\ e[NamePlace(m, i) + 1] = Element("value", AllFields(m)[i][2])
         /\ e[EndOfHeaders(m)] = Element("headers", <<>>)
         /\ m.body # <<>> => e[EndOfHeaders(m) + 1] = Element("body", m.body)
         /\ e[EndOfMessage(m)] = Element("done", <<>>)
<1> DEFINE Every == [kind : {"url", "name", "value", "headers", "body", "done"}, text : Text]
<1>1. /\ m.target \in Text /\ m.body \in Text /\ <<>> \in Text
      /\ m.headers \in Seq(Text \X Text) /\ m.trailers \in Seq(Text \X Text)
  BY FieldsOfMessage, EmptySeq, TextIsSeq
<1>2. PICK U, H, C, B, T, D :
        /\ U = <<Element("url", m.target)>> /\ H = FieldElements(m.headers)
        /\ C = <<Element("headers", <<>>)>>
        /\ B = (IF m.body = <<>> THEN <<>> ELSE <<Element("body", m.body)>>)
        /\ T = FieldElements(m.trailers) /\ D = <<Element("done", <<>>)>>
  OBVIOUS
<1>3. e = U \o (H \o C \o B \o T \o D)
  BY <1>2, Zenon DEF Elements
<1>4. PICK h, s : h = Len(m.headers) /\ s = Len(m.trailers)
  OBVIOUS
<1>5. /\ H \in Seq(Inner) /\ T \in Seq(Inner) /\ h \in Nat /\ s \in Nat
      /\ Len(H) = 2 * h /\ Len(T) = 2 * s
      /\ \A i \in 1..h : /\ H[2 * i - 1] = Element("name", m.headers[i][1])
                         /\ H[2 * i] = Element("value", m.headers[i][2])
      /\ \A i \in 1..s : /\ T[2 * i - 1] = Element("name", m.trailers[i][1])
                         /\ T[2 * i] = Element("value", m.trailers[i][2])
  <2>1. /\ H \in Seq(Inner) /\ h \in Nat /\ Len(H) = 2 * h
        /\ \A i \in 1..h : /\ H[2 * i - 1] = Element("name", m.headers[i][1])
                           /\ H[2 * i] = Element("value", m.headers[i][2])
    BY ONLY <1>1, <1>2, <1>4, FieldElementsOf
  <2>2. /\ T \in Seq(Inner) /\ s \in Nat /\ Len(T) = 2 * s
        /\ \A i \in 1..s : /\ T[2 * i - 1] = Element("name", m.trailers[i][1])
                           /\ T[2 * i] = Element("value", m.trailers[i][2])
    BY ONLY <1>1, <1>2, <1>4, FieldElementsOf
  <2> QED BY <2>1, <2>2, Zenon
<1>6. Inner \subseteq Every
  BY Zenon DEF Inner
<1>7. H \in Seq(Every) /\ T \in Seq(Every)
  BY <1>5, <1>6, SeqMonotonic
<1>8. /\ Element("url", m.target) \in Every /\ Element("headers", <<>>) \in Every
      /\ Element("body", m.body) \in Every /\ Element("done", <<>>) \in Every
  BY <1>1, Zenon DEF Element
<1> HIDE DEF Every
<1>9. /\ U \in Seq(Every) /\ Len(U) = 1 /\ U[1] = Element("url", m.target)
      /\ C \in Seq(Every) /\ Len(C) = 1 /\ C[1] = Element("headers", <<>>)
      /\ D \in Seq(Every) /\ Len(D) = 1 /\ D[1] = Element("done", <<>>)
  BY <1>2, <1>8
<1>10. PICK b : /\ b = Len(B) /\ b \in {0, 1} /\ B \in Seq(Every)
                /\ m.body = <<>> => b = 0
                /\ m.body # <<>> => b = 1 /\ B[1] = Element("body", m.body)
  <2>1. CASE m.body = <<>>
    <3>1. B = <<>> /\ Len(B) = 0 /\ B \in Seq(Every)
      BY <1>2, <2>1, EmptySeq
    <3> QED BY <2>1, <3>1
  <2>2. CASE m.body # <<>>
    <3>1. B = <<Element("body", m.body)>>
      BY <1>2, <2>2
    <3>2. B \in Seq(Every) /\ Len(B) = 1 /\ B[1] = Element("body", m.body)
      BY <1>8, <3>1
    <3> QED BY <2>2, <3>2
  <2> QED BY <2>1, <2>2
<1>11. PICK p, q, r, v : p = H \o C /\ q = p \o B /\ r = q \o T /\ v = r \o D /\ e = U \o v
  BY <1>3
<1>12. /\ p \in Seq(Every) /\ Len(p) = Len(H) + Len(C)
       /\ \A i \in 1..Len(H) : p[i] = H[i]
       /\ \A i \in 1..Len(C) : p[Len(H) + i] = C[i]
  <2>1. H \in Seq(Every) /\ C \in Seq(Every) /\ p = H \o C
    BY <1>7, <1>9, <1>11
  <2> QED BY ONLY <2>1, Joining
<1>13. /\ q \in Seq(Every) /\ Len(q) = Len(p) + Len(B)
       /\ \A i \in 1..Len(p) : q[i] = p[i]
       /\ \A i \in 1..Len(B) : q[Len(p) + i] = B[i]
  BY <1>10, <1>11, <1>12, Joining
<1>14. /\ r \in Seq(Every) /\ Len(r) = Len(q) + Len(T)
       /\ \A i \in 1..Len(q) : r[i] = q[i]
       /\ \A i \in 1..Len(T) : r[Len(q) + i] = T[i]
  BY <1>7, <1>11, <1>13, Joining
<1>15. /\ v \in Seq(Every) /\ Len(v) = Len(r) + Len(D)
       /\ \A i \in 1..Len(r) : v[i] = r[i]
       /\ \A i \in 1..Len(D) : v[Len(r) + i] = D[i]
  <2>1. r \in Seq(Every) /\ D \in Seq(Every) /\ v = r \o D
    BY <1>9, <1>11, <1>14
  <2> QED BY ONLY <2>1, Joining
<1>16. /\ Len(e) = Len(U) + Len(v)
       /\ \A i \in 1..Len(U) : e[i] = U[i]
       /\ \A i \in 1..Len(v) : e[Len(U) + i] = v[i]
  <2>1. U \in Seq(Every) /\ v \in Seq(Every) /\ e = U \o v
    BY <1>9, <1>11, <1>15
  <2> QED BY ONLY <2>1, Joining
<1>17. /\ h \in Nat /\ s \in Nat /\ b \in {0, 1} /\ Len(C) = 1 /\ Len(B) = b /\ Len(D) = 1
       /\ Len(T) = 2 * s /\ Len(H) = 2 * h /\ Len(p) = 2 * h + 1 /\ Len(q) = 2 * h + 1 + b
       /\ Len(r) = 2 * h + 1 + b + 2 * s /\ Len(v) = 2 * h + 2 + b + 2 * s
       /\ Len(e) = 2 * h + 3 + b + 2 * s
  BY <1>5, <1>9, <1>10, <1>12, <1>13, <1>14, <1>15, <1>16
<1>18. ASSUME NEW i \in 1..2 * h PROVE e[i + 1] = H[i]
  <2>1. /\ i \in 1..Len(H) /\ i \in 1..Len(p) /\ i \in 1..Len(q) /\ i \in 1..Len(r)
        /\ i \in 1..Len(v) /\ 1 + i = i + 1
    BY ONLY <1>17
  <2>2. q[i] = H[i]
    BY <1>12, <1>13, <2>1, Zenon
  <2>3. v[i] = q[i]
    BY <1>14, <1>15, <2>1, Zenon
  <2>4. e[1 + i] = v[i]
    BY <1>9, <1>16, <2>1, Zenon
  <2> QED BY <2>1, <2>2, <2>3, <2>4, Zenon
<1>19. ASSUME NEW i \in 1..2 * s PROVE e[2 * h + 2 + b + i] = T[i]
  <2>1. /\ i \in 1..Len(T) /\ Len(q) + i \in 1..Len(r) /\ Len(q) + i \in 1..Len(v)
        /\ 1 + (Len(q) + i) = 2 * h + 2 + b + i
    BY ONLY <1>17
  <2>2. v[Len(q) + i] = T[i]
    BY <1>14, <1>15, <2>1, Zenon
  <2>3. e[1 + (Len(q) + i)] = v[Len(q) + i]
    BY <1>9, <1>16, <2>1, Zenon
  <2> QED BY <2>1, <2>2, <2>3, Zenon
<1>20. e[2 * h + 2] = Element("headers", <<>>)
  <2>1. /\ 1 \in 1..Len(C) /\ Len(H) + 1 \in 1..Len(p) /\ Len(H) + 1 \in 1..Len(q)
        /\ Len(H) + 1 \in 1..Len(r) /\ Len(H) + 1 \in 1..Len(v)
        /\ 1 + (Len(H) + 1) = 2 * h + 2
    BY ONLY <1>17
  <2>2. v[Len(H) + 1] = Element("headers", <<>>)
    <3>1. p[Len(H) + 1] = Element("headers", <<>>)
      BY ONLY <1>9, <1>12, <2>1, Zenon
    <3>2. r[Len(H) + 1] = p[Len(H) + 1]
      BY ONLY <1>13, <1>14, <2>1, Zenon
    <3> QED BY ONLY <1>15, <2>1, <3>1, <3>2, Zenon
  <2>3. e[1 + (Len(H) + 1)] = v[Len(H) + 1]
    BY <1>9, <1>16, <2>1, Zenon
  <2> QED BY <2>1, <2>2, <2>3, Zenon
<1>21. ASSUME m.body # <<>> PROVE e[2 * h + 2 + 1] = Element("body", m.body)
  <2>1. /\ 1 \in 1..Len(B) /\ Len(p) + 1 \in 1..Len(q)
        /\ Len(p) + 1 \in 1..Len(r) /\ Len(p) + 1 \in 1..Len(v)
        /\ 1 + (Len(p) + 1) = 2 * h + 2 + 1
    <3>1. b = 1
      BY <1>10, <1>21
    <3> QED BY ONLY <1>17, <3>1
  <2>2. v[Len(p) + 1] = Element("body", m.body)
    BY <1>10, <1>13, <1>14, <1>15, <1>21, <2>1, Zenon
  <2>3. e[1 + (Len(p) + 1)] = v[Len(p) + 1]
    BY <1>9, <1>16, <2>1, Zenon
  <2> QED BY <2>1, <2>2, <2>3, Zenon
<1>22. e[2 * h + 3 + b + 2 * s] = Element("done", <<>>)
  <2>1. /\ 1 \in 1..Len(D) /\ Len(r) + 1 \in 1..Len(v)
        /\ 1 + (Len(r) + 1) = 2 * h + 3 + b + 2 * s
    BY ONLY <1>17
  <2>2. v[Len(r) + 1] = Element("done", <<>>)
    BY <1>9, <1>15, <2>1, Zenon
  <2>3. e[1 + (Len(r) + 1)] = v[Len(r) + 1]
    BY <1>9, <1>16, <2>1, Zenon
  <2> QED BY <2>1, <2>2, <2>3, Zenon
<1>23. /\ Count(m) = h + s /\ EndOfHeaders(m) = 2 * h + 2 /\ AfterBody(m) = 2 * h + 3 + b
       /\ EndOfMessage(m) = 2 * h + 3 + b + 2 * s
       /\ \A i \in 1..Count(m) :
            /\ i <= h => NamePlace(m, i) = 2 * i
            /\ i > h => NamePlace(m, i) = 2 * h + 3 + b + 2 * (i - 1 - h)
  <2>1. AfterBody(m) = EndOfHeaders(m) + 1 + b /\ EndOfHeaders(m) = 2 * h + 2
    <3>1. /\ EndOfHeaders(m) = 2 * h + 2
          /\ m.body = <<>> => AfterBody(m) = EndOfHeaders(m) + 1
          /\ m.body # <<>> => AfterBody(m) = EndOfHeaders(m) + 2
      BY <1>4, Counts
    <3>2. (b = 0 /\ AfterBody(m) = EndOfHeaders(m) + 1) \/ (b = 1 /\ AfterBody(m) = EndOfHeaders(m) + 2)
      BY <1>10, <3>1, Zenon
    <3>3. PICK x, y : x = AfterBody(m) /\ y = EndOfHeaders(m)
      OBVIOUS
    <3>4. y = 2 * h + 2 /\ ((b = 0 /\ x = y + 1) \/ (b = 1 /\ x = y + 2))
      BY <3>1, <3>2, <3>3, Zenon
    <3>5. x = y + 1 + b /\ y = 2 * h + 2
      <4>1. y \in Int
        BY ONLY <1>17, <3>4
      <4>2. CASE b = 0 /\ x = y + 1
        BY ONLY <3>4, <4>1, <4>2
      <4>3. CASE b = 1 /\ x = y + 2
        BY ONLY <3>4, <4>1, <4>3
      <4> QED BY <3>4, <4>2, <4>3, Zenon
    <3> QED BY <3>3, <3>5, Zenon
  <2>2. /\ Count(m) = h + s /\ EndOfMessage(m) = AfterBody(m) + 2 * s
        /\ \A i \in 1..Count(m) :
             /\ i <= h => NamePlace(m, i) = 2 * i
             /\ i > h => NamePlace(m, i) = AfterBody(m) + 2 * (i - 1 - h)
    BY <1>4, Counts, Zenon
  <2>3. AfterBody(m) = 2 * h + 3 + b /\ EndOfMessage(m) = 2 * h + 3 + b + 2 * s
    BY ONLY <1>17, <2>1, <2>2
  <2> QED BY <2>1, <2>2, <2>3, Zenon
<1>24. ASSUME NEW i \in 1..Count(m)
       PROVE  /\ e[NamePlace(m, i)] = Element("name", AllFields(m)[i][1])
              /\ e[NamePlace(m, i) + 1] = Element("value", AllFields(m)[i][2])
  <2>1. AllFields(m)[i] = IF i <= h THEN m.headers[i] ELSE m.trailers[i - h]
    BY <1>4, FieldsAre, Zenon
  <2>2. CASE i <= h
    <3>1. /\ i \in 1..h /\ 2 * i - 1 \in 1..2 * h /\ 2 * i \in 1..2 * h
          /\ NamePlace(m, i) = (2 * i - 1) + 1 /\ NamePlace(m, i) + 1 = 2 * i + 1
      <4>1. NamePlace(m, i) = 2 * i /\ i \in 1..h + s
        BY <1>23, <2>2, Zenon
      <4>2. /\ i \in 1..h /\ 2 * i - 1 \in 1..2 * h /\ 2 * i \in 1..2 * h
            /\ 2 * i = (2 * i - 1) + 1
        <5>1. i \in Int /\ 1 <= i /\ i <= h
          BY ONLY <1>17, <2>2, <4>1
        <5> QED BY ONLY <1>17, <5>1
      <4> QED BY <4>1, <4>2, Zenon
    <3>2. e[(2 * i - 1) + 1] = H[2 * i - 1] /\ e[2 * i + 1] = H[2 * i]
      BY <1>18, <3>1, Zenon
    <3>3. AllFields(m)[i] = m.headers[i]
      BY <2>1, <2>2, Zenon
    <3> QED BY <1>5, <3>1, <3>2, <3>3, Zenon
  <2>3. CASE ~(i <= h)
    <3>1. /\ i - h \in 1..s /\ 2 * (i - h) - 1 \in 1..2 * s /\ 2 * (i - h) \in 1..2 * s
          /\ NamePlace(m, i) = 2 * h + 2 + b + (2 * (i - h) - 1)
          /\ NamePlace(m, i) + 1 = 2 * h + 2 + b + 2 * (i - h)
      <4>1. i \in 1..h + s
        BY <1>23, Zenon
      <4>2. i > h
        BY ONLY <1>17, <2>3, <4>1
      <4>3. NamePlace(m, i) = 2 * h + 3 + b + 2 * (i - 1 - h)
        BY <1>23, <4>2, Zenon
      <4>4. i \in Int /\ h < i /\ i <= h + s
        BY ONLY <1>17, <4>1, <4>2
      <4>5. /\ i - h \in 1..s /\ 2 * (i - h) - 1 \in 1..2 * s /\ 2 * (i - h) \in 1..2 * s
        BY ONLY <1>17, <4>4
      <4>6. /\ 2 * h + 3 + b + 2 * (i - 1 - h) = 2 * h + 2 + b + (2 * (i - h) - 1)
            /\ 2 * h + 2 + b + (2 * (i - h) - 1) + 1 = 2 * h + 2 + b + 2 * (i - h)
        BY ONLY <1>17, <4>4
      <4> QED BY <4>3, <4>5, <4>6, Zenon
    <3>2. /\ e[2 * h + 2 + b + (2 * (i - h) - 1)] = T[2 * (i - h) - 1]
          /\ e[2 * h + 2 + b + 2 * (i - h)] = T[2 * (i - h)]
      BY <1>19, <3>1, Zenon
    <3>3. AllFields(m)[i] = m.trailers[i - h]
      BY <2>1, <2>3, Zenon
    <3> QED BY <1>5, <3>1, <3>2, <3>3, Zenon
  <2> QED BY <2>2, <2>3
<1>25. e[1] = Element("url", m.target)
  <2>1. 1 \in 1..Len(U)
    BY <1>9
  <2> QED BY <1>9, <1>16, <2>1, Zenon
<1> QED BY <1>17, <1>20, <1>21, <1>22, <1>23, <1>24, <1>25, Zenon

-----------------------------------------------------------------------------
(* The map of the fields.                                                  *)

LEMMA MaxOfBounded ==
  ASSUME NEW k \in Nat, NEW I, I \subseteq 1..k, I # {}
  PROVE  Max(I) \in I
<1> DEFINE J == {j \in Nat : k - j \in I}
<1>1. J \subseteq Nat /\ J # {}
  <2>1. PICK i \in I : i \in 1..k
    OBVIOUS
  <2>2. k - i \in Nat /\ k - (k - i) = i
    BY <2>1
  <2> QED BY <2>1, <2>2
<1> HIDE DEF J
<1>2. PICK j \in J : \A y \in J : ~(<<y, j>> \in OpToRel(<, Nat))
  BY <1>1, WFMin, NatLessThanWellFounded, Zenon
<1>3. k - j \in I /\ j \in Nat
  BY DEF J
<1>4. ASSUME NEW y \in I PROVE k - j >= y
  <2>1. y \in 1..k /\ k - y \in Nat /\ k - (k - y) = y
    OBVIOUS
  <2>2. k - y \in J
    BY <2>1 DEF J
  <2>3. ~(k - y < j)
    BY <1>2, <1>3, <2>1, <2>2 DEF OpToRel
  <2> QED BY <1>3, <2>1, <2>3
<1> QED BY <1>3, <1>4, Zenon DEF Max

Named(s, n) == {i \in 1..Len(s) : s[i][1] = n}

\* A map with one more entry, as Store makes it of the headers.
Stored(map, entry) ==
  [n \in DOMAIN map \cup {entry[1]} |-> IF n = entry[1] THEN entry[2] ELSE map[n]]

LEMMA MapAt ==
  ASSUME NEW s, NEW n \in DOMAIN MapOf(s)
  PROVE  MapOf(s)[n] = s[IF Named(s, n) # {} THEN Max(Named(s, n)) ELSE 0][2]
BY Zenon DEF MapOf, SelectLastInSeq, Named

LEMMA NoFields == MapOf(<<>>) = <<>>
<1>1. MapOf(<<>>) \in [1..0 -> {}]
  BY DEF MapOf
<1>2. MapOf(<<>>) \in Seq({}) /\ Len(MapOf(<<>>)) = 0
  BY <1>1
<1> QED BY <1>2, EmptySeq

(* Adding a field to the sequence stores it in the map.                    *)
LEMMA MapGrows ==
  ASSUME NEW s \in Seq(Field), NEW x \in Field, NEW r, r = Append(s, x)
  PROVE  MapOf(r) = Stored(MapOf(s), x)
<1>1. /\ r \in Seq(Field) /\ Len(r) = Len(s) + 1 /\ Len(s) \in Nat /\ Len(r) \in Nat
      /\ DOMAIN s = 1..Len(s) /\ DOMAIN r = 1..Len(r)
      /\ \A i \in 1..Len(s) : r[i] = s[i]
      /\ r[Len(r)] = x
  BY AppendProperties, LenProperties
<1>2. /\ \A i \in 1..Len(r) : i \in 1..Len(s) \/ i = Len(r)
      /\ \A i \in 1..Len(s) : i \in 1..Len(r)
      /\ Len(r) \in 1..Len(r)
  BY <1>1
<1>3. /\ DOMAIN MapOf(s) = {s[i][1] : i \in 1..Len(s)}
      /\ DOMAIN MapOf(r) = {r[i][1] : i \in 1..Len(r)}
  BY <1>1, Zenon DEF MapOf
<1>4. DOMAIN MapOf(r) = DOMAIN MapOf(s) \cup {x[1]}
  <2>1. ASSUME NEW n \in DOMAIN MapOf(r) PROVE n \in DOMAIN MapOf(s) \cup {x[1]}
    <3>1. PICK i \in 1..Len(r) : n = r[i][1]
      BY <1>1, <1>3, Zenon
    <3> QED BY <1>1, <1>2, <1>3, <3>1, Zenon
  <2>2. ASSUME NEW n \in DOMAIN MapOf(s) \cup {x[1]} PROVE n \in DOMAIN MapOf(r)
    <3>1. CASE n = x[1]
      BY <1>1, <1>2, <1>3, <3>1, Zenon
    <3>2. CASE n \in DOMAIN MapOf(s)
      <4>1. PICK i \in 1..Len(s) : n = s[i][1]
        BY ONLY <1>3, <3>2
      <4> QED BY <1>1, <1>2, <1>3, <4>1, Zenon
    <3> QED BY <3>1, <3>2
  <2> QED BY <2>1, <2>2
<1>5. ASSUME NEW n \in DOMAIN MapOf(r)
      PROVE  MapOf(r)[n] = IF n = x[1] THEN x[2] ELSE MapOf(s)[n]
  <2>1. PICK I, K : /\ I = Named(r, n) /\ K = Named(s, n)
                    /\ I = {i \in 1..Len(r) : r[i][1] = n} /\ K = {i \in 1..Len(s) : s[i][1] = n}
    BY DEF Named
  <2>2. MapOf(r)[n] = r[IF I # {} THEN Max(I) ELSE 0][2]
    BY <2>1, MapAt, Zenon
  <2>3. CASE n = x[1]
    <3>1. Len(r) \in I /\ \A y \in I : y \in Nat /\ y <= Len(r)
      BY <1>1, <1>2, <2>1, <2>3
    <3>2. I \subseteq 1..Len(r) /\ I # {}
      BY <2>1, <3>1
    <3>3. Max(I) \in I /\ \A y \in I : Max(I) >= y
      <4>1. \A y \in I : Len(r) >= y
        BY <1>1, <3>1
      <4> QED BY <3>1, <4>1, Zenon DEF Max
    <3>4. Max(I) = Len(r)
      <4>1. Max(I) \in Nat /\ Max(I) <= Len(r) /\ Max(I) >= Len(r) /\ Len(r) \in Nat
        BY <1>1, <3>1, <3>3, Zenon
      <4> QED BY ONLY <4>1
    <3> QED BY <1>1, <2>2, <2>3, <3>2, <3>4, Zenon
  <2>4. CASE n # x[1]
    <3>1. I = K
      <4>1. \A i \in I : i \in K
        BY <1>1, <1>2, <2>1, <2>4, Zenon
      <4>2. \A i \in K : i \in I
        BY <1>1, <1>2, <2>1, Zenon
      <4> QED BY <4>1, <4>2
    <3>2. n \in DOMAIN MapOf(s)
      BY <1>4, <2>4, Zenon
    <3>3. MapOf(s)[n] = s[IF K # {} THEN Max(K) ELSE 0][2]
      BY <2>1, <3>2, MapAt, Zenon
    <3>4. K # {} /\ K \subseteq 1..Len(s)
      <4>1. PICK i \in 1..Len(s) : n = s[i][1]
        BY <1>3, <3>2
      <4> QED BY <2>1, <4>1
    <3>5. Max(K) \in 1..Len(s)
      BY <1>1, <3>4, MaxOfBounded
    <3>6. r[Max(K)] = s[Max(K)]
      BY <1>1, <3>5, Zenon
    <3> QED BY <2>2, <2>4, <3>1, <3>3, <3>4, <3>6, Zenon
  <2> QED BY <2>3, <2>4
<1>6. MapOf(r) = [n \in DOMAIN MapOf(r) |-> MapOf(r)[n]]
  BY Zenon DEF MapOf
<1> QED BY <1>4, <1>5, <1>6, Zenon DEF Stored

LEMMA FieldsGrow ==
  ASSUME NEW m \in Messages, NEW n \in Nat, n + 1 <= Count(m), NEW x, x = AllFields(m)[n + 1]
  PROVE  FieldsUpTo(m, n + 1) = Stored(FieldsUpTo(m, n), x)
<1>1. PICK f : f = AllFields(m)
  OBVIOUS
<1>2. f \in Seq(Field) /\ Len(f) = Count(m) /\ Count(m) \in Nat /\ x \in Field
  <2>1. n + 1 \in 1..Count(m)
    BY FieldsAre
  <2> QED BY <1>1, <2>1, FieldsAre
<1> DEFINE s == SubSeq(f, 1, n)
           r == SubSeq(f, 1, n + 1)
<1>3. s \in Seq(Field)
  <2>1. \A i \in 1..n : f[i] \in Field
    <3>1. \A i \in 1..n : i \in 1..Len(f)
      BY <1>2
    <3> QED BY <1>2, <3>1, ElementOfSeq
  <2> QED BY <2>1, SubSeqProperties
<1>4. r = Append(s, x)
  <2>1. 1 \in 1..Len(f) /\ n + 1 \in 1..Len(f) /\ (n + 1) - 1 = n
    BY <1>2
  <2>2. r = s \o <<f[n + 1]>>
    BY <1>2, <2>1, SubSeqRecursiveSecond
  <2>3. Append(s, x) = s \o <<x>>
    BY <1>2, <1>3, AppendIsConcat
  <2> QED BY <1>1, <2>2, <2>3
<1>5. FieldsUpTo(m, n) = MapOf(s) /\ FieldsUpTo(m, n + 1) = MapOf(r)
  BY <1>1, Zenon DEF FieldsUpTo
<1> HIDE DEF s, r
<1>6. MapOf(r) = Stored(MapOf(s), x)
  BY <1>2, <1>3, <1>4, MapGrows
<1> QED BY <1>5, <1>6, Zenon

(* The map once the last field is committed too.                           *)
LEMMA CommittedFields ==
  ASSUME NEW m \in Messages, NEW n \in Nat, NEW first \in Nat, first <= n, n <= Count(m),
         Between(m, n, first)
  PROVE  Committed = FieldsUpTo(m, n)
<1>1. CASE n = first
  BY <1>1, Zenon DEF Between, Committed
<1>2. CASE n # first
  <2>1. PICK k, x : k = n - 1 /\ x = AllFields(m)[n]
    OBVIOUS
  <2>2. k \in Nat /\ k + 1 = n /\ k + 1 <= Count(m) /\ n \in 1..Count(m)
    BY <1>2, <2>1, FieldsAre
  <2>3. x = <<x[1], x[2]>> /\ x[1] # <<>>
    BY <2>1, <2>2, FieldsAre, Zenon
  <2>4. <<field, value>> = x /\ headers = FieldsUpTo(m, k)
    BY <1>2, <2>1, Zenon DEF Between
  <2>5. field = x[1] /\ value = x[2]
    BY <2>4
  <2>6. FieldsUpTo(m, k + 1) = Stored(headers, x)
    <3>1. FieldsUpTo(m, k + 1) = Stored(FieldsUpTo(m, k), x)
      BY ONLY m \in Messages, <2>1, <2>2, FieldsGrow
    <3> QED BY <2>4, <3>1, Zenon
  <2> QED BY <2>2, <2>3, <2>5, <2>6, Zenon DEF Committed, Store, Stored
<1> QED BY <1>1, <1>2

-----------------------------------------------------------------------------
(* The stages of a message.                                                *)

(* What was reported of a text and the next piece of it.                   *)
LEMMA DoneGrows ==
  ASSUME NEW c \in Text, NEW o \in Nat, NEW n \in Nat, o + n <= Len(c)
  PROVE  /\ SubSeq(c, 1, o) \o SubSeq(c, o + 1, o + n) = SubSeq(c, 1, o + n)
         /\ SubSeq(c, 1, 0) = <<>>
         /\ SubSeq(c, 1, Len(c)) = c
<1>1. c \in Seq(0..255) /\ Len(c) \in Nat
  BY DEF Text
<1>2. 1 \in 1..Len(c) + 1 /\ o \in 1 - 1..Len(c) /\ o + n \in o..Len(c)
  BY <1>1
<1>3. SubSeq(c, 1, o) \o SubSeq(c, o + 1, o + n) = SubSeq(c, 1, o + n)
  BY <1>1, <1>2, ConcatAdjacentSubSeq
<1>4. SubSeq(c, 1, 0) = <<>> /\ SubSeq(c, 1, Len(c)) = c
  BY <1>1, SubSeqEmpty, SubSeqFull
<1> QED BY <1>3, <1>4

(* The kind of the element says which stage it is.                         *)
LEMMA StageOf ==
  ASSUME Placed, More, NEW m, m = script[message], InMessage(m)
  PROVE  /\ m \in Messages
         /\ Kind = "url" => InTarget(m) /\ Current.text = m.target
         /\ Kind = "name" => ~m.garbled /\ \E i \in 1..Count(m) :
                               InName(m, i) /\ Current.text = AllFields(m)[i][1]
         /\ Kind = "value" => ~m.garbled /\ \E i \in 1..Count(m) :
                                InValue(m, i) /\ Current.text = AllFields(m)[i][2]
         /\ Kind = "headers" => ~m.garbled /\ InHeadersEnd(m) /\ Current.text = <<>>
         /\ Kind = "body" => ~m.garbled /\ InBody(m) /\ Current.text = m.body
         /\ Kind = "done" => ~m.garbled /\ InEnd(m)
<1>1. PICK e : e = Elements(m)
  OBVIOUS
<1>2. m \in Messages /\ at \in DOMAIN e /\ Current = e[at] /\ Kind = e[at].kind
  BY <1>1, MessageOfScript
<1>3. ASSUME NEW kind, NEW text, e[at] = Element(kind, text)
      PROVE  Kind = kind /\ Current.text = text
  <2>1. Element(kind, text).kind = kind /\ Element(kind, text).text = text
    BY DEF Element
  <2> QED BY <1>2, <1>3, <2>1, Zenon
<1>4. CASE m.garbled
  <2>1. Elements(m) = <<Element("url", m.target)>> \o <<Element("garbage", <<>>)>>
    BY <1>4, Zenon DEF Elements
  <2>2. e[1] = Element("url", m.target) /\ e[2] = Element("garbage", <<>>)
    BY <1>1, <2>1
  <2>3. InTarget(m) \/ at = 2
    BY <1>4, Zenon DEF InMessage
  <2>4. CASE at = 2
    <3>1. Kind = "garbage"
      <4>1. e[at] = Element("garbage", <<>>)
        BY <2>2, <2>4, Zenon
      <4> QED BY <1>3, <4>1
    <3> QED BY <1>2, <3>1
  <2>5. CASE InTarget(m)
    <3>1. Kind = "url" /\ Current.text = m.target
      <4>1. e[at] = Element("url", m.target)
        BY <2>2, <2>5, Zenon DEF InTarget
      <4> QED BY <1>3, <4>1
    <3> QED BY <1>2, <2>5, <3>1
  <2> QED BY <2>3, <2>4, <2>5
<1>5. CASE ~m.garbled
  <2>1. /\ e[1] = Element("url", m.target)
        /\ \A i \in 1..Count(m) :
             /\ e[NamePlace(m, i)] = Element("name", AllFields(m)[i][1])
             /\ e[NamePlace(m, i) + 1] = Element("value", AllFields(m)[i][2])
        /\ e[EndOfHeaders(m)] = Element("headers", <<>>)
        /\ m.body # <<>> => e[EndOfHeaders(m) + 1] = Element("body", m.body)
        /\ e[EndOfMessage(m)] = Element("done", <<>>)
    BY <1>1, <1>2, <1>5, Layout
  <2>2. CASE InTarget(m)
    <3>1. Kind = "url" /\ Current.text = m.target
      <4>1. e[at] = Element("url", m.target)
        BY <2>1, <2>2, Zenon DEF InTarget
      <4> QED BY <1>3, <4>1
    <3> QED BY <1>2, <2>2, <3>1
  <2>3. ASSUME NEW i \in 1..Count(m), InName(m, i)
        PROVE  Kind = "name" /\ Current.text = AllFields(m)[i][1]
    <3>1. e[at] = Element("name", AllFields(m)[i][1])
      BY <2>1, <2>3, Zenon DEF InName
    <3> QED BY <1>3, <3>1
  <2>4. ASSUME NEW i \in 1..Count(m), InValue(m, i)
        PROVE  Kind = "value" /\ Current.text = AllFields(m)[i][2]
    <3>1. e[at] = Element("value", AllFields(m)[i][2])
      BY <2>1, <2>4, Zenon DEF InValue
    <3> QED BY <1>3, <3>1
  <2>5. CASE InHeadersEnd(m)
    <3>1. Kind = "headers" /\ Current.text = <<>>
      <4>1. e[at] = Element("headers", <<>>)
        BY <2>1, <2>5, Zenon DEF InHeadersEnd
      <4> QED BY <1>3, <4>1
    <3> QED BY <1>2, <1>5, <2>5, <3>1
  <2>6. CASE InBody(m)
    <3>1. Kind = "body" /\ Current.text = m.body
      <4>1. e[at] = Element("body", m.body)
        BY <2>1, <2>6, Zenon DEF InBody
      <4> QED BY <1>3, <4>1
    <3> QED BY <1>2, <1>5, <2>6, <3>1
  <2>7. CASE InEnd(m)
    <3>1. Kind = "done"
      <4>1. e[at] = Element("done", <<>>)
        BY <2>1, <2>7, Zenon DEF InEnd
      <4> QED BY <1>3, <4>1
    <3> QED BY <1>2, <1>5, <2>7, <3>1
  <2>8. CASE \E i \in 1..Count(m) : InName(m, i)
    <3>1. PICK i \in 1..Count(m) : InName(m, i)
      BY <2>8
    <3>2. Kind = "name" /\ Current.text = AllFields(m)[i][1]
      BY <2>3, <3>1
    <3> QED BY <1>2, <1>5, <3>1, <3>2
  <2>9. CASE \E i \in 1..Count(m) : InValue(m, i)
    <3>1. PICK i \in 1..Count(m) : InValue(m, i)
      BY <2>9
    <3>2. Kind = "value" /\ Current.text = AllFields(m)[i][2]
      BY <2>4, <3>1
    <3> QED BY <1>2, <1>5, <3>1, <3>2
  <2>10. \/ InTarget(m) \/ InHeadersEnd(m) \/ InBody(m) \/ InEnd(m)
         \/ \E i \in 1..Count(m) : InName(m, i)
         \/ \E i \in 1..Count(m) : InValue(m, i)
    BY <1>5, Zenon DEF InMessage
  <2> QED BY <2>2, <2>5, <2>6, <2>7, <2>8, <2>9, <2>10
<1> QED BY <1>4, <1>5

(* After n fields of the header section comes the next or its end.         *)
LEMMA GoesOnInHeaders ==
  ASSUME NEW m \in Messages, ~m.garbled, NEW n \in 0..Len(m.headers),
         at' = 2 * n + 2, off' = 0, target' = m.target, body' = <<>>, Between(m, n, 0)'
  PROVE  InMessage(m)'
<1>1. PICK h, s : /\ h = Len(m.headers) /\ s = Len(m.trailers) /\ h \in Nat /\ s \in Nat
                  /\ Count(m) = h + s /\ EndOfHeaders(m) = 2 * h + 2
  BY Counts, Zenon
<1>2. CASE n = Len(m.headers)
  <2>1. InHeadersEnd(m)'
    BY <1>1, <1>2, Zenon DEF InHeadersEnd
  <2> QED BY <2>1, Zenon DEF InMessage
<1>3. CASE n # Len(m.headers)
  <2>1. PICK i : i = n + 1
    OBVIOUS
  <2>2. /\ i \in 1..Count(m) /\ i <= Len(m.headers) /\ i - 1 = n /\ 2 * i = 2 * n + 2
    <3>1. n \in 0..h /\ n # h
      BY <1>1, <1>3, Zenon
    <3>2. i \in 1..h + s /\ i <= h /\ i - 1 = n /\ 2 * i = 2 * n + 2
      <4>1. h \in Nat /\ s \in Nat /\ i = n + 1
        BY <1>1, <2>1, Zenon
      <4> QED BY ONLY <3>1, <4>1
    <3> QED BY <1>1, <3>2, Zenon
  <2>3. NamePlace(m, i) = 2 * i
    BY <2>2, Counts, Zenon
  <2>4. InName(m, i)'
    BY <2>2, <2>3, Zenon DEF InName
  <2> QED BY <2>2, <2>4, Zenon DEF InMessage
<1> QED BY <1>2, <1>3

(* After all headers and n - Len(m.headers) trailers comes the next        *)
(* trailer or the end.                                                     *)
LEMMA GoesOnInTrailers ==
  ASSUME NEW m \in Messages, ~m.garbled, NEW n \in Len(m.headers)..Count(m),
         at' = AfterBody(m) + 2 * (n - Len(m.headers)), off' = 0,
         target' = m.target, body' = m.body, Between(m, n, Len(m.headers))'
  PROVE  InMessage(m)'
<1>1. PICK h, s : /\ h = Len(m.headers) /\ s = Len(m.trailers) /\ h \in Nat /\ s \in Nat
                  /\ Count(m) = h + s /\ EndOfMessage(m) = AfterBody(m) + 2 * s
  <2>1. PICK h, s : h = Len(m.headers) /\ s = Len(m.trailers)
    OBVIOUS
  <2>2. h \in Nat /\ s \in Nat /\ Count(m) = h + s /\ EndOfMessage(m) = AfterBody(m) + 2 * s
    BY <2>1, Counts, Zenon
  <2> QED BY <2>1, <2>2, Zenon
<1>2. CASE n = Count(m)
  <2>1. n - Len(m.headers) = Len(m.trailers)
    <3>1. (h + s) - h = s
      BY <1>1
    <3> QED BY <1>1, <1>2, <3>1, Zenon
  <2>2. at' = EndOfMessage(m)
    BY <1>1, <2>1, Zenon
  <2>3. InEnd(m)'
    BY <1>2, <2>2, Zenon DEF InEnd
  <2> QED BY <2>3, Zenon DEF InMessage
<1>3. CASE n # Count(m)
  <2>1. PICK i : i = n + 1
    OBVIOUS
  <2>2. /\ i \in 1..Count(m) /\ i > Len(m.headers) /\ ~(i <= Len(m.headers)) /\ i - 1 = n
    <3>1. n \in h..h + s /\ n # h + s
      BY <1>1, <1>3, Zenon
    <3>2. i \in 1..h + s /\ i > h /\ ~(i <= h) /\ i - 1 = n
      <4>1. h \in Nat /\ s \in Nat /\ i = n + 1
        BY <1>1, <2>1, Zenon
      <4> QED BY ONLY <3>1, <4>1
    <3> QED BY <1>1, <3>2, Zenon
  <2>3. NamePlace(m, i) = AfterBody(m) + 2 * (i - 1 - Len(m.headers))
    BY <2>2, Counts, Zenon
  <2>4. at' = NamePlace(m, i)
    BY <2>2, <2>3, Zenon
  <2>5. InName(m, i)'
    BY <2>2, <2>4, Zenon DEF InName
  <2> QED BY <2>2, <2>5, Zenon DEF InMessage
<1> QED BY <1>2, <1>3

(* The end of the headers and the body are followed by the trailers.       *)
LEMMA LeavesHeaders ==
  ASSUME NEW m \in Messages, ~m.garbled,
         \/ at' = EndOfHeaders(m) + 1 /\ body' = <<>>
         \/ m.body # <<>> /\ at' = EndOfHeaders(m) + 2 /\ body' = m.body,
         off' = 0, target' = m.target, Between(m, Len(m.headers), Len(m.headers))'
  PROVE  InMessage(m)'
<1>1. /\ Len(m.headers) \in Nat /\ Len(m.trailers) \in Nat
      /\ Count(m) = Len(m.headers) + Len(m.trailers)
      /\ m.body = <<>> => AfterBody(m) = EndOfHeaders(m) + 1
      /\ m.body # <<>> => AfterBody(m) = EndOfHeaders(m) + 2
      /\ EndOfHeaders(m) = 2 * Len(m.headers) + 2
  BY Counts
<1>2. CASE m.body # <<>> /\ at' = EndOfHeaders(m) + 1 /\ body' = <<>>
  <2>1. m.body \in Text /\ Len(m.body) \in Nat
    BY FieldsOfMessage DEF Text
  <2>2. 0 \in Nat /\ 0 + 0 <= Len(m.body)
    BY <2>1
  <2>3. Done(m.body)' = <<>>
    BY <2>1, <2>2, DoneGrows, Zenon DEF Done
  <2>4. InBody(m)'
    BY <1>2, <2>3, Zenon DEF InBody
  <2> QED BY <2>4, Zenon DEF InMessage
<1>3. CASE at' = AfterBody(m) /\ body' = m.body
  <2>1. PICK h : h = Len(m.headers)
    OBVIOUS
  <2>2. /\ h \in h..Count(m) /\ AfterBody(m) \in Nat
        /\ AfterBody(m) + 2 * (h - h) = AfterBody(m)
    <3>1. h \in Nat /\ AfterBody(m) \in Nat
      BY <1>1, <2>1
    <3>2. PICK s, a : s = Len(m.trailers) /\ s \in Nat /\ a = AfterBody(m)
      BY <1>1
    <3>3. h \in h..h + s /\ a \in Nat /\ a + 2 * (h - h) = a
      <4>1. h \in Nat /\ s \in Nat /\ a \in Nat
        BY <3>1, <3>2, Zenon
      <4> QED BY ONLY <4>1
    <3> QED BY <1>1, <2>1, <3>2, <3>3, Zenon
  <2>3. at' = AfterBody(m) + 2 * (h - h)
    BY <1>3, <2>2, Zenon
  <2> QED BY <1>3, <2>1, <2>2, <2>3, GoesOnInTrailers, Zenon
<1> QED BY <1>1, <1>2, <1>3, Zenon

(* What a callback adds to a text that it puts together from its pieces.   *)
LEMMA PieceAdds ==
  ASSUME Placed, NEW kind \in {"url", "name", "value", "headers", "body"},
         Reports(kind), Advance, NEW c, c = Current.text
  PROVE  /\ UNCHANGED <<script, message>> /\ c \in Text
         /\ \/ at' = at /\ off' # 0 /\ SubSeq(c, 1, off) \o Piece = SubSeq(c, 1, off')
            \/ at' = at + 1 /\ off' = 0 /\ SubSeq(c, 1, off) \o Piece = c
         /\ off = 0 => SubSeq(c, 1, off) = <<>>
         /\ SubSeq(c, 1, 0) = <<>>
<1>1. PICK n : n = Len(Piece)
  OBVIOUS
<1>2. /\ UNCHANGED <<script, message>>
      /\ c \in Text /\ off \in Nat /\ n \in Nat /\ off + n <= Len(c) /\ Len(c) \in Nat
      /\ Piece = SubSeq(c, off + 1, off + n)
      /\ \/ at' = at /\ off' = off + n /\ off' # 0
         \/ at' = at + 1 /\ off' = 0 /\ off + n = Len(c)
  BY <1>1, AdvanceGoesOn
<1>3. /\ SubSeq(c, 1, off) \o SubSeq(c, off + 1, off + n) = SubSeq(c, 1, off + n)
      /\ SubSeq(c, 1, 0) = <<>>
      /\ SubSeq(c, 1, Len(c)) = c
  BY <1>2, DoneGrows
<1> QED BY <1>2, <1>3, Zenon

LEMMA TargetGoesOn ==
  ASSUME Placed, Reports("url"), Charge, target' = target \o Piece,
         UNCHANGED <<field, value, body, headers, readingValue>>,
         NEW m, m = script[message], InMessage(m)
  PROVE  InMessage(m)'
<1>1. Advance /\ More
  BY Zenon DEF Charge, Reports, Kind
<1>2. m \in Messages /\ InTarget(m) /\ Current.text = m.target
  BY <1>1, StageOf, Zenon DEF Reports
<1>3. /\ at = 1 /\ target = SubSeq(m.target, 1, off) /\ body = <<>> /\ field = <<>> /\ value = <<>>
      /\ headers = FieldsUpTo(m, 0)
  BY <1>2, Zenon DEF InTarget, Done, Between
<1>4. Between(m, 0, 0)'
  BY <1>3, Zenon DEF Between
<1>5. CASE at' = at /\ target' = SubSeq(m.target, 1, off')
  <2>1. InTarget(m)'
    BY <1>3, <1>4, <1>5, Zenon DEF InTarget, Done
  <2> QED BY <2>1, Zenon DEF InMessage
<1>6. CASE at' = at + 1 /\ off' = 0 /\ target' = m.target
  <2>1. at' = 2
    BY <1>3, <1>6
  <2>2. CASE m.garbled
    BY <2>1, <2>2, Zenon DEF InMessage
  <2>3. CASE ~m.garbled
    <3>1. 2 * 0 + 2 = 2 /\ 0 \in 0..Len(m.headers)
      BY <1>2, Counts
    <3>2. at' = 2 * 0 + 2 /\ body' = <<>>
      BY <1>3, <2>1, <3>1, Zenon
    <3> QED BY <1>2, <1>4, <1>6, <2>3, <3>1, <3>2, GoesOnInHeaders, Zenon
  <2> QED BY <2>2, <2>3
<1> QED BY <1>1, <1>2, <1>3, <1>5, <1>6, PieceAdds, Zenon

(* A piece of a name: the first one commits the field before it.           *)
LEMMA NameGoesOn ==
  ASSUME Placed, Reports("name"), Charge,
         IF readingValue THEN headers' = Committed /\ field' = Piece /\ value' = <<>>
                         ELSE field' = field \o Piece /\ UNCHANGED <<headers, value>>,
         readingValue' = FALSE, UNCHANGED <<target, body>>,
         NEW m, m = script[message], InMessage(m)
  PROVE  InMessage(m)'
<1>1. Advance /\ More
  BY Zenon DEF Charge, Reports, Kind
<1>2. PICK i \in 1..Count(m) : InName(m, i) /\ Current.text = AllFields(m)[i][1]
  BY <1>1, StageOf, Zenon DEF Reports
<1>3. m \in Messages /\ ~m.garbled
  BY <1>1, StageOf, Zenon DEF Reports
<1>4. PICK c, first : /\ c = AllFields(m)[i][1]
                      /\ first = IF i <= Len(m.headers) THEN 0 ELSE Len(m.headers)
  OBVIOUS
<1>5. /\ i - 1 \in Nat /\ i - 1 <= Count(m) /\ first \in Nat /\ first <= i - 1 /\ i \in Nat
  <2>1. PICK h \in Nat, s \in Nat : h = Len(m.headers) /\ Count(m) = h + s
    BY ONLY <1>3, Sizes, Zenon
  <2>2. i \in 1..h + s /\ first = IF i <= h THEN 0 ELSE h
    BY <1>4, <2>1, Zenon
  <2>3. i - 1 \in Nat /\ i - 1 <= h + s /\ first \in Nat /\ first <= i - 1 /\ i \in Nat
    <3>1. h \in Nat /\ s \in Nat
      OBVIOUS
    <3> QED BY ONLY <2>2, <3>1
  <2> QED BY <2>1, <2>3, Zenon
<1>6. SubSeq(c, 1, off) \o Piece = field' /\ headers' = FieldsUpTo(m, i - 1) /\ value' = <<>>
  <2>1. CASE off # 0
    BY <1>2, <1>4, <2>1, Zenon DEF InName, Done
  <2>2. CASE off = 0
    <3>1. Between(m, i - 1, first)
      BY <1>2, <1>4, <2>2, Zenon DEF InName
    <3>2. SubSeq(c, 1, off) = <<>> /\ <<>> \o Piece = Piece
      <4>1. SubSeq(c, 1, off) = <<>> /\ c \in Text
        BY <1>1, <1>2, <1>4, <2>2, PieceAdds
      <4>2. Piece \in Seq(0..255)
        BY <1>1, PieceOfText DEF Text
      <4> QED BY <4>1, <4>2, ConcatEmptySeq
    <3>3. CASE readingValue
      <4>1. Committed = FieldsUpTo(m, i - 1)
        BY <1>3, <1>5, <3>1, CommittedFields
      <4> QED BY <3>2, <3>3, <4>1, Zenon
    <3>4. CASE ~readingValue
      <4>1. field = <<>> /\ value = <<>> /\ headers = FieldsUpTo(m, i - 1)
        BY <3>1, <3>4, Zenon DEF Between
      <4> QED BY <3>2, <3>4, <4>1, Zenon
    <3> QED BY <3>3, <3>4
  <2> QED BY <2>1, <2>2
<1>7. /\ at = NamePlace(m, i) /\ target' = m.target
      /\ body' = IF i <= Len(m.headers) THEN <<>> ELSE m.body
  BY <1>2, Zenon DEF InName
<1>8. CASE at' = at /\ off' # 0 /\ field' = SubSeq(c, 1, off')
  <2>1. InName(m, i)'
    BY <1>4, <1>6, <1>7, <1>8, Zenon DEF InName, Done
  <2> QED BY <1>3, <2>1, Zenon DEF InMessage
<1>9. CASE at' = at + 1 /\ off' = 0 /\ field' = c
  <2>1. SubSeq(AllFields(m)[i][2], 1, 0) = <<>>
    <3>1. PICK v : v = AllFields(m)[i][2]
      OBVIOUS
    <3>2. v \in Text
      BY <1>3, <3>1, FieldsAre, Zenon
    <3>3. v \in Seq(0..255)
      BY <3>2 DEF Text
    <3>4. SubSeq(v, 1, 0) = <<>>
      BY <3>3, SubSeqEmpty
    <3> QED BY <3>1, <3>4
  <2>2. InValue(m, i)'
    BY <1>4, <1>6, <1>7, <1>9, <2>1, Zenon DEF InValue, Done
  <2> QED BY <1>3, <2>2, Zenon DEF InMessage
<1> QED BY <1>1, <1>2, <1>4, <1>6, <1>8, <1>9, PieceAdds, Zenon

(* A piece of a value. At its end the field is whole, though not stored.   *)
LEMMA ValueGoesOn ==
  ASSUME Placed, Reports("value"), Charge, value' = value \o Piece, readingValue' = TRUE,
         UNCHANGED <<target, field, body, headers>>,
         NEW m, m = script[message], InMessage(m)
  PROVE  InMessage(m)'
<1>1. Advance /\ More
  BY Zenon DEF Charge, Reports, Kind
<1>2. PICK i \in 1..Count(m) : InValue(m, i) /\ Current.text = AllFields(m)[i][2]
  BY <1>1, StageOf, Zenon DEF Reports
<1>3. m \in Messages /\ ~m.garbled
  BY <1>1, StageOf, Zenon DEF Reports
<1>4. PICK h \in Nat, s \in Nat, a \in Nat :
        h = Len(m.headers) /\ a = AfterBody(m) /\ Count(m) = h + s
  BY ONLY <1>3, Sizes, Zenon
<1>5. PICK c : c = AllFields(m)[i][2] /\ h \in Nat /\ s \in Nat /\ a \in Nat
  OBVIOUS
<1>6. /\ at = NamePlace(m, i) + 1 /\ target' = m.target
      /\ body' = (IF i <= h THEN <<>> ELSE m.body)
      /\ field' = AllFields(m)[i][1] /\ value' = SubSeq(c, 1, off) \o Piece
      /\ headers' = FieldsUpTo(m, i - 1)
  BY <1>2, <1>4, <1>5, Zenon DEF InValue, Done
<1>7. CASE at' = at /\ off' # 0 /\ value' = SubSeq(c, 1, off')
  <2>1. InValue(m, i)'
    BY <1>4, <1>5, <1>6, <1>7, Zenon DEF InValue, Done
  <2> QED BY <1>3, <2>1, Zenon DEF InMessage
<1>8. CASE at' = at + 1 /\ off' = 0 /\ value' = c
  <2>1. i # 0 /\ i \in 1..h + s
    <3>1. i \in 1..h + s
      BY <1>4, Zenon
    <3> QED BY ONLY <1>5, <3>1
  <2>2. <<field, value>>' = AllFields(m)[i]
    <3>1. AllFields(m)[i] = <<AllFields(m)[i][1], AllFields(m)[i][2]>>
      BY <1>3, FieldsAre, Zenon
    <3> QED BY <1>5, <1>6, <1>8, <3>1, Zenon
  <2>3. CASE i <= h
    <3>1. at' = 2 * i + 2 /\ i \in 0..h
      <4>1. NamePlace(m, i) = 2 * i
        BY <1>3, <1>4, <2>3, Counts, Zenon
      <4>2. PICK p : p = at'
        OBVIOUS
      <4>3. p = 2 * i + 1 + 1
        BY <1>6, <1>8, <4>1, <4>2, Zenon
      <4>4. p = 2 * i + 2 /\ i \in 0..h
        BY ONLY <1>5, <2>1, <2>3, <4>3
      <4> QED BY <4>2, <4>4
    <3>2. Between(m, i, 0)'
      BY <1>6, <2>1, <2>2, Zenon DEF Between
    <3>3. body' = <<>>
      BY <1>6, <2>3, Zenon
    <3> QED BY <1>3, <1>4, <1>6, <1>8, <3>1, <3>2, <3>3, GoesOnInHeaders, Zenon
  <2>4. CASE ~(i <= h)
    <3>1. i > h /\ i # h /\ i \in h..h + s
      BY ONLY <1>5, <2>1, <2>4
    <3>2. at' = a + 2 * (i - h)
      <4>1. NamePlace(m, i) = a + 2 * (i - 1 - h)
        BY <1>3, <1>4, <3>1, Counts, Zenon
      <4>2. PICK p : p = at'
        OBVIOUS
      <4>3. p = a + 2 * (i - 1 - h) + 1 + 1
        BY <1>6, <1>8, <4>1, <4>2, Zenon
      <4>4. p = a + 2 * (i - h)
        BY ONLY <1>5, <2>1, <4>3
      <4> QED BY <4>2, <4>4
    <3>3. Between(m, i, h)'
      BY <1>6, <2>2, <3>1, Zenon DEF Between
    <3>4. body' = m.body
      BY <1>6, <2>4, Zenon
    <3> QED BY <1>3, <1>4, <1>6, <1>8, <3>1, <3>2, <3>3, <3>4, GoesOnInTrailers, Zenon
  <2> QED BY <2>3, <2>4
<1> QED BY <1>1, <1>2, <1>5, <1>6, <1>7, <1>8, PieceAdds, Zenon

(* The end of the headers commits the last of them.                        *)
LEMMA HeadersEndGoesOn ==
  ASSUME Placed, Reports("headers"), Advance,
         headers' = Committed, field' = <<>>, value' = <<>>, UNCHANGED <<target, body>>,
         NEW m, m = script[message], InMessage(m)
  PROVE  InMessage(m)'
<1>1. More
  BY Zenon DEF Reports, Kind
<1>2. m \in Messages /\ ~m.garbled /\ InHeadersEnd(m) /\ Current.text = <<>>
  BY <1>1, StageOf, Zenon DEF Reports
<1>3. PICK h \in Nat : h = Len(m.headers) /\ h <= Count(m)
  <2>1. PICK h \in Nat, s \in Nat : h = Len(m.headers) /\ Count(m) = h + s
    BY ONLY <1>2, Sizes, Zenon
  <2>2. h <= h + s
    OBVIOUS
  <2> QED BY <2>1, <2>2, Zenon
<1>4. /\ at = EndOfHeaders(m) /\ target' = m.target /\ body' = <<>> /\ Between(m, h, 0)
  BY <1>2, <1>3, Zenon DEF InHeadersEnd
<1>5. Committed = FieldsUpTo(m, h)
  BY <1>2, <1>3, <1>4, CommittedFields
<1>6. Between(m, h, h)'
  BY <1>5, Zenon DEF Between
<1>7. at' = at + 1 /\ off' = 0
  <2>1. PICK c, n : c = Current.text /\ n = Len(Piece)
    OBVIOUS
  <2>2. /\ off \in Nat /\ n \in Nat /\ off + n <= Len(c)
        /\ \/ at' = at /\ off' = off + n /\ off' # 0
           \/ at' = at + 1 /\ off' = 0
    BY <2>1, AdvanceGoesOn
  <2>3. Len(c) = 0
    BY <1>2, <2>1
  <2>4. off + n = 0
    BY ONLY <2>2, <2>3
  <2> QED BY <2>2, <2>4, Zenon
<1> QED BY <1>2, <1>3, <1>4, <1>6, <1>7, LeavesHeaders, Zenon

LEMMA BodyGoesOn ==
  ASSUME Placed, Reports("body"), Advance, body' = body \o Piece,
         UNCHANGED <<target, field, value, headers>>,
         NEW m, m = script[message], InMessage(m)
  PROVE  InMessage(m)'
<1>1. More
  BY Zenon DEF Reports, Kind
<1>2. m \in Messages /\ ~m.garbled /\ InBody(m) /\ Current.text = m.body
  BY <1>1, StageOf, Zenon DEF Reports
<1>3. PICK h : h = Len(m.headers)
  OBVIOUS
<1>4. /\ m.body # <<>> /\ at = EndOfHeaders(m) + 1 /\ target' = m.target
      /\ body' = SubSeq(m.body, 1, off) \o Piece /\ Between(m, h, h)
  BY <1>2, <1>3, Zenon DEF InBody, Done
<1>5. Between(m, h, h)'
  BY <1>4, Zenon DEF Between
<1>6. CASE at' = at /\ body' = SubSeq(m.body, 1, off')
  <2>1. InBody(m)'
    BY <1>3, <1>4, <1>5, <1>6, Zenon DEF InBody, Done
  <2> QED BY <1>2, <2>1, Zenon DEF InMessage
<1>7. CASE at' = at + 1 /\ off' = 0 /\ body' = m.body
  <2>1. at' = EndOfHeaders(m) + 2
    <3>1. EndOfHeaders(m) \in Nat
      BY ONLY <1>2, Sizes, Zenon
    <3> QED BY <1>4, <1>7, <3>1
  <2> QED BY <1>2, <1>3, <1>4, <1>5, <1>7, <2>1, LeavesHeaders, Zenon
<1> QED BY <1>2, <1>4, <1>6, <1>7, PieceAdds, Zenon

(* A prefix that reaches into the second of two sequences.                 *)
LEMMA PrefixOf ==
  ASSUME NEW S, NEW s \in Seq(S), NEW k \in 0..Len(s), NEW p, p = SubSeq(s, 1, k)
  PROVE  p \in Seq(S) /\ Len(p) = k /\ \A i \in 1..k : p[i] = s[i]
<1>1. PICK n : n = Len(s)
  OBVIOUS
<1>2. n \in Nat /\ k \in Nat /\ k <= n /\ 1 \in Int /\ k \in Int
  BY <1>1, LenProperties
<1>3. \A i \in 1..k : s[i] \in S
  <2>1. \A i \in 1..k : i \in 1..n
    BY <1>2
  <2> QED BY <1>1, <2>1, ElementOfSeq, Zenon
<1>4. /\ p \in Seq(S) /\ Len(p) = IF 1 <= k THEN k - 1 + 1 ELSE 0
      /\ \A i \in 1..k - 1 + 1 : p[i] = s[1 + i - 1]
  <2>1. /\ SubSeq(s, 1, k) \in Seq(S) /\ Len(SubSeq(s, 1, k)) = IF 1 <= k THEN k - 1 + 1 ELSE 0
        /\ \A i \in 1..k - 1 + 1 : SubSeq(s, 1, k)[i] = s[1 + i - 1]
    BY ONLY <1>2, <1>3, SubSeqProperties
  <2> QED BY <2>1, Zenon
<1>5. /\ (IF 1 <= k THEN k - 1 + 1 ELSE 0) = k
      /\ \A i \in 1..k : i \in 1..k - 1 + 1 /\ 1 + i - 1 = i
  BY ONLY <1>2
<1>6. \A i \in 1..k : p[i] = s[i]
  BY <1>4, <1>5, Zenon
<1> QED BY <1>4, <1>5, <1>6, Zenon

LEMMA PrefixOfBoth ==
  ASSUME NEW S, NEW s \in Seq(S), NEW t \in Seq(S), NEW k \in 0..Len(t),
         NEW r, r = s \o t, NEW p, p = SubSeq(t, 1, k), NEW u, u = SubSeq(r, 1, Len(s) + k)
  PROVE  u = s \o p
<1>1. PICK h, n : h = Len(s) /\ n = Len(t)
  OBVIOUS
<1>2. h \in Nat /\ n \in Nat
  BY <1>1, LenProperties
<1>3. k \in 0..n
  BY <1>1
<1>4. r \in Seq(S) /\ Len(r) = h + n /\ \A i \in 1..h + n : r[i] = IF i <= h THEN s[i] ELSE t[i - h]
  BY <1>1, ConcatProperties
<1>5. p \in Seq(S) /\ Len(p) = k /\ \A i \in 1..k : p[i] = t[i]
  BY PrefixOf
<1>6. u \in Seq(S) /\ Len(u) = h + k /\ \A i \in 1..h + k : u[i] = r[i]
  <2>1. h + k \in 0..h + n
    BY <1>2, <1>3
  <2> QED BY <1>1, <1>4, <2>1, PrefixOf
<1>7. PICK v : v = s \o p
  OBVIOUS
<1>8. v \in Seq(S) /\ Len(v) = h + k
      /\ \A i \in 1..h + k : v[i] = IF i <= h THEN s[i] ELSE p[i - h]
  BY <1>1, <1>5, <1>7, ConcatProperties
<1>9. ASSUME NEW i \in 1..h + k PROVE u[i] = v[i]
  <2>1. i \in 1..h + n /\ (~(i <= h) => i - h \in 1..k)
    BY <1>2, <1>3
  <2> QED BY <1>4, <1>5, <1>6, <1>8, <2>1, Zenon
<1>10. u = v
  BY <1>6, <1>8, <1>9, SeqEqual
<1> QED BY <1>7, <1>10

(* At the end of a message the parser holds what the message means.        *)
LEMMA WholeFields ==
  ASSUME NEW m \in Messages, InEnd(m)
  PROVE  headers = MapOf(Fields(m)) /\ body = m.body /\ target = m.target
<1>1. PICK s, t : /\ s = m.headers /\ t = m.trailers /\ s \in Seq(Field) /\ t \in Seq(Field)
  BY FieldsOfMessage
<1>2. PICK h \in Nat, k \in Nat : h = Len(s) /\ k = Len(t) /\ Count(m) = h + k
  BY <1>1, Sizes, Zenon
<1>3. body = m.body /\ target = m.target /\ Between(m, h + k, h)
  BY <1>1, <1>2, Zenon DEF InEnd
<1>4. PICK r : r = s \o t /\ r = AllFields(m)
  BY <1>1, Zenon DEF AllFields
<1>5. h = Len(m.headers) /\ AllFields(m) = r /\ Len(t) = k /\ Len(s) = h
  BY <1>1, <1>2, <1>4, Zenon
<1>6. CASE k = 0
  <2>1. h + k = h /\ k \in 0..k
    BY <1>6
  <2>2. Between(m, h, h)
    BY <1>3, <2>1
  <2>3. headers = MapOf(SubSeq(r, 1, h + k))
    BY <1>5, <2>1, <2>2, Zenon DEF Between, FieldsUpTo
  <2>4. SubSeq(r, 1, h + k) = s \o SubSeq(t, 1, k)
    <3>1. SubSeq(r, 1, Len(s) + k) = s \o SubSeq(t, 1, k)
      <4>1. PICK p, u, j : p = SubSeq(t, 1, j) /\ u = SubSeq(r, 1, Len(s) + j) /\ j = k
        OBVIOUS
      <4>2. s \in Seq(Field) /\ t \in Seq(Field) /\ r = s \o t /\ j \in 0..Len(t)
        BY <1>1, <1>4, <1>5, <2>1, <4>1, Zenon
      <4>3. u = s \o p
        BY ONLY <4>1, <4>2, PrefixOfBoth
      <4> QED BY <4>1, <4>3, Zenon
    <3> QED BY <1>5, <3>1, Zenon
  <2>5. SubSeq(t, 1, k) = SubSeq(t, 1, k - 1)
    <3>1. k \in Int /\ k - 1 \in Int /\ 1 \in Int /\ k < 1 /\ k - 1 < 1
      BY <1>6
    <3> QED BY <3>1, SubSeqEmpty, Zenon
  <2> QED BY <1>1, <1>3, <1>5, <2>3, <2>4, <2>5, Zenon DEF Fields
<1>7. CASE k # 0
  <2>1. h + k # h /\ k - 1 \in 0..k /\ h + (k - 1) = (h + k) - 1
    BY <1>7
  <2>2. headers = MapOf(SubSeq(r, 1, (h + k) - 1))
    <3>1. PICK n : n = h + k
      OBVIOUS
    <3>2. headers = FieldsUpTo(m, n - 1)
      BY <1>3, <2>1, <3>1, Zenon DEF Between
    <3> QED BY <1>5, <3>1, <3>2, Zenon DEF FieldsUpTo
  <2>3. SubSeq(r, 1, h + (k - 1)) = s \o SubSeq(t, 1, k - 1)
    <3>1. SubSeq(r, 1, Len(s) + (k - 1)) = s \o SubSeq(t, 1, k - 1)
      <4>1. PICK p, u, j : p = SubSeq(t, 1, j) /\ u = SubSeq(r, 1, Len(s) + j) /\ j = k - 1
        OBVIOUS
      <4>2. s \in Seq(Field) /\ t \in Seq(Field) /\ r = s \o t /\ j \in 0..Len(t)
        BY <1>1, <1>4, <1>5, <2>1, <4>1, Zenon
      <4>3. u = s \o p
        BY ONLY <4>1, <4>2, PrefixOfBoth
      <4> QED BY <4>1, <4>3, Zenon
    <3> QED BY <1>5, <3>1, Zenon
  <2> QED BY <1>1, <1>3, <1>5, <2>1, <2>2, <2>3, Zenon DEF Fields
<1> QED BY <1>6, <1>7

LEMMA RequestOfMessage ==
  ASSUME NEW m \in Messages, InEnd(m),
         NEW r, r = [path |-> ApplyTarget(target).path, query |-> ApplyTarget(target).query,
                     headers |-> HeadersLookedUp, body |-> body, json |-> IsJson]
  PROVE  /\ \A f \in {"headers", "body", "json"} : r[f] = Meant(m)[f]
         /\ \A f \in {"path", "query"} : r[f] = ApplyTarget(m.target)[f]
<1>1. headers = MapOf(Fields(m)) /\ body = m.body /\ target = m.target
  BY WholeFields
<1>2. PICK map : map = MapOf(Fields(m))
  OBVIOUS
<1>3. PICK full :
        full = IF m.body = <<>> \/ ContentType \in DOMAIN map THEN map
               ELSE [n \in DOMAIN map \cup {ContentType} |-> IF n = ContentType THEN <<>> ELSE map[n]]
  OBVIOUS
<1>4. HeadersLookedUp = full
  BY <1>1, <1>2, <1>3, Zenon DEF HeadersLookedUp, Store
<1>5. Meant(m) = [headers |-> full, body |-> m.body,
                  json |-> m.body # <<>> /\ full[ContentType] = JsonType]
  BY <1>2, <1>3, Zenon DEF Meant
<1>6. IsJson = (m.body # <<>> /\ full[ContentType] = JsonType)
  BY <1>1, <1>4, Zenon DEF IsJson
<1>7. /\ Meant(m)["headers"] = full /\ Meant(m)["body"] = m.body
      /\ Meant(m)["json"] = (m.body # <<>> /\ full[ContentType] = JsonType)
  BY <1>5
<1>8. /\ r["headers"] = full /\ r["body"] = m.body /\ r["json"] = IsJson
      /\ r["path"] = ApplyTarget(m.target).path /\ r["query"] = ApplyTarget(m.target).query
  BY <1>1, <1>4, Zenon
<1>9. r["json"] = Meant(m)["json"]
  BY <1>6, <1>7, <1>8, Zenon
<1> QED BY <1>7, <1>8, <1>9, Zenon

(* Nothing of a message has been seen at its beginning.                    *)
LEMMA NothingSeen ==
  ASSUME NEW m
  PROVE  FieldsUpTo(m, 0) = <<>> /\ SubSeq(m.target, 1, 0) = <<>>
<1>1. SubSeq(AllFields(m), 1, 0) = <<>> /\ SubSeq(m.target, 1, 0) = <<>>
  BY SubSeqEmpty
<1> QED BY <1>1, NoFields, Zenon DEF FieldsUpTo

LEMMA SentStart ==
  ASSUME Init
  PROVE  SentInv
<1>1. PICK m : m = script[message]
  OBVIOUS
<1>2. FieldsUpTo(m, 0) = <<>> /\ SubSeq(m.target, 1, 0) = <<>>
  BY NothingSeen, Zenon
<1>3. /\ at = 1 /\ off = 0 /\ target = <<>> /\ body = <<>> /\ field = <<>> /\ value = <<>>
      /\ headers = <<>>
  BY Zenon DEF Init
<1>4. InTarget(m)
  BY <1>2, <1>3, Zenon DEF InTarget, Between, Done
<1>5. InMessage(m)
  BY <1>4, Zenon DEF InMessage
<1>6. DOMAIN delivered = {}
  BY DEF Init
<1> QED BY <1>1, <1>5, <1>6, Zenon DEF SentInv

(* A request is handed over, and the parser begins the next message.       *)
LEMMA SentOnComplete ==
  ASSUME Placed, CountInv, SentInv, OnMessageComplete
  PROVE  SentInv'
<1>1. More /\ rc = "ok" /\ Kind = "done" /\ Reports("done")
  BY Zenon DEF OnMessageComplete, Reports, Kind
<1>2. script' = script
  BY Zenon DEF OnMessageComplete, Advance, input
<1>3. CASE rc' = "user" /\ UNCHANGED delivered
  <2>1. rc' # "ok"
    BY <1>3
  <2> QED BY <1>2, <1>3, <2>1, Zenon DEF SentInv, AsSent
<1>4. ASSUME NEW r, delivered' = Append(delivered, r), ResetRequest,
             r = [path |-> ApplyTarget(target).path, query |-> ApplyTarget(target).query,
                  headers |-> HeadersLookedUp, body |-> body, json |-> IsJson],
             (rc' = "ok" /\ Advance) \/ rc' = "user"
      PROVE  SentInv'
  <2>1. PICK k, m : k = message /\ m = script[k]
    OBVIOUS
  <2>2. InMessage(m)
    BY <1>1, <2>1, Zenon DEF SentInv
  <2>3. m \in Messages /\ InEnd(m)
    BY <1>1, <2>1, <2>2, StageOf, Zenon
  <2>4. k \in Nat
    BY <1>1, <2>1, MessageOfScript
  <2>5. delivered \in Seq(Range(delivered)) /\ Len(delivered) = k - 1
    BY <1>1, <2>1, Zenon DEF CountInv
  <2>6. /\ DOMAIN delivered' = 1..k /\ DOMAIN delivered = 1..k - 1
        /\ delivered'[k] = r
        /\ \A i \in 1..k - 1 : delivered'[i] = delivered[i]
    BY <1>4, <2>4, <2>5
  <2>7. AsSent(k)'
    <3>1. /\ \A f \in {"headers", "body", "json"} : r[f] = Meant(m)[f]
          /\ \A f \in {"path", "query"} : r[f] = ApplyTarget(m.target)[f]
      BY <1>4, <2>3, RequestOfMessage, Zenon
    <3> QED BY <1>2, <2>1, <2>6, <3>1, Zenon DEF AsSent
  <2>8. ASSUME NEW i \in 1..k - 1
        PROVE  AsSent(i)'
    <3>1. AsSent(i)
      BY <2>6, <2>8, Zenon DEF SentInv
    <3> QED BY <1>2, <2>6, <3>1, Zenon DEF AsSent
  <2>9. \A i \in DOMAIN delivered' : AsSent(i)'
    <3>1. \A i \in 1..k : i = k \/ i \in 1..k - 1
      BY <2>4
    <3> QED BY <2>6, <2>7, <2>8, <3>1, Zenon
  <2>10. CASE rc' = "user"
    <3>1. rc' # "ok"
      BY <2>10
    <3> QED BY <2>9, <3>1, Zenon DEF SentInv
  <2>11. CASE rc' = "ok" /\ Advance
    <3>1. at' = 1 /\ off' = 0
      BY <1>1, <2>11, AdvancePlaces, Zenon
    <3>2. PICK n : n = script'[message']
      OBVIOUS
    <3>3. FieldsUpTo(n, 0) = <<>> /\ SubSeq(n.target, 1, 0) = <<>>
      BY NothingSeen, Zenon
    <3>4. /\ target' = <<>> /\ body' = <<>> /\ field' = <<>> /\ value' = <<>> /\ headers' = <<>>
      BY <1>4, Zenon DEF ResetRequest
    <3>5. InTarget(n)'
      BY <3>1, <3>3, <3>4, Zenon DEF InTarget, Between, Done
    <3>6. InMessage(n)'
      BY <3>5, Zenon DEF InMessage
    <3> QED BY <2>9, <3>2, <3>6, Zenon DEF SentInv
  <2> QED BY <1>4, <2>10, <2>11
<1> QED BY <1>3, <1>4, Zenon DEF OnMessageComplete

LEMMA SentStep ==
  ASSUME Placed, CountInv, SentInv, [Next]_vars
  PROVE  SentInv'
<1>1. ASSUME UNCHANGED <<script, delivered>>, rc' # "ok"
      PROVE  SentInv'
  BY <1>1, Zenon DEF SentInv, AsSent
<1>2. ASSUME UNCHANGED <<script, message, at, off, rc, request, delivered>>
      PROVE  SentInv'
  <2>1. UNCHANGED <<target, field, value, body, headers, readingValue>>
    BY <1>2, Zenon DEF request
  <2>2. \A i \in DOMAIN delivered' : AsSent(i)'
    BY <1>2, Zenon DEF SentInv, AsSent
  <2>3. ASSUME More, rc = "ok"
        PROVE  InMessage(script[message])'
    <3>1. InMessage(script[message])
      BY <2>3, Zenon DEF SentInv
    <3> QED BY <1>2, <2>1, <3>1, Zenon DEF InMessage, InTarget, InName, InValue, InHeadersEnd,
                                           InBody, InEnd, Between, Done
  <2> QED BY <1>2, <2>2, <2>3, Zenon DEF SentInv, More
<1>3. ASSUME NEW kind \in {"url", "name", "value", "headers", "body"}, Reports(kind), Advance,
             UNCHANGED <<rc, delivered>>,
             \A m : m = script[message] /\ InMessage(m) => InMessage(m)'
      PROVE  SentInv'
  <2>1. PICK m : m = script[message]
    OBVIOUS
  <2>2. More /\ rc = "ok"
    BY <1>3, Zenon DEF Reports, Kind
  <2>3. UNCHANGED <<script, message>>
    BY <1>3, PieceAdds
  <2>4. InMessage(m)'
    BY <1>3, <2>1, <2>2, Zenon DEF SentInv
  <2> QED BY <1>3, <2>1, <2>3, <2>4, Zenon DEF SentInv, AsSent
<1>4. ASSUME Refuse PROVE SentInv'
  <2>1. rc' # "ok"
    BY <1>4, Zenon DEF Refuse
  <2> QED BY <1>1, <1>4, <2>1, Zenon DEF Refuse, input
<1>5. CASE OnUrl
  <2>1. CASE Refuse
    BY <1>4, <2>1
  <2>2. CASE ~Refuse
    <3>1. Reports("url") /\ Charge /\ target' = target \o Piece
          /\ UNCHANGED <<field, value, body, headers, readingValue>>
      BY <1>5, <2>2, Zenon DEF OnUrl
    <3>2. Advance /\ UNCHANGED <<rc, delivered>>
      BY <3>1, Zenon DEF Charge
    <3>3. \A m : m = script[message] /\ InMessage(m) => InMessage(m)'
      BY <3>1, TargetGoesOn, Zenon
    <3> QED BY <1>3, <3>1, <3>2, <3>3, Zenon
  <2> QED BY <2>1, <2>2
<1>6. CASE OnHeaderField
  <2>1. CASE Refuse
    BY <1>4, <2>1
  <2>2. CASE ~Refuse
    <3>1. /\ Reports("name") /\ Charge
          /\ IF readingValue THEN headers' = Committed /\ field' = Piece /\ value' = <<>>
                             ELSE field' = field \o Piece /\ UNCHANGED <<headers, value>>
          /\ readingValue' = FALSE /\ UNCHANGED <<target, body>>
      BY <1>6, <2>2, Zenon DEF OnHeaderField
    <3>2. Advance /\ UNCHANGED <<rc, delivered>>
      BY <3>1, Zenon DEF Charge
    <3>3. \A m : m = script[message] /\ InMessage(m) => InMessage(m)'
      BY <3>1, NameGoesOn, Zenon
    <3> QED BY <1>3, <3>1, <3>2, <3>3, Zenon
  <2> QED BY <2>1, <2>2
<1>7. CASE OnHeaderValue
  <2>1. CASE Refuse
    BY <1>4, <2>1
  <2>2. CASE ~Refuse
    <3>1. /\ Reports("value") /\ Charge /\ value' = value \o Piece /\ readingValue' = TRUE
          /\ UNCHANGED <<target, field, body, headers>>
      BY <1>7, <2>2, Zenon DEF OnHeaderValue
    <3>2. Advance /\ UNCHANGED <<rc, delivered>>
      BY <3>1, Zenon DEF Charge
    <3>3. \A m : m = script[message] /\ InMessage(m) => InMessage(m)'
      BY <3>1, ValueGoesOn, Zenon
    <3> QED BY <1>3, <3>1, <3>2, <3>3, Zenon
  <2> QED BY <2>1, <2>2
<1>8. CASE OnHeadersComplete
  <2>1. /\ Reports("headers") /\ Advance /\ headers' = Committed /\ field' = <<>> /\ value' = <<>>
        /\ UNCHANGED <<target, body>> /\ UNCHANGED <<rc, delivered>>
    BY <1>8, Zenon DEF OnHeadersComplete
  <2>2. \A m : m = script[message] /\ InMessage(m) => InMessage(m)'
    BY <2>1, HeadersEndGoesOn, Zenon
  <2> QED BY <1>3, <2>1, <2>2, Zenon
<1>9. CASE OnBody
  <2>1. /\ Reports("body") /\ Advance /\ body' = body \o Piece
        /\ UNCHANGED <<target, field, value, headers>> /\ UNCHANGED <<rc, delivered>>
        /\ UNCHANGED readingValue
    BY <1>9, Zenon DEF OnBody
  <2>2. \A m : m = script[message] /\ InMessage(m) => InMessage(m)'
    BY <2>1, BodyGoesOn, Zenon
  <2> QED BY <1>3, <2>1, <2>2, Zenon
<1>10. CASE OnMessageComplete
  BY <1>10, SentOnComplete
<1>11. CASE Invalid
  <2>1. rc' # "ok"
    BY <1>11, Zenon DEF Invalid
  <2> QED BY <1>1, <1>11, <2>1, Zenon DEF Invalid, input
<1>12. ASSUME NEW n \in 1..MaxRead, Execute(n)
       PROVE  SentInv'
  BY <1>2, <1>12, Zenon DEF Execute
<1>13. CASE ExecuteReturns
  BY <1>2, <1>13, Zenon DEF ExecuteReturns
<1>14. CASE UNCHANGED vars
  BY <1>2, <1>14, Zenon DEF vars, input
<1> QED BY <1>5, <1>6, <1>7, <1>8, <1>9, <1>10, <1>11, <1>12, <1>13, <1>14, Zenon DEF Next, Callback

-----------------------------------------------------------------------------
(* The beginning of a message.                                             *)

LEMMA FreshStep ==
  ASSUME Placed, FreshInv, [Next]_vars
  PROVE  FreshInv'
<1>1. ASSUME UNCHANGED <<script, message, at, off, rc, request>>
      PROVE  FreshInv'
  BY <1>1, Zenon DEF FreshInv, More
<1>2. CASE Callback
  <2>1. CASE rc' # "ok"
    BY <2>1, Zenon DEF FreshInv
  <2>2. CASE rc' = "ok"
    <3>1. PICK kind \in {"url", "name", "value", "headers", "body", "done"} :
            Reports(kind) /\ Advance
      BY <1>2, <2>2, CallbackMoves, Zenon
    <3>2. CASE kind # "done"
      BY <3>1, <3>2, AdvancePlaces, Zenon DEF FreshInv
    <3>3. CASE kind = "done"
      <4>1. OnMessageComplete
        BY <1>2, <3>1, <3>3 DEF Callback, OnUrl, OnHeaderField, OnHeaderValue,
                                OnHeadersComplete, OnBody, Invalid, Reports
      <4>2. ResetRequest
        BY <2>2, <4>1, Zenon DEF OnMessageComplete
      <4> QED BY <4>2, Zenon DEF FreshInv, ResetRequest, request
    <3> QED BY <3>2, <3>3
  <2> QED BY <2>1, <2>2
<1>3. ASSUME NEW n \in 1..MaxRead, Execute(n)
      PROVE  FreshInv'
  BY <1>1, <1>3, Zenon DEF Execute
<1>4. CASE ExecuteReturns
  BY <1>1, <1>4, Zenon DEF ExecuteReturns
<1>5. CASE UNCHANGED vars
  BY <1>1, <1>5, Zenon DEF vars, input
<1> QED BY <1>2, <1>3, <1>4, <1>5, Zenon DEF Next

-----------------------------------------------------------------------------
(* The theorems.                                                           *)

LEMMA Parts ==
  TypeOK /\ CountInv <=> Placed /\ Kept /\ Ended /\ CountInv
<1>1. ASSUME Placed, CountInv
      PROVE  Len(delivered) <= Len(script)
  <2>1. Len(script) \in Nat /\ message \in Nat /\ message <= Len(script) + 1
    BY <1>1, ScriptLength DEF Placed
  <2>2. CASE rc = "ok"
    BY <1>1, <2>1, <2>2 DEF CountInv
  <2>3. CASE rc # "ok"
    BY <1>1, <2>1, <2>3 DEF CountInv, More
  <2> QED BY <2>2, <2>3
<1> QED BY <1>1 DEF TypeOK, Placed, Kept, Ended, Typed

LEMMA ParserStart ==
  ASSUME Init
  PROVE  ParserInv
<1>1. script \in Seq(Messages)
  BY ParserAssumption DEF Init
<1>2. Placed
  <2>1. ASSUME More
        PROVE  at \in DOMAIN Elements(script[message]) /\ off \in 0..Len(Current.text)
    <3>1. 1 \in 1..Len(script) /\ message = 1 /\ at = 1 /\ off = 0 /\ script \in Scripts
      BY <1>1, <2>1 DEF Init, More
    <3>2. 1 \in DOMAIN Elements(script[1])
      BY <3>1, FirstOfMessage
    <3>3. Elements(script[1])[1].text \in Text
      BY <3>1, <3>2, ElementOfScript, Zenon
    <3>4. Current = Elements(script[1])[1]
      BY <3>1 DEF Current
    <3>5. 0 \in 0..Len(Current.text)
      BY <3>3, <3>4 DEF Text
    <3> QED BY <3>1, <3>2, <3>5, Zenon
  <2>2. message \in 1..Len(script) + 1 /\ left \in 0..MaxRead /\ script \in Scripts
    BY <1>1, ParserAssumption DEF Init
  <2> QED BY <2>1, <2>2, Zenon DEF Placed
<1>3. Kept
  <2>1. 0 \in Nat
    OBVIOUS
  <2> QED BY <2>1, EmptyText, NoHeaders, Zenon DEF Init, Kept
<1>4. Ended
  BY DEF Init, Ended
<1>5. CountInv
  BY EmptySeq DEF Init, CountInv
<1>6. ReasonInv
  <2>1. headerBytes <= maxHeaderBytes /\ rc = "ok"
    BY ParserAssumption DEF Init
  <2>2. headerLimitHit = FALSE /\ rc # "user"
    BY DEF Init
  <2> QED BY <2>1, <2>2, Zenon DEF ReasonInv
<1>7. FreshInv
  BY Zenon DEF Init, FreshInv, request
<1> QED BY <1>2, <1>3, <1>4, <1>5, <1>6, <1>7, Parts DEF ParserInv

LEMMA ParserStep ==
  ASSUME ParserInv, [Next]_vars
  PROVE  ParserInv'
<1>1. Placed /\ Kept /\ Ended /\ ReasonInv /\ CountInv /\ FreshInv
  BY Parts DEF ParserInv
<1>2. Placed'
  BY <1>1, PlacedStep
<1>3. Kept'
  BY <1>1, KeptStep
<1>4. Ended'
  BY <1>1, EndedStep
<1>5. ReasonInv'
  BY <1>1, ReasonStep
<1>6. CountInv'
  BY <1>1, CountStep
<1>7. FreshInv'
  BY <1>1, FreshStep
<1> QED BY <1>2, <1>3, <1>4, <1>5, <1>6, <1>7, Parts, PTL DEF ParserInv

(* The invariant holds in every state.                                     *)
THEOREM ParserInvariant == Spec => []ParserInv
BY ParserStart, ParserStep, PTL DEF Spec

(* What the parser keeps has its type however the bytes are cut, llhttp is *)
(* never past the end of a text, and no message is delivered twice.        *)
THEOREM TypeCorrect == Spec => []TypeOK
<1>1. ParserInv => TypeOK
  BY DEF ParserInv
<1> QED BY <1>1, ParserInvariant, PTL

(* A read that failed is answered 431 exactly when the message exceeded    *)
(* the header budget, for any budget and any cut of the bytes.             *)
THEOREM StatusRight == Spec => []StatusNamesReason
<1>1. ParserInv => StatusNamesReason
  <2>1. ASSUME ReasonInv, Ended
        PROVE  StatusNamesReason
    <3>1. SUFFICES ASSUME rc # "ok", ~executing
                   PROVE  (errorStatus = 431) = (rc = "user" /\ headerBytes > maxHeaderBytes)
      BY DEF StatusNamesReason
    <3>2. /\ headerLimitHit = (rc = "user" /\ headerBytes > maxHeaderBytes)
          /\ errorStatus = IF headerLimitHit THEN 431 ELSE 400
      BY <2>1, <3>1, Zenon DEF ReasonInv
    <3>3. CASE headerLimitHit
      BY <3>2, <3>3
    <3>4. CASE ~headerLimitHit
      <4>1. errorStatus # 431
        BY <3>2, <3>4
      <4>2. ~(rc = "user" /\ headerBytes > maxHeaderBytes)
        BY <3>2, <3>4, Zenon
      <4> QED BY <4>1, <4>2, Zenon
    <3> QED BY <3>3, <3>4
  <2> QED BY <2>1, Parts DEF ParserInv
<1> QED BY <1>1, ParserInvariant, PTL

(* When llhttp begins a message, the fields of the parser and its budget   *)
(* are those of a new parser: onMessageComplete() left nothing.            *)
THEOREM NothingLeft == Spec => []NothingCarriesOver
<1>1. ASSUME ParserInv, Kind = "url", off = 0, rc = "ok"
      PROVE  request = <<<<>>, <<>>, <<>>, <<>>, <<>>, FALSE, 0>>
  <2>1. Placed /\ FreshInv
    BY <1>1, Parts DEF ParserInv
  <2>2. More
    BY <1>1, Zenon DEF Kind
  <2>3. at = 1
    BY <1>1, <2>1, <2>2, Position
  <2> QED BY <1>1, <2>1, <2>2, <2>3, Zenon DEF FreshInv
<1>2. ParserInv => NothingCarriesOver
  BY <1>1, Zenon DEF NothingCarriesOver
<1> QED BY <1>2, ParserInvariant, PTL

(* The budget is one message's, to the byte, for any budget and any cut: a *)
(* message within it is never refused for its size, a larger one always.   *)
THEOREM BudgetRight == Spec => []BudgetPerMessage
<1>1. Init => BudgetInv
  BY BudgetStart
<1>2. ParserInv /\ BudgetInv /\ [Next]_vars => BudgetInv'
  BY Parts, BudgetStep DEF ParserInv
<1>3. BudgetInv => BudgetPerMessage
  BY DEF BudgetInv
<1> QED BY <1>1, <1>2, <1>3, ParserInvariant, PTL DEF Spec

LEMMA SentInvariant == Spec => []SentInv
<1>1. Init => SentInv
  BY SentStart
<1>2. ParserInv /\ SentInv /\ [Next]_vars => SentInv'
  BY Parts, SentStep DEF ParserInv
<1> QED BY <1>1, <1>2, ParserInvariant, PTL DEF Spec

(* Pipelined, chunked or split into any pieces: the handler gets the       *)
(* headers and the body that each message means, one request for each and  *)
(* in order, for any messages, any size of a read and any budget.          *)
THEOREM RequestsRight == Spec => []RequestsAsSent
<1>1. SentInv => RequestsAsSent
  BY Zenon DEF SentInv, AsSent, RequestsAsSent
<1> QED BY <1>1, SentInvariant, PTL

(* The path and the query of a request are those of the whole target of    *)
(* its message, although onUrl() got that in any number of pieces.         *)
THEOREM TargetWhole ==
  Spec => [](\A i \in DOMAIN delivered : \A f \in {"path", "query"} :
               delivered[i][f] = ApplyTarget(script[i].target)[f])
<1>1. SentInv => \A i \in DOMAIN delivered : \A f \in {"path", "query"} :
                   delivered[i][f] = ApplyTarget(script[i].target)[f]
  BY Zenon DEF SentInv, AsSent
<1> QED BY <1>1, SentInvariant, PTL

-----------------------------------------------------------------------------
(* A text that a client encodes. url_decode() and urlEncode() are          *)
(* recursive functions; what they compute is found by induction on the     *)
(* bytes dealt with.                                                       *)

LEMMA SetInduction ==
  ASSUME NEW S, 0 \in S, \A k \in Nat : k \in S => k + 1 \in S
  PROVE  Nat \subseteq S
<1> DEFINE F == Nat \ S
<1> SUFFICES ASSUME F # {} PROVE FALSE
  OBVIOUS
<1>1. F \subseteq Nat
  OBVIOUS
<1> HIDE DEF F
<1>2. PICK k \in F : \A y \in F : ~(<<y, k>> \in OpToRel(<, Nat))
  BY <1>1, WFMin, NatLessThanWellFounded, Zenon
<1>3. k \in Nat /\ k \notin S
  BY DEF F
<1>4. k # 0
  BY <1>3
<1>5. k - 1 \in Nat /\ k - 1 < k /\ (k - 1) + 1 = k
  BY <1>3, <1>4
<1>6. k - 1 \notin S
  BY <1>3, <1>5
<1>7. k - 1 \in F
  BY <1>5, <1>6 DEF F
<1>8. <<k - 1, k>> \in OpToRel(<, Nat)
  BY <1>3, <1>5 DEF OpToRel
<1> QED BY <1>2, <1>7, <1>8

(* A byte is the sum of its bits.                                          *)
LEMMA BitsDiffer ==
  ASSUME NEW c \in 0..255, NEW d \in 0..255, Bits(c) = Bits(d)
  PROVE  c = d
<1> DEFINE W == {1, 2, 4, 8, 16, 32, 64, 128}
           bit(n, w) == (n \div w) % 2
<1>1. ASSUME NEW w \in W PROVE bit(c, w) = bit(d, w)
  <2>1. \A n : Bits(n) = {v \in W : bit(n, v) = 1}
    BY Zenon DEF Bits
  <2>2. bit(c, w) \in {0, 1} /\ bit(d, w) \in {0, 1}
    OBVIOUS
  <2> HIDE DEF W, bit
  <2>3. bit(c, w) = 1 <=> bit(d, w) = 1
    <3>1. bit(c, w) = 1 <=> w \in Bits(c)
      BY ONLY <2>1, Zenon
    <3>2. bit(d, w) = 1 <=> w \in Bits(d)
      BY ONLY <2>1, Zenon
    <3> QED BY <3>1, <3>2, Zenon
  <2> QED BY ONLY <2>2, <2>3
<1>2. \A n \in 0..255 :
        n = bit(n, 1) + 2 * bit(n, 2) + 4 * bit(n, 4) + 8 * bit(n, 8) + 16 * bit(n, 16)
            + 32 * bit(n, 32) + 64 * bit(n, 64) + 128 * bit(n, 128)
  OBVIOUS
<1> HIDE DEF bit
<1>3. /\ bit(c, 1) = bit(d, 1) /\ bit(c, 2) = bit(d, 2) /\ bit(c, 4) = bit(d, 4)
      /\ bit(c, 8) = bit(d, 8) /\ bit(c, 16) = bit(d, 16) /\ bit(c, 32) = bit(d, 32)
      /\ bit(c, 64) = bit(d, 64) /\ bit(c, 128) = bit(d, 128)
  BY ONLY <1>1
<1> QED BY ONLY <1>2, <1>3, c \in 0..255, d \in 0..255

(* | of two hexadecimal digits joins them.                                 *)
LEMMA DigitsJoin ==
  ASSUME NEW x \in 0..15, NEW y \in 0..15
  PROVE  Bits(16 * x + y) = Bits(16 * x) \cup Bits(y)
<1> DEFINE Bit(n, w) == (n \div w) % 2 = 1
           W == {1, 2, 4, 8, 16, 32, 64, 128}
<1>1. /\ Bit(16 * x + y, 1) = (Bit(16 * x, 1) \/ Bit(y, 1))
      /\ Bit(16 * x + y, 2) = (Bit(16 * x, 2) \/ Bit(y, 2))
      /\ Bit(16 * x + y, 4) = (Bit(16 * x, 4) \/ Bit(y, 4))
      /\ Bit(16 * x + y, 8) = (Bit(16 * x, 8) \/ Bit(y, 8))
  OBVIOUS
<1>2. /\ Bit(16 * x + y, 16) = (Bit(16 * x, 16) \/ Bit(y, 16))
      /\ Bit(16 * x + y, 32) = (Bit(16 * x, 32) \/ Bit(y, 32))
      /\ Bit(16 * x + y, 64) = (Bit(16 * x, 64) \/ Bit(y, 64))
      /\ Bit(16 * x + y, 128) = (Bit(16 * x, 128) \/ Bit(y, 128))
  OBVIOUS
<1>3. \A n : Bits(n) = {w \in W : Bit(n, w)}
  BY Zenon DEF Bits
<1> HIDE DEF Bit
<1>4. \A w \in W : Bit(16 * x + y, w) = (Bit(16 * x, w) \/ Bit(y, w))
  BY ONLY <1>1, <1>2
<1> HIDE DEF W
<1>5. ASSUME NEW w PROVE w \in Bits(16 * x + y) <=> w \in Bits(16 * x) \cup Bits(y)
  BY ONLY <1>3, <1>4, Zenon
<1> QED BY ONLY <1>5, Zenon

LEMMA DigitReads ==
  ASSUME NEW n \in 0..15
  PROVE  /\ HexDigit(n) \in 1..255 /\ FromHex(HexDigit(n)) = n
BY DEF HexDigit, FromHex, Digits, UpperCase

LEMMA PairIs ==
  ASSUME NEW hi, NEW lo, NEW c \in 0..255,
         Bits(c) = Bits((FromHex(hi) * 16) % 256) \cup Bits(FromHex(lo))
  PROVE  HexPair(hi, lo) = c
<1>1. PICK U : U = Bits((FromHex(hi) * 16) % 256) \cup Bits(FromHex(lo))
  OBVIOUS
<1>2. HexPair(hi, lo) = CHOOSE d \in 0..255 : Bits(d) = U
  BY ONLY <1>1 DEF HexPair
<1>3. Bits(c) = U
  BY <1>1, Zenon
<1>4. \A d \in 0..255 : Bits(d) = U => d = c
  BY <1>3, BitsDiffer, Zenon
<1>5. (CHOOSE d \in 0..255 : Bits(d) = U) = c
  BY ONLY <1>3, <1>4, Zenon
<1> QED BY ONLY <1>2, <1>5, Zenon

LEMMA PairReads ==
  ASSUME NEW c \in 0..255
  PROVE  HexPair(HexDigit(c \div 16), HexDigit(c % 16)) = c
<1>1. PICK x, y : x = c \div 16 /\ y = c % 16
  OBVIOUS
<1>2. x \in 0..15 /\ y \in 0..15 /\ c = 16 * x + y /\ (x * 16) % 256 = 16 * x
  BY <1>1
<1>3. Bits(c) = Bits(16 * x) \cup Bits(y)
  BY <1>2, DigitsJoin, Zenon
<1>4. PICK a, b : a = HexDigit(x) /\ b = HexDigit(y)
  OBVIOUS
<1>5. FromHex(a) = x /\ FromHex(b) = y
  BY <1>2, <1>4, DigitReads, Zenon
<1>6. Bits(c) = Bits((FromHex(a) * 16) % 256) \cup Bits(FromHex(b))
  <2>1. (FromHex(a) * 16) % 256 = 16 * x
    BY <1>2, <1>5
  <2> QED BY ONLY <1>3, <1>5, <2>1, Zenon
<1>7. HexPair(a, b) = c
  BY ONLY <1>6, PairIs, Zenon
<1> QED BY <1>1, <1>4, <1>7, Zenon

(* Encoded, the first k bytes of a text.                                   *)
Encoded(t, f) ==
  f = [k \in 1..Len(t) |-> IF k = 1 THEN EncodeByte(t[1]) ELSE f[k - 1] \o EncodeByte(t[k])]

LEMMA EncodedExists ==
  ASSUME NEW t \in Text
  PROVE  \E f : Encoded(t, f)
<1>1. PICK n : n = Len(t) /\ n \in Nat
  BY DEF Text
<1> DEFINE At(f, k) == IF k = 1 THEN EncodeByte(t[1]) ELSE f[k - 1] \o EncodeByte(t[k])
           Upto(f, j) == f = [k \in 1..n |-> f[k]] /\ \A k \in 1..n : k <= j => f[k] = At(f, k)
           S == {j \in Nat : \E f : Upto(f, j)}
<1>2. 0 \in S
  <2>1. PICK f : f = [k \in 1..n |-> 0]
    OBVIOUS
  <2>2. f = [k \in 1..n |-> f[k]] /\ \A k \in 1..n : ~(k <= 0)
    BY <2>1
  <2>3. Upto(f, 0)
    BY <2>2, Zenon
  <2> HIDE DEF Upto
  <2> QED BY <2>3
<1>3. ASSUME NEW j \in Nat, j \in S PROVE j + 1 \in S
  <2>1. PICK f : Upto(f, j)
    BY <1>3
  <2>2. PICK g : g = [k \in 1..n |-> IF k <= j THEN f[k] ELSE At(f, k)]
    OBVIOUS
  <2>3. ASSUME NEW k \in 1..n, k <= j + 1 PROVE g[k] = At(g, k)
    <3>1. g[k] = At(f, k)
      BY <1>1, <2>1, <2>2, <2>3
    <3>2. k # 1 => g[k - 1] = f[k - 1]
      BY <1>1, <2>2, <2>3
    <3> QED BY <3>1, <3>2
  <2>4. g = [k \in 1..n |-> g[k]]
    BY <2>2
  <2>5. Upto(g, j + 1)
    BY <2>3, <2>4, Zenon
  <2> HIDE DEF Upto
  <2> QED BY <2>5
<1>4. n \in S
  <2> HIDE DEF S
  <2> QED BY <1>1, <1>2, <1>3, SetInduction
<1>5. PICK f : Upto(f, n)
  BY <1>4
<1>6. \A k \in 1..n : f[k] = At(f, k)
  <2>1. \A k \in 1..n : k <= n
    BY <1>1
  <2> QED BY <1>5, <2>1, Zenon
<1>7. f = [k \in 1..n |-> At(f, k)]
  BY <1>5, <1>6
<1> QED BY <1>1, <1>7, Zenon DEF Encoded

(* What the bytes of a text from the i-th on decode to.                    *)
DecodedFrom(text, f, i) ==
  IF i > Len(text) THEN <<>>
  ELSE IF text[i] = Percent THEN
         IF HasPair(text, i) THEN <<HexPair(text[i + 1], text[i + 2])>> \o f[i + 3]
                             ELSE f[i + 1]
  ELSE <<IF text[i] = Plus THEN Space ELSE text[i]>> \o f[i + 1]

Decodes(text, f) == f = [i \in 1..Len(text) + 3 |-> DecodedFrom(text, f, i)]

LEMMA DecodedExists ==
  ASSUME NEW text \in Text
  PROVE  \E f : Decodes(text, f)
<1>1. PICK n : n = Len(text) /\ n \in Nat
  BY DEF Text
<1> DEFINE D == 1..n + 3
           Down(f, j) == f = [i \in D |-> f[i]] /\ \A i \in D : i + j > n => f[i] = DecodedFrom(text, f, i)
           S == {j \in Nat : \E f : Down(f, j)}
<1>2. 0 \in S
  <2>1. PICK f : f = [i \in D |-> <<>>]
    OBVIOUS
  <2>2. \A i \in D : i + 0 > n => f[i] = DecodedFrom(text, f, i)
    BY <1>1, <2>1 DEF DecodedFrom
  <2>3. Down(f, 0)
    BY <2>1, <2>2
  <2> HIDE DEF Down
  <2> QED BY <2>3
<1>3. ASSUME NEW j \in Nat, j \in S PROVE j + 1 \in S
  <2>1. PICK f : Down(f, j)
    BY <1>3
  <2>2. PICK g : g = [i \in D |-> IF i + j > n THEN f[i] ELSE DecodedFrom(text, f, i)]
    OBVIOUS
  <2>3. ASSUME NEW i \in D, i + (j + 1) > n PROVE g[i] = DecodedFrom(text, g, i)
    <3>1. g[i] = DecodedFrom(text, f, i)
      BY <2>1, <2>2
    <3>2. i > n \/ (g[i + 1] = f[i + 1] /\ g[i + 3] = f[i + 3])
      BY <1>1, <2>2, <2>3
    <3>3. DecodedFrom(text, f, i) = DecodedFrom(text, g, i)
      BY <1>1, <3>2, Zenon DEF DecodedFrom
    <3> QED BY <3>1, <3>3
  <2>4. g = [i \in D |-> g[i]]
    BY <2>2
  <2>5. Down(g, j + 1)
    BY <2>3, <2>4, Zenon
  <2> HIDE DEF Down
  <2> QED BY <2>5
<1>4. n \in S
  <2> HIDE DEF S
  <2> QED BY <1>1, <1>2, <1>3, SetInduction
<1>5. PICK f : Down(f, n)
  BY <1>4
<1>6. \A i \in D : f[i] = DecodedFrom(text, f, i)
  BY <1>1, <1>5
<1>7. f = [i \in D |-> DecodedFrom(text, f, i)]
  BY <1>5, <1>6
<1> QED BY <1>1, <1>7, Zenon DEF Decodes

LEMMA UrlDecodeIs ==
  ASSUME NEW text \in Text
  PROVE  \E f : Decodes(text, f) /\ UrlDecode(text) = f[1]
BY DecodedExists DEF UrlDecode, Decodes, DecodedFrom

LEMMA UrlEncodeIs ==
  ASSUME NEW t \in Text
  PROVE  \E f : /\ Encoded(t, f)
                /\ UrlEncode(t) = IF Len(t) = 0 THEN <<>> ELSE f[Len(t)]
<1>1. PICK seqs : seqs = [i \in DOMAIN t |-> EncodeByte(t[i])]
  OBVIOUS
<1>2. PICK n : n = Len(t) /\ n \in Nat /\ DOMAIN t = 1..n
  BY DEF Text
<1>3. Len(seqs) = n
  BY <1>1, <1>2
<1>4. CASE n = 0
  <2>1. seqs = <<>>
    BY <1>1, <1>2, <1>4
  <2>2. UrlEncode(t) = <<>>
    BY <1>1, <1>3, <1>4, <2>1 DEF UrlEncode, FlattenSeq
  <2> QED BY <1>2, <1>4, <2>2, EncodedExists
<1>5. CASE n # 0
  <2> DEFINE flatten == CHOOSE f : f = [i \in 1..Len(seqs) |-> IF i = 1 THEN seqs[i] ELSE f[i - 1] \o seqs[i]]
  <2>1. UrlEncode(t) = flatten[Len(seqs)]
    BY <1>1, <1>3, <1>5, Zenon DEF UrlEncode, FlattenSeq
  <2>2. \A f : Encoded(t, f) <=> f = [i \in 1..Len(seqs) |-> IF i = 1 THEN seqs[i] ELSE f[i - 1] \o seqs[i]]
    <3>1. \A i \in 1..n : seqs[i] = EncodeByte(t[i])
      BY <1>1, <1>2
    <3>2. n \in Nat /\ Len(t) = n
      BY <1>2, Zenon
    <3> DEFINE Flat(f) == [i \in 1..Len(seqs) |-> IF i = 1 THEN seqs[i] ELSE f[i - 1] \o seqs[i]]
               Code(f) == [i \in 1..n |-> IF i = 1 THEN EncodeByte(t[1])
                                                   ELSE f[i - 1] \o EncodeByte(t[i])]
    <3>3. \A f : Flat(f) = Code(f)
      <4>1. \A f : Flat(f) = [i \in 1..n |-> IF i = 1 THEN seqs[i] ELSE f[i - 1] \o seqs[i]]
        BY ONLY <1>3, Zenon
      <4>2. \A f : [i \in 1..n |-> IF i = 1 THEN seqs[i] ELSE f[i - 1] \o seqs[i]] = Code(f)
        BY ONLY <3>1, Zenon
      <4> HIDE DEF Flat, Code
      <4> QED BY ONLY <4>1, <4>2, Zenon
    <3>4. \A f : Encoded(t, f) <=> f = Code(f)
      BY ONLY <3>2, Zenon DEF Encoded
    <3> HIDE DEF Flat, Code
    <3>5. \A f : Encoded(t, f) <=> f = Flat(f)
      BY ONLY <3>3, <3>4, Zenon
    <3> QED BY <3>5, Zenon DEF Flat
  <2>3. Encoded(t, flatten)
    BY <2>2, EncodedExists, Zenon
  <2> QED BY <1>2, <1>3, <1>5, <2>1, <2>3
<1> QED BY <1>4, <1>5

LEMMA EncodeByteIs ==
  ASSUME NEW c \in 0..255
  PROVE  /\ EncodeByte(c) \in Text
         /\ \/ EncodeByte(c) = <<c>> /\ c # Percent /\ c # Plus
            \/ EncodeByte(c) = <<Percent, HexDigit(c \div 16), HexDigit(c % 16)>>
<1>1. HexDigit(c \div 16) \in 0..255 /\ HexDigit(c % 16) \in 0..255
  <2>1. c \div 16 \in 0..15 /\ c % 16 \in 0..15
    OBVIOUS
  <2> QED BY <2>1, DigitReads
<1>2. c \in Unreserved => c # Percent /\ c # Plus
  BY DEF Unreserved, Digits, UpperCase, LowerCase, Percent, Plus
<1>3. CASE c \in Unreserved
  <2>1. EncodeByte(c) = <<c>>
    BY <1>3, Zenon DEF EncodeByte
  <2>2. <<c>> \in Seq(0..255)
    OBVIOUS
  <2> QED BY <1>2, <1>3, <2>1, <2>2, Zenon DEF Text
<1>4. CASE c \notin Unreserved
  <2>1. EncodeByte(c) = <<Percent, HexDigit(c \div 16), HexDigit(c % 16)>>
    BY <1>4, Zenon DEF EncodeByte
  <2>2. Percent \in 0..255
    BY DEF Percent
  <2>3. \A a, b, d \in 0..255 : <<a, b, d>> \in Seq(0..255)
    OBVIOUS
  <2>4. PICK a, b : a = HexDigit(c \div 16) /\ b = HexDigit(c % 16)
    OBVIOUS
  <2>5. <<Percent, a, b>> \in Seq(0..255)
    BY ONLY <1>1, <2>2, <2>3, <2>4
  <2>6. EncodeByte(c) \in Text
    BY <2>1, <2>4, <2>5, Zenon DEF Text
  <2> QED BY <2>1, <2>6, Zenon
<1> QED BY <1>3, <1>4

(* Each byte of a text has its place in the encoded text.                  *)
LEMMA EncodedPlaces ==
  ASSUME NEW t \in Text
  PROVE  /\ UrlEncode(t) \in Text
         /\ \E s \in [0..Len(t) -> Nat] :
              /\ s[0] = 0 /\ s[Len(t)] = Len(UrlEncode(t))
              /\ \A k \in 1..Len(t) :
                   /\ s[k] = s[k - 1] + Len(EncodeByte(t[k]))
                   /\ s[k] <= Len(UrlEncode(t))
                   /\ \A j \in 1..Len(EncodeByte(t[k])) :
                        UrlEncode(t)[s[k - 1] + j] = EncodeByte(t[k])[j]
<1>1. PICK n : n = Len(t) /\ n \in Nat
  BY DEF Text
<1>2. PICK f : Encoded(t, f) /\ UrlEncode(t) = IF n = 0 THEN <<>> ELSE f[n]
  BY <1>1, UrlEncodeIs
<1>3. \A k \in 1..n : t[k] \in 0..255 /\ EncodeByte(t[k]) \in Text
  <2>1. \A k \in 1..n : t[k] \in 0..255
    BY <1>1, ElementOfSeq DEF Text
  <2> QED BY <2>1, EncodeByteIs, Zenon
<1>4. \A k \in 1..n : f[k] = IF k = 1 THEN EncodeByte(t[1]) ELSE f[k - 1] \o EncodeByte(t[k])
  BY <1>1, <1>2 DEF Encoded
<1>5. \A k \in 1..n : f[k] \in Text
  <2> DEFINE S == {j \in Nat : j + 1 <= n => f[j + 1] \in Text}
  <2>1. 0 \in S
    BY <1>1, <1>3, <1>4
  <2>2. ASSUME NEW j \in Nat, j \in S PROVE j + 1 \in S
    <3>0. j + 1 \in Nat
      OBVIOUS
    <3> SUFFICES ASSUME j + 1 + 1 <= n PROVE f[j + 1 + 1] \in Text
      BY <3>0, Zenon
    <3>1. f[j + 1] \in Text
      BY <1>1, <2>2
    <3>2. j + 2 \in 1..n /\ j + 2 # 1 /\ (j + 2) - 1 = j + 1 /\ j + 1 + 1 = j + 2
      BY <1>1
    <3>3. f[j + 2] = f[j + 1] \o EncodeByte(t[j + 2]) /\ EncodeByte(t[j + 2]) \in Text
      BY <1>3, <1>4, <3>2, Zenon
    <3>4. f[j + 2] \in Text
      BY <3>1, <3>3 DEF Text
    <3> QED BY <3>2, <3>4, Zenon
  <2> HIDE DEF S
  <2>3. Nat \subseteq S
    BY <2>1, <2>2, SetInduction
  <2>4. ASSUME NEW k \in 1..n PROVE f[k] \in Text
    <3>1. k - 1 \in Nat /\ (k - 1) + 1 = k /\ k <= n
      BY <1>1
    <3>2. k - 1 \in S
      BY <2>3, <3>1
    <3> QED BY <3>1, <3>2 DEF S
  <2> QED BY <2>4
<1>6. PICK u : u = UrlEncode(t)
  OBVIOUS
<1>7. u \in Text /\ Len(u) \in Nat
  <2>1. u \in Text
    BY <1>1, <1>2, <1>5, <1>6 DEF Text
  <2> QED BY <2>1 DEF Text
<1>8. PICK s : s = [k \in 0..n |-> IF k = 0 THEN 0 ELSE Len(f[k])]
  OBVIOUS
<1>9. s \in [0..n -> Nat] /\ s[0] = 0 /\ s[n] = Len(u)
  <2>1. \A k \in 1..n : Len(f[k]) \in Nat
    BY <1>5 DEF Text
  <2> QED BY <1>1, <1>2, <1>6, <1>8, <2>1
<1>13. ASSUME NEW k \in 1..n
       PROVE  s[k] \in Nat /\ s[k - 1] \in Nat /\ Len(EncodeByte(t[k])) \in Nat
  <2>1. k \in 0..n /\ k - 1 \in 0..n
    BY <1>1
  <2>2. EncodeByte(t[k]) \in Seq(0..255)
    BY <1>3, Zenon DEF Text
  <2> QED BY ONLY <1>9, <2>1, <2>2, LenProperties
<1>10. ASSUME NEW k \in 1..n
       PROVE  /\ s[k] = s[k - 1] + Len(EncodeByte(t[k])) /\ s[k] = Len(f[k])
              /\ \A j \in 1..Len(EncodeByte(t[k])) : f[k][s[k - 1] + j] = EncodeByte(t[k])[j]
              /\ k # 1 => \A j \in 1..s[k - 1] : f[k][j] = f[k - 1][j]
  <2>1. s[k] = Len(f[k]) /\ s[k - 1] = IF k = 1 THEN 0 ELSE Len(f[k - 1])
    BY <1>1, <1>8
  <2>2. CASE k = 1
    BY <1>3, <1>4, <2>1, <2>2 DEF Text
  <2>3. CASE k # 1
    <3>1. PICK b, c : b = f[k - 1] /\ c = EncodeByte(t[k])
      OBVIOUS
    <3>2. b \in Text /\ c \in Text /\ f[k] = b \o c
      <4>1. k - 1 \in 1..n
        BY <1>1, <2>3
      <4> QED BY <1>3, <1>4, <1>5, <2>3, <3>1, <4>1, Zenon
    <3>3. /\ Len(b \o c) = Len(b) + Len(c)
          /\ \A j \in 1..Len(c) : (b \o c)[Len(b) + j] = c[j]
          /\ \A j \in 1..Len(b) : (b \o c)[j] = b[j]
      BY ONLY <3>2 DEF Text
    <3> QED BY <2>1, <2>3, <3>1, <3>2, <3>3, Zenon
  <2> QED BY <2>2, <2>3
<1>11. \A k \in 1..n : s[k] <= Len(u) /\ \A j \in 1..s[k] : u[j] = f[k][j]
  <2> DEFINE Starts(k) == s[k] <= Len(u) /\ \A j \in 1..s[k] : u[j] = f[k][j]
             S == {j \in Nat : j < n => Starts(n - j)}
  <2>1. 0 \in S
    BY <1>1, <1>2, <1>6, <1>7, <1>9
  <2>2. ASSUME NEW j \in Nat, j \in S PROVE j + 1 \in S
    <3>0. j + 1 \in Nat
      OBVIOUS
    <3> SUFFICES ASSUME j + 1 < n PROVE Starts(n - (j + 1))
      BY <3>0, Zenon
    <3>1. PICK k : k = n - j
      OBVIOUS
    <3>2. k \in 1..n /\ k # 1 /\ n - (j + 1) = k - 1 /\ k - 1 \in 1..n /\ j < n
      BY <1>1, <3>1
    <3>3. Starts(k)
      BY <2>2, <3>1, <3>2
    <3>4. s[k] \in Nat /\ s[k - 1] \in Nat /\ Len(EncodeByte(t[k])) \in Nat
      BY <1>13, <3>2, Zenon
    <3>5. s[k - 1] <= s[k] /\ s[k - 1] <= Len(u)
      BY <1>7, <1>10, <3>2, <3>3, <3>4
    <3>6. ASSUME NEW i \in 1..s[k - 1] PROVE u[i] = f[k - 1][i]
      <4>1. i \in 1..s[k]
        BY <3>4, <3>5
      <4> QED BY <1>10, <3>2, <3>3, <4>1, Zenon
    <3> QED BY <3>2, <3>5, <3>6, Zenon
  <2> HIDE DEF S
  <2>3. Nat \subseteq S
    BY <2>1, <2>2, SetInduction
  <2>4. ASSUME NEW k \in 1..n PROVE Starts(k)
    <3>1. n - k \in Nat /\ n - (n - k) = k /\ n - k < n
      BY <1>1
    <3>2. n - k \in S
      BY <2>3, <3>1
    <3> HIDE DEF Starts
    <3> QED BY <3>1, <3>2 DEF S
  <2> QED BY <2>4, Zenon
<1>12. ASSUME NEW k \in 1..n
       PROVE  \A j \in 1..Len(EncodeByte(t[k])) : u[s[k - 1] + j] = EncodeByte(t[k])[j]
  <2>1. s[k] \in Nat /\ s[k - 1] \in Nat /\ Len(EncodeByte(t[k])) \in Nat
    BY <1>13, Zenon
  <2>2. ASSUME NEW j \in 1..Len(EncodeByte(t[k])) PROVE s[k - 1] + j \in 1..s[k]
    BY <1>10, <2>1
  <2>3. ASSUME NEW j \in 1..Len(EncodeByte(t[k])) PROVE u[s[k - 1] + j] = EncodeByte(t[k])[j]
    <3>1. f[k][s[k - 1] + j] = EncodeByte(t[k])[j]
      BY ONLY <1>10, Zenon
    <3>2. u[s[k - 1] + j] = f[k][s[k - 1] + j]
      BY ONLY <1>11, <2>2, Zenon
    <3> QED BY ONLY <3>1, <3>2, Zenon
  <2> QED BY ONLY <2>3, Zenon
<1> QED BY <1>1, <1>6, <1>7, <1>9, <1>10, <1>11, <1>12, Zenon

(* The code of byte c stands at place p.                                   *)
HasCode(text, p, c) ==
  /\ p \in Nat \ {0} /\ p + Len(EncodeByte(c)) <= Len(text) + 1
  /\ \A j \in 1..Len(EncodeByte(c)) : text[p - 1 + j] = EncodeByte(c)[j]

GivesByte(f, p, c) == f[p] = <<c>> \o f[p + Len(EncodeByte(c))]

(* Where a text has the code of a byte, it decodes to the byte.            *)
LEMMA DecodesByte ==
  ASSUME NEW text \in Text, NEW f, NEW p, NEW c \in 0..255, Decodes(text, f), HasCode(text, p, c)
  PROVE  GivesByte(f, p, c)
<1> SUFFICES ASSUME NEW code, code = EncodeByte(c), NEW l, l = Len(code),
                    p \in Nat \ {0}, p + l <= Len(text) + 1,
                    \A j \in 1..l : text[p - 1 + j] = code[j]
             PROVE  f[p] = <<c>> \o f[p + l]
  BY Zenon DEF HasCode, GivesByte
<1>1. PICK n : n = Len(text) /\ n \in Nat
  BY DEF Text
<1>2. CASE code = <<c>> /\ c # Percent /\ c # Plus
  <2>1. l = 1 /\ text[p] = c /\ ~(p > n) /\ p \in 1..n + 3
    <3>1. l = 1 /\ code[1] = c
      BY <1>2
    <3>2. p - 1 + 1 = p /\ p \in 1..n
      BY <1>1, <3>1
    <3>3. 1 \in 1..l
      BY <3>1
    <3> QED BY <1>1, <3>1, <3>2, <3>3
  <2>2. f[p] = DecodedFrom(text, f, p)
    BY <1>1, <2>1, Zenon DEF Decodes
  <2> QED BY <1>1, <1>2, <2>1, <2>2, Zenon DEF DecodedFrom
<1>3. CASE code = <<Percent, HexDigit(c \div 16), HexDigit(c % 16)>>
  <2>1. PICK a, b : a = HexDigit(c \div 16) /\ b = HexDigit(c % 16)
    OBVIOUS
  <2>2. a # 0 /\ b # 0 /\ HexPair(a, b) = c
    <3>1. c \div 16 \in 0..15 /\ c % 16 \in 0..15
      OBVIOUS
    <3>2. a \in 1..255 /\ b \in 1..255
      BY <2>1, <3>1, DigitReads, Zenon
    <3>3. HexPair(a, b) = c
      BY <2>1, PairReads, Zenon
    <3>4. \A e \in 1..255 : e # 0
      OBVIOUS
    <3> QED BY <3>2, <3>3, <3>4, Zenon
  <2>3. l = 3 /\ code[1] = Percent /\ code[2] = a /\ code[3] = b
    BY <1>3, <2>1
  <2>4. /\ text[p] = Percent /\ text[p + 1] = a /\ text[p + 2] = b
        /\ ~(p > n) /\ p + 1 <= n /\ p + 2 <= n /\ p \in 1..n + 3
    <3>1. p - 1 + 1 = p /\ p - 1 + 2 = p + 1 /\ p - 1 + 3 = p + 2
      OBVIOUS
    <3>2. 1 \in 1..l /\ 2 \in 1..l /\ 3 \in 1..l
      BY <2>3
    <3>3. text[p] = Percent /\ text[p + 1] = a /\ text[p + 2] = b
      BY <2>3, <3>1, <3>2, Zenon
    <3>4. ~(p > n) /\ p + 1 <= n /\ p + 2 <= n /\ p \in 1..n + 3
      BY <1>1, <2>3
    <3> QED BY <3>3, <3>4, Zenon
  <2>5. f[p] = DecodedFrom(text, f, p)
    BY <1>1, <2>4, Zenon DEF Decodes
  <2>6. HasPair(text, p)
    BY <1>1, <2>2, <2>4, Zenon DEF HasPair, ByteAt
  <2> QED BY <1>1, <2>2, <2>3, <2>4, <2>5, <2>6, Zenon DEF DecodedFrom
<1> QED BY <1>2, <1>3, EncodeByteIs, Zenon

(* urlEncode() then url_decode(), after a slash, gives the text back.      *)
LEMMA DecodesEncoded ==
  ASSUME NEW t \in Text
  PROVE  /\ <<Slash>> \o UrlEncode(t) \in Text
         /\ UrlDecode(<<Slash>> \o UrlEncode(t)) = <<Slash>> \o t
<1>1. PICK n, u, text : n = Len(t) /\ u = UrlEncode(t) /\ text = <<Slash>> \o u
  OBVIOUS
<1>2. n \in Nat
  BY <1>1 DEF Text
<1>3. PICK s \in [0..n -> Nat] :
        /\ s[0] = 0 /\ s[n] = Len(u)
        /\ \A k \in 1..n :
             /\ s[k] = s[k - 1] + Len(EncodeByte(t[k])) /\ s[k] <= Len(u)
             /\ \A j \in 1..Len(EncodeByte(t[k])) : u[s[k - 1] + j] = EncodeByte(t[k])[j]
  BY <1>1, EncodedPlaces, Zenon
<1>4. /\ text \in Text /\ Len(text) = Len(u) + 1 /\ Len(u) \in Nat /\ text[1] = Slash
      /\ \A i \in 1..Len(u) : text[i + 1] = u[i]
  <2>1. u \in Text
    BY <1>1, EncodedPlaces, Zenon
  <2>2. Slash \in 0..255
    BY DEF Slash
  <2> HIDE DEF Slash
  <2> QED BY ONLY <1>1, <2>1, <2>2 DEF Text
<1>5. PICK f : Decodes(text, f) /\ UrlDecode(text) = f[1]
  BY <1>4, UrlDecodeIs, Zenon
<1>6. ASSUME NEW k \in 1..n
      PROVE  f[s[k - 1] + 2] = <<t[k]>> \o f[s[k] + 2]
  <2>1. PICK c, code, l, p : c = t[k] /\ code = EncodeByte(c) /\ l = Len(code) /\ p = s[k - 1] + 2
    OBVIOUS
  <2>2. c \in 0..255
    BY <1>1, <2>1, ElementOfSeq DEF Text
  <2>3. code \in Seq(0..255)
    BY <2>1, <2>2, EncodeByteIs, Zenon DEF Text
  <2>4. l \in Nat /\ s[k] \in Nat /\ s[k - 1] \in Nat
    BY <1>2, <1>3, <2>1, <2>3
  <2>5. s[k] = s[k - 1] + l /\ s[k] <= Len(u) /\ \A j \in 1..l : u[s[k - 1] + j] = code[j]
    BY <1>3, <2>1, Zenon
  <2>6. p \in Nat \ {0} /\ p + l = s[k] + 2 /\ p + l <= Len(text) + 1
    BY <1>4, <2>1, <2>4, <2>5
  <2>7. ASSUME NEW j \in 1..l PROVE text[p - 1 + j] = code[j]
    <3>1. PICK i : i = s[k - 1] + j
      OBVIOUS
    <3>2. i \in 1..Len(u) /\ p - 1 + j = i + 1
      <4>1. PICK x, y, v : x = s[k - 1] /\ y = s[k] /\ v = Len(u)
        OBVIOUS
      <4>2. /\ x \in Nat /\ y = x + l /\ y <= v /\ l \in Nat /\ v \in Nat
            /\ p = x + 2 /\ i = x + j
        BY <1>4, <2>1, <2>4, <2>5, <3>1, <4>1, Zenon
      <4>3. i \in 1..v /\ p - 1 + j = i + 1
        BY ONLY <4>2
      <4> QED BY <4>1, <4>3, Zenon
    <3> QED BY <1>4, <2>5, <3>1, <3>2, Zenon
  <2>8. f[p] = <<c>> \o f[p + l]
    <3>1. HasCode(text, p, c)
      BY ONLY <2>1, <2>6, <2>7, Zenon DEF HasCode
    <3>2. GivesByte(f, p, c)
      <4>1. text \in Text /\ Decodes(text, f) /\ c \in 0..255
        BY <1>4, <1>5, <2>2, Zenon
      <4> QED BY ONLY <3>1, <4>1, DecodesByte, Zenon
    <3> QED BY <2>1, <3>2, Zenon DEF GivesByte
  <2> QED BY <2>1, <2>6, <2>8, Zenon
<1>7. f[s[n] + 2] = <<>>
  <2>1. s[n] + 2 \in 1..Len(text) + 3 /\ s[n] + 2 > Len(text)
    BY <1>3, <1>4
  <2> QED BY <1>5, <2>1, Zenon DEF Decodes, DecodedFrom
<1>8. f[2] = t
  <2> DEFINE Rest(k) == f[s[k] + 2] = SubSeq(t, k + 1, n)
             S == {j \in Nat : j <= n => Rest(n - j)}
  <2>1. 0 \in S
    <3>1. n - 0 = n
      BY <1>2
    <3>2. SubSeq(t, n + 1, n) = <<>>
      BY <1>2
    <3> QED BY <1>7, <3>1, <3>2
  <2>2. ASSUME NEW j \in Nat, j \in S PROVE j + 1 \in S
    <3>0. j + 1 \in Nat
      OBVIOUS
    <3> SUFFICES ASSUME j + 1 <= n PROVE Rest(n - (j + 1))
      BY <3>0, Zenon
    <3>1. PICK k : k = n - j
      OBVIOUS
    <3>2. k \in 1..n /\ n - (j + 1) = k - 1 /\ j <= n /\ (k - 1) + 1 = k
      BY <1>2, <3>1
    <3>3. Rest(k)
      BY <2>2, <3>1, <3>2, Zenon
    <3>4. SubSeq(t, k, n) = <<t[k]>> \o SubSeq(t, k + 1, n)
      BY <1>1, <1>2, <3>2 DEF Text
    <3>5. f[s[k - 1] + 2] = <<t[k]>> \o f[s[k] + 2]
      BY <1>6, <3>2, Zenon
    <3>6. f[s[k - 1] + 2] = SubSeq(t, (k - 1) + 1, n)
      BY <3>2, <3>3, <3>4, <3>5, Zenon
    <3> QED BY <3>2, <3>6, Zenon
  <2> HIDE DEF S
  <2>3. n \in S
    BY <1>2, <2>1, <2>2, SetInduction
  <2>4. f[s[0] + 2] = SubSeq(t, 0 + 1, n)
    <3>1. n - n = 0 /\ n <= n
      BY <1>2
    <3> HIDE DEF Rest
    <3>2. Rest(n - n)
      BY <2>3, <3>1 DEF S
    <3> QED BY <3>1, <3>2, Zenon DEF Rest
  <2>5. s[0] + 2 = 2 /\ SubSeq(t, 0 + 1, n) = t
    <3>1. SubSeq(t, 1, n) = t
      BY <1>1 DEF Text
    <3> QED BY <1>3, <3>1
  <2> QED BY <2>4, <2>5
<1>9. f[1] = <<Slash>> \o f[2]
  <2>1. ~(1 > Len(text)) /\ 1 \in 1..Len(text) + 3 /\ 1 + 1 = 2
    BY <1>4
  <2>2. Slash # Percent /\ Slash # Plus
    BY DEF Slash, Percent, Plus
  <2>3. f[1] = DecodedFrom(text, f, 1)
    BY <1>5, <2>1, Zenon DEF Decodes
  <2> QED BY <1>4, <2>1, <2>2, <2>3, Zenon DEF DecodedFrom
<1> QED BY <1>1, <1>4, <1>5, <1>8, <1>9, Zenon

(* A text without a question mark or a scheme is all path.                 *)
LEMMA EncodedIsPath ==
  ASSUME NEW t \in PlainTexts
  PROVE  ApplyTarget(<<Slash>> \o UrlEncode(t)).path = <<Slash>> \o t
<1>1. t \in Text /\ Question \notin Range(t) /\ SchemeEnds(t) = {}
  BY PlainAssumption, Zenon
<1>2. PICK d : d = <<Slash>> \o t
  OBVIOUS
<1>3. /\ d \in Seq(0..255) /\ Len(t) \in Nat /\ Len(d) = Len(t) + 1 /\ d[1] = Slash
      /\ \A i \in 2..Len(d) : d[i] = t[i - 1]
  <2>1. Slash \in 0..255
    BY DEF Slash
  <2> HIDE DEF Slash
  <2> QED BY ONLY <1>1, <1>2, <2>1 DEF Text
<1>4. SchemeEnds(d) = {}
  <2>1. ASSUME NEW j \in 1..Len(d) - 2, SubSeq(d, j, j + 2) = <<Colon, Slash, Slash>> PROVE FALSE
    <3>1. d[j] = Colon /\ d[j + 1] = Slash /\ d[j + 2] = Slash
      <4>1. SubSeq(d, j, j + 2) = [i \in 1..3 |-> d[j + i - 1]]
        <5>1. (j + 2) - j + 1 = 3
          OBVIOUS
        <5> QED BY ONLY <5>1 DEF SubSeq
      <4>2. d[j + 1 - 1] = Colon /\ d[j + 2 - 1] = Slash /\ d[j + 3 - 1] = Slash
        <5>1. \A i \in 1..3 : d[j + i - 1] = <<Colon, Slash, Slash>>[i]
          BY <2>1, <4>1, Zenon
        <5> QED BY ONLY <5>1
      <4>3. j + 1 - 1 = j /\ j + 2 - 1 = j + 1 /\ j + 3 - 1 = j + 2
        OBVIOUS
      <4> QED BY <4>2, <4>3, Zenon
    <3>2. j # 1
      BY <1>3, <3>1 DEF Colon, Slash
    <3>3. PICK i : i = j - 1
      OBVIOUS
    <3>4. i \in 1..Len(t) - 2 /\ t[i] = Colon /\ t[i + 1] = Slash /\ t[i + 2] = Slash
      BY <1>3, <3>1, <3>2, <3>3
    <3>5. SubSeq(t, i, i + 2) = <<Colon, Slash, Slash>>
      <4>1. t \in Seq(0..255) /\ Len(t) \in Nat
        BY <1>1, <1>3 DEF Text
      <4> HIDE DEF Colon, Slash
      <4>2. SubSeq(t, i, i + 2) = [k \in 1..3 |-> t[i + k - 1]]
        BY ONLY <3>4, <4>1 DEF SubSeq
      <4>3. \A k \in 1..3 : t[i + k - 1] = <<Colon, Slash, Slash>>[k]
        BY ONLY <3>4
      <4>4. <<Colon, Slash, Slash>> = [k \in 1..3 |-> <<Colon, Slash, Slash>>[k]]
        OBVIOUS
      <4> QED BY <4>2, <4>3, <4>4, Zenon
    <3> QED BY <1>1, <3>4, <3>5 DEF SchemeEnds
  <2> QED BY <2>1, Zenon DEF SchemeEnds
<1>5. Find(d, Question) = 0
  <2>1. ASSUME NEW i \in 1..Len(d) PROVE d[i] # Question
    <3>1. CASE i = 1
      BY <1>3, <3>1 DEF Slash, Question
    <3>2. CASE i # 1
      <4>1. i \in 2..Len(d) /\ i - 1 \in 1..Len(t)
        BY <1>3, <3>2
      <4>2. d[i] = t[i - 1] /\ i - 1 \in DOMAIN t
        BY <1>1, <1>3, <4>1 DEF Text
      <4> QED BY <1>1, <4>2, Zenon DEF Range
    <3> QED BY <3>1, <3>2
  <2> QED BY <2>1, Zenon DEF Find, SelectInSeq
<1>6. UrlDecode(<<Slash>> \o UrlEncode(t)) = d
  BY <1>1, <1>2, DecodesEncoded, Zenon
<1>7. ApplyTarget(<<Slash>> \o UrlEncode(t)).path = OrSlash(d)
  BY <1>4, <1>5, <1>6, Zenon DEF ApplyTarget, StripAuthority, Before
<1>8. d # <<>>
  BY <1>3
<1> QED BY <1>2, <1>7, <1>8, Zenon DEF OrSlash

(* What a client appends to a path through urlEncode() reaches the router  *)
(* as it was, for any text and wherever the reads cut its escapes.         *)
THEOREM EncodedTextArrives == Spec => []EncodingArrives
<1>1. SentInv => EncodingArrives
  <2> SUFFICES ASSUME SentInv, NEW i \in DOMAIN delivered, NEW t \in PlainTexts,
                      script[i].target = <<Slash>> \o UrlEncode(t)
               PROVE  delivered[i].path = <<Slash>> \o t
    BY Zenon DEF EncodingArrives
  <2>1. delivered[i]["path"] = ApplyTarget(script[i].target)["path"]
    BY Zenon DEF SentInv, AsSent
  <2> QED BY <2>1, EncodedIsPath, Zenon
<1> QED BY <1>1, SentInvariant, PTL

=============================================================================
