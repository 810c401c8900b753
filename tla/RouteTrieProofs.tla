--------------------------- MODULE RouteTrieProofs ---------------------------
(***************************************************************************)
(* Theorems about RouteTrie, for any patterns, verbs, requests and names:  *)
(* the trie stays a tree, the map of parameters that the levels of         *)
(* findFrom share never holds anything but the bindings of the path to the *)
(* node it has reached, and what a lookup answers is what RouteTable says  *)
(* of the list of registrations.                                           *)
(***************************************************************************)
EXTENDS RouteTrie, SequenceTheorems, WellFoundedInduction, TLAPS

Step == Methods \cup Literals \cup {Param}    \* what a node's path is made of

-----------------------------------------------------------------------------
(* Sequences.                                                              *)

LEMMA LastReplaced ==
  ASSUME NEW S, NEW s \in Seq(S), s # <<>>, NEW f \in S,
         NEW t, t = [s EXCEPT ![Len(s)] = f]
  PROVE  /\ t \in Seq(S) /\ Len(t) = Len(s)
         /\ \A i \in 1..(Len(s) - 1) : t[i] = s[i]
         /\ t[Len(s)] = f
<1> DEFINE r == [s EXCEPT ![Len(s)] = f]
<1>1. Len(s) \in Nat \ {0} /\ Len(s) \in 1..Len(s)
  BY EmptySeq
<1>2. /\ r \in Seq(S) /\ Len(r) = Len(s)
      /\ \A j \in 1..Len(s) : r[j] = IF j = Len(s) THEN f ELSE s[j]
  BY <1>1, ExceptSeq
<1> HIDE DEF r
<1>3. /\ \A i \in 1..(Len(s) - 1) : r[i] = s[i]
      /\ r[Len(s)] = f
  BY <1>1, <1>2
<1> QED BY <1>2, <1>3, Zenon DEF r

LEMMA Called ==
  ASSUME NEW S, NEW s \in Seq(S), s # <<>>, NEW f \in S, NEW g \in S,
         NEW t, t = Append([s EXCEPT ![Len(s)] = f], g)
  PROVE  /\ t \in Seq(S) /\ Len(t) = Len(s) + 1
         /\ \A i \in 1..(Len(s) - 1) : t[i] = s[i]
         /\ t[Len(s)] = f /\ t[Len(s) + 1] = g
<1> DEFINE r == [s EXCEPT ![Len(s)] = f]
<1>1. /\ r \in Seq(S) /\ Len(r) = Len(s)
      /\ \A i \in 1..(Len(s) - 1) : r[i] = s[i]
      /\ r[Len(s)] = f
  BY LastReplaced
<1>2. Len(s) \in Nat \ {0}
  BY EmptySeq
<1> HIDE DEF r
<1>3. /\ Append(r, g) \in Seq(S) /\ Len(Append(r, g)) = Len(r) + 1
      /\ \A i \in 1..Len(r) : Append(r, g)[i] = r[i]
      /\ Append(r, g)[Len(r) + 1] = g
  BY <1>1, AppendProperties
<1>4. /\ Append(r, g) \in Seq(S) /\ Len(Append(r, g)) = Len(s) + 1
      /\ \A i \in 1..(Len(s) - 1) : Append(r, g)[i] = s[i]
      /\ Append(r, g)[Len(s)] = f /\ Append(r, g)[Len(s) + 1] = g
  BY <1>1, <1>2, <1>3
<1> QED BY <1>4 DEF r

LEMMA Popped ==
  ASSUME NEW S, NEW s \in Seq(S), s # <<>>, NEW t, t = SubSeq(s, 1, Len(s) - 1)
  PROVE  /\ t \in Seq(S) /\ Len(t) = Len(s) - 1
         /\ \A i \in 1..(Len(s) - 1) : t[i] = s[i]
<1> DEFINE r == SubSeq(s, 1, Len(s) - 1)
<1>1. Len(s) \in Nat \ {0}
  BY EmptySeq
<1>2. \A i \in 1..(Len(s) - 1) : s[i] \in S
  BY <1>1, ElementOfSeq
<1>3. /\ r \in Seq(S)
      /\ Len(r) = IF 1 <= Len(s) - 1 THEN Len(s) - 1 - 1 + 1 ELSE 0
      /\ \A i \in 1..Len(s) - 1 - 1 + 1 : r[i] = s[1 + i - 1]
  <2>1. 1 \in Int /\ Len(s) - 1 \in Int
    BY <1>1
  <2> QED BY <1>2, <2>1, SubSeqProperties
<1> HIDE DEF r
<1>4. Len(r) = Len(s) - 1
  <2>1. \A k \in Nat \ {0} : (IF 1 <= k - 1 THEN k - 1 - 1 + 1 ELSE 0) = k - 1
    OBVIOUS
  <2> QED BY ONLY <1>1, <1>3, <2>1, Zenon
<1>5. ASSUME NEW i \in 1..(Len(s) - 1) PROVE r[i] = s[i]
  <2>1. i \in 1..Len(s) - 1 - 1 + 1 /\ 1 + i - 1 = i
    BY <1>1
  <2> QED BY <1>3, <2>1, Zenon
<1> QED BY <1>3, <1>4, <1>5, Zenon DEF r

LEMMA IsMap ==
  ASSUME NEW f, f = [n \in DOMAIN f |-> f[n]],
         \A n \in DOMAIN f : n \in Names /\ f[n] \in Values
  PROVE  f \in Maps
<1>1. f \in [DOMAIN f -> Values] /\ DOMAIN f \in SUBSET Names
  BY Zenon
<1>2. [DOMAIN f -> Values] \in {[D -> Values] : D \in SUBSET Names}
  BY <1>1, Zenon
<1> QED BY <1>1, <1>2, Zenon DEF Maps

LEMMA LastAdded ==
  ASSUME NEW S, NEW s \in Seq(S), NEW e \in S
  PROVE  /\ Append(s, e) \in Seq(S) /\ Append(s, e) # <<>>
         /\ Len(Append(s, e)) = Len(s) + 1 /\ Len(s) \in Nat
         /\ Append(s, e)[Len(s) + 1] = e
         /\ \A i \in 1..Len(s) : Append(s, e)[i] = s[i]
BY AppendProperties, LenProperties

-----------------------------------------------------------------------------
(* Nodes and their prefixes.                                               *)

LEMMA NodeOfPattern ==
  ASSUME NEW m \in Methods, NEW p \in Seq(Literals \cup Names)
  PROVE  /\ NodeOf(m, p) \in Seq(Step) /\ Len(NodeOf(m, p)) = Len(p) + 1
         /\ NodeOf(m, p)[1] = m
         /\ \A i \in 1..Len(p) :
              NodeOf(m, p)[i + 1] = IF p[i] \in Names THEN Param ELSE p[i]
<1> DEFINE q == [i \in DOMAIN p |-> IF p[i] \in Names THEN Param ELSE p[i]]
<1>1. Len(p) \in Nat /\ DOMAIN p = 1..Len(p)
  BY LenProperties
<1>2. \A i \in 1..Len(p) : p[i] \in Literals \cup Names
  BY ElementOfSeq
<1>3. q \in [1..Len(p) -> Step]
  BY <1>1, <1>2 DEF Step
<1>4. q \in Seq(Step) /\ Len(q) = Len(p)
  BY <1>1, <1>3
<1>5. <<m>> \in Seq(Step) /\ Len(<<m>>) = 1 /\ <<m>>[1] = m
  BY DEF Step
<1>6. \A i \in 1..Len(p) : q[i] = IF p[i] \in Names THEN Param ELSE p[i]
  BY <1>1
<1> HIDE DEF q
<1>7. /\ <<m>> \o q \in Seq(Step) /\ Len(<<m>> \o q) = Len(<<m>>) + Len(q)
      /\ \A i \in 1..Len(<<m>>) + Len(q) :
           (<<m>> \o q)[i] = IF i <= Len(<<m>>) THEN <<m>>[i] ELSE q[i - Len(<<m>>)]
  BY <1>4, <1>5, ConcatProperties
<1>8. /\ <<m>> \o q \in Seq(Step) /\ Len(<<m>> \o q) = Len(p) + 1
      /\ (<<m>> \o q)[1] = m
      /\ \A i \in 1..Len(p) : (<<m>> \o q)[i + 1] = q[i]
  BY <1>1, <1>4, <1>5, <1>7
<1>9. NodeOf(m, p) = <<m>> \o q
  BY DEF NodeOf, q
<1> QED BY <1>6, <1>8, <1>9

LEMMA PathFacts ==
  ASSUME NEW s \in Seq(Step), NEW n \in PathTo(s)
  PROVE  /\ n \in Seq(Step) /\ Len(n) \in 0..Len(s)
         /\ \A k \in 1..Len(n) : n[k] = s[k]
         /\ n # Root => Parent(n) \in PathTo(s)
<1>1. PICK i \in 0..Len(s) : n = SubSeq(s, 1, i)
  BY DEF PathTo
<1>2. Len(s) \in Nat /\ \A k \in 1..i : s[k] \in Step
  BY <1>1, ElementOfSeq, LenProperties
<1>3. /\ n \in Seq(Step) /\ Len(n) = i
      /\ \A k \in 1..i : n[k] = s[k]
  BY <1>1, <1>2, SubSeqProperties
<1>4. ASSUME n # Root PROVE Parent(n) \in PathTo(s)
  <2>1. i \in 1..Len(s) /\ Len(n) \in Nat \ {0}
    BY <1>3, <1>4, EmptySeq DEF Root
  <2>2. CASE i = 1
    <3>1. Parent(n) = <<>>
      BY <1>3, <2>2, SubSeqEmpty DEF Parent
    <3>2. SubSeq(s, 1, 0) = <<>>
      BY SubSeqEmpty
    <3> QED BY <1>2, <3>1, <3>2 DEF PathTo
  <2>3. CASE i # 1
    <3>1. SubSeq(SubSeq(s, 1, i), 1, i - 1) = SubSeq(s, 1, i - 1)
      <4>1. /\ 1 \in 1..Len(s) /\ i \in 1..Len(s)
            /\ 1 \in 1..i - 1 + 1 /\ i - 1 \in 1..i - 1 + 1
        BY <2>1, <2>3
      <4>2. SubSeq(SubSeq(s, 1, i), 1, i - 1) = SubSeq(s, 1 + 1 - 1, 1 + (i - 1) - 1)
        BY <4>1, SubSeqOfSubSeq
      <4> QED BY <4>2, <2>1
    <3>2. Parent(n) = SubSeq(s, 1, i - 1)
      BY <1>1, <1>3, <3>1 DEF Parent
    <3> QED BY <2>1, <3>2, <1>2 DEF PathTo
  <2> QED BY <2>2, <2>3
<1> QED BY <1>1, <1>3, <1>4

LEMMA OwnPrefix ==
  ASSUME NEW s \in Seq(Step)
  PROVE  s \in PathTo(s) /\ Root \in PathTo(s)
<1>1. SubSeq(s, 1, Len(s)) = s /\ Len(s) \in Nat
  BY SubSeqFull, LenProperties
<1>2. SubSeq(s, 1, 0) = Root
  BY SubSeqEmpty DEF Root
<1>3. 0 \in 0..Len(s) /\ Len(s) \in 0..Len(s)
  BY <1>1
<1>4. SubSeq(s, 1, Len(s)) \in PathTo(s) /\ SubSeq(s, 1, 0) \in PathTo(s)
  BY <1>3, Zenon DEF PathTo
<1> QED BY <1>1, <1>2, <1>4, Zenon

-----------------------------------------------------------------------------
(* Registering a route keeps the tree a tree.                              *)

LEMMA InsertStep ==
  ASSUME TypeOK, NodeInv, stack = <<>>, NEW methods \in SUBSET Methods,
         NEW pattern \in Patterns, Insert(methods, pattern)
  PROVE  TypeOK' /\ NodeInv'
<1> DEFINE Ends == {NodeOf(m, pattern) : m \in methods}
<1>1. /\ table' = Append(table, [methods |-> methods, pattern |-> pattern])
      /\ nodes' = nodes \cup UNION {PathTo(n) : n \in Ends}
      /\ handler' = [n \in nodes' |-> IF n \in Ends THEN Len(table')
                                      ELSE IF n \in nodes THEN handler[n] ELSE 0]
      /\ leaf' = (leaf \ {Parent(n) : n \in nodes' \ nodes}) \cup Ends
      /\ pname' = [n \in {c \in nodes' : IsParam(c)} |->
                     IF n \in nodes THEN pname[n] ELSE pattern[Len(n) - 1]]
      /\ request' = request /\ stack' = stack /\ params' = params /\ answer' = answer
  BY Zenon DEF Insert
<1>2. pattern \in Seq(Literals \cup Names)
  BY InputAssumption
<1>3. ASSUME NEW e \in Ends
      PROVE  /\ e \in Seq(Step) /\ Len(e) = Len(pattern) + 1 /\ e[1] \in Methods
             /\ \A k \in 1..Len(pattern) :
                  e[k + 1] = IF pattern[k] \in Names THEN Param ELSE pattern[k]
  <2>1. PICK m \in methods : e = NodeOf(m, pattern)
    OBVIOUS
  <2>2. m \in Methods
    OBVIOUS
  <2>3. /\ NodeOf(m, pattern) \in Seq(Step) /\ Len(NodeOf(m, pattern)) = Len(pattern) + 1
        /\ NodeOf(m, pattern)[1] = m
        /\ \A k \in 1..Len(pattern) :
             NodeOf(m, pattern)[k + 1] = IF pattern[k] \in Names THEN Param ELSE pattern[k]
    BY <1>2, <2>2, NodeOfPattern
  <2> QED BY <2>1, <2>2, <2>3, Zenon
<1> HIDE DEF Ends
<1>4. nodes \subseteq nodes' /\ \A n \in nodes' \ nodes : \E e \in Ends : n \in PathTo(e)
  BY <1>1, Zenon
<1>5. ASSUME NEW n \in nodes' \ nodes
      PROVE  \E e \in Ends : /\ n \in Seq(Step) /\ Len(n) \in 0..Len(e)
                             /\ \A k \in 1..Len(n) : n[k] = e[k]
                             /\ n # Root => Parent(n) \in PathTo(e)
  <2>1. PICK e \in Ends : n \in PathTo(e)
    BY <1>4, Zenon
  <2>2. e \in Seq(Step)
    BY <1>3, Zenon
  <2> QED BY <2>1, <2>2, PathFacts, Zenon
<1>6. Ends \subseteq nodes'
  <2> SUFFICES ASSUME NEW e \in Ends PROVE e \in nodes'
    OBVIOUS
  <2>1. e \in PathTo(e)
    BY <1>3, OwnPrefix, Zenon
  <2> QED BY <1>1, <2>1, Zenon
<1>7. NodeInv'
  <2>1. nodes' \subseteq Seq(Step)
    <3>1. nodes \subseteq Seq(Step)
      BY Zenon DEF NodeInv, Step
    <3> QED BY <1>5, <3>1, Zenon
  <2>2. ASSUME NEW n \in nodes' \ {Root} PROVE n[1] \in Methods
    <3>1. CASE n \in nodes
      BY <3>1, Zenon DEF NodeInv
    <3>2. CASE n \notin nodes
      <4>1. PICK e \in Ends : /\ n \in Seq(Step) /\ Len(n) \in 0..Len(e)
                              /\ \A k \in 1..Len(n) : n[k] = e[k]
        BY <1>5, <3>2, Zenon
      <4>2. Len(n) \in Nat \ {0}
        BY <4>1, EmptySeq, Zenon DEF Root
      <4>3. 1 \in 1..Len(n)
        BY <4>2
      <4>4. n[1] = e[1]
        BY <4>1, <4>3, Zenon
      <4> QED BY <1>3, <4>4, Zenon
    <3> QED BY <3>1, <3>2
  <2> QED BY <2>1, <2>2, Zenon DEF NodeInv, Step
<1>8. Len(table') = Len(table) + 1 /\ Len(table) \in Nat
      /\ table' \in Seq([methods : SUBSET Methods, pattern : Patterns])
  <2> DEFINE Entry == [methods : SUBSET Methods, pattern : Patterns]
             entry == [methods |-> methods, pattern |-> pattern]
  <2>1. entry \in Entry /\ table \in Seq(Entry)
    BY DEF TypeOK
  <2> HIDE DEF Entry, entry
  <2>2. Append(table, entry) \in Seq(Entry) /\ Len(Append(table, entry)) = Len(table) + 1
        /\ Len(table) \in Nat
    BY <2>1, LastAdded
  <2> QED BY <1>1, <2>2, Zenon DEF entry, Entry
<1>9. Root \in nodes' /\ \A n \in nodes' \ {Root} : Parent(n) \in nodes'
  <2>1. Root \in nodes'
    BY <1>4, Zenon DEF TypeOK
  <2>2. ASSUME NEW n \in nodes' \ {Root} PROVE Parent(n) \in nodes'
    <3>1. CASE n \in nodes
      BY <1>4, <3>1, Zenon DEF TypeOK
    <3>2. CASE n \notin nodes
      <4>1. PICK e \in Ends : n # Root => Parent(n) \in PathTo(e)
        BY <1>5, <3>2, Zenon
      <4> QED BY <1>1, <4>1, Zenon
    <3> QED BY <3>1, <3>2
  <2> QED BY <2>1, <2>2
<1>10. handler' \in [nodes' -> 0..Len(table')]
  <2>1. ASSUME NEW n \in nodes' PROVE handler'[n] \in 0..Len(table')
    <3>1. CASE n \in Ends
      <4>1. handler'[n] = Len(table')
        BY <1>1, <3>1, Zenon
      <4> QED BY <1>8, <4>1
    <3>2. CASE n \notin Ends /\ n \in nodes
      <4>1. handler'[n] = handler[n] /\ handler[n] \in 0..Len(table)
        BY <1>1, <3>2, Zenon DEF TypeOK
      <4> QED BY <1>8, <4>1
    <3>3. CASE n \notin Ends /\ n \notin nodes
      <4>1. handler'[n] = 0
        BY <1>1, <3>3, Zenon
      <4> QED BY <1>8, <4>1
    <3> QED BY <3>1, <3>2, <3>3
  <2>2. handler' = [n \in nodes' |-> handler'[n]]
    BY <1>1, Zenon
  <2> QED BY <2>1, <2>2, Zenon
<1>11. leaf' \subseteq nodes'
  BY <1>1, <1>4, <1>6, Zenon DEF TypeOK
<1>12. pname' \in [{n \in nodes' : IsParam(n)} -> Names]
  <2>1. ASSUME NEW n \in nodes', IsParam(n) PROVE pname'[n] \in Names
    <3>1. CASE n \in nodes
      <4>1. pname'[n] = pname[n]
        BY <1>1, <2>1, <3>1, Zenon
      <4>2. pname[n] \in Names
        BY <2>1, <3>1, Zenon DEF TypeOK
      <4> QED BY <4>1, <4>2
    <3>2. CASE n \notin nodes
      <4>1. PICK e \in Ends : /\ n \in Seq(Step) /\ Len(n) \in 0..Len(e)
                              /\ \A k \in 1..Len(n) : n[k] = e[k]
        BY <1>5, <3>2, Zenon
      <4>2. Len(n) \in Nat \ {0} /\ n[Len(n)] = Param
        BY <2>1, <4>1, EmptySeq, Zenon DEF IsParam, Root
      <4>3. Len(n) \in 1..Len(n) /\ Len(pattern) \in Nat
        BY <4>2, <1>2, LenProperties
      <4>4. e[Len(n)] = Param /\ e[1] \in Methods /\ Len(e) = Len(pattern) + 1
        BY <1>3, <4>1, <4>2, <4>3, Zenon
      <4>5. Len(n) # 1
        BY <4>4, SegmentAssumption, Zenon
      <4>6. Len(n) - 1 \in 1..Len(pattern) /\ Len(n) = (Len(n) - 1) + 1
        <5>1. /\ Len(n) \in Nat \ {0} /\ Len(pattern) \in Nat /\ Len(n) # 1
              /\ Len(n) \in 0..(Len(pattern) + 1)
          BY <4>1, <4>2, <4>3, <4>4, <4>5, Zenon
        <5>2. \A j \in Nat \ {0}, k \in Nat :
                j # 1 /\ j \in 0..(k + 1) => j - 1 \in 1..k /\ j = (j - 1) + 1
          OBVIOUS
        <5> QED BY ONLY <5>1, <5>2, Zenon
      <4>7. Param = IF pattern[Len(n) - 1] \in Names THEN Param ELSE pattern[Len(n) - 1]
        BY <1>3, <4>4, <4>6, Zenon
      <4>8. pattern[Len(n) - 1] \in Literals \cup Names
        BY <1>2, <4>6, ElementOfSeq
      <4>9. pattern[Len(n) - 1] \in Names
        BY <4>7, <4>8, SegmentAssumption
      <4> QED BY <1>1, <2>1, <3>2, <4>9, Zenon
    <3> QED BY <3>1, <3>2
  <2>2. pname' = [n \in {c \in nodes' : IsParam(c)} |-> pname'[n]]
    BY <1>1, Zenon
  <2> QED BY <2>1, <2>2, Zenon
<1>13. stack' \in Seq(Frames') /\ params' \in Maps /\ request' \in Requests \cup {NoRequest}
  BY <1>1, EmptySeq, Zenon DEF TypeOK
<1>14. answer' \in [handler : 0..Len(table'), params : Maps]
  <2>1. answer \in [handler : 0..Len(table), params : Maps]
    BY Zenon DEF TypeOK
  <2>2. 0..Len(table) \subseteq 0..Len(table')
    BY <1>8
  <2> QED BY <1>1, <2>1, <2>2
<1>15. TypeOK'
  BY <1>8, <1>9, <1>10, <1>11, <1>12, <1>13, <1>14, Zenon DEF TypeOK
<1> QED BY <1>7, <1>15

LEMMA RegisterStep ==
  ASSUME TrieInv, NEW verb \in Verbs, NEW pattern \in Patterns, Register(verb, pattern)
  PROVE  TrieInv'
<1>1. MethodsOf(verb) \in SUBSET Methods
  BY InputAssumption DEF MethodsOf, Methods
<1>2. request = NoRequest /\ stack = <<>>
  BY Zenon DEF Register, Insert, TrieInv, SearchInv
<1>3. TypeOK' /\ NodeInv'
  BY <1>1, <1>2, InsertStep, Zenon DEF Register, TrieInv
<1>4. request' = NoRequest /\ stack' = <<>>
  BY <1>2, Zenon DEF Register, Insert
<1> QED BY <1>3, <1>4, Zenon DEF TrieInv, SearchInv

-----------------------------------------------------------------------------
(* What is known in the middle of a lookup.                                *)

LEMMA SegmentsType ==
  ASSUME NEW r \in Requests
  PROVE  /\ Segments(r) \in Seq(Methods \cup Values) /\ Len(Segments(r)) \in Nat \ {0}
         /\ \A i \in 2..Len(Segments(r)) : Segments(r)[i] \in Values
<1>1. r.method \in Methods /\ r.path \in Seq(Values)
  BY InputAssumption
<1>2. <<r.method>> \in Seq(Methods \cup Values) /\ r.path \in Seq(Methods \cup Values)
  BY <1>1, SeqMonotonic
<1>3. Len(<<r.method>>) = 1 /\ Len(r.path) \in Nat /\ \A i \in 1..Len(r.path) : r.path[i] \in Values
  BY <1>1, ElementOfSeq, LenProperties
<1> DEFINE p == r.path
           h == <<r.method>>
<1>4. p \in Seq(Methods \cup Values) /\ h \in Seq(Methods \cup Values) /\ Len(h) = 1
      /\ Len(p) \in Nat /\ \A i \in 1..Len(p) : p[i] \in Values
  BY <1>2, <1>3
<1> HIDE DEF p, h
<1>5. /\ h \o p \in Seq(Methods \cup Values) /\ Len(h \o p) = Len(h) + Len(p)
      /\ \A i \in 1..Len(h) + Len(p) : (h \o p)[i] = IF i <= Len(h) THEN h[i] ELSE p[i - Len(h)]
  BY <1>4, ConcatProperties
<1>6. ASSUME NEW i \in 2..Len(h \o p) PROVE (h \o p)[i] \in Values
  <2>1. i \in 1..Len(h) + Len(p) /\ ~(i <= Len(h)) /\ i - Len(h) \in 1..Len(p)
    BY <1>4, <1>5
  <2> QED BY <1>4, <1>5, <2>1, Zenon
<1>7. Segments(r) = h \o p
  BY DEF Segments, h, p
<1>8. Len(h \o p) \in Nat \ {0}
  BY <1>4, <1>5
<1> QED BY <1>5, <1>6, <1>7, <1>8, Zenon

(* Who has a parameter child stands below the method, so the segment that is *)
(* bound is one of the path.                                               *)
LEMMA BinderFacts ==
  ASSUME TypeOK, NodeInv, NEW r \in Requests, NEW node \in nodes, Append(node, Param) \in nodes,
         NEW i \in Nat, Len(node) = i - 1, i <= Len(Segments(r))
  PROVE  /\ i \in 2..Len(Segments(r)) /\ Segments(r)[i] \in Values
         /\ pname[Append(node, Param)] \in Names
<1> DEFINE c == Append(node, Param)
<1>1. node \in Seq(Step) /\ Param \in Step /\ c \in nodes
  BY Zenon DEF NodeInv, Step
<1>2. c # Root /\ Len(c) = i /\ c[i] = Param
  BY <1>1, LastAdded DEF Root
<1>3. i # 1 /\ i # 0
  <2>1. c[1] \in Methods
    BY <1>1, <1>2, Zenon DEF NodeInv
  <2>2. i # 1
    BY <1>2, <2>1, SegmentAssumption, Zenon
  <2>3. Len(node) \in Nat
    BY <1>1, LenProperties
  <2> QED BY <2>2, <2>3
<1>4. i \in 2..Len(Segments(r))
  <2>1. Len(Segments(r)) \in Nat
    BY SegmentsType
  <2> QED BY <1>3, <2>1
<1>5. Segments(r)[i] \in Values
  BY <1>4, SegmentsType, Zenon
<1>6. IsParam(c)
  BY <1>2, Zenon DEF IsParam
<1>7. pname[c] \in Names
  BY <1>1, <1>6, Zenon DEF TypeOK
<1> QED BY <1>4, <1>5, <1>7

LEMMA SearchFacts ==
  ASSUME TrieInv, request # NoRequest
  PROVE  /\ request \in Requests /\ stack \in Seq(Frames) /\ stack # <<>>
         /\ Len(stack) \in Nat \ {0} /\ Top \in Frames
         /\ Len(Top.node) = Len(stack) - 1
         /\ Len(stack) <= Len(Segments(request)) + 1
         /\ \A i \in Binders : /\ i \in 2..Len(Segments(request)) /\ i \in 1..Len(stack)
                               /\ Segments(request)[i] \in Values
                               /\ Bound(i) \in Names
<1>1. request \in Requests /\ stack \in Seq(Frames) /\ FrameInv /\ stack # <<>>
  BY Zenon DEF TrieInv, TypeOK, SearchInv, FrameInv, StackIsPath
<1>2. Len(stack) \in Nat \ {0}
  BY <1>1, EmptySeq
<1>3. Len(stack) \in 1..Len(stack)
  BY <1>2
<1>4. Top \in Frames
  BY <1>1, <1>3, ElementOfSeq, Zenon DEF Top
<1>5. Len(Top.node) = Len(stack) - 1 /\ Len(stack) <= Len(Segments(request)) + 1
  BY <1>1, <1>3, Zenon DEF FrameInv, Top
<1>6. ASSUME NEW i \in Binders
      PROVE  /\ i \in 2..Len(Segments(request)) /\ i \in 1..Len(stack)
             /\ Segments(request)[i] \in Values /\ Bound(i) \in Names
  <2> DEFINE c == Append(stack[i].node, Param)
  <2>1. /\ i \in 1..Len(stack) /\ c \in nodes
        /\ i <= Len(Segments(request)) /\ Len(stack[i].node) = i - 1
    BY <1>1, Zenon DEF FrameInv, Binders
  <2>2. stack[i].node \in nodes
    <3>1. stack[i] \in Frames
      BY <1>1, <2>1, ElementOfSeq, Zenon
    <3> QED BY <3>1 DEF Frames
  <2>3. i \in Nat
    BY <1>2, <2>1
  <2>4. /\ i \in 2..Len(Segments(request)) /\ Segments(request)[i] \in Values
        /\ pname[c] \in Names
    BY <1>1, <2>1, <2>2, <2>3, BinderFacts, Zenon DEF TrieInv
  <2> QED BY <2>1, <2>4, Zenon DEF Bound
<1> QED BY <1>1, <1>2, <1>4, <1>5, <1>6

(* The bindings do not change when neither the frames that bind nor the map do. *)
LEMMA SameBinders ==
  ASSUME TrieInv, request # NoRequest, UNCHANGED <<request, pname, params>>,
         Binders' = Binders, \A i \in Binders : stack'[i] = stack[i]
  PROVE  (SavedInv /\ ParamsInv)'
<1>1. SavedInv /\ ParamsInv
  BY Zenon DEF TrieInv, SearchInv
<1>2. \A i \in Binders : Bound(i)' = Bound(i)
  BY Zenon DEF Bound
<1>3. Segments(request)' = Segments(request)
  BY Zenon DEF Segments
<1>4. \A name, i, k : BoundLast(name, i, k)' <=> BoundLast(name, i, k)
  BY <1>2, Zenon DEF BoundLast
<1>5. SavedInv'
  <2> SUFFICES ASSUME NEW k \in Binders
               PROVE  /\ stack'[k].had <=> \E i \in Binders : i < k /\ Bound(i)' = Bound(k)'
                      /\ stack'[k].had =>
                           \E i \in Binders : /\ BoundLast(Bound(k), i, k)'
                                              /\ stack'[k].saved = Segments(request)'[i]
    BY Zenon DEF SavedInv
  <2>1. /\ stack[k].had <=> \E i \in Binders : i < k /\ Bound(i) = Bound(k)
        /\ stack[k].had =>
             \E i \in Binders : BoundLast(Bound(k), i, k) /\ stack[k].saved = Segments(request)[i]
    BY <1>1, Zenon DEF SavedInv
  <2>2. stack'[k] = stack[k] /\ Bound(k)' = Bound(k)
    BY <1>2, Zenon
  <2>3. \A i : BoundLast(Bound(k), i, k)' <=> BoundLast(Bound(k), i, k)
    BY <1>2, <2>2, Zenon DEF BoundLast
  <2> QED BY <1>2, <1>3, <2>1, <2>2, <2>3, Zenon
<1>6. ParamsInv'
  <2>1. \A i \in Binders : i < Len(stack) + 1
    BY SearchFacts
  <2>2. \A i \in Binders : i < Len(stack') + 1
    <3>1. \A i \in Binders' : i \in 1..Len(stack')
      BY Zenon DEF Binders
    <3> QED BY <3>1, SearchFacts
  <2>3. \A name, i : BoundLast(name, i, Len(stack) + 1) => BoundLast(name, i, Len(stack') + 1)
    BY <2>1, <2>2, Zenon DEF BoundLast
  <2>4. {Bound(i) : i \in Binders}' = {Bound(i) : i \in Binders}
    BY <1>2, Zenon
  <2> QED BY <1>1, <1>3, <1>4, <2>3, <2>4, Zenon DEF ParamsInv
<1> QED BY <1>5, <1>6

(* A step of the search leaves the trie as it is.                          *)
LEMMA TreeKept ==
  ASSUME TypeOK, NodeInv, UNCHANGED trie, request' \in Requests \cup {NoRequest},
         stack' \in Seq(Frames), params' \in Maps,
         answer' \in [handler : 0..Len(table), params : Maps]
  PROVE  TypeOK' /\ NodeInv'
<1>1. nodes' = nodes /\ handler' = handler /\ leaf' = leaf /\ pname' = pname /\ table' = table
  BY Zenon DEF trie
<1>2. TypeOK'
  BY <1>1, Zenon DEF TypeOK, Frames
<1>3. NodeInv'
  BY <1>1, Zenon DEF NodeInv
<1> QED BY <1>2, <1>3

-----------------------------------------------------------------------------
(* findFrom returns to the level above.                                    *)

LEMMA PopFrames ==
  ASSUME TrieInv, request # NoRequest, Len(stack) # 1, UNCHANGED <<request, nodes>>,
         stack' = SubSeq(stack, 1, Len(stack) - 1)
  PROVE  /\ FrameInv' /\ stack' \in Seq(Frames) /\ Len(stack') = Len(stack) - 1
         /\ Binders' = Binders \ {Len(stack)}
         /\ \A i \in 1..(Len(stack) - 1) : stack'[i] = stack[i]
<1>1. /\ FrameInv /\ stack \in Seq(Frames) /\ stack # <<>> /\ Len(stack) \in Nat \ {0, 1}
  BY SearchFacts DEF TrieInv, SearchInv
<1>2. /\ stack' \in Seq(Frames) /\ Len(stack') = Len(stack) - 1
      /\ \A i \in 1..(Len(stack) - 1) : stack'[i] = stack[i]
  <2>1. stack \in Seq(Frames) /\ stack # <<>> /\ stack' = SubSeq(stack, 1, Len(stack) - 1)
    BY <1>1, Zenon
  <2> QED BY ONLY <2>1, Popped
<1>3. 1..Len(stack') = 1..Len(stack) \ {Len(stack)} /\ 1..Len(stack') = 1..(Len(stack) - 1)
  BY <1>1, <1>2
<1>4. Binders' = Binders \ {Len(stack)}
  <2>1. Binders' = {i \in 1..Len(stack') : stack'[i].next = "undo"}
    BY Zenon DEF Binders
  <2> QED BY <1>2, <1>3, <2>1, Zenon DEF Binders
<1>5. Segments(request)' = Segments(request)
  BY Zenon DEF Segments
<1>6. StackIsPath'
  <2>1. StackIsPath
    BY <1>1, Zenon DEF FrameInv
  <2>2. stack' # <<>> /\ stack'[1].node = Root
    <3>1. 1 \in 1..(Len(stack) - 1) /\ Len(stack') # 0
      BY <1>1, <1>2
    <3>2. Len(<<>>) = 0
      BY EmptySeq
    <3> QED BY <1>2, <2>1, <3>1, <3>2, Zenon DEF StackIsPath
  <2>3. ASSUME NEW i \in 1..(Len(stack') - 1)
        PROVE  stack'[i + 1].node = Append(stack'[i].node,
                 IF i \in Binders' THEN Param ELSE Segments(request)[Len(stack'[i].node) + 1])
    <3>1. /\ i \in 1..(Len(stack) - 1) /\ i + 1 \in 1..(Len(stack) - 1) /\ i # Len(stack)
      BY <1>1, <1>2
    <3>2. i \in Binders' <=> i \in Binders
      BY <1>4, <3>1, Zenon
    <3>3. stack'[i] = stack[i] /\ stack'[i + 1] = stack[i + 1]
      BY <1>2, <3>1, Zenon
    <3> QED BY <2>1, <3>1, <3>2, <3>3, Zenon DEF StackIsPath, Segment
  <2> QED BY <1>5, <2>2, <2>3, Zenon DEF StackIsPath, Segment
<1>7. ASSUME NEW i \in 1..Len(stack')
      PROVE  /\ Len(stack'[i].node) = i - 1
             /\ i <= Len(Segments(request)) + 1
             /\ i < Len(stack') => stack'[i].next # "literal"
  <2>1. i \in 1..Len(stack) /\ i < Len(stack) /\ i \in 1..(Len(stack) - 1)
    BY <1>1, <1>2
  <2> QED BY <1>1, <1>2, <2>1, Zenon DEF FrameInv
<1>8. ASSUME NEW i \in Binders'
      PROVE  Append(stack'[i].node, Param) \in nodes /\ i <= Len(Segments(request))
  <2>1. i \in Binders /\ i \in 1..(Len(stack) - 1)
    BY <1>3, <1>4, Zenon DEF Binders
  <2> QED BY <1>1, <1>2, <2>1, Zenon DEF FrameInv
<1>9. FrameInv'
  BY <1>5, <1>6, <1>7, <1>8, Zenon DEF FrameInv
<1> QED BY <1>2, <1>4, <1>9

LEMMA ReturnNullStep ==
  ASSUME TrieInv, request # NoRequest, ReturnNull, UNCHANGED trie, params' \in Maps,
         Len(stack) # 1 => (SavedInv /\ ParamsInv)'
  PROVE  TrieInv'
<1>1. /\ stack' = SubSeq(stack, 1, Len(stack) - 1)
      /\ request' = IF Len(stack) = 1 THEN NoRequest ELSE request
      /\ answer' = answer /\ nodes' = nodes
  BY Zenon DEF ReturnNull, trie
<1>2. /\ request \in Requests /\ stack \in Seq(Frames) /\ stack # <<>>
      /\ answer \in [handler : 0..Len(table), params : Maps]
  BY SearchFacts, Zenon DEF TrieInv, TypeOK
<1>3. TypeOK' /\ NodeInv'
  <2>1. stack' \in Seq(Frames)
    BY <1>1, <1>2, Popped, Zenon
  <2> QED BY <1>1, <1>2, <2>1, TreeKept, Zenon DEF TrieInv
<1>4. CASE Len(stack) = 1
  <2>1. request' = NoRequest /\ stack' = <<>>
    <3>1. SubSeq(stack, 1, 0) = <<>>
      BY SubSeqEmpty
    <3>2. Len(stack) - 1 = 0
      BY <1>4
    <3> QED BY <1>1, <1>4, <3>1, <3>2, Zenon
  <2> QED BY <1>3, <2>1, Zenon DEF TrieInv, SearchInv
<1>5. CASE Len(stack) # 1
  <2>1. request' = request
    BY <1>1, <1>5, Zenon
  <2>2. FrameInv'
    BY <1>1, <1>5, <2>1, PopFrames, Zenon
  <2> QED BY <1>3, <1>5, <2>1, <2>2, Zenon DEF TrieInv, SearchInv
<1> QED BY <1>4, <1>5

(* ... from a level that has nothing to undo.                              *)
LEMMA NothingToUndo ==
  ASSUME TrieInv, request # NoRequest, ReturnNull, UNCHANGED <<trie, params>>,
         Len(stack) \notin Binders
  PROVE  TrieInv'
<1>1. params' \in Maps
  BY Zenon DEF TrieInv, TypeOK
<1>2. ASSUME Len(stack) # 1 PROVE (SavedInv /\ ParamsInv)'
  <2>1. stack' = SubSeq(stack, 1, Len(stack) - 1) /\ request' = request
        /\ nodes' = nodes /\ pname' = pname
    BY <1>2, Zenon DEF ReturnNull, trie
  <2>2. Binders' = Binders /\ \A i \in 1..(Len(stack) - 1) : stack'[i] = stack[i]
    BY <1>2, <2>1, PopFrames, Zenon
  <2>3. \A i \in Binders : i \in 1..(Len(stack) - 1)
    <3>1. \A i \in Binders : i \in 1..Len(stack) /\ i # Len(stack)
      BY Zenon DEF Binders
    <3> QED BY <3>1, SearchFacts
  <2> QED BY <2>1, <2>2, <2>3, SameBinders, Zenon
<1> QED BY <1>1, <1>2, ReturnNullStep, Zenon

LEMMA TopIsBinder ==
  ASSUME TrieInv, request # NoRequest
  PROVE  /\ Len(stack) \in Binders <=> Top.next = "undo"
         /\ Len(stack) \in Binders => ~AtEnd
<1>1. Len(stack) \in 1..Len(stack)
  BY SearchFacts
<1>2. Len(stack) \in Binders <=> Top.next = "undo"
  BY <1>1, Zenon DEF Binders, Top
<1>3. ASSUME Len(stack) \in Binders PROVE ~AtEnd
  <2>1. Len(stack) <= Len(Segments(request)) /\ Len(Top.node) = Len(stack) - 1
        /\ Len(stack) \in Nat /\ Len(Segments(request)) \in Nat
    BY <1>3, SearchFacts, SegmentsType
  <2> QED BY <2>1 DEF AtEnd
<1> QED BY <1>2, <1>3

LEMMA NoHandlerStep ==
  ASSUME TrieInv, NoHandler
  PROVE  TrieInv'
BY TopIsBinder, NothingToUndo, Zenon DEF NoHandler

LEMMA NoParamChildStep ==
  ASSUME TrieInv, NoParamChild
  PROVE  TrieInv'
<1>1. Top.next # "undo"
  BY DEF NoParamChild
<1> QED BY <1>1, TopIsBinder, NothingToUndo, Zenon DEF NoParamChild

(* ... from a level that has put the map back as its caller left it: what    *)
(* the map must be then.                                                   *)
LEMMA ReturnsUndone ==
  ASSUME TrieInv, request # NoRequest, ReturnNull, UNCHANGED trie, params' \in Maps,
         Len(stack) \in Binders,
         DOMAIN params' = {Bound(j) : j \in Binders \ {Len(stack)}},
         \A n \in DOMAIN params' :
           \E j \in Binders \ {Len(stack)} :
             /\ Bound(j) = n /\ params'[n] = Segments(request)[j]
             /\ \A k \in Binders \ {Len(stack)} : Bound(k) = n => k <= j
  PROVE  TrieInv'
<1> DEFINE Rest == Binders \ {Len(stack)}
<1>1. ASSUME Len(stack) # 1 PROVE (SavedInv /\ ParamsInv)'
  <2>1. stack' = SubSeq(stack, 1, Len(stack) - 1) /\ request' = request
        /\ nodes' = nodes /\ pname' = pname
    BY <1>1, Zenon DEF ReturnNull, trie
  <2>2. /\ Binders' = Rest /\ Len(stack') = Len(stack) - 1
        /\ \A i \in 1..(Len(stack) - 1) : stack'[i] = stack[i]
    BY <1>1, <2>1, PopFrames, Zenon
  <2>3. \A i \in Rest : i \in 1..(Len(stack) - 1) /\ i < Len(stack') + 1 /\ i < Len(stack)
    <3>1. \A i \in Binders : i \in 1..Len(stack)
      BY Zenon DEF Binders
    <3> QED BY <2>2, <3>1, SearchFacts
  <2>4. \A i \in Rest : stack'[i] = stack[i] /\ Bound(i)' = Bound(i)
    BY <2>1, <2>2, <2>3, Zenon DEF Bound
  <2>5. Segments(request)' = Segments(request) /\ SavedInv
    BY <2>1, Zenon DEF Segments, TrieInv, SearchInv
  <2>6. ASSUME NEW i \in Rest, NEW k \in Rest, NEW name
        PROVE  BoundLast(name, i, k)' <=> BoundLast(name, i, k)
    <3>1. ~ Len(stack) < k
      BY <2>3, SearchFacts
    <3> QED BY <2>2, <2>4, <3>1, Zenon DEF BoundLast
  <2>7. SavedInv'
    <3> SUFFICES ASSUME NEW k \in Rest
                 PROVE  /\ stack'[k].had <=> \E i \in Rest : i < k /\ Bound(i)' = Bound(k)'
                        /\ stack'[k].had =>
                             \E i \in Rest : /\ BoundLast(Bound(k), i, k)'
                                             /\ stack'[k].saved = Segments(request)'[i]
      BY <2>2, Zenon DEF SavedInv
    <3>1. /\ stack[k].had <=> \E i \in Binders : i < k /\ Bound(i) = Bound(k)
          /\ stack[k].had =>
               \E i \in Binders : BoundLast(Bound(k), i, k) /\ stack[k].saved = Segments(request)[i]
      BY <2>5, Zenon DEF SavedInv
    <3>2. stack'[k] = stack[k] /\ Bound(k)' = Bound(k)
      BY <2>4, Zenon
    <3>3. \A i \in Binders : i < k => i \in Rest
      <4>1. ~ Len(stack) < k
        BY <2>3, SearchFacts
      <4> QED BY <4>1, Zenon
    <3>4. \A i \in Rest : BoundLast(Bound(k), i, k)' <=> BoundLast(Bound(k), i, k)
      BY <2>4, <2>6, <3>2, <3>3, <2>2, Zenon DEF BoundLast
    <3>5. \A i \in Binders : BoundLast(Bound(k), i, k) => i \in Rest
      BY <3>3, Zenon DEF BoundLast
    <3> QED BY <2>4, <2>5, <3>1, <3>2, <3>3, <3>4, <3>5, Zenon
  <2>8. ParamsInv'
    <3>1. DOMAIN params' = {Bound(j)' : j \in Rest}
      BY <2>4, Zenon
    <3>2. ASSUME NEW n \in DOMAIN params'
          PROVE  \E j \in Rest : /\ BoundLast(n, j, Len(stack) + 1)'
                                 /\ params'[n] = Segments(request)'[j]
      <4>1. PICK j \in Rest : /\ Bound(j) = n /\ params'[n] = Segments(request)[j]
                              /\ \A k \in Rest : Bound(k) = n => k <= j
        BY Zenon
      <4>2. BoundLast(n, j, Len(stack) + 1)'
        BY <2>2, <2>3, <2>4, <4>1, Zenon DEF BoundLast
      <4> QED BY <2>5, <4>1, <4>2, Zenon
    <3> QED BY <2>2, <3>1, <3>2, Zenon DEF ParamsInv
  <2> QED BY <2>7, <2>8
<1> QED BY <1>1, ReturnNullStep, Zenon

(* What undoing a binding puts back is what the frame found.               *)
LEMMA UndoStep ==
  ASSUME TrieInv, Undo
  PROVE  TrieInv'
<1> DEFINE top == Len(stack)
           name == Bound(top)
<1>1. /\ request # NoRequest /\ ReturnNull /\ UNCHANGED trie /\ top \in Binders
      /\ params' = IF Top.had THEN Bind(name, Top.saved) ELSE Erase(name)
  BY TopIsBinder, Zenon DEF Undo, Bound, Top
<1>2. /\ SavedInv /\ ParamsInv /\ params \in Maps /\ stack \in Seq(Frames)
      /\ Len(stack) \in Nat \ {0} /\ Top.had \in BOOLEAN
  <2>1. Top.had \in BOOLEAN
    BY <1>1, SearchFacts DEF Frames
  <2> QED BY <1>1, <2>1, SearchFacts, Zenon DEF TrieInv, SearchInv, TypeOK
<1>3. \A i \in Binders : i \in 1..top /\ Bound(i) \in Names /\ Segments(request)[i] \in Values
  BY <1>1, SearchFacts, Zenon
<1>4. DOMAIN params = {Bound(i) : i \in Binders}
  BY <1>2, Zenon DEF ParamsInv
<1>5. Top = stack[top]
  BY Zenon DEF Top
<1>6. \A j \in Binders : j # top => j < top /\ j < top + 1
  BY <1>2, <1>3
<1>7. CASE Top.had
  <2>1. PICK i \in Binders : BoundLast(name, i, top) /\ Top.saved = Segments(request)[i]
    BY <1>1, <1>2, <1>5, <1>7, Zenon DEF SavedInv
  <2>2. params' = [n \in DOMAIN params \cup {name} |-> IF n = name THEN Top.saved ELSE params[n]]
    BY <1>1, <1>7, Zenon DEF Bind
  <2>3. name \in DOMAIN params
    BY <1>1, <1>4, Zenon
  <2>4. DOMAIN params' = DOMAIN params /\ params'[name] = Segments(request)[i]
        /\ \A n \in DOMAIN params : n # name => params'[n] = params[n]
    BY <2>1, <2>2, <2>3, Zenon
  <2>5. i # top /\ i < top /\ Bound(i) = name
    <3>1. i < top /\ Bound(i) = name /\ i \in Nat
      BY <1>3, <2>1 DEF BoundLast
    <3> QED BY <1>2, <3>1
  <2> DEFINE Rest == Binders \ {top}
  <2>6. DOMAIN params' = {Bound(j) : j \in Rest}
    BY <1>4, <2>4, <2>5, Zenon
  <2>7. ASSUME NEW n \in DOMAIN params'
        PROVE  \E j \in Rest : /\ Bound(j) = n /\ params'[n] = Segments(request)[j]
                               /\ \A k \in Rest : Bound(k) = n => k <= j
    <3>1. CASE n = name
      <4>1. \A k \in Rest : Bound(k) = n => k <= i
        BY <1>6, <2>1, <3>1, Zenon DEF BoundLast
      <4> QED BY <2>4, <2>5, <3>1, <4>1, Zenon
    <3>2. CASE n # name
      <4>1. PICK j \in Binders : BoundLast(n, j, top + 1) /\ params[n] = Segments(request)[j]
        BY <1>2, <2>4, Zenon DEF ParamsInv
      <4>2. j # top /\ Bound(j) = n
        BY <3>2, <4>1, Zenon DEF BoundLast
      <4>3. \A k \in Rest : Bound(k) = n => k <= j
        BY <1>6, <4>1, Zenon DEF BoundLast
      <4> QED BY <2>4, <3>2, <4>1, <4>2, <4>3, Zenon
    <3> QED BY <3>1, <3>2
  <2>8. params' \in Maps
    <3>1. \A n \in DOMAIN params' : n \in Names /\ params'[n] \in Values
      BY <1>3, <2>6, <2>7, Zenon
    <3>2. params' = [n \in DOMAIN params' |-> params'[n]]
      BY <2>2, Zenon
    <3> QED BY <3>1, <3>2, IsMap, Zenon
  <2>9. QED
    BY <1>1, <2>6, <2>7, <2>8, ReturnsUndone, Zenon
<1>8. CASE ~Top.had
  <2>1. ~ \E i \in Binders : i < top /\ Bound(i) = name
    BY <1>1, <1>2, <1>5, <1>8, Zenon DEF SavedInv
  <2>2. params' = [n \in DOMAIN params \ {name} |-> params[n]]
    BY <1>1, <1>8, Zenon DEF Erase
  <2> DEFINE Rest == Binders \ {top}
  <2>3. DOMAIN params' = {Bound(j) : j \in Rest}
    BY <1>4, <1>6, <2>1, <2>2, Zenon
  <2>4. ASSUME NEW n \in DOMAIN params'
        PROVE  \E j \in Rest : /\ Bound(j) = n /\ params'[n] = Segments(request)[j]
                               /\ \A k \in Rest : Bound(k) = n => k <= j
    <3>1. n \in DOMAIN params /\ n # name /\ params'[n] = params[n]
      BY <2>2, Zenon
    <3>2. PICK j \in Binders : BoundLast(n, j, top + 1) /\ params[n] = Segments(request)[j]
      BY <1>2, <3>1, Zenon DEF ParamsInv
    <3>3. j # top /\ Bound(j) = n
      BY <3>1, <3>2, Zenon DEF BoundLast
    <3>4. \A k \in Rest : Bound(k) = n => k <= j
      BY <1>6, <3>2, Zenon DEF BoundLast
    <3> QED BY <3>1, <3>2, <3>3, <3>4, Zenon
  <2>5. params' \in Maps
    <3>1. \A n \in DOMAIN params' : n \in Names /\ params'[n] \in Values
      BY <1>3, <2>3, <2>4, Zenon
    <3>2. params' = [n \in DOMAIN params' |-> params'[n]]
      BY <2>2, Zenon
    <3> QED BY <3>1, <3>2, IsMap, Zenon
  <2>6. QED
    BY <1>1, <2>3, <2>4, <2>5, ReturnsUndone, Zenon
<1> QED BY <1>2, <1>7, <1>8

-----------------------------------------------------------------------------
(* findFrom goes on at its level, or calls for a child.                    *)

LEMMA StackKept ==
  ASSUME TrieInv, request # NoRequest, UNCHANGED <<request, trie, answer>>,
         stack' \in Seq(Frames), params' \in Maps, FrameInv', (SavedInv /\ ParamsInv)'
  PROVE  TrieInv'
<1>1. TypeOK' /\ NodeInv'
  BY TreeKept, Zenon DEF TrieInv, TypeOK
<1> QED BY <1>1, Zenon DEF TrieInv, SearchInv

(* No literal child: the same level tries the parameter next.              *)
LEMMA NoLiteralStep ==
  ASSUME TrieInv, request # NoRequest, Top.next = "literal",
         UNCHANGED <<request, trie, params, answer>>,
         stack' = [stack EXCEPT ![Len(stack)].next = "param"]
  PROVE  TrieInv'
<1> DEFINE f == [Top EXCEPT !.next = "param"]
<1>1. /\ FrameInv /\ stack \in Seq(Frames) /\ stack # <<>> /\ Len(stack) \in Nat \ {0}
      /\ Top \in Frames /\ params \in Maps
  BY SearchFacts DEF TrieInv, SearchInv, TypeOK
<1>2. f \in Frames /\ f.node = Top.node /\ f.next = "param"
  BY <1>1 DEF Frames
<1>3. stack' = [stack EXCEPT ![Len(stack)] = f]
  BY Zenon DEF Top
<1> HIDE DEF f
<1>4. /\ stack' \in Seq(Frames) /\ Len(stack') = Len(stack)
      /\ \A i \in 1..(Len(stack) - 1) : stack'[i] = stack[i]
      /\ stack'[Len(stack)] = f
  BY ONLY <1>1, <1>2, <1>3, LastReplaced
<1>5. \A i \in 1..Len(stack) : i # Len(stack) => i \in 1..(Len(stack) - 1)
  BY <1>1
<1>6. Binders' = Binders /\ \A i \in Binders : stack'[i] = stack[i]
  <2>1. \A i \in 1..Len(stack) : stack'[i].next = "undo" <=> stack[i].next = "undo"
    BY <1>2, <1>4, <1>5, Zenon DEF Top
  <2>2. \A i \in Binders : i \in 1..Len(stack) /\ i # Len(stack)
    BY Zenon DEF Binders, Top
  <2> QED BY <1>4, <1>5, <2>1, <2>2, Zenon DEF Binders
<1>7. \A i \in 1..Len(stack) : stack'[i].node = stack[i].node
  BY <1>2, <1>4, <1>5, Zenon DEF Top
<1>8. Segments(request)' = Segments(request) /\ nodes' = nodes /\ pname' = pname
  BY Zenon DEF Segments, trie
<1>9. FrameInv'
  <2>1. stack' # <<>> /\ stack'[1].node = Root
    <3>1. 1 \in 1..Len(stack) /\ Len(stack') # 0
      BY <1>1, <1>4
    <3>2. Len(<<>>) = 0
      BY EmptySeq
    <3> QED BY <1>1, <1>7, <3>1, <3>2, Zenon DEF FrameInv, StackIsPath
  <2>2. ASSUME NEW i \in 1..(Len(stack') - 1)
        PROVE  stack'[i + 1].node = Append(stack'[i].node,
                 IF i \in Binders' THEN Param ELSE Segments(request)[Len(stack'[i].node) + 1])
    <3>1. i \in 1..(Len(stack) - 1) /\ i \in 1..Len(stack) /\ i + 1 \in 1..Len(stack)
      BY <1>1, <1>4
    <3> QED BY <1>1, <1>6, <1>7, <3>1, Zenon DEF FrameInv, StackIsPath, Segment
  <2>3. StackIsPath'
    BY ONLY <1>8, <2>1, <2>2, Zenon DEF StackIsPath, Segment
  <2>4. ASSUME NEW i \in 1..Len(stack)
        PROVE  /\ Len(stack'[i].node) = i - 1
               /\ i <= Len(Segments(request)) + 1
               /\ i < Len(stack) => stack'[i].next # "literal"
    <3>1. Len(stack'[i].node) = i - 1 /\ i <= Len(Segments(request)) + 1
      BY <1>1, <1>7, Zenon DEF FrameInv
    <3>2. ASSUME i < Len(stack) PROVE stack'[i].next # "literal"
      <4>1. i \in 1..(Len(stack) - 1)
        BY <1>1, <3>2
      <4> QED BY <1>1, <1>4, <3>2, <4>1, Zenon DEF FrameInv
    <3> QED BY <3>1, <3>2
  <2>5. ASSUME NEW i \in Binders
        PROVE  Append(stack'[i].node, Param) \in nodes /\ i <= Len(Segments(request))
    BY <1>1, <1>6, Zenon DEF FrameInv
  <2> QED BY <1>4, <1>6, <1>8, <2>3, <2>4, <2>5, Zenon DEF FrameInv
<1>10. (SavedInv /\ ParamsInv)'
  BY <1>6, <1>8, SameBinders, Zenon
<1> QED BY <1>1, <1>4, <1>9, <1>10, StackKept, Zenon

(* A call for a child, by its literal or as the parameter.                 *)
LEMMA CallFrames ==
  ASSUME TrieInv, request # NoRequest, ~AtEnd, UNCHANGED <<request, nodes>>,
         NEW f \in Frames, f.node = Top.node, f.next \in {"param", "undo"},
         NEW child \in nodes,
         child = Append(Top.node, IF f.next = "undo" THEN Param ELSE Segment(Top.node)),
         Top.next # "undo",
         Call(f, child)
  PROVE  /\ FrameInv' /\ stack' \in Seq(Frames) /\ Len(stack') = Len(stack) + 1
         /\ Binders' = Binders \cup (IF f.next = "undo" THEN {Len(stack)} ELSE {})
         /\ \A i \in 1..(Len(stack) - 1) : stack'[i] = stack[i]
         /\ stack'[Len(stack)] = f
<1> DEFINE top == Len(stack)
<1>1. /\ FrameInv /\ stack \in Seq(Frames) /\ stack # <<>> /\ Len(stack) \in Nat \ {0}
      /\ Top \in Frames /\ Len(Top.node) = Len(stack) - 1 /\ Len(Segments(request)) \in Nat
      /\ Len(stack) <= Len(Segments(request)) + 1
  BY SearchFacts, SegmentsType DEF TrieInv, SearchInv
<1>2. /\ Frame(child) \in Frames /\ Frame(child).node = child /\ Frame(child).next = "literal"
  BY DEF Frame, Frames
<1>3. stack' = Append([stack EXCEPT ![Len(stack)] = f], Frame(child))
  BY Zenon DEF Call
<1>4. /\ stack' \in Seq(Frames) /\ Len(stack') = Len(stack) + 1
      /\ \A i \in 1..(Len(stack) - 1) : stack'[i] = stack[i]
      /\ stack'[Len(stack)] = f /\ stack'[Len(stack) + 1] = Frame(child)
  BY <1>1, <1>2, <1>3, Called
<1>5. /\ \A i \in 1..Len(stack') : i \in 1..(top - 1) \/ i = top \/ i = top + 1
      /\ 1..(top - 1) \subseteq 1..Len(stack') /\ top \in 1..Len(stack')
      /\ 1..(top - 1) \subseteq 1..top /\ top \in 1..top /\ top + 1 \notin 1..top
      /\ top \notin 1..(top - 1) /\ \A i \in 1..top : i \in 1..(top - 1) \/ i = top
  BY <1>1, <1>4
<1>6. Binders' = Binders \cup (IF f.next = "undo" THEN {top} ELSE {})
  <2>1. ASSUME NEW i
        PROVE  i \in Binders' <=> i \in Binders \/ (f.next = "undo" /\ i = top)
    <3>1. i \in Binders' <=> i \in 1..Len(stack') /\ stack'[i].next = "undo"
      BY Zenon DEF Binders
    <3>2. i \in Binders <=> i \in 1..top /\ stack[i].next = "undo"
      BY Zenon DEF Binders
    <3>3. top \notin Binders
      BY Zenon DEF Binders, Top
    <3> QED BY <1>2, <1>4, <1>5, <3>1, <3>2, <3>3, Zenon
  <2> QED BY <2>1, Zenon
<1>7. \A i \in 1..top : stack'[i].node = stack[i].node
  BY <1>4, <1>5, Zenon DEF Top
<1>8. Segments(request)' = Segments(request)
  BY Zenon DEF Segments
<1>9. top <= Len(Segments(request))
  <2>1. top - 1 # Len(Segments(request))
    BY <1>1, Zenon DEF AtEnd
  <2> QED BY <1>1, <2>1
<1>10. StackIsPath'
  <2>1. stack' # <<>> /\ stack'[1].node = Root
    <3>1. 1 \in 1..top /\ Len(stack') # 0
      BY <1>1, <1>4
    <3>2. Len(<<>>) = 0
      BY EmptySeq
    <3> QED BY <1>1, <1>7, <3>1, <3>2, Zenon DEF FrameInv, StackIsPath
  <2>2. ASSUME NEW i \in 1..(Len(stack') - 1)
        PROVE  stack'[i + 1].node = Append(stack'[i].node,
                 IF i \in Binders' THEN Param ELSE Segments(request)[Len(stack'[i].node) + 1])
    <3>1. CASE i = top
      <4>1. stack'[i + 1].node = child /\ stack'[i].node = Top.node
        BY <1>2, <1>4, <3>1, Zenon
      <4>2. top \in Binders' <=> f.next = "undo"
        <5>1. top \notin Binders
          BY Zenon DEF Binders, Top
        <5> QED BY <1>6, <5>1, Zenon
      <4> QED BY <3>1, <4>1, <4>2, Zenon DEF Segment
    <3>2. CASE i # top
      <4>1. i \in 1..(top - 1) /\ i \in 1..top /\ i + 1 \in 1..top
        BY <1>1, <1>4, <3>2
      <4>2. i \in Binders' <=> i \in Binders
        BY <1>6, <3>2, Zenon
      <4> QED BY <1>1, <1>7, <4>1, <4>2, Zenon DEF FrameInv, StackIsPath, Segment
    <3> QED BY <3>1, <3>2
  <2> QED BY <1>8, <2>1, <2>2, Zenon DEF StackIsPath, Segment
<1>11. ASSUME NEW i \in 1..Len(stack')
       PROVE  /\ Len(stack'[i].node) = i - 1
              /\ i <= Len(Segments(request)) + 1
              /\ i < Len(stack') => stack'[i].next # "literal"
  <2>1. CASE i \in 1..(top - 1)
    <3>1. i \in 1..top /\ i < top
      BY <1>1, <2>1
    <3> QED BY <1>1, <1>4, <1>7, <2>1, <3>1, Zenon DEF FrameInv
  <2>2. CASE i = top
    <3>1. stack'[i].node = Top.node /\ stack'[i].next # "literal"
      BY <1>4, <2>2
    <3> QED BY <1>1, <2>2, <3>1, Zenon
  <2>3. CASE i = top + 1
    <3>1. Len(child) = Len(Top.node) + 1
      <4>1. Top.node \in Seq(Step \cup Values)
        <5>1. Top.node \in nodes
          BY <1>1 DEF Frames
        <5>2. Top.node \in Seq(Step)
          BY <5>1, Zenon DEF TrieInv, NodeInv, Step
        <5> QED BY <5>2, SeqMonotonic
      <4> DEFINE e == IF f.next = "undo" THEN Param ELSE Segment(Top.node)
      <4>2. e \in Step \cup Values
        <5>1. Segment(Top.node) = Segments(request)[top]
          <6>1. Len(Top.node) + 1 = top
            BY <1>1
          <6> QED BY <6>1, Zenon DEF Segment
        <5>2. Segments(request)[top] \in Methods \cup Values
          <6>1. Segments(request) \in Seq(Methods \cup Values)
            BY SearchFacts, SegmentsType, Zenon
          <6>2. top \in 1..Len(Segments(request))
            BY <1>1, <1>9
          <6> QED BY <6>1, <6>2, ElementOfSeq, Zenon
        <5> QED BY <5>1, <5>2, Zenon DEF Step
      <4> HIDE DEF e
      <4>3. Len(Append(Top.node, e)) = Len(Top.node) + 1
        BY <4>1, <4>2, LastAdded
      <4> QED BY <4>3, Zenon DEF e
    <3>2. stack'[i].node = child
      BY <1>2, <1>4, <2>3, Zenon
    <3>3. Len(stack'[i].node) = i - 1 /\ i <= Len(Segments(request)) + 1 /\ ~(i < Len(stack'))
      BY <1>1, <1>4, <1>9, <2>3, <3>1, <3>2
    <3> QED BY <3>3
  <2> QED BY <1>5, <2>1, <2>2, <2>3, Zenon
<1>12. ASSUME NEW i \in Binders'
       PROVE  Append(stack'[i].node, Param) \in nodes /\ i <= Len(Segments(request))
  <2>1. CASE i \in Binders
    <3>1. i \in 1..top
      BY <2>1, Zenon DEF Binders
    <3> QED BY <1>1, <1>7, <2>1, <3>1, Zenon DEF FrameInv
  <2>2. CASE i \notin Binders
    <3>1. i = top /\ f.next = "undo"
      BY <1>6, <2>2, Zenon
    <3> QED BY <1>4, <1>9, <3>1, Zenon
  <2> QED BY <2>1, <2>2
<1>13. FrameInv'
  BY <1>8, <1>10, <1>11, <1>12, Zenon DEF FrameInv
<1> QED BY <1>4, <1>6, <1>13

LEMMA TryLiteralStep ==
  ASSUME TrieInv, TryLiteral
  PROVE  TrieInv'
<1> DEFINE child == Append(Top.node, Segment(Top.node))
           f == [Top EXCEPT !.next = "param"]
<1>1. /\ request # NoRequest /\ ~AtEnd /\ Top.next = "literal"
      /\ UNCHANGED <<request, trie, params, answer>>
  BY Zenon DEF TryLiteral
<1>2. CASE child \notin nodes
  <2>1. stack' = [stack EXCEPT ![Len(stack)].next = "param"]
    BY <1>2, Zenon DEF TryLiteral
  <2> QED BY <1>1, <2>1, NoLiteralStep, Zenon
<1>3. CASE child \in nodes
  <2>1. Call(f, child)
    BY <1>3, Zenon DEF TryLiteral
  <2>2. f \in Frames /\ f.node = Top.node /\ f.next = "param"
    <3>1. Top \in Frames
      BY <1>1, SearchFacts
    <3> QED BY <3>1 DEF Frames
  <2>3. nodes' = nodes /\ pname' = pname /\ request' = request /\ params' = params
    BY <1>1, Zenon DEF trie
  <2> HIDE DEF f
  <2>4. child = Append(Top.node, IF f.next = "undo" THEN Param ELSE Segment(Top.node))
        /\ Top.next # "undo" /\ f.next # "undo"
    BY <1>1, <2>2
  <2> HIDE DEF child
  <2>5. /\ FrameInv' /\ stack' \in Seq(Frames)
        /\ Binders' = Binders \cup (IF f.next = "undo" THEN {Len(stack)} ELSE {})
        /\ \A i \in 1..(Len(stack) - 1) : stack'[i] = stack[i]
    BY <1>1, <1>3, <2>1, <2>2, <2>3, <2>4, CallFrames, Zenon
  <2>6. Binders' = Binders
    BY <2>4, <2>5, Zenon
  <2>7. \A i \in Binders : i \in 1..(Len(stack) - 1)
    <3>1. \A i \in Binders : i \in 1..Len(stack) /\ i # Len(stack)
      BY <2>4, Zenon DEF Binders, Top
    <3> QED BY <1>1, <3>1, SearchFacts
  <2>8. (SavedInv /\ ParamsInv)'
    BY <1>1, <2>3, <2>5, <2>6, <2>7, SameBinders, Zenon
  <2>9. params' \in Maps
    BY <2>3, Zenon DEF TrieInv, TypeOK
  <2> QED BY <1>1, <2>5, <2>8, <2>9, StackKept, Zenon
<1> QED BY <1>2, <1>3

(* The frame that binds keeps what its name stood for.                     *)
LEMMA TryParamStep ==
  ASSUME TrieInv, TryParam
  PROVE  TrieInv'
<1> DEFINE child == Append(Top.node, Param)
<1>0. PICK top, name : top = Len(stack) /\ name = pname[child]
  BY Zenon
<1> DEFINE had   == name \in DOMAIN params
           saved == IF had THEN params[name] ELSE ""
           f     == [Top EXCEPT !.next = "undo", !.had = had, !.saved = saved]
<1>1. /\ request # NoRequest /\ ~AtEnd /\ Top.next = "param" /\ child \in nodes
      /\ UNCHANGED <<request, trie, answer>>
      /\ params' = Bind(name, Segment(Top.node))
      /\ Call(f, child)
  BY <1>0, Zenon DEF TryParam
<1>2. /\ SavedInv /\ ParamsInv /\ params \in Maps /\ Top \in Frames
      /\ top \in Nat \ {0} /\ Len(Top.node) = top - 1
  <2>1. Top \in Frames /\ top \in Nat \ {0} /\ Len(Top.node) = top - 1
    BY <1>0, <1>1, SearchFacts
  <2> QED BY <1>1, <2>1, Zenon DEF TrieInv, SearchInv, TypeOK
<1>3. \A i \in Binders : i \in 1..(top - 1) /\ i < top /\ i \in Nat
                         /\ Bound(i) \in Names /\ Segments(request)[i] \in Values
  <2>1. \A i \in Binders : i \in 1..top /\ i # top
    BY <1>0, <1>1, Zenon DEF Binders, Top
  <2> QED BY <1>1, <1>2, <2>1, SearchFacts
<1>4. DOMAIN params = {Bound(i) : i \in Binders}
      /\ \A n \in DOMAIN params : \E i \in Binders : /\ BoundLast(n, i, top + 1)
                                                     /\ params[n] = Segments(request)[i]
  BY <1>0, <1>2, Zenon DEF ParamsInv
<1>5. f \in Frames /\ f.node = Top.node /\ f.next = "undo" /\ f.had = had /\ f.saved = saved
  <2>1. saved \in Values \cup {""} /\ had \in BOOLEAN
    <3>1. ASSUME had PROVE saved \in Values
      <4>1. PICK i \in Binders : params[name] = Segments(request)[i]
        BY <1>4, <3>1, Zenon
      <4>2. saved = params[name]
        BY <3>1, Zenon
      <4> QED BY <1>3, <4>1, <4>2, Zenon
    <3>2. ~had => saved = ""
      BY Zenon
    <3>3. had \in BOOLEAN
      OBVIOUS
    <3> QED BY <3>1, <3>2, <3>3, Zenon
  <2> HIDE DEF saved, had
  <2> QED BY <1>2, <2>1 DEF Frames
<1>6. nodes' = nodes /\ pname' = pname /\ request' = request
  BY <1>1, Zenon DEF trie
<1>7. child = Append(Top.node, IF f.next = "undo" THEN Param ELSE Segment(Top.node))
      /\ Top.next # "undo"
  <2>1. f.next = "undo"
    BY <1>5
  <2>2. Top.next # "undo"
    BY <1>1
  <2> HIDE DEF f
  <2> QED BY <2>1, <2>2, Zenon
<1> HIDE DEF f
<1>8. /\ FrameInv' /\ stack' \in Seq(Frames) /\ Len(stack') = top + 1
      /\ Binders' = Binders \cup {top}
      /\ \A i \in 1..(top - 1) : stack'[i] = stack[i]
      /\ stack'[top] = f
  <2> HIDE DEF child
  <2>1. /\ FrameInv' /\ stack' \in Seq(Frames) /\ Len(stack') = Len(stack) + 1
        /\ Binders' = Binders \cup (IF f.next = "undo" THEN {Len(stack)} ELSE {})
        /\ \A i \in 1..(Len(stack) - 1) : stack'[i] = stack[i]
        /\ stack'[Len(stack)] = f
    BY <1>1, <1>5, <1>6, <1>7, CallFrames, Zenon
  <2> QED BY <1>0, <1>5, <2>1, Zenon
<1>9. Segments(request)' = Segments(request) /\ Segment(Top.node) = Segments(request)[top]
  <2>1. Len(Top.node) + 1 = top
    BY <1>2
  <2> QED BY <1>6, <2>1, Zenon DEF Segment, Segments
<1>10. /\ \A i \in Binders : stack'[i] = stack[i] /\ Bound(i)' = Bound(i)
       /\ Bound(top)' = name /\ top \notin Binders
  <2>1. \A i \in Binders : stack'[i] = stack[i] /\ Bound(i)' = Bound(i)
    BY <1>3, <1>6, <1>8, Zenon DEF Bound
  <2>2. Bound(top)' = name
    BY <1>0, <1>5, <1>6, <1>8, Zenon DEF Bound
  <2> QED BY <2>1, <2>2, <1>3
<1>11. name \in Names /\ Segments(request)[top] \in Values
  <2>1. Top.node \in nodes
    BY <1>2 DEF Frames
  <2>2. top <= Len(Segments(request)) /\ request \in Requests
    <3>1. top \in Binders'
      BY <1>8, Zenon
    <3>2. top <= Len(Segments(request))'
      BY <1>8, <3>1, Zenon DEF FrameInv
    <3>3. request \in Requests
      BY <1>1, SearchFacts
    <3> QED BY <1>9, <3>2, <3>3, Zenon
  <2>3. top \in Nat
    BY <1>2
  <2>4. Append(Top.node, Param) \in nodes /\ name = pname[Append(Top.node, Param)]
    BY <1>0, <1>1, Zenon
  <2> QED BY <1>2, <2>1, <2>2, <2>3, <2>4, BinderFacts, Zenon DEF TrieInv
<1> HIDE DEF child
<1>12. params' = [n \in DOMAIN params \cup {name} |->
                    IF n = name THEN Segments(request)[top] ELSE params[n]]
  BY <1>1, <1>9, Zenon DEF Bind
<1>13. /\ DOMAIN params' = DOMAIN params \cup {name} /\ params'[name] = Segments(request)[top]
       /\ \A n \in DOMAIN params : n # name => params'[n] = params[n]
  BY <1>12, Zenon
<1>14. params' \in Maps
  <2>1. \A n \in DOMAIN params : n \in Names /\ params[n] \in Values
    BY <1>3, <1>4, Zenon
  <2>2. \A n \in DOMAIN params' : n \in Names /\ params'[n] \in Values
    BY <1>11, <1>13, <2>1, Zenon
  <2>3. params' = [n \in DOMAIN params' |-> params'[n]]
    BY <1>12, Zenon
  <2> QED BY <2>2, <2>3, IsMap, Zenon
<1>15. /\ ~(top < top) /\ top < top + 1 /\ top <= top /\ top < top + 1 + 1
       /\ Len(stack') + 1 = top + 1 + 1
       /\ \A i \in Binders : i < top + 1 /\ i < top + 1 + 1 /\ i <= top /\ ~(top < i) /\ ~(top <= i)
  BY <1>2, <1>3, <1>8
<1>16. ASSUME NEW n, NEW i \in Binders, NEW k \in Binders
       PROVE  BoundLast(n, i, k)' <=> BoundLast(n, i, k)
  BY <1>8, <1>10, <1>15, Zenon DEF BoundLast
<1>17. ASSUME NEW n, NEW i \in Binders
       PROVE  BoundLast(n, i, top)' <=> BoundLast(n, i, top + 1)
  BY <1>3, <1>8, <1>10, <1>15, Zenon DEF BoundLast
<1>18. SavedInv'
  <2>1. ASSUME NEW k \in Binders
        PROVE  /\ stack'[k].had <=> \E i \in Binders' : i < k /\ Bound(i)' = Bound(k)'
               /\ stack'[k].had =>
                    \E i \in Binders' : /\ BoundLast(Bound(k), i, k)'
                                        /\ stack'[k].saved = Segments(request)'[i]
    <3>1. /\ stack[k].had <=> \E i \in Binders : i < k /\ Bound(i) = Bound(k)
          /\ stack[k].had =>
               \E i \in Binders : BoundLast(Bound(k), i, k) /\ stack[k].saved = Segments(request)[i]
      BY <1>2, Zenon DEF SavedInv
    <3>2. stack'[k] = stack[k] /\ Bound(k)' = Bound(k)
      BY <1>10, Zenon
    <3>3. stack'[k].had <=> \E i \in Binders' : i < k /\ Bound(i)' = Bound(k)'
      BY <1>8, <1>10, <1>15, <3>1, <3>2, Zenon
    <3>4. ASSUME NEW i \in Binders
          PROVE  BoundLast(Bound(k), i, k)' <=> BoundLast(Bound(k), i, k)
      BY <1>8, <1>10, <1>15, <3>2, Zenon DEF BoundLast
    <3>5. stack'[k].had =>
            \E i \in Binders' : /\ BoundLast(Bound(k), i, k)'
                                /\ stack'[k].saved = Segments(request)'[i]
      BY <1>8, <1>9, <3>1, <3>2, <3>4, Zenon
    <3> QED BY <3>3, <3>5
  <2>2. /\ stack'[top].had <=> \E i \in Binders' : i < top /\ Bound(i)' = Bound(top)'
        /\ stack'[top].had =>
             \E i \in Binders' : /\ BoundLast(Bound(top), i, top)'
                                 /\ stack'[top].saved = Segments(request)'[i]
    <3>1. stack'[top].had <=> name \in DOMAIN params
      BY <1>5, <1>8, Zenon
    <3>2. name \in DOMAIN params <=> \E i \in Binders : Bound(i) = name
      BY <1>4, Zenon
    <3>3. stack'[top].had <=> \E i \in Binders' : i < top /\ Bound(i)' = Bound(top)'
      BY <1>3, <1>8, <1>10, <1>15, <3>1, <3>2, Zenon
    <3>4. ASSUME stack'[top].had
          PROVE  \E i \in Binders' : /\ BoundLast(Bound(top), i, top)'
                                     /\ stack'[top].saved = Segments(request)'[i]
      <4>1. PICK i \in Binders : BoundLast(name, i, top + 1) /\ params[name] = Segments(request)[i]
        BY <1>4, <3>1, <3>4, Zenon
      <4>2. stack'[top].saved = params[name]
        BY <1>5, <1>8, <3>1, <3>4, Zenon
      <4>3. BoundLast(Bound(top), i, top)'
        BY <1>3, <1>8, <1>10, <1>15, <4>1, Zenon DEF BoundLast
      <4> QED BY <1>8, <1>9, <4>1, <4>2, <4>3, Zenon
    <3> QED BY <3>3, <3>4
  <2> QED BY <1>8, <2>1, <2>2, Zenon DEF SavedInv
<1>19. ParamsInv'
  <2>1. DOMAIN params' = {Bound(i)' : i \in Binders'}
    BY <1>4, <1>8, <1>10, <1>13, Zenon
  <2>2. ASSUME NEW n \in DOMAIN params'
        PROVE  \E i \in Binders' : /\ BoundLast(n, i, Len(stack) + 1)'
                                   /\ params'[n] = Segments(request)'[i]
    <3>1. CASE n = name
      <4>1. BoundLast(n, top, Len(stack) + 1)'
        BY <1>8, <1>10, <1>15, <3>1, Zenon DEF BoundLast
      <4> QED BY <1>8, <1>9, <1>13, <3>1, <4>1, Zenon
    <3>2. CASE n # name
      <4>1. n \in DOMAIN params /\ params'[n] = params[n]
        BY <1>13, <3>2, Zenon
      <4>2. PICK i \in Binders : BoundLast(n, i, top + 1) /\ params[n] = Segments(request)[i]
        BY <1>4, <4>1, Zenon
      <4>3. BoundLast(n, i, Len(stack) + 1)'
        BY <1>8, <1>10, <1>15, <3>2, <4>2, Zenon DEF BoundLast
      <4> QED BY <1>8, <1>9, <4>1, <4>2, <4>3, Zenon
    <3> QED BY <3>1, <3>2
  <2> QED BY <2>1, <2>2, Zenon DEF ParamsInv
<1> QED BY <1>1, <1>8, <1>14, <1>18, <1>19, StackKept, Zenon

-----------------------------------------------------------------------------
(* A lookup begins and ends.                                               *)

LEMMA NoParamsIsMap == NoParams \in Maps
<1>1. NoParams = [n \in {} |-> ""]
  BY DEF NoParams
<1>2. [n \in {} |-> ""] \in [{} -> Values]
  OBVIOUS
<1> QED BY <1>1, <1>2 DEF Maps

LEMMA HitStep ==
  ASSUME TrieInv, Hit
  PROVE  TrieInv'
<1>1. /\ request # NoRequest /\ request' = NoRequest /\ stack' = <<>> /\ params' = NoParams
      /\ answer' = [handler |-> handler[Top.node], params |-> params] /\ UNCHANGED trie
  BY Zenon DEF Hit
<1>2. handler[Top.node] \in 0..Len(table)
  <2>1. Top.node \in nodes
    BY <1>1, SearchFacts DEF Frames
  <2>2. handler \in [nodes -> 0..Len(table)]
    BY DEF TrieInv, TypeOK
  <2> QED BY <2>1, <2>2, Zenon
<1>3. answer' \in [handler : 0..Len(table), params : Maps]
  <2> DEFINE h == handler[Top.node]
  <2>1. params \in Maps
    BY DEF TrieInv, TypeOK
  <2> HIDE DEF h
  <2>2. h \in 0..Len(table) /\ answer' = [handler |-> h, params |-> params]
    BY <1>1, <1>2, Zenon DEF h
  <2> QED BY ONLY <2>1, <2>2, Zenon
<1>4. stack' \in Seq(Frames) /\ params' \in Maps /\ request' \in Requests \cup {NoRequest}
  <2>1. <<>> \in Seq(Frames)
    BY EmptySeq
  <2> QED BY <1>1, <2>1, NoParamsIsMap, Zenon
<1>5. TypeOK' /\ NodeInv'
  BY <1>1, <1>3, <1>4, TreeKept, Zenon DEF TrieInv
<1> QED BY <1>1, <1>5, Zenon DEF TrieInv, SearchInv

LEMMA LookupStep ==
  ASSUME TrieInv, NEW r \in Requests, Lookup(r)
  PROVE  TrieInv'
<1>1. /\ request' = r /\ stack' = <<Frame(Root)>> /\ params' = NoParams /\ answer' = Miss
      /\ UNCHANGED trie
  BY Zenon DEF Lookup
<1>2. Frame(Root) \in Frames /\ Frame(Root).node = Root /\ Frame(Root).next = "literal"
  <2>1. Root \in nodes
    BY DEF TrieInv, TypeOK
  <2> HIDE DEF Root
  <2> QED BY <2>1 DEF Frame, Frames
<1> DEFINE f == Frame(Root)
<1> HIDE DEF f
<1>3. f \in Frames /\ f.node = Root /\ f.next = "literal" /\ stack' = <<f>>
  BY <1>1, <1>2, Zenon DEF f
<1>4. stack' \in Seq(Frames) /\ Len(stack') = 1 /\ stack'[1] = f /\ stack' # <<>>
  BY <1>3
<1>5. TypeOK' /\ NodeInv'
  <2>1. Miss \in [handler : 0..Len(table), params : Maps]
    <3>1. 0 \in 0..Len(table)
      <4>1. table \in Seq([methods : SUBSET Methods, pattern : Patterns])
        BY DEF TrieInv, TypeOK
      <4>2. Len(table) \in Nat
        BY <4>1, LenProperties
      <4> QED BY <4>2
    <3> QED BY <3>1, NoParamsIsMap, Zenon DEF Miss
  <2> QED BY <1>1, <1>4, <2>1, NoParamsIsMap, TreeKept, Zenon DEF TrieInv
<1>6. Binders' = {}
  <2>1. \A i \in 1..Len(stack') : stack'[i].next # "undo"
    <3>1. \A i \in 1..Len(stack') : i = 1
      BY <1>4
    <3> QED BY <1>3, <1>4, <3>1
  <2> QED BY <2>1, Zenon DEF Binders
<1>7. FrameInv'
  <2>1. StackIsPath'
    <3>1. 1..(Len(stack') - 1) = {}
      BY <1>4
    <3> QED BY <1>3, <1>4, <3>1, Zenon DEF StackIsPath
  <2>2. ASSUME NEW i \in 1..Len(stack')
        PROVE  /\ Len(stack'[i].node) = i - 1
               /\ i <= Len(Segments(request)') + 1
               /\ i < Len(stack') => stack'[i].next # "literal"
    <3>1. i = 1 /\ Len(Root) = 0
      BY <1>4 DEF Root
    <3>2. stack'[i].node = Root
      BY <1>3, <1>4, <3>1, Zenon
    <3>3. Len(Segments(request)') \in Nat
      <4>1. Segments(request)' = Segments(r)
        BY <1>1, Zenon DEF Segments
      <4> QED BY <4>1, SegmentsType
    <3>4. /\ 0 = i - 1 /\ i <= Len(Segments(request)') + 1 /\ ~(i < Len(stack'))
      BY <1>4, <3>1, <3>3
    <3> QED BY <3>1, <3>2, <3>4, Zenon
  <2> QED BY <1>6, <2>1, <2>2, Zenon DEF FrameInv
<1>8. (SavedInv /\ ParamsInv)'
  <2>1. SavedInv'
    BY <1>6, Zenon DEF SavedInv
  <2>2. DOMAIN params' = {}
    BY <1>1 DEF NoParams
  <2>3. {Bound(i)' : i \in Binders'} = {}
    BY <1>6, Zenon
  <2> QED BY <2>1, <2>2, <2>3, Zenon DEF ParamsInv
<1>9. request' # NoRequest
  <2>1. r.method \in Methods
    BY InputAssumption
  <2>2. NoRequest.method \notin Methods
    BY DEF NoRequest, Methods
  <2> QED BY <1>1, <2>1, <2>2, Zenon
<1> QED BY <1>5, <1>7, <1>8, <1>9, Zenon DEF TrieInv, SearchInv

-----------------------------------------------------------------------------
(* The invariant and the theorems.                                         *)

LEMMA TrieInvInit ==
  ASSUME Init
  PROVE  TrieInv
<1>1. /\ nodes = {Root} /\ handler = [n \in nodes |-> 0] /\ leaf = {Root} /\ pname = <<>>
      /\ table = <<>> /\ request = NoRequest /\ stack = <<>> /\ params = NoParams /\ answer = Miss
  BY DEF Init
<1>2. /\ Len(table) = 0 /\ 0 \in 0..Len(table)
      /\ table \in Seq([methods : SUBSET Methods, pattern : Patterns])
      /\ stack \in Seq(Frames)
  BY <1>1, EmptySeq
<1>3. {n \in nodes : IsParam(n)} = {}
  BY <1>1 DEF IsParam
<1>4. pname \in [{n \in nodes : IsParam(n)} -> Names]
  <2>1. pname = [n \in {} |-> ""]
    BY <1>1
  <2> QED BY <1>3, <2>1
<1>5. TypeOK
  BY <1>1, <1>2, <1>4, NoParamsIsMap, Zenon DEF TypeOK, Miss
<1>6. NodeInv
  <2>1. Root \in Seq(Methods \cup Literals \cup {Param})
    BY EmptySeq DEF Root
  <2> QED BY <1>1, <2>1, Zenon DEF NodeInv
<1> QED BY <1>1, <1>5, <1>6, Zenon DEF TrieInv, SearchInv

LEMMA TrieInvStep ==
  ASSUME TrieInv, [Next]_vars
  PROVE  TrieInv'
<1>1. ASSUME NEW verb \in Verbs, NEW pattern \in Patterns, Register(verb, pattern)
      PROVE  TrieInv'
  BY <1>1, RegisterStep, Zenon
<1>2. ASSUME NEW r \in Requests, Lookup(r)
      PROVE  TrieInv'
  BY <1>2, LookupStep, Zenon
<1>3. CASE Hit
  BY <1>3, HitStep
<1>4. CASE NoHandler
  BY <1>4, NoHandlerStep
<1>5. CASE TryLiteral
  BY <1>5, TryLiteralStep
<1>6. CASE TryParam
  BY <1>6, TryParamStep
<1>7. CASE NoParamChild
  BY <1>7, NoParamChildStep
<1>8. CASE Undo
  BY <1>8, UndoStep
<1>9. CASE UNCHANGED vars
  <2>1. UNCHANGED <<trie, nodes, handler, leaf, pname, table, request, stack, params, answer>>
    BY <1>9, Zenon DEF vars, trie
  <2>2. TypeOK'
    BY <2>1, Zenon DEF TrieInv, TypeOK, Frames
  <2>3. NodeInv'
    BY <2>1, Zenon DEF TrieInv, NodeInv
  <2>4. CASE request = NoRequest
    BY <2>1, <2>2, <2>3, <2>4, Zenon DEF TrieInv, SearchInv
  <2>5. CASE request # NoRequest
    <3>1. stack' \in Seq(Frames) /\ params' \in Maps
      BY <2>1, Zenon DEF TrieInv, TypeOK
    <3>2. Binders' = Binders /\ \A i \in Binders : stack'[i] = stack[i]
      BY <2>1, Zenon DEF Binders
    <3>3. (SavedInv /\ ParamsInv)'
      BY <2>1, <2>5, <3>2, SameBinders, Zenon
    <3>4. FrameInv'
      BY <2>1, <2>5, Zenon DEF TrieInv, SearchInv, FrameInv, StackIsPath, Binders, Segment, Segments
    <3> QED BY <2>1, <2>5, <3>1, <3>3, <3>4, StackKept, Zenon
  <2> QED BY <2>4, <2>5
<1> QED BY <1>1, <1>2, <1>3, <1>4, <1>5, <1>6, <1>7, <1>8, <1>9, Zenon DEF Next, Search

(* Whatever routes are registered and whatever is looked up: every         *)
(* registration leaves its node in a tree closed under parents, with one   *)
(* name per parameter node (trie.cpp, insertChild), and every frame of     *)
(* findFrom stands on a node of it.                                        *)
THEOREM TypeCorrect == Spec => []TypeOK
<1>1. TrieInv => TypeOK
  BY DEF TrieInv
<1> QED BY <1>1, TrieInvInit, TrieInvStep, PTL DEF Spec

LEMMA LastIsMax ==
  ASSUME TrieInv, request # NoRequest, NEW name, NEW i \in Binders,
         BoundLast(name, i, Len(stack) + 1)
  PROVE  Max({j \in Binders : Bound(j) = name}) = i
<1> DEFINE S == {j \in Binders : Bound(j) = name}
<1>1. i \in S
  BY Zenon DEF BoundLast
<1>2. \A j \in S : j <= i /\ j \in Nat
  <2>1. \A j \in Binders : j < Len(stack) + 1 /\ j \in Nat
    BY SearchFacts
  <2> QED BY <2>1, Zenon DEF BoundLast
<1> HIDE DEF S
<1>3. i \in S /\ (\A y \in S : i >= y)
  BY <1>1, <1>2
<1>4. Max(S) \in S /\ (\A y \in S : Max(S) >= y)
  BY <1>3, Zenon DEF Max
<1>5. Max(S) = i
  BY <1>1, <1>2, <1>4
<1> QED BY <1>5, Zenon DEF S

(* At every moment of a lookup the shared map holds exactly the parameters *)
(* of the path to the node reached: a branch given up leaves no binding    *)
(* behind and loses none it replaced (trie.cpp:76-94), for any nesting of  *)
(* parameters and any repetition of their names.                           *)
THEOREM PathBindings == Spec => []BindingsOfPath
<1>1. ASSUME TrieInv PROVE BindingsOfPath
  <2> SUFFICES ASSUME request # NoRequest
               PROVE  /\ StackIsPath
                      /\ params = [n \in {Bound(i) : i \in Binders} |->
                                     Segments(request)[Max({i \in Binders : Bound(i) = n})]]
    BY Zenon DEF BindingsOfPath
  <2>1. StackIsPath /\ ParamsInv /\ params \in Maps
    BY <1>1, Zenon DEF TrieInv, SearchInv, FrameInv, TypeOK
  <2>2. \A n \in DOMAIN params :
          params[n] = Segments(request)[Max({i \in Binders : Bound(i) = n})]
    BY <1>1, <2>1, LastIsMax, Zenon DEF ParamsInv
  <2>3. params = [n \in DOMAIN params |-> params[n]]
    BY <2>1, Zenon DEF Maps
  <2>4. DOMAIN params = {Bound(i) : i \in Binders}
    BY <2>1, Zenon DEF ParamsInv
  <2> QED BY <2>1, <2>2, <2>3, <2>4, Zenon
<1> QED BY <1>1, TrieInvInit, TrieInvStep, PTL DEF Spec

-----------------------------------------------------------------------------
(* The trie is that of the registrations.                                  *)

LEMMA InPathTo ==
  ASSUME NEW s \in Seq(Step), NEW n \in Seq(Step)
  PROVE  n \in PathTo(s) <=> Below(s, n)
<1>0. Len(s) \in Nat /\ Len(n) \in Nat
  BY LenProperties
<1>1. ASSUME n \in PathTo(s) PROVE Below(s, n)
  <2>1. Len(n) \in 0..Len(s) /\ \A k \in 1..Len(n) : n[k] = s[k]
    BY <1>1, PathFacts
  <2>2. Len(n) <= Len(s)
    BY <1>0, <2>1
  <2> QED BY <2>1, <2>2, Zenon DEF Below
<1>2. ASSUME Below(s, n) PROVE n \in PathTo(s)
  <2>1. Len(n) \in 0..Len(s) /\ \A k \in 1..Len(n) : s[k] = n[k]
    BY <1>0, <1>2 DEF Below
  <2>2. \A k \in 1..Len(n) : s[k] \in Step
    BY <1>0, <2>1, ElementOfSeq
  <2>3. /\ SubSeq(s, 1, Len(n)) \in Seq(Step) /\ Len(SubSeq(s, 1, Len(n))) = Len(n)
        /\ \A k \in 1..Len(n) : SubSeq(s, 1, Len(n))[k] = s[k]
    BY <1>0, <2>2, SubSeqProperties
  <2>4. SubSeq(s, 1, Len(n)) = n
    <3> DEFINE t == SubSeq(s, 1, Len(n))
    <3>1. t \in Seq(Step) /\ Len(t) = Len(n) /\ \A k \in 1..Len(t) : t[k] = n[k]
      BY <2>1, <2>3
    <3> HIDE DEF t
    <3>2. t = n
      BY <3>1, SeqEqual
    <3> QED BY <3>2 DEF t
  <2> QED BY <2>1, <2>4, Zenon DEF PathTo
<1> QED BY <1>1, <1>2

(* A registration's entry.                                                 *)
LEMMA EntryFacts ==
  ASSUME TypeOK, NEW i \in 1..Len(table)
  PROVE  /\ i \in Nat \ {0} /\ i <= Len(table) /\ Len(table) \in Nat
         /\ table[i].methods \subseteq Methods
         /\ table[i].pattern \in Patterns
         /\ table[i].pattern \in Seq(Literals \cup Names)
         /\ Len(table[i].pattern) \in Nat
<1> DEFINE Entry == [methods : SUBSET Methods, pattern : Patterns]
<1>1. table \in Seq(Entry)
  BY DEF TypeOK
<1>2. table[i].methods \in SUBSET Methods /\ table[i].pattern \in Patterns
  <2> HIDE DEF Entry
  <2>1. table[i] \in Entry
    BY <1>1, ElementOfSeq
  <2> QED BY <2>1 DEF Entry
<1>3. table[i].pattern \in Seq(Literals \cup Names)
  BY <1>2, InputAssumption
<1>4. Len(table) \in Nat
  BY <1>1, LenProperties
<1>5. Len(table[i].pattern) \in Nat
  BY <1>3, LenProperties
<1> QED BY <1>2, <1>3, <1>4, <1>5

LEMMA TreeInit ==
  ASSUME Init
  PROVE  ImplInv
<1>1. /\ nodes = {Root} /\ handler = [n \in nodes |-> 0] /\ table = <<>> /\ request = NoRequest
  BY DEF Init
<1>2. 1..Len(table) = {} /\ ~IsParam(Root) /\ handler[Root] = 0
  BY <1>1 DEF IsParam
<1> QED BY <1>1, <1>2, Zenon DEF ImplInv, TreeOfTable

LEMMA TreeInserted ==
  ASSUME TypeOK, NodeInv, TreeOfTable, NEW methods \in SUBSET Methods,
         NEW pattern \in Patterns, Insert(methods, pattern)
  PROVE  TreeOfTable'
<1> DEFINE Ends == {NodeOf(m, pattern) : m \in methods}
<1>0. PICK N : N = Len(table)
  OBVIOUS
<1>1. /\ table' = Append(table, [methods |-> methods, pattern |-> pattern])
      /\ nodes' = nodes \cup UNION {PathTo(n) : n \in Ends}
      /\ handler' = [n \in nodes' |-> IF n \in Ends THEN Len(table')
                                      ELSE IF n \in nodes THEN handler[n] ELSE 0]
      /\ pname' = [n \in {c \in nodes' : IsParam(c)} |->
                     IF n \in nodes THEN pname[n] ELSE pattern[Len(n) - 1]]
  BY Zenon DEF Insert
<1>2. /\ N \in Nat /\ N = Len(table) /\ Len(table') = N + 1
      /\ \A i \in 1..N : table'[i] = table[i]
      /\ table'[N + 1].methods = methods /\ table'[N + 1].pattern = pattern
  <2> DEFINE Entry == [methods : SUBSET Methods, pattern : Patterns]
             entry == [methods |-> methods, pattern |-> pattern]
  <2>1. entry \in Entry /\ table \in Seq(Entry) /\ entry.methods = methods /\ entry.pattern = pattern
    BY DEF TypeOK
  <2>2. table' = Append(table, entry)
    BY <1>1
  <2> HIDE DEF Entry, entry
  <2>3. /\ Len(Append(table, entry)) = Len(table) + 1 /\ Len(table) \in Nat
        /\ Append(table, entry)[Len(table) + 1] = entry
        /\ \A i \in 1..Len(table) : Append(table, entry)[i] = table[i]
    BY ONLY <2>1, LastAdded
  <2> QED BY ONLY <1>0, <2>1, <2>2, <2>3, Zenon
<1>3. ASSUME NEW i \in 1..N, NEW n
      PROVE  (Through(i, n)' <=> Through(i, n)) /\ (EndsAt(i, n)' <=> EndsAt(i, n))
  <2>1. table'[i] = table[i]
    BY <1>2, Zenon
  <2> QED BY <2>1, Zenon DEF Through, EndsAt
<1>4. \A n : /\ Through(N + 1, n)' <=> \E e \in Ends : n \in PathTo(e)
             /\ EndsAt(N + 1, n)' <=> n \in Ends
  <2> SUFFICES ASSUME NEW n
               PROVE  /\ Through(N + 1, n)' <=> \E e \in Ends : n \in PathTo(e)
                      /\ EndsAt(N + 1, n)' <=> n \in Ends
    OBVIOUS
  <2>1. Through(N + 1, n)' <=> \E m \in methods : n \in PathTo(NodeOf(m, pattern))
    BY <1>2, Zenon DEF Through
  <2>2. EndsAt(N + 1, n)' <=> \E m \in methods : n = NodeOf(m, pattern)
    BY <1>2, Zenon DEF EndsAt
  <2> QED BY <2>1, <2>2, Zenon
<1>5. \A i \in 1..Len(table') : i \in 1..N \/ i = N + 1
  BY <1>2
<1>6. N + 1 \in 1..Len(table') /\ 1..N \subseteq 1..Len(table')
      /\ \A i \in 1..N : i <= N + 1 /\ i # N + 1
  BY <1>2
<1>7. ASSUME NEW i \in 1..N, NEW n
      PROVE  (Through(i, n) => n \in nodes) /\ (EndsAt(i, n) => n \in nodes)
  <2>1. ASSUME NEW m \in table[i].methods PROVE NodeOf(m, table[i].pattern) \in nodes
    <3>1. m \in Methods /\ table[i].pattern \in Seq(Literals \cup Names)
      BY <1>0, EntryFacts
    <3>2. NodeOf(m, table[i].pattern) \in Seq(Step)
      BY <3>1, NodeOfPattern
    <3>3. NodeOf(m, table[i].pattern) \in PathTo(NodeOf(m, table[i].pattern))
      BY <3>2, OwnPrefix, Zenon
    <3> QED BY <1>0, <3>3, Zenon DEF TreeOfTable
  <2>2. ASSUME NEW m \in table[i].methods, n \in PathTo(NodeOf(m, table[i].pattern))
        PROVE  n \in nodes
    BY <1>0, <2>2, Zenon DEF TreeOfTable
  <2> QED BY <2>1, <2>2, Zenon DEF Through, EndsAt
<1>8. ASSUME NEW n \in nodes' \ {Root}
      PROVE  \E i \in 1..Len(table') : Through(i, n)'
  <2>1. CASE n \in nodes
    <3>1. PICK i \in 1..N : Through(i, n)
      BY <1>0, <2>1, Zenon DEF TreeOfTable
    <3> QED BY <1>3, <1>6, <3>1, Zenon
  <2>2. CASE n \notin nodes
    <3>1. \E e \in Ends : n \in PathTo(e)
      BY <1>1, <2>2, Zenon
    <3> QED BY <1>4, <1>6, <3>1, Zenon
  <2> QED BY <2>1, <2>2
<1>9. ASSUME NEW i \in 1..Len(table'), NEW m \in table'[i].methods
      PROVE  PathTo(NodeOf(m, table'[i].pattern)) \subseteq nodes'
  <2>1. CASE i \in 1..N
    <3>1. table'[i] = table[i]
      BY <1>2, <2>1, Zenon
    <3> QED BY <1>0, <1>1, <1>9, <2>1, <3>1, Zenon DEF TreeOfTable
  <2>2. CASE i = N + 1
    <3>1. m \in methods /\ table'[i].pattern = pattern
      BY <1>2, <1>9, <2>2, Zenon
    <3>2. NodeOf(m, pattern) \in Ends
      BY <3>1, Zenon
    <3> QED BY <1>1, <3>1, <3>2, Zenon
  <2> QED BY <1>5, <2>1, <2>2, Zenon
<1>10. ASSUME NEW n \in nodes'
       PROVE  /\ handler'[n] # 0 => EndsAt(handler[n], n)'
              /\ \A i \in 1..Len(table') : EndsAt(i, n)' => i <= handler'[n]
  <2>1. CASE n \in Ends
    <3>1. handler'[n] = N + 1
      BY <1>1, <1>2, <2>1, Zenon
    <3>2. EndsAt(handler[n], n)'
      <4>1. EndsAt(N + 1, n)'
        BY <1>4, <2>1, Zenon
      <4> QED BY <1>2, <2>1, <3>1, Zenon DEF EndsAt
    <3>3. \A i \in 1..Len(table') : i <= N + 1
      BY <1>2
    <3> QED BY <3>1, <3>2, <3>3, Zenon
  <2>2. CASE n \notin Ends /\ n \in nodes
    <3>1. handler'[n] = handler[n]
      BY <1>1, <2>2, Zenon
    <3>2. handler[n] \in 0..N
      BY <1>0, <2>2, Zenon DEF TypeOK
    <3>3. ASSUME handler[n] # 0 PROVE EndsAt(handler[n], n)'
      <4>1. EndsAt(handler[n], n)
        BY <2>2, <3>3, Zenon DEF TreeOfTable
      <4>2. handler[n] \in 1..N
        BY <1>2, <3>2, <3>3
      <4>3. table'[handler'[n]] = table[handler[n]]
        <5>1. table'[handler[n]] = table[handler[n]]
          BY <1>2, <4>2, Zenon
        <5> QED BY <3>1, <5>1
      <4> QED BY <4>1, <4>3, Zenon DEF EndsAt
    <3>4. ASSUME NEW i \in 1..Len(table'), EndsAt(i, n)' PROVE i <= handler[n]
      <4>1. i # N + 1
        BY <1>4, <2>2, <3>4, Zenon
      <4>2. i \in 1..N
        BY <1>5, <4>1, Zenon
      <4> QED BY <1>0, <1>3, <2>2, <3>4, <4>2, Zenon DEF TreeOfTable
    <3> QED BY <3>1, <3>3, <3>4, Zenon
  <2>3. CASE n \notin Ends /\ n \notin nodes
    <3>1. handler'[n] = 0
      BY <1>1, <2>3, Zenon
    <3>2. ASSUME NEW i \in 1..Len(table'), EndsAt(i, n)' PROVE FALSE
      <4>1. i # N + 1
        BY <1>4, <2>3, <3>2, Zenon
      <4>2. i \in 1..N
        BY <1>5, <4>1, Zenon
      <4> QED BY <1>3, <1>7, <2>3, <3>2, <4>2, Zenon
    <3> QED BY <3>1, <3>2, Zenon
  <2> QED BY <2>1, <2>2, <2>3
<1>11. ASSUME NEW n \in nodes', IsParam(n)
       PROVE  \E i \in 1..Len(table') :
                /\ Through(i, n)' /\ pname'[n] = table'[i].pattern[Len(n) - 1]
                /\ \A j \in 1..Len(table') : Through(j, n)' => i <= j
  <2>1. CASE n \in nodes
    <3>1. PICK i \in 1..N : /\ Through(i, n) /\ pname[n] = table[i].pattern[Len(n) - 1]
                            /\ \A j \in 1..N : Through(j, n) => i <= j
      BY <1>0, <1>11, <2>1, Zenon DEF TreeOfTable
    <3>2. pname'[n] = pname[n] /\ table'[i] = table[i]
      BY <1>1, <1>2, <1>11, <2>1, Zenon
    <3>3. Through(i, n)' /\ i \in 1..Len(table')
      BY <1>3, <1>6, <3>1, Zenon
    <3>4. \A j \in 1..Len(table') : Through(j, n)' => i <= j
      BY <1>3, <1>5, <1>6, <3>1, Zenon
    <3>5. pname'[n] = table'[i].pattern[Len(n) - 1]
      BY <3>1, <3>2, Zenon
    <3> QED BY <3>3, <3>4, <3>5, Zenon
  <2>2. CASE n \notin nodes
    <3>1. pname'[n] = pattern[Len(n) - 1]
      BY <1>1, <1>11, <2>2, Zenon
    <3>2. Through(N + 1, n)'
      <4>1. \E e \in Ends : n \in PathTo(e)
        BY <1>1, <2>2, Zenon
      <4> QED BY <1>4, <4>1, Zenon
    <3>3. ASSUME NEW j \in 1..Len(table'), Through(j, n)' PROVE N + 1 <= j
      <4>1. j \notin 1..N
        BY <1>3, <1>7, <2>2, <3>3, Zenon
      <4>2. j = N + 1
        BY <1>5, <4>1, Zenon
      <4> QED BY <1>2, <4>2
    <3> QED BY <1>2, <1>6, <3>1, <3>2, <3>3, Zenon
  <2> QED BY <2>1, <2>2
<1> QED BY <1>8, <1>9, <1>10, <1>11, Zenon DEF TreeOfTable

LEMMA TreeUntouched ==
  ASSUME TreeOfTable, UNCHANGED trie
  PROVE  TreeOfTable'
<1>1. nodes' = nodes /\ handler' = handler /\ pname' = pname /\ table' = table
  BY Zenon DEF trie
<1> QED BY <1>1, Zenon DEF TreeOfTable, Through, EndsAt

-----------------------------------------------------------------------------
(* What the search has found so far.                                       *)

LEMMA SegmentsAre ==
  ASSUME NEW r \in Requests
  PROVE  /\ r.method \in Methods /\ r.path \in Seq(Values) /\ Len(r.path) \in Nat
         /\ Len(Segments(r)) = Len(r.path) + 1 /\ Segments(r)[1] = r.method
         /\ \A k \in 1..Len(r.path) : r.path[k] \in Values /\ Segments(r)[k + 1] = r.path[k]
<1>1. r.method \in Methods /\ r.path \in Seq(Values)
  BY InputAssumption
<1> DEFINE p == r.path
           h == <<r.method>>
<1>2. p \in Seq(Values \cup Methods) /\ h \in Seq(Values \cup Methods)
  BY <1>1, SeqMonotonic
<1>3. Len(h) = 1 /\ h[1] = r.method /\ Len(p) \in Nat /\ \A k \in 1..Len(p) : p[k] \in Values
  BY <1>1, ElementOfSeq, LenProperties
<1> HIDE DEF p, h
<1>4. /\ Len(h \o p) = Len(h) + Len(p)
      /\ \A i \in 1..Len(h) + Len(p) : (h \o p)[i] = IF i <= Len(h) THEN h[i] ELSE p[i - Len(h)]
  BY <1>2, ConcatProperties
<1>5. Len(h \o p) = Len(p) + 1 /\ (h \o p)[1] = h[1]
      /\ \A k \in 1..Len(p) : (h \o p)[k + 1] = p[k]
  BY <1>3, <1>4
<1>6. Segments(r) = h \o p
  BY DEF Segments, h, p
<1> QED BY <1>1, <1>3, <1>5, <1>6, Zenon DEF p

LEMMA FrameFacts ==
  ASSUME TrieInv, request # NoRequest, NEW i \in 1..Len(stack)
  PROVE  /\ stack[i].node \in nodes /\ stack[i].node \in Seq(Step)
         /\ Len(stack[i].node) = i - 1 /\ i \in Nat \ {0}
         /\ Segment(stack[i].node) = Segments(request)[i]
         /\ i <= Len(Segments(request)) => Segments(request)[i] \in Methods \cup Values
<1>1. stack \in Seq(Frames) /\ Len(stack) \in Nat \ {0} /\ request \in Requests
  BY SearchFacts
<1>2. stack[i] \in Frames
  BY <1>1, ElementOfSeq, Zenon
<1>3. stack[i].node \in nodes
  BY <1>2 DEF Frames
<1>4. stack[i].node \in Seq(Step)
  BY <1>3, Zenon DEF TrieInv, NodeInv, Step
<1>5. Len(stack[i].node) = i - 1
  BY Zenon DEF TrieInv, SearchInv, FrameInv
<1>6. i \in Nat \ {0} /\ (i - 1) + 1 = i
  BY <1>1
<1>7. Segment(stack[i].node) = Segments(request)[i]
  BY <1>5, <1>6, Zenon DEF Segment
<1>8. ASSUME i <= Len(Segments(request)) PROVE Segments(request)[i] \in Methods \cup Values
  <2>1. Segments(request) \in Seq(Methods \cup Values) /\ Len(Segments(request)) \in Nat
    BY <1>1, SegmentsType
  <2>2. i \in 1..Len(Segments(request))
    BY <1>6, <1>8, <2>1
  <2> QED BY <2>1, <2>2, ElementOfSeq, Zenon
<1> QED BY <1>3, <1>4, <1>5, <1>6, <1>7, <1>8

LEMMA ChildFacts ==
  ASSUME NEW s \in Seq(Step), NEW e \in Step \cup Values
  PROVE  /\ Append(s, e) \in Seq(Step \cup Values) /\ Len(Append(s, e)) = Len(s) + 1
         /\ Len(s) \in Nat /\ Append(s, e)[Len(s) + 1] = e
         /\ \A k \in 1..Len(s) : Append(s, e)[k] = s[k]
         /\ Below(Append(s, e), s)
<1>1. s \in Seq(Step \cup Values)
  BY SeqMonotonic
<1>2. /\ Append(s, e) \in Seq(Step \cup Values) /\ Len(Append(s, e)) = Len(s) + 1
      /\ Len(s) \in Nat /\ Append(s, e)[Len(s) + 1] = e
      /\ \A k \in 1..Len(s) : Append(s, e)[k] = s[k]
  BY <1>1, LastAdded
<1>3. Len(s) <= Len(s) + 1
  BY <1>2
<1> QED BY <1>2, <1>3, Zenon DEF Below

LEMMA BelowTransitive ==
  ASSUME NEW n, NEW m, NEW o, Len(n) \in Nat, Len(m) \in Nat, Len(o) \in Nat,
         Below(n, m), Below(m, o)
  PROVE  Below(n, o)
<1>1. Len(o) <= Len(n) /\ \A k \in 1..Len(o) : k \in 1..Len(m)
  BY DEF Below
<1> QED BY <1>1, Zenon DEF Below

(* A prefix of a node is a node.                                           *)
LEMMA PrefixIsNode ==
  ASSUME TrieInv, TreeOfTable, NEW n \in nodes, NEW c \in Seq(Step \cup Values), Below(n, c)
  PROVE  c \in nodes
<1>1. n \in Seq(Step) /\ Len(n) \in Nat /\ Len(c) \in Nat
  <2>1. n \in Seq(Step)
    BY Zenon DEF TrieInv, NodeInv, Step
  <2> QED BY <2>1, LenProperties
<1>2. c \in Seq(Step)
  <2>1. \A k \in 1..Len(c) : c[k] \in Step
    <3>1. \A k \in 1..Len(c) : k \in 1..Len(n) /\ c[k] = n[k]
      BY <1>1 DEF Below
    <3> QED BY <1>1, <3>1, ElementOfSeq
  <2>2. c \in [1..Len(c) -> Step]
    <3>1. c = [k \in 1..Len(c) |-> c[k]]
      OBVIOUS
    <3> QED BY <2>1, <3>1, Zenon
  <2> QED BY <1>1, <2>2
<1>3. CASE n = Root
  <2>1. Len(c) = 0
    <3>1. Len(n) = 0 /\ Len(c) <= Len(n)
      BY <1>3 DEF Root, Below
    <3> QED BY <1>1, <3>1
  <2>2. c = Root
    BY <2>1, EmptySeq DEF Root
  <2> QED BY <1>3, <2>2
<1>4. CASE n # Root
  <2>1. PICK i \in 1..Len(table) : \E m \in table[i].methods :
          n \in PathTo(NodeOf(m, table[i].pattern))
    BY <1>4, Zenon DEF TreeOfTable, Through
  <2>2. PICK m \in table[i].methods : n \in PathTo(NodeOf(m, table[i].pattern))
    BY <2>1
  <2> DEFINE e == NodeOf(m, table[i].pattern)
  <2>3. e \in Seq(Step)
    <3>1. m \in Methods /\ table[i].pattern \in Seq(Literals \cup Names)
      BY EntryFacts DEF TrieInv
    <3> QED BY <3>1, NodeOfPattern
  <2>4. PathTo(e) \subseteq nodes /\ n \in PathTo(e)
    BY <2>2, Zenon DEF TreeOfTable
  <2> HIDE DEF e
  <2>5. Below(e, n)
    BY <1>1, <2>3, <2>4, InPathTo
  <2>6. Below(e, c)
    <3>1. Len(e) \in Nat
      BY <2>3, LenProperties
    <3> QED BY <1>1, <2>5, <3>1, BelowTransitive
  <2>7. c \in PathTo(e)
    BY <1>2, <2>3, <2>6, InPathTo
  <2> QED BY <2>4, <2>7
<1> QED BY <1>3, <1>4

LEMMA MissingIsFruitless ==
  ASSUME TrieInv, TreeOfTable, NEW c \in Seq(Step \cup Values), c \notin nodes
  PROVE  Fruitless(c)
BY PrefixIsNode, Zenon DEF Fruitless

LEMMA EndIsFruitless ==
  ASSUME TrieInv, request # NoRequest, AtEnd, handler[Top.node] = 0
  PROVE  Fruitless(Top.node)
<1> SUFFICES ASSUME NEW n \in nodes, Below(n, Top.node), Fits(n)
             PROVE  handler[n] = 0
  BY DEF Fruitless
<1>0. Len(stack) \in 1..Len(stack)
  BY SearchFacts
<1>1. Top.node \in Seq(Step) /\ n \in Seq(Step)
  BY <1>0, FrameFacts, Zenon DEF Top, TrieInv, NodeInv, Step
<1>2. Len(n) = Len(Top.node)
  BY DEF Fits, AtEnd
<1>3. \A k \in 1..Len(Top.node) : n[k] = Top.node[k]
  BY DEF Below
<1> DEFINE t == Top.node
<1> HIDE DEF t
<1>4. t \in Seq(Step) /\ n \in Seq(Step) /\ Len(n) = Len(t) /\ \A k \in 1..Len(t) : n[k] = t[k]
  BY <1>1, <1>2, <1>3 DEF t
<1>5. n = t
  BY <1>4, SeqEqual
<1> QED BY <1>5 DEF t

LEMMA ChildrenFruitless ==
  ASSUME TrieInv, request # NoRequest, ~AtEnd,
         Fruitless(Append(Top.node, Segment(Top.node))), Fruitless(Append(Top.node, Param))
  PROVE  Fruitless(Top.node)
<1> SUFFICES ASSUME NEW n \in nodes, Below(n, Top.node), Fits(n)
             PROVE  handler[n] = 0
  BY DEF Fruitless
<1>0. PICK l, t : l = Len(stack) /\ t = Top.node
  OBVIOUS
<1>1. l \in 1..Len(stack) /\ l <= Len(Segments(request)) + 1 /\ Len(Segments(request)) \in Nat
  BY <1>0, SearchFacts, SegmentsType
<1>2. /\ t \in Seq(Step) /\ Len(t) = l - 1 /\ l \in Nat \ {0}
      /\ Segment(t) = Segments(request)[l]
      /\ l <= Len(Segments(request)) => Segments(request)[l] \in Methods \cup Values
  BY <1>0, <1>1, FrameFacts, Zenon DEF Top
<1>3. n \in Seq(Step)
  BY Zenon DEF TrieInv, NodeInv, Step
<1>4. Len(n) = Len(Segments(request)) /\ Below(n, t)
  BY <1>0 DEF Fits
<1>5. l <= Len(Segments(request)) /\ l \in 1..Len(n)
  <2>1. Len(t) # Len(Segments(request))
    BY <1>0 DEF AtEnd
  <2> QED BY <1>1, <1>2, <1>4, <2>1
<1>6. n[l] \in {Segments(request)[l], Param}
  BY <1>4, <1>5, Zenon DEF Fits
<1>7. ASSUME NEW e \in Step \cup Values, n[l] = e
      PROVE  Below(n, Append(t, e))
  <2>1. /\ Len(Append(t, e)) = l /\ Append(t, e)[l] = e
        /\ \A k \in 1..(l - 1) : Append(t, e)[k] = t[k]
    <3>1. /\ Len(Append(t, e)) = Len(t) + 1
          /\ Append(t, e)[Len(t) + 1] = e
          /\ \A k \in 1..Len(t) : Append(t, e)[k] = t[k]
      BY <1>2, <1>7, ChildFacts, Zenon
    <3>2. Len(t) + 1 = l
      BY <1>2
    <3> QED BY <1>2, <3>1, <3>2, Zenon
  <2>2. \A k \in 1..(l - 1) : n[k] = t[k]
    BY <1>2, <1>4, Zenon DEF Below
  <2>3. l <= Len(n) /\ \A k \in 1..l : k \in 1..(l - 1) \/ k = l
    BY <1>2, <1>5
  <2> QED BY <1>7, <2>1, <2>2, <2>3, Zenon DEF Below
<1>8. CASE n[l] = Param
  <2>1. Below(n, Append(t, Param))
    BY <1>7, <1>8, Zenon DEF Step
  <2> QED BY <1>0, <2>1, Zenon DEF Fruitless
<1>9. CASE n[l] = Segments(request)[l]
  <2>1. Segments(request)[l] \in Step \cup Values
    BY <1>2, <1>5, Zenon DEF Step
  <2>2. Below(n, Append(t, Segment(t)))
    BY <1>2, <1>7, <1>9, <2>1, Zenon
  <2> QED BY <1>0, <2>2, Zenon DEF Fruitless
<1> QED BY <1>6, <1>8, <1>9, Zenon

(* While a lookup runs the trie and the request stay as they are.          *)
LEMMA FruitlessKept ==
  ASSUME UNCHANGED <<trie, request>>, NEW c
  PROVE  Fruitless(c)' <=> Fruitless(c)
<1>1. nodes' = nodes /\ handler' = handler /\ request' = request
  BY Zenon DEF trie
<1> QED BY <1>1, Zenon DEF Fruitless, Fits, Segments

(* findFrom returned nullptr to the level below the top, which made its    *)
(* call for the top as its literal child or as its parameter child.        *)
LEMMA SearchedPop ==
  ASSUME TrieInv, SearchedInv, request # NoRequest, UNCHANGED <<trie, request, answer>>,
         Len(stack) # 1, stack' = SubSeq(stack, 1, Len(stack) - 1), Fruitless(Top.node)
  PROVE  SearchedInv'
<1>0. PICK l, t, s, r : l = Len(stack) /\ t = Top.node /\ s = stack[l - 1].node /\ r = Segments(request)
  OBVIOUS
<1>1. /\ l \in Nat \ {0, 1} /\ nodes' = nodes
  BY <1>0, SearchFacts DEF trie
<1>2. /\ Len(stack') = l - 1 /\ Binders' = Binders \ {l}
      /\ \A i \in 1..(l - 1) : stack'[i] = stack[i]
  BY <1>0, <1>1, PopFrames, Zenon
<1>3. /\ l - 1 \in 1..(l - 1) /\ l - 1 \in 1..l /\ l \in 1..l /\ (l - 1) + 1 = l
      /\ \A i \in 1..(l - 1) : i \in 1..l /\ i # l
      /\ \A i \in 1..(l - 2) : i \in 1..(l - 1)
      /\ (l - 1) - 1 = l - 2
  BY <1>1
<1>4. /\ Top' = stack[l - 1] /\ Top.node = stack[l].node /\ Segments(request)' = r
      /\ \A i \in 1..(l - 1) : stack'[i].node = stack[i].node
  BY <1>0, <1>2, <1>3, Zenon DEF Top, Segments
<1>5. /\ s \in Seq(Step) /\ Len(s) = l - 2 /\ Segment(s) = r[l - 1]
      /\ \A i \in 1..(l - 1) : /\ Len(stack[i].node) = i - 1
                               /\ Segment(stack[i].node) = r[i]
  BY <1>0, <1>3, FrameFacts, Zenon
<1>6. Below(t, s) /\ \A k \in 1..(l - 2) : t[k] = s[k]
  <2>1. Below(t, s)
    BY <1>0, <1>3, Zenon DEF SearchedInv
  <2> QED BY <1>5, <2>1, Zenon DEF Below
<1>7. t = Append(s, IF l - 1 \in Binders THEN Param ELSE r[l - 1])
  <2>1. /\ l - 1 \in 1..(Len(stack) - 1) /\ FrameInv
    BY <1>0, <1>3, Zenon DEF TrieInv, SearchInv
  <2> QED BY <1>0, <1>3, <1>4, <1>5, <2>1, Zenon DEF FrameInv, StackIsPath
<1>8. \A i \in 1..(l - 1) : i \in Binders' <=> i \in Binders
  BY <1>2, <1>3, Zenon
<1>9. \A i \in 1..(l - 1) : Below(s, stack[i].node)
  <2> SUFFICES ASSUME NEW i \in 1..(l - 1) PROVE Below(s, stack[i].node)
    OBVIOUS
  <2>1. PICK o : o = stack[i].node
    OBVIOUS
  <2>2. Below(t, o) /\ Len(o) = i - 1
    BY <1>0, <1>3, <1>5, <2>1, Zenon DEF SearchedInv
  <2>3. Len(o) <= Len(s) /\ \A k \in 1..Len(o) : k \in 1..(l - 2)
    BY <1>1, <1>5, <2>2
  <2> QED BY <1>6, <2>1, <2>2, <2>3, Zenon DEF Below
<1>10. \A i \in 1..(l - 2) : s[i] = IF i \in Binders THEN Param ELSE r[i]
  <2>1. \A i \in 1..(l - 1) : t[i] = IF i \in Binders THEN Param ELSE r[i]
    BY <1>0, Zenon DEF SearchedInv
  <2> QED BY <1>3, <1>6, <2>1, Zenon
<1>11. ASSUME NEW i \in 1..(l - 1),
              stack[i].next = "undo" \/ (i = l - 1 /\ stack[i].next = "param")
       PROVE  Fruitless(Append(stack[i].node, r[i]))
  <2>1. CASE stack[i].next = "undo"
    BY <1>0, <1>3, <1>5, <2>1, Zenon DEF SearchedInv
  <2>2. CASE i = l - 1 /\ stack[i].next = "param"
    <3>1. l - 1 \notin Binders
      BY <2>2 DEF Binders
    <3> QED BY <1>0, <1>7, <2>2, <3>1, Zenon
  <2> QED BY <1>11, <2>1, <2>2
<1>12. ASSUME stack[l - 1].next = "undo" PROVE Fruitless(Append(s, Param))
  <2>1. l - 1 \in Binders
    BY <1>0, <1>3, <1>12, Zenon DEF Binders
  <2> QED BY <1>0, <1>7, <2>1, Zenon
<1>13. answer' = Miss
  BY Zenon DEF SearchedInv
<1>14. ASSUME NEW i \in 1..Len(stack') PROVE Below(Top.node, stack[i].node)'
  <2>1. i \in 1..(l - 1) /\ Top'.node = s /\ stack'[i].node = stack[i].node
    BY <1>0, <1>2, <1>4, Zenon
  <2>2. Below(s, stack[i].node)
    BY <1>9, <2>1, Zenon
  <2> QED BY <2>1, <2>2, Zenon DEF Below
<1>15. \A i \in 1..(Len(stack') - 1) :
         Top'.node[i] = IF i \in Binders' THEN Param ELSE Segments(request)'[i]
  BY <1>0, <1>2, <1>3, <1>4, <1>8, <1>10, Zenon
<1>16. ASSUME NEW i \in 1..Len(stack'),
              stack'[i].next = "undo" \/ (i = Len(stack') /\ stack'[i].next = "param")
       PROVE  Fruitless(Append(stack[i].node, Segment(stack[i].node)))'
  <2>1. PICK c : c = Append(stack[i].node, r[i])
    OBVIOUS
  <2>2. Fruitless(c)
    BY <1>2, <1>11, <1>16, <2>1, Zenon
  <2>3. (Append(stack[i].node, Segment(stack[i].node)))' = c
    BY <1>2, <1>4, <1>5, <2>1, Zenon DEF Segment
  <2> QED BY <2>2, <2>3, FruitlessKept, Zenon
<1>17. ASSUME Top'.next = "undo" PROVE Fruitless(Append(Top.node, Param))'
  <2>1. PICK c : c = Append(s, Param)
    OBVIOUS
  <2>2. Fruitless(c) /\ (Append(Top.node, Param))' = c
    BY <1>0, <1>4, <1>12, <1>17, <2>1, Zenon
  <2> QED BY <2>2, FruitlessKept, Zenon
<1> QED BY <1>13, <1>14, <1>15, <1>16, <1>17, Zenon DEF SearchedInv

(* A call for a child of the top.                                          *)
LEMMA SearchedCall ==
  ASSUME TrieInv, SearchedInv, request # NoRequest, ~AtEnd, UNCHANGED <<trie, request, answer>>,
         NEW f \in Frames, f.node = Top.node, f.next \in {"param", "undo"},
         NEW child \in nodes,
         child = Append(Top.node, IF f.next = "undo" THEN Param ELSE Segment(Top.node)),
         Top.next # "undo", f.next = "undo" => Top.next = "param",
         Call(f, child)
  PROVE  SearchedInv'
<1>0. PICK l, t, r, e : /\ l = Len(stack) /\ t = Top.node /\ r = Segments(request)
                        /\ e = IF f.next = "undo" THEN Param ELSE Segment(Top.node)
  OBVIOUS
<1>1. /\ l \in Nat \ {0} /\ Len(r) \in Nat /\ l <= Len(r) + 1 /\ nodes' = nodes
  BY <1>0, SearchFacts, SegmentsType DEF trie
<1>2. /\ Len(stack') = l + 1
      /\ Binders' = Binders \cup (IF f.next = "undo" THEN {l} ELSE {})
      /\ \A i \in 1..(l - 1) : stack'[i] = stack[i]
      /\ stack'[l] = f
  BY <1>0, <1>1, CallFrames, Zenon
<1>3. stack'[l + 1] = Frame(child) /\ Frame(child).node = child /\ Frame(child).next = "literal"
  <2>1. /\ Frame(child) \in Frames /\ Frame(child).node = child /\ Frame(child).next = "literal"
    BY DEF Frame, Frames
  <2>2. stack' = Append([stack EXCEPT ![Len(stack)] = f], Frame(child))
    BY Zenon DEF Call
  <2>3. stack \in Seq(Frames) /\ stack # <<>>
    BY SearchFacts
  <2>4. stack'[Len(stack) + 1] = Frame(child)
    BY <2>1, <2>2, <2>3, Called
  <2> QED BY <1>0, <2>1, <2>4, Zenon
<1>4. /\ \A i \in 1..(l + 1) : i \in 1..l \/ i = l + 1
      /\ \A i \in 1..l : i \in 1..(l - 1) \/ i = l
      /\ \A i \in 1..(l - 1) : i \in 1..l /\ i # l /\ i # l + 1
      /\ l \in 1..l /\ (l + 1) - 1 = l /\ l # l + 1
  BY <1>1
<1>5. /\ t \in Seq(Step) /\ Len(t) = l - 1 /\ Segment(t) = r[l]
      /\ \A i \in 1..l : Len(stack[i].node) = i - 1 /\ Segment(stack[i].node) = r[i]
      /\ l <= Len(r) => r[l] \in Methods \cup Values
  BY <1>0, <1>4, FrameFacts, Zenon DEF Top
<1>6. e = (IF f.next = "undo" THEN Param ELSE r[l]) /\ e \in Step \cup Values /\ child = Append(t, e)
  <2>1. l <= Len(r)
    <3>1. l - 1 # Len(r)
      BY <1>0, <1>5, Zenon DEF AtEnd
    <3> QED BY <1>1, <3>1
  <2>2. e = IF f.next = "undo" THEN Param ELSE r[l]
    BY <1>0, <1>5, Zenon
  <2>3. e \in Step \cup Values
    BY <1>5, <2>1, <2>2, Zenon DEF Step
  <2> QED BY <1>0, <2>2, <2>3, Zenon
<1>7. /\ Len(child) = l /\ child[l] = e /\ \A k \in 1..(l - 1) : child[k] = t[k]
      /\ Below(child, t)
  <2>1. /\ Len(child) = Len(t) + 1 /\ child[Len(t) + 1] = e
        /\ \A k \in 1..Len(t) : child[k] = t[k]
        /\ Below(child, t)
    <3>1. /\ Len(Append(t, e)) = Len(t) + 1 /\ Append(t, e)[Len(t) + 1] = e
          /\ \A k \in 1..Len(t) : Append(t, e)[k] = t[k]
          /\ Below(Append(t, e), t)
      BY <1>5, <1>6, ChildFacts
    <3> QED BY <1>6, <3>1, Zenon
  <2>2. Len(t) + 1 = l
    BY <1>1, <1>5
  <2> QED BY <1>5, <2>1, <2>2, Zenon
<1>8. /\ Top' = Frame(child) /\ Segments(request)' = r
      /\ \A i \in 1..l : stack'[i].node = stack[i].node
  BY <1>0, <1>2, <1>3, <1>4, Zenon DEF Top, Segments
<1>9. /\ l \notin Binders /\ \A i \in Binders : i \in 1..l
      /\ l \in Binders' <=> f.next = "undo"
      /\ \A i \in 1..(l - 1) : i \in Binders' <=> i \in Binders
  <2>1. l \notin Binders /\ \A i \in Binders : i \in 1..l
    BY <1>0, Zenon DEF Binders, Top
  <2> QED BY <1>2, <1>4, <2>1, Zenon
<1>10. \A i \in 1..l : Below(child, stack[i].node)
  <2> SUFFICES ASSUME NEW i \in 1..l PROVE Below(child, stack[i].node)
    OBVIOUS
  <2>1. PICK o : o = stack[i].node
    OBVIOUS
  <2>2. Below(t, o) /\ Len(o) = i - 1
    BY <1>0, <1>5, <2>1, Zenon DEF SearchedInv
  <2>3. Len(o) \in Nat /\ Len(t) \in Nat /\ Len(child) \in Nat
    BY <1>1, <1>5, <1>7, <2>2
  <2>4. Below(child, o)
    BY <1>7, <2>2, <2>3, BelowTransitive
  <2> QED BY <2>1, <2>4
<1>11. \A i \in 1..l : child[i] = IF i \in Binders' THEN Param ELSE r[i]
  <2>1. \A i \in 1..(l - 1) : t[i] = IF i \in Binders THEN Param ELSE r[i]
    BY <1>0, Zenon DEF SearchedInv
  <2> QED BY <1>4, <1>6, <1>7, <1>9, <2>1, Zenon
<1>12. ASSUME NEW i \in 1..l, stack'[i].next = "undo"
       PROVE  Fruitless(Append(stack[i].node, r[i]))
  <2>1. CASE i \in 1..(l - 1)
    <3>1. i \in 1..Len(stack) /\ stack[i].next = "undo" /\ Segment(stack[i].node) = r[i]
      BY <1>0, <1>2, <1>5, <1>12, <2>1, Zenon
    <3> QED BY <3>1, Zenon DEF SearchedInv
  <2>2. CASE i = l
    <3>1. Top.next = "param" /\ stack[l].next = "param"
      BY <1>0, <1>2, <1>12, <2>2, Zenon DEF Top
    <3> QED BY <1>0, <1>4, <1>5, <2>2, <3>1, Zenon DEF SearchedInv
  <2> QED BY <1>4, <2>1, <2>2, Zenon
<1>13. answer' = Miss
  BY Zenon DEF SearchedInv
<1>14. ASSUME NEW i \in 1..Len(stack') PROVE Below(Top.node, stack[i].node)'
  <2>1. Top'.node = child
    BY <1>3, <1>8, Zenon
  <2>2. CASE i \in 1..l
    <3>1. Below(child, stack[i].node) /\ stack'[i].node = stack[i].node
      BY <1>8, <1>10, <2>2, Zenon
    <3> QED BY <2>1, <3>1, Zenon DEF Below
  <2>3. CASE i = l + 1
    <3>1. stack'[i].node = child
      BY <1>3, <2>3, Zenon
    <3>2. Len(child) <= Len(child)
      BY <1>1, <1>7
    <3> QED BY <2>1, <3>1, <3>2, Zenon DEF Below
  <2> QED BY <1>2, <1>4, <2>2, <2>3, Zenon
<1>15. \A i \in 1..(Len(stack') - 1) :
         Top'.node[i] = IF i \in Binders' THEN Param ELSE Segments(request)'[i]
  BY <1>2, <1>3, <1>4, <1>8, <1>11, Zenon
<1>16. ASSUME NEW i \in 1..Len(stack'),
              stack'[i].next = "undo" \/ (i = Len(stack') /\ stack'[i].next = "param")
       PROVE  Fruitless(Append(stack[i].node, Segment(stack[i].node)))'
  <2>0. stack'[l + 1].next = "literal"
    BY <1>3, Zenon
  <2>1. i \in 1..l /\ stack'[i].next = "undo"
    <3>1. i # l + 1
      BY <1>16, <2>0
    <3> QED BY <1>2, <1>4, <1>16, <3>1, Zenon
  <2>2. PICK c : c = Append(stack[i].node, r[i])
    OBVIOUS
  <2>3. Fruitless(c)
    BY <1>12, <2>1, <2>2, Zenon
  <2>4. (Append(stack[i].node, Segment(stack[i].node)))' = c
    BY <1>4, <1>5, <1>8, <2>1, <2>2, Zenon DEF Segment
  <2> QED BY <2>3, <2>4, FruitlessKept, Zenon
<1>17. Top'.next # "undo"
  BY <1>3, <1>8
<1> QED BY <1>13, <1>14, <1>15, <1>16, <1>17, Zenon DEF SearchedInv

LEMMA SearchedNoLiteral ==
  ASSUME TrieInv, TreeOfTable, SearchedInv, request # NoRequest, ~AtEnd, Top.next = "literal",
         UNCHANGED <<trie, request, answer>>,
         Append(Top.node, Segment(Top.node)) \notin nodes,
         stack' = [stack EXCEPT ![Len(stack)].next = "param"]
  PROVE  SearchedInv'
<1>0. PICK l, t, r, f : /\ l = Len(stack) /\ t = Top.node /\ r = Segments(request)
                        /\ f = [Top EXCEPT !.next = "param"]
  OBVIOUS
<1>1. /\ l \in Nat \ {0} /\ Len(r) \in Nat /\ l <= Len(r) + 1
  BY <1>0, SearchFacts, SegmentsType
<1>2. /\ Len(stack') = l /\ \A i \in 1..(l - 1) : stack'[i] = stack[i]
      /\ stack'[l].node = t /\ stack'[l].next = "param"
  <2>1. Top \in Frames /\ stack \in Seq(Frames) /\ stack # <<>>
    BY SearchFacts
  <2>2. f \in Frames /\ f.node = t /\ f.next = "param"
    BY <1>0, <2>1 DEF Frames
  <2>3. stack' = [stack EXCEPT ![Len(stack)] = f]
    BY <1>0, Zenon DEF Top
  <2>4. /\ Len(stack') = Len(stack) /\ \A i \in 1..(Len(stack) - 1) : stack'[i] = stack[i]
        /\ stack'[Len(stack)] = f
    BY <2>1, <2>2, <2>3, LastReplaced
  <2> QED BY <1>0, <2>2, <2>4, Zenon
<1>3. /\ l \in 1..l /\ \A i \in 1..l : i \in 1..(l - 1) \/ i = l
      /\ \A i \in 1..(l - 1) : i \in 1..l /\ i # l
  BY <1>1
<1>4. /\ Top'.node = t /\ Top'.next = "param" /\ Segments(request)' = r
      /\ \A i \in 1..l : stack'[i].node = stack[i].node
  BY <1>0, <1>2, <1>3, Zenon DEF Top, Segments
<1>5. /\ t \in Seq(Step) /\ Len(t) = l - 1 /\ Segment(t) = r[l]
      /\ \A i \in 1..l : Segment(stack[i].node) = r[i]
      /\ l <= Len(r) => r[l] \in Methods \cup Values
  BY <1>0, <1>3, FrameFacts, Zenon DEF Top
<1>6. Fruitless(Append(t, r[l]))
  <2>1. l <= Len(r)
    <3>1. l - 1 # Len(r)
      BY <1>0, <1>5, Zenon DEF AtEnd
    <3> QED BY <1>1, <3>1
  <2>2. r[l] \in Step \cup Values
    BY <1>5, <2>1, Zenon DEF Step
  <2>3. Append(t, r[l]) \in Seq(Step \cup Values)
    BY <1>5, <2>2, ChildFacts, Zenon
  <2>4. Append(t, r[l]) \notin nodes
    BY <1>0, <1>5, Zenon
  <2> QED BY <2>3, <2>4, MissingIsFruitless, Zenon
<1>7. \A i \in 1..(l - 1) : i \in Binders' <=> i \in Binders
  BY <1>0, <1>2, <1>3, Zenon DEF Binders
<1>8. ASSUME NEW i \in 1..l, stack'[i].next = "undo" \/ i = l
      PROVE  Fruitless(Append(stack[i].node, r[i]))
  <2>1. CASE i = l
    BY <1>0, <1>6, <2>1, Zenon DEF Top
  <2>2. CASE i # l
    <3>1. i \in 1..(l - 1) /\ stack[i].next = "undo"
      BY <1>2, <1>3, <1>8, <2>2, Zenon
    <3> QED BY <1>0, <1>3, <1>5, <3>1, Zenon DEF SearchedInv
  <2> QED BY <2>1, <2>2
<1>9. answer' = Miss
  BY Zenon DEF SearchedInv
<1>10. ASSUME NEW i \in 1..Len(stack') PROVE Below(Top.node, stack[i].node)'
  <2>1. Below(t, stack[i].node) /\ stack'[i].node = stack[i].node
    BY <1>0, <1>2, <1>4, Zenon DEF SearchedInv
  <2> QED BY <1>4, <2>1, Zenon DEF Below
<1>11. \A i \in 1..(Len(stack') - 1) :
         Top'.node[i] = IF i \in Binders' THEN Param ELSE Segments(request)'[i]
  <2>1. \A i \in 1..(l - 1) : t[i] = IF i \in Binders THEN Param ELSE r[i]
    BY <1>0, Zenon DEF SearchedInv
  <2>2. \A i \in 1..(l - 1) : t[i] = IF i \in Binders' THEN Param ELSE r[i]
    BY ONLY <1>7, <2>1
  <2> QED BY ONLY <1>2, <1>4, <2>2, Zenon
<1>12. ASSUME NEW i \in 1..Len(stack'),
              stack'[i].next = "undo" \/ (i = Len(stack') /\ stack'[i].next = "param")
       PROVE  Fruitless(Append(stack[i].node, Segment(stack[i].node)))'
  <2>1. PICK c : c = Append(stack[i].node, r[i])
    OBVIOUS
  <2>2. Fruitless(c)
    BY <1>2, <1>8, <1>12, <2>1, Zenon
  <2>3. (Append(stack[i].node, Segment(stack[i].node)))' = c
    BY <1>2, <1>4, <1>5, <2>1, Zenon DEF Segment
  <2> QED BY <2>2, <2>3, FruitlessKept, Zenon
<1>13. Top'.next # "undo"
  BY <1>4
<1> QED BY <1>9, <1>10, <1>11, <1>12, <1>13, Zenon DEF SearchedInv

(* ... and the same of each way a level returns nullptr.                   *)
LEMMA ReturnsFruitless ==
  ASSUME TrieInv, ImplInv, NoHandler \/ NoParamChild \/ Undo
  PROVE  /\ request # NoRequest /\ ReturnNull /\ UNCHANGED trie
         /\ Fruitless(Top.node)
<1>1. request # NoRequest /\ ReturnNull /\ UNCHANGED trie
  BY Zenon DEF NoHandler, NoParamChild, Undo
<1>2. SearchedInv /\ TreeOfTable
  BY <1>1, Zenon DEF ImplInv
<1>3. Len(stack) \in 1..Len(stack) /\ stack[Len(stack)] = Top
  BY <1>1, SearchFacts DEF Top
<1>4. CASE NoHandler
  <2>1. AtEnd /\ handler[Top.node] = 0
    BY <1>4, Zenon DEF NoHandler
  <2> QED BY <1>1, <2>1, EndIsFruitless, Zenon
<1>5. CASE NoParamChild
  <2>1. ~AtEnd /\ Top.next = "param" /\ Append(Top.node, Param) \notin nodes
    BY <1>5, Zenon DEF NoParamChild
  <2>2. Fruitless(Append(Top.node, Segment(Top.node)))
    BY <1>2, <1>3, <2>1, Zenon DEF SearchedInv
  <2>3. Append(Top.node, Param) \in Seq(Step \cup Values)
    <3>1. Top.node \in Seq(Step)
      BY <1>1, <1>3, FrameFacts, Zenon
    <3>2. Param \in Step \cup Values
      BY Zenon DEF Step
    <3> QED BY <3>1, <3>2, ChildFacts, Zenon
  <2>4. Fruitless(Append(Top.node, Param))
    BY <1>2, <2>1, <2>3, MissingIsFruitless, Zenon
  <2> QED BY <1>1, <2>1, <2>2, <2>4, ChildrenFruitless, Zenon
<1>6. CASE Undo
  <2>1. ~AtEnd /\ Top.next = "undo"
    BY <1>6, Zenon DEF Undo
  <2>2. Fruitless(Append(Top.node, Segment(Top.node))) /\ Fruitless(Append(Top.node, Param))
    BY <1>2, <1>3, <2>1, Zenon DEF SearchedInv
  <2> QED BY <1>1, <2>1, <2>2, ChildrenFruitless, Zenon
<1> QED BY <1>1, <1>4, <1>5, <1>6

LEMMA ImplInvStep ==
  ASSUME TrieInv, ImplInv, [Next]_vars
  PROVE  ImplInv'
<1>1. ASSUME NEW verb \in Verbs, NEW pattern \in Patterns, Register(verb, pattern)
      PROVE  ImplInv'
  <2>1. MethodsOf(verb) \in SUBSET Methods
    BY InputAssumption DEF MethodsOf, Methods
  <2>2. TreeOfTable'
    BY <1>1, <2>1, TreeInserted, Zenon DEF Register, TrieInv, ImplInv
  <2>3. request' = NoRequest
    BY <1>1, Zenon DEF Register, Insert
  <2> QED BY <2>2, <2>3, Zenon DEF ImplInv
<1>2. ASSUME NEW r \in Requests, Lookup(r)
      PROVE  ImplInv'
  <2>1. stack' = <<Frame(Root)>> /\ answer' = Miss /\ UNCHANGED trie
    BY <1>2, Zenon DEF Lookup
  <2>2. Frame(Root).node = Root /\ Frame(Root).next = "literal"
    BY DEF Frame
  <2>3. Len(stack') = 1 /\ stack'[1] = Frame(Root)
    <3> DEFINE f == Frame(Root)
    <3> HIDE DEF f
    <3>1. stack' = <<f>>
      BY <2>1 DEF f
    <3>2. Len(stack') = 1 /\ stack'[1] = f
      BY <3>1
    <3> QED BY <3>2 DEF f
  <2>4. Top' = Frame(Root) /\ 1..(Len(stack') - 1) = {}
        /\ \A i \in 1..Len(stack') : stack'[i] = Frame(Root)
    <3>1. 1..(Len(stack') - 1) = {} /\ \A i \in 1..Len(stack') : i = 1
      BY <2>3
    <3> QED BY <2>3, <3>1, Zenon DEF Top
  <2>5. Below(Root, Root)
    <3>1. Len(Root) = 0
      BY DEF Root
    <3> QED BY <3>1 DEF Below
  <2>6. ASSUME NEW i \in 1..Len(stack') PROVE Below(Top.node, stack[i].node)'
    BY <2>2, <2>4, <2>5, Zenon DEF Below
  <2>7. /\ Top'.next = "literal" /\ \A i \in 1..Len(stack') : stack'[i].next = "literal"
    BY <2>2, <2>4, Zenon
  <2>8. "literal" # "undo" /\ "literal" # "param"
    OBVIOUS
  <2>9. SearchedInv'
    BY <2>1, <2>4, <2>6, <2>7, <2>8, Zenon DEF SearchedInv
  <2> QED BY <2>1, <2>9, TreeUntouched, Zenon DEF ImplInv
<1>3. CASE Hit
  <2>1. request' = NoRequest /\ UNCHANGED trie
    BY <1>3, Zenon DEF Hit
  <2> QED BY <2>1, TreeUntouched, Zenon DEF ImplInv
<1>4. CASE NoHandler \/ NoParamChild \/ Undo
  <2>1. request # NoRequest /\ ReturnNull /\ UNCHANGED trie /\ Fruitless(Top.node)
    BY <1>4, ReturnsFruitless
  <2>2. TreeOfTable'
    BY <2>1, TreeUntouched, Zenon DEF ImplInv
  <2>3. CASE Len(stack) = 1
    BY <2>1, <2>2, <2>3, Zenon DEF ReturnNull, ImplInv
  <2>4. CASE Len(stack) # 1
    <3>1. stack' = SubSeq(stack, 1, Len(stack) - 1) /\ request' = request /\ answer' = answer
      BY <2>1, <2>4, Zenon DEF ReturnNull
    <3>2. SearchedInv'
      BY <2>1, <2>4, <3>1, SearchedPop, Zenon DEF ImplInv
    <3> QED BY <2>2, <3>2, Zenon DEF ImplInv
  <2> QED BY <2>3, <2>4
<1>5. CASE TryLiteral
  <2> DEFINE child == Append(Top.node, Segment(Top.node))
             f == [Top EXCEPT !.next = "param"]
  <2>1. /\ request # NoRequest /\ ~AtEnd /\ Top.next = "literal"
        /\ UNCHANGED <<request, trie, answer>>
    BY <1>5, Zenon DEF TryLiteral
  <2>2. TreeOfTable' /\ TreeOfTable /\ SearchedInv
    BY <2>1, TreeUntouched, Zenon DEF ImplInv
  <2>3. CASE child \notin nodes
    <3>1. stack' = [stack EXCEPT ![Len(stack)].next = "param"]
      BY <1>5, <2>3, Zenon DEF TryLiteral
    <3>2. SearchedInv'
      BY <2>1, <2>2, <2>3, <3>1, SearchedNoLiteral, Zenon
    <3> QED BY <2>2, <3>2, Zenon DEF ImplInv
  <2>4. CASE child \in nodes
    <3>1. Call(f, child)
      BY <1>5, <2>4, Zenon DEF TryLiteral
    <3>2. f \in Frames /\ f.node = Top.node /\ f.next = "param"
      <4>1. Top \in Frames
        BY <2>1, SearchFacts
      <4> QED BY <4>1 DEF Frames
    <3> HIDE DEF f
    <3>3. /\ child = Append(Top.node, IF f.next = "undo" THEN Param ELSE Segment(Top.node))
          /\ Top.next # "undo" /\ f.next # "undo" /\ f.next \in {"param", "undo"}
      BY <2>1, <3>2
    <3> HIDE DEF child
    <3>4. SearchedInv'
      BY <2>1, <2>2, <2>4, <3>1, <3>2, <3>3, SearchedCall, Zenon
    <3> QED BY <2>2, <3>4, Zenon DEF ImplInv
  <2> QED BY <2>3, <2>4
<1>6. CASE TryParam
  <2> DEFINE child == Append(Top.node, Param)
             name  == pname[child]
             had   == name \in DOMAIN params
             saved == IF had THEN params[name] ELSE ""
             f     == [Top EXCEPT !.next = "undo", !.had = had, !.saved = saved]
  <2>1. /\ request # NoRequest /\ ~AtEnd /\ Top.next = "param" /\ child \in nodes
        /\ UNCHANGED <<request, trie, answer>> /\ Call(f, child)
    BY <1>6, Zenon DEF TryParam
  <2>2. TreeOfTable' /\ SearchedInv
    BY <2>1, TreeUntouched, Zenon DEF ImplInv
  <2>3. f \in Frames /\ f.node = Top.node /\ f.next = "undo"
    <3>1. Top \in Frames /\ FrameInv /\ ParamsInv
      BY <2>1, SearchFacts DEF TrieInv, SearchInv
    <3>2. had \in BOOLEAN
      OBVIOUS
    <3>3. saved \in Values \cup {""}
      <4>1. ASSUME had PROVE params[name] \in Values
        <5>1. PICK i \in Binders : params[name] = Segments(request)[i]
          BY <3>1, <4>1, Zenon DEF ParamsInv
        <5>2. Segments(request)[i] \in Values
          BY <2>1, SearchFacts, Zenon
        <5> QED BY <5>1, <5>2
      <4> QED BY <4>1, Zenon
    <3> HIDE DEF had, saved
    <3> QED BY <3>1, <3>2, <3>3 DEF Frames
  <2> HIDE DEF f
  <2>4. /\ child = Append(Top.node, IF f.next = "undo" THEN Param ELSE Segment(Top.node))
        /\ Top.next # "undo" /\ f.next \in {"param", "undo"}
    BY <2>1, <2>3
  <2> HIDE DEF child
  <2>5. SearchedInv'
    BY <2>1, <2>2, <2>3, <2>4, SearchedCall, Zenon
  <2> QED BY <2>2, <2>5, Zenon DEF ImplInv
<1>7. CASE UNCHANGED vars
  <2>1. UNCHANGED trie /\ nodes' = nodes /\ handler' = handler
        /\ request' = request /\ stack' = stack /\ answer' = answer
    BY <1>7, Zenon DEF vars, trie
  <2>2. TreeOfTable'
    BY <2>1, TreeUntouched, Zenon DEF ImplInv
  <2>3. ASSUME SearchedInv PROVE SearchedInv'
    <3>1. Top' = Top /\ Binders' = Binders /\ Segments(request)' = Segments(request)
      BY <2>1, Zenon DEF Top, Binders, Segments
    <3>2. \A i \in 1..Len(stack) :
            Fruitless(Append(stack[i].node, Segment(stack[i].node)))' <=>
              Fruitless(Append(stack[i].node, Segment(stack[i].node)))
      BY <2>1, Zenon DEF Fruitless, Fits, Segment, Segments
    <3>3. Fruitless(Append(Top.node, Param))' <=> Fruitless(Append(Top.node, Param))
      BY <2>1, <3>1, Zenon DEF Fruitless, Fits, Segments
    <3>4. \A i \in 1..Len(stack) : Below(Top.node, stack[i].node)' <=> Below(Top.node, stack[i].node)
      BY <2>1, <3>1, Zenon DEF Below
    <3> QED BY <2>1, <2>3, <3>1, <3>2, <3>3, <3>4, Zenon DEF SearchedInv
  <2> QED BY <2>1, <2>2, <2>3, Zenon DEF ImplInv
<1> QED BY <1>1, <1>2, <1>3, <1>4, <1>5, <1>6, <1>7, Zenon DEF Next, Search

-----------------------------------------------------------------------------
(* What the nodes say of the table.                                        *)

(* A route that serves the request ends in a node that stands for its path. *)
LEMMA ServingNode ==
  ASSUME TrieInv, TreeOfTable, request # NoRequest,
         NEW i \in 1..Len(table), Table!Serves(i, request),
         NEW n, n = NodeOf(request.method, table[i].pattern)
  PROVE  /\ n \in nodes /\ n \in Seq(Step) /\ Fits(n) /\ EndsAt(i, n) /\ handler[n] # 0
<1>0. PICK r, p : r = request /\ p = table[i].pattern
  OBVIOUS
<1>1. /\ r \in Requests /\ p \in Seq(Literals \cup Names) /\ Len(p) \in Nat
      /\ i \in Nat \ {0} /\ table[i].methods \subseteq Methods
  BY <1>0, SearchFacts, EntryFacts DEF TrieInv
<1>2. /\ r.method \in table[i].methods /\ Len(p) = Len(r.path)
      /\ \A k \in 1..Len(r.path) : p[k] \in Names \cup {r.path[k]}
  BY <1>0, Zenon DEF Table!Serves, Table!Pattern
<1>3. /\ Len(Segments(r)) = Len(r.path) + 1 /\ Segments(r)[1] = r.method
      /\ \A k \in 1..Len(r.path) : Segments(r)[k + 1] = r.path[k]
  BY <1>1, SegmentsAre
<1>4. /\ n \in Seq(Step) /\ Len(n) = Len(p) + 1 /\ n[1] = r.method
      /\ \A k \in 1..Len(p) : n[k + 1] = IF p[k] \in Names THEN Param ELSE p[k]
  <2>1. r.method \in Methods /\ n = NodeOf(r.method, p)
    BY <1>0, <1>1, <1>2, Zenon
  <2> QED BY <1>1, <2>1, NodeOfPattern
<1>5. EndsAt(i, n)
  BY <1>0, <1>2, Zenon DEF EndsAt
<1>6. n \in nodes
  <2>1. n \in PathTo(n)
    BY <1>4, OwnPrefix, Zenon
  <2> QED BY <1>0, <1>2, <2>1, Zenon DEF TreeOfTable
<1>7. Fits(n)
  <2>1. ASSUME NEW k \in 1..Len(n) PROVE n[k] \in {Segments(r)[k], Param}
    <3>1. CASE k = 1
      BY <1>3, <1>4, <3>1
    <3>2. CASE k # 1
      <4>1. PICK j \in 1..Len(p) : k = j + 1
        <5>1. k - 1 \in 1..Len(p) /\ k = (k - 1) + 1
          BY <1>1, <1>4, <3>2
        <5> QED BY <5>1
      <4>2. p[j] \in Names \cup {r.path[j]} /\ Segments(r)[k] = r.path[j]
        BY <1>2, <1>3, <4>1, Zenon
      <4> QED BY <1>4, <4>1, <4>2, Zenon
    <3> QED BY <3>1, <3>2
  <2> QED BY <1>0, <1>2, <1>3, <1>4, <2>1, Zenon DEF Fits
<1>8. handler[n] # 0
  <2>1. i <= handler[n] /\ handler[n] \in 0..Len(table)
    BY <1>5, <1>6, Zenon DEF TreeOfTable, TrieInv, TypeOK
  <2> QED BY <1>1, <2>1
<1> QED BY <1>4, <1>5, <1>6, <1>7, <1>8

(* And a route that ends in such a node serves the request.                *)
LEMMA NodeServes ==
  ASSUME TrieInv, request # NoRequest, NEW n, Fits(n),
         NEW i \in 1..Len(table), EndsAt(i, n)
  PROVE  Table!Serves(i, request) /\ n = NodeOf(request.method, table[i].pattern)
<1>0. PICK r, p : r = request /\ p = table[i].pattern
  OBVIOUS
<1>1. /\ r \in Requests /\ p \in Seq(Literals \cup Names) /\ Len(p) \in Nat
      /\ table[i].methods \subseteq Methods
  BY <1>0, SearchFacts, EntryFacts DEF TrieInv
<1>2. /\ Len(Segments(r)) = Len(r.path) + 1 /\ Segments(r)[1] = r.method /\ Len(r.path) \in Nat
      /\ \A k \in 1..Len(r.path) : Segments(r)[k + 1] = r.path[k]
  BY <1>1, SegmentsAre
<1>3. PICK m \in table[i].methods : n = NodeOf(m, p)
  BY <1>0, Zenon DEF EndsAt
<1>4. /\ n \in Seq(Step) /\ Len(n) = Len(p) + 1 /\ n[1] = m
      /\ \A k \in 1..Len(p) : n[k + 1] = IF p[k] \in Names THEN Param ELSE p[k]
  BY <1>1, <1>3, NodeOfPattern
<1>5. Len(n) = Len(Segments(r)) /\ \A k \in 1..Len(n) : n[k] \in {Segments(r)[k], Param}
  BY <1>0, Zenon DEF Fits
<1>6. m = r.method
  <2>1. n[1] \in {Segments(r)[1], Param} /\ m \in Methods
    <3>1. 1 \in 1..Len(n)
      BY <1>1, <1>4
    <3> QED BY <1>1, <1>3, <1>5, <3>1, Zenon
  <2> QED BY <1>2, <1>4, <2>1, SegmentAssumption, Zenon
<1>7. Len(p) = Len(r.path)
  BY <1>1, <1>2, <1>4, <1>5
<1>8. ASSUME NEW k \in 1..Len(r.path) PROVE p[k] \in Names \cup {r.path[k]}
  <2>1. k + 1 \in 1..Len(n) /\ k \in 1..Len(p)
    BY <1>1, <1>4, <1>7
  <2>2. n[k + 1] \in {r.path[k], Param} /\ n[k + 1] = IF p[k] \in Names THEN Param ELSE p[k]
    BY <1>2, <1>4, <1>5, <2>1, Zenon
  <2>3. p[k] \in Literals \cup Names
    BY <1>1, <2>1, ElementOfSeq
  <2>4. p[k] \in Literals => p[k] # Param
    BY SegmentAssumption, Zenon
  <2> QED BY <2>2, <2>3, <2>4, Zenon
<1> QED BY <1>0, <1>3, <1>6, <1>7, <1>8, Zenon DEF Table!Serves, Table!Pattern

(* Nothing found below the root: no route serves the request.              *)
LEMMA NothingServes ==
  ASSUME TrieInv, ImplInv, request # NoRequest, Len(stack) = 1, Fruitless(Top.node)
  PROVE  Table!Serving(request) = {}
<1>1. Top.node = Root
  <2>1. stack[1].node = Root
    BY Zenon DEF TrieInv, SearchInv, FrameInv, StackIsPath
  <2> QED BY <2>1, Zenon DEF Top
<1>2. ASSUME NEW i \in 1..Len(table), Table!Serves(i, request) PROVE FALSE
  <2>1. PICK n : n = NodeOf(request.method, table[i].pattern)
    OBVIOUS
  <2>2. n \in nodes /\ n \in Seq(Step) /\ Fits(n) /\ handler[n] # 0
    BY <1>2, <2>1, ServingNode, Zenon DEF ImplInv
  <2>3. Below(n, Root)
    <3>1. Len(n) \in Nat /\ Len(Root) = 0
      BY <2>2, LenProperties DEF Root
    <3> QED BY <3>1 DEF Below
  <2> QED BY <1>1, <2>2, <2>3, Zenon DEF Fruitless
<1> QED BY <1>2, Zenon DEF Table!Serving

(* The least element of a set of numbers.                                  *)
LEMMA LeastPlace ==
  ASSUME NEW n \in Nat, NEW D, D \subseteq 1..n, D # {}
  PROVE  \E k \in D : \A j \in D : k <= j
<1>1. D \subseteq Nat
  OBVIOUS
<1>2. PICK k \in D : \A j \in D : ~(<<j, k>> \in OpToRel(<, Nat))
  BY <1>1, WFMin, NatLessThanWellFounded, Zenon
<1>3. \A j \in D : ~(j < k)
  BY <1>1, <1>2 DEF OpToRel
<1> QED BY <1>1, <1>3

-----------------------------------------------------------------------------
(* The search stops at a handler: it is the one that the table decides on. *)

\* The node that the search stopped at, its handler and the pattern of that one.
Found(n, h, p, r) ==
  /\ n \in nodes /\ n \in Seq(Step) /\ Fits(n)
  /\ h \in 1..Len(table) /\ EndsAt(h, n) /\ Table!Serves(h, r)
  /\ n = NodeOf(r.method, p) /\ p \in Seq(Literals \cup Names)
  /\ Len(p) = Len(r.path) /\ Len(n) = Len(p) + 1 /\ Len(stack) = Len(p) + 2
  /\ n[1] = r.method
  /\ \A k \in 1..Len(p) : /\ n[k + 1] = IF p[k] \in Names THEN Param ELSE p[k]
                          /\ k + 1 \in Binders <=> p[k] \in Names

LEMMA FoundNode ==
  ASSUME TrieInv, ImplInv, request # NoRequest, AtEnd,
         NEW n, n = Top.node, NEW h, h = handler[n], h # 0,
         NEW p, p = table[h].pattern, NEW r, r = request
  PROVE  Found(n, h, p, r)
<1>1. /\ Len(stack) \in Nat \ {0} /\ Len(stack) \in 1..Len(stack) /\ r \in Requests
      /\ stack[Len(stack)].node = n
  BY SearchFacts DEF Top
<1>2. n \in nodes /\ n \in Seq(Step) /\ Len(n) = Len(stack) - 1
  BY <1>1, FrameFacts, Zenon
<1>3. Len(n) = Len(Segments(r))
  BY DEF AtEnd
<1>4. /\ r.method \in Methods /\ Len(r.path) \in Nat /\ Len(Segments(r)) = Len(r.path) + 1
      /\ Segments(r)[1] = r.method
      /\ \A k \in 1..Len(r.path) : r.path[k] \in Values /\ Segments(r)[k + 1] = r.path[k]
  BY <1>1, SegmentsAre
<1>5. \A k \in 1..Len(n) : n[k] = IF k \in Binders THEN Param ELSE Segments(r)[k]
  BY <1>2, Zenon DEF ImplInv, SearchedInv
<1>6. Fits(n)
  BY <1>3, <1>5, Zenon DEF Fits
<1>7. h \in 1..Len(table) /\ EndsAt(h, n)
  <2>1. h \in 0..Len(table) /\ EndsAt(h, n) /\ table \in Seq([methods : SUBSET Methods, pattern : Patterns])
    BY <1>2, Zenon DEF TrieInv, TypeOK, ImplInv, TreeOfTable
  <2>2. Len(table) \in Nat
    BY <2>1, LenProperties, Zenon
  <2> QED BY <2>1, <2>2
<1>8. Table!Serves(h, r) /\ n = NodeOf(r.method, p)
  BY <1>6, <1>7, NodeServes, Zenon
<1>9. p \in Seq(Literals \cup Names) /\ Len(p) \in Nat
  BY <1>7, EntryFacts DEF TrieInv
<1>10. /\ Len(n) = Len(p) + 1 /\ n[1] = r.method
       /\ \A k \in 1..Len(p) : n[k + 1] = IF p[k] \in Names THEN Param ELSE p[k]
  <2>1. /\ Len(NodeOf(r.method, p)) = Len(p) + 1 /\ NodeOf(r.method, p)[1] = r.method
        /\ \A k \in 1..Len(p) :
             NodeOf(r.method, p)[k + 1] = IF p[k] \in Names THEN Param ELSE p[k]
    BY ONLY <1>4, <1>9, NodeOfPattern
  <2> QED BY ONLY <1>8, <2>1
<1>11. Len(p) = Len(r.path) /\ Len(stack) = Len(p) + 2
  <2>1. PICK a, b, c, d : a = Len(p) /\ b = Len(r.path) /\ c = Len(stack) /\ d = Len(n)
    OBVIOUS
  <2>2. a \in Nat /\ b \in Nat /\ c \in Nat /\ d = c - 1 /\ d = b + 1 /\ d = a + 1
    <3>1. c \in Nat
      BY <1>1, <2>1
    <3> QED BY <1>2, <1>3, <1>4, <1>9, <1>10, <2>1, <3>1, Zenon
  <2>3. a = b /\ c = a + 2
    BY ONLY <2>2
  <2> QED BY <2>1, <2>3, Zenon
<1>12. ASSUME NEW k \in 1..Len(p) PROVE k + 1 \in Binders <=> p[k] \in Names
  <2>1. k + 1 \in 1..Len(n) /\ k \in 1..Len(r.path)
    BY <1>9, <1>10, <1>11
  <2>2. n[k + 1] = Param <=> k + 1 \in Binders
    <3>1. Segments(r)[k + 1] # Param
      <4>1. Segments(r)[k + 1] \in Values
        BY <1>4, <2>1, Zenon
      <4> QED BY <4>1, SegmentAssumption
    <3> QED BY <1>5, <2>1, <3>1, Zenon
  <2>3. n[k + 1] = Param <=> p[k] \in Names
    <3>1. p[k] \in Literals \cup Names
      BY <1>9, ElementOfSeq
    <3>2. p[k] \in Names \/ p[k] # Param
      BY ONLY <3>1, SegmentAssumption
    <3>3. n[k + 1] = IF p[k] \in Names THEN Param ELSE p[k]
      BY <1>10, Zenon
    <3> QED BY ONLY <3>2, <3>3, Zenon
  <2> QED BY <2>2, <2>3
<1> QED BY <1>2, <1>6, <1>7, <1>8, <1>9, <1>10, <1>11, <1>12, Zenon DEF Found

(* A route more literal than the one found would have been found first.    *)
LEMMA FoundMostLiteral ==
  ASSUME TrieInv, ImplInv, request # NoRequest, AtEnd,
         NEW n, n = Top.node, NEW h, h = handler[n], h # 0,
         NEW p, p = table[h].pattern, NEW r, r = request,
         NEW j \in 1..Len(table), Table!Serves(j, r), NEW q, q = table[j].pattern,
         NEW k \in 1..Len(r.path), Table!SameUpTo(q, p, k - 1), q[k] \notin Names
  PROVE  p[k] \notin Names
<1> SUFFICES ASSUME p[k] \in Names PROVE FALSE
  OBVIOUS
<1>1. /\ n \in nodes /\ n \in Seq(Step) /\ Fits(n)
      /\ h \in 1..Len(table) /\ p \in Seq(Literals \cup Names)
      /\ Len(p) = Len(r.path) /\ Len(n) = Len(p) + 1 /\ Len(stack) = Len(p) + 2
      /\ n[1] = r.method
      /\ \A a \in 1..Len(p) : /\ n[a + 1] = IF p[a] \in Names THEN Param ELSE p[a]
                              /\ a + 1 \in Binders <=> p[a] \in Names
  <2>1. Found(n, h, p, r)
    BY FoundNode
  <2> QED BY <2>1, Zenon DEF Found
<1>2. PICK m : m = NodeOf(r.method, q)
  OBVIOUS
<1>3. m \in nodes /\ m \in Seq(Step) /\ Fits(m) /\ EndsAt(j, m) /\ handler[m] # 0
  BY <1>2, ServingNode, Zenon DEF ImplInv
<1>4. /\ r \in Requests /\ r.method \in Methods /\ Len(r.path) \in Nat
      /\ Len(Segments(r)) = Len(r.path) + 1
      /\ \A a \in 1..Len(r.path) : r.path[a] \in Values /\ Segments(r)[a + 1] = r.path[a]
  <2>1. r \in Requests
    BY SearchFacts
  <2> QED BY <2>1, SegmentsAre
<1>5. q \in Seq(Literals \cup Names) /\ Len(q) = Len(r.path)
      /\ \A a \in 1..Len(r.path) : q[a] \in Names \cup {r.path[a]}
  <2>1. q \in Seq(Literals \cup Names)
    BY EntryFacts DEF TrieInv
  <2>2. Len(q) = Len(r.path) /\ \A a \in 1..Len(r.path) : q[a] \in Names \cup {r.path[a]}
    BY Zenon DEF Table!Serves, Table!Pattern
  <2> QED BY <2>1, <2>2
<1>6. /\ Len(m) = Len(q) + 1 /\ m[1] = r.method
      /\ \A a \in 1..Len(q) : m[a + 1] = IF q[a] \in Names THEN Param ELSE q[a]
  <2>1. r.method \in Methods /\ q \in Seq(Literals \cup Names)
    BY <1>4, <1>5, Zenon
  <2>2. /\ Len(NodeOf(r.method, q)) = Len(q) + 1 /\ NodeOf(r.method, q)[1] = r.method
        /\ \A a \in 1..Len(q) :
             NodeOf(r.method, q)[a + 1] = IF q[a] \in Names THEN Param ELSE q[a]
    BY ONLY <2>1, NodeOfPattern, Zenon
  <2> QED BY ONLY <1>2, <2>2, Zenon
<1>7. PICK i, s, e : i = k + 1 /\ s = stack[k + 1].node /\ e = Segments(r)[k + 1]
  OBVIOUS
<1>8. i \in Binders /\ i \in 1..Len(stack) /\ stack[i].next = "undo"
  <2>1. i \in Binders
    BY <1>1, <1>7, Zenon
  <2> QED BY <2>1, Zenon DEF Binders
<1>9. s \in Seq(Step) /\ Len(s) = k /\ Segment(s) = e
  <2>1. s \in Seq(Step) /\ Len(s) = i - 1 /\ Segment(s) = Segments(request)[i]
    BY <1>7, <1>8, FrameFacts
  <2> QED BY <1>4, <1>7, <2>1
<1>10. Fruitless(Append(s, e))
  BY <1>7, <1>8, <1>9, Zenon DEF ImplInv, SearchedInv
<1>11. Below(m, Append(s, e))
  <2>1. e = q[k] /\ e \in Step \cup Values
    BY <1>4, <1>5, <1>7, Zenon
  <2>2. /\ Len(Append(s, e)) = k + 1 /\ Append(s, e)[k + 1] = e
        /\ \A a \in 1..k : Append(s, e)[a] = s[a]
    BY <1>9, <2>1, ChildFacts, Zenon
  <2>3. \A a \in 1..k : s[a] = n[a]
    <3>1. Below(n, s)
      BY <1>7, <1>8, Zenon DEF ImplInv, SearchedInv
    <3> QED BY <1>9, <3>1, Zenon DEF Below
  <2>4. ASSUME NEW a \in 1..k PROVE m[a] = n[a]
    <3>1. CASE a = 1
      BY <1>1, <1>6, <3>1
    <3>2. CASE a # 1
      <4>1. PICK b \in 1..(k - 1) : a = b + 1
        <5>1. a - 1 \in 1..(k - 1) /\ a = (a - 1) + 1
          BY <1>4, <3>2
        <5> QED BY <5>1
      <4>2. q[b] = p[b] \/ {q[b], p[b]} \subseteq Names
        BY DEF Table!SameUpTo
      <4>3. b \in 1..Len(p) /\ b \in 1..Len(q)
        BY <1>1, <1>4, <1>5
      <4>4. q[b] \in Names <=> p[b] \in Names
        BY <4>2
      <4>5. m[b + 1] = n[b + 1]
        <5>1. /\ m[b + 1] = IF q[b] \in Names THEN Param ELSE q[b]
              /\ n[b + 1] = IF p[b] \in Names THEN Param ELSE p[b]
          BY <1>1, <1>6, <4>3, Zenon
        <5> QED BY ONLY <4>2, <4>4, <5>1
      <4> QED BY ONLY <4>1, <4>5, Zenon
    <3> QED BY <3>1, <3>2
  <2>5. m[k + 1] = e
    BY <1>5, <1>6, <2>1, Zenon
  <2>6. k + 1 <= Len(m) /\ \A a \in 1..(k + 1) : a \in 1..k \/ a = k + 1
    BY <1>4, <1>5, <1>6
  <2> QED BY <2>2, <2>3, <2>4, <2>5, <2>6, Zenon DEF Below
<1> QED BY <1>3, <1>10, <1>11, Zenon DEF Fruitless

LEMMA FoundWinner ==
  ASSUME TrieInv, ImplInv, request # NoRequest, AtEnd,
         NEW n, n = Top.node, NEW h, h = handler[n], h # 0, NEW r, r = request
  PROVE  h \in Table!Serving(r) /\ Table!Winner(r) = h
<1>0. PICK p : p = table[h].pattern
  OBVIOUS
<1>1. /\ n \in nodes /\ n \in Seq(Step) /\ h \in 1..Len(table) /\ Table!Serves(h, r)
      /\ n = NodeOf(r.method, p) /\ p \in Seq(Literals \cup Names) /\ Len(p) = Len(r.path)
  <2>1. Found(n, h, p, r)
    BY <1>0, FoundNode
  <2> QED BY <2>1, Zenon DEF Found
<1>2. h \in Table!Serving(r)
  BY <1>1, Zenon DEF Table!Serving
<1>3. ASSUME NEW j \in Table!Serving(r)
      PROVE  /\ j \in 1..Len(table) /\ Table!Serves(j, r) /\ Table!Pattern(j) = table[j].pattern
             /\ table[j].pattern \in Seq(Literals \cup Names)
             /\ Len(table[j].pattern) = Len(r.path)
             /\ \A a \in 1..Len(r.path) : table[j].pattern[a] \in Names \cup {r.path[a]}
  <2>1. j \in 1..Len(table) /\ Table!Serves(j, r)
    BY Zenon DEF Table!Serving
  <2>2. table[j].pattern \in Seq(Literals \cup Names)
    BY <2>1, EntryFacts DEF TrieInv
  <2> QED BY <2>1, <2>2, Zenon DEF Table!Serves, Table!Pattern
<1>4. ASSUME NEW j \in Table!Serving(r) PROVE ~Table!MoreLiteral(Table!Pattern(j), Table!Pattern(h))
  <2>1. PICK q : q = table[j].pattern
    OBVIOUS
  <2>2. ASSUME NEW k \in 1..Len(q), Table!SameUpTo(q, p, k - 1), q[k] \notin Names
        PROVE  p[k] \notin Names
    <3>1. k \in 1..Len(r.path) /\ j \in 1..Len(table) /\ Table!Serves(j, r)
      BY <1>3, <2>1, Zenon
    <3> QED BY <1>0, <2>1, <2>2, <3>1, FoundMostLiteral, Zenon
  <2>3. Table!Pattern(j) = q /\ Table!Pattern(h) = p
    BY <1>0, <1>2, <1>3, <2>1, Zenon
  <2> QED BY <2>2, <2>3, Zenon DEF Table!MoreLiteral
<1>5. ASSUME NEW j \in Table!Serving(r),
             \A i \in Table!Serving(r) : ~Table!MoreLiteral(Table!Pattern(i), Table!Pattern(j))
      PROVE  j <= h
  <2>1. PICK q : q = table[j].pattern
    OBVIOUS
  <2>2. /\ j \in 1..Len(table) /\ Table!Serves(j, r) /\ q \in Seq(Literals \cup Names)
        /\ Len(q) = Len(r.path) /\ Table!Pattern(j) = q
        /\ \A a \in 1..Len(r.path) : q[a] \in Names \cup {r.path[a]}
    BY <1>3, <2>1, Zenon
  <2>3. /\ Table!Pattern(h) = p /\ \A a \in 1..Len(r.path) : p[a] \in Names \cup {r.path[a]}
    BY <1>0, <1>2, <1>3, Zenon
  <2>4. Len(r.path) \in Nat /\ r.method \in Methods
    <3>1. r \in Requests
      BY SearchFacts
    <3> QED BY <3>1, SegmentsAre
  <2> DEFINE D == {a \in 1..Len(r.path) : ~(q[a] \in Names <=> p[a] \in Names)}
  <2>5. D = {}
    <3> SUFFICES ASSUME D # {} PROVE FALSE
      OBVIOUS
    <3>1. PICK k \in D : \A a \in D : k <= a
      BY <2>4, LeastPlace
    <3>2. k \in 1..Len(r.path) /\ \A a \in 1..(k - 1) : a \in 1..Len(r.path) /\ ~(k <= a)
      BY <2>4
    <3>3. \A a \in 1..(k - 1) : q[a] \in Names <=> p[a] \in Names
      BY <3>1, <3>2, Zenon
    <3>4. \A a \in 1..(k - 1) : q[a] = p[a] \/ (q[a] \in Names /\ p[a] \in Names)
      BY ONLY <2>2, <2>3, <3>2, <3>3
    <3>5. Table!SameUpTo(q, p, k - 1) /\ Table!SameUpTo(p, q, k - 1)
      BY <3>4, Zenon DEF Table!SameUpTo
    <3>6. CASE p[k] \in Names
      <4>1. q[k] \notin Names
        BY <3>1, <3>6, Zenon
      <4>2. p[k] \notin Names
        BY <1>0, <2>1, <2>2, <3>2, <3>5, <4>1, FoundMostLiteral
      <4> QED BY <3>6, <4>2
    <3>7. CASE p[k] \notin Names
      <4>1. q[k] \in Names
        BY <3>1, <3>7, Zenon
      <4>2. Table!MoreLiteral(p, q)
        BY <1>1, <3>2, <3>5, <3>7, <4>1, Zenon DEF Table!MoreLiteral
      <4> QED BY <1>2, <1>5, <2>2, <2>3, <4>2, Zenon
    <3> QED BY <3>6, <3>7
  <2>6. \A a \in 1..Len(r.path) : q[a] = p[a] \/ (q[a] \in Names /\ p[a] \in Names)
    BY <2>2, <2>3, <2>5, Zenon
  <2>7. NodeOf(r.method, q) = n
    <3>1. PICK m : m = NodeOf(r.method, q)
      OBVIOUS
    <3>2. /\ m \in Seq(Step) /\ Len(m) = Len(q) + 1 /\ m[1] = r.method
          /\ \A k \in 1..Len(q) : m[k + 1] = IF q[k] \in Names THEN Param ELSE q[k]
      BY <2>2, <2>4, <3>1, NodeOfPattern
    <3>3. /\ n \in Seq(Step) /\ Len(n) = Len(p) + 1 /\ n[1] = r.method
          /\ \A k \in 1..Len(p) : n[k + 1] = IF p[k] \in Names THEN Param ELSE p[k]
      BY <1>1, <2>4, NodeOfPattern
    <3>4. ASSUME NEW k \in 1..Len(n) PROVE m[k] = n[k]
      <4>1. CASE k = 1
        BY <3>2, <3>3, <4>1
      <4>2. CASE k # 1
        <5>1. PICK a \in 1..Len(r.path) : k = a + 1
          <6>1. k - 1 \in 1..Len(r.path) /\ k = (k - 1) + 1
            BY <1>1, <2>4, <3>3, <4>2
          <6> QED BY <6>1
        <5>2. q[a] = p[a] \/ (q[a] \in Names /\ p[a] \in Names)
          BY <2>6
        <5> QED BY <1>1, <2>2, <3>2, <3>3, <5>1, <5>2, Zenon
      <4> QED BY <4>1, <4>2
    <3>5. Len(m) = Len(n)
      BY <1>1, <2>2, <3>2, <3>3
    <3>6. m = n
      BY <3>2, <3>3, <3>4, <3>5, SeqEqual
    <3> QED BY <3>1, <3>6
  <2>8. EndsAt(j, n)
    <3>1. r.method \in table[j].methods
      BY <2>2, Zenon DEF Table!Serves
    <3> QED BY <2>1, <2>7, <3>1, Zenon DEF EndsAt
  <2> QED BY <1>1, <2>2, <2>8, Zenon DEF ImplInv, TreeOfTable
<1> DEFINE W == {i \in Table!Serving(r) :
                   \A j \in Table!Serving(r) : ~Table!MoreLiteral(Table!Pattern(j), Table!Pattern(i))}
<1>6. h \in W /\ \A j \in W : j <= h /\ j \in Nat
  <2>1. \A j \in Table!Serving(r) : j \in Nat
    BY DEF Table!Serving
  <2> QED BY <1>2, <1>4, <1>5, <2>1, Zenon
<1>7. Table!Winner(r) = Max(W)
  BY Zenon DEF Table!Winner, Max, Table!Max
<1> HIDE DEF W
<1>8. \A y \in W : h >= y
  BY <1>6
<1>9. Max(W) \in W /\ \A y \in W : Max(W) >= y
  BY <1>6, <1>8, Zenon DEF Max
<1>10. Max(W) = h
  BY <1>6, <1>9
<1> QED BY <1>2, <1>7, <1>10, Zenon

(* The name a parameter node on the way has is the one the table gives its *)
(* place.                                                                  *)
LEMMA FoundName ==
  ASSUME TrieInv, ImplInv, request # NoRequest,
         NEW n, n = Top.node, NEW h, NEW p, NEW r, r = request, Found(n, h, p, r),
         NEW k \in 1..Len(r.path), p[k] \in Names
  PROVE  Table!NameAt(r.method, p, k) = Bound(k + 1)
<1>1. /\ n \in Seq(Step) /\ p \in Seq(Literals \cup Names) /\ Len(p) = Len(r.path)
      /\ Len(n) = Len(p) + 1 /\ Len(stack) = Len(p) + 2 /\ n[1] = r.method
      /\ \A a \in 1..Len(p) : /\ n[a + 1] = IF p[a] \in Names THEN Param ELSE p[a]
                              /\ a + 1 \in Binders <=> p[a] \in Names
      /\ \A a \in 1..Len(p) : p[a] \in Literals \cup Names
  <2>1. p \in Seq(Literals \cup Names)
    BY Zenon DEF Found
  <2>2. \A a \in 1..Len(p) : p[a] \in Literals \cup Names
    BY <2>1, ElementOfSeq
  <2> QED BY <2>2, Zenon DEF Found
<1>2. r.method \in Methods /\ Len(r.path) \in Nat
  <2>1. r \in Requests
    BY SearchFacts
  <2> QED BY <2>1, SegmentsAre
<1>3. PICK i, s, c : i = k + 1 /\ s = stack[k + 1].node /\ c = Append(s, Param)
  OBVIOUS
<1>4. i \in Binders /\ i \in 1..Len(stack) /\ Bound(k + 1) = pname[c]
  <2>1. i \in Binders
    BY <1>1, <1>3, Zenon
  <2> QED BY <1>3, <2>1, Zenon DEF Binders, Bound
<1>5. /\ s \in Seq(Step) /\ Len(s) = k /\ \A a \in 1..k : s[a] = n[a]
  <2>1. s \in Seq(Step) /\ Len(s) = i - 1
    BY <1>3, <1>4, FrameFacts
  <2>2. Len(s) = k
    BY <1>2, <1>3, <2>1
  <2>3. Below(n, s)
    BY <1>3, <1>4, Zenon DEF ImplInv, SearchedInv
  <2> QED BY <2>1, <2>2, <2>3, Zenon DEF Below
<1>6. c \in nodes
  BY <1>3, <1>4, Zenon DEF TrieInv, SearchInv, FrameInv
<1>7. /\ c \in Seq(Step) /\ Len(c) = k + 1 /\ c[k + 1] = Param
      /\ \A a \in 1..k : c[a] = n[a]
  <2>1. Param \in Step /\ Param \in Step \cup Values
    BY Zenon DEF Step
  <2>2. /\ Len(c) = k + 1 /\ c[k + 1] = Param /\ \A a \in 1..k : c[a] = s[a]
    <3>1. /\ Len(Append(s, Param)) = Len(s) + 1 /\ Append(s, Param)[Len(s) + 1] = Param
          /\ \A a \in 1..Len(s) : Append(s, Param)[a] = s[a]
      BY <1>5, <2>1, ChildFacts
    <3> QED BY <1>3, <1>5, <3>1, Zenon
  <2>3. c \in Seq(Step)
    BY <1>6, Zenon DEF TrieInv, NodeInv, Step
  <2> QED BY <1>5, <2>2, <2>3, Zenon
<1>8. c # Root /\ IsParam(c) /\ Len(c) - 1 = k
  <2>1. c # Root
    <3>1. Len(Root) = 0
      BY DEF Root
    <3> QED BY <1>2, <1>7, <3>1
  <2> QED BY <1>2, <1>7, <2>1 DEF IsParam
<1>9. /\ \A a \in 1..(k + 1) : a \in 1..k \/ a = k + 1
      /\ \A a \in 1..(k + 1) : a = 1 \/ \E b \in 1..k : a = b + 1
      /\ \A b \in 1..k : b \in 1..Len(p) /\ b + 1 \in 1..(k + 1) /\ 1 \in 1..(k + 1)
      /\ k \in 1..k /\ k \in Nat
  <2>1. \A a \in 1..(k + 1) : a = 1 \/ (a - 1 \in 1..k /\ a = (a - 1) + 1)
    BY <1>2
  <2>2. \A a \in 1..(k + 1) : a = 1 \/ \E b \in 1..k : a = b + 1
    BY <2>1
  <2> QED BY <1>1, <1>2, <2>2
<1>10. \A a \in 1..(k + 1) : c[a] = n[a]
  <2>1. n[k + 1] = Param
    BY <1>1, Zenon
  <2> QED BY <1>7, <1>9, <2>1, Zenon
<1> DEFINE Shares(j) == /\ r.method \in table[j].methods
                        /\ Len(Table!Pattern(j)) >= k
                        /\ Table!SameUpTo(Table!Pattern(j), p, k)
<1>11. ASSUME NEW j \in 1..Len(table)
       PROVE  Through(j, c) <=> Shares(j)
  <2>1. PICK q : q = table[j].pattern
    OBVIOUS
  <2>2. /\ q \in Seq(Literals \cup Names) /\ Len(q) \in Nat /\ table[j].methods \subseteq Methods
        /\ Table!Pattern(j) = q
    BY <2>1, EntryFacts DEF TrieInv, Table!Pattern
  <2>3. ASSUME NEW m \in Methods
        PROVE  c \in PathTo(NodeOf(m, q)) <=>
                 /\ m = r.method /\ Len(q) >= k
                 /\ \A a \in 1..k : q[a] = p[a] \/ (q[a] \in Names /\ p[a] \in Names)
    <3>1. PICK e : e = NodeOf(m, q)
      OBVIOUS
    <3>2. /\ e \in Seq(Step) /\ Len(e) = Len(q) + 1 /\ e[1] = m
          /\ \A a \in 1..Len(q) : e[a + 1] = IF q[a] \in Names THEN Param ELSE q[a]
      BY <2>2, <3>1, NodeOfPattern
    <3>3. c \in PathTo(e) <=> Below(e, c)
      BY <1>7, <3>2, InPathTo
    <3>4. Below(e, c) <=> Len(q) >= k /\ \A a \in 1..(k + 1) : e[a] = n[a]
      <4>1. k + 1 <= Len(e) <=> Len(q) >= k
        BY <1>2, <2>2, <3>2
      <4> QED BY <1>7, <1>10, <4>1, Zenon DEF Below
    <3>5. ASSUME Len(q) >= k, NEW a \in 1..k
          PROVE  e[a + 1] = n[a + 1] <=> (q[a] = p[a] \/ (q[a] \in Names /\ p[a] \in Names))
      <4>1. a \in 1..Len(q) /\ a \in 1..Len(p)
        BY <1>9, <2>2, <3>5
      <4>2. /\ e[a + 1] = IF q[a] \in Names THEN Param ELSE q[a]
            /\ n[a + 1] = IF p[a] \in Names THEN Param ELSE p[a]
        BY <1>1, <3>2, <4>1, Zenon
      <4>3. q[a] \in Literals \cup Names /\ p[a] \in Literals \cup Names
        BY <1>1, <2>2, <4>1, ElementOfSeq
      <4>4. Param \notin Literals
        BY SegmentAssumption
      <4> QED BY ONLY <4>2, <4>3, <4>4
    <3>6. ASSUME Len(q) >= k
          PROVE  (\A a \in 1..(k + 1) : e[a] = n[a]) <=>
                   /\ m = r.method
                   /\ \A a \in 1..k : q[a] = p[a] \/ (q[a] \in Names /\ p[a] \in Names)
      <4>1. (\A a \in 1..(k + 1) : e[a] = n[a]) <=> e[1] = n[1] /\ \A a \in 1..k : e[a + 1] = n[a + 1]
        <5>1. 1 \in 1..(k + 1)
          BY <1>9
        <5> QED BY <1>9, <5>1, Zenon
      <4> QED BY <1>1, <3>2, <3>5, <3>6, <4>1, Zenon
    <3> QED BY <3>1, <3>3, <3>4, <3>6, Zenon
  <2>4. Table!SameUpTo(q, p, k) <=> \A a \in 1..k : q[a] = p[a] \/ (q[a] \in Names /\ p[a] \in Names)
    BY Zenon DEF Table!SameUpTo
  <2>5. Shares(j) <=> /\ r.method \in table[j].methods /\ Len(q) >= k
                      /\ \A a \in 1..k : q[a] = p[a] \/ (q[a] \in Names /\ p[a] \in Names)
    BY <2>2, <2>4, Zenon
  <2>6. Through(j, c) <=> \E m \in table[j].methods : c \in PathTo(NodeOf(m, q))
    BY <2>1, Zenon DEF Through
  <2> HIDE DEF Shares
  <2> QED BY <1>2, <2>2, <2>3, <2>5, <2>6, Zenon
<1>12. PICK f \in 1..Len(table) : /\ Through(f, c) /\ pname[c] = table[f].pattern[k]
                                  /\ \A j \in 1..Len(table) : Through(j, c) => f <= j
  <2>1. PICK f \in 1..Len(table) : /\ Through(f, c) /\ pname[c] = table[f].pattern[Len(c) - 1]
                                   /\ \A j \in 1..Len(table) : Through(j, c) => f <= j
    BY <1>6, <1>8, Zenon DEF ImplInv, TreeOfTable
  <2> QED BY <1>8, <2>1
<1> DEFINE Sharing == {j \in 1..Len(table) : Shares(j)}
<1>13. f \in Sharing /\ \A j \in Sharing : f <= j /\ j \in Nat
  <2> HIDE DEF Shares
  <2>1. f \in Sharing /\ \A j \in Sharing : f <= j
    BY <1>11, <1>12, Zenon
  <2> QED BY <2>1
<1>14. Table!NameAt(r.method, p, k) = Table!Pattern(Min(Sharing))[k]
  BY Zenon DEF Table!NameAt, Min, Table!Min
<1> HIDE DEF Sharing
<1>15. Min(Sharing) = f
  <2>1. \A y \in Sharing : f <= y
    BY <1>13
  <2>2. Min(Sharing) \in Sharing /\ \A y \in Sharing : Min(Sharing) <= y
    BY <1>13, <2>1, Zenon DEF Min
  <2>3. /\ f \in Nat /\ Min(Sharing) \in Nat /\ f <= Min(Sharing) /\ Min(Sharing) <= f
    BY <1>13, <2>2, Zenon
  <2> QED BY ONLY <2>3
<1> QED BY <1>4, <1>12, <1>14, <1>15, Zenon DEF Table!Pattern

LEMMA FoundBinding ==
  ASSUME TrieInv, ImplInv, request # NoRequest, AtEnd,
         NEW n, n = Top.node, NEW h, h = handler[n], h # 0, NEW r, r = request
  PROVE  params = Table!Binding(r, h)
<1>0. PICK p : p = table[h].pattern
  OBVIOUS
<1>1. Found(n, h, p, r)
  BY <1>0, FoundNode
<1>2. /\ Len(p) = Len(r.path) /\ Len(stack) = Len(p) + 2 /\ Table!Pattern(h) = p
      /\ \A k \in 1..Len(p) : k + 1 \in Binders <=> p[k] \in Names
  BY <1>0, <1>1, Zenon DEF Found, Table!Pattern
<1>3. /\ Len(r.path) \in Nat /\ Len(Segments(r)) = Len(r.path) + 1
      /\ \A k \in 1..Len(r.path) : Segments(r)[k + 1] = r.path[k]
  <2>1. r \in Requests
    BY SearchFacts
  <2> QED BY <2>1, SegmentsAre
<1>4. ParamsInv /\ params \in Maps
  BY Zenon DEF TrieInv, SearchInv, TypeOK
<1> DEFINE Places  == {k \in 1..Len(r.path) : p[k] \in Names}
           Name(k) == Table!NameAt(r.method, p, k)
<1>5. ASSUME NEW k \in Places
      PROVE  /\ k \in Nat /\ k + 1 \in Binders /\ Name(k) = Bound(k + 1)
             /\ Segments(r)[k + 1] = r.path[k]
  <2>1. k \in 1..Len(r.path) /\ p[k] \in Names /\ k \in Nat
    BY <1>3
  <2>2. Table!NameAt(r.method, p, k) = Bound(k + 1)
    <3>1. /\ TrieInv /\ ImplInv /\ request # NoRequest /\ n = Top.node /\ r = request
          /\ Found(n, h, p, r) /\ k \in 1..Len(r.path) /\ p[k] \in Names
      BY <1>1, <2>1
    <3> QED BY ONLY <3>1, FoundName
  <2> QED BY <1>2, <1>3, <2>1, <2>2, Zenon
<1>6. ASSUME NEW i \in Binders
      PROVE  \E k \in Places : i = k + 1
  <2>1. i \in 2..Len(Segments(r))
    BY SearchFacts
  <2>2. i - 1 \in 1..Len(r.path) /\ i = (i - 1) + 1
    BY <1>3, <2>1
  <2>3. i - 1 \in Places
    <3>1. PICK k \in 1..Len(r.path) : i = k + 1 /\ k = i - 1
      BY <2>2
    <3>2. p[k] \in Names
      BY <1>2, <3>1, Zenon
    <3> QED BY <3>1, <3>2, Zenon
  <2> QED BY <2>2, <2>3, Zenon
<1> HIDE DEF Places, Name
<1>7. DOMAIN params = {Name(k) : k \in Places}
  <2>1. DOMAIN params = {Bound(i) : i \in Binders}
    BY <1>4, Zenon DEF ParamsInv
  <2>2. ASSUME NEW i \in Binders PROVE Bound(i) \in {Name(k) : k \in Places}
    <3>1. PICK k \in Places : i = k + 1
      BY <1>6
    <3>2. Bound(i) = Name(k)
      BY <1>5, <3>1
    <3> QED BY <3>2
  <2>3. ASSUME NEW k \in Places PROVE Name(k) \in {Bound(i) : i \in Binders}
    BY <1>5
  <2> QED BY <2>1, <2>2, <2>3
<1>8. ASSUME NEW x \in DOMAIN params
      PROVE  params[x] = r.path[Max({k \in Places : Name(k) = x})]
  <2>1. PICK i \in Binders : BoundLast(x, i, Len(stack) + 1) /\ params[x] = Segments(r)[i]
    BY <1>4, Zenon DEF ParamsInv
  <2>2. PICK k \in Places : i = k + 1
    BY <1>6
  <2> DEFINE S == {a \in Places : Name(a) = x}
  <2>3. k \in S
    BY <1>5, <2>1, <2>2, Zenon DEF BoundLast
  <2>4. ASSUME NEW a \in S PROVE a <= k /\ a \in Nat
    <3>1. a \in Places /\ a \in Nat /\ k \in Nat /\ a + 1 \in Binders /\ Bound(a + 1) = x
      BY <1>5, Zenon
    <3>2. a + 1 < Len(stack) + 1
      <4>1. a + 1 \in 1..Len(stack) /\ Len(stack) \in Nat
        BY <3>1, SearchFacts
      <4> QED BY <4>1
    <3>3. a + 1 <= i
      BY <2>1, <3>1, <3>2, Zenon DEF BoundLast
    <3> QED BY <2>2, <3>1, <3>3
  <2> HIDE DEF S
  <2>5. Max(S) = k
    <3>1. \A y \in S : k >= y
      BY <2>3, <2>4
    <3>2. Max(S) \in S /\ \A y \in S : Max(S) >= y
      BY <2>3, <3>1, Zenon DEF Max
    <3>3. k \in Nat /\ Max(S) \in Nat /\ Max(S) <= k /\ Max(S) >= k
      BY <2>3, <2>4, <3>2, Zenon
    <3> QED BY ONLY <3>3
  <2>6. params[x] = r.path[k]
    BY <1>5, <2>1, <2>2, Zenon
  <2> QED BY <2>5, <2>6, Zenon DEF S
<1>9. params = [x \in DOMAIN params |-> params[x]]
  BY <1>4, Zenon DEF Maps
<1>10. params = [x \in {Name(k) : k \in Places} |-> r.path[Max({k \in Places : Name(k) = x})]]
  BY <1>7, <1>8, <1>9, Zenon
<1>11. \A S : Table!Max(S) = Max(S)
  BY DEF Max, Table!Max
<1>12. Table!Binding(r, h) = [x \in {Name(k) : k \in Places} |->
                                r.path[Table!Max({k \in Places : Name(k) = x})]]
  BY <1>2 DEF Table!Binding, Places, Name
<1> QED BY <1>10, <1>11, <1>12, Zenon

-----------------------------------------------------------------------------
(* Each step of the trie is one of the table, or none that it sees.        *)

LEMMA ReplyIs ==
  ASSUME request # NoRequest, answer' = Table!Resolve(request), request' = NoRequest,
         UNCHANGED table
  PROVE  Table!Next
BY Zenon DEF Table!Next, Table!Reply, Table!NoRequest, NoRequest

LEMMA ImplementsStep ==
  ASSUME TrieInv, ImplInv, [Next]_vars
  PROVE  [Table!Next]_(Table!vars)
<1>1. ASSUME NEW verb \in Verbs, NEW pattern \in Patterns, Register(verb, pattern)
      PROVE  Table!Next
  <2>1. MethodsOf(verb) = Table!MethodsOf(verb)
    BY Zenon DEF MethodsOf, Table!MethodsOf, Methods, Table!Methods
  <2>2. Table!Register(verb, pattern)
    BY <1>1, <2>1, Zenon DEF Register, Insert, Table!Register, NoRequest, Table!NoRequest
  <2> QED BY <2>2, Zenon DEF Table!Next
<1>2. ASSUME NEW r \in Requests, Lookup(r)
      PROVE  Table!Next
  <2>1. Table!Ask(r)
    BY <1>2, Zenon DEF Lookup, trie, Table!Ask, NoRequest, Table!NoRequest,
                       Miss, Table!Miss, NoParams
  <2> QED BY <2>1, Zenon DEF Table!Next
<1>3. ASSUME Hit
      PROVE  Table!Next
  <2>1. PICK n, h, r : n = Top.node /\ h = handler[n] /\ r = request
    OBVIOUS
  <2>2. /\ request # NoRequest /\ AtEnd /\ h # 0 /\ request' = NoRequest /\ table' = table
        /\ answer' = [handler |-> h, params |-> params]
    BY <1>3, <2>1, Zenon DEF Hit, trie
  <2>3. h \in Table!Serving(r) /\ Table!Winner(r) = h
    BY <2>1, <2>2, FoundWinner
  <2>4. params = Table!Binding(r, h)
    BY <2>1, <2>2, FoundBinding
  <2>5. Table!Resolve(r) = [handler |-> h, params |-> params]
    BY <2>3, <2>4, Zenon DEF Table!Resolve
  <2> QED BY <2>1, <2>2, <2>5, ReplyIs, Zenon
<1>4. ASSUME NoHandler \/ NoParamChild \/ Undo
      PROVE  [Table!Next]_(Table!vars)
  <2>1. request # NoRequest /\ ReturnNull /\ table' = table /\ Fruitless(Top.node)
    BY <1>4, ReturnsFruitless, Zenon DEF trie
  <2>2. CASE Len(stack) = 1
    <3>1. Table!Serving(request) = {}
      BY <2>1, <2>2, NothingServes
    <3>2. Table!Resolve(request) = Miss
      BY <3>1, Zenon DEF Table!Resolve, Table!Miss, Miss, NoParams
    <3>3. answer' = Miss /\ request' = NoRequest
      BY <2>1, <2>2, Zenon DEF ReturnNull, ImplInv, SearchedInv
    <3> QED BY <2>1, <3>2, <3>3, ReplyIs, Zenon
  <2>3. CASE Len(stack) # 1
    BY <2>1, <2>3, Zenon DEF ReturnNull, Table!vars
  <2> QED BY <2>2, <2>3
<1>5. CASE TryLiteral \/ TryParam
  BY <1>5, Zenon DEF TryLiteral, TryParam, trie, Table!vars
<1>6. CASE UNCHANGED vars
  BY <1>6, Zenon DEF vars, trie, Table!vars
<1> QED BY <1>1, <1>2, <1>3, <1>4, <1>5, <1>6, Zenon DEF Next, Search

(* Whatever routes are registered, in any order and with any patterns, what *)
(* getHandler answers is what the list of registrations decides: the trie,  *)
(* its dead ends and its backtracking (trie.cpp:60-97,                      *)
(* RouteRegistry.cpp:9-20) never show.                                      *)
THEOREM AnswersFromTable == Spec => Table!SafeSpec
<1>1. Init => Table!Init
  BY Zenon DEF Init, Table!Init, NoRequest, Table!NoRequest, Miss, Table!Miss, NoParams
<1>2. Init => TrieInv /\ ImplInv
  BY TrieInvInit, TreeInit
<1>3. TrieInv /\ ImplInv /\ [Next]_vars => (TrieInv /\ ImplInv)'
  BY TrieInvStep, ImplInvStep
<1>4. TrieInv /\ ImplInv /\ [Next]_vars => [Table!Next]_(Table!vars)
  BY ImplementsStep
<1> QED BY <1>1, <1>2, <1>3, <1>4, PTL DEF Spec, Table!SafeSpec
=============================================================================
