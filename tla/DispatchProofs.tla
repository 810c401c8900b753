--------------------------- MODULE DispatchProofs ---------------------------
(***************************************************************************)
(* Theorems about Dispatch, for any paths, scopes and mount points, and    *)
(* any number of routes and calls of use().                                *)
(***************************************************************************)
EXTENDS Dispatch, SequenceTheorems, TLAPS

LEMMA PathsAreText == Paths \cup Scopes \cup MountPaths \subseteq Text
<1> SUFFICES ASSUME NEW p \in Paths \cup Scopes \cup MountPaths PROVE p \in Text
  OBVIOUS
<1>1. p \in Seq(Range(p))
  BY DispatchAssumption
<1> DEFINE All == {"/"} \cup UNION {Range(q) : q \in Paths \cup Scopes \cup MountPaths}
<1>2. Range(p) \subseteq All
  OBVIOUS
<1>3. p \in Seq(All)
  <2> HIDE DEF All
  <2> QED BY <1>1, <1>2
<1> QED BY <1>3 DEF Text

(* A router gets a path with a slash in front, whatever the mount path.      *)
LEMMA AfterFacts ==
    ASSUME NEW p \in Text, NEW n \in Nat, n <= Len(p)
    PROVE  After(p, n) \in Text /\ After(p, n) # <<>> /\ After(p, n)[1] = "/"
<1> DEFINE All == {"/"} \cup UNION {Range(q) : q \in Paths \cup Scopes \cup MountPaths}
<1>1. "/" \in All
  OBVIOUS
<1> HIDE DEF All
<1>2. p \in Seq(All)
  BY DEF Text, All
<1> DEFINE rest == SubSeq(p, n + 1, Len(p))
<1>3. rest \in Seq(All)
  BY <1>2
<1>4. CASE rest = <<>> \/ rest[1] # "/"
  <2>1. Slash \o rest \in Seq(All) /\ Slash \o rest # <<>> /\ (Slash \o rest)[1] = "/"
    BY <1>1, <1>3 DEF Slash
  <2> QED BY <1>4, <2>1 DEF After, Text, All
<1>5. CASE rest # <<>> /\ rest[1] = "/"
  BY <1>3, <1>5 DEF After, Text, All
<1> QED BY <1>4, <1>5

LEMMA NormalizedIsText ==
    ASSUME NEW p \in MountPaths
    PROVE  Normalized(p) \in Text
<1> DEFINE All == {"/"} \cup UNION {Range(q) : q \in Paths \cup Scopes \cup MountPaths}
<1>1. "/" \in All
  OBVIOUS
<1>2. p \in Seq(All)
  BY PathsAreText DEF Text
<1> HIDE DEF All
<1>3. Slash \in Seq(All) /\ Slash \o p \in Seq(All)
  BY <1>1, <1>2 DEF Slash
<1>4. \A q \in Seq(All) : Len(q) > 1 => SubSeq(q, 1, Len(q) - 1) \in Seq(All)
  OBVIOUS
<1>5. Normalized(p) \in Seq(All)
  BY <1>2, <1>3, <1>4 DEF Normalized, Front
<1> QED BY <1>5 DEF Text, All

(* The relative path is what is left of a path below the mount point: the    *)
(* segment boundary of HttpServer.cpp:298-302 makes it so.                   *)
LEMMA RelativeIsBelow ==
    ASSUME NEW p \in Text, NEW mount \in Text, Covers(mount, p)
    PROVE  IsBelow(p, mount, Relative(mount, p))
<1> DEFINE All == {"/"} \cup UNION {Range(q) : q \in Paths \cup Scopes \cup MountPaths}
<1>1. "/" \in All
  OBVIOUS
<1>2. p \in Seq(All) /\ mount \in Seq(All)
  BY DEF Text
<1> HIDE DEF All
<1> DEFINE rest == SubSeq(p, Len(mount) + 1, Len(p))
<1>3. CASE mount = Slash
  BY <1>3 DEF IsBelow, Relative
<1>4. CASE mount # Slash /\ p = mount
  <2>1. rest = <<>>
    BY <1>2, <1>4
  <2>2. Slash \o <<>> = Slash
    BY DEF Slash
  <2> QED BY <1>4, <2>1, <2>2 DEF IsBelow, Relative, After
<1>5. CASE mount # Slash /\ p # mount
  <2>1. IsPrefix(mount \o Slash, p)
    BY <1>5 DEF Covers
  <2>2. Len(mount \o Slash) = Len(mount) + 1 /\ Len(mount) \in Nat /\ Len(p) \in Nat
    BY <1>2 DEF Slash
  <2>3. Len(mount) + 1 <= Len(p)
    BY <2>1, <2>2 DEF IsPrefix
  <2>4. \A i \in 1..Len(mount) + 1 : p[i] = (mount \o Slash)[i]
    <3> TAKE i \in 1..Len(mount) + 1
    <3>1. SubSeq(mount \o Slash, 1, Len(mount) + 1)[i] = (mount \o Slash)[i]
      BY <1>1, <1>2, <2>2 DEF Slash
    <3>2. SubSeq(p, 1, Len(mount) + 1)[i] = p[i]
      BY <1>2, <2>2, <2>3
    <3> QED BY <2>1, <2>2, <3>1, <3>2 DEF IsPrefix
  <2>5. \A i \in 1..Len(mount) : p[i] = mount[i]
    BY <1>2, <2>2, <2>4 DEF Slash
  <2>6. p[Len(mount) + 1] = "/"
    BY <1>2, <2>2, <2>4 DEF Slash
  <2>7. rest \in Seq(All) /\ Len(rest) = Len(p) - Len(mount) /\ rest[1] = "/"
    BY <1>2, <2>2, <2>3, <2>6
  <2>8. p = mount \o rest
    <3> DEFINE whole == mount \o rest
    <3>1. Len(whole) = Len(p) /\ whole \in Seq(All)
      BY <1>2, <2>2, <2>7
    <3>2. ASSUME NEW i \in 1..Len(p) PROVE p[i] = whole[i]
      <4>1. CASE i <= Len(mount)
        BY <1>2, <2>2, <2>5, <2>7, <4>1
      <4>2. CASE i > Len(mount)
        BY <1>2, <2>2, <2>3, <2>7, <4>2
      <4> QED BY <2>2, <4>1, <4>2
    <3> HIDE DEF whole
    <3>3. p = whole
      BY <1>2, <3>1, <3>2, SeqEqual
    <3> QED BY <3>3 DEF whole
  <2>9. rest # <<>>
    <3>1. Len(rest) # 0
      BY <2>2, <2>3, <2>7
    <3> HIDE DEF rest
    <3> QED BY <3>1, EmptySeq
  <2>10. Relative(mount, p) = rest
    BY <1>5, <2>7, <2>9 DEF Relative, After
  <2> QED BY <1>5, <2>8, <2>10 DEF IsBelow
<1> QED BY <1>3, <1>4, <1>5

LEMMA RelativeFacts ==
    ASSUME NEW p \in Text, NEW mount \in Text, Covers(mount, p), p # <<>>, p[1] = "/"
    PROVE  Relative(mount, p) \in Text /\ Relative(mount, p) # <<>>
           /\ Relative(mount, p)[1] = "/"
<1>1. p = mount \/ IsPrefix(mount \o Slash, p) \/ mount = Slash
  BY DEF Covers
<1>2. mount # Slash => Len(mount) \in Nat /\ Len(mount) <= Len(p)
  BY <1>1 DEF IsPrefix, Slash, Text
<1> QED BY <1>2, AfterFacts DEF Relative

-----------------------------------------------------------------------------
(* What the steps do to the stack.                                           *)

LEMMA FrontFacts ==
    ASSUME NEW S, NEW s \in Seq(S), s # <<>>
    PROVE  /\ Front(s) \in Seq(S) /\ Len(Front(s)) = Len(s) - 1
           /\ Len(s) \in Nat \ {0}
           /\ \A i \in 1..Len(s) - 1 : Front(s)[i] = s[i]
<1>1. Len(s) \in Nat \ {0}
  BY EmptySeq
<1>2. \A i \in 1..Len(s) - 1 : s[i] \in S
  BY <1>1, ElementOfSeq
<1>3. 1 \in Int /\ Len(s) - 1 \in Int /\ (Len(s) - 1) - 1 + 1 = Len(s) - 1
  BY <1>1
<1> DEFINE f == SubSeq(s, 1, Len(s) - 1)
<1>4. f \in Seq(S) /\ Len(f) = IF 1 <= Len(s) - 1 THEN (Len(s) - 1) - 1 + 1 ELSE 0
  BY <1>2, <1>3, SubSeqProperties
<1>5. \A i \in 1..Len(s) - 1 : f[i] = s[i]
  BY <1>1
<1>6. Front(s) = f
  BY DEF Front
<1> HIDE DEF f
<1>7. Len(f) = Len(s) - 1
  BY <1>1, <1>4
<1> QED BY <1>1, <1>4, <1>5, <1>6, <1>7

LEMMA TopFacts ==
    ASSUME StackInv, ~Idle
    PROVE  Len(stack) \in Nat \ {0} /\ Top \in Frames /\ stack[Len(stack)] = Top
  BY DEF StackInv, Idle, Top

LEMMA ReturnFacts ==
    ASSUME StackInv, ~Idle, Return
    PROVE  /\ stack' \in Seq(Frames) /\ Len(stack') = Len(stack) - 1
           /\ \A i \in 1..Len(stack) - 1 : stack'[i] = stack[i]
<1>1. stack \in Seq(Frames) /\ stack # <<>>
  BY DEF StackInv, Idle
<1> QED BY <1>1, FrontFacts DEF Return

LEMMA GotoFacts ==
    ASSUME StackInv, ~Idle, NEW f \in Frames, Goto(f)
    PROVE  /\ stack' \in Seq(Frames) /\ Len(stack') = Len(stack)
           /\ stack'[Len(stack)] = f
           /\ \A i \in 1..Len(stack) - 1 : stack'[i] = stack[i]
<1> DEFINE rest == Front(stack)
<1>0. stack \in Seq(Frames) /\ stack # <<>>
  BY DEF StackInv, Idle
<1>1. /\ rest \in Seq(Frames) /\ Len(rest) = Len(stack) - 1
      /\ \A i \in 1..Len(stack) - 1 : rest[i] = stack[i]
  BY <1>0, FrontFacts
<1>2. stack' = Append(rest, f)
  BY DEF Goto
<1> HIDE DEF rest
<1> QED BY <1>1, <1>2, TopFacts, AppendProperties

LEMMA StackFacts ==
    ASSUME DispatchInv
    PROVE  \A i \in 1..Len(stack) :
             InChain(stack[i]) /\ FrameInv(stack[i])
<1>1. stack \in Seq(Frames)
  BY DEF DispatchInv, StackInv
<1>2. DOMAIN stack = 1..Len(stack)
  BY <1>1
<1>3. \A i \in 1..Len(stack) : InChain(stack[i])
  BY <1>2 DEF DispatchInv, TypeOK
<1> QED BY <1>3 DEF DispatchInv, StackInv

LEMMA TopInChain ==
    ASSUME DispatchInv, ~Idle
    PROVE  InChain(Top) /\ FrameInv(Top)
<1>1. Len(stack) \in 1..Len(stack) /\ stack[Len(stack)] = Top
  BY TopFacts DEF DispatchInv
<1> QED BY <1>1, StackFacts

(* The code on top of the stack may run, on the path it has.                 *)
MayRun(f, p) ==
  f.next = "not called" =>
    IF f.chain = Server THEN p = received
    ELSE IsBelow(received, queue[Server][f.mount].prefix, p)

(* A step of the server keeps the invariant when the new top frame may run.  *)
LEMMA ServeInv ==
    ASSUME DispatchInv, ~Idle, UNCHANGED <<config, received>>,
           path' \in Text, path' # <<>>, path'[1] = "/",
           stack' \in Seq(Frames),
           \A i \in 1..Len(stack') - 1 : stack'[i].next = "called",
           \A i \in 1..Len(stack') :
             InChain(stack'[i]) /\ FrameInv(stack'[i]),
           stack' # <<>> => MayRun(stack'[Len(stack')], path')
    PROVE  DispatchInv'
<1>1. queue' = queue /\ routes' = routes /\ uses' = uses /\ received' = received
  BY DEF config
<1>2. TypeOK'
  <2>0. DOMAIN stack' = 1..Len(stack')
    OBVIOUS
  <2>1. \A i \in DOMAIN stack' : InChain(stack[i])'
    BY <1>1, <2>0 DEF InChain, ChainOf
  <2> QED BY <1>1, <2>1 DEF DispatchInv, TypeOK, Own, Subs, Mounts
<1>3. StackInv'
  <2>1. \A i \in 1..Len(stack') : FrameInv(stack[i])'
    BY <1>1 DEF FrameInv, ChainOf
  <2> QED BY <1>1, <2>1 DEF DispatchInv, StackInv, Text
<1>4. CalledWithOwnPath'
  BY <1>1 DEF CalledWithOwnPath, MayRun, Idle, Top, Mount
<1> QED BY <1>2, <1>3, <1>4 DEF DispatchInv

LEMMA GotoInv ==
    ASSUME DispatchInv, ~Idle, UNCHANGED <<config, received>>,
           path' \in Text, path' # <<>>, path'[1] = "/",
           NEW f \in Frames, Goto(f), InChain(f),
           FrameInv(f),
           MayRun(f, path')
    PROVE  DispatchInv'
<1>1. /\ stack' \in Seq(Frames) /\ Len(stack') = Len(stack)
      /\ stack'[Len(stack)] = f
      /\ \A i \in 1..Len(stack) - 1 : stack'[i] = stack[i]
      /\ Len(stack) \in Nat \ {0}
  BY GotoFacts, TopFacts DEF DispatchInv
<1>2. \A i \in 1..Len(stack') - 1 : stack'[i].next = "called"
  BY <1>1 DEF DispatchInv, StackInv
<1>3. \A i \in 1..Len(stack') :
        InChain(stack'[i]) /\ FrameInv(stack'[i])
  BY <1>1, StackFacts
<1> QED BY <1>1, <1>2, <1>3, ServeInv

LEMMA ReturnInv ==
    ASSUME DispatchInv, ~Idle, UNCHANGED <<config, received, path>>,
           Return \/ stack' = <<>>
    PROVE  DispatchInv'
<1>p. path' \in Text /\ path' # <<>> /\ path'[1] = "/"
  BY DEF DispatchInv, TypeOK, StackInv
<1>1. CASE stack' = <<>>
  BY <1>1, <1>p, ServeInv
<1>2. CASE Return
  <2>1. /\ stack' \in Seq(Frames) /\ Len(stack') = Len(stack) - 1
        /\ \A i \in 1..Len(stack) - 1 : stack'[i] = stack[i]
        /\ Len(stack) \in Nat \ {0}
    BY <1>2, ReturnFacts, TopFacts DEF DispatchInv
  <2>2. \A i \in 1..Len(stack') : stack'[i].next = "called"
    BY <2>1 DEF DispatchInv, StackInv
  <2>3. \A i \in 1..Len(stack') :
          InChain(stack'[i]) /\ FrameInv(stack'[i])
    BY <2>1, StackFacts
  <2>4. stack' # <<>> => MayRun(stack'[Len(stack')], path')
    <3>1. stack' # <<>> => Len(stack') \in 1..Len(stack')
      BY <2>1, EmptySeq
    <3> QED BY <2>2, <3>1 DEF MayRun
  <2> QED BY <1>p, <2>1, <2>2, <2>3, <2>4, ServeInv
<1> QED BY <1>1, <1>2

(* The frame of the next entry of the same chain.                            *)
LEMMA NextFrameFacts ==
    ASSUME StackInv, ~Idle
    PROVE  /\ NextFrame \in Frames
           /\ NextFrame.chain = Top.chain /\ NextFrame.mount = Top.mount
           /\ NextFrame.index = Top.index + 1 /\ NextFrame.original = Top.original
           /\ NextFrame.next = "not called"
<1>1. <<>> \in Text
  BY DEF Text
<1>2. /\ Top.chain \in {Server, Router} /\ Top.index \in Nat /\ Top.mount \in Nat
      /\ Top.original \in Text
  BY TopFacts DEF Frames
<1> QED BY <1>1, <1>2 DEF NextFrame, Frame, Frames

(* Going on in the chain, on the same path.                                  *)
LEMMA GoOnInv ==
    ASSUME DispatchInv, ~Idle, UNCHANGED <<config, received, path>>,
           Top.next = "not called", Goto(NextFrame), InChain(NextFrame)
    PROVE  DispatchInv'
<1>1. path' \in Text /\ path' # <<>> /\ path'[1] = "/"
  BY DEF DispatchInv, TypeOK, StackInv
<1>2. FrameInv(NextFrame)
  BY TopInChain, NextFrameFacts DEF DispatchInv, FrameInv
<1>3. MayRun(NextFrame, path')
  BY NextFrameFacts DEF DispatchInv, CalledWithOwnPath, MayRun, Mount
<1> QED BY <1>1, <1>2, <1>3, NextFrameFacts, GotoInv DEF DispatchInv

(* What the top frame's chain holds: only the server's has mounts.           *)
LEMMA ChainFacts ==
    ASSUME DispatchInv, ~Idle
    PROVE  /\ Top.chain \in {Server, Router} /\ Top.index \in Nat \ {0}
           /\ Len(Chain) \in Nat
           /\ Top.index <= Len(Chain) + (IF Top.chain = Server THEN 1 ELSE 2)
           /\ Top.chain = Router => Top.mount \in 1..Len(queue[Server])
           /\ \A k \in 1..Len(Chain) : Chain[k].kind = "mount" =>
                Top.chain = Server /\ Chain[k].prefix \in MountPoints
<1>1. Top.chain \in {Server, Router}
  BY TopFacts DEF DispatchInv, Frames
<1>2. queue[Server] \in Seq(Own \cup Mounts)
  BY DEF DispatchInv, TypeOK
<1>3. CASE Top.chain = Server
  <2>1. Chain = queue[Server]
    BY <1>3 DEF Chain, ChainOf
  <2>2. Len(Chain) \in Nat /\ \A k \in 1..Len(Chain) : Chain[k] \in Own \cup Mounts
    BY <1>2, <2>1
  <2>3. \A k \in 1..Len(Chain) : Chain[k].kind = "mount" => Chain[k].prefix \in MountPoints
    BY <2>2 DEF Own, Mounts
  <2>4. Top.index \in 1..Len(Chain) + 1
    BY <1>3, TopInChain DEF InChain, Chain
  <2> QED BY <1>3, <2>2, <2>3, <2>4, DispatchAssumption
<1>4. CASE Top.chain = Router
  <2>0. Server # Router
    BY DispatchAssumption
  <2>1. Chain = queue[Server][Top.mount].mws
    BY <1>4, <2>0 DEF Chain, ChainOf
  <2>2. Top.mount \in 1..Len(queue[Server])
    BY <1>2, <1>4, TopInChain DEF InChain
  <2>3. queue[Server][Top.mount] \in Own \cup Mounts
    BY <1>2, <2>2
  <2>4. Chain \in Seq(Own \cup Subs)
    <3>1. <<>> \in Seq(Own \cup Subs)
      OBVIOUS
    <3>2. queue[Server][Top.mount].mws \in {<<>>} \cup Seq(Own \cup Subs)
      BY <2>3 DEF Own, Mounts
    <3> QED BY <2>1, <3>1, <3>2
  <2>5. Len(Chain) \in Nat /\ \A k \in 1..Len(Chain) : Chain[k] \in Own \cup Subs
    BY <2>4
  <2>6. \A k \in 1..Len(Chain) : Chain[k].kind # "mount"
    BY <2>5 DEF Own, Subs
  <2>7. Top.index \in 1..Len(Chain) + 2
    BY <1>4, <2>0, TopInChain DEF InChain, Chain
  <2> QED BY <1>4, <2>0, <2>2, <2>5, <2>6, <2>7
<1> QED BY <1>1, <1>3, <1>4

(* There is a place after the one of the top frame.                          *)
LEMMA NextInChain ==
    ASSUME DispatchInv, ~Idle,
           Top.index <= Len(Chain) \/ (Top.chain = Router /\ Top.index = Len(Chain) + 1)
    PROVE  InChain(NextFrame)
<1>1. StackInv
  BY DEF DispatchInv
<1>2. ChainOf(NextFrame) = Chain
  BY <1>1, NextFrameFacts DEF Chain, ChainOf
<1>3. NextFrame.index = Top.index + 1 /\ NextFrame.chain = Top.chain
      /\ NextFrame.mount = Top.mount
  BY <1>1, NextFrameFacts
<1>4. Top.chain = Router => Top.mount \in DOMAIN queue[Server]
  BY TopInChain DEF InChain
<1>5. Top.index + 1 \in 1..Len(Chain) + (IF Top.chain = Server THEN 1 ELSE 2)
  BY ChainFacts, DispatchAssumption
<1> QED BY <1>2, <1>3, <1>4, <1>5 DEF InChain

(* Only middleware wait.                                                     *)
LEMMA NotWaiting ==
    ASSUME DispatchInv, ~Idle, Top.index > Len(Chain) \/ Current.kind # "mw"
    PROVE  Top.next = "not called"
<1>1. Top.next \in {"not called", "called"}
  BY TopFacts DEF DispatchInv, Frames
<1>2. Top.next = "called" => Top.index <= Len(Chain) /\ Current.kind = "mw"
  BY TopInChain DEF FrameInv, Chain, Current
<1>3. Top.index > Len(Chain) => ~(Top.index <= Len(Chain))
  BY ChainFacts
<1> QED BY <1>1, <1>2, <1>3

-----------------------------------------------------------------------------
(* Registering.                                                              *)

LEMMA EntriesGrow ==
    ASSUME DispatchInv, uses' = uses + 1
    PROVE  /\ Own \subseteq Own' /\ Subs \subseteq Subs' /\ Mounts \subseteq Mounts'
           /\ uses + 1 \in 1..uses'
<1>1. 1..uses \subseteq 1..uses' /\ uses + 1 \in 1..uses'
  BY DEF DispatchInv, TypeOK
<1>2. Own \subseteq Own' /\ Subs \subseteq Subs'
  BY <1>1 DEF Own, Subs
<1>3. Seq(Own \cup Subs) \subseteq Seq(Own' \cup Subs')
  <2>1. Own \cup Subs \subseteq Own' \cup Subs'
    BY <1>2
  <2> QED BY <2>1, SeqMonotonic
<1>4. Mounts \subseteq Mounts'
  BY <1>1, <1>3 DEF Mounts
<1> QED BY <1>1, <1>2, <1>4

LEMMA EnqueueInv ==
    ASSUME DispatchInv, NEW owner \in Owners, NEW entry, Enqueue(owner, entry),
           entry \in Own' \cup Subs' \cup Mounts',
           owner = Server => entry \in Own' \cup Mounts',
           owner = Router => entry \in Own' \cup Subs'
    PROVE  DispatchInv'
<1>1. /\ Idle /\ uses' = uses + 1 /\ uses < MaxUses /\ stack' = stack /\ routes' = routes
      /\ queue' = [queue EXCEPT ![owner] = Append(@, entry)]
      /\ path' = <<>> /\ stack = <<>>
  BY DEF Enqueue, Forget, Idle
<1>2. /\ queue \in [Owners -> Seq(Own \cup Subs \cup Mounts)]
      /\ queue[Server] \in Seq(Own \cup Mounts) /\ queue[Router] \in Seq(Own \cup Subs)
  BY DEF DispatchInv, TypeOK
<1>3. /\ \A s \in Seq(Own \cup Subs \cup Mounts) : s \in Seq(Own' \cup Subs' \cup Mounts')
      /\ \A s \in Seq(Own \cup Mounts) : s \in Seq(Own' \cup Mounts')
      /\ \A s \in Seq(Own \cup Subs) : s \in Seq(Own' \cup Subs')
  <2>1. /\ Own \cup Subs \cup Mounts \subseteq Own' \cup Subs' \cup Mounts'
        /\ Own \cup Mounts \subseteq Own' \cup Mounts'
        /\ Own \cup Subs \subseteq Own' \cup Subs'
    BY <1>1, EntriesGrow
  <2> QED BY <2>1, SeqMonotonic
<1>4. queue' \in [Owners -> Seq(Own' \cup Subs' \cup Mounts')]
  <2>1. Append(queue[owner], entry) \in Seq(Own' \cup Subs' \cup Mounts')
    BY <1>2, <1>3, AppendProperties
  <2> QED BY <1>1, <1>2, <1>3, <2>1
<1>5. queue'[Server] \in Seq(Own' \cup Mounts')
  <2>1. owner = Server => Append(queue[Server], entry) \in Seq(Own' \cup Mounts')
    BY <1>2, <1>3, AppendProperties
  <2> QED BY <1>1, <1>2, <1>3, <2>1 DEF Owners
<1>6. queue'[Router] \in Seq(Own' \cup Subs')
  <2>1. owner = Router => Append(queue[Router], entry) \in Seq(Own' \cup Subs')
    BY <1>2, <1>3, AppendProperties
  <2> QED BY <1>1, <1>2, <1>3, <2>1 DEF Owners
<1>7. TypeOK'
  <2>1. uses' \in 0..MaxUses /\ routes' \in [Owners -> SUBSET Paths]
    BY <1>1, DispatchAssumption DEF DispatchInv, TypeOK
  <2>2. Idle' /\ DOMAIN stack' = {}
    BY <1>1 DEF Idle
  <2> QED BY <1>4, <1>5, <1>6, <2>1, <2>2 DEF TypeOK
<1>8. StackInv'
  <2>1. stack' \in Seq(Frames) /\ path' \in Text /\ Idle' /\ Len(stack') = 0
    BY <1>1, EmptySeq DEF Idle, Text
  <2> QED BY <2>1 DEF StackInv, Text
<1>9. CalledWithOwnPath'
  BY <1>1 DEF CalledWithOwnPath, Idle
<1> QED BY <1>7, <1>8, <1>9 DEF DispatchInv

LEMMA InitInv == Init => DispatchInv
<1> SUFFICES ASSUME Init PROVE DispatchInv
  OBVIOUS
<1>1. stack = <<>> /\ Idle /\ path = <<>>
  BY DEF Init, Idle
<1>2. TypeOK
  <2>1. \A S : <<>> \in Seq(S)
    OBVIOUS
  <2>2. queue \in [Owners -> Seq(Own \cup Subs \cup Mounts)]
        /\ queue[Server] = <<>> /\ queue[Router] = <<>>
    BY <2>1 DEF Init, Owners
  <2>3. routes \in [Owners -> SUBSET Paths] /\ uses \in 0..MaxUses
    BY DispatchAssumption DEF Init
  <2>4. DOMAIN stack = {}
    BY <1>1
  <2> QED BY <1>1, <2>1, <2>2, <2>3, <2>4 DEF TypeOK
<1>3. StackInv
  <2>1. stack \in Seq(Frames) /\ path \in Text /\ Len(stack) = 0
    BY <1>1, EmptySeq DEF Text
  <2> QED BY <1>1, <2>1 DEF StackInv
<1>4. CalledWithOwnPath
  BY <1>1 DEF CalledWithOwnPath
<1> QED BY <1>2, <1>3, <1>4 DEF DispatchInv

LEMMA ConfigureInv == DispatchInv /\ Configure => DispatchInv'
<1> SUFFICES ASSUME DispatchInv, Configure PROVE DispatchInv'
  OBVIOUS
<1>1. ASSUME NEW owner \in Owners, NEW prefix \in Scopes, UseMiddleware(owner, prefix)
      PROVE  DispatchInv'
  <2> DEFINE entry == Entry("mw", prefix, <<>>)
  <2>1. Enqueue(owner, entry) /\ uses' = uses + 1
    BY <1>1 DEF UseMiddleware, Enqueue
  <2>2. entry \in Own'
    BY <2>1, EntriesGrow DEF Entry, Own
  <2> HIDE DEF entry
  <2> QED BY <2>1, <2>2, EnqueueInv
<1>2. ASSUME NEW p \in MountPaths, UseRouter(p) PROVE DispatchInv'
  <2> DEFINE entry == Entry("mount", Normalized(p), queue[Router])
  <2>1. Enqueue(Server, entry) /\ uses' = uses + 1
    BY <1>2 DEF UseRouter, Enqueue
  <2>2. queue[Router] \in Seq(Own' \cup Subs')
    <3>1. Own \cup Subs \subseteq Own' \cup Subs'
      BY <2>1, EntriesGrow
    <3> QED BY <3>1, SeqMonotonic DEF DispatchInv, TypeOK
  <2>3. entry \in Mounts'
    BY <2>1, <2>2, EntriesGrow DEF Entry, Mounts, MountPoints
  <2> HIDE DEF entry
  <2> QED BY <2>1, <2>3, EnqueueInv, DispatchAssumption DEF Owners
<1>3. ASSUME NEW p \in MountPaths, UseSubRouter(p) PROVE DispatchInv'
  <2> DEFINE entry == Entry("sub", Normalized(p), <<>>)
  <2>1. Enqueue(Router, entry) /\ uses' = uses + 1
    BY <1>3 DEF UseSubRouter, Enqueue
  <2>2. entry \in Subs'
    BY <2>1, EntriesGrow DEF Entry, Subs, MountPoints
  <2> HIDE DEF entry
  <2> QED BY <2>1, <2>2, EnqueueInv, DispatchAssumption DEF Owners
<1>4. ASSUME NEW owner \in Owners, NEW p \in Paths, AddRoute(owner, p) PROVE DispatchInv'
  <2>1. /\ Idle /\ stack' = stack /\ queue' = queue /\ uses' = uses /\ path' = <<>>
        /\ routes' = [routes EXCEPT ![owner] = @ \cup {p}]
    BY <1>4 DEF AddRoute, Forget
  <2>2. stack = <<>> /\ stack' = <<>> /\ Idle'
    BY <2>1 DEF Idle
  <2>3. routes' \in [Owners -> SUBSET Paths]
    BY <2>1 DEF DispatchInv, TypeOK
  <2>4. TypeOK'
    BY <2>1, <2>2, <2>3 DEF DispatchInv, TypeOK, Own, Subs, Mounts
  <2>5. StackInv'
    <3>1. stack' \in Seq(Frames) /\ path' \in Text /\ Len(stack') = 0
      BY <2>1, <2>2, EmptySeq DEF Text
    <3> QED BY <2>2, <3>1 DEF StackInv, Text
  <2>6. CalledWithOwnPath'
    BY <2>2 DEF CalledWithOwnPath
  <2> QED BY <2>4, <2>5, <2>6 DEF DispatchInv
<1> QED BY <1>1, <1>2, <1>3, <1>4 DEF Configure

-----------------------------------------------------------------------------
(* Dispatching.                                                              *)

LEMMA ReceiveInv ==
    ASSUME DispatchInv, NEW p \in Paths, Receive(p)
    PROVE  DispatchInv'
<1> DEFINE f == ServerFrame(1)
<1>1. /\ stack = <<>> /\ received' = p /\ path' = p /\ stack' = <<f>>
      /\ queue' = queue /\ routes' = routes /\ uses' = uses
  BY DEF Receive, Idle, config
<1>2. f \in Frames /\ f.chain = Server /\ f.index = 1 /\ f.next = "not called"
  <2>1. <<>> \in Text
    BY DEF Text
  <2> QED BY <2>1 DEF ServerFrame, Frame, Frames
<1>3. p \in Text /\ p # <<>> /\ p[1] = "/"
  BY PathsAreText, DispatchAssumption
<1> HIDE DEF f
<1>4. stack' \in Seq(Frames) /\ Len(stack') = 1 /\ stack'[1] = f /\ DOMAIN stack' = 1..1
      /\ ~Idle'
  <2>1. <<f>> \in Seq(Frames) /\ Len(<<f>>) = 1 /\ <<f>>[1] = f
    <3> HIDE DEF Frames
    <3>1. f \in Frames
      BY <1>2
    <3> QED BY ONLY <3>1
  <2>2. DOMAIN <<f>> = 1..1 /\ <<f>> # <<>>
    OBVIOUS
  <2> QED BY <1>1, <2>1, <2>2 DEF Idle
<1>5. queue[Server] \in Seq(Own \cup Mounts)
  BY DEF DispatchInv, TypeOK
<1>6. InChain(f)' /\ FrameInv(f)'
  <2>1. Len(queue[Server]) \in Nat /\ 1 \in 1..Len(queue[Server]) + 1
    BY <1>5
  <2> QED BY <1>1, <1>2, <2>1, DispatchAssumption DEF InChain, FrameInv, ChainOf
<1>7. TypeOK'
  <2>1. \A i \in DOMAIN stack' : InChain(stack[i])'
    BY <1>4, <1>6 DEF InChain, ChainOf
  <2> QED BY <1>1, <1>3, <2>1 DEF DispatchInv, TypeOK, Own, Subs, Mounts
<1>8. StackInv'
  <2>1. \A i \in 1..Len(stack') : FrameInv(stack[i])'
    BY <1>4, <1>6 DEF FrameInv, ChainOf
  <2> QED BY <1>1, <1>3, <1>4, <2>1 DEF StackInv, Text
<1>9. CalledWithOwnPath'
  BY <1>1, <1>2, <1>4 DEF CalledWithOwnPath, Top
<1> QED BY <1>7, <1>8, <1>9 DEF DispatchInv

(* next() runs the rest of the chain above the middleware that called it.    *)
LEMMA CallNextInv == DispatchInv /\ CallNext => DispatchInv'
<1> SUFFICES ASSUME DispatchInv, CallNext PROVE DispatchInv'
  OBVIOUS
<1>1. /\ ~Idle /\ Top.index <= Len(Chain) /\ Current.kind = "mw" /\ Top.next = "not called"
      /\ UNCHANGED <<config, received>> /\ path' = path
  BY DEF CallNext, HasEntry
<1> DEFINE rest    == Front(stack)
           waiting == [Top EXCEPT !.next = "called", !.at = path]
           both    == Append(Append(rest, waiting), NextFrame)
<1>2. stack \in Seq(Frames) /\ stack # <<>> /\ path \in Text
  BY <1>1 DEF DispatchInv, StackInv, Idle
<1>3. /\ rest \in Seq(Frames) /\ Len(rest) = Len(stack) - 1 /\ Len(stack) \in Nat \ {0}
      /\ \A i \in 1..Len(stack) - 1 : rest[i] = stack[i]
  BY <1>2, FrontFacts
<1>4. /\ waiting \in Frames /\ waiting.next = "called"
      /\ waiting.chain = Top.chain /\ waiting.index = Top.index
      /\ waiting.mount = Top.mount /\ waiting.original = Top.original
  BY <1>1, <1>2, TopFacts DEF DispatchInv, Frames
<1>5. /\ NextFrame \in Frames /\ NextFrame.next = "not called"
      /\ NextFrame.chain = Top.chain /\ NextFrame.mount = Top.mount
      /\ NextFrame.original = Top.original
  BY <1>1, NextFrameFacts DEF DispatchInv
<1>6. stack' = both
  BY DEF CallNext
<1> HIDE DEF rest, waiting
<1>7. /\ both \in Seq(Frames) /\ Len(both) = Len(stack) + 1
      /\ \A i \in 1..Len(stack) - 1 : both[i] = stack[i]
      /\ both[Len(stack)] = waiting /\ both[Len(stack) + 1] = NextFrame
  <2> DEFINE one == Append(rest, waiting)
  <2>1. /\ one \in Seq(Frames) /\ Len(one) = Len(stack)
        /\ \A i \in 1..Len(stack) - 1 : one[i] = stack[i]
        /\ one[Len(stack)] = waiting
    BY <1>3, <1>4, AppendProperties
  <2> HIDE DEF one
  <2>2. both = Append(one, NextFrame)
    BY DEF one
  <2> HIDE DEF both
  <2>3. /\ both \in Seq(Frames) /\ Len(both) = Len(one) + 1 /\ both[Len(one) + 1] = NextFrame
        /\ \A i \in 1..Len(one) : both[i] = one[i]
    <3>1. one \in Seq(Frames) /\ NextFrame \in Frames
      BY <1>5, <2>1
    <3> QED BY ONLY <2>2, <3>1, AppendProperties
  <2>4. Len(both) = Len(stack) + 1 /\ both[Len(stack) + 1] = NextFrame
    BY <2>1, <2>3
  <2>5. \A i \in 1..Len(stack) : both[i] = one[i]
    BY <2>1, <2>3
  <2>6. \A i \in 1..Len(stack) - 1 : both[i] = stack[i]
    BY <1>3, <2>1, <2>5
  <2>7. both[Len(stack)] = waiting
    BY <1>3, <2>1, <2>5
  <2> QED BY <2>3, <2>4, <2>6, <2>7
<1> HIDE DEF both
<1>8. InChain(waiting) /\ FrameInv(waiting)
  BY <1>1, <1>4, TopInChain DEF InChain, FrameInv, ChainOf, Chain, Current
<1>9. InChain(NextFrame) /\ FrameInv(NextFrame)
  BY <1>1, <1>5, NextInChain, TopInChain DEF FrameInv
<1>10. \A i \in 1..Len(stack') - 1 : stack'[i].next = "called"
  BY <1>3, <1>4, <1>6, <1>7 DEF DispatchInv, StackInv
<1>11. \A i \in 1..Len(stack') : InChain(stack'[i]) /\ FrameInv(stack'[i])
  BY <1>3, <1>6, <1>7, <1>8, <1>9, StackFacts
<1>12. MayRun(NextFrame, path')
  BY <1>1, <1>5 DEF DispatchInv, CalledWithOwnPath, MayRun, Mount
<1>13. path' \in Text /\ path' # <<>> /\ path'[1] = "/"
  BY <1>1, <1>2 DEF DispatchInv, TypeOK
<1> QED BY <1>1, <1>3, <1>6, <1>7, <1>10, <1>11, <1>12, <1>13, ServeInv

(* A mounted router is entered on its part of the path.                      *)
LEMMA EnterRouterInv == DispatchInv /\ EnterRouter => DispatchInv'
<1> SUFFICES ASSUME DispatchInv, EnterRouter PROVE DispatchInv'
  OBVIOUS
<1>1. /\ ~Idle /\ Top.index <= Len(Chain) /\ Current.kind = "mount"
      /\ Covers(Current.prefix, path) /\ path' = Relative(Current.prefix, path)
      /\ Goto(Frame(Router, 1, Top.index, path)) /\ UNCHANGED <<config, received>>
  BY DEF EnterRouter, HasEntry
<1> DEFINE f == Frame(Router, 1, Top.index, path)
<1>2. Top.index \in 1..Len(Chain) /\ Top.chain = Server /\ Current.prefix \in MountPoints
  BY <1>1, ChainFacts DEF Current
<1>3. Chain = queue[Server] /\ Current = queue[Server][Top.index]
  BY <1>2 DEF Chain, ChainOf, Current
<1>4. path = received /\ path \in Text /\ path # <<>> /\ path[1] = "/"
  BY <1>1, <1>2, NotWaiting DEF DispatchInv, TypeOK, StackInv, CalledWithOwnPath
<1>5. Current.prefix \in Text
  BY <1>2, NormalizedIsText DEF MountPoints
<1>6. path' \in Text /\ path' # <<>> /\ path'[1] = "/"
  BY <1>1, <1>4, <1>5, RelativeFacts
<1>7. IsBelow(received, Current.prefix, path')
  BY <1>1, <1>4, <1>5, RelativeIsBelow
<1>8. /\ f \in Frames /\ f.chain = Router /\ f.mount = Top.index /\ f.index = 1
      /\ f.original = received /\ f.next = "not called"
  <2>1. <<>> \in Text /\ Top.index \in Nat
    BY <1>2 DEF Text
  <2> QED BY <1>4, <2>1 DEF Frame, Frames
<1>9. Goto(f)
  BY <1>1
<1> HIDE DEF f
<1>10. InChain(f) /\ FrameInv(f)
  <2>1. queue[Server] \in Seq(Own \cup Mounts) /\ Top.index \in DOMAIN queue[Server]
    BY <1>2, <1>3 DEF DispatchInv, TypeOK
  <2>2. ChainOf(f) = queue[Server][Top.index].mws
    BY <1>8, DispatchAssumption DEF ChainOf
  <2>3. queue[Server][Top.index] \in Mounts
    <3>1. queue[Server][Top.index] \in Own \cup Mounts
      BY <2>1
    <3> QED BY <1>1, <1>3, <3>1 DEF Own
  <2>4. Len(ChainOf(f)) \in Nat
    BY <2>2, <2>3 DEF Mounts
  <2>5. f.index \in 1..Len(ChainOf(f)) + 2
    <3>1. \A n \in Nat : 1 \in 1..n + 2
      OBVIOUS
    <3>2. 1 \in 1..Len(ChainOf(f)) + 2
      BY <2>4, <3>1
    <3> QED BY ONLY <1>8, <3>2
  <2> QED BY <1>8, <2>1, <2>5, DispatchAssumption DEF InChain, FrameInv
<1>11. MayRun(f, path')
  BY <1>3, <1>7, <1>8, DispatchAssumption DEF MayRun
<1> QED BY <1>1, <1>6, <1>8, <1>9, <1>10, <1>11, GotoInv

(* The path of the request is put back when a router has nothing to answer.  *)
LEMMA LeaveRouterInv == DispatchInv /\ LeaveRouter => DispatchInv'
<1> SUFFICES ASSUME DispatchInv, LeaveRouter PROVE DispatchInv'
  OBVIOUS
<1>1. /\ ~Idle /\ Top.chain = Router /\ path' = Top.original
      /\ Goto(ServerFrame(Top.mount + 1)) /\ UNCHANGED <<config, received>>
  BY DEF LeaveRouter, InRouter
<1> DEFINE f == ServerFrame(Top.mount + 1)
<1>2. path' = received /\ received \in Paths
  BY <1>1, TopInChain DEF FrameInv, DispatchInv, StackInv
<1>3. path' \in Text /\ path' # <<>> /\ path'[1] = "/"
  BY <1>2, PathsAreText, DispatchAssumption
<1>4. Top.mount \in 1..Len(queue[Server]) /\ Len(queue[Server]) \in Nat
  BY <1>1, ChainFacts DEF DispatchInv, TypeOK
<1>5. /\ f \in Frames /\ f.chain = Server /\ f.index = Top.mount + 1
      /\ f.next = "not called"
  <2>1. <<>> \in Text /\ Top.mount + 1 \in Nat
    BY <1>4 DEF Text
  <2> QED BY <2>1 DEF ServerFrame, Frame, Frames
<1>6. Goto(f)
  BY <1>1
<1> HIDE DEF f
<1>7. InChain(f) /\ FrameInv(f)
  <2>1. ChainOf(f) = queue[Server]
    BY <1>5 DEF ChainOf
  <2>2. Top.mount + 1 \in 1..Len(queue[Server]) + 1
    BY <1>4
  <2>3. f.chain # Router /\ f.next # "called"
    BY <1>5, DispatchAssumption
  <2>4. f.index \in 1..Len(ChainOf(f)) + (IF f.chain = Server THEN 1 ELSE 2)
    BY <1>5, <2>1, <2>2
  <2> QED BY <2>3, <2>4 DEF InChain, FrameInv
<1>8. MayRun(f, path')
  BY <1>2, <1>5 DEF MayRun
<1> QED BY <1>1, <1>3, <1>5, <1>6, <1>7, <1>8, GotoInv

LEMMA StepInv == DispatchInv /\ [Next]_vars => DispatchInv'
<1> SUFFICES ASSUME DispatchInv, [Next]_vars PROVE DispatchInv'
  OBVIOUS
<1>1. CASE Configure
  BY <1>1, ConfigureInv
<1>2. ASSUME NEW p \in Paths, Receive(p) PROVE DispatchInv'
  BY <1>2, ReceiveInv
<1>3. CASE Skip
  BY <1>3, NextInChain, GoOnInv DEF Skip, HasEntry
<1>4. CASE CallNext
  BY <1>4, CallNextInv
<1>5. CASE Stop
  BY <1>5, ReturnInv DEF Stop, HasEntry
<1>6. CASE NextReturned
  BY <1>6, ReturnInv DEF NextReturned, HasEntry
<1>7. CASE Throw
  BY <1>7, ReturnInv DEF Throw, HasEntry
<1>8. CASE PassBy
  BY <1>8, NextInChain, NotWaiting, GoOnInv DEF PassBy, HasEntry
<1>9. CASE EnterRouter
  BY <1>9, EnterRouterInv
<1>10. CASE TrySubRouter
  <2>1. /\ ~Idle /\ Top.index <= Len(Chain) /\ Current.kind = "sub"
        /\ UNCHANGED <<config, received, path>>
        /\ Answered \/ Goto(NextFrame)
    BY <1>10 DEF TrySubRouter, HasEntry
  <2> QED BY <2>1, NextInChain, NotWaiting, GoOnInv, ReturnInv DEF Answered
<1>11. CASE TryRouter
  <2>1. /\ ~Idle /\ Top.chain = Router /\ Top.index = Len(Chain) + 1
        /\ UNCHANGED <<config, received, path>>
        /\ Answered \/ Goto(NextFrame)
    BY <1>11 DEF TryRouter, InRouter
  <2>2. Top.index > Len(Chain)
    BY <2>1, ChainFacts
  <2> QED BY <2>1, <2>2, NextInChain, NotWaiting, GoOnInv, ReturnInv DEF Answered
<1>12. CASE LeaveRouter
  BY <1>12, LeaveRouterInv
<1>13. CASE RunRoute
  BY <1>13, ReturnInv DEF RunRoute, Answered
<1>14. CASE UNCHANGED vars
  <2>1. /\ queue' = queue /\ routes' = routes /\ uses' = uses /\ received' = received
        /\ path' = path /\ stack' = stack
    BY <1>14 DEF vars, config
  <2> QED BY <2>1 DEF DispatchInv, TypeOK, StackInv, CalledWithOwnPath, Own, Subs, Mounts,
                      InChain, FrameInv, ChainOf, Idle, Top, Mount
<1> QED BY <1>1, <1>2, <1>3, <1>4, <1>5, <1>6, <1>7, <1>8, <1>9, <1>10, <1>11, <1>12,
           <1>13, <1>14 DEF Next, Serve

THEOREM Invariant == Spec => []DispatchInv
  BY InitInv, StepInv, PTL DEF Spec

(* Routers hang where they belong, and every frame of the nested calls is in *)
(* its chain, for any configuration and any requests.                        *)
THEOREM TypeCorrect == Spec => []TypeOK
<1>1. DispatchInv => TypeOK
  BY DEF DispatchInv
<1> QED BY <1>1, Invariant, PTL

(* Every function called for a request sees its own path: the server's the   *)
(* one that came in, a mounted router's the rest below its mount point, cut  *)
(* where a segment ends (HttpServer.cpp:294-337).                            *)
THEOREM OwnPath == Spec => []CalledWithOwnPath
<1>1. DispatchInv => CalledWithOwnPath
  BY DEF DispatchInv
<1> QED BY <1>1, Invariant, PTL

=============================================================================
