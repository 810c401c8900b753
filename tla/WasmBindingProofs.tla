-------------------------- MODULE WasmBindingProofs --------------------------
(***************************************************************************)
(* Theorems about WasmBinding, for any routes a page registers and any     *)
(* order of its calls: an id names one key, no function writes over the    *)
(* JSON another one returned, and what dispatch() answers and dumpTrie()   *)
(* shows is decided by the routes listed. The trie's own invariants are    *)
(* those of RouteTrieProofs; a reset and a call of registerRoute() are     *)
(* steps that RouteTrie does not take by itself.                           *)
(***************************************************************************)
EXTENDS WasmBinding, RouteTrieProofs

Unique == \A i, j \in 1..Len(patterns) : patterns[i] = patterns[j] => i = j

\* The id in the JSON of registerRoute() is within the list, and its key's.
IdOfKey ==
  result.fn = "registerRoute" /\ result.routeId >= 0 =>
    /\ result.routeId + 1 \in 1..Len(patterns)
    /\ patterns[result.routeId + 1] = result.key

\* What keeps an id the id of one key.
KeysInv == patterns \in Seq(Keys) /\ Unique /\ IdOfKey

\* There are the slots that hold() writes to.
SlotsInv == slots \in [0..4 -> BOOLEAN]

-----------------------------------------------------------------------------
(* Ids and keys.                                                           *)

(* A call of another function names another result.                        *)
LEMMA OtherCall ==
  ASSUME KeysInv, UNCHANGED patterns, result'.fn # "registerRoute"
  PROVE  KeysInv'
BY DEF KeysInv, Unique, IdOfKey

LEMMA RefusedWithout ==
  ASSUME KeysInv, NEW key, NEW error, Refuse(key, -1, error)
  PROVE  KeysInv'
<1>1. patterns' = patterns /\ result'.routeId = -1
  BY DEF Refuse, Hold, RegisterResult
<1> QED BY <1>1 DEF KeysInv, Unique, IdOfKey

(* The place of a key that is there, once.                                 *)
LEMMA PlaceOfKey ==
  ASSUME NEW s \in Seq(Keys), NEW key, Contains(s, key),
         \A i, j \in 1..Len(s) : s[i] = s[j] => i = j
  PROVE  LET i == SelectInSeq(s, LAMBDA k : k = key)
         IN  i \in 1..Len(s) /\ s[i] = key
<1> DEFINE I == {i \in 1..Len(s) : s[i] = key}
<1>1. PICK m \in 1..Len(s) : s[m] = key
  BY DEF Contains
<1>2. I = {m} /\ m <= m
  BY <1>1
<1> HIDE DEF I
<1>3. Min(I) = m
  BY <1>2, Zenon DEF Min
<1> USE DEF I
<1>4. SelectInSeq(s, LAMBDA k : k = key) = Min(I)
  BY <1>2, Zenon DEF SelectInSeq
<1> QED BY <1>1, <1>3, <1>4, Zenon

LEMMA RefusedWithId ==
  ASSUME KeysInv, NEW key, NEW i \in 1..Len(patterns), patterns[i] = key, NEW error,
         Refuse(key, i - 1, error)
  PROVE  KeysInv'
<1>1. patterns' = patterns /\ result'.routeId = i - 1 /\ result'.key = key
  BY DEF Refuse, Hold, RegisterResult
<1>2. result'.routeId + 1 = i
  BY <1>1
<1> QED BY <1>1, <1>2, Zenon DEF KeysInv, Unique, IdOfKey

LEMMA Added ==
  ASSUME KeysInv, NEW key \in Keys, ~HasKey(key), Add(key)
  PROVE  KeysInv'
<1>1. /\ patterns' = Append(patterns, key)
      /\ result'.routeId = Len(patterns) /\ result'.key = key
  BY DEF Add, Hold, RegisterResult
<1>2. patterns \in Seq(Keys) /\ \A i, j \in 1..Len(patterns) : patterns[i] = patterns[j] => i = j
  BY DEF KeysInv, Unique
<1>3. /\ patterns' \in Seq(Keys) /\ Len(patterns') = Len(patterns) + 1
      /\ \A i \in 1..Len(patterns) : patterns'[i] = patterns[i]
      /\ patterns'[Len(patterns) + 1] = key
  BY <1>1, <1>2, AppendProperties
<1>4. \A i \in 1..Len(patterns) : patterns[i] # key
  BY DEF HasKey, Contains
<1>5. Len(patterns) \in Nat
  BY <1>2
<1>6. Unique'
  <2>1. ASSUME NEW i \in 1..Len(patterns'), NEW j \in 1..Len(patterns'), patterns'[i] = patterns'[j]
        PROVE  i = j
    <3>1. \A k \in 1..Len(patterns') : k \in 1..Len(patterns) \/ k = Len(patterns) + 1
      BY <1>3, <1>5
    <3> QED BY <1>2, <1>3, <1>4, <2>1, <3>1, Zenon
  <2> QED BY <2>1, Zenon DEF Unique
<1>7. IdOfKey'
  <2>1. Len(patterns) + 1 \in 1..Len(patterns')
    BY <1>3, <1>5
  <2> QED BY <1>1, <1>3, <2>1, Zenon DEF IdOfKey
<1> QED BY <1>3, <1>6, <1>7, Zenon DEF KeysInv

LEMMA KeysInvStep ==
  ASSUME KeysInv, [BindingNext]_bindingVars
  PROVE  KeysInv'
<1>1. CASE PwVersion
  BY <1>1, OtherCall DEF PwVersion, Hold
<1>2. CASE PwReset
  <2>1. patterns' = <<>> /\ result'.fn = "reset"
    BY <1>2 DEF PwReset
  <2> QED BY <2>1, EmptySeq DEF KeysInv, Unique, IdOfKey
<1>3. CASE PwParseRequest
  BY <1>3, OtherCall DEF PwParseRequest, Hold, Throw
<1>4. CASE PwDumpTrie
  BY <1>4, OtherCall DEF PwDumpTrie, HoldOrThrow, Hold, Throw
<1>5. ASSUME NEW key \in Keys, PwRegisterRoute(key)
      PROVE  KeysInv'
  <2>1. CASE Refuse(key, -1, "method is empty")
    BY <2>1, RefusedWithout
  <2>2. CASE Refuse(key, -1, "pattern must start with '/'")
    BY <2>2, RefusedWithout
  <2>3. CASE /\ HasKey(key)
             /\ Refuse(key, SelectInSeq(patterns, LAMBDA k : k = key) - 1,
                       "route already registered")
    <3> DEFINE i == SelectInSeq(patterns, LAMBDA k : k = key)
    <3>1. i \in 1..Len(patterns) /\ patterns[i] = key
      BY <2>3, PlaceOfKey, Zenon DEF KeysInv, Unique, HasKey
    <3>2. Refuse(key, i - 1, "route already registered")
      BY <2>3, Zenon
    <3> HIDE DEF i
    <3> QED BY <3>1, <3>2, RefusedWithId, Zenon
  <2>4. CASE ~HasKey(key) /\ Add(key)
    BY <2>4, Added
  <2> QED BY <1>5, <2>1, <2>2, <2>3, <2>4 DEF PwRegisterRoute
<1>6. ASSUME NEW method, NEW path, PwDispatch(method, path)
      PROVE  KeysInv'
  BY <1>6, OtherCall DEF PwDispatch
<1>7. CASE DispatchSearches
  BY <1>7, Zenon DEF DispatchSearches, KeysInv, Unique, IdOfKey
<1>8. CASE DispatchReturns
  <2>1. patterns' = patterns
    BY <1>8, Zenon DEF DispatchReturns
  <2>2. \E json : json.fn = "dispatch" /\ (Hold(2, json) \/ Throw(json.fn))
    BY <1>8 DEF DispatchReturns, HoldOrThrow, DispatchResult
  <2>3. result'.fn = "dispatch"
    BY <2>2 DEF Hold, Throw
  <2> QED BY <2>1, <2>3, OtherCall
<1>9. ASSUME NEW iters, PwBenchDispatch(iters)
      PROVE  KeysInv'
  BY <1>9, OtherCall DEF PwBenchDispatch
<1>10. CASE UNCHANGED bindingVars
  BY <1>10, Zenon DEF bindingVars, KeysInv, Unique, IdOfKey
<1> QED BY <1>1, <1>2, <1>3, <1>4, <1>5, <1>6, <1>7, <1>8, <1>9, <1>10, Zenon DEF BindingNext

(* For any keys and any order of calls: no key gets two ids, and the id    *)
(* that registerRoute() returns, refusing or not, is that of the key       *)
(* (plusweb_wasm.cpp:125-139).                                             *)
THEOREM OneIdPerKey == BindingSpec => []KeysOnce
<1>1. BindingInit => KeysInv
  <2> SUFFICES ASSUME BindingInit PROVE KeysInv
    OBVIOUS
  <2>1. patterns = <<>> /\ result = [fn |-> ""]
    BY Zenon DEF BindingInit
  <2>2. result.fn # "registerRoute"
    BY <2>1
  <2>3. patterns \in Seq(Keys) /\ 1..Len(patterns) = {}
    <3>1. <<>> \in Seq(Keys) /\ 1..Len(<<>>) = {}
      BY ONLY EmptySeq
    <3> QED BY <2>1, <3>1, Zenon
  <2> QED BY <2>2, <2>3, Zenon DEF KeysInv, Unique, IdOfKey
<1>2. KeysInv => KeysOnce
  <2> SUFFICES ASSUME KeysInv PROVE KeysOnce
    OBVIOUS
  <2>1. DOMAIN patterns = 1..Len(patterns)
    BY DEF KeysInv
  <2> QED BY <2>1, Zenon DEF KeysInv, KeysOnce, Unique, IdOfKey, Returned
<1> QED BY <1>1, <1>2, KeysInvStep, PTL DEF BindingSpec

-----------------------------------------------------------------------------
(* Slots.                                                                  *)

(* A text is put in one slot, by the function whose slot it is.            *)
LEMMA Held ==
  ASSUME SlotsInv, NEW fn \in DOMAIN Slot, NEW json, json.fn = fn, "threw" \notin DOMAIN json,
         Hold(Slot[fn], json)
  PROVE  SlotsInv' /\ OwnSlotOnly
<1>1. /\ slots' = [slots EXCEPT ![Slot[fn]] = ~@]
      /\ result' = json
  BY DEF Hold
<1>2. \A g \in DOMAIN Slot : Slot[g] \in 0..4 /\ (Slot[g] = Slot[fn] => g = fn)
  BY DEF Slot
<1>3. slots \in [0..4 -> BOOLEAN]
  BY DEF SlotsInv
<1>4. slots' \in [0..4 -> BOOLEAN]
  BY <1>1, <1>3, Zenon
<1>5. \A g \in DOMAIN Slot : slots'[Slot[g]] # slots[Slot[g]] => g = fn
  BY <1>1, <1>2, <1>3, Zenon
<1>6. Returned(fn)'
  BY <1>1, Zenon DEF Returned
<1> QED BY <1>4, <1>5, <1>6, Zenon DEF SlotsInv, OwnSlotOnly

LEMMA NotHeld ==
  ASSUME SlotsInv, UNCHANGED slots
  PROVE  SlotsInv' /\ OwnSlotOnly
BY Zenon DEF SlotsInv, OwnSlotOnly

LEMMA SlotsStep ==
  ASSUME SlotsInv, [BindingNext]_bindingVars
  PROVE  SlotsInv' /\ OwnSlotOnly
<1>0. /\ {"version", "registerRoute", "dispatch", "parseRequest", "dumpTrie"} \subseteq DOMAIN Slot
      /\ Slot["version"] = 0 /\ Slot["registerRoute"] = 1 /\ Slot["dispatch"] = 2
      /\ Slot["parseRequest"] = 3 /\ Slot["dumpTrie"] = 4
  BY DEF Slot
<1>1. CASE PwVersion
  <2> DEFINE json == [fn |-> "version"]
  <2>1. Hold(0, json)
    BY <1>1 DEF PwVersion
  <2>2. json.fn = "version" /\ "threw" \notin DOMAIN json
    OBVIOUS
  <2> QED BY <1>0, <2>1, <2>2, Held
<1>2. CASE PwReset
  BY <1>2, NotHeld DEF PwReset
<1>3. CASE PwParseRequest
  <2>1. PICK outcome : \/ Hold(3, [fn |-> "parseRequest", ok |-> outcome = "ok"])
                       \/ Throw("parseRequest")
    BY <1>3, Zenon DEF PwParseRequest
  <2> DEFINE json == [fn |-> "parseRequest", ok |-> outcome = "ok"]
  <2>2. json.fn = "parseRequest" /\ "threw" \notin DOMAIN json
    OBVIOUS
  <2> HIDE DEF json
  <2>3. Hold(3, json) \/ UNCHANGED slots
    BY <2>1, Zenon DEF Throw, json
  <2> QED BY <1>0, <2>2, <2>3, Held, NotHeld
<1>4. CASE PwDumpTrie
  <2>1. \E json : /\ json.fn = "dumpTrie" /\ "threw" \notin DOMAIN json
                  /\ (Hold(4, json) \/ Throw(json.fn))
    BY <1>4 DEF PwDumpTrie, HoldOrThrow
  <2> QED BY <1>0, <2>1, Held, NotHeld DEF Throw
<1>5. ASSUME NEW key \in Keys, PwRegisterRoute(key)
      PROVE  SlotsInv' /\ OwnSlotOnly
  <2>1. \E routeId, error : Hold(1, RegisterResult(key, routeId, error))
    BY <1>5, Zenon DEF PwRegisterRoute, Refuse, Add
  <2>2. \A routeId, error : /\ RegisterResult(key, routeId, error).fn = "registerRoute"
                            /\ "threw" \notin DOMAIN RegisterResult(key, routeId, error)
    BY DEF RegisterResult
  <2> QED BY <1>0, <2>1, <2>2, Held
<1>6. ASSUME NEW method, NEW path, PwDispatch(method, path)
      PROVE  SlotsInv' /\ OwnSlotOnly
  BY <1>6, NotHeld DEF PwDispatch
<1>7. CASE DispatchSearches
  BY <1>7, NotHeld DEF DispatchSearches
<1>8. CASE DispatchReturns
  <2>1. \E json : /\ json.fn = "dispatch" /\ "threw" \notin DOMAIN json
                  /\ (Hold(2, json) \/ Throw(json.fn))
    BY <1>8 DEF DispatchReturns, HoldOrThrow, DispatchResult
  <2> QED BY <1>0, <2>1, Held, NotHeld DEF Throw
<1>9. ASSUME NEW iters, PwBenchDispatch(iters)
      PROVE  SlotsInv' /\ OwnSlotOnly
  BY <1>9, NotHeld DEF PwBenchDispatch
<1>10. CASE UNCHANGED bindingVars
  BY <1>10, NotHeld DEF bindingVars
<1> QED BY <1>1, <1>2, <1>3, <1>4, <1>5, <1>6, <1>7, <1>8, <1>9, <1>10, Zenon DEF BindingNext

LEMMA SlotsStart == BindingInit => SlotsInv
BY DEF BindingInit, SlotsInv

(* Whatever a page calls, in any order and with calls that throw: the text *)
(* in a slot is replaced only by a call of its own function, and only by   *)
(* one that returns (plusweb_wasm.cpp:10, 61-67).                          *)
THEOREM OwnSlots == BindingSpec => ResultsKept
<1>1. SlotsInv /\ [BindingNext]_bindingVars => SlotsInv' /\ [OwnSlotOnly]_bindingVars
  BY SlotsStep
<1> QED BY <1>1, SlotsStart, PTL DEF BindingSpec, ResultsKept

-----------------------------------------------------------------------------
(* The list of keys and the trie.                                          *)

LEMMA ListFacts ==
  ASSUME ListInv
  PROVE  /\ Len(patterns) \in Nat /\ DOMAIN patterns = 1..Len(patterns)
         /\ DOMAIN table = 1..Len(patterns)
         /\ \A i \in 1..Len(patterns) :
              /\ patterns[i] \in Keys
              /\ table[i].methods = {patterns[i].method}
              /\ table[i].pattern = Pieces(patterns[i].pattern)
<1>1. patterns \in Seq(Keys)
  BY DEF ListInv
<1>2. Len(patterns) \in Nat /\ DOMAIN patterns = 1..Len(patterns)
  BY <1>1, LenProperties
<1>3. \A i \in 1..Len(patterns) : patterns[i] \in Keys
  BY <1>1, ElementOfSeq
<1>4. table = [i \in 1..Len(patterns) |->
                 [methods |-> {patterns[i].method}, pattern |-> Pieces(patterns[i].pattern)]]
  BY <1>2, Zenon DEF ListInv, Entries
<1>5. ASSUME NEW i \in 1..Len(patterns)
      PROVE  /\ table[i].methods = {patterns[i].method}
             /\ table[i].pattern = Pieces(patterns[i].pattern)
  <2>1. table[i] = [methods |-> {patterns[i].method}, pattern |-> Pieces(patterns[i].pattern)]
    BY <1>4, Zenon
  <2> QED BY <2>1
<1> QED BY <1>2, <1>3, <1>4, <1>5, Zenon

(* A call that changes neither the list nor the trie.                      *)
LEMMA ListKept ==
  ASSUME ListInv, UNCHANGED <<patterns, table, ids>>, lastRouteId' \in -1..Len(patterns) - 1
  PROVE  ListInv'
BY Zenon DEF ListInv, Entries

LEMMA NoIdYet ==
  ASSUME ListInv
  PROVE  -1 \in -1..Len(patterns) - 1
BY ListFacts

(* A new key gets the next id and the next registration.                   *)
LEMMA ListAdded ==
  ASSUME ListInv, NEW key \in Keys, Add(key), UNCHANGED lastRouteId
  PROVE  ListInv'
<1>1. PICK n, s : n = Len(patterns) /\ s = patterns'
  OBVIOUS
<1>2. /\ s = Append(patterns, key) /\ ids' = Append(ids, n)
      /\ table' = Append(table, [methods |-> {key.method}, pattern |-> Pieces(key.pattern)])
  BY <1>1, Zenon DEF Add, Insert
<1>3. n \in Nat /\ patterns \in Seq(Keys) /\ lastRouteId \in -1..n - 1
  BY <1>1, ListFacts DEF ListInv
<1>4. /\ s \in Seq(Keys) /\ Len(s) = n + 1 /\ DOMAIN s = 1..n + 1 /\ DOMAIN patterns = 1..n
      /\ \A i \in 1..n : s[i] = patterns[i]
      /\ s[n + 1] = key
  BY <1>1, <1>2, <1>3, AppendProperties, LenProperties
<1>5. \A i \in 1..n + 1 : i \in 1..n \/ i = n + 1
  BY <1>3
<1>6. ids' = [i \in 1..n + 1 |-> i - 1]
  <2>1. ids = [i \in 1..n |-> i - 1]
    BY <1>4, Zenon DEF ListInv
  <2>2. ids \in Seq(Int) /\ Len(ids) = n
    BY <1>3, <2>1
  <2>3. /\ ids' \in Seq(Int) /\ Len(ids') = n + 1
        /\ \A i \in 1..n : ids'[i] = ids[i]
        /\ ids'[n + 1] = n
    BY <1>2, <1>3, <2>2, AppendProperties
  <2>4. \A i \in 1..n + 1 : ids'[i] = i - 1
    <3>1. \A i \in 1..n : ids'[i] = i - 1
      BY <2>1, <2>3, Zenon
    <3>2. (n + 1) - 1 = n
      BY <1>3
    <3> QED BY <1>5, <2>3, <3>1, <3>2, Zenon
  <2>5. DOMAIN ids' = 1..n + 1 /\ ids' = [i \in DOMAIN ids' |-> ids'[i]]
    BY <2>3
  <2> QED BY <2>4, <2>5, Zenon
<1>7. table' = [i \in 1..n + 1 |-> [methods |-> {s[i].method}, pattern |-> Pieces(s[i].pattern)]]
  <2> DEFINE E(k) == [methods |-> {k.method}, pattern |-> Pieces(k.pattern)]
             T == {E(s[i]) : i \in 1..n + 1}
  <2>1. table = [i \in 1..n |-> E(patterns[i])]
    BY <1>4, Zenon DEF ListInv, Entries
  <2>2. \A i \in 1..n : E(patterns[i]) = E(s[i]) /\ i \in 1..n + 1
    <3>1. \A i \in 1..n : i \in 1..n + 1
      BY <1>3
    <3> HIDE DEF E
    <3> QED BY <1>4, <3>1, Zenon
  <2>3. E(key) = E(s[n + 1]) /\ n + 1 \in 1..n + 1 /\ table' = Append(table, E(key))
    BY <1>2, <1>3, <1>4
  <2> HIDE DEF E
  <2>4. \A i \in 1..n : E(patterns[i]) \in T
    BY <2>2
  <2>5. E(key) \in T
    BY <2>3
  <2> HIDE DEF T
  <2>6. table \in Seq(T) /\ Len(table) = n
    BY <1>3, <2>1, <2>4
  <2>7. /\ table' \in Seq(T) /\ Len(table') = n + 1
        /\ \A i \in 1..n : table'[i] = table[i]
        /\ table'[n + 1] = E(key)
    BY <2>3, <2>5, <2>6, AppendProperties
  <2>8. \A i \in 1..n + 1 : table'[i] = E(s[i])
    <3>1. \A i \in 1..n : table'[i] = E(s[i])
      BY <2>1, <2>2, <2>7, Zenon
    <3> QED BY <1>5, <2>3, <2>7, <3>1, Zenon
  <2>9. DOMAIN table' = 1..n + 1 /\ table' = [i \in DOMAIN table' |-> table'[i]]
    BY <2>7
  <2>10. table' = [i \in 1..n + 1 |-> E(s[i])]
    BY <2>8, <2>9, Zenon
  <2> QED BY <2>10 DEF E
<1>8. lastRouteId' \in -1..Len(s) - 1
  BY <1>3, <1>4
<1> QED BY <1>1, <1>4, <1>6, <1>7, <1>8, Zenon DEF ListInv, Entries

LEMMA ListStep ==
  ASSUME BindingInv, [BindingNext]_bindingVars
  PROVE  ListInv'
<1>1. ListInv
  BY DEF BindingInv
<1>2. ASSUME UNCHANGED <<patterns, table, ids, lastRouteId>> PROVE ListInv'
  BY <1>1, <1>2, ListKept, Zenon DEF ListInv
<1>3. CASE PwVersion \/ PwParseRequest \/ PwDumpTrie
  BY <1>2, <1>3, Zenon DEF PwVersion, PwParseRequest, PwDumpTrie, registry, trie
<1>4. CASE PwReset
  <2>1. patterns' = <<>> /\ table' = <<>> /\ ids' = <<>> /\ lastRouteId' = -1
    BY <1>4, Zenon DEF PwReset, EmptyRegistry
  <2>2. /\ <<>> \in Seq(Keys) /\ DOMAIN <<>> = {} /\ -1 \in -1..Len(<<>>) - 1
        /\ <<>> = [i \in {} |-> i - 1]
        /\ <<>> = [i \in {} |-> [methods |-> {patterns'[i].method}, pattern |-> Pieces(patterns'[i].pattern)]]
    BY EmptySeq
  <2> QED BY <2>1, <2>2, Zenon DEF ListInv, Entries
<1>5. ASSUME NEW key \in Keys, PwRegisterRoute(key)
      PROVE  ListInv'
  <2>1. CASE Add(key)
    BY <1>1, <1>5, <2>1, ListAdded, Zenon DEF PwRegisterRoute
  <2>2. CASE ~Add(key)
    BY <1>2, <1>5, <2>2, Zenon DEF PwRegisterRoute, Refuse, registry, trie
  <2> QED BY <2>1, <2>2
<1>6. ASSUME NEW method, NEW path, PwDispatch(method, path)
      PROVE  ListInv'
  <2>1. UNCHANGED <<patterns, table, ids>> /\ lastRouteId' = -1
    BY <1>6, Zenon DEF PwDispatch, Lookup, trie
  <2> QED BY <1>1, <2>1, NoIdYet, ListKept, Zenon
<1>7. CASE DispatchSearches
  <2>1. UNCHANGED trie
    BY <1>7, Zenon DEF DispatchSearches, Search, Hit, NoHandler, TryLiteral, TryParam, NoParamChild, Undo
  <2> QED BY <1>2, <1>7, <2>1, Zenon DEF DispatchSearches, trie
<1>8. CASE DispatchReturns
  <2>1. UNCHANGED <<patterns, table, ids>>
    BY <1>8, Zenon DEF DispatchReturns, trie
  <2>2. CASE answer.handler = 0
    BY <1>2, <1>8, <2>1, <2>2, Zenon DEF DispatchReturns
  <2>3. CASE answer.handler # 0
    <3>1. lastRouteId' = ids[answer.handler]
      BY <1>8, <2>3, Zenon DEF DispatchReturns
    <3>2. answer.handler \in 0..Len(table)
      BY DEF BindingInv, TrieInv, TypeOK
    <3>3. Len(table) = Len(patterns) /\ Len(patterns) \in Nat
      <4>1. /\ DOMAIN table = 1..Len(patterns) /\ Len(patterns) \in Nat
            /\ table \in Seq([methods : SUBSET Methods, pattern : Patterns])
        BY <1>1, ListFacts DEF BindingInv, TrieInv, TypeOK
      <4> QED BY <4>1, LenProperties
    <3>4. PICK h : h = answer.handler
      OBVIOUS
    <3>5. h \in 1..Len(patterns) /\ h - 1 \in -1..Len(patterns) - 1
      BY <2>3, <3>2, <3>3, <3>4
    <3>6. ids[h] = h - 1
      BY <1>1, <3>5, ListFacts, Zenon DEF ListInv
    <3> QED BY <1>1, <2>1, <3>1, <3>4, <3>5, <3>6, ListKept, Zenon
  <2> QED BY <2>2, <2>3
<1>9. ASSUME NEW iters, PwBenchDispatch(iters)
      PROVE  ListInv'
  BY <1>2, <1>9, Zenon DEF PwBenchDispatch, registry, trie
<1>10. CASE UNCHANGED bindingVars
  BY <1>2, <1>10, Zenon DEF bindingVars, registry, trie
<1> QED BY <1>3, <1>4, <1>5, <1>6, <1>7, <1>8, <1>9, <1>10, Zenon DEF BindingNext

-----------------------------------------------------------------------------
(* The trie under the calls.                                               *)

\* A trie in which nothing is registered, between two lookups.
Empty ==
  /\ nodes = {Root} /\ handler = [n \in {Root} |-> 0] /\ leaf = {Root} /\ pname = <<>>
  /\ table = <<>>
  /\ request = NoRequest /\ stack = <<>> /\ params \in Maps /\ answer = Miss

LEMMA EmptyTrie == Empty => TrieInv /\ ImplInv
<1> SUFFICES ASSUME Empty PROVE TrieInv /\ ImplInv
  OBVIOUS
<1>1. /\ nodes = {Root} /\ handler = [n \in {Root} |-> 0] /\ leaf = {Root} /\ pname = <<>>
      /\ table = <<>> /\ request = NoRequest /\ stack = <<>> /\ params \in Maps /\ answer = Miss
  BY Zenon DEF Empty
<1>2. Len(table) = 0 /\ 1..Len(table) = {} /\ 0..Len(table) = {0}
  BY <1>1
<1>3. TypeOK
  <2>1. table \in Seq([methods : SUBSET Methods, pattern : Patterns]) /\ stack \in Seq(Frames)
    BY <1>1, EmptySeq
  <2>2. {n \in nodes : IsParam(n)} = {}
    BY <1>1, Zenon DEF IsParam
  <2>3. pname \in [{n \in nodes : IsParam(n)} -> Names]
    <3>1. <<>> \in [{} -> Names]
      OBVIOUS
    <3> QED BY <1>1, <2>2, <3>1
  <2>4. answer \in [handler : 0..Len(table), params : Maps]
    <3>1. NoParams \in Maps
      BY NoParamsIsMap
    <3> QED BY <1>1, <1>2, <3>1 DEF Miss
  <2> QED BY <1>1, <1>2, <2>1, <2>3, <2>4, Zenon DEF TypeOK
<1>4. NodeInv
  <2>1. Root \in Seq(Methods \cup Literals \cup {Param})
    BY EmptySeq DEF Root
  <2> QED BY <1>1, <2>1 DEF NodeInv
<1>5. SearchInv
  BY <1>1, Zenon DEF SearchInv
<1>6. TreeOfTable
  <2>1. \A n \in nodes : handler[n] = 0 /\ ~IsParam(n)
    BY <1>1, Zenon DEF IsParam
  <2> QED BY <1>1, <1>2, <2>1, Zenon DEF TreeOfTable
<1> QED BY <1>1, <1>3, <1>4, <1>5, <1>6, Zenon DEF TrieInv, ImplInv

LEMMA TrieUnchanged ==
  ASSUME TrieInv, ImplInv, UNCHANGED registry
  PROVE  TrieInv' /\ ImplInv'
<1>1. UNCHANGED vars
  BY Zenon DEF registry, vars
<1> QED BY <1>1, TrieInvStep, ImplInvStep

(* Between two lookups the answer may be dropped.                          *)
LEMMA AnswerDropped ==
  ASSUME TrieInv, ImplInv, request = NoRequest, UNCHANGED <<trie, request, stack, params>>,
         answer' = Miss
  PROVE  TrieInv' /\ ImplInv'
<1>1. UNCHANGED <<nodes, handler, leaf, pname, table, request, stack, params>>
  BY Zenon DEF trie
<1>2. answer' \in [handler : 0..Len(table), params : Maps]
  <2>1. Len(table) \in Nat
    <3>1. table \in Seq([methods : SUBSET Methods, pattern : Patterns])
      BY Zenon DEF TrieInv, TypeOK
    <3> QED BY <3>1, LenProperties
  <2>2. 0 \in 0..Len(table) /\ NoParams \in Maps
    BY <2>1, NoParamsIsMap
  <2> QED BY <2>2 DEF Miss
<1>3. TypeOK'
  BY <1>1, <1>2, Zenon DEF TrieInv, TypeOK, Frames
<1>4. NodeInv' /\ SearchInv'
  BY <1>1, Zenon DEF TrieInv, NodeInv, SearchInv
<1>5. TreeOfTable'
  BY TreeUntouched DEF ImplInv
<1> QED BY <1>1, <1>3, <1>4, <1>5, Zenon DEF TrieInv, ImplInv

LEMMA TrieStep ==
  ASSUME BindingInv, [BindingNext]_bindingVars
  PROVE  TrieInv' /\ ImplInv'
<1>1. TrieInv /\ ImplInv /\ CallInv
  BY DEF BindingInv
<1>2. ASSUME UNCHANGED registry PROVE TrieInv' /\ ImplInv'
  BY <1>1, <1>2, TrieUnchanged
<1>3. CASE PwVersion \/ PwParseRequest \/ PwDumpTrie
  BY <1>2, <1>3, Zenon DEF PwVersion, PwParseRequest, PwDumpTrie
<1>4. CASE PwReset
  <2>1. request = NoRequest /\ answer = Miss /\ stack = <<>> /\ params \in Maps
    BY <1>1, <1>4, Zenon DEF PwReset, CallInv, TrieInv, SearchInv, TypeOK
  <2>2. Empty'
    BY <1>4, <2>1, Zenon DEF PwReset, EmptyRegistry, Empty
  <2> QED BY <2>2, EmptyTrie, PTL
<1>5. ASSUME NEW key \in Keys, PwRegisterRoute(key)
      PROVE  TrieInv' /\ ImplInv'
  <2>1. CASE \E routeId, error : Refuse(key, routeId, error)
    BY <1>2, <2>1, Zenon DEF Refuse
  <2>2. CASE key.method # "" /\ Add(key)
    <3>1. Idle /\ Insert({key.method}, Pieces(key.pattern))
      BY <1>5, <2>2, Zenon DEF PwRegisterRoute, Add
    <3>2. key.method # ""
      BY <2>2
    <3>3. {key.method} \in SUBSET Methods /\ Pieces(key.pattern) \in Patterns
      BY <3>2, BindingAssumption
    <3>4. request = NoRequest /\ stack = <<>>
      BY <1>1, <3>1, Zenon DEF Insert, TrieInv, SearchInv
    <3>5. TypeOK' /\ NodeInv'
      BY <1>1, <3>1, <3>3, <3>4, InsertStep, Zenon DEF TrieInv
    <3>6. TreeOfTable'
      BY <1>1, <3>1, <3>3, TreeInserted, Zenon DEF TrieInv, ImplInv
    <3>7. request' = NoRequest /\ stack' = <<>>
      BY <3>1, <3>4, Zenon DEF Insert
    <3> QED BY <3>5, <3>6, <3>7, Zenon DEF TrieInv, ImplInv, SearchInv
  <2> QED BY <1>5, <2>1, <2>2, Zenon DEF PwRegisterRoute
<1>6. ASSUME NEW method \in Dispatched, NEW path \in Paths, PwDispatch(method, path)
      PROVE  TrieInv' /\ ImplInv'
  <2>1. PICK r \in Requests : Lookup(r)
    BY <1>6, BindingAssumption, Zenon DEF PwDispatch
  <2>2. Next
    BY <2>1, Zenon DEF Next
  <2> QED BY <1>1, <2>2, TrieInvStep, ImplInvStep
<1>7. CASE DispatchSearches
  <2>1. Next
    BY <1>7, Zenon DEF DispatchSearches, Next
  <2> QED BY <1>1, <2>1, TrieInvStep, ImplInvStep
<1>8. CASE DispatchReturns
  BY <1>1, <1>8, AnswerDropped, Zenon DEF DispatchReturns
<1>9. ASSUME NEW iters, PwBenchDispatch(iters)
      PROVE  TrieInv' /\ ImplInv'
  BY <1>2, <1>9, Zenon DEF PwBenchDispatch
<1>10. CASE UNCHANGED bindingVars
  BY <1>2, <1>10, Zenon DEF bindingVars
<1> QED BY <1>3, <1>4, <1>5, <1>6, <1>7, <1>8, <1>9, <1>10, Zenon DEF BindingNext

(* A step of findFrom that ends the lookup leaves the answer of the table. *)
LEMMA SearchAnswers ==
  ASSUME TrieInv, ImplInv, Search
  PROVE  /\ request # NoRequest /\ UNCHANGED trie
         /\ request' = request \/ (request' = NoRequest /\ answer' = Table!Resolve(request))
         /\ answer'.handler = 0 => answer' = Miss
<1>1. request # NoRequest /\ UNCHANGED trie
  BY Zenon DEF Search, Hit, NoHandler, TryLiteral, TryParam, NoParamChild, Undo
<1>2. request' = request \/ request' = NoRequest
  BY Zenon DEF Search, Hit, NoHandler, TryLiteral, TryParam, NoParamChild, Undo, ReturnNull
<1>3. [Table!Next]_(Table!vars)
  BY ImplementsStep, Zenon DEF Next
<1>4. ASSUME request' = NoRequest PROVE answer' = Table!Resolve(request)
  <2>1. Table!Next
    BY <1>1, <1>3, <1>4, Zenon DEF Table!vars
  <2>2. Table!Reply
    BY <1>1, <2>1, Zenon DEF Table!Next, Table!Register, Table!Ask, NoRequest, Table!NoRequest
  <2> QED BY <1>1, <1>4, <2>2, Zenon DEF Table!Reply
<1>5. answer'.handler = 0 => answer' = Miss
  <2>1. CASE Hit
    <3>1. answer' = [handler |-> handler[Top.node], params |-> params] /\ handler[Top.node] # 0
      BY <2>1, Zenon DEF Hit
    <3>2. answer'.handler = handler[Top.node]
      BY <3>1
    <3> QED BY <3>1, <3>2, Zenon
  <2>2. CASE NoHandler \/ TryLiteral \/ TryParam \/ NoParamChild \/ Undo
    <3>1. answer' = answer
      BY <2>2, Zenon DEF NoHandler, TryLiteral, TryParam, NoParamChild, Undo, ReturnNull
    <3> QED BY <1>1, <3>1, Zenon DEF ImplInv, SearchedInv
  <2> QED BY <2>1, <2>2, Zenon DEF Search
<1> QED BY <1>1, <1>2, <1>4, <1>5, Zenon

\* The table of the instance, as a function of the registrations.
Agree == \A r : Table!Resolve(r) = TableOf(table)!Resolve(r)

LEMMA ResolveOf == Agree
<1> SUFFICES ASSUME NEW r PROVE Table!Resolve(r) = TableOf(table)!Resolve(r)
  BY DEF Agree
<1>1. Table!Serving(r) = TableOf(table)!Serving(r)
  BY Zenon DEF Table!Serving, Table!Serves, Table!Pattern,
               TableOf!Serving, TableOf!Serves, TableOf!Pattern
<1>2. Table!Winner(r) = TableOf(table)!Winner(r)
  BY Zenon DEF Table!Winner, Table!Serving, Table!Serves, Table!Pattern, Table!MoreLiteral,
               Table!SameUpTo, Table!Max, TableOf!Winner, TableOf!Serving, TableOf!Serves,
               TableOf!Pattern, TableOf!MoreLiteral, TableOf!SameUpTo, TableOf!Max
<1>3. ASSUME NEW i PROVE Table!Binding(r, i) = TableOf(table)!Binding(r, i)
  BY Zenon DEF Table!Binding, Table!NameAt, Table!Pattern, Table!SameUpTo, Table!Max, Table!Min,
               TableOf!Binding, TableOf!NameAt, TableOf!Pattern, TableOf!SameUpTo, TableOf!Max,
               TableOf!Min
<1> QED BY <1>1, <1>2, <1>3, Zenon DEF Table!Resolve, Table!Miss, TableOf!Resolve, TableOf!Miss

(* Nothing but the registrations decides what a request is resolved to.    *)
LEMMA ResolveKept ==
  ASSUME NEW r, UNCHANGED table
  PROVE  Table!Resolve(r)' = Table!Resolve(r)
<1>1. Agree /\ Agree'
  BY ResolveOf, PTL
<1>2. Table!Resolve(r)' = TableOf(table)!Resolve(r)' /\ Table!Resolve(r) = TableOf(table)!Resolve(r)
  BY <1>1, Zenon DEF Agree
<1>3. TableOf(table)!Resolve(r)' = TableOf(table)!Resolve(r)
  OBVIOUS
<1> QED BY <1>2, <1>3, Zenon

LEMMA CallStep ==
  ASSUME BindingInv, [BindingNext]_bindingVars
  PROVE  CallInv'
<1>1. TrieInv /\ ImplInv /\ CallInv
  BY DEF BindingInv
<1>2. ASSUME UNCHANGED <<asked, request, answer>>, Idle \/ UNCHANGED table PROVE CallInv'
  <2>1. PICK r : r = asked
    OBVIOUS
  <2>2. UNCHANGED table => Table!Resolve(r)' = Table!Resolve(r)
    BY ResolveKept
  <2> QED BY <1>1, <1>2, <2>1, <2>2, Zenon DEF CallInv, Idle
<1>3. CASE PwVersion \/ PwParseRequest \/ PwDumpTrie \/ PwReset
  BY <1>2, <1>3, Zenon DEF PwVersion, PwParseRequest, PwDumpTrie, PwReset, EmptyRegistry, registry
<1>4. ASSUME NEW key, PwRegisterRoute(key)
      PROVE  CallInv'
  BY <1>2, <1>4, Zenon DEF PwRegisterRoute, Refuse, Add, Insert, registry
<1>5. ASSUME NEW method \in Dispatched, NEW path \in Paths, PwDispatch(method, path)
      PROVE  CallInv'
  <2>1. asked' \in Requests /\ request' = asked' /\ answer' = Miss
    BY <1>5, BindingAssumption, Zenon DEF PwDispatch, Lookup
  <2>2. request' # NoRequest
    <3>1. asked'.method \in Methods
      BY <2>1, InputAssumption
    <3>2. NoRequest.method \notin Methods
      BY DEF NoRequest, Methods
    <3> QED BY <2>1, <3>1, <3>2
  <2> QED BY <2>1, <2>2, Zenon DEF CallInv, Idle
<1>6. CASE DispatchSearches
  <2>1. /\ request # NoRequest /\ UNCHANGED <<trie, asked>>
        /\ request' = request \/ (request' = NoRequest /\ answer' = Table!Resolve(request))
        /\ answer'.handler = 0 => answer' = Miss
    BY <1>1, <1>6, SearchAnswers, Zenon DEF DispatchSearches
  <2>2. PICK r : r = asked
    OBVIOUS
  <2>3. request = r /\ r # NoRequest /\ r \in Requests \cup {NoRequest}
    BY <1>1, <2>1, <2>2, Zenon DEF CallInv
  <2>4. Table!Resolve(r)' = Table!Resolve(r)
    <3>1. table' = table
      BY <2>1, Zenon DEF trie
    <3> QED BY <3>1, ResolveKept
  <2> QED BY <2>1, <2>2, <2>3, <2>4, Zenon DEF CallInv, Idle
<1>7. CASE DispatchReturns
  BY <1>7, Zenon DEF DispatchReturns, CallInv, Idle
<1>8. ASSUME NEW iters, PwBenchDispatch(iters)
      PROVE  CallInv'
  BY <1>2, <1>8, Zenon DEF PwBenchDispatch, registry, trie
<1>9. CASE UNCHANGED bindingVars
  BY <1>2, <1>9, Zenon DEF bindingVars, registry, trie
<1> QED BY <1>3, <1>4, <1>5, <1>6, <1>7, <1>8, <1>9, Zenon DEF BindingNext

(* The path to a pattern's node starts with a child of the root.           *)
LEMMA FirstNode ==
  ASSUME NEW m \in Methods, NEW p \in Patterns
  PROVE  /\ NodeOf(m, p) # Root
         /\ \E c \in PathTo(NodeOf(m, p)) : c # Root /\ Parent(c) = Root
<1>1. PICK s : s = NodeOf(m, p)
  OBVIOUS
<1>2. s \in Seq(Step) /\ Len(s) \in Nat \ {0}
  <2>1. p \in Seq(Literals \cup Names)
    BY InputAssumption
  <2>2. Len(p) \in Nat
    BY <2>1, LenProperties
  <2> QED BY <1>1, <2>1, <2>2, NodeOfPattern
<1>3. PICK c : c = SubSeq(s, 1, 1)
  OBVIOUS
<1>4. c \in PathTo(s)
  BY <1>2, <1>3 DEF PathTo
<1>5. s[1] \in Step
  BY <1>2, ElementOfSeq
<1>6. c \in Seq(Step) /\ Len(c) = 1
  BY <1>2, <1>3, <1>5, SubSeqProperties
<1>7. c # Root /\ Parent(c) = Root
  <2>1. c # Root
    <3>1. Len(Root) = 0
      BY DEF Root
    <3>2. 0 # 1
      OBVIOUS
    <3> QED BY <1>6, <3>1, <3>2, Zenon
  <2>2. SubSeq(c, 1, 0) = Root
    BY SubSeqEmpty DEF Root
  <2> QED BY <1>6, <2>1, <2>2 DEF Parent
<1>8. s # Root
  BY <1>2, EmptySeq DEF Root
<1> QED BY <1>1, <1>4, <1>7, <1>8, Zenon

LEMMA LeafStep ==
  ASSUME BindingInv, [BindingNext]_bindingVars
  PROVE  LeafInv'
<1>1. LeafInv /\ ListInv /\ TypeOK
  BY DEF BindingInv, TrieInv
<1>2. ASSUME UNCHANGED <<patterns, leaf, nodes>> PROVE LeafInv'
  BY <1>1, <1>2, Zenon DEF LeafInv, RouteNodes
<1>3. CASE PwVersion \/ PwParseRequest \/ PwDumpTrie
  BY <1>2, <1>3, Zenon DEF PwVersion, PwParseRequest, PwDumpTrie, registry, trie
<1>4. CASE PwReset
  <2>1. patterns' = <<>> /\ leaf' = {Root} /\ nodes' = {Root}
    BY <1>4, Zenon DEF PwReset, EmptyRegistry
  <2>2. Range(<<>>) = {}
    BY DEF Range
  <2> QED BY <2>1, <2>2, Zenon DEF LeafInv, RouteNodes
<1>5. ASSUME NEW key \in Keys, PwRegisterRoute(key)
      PROVE  LeafInv'
  <2>1. CASE \E routeId, error : Refuse(key, routeId, error)
    BY <1>2, <2>1, Zenon DEF Refuse, registry, trie
  <2>2. CASE key.method # "" /\ Add(key)
    <3> DEFINE end == NodeOf(key.method, Pieces(key.pattern))
    <3>1. /\ nodes' = nodes \cup PathTo(end)
          /\ leaf' = (leaf \ {Parent(n) : n \in nodes' \ nodes}) \cup {end}
      <4>1. {NodeOf(m, Pieces(key.pattern)) : m \in {key.method}} = {end}
        OBVIOUS
      <4> HIDE DEF end
      <4>2. UNION {PathTo(n) : n \in {end}} = PathTo(end)
        OBVIOUS
      <4> QED BY <2>2, <4>1, <4>2, Zenon DEF Add, Insert
    <3>2. RouteNodes' = RouteNodes \cup {end}
      <4>1. Range(patterns') = Range(patterns) \cup {key}
        <5>1. PICK n : n = Len(patterns)
          OBVIOUS
        <5>2. n \in Nat /\ patterns \in Seq(Keys)
          BY <1>1, <5>1, ListFacts DEF ListInv
        <5>3. patterns' = Append(patterns, key)
          BY <2>2, Zenon DEF Add
        <5>4. /\ DOMAIN patterns = 1..n /\ DOMAIN patterns' = 1..n + 1
              /\ \A i \in 1..n : patterns'[i] = patterns[i]
              /\ patterns'[n + 1] = key
          BY <5>1, <5>2, <5>3, AppendProperties, LenProperties
        <5>5. 1..n + 1 = 1..n \cup {n + 1}
          BY <5>2
        <5>6. /\ Range(patterns) = {patterns[i] : i \in 1..n}
              /\ Range(patterns') = {patterns'[i] : i \in 1..n + 1}
          BY <5>4, Zenon DEF Range
        <5>7. ASSUME NEW x PROVE x \in Range(patterns') <=> x \in Range(patterns) \/ x = key
          BY <5>4, <5>5, <5>6, Zenon
        <5> QED BY <5>7
      <4> QED BY <4>1, Zenon DEF RouteNodes
    <3>5. Root \notin leaf'
      <4>1. /\ end # Root
            /\ \E c \in PathTo(end) : c # Root /\ Parent(c) = Root
        <5>1. key.method \in Methods /\ Pieces(key.pattern) \in Patterns
          BY <2>2, BindingAssumption
        <5> QED BY <5>1, FirstNode
      <4> HIDE DEF end
      <4>2. Root \in leaf => nodes = {Root}
        BY <1>1, Zenon DEF LeafInv
      <4> QED BY <3>1, <4>1, <4>2, Zenon
    <3> HIDE DEF end
    <3>3. leaf' \subseteq RouteNodes' \cup {Root}
      BY <1>1, <3>1, <3>2, Zenon DEF LeafInv
    <3>4. ASSUME NEW n \in RouteNodes', n \notin leaf'
          PROVE  \E c \in nodes' : c # Root /\ Parent(c) = n
      <4>1. n \in RouteNodes
        BY <3>1, <3>2, <3>4, Zenon
      <4>2. CASE n \in leaf
        <5>1. PICK c \in nodes' \ nodes : n = Parent(c)
          BY <3>1, <3>4, <4>2, Zenon
        <5> QED BY <1>1, <5>1, Zenon DEF TypeOK
      <4>3. CASE n \notin leaf
        BY <1>1, <3>1, <4>1, <4>3, Zenon DEF LeafInv
      <4> QED BY <4>2, <4>3
    <3> QED BY <3>3, <3>4, <3>5, Zenon DEF LeafInv
  <2> QED BY <1>5, <2>1, <2>2, Zenon DEF PwRegisterRoute
<1>6. ASSUME NEW method, NEW path, PwDispatch(method, path)
      PROVE  LeafInv'
  BY <1>2, <1>6, Zenon DEF PwDispatch, Lookup, trie
<1>7. CASE DispatchSearches
  <2>1. UNCHANGED trie
    BY <1>7, SearchAnswers, Zenon DEF DispatchSearches, BindingInv
  <2> QED BY <1>2, <1>7, <2>1, Zenon DEF DispatchSearches, trie
<1>8. CASE DispatchReturns
  BY <1>2, <1>8, Zenon DEF DispatchReturns, trie
<1>9. ASSUME NEW iters, PwBenchDispatch(iters)
      PROVE  LeafInv'
  BY <1>2, <1>9, Zenon DEF PwBenchDispatch, registry, trie
<1>10. CASE UNCHANGED bindingVars
  BY <1>2, <1>10, Zenon DEF bindingVars, registry, trie
<1> QED BY <1>3, <1>4, <1>5, <1>6, <1>7, <1>8, <1>9, <1>10, Zenon DEF BindingNext

LEMMA BindingStart == BindingInit => BindingInv
<1> SUFFICES ASSUME BindingInit PROVE BindingInv
  OBVIOUS
<1>1. Init /\ ids = <<>> /\ patterns = <<>> /\ lastRouteId = -1 /\ asked = NoRequest
  BY Zenon DEF BindingInit
<1>2. TrieInv /\ ImplInv
  <2>1. Empty
    BY <1>1, NoParamsIsMap, Zenon DEF Init, Empty
  <2> QED BY <2>1, EmptyTrie
<1>3. ListInv
  <2>1. /\ <<>> \in Seq(Keys) /\ DOMAIN <<>> = {} /\ -1 \in -1..Len(<<>>) - 1
        /\ <<>> = [i \in {} |-> i - 1]
        /\ <<>> = [i \in {} |-> [methods |-> {patterns[i].method}, pattern |-> Pieces(patterns[i].pattern)]]
    BY EmptySeq
  <2> QED BY <1>1, <2>1, Zenon DEF Init, ListInv, Entries
<1>4. CallInv
  BY <1>1, Zenon DEF Init, CallInv, Idle
<1>5. LeafInv
  <2>1. Range(<<>>) = {}
    BY DEF Range
  <2> QED BY <1>1, <2>1, Zenon DEF Init, LeafInv, RouteNodes
<1> QED BY <1>2, <1>3, <1>4, <1>5, Zenon DEF BindingInv

LEMMA BindingStep ==
  ASSUME BindingInv, [BindingNext]_bindingVars
  PROVE  BindingInv'
BY ListStep, TrieStep, CallStep, LeafStep, Zenon DEF BindingInv

-----------------------------------------------------------------------------
(* What dispatch() answers.                                                *)

LEMMA EntriesAre ==
  ASSUME ListInv, NEW r
  PROVE  TableOf(Entries)!Resolve(r) = Table!Resolve(r)
<1>1. TableOf(table)!Resolve(r) = Table!Resolve(r)
  BY ResolveOf, Zenon DEF Agree
<1>2. table = Entries
  BY Zenon DEF ListInv
<1> QED BY <1>1, <1>2, Zenon

LEMMA DispatchStays ==
  ASSUME DispatchedAsListed, UNCHANGED <<result, patterns>>
  PROVE  DispatchedAsListed'
<1>1. Entries' = Entries
  BY Zenon DEF Entries
<1>2. TableOf(Entries)!Resolve(result.asked)' = TableOf(Entries)!Resolve(result.asked)
  BY <1>1
<1> QED BY <1>2, Zenon DEF DispatchedAsListed, Returned

LEMMA NotDispatched ==
  ASSUME result'.fn # "dispatch"
  PROVE  DispatchedAsListed'
BY Zenon DEF DispatchedAsListed, Returned

LEMMA DispatchReturned ==
  ASSUME BindingInv, ListInv', DispatchReturns
  PROVE  DispatchedAsListed'
<1>1. ListInv /\ CallInv /\ UNCHANGED patterns
  BY Zenon DEF BindingInv, DispatchReturns
<1>2. PICK r, ans : r = asked /\ ans = answer
  OBVIOUS
<1>3. TableOf(Entries)!Resolve(r)' = ans
  <2>1. TableOf(Entries)!Resolve(r) = ans
    BY <1>1, <1>2, EntriesAre, Zenon DEF CallInv, DispatchReturns
  <2>2. Entries' = Entries
    BY <1>1, Zenon DEF Entries
  <2>3. TableOf(Entries)!Resolve(r)' = TableOf(Entries)!Resolve(r)
    BY <2>2
  <2> QED BY <2>1, <2>3, Zenon
<1>4. SUFFICES ASSUME Returned("dispatch")'
               PROVE  /\ result'.asked = r
                      /\ result'.matched = (ans.handler # 0)
                      /\ result'.routeId = ans.handler - 1
                      /\ result'.params = ans.params
                      /\ result'.matched => result'.pattern = patterns'[ans.handler]
  BY <1>3, Zenon DEF DispatchedAsListed
<1>5. CASE ans.handler = 0
  <2>1. result' = DispatchResult(-1, <<>>)
    BY <1>2, <1>5, Zenon DEF DispatchReturns, Hold
  <2>2. /\ result'.asked = r /\ result'.matched = (ans.handler # 0) /\ result'.routeId = -1
        /\ result'.params = <<>>
    BY <1>2, <2>1 DEF DispatchResult
  <2>3. ans.params = <<>>
    <3>1. ans = Miss
      BY <1>1, <1>2, <1>5, Zenon DEF CallInv
    <3> QED BY <3>1 DEF Miss, NoParams
  <2>4. -1 = 0 - 1
    OBVIOUS
  <2> QED BY <1>5, <2>2, <2>3, <2>4, Zenon
<1>6. CASE ans.handler # 0
  <2>1. PICK h : h = ans.handler
    OBVIOUS
  <2>2. /\ h \in 1..Len(patterns) /\ h - 1 \in 0..Len(patterns) - 1 /\ (h - 1) + 1 = h
        /\ ids[h] = h - 1
    <3>1. ans.handler \in 0..Len(table)
      BY <1>2 DEF BindingInv, TrieInv, TypeOK
    <3>2. /\ DOMAIN table = 1..Len(patterns) /\ Len(patterns) \in Nat
          /\ table \in Seq([methods : SUBSET Methods, pattern : Patterns])
      BY <1>1, ListFacts DEF BindingInv, TrieInv, TypeOK
    <3>3. Len(table) = Len(patterns)
      BY <3>2, LenProperties
    <3>4. h \in 1..Len(patterns) /\ h - 1 \in 0..Len(patterns) - 1 /\ (h - 1) + 1 = h
      BY <1>6, <2>1, <3>1, <3>2, <3>3
    <3> QED BY <1>1, <3>4, ListFacts, Zenon DEF ListInv
  <2>3. result' = DispatchResult(h - 1, ans.params)
    <3>1. lastRouteId' = h - 1
      BY <1>2, <1>6, <2>1, <2>2, Zenon DEF DispatchReturns
    <3>2. \/ Throw(DispatchResult(lastRouteId', answer.params).fn)
          \/ Hold(2, DispatchResult(lastRouteId', answer.params))
      BY <1>2, <1>6, Zenon DEF DispatchReturns, HoldOrThrow
    <3>3. ~Throw(DispatchResult(lastRouteId', answer.params).fn)
      <4>1. "threw" \notin DOMAIN result'
        BY <1>4, Zenon DEF Returned
      <4> QED BY <4>1 DEF Throw
    <3> QED BY <1>2, <3>1, <3>2, <3>3, Zenon DEF Hold
  <2>4. /\ result'.asked = r /\ result'.matched = (ans.handler # 0) /\ result'.routeId = h - 1
        /\ result'.params = ans.params
        /\ result'.pattern = IF h - 1 \in 0..Len(patterns) - 1 THEN patterns[(h - 1) + 1] ELSE ""
    BY <1>2, <2>3 DEF DispatchResult
  <2> QED BY <1>1, <2>1, <2>2, <2>4, Zenon
<1> QED BY <1>5, <1>6

LEMMA DispatchStep ==
  ASSUME BindingInv, DispatchedAsListed, [BindingNext]_bindingVars
  PROVE  DispatchedAsListed'
<1>1. CASE PwVersion
  BY <1>1, NotDispatched DEF PwVersion, Hold
<1>2. CASE PwReset
  BY <1>2, NotDispatched DEF PwReset
<1>3. CASE PwParseRequest
  BY <1>3, NotDispatched DEF PwParseRequest, Hold, Throw
<1>4. CASE PwDumpTrie
  BY <1>4, NotDispatched DEF PwDumpTrie, HoldOrThrow, Hold, Throw
<1>5. ASSUME NEW key \in Keys, PwRegisterRoute(key)
      PROVE  DispatchedAsListed'
  <2>1. \E routeId, error : Hold(1, RegisterResult(key, routeId, error))
    BY <1>5, Zenon DEF PwRegisterRoute, Refuse, Add
  <2> QED BY <2>1, NotDispatched DEF Hold, RegisterResult
<1>6. ASSUME NEW method, NEW path, PwDispatch(method, path)
      PROVE  DispatchedAsListed'
  BY <1>6, NotDispatched DEF PwDispatch
<1>7. CASE DispatchSearches
  BY <1>7, DispatchStays, Zenon DEF DispatchSearches
<1>8. CASE DispatchReturns
  BY <1>8, DispatchReturned, ListStep
<1>9. ASSUME NEW iters, PwBenchDispatch(iters)
      PROVE  DispatchedAsListed'
  BY <1>9, NotDispatched DEF PwBenchDispatch
<1>10. CASE UNCHANGED bindingVars
  BY <1>10, DispatchStays, Zenon DEF bindingVars
<1> QED BY <1>1, <1>2, <1>3, <1>4, <1>5, <1>6, <1>7, <1>8, <1>9, <1>10, Zenon DEF BindingNext

(* For any routes and paths and any order of calls, refused ones, resets   *)
(* and calls that throw included: dispatch() answers with the route that   *)
(* the list since the last reset decides, its id, its key and what its     *)
(* parameters stand for (plusweb_wasm.cpp:142-172).                        *)
THEOREM DispatchRight == BindingSpec => []DispatchedAsListed
<1>1. BindingInit => BindingInv /\ DispatchedAsListed
  <2> SUFFICES ASSUME BindingInit PROVE DispatchedAsListed
    BY BindingStart
  <2>1. result.fn # "dispatch"
    BY DEF BindingInit
  <2> QED BY <2>1, Zenon DEF DispatchedAsListed, Returned
<1>2. BindingInv /\ DispatchedAsListed /\ [BindingNext]_bindingVars
        => BindingInv' /\ DispatchedAsListed'
  BY BindingStep, DispatchStep
<1> QED BY <1>1, <1>2, PTL DEF BindingSpec

-----------------------------------------------------------------------------
(* What dumpTrie() shows.                                                  *)

(* The graph is that of the listed routes.                                 *)
LEMMA GraphOfList ==
  ASSUME BindingInv
  PROVE  /\ {n \in nodes : handler[n] # 0} = RouteNodes
         /\ nodes = {Root} \cup UNION {PathTo(n) : n \in RouteNodes}
<1>1. TypeOK /\ TreeOfTable /\ ListInv
  BY DEF BindingInv, TrieInv, ImplInv
<1> DEFINE End(i) == NodeOf(patterns[i].method, Pieces(patterns[i].pattern))
           I == 1..Len(patterns)
<1>2. RouteNodes = {End(i) : i \in I}
  <2>1. Range(patterns) = {patterns[i] : i \in I}
    BY <1>1, ListFacts, Zenon DEF Range
  <2>2. ASSUME NEW n PROVE n \in RouteNodes <=> n \in {End(i) : i \in I}
    BY <2>1, Zenon DEF RouteNodes
  <2> QED BY <2>2
<1>3. Len(table) = Len(patterns) /\ Len(patterns) \in Nat
  <2>1. /\ DOMAIN table = 1..Len(patterns) /\ Len(patterns) \in Nat
        /\ table \in Seq([methods : SUBSET Methods, pattern : Patterns])
    BY <1>1, ListFacts DEF TypeOK
  <2> QED BY <2>1, LenProperties
<1>4. ASSUME NEW i \in I, NEW n
      PROVE  /\ EndsAt(i, n) <=> n = End(i)
             /\ Through(i, n) <=> n \in PathTo(End(i))
  <2>1. table[i].methods = {patterns[i].method} /\ table[i].pattern = Pieces(patterns[i].pattern)
    BY <1>1, ListFacts, Zenon
  <2> QED BY <2>1, Zenon DEF EndsAt, Through
<1>5. ASSUME NEW i \in I
      PROVE  PathTo(End(i)) \subseteq nodes /\ End(i) \in nodes
  <2>1. PathTo(End(i)) \subseteq nodes
    <3>1. table[i].methods = {patterns[i].method} /\ table[i].pattern = Pieces(patterns[i].pattern)
      BY <1>1, ListFacts, Zenon
    <3>2. \A m \in table[i].methods : PathTo(NodeOf(m, table[i].pattern)) \subseteq nodes
      BY <1>1, <1>3, Zenon DEF TreeOfTable
    <3> QED BY <3>1, <3>2, Zenon
  <2>2. End(i) \in PathTo(End(i))
    <3>1. i \in 1..Len(table)
      BY <1>3
    <3>2. table[i].methods \subseteq Methods /\ table[i].pattern \in Seq(Literals \cup Names)
      BY <1>1, <3>1, EntryFacts
    <3>3. table[i].methods = {patterns[i].method} /\ table[i].pattern = Pieces(patterns[i].pattern)
      BY <1>1, ListFacts, Zenon
    <3>4. patterns[i].method \in Methods /\ Pieces(patterns[i].pattern) \in Seq(Literals \cup Names)
      BY <3>2, <3>3
    <3>5. End(i) \in Seq(Step)
      BY <3>4, NodeOfPattern
    <3> HIDE DEF End
    <3> QED BY <3>5, OwnPrefix
  <2> QED BY <2>1, <2>2, Zenon
<1> HIDE DEF End, I
<1>6. ASSUME NEW n PROVE n \in nodes /\ handler[n] # 0 <=> n \in RouteNodes
  <2>1. ASSUME n \in nodes, handler[n] # 0 PROVE n \in RouteNodes
    <3>1. PICK h : h = handler[n]
      OBVIOUS
    <3>2. h \in 0..Len(table) /\ h # 0 /\ EndsAt(h, n)
      BY <1>1, <2>1, <3>1, Zenon DEF TypeOK, TreeOfTable
    <3>3. h \in I
      BY <1>3, <3>2 DEF I
    <3> QED BY <1>2, <1>4, <3>2, <3>3, Zenon
  <2>2. ASSUME n \in RouteNodes PROVE n \in nodes /\ handler[n] # 0
    <3>1. PICK i \in I : n = End(i)
      BY <1>2, <2>2, Zenon
    <3>2. n \in nodes /\ EndsAt(i, n)
      BY <1>4, <1>5, <3>1, Zenon
    <3>3. i <= handler[n]
      <4>1. i \in 1..Len(table)
        BY <1>3 DEF I
      <4> QED BY <1>1, <3>2, <4>1, Zenon DEF TreeOfTable
    <3>4. ~(i <= 0)
      BY DEF I
    <3> QED BY <3>2, <3>3, <3>4, Zenon
  <2> QED BY <2>1, <2>2, Zenon
<1>7. ASSUME NEW n PROVE n \in nodes <=> n \in {Root} \cup UNION {PathTo(e) : e \in RouteNodes}
  <2>1. ASSUME n \in nodes, n # Root PROVE \E e \in RouteNodes : n \in PathTo(e)
    <3>1. PICK i \in I : Through(i, n)
      BY <1>1, <1>3, <2>1, Zenon DEF TreeOfTable, I
    <3> QED BY <1>2, <1>4, <3>1, Zenon
  <2>2. Root \in nodes /\ \A e \in RouteNodes : PathTo(e) \subseteq nodes
    BY <1>1, <1>2, <1>5, Zenon DEF TypeOK
  <2> QED BY <2>1, <2>2, Zenon
<1> QED BY <1>6, <1>7

LEMMA NotDumped ==
  ASSUME result'.fn # "dumpTrie"
  PROVE  DumpShowsListed'
BY Zenon DEF DumpShowsListed, Returned

LEMMA Dumped ==
  ASSUME BindingInv, PwDumpTrie
  PROVE  DumpShowsListed'
<1> SUFFICES ASSUME Returned("dumpTrie")' PROVE DumpShowsListed'
  BY Zenon DEF DumpShowsListed
<1> DEFINE json == [fn |-> "dumpTrie", nodes |-> nodes, leaves |-> leaf, names |-> pname,
                    hasHandler |-> {n \in nodes : handler[n] # 0}, routes |-> patterns]
<1>1. result' = json
  <2>1. Throw(json.fn) \/ Hold(4, json)
    BY Zenon DEF PwDumpTrie, HoldOrThrow
  <2>2. ~Throw(json.fn)
    <3>1. "threw" \notin DOMAIN result'
      BY Zenon DEF Returned
    <3> QED BY <3>1 DEF Throw
  <2> HIDE DEF json
  <2> QED BY <2>1, <2>2, Zenon DEF Hold
<1>2. /\ result'.nodes = nodes /\ result'.leaves = leaf /\ result'.routes = patterns
      /\ result'.hasHandler = {n \in nodes : handler[n] # 0}
  BY <1>1
<1>3. {NodeOf(k.method, Pieces(k.pattern)) : k \in Range(result'.routes)} = RouteNodes
  BY <1>2, Zenon DEF RouteNodes
<1>4. LeafInv
  BY DEF BindingInv
<1> HIDE DEF json
<1> QED BY <1>2, <1>3, <1>4, GraphOfList, Zenon DEF DumpShowsListed, LeafInv

LEMMA DumpStep ==
  ASSUME BindingInv, DumpShowsListed, [BindingNext]_bindingVars
  PROVE  DumpShowsListed'
<1>0. ASSUME UNCHANGED result PROVE DumpShowsListed'
  BY <1>0, Zenon DEF DumpShowsListed, Returned
<1>1. CASE PwVersion
  BY <1>1, NotDumped DEF PwVersion, Hold
<1>2. CASE PwReset
  BY <1>2, NotDumped DEF PwReset
<1>3. CASE PwParseRequest
  BY <1>3, NotDumped DEF PwParseRequest, Hold, Throw
<1>4. CASE PwDumpTrie
  BY <1>4, Dumped
<1>5. ASSUME NEW key \in Keys, PwRegisterRoute(key)
      PROVE  DumpShowsListed'
  <2>1. \E routeId, error : Hold(1, RegisterResult(key, routeId, error))
    BY <1>5, Zenon DEF PwRegisterRoute, Refuse, Add
  <2> QED BY <2>1, NotDumped DEF Hold, RegisterResult
<1>6. ASSUME NEW method, NEW path, PwDispatch(method, path)
      PROVE  DumpShowsListed'
  BY <1>6, NotDumped DEF PwDispatch
<1>7. CASE DispatchSearches
  BY <1>0, <1>7, Zenon DEF DispatchSearches
<1>8. CASE DispatchReturns
  <2>1. \E json : json.fn = "dispatch" /\ (Hold(2, json) \/ Throw(json.fn))
    BY <1>8 DEF DispatchReturns, HoldOrThrow, DispatchResult
  <2> QED BY <2>1, NotDumped DEF Hold, Throw
<1>9. ASSUME NEW iters, PwBenchDispatch(iters)
      PROVE  DumpShowsListed'
  BY <1>9, NotDumped DEF PwBenchDispatch
<1>10. CASE UNCHANGED bindingVars
  BY <1>0, <1>10, Zenon DEF bindingVars
<1> QED BY <1>1, <1>2, <1>3, <1>4, <1>5, <1>6, <1>7, <1>8, <1>9, <1>10, Zenon DEF BindingNext

(* The graph that dumpTrie() shows is that of the routes it lists, for any *)
(* routes and calls before it (plusweb_wasm.cpp:69-94, 249-265).           *)
THEOREM DumpRight == BindingSpec => []DumpShowsListed
<1>1. BindingInit => BindingInv /\ DumpShowsListed
  <2> SUFFICES ASSUME BindingInit PROVE DumpShowsListed
    BY BindingStart
  <2>1. result.fn # "dumpTrie"
    BY DEF BindingInit
  <2> QED BY <2>1, Zenon DEF DumpShowsListed, Returned
<1>2. BindingInv /\ DumpShowsListed /\ [BindingNext]_bindingVars
        => BindingInv' /\ DumpShowsListed'
  BY BindingStep, DumpStep
<1> QED BY <1>1, <1>2, PTL DEF BindingSpec

-----------------------------------------------------------------------------
(* Types.                                                                  *)

ResultNamed == result.fn \in DOMAIN Slot \cup {"", "reset", "benchDispatch"}

LEMMA NamedStep ==
  ASSUME ResultNamed, [BindingNext]_bindingVars
  PROVE  ResultNamed'
<1>0. DOMAIN Slot = {"version", "registerRoute", "dispatch", "parseRequest", "dumpTrie"}
  BY DEF Slot
<1>1. CASE PwVersion \/ PwReset \/ PwParseRequest \/ PwDumpTrie
  <2>1. CASE PwVersion
    BY <1>0, <2>1 DEF PwVersion, Hold, ResultNamed
  <2>2. CASE PwReset
    BY <1>0, <2>2 DEF PwReset, ResultNamed
  <2>3. CASE PwParseRequest
    <3>1. result'.fn = "parseRequest"
      BY <2>3 DEF PwParseRequest, Hold, Throw
    <3> QED BY <1>0, <3>1 DEF ResultNamed
  <2>4. CASE PwDumpTrie
    <3>1. result'.fn = "dumpTrie"
      BY <2>4 DEF PwDumpTrie, HoldOrThrow, Hold, Throw
    <3> QED BY <1>0, <3>1 DEF ResultNamed
  <2> QED BY <1>1, <2>1, <2>2, <2>3, <2>4
<1>2. ASSUME NEW key \in Keys, PwRegisterRoute(key)
      PROVE  ResultNamed'
  <2>1. \E routeId, error : Hold(1, RegisterResult(key, routeId, error))
    BY <1>2, Zenon DEF PwRegisterRoute, Refuse, Add
  <2>2. result'.fn = "registerRoute"
    BY <2>1 DEF Hold, RegisterResult
  <2> QED BY <1>0, <2>2 DEF ResultNamed
<1>3. ASSUME NEW method, NEW path, PwDispatch(method, path)
      PROVE  ResultNamed'
  BY <1>0, <1>3 DEF PwDispatch, ResultNamed
<1>4. CASE DispatchSearches \/ UNCHANGED bindingVars
  BY <1>4, Zenon DEF DispatchSearches, bindingVars, ResultNamed
<1>5. CASE DispatchReturns
  <2>1. \E json : json.fn = "dispatch" /\ (Hold(2, json) \/ Throw(json.fn))
    BY <1>5 DEF DispatchReturns, HoldOrThrow, DispatchResult
  <2>2. result'.fn = "dispatch"
    BY <2>1 DEF Hold, Throw
  <2> QED BY <1>0, <2>2 DEF ResultNamed
<1>6. ASSUME NEW iters, PwBenchDispatch(iters)
      PROVE  ResultNamed'
  BY <1>0, <1>6 DEF PwBenchDispatch, ResultNamed
<1> QED BY <1>1, <1>2, <1>3, <1>4, <1>5, <1>6, Zenon DEF BindingNext

(* Every registration has its id and its key, and the last id is one of    *)
(* them, or none was recorded (plusweb_wasm.cpp:108-113, 134-139).         *)
THEOREM BindingTypeCorrect == BindingSpec => []BindingTypeOK
<1> DEFINE Inv == BindingInv /\ SlotsInv /\ ResultNamed
<1>1. BindingInit => Inv
  <2> SUFFICES ASSUME BindingInit PROVE SlotsInv /\ ResultNamed
    BY BindingStart
  <2>1. SlotsInv
    BY SlotsStart
  <2>2. ResultNamed
    BY DEF BindingInit, ResultNamed
  <2> QED BY <2>1, <2>2
<1>2. Inv /\ [BindingNext]_bindingVars => Inv'
  BY BindingStep, SlotsStep, NamedStep
<1>3. Inv => BindingTypeOK
  <2> SUFFICES ASSUME BindingInv, SlotsInv, ResultNamed PROVE BindingTypeOK
    OBVIOUS
  <2>1. TypeOK /\ ListInv /\ CallInv
    BY DEF BindingInv, TrieInv
  <2>2. Len(table) = Len(patterns)
    <3>1. /\ DOMAIN table = 1..Len(patterns) /\ Len(patterns) \in Nat
          /\ table \in Seq([methods : SUBSET Methods, pattern : Patterns])
      BY <2>1, ListFacts DEF TypeOK
    <3> QED BY <3>1, LenProperties
  <2> QED BY <2>1, <2>2, Zenon DEF BindingTypeOK, ListInv, CallInv, SlotsInv, ResultNamed
<1> QED BY <1>1, <1>2, <1>3, PTL DEF BindingSpec

=============================================================================
