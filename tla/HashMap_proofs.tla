--------------------------- MODULE HashMap_proofs ---------------------------
(***************************************************************************)
(* Proofs about the hash map: for every size, every hash function and      *)
(* every number of keys the counters count, every search ends and no key   *)
(* is cut off; and to callers that do not put a held key again behind a    *)
(* tombstone the table is a map.                                           *)
(***************************************************************************)
EXTENDS HashMap, FiniteSetTheorems, WellFoundedInduction, TLAPS

-----------------------------------------------------------------------------
(* The inductive invariant. *)

Used == {p \in Slots(size) : keys[p] # NoKey}
Held == {p \in Slots(size) : keys[p] \in Keys}

(* The entries of the old table that have moved, and the slots they took.  *)
Moved == {p \in Slots(next) : keys[p] \in Keys}
Taken == {p \in Slots(newSize) : newKeys[p] # NoKey}

(* maybe_rehash leaves a put room for one more entry than searches need.   *)
RoomLeft ==
  /\ size >= 4
  /\ usedCount < size
  /\ pc = "insert" => usedCount + 1 < size
  /\ pc = "rehash" => newSize >= 4 /\ elementCount + 1 < newSize

(* A put that is running has a key and a value. *)
PutIsOne == pc # "idle" => put \in Keys \X Values

(* The new table holds as many entries as moved, and cuts none off. *)
MovesCount == pc = "rehash" => Cardinality(Taken) = Cardinality(Moved)
MovesReachable ==
  pc = "rehash" =>
    \A p, q \in Slots(newSize) :
      newKeys[p] # NoKey /\ Precedes(newKeys[p], q, p, newSize) => newKeys[q] # NoKey

Inv ==
  /\ TypeOK
  /\ RoomLeft
  /\ PutIsOne
  /\ CountsMatch
  /\ KeysReachable
  /\ MovesCount
  /\ MovesReachable

(* What callers that do not put a held key again behind a tombstone keep.  *)
PutIsAllowed == pc = "insert" => MayPut(put[1])

(* The new table holds the entries that moved, each once. *)
MovesFaithful ==
  pc = "rehash" =>
    /\ \A p \in Taken : \E q \in Moved : newKeys[p] = keys[q] /\ newValues[p] = values[q]
    /\ \A q \in Moved : \E p \in Taken : newKeys[p] = keys[q]
    /\ \A p, q \in Taken : newKeys[p] = newKeys[q] => p = q

DistinctInv ==
  /\ KeysDistinct
  /\ PutIsAllowed
  /\ MovesFaithful

-----------------------------------------------------------------------------
(* The order of a search. *)

(* A search that starts at a key's home meets every slot once. *)
LEMMA DistancesDiffer ==
  ASSUME NEW k \in Keys, NEW n \in Nat \ {0}, NEW p \in Slots(n), NEW q \in Slots(n)
  PROVE  /\ Distance(k, p, n) \in Nat
         /\ p # q => Precedes(k, p, q, n) \/ Precedes(k, q, p, n)
         /\ ~(Precedes(k, p, q, n) /\ Precedes(k, q, p, n))
<1>1. Home(k, n) \in 0 .. n - 1
  <2>1. Hash[k] \in Nat
    BY KeyAssumption
  <2> QED BY <2>1 DEF Home
<1> QED BY <1>1 DEF Distance, Precedes, Slots

(* A search ends at one slot, if it ends. *)
LEMMA OneEnd ==
  ASSUME NEW k \in Keys, NEW n \in Nat \ {0}, NEW S \in SUBSET Slots(n),
         NEW p, NEW q, EndsAt(k, p, n, S), EndsAt(k, q, n, S)
  PROVE  p = q
  BY DistancesDiffer DEF EndsAt

(* Every set of natural numbers has a least one. *)
LEMMA LeastOfNaturals ==
  ASSUME NEW T \in SUBSET Nat, T # {}
  PROVE  \E x \in T : \A y \in T : x <= y
<1>1. IsWellFoundedOn(OpToRel(<, Nat), Nat)
  BY NatLessThanWellFounded
<1>2. PICK x \in T : \A y \in T : ~(<<y, x>> \in OpToRel(<, Nat))
  BY <1>1, WFMin
<1>3. \A y \in T : ~(y < x)
  BY <1>2 DEF OpToRel
<1> QED BY <1>3

(* A search that has a slot to stop at ends: there is a first one on its   *)
(* way.                                                                    *)
LEMMA SearchEnds ==
  ASSUME NEW k \in Keys, NEW n \in Nat \ {0}, NEW S \in SUBSET Slots(n), S # {}
  PROVE  \E p \in S : EndsAt(k, p, n, S)
<1> DEFINE D == {Distance(k, p, n) : p \in S}
<1>1. D \in SUBSET Nat /\ D # {}
  BY DistancesDiffer
<1>2. PICK d \in D : \A e \in D : d <= e
  BY <1>1, LeastOfNaturals
<1>3. PICK p \in S : d = Distance(k, p, n)
  BY <1>2
<1>4. ASSUME NEW q \in S \ {p} PROVE Precedes(k, p, q, n)
  <2>1. d <= Distance(k, q, n)
    BY <1>2, <1>4
  <2>2. ~Precedes(k, q, p, n)
    BY <2>1, <1>3, DistancesDiffer DEF Precedes
  <2> QED BY <2>2, <1>4, DistancesDiffer
<1> QED BY <1>4 DEF EndsAt

-----------------------------------------------------------------------------
(* The slots of a table are finitely many. *)
LEMMA SlotsFinite ==
  ASSUME NEW n \in Nat
  PROVE  IsFiniteSet(Slots(n)) /\ Cardinality(Slots(n)) = n
<1>1. n - 1 \in Int /\ 0 \in Int
  OBVIOUS
<1> QED BY <1>1, FS_Interval DEF Slots

(* A table whose counter is below its size has a slot that was never used. *)
LEMMA UnusedSlot ==
  ASSUME NEW n \in Nat, NEW f, Cardinality({p \in Slots(n) : f[p] # NoKey}) < n
  PROVE  \E p \in Slots(n) : f[p] = NoKey
<1> SUFFICES ASSUME \A p \in Slots(n) : f[p] # NoKey PROVE FALSE
  OBVIOUS
<1>1. {p \in Slots(n) : f[p] # NoKey} = Slots(n)
  OBVIOUS
<1> QED BY <1>1, SlotsFinite

(* Entries are counted among the used slots. *)
LEMMA FewerHeld ==
  ASSUME TypeOK, CountsMatch
  PROVE  elementCount <= usedCount
<1>1. IsFiniteSet(Used)
  BY SlotsFinite, FS_Subset DEF TypeOK, Used
<1>2. Held \subseteq Used
  BY KeyAssumption DEF Held, Used
<1> QED BY <1>1, <1>2, FS_Subset DEF CountsMatch, Held, Used

(* Entries that have moved are entries. *)
LEMMA FewerMoved ==
  ASSUME TypeOK, CountsMatch
  PROVE  Cardinality(Moved) <= elementCount
<1>1. IsFiniteSet(Held)
  BY SlotsFinite, FS_Subset DEF TypeOK, Held
<1>2. Moved \subseteq Held
  BY DEF Moved, Held, Slots, TypeOK
<1> QED BY <1>1, <1>2, FS_Subset DEF CountsMatch, Held

-----------------------------------------------------------------------------
(* The invariant: the initial state. *)
LEMMA InitInv == Init => Inv
<1> SUFFICES ASSUME Init PROVE Inv
  OBVIOUS
<1>1. size \in Nat /\ size >= 4 /\ pc = "idle"
  BY SizeAssumption DEF Init
<1>2. TypeOK
  <2>1. newKeys \in [Slots(newSize) -> Keys \cup {NoKey}]
    <3>1. <<>> \in [1 .. 0 -> Keys \cup {NoKey}]
      OBVIOUS
    <3>2. Slots(0) = 1 .. 0
      BY DEF Slots
    <3> QED BY <3>1, <3>2 DEF Init
  <2>2. newValues \in [Slots(newSize) -> Values \cup {NoValue}]
    <3>1. <<>> \in [1 .. 0 -> Values \cup {NoValue}]
      OBVIOUS
    <3>2. Slots(0) = 1 .. 0
      BY DEF Slots
    <3> QED BY <3>1, <3>2 DEF Init
  <2> QED BY <1>1, <2>1, <2>2 DEF Init, TypeOK
<1>3. CountsMatch
  <2>1. Used = {} /\ Held = {}
    BY KeyAssumption DEF Used, Held, Init
  <2> QED BY <2>1, FS_EmptySet DEF CountsMatch, Used, Held, Init
<1>4. KeysReachable
  BY KeyAssumption DEF KeysReachable, Init
<1>5. RoomLeft
  BY <1>1 DEF RoomLeft, Init
<1> QED BY <1>1, <1>2, <1>3, <1>4, <1>5 DEF Inv, PutIsOne, MovesCount, MovesReachable

(* A deletion leaves as many used slots and one entry less. *)
LEMMA DeleteInv ==
  ASSUME Inv, NEW k \in Keys, Delete(k)
  PROVE  Inv'
<1> USE DEF Inv
<1>1. PICK p \in Slots(size) :
        /\ keys[p] = k
        /\ keys' = [keys EXCEPT ![p] = Tombstone]
        /\ values' = [values EXCEPT ![p] = NoValue]
  BY DEF Delete
<1>2. /\ pc = "idle" /\ pc' = "idle" /\ size' = size /\ usedCount' = usedCount
      /\ elementCount' = elementCount - 1
      /\ UNCHANGED <<newKeys, newValues, newSize, next, put>>
  BY DEF Delete, fresh
<1>3. Used' = Used
  BY <1>1, <1>2, KeyAssumption DEF Used, TypeOK
<1>4. Held' = Held \ {p} /\ p \in Held
  BY <1>1, <1>2, KeyAssumption DEF Held, TypeOK
<1>5. IsFiniteSet(Held)
  BY SlotsFinite, FS_Subset DEF TypeOK, Held
<1>6. Cardinality(Held') = Cardinality(Held) - 1
  BY <1>4, <1>5, FS_RemoveElement
<1>7. CountsMatch'
  BY <1>2, <1>3, <1>6 DEF CountsMatch, Used, Held
<1>8. elementCount' \in Nat
  BY <1>7, <1>4, <1>5, FS_RemoveElement, FS_CardinalityType DEF CountsMatch, Held
<1>9. TypeOK'
  BY <1>1, <1>2, <1>8 DEF TypeOK
<1>10. KeysReachable'
  BY <1>1, <1>2, KeyAssumption DEF KeysReachable, TypeOK
<1> QED BY <1>2, <1>7, <1>9, <1>10 DEF RoomLeft, PutIsOne, MovesCount, MovesReachable

(* longmap_empty leaves nothing to count. *)
LEMMA EmptyInv ==
  ASSUME Inv, Empty
  PROVE  Inv'
<1> USE DEF Inv
<1>1. /\ keys' = [p \in Slots(size) |-> NoKey]
      /\ values' = [p \in Slots(size) |-> NoValue]
      /\ pc = "idle" /\ pc' = "idle" /\ size' = size
      /\ usedCount' = 0 /\ elementCount' = 0
      /\ UNCHANGED <<newKeys, newValues, newSize, next, put>>
  BY DEF Empty, fresh
<1>2. Used' = {} /\ Held' = {}
  BY <1>1, KeyAssumption DEF Used, Held
<1>3. CountsMatch'
  BY <1>1, <1>2, FS_EmptySet DEF CountsMatch, Used, Held
<1>4. TypeOK'
  BY <1>1 DEF TypeOK
<1>5. KeysReachable'
  BY <1>1, KeyAssumption DEF KeysReachable
<1>6. RoomLeft'
  BY <1>1 DEF RoomLeft, TypeOK
<1> QED BY <1>1, <1>3, <1>4, <1>5, <1>6 DEF PutIsOne, MovesCount, MovesReachable

(* A call of strmap_put finds room, or starts a table with room. *)
LEMMA BeginPutInv ==
  ASSUME Inv, NEW k \in Keys, NEW v \in Values, BeginPut(k, v)
  PROVE  Inv'
<1> USE DEF Inv
<1>1. /\ pc = "idle" /\ put' = <<k, v>>
      /\ UNCHANGED <<keys, values, size, usedCount, elementCount>>
  BY DEF BeginPut, table
<1>2. PutIsOne'
  BY <1>1 DEF PutIsOne
<1>3. CountsMatch' /\ KeysReachable'
  BY <1>1 DEF CountsMatch, KeysReachable
<1>4. CASE HasRoom
  <2>1. pc' = "insert" /\ UNCHANGED <<newKeys, newValues, newSize, next>>
    BY <1>4 DEF BeginPut, fresh
  <2>2. TypeOK'
    BY <1>1, <2>1 DEF TypeOK
  <2>3. usedCount + 1 < size
    BY <1>4 DEF HasRoom, MaxLoadFactor, RoomLeft, TypeOK
  <2> QED BY <1>1, <1>2, <1>3, <2>1, <2>2, <2>3 DEF RoomLeft, MovesCount, MovesReachable
<1>5. CASE ~HasRoom
  <2>1. /\ newSize' = SizeAfter
        /\ newKeys' = [p \in Slots(SizeAfter) |-> NoKey]
        /\ newValues' = [p \in Slots(SizeAfter) |-> NoValue]
        /\ next' = 0 /\ pc' = "rehash"
    BY <1>5 DEF BeginPut
  <2>2. SizeAfter \in Nat /\ SizeAfter >= 4 /\ elementCount + 1 < SizeAfter
    BY FewerHeld DEF SizeAfter, ExpansionFactor, RoomLeft, TypeOK
  <2>3. TypeOK'
    BY <1>1, <2>1, <2>2 DEF TypeOK
  <2>4. RoomLeft'
    BY <1>1, <2>1, <2>2 DEF RoomLeft
  <2>5. MovesCount'
    <3>1. Taken' = {} /\ Moved' = {}
      BY <2>1 DEF Taken, Moved, Slots
    <3> QED BY <3>1 DEF MovesCount
  <2>6. MovesReachable'
    BY <2>1 DEF MovesReachable
  <2> QED BY <1>2, <1>3, <2>3, <2>4, <2>5, <2>6
<1> QED BY <1>4, <1>5

(* A move takes an unused slot of the new table, the first on the way of   *)
(* its key, and counts one more entry that moved.                          *)
LEMMA MoveEntryInv ==
  ASSUME Inv, MoveEntry
  PROVE  Inv'
<1> USE DEF Inv
<1>1. /\ pc = "rehash" /\ pc' = "rehash" /\ next < size /\ next' = next + 1
      /\ UNCHANGED <<keys, values, size, usedCount, elementCount, newSize, put>>
  BY DEF MoveEntry, table
<1>2. next \in Slots(size) /\ next \in Nat /\ newSize \in Nat \ {0}
  BY <1>1 DEF TypeOK, Slots, RoomLeft
<1>3. PutIsOne' /\ CountsMatch' /\ KeysReachable' /\ RoomLeft'
  BY <1>1 DEF PutIsOne, CountsMatch, KeysReachable, RoomLeft
<1>4. CASE keys[next] \in {NoKey, Tombstone}
  <2>1. UNCHANGED <<newKeys, newValues>>
    BY <1>4 DEF MoveEntry
  <2>2. Moved' = Moved /\ Taken' = Taken
    BY <1>1, <1>2, <1>4, <2>1, KeyAssumption DEF Moved, Taken, Slots
  <2>3. TypeOK'
    BY <1>1, <1>2, <2>1 DEF TypeOK
  <2>4. MovesCount'
    BY <1>1, <2>2 DEF MovesCount
  <2>5. MovesReachable'
    BY <1>1, <2>1 DEF MovesReachable
  <2> QED BY <1>3, <2>3, <2>4, <2>5
<1>5. CASE keys[next] \notin {NoKey, Tombstone}
  <2>1. PICK p \in Slots(newSize) :
          /\ MovesTo(keys[next], p)
          /\ newKeys' = [newKeys EXCEPT ![p] = keys[next]]
          /\ newValues' = [newValues EXCEPT ![p] = values[next]]
    BY <1>5 DEF MoveEntry
  <2>2. keys[next] \in Keys
    BY <1>2, <1>5 DEF TypeOK
  <2>3. newKeys[p] = NoKey
    BY <2>1 DEF MovesTo, EndsAt
  <2>4. TypeOK'
    <3>1. values[next] \in Values \cup {NoValue}
      BY <1>2 DEF TypeOK
    <3>2. newKeys' \in [Slots(newSize) -> Keys \cup {NoKey}]
      BY <2>1, <2>2 DEF TypeOK
    <3>3. newValues' \in [Slots(newSize) -> Values \cup {NoValue}]
      BY <2>1, <3>1 DEF TypeOK
    <3> QED BY <1>1, <1>2, <3>2, <3>3 DEF TypeOK
  <2>5. MovesCount'
    <3>1. Moved' = Moved \cup {next} /\ next \notin Moved
      BY <1>1, <1>2, <2>2 DEF Moved, Slots
    <3>2. Taken' = Taken \cup {p} /\ p \notin Taken
      BY <1>1, <2>1, <2>2, <2>3, KeyAssumption DEF Taken, TypeOK
    <3>3. IsFiniteSet(Moved) /\ IsFiniteSet(Taken)
      BY <1>2, SlotsFinite, FS_Subset DEF Moved, Taken
    <3>4. Cardinality(Taken') = Cardinality(Moved')
      <4>1. Cardinality(Taken) = Cardinality(Moved)
        BY <1>1 DEF MovesCount
      <4>2. Cardinality(Moved') = Cardinality(Moved) + 1
        BY <3>1, <3>3, FS_AddElement
      <4>3. Cardinality(Taken') = Cardinality(Taken) + 1
        BY <3>2, <3>3, FS_AddElement
      <4> QED BY <4>1, <4>2, <4>3
    <3> QED BY <3>4 DEF MovesCount
  <2>6. MovesReachable'
    <3> SUFFICES ASSUME NEW r \in Slots(newSize), NEW q \in Slots(newSize),
                        newKeys'[r] # NoKey, Precedes(newKeys'[r], q, r, newSize)
                 PROVE  newKeys'[q] # NoKey
      BY <1>1 DEF MovesReachable
    <3>1. CASE r = p
      <4>1. Precedes(keys[next], q, p, newSize)
        BY <2>1, <3>1 DEF TypeOK
      <4>2. ~Precedes(keys[next], p, q, newSize) /\ q # p
        BY <4>1, <1>2, <2>2, DistancesDiffer DEF Precedes
      <4>3. newKeys[q] # NoKey
        BY <2>1, <4>2 DEF MovesTo, EndsAt
      <4> QED BY <4>3, <4>2, <2>1 DEF TypeOK
    <3>2. CASE r # p
      <4>1. newKeys'[r] = newKeys[r]
        BY <3>2, <2>1 DEF TypeOK
      <4>2. newKeys[q] # NoKey
        BY <4>1, <1>1 DEF MovesReachable
      <4> QED BY <4>2, <2>1, <2>2, KeyAssumption DEF TypeOK
    <3> QED BY <3>1, <3>2
  <2> QED BY <1>3, <2>4, <2>5, <2>6
<1> QED BY <1>4, <1>5

(* The new table takes over with the entries that moved: all of them. *)
LEMMA EndRehashInv ==
  ASSUME Inv, EndRehash
  PROVE  Inv'
<1> USE DEF Inv
<1>1. /\ pc = "rehash" /\ next = size
      /\ keys' = newKeys /\ values' = newValues /\ size' = newSize
      /\ usedCount' = elementCount
      /\ newKeys' = <<>> /\ newValues' = <<>> /\ newSize' = 0 /\ next' = 0
      /\ pc' = "insert" /\ elementCount' = elementCount /\ put' = put
  BY DEF EndRehash
<1>2. RoomLeft' /\ newSize # 0
  BY <1>1 DEF RoomLeft, TypeOK
<1>3. TypeOK'
  <2>1. <<>> \in [1 .. 0 -> Keys \cup {NoKey}] /\ <<>> \in [1 .. 0 -> Values \cup {NoValue}]
    OBVIOUS
  <2>2. Slots(0) = 1 .. 0
    BY DEF Slots
  <2> QED BY <1>1, <1>2, <2>1, <2>2 DEF TypeOK
<1>4. CountsMatch'
  <2>1. Moved = Held
    BY <1>1 DEF Moved, Held
  <2>2. Used' = Taken /\ Held' = Taken
    BY <1>1, KeyAssumption DEF Used, Held, Taken, TypeOK
  <2> QED BY <1>1, <2>1, <2>2 DEF CountsMatch, MovesCount, Used, Held
<1>5. KeysReachable'
  BY <1>1, KeyAssumption DEF KeysReachable, MovesReachable
<1>6. PutIsOne'
  BY <1>1 DEF PutIsOne
<1> QED BY <1>1, <1>2, <1>3, <1>4, <1>5, <1>6 DEF MovesCount, MovesReachable

(* The key takes the first slot on its way that is unused, deleted or its  *)
(* own, so that none is cut off.                                           *)
LEMMA InsertInv ==
  ASSUME Inv, Insert
  PROVE  Inv'
<1> USE DEF Inv
<1>1. /\ pc = "insert" /\ pc' = "idle" /\ size' = size
      /\ put' = <<NoKey, NoValue>>
      /\ UNCHANGED <<newKeys, newValues, newSize, next>>
  BY DEF Insert, fresh
<1>2. PICK p \in Slots(size) :
        /\ PutAt(put[1], p)
        /\ keys' = [keys EXCEPT ![p] = put[1]]
        /\ values' = [values EXCEPT ![p] = put[2]]
        /\ elementCount' = IF keys[p] = put[1] THEN elementCount ELSE elementCount + 1
        /\ usedCount' = IF keys[p] = NoKey THEN usedCount + 1 ELSE usedCount
  BY DEF Insert
<1>3. put[1] \in Keys /\ put[2] \in Values
  BY <1>1 DEF PutIsOne
<1>4. keys[p] \in {NoKey, Tombstone, put[1]}
  BY <1>2 DEF PutAt, EndsAt
<1>5. TypeOK'
  <2>1. keys' \in [Slots(size) -> Keys \cup {NoKey, Tombstone}]
    BY <1>2, <1>3 DEF TypeOK
  <2>2. values' \in [Slots(size) -> Values \cup {NoValue}]
    BY <1>2, <1>3 DEF TypeOK
  <2>3. elementCount' \in Nat /\ usedCount' \in Nat
    BY <1>2 DEF TypeOK
  <2>4. put' \in (Keys \cup {NoKey}) \X (Values \cup {NoValue})
    BY <1>1
  <2> QED BY <1>1, <2>1, <2>2, <2>3, <2>4 DEF TypeOK
<1>6. CountsMatch'
  <2>1. IsFiniteSet(Used) /\ IsFiniteSet(Held)
    BY SlotsFinite, FS_Subset DEF TypeOK, Used, Held
  <2>2. Used' = Used \cup {p} /\ (p \in Used <=> keys[p] # NoKey)
    BY <1>1, <1>2, <1>3, KeyAssumption DEF Used, TypeOK
  <2>3. Held' = Held \cup {p} /\ (p \in Held <=> keys[p] = put[1])
    BY <1>1, <1>2, <1>3, <1>4, KeyAssumption DEF Held, TypeOK
  <2>4. Cardinality(Used') = usedCount'
    <3>1. usedCount = Cardinality(Used)
      BY DEF CountsMatch, Used
    <3> QED BY <1>2, <2>1, <2>2, <3>1, FS_AddElement
  <2>5. Cardinality(Held') = elementCount'
    <3>1. elementCount = Cardinality(Held)
      BY DEF CountsMatch, Held
    <3> QED BY <1>2, <2>1, <2>3, <3>1, FS_AddElement
  <2> QED BY <2>4, <2>5 DEF CountsMatch, Used, Held
<1>7. KeysReachable'
  <2> SUFFICES ASSUME NEW r \in Slots(size), NEW q \in Slots(size),
                      keys'[r] \in Keys, Precedes(keys'[r], q, r, size)
               PROVE  keys'[q] # NoKey
    BY <1>1 DEF KeysReachable
  <2>1. CASE r = p
    <3>1. Precedes(put[1], q, p, size)
      BY <1>2, <2>1 DEF TypeOK
    <3>2. ~Precedes(put[1], p, q, size) /\ q # p
      BY <3>1, <1>3, DistancesDiffer DEF Precedes, TypeOK
    <3>3. keys[q] # NoKey
      BY <1>2, <3>2 DEF PutAt, EndsAt
    <3> QED BY <3>2, <3>3, <1>2 DEF TypeOK
  <2>2. CASE r # p
    <3>1. keys'[r] = keys[r]
      BY <1>2, <2>2 DEF TypeOK
    <3>2. keys[q] # NoKey
      BY <3>1 DEF KeysReachable
    <3> QED BY <3>2, <1>2, <1>3, KeyAssumption DEF TypeOK
  <2> QED BY <2>1, <2>2
<1>8. RoomLeft'
  BY <1>1, <1>2 DEF RoomLeft, TypeOK
<1> QED BY <1>1, <1>5, <1>6, <1>7, <1>8 DEF PutIsOne, MovesCount, MovesReachable

LEMMA NextInv == Inv /\ [Next]_vars => Inv'
<1> SUFFICES ASSUME Inv, [Next]_vars PROVE Inv'
  OBVIOUS
<1>1. ASSUME NEW k \in Keys, Delete(k) PROVE Inv'
  BY <1>1, DeleteInv
<1>2. ASSUME NEW k \in Keys, NEW v \in Values, BeginPut(k, v) PROVE Inv'
  BY <1>2, BeginPutInv
<1>3. CASE UNCHANGED vars
  <2>1. UNCHANGED <<keys, values, size, usedCount, elementCount, newKeys, newValues,
                    newSize, next, put, pc>>
    BY <1>3 DEF vars, table, fresh
  <2>2. TypeOK' /\ RoomLeft' /\ PutIsOne'
    BY <2>1 DEF Inv, TypeOK, RoomLeft, PutIsOne
  <2>3. CountsMatch' /\ KeysReachable'
    BY <2>1 DEF Inv, CountsMatch, KeysReachable
  <2>4. Moved' = Moved /\ Taken' = Taken
    BY <2>1 DEF Moved, Taken
  <2>5. MovesCount' /\ MovesReachable'
    BY <2>1, <2>4 DEF Inv, MovesCount, MovesReachable
  <2> QED BY <2>2, <2>3, <2>5 DEF Inv
<1> QED BY <1>1, <1>2, <1>3, MoveEntryInv, EndRehashInv, InsertInv, EmptyInv DEF Next

(* In every reachable state, and for every caller. *)
LEMMA InvHolds == Spec => []Inv
<1>1. Init => Inv
  BY InitInv
<1>2. Inv /\ [Next]_vars => Inv'
  BY NextInv
<1> QED BY <1>1, <1>2, PTL DEF Spec

(* A slot of the table, and of the new table while entries move, is never  *)
(* used: no search of strmap.c runs around for ever.                       *)
LEMMA InvSearchesEnd == Inv => SearchesEnd
<1> SUFFICES ASSUME Inv PROVE SearchesEnd
  OBVIOUS
<1>1. Cardinality(Used) < size
  BY DEF Inv, CountsMatch, RoomLeft, Used
<1>2. \E p \in Slots(size) : keys[p] = NoKey
  BY <1>1, UnusedSlot DEF Used, Inv, TypeOK
<1>3. ASSUME pc = "rehash" PROVE \E p \in Slots(newSize) : newKeys[p] = NoKey
  <2>1. Cardinality(Moved) <= elementCount /\ elementCount + 1 < newSize
    BY <1>3, FewerMoved DEF Inv, RoomLeft
  <2>2. Cardinality(Taken) = Cardinality(Moved) /\ Cardinality(Taken) \in Nat
    <3>1. IsFiniteSet(Taken)
      BY SlotsFinite, FS_Subset DEF Taken, Inv, TypeOK
    <3> QED BY <1>3, <3>1, FS_CardinalityType DEF Inv, MovesCount
  <2>3. Cardinality(Taken) < newSize
    BY <2>1, <2>2 DEF Inv, TypeOK
  <2> QED BY <2>3, UnusedSlot DEF Taken, Inv, TypeOK
<1> QED BY <1>2, <1>3 DEF SearchesEnd

(* The types of the table and of the put that is running. *)
THEOREM TypeCorrect == Spec => []TypeOK
<1>1. Inv => TypeOK
  BY DEF Inv
<1> QED BY <1>1, InvHolds, PTL

(* used_count and element_count of strmap.c are what they count, after any *)
(* puts, deletes and moves of the table.                                   *)
THEOREM CountersAreRight == Spec => []CountsMatch
<1>1. Inv => CountsMatch
  BY DEF Inv
<1> QED BY <1>1, InvHolds, PTL

(* No lookup, put, delete or rehash of strmap.c goes round the table for   *)
(* ever.                                                                   *)
THEOREM SearchesAlwaysEnd == Spec => []SearchesEnd
<1> QED BY InvSearchesEnd, InvHolds, PTL

(* No delete, put or rehash of strmap.c cuts an entry off from the search  *)
(* for its key.                                                            *)
THEOREM NoKeyIsCutOff == Spec => []KeysReachable
<1>1. Inv => KeysReachable
  BY DEF Inv
<1> QED BY <1>1, InvHolds, PTL

(* What SearchesEnd is for: in every state a lookup, a put and a move have *)
(* one slot to end at, so that the loops of strmap.c leave by it and the   *)
(* actions of the model that need it are never stuck.                      *)
THEOREM EverySearchHasItsSlot ==
  ASSUME Inv, NEW k \in Keys
  PROVE  /\ \E p \in Slots(size) : FoundAt(k, p)
         /\ \E p \in Slots(size) : PutAt(k, p)
         /\ pc = "rehash" => \E p \in Slots(newSize) : MovesTo(k, p)
<1>1. SearchesEnd
  BY InvSearchesEnd
<1>2. \E p \in Slots(size) : FoundAt(k, p)
  <2> DEFINE S == {q \in Slots(size) : keys[q] \in {NoKey, k}}
  <2>1. S # {} /\ S \in SUBSET Slots(size)
    BY <1>1 DEF SearchesEnd
  <2>2. PICK p \in S : EndsAt(k, p, size, S)
    <3> HIDE DEF S
    <3> QED BY <2>1, SearchEnds DEF Inv, TypeOK
  <2> QED BY <2>2 DEF FoundAt
<1>3. \E p \in Slots(size) : PutAt(k, p)
  <2> DEFINE S == {q \in Slots(size) : keys[q] \in {NoKey, Tombstone, k}}
  <2>1. S # {} /\ S \in SUBSET Slots(size)
    BY <1>1 DEF SearchesEnd
  <2>2. PICK p \in S : EndsAt(k, p, size, S)
    <3> HIDE DEF S
    <3> QED BY <2>1, SearchEnds DEF Inv, TypeOK
  <2> QED BY <2>2 DEF PutAt
<1>4. ASSUME pc = "rehash" PROVE \E p \in Slots(newSize) : MovesTo(k, p)
  <2> DEFINE S == {q \in Slots(newSize) : newKeys[q] = NoKey}
  <2>1. S # {} /\ S \in SUBSET Slots(newSize)
    BY <1>1, <1>4 DEF SearchesEnd
  <2>2. newSize \in Nat \ {0}
    BY <1>4 DEF Inv, TypeOK, RoomLeft
  <2>3. PICK p \in S : EndsAt(k, p, newSize, S)
    <3> HIDE DEF S
    <3> QED BY <2>1, <2>2, SearchEnds
  <2> QED BY <2>3 DEF MovesTo
<1> QED BY <1>2, <1>3, <1>4

-----------------------------------------------------------------------------
(* Callers that do not put a held key again behind a tombstone. *)

(* While a put waits, and while entries move, the table stays as it is.    *)
LEMMA InitDistinct == Init => DistinctInv
  BY KeyAssumption DEF Init, DistinctInv, KeysDistinct, PutIsAllowed, MovesFaithful

LEMMA BeginPutDistinct ==
  ASSUME Inv, DistinctInv, ~RePuts, NEW k \in Keys, NEW v \in Values, BeginPut(k, v)
  PROVE  DistinctInv'
<1>1. /\ put' = <<k, v>> /\ MayPut(k) /\ pc' \in {"insert", "rehash"}
      /\ UNCHANGED <<keys, values, size, usedCount, elementCount>>
  BY DEF BeginPut, table
<1>2. KeysDistinct'
  BY <1>1 DEF DistinctInv, KeysDistinct
<1>3. PutIsAllowed'
  <2>1. MayPut(k)'
    BY <1>1 DEF MayPut
  <2> QED BY <1>1, <2>1 DEF PutIsAllowed, MayPut
<1>4. ASSUME pc' = "rehash" PROVE Taken' = {} /\ Moved' = {}
  <2>1. newKeys' = [p \in Slots(newSize') |-> NoKey] /\ next' = 0
    BY <1>4 DEF BeginPut
  <2> QED BY <2>1 DEF Taken, Moved, Slots
<1>5. MovesFaithful'
  BY <1>4 DEF MovesFaithful
<1> QED BY <1>2, <1>3, <1>5 DEF DistinctInv

LEMMA MoveEntryDistinct ==
  ASSUME Inv, DistinctInv, MoveEntry
  PROVE  DistinctInv'
<1> USE DEF DistinctInv
<1>1. /\ pc = "rehash" /\ pc' = "rehash" /\ next < size /\ next' = next + 1
      /\ UNCHANGED <<keys, values, size, newSize>>
  BY DEF MoveEntry, table
<1>2. next \in Slots(size) /\ next \in Nat
  BY <1>1 DEF Inv, TypeOK, Slots
<1>3. KeysDistinct' /\ PutIsAllowed'
  BY <1>1 DEF KeysDistinct, PutIsAllowed
<1>4. CASE keys[next] \in {NoKey, Tombstone}
  <2>1. UNCHANGED <<newKeys, newValues>>
    BY <1>4 DEF MoveEntry
  <2>2. Moved' = Moved /\ Taken' = Taken
    BY <1>1, <1>2, <1>4, <2>1, KeyAssumption DEF Moved, Taken, Slots
  <2>3. MovesFaithful'
    BY <1>1, <2>1, <2>2 DEF MovesFaithful
  <2> QED BY <1>3, <2>3
<1>5. CASE keys[next] \notin {NoKey, Tombstone}
  <2>1. PICK p \in Slots(newSize) :
          /\ MovesTo(keys[next], p)
          /\ newKeys' = [newKeys EXCEPT ![p] = keys[next]]
          /\ newValues' = [newValues EXCEPT ![p] = values[next]]
    BY <1>5 DEF MoveEntry
  <2>2. keys[next] \in Keys
    BY <1>2, <1>5 DEF Inv, TypeOK
  <2>3. newKeys[p] = NoKey
    BY <2>1 DEF MovesTo, EndsAt
  <2>4. Moved' = Moved \cup {next} /\ next \notin Moved
    BY <1>1, <1>2, <2>2 DEF Moved, Slots
  <2>5. Taken' = Taken \cup {p} /\ p \notin Taken
    BY <1>1, <2>1, <2>2, <2>3, KeyAssumption DEF Taken, Inv, TypeOK
  <2>6. /\ newKeys'[p] = keys[next] /\ newValues'[p] = values[next]
        /\ \A r \in Taken : newKeys'[r] = newKeys[r] /\ newValues'[r] = newValues[r]
    BY <2>1, <2>5 DEF Inv, TypeOK, Taken
  <2>7. \A r \in Taken : newKeys[r] # keys[next]
    <3> SUFFICES ASSUME NEW r \in Taken, newKeys[r] = keys[next] PROVE FALSE
      OBVIOUS
    <3>1. PICK q \in Moved : keys[q] = keys[next]
      BY <1>1 DEF MovesFaithful
    <3>2. q = next
      BY <3>1, <1>2, <2>2 DEF KeysDistinct, Moved, Slots, Inv, TypeOK
    <3> QED BY <3>2, <2>4
  <2>8. MovesFaithful'
    <3>1. \A r \in Taken' : \E q \in Moved' : newKeys'[r] = keys'[q] /\ newValues'[r] = values'[q]
      BY <1>1, <2>4, <2>5, <2>6 DEF MovesFaithful
    <3>2. \A q \in Moved' : \E r \in Taken' : newKeys'[r] = keys'[q]
      BY <1>1, <2>4, <2>5, <2>6 DEF MovesFaithful
    <3>3. \A r, q \in Taken' : newKeys'[r] = newKeys'[q] => r = q
      BY <1>1, <2>5, <2>6, <2>7 DEF MovesFaithful
    <3> QED BY <3>1, <3>2, <3>3 DEF MovesFaithful
  <2> QED BY <1>3, <2>8
<1> QED BY <1>4, <1>5

LEMMA EndRehashDistinct ==
  ASSUME Inv, DistinctInv, EndRehash
  PROVE  DistinctInv'
<1>1. /\ pc = "rehash" /\ pc' = "insert"
      /\ keys' = newKeys /\ size' = newSize /\ put' = put
  BY DEF EndRehash
<1>2. KeysDistinct'
  BY <1>1, KeyAssumption DEF DistinctInv, KeysDistinct, MovesFaithful, Taken
<1>3. PutIsAllowed'
  BY <1>1, KeyAssumption DEF PutIsAllowed, MayPut, Inv, TypeOK
<1> QED BY <1>1, <1>2, <1>3 DEF DistinctInv, MovesFaithful

(* A put of a held key finds it: without tombstones nothing else stops the *)
(* search earlier.                                                         *)
LEMMA PutFindsHeldKey ==
  ASSUME Inv, DistinctInv, ~RePuts, pc = "insert",
         NEW p \in Slots(size), PutAt(put[1], p),
         NEW q \in Slots(size), keys[q] = put[1]
  PROVE  p = q
<1> SUFFICES ASSUME p # q PROVE FALSE
  OBVIOUS
<1>1. put[1] \in Keys
  BY DEF Inv, PutIsOne
<1>2. Precedes(put[1], p, q, size) /\ keys[p] \in {NoKey, Tombstone, put[1]}
  BY DEF PutAt, EndsAt
<1>3. keys[p] # Tombstone
  BY DEF DistinctInv, PutIsAllowed, MayPut
<1>4. keys[p] # put[1]
  BY <1>1 DEF DistinctInv, KeysDistinct
<1>5. keys[p] # NoKey
  BY <1>1, <1>2 DEF Inv, KeysReachable
<1> QED BY <1>2, <1>3, <1>4, <1>5

LEMMA InsertDistinct ==
  ASSUME Inv, DistinctInv, ~RePuts, Insert
  PROVE  DistinctInv'
<1>1. pc = "insert" /\ pc' = "idle" /\ size' = size
  BY DEF Insert
<1>2. PICK p \in Slots(size) : PutAt(put[1], p) /\ keys' = [keys EXCEPT ![p] = put[1]]
  BY DEF Insert
<1>3. \A q \in Slots(size) : keys[q] = put[1] => q = p
  BY <1>1, <1>2, PutFindsHeldKey
<1>4. KeysDistinct'
  BY <1>1, <1>2, <1>3 DEF DistinctInv, KeysDistinct, Inv, TypeOK
<1> QED BY <1>1, <1>4 DEF DistinctInv, PutIsAllowed, MovesFaithful

LEMMA DeleteDistinct ==
  ASSUME Inv, DistinctInv, NEW k \in Keys, Delete(k)
  PROVE  DistinctInv'
<1>1. pc' = "idle" /\ size' = size
  BY DEF Delete
<1>2. PICK p \in Slots(size) : keys' = [keys EXCEPT ![p] = Tombstone]
  BY DEF Delete
<1>3. KeysDistinct'
  BY <1>1, <1>2, KeyAssumption DEF DistinctInv, KeysDistinct, Inv, TypeOK
<1> QED BY <1>1, <1>3 DEF DistinctInv, PutIsAllowed, MovesFaithful

LEMMA EmptyDistinct ==
  ASSUME DistinctInv, Empty
  PROVE  DistinctInv'
<1>1. pc' = "idle" /\ size' = size /\ keys' = [p \in Slots(size) |-> NoKey]
  BY DEF Empty
<1> QED BY <1>1, KeyAssumption DEF DistinctInv, KeysDistinct, PutIsAllowed, MovesFaithful

LEMMA NextDistinct ==
  ASSUME Inv, DistinctInv, ~RePuts, [Next]_vars
  PROVE  DistinctInv'
<1>1. ASSUME NEW k \in Keys, Delete(k) PROVE DistinctInv'
  BY <1>1, DeleteDistinct
<1>2. ASSUME NEW k \in Keys, NEW v \in Values, BeginPut(k, v) PROVE DistinctInv'
  BY <1>2, BeginPutDistinct
<1>3. CASE UNCHANGED vars
  <2>1. UNCHANGED <<keys, values, size, newKeys, newValues, newSize, next, put, pc>>
    BY <1>3 DEF vars, table, fresh
  <2>2. Moved' = Moved /\ Taken' = Taken
    BY <2>1 DEF Moved, Taken
  <2>3. KeysDistinct' /\ PutIsAllowed'
    BY <2>1 DEF DistinctInv, KeysDistinct, PutIsAllowed, MayPut
  <2>4. MovesFaithful'
    BY <2>1, <2>2 DEF DistinctInv, MovesFaithful
  <2> QED BY <2>3, <2>4 DEF DistinctInv
<1> QED BY <1>1, <1>2, <1>3, MoveEntryDistinct, EndRehashDistinct, InsertDistinct,
           EmptyDistinct DEF Next

(* When no caller puts a held key again behind a tombstone, every key has  *)
(* one slot: an iteration over the map visits each key once.               *)
THEOREM KeysAreDistinct == ~RePuts => (Spec => []KeysDistinct)
<1> SUFFICES ASSUME ~RePuts PROVE Spec => []KeysDistinct
  OBVIOUS
<1>1. Init => DistinctInv
  BY InitDistinct
<1>2. Inv /\ DistinctInv /\ [Next]_vars => DistinctInv'
  BY NextDistinct
<1>3. DistinctInv => KeysDistinct
  BY DEF DistinctInv
<1> QED BY <1>1, <1>2, <1>3, InvHolds, PTL DEF Spec

-----------------------------------------------------------------------------
(* The refinement: to such callers the table is a map. *)

(* A lookup finds the value beside the key, wherever the key is. *)
LEMMA GetHeldKey ==
  ASSUME TypeOK, KeysReachable, KeysDistinct, NEW p \in Slots(size), keys[p] \in Keys
  PROVE  Get(keys[p]) = values[p]
<1> DEFINE S == {q \in Slots(size) : keys[q] \in {NoKey, keys[p]}}
<1>1. \A q \in S \ {p} : Precedes(keys[p], p, q, size)
  <2> SUFFICES ASSUME NEW q \in S \ {p} PROVE Precedes(keys[p], p, q, size)
    OBVIOUS
  <2>1. keys[q] = NoKey
    BY DEF KeysDistinct
  <2>2. ~Precedes(keys[p], q, p, size)
    BY <2>1 DEF KeysReachable
  <2> QED BY <2>2, DistancesDiffer DEF TypeOK
<1>2. FoundAt(keys[p], p)
  BY <1>1 DEF FoundAt, EndsAt
<1>3. \A q \in Slots(size) : FoundAt(keys[p], q) => q = p
  <2>1. S \in SUBSET Slots(size)
    OBVIOUS
  <2>2. \A q : EndsAt(keys[p], q, size, S) => q = p
    <3>1. EndsAt(keys[p], p, size, S)
      BY <1>2 DEF FoundAt
    <3> HIDE DEF S
    <3> QED BY <2>1, <3>1, OneEnd DEF TypeOK
  <2> QED BY <2>2 DEF FoundAt
<1>4. (CHOOSE q \in Slots(size) : FoundAt(keys[p], q)) = p
  BY <1>2, <1>3
<1> QED BY <1>2, <1>4 DEF Get

LEMMA GetMissingKey ==
  ASSUME NEW k, \A p \in Slots(size) : keys[p] # k
  PROVE  Get(k) = NoValue
  BY DEF Get

(* The contents of the map: what a lookup of each key returns. *)
Content == [k \in Keys |-> Get(k)]

(* The contents give every held key the value beside it, and every other   *)
(* key none.                                                               *)
Lookups ==
  /\ Content = [k \in Keys |-> Content[k]]
  /\ \A k \in Keys, p \in Slots(size) : keys[p] = k => Content[k] = values[p]
  /\ \A k \in Keys : (\A p \in Slots(size) : keys[p] # k) => Content[k] = NoValue

LEMMA LookupsHold == Inv /\ DistinctInv => Lookups
<1> SUFFICES ASSUME Inv, DistinctInv PROVE Lookups
  OBVIOUS
<1>1. ASSUME NEW k \in Keys, NEW p \in Slots(size), keys[p] = k PROVE Get(k) = values[p]
  <2>1. Get(keys[p]) = values[p]
    BY <1>1, GetHeldKey DEF Inv, DistinctInv
  <2> QED BY <2>1, <1>1
<1> QED BY <1>1, GetMissingKey DEF Lookups, Content

LEMMA LookupsHoldNext == Inv' /\ DistinctInv' => Lookups'
  BY LookupsHold, PTL

(* Two functions from keys that agree with the table are the contents.     *)
LEMMA SameContent ==
  ASSUME Inv, DistinctInv, Inv', DistinctInv', NEW f,
         f = [k \in Keys |-> f[k]],
         \A k \in Keys, p \in Slots(size') : keys'[p] = k => f[k] = values'[p],
         \A k \in Keys : (\A p \in Slots(size') : keys'[p] # k) => f[k] = NoValue
  PROVE  Content' = f
<1>1. Lookups'
  BY LookupsHoldNext
<1>2. \A k \in Keys : Content'[k] = f[k]
  BY <1>1 DEF Lookups, Slots
<1>3. Content' = [k \in Keys |-> Content'[k]]
  BY <1>1 DEF Lookups
<1> QED BY <1>2, <1>3

LEMMA InitRefines ==
  ASSUME Init PROVE Content = [k \in Keys |-> NoValue]
<1>1. \A k \in Keys : Get(k) = NoValue
  <2>1. \A k \in Keys : \A p \in Slots(size) : keys[p] # k
    BY KeyAssumption DEF Init
  <2> QED BY <2>1, GetMissingKey
<1> QED BY <1>1 DEF Content

(* A deletion takes the key out, and leaves the others. *)
LEMMA DeleteRefines ==
  ASSUME Inv, DistinctInv, Inv', DistinctInv', NEW k \in Keys, Delete(k)
  PROVE  Content' = [Content EXCEPT ![k] = NoValue]
<1>1. PICK p \in Slots(size) :
        /\ keys[p] = k
        /\ keys' = [keys EXCEPT ![p] = Tombstone]
        /\ values' = [values EXCEPT ![p] = NoValue]
  BY DEF Delete
<1>2. size' = size
  BY DEF Delete
<1>3. Lookups
  BY LookupsHold
<1> DEFINE f == [Content EXCEPT ![k] = NoValue]
<1>4. \A j \in Keys : f[j] = IF j = k THEN NoValue ELSE Content[j]
  BY <1>3 DEF Lookups
<1>5. f = [j \in Keys |-> f[j]]
  BY <1>3 DEF Lookups
<1>6. ASSUME NEW j \in Keys, NEW q \in Slots(size'), keys'[q] = j PROVE f[j] = values'[q]
  <2>1. q # p /\ keys[q] = j /\ values'[q] = values[q]
    BY <1>1, <1>2, <1>6, KeyAssumption DEF Inv, TypeOK
  <2>2. j # k
    BY <1>1, <1>2, <2>1 DEF DistinctInv, KeysDistinct
  <2> QED BY <1>2, <1>3, <1>4, <2>1, <2>2 DEF Lookups
<1>7. ASSUME NEW j \in Keys, \A q \in Slots(size') : keys'[q] # j PROVE f[j] = NoValue
  <2>1. CASE j = k
    BY <1>4, <2>1
  <2>2. CASE j # k
    <3>1. \A q \in Slots(size) : keys[q] # j
      BY <1>1, <1>2, <1>7, <2>2 DEF Inv, TypeOK
    <3> QED BY <1>3, <1>4, <2>2, <3>1 DEF Lookups
  <2> QED BY <2>1, <2>2
<1> HIDE DEF f
<1>8. Content' = f
  BY <1>5, <1>6, <1>7, SameContent
<1> QED BY <1>8 DEF f

(* Putting a key gives it its value, and leaves the others. *)
LEMMA InsertRefines ==
  ASSUME Inv, DistinctInv, Inv', DistinctInv', ~RePuts, Insert
  PROVE  Content' = [Content EXCEPT ![put[1]] = put[2]]
<1>1. PICK p \in Slots(size) :
        /\ PutAt(put[1], p)
        /\ keys' = [keys EXCEPT ![p] = put[1]]
        /\ values' = [values EXCEPT ![p] = put[2]]
  BY DEF Insert
<1>2. size' = size /\ pc = "insert" /\ put[1] \in Keys
  BY DEF Insert, Inv, PutIsOne
<1>3. Lookups
  BY LookupsHold
<1> DEFINE f == [Content EXCEPT ![put[1]] = put[2]]
<1>4. \A j \in Keys : f[j] = IF j = put[1] THEN put[2] ELSE Content[j]
  BY <1>3 DEF Lookups
<1>5. f = [j \in Keys |-> f[j]]
  BY <1>3 DEF Lookups
<1>6. \A q \in Slots(size) : keys[q] = put[1] => q = p
  BY <1>1, <1>2, PutFindsHeldKey
<1>7. keys[p] \in {NoKey, Tombstone, put[1]}
  BY <1>1 DEF PutAt, EndsAt
<1>8. ASSUME NEW j \in Keys, NEW q \in Slots(size'), keys'[q] = j PROVE f[j] = values'[q]
  <2>1. CASE q = p
    <3>1. j = put[1] /\ values'[q] = put[2]
      BY <1>1, <1>2, <1>8, <2>1 DEF Inv, TypeOK
    <3> QED BY <1>4, <3>1
  <2>2. CASE q # p
    <3>1. keys[q] = j /\ values'[q] = values[q]
      BY <1>1, <1>2, <1>8, <2>2 DEF Inv, TypeOK
    <3>2. j # put[1]
      BY <1>2, <1>6, <2>2, <3>1
    <3> QED BY <1>2, <1>3, <1>4, <3>1, <3>2 DEF Lookups
  <2> QED BY <2>1, <2>2
<1>9. ASSUME NEW j \in Keys, \A q \in Slots(size') : keys'[q] # j PROVE f[j] = NoValue
  <2>1. j # put[1]
    BY <1>1, <1>2, <1>9 DEF Inv, TypeOK
  <2>2. \A q \in Slots(size) : keys[q] # j
    BY <1>1, <1>2, <1>7, <1>9, <2>1, KeyAssumption DEF Inv, TypeOK
  <2> QED BY <1>3, <1>4, <2>1, <2>2 DEF Lookups
<1> HIDE DEF f
<1>10. Content' = f
  BY <1>5, <1>8, <1>9, SameContent
<1> QED BY <1>10 DEF f

LEMMA EmptyRefines ==
  ASSUME Inv, DistinctInv, Inv', DistinctInv', Empty
  PROVE  Content' = [k \in Keys |-> NoValue]
<1>1. size' = size /\ keys' = [p \in Slots(size) |-> NoKey]
  BY DEF Empty
<1> DEFINE f == [k \in Keys |-> NoValue]
<1>2. f = [k \in Keys |-> f[k]] /\ \A k \in Keys : f[k] = NoValue
  OBVIOUS
<1>3. \A k \in Keys, p \in Slots(size') : keys'[p] # k
  BY <1>1, KeyAssumption
<1> HIDE DEF f
<1>4. Content' = f
  BY <1>2, <1>3, SameContent
<1> QED BY <1>4 DEF f

(* A move of the whole table leaves the contents as they were. *)
LEMMA EndRehashRefines ==
  ASSUME Inv, DistinctInv, Inv', DistinctInv', EndRehash
  PROVE  Content' = Content
<1>1. /\ pc = "rehash" /\ next = size
      /\ keys' = newKeys /\ values' = newValues /\ size' = newSize
  BY DEF EndRehash
<1>2. Lookups /\ Moved = Held
  BY <1>1, LookupsHold DEF Moved, Held
<1>3. Content = [k \in Keys |-> Content[k]]
  BY <1>2 DEF Lookups
<1>4. ASSUME NEW k \in Keys, NEW p \in Slots(size'), keys'[p] = k PROVE Content[k] = values'[p]
  <2>1. p \in Taken
    BY <1>1, <1>4, KeyAssumption DEF Taken
  <2>2. PICK q \in Moved : newKeys[p] = keys[q] /\ newValues[p] = values[q]
    BY <1>1, <2>1 DEF DistinctInv, MovesFaithful
  <2>3. q \in Slots(size)
    BY <1>1 DEF Moved
  <2> QED BY <1>1, <1>2, <1>4, <2>2, <2>3 DEF Lookups
<1>5. ASSUME NEW k \in Keys, \A p \in Slots(size') : keys'[p] # k PROVE Content[k] = NoValue
  <2>1. \A q \in Slots(size) : keys[q] # k
    <3> SUFFICES ASSUME NEW q \in Slots(size), keys[q] = k PROVE FALSE
      OBVIOUS
    <3>1. q \in Moved
      BY <1>1 DEF Moved
    <3>2. PICK p \in Taken : newKeys[p] = k
      BY <1>1, <3>1 DEF DistinctInv, MovesFaithful
    <3> QED BY <1>1, <1>5, <3>2 DEF Taken
  <2> QED BY <1>2, <2>1 DEF Lookups
<1> HIDE DEF Content
<1>6. \A f : f = Content => Content' = f
  <2> SUFFICES ASSUME NEW f, f = Content PROVE Content' = f
    OBVIOUS
  <2> QED BY <1>3, <1>4, <1>5, SameContent
<1> QED BY <1>6

(* What leaves the table alone leaves its contents alone. *)
LEMMA TableUnchanged ==
  ASSUME UNCHANGED <<keys, values, size>>
  PROVE  Content' = Content
  BY DEF Content, Get, FoundAt, EndsAt, Precedes, Distance, Home, Slots

(* Every step of the hash map is a step of the map, or changes nothing of  *)
(* its contents.                                                           *)
LEMMA NextRefines ==
  ASSUME Inv, DistinctInv, ~RePuts, [Next]_vars
  PROVE  \/ \E k \in Keys : \/ Content' = [Content EXCEPT ![k] = NoValue]
                            \/ \E v \in Values : Content' = [Content EXCEPT ![k] = v]
         \/ Content' = [k \in Keys |-> NoValue]
         \/ Content' = Content
<1>1. Inv' /\ DistinctInv'
  BY NextInv, NextDistinct
<1>2. ASSUME NEW k \in Keys, Delete(k) PROVE Content' = [Content EXCEPT ![k] = NoValue]
  BY <1>1, <1>2, DeleteRefines
<1>3. ASSUME NEW k \in Keys, NEW v \in Values, BeginPut(k, v) PROVE Content' = Content
  BY <1>3, TableUnchanged DEF BeginPut, table
<1>4. ASSUME MoveEntry PROVE Content' = Content
  BY <1>4, TableUnchanged DEF MoveEntry, table
<1>5. ASSUME EndRehash PROVE Content' = Content
  BY <1>1, <1>5, EndRehashRefines
<1>6. ASSUME Insert
      PROVE  \E k \in Keys, v \in Values : Content' = [Content EXCEPT ![k] = v]
  <2>1. put[1] \in Keys /\ put[2] \in Values
    BY <1>6 DEF Insert, Inv, PutIsOne
  <2> QED BY <1>1, <1>6, <2>1, InsertRefines
<1>7. ASSUME Empty PROVE Content' = [k \in Keys |-> NoValue]
  BY <1>1, <1>7, EmptyRefines
<1>8. ASSUME UNCHANGED vars PROVE Content' = Content
  BY <1>8, TableUnchanged DEF vars, table
<1> QED BY <1>2, <1>3, <1>4, <1>5, <1>6, <1>7, <1>8 DEF Next

(* To callers that do not put a held key again behind a tombstone, the     *)
(* hash map of strmap.c is a map from keys to values: it implements        *)
(* KeyValueMap, whatever moves and deletions come between.                 *)
THEOREM HashMapIsAMap == ~RePuts => (Spec => IsKeyValueMap)
<1> SUFFICES ASSUME ~RePuts PROVE Spec => IsKeyValueMap
  OBVIOUS
<1>1. Init => DistinctInv
  BY InitDistinct
<1>2. Inv /\ DistinctInv /\ [Next]_vars => DistinctInv'
  BY NextDistinct
<1>3. Init => Map!Init
  BY InitRefines DEF Map!Init, Content
<1>4. Inv /\ DistinctInv /\ [Next]_vars => [Map!Next]_[k \in Keys |-> Get(k)]
  BY NextRefines DEF Map!Next, Map!Put, Map!Delete, Map!Clear, Content
<1> QED BY <1>1, <1>2, <1>3, <1>4, InvHolds, PTL DEF Spec, IsKeyValueMap, Map!Spec

(* For such callers a deleted key is not found any more, as test-strmap.c  *)
(* expects of every map.                                                   *)
THEOREM DeletedStaysGone == ~RePuts => (Spec => DeletedIsGone)
<1> SUFFICES ASSUME ~RePuts PROVE Spec => DeletedIsGone
  OBVIOUS
<1>1. Init => DistinctInv
  BY InitDistinct
<1>2. Inv /\ DistinctInv /\ [Next]_vars => DistinctInv'
  BY NextDistinct
<1>3. Inv /\ DistinctInv /\ [Next]_vars
        => [\A k \in Keys : Delete(k) => Get(k)' = NoValue]_vars
  <2> SUFFICES ASSUME Inv, DistinctInv, [Next]_vars, NEW k \in Keys, Delete(k)
               PROVE  Get(k)' = NoValue
    OBVIOUS
  <2>1. Content' = [Content EXCEPT ![k] = NoValue]
    BY NextInv, NextDistinct, DeleteRefines
  <2>2. Content'[k] = NoValue
    BY <2>1 DEF Content
  <2> QED BY <2>2 DEF Content
<1> QED BY <1>1, <1>2, <1>3, InvHolds, PTL DEF Spec, DeletedIsGone
=============================================================================
