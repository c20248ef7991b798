------------------------------ MODULE HashMap ------------------------------
(***************************************************************************)
(* The hash map with open addressing and tombstones of strmap.c, which     *)
(* longmap.c repeats for numbers: StrSet and LongSet are maps to 1.        *)
(*                                                                         *)
(* A put first makes room: when too many slots are used the entries move,  *)
(* one after the other, to a new table.  A delete leaves a tombstone, so   *)
(* that the keys behind it are still found.                                *)
(***************************************************************************)
EXTENDS Integers, FiniteSets

CONSTANTS
  Keys,
  Values,
  NoKey,          \* a slot that was never used
  Tombstone,      \* a slot whose key was deleted
  NoValue,        \* the value of a missing key
  Hash,           \* hash: key -> number
  InitialSize,    \* DEFAULT_SIZE
  MaxSize,        \* bound on the size of the table
  RePuts          \* whether callers put a key the map holds while it has tombstones

MaxLoadFactor   == 666
ExpansionFactor == 333

ASSUME SizeAssumption ==
  /\ InitialSize \in Nat
  /\ InitialSize >= 4
  /\ MaxSize \in Nat

ASSUME KeyAssumption ==
  /\ Hash \in [Keys -> Nat]
  /\ NoKey \notin Keys
  /\ Tombstone \notin Keys
  /\ NoKey # Tombstone
  /\ NoValue \notin Values
  /\ RePuts \in BOOLEAN

VARIABLES
  keys,           \* the key in each slot
  values,         \* the value in each slot
  size,
  usedCount,      \* used_count: slots that are not NoKey
  elementCount,   \* element_count: slots with a key
  newKeys,        \* the new table of maybe_rehash
  newValues,
  newSize,
  next,           \* the slot of the old table that moves next
  put,            \* the key and value of the strmap_put that is running
  pc              \* "idle", "rehash" or "insert"

table == <<keys, values, size, usedCount, elementCount>>
fresh == <<newKeys, newValues, newSize, next>>
vars  == <<table, fresh, put, pc>>

-----------------------------------------------------------------------------
Slots(n) == 0 .. n - 1

(* The order in which a search for k visits the slots of a table of size n. *)
Home(k, n) == Hash[k] % n
Distance(k, p, n) == IF p >= Home(k, n) THEN p - Home(k, n) ELSE p - Home(k, n) + n
Precedes(k, p, q, n) == Distance(k, p, n) < Distance(k, q, n)

(* p is where a search for k ends that stops at the slots of stops. *)
EndsAt(k, p, n, stops) ==
  /\ p \in stops
  /\ \A q \in stops \ {p} : Precedes(k, p, q, n)

(* strmap_get and strmap_delete stop at the key or at an unused slot,      *)
(* strmap_put at a tombstone too, and a rehash at an unused slot.          *)
FoundAt(k, p) == EndsAt(k, p, size, {q \in Slots(size) : keys[q] \in {NoKey, k}})
\* Slip: a put does not look for its key.
PutAtFirstHole(k, p) == EndsAt(k, p, size, {q \in Slots(size) : keys[q] \in {NoKey, Tombstone}})
PutAt(k, p) == EndsAt(k, p, size, {q \in Slots(size) : keys[q] \in {NoKey, Tombstone, k}})
MovesTo(k, p) == EndsAt(k, p, newSize, {q \in Slots(newSize) : newKeys[q] = NoKey})

(* strmap_get *)
Get(k) ==
  IF \E p \in Slots(size) : FoundAt(k, p) /\ keys[p] = k
  THEN values[CHOOSE p \in Slots(size) : FoundAt(k, p)]
  ELSE NoValue

(* maybe_rehash: whether it returns at once, and the size it chooses. *)
\* Slip: deleted slots do not count.
HasRoomForElements == elementCount * 1000 < size * MaxLoadFactor
HasRoom == usedCount * 1000 < size * MaxLoadFactor
SizeAfter == IF elementCount * 1000 < size * ExpansionFactor THEN size ELSE 2 * size

Init ==
  /\ keys = [p \in Slots(InitialSize) |-> NoKey]
  /\ values = [p \in Slots(InitialSize) |-> NoValue]
  /\ size = InitialSize
  /\ usedCount = 0
  /\ elementCount = 0
  /\ newKeys = <<>> /\ newValues = <<>> /\ newSize = 0 /\ next = 0
  /\ put = <<NoKey, NoValue>>
  /\ pc = "idle"

(* Callers that never put a key again behind a tombstone. *)
MayPut(k) == RePuts \/ \A p, q \in Slots(size) : keys[p] = k => keys[q] # Tombstone

(* strmap_put up to the return of maybe_rehash, or to its loop. *)
BeginPut(k, v) ==
  /\ pc = "idle"
  /\ MayPut(k)
  /\ put' = <<k, v>>
  /\ IF HasRoom
     THEN pc' = "insert" /\ UNCHANGED fresh
     ELSE /\ SizeAfter <= MaxSize
          /\ newSize' = SizeAfter
          /\ newKeys' = [p \in Slots(SizeAfter) |-> NoKey]
          /\ newValues' = [p \in Slots(SizeAfter) |-> NoValue]
          /\ next' = 0
          /\ pc' = "rehash"
  /\ UNCHANGED table

(* Slip: an unused slot of the old table is not passed. *)
MoveEntryOrStay ==
  /\ pc = "rehash"
  /\ next < size
  /\ IF keys[next] \in {NoKey, Tombstone}
     THEN UNCHANGED <<newKeys, newValues, next>>
     ELSE /\ next' = next + 1
          /\ \E p \in Slots(newSize) :
               /\ MovesTo(keys[next], p)
               /\ newKeys' = [newKeys EXCEPT ![p] = keys[next]]
               /\ newValues' = [newValues EXCEPT ![p] = values[next]]
  /\ UNCHANGED <<table, newSize, put, pc>>

(* One turn of the loop of maybe_rehash. *)
MoveEntry ==
  /\ pc = "rehash"
  /\ next < size
  /\ IF keys[next] \in {NoKey, Tombstone}
     THEN UNCHANGED <<newKeys, newValues>>
     ELSE \E p \in Slots(newSize) :
            /\ MovesTo(keys[next], p)
            /\ newKeys' = [newKeys EXCEPT ![p] = keys[next]]
            /\ newValues' = [newValues EXCEPT ![p] = values[next]]
  /\ next' = next + 1
  /\ UNCHANGED <<table, newSize, put, pc>>

(* The end of maybe_rehash: the new table takes the place of the old one. *)
EndRehash ==
  /\ pc = "rehash"
  /\ next = size
  /\ keys' = newKeys
  /\ values' = newValues
  /\ size' = newSize
  /\ usedCount' = elementCount
  /\ newKeys' = <<>> /\ newValues' = <<>> /\ newSize' = 0 /\ next' = 0
  /\ pc' = "insert"
  /\ UNCHANGED <<elementCount, put>>

(* The rest of strmap_put. *)
Insert ==
  /\ pc = "insert"
  /\ \E p \in Slots(size) :
       /\ PutAt(put[1], p)
       /\ keys' = [keys EXCEPT ![p] = put[1]]
       /\ values' = [values EXCEPT ![p] = put[2]]
       /\ elementCount' = IF keys[p] = put[1] THEN elementCount ELSE elementCount + 1
       /\ usedCount' = IF keys[p] = NoKey THEN usedCount + 1 ELSE usedCount
  /\ put' = <<NoKey, NoValue>>
  /\ pc' = "idle"
  /\ UNCHANGED <<size, fresh>>

(* Slips: a deletion leaves an unused slot, counts a missing key, or takes *)
(* the tombstone off the used slots.                                       *)
DeleteToUnused(k) ==
  /\ pc = "idle"
  /\ \E p \in Slots(size) :
       /\ FoundAt(k, p)
       /\ keys[p] = k
       /\ keys' = [keys EXCEPT ![p] = NoKey]
       /\ values' = [values EXCEPT ![p] = NoValue]
  /\ elementCount' = elementCount - 1
  /\ UNCHANGED <<size, usedCount, fresh, put, pc>>

DeleteUncounted(k) ==
  /\ pc = "idle"
  /\ \E p \in Slots(size) :
       /\ FoundAt(k, p)
       /\ keys[p] = k
       /\ keys' = [keys EXCEPT ![p] = Tombstone]
       /\ values' = [values EXCEPT ![p] = NoValue]
  /\ elementCount' = elementCount - 1
  /\ usedCount' = usedCount - 1
  /\ UNCHANGED <<size, fresh, put, pc>>

(* strmap_delete; it does nothing when the key is missing. *)
Delete(k) ==
  /\ pc = "idle"
  /\ \E p \in Slots(size) :
       /\ FoundAt(k, p)
       /\ keys[p] = k
       /\ keys' = [keys EXCEPT ![p] = Tombstone]
       /\ values' = [values EXCEPT ![p] = NoValue]
  /\ elementCount' = elementCount - 1
  /\ UNCHANGED <<size, usedCount, fresh, put, pc>>

(* longmap_empty *)
Empty ==
  /\ pc = "idle"
  /\ keys' = [p \in Slots(size) |-> NoKey]
  /\ values' = [p \in Slots(size) |-> NoValue]
  /\ usedCount' = 0
  /\ elementCount' = 0
  /\ UNCHANGED <<size, fresh, put, pc>>

Next ==
  \/ \E k \in Keys : Delete(k) \/ \E v \in Values : BeginPut(k, v)
  \/ MoveEntry
  \/ EndRehash
  \/ Insert
  \/ Empty

Spec == Init /\ [][Next]_vars

(* A put that was called runs to its end. *)
FairSpec == Spec /\ WF_vars(MoveEntry) /\ WF_vars(EndRehash) /\ WF_vars(Insert)

-----------------------------------------------------------------------------
TypeOK ==
  /\ size \in Nat \ {0}
  /\ keys \in [Slots(size) -> Keys \cup {NoKey, Tombstone}]
  /\ values \in [Slots(size) -> Values \cup {NoValue}]
  /\ usedCount \in Nat
  /\ elementCount \in Nat
  /\ newSize \in Nat
  /\ newKeys \in [Slots(newSize) -> Keys \cup {NoKey}]
  /\ newValues \in [Slots(newSize) -> Values \cup {NoValue}]
  /\ next \in 0 .. size
  /\ put \in (Keys \cup {NoKey}) \X (Values \cup {NoValue})
  /\ pc \in {"idle", "rehash", "insert"}

(* The two counters that decide when the table grows are what they count,  *)
(* whatever keys are put, deleted and put again.                           *)
CountsMatch ==
  /\ usedCount = Cardinality({p \in Slots(size) : keys[p] # NoKey})
  /\ elementCount = Cardinality({p \in Slots(size) : keys[p] \in Keys})

(* No search runs around the table for ever: a slot of it, and of the new  *)
(* table while entries move, is never used.                                *)
SearchesEnd ==
  /\ \E p \in Slots(size) : keys[p] = NoKey
  /\ pc = "rehash" => \E p \in Slots(newSize) : newKeys[p] = NoKey

(* Deletions and moves never cut a key off: no unused slot comes before it *)
(* in the order of a search for it.                                        *)
KeysReachable ==
  \A p, q \in Slots(size) :
    keys[p] \in Keys /\ Precedes(keys[p], q, p, size) => keys[q] # NoKey

(* When callers do not put held keys again behind tombstones, a key has    *)
(* one slot: an iteration over the map visits each key once.               *)
KeysDistinct ==
  \A p, q \in Slots(size) : keys[p] \in Keys /\ keys[p] = keys[q] => p = q

(* To such callers the map is a map: the refinement reads a put as done    *)
(* when its last step is.                                                  *)
Map == INSTANCE KeyValueMap WITH content <- [k \in Keys |-> Get(k)]
IsKeyValueMap == Map!Spec

(* Every put comes to an end, also one that moves the table. *)
PutsComplete == pc # "idle" ~> pc = "idle"

(* What test-strmap.c expects of every map: a key that was deleted is not  *)
(* found any more.                                                         *)
DeletedIsGone == [][\A k \in Keys : Delete(k) => Get(k)' = NoValue]_vars
=============================================================================
