----------------------------- MODULE LinearTable -----------------------------
(***************************************************************************)
(* The hash table behind the tables of scripts, and one loop over it.      *)
(* Keys are probed linearly from their hash; popping a pair leaves a       *)
(* tombstone; a table that is too full is moved to one of twice the        *)
(* capacity, pair by pair.  Implements PartialMap.                         *)
(*                                                                         *)
(* Keys are different here if == says so, and are not modified while they  *)
(* are in a table.                                                         *)
(***************************************************************************)
EXTENDS Integers, FiniteSets

CONSTANTS Keys, Values,
          Hash,           \* The hash of each key.
          Absent,         \* What a slot without a pair holds.
          MaxCapacity     \* Bound: the slots of a table.

ASSUME TableAssumption ==
  /\ Hash \in [Keys -> Nat]
  /\ Absent \notin Keys \cup Values
  /\ "size" \notin Keys
  /\ MaxCapacity \in Nat \ {0, 1}

DefaultSize == 2
GrowFactor == 2
Unset == -1               \* maxIndex of a table without pairs (size_max).

VARIABLES
  table,        \* The LinearTable.
  phase,        \* "ready", "rehashing", or "crashed": freed or null memory was used.
  newTable,     \* newTable of rehash() ...
  index,        \* ... with its i, ...
  adding,       \* ... and the pair to be added when it is done.
  iter,         \* The TableIter of the loop: whether there is one, the slot
                \* that it is at, and whether that slot still exists.
  due,          \* Ghost: pairs that the loop started with and has still to
  fresh,        \* visit, and those that were added behind its back.
  answer        \* What the last operation that reads found, of what.

rehash == <<newTable, index, adding>>
loop == <<iter, due, fresh>>
vars == <<table, phase, newTable, index, adding, iter, due, fresh, answer>>

Vacant(state) == [state |-> state, key |-> Absent, value |-> Absent]
Entry(k, v) == [state |-> "Valid", key |-> k, value |-> v]
Entries ==
  {Vacant("Empty"), Vacant("Tombstone")} \cup {Entry(k, v) : k \in Keys, v \in Values}

Slots(t) == 0 .. t.capacity - 1
IsTable(t) == \E c \in 0 .. MaxCapacity :
  t \in [entries : [0 .. c - 1 -> Entries], count : 0 .. c, used : 0 .. c,
         capacity : {c}, maxIndex : Unset .. c - 1]

NewTable(size) ==
  [entries |-> [s \in 0 .. size - 1 |-> Vacant("Empty")],
   count |-> 0, used |-> 0, capacity |-> size, maxIndex |-> Unset]

ValidSlots(t) == {s \in Slots(t) : t.entries[s].state = "Valid"}
KeysIn(t) == {t.entries[s].key : s \in ValidSlots(t)}

-----------------------------------------------------------------------------
(* The slot that lies d slots after the key's own (hash & bitmask).        *)
Probe(t, k, d) ==
  LET home == Hash[k] % t.capacity
  IN  IF home + d < t.capacity THEN home + d ELSE home + d - t.capacity

(* Where the search for a key ends, counted from its own slot.             *)
Stops(t, k, d) ==
  LET e == t.entries[Probe(t, k, d)]
  IN  e.state = "Empty" \/ (e.state = "Valid" /\ e.key = k)

Stop(t, k) ==
  CHOOSE d \in Slots(t) : Stops(t, k, d) /\ \A b \in 0 .. d - 1 : ~Stops(t, k, b)

End(t, k) == Probe(t, k, Stop(t, k))

(* findSlot: the key's own slot, or else the last tombstone on the way, or *)
(* else the empty slot at the end.                                         *)
FindSlot(t, k) ==
  LET stop == Stop(t, k)
      end == Probe(t, k, stop)
      tombstones == {d \in 0 .. stop - 1 : t.entries[Probe(t, k, d)].state = "Tombstone"}
  IN  IF t.entries[end].state = "Valid" \/ tombstones = {} THEN end
      ELSE Probe(t, k, CHOOSE d \in tombstones : \A b \in tombstones : b <= d)

Found(t, k) == t.entries[FindSlot(t, k)]

Contains(t, k) == t.count # 0 /\ Found(t, k).state = "Valid"

ValueIn(t, k) == IF Contains(t, k) THEN Found(t, k).value ELSE Absent

Higher(a, b) == IF a > b THEN a ELSE b

(* add without the resize.  maxIndex counts the slot where the search      *)
(* ended, which need not be the one that is used.                          *)
Put(t, k, v) ==
  LET s == FindSlot(t, k)
      old == t.entries[s]
      entries == [t.entries EXCEPT ![s] = Entry(k, v)]
  IN  IF old.state = "Valid" THEN [t EXCEPT !.entries = entries]
      ELSE [entries |-> entries, count |-> t.count + 1,
            used |-> IF old.state = "Tombstone" THEN t.used ELSE t.used + 1,
            capacity |-> t.capacity, maxIndex |-> Higher(t.maxIndex, End(t, k))]

(* A variant: the slot is emptied, and can be used again.                  *)
RemoveEmpties(t, k) ==
  [t EXCEPT !.entries = [t.entries EXCEPT ![FindSlot(t, k)] = Vacant("Empty")],
            !.count = t.count - 1, !.used = t.used - 1]

(* A tombstone still counts as used.                                       *)
Remove(t, k) ==
  [t EXCEPT !.entries = [t.entries EXCEPT ![FindSlot(t, k)] = Vacant("Tombstone")],
            !.count = t.count - 1]

(* A variant: tombstones are not counted.                                  *)
NeedsRoomForPairs(t) == 4 * t.capacity < 5 * (t.count + 1)

(* resize's condition: capacity * loadFactor < used + 1, with a load       *)
(* factor of 0.8.                                                          *)
NeedsRoom(t) == 4 * t.capacity < 5 * (t.used + 1)

(* Only for tables without pairs: used and maxIndex are not reset.         *)
Grow(t) ==
  LET capacity == t.capacity * GrowFactor
  IN  [t EXCEPT !.entries = NewTable(capacity).entries, !.capacity = capacity]

-----------------------------------------------------------------------------
NoTable == NewTable(0)
NotRehashing == /\ newTable = NoTable /\ index = 0
                /\ adding = [key |-> Absent, value |-> Absent]

Off == [on |-> FALSE, at |-> 0, valid |-> FALSE]
NoLoop == iter = Off /\ due = {} /\ fresh = {}

Init ==
  /\ table = NewTable(DefaultSize)
  /\ phase = "ready"
  /\ NotRehashing
  /\ NoLoop
  /\ answer = [of |-> "size", is |-> 0]

(* The loop keeps a pointer into entries that were freed.                  *)
Dangles ==
  /\ iter' = [iter EXCEPT !.valid = FALSE]
  /\ due' = {} /\ fresh' = {}

(* A pair for a new key appears while the loop runs.                       *)
Appears(k) ==
  /\ fresh' = IF iter.valid THEN fresh \cup {k} ELSE fresh
  /\ UNCHANGED <<iter, due>>

(* resize of a table that needs room for a pair: one without pairs gets    *)
(* new slots at once, the pairs of another one are moved first.            *)
Resize(k, v) ==
  \/ /\ table.count = 0
     /\ table' = Put(Grow(table), k, v)
     /\ Dangles
     /\ UNCHANGED <<phase, rehash>>
  \/ /\ table.count # 0
     /\ phase' = "rehashing"
     /\ newTable' = NewTable(table.capacity * GrowFactor)
     /\ index' = 0
     /\ adding' = [key |-> k, value |-> v]
     /\ UNCHANGED <<table, loop>>

(* t[k] = v (operator[], and emptyAdd for a new key), and a pair of a      *)
(* table literal (add).                                                    *)
Set(k, v) ==
  /\ phase = "ready" /\ table.capacity > 0
  /\ IF Found(table, k).state = "Valid"
     THEN table' = Put(table, k, v) /\ UNCHANGED <<phase, rehash, loop>>
     ELSE \/ /\ ~NeedsRoom(table)
             /\ table' = Put(table, k, v)
             /\ Appears(k)
             /\ UNCHANGED <<phase, rehash>>
          \/ /\ NeedsRoom(table) /\ table.capacity * GrowFactor <= MaxCapacity
             /\ Resize(k, v)
  /\ UNCHANGED answer

(* rehash: one turn of its loop.  add finds no such key in the new table   *)
(* and needs no resize (ProbesEnd).                                        *)
RehashSlot ==
  /\ phase = "rehashing" /\ index <= table.maxIndex
  /\ LET e == table.entries[index]
     IN  newTable' = IF e.state = "Valid" THEN Put(newTable, e.key, e.value) ELSE newTable
  /\ index' = index + 1
  /\ UNCHANGED <<table, phase, adding, loop, answer>>

(* The new table replaces the old one, and the operation goes on.          *)
EndRehash ==
  /\ phase = "rehashing" /\ index > table.maxIndex
  /\ table' = Put(newTable, adding.key, adding.value)
  /\ phase' = "ready"
  /\ newTable' = NoTable /\ index' = 0 /\ adding' = [key |-> Absent, value |-> Absent]
  /\ Dangles
  /\ UNCHANGED answer

(* clear() leaves no entries at all: the next search for a new key's slot  *)
(* uses a null pointer.                                                    *)
SetOnCleared ==
  /\ phase = "ready" /\ table.capacity = 0
  /\ phase' = "crashed"
  /\ UNCHANGED <<table, rehash, loop, answer>>

(* t[k], t.get(k), t.get(k, default), k in t.                              *)
Get(k) ==
  /\ phase = "ready"
  /\ answer' = [of |-> k, is |-> ValueIn(table, k)]
  /\ UNCHANGED <<table, phase, rehash, loop>>

(* t.pop(k), t.pop(k, default).                                            *)
Pop(k) ==
  /\ phase = "ready"
  /\ answer' = [of |-> k, is |-> ValueIn(table, k)]
  /\ IF Contains(table, k)
     THEN /\ table' = Remove(table, k)
          /\ due' = due \ {k} /\ fresh' = fresh \ {k}
     ELSE UNCHANGED <<table, due, fresh>>
  /\ UNCHANGED <<phase, rehash, iter>>

(* len!(t), t.empty().                                                     *)
Size ==
  /\ phase = "ready"
  /\ answer' = [of |-> "size", is |-> table.count]
  /\ UNCHANGED <<table, phase, rehash, loop>>

(* t.clear().                                                              *)
Clear ==
  /\ phase = "ready"
  /\ table' = NoTable
  /\ Dangles
  /\ UNCHANGED <<phase, rehash, answer>>

-----------------------------------------------------------------------------
(* A variant: tombstones end the search too.                               *)
FollowingUsed(t, s) ==
  CHOOSE r \in s .. t.capacity :
    /\ r = t.capacity \/ t.entries[r].state # "Empty"
    /\ \A q \in s .. r - 1 : t.entries[q].state = "Empty"

(* The first valid slot from s on, or the end of the table.                *)
Following(t, s) ==
  CHOOSE r \in s .. t.capacity :
    /\ r = t.capacity \/ t.entries[r].state = "Valid"
    /\ \A q \in s .. r - 1 : t.entries[q].state # "Valid"

Begin(t) == Following(t, 0)

(* A variant of ++, which counts one up before and after the test.         *)
AdvanceTwice(t, s) == Following(t, IF s + 2 > t.capacity THEN t.capacity ELSE s + 2)

Advance(t, s) == Following(t, s + 1)

(* The loop variable becomes the pair of a slot.                           *)
Visit(s) ==
  LET e == table.entries[s]
  IN  /\ iter' = [on |-> TRUE, at |-> s, valid |-> TRUE]
      /\ answer' = [of |-> e.key, is |-> e.value]
      /\ due' = (IF iter.on THEN due ELSE KeysIn(table)) \ {e.key}
      /\ fresh' = fresh \ {e.key}

(* for (pair in t): an empty table is not entered.                         *)
StartLoop ==
  /\ phase = "ready" /\ ~iter.on /\ table.count # 0
  /\ Visit(Begin(table))
  /\ UNCHANGED <<table, phase, rehash>>

LeavesLoop ==
  /\ iter' = Off /\ due' = {} /\ fresh' = {}
  /\ UNCHANGED <<table, phase, rehash, answer>>

(* The next pair, the end of the loop, or break at any time.               *)
NextPair ==
  /\ phase = "ready" /\ iter.on /\ iter.valid
  /\ LET s == Advance(table, iter.at)
     IN  IF s = table.capacity THEN LeavesLoop
         ELSE Visit(s) /\ UNCHANGED <<table, phase, rehash>>

Break == phase = "ready" /\ iter.on /\ LeavesLoop

(* ++ on a pointer into freed entries: the program ends, or the loop does, *)
(* or it goes on with whatever is there.                                   *)
NextOfFreed ==
  /\ phase = "ready" /\ iter.on /\ ~iter.valid
  /\ \/ /\ phase' = "crashed"
        /\ UNCHANGED <<table, rehash, loop, answer>>
     \/ LeavesLoop

(* After the end of the program another one begins.                        *)
Restart ==
  /\ phase = "crashed"
  /\ table' = NewTable(DefaultSize)
  /\ phase' = "ready"
  /\ iter' = Off /\ due' = {} /\ fresh' = {}
  /\ UNCHANGED <<rehash, answer>>

Next ==
  \/ RehashSlot \/ EndRehash \/ SetOnCleared \/ Size \/ Clear \/ Restart
  \/ StartLoop \/ NextPair \/ Break \/ NextOfFreed
  \/ \E k \in Keys : Get(k) \/ Pop(k) \/ \E v \in Values : Set(k, v)

Spec == Init /\ [][Next]_vars

-----------------------------------------------------------------------------
(* The types, with what the counters mean to each other.                   *)
TypeOK ==
  /\ \A t \in {table, newTable} : IsTable(t) /\ t.count <= t.used
  /\ phase \in {"ready", "rehashing", "crashed"}
  /\ index \in Nat
  /\ adding \in [key : Keys \cup {Absent}, value : Values \cup {Absent}]
  /\ iter \in [on : BOOLEAN, at : Nat, valid : BOOLEAN]
  /\ due \subseteq Keys /\ fresh \subseteq Keys
  /\ answer \in [of : Keys \cup {"size"}, is : Values \cup {Absent} \cup Nat]

(* The pairs of a table as a partial function, whatever its slots.         *)
MapOf(t) ==
  LET valid == ValidSlots(t)
      keys == {t.entries[s].key : s \in valid}
      SlotOf(k) == CHOOSE s \in valid : t.entries[s].key = k
  IN  [k \in Keys |-> IF k \in keys THEN t.entries[SlotOf(k)].value ELSE Absent]

Map == INSTANCE PartialMap WITH map <- MapOf(table), answer <- answer

(* Whatever is added, popped, cleared and rehashed in whatever order: every *)
(* search finds the key if it is in the table, no key is there twice, the  *)
(* count is right, and rehashing neither loses nor revives a pair.         *)
ImplementsMap == Map!Spec

(* findSlot's loop ends at an empty slot if the key is not there, so there *)
(* must be one; and add(), called by rehash(), must not start another      *)
(* rehash, because the outer one would go on with the entries it frees.    *)
ProbesEnd ==
  /\ \A t \in {table, newTable} :
       t.capacity > 0 => \E s \in Slots(t) : t.entries[s].state = "Empty"
  /\ phase = "rehashing" => ~NeedsRoom(newTable)

(* A loop over a table that is not resized or cleared meanwhile visits     *)
(* every pair that stays in the table exactly once, whatever is popped,    *)
(* added or assigned in its body: behind it lie the pairs visited, before  *)
(* it those that it has still to visit and some of those added meanwhile.  *)
LoopsVisitAll ==
  iter.valid =>
    LET ahead == {table.entries[s].key : s \in {r \in ValidSlots(table) : r > iter.at}}
    IN  due \subseteq ahead /\ ahead \subseteq due \cup fresh
=============================================================================
