-------------------------- MODULE LinearTable_proofs --------------------------
(***************************************************************************)
(* Proofs about LinearTable, for any keys, values, hashes and capacities:  *)
(* it implements PartialMap, and every search ends.                        *)
(***************************************************************************)
EXTENDS LinearTable, FiniteSetTheorems, WellFoundedInduction, TLAPS

UsedSlots(t) == {s \in Slots(t) : t.entries[s].state # "Empty"}

(* No key is in two slots.                                                 *)
UniqueKeys(t) == \A r, s \in ValidSlots(t) :
  t.entries[r].key = t.entries[s].key => r = s

(* No empty slot lies between a key's own slot and the one that it is in.  *)
Reaches(t, k, d) == \A b \in 0 .. d - 1 : t.entries[Probe(t, k, b)].state # "Empty"

Reachable(t) == \A s \in ValidSlots(t) :
  \E d \in Slots(t) : /\ Probe(t, t.entries[s].key, d) = s
                      /\ Reaches(t, t.entries[s].key, d)

(* What the counters say.  A table that has grown counts more used slots   *)
(* than it has.                                                            *)
Counted(t) ==
  /\ t.count = Cardinality(ValidSlots(t))
  /\ Cardinality(UsedSlots(t)) <= t.used
  /\ 5 * t.used <= 4 * t.capacity

Covered(t) == \A s \in UsedSlots(t) : s <= t.maxIndex

Sound(t) == IsTable(t) /\ UniqueKeys(t) /\ Reachable(t) /\ Counted(t) /\ Covered(t)

-----------------------------------------------------------------------------
(* A least and a greatest number.                                          *)
LEMMA Least ==
  ASSUME NEW S \in SUBSET Nat, S # {}
  PROVE  \E n \in S : \A m \in S : n <= m
<1> DEFINE T == {0 .. n : n \in S}
<1>1. T \subseteq FiniteSubsetsOf(Nat) /\ T # {}
  <2>1. ASSUME NEW n \in S PROVE 0 .. n \in FiniteSubsetsOf(Nat)
    <3>1. n \in Int /\ 0 .. n \in SUBSET Nat
      OBVIOUS
    <3> QED
      BY <3>1, FS_Interval DEF FiniteSubsetsOf
  <2> QED
    BY <2>1
<1>2. PICK x \in T : \A y \in T : <<y, x>> \notin StrictSubsetOrdering(Nat)
  BY <1>1, WFMin, FS_StrictSubsetOrderingWellFounded
<1>3. PICK n \in S : x = 0 .. n
  OBVIOUS
<1>4. ASSUME NEW m \in S, m < n PROVE FALSE
  <2>1. 0 .. m \in T
    OBVIOUS
  <2>2. 0 .. m \in SUBSET Nat /\ 0 .. n \in SUBSET Nat /\ 0 .. m \subseteq 0 .. n
    BY <1>4
  <2>3. n \in 0 .. n /\ n \notin 0 .. m
    BY <1>4
  <2> QED
    BY <1>2, <1>3, <2>1, <2>2, <2>3 DEF StrictSubsetOrdering
<1> QED
  BY <1>4

LEMMA Greatest ==
  ASSUME NEW c \in Nat, NEW S \in SUBSET (0 .. c), S # {}
  PROVE  \E n \in S : \A m \in S : m <= n
<1> DEFINE T == {b \in 0 .. c : c - b \in S}
<1>1. T \in SUBSET Nat
  OBVIOUS
<1>2. PICK s \in S : TRUE
  OBVIOUS
<1>3. c - s \in 0 .. c /\ c - (c - s) = s
  OBVIOUS
<1>4. T # {}
  BY <1>3
<1>5. PICK b \in T : \A a \in T : b <= a
  BY <1>1, <1>4, Least
<1>6. c - b \in S
  OBVIOUS
<1>7. ASSUME NEW m \in S PROVE m <= c - b
  <2>1. c - m \in T
    OBVIOUS
  <2> QED
    BY <1>5, <2>1
<1> QED
  BY <1>6, <1>7

-----------------------------------------------------------------------------
(* The parts of a table.                                                   *)
LEMMA TableParts ==
  ASSUME NEW t, IsTable(t)
  PROVE  /\ t.capacity \in 0 .. MaxCapacity
         /\ t.entries \in [Slots(t) -> Entries]
         /\ t.count \in 0 .. t.capacity /\ t.used \in 0 .. t.capacity
         /\ t.maxIndex \in Unset .. t.capacity - 1
         /\ t = [entries |-> t.entries, count |-> t.count, used |-> t.used,
                 capacity |-> t.capacity, maxIndex |-> t.maxIndex]
  BY DEF IsTable, Slots

(* Distances and slots of a key correspond to each other.                  *)
LEMMA Probing ==
  ASSUME NEW t, t.capacity \in Nat \ {0}, NEW k \in Keys
  PROVE  /\ \A d \in Slots(t) : Probe(t, k, d) \in Slots(t)
         /\ \A d, b \in Slots(t) : Probe(t, k, d) = Probe(t, k, b) => d = b
         /\ \A s \in Slots(t) : \E d \in Slots(t) : Probe(t, k, d) = s
<1> DEFINE home == Hash[k] % t.capacity
<1>1. Hash[k] \in Nat
  BY TableAssumption
<1>2. home \in 0 .. t.capacity - 1
  BY <1>1
<1> HIDE DEF home
<1>3. ASSUME NEW d \in Slots(t)
      PROVE  Probe(t, k, d) = IF home + d < t.capacity THEN home + d
                              ELSE home + d - t.capacity
  BY DEF Probe, home
<1>4. ASSUME NEW s \in Slots(t)
      PROVE  \E d \in Slots(t) : Probe(t, k, d) = s
  <2> DEFINE d == IF s < home THEN s - home + t.capacity ELSE s - home
  <2>1. d \in Slots(t)
    BY <1>2 DEF Slots
  <2>2. Probe(t, k, d) = s
    BY <1>2, <1>3, <2>1 DEF Slots
  <2> QED
    BY <2>1, <2>2
<1> QED
  BY <1>2, <1>3, <1>4 DEF Slots

LEMMA EntryFacts ==
  ASSUME NEW e \in Entries
  PROVE  /\ e.state \in {"Empty", "Tombstone", "Valid"}
         /\ e.state = "Valid" => /\ e.key \in Keys /\ e.value \in Values
                                 /\ e = Entry(e.key, e.value)
  BY DEF Entries, Entry, Vacant

LEMMA FiniteSlots ==
  ASSUME NEW t, t.capacity \in Nat, NEW S \in SUBSET Slots(t)
  PROVE  IsFiniteSet(S) /\ Cardinality(S) \in Nat /\ Cardinality(S) <= t.capacity
<1>1. \A last \in Int : /\ IsFiniteSet(0 .. last)
                         /\ Cardinality(0 .. last) = IF 0 > last THEN 0 ELSE last + 1
  <2> SUFFICES ASSUME NEW last \in Int
               PROVE  /\ IsFiniteSet(0 .. last)
                      /\ Cardinality(0 .. last) = IF 0 > last THEN 0 ELSE last + 1
    OBVIOUS
  <2>1. IsFiniteSet(0 .. last) /\ Cardinality(0 .. last) = IF 0 > last THEN 0 ELSE last - 0 + 1
    BY FS_Interval
  <2> QED
    BY <2>1
<1>2. t.capacity - 1 \in Int
  OBVIOUS
<1>3. /\ IsFiniteSet(0 .. t.capacity - 1)
      /\ Cardinality(0 .. t.capacity - 1) = IF 0 > t.capacity - 1 THEN 0 ELSE t.capacity - 1 + 1
  BY <1>1, <1>2, Zenon
<1>4. Cardinality(0 .. t.capacity - 1) = t.capacity
  BY <1>3
<1>5. S \in SUBSET (0 .. t.capacity - 1)
  BY DEF Slots
<1>6. /\ IsFiniteSet(S)
      /\ Cardinality(S) <= Cardinality(0 .. t.capacity - 1)
  BY <1>3, <1>5, FS_Subset
<1>7. Cardinality(S) \in Nat
  BY <1>6, FS_CardinalityType
<1> QED
  BY <1>4, <1>6, <1>7

(* Tables are never full.                                                  *)
LEMMA EmptySlot ==
  ASSUME NEW t, IsTable(t), Counted(t), t.capacity # 0
  PROVE  \E s \in Slots(t) : t.entries[s].state = "Empty"
<1> SUFFICES ASSUME \A s \in Slots(t) : t.entries[s].state # "Empty" PROVE FALSE
  OBVIOUS
<1>1. t.capacity \in Nat \ {0} /\ t.used \in Nat
  BY TableParts, TableAssumption
<1>2. UsedSlots(t) = 0 .. t.capacity - 1
  BY DEF UsedSlots, Slots
<1>3. Cardinality(0 .. t.capacity - 1) = t.capacity
  BY <1>1, FS_Interval
<1> QED
  BY <1>1, <1>2, <1>3 DEF Counted

(* A search stops, at the first slot that stops it.                        *)
LEMMA Stopping ==
  ASSUME NEW t, IsTable(t), Counted(t), t.capacity # 0, NEW k \in Keys
  PROVE  /\ Stop(t, k) \in Slots(t) /\ Stops(t, k, Stop(t, k))
         /\ \A b \in 0 .. Stop(t, k) - 1 : ~Stops(t, k, b)
<1>1. t.capacity \in Nat \ {0}
  BY TableParts, TableAssumption
<1>2. PICK s \in Slots(t) : t.entries[s].state = "Empty"
  BY EmptySlot
<1>3. PICK d \in Slots(t) : Probe(t, k, d) = s
  BY <1>1, Probing
<1> DEFINE S == {b \in Slots(t) : Stops(t, k, b)}
<1>4. S \in SUBSET Nat /\ S # {}
  BY <1>1, <1>2, <1>3 DEF Stops, Slots
<1>5. PICK n \in S : \A m \in S : n <= m
  BY <1>4, Least
<1>6. \A b \in 0 .. n - 1 : ~Stops(t, k, b)
  BY <1>1, <1>5 DEF Slots
<1>7. \E d1 \in Slots(t) : Stops(t, k, d1) /\ \A b \in 0 .. d1 - 1 : ~Stops(t, k, b)
  BY <1>5, <1>6
<1> QED
  BY <1>7 DEF Stop

(* The heart of the table: a search finds the slot of the key if it has    *)
(* one, and else a slot that the next search for the key will reach.       *)
LEMMA Finding ==
  ASSUME NEW t, Sound(t), t.capacity # 0, NEW k \in Keys
  PROVE  LET s == FindSlot(t, k) IN
         /\ s \in Slots(t) /\ End(t, k) \in Slots(t)
         /\ t.entries[s].state = "Valid" => t.entries[s].key = k
         /\ t.entries[s].state # "Valid" =>
              /\ \A r \in ValidSlots(t) : t.entries[r].key # k
              /\ t.entries[s].state = "Empty" => s = End(t, k)
              /\ \E d \in Slots(t) : Probe(t, k, d) = s /\ Reaches(t, k, d)
<1> DEFINE stop == Stop(t, k)
           end == Probe(t, k, stop)
           T == {d \in 0 .. stop - 1 : t.entries[Probe(t, k, d)].state = "Tombstone"}
           last == CHOOSE d \in T : \A b \in T : b <= d
           s == FindSlot(t, k)
<1>1. /\ t.capacity \in Nat \ {0} /\ t.entries \in [Slots(t) -> Entries]
      /\ IsTable(t) /\ Counted(t)
  BY TableParts, TableAssumption DEF Sound
<1>2. /\ stop \in Slots(t) /\ Stops(t, k, stop)
      /\ \A b \in 0 .. stop - 1 : ~Stops(t, k, b)
  BY <1>1, Stopping
<1>3. 0 .. stop - 1 \subseteq Slots(t) /\ stop \in Nat
  BY <1>1, <1>2 DEF Slots
<1>4. \A d \in Slots(t) : Probe(t, k, d) \in Slots(t) /\ t.entries[Probe(t, k, d)] \in Entries
  BY <1>1, Probing
<1>5. end \in Slots(t) /\ End(t, k) = end
  BY <1>2, <1>4 DEF End
<1>6. s = IF t.entries[end].state = "Valid" \/ T = {} THEN end ELSE Probe(t, k, last)
  BY DEF FindSlot
<1>7. ASSUME T # {}
      PROVE  last \in 0 .. stop - 1 /\ t.entries[Probe(t, k, last)].state = "Tombstone"
  <2>1. T \in SUBSET (0 .. stop)
    BY <1>3
  <2>2. \E d \in T : \A b \in T : b <= d
    BY <1>3, <1>7, <2>1, Greatest
  <2>3. last \in T
    BY <2>2
  <2> QED
    BY <2>3
<1>8. \A b \in 0 .. stop - 1 : t.entries[Probe(t, k, b)].state # "Empty"
  BY <1>2 DEF Stops
<1> HIDE DEF stop, end, last, T, s
<1>9. s \in Slots(t)
  BY <1>3, <1>4, <1>5, <1>6, <1>7
<1>10. ASSUME t.entries[s].state = "Valid" PROVE t.entries[s].key = k
  <2>1. s = end
    BY <1>6, <1>7, <1>10
  <2> QED
    BY <1>2, <1>10, <2>1 DEF Stops, end
<1>11. ASSUME t.entries[s].state # "Valid" PROVE t.entries[end].state = "Empty"
  <2>1. t.entries[end].state # "Valid"
    BY <1>6, <1>11
  <2> QED
    BY <1>2, <2>1 DEF Stops, end
<1>12. ASSUME t.entries[s].state # "Valid", NEW r \in ValidSlots(t), t.entries[r].key = k
       PROVE  FALSE
  <2>1. PICK d \in Slots(t) : Probe(t, k, d) = r /\ Reaches(t, k, d)
    BY <1>12 DEF Sound, Reachable
  <2>2. Stops(t, k, d)
    BY <1>12, <2>1 DEF Stops, ValidSlots
  <2>3. d \in Nat
    BY <1>1, <2>1 DEF Slots
  <2>4. stop <= d
    BY <1>2, <1>3, <2>2, <2>3
  <2>5. t.entries[end].state = "Empty"
    BY <1>11, <1>12
  <2>6. stop # d
    BY <1>12, <2>1, <2>5 DEF ValidSlots, end
  <2>7. stop \in 0 .. d - 1
    BY <1>3, <2>3, <2>4, <2>6
  <2> QED
    BY <2>1, <2>5, <2>7 DEF Reaches, end
<1>13. ASSUME t.entries[s].state = "Empty" PROVE s = End(t, k)
  BY <1>5, <1>6, <1>7, <1>13
<1>14. ASSUME t.entries[s].state # "Valid"
       PROVE  \E d \in Slots(t) : Probe(t, k, d) = s /\ Reaches(t, k, d)
  <2>1. CASE s = end
    BY <1>2, <1>8, <2>1 DEF Reaches, end
  <2>2. CASE s # end
    <3>1. T # {} /\ s = Probe(t, k, last)
      BY <1>6, <2>2
    <3>2. last \in Slots(t) /\ 0 .. last - 1 \subseteq 0 .. stop - 1
      BY <1>3, <1>7, <3>1
    <3> QED
      BY <1>8, <3>1, <3>2 DEF Reaches
  <2> QED
    BY <2>1, <2>2
<1> QED
  BY <1>5, <1>9, <1>10, <1>12, <1>13, <1>14 DEF s

(* MapOf reads a table slot by slot.                                       *)
LEMMA Mapping ==
  ASSUME NEW t, UniqueKeys(t)
  PROVE  /\ \A s \in ValidSlots(t) :
              t.entries[s].key \in Keys => MapOf(t)[t.entries[s].key] = t.entries[s].value
         /\ \A k \in Keys :
              (\A s \in ValidSlots(t) : t.entries[s].key # k) => MapOf(t)[k] = Absent
<1>1. ASSUME NEW s \in ValidSlots(t), t.entries[s].key \in Keys
      PROVE  MapOf(t)[t.entries[s].key] = t.entries[s].value
  <2> DEFINE k == t.entries[s].key
             r == CHOOSE r \in ValidSlots(t) : t.entries[r].key = k
  <2>1. r \in ValidSlots(t) /\ t.entries[r].key = k
    OBVIOUS
  <2>2. r = s
    BY <2>1 DEF UniqueKeys
  <2>3. MapOf(t)[k] = t.entries[r].value
    BY <1>1 DEF MapOf
  <2> QED
    BY <2>2, <2>3
<1>2. ASSUME NEW k \in Keys, \A s \in ValidSlots(t) : t.entries[s].key # k
      PROVE  MapOf(t)[k] = Absent
  BY <1>2 DEF MapOf
<1> QED
  BY <1>1, <1>2

LEMMA MapType ==
  ASSUME NEW t, IsTable(t), UniqueKeys(t)
  PROVE  MapOf(t) \in [Keys -> Values \cup {Absent}]
<1>1. MapOf(t) = [k \in Keys |-> MapOf(t)[k]]
  BY DEF MapOf
<1>2. ASSUME NEW k \in Keys PROVE MapOf(t)[k] \in Values \cup {Absent}
  <2>1. CASE \E s \in ValidSlots(t) : t.entries[s].key = k
    <3>1. PICK s \in ValidSlots(t) : t.entries[s].key = k
      BY <2>1
    <3>2. t.entries[s] \in Entries
      BY TableParts DEF ValidSlots
    <3> QED
      BY <3>1, <3>2, Mapping, EntryFacts DEF ValidSlots
  <2>2. CASE \A s \in ValidSlots(t) : t.entries[s].key # k
    BY <2>2, Mapping
  <2> QED
    BY <2>1, <2>2
<1> QED
  BY <1>1, <1>2

(* What get and contains answer.                                           *)
LEMMA Looking ==
  ASSUME NEW t, Sound(t), NEW k \in Keys
  PROVE  /\ ValueIn(t, k) = MapOf(t)[k]
         /\ Contains(t, k) <=> MapOf(t)[k] # Absent
         /\ Contains(t, k) => FindSlot(t, k) \in ValidSlots(t)
<1>1. IsTable(t) /\ UniqueKeys(t) /\ t.count = Cardinality(ValidSlots(t))
  BY DEF Sound, Counted
<1>2. t.capacity \in Nat /\ t.entries \in [Slots(t) -> Entries]
  BY <1>1, TableParts, TableAssumption
<1>3. IsFiniteSet(ValidSlots(t))
  BY <1>2, FiniteSlots DEF ValidSlots
<1>4. CASE t.count = 0
  <2>1. ValidSlots(t) = {}
    BY <1>1, <1>3, <1>4, FS_EmptySet
  <2> QED
    BY <1>1, <1>4, <2>1, Mapping DEF ValueIn, Contains
<1>5. CASE t.count # 0
  <2> DEFINE s == FindSlot(t, k)
  <2>1. t.capacity # 0
    BY <1>1, <1>5, TableParts
  <2>2. s \in Slots(t)
    BY <2>1, Finding
  <2>3. CASE t.entries[s].state = "Valid"
    <3>1. s \in ValidSlots(t) /\ t.entries[s].key = k
      BY <2>1, <2>2, <2>3, Finding DEF ValidSlots
    <3>2. MapOf(t)[k] = t.entries[s].value
      BY <1>1, <3>1, Mapping
    <3>3. t.entries[s].value \in Values
      BY <1>2, <2>2, <2>3, EntryFacts
    <3> QED
      BY <1>5, <2>3, <3>1, <3>2, <3>3, TableAssumption DEF ValueIn, Contains, Found
  <2>4. CASE t.entries[s].state # "Valid"
    <3>1. \A r \in ValidSlots(t) : t.entries[r].key # k
      BY <2>1, <2>4, Finding
    <3> QED
      BY <1>1, <2>4, <3>1, Mapping DEF ValueIn, Contains, Found
  <2> QED
    BY <2>3, <2>4
<1> QED
  BY <1>4, <1>5

-----------------------------------------------------------------------------
(* Tables of one capacity that differ in one slot.                         *)
LEMMA SameProbes ==
  ASSUME NEW t, NEW n, n.capacity = t.capacity
  PROVE  /\ Slots(n) = Slots(t)
         /\ \A k, d : Probe(n, k, d) = Probe(t, k, d)
  BY DEF Slots, Probe

(* The map of a table after an assignment; a name that the provers need    *)
(* not look into.                                                          *)
Assigned(m, k, v) == [m EXCEPT ![k] = v]

(* The map follows when a slot gets a pair.                                *)
LEMMA MapWithPair ==
  ASSUME NEW t, IsTable(t), UniqueKeys(t), NEW n, IsTable(n), UniqueKeys(n),
         n.capacity = t.capacity, NEW s \in Slots(t), NEW k \in Keys, NEW v \in Values,
         n.entries = [t.entries EXCEPT ![s] = Entry(k, v)],
         \A r \in ValidSlots(t) : t.entries[r].key = k <=> r = s
  PROVE  MapOf(n) = Assigned(MapOf(t), k, v)
<1>1. t.entries \in [Slots(t) -> Entries] /\ Slots(n) = Slots(t)
  BY TableParts, SameProbes
<1>2. MapOf(t) \in [Keys -> Values \cup {Absent}] /\ MapOf(n) \in [Keys -> Values \cup {Absent}]
  BY MapType
<1> DEFINE Maps(x) ==
      /\ \A r \in ValidSlots(x) :
           x.entries[r].key \in Keys => MapOf(x)[x.entries[r].key] = x.entries[r].value
      /\ \A j \in Keys :
           (\A r \in ValidSlots(x) : x.entries[r].key # j) => MapOf(x)[j] = Absent
<1>a. Maps(t)
  BY Mapping
<1>b. Maps(n)
  BY Mapping
<1>3. ASSUME NEW j \in Keys PROVE MapOf(n)[j] = IF j = k THEN v ELSE MapOf(t)[j]
  <2>1. n.entries[s] = Entry(k, v) /\ s \in ValidSlots(n)
    BY <1>1 DEF ValidSlots, Entry
  <2>2. CASE j = k
    BY <1>b, <2>1, <2>2 DEF Entry
  <2>3. CASE j # k /\ \E r \in ValidSlots(t) : t.entries[r].key = j
    <3>1. PICK r \in ValidSlots(t) : t.entries[r].key = j
      BY <2>3
    <3>2. r # s
      BY <2>3, <3>1
    <3>3. n.entries[r] = t.entries[r] /\ r \in ValidSlots(n)
      BY <1>1, <3>1, <3>2 DEF ValidSlots
    <3> QED
      BY <1>a, <1>b, <2>3, <3>1, <3>3
  <2>4. CASE j # k /\ \A r \in ValidSlots(t) : t.entries[r].key # j
    <3>1. \A r \in ValidSlots(n) : n.entries[r].key # j
      BY <1>1, <2>4 DEF ValidSlots, Entry
    <3> QED
      BY <1>a, <1>b, <2>4, <3>1
  <2> QED
    BY <2>2, <2>3, <2>4
<1> QED
  BY <1>2, <1>3 DEF Assigned

(* A new pair in a table that has room.                                    *)
LEMMA PutNew ==
  ASSUME NEW t, Sound(t), t.capacity # 0, ~NeedsRoom(t),
         NEW k \in Keys, NEW v \in Values, Found(t, k).state # "Valid"
  PROVE  LET n == Put(t, k, v) IN
         /\ Sound(n) /\ n.capacity = t.capacity
         /\ n.used \in t.used .. t.used + 1
         /\ MapOf(n) = Assigned(MapOf(t), k, v)
<1> DEFINE s == FindSlot(t, k)
           n == Put(t, k, v)
<1>1. /\ t.capacity \in Nat \ {0} /\ t.capacity <= MaxCapacity /\ MaxCapacity \in Nat
      /\ t.entries \in [Slots(t) -> Entries] /\ t.count \in Nat /\ t.used \in Nat
      /\ t.maxIndex \in Unset .. t.capacity - 1
  BY TableParts, TableAssumption DEF Sound
<1>2. /\ IsTable(t) /\ UniqueKeys(t) /\ Reachable(t) /\ Counted(t) /\ Covered(t)
  BY DEF Sound
<1>3. /\ s \in Slots(t) /\ End(t, k) \in Slots(t) /\ t.entries[s].state # "Valid"
      /\ \A r \in ValidSlots(t) : t.entries[r].key # k
      /\ t.entries[s].state = "Empty" => s = End(t, k)
      /\ \E d \in Slots(t) : Probe(t, k, d) = s /\ Reaches(t, k, d)
  BY Finding DEF Found
<1>4. t.entries[s] \in Entries /\ t.entries[s].state \in {"Empty", "Tombstone"}
  BY <1>1, <1>3, EntryFacts
<1>5. /\ n.entries = [t.entries EXCEPT ![s] = Entry(k, v)] /\ n.count = t.count + 1
      /\ n.used = IF t.entries[s].state = "Tombstone" THEN t.used ELSE t.used + 1
      /\ n.capacity = t.capacity /\ n.maxIndex = Higher(t.maxIndex, End(t, k))
      /\ n = [entries |-> n.entries, count |-> n.count, used |-> n.used,
              capacity |-> n.capacity, maxIndex |-> n.maxIndex]
  BY <1>3 DEF Put
<1> HIDE DEF s, n
<1>6. Slots(n) = Slots(t) /\ \A j, d : Probe(n, j, d) = Probe(t, j, d)
  BY <1>5, SameProbes
<1>7. /\ n.entries[s] = Entry(k, v)
      /\ \A r \in Slots(t) \ {s} : n.entries[r] = t.entries[r]
      /\ n.entries \in [Slots(t) -> Entries]
  BY <1>1, <1>3, <1>5 DEF Entries
<1>8. ValidSlots(n) = ValidSlots(t) \cup {s} /\ s \notin ValidSlots(t)
  BY <1>3, <1>6, <1>7 DEF ValidSlots, Entry
<1>9. /\ UsedSlots(n) = UsedSlots(t) \cup {s}
      /\ s \in UsedSlots(t) <=> t.entries[s].state = "Tombstone"
  BY <1>3, <1>4, <1>6, <1>7 DEF UsedSlots, Entry
<1>10. /\ IsFiniteSet(ValidSlots(t)) /\ IsFiniteSet(UsedSlots(t))
       /\ Cardinality(UsedSlots(t)) \in Nat /\ Cardinality(ValidSlots(n)) <= t.capacity
  BY <1>1, <1>6, FiniteSlots DEF ValidSlots, UsedSlots
<1>11. Counted(n)
  <2>1. n.count = Cardinality(ValidSlots(n))
    BY <1>2, <1>5, <1>8, <1>10, FS_AddElement DEF Counted
  <2>2. Cardinality(UsedSlots(n)) <= n.used
    <3>1. Cardinality(UsedSlots(n)) = IF s \in UsedSlots(t) THEN Cardinality(UsedSlots(t))
                                      ELSE Cardinality(UsedSlots(t)) + 1
      BY <1>9, <1>10, FS_AddElement
    <3>2. Cardinality(UsedSlots(t)) <= t.used
      BY <1>2 DEF Counted
    <3> QED
      BY <1>1, <1>5, <1>9, <1>10, <3>1, <3>2
  <2>3. 5 * n.used <= 4 * n.capacity
    BY <1>1, <1>2, <1>5 DEF Counted, NeedsRoom
  <2> QED
    BY <2>1, <2>2, <2>3 DEF Counted
<1>12. IsTable(n)
  <2>1. n.count \in 0 .. t.capacity /\ n.used \in 0 .. t.capacity
    BY <1>1, <1>5, <1>10, <1>11 DEF Counted
  <2>2. n.maxIndex \in Unset .. t.capacity - 1
    BY <1>1, <1>3, <1>5 DEF Higher, Slots, Unset
  <2>3. t.capacity \in 0 .. MaxCapacity /\ n.entries \in [0 .. t.capacity - 1 -> Entries]
    BY <1>1, <1>7 DEF Slots
  <2> QED
    BY <1>5, <2>1, <2>2, <2>3 DEF IsTable
<1>13. UniqueKeys(n)
  BY <1>2, <1>3, <1>7, <1>8 DEF UniqueKeys, ValidSlots, Entry
<1>14. ASSUME NEW j, NEW d \in Slots(t), Reaches(t, j, d), j \in Keys PROVE Reaches(n, j, d)
  <2> SUFFICES ASSUME NEW b \in 0 .. d - 1 PROVE n.entries[Probe(n, j, b)].state # "Empty"
    BY DEF Reaches
  <2>1. b \in Slots(t)
    BY <1>1, <1>14 DEF Slots
  <2>2. Probe(t, j, b) \in Slots(t)
    BY <1>1, <1>14, <2>1, Probing
  <2> QED
    BY <1>6, <1>7, <1>14, <2>2 DEF Reaches, Entry
<1>15. Reachable(n)
  <2> SUFFICES ASSUME NEW r \in ValidSlots(n)
               PROVE  \E d \in Slots(n) : /\ Probe(n, n.entries[r].key, d) = r
                                          /\ Reaches(n, n.entries[r].key, d)
    BY DEF Reachable
  <2>1. CASE r = s
    <3>1. n.entries[r].key = k
      BY <1>7, <2>1 DEF Entry
    <3> QED
      BY <1>3, <1>6, <1>14, <2>1, <3>1
  <2>2. CASE r # s
    <3>1. r \in ValidSlots(t) /\ n.entries[r] = t.entries[r] /\ n.entries[r].key \in Keys
      BY <1>1, <1>7, <1>8, <2>2, EntryFacts DEF ValidSlots
    <3>2. PICK d \in Slots(t) : Probe(t, t.entries[r].key, d) = r /\ Reaches(t, t.entries[r].key, d)
      BY <1>2, <3>1 DEF Reachable
    <3> QED
      BY <1>6, <1>14, <3>1, <3>2
  <2> QED
    BY <2>1, <2>2
<1>16. Covered(n)
  <2> SUFFICES ASSUME NEW r \in UsedSlots(n) PROVE r <= n.maxIndex
    BY DEF Covered
  <2>1. t.maxIndex \in Int /\ End(t, k) \in Int /\ r \in Int
    BY <1>1, <1>3, <1>6 DEF Slots, UsedSlots, Unset
  <2>2. t.maxIndex <= n.maxIndex /\ End(t, k) <= n.maxIndex
    BY <1>5, <2>1 DEF Higher
  <2>3. r \in UsedSlots(t) \/ r = End(t, k)
    BY <1>3, <1>4, <1>9
  <2> QED
    BY <1>2, <1>5, <2>1, <2>2, <2>3 DEF Covered, Higher
<1>17. MapOf(n) = Assigned(MapOf(t), k, v)
  BY <1>2, <1>3, <1>5, <1>8, <1>12, <1>13, MapWithPair
<1>18. n.used \in t.used .. t.used + 1
  BY <1>1, <1>5
<1> QED
  BY <1>5, <1>11, <1>12, <1>13, <1>15, <1>16, <1>17, <1>18 DEF Sound, n

(* Slots may change as long as none becomes empty: what was reachable and  *)
(* is still there with its key stays reachable.                            *)
LEMMA StillReachable ==
  ASSUME NEW t, Sound(t), NEW n, n.capacity = t.capacity,
         \A r \in UsedSlots(t) : n.entries[r].state # "Empty",
         \A r \in ValidSlots(n) : r \in ValidSlots(t) /\ n.entries[r].key = t.entries[r].key
  PROVE  Reachable(n)
<1>1. /\ IsTable(t) /\ Reachable(t)
      /\ Slots(n) = Slots(t) /\ \A j, d : Probe(n, j, d) = Probe(t, j, d)
  BY SameProbes DEF Sound
<1>2. t.entries \in [Slots(t) -> Entries] /\ t.capacity \in Nat
  BY <1>1, TableParts, TableAssumption
<1> SUFFICES ASSUME NEW r \in ValidSlots(n)
             PROVE  \E d \in Slots(n) : /\ Probe(n, n.entries[r].key, d) = r
                                        /\ Reaches(n, n.entries[r].key, d)
  BY DEF Reachable
<1> DEFINE j == t.entries[r].key
<1>3. r \in ValidSlots(t) /\ n.entries[r].key = j /\ j \in Keys /\ r \in Slots(t)
  BY <1>2, EntryFacts DEF ValidSlots
<1>4. PICK d \in Slots(t) : Probe(t, j, d) = r /\ Reaches(t, j, d)
  BY <1>1, <1>3 DEF Reachable
<1>5. t.capacity \in Nat \ {0}
  BY <1>2, <1>3 DEF Slots
<1>6. ASSUME NEW b \in 0 .. d - 1 PROVE n.entries[Probe(n, j, b)].state # "Empty"
  <2>1. b \in Slots(t)
    BY <1>4, <1>5 DEF Slots
  <2>2. Probe(t, j, b) \in Slots(t)
    BY <1>3, <1>5, <2>1, Probing
  <2>3. Probe(t, j, b) \in UsedSlots(t)
    BY <1>4, <2>2 DEF Reaches, UsedSlots
  <2> QED
    BY <1>1, <2>3
<1> QED
  BY <1>1, <1>3, <1>4, <1>6 DEF Reaches

(* A new value for a key that is there.                                    *)
LEMMA PutOld ==
  ASSUME NEW t, Sound(t), t.capacity # 0,
         NEW k \in Keys, NEW v \in Values, Found(t, k).state = "Valid"
  PROVE  LET n == Put(t, k, v) IN
         /\ Sound(n) /\ n.capacity = t.capacity
         /\ MapOf(n) = Assigned(MapOf(t), k, v)
         /\ ValidSlots(n) = ValidSlots(t)
         /\ \A r \in ValidSlots(t) : n.entries[r].key = t.entries[r].key
<1> DEFINE s == FindSlot(t, k)
           n == Put(t, k, v)
<1>1. /\ IsTable(t) /\ UniqueKeys(t) /\ Counted(t) /\ Covered(t)
      /\ t.entries \in [Slots(t) -> Entries]
  BY TableParts DEF Sound
<1>2. s \in Slots(t) /\ t.entries[s].state = "Valid" /\ t.entries[s].key = k
  BY Finding DEF Found
<1>3. /\ n.entries = [t.entries EXCEPT ![s] = Entry(k, v)] /\ n.count = t.count
      /\ n.used = t.used /\ n.capacity = t.capacity /\ n.maxIndex = t.maxIndex
      /\ n = [entries |-> n.entries, count |-> n.count, used |-> n.used,
              capacity |-> n.capacity, maxIndex |-> n.maxIndex]
  BY <1>1, <1>2, TableParts DEF Put
<1> HIDE DEF s, n
<1>4. Slots(n) = Slots(t)
  BY <1>3, SameProbes
<1>5. /\ n.entries[s] = Entry(k, v)
      /\ \A r \in Slots(t) \ {s} : n.entries[r] = t.entries[r]
      /\ n.entries \in [Slots(t) -> Entries]
  BY <1>1, <1>2, <1>3 DEF Entries
<1>6. /\ ValidSlots(n) = ValidSlots(t) /\ UsedSlots(n) = UsedSlots(t)
      /\ \A r \in ValidSlots(t) : n.entries[r].key = t.entries[r].key
  BY <1>2, <1>4, <1>5 DEF ValidSlots, UsedSlots, Entry
<1>7. IsTable(n)
  <2>1. t.capacity \in 0 .. MaxCapacity /\ n.entries \in [0 .. t.capacity - 1 -> Entries]
    BY <1>1, <1>5, TableParts DEF Slots
  <2> QED
    BY <1>1, <1>3, <2>1, TableParts DEF IsTable
<1>8. UniqueKeys(n)
  BY <1>1, <1>6 DEF UniqueKeys
<1>9. Counted(n) /\ Covered(n)
  BY <1>1, <1>3, <1>6 DEF Counted, Covered
<1>10. Reachable(n)
  <2>1. \A r \in UsedSlots(t) : n.entries[r].state # "Empty"
    BY <1>6 DEF UsedSlots
  <2> QED
    BY <1>3, <1>6, <2>1, StillReachable
<1>11. \A r \in ValidSlots(t) : t.entries[r].key = k <=> r = s
  BY <1>1, <1>2 DEF UniqueKeys, ValidSlots
<1>12. MapOf(n) = Assigned(MapOf(t), k, v)
  BY <1>1, <1>2, <1>3, <1>7, <1>8, <1>11, MapWithPair
<1> QED
  BY <1>3, <1>6, <1>7, <1>8, <1>9, <1>10, <1>12 DEF Sound, n

LEMMA Removing ==
  ASSUME NEW t, Sound(t), NEW k \in Keys, Contains(t, k)
  PROVE  LET n == Remove(t, k) IN
         /\ Sound(n) /\ n.capacity = t.capacity
         /\ MapOf(n) = Assigned(MapOf(t), k, Absent)
         /\ ValidSlots(n) = ValidSlots(t) \ {FindSlot(t, k)}
         /\ \A r \in ValidSlots(n) : n.entries[r].key = t.entries[r].key
         /\ t.entries[FindSlot(t, k)].key = k
<1> DEFINE s == FindSlot(t, k)
           n == Remove(t, k)
<1>1. /\ IsTable(t) /\ UniqueKeys(t) /\ Counted(t) /\ Covered(t)
      /\ t.entries \in [Slots(t) -> Entries] /\ t.capacity \in Nat /\ t.count \in Nat
  BY TableParts, TableAssumption DEF Sound
<1>2. s \in ValidSlots(t) /\ s \in Slots(t) /\ t.entries[s].state = "Valid"
  BY Looking DEF ValidSlots
<1>3. t.capacity # 0
  BY <1>1, <1>2 DEF Slots
<1>4. t.entries[s].key = k
  BY <1>2, <1>3, Finding
<1>5. /\ n.entries = [t.entries EXCEPT ![s] = Vacant("Tombstone")] /\ n.count = t.count - 1
      /\ n.used = t.used /\ n.capacity = t.capacity /\ n.maxIndex = t.maxIndex
      /\ n = [entries |-> n.entries, count |-> n.count, used |-> n.used,
              capacity |-> n.capacity, maxIndex |-> n.maxIndex]
  <2>1. PICK c \in 0 .. MaxCapacity :
          t \in [entries : [0 .. c - 1 -> Entries], count : 0 .. c, used : 0 .. c,
                 capacity : {c}, maxIndex : Unset .. c - 1]
    BY <1>1 DEF IsTable
  <2> DEFINE new == [t.entries EXCEPT ![s] = Vacant("Tombstone")]
  <2>2. n = [t EXCEPT !.entries = new, !.count = t.count - 1]
    BY DEF Remove
  <2> HIDE DEF new, n
  <2>3. /\ n.entries = new /\ n.count = t.count - 1
        /\ n.used = t.used /\ n.capacity = t.capacity /\ n.maxIndex = t.maxIndex
        /\ n = [entries |-> n.entries, count |-> n.count, used |-> n.used,
                capacity |-> n.capacity, maxIndex |-> n.maxIndex]
    BY <2>1, <2>2
  <2> QED
    BY <2>3 DEF new
<1> HIDE DEF s, n
<1>6. Slots(n) = Slots(t)
  BY <1>5, SameProbes
<1>7. /\ n.entries[s] = Vacant("Tombstone")
      /\ \A r \in Slots(t) \ {s} : n.entries[r] = t.entries[r]
      /\ n.entries \in [Slots(t) -> Entries]
  BY <1>1, <1>2, <1>5 DEF Entries
<1>8. /\ ValidSlots(n) = ValidSlots(t) \ {s} /\ UsedSlots(n) = UsedSlots(t)
      /\ \A r \in ValidSlots(n) : n.entries[r] = t.entries[r] /\ r \in ValidSlots(t)
  BY <1>2, <1>6, <1>7 DEF ValidSlots, UsedSlots, Vacant
<1>9. Counted(n)
  <2>1. IsFiniteSet(ValidSlots(t)) /\ Cardinality(ValidSlots(t)) = t.count
    BY <1>1, FiniteSlots DEF ValidSlots, Counted
  <2>2. Cardinality(ValidSlots(n)) = t.count - 1
    BY <1>2, <1>8, <2>1, FS_RemoveElement
  <2> QED
    BY <1>1, <1>5, <1>8, <2>2 DEF Counted
<1>10. IsTable(n)
  <2>1. t.capacity \in 0 .. MaxCapacity /\ n.entries \in [0 .. t.capacity - 1 -> Entries]
    BY <1>1, <1>7, TableParts DEF Slots
  <2>2. n.count \in Nat
    <3>1. n.capacity \in Nat /\ ValidSlots(n) \in SUBSET Slots(n)
      BY <1>1, <1>5 DEF ValidSlots
    <3> QED
      BY <1>9, <3>1, FiniteSlots DEF Counted
  <2>3. n.count \in 0 .. t.capacity
    BY <1>1, <1>5, <2>2, TableParts
  <2> QED
    BY <1>1, <1>5, <2>1, <2>3, TableParts DEF IsTable
<1>11. UniqueKeys(n) /\ Covered(n)
  BY <1>1, <1>5, <1>8 DEF UniqueKeys, Covered
<1>12. Reachable(n)
  <2>1. \A r \in UsedSlots(t) : n.entries[r].state # "Empty"
    BY <1>8 DEF UsedSlots
  <2> QED
    BY <1>5, <1>8, <2>1, StillReachable
<1>13. MapOf(n) = Assigned(MapOf(t), k, Absent)
  <2>1. /\ MapOf(t) \in [Keys -> Values \cup {Absent}]
        /\ MapOf(n) \in [Keys -> Values \cup {Absent}]
    BY <1>1, <1>10, <1>11, MapType
  <2> DEFINE Maps(x) ==
        /\ \A r \in ValidSlots(x) :
             x.entries[r].key \in Keys => MapOf(x)[x.entries[r].key] = x.entries[r].value
        /\ \A j \in Keys :
             (\A r \in ValidSlots(x) : x.entries[r].key # j) => MapOf(x)[j] = Absent
  <2>2. Maps(t) /\ Maps(n)
    BY <1>1, <1>11, Mapping
  <2>3. ASSUME NEW j \in Keys PROVE MapOf(n)[j] = IF j = k THEN Absent ELSE MapOf(t)[j]
    <3>1. CASE j = k
      <4>1. \A r \in ValidSlots(n) : n.entries[r].key # j
        BY <1>1, <1>2, <1>4, <1>8, <3>1 DEF UniqueKeys
      <4> QED
        BY <2>2, <3>1, <4>1
    <3>2. CASE j # k /\ \E r \in ValidSlots(t) : t.entries[r].key = j
      <4>1. PICK r \in ValidSlots(t) : t.entries[r].key = j
        BY <3>2
      <4>2. r \in ValidSlots(n) /\ n.entries[r] = t.entries[r]
        BY <1>4, <1>8, <3>2, <4>1
      <4> QED
        BY <2>2, <3>2, <4>1, <4>2
    <3>3. CASE j # k /\ \A r \in ValidSlots(t) : t.entries[r].key # j
      BY <1>8, <2>2, <3>3
    <3> QED
      BY <3>1, <3>2, <3>3
  <2> QED
    BY <2>1, <2>3 DEF Assigned
<1> QED
  BY <1>4, <1>5, <1>8, <1>9, <1>10, <1>11, <1>12, <1>13 DEF Sound, n, s

(* Put in general.                                                         *)
LEMMA Putting ==
  ASSUME NEW t, Sound(t), t.capacity # 0, NEW k \in Keys, NEW v \in Values,
         ~NeedsRoom(t) \/ Found(t, k).state = "Valid"
  PROVE  LET n == Put(t, k, v) IN
         /\ Sound(n) /\ n.capacity = t.capacity /\ n.used <= t.used + 1
         /\ MapOf(n) = Assigned(MapOf(t), k, v)
<1>1. IsTable(t) /\ t.used \in Nat
  BY TableParts DEF Sound
<1>2. CASE Found(t, k).state = "Valid"
  <2>1. Put(t, k, v).used = t.used
    BY <1>1, <1>2, TableParts DEF Put, Found
  <2> QED
    BY <1>1, <1>2, <2>1, PutOld
<1>3. CASE Found(t, k).state # "Valid"
  <2>1. Put(t, k, v).used \in t.used .. t.used + 1
    BY <1>3, PutNew
  <2>2. Put(t, k, v).used <= t.used + 1
    BY <1>1, <2>1
  <2>3. /\ Sound(Put(t, k, v)) /\ Put(t, k, v).capacity = t.capacity
        /\ MapOf(Put(t, k, v)) = Assigned(MapOf(t), k, v)
    BY <1>3, PutNew
  <2> QED
    BY <2>2, <2>3
<1> QED
  BY <1>2, <1>3

(* Tables with nothing in them, whatever they count as used.               *)
LEMMA NothingInIt ==
  ASSUME NEW t, IsTable(t), \A s \in Slots(t) : t.entries[s] = Vacant("Empty"),
         t.count = 0, 5 * t.used <= 4 * t.capacity
  PROVE  Sound(t) /\ MapOf(t) = [k \in Keys |-> Absent]
<1>1. ValidSlots(t) = {} /\ UsedSlots(t) = {} /\ t.used \in Nat
  BY TableParts DEF ValidSlots, UsedSlots, Vacant
<1>2. Counted(t)
  BY <1>1, FS_EmptySet DEF Counted
<1> QED
  BY <1>1, <1>2 DEF Sound, UniqueKeys, Reachable, Covered, MapOf

LEMMA NewTables ==
  ASSUME NEW c \in 0 .. MaxCapacity
  PROVE  /\ Sound(NewTable(c)) /\ NewTable(c).capacity = c /\ NewTable(c).used = 0
         /\ MapOf(NewTable(c)) = [k \in Keys |-> Absent]
<1> DEFINE t == NewTable(c)
<1>1. /\ c \in Nat /\ t.capacity = c /\ t.used = 0 /\ t.count = 0
      /\ t.entries = [s \in 0 .. c - 1 |-> Vacant("Empty")]
  BY TableAssumption DEF NewTable
<1>2. IsTable(t)
  <2>1. t.entries \in [0 .. c - 1 -> Entries]
    BY <1>1 DEF Entries
  <2>2. Unset \in Unset .. c - 1 /\ 0 \in 0 .. c
    BY <1>1 DEF Unset
  <2>3. t \in [entries : [0 .. c - 1 -> Entries], count : 0 .. c, used : 0 .. c,
               capacity : {c}, maxIndex : Unset .. c - 1]
    BY <1>1, <2>1, <2>2 DEF NewTable
  <2> QED
    BY <2>3 DEF IsTable
<1> QED
  BY <1>1, <1>2, NothingInIt DEF Slots

LEMMA Growing ==
  ASSUME NEW t, Sound(t), t.count = 0, t.capacity * GrowFactor <= MaxCapacity
  PROVE  /\ Sound(Grow(t)) /\ Grow(t).capacity = 2 * t.capacity /\ Grow(t).used = t.used
         /\ MapOf(Grow(t)) = MapOf(t) /\ MapOf(t) = [k \in Keys |-> Absent]
<1> DEFINE n == Grow(t)
           c == 2 * t.capacity
<1>1. /\ t.capacity \in Nat /\ t.used \in 0 .. t.capacity /\ c \in 0 .. MaxCapacity
      /\ t.maxIndex \in Unset .. t.capacity - 1 /\ c = t.capacity * GrowFactor
      /\ UniqueKeys(t) /\ Counted(t)
  BY TableParts, TableAssumption DEF Sound, GrowFactor
<1>2. n = [entries |-> [s \in 0 .. c - 1 |-> Vacant("Empty")], count |-> 0, used |-> t.used,
           capacity |-> c, maxIndex |-> t.maxIndex]
  <2>1. PICK d \in 0 .. MaxCapacity :
          t \in [entries : [0 .. d - 1 -> Entries], count : 0 .. d, used : 0 .. d,
                 capacity : {d}, maxIndex : Unset .. d - 1]
    BY DEF Sound, IsTable
  <2> DEFINE new == NewTable(c).entries
  <2>2. n = [t EXCEPT !.entries = new, !.capacity = c]
    BY <1>1 DEF Grow
  <2>3. new = [s \in 0 .. c - 1 |-> Vacant("Empty")]
    BY DEF NewTable
  <2> HIDE DEF n, new, c
  <2>4. n = [entries |-> new, count |-> t.count, used |-> t.used, capacity |-> c,
             maxIndex |-> t.maxIndex]
    BY <2>1, <2>2
  <2> QED
    BY <2>3, <2>4
<1>3. IsTable(n)
  <2>1. n.entries \in [0 .. c - 1 -> Entries]
    BY <1>2 DEF Entries
  <2>2. n.maxIndex \in Unset .. c - 1 /\ n.used \in 0 .. c /\ n.count \in 0 .. c
    BY <1>1, <1>2 DEF Unset
  <2> QED
    BY <1>1, <1>2, <2>1, <2>2 DEF IsTable
<1>4. 5 * n.used <= 4 * n.capacity
  BY <1>1, <1>2 DEF Counted
<1>5. Sound(n) /\ MapOf(n) = [k \in Keys |-> Absent]
  BY <1>2, <1>3, <1>4, NothingInIt DEF Slots
<1>6. ValidSlots(t) = {}
  <2>1. ValidSlots(t) \in SUBSET Slots(t)
    BY DEF ValidSlots
  <2>2. IsFiniteSet(ValidSlots(t))
    BY <1>1, <2>1, FiniteSlots
  <2> QED
    BY <1>1, <2>2, FS_EmptySet DEF Counted
<1>7. MapOf(t) = [k \in Keys |-> Absent]
  BY <1>6 DEF MapOf
<1> QED
  BY <1>2, <1>5, <1>7

LEMMA CountBelowUsed ==
  ASSUME NEW t, Sound(t)
  PROVE  t.count <= t.used
<1>1. t.capacity \in Nat /\ t.used \in Nat
  BY TableParts, TableAssumption DEF Sound
<1>2. UsedSlots(t) \in SUBSET Slots(t) /\ ValidSlots(t) \in SUBSET UsedSlots(t)
  BY DEF UsedSlots, ValidSlots
<1>3. IsFiniteSet(UsedSlots(t)) /\ Cardinality(UsedSlots(t)) \in Nat
  BY <1>1, <1>2, FiniteSlots
<1>4. /\ Cardinality(ValidSlots(t)) <= Cardinality(UsedSlots(t))
      /\ Cardinality(ValidSlots(t)) \in Nat
  BY <1>2, <1>3, FS_Subset, FS_CardinalityType
<1> QED
  BY <1>1, <1>3, <1>4 DEF Sound, Counted

-----------------------------------------------------------------------------
(* While pairs are moved: the new table has those below index, and room    *)
(* for all of the old one and the new pair.                                *)
Moving ==
  /\ newTable.capacity = 2 * table.capacity
  /\ index \in 0 .. table.maxIndex + 1 /\ newTable.used <= index
  /\ adding \in [key : Keys, value : Values]
  /\ \A k \in Keys :
       MapOf(newTable)[k] = IF \E s \in ValidSlots(table) :
                                    s < index /\ table.entries[s].key = k
                            THEN MapOf(table)[k] ELSE Absent

TablesOK ==
  /\ Sound(table) /\ Sound(newTable) /\ table.capacity # 1
  /\ phase \in {"ready", "rehashing", "crashed"}
  /\ phase = "rehashing" => Moving /\ table.capacity # 0

LEMMA RoomToMove ==
  ASSUME TablesOK, phase = "rehashing"
  PROVE  ~NeedsRoom(newTable) /\ newTable.capacity # 0
<1>1. /\ table.capacity \in Nat \ {0, 1} /\ table.maxIndex \in Unset .. table.capacity - 1
      /\ newTable.used \in Nat
  BY TableParts, TableAssumption DEF TablesOK, Sound
<1>2. /\ newTable.capacity = 2 * table.capacity /\ newTable.used <= table.capacity
  BY <1>1 DEF TablesOK, Moving, Unset
<1> QED
  BY <1>1, <1>2 DEF NeedsRoom

LEMMA InitTables == Init => TablesOK
<1> SUFFICES ASSUME Init PROVE TablesOK
  OBVIOUS
<1>1. 0 \in 0 .. MaxCapacity /\ DefaultSize \in 0 .. MaxCapacity
  BY TableAssumption DEF DefaultSize
<1>2. Sound(table) /\ table.capacity = 2 /\ Sound(newTable)
  BY <1>1, NewTables DEF Init, NotRehashing, NoTable, DefaultSize
<1> QED
  BY <1>2 DEF TablesOK, Init

(* A pair is put at once: what it takes, and what it does to the map.      *)
LEMMA SettingAtOnce ==
  ASSUME TablesOK, table.capacity > 0, NEW k \in Keys, NEW v \in Values,
         \/ table' = Put(table, k, v) /\ (Found(table, k).state = "Valid" \/ ~NeedsRoom(table))
         \/ /\ table' = Put(Grow(table), k, v)
            /\ table.count = 0 /\ table.capacity * GrowFactor <= MaxCapacity
  PROVE  /\ Sound(table') /\ table'.capacity # 1
         /\ MapOf(table') = Assigned(MapOf(table), k, v)
<1>1. /\ Sound(table) /\ table.capacity \in Nat \ {0, 1} /\ table.used \in Nat
      /\ 5 * table.used <= 4 * table.capacity
  BY TableParts, TableAssumption DEF TablesOK, Sound, Counted
<1>2. CASE /\ table' = Put(table, k, v)
           /\ Found(table, k).state = "Valid" \/ ~NeedsRoom(table)
  BY <1>1, <1>2, Putting
<1>3. CASE /\ table' = Put(Grow(table), k, v)
           /\ table.count = 0 /\ table.capacity * GrowFactor <= MaxCapacity
  <2> DEFINE t == Grow(table)
  <2>1. /\ Sound(t) /\ t.capacity = 2 * table.capacity /\ t.used = table.used
        /\ MapOf(t) = MapOf(table)
    BY <1>1, <1>3, Growing
  <2>2. ~NeedsRoom(t) /\ t.capacity # 0 /\ t.capacity # 1
    BY <1>1, <2>1 DEF NeedsRoom
  <2> HIDE DEF t
  <2>3. /\ Sound(Put(t, k, v)) /\ Put(t, k, v).capacity = t.capacity
        /\ MapOf(Put(t, k, v)) = Assigned(MapOf(t), k, v)
    BY <2>1, <2>2, Putting
  <2> QED
    BY <1>3, <2>1, <2>2, <2>3 DEF t
<1> QED
  BY <1>2, <1>3

(* rehash begins with an empty table ...                                   *)
LEMMA RehashBegins ==
  ASSUME TablesOK, table.capacity > 0, table.capacity * GrowFactor <= MaxCapacity,
         NEW k \in Keys, NEW v \in Values, UNCHANGED table,
         newTable' = NewTable(table.capacity * GrowFactor), index' = 0,
         adding' = [key |-> k, value |-> v]
  PROVE  Sound(newTable') /\ Moving'
<1>1. table.capacity \in Nat /\ table.maxIndex \in Unset .. table.capacity - 1
  BY TableParts, TableAssumption DEF TablesOK, Sound
<1>2. /\ table.capacity * GrowFactor \in 0 .. MaxCapacity
      /\ table.capacity * GrowFactor = 2 * table.capacity
  BY <1>1, TableAssumption DEF GrowFactor
<1>3. /\ Sound(newTable') /\ newTable'.capacity = 2 * table.capacity /\ newTable'.used = 0
      /\ MapOf(newTable') = [j \in Keys |-> Absent]
  BY <1>2, NewTables
<1>4. \A s \in ValidSlots(table) : ~(s < 0)
  BY <1>1 DEF ValidSlots, Slots
<1> QED
  BY <1>1, <1>3, <1>4 DEF Moving, Unset

(* ... moves one pair after the other ...                                  *)
LEMMA RehashMoves ==
  ASSUME TablesOK, RehashSlot
  PROVE  Sound(newTable') /\ Moving'
<1> DEFINE e == table.entries[index]
<1>1. /\ Sound(table) /\ Sound(newTable) /\ Moving /\ UniqueKeys(table)
      /\ phase = "rehashing" /\ index <= table.maxIndex /\ index' = index + 1
      /\ UNCHANGED <<table, adding>>
      /\ newTable' = IF e.state = "Valid" THEN Put(newTable, e.key, e.value) ELSE newTable
  BY DEF RehashSlot, TablesOK, Sound
<1>2. /\ table.capacity \in Nat /\ table.maxIndex \in Unset .. table.capacity - 1
      /\ table.entries \in [Slots(table) -> Entries]
      /\ newTable.used \in Nat
  BY <1>1, TableParts, TableAssumption DEF Sound
<1>3. index \in Slots(table) /\ index \in Nat
  BY <1>1, <1>2 DEF Moving, Slots, Unset
<1>4. e \in Entries
  BY <1>2, <1>3
<1>5. ~NeedsRoom(newTable) /\ newTable.capacity # 0
  BY <1>1, RoomToMove
<1>6. /\ Sound(newTable') /\ newTable'.capacity = newTable.capacity
      /\ newTable'.used <= newTable.used + 1
      /\ MapOf(newTable') = IF e.state = "Valid" THEN Assigned(MapOf(newTable), e.key, e.value)
                            ELSE MapOf(newTable)
  <2>1. CASE e.state = "Valid"
    <3>1. e.key \in Keys /\ e.value \in Values
      BY <1>4, <2>1, EntryFacts
    <3> HIDE DEF e
    <3> QED
      BY <1>1, <1>5, <2>1, <3>1, Putting
  <2>2. CASE e.state # "Valid"
    BY <1>1, <1>2, <2>2
  <2> QED
    BY <2>1, <2>2
<1>7. newTable'.used \in Nat
  BY <1>6, TableParts DEF Sound
<1>8. newTable'.used <= index' /\ index' \in 0 .. table'.maxIndex + 1
  <2>1. newTable.used <= index
    BY <1>1 DEF Moving
  <2>2. table.maxIndex \in Int
    BY <1>2 DEF Unset
  <2>3. newTable'.used <= index'
    BY <1>1, <1>2, <1>3, <1>6, <1>7, <2>1
  <2>4. table'.maxIndex = table.maxIndex /\ index' = index + 1 /\ index <= table.maxIndex
    BY <1>1
  <2> QED
    BY <1>3, <2>2, <2>3, <2>4
<1>9. ASSUME NEW k \in Keys
      PROVE  MapOf(newTable')[k] = IF \E s \in ValidSlots(table) :
                                           s < index + 1 /\ table.entries[s].key = k
                                   THEN MapOf(table)[k] ELSE Absent
  <2>1. \A s \in ValidSlots(table) : s < index + 1 <=> s < index \/ s = index
    BY <1>2, <1>3 DEF ValidSlots, Slots
  <2>2. index \in ValidSlots(table) <=> e.state = "Valid"
    BY <1>3 DEF ValidSlots
  <2>3. MapOf(newTable) \in [Keys -> Values \cup {Absent}]
    BY <1>1, MapType DEF Sound
  <2>4. CASE e.state = "Valid" /\ e.key = k
    <3>1. MapOf(table)[k] = e.value
      BY <1>1, <2>2, <2>4, Mapping
    <3>2. MapOf(newTable')[k] = e.value
      BY <1>6, <2>3, <2>4 DEF Assigned
    <3> QED
      BY <2>1, <2>2, <2>4, <3>1, <3>2
  <2>5. CASE ~(e.state = "Valid" /\ e.key = k)
    <3>1. MapOf(newTable')[k] = MapOf(newTable)[k]
      BY <1>6, <2>3, <2>5 DEF Assigned
    <3>2. (\E s \in ValidSlots(table) : s < index + 1 /\ table.entries[s].key = k)
          <=> (\E s \in ValidSlots(table) : s < index /\ table.entries[s].key = k)
      BY <2>1, <2>2, <2>5
    <3> QED
      BY <1>1, <3>1, <3>2 DEF Moving
  <2> QED
    BY <2>4, <2>5
<1> QED
  BY <1>1, <1>6, <1>8, <1>9 DEF Moving

(* ... and ends with a table that says the same as the old one.            *)
LEMMA RehashEnds ==
  ASSUME TablesOK, EndRehash
  PROVE  /\ Sound(table') /\ table'.capacity # 1 /\ Sound(newTable')
         /\ adding \in [key : Keys, value : Values]
         /\ MapOf(table') = Assigned(MapOf(table), adding.key, adding.value)
<1>1. /\ Sound(table) /\ Sound(newTable) /\ Moving /\ phase = "rehashing"
      /\ index > table.maxIndex /\ table.capacity # 0
      /\ table' = Put(newTable, adding.key, adding.value) /\ newTable' = NewTable(0)
      /\ adding.key \in Keys /\ adding.value \in Values
  BY DEF EndRehash, TablesOK, Moving, NoTable
<1>2. /\ table.capacity \in Nat /\ table.maxIndex \in Unset .. table.capacity - 1
      /\ newTable.capacity = 2 * table.capacity
  BY <1>1, TableParts, TableAssumption DEF Sound, Moving
<1>3. ~NeedsRoom(newTable) /\ newTable.capacity # 0
  BY <1>1, RoomToMove
<1>4. ASSUME NEW s \in ValidSlots(table) PROVE s < index
  <2>1. s \in UsedSlots(table) /\ s \in Int /\ table.maxIndex \in Int /\ index \in Int
    BY <1>1, <1>2 DEF ValidSlots, UsedSlots, Slots, Unset, Moving
  <2>2. s <= table.maxIndex
    BY <1>1, <2>1 DEF Sound, Covered
  <2> QED
    BY <1>1, <2>1, <2>2
<1>5. /\ MapOf(newTable) \in [Keys -> Values \cup {Absent}]
      /\ MapOf(table) \in [Keys -> Values \cup {Absent}]
  BY <1>1, MapType DEF Sound
<1>6. ASSUME NEW k \in Keys PROVE MapOf(newTable)[k] = MapOf(table)[k]
  <2>1. CASE \E s \in ValidSlots(table) : table.entries[s].key = k
    BY <1>1, <1>4, <2>1 DEF Moving
  <2>2. CASE \A s \in ValidSlots(table) : table.entries[s].key # k
    <3>1. MapOf(table)[k] = Absent
      BY <1>1, <2>2, Mapping DEF Sound
    <3> QED
      BY <1>1, <2>2, <3>1 DEF Moving
  <2> QED
    BY <2>1, <2>2
<1>7. MapOf(newTable) = MapOf(table)
  BY <1>5, <1>6
<1>8. /\ Sound(table') /\ table'.capacity = newTable.capacity
      /\ MapOf(table') = Assigned(MapOf(newTable), adding.key, adding.value)
  BY <1>1, <1>3, Putting
<1>9. Sound(newTable')
  BY <1>1, NewTables, TableAssumption
<1> QED
  BY <1>1, <1>2, <1>7, <1>8, <1>9 DEF Moving

(* Each step keeps the tables sound, and does to the map what one of the   *)
(* operations of PartialMap does, or nothing.                              *)
MapStep ==
  \/ UNCHANGED <<MapOf(table), answer>>
  \/ MapOf(table)' = [k \in Keys |-> Absent] /\ UNCHANGED answer
  \/ answer' = [of |-> "size", is |-> table.count] /\ UNCHANGED MapOf(table)
  \/ \E k \in Keys :
       \/ answer' = [of |-> k, is |-> MapOf(table)[k]] /\ UNCHANGED MapOf(table)
       \/ /\ answer' = [of |-> k, is |-> MapOf(table)[k]]
          /\ MapOf(table)' = Assigned(MapOf(table), k, Absent)
       \/ \E v \in Values :
            MapOf(table)' = Assigned(MapOf(table), k, v) /\ UNCHANGED answer

LEMMA SameTables ==
  ASSUME TablesOK, UNCHANGED <<table, rehash>>, phase' \in {phase, "crashed"}
  PROVE  TablesOK' /\ MapOf(table)' = MapOf(table)
  BY DEF TablesOK, Moving, rehash

LEMMA SetStep ==
  ASSUME TablesOK, NEW k \in Keys, NEW v \in Values, Set(k, v)
  PROVE  TablesOK' /\ MapStep
<1>1. CASE \/ /\ Found(table, k).state = "Valid" \/ ~NeedsRoom(table)
              /\ table' = Put(table, k, v) /\ UNCHANGED <<phase, rehash>>
           \/ /\ table.count = 0 /\ table.capacity * GrowFactor <= MaxCapacity
              /\ table' = Put(Grow(table), k, v) /\ UNCHANGED <<phase, rehash>>
  <2>1. /\ Sound(table') /\ table'.capacity # 1
        /\ MapOf(table') = Assigned(MapOf(table), k, v)
    BY <1>1, SettingAtOnce DEF Set
  <2>2. phase' = "ready" /\ newTable' = newTable
    BY <1>1 DEF Set, rehash
  <2>3. TablesOK'
    BY <2>1, <2>2 DEF TablesOK
  <2> QED
    BY <2>1, <2>3 DEF Set, MapStep
<1>2. CASE /\ table.capacity * GrowFactor <= MaxCapacity
           /\ phase' = "rehashing" /\ UNCHANGED table
           /\ newTable' = NewTable(table.capacity * GrowFactor) /\ index' = 0
           /\ adding' = [key |-> k, value |-> v]
  <2>1. Sound(newTable') /\ Moving' /\ table.capacity # 0
    BY <1>2, TableParts, RehashBegins DEF Set, TablesOK, Sound
  <2> QED
    BY <1>2, <2>1 DEF TablesOK, Set, MapStep
<1> QED
  BY <1>1, <1>2 DEF Set, Resize

LEMMA PopStep ==
  ASSUME TablesOK, NEW k \in Keys, Pop(k)
  PROVE  TablesOK' /\ MapStep
<1>1. ValueIn(table, k) = MapOf(table)[k] /\ Sound(table) /\ phase = "ready"
  BY Looking DEF TablesOK, Pop
<1>2. CASE Contains(table, k)
  <2>1. /\ Sound(table') /\ table'.capacity # 1
        /\ MapOf(table') = Assigned(MapOf(table), k, Absent)
    BY <1>1, <1>2, Removing DEF Pop, TablesOK
  <2>2. TablesOK'
    BY <1>1, <2>1 DEF Pop, TablesOK, rehash
  <2> QED
    BY <1>1, <2>1, <2>2 DEF Pop, MapStep
<1>3. CASE ~Contains(table, k)
  BY <1>1, <1>3, SameTables DEF Pop, MapStep
<1> QED
  BY <1>2, <1>3

LEMMA ClearStep ==
  ASSUME TablesOK, Clear \/ Restart
  PROVE  TablesOK' /\ MapStep
<1>1. PICK c \in {0, DefaultSize} : table' = NewTable(c)
  BY DEF Clear, Restart, NoTable
<1>2. c \in 0 .. MaxCapacity /\ c # 1
  BY TableAssumption DEF DefaultSize
<1>3. /\ Sound(table') /\ table'.capacity # 1
      /\ MapOf(table') = [k \in Keys |-> Absent]
  BY <1>1, <1>2, NewTables
<1>4. TablesOK'
  BY <1>3 DEF Clear, Restart, TablesOK, rehash
<1> QED
  BY <1>3, <1>4 DEF Clear, Restart, MapStep

(* The loop reads the pair of a slot that has one.                         *)
LEMMA FollowingFacts ==
  ASSUME NEW t, IsTable(t), NEW s \in 0 .. t.capacity
  PROVE  LET r == Following(t, s) IN
         /\ r \in s .. t.capacity
         /\ r = t.capacity \/ r \in ValidSlots(t)
         /\ \A q \in s .. r - 1 : q \notin ValidSlots(t)
<1> DEFINE S == {r \in s .. t.capacity : r = t.capacity \/ t.entries[r].state = "Valid"}
<1>1. t.capacity \in Nat /\ t.capacity \in S
  BY TableParts, TableAssumption
<1>2. S \in SUBSET Nat
  BY <1>1
<1>3. PICK n \in S : \A m \in S : n <= m
  BY <1>1, <1>2, Least
<1>4. \A q \in s .. n - 1 : t.entries[q].state # "Valid"
  <2> SUFFICES ASSUME NEW q \in s .. n - 1, t.entries[q].state = "Valid" PROVE FALSE
    OBVIOUS
  <2>1. q \in S /\ q < n
    BY <1>1
  <2> QED
    BY <1>1, <1>3, <2>1
<1> DEFINE First(r) == /\ r = t.capacity \/ t.entries[r].state = "Valid"
                       /\ \A q \in s .. r - 1 : t.entries[q].state # "Valid"
<1>5. \E r \in s .. t.capacity : First(r)
  BY <1>3, <1>4
<1>6. Following(t, s) = CHOOSE r \in s .. t.capacity : First(r)
  BY DEF Following
<1>7. Following(t, s) \in s .. t.capacity /\ First(Following(t, s))
  BY <1>5, <1>6
<1> QED
  BY <1>1, <1>7 DEF ValidSlots, Slots

LEMMA VisitStep ==
  ASSUME TablesOK, NEW s \in ValidSlots(table), Visit(s), UNCHANGED <<table, phase, rehash>>
  PROVE  TablesOK' /\ MapStep
<1> DEFINE e == table.entries[s]
<1>1. TablesOK' /\ MapOf(table)' = MapOf(table)
  BY SameTables
<1>2. e \in Entries /\ e.state = "Valid"
  BY TableParts DEF ValidSlots, TablesOK, Sound
<1>3. e.key \in Keys
  BY <1>2, EntryFacts
<1>4. MapOf(table)[e.key] = e.value
  BY <1>3, Mapping DEF TablesOK, Sound
<1>5. answer' = [of |-> e.key, is |-> MapOf(table)[e.key]]
  BY <1>4 DEF Visit
<1> QED
  BY <1>1, <1>3, <1>5 DEF MapStep

-----------------------------------------------------------------------------
(* The loop.                                                               *)
Ahead(t, at) == {t.entries[s].key : s \in {r \in ValidSlots(t) : r > at}}

LoopOK ==
  /\ iter \in [on : BOOLEAN, at : Nat, valid : BOOLEAN]
  /\ due \subseteq Keys /\ fresh \subseteq Keys
  /\ iter.valid => /\ iter.on /\ iter.at \in Slots(table)
                   /\ due \subseteq Ahead(table, iter.at)
                   /\ Ahead(table, iter.at) \subseteq due \cup fresh

IInv ==
  /\ TablesOK /\ LoopOK
  /\ index \in Nat
  /\ adding \in [key : Keys \cup {Absent}, value : Values \cup {Absent}]
  /\ answer \in [of : Keys \cup {"size"}, is : Values \cup {Absent} \cup Nat]

LEMMA NoLoopLeft ==
  ASSUME LoopOK, Dangles \/ (iter' = Off /\ due' = {} /\ fresh' = {})
  PROVE  LoopOK'
<1>1. iter' \in [on : BOOLEAN, at : Nat, valid : BOOLEAN] /\ ~iter'.valid
  <2>1. CASE Dangles
    BY <2>1 DEF LoopOK, Dangles
  <2>2. CASE iter' = Off
    BY <2>2 DEF Off
  <2> QED
    BY <2>1, <2>2
<1> QED
  BY <1>1 DEF LoopOK, Dangles

LEMMA SameLoop ==
  ASSUME LoopOK, UNCHANGED <<table, loop>>
  PROVE  LoopOK'
  BY DEF LoopOK, loop

(* A pair is added or changed in the slots that there are.                 *)
LEMMA LoopAfterPut ==
  ASSUME TablesOK, LoopOK, table.capacity # 0, NEW k \in Keys, NEW v \in Values,
         table' = Put(table, k, v),
         \/ Found(table, k).state = "Valid" /\ UNCHANGED loop
         \/ Found(table, k).state # "Valid" /\ Appears(k)
  PROVE  LoopOK'
<1>1. Sound(table) /\ table.entries \in [Slots(table) -> Entries] /\ table.capacity \in Nat
  BY TableParts, TableAssumption DEF TablesOK, Sound
<1> DEFINE s == FindSlot(table, k)
<1>2. CASE Found(table, k).state = "Valid" /\ UNCHANGED loop
  <2>1. /\ ValidSlots(table') = ValidSlots(table) /\ Slots(table') = Slots(table)
        /\ \A r \in ValidSlots(table) : table'.entries[r].key = table.entries[r].key
    BY <1>1, <1>2, PutOld, SameProbes
  <2>2. Ahead(table', iter.at) = Ahead(table, iter.at)
    BY <2>1 DEF Ahead
  <2> QED
    BY <1>2, <2>1, <2>2 DEF LoopOK, loop
<1>3. CASE Found(table, k).state # "Valid" /\ Appears(k)
  <2>1. s \in Slots(table) /\ table.entries[s].state # "Valid"
    BY <1>1, <1>3, Finding DEF Found
  <2>2. /\ table'.entries = [table.entries EXCEPT ![s] = Entry(k, v)]
        /\ table'.capacity = table.capacity
    BY <2>1 DEF Put
  <2> HIDE DEF s
  <2>3. Slots(table') = Slots(table)
    BY <2>2 DEF Slots
  <2>4. /\ ValidSlots(table') = ValidSlots(table) \cup {s} /\ s \notin ValidSlots(table)
        /\ table'.entries[s].key = k
        /\ \A r \in ValidSlots(table) : table'.entries[r] = table.entries[r]
    BY <1>1, <2>1, <2>2, <2>3 DEF ValidSlots, Entry
  <2>5. /\ Ahead(table, iter.at) \subseteq Ahead(table', iter.at)
        /\ Ahead(table', iter.at) \subseteq Ahead(table, iter.at) \cup {k}
    BY <2>4 DEF Ahead
  <2>6. /\ iter' = iter /\ due' = due
        /\ fresh' = IF iter.valid THEN fresh \cup {k} ELSE fresh
    BY <1>3 DEF Appears
  <2> QED
    BY <2>3, <2>5, <2>6 DEF LoopOK
<1> QED
  BY <1>2, <1>3

LEMMA LoopAfterPop ==
  ASSUME TablesOK, LoopOK, NEW k \in Keys, Pop(k)
  PROVE  LoopOK'
<1>1. CASE ~Contains(table, k)
  BY <1>1, SameLoop DEF Pop, loop
<1>2. CASE Contains(table, k)
  <2> DEFINE s == FindSlot(table, k)
  <2>1. /\ Sound(table) /\ table' = Remove(table, k) /\ iter' = iter
        /\ due' = due \ {k} /\ fresh' = fresh \ {k}
    BY <1>2 DEF Pop, TablesOK
  <2>2. /\ Slots(table') = Slots(table) /\ ValidSlots(table') = ValidSlots(table) \ {s}
        /\ \A r \in ValidSlots(table') : table'.entries[r].key = table.entries[r].key
        /\ table.entries[s].key = k /\ s \in ValidSlots(table)
    BY <1>2, <2>1, Removing, Looking, SameProbes
  <2>3. \A r \in ValidSlots(table) : table.entries[r].key = k <=> r = s
    BY <2>1, <2>2 DEF Sound, UniqueKeys
  <2>4. Ahead(table', iter.at) = Ahead(table, iter.at) \ {k}
    BY <2>2, <2>3 DEF Ahead
  <2> QED
    BY <2>1, <2>2, <2>4 DEF LoopOK
<1> QED
  BY <1>1, <1>2

(* The loop goes to the first pair that is ahead of it.                    *)
LEMMA LoopAfterVisit ==
  ASSUME TablesOK, LoopOK, NEW s \in ValidSlots(table), Visit(s), UNCHANGED table,
         \/ ~iter.on /\ \A q \in ValidSlots(table) : s <= q
         \/ iter.on /\ iter.valid /\ \A q \in ValidSlots(table) : q > iter.at <=> s <= q
  PROVE  LoopOK'
<1> DEFINE k == table.entries[s].key
           before == IF iter.on THEN due ELSE KeysIn(table)
<1>1. /\ Sound(table) /\ UniqueKeys(table) /\ table.capacity \in Nat
      /\ table.entries \in [Slots(table) -> Entries]
  BY TableParts, TableAssumption DEF TablesOK, Sound
<1>2. /\ iter' = [on |-> TRUE, at |-> s, valid |-> TRUE]
      /\ due' = before \ {k} /\ fresh' = fresh \ {k}
  BY DEF Visit
<1>3. \A q \in ValidSlots(table) : q \in Nat /\ table.entries[q].key \in Keys
  BY <1>1, EntryFacts DEF ValidSlots, Slots
<1> DEFINE Rest == {table.entries[q].key : q \in {r \in ValidSlots(table) : s <= r}}
<1>4. Ahead(table, s) = Rest \ {k}
  <2>1. \A q \in ValidSlots(table) : q > s <=> s <= q /\ q # s
    BY <1>3
  <2>2. \A q \in ValidSlots(table) : table.entries[q].key = k <=> q = s
    BY <1>1 DEF UniqueKeys
  <2> QED
    BY <2>1, <2>2 DEF Ahead
<1>5. before \subseteq Rest /\ Rest \subseteq before \cup fresh /\ before \subseteq Keys
  <2>1. CASE ~iter.on
    <3>1. Rest = KeysIn(table) /\ KeysIn(table) \subseteq Keys
      BY <1>3, <2>1 DEF KeysIn
    <3> QED
      BY <2>1, <3>1
  <2>2. CASE iter.on
    <3>1. Rest = Ahead(table, iter.at)
      BY <2>2 DEF Ahead
    <3> QED
      BY <2>2, <3>1 DEF LoopOK
  <2> QED
    BY <2>1, <2>2
<1> HIDE DEF Rest, before, k
<1>6. due' \subseteq Ahead(table, s) /\ Ahead(table, s) \subseteq due' \cup fresh'
  BY <1>2, <1>4, <1>5
<1>7. s \in Slots(table) /\ s \in Nat
  BY <1>3 DEF ValidSlots
<1> QED
  BY <1>2, <1>5, <1>6, <1>7 DEF LoopOK

-----------------------------------------------------------------------------
LEMMA InitIInv == Init => IInv
<1> SUFFICES ASSUME Init PROVE IInv
  OBVIOUS
<1>1. TablesOK
  BY InitTables
<1>2. LoopOK
  BY DEF Init, NoLoop, Off, LoopOK
<1>3. index = 0 /\ adding \in [key : Keys \cup {Absent}, value : Values \cup {Absent}]
  BY DEF Init, NotRehashing
<1> QED
  BY <1>1, <1>2, <1>3 DEF IInv, Init

(* The steps of the loop.                                                  *)
LEMMA LoopStep ==
  ASSUME IInv, StartLoop \/ NextPair
  PROVE  TablesOK' /\ MapStep /\ LoopOK'
<1>1. /\ IsTable(table) /\ table.capacity \in Nat /\ 0 \in 0 .. table.capacity
      /\ TablesOK /\ LoopOK /\ Counted(table)
  BY TableParts, TableAssumption DEF IInv, TablesOK, Sound
<1>2. CASE StartLoop
  <2> DEFINE s == Following(table, 0)
  <2>1. /\ s \in 0 .. table.capacity /\ (s = table.capacity \/ s \in ValidSlots(table))
        /\ \A q \in 0 .. s - 1 : q \notin ValidSlots(table)
    BY <1>1, FollowingFacts
  <2>2. ValidSlots(table) # {}
    BY <1>1, <1>2, FS_EmptySet DEF StartLoop, Counted
  <2>3. \A q \in ValidSlots(table) : q \in 0 .. table.capacity - 1
    BY DEF ValidSlots, Slots
  <2>4. \A q \in ValidSlots(table) : s <= q
    <3> SUFFICES ASSUME NEW q \in ValidSlots(table), ~(s <= q) PROVE FALSE
      OBVIOUS
    <3>1. q \in 0 .. s - 1
      BY <1>1, <2>1, <2>3
    <3> QED
      BY <2>1, <3>1
  <2>5. s \in ValidSlots(table)
    <3>1. PICK q \in ValidSlots(table) : TRUE
      BY <2>2
    <3>2. s # table.capacity
      BY <1>1, <2>3, <2>4, <3>1
    <3> QED
      BY <2>1, <3>2
  <2>6. Visit(s) /\ UNCHANGED <<table, phase, rehash>> /\ ~iter.on
    BY <1>2 DEF StartLoop, Begin
  <2> HIDE DEF s
  <2>7. LoopOK'
    BY <1>1, <2>4, <2>5, <2>6, LoopAfterVisit
  <2> QED
    BY <1>1, <2>5, <2>6, <2>7, VisitStep
<1>3. CASE NextPair
  <2> DEFINE s == Following(table, iter.at + 1)
  <2>1. /\ iter.on /\ iter.valid /\ iter.at \in 0 .. table.capacity - 1
        /\ Advance(table, iter.at) = s
    BY <1>1, <1>3 DEF NextPair, LoopOK, Slots, Advance
  <2>2. iter.at + 1 \in 0 .. table.capacity
    BY <1>1, <2>1
  <2>3. /\ s \in iter.at + 1 .. table.capacity /\ (s = table.capacity \/ s \in ValidSlots(table))
        /\ \A q \in iter.at + 1 .. s - 1 : q \notin ValidSlots(table)
    BY <1>1, <2>2, FollowingFacts
  <2>4. \A q \in ValidSlots(table) : q \in 0 .. table.capacity - 1
    BY DEF ValidSlots, Slots
  <2>5. ASSUME NEW q \in ValidSlots(table) PROVE q > iter.at <=> s <= q
    <3>1. ~(q \in iter.at + 1 .. s - 1)
      BY <2>3
    <3>2. q \in Int /\ s \in Int /\ iter.at \in Int /\ s >= iter.at + 1
      BY <1>1, <2>1, <2>3, <2>4
    <3> QED
      BY <3>1, <3>2
  <2> HIDE DEF s
  <2>6. CASE s = table.capacity
    <3>1. LeavesLoop
      BY <1>3, <2>1, <2>6 DEF NextPair
    <3>2. LoopOK'
      BY <1>1, <3>1, NoLoopLeft DEF LeavesLoop
    <3>3. TablesOK' /\ MapOf(table)' = MapOf(table)
      BY <1>1, <3>1, SameTables DEF LeavesLoop
    <3> QED
      BY <3>1, <3>2, <3>3 DEF LeavesLoop, MapStep
  <2>7. CASE s # table.capacity
    <3>1. Visit(s) /\ UNCHANGED <<table, phase, rehash>> /\ s \in ValidSlots(table)
      BY <1>3, <2>1, <2>3, <2>7 DEF NextPair
    <3>2. LoopOK'
      BY <1>1, <2>1, <2>5, <3>1, LoopAfterVisit
    <3> QED
      BY <1>1, <3>1, <3>2, VisitStep
  <2> QED
    BY <2>6, <2>7
<1> QED
  BY <1>2, <1>3

(* Steps that leave the tables as they are.                                *)
LEMMA QuietStep ==
  ASSUME IInv,
         \/ SetOnCleared \/ Size \/ Break \/ NextOfFreed \/ UNCHANGED vars
         \/ \E k \in Keys : Get(k)
  PROVE  TablesOK' /\ MapStep /\ LoopOK'
<1>1. TablesOK /\ LoopOK
  BY DEF IInv
<1>2. UNCHANGED <<table, rehash>> /\ phase' \in {phase, "crashed"}
  BY DEF SetOnCleared, Size, Break, NextOfFreed, LeavesLoop, Get, vars, rehash
<1>3. TablesOK' /\ MapOf(table)' = MapOf(table)
  BY <1>1, <1>2, SameTables
<1>4. UNCHANGED loop \/ (iter' = Off /\ due' = {} /\ fresh' = {})
  BY DEF SetOnCleared, Size, Break, NextOfFreed, LeavesLoop, Get, vars, loop
<1>5. LoopOK'
  BY <1>1, <1>2, <1>4, SameLoop, NoLoopLeft
<1>6. CASE \E k \in Keys : Get(k)
  <2>1. PICK k \in Keys : Get(k)
    BY <1>6
  <2>2. ValueIn(table, k) = MapOf(table)[k]
    BY <1>1, Looking DEF TablesOK
  <2> QED
    BY <1>3, <1>5, <2>1, <2>2 DEF Get, MapStep
<1>7. CASE Size
  BY <1>3, <1>5, <1>7 DEF Size, MapStep
<1>8. CASE SetOnCleared \/ Break \/ NextOfFreed \/ UNCHANGED vars
  <2>1. answer' = answer
    BY <1>8 DEF SetOnCleared, Break, NextOfFreed, LeavesLoop, vars
  <2> QED
    BY <1>3, <1>5, <2>1 DEF MapStep
<1> QED
  BY <1>6, <1>7, <1>8

LEMMA NextStep ==
  ASSUME IInv, [Next]_vars
  PROVE  TablesOK' /\ MapStep /\ LoopOK'
<1>1. TablesOK /\ LoopOK /\ Sound(table)
  BY DEF IInv, TablesOK
<1>2. CASE RehashSlot
  <2>1. Sound(newTable') /\ Moving'
    BY <1>1, <1>2, RehashMoves
  <2>2. TablesOK'
    BY <1>1, <1>2, <2>1 DEF RehashSlot, TablesOK
  <2>3. UNCHANGED <<table, loop, answer>>
    BY <1>2 DEF RehashSlot
  <2> QED
    BY <1>1, <2>2, <2>3, SameLoop DEF MapStep
<1>3. CASE EndRehash
  <2>1. /\ Sound(table') /\ table'.capacity # 1 /\ Sound(newTable')
        /\ adding.key \in Keys /\ adding.value \in Values
        /\ MapOf(table') = Assigned(MapOf(table), adding.key, adding.value)
    BY <1>1, <1>3, RehashEnds
  <2>2. TablesOK'
    BY <1>3, <2>1 DEF EndRehash, TablesOK
  <2>3. LoopOK'
    BY <1>1, <1>3, NoLoopLeft DEF EndRehash
  <2> QED
    BY <1>3, <2>1, <2>2, <2>3 DEF EndRehash, MapStep
<1>4. CASE Clear \/ Restart
  <2>1. LoopOK'
    BY <1>1, <1>4, NoLoopLeft DEF Clear, Restart
  <2> QED
    BY <1>1, <1>4, <2>1, ClearStep
<1>5. CASE StartLoop \/ NextPair
  BY <1>5, LoopStep
<1>6. CASE \E k \in Keys : Pop(k)
  BY <1>1, <1>6, PopStep, LoopAfterPop
<1>7. CASE \E k \in Keys, v \in Values : Set(k, v)
  <2>1. PICK k \in Keys, v \in Values : Set(k, v)
    BY <1>7
  <2>2. TablesOK' /\ MapStep
    BY <1>1, <2>1, SetStep
  <2>3. LoopOK'
    <3>1. table.capacity # 0
      BY <1>1, <2>1, TableParts DEF Set, Sound
    <3>2. CASE /\ table' = Put(table, k, v)
               /\ \/ Found(table, k).state = "Valid" /\ UNCHANGED loop
                  \/ Found(table, k).state # "Valid" /\ Appears(k)
      BY <1>1, <3>1, <3>2, LoopAfterPut
    <3>3. CASE Dangles
      BY <1>1, <3>3, NoLoopLeft
    <3>4. CASE UNCHANGED <<table, loop>>
      BY <1>1, <3>4, SameLoop
    <3> QED
      BY <2>1, <3>2, <3>3, <3>4 DEF Set, Resize
  <2> QED
    BY <2>2, <2>3
<1>8. CASE SetOnCleared \/ Size \/ Break \/ NextOfFreed \/ UNCHANGED vars
  BY <1>8, QuietStep
<1>9. CASE \E k \in Keys : Get(k)
  BY <1>9, QuietStep
<1> QED
  BY <1>2, <1>3, <1>4, <1>5, <1>6, <1>7, <1>8, <1>9 DEF Next

-----------------------------------------------------------------------------
(* Names and pairs have their types; index does not leave Nat.             *)
LEMMA InvStep ==
  ASSUME IInv, [Next]_vars
  PROVE  IInv'
<1>1. TablesOK' /\ MapStep /\ LoopOK'
  BY NextStep
<1>2. index' \in Nat
  <2>1. index \in Nat
    BY DEF IInv
  <2>2. index' \in {index, index + 1, 0}
    BY DEF Next, vars, rehash, RehashSlot, EndRehash, SetOnCleared, Size, Clear, Restart,
           StartLoop, NextPair, Break, NextOfFreed, LeavesLoop, Get, Pop, Set, Resize
  <2> QED
    BY <2>1, <2>2
<1>3. adding' \in [key : Keys \cup {Absent}, value : Values \cup {Absent}]
  <2>1. adding \in [key : Keys \cup {Absent}, value : Values \cup {Absent}]
    BY DEF IInv
  <2>2. \/ adding' = adding \/ adding' = [key |-> Absent, value |-> Absent]
        \/ \E k \in Keys, v \in Values : adding' = [key |-> k, value |-> v]
    BY DEF Next, vars, rehash, RehashSlot, EndRehash, SetOnCleared, Size, Clear, Restart,
           StartLoop, NextPair, Break, NextOfFreed, LeavesLoop, Get, Pop, Set, Resize
  <2> QED
    BY <2>1, <2>2
<1>4. answer' \in [of : Keys \cup {"size"}, is : Values \cup {Absent} \cup Nat]
  <2>1. MapOf(table) \in [Keys -> Values \cup {Absent}] /\ table.count \in Nat
    BY MapType, TableParts, TableAssumption DEF IInv, TablesOK, Sound
  <2>2. \/ answer' = answer \/ answer' = [of |-> "size", is |-> table.count]
        \/ \E k \in Keys : answer' = [of |-> k, is |-> MapOf(table)[k]]
    BY <1>1 DEF MapStep
  <2> QED
    BY <2>1, <2>2 DEF IInv
<1> QED
  BY <1>1, <1>2, <1>3, <1>4 DEF IInv

(* Whatever is added, popped, cleared and rehashed, and whenever: no key   *)
(* is in two slots, every key can be reached from its own slot, the        *)
(* counters are right, and a table that is being moved has room.           *)
THEOREM InvariantHolds == Spec => []IInv
<1>1. Init => IInv
  BY InitIInv
<1>2. IInv /\ [Next]_vars => IInv'
  BY InvStep
<1> QED
  BY <1>1, <1>2, PTL DEF Spec

(* All variables keep their types, and no table counts more pairs than     *)
(* used slots.                                                             *)
THEOREM TypeCorrect == Spec => []TypeOK
<1>1. ASSUME IInv PROVE TypeOK
  <2>1. Sound(table) /\ Sound(newTable)
    BY <1>1 DEF IInv, TablesOK
  <2>2. /\ IsTable(table) /\ table.count <= table.used
        /\ IsTable(newTable) /\ newTable.count <= newTable.used
    BY <2>1, CountBelowUsed DEF Sound
  <2> QED
    BY <1>1, <2>2 DEF TypeOK, IInv, TablesOK, LoopOK
<1> QED
  BY <1>1, InvariantHolds, PTL

(* findSlot ends in every table that has slots, and rehash() never starts  *)
(* another rehash.                                                         *)
THEOREM SearchesEnd == Spec => []ProbesEnd
<1>1. ASSUME IInv PROVE ProbesEnd
  <2>1. ASSUME NEW t \in {table, newTable}, t.capacity > 0
        PROVE  \E s \in Slots(t) : t.entries[s].state = "Empty"
    <3>1. Sound(t)
      BY <1>1 DEF IInv, TablesOK
    <3>2. t.capacity # 0
      BY <2>1, <3>1, TableParts DEF Sound
    <3> QED
      BY <3>1, <3>2, EmptySlot DEF Sound
  <2>2. phase = "rehashing" => ~NeedsRoom(newTable)
    BY <1>1, RoomToMove DEF IInv
  <2> QED
    BY <2>1, <2>2 DEF ProbesEnd
<1> QED
  BY <1>1, InvariantHolds, PTL

(* A loop over a table that is neither resized nor cleared in its body     *)
(* visits every pair that stays in the table, and none twice.              *)
THEOREM LoopsVisit == Spec => []LoopsVisitAll
<1>1. ASSUME IInv PROVE LoopsVisitAll
  BY <1>1 DEF IInv, LoopOK, LoopsVisitAll, Ahead
<1> QED
  BY <1>1, InvariantHolds, PTL

(* The keys of the map are those of the valid slots, one slot for each.    *)
LEMMA SizeIsCount ==
  ASSUME NEW t, Sound(t)
  PROVE  t.count = Cardinality({k \in Keys : MapOf(t)[k] # Absent})
<1> DEFINE In == {k \in Keys : MapOf(t)[k] # Absent}
           V == ValidSlots(t)
           f == [s \in V |-> t.entries[s].key]
<1>1. /\ IsTable(t) /\ UniqueKeys(t) /\ t.count = Cardinality(V)
      /\ t.capacity \in Nat /\ t.entries \in [Slots(t) -> Entries]
  BY TableParts, TableAssumption DEF Sound, Counted
<1>2. IsFiniteSet(V)
  BY <1>1, FiniteSlots DEF ValidSlots
<1>3. ASSUME NEW s \in V
      PROVE  /\ t.entries[s].key \in Keys
             /\ MapOf(t)[t.entries[s].key] = t.entries[s].value
             /\ t.entries[s].value # Absent
  <2>1. t.entries[s].key \in Keys /\ t.entries[s].value \in Values
    BY <1>1, EntryFacts DEF ValidSlots
  <2> QED
    BY <1>1, <2>1, Mapping, TableAssumption
<1>4. \A k \in In : \E s \in V : t.entries[s].key = k
  BY <1>1, Mapping
<1>5. f \in [V -> In] /\ \A k \in In : \E s \in V : f[s] = k
  BY <1>3, <1>4
<1>6. \A r, s \in V : f[r] = f[s] => r = s
  BY <1>1 DEF UniqueKeys
<1>7. f \in Bijection(V, In)
  BY <1>5, <1>6 DEF Bijection, Injection, IsInjective, Surjection
<1>8. Cardinality(In) = Cardinality(V)
  BY <1>2, <1>7, FS_Bijection DEF ExistsBijection
<1> QED
  BY <1>1, <1>8

(* Whatever the slots, hashes and tombstones: what scripts see of a table  *)
(* is a partial map, and every search, pop and count answers what the map  *)
(* says.                                                                   *)
THEOREM TableIsMap == Spec => ImplementsMap
<1>1. ASSUME Init PROVE Map!Init
  <2>1. DefaultSize \in 0 .. MaxCapacity /\ table = NewTable(DefaultSize)
    BY <1>1, TableAssumption DEF Init, DefaultSize
  <2>2. MapOf(table) = [k \in Keys |-> Absent]
    BY <2>1, NewTables
  <2> QED
    BY <1>1, <2>2 DEF Init, Map!Init, Map!Nothing
<1>2. ASSUME IInv, [Next]_vars PROVE [Map!Next]_(Map!vars)
  <2>1. MapStep /\ Sound(table)
    BY <1>2, NextStep DEF IInv, TablesOK
  <2>2. CASE UNCHANGED <<MapOf(table), answer>>
    BY <2>2 DEF Map!vars
  <2>3. CASE MapOf(table)' = [k \in Keys |-> Absent] /\ UNCHANGED answer
    BY <2>3 DEF Map!Next, Map!Clear, Map!Nothing
  <2>4. CASE answer' = [of |-> "size", is |-> table.count] /\ UNCHANGED MapOf(table)
    <3>1. table.count = Cardinality(Map!InTable)
      BY <2>1, SizeIsCount DEF Map!InTable
    <3>2. Map!Cardinality(Map!InTable) = Cardinality(Map!InTable)
      BY DEF Map!Cardinality, Cardinality
    <3> QED
      BY <2>4, <3>1, <3>2 DEF Map!Next, Map!Size
  <2>5. CASE \E k \in Keys : /\ answer' = [of |-> k, is |-> MapOf(table)[k]]
                             /\ UNCHANGED MapOf(table)
    BY <2>5 DEF Map!Next, Map!Get
  <2>6. CASE \E k \in Keys : /\ answer' = [of |-> k, is |-> MapOf(table)[k]]
                             /\ MapOf(table)' = Assigned(MapOf(table), k, Absent)
    BY <2>6 DEF Map!Next, Map!Pop, Assigned
  <2>7. CASE \E k \in Keys, v \in Values :
                MapOf(table)' = Assigned(MapOf(table), k, v) /\ UNCHANGED answer
    BY <2>7 DEF Map!Next, Map!Set, Assigned
  <2> QED
    BY <2>1, <2>2, <2>3, <2>4, <2>5, <2>6, <2>7 DEF MapStep
<1>3. Init /\ []IInv /\ [][Next]_vars => Map!Spec
  BY <1>1, <1>2, PTL DEF Map!Spec
<1> QED
  BY <1>3, InvariantHolds, PTL DEF Spec, ImplementsMap
=============================================================================
