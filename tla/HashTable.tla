----------------------------- MODULE HashTable -----------------------------
(***************************************************************************)
(* ulib/libc/stdlib/hashtable.c: open addressing with linear probing, the  *)
(* table doubled when half full.  FNV-1a is any function Hash of the keys; *)
(* calloc and strdup may fail.  "content" is the map a caller has built.   *)
(***************************************************************************)
EXTENDS Integers, FiniteSets, TLC

CONSTANTS HashKeys, Values,
          Hash,               \* [HashKeys -> Nat]
          INITIAL_CAPACITY,
          MaxCapacity         \* calloc fails beyond it

VARIABLES entries,    \* slot -> <<key, value>>, or Empty
          capacity, length, content

vars == <<entries, capacity, length, content>>

Empty == <<>>

ht_create ==
    /\ capacity = INITIAL_CAPACITY /\ length = 0
    /\ entries = [i \in 0 .. INITIAL_CAPACITY - 1 |-> Empty]
    /\ content = <<>>

(* The slot where the search for a key ends: the key's, or an empty one. *)
RECURSIVE Probe(_, _, _, _)
Probe(es, cap, key, index) ==
    IF es[index] = Empty \/ es[index][1] = key THEN index
    ELSE Probe(es, cap, key, IF index + 1 >= cap THEN 0 ELSE index + 1)

Slot(es, cap, key) == Probe(es, cap, key, Hash[key] % cap)

ht_get(key) ==
    LET i == Slot(entries, capacity, key)
    IN  IF entries[i] = Empty THEN "NULL" ELSE entries[i][2]

ht_set_entry(es, cap, key, value) == [es EXCEPT ![Slot(es, cap, key)] = <<key, value>>]

(* ht_expand moves the entries in the order of the old slots. *)
RECURSIVE Moved(_, _, _)
Moved(new, cap, i) ==
    IF i = capacity THEN new
    ELSE Moved(IF entries[i] = Empty THEN new
               ELSE ht_set_entry(new, cap, entries[i][1], entries[i][2]), cap, i + 1)

ht_expand == Moved([i \in 0 .. 2 * capacity - 1 |-> Empty], 2 * capacity, 0)

Insert(es, cap, key, value) ==
    /\ entries' = ht_set_entry(es, cap, key, value)
    /\ capacity' = cap
    /\ length' = IF es[Slot(es, cap, key)] = Empty THEN length + 1 ELSE length
    /\ content' = (key :> value) @@ content

Crowded == length >= capacity \div 2

ht_set(key, value) ==
    \/ ~Crowded /\ Insert(entries, capacity, key, value)
    \/ /\ Crowded /\ 2 * capacity <= MaxCapacity
       /\ Insert(ht_expand, 2 * capacity, key, value)
    \/ /\ Crowded                              \* out of memory: NULL, nothing changed
       /\ UNCHANGED vars

(* ht_iterator, ht_next: the occupied slots in order. *)
RECURSIVE ht_next(_)
ht_next(i) ==
    IF i >= capacity THEN {}
    ELSE IF entries[i] # Empty THEN {i} \cup ht_next(i + 1) ELSE ht_next(i + 1)

Init == ht_create

Next == \E k \in HashKeys, v \in Values : ht_set(k, v)

(* The table answers every key as the map does, also the absent ones. *)
IsMap == \A k \in HashKeys : ht_get(k) = IF k \in DOMAIN content THEN content[k] ELSE "NULL"

(* A search always meets an empty slot, and the iterator meets every key   *)
(* once; "length" is their number.                                         *)
RoomToProbe ==
    /\ \E i \in DOMAIN entries : entries[i] = Empty
    /\ length = Cardinality(ht_next(0))
    /\ length = Cardinality({entries[i][1] : i \in ht_next(0)})
=============================================================================
