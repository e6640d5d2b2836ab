------------------------------ MODULE MapTable ------------------------------
(* The table of a map (runtime/src/map_table.rs): pairs in the order of      *)
(* insertion and, from Small of them on, an index by open addressing, whose  *)
(* slots hold the hash of a key and the index of its pair.  While all keys   *)
(* are texts of integers they are stored as raw integers; the first other    *)
(* key turns them into strings.  A key is the same whether it is given as an *)
(* integer or as its text, and has the same hash (map_hash.rs).              *)
EXTENDS Naturals, Sequences, FiniteSets, SequencesExt

CONSTANTS IntKeys,     \* keys whose text is that of an int
          TextKeys,    \* all others
          ValuesOf,    \* key -> the values that the program puts under it
          SharedKeys,  \* keys that the program also gives as a string to share
          Hashes,      \* the functions from keys to hashes (the seed picks one)
          TextOrder,   \* the keys, sorted by their text
          Small,       \* SMALL
          MinSlots,    \* MIN_SLOTS
          Step,        \* STEP
          None         \* no value, no pair

Keys == IntKeys \cup TextKeys

ASSUME SizesAssumption ==
  /\ Small \in Nat \ {0} /\ MinSlots \in {2, 4, 8} /\ Step % 2 = 1
  /\ IntKeys \cap TextKeys = {} /\ SharedKeys \subseteq Keys
  /\ ToSet(TextOrder) = Keys

VARIABLES
  entries,   \* the pairs: key, how it is stored (raw, fresh or shared), value
  slots,     \* 0..size-1 -> a slot; no slots for a small table
  textKeys,  \* text_keys
  hash,      \* the hash of each key, for the seed of this table
  strings,   \* key -> references to strings of its text that the table took
  answer     \* what insert or remove gave back

vars == <<entries, slots, textKeys, hash, strings, answer>>

Empty == [hash |-> 0, index |-> 0]
NoSlots == <<>>

Init ==
  /\ entries = <<>> /\ slots = NoSlots /\ textKeys = FALSE
  /\ hash \in Hashes
  /\ strings = [k \in Keys |-> 0]
  /\ answer = None

-----------------------------------------------------------------------------
(* The index.  An index of pairs is 1 + that of the code.                  *)

Size(sl) == Cardinality(DOMAIN sl)
Clean(n) == [p \in 0..(n - 1) |-> Empty]

\* The slot that the i-th turn of a probe looks at.
Pos(n, h, i) == (h + i * Step) % n

\* The first slot of a probe from h that ends it.
Probe(sl, h, Ends(_)) ==
  LET n == Size(sl)
      i == CHOOSE i \in 0..(n - 1) : /\ Ends(sl[Pos(n, h, i)])
                                     /\ \A j \in 0..(i - 1) : ~Ends(sl[Pos(n, h, j)])
  IN Pos(n, h, i)

FreeSlot(sl, h) == Probe(sl, h, LAMBDA s : s = Empty)

\* The slot of key k, or the empty one in which to insert it.
Find(k) ==
  Probe(slots, hash[k], LAMBDA s : s = Empty \/ (s.hash = hash[k] /\ entries[s.index].key = k))

Enter(sl, s) == [sl EXCEPT ![FreeSlot(sl, s.hash)] = s]

\* The smallest power of two that is at least n.
PowerOfTwo(n) == CHOOSE p \in {2 ^ i : i \in 0..n} : p >= n /\ p < 2 * n

\* build_index, over the pairs es.
BuildIndex(es) ==
  LET wanted == PowerOfTwo(2 * (Len(es) + 1))
      n == IF wanted < MinSlots THEN MinSlots ELSE wanted
  IN FoldLeft(Enter, Clean(n), [i \in 1..Len(es) |-> [hash |-> hash[es[i].key], index |-> i]])

\* grow: twice as many slots, the old ones read in order.
Grow(sl) ==
  LET n == Size(sl)
      old == SelectSeq([p \in 1..n |-> sl[p - 1]], LAMBDA s : s # Empty)
  IN FoldLeft(Enter, Clean(2 * n), old)

\* Turns of a probe from slot `from` to slot `to`.
Steps(n, from, to) ==
  LET inverse == CHOOSE x \in 0..(n - 1) : (x * Step) % n = 1 % n
  IN ((to + n - from) * inverse) % n

\* Fault: the hole is filled without the test of the home slot.
Fault_ClearSlot_Blind(sl, p) ==
  LET n == Size(sl)
      turn[i \in 0..n] ==
        IF i = 0 THEN [slots |-> sl, hole |-> p, over |-> FALSE] ELSE
        LET s == turn[i - 1]
            pos == Pos(n, p, i)
        IN IF s.over \/ s.slots[pos] = Empty THEN [s EXCEPT !.over = TRUE]
           ELSE [s EXCEPT !.slots[s.hole] = s.slots[pos], !.hole = pos]
  IN [turn[n].slots EXCEPT ![turn[n].hole] = Empty]

\* clear_slot: the slots that follow p in probes move up into the hole when
\* their own probe passes it.
ClearSlot(sl, p) ==
  LET n == Size(sl)
      turn[i \in 0..n] ==
        IF i = 0 THEN [slots |-> sl, hole |-> p, over |-> FALSE] ELSE
        LET s == turn[i - 1]
            pos == Pos(n, p, i)
            home == s.slots[pos].hash % n
        IN IF s.over \/ s.slots[pos] = Empty THEN [s EXCEPT !.over = TRUE]
           ELSE IF Steps(n, home, pos) >= Steps(n, s.hole, pos)
           THEN [s EXCEPT !.slots[s.hole] = s.slots[pos], !.hole = pos]
           ELSE s
  IN [turn[n].slots EXCEPT ![turn[n].hole] = Empty]

-----------------------------------------------------------------------------
(* Readings                                                                *)

\* normalize gives no key: a text that no int has, in a table of raw integers.
Absent(k) == ~textKeys /\ k \in TextKeys

\* position: the index of the pair of k, or None.
Position(k) ==
  IF entries = <<>> \/ Absent(k) THEN None
  ELSE IF slots = NoSlots
       THEN LET found == {i \in 1..Len(entries) : entries[i].key = k} IN
            IF found = {} THEN None ELSE CHOOSE i \in found : \A j \in found : i <= j
       ELSE LET s == slots[Find(k)] IN IF s = Empty THEN None ELSE s.index

\* get
Get(k) == IF Position(k) = None THEN None ELSE entries[Position(k)].value

\* value_at: the pair at index i if it still has the key k.
ValueAt(i, k) ==
  IF i \in 1..Len(entries) /\ ~Absent(k) /\ entries[i].key = k
  THEN entries[i].value ELSE Get(k)

-----------------------------------------------------------------------------
(* Operations                                                              *)

\* use_text_keys: each raw key becomes a string of its own.
TextEntries == [i \in 1..Len(entries) |-> [entries[i] EXCEPT !.stored = "fresh"]]
TextStrings == [k \in Keys |-> strings[k] + Cardinality({i \in 1..Len(entries) : entries[i].key = k})]

\* insert(k, v, shared): a key of another kind first changes all of them.
Insert(k, v, shared) ==
  LET turns == Absent(k)
      es == IF turns THEN TextEntries ELSE entries
      text == textKeys \/ turns
      index == IF turns THEN None ELSE Position(k)
      stored == IF ~text THEN "raw" ELSE IF shared THEN "shared" ELSE "fresh"
      sl == IF slots = NoSlots THEN IF Len(es) < Small THEN NoSlots ELSE BuildIndex(es)
            ELSE slots
      room == IF sl # NoSlots /\ 2 * (Len(es) + 1) > Size(sl) THEN Grow(sl) ELSE sl
  IN /\ textKeys' = text
     /\ IF index # None
        THEN /\ entries' = [es EXCEPT ![index].value = v]
             /\ answer' = es[index].value
             /\ UNCHANGED <<slots, strings>>
        ELSE /\ entries' = Append(es, [key |-> k, stored |-> stored, value |-> v])
             /\ slots' = IF sl = NoSlots THEN NoSlots
                         ELSE Enter(room, [hash |-> hash[k], index |-> Len(es) + 1])
             /\ strings' = [(IF turns THEN TextStrings ELSE strings) EXCEPT ![k] =
                              IF text THEN @ + 1 ELSE @]
             /\ answer' = None
     /\ UNCHANGED hash

\* Fault: the last pair takes the place of the one that goes.
Fault_RemoveKey_Swaps(k) ==
  LET index == Position(k) IN
  /\ IF index = None THEN answer' = None /\ UNCHANGED <<entries, slots, strings>>
     ELSE /\ answer' = entries[index].value
          /\ entries' = Front([entries EXCEPT ![index] = Last(entries)])
          /\ strings' = [strings EXCEPT ![k] = IF textKeys THEN @ - 1 ELSE @]
          /\ slots' = IF slots = NoSlots THEN NoSlots
                      ELSE LET sl == ClearSlot(slots, Find(k)) IN
                           [p \in DOMAIN sl |-> IF sl[p].index = Len(entries)
                                                THEN [sl[p] EXCEPT !.index = index] ELSE sl[p]]
  /\ UNCHANGED <<textKeys, hash>>

\* Fault: the first pair that follows keeps its index.
Fault_RemoveKey_OffByOne(k) ==
  LET index == Position(k) IN
  /\ IF index = None THEN answer' = None /\ UNCHANGED <<entries, slots, strings>>
     ELSE /\ answer' = entries[index].value
          /\ entries' = RemoveAt(entries, index)
          /\ strings' = [strings EXCEPT ![k] = IF textKeys THEN @ - 1 ELSE @]
          /\ slots' = IF slots = NoSlots THEN NoSlots
                      ELSE LET sl == ClearSlot(slots, Find(k)) IN
                           [p \in DOMAIN sl |-> IF sl[p].index > index + 1
                                                THEN [sl[p] EXCEPT !.index = @ - 1] ELSE sl[p]]
  /\ UNCHANGED <<textKeys, hash>>

\* remove: the pairs that follow move down, and so do their indices.
RemoveKey(k) ==
  LET index == Position(k) IN
  /\ IF index = None THEN answer' = None /\ UNCHANGED <<entries, slots, strings>>
     ELSE /\ answer' = entries[index].value
          /\ entries' = RemoveAt(entries, index)
          /\ strings' = [strings EXCEPT ![k] = IF textKeys THEN @ - 1 ELSE @]
          /\ slots' = IF slots = NoSlots THEN NoSlots
                      ELSE LET sl == ClearSlot(slots, Find(k)) IN
                           [p \in DOMAIN sl |-> IF sl[p].index > index
                                                THEN [sl[p] EXCEPT !.index = @ - 1] ELSE sl[p]]
  /\ UNCHANGED <<textKeys, hash>>

\* key_at: for a key asked as a string, the table turns to strings.
KeyAt(i, int) ==
  /\ i \in 1..Len(entries)
  /\ IF ~int /\ ~textKeys
     THEN entries' = TextEntries /\ strings' = TextStrings /\ textKeys' = TRUE
     ELSE UNCHANGED <<entries, strings, textKeys>>
  /\ answer' = None
  /\ UNCHANGED <<slots, hash>>

\* sort_by_key_text
SortByKeyText ==
  LET held == SelectSeq(TextOrder, LAMBDA k : Position(k) # None)
      es == [i \in 1..Len(held) |-> entries[Position(held[i])]]
  IN /\ entries' = es
     /\ slots' = IF slots = NoSlots THEN NoSlots ELSE BuildIndex(es)
     /\ answer' = None
     /\ UNCHANGED <<textKeys, hash, strings>>

\* MapTable::drop, and a new table.
Drop ==
  /\ strings' = IF textKeys
                THEN [k \in Keys |-> strings[k] - Cardinality({i \in 1..Len(entries) : entries[i].key = k})]
                ELSE strings
  /\ entries' = <<>> /\ slots' = NoSlots /\ textKeys' = FALSE /\ answer' = None
  /\ UNCHANGED hash

Next ==
  \/ \E k \in Keys : \E v \in ValuesOf[k], shared \in {FALSE, (k \in SharedKeys)} :
       Insert(k, v, shared)
  \/ \E k \in Keys : RemoveKey(k)
  \/ \E i \in 1..Len(entries), int \in BOOLEAN : KeyAt(i, int)
  \/ SortByKeyText \/ Drop

Spec == Init /\ [][Next]_vars

-----------------------------------------------------------------------------
(* Properties                                                              *)

Values == UNION {ValuesOf[k] : k \in Keys}

TypeOK ==
  /\ entries \in Seq([key : Keys, stored : {"raw", "fresh", "shared"}, value : Values])
  /\ slots = NoSlots \/ slots \in [0..(Size(slots) - 1) ->
                                     [hash : Nat, index : 0..Len(entries)]]
  /\ textKeys \in BOOLEAN /\ hash \in Hashes
  /\ strings \in [Keys -> Nat] /\ answer \in Values \cup {None}

\* A key is found where it was put, whatever was inserted, moved up, moved to
\* a larger index or removed since: get, and value_at with the rank at which
\* a loop met the key, agree with the pairs.
LookupExact ==
  \A k \in Keys :
    LET there == {i \in 1..Len(entries) : entries[i].key = k}
        value == IF there = {} THEN None ELSE entries[CHOOSE i \in there : TRUE].value
    IN Get(k) = value /\ \A i \in 1..Cardinality(Keys) : ValueAt(i, k) = value

\* The index names each pair once, under its hash, and is at most half full:
\* a probe ends.
IndexExact ==
  slots # NoSlots =>
    LET full == {p \in DOMAIN slots : slots[p] # Empty} IN
    /\ {slots[p].index : p \in full} = 1..Len(entries)
    /\ Cardinality(full) = Len(entries)
    /\ \A p \in full : slots[p].hash = hash[entries[slots[p].index].key]
    /\ 2 * Len(entries) <= Size(slots)

\* The table holds one reference to a string for each key stored as one, raw
\* integers only while every key is one, and takes none for a key that it has.
StringsExact ==
  /\ \A k \in Keys : strings[k] =
       Cardinality({i \in 1..Len(entries) : entries[i].key = k /\ entries[i].stored # "raw"})
  /\ \A i \in 1..Len(entries) :
       IF textKeys THEN entries[i].stored # "raw"
       ELSE entries[i].stored = "raw" /\ entries[i].key \in IntKeys

\* The parts of a table agree: pairs, index and the strings it refers to.
TableExact == TypeOK /\ IndexExact /\ StringsExact

Abstract == INSTANCE OrderedMap WITH
  pairs <- [i \in 1..Len(entries) |-> [key |-> entries[i].key, value |-> entries[i].value]]

\* The table is the map that a program sees: order of insertion, one pair for
\* each key, and the value that a put or a remove takes out is given back.
KeepsPromise == Abstract!Spec
=============================================================================
