------------------------------ MODULE MapIndex ------------------------------
(***************************************************************************)
(* The runtime's map object (src/runtime/src/map.rs) under the map natives *)
(* (natives.rs): a vector of entries, the hash of each key, and from       *)
(* HASH_THRESHOLD entries on an open-addressing table of entry positions.  *)
(*                                                                         *)
(* A program names its keys by key objects; two objects may hold equal     *)
(* values.  A value is a number with a sign (a double has a zero of each), *)
(* a NaN, which is a double equal to none, or a list of numbers;           *)
(* hash_value and values_eq treat the other kinds like these.  A number is *)
(* the key itself, a list is held by a handle.  FNV's 64-bit mixing        *)
(* becomes mixing modulo HashSize, so that collisions are frequent.        *)
(* Positions count from 1, EMPTY is 0.                                     *)
(***************************************************************************)
EXTENDS Integers, Sequences, FiniteSetsExt

CONSTANTS
  HASH_THRESHOLD,  \* entries from which a map has an index (16 in the code)
  INDEX_FLOOR,     \* the smallest index (32 in the code)
  PowersOfTwo,     \* bound: the powers of two a capacity may be
  HashSize,        \* bound: how many hashes there are
  KeyObjs,         \* the key objects of the program
  Contents,        \* what each may hold at first: key object -> a value
  Writes,          \* values a program may write into a key object later
  FrozenKeys,      \* may it leave a key object alone while the map holds it?
  MaxEntries,      \* bound: entries of the map
  Vals,            \* the values it stores in the map
  None, Done       \* results: Option.None, and Unit

\* A NaN has a payload and a sign, like any double.
Number == [kind : {"int", "double", "nan"}, num : Int, neg : BOOLEAN]
KeyValue == Number \cup [kind : {"list"}, items : Seq(Number)]

ASSUME MapAssumption ==
  /\ HASH_THRESHOLD \in Nat \ {0} /\ INDEX_FLOOR \in Nat \ {0} /\ HashSize \in Nat \ {0}
  /\ Contents \in [KeyObjs -> KeyValue] /\ Writes \subseteq KeyValue
  /\ MaxEntries \in Nat /\ FrozenKeys \subseteq BOOLEAN
  /\ PowersOfTwo \subseteq Nat /\ \E c \in PowersOfTwo : c >= 2 * MaxEntries /\ c >= INDEX_FLOOR

EMPTY == 0

VARIABLES
  frozen,   \* this program leaves a key object alone while the map holds it
  obj,      \* the value each key object holds
  entries,  \* MapObj.entries
  hashes,   \* MapObj.hashes
  index,    \* MapObj.index: slots 0 .. capacity - 1; the empty sequence: none
  ret       \* what the last native returned

mapVars == <<entries, hashes, index>>
vars == <<frozen, obj, mapVars, ret>>

Init == /\ frozen \in FrozenKeys /\ obj = Contents
        /\ entries = <<>> /\ hashes = <<>> /\ index = <<>> /\ ret = Done

-----------------------------------------------------------------------------
(* Values: equality and hashing.                                           *)

\* Under == a double's two zeros are one, and a NaN is not even itself.
NumEq(a, b) ==
  /\ a.kind = b.kind /\ a.kind # "nan"
  /\ a.num = b.num /\ (a.num # 0 => a.neg = b.neg)

\* Equality of contents: of numbers, or of lists item by item.
ObjEq(a, b) ==
  IF a.kind # "list" \/ b.kind # "list" THEN a.kind = b.kind /\ NumEq(a, b)
  ELSE /\ Len(a.items) = Len(b.items)
       /\ \A i \in DOMAIN a.items : NumEq(a.items[i], b.items[i])

\* values_eq: a handle equals itself, whatever it leads to (a list that holds a
\* NaN is a key its own object finds, and no other).
ValuesEq(a, b) ==
  \/ a.ref = b.ref /\ a.value.kind = "list"
  \/ ObjEq(a.value, b.value)

\* Key object k as a Value, when the objects hold o.
Held(o, k) == [ref |-> k, value |-> o[k]]
SameKey(o, j, k) == ValuesEq(Held(o, j), Held(o, k))

MixNum_SignedZero(n) == <<IF n.kind = "int" THEN 1 ELSE 2, n.num, IF n.neg THEN 1 ELSE 0>>

\* The bytes hash_into mixes in for a number: a tag, and bits that are the
\* same for both zeros.
MixNum(n) ==
  <<IF n.kind = "int" THEN 1 ELSE 2, n.num, IF n.neg /\ n.num # 0 THEN 1 ELSE 0>>

MixByte(h, b) == ((h + b) * 3) % HashSize
MixAll(h, mix) == MixByte(MixByte(MixByte(h, mix[1]), mix[2]), mix[3])

\* hash_obj: a list's tag, and then its items one by one.
HashItems(mixes) ==
  LET hash[n \in 0 .. Len(mixes)] ==
        IF n = 0 THEN MixByte(0, 7) ELSE MixAll(hash[n - 1], mixes[n])
  IN hash[Len(mixes)]

HashValue(v) ==
  IF v.kind = "list" THEN HashItems([i \in DOMAIN v.items |-> MixNum(v.items[i])])
  ELSE MixAll(0, MixNum(v))

-----------------------------------------------------------------------------
(* The index.                                                              *)

Capacity == Len(index)
SlotAt(hash, d, cap) == (hash + d) % cap

IsEntry(i, k, hash) == hashes[i] = hash /\ SameKey(obj, entries[i].key, k)

\* Where probing for k stops: at its entry, or at an empty slot.
Stops(d, k, hash) ==
  LET at == index[SlotAt(hash, d, Capacity) + 1] IN at = EMPTY \/ IsEntry(at, k, hash)

\* find above the threshold: linear probing from the hash's slot.
Probe(k, hash) ==
  LET ends == {d \in 0 .. (Capacity - 1) : Stops(d, k, hash)}
  IN index[SlotAt(hash, Min(ends), Capacity) + 1]

\* find: the entry of k, or EMPTY.
Find(k, hash) ==
  IF index = <<>>
  THEN LET found == {i \in DOMAIN entries : IsEntry(i, k, hash)}
       IN IF found = {} THEN EMPTY ELSE Min(found)
  ELSE Probe(k, hash)

IndexInsert(table, i, hash) ==
  LET open == {d \in 0 .. (Len(table) - 1) : table[SlotAt(hash, d, Len(table)) + 1] = EMPTY}
  IN [table EXCEPT ![SlotAt(hash, Min(open), Len(table)) + 1] = i]

\* index_capacity_for: the least power of two that is 2n or more, and the floor.
IndexCapacityFor(n) == Min({c \in PowersOfTwo : c >= 2 * n /\ c >= INDEX_FLOOR})

RebuildIndex(hs) ==
  LET built[n \in 0 .. Len(hs)] ==
        IF n = 0 THEN [s \in 1 .. IndexCapacityFor(Len(hs)) |-> EMPTY]
        ELSE IndexInsert(built[n - 1], n, hs[n])
  IN built[Len(hs)]

LoadExceeded_Full(n) == n > Capacity

\* load_exceeded, with n entries.
LoadExceeded(n) == n * 4 >= Capacity * 3

-----------------------------------------------------------------------------
(* The map natives; each hashes its key first.                             *)

NativeMapGet ==
  /\ \E k \in KeyObjs :
       LET at == Find(k, HashValue(obj[k]))
       IN ret' = IF at = EMPTY THEN None ELSE entries[at].val
  /\ UNCHANGED <<frozen, obj, mapVars>>

\* The index after insert has appended an entry with this hash.
Indexed(hs, hash) ==
  IF index = <<>> THEN IF Len(hs) >= HASH_THRESHOLD THEN RebuildIndex(hs) ELSE index
  ELSE IF LoadExceeded(Len(hs)) THEN RebuildIndex(hs) ELSE IndexInsert(index, Len(hs), hash)

NativeMapSet ==
  /\ \E k \in KeyObjs, v \in Vals :
       LET hash == HashValue(obj[k])
           at == Find(k, hash)
           hs == Append(hashes, hash)
       IN IF at # EMPTY
          THEN entries' = [entries EXCEPT ![at].val = v] /\ UNCHANGED <<hashes, index>>
          ELSE /\ Len(entries) < MaxEntries
               /\ entries' = Append(entries, [key |-> k, val |-> v])
               /\ hashes' = hs
               /\ index' = Indexed(hs, hash)
  /\ ret' = Done /\ UNCHANGED <<frozen, obj>>

Reindexed_Truncated(hs) ==
  [s \in DOMAIN index |-> IF index[s] > Len(hs) THEN EMPTY ELSE index[s]]

\* The index after a removal has shifted the later entries.
Reindexed(hs) == IF index = <<>> THEN index ELSE RebuildIndex(hs)

\* Vec::remove
Removed(s, at) == [i \in 1 .. (Len(s) - 1) |-> IF i < at THEN s[i] ELSE s[i + 1]]

NativeMapRemove ==
  /\ \E k \in KeyObjs :
       LET at == Find(k, HashValue(obj[k]))
       IN IF at = EMPTY THEN ret' = None /\ UNCHANGED mapVars
          ELSE /\ ret' = entries[at].val
               /\ entries' = Removed(entries, at)
               /\ hashes' = Removed(hashes, at)
               /\ index' = Reindexed(hashes')
  /\ UNCHANGED <<frozen, obj>>

NativeMapClear ==
  /\ entries' = <<>> /\ hashes' = <<>> /\ index' = <<>> /\ ret' = Done
  /\ UNCHANGED <<frozen, obj>>

\* The program writes into an object it uses as a key (a list it pushes to).
WriteKey ==
  /\ \E k \in KeyObjs, v \in Writes :
       /\ obj[k].kind = "list"
       /\ frozen => \A i \in DOMAIN entries : entries[i].key # k
       /\ obj' = [obj EXCEPT ![k] = v]
  /\ UNCHANGED <<frozen, mapVars, ret>>

Next == NativeMapGet \/ NativeMapSet \/ NativeMapRemove \/ NativeMapClear \/ WriteKey

Spec == Init /\ [][Next]_vars

-----------------------------------------------------------------------------
(* Properties.                                                             *)

\* Entries, hashes and index keep their shape, and an index has a capacity that
\* index_capacity_for gives: a power of two, at least the floor.
TypeOK ==
  /\ obj \in [KeyObjs -> Range(Contents) \cup Writes]
  /\ entries \in Seq([key : KeyObjs, val : Vals])
  /\ hashes \in [DOMAIN entries -> 0 .. (HashSize - 1)]
  /\ index \in Seq(0 .. Len(entries))
  /\ index # <<>> => Capacity \in PowersOfTwo /\ Capacity >= INDEX_FLOOR
  /\ ret \in Vals \cup {None, Done}

\* The index is exactly a way to every entry: each position occurs once, and
\* no empty slot lies between the slot of its hash and its own.  And every probe
\* ends: there is an empty slot, without which find and index_insert would loop
\* for ever on a missing key.
IndexExact ==
  index # <<>> =>
    /\ EMPTY \in Range(index)
    /\ \A i \in DOMAIN entries :
         \E d \in 0 .. (Capacity - 1) :
           /\ \A s \in DOMAIN index : index[s] = i <=> s = SlotAt(hashes[i], d, Capacity) + 1
           /\ \A c \in 0 .. (d - 1) : index[SlotAt(hashes[i], c, Capacity) + 1] # EMPTY

\* A key written to while the map holds it is out of reach, but no other key
\* is: an entry whose stored hash is still its key's is found by a lookup with
\* any object equal to that key, the two zeros and equal lists included.  (A NaN
\* equals nothing, so nothing finds it.  map.rs:39 caches the hashes; a rebuild
\* uses them, and hashes nothing again.)
OthersFound ==
  \A i \in DOMAIN entries, k \in KeyObjs :
    /\ hashes[i] = HashValue(obj[entries[i].key])
    /\ SameKey(obj, entries[i].key, k)
    => Find(k, HashValue(obj[k])) # EMPTY

\* "a hash mismatch proves inequality": a key that differs from an entry's
\* stored hash is not equal to that entry's key.
MismatchProvesInequality ==
  \A i \in DOMAIN entries, k \in KeyObjs :
    hashes[i] # HashValue(obj[k]) => ~SameKey(obj, entries[i].key, k)

\* Whatever the hashes and the table do, the natives behave like a map in
\* insertion order, as long as no key changes while the map holds it.
Shown == [i \in DOMAIN entries |-> [key |-> Held(obj, entries[i].key), val |-> entries[i].val]]
Abstract == INSTANCE OrderedMap WITH
  Keys <- [ref : KeyObjs, value : Range(Contents) \cup Writes], Same <- ValuesEq,
  omap <- IF frozen THEN Shown ELSE <<>>, ret <- IF frozen THEN ret ELSE Done
ImplementsOrderedMap == Abstract!Spec
=============================================================================
