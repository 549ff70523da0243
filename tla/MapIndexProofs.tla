--------------------------- MODULE MapIndexProofs ---------------------------
(***************************************************************************)
(* Proofs about MapIndex: for every set of keys, every number of hashes    *)
(* and every sequence of map natives, the index is exact and the natives   *)
(* behave like an ordered map.                                             *)
(***************************************************************************)
EXTENDS MapIndex, FiniteSetTheorems, TLAPS

\* A set of naturals has a least element: the induction of this module.
LEMMA LeastExists ==
  ASSUME NEW T \in SUBSET Nat, T # {}
  PROVE  \E x \in T : \A y \in T : x <= y
<1>1. PICK x \in T : \A y \in T : <<y, x>> \notin OpToRel(<, Nat)
  BY NatLessThanWellFounded, WFMin, Zenon
<1>2. ASSUME NEW y \in T PROVE x <= y
  <2>1. ~(y < x)
    <3>1. <<y, x>> \in Nat \X Nat /\ <<y, x>>[1] = y /\ <<y, x>>[2] = x OBVIOUS
    <3>2. y < x => <<y, x>> \in {p \in Nat \X Nat : p[1] < p[2]} BY <3>1
    <3> QED BY <1>1, <3>2 DEF OpToRel
  <2>2. x \in Nat /\ y \in Nat OBVIOUS
  <2> QED BY <2>1, <2>2
<1> QED BY <1>2

\* What Min computes.
LEMMA MinIsLeast ==
  ASSUME NEW T \in SUBSET Nat, T # {}
  PROVE  Min(T) \in T /\ \A y \in T : Min(T) <= y
BY LeastExists, Zenon DEF Min

\* Sequences as functions.
LEMMA SeqElement ==
  ASSUME NEW S, NEW s \in Seq(S), NEW i \in DOMAIN s
  PROVE  s[i] \in S
OBVIOUS

\* A sequence is a function from its positions.
LEMMA SeqIsFcn ==
  ASSUME NEW S, NEW s \in Seq(S)
  PROVE  s \in [1 .. Len(s) -> S]
OBVIOUS

\* What Append leaves where it was, and what it puts at the end.
LEMMA AppendElements ==
  ASSUME NEW S, NEW s \in Seq(S), NEW e \in S
  PROVE  /\ Append(s, e)[Len(s) + 1] = e
         /\ \A i \in 1 .. Len(s) : Append(s, e)[i] = s[i]
         /\ Append(s, e) \in [1 .. (Len(s) + 1) -> S]
<1>1. Append(s, e) \in Seq(S) /\ Len(Append(s, e)) = Len(s) + 1 OBVIOUS
<1>2. Append(s, e) \in [1 .. (Len(s) + 1) -> S] BY <1>1, SeqIsFcn
<1>3. Append(s, e)[Len(s) + 1] = e /\ \A i \in 1 .. Len(s) : Append(s, e)[i] = s[i]
  OBVIOUS
<1> QED BY <1>2, <1>3, Zenon

\* A function from 1 .. n is a sequence of length n.
LEMMA FcnIsSeq ==
  ASSUME NEW S, NEW n \in Nat, NEW f \in [1 .. n -> S]
  PROVE  f \in Seq(S) /\ Len(f) = n
OBVIOUS

\* f is what the recursion with this base and step computes up to N.
Solves(f, N, base, step) == f[0] = base /\ \A n \in 1 .. N : f[n] = step[<<n, f[n - 1]>>]

\* A recursion over 0 .. N whose step stays inside S has a solution.
LEMMA Recursion ==
  ASSUME NEW N \in Nat, NEW S, NEW base \in S, NEW step \in [(1 .. N) \X S -> S]
  PROVE  \E f \in [0 .. N -> S] : Solves(f, N, base, step)
<1> USE DEF Solves
<1> DEFINE Bad == {m \in 0 .. N : \A f \in [0 .. m -> S] : ~Solves(f, m, base, step)}
<1>1. SUFFICES ASSUME Bad # {} PROVE FALSE
  <2>1. N \notin Bad BY <1>1
  <2> QED BY <2>1
<1>2. PICK m \in Bad : \A y \in Bad : m <= y
  <2>1. Bad \in SUBSET Nat OBVIOUS
  <2> HIDE DEF Bad
  <2> QED BY <1>1, <2>1, LeastExists
<1>3. m # 0
  <2>1. [i \in 0 .. 0 |-> base] \in [0 .. 0 -> S] OBVIOUS
  <2>2. Solves([i \in 0 .. 0 |-> base], 0, base, step) OBVIOUS
  <2> QED BY <2>1, <2>2
<1>4. m - 1 \in 0 .. N /\ m \in 1 .. N /\ m - 1 \notin Bad
  BY <1>2, <1>3
<1>5. PICK f \in [0 .. (m - 1) -> S] : Solves(f, m - 1, base, step)
  BY <1>4
<1> DEFINE g == [i \in 0 .. m |-> IF i = m THEN step[<<m, f[m - 1]>>] ELSE f[i]]
<1>6. f[m - 1] \in S /\ step[<<m, f[m - 1]>>] \in S
  BY <1>4
<1>7. g \in [0 .. m -> S]
  <2>1. ASSUME NEW i \in 0 .. m PROVE (IF i = m THEN step[<<m, f[m - 1]>>] ELSE f[i]) \in S
    BY <1>6, <1>4
  <2> QED BY <2>1, Zenon
<1>8. g[0] = base
  BY <1>5, <1>4
<1>9. ASSUME NEW n \in 1 .. m PROVE g[n] = step[<<n, g[n - 1]>>]
  <2>1. g[n - 1] = f[n - 1]
    BY <1>4
  <2>2. CASE n = m
    BY <2>1, <2>2
  <2>3. CASE n # m
    <3>1. n \in 1 .. (m - 1) /\ g[n] = f[n]
      BY <2>3, <1>4
    <3> QED BY <3>1, <2>1, <1>5
  <2> QED BY <2>2, <2>3
<1> QED BY <1>7, <1>8, <1>9, <1>2

-----------------------------------------------------------------------------
(* Hashing.                                                                *)

\* What one step of the hash makes is a hash.
LEMMA MixByteType ==
  ASSUME NEW h \in Int, NEW b \in Int
  PROVE  MixByte(h, b) \in 0 .. (HashSize - 1)
BY MapAssumption DEF MixByte

\* What mixing in a whole number makes is a hash.
LEMMA MixAllType ==
  ASSUME NEW h \in Int, NEW m \in Int \X Int \X Int
  PROVE  MixAll(h, m) \in 0 .. (HashSize - 1)
<1> DEFINE a == MixByte(h, m[1])
           b == MixByte(a, m[2])
<1>0. m[1] \in Int /\ m[2] \in Int /\ m[3] \in Int OBVIOUS
<1>1. a \in Int BY <1>0, MixByteType, MapAssumption
<1>2. b \in Int
  <2> HIDE DEF a
  <2> QED BY <1>0, <1>1, MixByteType, MapAssumption
<1>3. MixByte(b, m[3]) \in 0 .. (HashSize - 1)
  <2> HIDE DEF b
  <2> QED BY <1>0, <1>2, MixByteType
<1> QED BY <1>3 DEF MixAll

\* hash_into mixes three numbers in: a tag, the number and its sign.
LEMMA MixNumType ==
  ASSUME NEW n \in Number
  PROVE  MixNum(n) \in Int \X Int \X Int
BY DEF Number, MixNum

\* The partial hashes of a list, one per item.
HashFcn(mixes) ==
  CHOOSE hash : hash = [n \in 0 .. Len(mixes) |->
                          IF n = 0 THEN MixByte(0, 7) ELSE MixAll(hash[n - 1], mixes[n])]

\* The hash of a list is a hash (hash_obj).
LEMMA HashItemsType ==
  ASSUME NEW mixes \in Seq(Int \X Int \X Int)
  PROVE  HashItems(mixes) \in 0 .. (HashSize - 1)
<1> DEFINE N == Len(mixes)
           S == 0 .. (HashSize - 1)
           base == MixByte(0, 7)
           step == [p \in (1 .. N) \X S |-> MixAll(p[2], mixes[p[1]])]
<1>1. N \in Nat /\ base \in S
  <2>1. 0 \in Int /\ 7 \in Int OBVIOUS
  <2>2. base \in S BY <2>1, MixByteType, Zenon
  <2> QED BY <2>2
<1>2. ASSUME NEW n \in 1 .. N, NEW h \in S PROVE MixAll(h, mixes[n]) \in S
  BY MixAllType, MapAssumption
<1>3. step \in [(1 .. N) \X S -> S]
  BY <1>2
<1>4. \A n \in 1 .. N, h \in S : step[<<n, h>>] = MixAll(h, mixes[n])
  OBVIOUS
<1>5. PICK f \in [0 .. N -> S] : f[0] = base /\ \A n \in 1 .. N : f[n] = step[<<n, f[n - 1]>>]
  <2> HIDE DEF N, S, base, step
  <2>1. \E f \in [0 .. N -> S] : Solves(f, N, base, step)
    BY <1>1, <1>3, Recursion
  <2> QED BY <2>1 DEF Solves
<1>6. ASSUME NEW n \in 1 .. N PROVE f[n] = MixAll(f[n - 1], mixes[n])
  <2>1. f[n - 1] \in S /\ f[n] = step[<<n, f[n - 1]>>]
    <3>1. n - 1 \in 0 .. N BY <1>1
    <3> HIDE DEF S, step, N
    <3> QED BY <3>1, <1>5, Zenon
  <2> HIDE DEF S, step
  <2> QED BY <2>1, <1>4
<1>7. f = [n \in 0 .. N |-> IF n = 0 THEN MixByte(0, 7) ELSE MixAll(f[n - 1], mixes[n])]
  <2>1. ASSUME NEW n \in 0 .. N
        PROVE  f[n] = IF n = 0 THEN MixByte(0, 7) ELSE MixAll(f[n - 1], mixes[n])
    BY <1>5, <1>6, <1>1
  <2> QED BY <2>1
<1> DEFINE g == HashFcn(mixes)
<1>8. g = [n \in 0 .. N |-> IF n = 0 THEN MixByte(0, 7) ELSE MixAll(g[n - 1], mixes[n])]
  BY <1>7, Zenon DEF HashFcn
<1>9. HashItems(mixes) = g[N]
  BY Zenon DEF HashItems, HashFcn
<1> DEFINE Bad == {n \in 0 .. N : g[n] \notin S}
<1>10. Bad = {}
  <2>1. SUFFICES ASSUME Bad # {} PROVE FALSE OBVIOUS
  <2>2. PICK n \in Bad : \A y \in Bad : n <= y
    <3>1. Bad \in SUBSET Nat BY <1>1
    <3> HIDE DEF Bad
    <3> QED BY <2>1, <3>1, LeastExists
  <2>3. n # 0
    <3>1. g[0] = base BY <1>8, <1>1
    <3> QED BY <3>1, <1>1
  <2>4. n \in 1 .. N /\ n - 1 \in 0 .. N /\ g[n - 1] \in S
    BY <2>2, <2>3, <1>1
  <2>5. g[n] = MixAll(g[n - 1], mixes[n])
    <3>1. n \in 0 .. N /\ n # 0 BY <2>4
    <3> DEFINE G(i) == IF i = 0 THEN MixByte(0, 7) ELSE MixAll(g[i - 1], mixes[i])
    <3>2. g[n] = [i \in 0 .. N |-> G(i)][n] BY <1>8, Zenon
    <3>3. [i \in 0 .. N |-> G(i)][n] = G(n)
      <4> HIDE DEF G
      <4> QED BY <3>1, Zenon
    <3>4. G(n) = MixAll(g[n - 1], mixes[n]) BY <3>1, Zenon
    <3> QED BY <3>2, <3>3, <3>4, Zenon
  <2> QED BY <2>4, <2>5, <1>2
<1>11. N \in 0 .. N BY <1>1
<1> HIDE DEF g, N
<1> QED BY <1>9, <1>10, <1>11

\* hash_value is a hash, whatever the value.
LEMMA HashValueType ==
  ASSUME NEW v \in KeyValue
  PROVE  HashValue(v) \in 0 .. (HashSize - 1)
<1>1. CASE v.kind = "list"
  <2>1. v.items \in Seq(Number) BY <1>1 DEF KeyValue, Number
  <2>2. \A i \in DOMAIN v.items : MixNum(v.items[i]) \in Int \X Int \X Int
    BY <2>1, MixNumType
  <2>3. [i \in DOMAIN v.items |-> MixNum(v.items[i])] \in Seq(Int \X Int \X Int)
    BY <2>1, <2>2
  <2> QED BY <1>1, <2>3, HashItemsType, Zenon DEF HashValue
<1>2. CASE v.kind # "list"
  <2>1. v \in Number BY <1>2 DEF KeyValue
  <2>2. MixNum(v) \in Int \X Int \X Int BY <2>1, MixNumType, Zenon
  <2>3. MixAll(0, MixNum(v)) \in 0 .. (HashSize - 1) BY <2>2, MixAllType
  <2> QED BY <1>2, <2>3, Zenon DEF HashValue
<1> QED BY <1>1, <1>2, Zenon

\* Numbers that values_eq takes for equal mix in the same bytes.
LEMMA NumEqMix ==
  ASSUME NEW a \in Number, NEW b \in Number, NumEq(a, b)
  PROVE  MixNum(a) = MixNum(b)
BY DEF Number, NumEq, MixNum

\* Equal contents hash alike (the test equal_values_hash_equal, for every value).
LEMMA EqualContentsHashEqual ==
  ASSUME NEW a \in KeyValue, NEW b \in KeyValue, ObjEq(a, b)
  PROVE  HashValue(a) = HashValue(b)
<1>1. CASE a.kind = "list" /\ b.kind = "list"
  <2>1. a.items \in Seq(Number) /\ b.items \in Seq(Number) BY <1>1 DEF KeyValue, Number
  <2>2. Len(a.items) = Len(b.items) /\ \A i \in DOMAIN a.items : NumEq(a.items[i], b.items[i])
    BY <1>1, Zenon DEF ObjEq
  <2>3. DOMAIN a.items = DOMAIN b.items BY <2>1, <2>2
  <2>4. \A i \in DOMAIN a.items : MixNum(a.items[i]) = MixNum(b.items[i])
    BY <2>1, <2>2, <2>3, NumEqMix
  <2>5. [i \in DOMAIN a.items |-> MixNum(a.items[i])] = [i \in DOMAIN b.items |-> MixNum(b.items[i])]
    BY <2>3, <2>4, Zenon
  <2> QED BY <1>1, <2>5, Zenon DEF HashValue
<1>2. CASE ~(a.kind = "list" /\ b.kind = "list")
  <2>1. a.kind = b.kind /\ NumEq(a, b) BY <1>2, Zenon DEF ObjEq
  <2>2. a.kind # "list" /\ b.kind # "list" BY <1>2, <2>1, Zenon
  <2>3. a \in Number /\ b \in Number BY <2>2 DEF KeyValue
  <2>4. MixNum(a) = MixNum(b) BY <2>1, <2>3, NumEqMix, Zenon
  <2> QED BY <2>2, <2>4, Zenon DEF HashValue
<1> QED BY <1>1, <1>2, Zenon

\* Equality of numbers is symmetric and transitive (and not reflexive: a NaN).
LEMMA NumEqPartial ==
  ASSUME NEW a \in Number, NEW b \in Number, NEW c \in Number
  PROVE  /\ NumEq(a, b) => NumEq(b, a)
         /\ NumEq(a, b) /\ NumEq(b, c) => NumEq(a, c)
BY DEF Number, NumEq

\* Equality of contents is symmetric, on lists too.
LEMMA ObjEqSymmetric ==
  ASSUME NEW a \in KeyValue, NEW b \in KeyValue, ObjEq(a, b)
  PROVE  ObjEq(b, a)
<1>1. CASE a.kind = "list" /\ b.kind = "list"
  <2>1. a.items \in Seq(Number) /\ b.items \in Seq(Number) BY <1>1 DEF KeyValue, Number
  <2>2. Len(a.items) = Len(b.items) /\ \A i \in DOMAIN a.items : NumEq(a.items[i], b.items[i])
    BY <1>1, Zenon DEF ObjEq
  <2>3. DOMAIN a.items = DOMAIN b.items BY <2>1, <2>2
  <2>4. \A i \in DOMAIN b.items : NumEq(b.items[i], a.items[i])
    BY <2>1, <2>2, <2>3, NumEqPartial
  <2> QED BY <1>1, <2>2, <2>4, Zenon DEF ObjEq
<1>2. CASE ~(a.kind = "list" /\ b.kind = "list")
  <2>1. a.kind = b.kind /\ NumEq(a, b) BY <1>2, Zenon DEF ObjEq
  <2>2. a.kind # "list" /\ b.kind # "list" BY <1>2, <2>1, Zenon
  <2>3. NumEq(b, a) BY <2>1, Zenon DEF NumEq
  <2> QED BY <2>1, <2>2, <2>3, Zenon DEF ObjEq
<1> QED BY <1>1, <1>2, Zenon

\* Equality of contents is transitive, on lists too.
LEMMA ObjEqTransitive ==
  ASSUME NEW a \in KeyValue, NEW b \in KeyValue, NEW c \in KeyValue, ObjEq(a, b), ObjEq(b, c)
  PROVE  ObjEq(a, c)
<1>1. CASE b.kind = "list"
  <2>0. a.kind = "list" /\ c.kind = "list" BY <1>1, Zenon DEF ObjEq
  <2>1. a.items \in Seq(Number) /\ b.items \in Seq(Number) /\ c.items \in Seq(Number)
    BY <1>1, <2>0 DEF KeyValue, Number
  <2>2. /\ Len(a.items) = Len(b.items) /\ \A i \in DOMAIN a.items : NumEq(a.items[i], b.items[i])
        /\ Len(b.items) = Len(c.items) /\ \A i \in DOMAIN b.items : NumEq(b.items[i], c.items[i])
    BY <1>1, <2>0, Zenon DEF ObjEq
  <2>3. DOMAIN a.items = DOMAIN b.items /\ DOMAIN b.items = DOMAIN c.items BY <2>1, <2>2
  <2>4. \A i \in DOMAIN a.items : NumEq(a.items[i], c.items[i])
    BY <2>1, <2>2, <2>3, NumEqPartial
  <2> QED BY <2>0, <2>2, <2>4, Zenon DEF ObjEq
<1>2. CASE b.kind # "list"
  <2>1. a.kind = b.kind /\ NumEq(a, b) /\ b.kind = c.kind /\ NumEq(b, c)
    BY <1>2, Zenon DEF ObjEq
  <2>2. a \in Number /\ b \in Number /\ c \in Number BY <1>2, <2>1 DEF KeyValue
  <2>3. NumEq(a, c) BY <2>1, <2>2, NumEqPartial, Zenon
  <2> QED BY <1>2, <2>1, <2>3, Zenon DEF ObjEq
<1> QED BY <1>1, <1>2, Zenon

\* What values_eq decides for two key objects.
LEMMA SameKeyMeans ==
  ASSUME NEW o, NEW j, NEW k
  PROVE  SameKey(o, j, k) <=> (j = k /\ o[j].kind = "list") \/ ObjEq(o[j], o[k])
<1>1. Held(o, j).ref = j /\ Held(o, j).value = o[j] /\ Held(o, k).ref = k /\ Held(o, k).value = o[k]
  BY DEF Held
<1> QED BY <1>1, Zenon DEF SameKey, ValuesEq

\* Keys that values_eq takes for equal hash alike.
LEMMA EqualValuesHashEqual ==
  ASSUME NEW o, NEW j, NEW k, o[j] \in KeyValue, o[k] \in KeyValue, SameKey(o, j, k)
  PROVE  HashValue(o[j]) = HashValue(o[k])
BY SameKeyMeans, EqualContentsHashEqual, Zenon

\* values_eq is symmetric.
LEMMA SameKeySymmetric ==
  ASSUME NEW o, NEW j, NEW k, o[j] \in KeyValue, o[k] \in KeyValue, SameKey(o, j, k)
  PROVE  SameKey(o, k, j)
BY SameKeyMeans, ObjEqSymmetric, Zenon

\* values_eq is transitive.
LEMMA SameKeyTransitive ==
  ASSUME NEW o, NEW i, NEW j, NEW k, o[i] \in KeyValue, o[j] \in KeyValue, o[k] \in KeyValue,
         SameKey(o, i, j), SameKey(o, j, k)
  PROVE  SameKey(o, i, k)
BY SameKeyMeans, ObjEqTransitive, Zenon

-----------------------------------------------------------------------------
(* The index.                                                              *)

\* A probe stays inside the table, and visits every slot of it.
LEMMA SlotType ==
  ASSUME NEW h \in Nat, NEW d \in Nat, NEW cap \in Nat, cap > 0
  PROVE  SlotAt(h, d, cap) \in 0 .. (cap - 1)
BY DEF SlotAt

\* Every slot of the table is some step of the probe from any hash.
LEMMA SlotsCovered ==
  ASSUME NEW h \in Nat, NEW cap \in Nat, cap > 0, NEW s \in 0 .. (cap - 1)
  PROVE  \E d \in 0 .. (cap - 1) : SlotAt(h, d, cap) = s
<1> DEFINE q == h \div cap
           r == h % cap
           d == IF s >= r THEN s - r ELSE s - r + cap
<1>1. q \in Int /\ r \in 0 .. (cap - 1) /\ h = cap * q + r
  OBVIOUS
<1>2. d \in 0 .. (cap - 1)
  BY <1>1
<1>3. (h + d) % cap = s
  <2>1. ASSUME NEW x \in Int PROVE (cap * x + s) % cap = s
    OBVIOUS
  <2>2. CASE s >= r
    <3>1. h + d = cap * q + s BY <1>1, <2>2
    <3> QED BY <3>1, <2>1, <1>1
  <2>3. CASE ~(s >= r)
    <3>1. h + d = cap * q + cap + s BY <1>1, <2>3
    <3>2. cap * q + cap = cap * (q + 1) BY <1>1
    <3> QED BY <3>1, <3>2, <2>1, <1>1
  <2> QED BY <2>2, <2>3
<1> QED BY <1>2, <1>3 DEF SlotAt

\* table leads to each of the entries 1 .. n with the hashes hs.
Reaches(table, cap, hash, i) ==
  \E d \in 0 .. (cap - 1) :
    /\ \A s \in DOMAIN table : table[s] = i <=> s = SlotAt(hash, d, cap) + 1
    /\ \A c \in 0 .. (d - 1) : table[SlotAt(hash, c, cap) + 1] # EMPTY

\* table holds no other entry, and leads to each of these.
Leads(table, hs, n) ==
  /\ table \in Seq(0 .. n)
  /\ \A i \in 1 .. n : Reaches(table, Len(table), hs[i], i)

\* A table with more slots than entries has an empty one: every probe ends.
LEMMA EmptySlot ==
  ASSUME NEW n \in Nat, NEW table, NEW hs, Leads(table, hs, n), n < Len(table)
  PROVE  \E s \in 1 .. Len(table) : table[s] = EMPTY
<1> DEFINE cap == Len(table)
<1>0. table \in Seq(0 .. n) /\ cap \in Nat /\ DOMAIN table = 1 .. cap
  BY DEF Leads
<1>1. SUFFICES ASSUME \A s \in 1 .. cap : table[s] # EMPTY PROVE FALSE
  OBVIOUS
<1>2. table \in [1 .. cap -> 1 .. n]
  BY <1>0, <1>1 DEF EMPTY
<1>3. IsFiniteSet(1 .. n) /\ Cardinality(1 .. n) = n /\ IsFiniteSet(1 .. cap) /\ Cardinality(1 .. cap) = cap
  <2>1. 1 \in Int /\ n \in Int /\ cap \in Int BY <1>0
  <2>2. IsFiniteSet(1 .. n) /\ Cardinality(1 .. n) = IF 1 > n THEN 0 ELSE n - 1 + 1
    BY <2>1, FS_Interval
  <2> HIDE DEF cap
  <2>3. IsFiniteSet(1 .. cap) /\ Cardinality(1 .. cap) = IF 1 > cap THEN 0 ELSE cap - 1 + 1
    BY <2>1, FS_Interval
  <2> QED BY <1>0, <2>2, <2>3
<1>4. Cardinality(1 .. n) < Cardinality(1 .. cap)
  BY <1>3
<1>5. PICK x \in 1 .. cap, y \in 1 .. cap : x # y /\ table[x] = table[y]
  <2> HIDE DEF cap
  <2> QED BY <1>2, <1>3, <1>4, FS_PigeonHole, Zenon
<1>6. table[x] \in 1 .. n
  BY <1>2
<1>7. PICK d \in 0 .. (cap - 1) : \A s \in DOMAIN table : table[s] = table[x] <=> s = SlotAt(hs[table[x]], d, cap) + 1
  BY <1>6, Zenon DEF Leads, Reaches
<1>8. x = SlotAt(hs[table[x]], d, cap) + 1 /\ y = SlotAt(hs[table[x]], d, cap) + 1
  BY <1>0, <1>5, <1>7, Zenon
<1> QED BY <1>5, <1>8

\* index_insert puts a new entry where probing for it ends, and no entry that
\* the table led to is lost: the slot it takes was empty.
LEMMA InsertLeads ==
  ASSUME NEW n \in Nat, NEW table, NEW hs, Leads(table, hs, n), n < Len(table),
         \A i \in 1 .. (n + 1) : hs[i] \in Nat
  PROVE  /\ Leads(IndexInsert(table, n + 1, hs[n + 1]), hs, n + 1)
         /\ Len(IndexInsert(table, n + 1, hs[n + 1])) = Len(table)
<1> DEFINE cap == Len(table)
           hash == hs[n + 1]
           open == {d \in 0 .. (cap - 1) : table[SlotAt(hash, d, cap) + 1] = EMPTY}
           m == Min(open)
           at == SlotAt(hash, m, cap) + 1
           new == [table EXCEPT ![at] = n + 1]
<1>1. table \in Seq(0 .. n) /\ cap \in Nat /\ cap > 0 /\ DOMAIN table = 1 .. cap /\ hash \in Nat
  BY DEF Leads
<1>2. open \in SUBSET Nat /\ open # {}
  <2>1. PICK s \in 1 .. cap : table[s] = EMPTY
    BY EmptySlot
  <2>2. s - 1 \in 0 .. (cap - 1)
    BY <1>1
  <2>3. PICK d \in 0 .. (cap - 1) : SlotAt(hash, d, cap) = s - 1
    <3> HIDE DEF cap, hash
    <3> QED BY <1>1, <2>2, SlotsCovered
  <2>4. SlotAt(hash, d, cap) + 1 = s
    BY <2>3, <1>1
  <2>5. d \in open
    BY <2>1, <2>4
  <2>6. open \subseteq 0 .. (cap - 1) OBVIOUS
  <2> HIDE DEF open, cap
  <2> QED BY <2>5, <2>6, <1>1
<1>3. m \in open /\ \A y \in open : m <= y
  <2> HIDE DEF open
  <2> QED BY <1>2, MinIsLeast, Zenon
<1>4. m \in 0 .. (cap - 1) /\ table[at] = EMPTY
  <2> HIDE DEF m
  <2> QED BY <1>3
<1>5. at \in 1 .. cap
  <2>1. SlotAt(hash, m, cap) \in 0 .. (cap - 1)
    <3>1. m \in Nat BY <1>2, <1>3, Zenon
    <3> HIDE DEF m, cap, hash
    <3> QED BY <1>1, <3>1, SlotType
  <2> HIDE DEF m, cap, hash
  <2> QED BY <1>1, <2>1
<1>6. IndexInsert(table, n + 1, hash) = new
  BY Zenon DEF IndexInsert
<1>7. new \in Seq(0 .. (n + 1)) /\ Len(new) = cap /\ DOMAIN new = DOMAIN table
  <2> HIDE DEF at
  <2> QED BY <1>1, <1>5
<1>8. \A s \in DOMAIN table : new[s] = IF s = at THEN n + 1 ELSE table[s]
  <2> HIDE DEF at
  <2> QED BY <1>1
<1>9. \A s \in DOMAIN table : table[s] # n + 1
  BY <1>1
<1>10. ASSUME NEW i \in 1 .. (n + 1)
       PROVE  Reaches(new, cap, hs[i], i)
  <2>0. \A c \in 0 .. (cap - 1) : SlotAt(hs[i], c, cap) + 1 \in DOMAIN table
    <3>1. ASSUME NEW c \in 0 .. (cap - 1) PROVE SlotAt(hs[i], c, cap) + 1 \in 1 .. cap
      <4>1. hs[i] \in Nat /\ c \in Nat BY <1>1
      <4>2. SlotAt(hs[i], c, cap) \in 0 .. (cap - 1)
        <5> HIDE DEF cap
        <5> QED BY <4>1, <1>1, SlotType
      <4> HIDE DEF cap
      <4> QED BY <4>2, <1>1
    <3> QED BY <3>1, <1>1
  <2>1. CASE i = n + 1
    <3>1. \A s \in DOMAIN new : new[s] = i <=> s = SlotAt(hs[i], m, cap) + 1
      <4> HIDE DEF m, cap, new
      <4> QED BY <2>1, <1>7, <1>8, <1>9
    <3>2. ASSUME NEW c \in 0 .. (m - 1) PROVE new[SlotAt(hs[i], c, cap) + 1] # EMPTY
      <4>1. c \in 0 .. (cap - 1) /\ c < m
        <5> HIDE DEF m, cap
        <5> QED BY <1>1, <1>4
      <4>2. c \notin open
        <5> HIDE DEF m, cap, open
        <5> QED BY <4>1, <1>3, <1>2
      <4>3. table[SlotAt(hs[i], c, cap) + 1] # EMPTY
        BY <4>1, <4>2, <2>1
      <4> HIDE DEF m, cap, open, new
      <4> QED BY <4>1, <4>3, <2>0, <1>8 DEF EMPTY
    <3> HIDE DEF m, cap, new
    <3> QED BY <3>1, <3>2, <1>4, Zenon DEF Reaches
  <2>2. CASE i # n + 1
    <3>0. i \in 1 .. n BY <2>2
    <3>1. PICK d \in 0 .. (cap - 1) :
            /\ \A s \in DOMAIN table : table[s] = i <=> s = SlotAt(hs[i], d, cap) + 1
            /\ \A c \in 0 .. (d - 1) : table[SlotAt(hs[i], c, cap) + 1] # EMPTY
      BY <3>0, Zenon DEF Leads, Reaches
    <3>2. \A s \in DOMAIN new : new[s] = i <=> s = SlotAt(hs[i], d, cap) + 1
      <4> HIDE DEF at, new, cap
      <4> QED BY <3>0, <3>1, <1>4, <1>7, <1>8, <2>2 DEF EMPTY
    <3>3. ASSUME NEW c \in 0 .. (d - 1) PROVE new[SlotAt(hs[i], c, cap) + 1] # EMPTY
      <4>1. c \in 0 .. (cap - 1) BY <1>1
      <4> HIDE DEF at, new, cap
      <4> QED BY <4>1, <3>1, <2>0, <1>8 DEF EMPTY
    <3> HIDE DEF new, cap
    <3> QED BY <3>1, <3>2, <3>3, Zenon DEF Reaches
  <2> QED BY <2>1, <2>2, Zenon
<1>11. Leads(new, hs, n + 1)
  <2> HIDE DEF new, cap
  <2> QED BY <1>7, <1>10, Zenon DEF Leads
<1> QED BY <1>6, <1>7, <1>11, Zenon

\* A table has a capacity that index_capacity_for gives.
Sized(table) == Len(table) \in PowersOfTwo /\ Len(table) >= INDEX_FLOOR

\* index_capacity_for leaves more slots than entries, at least the floor.
LEMMA CapacityRoom ==
  ASSUME NEW n \in 0 .. MaxEntries
  PROVE  /\ IndexCapacityFor(n) \in Nat /\ IndexCapacityFor(n) > n
         /\ IndexCapacityFor(n) \in PowersOfTwo /\ IndexCapacityFor(n) >= INDEX_FLOOR
<1> DEFINE S == {c \in PowersOfTwo : c >= 2 * n /\ c >= INDEX_FLOOR}
<1>1. S \in SUBSET Nat
  BY MapAssumption, Zenon
<1>2. S # {}
  <2>1. PICK c \in PowersOfTwo : c >= 2 * MaxEntries /\ c >= INDEX_FLOOR
    BY MapAssumption, Zenon
  <2>2. c \in Nat /\ MaxEntries \in Nat BY MapAssumption
  <2>3. c >= 2 * n BY <2>1, <2>2
  <2> QED BY <2>1, <2>3, Zenon
<1>3. Min(S) \in S
  <2> HIDE DEF S
  <2> QED BY <1>1, <1>2, MinIsLeast, Zenon
<1>4. Min(S) \in Nat /\ Min(S) \in PowersOfTwo /\ Min(S) >= 2 * n /\ Min(S) >= INDEX_FLOOR
  BY <1>1, <1>3, Zenon
<1>5. INDEX_FLOOR \in Nat /\ INDEX_FLOOR > 0 BY MapAssumption
<1>6. IndexCapacityFor(n) = Min(S) BY Zenon DEF IndexCapacityFor
<1> HIDE DEF S
<1>7. Min(S) > n BY <1>4, <1>5
<1> QED BY <1>4, <1>6, <1>7, Zenon

\* The tables of rebuild_index, after 0, 1, ... entries.
BuiltFcn(hs) ==
  CHOOSE built : built = [n \in 0 .. Len(hs) |->
                            IF n = 0 THEN [s \in 1 .. IndexCapacityFor(Len(hs)) |-> EMPTY]
                            ELSE IndexInsert(built[n - 1], n, hs[n])]

\* The tables of a rebuild, one per entry put in.
LEMMA BuiltSteps ==
  ASSUME NEW hs \in Seq(Nat), Len(hs) <= MaxEntries
  PROVE  /\ RebuildIndex(hs) = BuiltFcn(hs)[Len(hs)]
         /\ BuiltFcn(hs)[0] = [s \in 1 .. IndexCapacityFor(Len(hs)) |-> EMPTY]
         /\ \A n \in 1 .. Len(hs) : BuiltFcn(hs)[n] = IndexInsert(BuiltFcn(hs)[n - 1], n, hs[n])
<1> DEFINE N == Len(hs)
           cap == IndexCapacityFor(N)
           S == [1 .. cap -> 0 .. N]
           base == [s \in 1 .. cap |-> EMPTY]
           step == [p \in (1 .. N) \X S |-> IndexInsert(p[2], p[1], hs[p[1]])]
<1>1. N \in Nat /\ base \in S
  BY DEF EMPTY
<1>2. ASSUME NEW n \in 1 .. N, NEW t \in S PROVE IndexInsert(t, n, hs[n]) \in S
  <2> DEFINE at == SlotAt(hs[n], Min({d \in 0 .. (Len(t) - 1) : t[SlotAt(hs[n], d, Len(t)) + 1] = EMPTY}), Len(t)) + 1
  <2>1. IndexInsert(t, n, hs[n]) = [t EXCEPT ![at] = n]
    BY Zenon DEF IndexInsert
  <2>2. n \in 0 .. N BY <1>1
  <2> HIDE DEF at, N, cap
  <2> QED BY <2>1, <2>2
<1>3. step \in [(1 .. N) \X S -> S]
  <2> HIDE DEF S, N
  <2> QED BY <1>2
<1>4. \A n \in 1 .. N, t \in S : step[<<n, t>>] = IndexInsert(t, n, hs[n])
  <2> HIDE DEF S, N
  <2> QED OBVIOUS
<1>5. PICK f \in [0 .. N -> S] : Solves(f, N, base, step)
  <2> HIDE DEF N, S, base, step
  <2> QED BY <1>1, <1>3, Recursion
<1>6. ASSUME NEW n \in 1 .. N PROVE f[n] = IndexInsert(f[n - 1], n, hs[n])
  <2>1. n - 1 \in 0 .. N BY <1>1
  <2> HIDE DEF S, N, step
  <2>2. f[n - 1] \in S BY <2>1, Zenon
  <2>3. f[n] = step[<<n, f[n - 1]>>] BY <1>5, Zenon DEF Solves
  <2> QED BY <2>2, <2>3, <1>4, Zenon
<1> DEFINE F(g, n) == IF n = 0 THEN base ELSE IndexInsert(g[n - 1], n, hs[n])
<1>7. f = [n \in 0 .. N |-> F(f, n)]
  <2>1. f[0] = base BY <1>5, Zenon DEF Solves
  <2>2. ASSUME NEW n \in 0 .. N PROVE f[n] = F(f, n)
    <3>1. CASE n = 0 BY <3>1, <2>1, Zenon
    <3>2. CASE n # 0
      <4>1. n \in 1 .. N BY <3>2, <1>1
      <4> QED BY <3>2, <4>1, <1>6, Zenon
    <3> QED BY <3>1, <3>2
  <2>3. DOMAIN f = 0 .. N /\ f = [n \in 0 .. N |-> f[n]]
    <3> HIDE DEF S, N
    <3> QED OBVIOUS
  <2> HIDE DEF F, S, N
  <2> QED BY <2>2, <2>3
<1> DEFINE b == BuiltFcn(hs)
<1>8. b = [n \in 0 .. N |-> F(b, n)]
  BY <1>7, Zenon DEF BuiltFcn
<1>9. RebuildIndex(hs) = b[N]
  BY Zenon DEF RebuildIndex, BuiltFcn
<1>10. ASSUME NEW n \in 0 .. N PROVE b[n] = F(b, n)
  <2>1. b[n] = [i \in 0 .. N |-> F(b, i)][n] BY <1>8, Zenon
  <2> HIDE DEF F, b, N
  <2> QED BY <2>1, Zenon
<1>11. b[0] = base
  <2>1. 0 \in 0 .. N BY <1>1
  <2> HIDE DEF b, N, base
  <2> QED BY <2>1, <1>10, Zenon
<1>12. ASSUME NEW n \in 1 .. N PROVE b[n] = IndexInsert(b[n - 1], n, hs[n])
  <2>1. n \in 0 .. N /\ n # 0 BY <1>1
  <2> HIDE DEF b, N, base
  <2> QED BY <2>1, <1>10, Zenon
<1> QED BY <1>9, <1>11, <1>12, Zenon

\* A rebuilt index leads to every entry, and has room for one more.
LEMMA RebuildLeads ==
  ASSUME NEW hs \in Seq(Nat), Len(hs) <= MaxEntries
  PROVE  /\ Leads(RebuildIndex(hs), hs, Len(hs)) /\ Len(hs) < Len(RebuildIndex(hs))
         /\ Sized(RebuildIndex(hs))
<1> DEFINE N == Len(hs)
           cap == IndexCapacityFor(N)
           b == BuiltFcn(hs)
           Holds(n) == Leads(b[n], hs, n) /\ Len(b[n]) = cap
           Bad == {n \in 0 .. N : ~Holds(n)}
<1>1. N \in Nat /\ cap \in Nat /\ cap > N /\ cap \in PowersOfTwo /\ cap >= INDEX_FLOOR
  BY CapacityRoom, MapAssumption
<1>2. Holds(0)
  <2>1. b[0] = [s \in 1 .. cap |-> EMPTY] BY BuiltSteps, Zenon
  <2>2. [s \in 1 .. cap |-> EMPTY] \in Seq(0 .. 0) /\ Len([s \in 1 .. cap |-> EMPTY]) = cap
    <3> HIDE DEF cap
    <3> QED BY <1>1 DEF EMPTY
  <2>3. 1 .. 0 = {} OBVIOUS
  <2> HIDE DEF b, cap
  <2> QED BY <2>1, <2>2, <2>3, Zenon DEF Leads
<1>3. ASSUME NEW n \in 0 .. N, n # N, Holds(n) PROVE Holds(n + 1)
  <2>1. n \in Nat /\ n + 1 \in 1 .. N /\ n < cap
    <3> HIDE DEF N, cap
    <3> QED BY <1>1, <1>3
  <2>2. \A i \in 1 .. (n + 1) : hs[i] \in Nat BY <2>1
  <2>3. b[n + 1] = IndexInsert(b[n], n + 1, hs[n + 1])
    <3>0. \A k \in 1 .. N : b[k] = IndexInsert(b[k - 1], k, hs[k]) BY BuiltSteps, Zenon
    <3> HIDE DEF b, N
    <3>1. b[n + 1] = IndexInsert(b[n + 1 - 1], n + 1, hs[n + 1]) BY <2>1, <3>0
    <3>2. n + 1 - 1 = n BY <2>1
    <3> QED BY <3>1, <3>2, Zenon
  <2>4. Leads(b[n], hs, n) /\ n < Len(b[n])
    <3>1. Leads(b[n], hs, n) /\ Len(b[n]) = cap BY <1>3, Zenon
    <3> HIDE DEF b, cap
    <3> QED BY <3>1, <2>1
  <2>5. Leads(b[n + 1], hs, n + 1) /\ Len(b[n + 1]) = Len(b[n])
    <3> HIDE DEF b
    <3> QED BY <2>1, <2>2, <2>3, <2>4, InsertLeads
  <2> QED BY <2>5, <1>3, Zenon
<1>4. Bad = {}
  <2>1. SUFFICES ASSUME Bad # {} PROVE FALSE OBVIOUS
  <2>2. Bad \in SUBSET Nat /\ Bad \subseteq 0 .. N
    <3> HIDE DEF Holds, N
    <3> QED BY <1>1
  <2>3. PICK n \in Bad : \A y \in Bad : n <= y
    <3> HIDE DEF Bad
    <3> QED BY <2>1, <2>2, LeastExists, Zenon
  <2>4. n \in 0 .. N /\ ~Holds(n) BY <2>3, Zenon
  <2> HIDE DEF Holds, N
  <2>5. n # 0 BY <2>4, <1>2, Zenon
  <2>6. n - 1 \in 0 .. N /\ n - 1 # N /\ n - 1 < n /\ n - 1 + 1 = n BY <2>4, <2>5, <1>1
  <2>7. n - 1 \notin Bad
    <3> HIDE DEF Bad
    <3> QED BY <2>3, <2>6, <2>2
  <2>8. Holds(n - 1) BY <2>6, <2>7, Zenon
  <2>9. Holds(n - 1 + 1) BY <2>6, <2>8, <1>3, Zenon
  <2> QED BY <2>4, <2>6, <2>9
<1>5. Holds(N)
  <2>1. N \in 0 .. N BY <1>1
  <2> HIDE DEF Holds, N
  <2> QED BY <2>1, <1>4, Zenon
<1>6. RebuildIndex(hs) = b[N] BY BuiltSteps, Zenon
<1>7. Leads(b[N], hs, N) /\ Len(b[N]) = cap BY <1>5, Zenon
<1> HIDE DEF N, b, cap
<1>8. N < Len(b[N]) BY <1>1, <1>7
<1>9. Leads(RebuildIndex(hs), hs, N) /\ N < Len(RebuildIndex(hs)) /\ Sized(RebuildIndex(hs))
  BY <1>1, <1>6, <1>7, <1>8, Zenon DEF Sized
<1> QED BY <1>9, Zenon DEF N

-----------------------------------------------------------------------------
(* The map.                                                                *)

\* The inductive invariant: an index leads to every entry under its stored
\* hash, and has more slots than there are entries.
MapInv ==
  /\ TypeOK /\ frozen \in BOOLEAN
  /\ Len(entries) <= MaxEntries
  /\ index # <<>> => Leads(index, hashes, Len(entries)) /\ Len(entries) < Len(index) /\ Sized(index)

\* While no key is written to, the stored hashes are the keys' hashes, and no
\* two entries have equal keys.
KeysInv ==
  frozen => /\ \A i \in DOMAIN entries : hashes[i] = HashValue(obj[entries[i].key])
            /\ \A i, j \in DOMAIN entries :
                 SameKey(obj, entries[i].key, entries[j].key) => i = j

\* What TypeOK says in the terms the proofs use.
LEMMA TypeFacts ==
  ASSUME TypeOK
  PROVE  /\ entries \in Seq([key : KeyObjs, val : Vals])
         /\ Len(entries) \in Nat /\ DOMAIN entries = 1 .. Len(entries)
         /\ hashes \in Seq(0 .. (HashSize - 1)) /\ hashes \in Seq(Nat)
         /\ Len(hashes) = Len(entries) /\ DOMAIN hashes = DOMAIN entries
         /\ \A i \in DOMAIN entries : hashes[i] \in Nat /\ entries[i].key \in KeyObjs
         /\ \A k \in KeyObjs : obj[k] \in KeyValue /\ HashValue(obj[k]) \in 0 .. (HashSize - 1)
         /\ \A k \in KeyObjs : HashValue(obj[k]) \in Nat
<1>1. entries \in Seq([key : KeyObjs, val : Vals]) /\ hashes \in [DOMAIN entries -> 0 .. (HashSize - 1)]
  BY DEF TypeOK
<1>2. Len(entries) \in Nat /\ DOMAIN entries = 1 .. Len(entries)
  BY <1>1
<1>3. hashes \in [1 .. Len(entries) -> 0 .. (HashSize - 1)]
  BY <1>1, <1>2
<1>4. hashes \in Seq(0 .. (HashSize - 1)) /\ Len(hashes) = Len(entries) /\ DOMAIN hashes = DOMAIN entries
  <2>1. PICK n \in Nat : n = Len(entries) BY <1>2
  <2>2. hashes \in [1 .. n -> 0 .. (HashSize - 1)] BY <1>3, <2>1
  <2>3. hashes \in Seq(0 .. (HashSize - 1)) /\ Len(hashes) = n BY <2>2, FcnIsSeq, Zenon
  <2>4. DOMAIN hashes = DOMAIN entries BY <1>1
  <2> QED BY <2>1, <2>3, <2>4
<1>5. HashSize \in Nat BY MapAssumption
<1>6. hashes \in Seq(Nat) /\ \A i \in DOMAIN entries : hashes[i] \in Nat
  BY <1>4, <1>5
<1>7. \A i \in DOMAIN entries : entries[i].key \in KeyObjs
  <2>1. \A i \in DOMAIN entries : entries[i] \in [key : KeyObjs, val : Vals] BY <1>1, SeqElement, Zenon
  <2> QED BY <2>1
<1>8. ASSUME NEW k \in KeyObjs PROVE obj[k] \in KeyValue
  <2>1. obj[k] \in Range(Contents) \cup Writes BY DEF TypeOK
  <2>2. Range(Contents) \subseteq KeyValue BY MapAssumption DEF Range
  <2> QED BY <2>1, <2>2, MapAssumption, Zenon
<1>9. \A k \in KeyObjs : HashValue(obj[k]) \in 0 .. (HashSize - 1)
  BY <1>8, HashValueType, Zenon
<1>10. \A k \in KeyObjs : HashValue(obj[k]) \in Nat
  BY <1>9, <1>5
<1> QED BY <1>1, <1>2, <1>4, <1>6, <1>7, <1>8, <1>9, <1>10, Zenon

\* find returns an entry of the key, and EMPTY only if there is none: probing
\* meets no empty slot before the entry, and ends because there is one.
LEMMA FindCorrect ==
  ASSUME MapInv, NEW k \in KeyObjs, NEW hash \in Nat
  PROVE  /\ Find(k, hash) = EMPTY => \A i \in DOMAIN entries : ~IsEntry(i, k, hash)
         /\ Find(k, hash) # EMPTY => Find(k, hash) \in DOMAIN entries /\ IsEntry(Find(k, hash), k, hash)
<1>0. TypeOK BY DEF MapInv
<1>t. Len(entries) \in Nat /\ DOMAIN entries = 1 .. Len(entries)
  BY <1>0, TypeFacts, Zenon
<1>1. CASE index = <<>>
  <2> DEFINE found == {i \in DOMAIN entries : IsEntry(i, k, hash)}
  <2>1. Find(k, hash) = IF found = {} THEN EMPTY ELSE Min(found)
    BY <1>1, Zenon DEF Find
  <2>2. found \in SUBSET Nat
    <3>1. DOMAIN entries \subseteq Nat BY <1>t
    <3> QED BY <3>1, Zenon
  <2>3. CASE found = {}
    <3>1. Find(k, hash) = EMPTY BY <2>1, <2>3, Zenon
    <3> QED BY <2>3, <3>1, Zenon
  <2>4. CASE found # {}
    <3>1. Min(found) \in found
      <4> HIDE DEF found
      <4> QED BY <2>2, <2>4, MinIsLeast, Zenon
    <3>2. Find(k, hash) = Min(found) BY <2>1, <2>4, Zenon
    <3>3. Find(k, hash) \in DOMAIN entries /\ IsEntry(Find(k, hash), k, hash) BY <3>1, <3>2, Zenon
    <3>4. Find(k, hash) # EMPTY BY <3>3, <1>t DEF EMPTY
    <3> QED BY <3>3, <3>4, Zenon
  <2> QED BY <2>3, <2>4, Zenon
<1>2. CASE index # <<>>
  <2> DEFINE n == Len(entries)
             cap == Capacity
             Slot(d) == index[SlotAt(hash, d, cap) + 1]
             ends == {d \in 0 .. (cap - 1) : Stops(d, k, hash)}
             m == Min(ends)
  <2>1. Leads(index, hashes, n) /\ n < cap /\ n \in Nat
    BY <1>2, <1>t, Zenon DEF MapInv, Capacity
  <2>2. index \in Seq(0 .. n) /\ cap \in Nat /\ cap > 0 /\ DOMAIN index = 1 .. cap
    BY <2>1 DEF Leads, Capacity
  <2>3. \A d \in 0 .. (cap - 1) : Slot(d) \in 0 .. n
    <3>1. ASSUME NEW d \in 0 .. (cap - 1) PROVE SlotAt(hash, d, cap) + 1 \in 1 .. cap
      <4> HIDE DEF cap
      <4>1. d \in Nat BY <2>2
      <4>0. SlotAt(hash, d, cap) \in 0 .. (cap - 1) BY <2>2, <4>1, SlotType
      <4> QED BY <4>0, <2>2
    <3> HIDE DEF cap, n
    <3>2. ASSUME NEW d \in 0 .. (cap - 1) PROVE Slot(d) \in 0 .. n
      <4>1. SlotAt(hash, d, cap) + 1 \in DOMAIN index BY <3>1, <2>2
      <4> QED BY <4>1, <2>2, SeqElement, Zenon
    <3> QED BY <3>2
  <2>4. \A d : Stops(d, k, hash) <=> Slot(d) = EMPTY \/ IsEntry(Slot(d), k, hash)
    BY Zenon DEF Stops
  <2>5. ends \in SUBSET Nat /\ ends # {}
    <3>1. PICK s \in 1 .. cap : index[s] = EMPTY
      BY <2>1, EmptySlot DEF Capacity
    <3> HIDE DEF cap
    <3>2. s - 1 \in 0 .. (cap - 1) BY <2>2
    <3>3. PICK d \in 0 .. (cap - 1) : SlotAt(hash, d, cap) = s - 1 BY <2>2, <3>2, SlotsCovered
    <3>4. Slot(d) = EMPTY BY <3>1, <3>3, <2>2
    <3>5. d \in ends BY <3>4, <2>4, Zenon
    <3>6. 0 .. (cap - 1) \subseteq Nat BY <2>2
    <3> QED BY <3>5, <3>6, Zenon
  <2>6. m \in ends /\ \A y \in ends : m <= y
    <3> HIDE DEF ends
    <3> QED BY <2>5, MinIsLeast, Zenon
  <2>7. Find(k, hash) = Slot(m)
    BY <1>2, Zenon DEF Find, Probe
  <2>8. m \in 0 .. (cap - 1) /\ (Slot(m) = EMPTY \/ IsEntry(Slot(m), k, hash))
    BY <2>4, <2>6, Zenon
  <2>9. ASSUME NEW i \in DOMAIN entries, IsEntry(i, k, hash) PROVE Slot(m) # EMPTY
    <3>1. hashes[i] = hash /\ i \in 1 .. n BY <2>9, <1>t DEF IsEntry
    <3>2. Reaches(index, cap, hash, i) BY <2>1, <3>1 DEF Leads, Capacity
    <3> HIDE DEF cap, m
    <3>3. PICK d \in 0 .. (cap - 1) :
            /\ \A s \in DOMAIN index : index[s] = i <=> s = SlotAt(hash, d, cap) + 1
            /\ \A c \in 0 .. (d - 1) : Slot(c) # EMPTY
      BY <3>2, Zenon DEF Reaches
    <3>4. Slot(d) = i
      <4>1. d \in Nat BY <2>2
      <4>0. SlotAt(hash, d, cap) \in 0 .. (cap - 1) BY <2>2, <4>1, SlotType
      <4>2. SlotAt(hash, d, cap) + 1 \in DOMAIN index BY <4>0, <2>2
      <4> QED BY <4>2, <3>3, Zenon
    <3>5. d \in ends BY <3>4, <2>9, <2>4, Zenon
    <3>6. m <= d BY <3>5, <2>6, Zenon
    <3>7. CASE m = d
      <4>1. i # EMPTY BY <3>1, <2>1 DEF EMPTY
      <4> QED BY <3>7, <3>4, <4>1, Zenon
    <3>8. CASE m # d
      <4>1. m \in 0 .. (d - 1) BY <3>6, <3>8, <2>2, <2>8
      <4> QED BY <4>1, <3>3, Zenon
    <3> QED BY <3>7, <3>8, Zenon
  <2>10. Slot(m) # EMPTY => Slot(m) \in DOMAIN entries
    <3>1. Slot(m) \in 0 .. n BY <2>3, <2>8, Zenon
    <3> HIDE DEF Slot
    <3> QED BY <3>1, <2>1, <1>t DEF EMPTY
  <2> HIDE DEF Slot, m
  <2> QED BY <2>7, <2>8, <2>9, <2>10, Zenon
<1> QED BY <1>1, <1>2, Zenon

\* Vec::remove, element by element.
LEMMA RemovedElements ==
  ASSUME NEW S, NEW s \in Seq(S), NEW at \in DOMAIN s
  PROVE  /\ Removed(s, at) \in Seq(S) /\ Len(Removed(s, at)) = Len(s) - 1
         /\ Len(Removed(s, at)) \in Nat /\ DOMAIN Removed(s, at) = 1 .. (Len(s) - 1)
         /\ \A i \in 1 .. (Len(s) - 1) :
              /\ i < at => Removed(s, at)[i] = s[i]
              /\ i >= at => Removed(s, at)[i] = s[i + 1] /\ i + 1 \in DOMAIN s
              /\ i \in DOMAIN s
<1>1. Len(s) \in Nat /\ DOMAIN s = 1 .. Len(s) /\ at \in 1 .. Len(s) /\ Len(s) - 1 \in Nat OBVIOUS
<1>2. PICK n \in Nat : n = Len(s) - 1 BY <1>1
<1> DEFINE F(i) == IF i < at THEN s[i] ELSE s[i + 1]
<1>3. ASSUME NEW i \in 1 .. n PROVE i \in DOMAIN s /\ i + 1 \in DOMAIN s
  BY <1>1, <1>2
<1>4. ASSUME NEW i \in 1 .. n PROVE F(i) \in S
  BY <1>3, SeqElement, Zenon
<1>5. Removed(s, at) = [i \in 1 .. n |-> F(i)]
  BY <1>2, Zenon DEF Removed
<1>6. Removed(s, at) \in [1 .. n -> S]
  <2> HIDE DEF F
  <2> QED BY <1>4, <1>5, Zenon
<1>7. Removed(s, at) \in Seq(S) /\ Len(Removed(s, at)) = n
  BY <1>6, FcnIsSeq, Zenon
<1>8. ASSUME NEW i \in 1 .. n PROVE Removed(s, at)[i] = F(i)
  <2> HIDE DEF F
  <2> QED BY <1>5, Zenon
<1>9. DOMAIN Removed(s, at) = 1 .. n BY <1>6, Zenon
<1>10. ASSUME NEW i \in 1 .. n
       PROVE  /\ i < at => Removed(s, at)[i] = s[i]
              /\ i >= at => Removed(s, at)[i] = s[i + 1] /\ i + 1 \in DOMAIN s
              /\ i \in DOMAIN s
  <2>1. i < at => F(i) = s[i] BY Zenon
  <2>2. i >= at => F(i) = s[i + 1] BY <1>1
  <2> HIDE DEF F
  <2> QED BY <1>3, <1>8, <2>1, <2>2, Zenon
<1> QED BY <1>2, <1>7, <1>9, <1>10, Zenon

\* The map starts right.
LEMMA InitMap == Init => MapInv /\ KeysInv
<1> SUFFICES ASSUME Init PROVE MapInv /\ KeysInv
  OBVIOUS
<1>1. frozen \in BOOLEAN BY MapAssumption DEF Init
<1>2. obj \in [KeyObjs -> Range(Contents) \cup Writes]
  BY MapAssumption DEF Init, Range
<1>3. entries = <<>> /\ hashes = <<>> /\ index = <<>> /\ ret = Done BY DEF Init
<1>4. DOMAIN entries = {} /\ Len(entries) = 0 BY <1>3
<1>5. TypeOK
  <2>1. entries \in Seq([key : KeyObjs, val : Vals]) /\ index \in Seq(0 .. Len(entries)) BY <1>3
  <2>2. hashes \in [DOMAIN entries -> 0 .. (HashSize - 1)] BY <1>3, <1>4
  <2> QED BY <1>2, <1>3, <2>1, <2>2 DEF TypeOK
<1>6. MapInv BY <1>1, <1>3, <1>4, <1>5, MapAssumption DEF MapInv
<1> QED BY <1>4, <1>6 DEF KeysInv

\* The state after an insertion of a new key.
LEMMA AppendStep ==
  ASSUME MapInv, NEW k \in KeyObjs, NEW v \in Vals, NEW hash \in 0 .. (HashSize - 1),
         Len(entries) < MaxEntries,
         NEW ents, ents = Append(entries, [key |-> k, val |-> v]),
         NEW hs, hs = Append(hashes, hash),
         NEW table, table = Indexed(hs, hash)
  PROVE  /\ ents \in Seq([key : KeyObjs, val : Vals]) /\ Len(ents) = Len(entries) + 1
         /\ hs \in [DOMAIN ents -> 0 .. (HashSize - 1)]
         /\ table # <<>> => Leads(table, hs, Len(ents)) /\ Len(ents) < Len(table) /\ Sized(table)
<1>0. TypeOK BY DEF MapInv
<1>1. PICK n \in Nat : n = Len(entries) /\ n = Len(hashes) /\ DOMAIN entries = 1 .. n /\ DOMAIN hashes = 1 .. n
  BY <1>0, TypeFacts
<1>2. hashes \in Seq(0 .. (HashSize - 1)) /\ hashes \in Seq(Nat) /\ entries \in Seq([key : KeyObjs, val : Vals])
  BY <1>0, TypeFacts, Zenon
<1>3. HashSize \in Nat /\ hash \in Nat /\ MaxEntries \in Nat BY MapAssumption
<1>4. ents \in Seq([key : KeyObjs, val : Vals]) /\ Len(ents) = n + 1
  BY <1>1, <1>2
<1>5. hs \in Seq(0 .. (HashSize - 1)) /\ Len(hs) = n + 1 /\ hs[n + 1] = hash
  BY <1>1, <1>2
<1>6. hs \in Seq(Nat)
  BY <1>2, <1>3
<1>7. \A i \in 1 .. n : hs[i] = hashes[i]
  BY <1>1, <1>2
<1>8. hs \in [DOMAIN ents -> 0 .. (HashSize - 1)]
  <2>1. DOMAIN ents = 1 .. (n + 1) BY <1>4
  <2>2. hs \in [1 .. Len(hs) -> 0 .. (HashSize - 1)] BY <1>5, SeqIsFcn, Zenon
  <2> QED BY <1>5, <2>1, <2>2
<1>9. Leads(RebuildIndex(hs), hs, n + 1) /\ n + 1 < Len(RebuildIndex(hs)) /\ Sized(RebuildIndex(hs))
  <2>1. Len(hs) <= MaxEntries BY <1>1, <1>3, <1>5
  <2>2. Leads(RebuildIndex(hs), hs, Len(hs)) /\ Len(hs) < Len(RebuildIndex(hs)) /\ Sized(RebuildIndex(hs))
    BY <1>6, <2>1, RebuildLeads, Zenon
  <2> QED BY <2>2, <1>5, Zenon
<1>10. ASSUME index # <<>>, ~LoadExceeded(Len(hs))
       PROVE  /\ Leads(IndexInsert(index, Len(hs), hash), hs, n + 1)
              /\ n + 1 < Len(IndexInsert(index, Len(hs), hash)) /\ Sized(IndexInsert(index, Len(hs), hash))
  <2>1. Leads(index, hashes, n) /\ n < Len(index) /\ Sized(index) BY <1>1, <1>10, Zenon DEF MapInv
  <2>2. Leads(index, hs, n)
    BY <2>1, <1>7, Zenon DEF Leads
  <2>3. \A i \in 1 .. (n + 1) : hs[i] \in Nat BY <1>5, <1>6
  <2>4. /\ Leads(IndexInsert(index, n + 1, hs[n + 1]), hs, n + 1)
        /\ Len(IndexInsert(index, n + 1, hs[n + 1])) = Len(index)
    BY <2>1, <2>2, <2>3, InsertLeads
  <2>5. Len(index) \in Nat BY <2>1 DEF Leads
  <2>6. n + 1 < Len(index)
    <3>1. ~((n + 1) * 4 >= Len(index) * 3) BY <1>5, <1>10 DEF LoadExceeded, Capacity
    <3> QED BY <3>1, <2>5
  <2> QED BY <1>5, <2>1, <2>4, <2>6, Zenon DEF Sized
<1>11. table # <<>> => Leads(table, hs, n + 1) /\ n + 1 < Len(table) /\ Sized(table)
  BY <1>9, <1>10, Zenon DEF Indexed
<1> QED BY <1>1, <1>4, <1>8, <1>11

\* The state after a removal.
LEMMA RemoveStep ==
  ASSUME MapInv, NEW at \in DOMAIN entries,
         NEW ents, ents = Removed(entries, at),
         NEW hs, hs = Removed(hashes, at),
         NEW table, table = Reindexed(hs)
  PROVE  /\ ents \in Seq([key : KeyObjs, val : Vals]) /\ Len(ents) = Len(entries) - 1
         /\ hs \in [DOMAIN ents -> 0 .. (HashSize - 1)]
         /\ table # <<>> => Leads(table, hs, Len(ents)) /\ Len(ents) < Len(table) /\ Sized(table)
<1>0. TypeOK BY DEF MapInv
<1>1. /\ entries \in Seq([key : KeyObjs, val : Vals]) /\ hashes \in Seq(0 .. (HashSize - 1))
      /\ hashes \in Seq(Nat) /\ Len(hashes) = Len(entries) /\ DOMAIN hashes = DOMAIN entries
      /\ Len(entries) \in Nat
  BY <1>0, TypeFacts, Zenon
<1>2. ents \in Seq([key : KeyObjs, val : Vals]) /\ Len(ents) = Len(entries) - 1 /\ DOMAIN ents = 1 .. (Len(entries) - 1)
  BY <1>1, RemovedElements, Zenon
<1>3. /\ hs \in Seq(0 .. (HashSize - 1)) /\ Len(hs) = Len(entries) - 1 /\ Len(hs) \in Nat
      /\ DOMAIN hs = 1 .. (Len(entries) - 1)
  <2>1. at \in DOMAIN hashes BY <1>1, Zenon
  <2>2. /\ hs \in Seq(0 .. (HashSize - 1)) /\ Len(hs) = Len(hashes) - 1 /\ Len(hs) \in Nat
        /\ DOMAIN hs = 1 .. (Len(hashes) - 1)
    BY <1>1, <2>1, RemovedElements, Zenon
  <2> QED BY <1>1, <2>2, Zenon
<1>4. hs \in Seq(Nat)
  BY <1>1, RemovedElements, Zenon
<1>5. hs \in [DOMAIN ents -> 0 .. (HashSize - 1)]
  BY <1>2, <1>3, SeqIsFcn, Zenon
<1>6. Len(hs) <= MaxEntries
  BY <1>1, <1>3, MapAssumption DEF MapInv
<1>7. Leads(RebuildIndex(hs), hs, Len(hs)) /\ Len(hs) < Len(RebuildIndex(hs)) /\ Sized(RebuildIndex(hs))
  BY <1>4, <1>6, RebuildLeads, Zenon
<1>8. table # <<>> => table = RebuildIndex(hs)
  BY Zenon DEF Reindexed
<1>9. Len(hs) = Len(ents) BY <1>2, <1>3, Zenon
<1> QED BY <1>2, <1>5, <1>7, <1>8, <1>9, Zenon

\* The invariant in the shape the lemmas about the steps give it.
LEMMA Reassemble ==
  ASSUME NEW ob \in [KeyObjs -> Range(Contents) \cup Writes],
         obj' = ob, frozen' \in BOOLEAN, ret' \in Vals \cup {None, Done},
         entries' \in Seq([key : KeyObjs, val : Vals]), Len(entries') <= MaxEntries,
         hashes' \in [DOMAIN entries' -> 0 .. (HashSize - 1)],
         index' # <<>> => Leads(index', hashes', Len(entries')) /\ Len(entries') < Len(index') /\ Sized(index')
  PROVE  MapInv'
<1>1. index' \in Seq(0 .. Len(entries'))
  <2>1. CASE index' = <<>> BY <2>1
  <2>2. CASE index' # <<>> BY <2>2, Zenon DEF Leads
  <2> QED BY <2>1, <2>2, Zenon
<1>2. TypeOK' BY <1>1, Zenon DEF TypeOK, Sized, Capacity
<1> QED BY <1>2, Zenon DEF MapInv

\* Every native and every write keeps the invariant.
LEMMA StepMap ==
  ASSUME MapInv, [Next]_vars
  PROVE  MapInv'
<1>0. /\ obj \in [KeyObjs -> Range(Contents) \cup Writes]
      /\ frozen \in BOOLEAN /\ ret \in Vals \cup {None, Done}
      /\ entries \in Seq([key : KeyObjs, val : Vals]) /\ Len(entries) <= MaxEntries
      /\ hashes \in [DOMAIN entries -> 0 .. (HashSize - 1)]
      /\ index # <<>> => Leads(index, hashes, Len(entries)) /\ Len(entries) < Len(index) /\ Sized(index)
  BY Zenon DEF MapInv, TypeOK
<1>h. \A k \in KeyObjs : HashValue(obj[k]) \in 0 .. (HashSize - 1) /\ HashValue(obj[k]) \in Nat
  BY TypeFacts, Zenon DEF MapInv
<1>v. \A i \in DOMAIN entries : entries[i] \in [key : KeyObjs, val : Vals] /\ entries[i].val \in Vals
  <2>1. \A i \in DOMAIN entries : entries[i] \in [key : KeyObjs, val : Vals] BY <1>0, SeqElement, Zenon
  <2> QED BY <2>1
<1>1. CASE NativeMapGet
  <2>1. PICK k \in KeyObjs :
          ret' = IF Find(k, HashValue(obj[k])) = EMPTY THEN None ELSE entries[Find(k, HashValue(obj[k]))].val
    BY <1>1, Zenon DEF NativeMapGet
  <2>2. ret' \in Vals \cup {None, Done}
    BY <2>1, <1>h, <1>v, FindCorrect, Zenon
  <2>3. frozen' = frozen /\ obj' = obj /\ entries' = entries /\ hashes' = hashes /\ index' = index
    BY <1>1, Zenon DEF NativeMapGet, mapVars
  <2> QED BY <2>2, <2>3, <1>0, Reassemble, Zenon
<1>2. CASE NativeMapSet
  <2>0. frozen' = frozen /\ obj' = obj /\ ret' = Done
    BY <1>2, Zenon DEF NativeMapSet
  <2>1. PICK k \in KeyObjs, v \in Vals :
          IF Find(k, HashValue(obj[k])) # EMPTY
          THEN entries' = [entries EXCEPT ![Find(k, HashValue(obj[k]))].val = v] /\ UNCHANGED <<hashes, index>>
          ELSE /\ Len(entries) < MaxEntries
               /\ entries' = Append(entries, [key |-> k, val |-> v])
               /\ hashes' = Append(hashes, HashValue(obj[k]))
               /\ index' = Indexed(Append(hashes, HashValue(obj[k])), HashValue(obj[k]))
    BY <1>2, Zenon DEF NativeMapSet
  <2>2. CASE Find(k, HashValue(obj[k])) # EMPTY
    <3>1. PICK at \in DOMAIN entries : at = Find(k, HashValue(obj[k]))
      BY <2>2, <1>h, FindCorrect, Zenon
    <3>2. entries' = [entries EXCEPT ![at].val = v] /\ hashes' = hashes /\ index' = index
      BY <2>1, <2>2, <3>1, Zenon
    <3>3. [entries[at] EXCEPT !.val = v] \in [key : KeyObjs, val : Vals]
      BY <1>v
    <3>4. entries' \in Seq([key : KeyObjs, val : Vals]) /\ Len(entries') = Len(entries) /\ DOMAIN entries' = DOMAIN entries
      <4>1. entries' = [entries EXCEPT ![at] = [entries[at] EXCEPT !.val = v]] BY <3>2, Zenon
      <4>2. PICK e \in [key : KeyObjs, val : Vals] : e = [entries[at] EXCEPT !.val = v] BY <3>3, Zenon
      <4>3. entries' = [entries EXCEPT ![at] = e] BY <4>1, <4>2, Zenon
      <4> QED BY <4>3, <1>0
    <3>5. Len(entries') <= MaxEntries /\ hashes' \in [DOMAIN entries' -> 0 .. (HashSize - 1)]
      BY <3>2, <3>4, <1>0, Zenon
    <3>6. index' # <<>> => Leads(index', hashes', Len(entries')) /\ Len(entries') < Len(index') /\ Sized(index')
      BY <3>2, <3>4, <1>0, Zenon
    <3> QED BY <2>0, <3>4, <3>5, <3>6, <1>0, Reassemble, Zenon
  <2>3. CASE Find(k, HashValue(obj[k])) = EMPTY
    <3>0. PICK hash \in 0 .. (HashSize - 1) : hash = HashValue(obj[k]) BY <1>h, Zenon
    <3>1. PICK hs : hs = Append(hashes, hash) BY Zenon
    <3>2. /\ Len(entries) < MaxEntries
          /\ entries' = Append(entries, [key |-> k, val |-> v])
          /\ hashes' = hs
          /\ index' = Indexed(hs, hash)
      BY <2>1, <2>3, <3>0, <3>1, Zenon
    <3>3. /\ entries' \in Seq([key : KeyObjs, val : Vals]) /\ Len(entries') = Len(entries) + 1
          /\ hashes' \in [DOMAIN entries' -> 0 .. (HashSize - 1)]
          /\ index' # <<>> => Leads(index', hashes', Len(entries')) /\ Len(entries') < Len(index') /\ Sized(index')
      BY <3>1, <3>2, AppendStep, Zenon
    <3>4. Len(entries') <= MaxEntries
      <4>1. Len(entries) \in Nat /\ MaxEntries \in Nat BY <1>0, MapAssumption
      <4> QED BY <4>1, <3>2, <3>3
    <3> QED BY <2>0, <3>3, <3>4, <1>0, Reassemble, Zenon
  <2> QED BY <2>2, <2>3, Zenon
<1>3. CASE NativeMapRemove
  <2>0. frozen' = frozen /\ obj' = obj
    BY <1>3, Zenon DEF NativeMapRemove
  <2>1. PICK k \in KeyObjs :
          IF Find(k, HashValue(obj[k])) = EMPTY THEN ret' = None /\ UNCHANGED mapVars
          ELSE /\ ret' = entries[Find(k, HashValue(obj[k]))].val
               /\ entries' = Removed(entries, Find(k, HashValue(obj[k])))
               /\ hashes' = Removed(hashes, Find(k, HashValue(obj[k])))
               /\ index' = Reindexed(hashes')
    BY <1>3, Zenon DEF NativeMapRemove
  <2>2. CASE Find(k, HashValue(obj[k])) = EMPTY
    <3>1. ret' = None /\ entries' = entries /\ hashes' = hashes /\ index' = index
      BY <2>1, <2>2, Zenon DEF mapVars
    <3> QED BY <2>0, <3>1, <1>0, Reassemble, Zenon
  <2>3. CASE Find(k, HashValue(obj[k])) # EMPTY
    <3>1. PICK at \in DOMAIN entries : at = Find(k, HashValue(obj[k]))
      BY <2>3, <1>h, FindCorrect, Zenon
    <3>2. /\ ret' = entries[at].val /\ entries' = Removed(entries, at)
          /\ hashes' = Removed(hashes, at) /\ index' = Reindexed(hashes')
      BY <2>1, <2>3, <3>1, Zenon
    <3>3. /\ entries' \in Seq([key : KeyObjs, val : Vals]) /\ Len(entries') = Len(entries) - 1
          /\ hashes' \in [DOMAIN entries' -> 0 .. (HashSize - 1)]
          /\ index' # <<>> => Leads(index', hashes', Len(entries')) /\ Len(entries') < Len(index') /\ Sized(index')
      BY <3>2, RemoveStep, Zenon
    <3>4. Len(entries') <= MaxEntries
      <4>1. Len(entries) \in Nat /\ MaxEntries \in Nat BY <1>0, MapAssumption
      <4> QED BY <4>1, <1>0, <3>3
    <3>5. ret' \in Vals \cup {None, Done} BY <3>2, <1>v, Zenon
    <3> QED BY <2>0, <3>3, <3>4, <3>5, <1>0, Reassemble, Zenon
  <2> QED BY <2>2, <2>3, Zenon
<1>4. CASE NativeMapClear
  <2>1. entries' = <<>> /\ hashes' = <<>> /\ index' = <<>> /\ ret' = Done /\ frozen' = frozen /\ obj' = obj
    BY <1>4, Zenon DEF NativeMapClear
  <2>2. entries' \in Seq([key : KeyObjs, val : Vals]) /\ Len(entries') <= MaxEntries
    BY <2>1, MapAssumption
  <2>3. hashes' \in [DOMAIN entries' -> 0 .. (HashSize - 1)]
    BY <2>1
  <2> QED BY <2>1, <2>2, <2>3, <1>0, Reassemble, Zenon
<1>5. CASE WriteKey
  <2>1. frozen' = frozen /\ entries' = entries /\ hashes' = hashes /\ index' = index /\ ret' = ret
    BY <1>5, Zenon DEF WriteKey, mapVars
  <2>2. PICK k \in KeyObjs, v \in Writes : obj' = [obj EXCEPT ![k] = v]
    BY <1>5, Zenon DEF WriteKey
  <2>3. obj' \in [KeyObjs -> Range(Contents) \cup Writes]
    BY <2>2, <1>0
  <2> QED BY <2>1, <2>3, <1>0, Reassemble, Zenon
<1>6. CASE UNCHANGED vars
  <2>1. frozen' = frozen /\ obj' = obj /\ entries' = entries /\ hashes' = hashes /\ index' = index /\ ret' = ret
    BY <1>6, Zenon DEF vars, mapVars
  <2> QED BY <2>1, <1>0, Reassemble, Zenon
<1> QED BY <1>1, <1>2, <1>3, <1>4, <1>5, <1>6, Zenon DEF Next

\* While no key changes, find decides whether the map has an equal key.
LEMMA FindExact ==
  ASSUME MapInv, KeysInv, frozen, NEW k \in KeyObjs, NEW at, at = Find(k, HashValue(obj[k]))
  PROVE  /\ at = EMPTY => \A i \in DOMAIN entries : ~SameKey(obj, entries[i].key, k)
         /\ at # EMPTY => /\ at \in DOMAIN entries
                          /\ \A i \in DOMAIN entries : SameKey(obj, entries[i].key, k) <=> i = at
<1>0. /\ \A i \in DOMAIN entries : entries[i].key \in KeyObjs
      /\ \A o \in KeyObjs : obj[o] \in KeyValue /\ HashValue(obj[o]) \in Nat
  BY TypeFacts, Zenon DEF MapInv
<1>1. ASSUME NEW i \in DOMAIN entries
      PROVE  SameKey(obj, entries[i].key, k) <=> IsEntry(i, k, HashValue(obj[k]))
  <2>1. hashes[i] = HashValue(obj[entries[i].key]) BY Zenon DEF KeysInv
  <2>2. SameKey(obj, entries[i].key, k) => hashes[i] = HashValue(obj[k])
    BY <1>0, <2>1, EqualValuesHashEqual, Zenon
  <2> QED BY <2>2, Zenon DEF IsEntry
<1>2. /\ at = EMPTY => \A i \in DOMAIN entries : ~IsEntry(i, k, HashValue(obj[k]))
      /\ at # EMPTY => at \in DOMAIN entries /\ IsEntry(at, k, HashValue(obj[k]))
  BY <1>0, FindCorrect, Zenon
<1>3. ASSUME at # EMPTY, NEW i \in DOMAIN entries, SameKey(obj, entries[i].key, k) PROVE i = at
  <2>1. at \in DOMAIN entries /\ SameKey(obj, entries[at].key, k) BY <1>1, <1>2, <1>3, Zenon
  <2>2. SameKey(obj, k, entries[at].key) BY <2>1, <1>0, SameKeySymmetric, Zenon
  <2>3. SameKey(obj, entries[i].key, entries[at].key)
    BY <2>1, <2>2, <1>0, <1>3, SameKeyTransitive, Zenon
  <2> QED BY <2>1, <2>3, Zenon DEF KeysInv
<1> QED BY <1>1, <1>2, <1>3, Zenon

\* What KeysInv says of entries that keep their keys and hashes, at the
\* positions from[i] of the state before.
LEMMA KeysKept ==
  ASSUME KeysInv, frozen, NEW from, DOMAIN entries' = DOMAIN from,
         \A i \in DOMAIN entries' :
           /\ from[i] \in DOMAIN entries /\ entries'[i].key = entries[from[i]].key
           /\ hashes'[i] = hashes[from[i]] /\ obj'[entries[from[i]].key] = obj[entries[from[i]].key],
         \A i, j \in DOMAIN entries' : from[i] = from[j] => i = j
  PROVE  KeysInv'
<1>1. ASSUME NEW i \in DOMAIN entries' PROVE hashes'[i] = HashValue(obj'[entries'[i].key])
  <2>1. hashes[from[i]] = HashValue(obj[entries[from[i]].key]) BY Zenon DEF KeysInv
  <2>2. obj'[entries'[i].key] = obj[entries[from[i]].key] BY Zenon
  <2> QED BY <2>1, <2>2, Zenon
<1>2. ASSUME NEW i \in DOMAIN entries', NEW j \in DOMAIN entries',
             SameKey(obj', entries'[i].key, entries'[j].key)
      PROVE  i = j
  <2>1. SameKey(obj, entries[from[i]].key, entries[from[j]].key) BY <1>2, SameKeyMeans, Zenon
  <2>2. from[i] = from[j] BY <2>1, Zenon DEF KeysInv
  <2> QED BY <2>2, Zenon
<1> QED BY <1>1, <1>2, Zenon DEF KeysInv

\* No native makes two entries with equal keys, or a hash that is not its
\* key's.
LEMMA StepKeys ==
  ASSUME MapInv, KeysInv, [Next]_vars
  PROVE  KeysInv'
<1>0. frozen' = frozen
  BY Zenon DEF Next, vars, NativeMapGet, NativeMapSet, NativeMapRemove, NativeMapClear, WriteKey
<1>1. SUFFICES ASSUME frozen PROVE KeysInv'
  BY <1>0, Zenon DEF KeysInv
<1>t. /\ entries \in Seq([key : KeyObjs, val : Vals]) /\ hashes \in Seq(0 .. (HashSize - 1))
      /\ Len(entries) \in Nat /\ DOMAIN entries = 1 .. Len(entries) /\ Len(hashes) = Len(entries)
      /\ DOMAIN hashes = DOMAIN entries
      /\ \A i \in DOMAIN entries : entries[i].key \in KeyObjs
      /\ \A o \in KeyObjs : obj[o] \in KeyValue
  BY TypeFacts, Zenon DEF MapInv
<1>s. ASSUME entries' = entries, hashes' = hashes,
             \A i \in DOMAIN entries : obj'[entries[i].key] = obj[entries[i].key]
      PROVE  KeysInv'
  BY <1>s, <1>1, SameKeyMeans, Zenon DEF KeysInv
<1>2. CASE NativeMapSet
  <2>0. obj' = obj BY <1>2, Zenon DEF NativeMapSet
  <2>1. PICK k \in KeyObjs, v \in Vals :
          IF Find(k, HashValue(obj[k])) # EMPTY
          THEN entries' = [entries EXCEPT ![Find(k, HashValue(obj[k]))].val = v] /\ UNCHANGED <<hashes, index>>
          ELSE /\ Len(entries) < MaxEntries
               /\ entries' = Append(entries, [key |-> k, val |-> v])
               /\ hashes' = Append(hashes, HashValue(obj[k]))
               /\ index' = Indexed(Append(hashes, HashValue(obj[k])), HashValue(obj[k]))
    BY <1>2, Zenon DEF NativeMapSet
  <2>2. CASE Find(k, HashValue(obj[k])) # EMPTY
    <3>1. PICK at \in DOMAIN entries : at = Find(k, HashValue(obj[k]))
      BY <2>2, <1>1, FindExact, Zenon
    <3>2. entries' = [entries EXCEPT ![at].val = v] /\ hashes' = hashes
      BY <2>1, <2>2, <3>1, Zenon
    <3>3. DOMAIN entries' = DOMAIN entries /\ \A i \in DOMAIN entries : entries'[i].key = entries[i].key
      <4>1. \A i \in DOMAIN entries : entries[i] \in [key : KeyObjs, val : Vals] BY <1>t, SeqElement, Zenon
      <4>2. DOMAIN entries' = DOMAIN entries BY <3>2
      <4>3. ASSUME NEW i \in DOMAIN entries PROVE entries'[i].key = entries[i].key
        <5>1. entries'[i] = IF i = at THEN [entries[i] EXCEPT !.val = v] ELSE entries[i] BY <3>2
        <5>2. [entries[i] EXCEPT !.val = v].key = entries[i].key BY <4>1
        <5> QED BY <5>1, <5>2, Zenon
      <4> QED BY <4>2, <4>3, Zenon
    <3> QED BY <2>0, <3>2, <3>3, <1>1, Zenon DEF KeysInv
  <2>3. CASE Find(k, HashValue(obj[k])) = EMPTY
    <3>1. entries' = Append(entries, [key |-> k, val |-> v]) /\ hashes' = Append(hashes, HashValue(obj[k]))
      BY <2>1, <2>3, Zenon
    <3>2. PICK n \in Nat : n = Len(entries) /\ n = Len(hashes) BY <1>t
    <3>3. DOMAIN entries' = 1 .. (n + 1) /\ \A i \in 1 .. n : entries'[i] = entries[i] /\ hashes'[i] = hashes[i]
      BY <1>t, <3>1, <3>2
    <3>4. entries'[n + 1] = [key |-> k, val |-> v] /\ hashes'[n + 1] = HashValue(obj[k])
      BY <1>t, <3>1, <3>2
    <3>5. entries'[n + 1].key = k BY <3>4
    <3>6. \A i \in 1 .. n : i \in DOMAIN entries BY <1>t, <3>2
    <3>7. \A i \in 1 .. n : ~SameKey(obj, entries[i].key, k)
      BY <2>3, <3>6, <1>1, FindExact, Zenon
    <3>8. \A i \in 1 .. n : ~SameKey(obj, k, entries[i].key)
      BY <3>6, <3>7, <1>t, SameKeySymmetric, Zenon
    <3>9. \A i \in DOMAIN entries' : i \in 1 .. n \/ i = n + 1 BY <3>3
    <3>10. ASSUME NEW i \in DOMAIN entries' PROVE hashes'[i] = HashValue(obj'[entries'[i].key])
      <4>1. CASE i \in 1 .. n
        <5>1. hashes[i] = HashValue(obj[entries[i].key]) BY <4>1, <3>6, <1>1, Zenon DEF KeysInv
        <5>2. hashes'[i] = hashes[i] /\ entries'[i] = entries[i] BY <4>1, <3>3, Zenon
        <5> QED BY <5>1, <5>2, <2>0, Zenon
      <4>2. CASE i = n + 1
        BY <4>2, <2>0, <3>4, <3>5, Zenon
      <4> QED BY <4>1, <4>2, <3>9, Zenon
    <3>11. ASSUME NEW i \in DOMAIN entries', NEW j \in DOMAIN entries',
                  SameKey(obj', entries'[i].key, entries'[j].key)
           PROVE  i = j
      <4>1. CASE i \in 1 .. n /\ j \in 1 .. n
        BY <4>1, <3>11, <2>0, <3>3, <3>6, <1>1, Zenon DEF KeysInv
      <4>2. CASE i = n + 1 /\ j \in 1 .. n
        BY <4>2, <3>11, <2>0, <3>3, <3>5, <3>8, Zenon
      <4>3. CASE i \in 1 .. n /\ j = n + 1
        BY <4>3, <3>11, <2>0, <3>3, <3>5, <3>7, Zenon
      <4> QED BY <4>1, <4>2, <4>3, <3>9, Zenon
    <3> QED BY <3>10, <3>11, Zenon DEF KeysInv
  <2> QED BY <2>2, <2>3, Zenon
<1>3. CASE NativeMapRemove
  <2>0. obj' = obj BY <1>3, Zenon DEF NativeMapRemove
  <2>1. PICK k \in KeyObjs :
          IF Find(k, HashValue(obj[k])) = EMPTY THEN ret' = None /\ UNCHANGED mapVars
          ELSE /\ ret' = entries[Find(k, HashValue(obj[k]))].val
               /\ entries' = Removed(entries, Find(k, HashValue(obj[k])))
               /\ hashes' = Removed(hashes, Find(k, HashValue(obj[k])))
               /\ index' = Reindexed(hashes')
    BY <1>3, Zenon DEF NativeMapRemove
  <2>2. CASE Find(k, HashValue(obj[k])) = EMPTY
    BY <2>0, <2>1, <2>2, <1>s, Zenon DEF mapVars
  <2>3. CASE Find(k, HashValue(obj[k])) # EMPTY
    <3>1. PICK at \in DOMAIN entries : at = Find(k, HashValue(obj[k]))
      BY <2>3, <1>1, FindExact, Zenon
    <3>2. entries' = Removed(entries, at) /\ hashes' = Removed(hashes, at)
      BY <2>1, <2>3, <3>1, Zenon
    <3>3. PICK n \in Nat : n = Len(entries) - 1 /\ n = Len(hashes) - 1 /\ at \in 1 .. (n + 1)
      <4>1. at \in 1 .. Len(entries) BY <1>t, Zenon
      <4>2. Len(entries) - 1 \in Nat /\ Len(entries) - 1 + 1 = Len(entries) BY <4>1, <1>t
      <4> QED BY <4>1, <4>2, <1>t
    <3> DEFINE from == [i \in 1 .. n |-> IF i < at THEN i ELSE i + 1]
    <3>4. DOMAIN entries' = 1 .. n /\ \A i \in 1 .. n : i \in DOMAIN entries /\ i + 1 \in DOMAIN entries
      <4>1. DOMAIN entries' = 1 .. (Len(entries) - 1) BY <1>t, <3>2, RemovedElements, Zenon
      <4> QED BY <4>1, <3>3, <1>t
    <3>5. ASSUME NEW i \in 1 .. n
          PROVE  from[i] \in DOMAIN entries /\ entries'[i] = entries[from[i]] /\ hashes'[i] = hashes[from[i]]
      <4>1. i \in 1 .. (Len(entries) - 1) /\ i \in 1 .. (Len(hashes) - 1) BY <3>3
      <4>2. /\ i < at => entries'[i] = entries[i]
            /\ i >= at => entries'[i] = entries[i + 1]
        <5>1. \A j \in 1 .. (Len(entries) - 1) :
                /\ j < at => Removed(entries, at)[j] = entries[j]
                /\ j >= at => Removed(entries, at)[j] = entries[j + 1] /\ j + 1 \in DOMAIN entries
                /\ j \in DOMAIN entries
          BY <1>t, RemovedElements, Zenon
        <5> QED BY <5>1, <4>1, <3>2, Zenon
      <4>3. /\ i < at => hashes'[i] = hashes[i]
            /\ i >= at => hashes'[i] = hashes[i + 1]
        <5>1. at \in DOMAIN hashes BY <1>t, Zenon
        <5>2. \A j \in 1 .. (Len(hashes) - 1) :
                /\ j < at => Removed(hashes, at)[j] = hashes[j]
                /\ j >= at => Removed(hashes, at)[j] = hashes[j + 1] /\ j + 1 \in DOMAIN hashes
                /\ j \in DOMAIN hashes
          BY <5>1, <1>t, RemovedElements, Zenon
        <5> QED BY <5>2, <4>1, <3>2, Zenon
      <4>4. i < at \/ i >= at BY <3>3
      <4>5. from[i] = IF i < at THEN i ELSE i + 1 BY Zenon
      <4>6. ~(i < at) => i >= at BY <3>3
      <4> HIDE DEF from
      <4> QED BY <4>2, <4>3, <4>5, <4>6, <3>4, Zenon
    <3>6. \A i, j \in 1 .. n : from[i] = from[j] => i = j
      BY <3>3
    <3>7. DOMAIN from = 1 .. n BY Zenon
    <3> HIDE DEF from
    <3>8. \A i \in DOMAIN entries' :
            /\ from[i] \in DOMAIN entries /\ entries'[i].key = entries[from[i]].key
            /\ hashes'[i] = hashes[from[i]] /\ obj'[entries[from[i]].key] = obj[entries[from[i]].key]
      BY <2>0, <3>4, <3>5, Zenon
    <3>9. DOMAIN entries' = DOMAIN from /\ \A i, j \in DOMAIN entries' : from[i] = from[j] => i = j
      BY <3>4, <3>6, <3>7, Zenon
    <3> QED BY <3>8, <3>9, <1>1, KeysKept
  <2> QED BY <2>2, <2>3, Zenon
<1>4. CASE NativeMapClear
  <2>1. DOMAIN entries' = {} BY <1>4 DEF NativeMapClear
  <2> QED BY <2>1, Zenon DEF KeysInv
<1>5. CASE WriteKey
  <2>1. entries' = entries /\ hashes' = hashes
    BY <1>5, Zenon DEF WriteKey, mapVars
  <2>2. PICK k \in KeyObjs, v \in Writes :
          obj' = [obj EXCEPT ![k] = v] /\ \A i \in DOMAIN entries : entries[i].key # k
    BY <1>5, <1>1, Zenon DEF WriteKey
  <2>3. \A i \in DOMAIN entries : obj'[entries[i].key] = obj[entries[i].key]
    <3>1. obj \in [KeyObjs -> Range(Contents) \cup Writes] BY DEF MapInv, TypeOK
    <3> QED BY <2>2, <3>1, <1>t, Zenon
  <2> QED BY <2>1, <2>3, <1>s, Zenon
<1>6. CASE NativeMapGet \/ UNCHANGED vars
  <2>1. obj' = obj /\ entries' = entries /\ hashes' = hashes
    BY <1>6, Zenon DEF NativeMapGet, vars, mapVars
  <2> QED BY <2>1, <1>s, Zenon
<1> QED BY <1>2, <1>3, <1>4, <1>5, <1>6, Zenon DEF Next

-----------------------------------------------------------------------------
(* The theorems.                                                           *)

\* The inductive invariant holds in every reachable state.
LEMMA Invariance == Spec => [](MapInv /\ KeysInv)
<1>1. Init => MapInv /\ KeysInv BY InitMap
<1>2. MapInv /\ KeysInv /\ [Next]_vars => MapInv' /\ KeysInv'
  BY StepMap, StepKeys
<1> QED BY <1>1, <1>2, PTL DEF Spec

\* Entries, hashes and index keep their shape under every map native, and the
\* capacity of an index is always a power of two and at least the floor.
THEOREM MapTypeCorrect == Spec => []TypeOK
<1>1. MapInv => TypeOK BY DEF MapInv
<1> QED BY <1>1, Invariance, PTL

\* However the hashes collide, and at every load: the index holds each entry exactly
\* once, no empty slot cuts it off from its hash's slot, and an empty slot ends
\* every probe of find and index_insert.
THEOREM IndexIsExact == Spec => []IndexExact
<1>1. ASSUME MapInv PROVE IndexExact
  <2>1. SUFFICES ASSUME index # <<>>
        PROVE  /\ EMPTY \in Range(index)
               /\ \A i \in DOMAIN entries :
                    \E d \in 0 .. (Capacity - 1) :
                      /\ \A s \in DOMAIN index : index[s] = i <=> s = SlotAt(hashes[i], d, Capacity) + 1
                      /\ \A c \in 0 .. (d - 1) : index[SlotAt(hashes[i], c, Capacity) + 1] # EMPTY
    BY Zenon DEF IndexExact
  <2>2. /\ Leads(index, hashes, Len(entries)) /\ Len(entries) < Len(index) /\ Sized(index)
        /\ Len(entries) \in Nat /\ DOMAIN entries = 1 .. Len(entries)
    BY <1>1, <2>1, TypeFacts, Zenon DEF MapInv
  <2>3. PICK s \in 1 .. Len(index) : index[s] = EMPTY
    BY <2>2, EmptySlot, Zenon
  <2>4. s \in DOMAIN index BY <2>2 DEF Leads
  <2>5. EMPTY \in Range(index) BY <2>3, <2>4, Zenon DEF Range
  <2>6. \A i \in DOMAIN entries : Reaches(index, Len(index), hashes[i], i)
    BY <2>2, Zenon DEF Leads
  <2> QED BY <2>5, <2>6, Zenon DEF Reaches, Capacity
<1> QED BY <1>1, Invariance, PTL

\* An entry whose stored hash is still its key's hash is found by a lookup with
\* any object that equals the key, whatever the program wrote into the keys of
\* the others.
THEOREM OthersAreFound == Spec => []OthersFound
<1>1. ASSUME MapInv PROVE OthersFound
  <2>1. SUFFICES ASSUME NEW i \in DOMAIN entries, NEW k \in KeyObjs,
                        hashes[i] = HashValue(obj[entries[i].key]), SameKey(obj, entries[i].key, k)
                 PROVE  Find(k, HashValue(obj[k])) # EMPTY
    BY Zenon DEF OthersFound
  <2>2. obj[entries[i].key] \in KeyValue /\ obj[k] \in KeyValue /\ HashValue(obj[k]) \in Nat
    BY <1>1, TypeFacts, Zenon DEF MapInv
  <2>3. HashValue(obj[entries[i].key]) = HashValue(obj[k])
    BY <2>1, <2>2, EqualValuesHashEqual, Zenon
  <2>4. IsEntry(i, k, HashValue(obj[k])) BY <2>1, <2>3, Zenon DEF IsEntry
  <2> QED BY <1>1, <2>2, <2>4, FindCorrect, Zenon
<1> QED BY <1>1, Invariance, PTL

\* The keys of the abstract map, and the refinement mapping.
HeldKeys == [ref : KeyObjs, value : Range(Contents) \cup Writes]
OMap == IF frozen THEN Shown ELSE <<>>
ORet == IF frozen THEN ret ELSE Done

\* What the map shows of its entries: the value each key has now.
LEMMA ShownFacts ==
  ASSUME TypeOK
  PROVE  /\ DOMAIN Shown = DOMAIN entries /\ Len(Shown) = Len(entries)
         /\ Shown \in Seq([key : HeldKeys, val : Vals])
         /\ \A i \in DOMAIN entries : /\ Shown[i] = [key |-> Held(obj, entries[i].key), val |-> entries[i].val]
                                      /\ Shown[i].key = Held(obj, entries[i].key) /\ Shown[i].val = entries[i].val
<1>1. PICK n \in Nat : n = Len(entries) /\ DOMAIN entries = 1 .. n BY TypeFacts
<1>2. ASSUME NEW i \in DOMAIN entries
      PROVE  /\ Shown[i] = [key |-> Held(obj, entries[i].key), val |-> entries[i].val]
             /\ Shown[i].key = Held(obj, entries[i].key) /\ Shown[i].val = entries[i].val
             /\ Shown[i] \in [key : HeldKeys, val : Vals]
  <2>1. Shown[i] = [key |-> Held(obj, entries[i].key), val |-> entries[i].val] BY Zenon DEF Shown
  <2>2. entries[i] \in [key : KeyObjs, val : Vals] BY TypeFacts, SeqElement, Zenon
  <2>3. entries[i].key \in KeyObjs /\ entries[i].val \in Vals BY <2>2
  <2>4. Held(obj, entries[i].key) \in HeldKeys BY <2>3 DEF TypeOK, HeldKeys, Held
  <2> QED BY <2>1, <2>3, <2>4
<1>3. DOMAIN Shown = DOMAIN entries BY Zenon DEF Shown
<1>4. Shown \in [1 .. n -> [key : HeldKeys, val : Vals]]
  <2>1. Shown = [i \in 1 .. n |-> Shown[i]] BY <1>1 DEF Shown
  <2> QED BY <2>1, <1>1, <1>2, Zenon
<1>5. Shown \in Seq([key : HeldKeys, val : Vals]) /\ Len(Shown) = n
  BY <1>4, FcnIsSeq, Zenon
<1> QED BY <1>1, <1>2, <1>3, <1>5, Zenon

\* What the abstract map finds is what find finds.
LEMMA PositionIsFind ==
  ASSUME MapInv, KeysInv, frozen, NEW k \in KeyObjs, NEW at, at = Find(k, HashValue(obj[k]))
  PROVE  /\ Abstract!Position(Held(obj, k)) = IF at = EMPTY THEN {} ELSE {at}
         /\ at # EMPTY => at \in DOMAIN entries /\ Abstract!At(Held(obj, k)) = at
         /\ Abstract!Lookup(Held(obj, k)) = IF at = EMPTY THEN None ELSE entries[at].val
<1>1. OMap = Shown BY Zenon DEF OMap
<1>2. /\ DOMAIN Shown = DOMAIN entries
      /\ \A i \in DOMAIN entries : Shown[i].key = Held(obj, entries[i].key) /\ Shown[i].val = entries[i].val
  BY ShownFacts, Zenon DEF MapInv
<1>3. Abstract!Position(Held(obj, k)) = {i \in DOMAIN OMap : ValuesEq(OMap[i].key, Held(obj, k))}
  BY Zenon DEF Abstract!Position, OMap
<1>4. Abstract!Position(Held(obj, k)) = {i \in DOMAIN entries : SameKey(obj, entries[i].key, k)}
  BY <1>1, <1>2, <1>3, Zenon DEF SameKey
<1>5. /\ at = EMPTY => \A i \in DOMAIN entries : ~SameKey(obj, entries[i].key, k)
      /\ at # EMPTY => /\ at \in DOMAIN entries
                       /\ \A i \in DOMAIN entries : SameKey(obj, entries[i].key, k) <=> i = at
  BY FindExact, Zenon
<1>6. Abstract!Position(Held(obj, k)) = IF at = EMPTY THEN {} ELSE {at}
  BY <1>4, <1>5, Zenon
<1>7. at # EMPTY => Abstract!At(Held(obj, k)) = at
  BY <1>6, Zenon DEF Abstract!At
<1>8. Abstract!Lookup(Held(obj, k)) = IF at = EMPTY THEN None ELSE entries[at].val
  <2>1. Abstract!Lookup(Held(obj, k)) = IF Abstract!Position(Held(obj, k)) = {} THEN None ELSE OMap[Abstract!At(Held(obj, k))].val
    BY Zenon DEF Abstract!Lookup, OMap
  <2> QED BY <2>1, <1>1, <1>2, <1>5, <1>6, <1>7, Zenon
<1> QED BY <1>5, <1>6, <1>7, <1>8, Zenon

\* Each step of a map whose keys stay alone is a step of the ordered map.
LEMMA StepRefines ==
  ASSUME MapInv, KeysInv, MapInv', [Next]_vars
  PROVE  [Abstract!Next]_<<OMap, ORet>>
<1>0. frozen' = frozen
  BY Zenon DEF Next, vars, NativeMapGet, NativeMapSet, NativeMapRemove, NativeMapClear, WriteKey
<1>1. CASE ~frozen
  <2>1. OMap' = OMap /\ ORet' = ORet BY <1>0, <1>1, Zenon DEF OMap, ORet
  <2> QED BY <2>1, Zenon
<1>2. CASE frozen
  <2>0. OMap = Shown /\ ORet = ret /\ OMap' = Shown' /\ ORet' = ret'
    BY <1>0, <1>2, Zenon DEF OMap, ORet
  <2>t. /\ entries \in Seq([key : KeyObjs, val : Vals]) /\ Len(entries) \in Nat
        /\ DOMAIN entries = 1 .. Len(entries)
        /\ \A i \in DOMAIN entries : entries[i].key \in KeyObjs
    BY TypeFacts, Zenon DEF MapInv
  <2>s. /\ DOMAIN Shown = DOMAIN entries /\ Len(Shown) = Len(entries)
        /\ Shown \in Seq([key : HeldKeys, val : Vals])
        /\ \A i \in DOMAIN entries : /\ Shown[i] = [key |-> Held(obj, entries[i].key), val |-> entries[i].val]
                                     /\ Shown[i].key = Held(obj, entries[i].key) /\ Shown[i].val = entries[i].val
    BY ShownFacts, Zenon DEF MapInv
  <2>p. Shown' = [i \in DOMAIN entries' |-> [key |-> Held(obj', entries'[i].key), val |-> entries'[i].val]]
    BY Zenon DEF Shown
  <2>k. \A k \in KeyObjs : Held(obj, k) \in HeldKeys
    BY DEF MapInv, TypeOK, HeldKeys, Held
  <2>e. ASSUME entries' = entries, \A i \in DOMAIN entries : obj'[entries[i].key] = obj[entries[i].key]
        PROVE  Shown' = Shown
    BY <2>e, <2>p, Zenon DEF Shown, Held
  <2>1. CASE NativeMapGet
    <3>1. PICK k \in KeyObjs :
            ret' = IF Find(k, HashValue(obj[k])) = EMPTY THEN None ELSE entries[Find(k, HashValue(obj[k]))].val
      BY <2>1, Zenon DEF NativeMapGet
    <3>2. entries' = entries /\ obj' = obj BY <2>1, Zenon DEF NativeMapGet, mapVars
    <3>3. Shown' = Shown BY <3>2, <2>e, Zenon
    <3>4. ret' = Abstract!Lookup(Held(obj, k)) BY <3>1, <1>2, PositionIsFind, Zenon
    <3>5. Abstract!Get(Held(obj, k)) BY <3>3, <3>4, <2>0, Zenon DEF Abstract!Get, OMap, ORet
    <3> QED BY <3>5, <2>k, Zenon DEF Abstract!Next, HeldKeys
  <2>2. CASE NativeMapSet
    <3>0. obj' = obj /\ ret' = Done BY <2>2, Zenon DEF NativeMapSet
    <3>1. PICK k \in KeyObjs, v \in Vals :
            IF Find(k, HashValue(obj[k])) # EMPTY
            THEN entries' = [entries EXCEPT ![Find(k, HashValue(obj[k]))].val = v] /\ UNCHANGED <<hashes, index>>
            ELSE /\ Len(entries) < MaxEntries
                 /\ entries' = Append(entries, [key |-> k, val |-> v])
                 /\ hashes' = Append(hashes, HashValue(obj[k]))
                 /\ index' = Indexed(Append(hashes, HashValue(obj[k])), HashValue(obj[k]))
      BY <2>2, Zenon DEF NativeMapSet
    <3>2. PICK at : at = Find(k, HashValue(obj[k])) BY Zenon
    <3>3. /\ Abstract!Position(Held(obj, k)) = IF at = EMPTY THEN {} ELSE {at}
          /\ at # EMPTY => at \in DOMAIN entries
      BY <3>2, <1>2, PositionIsFind, Zenon
    <3>4. CASE at # EMPTY
      <4>1. entries' = [entries EXCEPT ![at].val = v] BY <3>1, <3>2, <3>4, Zenon
      <4>2. DOMAIN entries' = DOMAIN entries BY <4>1
      <4>3. ASSUME NEW i \in DOMAIN entries
            PROVE  [key |-> Held(obj', entries'[i].key), val |-> entries'[i].val]
                     = IF i \in Abstract!Position(Held(obj, k)) THEN [Shown[i] EXCEPT !.val = v] ELSE Shown[i]
        <5>0. entries[i] \in [key : KeyObjs, val : Vals] BY <2>t, SeqElement, Zenon
        <5>1. CASE i = at
          <6>1. entries'[i] = [entries[i] EXCEPT !.val = v] BY <4>1, <5>1
          <6>2. entries'[i].key = entries[i].key /\ entries'[i].val = v BY <6>1, <5>0
          <6>3. [Shown[i] EXCEPT !.val = v] = [key |-> Held(obj, entries[i].key), val |-> v] BY <2>s
          <6>4. i \in Abstract!Position(Held(obj, k)) BY <3>3, <3>4, <5>1, Zenon
          <6> QED BY <6>2, <6>3, <6>4, <3>0, Zenon
        <5>2. CASE i # at
          <6>1. entries'[i] = entries[i] BY <4>1, <5>2
          <6>2. i \notin Abstract!Position(Held(obj, k)) BY <3>3, <3>4, <5>2, Zenon
          <6> QED BY <6>1, <6>2, <2>s, <3>0, Zenon
        <5> QED BY <5>1, <5>2, Zenon
      <4>4. Shown' = [i \in DOMAIN Shown |-> IF i \in Abstract!Position(Held(obj, k)) THEN [Shown[i] EXCEPT !.val = v]
                                             ELSE Shown[i]]
        BY <4>2, <4>3, <2>p, <2>s, Zenon
      <4>5. Abstract!Position(Held(obj, k)) # {} BY <3>3, <3>4, Zenon
      <4>6. Abstract!Insert(Held(obj, k), v) BY <4>4, <4>5, <3>0, <2>0, Zenon DEF Abstract!Insert, OMap, ORet
      <4> QED BY <4>6, <2>k, Zenon DEF Abstract!Next, HeldKeys
    <3>5. CASE at = EMPTY
      <4>1. entries' = Append(entries, [key |-> k, val |-> v]) BY <3>1, <3>2, <3>5, Zenon
      <4>2. PICK n \in Nat : n = Len(entries) /\ DOMAIN entries = 1 .. n BY <2>t
      <4>3. /\ DOMAIN entries' = 1 .. (n + 1) /\ entries'[n + 1] = [key |-> k, val |-> v]
            /\ \A i \in 1 .. n : entries'[i] = entries[i]
        BY <4>1, <4>2, <2>t
      <4>4. PICK e \in [key : HeldKeys, val : Vals] : e = [key |-> Held(obj, k), val |-> v]
        BY <2>k
      <4>5. /\ Append(Shown, e)[n + 1] = e
            /\ \A i \in 1 .. n : Append(Shown, e)[i] = Shown[i]
            /\ Append(Shown, e) = [i \in 1 .. (n + 1) |-> Append(Shown, e)[i]]
        <5>1. n = Len(Shown) BY <4>2, <2>s, Zenon
        <5> HIDE DEF Shown
        <5>2. PICK sh \in Seq([key : HeldKeys, val : Vals]) : sh = Shown
          BY <2>s, Zenon
        <5>3. Append(sh, e)[Len(sh) + 1] = e /\ \A i \in 1 .. Len(sh) : Append(sh, e)[i] = sh[i]
          BY AppendElements
        <5>4. Append(sh, e) = [i \in 1 .. (Len(sh) + 1) |-> Append(sh, e)[i]]
          <6>1. PICK t \in [1 .. (Len(sh) + 1) -> [key : HeldKeys, val : Vals]] : t = Append(sh, e)
            BY AppendElements
          <6>2. t = [i \in 1 .. (Len(sh) + 1) |-> t[i]] OBVIOUS
          <6> QED BY <6>1, <6>2, Zenon
        <5> QED BY <5>1, <5>2, <5>3, <5>4, Zenon
      <4>6. ASSUME NEW i \in 1 .. (n + 1)
            PROVE  [key |-> Held(obj', entries'[i].key), val |-> entries'[i].val] = Append(Shown, e)[i]
        <5>1. CASE i = n + 1
          <6>1. entries'[i].key = k /\ entries'[i].val = v BY <5>1, <4>3
          <6> QED BY <6>1, <5>1, <4>4, <4>5, <3>0, Zenon
        <5>2. CASE i # n + 1
          <6>1. i \in 1 .. n BY <5>2
          <6> QED BY <6>1, <4>2, <4>3, <4>5, <2>s, <3>0, Zenon
        <5> QED BY <5>1, <5>2, Zenon
      <4>7. Shown' = Append(Shown, e) BY <4>3, <4>5, <4>6, <2>p, Zenon
      <4>8. Abstract!Position(Held(obj, k)) = {} BY <3>3, <3>5, Zenon
      <4>9. Abstract!Insert(Held(obj, k), v) BY <4>4, <4>7, <4>8, <3>0, <2>0, Zenon DEF Abstract!Insert, OMap, ORet
      <4> QED BY <4>9, <2>k, Zenon DEF Abstract!Next, HeldKeys
    <3> QED BY <3>4, <3>5, Zenon
  <2>3. CASE NativeMapRemove
    <3>0. obj' = obj BY <2>3, Zenon DEF NativeMapRemove
    <3>1. PICK k \in KeyObjs :
            IF Find(k, HashValue(obj[k])) = EMPTY THEN ret' = None /\ UNCHANGED mapVars
            ELSE /\ ret' = entries[Find(k, HashValue(obj[k]))].val
                 /\ entries' = Removed(entries, Find(k, HashValue(obj[k])))
                 /\ hashes' = Removed(hashes, Find(k, HashValue(obj[k])))
                 /\ index' = Reindexed(hashes')
      BY <2>3, Zenon DEF NativeMapRemove
    <3>2. PICK at : at = Find(k, HashValue(obj[k])) BY Zenon
    <3>3. /\ Abstract!Position(Held(obj, k)) = IF at = EMPTY THEN {} ELSE {at}
          /\ at # EMPTY => at \in DOMAIN entries /\ Abstract!At(Held(obj, k)) = at
          /\ Abstract!Lookup(Held(obj, k)) = IF at = EMPTY THEN None ELSE entries[at].val
      BY <3>2, <1>2, PositionIsFind, Zenon
    <3>4. CASE at = EMPTY
      <4>1. ret' = Abstract!Lookup(Held(obj, k)) /\ entries' = entries BY <3>1, <3>2, <3>3, <3>4, Zenon DEF mapVars
      <4>2. Shown' = Shown BY <4>1, <3>0, <2>e, Zenon
      <4>3. Abstract!Position(Held(obj, k)) = {} BY <3>3, <3>4, Zenon
      <4>4. Abstract!Remove(Held(obj, k)) BY <4>1, <4>2, <4>3, <2>0, Zenon DEF Abstract!Remove, OMap, ORet
      <4> QED BY <4>4, <2>k, Zenon DEF Abstract!Next, HeldKeys
    <3>5. CASE at # EMPTY
      <4>0. at \in DOMAIN entries BY <3>3, <3>5, Zenon
      <4>1. ret' = Abstract!Lookup(Held(obj, k)) /\ entries' = Removed(entries, at) BY <3>1, <3>2, <3>3, <3>5, Zenon
      <4>2. DOMAIN entries' = 1 .. (Len(entries) - 1) BY <4>0, <4>1, <2>t, RemovedElements, Zenon
      <4>3. \A j \in 1 .. (Len(entries) - 1) :
              /\ j < at => Removed(entries, at)[j] = entries[j]
              /\ j >= at => Removed(entries, at)[j] = entries[j + 1] /\ j + 1 \in DOMAIN entries
              /\ j \in DOMAIN entries
        BY <4>0, <2>t, RemovedElements, Zenon
      <4>4. ASSUME NEW i \in 1 .. (Len(entries) - 1)
            PROVE  [key |-> Held(obj', entries'[i].key), val |-> entries'[i].val]
                     = IF i < at THEN Shown[i] ELSE Shown[i + 1]
        <5>1. CASE i < at
          BY <5>1, <4>1, <4>3, <2>s, <3>0, Zenon
        <5>2. CASE ~(i < at)
          <6>1. i >= at BY <5>2, <4>0, <2>t
          <6>2. entries'[i] = entries[i + 1] /\ i + 1 \in DOMAIN entries BY <6>1, <4>1, <4>3, Zenon
          <6>3. Shown[i + 1] = [key |-> Held(obj, entries[i + 1].key), val |-> entries[i + 1].val]
            BY <6>2, <2>s, Zenon
          <6> QED BY <5>2, <6>2, <6>3, <3>0, Zenon
        <5> QED BY <5>1, <5>2, Zenon
      <4>5. Shown' = [i \in 1 .. (Len(Shown) - 1) |-> IF i < at THEN Shown[i] ELSE Shown[i + 1]]
        BY <4>2, <4>4, <2>p, <2>s, Zenon
      <4>6. Abstract!Position(Held(obj, k)) # {} /\ Abstract!At(Held(obj, k)) = at BY <3>3, <3>5, Zenon
      <4>7. Abstract!Remove(Held(obj, k)) BY <4>1, <4>5, <4>6, <2>0, Zenon DEF Abstract!Remove, OMap, ORet
      <4> QED BY <4>7, <2>k, Zenon DEF Abstract!Next, HeldKeys
    <3> QED BY <3>4, <3>5, Zenon
  <2>4. CASE NativeMapClear
    <3>1. entries' = <<>> /\ ret' = Done BY <2>4, Zenon DEF NativeMapClear
    <3>2. Shown' = <<>>
      <4>1. DOMAIN entries' = {} BY <3>1
      <4>2. DOMAIN Shown' = {} BY <4>1, <2>p, Zenon
      <4>3. Shown' = [i \in {} |-> 0] BY <2>p, <4>1
      <4>4. <<>> = [i \in {} |-> 0] OBVIOUS
      <4> QED BY <4>3, <4>4, Zenon
    <3>3. Abstract!Clear BY <3>1, <3>2, <2>0, Zenon DEF Abstract!Clear, OMap, ORet
    <3> QED BY <3>3, Zenon DEF Abstract!Next
  <2>5. CASE WriteKey
    <3>1. entries' = entries /\ ret' = ret BY <2>5, Zenon DEF WriteKey, mapVars
    <3>2. PICK k \in KeyObjs, v \in Writes :
            obj' = [obj EXCEPT ![k] = v] /\ \A i \in DOMAIN entries : entries[i].key # k
      BY <2>5, <1>2, Zenon DEF WriteKey
    <3>3. \A i \in DOMAIN entries : obj'[entries[i].key] = obj[entries[i].key]
      <4>1. obj \in [KeyObjs -> Range(Contents) \cup Writes] BY DEF MapInv, TypeOK
      <4> QED BY <3>2, <4>1, <2>t, Zenon
    <3>4. Shown' = Shown BY <3>1, <3>3, <2>e, Zenon
    <3> QED BY <3>1, <3>4, <2>0, Zenon
  <2>6. CASE UNCHANGED vars
    <3>1. entries' = entries /\ obj' = obj /\ ret' = ret BY <2>6, Zenon DEF vars, mapVars
    <3>2. Shown' = Shown BY <3>1, <2>e, Zenon
    <3> QED BY <3>1, <3>2, <2>0, Zenon
  <2> QED BY <2>1, <2>2, <2>3, <2>4, <2>5, <2>6, Zenon DEF Next
<1> QED BY <1>1, <1>2, Zenon

\* Map<K, V> is an ordered map: for every number of hashes, every growth of the
\* table and every sequence of natives, get, insert, remove and clear do what a
\* list of entries in insertion order would, as long as no key changes while the
\* map holds it.
THEOREM MapImplementsOrderedMap == Spec => ImplementsOrderedMap
<1>1. Init => Abstract!Init
  <2>1. SUFFICES ASSUME Init PROVE Abstract!Init OBVIOUS
  <2>2. entries = <<>> /\ ret = Done BY <2>1 DEF Init
  <2>3. Shown = <<>>
    <3>1. DOMAIN entries = {} BY <2>2
    <3>2. Shown = [i \in {} |-> 0] BY <3>1 DEF Shown
    <3>3. <<>> = [i \in {} |-> 0] OBVIOUS
    <3> QED BY <3>2, <3>3, Zenon
  <2> QED BY <2>2, <2>3, Zenon DEF Abstract!Init
<1>2. (MapInv /\ KeysInv) /\ (MapInv /\ KeysInv)' /\ [Next]_vars
        => [Abstract!Next]_<<IF frozen THEN Shown ELSE <<>>, IF frozen THEN ret ELSE Done>>
  BY StepRefines DEF OMap, ORet
<1> QED BY <1>1, <1>2, Invariance, PTL DEF Spec, ImplementsOrderedMap, Abstract!Spec
=============================================================================
