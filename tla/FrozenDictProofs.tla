-------------------------- MODULE FrozenDictProofs --------------------------
(***************************************************************************)
(* FrozenDict for any keys, values, mappings and processes: it is one      *)
(* mapping, sealed, hashed alike when equal, and equal to what has the     *)
(* same items.                                                             *)
(***************************************************************************)
EXTENDS FrozenDict, SequenceTheorems, FiniteSetTheorems, TLAPS

FrozenAttributes ==
    [index : Dicts \cup FrozenDicts, items : Seq(Pairs), hash : SUBSET (Seeds \X SUBSET Pairs)]

(* The index of a FrozenDict is its own dict, which has its items; a hash  *)
(* is cached only of hashable items, and is theirs.                        *)
Sound(f) ==
    /\ fds[f].index = f
    /\ fds[f].items = store[f]
    /\ fds[f].hash # NoHash => /\ fds[f].hash = {HashOf(fds[f].items)}
                               /\ \A p \in ToSet(fds[f].items) : p[2] \notin Lists

IInv == TypeOK /\ \A f \in Alive : Sound(f)

-----------------------------------------------------------------------------
(* Items. *)

(* Setting an item leaves the keys distinct. *)
LEMMA WithItemKeeps ==
    ASSUME NEW items \in Seq(Pairs), Distinct(items), NEW k \in Keys, NEW v \in Values
    PROVE  /\ WithItem(items, k, v) \in Seq(Pairs) /\ Distinct(WithItem(items, k, v))
           /\ Len(items) \in Nat
           /\ Len(WithItem(items, k, v)) =
                  IF k \in KeysOf(items) THEN Len(items) ELSE Len(items) + 1
<1> DEFINE p == <<k, v>>
<1>1. p \in Pairs /\ p[1] = k
  BY DEF Pairs
<1>2. Len(items) \in Nat
  OBVIOUS
<1>3. CASE k \in KeysOf(items)
  <2> DEFINE new == [i \in 1..Len(items) |-> IF items[i][1] = k THEN p ELSE items[i]]
  <2>1. \A i \in 1..Len(items) : items[i] \in Pairs
    BY ElementOfSeq
  <2>2. new \in Seq(Pairs) /\ Len(new) = Len(items)
    BY <1>1, <1>2, <2>1
  <2>3. \A i \in 1..Len(items) : new[i][1] = items[i][1]
    BY <1>1
  <2>4. Distinct(new)
    BY <2>2, <2>3 DEF Distinct
  <2> QED
    BY <1>2, <1>3, <2>2, <2>4 DEF WithItem
<1>4. CASE k \notin KeysOf(items)
  <2> DEFINE new == Append(items, p)
  <2>1. /\ new \in Seq(Pairs) /\ Len(new) = Len(items) + 1
        /\ \A i \in 1..Len(items) : new[i] = items[i]
        /\ new[Len(items) + 1] = p
    <3> HIDE DEF p
    <3> QED
      BY <1>1, AppendProperties
  <2>2. \A i \in 1..Len(items) : items[i][1] # k
    BY <1>4 DEF KeysOf
  <2>3. Distinct(new)
    <3> SUFFICES ASSUME NEW i \in 1..Len(new), NEW j \in 1..Len(new), new[i][1] = new[j][1]
                 PROVE  i = j
      BY DEF Distinct
    <3> HIDE DEF new
    <3>1. CASE i \in 1..Len(items) /\ j \in 1..Len(items)
      BY <2>1, <3>1 DEF Distinct
    <3>2. CASE i = Len(items) + 1 \/ j = Len(items) + 1
      BY <1>1, <1>2, <2>1, <2>2, <3>2
    <3> QED
      BY <1>2, <2>1, <3>1, <3>2
  <2> QED
    BY <1>2, <1>4, <2>1, <2>3 DEF WithItem
<1> QED
  BY <1>3, <1>4

(* Removing one does, too. *)
LEMMA RemoveAtKeeps ==
    ASSUME NEW items \in Seq(Pairs), Distinct(items), NEW i \in 1..Len(items)
    PROVE  /\ RemoveAt(items, i) \in Seq(Pairs) /\ Distinct(RemoveAt(items, i))
           /\ Len(RemoveAt(items, i)) <= Len(items)
<1> DEFINE n == Len(items)
           before == SubSeq(items, 1, i - 1)
           after == SubSeq(items, i + 1, n)
           rest == before \o after
<1>1. n \in Nat /\ i \in Nat /\ i <= n /\ 1 <= i
  OBVIOUS
<1>2. \A j \in 1..n : items[j] \in Pairs
  BY ElementOfSeq
<1>3. /\ before \in Seq(Pairs) /\ Len(before) = i - 1
      /\ \A j \in 1..(i - 1) : before[j] = items[j]
  <2>1. \A j \in 1..(i - 1) : items[j] \in Pairs
    BY <1>1, <1>2
  <2> QED
    BY <1>1, <2>1, SubSeqProperties
<1>4. /\ after \in Seq(Pairs) /\ Len(after) = n - i
      /\ \A j \in 1..(n - i) : after[j] = items[i + j]
  <2>1. \A j \in (i + 1)..n : items[j] \in Pairs
    BY <1>1, <1>2
  <2>2. /\ after \in Seq(Pairs) /\ Len(after) = IF i + 1 <= n THEN n - (i + 1) + 1 ELSE 0
        /\ \A j \in 1..(n - (i + 1) + 1) : after[j] = items[(i + 1) + j - 1]
    BY <1>1, <2>1, SubSeqProperties
  <2>3. n - (i + 1) + 1 = n - i /\ \A j \in 1..(n - i) : (i + 1) + j - 1 = i + j
    BY <1>1
  <2> HIDE DEF after
  <2> QED
    BY <1>1, <2>2, <2>3
<1>5. /\ rest \in Seq(Pairs) /\ Len(rest) = n - 1
      /\ \A j \in 1..(n - 1) : rest[j] = IF j < i THEN items[j] ELSE items[j + 1]
  <2> HIDE DEF before, after
  <2>1. /\ rest \in Seq(Pairs) /\ Len(rest) = (i - 1) + (n - i)
        /\ \A j \in 1..((i - 1) + (n - i)) :
              rest[j] = IF j <= i - 1 THEN before[j] ELSE after[j - (i - 1)]
    <3>1. /\ before \o after \in Seq(Pairs)
          /\ Len(before \o after) = Len(before) + Len(after)
          /\ \A j \in 1..Len(before) + Len(after) : (before \o after)[j] =
                 IF j <= Len(before) THEN before[j] ELSE after[j - Len(before)]
      BY <1>3, <1>4, ConcatProperties
    <3> HIDE DEF rest
    <3>2. /\ rest \in Seq(Pairs) /\ Len(rest) = Len(before) + Len(after)
          /\ \A j \in 1..Len(before) + Len(after) : rest[j] =
                 IF j <= Len(before) THEN before[j] ELSE after[j - Len(before)]
      BY <3>1 DEF rest
    <3> QED
      BY <1>3, <1>4, <3>2
  <2>2. ASSUME NEW j \in 1..(n - 1)
        PROVE  rest[j] = IF j < i THEN items[j] ELSE items[j + 1]
    <3>0. j \in 1..((i - 1) + (n - i))
      BY <1>1
    <3>1. CASE j < i
      BY <1>1, <1>3, <2>1, <3>0, <3>1
    <3>2. CASE ~ j < i
      <4>1. j - (i - 1) \in 1..(n - i) /\ i + (j - (i - 1)) = j + 1 /\ ~ j <= i - 1
        BY <1>1, <3>2
      <4> QED
        BY <1>4, <2>1, <3>0, <3>2, <4>1
    <3> QED
      BY <3>1, <3>2
  <2> QED
    BY <1>1, <2>1, <2>2
<1>6. Distinct(rest)
  <2> HIDE DEF rest, before, after
  <2> SUFFICES ASSUME NEW a \in 1..Len(rest), NEW b \in 1..Len(rest), rest[a][1] = rest[b][1]
               PROVE  a = b
    BY DEF Distinct
  <2>1. PICK x \in 1..n : rest[a] = items[x] /\ x = IF a < i THEN a ELSE a + 1
    BY <1>1, <1>5
  <2>2. PICK y \in 1..n : rest[b] = items[y] /\ y = IF b < i THEN b ELSE b + 1
    BY <1>1, <1>5
  <2>3. x = y
    BY <2>1, <2>2 DEF Distinct
  <2> QED
    BY <1>1, <1>5, <2>1, <2>2, <2>3
<1> QED
  BY <1>1, <1>5, <1>6 DEF RemoveAt

(* A mapping has as many keys as items. *)
LEMMA KeysCounted ==
    ASSUME NEW items \in Seq(Pairs), Distinct(items)
    PROVE  IsFiniteSet(KeysOf(items)) /\ Cardinality(KeysOf(items)) = Len(items)
<1>1. PICK n \in Nat : n = Len(items)
  OBVIOUS
<1>2. IsFiniteSet(1..n) /\ Cardinality(1..n) = n
  BY FS_Interval
<1> DEFINE key == [i \in 1..n |-> items[i][1]]
<1>3. \A i \in 1..n : key[i] = items[i][1]
  OBVIOUS
<1>4. key \in [1..n -> KeysOf(items)]
  BY <1>1 DEF KeysOf
<1>5. \A k \in KeysOf(items) : \E i \in 1..n : key[i] = k
  BY <1>1, <1>3 DEF KeysOf
<1>6. \A i, j \in 1..n : key[i] = key[j] => i = j
  BY <1>1, <1>3 DEF Distinct
<1> HIDE DEF key
<1>7. key \in Surjection(1..n, KeysOf(items))
  BY <1>4, <1>5 DEF Surjection
<1>8. key \in Injection(1..n, KeysOf(items))
  BY <1>4, <1>6 DEF Injection, IsInjective
<1> QED
  BY <1>1, <1>2, <1>7, <1>8, FS_Surjection

(* The value of a key is the one of the item that has the key. *)
LEMMA AtItem ==
    ASSUME NEW items \in Seq(Pairs), Distinct(items), NEW i \in 1..Len(items)
    PROVE  /\ items[i][1] \in KeysOf(items) /\ At(items, items[i][1]) = items[i][2]
           /\ items[i] = <<items[i][1], items[i][2]>>
<1>1. \A j \in 1..Len(items) : items[j][1] = items[i][1] <=> j = i
  BY DEF Distinct
<1>2. (CHOOSE j \in 1..Len(items) : items[j][1] = items[i][1]) = i
  BY <1>1
<1>3. items[i] \in Pairs
  BY ElementOfSeq
<1>4. At(items, items[i][1]) = items[i][2]
  BY <1>2 DEF At
<1>5. items[i] = <<items[i][1], items[i][2]>>
  BY <1>3 DEF Pairs
<1>6. items[i][1] \in KeysOf(items)
  BY DEF KeysOf
<1> QED
  BY <1>4, <1>5, <1>6

-----------------------------------------------------------------------------
(* Equality. *)

(* Where the value of a key is found tells its item. *)
LEMMA KeyItem ==
    ASSUME NEW items \in Seq(Pairs), Distinct(items), NEW k \in KeysOf(items)
    PROVE  \E i \in 1..Len(items) : items[i] = <<k, At(items, k)>>
<1>1. PICK i \in 1..Len(items) : items[i][1] = k
  BY DEF KeysOf
<1> QED
  BY <1>1, AtItem

(* Mappings of one length, one's keys among the other's, have the same.    *)
LEMMA SameKeys ==
    ASSUME NEW mine \in Seq(Pairs), Distinct(mine), NEW other \in Seq(Pairs), Distinct(other),
           Len(mine) = Len(other), KeysOf(mine) \subseteq KeysOf(other)
    PROVE  KeysOf(mine) = KeysOf(other)
<1>1. /\ IsFiniteSet(KeysOf(other)) /\ Cardinality(KeysOf(other)) = Len(other)
      /\ Cardinality(KeysOf(mine)) = Len(mine)
  BY KeysCounted
<1> QED
  BY <1>1, FS_Subset

(* The answer of __eq__ is that of a comparison of the two mappings.       *)
LEMMA EqualIsSemantic ==
    ASSUME IInv, NEW f \in Alive,
           NEW o \in Alive \cup (Dicts \ (Counters \cup DefaultDicts))
    PROVE  Agree(f, o)
<1> DEFINE mine == fds[f].items
           other == IF o \in FrozenDicts THEN fds[o].items ELSE store[o]
<1>1. mine \in Seq(Pairs) /\ Distinct(mine) /\ Len(mine) \in Nat
  BY DEF IInv, TypeOK, Sound, Alive
<1>2. /\ other \in Seq(Pairs) /\ Distinct(other) /\ Len(other) \in Nat
      /\ Size(o) = Len(other) /\ store[Index(o)] = other
      /\ o \notin Counters \cup DefaultDicts
  BY MappingsAssumption DEF IInv, TypeOK, Sound, Alive, Size, Index
<1>3. \A i \in 1..Len(mine) :
          Matches(f, o, i) <=> /\ mine[i][1] \in KeysOf(other)
                               /\ Same(At(other, mine[i][1]), mine[i][2])
  BY <1>2 DEF Matches, Found, Lookup
<1>4. Equal(f, o) <=> /\ Len(mine) = Len(other)
                      /\ \A i \in 1..Len(mine) : Matches(f, o, i)
  BY <1>2 DEF Equal
<1>5. Agree(f, o) <=>
          (Equal(f, o) <=> /\ KeysOf(mine) = KeysOf(other)
                           /\ \A k \in KeysOf(mine) : Same(At(mine, k), At(other, k)))
  BY DEF Agree
<1> HIDE DEF mine, other
<1>6. \A i \in 1..Len(mine) : mine[i][1] \in KeysOf(mine) /\ At(mine, mine[i][1]) = mine[i][2]
  BY <1>1, AtItem
<1>7. \A v, w : Same(v, w) <=> Same(w, v)
  BY DEF Same
<1>8. ASSUME Equal(f, o)
      PROVE  /\ KeysOf(mine) = KeysOf(other)
             /\ \A k \in KeysOf(mine) : Same(At(mine, k), At(other, k))
  <2>1. \A k \in KeysOf(mine) : \E i \in 1..Len(mine) : mine[i][1] = k
    BY DEF KeysOf
  <2>2. \A k \in KeysOf(mine) : k \in KeysOf(other) /\ Same(At(other, k), At(mine, k))
    BY <1>3, <1>4, <1>6, <1>8, <2>1
  <2>3. KeysOf(mine) = KeysOf(other)
    BY <1>1, <1>2, <1>4, <1>8, <2>2, SameKeys
  <2> QED
    BY <1>7, <2>2, <2>3
<1>9. ASSUME KeysOf(mine) = KeysOf(other),
             \A k \in KeysOf(mine) : Same(At(mine, k), At(other, k))
      PROVE  Equal(f, o)
  <2>1. Len(mine) = Len(other)
    BY <1>1, <1>2, <1>9, KeysCounted
  <2>2. \A i \in 1..Len(mine) : Matches(f, o, i)
    BY <1>3, <1>6, <1>7, <1>9
  <2> QED
    BY <1>4, <2>1, <2>2
<1> QED
  BY <1>5, <1>8, <1>9

(* Equal FrozenDicts of hashable items have the same items. *)
LEMMA EqualItems ==
    ASSUME IInv, NEW f \in Alive, NEW g \in Alive, Equal(f, g),
           \A p \in ToSet(fds[f].items) : p[2] \notin Lists
    PROVE  ToSet(fds[f].items) = ToSet(fds[g].items)
<1> DEFINE mine == fds[f].items
           other == fds[g].items
<1>1. /\ mine \in Seq(Pairs) /\ Distinct(mine) /\ other \in Seq(Pairs) /\ Distinct(other)
      /\ DOMAIN mine = 1..Len(mine) /\ DOMAIN other = 1..Len(other)
  BY DEF IInv, TypeOK, Sound, Alive
<1>2. /\ KeysOf(mine) = KeysOf(other)
      /\ \A k \in KeysOf(mine) : Same(At(mine, k), At(other, k))
  BY EqualIsSemantic DEF Agree, Alive
<1>3. \A p \in ToSet(mine) : p[2] \notin Lists
  OBVIOUS
<1> HIDE DEF mine, other
<1>4. \A k \in KeysOf(mine) : At(mine, k) = At(other, k)
  <2> SUFFICES ASSUME NEW k \in KeysOf(mine) PROVE At(mine, k) = At(other, k)
    OBVIOUS
  <2>1. PICK i \in 1..Len(mine) : mine[i] = <<k, At(mine, k)>>
    BY <1>1, KeyItem
  <2>2. At(mine, k) \notin Lists
    BY <1>1, <1>3, <2>1 DEF ToSet
  <2> QED
    BY <1>2, <2>2 DEF Same
<1>5. ASSUME NEW i \in 1..Len(mine)
      PROVE  mine[i] \in ToSet(other)
  <2>1. mine[i][1] \in KeysOf(mine) /\ mine[i] = <<mine[i][1], At(mine, mine[i][1])>>
    BY <1>1, AtItem
  <2>2. PICK k \in KeysOf(other) : k = mine[i][1]
    BY <1>2, <2>1
  <2>3. PICK j \in 1..Len(other) : other[j] = <<k, At(other, k)>>
    BY <1>1, KeyItem
  <2>4. other[j] = mine[i]
    BY <1>2, <1>4, <2>1, <2>2, <2>3
  <2> QED
    BY <1>1, <2>4 DEF ToSet
<1>6. ASSUME NEW j \in 1..Len(other)
      PROVE  other[j] \in ToSet(mine)
  <2>1. other[j][1] \in KeysOf(other) /\ other[j] = <<other[j][1], At(other, other[j][1])>>
    BY <1>1, AtItem
  <2>2. PICK k \in KeysOf(mine) : k = other[j][1]
    BY <1>2, <2>1
  <2>3. PICK i \in 1..Len(mine) : mine[i] = <<k, At(mine, k)>>
    BY <1>1, KeyItem
  <2>4. mine[i] = other[j]
    BY <1>4, <2>1, <2>2, <2>3
  <2> QED
    BY <1>1, <2>4 DEF ToSet
<1>7. ToSet(mine) = ToSet(other)
  BY <1>1, <1>5, <1>6 DEF ToSet
<1> QED
  BY <1>7 DEF mine, other

-----------------------------------------------------------------------------
(* Every step keeps the invariant. *)

LEMMA InvInit == Init => IInv
<1> SUFFICES ASSUME Init PROVE IInv
  OBVIOUS
<1>1. <<>> \in Seq(Pairs) /\ Len(<<>>) = 0 /\ Distinct(<<>>)
  BY EmptySeq DEF Distinct
<1>2. \A d \in Dicts \cup FrozenDicts : store[d] = <<>>
  BY DEF Init
<1>3. store \in [Dicts \cup FrozenDicts -> Seq(Pairs)] /\ DOMAIN store = Dicts \cup FrozenDicts
  BY <1>1 DEF Init
<1>4. fds \in [FrozenDicts -> {Absent} \cup FrozenAttributes] /\ Alive = {}
  BY DEF Init, Alive
<1>5. TypeOK
  BY <1>1, <1>2, <1>3, <1>4, BoundAssumption DEF Init, TypeOK, FrozenAttributes
<1> QED
  BY <1>4, <1>5 DEF IInv

(* The program changes mappings of its own only. *)
LEMMA OwnDictInv ==
    ASSUME IInv, NEW d \in Dicts, NEW items \in Seq(Pairs), Distinct(items), Len(items) <= MaxItems,
           store' = [store EXCEPT ![d] = items], UNCHANGED <<cell, fds, seed>>
    PROVE  IInv'
<1>1. d \in DOMAIN store /\ d \notin FrozenDicts
  BY MappingsAssumption DEF IInv, TypeOK
<1>2. TypeOK'
  <2>1. store' \in [Dicts \cup FrozenDicts -> Seq(Pairs)]
    BY DEF IInv, TypeOK
  <2>2. \A e \in DOMAIN store' : Distinct(store'[e]) /\ Len(store'[e]) <= MaxItems
    BY DEF IInv, TypeOK
  <2> QED
    BY <2>1, <2>2 DEF IInv, TypeOK
<1>3. \A f \in Alive : store'[f] = store[f]
  BY <1>1 DEF IInv, TypeOK, Alive
<1>4. \A f \in Alive' : f \in Alive
  BY DEF Alive
<1>5. \A f \in Alive' : Sound(f)'
  BY <1>3, <1>4 DEF IInv, Sound, HashOf
<1> QED
  BY <1>2, <1>5 DEF IInv

(* Construction copies the items; another process begins with nothing else. *)
LEMMA ConstructInv ==
    ASSUME IInv, NEW f \in FrozenDicts, f \notin Alive, NEW items \in Seq(Pairs), Distinct(items),
           Len(items) <= MaxItems, Construct(f, items)
    PROVE  IInv'
<1>1. /\ store' = [store EXCEPT ![f] = items] /\ fds' = [fds EXCEPT ![f] = Fresh(f, items)]
      /\ cell' = cell /\ seed' = seed
  BY DEF Construct
<1>2. Fresh(f, items) \in FrozenAttributes
  BY DEF Fresh, FrozenAttributes, NoHash
<1>3. TypeOK'
  <2>1. store' \in [Dicts \cup FrozenDicts -> Seq(Pairs)]
    BY <1>1 DEF IInv, TypeOK
  <2>2. \A e \in DOMAIN store' : Distinct(store'[e]) /\ Len(store'[e]) <= MaxItems
    BY <1>1 DEF IInv, TypeOK
  <2>3. fds' \in [FrozenDicts -> {Absent} \cup FrozenAttributes]
    BY <1>1, <1>2 DEF IInv, TypeOK, FrozenAttributes
  <2> QED
    BY <1>1, <2>1, <2>2, <2>3 DEF IInv, TypeOK, FrozenAttributes
<1>4. ASSUME NEW g \in Alive'
      PROVE  Sound(g)'
  <2>1. CASE g = f
    <3>1. fds'[g] = Fresh(f, items) /\ store'[g] = items
      BY <1>1, <2>1 DEF IInv, TypeOK
    <3> QED
      BY <2>1, <3>1 DEF Sound, Fresh
  <2>2. CASE g # f
    <3>1. g \in Alive /\ fds'[g] = fds[g] /\ store'[g] = store[g]
      BY <1>1, <2>2 DEF IInv, TypeOK, Alive
    <3> QED
      BY <1>1, <3>1 DEF IInv, Sound, HashOf
  <2> QED
    BY <2>1, <2>2
<1> QED
  BY <1>3, <1>4 DEF IInv

LEMMA ReduceInv ==
    ASSUME IInv, NEW f \in FrozenDicts, NEW s \in Seeds, Reduce(f, s)
    PROVE  IInv'
<1> DEFINE items == fds[f].items
<1>1. /\ f \in Alive /\ seed' = s /\ cell' = cell
      /\ store' = [d \in DOMAIN store |-> IF d = f THEN items ELSE <<>>]
      /\ fds' = [g \in FrozenDicts |-> IF g = f THEN Fresh(f, items) ELSE Absent]
  BY DEF Reduce, Sent
<1>2. /\ items \in Seq(Pairs) /\ Distinct(items) /\ Len(items) <= MaxItems
      /\ DOMAIN store = Dicts \cup FrozenDicts
  BY <1>1 DEF IInv, TypeOK, Sound, Alive
<1> HIDE DEF items
<1>3. <<>> \in Seq(Pairs) /\ Len(<<>>) = 0 /\ Distinct(<<>>)
  BY EmptySeq DEF Distinct
<1>4. Fresh(f, items) \in FrozenAttributes
  BY <1>2 DEF Fresh, FrozenAttributes, NoHash
<1>5. TypeOK'
  <2>1. store' \in [Dicts \cup FrozenDicts -> Seq(Pairs)]
    BY <1>1, <1>2, <1>3
  <2>2. \A e \in DOMAIN store' : Distinct(store'[e]) /\ Len(store'[e]) <= MaxItems
    BY <1>1, <1>2, <1>3, BoundAssumption
  <2>3. fds' \in [FrozenDicts -> {Absent} \cup FrozenAttributes]
    BY <1>1, <1>4
  <2> QED
    BY <1>1, <2>1, <2>2, <2>3 DEF IInv, TypeOK, FrozenAttributes
<1>6. ASSUME NEW g \in Alive'
      PROVE  Sound(g)'
  <2>1. g = f /\ fds'[g] = Fresh(f, items) /\ store'[g] = items
    BY <1>1, <1>2 DEF Alive
  <2> QED
    BY <2>1 DEF Sound, Fresh
<1> QED
  BY <1>5, <1>6 DEF IInv

(* The hash is computed over the items and cached. *)
LEMMA HashInv ==
    ASSUME IInv, NEW f \in FrozenDicts, Hash(f)
    PROVE  IInv'
<1> DEFINE h == {HashOf(fds[f].items)}
<1>1. /\ f \in Alive /\ fds' = [fds EXCEPT ![f].hash = h]
      /\ \A p \in ToSet(fds[f].items) : p[2] \notin Lists
      /\ cell' = cell /\ store' = store /\ seed' = seed
  BY DEF Hash
<1>2. fds[f] \in FrozenAttributes
  BY <1>1 DEF IInv, TypeOK, Alive, FrozenAttributes
<1>3. h \in SUBSET (Seeds \X SUBSET Pairs)
  <2>1. fds[f].items \in Seq(Pairs)
    BY <1>2 DEF FrozenAttributes
  <2>2. ToSet(fds[f].items) \subseteq Pairs
    BY <2>1, ElementOfSeq DEF ToSet
  <2> QED
    BY <2>2 DEF HashOf, IInv, TypeOK
<1>4. fds'[f] = [fds[f] EXCEPT !.hash = h] /\ fds'[f] \in FrozenAttributes
  <2> HIDE DEF h
  <2>1. f \in DOMAIN fds
    BY DEF IInv, TypeOK
  <2> QED
    BY <1>1, <1>2, <1>3, <2>1 DEF FrozenAttributes
<1>5. TypeOK'
  <2>1. fds' \in [FrozenDicts -> {Absent} \cup FrozenAttributes]
    BY <1>1, <1>4 DEF IInv, TypeOK, FrozenAttributes
  <2> QED
    BY <1>1, <2>1 DEF IInv, TypeOK, FrozenAttributes
<1>6. ASSUME NEW g \in Alive'
      PROVE  Sound(g)'
  <2>1. CASE g = f
    <3>1. /\ fds'[f].index = fds[f].index /\ fds'[f].items = fds[f].items
          /\ fds'[f].hash = {HashOf(fds[f].items)}
      BY <1>2, <1>4 DEF FrozenAttributes
    <3> QED
      BY <1>1, <2>1, <3>1 DEF IInv, Sound, HashOf
  <2>2. CASE g # f
    <3>1. g \in Alive /\ fds'[g] = fds[g]
      BY <1>1, <2>2 DEF IInv, TypeOK, Alive
    <3> QED
      BY <1>1, <3>1 DEF IInv, Sound, HashOf
  <2> QED
    BY <2>1, <2>2
<1> QED
  BY <1>5, <1>6 DEF IInv

(* What __missing__ inserts has new keys, each once. *)
LEMMA InsertingKeeps ==
    ASSUME NEW items \in Seq(Pairs), Distinct(items), NEW own \in Seq(Pairs), Distinct(own),
           NEW n \in Nat, NEW order \in [1..n -> 1..Len(own)],
           \A a, b \in 1..n : a < b => order[a] < order[b],
           \A a \in 1..n : own[order[a]][1] \notin KeysOf(items)
    PROVE  LET new == items \o [a \in 1..n |-> <<own[order[a]][1], Zero>>]
           IN  new \in Seq(Pairs) /\ Distinct(new)
<1> DEFINE extra == [a \in 1..n |-> <<own[order[a]][1], Zero>>]
           new == items \o extra
           m == Len(items)
<1>1. \A a \in 1..n : own[order[a]] \in Pairs
  BY ElementOfSeq
<1>2. \A a \in 1..n : <<own[order[a]][1], Zero>> \in Pairs
  BY <1>1, ScalarsAssumption DEF Pairs, Values
<1>3. extra \in Seq(Pairs) /\ Len(extra) = n /\ \A a \in 1..n : extra[a][1] = own[order[a]][1]
  BY <1>2
<1> HIDE DEF extra
<1>4. /\ new \in Seq(Pairs) /\ Len(new) = m + n /\ m \in Nat
      /\ \A i \in 1..(m + n) : new[i] = IF i <= m THEN items[i] ELSE extra[i - m]
  <2>1. /\ new \in Seq(Pairs) /\ Len(new) = Len(items) + Len(extra)
        /\ \A i \in 1..(Len(items) + Len(extra)) :
              new[i] = IF i <= Len(items) THEN items[i] ELSE extra[i - Len(items)]
    BY <1>3, ConcatProperties, Zenon
  <2>2. Len(items) \in Nat
    OBVIOUS
  <2> QED
    BY <1>3, <2>1, <2>2, Zenon
<1> HIDE DEF new
<1>5. \A i \in 1..m : items[i][1] \in KeysOf(items)
  BY DEF KeysOf
<1>6. ASSUME NEW a \in 1..n, NEW b \in 1..n, own[order[a]][1] = own[order[b]][1]
      PROVE  a = b
  <2>1. order[a] = order[b] /\ order[a] \in Nat
    BY <1>6 DEF Distinct
  <2>2. ~ a < b /\ ~ b < a
    BY <2>1
  <2> QED
    BY <2>2
<1>7. ASSUME NEW i \in 1..Len(new), NEW j \in 1..Len(new), new[i][1] = new[j][1]
      PROVE  i = j
  <2>1. CASE i <= m /\ j <= m
    BY <1>4, <1>7, <2>1 DEF Distinct
  <2>2. CASE i > m /\ j > m
    <3>1. i - m \in 1..n /\ j - m \in 1..n
      BY <1>4, <2>2
    <3>2. own[order[i - m]][1] = own[order[j - m]][1]
      BY <1>3, <1>4, <1>7, <2>2, <3>1
    <3>3. i - m = j - m
      BY <1>6, <3>1, <3>2
    <3> QED
      BY <1>4, <3>3
  <2>3. CASE i <= m /\ j > m
    <3>1. j - m \in 1..n /\ i \in 1..m
      BY <1>4, <2>3
    <3>2. new[i] = items[i] /\ new[j] = extra[j - m]
      BY <1>4, <2>3
    <3>3. own[order[j - m]][1] \in KeysOf(items)
      BY <1>3, <1>5, <1>7, <3>1, <3>2
    <3> QED
      BY <3>1, <3>3
  <2>4. CASE i > m /\ j <= m
    <3>1. i - m \in 1..n /\ j \in 1..m
      BY <1>4, <2>4
    <3>2. new[j] = items[j] /\ new[i] = extra[i - m]
      BY <1>4, <2>4
    <3>3. own[order[i - m]][1] \in KeysOf(items)
      BY <1>3, <1>5, <1>7, <3>1, <3>2
    <3> QED
      BY <3>1, <3>3
  <2> QED
    BY <1>4, <2>1, <2>2, <2>3, <2>4
<1>8. Distinct(new)
  BY <1>7 DEF Distinct
<1> QED
  BY <1>4, <1>8 DEF new, extra

(* A comparison changes nothing but a defaultdict. *)
LEMMA CompareInv ==
    ASSUME IInv, NEW f \in FrozenDicts, NEW o \in FrozenDicts \cup Dicts, Compare(f, o)
    PROVE  IInv' /\ (o \in FrozenDicts => store' = store)
<1> DEFINE own == fds[f].items
           M == Missed(f, o)
<1>1. /\ f \in Alive /\ own \in Seq(Pairs) /\ Distinct(own) /\ Len(own) \in Nat
      /\ o \in DOMAIN store /\ store[o] \in Seq(Pairs) /\ Distinct(store[o])
  BY DEF Compare, IInv, TypeOK, Sound, Alive
<1>2. M \subseteq 1..Len(own) /\ \A i \in M : o \in DefaultDicts /\ own[i][1] \notin KeysOf(store[o])
  BY DEF Missed
<1>3. Cardinality(M) \in Nat
  <2>1. IsFiniteSet(1..Len(own))
    BY <1>1, FS_Interval
  <2> HIDE DEF M
  <2> QED
    BY <1>2, <2>1, FS_Subset, FS_CardinalityType
<1>4. PICK n \in Nat : n = Cardinality(M)
  BY <1>3
<1>5. PICK order \in [1..n -> M] :
          /\ \A a, b \in DOMAIN order : a < b => order[a] < order[b]
          /\ store' = [store EXCEPT ![o] =
                          @ \o [a \in DOMAIN order |-> <<own[order[a]][1], Zero>>]]
  BY <1>4 DEF Compare
<1>6. Len(store'[o]) <= MaxItems /\ UNCHANGED <<cell, fds, seed>>
  BY DEF Compare
<1> DEFINE new == store[o] \o [a \in 1..n |-> <<own[order[a]][1], Zero>>]
<1>7. store' = [store EXCEPT ![o] = new]
  BY <1>5
<1>8. CASE o \in FrozenDicts
  <2>1. M = {}
    BY <1>2, <1>8, MappingsAssumption
  <2>2. n = 0
    <3> HIDE DEF M
    <3> QED
      BY <1>4, <2>1, FS_EmptySet
  <2>3. [a \in 1..n |-> <<own[order[a]][1], Zero>>] = <<>>
    BY <2>2
  <2>4. new = store[o]
    BY <1>1, <2>3, ConcatEmptySeq
  <2>5. store' = store
    <3> HIDE DEF new
    <3> QED
      BY <1>7, <2>4 DEF IInv, TypeOK
  <2>6. \A g \in FrozenDicts : Sound(g)' = Sound(g)
    BY <1>6, <2>5 DEF Sound, HashOf
  <2> QED
    BY <1>6, <2>5, <2>6 DEF IInv, TypeOK, Alive
<1>9. CASE o \in Dicts
  <2>1. /\ order \in [1..n -> 1..Len(own)]
        /\ \A a, b \in 1..n : a < b => order[a] < order[b]
        /\ \A a \in 1..n : own[order[a]][1] \notin KeysOf(store[o])
    BY <1>2, <1>5
  <2>2. new \in Seq(Pairs) /\ Distinct(new)
    <3> HIDE DEF M, own
    <3> QED
      BY <1>1, <2>1, InsertingKeeps
  <2>3. Len(new) <= MaxItems
    <3> HIDE DEF new
    <3> QED
      BY <1>1, <1>6, <1>7
  <2>4. o \notin FrozenDicts
    BY <1>9, MappingsAssumption
  <2> HIDE DEF new
  <2> QED
    BY <1>6, <1>7, <1>9, <2>2, <2>3, <2>4, OwnDictInv
<1> QED
  BY <1>8, <1>9

(* No step of the program or of a FrozenDict breaks the invariant. *)
LEMMA InvNext ==
    ASSUME IInv, [Next]_vars
    PROVE  IInv'
<1>1. CASE UNCHANGED vars
  <2>1. store' = store /\ fds' = fds /\ cell' = cell /\ seed' = seed
    BY <1>1 DEF vars
  <2>2. \A f \in FrozenDicts : Sound(f)' = Sound(f)
    BY <2>1 DEF Sound, HashOf
  <2> QED
    BY <2>1, <2>2 DEF IInv, TypeOK, Alive
<1>2. \A d \in Dicts : d \in DOMAIN store /\ store[d] \in Seq(Pairs) /\ Distinct(store[d])
                      /\ Len(store[d]) <= MaxItems
  BY DEF IInv, TypeOK
<1>3. ASSUME NEW d \in Dicts, NEW k \in Keys, NEW v \in Values, SetItem(d, k, v)
      PROVE  IInv'
  <2>1. /\ store' = [store EXCEPT ![d] = WithItem(store[d], k, v)]
        /\ UNCHANGED <<cell, fds, seed>>
        /\ k \in KeysOf(store[d]) \/ Len(store[d]) < MaxItems
    BY <1>3 DEF SetItem
  <2>2. /\ WithItem(store[d], k, v) \in Seq(Pairs) /\ Distinct(WithItem(store[d], k, v))
        /\ Len(store[d]) \in Nat
        /\ Len(WithItem(store[d], k, v)) =
               IF k \in KeysOf(store[d]) THEN Len(store[d]) ELSE Len(store[d]) + 1
    BY <1>2, WithItemKeeps
  <2>3. Len(WithItem(store[d], k, v)) <= MaxItems
    BY <1>2, <2>1, <2>2, BoundAssumption
  <2> QED
    BY <2>1, <2>2, <2>3, OwnDictInv
<1>4. ASSUME NEW d \in Dicts, NEW k \in Keys, DelItem(d, k)
      PROVE  IInv'
  <2>1. PICK i \in 1..Len(store[d]) : store' = [store EXCEPT ![d] = RemoveAt(store[d], i)]
    BY <1>4 DEF DelItem
  <2>2. /\ RemoveAt(store[d], i) \in Seq(Pairs) /\ Distinct(RemoveAt(store[d], i))
        /\ Len(RemoveAt(store[d], i)) <= Len(store[d])
    BY <1>2, RemoveAtKeeps
  <2>3. Len(RemoveAt(store[d], i)) <= MaxItems
    <3>1. Len(RemoveAt(store[d], i)) \in Nat /\ Len(store[d]) \in Nat
      BY <1>2, <2>2
    <3> QED
      BY <1>2, <2>2, <3>1, BoundAssumption
  <2> QED
    BY <1>4, <2>1, <2>2, <2>3, OwnDictInv DEF DelItem
<1>5. ASSUME NEW l \in Lists, NEW c \in Contents, MutateList(l, c)
      PROVE  IInv'
  <2>1. cell' = [cell EXCEPT ![l] = c] /\ store' = store /\ fds' = fds /\ seed' = seed
    BY <1>5 DEF MutateList
  <2>2. \A f \in FrozenDicts : Sound(f)' = Sound(f)
    BY <2>1 DEF Sound, HashOf
  <2> QED
    BY <2>1, <2>2 DEF IInv, TypeOK, Alive
<1>6. ASSUME NEW f \in FrozenDicts, NEW d \in Dicts, FromMapping(f, d)
      PROVE  IInv'
  BY <1>2, <1>6, ConstructInv DEF FromMapping
<1>7. ASSUME NEW f \in FrozenDicts, NEW pairs \in SeqOf(Pairs, MaxItems), FromPairs(f, pairs)
      PROVE  IInv'
  <2>1. PICK m \in 0..MaxItems : pairs \in [1..m -> Pairs]
    BY DEF SeqOf
  <2>2. pairs \in Seq(Pairs) /\ Len(pairs) = m
    BY <2>1, BoundAssumption
  <2> QED
    BY <1>7, <2>1, <2>2, BoundAssumption, ConstructInv DEF FromPairs
<1> QED
  BY <1>1, <1>3, <1>4, <1>5, <1>6, <1>7, HashInv, CompareInv, ReduceInv DEF Next

(* The invariant holds for ever. *)
THEOREM Invariance == Spec => []IInv
BY InvInit, InvNext, PTL DEF Spec

-----------------------------------------------------------------------------
(* What follows. *)

(* Mappings keep distinct keys, and FrozenDicts their attributes.          *)
THEOREM TypeCorrect == Spec => []TypeOK
<1>1. IInv => TypeOK
  BY DEF IInv
<1> QED
  BY <1>1, Invariance, PTL

(* Lookup and iteration show the same mapping. *)
THEOREM OneMapping == Spec => []ViewsAgree
<1>1. IInv => ViewsAgree
  BY DEF IInv, Sound, ViewsAgree
<1> QED
  BY <1>1, Invariance, PTL

(* Equal FrozenDicts have equal hashes, wherever and whenever computed.    *)
THEOREM EqualHashAlike == Spec => []HashLaw
<1>1. ASSUME IInv, NEW f \in Alive, NEW g \in Alive, Equal(f, g),
             fds[f].hash # NoHash, fds[g].hash # NoHash
      PROVE  fds[f].hash = fds[g].hash
  <2>1. /\ fds[f].hash = {HashOf(fds[f].items)} /\ fds[g].hash = {HashOf(fds[g].items)}
        /\ \A p \in ToSet(fds[f].items) : p[2] \notin Lists
    BY <1>1 DEF IInv, Sound
  <2>2. ToSet(fds[f].items) = ToSet(fds[g].items)
    BY <1>1, <2>1, EqualItems
  <2> QED
    BY <2>1, <2>2 DEF HashOf
<1>2. IInv => HashLaw
  BY <1>1 DEF HashLaw
<1> QED
  BY <1>2, Invariance, PTL

(* == is equality of mappings, for every mapping without __missing__.      *)
THEOREM EqualityIsSemantic == Spec => []EqIsSemantic
<1>1. IInv => EqIsSemantic
  BY EqualIsSemantic DEF EqIsSemantic
<1> QED
  BY <1>1, Invariance, PTL

(* Nothing changes a FrozenDict, or its hash, once it is there.            *)
THEOREM FrozenDictsAreSealed == Spec => SealedForever
<1> DEFINE Kept == seed' = seed => \A f \in Alive :
                       /\ fds'[f].items = fds[f].items
                       /\ store'[fds'[f].index] = store[fds[f].index]
                       /\ fds[f].hash # NoHash => fds'[f].hash = fds[f].hash
<1>1. ASSUME IInv, Next, seed' = seed, NEW f \in Alive
      PROVE  /\ fds'[f].items = fds[f].items
             /\ store'[fds'[f].index] = store[fds[f].index]
             /\ fds[f].hash # NoHash => fds'[f].hash = fds[f].hash
  <2>1. f \in FrozenDicts /\ f \notin Dicts /\ fds[f].index = f /\ fds[f] \in FrozenAttributes
        /\ DOMAIN store = Dicts \cup FrozenDicts /\ DOMAIN fds = FrozenDicts
    BY <1>1, MappingsAssumption DEF IInv, TypeOK, Sound, Alive, FrozenAttributes
  <2>2. ASSUME fds'[f] = fds[f], store'[f] = store[f]
        PROVE  /\ fds'[f].items = fds[f].items
               /\ store'[fds'[f].index] = store[fds[f].index]
               /\ fds[f].hash # NoHash => fds'[f].hash = fds[f].hash
    BY <2>1, <2>2
  <2>3. CASE \/ \E d \in Dicts, k \in Keys, v \in Values : SetItem(d, k, v)
             \/ \E d \in Dicts, k \in Keys : DelItem(d, k)
             \/ \E l \in Lists, c \in Contents : MutateList(l, c)
    <3>1. fds' = fds /\ store'[f] = store[f]
      BY <2>1, <2>3 DEF SetItem, DelItem, MutateList
    <3> QED
      BY <2>2, <3>1
  <2>4. CASE \/ \E g \in FrozenDicts, d \in Dicts : FromMapping(g, d)
             \/ \E g \in FrozenDicts, pairs \in SeqOf(Pairs, MaxItems) : FromPairs(g, pairs)
    <3>1. PICK g \in FrozenDicts : g \notin Alive /\ \E items : Construct(g, items)
      BY <2>4 DEF FromMapping, FromPairs
    <3>2. fds'[f] = fds[f] /\ store'[f] = store[f]
      BY <1>1, <2>1, <3>1 DEF Construct
    <3> QED
      BY <2>2, <3>2
  <2>5. CASE \E g \in FrozenDicts : Hash(g)
    <3>1. PICK g \in FrozenDicts : Hash(g)
      BY <2>5
    <3>2. store' = store /\ fds' = [fds EXCEPT ![g].hash = {HashOf(fds[g].items)}]
          /\ fds[g].hash = NoHash
      BY <3>1 DEF Hash
    <3>3. CASE g = f
      <4>1. /\ fds'[f].index = fds[f].index /\ fds'[f].items = fds[f].items
            /\ fds[f].hash = NoHash
        BY <2>1, <3>2, <3>3 DEF FrozenAttributes
      <4> QED
        BY <3>2, <4>1
    <3>4. CASE g # f
      <4>1. fds'[f] = fds[f] /\ store'[f] = store[f]
        BY <2>1, <3>2, <3>4
      <4> QED
        BY <2>2, <4>1
    <3> QED
      BY <3>3, <3>4
  <2>6. CASE \E g \in FrozenDicts, o \in FrozenDicts \cup Dicts : Compare(g, o)
    <3>1. PICK g \in FrozenDicts, o \in FrozenDicts \cup Dicts : Compare(g, o)
      BY <2>6
    <3>2. fds' = fds
      BY <3>1 DEF Compare
    <3>3. store'[f] = store[f]
      <4>1. CASE o \in FrozenDicts
        BY <1>1, <3>1, <4>1, CompareInv
      <4>2. CASE o \notin FrozenDicts
        BY <2>1, <3>1, <4>2 DEF Compare
      <4> QED
        BY <4>1, <4>2
    <3> QED
      BY <2>2, <3>2, <3>3
  <2>7. ~ \E g \in FrozenDicts, s \in Seeds : Reduce(g, s)
    BY <1>1 DEF Reduce, Sent
  <2> QED
    BY <1>1, <2>3, <2>4, <2>5, <2>6, <2>7 DEF Next
<1>2. IInv /\ [Next]_vars => [Kept]_vars
  <2>1. IInv /\ Next => Kept
    BY <1>1
  <2> HIDE DEF Kept
  <2> QED
    BY <2>1
<1> QED
  BY <1>2, Invariance, PTL DEF Spec, SealedForever
=============================================================================
