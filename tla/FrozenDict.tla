----------------------------- MODULE FrozenDict -----------------------------
(***************************************************************************)
(* FrozenDict of immutable.py: an immutable mapping built from a mutable   *)
(* one or from pairs, holding a private dict (_index), the tuple of its    *)
(* items (_items) and a lazily cached hash (_hash), used by a program that *)
(* keeps mutating the mappings it was built from and the lists stored in   *)
(* it (a FrozenDict does not validate its values), and that may send one   *)
(* to another process by pickling it.                                      *)
(*                                                                         *)
(* store holds every dict object: the program's own mappings, and the      *)
(* private dict of each FrozenDict, which has its FrozenDict's name.  A    *)
(* dict is the sequence of its items in insertion order.                   *)
(***************************************************************************)
EXTENDS Naturals, Sequences, FiniteSets, SequencesExt

CONSTANTS
    Keys, Scalars,      \* hashable keys; hashable values
    NaNs,               \* the hashable values that are not equal to themselves
    Zero,               \* the value a __missing__ method answers
    Lists, Contents,    \* mutable values, and what a list may contain
    FrozenDicts,        \* FrozenDict objects
    Dicts,              \* the program's own mappings
    Counters,           \* those whose __missing__ answers Zero
    DefaultDicts,       \* those whose __missing__ inserts Zero and answers it
    Seeds,              \* hash seeds of interpreter processes
    MaxItems            \* bound: items of a mapping

ASSUME ScalarsAssumption ==
    Zero \in Scalars /\ Scalars \cap Lists = {} /\ NaNs \subseteq Scalars
ASSUME MappingsAssumption ==
    /\ FrozenDicts \cap Dicts = {}
    /\ Counters \cup DefaultDicts \subseteq Dicts
ASSUME BoundAssumption == MaxItems \in Nat

VARIABLES
    cell,       \* content of each list
    store,      \* items of each dict object
    fds,        \* attributes of each FrozenDict, or Absent
    seed        \* the hash seed of the process

vars == <<cell, store, fds, seed>>

Values == Scalars \cup Lists
Pairs == Keys \X Values
Absent == [index |-> "none"]
NoHash == {}

(* Equality of values, as Python's ==. *)
Same(v, w) ==
    \/ v = w /\ v \notin NaNs
    \/ v \in Lists /\ w \in Lists /\ cell[v] = cell[w]

KeysOf(items) == {items[i][1] : i \in 1..Len(items)}
Distinct(items) == \A i, j \in 1..Len(items) : items[i][1] = items[j][1] => i = j
At(items, k) == items[CHOOSE i \in 1..Len(items) : items[i][1] = k][2]

Alive == {f \in FrozenDicts : fds[f] # Absent}

Init ==
    /\ cell \in [Lists -> Contents]
    /\ store = [d \in Dicts \cup FrozenDicts |-> <<>>]
    /\ fds = [f \in FrozenDicts |-> Absent]
    /\ seed \in Seeds

(***************************************************************************)
(* The program's own mutations.                                            *)
(***************************************************************************)
WithItem(items, k, v) ==
    IF k \in KeysOf(items)
    THEN [i \in 1..Len(items) |-> IF items[i][1] = k THEN <<k, v>> ELSE items[i]]
    ELSE Append(items, <<k, v>>)

SetItem(d, k, v) ==
    /\ store' = [store EXCEPT ![d] = WithItem(@, k, v)]
    /\ k \in KeysOf(store[d]) \/ Len(store[d]) < MaxItems
    /\ UNCHANGED <<cell, fds, seed>>

DelItem(d, k) ==
    /\ \E i \in 1..Len(store[d]) :
        /\ store[d][i][1] = k
        /\ store' = [store EXCEPT ![d] = RemoveAt(@, i)]
    /\ UNCHANGED <<cell, fds, seed>>

MutateList(l, c) ==
    /\ cell' = [cell EXCEPT ![l] = c]
    /\ UNCHANGED <<store, fds, seed>>

(***************************************************************************)
(* Construction.                                                           *)
(***************************************************************************)
Fresh(f, items) == [index |-> f, items |-> items, hash |-> NoHash]

Construct(f, items) ==
    /\ store' = [store EXCEPT ![f] = items]
    /\ fds' = [fds EXCEPT ![f] = Fresh(f, items)]
    /\ UNCHANGED <<cell, seed>>

(* Mutated form: a Mapping is kept as the index instead of being copied.   *)
FromMappingAliased(f, d) ==
    /\ f \notin Alive
    /\ fds' = [fds EXCEPT ![f] = [index |-> d, items |-> store[d], hash |-> NoHash]]
    /\ UNCHANGED <<cell, store, seed>>

FromMapping(f, d) ==
    /\ f \notin Alive
    /\ Construct(f, store[d])

(* Mutated form: a repeated key is not refused. *)
FromPairsRepeated(f, pairs) ==
    /\ f \notin Alive
    /\ Construct(f, pairs)

FromPairs(f, pairs) ==
    /\ f \notin Alive
    /\ Distinct(pairs) \* otherwise ValueError
    /\ Construct(f, pairs)

(* Mutated form: the tuple of items is hashed. *)
HashOrdered(items) == <<seed, items>>

(***************************************************************************)
(* hash(fd): over the set of items, cached by the first call (the cache is *)
(* the empty set or the singleton of a hash).  Hashes of strings are the   *)
(* process's own.                                                          *)
(***************************************************************************)
HashOf(items) == <<seed, ToSet(items)>>

Hash(f) ==
    /\ f \in Alive
    /\ fds[f].hash = NoHash
    /\ \A p \in ToSet(fds[f].items) : p[2] \notin Lists \* otherwise TypeError
    /\ fds' = [fds EXCEPT ![f].hash = {HashOf(fds[f].items)}]
    /\ UNCHANGED <<cell, store, seed>>

(***************************************************************************)
(* A pickle of f is loaded by another process, which has nothing else yet: *)
(* __reduce__ gives the constructor and the items.                         *)
(***************************************************************************)
Sent(f, s, fd) ==
    /\ f \in Alive
    /\ s # seed
    /\ seed' = s
    /\ store' = [d \in DOMAIN store |-> IF d = f THEN fds[f].items ELSE <<>>]
    /\ fds' = [g \in FrozenDicts |-> IF g = f THEN fd ELSE Absent]
    /\ UNCHANGED cell

(* Mutated form: the attributes are pickled, with the cached hash. *)
ReduceAttributes(f, s) == Sent(f, s, fds[f])

Reduce(f, s) == Sent(f, s, Fresh(f, fds[f].items))

(***************************************************************************)
(* fd == other, for another FrozenDict or one of the program's mappings.   *)
(* The loop over the own items looks each key up in other and stops at the *)
(* first that is missing (KeyError) or different.                          *)
(***************************************************************************)
Size(o) == IF o \in FrozenDicts THEN Len(fds[o].items) ELSE Len(store[o])
Index(o) == IF o \in FrozenDicts THEN fds[o].index ELSE o

Found(o, k) == k \in KeysOf(store[Index(o)]) \/ o \in Counters \cup DefaultDicts
Lookup(o, k) == IF k \in KeysOf(store[Index(o)]) THEN At(store[Index(o)], k) ELSE Zero

Matches(f, o, i) ==
    LET p == fds[f].items[i] IN Found(o, p[1]) /\ Same(Lookup(o, p[1]), p[2])

(* Mutated form: the comparison of the lengths is forgotten. *)
EqualOneWay(f, o) == \A i \in 1..Len(fds[f].items) : Matches(f, o, i)

Equal(f, o) ==
    /\ Len(fds[f].items) = Size(o)
    /\ \A i \in 1..Len(fds[f].items) : Matches(f, o, i)

(* The own items whose keys __missing__ of a defaultdict inserts before    *)
(* the loop stops.                                                         *)
Missed(f, o) ==
    LET own == fds[f].items
    IN  {i \in 1..Len(own) :
            /\ o \in DefaultDicts /\ Len(own) = Size(o)
            /\ own[i][1] \notin KeysOf(store[o])
            /\ \A j \in 1..(i - 1) : Matches(f, o, j)}

Compare(f, o) ==
    /\ f \in Alive
    /\ o \in Alive \cup Dicts
    /\ \E order \in [1..Cardinality(Missed(f, o)) -> Missed(f, o)] :
        /\ \A a, b \in DOMAIN order : a < b => order[a] < order[b]
        /\ store' = [store EXCEPT ![o] =
                        @ \o [a \in DOMAIN order |-> <<fds[f].items[order[a]][1], Zero>>]]
    /\ Len(store'[o]) <= MaxItems \* bound
    /\ UNCHANGED <<cell, fds, seed>>

Next ==
    \/ \E d \in Dicts, k \in Keys, v \in Values : SetItem(d, k, v)
    \/ \E d \in Dicts, k \in Keys : DelItem(d, k)
    \/ \E l \in Lists, c \in Contents : MutateList(l, c)
    \/ \E f \in FrozenDicts, d \in Dicts : FromMapping(f, d)
    \/ \E f \in FrozenDicts, pairs \in SeqOf(Pairs, MaxItems) : FromPairs(f, pairs)
    \/ \E f \in FrozenDicts : Hash(f)
    \/ \E f \in FrozenDicts, o \in FrozenDicts \cup Dicts : Compare(f, o)
    \/ \E f \in FrozenDicts, s \in Seeds : Reduce(f, s)

Spec == Init /\ [][Next]_vars

-----------------------------------------------------------------------------
(***************************************************************************)
(* Properties.                                                             *)
(***************************************************************************)
(* The mappings stay well formed: bounded, with distinct keys. *)
TypeOK ==
    /\ cell \in [Lists -> Contents]
    /\ store \in [Dicts \cup FrozenDicts -> Seq(Pairs)]
    /\ \A d \in DOMAIN store : Distinct(store[d]) /\ Len(store[d]) <= MaxItems
    /\ fds \in [FrozenDicts -> {Absent} \cup
                    [index : Dicts \cup FrozenDicts, items : Seq(Pairs),
                     hash : SUBSET (Seeds \X SUBSET Pairs)]]
    /\ seed \in Seeds

(* fd[k] (through _index) and iteration, len and hash (through _items)     *)
(* show one mapping, whatever happens to the mapping fd was built from.    *)
ViewsAgree == \A f \in Alive : store[fds[f].index] = fds[f].items

(* A FrozenDict's items never change, and a hash once given stays, as long *)
(* as its process lives.                                                   *)
SealedForever ==
    [][seed' = seed => \A f \in Alive :
        /\ fds'[f].items = fds[f].items
        /\ store'[fds'[f].index] = store[fds[f].index]
        /\ fds[f].hash # NoHash => fds'[f].hash = fds[f].hash]_vars

(* FrozenDicts that compare equal have the same hash, in whatever order    *)
(* their items were given, however long ago each hash was cached, and      *)
(* whichever process one of them was sent from.                            *)
HashLaw ==
    \A f, g \in Alive :
        Equal(f, g) /\ fds[f].hash # NoHash /\ fds[g].hash # NoHash
            => fds[f].hash = fds[g].hash

Agree(f, o) ==
    LET mine == fds[f].items
        other == IF o \in FrozenDicts THEN fds[o].items ELSE store[o]
    IN  Equal(f, o) <=> /\ KeysOf(mine) = KeysOf(other)
                        /\ \A k \in KeysOf(mine) : Same(At(mine, k), At(other, k))

(* fd == other answers whether the two mappings have the same keys with    *)
(* equal values, for every mapping without __missing__; with a NaN it is   *)
(* not even equal to itself, unlike a dict.                                *)
EqIsSemantic ==
    \A f \in Alive, o \in Alive \cup (Dicts \ (Counters \cup DefaultDicts)) : Agree(f, o)

(* The same of "any Mapping", as the docstring has it. *)
EqAgainstAnyMapping == \A f \in Alive, o \in Alive \cup Dicts : Agree(f, o)
=============================================================================
