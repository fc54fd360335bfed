---------------------------- MODULE CodecProofs ----------------------------
(***************************************************************************)
(* The codec for any schema, values, annotations and documents: it decodes *)
(* what it has encoded to the same value, in whatever order Python has     *)
(* iterated over it, and understands all that it accepts.  The records of  *)
(* the library for any arguments: what a constructor lets through can be   *)
(* serialized and is read back, and equality does not cross types.         *)
(***************************************************************************)
EXTENDS Records, SequenceTheorems, FiniteSetTheorems, TLAPS

-----------------------------------------------------------------------------
(***************************************************************************)
(* Sorting.                                                                *)
(***************************************************************************)
RankOf(key, keys) ==
    CHOOSE p \in DOMAIN SetToSeq(ToSet(keys)) : SetToSeq(ToSet(keys))[p] = key

Earlier(i, k, keys) ==
    RankOf(keys[i], keys) < RankOf(keys[k], keys) \/ (RankOf(keys[i], keys) = RankOf(keys[k], keys) /\ i < k)

PlaceOf(i, keys) == 1 + Cardinality({k \in DOMAIN keys : Earlier(k, i, keys)})

LEMMA SortedByPlace ==
    ASSUME NEW fragments, NEW keys
    PROVE  Sorted(fragments, keys) =
              [p \in DOMAIN fragments |-> fragments[CHOOSE i \in DOMAIN fragments : PlaceOf(i, keys) = p]]
BY DEF Sorted, PlaceOf, Earlier, RankOf

(* The elements of a sequence are finitely many. *)
LEMMA ToSetFinite ==
    ASSUME NEW S, NEW list \in Seq(S)
    PROVE  IsFiniteSet(ToSet(list))
<1>1. list \in Surjection(1..Len(list), ToSet(list))
  BY DEF Surjection, ToSet
<1>2. IsFiniteSet(1..Len(list))
  BY FS_Interval
<1> QED
  BY <1>1, <1>2, FS_Surjection

(* SetToSeq lists a finite set, each element once. *)
LEMMA SetToSeqLists ==
    ASSUME NEW S, IsFiniteSet(S)
    PROVE  /\ SetToSeq(S) \in [1..Cardinality(S) -> S] /\ Cardinality(S) \in Nat
           /\ \A x \in S : \E p \in 1..Cardinality(S) : SetToSeq(S)[p] = x
           /\ \A p, q \in 1..Cardinality(S) : SetToSeq(S)[p] = SetToSeq(S)[q] => p = q
<1> DEFINE n == Cardinality(S)
<1>1. n \in Nat /\ ExistsBijection(1..n, S)
  BY FS_CardinalityType
<1>2. \E f \in [1..n -> S] : IsInjective(f)
  BY <1>1 DEF ExistsBijection, Bijection, Injection
<1>3. SetToSeq(S) \in [1..n -> S] /\ IsInjective(SetToSeq(S))
  BY <1>2 DEF SetToSeq
<1>4. SetToSeq(S) \in Injection(1..n, S)
  BY <1>3 DEF Injection
<1>5. Cardinality(1..n) = n
  BY <1>1, FS_Interval
<1>6. SetToSeq(S) \in Surjection(1..n, S)
  BY <1>4, <1>5, FS_Injection
<1> QED
  BY <1>1, <1>3, <1>6 DEF IsInjective, Surjection

(* The rank of a key is a number, and its own. *)
LEMMA Ranks ==
    ASSUME NEW S, NEW keys \in Seq(S), NEW i \in DOMAIN keys, NEW k \in DOMAIN keys
    PROVE  /\ RankOf(keys[i], keys) \in Nat
           /\ RankOf(keys[i], keys) = RankOf(keys[k], keys) => keys[i] = keys[k]
<1> DEFINE all == SetToSeq(ToSet(keys))
           n == Cardinality(ToSet(keys))
<1>1. all \in [1..n -> ToSet(keys)] /\ n \in Nat /\ \A x \in ToSet(keys) : \E p \in 1..n : all[p] = x
  BY ToSetFinite, SetToSeqLists
<1>2. ASSUME NEW x \in ToSet(keys)
      PROVE  RankOf(x, keys) \in 1..n /\ all[RankOf(x, keys)] = x
  <2>1. DOMAIN all = 1..n
    BY <1>1
  <2> HIDE DEF all
  <2> QED
    BY <1>1, <2>1 DEF RankOf, all
<1>3. keys[i] \in ToSet(keys) /\ keys[k] \in ToSet(keys)
  BY DEF ToSet
<1> HIDE DEF all, n
<1> QED
  BY <1>1, <1>2, <1>3

(* The places are those of the sequence, each taken once. *)
LEMMA Places ==
    ASSUME NEW S, NEW keys \in Seq(S)
    PROVE  /\ \A i \in DOMAIN keys : PlaceOf(i, keys) \in DOMAIN keys
           /\ \A i, k \in DOMAIN keys : PlaceOf(i, keys) = PlaceOf(k, keys) => i = k
           /\ \A p \in DOMAIN keys : \E i \in DOMAIN keys : PlaceOf(i, keys) = p
<1> DEFINE D == 1..Len(keys)
           E(i) == {k \in D : Earlier(k, i, keys)}
           place == [i \in D |-> PlaceOf(i, keys)]
<1>1. Len(keys) \in Nat /\ DOMAIN keys = D /\ IsFiniteSet(D) /\ Cardinality(D) = Len(keys)
  <2>1. Len(keys) \in Nat /\ DOMAIN keys = D
    OBVIOUS
  <2>2. IsFiniteSet(D) /\ Cardinality(D) = IF 1 > Len(keys) THEN 0 ELSE Len(keys) - 1 + 1
    BY <2>1, FS_Interval
  <2> QED
    BY <2>1, <2>2
<1>2. \A i \in D : RankOf(keys[i], keys) \in Nat
  BY <1>1, Ranks
<1>3. \A i \in D : i \notin E(i) /\ E(i) \subseteq D
  BY <1>1, <1>2 DEF Earlier
<1>4. ASSUME NEW i \in D
      PROVE  IsFiniteSet(E(i)) /\ Cardinality(E(i)) \in Nat /\ Cardinality(E(i)) < Len(keys)
  <2>1. E(i) \subseteq D \ {i}
    BY <1>3
  <2>2. IsFiniteSet(D \ {i}) /\ Cardinality(D \ {i}) = Len(keys) - 1
    BY <1>1, FS_RemoveElement
  <2> HIDE DEF E, D
  <2>3. IsFiniteSet(E(i)) /\ Cardinality(E(i)) <= Len(keys) - 1
    BY <2>1, <2>2, FS_Subset
  <2> QED
    BY <1>1, <2>3, FS_CardinalityType
<1>5. ASSUME NEW i \in D
      PROVE  PlaceOf(i, keys) = 1 + Cardinality(E(i)) /\ PlaceOf(i, keys) \in D
  <2>1. PlaceOf(i, keys) = 1 + Cardinality(E(i))
    BY <1>1 DEF PlaceOf
  <2> HIDE DEF E
  <2> QED
    BY <1>1, <1>4, <2>1
<1>6. ASSUME NEW i \in D, NEW k \in D, Earlier(i, k, keys)
      PROVE  PlaceOf(i, keys) # PlaceOf(k, keys)
  <2>1. E(i) \subseteq E(k)
    BY <1>2, <1>6 DEF Earlier
  <2>2. i \in E(k) /\ i \notin E(i)
    BY <1>3, <1>6
  <2>3. IsFiniteSet(E(k)) /\ Cardinality(E(k)) \in Nat /\ Cardinality(E(i)) \in Nat
    BY <1>4
  <2>4. PlaceOf(i, keys) = 1 + Cardinality(E(i)) /\ PlaceOf(k, keys) = 1 + Cardinality(E(k))
    BY <1>5
  <2> HIDE DEF E, D
  <2>5. Cardinality(E(i)) # Cardinality(E(k))
    BY <2>1, <2>2, <2>3, FS_Subset
  <2> QED
    BY <2>3, <2>4, <2>5
<1>7. ASSUME NEW i \in D, NEW k \in D, i # k
      PROVE  Earlier(i, k, keys) \/ Earlier(k, i, keys)
  BY <1>2, <1>7 DEF Earlier
<1>8. \A i, k \in D : PlaceOf(i, keys) = PlaceOf(k, keys) => i = k
  BY <1>6, <1>7
<1>9. place \in Injection(D, D)
  BY <1>5, <1>8 DEF Injection, IsInjective
<1>10. place \in Surjection(D, D)
  BY <1>1, <1>9, FS_Injection
<1> QED
  BY <1>1, <1>5, <1>8, <1>10 DEF Surjection

Permutes(from, n) ==
    /\ from \in [1..n -> 1..n]
    /\ \A p, q \in 1..n : from[p] = from[q] => p = q
    /\ \A i \in 1..n : \E p \in 1..n : from[p] = i

(* sorted returns the fragments, each once, by the places of their keys. *)
LEMMA SortedArranges ==
    ASSUME NEW S, NEW keys \in Seq(S), NEW R, NEW fragments \in Seq(R), Len(fragments) = Len(keys)
    PROVE  /\ Sorted(fragments, keys) \in Seq(R) /\ Len(Sorted(fragments, keys)) = Len(keys)
           /\ \E from : /\ Permutes(from, Len(keys))
                        /\ \A p \in 1..Len(keys) : /\ Sorted(fragments, keys)[p] = fragments[from[p]]
                                                   /\ PlaceOf(from[p], keys) = p
<1> DEFINE D == 1..Len(keys)
           from == [p \in D |-> CHOOSE i \in DOMAIN fragments : PlaceOf(i, keys) = p]
<1>1. DOMAIN keys = D /\ DOMAIN fragments = D /\ Len(keys) \in Nat
  OBVIOUS
<1>2. /\ \A i \in D : PlaceOf(i, keys) \in D
      /\ \A i, k \in D : PlaceOf(i, keys) = PlaceOf(k, keys) => i = k
      /\ \A p \in D : \E i \in D : PlaceOf(i, keys) = p
  BY <1>1, Places
<1>3. \A p \in D : \E i \in DOMAIN fragments : PlaceOf(i, keys) = p
  BY <1>1, <1>2
<1>4. Sorted(fragments, keys) =
          [p \in DOMAIN fragments |-> fragments[CHOOSE i \in DOMAIN fragments : PlaceOf(i, keys) = p]]
  BY SortedByPlace
<1>5. ASSUME NEW p \in D
      PROVE  /\ from[p] \in D /\ PlaceOf(from[p], keys) = p
             /\ Sorted(fragments, keys)[p] = fragments[from[p]] /\ fragments[from[p]] \in R
  <2> HIDE DEF D
  <2>1. from[p] = CHOOSE i \in DOMAIN fragments : PlaceOf(i, keys) = p
    OBVIOUS
  <2>2. from[p] \in DOMAIN fragments /\ PlaceOf(from[p], keys) = p
    BY <1>3, <2>1
  <2>3. Sorted(fragments, keys)[p] = fragments[from[p]]
    BY <1>1, <1>4, <2>1
  <2> QED
    BY <1>1, <2>2, <2>3, ElementOfSeq
<1>6. Sorted(fragments, keys) \in [D -> R]
  BY <1>1, <1>4, <1>5
<1>7. Sorted(fragments, keys) \in Seq(R) /\ Len(Sorted(fragments, keys)) = Len(keys)
  BY <1>1, <1>6, IsASeq, LenProperties
<1>8. from \in [D -> D]
  BY <1>5
<1> HIDE DEF from
<1>9. \A p, q \in D : from[p] = from[q] => p = q
  BY <1>5
<1>10. ASSUME NEW i \in D
       PROVE  \E p \in D : from[p] = i
  <2> HIDE DEF D
  <2>1. PlaceOf(i, keys) \in D
    BY <1>2
  <2>2. from[PlaceOf(i, keys)] \in D /\ PlaceOf(from[PlaceOf(i, keys)], keys) = PlaceOf(i, keys)
    BY <1>5, <2>1
  <2> QED
    BY <1>2, <2>1, <2>2
<1>11. \A p \in D : Sorted(fragments, keys)[p] = fragments[from[p]] /\ PlaceOf(from[p], keys) = p
  BY <1>5
<1>12. Permutes(from, Len(keys))
  BY <1>8, <1>9, <1>10 DEF Permutes
<1> QED
  BY <1>7, <1>11, <1>12, Zenon

(* Two sequences that have as many keys up to each rank have, in the same  *)
(* place, no smaller and no greater key.                                   *)
LEMMA NoSmallerKey ==
    ASSUME NEW S, NEW k1 \in Seq(S), NEW k2 \in Seq(S),
           NEW n \in Nat, Len(k1) = n, Len(k2) = n,
           \A r \in Nat : Cardinality({i \in 1..n : RankOf(k1[i], k1) <= r}) =
                          Cardinality({i \in 1..n : RankOf(k2[i], k2) <= r}),
           NEW i1 \in 1..n, NEW i2 \in 1..n, PlaceOf(i1, k1) = PlaceOf(i2, k2)
    PROVE  ~ (RankOf(k1[i1], k1) < RankOf(k2[i2], k2))
<1> DEFINE D == 1..n
           r == RankOf(k1[i1], k1)
           L1 == {i \in D : RankOf(k1[i], k1) <= r}
           L2 == {i \in D : RankOf(k2[i], k2) <= r}
           E1 == {i \in D : Earlier(i, i1, k1)}
           E2 == {i \in D : Earlier(i, i2, k2)}
<1> SUFFICES ASSUME r < RankOf(k2[i2], k2) PROVE FALSE
  OBVIOUS
<1>1. DOMAIN k1 = D /\ DOMAIN k2 = D /\ IsFiniteSet(D)
  BY FS_Interval
<1>2. \A i \in D : RankOf(k1[i], k1) \in Nat /\ RankOf(k2[i], k2) \in Nat
  BY <1>1, Ranks
<1>3. r \in Nat
  BY <1>2
<1>4. E1 \subseteq L1 \ {i1} /\ i1 \in L1 /\ L1 \subseteq D /\ E2 \subseteq D
  BY <1>2 DEF Earlier
<1>5. L2 \subseteq E2
  BY <1>2, <1>3 DEF Earlier
<1>6. Cardinality(E1) = Cardinality(E2)
  <2>1. PlaceOf(i1, k1) = 1 + Cardinality(E1) /\ PlaceOf(i2, k2) = 1 + Cardinality(E2)
    BY <1>1 DEF PlaceOf
  <2> HIDE DEF E1, E2
  <2>2. IsFiniteSet(E1) /\ IsFiniteSet(E2)
    <3> HIDE DEF L1, D
    <3>1. E1 \subseteq D
      BY <1>4
    <3> QED
      BY <1>1, <1>4, <3>1, FS_Subset
  <2>3. Cardinality(E1) \in Nat
    BY <2>2, FS_CardinalityType
  <2>4. Cardinality(E2) \in Nat
    BY <2>2, FS_CardinalityType
  <2>5. 1 + Cardinality(E1) = 1 + Cardinality(E2)
    BY <2>1
  <2> HIDE DEF L1, D, r
  <2> QED
    BY <2>3, <2>4, <2>5
<1>7. Cardinality(L1) = Cardinality(L2)
  BY <1>3
<1> HIDE DEF E1, E2, L1, L2, D, r
<1>8. IsFiniteSet(L1) /\ IsFiniteSet(E2)
  BY <1>1, <1>4, FS_Subset
<1>9. IsFiniteSet(L1 \ {i1}) /\ Cardinality(L1 \ {i1}) = Cardinality(L1) - 1
  BY <1>4, <1>8, FS_RemoveElement
<1>10. Cardinality(E1) <= Cardinality(L1) - 1
  <2>1. E1 \subseteq L1 \ {i1}
    BY <1>4
  <2>2. Cardinality(E1) <= Cardinality(L1 \ {i1})
    BY <1>9, <2>1, FS_Subset
  <2> QED
    BY <1>9, <2>2
<1>11. Cardinality(L2) <= Cardinality(E2)
  BY <1>5, <1>8, FS_Subset
<1>12. Cardinality(L1) \in Nat
  BY <1>8, FS_CardinalityType
<1>13. Cardinality(E2) \in Nat
  BY <1>8, FS_CardinalityType
<1> QED
  BY <1>6, <1>7, <1>10, <1>11, <1>12, <1>13

(* k2 has the elements of k1 in another order. *)
Rearranges(to, k1, k2) ==
    Len(k1) = Len(k2) /\ Permutes(to, Len(k1)) /\ \A i \in 1..Len(k1) : k2[i] = k1[to[i]]

(* The same keys in another order have the same key in each place. *)
LEMMA SameKeyInPlace ==
    ASSUME NEW S, NEW k1 \in Seq(S), NEW k2 \in Seq(S), NEW to, Rearranges(to, k1, k2),
           NEW i1 \in 1..Len(k1), NEW i2 \in 1..Len(k1), PlaceOf(i1, k1) = PlaceOf(i2, k2)
    PROVE  k1[i1] = k2[i2]
<1> DEFINE D == 1..Len(k1)
<1> /\ Len(k1) = Len(k2) /\ to \in [1..Len(k1) -> 1..Len(k1)]
    /\ \A i, k \in 1..Len(k1) : to[i] = to[k] => i = k
    /\ \A k \in 1..Len(k1) : \E i \in 1..Len(k1) : to[i] = k
    /\ \A i \in 1..Len(k1) : k2[i] = k1[to[i]]
  BY DEF Rearranges, Permutes
<1>1. DOMAIN k1 = D /\ DOMAIN k2 = D /\ IsFiniteSet(D)
  <2>1. Len(k1) \in Nat
    OBVIOUS
  <2> QED
    BY <2>1, FS_Interval
<1>2. ToSet(k1) = ToSet(k2)
  <2> HIDE DEF D
  <2>1. ASSUME NEW x \in ToSet(k1)
        PROVE  x \in ToSet(k2)
    <3>1. PICK k \in D : x = k1[k]
      BY <1>1 DEF ToSet
    <3>2. PICK i \in D : to[i] = k
      BY DEF D
    <3>3. x = k2[i]
      BY <3>1, <3>2 DEF D
    <3> QED
      BY <1>1, <3>3 DEF ToSet
  <2>2. ASSUME NEW x \in ToSet(k2)
        PROVE  x \in ToSet(k1)
    <3>1. PICK i \in D : x = k2[i]
      BY <1>1, <2>2 DEF ToSet
    <3>2. x = k1[to[i]] /\ to[i] \in D
      BY <3>1 DEF D
    <3> QED
      BY <1>1, <3>2 DEF ToSet
  <2> QED
    BY <2>1, <2>2
<1>3. \A x : RankOf(x, k1) = RankOf(x, k2)
  BY <1>2 DEF RankOf
<1>4. ASSUME NEW r \in Nat
      PROVE  Cardinality({i \in D : RankOf(k1[i], k1) <= r}) = Cardinality({i \in D : RankOf(k2[i], k2) <= r})
  <2> DEFINE L1 == {i \in D : RankOf(k1[i], k1) <= r}
             L2 == {i \in D : RankOf(k2[i], k2) <= r}
             f == [i \in L2 |-> to[i]]
  <2>1. \A i \in L2 : f[i] \in L1
    BY <1>3
  <2>2. f \in [L2 -> L1]
    BY <2>1
  <2>3. \A i, k \in L2 : f[i] = f[k] => i = k
    OBVIOUS
  <2>4. ASSUME NEW k \in L1
        PROVE  \E i \in L2 : f[i] = k
    <3>1. PICK i \in D : to[i] = k
      OBVIOUS
    <3>2. i \in L2 /\ f[i] = k
      BY <1>3, <3>1
    <3> HIDE DEF L2, f
    <3> QED
      BY <3>2
  <2>5. IsFiniteSet(L2)
    BY <1>1, FS_Subset
  <2> HIDE DEF f, L1, L2
  <2>6. f \in Bijection(L2, L1)
    BY <2>2, <2>3, <2>4 DEF Bijection, Injection, Surjection, IsInjective
  <2>7. ExistsBijection(L2, L1)
    BY <2>6 DEF ExistsBijection
  <2>8. Cardinality(L1) = Cardinality(L2)
    BY <2>5, <2>7, FS_Bijection
  <2> QED
    BY <2>8 DEF L1, L2
<1>5. ~ (RankOf(k1[i1], k1) < RankOf(k2[i2], k2))
  <2>1. Len(k2) = Len(k1) /\ Len(k1) \in Nat
    OBVIOUS
  <2> QED
    BY <1>4, <2>1, NoSmallerKey
<1>6. ~ (RankOf(k2[i2], k2) < RankOf(k1[i1], k1))
  <2>1. \A r \in Nat : Cardinality({i \in 1..Len(k1) : RankOf(k2[i], k2) <= r}) =
                       Cardinality({i \in 1..Len(k1) : RankOf(k1[i], k1) <= r})
    BY <1>4
  <2>2. PlaceOf(i2, k2) = PlaceOf(i1, k1) /\ Len(k2) = Len(k1) /\ Len(k1) \in Nat
    OBVIOUS
  <2> HIDE DEF D
  <2> QED
    BY <2>1, <2>2, NoSmallerKey
<1>7. PICK m \in D : k2[i2] = k1[m]
  OBVIOUS
<1>8. RankOf(k1[i1], k1) \in Nat /\ RankOf(k1[m], k1) \in Nat
  BY <1>1, Ranks
<1>9. RankOf(k1[i1], k1) = RankOf(k1[m], k1)
  BY <1>3, <1>5, <1>6, <1>7, <1>8
<1>10. m \in DOMAIN k1 /\ i1 \in DOMAIN k1
  BY <1>1
<1>11. k1[i1] = k1[m]
  BY <1>9, <1>10, Ranks
<1> QED
  BY <1>7, <1>11

-----------------------------------------------------------------------------
(***************************************************************************)
(* The tables of answers and the stack.                                    *)
(***************************************************************************)
LEMMA NoAnswersIsEmpty == DOMAIN NoAnswers = {}
BY DEF NoAnswers

LEMMA PushedStack ==
    ASSUME NEW S, NEW s \in Seq(S), NEW x \in S, s # <<>>
    PROVE  Append(s, x) \in Seq(S) /\ Append(s, x) # <<>> /\ Append(s, x)[1] = s[1] /\ Last(Append(s, x)) = x
BY DEF Last

LEMMA PoppedStack ==
    ASSUME NEW S, NEW s \in Seq(S), s # <<>>
    PROVE  /\ Last(s) \in S /\ Front(s) \in Seq(S)
           /\ Front(s) # <<>> => Front(s)[1] = s[1]
           /\ Front(s) = <<>> => Last(s) = s[1]
<1> DEFINE n == Len(s)
<1>1. n \in Nat /\ n # 0
  BY EmptySeq
<1>2. Last(s) \in S
  BY <1>1 DEF Last
<1>3. \A i \in 1..(n - 1) : s[i] \in S
  BY <1>1, ElementOfSeq
<1>4. /\ Front(s) \in Seq(S) /\ Len(Front(s)) = IF 1 <= n - 1 THEN n - 1 - 1 + 1 ELSE 0
      /\ \A i \in 1..(n - 1 - 1 + 1) : Front(s)[i] = s[1 + i - 1]
  BY <1>1, <1>3, SubSeqProperties DEF Front
<1> HIDE DEF n
<1>5. Len(Front(s)) = n - 1
  BY <1>1, <1>4
<1>6. Front(s) # <<>> => Front(s)[1] = s[1]
  <2>1. Front(s) # <<>> => n - 1 # 0
    BY <1>4, <1>5, EmptySeq
  <2> QED
    BY <1>1, <1>4, <2>1
<1>7. Front(s) = <<>> => n = 1
  <2>1. Len(<<>>) = 0
    BY EmptySeq
  <2>2. Front(s) = <<>> => Len(Front(s)) = 0
    BY <2>1, Zenon
  <2> QED
    BY <1>1, <1>5, <2>2
<1> QED
  BY <1>2, <1>4, <1>6, <1>7 DEF Last, n

LEMMA GotIsAnswer ==
    ASSUME NEW E, NEW c, E[c] # {}
    PROVE  Got(E, c) \in E[c]
BY DEF Got

LEMMA GotTheAnswer ==
    ASSUME NEW E, NEW c, NEW x, E[c] = {x}
    PROVE  Got(E, c) = x
BY DEF Got

(* An order lists the elements, each once. *)
LEMMA OrdersList ==
    ASSUME NEW S, IsFiniteSet(S), NEW order \in SetToSeqs(S)
    PROVE  /\ order \in Seq(S) /\ Len(order) = Cardinality(S)
           /\ ToSet(order) = S
           /\ \A i, k \in 1..Len(order) : order[i] = order[k] => i = k
<1> DEFINE n == Cardinality(S)
<1>1. n \in Nat
  BY FS_CardinalityType
<1>2. order \in [1..n -> S] /\ \A i, k \in 1..n : i # k => order[i] # order[k]
  BY DEF SetToSeqs
<1>3. order \in Seq(S) /\ Len(order) = n
  BY <1>1, <1>2
<1>4. order \in Injection(1..n, S)
  BY <1>2 DEF Injection, IsInjective
<1>5. IsFiniteSet(1..n) /\ Cardinality(1..n) = n
  BY <1>1, FS_Interval
<1>6. order \in Surjection(1..n, S)
  BY <1>4, <1>5, FS_Injection
<1>7. ToSet(order) = S
  BY <1>2, <1>6 DEF ToSet, Surjection
<1> QED
  BY <1>2, <1>3, <1>7

-----------------------------------------------------------------------------
(***************************************************************************)
(* JSON fragments: those all of whose parts are fragments again.           *)
(***************************************************************************)
IsClosed(J) == \A j \in J : IsFragment(j, J)
IsJson(j) == \E J : j \in J /\ IsClosed(J)

(* The fragments that j is made of. *)
Made(j) == CHOOSE J : j \in J /\ IsClosed(J)

LEMMA FragmentsGrow ==
    ASSUME NEW J, NEW K, J \subseteq K, NEW j, IsFragment(j, J)
    PROVE  IsFragment(j, K)
<1>1. CASE j.js = "array"
  BY <1>1, SeqMonotonic DEF IsFragment
<1>2. CASE j.js = "object"
  BY <1>2 DEF IsFragment
<1> QED
  BY <1>1, <1>2 DEF IsFragment

LEMMA MadeIsClosed ==
    ASSUME NEW j, IsJson(j)
    PROVE  j \in Made(j) /\ IsClosed(Made(j))
BY DEF IsJson, Made

(* What is made of fragments is a fragment. *)
LEMMA MadeOfJson ==
    ASSUME NEW S, \A x \in S : IsJson(x), NEW j, IsFragment(j, S)
    PROVE  IsJson(j)
<1> DEFINE all == UNION {Made(x) : x \in S}
           J == all \cup {j}
<1>1. S \subseteq all
  BY MadeIsClosed
<1>2. IsFragment(j, J)
  <2>1. S \subseteq J
    BY <1>1
  <2> HIDE DEF J
  <2> QED
    BY <2>1, FragmentsGrow
<1>3. ASSUME NEW k \in J PROVE IsFragment(k, J)
  <2>1. CASE k = j
    BY <2>1, <1>2
  <2>2. CASE k \in all
    <3>1. PICK x \in S : k \in Made(x)
      BY <2>2
    <3>2. IsFragment(k, Made(x))
      BY <3>1, MadeIsClosed DEF IsClosed
    <3>3. Made(x) \subseteq J
      OBVIOUS
    <3> HIDE DEF J
    <3> QED
      BY <3>2, <3>3, FragmentsGrow
  <2> QED
    BY <2>1, <2>2
<1> HIDE DEF J
<1>4. IsClosed(J)
  BY <1>3 DEF IsClosed
<1>5. j \in J
  BY DEF J
<1> QED
  BY <1>4, <1>5 DEF IsJson

LEMMA AtomIsJson ==
    ASSUME NEW js, NEW text, js \notin {"array", "object"}
    PROVE  IsJson(Atom(js, text))
<1>1. IsFragment(Atom(js, text), {})
  BY DEF IsFragment, Atom
<1> QED
  BY <1>1, MadeOfJson

LEMMA ArrayIsJson ==
    ASSUME NEW S, \A x \in S : IsJson(x), NEW items \in Seq(S)
    PROVE  IsJson(Array(items))
<1>1. IsFragment(Array(items), S)
  BY DEF IsFragment, Array
<1> QED
  BY <1>1, MadeOfJson

LEMMA ObjectIsJson ==
    ASSUME NEW D, NEW keys, keys = [k \in D |-> keys[k]], \A k \in D : IsJson(keys[k])
    PROVE  IsJson(Object(keys))
<1> DEFINE S == {keys[k] : k \in D}
<1>1. keys \in [D -> S]
  OBVIOUS
<1>2. \A x \in S : IsJson(x)
  OBVIOUS
<1> HIDE DEF S
<1>3. DOMAIN keys = D
  BY <1>1
<1>4. IsFragment(Object(keys), S)
  BY <1>1, <1>3 DEF IsFragment, Object
<1> QED
  BY <1>2, <1>4, MadeOfJson

LEMMA MarkerIsJson ==
    ASSUME NEW key, NEW text
    PROVE  IsJson(Marker(key, text))
<1> DEFINE keys == [k \in {key} |-> Atom("str", text)]
<1>1. keys = [k \in {key} |-> keys[k]] /\ \A k \in {key} : keys[k] = Atom("str", text)
  OBVIOUS
<1>2. \A k \in {key} : IsJson(keys[k])
  BY <1>1, AtomIsJson
<1> HIDE DEF keys
<1>3. IsJson(Object(keys))
  BY <1>1, <1>2, ObjectIsJson
<1> QED
  BY <1>3 DEF Marker, keys

(* The parts of a fragment. *)
LEMMA PartsOfJson ==
    ASSUME NEW j, IsJson(j)
    PROVE  /\ j.js = "array" => /\ j = Array(j.items) /\ Len(j.items) \in Nat /\ DOMAIN j.items = 1..Len(j.items)
                                /\ \A i \in DOMAIN j.items : IsJson(j.items[i])
           /\ j.js = "object" => /\ j = Object(j.keys) /\ j.keys = [k \in DOMAIN j.keys |-> j.keys[k]]
                                 /\ \A k \in DOMAIN j.keys : IsJson(j.keys[k])
           /\ j.js \notin {"array", "object"} => j = Atom(j.js, j.text)
<1>1. PICK J : j \in J /\ IsClosed(J)
  BY DEF IsJson
<1>2. IsFragment(j, J)
  BY <1>1 DEF IsClosed
<1>3. \A k \in J : IsJson(k)
  BY <1>1 DEF IsJson
<1>4. CASE j.js = "array"
  <2>1. j = Array(j.items) /\ j.items \in Seq(J)
    BY <1>2, <1>4 DEF IsFragment
  <2>2. Len(j.items) \in Nat /\ DOMAIN j.items = 1..Len(j.items) /\ \A i \in DOMAIN j.items : j.items[i] \in J
    BY <2>1
  <2> QED
    BY <1>3, <1>4, <2>1, <2>2
<1>5. CASE j.js = "object"
  BY <1>2, <1>3, <1>5 DEF IsFragment
<1>6. CASE j.js \notin {"array", "object"}
  BY <1>2, <1>6 DEF IsFragment
<1> QED
  BY <1>4, <1>5, <1>6

-----------------------------------------------------------------------------
(***************************************************************************)
(* Encoding.                                                               *)
(***************************************************************************)
Lists(list, S) ==
    /\ list \in Seq(S) /\ ToSet(list) = S
    /\ \A i, k \in 1..Len(list) : list[i] = list[k] => i = k

(* A rearranged list lists the same. *)
LEMMA Rearranged ==
    ASSUME NEW S, NEW order, Lists(order, S), NEW from, Permutes(from, Len(order))
    PROVE  LET list == [p \in 1..Len(order) |-> order[from[p]]]
           IN  Lists(list, S) /\ Len(list) = Len(order)
<1> DEFINE D == 1..Len(order)
           list == [p \in D |-> order[from[p]]]
<1>1. order \in Seq(S) /\ Len(order) \in Nat /\ DOMAIN order = D /\ \A i \in D : order[i] \in S
  BY ElementOfSeq DEF Lists
<1>2. list \in [D -> S]
  BY <1>1 DEF Permutes
<1>3. list \in Seq(S) /\ Len(list) = Len(order)
  BY <1>1, <1>2
<1>4. \A i, k \in D : list[i] = list[k] => i = k
  BY DEF Lists, Permutes
<1>5. ToSet(list) = S
  <2>1. ASSUME NEW x \in S
        PROVE  x \in ToSet(list)
    <3>1. PICK i \in D : order[i] = x
      BY <1>1 DEF Lists, ToSet
    <3>2. PICK p \in D : from[p] = i
      BY DEF Permutes
    <3>3. p \in DOMAIN list /\ list[p] = x
      BY <3>1, <3>2
    <3> HIDE DEF list
    <3> QED
      BY <3>3 DEF ToSet
  <2>2. ASSUME NEW x \in ToSet(list)
        PROVE  x \in S
    <3> HIDE DEF list
    <3> QED
      BY <1>2, <2>2 DEF ToSet
  <2> QED
    BY <2>1, <2>2
<1> HIDE DEF list
<1>6. Lists(list, S)
  BY <1>3, <1>4, <1>5 DEF Lists
<1> QED
  BY <1>3, <1>6 DEF list

(* A frozenset is encoded as the array of its encoded elements in some     *)
(* order, a FrozenDict as that of its encoded pairs.                       *)
LEMMA EncodedElements ==
    ASSUME NEW S, IsFiniteSet(S), NEW order \in SetToSeqs(S), NEW E
    PROVE  \E list : /\ Lists(list, S)
                     /\ EncodeElements(order, E) = Array([p \in 1..Len(list) |-> Got(E, list[p])])
<1> DEFINE n == Len(order)
           G == [i \in DOMAIN order |-> Got(E, order[i])]
           R == {Got(E, x) : x \in S}
<1>1. Lists(order, S)
  BY OrdersList DEF Lists
<1>2. n \in Nat /\ DOMAIN order = 1..n /\ \A i \in 1..n : order[i] \in S
  BY <1>1, ElementOfSeq DEF Lists
<1>3. G \in Seq(R) /\ Len(G) = n /\ \A i \in 1..n : G[i] = Got(E, order[i])
  <2>1. G \in [1..n -> R]
    BY <1>2
  <2> QED
    BY <1>2, <2>1
<1>4. EncodeElements(order, E) = Array(Sorted(G, G))
  BY DEF EncodeElements
<1> HIDE DEF G, R
<1>5. PICK from : Permutes(from, n) /\ \A p \in 1..n : Sorted(G, G)[p] = G[from[p]]
  <2>1. \E from : Permutes(from, Len(G)) /\ \A p \in 1..Len(G) : Sorted(G, G)[p] = G[from[p]]
    BY <1>3, SortedArranges
  <2> QED
    BY <1>3, <2>1
<1>6. Sorted(G, G) \in Seq(R) /\ Len(Sorted(G, G)) = n
  BY <1>3, SortedArranges
<1> DEFINE list == [p \in 1..n |-> order[from[p]]]
<1>7. Lists(list, S) /\ Len(list) = n
  BY <1>1, <1>5, Rearranged
<1>8. \A p \in 1..n : Sorted(G, G)[p] = Got(E, list[p])
  BY <1>3, <1>5 DEF Permutes
<1> HIDE DEF list
<1>9. Sorted(G, G) = [p \in 1..n |-> Got(E, list[p])]
  BY <1>6, <1>8
<1> QED
  BY <1>4, <1>7, <1>9

PairOf(p, E) == Array(<<Got(E, p[1]), Got(E, p[2])>>)

LEMMA EncodedPairs ==
    ASSUME NEW S, IsFiniteSet(S), NEW order \in SetToSeqs(S), NEW E
    PROVE  \E list : /\ Lists(list, S)
                     /\ EncodePairs(order, E) = Array([p \in 1..Len(list) |-> PairOf(list[p], E)])
<1> DEFINE n == Len(order)
           keys == [i \in DOMAIN order |-> Got(E, order[i][1])]
           pairs == [i \in DOMAIN order |-> Array(<<keys[i], Got(E, order[i][2])>>)]
           K == {Got(E, x[1]) : x \in S}
           R == {PairOf(x, E) : x \in S}
<1>1. Lists(order, S)
  BY OrdersList DEF Lists
<1>2. n \in Nat /\ DOMAIN order = 1..n /\ \A i \in 1..n : order[i] \in S
  BY <1>1, ElementOfSeq DEF Lists
<1>3. keys \in Seq(K) /\ Len(keys) = n /\ \A i \in 1..n : keys[i] = Got(E, order[i][1])
  <2>1. keys \in [1..n -> K]
    BY <1>2
  <2> QED
    BY <1>2, <2>1
<1>4. pairs \in Seq(R) /\ Len(pairs) = n
      /\ \A i \in 1..n : pairs[i] = PairOf(order[i], E)
  <2>1. \A i \in 1..n : pairs[i] = PairOf(order[i], E)
    BY <1>2, <1>3 DEF PairOf
  <2>2. \A i \in 1..n : PairOf(order[i], E) \in R
    BY <1>2
  <2>3. DOMAIN pairs = 1..n /\ pairs = [i \in DOMAIN pairs |-> pairs[i]]
    BY <1>2
  <2> HIDE DEF pairs, R
  <2>4. pairs \in [1..n -> R]
    BY <2>1, <2>2, <2>3
  <2> QED
    BY <1>2, <2>1, <2>4
<1>5. EncodePairs(order, E) = Array(Sorted(pairs, keys))
  BY DEF EncodePairs
<1> HIDE DEF keys, pairs, K, R
<1>6. Sorted(pairs, keys) \in Seq(R) /\ Len(Sorted(pairs, keys)) = n
  BY <1>3, <1>4, SortedArranges
<1>7. PICK from : Permutes(from, n) /\ \A p \in 1..n : Sorted(pairs, keys)[p] = pairs[from[p]]
  <2>1. Len(pairs) = Len(keys)
    BY <1>3, <1>4
  <2>2. \E from : Permutes(from, Len(keys)) /\ \A p \in 1..Len(keys) : Sorted(pairs, keys)[p] = pairs[from[p]]
    BY <1>3, <1>4, <2>1, SortedArranges
  <2> QED
    BY <1>3, <2>2
<1> DEFINE list == [p \in 1..n |-> order[from[p]]]
<1>8. Lists(list, S) /\ Len(list) = n
  BY <1>1, <1>7, Rearranged
<1>9. \A p \in 1..n : Sorted(pairs, keys)[p] = PairOf(list[p], E)
  BY <1>4, <1>7 DEF Permutes
<1> HIDE DEF list
<1>10. Sorted(pairs, keys) = [p \in 1..n |-> PairOf(list[p], E)]
  BY <1>6, <1>9
<1> QED
  BY <1>5, <1>8, <1>10

Forms == Leaves \cup {"enum", "tuple", "frozenset", "FrozenDict", "record"}

LEMMA ValueForms ==
    ASSUME NEW v \in Values
    PROVE  /\ IsValue(v, Values) /\ v.py \in Forms
           /\ v.py = "FrozenDict" => \A p, q \in v.pairs : p[1] = q[1] => p = q
BY ValuesAssumption DEF IsValue, Forms, Leaves

LEMMA PartsAreValues ==
    ASSUME NEW v \in Values
    PROVE  Parts(v) \subseteq Values
<1>1. IsValue(v, Values) /\ v.py \in Forms
  BY ValueForms
<1>2. CASE v.py = "tuple"
  BY <1>1, <1>2 DEF IsValue, Parts, ToSet
<1>3. CASE v.py = "frozenset"
  BY <1>1, <1>3 DEF IsValue, Parts
<1>4. CASE v.py = "FrozenDict"
  <2>1. v.pairs \subseteq Values \X Values
    BY <1>1, <1>4 DEF IsValue
  <2>2. \A p \in v.pairs : p[1] \in Values /\ p[2] \in Values
    BY <2>1
  <2> QED
    BY <1>4, <2>2 DEF Parts
<1>5. CASE v.py = "record"
  <2>1. v.fields \in [DOMAIN Schema[v.cls] -> Values]
    BY <1>1, <1>5 DEF IsValue
  <2> QED
    BY <1>5, <2>1 DEF Parts
<1> QED
  BY <1>1, <1>2, <1>3, <1>4, <1>5 DEF Parts, Forms, Leaves

(* The body of _encode gets to its end. *)
Returns(v, E) == ~ Raised(Parts(v), E) /\ \A k \in Keys(v) : k \notin Unwritable

(* What _encode makes of each form of value. *)
LEMMA EncodedForms ==
    ASSUME NEW v \in Values, NEW E, Returns(v, E), NEW order \in Orders(v)
    PROVE  /\ v.py \in {"None", "bool", "int", "str"} => Encode(v, order, E) = {Atom(v.py, v.val)}
           /\ v.py = "float" => Encode(v, order, E) = EncodeFloat(v)
           /\ v.py = "bytes" => Encode(v, order, E) = {Marker("$b", Base64[v.val])}
           /\ v.py = "enum" => Encode(v, order, E) = {Atom("str", v.name)}
           /\ v.py = "tuple" => Encode(v, order, E) = {Array([i \in DOMAIN v.items |-> Got(E, v.items[i])])}
           /\ v.py = "frozenset" =>
                \E list : /\ Lists(list, v.elements)
                          /\ Encode(v, order, E) = {Array([i \in 1..Len(list) |-> Got(E, list[i])])}
           /\ v.py = "FrozenDict" =>
                \E list : /\ Lists(list, v.pairs)
                          /\ Encode(v, order, E) =
                                {Array([i \in 1..Len(list) |-> PairOf(list[i], E)])}
           /\ v.py = "record" =>
                Encode(v, order, E) = {Document(v.cls, [f \in DOMAIN v.fields |-> Got(E, v.fields[f])])}
<1>1. IsValue(v, Values) /\ v.py \in Forms
  BY ValueForms
<1>2. CASE v.py = "frozenset"
  <2>1. IsFiniteSet(v.elements) /\ order \in SetToSeqs(v.elements)
    BY <1>1, <1>2 DEF IsValue, Orders
  <2>2. Encode(v, order, E) = {EncodeElements(order, E)}
    BY <1>2 DEF Encode, Returns
  <2>3. PICK list : /\ Lists(list, v.elements)
                    /\ EncodeElements(order, E) = Array([p \in 1..Len(list) |-> Got(E, list[p])])
    BY <2>1, EncodedElements
  <2> QED
    BY <1>2, <2>2, <2>3
<1>3. CASE v.py = "FrozenDict"
  <2>1. IsFiniteSet(v.pairs) /\ order \in SetToSeqs(v.pairs)
    BY <1>1, <1>3 DEF IsValue, Orders
  <2>2. Encode(v, order, E) = {EncodePairs(order, E)}
    BY <1>3 DEF Encode, Returns
  <2>3. PICK list : /\ Lists(list, v.pairs)
                    /\ EncodePairs(order, E) = Array([p \in 1..Len(list) |-> PairOf(list[p], E)])
    BY <2>1, EncodedPairs
  <2> QED
    BY <1>3, <2>2, <2>3
<1>4. CASE v.py \notin {"frozenset", "FrozenDict"}
  BY <1>1, <1>4 DEF Encode, Returns, Forms, Leaves
<1> QED
  BY <1>2, <1>3, <1>4

(* The answers for all parts are there, and none keeps the body from its   *)
(* end.                                                                    *)
Ready(v, E) == Parts(v) \subseteq DOMAIN E /\ Returns(v, E)

LEMMA ReadyParts ==
    ASSUME NEW v, NEW E, Ready(v, E)
    PROVE  \A x \in Parts(v) : x \in DOMAIN E /\ E[x] # {} /\ Got(E, x) \in E[x]
BY GotIsAnswer DEF Ready, Returns, Raised

LEMMA ItemsAreParts ==
    ASSUME NEW v \in Values
    PROVE  /\ v.py = "tuple" => /\ Len(v.items) \in Nat /\ DOMAIN v.items = 1..Len(v.items)
                                /\ \A i \in DOMAIN v.items : v.items[i] \in Parts(v)
           /\ v.py = "frozenset" => \A x \in v.elements : x \in Parts(v)
           /\ v.py = "FrozenDict" => \A p \in v.pairs : p = <<p[1], p[2]>> /\ p[1] \in Parts(v) /\ p[2] \in Parts(v)
           /\ v.py = "record" => v.cls \in DOMAIN Schema /\ DOMAIN v.fields = DOMAIN Schema[v.cls]
                                 /\ \A f \in DOMAIN v.fields : v.fields[f] \in Parts(v)
<1>1. IsValue(v, Values)
  BY ValueForms
<1>2. CASE v.py = "tuple"
  BY <1>1, <1>2 DEF IsValue, Parts, ToSet
<1>3. CASE v.py = "frozenset"
  BY <1>3 DEF Parts
<1>4. CASE v.py = "FrozenDict"
  <2>1. v.pairs \subseteq Values \X Values
    BY <1>1, <1>4 DEF IsValue
  <2>2. \A p \in v.pairs : p = <<p[1], p[2]>>
    BY <2>1
  <2> QED
    BY <1>4, <2>2 DEF Parts
<1>5. CASE v.py = "record"
  BY <1>1, <1>5 DEF IsValue, Parts
<1> QED
  BY <1>2, <1>3, <1>4, <1>5

(* The body of _encode returns a fragment, or raises for a NaN. *)
LEMMA EncodedIsJson ==
    ASSUME NEW v \in Values, NEW E, Ready(v, E), \A x \in Parts(v) : \A j \in E[x] : IsJson(j),
           NEW order \in Orders(v)
    PROVE  \/ v = NaN /\ Encode(v, order, E) = {}
           \/ \E j : IsJson(j) /\ Encode(v, order, E) = {j}
<1> DEFINE R == {Got(E, x) : x \in Parts(v)}
<1>1. \A y \in R : IsJson(y)
  BY ReadyParts
<1>2. Returns(v, E)
  BY DEF Ready
<1>3. v.py \in Forms
  BY ValueForms
<1>4. \A x \in Parts(v) : Got(E, x) \in R
  OBVIOUS
<1> HIDE DEF R
<1>5. CASE v.py \in {"None", "bool", "int", "str"}
  BY <1>2, <1>5, EncodedForms, AtomIsJson
<1>6. CASE v.py = "float"
  <2>1. Encode(v, order, E) = EncodeFloat(v)
    BY <1>2, <1>6, EncodedForms
  <2>2. IsJson(Marker("$f", v.val)) /\ IsJson(Atom("float", v.val))
    BY AtomIsJson, MarkerIsJson
  <2> QED
    BY <2>1, <2>2 DEF EncodeFloat
<1>7. CASE v.py = "bytes"
  BY <1>2, <1>7, EncodedForms, MarkerIsJson
<1>8. CASE v.py = "enum"
  BY <1>2, <1>8, EncodedForms, AtomIsJson
<1>9. CASE v.py = "tuple"
  <2> DEFINE items == [i \in DOMAIN v.items |-> Got(E, v.items[i])]
  <2>1. items \in [1..Len(v.items) -> R] /\ Len(v.items) \in Nat
    BY <1>4, <1>9, ItemsAreParts
  <2>2. items \in Seq(R)
    BY <2>1
  <2> HIDE DEF items
  <2>3. IsJson(Array(items))
    BY <1>1, <2>2, ArrayIsJson
  <2> QED
    BY <1>2, <1>9, <2>3, EncodedForms DEF items
<1>10. CASE v.py = "frozenset"
  <2>1. PICK list : /\ Lists(list, v.elements)
                    /\ Encode(v, order, E) = {Array([i \in 1..Len(list) |-> Got(E, list[i])])}
    BY <1>2, <1>10, EncodedForms
  <2> DEFINE items == [i \in 1..Len(list) |-> Got(E, list[i])]
  <2>2. Len(list) \in Nat /\ \A i \in 1..Len(list) : list[i] \in v.elements
    BY <2>1, ElementOfSeq DEF Lists
  <2>3. items \in [1..Len(list) -> R]
    BY <1>4, <1>10, <2>2, ItemsAreParts
  <2>4. items \in Seq(R)
    BY <2>2, <2>3
  <2> HIDE DEF items
  <2>5. IsJson(Array(items))
    BY <1>1, <2>4, ArrayIsJson
  <2> QED
    BY <2>1, <2>5 DEF items
<1>11. CASE v.py = "FrozenDict"
  <2> DEFINE P == {PairOf(p, E) : p \in v.pairs}
  <2>1. PICK list : /\ Lists(list, v.pairs)
                    /\ Encode(v, order, E) = {Array([i \in 1..Len(list) |-> PairOf(list[i], E)])}
    BY <1>2, <1>11, EncodedForms
  <2> DEFINE items == [i \in 1..Len(list) |-> PairOf(list[i], E)]
  <2>2. Len(list) \in Nat /\ \A i \in 1..Len(list) : list[i] \in v.pairs
    BY <2>1, ElementOfSeq DEF Lists
  <2>3. ASSUME NEW p \in v.pairs PROVE IsJson(PairOf(p, E))
    <3>1. <<Got(E, p[1]), Got(E, p[2])>> \in Seq(R)
      BY <1>4, <1>11, ItemsAreParts
    <3> QED
      BY <1>1, <3>1, ArrayIsJson DEF PairOf
  <2>4. \A y \in P : IsJson(y)
    BY <2>3
  <2>5. items \in [1..Len(list) -> P]
    BY <2>2
  <2>6. items \in Seq(P)
    BY <2>2, <2>5
  <2> HIDE DEF items, P
  <2>7. IsJson(Array(items))
    BY <2>4, <2>6, ArrayIsJson
  <2> QED
    BY <2>1, <2>7 DEF items
<1>12. CASE v.py = "record"
  <2> DEFINE fields == [f \in DOMAIN v.fields |-> Got(E, v.fields[f])]
             D == {"$type", "schema_version", "fields"}
             keys == [k \in D |-> CASE k = "$type" -> Atom("str", v.cls)
                                    [] k = "schema_version" -> Atom("int", "1")
                                    [] k = "fields" -> Object(fields)]
  <2>1. fields = [f \in DOMAIN v.fields |-> fields[f]] /\ \A f \in DOMAIN v.fields : IsJson(fields[f])
    BY <1>1, <1>4, <1>12, ItemsAreParts
  <2>2. Encode(v, order, E) = {Document(v.cls, fields)}
    BY <1>2, <1>12, EncodedForms
  <2> HIDE DEF fields
  <2>3. IsJson(Object(fields)) /\ IsJson(Atom("str", v.cls)) /\ IsJson(Atom("int", "1"))
    BY <2>1, ObjectIsJson, AtomIsJson
  <2>4. \A k \in D : IsJson(keys[k])
    BY <2>3
  <2>5. keys = [k \in D |-> keys[k]]
    OBVIOUS
  <2>6. Document(v.cls, fields) = Object(keys)
    BY DEF Document
  <2> HIDE DEF keys
  <2>7. IsJson(Object(keys))
    BY <2>4, <2>5, ObjectIsJson
  <2> QED
    BY <2>2, <2>6, <2>7
<1> QED
  BY <1>3, <1>5, <1>6, <1>7, <1>8, <1>9, <1>10, <1>11, <1>12 DEF Forms, Leaves

(* An answer depends on those of the calls it makes, and on no other. *)
LEMMA EncodeAgrees ==
    ASSUME NEW v \in Values, NEW E, NEW F, Ready(v, E), Parts(v) \subseteq DOMAIN F,
           \A x \in Parts(v) : F[x] = E[x], NEW order \in Orders(v)
    PROVE  Ready(v, F) /\ Encode(v, order, F) = Encode(v, order, E)
<1>1. IsValue(v, Values) /\ v.py \in Forms
  BY ValueForms
<1>2. \A x \in Parts(v) : Got(F, x) = Got(E, x)
  BY DEF Got
<1>3. Returns(v, E) /\ Returns(v, F) /\ Ready(v, F)
  BY DEF Raised, Returns, Ready
<1>4. CASE v.py = "frozenset"
  <2>1. order \in Seq(v.elements)
    BY <1>1, <1>4, OrdersList DEF IsValue, Orders
  <2>2. DOMAIN order = 1..Len(order) /\ \A i \in DOMAIN order : order[i] \in Parts(v)
    BY <2>1, <1>4 DEF Parts
  <2>3. [i \in DOMAIN order |-> Got(F, order[i])] = [i \in DOMAIN order |-> Got(E, order[i])]
    BY <1>2, <2>2
  <2>4. EncodeElements(order, F) = EncodeElements(order, E)
    BY <2>3 DEF EncodeElements
  <2> QED
    BY <1>3, <1>4, <2>4 DEF Encode, Returns
<1>5. CASE v.py = "FrozenDict"
  <2>1. order \in Seq(v.pairs)
    BY <1>1, <1>5, OrdersList DEF IsValue, Orders
  <2>2. \A i \in DOMAIN order : order[i][1] \in Parts(v) /\ order[i][2] \in Parts(v)
    BY <2>1, <1>5, ItemsAreParts
  <2>3. [i \in DOMAIN order |-> Got(F, order[i][1])] = [i \in DOMAIN order |-> Got(E, order[i][1])]
    BY <1>2, <2>2
  <2> DEFINE keys == [i \in DOMAIN order |-> Got(E, order[i][1])]
  <2>4. [i \in DOMAIN order |-> Array(<<keys[i], Got(F, order[i][2])>>)] =
            [i \in DOMAIN order |-> Array(<<keys[i], Got(E, order[i][2])>>)]
    BY <1>2, <2>2
  <2> HIDE DEF keys
  <2>5. EncodePairs(order, F) = EncodePairs(order, E)
    BY <2>3, <2>4 DEF EncodePairs, keys
  <2> QED
    BY <1>3, <1>5, <2>5 DEF Encode, Returns
<1>6. CASE v.py = "tuple"
  <2>1. [i \in DOMAIN v.items |-> Got(F, v.items[i])] = [i \in DOMAIN v.items |-> Got(E, v.items[i])]
    BY <1>2, <1>6, ItemsAreParts
  <2> QED
    BY <1>3, <1>6, <2>1 DEF Encode, Returns
<1>7. CASE v.py = "record"
  <2>1. [f \in DOMAIN v.fields |-> Got(F, v.fields[f])] = [f \in DOMAIN v.fields |-> Got(E, v.fields[f])]
    BY <1>2, <1>7, ItemsAreParts
  <2> QED
    BY <1>3, <1>7, <2>1 DEF Encode, Returns
<1>8. CASE v.py \in Leaves \cup {"enum"}
  BY <1>3, <1>8 DEF Encode, Returns, Leaves
<1> QED
  BY <1>1, <1>3, <1>4, <1>5, <1>6, <1>7, <1>8 DEF Forms

(* A value that is encoded has its encoding from those of its parts; one   *)
(* that is refused has a NaN, or a leaf that cannot be written, among its  *)
(* parts, or their parts; and so has one that is encoded but not writable. *)
Written(v, E) == Ready(v, E) /\ \E order \in Orders(v) : E[v] = Encode(v, order, E)

MetUnwritable(E) == \E x \in DOMAIN E : CannotBeWritten(x)

EncodedTable(E) ==
    \A v \in DOMAIN E :
        /\ v \in Values
        /\ E[v] = {} => Met(E)
        /\ E[v] # {} =>
            /\ Written(v, E) /\ \E j : E[v] = {j} /\ IsJson(j)
            /\ v \in Unwritable => MetUnwritable(E)

LEMMA KeysAreParts == \A v : Keys(v) \subseteq Parts(v)
BY DEF Keys, Parts

(* What is not writable is a leaf, or has a part that is not.              *)
LEMMA UnwritablePart ==
    ASSUME NEW E, EncodedTable(E), NEW v \in Values, v \in Unwritable, Parts(v) \subseteq DOMAIN E, Returns(v, E)
    PROVE  CannotBeWritten(v) \/ MetUnwritable(E)
<1>1. SUFFICES ASSUME ~ CannotBeWritten(v) PROVE MetUnwritable(E)
  OBVIOUS
<1>2. PICK p \in Parts(v) : p \in Unwritable
  BY <1>1, UnwritableAssumption
<1>3. p \in DOMAIN E /\ E[p] # {}
  BY DEF Returns, Raised
<1> QED
  BY <1>2, <1>3 DEF EncodedTable

LEMMA MetGrows ==
    ASSUME NEW E, NEW F, DOMAIN E \subseteq DOMAIN F
    PROVE  (Met(E) => Met(F)) /\ (MetUnwritable(E) => MetUnwritable(F))
BY DEF Met, MetUnwritable

LEMMA WrittenStays ==
    ASSUME NEW v \in Values, NEW E, NEW c, NEW answer, v \in DOMAIN E, Written(v, E)
    PROVE  Written(v, With(E, c, answer))
<1> DEFINE F == With(E, c, answer)
<1>1. DOMAIN F = DOMAIN E \cup {c} /\ \A x \in DOMAIN E : F[x] = E[x]
  BY DEF With
<1>2. Parts(v) \subseteq DOMAIN E /\ Ready(v, E)
  BY DEF Written, Ready
<1> HIDE DEF F
<1>3. Parts(v) \subseteq DOMAIN F /\ \A x \in Parts(v) : F[x] = E[x]
  BY <1>1, <1>2
<1>4. PICK order \in Orders(v) : E[v] = Encode(v, order, E)
  BY DEF Written
<1>5. Ready(v, F) /\ Encode(v, order, F) = Encode(v, order, E)
  BY <1>2, <1>3, EncodeAgrees
<1>6. Written(v, F)
  BY <1>1, <1>4, <1>5 DEF Written
<1> QED
  BY <1>6 DEF F

LEMMA EncodedTableGrows ==
    ASSUME NEW E, EncodedTable(E), NEW v \in Values, Raised(Parts(v), E) \/ Parts(v) \subseteq DOMAIN E,
           NEW order \in Orders(v)
    PROVE  EncodedTable(With(E, v, Encode(v, order, E)))
<1> DEFINE F == With(E, v, Encode(v, order, E))
<1>1. /\ DOMAIN F = DOMAIN E \cup {v} /\ \A x \in DOMAIN E : F[x] = E[x]
      /\ v \notin DOMAIN E => F[v] = Encode(v, order, E)
  BY DEF With
<1>2. ASSUME NEW x \in DOMAIN E, E[x] # {}
      PROVE  Written(x, F)
  BY <1>2, WrittenStays DEF EncodedTable
<1>3. CASE v \in DOMAIN E
  <2> HIDE DEF F
  <2>1. F[v] = E[v] /\ DOMAIN F = DOMAIN E
    BY <1>1, <1>3
  <2>2. (Met(E) => Met(F)) /\ (MetUnwritable(E) => MetUnwritable(F))
    BY <2>1, MetGrows
  <2>3. EncodedTable(F)
    BY <1>1, <1>2, <2>1, <2>2 DEF EncodedTable
  <2> QED
    BY <2>3 DEF F
<1>4. CASE v \notin DOMAIN E /\ ~ Returns(v, E)
  <2>1. Encode(v, order, E) = {}
    BY <1>4 DEF Encode, Returns
  <2>2. Met(E)
    <3>1. CASE Raised(Parts(v), E)
      BY <3>1 DEF Raised, EncodedTable
    <3>2. CASE ~ Raised(Parts(v), E)
      <4>1. PICK k \in Keys(v) : k \in Unwritable
        BY <1>4, <3>2 DEF Returns
      <4>2. k \in DOMAIN E /\ E[k] # {}
        BY <3>2, KeysAreParts DEF Raised
      <4>3. MetUnwritable(E)
        BY <4>1, <4>2 DEF EncodedTable
      <4> QED
        BY <4>3 DEF MetUnwritable, Met
    <3> QED
      BY <3>1, <3>2
  <2> HIDE DEF F
  <2>3. EncodedTable(F)
    BY <1>1, <1>2, <1>4, <2>1, <2>2, MetGrows DEF EncodedTable
  <2> QED
    BY <2>3 DEF F
<1>5. CASE v \notin DOMAIN E /\ Returns(v, E)
  <2>1. Ready(v, E)
    BY <1>5 DEF Ready, Returns
  <2>2. \A x \in Parts(v) : \A j \in E[x] : IsJson(j)
    BY <2>1 DEF Ready, EncodedTable
  <2>3. \/ v = NaN /\ Encode(v, order, E) = {}
        \/ \E j : IsJson(j) /\ Encode(v, order, E) = {j}
    BY <2>1, <2>2, EncodedIsJson
  <2>4. v \in Unwritable => CannotBeWritten(v) \/ MetUnwritable(E)
    BY <2>1, UnwritablePart DEF Ready
  <2> HIDE DEF F
  <2>5. Ready(v, F) /\ Encode(v, order, F) = Encode(v, order, E)
    BY <1>1, <2>1, EncodeAgrees DEF Ready
  <2>6. Written(v, F)
    BY <1>1, <1>5, <2>5 DEF Written
  <2>7. (v = NaN => Met(F)) /\ (v \in Unwritable => MetUnwritable(F))
    BY <1>1, <2>4, MetGrows DEF Met, MetUnwritable
  <2>8. \A x \in DOMAIN E : F[x] = {} => Met(F)
    BY <1>1, MetGrows DEF EncodedTable
  <2>9. \A x \in DOMAIN E : F[x] # {} /\ x \in Unwritable => MetUnwritable(F)
    BY <1>1, MetGrows DEF EncodedTable
  <2>10. EncodedTable(F)
    BY <1>1, <1>2, <1>5, <2>3, <2>6, <2>7, <2>8, <2>9 DEF EncodedTable
  <2> QED
    BY <2>10 DEF F
<1> QED
  BY <1>3, <1>4, <1>5

-----------------------------------------------------------------------------
(***************************************************************************)
(* Decoding is strict.                                                     *)
(***************************************************************************)
(* A call is of a fragment for an annotation. *)
IsCall(c) == c = <<c[1], c[2]>> /\ IsJson(c[1]) /\ c[2] \in Annotations

LEMMA UnaliasIsTarget == \A a : Unalias(a) = Target(a)
BY DEF Unalias, Target

LEMMA AnnotationForms ==
    ASSUME NEW a \in Annotations
    PROVE  /\ IsAnnotation(a, Annotations)
           /\ Target(a).aliases = 0
           /\ Target(a).ann \in Leaves \cup {"union", "tuple", "fixed", "frozenset", "FrozenDict", "record", "enum"}
BY AnnotationsAssumption DEF IsAnnotation, Union, Of, Fixed, DictOf, Rec, EnumOf, A

(* The member a union is decoded for is one of its members. *)
LEMMA AlternativeIsMember ==
    ASSUME NEW j, NEW a \in Annotations, Target(a).ann = "union"
    PROVE  \A m \in Alternative(j, Target(a)) : m \in Annotations /\ \E k \in Target(a).any : m = Target(k)
<1> DEFINE members == {Unalias(m) : m \in Target(a).any}
<1>1. \A m \in members : m \in Annotations /\ \E k \in Target(a).any : m = Target(k)
  <2>1. \A k \in Target(a).any : Target(k) \in Annotations
    BY AnnotationForms DEF IsAnnotation
  <2> QED
    BY <2>1, UnaliasIsTarget
<1>2. Alternative(j, Target(a)) \subseteq members
  BY DEF Alternative
<1> QED
  BY <1>1, <1>2

(* The fields of a document are fragments. *)
LEMMA DocumentFields ==
    ASSUME NEW j, IsJson(j), NEW cls, IsDocument(j, cls)
    PROVE  /\ j = Document(cls, j.keys["fields"].keys)
           /\ DOMAIN j.keys["fields"].keys = DOMAIN Schema[cls]
           /\ \A f \in DOMAIN Schema[cls] : IsJson(j.keys["fields"].keys[f])
<1> DEFINE D == {"$type", "schema_version", "fields"}
           fields == j.keys["fields"].keys
<1>1. j.js = "object" /\ DOMAIN j.keys = D /\ j.keys["fields"].js = "object" /\ DOMAIN fields = DOMAIN Schema[cls]
      /\ j.keys["$type"] = Atom("str", cls) /\ j.keys["schema_version"] = Atom("int", "1")
  BY DEF IsDocument, IsObject
<1>2. j = Object(j.keys) /\ j.keys = [k \in D |-> j.keys[k]] /\ IsJson(j.keys["fields"])
  BY <1>1, PartsOfJson
<1>3. j.keys["fields"] = Object(fields) /\ \A f \in DOMAIN fields : IsJson(fields[f])
  BY <1>1, <1>2, PartsOfJson
<1>4. j.keys = [k \in D |-> CASE k = "$type" -> Atom("str", cls)
                              [] k = "schema_version" -> Atom("int", "1")
                              [] k = "fields" -> Object(fields)]
  BY <1>1, <1>2, <1>3
<1>5. j = Document(cls, fields)
  BY <1>2, <1>4 DEF Document
<1> QED
  BY <1>1, <1>3, <1>5

LEMMA CallsAreCalls ==
    ASSUME NEW j, NEW a, IsCall(<<j, a>>), NEW c \in Calls(j, a)
    PROVE  IsCall(c)
<1> DEFINE t == Target(a)
<1>1. IsJson(j) /\ a \in Annotations /\ IsAnnotation(a, Annotations)
  BY AnnotationForms DEF IsCall
<1>2. Unalias(a) = t /\ WellFormed(j, t)
  BY UnaliasIsTarget DEF Calls
<1>3. CASE t.ann = "union"
  <2>1. PICK m \in Alternative(j, t) : c = <<j, m>>
    BY <1>2, <1>3 DEF Calls
  <2> HIDE DEF t
  <2>2. m \in Annotations
    BY <1>1, <1>3, <2>1, AlternativeIsMember DEF t
  <2> QED
    BY <1>1, <2>1, <2>2 DEF IsCall
<1>4. CASE t.ann \in {"tuple", "frozenset"}
  <2>1. j.js = "array" /\ t.of \in Annotations
    BY <1>1, <1>2, <1>4 DEF WellFormed, IsAnnotation
  <2> HIDE DEF t
  <2>2. PICK i \in DOMAIN j.items : c = Element(j, t, i)
    BY <1>2, <1>4 DEF Calls
  <2>3. IsJson(j.items[i])
    BY <1>1, <2>1, PartsOfJson
  <2> QED
    BY <2>1, <2>2, <2>3 DEF IsCall, Element
<1>5. CASE t.ann = "fixed"
  <2>1. j.js = "array" /\ SameLength(j.items, t.each) /\ t.each \in Seq(Annotations)
    BY <1>1, <1>2, <1>5 DEF WellFormed, IsAnnotation
  <2> HIDE DEF t
  <2>2. PICK i \in DOMAIN t.each : c = Component(j, t, i)
    BY <1>2, <1>5 DEF Calls
  <2>3. DOMAIN j.items = 1..Len(j.items)
    BY <1>1, <2>1, PartsOfJson
  <2>4. i \in DOMAIN j.items /\ t.each[i] \in Annotations
    BY <2>1, <2>3 DEF SameLength
  <2>5. IsJson(j.items[i])
    BY <1>1, <2>1, <2>4, PartsOfJson
  <2> QED
    BY <2>2, <2>4, <2>5 DEF IsCall, Component
<1>6. CASE t.ann = "FrozenDict"
  <2>1. j.js = "array" /\ t.key \in Annotations /\ t.of \in Annotations /\ \A i \in DOMAIN j.items : IsPair(j.items[i])
    BY <1>1, <1>2, <1>6 DEF WellFormed, IsAnnotation
  <2> HIDE DEF t
  <2>2. PICK i \in DOMAIN j.items : c = KeyOf(j, t, i) \/ c = ValueOf(j, t, i)
    BY <1>2, <1>6 DEF Calls
  <2>3. IsJson(j.items[i]) /\ j.items[i].js = "array" /\ Len(j.items[i].items) = 2
    BY <1>1, <2>1, PartsOfJson DEF IsPair
  <2>4. IsJson(j.items[i].items[1]) /\ IsJson(j.items[i].items[2])
    <3> DEFINE pair == j.items[i]
    <3>1. IsJson(pair) /\ pair.js = "array" /\ Len(pair.items) = 2
      BY <2>3
    <3> HIDE DEF pair
    <3>2. DOMAIN pair.items = 1..2 /\ \A k \in DOMAIN pair.items : IsJson(pair.items[k])
      BY <3>1, PartsOfJson
    <3>3. IsJson(pair.items[1]) /\ IsJson(pair.items[2])
      BY <3>2
    <3> QED
      BY <3>3 DEF pair
  <2> QED
    BY <2>1, <2>2, <2>4 DEF IsCall, KeyOf, ValueOf
<1>7. CASE t.ann = "record"
  <2>1. IsDocument(j, t.cls) /\ Schema[t.cls] \in [DOMAIN Schema[t.cls] -> Annotations]
    BY <1>1, <1>2, <1>7 DEF WellFormed, IsAnnotation
  <2> HIDE DEF t
  <2>2. PICK f \in DOMAIN Schema[t.cls] : c = FieldOf(j, t, f)
    BY <1>2, <1>7 DEF Calls
  <2>3. IsJson(j.keys["fields"].keys[f])
    BY <1>1, <2>1, DocumentFields
  <2> QED
    BY <2>1, <2>2, <2>3 DEF IsCall, FieldOf
<1> QED
  BY <1>2, <1>3, <1>4, <1>5, <1>6, <1>7 DEF Calls

(* What the answers in a table say: the values of each annotation, and     *)
(* what each fragment stands for.                                          *)
Understood(D) == UNION {{<<w, c[2]>> : w \in D[c]} : c \in DOMAIN D}
Meant(D) == UNION {{<<c[1], w>> : w \in D[c]} : c \in DOMAIN D}

(* w is all that is said of what _decode returns for a call. *)
IsStrict(w, j, a, U, M) == IsValue(w, {p[1] : p \in U}) /\ Fits(w, a, U) /\ Says(j, w, M)

StrictTable(D) == \A c \in DOMAIN D : \A w \in D[c] : IsStrict(w, c[1], c[2], Understood(D), Meant(D))

LEMMA StrictByTable == Strict <=> StrictTable(decoded)
BY DEF Strict, StrictTable, IsStrict, Understood, Meant

LEMMA PlainIsStrict ==
    ASSUME NEW j, NEW a \in Annotations, IsJson(j), NEW U, NEW M,
           Target(a).ann \in {"None", "bool", "int", "float", "str"}, NEW w \in Plain(j, Target(a))
    PROVE  IsStrict(w, j, a, U, M)
<1> DEFINE n == Target(a).ann
<1>1. w = Leaf(n, j.text) /\ j.js = n
  BY DEF Plain
<1>2. j = Atom(n, j.text)
  BY <1>1, PartsOfJson
<1>3. IsValue(w, {p[1] : p \in U})
  BY <1>1 DEF IsValue, Leaf, Leaves
<1>4. Fits(w, a, U)
  BY <1>1 DEF Fits, Leaf
<1> HIDE DEF n
<1>5. n \in {"None", "bool", "int", "float", "str"}
  BY DEF n
<1>6. Returns(w, NoAnswers)
  BY <1>1, <1>5 DEF Returns, Raised, NoAnswers, Keys, Leaf
<1>7. CASE n # "float"
  <2>1. Encode(w, <<>>, NoAnswers) = {j}
    BY <1>1, <1>2, <1>5, <1>6, <1>7 DEF Encode, Returns, Leaf
  <2>2. Says(j, w, M)
    BY <1>1, <1>5, <2>1 DEF Says, Leaf
  <2> QED
    BY <1>3, <1>4, <2>2 DEF IsStrict
<1>8. CASE n = "float"
  <2>1. w.py = "float" /\ w.val = j.text /\ w = Leaf("float", w.val)
    BY <1>1, <1>8 DEF Leaf
  <2>2. CASE w.val \in Infinities \cup {"nan"}
    BY <1>2, <1>3, <1>4, <1>8, <2>1, <2>2 DEF IsStrict, Says
  <2>3. CASE w.val \notin Infinities \cup {"nan"}
    <3>1. EncodeFloat(w) = {Atom("float", w.val)}
      BY <2>1, <2>3 DEF EncodeFloat, NaN, Leaf
    <3>2. Encode(w, <<>>, NoAnswers) = {j}
      BY <1>2, <1>6, <1>8, <2>1, <3>1 DEF Encode, Returns
    <3> QED
      BY <1>3, <1>4, <2>1, <3>2 DEF IsStrict, Says
  <2> QED
    BY <2>2, <2>3
<1> QED
  BY <1>7, <1>8

(* A document of one marker. *)
LEMMA MarkerOf ==
    ASSUME NEW j, IsJson(j), NEW key, IsObject(j, {key}), NEW text, j.keys[key] = Atom("str", text)
    PROVE  j = Marker(key, text)
<1>1. j = Object(j.keys) /\ j.keys = [k \in {key} |-> j.keys[k]]
  BY PartsOfJson DEF IsObject
<1>2. j.keys = [k \in {key} |-> Atom("str", text)]
  BY <1>1
<1> QED
  BY <1>1, <1>2 DEF Marker

LEMMA LeafIsStrict ==
    ASSUME NEW j, NEW a \in Annotations, IsJson(j), NEW U, NEW M,
           Target(a).ann \in Leaves \cup {"enum"}, NEW w \in DecodeLeaf(j, Target(a))
    PROVE  IsStrict(w, j, a, U, M)
<1> DEFINE t == Target(a)
<1>1. CASE t.ann = "bytes"
  <2> DEFINE text == j.keys["$b"].text
  <2>1. /\ IsObject(j, {"$b"}) /\ j.keys["$b"].js = "str"
        /\ text \in DOMAIN Unbase64 /\ w = Leaf("bytes", Unbase64[text])
    BY <1>1 DEF DecodeLeaf
  <2>2. IsJson(j.keys["$b"])
    BY <2>1, PartsOfJson DEF IsObject
  <2>3. j.keys["$b"] = Atom("str", text)
    BY <2>1, <2>2, PartsOfJson
  <2> HIDE DEF text
  <2>4. j = Marker("$b", text)
    BY <2>1, <2>3, MarkerOf
  <2>5. w.py = "bytes" /\ w.val = Unbase64[text]
    BY <2>1 DEF Leaf
  <2>6. Says(j, w, M)
    BY <2>1, <2>4, <2>5 DEF Says
  <2>7. IsValue(w, {p[1] : p \in U})
    BY <2>1 DEF IsValue, Leaf, Leaves
  <2>8. Fits(w, a, U)
    BY <1>1, <2>5 DEF Fits
  <2> QED
    BY <2>6, <2>7, <2>8 DEF IsStrict
<1>2. CASE t.ann = "enum"
  <2>1. j.js = "str" /\ j.text \in Members[t.cls] /\ w = Member(t.cls, j.text)
    BY <1>2 DEF DecodeLeaf
  <2>2. j = Atom("str", j.text)
    BY <2>1, PartsOfJson
  <2>4. w.py = "enum" /\ w.name = j.text /\ w.cls = t.cls
    BY <2>1 DEF Member
  <2>3. Returns(w, NoAnswers)
    BY <2>4 DEF Returns, Raised, NoAnswers, Keys
  <2>5. Encode(w, <<>>, NoAnswers) = {j}
    BY <2>2, <2>3, <2>4 DEF Encode, Returns
  <2>6. IsValue(w, {p[1] : p \in U})
    BY <2>1, <2>4 DEF IsValue
  <2>7. Fits(w, a, U)
    BY <1>2, <2>1, <2>4 DEF Fits
  <2> QED
    BY <2>4, <2>5, <2>6, <2>7 DEF IsStrict, Says
<1>3. CASE t.ann = "float" /\ IsObject(j, {"$f"})
  <2>1. PICK text \in Infinities : j.keys["$f"] = Atom("str", text) /\ w = Leaf("float", text)
    BY <1>3 DEF DecodeLeaf
  <2>2. j = Marker("$f", text)
    BY <1>3, <2>1, MarkerOf
  <2>4. w.py = "float" /\ w.val = text
    BY <2>1 DEF Leaf
  <2>3. Returns(w, NoAnswers)
    BY <2>4 DEF Returns, Raised, NoAnswers, Keys
  <2>5. w # NaN
    BY <2>1, <2>4 DEF NaN, Infinities, Leaf
  <2>6. Encode(w, <<>>, NoAnswers) = {j}
    BY <2>1, <2>2, <2>3, <2>4, <2>5 DEF Encode, Returns, EncodeFloat
  <2>7. IsValue(w, {p[1] : p \in U})
    BY <2>1, <2>4 DEF IsValue, Leaves
  <2>8. Fits(w, a, U)
    BY <1>3, <2>4 DEF Fits
  <2> QED
    BY <2>4, <2>6, <2>7, <2>8 DEF IsStrict, Says
<1>4. CASE t.ann \in {"None", "bool", "int", "float", "str"} /\ ~ (t.ann = "float" /\ IsObject(j, {"$f"}))
  <2>1. w \in Plain(j, t)
    BY <1>4 DEF DecodeLeaf
  <2> QED
    BY <1>4, <2>1, PlainIsStrict
<1> QED
  BY <1>1, <1>2, <1>3, <1>4 DEF Leaves

(* The answers of the calls of a body are there. *)
Answered(j, a, D) == Calls(j, a) \subseteq DOMAIN D /\ ~ Raised(Calls(j, a), D)

LEMMA AnswersMean ==
    ASSUME NEW j, NEW a, NEW D, Answered(j, a, D), NEW c \in Calls(j, a)
    PROVE  /\ Got(D, c) \in D[c]
           /\ <<Got(D, c), c[2]>> \in Understood(D)
           /\ <<c[1], Got(D, c)>> \in Meant(D)
           /\ Got(D, c) \in {p[1] : p \in Understood(D)}
<1>1. c \in DOMAIN D /\ D[c] # {}
  BY DEF Answered, Raised
<1>2. Got(D, c) \in D[c]
  BY <1>1, GotIsAnswer
<1>3. <<Got(D, c), c[2]>> \in Understood(D)
  BY <1>1, <1>2 DEF Understood
<1>4. <<c[1], Got(D, c)>> \in Meant(D)
  BY <1>1, <1>2 DEF Meant
<1> QED
  BY <1>2, <1>3, <1>4

LEMMA SequenceIsStrict ==
    ASSUME NEW j, NEW a, IsCall(<<j, a>>), NEW D, Answered(j, a, D), NEW t, t = Target(a),
           t.ann \in {"tuple", "fixed", "frozenset"}, NEW w \in Decode(j, a, D)
    PROVE  IsStrict(w, j, a, Understood(D), Meant(D))
<1> DEFINE U == Understood(D)
           M == Meant(D)
           V == {p[1] : p \in U}
           n == Len(j.items)
<1>1. IsJson(j) /\ a \in Annotations /\ IsAnnotation(a, Annotations) /\ Unalias(a) = t
  BY AnnotationForms, UnaliasIsTarget DEF IsCall
<1>2. WellFormed(j, t) /\ j.js = "array"
  BY <1>1 DEF Decode, WellFormed
<1>3. ~ Raised(Calls(j, a), D)
  BY DEF Answered
<1>4. j = Array(j.items) /\ n \in Nat /\ DOMAIN j.items = 1..n
  BY <1>1, <1>2, PartsOfJson
<1> HIDE DEF U, M
<1>5. CASE t.ann \in {"tuple", "frozenset"}
  <2> DEFINE elements == [i \in DOMAIN j.items |-> Got(D, Element(j, t, i))]
  <2>1. ASSUME NEW i \in 1..n
        PROVE  elements[i] \in V /\ <<elements[i], t.of>> \in U /\ <<j.items[i], elements[i]>> \in M
    <3>1. Element(j, t, i) \in Calls(j, a)
      BY <1>1, <1>2, <1>4, <1>5 DEF Calls
    <3>2. Element(j, t, i)[1] = j.items[i] /\ Element(j, t, i)[2] = t.of
      BY DEF Element
    <3>3. elements[i] = Got(D, Element(j, t, i))
      BY <1>4
    <3> HIDE DEF elements
    <3> QED
      BY <3>1, <3>2, <3>3, AnswersMean DEF U, M
  <2>2. DOMAIN elements = 1..n /\ elements \in [1..n -> V]
    BY <1>4, <2>1
  <2>3. elements \in Seq(V) /\ Len(elements) = n
    BY <1>4, <2>2
  <2>4. CASE t.ann = "tuple"
    <3>1. w = Tuple(elements)
      BY <1>1, <1>2, <1>3, <2>4 DEF Decode
    <3> HIDE DEF elements
    <3>2. w.py = "tuple" /\ w.items = elements /\ w = Tuple(w.items)
      BY <3>1 DEF Tuple
    <3> HIDE DEF V, n
    <3>3. IsValue(w, V)
      BY <2>3, <3>2 DEF IsValue
    <3>4. Fits(w, a, U)
      BY <2>1, <2>2, <2>4, <3>2 DEF Fits
    <3>5. Says(j, w, M)
      BY <1>4, <2>1, <2>3, <3>2 DEF Says, n
    <3> QED
      BY <3>3, <3>4, <3>5 DEF IsStrict, V, U, M
  <2>5. CASE t.ann = "frozenset"
    <3>1. w = FrozenSet(ToSet(elements)) /\ Distinct(elements)
      BY <1>1, <1>2, <1>3, <2>5 DEF Decode
    <3> HIDE DEF elements
    <3>2. w.py = "frozenset" /\ w.elements = ToSet(elements) /\ w = FrozenSet(w.elements)
      BY <3>1 DEF FrozenSet
    <3> HIDE DEF V
    <3>3. IsFiniteSet(w.elements)
      BY <2>3, <3>2, ToSetFinite
    <3>4. \A x \in w.elements : \E i \in 1..n : x = elements[i]
      BY <2>2, <3>2 DEF ToSet
    <3>5. IsValue(w, V)
      BY <2>1, <2>2, <3>1, <3>2, <3>3, <3>4 DEF IsValue, Distinct
    <3>6. Fits(w, a, U)
      BY <2>1, <2>5, <3>2, <3>4 DEF Fits
    <3>7. elements \in [DOMAIN j.items -> w.elements]
      BY <1>4, <2>2, <3>2 DEF ToSet
    <3> HIDE DEF n
    <3>8. Says(j, w, M)
      BY <1>4, <2>1, <3>1, <3>2, <3>7 DEF Says
    <3> QED
      BY <3>5, <3>6, <3>8 DEF IsStrict, V, U, M
  <2> QED
    BY <1>5, <2>4, <2>5
<1>6. CASE t.ann = "fixed"
  <2> DEFINE items == [i \in DOMAIN t.each |-> Got(D, Component(j, t, i))]
  <2>1. DOMAIN t.each = 1..n /\ Len(t.each) = n
    BY <1>1, <1>2, <1>6 DEF WellFormed, SameLength, IsAnnotation
  <2>2. ASSUME NEW i \in 1..n
        PROVE  items[i] \in V /\ <<items[i], t.each[i]>> \in U /\ <<j.items[i], items[i]>> \in M
    <3>1. Component(j, t, i) \in Calls(j, a)
      BY <1>1, <1>2, <2>1, <1>6 DEF Calls
    <3>2. Component(j, t, i)[1] = j.items[i] /\ Component(j, t, i)[2] = t.each[i]
      BY DEF Component
    <3>3. items[i] = Got(D, Component(j, t, i))
      BY <2>1
    <3> HIDE DEF items
    <3> QED
      BY <3>1, <3>2, <3>3, AnswersMean DEF U, M
  <2>3. DOMAIN items = 1..n /\ items \in [1..n -> V]
    BY <2>1, <2>2
  <2>4. items \in Seq(V) /\ Len(items) = n
    BY <1>4, <2>3
  <2>5. w = Tuple(items)
    BY <1>1, <1>2, <1>3, <1>6 DEF Decode
  <2> HIDE DEF items
  <2>6. w.py = "tuple" /\ w.items = items /\ w = Tuple(w.items)
    BY <2>5 DEF Tuple
  <2> HIDE DEF V, n
  <2>7. IsValue(w, V)
    BY <2>4, <2>6 DEF IsValue
  <2>8. Fits(w, a, U)
    BY <1>6, <2>1, <2>2, <2>3, <2>4, <2>6 DEF Fits
  <2>9. Says(j, w, M)
    BY <1>4, <2>2, <2>4, <2>6 DEF Says, n
  <2> QED
    BY <2>7, <2>8, <2>9 DEF IsStrict, V, U, M
<1> QED
  BY <1>5, <1>6

LEMMA FrozenDictIsStrict ==
    ASSUME NEW j, NEW a, IsCall(<<j, a>>), NEW D, Answered(j, a, D), NEW t, t = Target(a),
           t.ann = "FrozenDict", NEW w \in Decode(j, a, D)
    PROVE  IsStrict(w, j, a, Understood(D), Meant(D))
<1> DEFINE U == Understood(D)
           M == Meant(D)
           V == {p[1] : p \in U}
           n == Len(j.items)
           keys == [i \in DOMAIN j.items |-> Got(D, KeyOf(j, t, i))]
           list == [i \in DOMAIN j.items |-> <<keys[i], Got(D, ValueOf(j, t, i))>>]
           pairs == {<<keys[i], Got(D, ValueOf(j, t, i))>> : i \in DOMAIN j.items}
<1>1. IsJson(j) /\ a \in Annotations /\ IsAnnotation(a, Annotations) /\ Unalias(a) = t
  BY AnnotationForms, UnaliasIsTarget DEF IsCall
<1>2. WellFormed(j, t) /\ j.js = "array" /\ \A i \in DOMAIN j.items : IsPair(j.items[i])
  BY <1>1 DEF Decode, WellFormed
<1>3. ~ Raised(Calls(j, a), D)
  BY DEF Answered
<1>4. j = Array(j.items) /\ n \in Nat /\ DOMAIN j.items = 1..n /\ \A i \in 1..n : IsJson(j.items[i])
  BY <1>1, <1>2, PartsOfJson
<1>5. w = Dict(pairs) /\ Distinct(keys)
  BY <1>1, <1>2, <1>3 DEF Decode
<1> HIDE DEF U, M
<1>6. ASSUME NEW i \in 1..n
      PROVE  /\ keys[i] \in V /\ <<keys[i], t.key>> \in U /\ <<j.items[i].items[1], keys[i]>> \in M
             /\ list[i] \in V \X V /\ list[i][1] = keys[i]
             /\ <<list[i][2], t.of>> \in U /\ <<j.items[i].items[2], list[i][2]>> \in M
  <2>1. KeyOf(j, t, i) \in Calls(j, a) /\ ValueOf(j, t, i) \in Calls(j, a)
    BY <1>1, <1>2, <1>4 DEF Calls
  <2>2. /\ KeyOf(j, t, i)[1] = j.items[i].items[1] /\ KeyOf(j, t, i)[2] = t.key
        /\ ValueOf(j, t, i)[1] = j.items[i].items[2] /\ ValueOf(j, t, i)[2] = t.of
    BY DEF KeyOf, ValueOf
  <2>3. keys[i] = Got(D, KeyOf(j, t, i)) /\ list[i] = <<keys[i], Got(D, ValueOf(j, t, i))>>
    BY <1>4
  <2> HIDE DEF keys, list
  <2>4. keys[i] \in V /\ <<keys[i], t.key>> \in U /\ <<j.items[i].items[1], keys[i]>> \in M
    BY <2>1, <2>2, <2>3, AnswersMean DEF U, M
  <2>5. list[i][1] = keys[i] /\ list[i][2] = Got(D, ValueOf(j, t, i))
    BY <2>3
  <2>6. list[i][2] \in V /\ <<list[i][2], t.of>> \in U /\ <<j.items[i].items[2], list[i][2]>> \in M
    BY <2>1, <2>2, <2>5, AnswersMean DEF U, M
  <2>7. list[i] \in V \X V
    <3>1. Got(D, ValueOf(j, t, i)) \in V
      BY <2>5, <2>6
    <3> HIDE DEF V
    <3> QED
      BY <2>3, <2>4, <3>1
  <2> QED
    BY <2>4, <2>5, <2>6, <2>7
<1>7. DOMAIN keys = 1..n /\ DOMAIN list = 1..n
  BY <1>4
<1>8. pairs = {list[i] : i \in 1..n}
  BY <1>4
<1>9. keys = [i \in DOMAIN list |-> list[i][1]]
  BY <1>4
<1>10. list = [i \in 1..n |-> list[i]]
  BY <1>4
<1>11. w.py = "FrozenDict" /\ w.pairs = pairs /\ w = Dict(w.pairs)
  BY <1>5 DEF Dict
<1> HIDE DEF pairs, list, keys
<1>12. \A i \in 1..n : list[i] \in V \X V /\ list[i][1] = keys[i]
  <2> HIDE DEF n, V
  <2> QED
    BY <1>6
<1>13. IsFiniteSet(pairs) /\ pairs \subseteq V \X V
  <2>1. list \in [1..n -> V \X V]
    BY <1>10, <1>12
  <2>2. list \in Seq(V \X V)
    BY <1>4, <2>1
  <2>3. pairs = ToSet(list)
    BY <1>7, <1>8 DEF ToSet
  <2>4. IsFiniteSet(pairs)
    BY <2>2, <2>3, ToSetFinite
  <2> QED
    BY <1>8, <1>12, <2>4
<1>14. \A p, q \in pairs : Same(p[1], q[1]) => p = q
  BY <1>5, <1>7, <1>8, <1>12 DEF Distinct
<1> HIDE DEF V
<1>15. IsValue(w, V)
  BY <1>11, <1>13, <1>14 DEF IsValue
<1>16. Fits(w, a, U)
  <2>1. ASSUME NEW p \in w.pairs
        PROVE  <<p[1], t.key>> \in U /\ <<p[2], t.of>> \in U
    <3>1. PICK i \in 1..n : p = list[i]
      BY <1>8, <1>11
    <3>2. <<list[i][1], t.key>> \in U /\ <<list[i][2], t.of>> \in U
      BY <1>6
    <3> QED
      BY <3>1, <3>2
  <2> QED
    BY <1>11, <2>1 DEF Fits
<1>17. ASSUME NEW i \in 1..n
       PROVE  j.items[i] = Array(<<j.items[i].items[1], j.items[i].items[2]>>)
  <2> DEFINE pair == j.items[i]
  <2>1. IsJson(pair) /\ pair.js = "array" /\ Len(pair.items) = 2
    BY <1>2, <1>4 DEF IsPair
  <2> HIDE DEF pair
  <2>2. pair = Array(pair.items) /\ DOMAIN pair.items = 1..2
    BY <2>1, PartsOfJson
  <2>3. IsFragment(pair, Made(pair))
    BY <2>1, MadeIsClosed DEF IsClosed
  <2>4. pair.items \in Seq(Made(pair))
    BY <2>1, <2>3 DEF IsFragment
  <2>5. pair.items = <<pair.items[1], pair.items[2]>>
    BY <2>1, <2>4
  <2> QED
    BY <2>2, <2>5 DEF pair
<1>18. list \in [DOMAIN j.items -> w.pairs]
  BY <1>4, <1>8, <1>10, <1>11
<1>19. ToSet(list) = w.pairs
  BY <1>7, <1>8, <1>11 DEF ToSet
<1>20. \A i \in DOMAIN j.items :
        /\ j.items[i] = Array(<<j.items[i].items[1], j.items[i].items[2]>>)
        /\ \A k \in 1..2 : <<j.items[i].items[k], list[i][k]>> \in M
  <2>1. ASSUME NEW i \in DOMAIN j.items, NEW k \in 1..2
        PROVE  <<j.items[i].items[k], list[i][k]>> \in M
    <3>1. i \in 1..n /\ (k = 1 \/ k = 2)
      BY <1>4
    <3>2. <<j.items[i].items[1], list[i][1]>> \in M /\ <<j.items[i].items[2], list[i][2]>> \in M
      BY <1>6, <3>1
    <3> QED
      BY <3>1, <3>2
  <2> QED
    BY <1>4, <1>17, <2>1
<1>21. Distinct([i \in DOMAIN list |-> list[i][1]])
  BY <1>5, <1>9
<1>22. Says(j, w, M)
  BY <1>4, <1>11, <1>18, <1>19, <1>20, <1>21 DEF Says
<1> QED
  BY <1>15, <1>16, <1>22 DEF IsStrict, V, U, M

LEMMA RecordIsStrict ==
    ASSUME NEW j, NEW a, IsCall(<<j, a>>), NEW D, Answered(j, a, D), NEW t, t = Target(a),
           t.ann = "record", NEW w \in Decode(j, a, D)
    PROVE  IsStrict(w, j, a, Understood(D), Meant(D))
<1> DEFINE U == Understood(D)
           M == Meant(D)
           V == {p[1] : p \in U}
           F == DOMAIN Schema[t.cls]
           given == j.keys["fields"].keys
           fields == [f \in F |-> Got(D, FieldOf(j, t, f))]
<1>1. /\ IsJson(j) /\ a \in Annotations /\ IsAnnotation(a, Annotations) /\ Unalias(a) = t
      /\ t.cls \in DOMAIN Schema
  BY AnnotationForms, UnaliasIsTarget DEF IsCall, IsAnnotation
<1>2. WellFormed(j, t) /\ IsDocument(j, t.cls)
  BY <1>1 DEF Decode, WellFormed
<1>3. ~ Raised(Calls(j, a), D)
  BY DEF Answered
<1>4. j = Document(t.cls, given) /\ DOMAIN given = F
  BY <1>1, <1>2, DocumentFields
<1>5. w \in CallConstructor(t.cls, fields)
  BY <1>1, <1>2, <1>3 DEF Decode
<1> HIDE DEF U, M
<1>6. ASSUME NEW f \in F
      PROVE  fields[f] \in V /\ <<fields[f], Schema[t.cls][f]>> \in U /\ <<given[f], fields[f]>> \in M
  <2>1. FieldOf(j, t, f) \in Calls(j, a)
    BY <1>1, <1>2 DEF Calls
  <2>2. FieldOf(j, t, f)[1] = given[f] /\ FieldOf(j, t, f)[2] = Schema[t.cls][f]
    BY DEF FieldOf
  <2>3. fields[f] = Got(D, FieldOf(j, t, f))
    OBVIOUS
  <2> HIDE DEF fields, given, F
  <2> QED
    BY <2>1, <2>2, <2>3, AnswersMean DEF U, M
<1>7. fields \in [F -> V] /\ DOMAIN fields = F
  BY <1>6
<1> HIDE DEF fields, given, F, V
<1>8. w = Record(t.cls, fields) /\ Accepts(w)
  BY <1>5 DEF CallConstructor
<1>9. w.py = "record" /\ w.cls = t.cls /\ w.fields = fields
  BY <1>8 DEF Record
<1>10. IsValue(w, V)
  BY <1>1, <1>7, <1>8, <1>9 DEF IsValue, F
<1>11. Fits(w, a, U)
  BY <1>6, <1>7, <1>9 DEF Fits
<1>12. Says(j, w, M)
  BY <1>4, <1>6, <1>7, <1>9 DEF Says, given
<1> QED
  BY <1>10, <1>11, <1>12 DEF IsStrict, V, U, M

LEMMA UnionIsStrict ==
    ASSUME NEW j, NEW a, IsCall(<<j, a>>), NEW D, StrictTable(D), Answered(j, a, D), NEW t, t = Target(a),
           t.ann = "union", NEW w \in Decode(j, a, D)
    PROVE  IsStrict(w, j, a, Understood(D), Meant(D))
<1>1. a \in Annotations /\ IsAnnotation(a, Annotations) /\ Unalias(a) = t
  BY AnnotationForms, UnaliasIsTarget DEF IsCall
<1>2. w \in UNION {D[c] : c \in Calls(j, a)} /\ WellFormed(j, t)
  BY <1>1 DEF Decode
<1>3. PICK c \in Calls(j, a) : w \in D[c]
  BY <1>2
<1>4. PICK m \in Alternative(j, t) : c = <<j, m>>
  BY <1>1, <1>2, <1>3 DEF Calls
<1>5. c \in DOMAIN D
  BY <1>3 DEF Answered
<1>6. IsStrict(w, j, m, Understood(D), Meant(D))
  BY <1>3, <1>4, <1>5 DEF StrictTable
<1>7. PICK k \in t.any : m = Target(k)
  BY <1>1, <1>4, AlternativeIsMember
<1>8. <<w, m>> \in Understood(D)
  BY <1>3, <1>4, <1>5 DEF Understood
<1>9. Fits(w, a, Understood(D))
  BY <1>7, <1>8 DEF Fits
<1> QED
  BY <1>6, <1>9 DEF IsStrict

(* What the body of _decode returns is strict if what it got is. *)
LEMMA DecodedIsStrict ==
    ASSUME NEW j, NEW a, IsCall(<<j, a>>), NEW D, StrictTable(D), Answered(j, a, D), NEW w \in Decode(j, a, D)
    PROVE  IsStrict(w, j, a, Understood(D), Meant(D))
<1> DEFINE t == Target(a)
<1>1. IsJson(j) /\ a \in Annotations /\ Unalias(a) = t
  BY UnaliasIsTarget DEF IsCall
<1>2. t.ann \in Leaves \cup {"union", "tuple", "fixed", "frozenset", "FrozenDict", "record", "enum"}
  BY <1>1, AnnotationForms
<1>3. CASE t.ann \in Leaves \cup {"enum"}
  <2>1. w \in DecodeLeaf(j, t)
    BY <1>1, <1>3 DEF Decode, Leaves
  <2> QED
    BY <1>1, <1>3, <2>1, LeafIsStrict
<1> HIDE DEF t
<1>4. t = Target(a)
  BY DEF t
<1> QED
  BY <1>2, <1>3, <1>4, SequenceIsStrict, FrozenDictIsStrict, RecordIsStrict, UnionIsStrict

LEMMA ValuesGrow ==
    ASSUME NEW S, NEW T, S \subseteq T, NEW v, IsValue(v, S)
    PROVE  IsValue(v, T)
<1>1. CASE v.py = "tuple"
  BY <1>1, SeqMonotonic DEF IsValue
<1>2. CASE v.py \in {"frozenset", "record"}
  BY <1>2 DEF IsValue
<1>3. CASE v.py = "FrozenDict"
  <2>1. S \X S \subseteq T \X T
    OBVIOUS
  <2> QED
    BY <1>3, <2>1 DEF IsValue
<1>4. CASE v.py \notin {"tuple", "frozenset", "FrozenDict", "record"}
  BY <1>4 DEF IsValue
<1> QED
  BY <1>1, <1>2, <1>3, <1>4

LEMMA FitsGrow ==
    ASSUME NEW T, NEW U, T \subseteq U, NEW v, NEW a, Fits(v, a, T)
    PROVE  Fits(v, a, U)
<1> DEFINE t == Target(a)
<1>1. CASE t.ann = "union"
  BY <1>1 DEF Fits
<1>2. CASE t.ann \in {"tuple", "fixed", "frozenset"}
  BY <1>2 DEF Fits
<1>3. CASE t.ann \in {"FrozenDict", "record"}
  BY <1>3 DEF Fits
<1>4. CASE t.ann \notin {"union", "tuple", "fixed", "frozenset", "FrozenDict", "record"}
  BY <1>4 DEF Fits
<1> QED
  BY <1>1, <1>2, <1>3, <1>4

LEMMA SaysGrow ==
    ASSUME NEW M, NEW N, M \subseteq N, NEW j, NEW w, Says(j, w, M)
    PROVE  Says(j, w, N)
<1>1. CASE w.py = "tuple"
  BY <1>1 DEF Says
<1>2. CASE w.py = "frozenset"
  BY <1>2 DEF Says
<1>3. CASE w.py = "FrozenDict"
  <2>1. PICK list \in [DOMAIN j.items -> w.pairs] :
            /\ ToSet(list) = w.pairs /\ Distinct([i \in DOMAIN list |-> list[i][1]])
            /\ \A i \in DOMAIN j.items :
                /\ j.items[i] = Array(<<j.items[i].items[1], j.items[i].items[2]>>)
                /\ \A n \in 1..2 : <<j.items[i].items[n], list[i][n]>> \in M
    BY <1>3 DEF Says
  <2>2. \A i \in DOMAIN j.items :
                /\ j.items[i] = Array(<<j.items[i].items[1], j.items[i].items[2]>>)
                /\ \A n \in 1..2 : <<j.items[i].items[n], list[i][n]>> \in N
    BY <2>1
  <2>3. j = Array(j.items)
    BY <1>3 DEF Says
  <2> QED
    BY <1>3, <2>1, <2>2, <2>3 DEF Says
<1>4. CASE w.py = "record"
  BY <1>4 DEF Says
<1>5. CASE w.py \notin {"tuple", "frozenset", "FrozenDict", "record"}
  BY <1>5 DEF Says
<1> QED
  BY <1>1, <1>2, <1>3, <1>4, <1>5

LEMMA StrictTableGrows ==
    ASSUME NEW D, StrictTable(D), NEW c, IsCall(c),
           Raised(Calls(c[1], c[2]), D) \/ Calls(c[1], c[2]) \subseteq DOMAIN D
    PROVE  StrictTable(With(D, c, Decode(c[1], c[2], D)))
<1> DEFINE F == With(D, c, Decode(c[1], c[2], D))
<1>1. /\ DOMAIN F = DOMAIN D \cup {c} /\ \A x \in DOMAIN D : F[x] = D[x]
      /\ c \notin DOMAIN D => F[c] = Decode(c[1], c[2], D)
  BY DEF With
<1> HIDE DEF F
<1>2. Understood(D) \subseteq Understood(F)
  BY <1>1 DEF Understood
<1>3. Meant(D) \subseteq Meant(F)
  BY <1>1 DEF Meant
<1>4. ASSUME NEW w, NEW j, NEW a, IsStrict(w, j, a, Understood(D), Meant(D))
      PROVE  IsStrict(w, j, a, Understood(F), Meant(F))
  <2>1. {p[1] : p \in Understood(D)} \subseteq {p[1] : p \in Understood(F)}
    BY <1>2
  <2>2. IsValue(w, {p[1] : p \in Understood(F)})
    BY <1>4, <2>1, ValuesGrow DEF IsStrict
  <2>3. Fits(w, a, Understood(F))
    BY <1>2, <1>4, FitsGrow DEF IsStrict
  <2>4. Says(j, w, Meant(F))
    BY <1>3, <1>4, SaysGrow DEF IsStrict
  <2> QED
    BY <2>2, <2>3, <2>4 DEF IsStrict
<1>5. ASSUME NEW x \in DOMAIN D, NEW w \in F[x]
      PROVE  IsStrict(w, x[1], x[2], Understood(F), Meant(F))
  <2>1. IsStrict(w, x[1], x[2], Understood(D), Meant(D))
    BY <1>1, <1>5 DEF StrictTable
  <2> QED
    BY <1>4, <2>1
<1>6. ASSUME c \notin DOMAIN D, NEW w \in F[c]
      PROVE  IsStrict(w, c[1], c[2], Understood(F), Meant(F))
  <2>1. w \in Decode(c[1], c[2], D)
    BY <1>1, <1>6
  <2>2. ~ Raised(Calls(c[1], c[2]), D)
    BY <2>1 DEF Decode
  <2>3. Answered(c[1], c[2], D)
    BY <2>2 DEF Answered
  <2>4. IsCall(<<c[1], c[2]>>)
    BY DEF IsCall
  <2>5. IsStrict(w, c[1], c[2], Understood(D), Meant(D))
    BY <2>1, <2>3, <2>4, DecodedIsStrict
  <2> QED
    BY <1>4, <2>5
<1>7. StrictTable(F)
  BY <1>1, <1>5, <1>6 DEF StrictTable
<1> QED
  BY <1>7 DEF F

-----------------------------------------------------------------------------
(***************************************************************************)
(* The steps of the codec, whatever the values, annotations and documents. *)
(***************************************************************************)
CallStack(s) == \E S : s \in Seq(S) /\ \A c \in S : IsCall(c)

CodecInv ==
    /\ phase \in {"idle", "arguments", "encode", "decode", "done"}
    /\ phase = "encode" =>
        /\ stack \in Seq(Values) /\ ann \in Annotations
        /\ \A v \in value : IF stack = <<>> THEN v \in DOMAIN encoded ELSE v = stack[1]
    /\ phase = "decode" => CallStack(stack)
    /\ phase \notin {"encode", "decode"} => stack = <<>>
    /\ EncodedTable(encoded)
    /\ StrictTable(decoded)

LEMMA EmptyTables == EncodedTable(NoAnswers) /\ StrictTable(NoAnswers)
BY NoAnswersIsEmpty DEF EncodedTable, StrictTable

LEMMA OneCallStack ==
    ASSUME NEW c, IsCall(c)
    PROVE  CallStack(<<c>>)
<1> DEFINE S == {c}
<1>1. <<c>> \in Seq(S) /\ \A x \in S : IsCall(x)
  OBVIOUS
<1> HIDE DEF S
<1> QED
  BY <1>1 DEF CallStack

LEMMA CallEncodeKeeps == CodecInv /\ CallEncode => CodecInv'
<1> SUFFICES ASSUME CodecInv, CallEncode PROVE CodecInv'
  OBVIOUS
<1> DEFINE parts == Parts(Last(stack))
           p == CHOOSE x \in parts \ DOMAIN encoded : TRUE
<1>1. /\ phase = "encode" /\ stack # <<>> /\ parts \ DOMAIN encoded # {} /\ stack' = Append(stack, p)
      /\ UNCHANGED <<ann, value, doc, result, phase, encoded, decoded>>
  BY DEF CallEncode
<1>2. stack \in Seq(Values)
  BY <1>1 DEF CodecInv
<1>3. Last(stack) \in Values
  BY <1>1, <1>2, PoppedStack
<1>4. p \in Values
  BY <1>1, <1>3, PartsAreValues
<1> HIDE DEF p
<1>5. stack' \in Seq(Values) /\ stack' # <<>> /\ stack'[1] = stack[1]
  BY <1>1, <1>2, <1>4, PushedStack
<1> QED
  BY <1>1, <1>5 DEF CodecInv

LEMMA ReturnEncodeKeeps == CodecInv /\ ReturnEncode => CodecInv'
<1> SUFFICES ASSUME CodecInv, ReturnEncode PROVE CodecInv'
  OBVIOUS
<1> DEFINE v == Last(stack)
<1>1. /\ phase = "encode" /\ stack # <<>> /\ stack' = Front(stack)
      /\ Raised(Parts(v), encoded) \/ Parts(v) \subseteq DOMAIN encoded
      /\ UNCHANGED <<ann, value, doc, result, phase, decoded>>
  BY DEF ReturnEncode
<1>2. PICK order \in Orders(v) : encoded' = With(encoded, v, Encode(v, order, encoded))
  BY DEF ReturnEncode
<1>3. stack \in Seq(Values)
  BY <1>1 DEF CodecInv
<1>4. /\ v \in Values /\ stack' \in Seq(Values)
      /\ stack' # <<>> => stack'[1] = stack[1]
      /\ stack' = <<>> => v = stack[1]
  BY <1>1, <1>3, PoppedStack
<1> HIDE DEF v
<1>5. EncodedTable(encoded')
  BY <1>1, <1>2, <1>4, EncodedTableGrows DEF CodecInv
<1>6. v \in DOMAIN encoded'
  BY <1>2 DEF With
<1> QED
  BY <1>1, <1>4, <1>5, <1>6 DEF CodecInv

LEMMA HandKeeps ==
    ASSUME CodecInv, phase = "encode", stack = <<>>, NEW v \in value, NEW document, Hand(document),
           document \in {{}, encoded[v]}
    PROVE  CodecInv'
<1>1. v \in DOMAIN encoded /\ ann \in Annotations /\ UNCHANGED <<encoded, decoded>>
  BY DEF Hand, CodecInv
<1>2. CASE document = {}
  BY <1>1, <1>2 DEF CodecInv, Hand
<1>3. CASE document # {}
  <2> DEFINE j == CHOOSE x \in document : TRUE
  <2>1. PICK x : encoded[v] = {x} /\ IsJson(x)
    BY <1>1, <1>3 DEF CodecInv, EncodedTable
  <2>2. IsJson(j) /\ stack' = <<<<j, ann>>>> /\ phase' = "decode"
    BY <1>3, <2>1 DEF Hand
  <2> HIDE DEF j
  <2>3. CallStack(stack')
    BY <1>1, <2>2, OneCallStack DEF IsCall
  <2> QED
    BY <1>1, <2>2, <2>3 DEF CodecInv, Hand
<1> QED
  BY <1>2, <1>3

LEMMA ToJsonKeeps == CodecInv /\ (ToJson \/ CanonicalJsonBytes) => CodecInv'
BY HandKeeps DEF ToJson, CanonicalJsonBytes

LEMMA CallDecodeKeeps == CodecInv /\ CallDecode => CodecInv'
<1> SUFFICES ASSUME CodecInv, CallDecode PROVE CodecInv'
  OBVIOUS
<1> DEFINE top == Last(stack)
           calls == Calls(top[1], top[2])
           c == CHOOSE x \in calls \ DOMAIN decoded : TRUE
<1>1. /\ phase = "decode" /\ stack # <<>> /\ calls \ DOMAIN decoded # {} /\ stack' = Append(stack, c)
      /\ UNCHANGED <<ann, value, doc, result, phase, encoded, decoded>>
  BY DEF CallDecode
<1>2. PICK S : stack \in Seq(S) /\ \A x \in S : IsCall(x)
  BY <1>1 DEF CodecInv, CallStack
<1>3. IsCall(top) /\ IsCall(<<top[1], top[2]>>)
  BY <1>1, <1>2, PoppedStack DEF IsCall
<1>4. c \in calls
  BY <1>1
<1> HIDE DEF c, top
<1>5. IsCall(c)
  BY <1>3, <1>4, CallsAreCalls
<1>6. stack \in Seq(S \cup {c})
  BY <1>2, SeqMonotonic
<1>7. stack' \in Seq(S \cup {c})
  BY <1>1, <1>6
<1>8. CallStack(stack')
  BY <1>2, <1>5, <1>7 DEF CallStack
<1> QED
  BY <1>1, <1>8 DEF CodecInv

LEMMA ReturnDecodeKeeps == CodecInv /\ ReturnDecode => CodecInv'
<1> SUFFICES ASSUME CodecInv, ReturnDecode PROVE CodecInv'
  OBVIOUS
<1> DEFINE c == Last(stack)
<1>1. /\ phase = "decode" /\ stack # <<>> /\ stack' = Front(stack)
      /\ Raised(Calls(c[1], c[2]), decoded) \/ Calls(c[1], c[2]) \subseteq DOMAIN decoded
      /\ decoded' = With(decoded, c, Decode(c[1], c[2], decoded))
      /\ UNCHANGED <<ann, value, doc, result, phase, encoded>>
  BY DEF ReturnDecode
<1>2. PICK S : stack \in Seq(S) /\ \A x \in S : IsCall(x)
  BY <1>1 DEF CodecInv, CallStack
<1>3. IsCall(c) /\ stack' \in Seq(S)
  BY <1>1, <1>2, PoppedStack
<1> HIDE DEF c
<1>4. StrictTable(decoded')
  BY <1>1, <1>3, StrictTableGrows DEF CodecInv
<1>5. CallStack(stack')
  BY <1>2, <1>3 DEF CallStack
<1> QED
  BY <1>1, <1>4, <1>5 DEF CodecInv

LEMMA CodecStepKeeps == CodecInv /\ CodecStep => CodecInv'
<1>1. CodecInv /\ FromJson => CodecInv'
  BY DEF CodecInv, FromJson
<1> QED
  BY <1>1, CallEncodeKeeps, ReturnEncodeKeeps, ToJsonKeeps, CallDecodeKeeps, ReturnDecodeKeeps DEF CodecStep

LEMMA CallDecoderKeeps ==
    ASSUME CodecInv, NEW j, NEW a, IsCall(<<j, a>>), CallDecoder(j, a)
    PROVE  CodecInv'
<1>1. CallStack(stack')
  BY OneCallStack DEF CallDecoder
<1> QED
  BY <1>1 DEF CodecInv, CallDecoder

LEMMA FragmentsAreJson == \A j \in Fragments : IsJson(j)
BY FragmentsAssumption DEF IsJson, IsClosed

LEMMA ForgetKeeps == CodecInv /\ Forget => CodecInv'
BY EmptyTables DEF CodecInv, Forget

LEMMA CodecInit == Init => CodecInv
BY EmptyTables DEF Init, CodecInv

LEMMA CodecNext == CodecInv /\ [Next]_vars => CodecInv'
<1>1. CodecInv /\ CallToJson => CodecInv'
  <2> SUFFICES ASSUME CodecInv, CallToJson PROVE CodecInv'
    OBVIOUS
  <2>1. PICK p \in Typed : value' = {p[1]} /\ ann' = p[2] /\ stack' = <<p[1]>>
    BY DEF CallToJson
  <2>2. p[1] \in Values /\ p[2] \in Annotations
    BY TypedAssumption
  <2>3. stack' \in Seq(Values) /\ stack' # <<>> /\ stack'[1] = p[1]
    BY <2>1, <2>2
  <2> QED
    BY <2>1, <2>2, <2>3 DEF CodecInv, CallToJson
<1>2. CodecInv /\ CallFromJson => CodecInv'
  <2> SUFFICES ASSUME CodecInv, NEW j \in Fragments, NEW a \in Annotations, CallDecoder(j, a) PROVE CodecInv'
    BY DEF CallFromJson
  <2>1. IsCall(<<j, a>>)
    BY FragmentsAreJson DEF IsCall
  <2> QED
    BY <2>1, CallDecoderKeeps
<1>3. CodecInv /\ UNCHANGED vars => CodecInv'
  BY DEF CodecInv, vars
<1> QED
  BY <1>1, <1>2, <1>3, CodecStepKeeps, ForgetKeeps DEF Next

(* What the decoder accepts it understands completely: every answer of     *)
(* _decode, as far down as the calls go, is a value as the constructors    *)
(* make them, of its annotation, and the fragment says just that.          *)
THEOREM CodecIsStrict == Spec => []Strict
<1>1. CodecInv => Strict
  BY StrictByTable DEF CodecInv
<1> QED
  BY <1>1, CodecInit, CodecNext, PTL DEF Spec

-----------------------------------------------------------------------------
(***************************************************************************)
(* Decoding is the inverse of encoding.                                    *)
(***************************************************************************)
LEMMA TypedFits ==
    ASSUME NEW v, NEW a, <<v, a>> \in Typed
    PROVE  v \in Values /\ a \in Annotations /\ Fits(v, a, Typed)
<1>1. <<v, a>> \in Values \X Annotations
  BY TypedAssumption
<1>2. Fits(<<v, a>>[1], <<v, a>>[2], Typed)
  BY TypedAssumption
<1> QED
  BY <1>1, <1>2

(* A document tells whether it is None, and the class of a record. *)
LEMMA EncodedTag ==
    ASSUME NEW v \in Values, NEW E, Returns(v, E), NEW order \in Orders(v), NEW j, Encode(v, order, E) = {j}
    PROVE  /\ j.js = "None" => v.py = "None"
           /\ v.py = "None" => j.js = "None"
           /\ v.py = "record" => \A c : Tagged(j, c) <=> c = v.cls
<1>1. v.py \in Forms
  BY ValueForms
<1>2. CASE v.py = "record"
  <2>1. PICK fields : j = Document(v.cls, fields)
    <3> DEFINE fields == [f \in DOMAIN v.fields |-> Got(E, v.fields[f])]
    <3>1. Encode(v, order, E) = {Document(v.cls, fields)}
      BY <1>2, EncodedForms
    <3> HIDE DEF fields
    <3> QED
      BY <3>1
  <2>2. /\ j.js = "object" /\ DOMAIN j.keys = {"$type", "schema_version", "fields"}
        /\ j.keys["$type"] = Atom("str", v.cls)
    BY <2>1 DEF Document, Object
  <2>3. \A c : Atom("str", v.cls) = Atom("str", c) <=> c = v.cls
    BY DEF Atom
  <2> QED
    BY <1>2, <2>2, <2>3 DEF Tagged
<1>3. CASE v.py \in {"tuple", "frozenset", "FrozenDict"}
  <2>1. \E items : Encode(v, order, E) = {Array(items)}
    <3>1. CASE v.py = "tuple"
      <4>1. Encode(v, order, E) = {Array([i \in DOMAIN v.items |-> Got(E, v.items[i])])}
        BY <3>1, EncodedForms
      <4> QED
        BY <4>1, Zenon
    <3>2. CASE v.py = "frozenset"
      <4>1. PICK list : /\ Lists(list, v.elements)
                        /\ Encode(v, order, E) = {Array([i \in 1..Len(list) |-> Got(E, list[i])])}
        BY <3>2, EncodedForms
      <4> QED
        BY <4>1, Zenon
    <3>3. CASE v.py = "FrozenDict"
      <4>1. PICK list : /\ Lists(list, v.pairs)
                        /\ Encode(v, order, E) = {Array([i \in 1..Len(list) |-> PairOf(list[i], E)])}
        BY <3>3, EncodedForms
      <4> QED
        BY <4>1, Zenon
    <3> QED
      BY <1>3, <3>1, <3>2, <3>3
  <2> QED
    BY <1>3, <2>1 DEF Array
<1>4. CASE v.py = "float"
  BY <1>4, EncodedForms DEF EncodeFloat, Marker, Object, Atom
<1>5. CASE v.py \in {"None", "bool", "int", "str", "bytes", "enum"}
  BY <1>5, EncodedForms DEF Marker, Object, Atom
<1> QED
  BY <1>1, <1>2, <1>3, <1>4, <1>5 DEF Forms, Leaves

(* Only None is of the annotation None, only records are of unions of them. *)
LEMMA OfNoUnion ==
    ASSUME NEW v, NEW a, <<v, a>> \in Typed, Target(a).ann # "union"
    PROVE  /\ v.py = "None" => Target(a) = NoneType
           /\ v.py = "record" => Target(a) = Rec(v.cls)
           /\ v.py = "FrozenDict" => Target(a).ann = "FrozenDict"
           /\ v.py = "tuple" => Target(a).ann \in {"tuple", "fixed"}
           /\ v.py = "frozenset" => Target(a).ann = "frozenset"
           /\ Target(a).ann = "record" => v.py = "record"
           /\ Target(a).ann \in Leaves => v.py = Target(a).ann
<1>1. Fits(v, a, Typed) /\ IsAnnotation(a, Annotations)
      /\ Target(a).ann \in Leaves \cup {"union", "tuple", "fixed", "frozenset", "FrozenDict", "record", "enum"}
  BY TypedFits, AnnotationForms
<1> DEFINE t == Target(a)
<1>2. t.ann \in {"tuple", "fixed"} => v.py = "tuple"
  BY <1>1 DEF Fits
<1>3. t.ann \in {"frozenset", "FrozenDict", "enum"} => v.py = t.ann
  BY <1>1 DEF Fits
<1>4. t.ann = "record" => v.py = "record" /\ t = Rec(v.cls)
  BY <1>1 DEF Fits, IsAnnotation
<1>5. t.ann \in Leaves => v.py = t.ann
  BY <1>1 DEF Fits, Leaves
<1>6. t.ann = "None" => t = NoneType
  BY <1>1 DEF IsAnnotation, NoneType
<1> HIDE DEF t
<1>7. t.ann \in Leaves \cup {"tuple", "fixed", "frozenset", "FrozenDict", "record", "enum"}
  BY <1>1 DEF t
<1> QED
  BY <1>2, <1>3, <1>4, <1>5, <1>6, <1>7 DEF Leaves, t

(* A union within a union that is told apart is one of records. *)
LEMMA UnionOfRecords ==
    ASSUME NEW a, Decidable(a), Target(a).ann = "union", NEW k \in Target(a).any, Target(k).ann = "union"
    PROVE  \A y \in Target(k).any : Target(y).ann = "record"
<1>1. Target(k) # NoneType
  BY DEF NoneType, A
<1> QED
  BY <1>1 DEF Decidable

(* The union's document is decoded for the member its value is of. *)
LEMMA AlternativeIsIt ==
    ASSUME NEW a \in Annotations, Decidable(a), Target(a).ann = "union",
           NEW k \in Target(a).any, NEW v, <<v, Target(k)>> \in Typed,
           NEW E, Returns(v, E), NEW order \in Orders(v), NEW j, Encode(v, order, E) = {j}
    PROVE  Alternative(j, Target(a)) = {Target(k)}
<1> DEFINE m == Target(k)
           any == Target(a).any
           others == {x \in any : Unalias(x) # NoneType}
           rest == {Unalias(x) : x \in others}
           none == others # any /\ j.js = "None"
           tagged == {x \in rest : x.ann = "record" /\ Tagged(j, x.cls)}
<1>1. rest = {Target(x) : x \in others} /\ \A x \in any : x \in others <=> Target(x) # NoneType
  BY UnaliasIsTarget
<1>2. \/ \A x \in others : Target(x).ann = "record"
      \/ others = {k} /\ (m.ann = "union" => \A y \in m.any : Target(y).ann = "record")
      \/ m = NoneType
  BY <1>1 DEF Decidable
<1>3. v \in Values /\ m \in Annotations /\ Target(m) = m /\ Fits(v, m, Typed)
  BY TypedFits DEF Target
<1>4. /\ j.js = "None" => v.py = "None"
      /\ v.py = "None" => j.js = "None"
      /\ v.py = "record" => \A c : Tagged(j, c) <=> c = v.cls
  BY <1>3, EncodedTag
<1>5. Alternative(j, Target(a)) = IF none THEN {NoneType} ELSE IF Cardinality(others) = 1 THEN rest ELSE tagged
  BY DEF Alternative
<1>6. others \subseteq any
  OBVIOUS
<1>7. m.ann # "union" /\ v.py = "None" => m = NoneType
  BY <1>3, OfNoUnion
<1> HIDE DEF m, any, others, rest, none, tagged
<1>8. m.ann = "union" => v.py = "record"
  <2> SUFFICES ASSUME m.ann = "union" PROVE v.py = "record"
    OBVIOUS
  <2>1. m # NoneType /\ k \in others
    BY <1>1 DEF NoneType, A, m, any
  <2>2. \A y \in m.any : Target(y).ann = "record"
    BY <1>2, <2>1 DEF m
  <2>3. PICK y \in m.any : <<v, Target(y)>> \in Typed
    BY <1>3 DEF Fits
  <2>4. Target(Target(y)) = Target(y) /\ Target(y).ann = "record"
    BY <2>2 DEF Target
  <2> QED
    BY <2>3, <2>4, OfNoUnion
<1>9. CASE m = NoneType
  <2>1. v.py = "None"
    BY <1>3, <1>9 DEF Fits, NoneType, A
  <2>2. k \notin others
    BY <1>1, <1>9 DEF m, any
  <2> QED
    BY <1>4, <1>5, <1>9, <2>1, <2>2 DEF none, m, any
<1>10. CASE m # NoneType
  <2>1. ~ none /\ k \in others
    BY <1>1, <1>4, <1>7, <1>8, <1>10 DEF none, m, any
  <2>2. CASE others = {k}
    <3>1. Cardinality({k}) = 1
      BY FS_Singleton
    <3>2. rest = {m}
      BY <1>1, <2>2 DEF m
    <3> QED
      BY <1>5, <2>1, <2>2, <3>1, <3>2 DEF m
  <2>3. CASE others # {k}
    <3>1. \A x \in others : Target(x).ann = "record"
      BY <1>2, <1>10, <2>3
    <3>2. ~ (Cardinality(others) = 1)
      <4>1. IsFiniteSet(any)
        BY AnnotationForms DEF IsAnnotation, any
      <4>2. IsFiniteSet(others)
        BY <1>6, <4>1, FS_Subset
      <4> QED
        BY <2>1, <2>3, <4>2, FS_Singleton
    <3>3. ASSUME NEW x \in others PROVE Target(x) = Rec(Target(x).cls)
      <4>1. Target(x) \in Annotations
        BY <1>6, AnnotationForms DEF IsAnnotation, any
      <4>2. Target(Target(x)) = Target(x)
        BY DEF Target
      <4> QED
        BY <3>1, <4>1, <4>2, AnnotationForms DEF IsAnnotation
    <3>4. v.py = "record" /\ m = Rec(v.cls)
      <4>1. m.ann = "record"
        BY <2>1, <3>1 DEF m
      <4>2. <<v, m>> \in Typed
        BY DEF m
      <4> QED
        BY <1>3, <4>1, <4>2, OfNoUnion
    <3>5. \A x \in rest : x.ann = "record" /\ x = Rec(x.cls)
      BY <1>1, <3>1, <3>3
    <3>6. m \in rest /\ m.ann = "record" /\ m.cls = v.cls
      BY <1>1, <2>1, <3>1, <3>4 DEF m, Rec
    <3>7. tagged = {m}
      BY <1>4, <3>4, <3>5, <3>6 DEF tagged
    <3> QED
      BY <1>5, <2>1, <3>2, <3>7 DEF m
  <2> QED
    BY <2>2, <2>3
<1> QED
  BY <1>9, <1>10

(* The call c is one for the part x of what was encoded. *)
CallFor(c, x, E) == <<x, c[2]>> \in Typed /\ Got(E, x) = c[1]

LEMMA ACallFor ==
    ASSUME NEW x, NEW b, <<x, b>> \in Typed, NEW E
    PROVE  CallFor(<<Got(E, x), b>>, x, E)
BY DEF CallFor

(* The answers that are there return each part of v that j was made of. *)
Inverts(D, v, E, j, a) == \A c \in Calls(j, a) \cap DOMAIN D : \A x \in Parts(v) : CallFor(c, x, E) => D[c] = {x}

LEMMA PartsAnswered ==
    ASSUME NEW v, NEW E, NEW D, NEW j, NEW a, Inverts(D, v, E, j, a),
           Raised(Calls(j, a), D) \/ Calls(j, a) \subseteq DOMAIN D,
           \A c \in Calls(j, a) : \E x \in Parts(v) : CallFor(c, x, E)
    PROVE  /\ ~ Raised(Calls(j, a), D)
           /\ \A c \in Calls(j, a) : \A x \in Parts(v) : CallFor(c, x, E) => Got(D, c) = x
<1>1. ~ Raised(Calls(j, a), D)
  BY DEF Inverts, Raised
<1>2. \A c \in Calls(j, a) : \A x \in Parts(v) : CallFor(c, x, E) => D[c] = {x}
  BY <1>1 DEF Inverts
<1>3. ASSUME NEW c \in Calls(j, a), NEW x \in Parts(v), CallFor(c, x, E)
      PROVE  Got(D, c) = x
  BY <1>2, <1>3, GotTheAnswer
<1> QED
  BY <1>1, <1>3

(* The document of a tuple. *)
TupleForm(v, E) == Array([i \in DOMAIN v.items |-> Got(E, v.items[i])])

LEMMA EncodedTuple ==
    ASSUME NEW v \in Values, v.py = "tuple", NEW E, Returns(v, E), NEW order \in Orders(v)
    PROVE  Encode(v, order, E) = {TupleForm(v, E)}
BY EncodedForms DEF TupleForm

LEMMA TupleBack ==
    ASSUME NEW v, NEW a, <<v, a>> \in Typed, NEW t, t = Target(a), t.ann \in {"tuple", "fixed"},
           NEW E, Returns(v, E), NEW order \in Orders(v), NEW j, Encode(v, order, E) = {j},
           NEW D, Inverts(D, v, E, j, a), Raised(Calls(j, a), D) \/ Calls(j, a) \subseteq DOMAIN D
    PROVE  Decode(j, a, D) = {v}
<1> DEFINE n == Len(v.items)
<1>1. /\ v \in Values /\ Fits(v, a, Typed) /\ IsValue(v, Values) /\ Unalias(a) = t
      /\ IsAnnotation(a, Annotations) /\ t.aliases = 0
  BY TypedFits, ValueForms, UnaliasIsTarget, AnnotationForms
<1>2. v.py = "tuple" /\ v = Tuple(v.items) /\ n \in Nat /\ DOMAIN v.items = 1..n
  <2>1. v.py = "tuple"
    BY <1>1 DEF Fits
  <2> QED
    BY <1>1, <2>1, ItemsAreParts DEF IsValue
<1>3. \A i \in 1..n : v.items[i] \in Parts(v)
  BY <1>1, <1>2, ItemsAreParts
<1>4. j = TupleForm(v, E)
  <2>1. Encode(v, order, E) = {TupleForm(v, E)}
    BY <1>1, <1>2, EncodedTuple
  <2> QED
    BY <2>1
<1>5. /\ j.js = "array" /\ DOMAIN j.items = 1..n /\ Len(j.items) = n
      /\ \A i \in 1..n : j.items[i] = Got(E, v.items[i])
  BY <1>2, <1>4 DEF TupleForm, Array
<1>6. v.items = [i \in 1..n |-> v.items[i]]
  <2>1. v.items \in Seq(Values)
    BY <1>1, <1>2 DEF IsValue
  <2> QED
    BY <2>1
<1>7. CASE t.ann = "tuple"
  <2>1. WellFormed(j, t)
    BY <1>1, <1>5, <1>7 DEF WellFormed
  <2>2. Calls(j, a) = {Element(j, t, i) : i \in 1..n}
    BY <1>1, <1>5, <1>7, <2>1 DEF Calls
  <2>3. \A i \in 1..n : <<v.items[i], t.of>> \in Typed /\ Element(j, t, i) = <<Got(E, v.items[i]), t.of>>
    BY <1>1, <1>2, <1>5, <1>7 DEF Fits, Element
  <2>7. \A i \in 1..n : CallFor(Element(j, t, i), v.items[i], E)
    BY <2>3, ACallFor
  <2>4. \A c \in Calls(j, a) : \E x \in Parts(v) : CallFor(c, x, E)
    BY <1>3, <2>2, <2>7
  <2>8. /\ ~ Raised(Calls(j, a), D)
        /\ \A c \in Calls(j, a) : \A x \in Parts(v) : CallFor(c, x, E) => Got(D, c) = x
    BY <2>4, PartsAnswered
  <2>5. /\ ~ Raised(Calls(j, a), D)
        /\ \A i \in 1..n : Got(D, Element(j, t, i)) = v.items[i]
    BY <1>3, <2>2, <2>7, <2>8
  <2>6. [i \in DOMAIN j.items |-> Got(D, Element(j, t, i))] = v.items
    BY <1>5, <1>6, <2>5
  <2> QED
    BY <1>1, <1>2, <1>7, <2>1, <2>5, <2>6 DEF Decode
<1>8. CASE t.ann = "fixed"
  <2>1. Len(t.each) = n /\ DOMAIN t.each = 1..n /\ \A i \in 1..n : <<v.items[i], t.each[i]>> \in Typed
    <3>1. t.each \in Seq(Annotations)
      BY <1>1, <1>8 DEF IsAnnotation
    <3>2. Len(v.items) = Len(t.each) /\ \A i \in DOMAIN v.items : <<v.items[i], t.each[i]>> \in Typed
      BY <1>1, <1>8 DEF Fits
    <3> QED
      BY <1>2, <3>1, <3>2
  <2>2. WellFormed(j, t)
    BY <1>1, <1>5, <1>8, <2>1 DEF WellFormed, SameLength
  <2>3. Calls(j, a) = {Component(j, t, i) : i \in 1..n}
    BY <1>1, <1>8, <2>1, <2>2 DEF Calls
  <2>4. \A i \in 1..n : Component(j, t, i) = <<Got(E, v.items[i]), t.each[i]>>
    BY <1>5 DEF Component
  <2>8. \A i \in 1..n : CallFor(Component(j, t, i), v.items[i], E)
    BY <2>1, <2>4, ACallFor
  <2>5. \A c \in Calls(j, a) : \E x \in Parts(v) : CallFor(c, x, E)
    BY <1>3, <2>3, <2>8
  <2>9. /\ ~ Raised(Calls(j, a), D)
        /\ \A c \in Calls(j, a) : \A x \in Parts(v) : CallFor(c, x, E) => Got(D, c) = x
    BY <2>5, PartsAnswered
  <2>6. /\ ~ Raised(Calls(j, a), D)
        /\ \A i \in 1..n : Got(D, Component(j, t, i)) = v.items[i]
    BY <1>3, <2>3, <2>8, <2>9
  <2>7. [i \in DOMAIN t.each |-> Got(D, Component(j, t, i))] = v.items
    BY <1>6, <2>1, <2>6
  <2> QED
    BY <1>1, <1>2, <1>8, <2>2, <2>6, <2>7 DEF Decode
<1> QED
  BY <1>7, <1>8

LEMMA FrozenSetBack ==
    ASSUME NEW v, NEW a, <<v, a>> \in Typed, NEW t, t = Target(a), t.ann = "frozenset",
           NEW E, Returns(v, E), NEW order \in Orders(v), NEW j, Encode(v, order, E) = {j},
           NEW D, Inverts(D, v, E, j, a), Raised(Calls(j, a), D) \/ Calls(j, a) \subseteq DOMAIN D
    PROVE  Decode(j, a, D) = {v}
<1>1. /\ v \in Values /\ Fits(v, a, Typed) /\ IsValue(v, Values) /\ Unalias(a) = t
      /\ t.aliases = 0
  BY TypedFits, ValueForms, UnaliasIsTarget, AnnotationForms
<1>2. v.py = "frozenset"
  BY <1>1 DEF Fits
<1>3. /\ v = FrozenSet(v.elements) /\ \A x, y \in v.elements : Same(x, y) => x = y
      /\ \A x \in v.elements : x \in Parts(v) /\ <<x, t.of>> \in Typed
  BY <1>1, <1>2 DEF IsValue, Parts, Fits
<1>4. PICK list : /\ Lists(list, v.elements)
                  /\ Encode(v, order, E) = {Array([i \in 1..Len(list) |-> Got(E, list[i])])}
  BY <1>1, <1>2, EncodedForms
<1> DEFINE n == Len(list)
<1>5. n \in Nat /\ list = [i \in 1..n |-> list[i]] /\ DOMAIN list = 1..n /\ \A i \in 1..n : list[i] \in v.elements
  BY <1>4, ElementOfSeq DEF Lists
<1>6. j = Array([i \in 1..n |-> Got(E, list[i])])
  BY <1>4
<1>7. /\ j.js = "array" /\ DOMAIN j.items = 1..n
      /\ \A i \in 1..n : j.items[i] = Got(E, list[i])
  BY <1>5, <1>6 DEF Array
<1>8. WellFormed(j, t)
  BY <1>1, <1>7 DEF WellFormed
<1>9. Calls(j, a) = {Element(j, t, i) : i \in 1..n}
  BY <1>1, <1>7, <1>8 DEF Calls
<1>10. \A i \in 1..n : Element(j, t, i) = <<Got(E, list[i]), t.of>>
  BY <1>7 DEF Element
<1> HIDE DEF n
<1>15. \A i \in 1..n : list[i] \in Parts(v) /\ CallFor(Element(j, t, i), list[i], E)
  BY <1>3, <1>5, <1>10, ACallFor
<1>11. \A c \in Calls(j, a) : \E x \in Parts(v) : CallFor(c, x, E)
  BY <1>9, <1>15
<1>16. /\ ~ Raised(Calls(j, a), D)
       /\ \A c \in Calls(j, a) : \A x \in Parts(v) : CallFor(c, x, E) => Got(D, c) = x
  BY <1>11, PartsAnswered
<1>12. /\ ~ Raised(Calls(j, a), D)
       /\ \A i \in 1..n : Got(D, Element(j, t, i)) = list[i]
  BY <1>9, <1>15, <1>16
<1>13. [i \in DOMAIN j.items |-> Got(D, Element(j, t, i))] = list
  BY <1>5, <1>7, <1>12
<1>14. Distinct(list) /\ ToSet(list) = v.elements
  BY <1>3, <1>4, <1>5 DEF Lists, Distinct, n
<1> QED
  BY <1>1, <1>3, <1>8, <1>12, <1>13, <1>14 DEF Decode

LEMMA FrozenDictBack ==
    ASSUME NEW v, NEW a, <<v, a>> \in Typed, NEW t, t = Target(a), t.ann = "FrozenDict",
           NEW E, Returns(v, E), NEW order \in Orders(v), NEW j, Encode(v, order, E) = {j},
           NEW D, Inverts(D, v, E, j, a), Raised(Calls(j, a), D) \/ Calls(j, a) \subseteq DOMAIN D
    PROVE  Decode(j, a, D) = {v}
<1>1. /\ v \in Values /\ Fits(v, a, Typed) /\ IsValue(v, Values) /\ Unalias(a) = t
      /\ t.aliases = 0
  BY TypedFits, ValueForms, UnaliasIsTarget, AnnotationForms
<1>2. v.py = "FrozenDict"
  BY <1>1 DEF Fits
<1>3. /\ v = Dict(v.pairs) /\ \A p, q \in v.pairs : Same(p[1], q[1]) => p = q
      /\ \A p \in v.pairs : <<p[1], t.key>> \in Typed /\ <<p[2], t.of>> \in Typed
      /\ \A p \in v.pairs : p = <<p[1], p[2]>> /\ p[1] \in Parts(v) /\ p[2] \in Parts(v)
  BY <1>1, <1>2, ItemsAreParts DEF IsValue, Fits
<1>4. PICK list : /\ Lists(list, v.pairs)
                  /\ Encode(v, order, E) = {Array([i \in 1..Len(list) |-> PairOf(list[i], E)])}
  BY <1>1, <1>2, EncodedForms
<1> DEFINE n == Len(list)
<1>5. n \in Nat /\ list = [i \in 1..n |-> list[i]] /\ DOMAIN list = 1..n /\ \A i \in 1..n : list[i] \in v.pairs
  BY <1>4, ElementOfSeq DEF Lists
<1>6. j = Array([i \in 1..n |-> PairOf(list[i], E)])
  BY <1>4
<1>7. /\ j.js = "array" /\ DOMAIN j.items = 1..n
      /\ \A i \in 1..n : j.items[i] = Array(<<Got(E, list[i][1]), Got(E, list[i][2])>>)
  BY <1>5, <1>6 DEF Array, PairOf
<1> HIDE DEF n
<1>8. \A i \in 1..n : /\ j.items[i].js = "array" /\ Len(j.items[i].items) = 2
                      /\ j.items[i].items[1] = Got(E, list[i][1]) /\ j.items[i].items[2] = Got(E, list[i][2])
  <2> SUFFICES ASSUME NEW i \in 1..n
               PROVE  /\ j.items[i].js = "array" /\ Len(j.items[i].items) = 2
                      /\ j.items[i].items[1] = Got(E, list[i][1]) /\ j.items[i].items[2] = Got(E, list[i][2])
    OBVIOUS
  <2>1. j.items[i] = Array(<<Got(E, list[i][1]), Got(E, list[i][2])>>)
    BY <1>7
  <2> QED
    BY <2>1 DEF Array
<1>9. WellFormed(j, t)
  BY <1>1, <1>7, <1>8 DEF WellFormed, IsPair
<1>10. Calls(j, a) = {KeyOf(j, t, i) : i \in 1..n} \cup {ValueOf(j, t, i) : i \in 1..n}
  BY <1>1, <1>7, <1>9 DEF Calls
<1>11. \A i \in 1..n : /\ KeyOf(j, t, i) = <<Got(E, list[i][1]), t.key>>
                       /\ ValueOf(j, t, i) = <<Got(E, list[i][2]), t.of>>
                       /\ <<list[i][1], t.key>> \in Typed /\ <<list[i][2], t.of>> \in Typed
                       /\ list[i][1] \in Parts(v) /\ list[i][2] \in Parts(v)
  BY <1>3, <1>5, <1>8 DEF KeyOf, ValueOf
<1>18. \A i \in 1..n : CallFor(KeyOf(j, t, i), list[i][1], E) /\ CallFor(ValueOf(j, t, i), list[i][2], E)
  BY <1>11, ACallFor
<1>12. \A c \in Calls(j, a) : \E x \in Parts(v) : CallFor(c, x, E)
  BY <1>10, <1>11, <1>18
<1>19. /\ ~ Raised(Calls(j, a), D)
       /\ \A c \in Calls(j, a) : \A x \in Parts(v) : CallFor(c, x, E) => Got(D, c) = x
  BY <1>12, PartsAnswered
<1>13. /\ ~ Raised(Calls(j, a), D)
       /\ \A i \in 1..n : Got(D, KeyOf(j, t, i)) = list[i][1] /\ Got(D, ValueOf(j, t, i)) = list[i][2]
  <2>1. ASSUME NEW i \in 1..n
        PROVE  Got(D, KeyOf(j, t, i)) = list[i][1] /\ Got(D, ValueOf(j, t, i)) = list[i][2]
    <3>1. KeyOf(j, t, i) \in Calls(j, a) /\ ValueOf(j, t, i) \in Calls(j, a)
      BY <1>10
    <3>2. list[i][1] \in Parts(v) /\ list[i][2] \in Parts(v)
      BY <1>11
    <3>3. CallFor(KeyOf(j, t, i), list[i][1], E) /\ CallFor(ValueOf(j, t, i), list[i][2], E)
      BY <1>18
    <3> QED
      BY <1>19, <3>1, <3>2, <3>3
  <2> QED
    BY <1>19, <2>1
<1> DEFINE keys == [i \in DOMAIN j.items |-> Got(D, KeyOf(j, t, i))]
<1>14. DOMAIN keys = 1..n /\ \A i \in 1..n : keys[i] = list[i][1]
  BY <1>7, <1>13
<1> HIDE DEF keys
<1>15. Distinct(keys)
  BY <1>3, <1>4, <1>5, <1>14 DEF Lists, Distinct, n
<1>16. {<<keys[i], Got(D, ValueOf(j, t, i))>> : i \in DOMAIN j.items} = v.pairs
  <2>1. \A i \in 1..n : <<keys[i], Got(D, ValueOf(j, t, i))>> = list[i]
    <3>1. \A i \in 1..n : list[i] = <<list[i][1], list[i][2]>>
      BY <1>3, <1>5
    <3> QED
      BY <1>13, <1>14, <3>1
  <2>2. {list[i] : i \in 1..n} = v.pairs
    BY <1>4, <1>5 DEF Lists, ToSet
  <2> QED
    BY <1>7, <2>1, <2>2
<1>17. Decode(j, a, D) = {Dict({<<keys[i], Got(D, ValueOf(j, t, i))>> : i \in DOMAIN j.items})}
  BY <1>1, <1>9, <1>13, <1>15 DEF Decode, keys
<1> QED
  BY <1>3, <1>16, <1>17

LEMMA RecordBack ==
    ASSUME NEW v, NEW a, <<v, a>> \in Typed, NEW t, t = Target(a), t.ann = "record",
           NEW E, Returns(v, E), NEW order \in Orders(v), NEW j, Encode(v, order, E) = {j},
           NEW D, Inverts(D, v, E, j, a), Raised(Calls(j, a), D) \/ Calls(j, a) \subseteq DOMAIN D
    PROVE  Decode(j, a, D) = {v}
<1>1. /\ v \in Values /\ Fits(v, a, Typed) /\ IsValue(v, Values) /\ Unalias(a) = t
      /\ IsAnnotation(a, Annotations) /\ t.aliases = 0
  BY TypedFits, ValueForms, UnaliasIsTarget, AnnotationForms
<1>2. v.py = "record" /\ v.cls = t.cls
  BY <1>1 DEF Fits
<1>3. /\ v = Record(v.cls, v.fields) /\ v.fields \in [DOMAIN Schema[v.cls] -> Values] /\ Accepts(v)
      /\ \A f \in DOMAIN v.fields : <<v.fields[f], Schema[t.cls][f]>> \in Typed
  BY <1>1, <1>2 DEF IsValue, Fits
<1> DEFINE names == DOMAIN Schema[t.cls]
           fields == [f \in DOMAIN v.fields |-> Got(E, v.fields[f])]
<1>4. DOMAIN v.fields = names /\ v.fields = [f \in names |-> v.fields[f]]
      /\ \A f \in names : v.fields[f] \in Parts(v)
  BY <1>1, <1>2, <1>3, ItemsAreParts
<1>5. j = Document(t.cls, fields)
  <2>1. Encode(v, order, E) = {Document(v.cls, fields)}
    BY <1>1, <1>2, EncodedForms
  <2> QED
    BY <1>2, <2>1
<1>6. DOMAIN fields = names /\ \A f \in names : fields[f] = Got(E, v.fields[f])
  BY <1>4
<1> HIDE DEF fields
<1>7. IsDocument(j, t.cls) /\ j.keys["fields"].keys = fields
  BY <1>5, <1>6 DEF Document, IsDocument, IsObject, Object
<1> HIDE DEF names
<1>8. WellFormed(j, t)
  BY <1>1, <1>7 DEF WellFormed
<1>9. Calls(j, a) = {FieldOf(j, t, f) : f \in names}
  BY <1>1, <1>8 DEF Calls, names
<1>10. \A f \in names : FieldOf(j, t, f) = <<Got(E, v.fields[f]), Schema[t.cls][f]>>
  BY <1>6, <1>7 DEF FieldOf
<1>11. \A f \in names : CallFor(FieldOf(j, t, f), v.fields[f], E)
  <2> SUFFICES ASSUME NEW f \in names PROVE CallFor(FieldOf(j, t, f), v.fields[f], E)
    OBVIOUS
  <2>1. <<v.fields[f], Schema[t.cls][f]>> \in Typed
    BY <1>3, <1>4
  <2>2. FieldOf(j, t, f) = <<Got(E, v.fields[f]), Schema[t.cls][f]>>
    BY <1>10
  <2> QED
    BY <2>1, <2>2 DEF CallFor
<1>12. \A c \in Calls(j, a) : \E x \in Parts(v) : CallFor(c, x, E)
  BY <1>4, <1>9, <1>11
<1>13. /\ ~ Raised(Calls(j, a), D)
       /\ \A c \in Calls(j, a) : \A x \in Parts(v) : CallFor(c, x, E) => Got(D, c) = x
  BY <1>12, PartsAnswered
<1>14. \A f \in names : Got(D, FieldOf(j, t, f)) = v.fields[f]
  BY <1>4, <1>9, <1>11, <1>13
<1>15. [f \in DOMAIN Schema[t.cls] |-> Got(D, FieldOf(j, t, f))] = v.fields
  BY <1>4, <1>14 DEF names
<1>16. Decode(j, a, D) = CallConstructor(t.cls, v.fields)
  BY <1>1, <1>8, <1>13, <1>15 DEF Decode
<1> QED
  BY <1>2, <1>3, <1>16 DEF CallConstructor

LEMMA LeafBack ==
    ASSUME NEW v, NEW a, <<v, a>> \in Typed, NEW t, t = Target(a), t.ann \in Leaves \cup {"enum"},
           NEW E, Returns(v, E), NEW order \in Orders(v), NEW j, Encode(v, order, E) = {j},
           NEW D
    PROVE  Decode(j, a, D) = {v}
<1>1. /\ v \in Values /\ Fits(v, a, Typed) /\ IsValue(v, Values) /\ Unalias(a) = t
      /\ t.aliases = 0
  BY TypedFits, ValueForms, UnaliasIsTarget, AnnotationForms
<1>2. v.py = t.ann
  BY <1>1 DEF Fits, Leaves
<1>3. WellFormed(j, t)
  BY <1>1 DEF WellFormed, Leaves
<1>4. Calls(j, a) = {}
  BY <1>1, <1>3 DEF Calls, Leaves
<1>5. Decode(j, a, D) = DecodeLeaf(j, t)
  <2>1. ~ Raised(Calls(j, a), D)
    BY <1>4 DEF Raised
  <2> QED
    BY <1>1, <1>3, <2>1 DEF Decode, Leaves
<1>6. CASE t.ann \in {"None", "bool", "int", "str"}
  <2>1. j = Atom(v.py, v.val)
    BY <1>1, <1>2, <1>6, EncodedForms
  <2>2. v = Leaf(v.py, v.val)
    BY <1>1, <1>2, <1>6 DEF IsValue
  <2>3. DecodeLeaf(j, t) = Plain(j, t)
    BY <1>6 DEF DecodeLeaf
  <2> QED
    BY <1>2, <1>5, <2>1, <2>2, <2>3 DEF Plain, Atom
<1>7. CASE t.ann = "bytes"
  <2> DEFINE text == Base64[v.val]
  <2>1. j = Marker("$b", text)
    BY <1>1, <1>2, <1>7, EncodedForms
  <2>2. v = Leaf("bytes", v.val)
    BY <1>1, <1>2, <1>7 DEF IsValue
  <2>3. text \in DOMAIN Unbase64 /\ Unbase64[text] = v.val
    BY <1>1, <1>2, <1>7, Base64Assumption
  <2> HIDE DEF text
  <2>4. j.js = "object" /\ j.keys = [k \in {"$b"} |-> Atom("str", text)]
    BY <2>1 DEF Marker, Object
  <2>5. IsObject(j, {"$b"}) /\ j.keys["$b"] = Atom("str", text)
    BY <2>4 DEF IsObject
  <2>6. j.keys["$b"].js = "str" /\ j.keys["$b"].text = text
    BY <2>5 DEF Atom
  <2> QED
    BY <1>5, <1>7, <2>2, <2>3, <2>5, <2>6 DEF DecodeLeaf
<1>8. CASE t.ann = "enum"
  <2>1. j = Atom("str", v.name)
    BY <1>1, <1>2, <1>8, EncodedForms
  <2>2. v = Member(v.cls, v.name) /\ v.cls = t.cls /\ v.name \in Members[t.cls]
    BY <1>1, <1>2, <1>8 DEF IsValue, Fits
  <2> QED
    BY <1>5, <1>8, <2>1, <2>2 DEF DecodeLeaf, Atom
<1>9. CASE t.ann = "float"
  <2>1. EncodeFloat(v) = {j}
    BY <1>1, <1>2, <1>9, EncodedForms
  <2>2. v = Leaf("float", v.val)
    BY <1>1, <1>2, <1>9 DEF IsValue
  <2>3. CASE v # NaN /\ v.val \in Infinities
    <3>1. j = Marker("$f", v.val)
      BY <2>1, <2>3 DEF EncodeFloat
    <3>2. j.js = "object" /\ j.keys = [k \in {"$f"} |-> Atom("str", v.val)]
      BY <3>1 DEF Marker, Object
    <3>3. IsObject(j, {"$f"}) /\ j.keys["$f"] = Atom("str", v.val)
      BY <3>2 DEF IsObject
    <3>4. {i \in Infinities : j.keys["$f"] = Atom("str", i)} = {v.val}
      BY <2>3, <3>3 DEF Atom
    <3>5. DecodeLeaf(j, t) = {Leaf("float", i) : i \in {i \in Infinities : j.keys["$f"] = Atom("str", i)}}
      BY <1>9, <3>3 DEF DecodeLeaf
    <3> QED
      BY <1>5, <2>2, <3>4, <3>5
  <2>4. CASE ~ (v # NaN /\ v.val \in Infinities)
    <3>1. j = Atom("float", v.val)
      BY <2>1, <2>4 DEF EncodeFloat
    <3>2. ~ IsObject(j, {"$f"}) /\ j.js = "float" /\ j.text = v.val
      BY <3>1 DEF IsObject, Atom
    <3>3. DecodeLeaf(j, t) = Plain(j, t)
      BY <1>9, <3>2 DEF DecodeLeaf
    <3> QED
      BY <1>5, <1>9, <2>2, <3>2, <3>3 DEF Plain
  <2> QED
    BY <2>3, <2>4
<1> QED
  BY <1>6, <1>7, <1>8, <1>9 DEF Leaves

(* Decoding inverts encoding, one call at a time: if the calls made for    *)
(* the parts have returned the parts, and that for the member of a union   *)
(* the value, then the call returns the value.                             *)
LEMMA DecodesBackPlain ==
    ASSUME NEW v, NEW a, <<v, a>> \in Typed, Target(a).ann # "union",
           NEW E, Returns(v, E), NEW order \in Orders(v), NEW j, Encode(v, order, E) = {j},
           NEW D, Inverts(D, v, E, j, a), Raised(Calls(j, a), D) \/ Calls(j, a) \subseteq DOMAIN D
    PROVE  Decode(j, a, D) = {v}
<1> DEFINE t == Target(a)
<1>1. t.ann \in Leaves \cup {"union", "tuple", "fixed", "frozenset", "FrozenDict", "record", "enum"}
  BY TypedFits, AnnotationForms
<1>2. CASE t.ann \in {"tuple", "fixed"}
  BY <1>2, TupleBack
<1>3. CASE t.ann = "frozenset"
  BY <1>3, FrozenSetBack
<1>4. CASE t.ann = "FrozenDict"
  BY <1>4, FrozenDictBack
<1>5. CASE t.ann = "record"
  BY <1>5, RecordBack
<1>6. CASE t.ann \in Leaves \cup {"enum"}
  BY <1>6, LeafBack
<1> QED
  BY <1>1, <1>2, <1>3, <1>4, <1>5, <1>6

LEMMA DecodesBackUnion ==
    ASSUME NEW v, NEW a, <<v, a>> \in Typed, Target(a).ann = "union", Decidable(a),
           NEW E, Returns(v, E), NEW order \in Orders(v), NEW j, Encode(v, order, E) = {j},
           NEW D, \A b : <<v, b>> \in Typed /\ <<j, b>> \in DOMAIN D => D[<<j, b>>] = {v},
           Raised(Calls(j, a), D) \/ Calls(j, a) \subseteq DOMAIN D
    PROVE  Decode(j, a, D) = {v}
<1> DEFINE t == Target(a)
<1>1. /\ a \in Annotations /\ Fits(v, a, Typed) /\ Unalias(a) = t /\ t.aliases = 0
  BY TypedFits, UnaliasIsTarget, AnnotationForms
<1>2. PICK k \in t.any : <<v, Target(k)>> \in Typed
  BY <1>1 DEF Fits
<1>3. Alternative(j, t) = {Target(k)}
  BY <1>1, <1>2, AlternativeIsIt
<1> DEFINE c == <<j, Target(k)>>
<1>4. WellFormed(j, t)
  BY <1>1 DEF WellFormed
<1>5. Calls(j, a) = {c}
  <2>1. Calls(j, a) = {<<j, m>> : m \in Alternative(j, t)}
    BY <1>1, <1>4 DEF Calls
  <2> QED
    BY <1>3, <2>1
<1>6. c \in DOMAIN D => D[c] = {v}
  BY <1>2
<1> HIDE DEF c
<1>7. ~ Raised(Calls(j, a), D) /\ c \in DOMAIN D
  BY <1>5, <1>6 DEF Raised
<1>8. Decode(j, a, D) = UNION {D[x] : x \in {c}}
  BY <1>1, <1>4, <1>5, <1>7 DEF Decode
<1> QED
  BY <1>6, <1>7, <1>8

(* The calls that have returned, and are of what a value was encoded as    *)
(* for an annotation of the value, returned the value.                     *)
TripTable(E, D) ==
    \A c \in DOMAIN D : \A x \in DOMAIN E : <<x, c[2]>> \in Typed /\ E[x] = {c[1]} => D[c] = {x}

LEMMA DecodesBack ==
    ASSUME NEW v, NEW a, <<v, a>> \in Typed, Decidable(a),
           NEW E, EncodedTable(E), v \in DOMAIN E, NEW j, E[v] = {j},
           NEW D, TripTable(E, D), Raised(Calls(j, a), D) \/ Calls(j, a) \subseteq DOMAIN D
    PROVE  Decode(j, a, D) = {v}
<1>1. Ready(v, E)
  BY DEF EncodedTable, Written
<1>2. PICK order \in Orders(v) : Encode(v, order, E) = {j}
  BY DEF EncodedTable, Written
<1>3. Inverts(D, v, E, j, a)
  <2> SUFFICES ASSUME NEW c \in Calls(j, a) \cap DOMAIN D, NEW x \in Parts(v), CallFor(c, x, E)
               PROVE  D[c] = {x}
    BY DEF Inverts
  <2>1. x \in DOMAIN E /\ E[x] # {}
    BY <1>1, ReadyParts
  <2>2. E[x] = {c[1]}
    <3>1. PICK i : E[x] = {i}
      BY <2>1 DEF EncodedTable
    <3>2. Got(E, x) = i
      BY <3>1, GotTheAnswer
    <3>3. Got(E, x) = c[1]
      BY DEF CallFor
    <3> QED
      BY <3>1, <3>2, <3>3
  <2> QED
    BY <2>1, <2>2 DEF TripTable, CallFor
<1>4. \A b : <<v, b>> \in Typed /\ <<j, b>> \in DOMAIN D => D[<<j, b>>] = {v}
  BY DEF TripTable
<1>5. CASE Target(a).ann = "union"
  BY <1>1, <1>2, <1>4, <1>5, DecodesBackUnion DEF Ready
<1>6. CASE Target(a).ann # "union"
  BY <1>1, <1>2, <1>3, <1>6, DecodesBackPlain DEF Ready
<1> QED
  BY <1>5, <1>6

LEMMA TripTableGrows ==
    ASSUME \A a \in Annotations : Decidable(a),
           NEW E, EncodedTable(E), NEW D, TripTable(E, D), NEW c, IsCall(c),
           Raised(Calls(c[1], c[2]), D) \/ Calls(c[1], c[2]) \subseteq DOMAIN D
    PROVE  TripTable(E, With(D, c, Decode(c[1], c[2], D)))
<1> DEFINE F == With(D, c, Decode(c[1], c[2], D))
<1> SUFFICES ASSUME NEW d \in DOMAIN F, NEW x \in DOMAIN E, <<x, d[2]>> \in Typed, E[x] = {d[1]}
             PROVE  F[d] = {x}
  BY DEF TripTable
<1>1. CASE d \in DOMAIN D
  <2>1. F[d] = D[d]
    BY <1>1 DEF With
  <2> QED
    BY <1>1, <2>1 DEF TripTable
<1>2. CASE d \notin DOMAIN D
  <2>1. d = c /\ F[d] = Decode(c[1], c[2], D)
    BY <1>2 DEF With
  <2>2. Decidable(d[2])
    BY TypedFits
  <2> HIDE DEF F
  <2>3. Decode(d[1], d[2], D) = {x}
    BY <2>1, <2>2, DecodesBack
  <2> QED
    BY <2>1, <2>3
<1> QED
  BY <1>1, <1>2

(* The value is on its way: it has been encoded, and the call that decodes *)
(* the document waits below all others or has returned.                    *)
OnTheWay(v) ==
    /\ value = {v} /\ <<v, ann>> \in Typed /\ v \in DOMAIN encoded
    /\ \E j : /\ doc = {j} /\ encoded[v] = {j}
              /\ IF stack = <<>> THEN <<j, ann>> \in DOMAIN decoded ELSE stack[1] = <<j, ann>>

TripInv ==
    /\ TripTable(encoded, decoded)
    /\ phase \in {"idle", "arguments", "encode"} => decoded = NoAnswers /\ result = {}
    /\ phase = "idle" => value = {}
    /\ phase = "encode" => \E v : value = {v} /\ <<v, ann>> \in Typed
    /\ phase = "decode" => \A v \in value : OnTheWay(v)
    /\ phase = "done" => \A v \in value : \/ result = {v}
                                          \/ result = {} /\ doc = {} /\ Met(encoded)

LEMMA NoTrip == \A E : TripTable(E, NoAnswers)
BY NoAnswersIsEmpty DEF TripTable

LEMMA TripInit == Init => TripInv
BY NoTrip DEF Init, TripInv

LEMMA CallEncodeTrip == TripInv /\ CallEncode => TripInv'
<1> SUFFICES ASSUME TripInv, CallEncode PROVE TripInv'
  OBVIOUS
<1>1. phase = "encode" /\ UNCHANGED <<ann, value, doc, result, phase, encoded, decoded>>
  BY DEF CallEncode
<1> QED
  BY <1>1 DEF TripInv

LEMMA ReturnEncodeTrip == TripInv /\ ReturnEncode => TripInv'
<1> SUFFICES ASSUME TripInv, ReturnEncode PROVE TripInv'
  OBVIOUS
<1>1. phase = "encode" /\ UNCHANGED <<ann, value, doc, result, phase, decoded>>
  BY DEF ReturnEncode
<1>2. decoded' = NoAnswers
  BY <1>1 DEF TripInv
<1>3. TripTable(encoded', decoded')
  BY <1>2, NoTrip
<1> QED
  BY <1>1, <1>3 DEF TripInv

LEMMA HandTrip ==
    ASSUME CodecInv, TripInv, phase = "encode", stack = <<>>, NEW v \in value, NEW document, Hand(document),
           document = encoded[v] \/ (document = {} /\ v \in Unwritable)
    PROVE  TripInv'
<1>1. v \in DOMAIN encoded /\ UNCHANGED <<ann, value, result, encoded, decoded>>
  BY DEF Hand, CodecInv
<1>2. value = {v} /\ <<v, ann>> \in Typed /\ result = {} /\ TripTable(encoded, decoded)
  BY DEF TripInv
<1>3. CASE document = {}
  <2>1. encoded[v] = {} \/ v \in Unwritable => Met(encoded)
    BY <1>1 DEF CodecInv, EncodedTable, MetUnwritable, Met
  <2>2. doc' = {} /\ phase' = "done"
    BY <1>3 DEF Hand
  <2> QED
    BY <1>1, <1>2, <1>3, <2>1, <2>2 DEF TripInv
<1>4. CASE document # {}
  <2>1. PICK j : encoded[v] = {j}
    BY <1>1, <1>4 DEF CodecInv, EncodedTable
  <2>2. document = {j} /\ (CHOOSE x \in {j} : TRUE) = j
    BY <1>4, <2>1
  <2>3. stack' = <<<<j, ann>>>> /\ phase' = "decode" /\ doc' = {j}
    BY <2>2 DEF Hand
  <2>4. stack' # <<>> /\ stack'[1] = <<j, ann>>
    BY <2>3
  <2>5. OnTheWay(v)'
    BY <1>1, <1>2, <2>1, <2>3, <2>4 DEF OnTheWay
  <2> QED
    BY <1>1, <1>2, <2>3, <2>5 DEF TripInv
<1> QED
  BY <1>3, <1>4

LEMMA ToJsonTrip == CodecInv /\ TripInv /\ (ToJson \/ CanonicalJsonBytes) => TripInv'
BY HandTrip DEF ToJson, CanonicalJsonBytes

LEMMA CallDecodeTrip == CodecInv /\ TripInv /\ CallDecode => TripInv'
<1> SUFFICES ASSUME CodecInv, TripInv, CallDecode PROVE TripInv'
  OBVIOUS
<1> DEFINE calls == Calls(Last(stack)[1], Last(stack)[2])
           c == CHOOSE x \in calls \ DOMAIN decoded : TRUE
<1>1. /\ phase = "decode" /\ stack # <<>> /\ stack' = Append(stack, c)
      /\ UNCHANGED <<ann, value, doc, result, phase, encoded, decoded>>
  BY DEF CallDecode
<1> HIDE DEF c
<1>2. PICK S : stack \in Seq(S)
  BY <1>1 DEF CodecInv, CallStack
<1>3. stack \in Seq(S \cup {c})
  BY <1>2, SeqMonotonic
<1>4. stack' # <<>> /\ stack'[1] = stack[1]
  BY <1>1, <1>3, PushedStack
<1>5. ASSUME NEW v \in value PROVE OnTheWay(v)'
  <2>1. OnTheWay(v)
    BY <1>1 DEF TripInv
  <2> QED
    BY <1>1, <1>4, <2>1 DEF OnTheWay
<1> QED
  BY <1>1, <1>5 DEF TripInv

LEMMA ReturnDecodeTrip ==
    ASSUME \A a \in Annotations : Decidable(a), CodecInv, TripInv, ReturnDecode
    PROVE  TripInv'
<1> DEFINE c == Last(stack)
<1>1. /\ phase = "decode" /\ stack # <<>> /\ stack' = Front(stack)
      /\ Raised(Calls(c[1], c[2]), decoded) \/ Calls(c[1], c[2]) \subseteq DOMAIN decoded
      /\ decoded' = With(decoded, c, Decode(c[1], c[2], decoded))
      /\ UNCHANGED <<ann, value, doc, result, phase, encoded>>
  BY DEF ReturnDecode
<1>2. PICK S : stack \in Seq(S) /\ \A x \in S : IsCall(x)
  BY <1>1 DEF CodecInv, CallStack
<1>3. /\ IsCall(c)
      /\ stack' # <<>> => stack'[1] = stack[1]
      /\ stack' = <<>> => c = stack[1]
  BY <1>1, <1>2, PoppedStack
<1> HIDE DEF c
<1>4. TripTable(encoded, decoded) /\ EncodedTable(encoded)
  BY DEF TripInv, CodecInv
<1>5. TripTable(encoded', decoded')
  BY <1>1, <1>3, <1>4, TripTableGrows
<1>6. c \in DOMAIN decoded'
  BY <1>1 DEF With
<1>7. ASSUME NEW v \in value PROVE OnTheWay(v)'
  <2>1. OnTheWay(v)
    BY <1>1 DEF TripInv
  <2> QED
    BY <1>1, <1>3, <1>6, <2>1 DEF OnTheWay
<1> QED
  BY <1>1, <1>5, <1>7 DEF TripInv

LEMMA FromJsonTrip == TripInv /\ FromJson => TripInv'
<1> SUFFICES ASSUME TripInv, FromJson PROVE TripInv'
  OBVIOUS
<1>1. /\ phase = "decode" /\ stack = <<>> /\ phase' = "done"
      /\ UNCHANGED <<ann, value, doc, stack, encoded, decoded>>
  BY DEF FromJson
<1>2. PICK j \in doc : result' = decoded[<<j, ann>>]
  BY DEF FromJson
<1>3. ASSUME NEW v \in value PROVE result' = {v}
  <2>1. <<v, ann>> \in Typed /\ v \in DOMAIN encoded /\ encoded[v] = {j} /\ <<j, ann>> \in DOMAIN decoded
    BY <1>1, <1>2 DEF TripInv, OnTheWay
  <2>2. decoded[<<j, ann>>] = {v}
    BY <2>1 DEF TripInv, TripTable
  <2> QED
    BY <1>2, <2>2
<1> QED
  BY <1>1, <1>3 DEF TripInv

LEMMA CodecStepTrip ==
    ASSUME \A a \in Annotations : Decidable(a), CodecInv, TripInv, CodecStep
    PROVE  TripInv'
BY CallEncodeTrip, ReturnEncodeTrip, ToJsonTrip, CallDecodeTrip, ReturnDecodeTrip, FromJsonTrip DEF CodecStep

LEMMA ForgetTrip == TripInv /\ Forget => TripInv'
BY NoTrip DEF TripInv, Forget

LEMMA CallDecoderTrip ==
    ASSUME TripInv, phase = "idle", NEW j, NEW a, CallDecoder(j, a)
    PROVE  TripInv'
BY DEF TripInv, CallDecoder

LEMMA CallToJsonTrip == TripInv /\ CallToJson => TripInv'
<1> SUFFICES ASSUME TripInv, CallToJson PROVE TripInv'
  OBVIOUS
<1>1. PICK p \in Typed : value' = {p[1]} /\ ann' = p[2]
  BY DEF CallToJson
<1>2. p = <<p[1], p[2]>>
  BY TypedAssumption
<1> QED
  BY <1>1, <1>2 DEF TripInv, CallToJson

(* from_json(to_json(x)) is x with every type and every sign of a zero,    *)
(* for every value of every annotation whose unions are told apart, also   *)
(* by way of canonical_json_bytes; a value is refused only for a NaN, or a *)
(* str or an int that cannot be written, in it.                            *)
THEOREM CodecRoundTrip ==
    ASSUME \A a \in Annotations : Decidable(a)
    PROVE  Spec => []RoundTrip
<1>1. Init => CodecInv /\ TripInv
  BY CodecInit, TripInit
<1>2. CodecInv /\ TripInv /\ [Next]_vars => (CodecInv /\ TripInv)'
  <2>1. CodecInv /\ TripInv /\ CodecStep => TripInv'
    BY CodecStepTrip
  <2>2. TripInv /\ CallFromJson => TripInv'
    BY CallDecoderTrip DEF CallFromJson
  <2>3. TripInv /\ UNCHANGED vars => TripInv'
    BY DEF TripInv, OnTheWay, vars
  <2> QED
    BY <2>1, <2>2, <2>3, CallToJsonTrip, ForgetTrip, CodecNext DEF Next
<1>3. TripInv => RoundTrip
  BY DEF TripInv, RoundTrip
<1> QED
  BY <1>1, <1>2, <1>3, PTL DEF Spec

-----------------------------------------------------------------------------
(***************************************************************************)
(* The order of iteration is of no consequence.                            *)
(***************************************************************************)
(* Two orders of a set are rearrangements of each other. *)
LEMMA OrdersRearrange ==
    ASSUME NEW S, IsFiniteSet(S), NEW o1 \in SetToSeqs(S), NEW o2 \in SetToSeqs(S)
    PROVE  \E to : Permutes(to, Len(o1)) /\ \A i \in 1..Len(o1) : o2[i] = o1[to[i]]
<1> DEFINE n == Len(o1)
<1>1. /\ o1 \in Seq(S) /\ o2 \in Seq(S) /\ Len(o2) = n /\ n \in Nat
      /\ \A i, k \in 1..n : o1[i] = o1[k] => i = k
      /\ \A i, k \in 1..n : o2[i] = o2[k] => i = k
  BY OrdersList
<1>2. \A x \in S : (\E i \in 1..n : o1[i] = x) /\ (\E i \in 1..n : o2[i] = x)
  <2>1. ToSet(o1) = S /\ ToSet(o2) = S
    BY OrdersList
  <2>2. DOMAIN o1 = 1..n /\ DOMAIN o2 = 1..n
    BY <1>1
  <2> QED
    BY <2>1, <2>2 DEF ToSet
<1>3. \A i \in 1..n : o1[i] \in S /\ o2[i] \in S
  BY <1>1, ElementOfSeq
<1> HIDE DEF n
<1> DEFINE to == [i \in 1..n |-> CHOOSE k \in 1..n : o1[k] = o2[i]]
<1>4. \A i \in 1..n : to[i] \in 1..n /\ o1[to[i]] = o2[i]
  BY <1>2, <1>3
<1>5. to \in [1..n -> 1..n]
  BY <1>4
<1> HIDE DEF to
<1>6. \A i, k \in 1..n : to[i] = to[k] => i = k
  BY <1>1, <1>4
<1>7. \A k \in 1..n : \E i \in 1..n : to[i] = k
  <2> SUFFICES ASSUME NEW k \in 1..n PROVE \E i \in 1..n : to[i] = k
    OBVIOUS
  <2>1. PICK i \in 1..n : o2[i] = o1[k]
    BY <1>2, <1>3
  <2> QED
    BY <1>1, <1>4, <2>1
<1>8. Permutes(to, Len(o1))
  BY <1>5, <1>6, <1>7 DEF Permutes, n
<1>9. \A i \in 1..Len(o1) : o2[i] = o1[to[i]]
  BY <1>4 DEF n
<1> QED
  BY <1>8, <1>9

(* s is f with its members arranged by the places of their keys. *)
Arranges(from, f, s, keys) ==
    /\ Permutes(from, Len(keys))
    /\ \A p \in 1..Len(keys) : s[p] = f[from[p]] /\ PlaceOf(from[p], keys) = p

LEMMA SortedIsArranged ==
    ASSUME NEW S, NEW keys \in Seq(S), NEW R, NEW fragments \in Seq(R), Len(fragments) = Len(keys)
    PROVE  /\ Sorted(fragments, keys) \in Seq(R) /\ Len(Sorted(fragments, keys)) = Len(keys)
           /\ \E from : Arranges(from, fragments, Sorted(fragments, keys), keys)
BY SortedArranges DEF Arranges

(* However what is sorted is rearranged, fragments of one key are at one   *)
(* place of the result.                                                    *)
LEMMA SortedAlike ==
    ASSUME NEW S, NEW k1 \in Seq(S), NEW k2 \in Seq(S), Len(k2) = Len(k1),
           NEW R, NEW f1 \in Seq(R), NEW f2 \in Seq(R), Len(f1) = Len(k1), Len(f2) = Len(k1),
           NEW to, Permutes(to, Len(k1)), \A i \in 1..Len(k1) : k2[i] = k1[to[i]],
           \A i1, i2 \in 1..Len(k1) : k1[i1] = k2[i2] => f1[i1] = f2[i2]
    PROVE  Sorted(f1, k1) = Sorted(f2, k2)
<1> DEFINE n == Len(k1)
           s1 == Sorted(f1, k1)
           s2 == Sorted(f2, k2)
<1>3. /\ s1 \in Seq(R) /\ Len(s1) = n /\ s2 \in Seq(R) /\ Len(s2) = n
      /\ \E from : Arranges(from, f1, s1, k1)
      /\ \E from : Arranges(from, f2, s2, k2)
  <2>1. s1 \in Seq(R) /\ Len(s1) = Len(k1) /\ \E from : Arranges(from, f1, s1, k1)
    BY SortedIsArranged
  <2>2. Len(f2) = Len(k2)
    OBVIOUS
  <2>3. s2 \in Seq(R) /\ Len(s2) = Len(k2) /\ \E from : Arranges(from, f2, s2, k2)
    BY <2>2, SortedIsArranged
  <2> QED
    BY <2>1, <2>3
<1> HIDE DEF s1, s2
<1>1. PICK from1 : Arranges(from1, f1, s1, k1)
  BY <1>3
<1>2. PICK from2 : Arranges(from2, f2, s2, k2)
  BY <1>3
<1>4. ASSUME NEW p \in 1..n PROVE s1[p] = s2[p]
  <2>5. /\ from1[p] \in 1..n /\ s1[p] = f1[from1[p]] /\ PlaceOf(from1[p], k1) = p
    BY <1>1 DEF Arranges, Permutes
  <2>6. /\ from2[p] \in 1..n /\ s2[p] = f2[from2[p]] /\ PlaceOf(from2[p], k2) = p
    BY <1>2 DEF Arranges, Permutes
  <2>1. from1[p] \in 1..n /\ from2[p] \in 1..n
    BY <2>5, <2>6
  <2>2. PlaceOf(from1[p], k1) = PlaceOf(from2[p], k2)
    BY <2>5, <2>6
  <2>3. k1[from1[p]] = k2[from2[p]]
    <3>1. Rearranges(to, k1, k2)
      BY DEF Rearranges
    <3> DEFINE i1 == from1[p]
               i2 == from2[p]
    <3>2. i1 \in 1..Len(k1) /\ i2 \in 1..Len(k1) /\ PlaceOf(i1, k1) = PlaceOf(i2, k2)
      BY <2>1, <2>2
    <3> HIDE DEF i1, i2
    <3>3. k1[i1] = k2[i2]
      BY <3>1, <3>2, SameKeyInPlace
    <3> QED
      BY <3>3 DEF i1, i2
  <2>4. f1[from1[p]] = f2[from2[p]]
    BY <2>1, <2>3
  <2> QED
    BY <2>4, <2>5, <2>6
<1>5. s1 = s2
  BY <1>3, <1>4, SeqEqual
<1> QED
  BY <1>5 DEF s1, s2

LEMMA ElementsInAnyOrder ==
    ASSUME NEW S, IsFiniteSet(S), NEW o1 \in SetToSeqs(S), NEW o2 \in SetToSeqs(S), NEW E
    PROVE  EncodeElements(o1, E) = EncodeElements(o2, E)
<1> DEFINE R == {Got(E, x) : x \in S}
           k1 == [i \in DOMAIN o1 |-> Got(E, o1[i])]
           k2 == [i \in DOMAIN o2 |-> Got(E, o2[i])]
<1>1. o1 \in Seq(S) /\ o2 \in Seq(S) /\ Len(o1) = Len(o2)
  BY OrdersList
<1>2. \A i \in DOMAIN o1 : o1[i] \in S /\ o2[i] \in S
  BY <1>1
<1>3. k1 \in Seq(R) /\ k2 \in Seq(R) /\ Len(k1) = Len(o1) /\ Len(k2) = Len(k1)
  BY <1>1, <1>2
<1>4. PICK to : Permutes(to, Len(o1)) /\ \A i \in 1..Len(o1) : o2[i] = o1[to[i]]
  BY OrdersRearrange
<1>5. \A i \in 1..Len(o1) : k2[i] = k1[to[i]]
  <2> SUFFICES ASSUME NEW i \in 1..Len(o1) PROVE k2[i] = k1[to[i]]
    OBVIOUS
  <2>2. DOMAIN o1 = 1..Len(o1) /\ DOMAIN o2 = 1..Len(o1)
    BY <1>1
  <2>3. to[i] \in 1..Len(o1) /\ o2[i] = o1[to[i]]
    BY <1>4 DEF Permutes
  <2>1. i \in DOMAIN o2 /\ to[i] \in DOMAIN o1 /\ o2[i] = o1[to[i]]
    BY <2>2, <2>3
  <2> QED
    BY <2>1
<1>6. EncodeElements(o1, E) = Array(Sorted(k1, k1)) /\ EncodeElements(o2, E) = Array(Sorted(k2, k2))
  BY DEF EncodeElements
<1> HIDE DEF k1, k2, R
<1>7. Permutes(to, Len(k1)) /\ \A i \in 1..Len(k1) : k2[i] = k1[to[i]]
  BY <1>3, <1>4, <1>5
<1>8. Sorted(k1, k1) = Sorted(k2, k2)
  BY <1>3, <1>7, SortedAlike
<1> QED
  BY <1>6, <1>8

LEMMA PairsInAnyOrder ==
    ASSUME NEW S, IsFiniteSet(S), NEW o1 \in SetToSeqs(S), NEW o2 \in SetToSeqs(S), NEW E,
           \A p, q \in S : Got(E, p[1]) = Got(E, q[1]) => p = q
    PROVE  EncodePairs(o1, E) = EncodePairs(o2, E)
<1> DEFINE K == {Got(E, p[1]) : p \in S}
           R == {PairOf(p, E) : p \in S}
           k1 == [i \in DOMAIN o1 |-> Got(E, o1[i][1])]
           k2 == [i \in DOMAIN o2 |-> Got(E, o2[i][1])]
           f1 == [i \in DOMAIN o1 |-> PairOf(o1[i], E)]
           f2 == [i \in DOMAIN o2 |-> PairOf(o2[i], E)]
<1>1. o1 \in Seq(S) /\ o2 \in Seq(S) /\ Len(o1) = Len(o2)
  BY OrdersList
<1>2. \A i \in DOMAIN o1 : o1[i] \in S /\ o2[i] \in S
  BY <1>1
<1>3. k1 \in Seq(K) /\ k2 \in Seq(K) /\ Len(k1) = Len(o1) /\ Len(k2) = Len(k1)
  BY <1>1, <1>2
<1>4. f1 \in Seq(R) /\ f2 \in Seq(R) /\ Len(f1) = Len(k1) /\ Len(f2) = Len(k1)
  BY <1>1, <1>2
<1>5. PICK to : Permutes(to, Len(o1)) /\ \A i \in 1..Len(o1) : o2[i] = o1[to[i]]
  BY OrdersRearrange
<1>6. \A i \in 1..Len(o1) : k2[i] = k1[to[i]]
  BY <1>1, <1>5 DEF Permutes
<1>7. \A i1, i2 \in 1..Len(o1) : k1[i1] = k2[i2] => f1[i1] = f2[i2]
  <2> SUFFICES ASSUME NEW i1 \in 1..Len(o1), NEW i2 \in 1..Len(o1), k1[i1] = k2[i2]
               PROVE  f1[i1] = f2[i2]
    OBVIOUS
  <2>1. DOMAIN o1 = 1..Len(o1) /\ DOMAIN o2 = 1..Len(o1)
    BY <1>1
  <2>2. k1[i1] = Got(E, o1[i1][1]) /\ k2[i2] = Got(E, o2[i2][1])
    BY <2>1
  <2>3. o1[i1] = o2[i2]
    BY <1>2, <2>1, <2>2
  <2> QED
    BY <2>1, <2>3
<1>8. EncodePairs(o1, E) = Array(Sorted(f1, k1))
  <2>1. f1 = [i \in DOMAIN o1 |-> Array(<<k1[i], Got(E, o1[i][2])>>)]
    BY DEF PairOf
  <2> QED
    BY <2>1 DEF EncodePairs
<1>9. EncodePairs(o2, E) = Array(Sorted(f2, k2))
  <2>1. f2 = [i \in DOMAIN o2 |-> Array(<<k2[i], Got(E, o2[i][2])>>)]
    BY DEF PairOf
  <2> QED
    BY <2>1 DEF EncodePairs
<1> HIDE DEF k1, k2, f1, f2, K, R
<1>10. Permutes(to, Len(k1)) /\ \A i \in 1..Len(k1) : k2[i] = k1[to[i]]
  BY <1>3, <1>5, <1>6
<1>11. \A i1, i2 \in 1..Len(k1) : k1[i1] = k2[i2] => f1[i1] = f2[i2]
  BY <1>3, <1>7
<1>12. Sorted(f1, k1) = Sorted(f2, k2)
  BY <1>3, <1>4, <1>10, <1>11, SortedAlike
<1> QED
  BY <1>8, <1>9, <1>12

LEMMA PlainPlace ==
    ASSUME \A b \in Annotations : Decidable(b), NEW v, NEW a, <<v, a>> \in Typed
    PROVE  \E b : <<v, b>> \in Typed /\ Target(b).ann # "union"
<1>1. a \in Annotations /\ Fits(v, a, Typed) /\ Decidable(a)
  BY TypedFits
<1>2. CASE Target(a).ann # "union"
  BY <1>2
<1>3. CASE Target(a).ann = "union"
  <2>1. PICK k \in Target(a).any : <<v, Target(k)>> \in Typed
    BY <1>1, <1>3 DEF Fits
  <2> DEFINE m == Target(k)
  <2>2. Target(m) = m
    BY DEF Target
  <2>3. CASE m.ann # "union"
    BY <2>1, <2>2, <2>3
  <2>4. CASE m.ann = "union"
    <3>2. \A y \in m.any : Target(y).ann = "record"
      BY <1>1, <1>3, <2>4, UnionOfRecords
    <3>3. Fits(v, m, Typed)
      BY <2>1, TypedFits
    <3>4. PICK y \in m.any : <<v, Target(y)>> \in Typed
      BY <2>2, <2>4, <3>3 DEF Fits
    <3>5. Target(Target(y)) = Target(y)
      BY DEF Target
    <3> QED
      BY <3>2, <3>4, <3>5
  <2> QED
    BY <2>3, <2>4
<1> QED
  BY <1>2, <1>3

(* Some field or part of a field may hold the value. *)
Placed(v) == \E a : <<v, a>> \in Typed

LEMMA PartsPlaced ==
    ASSUME \A b \in Annotations : Decidable(b), NEW v, Placed(v), NEW x \in Parts(v)
    PROVE  Placed(x)
<1>1. PICK a : <<v, a>> \in Typed /\ Target(a).ann # "union"
  BY PlainPlace DEF Placed
<1> DEFINE t == Target(a)
<1>2. v \in Values /\ Fits(v, a, Typed)
  BY <1>1, TypedFits
<1>3. v.py \in Forms
  BY <1>2, ValueForms
<1>4. /\ v.py = "record" => t = Rec(v.cls)
      /\ v.py = "FrozenDict" => t.ann = "FrozenDict"
      /\ v.py = "tuple" => t.ann \in {"tuple", "fixed"}
      /\ v.py = "frozenset" => t.ann = "frozenset"
  BY <1>1, OfNoUnion
<1> HIDE DEF t
<1>5. CASE v.py = "tuple"
  <2>1. PICK i \in DOMAIN v.items : x = v.items[i]
    BY <1>5 DEF Parts, ToSet
  <2>2. <<x, t.of>> \in Typed \/ <<x, t.each[i]>> \in Typed
    BY <1>2, <1>4, <1>5, <2>1 DEF Fits, t
  <2> QED
    BY <2>2 DEF Placed
<1>6. CASE v.py = "frozenset"
  <2>1. <<x, t.of>> \in Typed
    BY <1>2, <1>4, <1>6 DEF Parts, Fits, t
  <2> QED
    BY <2>1 DEF Placed
<1>7. CASE v.py = "FrozenDict"
  <2>1. PICK p \in v.pairs : x = p[1] \/ x = p[2]
    BY <1>7 DEF Parts
  <2>2. <<x, t.key>> \in Typed \/ <<x, t.of>> \in Typed
    BY <1>2, <1>4, <1>7, <2>1 DEF Fits, t
  <2> QED
    BY <2>2 DEF Placed
<1>8. CASE v.py = "record"
  <2>1. t.ann = "record"
    BY <1>4, <1>8 DEF Rec
  <2>2. PICK f \in DOMAIN v.fields : x = v.fields[f]
    BY <1>8 DEF Parts
  <2>3. <<x, Schema[t.cls][f]>> \in Typed
    BY <1>2, <2>1, <2>2 DEF Fits, t
  <2> QED
    BY <2>3 DEF Placed
<1>9. CASE v.py \in Leaves \cup {"enum"}
  BY <1>9 DEF Parts, Leaves
<1> QED
  BY <1>3, <1>5, <1>6, <1>7, <1>8, <1>9 DEF Forms

EncodesTo(v, j, E) == Returns(v, E) /\ \E order \in Orders(v) : Encode(v, order, E) = {j}

(* Two values of an annotation that are encoded alike are of one           *)
(* annotation that is no union.                                            *)
LEMMA CommonMember ==
    ASSUME NEW a \in Annotations, Decidable(a), Target(a).ann = "union",
           NEW v, <<v, a>> \in Typed, NEW w, <<w, a>> \in Typed,
           NEW j, NEW E, EncodesTo(v, j, E), EncodesTo(w, j, E)
    PROVE  \E k \in Target(a).any : <<v, Target(k)>> \in Typed /\ <<w, Target(k)>> \in Typed
<1>1. Fits(v, a, Typed) /\ Fits(w, a, Typed)
  BY TypedFits
<1>2. PICK k \in Target(a).any : <<v, Target(k)>> \in Typed
  BY <1>1 DEF Fits
<1>3. PICK l \in Target(a).any : <<w, Target(l)>> \in Typed
  BY <1>1 DEF Fits
<1>4. Alternative(j, Target(a)) = {Target(k)}
  BY <1>2, AlternativeIsIt DEF EncodesTo
<1>5. Alternative(j, Target(a)) = {Target(l)}
  BY <1>3, AlternativeIsIt DEF EncodesTo
<1> QED
  BY <1>2, <1>3, <1>4, <1>5

LEMMA CommonPlain ==
    ASSUME \A b \in Annotations : Decidable(b),
           NEW a, NEW v, <<v, a>> \in Typed, NEW w, <<w, a>> \in Typed,
           NEW j, NEW E, EncodesTo(v, j, E), EncodesTo(w, j, E)
    PROVE  \E b : <<v, b>> \in Typed /\ <<w, b>> \in Typed /\ Target(b).ann # "union"
<1>1. a \in Annotations
  BY TypedFits
<1>2. CASE Target(a).ann # "union"
  BY <1>2
<1>3. CASE Target(a).ann = "union"
  <2>1. PICK k \in Target(a).any : <<v, Target(k)>> \in Typed /\ <<w, Target(k)>> \in Typed
    BY <1>1, <1>3, CommonMember
  <2> DEFINE m == Target(k)
  <2>2. Target(m) = m /\ m \in Annotations
    BY <2>1, TypedFits DEF Target
  <2>3. CASE m.ann # "union"
    BY <2>1, <2>2, <2>3
  <2>4. CASE m.ann = "union"
    <3>2. \A y \in m.any : Target(y).ann = "record"
      BY <1>1, <1>3, <2>4, UnionOfRecords
    <3> HIDE DEF m
    <3>3. PICK y \in m.any : <<v, Target(y)>> \in Typed /\ <<w, Target(y)>> \in Typed
      <4>1. <<v, m>> \in Typed /\ <<w, m>> \in Typed
        BY <2>1 DEF m
      <4>2. \E y \in Target(m).any : <<v, Target(y)>> \in Typed /\ <<w, Target(y)>> \in Typed
        BY <2>2, <2>4, <4>1, CommonMember
      <4> QED
        BY <2>2, <4>2
    <3>4. Target(Target(y)) = Target(y)
      BY DEF Target
    <3> QED
      BY <3>2, <3>3, <3>4
  <2> QED
    BY <2>3, <2>4
<1> QED
  BY <1>2, <1>3

(* No two values of one annotation are encoded alike. *)
Injective(E) ==
    \A v, w \in DOMAIN E : \A a :
        <<v, a>> \in Typed /\ <<w, a>> \in Typed /\ E[v] = E[w] /\ E[v] # {} => v = w

(* The answers that the calls for the parts of j would have if each        *)
(* returned the value of E which its fragment encodes.                     *)
Backwards(E, j, a) == [c \in Calls(j, a) |-> {x \in DOMAIN E : <<x, c[2]>> \in Typed /\ E[x] = {c[1]}}]

LEMMA InverseInverts ==
    ASSUME NEW E, EncodedTable(E), Injective(E), NEW v, Ready(v, E), NEW j, NEW a
    PROVE  Inverts(Backwards(E, j, a), v, E, j, a) /\ Calls(j, a) \subseteq DOMAIN Backwards(E, j, a)
<1>1. DOMAIN Backwards(E, j, a) = Calls(j, a)
  BY DEF Backwards
<1>2. ASSUME NEW c \in Calls(j, a), NEW x \in Parts(v), CallFor(c, x, E)
      PROVE  Backwards(E, j, a)[c] = {x}
  <2>1. x \in DOMAIN E /\ E[x] # {}
    BY ReadyParts
  <2>2. E[x] = {c[1]}
    <3>1. PICK i : E[x] = {i}
      BY <2>1 DEF EncodedTable
    <3> QED
      BY <1>2, <3>1, GotTheAnswer DEF CallFor
  <2>3. <<x, c[2]>> \in Typed
    BY <1>2 DEF CallFor
  <2>4. \A y \in DOMAIN E : <<y, c[2]>> \in Typed /\ E[y] = {c[1]} => y = x
    BY <2>1, <2>2, <2>3 DEF Injective
  <2> QED
    BY <2>1, <2>2, <2>3, <2>4 DEF Backwards
<1> QED
  BY <1>1, <1>2 DEF Inverts

(* What is encoded alike is the same: decoding it gives both.              *)
LEMMA SameEncoding ==
    ASSUME \A b \in Annotations : Decidable(b), NEW E, EncodedTable(E), Injective(E),
           NEW a, NEW v, <<v, a>> \in Typed, NEW w, <<w, a>> \in Typed,
           Ready(v, E), Ready(w, E), NEW j,
           NEW o1 \in Orders(v), Encode(v, o1, E) = {j}, NEW o2 \in Orders(w), Encode(w, o2, E) = {j}
    PROVE  v = w
<1>1. Returns(v, E) /\ Returns(w, E) /\ EncodesTo(v, j, E) /\ EncodesTo(w, j, E)
  BY DEF Ready, EncodesTo
<1>2. PICK b : <<v, b>> \in Typed /\ <<w, b>> \in Typed /\ Target(b).ann # "union"
  BY <1>1, CommonPlain
<1> DEFINE D == Backwards(E, j, b)
<1>3. Inverts(D, v, E, j, b) /\ Inverts(D, w, E, j, b) /\ Calls(j, b) \subseteq DOMAIN D
  BY InverseInverts
<1> HIDE DEF D
<1>4. Decode(j, b, D) = {v}
  BY <1>1, <1>2, <1>3, DecodesBackPlain
<1>5. Decode(j, b, D) = {w}
  BY <1>1, <1>2, <1>3, DecodesBackPlain
<1> QED
  BY <1>4, <1>5

(* The table as it is when its values are of annotations: what was refused *)
(* is a NaN or has a part that kept the body from its end.                 *)
OrderTable(E) ==
    /\ EncodedTable(E) /\ Injective(E)
    /\ \A v \in DOMAIN E : /\ Placed(v)
                           /\ E[v] = {} => v = NaN \/ ~ Returns(v, E)

LEMMA OrderTableGrows ==
    ASSUME \A b \in Annotations : Decidable(b), NEW E, OrderTable(E), NEW v, Placed(v),
           Raised(Parts(v), E) \/ Parts(v) \subseteq DOMAIN E, NEW order \in Orders(v)
    PROVE  OrderTable(With(E, v, Encode(v, order, E)))
<1> DEFINE F == With(E, v, Encode(v, order, E))
<1>1. v \in Values
  BY TypedFits DEF Placed
<1>2. EncodedTable(F)
  BY <1>1, EncodedTableGrows DEF OrderTable
<1>3. DOMAIN F = DOMAIN E \cup {v} /\ \A x \in DOMAIN E : F[x] = E[x]
  BY DEF With
<1>4. v \notin DOMAIN E => F[v] = Encode(v, order, E)
  BY DEF With
<1> HIDE DEF F
<1>5. ASSUME v \notin DOMAIN E, Encode(v, order, E) # {}
      PROVE  Ready(v, E) /\ \E j : Encode(v, order, E) = {j}
  <2>1. Ready(v, E)
    BY <1>5 DEF Ready, Returns, Encode
  <2>2. \A x \in Parts(v) : \A j \in E[x] : IsJson(j)
    BY <2>1 DEF Ready, OrderTable, EncodedTable
  <2> QED
    BY <1>1, <1>5, <2>1, <2>2, EncodedIsJson
<1>6. ASSUME NEW w \in DOMAIN E, v \notin DOMAIN E, NEW a, <<v, a>> \in Typed, <<w, a>> \in Typed,
             F[v] = F[w], F[v] # {}
      PROVE  v = w
  <2>1. PICK j : Encode(v, order, E) = {j}
    BY <1>4, <1>5, <1>6
  <2>2. Ready(v, E)
    BY <1>5, <1>6, <1>4
  <2>3. E[w] = {j}
    BY <1>3, <1>4, <1>6, <2>1
  <2>4. Written(w, E)
    BY <2>3 DEF OrderTable, EncodedTable
  <2>5. PICK o2 \in Orders(w) : Encode(w, o2, E) = {j}
    BY <2>3, <2>4 DEF Written
  <2>6. EncodedTable(E) /\ Injective(E) /\ Ready(w, E)
    BY <2>4 DEF OrderTable, Written
  <2> QED
    BY <1>6, <2>1, <2>2, <2>5, <2>6, SameEncoding
<1>7. Injective(F)
  <2> SUFFICES ASSUME NEW x \in DOMAIN F, NEW y \in DOMAIN F, NEW a, <<x, a>> \in Typed, <<y, a>> \in Typed,
                      F[x] = F[y], F[x] # {}
               PROVE  x = y
    BY DEF Injective
  <2>1. CASE x \in DOMAIN E /\ y \in DOMAIN E
    BY <1>3, <2>1 DEF OrderTable, Injective
  <2>2. CASE x \notin DOMAIN E /\ y \in DOMAIN E
    BY <1>3, <1>6, <2>2
  <2>3. CASE x \in DOMAIN E /\ y \notin DOMAIN E
    BY <1>3, <1>6, <2>3
  <2>4. CASE x \notin DOMAIN E /\ y \notin DOMAIN E
    BY <1>3, <2>4
  <2> QED
    BY <2>1, <2>2, <2>3, <2>4
<1>8. \A x : ~ Returns(x, E) => ~ Returns(x, F)
  BY <1>3 DEF Returns, Raised
<1>9. ASSUME NEW x \in DOMAIN F
      PROVE  Placed(x) /\ (F[x] = {} => x = NaN \/ ~ Returns(x, F))
  <2>1. CASE x \in DOMAIN E
    BY <1>3, <1>8, <2>1 DEF OrderTable
  <2>2. CASE x \notin DOMAIN E
    <3>1. x = v /\ F[x] = Encode(v, order, E)
      BY <1>3, <1>4, <2>2
    <3>2. CASE ~ Returns(v, E)
      BY <1>8, <3>1, <3>2
    <3>3. CASE Returns(v, E)
      <4>1. Ready(v, E)
        BY <3>3 DEF Ready, Returns
      <4>2. \A y \in Parts(v) : \A j \in E[y] : IsJson(j)
        BY <4>1 DEF Ready, OrderTable, EncodedTable
      <4>3. Encode(v, order, E) = {} => v = NaN
        BY <1>1, <4>1, <4>2, EncodedIsJson
      <4> QED
        BY <3>1, <4>3
    <3> QED
      BY <3>2, <3>3
  <2> QED
    BY <2>1, <2>2
<1> QED
  BY <1>2, <1>7, <1>9 DEF OrderTable, F

LEMMA AnyOrder ==
    ASSUME \A b \in Annotations : Decidable(b), NEW E, OrderTable(E), NEW v, Placed(v), Ready(v, E),
           NEW o1 \in Orders(v), NEW o2 \in Orders(v)
    PROVE  Encode(v, o1, E) = Encode(v, o2, E)
<1>1. PICK a : <<v, a>> \in Typed /\ Target(a).ann # "union"
  BY PlainPlace DEF Placed
<1>2. v \in Values /\ Fits(v, a, Typed) /\ IsValue(v, Values) /\ v.py \in Forms
      /\ (v.py = "FrozenDict" => \A p, q \in v.pairs : p[1] = q[1] => p = q)
  BY <1>1, TypedFits, ValueForms
<1>3. CASE v.py \in Leaves \cup {"enum", "tuple", "record"}
  BY <1>3 DEF Orders, Leaves
<1>4. CASE v.py = "frozenset"
  <2>1. IsFiniteSet(v.elements)
    BY <1>2, <1>4 DEF IsValue
  <2>2. o1 \in SetToSeqs(v.elements) /\ o2 \in SetToSeqs(v.elements)
    BY <1>4 DEF Orders
  <2>3. EncodeElements(o1, E) = EncodeElements(o2, E)
    BY <2>1, <2>2, ElementsInAnyOrder
  <2> QED
    BY <1>4, <2>3 DEF Encode, Ready, Returns
<1>5. CASE v.py = "FrozenDict"
  <2>1. IsFiniteSet(v.pairs)
    BY <1>2, <1>5 DEF IsValue
  <2>2. o1 \in SetToSeqs(v.pairs) /\ o2 \in SetToSeqs(v.pairs)
    BY <1>5 DEF Orders
  <2>3. \A p \in v.pairs : <<p[1], Target(a).key>> \in Typed /\ p[1] \in Parts(v)
    BY <1>1, <1>2, <1>5, OfNoUnion, ItemsAreParts DEF Fits
  <2>4. ASSUME NEW p \in v.pairs, NEW q \in v.pairs, Got(E, p[1]) = Got(E, q[1])
        PROVE  p = q
    <3>1. p[1] \in DOMAIN E /\ q[1] \in DOMAIN E /\ E[p[1]] # {} /\ E[q[1]] # {}
      BY <2>3, ReadyParts
    <3>2. E[p[1]] = E[q[1]]
      <4>1. PICK i : E[p[1]] = {i}
        BY <3>1 DEF OrderTable, EncodedTable
      <4>2. PICK k : E[q[1]] = {k}
        BY <3>1 DEF OrderTable, EncodedTable
      <4> QED
        BY <2>4, <4>1, <4>2, GotTheAnswer
    <3>3. p[1] = q[1]
      BY <2>3, <3>1, <3>2 DEF OrderTable, Injective
    <3> QED
      BY <1>2, <1>5, <3>3
  <2>5. EncodePairs(o1, E) = EncodePairs(o2, E)
    BY <2>1, <2>2, <2>4, PairsInAnyOrder
  <2> QED
    BY <1>5, <2>5 DEF Encode, Ready, Returns
<1> QED
  BY <1>2, <1>3, <1>4, <1>5 DEF Forms

LEMMA OrderTableOrders ==
    ASSUME \A b \in Annotations : Decidable(b), NEW E, OrderTable(E), NEW v \in DOMAIN E, NEW order \in Orders(v)
    PROVE  Encode(v, order, E) = E[v]
<1>1. CASE E[v] = {}
  <2>1. CASE ~ Returns(v, E)
    BY <1>1, <2>1 DEF Encode, Returns
  <2>2. CASE v = NaN /\ Returns(v, E)
    <3>1. v \in Values /\ v.py = "float"
      BY <2>2 DEF OrderTable, EncodedTable, NaN, Leaf
    <3>2. Encode(v, order, E) = EncodeFloat(v)
      BY <2>2, <3>1, EncodedForms
    <3> QED
      BY <1>1, <2>2, <3>2 DEF EncodeFloat
  <2> QED
    BY <1>1, <2>1, <2>2 DEF OrderTable
<1>2. CASE E[v] # {}
  <2>1. Written(v, E) /\ Placed(v)
    BY <1>2 DEF OrderTable, EncodedTable
  <2>2. PICK o \in Orders(v) : E[v] = Encode(v, o, E)
    BY <2>1 DEF Written
  <2>3. Ready(v, E)
    BY <2>1 DEF Written
  <2> QED
    BY <2>1, <2>2, <2>3, AnyOrder
<1> QED
  BY <1>1, <1>2

OrderInv ==
    /\ OrderTable(encoded)
    /\ phase = "encode" => stack \in Seq({v \in Values : Placed(v)})

LEMMA CallEncodeOrder ==
    ASSUME \A b \in Annotations : Decidable(b), OrderInv, CallEncode
    PROVE  OrderInv'
<1> DEFINE S == {v \in Values : Placed(v)}
           parts == Parts(Last(stack))
           p == CHOOSE x \in parts \ DOMAIN encoded : TRUE
<1>1. /\ phase = "encode" /\ stack # <<>> /\ parts \ DOMAIN encoded # {} /\ stack' = Append(stack, p)
      /\ UNCHANGED <<phase, encoded>>
  BY DEF CallEncode
<1>2. p \in parts
  BY <1>1
<1> HIDE DEF p
<1>3. stack \in Seq(S) /\ Last(stack) \in S
  BY <1>1, PoppedStack DEF OrderInv
<1>4. p \in S
  BY <1>2, <1>3, PartsPlaced, PartsAreValues
<1>5. stack' \in Seq(S)
  BY <1>1, <1>3, <1>4, PushedStack
<1> QED
  BY <1>1, <1>5 DEF OrderInv

LEMMA ReturnEncodeOrder ==
    ASSUME \A b \in Annotations : Decidable(b), OrderInv, ReturnEncode
    PROVE  OrderInv'
<1> DEFINE S == {v \in Values : Placed(v)}
           v == Last(stack)
<1>1. /\ phase = "encode" /\ stack # <<>> /\ stack' = Front(stack) /\ phase' = phase
      /\ Raised(Parts(v), encoded) \/ Parts(v) \subseteq DOMAIN encoded
  BY DEF ReturnEncode
<1>2. PICK order \in Orders(v) : encoded' = With(encoded, v, Encode(v, order, encoded))
  BY DEF ReturnEncode
<1>3. stack' \in Seq(S) /\ v \in S
  BY <1>1, PoppedStack DEF OrderInv
<1> HIDE DEF v
<1>4. OrderTable(encoded')
  BY <1>1, <1>2, <1>3, OrderTableGrows DEF OrderInv
<1> QED
  BY <1>1, <1>3, <1>4 DEF OrderInv

(* In whatever order Python iterates over the unordered parts of a value,  *)
(* at any depth, the encoding is the same: no two values of an annotation  *)
(* are encoded alike, so the keys of a FrozenDict are sorted by different  *)
(* keys, and what a frozenset is sorted by is all that there is.           *)
THEOREM CodecIsOrderIndependent ==
    ASSUME \A a \in Annotations : Decidable(a)
    PROVE  Spec => []OrderIndependent
<1>1. OrderTable(NoAnswers)
  BY EmptyTables, NoAnswersIsEmpty DEF OrderTable, Injective
<1>2. Init => OrderInv
  BY <1>1 DEF Init, OrderInv
<1>3. OrderInv /\ [Next]_vars => OrderInv'
  <2>1. OrderInv /\ CallToJson => OrderInv'
    <3> SUFFICES ASSUME OrderInv, CallToJson PROVE OrderInv'
      OBVIOUS
    <3>1. PICK p \in Typed : stack' = <<p[1]>>
      BY DEF CallToJson
    <3>2. p = <<p[1], p[2]>>
      BY TypedAssumption
    <3>3. p[1] \in {v \in Values : Placed(v)}
      BY <3>2, TypedFits DEF Placed
    <3> QED
      BY <3>1, <3>3 DEF OrderInv, CallToJson
  <2>2. OrderInv /\ CallFromJson => OrderInv'
    BY DEF OrderInv, CallFromJson, CallDecoder
  <2>3. OrderInv /\ CallEncode => OrderInv'
    BY CallEncodeOrder
  <2>4. OrderInv /\ ReturnEncode => OrderInv'
    BY ReturnEncodeOrder
  <2>5. OrderInv /\ (ToJson \/ CanonicalJsonBytes) => OrderInv'
    BY DEF OrderInv, ToJson, CanonicalJsonBytes, Hand
  <2>6. OrderInv /\ (CallDecode \/ ReturnDecode \/ FromJson) => OrderInv'
    BY DEF OrderInv, CallDecode, ReturnDecode, FromJson
  <2>7. OrderInv /\ Forget => OrderInv'
    BY <1>1 DEF OrderInv, Forget
  <2>8. OrderInv /\ UNCHANGED vars => OrderInv'
    BY DEF OrderInv, vars
  <2> QED
    BY <2>1, <2>2, <2>3, <2>4, <2>5, <2>6, <2>7, <2>8 DEF Next, CodecStep
<1>4. OrderInv => OrderIndependent
  BY OrderTableOrders DEF OrderInv, OrderIndependent
<1> QED
  BY <1>2, <1>3, <1>4, PTL DEF Spec

-----------------------------------------------------------------------------
(***************************************************************************)
(* The classes of the library.                                             *)
(***************************************************************************)
ScopeClasses == {"Universal", "Value", "Scope", "Validity"}
DomainClasses == {"MathematicalReal", "MathematicalComplex", "IntegerExact", "IEEE754", "ContractNumeric"}
ClaimClasses == {"Property", "Equivalence", "ClaimKey", "Claim"}
StatusClasses ==
    {"Assumed", "Specified", "StaticallyDerived", "SmtProved", "FormallyProved", "RuntimeChecked", "Measured",
     "Predicted", "AiInferred"}

Classes ==
    IdClasses \cup ScopeClasses \cup {"ArtifactRef", "SourceSpan"} \cup DomainClasses \cup ClaimClasses
        \cup StatusClasses \cup {"Bundled", "Evidence"}

LEMMA ModuleClasses ==
    /\ DOMAIN IdFields = IdClasses /\ DOMAIN ScopeFields = ScopeClasses
    /\ DOMAIN ArtifactFields = {"ArtifactRef"} /\ DOMAIN SpanFields = {"SourceSpan"}
    /\ DOMAIN DomainFields = DomainClasses /\ DOMAIN ClaimFields = ClaimClasses
    /\ DOMAIN StatusFields = StatusClasses /\ DOMAIN EvidenceFields = {"Bundled", "Evidence"}
BY DEF IdFields, ScopeFields, ArtifactFields, SpanFields, DomainFields, ClaimFields, StatusFields, EvidenceFields,
       ScopeClasses, DomainClasses, ClaimClasses, StatusClasses

(* The fields of a class are those its module says.                        *)
LEMMA FieldsAre ==
    /\ DOMAIN Fields = Classes
    /\ \A c \in IdClasses : Fields[c] = IdFields[c]
    /\ \A c \in ScopeClasses : Fields[c] = ScopeFields[c]
    /\ Fields["ArtifactRef"] = ArtifactFields["ArtifactRef"]
    /\ Fields["SourceSpan"] = SpanFields["SourceSpan"]
    /\ \A c \in DomainClasses : Fields[c] = DomainFields[c]
    /\ \A c \in ClaimClasses : Fields[c] = ClaimFields[c]
    /\ \A c \in StatusClasses : Fields[c] = StatusFields[c]
    /\ \A c \in {"Bundled", "Evidence"} : Fields[c] = EvidenceFields[c]
<1> DEFINE modules == <<IdFields, ScopeFields, ArtifactFields, SpanFields, DomainFields, ClaimFields, StatusFields,
                        EvidenceFields>>
           names == <<IdClasses, ScopeClasses, {"ArtifactRef"}, {"SourceSpan"}, DomainClasses, ClaimClasses,
                      StatusClasses, {"Bundled", "Evidence"}>>
<1>1. Fields = [c \in UNION {DOMAIN modules[i] : i \in 1..8} |->
                    (CHOOSE m \in {modules[i] : i \in {k \in 1..8 : c \in DOMAIN modules[k]}} : TRUE)[c]]
  BY DEF Fields
<1>2. \A i \in 1..8 : DOMAIN modules[i] = names[i]
  BY ModuleClasses
<1>3. \A i, k \in 1..8 : \A c : c \in names[i] /\ c \in names[k] => i = k
  BY DEF IdClasses, ScopeClasses, DomainClasses, ClaimClasses, StatusClasses
<1>4. UNION {names[i] : i \in 1..8} = Classes
  BY DEF Classes
<1> HIDE DEF modules, names
<1>5. DOMAIN Fields = Classes
  BY <1>1, <1>2, <1>4
<1>6. ASSUME NEW i \in 1..8, NEW c \in names[i]
      PROVE  Fields[c] = modules[i][c]
  <2>1. {k \in 1..8 : c \in DOMAIN modules[k]} = {i}
    BY <1>2, <1>3
  <2>2. {modules[k] : k \in {i}} = {modules[i]}
    OBVIOUS
  <2>3. (CHOOSE m \in {modules[i]} : TRUE) = modules[i]
    OBVIOUS
  <2>4. c \in UNION {DOMAIN modules[k] : k \in 1..8}
    BY <1>2
  <2>5. Fields[c] = (CHOOSE m \in {modules[k] : k \in {l \in 1..8 : c \in DOMAIN modules[l]}} : TRUE)[c]
    BY <1>1, <2>4
  <2> QED
    BY <2>1, <2>2, <2>3, <2>5
<1> QED
  BY <1>5, <1>6 DEF modules, names

LEMMA SchemaIs ==
    /\ DOMAIN Schema = Classes
    /\ \A c \in Classes : /\ DOMAIN Schema[c] = DOMAIN Fields[c]
                          /\ \A f \in DOMAIN Fields[c] : Schema[c][f] = Fields[c][f].ann
BY SchemaAssumption, FieldsAre DEF RecordSchema

(* The type of a value tells what the value is.                            *)
LEMMA TypeTells ==
    ASSUME NEW v \in Values
    PROVE  /\ TypeOf(v) \in Leaves \cup {"tuple"} => v.py = TypeOf(v)
           /\ TypeOf(v) \in Classes => v.py = "record" /\ v.cls = TypeOf(v)
           /\ TypeOf(v) \notin Classes \cup Forms => v.py = "enum" /\ v.cls = TypeOf(v) /\ v.name \in Members[v.cls]
<1>1. v.py \in Forms /\ IsValue(v, Values)
  BY ValueForms
<1>2. CASE v.py = "record"
  <2>1. TypeOf(v) = v.cls /\ v.cls \in Classes
    BY <1>1, <1>2, SchemaIs DEF TypeOf, IsValue
  <2>2. Classes \cap (Leaves \cup {"tuple"}) = {}
    BY DEF Classes, Leaves, IdClasses, ScopeClasses, DomainClasses, ClaimClasses, StatusClasses
  <2> QED
    BY <1>2, <2>1, <2>2
<1>3. CASE v.py = "enum"
  <2>1. TypeOf(v) = v.cls /\ v.cls \in DOMAIN Members /\ v.name \in Members[v.cls]
    BY <1>3, RecordsAssumption DEF TypeOf
  <2>2. v.cls \notin Leaves \cup {"tuple"} /\ v.cls \notin Classes
    BY <2>1, RecordsAssumption, SchemaIs
  <2> QED
    BY <1>3, <2>1, <2>2
<1>4. CASE v.py \in Forms \ {"record", "enum"}
  <2>1. TypeOf(v) = v.py
    BY <1>4 DEF TypeOf
  <2>2. Classes \cap Forms \subseteq {"record", "enum"}
    BY DEF Classes, Forms, Leaves, IdClasses, ScopeClasses, DomainClasses, ClaimClasses, StatusClasses
  <2> QED
    BY <1>4, <2>1, <2>2
<1> QED
  BY <1>1, <1>2, <1>3, <1>4

(* A field lets through one type of number at most, only one lets through  *)
(* a float, only two let through a tuple and none what is unordered.       *)
Strictly(c, f) ==
    /\ "float" \in Fields[c][f].exactly => c = "AiInferred" /\ f = "score"
    /\ Fields[c][f].exactly \cap {"frozenset", "FrozenDict"} = {}
    /\ \A t, u \in Fields[c][f].exactly \cap Numbers : t = u
    /\ "tuple" \in Fields[c][f].exactly => <<c, f>> \in {<<"Measured", "ci">>, <<"Evidence", "provenance">>}

LEMMA FieldsAreStrict == \A c \in Classes : \A f \in DOMAIN Fields[c] : Strictly(c, f)
<1> USE FieldsAre DEF Strictly, Field, Plainly, MemberOf, Part, None, Numbers
<1>1. ASSUME NEW c \in IdClasses PROVE \A f \in DOMAIN Fields[c] : Strictly(c, f)
  BY DEF IdFields
<1>2. ASSUME NEW c \in ScopeClasses PROVE \A f \in DOMAIN Fields[c] : Strictly(c, f)
  BY DEF ScopeFields, ScopeClasses
<1>3. \A f \in DOMAIN Fields["ArtifactRef"] : Strictly("ArtifactRef", f)
  BY DEF ArtifactFields
<1>4. \A f \in DOMAIN Fields["SourceSpan"] : Strictly("SourceSpan", f)
  BY DEF SpanFields
<1>5. ASSUME NEW c \in DomainClasses PROVE \A f \in DOMAIN Fields[c] : Strictly(c, f)
  BY DEF DomainFields, DomainClasses
<1>6. ASSUME NEW c \in ClaimClasses PROVE \A f \in DOMAIN Fields[c] : Strictly(c, f)
  BY ModuleClasses DEF ClaimFields, ClaimClasses, DomainClasses
<1>7. ASSUME NEW c \in StatusClasses PROVE \A f \in DOMAIN Fields[c] : Strictly(c, f)
  BY DEF StatusFields, StatusClasses
<1>8. ASSUME NEW c \in {"Bundled", "Evidence"} PROVE \A f \in DOMAIN Fields[c] : Strictly(c, f)
  BY ModuleClasses DEF EvidenceFields, StatusClasses
<1> QED
  BY <1>1, <1>2, <1>3, <1>4, <1>5, <1>6, <1>7, <1>8 DEF Classes

LEMMA ArgumentFields ==
    ASSUME NEW r \in Arguments
    PROVE  /\ r = Record(r.cls, r.fields) /\ r.cls \in Classes
           /\ DOMAIN r.fields = DOMAIN Fields[r.cls]
           /\ \A f \in DOMAIN r.fields : r.fields[f] \in Values
BY ArgumentsAssumption, SchemaIs

(* The elements of a tuple that a record takes are of one type.            *)
LEMMA TupleTypes ==
    ASSUME NEW r \in Arguments, PostInit(r), NEW f \in DOMAIN r.fields, r.fields[f].py = "tuple"
    PROVE  \/ r.cls = "Measured" /\ f = "ci" /\ r.fields[f].items \in Seq(Values)
              /\ Len(r.fields[f].items) = 2 /\ DOMAIN r.fields[f].items = 1..2
              /\ \A i \in 1..2 : r.fields[f].items[i].py = "float"
           \/ r.cls = "Evidence" /\ f = "provenance" /\ r.fields[f].items \in Seq(Values)
              /\ \A i \in DOMAIN r.fields[f].items : TypeOf(r.fields[f].items[i]) = "EvidenceId"
<1> DEFINE v == r.fields[f]
<1>1. v \in Values /\ TypeOf(v) = "tuple" /\ IsValue(v, Values)
  BY ArgumentFields, ValueForms DEF TypeOf
<1>2. v.items \in Seq(Values)
  BY <1>1 DEF IsValue
<1>3. r.cls \in Classes /\ f \in DOMAIN Fields[r.cls] /\ "tuple" \in Fields[r.cls][f].exactly
  BY <1>1, ArgumentFields DEF PostInit
<1>4. <<r.cls, f>> \in {<<"Measured", "ci">>, <<"Evidence", "provenance">>}
  BY <1>3, FieldsAreStrict DEF Strictly
<1>5. InRange(r.cls, r.fields)
  BY DEF PostInit
<1>6. CASE r.cls = "Measured" /\ f = "ci"
  <2>1. MeasuredInRange(r.fields)
    BY <1>5, <1>6 DEF InRange, IdClasses
  <2>2. Len(v.items) = 2 /\ \A i \in 1..2 : v.items[i].py = "float"
    BY <1>6, <2>1 DEF MeasuredInRange
  <2> QED
    BY <1>2, <1>6, <2>2
<1>7. CASE r.cls = "Evidence" /\ f = "provenance"
  <2>1. ProvenanceIsSound(r.fields)
    BY <1>5, <1>7 DEF InRange, IdClasses
  <2> QED
    BY <1>2, <1>7, <2>1 DEF ProvenanceIsSound
<1> QED
  BY <1>4, <1>6, <1>7

LEMMA EqualAreAlike ==
    ASSUME NEW r \in Arguments, NEW s \in Arguments, PostInit(r), PostInit(s), Equal(r, s),
           NEW f \in DOMAIN r.fields
    PROVE  Alike(r.fields[f], s.fields[f])
<1> DEFINE v == r.fields[f]
           w == s.fields[f]
<1>1. r.cls = s.cls /\ Same(v, w) /\ f \in DOMAIN s.fields /\ f \in DOMAIN Fields[r.cls] /\ r.cls \in Classes
  BY ArgumentFields DEF Equal
<1>2. /\ TypeOf(v) = TypeOf(w) \/ {TypeOf(v), TypeOf(w)} \subseteq Numbers
      /\ v.py = "tuple" =>
            /\ DOMAIN v.items = DOMAIN w.items
            /\ \A i \in DOMAIN v.items : v.items[i] = w.items[i] \/ Same(v.items[i], w.items[i])
  BY <1>1, SameAssumption
<1>3. TypeOf(v) \in Fields[r.cls][f].exactly /\ TypeOf(w) \in Fields[r.cls][f].exactly
  BY <1>1 DEF PostInit
<1>4. TypeOf(v) = TypeOf(w)
  BY <1>1, <1>2, <1>3, FieldsAreStrict DEF Strictly
<1>5. ASSUME v.py = "tuple" PROVE \A i \in DOMAIN v.items : TypeOf(v.items[i]) = TypeOf(w.items[i])
  <2>1. w.py = "tuple"
    <3>1. TypeOf(w) = "tuple" /\ w \in Values
      BY <1>1, <1>4, <1>5, ArgumentFields DEF TypeOf
    <3> QED
      BY <3>1, TypeTells
  <2>2. \/ r.cls = "Measured" /\ DOMAIN v.items = 1..2 /\ \A i \in 1..2 : v.items[i].py = "float"
        \/ r.cls = "Evidence" /\ \A i \in DOMAIN v.items : TypeOf(v.items[i]) = "EvidenceId"
    BY <1>5, TupleTypes
  <2>3. \/ s.cls = "Measured" /\ DOMAIN w.items = 1..2 /\ \A i \in 1..2 : w.items[i].py = "float"
        \/ s.cls = "Evidence" /\ \A i \in DOMAIN w.items : TypeOf(w.items[i]) = "EvidenceId"
    BY <1>1, <2>1, TupleTypes
  <2> QED
    BY <1>1, <1>2, <1>5, <2>2, <2>3 DEF TypeOf
<1> QED
  BY <1>4, <1>5 DEF Alike

LEMMA SpanFieldsAre ==
    ASSUME NEW r \in Arguments, r.cls = "SourceSpan"
    PROVE  LET g == r.fields
           IN  /\ DOMAIN g = {"file", "line0", "col0", "line1", "col1"}
               /\ \A f \in DOMAIN g : g[f] \in Values
               /\ \A f \in DOMAIN g : Fields["SourceSpan"][f].exactly = IF f = "file" THEN {"str"} ELSE {"int"}
BY ArgumentFields, FieldsAre DEF SpanFields, Field, Plainly

LEMMA SpanIsRange ==
    ASSUME NEW r \in Arguments, r.cls = "SourceSpan", r.fields.file.py = "str"
    PROVE  LET g == r.fields
               start == <<g.line0, g.col0>>
               end == <<g.line1, g.col1>>
           IN  PostInit(r) <=>
                    /\ g.file.val # "" /\ \A f \in DOMAIN g \ {"file"} : g[f].py = "int"
                    /\ IsPosition(start) /\ IsPosition(end) /\ ~ Before(end, start)
<1> DEFINE g == r.fields
<1>1. /\ DOMAIN g = {"file", "line0", "col0", "line1", "col1"}
      /\ \A f \in DOMAIN g : g[f] \in Values
      /\ \A f \in DOMAIN g : Fields["SourceSpan"][f].exactly = IF f = "file" THEN {"str"} ELSE {"int"}
  BY SpanFieldsAre
<1>2. PostInit(r) <=> /\ \A f \in DOMAIN g : TypeOf(g[f]) \in Fields["SourceSpan"][f].exactly /\ NonEmpty(g[f])
                      /\ SpanOrdered(g)
  BY DEF PostInit, InRange, IdClasses
<1>3. \A f \in DOMAIN g \ {"file"} : TypeOf(g[f]) = "int" <=> g[f].py = "int"
  BY <1>1, TypeTells DEF TypeOf, Leaves
<1>4. PostInit(r) <=> /\ g.file.val # "" /\ \A f \in DOMAIN g \ {"file"} : g[f].py = "int"
                      /\ SpanOrdered(g)
  <2>1. TypeOf(g.file) = "str" /\ (NonEmpty(g.file) <=> g.file.val # "")
    BY DEF TypeOf, NonEmpty
  <2>2. \A f \in DOMAIN g \ {"file"} : g[f].py = "int" => NonEmpty(g[f])
    BY DEF NonEmpty
  <2>3. (\A f \in DOMAIN g : TypeOf(g[f]) \in Fields["SourceSpan"][f].exactly /\ NonEmpty(g[f]))
            <=> g.file.val # "" /\ \A f \in DOMAIN g \ {"file"} : g[f].py = "int"
    BY <1>1, <1>3, <2>1, <2>2
  <2> QED
    BY <1>2, <2>3
<1>5. ASSUME \A f \in DOMAIN g \ {"file"} : g[f].py = "int"
      PROVE  SpanOrdered(g) <=> /\ IsPosition(<<g.line0, g.col0>>) /\ IsPosition(<<g.line1, g.col1>>)
                                /\ ~ Before(<<g.line1, g.col1>>, <<g.line0, g.col0>>)
  <2>1. \A f \in {"line0", "col0", "line1", "col1"} : g[f].val \in DOMAIN Number /\ Number[g[f].val] \in Int
    BY <1>1, <1>5, NumberAssumption
  <2>2. One.val \in DOMAIN Number /\ Number[One.val] \in Int
    BY NumberAssumption DEF One, Leaf
  <2> DEFINE a == g.line0
             b == g.line1
  <2>3. Leq(One, a) /\ ~ Less(b, a) => Leq(One, b)
    BY <2>1, <2>2 DEF Leq, Less
  <2> QED
    BY <2>3 DEF SpanOrdered, IsPosition, Before
<1> QED
  BY <1>4, <1>5

RecordsInv ==
    /\ CodecInv
    /\ phase = "arguments" => \E r \in Arguments : value = {r} /\ ann = Rec(r.cls)

LEMMA RecordsInit == Init => RecordsInv
BY CodecInit DEF Init, RecordsInv

LEMMA ConstructKeeps == RecordsInv /\ Construct => CodecInv'
<1> SUFFICES ASSUME RecordsInv, Construct PROVE CodecInv'
  OBVIOUS
<1>1. /\ phase = "arguments" /\ phase' = "encode"
      /\ UNCHANGED <<ann, value, doc, result, encoded, decoded>>
  BY DEF Construct
<1>2. PICK r \in Arguments : value = {r} /\ ann = Rec(r.cls)
  BY <1>1 DEF RecordsInv
<1>3. PostInit(r) /\ stack' = <<r>>
  BY <1>2 DEF Construct
<1>4. r \in Values /\ ann \in Annotations
  BY <1>2, <1>3, ArgumentsAssumption, UnionsAssumption
<1>5. stack' \in Seq(Values) /\ stack' # <<>> /\ stack'[1] = r
  BY <1>3, <1>4
<1> QED
  BY <1>1, <1>2, <1>4, <1>5 DEF CodecInv, RecordsInv

LEMMA RecordsStep == RecordsInv /\ [RecordsNext]_vars => RecordsInv'
<1>1. RecordsInv /\ Call => RecordsInv'
  BY DEF RecordsInv, CodecInv, Call
<1>2. RecordsInv /\ Construct => RecordsInv'
  BY ConstructKeeps DEF RecordsInv, Construct
<1>3. RecordsInv /\ Refuse => RecordsInv'
  BY DEF RecordsInv, CodecInv, Refuse
<1>4. RecordsInv /\ ReadRecord => RecordsInv'
  <2> SUFFICES ASSUME RecordsInv, NEW j \in Fragments, NEW c \in DOMAIN Schema, CallDecoder(j, Rec(c))
               PROVE  RecordsInv'
    BY DEF ReadRecord
  <2>1. IsCall(<<j, Rec(c)>>)
    BY FragmentsAreJson, UnionsAssumption DEF IsCall
  <2>2. CodecInv'
    BY <2>1, CallDecoderKeeps DEF RecordsInv
  <2> QED
    BY <2>2 DEF RecordsInv, CallDecoder
<1>5. RecordsInv /\ CodecStep => RecordsInv'
  <2>1. CodecStep => phase' # "arguments"
    BY DEF CodecStep, CallEncode, ReturnEncode, ToJson, CanonicalJsonBytes, Hand, CallDecode, ReturnDecode,
           FromJson
  <2> QED
    BY <2>1, CodecStepKeeps DEF RecordsInv
<1>6. RecordsInv /\ Forget => RecordsInv'
  BY ForgetKeeps DEF RecordsInv, Forget
<1>7. RecordsInv /\ UNCHANGED vars => RecordsInv'
  BY DEF RecordsInv, CodecInv, vars
<1> QED
  BY <1>1, <1>2, <1>3, <1>4, <1>5, <1>6, <1>7 DEF RecordsNext

(* Whatever documents are read, a record is decoded only of one that says  *)
(* just what it is, and every record in it has been through the checks of  *)
(* its constructor.                                                        *)
THEOREM RecordsAreStrict == RecordsSpec => []Strict
<1>1. RecordsInv => Strict
  BY StrictByTable DEF RecordsInv, CodecInv
<1> QED
  BY <1>1, RecordsInit, RecordsStep, PTL DEF RecordsSpec

(* Equality of records never crosses types: 1, True and 1.0 cannot stand   *)
(* in one another's place in a field or in an element of a field.          *)
THEOREM EqualRecordsAreAlike == RecordsSpec => []EqualIsAlike
<1>1. RecordsInv => EqualIsAlike
  BY EqualAreAlike DEF RecordsInv, EqualIsAlike
<1> QED
  BY <1>1, RecordsInit, RecordsStep, PTL DEF RecordsSpec

(* A SourceSpan can be made from any two positions of a file in reading    *)
(* order and from no other numbers.                                        *)
THEOREM SpansOfRanges == RecordsSpec => []SpansAreRanges
<1>1. RecordsInv => SpansAreRanges
  BY SpanIsRange DEF RecordsInv, SpansAreRanges
<1> QED
  BY <1>1, RecordsInit, RecordsStep, PTL DEF RecordsSpec

-----------------------------------------------------------------------------
(***************************************************************************)
(* No NaN in a record, and nothing to sort.                                *)
(***************************************************************************)
(* v is no NaN, nor has it a NaN for a part of its own.                    *)
Whole(v) ==
    /\ v # NaN /\ v.py \notin {"frozenset", "FrozenDict"}
    /\ v.py = "tuple" => \A x \in Parts(v) : x # NaN /\ x.py \notin {"tuple", "frozenset", "FrozenDict"}

(* A number that compares is no NaN.                                       *)
LEMMA ComparedIsNumber == \A v, w : Leq(v, w) => v # NaN /\ w # NaN
BY NumberAssumption DEF Leq

LEMMA FieldIsWhole ==
    ASSUME NEW r \in Arguments, PostInit(r), NEW f \in DOMAIN r.fields
    PROVE  Whole(r.fields[f])
<1> DEFINE v == r.fields[f]
<1>1. r.cls \in Classes /\ f \in DOMAIN Fields[r.cls] /\ v \in Values /\ TypeOf(v) \in Fields[r.cls][f].exactly
  BY ArgumentFields DEF PostInit
<1>2. InRange(r.cls, r.fields)
  BY DEF PostInit
<1>3. Strictly(r.cls, f)
  BY <1>1, FieldsAreStrict
<1>4. v # NaN
  <2> SUFFICES ASSUME v = NaN PROVE FALSE
    OBVIOUS
  <2>1. TypeOf(v) = "float"
    BY DEF NaN, Leaf, TypeOf
  <2>2. r.cls = "AiInferred" /\ f = "score"
    BY <1>1, <1>3, <2>1 DEF Strictly
  <2>3. ScoreInRange(r.fields)
    BY <1>2, <2>2 DEF InRange, IdClasses
  <2>4. Leq(v, One)
    BY <2>2, <2>3 DEF ScoreInRange
  <2> QED
    BY <2>4, ComparedIsNumber
<1>5. v.py \notin {"frozenset", "FrozenDict"}
  <2>1. TypeOf(v) \notin {"frozenset", "FrozenDict"}
    BY <1>1, <1>3 DEF Strictly
  <2> QED
    BY <2>1 DEF TypeOf
<1>6. ASSUME v.py = "tuple", NEW x \in Parts(v)
      PROVE  x # NaN /\ x.py \notin {"tuple", "frozenset", "FrozenDict"}
  <2>1. PICK i \in DOMAIN v.items : x = v.items[i]
    BY <1>6 DEF Parts, ToSet
  <2>2. CASE r.cls = "Measured" /\ f = "ci" /\ DOMAIN v.items = 1..2 /\ \A k \in 1..2 : v.items[k].py = "float"
    <3>1. MeasuredInRange(r.fields)
      BY <1>2, <2>2 DEF InRange, IdClasses
    <3>2. Leq(v.items[1], v.items[2])
      BY <2>2, <3>1 DEF MeasuredInRange
    <3>3. i = 1 \/ i = 2
      BY <2>1, <2>2
    <3> QED
      BY <2>1, <2>2, <3>2, <3>3, ComparedIsNumber
  <2>3. CASE \A k \in DOMAIN v.items : TypeOf(v.items[k]) = "EvidenceId"
    <3>1. TypeOf(x) = "EvidenceId"
      BY <2>1, <2>3
    <3>2. TypeOf(NaN) = "float"
      BY DEF NaN, Leaf, TypeOf
    <3> QED
      BY <3>1, <3>2 DEF TypeOf
  <2>4. \/ r.cls = "Measured" /\ f = "ci" /\ DOMAIN v.items = 1..2 /\ \A k \in 1..2 : v.items[k].py = "float"
        \/ \A k \in DOMAIN v.items : TypeOf(v.items[k]) = "EvidenceId"
    BY <1>6, TupleTypes
  <2> QED
    BY <2>2, <2>3, <2>4
<1> QED
  BY <1>4, <1>5, <1>6 DEF Whole

LEMMA PartIsWhole ==
    ASSUME NEW v \in Values, Whole(v), NEW x \in Parts(v)
    PROVE  Whole(x)
<1>1. v.py \in {"tuple", "record"}
  <2>1. v.py \in Forms
    BY ValueForms
  <2>2. v.py \notin {"frozenset", "FrozenDict"}
    BY DEF Whole
  <2> QED
    BY <2>1, <2>2 DEF Parts, Forms, Leaves
<1>2. CASE v.py = "tuple"
  BY <1>2 DEF Whole
<1>3. CASE v.py = "record"
  <2>1. v \in Arguments /\ PostInit(v)
    BY <1>3, RecordsAssumption, ValueForms, ArgumentsAssumption DEF IsValue
  <2>2. PICK f \in DOMAIN v.fields : x = v.fields[f]
    BY <1>3 DEF Parts
  <2> QED
    BY <2>1, <2>2, FieldIsWhole
<1> QED
  BY <1>1, <1>2, <1>3

LEMMA RecordIsWhole ==
    ASSUME NEW r \in Arguments
    PROVE  Whole(r)
<1>1. r.py = "record"
  BY ArgumentFields DEF Record
<1> QED
  BY <1>1 DEF Whole, NaN, Leaf

(* What has been and is being encoded has no NaN and nothing to sort, so   *)
(* it is encoded.                                                          *)
WholeInv ==
    /\ \A v \in DOMAIN encoded : encoded[v] # {}
    /\ phase = "idle" => value = {}
    /\ phase = "encode" => \A i \in 1..Len(stack) : Whole(stack[i])
    /\ phase = "decode" => doc # {} /\ value \subseteq DOMAIN encoded
    /\ Serializable

LEMMA WholeInit == Init => WholeInv
BY NoAnswersIsEmpty DEF Init, WholeInv, Serializable

(* The body of _encode does not raise for what is whole.                   *)
LEMMA WholeIsEncoded ==
    ASSUME NEW E, EncodedTable(E), \A x \in DOMAIN E : E[x] # {},
           NEW v \in Values, Whole(v), Raised(Parts(v), E) \/ Parts(v) \subseteq DOMAIN E, NEW order \in Orders(v)
    PROVE  Encode(v, order, E) # {}
<1>1. ~ Raised(Parts(v), E)
  BY DEF Raised
<1>2. Keys(v) = {}
  BY DEF Whole, Keys
<1>3. Ready(v, E)
  BY <1>1, <1>2 DEF Ready, Returns
<1>4. \A x \in Parts(v) : \A j \in E[x] : IsJson(j)
  BY <1>3 DEF Ready, EncodedTable
<1> QED
  BY <1>3, <1>4, EncodedIsJson DEF Whole

LEMMA CallEncodeWhole == RecordsInv /\ WholeInv /\ CallEncode => WholeInv'
<1> SUFFICES ASSUME RecordsInv, WholeInv, CallEncode PROVE WholeInv'
  OBVIOUS
<1> DEFINE parts == Parts(Last(stack))
           p == CHOOSE x \in parts \ DOMAIN encoded : TRUE
<1>1. /\ phase = "encode" /\ stack # <<>> /\ parts \ DOMAIN encoded # {} /\ stack' = Append(stack, p)
      /\ UNCHANGED <<ann, value, doc, result, phase, encoded, decoded>>
  BY DEF CallEncode
<1>2. stack \in Seq(Values) /\ Len(stack) \in Nat /\ Len(stack) # 0
  BY <1>1 DEF RecordsInv, CodecInv
<1>3. Last(stack) \in Values /\ Whole(Last(stack))
  BY <1>1, <1>2 DEF WholeInv, Last
<1>4. p \in parts
  BY <1>1
<1>5. Whole(p)
  BY <1>3, <1>4, PartIsWhole
<1> HIDE DEF p, parts
<1>6. \A i \in 1..Len(stack') : Whole(stack'[i])
  <2>1. \A i \in 1..Len(stack) : Whole(stack[i])
    BY <1>1 DEF WholeInv
  <2> SUFFICES ASSUME NEW i \in 1..Len(stack') PROVE Whole(stack'[i])
    OBVIOUS
  <2>2. \/ i \in 1..Len(stack) /\ stack'[i] = stack[i]
        \/ stack'[i] = p
    BY <1>1, <1>2
  <2> QED
    BY <1>5, <2>1, <2>2
<1> QED
  BY <1>1, <1>6 DEF WholeInv, Serializable

LEMMA FrontOfStack ==
    ASSUME NEW S, NEW s \in Seq(S), s # <<>>
    PROVE  Len(Front(s)) = Len(s) - 1 /\ \A i \in 1..Len(Front(s)) : Front(s)[i] = s[i]
<1> DEFINE n == Len(s) - 1
<1>1. n \in Nat /\ \A i \in 1..n : s[i] \in S
  OBVIOUS
<1> HIDE DEF n
<1>2. /\ Len(SubSeq(s, 1, n)) = IF 1 <= n THEN n - 1 + 1 ELSE 0
      /\ \A i \in 1..n - 1 + 1 : SubSeq(s, 1, n)[i] = s[1 + i - 1]
  BY <1>1, SubSeqProperties
<1>3. Front(s) = SubSeq(s, 1, n)
  BY DEF Front, n
<1>4. Len(Front(s)) = n
  BY <1>1, <1>2, <1>3
<1>5. ASSUME NEW i \in 1..n PROVE Front(s)[i] = s[i]
  <2>1. i \in 1..n - 1 + 1 /\ 1 + i - 1 = i
    BY <1>1
  <2>2. SubSeq(s, 1, n)[i] = s[1 + i - 1]
    BY <1>2, <2>1
  <2> QED
    BY <1>3, <2>1, <2>2
<1> QED
  BY <1>4, <1>5 DEF n

LEMMA ReturnEncodeWhole == RecordsInv /\ WholeInv /\ ReturnEncode => WholeInv'
<1> SUFFICES ASSUME RecordsInv, WholeInv, ReturnEncode PROVE WholeInv'
  OBVIOUS
<1> DEFINE v == Last(stack)
<1>1. /\ phase = "encode" /\ stack # <<>> /\ stack' = Front(stack)
      /\ Raised(Parts(v), encoded) \/ Parts(v) \subseteq DOMAIN encoded
      /\ UNCHANGED <<ann, value, doc, result, phase, decoded>>
  BY DEF ReturnEncode
<1>2. stack \in Seq(Values) /\ Len(stack) \in Nat /\ Len(stack) # 0
  BY <1>1 DEF RecordsInv, CodecInv
<1>3. v \in Values /\ Whole(v)
  BY <1>1, <1>2 DEF WholeInv, Last
<1>4. PICK order \in Orders(v) : encoded' = With(encoded, v, Encode(v, order, encoded))
  BY DEF ReturnEncode
<1> HIDE DEF v
<1>5. \A x \in DOMAIN encoded' : encoded'[x] # {}
  <2>1. EncodedTable(encoded) /\ \A x \in DOMAIN encoded : encoded[x] # {}
    BY DEF WholeInv, RecordsInv, CodecInv
  <2>2. Encode(v, order, encoded) # {}
    BY <1>1, <1>3, <2>1, WholeIsEncoded
  <2> QED
    BY <1>4, <2>1, <2>2 DEF With
<1>6. \A i \in 1..Len(stack') : Whole(stack'[i])
  <2>1. Len(stack') = Len(stack) - 1 /\ \A i \in 1..Len(stack') : stack'[i] = stack[i]
    BY <1>1, <1>2, FrontOfStack
  <2> QED
    BY <1>1, <1>2, <2>1 DEF WholeInv
<1> QED
  BY <1>1, <1>5, <1>6 DEF WholeInv, Serializable

LEMMA HandWhole ==
    ASSUME RecordsInv, WholeInv, phase = "encode", stack = <<>>, NEW v \in value, NEW document, Hand(document),
           document = encoded[v] \/ (document = {} /\ v \in Unwritable)
    PROVE  WholeInv'
<1>1. value \subseteq DOMAIN encoded /\ EncodedTable(encoded) /\ UNCHANGED <<value, encoded>>
  BY DEF Hand, RecordsInv, CodecInv
<1>2. \A w \in value : encoded[w] # {}
  BY <1>1 DEF WholeInv
<1>3. document = {} => \E x \in DOMAIN encoded : CannotBeWritten(x)
  BY <1>1, <1>2 DEF EncodedTable, MetUnwritable
<1>4. doc' = document /\ phase' = IF document = {} THEN "done" ELSE "decode"
  BY DEF Hand
<1> QED
  BY <1>1, <1>2, <1>3, <1>4 DEF WholeInv, Serializable

LEMMA ToJsonWhole == RecordsInv /\ WholeInv /\ (ToJson \/ CanonicalJsonBytes) => WholeInv'
BY HandWhole DEF ToJson, CanonicalJsonBytes

LEMMA WholeStep == RecordsInv /\ WholeInv /\ [RecordsNext]_vars => WholeInv'
<1>1. WholeInv /\ Call => WholeInv'
  BY DEF WholeInv, Serializable, Call
<1>2. RecordsInv /\ WholeInv /\ Construct => WholeInv'
  <2> SUFFICES ASSUME RecordsInv, WholeInv, Construct PROVE WholeInv'
    OBVIOUS
  <2>1. PICK r \in Arguments : stack' = <<r>> /\ phase' = "encode" /\ UNCHANGED encoded
    BY DEF Construct, RecordsInv
  <2>2. \A i \in 1..Len(stack') : Whole(stack'[i])
    BY <2>1, RecordIsWhole
  <2> QED
    BY <2>1, <2>2 DEF WholeInv, Serializable
<1>3. WholeInv /\ Refuse => WholeInv'
  BY DEF WholeInv, Serializable, Refuse
<1>4. WholeInv /\ ReadRecord => WholeInv'
  BY DEF WholeInv, Serializable, ReadRecord, CallDecoder
<1>5. WholeInv /\ CallDecode => WholeInv'
  BY DEF WholeInv, Serializable, CallDecode
<1>6. WholeInv /\ ReturnDecode => WholeInv'
  BY DEF WholeInv, Serializable, ReturnDecode
<1>7. WholeInv /\ FromJson => WholeInv'
  BY DEF WholeInv, Serializable, FromJson
<1>8. WholeInv /\ Forget => WholeInv'
  BY NoAnswersIsEmpty DEF WholeInv, Serializable, Forget
<1>9. WholeInv /\ UNCHANGED vars => WholeInv'
  BY DEF WholeInv, Serializable, vars
<1> QED
  BY <1>1, <1>2, <1>3, <1>4, <1>5, <1>6, <1>7, <1>8, <1>9, CallEncodeWhole, ReturnEncodeWhole, ToJsonWhole
     DEF RecordsNext, CodecStep

(* Every record that a constructor lets through can be encoded: the checks *)
(* of Measured and AiInferred leave no NaN for the encoder to find, and no *)
(* class has anything that is sorted.  What canonical_json_bytes cannot    *)
(* write has a str or an int that cannot be written.                       *)
THEOREM RecordsSerialize == RecordsSpec => []Serializable
<1>1. WholeInv => Serializable
  BY DEF WholeInv
<1> QED
  BY <1>1, WholeInit, WholeStep, RecordsInit, RecordsStep, PTL DEF RecordsSpec

-----------------------------------------------------------------------------
(***************************************************************************)
(* What a constructor lets through is of the annotation of its field.      *)
(***************************************************************************)
(* The annotation is one of all values of the type.                        *)
Takes(a, type) == \A v \in Values : TypeOf(v) = type => <<v, a>> \in Typed

LEMMA TakesLeaf ==
    ASSUME NEW a \in Annotations, NEW type \in Leaves, Target(a) = A(type)
    PROVE  Takes(a, type)
<1> SUFFICES ASSUME NEW v \in Values, TypeOf(v) = type PROVE <<v, a>> \in Typed
  BY DEF Takes
<1>1. v.py = type
  BY TypeTells
<1>2. Target(a).ann = type
  BY DEF A
<1>3. Fits(v, a, Typed)
  BY <1>1, <1>2 DEF Fits, Leaves
<1> QED
  BY <1>3, RecordsAssumption

LEMMA TakesMember ==
    ASSUME NEW a \in Annotations, NEW type, type \notin Classes \cup Forms, Target(a) = EnumOf(type)
    PROVE  Takes(a, type)
<1> SUFFICES ASSUME NEW v \in Values, TypeOf(v) = type PROVE <<v, a>> \in Typed
  BY DEF Takes
<1>1. v.py = "enum" /\ v.cls = type /\ v.name \in Members[v.cls]
  BY TypeTells
<1>2. Target(a).ann = "enum" /\ Target(a).cls = type
  BY DEF EnumOf
<1>3. Fits(v, a, Typed)
  BY <1>1, <1>2 DEF Fits
<1> QED
  BY <1>3, RecordsAssumption

LEMMA TakesRecord ==
    ASSUME NEW a \in Annotations, NEW type \in Classes, Target(a) = Rec(type), Takes(Rec(type), type)
    PROVE  Takes(a, type)
<1> SUFFICES ASSUME NEW v \in Values, TypeOf(v) = type PROVE <<v, a>> \in Typed
  BY DEF Takes
<1>1. Fits(v, Rec(type), Typed)
  BY TypedFits DEF Takes
<1>2. Target(Rec(type)) = Target(a)
  BY DEF Target, Rec
<1>3. Fits(v, a, Typed)
  BY <1>1, <1>2 DEF Fits
<1> QED
  BY <1>3, RecordsAssumption

LEMMA TakesMemberOfUnion ==
    ASSUME NEW a \in Annotations, NEW any, Target(a) = Union(any), NEW m \in any, NEW type, Takes(Target(m), type)
    PROVE  Takes(a, type)
<1> SUFFICES ASSUME NEW v \in Values, TypeOf(v) = type PROVE <<v, a>> \in Typed
  BY DEF Takes
<1>1. Target(a).ann = "union" /\ m \in Target(a).any
  BY DEF Union
<1>2. <<v, Target(m)>> \in Typed
  BY DEF Takes
<1>3. Fits(v, a, Typed)
  BY <1>1, <1>2 DEF Fits
<1> QED
  BY <1>3, RecordsAssumption

LEMMA MembersAreAnnotations ==
    ASSUME NEW a \in Annotations, NEW any, Target(a) = Union(any)
    PROVE  \A m \in any : Target(m) \in Annotations
<1>1. Target(a).ann = "union" /\ Target(a).any = any
  BY DEF Union
<1> QED
  BY <1>1, AnnotationForms DEF IsAnnotation

(* The field of every record that is accepted is of its annotation.        *)
FieldFits(c, f) ==
    \A r \in Arguments : r.cls = c /\ PostInit(r) => <<r.fields[f], Schema[c][f]>> \in Typed

LEMMA SchemaAnnotations ==
    ASSUME NEW c \in Classes, NEW f \in DOMAIN Fields[c]
    PROVE  Schema[c][f] = Fields[c][f].ann /\ Fields[c][f].ann \in Annotations
<1>1. IsAnnotation(Rec(c), Annotations)
  BY SchemaIs, UnionsAssumption, AnnotationForms
<1>2. Target(Rec(c)).ann = "record" /\ Target(Rec(c)).cls = c
  BY DEF Target, Rec
<1>3. Schema[c] \in [DOMAIN Schema[c] -> Annotations]
  BY <1>1, <1>2 DEF IsAnnotation
<1> QED
  BY <1>3, SchemaIs

LEMMA TakenFits ==
    ASSUME NEW c \in Classes, NEW f \in DOMAIN Fields[c],
           \A type \in Fields[c][f].exactly : Takes(Fields[c][f].ann, type)
    PROVE  FieldFits(c, f)
<1> SUFFICES ASSUME NEW r \in Arguments, r.cls = c, PostInit(r)
             PROVE  <<r.fields[f], Schema[c][f]>> \in Typed
  BY DEF FieldFits
<1>1. r.fields[f] \in Values /\ f \in DOMAIN r.fields
  BY ArgumentFields
<1>2. TypeOf(r.fields[f]) \in Fields[c][f].exactly
  BY <1>1 DEF PostInit
<1> QED
  BY <1>1, <1>2, SchemaAnnotations DEF Takes

LEMMA AcceptedFits ==
    ASSUME NEW c \in Classes, \A f \in DOMAIN Fields[c] : FieldFits(c, f),
           NEW r \in Arguments, r.cls = c, PostInit(r)
    PROVE  <<r, Rec(c)>> \in Typed
<1>1. r \in Values /\ r.py = "record" /\ DOMAIN r.fields = DOMAIN Fields[c]
  BY ArgumentFields, ArgumentsAssumption DEF Record
<1>2. \A f \in DOMAIN r.fields : <<r.fields[f], Schema[c][f]>> \in Typed
  BY <1>1 DEF FieldFits
<1>3. Target(Rec(c)).ann = "record" /\ Target(Rec(c)).cls = c /\ Rec(c) \in Annotations
  BY SchemaIs, UnionsAssumption DEF Target, Rec
<1>4. Fits(r, Rec(c), Typed)
  BY <1>1, <1>2, <1>3 DEF Fits
<1> QED
  BY <1>1, <1>3, <1>4, RecordsAssumption

LEMMA ClassFits ==
    ASSUME NEW c \in Classes, \A f \in DOMAIN Fields[c] : FieldFits(c, f)
    PROVE  Takes(Rec(c), c)
<1> SUFFICES ASSUME NEW v \in Values, TypeOf(v) = c PROVE <<v, Rec(c)>> \in Typed
  BY DEF Takes
<1>1. v.py = "record" /\ v.cls = c
  BY TypeTells
<1>2. v \in Arguments /\ Accepts(v)
  BY <1>1, RecordsAssumption, ValueForms DEF IsValue
<1>3. PostInit(v)
  BY <1>2, ArgumentsAssumption
<1> QED
  BY <1>1, <1>2, <1>3, AcceptedFits

LEMMA PlainFits ==
    ASSUME NEW c \in Classes, NEW f \in DOMAIN Fields[c], NEW type \in Leaves, Fields[c][f] = Plainly(type)
    PROVE  FieldFits(c, f)
<1>1. Fields[c][f].ann = A(type) /\ Fields[c][f].exactly = {type} /\ A(type) \in Annotations
  BY SchemaAnnotations DEF Plainly, Field
<1>2. Takes(A(type), type)
  BY <1>1, TakesLeaf DEF Target, A
<1> QED
  BY <1>1, <1>2, TakenFits

LEMMA MemberFits ==
    ASSUME NEW c \in Classes, NEW f \in DOMAIN Fields[c], NEW enum, enum \notin Classes \cup Forms,
           Fields[c][f] = MemberOf(enum)
    PROVE  FieldFits(c, f)
<1>1. Fields[c][f].ann = EnumOf(enum) /\ Fields[c][f].exactly = {enum} /\ EnumOf(enum) \in Annotations
  BY SchemaAnnotations DEF MemberOf, Field
<1>2. Takes(EnumOf(enum), enum)
  BY <1>1, TakesMember DEF Target, EnumOf
<1> QED
  BY <1>1, <1>2, TakenFits

LEMMA PartFits ==
    ASSUME NEW c \in Classes, NEW f \in DOMAIN Fields[c], NEW cls \in Classes, Takes(Rec(cls), cls),
           NEW a, Target(a) = Rec(cls), Fields[c][f] = Field(a, {cls})
    PROVE  FieldFits(c, f)
<1>1. Fields[c][f].ann = a /\ Fields[c][f].exactly = {cls} /\ a \in Annotations
  BY SchemaAnnotations DEF Field
<1>2. Takes(a, cls)
  BY <1>1, TakesRecord
<1> QED
  BY <1>1, <1>2, TakenFits

(* A field of a union, for the types of some of its members.               *)
LEMMA UnionFits ==
    ASSUME NEW c \in Classes, NEW f \in DOMAIN Fields[c], NEW a, NEW any, Target(a) = Union(any),
           NEW types, Fields[c][f] = Field(a, types),
           \A type \in types : \E m \in any : Takes(Target(m), type)
    PROVE  FieldFits(c, f)
<1>1. Fields[c][f].ann = a /\ Fields[c][f].exactly = types /\ a \in Annotations
  BY SchemaAnnotations DEF Field
<1>2. \A type \in types : Takes(a, type)
  BY <1>1, TakesMemberOfUnion
<1> QED
  BY <1>1, <1>2, TakenFits

Fitting(c) == \A f \in DOMAIN Fields[c] : FieldFits(c, f)

EnumNames == {"OverflowBehavior", "FpFormat", "RoundingMode", "ExceptionProfile", "PropertyName"}

LEMMA SimpleFits ==
    ASSUME NEW c \in Classes,
           \A f \in DOMAIN Fields[c] : \/ \E type \in Leaves : Fields[c][f] = Plainly(type)
                                       \/ \E enum \in EnumNames : Fields[c][f] = MemberOf(enum)
    PROVE  Fitting(c)
<1>1. \A enum \in EnumNames : enum \notin Classes \cup Forms
  BY DEF EnumNames, Forms, Leaves, Classes, IdClasses, ScopeClasses, DomainClasses, ClaimClasses, StatusClasses
<1> SUFFICES ASSUME NEW f \in DOMAIN Fields[c] PROVE FieldFits(c, f)
  BY DEF Fitting
<1>2. CASE \E type \in Leaves : Fields[c][f] = Plainly(type)
  BY <1>2, PlainFits
<1>3. CASE \E enum \in EnumNames : Fields[c][f] = MemberOf(enum)
  BY <1>1, <1>3, MemberFits
<1> QED
  BY <1>2, <1>3

(* The classes that have no parts.                                         *)
LEMMA NoPartsFit ==
    ASSUME NEW c \in IdClasses \cup {"Universal", "Value", "ArtifactRef", "SourceSpan", "MathematicalReal",
                                     "MathematicalComplex", "IntegerExact", "IEEE754", "Property", "Equivalence",
                                     "Bundled", "Assumed", "StaticallyDerived", "Predicted", "AiInferred"}
    PROVE  c \in Classes /\ Fitting(c)
<1> DEFINE Simple(cls) ==
        \A f \in DOMAIN Fields[cls] : \/ \E type \in Leaves : Fields[cls][f] = Plainly(type)
                                      \/ \E enum \in EnumNames : Fields[cls][f] = MemberOf(enum)
<1> USE FieldsAre DEF Leaves, EnumNames
<1>1. CASE c \in IdClasses
  BY <1>1, SimpleFits DEF Classes, IdFields
<1>2. CASE c \in {"Universal", "Value"}
  <2>1. Simple(c) /\ c \in Classes
    BY <1>2 DEF ScopeFields, None, ScopeClasses, Classes
  <2> QED
    BY <2>1, SimpleFits
<1>3. CASE c \in {"ArtifactRef", "SourceSpan"}
  <2>1. Simple(c) /\ c \in Classes
    BY <1>3 DEF ArtifactFields, SpanFields, Classes
  <2> QED
    BY <2>1, SimpleFits
<1>4. CASE c \in {"MathematicalReal", "MathematicalComplex", "IntegerExact", "IEEE754"}
  <2>1. Simple(c) /\ c \in Classes
    BY <1>4 DEF DomainFields, None, DomainClasses, Classes
  <2> QED
    BY <2>1, SimpleFits
<1>5. CASE c \in {"Property", "Equivalence"}
  <2>1. Simple(c) /\ c \in Classes
    BY <1>5 DEF ClaimFields, ClaimClasses, Classes
  <2> QED
    BY <2>1, SimpleFits
<1>6. CASE c = "Bundled"
  <2>1. Simple(c) /\ c \in Classes
    BY <1>6 DEF EvidenceFields, None, Classes
  <2> QED
    BY <2>1, SimpleFits
<1>7. CASE c \in {"Assumed", "StaticallyDerived", "Predicted", "AiInferred"}
  <2>1. Simple(c) /\ c \in Classes
    BY <1>7 DEF StatusFields, StatusClasses, Classes
  <2> QED
    BY <2>1, SimpleFits
<1> QED
  BY <1>1, <1>2, <1>3, <1>4, <1>5, <1>6, <1>7

LEMMA TargetOfAlias == \A a : Target(Alias(a)) = Target(a)
<1> SUFFICES ASSUME NEW a PROVE Target(Alias(a)) = Target(a)
  OBVIOUS
<1>1. Target(a) = [x \in DOMAIN a |-> IF x = "aliases" THEN 0 ELSE a[x]]
  BY DEF Target
<1>2. Alias(a) = [x \in DOMAIN a |-> IF x = "aliases" THEN a.aliases + 1 ELSE a[x]]
  BY DEF Alias
<1>3. Target(Alias(a)) = [x \in DOMAIN Alias(a) |-> IF x = "aliases" THEN 0 ELSE Alias(a)[x]]
  BY DEF Target
<1> QED
  BY <1>1, <1>2, <1>3

LEMMA TargetOfUnion == \A any : Target(Union(any)) = Union(any) /\ Target(Alias(Union(any))) = Union(any)
<1>1. \A any : Target(Union(any)) = Union(any)
  BY DEF Target, Union
<1> QED
  BY <1>1, TargetOfAlias

LEMMA TargetOfRecord == \A c : Target(Rec(c)) = Rec(c) /\ Target(Alias(Rec(c))) = Rec(c)
<1>1. \A c : Target(Rec(c)) = Rec(c)
  BY DEF Target, Rec
<1> QED
  BY <1>1, TargetOfAlias

LEMMA TargetOfLeaf == \A name : Target(A(name)) = A(name)
BY DEF Target, A

LEMMA ValidityFits == Fitting("Validity")
<1> DEFINE any == {A("str"), NoneType}
<1> SUFFICES ASSUME NEW f \in DOMAIN Fields["Validity"] PROVE FieldFits("Validity", f)
  BY DEF Fitting
<1>1. "Validity" \in Classes /\ Fields["Validity"][f] = Field(Union(any), {"None", "str"})
  BY FieldsAre DEF ScopeFields, Optional, ScopeClasses, Classes
<1>2. Union(any) \in Annotations
  <2>1. Fields["Validity"][f].ann \in Annotations
    BY <1>1, SchemaAnnotations
  <2> QED
    BY <1>1, <2>1 DEF Field
<1>3. Target(A("str")) \in Annotations /\ Target(NoneType) \in Annotations
  BY <1>2, TargetOfUnion, MembersAreAnnotations
<1>4. Takes(Target(A("str")), "str") /\ Takes(Target(NoneType), "None")
  BY <1>3, TargetOfLeaf, TakesLeaf DEF NoneType, Leaves
<1>5. \A type \in {"None", "str"} : \E m \in any : Takes(Target(m), type)
  BY <1>4
<1> QED
  BY <1>1, <1>5, TargetOfUnion, UnionFits

LEMMA MeasuredFits == Fitting("Measured")
<1> SUFFICES ASSUME NEW f \in DOMAIN Fields["Measured"] PROVE FieldFits("Measured", f)
  BY DEF Fitting
<1>1. "Measured" \in Classes /\ f \in {"machine", "n", "ci"}
  BY FieldsAre DEF StatusFields, StatusClasses, Classes
<1>2. CASE f \in {"machine", "n"}
  <2>1. \E type \in Leaves : Fields["Measured"][f] = Plainly(type)
    BY <1>2, FieldsAre DEF StatusFields, StatusClasses, Leaves
  <2> QED
    BY <1>1, <2>1, PlainFits
<1>3. CASE f = "ci"
  <2> DEFINE a == Fixed(<<A("float"), A("float")>>)
  <2>1. Fields["Measured"][f].ann = a
    BY <1>3, FieldsAre DEF StatusFields, StatusClasses, Field
  <2>2. a \in Annotations /\ Schema["Measured"][f] = a
    BY <1>1, <2>1, SchemaAnnotations
  <2>3. Target(a).ann = "fixed" /\ Target(a).each = <<A("float"), A("float")>>
    BY DEF Target, Fixed
  <2> HIDE DEF a
  <2>4. <<A("float"), A("float")>> \in Seq(Annotations)
    BY <2>2, <2>3, AnnotationForms DEF IsAnnotation
  <2>5. A("float") \in Annotations
    BY <2>4, ElementOfSeq
  <2>6. Takes(A("float"), "float")
    BY <2>5, TargetOfLeaf, TakesLeaf DEF Leaves
  <2> SUFFICES ASSUME NEW r \in Arguments, r.cls = "Measured", PostInit(r)
               PROVE  <<r.fields[f], a>> \in Typed
    BY <2>2 DEF FieldFits
  <2> DEFINE v == r.fields[f]
  <2>7. f \in DOMAIN r.fields /\ v \in Values
    BY ArgumentFields
  <2>8. v.py = "tuple"
    <3>1. TypeOf(v) \in {"tuple"}
      BY <1>3, <2>7, FieldsAre DEF PostInit, StatusFields, StatusClasses, Field
    <3> QED
      BY <2>7, <3>1, TypeTells
  <2>9. v.items \in Seq(Values) /\ Len(v.items) = 2 /\ DOMAIN v.items = 1..2 /\ \A i \in 1..2 : v.items[i].py = "float"
    BY <2>7, <2>8, TupleTypes
  <2>10. Len(v.items) = 2 /\ \A i \in 1..2 : v.items[i] \in Values /\ TypeOf(v.items[i]) = "float"
    <3>1. \A i \in 1..2 : v.items[i] \in Values
      BY <2>9
    <3> QED
      BY <2>9, <3>1 DEF TypeOf
  <2>11. \A i \in 1..2 : <<v.items[i], A("float")>> \in Typed
    BY <2>6, <2>10 DEF Takes
  <2>12. Fits(v, a, Typed)
    BY <2>3, <2>8, <2>9, <2>10, <2>11 DEF Fits
  <2> QED
    BY <2>2, <2>7, <2>12, RecordsAssumption
<1> QED
  BY <1>1, <1>2, <1>3

(* The classes whose parts have no parts.                                  *)
LEMMA PartsFit ==
    ASSUME NEW c \in {"Scope", "ContractNumeric", "Specified", "SmtProved", "FormallyProved", "RuntimeChecked"}
    PROVE  c \in Classes /\ Fitting(c)
<1> DEFINE Below == IdClasses \cup {"Universal", "Value", "ArtifactRef", "Bundled"}
<1>1. \A cls \in Below : cls \in Classes /\ Takes(Rec(cls), cls)
  BY NoPartsFit, ClassFits DEF Fitting
<1>2. c \in Classes
  BY DEF Classes, ScopeClasses, DomainClasses, StatusClasses
<1>3. ASSUME NEW f \in DOMAIN Fields[c],
             \/ \E type \in Leaves : Fields[c][f] = Plainly(type)
             \/ \E cls \in Below, a \in {Rec(b) : b \in Below} \cup {Alias(Rec(b)) : b \in Below} :
                    Target(a) = Rec(cls) /\ Fields[c][f] = Field(a, {cls})
      PROVE  FieldFits(c, f)
  BY <1>1, <1>2, <1>3, PlainFits, PartFits
<1> DEFINE Of1(cls, f) == \/ \E type \in Leaves : Fields[cls][f] = Plainly(type)
                          \/ \E b \in Below : Fields[cls][f] \in {Part(b), Field(Alias(Rec(b)), {b})}
<1>4. ASSUME NEW f \in DOMAIN Fields[c] PROVE Of1(c, f)
  <2> USE FieldsAre DEF Leaves, IdClasses
  <2>1. CASE c = "Scope"
    BY <2>1 DEF ScopeFields, ScopeClasses
  <2>2. CASE c = "ContractNumeric"
    BY <2>2 DEF DomainFields, DomainClasses
  <2>3. CASE c \in {"Specified", "SmtProved", "FormallyProved", "RuntimeChecked"}
    BY <2>3 DEF StatusFields, StatusClasses
  <2> QED
    BY <2>1, <2>2, <2>3
<1> HIDE DEF Below
<1>5. ASSUME NEW f \in DOMAIN Fields[c] PROVE FieldFits(c, f)
  <2>1. CASE \E type \in Leaves : Fields[c][f] = Plainly(type)
    BY <1>3, <2>1
  <2>2. ASSUME NEW b \in Below, Fields[c][f] \in {Part(b), Field(Alias(Rec(b)), {b})}
        PROVE  FieldFits(c, f)
    BY <1>3, <2>2, TargetOfRecord DEF Part
  <2> QED
    BY <1>4, <2>1, <2>2
<1> QED
  BY <1>2, <1>5 DEF Fitting

LEMMA DomainsFit == \A c \in DomainClasses : c \in Classes /\ Takes(Rec(c), c)
BY NoPartsFit, PartsFit, ClassFits DEF DomainClasses, Fitting

LEMMA StatusesFit == \A c \in StatusClasses : c \in Classes /\ Takes(Rec(c), c)
<1>1. "Measured" \in Classes /\ Takes(Rec("Measured"), "Measured")
  BY MeasuredFits, ClassFits DEF Fitting, Classes, StatusClasses
<1> QED
  BY <1>1, NoPartsFit, PartsFit, ClassFits DEF StatusClasses, Fitting

LEMMA PartOfFits ==
    ASSUME NEW c \in Classes, NEW f \in DOMAIN Fields[c], NEW cls \in Classes, Fitting(cls),
           Fields[c][f] = Part(cls)
    PROVE  FieldFits(c, f)
<1>1. Takes(Rec(cls), cls)
  BY ClassFits DEF Fitting
<1> QED
  BY <1>1, TargetOfRecord, PartFits DEF Part

LEMMA ClaimKeyFits == "ClaimKey" \in Classes /\ Fitting("ClaimKey")
<1>1. "ClaimKey" \in Classes /\ DOMAIN Fields["ClaimKey"] = {"stmt", "domain"}
      /\ DOMAIN DomainFields = DomainClasses
  BY FieldsAre, ModuleClasses DEF ClaimFields, ClaimClasses, Classes
<1>2. FieldFits("ClaimKey", "stmt")
  <2> DEFINE any == {Rec("Property"), Rec("Equivalence")}
             types == {"Property", "Equivalence"}
  <2>1. Fields["ClaimKey"]["stmt"] = Field(Alias(Union(any)), types)
    BY FieldsAre DEF ClaimFields, ClaimClasses
  <2>2. ASSUME NEW type \in types PROVE Rec(type) \in any /\ Takes(Target(Rec(type)), type)
    BY NoPartsFit, ClassFits, TargetOfRecord DEF Fitting
  <2> HIDE DEF any, types
  <2>3. \A type \in types : \E m \in any : Takes(Target(m), type)
    BY <2>2
  <2> QED
    BY <1>1, <2>1, <2>3, TargetOfUnion, UnionFits
<1>3. FieldFits("ClaimKey", "domain")
  <2> DEFINE any == {SemanticDomain, NoneType}
             domains == {Rec(c) : c \in DomainClasses}
             types == DomainClasses \cup {"None"}
  <2>1. Fields["ClaimKey"]["domain"] = Field(Union(any), types)
    BY <1>1, FieldsAre DEF ClaimFields, ClaimClasses, Optional
  <2>2. Union(any) \in Annotations
    <3>1. Fields["ClaimKey"]["domain"].ann \in Annotations
      BY <1>1, SchemaAnnotations
    <3> QED
      BY <2>1, <3>1 DEF Field
  <2>3. Target(SemanticDomain) \in Annotations /\ Target(NoneType) \in Annotations
    BY <2>2, TargetOfUnion, MembersAreAnnotations
  <2>4. Target(SemanticDomain) = Union(domains) /\ Target(Target(SemanticDomain)) = Union(domains)
    BY <1>1, TargetOfUnion DEF SemanticDomain
  <2>5. ASSUME NEW type \in DomainClasses PROVE Takes(Target(SemanticDomain), type)
    <3>1. Rec(type) \in domains /\ Takes(Target(Rec(type)), type)
      BY DomainsFit, TargetOfRecord
    <3> HIDE DEF domains
    <3> QED
      BY <2>3, <2>4, <3>1, TakesMemberOfUnion
  <2>6. Takes(Target(NoneType), "None")
    BY <2>3, TargetOfLeaf, TakesLeaf DEF NoneType, Leaves
  <2>7. \A type \in types : \E m \in any : Takes(Target(m), type)
    BY <2>5, <2>6
  <2> HIDE DEF any, types
  <2> QED
    BY <1>1, <2>1, <2>7, TargetOfUnion, UnionFits
<1> QED
  BY <1>1, <1>2, <1>3 DEF Fitting

LEMMA ClaimFits == "Claim" \in Classes /\ Fitting("Claim")
<1>1. /\ "Claim" \in Classes /\ DOMAIN Fields["Claim"] = {"id", "key", "scope"}
      /\ Fields["Claim"]["id"] = Part("ClaimId") /\ Fields["Claim"]["key"] = Part("ClaimKey")
      /\ Fields["Claim"]["scope"] = Part("Scope")
  BY FieldsAre DEF ClaimFields, ClaimClasses, Classes
<1>2. "ClaimId" \in Classes /\ Fitting("ClaimId") /\ "Scope" \in Classes /\ Fitting("Scope")
  BY NoPartsFit, PartsFit DEF IdClasses
<1>3. FieldFits("Claim", "id") /\ FieldFits("Claim", "key") /\ FieldFits("Claim", "scope")
  BY <1>1, <1>2, ClaimKeyFits, PartOfFits
<1> QED
  BY <1>1, <1>3 DEF Fitting

LEMMA EvidenceFits == "Evidence" \in Classes /\ Fitting("Evidence")
<1>1. /\ "Evidence" \in Classes
      /\ DOMAIN Fields["Evidence"] = {"id", "claim", "status", "provenance", "scope", "validity", "artifact"}
      /\ Fields["Evidence"]["id"] = Part("EvidenceId") /\ Fields["Evidence"]["claim"] = Part("ClaimId")
      /\ Fields["Evidence"]["scope"] = Part("Scope") /\ Fields["Evidence"]["validity"] = Part("Validity")
      /\ Fields["Evidence"]["artifact"] = Part("ArtifactRef")
  BY FieldsAre DEF EvidenceFields, Classes
<1>2. /\ "ClaimId" \in Classes /\ Fitting("ClaimId") /\ "EvidenceId" \in Classes /\ Fitting("EvidenceId")
      /\ "ArtifactRef" \in Classes /\ Fitting("ArtifactRef") /\ "Scope" \in Classes /\ Fitting("Scope")
      /\ "Validity" \in Classes /\ Fitting("Validity")
  BY NoPartsFit, PartsFit, ValidityFits DEF IdClasses, Classes, ScopeClasses
<1>3. \A f \in {"id", "claim", "scope", "validity", "artifact"} : FieldFits("Evidence", f)
  BY <1>1, <1>2, PartOfFits
<1>4. FieldFits("Evidence", "status")
  <2> DEFINE any == {Rec(c) : c \in StatusClasses}
  <2>1. Fields["Evidence"]["status"] = Field(Alias(Union(any)), StatusClasses)
    BY FieldsAre, ModuleClasses DEF EvidenceFields
  <2>2. ASSUME NEW type \in StatusClasses PROVE Rec(type) \in any /\ Takes(Target(Rec(type)), type)
    BY StatusesFit, TargetOfRecord
  <2> HIDE DEF any
  <2>3. \A type \in StatusClasses : \E m \in any : Takes(Target(m), type)
    BY <2>2
  <2> QED
    BY <1>1, <2>1, <2>3, TargetOfUnion, UnionFits
<1>5. FieldFits("Evidence", "provenance")
  <2> DEFINE a == Of("tuple", Rec("EvidenceId"))
  <2>1. Fields["Evidence"]["provenance"] = Field(a, {"tuple"})
    BY FieldsAre DEF EvidenceFields
  <2>2. a \in Annotations /\ Schema["Evidence"]["provenance"] = a
    <3>1. Fields["Evidence"]["provenance"].ann \in Annotations
          /\ Schema["Evidence"]["provenance"] = Fields["Evidence"]["provenance"].ann
      BY <1>1, SchemaAnnotations
    <3> QED
      BY <2>1, <3>1 DEF Field
  <2>3. Target(a).ann = "tuple" /\ Target(a).of = Rec("EvidenceId")
    BY DEF Target, Of
  <2> HIDE DEF a
  <2>4. Takes(Rec("EvidenceId"), "EvidenceId")
    BY <1>2, ClassFits DEF Fitting
  <2> SUFFICES ASSUME NEW r \in Arguments, r.cls = "Evidence", PostInit(r)
               PROVE  <<r.fields["provenance"], a>> \in Typed
    BY <2>2 DEF FieldFits
  <2> DEFINE v == r.fields["provenance"]
  <2>5. "provenance" \in DOMAIN r.fields /\ v \in Values
    BY <1>1, ArgumentFields
  <2>6. v.py = "tuple"
    <3>1. TypeOf(v) \in {"tuple"}
      BY <2>1, <2>5 DEF PostInit, Field
    <3> QED
      BY <2>5, <3>1, TypeTells
  <2>7. v.items \in Seq(Values) /\ \A i \in DOMAIN v.items : TypeOf(v.items[i]) = "EvidenceId"
    BY <2>5, <2>6, TupleTypes
  <2>8. \A i \in DOMAIN v.items : v.items[i] \in Values
    BY <2>7
  <2>9. \A i \in DOMAIN v.items : <<v.items[i], Rec("EvidenceId")>> \in Typed
    BY <2>4, <2>7, <2>8 DEF Takes
  <2>10. Fits(v, a, Typed)
    BY <2>3, <2>6, <2>9 DEF Fits
  <2> QED
    BY <2>2, <2>5, <2>10, RecordsAssumption
<1> QED
  BY <1>1, <1>3, <1>4, <1>5 DEF Fitting

LEMMA AllFit == \A c \in Classes : Fitting(c)
BY NoPartsFit, PartsFit, ValidityFits, MeasuredFits, ClaimKeyFits, ClaimFits, EvidenceFits
   DEF Classes, ScopeClasses, DomainClasses, ClaimClasses, StatusClasses

LEMMA ConstructTrip == RecordsInv /\ TripInv /\ Construct => TripInv'
<1> SUFFICES ASSUME RecordsInv, TripInv, Construct PROVE TripInv'
  OBVIOUS
<1>1. /\ phase = "arguments" /\ phase' = "encode"
      /\ UNCHANGED <<ann, value, doc, result, encoded, decoded>>
  BY DEF Construct
<1>2. PICK r \in Arguments : value = {r} /\ ann = Rec(r.cls)
  BY <1>1 DEF RecordsInv
<1>3. PostInit(r) /\ r.cls \in Classes
  BY <1>2, ArgumentFields DEF Construct
<1>4. <<r, Rec(r.cls)>> \in Typed
  BY <1>3, AllFit, AcceptedFits DEF Fitting
<1> QED
  BY <1>1, <1>2, <1>4 DEF TripInv

(* Every record that its constructor accepts is read back as it was: what  *)
(* __post_init__ lets into a field is what the annotation of the field, by *)
(* which the codec decodes it, stands for.                                 *)
THEOREM RecordsRoundTrip == RecordsSpec => []RoundTrip
<1>1. TripInv => RoundTrip
  BY DEF TripInv, RoundTrip
<1>2. RecordsInv /\ TripInv /\ [RecordsNext]_vars => TripInv'
  <2>1. TripInv /\ Call => TripInv'
    BY DEF TripInv, Call
  <2>2. TripInv /\ Refuse => TripInv'
    BY DEF TripInv, Refuse
  <2>3. TripInv /\ ReadRecord => TripInv'
    BY CallDecoderTrip DEF ReadRecord
  <2>4. RecordsInv /\ TripInv /\ CodecStep => TripInv'
    BY CodecStepTrip, UnionsAssumption DEF RecordsInv
  <2>5. TripInv /\ UNCHANGED vars => TripInv'
    BY DEF TripInv, OnTheWay, vars
  <2> QED
    BY <2>1, <2>2, <2>3, <2>4, <2>5, ConstructTrip, ForgetTrip DEF RecordsNext
<1> QED
  BY <1>1, <1>2, TripInit, RecordsInit, RecordsStep, PTL DEF RecordsSpec
=============================================================================
