------------------------ MODULE ObjectGraphTheorems ------------------------
(***************************************************************************)
(* Facts about reachability and deep immutability in an object graph.      *)
(* They hold for every graph, finite or not.                               *)
(***************************************************************************)
EXTENDS ObjectGraph, TLAPS

Graph(N) == [N -> [kind : Kinds, kids : Seq(N)]]

(* The references of an object are objects of the graph. *)
LEMMA SuccType ==
    ASSUME NEW N, NEW h \in Graph(N), NEW n \in N
    PROVE  Succ(h, n) \subseteq N
BY DEF Graph, Succ

(* An object reaches itself. *)
LEMMA ReachSelf ==
    ASSUME NEW N, NEW h \in Graph(N), NEW n \in N
    PROVE  n \in Reach(h, n) /\ Reach(h, n) \subseteq N
BY DEF Graph, Reach

(* What is reached is closed under one more reference. *)
LEMMA ReachStep ==
    ASSUME NEW N, NEW h \in Graph(N), NEW n \in N,
           NEW m \in Reach(h, n), NEW k \in Succ(h, m)
    PROVE  k \in Reach(h, n)
<1>1. k \in N
  BY SuccType DEF Graph, Reach
<1> QED
  BY <1>1 DEF Graph, Reach, Closed

(* Reach is the least closed set around its start. *)
LEMMA ReachLeast ==
    ASSUME NEW N, NEW h \in Graph(N), NEW n \in N,
           NEW S \in SUBSET N, n \in S, Closed(h, S)
    PROVE  Reach(h, n) \subseteq S
BY DEF Graph, Reach

(* Reachability is transitive. *)
LEMMA ReachTransitive ==
    ASSUME NEW N, NEW h \in Graph(N), NEW n \in N, NEW m \in Reach(h, n)
    PROVE  Reach(h, m) \subseteq Reach(h, n)
<1>1. m \in N /\ Reach(h, n) \subseteq N
  BY ReachSelf
<1>2. Closed(h, Reach(h, n))
  BY ReachStep DEF Closed
<1> QED
  BY <1>1, <1>2, ReachLeast

(* Everything reached is the start itself or is reached from one of its    *)
(* references.                                                             *)
LEMMA ReachUnfold ==
    ASSUME NEW N, NEW h \in Graph(N), NEW n \in N, NEW m \in Reach(h, n), m # n
    PROVE  \E k \in Succ(h, n) : m \in Reach(h, k)
<1> DEFINE S == {n} \cup UNION {Reach(h, k) : k \in Succ(h, n)}
<1>1. S \subseteq N
  BY SuccType, ReachSelf
<1>2. Closed(h, S)
  <2> SUFFICES ASSUME NEW x \in S, NEW y \in Succ(h, x)
               PROVE  y \in S
    BY DEF Closed
  <2>1. CASE x = n
    BY <2>1, SuccType, ReachSelf
  <2>2. CASE x # n
    <3>1. PICK k \in Succ(h, n) : x \in Reach(h, k)
      BY <2>2
    <3> QED
      BY <3>1, SuccType, ReachStep
  <2> QED
    BY <2>1, <2>2
<1>3. Reach(h, n) \subseteq S
  BY <1>1, <1>2, ReachLeast
<1> QED
  BY <1>3

(* Part of a deeply immutable object is deeply immutable. *)
LEMMA PartDeeplyImmutable ==
    ASSUME NEW N, NEW h \in Graph(N), NEW n \in N, DeeplyImmutable(h, n),
           NEW m \in Reach(h, n)
    PROVE  DeeplyImmutable(h, m)
BY ReachTransitive DEF DeeplyImmutable

(* A container whose references are all deeply immutable is so itself: no  *)
(* cycle can close through it.                                             *)
LEMMA ContainerDeeplyImmutable ==
    ASSUME NEW N, NEW h \in Graph(N), NEW n \in N, Recursed(h, n),
           \A k \in Succ(h, n) : DeeplyImmutable(h, k)
    PROVE  DeeplyImmutable(h, n)
<1> SUFFICES ASSUME NEW m \in Reach(h, n)
             PROVE  ~ Offending(h, m)
  BY DEF DeeplyImmutable
<1>1. CASE m = n
  <2> SUFFICES ASSUME NEW k \in Succ(h, n), n \in Reach(h, k)
               PROVE  FALSE
    BY <1>1 DEF Offending, OnCycle
  <2>1. ~ Offending(h, n)
    BY DEF DeeplyImmutable
  <2> QED
    BY <2>1 DEF Offending, OnCycle
<1>2. CASE m # n
  BY <1>2, ReachUnfold DEF DeeplyImmutable
<1> QED
  BY <1>1, <1>2

(***************************************************************************)
(* The certificate a depth-first walk leaves behind: a set of containers   *)
(* closed up to leaves, in which every non-empty part has a member that    *)
(* refers to none of the part.                                             *)
(***************************************************************************)
Settled(h, seen, n) == IsLeaf(h, n) \/ n \in seen

Certificate(h, seen) ==
    /\ \A n \in seen : Recursed(h, n) /\ \A k \in Succ(h, n) : Settled(h, seen, k)
    /\ \A S \in SUBSET seen : S # {} => \E n \in S : Succ(h, n) \cap S = {}

(* A leaf is deeply immutable and reaches nothing else. *)
LEMMA LeafReach ==
    ASSUME NEW N, NEW h \in Graph(N), NEW n \in N, IsLeaf(h, n)
    PROVE  Reach(h, n) = {n} /\ DeeplyImmutable(h, n)
<1>1. Succ(h, n) = {}
  BY DEF Succ, IsLeaf, Recursed
<1>2. Reach(h, n) = {n}
  BY <1>1, ReachSelf, ReachUnfold
<1> QED
  BY <1>1, <1>2 DEF DeeplyImmutable, Offending, OnCycle

(* Whatever a certificate covers is deeply immutable. *)
LEMMA CertificateSound ==
    ASSUME NEW N, NEW h \in Graph(N), NEW seen \in SUBSET N,
           Certificate(h, seen), NEW n \in N, Settled(h, seen, n)
    PROVE  DeeplyImmutable(h, n)
<1>0. CASE IsLeaf(h, n)
  BY <1>0, LeafReach
<1>1. CASE n \in seen
  <2> DEFINE Covered == {x \in N : Settled(h, seen, x)}
  <2>1. Closed(h, Covered)
    <3> SUFFICES ASSUME NEW x \in Covered, NEW y \in Succ(h, x)
                 PROVE  y \in Covered
      BY DEF Closed
    <3>1. y \in N
      BY SuccType
    <3>2. ~ IsLeaf(h, x)
      BY DEF Succ, IsLeaf, Recursed
    <3> QED
      BY <3>1, <3>2 DEF Settled, Certificate
  <2>2. Reach(h, n) \subseteq Covered
    BY <1>1, <2>1, ReachLeast DEF Settled
  <2> SUFFICES ASSUME NEW m \in Reach(h, n)
               PROVE  ~ Offending(h, m)
    BY DEF DeeplyImmutable
  <2>3. CASE IsLeaf(h, m)
    BY <2>2, <2>3, LeafReach DEF Offending, OnCycle, Succ, IsLeaf, Recursed
  <2>4. CASE m \in seen
    <3> SUFFICES ASSUME NEW k \in Succ(h, m), m \in Reach(h, k)
                 PROVE  FALSE
      BY <2>4 DEF Offending, OnCycle, Certificate
    <3> DEFINE S == {x \in seen : m \in Reach(h, x)}
    <3>1. k \in N /\ Settled(h, seen, k)
      BY <2>4, SuccType DEF Certificate
    <3>2. k \in seen
      <4> SUFFICES ASSUME IsLeaf(h, k) PROVE FALSE
        BY <3>1 DEF Settled
      <4>1. m = k
        BY <3>1, LeafReach
      <4> QED
        BY <4>1, <2>4 DEF Certificate, IsLeaf, Recursed
    <3>3. PICK x \in S : Succ(h, x) \cap S = {}
      <4>1. k \in S
        BY <3>2
      <4> HIDE DEF S
      <4>2. S # {}
        BY <4>1
      <4>3. S \in SUBSET seen
        BY DEF S
      <4> QED
        BY <4>2, <4>3 DEF Certificate
    <3>4. CASE x = m
      BY <3>2, <3>3, <3>4
    <3>5. CASE x # m
      <4>1. PICK y \in Succ(h, x) : m \in Reach(h, y)
        BY <3>5, ReachUnfold
      <4>2. y \in N /\ Settled(h, seen, y)
        BY SuccType DEF Certificate
      <4>3. CASE IsLeaf(h, y)
        <5>1. m = y
          BY <4>1, <4>2, <4>3, LeafReach
        <5> QED
          BY <5>1, <4>3, <2>4 DEF Certificate, IsLeaf, Recursed
      <4>4. CASE y \in seen
        BY <4>1, <4>4, <3>3
      <4> QED
        BY <4>2, <4>3, <4>4 DEF Settled
    <3> QED
      BY <3>4, <3>5
  <2> QED
    BY <2>2, <2>3, <2>4 DEF Settled
<1> QED
  BY <1>0, <1>1 DEF Settled

(* A container whose references are settled extends a certificate. *)
LEMMA CertificateExtends ==
    ASSUME NEW N, NEW h \in Graph(N), NEW seen \in SUBSET N,
           Certificate(h, seen), NEW n \in N, n \notin seen, Recursed(h, n),
           \A k \in Succ(h, n) : Settled(h, seen, k)
    PROVE  Certificate(h, seen \cup {n})
<1>0. n \notin Succ(h, n)
  BY DEF Settled, IsLeaf, Recursed
<1>1. \A x \in seen : n \notin Succ(h, x)
  BY DEF Certificate, Settled, IsLeaf, Recursed
<1>2. ASSUME NEW x \in seen \cup {n}
      PROVE  Recursed(h, x) /\ \A k \in Succ(h, x) : Settled(h, seen \cup {n}, k)
  BY DEF Certificate, Settled
<1>3. ASSUME NEW S \in SUBSET (seen \cup {n}), S # {}
      PROVE  \E x \in S : Succ(h, x) \cap S = {}
  <2> DEFINE T == S \ {n}
  <2>1. CASE T = {}
    BY <1>0, <1>3, <2>1
  <2>2. CASE T # {}
    <3>1. T \in SUBSET seen
      OBVIOUS
    <3>2. PICK x \in T : Succ(h, x) \cap T = {}
      <4> HIDE DEF T
      <4> QED
        BY <2>2, <3>1 DEF Certificate
    <3> QED
      BY <3>1, <3>2, <1>1
  <2> QED
    BY <2>1, <2>2
<1> QED
  BY <1>2, <1>3 DEF Certificate

(* Reachability and deep immutability of an object depend only on the part *)
(* of the graph it reaches: other objects may change, and new ones appear. *)
LEMMA ReachLocal ==
    ASSUME NEW N, NEW h \in Graph(N), NEW N2, NEW h2 \in Graph(N2), N \subseteq N2,
           NEW n \in N, \A m \in Reach(h, n) : h2[m] = h[m]
    PROVE  Reach(h2, n) = Reach(h, n)
<1>1. \A m \in Reach(h, n) : Succ(h2, m) = Succ(h, m)
  BY DEF Succ, Recursed
<1>2. Reach(h, n) \in SUBSET N2 /\ n \in Reach(h, n) /\ Reach(h, n) \subseteq N
  BY ReachSelf
<1>3. Closed(h2, Reach(h, n))
  BY <1>1, ReachStep DEF Closed
<1>4. Reach(h2, n) \subseteq Reach(h, n)
  BY <1>2, <1>3, ReachLeast
<1>5. n \in Reach(h2, n)
  BY ReachSelf
<1>6. Closed(h, Reach(h2, n))
  BY <1>1, <1>4, ReachStep DEF Closed
<1>7. Reach(h, n) \subseteq Reach(h2, n)
  BY <1>2, <1>4, <1>5, <1>6, ReachLeast
<1> QED
  BY <1>4, <1>7

(* Deep immutability survives changes elsewhere in the graph. *)
LEMMA DeeplyImmutableLocal ==
    ASSUME NEW N, NEW h \in Graph(N), NEW N2, NEW h2 \in Graph(N2), N \subseteq N2,
           NEW n \in N, \A m \in Reach(h, n) : h2[m] = h[m],
           DeeplyImmutable(h, n)
    PROVE  DeeplyImmutable(h2, n)
<1>1. Reach(h2, n) = Reach(h, n)
  BY ReachLocal
<1> SUFFICES ASSUME NEW m \in Reach(h, n)
             PROVE  ~ Offending(h2, m)
  BY <1>1 DEF DeeplyImmutable
<1>2. ~ Offending(h, m) /\ h2[m] = h[m]
  BY DEF DeeplyImmutable
<1>3. Succ(h2, m) = Succ(h, m) /\ m \in N
  BY <1>2, ReachSelf DEF Succ, Recursed
<1>4. ASSUME NEW k \in Succ(h, m)
      PROVE  Reach(h2, k) = Reach(h, k)
  <2>1. k \in Reach(h, n) /\ k \in N
    BY <1>3, ReachStep, SuccType
  <2>2. Reach(h, k) \subseteq Reach(h, n)
    BY <2>1, ReachTransitive
  <2> QED
    BY <2>1, <2>2, ReachLocal
<1> QED
  BY <1>2, <1>3, <1>4 DEF Offending, OnCycle, IsLeaf, Recursed
=============================================================================
