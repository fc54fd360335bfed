-------------------------- MODULE FrozenHeapProofs --------------------------
(***************************************************************************)
(* One validation at construction is enough: for every number of objects   *)
(* and every order of allocations and mutations, a frozen record stays     *)
(* deeply immutable, and when Enum payloads are immutable nothing it holds *)
(* ever changes.                                                           *)
(***************************************************************************)
EXTENDS FrozenHeap, ObjectGraphTheorems, SequenceTheorems

Typed == heap \in Graph(1..Len(heap)) /\ heap \in Seq([kind : Kinds, kids : Seq(Nat)])

(* What Enum members hold is deeply immutable, if the program wants it so. *)
PayloadsStayValid ==
    ~ MutablePayloads =>
        \A n \in Allocated : IsLeaf(heap, n) => \A k \in Held(heap, n) : DeeplyImmutable(heap, k)

IInv == Typed /\ PayloadsStayValid /\ RecordsStayValid

Mutables == {"named", "dataclass", "unknown"}

(* A step appends an object or overwrites a mutable one. *)
Appended(kind, kids) ==
    /\ kind \in Kinds
    /\ kids \in Seq(Allocated)
    /\ heap' = Append(heap, [kind |-> kind, kids |-> kids])
    /\ (kind = "leaf" /\ ~ MutablePayloads) \/ kind = "record"
          => \A i \in 1..Len(kids) : DeeplyImmutable(heap, kids[i])

Overwritten(n, kids) ==
    /\ heap[n].kind \in Mutables
    /\ kids \in Seq(Allocated)
    /\ heap' = [heap EXCEPT ![n] = [kind |-> @.kind, kids |-> kids]]

(* References an action may choose are sequences of allocated objects. *)
LEMMA ReferencesAreSeqs == References \subseteq Seq(Allocated)
BY BoundsAssumption DEF References

(* Every step of the program appends one object or overwrites a mutable one. *)
LEMMA StepKinds ==
    ASSUME Typed, Next
    PROVE  \/ \E kind \in Kinds, kids \in Seq(Allocated) : Appended(kind, kids)
           \/ \E n \in Allocated, kids \in Seq(Allocated) : Overwritten(n, kids)
<1>0. References \subseteq Seq(Allocated)
  BY ReferencesAreSeqs
<1>1. CASE NewLeaf
  <2>1. Appended("leaf", <<>>)
    BY <1>1, EmptySeq DEF NewLeaf, Allocate, Appended, Kinds
  <2>2. "leaf" \in Kinds /\ <<>> \in Seq(Allocated)
    BY EmptySeq DEF Kinds
  <2> QED
    BY <2>1, <2>2
<1>2. CASE NewEnumMember
  <2>1. PICK payload \in Allocated :
            /\ MutablePayloads \/ DeeplyImmutable(heap, payload)
            /\ Allocate("leaf", <<payload>>)
    BY <1>2 DEF NewEnumMember
  <2>2. "leaf" \in Kinds /\ <<payload>> \in Seq(Allocated)
    BY DEF Kinds
  <2>3. Appended("leaf", <<payload>>)
    BY <2>1, <2>2 DEF Allocate, Appended
  <2> QED
    BY <2>2, <2>3
<1>3. CASE NewMutable
  <2>1. PICK kind \in Mutables, kids \in References : Allocate(kind, kids)
    BY <1>3 DEF NewMutable, Mutables
  <2>2. kind \in Kinds /\ kids \in Seq(Allocated) /\ kind # "leaf" /\ kind # "record"
    BY <1>0 DEF Kinds, Mutables
  <2>3. Appended(kind, kids)
    BY <2>1, <2>2 DEF Allocate, Appended
  <2> QED
    BY <2>2, <2>3
<1>4. CASE NewContainer
  <2>1. PICK kids \in References : Allocate("frozen", kids)
    BY <1>4 DEF NewContainer
  <2>2. "frozen" \in Kinds /\ kids \in Seq(Allocated)
    BY <1>0 DEF Kinds
  <2>3. Appended("frozen", kids)
    BY <2>1, <2>2 DEF Allocate, Appended
  <2> QED
    BY <2>2, <2>3
<1>5. CASE NewRecord
  <2>1. PICK kids \in References :
            /\ \A i \in 1..Len(kids) : DeeplyImmutable(heap, kids[i])
            /\ Allocate("record", kids)
    BY <1>5 DEF NewRecord
  <2>2. "record" \in Kinds /\ kids \in Seq(Allocated)
    BY <1>0 DEF Kinds
  <2>3. Appended("record", kids)
    BY <2>1, <2>2 DEF Allocate, Appended
  <2> QED
    BY <2>2, <2>3
<1>6. CASE Mutate
  <2>1. PICK n \in Allocated, kids \in References :
            /\ heap[n].kind \in Mutables
            /\ heap' = [heap EXCEPT ![n] = [kind |-> @.kind, kids |-> kids]]
    BY <1>6 DEF Mutate, Mutables
  <2>2. kids \in Seq(Allocated)
    BY <1>0
  <2>3. Overwritten(n, kids)
    BY <2>1, <2>2 DEF Overwritten
  <2> QED
    BY <2>2, <2>3
<1> QED
  BY <1>1, <1>2, <1>3, <1>4, <1>5, <1>6 DEF Next

(* What an object holds are objects of the heap. *)
LEMMA HeldType ==
    ASSUME NEW N, NEW h \in Graph(N), NEW n \in N
    PROVE  Held(h, n) \subseteq N
<1>1. h[n].kids \in Seq(N)
  BY DEF Graph
<1> QED
  BY <1>1 DEF Held

(* Objects are numbered in the order of their allocation. *)
LEMMA DomainIsInterval ==
    ASSUME Typed
    PROVE  Allocated = 1..Len(heap) /\ Len(heap) \in Nat
BY DEF Typed, Allocated

(* No step touches an object below a deeply immutable one.                 *)
LEMMA StepKeepsImmutable ==
    ASSUME Typed, Next
    PROVE  /\ Typed'
           /\ Allocated \subseteq Allocated'
           /\ \A n \in Allocated : DeeplyImmutable(heap, n) =>
                 \A m \in Reach(heap, n) : heap'[m] = heap[m]
<1>0. Allocated = 1..Len(heap) /\ Len(heap) \in Nat
  BY DomainIsInterval
<1>1. ASSUME NEW kind, NEW kids, Appended(kind, kids)
      PROVE  /\ Typed'
             /\ Allocated \subseteq Allocated'
             /\ \A m \in Allocated : heap'[m] = heap[m]
  <2> DEFINE o == [kind |-> kind, kids |-> kids]
             O == [kind : Kinds, kids : Seq(Nat)]
  <2>1. kids \in Seq(Nat) /\ kids \in Seq(1..Len(heap)) /\ kids \in Seq(1..(Len(heap) + 1))
    BY <1>0, <1>1 DEF Appended
  <2>2. o \in O /\ heap \in Seq(O)
    BY <1>1, <2>1 DEF Appended, Typed
  <2>3. /\ heap' \in Seq(O)
        /\ Len(heap') = Len(heap) + 1
        /\ \A i \in 1..Len(heap) : heap'[i] = heap[i]
        /\ heap'[Len(heap) + 1] = o
    <3> HIDE DEF O, o
    <3> QED
      BY <1>1, <2>2, AppendProperties DEF Appended, o
  <2>4. DOMAIN heap' = 1..(Len(heap) + 1)
    BY <2>3
  <2>5. ASSUME NEW i \in 1..(Len(heap) + 1)
        PROVE  heap'[i] \in [kind : Kinds, kids : Seq(1..(Len(heap) + 1))]
    <3>1. CASE i = Len(heap) + 1
      BY <1>1, <2>1, <2>3, <3>1 DEF Appended
    <3>2. CASE i \in 1..Len(heap)
      <4>1. heap[i] \in [kind : Kinds, kids : Seq(1..Len(heap))]
        BY <3>2 DEF Typed, Graph
      <4>2. Seq(1..Len(heap)) \subseteq Seq(1..(Len(heap) + 1))
        BY <1>0
      <4> QED
        BY <2>3, <3>2, <4>1, <4>2
    <3> QED
      BY <1>0, <3>1, <3>2
  <2>6. heap' \in [1..(Len(heap) + 1) -> [kind : Kinds, kids : Seq(1..(Len(heap) + 1))]]
    BY <2>3, <2>4, <2>5
  <2> QED
    BY <1>0, <2>3, <2>4, <2>6 DEF Typed, Graph, Allocated
<1>2. ASSUME NEW x \in Allocated, NEW kids, Overwritten(x, kids)
      PROVE  /\ Typed'
             /\ Allocated \subseteq Allocated'
             /\ \A m \in Allocated : m # x => heap'[m] = heap[m]
  <2> DEFINE o == [kind |-> heap[x].kind, kids |-> kids]
             O == [kind : Kinds, kids : Seq(Nat)]
  <2>1. heap' = [heap EXCEPT ![x] = o]
    BY <1>2 DEF Overwritten
  <2>2. kids \in Seq(Nat) /\ kids \in Seq(1..Len(heap)) /\ heap[x].kind \in Kinds
    BY <1>0, <1>2 DEF Overwritten, Typed, Graph
  <2>3. o \in O /\ heap \in Seq(O) /\ o \in [kind : Kinds, kids : Seq(1..Len(heap))]
    BY <2>2 DEF Typed
  <2>4. heap' \in Seq(O) /\ Len(heap') = Len(heap)
    <3> HIDE DEF O, o
    <3> QED
      BY <1>0, <2>1, <2>3, ExceptSeq
  <2>5. heap' \in Graph(1..Len(heap)) /\ DOMAIN heap' = DOMAIN heap
    BY <2>1, <2>3 DEF Typed, Graph
  <2>6. \A m \in Allocated : m # x => heap'[m] = heap[m]
    BY <2>1 DEF Allocated
  <2> QED
    BY <2>4, <2>5, <2>6 DEF Typed, Allocated
<1>3. ASSUME NEW n \in Allocated, DeeplyImmutable(heap, n)
      PROVE  \A m \in Reach(heap, n) : m \in Allocated /\ heap[m].kind \notin Mutables
  <2>1. heap \in Graph(Allocated)
    BY <1>0 DEF Typed
  <2>2. Reach(heap, n) \subseteq Allocated
    BY <2>1, ReachSelf
  <2> QED
    BY <1>3, <2>2 DEF DeeplyImmutable, Offending, IsLeaf, Recursed, Mutables
<1>4. CASE \E kind \in Kinds, kids \in Seq(Allocated) : Appended(kind, kids)
  BY <1>1, <1>3, <1>4
<1>5. CASE \E x \in Allocated, kids \in Seq(Allocated) : Overwritten(x, kids)
  <2>1. PICK x \in Allocated, kids \in Seq(Allocated) : Overwritten(x, kids)
    BY <1>5
  <2>2. ASSUME NEW n \in Allocated, DeeplyImmutable(heap, n), NEW m \in Reach(heap, n)
        PROVE  heap'[m] = heap[m]
    <3>1. m \in Allocated /\ m # x
      BY <1>3, <2>1, <2>2 DEF Overwritten
    <3> QED
      BY <1>2, <2>1, <3>1
  <2> QED
    BY <1>2, <2>1, <2>2
<1> QED
  BY <1>4, <1>5, StepKinds

-----------------------------------------------------------------------------
(* Validation survives every step.                                         *)

(* The empty heap satisfies the invariant. *)
LEMMA InvInit == Init => IInv
<1> SUFFICES ASSUME Init PROVE IInv
  OBVIOUS
<1>1. heap = <<>> /\ Len(heap) = 0 /\ DOMAIN heap = {}
  BY DEF Init
<1> QED
  BY <1>1, EmptySeq DEF IInv, Typed, PayloadsStayValid, RecordsStayValid, Records, Allocated, Graph

(* Appending an object or overwriting a mutable one preserves the invariant. *)
LEMMA InvNext ==
    ASSUME IInv, [Next]_vars
    PROVE  IInv'
<1>1. CASE UNCHANGED vars
  BY <1>1 DEF vars, IInv, Typed, PayloadsStayValid, RecordsStayValid, Records, Allocated
<1>2. CASE Next
  <2>0. /\ Typed /\ Typed'
        /\ Allocated = 1..Len(heap) /\ Allocated' = 1..Len(heap') /\ Len(heap) \in Nat
        /\ heap \in Graph(Allocated) /\ heap' \in Graph(Allocated')
        /\ Allocated \subseteq Allocated'
    BY <1>2, StepKeepsImmutable, DomainIsInterval DEF IInv, Typed, Allocated
  <2>1. ASSUME NEW n \in Allocated, DeeplyImmutable(heap, n)
        PROVE  DeeplyImmutable(heap', n)
    <3>1. \A m \in Reach(heap, n) : heap'[m] = heap[m]
      BY <1>2, <2>1, StepKeepsImmutable DEF IInv
    <3>2. /\ heap \in Graph(Allocated) /\ heap' \in Graph(Allocated')
          /\ Allocated \subseteq Allocated'
      BY <2>0
    <3> QED
      BY <2>1, <3>1, <3>2, DeeplyImmutableLocal
  <2>2. CASE \E kind \in Kinds, kids \in Seq(Allocated) : Appended(kind, kids)
    <3>1. PICK kind \in Kinds, kids \in Seq(Allocated) : Appended(kind, kids)
      BY <2>2
    <3> DEFINE o == [kind |-> kind, kids |-> kids]
               O == [kind : Kinds, kids : Seq(Nat)]
               new == Len(heap) + 1
    <3>2. /\ Len(heap') = new
          /\ \A i \in Allocated : heap'[i] = heap[i]
          /\ heap'[new] = o
      <4>1. kids \in Seq(Nat)
        BY <2>0
      <4>2. o \in O /\ heap \in Seq(O)
        BY <4>1 DEF IInv, Typed
      <4> HIDE DEF o, O
      <4> QED
        BY <2>0, <3>1, <4>2, AppendProperties DEF Appended, o
    <3>3. Allocated' = Allocated \cup {new} /\ new \in Allocated'
      BY <2>0, <3>2
    <3>4. PayloadsStayValid'
      <4> SUFFICES ASSUME ~ MutablePayloads, NEW n \in Allocated', heap'[n].kind = "leaf",
                          NEW k \in Held(heap', n)
                   PROVE  DeeplyImmutable(heap', k)
        BY DEF PayloadsStayValid, IsLeaf
      <4>1. CASE n \in Allocated
        <5>1. k \in Held(heap, n) /\ heap[n].kind = "leaf"
          BY <3>2, <4>1 DEF Held
        <5>2. k \in Allocated /\ DeeplyImmutable(heap, k)
          BY <2>0, <4>1, <5>1, HeldType DEF IInv, PayloadsStayValid, IsLeaf
        <5> QED
          BY <2>1, <5>2
      <4>2. CASE n = new
        <5>1. heap'[new].kind = kind /\ heap'[new].kids = kids
          BY <3>2
        <5>2. PICK i \in 1..Len(kids) : k = kids[i]
          BY <4>2, <5>1 DEF Held
        <5>3. k \in Allocated /\ DeeplyImmutable(heap, k)
          BY <3>1, <4>2, <5>1, <5>2 DEF Appended
        <5> QED
          BY <2>1, <5>3
      <4> QED
        BY <3>3, <4>1, <4>2
    <3>5. kind = "record" => DeeplyImmutable(heap', new)
      <4> SUFFICES ASSUME kind = "record" PROVE DeeplyImmutable(heap', new)
        OBVIOUS
      <4>1. heap'[new].kind = "record" /\ heap'[new].kids = kids
        BY <3>2
      <4>2. ASSUME NEW k \in Succ(heap', new)
            PROVE  DeeplyImmutable(heap', k)
        <5>1. PICK i \in 1..Len(kids) : k = kids[i]
          BY <4>1 DEF Succ, Recursed
        <5>2. k \in Allocated /\ DeeplyImmutable(heap, k)
          BY <3>1, <5>1 DEF Appended
        <5> QED
          BY <2>1, <5>2
      <4> QED
        BY <2>0, <3>3, <4>1, <4>2, ContainerDeeplyImmutable DEF Recursed
    <3>6. RecordsStayValid'
      <4> SUFFICES ASSUME NEW n \in Allocated', heap'[n].kind = "record"
                   PROVE  DeeplyImmutable(heap', n)
        BY DEF RecordsStayValid, Records
      <4>1. CASE n \in Allocated
        BY <2>1, <3>2, <4>1 DEF IInv, RecordsStayValid, Records
      <4>2. CASE n = new
        BY <3>2, <3>5, <4>2
      <4> QED
        BY <3>3, <4>1, <4>2
    <3> QED
      BY <2>0, <3>4, <3>6 DEF IInv
  <2>3. CASE \E x \in Allocated, kids \in Seq(Allocated) : Overwritten(x, kids)
    <3>1. PICK x \in Allocated, kids \in Seq(Allocated) : Overwritten(x, kids)
      BY <2>3
    <3>2. heap' = [heap EXCEPT ![x] = [kind |-> heap[x].kind, kids |-> kids]]
      BY <3>1 DEF Overwritten
    <3>3. /\ Allocated' = Allocated
          /\ \A n \in Allocated : heap'[n].kind = heap[n].kind
          /\ \A n \in Allocated : n # x => heap'[n] = heap[n]
          /\ heap[x].kind # "leaf"
      BY <2>0, <3>1, <3>2 DEF Allocated, Graph, Overwritten, Mutables
    <3>4. PayloadsStayValid'
      <4> SUFFICES ASSUME ~ MutablePayloads, NEW n \in Allocated, heap'[n].kind = "leaf",
                          NEW k \in Held(heap', n)
                   PROVE  DeeplyImmutable(heap', k)
        BY <3>3 DEF PayloadsStayValid, IsLeaf
      <4>1. k \in Held(heap, n) /\ heap[n].kind = "leaf"
        BY <3>3 DEF Held
      <4>2. k \in Allocated /\ DeeplyImmutable(heap, k)
        BY <2>0, <4>1, HeldType DEF IInv, PayloadsStayValid, IsLeaf
      <4> QED
        BY <2>1, <4>2
    <3>5. RecordsStayValid'
      BY <2>1, <3>3 DEF IInv, RecordsStayValid, Records
    <3> QED
      BY <2>0, <3>4, <3>5 DEF IInv
  <2> QED
    BY <1>2, <2>0, <2>2, <2>3, StepKinds
<1> QED
  BY <1>1, <1>2

(* The invariant holds of the heap for ever. *)
THEOREM Invariance == Spec => []IInv
BY InvInit, InvNext, PTL DEF Spec

(* The heap stays within its bound. *)
LEMMA BoundKept ==
    ASSUME Typed, Len(heap) <= MaxObjects, [Next]_vars
    PROVE  Len(heap') <= MaxObjects
<1> DEFINE O == [kind : Kinds, kids : Seq(Nat)]
<1>0. heap \in Seq(O) /\ Len(heap) \in Nat /\ Allocated = 1..Len(heap)
  BY DomainIsInterval DEF Typed
<1>1. CASE UNCHANGED vars
  BY <1>1 DEF vars
<1>2. ASSUME NEW kind, NEW kids, Allocate(kind, kids)
      PROVE  Len(heap') <= MaxObjects
  <2>1. Len(heap') = Len(heap) + 1
    BY <1>0, <1>2 DEF Allocate
  <2> QED
    BY <1>0, <1>2, <2>1, BoundsAssumption DEF Allocate
<1>3. CASE Mutate
  <2>1. PICK n \in Allocated, kids \in References :
            heap' = [heap EXCEPT ![n] = [kind |-> @.kind, kids |-> kids]]
    BY <1>3 DEF Mutate
  <2>2. Len(heap') = Len(heap)
    BY <1>0, <2>1
  <2> QED
    BY <2>2
<1> QED
  BY <1>1, <1>2, <1>3 DEF Next, NewLeaf, NewEnumMember, NewMutable, NewContainer, NewRecord

(* Every reference, in a record or anywhere else, is to an allocated       *)
(* object, and the heap stays within its bound.                            *)
THEOREM TypeCorrect == Spec => []TypeOK
<1>1. Init => Len(heap) <= MaxObjects
  BY BoundsAssumption DEF Init
<1>2. IInv /\ Len(heap) <= MaxObjects /\ [Next]_vars => (Len(heap) <= MaxObjects)'
  BY BoundKept DEF IInv
<1>3. ASSUME IInv, Len(heap) <= MaxObjects
      PROVE  TypeOK
  <2> DEFINE O == [kind : Kinds, kids : Seq(Allocated)]
  <2>1. Allocated = 1..Len(heap) /\ Len(heap) \in Nat
    BY <1>3, DomainIsInterval DEF IInv, Typed
  <2>2. heap \in [1..Len(heap) -> O]
    BY <1>3, <2>1 DEF IInv, Typed, Graph
  <2>3. heap \in Seq(O)
    <3> HIDE DEF O
    <3> QED
      BY <2>1, <2>2
  <2> QED
    BY <1>3, <2>3 DEF TypeOK
<1>4. IInv /\ Len(heap) <= MaxObjects => TypeOK
  BY <1>3
<1> QED
  BY <1>1, <1>2, <1>4, Invariance, PTL DEF Spec

(* Records validated by their __post_init__ stay deeply immutable, however *)
(* the rest of the program's objects are mutated and linked to each other. *)
THEOREM RecordsRemainValid == Spec => []RecordsStayValid
<1>1. IInv => RecordsStayValid
  BY DEF IInv
<1> QED
  BY <1>1, Invariance, PTL

(* What is held is what is reached, through Enum members too.              *)
LEMMA HeldReachSelf ==
    ASSUME NEW N, NEW h \in Graph(N), NEW n \in N
    PROVE  /\ n \in HeldReach(h, n) /\ HeldReach(h, n) \subseteq N
           /\ \A m \in HeldReach(h, n) : Held(h, m) \subseteq HeldReach(h, n)
<1>1. DOMAIN h = N /\ \A m \in N : Held(h, m) \subseteq N
  BY HeldType DEF Graph
<1> QED
  BY <1>1 DEF HeldReach

(* When Enum payloads are deeply immutable, all that a deeply immutable    *)
(* object holds is.                                                        *)
LEMMA HeldDeeplyImmutable ==
    ASSUME NEW N, NEW h \in Graph(N), NEW n \in N, DeeplyImmutable(h, n),
           \A m \in N : IsLeaf(h, m) => \A k \in Held(h, m) : DeeplyImmutable(h, k)
    PROVE  \A m \in HeldReach(h, n) : DeeplyImmutable(h, m)
<1> DEFINE S == {m \in N : DeeplyImmutable(h, m)}
<1>1. DOMAIN h = N /\ S \in SUBSET N /\ n \in S
  BY DEF Graph
<1>2. ASSUME NEW m \in S
      PROVE  Held(h, m) \subseteq S
  <2>1. m \in N /\ Held(h, m) \subseteq N /\ m \in Reach(h, m)
    BY HeldType, ReachSelf
  <2>2. CASE IsLeaf(h, m)
    BY <2>1, <2>2
  <2>3. CASE Recursed(h, m)
    <3>1. ASSUME NEW k \in Held(h, m)
          PROVE  DeeplyImmutable(h, k)
      <4>1. k \in Succ(h, m)
        BY <2>3 DEF Held, Succ
      <4>2. k \in Reach(h, m)
        BY <2>1, <4>1, ReachStep
      <4> QED
        BY <2>1, <4>2, PartDeeplyImmutable
    <3> QED
      BY <2>1, <3>1
  <2> QED
    BY <2>1, <2>2, <2>3 DEF DeeplyImmutable, Offending
<1>3. HeldReach(h, n) \subseteq S
  <2> HIDE DEF S
  <2> QED
    BY <1>1, <1>2 DEF HeldReach
<1> QED
  BY <1>3

(* What an object holds is found again in a heap that agrees on it.        *)
LEMMA HeldReachLocal ==
    ASSUME NEW N, NEW h \in Graph(N), NEW N2, NEW h2 \in Graph(N2), N \subseteq N2,
           NEW n \in N, \A m \in HeldReach(h, n) : h2[m] = h[m]
    PROVE  HeldReach(h2, n) = HeldReach(h, n)
<1> DEFINE R == HeldReach(h, n)
<1>0. DOMAIN h = N /\ DOMAIN h2 = N2
  BY DEF Graph
<1>1. n \in R /\ R \subseteq N /\ \A m \in R : Held(h, m) \subseteq R
  BY HeldReachSelf
<1>2. \A m \in R : Held(h2, m) = Held(h, m)
  BY DEF Held
<1> HIDE DEF R
<1>3. HeldReach(h2, n) \subseteq R
  <2>1. R \in SUBSET N2 /\ \A m \in R : Held(h2, m) \subseteq R
    BY <1>1, <1>2
  <2> QED
    BY <1>0, <1>1, <2>1 DEF HeldReach
<1>4. ASSUME NEW m \in R, NEW S \in SUBSET N2,
             n \in S, \A x \in S : Held(h2, x) \subseteq S
      PROVE  m \in S
  <2>1. S \cap R \in SUBSET N /\ n \in S \cap R
    BY <1>1, <1>4
  <2>2. \A x \in S \cap R : Held(h, x) \subseteq S \cap R
    BY <1>1, <1>2, <1>4
  <2>3. m \in S \cap R
    BY <1>0, <2>1, <2>2 DEF HeldReach, R
  <2> QED
    BY <2>3
<1>5. R \subseteq HeldReach(h2, n)
  BY <1>0, <1>1, <1>4 DEF HeldReach
<1> QED
  BY <1>3, <1>5 DEF R

(* As long as Enum payloads are immutable, a frozen record holds nothing   *)
(* mutable at any depth.                                                   *)
THEOREM NothingMutable == ~ MutablePayloads /\ Spec => []NothingMutableHeld
<1> SUFFICES ASSUME ~ MutablePayloads
             PROVE  Spec => []NothingMutableHeld
  OBVIOUS
<1>1. ASSUME IInv
      PROVE  NothingMutableHeld
  <2> SUFFICES ASSUME NEW n \in Records, NEW m \in HeldReach(heap, n)
               PROVE  IsLeaf(heap, m) \/ Recursed(heap, m)
    BY DEF NothingMutableHeld
  <2>1. heap \in Graph(Allocated) /\ n \in Allocated /\ m \in Allocated
    BY <1>1, DomainIsInterval, HeldReachSelf DEF IInv, Typed, Records
  <2>2. DeeplyImmutable(heap, m)
    BY <1>1, <2>1, HeldDeeplyImmutable DEF IInv, PayloadsStayValid, RecordsStayValid
  <2> QED
    BY <2>1, <2>2, ReachSelf DEF DeeplyImmutable, Offending
<1>2. IInv => NothingMutableHeld
  BY <1>1
<1> QED
  BY <1>2, Invariance, PTL

(* As long as Enum payloads are immutable, no step changes anything a      *)
(* frozen record holds at any depth.                                       *)
THEOREM RecordsAreFrozen == ~ MutablePayloads /\ Spec => RecordsStayFrozen
<1> SUFFICES ASSUME ~ MutablePayloads
             PROVE  Spec => RecordsStayFrozen
  OBVIOUS
<1>1. ASSUME IInv, [Next]_vars
      PROVE  [\A n \in Records : Contents(heap', n) = Contents(heap, n)]_vars
  <2> SUFFICES ASSUME Next, NEW n \in Records
               PROVE  Contents(heap', n) = Contents(heap, n)
    BY <1>1
  <2>1. /\ Typed /\ Typed'
        /\ heap \in Graph(Allocated) /\ heap' \in Graph(Allocated')
        /\ Allocated \subseteq Allocated' /\ n \in Allocated
    BY <1>1, StepKeepsImmutable, DomainIsInterval DEF IInv, Typed, Allocated, Records
  <2>2. \A m \in HeldReach(heap, n) : heap'[m] = heap[m]
    <3>1. ASSUME NEW m \in HeldReach(heap, n)
          PROVE  heap'[m] = heap[m]
      <4>1. m \in Allocated /\ m \in Reach(heap, m)
        BY <2>1, HeldReachSelf, ReachSelf
      <4>2. DeeplyImmutable(heap, m)
        BY <1>1, <2>1, HeldDeeplyImmutable DEF IInv, PayloadsStayValid, RecordsStayValid
      <4> QED
        BY <2>1, <4>1, <4>2, StepKeepsImmutable
    <3> QED
      BY <3>1
  <2>3. HeldReach(heap', n) = HeldReach(heap, n)
    BY <2>1, <2>2, HeldReachLocal
  <2> QED
    BY <2>2, <2>3 DEF Contents
<1>2. IInv /\ [Next]_vars
        => [\A n \in Records : Contents(heap', n) = Contents(heap, n)]_vars
  BY <1>1
<1> QED
  BY <1>2, Invariance, PTL DEF Spec, RecordsStayFrozen
=============================================================================
