-------------------------- MODULE ValidatorProofs --------------------------
(***************************************************************************)
(* The walk of Validator decides deep immutability on every object graph.  *)
(*                                                                         *)
(* The inductive invariant says what the walker's data mean: seen_ok is a  *)
(* certificate (ObjectGraphTheorems), the open frames form a path of       *)
(* distinct containers from the current call's value, and everything to    *)
(* the left of the path is settled.                                        *)
(***************************************************************************)
EXTENDS Validator, ObjectGraphTheorems, SequenceTheorems

Open(st) == {st[i].node : i \in 1..Len(st)}

(* Each open frame is a container with everything before next settled. *)
FramesSettled(h, st, seen) ==
    \A i \in 1..Len(st) :
        /\ Recursed(h, st[i].node)
        /\ st[i].next <= Len(h[st[i].node].kids) + 1
        /\ \A j \in 1..(st[i].next - 1) : Settled(h, seen, h[st[i].node].kids[j])

(* on_path holds the open containers, each open once and none settled. *)
PathMatches(st, path, seen) ==
    /\ path = Open(st)
    /\ \A i, j \in 1..Len(st) : st[i].node = st[j].node => i = j
    /\ path \cap seen = {}

(* The frames descend from c, each into the child its parent is visiting. *)
Adjacent(h, c, st) ==
    /\ st # <<>> => st[1].node = c
    /\ \A i \in 1..(Len(st) - 1) :
          /\ st[i].next <= Len(h[st[i].node].kids)
          /\ h[st[i].node].kids[st[i].next] = st[i + 1].node

Descends(h, st) ==
    \A i, j \in 1..Len(st) : i <= j => st[j].node \in Reach(h, st[i].node)

StackInv(h, c, st, path, seen) ==
    /\ st \in Seq(Frame)
    /\ FramesSettled(h, st, seen)
    /\ PathMatches(st, path, seen)
    /\ Adjacent(h, c, st)
    /\ Descends(h, st)

(* The guards of validate_frozen_instance let only frozen records through. *)
Admissible == entry = "validate_frozen_instance" => heap[root].kind = "record"

(* The calls made so far accepted their values, and calls is what the      *)
(* entry point passes.                                                     *)
CallsInv ==
    /\ phase \in {"call", "typeerror"} => calls = <<>> /\ at = 1 /\ stack = <<>>
    /\ phase \notin {"call", "typeerror"} =>
          \/ calls = <<root>>
          \/ Recursed(heap, root) /\ calls = heap[root].kids
    /\ phase \notin {"call", "typeerror"} => Admissible
    /\ at <= Len(calls) + 1
    /\ \A i \in 1..(at - 1) : DeeplyImmutable(heap, calls[i])
    /\ phase \in {"walk", "call", "typeerror"} /\ stack = <<>> => onPath = {} /\ seenOk = {}
    /\ stack # <<>> => at <= Len(calls)

(* What an exception in flight, or the outcome, is evidence of. *)
OutcomeInv ==
    /\ phase \in {"unwind", "reject", "overflow", "foreign"} =>
          /\ at <= Len(calls)
          /\ err.reason # "none"
          /\ err.reason \notin {"recursion", "repr"} => ~ DeeplyImmutable(heap, root)
          /\ err.reason = "recursion" => Nested(heap, root, room)
          /\ err.reason = "repr" => HoldsOneOf(heap, root, Unprintable)
    /\ phase \in {"reject", "overflow", "foreign"} => phase = Outcome(err.reason)
    /\ phase = "accept" => DeeplyImmutable(heap, root)
    /\ phase \in {"call", "walk", "accept", "typeerror"} => err.reason = "none"

IInv ==
    /\ TypeOK
    /\ Certificate(heap, seenOk)
    /\ StackInv(heap, calls[at], stack, onPath, seenOk)
    /\ CallsInv
    /\ OutcomeInv
    /\ PathLeadsToOffender

-----------------------------------------------------------------------------
(* The operations on the stack. *)

(* Entering a container that is neither open nor settled. *)
LEMMA StackPush ==
    ASSUME NEW h \in Graph(Nodes), NEW c, NEW st, NEW path, NEW seen,
           StackInv(h, c, st, path, seen),
           NEW n \in Nodes, Recursed(h, n), n \notin path, n \notin seen,
           st = <<>> => n = c,
           st # <<>> => /\ st[Len(st)].next <= Len(h[st[Len(st)].node].kids)
                        /\ n = h[st[Len(st)].node].kids[st[Len(st)].next]
    PROVE  StackInv(h, c, Append(st, [node |-> n, next |-> 1]), path \cup {n}, seen)
<1> DEFINE new == [node |-> n, next |-> 1]
           st2 == Append(st, new)
<1>0. st \in Seq(Frame) /\ new \in Frame
  BY DEF StackInv, Frame
<1>1. /\ st2 \in Seq(Frame)
      /\ Len(st2) = Len(st) + 1
      /\ \A i \in 1..Len(st) : st2[i] = st[i]
      /\ st2[Len(st) + 1] = new
      /\ Len(st) \in Nat
      /\ st2 # <<>>
      /\ st = <<>> <=> Len(st) = 0
      /\ \A i \in 1..Len(st) : st[i] \in Frame
  BY <1>0, AppendProperties
<1> HIDE DEF st2, new
<1>2. new.node = n /\ new.next = 1
  BY DEF new
<1>3. FramesSettled(h, st2, seen)
  <2>1. 1 <= Len(h[n].kids) + 1 /\ 1..(1 - 1) = {}
    <3>1. h[n].kids \in Seq(Nodes)
      BY DEF Graph
    <3>2. Len(h[n].kids) \in Nat
      BY <3>1
    <3> QED
      BY <3>2
  <2>2. FramesSettled(h, st, seen)
    BY DEF StackInv
  <2> SUFFICES ASSUME NEW i \in 1..Len(st2)
               PROVE  /\ Recursed(h, st2[i].node)
                      /\ st2[i].next <= Len(h[st2[i].node].kids) + 1
                      /\ \A j \in 1..(st2[i].next - 1) :
                            Settled(h, seen, h[st2[i].node].kids[j])
    BY DEF FramesSettled
  <2>3. CASE i \in 1..Len(st)
    BY <1>1, <2>2, <2>3 DEF FramesSettled
  <2>4. CASE i = Len(st) + 1
    <3>1. st2[i].node = n /\ st2[i].next = 1
      BY <1>1, <1>2, <2>4
    <3> QED
      BY <3>1, <2>1
  <2> QED
    BY <1>1, <2>3, <2>4
<1>4. PathMatches(st2, path \cup {n}, seen)
  <2>1. PathMatches(st, path, seen)
    BY DEF StackInv
  <2>2. \A i \in 1..Len(st) : st2[i].node = st[i].node /\ st2[i].node # n
    BY <1>1, <2>1 DEF PathMatches, Open
  <2>3. st2[Len(st) + 1].node = n
    BY <1>1, <1>2
  <2>4. path \cup {n} = Open(st2)
    BY <1>1, <2>1, <2>2, <2>3 DEF PathMatches, Open
  <2>5. \A i, j \in 1..Len(st2) : st2[i].node = st2[j].node => i = j
    BY <1>1, <2>1, <2>2, <2>3 DEF PathMatches
  <2> QED
    BY <2>1, <2>4, <2>5 DEF PathMatches
<1>5. Adjacent(h, c, st2)
  <2>1. Adjacent(h, c, st)
    BY DEF StackInv
  <2>2. st2[1].node = c
    BY <1>1, <1>2, <2>1 DEF Adjacent
  <2> SUFFICES ASSUME NEW i \in 1..Len(st)
               PROVE  /\ st2[i].next <= Len(h[st2[i].node].kids)
                      /\ h[st2[i].node].kids[st2[i].next] = st2[i + 1].node
    BY <1>1, <2>2 DEF Adjacent
  <2>3. CASE i \in 1..(Len(st) - 1)
    <3>1. i + 1 \in 1..Len(st) /\ st2[i] = st[i] /\ st2[i + 1] = st[i + 1]
      BY <1>1, <2>3
    <3>2. /\ st[i].next <= Len(h[st[i].node].kids)
          /\ h[st[i].node].kids[st[i].next] = st[i + 1].node
      BY <2>1, <2>3 DEF Adjacent
    <3> QED
      BY <3>1, <3>2
  <2>4. CASE i = Len(st)
    BY <1>1, <1>2, <2>4
  <2> QED
    BY <1>1, <2>3, <2>4
<1>6. Descends(h, st2)
  <2>1. ASSUME NEW i \in 1..Len(st)
        PROVE  n \in Reach(h, st[i].node)
    <3>0. Len(st) \in 1..Len(st) /\ i <= Len(st) /\ st # <<>>
      BY <1>1
    <3>1. st[Len(st)].node \in Reach(h, st[i].node)
      BY <3>0 DEF Descends, StackInv
    <3>2. n \in Succ(h, st[Len(st)].node)
      <4>1. st[Len(st)].next \in Nat \ {0} /\ st[Len(st)].node \in Nodes
        BY <1>1, <3>0 DEF Frame
      <4>2. Recursed(h, st[Len(st)].node)
        BY <3>0 DEF StackInv, FramesSettled
      <4>3. Len(h[st[Len(st)].node].kids) \in Nat
        BY <4>1 DEF Graph
      <4> QED
        BY <3>0, <4>1, <4>2, <4>3 DEF Succ
    <3>3. st[i].node \in Nodes
      BY <1>1 DEF Frame
    <3> QED
      BY <3>1, <3>2, <3>3, ReachStep
  <2>2. n \in Reach(h, n)
    BY ReachSelf
  <2> QED
    BY <1>1, <1>2, <2>1, <2>2 DEF Descends, StackInv
<1> QED
  BY <1>1, <1>3, <1>4, <1>5, <1>6 DEF StackInv, st2, new

(* Dropping the innermost frame, whose node may become settled. *)
LEMMA StackPop ==
    ASSUME NEW h \in Graph(Nodes), NEW c, NEW st, NEW path, NEW seen, NEW seen2,
           StackInv(h, c, st, path, seen), st # <<>>,
           seen \subseteq seen2, seen2 \subseteq seen \cup {st[Len(st)].node}
    PROVE  /\ StackInv(h, c, SubSeq(st, 1, Len(st) - 1), path \ {st[Len(st)].node}, seen2)
           /\ Len(SubSeq(st, 1, Len(st) - 1)) = Len(st) - 1
           /\ \A i \in 1..(Len(st) - 1) : SubSeq(st, 1, Len(st) - 1)[i] = st[i]
<1> DEFINE L == Len(st)
           st2 == SubSeq(st, 1, L - 1)
<1>0. st \in Seq(Frame)
  BY DEF StackInv
<1>1. /\ L \in Nat \ {0}
      /\ st2 \in Seq(Frame)
      /\ Len(st2) = L - 1
      /\ \A i \in 1..(L - 1) : st2[i] = st[i]
      /\ st2 # <<>> => L > 1
  <2>1. L \in Nat \ {0}
    BY <1>0
  <2>2. 1 \in 1..(L + 1) /\ L - 1 \in (1 - 1)..L
    BY <2>1
  <2>3. /\ st2 \in Seq(Frame)
        /\ Len(st2) = IF 1 <= L - 1 THEN L - 1 ELSE 0
        /\ \A i \in 1..(L - 1) : st2[i] = st[i]
    BY <1>0, <2>1, <2>2
  <2>4. st2 # <<>> => Len(st2) \in Nat \ {0}
    BY <2>3, EmptySeq
  <2> HIDE DEF st2, L
  <2> QED
    BY <2>1, <2>3, <2>4
<1> HIDE DEF st2, L
<1>2. FramesSettled(h, st2, seen2)
  BY <1>1 DEF FramesSettled, StackInv, Settled, L
<1>3. PathMatches(st2, path \ {st[L].node}, seen2)
  <2>1. /\ path = {st[i].node : i \in 1..L} /\ path \cap seen = {}
        /\ \A i, j \in 1..L : st[i].node = st[j].node => i = j
    BY DEF PathMatches, StackInv, Open, L
  <2>2. path \ {st[L].node} = {st[i].node : i \in 1..(L - 1)}
    <3>1. \A i \in 1..L : i = L \/ i \in 1..(L - 1)
      BY <1>1
    <3>2. \A i \in 1..(L - 1) : i \in 1..L /\ i # L
      BY <1>1
    <3>3. L \in 1..L
      BY <1>1
    <3> QED
      BY <2>1, <3>1, <3>2, <3>3
  <2>3. path \ {st[L].node} = Open(st2)
    BY <1>1, <2>2 DEF Open
  <2>4. \A i, j \in 1..Len(st2) : st2[i].node = st2[j].node => i = j
    BY <1>1, <2>1
  <2>5. (path \ {st[L].node}) \cap seen2 = {}
    BY <2>1 DEF L
  <2> QED
    BY <2>3, <2>4, <2>5 DEF PathMatches
<1>4. Adjacent(h, c, st2)
  <2>1. /\ st[1].node = c
        /\ \A i \in 1..(L - 1) : /\ st[i].next <= Len(h[st[i].node].kids)
                                /\ h[st[i].node].kids[st[i].next] = st[i + 1].node
    BY DEF Adjacent, StackInv, L
  <2>2. \A i \in 1..(Len(st2) - 1) :
            i \in 1..(L - 1) /\ i + 1 \in 1..(L - 1) /\ st2[i] = st[i] /\ st2[i + 1] = st[i + 1]
    BY <1>1
  <2>3. st2 # <<>> => st2[1] = st[1]
    BY <1>1
  <2> QED
    BY <2>1, <2>2, <2>3 DEF Adjacent
<1>5. Descends(h, st2)
  BY <1>1 DEF Descends, StackInv, L
<1> QED
  BY <1>1, <1>2, <1>3, <1>4, <1>5 DEF StackInv, st2, L

(* The loop of the innermost frame moves past a settled child. *)
LEMMA StackAdvance ==
    ASSUME NEW h \in Graph(Nodes), NEW c, NEW st, NEW path, NEW seen,
           StackInv(h, c, st, path, seen), st # <<>>,
           st[Len(st)].next <= Len(h[st[Len(st)].node].kids),
           Settled(h, seen, h[st[Len(st)].node].kids[st[Len(st)].next])
    PROVE  StackInv(h, c,
                    [st EXCEPT ![Len(st)] = [node |-> @.node, next |-> @.next + 1]],
                    path, seen)
<1> DEFINE L == Len(st)
           moved == [node |-> st[L].node, next |-> st[L].next + 1]
           st2 == [st EXCEPT ![L] = moved]
<1>0. st \in Seq(Frame)
  BY DEF StackInv
<1>1. /\ L \in Nat \ {0}
      /\ st[L] \in Frame
      /\ \A i \in 1..L : st[i] \in Frame
  BY <1>0
<1>2. moved \in Frame /\ moved.node = st[L].node /\ moved.next = st[L].next + 1
  BY <1>1 DEF Frame
<1>3. /\ st2 \in Seq(Frame)
      /\ Len(st2) = L
      /\ \A i \in 1..L : st2[i] = IF i = L THEN moved ELSE st[i]
      /\ st2 # <<>>
  BY <1>0, <1>1, <1>2
<1> HIDE DEF st2, L, moved
<1>4. FramesSettled(h, st2, seen)
  <2> SUFFICES ASSUME NEW i \in 1..L
               PROVE  /\ Recursed(h, st2[i].node)
                      /\ st2[i].next <= Len(h[st2[i].node].kids) + 1
                      /\ \A j \in 1..(st2[i].next - 1) :
                            Settled(h, seen, h[st2[i].node].kids[j])
    BY <1>3 DEF FramesSettled
  <2>1. CASE i # L
    BY <1>1, <1>3, <2>1 DEF FramesSettled, StackInv, L
  <2>2. CASE i = L
    <3>1. st2[i].node = st[L].node /\ st2[i].next = st[L].next + 1
      BY <1>2, <1>3, <2>2
    <3>2. st[L].next \in Nat \ {0} /\ st[L].node \in Nodes
      BY <1>1 DEF Frame
    <3>3. Len(h[st[L].node].kids) \in Nat
      BY <3>2 DEF Graph
    <3>4. /\ Recursed(h, st[L].node)
          /\ st[L].next <= Len(h[st[L].node].kids)
          /\ \A j \in 1..(st[L].next - 1) : Settled(h, seen, h[st[L].node].kids[j])
          /\ Settled(h, seen, h[st[L].node].kids[st[L].next])
      BY <1>1 DEF FramesSettled, StackInv, L
    <3>5. ASSUME NEW j \in 1..(st[L].next + 1 - 1)
          PROVE  Settled(h, seen, h[st[L].node].kids[j])
      <4>1. j = st[L].next \/ j \in 1..(st[L].next - 1)
        BY <3>2
      <4> QED
        BY <3>4, <4>1
    <3>6. st[L].next + 1 <= Len(h[st[L].node].kids) + 1
      BY <3>2, <3>3, <3>4
    <3>7. ASSUME NEW j \in 1..(st2[i].next - 1)
          PROVE  Settled(h, seen, h[st2[i].node].kids[j])
      <4>1. j \in 1..(st[L].next + 1 - 1)
        BY <3>1, <3>2
      <4>2. Settled(h, seen, h[st[L].node].kids[j])
        BY <3>5, <4>1
      <4>3. h[st2[i].node].kids[j] = h[st[L].node].kids[j]
        BY <3>1
      <4> QED
        BY <4>2, <4>3 DEF Settled
    <3>8. Recursed(h, st2[i].node) /\ st2[i].next <= Len(h[st2[i].node].kids) + 1
      BY <3>1, <3>4, <3>6
    <3> QED
      BY <3>7, <3>8
  <2> QED
    BY <2>1, <2>2
<1>5. PathMatches(st2, path, seen)
  <2>1. \A i \in 1..L : st2[i].node = st[i].node
    BY <1>2, <1>3
  <2> QED
    BY <1>3, <2>1 DEF PathMatches, StackInv, Open, L
<1>6. Adjacent(h, c, st2)
  <2>1. \A i \in 1..L : st2[i].node = st[i].node
    BY <1>2, <1>3
  <2>2. \A i \in 1..(L - 1) : st2[i] = st[i]
    BY <1>1, <1>3
  <2> QED
    BY <1>1, <1>3, <2>1, <2>2 DEF Adjacent, StackInv, L
<1>7. Descends(h, st2)
  <2>1. \A i \in 1..L : st2[i].node = st[i].node
    BY <1>2, <1>3
  <2> QED
    BY <1>3, <2>1 DEF Descends, StackInv, L
<1> QED
  BY <1>3, <1>4, <1>5, <1>6, <1>7 DEF StackInv, st2, L, moved

(* The empty stack with fresh sets, for any value. *)
LEMMA StackFresh ==
    ASSUME NEW h, NEW c
    PROVE  StackInv(h, c, <<>>, {}, {}) /\ Certificate(h, {})
<1>1. <<>> \in Seq(Frame) /\ Len(<<>>) = 0
  OBVIOUS
<1> QED
  BY <1>1 DEF StackInv, FramesSettled, PathMatches, Adjacent, Descends, Open, Certificate

-----------------------------------------------------------------------------
(* What holds at a call of _validate. *)

(* The heap is an object graph, and the argument one of its objects. *)
LEMMA HeapIsGraph ==
    ASSUME TypeOK
    PROVE  heap \in Graph(Nodes) /\ root \in Nodes
BY ObjectsAssumption, RootsAssumption DEF TypeOK, Graph

(* A value passed to _validate by an entry point that is at fault makes    *)
(* the argument of the entry point at fault.                               *)
LEMMA FaultOfCall ==
    ASSUME TypeOK, CallsInv, phase \notin {"call", "typeerror"}, at <= Len(calls),
           ~ DeeplyImmutable(heap, calls[at])
    PROVE  ~ DeeplyImmutable(heap, root)
<1>0. heap \in Graph(Nodes) /\ root \in Nodes
  BY HeapIsGraph
<1>1. at \in 1..Len(calls)
  BY DEF TypeOK
<1>2. calls[at] \in Reach(heap, root)
  <2>1. CASE calls = <<root>>
    BY <1>0, <1>1, <2>1, ReachSelf
  <2>2. CASE Recursed(heap, root) /\ calls = heap[root].kids
    <3>1. calls[at] \in Succ(heap, root)
      BY <1>1, <2>2 DEF Succ
    <3> QED
      BY <1>0, <3>1, ReachSelf, ReachStep
  <2> QED
    BY <2>1, <2>2 DEF CallsInv
<1> QED
  BY <1>0, <1>2, PartDeeplyImmutable

(* When every call has returned, the argument is deeply immutable. *)
LEMMA AllCallsReturned ==
    ASSUME TypeOK, CallsInv, phase \notin {"call", "typeerror"}, at > Len(calls)
    PROVE  DeeplyImmutable(heap, root)
<1>0. heap \in Graph(Nodes) /\ root \in Nodes
  BY HeapIsGraph
<1>1. Len(calls) \in Nat /\ at \in Nat
  BY DEF TypeOK
<1>2. \A i \in 1..Len(calls) : DeeplyImmutable(heap, calls[i])
  BY <1>1 DEF CallsInv
<1>3. CASE calls = <<root>>
  BY <1>2, <1>3
<1>4. CASE Recursed(heap, root) /\ calls = heap[root].kids
  <2>1. \A k \in Succ(heap, root) : DeeplyImmutable(heap, k)
    BY <1>2, <1>4 DEF Succ
  <2> QED
    BY <1>0, <1>4, <2>1, ContainerDeeplyImmutable
<1> QED
  BY <1>3, <1>4 DEF CallsInv

(* A call of _validate that is due has a value, reached from the argument. *)
LEMMA CallFacts ==
    ASSUME IInv, CallDue
    PROVE  /\ heap \in Graph(Nodes)
           /\ root \in Nodes
           /\ at \in 1..Len(calls)
           /\ calls[at] \in Nodes
           /\ Arg \in Nodes
           /\ Arg \in Reach(heap, calls[at])
           /\ stack = <<>> => Arg = calls[at]
           /\ stack # <<>> => /\ Len(stack) \in 1..Len(stack)
                              /\ Top.node \in Nodes
                              /\ Top.next <= Len(heap[Top.node].kids)
                              /\ Arg = heap[Top.node].kids[Top.next]
                              /\ Arg \in Succ(heap, Top.node)
                              /\ Top.node \in Reach(heap, calls[at])
<1>0. heap \in Graph(Nodes) /\ root \in Nodes
  BY HeapIsGraph DEF IInv
<1>1. /\ calls \in Seq(Nodes) /\ at \in Nat \ {0}
      /\ stack \in Seq(Frame)
      /\ stack # <<>> => at <= Len(calls)
  BY DEF IInv, TypeOK, CallsInv
<1>2. at \in 1..Len(calls)
  BY <1>1 DEF CallDue
<1>3. calls[at] \in Nodes
  BY <1>1, <1>2
<1>4. CASE stack = <<>>
  BY <1>0, <1>2, <1>3, <1>4, ReachSelf DEF Arg
<1>5. CASE stack # <<>>
  <2>1. Len(stack) \in 1..Len(stack) /\ 1 \in 1..Len(stack)
    BY <1>1, <1>5, EmptySeq
  <2>2. Top \in Frame
    BY <1>1, <2>1 DEF Top
  <2>3. Top.node \in Nodes /\ Top.next \in Nat \ {0}
    BY <2>2 DEF Frame
  <2>4. /\ Top.next <= Len(heap[Top.node].kids)
        /\ Arg = heap[Top.node].kids[Top.next]
    BY <1>5 DEF CallDue, Arg
  <2>5. Recursed(heap, Top.node)
    BY <2>1 DEF IInv, StackInv, FramesSettled, Top
  <2>6. Len(heap[Top.node].kids) \in Nat
    BY <1>0, <2>3 DEF Graph
  <2>7. Arg \in Succ(heap, Top.node)
    BY <2>3, <2>4, <2>5, <2>6 DEF Succ
  <2>8. Arg \in Nodes
    BY <1>0, <2>3, <2>7, SuccType
  <2>9. Top.node \in Reach(heap, calls[at])
    <3>1. stack[1].node = calls[at]
      BY <1>5 DEF IInv, StackInv, Adjacent
    <3>2. stack[Len(stack)].node \in Reach(heap, stack[1].node)
      BY <2>1 DEF IInv, StackInv, Descends
    <3> QED
      BY <3>1, <3>2 DEF Top
  <2>10. Arg \in Reach(heap, calls[at])
    BY <1>0, <1>3, <2>7, <2>9, ReachStep
  <2> QED
    BY <1>0, <1>2, <1>3, <1>5, <2>1, <2>3, <2>4, <2>7, <2>8, <2>9, <2>10
<1> QED
  BY <1>4, <1>5

(* An open container met again lies on a cycle. *)
LEMMA OpenMeansCycle ==
    ASSUME IInv, CallDue, Arg \in onPath
    PROVE  OnCycle(heap, Arg)
<1>0. /\ heap \in Graph(Nodes)
      /\ stack # <<>> => /\ Len(stack) \in 1..Len(stack)
                         /\ Top.node \in Nodes
                         /\ Arg \in Succ(heap, Top.node)
      /\ Arg \in Nodes
  BY CallFacts
<1>1. PICK i \in 1..Len(stack) : stack[i].node = Arg
  BY DEF IInv, StackInv, PathMatches, Open
<1>2. stack # <<>> /\ Len(stack) \in Nat
  BY <1>1 DEF IInv, TypeOK
<1>3. CASE i = Len(stack)
  <2>1. Arg \in Succ(heap, Arg)
    BY <1>0, <1>1, <1>2, <1>3 DEF Top
  <2> QED
    BY <1>0, <2>1, ReachSelf DEF OnCycle
<1>4. CASE i # Len(stack)
  <2>1. i \in 1..(Len(stack) - 1) /\ i + 1 \in 1..Len(stack) /\ i + 1 <= Len(stack)
    BY <1>1, <1>2, <1>4
  <2>2. stack[i] \in Frame /\ stack[i + 1] \in Frame
    BY <2>1 DEF IInv, TypeOK
  <2>3. /\ stack[i].next <= Len(heap[stack[i].node].kids)
        /\ heap[stack[i].node].kids[stack[i].next] = stack[i + 1].node
        /\ Recursed(heap, stack[i].node)
    BY <2>1 DEF IInv, StackInv, Adjacent, FramesSettled
  <2>4. stack[i + 1].node \in Succ(heap, Arg)
    <3>1. stack[i].next \in Nat \ {0} /\ stack[i].node \in Nodes
      BY <2>2 DEF Frame
    <3>2. Len(heap[stack[i].node].kids) \in Nat
      BY <1>0, <3>1 DEF Graph
    <3> QED
      BY <1>1, <2>3, <3>1, <3>2 DEF Succ
  <2>5. Top.node \in Reach(heap, stack[i + 1].node)
    BY <1>0, <1>2, <2>1 DEF IInv, StackInv, Descends, Top
  <2>6. Arg \in Reach(heap, stack[i + 1].node)
    <3>1. stack[i + 1].node \in Nodes
      BY <2>2 DEF Frame
    <3> QED
      BY <1>0, <1>2, <2>5, <3>1, ReachStep
  <2> QED
    BY <2>4, <2>6 DEF OnCycle
<1> QED
  BY <1>3, <1>4

(* A fault found at a call is a fault of the entry point's argument. *)
LEMMA FaultOfArg ==
    ASSUME IInv, CallDue, Offending(heap, Arg)
    PROVE  ~ DeeplyImmutable(heap, root)
<1>1. ~ DeeplyImmutable(heap, calls[at])
  BY CallFacts DEF DeeplyImmutable
<1>2. at <= Len(calls) /\ phase \notin {"call", "typeerror"}
  BY CallFacts DEF CallDue, IInv, TypeOK
<1> QED
  BY <1>1, <1>2, FaultOfCall DEF IInv

(* What an entry point passes to _validate is the argument or below it. *)
LEMMA CallReached ==
    ASSUME IInv, CallDue
    PROVE  calls[at] \in Reach(heap, root)
<1>1. /\ heap \in Graph(Nodes) /\ root \in Nodes
      /\ at \in 1..Len(calls) /\ calls[at] \in Nodes
  BY CallFacts
<1>2. CASE calls = <<root>>
  BY <1>1, <1>2, ReachSelf
<1>3. CASE Recursed(heap, root) /\ calls = heap[root].kids
  <2>1. calls[at] \in Succ(heap, root)
    BY <1>1, <1>3 DEF Succ
  <2> QED
    BY <1>1, <2>1, ReachSelf, ReachStep
<1> QED
  BY <1>2, <1>3 DEF IInv, CallsInv, CallDue

(* A container that is open when a __repr__ raises is below the argument. *)
LEMMA RenderedBelow ==
    ASSUME IInv, RenderRaises
    PROVE  HoldsOneOf(heap, root, Unprintable)
<1>1. /\ CallDue /\ stack # <<>>
      /\ heap[Top.node].kind = "frozen" /\ Arg \in Unprintable
  BY DEF RenderRaises
<1>2. /\ heap \in Graph(Nodes) /\ root \in Nodes /\ calls[at] \in Nodes
      /\ Top.node \in Reach(heap, calls[at]) /\ Arg \in Succ(heap, Top.node)
  BY <1>1, CallFacts
<1>3. Top.node \in Reach(heap, root)
  BY <1>1, <1>2, CallReached, ReachTransitive
<1> QED
  BY <1>1, <1>2, <1>3 DEF HoldsOneOf

(* A full stack is as many nested containers below the argument. *)
LEMMA FullStack ==
    ASSUME IInv, CallDue, ~ HasRoom
    PROVE  Nested(heap, root, room)
<1> DEFINE Nest == {m \in Reach(heap, root) : Recursed(heap, m)}
           c == [i \in 1..room |-> stack[i].node]
<1>0. /\ heap \in Graph(Nodes) /\ root \in Nodes
      /\ at \in 1..Len(calls) /\ calls[at] \in Nodes
  BY CallFacts
<1>1. /\ Len(stack) \in Nat /\ Len(stack) >= room /\ room \in Nat \ {0}
      /\ 1..room \subseteq 1..Len(stack)
  BY MaxDepthAssumption DEF HasRoom, IInv, TypeOK
<1>2. calls[at] \in Reach(heap, root)
  BY CallReached
<1>3. ASSUME NEW i \in 1..room
      PROVE  stack[i].node \in Nest
  <2>1. i \in 1..Len(stack) /\ 1 \in 1..Len(stack) /\ 1 <= i /\ stack # <<>>
    BY <1>1, <1>3
  <2>2. stack[1].node = calls[at]
    BY <2>1 DEF IInv, StackInv, Adjacent
  <2>3. stack[i].node \in Reach(heap, calls[at])
    BY <2>1, <2>2 DEF IInv, StackInv, Descends
  <2>4. Recursed(heap, stack[i].node)
    BY <2>1 DEF IInv, StackInv, FramesSettled
  <2> QED
    BY <1>0, <1>2, <2>3, <2>4, ReachTransitive
<1>4. c \in [1..room -> Nest]
  BY <1>3
<1>5. ASSUME NEW i \in 1..(room - 1)
      PROVE  stack[i + 1].node \in Succ(heap, stack[i].node)
  <2>1. i \in 1..(Len(stack) - 1) /\ i \in 1..Len(stack)
    BY <1>1, <1>5
  <2>2. /\ stack[i].next <= Len(heap[stack[i].node].kids)
        /\ heap[stack[i].node].kids[stack[i].next] = stack[i + 1].node
        /\ Recursed(heap, stack[i].node)
    BY <2>1 DEF IInv, StackInv, Adjacent, FramesSettled
  <2>3. stack[i].next \in Nat \ {0} /\ stack[i].node \in Nodes
    <3>1. stack[i] \in Frame
      BY <2>1 DEF IInv, TypeOK
    <3> QED
      BY <3>1 DEF Frame
  <2>4. Len(heap[stack[i].node].kids) \in Nat
    BY <1>0, <2>3 DEF Graph
  <2> QED
    BY <2>2, <2>3, <2>4 DEF Succ
<1>6. \A i \in 1..(room - 1) : c[i + 1] \in Succ(heap, c[i])
  BY <1>1, <1>5
<1>7. \A i, j \in 1..room : c[i] = c[j] => i = j
  BY <1>1 DEF IInv, StackInv, PathMatches
<1> QED
  BY <1>4, <1>6, <1>7 DEF Nested

-----------------------------------------------------------------------------
(* The inductive step, one lemma for each way a call can end. *)

(* A call that returns normally has settled its value. *)
LEMMA ReturnStep ==
    ASSUME IInv, phase = "walk", at \in 1..Len(calls),
           NEW outer, NEW path \in SUBSET Nodes, NEW seen \in SUBSET Nodes,
           Return(outer, path, seen),
           StackInv(heap, calls[at], outer, path, seen),
           Certificate(heap, seen),
           outer = <<>> => Settled(heap, seen, calls[at]),
           outer # <<>> =>
              /\ outer[Len(outer)].next <= Len(heap[outer[Len(outer)].node].kids)
              /\ Settled(heap, seen,
                         heap[outer[Len(outer)].node].kids[outer[Len(outer)].next])
    PROVE  IInv'
<1>0. /\ heap \in Graph(Nodes) /\ calls \in Seq(Nodes) /\ at \in Nat \ {0}
      /\ err.reason = "none"
  BY HeapIsGraph DEF IInv, TypeOK, OutcomeInv
<1>1. UNCHANGED <<heap, room, root, entry, calls, phase, err>>
  BY DEF Return
<1>2. OutcomeInv' /\ PathLeadsToOffender'
  BY <1>0, <1>1 DEF OutcomeInv, PathLeadsToOffender, IInv
<1>3. CASE outer = <<>>
  <2>1. at' = at + 1 /\ stack' = <<>> /\ onPath' = {} /\ seenOk' = {}
    BY <1>3 DEF Return
  <2>2. calls[at] \in Nodes
    BY <1>0
  <2>3. DeeplyImmutable(heap, calls[at])
    BY <1>0, <1>3, <2>2, CertificateSound
  <2>4. StackInv(heap, calls[at], stack, onPath, seenOk)' /\ Certificate(heap, seenOk)'
    BY <2>1, StackFresh
  <2>5. TypeOK'
    BY <1>1, <2>1, EmptySeq DEF IInv, TypeOK
  <2>6. CallsInv'
    <3>1. \A i \in 1..(at' - 1) : DeeplyImmutable(heap, calls[i])
      BY <1>0, <2>1, <2>3 DEF IInv, CallsInv
    <3> QED
      BY <1>0, <1>1, <2>1, <3>1 DEF IInv, CallsInv, Admissible
  <2> QED
    BY <1>2, <2>4, <2>5, <2>6 DEF IInv
<1>4. CASE outer # <<>>
  <2>1. /\ at' = at
        /\ stack' = [outer EXCEPT ![Len(outer)] =
                        [node |-> @.node, next |-> @.next + 1]]
        /\ onPath' = path
        /\ seenOk' = seen
    BY <1>4 DEF Return
  <2>2. StackInv(heap, calls[at], stack, onPath, seenOk)' /\ Certificate(heap, seenOk)'
    BY <1>0, <1>1, <1>4, <2>1, StackAdvance
  <2>3. stack' \in Seq(Frame)
    BY <2>2 DEF StackInv
  <2>4. TypeOK'
    BY <1>1, <2>1, <2>3 DEF IInv, TypeOK
  <2>5. stack' # <<>>
    <3>1. outer \in Seq(Frame)
      BY DEF StackInv
    <3>2. Len(stack') = Len(outer) /\ Len(outer) \in Nat \ {0}
      BY <1>4, <2>1, <3>1, EmptySeq
    <3> QED
      BY <3>2, EmptySeq
  <2>6. CallsInv'
    BY <1>1, <2>1, <2>5 DEF IInv, CallsInv, Admissible
  <2> QED
    BY <1>2, <2>2, <2>4, <2>6 DEF IInv
<1> QED
  BY <1>3, <1>4

(* An exception carries the path to the value at fault. *)
LEMMA RaiseStep ==
    ASSUME IInv, CallDue, NEW reason \in Reasons, Raise(reason),
           reason = "recursion" => ~ HasRoom,
           reason \notin {"recursion", "repr"} => Offending(heap, Arg),
           reason = "repr" => HoldsOneOf(heap, root, Unprintable),
           reason = "cycle" => Arg \in onPath,
           reason \in {"named", "dataclass", "unknown"} => heap[Arg].kind = reason
    PROVE  IInv'
<1>0. /\ at \in 1..Len(calls)
      /\ Arg \in Nodes
      /\ stack = <<>> => Arg = calls[at]
      /\ stack # <<>> => /\ Len(stack) \in 1..Len(stack)
                         /\ Arg = heap[Top.node].kids[Top.next]
  BY CallFacts
<1>1. /\ UNCHANGED <<heap, room, root, entry, calls, at, stack, onPath, seenOk>>
      /\ phase' = "unwind"
      /\ err' = [reason |-> reason, path |-> stack, value |-> Arg]
  BY DEF Raise
<1>2. err'.reason = reason /\ err'.path = stack /\ err'.value = Arg
  BY <1>1
<1>3. TypeOK'
  BY <1>0, <1>1 DEF IInv, TypeOK, Phases
<1>4. Certificate(heap, seenOk)' /\ StackInv(heap, calls[at], stack, onPath, seenOk)'
  BY <1>1 DEF IInv
<1>5. CallsInv'
  BY <1>1 DEF IInv, CallsInv, CallDue, Admissible
<1>6. OutcomeInv'
  <2>1. reason # "none" /\ at <= Len(calls)
    BY <1>0 DEF Reasons, IInv, TypeOK
  <2>2. reason \notin {"recursion", "repr"} => ~ DeeplyImmutable(heap, root)
    BY FaultOfArg
  <2>3. reason = "recursion" => Nested(heap, root, room)
    BY FullStack
  <2>4. (reason = "repr" => HoldsOneOf(heap, root, Unprintable))'
    BY <1>1
  <2> QED
    BY <1>1, <1>2, <2>1, <2>2, <2>3, <2>4 DEF OutcomeInv
<1>7. PathLeadsToOffender'
  <2>1. (IF stack = <<>> THEN Arg ELSE stack[1].node) = calls[at]
    BY <1>0 DEF IInv, StackInv, Adjacent
  <2>2. ASSUME NEW i \in 1..Len(stack)
        PROVE  heap[stack[i].node].kids[stack[i].next] =
                  IF i < Len(stack) THEN stack[i + 1].node ELSE Arg
    <3>1. Len(stack) \in Nat /\ stack # <<>>
      BY <2>2 DEF IInv, TypeOK
    <3>2. CASE i < Len(stack)
      <4>1. i \in 1..(Len(stack) - 1)
        BY <2>2, <3>1, <3>2
      <4> QED
        BY <3>2, <4>1 DEF IInv, StackInv, Adjacent
    <3>3. CASE ~ (i < Len(stack))
      <4>1. i = Len(stack)
        BY <2>2, <3>1, <3>3
      <4> QED
        BY <1>0, <3>1, <4>1 DEF Top
    <3> QED
      BY <3>2, <3>3
  <2>3. reason = "cycle" => \E i \in 1..Len(stack) : stack[i].node = Arg
    BY DEF IInv, StackInv, PathMatches, Open
  <2> QED
    BY <1>1, <1>2, <2>1, <2>2, <2>3 DEF PathLeadsToOffender
<1> QED
  BY <1>3, <1>4, <1>5, <1>6, <1>7 DEF IInv

-----------------------------------------------------------------------------
(* The invariant. *)

(* Before the entry point is called nothing is open and nothing settled. *)
LEMMA InvInit ==
    ASSUME Init
    PROVE  IInv
<1>1. TypeOK
  BY RootsAssumption, EmptySeq DEF Init, TypeOK, Phases, NoError
<1>2. StackInv(heap, calls[at], stack, onPath, seenOk) /\ Certificate(heap, seenOk)
  BY StackFresh DEF Init
<1>3. CallsInv
  <2>1. at = 1 /\ calls = <<>> /\ Len(calls) = 0
    BY DEF Init
  <2> QED
    BY <2>1 DEF Init, CallsInv
<1>4. OutcomeInv /\ PathLeadsToOffender
  BY DEF Init, OutcomeInv, PathLeadsToOffender, NoError
<1> QED
  BY <1>1, <1>2, <1>3, <1>4 DEF IInv

(* An entry point begins its walk with empty sets. *)
LEMMA BeginStep ==
    ASSUME IInv, phase = "call", NEW values \in Seq(Nodes), Begin(values), Admissible,
           values = <<root>> \/ (Recursed(heap, root) /\ values = heap[root].kids)
    PROVE  IInv'
<1>1. /\ UNCHANGED <<heap, room, root, entry, at, stack, onPath, seenOk, err>>
      /\ calls' = values /\ phase' = "walk"
  BY DEF Begin
<1>2. at = 1 /\ stack = <<>> /\ onPath = {} /\ seenOk = {} /\ err.reason = "none"
  BY DEF IInv, CallsInv, OutcomeInv
<1>3. TypeOK'
  BY <1>1 DEF IInv, TypeOK, Phases
<1>4. StackInv(heap, calls[at], stack, onPath, seenOk)' /\ Certificate(heap, seenOk)'
  BY <1>1, <1>2, StackFresh
<1>5. CallsInv'
  <2>1. Len(values) \in Nat
    OBVIOUS
  <2>2. at' <= Len(calls') + 1 /\ 1..(at' - 1) = {}
    BY <1>1, <1>2, <2>1
  <2> QED
    BY <1>1, <1>2, <2>2 DEF CallsInv, Admissible
<1>6. OutcomeInv' /\ PathLeadsToOffender'
  BY <1>1, <1>2 DEF OutcomeInv, PathLeadsToOffender
<1> QED
  BY <1>3, <1>4, <1>5, <1>6 DEF IInv

(* A container that is entered extends the path. *)
LEMMA EnterStep ==
    ASSUME IInv, EnterContainer
    PROVE  IInv'
<1> DEFINE new == [node |-> Arg, next |-> 1]
<1>0. /\ CallDue /\ Fresh /\ Arg \notin onPath /\ Recursed(heap, Arg)
      /\ stack' = Append(stack, new)
      /\ onPath' = onPath \cup {Arg}
      /\ UNCHANGED <<heap, room, root, entry, calls, at, seenOk, phase, err>>
  BY DEF EnterContainer
<1>1. /\ heap \in Graph(Nodes) /\ Arg \in Nodes /\ at <= Len(calls)
      /\ stack = <<>> => Arg = calls[at]
      /\ stack # <<>> => /\ Top.next <= Len(heap[Top.node].kids)
                         /\ Arg = heap[Top.node].kids[Top.next]
  BY <1>0, CallFacts DEF IInv, TypeOK
<1>2. StackInv(heap, calls[at], Append(stack, new), onPath \cup {Arg}, seenOk)
  BY <1>0, <1>1, StackPush DEF IInv, Fresh, Top
<1>3. StackInv(heap, calls[at], stack, onPath, seenOk)' /\ Certificate(heap, seenOk)'
  BY <1>0, <1>2 DEF IInv
<1>4. TypeOK'
  BY <1>0, <1>1, <1>3 DEF IInv, TypeOK, StackInv
<1>5. stack' # <<>>
  <2>1. stack \in Seq(Frame) /\ new \in Frame
    BY <1>1 DEF IInv, TypeOK, Frame
  <2> QED
    BY <1>0, <2>1, AppendProperties
<1>6. CallsInv'
  BY <1>0, <1>1, <1>5 DEF IInv, CallsInv, Admissible
<1>7. OutcomeInv' /\ PathLeadsToOffender'
  BY <1>0 DEF IInv, OutcomeInv, PathLeadsToOffender
<1> QED
  BY <1>3, <1>4, <1>6, <1>7 DEF IInv

(* A container whose loop is over is settled. *)
LEMMA LeaveStep ==
    ASSUME IInv, LeaveContainer
    PROVE  IInv'
<1> DEFINE n == Top.node
           outer == SubSeq(stack, 1, Len(stack) - 1)
           seen == seenOk \cup {n}
<1>0. /\ phase = "walk" /\ stack # <<>>
      /\ Top.next > Len(heap[n].kids)
      /\ Return(outer, onPath \ {n}, seen)
  BY DEF LeaveContainer
<1>1. /\ heap \in Graph(Nodes)
      /\ stack \in Seq(Frame) /\ calls \in Seq(Nodes)
      /\ at \in 1..Len(calls)
      /\ onPath \in SUBSET Nodes /\ seenOk \in SUBSET Nodes
  BY <1>0, HeapIsGraph DEF IInv, TypeOK, CallsInv
<1>2. Len(stack) \in 1..Len(stack) /\ Len(stack) \in Nat \ {0}
  BY <1>0, <1>1, EmptySeq
<1>3. /\ n \in Nodes /\ Top.next \in Nat \ {0} /\ Recursed(heap, n)
      /\ Top.next <= Len(heap[n].kids) + 1
      /\ \A j \in 1..(Top.next - 1) : Settled(heap, seenOk, heap[n].kids[j])
  <2>1. Top \in Frame
    BY <1>1, <1>2 DEF Top
  <2>2. FramesSettled(heap, stack, seenOk)
    BY DEF IInv, StackInv
  <2> QED
    BY <1>2, <2>1, <2>2 DEF FramesSettled, Top, Frame
<1>4. \A k \in Succ(heap, n) : Settled(heap, seenOk, k)
  <2>1. Len(heap[n].kids) \in Nat
    BY <1>1, <1>3 DEF Graph
  <2>2. Top.next - 1 = Len(heap[n].kids)
    <3>1. \A a, b \in Nat : a > b /\ a <= b + 1 => a - 1 = b
      OBVIOUS
    <3> HIDE DEF n
    <3> QED
      BY <1>0, <1>3, <2>1, <3>1
  <2> QED
    BY <1>3, <2>2 DEF Succ
<1>5. n \notin seenOk
  BY <1>2 DEF IInv, StackInv, PathMatches, Open, Top
<1>6. Certificate(heap, seen)
  BY <1>1, <1>3, <1>4, <1>5, CertificateExtends DEF IInv
<1>7. /\ StackInv(heap, calls[at], outer, onPath \ {n}, seen)
      /\ Len(outer) = Len(stack) - 1
      /\ \A i \in 1..(Len(stack) - 1) : outer[i] = stack[i]
  BY <1>0, <1>1, StackPop DEF IInv, Top
<1>8. outer \in Seq(Frame)
  BY <1>7 DEF StackInv
<1>9. n \in seen /\ seen \in SUBSET Nodes
  BY <1>1, <1>3
<1> HIDE DEF outer, seen
<1>10. outer = <<>> => Settled(heap, seen, calls[at])
  <2> SUFFICES ASSUME outer = <<>>
               PROVE  calls[at] = n
    BY <1>9 DEF Settled
  <2>1. Len(outer) = 0
    OBVIOUS
  <2>2. Len(stack) = 1
    BY <1>2, <1>7, <2>1
  <2> QED
    BY <1>0, <2>2 DEF IInv, StackInv, Adjacent, Top
<1>11. outer # <<>> =>
          /\ outer[Len(outer)].next <= Len(heap[outer[Len(outer)].node].kids)
          /\ Settled(heap, seen, heap[outer[Len(outer)].node].kids[outer[Len(outer)].next])
  <2> SUFFICES ASSUME outer # <<>>
               PROVE  /\ outer[Len(outer)].next <= Len(heap[outer[Len(outer)].node].kids)
                      /\ n = heap[outer[Len(outer)].node].kids[outer[Len(outer)].next]
    BY <1>9 DEF Settled
  <2>1. Len(outer) \in Nat \ {0}
    BY <1>8, EmptySeq
  <2>2. Len(outer) \in 1..(Len(stack) - 1) /\ Len(outer) + 1 = Len(stack)
    BY <1>2, <1>7, <2>1
  <2>3. outer[Len(outer)] = stack[Len(outer)]
    BY <1>7, <2>2
  <2>4. /\ stack[Len(outer)].next <= Len(heap[stack[Len(outer)].node].kids)
        /\ heap[stack[Len(outer)].node].kids[stack[Len(outer)].next]
              = stack[Len(outer) + 1].node
    BY <2>2 DEF IInv, StackInv, Adjacent
  <2> QED
    BY <2>2, <2>3, <2>4 DEF Top
<1> QED
  BY <1>0, <1>1, <1>6, <1>7, <1>9, <1>10, <1>11, ReturnStep

(* The finally clauses keep on_path equal to the open frames. *)
LEMMA UnwindStep ==
    ASSUME IInv, Unwind
    PROVE  IInv'
<1>0. /\ phase = "unwind" /\ stack # <<>>
      /\ onPath' = onPath \ {Top.node}
      /\ stack' = SubSeq(stack, 1, Len(stack) - 1)
      /\ UNCHANGED <<heap, room, root, entry, calls, at, seenOk, phase, err>>
  BY DEF Unwind
<1>1. heap \in Graph(Nodes)
  BY HeapIsGraph DEF IInv
<1>2. StackInv(heap, calls[at], stack, onPath, seenOk)' /\ Certificate(heap, seenOk)'
  BY <1>0, <1>1, StackPop DEF IInv, Top
<1>3. TypeOK'
  BY <1>0, <1>2 DEF IInv, TypeOK, StackInv
<1>4. CallsInv'
  BY <1>0 DEF IInv, CallsInv, Admissible
<1>5. OutcomeInv' /\ PathLeadsToOffender'
  BY <1>0 DEF IInv, OutcomeInv, PathLeadsToOffender
<1> QED
  BY <1>2, <1>3, <1>4, <1>5 DEF IInv

(* Every action of the walk preserves the invariant. *)
LEMMA InvNext ==
    ASSUME IInv, [Next]_vars
    PROVE  IInv'
<1>0. heap \in Graph(Nodes) /\ root \in Nodes
  BY HeapIsGraph DEF IInv
<1>1. CASE AssertDeeplyImmutable
  <2>1. <<root>> \in Seq(Nodes)
    BY <1>0
  <2>2. phase = "call" /\ Begin(<<root>>) /\ Admissible
    BY <1>1 DEF AssertDeeplyImmutable, Admissible
  <2> QED
    BY <2>1, <2>2, BeginStep
<1>2. CASE ValidateFrozenInstance
  <2>1. heap[root].kids \in Seq(Nodes) /\ Recursed(heap, root)
    BY <1>0, <1>2 DEF ValidateFrozenInstance, Graph, Recursed
  <2> QED
    BY <1>2, <2>1, BeginStep DEF ValidateFrozenInstance, Admissible
<1>3. CASE RefuseArgument
  BY <1>3 DEF RefuseArgument, IInv, TypeOK, Phases, CallsInv, OutcomeInv, PathLeadsToOffender
<1>4. CASE VisitLeaf \/ VisitSeen
  <2>1. /\ CallDue /\ phase = "walk" /\ Settled(heap, seenOk, Arg)
        /\ Return(stack, onPath, seenOk)
    BY <1>4 DEF VisitLeaf, VisitSeen, Settled, CallDue
  <2>2. /\ at \in 1..Len(calls)
        /\ onPath \in SUBSET Nodes /\ seenOk \in SUBSET Nodes
        /\ stack = <<>> => Arg = calls[at]
        /\ stack # <<>> => /\ Top.next <= Len(heap[Top.node].kids)
                           /\ Arg = heap[Top.node].kids[Top.next]
    BY <2>1, CallFacts DEF IInv, TypeOK
  <2> QED
    BY <2>1, <2>2, ReturnStep DEF IInv, Top
<1>5. CASE VisitCycle
  <2>1. Offending(heap, Arg)
    BY <1>5, OpenMeansCycle DEF VisitCycle, Offending
  <2> QED
    BY <1>5, <2>1, RaiseStep DEF VisitCycle, Reasons
<1>6. CASE VisitMutable
  <2>1. Offending(heap, Arg)
    BY <1>6 DEF VisitMutable, Offending, IsLeaf, Recursed
  <2>2. heap[Arg].kind \in Reasons /\ heap[Arg].kind \notin {"recursion", "cycle"}
    BY <1>6 DEF VisitMutable, Reasons
  <2> QED
    BY <1>6, <2>1, <2>2, RaiseStep DEF VisitMutable
<1>7. CASE EnterContainer
  BY <1>7, EnterStep
<1>8. CASE LeaveContainer
  BY <1>8, LeaveStep
<1>9. CASE StackOverflow
  BY <1>9, RaiseStep DEF StackOverflow, Reasons
<1>10. CASE Unwind
  BY <1>10, UnwindStep
<1>11. CASE Fail
  <2>1. /\ UNCHANGED <<heap, room, root, entry, calls, at, stack, onPath, seenOk, err>>
        /\ phase = "unwind"
        /\ phase' = Outcome(err.reason)
    BY <1>11 DEF Fail
  <2>2. TypeOK' /\ CallsInv' /\ PathLeadsToOffender'
    BY <2>1 DEF IInv, TypeOK, Phases, Outcome, CallsInv, Admissible, PathLeadsToOffender
  <2>3. OutcomeInv'
    BY <2>1 DEF IInv, OutcomeInv, Outcome
  <2> QED
    BY <2>1, <2>2, <2>3 DEF IInv
<1>12. CASE Succeed
  <2>1. /\ UNCHANGED <<heap, room, root, entry, calls, at, stack, onPath, seenOk, err>>
        /\ phase = "walk" /\ phase' = "accept" /\ at > Len(calls)
    BY <1>12 DEF Succeed
  <2>2. TypeOK' /\ CallsInv' /\ PathLeadsToOffender'
    BY <2>1 DEF IInv, TypeOK, Phases, CallsInv, Admissible, PathLeadsToOffender
  <2>3. OutcomeInv'
    BY <2>1, AllCallsReturned DEF IInv, OutcomeInv
  <2> QED
    BY <2>1, <2>2, <2>3 DEF IInv
<1>13. CASE UNCHANGED vars
  BY <1>13 DEF vars, IInv, TypeOK, CallsInv, Admissible, OutcomeInv, PathLeadsToOffender
<1>14. CASE RenderRaises
  BY <1>14, RenderedBelow, RaiseStep DEF RenderRaises, Reasons
<1> QED
  BY <1>1, <1>2, <1>3, <1>4, <1>5, <1>6, <1>7, <1>8, <1>9, <1>10, <1>11, <1>12, <1>13,
     <1>14 DEF Next

(* The invariant holds throughout every walk. *)
THEOREM Invariance == Spec => []IInv
<1>1. Init => IInv
  BY InvInit
<1>2. IInv /\ [Next]_vars => IInv'
  BY InvNext
<1> QED
  BY <1>1, <1>2, PTL DEF Spec

-----------------------------------------------------------------------------
(* What follows for every graph, every argument and every stack size. *)

(* The walker's data keep their types, for both entry points. *)
THEOREM TypeCorrect == Spec => []TypeOK
<1>1. IInv => TypeOK
  BY DEF IInv
<1> QED
  BY <1>1, Invariance, PTL

(* assert_deeply_immutable and validate_frozen_instance return exactly for *)
(* deeply immutable objects, raise MutableFieldError for the others only,  *)
(* run out of stack only on as many nested containers as it had room for,  *)
(* and let another exception through only if a __repr__ below raises.      *)
THEOREM VerdictIsCorrect == Spec => []VerdictCorrect
<1>1. IInv => VerdictCorrect
  BY DEF IInv, VerdictCorrect, OutcomeInv, Outcome
<1> QED
  BY <1>1, Invariance, PTL

(* The cache seen_ok never holds an object that is not deeply immutable,   *)
(* whatever the walk still has open.                                       *)
THEOREM SeenIsSound == Spec => []SeenSound
<1>1. IInv => SeenSound
  <2> SUFFICES ASSUME IInv, NEW n \in seenOk
               PROVE  DeeplyImmutable(heap, n)
    BY DEF SeenSound
  <2>1. /\ heap \in Graph(Nodes) /\ seenOk \in SUBSET Nodes
        /\ Certificate(heap, seenOk)
    BY HeapIsGraph DEF IInv, TypeOK
  <2>2. Settled(heap, seenOk, n) /\ n \in Nodes
    BY <2>1 DEF Settled
  <2> QED
    BY <2>1, <2>2, CertificateSound
<1> QED
  BY <1>1, Invariance, PTL

(* on_path is the set of open frames at every moment, on the exception     *)
(* paths too.                                                              *)
THEOREM OnPathIsExact == Spec => []OnPathIsStack
<1>1. IInv => OnPathIsStack
  BY DEF IInv, StackInv, PathMatches, Open, OnPathIsStack
<1> QED
  BY <1>1, Invariance, PTL

(* A MutableFieldError points at the fault it names. *)
THEOREM PathIsCorrect == Spec => []PathLeadsToOffender
<1>1. IInv => PathLeadsToOffender
  BY DEF IInv
<1> QED
  BY <1>1, Invariance, PTL

(***************************************************************************)
(* The action property and the refinement.                                 *)
(***************************************************************************)
Known == onPath \cup seenOk

KnownKept == at' = at /\ phase' = "walk" => Known \subseteq Known'

OpensUnknown == Len(stack') > Len(stack) => stack'[Len(stack')].node \notin Known

(* A returning call forgets nothing and opens nothing. *)
LEMMA ReturnKeeps ==
    ASSUME IInv, NEW outer \in Seq(Frame), NEW path, NEW seen,
           Return(outer, path, seen), Len(outer) <= Len(stack),
           Known \subseteq path \cup seen
    PROVE  KnownKept /\ OpensUnknown
<1>0. Len(stack) \in Nat /\ at \in Nat
  BY DEF IInv, TypeOK
<1>1. CASE outer = <<>>
  <2>1. at' = at + 1 /\ Len(stack') = 0
    BY <1>1 DEF Return
  <2> QED
    BY <1>0, <2>1 DEF KnownKept, OpensUnknown
<1>2. CASE outer # <<>>
  <2>1. Len(stack') = Len(outer) /\ onPath' = path /\ seenOk' = seen
    <3>1. stack' = [outer EXCEPT ![Len(outer)] =
                       [node |-> @.node, next |-> @.next + 1]]
      BY <1>2 DEF Return
    <3> QED
      BY <1>2, <3>1 DEF Return
  <2>2. Len(outer) \in Nat
    OBVIOUS
  <2> QED
    BY <1>0, <2>1, <2>2 DEF KnownKept, OpensUnknown, Known
<1> QED
  BY <1>1, <1>2

(* No container is opened twice within one top-level call of _validate, so *)
(* the walk is linear in the graph however much of it is shared.           *)
THEOREM WalkIsLinear == Spec => NoRevisit
<1>1. ASSUME IInv, [Next]_vars
      PROVE  UNCHANGED vars \/ (KnownKept /\ OpensUnknown)
  <2>0. stack \in Seq(Frame) /\ Len(stack) \in Nat
    BY <1>1 DEF IInv, TypeOK
  <2>1. CASE VisitLeaf \/ VisitSeen
    <3>1. Return(stack, onPath, seenOk)
      BY <2>1 DEF VisitLeaf, VisitSeen
    <3> QED
      BY <1>1, <2>0, <3>1, ReturnKeeps DEF Known
  <2>2. CASE EnterContainer
    <3>1. /\ stack' = Append(stack, [node |-> Arg, next |-> 1])
          /\ onPath' = onPath \cup {Arg} /\ seenOk' = seenOk
          /\ Arg \notin onPath /\ Arg \notin seenOk
      BY <2>2 DEF EnterContainer, Fresh
    <3>2. [node |-> Arg, next |-> 1] \in Frame
      BY <1>1, <2>2, CallFacts DEF EnterContainer, Frame
    <3>3. stack'[Len(stack')].node = Arg
      BY <2>0, <3>1, <3>2, AppendProperties
    <3> QED
      BY <3>1, <3>3 DEF KnownKept, OpensUnknown, Known
  <2>3. CASE LeaveContainer
    <3>1. /\ stack # <<>>
          /\ Return(SubSeq(stack, 1, Len(stack) - 1),
                    onPath \ {Top.node}, seenOk \cup {Top.node})
      BY <2>3 DEF LeaveContainer
    <3>2. heap \in Graph(Nodes) /\ StackInv(heap, calls[at], stack, onPath, seenOk)
      BY <1>1, HeapIsGraph DEF IInv
    <3>3. /\ SubSeq(stack, 1, Len(stack) - 1) \in Seq(Frame)
          /\ Len(SubSeq(stack, 1, Len(stack) - 1)) = Len(stack) - 1
      BY <3>1, <3>2, StackPop DEF StackInv
    <3>4. Len(stack) - 1 <= Len(stack)
      BY <2>0
    <3>5. Known \subseteq (onPath \ {Top.node}) \cup (seenOk \cup {Top.node})
      BY DEF Known
    <3> QED
      BY <1>1, <3>1, <3>3, <3>4, <3>5, ReturnKeeps
  <2>4. CASE Unwind
    <3>1. phase' = "unwind" /\ stack # <<>> /\ stack' = SubSeq(stack, 1, Len(stack) - 1)
      BY <2>4 DEF Unwind
    <3>2. heap \in Graph(Nodes) /\ StackInv(heap, calls[at], stack, onPath, seenOk)
      BY <1>1, HeapIsGraph DEF IInv
    <3>3. Len(stack') = Len(stack) - 1
      BY <3>1, <3>2, StackPop
    <3> QED
      BY <2>0, <3>1, <3>3 DEF KnownKept, OpensUnknown
  <2>5. CASE \/ AssertDeeplyImmutable \/ ValidateFrozenInstance \/ RefuseArgument
             \/ VisitCycle \/ VisitMutable \/ StackOverflow \/ RenderRaises \/ Fail \/ Succeed
    <3>1. stack' = stack /\ onPath' = onPath /\ seenOk' = seenOk
      BY <2>5 DEF AssertDeeplyImmutable, ValidateFrozenInstance, RefuseArgument, Begin,
                  VisitCycle, VisitMutable, StackOverflow, RenderRaises, Fail, Succeed, Raise
    <3> QED
      BY <2>0, <3>1 DEF KnownKept, OpensUnknown, Known
  <2> QED
    BY <1>1, <2>1, <2>2, <2>3, <2>4, <2>5 DEF Next
<1>2. ASSUME IInv, [Next]_vars
      PROVE  [/\ at' = at /\ phase' = "walk" =>
                    onPath \cup seenOk \subseteq onPath' \cup seenOk'
              /\ Len(stack') > Len(stack) =>
                    stack'[Len(stack')].node \notin onPath \cup seenOk]_vars
  BY <1>1, <1>2 DEF KnownKept, OpensUnknown, Known
<1> QED
  BY <1>2, Invariance, PTL DEF Spec, NoRevisit

(* The instance of the abstract specification speaks of the same graph     *)
(* operators.                                                              *)
LEMMA SameMeaning ==
    /\ Abstract!DeeplyImmutable(heap, root) <=> DeeplyImmutable(heap, root)
    /\ Abstract!Nested(heap, root, room) <=> Nested(heap, root, room)
    /\ Abstract!HoldsOneOf(heap, root, Unprintable) <=> HoldsOneOf(heap, root, Unprintable)
BY DEF DeeplyImmutable, Offending, OnCycle, Reach, Closed, Succ, Recursed, IsLeaf, Nested,
       Abstract!DeeplyImmutable, Abstract!Offending, Abstract!OnCycle, Abstract!Reach,
       Abstract!Closed, Abstract!Succ, Abstract!Recursed, Abstract!IsLeaf, Abstract!Nested,
       HoldsOneOf, Abstract!HoldsOneOf

(* The walk implements the one-step decision of DeepImmutability: every    *)
(* step of _validate either leaves the caller waiting or answers as the    *)
(* object graph demands.  (That an answer comes is checked by TLC.)        *)
THEOREM WalkImplementsDecision ==
    Spec => Abstract!Init /\ [][Abstract!Next]_(Abstract!vars)
<1> DEFINE Verdict == IF phase \in {"call", "walk", "unwind"} THEN "pending" ELSE phase
<1>1. Init => Abstract!Init
  BY DEF Init, Abstract!Init, Entries, Abstract!Entries
<1>2. ASSUME IInv, [Next]_vars
      PROVE  [Abstract!Next]_(Abstract!vars)
  <2>1. CASE RefuseArgument
    <3>1. Abstract!Refused
      BY <2>1 DEF RefuseArgument, Abstract!Refused, Abstract!Answer
    <3> QED
      BY <3>1 DEF Abstract!Next
  <2>2. CASE Succeed
    <3>1. phase = "walk" /\ phase' = "accept" /\ UNCHANGED <<heap, room, root, entry>>
      BY <2>2 DEF Succeed
    <3>2. DeeplyImmutable(heap, root) /\ Admissible
      <4>1. IInv'
        BY <1>2, InvNext
      <4> QED
        BY <3>1, <4>1 DEF IInv, OutcomeInv, CallsInv, Admissible
    <3>3. Abstract!Accepted
      BY <3>1, <3>2, SameMeaning
         DEF Abstract!Accepted, Abstract!Answer, Abstract!Admissible, Admissible
    <3> QED
      BY <3>3 DEF Abstract!Next
  <2>3. CASE Fail
    <3>1. /\ phase = "unwind" /\ UNCHANGED <<heap, room, root, entry>>
          /\ phase' = Outcome(err.reason)
      BY <2>3 DEF Fail
    <3>2. /\ Admissible
          /\ err.reason \notin {"recursion", "repr"} => ~ DeeplyImmutable(heap, root)
          /\ err.reason = "recursion" => Nested(heap, root, room)
          /\ err.reason = "repr" => HoldsOneOf(heap, root, Unprintable)
      BY <1>2, <3>1 DEF IInv, OutcomeInv, CallsInv
    <3>3. CASE err.reason = "recursion"
      <4>1. Abstract!Overflowed
        BY <3>1, <3>2, <3>3, SameMeaning
           DEF Outcome, Abstract!Overflowed, Abstract!Answer, Abstract!Admissible, Admissible
      <4> QED
        BY <4>1 DEF Abstract!Next
    <3>4. CASE err.reason = "repr"
      <4>1. Abstract!Interrupted
        BY <3>1, <3>2, <3>4, SameMeaning
           DEF Outcome, Abstract!Interrupted, Abstract!Answer, Abstract!Admissible, Admissible
      <4> QED
        BY <4>1 DEF Abstract!Next
    <3>5. CASE err.reason \notin {"recursion", "repr"}
      <4>1. Abstract!Rejected
        BY <3>1, <3>2, <3>5, SameMeaning
           DEF Outcome, Abstract!Rejected, Abstract!Answer, Abstract!Admissible, Admissible
      <4> QED
        BY <4>1 DEF Abstract!Next
    <3> QED
      BY <3>3, <3>4, <3>5
  <2>4. CASE \/ AssertDeeplyImmutable \/ ValidateFrozenInstance
             \/ VisitLeaf \/ VisitSeen \/ VisitCycle \/ VisitMutable
             \/ EnterContainer \/ LeaveContainer \/ StackOverflow \/ RenderRaises \/ Unwind
             \/ UNCHANGED vars
    <3>1. /\ UNCHANGED <<heap, room, root, entry>>
          /\ Verdict' = Verdict
      BY <2>4 DEF AssertDeeplyImmutable, ValidateFrozenInstance, Begin, VisitLeaf, VisitSeen,
                  VisitCycle, VisitMutable, EnterContainer, LeaveContainer, StackOverflow,
                  RenderRaises,
                  Unwind, Return, Raise, vars, CallDue
    <3> QED
      BY <3>1 DEF Abstract!vars
  <2> QED
    BY <1>2, <2>1, <2>2, <2>3, <2>4 DEF Next
<1> QED
  BY <1>1, <1>2, Invariance, PTL DEF Spec
=============================================================================
