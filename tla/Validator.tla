----------------------------- MODULE Validator -----------------------------
(***************************************************************************)
(* The recursive walk _validate of immutable.py with its two entry points  *)
(* assert_deeply_immutable and validate_frozen_instance.  The Python call  *)
(* stack is the variable stack: one frame per open container, with the     *)
(* position of the child being visited; the frames' positions are the path *)
(* a MutableFieldError renders.  Each action is one call of _validate that *)
(* returns or raises at once, one that opens a container, or the end of a  *)
(* container's loop.                                                       *)
(***************************************************************************)
EXTENDS ObjectGraph

CONSTANTS
    Nodes,      \* object identities, id(value)
    Objects,    \* the contents an object may have: [kind, kids]
    Roots,      \* the objects a caller may pass
    MaxDepth,   \* nested _validate calls an empty interpreter stack has room for
    Unprintable \* the objects whose __repr__ raises

ASSUME ObjectsAssumption == Objects \subseteq [kind : Kinds, kids : Seq(Nodes)]
ASSUME RootsAssumption == Roots \subseteq Nodes
ASSUME MaxDepthAssumption == MaxDepth \in Nat \ {0}

VARIABLES
    heap,       \* the object graph; the walk only reads it
    room,       \* nested _validate calls the caller's stack has left room for
    root,       \* the argument of the entry point
    entry,      \* the entry point called
    calls,      \* the values the entry point passes to _validate, in order
    at,         \* index in calls of the current top-level _validate
    stack,      \* open frames of _validate
    onPath,     \* the set on_path
    seenOk,     \* the set seen_ok
    phase,      \* "call", "walk", "unwind", then the outcome
    err         \* the exception being raised, if any

vars == <<heap, room, root, entry, calls, at, stack, onPath, seenOk, phase, err>>

Entries == {"assert_deeply_immutable", "validate_frozen_instance"}
Reasons == {"cycle", "named", "dataclass", "unknown", "recursion", "repr"}
Phases == {"call", "walk", "unwind", "accept", "reject", "typeerror", "overflow", "foreign"}

Frame == [node : Nodes, next : Nat \ {0}]

NoError == [reason |-> "none", path |-> <<>>, value |-> root]

Init ==
    /\ heap \in [Nodes -> Objects]
    /\ room \in 1..MaxDepth
    /\ root \in Roots
    /\ entry \in Entries
    /\ calls = <<>>
    /\ at = 1
    /\ stack = <<>>
    /\ onPath = {}
    /\ seenOk = {}
    /\ phase = "call"
    /\ err = NoError

(***************************************************************************)
(* Entry points.                                                           *)
(***************************************************************************)
Begin(values) ==
    /\ phase' = "walk"
    /\ calls' = values
    /\ UNCHANGED <<heap, room, root, entry, at, stack, onPath, seenOk, err>>

AssertDeeplyImmutable ==
    /\ phase = "call"
    /\ entry = "assert_deeply_immutable"
    /\ Begin(<<root>>)

ValidateFrozenInstance ==
    /\ phase = "call"
    /\ entry = "validate_frozen_instance"
    /\ heap[root].kind = "record"
    /\ Begin(heap[root].kids)

RefuseArgument ==
    /\ phase = "call"
    /\ entry = "validate_frozen_instance"
    /\ heap[root].kind # "record"
    /\ phase' = "typeerror"
    /\ UNCHANGED <<heap, room, root, entry, calls, at, stack, onPath, seenOk, err>>

(***************************************************************************)
(* One call of _validate.  Arg is its value; a call is due while the loop  *)
(* of the innermost frame, or of the entry point, has a value left.        *)
(***************************************************************************)
Top == stack[Len(stack)]

Arg == IF stack = <<>> THEN calls[at] ELSE heap[Top.node].kids[Top.next]

CallDue ==
    /\ phase = "walk"
    /\ IF stack = <<>>
       THEN at <= Len(calls)
       ELSE Top.next <= Len(heap[Top.node].kids)

HasRoom == Len(stack) < room

(* A call returns to the frames outer: their loop moves on to the next     *)
(* child.  The entry points give every top-level call fresh sets.          *)
Return(outer, path, seen) ==
    /\ IF outer = <<>>
       THEN /\ at' = at + 1
            /\ stack' = <<>>
            /\ onPath' = {}
            /\ seenOk' = {}
       ELSE /\ stack' = [outer EXCEPT ![Len(outer)] =
                            [node |-> @.node, next |-> @.next + 1]]
            /\ onPath' = path
            /\ seenOk' = seen
            /\ UNCHANGED at
    /\ UNCHANGED <<heap, room, root, entry, calls, phase, err>>

(* Mutated form: the path of the enclosing container is reported.          *)
RaiseOuter(reason) ==
    /\ phase' = "unwind"
    /\ err' = [reason |-> reason,
               path |-> IF stack = <<>> THEN <<>> ELSE SubSeq(stack, 1, Len(stack) - 1),
               value |-> Arg]
    /\ UNCHANGED <<heap, room, root, entry, calls, at, stack, onPath, seenOk>>

Raise(reason) ==
    /\ phase' = "unwind"
    /\ err' = [reason |-> reason, path |-> stack, value |-> Arg]
    /\ UNCHANGED <<heap, room, root, entry, calls, at, stack, onPath, seenOk>>

VisitLeaf ==
    /\ CallDue /\ HasRoom
    /\ IsLeaf(heap, Arg)
    /\ Return(stack, onPath, seenOk)

(* Mutated form: the sets are consulted in the wrong order of conditions,  *)
(* so a container that is still open counts as accepted.                   *)
VisitSeenOpen ==
    /\ CallDue /\ HasRoom
    /\ ~ IsLeaf(heap, Arg)
    /\ Arg \in seenOk \cup onPath
    /\ Return(stack, onPath, seenOk)

VisitSeen ==
    /\ CallDue /\ HasRoom
    /\ ~ IsLeaf(heap, Arg)
    /\ Arg \in seenOk
    /\ Return(stack, onPath, seenOk)

Fresh == ~ IsLeaf(heap, Arg) /\ Arg \notin seenOk

VisitCycle ==
    /\ CallDue /\ HasRoom
    /\ Fresh
    /\ Arg \in onPath
    /\ Raise("cycle")

VisitMutable ==
    /\ CallDue /\ HasRoom
    /\ Fresh
    /\ Arg \notin onPath
    /\ heap[Arg].kind \in {"named", "dataclass", "unknown"}
    /\ Raise(heap[Arg].kind)

(* Mutated forms: the loop starts one too low; seen_ok.add is moved before *)
(* the loop.                                                               *)
EnterContainerFromZero ==
    /\ CallDue /\ HasRoom
    /\ Fresh
    /\ Arg \notin onPath
    /\ Recursed(heap, Arg)
    /\ stack' = Append(stack, [node |-> Arg, next |-> 0])
    /\ onPath' = onPath \cup {Arg}
    /\ UNCHANGED <<heap, room, root, entry, calls, at, seenOk, phase, err>>

EnterContainerMarked ==
    /\ CallDue /\ HasRoom
    /\ Fresh
    /\ Arg \notin onPath
    /\ Recursed(heap, Arg)
    /\ stack' = Append(stack, [node |-> Arg, next |-> 1])
    /\ onPath' = onPath \cup {Arg}
    /\ seenOk' = seenOk \cup {Arg}
    /\ UNCHANGED <<heap, room, root, entry, calls, at, phase, err>>

EnterContainer ==
    /\ CallDue /\ HasRoom
    /\ Fresh
    /\ Arg \notin onPath
    /\ Recursed(heap, Arg)
    /\ stack' = Append(stack, [node |-> Arg, next |-> 1])
    /\ onPath' = onPath \cup {Arg}
    /\ UNCHANGED <<heap, room, root, entry, calls, at, seenOk, phase, err>>

(* Mutated forms: seen_ok.add forgotten; on_path.discard forgotten.        *)
LeaveContainerUnmarked ==
    /\ phase = "walk"
    /\ stack # <<>>
    /\ Top.next > Len(heap[Top.node].kids)
    /\ Return(SubSeq(stack, 1, Len(stack) - 1), onPath \ {Top.node}, seenOk)

LeaveContainerOpen ==
    /\ phase = "walk"
    /\ stack # <<>>
    /\ Top.next > Len(heap[Top.node].kids)
    /\ Return(SubSeq(stack, 1, Len(stack) - 1), onPath, seenOk)

(* The loop of the innermost frame is over: the finally clause, then the   *)
(* node is recorded as accepted and the call returns.                      *)
LeaveContainer ==
    /\ phase = "walk"
    /\ stack # <<>>
    /\ Top.next > Len(heap[Top.node].kids)
    /\ Return(SubSeq(stack, 1, Len(stack) - 1),
              onPath \ {Top.node}, seenOk \cup {Top.node})

(* One call too many for the interpreter: RecursionError. *)
StackOverflow ==
    /\ CallDue
    /\ ~ HasRoom
    /\ Raise("recursion")

(* A path segment is made before the call it is for: the elements of a     *)
(* frozenset and the keys of a FrozenDict are rendered with repr.  (Those  *)
(* of a tuple are not; the kind "frozen" is for all three.)                *)
RenderRaises ==
    /\ CallDue
    /\ stack # <<>>
    /\ heap[Top.node].kind = "frozen"
    /\ Arg \in Unprintable
    /\ Raise("repr")

(***************************************************************************)
(* An exception leaves the frames one by one through their finally clause. *)
(***************************************************************************)
Unwind ==
    /\ phase = "unwind"
    /\ stack # <<>>
    /\ onPath' = onPath \ {Top.node}
    /\ stack' = SubSeq(stack, 1, Len(stack) - 1)
    /\ UNCHANGED <<heap, room, root, entry, calls, at, seenOk, phase, err>>

(* Mutated form: a RecursionError is taken for a MutableFieldError.        *)
FailAlike ==
    /\ phase = "unwind"
    /\ stack = <<>>
    /\ phase' = "reject"
    /\ UNCHANGED <<heap, room, root, entry, calls, at, stack, onPath, seenOk, err>>

Outcome(reason) ==
    CASE reason = "recursion" -> "overflow"
      [] reason = "repr" -> "foreign"
      [] OTHER -> "reject"

Fail ==
    /\ phase = "unwind"
    /\ stack = <<>>
    /\ phase' = Outcome(err.reason)
    /\ UNCHANGED <<heap, room, root, entry, calls, at, stack, onPath, seenOk, err>>

Succeed ==
    /\ phase = "walk"
    /\ stack = <<>>
    /\ at > Len(calls)
    /\ phase' = "accept"
    /\ UNCHANGED <<heap, room, root, entry, calls, at, stack, onPath, seenOk, err>>

Next ==
    \/ AssertDeeplyImmutable \/ ValidateFrozenInstance \/ RefuseArgument
    \/ VisitLeaf \/ VisitSeen \/ VisitCycle \/ VisitMutable
    \/ EnterContainer \/ LeaveContainer \/ StackOverflow \/ RenderRaises
    \/ Unwind \/ Fail \/ Succeed

(* The walk is ordinary sequential code: while it can step, it steps. *)
Spec == Init /\ [][Next]_vars /\ WF_vars(Next)

-----------------------------------------------------------------------------
(***************************************************************************)
(* Properties.                                                             *)
(***************************************************************************)
(* Every variable stays within its type (_validate's arguments). *)
TypeOK ==
    /\ heap \in [Nodes -> Objects]
    /\ room \in 1..MaxDepth
    /\ root \in Roots
    /\ entry \in Entries
    /\ calls \in Seq(Nodes)
    /\ at \in Nat \ {0}
    /\ stack \in Seq(Frame)
    /\ onPath \subseteq Nodes
    /\ seenOk \subseteq Nodes
    /\ phase \in Phases
    /\ err \in [reason : Reasons \cup {"none"}, path : Seq(Frame), value : Nodes]

(* Whatever the walk skips because seen_ok holds it really is deeply       *)
(* immutable at that moment, while the walk is still in the middle of the  *)
(* graph that surrounds it: the cache of accepted ids is never ahead.      *)
SeenSound == \A n \in seenOk : DeeplyImmutable(heap, n)

(* on_path is exactly the set of open frames, each open once, whether the  *)
(* frames are entered, left or unwound by an exception.                    *)
OnPathIsStack ==
    /\ onPath = {stack[i].node : i \in 1..Len(stack)}
    /\ \A i, j \in 1..Len(stack) : stack[i].node = stack[j].node => i = j
    /\ onPath \cap seenOk = {}

(* The verdict is the semantic one for every graph, shared and cyclic ones *)
(* included: the call returns for deeply immutable objects only, and       *)
(* fails to return only for the others, for more nesting than the stack    *)
(* has room for, or for an object below whose __repr__ raises.             *)
VerdictCorrect ==
    /\ phase = "accept" => DeeplyImmutable(heap, root)
    /\ phase = "reject" => ~ DeeplyImmutable(heap, root)
    /\ phase = "overflow" => Nested(heap, root, room)
    /\ phase = "foreign" => HoldsOneOf(heap, root, Unprintable)

(* The path a MutableFieldError reports leads, step by step, from the      *)
(* value handed to _validate to the object at fault, and that object has   *)
(* the fault the reason names.                                             *)
PathLeadsToOffender ==
    err.reason # "none" =>
        LET path == err.path
            Child(f) == heap[f.node].kids[f.next]
            Target(i) == IF i < Len(path) THEN path[i + 1].node ELSE err.value
        IN  /\ (IF path = <<>> THEN err.value ELSE path[1].node) = calls[at]
            /\ \A i \in 1..Len(path) : Child(path[i]) = Target(i)
            /\ err.reason = "cycle" =>
                  \E i \in 1..Len(path) : path[i].node = err.value
            /\ err.reason \in {"named", "dataclass", "unknown"} =>
                  heap[err.value].kind = err.reason

(* The walk is linear in the graph: within one top-level call an object    *)
(* that was opened is never forgotten, so no container is opened twice     *)
(* however often it is shared.                                             *)
NoRevisit ==
    [][/\ at' = at /\ phase' = "walk" => onPath \cup seenOk \subseteq onPath' \cup seenOk'
       /\ Len(stack') > Len(stack) => stack'[Len(stack')].node \notin onPath \cup seenOk]_vars

(* The walk implements the one-step decision of DeepImmutability, and the  *)
(* decision is eventually taken: the walk ends on cyclic graphs too.       *)
Abstract == INSTANCE DeepImmutability WITH
    verdict <- IF phase \in {"call", "walk", "unwind"} THEN "pending" ELSE phase

Decides == Abstract!Spec
=============================================================================
