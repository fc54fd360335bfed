------------------------- MODULE DeepImmutability -------------------------
(***************************************************************************)
(* What the two entry points of immutable.py promise their callers: one    *)
(* answer about one object, decided by the object graph alone.             *)
(*                                                                         *)
(*   accept     the call returned: everything reachable is immutable       *)
(*   reject     MutableFieldError                                          *)
(*   typeerror  validate_frozen_instance was given something else          *)
(*   overflow   RecursionError: the graph holds as many nested containers  *)
(*              as the interpreter's stack had room left for               *)
(*   foreign    whatever the __repr__ of an object in the graph raised     *)
(***************************************************************************)
EXTENDS ObjectGraph

CONSTANTS Nodes, Objects, Roots, MaxDepth, Unprintable

VARIABLES heap, room, root, entry, verdict

vars == <<heap, room, root, entry, verdict>>

Entries == {"assert_deeply_immutable", "validate_frozen_instance"}

Init ==
    /\ heap \in [Nodes -> Objects]
    /\ room \in 1..MaxDepth
    /\ root \in Roots
    /\ entry \in Entries
    /\ verdict = "pending"

Answer(v) ==
    /\ verdict = "pending"
    /\ verdict' = v
    /\ UNCHANGED <<heap, room, root, entry>>

Refused ==
    /\ Answer("typeerror")
    /\ entry = "validate_frozen_instance"
    /\ heap[root].kind # "record"

Admissible == entry = "validate_frozen_instance" => heap[root].kind = "record"

Accepted ==
    /\ Answer("accept")
    /\ Admissible
    /\ DeeplyImmutable(heap, root)

Rejected ==
    /\ Answer("reject")
    /\ Admissible
    /\ ~ DeeplyImmutable(heap, root)

Overflowed ==
    /\ Answer("overflow")
    /\ Admissible
    /\ Nested(heap, root, room)

Interrupted ==
    /\ Answer("foreign")
    /\ Admissible
    /\ HoldsOneOf(heap, root, Unprintable)

Next == Refused \/ Accepted \/ Rejected \/ Overflowed \/ Interrupted

Spec == Init /\ [][Next]_vars /\ WF_vars(Next)
=============================================================================
