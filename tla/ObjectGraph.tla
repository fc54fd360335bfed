---------------------------- MODULE ObjectGraph ----------------------------
(***************************************************************************)
(* The graph of Python objects that the validator of immutable.py walks.   *)
(* A heap maps an object identity to its kind and to the sequence of the   *)
(* objects it refers to, in the order the validator iterates over them (a  *)
(* FrozenDict contributes key, value, key, value, ...).                    *)
(*                                                                         *)
(*   leaf      an exact leaf type, or an Enum member                       *)
(*   frozen    a tuple, a frozenset or a FrozenDict                        *)
(*   record    an instance of a frozen dataclass                           *)
(*   named     list, dict, set, bytearray, memoryview                      *)
(*   dataclass an instance of a dataclass that is not frozen               *)
(*   unknown   an instance of any other class                              *)
(***************************************************************************)
EXTENDS Naturals, Sequences

Kinds == {"leaf", "frozen", "record", "named", "dataclass", "unknown"}

IsLeaf(heap, n) == heap[n].kind = "leaf"

(* The kinds whose contents the validator visits. *)
Recursed(heap, n) == heap[n].kind \in {"frozen", "record"}

Succ(heap, n) ==
    IF Recursed(heap, n)
    THEN {heap[n].kids[i] : i \in 1..Len(heap[n].kids)}
    ELSE {}

(***************************************************************************)
(* What "deeply immutable" means, independently of how it is decided.      *)
(***************************************************************************)
Closed(heap, S) == \A n \in S : Succ(heap, n) \subseteq S

Reach(heap, n) ==
    {m \in DOMAIN heap :
        \A S \in SUBSET DOMAIN heap : n \in S /\ Closed(heap, S) => m \in S}

(* m lies on a reference cycle: one of its own contents leads back to it. *)
OnCycle(heap, m) == \E k \in Succ(heap, m) : m \in Reach(heap, k)

Offending(heap, m) ==
    \/ ~ (IsLeaf(heap, m) \/ Recursed(heap, m))
    \/ OnCycle(heap, m)

DeeplyImmutable(heap, n) == \A m \in Reach(heap, n) : ~ Offending(heap, m)

(* Below n, d distinct containers are nested, each directly in the one     *)
(* before it.                                                              *)
Nested(heap, n, d) ==
    \E c \in [1..d -> {m \in Reach(heap, n) : Recursed(heap, m)}] :
        /\ \A i \in 1..(d - 1) : c[i + 1] \in Succ(heap, c[i])
        /\ \A i, j \in 1..d : c[i] = c[j] => i = j

(* Below n, a frozen container holds an object of S. *)
HoldsOneOf(heap, n, S) ==
    \E c \in Reach(heap, n) : heap[c].kind = "frozen" /\ Succ(heap, c) \cap S # {}
=============================================================================
