----------------------------- MODULE FrozenHeap -----------------------------
(***************************************************************************)
(* A program that builds and keeps values of the foundation's types while  *)
(* it goes on mutating the lists, dicts and plain objects it also holds.   *)
(* Every frozen record's __post_init__ calls validate_frozen_instance; the *)
(* question is whether that one check, made when the record is built, is   *)
(* enough for the record never to change afterwards.                       *)
(*                                                                         *)
(* The heap is the sequence of the objects allocated so far; an object's   *)
(* identity is its position.  An Enum member is a "leaf" that may hold a   *)
(* payload, its value, which the validator does not look at.               *)
(***************************************************************************)
EXTENDS ObjectGraph

CONSTANTS
    MaxObjects,         \* bound: objects a behaviour allocates
    MaxKids,            \* bound: references an object holds
    MutablePayloads     \* may the value of an Enum member be mutable?

ASSUME BoundsAssumption == MaxObjects \in Nat /\ MaxKids \in Nat
ASSUME PayloadsAssumption == MutablePayloads \in BOOLEAN

VARIABLE heap

vars == <<heap>>

Allocated == DOMAIN heap

(* Sequences of references to objects that exist. *)
References == UNION {[1..k -> Allocated] : k \in 0..MaxKids}

Allocate(kind, kids) ==
    /\ Len(heap) < MaxObjects
    /\ heap' = Append(heap, [kind |-> kind, kids |-> kids])

Init == heap = <<>>

NewLeaf == Allocate("leaf", <<>>)

NewEnumMember ==
    \E payload \in Allocated :
        /\ MutablePayloads \/ DeeplyImmutable(heap, payload)
        /\ Allocate("leaf", <<payload>>)

(* A list, dict, set, bytearray, an instance of a plain dataclass or class. *)
NewMutable ==
    \E kind \in {"named", "dataclass", "unknown"}, kids \in References :
        Allocate(kind, kids)

(* Tuples, frozensets and FrozenDicts take what they are given unchecked. *)
NewContainer == \E kids \in References : Allocate("frozen", kids)

(* Mutated forms: __post_init__ without the validation; a validation that  *)
(* looks at the fields' own types only.                                    *)
NewRecordUnchecked == \E kids \in References : Allocate("record", kids)

NewRecordShallow ==
    \E kids \in References :
        /\ \A i \in 1..Len(kids) : IsLeaf(heap, kids[i]) \/ Recursed(heap, kids[i])
        /\ Allocate("record", kids)

(* A frozen dataclass: __post_init__ validates every field, and when it    *)
(* raises, the instance never reaches the program.                         *)
NewRecord ==
    \E kids \in References :
        /\ \A i \in 1..Len(kids) : DeeplyImmutable(heap, kids[i])
        /\ Allocate("record", kids)

(* Mutated form: a reference one past the objects that exist.              *)
MutateDangling ==
    \E n \in Allocated, k \in 1..(Len(heap) + 1) :
        /\ heap[n].kind \in {"named", "dataclass", "unknown"}
        /\ heap' = [heap EXCEPT ![n] = [kind |-> @.kind, kids |-> <<k>>]]

Mutate ==
    \E n \in Allocated, kids \in References :
        /\ heap[n].kind \in {"named", "dataclass", "unknown"}
        /\ heap' = [heap EXCEPT ![n] = [kind |-> @.kind, kids |-> kids]]

Next == NewLeaf \/ NewEnumMember \/ NewMutable \/ NewContainer \/ NewRecord \/ Mutate

Spec == Init /\ [][Next]_vars

-----------------------------------------------------------------------------
(***************************************************************************)
(* Properties.                                                             *)
(***************************************************************************)
TypeOK ==
    /\ heap \in Seq([kind : Kinds, kids : Seq(Allocated)])
    /\ Len(heap) <= MaxObjects

(* Everything an object holds, the payloads of Enum members included. *)
Held(h, n) == {h[n].kids[i] : i \in 1..Len(h[n].kids)}

HeldReach(h, n) ==
    {m \in DOMAIN h :
        \A S \in SUBSET DOMAIN h :
            n \in S /\ (\A x \in S : Held(h, x) \subseteq S) => m \in S}

Contents(h, n) == [m \in HeldReach(h, n) |-> h[m]]

Records == {n \in Allocated : heap[n].kind = "record"}

(* A record that passed validation once would pass it at any later time,   *)
(* although it was only ever checked when it was built.                    *)
RecordsStayValid == \A n \in Records : DeeplyImmutable(heap, n)

(* What a frozen record holds at any depth, Enum payloads included, is     *)
(* immutable.                                                              *)
NothingMutableHeld ==
    \A n \in Records : \A m \in HeldReach(heap, n) : IsLeaf(heap, m) \/ Recursed(heap, m)

(* Nothing the program does later changes anything a frozen record holds,  *)
(* at any depth (assert_deeply_immutable: nothing mutable, at any depth).  *)
RecordsStayFrozen ==
    [][\A n \in Records : Contents(heap', n) = Contents(heap, n)]_vars
=============================================================================
