---------------------------- MODULE EvidenceLog ----------------------------
(***************************************************************************)
(* Evidence of evidence.py and its two producers, used by a program that   *)
(* issues evidence ids and appends the evidence it makes to a log.  (The   *)
(* library keeps no store of its own; the program is external.)  An        *)
(* Evidence is reduced to its id, its status class and the ids it cites.   *)
(***************************************************************************)
EXTENDS Naturals, Sequences

CONSTANTS
    MaxId,      \* the largest value of an EvidenceId (2^64 - 1)
    MaxCited,   \* bound: ids an evidence cites
    Statuses,   \* the status classes the program constructs directly
    Ahead       \* does the program cite evidence it has yet to make?

ASSUME BoundsAssumption == MaxId \in Nat /\ MaxCited \in Nat
ASSUME AheadAssumption == Ahead \in BOOLEAN

VARIABLES
    issued,     \* values the program has made EvidenceIds of
    log         \* the evidence made so far

vars == <<issued, log>>

StatusClasses ==
    {"Assumed", "Specified", "StaticallyDerived", "SmtProved", "FormallyProved",
     "RuntimeChecked", "Measured", "Predicted", "AiInferred"}

ASSUME StatusesAssumption == Statuses \subseteq StatusClasses

Made == {log[i].id : i \in 1..Len(log)}

Cited(e) == {e.provenance[k] : k \in 1..Len(e.provenance)}

Init ==
    /\ issued = {}
    /\ log = <<>>

(* Mutated form: the value may be the size of the range. *)
NewEvidenceIdOneMore(value) ==
    /\ value \notin issued
    /\ value \in 0..(MaxId + 1)
    /\ issued' = issued \cup {value}
    /\ UNCHANGED log

(* EvidenceId(value), for a value not issued before; out of range it raises. *)
NewEvidenceId(value) ==
    /\ value \notin issued
    /\ value \in 0..MaxId
    /\ issued' = issued \cup {value}
    /\ UNCHANGED log

(***************************************************************************)
(* What the program hands to the constructor: an id it has not used, and   *)
(* ids of evidence it has made (or, Ahead, of any it has issued); citing   *)
(* the new id itself is a mistake it may make.                             *)
(***************************************************************************)
Citable(id) == IF Ahead THEN issued ELSE Made \cup {id}

Arguments(id, provenance) ==
    /\ id \in issued \ Made
    /\ provenance \in UNION {[1..n -> Citable(id)] : n \in 0..MaxCited}

(* The constructor refuses an evidence that cites its own id. *)
Evidence(id, status, provenance) ==
    /\ Arguments(id, provenance)
    /\ \A k \in 1..Len(provenance) : provenance[k] # id
    /\ log' = Append(log, [id |-> id, status |-> status, provenance |-> provenance])
    /\ UNCHANGED issued

SpecifiedEvidence(id, provenance) == Evidence(id, "Specified", provenance)

(* Mutated form: a derivation without premises is let through. *)
DerivedFromNothing(id, provenance) == Evidence(id, "StaticallyDerived", provenance)

StaticallyDerivedEvidence(id, provenance) ==
    /\ provenance # <<>>
    /\ Evidence(id, "StaticallyDerived", provenance)

Next ==
    \/ \E value \in 0..(MaxId + 1) : NewEvidenceId(value)
    \/ \E id \in issued : \E provenance \in UNION {[1..n -> issued] : n \in 0..MaxCited} :
        \/ SpecifiedEvidence(id, provenance)
        \/ StaticallyDerivedEvidence(id, provenance)
        \/ \E status \in Statuses : Evidence(id, status, provenance)

Spec == Init /\ [][Next]_vars

-----------------------------------------------------------------------------
(***************************************************************************)
(* Properties.                                                             *)
(***************************************************************************)
(* Ids fit their 64 bits, and the log holds evidence. *)
LogTypeOK ==
    /\ issued \subseteq 0..MaxId
    /\ log \in Seq([id : issued, status : StatusClasses, provenance : Seq(issued)])

(* evidence.py's "provenance-chained (prior evidence only - never itself)":*)
(* what an evidence cites was made before it.  Nothing in the code looks   *)
(* further than the record's own id, so a program that cites Ahead makes   *)
(* records that cite each other.                                           *)
ProvenanceIsPrior ==
    \A i \in 1..Len(log) :
        Cited(log[i]) \subseteq {log[j].id : j \in 1..(i - 1)}

(* Positions of the evidence that evidence i rests on: what it cites, what *)
(* that cites, and so on.                                                  *)
Foundations(i) ==
    {j \in 1..Len(log) :
        \A S \in SUBSET (1..Len(log)) :
            (\A m \in 1..Len(log), n \in 1..Len(log) :
                (m = i \/ m \in S) /\ log[n].id \in Cited(log[m]) => n \in S) => j \in S}

(* As long as the program makes derivations with their producer only, each *)
(* of them rests, through however many steps, on evidence that is not      *)
(* itself a derivation: the producer's check of one step and the           *)
(* constructor's of the own id are enough for chains of any length.        *)
DerivationsAreGrounded ==
    "StaticallyDerived" \notin Statuses =>
        \A i \in 1..Len(log) :
            log[i].status = "StaticallyDerived" =>
                \E j \in Foundations(i) : log[j].status # "StaticallyDerived"
=============================================================================
