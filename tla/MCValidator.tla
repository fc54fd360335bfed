---------------------------- MODULE MCValidator ----------------------------
(***************************************************************************)
(* Every graph of three objects with at most two references each.  The     *)
(* root is fixed: renaming the objects gives the other choices.  Frozen    *)
(* containers and records differ in the entry points' check only, so that  *)
(* the former need not have every choice of references.                    *)
(***************************************************************************)
EXTENDS Validator

CONSTANTS n1, n2, n3, MaxKids, AtomKinds

KidSeqs == UNION {[1..k -> Nodes] : k \in 0..MaxKids}

GivenObjects ==
    [kind : {"record"}, kids : KidSeqs]
        \cup [kind : {"frozen"}, kids : {kids \in KidSeqs : Len(kids) <= 1}]
        \cup [kind : AtomKinds, kids : {<<>>}]
=============================================================================
