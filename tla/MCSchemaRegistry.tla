-------------------------- MODULE MCSchemaRegistry --------------------------
(* Two frozen dataclasses and a class that is not one. *)
EXTENDS SchemaRegistry

CONSTANTS c1, c2, plain, name1, name2, odd

(* The classes share a name; name2 is the tag of none of them. *)
OneName == [c \in Classes |-> name1]

(* The fields of c1 change with every version; c2 has its first ones, and  *)
(* then its second ones twice.  odd are the fields of neither.             *)
GivenLayouts == {1, 2, 3, odd}
GivenLayoutsOf ==
    [c \in Classes |-> IF c = c1 THEN [v \in Versions |-> {v}]
                       ELSE [v \in Versions |-> {IF v = 1 THEN 1 ELSE 2}]]

(* Documents that are what they say, or too old or too new, or have the    *)
(* fields of another version or a tag of no class.                         *)
GivenReceived ==
    {[tag |-> name1, version |-> p[1], layout |-> p[2]] :
        p \in {<<0, 1>>, <<1, 1>>, <<1, 3>>, <<2, 2>>, <<4, 3>>}}
    \cup {[tag |-> name2, version |-> 1, layout |-> 1]}
=============================================================================
