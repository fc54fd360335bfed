--------------------------- MODULE MCNestedDecode ---------------------------
(***************************************************************************)
(* A class whole with two fields for parts, and a class part that can hold *)
(* one of its own kind.                                                    *)
(***************************************************************************)
EXTENDS NestedDecode

CONSTANTS whole, part, d, e, g

GivenParts == [c \in Classes |-> IF c = whole THEN <<part, part>> ELSE <<part>>]

(* The fields of a whole hold the documents e and g, or g and nothing      *)
(* else; those of a part hold e, or nothing.                               *)
Fields(c, v, parts) == [of |-> <<c, v>>, parts |-> parts]

GivenLayouts ==
    {Fields(whole, v, <<e, g>>) : v \in Versions} \cup {Fields(whole, 2, <<g, NoDoc>>)}
    \cup {Fields(part, v, <<x, NoDoc>>) : v \in Versions, x \in {e, NoDoc}}
GivenLayoutsOf == [c \in Classes |-> [v \in Versions |-> {l \in GivenLayouts : l.of = <<c, v>>}]]
GivenPartIn == [l \in GivenLayouts |-> l.parts]

OwnNames == [c \in Classes |-> c]

Whole(v, parts) == [tag |-> whole, version |-> v, layout |-> Fields(whole, v, parts)]
PartDoc(v, at, x) == [tag |-> part, version |-> v, layout |-> Fields(part, at, <<x, NoDoc>>)]

(* d is a whole of the parts e, an old document, and g, a current one that *)
(* holds e; or it holds only g, which lies about its version, while e holds*)
(* itself.                                                                 *)
Having(outer, inner, other) ==
    [x \in Docs |-> CASE x = d -> outer [] x = e -> inner [] x = g -> other]

GivenHeld ==
    {Having(Whole(1, <<e, g>>), PartDoc(1, 1, NoDoc), PartDoc(2, 2, e)),
     Having(Whole(2, <<g, NoDoc>>), PartDoc(1, 1, e), PartDoc(1, 2, NoDoc))}
GivenAsks == {<<e, part>>, <<d, NoClass>>, <<d, part>>}
GivenReceived == UNION {{held[x] : x \in Docs} : held \in GivenHeld}
=============================================================================
