------------------------------ MODULE MCCodec ------------------------------
(***************************************************************************)
(* Annotations of every supported form, the values of those up to a depth  *)
(* of three, and fragments that are wrong in one place.  The str "lone"    *)
(* has a lone surrogate, the int "huge" more digits than Python writes.    *)
(***************************************************************************)
EXTENDS Codec, TLC

Mode == EnumOf("Mode")
RecR == Rec("R")
RecQ == Rec("Q")

(* R has an int, Q a frozenset of ints and an optional R, P nothing. *)
GivenSchema ==
    [c \in {"R", "Q", "P"} |->
        CASE c = "R" -> [f \in {"x"} |-> A("int")]
          [] c = "Q" -> [f \in {"s", "r"} |->
                            IF f = "s" THEN Of("frozenset", A("int")) ELSE Optional(RecR)]
          [] c = "P" -> [f \in {} |-> A("None")]]

(* The constructor of R refuses the int 2. *)
GivenAccepts(r) == r.cls = "R" => r.fields["x"] # Leaf("int", "2")

GivenMembers == [c \in {"Mode"} |-> {"RNE", "RTZ"}]

LeafAnnotations == {A(n) : n \in {"None", "bool", "int", "float", "str", "bytes"}} \cup {Mode}

RecordUnions == {Union({RecR, RecQ}), RecR, RecQ, Optional(RecR), Rec("P"), Of("frozenset", A("int"))}

GivenAnnotations ==
    LeafAnnotations \cup RecordUnions \cup
    {Of("tuple", A("int")), Of("tuple", Of("frozenset", A("int"))),
     Fixed(<<A("int"), A("str")>>), Fixed(<<A("int")>>),
     Of("frozenset", A("float")),
     Of("frozenset", Of("frozenset", A("int"))),
     DictOf(A("str"), A("int")), DictOf(A("int"), Of("frozenset", A("int"))),
     Optional(A("int")), Optional(Of("tuple", A("int"))),
     Union({RecR, RecQ, NoneType}), Optional(Alias(Union({RecR, RecQ}))),
     Alias(Alias(Union({RecR, RecQ}))), Alias(Alias(A("int")))}

(* A union of records one part of which is named by an alias: with         *)
(* type Part = R | Q, the annotation Part | P.                             *)
NestedUnions ==
    RecordUnions \cup {Union({Alias(Union({RecR, RecQ})), Rec("P")}), A("int"), NoneType}

(* The two differ in that alone: in a union that is not told apart. *)
ASSUME \A a \in GivenAnnotations : Decidable(a)
ASSUME ~ \A a \in NestedUnions : Decidable(a)

Ints == {Leaf("int", n) : n \in {"0", "1", "2"}}
Floats == {Leaf("float", n) : n \in {"0.0", "-0.0", "1.0", "inf", "-inf", "nan"}}
NoneValue == Leaf("None", "null")
Huge == Leaf("int", "huge")
Lone == Leaf("str", "lone")
LeafValues ==
    {Huge, Lone} \cup Ints \cup Floats \cup
    {NoneValue, Leaf("bool", "True"), Leaf("str", "a"), Leaf("str", "RNE"), Leaf("bytes", "a"), Member("Mode", "RNE")}

Lists(S) == UNION {[1..n -> S] : n \in 0..2}
UpToTwo(S) == {ToSet(s) : s \in Lists(S)}

IntSets == {FrozenSet(s) : s \in UpToTwo(Ints)}
FloatSets == {s \in UpToTwo(Floats) : ~ {Leaf("float", "0.0"), Leaf("float", "-0.0")} \subseteq s}
Dicts(K, V) == {Dict(s) : s \in {t \in UpToTwo(K \X V) : \A p, q \in t : p[1] = q[1] => p = q}}
Rs == {Record("R", [f \in {"x"} |-> Leaf("int", n)]) : n \in {"0", "1"}}
Qs == {Record("Q", [f \in {"s", "r"} |-> IF f = "s" THEN s ELSE o]) : s \in IntSets, o \in Rs \cup {NoneValue}}

GivenValues ==
    LeafValues \cup {Tuple(s) : s \in Lists(Ints \cup {Leaf("str", "a")})} \cup {Tuple(s) : s \in Lists(IntSets)}
        \cup IntSets \cup {FrozenSet(s) : s \in FloatSets} \cup {FrozenSet(s) : s \in UpToTwo(IntSets)}
        \cup Dicts({Leaf("str", "a"), Leaf("str", "RNE")}, Ints) \cup Dicts({Leaf("int", "0"), Leaf("int", "1")}, IntSets)
        \cup Rs \cup Qs \cup {Record("P", [f \in {} |-> NoneValue])}
        \cup {Tuple(<<Huge, Leaf("str", "a")>>), Tuple(<<Leaf("int", "0"), Lone>>), FrozenSet({Huge}),
              FrozenSet({Huge, Leaf("int", "0")}), FrozenSet({FrozenSet({}), FrozenSet({Huge})}), Tuple(<<FrozenSet({Huge})>>),
              Dict({<<Lone, Huge>>}), Dict({<<Leaf("str", "a"), Huge>>}), Dict({<<Leaf("int", "0"), FrozenSet({Huge})>>}),
              Record("R", [f \in {"x"} |-> Huge])}

(* The bytes "a" are encoded as "YQ==", and may also be spelled "YR==". *)
GivenBase64 == "a" :> "YQ=="
GivenUnbase64 == "YQ==" :> "a" @@ "YR==" :> "a" @@ "Yg==" :> "b"

RECURSIVE HasUnwritable(_)
HasUnwritable(v) == v \in {Huge, Lone} \/ \E p \in Parts(v) : HasUnwritable(p)

GivenUnwritable == {v \in GivenValues : HasUnwritable(v)}

(* Python equality: True == 1 == 1.0, 0.0 == -0.0, and no NaN equals itself. *)
Number == ("True" :> "1") @@ ("0.0" :> "0") @@ ("-0.0" :> "0") @@ ("1.0" :> "1")

RECURSIVE Norm(_)
Norm(v) ==
    CASE v.py \in {"bool", "int", "float"} ->
            [py |-> "number", val |-> IF v.val \in DOMAIN Number THEN Number[v.val] ELSE v.val]
      [] v.py = "tuple" -> [v EXCEPT !.items = [i \in DOMAIN @ |-> Norm(@[i])]]
      [] v.py = "frozenset" -> [v EXCEPT !.elements = {Norm(x) : x \in @}]
      [] v.py = "FrozenDict" -> [v EXCEPT !.pairs = {<<Norm(p[1]), Norm(p[2])>> : p \in @}]
      [] v.py = "record" -> [v EXCEPT !.fields = [f \in DOMAIN @ |-> Norm(@[f])]]
      [] OTHER -> v

PythonEqual(v, w) == v # NaN /\ w # NaN /\ Norm(v) = Norm(w)

(* The pairs of a value and its annotation, from the leaves up. *)
RECURSIVE TypedUpTo(_)
TypedUpTo(depth) ==
    IF depth = 0 THEN {}
    ELSE LET T == TypedUpTo(depth - 1)
         IN  {p \in GivenValues \X Annotations : Fits(p[1], p[2], T)}

GivenTyped == TypedUpTo(5)

Atoms ==
    {Atom("None", "null"), Atom("bool", "True"), Atom("int", "1"), Atom("int", "2"),
     Atom("float", "1.0"), Atom("float", "0.0"), Atom("float", "-0.0"),
     Atom("float", "nan"), Atom("float", "inf"),
     Atom("str", "a"), Atom("str", "RNE")}

Versioned(tag, version, fields) ==
    Object([k \in {"$type", "schema_version", "fields"} |->
        CASE k = "$type" -> tag [] k = "schema_version" -> version [] k = "fields" -> fields])

(* Documents of R, right and wrong in each of their parts. *)
Documents ==
    {Versioned(tag, version, fields) :
        tag \in {Atom("str", "R"), Atom("str", "Q"), Atom("int", "1")},
        version \in {Atom("int", "1"), Atom("int", "2"), Atom("bool", "True")},
        fields \in {Object([k \in K |-> a]) : K \in SUBSET {"x", "y"}, a \in Atoms} \cup {Array(<<>>)}}

Flat == Atoms \cup {Array(s) : s \in Lists(Atoms)}

WholeFragments ==
    Flat \cup {Object([k \in {key} |-> a]) : key \in {"$b", "$f"}, 
            a \in Atoms \cup {Atom("str", t) : t \in {"inf"} \cup DOMAIN GivenUnbase64}}
         \cup {Array(s) : s \in Lists({Array(t) : t \in Lists({Atom("str", "a"), Atom("int", "1"), Atom("int", "2")})})}
         \cup Documents

GivenFragments ==
    WholeFragments \cup UNION {{j.keys[k] : k \in DOMAIN j.keys} : j \in {f \in WholeFragments : f.js = "object"}}
=============================================================================
