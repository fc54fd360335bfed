------------------------------ MODULE MCRecords ------------------------------
(***************************************************************************)
(* For each class, fields that are right and fields that are wrong in      *)
(* every way its checks tell apart; parts are records of the layer below.  *)
(* The str "lone" has a lone surrogate, and the int 3 stands for those of  *)
(* more digits than Python writes.                                         *)
(***************************************************************************)
EXTENDS Records, TLC

Ints == {Leaf("int", n) : n \in {"-1", "0", "1", "2", "3"}}
Floats == {Leaf("float", n) : n \in {"-1.0", "-0.0", "0.0", "1.0", "2.0", "inf", "-inf", "nan"}}
Number1 == {Leaf("bool", "True"), Leaf("int", "1"), Leaf("float", "1.0")}
Strs == {Leaf("str", "a"), Leaf("str", "")}
Lone == Leaf("str", "lone")
Bytes == {Leaf("bytes", "a"), Leaf("bytes", "")}
NoneValue == Leaf("None", "null")
EnumMember(c) == Member(c, "M")
Enums == {"OverflowBehavior", "FpFormat", "RoundingMode", "ExceptionProfile", "PropertyName"}
EnumMembers == {EnumMember(c) : c \in Enums}
Id(c, n) == Record(c, [value |-> Leaf("int", n)])
Empty(c) == Record(c, [f \in {} |-> NoneValue])

Interval(a, b) == Tuple(<<a, b>>)
Ref(n) == Record("Value", [ref |-> Leaf("str", n)])
ScopeOf(n) == Record("Scope", [extent |-> Empty("Universal"), at |-> Ref(n)])
Artifact == Record("ArtifactRef", [sha256 |-> Leaf("str", "sha256 of a"), data |-> Leaf("bytes", "a")])
Domains ==
    {Empty("MathematicalReal"), Empty("MathematicalComplex"),
     Record("IntegerExact", [width |-> Leaf("int", "1"), ovf |-> EnumMember("OverflowBehavior")]),
     Record("IEEE754", [format |-> EnumMember("FpFormat"), rounding |-> EnumMember("RoundingMode"),
                        exc_profile |-> EnumMember("ExceptionProfile")]),
     Record("ContractNumeric", [contract |-> Id("ContractId", "1")])}
Statements ==
    {Record("Property", [subject |-> Leaf("str", "a"), prop |-> EnumMember("PropertyName")]),
     Record("Equivalence", [f \in {"lhs", "rhs"} |-> Leaf("str", "a")])}
ClaimKeyOf(s, d) == Record("ClaimKey", [stmt |-> s, domain |-> d])
Pin(t, m) == Record("Validity", [topo |-> t, module |-> m])
Statuses ==
    {Record("Assumed", [who |-> Leaf("str", "a")]),
     Record("Specified", [pack |-> Leaf("str", "a"), provenance |-> Empty("Bundled")]),
     Record("StaticallyDerived", [rule |-> Leaf("str", "a")]),
     Record("SmtProved", [solver |-> Leaf("str", "a"), artifact |-> Artifact]),
     Record("FormallyProved", [system |-> Leaf("str", "a"), artifact |-> Artifact]),
     Record("RuntimeChecked", [guard |-> Id("GuardId", "1"), when |-> Id("EventId", "1")]),
     Record("Measured", [machine |-> Leaf("str", "a"), n |-> Leaf("int", "1"),
                         ci |-> Interval(Leaf("float", "0.0"), Leaf("float", "1.0"))]),
     Record("Predicted", [f \in {"model", "calib"} |-> Leaf("str", "a")]),
     Record("AiInferred", [model |-> Leaf("str", "a"), score |-> Leaf("float", "1.0")])}

(* Two fields of a class c, each from its own set. *)
Two(c, f, S, g, T) == {Record(c, f :> s @@ g :> t) : s \in S, t \in T}

IdArguments == {Record(c, [value |-> v]) : c \in IdClasses, v \in Ints \cup Number1 \cup Strs}

DomainArguments ==
    {Empty("MathematicalReal"), Empty("MathematicalComplex")}
    \cup Two("IntegerExact", "width", Ints \cup Number1, "ovf", EnumMembers \cup Strs)
    \cup {Record("IEEE754", [format |-> f, rounding |-> r, exc_profile |-> e]) :
            f \in EnumMembers, r \in EnumMembers \cup {Leaf("str", "M")}, e \in EnumMembers}
    \cup {Record("ContractNumeric", [contract |-> i]) :
            i \in {Id(c, "1") : c \in IdClasses} \cup Ints}

ScopeArguments ==
    {Empty("Universal")}
    \cup {Record("Value", [ref |-> v]) : v \in Strs \cup {Lone} \cup Ints}
    \cup Two("Scope", "extent", {Empty("Universal"), Empty("Bundled")}, "at", {Ref("a"), Ref("b"), Ref("lone"), NoneValue})
    \cup Two("Validity", "topo", Strs \cup {NoneValue} \cup Bytes, "module", Strs \cup {NoneValue, Ref("a")})

Small == Ints \ {Leaf("int", "3")}

SpanArguments ==
    {Record("SourceSpan", [file |-> Leaf("str", "a"), line0 |-> a, col0 |-> b, line1 |-> c, col1 |-> d]) :
        a \in Small, b \in Small, c \in Small, d \in Small}
    \cup {Record("SourceSpan", [file |-> f, line0 |-> a, col0 |-> a, line1 |-> b, col1 |-> b]) :
            f \in Strs \cup Bytes, a \in Number1, b \in Number1}

ArtifactArguments ==
    Two("ArtifactRef", "sha256", Strs \cup {Leaf("str", Digest[b.val]) : b \in Bytes},
        "data", Bytes \cup Strs)

ClaimArguments ==
    Two("Property", "subject", Strs \cup Ints, "prop", EnumMembers)
    \cup Two("Equivalence", "lhs", Strs \cup Ints, "rhs", Strs)
    \cup {ClaimKeyOf(s, d) : s \in Statements \cup {Ref("a")},
                             d \in Domains \cup {NoneValue, Id("ContractId", "1")}}
    \cup {Record("Claim", [id |-> i, key |-> k, scope |-> s]) :
            i \in {Id("ClaimId", "1"), Id("EvidenceId", "1")},
            k \in {ClaimKeyOf(s, d) : s \in Statements, d \in Domains} \cup Statements,
            s \in {ScopeOf("a"), ScopeOf("lone"), Ref("a")}}

StatusArguments ==
    Statuses \cup {Empty("Bundled")}
    \cup {Record("Assumed", [who |-> v]) : v \in Strs \cup {Lone} \cup Ints}
    \cup {Record("StaticallyDerived", [rule |-> v]) : v \in Strs \cup Ints}
    \cup Two("Specified", "pack", Strs, "provenance", {Empty("Bundled"), Empty("Universal")})
    \cup Two("SmtProved", "solver", Strs, "artifact", {Artifact} \cup Bytes)
    \cup Two("FormallyProved", "system", Strs, "artifact", {Artifact} \cup Bytes)
    \cup Two("RuntimeChecked", "guard", {Id(c, "1") : c \in IdClasses},
             "when", {Id(c, n) : c \in IdClasses, n \in {"0", "1"}})
    \cup Two("Predicted", "model", Strs \cup Ints, "calib", Strs)
    \cup Two("AiInferred", "model", Strs, "score", Floats \cup Number1)
    \cup {Record("Measured", [machine |-> Leaf("str", "a"), n |-> n, ci |-> ci]) :
            n \in Ints \cup Number1,
            ci \in {Interval(a, b) : a \in Floats, b \in Floats \cup Ints}
                    \cup {Tuple(<<>>), NoneValue}}

EvidenceOf(I, C, S, P, V, D) ==
    {Record("Evidence", [id |-> i, claim |-> c, status |-> s, provenance |-> p, scope |-> ScopeOf("a"),
                         validity |-> v, artifact |-> d]) : i \in I, c \in C, s \in S, p \in P, v \in V, d \in D}

EvidenceArguments ==
    LET id == Id("EvidenceId", "1")
        claim == Id("ClaimId", "1")
        pin == Pin(NoneValue, NoneValue)
    IN  EvidenceOf({id}, {claim}, Statuses \cup {Empty("Bundled")}, {Tuple(<<>>)}, {pin}, {Artifact})
        \cup EvidenceOf({id, Id("EvidenceId", "2"), claim}, {claim, id}, {Record("Assumed", [who |-> Leaf("str", "a")])},
                {Tuple(<<>>), Tuple(<<id>>), Tuple(<<claim>>), Tuple(<<Id("EvidenceId", "2"), id>>), id},
                {pin, Pin(Leaf("str", "a"), NoneValue), ScopeOf("a")}, {Artifact, Leaf("bytes", "a")})

(* The records that are parts of others are arguments too. *)
RECURSIVE WithParts(_)
WithParts(S) ==
    LET parts == UNION {Parts(v) : v \in S}
    IN  IF parts \subseteq S THEN S ELSE WithParts(S \cup parts)

Things ==
    WithParts(IdArguments \cup DomainArguments \cup ScopeArguments \cup SpanArguments
        \cup ArtifactArguments \cup ClaimArguments \cup StatusArguments \cup EvidenceArguments)

AllArguments == {v \in Things : v.py = "record"}

AllValues == {v \in Things : v.py = "record" => PostInit(v)}

GivenDigest == ("a" :> "sha256 of a") @@ ("" :> "sha256 of nothing")
GivenBase64 == "a" :> "YQ==" @@ "" :> ""
GivenUnbase64 == "YQ==" :> "a" @@ "YR==" :> "a" @@ "" :> ""

RECURSIVE HasUnwritable(_)
HasUnwritable(v) == v \in {Leaf("int", "3"), Lone} \/ \E p \in Parts(v) : HasUnwritable(p)

AllUnwritable == {v \in AllValues : HasUnwritable(v)}

GivenMembers == [c \in Enums |-> {"M"}]
GivenMaxU64 == Leaf("int", "2")

(* The places of the numbers of the model on the number line. *)
GivenNumber ==
    "-inf" :> -2 @@ "-1" :> -1 @@ "-1.0" :> -1 @@ "-0.0" :> 0 @@ "0.0" :> 0 @@ "0" :> 0 @@ "True" :> 1
        @@ "1" :> 1 @@ "1.0" :> 1 @@ "2" :> 2 @@ "2.0" :> 2 @@ "3" :> 3 @@ "inf" :> 4

RECURSIVE Norm(_)
Norm(v) ==
    CASE v.py \in Numbers -> [py |-> "number", place |-> {GivenNumber[n] : n \in {v.val} \cap DOMAIN GivenNumber}]
      [] v.py = "tuple" -> [v EXCEPT !.items = [i \in DOMAIN @ |-> Norm(@[i])]]
      [] v.py = "record" -> [v EXCEPT !.fields = [f \in DOMAIN @ |-> Norm(@[f])]]
      [] OTHER -> v

PythonEqual(v, w) == v # NaN /\ w # NaN /\ Norm(v) = Norm(w)

(* The annotations of the fields, with those they are made of. *)
PartsOf(a) ==
    CASE a.ann = "union" -> {Target(m) : m \in a.any}
      [] a.ann = "fixed" -> ToSet(a.each)
      [] a.ann = "tuple" -> {a.of}
      [] OTHER -> {}

RECURSIVE AllPartsOf(_)
AllPartsOf(S) ==
    LET parts == UNION {PartsOf(a) : a \in S}
    IN  IF parts \subseteq S THEN S ELSE AllPartsOf(S \cup parts)

AllAnnotations ==
    AllPartsOf({Rec(c) : c \in DOMAIN RecordSchema}
        \cup UNION {{RecordSchema[c][f] : f \in DOMAIN RecordSchema[c]} : c \in DOMAIN RecordSchema})

(* The pairs of a value and its annotation, from the leaves up. *)
RECURSIVE TypedBeyond(_)
TypedBeyond(T) ==
    LET more == {p \in AllValues \X AllAnnotations : Fits(p[1], p[2], T)}
    IN  IF more = T THEN T ELSE TypedBeyond(more)

AllTyped == TypedBeyond({})

(* The documents that say what the arguments are. *)
RECURSIVE DocumentOf(_)
DocumentOf(v) ==
    CASE v.py = "record" -> Document(v.cls, [f \in DOMAIN v.fields |-> DocumentOf(v.fields[f])])
      [] v.py = "tuple" -> Array([i \in DOMAIN v.items |-> DocumentOf(v.items[i])])
      [] v = NaN -> Atom("float", "nan")
      [] OTHER -> CHOOSE j \in Encode(v, <<>>, NoAnswers) : TRUE

FragmentParts(j) ==
    CASE j.js = "object" -> {j.keys[k] : k \in DOMAIN j.keys}
      [] j.js = "array" -> ToSet(j.items)
      [] OTHER -> {}

RECURSIVE AllFragments(_)
AllFragments(S) ==
    LET parts == UNION {FragmentParts(j) : j \in S}
    IN  IF parts \subseteq S THEN S ELSE AllFragments(S \cup parts)

(* Documents of an artifact with its bytes spelled in every way and in none. *)
ArtifactDocuments ==
    {Document("ArtifactRef", [f \in {"sha256", "data"} |->
        IF f = "data" THEN Marker("$b", spelling) ELSE Atom("str", "sha256 of a")]) :
        spelling \in DOMAIN GivenUnbase64 \cup {"?"}}

AllDocuments == AllFragments({DocumentOf(r) : r \in AllArguments} \cup ArtifactDocuments)

(* TLC computes a definition once, and what a constant stands for at each  *)
(* use.                                                                    *)
GivenSchema == RecordSchema
GivenArguments == AllArguments
GivenValues == AllValues
GivenAnnotations == AllAnnotations
GivenTyped == AllTyped
GivenUnwritable == AllUnwritable
GivenFragments == AllDocuments
=============================================================================
