------------------------------ MODULE Records ------------------------------
(***************************************************************************)
(* The record classes of ids.py, scope.py, artifact.py, span.py,           *)
(* domains.py, claims.py and evidence.py: what each class declares its     *)
(* fields to be, what its __post_init__ checks, and the two ways to one: a *)
(* call of the constructor, and from_json.  The codec is Codec's, with the *)
(* classes declared here as its Schema and their checks as its Accepts.    *)
(* Deep immutability of the arguments is Validator's subject.              *)
(***************************************************************************)
EXTENDS Codec

CONSTANTS
    Arguments,  \* the records, accepted or not, the program asks for
    Number,     \* the number that the name of an int or float means
    MaxU64,     \* 2^64 - 1, as an int of the model
    Digest      \* the hexadecimal sha256 of each bytes value

(* The comparison of numbers; NaN means no number, and compares to none. *)
Leq(v, w) == v.val \in DOMAIN Number /\ w.val \in DOMAIN Number /\ Number[v.val] <= Number[w.val]

Less(v, w) == Leq(v, w) /\ ~ Leq(w, v)

Zero == Leaf("int", "0")
One == Leaf("int", "1")

TypeOf(v) == IF v.py \in {"record", "enum"} THEN v.cls ELSE v.py

-----------------------------------------------------------------------------
(***************************************************************************)
(* Per class and field, the annotation and the exact types __post_init__   *)
(* lets through; they are written apart in the code and must fit.          *)
(***************************************************************************)
Field(annotation, exactly) == [ann |-> annotation, exactly |-> exactly]

Plainly(name) == Field(A(name), {name})
MemberOf(enum) == Field(EnumOf(enum), {enum})
Part(cls) == Field(Rec(cls), {cls})
None == [f \in {} |-> Plainly("None")]

IdClasses == {"ClaimId", "EvidenceId", "DecisionId", "PlanId", "ContractId", "EventId", "GuardId"}

(* Mutated form: isinstance(value, int), which is true of a bool. *)
IdFieldsLoose == [c \in IdClasses |-> [value |-> Field(A("int"), {"int", "bool"})]]

IdFields == [c \in IdClasses |-> [value |-> Plainly("int")]]

ScopeFields ==
    [Universal |-> None,
     Value |-> [ref |-> Plainly("str")],
     Scope |-> [extent |-> Field(Alias(Rec("Universal")), {"Universal"}),
                at |-> Field(Alias(Rec("Value")), {"Value"})],
     Validity |-> [f \in {"topo", "module"} |-> Field(Optional(A("str")), {"None", "str"})]]

ArtifactFields == [ArtifactRef |-> [sha256 |-> Plainly("str"), data |-> Plainly("bytes")]]

SpanFields ==
    [SourceSpan |-> [f \in {"file", "line0", "col0", "line1", "col1"} |->
        IF f = "file" THEN Plainly("str") ELSE Plainly("int")]]

DomainFields ==
    [MathematicalReal |-> None,
     MathematicalComplex |-> None,
     IntegerExact |-> [width |-> Plainly("int"), ovf |-> MemberOf("OverflowBehavior")],
     IEEE754 |-> [format |-> MemberOf("FpFormat"), rounding |-> MemberOf("RoundingMode"),
                  exc_profile |-> MemberOf("ExceptionProfile")],
     ContractNumeric |-> [contract |-> Part("ContractId")]]

SemanticDomain == Alias(Union({Rec(c) : c \in DOMAIN DomainFields}))

(* Mutated form: the domain of a ClaimKey may be any record. *)
ClaimFieldsLoose ==
    [Property |-> [subject |-> Plainly("str"), prop |-> MemberOf("PropertyName")],
     Equivalence |-> [f \in {"lhs", "rhs"} |-> Plainly("str")],
     ClaimKey |-> [stmt |-> Field(Alias(Union({Rec("Property"), Rec("Equivalence")})),
                                  {"Property", "Equivalence"}),
                   domain |-> Field(Optional(SemanticDomain),
                                    DOMAIN DomainFields \cup {"None", "ContractId"})],
     Claim |-> [id |-> Part("ClaimId"), key |-> Part("ClaimKey"), scope |-> Part("Scope")]]

ClaimFields ==
    [Property |-> [subject |-> Plainly("str"), prop |-> MemberOf("PropertyName")],
     Equivalence |-> [f \in {"lhs", "rhs"} |-> Plainly("str")],
     ClaimKey |-> [stmt |-> Field(Alias(Union({Rec("Property"), Rec("Equivalence")})),
                                  {"Property", "Equivalence"}),
                   domain |-> Field(Optional(SemanticDomain), DOMAIN DomainFields \cup {"None"})],
     Claim |-> [id |-> Part("ClaimId"), key |-> Part("ClaimKey"), scope |-> Part("Scope")]]

StatusFields ==
    [Assumed |-> [who |-> Plainly("str")],
     Specified |-> [pack |-> Plainly("str"), provenance |-> Field(Alias(Rec("Bundled")), {"Bundled"})],
     StaticallyDerived |-> [rule |-> Plainly("str")],
     SmtProved |-> [solver |-> Plainly("str"), artifact |-> Part("ArtifactRef")],
     FormallyProved |-> [system |-> Plainly("str"), artifact |-> Part("ArtifactRef")],
     RuntimeChecked |-> [guard |-> Part("GuardId"), when |-> Part("EventId")],
     Measured |-> [machine |-> Plainly("str"), n |-> Plainly("int"),
                   ci |-> Field(Fixed(<<A("float"), A("float")>>), {"tuple"})],
     Predicted |-> [f \in {"model", "calib"} |-> Plainly("str")],
     AiInferred |-> [model |-> Plainly("str"), score |-> Plainly("float")]]

EvidenceFields ==
    [Bundled |-> None,
     Evidence |-> [id |-> Part("EvidenceId"), claim |-> Part("ClaimId"),
                   status |-> Field(Alias(Union({Rec(c) : c \in DOMAIN StatusFields})), DOMAIN StatusFields),
                   provenance |-> Field(Of("tuple", Rec("EvidenceId")), {"tuple"}),
                   scope |-> Part("Scope"), validity |-> Part("Validity"),
                   artifact |-> Part("ArtifactRef")]]

Fields ==
    LET modules == <<IdFields, ScopeFields, ArtifactFields, SpanFields, DomainFields, ClaimFields, StatusFields,
                     EvidenceFields>>
    IN  [c \in UNION {DOMAIN modules[i] : i \in 1..8} |->
            (CHOOSE m \in {modules[i] : i \in {k \in 1..8 : c \in DOMAIN modules[k]}} : TRUE)[c]]

RecordSchema == [c \in DOMAIN Fields |-> [f \in DOMAIN Fields[c] |-> Fields[c][f].ann]]

-----------------------------------------------------------------------------
(***************************************************************************)
(* The checks of __post_init__ that types alone do not make, for a record  *)
(* g whose fields have the types they should.                              *)
(***************************************************************************)
IdInRange(g) == Leq(Zero, g.value) /\ Leq(g.value, MaxU64)

ArtifactMatches(g) == g.sha256.val = Digest[g.data.val]

(* Mutated form: the columns are compared on every line. *)
SpanOrderedByColumn(g) ==
    /\ Leq(One, g.line0) /\ Leq(Zero, g.col0) /\ Leq(Zero, g.col1)
    /\ ~ Less(g.line1, g.line0)
    /\ ~ Less(g.col1, g.col0)

SpanOrdered(g) ==
    /\ Leq(One, g.line0) /\ Leq(Zero, g.col0) /\ Leq(Zero, g.col1)
    /\ ~ Less(g.line1, g.line0)
    /\ ~ (g.line1 = g.line0 /\ Less(g.col1, g.col0))

WidthInRange(g) == Leq(One, g.width)

EquivalenceHasDomain(g) == g.stmt.cls = "Equivalence" => g.domain.py # "None"

(* Mutated form: only a lo that is greater than hi is refused. *)
MeasuredUnlessGreater(g) ==
    /\ Leq(One, g.n)
    /\ Len(g.ci.items) = 2 /\ \A i \in 1..2 : g.ci.items[i].py = "float"
    /\ ~ Less(g.ci.items[2], g.ci.items[1])

MeasuredInRange(g) ==
    /\ Leq(One, g.n)
    /\ Len(g.ci.items) = 2 /\ \A i \in 1..2 : g.ci.items[i].py = "float"
    /\ Leq(g.ci.items[1], g.ci.items[2])

ScoreInRange(g) == Leq(Zero, g.score) /\ Leq(g.score, One)

ProvenanceIsSound(g) ==
    \A i \in DOMAIN g.provenance.items :
        TypeOf(g.provenance.items[i]) = "EvidenceId" /\ ~ Same(g.provenance.items[i], g.id)

InRange(cls, g) ==
    CASE cls \in IdClasses -> IdInRange(g)
      [] cls = "ArtifactRef" -> ArtifactMatches(g)
      [] cls = "SourceSpan" -> SpanOrdered(g)
      [] cls = "IntegerExact" -> WidthInRange(g)
      [] cls = "ClaimKey" -> EquivalenceHasDomain(g)
      [] cls = "Measured" -> MeasuredInRange(g)
      [] cls = "AiInferred" -> ScoreInRange(g)
      [] cls = "Evidence" -> ProvenanceIsSound(g)
      [] OTHER -> TRUE

(* No class of the library takes an empty str. *)
NonEmpty(v) == v.py = "str" => v.val # ""

PostInit(r) ==
    /\ \A f \in DOMAIN r.fields :
        TypeOf(r.fields[f]) \in Fields[r.cls][f].exactly /\ NonEmpty(r.fields[f])
    /\ InRange(r.cls, r.fields)

-----------------------------------------------------------------------------
(***************************************************************************)
(* What the constants are: records of the classes above, and all that the  *)
(* types of Python allow as values and say of them.                        *)
(***************************************************************************)
Numbers == {"bool", "int", "float"}

ASSUME SchemaAssumption == Schema = RecordSchema

ASSUME ArgumentsAssumption ==
    \A r \in Arguments :
        /\ r = Record(r.cls, r.fields) /\ r.cls \in DOMAIN Schema
        /\ r.fields \in [DOMAIN Schema[r.cls] -> Values]
        /\ Accepts(r) <=> PostInit(r)
        /\ PostInit(r) => r \in Values

(* The annotations are those of the classes and of their fields, and       *)
(* every union among them is told apart.                                   *)
ASSUME UnionsAssumption ==
    /\ \A c \in DOMAIN Schema : Rec(c) \in Annotations
    /\ \A a \in Annotations : Decidable(a)

ASSUME RecordsAssumption ==
    /\ \A v \in Values : v.py = "record" => v \in Arguments
    /\ \A v \in Values : v.py = "enum" => v.cls \in DOMAIN Members /\ v.name \in Members[v.cls]
    /\ DOMAIN Members \cap (Leaves \cup {"tuple"} \cup DOMAIN Schema) = {}
    /\ \A v \in Values, a \in Annotations : Fits(v, a, Typed) => <<v, a>> \in Typed

ASSUME NumberAssumption ==
    /\ \A n \in DOMAIN Number : Number[n] \in Int
    /\ \A v \in Values : v.py = "int" => v.val \in DOMAIN Number
    /\ NaN.val \notin DOMAIN Number
    /\ {"0", "1"} \subseteq DOMAIN Number

(* Python's ==: numbers are compared across their types, a tuple element   *)
(* by element, by identity first, and nothing else is equal to a value of  *)
(* another type.                                                           *)
ASSUME SameAssumption ==
    \A v, w \in UNION {{r.fields[f] : f \in DOMAIN r.fields} : r \in Arguments} :
        Same(v, w) =>
            /\ TypeOf(v) = TypeOf(w) \/ {TypeOf(v), TypeOf(w)} \subseteq Numbers
            /\ v.py = "tuple" =>
                /\ DOMAIN v.items = DOMAIN w.items
                /\ \A i \in DOMAIN v.items : v.items[i] = w.items[i] \/ Same(v.items[i], w.items[i])

-----------------------------------------------------------------------------
(***************************************************************************)
(* The program calls a constructor, and a record it gets is serialized and *)
(* read back; or it reads a document from elsewhere.                       *)
(***************************************************************************)
Call ==
    /\ phase = "idle"
    /\ \E r \in Arguments : value' = {r} /\ ann' = Rec(r.cls)
    /\ phase' = "arguments"
    /\ UNCHANGED <<doc, result, stack, encoded, decoded>>

Construct ==
    /\ phase = "arguments"
    /\ \E r \in value : PostInit(r) /\ stack' = <<r>>
    /\ phase' = "encode"
    /\ UNCHANGED <<ann, value, doc, result, encoded, decoded>>

Refuse ==
    /\ phase = "arguments"
    /\ \E r \in value : ~ PostInit(r)
    /\ value' = {}
    /\ phase' = "done"
    /\ UNCHANGED <<ann, doc, result, stack, encoded, decoded>>

ReadRecord ==
    /\ phase = "idle"
    /\ \E j \in Fragments, c \in DOMAIN Schema : Tagged(j, c) /\ CallDecoder(j, Rec(c))

RecordsNext == Call \/ Construct \/ Refuse \/ ReadRecord \/ CodecStep \/ Forget

RecordsSpec == Init /\ [][RecordsNext]_vars

-----------------------------------------------------------------------------
(***************************************************************************)
(* Properties, beside RoundTrip and Strict of Codec.                       *)
(***************************************************************************)
(* Every record that a constructor has let through can be encoded, to_json *)
(* never raises: no NaN gets into a field of any class or into what it is  *)
(* made of.  And canonical_json_bytes raises only if it has met a str or   *)
(* an int that cannot be written, which the constructors do let through.   *)
Serializable ==
    phase = "done" =>
        \A v \in value :
            /\ encoded[v] # {}
            /\ doc = {} => \E x \in DOMAIN encoded : CannotBeWritten(x)

(* The generated __eq__ of a record class. *)
Equal(r, s) == r.cls = s.cls /\ \A f \in DOMAIN r.fields : Same(r.fields[f], s.fields[f])

Alike(v, w) ==
    /\ TypeOf(v) = TypeOf(w)
    /\ v.py = "tuple" => \A i \in DOMAIN v.items : TypeOf(v.items[i]) = TypeOf(w.items[i])

(* Equality of records never crosses types: 1, True and 1.0, which Python  *)
(* holds equal, cannot stand in one another's place in a field or in an    *)
(* element of a field, nor, since the parts are records again, anywhere in *)
(* a record.                                                               *)
EqualIsAlike ==
    phase = "arguments" =>
        \A r \in value : \A s \in Arguments :
            PostInit(r) /\ PostInit(s) /\ Equal(r, s) =>
                \A f \in DOMAIN r.fields : Alike(r.fields[f], s.fields[f])

(* Positions of a text in reading order: lines from 1, columns from 0. *)
IsPosition(p) == Leq(One, p[1]) /\ Leq(Zero, p[2])
Before(p, q) == Less(p[1], q[1]) \/ (p[1] = q[1] /\ Less(p[2], q[2]))

(* A SourceSpan can be made from any two positions of a file in reading    *)
(* order, on one line or several, the same twice included, and from no     *)
(* other numbers.                                                          *)
SpansAreRanges ==
    phase = "arguments" =>
        \A r \in {s \in value : s.cls = "SourceSpan" /\ s.fields.file.py = "str"} :
            LET g == r.fields
                start == <<g.line0, g.col0>>
                end == <<g.line1, g.col1>>
            IN  PostInit(r) <=>
                    /\ g.file.val # "" /\ \A f \in DOMAIN g \ {"file"} : g[f].py = "int"
                    /\ IsPosition(start) /\ IsPosition(end) /\ ~ Before(end, start)
=============================================================================
