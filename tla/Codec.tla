------------------------------- MODULE Codec -------------------------------
(***************************************************************************)
(* The canonical JSON encoding of serialize.py: _encode, driven by the     *)
(* value, and the strict _decode, driven by the annotation of the field    *)
(* the value belongs to.  Both call themselves on the parts of what they   *)
(* are given.  Here a call waits on a stack for the calls it makes, and    *)
(* what the calls have returned so far is kept in a table, from which the  *)
(* body of a call takes its answer.  Records are at their current schema   *)
(* version (SchemaRegistry has the migrations).                            *)
(*                                                                         *)
(* A value is [py, val] for a leaf (val is a name of it), [py, cls, name]  *)
(* for an Enum member, [py, items] for a tuple, [py, elements] for a       *)
(* frozenset, [py, pairs] for a FrozenDict and [py, cls, fields] for a     *)
(* record; py is its exact type.  A JSON fragment is [js, text],           *)
(* [js, items] or [js, keys].                                              *)
(*                                                                         *)
(* The answer of a call is {} if it raises and {x} if it returns x.  The   *)
(* NaNs of a frozenset or of the keys of a FrozenDict are not told apart.  *)
(***************************************************************************)
EXTENDS Naturals, Sequences, FiniteSets, SequencesExt

CONSTANTS
    Schema,         \* the annotations of each record class: class, field
    Members,        \* the member names of each Enum class
    Accepts(_),     \* does the record's constructor accept these fields?
    Same(_, _),     \* Python's ==, which True, 1 and 1.0 satisfy
    Base64,         \* the str that b64encode makes of each bytes
    Unbase64,       \* the bytes that b64decode takes from each str it accepts
    Unwritable,     \* values whose encoding json.dumps or UTF-8 refuses
    Annotations,    \* the annotations of fields and of parts of theirs
    Values,         \* the values of the program and their parts
    Typed,          \* pairs <<value, annotation>>: the values of each annotation
    Fragments       \* the documents from elsewhere and their parts

VARIABLES ann, value, doc, result, phase, stack, encoded, decoded

vars == <<ann, value, doc, result, phase, stack, encoded, decoded>>

(* Annotations: each may be behind a number of type aliases. *)
A(name) == [ann |-> name, aliases |-> 0]
Alias(a) == [a EXCEPT !.aliases = @ + 1]
Union(S) == [ann |-> "union", aliases |-> 0, any |-> S]
NoneType == A("None")
Optional(a) == Union({a, NoneType})
Rec(c) == [ann |-> "record", aliases |-> 0, cls |-> c]
EnumOf(c) == [ann |-> "enum", aliases |-> 0, cls |-> c]
Of(name, a) == [ann |-> name, aliases |-> 0, of |-> a]
Fixed(list) == [ann |-> "fixed", aliases |-> 0, each |-> list]
DictOf(k, a) == [ann |-> "FrozenDict", aliases |-> 0, key |-> k, of |-> a]

Leaf(py, val) == [py |-> py, val |-> val]
Member(c, name) == [py |-> "enum", cls |-> c, name |-> name]
Tuple(items) == [py |-> "tuple", items |-> items]
FrozenSet(S) == [py |-> "frozenset", elements |-> S]
Dict(pairs) == [py |-> "FrozenDict", pairs |-> pairs]
Record(c, fields) == [py |-> "record", cls |-> c, fields |-> fields]

Atom(js, text) == [js |-> js, text |-> text]
Array(items) == [js |-> "array", items |-> items]
Object(keys) == [js |-> "object", keys |-> keys]
Marker(key, text) == Object([k \in {key} |-> Atom("str", text)])

(* Tables of answers. *)
NoAnswers == [c \in {} |-> {}]
With(answers, c, answer) ==
    [x \in DOMAIN answers \cup {c} |-> IF x \in DOMAIN answers THEN answers[x] ELSE answer]
Raised(calls, answers) == \E c \in calls \cap DOMAIN answers : answers[c] = {}
Got(answers, c) == CHOOSE x \in answers[c] : TRUE

-----------------------------------------------------------------------------
(***************************************************************************)
(* Encoding.                                                               *)
(***************************************************************************)
(* Mutated form: the order is left as it is. *)
SortedNot(fragments, keys) == fragments

(* sorted(fragments, key=...): keys[i] is the fragment whose canonical     *)
(* bytes fragments[i] is sorted by; ranking is some total order of those.  *)
(* The sort is stable: the place of a fragment is that of its key, then    *)
(* that of its own.                                                        *)
Sorted(fragments, keys) ==
    LET ranking == SetToSeq(ToSet(keys))
        Rank(i) == CHOOSE p \in DOMAIN ranking : ranking[p] = keys[i]
        Before(i, k) == Rank(i) < Rank(k) \/ (Rank(i) = Rank(k) /\ i < k)
        Place(i) == 1 + Cardinality({k \in DOMAIN keys : Before(k, i)})
    IN  [p \in DOMAIN fragments |-> fragments[CHOOSE i \in DOMAIN fragments : Place(i) = p]]

Document(cls, fields) ==
    Object([k \in {"$type", "schema_version", "fields"} |->
        CASE k = "$type" -> Atom("str", cls)
          [] k = "schema_version" -> Atom("int", "1")
          [] k = "fields" -> Object(fields)])

NaN == Leaf("float", "nan")
Infinities == {"inf", "-inf"}

EncodeFloat(v) ==
    CASE v = NaN -> {}
      [] v # NaN /\ v.val \in Infinities -> {Marker("$f", v.val)}
      [] OTHER -> {Atom("float", v.val)}

(* What _encode calls itself on. *)
Parts(v) ==
    CASE v.py = "tuple" -> ToSet(v.items)
      [] v.py = "frozenset" -> v.elements
      [] v.py = "FrozenDict" -> {p[1] : p \in v.pairs} \cup {p[2] : p \in v.pairs}
      [] v.py = "record" -> {v.fields[f] : f \in DOMAIN v.fields}
      [] OTHER -> {}

(* The parts of v that are sorted, each by the canonical bytes of its      *)
(* encoding, which json.dumps and UTF-8 have to make.                      *)
Keys(v) ==
    CASE v.py = "frozenset" -> v.elements
      [] v.py = "FrozenDict" -> {p[1] : p \in v.pairs}
      [] OTHER -> {}

(* The orders in which Python may iterate over v. *)
Orders(v) ==
    CASE v.py = "frozenset" -> SetToSeqs(v.elements)
      [] v.py = "FrozenDict" -> SetToSeqs(v.pairs)
      [] OTHER -> {<<>>}

EncodeElements(order, E) ==
    LET list == [i \in DOMAIN order |-> Got(E, order[i])]
    IN  Array(Sorted(list, list))

EncodePairs(order, E) ==
    LET keys == [i \in DOMAIN order |-> Got(E, order[i][1])]
        pairs == [i \in DOMAIN order |-> Array(<<keys[i], Got(E, order[i][2])>>)]
    IN  Array(Sorted(pairs, keys))

(* The answer of _encode on v, iterated over in that order, when E holds   *)
(* the answers of the calls it makes.                                      *)
Encode(v, order, E) ==
    IF Raised(Parts(v), E) \/ (\E k \in Keys(v) : k \in Unwritable) THEN {}
    ELSE CASE v.py \in {"None", "bool", "int", "str"} -> {Atom(v.py, v.val)}
           [] v.py = "float" -> EncodeFloat(v)
           [] v.py = "bytes" -> {Marker("$b", Base64[v.val])}
           [] v.py = "enum" -> {Atom("str", v.name)}
           [] v.py = "tuple" -> {Array([i \in DOMAIN v.items |-> Got(E, v.items[i])])}
           [] v.py = "frozenset" -> {EncodeElements(order, E)}
           [] v.py = "FrozenDict" -> {EncodePairs(order, E)}
           [] v.py = "record" ->
                {Document(v.cls, [f \in DOMAIN v.fields |-> Got(E, v.fields[f])])}

-----------------------------------------------------------------------------
(***************************************************************************)
(* Decoding: the call <<j, a>> is of the fragment j for the annotation a.  *)
(***************************************************************************)
(* Mutated form: an alias of an alias is left alone. *)
UnaliasOnce(a) == IF a.aliases > 0 THEN [a EXCEPT !.aliases = @ - 1] ELSE a

Unalias(a) == [a EXCEPT !.aliases = 0]

IsObject(j, keys) == j.js = "object" /\ DOMAIN j.keys = keys

(* None, bool, int, float and str: exactly the annotated type. *)
Plain(j, a) == IF j.js = a.ann THEN {Leaf(a.ann, j.text)} ELSE {}

DecodeLeaf(j, a) ==
    CASE a.ann = "bytes" ->
            IF IsObject(j, {"$b"}) /\ j.keys["$b"].js = "str" /\ j.keys["$b"].text \in DOMAIN Unbase64
            THEN {Leaf("bytes", Unbase64[j.keys["$b"].text])} ELSE {}
      [] a.ann = "enum" ->
            IF j.js = "str" /\ j.text \in Members[a.cls] THEN {Member(a.cls, j.text)} ELSE {}
      [] a.ann = "float" /\ IsObject(j, {"$f"}) ->
            {Leaf("float", t) : t \in {i \in Infinities : j.keys["$f"] = Atom("str", i)}}
      [] OTHER -> Plain(j, a)

(* j has the "$type" of the class. *)
Tagged(j, cls) == j.js = "object" /\ "$type" \in DOMAIN j.keys /\ j.keys["$type"] = Atom("str", cls)

(* A union is X | None, or a union of records told apart by their tags:    *)
(* the member that j is decoded for, if there is one.                      *)
Alternative(j, a) ==
    LET others == {m \in a.any : Unalias(m) # NoneType}
        rest == {Unalias(m) : m \in others}
    IN  IF others # a.any /\ j.js = "None" THEN {NoneType}
        ELSE IF Cardinality(others) = 1 THEN rest
        ELSE {m \in rest : m.ann = "record" /\ Tagged(j, m.cls)}

(* Mutated form: surplus elements of a fixed tuple are dropped. *)
AsLongAs(items, list) == Len(items) >= Len(list)

SameLength(items, list) == Len(items) = Len(list)

IsPair(j) == j.js = "array" /\ Len(j.items) = 2

IsDocument(j, cls) ==
    /\ IsObject(j, {"$type", "schema_version", "fields"})
    /\ j.keys["$type"] = Atom("str", cls)
    /\ j.keys["schema_version"] = Atom("int", "1")
    /\ IsObject(j.keys["fields"], DOMAIN Schema[cls])

(* The checks that precede the calls for the parts. *)
WellFormed(j, a) ==
    /\ a.aliases = 0
    /\ a.ann \in {"tuple", "frozenset", "fixed", "FrozenDict"} => j.js = "array"
    /\ a.ann = "fixed" => SameLength(j.items, a.each)
    /\ a.ann = "FrozenDict" => \A i \in DOMAIN j.items : IsPair(j.items[i])
    /\ a.ann = "record" => IsDocument(j, a.cls)

Element(j, a, i) == <<j.items[i], a.of>>
Component(j, a, i) == <<j.items[i], a.each[i]>>
KeyOf(j, a, i) == <<j.items[i].items[1], a.key>>
ValueOf(j, a, i) == <<j.items[i].items[2], a.of>>
FieldOf(j, a, f) == <<j.keys["fields"].keys[f], Schema[a.cls][f]>>

(* What _decode calls itself on. *)
Calls(j, annotation) ==
    LET a == Unalias(annotation)
    IN  IF ~ WellFormed(j, a) THEN {}
        ELSE CASE a.ann = "union" -> {<<j, m>> : m \in Alternative(j, a)}
               [] a.ann \in {"tuple", "frozenset"} -> {Element(j, a, i) : i \in DOMAIN j.items}
               [] a.ann = "fixed" -> {Component(j, a, i) : i \in DOMAIN a.each}
               [] a.ann = "FrozenDict" ->
                    {KeyOf(j, a, i) : i \in DOMAIN j.items} \cup {ValueOf(j, a, i) : i \in DOMAIN j.items}
               [] a.ann = "record" -> {FieldOf(j, a, f) : f \in DOMAIN Schema[a.cls]}
               [] OTHER -> {}

(* Mutated form: the record is filled in without its constructor. *)
FillIn(cls, fields) == {Record(cls, fields)}

CallConstructor(cls, fields) == {r \in {Record(cls, fields)} : Accepts(r)}

(* Elements of a frozenset, keys of a FrozenDict. *)
Distinct(list) == \A i, k \in DOMAIN list : Same(list[i], list[k]) => i = k

(* The answer of _decode on j for the annotation, when D holds the answers *)
(* of the calls it makes.                                                  *)
Decode(j, annotation, D) ==
    LET a == Unalias(annotation)
        elements == [i \in DOMAIN j.items |-> Got(D, Element(j, a, i))]
        keys == [i \in DOMAIN j.items |-> Got(D, KeyOf(j, a, i))]
    IN  IF ~ WellFormed(j, a) \/ Raised(Calls(j, annotation), D) THEN {}
        ELSE CASE a.ann = "union" -> UNION {D[c] : c \in Calls(j, annotation)}
               [] a.ann = "tuple" -> {Tuple(elements)}
               [] a.ann = "fixed" -> {Tuple([i \in DOMAIN a.each |-> Got(D, Component(j, a, i))])}
               [] a.ann = "frozenset" -> IF Distinct(elements) THEN {FrozenSet(ToSet(elements))} ELSE {}
               [] a.ann = "FrozenDict" ->
                    IF Distinct(keys)
                    THEN {Dict({<<keys[i], Got(D, ValueOf(j, a, i))>> : i \in DOMAIN j.items})} ELSE {}
               [] a.ann = "record" ->
                    CallConstructor(a.cls, [f \in DOMAIN Schema[a.cls] |-> Got(D, FieldOf(j, a, f))])
               [] OTHER -> DecodeLeaf(j, a)

-----------------------------------------------------------------------------
(***************************************************************************)
(* What the constants are.  A fragment is made of fragments of S, an       *)
(* annotation of annotations of S and a value of values of S; v is a value *)
(* of an annotation when T says that its parts are of theirs.              *)
(***************************************************************************)
Leaves == {"None", "bool", "int", "float", "str", "bytes"}

(* What the aliases of an annotation stand for. *)
Target(a) == [a EXCEPT !.aliases = 0]

IsFragment(j, S) ==
    CASE j.js = "array" -> j = Array(j.items) /\ j.items \in Seq(S)
      [] j.js = "object" -> j = Object(j.keys) /\ j.keys \in [DOMAIN j.keys -> S]
      [] OTHER -> j = Atom(j.js, j.text)

IsAnnotation(annotation, S) ==
    LET a == Target(annotation)
    IN  CASE a.ann = "union" -> a = Union(a.any) /\ IsFiniteSet(a.any) /\ \A m \in a.any : Target(m) \in S
          [] a.ann \in {"tuple", "frozenset"} -> a = Of(a.ann, a.of) /\ a.of \in S
          [] a.ann = "fixed" -> a = Fixed(a.each) /\ a.each \in Seq(S)
          [] a.ann = "FrozenDict" -> a = DictOf(a.key, a.of) /\ a.key \in S /\ a.of \in S
          [] a.ann = "record" ->
                /\ a = Rec(a.cls) /\ a.cls \in DOMAIN Schema
                /\ Schema[a.cls] \in [DOMAIN Schema[a.cls] -> S]
          [] a.ann = "enum" -> a = EnumOf(a.cls)
          [] OTHER -> a = A(a.ann) /\ a.ann \in Leaves

IsValue(v, S) ==
    CASE v.py = "tuple" -> v = Tuple(v.items) /\ v.items \in Seq(S)
      [] v.py = "frozenset" ->
            /\ v = FrozenSet(v.elements) /\ IsFiniteSet(v.elements) /\ v.elements \subseteq S
            /\ \A x, y \in v.elements : Same(x, y) => x = y
      [] v.py = "FrozenDict" ->
            /\ v = Dict(v.pairs) /\ IsFiniteSet(v.pairs) /\ v.pairs \subseteq S \X S
            /\ \A p, q \in v.pairs : Same(p[1], q[1]) => p = q
      [] v.py = "record" ->
            /\ v = Record(v.cls, v.fields) /\ v.cls \in DOMAIN Schema
            /\ v.fields \in [DOMAIN Schema[v.cls] -> S] /\ Accepts(v)
      [] v.py = "enum" -> v = Member(v.cls, v.name)
      [] OTHER -> v = Leaf(v.py, v.val) /\ v.py \in Leaves

Fits(v, annotation, T) ==
    LET a == Target(annotation)
    IN  CASE a.ann = "union" -> \E m \in a.any : <<v, Target(m)>> \in T
          [] a.ann = "tuple" -> v.py = "tuple" /\ \A i \in DOMAIN v.items : <<v.items[i], a.of>> \in T
          [] a.ann = "fixed" ->
                /\ v.py = "tuple" /\ Len(v.items) = Len(a.each)
                /\ \A i \in DOMAIN v.items : <<v.items[i], a.each[i]>> \in T
          [] a.ann = "frozenset" -> v.py = "frozenset" /\ \A x \in v.elements : <<x, a.of>> \in T
          [] a.ann = "FrozenDict" ->
                /\ v.py = "FrozenDict"
                /\ \A p \in v.pairs : <<p[1], a.key>> \in T /\ <<p[2], a.of>> \in T
          [] a.ann = "record" ->
                /\ v.py = "record" /\ v.cls = a.cls
                /\ \A f \in DOMAIN v.fields : <<v.fields[f], Schema[a.cls][f]>> \in T
          [] a.ann = "enum" -> v.py = "enum" /\ v.cls = a.cls /\ v.name \in Members[a.cls]
          [] OTHER -> v.py = a.ann

(* A union is told apart if it is of one annotation beside None, which     *)
(* itself is no union but of records, or if all are records: a union with  *)
(* another as one of several parts is not.                                 *)
Decidable(annotation) ==
    LET a == Target(annotation)
        others == {m \in a.any : Target(m) # NoneType}
        OfRecords(S) == \A m \in S : Target(m).ann = "record"
    IN  a.ann = "union" =>
            \/ OfRecords(others)
            \/ \E m \in others : others = {m} /\ (Target(m).ann = "union" => OfRecords(Target(m).any))

ASSUME FragmentsAssumption == \A j \in Fragments : IsFragment(j, Fragments)

ASSUME AnnotationsAssumption == \A a \in Annotations : IsAnnotation(a, Annotations)

ASSUME ValuesAssumption ==
    \A v \in Values :
        /\ IsValue(v, Values)
        /\ v.py = "FrozenDict" => \A p, q \in v.pairs : p[1] = q[1] => p = q

(* b64decode takes back what b64encode makes, and more: the same bytes may *)
(* be spelled in other ways.                                               *)
ASSUME Base64Assumption ==
    /\ \A v \in Values : v.py = "bytes" => v.val \in DOMAIN Base64
    /\ \A b \in DOMAIN Base64 : Base64[b] \in DOMAIN Unbase64 /\ Unbase64[Base64[b]] = b

(* A str with a lone surrogate, an int of too many digits, and what has    *)
(* one of those at any depth.                                              *)
CannotBeWritten(v) == v.py \in {"str", "int"} /\ v \in Unwritable

ASSUME UnwritableAssumption ==
    \A v \in Values : v \in Unwritable <=> CannotBeWritten(v) \/ \E p \in Parts(v) : p \in Unwritable

ASSUME TypedAssumption ==
    /\ Typed \subseteq Values \X Annotations
    /\ \A p \in Typed : Fits(p[1], p[2], Typed)

-----------------------------------------------------------------------------
(***************************************************************************)
(* The program encodes a field's value and decodes the document again, or  *)
(* decodes a document from elsewhere, one after another.  The calls that   *)
(* a body makes come in an order of no consequence, so in any.             *)
(***************************************************************************)
Init ==
    /\ phase = "idle"
    /\ ann = NoneType /\ value = {} /\ doc = {} /\ result = {}
    /\ stack = <<>> /\ encoded = NoAnswers /\ decoded = NoAnswers

CallToJson ==
    /\ phase = "idle"
    /\ \E p \in Typed :
        /\ value' = {p[1]} /\ ann' = p[2] /\ stack' = <<p[1]>>
    /\ phase' = "encode"
    /\ UNCHANGED <<doc, result, encoded, decoded>>

CallDecoder(j, a) ==
    /\ doc' = {j} /\ ann' = a /\ stack' = <<<<j, a>>>>
    /\ phase' = "decode"
    /\ UNCHANGED <<value, result, encoded, decoded>>

CallFromJson ==
    /\ phase = "idle"
    /\ \E j \in Fragments, a \in Annotations : CallDecoder(j, a)

(* The call on top of the stack waits for one on a part of its value. *)
CallEncode ==
    /\ phase = "encode" /\ stack # <<>>
    /\ LET parts == Parts(Last(stack))
       IN  /\ ~ Raised(parts, encoded) /\ parts \ DOMAIN encoded # {}
           /\ stack' = Append(stack, CHOOSE p \in parts \ DOMAIN encoded : TRUE)
    /\ UNCHANGED <<ann, value, doc, result, phase, encoded, decoded>>

ReturnEncode ==
    /\ phase = "encode" /\ stack # <<>>
    /\ LET v == Last(stack)
       IN  /\ Raised(Parts(v), encoded) \/ Parts(v) \subseteq DOMAIN encoded
           /\ \E order \in Orders(v) : encoded' = With(encoded, v, Encode(v, order, encoded))
    /\ stack' = Front(stack)
    /\ UNCHANGED <<ann, value, doc, result, phase, decoded>>

(* The document that was made is decoded, if one was. *)
Hand(document) ==
    /\ doc' = document
    /\ stack' = IF document = {} THEN <<>> ELSE <<<<CHOOSE j \in document : TRUE, ann>>>>
    /\ phase' = IF document = {} THEN "done" ELSE "decode"
    /\ UNCHANGED <<ann, value, result, encoded, decoded>>

(* to_json returns or has raised. *)
ToJson ==
    /\ phase = "encode" /\ stack = <<>>
    /\ \E v \in value : Hand(encoded[v])

(* canonical_json_bytes: what to_json returns still has to be written; the *)
(* document that is read back from the bytes is the one written.           *)
CanonicalJsonBytes ==
    /\ phase = "encode" /\ stack = <<>>
    /\ \E v \in value : Hand(IF v \in Unwritable THEN {} ELSE encoded[v])

CallDecode ==
    /\ phase = "decode" /\ stack # <<>>
    /\ LET calls == Calls(Last(stack)[1], Last(stack)[2])
       IN  /\ ~ Raised(calls, decoded) /\ calls \ DOMAIN decoded # {}
           /\ stack' = Append(stack, CHOOSE c \in calls \ DOMAIN decoded : TRUE)
    /\ UNCHANGED <<ann, value, doc, result, phase, encoded, decoded>>

ReturnDecode ==
    /\ phase = "decode" /\ stack # <<>>
    /\ LET c == Last(stack)
           calls == Calls(c[1], c[2])
       IN  /\ Raised(calls, decoded) \/ calls \subseteq DOMAIN decoded
           /\ decoded' = With(decoded, c, Decode(c[1], c[2], decoded))
    /\ stack' = Front(stack)
    /\ UNCHANGED <<ann, value, doc, result, phase, encoded>>

FromJson ==
    /\ phase = "decode" /\ stack = <<>>
    /\ \E j \in doc : result' = decoded[<<j, ann>>]
    /\ phase' = "done"
    /\ UNCHANGED <<ann, value, doc, stack, encoded, decoded>>

(* The program forgets what it has done. *)
Forget ==
    /\ phase = "done"
    /\ phase' = "idle"
    /\ ann' = NoneType /\ value' = {} /\ doc' = {} /\ result' = {}
    /\ encoded' = NoAnswers /\ decoded' = NoAnswers
    /\ UNCHANGED stack

CodecStep == CallEncode \/ ReturnEncode \/ ToJson \/ CanonicalJsonBytes \/ CallDecode \/ ReturnDecode \/ FromJson

Next == CallToJson \/ CallFromJson \/ CodecStep \/ Forget

Spec == Init /\ [][Next]_vars

-----------------------------------------------------------------------------
(***************************************************************************)
(* Properties.                                                             *)
(***************************************************************************)
(* A NaN, or a leaf that cannot be written, has been met. *)
Met(E) == \E x \in DOMAIN E : x = NaN \/ CannotBeWritten(x)

(* from_json(to_json(x)) is x with every type and every sign of a zero,    *)
(* for every value of every annotation, and so it is when the document has *)
(* been written to bytes in between; a value is refused only for a NaN, a  *)
(* str or an int in it.                                                    *)
RoundTrip ==
    phase = "done" =>
        \A v \in value : result = {v} \/ (result = {} /\ doc = {} /\ Met(encoded))

(* In whatever order Python iterates over the unordered parts of a value,  *)
(* at any depth, the encoding is the same.                                 *)
OrderIndependent ==
    \A v \in DOMAIN encoded : \A order \in Orders(v) : Encode(v, order, encoded) = encoded[v]

(* j says what w is, neither more nor less, up to the order of what is     *)
(* unordered, the spelling of bytes and the NaN and Infinity of            *)
(* json.loads; S has the pairs of a fragment and the value it stands for.  *)
Says(j, w, S) ==
    CASE w.py = "tuple" ->
            /\ j = Array(j.items) /\ Len(j.items) = Len(w.items)
            /\ \A i \in DOMAIN j.items : <<j.items[i], w.items[i]>> \in S
      [] w.py = "frozenset" ->
            /\ j = Array(j.items)
            /\ \E list \in [DOMAIN j.items -> w.elements] :
                /\ ToSet(list) = w.elements /\ Distinct(list)
                /\ \A i \in DOMAIN j.items : <<j.items[i], list[i]>> \in S
      [] w.py = "FrozenDict" ->
            /\ j = Array(j.items)
            /\ \E list \in [DOMAIN j.items -> w.pairs] :
                /\ ToSet(list) = w.pairs /\ Distinct([i \in DOMAIN list |-> list[i][1]])
                /\ \A i \in DOMAIN j.items :
                    /\ j.items[i] = Array(<<j.items[i].items[1], j.items[i].items[2]>>)
                    /\ \A n \in 1..2 : <<j.items[i].items[n], list[i][n]>> \in S
      [] w.py = "record" ->
            \E fields \in {j.keys["fields"].keys} :
                /\ j = Document(w.cls, fields) /\ DOMAIN fields = DOMAIN w.fields
                /\ \A f \in DOMAIN fields : <<fields[f], w.fields[f]>> \in S
      [] w.py = "bytes" -> \E s \in DOMAIN Unbase64 : j = Marker("$b", s) /\ Unbase64[s] = w.val
      [] OTHER ->
            \/ j \in Encode(w, <<>>, NoAnswers)
            \/ w.py = "float" /\ w.val \in Infinities \cup {"nan"} /\ j = Atom("float", w.val)

(* What the decoder accepts it understands completely: every answer of     *)
(* _decode is a value as the constructors make them, of its annotation, as *)
(* far down as the calls go, and the fragment says just that.  (Bytes that *)
(* are spelled as b64encode would not spell them are accepted, and so is a *)
(* NaN, which no encoding has.)                                            *)
Strict ==
    LET understood == UNION {{<<w, c[2]>> : w \in decoded[c]} : c \in DOMAIN decoded}
        said == UNION {{<<c[1], w>> : w \in decoded[c]} : c \in DOMAIN decoded}
    IN  \A c \in DOMAIN decoded : \A w \in decoded[c] :
            /\ IsValue(w, {p[1] : p \in understood})
            /\ Fits(w, c[2], understood)
            /\ Says(c[1], w, said)
=============================================================================
