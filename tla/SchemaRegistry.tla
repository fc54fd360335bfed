--------------------------- MODULE SchemaRegistry ---------------------------
(***************************************************************************)
(* The table of frozen types of registry.py, the table of schema           *)
(* migrations of serialize.py, and from_json taking a document of an older *)
(* release through the migrations to the current schema of its class.      *)
(*                                                                         *)
(* A document is its $type tag, its schema_version and its fields.  Layouts *)
(* are the fields there are: field names, with values that the decoder and *)
(* the constructor of a class with these names take; LayoutsOf[c][v] are   *)
(* those that version v of class c has.  A migration is the program's      *)
(* code: whatever fields it is given, it may return any, raise, register   *)
(* types and migrations, and write documents while it runs.  The copy that *)
(* from_json makes of a document's fields is a shallow one, so a migration *)
(* may change even the document that is being decoded.                     *)
(***************************************************************************)
EXTENDS Naturals, Sequences

CONSTANTS
    Classes,
    FrozenDataclasses,  \* those of Classes that are frozen dataclasses
    Names, NameOf,      \* NameOf[c] is c.__name__
    MaxVersion,         \* bound: schema versions
    Layouts, LayoutsOf,
    NoVersion, NoClass, \* Python's None
    Docs,               \* documents the program holds
    Received            \* bound: what the program may receive or make up

ASSUME ClassesAssumption ==
    /\ FrozenDataclasses \subseteq Classes
    /\ NoClass \notin Classes
    /\ NameOf \in [Classes -> Names]
ASSUME VersionsAssumption == MaxVersion \in Nat \ {0} /\ NoVersion \notin Nat
ASSUME LayoutsAssumption == LayoutsOf \in [Classes -> [1..MaxVersion -> SUBSET Layouts]]

VARIABLES
    registry,   \* _REGISTRY: the entries in registration order
    migrations, \* the keys of _MIGRATIONS
    docs,       \* the documents
    job         \* the running, or the last, call of from_json

vars == <<registry, migrations, docs, job>>

Versions == 1..MaxVersion
Document == [tag : Names, version : 0..(MaxVersion + 1), layout : Layouts]

ASSUME ReceivedAssumption == Received \subseteq Document

NoJob == [phase |-> "idle"]

Init ==
    /\ registry = <<>>
    /\ migrations = {}
    /\ docs \in [Docs -> Received]
    /\ job = NoJob

(***************************************************************************)
(* Registration.  It happens when the program's code runs: between calls   *)
(* of from_json, or within a migration that one of them calls.             *)
(***************************************************************************)
Entry == [cls : Classes, version : Versions \cup {NoVersion}]

Registered == {registry[i].cls : i \in 1..Len(registry)}

Serializable ==
    {c \in Classes : \E i \in 1..Len(registry) :
        registry[i].cls = c /\ registry[i].version # NoVersion}

Current(c) == registry[CHOOSE i \in 1..Len(registry) : registry[i].cls = c].version

ProgramRuns ==
    /\ job.phase # "loop"
    /\ job' = IF job.phase = "callback" THEN job ELSE NoJob

(* Mutated forms: any schema_version is taken; registering a class again   *)
(* replaces its entry.                                                     *)
RegisterAnyVersion(c, v) ==
    /\ ProgramRuns
    /\ c \in FrozenDataclasses
    /\ c \notin Registered
    /\ registry' = Append(registry, [cls |-> c, version |-> v])
    /\ UNCHANGED <<migrations, docs>>

RegisterTypeAgain(c, v) ==
    /\ ProgramRuns
    /\ c \in FrozenDataclasses
    /\ v \in Versions \cup {NoVersion}
    /\ registry' = IF c \in Registered
                   THEN [i \in 1..Len(registry) |->
                            IF registry[i].cls = c THEN [cls |-> c, version |-> v]
                            ELSE registry[i]]
                   ELSE Append(registry, [cls |-> c, version |-> v])
    /\ UNCHANGED <<migrations, docs>>

RegisterFrozenType(c, v) ==
    /\ ProgramRuns
    /\ c \in FrozenDataclasses
    /\ c \notin Registered
    /\ v \in Versions \cup {NoVersion}
    /\ registry' = Append(registry, [cls |-> c, version |-> v])
    /\ UNCHANGED <<migrations, docs>>

(* Mutated form: the current version is accepted as from_version.          *)
RegisterMigrationToo(c, v) ==
    /\ ProgramRuns
    /\ c \in Serializable
    /\ v \in 1..Current(c)
    /\ <<c, v>> \notin migrations
    /\ migrations' = migrations \cup {<<c, v>>}
    /\ UNCHANGED <<registry, docs>>

RegisterSchemaMigration(c, v) ==
    /\ ProgramRuns
    /\ c \in Serializable
    /\ v \in 1..(Current(c) - 1)
    /\ <<c, v>> \notin migrations
    /\ migrations' = migrations \cup {<<c, v>>}
    /\ UNCHANGED <<registry, docs>>

(* A refused registration raises and leaves both tables as they were. *)
Refuse ==
    /\ ProgramRuns
    /\ \E c \in Classes, v \in 0..MaxVersion :
        \/ ~ (c \in FrozenDataclasses \ Registered /\ v # 0)
        \/ ~ (c \in Serializable /\ v \in 1..(Current(c) - 1) /\ <<c, v>> \notin migrations)
    /\ UNCHANGED <<registry, migrations, docs>>

(***************************************************************************)
(* Documents: written by to_json, or received from another release, or     *)
(* made from those at hand, in place or not.                               *)
(***************************************************************************)
Encoded(c) ==
    {[tag |-> NameOf[c], version |-> Current(c), layout |-> l] : l \in LayoutsOf[c][Current(c)]}

ToJson(c, d) ==
    /\ ProgramRuns
    /\ c \in Serializable
    /\ \E doc \in Encoded(c) : docs' = [docs EXCEPT ![d] = doc]
    /\ UNCHANGED <<registry, migrations>>

Receive(d, doc) ==
    /\ ProgramRuns
    /\ docs' = [docs EXCEPT ![d] = doc]
    /\ UNCHANGED <<registry, migrations>>

(***************************************************************************)
(* from_json.  It reads the document's header, and copies its fields, when *)
(* it is called: given is the document as it was then.                     *)
(***************************************************************************)
Between == job.phase \notin {"loop", "callback"}

Candidates(tag) == {c \in Serializable : NameOf[c] = tag}

(* Without an expected class the tag has to name one serializable class.   *)
Resolves(doc, expected, c) ==
    IF expected = NoClass THEN Candidates(doc.tag) = {c} ELSE c = expected

Readable(doc, c) ==
    /\ c \in Serializable
    /\ doc.tag = NameOf[c]
    /\ doc.version <= Current(c)

Call(doc, expected) == [phase |-> "refused", given |-> doc, expected |-> expected]

(* The trail holds what each migration was given. *)
Loop(d, expected, c) ==
    [phase |-> "loop", doc |-> d, given |-> docs[d], expected |-> expected, cls |-> c,
     current |-> Current(c), version |-> docs[d].version, fields |-> docs[d].layout,
     trail |-> <<>>]

(* Mutated form: newer documents are let in. *)
FromJsonNewer(d, expected) ==
    /\ Between
    /\ \E c \in Classes :
        /\ Resolves(docs[d], expected, c)
        /\ c \in Serializable /\ docs[d].tag = NameOf[c]
        /\ job' = Loop(d, expected, c)
    /\ UNCHANGED <<registry, migrations, docs>>

FromJson(d, expected) ==
    /\ Between
    /\ \E c \in Classes :
        /\ Resolves(docs[d], expected, c)
        /\ Readable(docs[d], c)
        /\ job' = Loop(d, expected, c)
    /\ UNCHANGED <<registry, migrations, docs>>

RefuseDocument(d, expected) ==
    /\ Between
    /\ ~ \E c \in Classes : Resolves(docs[d], expected, c) /\ Readable(docs[d], c)
    /\ job' = Call(docs[d], expected)
    /\ UNCHANGED <<registry, migrations, docs>>

(* Mutated form: the migration away from the next version is taken.        *)
CallMigrationNext ==
    /\ job.phase = "loop"
    /\ job.version < job.current
    /\ <<job.cls, job.version + 1>> \in migrations
    /\ job' = [job EXCEPT !.phase = "callback", !.version = @ + 1]
    /\ UNCHANGED <<registry, migrations, docs>>

CallMigration ==
    /\ job.phase = "loop"
    /\ job.version < job.current
    /\ <<job.cls, job.version>> \in migrations
    /\ job' = [job EXCEPT !.phase = "callback"]
    /\ UNCHANGED <<registry, migrations, docs>>

RefuseGap ==
    /\ job.phase = "loop"
    /\ job.version < job.current
    /\ <<job.cls, job.version>> \notin migrations
    /\ job' = Call(job.given, job.expected)
    /\ UNCHANGED <<registry, migrations, docs>>

(* Mutated form: the version is not counted up. *)
MigrationReturnsSame ==
    /\ job.phase = "callback"
    /\ \E result \in Layouts : job' = [job EXCEPT !.phase = "loop", !.fields = result]
    /\ UNCHANGED <<registry, migrations, docs>>

MigrationReturns ==
    /\ job.phase = "callback"
    /\ \E result \in Layouts :
        job' = [job EXCEPT !.phase = "loop", !.fields = result, !.version = @ + 1,
                           !.trail = Append(@, [version |-> job.version, fields |-> job.fields])]
    /\ UNCHANGED <<registry, migrations, docs>>

MigrationRaises ==
    /\ job.phase = "callback"
    /\ job' = [job EXCEPT !.phase = "raised"]
    /\ UNCHANGED <<registry, migrations, docs>>

(* Mutated form: unknown and missing fields are tolerated. *)
FinishTolerant ==
    /\ job.phase = "loop"
    /\ job.version >= job.current
    /\ job' = [job EXCEPT !.phase = "returned"]
    /\ UNCHANGED <<registry, migrations, docs>>

(* The fields must be exactly those of the class, and the decoder and the  *)
(* constructor take their values.                                          *)
Finish ==
    /\ job.phase = "loop"
    /\ job.version >= job.current
    /\ job' = IF job.fields \in LayoutsOf[job.cls][job.current]
              THEN [job EXCEPT !.phase = "returned"]
              ELSE [job EXCEPT !.phase = "misfit"]
    /\ UNCHANGED <<registry, migrations, docs>>

Decoding == CallMigration \/ RefuseGap \/ MigrationReturns \/ MigrationRaises \/ Finish

Next ==
    \/ \E c \in Classes, v \in (0..MaxVersion) \cup {NoVersion} : RegisterFrozenType(c, v)
    \/ \E c \in Classes, v \in Versions : RegisterSchemaMigration(c, v)
    \/ Refuse
    \/ \E c \in Classes, d \in Docs : ToJson(c, d)
    \/ \E d \in Docs, doc \in Received : Receive(d, doc)
    \/ \E d \in Docs, expected \in Classes \cup {NoClass} :
            FromJson(d, expected) \/ RefuseDocument(d, expected)
    \/ Decoding

(* A decoder that can step does, and a migration that was called returns   *)
(* or raises.                                                              *)
Spec == Init /\ [][Next]_vars /\ WF_vars(Decoding)

-----------------------------------------------------------------------------
(***************************************************************************)
(* Properties.                                                             *)
(***************************************************************************)
Outcomes == {"returned", "refused", "raised", "misfit"}

Step == [version : Nat, fields : Layouts]

JobTypes ==
    {NoJob} \cup
    [phase : {"refused"}, given : Document, expected : Classes \cup {NoClass}] \cup
    [phase : {"loop", "callback", "returned", "raised", "misfit"}, doc : Docs,
     given : Document, expected : Classes \cup {NoClass}, cls : Classes,
     current : Versions, version : Nat, fields : Layouts, trail : Seq(Step)]

(* The tables, the documents and the decoder's variables have their types. *)
TypeOK ==
    /\ registry \in Seq(Entry)
    /\ migrations \subseteq Classes \X Nat
    /\ docs \in [Docs -> Document]
    /\ job \in JobTypes

(* The two tables agree: a class is registered once, only frozen           *)
(* dataclasses are, and every migration starts from a version its class    *)
(* has left behind, whatever is registered later and from wherever.        *)
TablesAgree ==
    /\ \A i, j \in 1..Len(registry) : registry[i].cls = registry[j].cls => i = j
    /\ Registered \subseteq FrozenDataclasses
    /\ \A m \in migrations : m[1] \in Serializable /\ m[2] \in 1..(Current(m[1]) - 1)

(* The migrations lead from the document's version to the current one. *)
Reachable(doc, c) ==
    /\ Readable(doc, c)
    /\ \A v \in doc.version..(Current(c) - 1) : <<c, v>> \in migrations

(* The call j took the document it was given that way: each migration      *)
(* once, and in order.                                                     *)
Led(j) ==
    /\ Reachable(j.given, j.cls)
    /\ Len(j.trail) = Current(j.cls) - j.given.version
    /\ \A i \in 1..Len(j.trail) : j.trail[i].version = j.given.version + i - 1

(* from_json returns only after every migration from the document's        *)
(* version to the current one, each once and in order, although the tables *)
(* may grow while it runs and the document may change; it says "no         *)
(* migration" or refuses a document only when there really is no such way. *)
FollowsTheChain ==
    /\ job.phase = "returned" => Led(job) /\ job.expected \in {NoClass, job.cls}
    /\ job.phase = "refused" =>
          ~ \E c \in Classes :
              Resolves(job.given, job.expected, c) /\ Reachable(job.given, c)

(* What the i-th migration of the call j made of its fields. *)
Result(j, i) == IF i = Len(j.trail) THEN j.fields ELSE j.trail[i + 1].fields

(* A migration took fields for its own that its version does not have, and *)
(* made of them what the next version does have.                           *)
Misled(j) ==
    \E i \in 1..Len(j.trail) :
        /\ j.trail[i].fields \notin LayoutsOf[j.cls][j.trail[i].version]
        /\ Result(j, i) \in LayoutsOf[j.cls][j.trail[i].version + 1]

(* The document had the fields of its class at the version it names, or    *)
(* else a migration was misled.                                            *)
Recognised(j) ==
    /\ j.given.version \in 1..Current(j.cls)
    /\ j.given.layout \in LayoutsOf[j.cls][j.given.version] \/ Misled(j)

(* Only a migration can mistake a document for one of another class or     *)
(* release: unless one makes good fields of fields that are not its own,   *)
(* what from_json returns was read from the fields its class had at the    *)
(* version that the document names.                                        *)
OnlyMigrationsMisread == job.phase = "returned" => Recognised(job)

(* Registrations never take away what could be decoded: a document whose   *)
(* class is named keeps its way to the current schema.                     *)
StaysReachable ==
    [][\A d \in Docs, c \in Classes : \A doc \in {docs[d]} :
        Reachable(doc, c) => Reachable(doc, c)']_vars

(* Every call of from_json ends if its migrations do. *)
DecodeEnds == job.phase \in {"loop", "callback"} ~> job.phase \in Outcomes
=============================================================================
