---------------------------- MODULE NestedDecode ----------------------------
(***************************************************************************)
(* from_json on records that hold records.  _decode_record_doc decodes the *)
(* fields once they are migrated and named right; a field that is itself a *)
(* record goes through _decode_record_doc again, with the class of its     *)
(* annotation and a schema_version of its own.  A migration, being the     *)
(* program's code, may also call from_json itself.                         *)
(*                                                                         *)
(* SchemaRegistry has one call, job; here job is the innermost of a stack  *)
(* of calls, and callers are the suspended ones: in phase "loop" one that  *)
(* waits for a part, in phase "callback" one whose migration called.       *)
(*                                                                         *)
(* The parts that fields hold are documents themselves, not copies: when a *)
(* migration, at any depth, changes a document, parts that are still to be *)
(* decoded are read as they have become.  The dicts of fields themselves   *)
(* belong to the calls, and no migration keeps one back to change it later.*)
(***************************************************************************)
EXTENDS SchemaRegistry

CONSTANTS
    PartsOf,    \* PartsOf[c]: the classes C of the fields of c annotated C | None
    PartIn,     \* PartIn[f][k]: the document that fields f have for the k-th of these
    MaxParts,   \* bound: such fields
    NoDoc,      \* a field that is null
    MaxDepth,   \* suspended calls the interpreter's stack has room for
    Held,       \* bound: the documents the program may have at hand
    Asks        \* bound: what migrations call from_json with

ASSUME PartsAssumption ==
    /\ PartsOf \in [Classes -> Seq(Classes)]
    /\ \A c \in Classes : Len(PartsOf[c]) <= MaxParts
    /\ MaxParts \in Nat
    /\ PartIn \in [Layouts -> [1..MaxParts -> Docs \cup {NoDoc}]]
    /\ NoDoc \notin Docs
ASSUME DepthAssumption == MaxDepth \in Nat
ASSUME HeldAssumption == Held \subseteq [Docs -> Document]

VARIABLES
    callers,    \* the suspended calls, outermost first, with their done and read
    done,       \* how many parts the innermost call has decoded
    read        \* the calls that decoded these, and what they hold

nestedVars == <<vars, callers, done, read>>

NestedInit ==
    /\ Init
    /\ docs \in Held
    /\ callers = <<>>
    /\ done = 0
    /\ read = {}

Caller == callers[Len(callers)]

(* Mutated form: the stack has no end. *)
SuspendAnyway ==
    /\ callers' = Append(callers, [job |-> job, done |-> done, read |-> read])
    /\ done' = 0
    /\ read' = {}

Suspend ==
    /\ Len(callers) < MaxDepth
    /\ callers' = Append(callers, [job |-> job, done |-> done, read |-> read])
    /\ done' = 0
    /\ read' = {}

(* How a call of from_json begins. *)
Started(d, expected) ==
    LET fits == {c \in Classes : Resolves(docs[d], expected, c) /\ Readable(docs[d], c)}
    IN  IF fits = {} THEN {Call(docs[d], expected)}
        ELSE {Loop(d, expected, c) : c \in fits}

(***************************************************************************)
(* What SchemaRegistry's actions do, at whatever depth.                    *)
(***************************************************************************)
(* The program's code runs: between its calls, or in a migration.          *)
Registering ==
    /\ callers # <<>> => job.phase = "callback"
    /\ \/ \E c \in Classes, v \in Versions \cup {NoVersion} : RegisterFrozenType(c, v)
       \/ \E c \in Classes, v \in Versions : RegisterSchemaMigration(c, v)
    /\ UNCHANGED <<callers, done, read>>

Rewriting ==
    /\ callers # <<>> => job.phase = "callback"
    /\ ProgramRuns
    /\ docs' \in Held
    /\ UNCHANGED <<registry, migrations, callers, done, read>>

OuterCall(d, expected) ==
    /\ callers = <<>>
    /\ FromJson(d, expected) \/ RefuseDocument(d, expected)
    /\ done' = 0
    /\ read' = {}
    /\ UNCHANGED callers

Migrating ==
    /\ CallMigration \/ RefuseGap
    /\ UNCHANGED <<callers, done, read>>

MigrationEnds ==
    /\ MigrationReturns \/ MigrationRaises
    /\ UNCHANGED <<callers, done, read>>

(***************************************************************************)
(* Parts.                                                                  *)
(***************************************************************************)
(* The fields have the names of the current schema: its parts are next.    *)
Pending ==
    /\ job.phase = "loop"
    /\ job.version >= job.current
    /\ job.fields \in LayoutsOf[job.cls][job.current]
    /\ done < Len(PartsOf[job.cls])

Part == PartIn[job.fields][done + 1]

SkipPart ==
    /\ Pending
    /\ Part = NoDoc
    /\ done' = done + 1
    /\ UNCHANGED <<vars, callers, read>>

(* Mutated form: a part is read as if it had been written with the current *)
(* schemas, like the whole by then.                                        *)
CallPartCurrent ==
    /\ Pending
    /\ Part # NoDoc
    /\ job' \in {IF j.phase = "loop" THEN [j EXCEPT !.version = j.current] ELSE j :
                    j \in Started(Part, PartsOf[job.cls][done + 1])}
    /\ Suspend
    /\ UNCHANGED <<registry, migrations, docs>>

(* Mutated form: the annotation of the whole is used for its parts. *)
CallPartAsWhole ==
    /\ Pending
    /\ Part # NoDoc
    /\ job' \in Started(Part, job.cls)
    /\ Suspend
    /\ UNCHANGED <<registry, migrations, docs>>

CallPart ==
    /\ Pending
    /\ Part # NoDoc
    /\ job' \in Started(Part, PartsOf[job.cls][done + 1])
    /\ Suspend
    /\ UNCHANGED <<registry, migrations, docs>>

(* RecursionError: the parts are nested too deep, or a document holds      *)
(* itself.                                                                 *)
TooDeep ==
    /\ Pending
    /\ Part # NoDoc
    /\ Len(callers) = MaxDepth
    /\ job' = [job EXCEPT !.phase = "raised"]
    /\ UNCHANGED <<registry, migrations, docs, callers, done, read>>

(* The constructor is called when every part has been decoded. *)
FinishWhole ==
    /\ ~ Pending
    /\ Finish
    /\ UNCHANGED <<callers, done, read>>

(***************************************************************************)
(* A call that is over hands its result, or its exception, to its caller.  *)
(***************************************************************************)
Resume(j, n, seen) ==
    /\ job' = j
    /\ done' = n
    /\ read' = seen
    /\ callers' = SubSeq(callers, 1, Len(callers) - 1)
    /\ UNCHANGED <<registry, migrations, docs>>

PartReturns ==
    /\ callers # <<>>
    /\ Caller.job.phase = "loop"
    /\ job.phase = "returned"
    /\ Resume(Caller.job, Caller.done + 1, Caller.read \cup read \cup {job})

(* Mutated form: the decoding of the whole goes on, and tries again. *)
PartFailsAgain ==
    /\ callers # <<>>
    /\ Caller.job.phase = "loop"
    /\ job.phase \in Outcomes \ {"returned"}
    /\ Resume(Caller.job, Caller.done, Caller.read)

(* A SerializationError stays one, and so does any other exception. *)
PartFails ==
    /\ callers # <<>>
    /\ Caller.job.phase = "loop"
    /\ job.phase \in Outcomes \ {"returned"}
    /\ Resume([Caller.job EXCEPT !.phase = IF job.phase = "raised" THEN "raised" ELSE "misfit"],
              Caller.done, Caller.read)

(* A migration calls from_json; it may catch what that raises. *)
CallWithin(d, expected) ==
    /\ job.phase = "callback"
    /\ <<d, expected>> \in Asks
    /\ job' \in Started(d, expected)
    /\ Suspend
    /\ UNCHANGED <<registry, migrations, docs>>

BackToMigration ==
    /\ callers # <<>>
    /\ Caller.job.phase = "callback"
    /\ job.phase \in Outcomes
    /\ Resume(Caller.job, Caller.done, Caller.read)

Stepping ==
    \/ Migrating \/ SkipPart \/ CallPart \/ TooDeep \/ FinishWhole
    \/ PartReturns \/ PartFails \/ BackToMigration

NestedNext ==
    \/ Registering
    \/ Rewriting
    \/ \E d \in Docs, expected \in Classes \cup {NoClass} :
            OuterCall(d, expected) \/ CallWithin(d, expected)
    \/ MigrationEnds
    \/ Stepping

(* The decoder goes on, and a migration returns or raises, at every depth, *)
(* however often it calls from_json before.                                *)
NestedSpec ==
    /\ NestedInit /\ [][NestedNext]_nestedVars
    /\ WF_nestedVars(Stepping)
    /\ \A n \in 0..MaxDepth : SF_nestedVars(Len(callers) = n /\ MigrationEnds)

-----------------------------------------------------------------------------
(***************************************************************************)
(* Properties.                                                             *)
(***************************************************************************)
(* The stack fits its bound and holds calls that are suspended. *)
NestedTypeOK ==
    /\ TypeOK
    /\ done \in 0..MaxParts /\ read \subseteq JobTypes
    /\ callers \in Seq([job : JobTypes, done : 0..MaxParts, read : SUBSET JobTypes])
    /\ Len(callers) <= MaxDepth
    /\ \A i \in 1..Len(callers) : callers[i].job.phase \in {"loop", "callback"}

(* Each part the call j had in its fields has been read, with the class of *)
(* its annotation.                                                         *)
Complete(j, calls) ==
    \A k \in 1..Len(PartsOf[j.cls]) :
        PartIn[j.fields][k] # NoDoc =>
            \E i \in calls : i.doc = PartIn[j.fields][k] /\ i.cls = PartsOf[j.cls][k]

(* Nothing is returned unless every record in it, at whatever depth, was   *)
(* led from the version its own document had, when it was read, to the     *)
(* current schema of its own class, and none of them is left out: no       *)
(* version of the whole stands in for that of a part and no failed or      *)
(* skipped part goes unnoticed, although migrations change the documents   *)
(* between one part and the next.                                          *)
PartsAreRead ==
    job.phase = "returned" =>
        \A j \in read \cup {job} : Led(j) /\ Recognised(j) /\ Complete(j, read)

(* What any running or suspended call has read of the tables still holds,  *)
(* although decoders and migrations further in have run since.             *)
NothingGoesStale ==
    \A j \in {callers[i].job : i \in 1..Len(callers)} \cup
             {k \in {job} : k.phase \in {"loop", "callback"}} :
        /\ j.cls \in Serializable /\ j.current = Current(j.cls)
        /\ \A v \in j.given.version..(j.version - 1) : <<j.cls, v>> \in migrations
        /\ j.phase = "callback" => <<j.cls, j.version>> \in migrations

(* A call of from_json ends with all the calls it led to, on documents     *)
(* that hold themselves too.                                               *)
NestedDecodeEnds ==
    callers # <<>> \/ job.phase \in {"loop", "callback"}
        ~> callers = <<>> /\ job.phase \in Outcomes

(* The document's own way to the current schema, from fields that its      *)
(* class has at its version.                                               *)
OwnWay(d, c) ==
    /\ Reachable(docs[d], c)
    /\ docs[d].version \in 1..Current(c)
    /\ docs[d].layout \in LayoutsOf[c][docs[d].version]

(* The document and all it holds, at every depth, have such ways: a set of *)
(* (document, class) pairs says so that has the parts of its members.      *)
Decodable(d, c) ==
    \E S \in SUBSET (Docs \X Classes) :
        /\ <<d, c>> \in S
        /\ \A p \in S :
            /\ OwnWay(p[1], p[2])
            /\ \A k \in 1..Len(PartsOf[p[2]]) :
                \A x \in {PartIn[docs[p[1]].layout][k]} \ {NoDoc} : <<x, PartsOf[p[2]][k]>> \in S

(* The program has just called from_json, on one of its documents H.       *)
Called(H) ==
    /\ callers = <<>> /\ job.phase = "loop" /\ job.trail = <<>>
    /\ docs = H /\ job.given = docs[job.doc]

(* A migration answered with something else than the next version's fields *)
(* with the parts it was given.                                            *)
Misanswered ==
    /\ job.phase = "loop" /\ job.trail # <<>>
    /\ \/ job.fields \notin LayoutsOf[job.cls][job.version]
       \/ PartIn[job.fields] # PartIn[job.given.layout]

(* A document that can be decoded, with all it holds, is: only a migration *)
(* that raises, misanswers or changes the documents, or the end of the     *)
(* stack, prevents it, and no SerializationError does.                     *)
DecodableIsDecoded ==
    \A H \in Held :
        Called(H) /\ Decodable(job.doc, job.cls)
            ~> \/ callers = <<>> /\ job.phase \in {"returned", "raised"}
               \/ docs # H
               \/ Misanswered
=============================================================================
