------------------------ MODULE SchemaRegistryProofs ------------------------
(***************************************************************************)
(* The registry's tables and the decoding of old documents, for any number *)
(* of classes, versions, documents and layouts: registrations agree with   *)
(* each other, decoding follows the whole chain of migrations and mistakes *)
(* nothing that a migration does not, and nothing is taken away from the   *)
(* program.                                                                *)
(***************************************************************************)
EXTENDS SchemaRegistry, SequenceTheorems, TLAPS

Running == job.phase \in {"loop", "callback", "returned", "raised", "misfit"}

(* Good fields come of good ones, or a migration was misled. *)
OriginOf(j) ==
    j.fields \in LayoutsOf[j.cls][j.version] =>
        j.given.layout \in LayoutsOf[j.cls][j.given.version] \/ Misled(j)

(* What a decode has read and done so far still holds of the tables. *)
ProgressOf(j) ==
    /\ j.expected \in {NoClass, j.cls}
    /\ Readable(j.given, j.cls)
    /\ j.current = Current(j.cls)
    /\ j.given.version <= j.version /\ j.version <= j.current
    /\ \A v \in j.given.version..(j.version - 1) : <<j.cls, v>> \in migrations
    /\ Len(j.trail) = j.version - j.given.version
    /\ \A i \in 1..Len(j.trail) : j.trail[i].version = j.given.version + i - 1
    /\ OriginOf(j)
    /\ j.phase = "callback" =>
          j.version < j.current /\ <<j.cls, j.version>> \in migrations
    /\ j.phase = "returned" =>
          j.version = j.current /\ j.fields \in LayoutsOf[j.cls][j.current]

Progress == ProgressOf(job)

Refused ==
    ~ \E c \in Classes : Resolves(job.given, job.expected, c) /\ Reachable(job.given, c)

IInv ==
    /\ TypeOK
    /\ TablesAgree
    /\ Running => Progress
    /\ job.phase = "refused" => Refused

-----------------------------------------------------------------------------
(* The tables. *)

(* A serializable class has one entry, which holds its current version. *)
LEMMA CurrentEntry ==
    ASSUME TypeOK, TablesAgree, NEW c \in Serializable
    PROVE  /\ c \in Registered /\ c \in FrozenDataclasses /\ Current(c) \in Versions
           /\ \E i \in 1..Len(registry) : registry[i].cls = c /\ registry[i].version = Current(c)
           /\ \A i \in 1..Len(registry) : registry[i].cls = c => registry[i].version = Current(c)
<1>1. PICK i \in 1..Len(registry) : registry[i].cls = c /\ registry[i].version # NoVersion
  BY DEF Serializable
<1> DEFINE k == CHOOSE k \in 1..Len(registry) : registry[k].cls = c
<1>2. k \in 1..Len(registry) /\ registry[k].cls = c
  BY <1>1
<1>3. k = i
  <2> HIDE DEF k
  <2> QED
    BY <1>1, <1>2 DEF TablesAgree
<1>4. Current(c) = registry[i].version
  BY <1>3 DEF Current
<1>5. registry[i] \in Entry
  BY <1>1, ElementOfSeq DEF TypeOK
<1>6. Current(c) \in Versions
  BY <1>1, <1>4, <1>5 DEF Entry
<1>7. \A j \in 1..Len(registry) : registry[j].cls = c => registry[j].version = Current(c)
  BY <1>1, <1>4 DEF TablesAgree
<1>8. c \in Registered /\ c \in FrozenDataclasses
  BY <1>1 DEF Registered, TablesAgree
<1> QED
  BY <1>1, <1>4, <1>6, <1>7, <1>8

(* A registration appends one entry, of a class that had none. *)
LEMMA RegistrationAppends ==
    ASSUME TypeOK, NEW c, NEW v, RegisterFrozenType(c, v)
    PROVE  /\ registry' \in Seq(Entry) /\ Len(registry) \in Nat
           /\ Len(registry') = Len(registry) + 1
           /\ \A i \in 1..Len(registry) : registry'[i] = registry[i]
           /\ registry'[Len(registry) + 1] = [cls |-> c, version |-> v]
           /\ \A i \in 1..Len(registry) : registry[i].cls # c
           /\ c \in FrozenDataclasses
<1> DEFINE e == [cls |-> c, version |-> v]
<1>1. e \in Entry /\ registry \in Seq(Entry) /\ registry' = Append(registry, e)
  BY ClassesAssumption DEF RegisterFrozenType, TypeOK, Entry
<1>2. c \notin Registered /\ c \in FrozenDataclasses
  BY DEF RegisterFrozenType
<1>3. \A i \in 1..Len(registry) : registry[i].cls # c
  BY <1>2 DEF Registered
<1>4. /\ registry' \in Seq(Entry) /\ Len(registry) \in Nat
      /\ Len(registry') = Len(registry) + 1
      /\ \A i \in 1..Len(registry) : registry'[i] = registry[i]
      /\ registry'[Len(registry) + 1] = e
  <2> HIDE DEF e
  <2> QED
    BY <1>1, AppendProperties
<1> QED
  BY <1>2, <1>3, <1>4

(* It leaves the entries of the other classes as they are, and keeps the   *)
(* tables in agreement.                                                    *)
LEMMA RegistrationKeeps ==
    ASSUME TypeOK, TablesAgree, NEW c, NEW v, RegisterFrozenType(c, v)
    PROVE  /\ TablesAgree'
           /\ \A b \in Serializable : b \in Serializable' /\ Current(b)' = Current(b)
<1> USE RegistrationAppends
<1> DEFINE n == Len(registry) + 1
<1>0. /\ Len(registry) \in Nat /\ Len(registry') = n
      /\ \A i \in 1..Len(registry) : registry'[i] = registry[i]
      /\ registry'[n] = [cls |-> c, version |-> v]
      /\ \A i \in 1..Len(registry) : registry[i].cls # c
      /\ migrations' = migrations
  BY DEF RegisterFrozenType
<1>1. ASSUME NEW i \in 1..Len(registry'), NEW j \in 1..Len(registry'),
             registry'[i].cls = registry'[j].cls
      PROVE  i = j
  <2>1. CASE i \in 1..Len(registry) /\ j \in 1..Len(registry)
    BY <1>0, <1>1, <2>1 DEF TablesAgree
  <2>2. CASE i = n \/ j = n
    BY <1>0, <1>1, <2>2
  <2> QED
    BY <1>0, <2>1, <2>2
<1>2. Registered' \subseteq FrozenDataclasses
  <2> SUFFICES ASSUME NEW i \in 1..Len(registry') PROVE registry'[i].cls \in FrozenDataclasses
    BY DEF Registered
  <2>1. CASE i \in 1..Len(registry)
    BY <1>0, <2>1 DEF TablesAgree, Registered
  <2>2. CASE i = n
    BY <1>0, <2>2
  <2> QED
    BY <1>0, <2>1, <2>2
<1>3. ASSUME NEW b \in Serializable
      PROVE  b \in Serializable' /\ Current(b)' = Current(b)
  <2>1. PICK i \in 1..Len(registry) :
            registry[i].cls = b /\ registry[i].version # NoVersion /\ registry[i].version = Current(b)
    <3>1. PICK i \in 1..Len(registry) : registry[i].cls = b /\ registry[i].version # NoVersion
      BY DEF Serializable
    <3> QED
      BY <3>1, CurrentEntry
  <2>2. i \in 1..Len(registry') /\ registry'[i].cls = b /\ registry'[i].version = Current(b)
    BY <1>0, <2>1
  <2>3. b \in Serializable'
    BY <2>1, <2>2 DEF Serializable
  <2> DEFINE k == CHOOSE k \in 1..Len(registry') : registry'[k].cls = b
  <2>4. k \in 1..Len(registry') /\ registry'[k].cls = b
    BY <2>2
  <2>5. k = i
    <3> HIDE DEF k
    <3> QED
      BY <1>1, <2>2, <2>4
  <2>6. Current(b)' = registry'[i].version
    BY <2>5 DEF Current
  <2> QED
    BY <2>2, <2>3, <2>6
<1>4. ASSUME NEW m \in migrations'
      PROVE  m[1] \in Serializable' /\ m[2] \in 1..(Current(m[1])' - 1)
  <2>1. m[1] \in Serializable /\ m[2] \in 1..(Current(m[1]) - 1)
    BY <1>0 DEF TablesAgree
  <2> QED
    BY <1>3, <2>1
<1>5. \A i, j \in 1..Len(registry') : registry'[i].cls = registry'[j].cls => i = j
  BY <1>1
<1>6. \A m \in migrations' : m[1] \in Serializable' /\ m[2] \in 1..(Current(m[1])' - 1)
  BY <1>4
<1> QED
  BY <1>2, <1>3, <1>5, <1>6 DEF TablesAgree

(* A migration is installed for a version its class has left behind.       *)
LEMMA MigrationKeeps ==
    ASSUME TypeOK, TablesAgree, NEW c \in Classes, NEW v \in Versions,
           RegisterSchemaMigration(c, v)
    PROVE  TablesAgree' /\ migrations' \subseteq Classes \X Nat
<1>1. /\ registry' = registry /\ migrations' = migrations \cup {<<c, v>>}
      /\ c \in Serializable /\ v \in 1..(Current(c) - 1) /\ v \in Nat
  BY VersionsAssumption DEF RegisterSchemaMigration, Versions
<1>2. Registered' = Registered /\ Serializable' = Serializable
  BY <1>1 DEF Registered, Serializable
<1>3. \A b : Current(b)' = Current(b)
  BY <1>1 DEF Current
<1>4. migrations' \subseteq Classes \X Nat
  BY <1>1 DEF TypeOK
<1>5. \A m \in migrations' : m[1] \in Serializable' /\ m[2] \in 1..(Current(m[1])' - 1)
  BY <1>1, <1>2, <1>3 DEF TablesAgree
<1> QED
  BY <1>1, <1>2, <1>4, <1>5 DEF TablesAgree

-----------------------------------------------------------------------------
(* A call of from_json. *)

RunJobs ==
    [phase : {"loop", "callback", "returned", "raised", "misfit"}, doc : Docs,
     given : Document, expected : Classes \cup {NoClass}, cls : Classes,
     current : Versions, version : Nat, fields : Layouts, trail : Seq(Step)]

(* A job that has got past the document's header has all its fields.       *)
LEMMA RunningType ==
    ASSUME TypeOK, Running
    PROVE  job \in RunJobs
BY DEF TypeOK, JobTypes, NoJob, Running, RunJobs

(* Its versions are versions, and the class is one it may decode.          *)
LEMMA ProgressType ==
    ASSUME IInv, Running
    PROVE  /\ job \in RunJobs /\ Progress
           /\ job.cls \in Serializable /\ Current(job.cls) \in Versions
           /\ job.current \in Nat /\ job.given.version \in Nat /\ job.version \in Nat
           /\ job.current = Current(job.cls) /\ MaxVersion \in Nat
<1>1. job \in RunJobs /\ Progress
  BY RunningType DEF IInv
<1>2. job.cls \in Serializable /\ job.current = Current(job.cls)
  BY <1>1 DEF Progress, ProgressOf, Readable
<1>3. Current(job.cls) \in Versions /\ MaxVersion \in Nat
  BY <1>2, CurrentEntry, VersionsAssumption DEF IInv
<1>4. job.given.version \in Nat
  BY <1>1, <1>3 DEF RunJobs, Document
<1> QED
  BY <1>1, <1>2, <1>3, <1>4 DEF RunJobs, Versions

(* Growing tables disturb no decode. *)
LEMMA ProgressOfLasts ==
    ASSUME NEW j, ProgressOf(j), migrations \subseteq migrations',
           \A b \in Serializable : b \in Serializable' /\ Current(b)' = Current(b)
    PROVE  ProgressOf(j)'
<1>1. j.cls \in Serializable' /\ Current(j.cls)' = Current(j.cls)
  BY DEF ProgressOf, Readable
<1>2. Readable(j.given, j.cls)' /\ OriginOf(j)'
  BY <1>1 DEF ProgressOf, Readable, OriginOf, Misled, Result
<1> QED
  BY <1>1, <1>2 DEF ProgressOf

LEMMA ProgressLasts ==
    ASSUME IInv, job' = job, migrations \subseteq migrations', Running,
           \A b \in Serializable : b \in Serializable' /\ Current(b)' = Current(b)
    PROVE  Progress'
<1>1. PICK j : j = job
  OBVIOUS
<1>2. ProgressOf(j)'
  BY <1>1, ProgressType, ProgressOfLasts DEF Progress
<1>3. ProgressOf(job)'
  BY <1>1, <1>2 DEF ProgressOf, Readable, OriginOf, Misled, Result
<1> QED
  BY <1>3 DEF Progress

(* What reads tables, documents and job only is kept when these are.       *)
LEMMA SameTables ==
    ASSUME registry' = registry, migrations' = migrations, docs' = docs
    PROVE  /\ Serializable' = Serializable /\ Registered' = Registered
           /\ \A c : Current(c)' = Current(c)
           /\ TablesAgree' <=> TablesAgree
<1>1. Serializable' = Serializable /\ Registered' = Registered
  BY DEF Serializable, Registered
<1>2. \A c : Current(c)' = Current(c)
  BY DEF Current
<1> QED
  BY <1>1, <1>2 DEF TablesAgree

(* Documents are documents, however they come about. *)
LEMMA EncodedType ==
    ASSUME TypeOK, TablesAgree, NEW c \in Classes, c \in Serializable
    PROVE  Encoded(c) \subseteq Document
<1>1. Current(c) \in Versions
  BY CurrentEntry
<1>2. Current(c) \in 0..(MaxVersion + 1) /\ LayoutsOf[c][Current(c)] \subseteq Layouts
  BY <1>1, VersionsAssumption, LayoutsAssumption DEF Versions
<1>3. NameOf[c] \in Names
  BY ClassesAssumption
<1> QED
  BY <1>2, <1>3 DEF Encoded, Document

-----------------------------------------------------------------------------
(* Every step keeps the invariant. *)

(* Initially nothing is registered and nothing runs. *)
LEMMA InvInit == Init => IInv
<1> SUFFICES ASSUME Init PROVE IInv
  OBVIOUS
<1>1. registry = <<>> /\ Len(registry) = 0 /\ registry \in Seq(Entry)
  BY EmptySeq DEF Init
<1>2. TablesAgree
  BY <1>1 DEF Init, TablesAgree, Registered
<1>3. TypeOK
  BY <1>1, ReceivedAssumption DEF Init, TypeOK, JobTypes
<1> QED
  BY <1>2, <1>3 DEF Init, IInv, NoJob, Running

(* A call that is over leaves nothing to keep. *)
LEMMA IdleInv ==
    ASSUME job' = NoJob
    PROVE  job' \in JobTypes /\ ~ Running' /\ ~ (job.phase = "refused")'
BY DEF NoJob, JobTypes, Running

(* Registrations and other documents, also those of a running migration.   *)
LEMMA RegisterInv ==
    ASSUME IInv, ProgramRuns, docs' \in [Docs -> Document],
           TablesAgree', registry' \in Seq(Entry),
           migrations \subseteq migrations', migrations' \subseteq Classes \X Nat,
           \A b \in Serializable : b \in Serializable' /\ Current(b)' = Current(b)
    PROVE  IInv'
<1>1. CASE job.phase = "callback"
  <2>1. job' = job /\ Running
    BY <1>1 DEF ProgramRuns, Running
  <2>2. TypeOK'
    BY <2>1 DEF IInv, TypeOK
  <2>3. Progress'
    BY <2>1, ProgressLasts
  <2> QED
    BY <1>1, <2>1, <2>2, <2>3 DEF IInv
<1>2. CASE job.phase # "callback"
  <2>1. job' = NoJob
    BY <1>2 DEF ProgramRuns
  <2>2. TypeOK'
    BY <2>1, IdleInv DEF IInv, TypeOK
  <2> QED
    BY <2>1, <2>2, IdleInv DEF IInv
<1> QED
  BY <1>1, <1>2

(* What a running call works on is its own: documents come and go. *)
LEMMA DocumentInv ==
    ASSUME IInv, ProgramRuns, docs' \in [Docs -> Document],
           registry' = registry, migrations' = migrations
    PROVE  IInv'
<1>1. TablesAgree' /\ \A b \in Serializable : b \in Serializable' /\ Current(b)' = Current(b)
  BY DEF IInv, TablesAgree, Registered, Serializable, Current
<1> QED
  BY <1>1, RegisterInv DEF IInv, TypeOK

(* A call of from_json begins, be it the program's or, further in, one for *)
(* a part or from a migration.                                             *)
LetIn(d, expected, c) ==
    /\ Resolves(docs[d], expected, c) /\ Readable(docs[d], c)
    /\ job' = Loop(d, expected, c)
    /\ UNCHANGED <<registry, migrations, docs>>

TurnedAway(d, expected) ==
    /\ ~ \E c \in Classes : Resolves(docs[d], expected, c) /\ Readable(docs[d], c)
    /\ job' = Call(docs[d], expected)
    /\ UNCHANGED <<registry, migrations, docs>>

(* The document is let in. *)
LEMMA LoopInv ==
    ASSUME IInv, NEW d \in Docs, NEW expected \in Classes \cup {NoClass}, NEW c \in Classes,
           LetIn(d, expected, c)
    PROVE  IInv'
<1>0. registry' = registry /\ migrations' = migrations /\ docs' = docs
  BY DEF LetIn
<1>1. PICK doc : doc = docs[d]
  OBVIOUS
<1>2. /\ Resolves(doc, expected, c) /\ Readable(doc, c)
      /\ job' = Loop(d, expected, c) /\ doc \in Document
  BY <1>1 DEF LetIn, IInv, TypeOK
<1>3. c \in Serializable /\ doc.version <= Current(c) /\ Current(c) \in Versions
  BY <1>2, CurrentEntry DEF Readable, IInv
<1>4. doc.version \in Nat /\ doc.layout \in Layouts /\ Current(c) \in Nat
  BY <1>2, <1>3, VersionsAssumption DEF Document, Versions
<1>5. /\ job'.phase = "loop" /\ job'.doc = d /\ job'.given = doc /\ job'.cls = c
      /\ job'.expected = expected /\ job'.current = Current(c)
      /\ job'.version = doc.version /\ job'.fields = doc.layout /\ job'.trail = <<>>
  BY <1>1, <1>2 DEF Loop
<1>6. <<>> \in Seq(Step) /\ Len(<<>>) = 0
  BY EmptySeq
<1>7. job' \in RunJobs
  BY <1>1, <1>2, <1>3, <1>4, <1>6 DEF Loop, RunJobs
<1>8. TypeOK' /\ TablesAgree'
  BY <1>0, <1>7, SameTables DEF IInv, TypeOK, RunJobs, JobTypes
<1>9. Progress'
  <2>1. PICK j : j = job'
    OBVIOUS
  <2>2. expected \in {NoClass, c}
    BY <1>2 DEF Resolves
  <2>3. OriginOf(j)
    BY <1>5, <2>1 DEF OriginOf
  <2>4. \A v \in j.given.version..(j.version - 1) : FALSE
    BY <1>4, <1>5, <2>1
  <2>5. Len(j.trail) = 0 /\ j.version - j.given.version = 0
    BY <1>4, <1>5, <1>6, <2>1
  <2>6. ProgressOf(j)
    BY <1>2, <1>3, <1>4, <1>5, <2>1, <2>2, <2>3, <2>4, <2>5 DEF ProgressOf
  <2>7. ProgressOf(j)'
    BY <1>0, <2>6, SameTables, ProgressOfLasts
  <2> QED
    BY <2>1, <2>7 DEF Progress, ProgressOf, Readable, OriginOf, Misled, Result
<1> QED
  BY <1>5, <1>8, <1>9 DEF IInv

(* A refused document has no way to the current schema. *)
LEMMA RefusedInv ==
    ASSUME IInv, NEW d \in Docs, NEW expected \in Classes \cup {NoClass},
           TurnedAway(d, expected)
    PROVE  IInv'
<1>0. PICK doc : doc = docs[d]
  OBVIOUS
<1>1. /\ registry' = registry /\ migrations' = migrations /\ docs' = docs
      /\ job' = [phase |-> "refused", given |-> doc, expected |-> expected]
      /\ ~ \E c \in Classes : Resolves(doc, expected, c) /\ Readable(doc, c)
  BY <1>0 DEF TurnedAway, Call
<1>2. TypeOK' /\ ~ Running'
  BY <1>0, <1>1 DEF IInv, TypeOK, JobTypes, Running
<1>3. TablesAgree'
  BY <1>1, SameTables DEF IInv
<1>4. \A c : Resolves(doc, expected, c)' = Resolves(doc, expected, c)
  BY <1>1 DEF Resolves, Candidates, Serializable
<1>5. \A c : Readable(doc, c)' = Readable(doc, c)
  BY <1>1, SameTables DEF Readable
<1>6. Refused'
  BY <1>1, <1>4, <1>5 DEF Refused, Reachable, Resolves, Readable
<1> QED
  BY <1>2, <1>3, <1>6 DEF IInv

(* A step that only moves the decode to another phase keeps its progress,  *)
(* if what the phase promises holds.                                       *)
LEMMA PhaseOf ==
    ASSUME NEW j \in RunJobs, ProgressOf(j),
           NEW phase \in {"loop", "callback", "returned", "raised", "misfit"},
           phase = "callback" => j.version < j.current /\ <<j.cls, j.version>> \in migrations,
           phase = "returned" => /\ j.version = j.current
                                 /\ j.fields \in LayoutsOf[j.cls][j.current]
    PROVE  /\ [j EXCEPT !.phase = phase] \in RunJobs
           /\ ProgressOf([j EXCEPT !.phase = phase])
<1>1. PICK k : k = [j EXCEPT !.phase = phase]
  OBVIOUS
<1>2. k \in RunJobs /\ k.phase = phase
  BY <1>1 DEF RunJobs
<1>3. /\ k.doc = j.doc /\ k.given = j.given /\ k.expected = j.expected /\ k.cls = j.cls
      /\ k.current = j.current /\ k.version = j.version /\ k.fields = j.fields
      /\ k.trail = j.trail
  BY <1>1 DEF RunJobs
<1>4. OriginOf(k)
  BY <1>3 DEF ProgressOf, OriginOf, Misled, Result
<1>5. ProgressOf(k)
  BY <1>2, <1>3, <1>4 DEF ProgressOf
<1> QED
  BY <1>1, <1>2, <1>5

LEMMA PhaseInv ==
    ASSUME IInv, Running, registry' = registry, migrations' = migrations, docs' = docs,
           NEW phase \in {"loop", "callback", "returned", "raised", "misfit"},
           job' = [job EXCEPT !.phase = phase],
           phase = "callback" => job.version < job.current /\ <<job.cls, job.version>> \in migrations,
           phase = "returned" => /\ job.version = job.current
                                 /\ job.fields \in LayoutsOf[job.cls][job.current]
    PROVE  IInv'
<1>1. PICK j : j = job'
  OBVIOUS
<1>2. j \in RunJobs /\ ProgressOf(j) /\ j.phase = phase
  BY <1>1, ProgressType, PhaseOf DEF Progress, RunJobs
<1>3. ProgressOf(j)'
  BY <1>2, SameTables, ProgressOfLasts
<1>4. Progress'
  BY <1>1, <1>3 DEF Progress, ProgressOf, Readable, OriginOf, Misled, Result
<1>5. TypeOK' /\ TablesAgree'
  BY <1>1, <1>2, SameTables DEF IInv, TypeOK, RunJobs, JobTypes
<1> QED
  BY <1>1, <1>2, <1>4, <1>5 DEF IInv

(* A migration is called, or raises; the fields are decoded. *)
LEMMA PhaseSteps ==
    ASSUME IInv, CallMigration \/ MigrationRaises \/ Finish
    PROVE  IInv'
<1>1. CASE CallMigration
  <2>1. Running
    BY <1>1 DEF CallMigration, Running
  <2> QED
    BY <1>1, <2>1, PhaseInv DEF CallMigration
<1>2. CASE MigrationRaises
  <2>1. Running
    BY <1>2 DEF MigrationRaises, Running
  <2> QED
    BY <1>2, <2>1, PhaseInv DEF MigrationRaises
<1>3. CASE Finish
  <2>1. Running
    BY <1>3 DEF Finish, Running
  <2>2. job.version = job.current
    <3>1. job.version <= job.current
      BY <2>1, ProgressType DEF Progress, ProgressOf
    <3> QED
      BY <1>3, <2>1, <3>1, ProgressType DEF Finish
  <2>3. CASE job.fields \in LayoutsOf[job.cls][job.current]
    BY <1>3, <2>1, <2>2, <2>3, PhaseInv DEF Finish
  <2>4. CASE job.fields \notin LayoutsOf[job.cls][job.current]
    BY <1>3, <2>1, <2>4, PhaseInv DEF Finish
  <2> QED
    BY <2>3, <2>4
<1> QED
  BY <1>1, <1>2, <1>3

(* Without the next migration there is no way to the current schema, even  *)
(* if classes were registered since the document was let in.               *)
LEMMA RefuseGapInv ==
    ASSUME IInv, RefuseGap
    PROVE  IInv'
<1>0. PICK j : j = job
  OBVIOUS
<1>1. /\ registry' = registry /\ migrations' = migrations /\ docs' = docs
      /\ job' = [phase |-> "refused", given |-> j.given, expected |-> j.expected]
      /\ j.version < j.current /\ <<j.cls, j.version>> \notin migrations
      /\ Running
  BY <1>0 DEF RefuseGap, Call, Running
<1>2. /\ j \in RunJobs /\ ProgressOf(j)
      /\ j.given.version \in Nat /\ j.version \in Nat /\ j.current \in Nat
  BY <1>0, <1>1, ProgressType DEF Progress
<1>3. TypeOK' /\ ~ Running' /\ TablesAgree'
  BY <1>1, <1>2, SameTables DEF IInv, TypeOK, JobTypes, RunJobs, Running
<1>4. ASSUME NEW c \in Classes, Resolves(j.given, j.expected, c), Reachable(j.given, c)
      PROVE  FALSE
  <2>1. /\ j.expected \in {NoClass, j.cls} /\ Readable(j.given, j.cls)
        /\ j.current = Current(j.cls) /\ j.given.version <= j.version
    BY <1>2 DEF ProgressOf
  <2>2. j.cls \in Candidates(j.given.tag) /\ j.cls # NoClass
    BY <1>2, <2>1, ClassesAssumption DEF Readable, Candidates, RunJobs
  <2>3. c = j.cls
    BY <1>4, <2>1, <2>2 DEF Resolves
  <2>4. j.version \in j.given.version..(Current(c) - 1)
    BY <1>1, <1>2, <2>1, <2>3
  <2> QED
    BY <1>1, <1>4, <2>3, <2>4 DEF Reachable
<1>5. \A c : Resolves(j.given, j.expected, c)' = Resolves(j.given, j.expected, c)
  BY <1>1 DEF Resolves, Candidates, Serializable
<1>6. \A c : Reachable(j.given, c)' = Reachable(j.given, c)
  BY <1>1, SameTables DEF Reachable, Readable
<1>7. Refused'
  BY <1>1, <1>4, <1>5, <1>6 DEF Refused, Resolves, Reachable, Readable
<1> QED
  BY <1>3, <1>7 DEF IInv

(* The call j after its migration has returned. *)
Returned(j, result) ==
    [j EXCEPT !.phase = "loop", !.fields = result, !.version = j.version + 1,
              !.trail = Append(j.trail, [version |-> j.version, fields |-> j.fields])]

(* Its fields, and what its migrations have been given. *)
LEMMA ReturnedType ==
    ASSUME NEW j \in RunJobs, NEW result \in Layouts
    PROVE  /\ Returned(j, result) \in RunJobs /\ Returned(j, result).phase = "loop"
           /\ Returned(j, result).doc = j.doc /\ Returned(j, result).given = j.given
           /\ Returned(j, result).expected = j.expected /\ Returned(j, result).cls = j.cls
           /\ Returned(j, result).current = j.current
           /\ Returned(j, result).version = j.version + 1
           /\ Returned(j, result).fields = result
           /\ Len(j.trail) \in Nat /\ Len(Returned(j, result).trail) = Len(j.trail) + 1
           /\ \A i \in 1..Len(j.trail) : Returned(j, result).trail[i] = j.trail[i]
           /\ Returned(j, result).trail[Len(j.trail) + 1].version = j.version
           /\ Returned(j, result).trail[Len(j.trail) + 1].fields = j.fields
<1> DEFINE e == [version |-> j.version, fields |-> j.fields]
           trail == Append(j.trail, e)
           next == j.version + 1
<1>1. e \in Step /\ j.trail \in Seq(Step) /\ next \in Nat
  BY DEF RunJobs, Step
<1>2. /\ trail \in Seq(Step) /\ Len(j.trail) \in Nat /\ Len(trail) = Len(j.trail) + 1
      /\ \A i \in 1..Len(j.trail) : trail[i] = j.trail[i]
      /\ trail[Len(j.trail) + 1] = e
  <2> HIDE DEF e
  <2> QED
    BY <1>1, AppendProperties
<1>3. PICK k : k = Returned(j, result)
  OBVIOUS
<1>4. k = [j EXCEPT !.phase = "loop", !.fields = result, !.version = next, !.trail = trail]
  BY <1>3 DEF Returned
<1>5. e.version = j.version /\ e.fields = j.fields
  OBVIOUS
<1> HIDE DEF e, trail, next
<1>6. /\ k \in RunJobs /\ k.phase = "loop" /\ k.doc = j.doc /\ k.given = j.given
      /\ k.expected = j.expected /\ k.cls = j.cls /\ k.current = j.current
      /\ k.version = next /\ k.fields = result /\ k.trail = trail
  BY <1>1, <1>2, <1>4 DEF RunJobs
<1> QED
  BY <1>2, <1>3, <1>5, <1>6 DEF next

(* A migration's result counts for the next version: if it is good, the    *)
(* fields were, or it was misled, or one before.                           *)
LEMMA ReturnedProgress ==
    ASSUME IInv, NEW j \in RunJobs, ProgressOf(j), j.phase = "callback", NEW result \in Layouts
    PROVE  ProgressOf(Returned(j, result))
<1>1. PICK k : k = Returned(j, result)
  OBVIOUS
<1>2. PICK n \in Nat : n = Len(j.trail)
  BY ReturnedType
<1>3. /\ k \in RunJobs /\ k.phase = "loop" /\ k.given = j.given /\ k.expected = j.expected
      /\ k.cls = j.cls /\ k.current = j.current /\ k.version = j.version + 1
      /\ k.fields = result /\ Len(k.trail) = n + 1
      /\ \A i \in 1..n : k.trail[i] = j.trail[i]
      /\ k.trail[n + 1].version = j.version /\ k.trail[n + 1].fields = j.fields
  BY <1>1, <1>2, ReturnedType
<1>4. /\ j.given.version \in Nat /\ j.version \in Nat /\ j.current \in Nat
      /\ j.given.version <= j.version /\ j.version < j.current
      /\ <<j.cls, j.version>> \in migrations
      /\ n = j.version - j.given.version
  BY <1>2, VersionsAssumption DEF ProgressOf, RunJobs, Document, Versions
<1>5. \A v \in k.given.version..(k.version - 1) : <<k.cls, v>> \in migrations
  <2> SUFFICES ASSUME NEW v \in j.given.version..j.version PROVE <<j.cls, v>> \in migrations
    BY <1>3, <1>4
  <2>1. CASE v = j.version
    BY <1>4, <2>1
  <2>2. CASE v # j.version
    <3>1. v \in j.given.version..(j.version - 1)
      BY <1>4, <2>2
    <3> QED
      BY <3>1 DEF ProgressOf
  <2> QED
    BY <2>1, <2>2
<1>6. \A i \in 1..Len(k.trail) : k.trail[i].version = k.given.version + i - 1
  <2> SUFFICES ASSUME NEW i \in 1..(n + 1) PROVE k.trail[i].version = j.given.version + i - 1
    BY <1>3
  <2>1. CASE i = n + 1
    BY <1>3, <1>4, <2>1
  <2>2. CASE i # n + 1
    BY <1>2, <1>3, <2>2 DEF ProgressOf
  <2> QED
    BY <2>1, <2>2
<1>7. Misled(j) => Misled(k)
  <2> SUFFICES ASSUME Misled(j) PROVE Misled(k)
    OBVIOUS
  <2>1. PICK i \in 1..n : /\ j.trail[i].fields \notin LayoutsOf[j.cls][j.trail[i].version]
                          /\ Result(j, i) \in LayoutsOf[j.cls][j.trail[i].version + 1]
    BY <1>2 DEF Misled
  <2>2. Result(k, i) = Result(j, i)
    <3>1. CASE i = n
      BY <1>2, <1>3, <3>1 DEF Result
    <3>2. CASE i # n
      BY <1>2, <1>3, <3>2 DEF Result
    <3> QED
      BY <3>1, <3>2
  <2>3. i \in 1..Len(k.trail) /\ k.trail[i] = j.trail[i]
    BY <1>3
  <2> QED
    BY <1>3, <2>1, <2>2, <2>3 DEF Misled
<1>8. OriginOf(k)
  <2> SUFFICES ASSUME k.fields \in LayoutsOf[k.cls][k.version], ~ Misled(k)
               PROVE  k.given.layout \in LayoutsOf[k.cls][k.given.version]
    BY DEF OriginOf
  <2>1. n + 1 \in 1..Len(k.trail) /\ Result(k, n + 1) = result
    BY <1>3 DEF Result
  <2>2. k.trail[n + 1].fields \in LayoutsOf[k.cls][k.trail[n + 1].version]
    BY <1>3, <2>1 DEF Misled
  <2>3. j.fields \in LayoutsOf[j.cls][j.version]
    BY <1>3, <2>2
  <2> QED
    BY <1>3, <1>7, <2>3 DEF ProgressOf, OriginOf
<1>9. /\ k.expected \in {NoClass, k.cls} /\ Readable(k.given, k.cls)
      /\ k.current = Current(k.cls)
      /\ k.given.version <= k.version /\ k.version <= k.current
      /\ Len(k.trail) = k.version - k.given.version
  <2>1. /\ j.expected \in {NoClass, j.cls} /\ Readable(j.given, j.cls)
        /\ j.current = Current(j.cls)
    BY DEF ProgressOf
  <2>2. k.given.version <= k.version /\ k.version <= k.current
    BY <1>3, <1>4
  <2>3. Len(k.trail) = k.version - k.given.version
    BY <1>3, <1>4
  <2> QED
    BY <1>3, <2>1, <2>2, <2>3
<1>10. ProgressOf(k)
  BY <1>3, <1>5, <1>6, <1>8, <1>9 DEF ProgressOf
<1> QED
  BY <1>1, <1>10

LEMMA MigrationReturnsInv ==
    ASSUME IInv, MigrationReturns
    PROVE  IInv'
<1>1. job.phase = "callback" /\ job \in RunJobs /\ ProgressOf(job)
  BY ProgressType DEF MigrationReturns, Running, Progress
<1>2. PICK result \in Layouts : job' = Returned(job, result)
  BY DEF MigrationReturns, Returned
<1>3. registry' = registry /\ migrations' = migrations /\ docs' = docs
  BY DEF MigrationReturns
<1>4. PICK j : j = job'
  OBVIOUS
<1>5. j \in RunJobs /\ j.phase = "loop" /\ ProgressOf(j)
  BY <1>1, <1>2, <1>4, ReturnedType, ReturnedProgress
<1>6. ProgressOf(j)'
  BY <1>3, <1>5, SameTables, ProgressOfLasts
<1>7. Progress'
  BY <1>4, <1>6 DEF Progress, ProgressOf, Readable, OriginOf, Misled, Result
<1>8. TypeOK' /\ TablesAgree'
  BY <1>3, <1>4, <1>5, SameTables DEF IInv, TypeOK, RunJobs, JobTypes
<1> QED
  BY <1>4, <1>5, <1>7, <1>8 DEF IInv

(* No step of the program or of the decoder breaks the invariant. *)
LEMMA InvNext ==
    ASSUME IInv, [Next]_vars
    PROVE  IInv'
<1>1. CASE UNCHANGED vars
  <2>1. registry' = registry /\ migrations' = migrations /\ docs' = docs /\ job' = job
    BY <1>1 DEF vars
  <2>2. TypeOK' /\ TablesAgree'
    BY <2>1, SameTables DEF IInv, TypeOK
  <2>3. Running => Progress'
    BY <2>1, SameTables, ProgressLasts
  <2>4. job.phase = "refused" => Refused'
    BY <2>1, SameTables DEF IInv, Refused, Resolves, Candidates, Reachable, Readable
  <2> QED
    BY <2>1, <2>2, <2>3, <2>4 DEF IInv, Running
<1>2. ASSUME NEW c \in Classes, NEW v \in (0..MaxVersion) \cup {NoVersion}, RegisterFrozenType(c, v)
      PROVE  IInv'
  <2>1. /\ ProgramRuns /\ docs' \in [Docs -> Document] /\ migrations' = migrations
        /\ migrations \subseteq Classes \X Nat
    BY <1>2 DEF RegisterFrozenType, IInv, TypeOK
  <2>2. TablesAgree' /\ registry' \in Seq(Entry)
    BY <1>2, RegistrationKeeps, RegistrationAppends DEF IInv
  <2>3. \A b \in Serializable : b \in Serializable' /\ Current(b)' = Current(b)
    BY <1>2, RegistrationKeeps DEF IInv
  <2> QED
    BY <2>1, <2>2, <2>3, RegisterInv
<1>3. ASSUME NEW c \in Classes, NEW v \in Versions, RegisterSchemaMigration(c, v)
      PROVE  IInv'
  <2>1. /\ ProgramRuns /\ docs' \in [Docs -> Document]
        /\ registry' = registry /\ migrations \subseteq migrations'
        /\ registry \in Seq(Entry)
    BY <1>3 DEF RegisterSchemaMigration, IInv, TypeOK
  <2>2. TablesAgree' /\ migrations' \subseteq Classes \X Nat
    BY <1>3, MigrationKeeps DEF IInv
  <2>3. \A b \in Serializable : b \in Serializable' /\ Current(b)' = Current(b)
    BY <2>1 DEF Serializable, Current
  <2> QED
    BY <2>1, <2>2, <2>3, RegisterInv
<1>4. CASE Refuse
  <2>1. /\ ProgramRuns /\ docs' \in [Docs -> Document]
        /\ registry' = registry /\ migrations' = migrations
        /\ registry' \in Seq(Entry) /\ migrations' \subseteq Classes \X Nat
    BY <1>4 DEF Refuse, IInv, TypeOK
  <2>2. TablesAgree' /\ \A b \in Serializable : b \in Serializable' /\ Current(b)' = Current(b)
    BY <2>1 DEF IInv, TablesAgree, Registered, Serializable, Current
  <2> QED
    BY <2>1, <2>2, RegisterInv
<1>5. ASSUME NEW c \in Classes, NEW d \in Docs, ToJson(c, d)
      PROVE  IInv'
  <2>1. PICK doc \in Document : docs' = [docs EXCEPT ![d] = doc]
    BY <1>5, EncodedType DEF ToJson, IInv
  <2>2. docs' \in [Docs -> Document]
    BY <2>1 DEF IInv, TypeOK
  <2> QED
    BY <1>5, <2>2, DocumentInv DEF ToJson
<1>6. ASSUME NEW d \in Docs, NEW doc \in Received, Receive(d, doc)
      PROVE  IInv'
  <2>1. docs' \in [Docs -> Document]
    BY <1>6, ReceivedAssumption DEF Receive, IInv, TypeOK
  <2> QED
    BY <1>6, <2>1, DocumentInv DEF Receive
<1>7. CASE Decoding
  BY <1>7, PhaseSteps, RefuseGapInv, MigrationReturnsInv DEF Decoding
<1>8. ASSUME NEW d \in Docs, NEW expected \in Classes \cup {NoClass},
             FromJson(d, expected) \/ RefuseDocument(d, expected)
      PROVE  IInv'
  BY <1>8, LoopInv, RefusedInv DEF FromJson, RefuseDocument, LetIn, TurnedAway
<1> QED
  BY <1>1, <1>2, <1>3, <1>4, <1>5, <1>6, <1>7, <1>8 DEF Next

(* The tables only grow, and a current version stays the current one. *)
Grows ==
    /\ migrations \subseteq migrations'
    /\ \A b \in Serializable : b \in Serializable' /\ Current(b)' = Current(b)

(* That is what every step of the program and of the decoder does. *)
LEMMA TablesGrow ==
    ASSUME IInv, Next
    PROVE  Grows
<1>1. ASSUME NEW c \in Classes, NEW v \in (0..MaxVersion) \cup {NoVersion}, RegisterFrozenType(c, v)
      PROVE  Grows
  BY <1>1, RegistrationKeeps DEF Grows, IInv, RegisterFrozenType
<1>2. ASSUME registry' = registry, migrations \subseteq migrations'
      PROVE  Grows
  BY <1>2 DEF Grows, Serializable, Current
<1>3. CASE \E c \in Classes, v \in Versions : RegisterSchemaMigration(c, v)
  BY <1>2, <1>3 DEF RegisterSchemaMigration
<1>4. CASE Refuse \/ Decoding
  BY <1>2, <1>4 DEF Refuse, Decoding, CallMigration, RefuseGap, MigrationReturns,
                    MigrationRaises, Finish
<1>5. CASE \/ \E c \in Classes, d \in Docs : ToJson(c, d)
           \/ \E d \in Docs, doc \in Received : Receive(d, doc)
           \/ \E d \in Docs, expected \in Classes \cup {NoClass} :
                  FromJson(d, expected) \/ RefuseDocument(d, expected)
  BY <1>2, <1>5 DEF ToJson, Receive, FromJson, RefuseDocument
<1> QED
  BY <1>1, <1>3, <1>4, <1>5 DEF Next

(* The invariant holds for ever. *)
THEOREM Invariance == Spec => []IInv
BY InvInit, InvNext, PTL DEF Spec

-----------------------------------------------------------------------------
(* What follows. *)

(* The tables, the documents and the running call keep their types.        *)
THEOREM TypeCorrect == Spec => []TypeOK
<1>1. IInv => TypeOK
  BY DEF IInv
<1> QED
  BY <1>1, Invariance, PTL

(* A class is registered once, and migrations start from versions that are *)
(* past, also when a running migration registers more of either.           *)
THEOREM TablesStayInAgreement == Spec => []TablesAgree
<1>1. IInv => TablesAgree
  BY DEF IInv
<1> QED
  BY <1>1, Invariance, PTL

(* The way of what was returned, and the missing way of what was refused.  *)
LEMMA ProgressIsLed ==
    ASSUME NEW j, ProgressOf(j), j.phase = "returned"
    PROVE  Led(j) /\ j.expected \in {NoClass, j.cls}
BY DEF ProgressOf, Led, Reachable

LEMMA ChainFollowed == IInv => FollowsTheChain
<1>1. ASSUME IInv, job.phase = "returned"
      PROVE  Led(job) /\ job.expected \in {NoClass, job.cls}
  BY <1>1, ProgressIsLed DEF IInv, Running, Progress
<1> QED
  BY <1>1 DEF IInv, FollowsTheChain, Refused

(* from_json returns after the whole chain of migrations, in order, and    *)
(* refuses only documents that have no such chain.                         *)
THEOREM DecodingFollowsTheChain == Spec => []FollowsTheChain
BY ChainFollowed, Invariance, PTL

(* The fields of what was returned. *)
LEMMA ProgressIsRecognised ==
    ASSUME TypeOK, TablesAgree, NEW j \in RunJobs, ProgressOf(j), j.phase = "returned"
    PROVE  Recognised(j)
<1>1. /\ j.given.version \in Nat /\ j.cls \in Serializable /\ j.version = Current(j.cls)
      /\ j.given.version <= j.version /\ j.fields \in LayoutsOf[j.cls][j.version]
      /\ \A v \in j.given.version..(j.version - 1) : <<j.cls, v>> \in migrations
      /\ OriginOf(j)
  BY VersionsAssumption DEF ProgressOf, RunJobs, Document, Readable
<1>2. Current(j.cls) \in Versions /\ MaxVersion \in Nat
  BY <1>1, CurrentEntry, VersionsAssumption
<1>3. j.given.version \in 1..Current(j.cls)
  <2>1. CASE j.given.version = j.version
    BY <1>1, <1>2, <2>1 DEF Versions
  <2>2. CASE j.given.version # j.version
    <3>1. <<j.cls, j.given.version>> \in migrations
      BY <1>1, <1>2, <2>2 DEF Versions
    <3>2. j.given.version \in 1..(Current(j.cls) - 1)
      BY <3>1 DEF TablesAgree
    <3> QED
      BY <1>2, <3>2 DEF Versions
  <2> QED
    BY <2>1, <2>2
<1> QED
  BY <1>1, <1>3 DEF OriginOf, Recognised

(* What from_json returns was read from the fields its class has at the    *)
(* version the document names, whatever migrations return, unless one of   *)
(* them takes other fields for its own and makes good ones of them.        *)
THEOREM NothingElseIsMisread == Spec => []OnlyMigrationsMisread
<1>1. ASSUME IInv, job.phase = "returned"
      PROVE  Recognised(job)
  BY <1>1, ProgressType, ProgressIsRecognised DEF IInv, Running, Progress
<1>2. IInv => OnlyMigrationsMisread
  BY <1>1 DEF OnlyMigrationsMisread
<1> QED
  BY <1>2, Invariance, PTL

(* No registration, and nothing else the program does, takes away the way  *)
(* a document has to the current schema of its class.                      *)
THEOREM DocumentsStayReachable == Spec => StaysReachable
<1> DEFINE Kept == \A d \in Docs, c \in Classes : \A doc \in {docs[d]} :
                       Reachable(doc, c) => Reachable(doc, c)'
<1>1. ASSUME IInv, Next
      PROVE  Kept
  <2>1. Grows
    BY <1>1, TablesGrow
  <2>2. ASSUME NEW c \in Classes, NEW doc, Reachable(doc, c)
        PROVE  Reachable(doc, c)'
    <3>1. c \in Serializable' /\ Current(c)' = Current(c)
      BY <2>1, <2>2 DEF Grows, Reachable, Readable
    <3> QED
      BY <2>1, <2>2, <3>1 DEF Grows, Reachable, Readable
  <2> QED
    BY <2>2
<1>2. IInv /\ [Next]_vars => [Kept]_vars
  <2> HIDE DEF Kept
  <2> QED
    BY <1>1
<1> QED
  BY <1>2, Invariance, PTL DEF Spec, StaysReachable
=============================================================================
