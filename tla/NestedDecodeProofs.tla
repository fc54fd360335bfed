------------------------- MODULE NestedDecodeProofs -------------------------
(***************************************************************************)
(* from_json on records that hold records, for any number of classes,      *)
(* documents, parts and suspended calls: every call of the stack keeps     *)
(* what SchemaRegistryProofs shows of a single one, and what is handed to  *)
(* a caller was decoded as its own document and class demand.              *)
(***************************************************************************)
EXTENDS NestedDecode, SchemaRegistryProofs

RunPhases == {"loop", "callback", "returned", "raised", "misfit"}

Frames == [job : RunJobs, done : 0..MaxParts, read : SUBSET RunJobs]

(* The document and class of the k-th part of the call j are in S.         *)
Holds(S, j, k) ==
    PartIn[j.fields][k] # NoDoc =>
        \E i \in S : i.doc = PartIn[j.fields][k] /\ i.cls = PartsOf[j.cls][k]

(* The calls of S have returned as they should, with all their parts in S. *)
WellRead(S) ==
    \A j \in S :
        /\ j.phase = "returned" /\ ProgressOf(j)
        /\ \A k \in 1..Len(PartsOf[j.cls]) : Holds(S, j, k)

(* The first n parts of j have been decoded by S, those that are there.    *)
Built(j, n, S) ==
    /\ n <= Len(PartsOf[j.cls])
    /\ n # 0 => j.version >= j.current
    /\ WellRead(S)
    /\ \A k \in 1..n : Holds(S, j, k)

(* The call j, which f waits for in its decoder, decodes the next part.    *)
Handed(f, j) ==
    f.job.phase = "loop" =>
        /\ f.done + 1 <= Len(PartsOf[f.job.cls])
        /\ f.job.version >= f.job.current
        /\ j.phase \in RunPhases => /\ j.doc = PartIn[f.job.fields][f.done + 1]
                                    /\ j.cls = PartsOf[f.job.cls][f.done + 1]

Suspended(f, j) ==
    /\ f.job.phase \in {"loop", "callback"}
    /\ ProgressOf(f.job)
    /\ Built(f.job, f.done, f.read)
    /\ Handed(f, j)

(* The call the i-th suspended one waits for. *)
Above(i) == IF i = Len(callers) THEN job ELSE callers[i + 1].job

Stacked ==
    /\ callers \in Seq(Frames)
    /\ Len(callers) <= MaxDepth
    /\ \A i \in 1..Len(callers) : Suspended(callers[i], Above(i))

Parted ==
    /\ done \in 0..MaxParts
    /\ read \in SUBSET RunJobs
    /\ Running => Built(job, done, read)
    /\ job.phase = "returned" => done = Len(PartsOf[job.cls])

NInv == IInv /\ Stacked /\ Parted

-----------------------------------------------------------------------------
(* Fields and their parts. *)

(* The parts of a class are of classes, and no more than there may be.     *)
LEMMA PartTypes ==
    ASSUME NEW c \in Classes
    PROVE  /\ Len(PartsOf[c]) \in Nat /\ MaxParts \in Nat /\ Len(PartsOf[c]) <= MaxParts
           /\ \A k \in 1..Len(PartsOf[c]) :
                /\ PartsOf[c][k] \in Classes
                /\ \A f \in Layouts : PartIn[f][k] \in Docs \cup {NoDoc}
<1>1. /\ PartsOf[c] \in Seq(Classes) /\ Len(PartsOf[c]) <= MaxParts /\ MaxParts \in Nat
      /\ \A f \in Layouts : PartIn[f] \in [1..MaxParts -> Docs \cup {NoDoc}]
  BY PartsAssumption
<1>2. Len(PartsOf[c]) \in Nat
  BY <1>1
<1>3. ASSUME NEW k \in 1..Len(PartsOf[c])
      PROVE  PartsOf[c][k] \in Classes /\ \A f \in Layouts : PartIn[f][k] \in Docs \cup {NoDoc}
  <2>1. k \in 1..MaxParts
    BY <1>1, <1>2
  <2> QED
    BY <1>1, <2>1, ElementOfSeq
<1> QED
  BY <1>1, <1>2, <1>3

(* A call that has returned well joins those that did, with its parts.     *)
LEMMA OneMoreRead ==
    ASSUME NEW R, NEW S, NEW j, WellRead(R), WellRead(S), j.phase = "returned", ProgressOf(j),
           \A k \in 1..Len(PartsOf[j.cls]) : Holds(S, j, k)
    PROVE  WellRead(R \cup S \cup {j})
<1> SUFFICES ASSUME NEW i \in R \cup S \cup {j}
             PROVE  /\ i.phase = "returned" /\ ProgressOf(i)
                    /\ \A k \in 1..Len(PartsOf[i.cls]) : Holds(R \cup S \cup {j}, i, k)
  BY DEF WellRead
<1>1. ASSUME NEW T \in {R, S}, \A k \in 1..Len(PartsOf[i.cls]) : Holds(T, i, k)
      PROVE  \A k \in 1..Len(PartsOf[i.cls]) : Holds(R \cup S \cup {j}, i, k)
  BY <1>1 DEF Holds
<1>2. CASE i \in R
  BY <1>1, <1>2 DEF WellRead
<1>3. CASE i \in S
  BY <1>1, <1>3 DEF WellRead
<1>4. CASE i = j
  BY <1>1, <1>4
<1> QED
  BY <1>2, <1>3, <1>4

-----------------------------------------------------------------------------
(* The tables may grow. *)

(* What a call has read of them still holds, *)
LEMMA ReadLasts ==
    ASSUME Grows, NEW j, ProgressOf(j)
    PROVE  ProgressOf(j)'
BY ProgressOfLasts DEF Grows

LEMMA WellReadLasts ==
    ASSUME Grows, NEW S, WellRead(S)
    PROVE  WellRead(S)'
<1> SUFFICES ASSUME NEW j \in S
             PROVE  /\ j.phase = "returned" /\ ProgressOf(j)'
                    /\ \A k \in 1..Len(PartsOf[j.cls]) : Holds(S, j, k)
  BY DEF WellRead, Holds
<1> QED
  BY ReadLasts DEF WellRead

LEMMA BuiltLasts ==
    ASSUME Grows, NEW j, NEW n, NEW S, Built(j, n, S)
    PROVE  Built(j, n, S)'
<1>1. WellRead(S)'
  BY WellReadLasts DEF Built
<1> QED
  BY <1>1 DEF Built, Holds

(* and so does what a suspended call has. *)
LEMMA SuspendedLasts ==
    ASSUME Grows, NEW f, NEW j, NEW k, Suspended(f, j),
           k.phase \in RunPhases => j.phase \in RunPhases /\ k.doc = j.doc /\ k.cls = j.cls
    PROVE  Suspended(f, k)'
<1>1. ProgressOf(f.job)' /\ Built(f.job, f.done, f.read)'
  BY ReadLasts, BuiltLasts DEF Suspended
<1> QED
  BY <1>1 DEF Suspended, Handed
-----------------------------------------------------------------------------
(* The stack. *)

(* A call that waits is one that has got past its document's header.       *)
LEMMA FrameTypes ==
    ASSUME NInv
    PROVE  /\ Len(callers) \in Nat
           /\ \A i \in 1..Len(callers) : callers[i] \in Frames /\ callers[i].job \in RunJobs
<1>1. callers \in Seq(Frames)
  BY DEF NInv, Stacked
<1>2. \A i \in 1..Len(callers) : callers[i] \in Frames
  BY <1>1, ElementOfSeq
<1>3. Len(callers) \in Nat
  BY <1>1
<1> QED
  BY <1>2, <1>3 DEF Frames

(* Steps of the innermost call leave the waiting ones as they are. *)
LEMMA StackLasts ==
    ASSUME NInv, Grows, callers' = callers,
           Running' => Running /\ job'.doc = job.doc /\ job'.cls = job.cls
    PROVE  Stacked'
<1>1. ASSUME NEW i \in 1..Len(callers)
      PROVE  Suspended(callers[i], Above(i))'
  <2>1. PICK f : f = callers[i]
    OBVIOUS
  <2>2. PICK j : j = Above(i)
    OBVIOUS
  <2>3. PICK k : k = Above(i)'
    OBVIOUS
  <2>4. Suspended(f, j)
    BY <2>1, <2>2 DEF NInv, Stacked
  <2>5. k.phase \in RunPhases => j.phase \in RunPhases /\ k.doc = j.doc /\ k.cls = j.cls
    <3>1. CASE i = Len(callers)
      BY <2>2, <2>3, <3>1 DEF Above, Running, RunPhases
    <3>2. CASE i # Len(callers)
      BY <2>2, <2>3, <3>2 DEF Above
    <3> QED
      BY <3>1, <3>2
  <2>6. Suspended(f, k)'
    BY <2>4, <2>5, SuspendedLasts
  <2> QED
    BY <2>1, <2>3, <2>6
<1> QED
  BY <1>1 DEF NInv, Stacked

(* They keep the parts that have been decoded, too. *)
LEMMA FlatStep ==
    ASSUME NInv, IInv', Grows, callers' = callers, done' = done, read' = read,
           Running' => Running /\ job'.doc = job.doc /\ job'.cls = job.cls,
           Running' => Built(job', done, read),
           job'.phase = "returned" => done = Len(PartsOf[job.cls])
    PROVE  NInv'
<1>1. Stacked'
  BY StackLasts
<1>2. Running' => Built(job, done, read)'
  <2> SUFFICES ASSUME Running' PROVE Built(job, done, read)'
    OBVIOUS
  <2>1. PICK j : j = job'
    OBVIOUS
  <2>2. PICK n, S : n = done /\ S = read
    OBVIOUS
  <2>3. Built(j, n, S)'
    BY <2>1, <2>2, BuiltLasts
  <2> QED
    BY <2>1, <2>2, <2>3 DEF Built
<1>3. job'.phase = "returned" => done' = Len(PartsOf[job'.cls])
  BY DEF Running
<1>4. done' \in 0..MaxParts /\ read' \in SUBSET RunJobs
  BY DEF NInv, Parted
<1> QED
  BY <1>1, <1>2, <1>3, <1>4 DEF NInv, Parted

(* The way a call began shows in its document and class. *)
LEMMA StartedInv ==
    ASSUME IInv, NEW d \in Docs, NEW expected \in Classes \cup {NoClass},
           job' \in Started(d, expected), UNCHANGED <<registry, migrations, docs>>
    PROVE  /\ IInv'
           /\ job'.phase \in {"loop", "refused"}
           /\ Running' => job'.doc = d /\ (expected # NoClass => job'.cls = expected)
<1>1. CASE \E c \in Classes : Resolves(docs[d], expected, c) /\ Readable(docs[d], c)
  <2>1. PICK c \in Classes :
            Resolves(docs[d], expected, c) /\ Readable(docs[d], c) /\ job' = Loop(d, expected, c)
    BY <1>1 DEF Started
  <2>2. IInv'
    BY <2>1, LoopInv DEF LetIn
  <2>3. expected # NoClass => c = expected
    BY <2>1 DEF Resolves
  <2> QED
    BY <2>1, <2>2, <2>3 DEF Loop
<1>2. CASE ~ \E c \in Classes : Resolves(docs[d], expected, c) /\ Readable(docs[d], c)
  <2>1. job' = Call(docs[d], expected)
    BY <1>2 DEF Started
  <2>2. IInv'
    BY <1>2, <2>1, RefusedInv DEF TurnedAway
  <2> QED
    BY <2>1, <2>2 DEF Call, Running
<1> QED
  BY <1>1, <1>2

(* The running call is suspended, and another begins. *)
LEMMA Pushed ==
    ASSUME NInv, IInv', Suspend, UNCHANGED <<registry, migrations, docs>>,
           job.phase \in {"loop", "callback"}, job'.phase \in {"loop", "refused"},
           Handed([job |-> job, done |-> done, read |-> read], job')
    PROVE  NInv'
<1>1. PICK f : f = [job |-> job, done |-> done, read |-> read]
  OBVIOUS
<1>2. /\ Running /\ job \in RunJobs /\ done \in 0..MaxParts /\ Progress
      /\ read \in SUBSET RunJobs
  BY ProgressType DEF NInv, Parted, Running
<1>3. f \in Frames /\ f.job = job /\ f.done = done /\ f.read = read
  BY <1>1, <1>2 DEF Frames
<1>4. callers \in Seq(Frames) /\ callers' = Append(callers, f) /\ Len(callers) < MaxDepth
  BY <1>1 DEF NInv, Stacked, Suspend
<1>5. /\ callers' \in Seq(Frames) /\ Len(callers) \in Nat /\ Len(callers') = Len(callers) + 1
      /\ \A i \in 1..Len(callers) : callers'[i] = callers[i]
      /\ callers'[Len(callers) + 1] = f
  BY <1>3, <1>4, AppendProperties
<1>6. Grows
  BY SameTables DEF Grows
<1>7. ASSUME NEW i \in 1..Len(callers')
      PROVE  Suspended(callers[i], Above(i))'
  <2>1. PICK k : k = Above(i)'
    OBVIOUS
  <2>2. CASE i = Len(callers) + 1
    <3>1. k = job' /\ callers'[i] = f
      BY <1>5, <2>1, <2>2 DEF Above
    <3>2. Suspended(f, k)
      BY <1>1, <1>2, <1>3, <3>1 DEF Suspended, Progress, NInv, Parted
    <3> QED
      BY <1>6, <2>1, <3>1, <3>2, SuspendedLasts
  <2>3. CASE i # Len(callers) + 1
    <3>1. PICK g : g = callers[i]
      OBVIOUS
    <3>2. PICK j : j = Above(i)
      OBVIOUS
    <3>3. i \in 1..Len(callers) /\ callers'[i] = g
      BY <1>5, <2>3, <3>1
    <3>4. Suspended(g, j)
      BY <3>1, <3>2, <3>3 DEF NInv, Stacked
    <3>5. k = j
      <4>1. CASE i = Len(callers)
        BY <1>3, <1>5, <2>1, <3>2, <4>1 DEF Above
      <4>2. CASE i # Len(callers)
        <5>1. i + 1 \in 1..Len(callers) /\ i # Len(callers')
          BY <1>5, <3>3, <4>2
        <5> QED
          BY <1>5, <2>1, <3>2, <4>2, <5>1 DEF Above
      <4> QED
        BY <4>1, <4>2
    <3> QED
      BY <1>6, <2>1, <3>3, <3>4, <3>5, SuspendedLasts
  <2> QED
    BY <2>2, <2>3
<1>8. Stacked'
  BY <1>4, <1>5, <1>7, DepthAssumption DEF Stacked
<1>9. Parted'
  <2>1. done' = 0 /\ read' = {}
    BY DEF Suspend
  <2>2. Running' => Len(PartsOf[job'.cls]) \in Nat
    <3>1. Running' => job'.cls \in Classes
      BY DEF IInv, TypeOK, JobTypes, NoJob, Running
    <3> QED
      BY <3>1, PartTypes
  <2>3. Running' => Built(job, done, read)'
    BY <2>1, <2>2 DEF Built, WellRead
  <2> QED
    BY <2>1, <2>3, PartsAssumption DEF Parted
<1> QED
  BY <1>8, <1>9 DEF NInv

(* What is over is handed down, and its caller goes on. *)
LEMMA Popped ==
    ASSUME NInv, callers # <<>>, NEW n \in 0..MaxParts, NEW S \in SUBSET RunJobs,
           UNCHANGED <<registry, migrations, docs>>,
           callers' = SubSeq(callers, 1, Len(callers) - 1), done' = n, read' = S,
           job' \in RunJobs, job'.phase # "returned", Progress',
           job'.doc = Caller.job.doc, job'.cls = Caller.job.cls, Built(job', n, S)
    PROVE  NInv'
<1> DEFINE m == Len(callers) - 1
<1>1. /\ m \in Nat /\ Len(callers) = m + 1 /\ callers \in Seq(Frames)
      /\ Caller = callers[m + 1] /\ Len(callers) <= MaxDepth
  <2>1. callers \in Seq(Frames) /\ Len(callers) <= MaxDepth
    BY DEF NInv, Stacked
  <2>2. Len(callers) \in Nat /\ Len(callers) # 0
    BY <2>1, EmptySeq
  <2> QED
    BY <2>1, <2>2 DEF Caller
<1>2. /\ callers' \in Seq(Frames) /\ Len(callers') = m
      /\ \A i \in 1..m : callers'[i] = callers[i]
  BY <1>1, SubSeqProperties
<1>3. Grows
  BY SameTables DEF Grows
<1> HIDE DEF m
<1>4. IInv'
  <2>1. TypeOK' /\ TablesAgree'
    BY SameTables DEF NInv, IInv, TypeOK, RunJobs, JobTypes
  <2>2. job'.phase # "refused" /\ Progress'
    BY DEF RunJobs
  <2> QED
    BY <2>1, <2>2 DEF IInv
<1>5. ASSUME NEW i \in 1..Len(callers')
      PROVE  Suspended(callers[i], Above(i))'
  <2>1. PICK f : f = callers[i]
    OBVIOUS
  <2>2. PICK j : j = Above(i)
    OBVIOUS
  <2>3. PICK k : k = Above(i)'
    OBVIOUS
  <2>4. i \in 1..Len(callers) /\ i # Len(callers) /\ callers'[i] = f /\ i \in 1..m
    BY <1>1, <1>2, <2>1
  <2>5. Suspended(f, j) /\ j = callers[i + 1].job /\ i + 1 \in 1..Len(callers)
    BY <1>1, <2>1, <2>2, <2>4 DEF NInv, Stacked, Above
  <2>6. j \in RunJobs
    BY <2>5, FrameTypes
  <2>7. k.doc = j.doc /\ k.cls = j.cls
    <3>1. CASE i = m
      BY <1>1, <1>2, <2>3, <2>5, <3>1 DEF Above
    <3>2. CASE i # m
      <4>1. i + 1 \in 1..m /\ i # Len(callers')
        BY <1>1, <1>2, <2>4, <3>2
      <4> QED
        BY <1>2, <2>3, <2>5, <3>2, <4>1 DEF Above
    <3> QED
      BY <3>1, <3>2
  <2>8. Suspended(f, k)'
    BY <1>3, <2>5, <2>6, <2>7, SuspendedLasts DEF RunJobs, RunPhases
  <2> QED
    BY <2>3, <2>4, <2>8
<1>6. Stacked'
  BY <1>1, <1>2, <1>5, DepthAssumption DEF Stacked
<1>7. Parted'
  <2>1. PICK j : j = job'
    OBVIOUS
  <2>2. Built(j, n, S)'
    BY <1>3, <2>1, BuiltLasts
  <2> QED
    BY <2>1, <2>2 DEF Parted, Built
<1> QED
  BY <1>4, <1>6, <1>7 DEF NInv

-----------------------------------------------------------------------------
(* What is returned. *)

(* A call that has returned has read all its parts, and well. *)
LEMMA ReturnedIsRead ==
    ASSUME NInv, job.phase = "returned"
    PROVE  /\ job \in RunJobs /\ ProgressOf(job) /\ WellRead(read) /\ read \in SUBSET RunJobs
           /\ \A k \in 1..Len(PartsOf[job.cls]) : Holds(read, job, k)
BY ProgressType DEF NInv, Parted, Built, Running, Progress

(* One more part has been decoded. *)
LEMMA BuiltOneMore ==
    ASSUME NEW j \in RunJobs, NEW n \in 0..MaxParts, NEW S, NEW T, Built(j, n, S),
           n + 1 <= Len(PartsOf[j.cls]), j.version >= j.current,
           S \subseteq T, WellRead(T), Holds(T, j, n + 1)
    PROVE  n + 1 \in 0..MaxParts /\ Built(j, n + 1, T)
<1>1. /\ Len(PartsOf[j.cls]) \in Nat /\ MaxParts \in Nat /\ n \in Nat
      /\ Len(PartsOf[j.cls]) <= MaxParts
  BY PartTypes, PartsAssumption DEF RunJobs
<1>2. ASSUME NEW k \in 1..(n + 1)
      PROVE  Holds(T, j, k)
  <2>1. CASE k = n + 1
    BY <2>1
  <2>2. CASE k # n + 1
    <3>1. k \in 1..n
      BY <1>1, <2>2
    <3> QED
      BY <3>1 DEF Built, Holds
  <2> QED
    BY <2>1, <2>2
<1> QED
  BY <1>1, <1>2 DEF Built

-----------------------------------------------------------------------------
(* Every step keeps the invariant. *)

(* Initially no call is suspended. *)
LEMMA NInvInit == NestedInit => NInv
<1> SUFFICES ASSUME NestedInit PROVE NInv
  OBVIOUS
<1>1. IInv
  BY InvInit DEF NestedInit
<1>2. callers = <<>> /\ callers \in Seq(Frames) /\ Len(callers) = 0 /\ done = 0 /\ read = {}
  BY EmptySeq DEF NestedInit
<1>3. ~ Running /\ job.phase # "returned"
  BY DEF NestedInit, Init, NoJob, Running
<1> QED
  BY <1>1, <1>2, <1>3, PartsAssumption, DepthAssumption DEF NInv, Stacked, Parted

(* The parts of a call are those of its fields. *)
LEMMA BuiltSame ==
    ASSUME NEW j, NEW k, NEW n, NEW S, Built(j, n, S), k.cls = j.cls, k.fields = j.fields,
           k.version = j.version, k.current = j.current
    PROVE  Built(k, n, S)
BY DEF Built, Holds

(* The program's code runs. *)
LEMMA ProgramInv ==
    ASSUME NInv, Registering \/ Rewriting
    PROVE  NInv'
<1>1. /\ callers' = callers /\ done' = done /\ read' = read
      /\ ProgramRuns
  BY DEF Registering, Rewriting, RegisterFrozenType, RegisterSchemaMigration
<1>2. IInv' /\ Grows
  <2>1. CASE Registering
    <3>1. \A v \in Versions : v \in (0..MaxVersion) \cup {NoVersion}
      BY VersionsAssumption DEF Versions
    <3>2. Next
      BY <2>1, <3>1 DEF Registering, Next
    <3> QED
      BY <3>2, InvNext, TablesGrow DEF NInv
  <2>2. CASE Rewriting
    <3>1. docs' \in [Docs -> Document] /\ registry' = registry /\ migrations' = migrations
      BY <2>2, HeldAssumption DEF Rewriting
    <3>2. Grows
      BY <3>1 DEF Grows, Serializable, Current
    <3> QED
      BY <1>1, <3>1, <3>2, DocumentInv DEF NInv
  <2> QED
    BY <2>1, <2>2
<1>3. job' = job \/ job' = NoJob
  BY <1>1 DEF ProgramRuns
<1>4. CASE job' = NoJob
  <2>1. ~ Running' /\ job'.phase # "returned"
    BY <1>4 DEF NoJob, Running
  <2> QED
    BY <1>1, <1>2, <2>1, FlatStep
<1>5. CASE job' = job
  <2>1. /\ Running' => Running /\ Built(job', done, read)
        /\ job'.phase = "returned" => done = Len(PartsOf[job.cls])
    BY <1>5 DEF NInv, Parted, Running
  <2> QED
    BY <1>1, <1>2, <1>5, <2>1, FlatStep
<1> QED
  BY <1>3, <1>4, <1>5

(* The innermost call moves to another phase, or its migration returns:    *)
(* then it has not begun with its parts.                                   *)
LEMMA FlatInv ==
    ASSUME NInv, Migrating \/ MigrationEnds \/ FinishWhole
    PROVE  NInv'
<1>1. Next /\ callers' = callers /\ done' = done /\ read' = read
  BY DEF Migrating, MigrationEnds, FinishWhole, Next, Decoding
<1>2. IInv' /\ Grows
  BY <1>1, InvNext, TablesGrow DEF NInv
<1>3. Running /\ job \in RunJobs /\ Built(job, done, read) /\ ProgressOf(job)
  <2>1. Running
    BY DEF Migrating, MigrationEnds, FinishWhole, CallMigration, RefuseGap, MigrationReturns,
           MigrationRaises, Finish, Running
  <2> QED
    BY <2>1, ProgressType DEF NInv, Parted, Progress
<1>4. ASSUME NEW phase \in RunPhases, job' = [job EXCEPT !.phase = phase],
             phase = "returned" => done = Len(PartsOf[job.cls])
      PROVE  NInv'
  <2>1. /\ job'.doc = job.doc /\ job'.cls = job.cls /\ job'.fields = job.fields
        /\ job'.version = job.version /\ job'.current = job.current /\ job'.phase = phase
    BY <1>3, <1>4 DEF RunJobs
  <2>2. PICK k : k = job'
    OBVIOUS
  <2>3. Built(k, done, read)
    BY <1>3, <2>1, <2>2, BuiltSame
  <2> QED
    BY <1>1, <1>2, <1>3, <1>4, <2>1, <2>2, <2>3, FlatStep DEF Built, Holds
<1>5. CASE CallMigration \/ MigrationRaises
  BY <1>4, <1>5 DEF CallMigration, MigrationRaises, RunPhases
<1>6. CASE RefuseGap
  <2>1. ~ Running' /\ job'.phase # "returned"
    BY <1>6 DEF RefuseGap, Call, Running
  <2> QED
    BY <1>1, <1>2, <2>1, FlatStep
<1>7. CASE MigrationReturns
  <2>1. PICK result \in Layouts : job' = Returned(job, result)
    BY <1>7 DEF MigrationReturns, Returned
  <2>2. /\ job'.doc = job.doc /\ job'.cls = job.cls /\ job'.phase = "loop"
    BY <1>3, <2>1, ReturnedType
  <2>3. done = 0
    <3>1. job.version < job.current /\ job.version \in Nat /\ job.current \in Nat
      BY <1>3, <1>7, VersionsAssumption DEF MigrationReturns, ProgressOf, RunJobs, Versions
    <3> QED
      BY <1>3, <3>1 DEF Built
  <2>4. Built(job', done, read)
    BY <1>3, <2>2, <2>3 DEF Built
  <2> QED
    BY <1>1, <1>2, <1>3, <2>2, <2>4, FlatStep
<1>8. CASE FinishWhole
  <2>1. PICK phase \in {"returned", "misfit"} :
            /\ job' = [job EXCEPT !.phase = phase]
            /\ phase = "returned" => job.fields \in LayoutsOf[job.cls][job.current]
    BY <1>8 DEF FinishWhole, Finish
  <2>2. phase = "returned" => done = Len(PartsOf[job.cls])
    <3>1. phase = "returned" => ~ done < Len(PartsOf[job.cls])
      BY <1>8, <2>1 DEF FinishWhole, Finish, Pending
    <3>2. done <= Len(PartsOf[job.cls]) /\ done \in Nat /\ Len(PartsOf[job.cls]) \in Nat
      BY <1>3, PartTypes, PartsAssumption DEF NInv, Parted, Built, RunJobs
    <3> QED
      BY <3>1, <3>2
  <2> QED
    BY <1>4, <2>1, <2>2 DEF RunPhases
<1> QED
  BY <1>5, <1>6, <1>7, <1>8 DEF Migrating, MigrationEnds

(* The end of the stack, and a field that is null. *)
LEMMA TooDeepInv ==
    ASSUME NInv, TooDeep
    PROVE  NInv'
<1>1. /\ Running /\ job \in RunJobs /\ job' = [job EXCEPT !.phase = "raised"]
      /\ registry' = registry /\ migrations' = migrations /\ docs' = docs
      /\ callers' = callers /\ done' = done /\ read' = read /\ Built(job, done, read)
  BY ProgressType DEF TooDeep, Pending, Running, NInv, Parted
<1>2. IInv'
  BY <1>1, PhaseInv DEF NInv
<1>3. /\ job'.doc = job.doc /\ job'.cls = job.cls /\ job'.phase = "raised"
      /\ job'.fields = job.fields /\ job'.version = job.version /\ job'.current = job.current
  BY <1>1 DEF RunJobs
<1>4. Grows
  BY <1>1, SameTables DEF Grows
<1>5. Built(job', done, read)
  BY <1>1, <1>3 DEF Built, Holds
<1> QED
  BY <1>1, <1>2, <1>3, <1>4, <1>5, FlatStep

LEMMA SkipPartInv ==
    ASSUME NInv, SkipPart
    PROVE  NInv'
<1>1. /\ Running /\ job \in RunJobs /\ job.phase = "loop" /\ done' = done + 1
      /\ done \in 0..MaxParts /\ Built(job, done, read) /\ done < Len(PartsOf[job.cls])
      /\ PartIn[job.fields][done + 1] = NoDoc /\ job.version >= job.current
      /\ registry' = registry /\ migrations' = migrations /\ docs' = docs
      /\ job' = job /\ callers' = callers /\ read' = read /\ read \in SUBSET RunJobs
  BY ProgressType DEF SkipPart, Pending, Part, Running, NInv, Parted, vars
<1>2. IInv'
  BY <1>1, InvNext DEF NInv, vars
<1>3. Grows
  BY <1>1, SameTables DEF Grows
<1>4. Stacked'
  BY <1>1, <1>3, StackLasts
<1>5. PICK j \in RunJobs, n \in 0..MaxParts, S \in SUBSET RunJobs : j = job /\ n = done /\ S = read
  BY <1>1
<1>6. Len(PartsOf[j.cls]) \in Nat /\ MaxParts \in Nat
  BY PartTypes DEF RunJobs
<1>7. n + 1 \in 0..MaxParts /\ Built(j, n + 1, S)
  <2>1. WellRead(S) /\ Holds(S, j, n + 1) /\ n + 1 <= Len(PartsOf[j.cls])
    BY <1>1, <1>5, <1>6 DEF Built, Holds
  <2> QED
    BY <1>1, <1>5, <2>1, BuiltOneMore
<1>8. Built(j, n + 1, S)'
  BY <1>3, <1>7, BuiltLasts
<1>9. Parted'
  BY <1>1, <1>5, <1>7, <1>8 DEF Parted
<1> QED
  BY <1>2, <1>4, <1>9 DEF NInv

(* A part is decoded with the class of its annotation. *)
LEMMA CallPartInv ==
    ASSUME NInv, CallPart
    PROVE  NInv'
<1>1. /\ Running /\ job \in RunJobs /\ job.phase = "loop" /\ done \in 0..MaxParts
      /\ done < Len(PartsOf[job.cls]) /\ Part # NoDoc /\ Part = PartIn[job.fields][done + 1]
      /\ job.version >= job.current
      /\ Suspend /\ UNCHANGED <<registry, migrations, docs>>
      /\ job' \in Started(Part, PartsOf[job.cls][done + 1])
  BY ProgressType DEF CallPart, Pending, Part, Running, NInv, Parted
<1>2. /\ job.fields \in Layouts /\ job.cls \in Classes /\ done \in Nat
      /\ Len(PartsOf[job.cls]) \in Nat
  BY <1>1, PartTypes, PartsAssumption DEF RunJobs
<1>3. done + 1 \in 1..Len(PartsOf[job.cls]) /\ done + 1 <= Len(PartsOf[job.cls])
  BY <1>1, <1>2
<1>4. PICK d \in Docs, e \in Classes : d = Part /\ e = PartsOf[job.cls][done + 1]
  BY <1>1, <1>2, <1>3, PartTypes
<1>5. e # NoClass
  BY ClassesAssumption
<1>6. /\ IInv' /\ job'.phase \in {"loop", "refused"}
      /\ Running' => job'.doc = d /\ job'.cls = e
  BY <1>1, <1>4, <1>5, StartedInv DEF NInv
<1>7. Handed([job |-> job, done |-> done, read |-> read], job')
  BY <1>1, <1>3, <1>4, <1>6 DEF Handed, Running, RunPhases
<1> QED
  BY <1>1, <1>6, <1>7, Pushed

(* A migration calls from_json. *)
LEMMA CallWithinInv ==
    ASSUME NInv, NEW d \in Docs, NEW expected \in Classes \cup {NoClass}, CallWithin(d, expected)
    PROVE  NInv'
<1>1. /\ job.phase = "callback" /\ job' \in Started(d, expected) /\ Suspend
      /\ UNCHANGED <<registry, migrations, docs>>
  BY DEF CallWithin
<1>2. IInv' /\ job'.phase \in {"loop", "refused"}
  BY <1>1, StartedInv DEF NInv
<1>3. Handed([job |-> job, done |-> done, read |-> read], job')
  BY <1>1 DEF Handed
<1> QED
  BY <1>1, <1>2, <1>3, Pushed

(* The program's own call. *)
LEMMA OuterCallInv ==
    ASSUME NInv, NEW d \in Docs, NEW expected \in Classes \cup {NoClass}, OuterCall(d, expected)
    PROVE  NInv'
<1>1. /\ callers = <<>> /\ callers' = <<>> /\ done' = 0 /\ read' = {}
      /\ FromJson(d, expected) \/ RefuseDocument(d, expected)
  BY DEF OuterCall
<1>2. IInv' /\ job'.phase \in {"loop", "refused"}
  BY <1>1, LoopInv, RefusedInv
     DEF NInv, FromJson, RefuseDocument, LetIn, TurnedAway, Loop, Call
<1>3. Stacked'
  BY <1>1, EmptySeq, DepthAssumption DEF Stacked
<1>4. Running' => Built(job, done, read)'
  <2>1. Running' => job'.cls \in Classes
    BY <1>2 DEF IInv, TypeOK, JobTypes, NoJob, Running
  <2> QED
    BY <1>1, <2>1, PartTypes DEF Built, WellRead
<1> QED
  BY <1>1, <1>2, <1>3, <1>4, PartsAssumption DEF NInv, Parted

(* The caller of the running call, and what is known of it. *)
LEMMA CallerFrame ==
    ASSUME NInv, callers # <<>>
    PROVE  Caller \in Frames /\ Suspended(Caller, job)
<1>1. Len(callers) \in Nat /\ Len(callers) # 0
  BY FrameTypes, EmptySeq DEF NInv, Stacked
<1>2. Len(callers) \in 1..Len(callers)
  BY <1>1
<1>3. Caller \in Frames /\ Suspended(Caller, Above(Len(callers)))
  BY <1>2, FrameTypes DEF Caller, NInv, Stacked
<1> QED
  BY <1>3 DEF Above

(* A part, or what a migration called, is over: one decoded part more, or  *)
(* an exception, or the migration's business.                              *)
LEMMA ResumeInv ==
    ASSUME NInv, PartReturns \/ PartFails \/ BackToMigration
    PROVE  NInv'
<1>1. callers # <<>>
  BY DEF PartReturns, PartFails, BackToMigration
<1>2. PICK f \in Frames : f = Caller
  BY <1>1, CallerFrame
<1>3. /\ f.job \in RunJobs /\ f.done \in 0..MaxParts /\ f.read \in SUBSET RunJobs
      /\ Suspended(f, job) /\ ProgressOf(f.job) /\ Built(f.job, f.done, f.read)
      /\ f.job.phase \in {"loop", "callback"}
  BY <1>1, <1>2, CallerFrame DEF Frames, Suspended
<1>4. CASE PartReturns
  <2>1. PICK i, S, T : i = job /\ S = read /\ T = f.read \cup read \cup {job}
    OBVIOUS
  <2>2. /\ f.job.phase = "loop" /\ i.phase = "returned" /\ T = f.read \cup S \cup {i}
        /\ Resume(f.job, f.done + 1, T)
    BY <1>2, <1>4, <2>1 DEF PartReturns
  <2>3. /\ UNCHANGED <<registry, migrations, docs>> /\ job' = f.job /\ done' = f.done + 1
        /\ read' = T /\ callers' = SubSeq(callers, 1, Len(callers) - 1)
    BY <2>2 DEF Resume
  <2>4. /\ i \in RunJobs /\ ProgressOf(i) /\ WellRead(S) /\ S \in SUBSET RunJobs
        /\ \A k \in 1..Len(PartsOf[i.cls]) : Holds(S, i, k)
    BY <2>1, <2>2, ReturnedIsRead
  <2>5. WellRead(T) /\ T \in SUBSET RunJobs /\ f.read \subseteq T /\ i \in T
    BY <1>3, <2>2, <2>4, OneMoreRead DEF Built
  <2>6. /\ f.done + 1 <= Len(PartsOf[f.job.cls]) /\ f.job.version >= f.job.current
        /\ i.doc = PartIn[f.job.fields][f.done + 1] /\ i.cls = PartsOf[f.job.cls][f.done + 1]
    BY <1>3, <2>1, <2>2 DEF Suspended, Handed, RunPhases
  <2>7. Holds(T, f.job, f.done + 1)
    BY <2>5, <2>6 DEF Holds
  <2>8. f.done + 1 \in 0..MaxParts /\ Built(f.job, f.done + 1, T)
    BY <1>3, <2>5, <2>6, <2>7, BuiltOneMore
  <2>9. ProgressOf(f.job)'
    BY <1>3, <2>3, SameTables, ReadLasts DEF Grows
  <2>10. Progress'
    BY <2>3, <2>9 DEF Progress, ProgressOf, OriginOf, Readable, Misled, Result
  <2>11. job' \in RunJobs /\ job'.phase # "returned" /\ Built(job', f.done + 1, T)
    BY <1>3, <2>2, <2>3, <2>8
  <2>12. job'.doc = Caller.job.doc /\ job'.cls = Caller.job.cls
    BY <1>2, <2>3
  <2> QED
    BY <1>1, <2>3, <2>5, <2>8, <2>10, <2>11, <2>12, Popped
<1>5. CASE PartFails
  <2>1. PICK phase \in {"raised", "misfit"} :
            Resume([f.job EXCEPT !.phase = phase], f.done, f.read)
    BY <1>2, <1>5 DEF PartFails
  <2>2. PICK j : j = [f.job EXCEPT !.phase = phase]
    OBVIOUS
  <2>3. /\ UNCHANGED <<registry, migrations, docs>> /\ job' = j /\ done' = f.done
        /\ read' = f.read /\ callers' = SubSeq(callers, 1, Len(callers) - 1)
    BY <2>1, <2>2 DEF Resume
  <2>4. j \in RunJobs /\ ProgressOf(j)
    BY <1>3, <2>2, PhaseOf
  <2>5. /\ j.phase = phase /\ j.doc = f.job.doc /\ j.cls = f.job.cls /\ j.fields = f.job.fields
        /\ j.version = f.job.version /\ j.current = f.job.current
    BY <1>3, <2>2 DEF RunJobs
  <2>6. ProgressOf(j)'
    BY <2>3, <2>4, SameTables, ReadLasts DEF Grows
  <2>7. Progress'
    BY <2>3, <2>6 DEF Progress, ProgressOf, OriginOf, Readable, Misled, Result
  <2>8. Built(job', f.done, f.read)
    BY <1>3, <2>3, <2>5, BuiltSame
  <2>9. job' \in RunJobs /\ job'.phase # "returned"
    BY <2>3, <2>4, <2>5
  <2>10. job'.doc = Caller.job.doc /\ job'.cls = Caller.job.cls
    BY <1>2, <2>3, <2>5
  <2> QED
    BY <1>1, <1>3, <2>3, <2>7, <2>8, <2>9, <2>10, Popped
<1>6. CASE BackToMigration
  <2>1. /\ UNCHANGED <<registry, migrations, docs>> /\ job' = f.job /\ done' = f.done
        /\ read' = f.read /\ callers' = SubSeq(callers, 1, Len(callers) - 1)
    BY <1>2, <1>6 DEF BackToMigration, Resume
  <2>2. ProgressOf(f.job)'
    BY <1>3, <2>1, SameTables, ReadLasts DEF Grows
  <2>3. Progress'
    BY <2>1, <2>2 DEF Progress, ProgressOf, OriginOf, Readable, Misled, Result
  <2>4. job' \in RunJobs /\ job'.phase # "returned" /\ Built(job', f.done, f.read)
    BY <1>3, <2>1
  <2>5. job'.doc = Caller.job.doc /\ job'.cls = Caller.job.cls
    BY <1>2, <2>1
  <2> QED
    BY <1>1, <1>3, <2>1, <2>3, <2>4, <2>5, Popped
<1> QED
  BY <1>4, <1>5, <1>6

(* No step of any call breaks the invariant. *)
LEMMA NInvNext ==
    ASSUME NInv, [NestedNext]_nestedVars
    PROVE  NInv'
<1>1. CASE UNCHANGED nestedVars
  <2>1. /\ registry' = registry /\ migrations' = migrations /\ docs' = docs /\ job' = job
        /\ callers' = callers /\ done' = done /\ read' = read
    BY <1>1 DEF nestedVars, vars
  <2>2. IInv' /\ Grows
    BY <2>1, InvNext, SameTables DEF NInv, vars, Grows
  <2>3. /\ Running' => Running /\ Built(job', done, read)
        /\ job'.phase = "returned" => done = Len(PartsOf[job.cls])
    BY <2>1 DEF Running, NInv, Parted
  <2> QED
    BY <2>1, <2>2, <2>3, FlatStep
<1>2. CASE Stepping
  BY <1>2, FlatInv, SkipPartInv, CallPartInv, TooDeepInv, ResumeInv DEF Stepping
<1> QED
  BY <1>1, <1>2, ProgramInv, FlatInv, OuterCallInv, CallWithinInv DEF NestedNext

(* The invariant holds for ever, however deep the calls go. *)
THEOREM NestedInvariance == NestedSpec => []NInv
BY NInvInit, NInvNext, PTL DEF NestedSpec

-----------------------------------------------------------------------------
(* What follows. *)

(* The stack holds suspended calls, within its bound.                      *)
THEOREM NestedTypeCorrect == NestedSpec => []NestedTypeOK
<1>1. NInv => NestedTypeOK
  <2> SUFFICES ASSUME NInv PROVE NestedTypeOK
    OBVIOUS
  <2>1. RunJobs \subseteq JobTypes
    BY DEF RunJobs, JobTypes
  <2>2. Frames \subseteq [job : JobTypes, done : 0..MaxParts, read : SUBSET JobTypes]
    BY <2>1 DEF Frames
  <2>3. callers \in Seq([job : JobTypes, done : 0..MaxParts, read : SUBSET JobTypes])
    BY <2>2, SeqMonotonic DEF NInv, Stacked
  <2>4. \A i \in 1..Len(callers) : callers[i].job.phase \in {"loop", "callback"}
    BY DEF NInv, Stacked, Suspended
  <2> QED
    BY <2>1, <2>3, <2>4 DEF NestedTypeOK, NInv, IInv, Stacked, Parted
<1> QED
  BY <1>1, NestedInvariance, PTL

(* Nothing is returned unless it and every record in it was led its own    *)
(* way to the current schema of its own class, from what its document was  *)
(* when it was read, whatever migrations return and change.                *)
THEOREM EveryPartIsRead == NestedSpec => []PartsAreRead
<1>1. ASSUME NInv, job.phase = "returned", NEW j \in read \cup {job}
      PROVE  Led(j) /\ Recognised(j) /\ Complete(j, read)
  <2>1. /\ job \in RunJobs /\ ProgressOf(job) /\ WellRead(read) /\ read \in SUBSET RunJobs
        /\ \A k \in 1..Len(PartsOf[job.cls]) : Holds(read, job, k)
    BY <1>1, ReturnedIsRead
  <2>2. /\ j \in RunJobs /\ j.phase = "returned" /\ ProgressOf(j)
        /\ \A k \in 1..Len(PartsOf[j.cls]) : Holds(read, j, k)
    <3>1. CASE j = job
      BY <1>1, <2>1, <3>1
    <3>2. CASE j \in read
      BY <2>1, <3>2 DEF WellRead
    <3> QED
      BY <3>1, <3>2
  <2>3. Led(j)
    BY <2>2, ProgressIsLed
  <2>4. Recognised(j)
    BY <1>1, <2>2, ProgressIsRecognised DEF NInv, IInv
  <2>5. Complete(j, read)
    BY <2>2 DEF Complete, Holds
  <2> QED
    BY <2>3, <2>4, <2>5
<1>2. NInv => PartsAreRead
  BY <1>1 DEF PartsAreRead
<1> QED
  BY <1>2, NestedInvariance, PTL

(* What a suspended call has read of the tables is still so, whatever the  *)
(* calls further in, and their migrations, have registered.                *)
THEOREM NothingReadGoesStale == NestedSpec => []NothingGoesStale
<1>1. ASSUME NInv, NEW j \in {callers[i].job : i \in 1..Len(callers)} \cup
                            {k \in {job} : k.phase \in {"loop", "callback"}}
      PROVE  /\ j.cls \in Serializable /\ j.current = Current(j.cls)
             /\ \A v \in j.given.version..(j.version - 1) : <<j.cls, v>> \in migrations
             /\ j.phase = "callback" => <<j.cls, j.version>> \in migrations
  <2>1. ProgressOf(j)
    <3>1. CASE j \in {callers[i].job : i \in 1..Len(callers)}
      BY <1>1, <3>1 DEF NInv, Stacked, Suspended
    <3>2. CASE j \in {k \in {job} : k.phase \in {"loop", "callback"}}
      BY <1>1, <3>2 DEF NInv, IInv, Running, Progress
    <3> QED
      BY <3>1, <3>2
  <2> QED
    BY <2>1 DEF ProgressOf, Readable
<1>2. NInv => NothingGoesStale
  BY <1>1 DEF NothingGoesStale
<1> QED
  BY <1>2, NestedInvariance, PTL

(* What SchemaRegistryProofs shows of a single call holds of the innermost *)
(* one, at every depth.                                                    *)
THEOREM InnermostCallIsSound ==
    NestedSpec => [](TablesAgree /\ FollowsTheChain /\ OnlyMigrationsMisread)
<1>1. ASSUME NInv, job.phase = "returned"
      PROVE  Recognised(job)
  BY <1>1, ReturnedIsRead, ProgressIsRecognised DEF NInv, IInv
<1>2. NInv => TablesAgree /\ FollowsTheChain /\ OnlyMigrationsMisread
  BY <1>1, ChainFollowed DEF NInv, IInv, OnlyMigrationsMisread
<1> QED
  BY <1>2, NestedInvariance, PTL
=============================================================================
