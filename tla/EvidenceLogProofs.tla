------------------------- MODULE EvidenceLogProofs -------------------------
(***************************************************************************)
(* What derivations rest on in logs of any length, with any range of ids   *)
(* and any number of citations, for programs that cite evidence they made. *)
(***************************************************************************)
EXTENDS EvidenceLog, SequenceTheorems, TLAPS

Event == [id : issued, status : StatusClasses, provenance : Seq(issued)]

(* A step of the log: an evidence that passed the checks is appended. *)
Appended(e) ==
    /\ e \in Event
    /\ \A k \in 1..Len(e.provenance) :
            e.provenance[k] # e.id /\ (~ Ahead => e.provenance[k] \in Made)
    /\ "StaticallyDerived" \notin Statuses /\ e.status = "StaticallyDerived" => e.provenance # <<>>
    /\ log' = Append(log, e)
    /\ issued' = issued

(* The constructor appends the evidence it is asked for. *)
LEMMA ConstructorAppends ==
    ASSUME LogTypeOK, NEW id \in issued, NEW status \in StatusClasses, NEW provenance,
           Evidence(id, status, provenance),
           "StaticallyDerived" \notin Statuses /\ status = "StaticallyDerived" => provenance # <<>>
    PROVE  \E e \in Event : Appended(e)
<1> DEFINE e == [id |-> id, status |-> status, provenance |-> provenance]
<1>1. Made \subseteq issued
  <2>1. log \in Seq(Event)
    BY DEF LogTypeOK, Event
  <2>2. \A i \in 1..Len(log) : log[i] \in Event
    BY <2>1, ElementOfSeq
  <2> QED
    BY <2>2 DEF Made, Event
<1>2. Citable(id) \subseteq issued /\ (~ Ahead => Citable(id) = Made \cup {id})
  BY <1>1 DEF Citable
<1>3. PICK n \in 0..MaxCited : provenance \in [1..n -> Citable(id)]
  BY DEF Evidence, Arguments
<1>4. n \in Nat /\ provenance \in Seq(Citable(id)) /\ Len(provenance) = n
  BY <1>3, BoundsAssumption
<1>5. provenance \in Seq(issued)
  BY <1>2, <1>4, SeqMonotonic
<1>6. e \in Event
  BY <1>5 DEF Event
<1>7. \A k \in 1..Len(provenance) : provenance[k] \in Citable(id) /\ provenance[k] # id
  BY <1>3, <1>4 DEF Evidence
<1>8. Appended(e)
  BY <1>2, <1>6, <1>7 DEF Appended, Evidence
<1> QED
  BY <1>6, <1>8

(* Every step issues an id in range or appends an evidence. *)
LEMMA StepKinds ==
    ASSUME LogTypeOK, Next
    PROVE  \/ \E value \in 0..MaxId : issued' = issued \cup {value} /\ log' = log
           \/ \E e \in Event : Appended(e)
<1>1. ASSUME NEW value \in 0..(MaxId + 1), NewEvidenceId(value)
      PROVE  \E v \in 0..MaxId : issued' = issued \cup {v} /\ log' = log
  BY <1>1 DEF NewEvidenceId
<1>2. ASSUME NEW id \in issued, NEW provenance, SpecifiedEvidence(id, provenance)
      PROVE  \E e \in Event : Appended(e)
  <2>1. "Specified" \in StatusClasses /\ "Specified" # "StaticallyDerived"
    BY DEF StatusClasses
  <2> QED
    BY <1>2, <2>1, ConstructorAppends DEF SpecifiedEvidence
<1>3. ASSUME NEW id \in issued, NEW provenance, StaticallyDerivedEvidence(id, provenance)
      PROVE  \E e \in Event : Appended(e)
  <2>1. "StaticallyDerived" \in StatusClasses
    BY DEF StatusClasses
  <2> QED
    BY <1>3, <2>1, ConstructorAppends DEF StaticallyDerivedEvidence
<1>4. ASSUME NEW id \in issued, NEW provenance, NEW status \in Statuses,
             Evidence(id, status, provenance)
      PROVE  \E e \in Event : Appended(e)
  BY <1>4, ConstructorAppends, StatusesAssumption
<1> QED
  BY <1>1, <1>2, <1>3, <1>4 DEF Next

(* What appending does to the entries of the log. *)
LEMMA AppendEntries ==
    ASSUME LogTypeOK, NEW e \in Event, Appended(e)
    PROVE  /\ Len(log) \in Nat
           /\ log' \in Seq(Event)
           /\ Len(log') = Len(log) + 1
           /\ \A i \in 1..Len(log) : log'[i] = log[i]
           /\ log'[Len(log) + 1] = e
<1>1. log \in Seq(Event)
  BY DEF LogTypeOK, Event
<1> QED
  BY <1>1, AppendProperties, LenProperties DEF Appended

(* The log and the ids have their types: ids fit 64 bits. *)
THEOREM TypeCorrect == Spec => []LogTypeOK
<1>1. Init => LogTypeOK
  BY EmptySeq DEF Init, LogTypeOK
<1>2. LogTypeOK /\ [Next]_vars => LogTypeOK'
  <2> SUFFICES ASSUME LogTypeOK, [Next]_vars PROVE LogTypeOK'
    OBVIOUS
  <2>1. CASE UNCHANGED vars
    BY <2>1 DEF vars, LogTypeOK
  <2>2. ASSUME NEW value \in 0..MaxId, issued' = issued \cup {value}, log' = log
        PROVE  LogTypeOK'
    <3> DEFINE New == [id : issued', status : StatusClasses, provenance : Seq(issued')]
    <3>1. issued \subseteq issued' /\ issued' \subseteq 0..MaxId
      BY <2>2 DEF LogTypeOK
    <3>2. Seq(issued) \subseteq Seq(issued')
      BY <3>1, SeqMonotonic
    <3>3. Event \subseteq New
      BY <3>1, <3>2 DEF Event
    <3>4. log \in Seq(Event)
      BY DEF LogTypeOK, Event
    <3>5. log \in Seq(New)
      BY <3>3, <3>4, SeqMonotonic
    <3> QED
      BY <2>2, <3>1, <3>5 DEF LogTypeOK
  <2>3. ASSUME NEW e \in Event, Appended(e)
        PROVE  LogTypeOK'
    BY <2>3, AppendEntries DEF LogTypeOK, Event, Appended
  <2> QED
    BY <2>1, <2>2, <2>3, StepKinds
<1> QED
  BY <1>1, <1>2, PTL DEF Spec

-----------------------------------------------------------------------------
(* What derivations rest on. *)

(* S holds what evidence i cites, and what the evidence in S cites. *)
ClosedFrom(i, S) ==
    \A m \in 1..Len(log), n \in 1..Len(log) :
        (m = i \/ m \in S) /\ log[n].id \in Cited(log[m]) => n \in S

(* Foundations(i) is the least set closed from i. *)
LEMMA FoundationsAreLeast ==
    ASSUME NEW i, NEW j
    PROVE  j \in Foundations(i) <=>
             /\ j \in 1..Len(log)
             /\ \A S \in SUBSET (1..Len(log)) : ClosedFrom(i, S) => j \in S
BY DEF Foundations, ClosedFrom

(* Evidence made earlier rests on what it rested on. *)
LEMMA FoundationsKept ==
    ASSUME LogTypeOK, NEW e \in Event, Appended(e), NEW i \in 1..Len(log), NEW j \in Foundations(i)
    PROVE  j \in Foundations(i)'
<1>0. /\ Len(log) \in Nat /\ Len(log') = Len(log) + 1
      /\ \A k \in 1..Len(log) : log'[k] = log[k]
  BY AppendEntries
<1>1. j \in 1..Len(log)
  BY FoundationsAreLeast
<1>2. ASSUME NEW S \in SUBSET (1..Len(log')), ClosedFrom(i, S)'
      PROVE  j \in S
  <2> DEFINE T == S \cap (1..Len(log))
  <2>1. ClosedFrom(i, T)
    <3> SUFFICES ASSUME NEW m \in 1..Len(log), NEW n \in 1..Len(log),
                        m = i \/ m \in T, log[n].id \in Cited(log[m])
                 PROVE  n \in T
      BY DEF ClosedFrom
    <3>1. /\ m \in 1..Len(log') /\ n \in 1..Len(log')
          /\ log'[n] = log[n] /\ log'[m] = log[m]
      BY <1>0
    <3>2. log'[n].id \in Cited(log'[m])
      BY <3>1
    <3>3. \A i1 \in 1..Len(log'), i2 \in 1..Len(log') :
              (i1 = i \/ i1 \in S) /\ log'[i2].id \in Cited(log'[i1]) => i2 \in S
      BY <1>2 DEF ClosedFrom, Cited
    <3> QED
      BY <3>1, <3>2, <3>3
  <2>2. j \in T
    BY <2>1, FoundationsAreLeast
  <2> QED
    BY <2>2
<1> QED
  BY <1>0, <1>1, <1>2 DEF Foundations, ClosedFrom

(* New evidence rests on what it cites, and on what that rests on. *)
LEMMA FoundationsOfNew ==
    ASSUME LogTypeOK, NEW e \in Event, Appended(e), NEW N, N = Len(log) + 1,
           NEW k \in 1..Len(log), log[k].id \in Cited(e)
    PROVE  /\ k \in Foundations(N)'
           /\ \A j \in Foundations(k) : j \in Foundations(N)'
<1>0. /\ Len(log) \in Nat /\ Len(log') = N
      /\ \A m \in 1..Len(log) : log'[m] = log[m]
      /\ log'[N] = e
  BY AppendEntries
<1>1. ASSUME NEW S \in SUBSET (1..Len(log')), ClosedFrom(N, S)'
      PROVE  k \in S /\ \A j \in Foundations(k) : j \in S
  <2> DEFINE T == S \cap (1..Len(log))
  <2>1. N \in 1..Len(log') /\ k \in 1..Len(log') /\ log'[k].id \in Cited(log'[N])
    BY <1>0
  <2>2. k \in S
    <3>1. \A m \in 1..Len(log'), n \in 1..Len(log') :
              (m = N \/ m \in S) /\ log'[n].id \in Cited(log'[m]) => n \in S
      BY <1>1 DEF ClosedFrom, Cited
    <3> QED
      BY <2>1, <3>1
  <2>3. ClosedFrom(k, T)
    <3> SUFFICES ASSUME NEW m \in 1..Len(log), NEW n \in 1..Len(log),
                        m = k \/ m \in T, log[n].id \in Cited(log[m])
                 PROVE  n \in T
      BY DEF ClosedFrom
    <3>1. m \in S
      BY <2>2
    <3>2. /\ m \in 1..Len(log') /\ n \in 1..Len(log')
          /\ log'[n] = log[n] /\ log'[m] = log[m]
      BY <1>0
    <3>3. log'[n].id \in Cited(log'[m])
      BY <3>2
    <3>4. \A i1 \in 1..Len(log'), i2 \in 1..Len(log') :
              (i1 = N \/ i1 \in S) /\ log'[i2].id \in Cited(log'[i1]) => i2 \in S
      BY <1>1 DEF ClosedFrom, Cited
    <3> QED
      BY <3>1, <3>2, <3>3, <3>4
  <2>4. \A j \in Foundations(k) : j \in T
    BY <2>3, FoundationsAreLeast
  <2> QED
    BY <2>2, <2>4
<1>2. \A j \in Foundations(k) : j \in 1..Len(log)
  BY FoundationsAreLeast
<1> QED
  BY <1>0, <1>1, <1>2 DEF Foundations, ClosedFrom

(* One more entry leaves derivations grounded, and is grounded itself: it  *)
(* rests on what its first premise is, or rests on.                        *)
LEMMA AppendKeepsGrounded ==
    ASSUME ~ Ahead, "StaticallyDerived" \notin Statuses,
           LogTypeOK, DerivationsAreGrounded, NEW e \in Event, Appended(e)
    PROVE  DerivationsAreGrounded'
<1> PICK N : N = Len(log) + 1
  OBVIOUS
<1>0. /\ Len(log) \in Nat /\ Len(log') = N
      /\ \A m \in 1..Len(log) : log'[m] = log[m]
      /\ log'[N] = e
  BY AppendEntries
<1>1. ASSUME NEW i \in 1..Len(log), log[i].status = "StaticallyDerived"
      PROVE  \E j \in Foundations(i)' : log'[j].status # "StaticallyDerived"
  <2>1. PICK j \in Foundations(i) : log[j].status # "StaticallyDerived"
    BY <1>1 DEF DerivationsAreGrounded
  <2>2. j \in 1..Len(log) /\ j \in Foundations(i)'
    BY FoundationsKept, FoundationsAreLeast
  <2> QED
    BY <1>0, <2>1, <2>2
<1>2. ASSUME e.status = "StaticallyDerived"
      PROVE  \E j \in Foundations(N)' : log'[j].status # "StaticallyDerived"
  <2>1. e.provenance \in Seq(issued) /\ e.provenance # <<>>
    BY <1>2 DEF Appended, Event
  <2>2. 1 \in 1..Len(e.provenance) /\ e.provenance[1] \in Made
    BY <2>1, EmptySeq DEF Appended
  <2>3. PICK k \in 1..Len(log) : log[k].id = e.provenance[1]
    BY <2>2 DEF Made
  <2>4. log[k].id \in Cited(e)
    BY <2>2, <2>3 DEF Cited
  <2>5. /\ k \in Foundations(N)'
        /\ \A j \in Foundations(k) : j \in Foundations(N)'
    BY <2>4, FoundationsOfNew
  <2>6. CASE log[k].status # "StaticallyDerived"
    BY <1>0, <2>5, <2>6
  <2>7. CASE log[k].status = "StaticallyDerived"
    <3>1. PICK j \in Foundations(k) : log[j].status # "StaticallyDerived"
      BY <2>7 DEF DerivationsAreGrounded
    <3>2. j \in 1..Len(log) /\ j \in Foundations(N)'
      BY <2>5, FoundationsAreLeast
    <3> QED
      BY <1>0, <3>1, <3>2
  <2> QED
    BY <2>6, <2>7
<1>3. ASSUME NEW i \in 1..Len(log'), log'[i].status = "StaticallyDerived"
      PROVE  \E j \in Foundations(i)' : log'[j].status # "StaticallyDerived"
  <2>1. CASE i \in 1..Len(log)
    BY <1>0, <1>1, <1>3, <2>1
  <2>2. CASE i = N
    <3>1. e.status = "StaticallyDerived"
      BY <1>0, <1>3, <2>2
    <3>2. PICK j \in Foundations(N)' : log'[j].status # "StaticallyDerived"
      BY <1>2, <3>1
    <3>3. Foundations(i)' = Foundations(N)'
      BY <2>2 DEF Foundations
    <3> QED
      BY <3>2, <3>3
  <2> QED
    BY <1>0, <2>1, <2>2
<1> QED
  BY <1>3 DEF DerivationsAreGrounded

(* If derivations are made by their producer only, every one of them rests *)
(* on evidence that is not a derivation, however long the log.             *)
THEOREM DerivationsRest == ~ Ahead /\ Spec => []DerivationsAreGrounded
<1>1. CASE "StaticallyDerived" \in Statuses
  <2>1. DerivationsAreGrounded
    BY <1>1 DEF DerivationsAreGrounded
  <2> QED
    BY <2>1, PTL
<1>2. CASE ~ Ahead /\ "StaticallyDerived" \notin Statuses
  <2>1. Init => DerivationsAreGrounded
    BY DEF Init, DerivationsAreGrounded
  <2>2. LogTypeOK /\ DerivationsAreGrounded /\ [Next]_vars => DerivationsAreGrounded'
    <3> SUFFICES ASSUME LogTypeOK, DerivationsAreGrounded, [Next]_vars PROVE DerivationsAreGrounded'
      OBVIOUS
    <3>1. ASSUME log' = log PROVE DerivationsAreGrounded'
      <4>1. \A i : Foundations(i)' = Foundations(i)
        BY <3>1 DEF Foundations, Cited
      <4> QED
        BY <3>1, <4>1 DEF DerivationsAreGrounded
    <3>2. ASSUME NEW e \in Event, Appended(e) PROVE DerivationsAreGrounded'
      BY <1>2, <3>2, AppendKeepsGrounded
    <3> QED
      BY <3>1, <3>2, StepKinds DEF vars
  <2> QED
    BY <2>1, <2>2, TypeCorrect, PTL DEF Spec
<1> QED
  BY <1>1, <1>2
=============================================================================
