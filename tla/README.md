# TLA+ verification of `mathhpc.foundation`

`mathhpc` is, at this commit, a Python library of immutable "foundation" records: claims,
evidence, identities, and the machinery that keeps them immutable, registers them and writes
them as canonical JSON. This directory models that library, checks the models with TLC and
proves the central theorems with TLAPS. Source paths below are relative to the repository;
`F/` stands for `src/src/mathhpc/foundation/`.

## Inventory

| Part | Source | State it keeps | Operations | Must hold |
|---|---|---|---|---|
| deep-immutability validator | `F/immutable.py:179-272` | per top-level call: `on_path`, `seen_ok`, the Python call stack | `assert_deeply_immutable`, `validate_frozen_instance`, the recursive `_validate` | accepts exactly the deeply immutable, acyclic values; a true path in the error; linear; ends |
| `FrozenDict` | `F/immutable.py:91-176` | `_items`, `_index`, lazily `_hash` | construction, lookup, iteration, hash, equality, deepcopy, pickling, repr | never changes; its two views agree; hash law; equality of mappings |
| frozen-type registry | `F/registry.py` | `_REGISTRY` | `register_frozen_type`, `registered_frozen_types` | one entry per class, frozen dataclasses only |
| schema migrations | `F/serialize.py:75-136, 353-407` | `_MIGRATIONS` | `register_schema_migration`, the migration loop of `_decode_record_doc` | every migration once and in order; nothing misread but by a migration |
| canonical codec | `F/serialize.py:139-350` | an annotation cache | `to_json`, `from_json`, `canonical_json_bytes` | round trip; one encoding per value; strict decoding |
| identity types | `F/ids.py` | none | seven constructors | exact ints in 64 bits |
| records | `F/scope.py`, `artifact.py`, `span.py`, `domains.py`, `claims.py`, `evidence.py` | none | constructors with `__post_init__` checks | checks and annotations agree; equality does not cross types |
| evidence producers | `F/evidence.py:262-359` | none; the program keeps the log | `Evidence`, `specified_evidence`, `statically_derived_evidence` | ids in range; derivations rest on something |
| package facade | `F/__init__.py` | none | re-exports | - |

The compiler, store, planner and runtime of `src/docs/design` are not implemented here.

**How the parts interact.** Every record's `__post_init__` calls `validate_frozen_instance`, which walks
whatever object graph the caller passed in. Every record module registers its classes on import; the
serializer reads the registry for each record it encodes or decodes, and looks up migrations, which are
functions of the caller: they run in the middle of a decode, may return any fields or raise, may change
documents (through nested values, the one that is being decoded too), may themselves register types and
migrations, and may call `from_json` again. Records hold records, and each is decoded at a version of its
own. A decoded record is built by its constructor, so that validation and checks run again.

**What is hard.** There are no threads, no persistence and no I/O. The difficulty lies (1) in aliasing:
validated records and FrozenDicts live among mutable objects that the program goes on changing; (2) in the
recursive walk, whose cache, path set, exceptions and stack bound must agree at every step on shared, cyclic
and deep graphs; (3) in callbacks that change the tables a running decode is reading, at any depth of
decodes within decodes; (4) in order: unordered collections at every depth, migration chains, provenance
chains; and (5) in Python's equality, which crosses `bool`, `int` and `float`, signed zeros and foreign
mappings. `PROJECT.json` lists each hazard at its line with the properties that would catch it.

## Modules

| Module | Models | Correspondence |
|---|---|---|
| `ObjectGraph` | object graphs as the validator sees them | a node has a kind (leaf, frozen container, record, named mutable, other dataclass, unknown) and references; `DeeplyImmutable`, `Offending`, `Nested`, `HoldsOneOf` define what is demanded, without reference to the algorithm |
| `DeepImmutability` | the abstract validator | one step from call to a verdict |
| `Validator` | `_validate` and both entry points | `stack` is the call stack with each frame's position in its loop, `onPath` and `seenOk` the two sets; an action is one call that returns or raises, the opening of a container, the end of its loop, or one frame of unwinding; `room` is what the caller has left of the interpreter's stack, `Unprintable` the objects whose `__repr__` raises when a path segment is made of them |
| `FrozenHeap` | a program that allocates objects, makes records and mutates what is mutable | `NewRecord` is guarded by the validator's verdict (the abstract one, which `Validator` implements) |
| `FrozenDict` | FrozenDicts over a program's mappings and lists | `_items`, `_index` (a dict of its own in `store`) and the cached `_hash` are separate; equality against the kinds of Mapping a program has, `Compare` being what it does to a `defaultdict`; `Reduce` loads a pickle in a process with another hash `seed` |
| `SchemaRegistry` | `_REGISTRY`, `_MIGRATIONS` and a running `from_json` | `job` is the frame of `_decode_record_doc`; its phase `callback` is a migration of the caller running, in which registrations and changes of documents (`ToJson`, `Receive`) can happen and which may return any fields of `Layouts`; its `trail` has what each migration was given |
| `NestedDecode` | `from_json` on records within records, and from within a migration | extends `SchemaRegistry`: its `job` is the innermost call, `callers` the suspended ones with the number of parts each has decoded; `CallPart` decodes the next field that is a record (`PartIn`: the document that the fields hold), `read` has the calls that decoded the parts so far; `CallWithin` is a migration that decodes another document, `Rewriting` one that changes documents |
| `Codec` | `_encode`, `_decode` and all their helpers | a value carries its exact Python type; a call waits on `stack` for the calls its body makes (`Parts`, `Calls`), and the body (`Encode`, `Decode`) takes their answers from the tables `encoded` and `decoded`; an answer is `{}` for an exception, else one value. The functions keep no state, so a second call on the same arguments is looked up and not made again. `Base64` and `Unbase64` are what `b64encode` makes and `b64decode` takes, `Unwritable` what `json.dumps` or UTF-8 refuses, and `CanonicalJsonBytes` the end of a call of that name where `ToJson` is one of `to_json` |
| `Records` | the record classes over `Codec` | one table per file with each field's annotation and the exact types its check lets through, and one operator per further check; `Codec` gets them as its `Schema` and `Accepts`; a record is made by a call of its constructor, which may refuse, or read from a document |
| `EvidenceLog` | evidence made by a program | `issued` ids and the `log` in order of construction |
| `MC*` | instances for TLC | graphs, classes, annotations, values and documents of a small size |
| `ObjectGraphTheorems`, `ValidatorProofs`, `FrozenHeapProofs`, `EvidenceLogProofs`, `SchemaRegistryProofs`, `NestedDecodeProofs`, `FrozenDictProofs`, `CodecProofs` | proofs | see below |

## Runs

Passing runs:

- **validator** (`MCValidator.cfg`): all graphs of three objects with up to two references each, both entry
  points, stack room for one to three nested calls (a frozen container that is not a record has at most one
  reference). Three objects suffice for self-reference, cycles, shared parts below two parents and a fault
  below a shared part; room for two calls makes a chain of three overflow, room for three lets it pass. One
  of the objects has a `__repr__` that raises. Shows that the verdict is right, `seen_ok` sound at every
  moment, `on_path` exact also while an exception unwinds, the reported path true, no container opened
  twice, and (`Decides`) that the walk implements `DeepImmutability`, liveness included.
- **frozen_heap**: three objects in every order of allocation, references, mutations; Enum
  members hold deeply immutable values (`MutablePayloads = FALSE`). Records once validated stay valid
  (`RecordsStayValid`), and nothing they hold changes, through Enum members either
  (`RecordsStayFrozen`).
- **frozen_dict**: two FrozenDicts, two keys, mappings of up to two items, whose values are zero, a NaN
  and a list, a dict and a `defaultdict` that the FrozenDicts are built from and compared with and that
  are changed later (the latter by comparisons too), two processes with a hash seed each. Both views
  agree, nothing changes, the hash law holds whenever and in whichever process a hash was cached,
  equality is that of mappings, and every mapping stays well formed. Two items suffice for two orders, a
  repeated key, and a comparison that stops in the middle. Symmetry over keys, lists, their contents,
  FrozenDicts and seeds.
- **schema_registry**: two serializable classes *of one name* and a class that cannot be registered, three
  versions, one document. `Received` are documents that are what they say, too old or too new, with the
  fields of another version, or with a tag of no class; versions 0 and 4 stand for those out of range, `odd`
  for fields of no class. Migrations may register, raise, change the document, and return any fields, those
  of another version and of the other class too. `OnlyMigrationsMisread` therefore does not say that a
  document is never misread: with an add-a-field migration, a document in the newer layout that names the
  older version becomes a record. It says that this takes a migration that makes good fields of fields that
  its version does not have; nothing else lets a document of the wrong fields through.
- **nested_decode**: a class with two parts and a part class that can hold one of its own kind, two
  versions, three documents. They are in one of two states (`Held`), and the program and its migrations
  change them from one to the other at any time: the whole `d` has two parts, of which the second holds the
  first again; or it has one, which lies about its version, while the third document holds itself. The
  fields a migration returns hold any of these. Room for two suspended calls: a decode in a decode in a
  decode, and a fourth is a RecursionError, which is how the document that holds itself ends. A migration
  may call `from_json` on a part, or on the document that is being decoded, for its own class or for another
  (`Asks`). Shows that what is returned was read with each record's own version and without leaving out a
  part (`PartsAreRead`), that what suspended calls have read of the tables stays true (`NothingGoesStale`),
  that every call ends, and that a document that can be decoded is, unless a migration or the stack's end
  prevents it (`DecodableIsDecoded`).
- **codec**: every supported form of annotation, values nested three deep in every iteration order, and
  fragments wrong in one place each, with the bare `NaN` and `Infinity` that `json.loads` reads, and bytes
  spelled as `b64encode` does (`YQ==`), otherwise (`YR==`) and wrongly. One `str` has a lone surrogate and
  one `int` too many digits. `RoundTrip` is about what comes back of what was encoded, directly or by way of
  bytes, and what may be refused; `OrderIndependent` and `Strict` are about every call made on the way.
- **records**: all 33 classes of the library with right and wrong fields. `RoundTrip`: what a constructor
  takes, a decoder takes. `Strict`: what a decoder builds, the constructor takes, at every depth, also from
  documents of refused fields. `Serializable`: no record that was accepted makes `to_json` raise, that is,
  no check lets a NaN through; `canonical_json_bytes` raises only over a `str` or an `int` that cannot be
  written. `EqualIsAlike`: equality does not cross types. `SpansAreRanges`: the five checks of `SourceSpan`
  against reading order. `MaxU64` is 2, and the `int` 3 stands for one of too many digits.
- **evidence_log**: three ids, up to two citations of evidence made before, or by mistake of the new one.
  Shows that ids stay in range and that the producer's check of one premise and the constructor's of the own
  id ground derivations of any length.

Runs that find what the code does otherwise than its documents say:

- **frozen_heap_enum**: an Enum member is accepted whatever its value, so a frozen record may hold a
  list; design note 07 wants the value validated.
- **frozen_dict_missing**: equality with a `Counter` or `defaultdict` trusts `__getitem__`, which
  never raises `KeyError`: unequal mappings compare equal (and a `defaultdict` grows).
- **codec_unions**: a union with an alias of another union among its members is not flattened, and
  its values do not decode.
- **evidence_log_ahead**: `Evidence` refuses only its own id, so a program that cites ids it has yet to use
  makes cycles, which `ProvenanceIsPrior` excludes; the module's docstring says provenance is prior evidence
  only, enforced.

Divergences noted and not given a run: `deepcopy` returns the FrozenDict itself, so that list values are
shared, where design note 07 (line 120) promises a deep copy of values (no state changes, so there is no
behaviour to check); duplicate keys raise `ValueError` (design note 07:114 says the last wins); attributes
of tuple subclasses are not seen by the validator; the copy of a document's fields is shallow, so a
migration that changes a nested list in place changes the caller's document (`NestedDecode` lets it); `repr`
of a key is evaluated for the path before the key is validated, so that a valid value may raise what its
`__repr__` does; equal records can differ in the bytes of a signed zero; NaN decodes from a document that
has it although it cannot be encoded; base64 with set pad bits (`YR==`) decodes, so that two documents stand
for one value, where the docstring has decoding strict; records with a lone surrogate or an int of too many
digits pass their constructors and `to_json`, and `canonical_json_bytes` raises a UnicodeEncodeError or a
ValueError for them, where serialize.py:13 has ints exact at any magnitude; and two registered classes of
one `__name__` make each other's documents undecodable unless the class is named.

No run constrains the state space; `CHECK_DEADLOCK FALSE` is set where a call ends (validator,
decodes) or a bound stops the program (heap, dict, log).

## Fairness

`Validator` assumes WF of its next-state relation: the walk is sequential code, a step that can be
taken is taken. `SchemaRegistry` assumes WF of the decoder's steps only: a migration that was called
returns or raises, and the loop goes on; nothing is assumed of registrations or of the program.
`NestedDecode` assumes WF of the decoder's steps as well, and SF of a migration's end at each depth:
a migration that is called returns or raises, however often it calls `from_json` before (its end is
not enabled during those calls, so that WF would not do). The other modules claim no liveness.

## Proofs

All proofs hold for every value of the constants (any graph, heap, table or log).

**Validator** (`ObjectGraphTheorems`, `ValidatorProofs`). `VerdictCorrect` is not inductive: that an
accepted object is deeply immutable depends on what `seen_ok` means while its neighbourhood is still
open. The notion that makes it work is a *certificate*: a set of settled objects whose references are
leaves or settled objects of lower rank; `CertificateSound` shows that such a set contains deeply
immutable objects only. The inductive invariant `IInv` says that `seen_ok` is a certificate, the
frames are a path of distinct open containers, everything before a frame's position is settled,
`on_path` is the set of open frames, and an exception in flight is evidence of a fault of the
argument (or of more nested containers than there was room for, or of an object below it whose
`__repr__` raises). From it follow `TypeCorrect`, `VerdictIsCorrect`,
`SeenIsSound`, `OnPathIsExact`, `PathIsCorrect`, `WalkIsLinear` (an action property) and
`WalkImplementsDecision` (initial states and steps of the refinement; that a decision comes is left
to TLC).

**FrozenHeap** (`FrozenHeapProofs`). A step appends an object or overwrites a mutable one, and neither
touches what a deeply immutable object reaches (`ReachLocal`); so validity at construction lasts
(`RecordsRemainValid`, for mutable Enum values too). The invariant adds that Enum values are deeply
immutable; under that assumption on the program, what a record *holds* is deeply immutable
(`HeldDeeplyImmutable`), hence `NothingMutable` and `RecordsAreFrozen`. The assumption cannot be
dropped: that is the finding of frozen_heap_enum.

`TypeCorrect` adds that no reference dangles.

**SchemaRegistry** (`SchemaRegistryProofs`). What a decode has read is stale as soon as a migration runs
that registers. The invariant (`Progress`) says what still holds all the same: the class is serializable
under the document's tag with the version read at the start, the migrations applied so far are in the table,
the trail counts them, and if the fields are good ones for the version reached, then the document's were for
the version it names, or one of the migrations was misled (`OriginOf`). Growing tables keep it
(`ProgressLasts`, from `RegistrationKeeps`). It gives `TablesStayInAgreement`, `DecodingFollowsTheChain`,
`NothingElseIsMisread`, and the action property `DocumentsStayReachable`. Nothing is assumed of what
migrations return, and they may change documents; that they do not keep back the dict of fields they were
given, to change it after they have returned, is the one thing the model takes for granted of them.

**EvidenceLog** (`EvidenceLogProofs`). The theorem is about a program that cites what it has made, or by
mistake the new evidence (`~ Ahead`); such a program cannot make a cycle, as the constructor refuses that
mistake, and no theorem is made of it. `DerivationsAreGrounded` is about a transitive closure: earlier
evidence keeps its foundations (`FoundationsKept`), new evidence rests on what its first premise is or rests
on (`FoundationsOfNew`), and there is a first premise because the producer refuses an empty provenance.

**NestedDecode** (`NestedDecodeProofs`). The invariant `NInv` states `SchemaRegistry`'s invariant of every
call on the stack, not only of the innermost: `ProgressOf` and `OriginOf` are its parts with the call as a
parameter, and growing tables keep them for all calls at once (`TablesGrow`, `LoopInv`). It adds that the
calls in a caller's `read` have returned as they should, with all their parts among them (`WellRead`), and
that the parts counted by `done` are there (`Built`, `Handed`): what a part was is a matter of the moment it
was read, since a migration may have changed its document since. A part that returns hands this to its
caller. `EveryPartIsRead`, `NothingReadGoesStale`, and what `SchemaRegistry` proves of one call
(`InnermostCallIsSound`) follow, for any depth.

**FrozenDict** (`FrozenDictProofs`). `ViewsAgree` needs that `_index` is the FrozenDict's own dict,
which no step of the program can reach; the hash law needs what a cached hash is: the hash, under the
process's own seed, of the items. The invariant `IInv` says both, and that keys are distinct in
every mapping. Equality is then semantic because two duplicate-free sequences of keys of one length,
one within the other, have the same keys, a counting argument. What a comparison inserts into a
`defaultdict` is new keys only (`InsertingKeeps`), and a `defaultdict` is no FrozenDict's index. Assumed
is what the ASSUMEs say: values that can be hashed are not lists, and the program's mappings are not
FrozenDicts.

**Codec** (`CodecProofs`). `_encode` and `_decode` are recursive, and what a recursive definition computes
for every input is beyond the prover; as calls on a stack with tables of answers they are a state machine,
and what was an induction over the depth of a value is an induction over steps. Each invariant says of
every answer in a table how it follows from the answers it rests on:

- `CodecInv`: every answer of the encoder is that of one `_encode` body applied to answers in the table, in
  some order of iteration, and is `{}` only if a NaN or a leaf that cannot be written is among them
  (`EncodedTable`); every answer of the decoder is a value that constructors make, fits its annotation, and
  is all the fragment says, its parts being answers again (`StrictTable`). The second part is `Strict`
  (`CodecIsStrict`).
- `TripInv`: whenever a value's encoding is decoded for an annotation of the value, the answer is that
  value (`TripTable`), and the value under way is at the bottom of the stack or has returned. The step is
  one lemma per form of annotation (`TupleBack`, ..., `DecodesBack`), on what the sort does to a list
  (`SortedArranges`), on the tags of a union, and on the constructor accepting again what it has accepted.
  Gives `CodecRoundTrip`.
- `OrderInv`: answers do not depend on the order of iteration (`OrderTable`). Sorting fragments by keys
  gives one result only if equal keys belong to equal fragments, so the encoding of the *keys* of a
  FrozenDict has to be injective: two values of one annotation with one encoding would both have to be
  what it decodes to. The proof builds the decoder's table for that encoding (`Backwards`) and applies
  `DecodesBack` to it (`Injective`). Gives `CodecIsOrderIndependent`. The tie-breaking of `sorted` is thus
  shown never to matter.

`CodecRoundTrip` and `CodecIsOrderIndependent` assume that every union among the annotations is
`Decidable`: of one annotation beside `None`, or of records only. The code does not check this;
codec_unions shows that the theorem is false without it. `MCCodec` asserts that the annotations of the run codec
satisfy it, and those of codec_unions do not.

**Records** (`CodecProofs`). `RecordsInv` adds the constructor call to `CodecInv`. For `RecordsRoundTrip`
each class is shown to take into each field only values of the field's annotation (`AllFit`, from the layers
below upwards: ids and leaves, their wholes, claims, evidence); that its `PostInit` and the codec's
annotations agree is what the code writes twice. `EqualRecordsAreAlike` rests on no field letting through
two types of number (`FieldsAreStrict`), `SpansOfRanges` on integers only, for coordinates of any size, and
`RecordsSerialize` on what has no NaN having no part with one (`WholeInv`, `PartIsWhole`): the two bound
checks of `Measured` and `AiInferred` are where a NaN would get in; and on no class having a set or a
FrozenDict in it, over whose sorting `to_json` could raise. Assumed are: the schema is that of the classes
(`SchemaAssumption`), all its unions are decidable (`UnionsAssumption`; TLC evaluates it on the library's
own classes), values are made by constructors (`ArgumentsAssumption`, `RecordsAssumption`), `b64decode`
takes back what `b64encode` makes (`Base64Assumption`), a value cannot be written if a leaf of it cannot
(`UnwritableAssumption`), a NaN means no number (`NumberAssumption`), and Python's `==` crosses number types
only (`SameAssumption`).

`CodecProofs` extends `Records`, so that the assumptions of `Records` are in force in the whole module. The
theorems about `Codec` alone and their lemmas do not cite them.

Model-checked only: liveness (`Decides`, `DecodeEnds`, `NestedDecodeEnds`, `DecodableIsDecoded`), which
needs `ENABLED`, and the liveness half of the validator's refinement. Every invariant and every action
property of a passing run is a theorem.

## Not modelled

The text that `json.dumps`, base64 and sha256 make (a fragment and what is refused, tables);
`typing.get_type_hints` and its cache (annotations are given); `repr` of FrozenDict and its `deepcopy`,
which returns the object itself; a migration that keeps back its dict of fields and changes it later;
fixture factories, which only feed tests; wording of errors. The package facade, tests and CI hold no
behaviour of their own.

## Plan

1. (done) The validator with its refinement and proofs; frozen records among mutable objects.
2. (done) FrozenDict; registry and migrations; codec; records; evidence log, with their runs.
3. (done) Records within records and re-entrant decoding, with proofs.
4. (done) Proofs about FrozenDict; NaN, pickling and `defaultdict` in its model; a raising `__repr__` in
   the validator's; NaN and Infinity in the codec's documents.
5. (done) The codec as a state machine instead of recursive operators, and proofs about it and about
   every record class, so that no safety property is left to TLC alone.
6. Next: the FrozenDict and the validator's verdict on the records that `NestedDecode` builds, so that
   decoding, migrations and immutability are one model.
7. Next: FrozenDicts as nodes of `FrozenHeap`, so that lazily cached hashes and record immutability are
   one model.
