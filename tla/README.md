# Flyology Serde: a TLA+ model of the serialization runtime

`flyology_serde` is an Ada 2022 crate. It turns Ada values into JSON or CBOR and back through a
stream of logical events: a type-specific *adapter* walks a value and calls a *serializer*, or
calls a *deserializer* and fills an application-owned *builder*. Next to the runtime the
repository holds an offline generator of adapters, in Python, and the beginnings of one in Ada,
whose process runner is finished. This directory specifies the runtime, the Python generator and
the process runner in TLA+, checks them with TLC on small instances, and proves part with TLAPS.

All source paths below are relative to the repository; runtime files are
`src/flyology_serde-<unit>.ad[sb]`, the Ada generator's are
`tools/generator/ada/src/flyology_serde_generator-<unit>.ad[sb]`.

## 1. Inventory

### The runtime

| component | state | operations | interacts with |
|---|---|---|---|
| `errors` | an `Error_Info`: first code, bounded path of names and indices, count of omitted elements, offset | `Fail`, `Push_Field`, `Push_Alternative`, `Push_Index`, `Pop`, `Clear_Path`, `Reset` | passed `in out` through every call of the crate; every operation is a no-op once a code is latched |
| `budgets` | scopes (items charged per open container), logical values, input units | `Initialize`, `Consume_*`, `Enter_Container`, `Leave_Container`, length checks | owned by a reader, charged by every one of its operations |
| `serialization`, `data_model` | contract only: `Ready`, `Active`, `Finished`, `Poisoned` | 16 events, `Finish_Document`, `Abort_Document` | implemented by three serializers |
| `serializers-json`, `serializers-cbor` | a stack of container frames, flags `Root_Written`, `Failed`, `Finalized`, a buffer (bounded or allocating) | the events, `Reset`, `Copy_Output`, `Output` | called by an adapter, twice removed from the client |
| `serializers-counting` | frames of its own, a count of logical events, the capabilities of a backend | the events | the preflight of the root adapter |
| `serialization_adapters` | none between calls | `Serialize`: preflight, real pass, finish, abort | the application's `Serialize_Value` is a callback run twice |
| `deserializers-cbor` | cursor, stack of frames with child and map phases, budget, `Failed`, root state | 24 calls, `Skip_Value`, `Finish_Document`, `Abort_Document`, `Reset` | pulls octets from a source, charges the budget |
| `deserializers-json`, `-json_event_readers` | the same, and a pending terminal with its owner, and document boundary flags | the same | pulls events from the driver, one octet at a time |
| `json_event_drivers` | one-octet window (valid, charged), parser of the external `flyology_json` crate, boundary and acceptance flags | `Consume_One`, `Step_Source`, `Step_Final`, `Finish`, `Abort_Document` | between the JSON reader and the parser |
| `json_preflights` | a scan position and a depth | one function | before the JSON reader |
| `deserialization_adapters` | none between calls | `Deserialize`: begin candidate, traversal, finish, commit, or abort and rollback | builder callbacks that succeed, fail or raise |
| `adapters-records` | fields, aliases, `Seen` table of one call | `Serialize_Value`, `Deserialize_Candidate` | reader or writer, field callbacks, policies |
| `adapters-variants`, `-nullary_variants`, `-enumerations` | as records, after the alternative was selected | the same two | the same |
| `adapters-arrays`, `-fixed_arrays`, `-constrained_arrays`, `-maps`, `-optionals`, `-allocating_sequences`, `-allocating_maps`, `-allocating_text`, `-allocating_bytes` | a private candidate container and a position | the same two | the same, and the heap |
| scalar adapters, `utf_8`, `utf_8_validation`, `copied_input` facades | none | conversions with range checks | one call each |

### The generator

| component | state | operations | interacts with |
|---|---|---|---|
| `build_processes`, `build_process_abi`, `native/build_process_abi.c` | `Runner_Gate` (busy, damaged), child guard (pid, pipes, observed exit), candidate result | `Initialize`, `Add_*`, `Seal`, `Run` | tasks queue on the gate; spawn, poll, kill, wait |
| `build_budgets`, `requests-atomic_ledgers` | used input bytes and work units, active, exhausted or failed, session generation | `Initialize`, `Reserve`, `Try_Reserve`, `Poison` | charged by the runner and the attestations |
| `build_attestations`, `-local_snapshots`, `-source_lists` | retained directory descriptor, captured files | `Open_Root`, `Capture` | the file system, which may change between two observations |
| `overlays`, `lowered_records`, `rendering`, `generation`, `cli` and others | one request | sequential translation to text | none |
| `generate.py`, `generator_impl.py` | the bytes of seven files it read, an attestation, a staging directory, a claimed output directory | `load_overlay`, `load_checker`, `load_type_ir`, `lower`, `render`, `publish` | editors of those files; another generator on the same directory; crashes |
| `verify_manifest.py`, `check_release_markers.py` | where a pass over the directory is | `verify`, `find_violations` | the generators, between any two reads |
| the emitted package | a `Builder`: published value, candidate, three flags | `Initialize`, `Serialize`, `Deserialize` and their four callbacks | the root adapters; a deserializer that may call back |

`experiments/reflection_serialization`, `tests`, `scripts` and the dependency checker in `tools`
carry no behaviour of the system; tests and `docs/` were read as statements of intent.

### What is hard, and what makes each component correct

The runtime is sequential. Nothing runs concurrently; what is hard is the *protocol*: arbitrary
interleavings of calls by adapters written elsewhere, failures at every call (a latched error, a
full buffer, an exception), and pairs of state machines that must stay in step although they
count at different moments.

* **Errors**: the first failure survives cleanup; the path names the place of the failure however
  the stack unwinds, and pushes and pops balance through the overflow counter.
* **Writers**: what a client can read back is one whole JSON value or CBOR item, and nothing else
  is ever readable: not a prefix that ran out of room, not a document aborted after it finished.
* **Counting serializer**: "after a successful Counting preflight, only backend storage or sink
  failures may newly fail" (`serialization.ads`, 28-30).
* **Root serialization**: one atomic step of the serializer's lifecycle, whatever the callback
  does, and never silent about a failure.
* **Readers and budget**: what a reader accepts is well-formed, within the limits, and its budget
  and stack are in step until it fails; a failed reader stays failed until `Reset`.
* **Root deserialization and adapters**: all or nothing; what is published is what the document
  and the policy say.

The generator is not sequential. Its processes compete for a directory, are killed, and read files
that others edit; its runner is called by tasks that are aborted, and owns children it must kill.

* **Publication**: a manifest means a whole output of one generator, for ever; the loser leaves
  nothing; readers that take no lock accept only what is whole.
* **Generation**: what a manifest attests is what was executed, parsed and checked.
* **Lowering and the emitted package**: what is accepted round-trips every value, names what the
  document declares, and commits only what the operation itself decoded.
* **Runner**: nothing spawns beside another call's raw descriptors; a call kills and reaps its own
  child and nothing else, leaves nothing, publishes the truth and ends.

`PROJECT.json` lists each hazard at its line with the properties that cover it.

## 2. Modules and plan

Order of the work, the most important behaviour first. Steps 1 to 11 are in this directory.

| step | modules | models | status |
|---|---|---|---|
| 1 | `Errors`, `ErrorsProofs` | `errors`, under any traversal | checked, proved |
| 2 | `SerializerTypes`, `SerializerLifecycle` (abstract) | shared frames and events; the contract | checked, proved |
| 3 | `JsonWriter`, `CborWriter`, reference grammars `JsonGrammar`, `CborGrammar`; `Backends`; `Writers` | the writers; a client of either | checked, proved |
| 4 | `CountingSerializer`, `SerializerParity` | preflight and backend in lockstep | checked, proved |
| 5 | `SerializeRoot`, `RootLifecycle` (abstract), `SerializersProofs` | `Serialize` composed of 3 and 4; the theorems of 3 to 5 | checked, proved |
| 6 | `DecodeBudget`, `CborReader`, `CborClient`, `CborReaderProofs` | the CBOR reader and its budget; a client of it | checked, proved |
| 7 | `DeserializeRoot`, `DecodeTransaction` (abstract), `DeserializeProofs` | `Deserialize`, record adapter and reader | checked, proved |
| 8 | `AtomicPublication` (abstract), `Publication`, `PublicationReaders`, `PublicationProofs` | `publish` with every failure; verifier and scanner beside it | checked, proved |
| 9 | `Generation`, `GenerationProofs` | a run from its first read to publication, over `AtomicPublication` | checked, proved |
| 10 | `Lowering`, `GeneratedAdapter`, `GeneratedAdapterProofs` | `lower`; the package `render` prints | checked, proved |
| 11 | `ProcessRunner`, `ProcessRunnerProofs` | gate, pipes, child, deadline, cleanup, aborts | checked, proved |
| 12 | container adapters | duplicate keys, moves, candidates of sequences, maps and variants | open |
| 13 | JSON reader | scopes and pending terminals over the external parser | open |

Every safety property and every action property of a passing run is proved; the liveness properties
stay with TLC.

### Conventions

A component is a record with the Ada components that matter, its operations are functions from
that record to the record they leave behind, composed as the Ada statements are, and the caller's
`Error` is a field of it, because every guard of the code reads it. An early return is a branch
that returns the record reached so far. A module with variables lets a client make *any* call at
*any* time, and the composing modules (`SerializerParity`, `SerializeRoot`, `DeserializeRoot`)
take the same operators through `INSTANCE` or `EXTENDS`, so a component is written once. A definition whose
comment begins "A slip" is a plausible mistake in the definition after it; it is used by nothing
and shows that some property would notice.

## 3. Module by module

**Errors.** `info` is the `Error_Info`; `open` is the logical path of frames that are entered (a
history variable), `failedAt` the value of `open` when the failure was latched. `Enter` and
`Leave` are the push and pop every adapter makes around a child, `Report` any failing call,
`Raise` the root adapter's exception handler, `Reset` reuse. Adapters stop popping once an error
is latched in most places, and do pop in others: the model lets them pop always, which covers
both. Names are never inspected, so they are values of a set; a name too long for its slot is
not modelled.

**SerializerTypes, SerializerLifecycle.** Frames, guards and lifecycle states that the three
serializers have in common, the set of events a traversal may make, and the contract: what each
of the four states permits, that publication happens only in `Finish_Document` and is revoked by
abort and reset, and that a refused call poisons.

**JsonWriter, CborWriter.** One operator per event, from the writer that is called to the writer
it leaves; `Event` dispatches. The buffer is abstracted to its length, counted
in calls of `Emit`, and to the state it leaves a *reference reader* in: `JsonGrammar` and
`CborGrammar` are incremental recognisers written from the formats, not from the code, so that
"the output is well-formed" is a statement about the writer. `exhaustion` selects the bounded
writer, whose `Emit` fails, or the allocating one, whose `Emit` raises `Storage_Error`; a raise
skips the rest of the handler (`Raised`). A text is valid, valid and too long, or not UTF-8; a
float finite, negative zero or not finite.

**Backends.** The three serializers under `INSTANCE`, and the dispatching calls on
`Serializer'Class`: whatever has a writer, `Writers`, `SerializerParity` or `SerializeRoot`, has it
through these.

**CountingSerializer, SerializerParity.** The Counter counts a nested container in its
parent when it opens, a writer when it closes; a map key turns to a value at different moments
too. `SerializerParity` gives the same event to both. `StacksAgree` says exactly how their frames
correspond.

**Writers.** A client that declares one of the two writers and drives it: any event, `Finish`,
`Abort`, `Reset`, reads of the output, and an `Error` of its own, in any order.

**SerializeRoot, RootLifecycle.** `pc` is "idle", "preflight" or "writing". The source makes any
event, latches an error of its own, or raises; a *stable* source repeats in the real pass the
`script` recorded in the preflight, as its contract demands, an unstable one does what it likes.
Between calls the client may use the writer directly.

**DecodeBudget, CborReader, CborClient.** A source is a sequence of tokens, one per head with its payload. It
is decided lazily: a handler that inspects a token not yet decided is *starved*, waits in `call`
and runs again when `Supply` has chosen one. The choice commutes with the run of the handler, so
the reachable states are those of all sources, without enumerating sources first. `Skip_Value`
is recursive in the code; here `raw` is its explicit stack and each head is a step, during which
no other call can begin. `read` is the state of the reference decoder on what was consumed.
`CborClient` makes any call at any time, aborts, resets and latches errors of its own.

**DeserializeRoot, DecodeTransaction.** `pc` follows `Deserialize` and, inside it,
`Deserialize_Candidate`: metadata check, record begin, a loop of name, lookup, policy and value,
record end, defaults in field order, candidate finish, document finish, commit. Every callback of
the application may succeed, latch an error or raise. `history` is the consumed tokens;
`Selected`, `KeysOf` and `Unknown` compute from it, after the fact, what the policy asks for.

**AtomicPublication, Publication, PublicationReaders.** One action per call on the file system:
the staging directory, each file, the claim (`mkdir`), each link, each removal of the handler and
of the `finally` clause. `Fail` is any call that raises, `Interrupt` the exception that is no
`Exception` and passes the handler by, `Kill` the end without either; `AfterException` says where
`publish` goes on. `output` maps a name to the process that made the file, so that a mixture of two
generations can be told from one. `littered` records that a removal was itself cut short.
`PublicationReaders` adds the verifier, which reads manifest, listing, digests and texts one by
one, and the scan for fixture markers, which walks the tree; they share one program counter because
they write nothing. `AtomicPublication` is the promise: at most one publishes, for ever.

**Generation.** `disk` is what the seven files hold, `held` what a generator read, `used` what it
then executed, parsed or checked. `Edit` changes any file between any two reads. Publication is the
single step of `AtomicPublication`, which `Publication` is shown to implement. The verifier appears
with the one comparison that depends on the disk, that of the generator's digest, and
`--require-fixture`.

**Lowering, GeneratedAdapter.** `Accepts` is `lower` as a predicate, each check of the code a
conjunct; `Lowered` is the model it returns. A name is a sequence of segments, so that case
folding, selected names and the longest matching unit can be stated; a fact of the document is
"yes", "no" or "unknown". `GeneratedAdapter` starts from an accepted pair and is then the emitted
package: `Encode` and `Decodes` are its two directions as functions, and `frames` is the stack of
operations in progress, because the deserializer is a parameter that may use the `Builder` during
any call. `Compile` forgets the document, so that the state machine is explored once per package.

**ProcessRunner.** `gate` is `Runner_Gate` with its entry queue, served at the end of each
protected action; `run[r]` the locals of a call; `procs` the host's process table, whose
identifiers are reused after a reap. One action per call of `Run` that another task, the child or
an abort can come between. `Abort` applies wherever the code does not defer aborts (`Deferred` is
the rest: the entry of the gate, the finalization that resolves the child, the swap of the result),
once to a call, and only the finalization of the owner of what is held runs after it. Two sequences
are cut where an abort or an exception could fall. `Release_Safely` sets `Safe` (`MarkSafe`), makes
the protected call and clears `Held`; aborted after the first, the finalizer releases the gate
undamaged. The publication is `Swap`, after which the result is named twice (`shared`), and then
`Commit` or, on an exception, `Restore`; a call that left in between would have `Into` name a freed
result ("dangling"). An abort that was pending during the swap is delivered after it: such a call
has published, as the commit-abort test of the repository expects. `End` is the child ending by itself; the
runner's looks at it (`Check_Child`, `Peek_Without_Charging`), the group kill and `waitpid` are
separate steps. A fail-stop in a finalization is the point `stopped`: the gate is poisoned and the
task sleeps for ever, aborts deferred. That of `Check_Child` is `halted`: there an abort ends the
loop, and the finalization resolves the child and gives the gate back.

## 4. What is checked

### Fairness

The runtime's runs assume none: its operations end by themselves and a client need never call
again. Two specifications state weak fairness.

* `PublicationReaders`: `WF(Generate(g))` for each generator and `WF(Verify \/ Scan)`. A started
  process that was not killed is scheduled again; each of these is one program that always has a
  step until it ends. Nothing makes anybody disturb a generator or start a reader.
* `ProcessRunner`: `WF(Step(r))` and `WF(DeadlinePasses(r))`. The scheduler runs a task that can
  run, and the clock reaches a deadline. No fairness of the children: one may never end nor close
  a stream. The entry queue is served in order by the protected object, not by an assumption.

### Runs

| run | question | properties |
|---|---|---|
| `error_path` | Is an `Error_Info` right about a traversal that overflows the path, fails, unwinds, raises and reuses it? | `PathFollowsTraversal`, `PathNamesFailure`, `FirstFailureWins` |
| `writers` | Whatever the calls and wherever storage ends, is everything delivered one JSON value, or one CBOR item? Do the writers keep their contract? | `DeliveredIsJson`, `DeliveredIsCbor`, `EmittedFollowsGrammar`, `ImplementsLifecycle` |
| `serializer_parity` | Do the Counter and each backend accept the same traversals? | `PreflightSuffices`, `PreflightIsNotStricter`, `StacksAgree` |
| `serialize_root` | Is `Serialize` atomic and honest about its outcome? Does a stable source fail for storage only? | `OnlyStorageFails`, `PublishedIsWhole`, `AcceptedIsPublished`, `OutcomeIsReported`, `SerializeIsAtomic` |
| `cbor_reader` | Whatever the calls and the source, are budget and stack in step, is nothing malformed accepted, is a syntax error real? | `BudgetTracksStack`, `ConsumedIsWellFormed`, `CompleteIsWhole`, `SyntaxErrorIsReal` |
| `deserialize_root` | Is `Deserialize` a transaction, and does it publish what document and policy say? | `PublishedIsDecoded`, `RejectionIsJustified`, `DeserializeIsTransactional` |
| `publication` | Two generators, one directory, any failure anywhere, both readers: is publication atomic, do losers leave nothing, is what the readers accept whole, does everybody end? | `ManifestMeansWhole`, `RejectedLeavesNothing`, `VerifiedIsWhole`, `CleanIsClean`, `ImplementsAtomicPublication`, `Settles`, `SomeoneWins` |
| `generation` | Whatever is edited when, does a manifest say what was used, is only the reviewed fixture published, and is what the verifier accepts made by the implementation it read? | `AttestedIsUsed`, `PublishedIsReviewed`, `AcceptedIsCurrent` |
| `generated_adapter` | Does every accepted document and overlay give a package that round-trips every value and names what is declared? Can nested operations on a Builder mix their values? | `RoundTrips`, `FaithfulModel`, `CommitIsOwn` |
| `process_runner` | Two tasks, reused identifiers, aborts, time-outs, failing closes and signals: is the gate exclusive, the child one's own, the result true, and does every call end? | `NoForeignDescriptors`, `KillsOwnGroup`, `NothingLeftBehind`, `PublishedIsTrue`, `CallsEnd` |
| `generated_reentry` | *violated*: see below | `RejectsReentry` |
| `runner_release` | *violated*: see below | `NoForeignDescriptors` |

Every property of a passing run is broken by at least one of the slips, under the bounds of its
run. Type invariants of the modules with proofs are proved and in no run.

### Two disagreements

* **Re-entry of a generated Builder** (`generated_reentry`). `tools/generator/README.md` (80) says
  the generated builder "rejects an active re-entry". The first nested `Deserialize` is refused,
  but `Deserialization_Adapters.Deserialize` then calls `Rollback_Candidate`, which clears `Active`
  and `Root_Started` although they are the outer operation's (`generator_impl.py`, 717-722). A
  second nested one is therefore begun. `CommitIsOwn` holds all the same:
  every nested operation that ends leaves the flags cleared, so the outer `Commit_Candidate`
  fails with `Invalid_State` and publishes nothing.
* **The gate released twice** (`runner_release`). `Release_Safely` calls `Runner_State.Release` and
  clears `Held` afterwards, with aborts enabled (`build_processes.adb`, 114-115). A task aborted in
  between lets `Gate_Guard.Finalize` release once more; if another call holds the gate by then, a
  third is let in, and a child can inherit a raw descriptor, against
  `docs/reviews/2026-08-24-ada-build-process-runner.md` (24-27). `MCRunnerRelease.cfg` is
  `MCProcessRunner.cfg` with that one abort point; every other run and the theorem `SpawnsAlone`
  exclude it and nothing else.

### Bounds, and why they are enough

* `error_path`: two retained elements, at most two omitted, depth five. Depth four fills path and
  counter, five is one push too many; two elements suffice to tell their order.
* `writers`: nesting 2, `Natural'Last` = 2, lengths up to 2, room for 7 strings
  or 6 heads. Every frame rule relates a frame to its parent, so two levels show all pairs of
  kinds; `Natural'Last` = 2 makes the counter's limit reachable; the room is large enough for a
  map of two entries, a variant with a field, an optional in an optional, and every smaller room
  is tried, so storage ends at every point of each.
* `serializer_parity`: nesting 2 (limit 3, so that both the limit of the root and the supported
  nesting are tested), two items where a client may declare three, 7 events, room for everything
  or for one string. A limit is exceeded by one in each dimension. A traversal ends at its first
  refusal, so the run may stop and has no deadlock check.
* `serialize_root`: four events, one item, two levels, room 1 to 5, over every kind of container.
  The interleavings of interest are those of failures with passes, and short traversals have all.
* `cbor_reader`: sources of four tokens, nesting 2, two items, three values, declared counts up to
  3 (one more than the limit). The reader relates a token to the frame and at most to an envelope
  around it, which takes an envelope, a marker or name, a head, and a child.
* `deserialize_root`: six tokens, two fields of which one has an alias, one unknown name, six
  policies, and a second description in which two fields claim a name. Six tokens hold two fields,
  or a duplicate, or an unknown field whose value is a container. After the first published
  document the reader is not reset: a second document starts from the same state.

* `publication`: two generators, three files, at most two disturbances of either; 692 thousand
  states. Two competitors show every race for a claim; a third can only be refused like the second.
  Two disturbances are one failure and one in its cleanup, or one of each generator.
* `generation`: two generators, seven files, two edits, two implementations, three documents (the
  reviewed one, the same meaning in other bytes, another meaning), four overlays; 2.7 million
  states. An edit and its reversal, or edits of two files, are what two edits can do. All have
  ended in the last states, so there is no deadlock check.
* `generated_adapter`: a record of two components, the documents that differ from it in one fact,
  range, order, owner or default, and every overlay that binds two fields in any way; ranges of at
  most three values, one of them outside the event's; three operations nested; 9.1 million states.
  Two fields show order, duplicates and shadowing; depth three is an outer operation, a refused
  one, and one begun after it. The depth is a bound on calls, so no deadlock check.
* `process_runner`: two tasks, two identifiers, three pipes; 584 thousand states. Two tasks are a
  holder and a waiter, who becomes the next holder; with two identifiers one is reused while the
  other lives. `PublishedIsTrue` has two mutants: the end of the streams taken for that of the child,
  and a swap that defers no abort. Tasks that stopped for good may be all there are: no deadlock check.

### What the models leave out

* Characters and octets: escapes, number syntax, head widths, UTF-8 tables. A conversion appears
  only through what it can do: succeed, reject, or be too long.
* Input offsets in errors, and error paths in all modules but `Errors`.
* In `CborReader`: the uninitialised state (`Require_Ready` refuses everything, as when failed);
  the frame array bound of 256, which the policy's own limit never exceeds; overflow in
  `To_Length`; the calls for booleans, floats, bytes and enumerations, which go through the
  helpers of null and text; an input unit stands for a token where the code charges octets.
* In `Publication`: a file half written counts as written, since it is in the staging directory;
  a directory that other programs than generators write to.
* In `Generation`: the syntax of the overlay (`wellFormed`), what the vendored checker checks
  (`Admitted`); of the verifier, the identities that are constants on both sides.
* In `Lowering`: the order of the with clauses, which is sorted; the characters of a name.
* In `ProcessRunner`: the budget (a reservation may be denied wherever there is one), captured
  text and its limits (a read may fail), `EINTR` (a step not taken), failure statuses other than
  time-out and poison; the calls that build a command or query a result; how an exception comes about
  between `Swap` and `Commit` (only the pause of the test build raises there). `CallsEnd` excepts one
  wait the code does have: for a live leader it may not signal (EPERM) the runner waits without
  bound, and if the call was aborted between spawn and release it does so with the gate held.
* In `DeserializeRoot`: what is left of source and budget once a reader is poisoned, since nothing
  reads it before `Reset`; the field decoder reads one unsigned integer, or nothing, or fails.

## 5. What is proved

Every theorem holds for every value of the constants that the named assumptions allow: any number
of processes, files, documents or tasks, any bound.

| module | theorem | statement |
|---|---|---|
| `ErrorsProofs` | `TypeCorrect` | `Spec => []TypeOK` |
| | `PathFollows`, `PathNames` | `[]PathFollowsTraversal`, `[]PathNamesFailure` |
| | `FirstFailure` | `Spec => FirstFailureWins` |
| `PublicationProofs` | `TypeCorrect` | `Spec => []TypeOK` |
| | `ManifestsAreWhole`, `RejectionIsClean` | `[]ManifestMeansWhole`, `[]RejectedLeavesNothing` |
| | `PublicationIsAtomic` | `Spec => ImplementsAtomicPublication` |
| | `VerifiedHolds`, `ScanHolds` | `ReadersSpec => []VerifiedIsWhole`, `ReadersSpec => []CleanIsClean` |
| `GenerationProofs` | `TypeCorrect` | `Spec => []TypeOK` |
| | `AttestationHolds`, `OnlyReviewed`, `AcceptanceHolds` | `[]AttestedIsUsed`, `[]PublishedIsReviewed`, `[]AcceptedIsCurrent` |
| `ProcessRunnerProofs` | `TypeCorrect` | `Spec => []TypeOK` |
| | `SpawnsAlone` | `[]NoForeignDescriptors`, when "released" is not an abort point |
| | `KillsAreOwn`, `LeavesNothing`, `PublishesTheTruth` | `[]KillsOwnGroup`, `[]NothingLeftBehind`, `[]PublishedIsTrue` |
| `SerializersProofs` | `PreflightSufficesHolds`, `PreflightIsNotStricterHolds`, `StacksAgreeHolds` | `ParitySpec =>` `[]PreflightSuffices`, `[]PreflightIsNotStricter`, `[]StacksAgree` |
| | `DeliveredIsJsonHolds`, `DeliveredIsCborHolds` | `[]DeliveredIsJson`, `[]DeliveredIsCbor` |
| | `EmittedFollowsGrammarHolds` | `[]EmittedFollowsGrammar` |
| | `ImplementsLifecycleHolds` | `Spec => ImplementsLifecycle` |
| | `OnlyStorageFailsHolds`, `PublishedIsWholeHolds` | `RootSpec =>` `[]OnlyStorageFails`, `[]PublishedIsWhole` |
| | `AcceptedIsPublishedHolds`, `OutcomeIsReportedHolds` | `RootSpec => AcceptedIsPublished`, `RootSpec => OutcomeIsReported` |
| | `SerializeIsAtomicHolds` | `RootSpec => SerializeIsAtomic` |
| `CborReaderProofs` | `BudgetTracksStackHolds` | `Spec => []BudgetTracksStack` |
| | `ConsumedIsWellFormedHolds`, `CompleteIsWholeHolds` | `[]ConsumedIsWellFormed`, `[]CompleteIsWhole` |
| | `SyntaxErrorIsRealHolds` | `Spec => SyntaxErrorIsReal` |
| `DeserializeProofs` | `DeserializeIsTransactionalHolds` | `RootSpec => DeserializeIsTransactional` |
| | `PublishedIsDecodedHolds`, `RejectionIsJustifiedHolds` | `RootSpec => []PublishedIsDecoded`, `RootSpec => RejectionIsJustified` |
| `GeneratedAdapterProofs` | `CommitIsOwnHolds` | `Spec => CommitIsOwn` |
| | `RoundTripsHolds`, `FaithfulModelHolds` | `Spec =>` `[]RoundTrips`, `[]FaithfulModel` |

### Errors

Assumptions: `CodesAssumption` (the two codes `errors` itself latches are codes, the clear one is
not) and `BoundsAssumption` (the bounds are numbers, and at least one element is retained; the code
has 32 and `Natural'Last`).

The inductive invariant `IInv` is the conjunction of the three invariants. None is inductive
alone: a pop is right only if what is retained and the counter *together* describe the open path
(otherwise `Broken`, the code's own consistency check, could fire), and the path after a failure
is right only because it was when the failure was latched. `DescribedIsWhole` shows that the
consistency check never fires, `PushDescribes` and `PopDescribes` carry the case analysis over a
path with space, a full path, and a full path with an exhausted counter; one lemma per action
then lifts them. `FirstFailure` needs no invariant.

### Publication

Assumptions: the three names differ, and the makers that are no generators are none
(`NamesAssumption`, `MakersAssumption`).

`ManifestMeansWhole` is not inductive: another generator could be undoing the directory, or the
manifest could be linked over another's files. `IInv` adds `HolderOwns` (one generator at most is
linking or undoing, and what it linked is what is there), `EmptyUnlessExists`, `StatusFollows`
(success is claimed by the maker of the manifest only), `LeftBehind` and `StagingGone` (what an
ended generator can have left). `StepHolds` has one case per action. The refinement needs the
invariant in one place: the directory is never undone once a manifest is in it. `VerifiedHolds`
adds what each place of the verifier has seen, which later steps cannot take back because a
published manifest never goes (`ManifestSettles`). `ScanHolds` needs more: the scanner takes no
lock and walks a tree in which directories appear and go. `ForeignStays` says that a file of no
generator lies beside a manifest and stays, so that a directory passed while it was clean
(`Passed`) holds no such source when the walk ends.

### Generation

Assumptions: `Nobody` is no generator, the reviewed document is one, overlays are records of the
right types. `IInv` says of each place of a generator what it holds, what it has used so far and
that both agree (`Follows`); `DiskOK` types the disk. Edits touch neither, which is the argument. For
`AcceptanceHolds`, `Compared` says that what the verifier compared is what the published manifest
names; it holds for ever because nothing is published over a manifest.

### Process runner

Assumptions: `Nobody` and `NoChild` are none of the tasks and identifiers; aborts happen only where
the code leaves them enabled. The proof has four invariants, each with the step lemmas it needs.
`QInv`: the queue holds each waiting task once, and an answer belongs to a waiting task. `EInv`:
one holder at most, among those in hold and those granted, and setup happens in hold, so that a raw
descriptor and a spawn exclude one another. `KInv`: a call that has not stopped owns the identifier
it keeps. `LInv`: at each point of a call, what it still has, whether its result is swapped in and
by how many it is owned (`Sound`), and every process in the table is in some hand (`Owned`). Most steps leave the gate alone or only poison it; `CalmIsCalm`
deals with these at once, and `Acquire`, `Answered`, `ReleaseSafely` and `Leave` have lemmas of
their own.

### Serializers

Assumptions: at least one level of nesting and `Natural'Last` of at least one (`NestingAssumption`,
`NaturalAssumption`), limits that are Naturals (`LimitsAssumption`), and bounds of the client that
are no larger than the types they bound (`BoundsAssumption`, `HeadsAssumption`). Texts, floats,
rooms, traversals and both ways of being exhausted are arbitrary.

The first part of `SerializersProofs` is what the three clients have in common: one lemma per
procedure of the code and then one per event. It says three things of an event.

*What the frames become.* `EventOutcome` gives, for every event and an open writer, the code with
which the writer refuses it or the stack it leaves, in terms of the stack alone; the only other
way is `Lost`, out of room. JSON and CBOR have the same outcomes, which is why the later proofs
do not tell them apart. `CounterOutcome` is the same for the Counter. `Tracks` matches the two
stacks: the Counter has counted in a frame one child more than the writer while that child is
under way, and holds a map's key for a value already. `Alike` is not inductive without the limits
in `IsCounter`: a writer refuses a child past `Natural'Last`, or past a declared length, which the Counter
must have refused before. The three theorems about `ParitySpec` follow.

*What a client sees.* `Placed` and `Served` say of a writer in any state, misused or failed, that a
refused call leaves it poisoned without a document, that events never publish, and that only
`Finish_Document` does; `Obeys` states it as a step of the contract. `ImplementsLifecycleHolds` is
`Obeys` for every call of a client, and `SerializeIsAtomicHolds` is the same for the one step that
a whole call of `Serialize` is, with `OutcomeIsReportedHolds` for what it reports.

*What was put out.* The invariant is `Faithful`: until it fails, a writer's output is where its
frames say (`Spelled`), and it is whole if published. For JSON, `Nested` splits the reader's open
brackets into layers, one for each frame, since a variant is an object in an array and an optional
is an array; `JsonExpects` computes from the innermost frame what token may come next. For CBOR a
frame has a head whose entry in the reader stays until its last child is begun, among entries of
tags and optionals that are filled up (`Filled_Up`) and close by themselves: `Standing` locates the
entries, `Mirrors` equates what an entry still owes with what the frame has left (`Slots`), and
`Onward` is the cascade of closings when a child is complete. `FaithfulFollows` gives
`EmittedFollowsGrammar`, `PublishedIsFaithful` the delivered documents, and `StepFaithful` carries
`Faithful` through `Serialize` for `PublishedIsWholeHolds`.

The proof of `SerializeRoot` has two invariants. `RootSound` says what each pass may have done to backend and
validator whatever the source does: nothing reaches the backend in the preflight, nothing is
published before the end. `Repeats` is for stable sources and is the reason for `OnlyStorageFails`:
in the preflight the Counter has accepted the script so far, and in the real pass it accepts what
is left of the script *from a state that is `Alike` to the writer's now* (`Accepts`, a run of
the Counter given as a function of the position). The run is not recomputed: its existence is
carried along, so that no induction on the script is needed. One more assumption, `EventsAssumption`,
says that sources make events of the interface.

### CBOR reader

Assumptions: limits and the bound on declared counts are Naturals (`DecodeLimitsAssumption`,
`MaxCountAssumption`). Any source, any calls in any order, any number of documents.

The four properties have one inductive invariant, `IInv`: a reader is `Dead`, that is failed with
its budget released, or `Live`.

*What a live reader is owed.* The properties compare the reader with a decoder of `CborGrammar`
that was given the tokens it consumed. The decoder keeps entries that are filled up, the reader
drops them, so the two are compared by what they still expect: `Same` matches the entries that are
not filled up, in order. `Owes` gives each frame two entries, of its envelope (`Env`) and of its
container (`Main`, with `Slots` items left); while a value is skipped, `OwesRaw` adds the entries
of what is being skipped. `Takes` says that an item may come next, `Stands` only that one has begun. `ConsumedIsWellFormed`
alone is not inductive: it says what the decoder took, not that the frames agree with it on
what may come next.

*What a live reader has seen.* A frame may be ahead of the decoder, because it looked at a token
it has not consumed: a child that is ready has a token that is no break, an exhausted indefinite
container has one (`Foreseen`). This is what makes `SyntaxErrorIsReal` inductive: the reader does
not look twice. `Charged_As` keeps the budget's scopes with the frames.

*How a call ends.* A handler is tried on the tokens shown so far, and starves if it needs one
more. `Served` says that it either refuses, latched and released, with a Syntax_Error only on
a malformed source (`Refused`), or leaves a live reader; `late` says that the source was
shown up to its end, so that a call starves at most until then. There is a lemma per helper and per
handler (`Checked`, `Prepared`, `Inspected`, `NestServes`, `FinishServes`, ..., `SkipStepServes`),
put together by `EventServes`; `DeadStays` and `Halted` are the same for a reader that failed or
whose Error was latched before the call. Before the proof, TLC had found no state of `cbor_reader`
that breaks `IInv`, nor one with nesting 3 and six tokens.

### Deserialize

Assumptions: those of the reader, `RecordsAssumption` and `PoliciesAssumption`. Any records, policies,
sources and answers of the application.

*A transaction.* `DeserializeIsTransactionalHolds` is the refinement of `DecodeTransaction`: one
`RootNext` step is one of its steps, or none. The
invariant `RootKept` says of a call under way that its reader is unlatched, that it skips a value
exactly when the call does, and that at the commit it was read to its end; between calls and within
them, the reader is live or dead in the sense of the reader's proofs above, whose `EventServes`,
`SkipStepServes` and `DeadStays` say how each call on it ends (`Asked`).

The argument is about what the caller sees. Until the record begins, that is the reader's own status;
then "open" until the call ends. So `Begin_Record` must refuse a reader that is poisoned or complete
(`EndsAnswered`), or a document would be published that no open reader read. Every way out but the
commit goes through `End`, which poisons the reader and keeps the published value, with an error
latched or an exception (`EndFails`): here it counts that no handler leaves with the clear error
after it failed. A step that does not end the call changes nothing the caller sees (`WithinCall`).

*What it publishes.* The other two theorems compare the call with a reader of the whole document:
`Decoding` is what the reference decoder knows after each token of `history`, `Keys` the tokens that
are keys by it. Neither property is inductive, for three reasons, and `IRoot` has a part for each.

* The adapter knows a key because it asked for one, the reference because only the root is open and
  holds whole pairs. `Traced` ties them together: the decoder stands where the run of the history
  ended, and its first entry is that of the record's frame, as it was before the value under way was
  begun (`OnRoot`, `Shape`). An entry that still owes something stays first; the frame tells whether
  it is half a pair (`KeyPlace`). So the token `Next_Field` consumes is a key (`FieldRoot`), and what
  a field decoder or a skip consumes is none (`ReadRoot`, `SkipStepRoot`): it lies inside another
  item, or it is the value of a pair.
* The candidate depends on the keys, the policy and their order. `Tallied` says of the keys dealt with
  (`Finished`: all but the one whose field is in hand) that the fields seen are those they name, and
  that each holds the value after the key the policy prefers (`Chosen`). `TallyDecoded`, `TallySkipped`
  and `TallyMissing` are the three ways in which a field is dealt with, and need what the policy
  decided for the name (`TreatmentIs`). `SelectedIs` shows that the preferred key is the one
  the property picks.
* A field decoder may succeed without having read anything. Its field is then marked and its value
  still announced, so that nothing can be said of the candidate (`Ordinary`); but the next call must
  be refused, and `FieldRoot` shows it is.

`RunExtends` says that one more token leaves the run before it alone. It is an induction on the
length of the history, and so is the existence of the run; `Induction` states it for sets of numbers,
from the well-foundedness of their order. The rest is a lemma for each action (`OpenLeaves`, ...,
`CommitLeaves`), which also says that an error about a field ends the call only if the tokens bear it
out (`Justified`). Before the proof, TLC had found no state of `deserialize_root` that breaks the
invariant.

### Emitted package

*The `Builder`.* Any documents, any depth of nesting; no assumption is used. `CommitIsOwn` says that the value an operation
commits is the one it decoded itself, and the code does nothing to ensure it against re-entry. The
invariant is `ActiveIsOwned`: while the `Builder` is active, it belongs to the last operation that
could begin (`Owner`), and every later one was refused and is only going to roll back. So what the
candidate holds was put there by the owner; a roll-back by another operation makes the Builder
inactive, and the owner's commit fails.

*The package.* `RoundTrips` and `FaithfulModel` are about what `lower` makes of a document and an
overlay, any that it accepts. The invariant `Made` only remembers which these are; the work is in what the
checks of `lower` imply together. They need two assumptions besides `WidthAssumption`.
`OverlaysAssumption` says that an overlay lists records and bindings. `DocumentsAssumption` is what
the checker of Type IR has established before `lower` runs
(`tools/generator/vendor/type_ir/scripts/check_fixtures.py`): ids are unique (665), numbers are
integers, and without generics the id of a declaration is its name and its view (1663). The last is
needed because a field may be called `Boolean` when its type is called `Standard.Boolean`, and only
for a Boolean shape does `scalar_kind` compare the id. TLC evaluates both for the documents it is given.

* `OwnedLists`: the components of a record can be sorted, each occurs once in the list, and as many
  fields come of it. Orders need not differ. `SortedExists` counts for each component those before it.
  `Owned` says what the sorted list is rather than calling `SetToSortSeq`, which the prover cannot
  expand.
* `FieldIs`: the binding found for a component is unique, `by_id` keeping the last, and it is the one
  that was checked. `NamesDiffer`: as many names as bindings, so no two are equal (a cardinality
  argument); so a name leads to one branch of `Deserialize_Value`, and the value comes back.
* `RangesFit`: a range that passed `scalar_kind` lies in that of the event its kind is written with.
* `NeededIsPrefix`: a name that some unit of the closure begins has a longest such unit, which must be
  among the with clauses.

### Model-checked only

* Liveness (`Settles`, `SomeoneWins`, `CallsEnd`) is beyond the prover, as is `ENABLED`.
* What TLC evaluates for given constants only: that the assumptions hold of the documents, records
  and policies of the runs.

No module declares a `RECURSIVE` operator, so every module can be reasoned about.

## Not modelled

* **JSON reader, driver, preflight**: what they do at an octet depends on the events of an external
  parser whose source is not here; `CborReader` covers the scopes and the budget they share with it.
* **Container, variant, enumeration and scalar adapters, `utf_8`, facades**: loops and conversions
  over the modelled readers and writers, without state that outlives a call; candidates and
  duplicates are modelled for records.
* **Budgets, attestation and pipeline of the Ada generator**: sequential, and for the pipeline the
  property would be its text. What is concurrent in it is the runner.
* **Dependency checker, tests, scripts, experiment**: one pass over lock files; statements of
  intent; code that is not built.

## 6. Running it

    tlc -config MCErrors.cfg MCErrors        # likewise for the other MC modules
    tlapm ErrorsProofs.tla                   # likewise; SerializersProofs, CborReaderProofs, DeserializeProofs: some minutes

`PROJECT.json` maps each definition to the lines it models and lists runs, slips, hazards and
theorems.
