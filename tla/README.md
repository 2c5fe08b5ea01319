# TLA+ models of the DALiuGE drop engine

This directory holds TLA+ models of the execution core of DALiuGE, from
`src/daliuge-engine/dlg/drop.py`, with some helpers around it. It also holds
the TLC configurations that check those models. `PROJECT.json` lists:

- the components;
- the runs;
- the mutants that show each property can fail;
- the map from every TLA+ definition to the source lines it models;
- the findings;
- the hazards.

## The system

A DALiuGE graph is made of *drops*. There are two kinds:

- **Data drops** (`DataDROP`) hold data.
- **Application drops** (`AppDROP`, `InputFiredAppDROP`, `BarrierAppDROP`) run code.

Drops talk to each other through events. These events fire on the thread that
causes them; no scheduler sits in between.

- An application writes into its output data drops. When it finishes, it fires
  `producerFinished` at them.
- A data drop whose producers have all finished becomes COMPLETED, or ERROR if
  a producer failed. It then fires `dropCompleted` at its consumers.
- An `InputFiredAppDROP` counts the `dropCompleted` events of its inputs. When
  enough have arrived, it does one of three things:
  - it errors out, if too many inputs failed;
  - it skips, if every input was skipped;
  - otherwise it starts `execute()` on a new thread. `execute()` retries
    `run()` up to `n_tries` times.
- A session manager may `cancel()` any drop at any time, from its own thread.
- Whenever a drop ends (completed, error, cancelled, skipped), `completedrop()`
  calls `commit()`. `commit()` builds the drop's provenance record (merkle
  data) once. What the record contains depends on the drop's reproducibility
  level (`reproducibility_fields.py`, `generate_*_data`).

### Inventory

| component | state it keeps | operations | what is hard | module |
|---|---|---|---|---|
| Drop status lifecycle (`AbstractDROP`, `DataDROP`) | `_status`, `_size`, `_checksum`, `_checksumType`, `_wio`, `_expectedSize`, `_finishedProducers`, `_committed`, `_merkleData`, `_refCount`, `_rios` | `write`, `producerFinished`, `setCompleted`, `setError`, `cancel`, `skip`, `completedrop`, `commit`, the status setter, `open`, `read`, `close`, `_closeWriters`, the checksum getter, the `size`/`checksum`/`checksumType` setters | Only the assignment of `_status` holds `_statusLock`, so every check-then-set of the status races with the other threads. `_checksum` and `_rios` have no lock. | `DropLifecycle`, refining `DropStatus` |
| InputFiredAppDROP execution | input tallies, `execStatus`, `status` | `dropCompleted`, `async_execute`, `execute`, `cancel`, `skip`, `_notifyAppIsFinished` | The input tally has no lock. The threshold boundary. A cancel before the first attempt. Retries. | `InputFiredApp` |
| Graph wiring and `ContainerDROP` | producers, consumers, inputs, outputs, streaming consumers and inputs, parent, children, subscriptions | `addConsumer`, `addProducer`, `addInput`, `addOutput`, `addStreamingConsumer`, `addStreamingInput`, the `parent` setter, `addChild` | Each relationship is registered on both sides through a nested back call that may raise after the caller has stored its side. | `DropGraph` |
| Provenance | `_reproducibility`, `_committed`, `_merkleData`, `_merkleRoot` | `reproducibility_level` setter, `generate_*_data`, `generate_merkle_data`, `commit`, `completedrop`'s event, the field selection of `reproducibility_fields.py` | The level change resets `_committed` only in some cases. The ALL level builds one tree per mode. `commit()` reads the level twice. | `Provenance`, `ReproducibilityFields` |
| NgasDROP | `_size`, `ngas_checksum` | `setCompleted`, `generate_reproduce_data` | A failed size lookup raises midway through `setCompleted`. An empty checksum selects the configured file id, possibly None, and the size. | `Provenance` (partly: not the I/O) |
| NMAssigner | DIMs, NMs, assignments | `add_dim`, `add_nm`, `remove_dim`, `remove_nm`, `allocate_nms` | `remove_*` deletes locally even when the remote call fails. | not modelled |
| Helm client, translator REST, xml2palette, setup.py | files and processes | I/O | Not modelled: pure I/O and text conversion. | not modelled |

## Module `DropLifecycle`

This module models one data drop, its producers, and the threads that cancel
it.

**Threads.** Each thread has a program counter `pc` and a return label `ret`.
This lets a method call, such as `setCompleted` inside `write`, run as several
steps that other threads can interleave with. Each step corresponds to the code
between two points where another thread can observe a change:

- `write()` holds no lock, so it runs as one step per statement that reads
  or writes shared state:
  - `WriteCheck`: the status test (drop.py:1309);
  - `WriteOpen`: the lazy open of `_wio` (1317-1323), which may fail and set
    ERROR;
  - `WriteData`: `_wio.write` (1324), which raises if `_closeWriters` has
    dropped `_wio` meanwhile, and the read half of `_size += nbytes`;
  - `WriteSize`: the store half of `_size += nbytes` (1337);
  - `WriteStream`: the data is handed to the streaming consumers, and
    `_updateChecksum` reads `_checksum` (1338-1346). `delivered` records what
    consumers saw, in order;
  - `WriteChecksum`: `_updateChecksum` stores the new crc (1375).

  A read-modify-write is a read step that keeps the value in the thread's
  `local`, and a store step.
- `WriteExpect`: the expected-size test, which sets WRITING or calls
  `setCompleted`.
- `Finish`: the producer application ends with COMPLETED, ERROR or SKIPPED.
  ERROR is forced if one of its writes raised.
- `ProducerFinished`: the tally under `_finishedProducersLock`. The last
  producer then calls `setError` or `setCompleted`.
- `setCompleted`: `SetCompletedCheck` (which has the CANCELLED, SKIPPED and
  refuse branches), then `SetCompletedSet`, then `SetCompletedFire`.
- `setError`: `SetErrorCheck`, then `SetErrorSet`, then `SetErrorFire`.
- `cancel`: `CancelCheck`, then `CancelSet`.
- `skip`: `SkipCheck`, then `SkipSet`.
- `completedrop`: `CompleteDropCheck`, then `CompleteDropCommit` (this is
  `commit()`).
- The status setter is `SetStatus`: the assignment under `_statusLock`.
  `_closeWriters` is `CloseWriters`. It always drops `_wio`, because a
  failure to close is swallowed.

**Readers.** A reader (`Readers`) is the thread of a consumer app. It starts
once the drop has fired its dropCompleted event. Its steps are:

- `ChecksumGet`, `ChecksumFold` and `ChecksumFoldStore`: the checksum
  getter. A COMPLETED drop with no checksum opens a read session and folds
  the data into `_checksum`, again as a read step and a store step.
- `OpenCheck`, `OpenRegister` and `OpenIncr`: `open()` checks for COMPLETED,
  stores the session in `_rios` (`rios`), then takes `_refLock` to increment
  `_refCount`.
- `Read`: `read()`, then the check at the start of `close()`. Both go through
  `_checkStateAndDescriptor`, and a failed check ends the reader's run.
- `CloseDecr` and `ClosePop`: the rest of `close()`.

**Describers.** A describer (`Describers`) sets the size, checksum and
checksum type of data written outside `write()`, in that order. Each step is
one setter with its guard (`MaySet`). A refusal raises and ends the run.

**Data.** Data is abstracted to its size. Each write is one byte. The expected
size is either "none" (-1) or 2. Every chunk is the same byte, so the crc of
the data is determined by how many bytes were folded. `checksum` is that count
(-1 is None). `ChecksumDisabled` is drop.py's `checksum_disabled`.

**Fairness.** Every thread that has started a method finishes it, because
each thread runs to completion in the code. A canceller, reader or describer
that is idle may never start. This is why their fairness is conditioned on
`pc # "idle"`.

**Refinement.** `DropStatus` is the abstract drop. Its state is:

- `st`, its status: INITIALIZED, then WRITING, then exactly one terminal
  status;
- `out`, what its consumers are handed: data chunks, then one dropCompleted
  event that carries the terminal status, then nothing.

Weak fairness on telling the consumers says that an ended drop fires its
event. `DropLifecycle` maps `st` to `status` and `out` to `delivered`, and
`ImplementsDropStatus` (`DS!ASpec`) is checked as a PROPERTY. This one
property covers the status order, the single completion event, the status it
carries, no data after it, and the liveness of firing it. It cannot be
checked with a canceller or an expected size: the code breaks it there (see
below). The run with both checks `FinishedProducersNotified` instead.

### Runs

| run | bounds | checks | result |
|---|---|---|---|
| `drop_single_producer` | 1 producer, up to 4 writes, any outcome, open may fail; 1 reader; checksum disabled | `TypeOK`, `ProvenanceRecordsFinalStatus`, `FinishedProducersNotified`, `ImplementsDropStatus` | pass |
| `drop_two_producers` | 2 producers, 2 writes each, COMPLETED or ERROR; 1 describer | `FinishedProducersNotified`, `ImplementsDropStatus` | pass |
| `drop_expected_size_cancel` | 2 producers, 2 writes each, COMPLETED or ERROR, expected size none or 2, 1 canceller | `FinishedProducersNotified` | pass: with auto-completion, failure and a cancel at any step, finished producers always lead to a dropCompleted event or to CANCELLED |
| `drop_error_after_autocomplete` | expected size 2, the producer errors | `TerminalStatusStable` | violation: the drop goes from COMPLETED to ERROR, and a second dropCompleted is fired (drop.py:1069-1079) |
| `drop_skip_error_hang` | 2 producers, one skips and one errors | `FinishedProducersNotified` | violation: `setError` returns on SKIPPED, so no dropCompleted is ever fired (drop.py:1069) |

**Why the bounds are enough.**

- Two writes reach the expected size of 2, so auto-completion happens,
  either by one producer or by the two together, before, between or after
  their `producerFinished` calls. A further write is then refused.
- Two producers exercise both orders of `producerFinished`, and every
  interleaving of their `write()` steps.
- One canceller can interleave with every step of every other thread.
- The reader opens, reads and closes the drop after every ending, including
  the ones where `open()` raises.
- With the checksum disabled, the reader computes the checksum on demand.
- The describer meets drops with and without written data, so it both sets
  its values and is refused.

**What the passing configurations leave out.** Several races break properties
in configurations the passing runs do not use. The hazard list records each
one, and TLC finds the violation when the configuration is changed:

- A producer that writes while another is cancelling, and a producer that
  errors after auto-completion, move a drop out of a terminal status. Two
  producers with an expected size both pass `setCompleted`'s check and fire
  two dropCompleted events. Because of that, the runs with a canceller or an
  expected size do not check the refinement.
- Two producers' `_size += nbytes` or `_updateChecksum` interleave and one
  update is lost, so the size or the checksum counts fewer bytes than were
  written.
- A `write()` whose status test passed before a `cancel()` reopens `_wio`
  after `_closeWriters` dropped it, and nothing closes it again.
- Two readers computing the checksum at once fold the data twice.
- A reader's checksum getter racing the `checksum` setter (drop.py:1400-1413)
  leaves a checksum over more bytes than the size.
- A reader that opened a drop which then moves from COMPLETED to ERROR never
  closes it: `close()` raises in `_checkStateAndDescriptor`.

No run is left to check these as violations; the hazard list records each,
with the configuration in which TLC finds it.

## Module `DropStatus`

This is the abstract specification described under *Refinement* above.
It has four actions:

- `Write`: the drop is being written.
- `Deliver`: a chunk reaches the consumers before they are told.
- `End`: the drop moves, once, to a terminal status.
- `Tell`: the consumers are told that status, once.

It models no code of its own; it states the lifecycle spec.md gives a drop.

## Module `InputFiredApp`

This module models one `InputFiredAppDROP` and the threads that drive it.

**Input threads.** Each input drop delivers `dropCompleted` on its own thread
(`Inputs`) in two steps:

- `DcAppend`: the input is appended to `_errorInputs`, `_completedInputs` or
  `_skippedInputs`.
- `DcCount`: the three lengths are read, and the thread decides if the sum
  equals the effective count.
  - Reading the lengths in one step reaches the same decisions as reading them
    one at a time. A thread that sees the full sum read every list after the
    last append.
  - The decision is `DecideOn`. It takes one of three branches: the threshold
    ERROR path, `skip()`, or `async_execute()`. The last one starts an
    executor thread.

`Concurrent = FALSE` delivers the inputs one after another. This is the case
when one upstream thread completes them.

**Executor threads.** An executor thread (`Executors`) runs `execute()`:

- `ExStart`: sets RUNNING.
- `Attempt` (`ExRun`): one `run()` that returns or raises, followed by the
  cancel check.
- `ExFinished`: sets FINISHED.
- `ExEnd`: the `tries == n_tries` test and the status.
- `NotifyApp` (`_notifyAppIsFinished`), then `completedrop()`.

**Canceller threads.** A canceller (`Cancellers`) runs `AppDROP.cancel()`:
`AppCancelCheck`, then `AppCancelSet`, then `completedrop()`, then
`AppCancelExec`.

**Data.** The error percentage uses the exact integer floor. The history
variables feed the properties:

- `arrivals`: the input states in tally order;
- `executions`: how many executors were started;
- `succeeded`: whether some attempt returned;
- `notified`: the producerFinished events fired at the outputs;
- `downstream`: the dropCompleted events the output fires onward.

**The output drop.** The app has one output data drop with one producer
(`OUT_NPROD`). `FireProducerFinished` is the event the app fires
(`_fire("producerFinished")`, drop.py:944-983): it is delivered at once, on
the same thread, so the thread continues at `nf_out` or `sk_out` with
`OutputEnd`, the output's `setError` (`OutSetError`) or `setCompleted`
(`OutSetCompleted`), before it returns to the app's own `completedrop()`.
`outStatus` is the output's `_status` and `downstream` the dropCompleted
events it fires at its own consumers. A skipped app sets the output SKIPPED
first (`skip()`, drop.py:1756-1762); the output's `setCompleted` then fires
SKIPPED onward without changing its status.

Properties of the composition:

- `OutputFollowsApp`: once every thread is idle and the app has notified its
  output, the output holds the status the app reported and has told its
  consumers that status exactly once.
- `DownstreamEventuallyNotified`: once every input has arrived, the output's
  consumers are eventually told, unless the app was cancelled. It fails in
  `app_skip_cancel_hang`.
- `AppImplementsDropStatus`: the app's own `status`, with `notified` as what
  its consumers are handed, refines `DropStatus`. This covers that
  producerFinished fires once, carries the final status, and that the status
  does not move after it.

**Fairness.** A thread inside a method runs on, because nothing in these
methods blocks. An idle input or canceller gets no fairness. Whether a drop
completes, or a session cancels, is up to the environment.

### Runs

| run | bounds | checks | result |
|---|---|---|---|
| `app_sequential` | inputs i1, i2 delivered one after the other; n_eff -1 or 1; threshold 0 or 50; 2 tries; run may raise | `TypeOK`, `DecisionFollowsThreshold`, `RetryOutcome`, `OutputFollowsApp`, `DownstreamEventuallyNotified`, `AppImplementsDropStatus` | pass |
| `app_cancel` | 1 input, COMPLETED or ERROR; 1 canceller | `DownstreamEventuallyNotified` | pass |
| `app_skip_cancel_hang` | 1 skipped input; 1 canceller | `DownstreamEventuallyNotified` | violation: `cancel()` sets `execStatus` CANCELLED while `skip()` runs, so `skip()` never fires `producerFinished` at the outputs it skipped (drop.py:1750, 1756-1762) |
| `app_cancel_overwritten` | 1 input; 1 canceller | `CancelledStaysCancelled` | violation: `execute()` sets the final status without checking for a cancel (drop.py:1961). spec.md says CANCELLED is terminal |
| `app_concurrent_inputs` | a barrier with two inputs completing at once | `FinishNotifiedOnce` | violation: both input threads see the full tally and call `async_execute()`, so the app runs twice (drop.py:1873) |

**Why the bounds are enough.**

- Two inputs with n_eff 1 give a late input that arrives after the decision.
- A threshold of 50 with one error out of two hits the boundary `50 > 50`.
- Two tries give a failed attempt followed by a retry, and the exhaustion of
  all tries.

## Modules `Provenance` and `ReproducibilityFields`

`ReproducibilityFields` translates `reproducibility_fields.py` into
operators. Each layer has a field selection:

- `LgtBlockFields`, `LgBlockFields` (with `CategoryFields`),
  `PgtUnrollBlockFields`, `PgtPartitionBlockFields` and `PgBlockFields`
  give the selection for a level.
- `ExtractFields` applies a selection to a drop description: it stores a
  field, counts it, or removes its first character.

`Provenance` models the provenance record of one drop. Two threads act on
it:

- `DROP` ends the drop (`End`) with a terminal status. For an NgasDROP
  ending COMPLETED, `setCompleted` first asks the server for the file's
  status. The lookup either answers with the size and a checksum, which may
  be empty (`FileStatusRead`), or raises (`FileStatusFails`). A raise is
  re-raised (ngas.py:103-112): the status is never set, `completedrop()`
  never runs, and the thread stops. Otherwise the thread runs
  `completedrop()`: `commit()` as `CommitGenerate` and `CommitTree`, then
  `FireReproducibility`.
- `CLIENT` calls the `reproducibility_level` setter (`SetLevel`). The setter
  resets `_committed`, `_merkleData` and `_merkleRoot`, and precomputes the
  ALL-level dictionary. `CLIENT` also calls `commit()` itself
  (`ClientCommit`).

A Python dict is a sequence of key-value pairs in insertion order. `Update`
is `dict.update`. A merkle root is the sequence of its leaves (`Root`), which
stands for a collision-free hash. `ngasFileId` is the configured NGAS file
id, or None by default (`NgasFileIds`). `generate_reproduce_data` records
it, not the uid that `initialize()` falls back to for the I/O.

### Run

`provenance_levels`:

- **Bounds.** The level starts at NOTHING and changes at most twice, to any
  of the nine flags. The drop is an AbstractDROP or an NgasDROP. It ends
  COMPLETED, ERROR or CANCELLED, and an NgasDROP's lookup may fail. The
  NgasDROP has a configured file id or none.
- **Deadlock.** Deadlock is not checked. An NgasDROP whose lookup raised
  stays unfinished, and nothing is left to do once the client has made its
  level changes.
- **Checks.**
  - `FingerprintOfLevel`: a committed drop always holds the fingerprint of
    its current level.
  - `RecordsFollowUnionRule`: the records follow spec.md's union rule for the
    replication levels.
  - `FieldsFollowUnionRule`: the same rule holds at every layer of the field
    selection, for three categories and two `custom_fields` values.
- **Result.** Pass.

`Concurrent = FALSE` runs the setter and `commit()` one at a time, as the
tests do. With `Concurrent = TRUE`, the setter can reset `_merkleData`
between the two reads of `_reproducibility` in `commit()` (drop.py:663).
`FingerprintOfLevel` then fails. This is recorded as a hazard: there is no
run left for it.

## Module `DropGraph`

This module models the wiring of a graph: the relationship methods of
`AbstractDROP`, `AppDROP`, `InputFiredAppDROP` and `ContainerDROP`, and the
event subscriptions they make. `subs` records each `subscribe()` call.

- `LinkAppend` is the dispatch table of `LINKTYPE_1TON_APPEND_METHOD` (drop.py:1994).
- Each call is one atomic action, bounded by `MaxCalls`.
- The two-sided methods call their counterpart, so registration works from
  either side: `AddConsumer` calls `AddInput`, `AddOutput` calls
  `AddProducer`, and the reverse.
- Each method has the duplicate checks of `ListAsDict`, and the refusal of a
  streaming consumer that is already a normal consumer, and the reverse.
- `SetParent` and `AddChild` model the container hierarchy. The parent setter
  restores the old parent when `addChild` refuses.

### Run

`graph_wiring`:

- **Bounds.** Two data drops, two apps of either class, and one container.
  Each data drop is in either execution mode. There are up to five calls.
  Four calls are enough for a registration from both sides followed by a
  conflicting registration of the other kind; the fifth lets a container
  registration follow such a sequence.
- **Symmetry.** The apps and the data drops are each interchangeable.
- **Deadlock.** Deadlock is not checked, because graph construction stops
  after its last call.
- **Checks.**
  - `RegistrationIdempotent`: no list holds a drop twice.
  - `ConsumerKindsExclusive`: no drop is both a normal and a streaming
    consumer of the same data drop.
  - `ProducersMatchOutputs`: producers and outputs are symmetric, with one
    producerFinished subscription each.
  - `ConsumersRegisteredBothWays`: consumers and inputs are symmetric, with
    the right event subscriptions.
  - `ParentKnowsChild`: a drop's parent lists it among its children.
- **Result.** Pass.

**Outside the run's configurations.** Some hazards lie outside what this run
exercises:

- `addInput` registers half of the link before it can fail.
- Containers can form cycles.
- A drop that changes parent stays listed as a child of its old parent.

Each of these hazards says what a property would need.

## Plan

The project is limited to twelve runs, and all twelve are used. Further work
joins modules whose passing runs already exercise it.

Done:

1. `DropLifecycle`, the status machine of a data drop. It includes readers
   (open/read/close and the reference count), describers, and the checksum.
2. `InputFiredApp`.
3. `Provenance` and `ReproducibilityFields`.
4. `DropStatus` and the refinement `ImplementsDropStatus`.
5. `DropGraph`.
6. The output drop of an app inside `InputFiredApp` (`outStatus`,
   `downstream`), with `OutputFollowsApp` and `DownstreamEventuallyNotified`.
7. The refinement `AppImplementsDropStatus` of the app's own status.
8. NgasDROP's failing file status lookup and its `ngasFileId` in
   `Provenance` (no property: the failure path only leaves the drop
   unfinished).

Next:

- Wiring more than one output, or a consumer of the output, from `DropGraph`
  into the composition. This needs a run, or must replace one.
- The NgasDROP `setCompleted` variant in `DropLifecycle`, with readers and
  cancellers.
- Turning the hazards without a property into properties, if a run becomes
  free.

## Not modelled

- The Helm client, the translator REST service, xml2palette and the setup
  script. They perform I/O or text conversion; none of them has concurrent
  state.
- Checksums and the hashing inside the merkle trees. A model value stands for
  the hash.
- The float floor in `dropCompleted` (drop.py:1876). It differs from the exact
  floor for 29/50, 29/100, 57/100 and 58/100. TLA+ integers cannot represent
  that, so it is listed as a hazard only.
- `NMAssigner` (nm_dim_assigner.py). `assignments` is never written, and
  `allocate_nms` only logs: each of its branches is a TODO. What is left
  is two dictionaries updated around remote calls. `remove_*` deletes the
  entry even when the remote call raises, but nothing reads the entry
  concurrently. There is no concurrent or multi-step state here for TLC
  to explore.
- `ContainerDROP.delete`, `exists` and `expirationDate`. They only read or
  delete storage.
- `handleEvent` dispatch. It is exercised through the event subscriptions
  of `DropGraph` and the actions of `InputFiredApp`.
- The order of `_fire` and `completedrop()` in `setCompleted`, `setError`
  and `cancel()` (drop.py:1077-1079, 1107-1109, 1745-1746). The events fire
  before the drop commits its provenance, against spec.md line 42. The
  models keep the code's order; no property states the spec's, because every
  run is in use. It is listed as a hazard.
- The exception `dropCompleted` raises when more inputs arrive than
  `n_effective_inputs` (drop.py:1853). It unwinds into the input drop's
  `_fire`, which lives in `event.py`, not under src/. It is listed as a
  hazard.
- The `fileStatus` query of NgasDROP. It is server I/O, abstracted to its
  outcomes: a size and a checksum (possibly empty), or an exception.
- NgasDROP's `getIO`, `dataURL`, and the `fileId` and `len` set by
  `initialize()`. They only feed the NGAS I/O.
