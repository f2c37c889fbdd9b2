# Verification of boojum: circuit resolver, proof of work, proof protocol

The repository holds the Rust crates of a SNARK stack: `boojum` (constraint system, gadgets,
prover and verifier of a STARK), `bellman`, `franklin-crypto`, `fflonk`, `snark-wrapper`,
`rescue-poseidon`, `ff`, `pairing`, and code generators. Most of it is arithmetic over large
fields. Three parts have behaviour of their own, and these modules are about them:

* the **circuit resolver**, `dag`, computes the witness of a circuit while the circuit is still
  being built, on a pool of threads, with hand-written synchronisation;
* the **proof-of-work runners** search for a nonce on all cores with one shared result;
* the **proof protocol**: prover, verifier and recursive verifier are three pieces of
  code, written separately, that must make the same moves on the same transcript.

Paths below are relative to `src/crates/boojum/src`; RW is
`dag/resolvers/mt/resolution_window.rs`.

## Inventory

| Part | State | Operations | Hard because |
|---|---|---|---|
| Lock-step channel, RW | `lock_state`, `lock_correlation`, `park_workers`, `die_order`, one plain `LockStepElement` per worker (`items`, `count`, `done`), `panicked`, the payload | `execute`, `get_panic`, `kill`; `wait_for_tasks`, `done`, `panic` of a worker | relaxed atomics, plain memory shared by threads, park / unpark, panics |
| Resolution window (broker thread), RW | `exec_order_buffer`, its range, the pool | `resolve`, `process_buffer` | polls a hint flag, decides to stop from two values read at different times |
| Worker, RW | its correlation, the slice it was given | `run`, `invoke` | runs closures of the client, writes metadata others read |
| Buffer guide, `dag/guide.rs` | a ring of spans, `carrying_over`, the released stream | `push`, `flush`, `calculate_parallelism`, `expropriate_span`, drops of the orders it returns | positions are assigned at push, order and parallelism at release |
| Live sorter, `sorters/sorter_live.rs` | the guide, the registrar, the record | `set_value`, `add_resolution`, `internalize`, `write_order`, `flush`, `final_flush` | releases a resolver before its outputs are tracked |
| Registrar, `mt/registrar.rs` | resolvers delayed by their largest input | `accept`, `advance` | one number stands for all inputs |
| Values, `dag/primitives.rs` | tracked / resolved bits and tracker of a place, `max_tracked` | `track_values`, `set_value`, `advance_track`, `mark_resolved` | written by two kinds of threads |
| Awaiters, `dag/awaiters.rs` | the largest resolved location, the panic | `notify`, `wait` | one location stands for many places |
| Facade, `mt/mod.rs` | the comms, the handle of the broker | `set_value`, `add_resolution`, `get_awaiter`, `wait_till_resolved`, drop | must end whatever happened |
| Single-threaded resolver, `resolvers/st.rs` | values, a queue of deferred resolvers | the same interface | a cascade inside a call; only the head of the queue is looked at |
| Playback sorter and record, `sorters/sorter_playback.rs` | what a live run wrote down; a buffer of registrations | `set_value`, `add_resolution`, `write_buffer`, `flush`, `final_flush` | replays an order that another run found, against other timing |
| Resolver box, `dag/resolver_box.rs` | pages of raw memory | `push`, `get` | manual layout |
| Proof of work, `cs/implementations/pow.rs`, `rescue-poseidon/src/poseidon2/pow_runner.rs` | one atomic result, the block each core is in | `run_from_bytes`, `run_from_field_elements` | relaxed flag, cores that hit at once, a break that leaves one loop of two |
| Transcripts and bit buffer, `cs/implementations/transcript.rs`, `gadgets/recursion/recursive_transcript.rs` | buffered messages, state of the sponge or hash, words left over; bits left over | `witness_*`, `get_challenge`, `get_bits` | leftovers of one state must not outlive it; two encodings of it |
| FRI schedule, `cs/implementations/prover.rs` | none | `compute_fri_schedule` | boundary cases of degree, cap and rate; called by three parties |
| Prover, `cs/implementations/prover.rs`, `fri/mod.rs` | the transcript, the proof under construction | one long function | the order of moves is a convention between three functions |
| Verifier, `cs/implementations/verifier.rs` | the same transcript, the proof | the same moves, with checks | as above |
| Recursive verifier, `gadgets/recursion/recursive_verifier.rs` | the same as constraints of a circuit | the same | as above; a check is an enforced bit, a length is fixed when the circuit is built |

The client (`cs/implementations/cs.rs`) calls the facade on one thread, the registration thread. The
sorter pushes resolvers to the guide; what the guide releases goes under a mutex into the execution
order, and a hint tells the broker. The broker copies the order into its buffer, deals batches to the
workers through the channel, waits for all of them, and notifies the awaiters. Panics of closures
travel from the worker to the broker to the registration thread.

The prover and the verifiers share no state. Each runs a transcript of its own; the proof goes from one to
the others, and what they compute agrees only if they witness and draw the same in the same order.

What makes the parts correct:

* channel: the broker and the workers never touch an element together; no push is beyond an element; no worker skips or repeats a
  batch; a batch closes only when all its tasks ran or one panicked; nobody sleeps or spins for ever;
* guide: nothing lost or duplicated, spans within their capacity, the released order follows the
  locations it handed out, and the first `parallelism` items after any released item are independent;
* resolver: every resolver runs once, when its inputs have values and its outputs have none; an awaiter
  that returns tells the truth; `wait_till_resolved` returns, normally only with everything resolved,
  with the panic otherwise;
* playback: the order of the recorded run, item by item, and nothing before it can run;
* proof of work: no nonce is passed over but for a result, and the first result stays;
* protocol: an honest proof is accepted by both verifiers; every challenge depends on all that was
  sent before it; no word or bit of randomness is used twice.

`PROJECT.json` lists every component and, under "hazards", each place where one of these could go wrong.

## Modules

| Module | Models | Composed with |
|---|---|---|
| `BatchExecutor` | what the broker relies on: batches, tasks run at most once, panics, stop | |
| `LockStep` | the channel, the broker's use of it, the loop of the workers | implements `BatchExecutor` |
| `LockStepMemory` | the same with a store buffer of the broker | extends `LockStep` |
| `BufferGuide` | the guide; `Push`, `Flush` are also used as parts of larger actions | |
| `PlaceTracking` | places and the unbroken run of tracked ones | |
| `ResolutionWindow` | the broker thread and `Worker::invoke`, generic in the locations | drives `BatchExecutor` |
| `ResolverFacade` | waiting, ending the registration, joining: the same with any sorter | |
| `WitnessDag` | the promise of `CircuitResolver` to a client | |
| `MtResolver` | the live sorter, registrar, client | `BufferGuide`, `ResolutionWindow`, `ResolverFacade`; implements `WitnessDag` |
| `ResolutionRecord` | the live sorter as far as the record it writes depends on it | extends `BufferGuide`, `PlaceTracking` |
| `Playback` | a second resolver that replays the record, with all its threads | `ResolutionRecord`, `ResolutionWindow`, `ResolverFacade`; implements `WitnessDag` |
| `StResolver` | the single-threaded resolver | implements `WitnessDag` |
| `PoW` | the search, serial and parallel | |
| `Transcript` | the transcripts and the bit buffer, as functions on a record | |
| `FriSchedule` | `compute_fri_schedule` on logarithms | |
| `ProofMessages` | configuration, proof, and what a party is | extends the two above |
| `Prover`, `Verifier`, `RecursiveVerifier` | the moves of each | extend `ProofMessages` |
| `ProofProtocol` | the three together, and their properties | extends the three |
| `CommonFacts` | lemmas of arithmetic, maxima and sequences | used by the proofs |
| `LockStep_proofs`, `BufferGuide_proofs`, `MtResolver_proofs`, `Playback_proofs`, `StResolver_proofs`, `PoW_proofs`, `ProofProtocol_proofs` | theorems | extend their modules; `MtResolver_proofs` and `Playback_proofs` also extend `BufferGuide_proofs` |
| `MC*` | small instances for TLC | |

`LockStep` has one action per access to shared memory. `mpc` is the position of the broker in
`process_buffer` / `execute` / `kill`, `wpc[w]` that of worker `w` in `wait_for_tasks` / `run` /
`panic`; `token[w]` is the token of `std::thread::park`, and `SpuriousWakeup` the return without one that
its documentation allows. A task is its order index, and `Invoke` / `InvokePanics` stand for
`Worker::invoke`. `runs` is a history variable.

`LockStepMemory` lets a store of the broker enter `buffer` and reach the workers when `Commit` takes it out. The
variables of `LockStep` are what the broker sees, the `mem_` variables what the workers see; the steps of the workers
are those of `LockStep`, instantiated with the latter. `Stores` gives what each step of the broker stores, whether it changes
a value or not, with the fields of an element in the order the code writes them.

`BufferGuide` names an item by its number in the order of pushes; `loc` is the `GuideLoc` it got, `order` the
released stream, each entry with its parallelism. `Push(after)` takes the item whose location is the maximum
tracker of the inputs (0: none). An `OrderInfo` that must wait for spans not yet there is carried over, as
`carrying_over` does, and lands when the returned order is dropped.

`MtResolver` splits a call at the points where another thread can observe it: the write of the execution order,
the store of the hint, the tracking of outputs, each load of a wait loop. `rpc` and `bpc` say where the two threads
are. `resolved`, `tracked`, `tracker` are the metadata of the places. The lock-step channel is replaced by
`BatchExecutor`, whose tasks run in any order: what `LockStep` implements, and more.

`ResolutionRecord` runs the calls of a script through the live sorter in one go, since the record
depends on the order of calls and not on the threads. Registrations are numbered in the order of the calls; `box` is
the resolver box, from number to resolver. `Playback` then makes the same calls to a
resolver that has the record, interleaved like `MtResolver`; what it registers is the resolver of its own call, so that the two runs
agreeing is for the properties to say.

`StResolver` makes each closure a step, so that a panic can come between any two of a cascade.

`PoW` has a step per hash, per load of the flag and per compare-and-exchange. `seen[w]` says that core `w` has read
or written the result; before that a relaxed load may give the old value.

The protocol modules have one action per round of messages. A party (`prover`, `verifier`, `recursive`) is a
record: its transcript `t`, its `bits`, where it is, and as history what it has `drawn` and `sent`. A word of a transcript
is the pair of the number of blocks absorbed and its position, and the blocks are kept, so that two words are the same
if and only if all that went into them is.

### Abstractions

* In `LockStep` memory is sequentially consistent. `LockStepMemory` asks what delayed stores do: with `Reordered`
  FALSE they commit in order and `fetch_add` commits them all, as on x86; with TRUE stores to different locations
  commit in any order but for the Release store, as on ARM and in Rust's memory model. Delays of the loads are
  not modelled.
* Field elements are left out of the resolvers: a place has a value or none. The closures terminate or panic.
* Places are variables. The multi-threaded registrar asserts it of inputs; the gates of the repository pass
  nothing else.
* `internalize` works on a stack, filled from a hash map without an order; `MtResolver` takes any waiting resolver
  next, which includes every stack order.
* A place set from outside has the default tracker, which sorts below every item; as the maximum of the inputs it
  has the same effect on `push` as no input.
* Statistics, logging and paranoia modes are left out.
* In `StResolver` and in the circuits of the passing runs of `MtResolver` the client registers resolvers of
  a circuit whose places are in an order of computation, as a constraint system allocates them; `MtResolver`
  makes the calls in every order, `StResolver` registers in that order and sets values at any time, and each of
  its resolvers has at least one output.
* `Playback` replays the calls of the recorded run, which is what the record is for.
* In `PoW` the hash is the set of nonces it accepts.
* In the protocol what the arithmetic computes from challenges is represented by what the party had seen
  when it computed it: an identity between values of two parties holds if and only if they had seen the same. Lengths,
  indices, paths of openings and leftover bits are explicit. Sizes that are powers of two are given by
  their logarithms. An LDE domain has at least 8 elements, since both verifiers look up its 8th root of unity. With a
  circuit the cap has more than one element: `binary_select` asserts `bits.len() > 0`
  (`recursive_verifier.rs:2166`), so no circuit can be built for a cap of one, though prover and verifier accept it.

## Runs

Deadlock is checked in every run but `guide`, which really stops: pushes are bounded by `MaxItems`.

| Run | Asks | Bounds | States |
|---|---|---|---|
| `lockstep` | exclusion, pushes within the elements, correlation, exactly-once, panic reports, refinement of `BatchExecutor`; the pool always dies and is joined | 2 workers, elements of 2, 5 tasks: full, partial and several consecutive batches; workers without a task; one or both panic | 56173 |
| `lockstep_tso` | fresh slices and termination with delayed stores | 2 workers, elements of 2, 4 tasks, stores in order | 48534 |
| `lockstep_reordered` | the same, refuted for stores out of order | 2 workers, elements of 1, 4 tasks | |
| `guide` | order, capacity, nothing lost, independence | 4 spans of 2, 7 pushes, each after any earlier item: before, first, middle, last and two-past-last placements, overfilled spans, expropriation, carried items, flushes anywhere | 695483 |
| `resolver` | readiness of batches, order of tracking and release, awaiters, refinement of `WitnessDag`; calls return | a diamond, a chain with an independent resolver, a resolver of two outputs; calls in every order; one awaiter; panics | 329961 |
| `resolver_backward` | a doc comment, refuted | two resolvers, four places | |
| `playback` | readiness, the recorded order, awaiters, refinement of `WitnessDag`; calls return | a diamond with an awaiter and a chain in every order that sets values in time, and a script with two awaiters; buffers of 1, 2, 3; panics | 143868 |
| `playback_late_set` | a doc comment, refuted | the calls of a test, buffer of 2 | |
| `st_resolver` | cascade, queue, refinement of `WitnessDag` | three circuits of seven places | 452 |
| `pow` | nothing passed over, the first result stays, the search ends | 2 cores, blocks of 2, 10 nonces; every set of good nonces, serial and parallel | 115220 |
| `protocol` | honest proofs accepted, challenges bind, nothing drawn twice | 336 configurations: see below | 15590 |
| `protocol_reduced_pow` | honest proofs accepted, refuted | configurations whose bits of work the schedule lowers | |

Why small is enough. The channel treats its workers alike and its state at a batch boundary does not depend
on the past except for `lock_correlation` and `park_workers`: three consecutive batches of two workers show first,
next and last. The guide decides by the distance of the origin from span 0 and by whether the last and the span in
question are full: with four spans every branch of `push` is taken (the code has 32 spans of 2^12). The
channel and buffer capacities of 2 in the resolver runs make both limits bite (the code has 8 per worker and
2^19), and so do the playback buffers (2^10) for scripts of four and five registrations. Two cores with two blocks
of two nonces, and two nonces that no block holds, meet in every way two cores can. The transcripts absorb 4 (code:
8) elements, digests have 2 (4), words 12 (64) bits: messages that end inside, at and beyond a block, bits that
run out inside and between two indices. Domains of 2^1 to 2^7, rates of 2 and 4 and caps of 1, 2 and 4 give
schedules of no, one, two and three folds of all degrees; security levels of 3 and 4 bits give one to four queries.

Bounds that exist in the models only: `MaxTasks` (order indices), `MaxItems` (pushes), `MaxAwaits`,
`PlaceCnt`, the chosen circuits, scripts and configurations.

### Fairness

Weak fairness of the broker and of each worker (in the resolver models, of the workers together: a batch is finite
and each of their steps uses up a task or fails the batch) says that the operating system runs every thread; none of them
holds a lock another needs for ever. `SpuriousWakeup` is never owed, so no liveness result leans on it. In
`LockStepMemory` a store is committed in the end, as a cache does. The cores of `PoW` are fair
for the same reason. Closures end, which is a demand on the client. On the registration thread of `MtResolver` a call that
was begun goes on; the client owes no call but the last one, without which the drop is never reached. In
`Playback` the client makes the calls of its script. The protocol is sequential and states no liveness: that every
party comes to its end is the check for deadlock.

### Findings

* `resolver_backward`: the registrar is documented to handle "any non circular dependency among the
  deferred resolvers" (`mt/registrar.rs:19-20`). It delays by the largest input against the unbroken run of
  tracked places, so {2} -> {3} and {3} -> {1} wait for each other. The circuits a constraint system builds
  have their places in an order of computation, and there nothing gets stuck (`NoResolverStuck` in `resolver`).
* `playback_late_set`: `ExecOrder.size` is documented as "It is safe to execute the order up to this value"
  (`primitives.rs:259-260`). A playback whose buffer fills up at the last registration releases the whole order, also the
  items that became runnable in the recorded run only by values set after it; the calls of the test
  `non_chronological_resolution_playback_mode` with a buffer of two show it. Where values are set in time, `playback`
  finds nothing wrong.
* `lockstep_reordered`: `invoke` rests on "the resolution window thread mutex'es with the main thread and is synched with
  this worker" (RW:614-615). From the second batch on nothing orders the stores to the elements before the
  relaxed ones that let a spinning worker in, unless the machine does (`lockstep_tso`).
* `protocol_reduced_pow`: the schedule may lower the bits of work, the prover follows and puts the original
  configuration into the proof, and both verifiers refuse a proof whose schedule differs from its configuration
  (`verifier.rs:1851-1854`).

Without a run: `process_buffer` calls its unsynchronised access safe because "the worker threads are parked"
(RW:186-187), but `execute` clears `park_workers` (RW:846) and nothing sets it again, so after the first batch they spin.
The access is exclusive for another reason, `lock_state` and the correlation number: `DataExclusion`, proved.

## Proofs

### The channel

`LockStep_proofs` shows for every number of workers, size of elements and number of tasks, under
`WorkerCntAssumption` (at least one worker), `ElemSizeAssumption` and `MaxTasksAssumption`:

* `TypeCorrect`: `[]TypeOK`, with the lemmas that the round robin deals only tasks of the batch and gives no
  worker more than `LOCK_STEP_ELEM_SIZE` of them (`ShareFits`, `MultiplyMonotone`);
* `ExclusionHolds`: `[]DataExclusion`, the elements are written by the broker only while no worker is in one;
* `NoCorrelationMismatch`: `[]CorrelationHolds`, the `assert_eq!` of `wait_for_tasks` never fires;
* `PanicsReported`: `[]PanicReported`, and `FirstPanicStays`: `FirstPanicWins`.

None of these is inductive: that a worker about to take its slice is alone depends on what it saw several
steps earlier, while the broker moved. The invariant `IInv` ties every position of the broker to what holds of each
worker, in parts that lean on each other:

* `FlagInv`: the flags as functions of the broker's position;
* `CorrInv`: a worker's correlation number is the channel's or one behind, and where each is possible;
* `DoneInv`: a worker whose element is done has the number of the current batch and is not inside its slice;
* `WaitInv`: the elements the reverse loop has passed are done;
* `WorkerInv`: what a worker that is past a check may rely on;
* `PanicInv`: flag, payload, and the positions from which a dead worker can be seen.

`InitIInv`, `NextIInv` (one step per action) and `Invariance` carry the theorems.

Its second half adds `TInv`, which follows each task: a task of the batch has run exactly once, or is still in
the element or in the slice of the worker the round robin deals it to, and nowhere else; tasks of earlier batches have run,
later ones have not. With `IInv` it gives, for the same constants,

* `DrainedTasksRanOnce`: `[]DrainedTasksRan`;
* `PushesInBounds`: `[]ElementsFit`. A share fits an element by `ShareFits`, but only `TInv` tells that the
  element is empty when the share is pushed, after any number of batches;
* `LockStepRefinesBatchExecutor`: `LockStep`'s `Spec` implies that of `BatchExecutor` under the mapping in `LockStep`. Releasing the
  lock is the start of a batch, closing it or the death of the channel is its end, an invocation is a task,
  all else stutters. The resolver models are built on this.

The last part is about `LockStepMemory` with `Reordered` FALSE: `SlicesAreFresh` (`[]SliceIsFresh`) and `NoMismatchDelayed`
(the assertion of `wait_for_tasks`, by what the worker sees). `MemInv` says, for every position of the broker, which stores can
still be pending and that the last one to a location is what the broker wrote (`BufferInv`), that the workers see the
broker's value where none is (`SeenInv`), and repeats the clauses about a worker by what it sees (`MemWorkerInv`).
The argument: `fetch_add` leaves no store of an earlier batch pending, and a worker that is done goes on only with a new
correlation, so what it reads of its element is of the batch. `Reordered` TRUE breaks the first half, as the run
`lockstep_reordered` shows.

### The buffer guide

`BufferGuide_proofs`, for every `GUIDE_SIZE` of at least 2, every `Parallelism` for which two span lengths fit the
`u16` they are added in, and every number of pushes (`GuideSizeAssumption`, `ParallelismAssumption`,
`MaxItemsAssumption`): `GuideTypeCorrect`, `SpansKeepCapacity`, `OrderIsSorted`, `NothingIsLost`, and
`BatchesAreIndependent`, on which the resolution window stakes running a batch without looking at its inputs.
`OrderIsSorted` is also why `ResolutionWindow` may leave out the assertion of `AwaitersBroker::notify` that locations never
decrease (`dag/awaiters.rs:44-49`): tasks are drained, and notified, in that order.

The last one is why an invariant over the whole guide is needed. The parallelism of an item is fixed when its span
is released, from the length that the next span has then, while that span goes on growing and its items are not in the
order yet. `GuideInv` has the parts

* `Placed`: a buffered item has the location of its place;
* `Sorted`: the order is sorted and lies before the first span;
* `Complete`: an item is where its location says;
* `Windows`: the window of an item holds only items of its span and those of the next one closer to its
  start; as far as it is not released yet, the items that will fill it are there in span 0;
* `Depends`: an item is at least a span later than the one it was pushed after, and in the next span not closer to
  its start: so the latter is before any window the former is in;
* `Sizes`: only span 0 may hold one item more than `Parallelism`.

`ParallelismFits` is the case analysis of `calculate_parallelism`; `ReleaseOne`, `AppendItem` and `ReleaseUpToTwo` preserve
the first four parts and are put together for `Push` and, by an argument over the least counterexample, for `Flush`.

### The multi-threaded resolver

`MtResolver_proofs`, for every guide, channel and buffer size and every set of circuits in which places have one
origin (`CircuitsAssumption`, `CapacityAssumption`, `MaxAwaitsAssumption`, `PlaceCntAssumption`, and the guide's):

* `MtTypeCorrect`; `BatchesAreReady`: `[]BatchTasksReady`; `ReleasedAreTracked`: `[]ReleasedIsTracked`;
* `AwaitedAreResolved`: the action property `AwaitedResolved`;
* `MtRefinesWitnessDag`: `Spec` implies `WitnessDag` under the mapping in `MtResolver`;
* `NothingIsStuck`: `[]NoResolverStuck` if `InComputationOrder` holds of the circuits. The hypothesis is needed,
  see the finding `resolver_backward`; `MCMtResolver` asserts that the circuits of `resolver` satisfy it and that
  of `resolver_backward` does not.

`MtInv` is the invariant. Its parts, and why one needs the other:

* `GuideInv`, that of the guide, which the sorter's steps preserve since they push to it and flush it as `GuideNext` does
  (`RoomToPush`: each resolver is pushed once, so the guide has room);
* `ClientInv`: every resolver of the circuit is still to be registered, delayed, on the stack of `internalize`, or pushed,
  and in one of these only;
* `ValueInv`: a place is tracked when it was given or its resolver pushed, resolved when it was given or its resolver ran;
  its tracker is the location of that resolver. It makes the metadata a function of what was pushed and ran;
* `InputsInv`: what is delayed waits for a place beyond the run of tracked ones; what is pushed comes after the last of its
  inputs;
* `WindowInv`: between batches exactly the tasks before `range_start` ran; a batch is consecutive and within the
  parallelism of its first task. With `InputsInv` and `WindowIndependent` of the guide this is why the inputs of a batch are
  resolved;
* `PanicInv`: a panic is stored before it is announced, announced before the pool is killed, and the broker ends either
  after one or with everything run;
* `Told`, `Awaited`, `FinalInv`: what the awaiters were told, what they wait for, and that a registration which ended
  left nothing in the guide.

The awaiters need most of it: a location at most `max_resolved` is that of an item in front of a drained one, since the
order is sorted by location (`Sorted`) and complete before the first span (`ReleasedItem`). For the refinement, `Join`
without a panic must find that everything ran: the spans are empty, so every resolver is in the order, and the window has
passed all of it.

### Recording and playing back

`Playback_proofs`, for every guide, channel and buffer size and every set of scripts that register no more resolvers than the
record has room for and register none twice (`ScriptsAssumption`, `CallsAssumption`, `PlaybackAssumption` and the guide's):

* `ReplaysTheOrder`: `[]OrderReplayed`;
* `ReplayedAwaitersFindValues`: the action property `AwaitedResolved`;
* `ReplayIsSafeToExecute`: `[]SafeToExecute` if `SetsInTime` holds of the scripts. The hypothesis is needed, see the finding
  `playback_late_set`; `MCPlayback` asserts that the scripts of `playback` satisfy it and that of `playback_late_set` does not;
* `ReplayRefinesWitnessDag`: under the same hypothesis `Spec` implies `WitnessDag` under the mapping in `Playback`.

The first three rest on three invariants. `PlaybackInv` is about the order, in two halves.

`LiveInv` is about the first run:

* `GuideInv`, that of the guide;
* `CallInv`: the number of a registration is the number of `add_resolution` calls before it, and the box has the resolver of that call
  under it;
* `PushedInv`: every registration is delayed, on the stack, or pushed, and pushed once; at the end all are in the order;
* `RecordInv`: the record names the place of every registration in the order, and a length up to which the order holds
  no later registration. This is what the overwriting in `flush` must preserve.

At the end they make the places of the record a permutation (`RecordedOrder`, by counting). `ReplayInv` is about the second run:

* `SorterInv`: what is buffered has the recorded item of its number, what was written is at its place. `WritesBuffer` needs the
  permutation: no two items of a buffer go to one place, and none goes where one was written before;
* `SizeInv`: what is released, and what is read, are places that were written, by the recorded length of the last
  registration (`RecordedSizeIsWritten`);
* `WindowInv`, `PanicInv`: the window as in `MtResolver_proofs`; the drop by a client that unwinds releases default items, and
  by then the window has stopped.

`ValuesInv` is about the values of both runs. `LiveValues`: in the live run tracked is what is set or computed by an item, its
tracker is the location of the item, and an input that an item computes is of one no later than what the resolver was pushed
after. `ReplayValueInv`: in the replay the tracker of a computed place is its place in the order; resolved is what is
set and what has run. `NoticeInv`: awaiters are told of no place the window has not passed. An awaiter needs no more:
what it waits for is set, or its place in the order is one the window has passed.

`SetsInv`, under `SetsInTime`, is about the values set from outside, which neither the record nor the second sorter
know of. `RecordedSets`: up to the length recorded with a registration, the order needs no set that comes after it. A
call of `add_resolution` records what it has seen itself; `flush` overwrites the length of the last registration by what was set
since, which is where `SetsInTime` is needed (`GivenAtFlush`). `ReplayedSets`: so what is released and read has its
sets. `TaskReady` puts it together: other inputs come from items which the guide of the first run placed before the window of
the task (`WindowIndependent`), and the window of the second run has passed them.

The refinement needs three more. `Numbered`: every registration is of a call that was made, so what runs is known; no
resolver is registered twice, so it has not run before. `AppliedInv`: what ran is of the items at its places of the recorded
order, so writing the buffer, which puts resolvers into the order the window reads, changes nothing of the past. `EndInv`: a last
flush that does not unwind released the whole order, and a broker that ended announced a panic or passed all
of it; so `Join` without a panic finds that everything ran (`ReplayedToTheEnd`).

### The proof of work

`PoW_proofs`, under `PoWAssumption`: `PowTypeCorrect`; `NothingIsPassedOver`; `PanicsOnlyForNone`, from the lemma that
every nonce below the last block is in a block (`EveryNonceHasABlock`: quotient and remainder of the nonce name its core, turn and
position); `ResultIsFirst`. The invariant says of each core that what it passed over in its
current block is not good, that the nonce it holds for the exchange is, and that it ended either with its turns or
because there is a result.

### The single-threaded resolver

`StResolver_proofs`, for every set of circuits registered in place order (`CircuitsAssumption`): `StTypeCorrect`,
`TakenIsAlwaysReady`, `PrefixIsResolved`, and `StRefinesWitnessDag`. The first difficulty is that only the head of
the queue is looked at. The invariant says that the queue is sorted, that everything not applied is in it or in
hand, and that between calls its head waits; with places in order, the resolver of the
first place without a value would be at the head and ready. The proof takes the least such place.

### The schedule

The first part of `ProofProtocol_proofs`, for every configuration that passes the assertions: `PowBitsLowered` (bits of work only
go down, and where they do the queries come out without a remainder), `SecurityReached` (queries and work reach the
level, one query less does not), `LoweringIsFree` (no query is added by it). So the lowering itself is sound; the finding is
about what the verifiers make of it.

`FoldsAddUp`, for every degree, rate and cap: the folds are by 2, 4 or 8, each takes its logarithm off what the one before it left,
and nothing goes below 0. The folds are a recursive function: that it exists, and that from every degree its folds add up, is
shown of the least degree for which it would not be so (`FoldsRecursion`, `FoldsRemain`).

### The protocol

`ProofAccepted`: `Spec => []HonestProofAccepted`, for every set of configurations `Accepting` holds of, all sizes of transcripts
(`TranscriptAssumption`) and any number of openings. No proof the prover makes is refused by the verifier, nor by the
recursive verifier with an assertion or a flag.

`Accepting` says that the schedule leaves the bits of work as they are, and that where there is a circuit the cap has more
than one element. Without the first the verifiers do refuse (finding `protocol_reduced_pow`); without the second no circuit can be
built. `ConfigAssumption` says what the prover asserts, that sizes are numbers, that the logarithm of the LDE domain is less
than the bits of a word (its size divides the order of a multiplicative group of less than `2^64` elements, which
`domain_generator_for_size` asserts), and that a power of two is a natural number, a fact of arithmetic that the provers do
not have.

The parties share no state, so what has to be said of a verifier is about a prover that moved on long before. The invariant
`StepsRetraced` says that there is a history: `f[i]` is the prover after the `i`-th fold, `q[i]` after the `i`-th query, each obtained
from the one before by the step in question (`Folding`, `Asking`; `AfterSetup` to `AfterPow` are the other steps, functions of
the configuration alone). The prover is at the end of that history and the proof holds what was put in on the way
(`Proving`). Each verifier is at some point of it, with nothing rejected (`Retracing`). Of the prover's steps the lemmas
`RoundsProved` to `EndProved` show that they extend the history. `RoundsRetraced`, `FoldsRetraced`, `PowRetraced` and
`QueryRetraced` show what a verifier finds in the proof at each point, and `VerifierRetraced` and `RecursiveRetraced` that this is what each
of them checks. What these rest on:

* `LengthsAre`: every cap, opening and list of monomials has the length that is asserted of it, by `FoldsAddUp` for the last degree;
* `OpeningsTogether`: the circuit witnesses the openings in three parts, prover and verifier in one. It makes no difference, since
  the buffer is empty after a challenge, so that all that was witnessed since is absorbed at once (`TwoChallengesEmptyBuffer`,
  `WitnessedTogether`);
* `ShiftsAddUp`, `LeavesAgree`, `QueriesFound`: the index of a leaf is found in three ways, by the prover from the inner index and the coset, by the
  verifier with shifts and remainders fold by fold, by the circuit from the bits as drawn. They are the same leaf, the path from it to
  the cap has the length that all three take it to have, and the bits left over select the element of the cap;
* `QueryingChecked`: a verifier counts what it checked, and draws what the prover drew all the same.

### The challenges

`ChallengesAreBound` and `NothingIsDrawnTwice`: `Spec => []ChallengesBind` and `Spec => []NothingDrawnTwice`, for every set of
configurations (here without `Accepting`: whether the proof is refused makes no difference to what was drawn), sponge and
hash, every size of block and digest. The invariant of both is `AllDrawWell`. It says of every party (`WellDrawn`):

* `Filled`: the blocks absorbed without their padding, and then the buffer, are what the party has witnessed; and what words are left
  over are of the last block. `AbsorbsBuffer` shows it of the padding and cutting of the sponge, `RefilledIs` of the three ways
  in which `get_challenge` comes to a word;
* `DrawnSoFar`: every word drawn is of a state that held what was witnessed when it was drawn (`Binds`), the words were drawn in the order in
  which they are squeezed out (`Ordered`), and all of them come before whatever the transcript has left (`Past`). So no word can come again;
* `BitsLeft`: the bits in the buffer are all different and of words that were drawn.

Of the queries, `QueriesApart` says that the bits of each index were `Given`: they are of a drawn word, and no longer in the buffer. A
bit that was given is never given again (`BitsGiven`, `WellQueried`), and stays so when the party goes on (`Afterwards`), so a new index has no
bit of an old one. This is why the invariant speaks of given bits and not of the indices themselves: it holds of the
verifiers' moves as well, which put no index anywhere. `ProofParts` and the lengths that the verifiers check before they use a part
are needed where they witness what the prover put into the proof.
The number of FRI caps is checked once, after the base oracle's challenge, and relied on by every fold after
it: `FoldsCounted` carries it from one to the other.

What all of this rests on is that `FlattenSeq` puts two lists together to what each of them makes (`FlattenTogether`), and so
`Unpadded`. Both are recursive functions of a list: that the functions exist and add up is shown of the least length for which it would
not be so, as for the folds.

### Only model-checked

Liveness: `PoolTerminates`, `CallsReturn` and `SearchEnds`. Every other property that a passing run checks is stated by a
theorem.
Out of the prover's reach: liveness under fairness, and ENABLED. Induction over data too, where it does not come down to
a least counterexample, as it does for the folds.

## Not modelled

* Resolver box: pages of closures in raw memory. One thread writes, an index is read only after it was
  handed out; what is left is pointer arithmetic. The models use it as a function from index to resolver.
* Spans guide: nothing constructs it. Null resolver: its operations are empty. `CSWitnessValues`: waits for a barrier that
  nothing raises any more. Worker: splits ranges, without state; the split of the proof of work is in `PoW`.
* GPU synthesizer: one lock, one counter.
* Of the protocol: quotients, gates, lookups, copy permutation, DEEP and the interpolation of FRI, the Merkle trees
  beyond the length of paths and caps, the setup. They are identities between field elements, which the symbolic
  elements stand for.
* FFT, fields, curves, hash functions, gates and gadgets, `bellman`, `franklin-crypto`, `fflonk`, `snark-wrapper`,
  `rescue-poseidon` but for its proof of work, `ff`, `pairing`, code generators: nearly all of the repository's lines.
  Their correctness is about values in large fields and not about states, so the share of lines the map covers
  stays small.

## Plan

Done, in this order: the channel and its proofs, the guide, the multi-threaded resolver, the single-threaded
resolver; the record and playback, the channel with delayed stores, the proof of work, the transcripts and the proof
protocol; the proofs of exactly-once and of the refinement of `BatchExecutor`, of the guide, of the proof
of work, of the single-threaded resolver and of the schedule; then of the multi-threaded resolver on top of those of the guide,
of the channel with delayed stores, of the replay and its refinement, and of the protocol: the acceptance of
honest proofs, and what its challenges depend on.

What could come next: delayed loads of the
workers in `LockStepMemory`; a client that catches the payload of a panic and calls again.
