# nitro_type_coverage: specification and proofs

TLA+ models of the native core of `nitro_type_coverage`, checked with TLC on
small instances and in part proved with TLAPS for every instance. Paths are
those of the repository, with `src/` in front: `src/src/native/...` is the
repository's `src/native/...`.

The library is a Flutter plugin that carries calls, streams and background jobs
between Dart isolates and C++, Kotlin and Swift. Most of its source is generated
marshalling, the same few decisions repeated for every method in four languages; the
rest is threads that post to isolates, tables shared by isolates, ports that
close, engines that come and go. Both are modelled: the second as state
machines, the first as tables of what each method's code does on each side, checked
against each other by machines that call them.

## 1. Inventory

| Part | Source | State | Operations | What makes it hard |
|---|---|---|---|---|
| Completion batch | `src/src/native/nitro_completion_batch.h` | `seq_`, `bound_`, `coalesced_`, `ports_[p].{inFlight,pending}` under one mutex | `bind`, `coalesce`, `uncoalesce`, `post`, `ack`, `nativePort` | posts after leaving the mutex; ports close under it; who owns a heap object |
| Background job table | `src/src/native/nitro_background.h`, exports in `nitro_type_coverage.bridge.g.cpp` 21780-21940, Dart glue in `nitro_type_coverage.ffi.g.dart` 9030-9215 | `pending_`, `inflight_`, `next_`, `starter_`, `done_` under one mutex | `registerHost`, `submit`, `runNative`, `take`, `emit`, `complete`, `end`, `fail`, `cancel`, `activeCount` | isolate, submitter and host end one job from three threads; a start may fail after the job was queued |
| Background hosts | `nitro_type_coverage.bridge.g.kt` 1570-1720, `...bridge.g.swift` 1690-1800 | `_bgEngines`, `_bgCallbacks`, `_bgFinished`, the main looper | `nitroBgStart`, `nitroBgDone`, `runInBackground`, `run(onDone:)` | a worker thread and the main thread share maps; done before start; done before its callback is known |
| Stream senders | `HybridNitroTypeCoverage.cpp` 605-740, `NitroTypeCoverageImpl.kt` 236-280, `NitroTypeCoverageImpl.swift` 180-235 | generation counters, jobs, an unlimited channel | `configureStream`, `configureBatchStream` and their double/bool forms | detached threads of superseded ranges; cooperative cancellation; a channel that outlives its collector |
| Stream ports | `nitro_type_coverage.bridge.g.cpp` 6970-7400 | `_NitroStreamPorts` per stream | `add`, `remove`, `snapshot`, `dropInstance`, `emit_*` | posts to a copy of the port list |
| Coalescer | `HybridNitroTypeCoverage.cpp` 312-341, 1175-1243 | `_coalBuf`, `_coalPort`, `_coalRunning`, flush thread | `submitCoalesced`, `_coalesceLoop`, `_postBatch`, destructor, the web's `_coalFlushNow` | the port is outside the mutex; notification outside the mutex; shutdown with a full buffer |
| Worker pool and async dispatch | `src/src/native/nitro_worker_pool.h`, `<method>_dispatch` and `_nitro_move_err` in the bridge, `...ffi.g.dart` 3982-3995, 6274-6298 | `queue_`, threads, a thread-local error per worker, an error slot per call | `enqueue`, `loop`, run, move the error, post, answer | who frees a slot and its texts; an error left on a thread for the next call |
| Instance table and cache | `nitro_type_coverage.bridge.g.cpp` 7430-7517 | `g_instances`, a lock-free slot cache | `create_instance`, `destroy_instance`, `_nitro_get_instance` | an id and a pointer that are loaded one after the other |
| Kotlin stream jobs, Swift dictionaries | `...bridge.g.kt` 3930-3960, `...bridge.g.swift` | `_streamJobs`, cancellables per port | register, release | `launch(UNDISPATCHED)` before the map entry is put |
| Dart class | `nitro_type_coverage.ffi.g.dart` 568-569, 2957-3155 and every method | `_nitroErr`, `_nativeCallbackCache`, instance registry, finalizer | constructor, `dispose`, registering a callback | one error slot for all calls of an instance; callables replaced while they are used; use after `dispose` |
| Synchronous exports and JNI marshalling | the bridge's four builds (`...bridge.g.cpp` 751-5040 JNI, 7528-11863 and 17496-21780 C++, 11864-17490 iOS) and the methods of the Dart class | the error slot, buffers of the thread, frames of local references, blocks for Dart | every synchronous method and property | calls inside callbacks inside calls; four conventions of who frees a result, decided in four generators |
| Wire codecs | `...native.g.h`, `HybridNitroTypeCoverage.cpp` 80-215, `nitro_type_coverage.g.dart`, the codecs in the ffi, Kotlin and Swift files | none, but the arena of the argument | encode, decode in four languages | four sets of generated code that agree by construction only; sizes, offsets and tags; when the argument's memory is freed |
| Echo methods, web stand-ins, file helper, example, platform packages | `lib/src/bg_persist_io.dart`, `example/`, `ios/` ... | none, or plain fields | | |

How they interact: a call to an `@nitroAsync` method goes from Dart to the worker
pool; its result, like every stream item, goes through the completion batch to a
port of the isolate, whose handler acks the batch. Stream senders post to the
ports of the stream registry through the same batch. Background jobs have their
own port per job and do not use the batch; the table calls the host's starter
and done hooks, and the hosts call back into the table (`nitroBgFail`,
`nitroBgRunString`). The coalescer posts to a port of its own.

What makes each part correct:

- completion batch: one message out per port and order per port (but where an object that
  cannot be copied goes ahead), nothing stranded, every heap object freed once;
- job table: a job is run by one isolate and ends once, its port sees items, then
  one outcome, the host hears of it once, every job ends;
- hosts: no engine is forgotten, `onDone` is called once with the job's own outcome (the
  two ways in which it is never called are in sections 3 and 5);
- streams: ranges in order and whole for who listens, nothing of an old range for
  who came later;
- instances: a call or a subscription goes to the instance it names, and a disposed
  instance leaves no subscriber behind;
- coalescer: each call is answered once, on its own port, in order;
- async dispatch: each future completes once with its own outcome; slots and
  texts, arguments and results are freed once and not while in use;
- wire codecs: what one side writes the other reads, and sizes say where it ends;
- synchronous calls: each call ends with its own outcome, the callable of a call
  outlives it, and everything allocated for Dart has one owner.

`PROJECT.json` lists the components with their status, and the places where each
of these could go wrong as `hazards`, with the properties that would show it.

## 2. Modules

| Module | Models | Extends / uses |
|---|---|---|
| `OrderedDelivery` | what a port promises: objects arrive once, in order, or are lost with the port; nothing after an object went ahead | |
| `CompletionBatch` | `NitroCompletionBatch` with posting threads, ports and isolates | implements `OrderedDelivery` |
| `CompletionBatchProofs` | theorems about it | `CompletionBatch`, TLAPS |
| `JobLifecycle` | what a background job promises its submitter | |
| `BackgroundJobs` | `NitroBgTable`, submitters, background isolates, an open host | implements `JobLifecycle` |
| `BackgroundHost` | the Kotlin and the Swift host | composed with `BackgroundJobs` (EXTENDS; every step of the host that calls the table is joined to the table's action) |
| `BackgroundProofs` | theorems about the table and about the hosts | `BackgroundHost`, TLAPS |
| `BatchStream` | the senders of the implementations, the port list, Kotlin's collectors | |
| `BatchStreamProofs` | theorems about it | `BatchStream`, TLAPS |
| `Coalescer` | `submitCoalesced`, the flush thread, the web build | |
| `CoalescerProofs` | theorems about it | `Coalescer`, TLAPS |
| `AsyncDispatch` | worker pool, error slots, a detached `@NitroNativeAsync` thread | |
| `AsyncCalls` | the `@nitroAsync` methods on the pool: arena, the job's copy, the result, on each build | `AsyncDispatch` (EXTENDS; each step is joined to one of the pool's), the three export tables (INSTANCE) |
| `AsyncDispatchProofs` | theorems about both | `AsyncCalls`, TLAPS |
| `InstanceTable` | instance table, its lock-free cache, stream ports by instance | |
| `InstanceTableProofs` | theorems about it | `InstanceTable`, TLAPS |
| `WireFormat` | layouts of bytes, and what writing and reading a layout does, given the codecs `Write` and `Read` of what it contains | |
| `WireMatch` | when a layout reads what another one writes | `WireFormat` |
| `WireDart`, `WireCpp`, `WireKotlin`, `WireSwift` | the layouts each language writes and reads: records, the variant, lists, maps, optionals, enums, results, per method | `WireFormat` |
| `WireCalls` | a call that passes bytes, through the bridge of each build | `WireMatch` (EXTENDS), the languages' four (INSTANCE) |
| `WireProofs` | theorems about the codecs and about these calls | `WireCalls`, TLAPS |
| `SyncDart`, `SyncJni`, `SyncCpp`, `SyncApple` | tables: what the Dart class does for each synchronous method, and the three kinds of export for each synchronous and each `@nitroAsync` method | |
| `SyncCalls` | the calls of an isolate on an instance, nested through callbacks | the four above (INSTANCE) |
| `SyncCallsProofs` | theorems about it | `SyncCalls`, TLAPS |
| `MC...` | instances for TLC | |

### From code to actions

A method that works under a mutex is one action. A call made after leaving the
mutex (`Dart_PostCObject_DL`, `starter`, `done`, `notify_one`) is an action of
its own, so that every other thread may run in the gap. Two reads of shared
state without a common lock are two actions. The tables below say where this
makes a difference; `map` in `PROJECT.json` has the lines of every definition.

**CompletionBatch.** `EnterPost` is the part of `post()` under the mutex: direct
(`PostDirect`), into `pending` (`PostPend`), as the carrier (`PostFirst`), or, while a
message is out, at once all the same (`PostNow`): what `copyable()` refuses (a send port, a
capability, a native pointer) cannot be kept for an ack (header 158, 205-219), so it goes
out as a second message, ahead of what is pending. Which objects those are is a choice of
the caller, any that is no malloc'd item (an address, which can be copied). `overtaken`
is history: the ports that this happened to. No bridge of this repository posts such an
object, but the header does not forbid it, so it is in the model and `AtMostOneInFlight`,
`ImplementsChannels` and the theorems about them name it as their exception;
`PendingHasCarrier`, `OwnedOnce` and `EveryPostArrives` have none.
`PostSend` is the post. `ack()` is `AckIdle` (nothing pending: the port is idle),
or `AckTake` and, outside the mutex, `AckFlush`, which frees the objects of a
refused post. `Handle` and `Close` are the Dart side and external. An object is
numbered by the call that brought it. `send` holds what a thread carries across
the gap.

**BackgroundJobs.** `pop` is shared by `complete`, `end`, `fail` and `cancel`: `Pop`
under the mutex, then `PostOutcome` and `NotifyDone`, whoever called. `finish[i]`
says how far the method that popped job `i` has come. `submit` is `Submit` and then
`StartOnHost`, `StartFallback` (Dart runs an isolate itself) or `StartRefused` and
`CancelRefused` (`runNative`). `emit` is `Emit` (read the port) and `EmitPost`. The
host is open here: it may bring an engine up, fail it, or destroy it once the
done hook was called. `HostPassesId` says whether an engine is told its job id
(both generated hosts do) or asks for the oldest job of its entry, which `take`
also supports.

**BackgroundHost.** `looper` is the main thread's queue, `main` its task when that
takes more than one step. On Android `runInBackground` runs on its caller's
thread: `WorkerRegister`, `WorkerCheck`, `WorkerDeliver`; `nitroBgDone` is `MainDone`
and, when no callback was found, `MainStore`. On iOS both are one block of the
main queue (`MainDone`, `MainRegister`). A worker that uses the blocking form waits
(`WaitEnds`) on a latch that its own `onDone` opens, or gives up after the timeout
(`Leaves`) with `onDone` still registered, and goes on to its next job; `returned`
records what each call returned. Swift's `async` form resumes in `Registered`.
`KeepResult` keeps an early result and, beyond the limit, first drops all that are kept (kt
1657, swift 1739); `dropped` is history: the jobs of which `onDone` was then still on its way.

**BatchStream.** `style` selects the kind of sender: plain (`configureStream`, which
never looks whether it was superseded), generation (the batch streams of C++ and
Swift) or channel (Kotlin). A sender is `Check` (end, or superseded), `Snapshot`
(copy the ports) and `Post` for each port. In Kotlin a
sender fills the channel (`Send`), a collector per subscription takes (`Collect`)
and hands over (`Deliver`); cancellation is noticed only where the code suspends:
`send` to an unlimited channel never does, receiving from a non-empty one does
not. `configureBatchStream` is `Configure` in C++ and Swift, and `CancelJob`, `Drain`,
`LaunchJob` in Kotlin.

**Coalescer.** `StorePort` (before the mutex), `Push` (under it), `Notify` (after it);
`FlushCheck` (the predicate of the wait), `FlushTake` (the window ends, swap),
`FlushLoad` and `FlushPost` (the port is read when posting); `inbox[p]` is what the
handler of port `p` got, in order. `Shutdown` is the destructor, `PushWeb` and
`FlushWeb` the web build, where a burst is flushed by the event loop.

**AsyncDispatch.** `Dispatch` is everything up to the end of `enqueue`'s critical
section, `Notify` the `notify_one` after it. A worker goes `Look`/`Sleep`, `Run`
(clears what an earlier call left in its thread-local record), `MoveError`,
`Post`. `Answer` is the isolate's handler with its cleanup. `DetachedWrite` and
`DetachedPost` are `throwNativeNativeAsync`'s thread.

**InstanceTable.** `_nitro_get_instance` is `LoadId` (in `StartCall`, `StartRegister`) and
`LoadPtr` on a hit; on a miss `Find` (lock, look up, store the pointer) and `Fill`
(store the id, unlock). `destroy_instance` is `Destroy` (lock, drop the streams, erase)
and, still under the mutex, `ClearId` and `ClearPtr` for each slot. `create_instance`
is `Construct` (the factory, outside the mutex) and `Insert`. The registry of ports is
`Add`, `Without` (in `Release` and `Post`) and the snapshot in `Emit`. Addresses are values: an
erased instance's address may be given to the next. `crossed` and `cleared` record what
happened between the two loads of a hit: a miss for another instance of the slot
stored its pointer there, or the slot was invalidated.

**AsyncCalls.** `Jobs` says for each method what `<method>_dispatch` copies for the job and how
the job posts its result; `Awaits` what the Dart method allocates, what it frees of the
result or keeps for a list (`Lazy`: `echoConfigList`, `echoConfigListSync` and `echoPointList` return a
`LazyRecordList` that reads the block until `_nitroFreeFinalizer` frees it), and whether it tests the address. `held` is what is allocated for a call: `CallPool` adds
arena and copy, `RunExport` the result (and gives a cloned struct back), `PostResult` takes the
text and the copy away, `CompleteFuture` the rest but what a lazy list keeps: the call is then one of
`lists` until `Collect`, the finalizer, frees the block. All but `Collect` are joined to `Dispatch`, `Run`, `Post`,
`Answer` of the pool, which has no part in `Collect`. A post and the end of its job are one step, as in `AsyncDispatch`: the message is not
handled between the two. An export that gives null and no error is a third outcome of `RunExport`
where the code has it (`MayGiveNull`).

**Wire modules.** A codec is a layout: a nest of constructors (`Rec`, `List`, `Indexed`,
`Dict`, `Variant`, `Opt`, ...). `Write` turns a value into bytes, `Read` takes it back
and is not `ok` where the code would read garbage. Both are CONSTANTS of `WireFormat`, where `WriteBy` and
`ReadBy` say what they do with a layout, by `Write` and `Read` for what it contains; in the runs `Write` and
`Read` are `WriteBy` and `ReadBy` themselves (`MCWireCalls`, with the values to try). So the modules that
the proofs use have no RECURSIVE operator. A byte is known by the cell it belongs
to, its kind and its place in it, so that a moved field, a wrong width or an offset that
points elsewhere is seen whatever the values. Each language's module has a layout for
each type and, per method, those of the argument and of the result as that language's
code has them. `WireCalls` takes one call through `Call` (Dart encodes into an arena),
`Enter` (the export passes the bytes on: a copied `ByteArray` in JNI, a view of the payload
in C++, the pointer on iOS), `Decode`, `Leave` (a `@nitroNativeAsync` call frees its arena
when the native function returns), `Reply` and `Answer`. `Decode` and `Leave` race where the
implementation works on another thread.

`WireMatch` says when two layouts, generated for two languages, agree: `Fits` what they have in
common at the top (the same fields in the same order, the same table of an enum, the same tag, ...),
`Parts` what is inside, with the layout of each side and the value. `CallsFit` says that all trips of all
methods fit, argument and result, down to numbers and texts. It is an assumption of `WireCalls`: TLC
evaluates it for the layouts of the four languages' modules and every value of the run, and
`WireProofs` needs nothing else of them. A field moved in one language breaks the assumption
before it breaks a property.

**Sync modules.** A row of `SyncDart` says whether a method reads the error slot after the
call, what of the result it frees, and whether it takes a callback; a row of `SyncJni` whether the
export makes local references, whether it pushes a frame for them, and what it gives
Dart; `SyncCpp` and `SyncApple` what the other builds give. The tables are cut along
the source, so that each definition stands for one stretch of it. `SyncCalls` runs
them: `Enter` (Dart registers the callback's callable and calls; the export clears the
slot), `InvokeCallback` and `CallbackReturns`, `Return` or `Throw` (the export writes the
slot), `Take` (Dart reads the slot, throws or decodes, frees). In the callback any
method may be entered again. `Microtask` is the `deferredClose` of replaced callables;
it runs when the isolate's turn is over, that is with an empty stack. `threw` and
`disturbed` are history.

## 3. Runs

| Run | Instance | Result |
|---|---|---|
| `batch` | 2 threads, 1 batch port, 1 heap stream, 3 ids, 3 posts | passes: one message in flight unless an object went ahead, nothing stranded, each object owned once, implements `OrderedDelivery`, every accepted post arrives |
| `jobs` | 2 submitters, 1 entry, 2 jobs, 2 items | passes: table, port and hook protocols, implements `JobLifecycle`, every job ends |
| `host` | both platforms, 1 worker, 1 Dart submitter, 2 jobs | passes: engines accounted for and torn down, a blocking call returns its own job's outcome, `onDone` at most once; on iOS exactly once, unless its early result was dropped at the limit |
| `host_lost` | Android, 1 job | **violation** of `OnDoneCalled` |
| `stream` | the three kinds of sender, 2 ranges of 2 items, 2 subscriptions | passes: at most one stale item under the counter, order, no item of a channel twice, whole ranges |
| `coalescer` | threads and web, 2 callers with 2 calls, 2 coalescers | passes: answered once, on the own port, in order, also at shutdown |
| `dispatch` | `AsyncCalls`: 2 isolates, 2 workers, 2 calls, detached or of 7 methods, 3 builds | passes: own outcome; slots, texts, arguments and results used while allocated and freed once; an answered call keeps the block of a lazy list and nothing else; no lost wake-up; every call answered |
| `instances` | 2 isolates, a native thread, ids 0 to 3 in 2 slots, 2 addresses, 1 port | passes: a lookup that is not crossed finds its own instance, ports follow the instances, no foreign event without a crossed registration |
| `wire` | 67 methods, 3 implementations, the shapes of `MCShapes` | passes: native gets what Dart sent, Dart gets what native returned, sizes are exact |
| `wire_truncated` | the same | **violation** of `ResultWhole` |
| `sync` | all synchronous methods, of those with a callback two, 3 builds, calls three deep, 4 callables | passes: outcomes of calls that share the slot, open callables, nothing lost but what is named |
| `sync_nested` | the same | **violation** of `FastErrorsSwallowed` |

Every property of a passing run has a mutant in `PROJECT.json`: a changed
definition (a dropped reset, a swapped order, a missing test) under which the same
run finds it violated. `Mutant:` comments in the modules mark those definitions;
they are used by no action.

### Bounds

Two of everything that can meet: two threads, two callers, two jobs, two ranges,
two subscriptions. The properties relate pairs (two posts to a port, two methods on one job,
an old range and a new one, a call and the next on the same worker). Three posts
suffice for a carrier, one pending object and one behind it or ahead of it (three ids, so that
all three may be completions of one batch port); only completions go ahead in the run, since the
items of its stream are malloc'd, while the theorems cover streams of other items; two items for an order. History variables (`log`,
`inbox`, `late`, `told`, `received`, `freed`, `overtaken`, `dropped`) only record. `MaxFinished`
stands for the 256 early results the hosts keep; it is 0 in `host`, so that the second
early result of two jobs meets the limit and drops the first. `instances` has two
slots in place of eight: instances 0 and 2 share one, 3 has the other, so lookups are
crossed and left alone in the same run; two heap addresses for three lifetimes make
reuse happen.

`wire` takes texts of 0, 5 and 252 bytes, lists and maps of 0, 2 and 3 entries, optionals
present and absent in turn, each of seven cases of a variant or kind of a dynamic value.
Since a byte is known by its cell, two entries are enough to see an order, an offset or a
size that is wrong (`WireProofs` says so of any number); 252 makes the payload of a text result exceed 255 bytes, where a
one-byte size ends. `sync` runs every method of the tables at every depth; three calls
are a caller, a call in its callback and one in that one's, and a callback can register
another callable for a method under way twice. Two of the eleven methods with a callback
stand for all (`MCMethods`): one whose callback answers inside the call, one whose events are
posted to a listener. Callables are symmetric. `dispatch` has one method of each kind
(`EveryKind`: any other copies, posts, gives and frees as one of these does) and two calls: two at
once are enough for one to take what belongs to the other, or a worker's second job to
meet what its first left. That two callers notify while all workers sleep takes a third call, and so it is not
in the run; `NoJobForgotten`, the invariant that has to hold for it, is proved for any number.

`CHECK_DEADLOCK FALSE` in all but the `wire` and `sync` runs: with the bounded calls made the systems
are at rest, which is no deadlock. That nobody waits for ever is what the
liveness properties say.

### Fairness

Weak fairness, and only of what the platform schedules: a thread inside a method
goes on, a worker, flush or sender thread runs, an isolate handles its messages,
the main looper runs its tasks, a coroutine is dispatched. No fairness of what a
user decides: submitting, cancelling, subscribing, configuring, closing a port,
destroying. `JobsFairness` includes that the host answers for an engine it promised
(it comes up or its start is reported as failed); on iOS
`FlutterEngineGroup` cannot report a failed start, which the code documents, so the
Swift host has no failing start and its liveness rests on engines that come up.
Mutexes are not modelled as such: critical sections are short and wait for nothing.

### What the violations show

1. `host_lost`: in Kotlin `nitroBgDone` looks for the callback and then stores the
   result, `runInBackground` stores the callback and then looks for the result;
   the second pair fits between the first two, and `onDone` is never called.
2. `wire_truncated`: Swift's encoders of a result take the size of the payload from the first
   of its four bytes; from 256 bytes on, Dart gets a size and not the bytes to it.
3. `sync_nested`: a fast method never reads the slot that it shares with all calls of the
   instance. Called in the callback of a checked method it leaves its error there; the outer
   export cleared the slot before, and the outer call, which succeeded, throws that error.
   `OwnOutcome`, which `sync` checks, is what does hold: a checked call ends with its own
   outcome, except after exactly this.

Four more things were seen in the models and have no run of their own. A hit in the instance
cache loads id and pointer one after the other; a miss for another instance of the slot in
between hands out that one, and a subscriber is registered for it (`OwnEventsUnlessCrossed`
says that this is the only way to another instance's events; it takes a registered
factory and ids that differ by a multiple of eight, while this plugin registers one static
implementation). With the generation counter the item between test and emit gets through: at
most one (`AtMostOneStaleItem`), where the comment at `HybridNitroTypeCoverage.cpp:611-613` says
"never". A cancelled Kotlin collector that holds an item takes further ones from the
channel, which a later subscription then misses. A null result of an `@nitroAsync` method is posted as
the address 0; the methods with an optional result test the address, the others only the message
(`raw == null`, `...ffi.g.dart` 4230), and read at it. On iOS an export gives null without an
error when there is no implementation or when `try?` dropped what it threw (`...bridge.g.swift`
2207-2214). `ReadNull` is that step; the model's process ends with it, and `EveryCallEnds` excepts it.

`instances` shows a second effect of the cache: while one isolate disposes of an instance,
every slot is cleared, and a lookup of another, live instance may find nothing. A call
then reports that no implementation is registered, and a subscription is added under
the null pointer, where no event reaches it. `LookupFindsOwn` and `SubscribersExact` except
exactly these lookups (`cleared`).

`findings` in `PROJECT.json` quotes the lines they contradict.

## 4. Proofs

`tlapm` checks all of the eight proof modules; the theorems hold for all values of the
constants that satisfy the modules' named assumptions (`ConstantsOK`, `JobsOK`,
`DispatchOK`, `StreamOK`, `CoalescerOK`, `InstanceOK`: bounds are naturals, sets are
disjoint or not empty; `NoCallableAssumption`, `CheckedIsBoolean`, `CallbacksChecked`,
`PlatformsAssumption`, `TablesAgree`, `MethodsAssumption`, `AsyncTablesAgree`, `CallsAssumption`: facts
of the tables, which TLC evaluates for the methods of the run). In each module `IInv` is the
inductive invariant, its parts are named for what they speak of, and there is one lemma
or step per action.

**CompletionBatch**: `TypeCorrect`, `CarrierCorrect`, `OneMessageInFlight`,
`NothingStranded`, `ImplementsOrderedDelivery`, `OneOwner`. A message out for a port is with a thread, in the VM's queue or
with the isolate; `CarrierInv` says that an open port marked in flight has such a carrier and
that one that is not marked has nothing pending; of a port that was not overtaken also that
it has at most one carrier, and none when it is not marked. It is inductive (with the types), and the other two
follow. `AtMostOneInFlight` alone is not inductive: it does not see that an idle port has no carrier.

`ImplementsOrderedDelivery` is the refinement (`Spec => ImplementsChannels`). `Transit` is the
message that a port's only carrier holds, and `WayIs` says that the channel of a served port is
that message followed by what is pending; `CarrierInv` is what makes "that message" one thing.
`ChanMoves` says which change of one channel is which action of `OrderedDelivery`, and there is one
lemma for each kind of step: `PostSend`, `AckTake` and `AckFlush` only hand the message on and
are stutters, `Handle` delivers it whole, `PostNow` is `Overtake`, which ends the channel:
of what such a port delivers afterwards only `OneOwner` speaks.

`OneOwner` needs no sums: `At` names the place of an object (which container, which port or thread,
which message, which position), and `OwnInv` says that each object has at most one place,
a malloc'd one exactly one, and that a place on the way to Dart is one of the object's own port (`Heads`), which
is why the right `FreeItem` runs. A step may leave an object's places alone or give it a single
new one (`Kept`), shown action by action; `OwnersAdd` then turns places into the counts of
`OwnedOnce`, with a pigeonhole argument for the positions it looks at.

**BackgroundJobs**: `IInv` consists of the types, `TableInv`, `ToldOnce`, and
`CallerInv` (a caller inside `submit` is alone with its job, which has no isolate
yet), `RunnerInv` (a busy isolate has a job of its own, which left the queue),
`FinishInv` (unused ids are untouched). `EraseIds` and `PopOrFail` say what the
erasing from the queue and `pop` do; they carry the rest. From `IInv`: `TypeCorrect`,
`TableCorrect`, `HostToldOnce`, `JobsRunOnce`. The last one holds for hosts that do
and for hosts that do not pass the job id.

`PortInv` is inductive together with `IInv` when hosts pass the id: an isolate runs its
own job, only the submitter can end it meanwhile (so an emit that is under way
follows a cancel at worst), and what was posted fits the outcome. `StepOfJob` first
reduces each action to what it does to one job, its isolate and its port; the three conjuncts are
then proved over those eight cases. From it: `PortKeepsProtocol`, `OneItemLate`,
`JobsHaveIsolates`. Without the assumption they do not hold: an engine that fails may
be another than the one that runs its job, and two threads then post to one port.

`ImplementsJobLifecycle` is the refinement (`JobsSpec => ImplementsLifecycle`), under the same
assumption. It needs two facts more (`RefusedNative`: only native code takes back a job
that its host refused; `NoOutcomeYet`). `StatusOf` is the refinement mapping with the
cases in an order, `QuietBecause` says what leaves a job as its submitter sees it,
`LifeMoves` which change of one job is which action of `JobLifecycle`; then there is one
lemma for each kind of step. `PortInv` is what makes a late item the last one.

**BackgroundHost** (in the same module): `EnginesKept`, `OnDoneOnce`, `WaitersGetOwn`, for hosts that pass the id, as both
do. `HostsRefineTable` shows first that whatever a host does, the table in the composition
takes only steps of `BackgroundJobs`; so `IInv` and `PortInv` hold here too, and `HostInv`
is inductive next to them. `EngineInv`: in the main thread's tasks an engine's start stands
in front of the end of its job, and an engine that runs after its job's end still has
that end before it. `RightInv`: the right to call `onDone` is in one of four places, the
worker that has not passed it on, a task of the main thread, the map, or used. `ToldInv`:
whoever is about to call `onDone`, or keeps a result, knows that the job is over. An engine that asks for the oldest
job would run a job whose end its host has handled already, so the assumption is needed.

**InstanceTable**: `LookupCorrect`, `RegistryCorrect`, `EventsCorrect`. `IdsInv` (an id is given out once, live
instances have an address each), `MutexInv`, `CallInv` (what a thread in a call knows),
`CacheInv` (a slot that names an instance has its pointer, or that of a miss that
holds the mutex and has not stored its id yet), `HitInv` (between its two loads a hit
that nothing crossed will find its pointer) and `PortInv` (a port is opened by one
thread). `EventsCorrect` adds `EventInv`: what a port was registered for
never changes, so an item in a snapshot, or one that arrived, is from the port's own instance
unless the lookup that registered the port was crossed. The two properties are part of the invariant. `CacheInv` is the reason for
`crossed`: a half-filled slot is the one state in which id and pointer disagree.

**AsyncDispatch**: `SlotsCorrect`, `OutcomesCorrect`, `TextsCorrect`, `JobsNotForgotten`. `PlaceInv` says that a call is
in one place only (queue, worker, own thread, port), `WorkerInv` that a worker holds texts
only between the implementation and the slot, `SlotInv` what slot, texts and
answer are in each place. The properties follow place by place.
`JobsNotForgotten` has its own invariant `WakeInv`: threads start together, before the first
job is queued, and a worker that falls asleep leaves an empty queue, so a job in the queue
with all workers asleep has a notification on the way.

**AsyncCalls** (in the same module): `CallsRefinePool`, `OwnersCorrect`, `NothingKeptCorrect`.
`CallsRefinePool` (`CallSpec => Spec`) shows that every step is one of the pool or leaves it
alone, so the four theorems above hold of these calls, and `IInv` says where a call is.
`LedgerInv` is inductive next to it: for each place, what exactly is held for the call (queued: arena and copy;
at a worker: by how far the job is; posted: arena and what Dart frees or keeps; answered: what
a list that Dart still has reads). A step lemma of the pool
also proves which calls it leaves alone (`SameCall`), which is all that the ledger of the other calls needs.
`AsyncTablesAgree` is the assumption of these theorems: an export gives
exactly what Dart, a finalizer and a text's post free. It is a fact of three generators' output, method by
method, so TLC evaluates it; what the theorems add is that no interleaving, error or null
breaks it.

**Coalescer**: `AnsweredCorrect`, `OrderCorrect`, `ShutdownCorrect`. `PortInv` says that all calls
not answered yet were made with the port stored last; that is what makes the late read
of the port right, and it needs `MayUse`. `OrderInv` orders answers, batch, buffer and the
push to come; `PlaceInv` keeps each call in one of them.

**BatchStream**: `StaleCorrect`, `RangeOrderCorrect`. `PlainInv` relates what a subscriber received
to how far the sender is, `ChannelInv` orders received, held, waiting and unsent items of
a channel, `StaleInv` says that a sender looks at the generation between any two items.

**SyncCalls**: `OutcomesCorrect`, `CallablesCorrect`, `LossesKnown`. `OuterInv` says that every call but the
innermost sits in its callback and has not thrown, `SlotInv` that the slot's flag is what the
innermost call threw or what a fast call in its callback left; both are needed, as the
outcome of a call is decided when it is taken back, after any number of others wrote the slot.
`CallableOpen` is inductive with the types: callables are closed on an empty stack only.
`LossesKnown` rests on `TablesAgree`: what an export gives and Dart does not free is named in
`KnownLosses`. The assumption is evaluated by TLC for every method and build; the theorem
follows the losses through nested calls, errors and frames.

**Wire codecs**: `CodecsAgree`. Layouts are data and codecs recur over them, so the theorem is
an induction; the library's induction theorems cannot be instantiated, but a set of numbers
with 0 and all successors is all of them (`NatSet`, from the minimum of a well-founded
relation), and with the induction hypothesis as such a set the provers follow. It is used for
what is recursive in the model: `FlattenSeq` and `SubSeq` (`FlattenIs`, `UptoFacts`), readers of
several items (`EachBack`), the size added up ahead (`SizeAheadLen`), the keys of a map (`KeysAre`), and
the depth of a trip. `Holds(w, p, b)` says that the bytes `b` are in `w` behind `p`, `Reads(in, b, v)`
that a reader of `in` which is there gets `v` and is behind them, wherever that is. There is one
lemma for each layout: if what it contains is carried, so is the whole (`CarriedRec`,
`CarriedIndexed`, `CarriedDict`, ...). `FrameBack`, `TableIs` and `SizeAheadLen` are the ones about sizes.
`CodecsDefined` is the hypothesis on the two CONSTANTS `Write` and `Read`: on the trips at hand they are
`WriteBy` and `ReadBy`, as in the runs. The recursion ends, as what is inside a layout is smaller or, for
a dynamic value, behind a byte that was read. The prover has no definitions of recursive operators, so it is
stated as what it is.

**WireCalls** (in the same module): `CallsCorrect`, `ArgumentsCarried`, `ResultsCarried`, `SizesCorrect`.
`ArgDecodes` and `RetDecodes` follow the bytes through the bridge: a copy by the size in front is the
whole (`BridgeFrame`), a view of the payload is what a frame contains, an optional number is as long as the
bridge copies (`OptCopied`), null is no bytes, and a record that is passed by a pointer has some
(`HasBytes`). `CallInv` says what is under way at each step of a call: the bytes of the
value sent, as far as the bridge has got with them, in an arena that lives until they are decoded;
then those of an answer to it. That a Swift result is cut (`wire_truncated`) is excepted as
in the properties (`Cut`, `Shortened`). What the theorems add to the run is the values: any texts,
blobs, lists, maps and nestings of them whose layouts fit, and what `CallsAssumption` says of values
is only their shape.

Every module but the wire ones has `TypeCorrect` or a proof with its types; those of a wire call
are in `CallInv`.

Only model-checked: every liveness property (fairness and ENABLED are beyond the
prover). That the layouts of the four languages fit is a fact of their tables, which TLC
evaluates. All invariants and all action properties of the runs are proved but for the three
that runs find violated.

## 5. Assumptions and what is left out

- Dart's VM, `dart_api_dl`, the `nitro` package (`openStream`, `NitroCoalescer`),
  Flutter engines, Android's `Handler`, GCD and kotlinx.coroutines are external and
  modelled from how the code uses them: ordered ports, ordered main queues,
  cooperative cancellation.
- Allocation never fails. In `take_job` (bridge line 21851) a failed `malloc` loses a job; the code
  survives it nowhere.
- A spurious wake-up makes a thread test its predicate again and changes nothing.
- `Coalescer`: coalescers are used one after the other (`MayUse`), as in the
  repository; with two at once a burst goes to the port of the latest call.
- `InstanceTable`: Dart's instances are made by a factory (`register_factory`, the documented
  way to have several); instance 0 is registered at load and looked up by native threads only
  (`get_impl`). An isolate makes no call on an instance it disposed of; an asynchronous
  call may still run. An instance emits only while it lives.
- Memory order: the cache's loads and stores are taken in program order. The one
  reordering the code allows, the relaxed store of a null pointer before the release
  store of the id -1, gives a lookup the same outcomes. The generation counters are sequentially consistent. `_coalPort` is
  relaxed, but stored before and loaded after a critical section of the same mutex,
  so the load sees the port of a call in the batch or of a later one, as in the model.
- `BackgroundHost`: results that nobody claims (all jobs Dart submits) pile up to 256 and are
  then dropped together, also one whose `onDone` is about to be registered. That `onDone` is
  never called, on either platform, although its comment says that it "runs on the main
  queue once the job finished" (`...bridge.g.swift` 1754-1756). `OnDoneCalledOnIos`
  has this one exception (`dropped`), and `host` reaches it; without it the property fails there.
- `SyncCalls`: `throwIfOutParamError`, `deferredClose` and the decoders of lists are the
  runtime package's and taken to do what their callers rely on (free and clear the slot,
  close on a microtask, free the block). `nativeAsyncWithCallback` also registers a
  callable; a re-registration while its call is under way is its caller's affair. `dispose()`
  inside a callback frees the slot under the outer call and is not modelled. Errors of
  views go to the thread's record, which no synchronous method reads. `KnownLosses`
  names what is never freed: the texts of an error nobody reads, on every platform;
  the copies that the C++ build makes of `echoNullableString`, `getLabel` and
  `echoNullablePoint`, which Dart only borrows (the comment at
  `scripts/native_leak_check/main.cpp:82-86` says they are); the blocks iOS allocates for
  optionals and structs. JNI exports of properties do not look for an exception.
- `AsyncCalls`: `openNativeAsync` is the `nitro` package's and taken to call `unpack` once and
  then `cleanup`; `LazyRecordList` too, taken to read the block until it is collected and to free
  it then, with the `nativeFree` it was given. Nothing says that it ever is collected
  (`Collect` has no fairness). A `@NitroNativeAsync` call keeps nothing there; what it passes is in `WireCalls`.
  Bytes, texts and structs are one allocation each, with what they point to; a result that is refused
  because its isolate is gone is not modelled.
- Wire: all four languages write little-endian, so byte order is not modelled; the fields of
  records have names of the model. Floating-point and integer values are cells, and their bytes are not told apart by
  value; the C++ open map is passed on unread; typed data and structs by
  pointer have no encoding. Results that are null where a `NitroResultValue` is expected
  (no implementation) are read by Dart through a null pointer; nothing of that is modelled.
- Swift: `try?` in a decoder turns an error into a missing value (`...bridge.g.swift`
  2068-2082, 2125-2170). Its dictionaries of cancellables are changed from two threads
  without a lock: what is left then is undefined, and no model of it would be faithful.
- Not modelled: the `_streamJobs` map of Kotlin (it only leads from a port to its
  collector's job), the executors behind Kotlin's and Swift's `@nitroAsync` (they stand where
  the worker pool stands), the constructor, `dispose` and finalizer of the Dart class beyond what
  they call in the native library, echo methods and plain properties, web
  stand-ins, file helper, example, platform packages.
- Payloads and messages for people are not modelled; an item, a job, a call is a
  number.

## 6. Plan

Done, in this order: completion batch, job table, hosts, streams, coalescer, async
dispatch, instance table, wire codecs, synchronous calls, asynchronous calls with what they
pass; proofs of the safety properties of all of them. Left:

1. The emit functions of `InstanceTable` composed with `CompletionBatch`: who frees an
   item that is refused by one of several ports.
2. Constructor, `dispose` and finalizer of the Dart class over `InstanceTable`, with
   `dispose()` inside a callback.
3. Typed data: when a view's finalizer runs against the buffer it shows.

Runs are kept few, one per question.
