# Verification of the mlir-aie pipeline

TLA+ models of the parts of mlir-aie whose correctness depends on concurrency,
ordering or bookkeeping that tests sample thinly, with TLC runs on small
instances and TLAPS proofs for all instances.

Run from this directory, e.g. `tlc -config PoolPath.cfg MCPoolPath.tla`
or `tlapm ObjectFifoPool_proofs.tla`. `PROJECT.json` lists the runs, the faults
each property was shown to detect, the source lines of each definition, the
hazards and the theorems.

## The system

mlir-aie compiles designs for AMD AI engine arrays: tiles with a core, a memory,
locks and DMA channels, joined by streams and driven by a controller that
executes a *runtime sequence*. The program logic that is worth a model is in these parts.

| Part | State | Operations | Hard behaviour |
| --- | --- | --- | --- |
| objectFifo pools after lowering (`AIEObjectFifoAllocate`, `-LowerCores`, `-LowerDMAs`) | a pair of counting locks per segment, rotating buffers, a held counter and rotation in each core, a descriptor chain in each DMA | acquire, release, descriptor steps | cores and DMAs run at the same time; windows, repeat counts, initial contents, segments |
| objectFifo split (`AIEObjectFifoSplit`) | depths, passes and roles of the pools a fifo becomes, and the routes between them | split a fifo, make the pools of a link | two pools, their DMAs and the stream have to behave as the one fifo the program names |
| objectFifo verifier (`AIEObjectFifoVerify`) | sums per loop and fifo | scan of every loop | the scan has to foresee a run |
| aiecc engine (`ExecutionEngine.h`, `Graph.h`) | ready queue, item states, counters, exclusive slot, failure | prepare, run and finish tasks; resume; write items to disk | threads, wake-ups, failures, key sets that become final |
| aiecc device cache (`DeviceCache.h`) | a directory per device: placed and linked form, ELFs; a lock file | lookup, load, store | processes without a common lock on reading; deaths and failing file operations between any two steps |
| compile cache (`cache/utils.py`, `jit/_object_cache.py`, `jit/_manifest.py`) | a file lock, a queue and a helper thread per call; an object and the manifest of its inputs | lock with timeout; fetch, compile, record | timeouts racing a late lock, abandoned threads, deaths, inputs that are edited |
| runtime BD ids and queue guards (`AIEAssignRuntimeSequenceBDIDs`, `DmaQueueModel.h`) | ids per tile, the pushes and tokens per channel, what is proved finished | configure, start, await, sync, free, reclaim, load_pdi | the array executes while the compiler can only deduce; ids in flight, tokens without names, bounded queues |
| dynamic BD pool (`AIELowerDynamicBDPool`, `TxnEncoding.h`) | a free list, an id carried beside each task | pop, push, carry through loops and conditionals | which names a task has, in this trip and the next |

How they interact: `--aie-objectfifo-split` turns fifos into pools, endpoints
and routes; `-verify` checks them; `-allocate`, `-lower-cores` and `-lower-dmas`
produce locks, core code and descriptor chains that then only meet at the locks
and buffers of a tile. Runtime sequences drive the shim and memory tile
channels at the other ends of the routes; the id pass and the queue analysis
share `DmaQueueModel`; sequences whose loops cannot be unrolled take their ids
from the dynamic pool instead. aiecc runs all of it as the edges of a graph,
hands items between edges in memory, and as files through `Item::asFile`, and
looks devices up in its cache; the Python front end keeps compiled kernels in a
cache of its own, under a file lock.

What makes each part correct:

- pools: no buffer segment is accessed from two sides; objects arrive in
  order, once (or Repeat times), and all of them; a pool is a bounded FIFO.
- a path of two pools: one bounded FIFO from the first filler to each last
  drainer; both ends stop at the same object, where the pools are of one depth.
- verifier: what it rejects loses objects with each trip; what it accepts loses no
  more than its acquires find held.
- engine: dependencies, the exclusive slot, no lost wake-up, no stall, no start
  after a failure, success only when all is built, a payload moved from is not
  read again.
- BD ids: no descriptor is reprogrammed under a running task without a warning;
  proofs of completion are true; no push is dropped; releases touch only their
  own ids; the sequence does not block, unless a task needs a push still to come.
- dynamic pool: no start runs with an id that was given back; the free list is
  exactly the ids not in use.
- device cache: an entry that loads is never touched again; what a build reads
  in place stays; a store that reports success left a whole entry.
- compile cache: the lock always has somebody to release it; what a fetch
  copies out is whole and, unless its input was edited while its build was at work, of a
  content the input had meanwhile.

`PROJECT.json` also lists the parts without a model and why: sequential searches
(routing, placement, buffer addresses), pattern rewrites (vector and register
lowering), emitters (targets), thin wrappers (runtime library, bindings).

## Modules

| Module | Models | Extends |
| --- | --- | --- |
| `ObjectFifoPool` | one pool, its cores and DMAs | |
| `ObjectFifoChannel` | what a pool, or a path of pools, promises | |
| `PoolPath` | a fifo from a core to a link: two pools and a stream | `ObjectFifoPool` (near pool), an instance of it (far pool) |
| `ObjectFifoPool_proofs` | safety of all pools | `ObjectFifoPool` |
| `PoolPath_proofs` | safety of all paths, refinement of a channel | `PoolPath`, `ObjectFifoPool_proofs` |
| `ObjectFifoVerify` | the over-release scan next to the loop it scans | |
| `ObjectFifoVerify_proofs` | what the scan's verdict means, for all bodies | `ObjectFifoVerify` |
| `AieccScheduler` | scheduler and workers on a graph | |
| `AieccDataflow` | what the engine promises | |
| `AieccScheduler_proofs` | safety and refinement for all graphs | `AieccScheduler` |
| `AieccItemFile` | `Item::asFile` under concurrent calls | |
| `DmaQueueModel` | the queue state shared by the two models below, and when it covers a queue | |
| `RuntimeBdIds` | the BD id pass in lockstep with the DMA | `DmaQueueModel` |
| `RuntimeBdIdsInv` | the inductive invariant of the pass and the array | `RuntimeBdIds` |
| `RuntimeQueueGuard` | the queue analysis over loops and conditionals, and a run of the guarded sequence; its inductive invariant | `DmaQueueModel` |
| `RuntimeSequence_proofs` | ids and reclaiming, queues, proofs of completion and BDs, and the queue guard, for all sequences | `RuntimeBdIdsInv`, `RuntimeQueueGuard` |
| `DynamicBdPool` | sequences with ids taken at run time: written, lowered, run | |
| `DynamicBdPool_proofs` | the free list and the starts for all sequences | `DynamicBdPool` |
| `DeviceCache` | builds that meet at one entry | |
| `DeviceCache_proofs` | safety of the entry for any number of builds | `DeviceCache` |
| `CacheFileLock` | `file_lock` with its helper threads | |
| `KernelObjectCache` | fetches of one shared kernel object | `CacheFileLock` |
| `KernelObjectCache_proofs` | safety of the lock and of the entry | `KernelObjectCache` |
| `MC*` | constants for TLC | the module named |

Each module has definitions commented *Fault*: plausible mistakes in the code
behind the definition below them, used to show that a property would notice.

### ObjectFifoPool

A pool has Depth buffers and Segments with one produce and one consume lock
each, initialised as `allocateLocks` does (`ProduceUnits`, `ConsumeUnits`).
Endpoints fill or drain some segments and are cores or DMAs. A core's acquire is
the code `LowerAcquire` emits: compute the shortfall from the held counter
(`Delta`), take it from the lock of each segment in offset order
(`CoreTakeLock`, one step per lock), add it to the counter, read the rotation. A release
(`CoreRelease`, `CoreGiveLock`) gives back `Returned` units per lock and turns
the rotation. A DMA goes through its chain: wait for the lock, move the segment,
release the other lock; the draining end has Repeat copies of each descriptor,
the filling end one for the whole batch. `data` holds the *number* of the
object in each segment, which is all the properties tell apart. `own` is the
program's view (the objects the core was given), `held` is the counter in the
lowered code; they differ exactly where the lowering is wrong.

Abstractions: an object is written at its release (the earliest time somebody
else could see it), a transfer is one step, sizes, layouts and padding are left
out. Assumed: one filler and one drainer per segment (checked by
`--aie-objectfifo-verify`) and acquires up to the depth (checked in
`LowerAcquire`).

### PoolPath

What `--aie-objectfifo-split` makes of a fifo whose ends are apart, when it feeds
a link. The near pool is the `ObjectFifoPool` the module extends: a core fills
it and `Sender`, a DMA, drains it. The far pool is an instance of the same module:
`Receiver` fills it from the stream and further DMAs drain segments of it.
`ObjectCount` is `objectCountOn`, `DrainTotal` and `FillTotal` are the passes
`createDmaEndpoint` gives the ends under an iter_count. `Send` and `Receive` are
DMA steps of `ObjectFifoPool` with the stream between them: the far pool has no
numbering of its own, it stores the number the stream brings, so that a lost,
doubled or overtaking object is visible. `InPath` is the refinement mapping to
`ObjectFifoChannel`, per far segment, in arrivals: an object sent Repeat times
is as many arrivals. `EndsCarryTheSame` is what the comment in `createDmaEndpoint` says
of the two ends, in both directions. It is true of pools of one depth, as in the run,
and false of others: the near pool of a fifo is sized by its largest acquire plus
one, the far pool with two buffers, and then one end is through with an object still to
send or to receive (`EndsAgree` and `EndsDisagree` prove that this is the exact border).

External: the stream switch, a bounded queue that keeps order. Both DMAs move
whole objects or segments; the stream's flow control is its bound. Left out:
joins, broadcasts to several pools, fifos in shared memory, shim ends.

### ObjectFifoVerify

A core is the sequence of its accesses to one fifo and a nest of loops over it,
each from a first to a last access, inside, behind or around each other. `Accepted` is
the scan: it visits every loop (`Rejected`), sums the operands of the accesses that no
closer loop is around (`DirectlyIn`), and passes over a loop that has others in a nested
loop (`SpansNestedLoop`). Next to it the core runs, with the counter of `ObjectFifoPool`
(an acquire raises it to its operand, a release lowers it), through every loop any number of
times or never, until the counter is below zero. A rejected core runs too, as
`skip-verify` allows it to. One loop of the nest, any, is watched: `trips`, `entry` and
`found` are the trips it made since it was entered, what was held then, and what the
acquires directly in it have found held since.

The scan is an approximation, and the properties say how good it is. A rejected loop,
at whatever depth, loses an object per trip, so that it never makes more trips than there
were objects held as it was entered (`RejectedUnderflows`). That is less than the comment on
the pass claims ('underflows ... whatever the trip count'): a core that acquires two
before a loop that releases one makes two trips without an underflow. An accepted loop loses objects only where an acquire finds some held:
operands are summed while an acquire names a total, and `AcceptedStaysWhole` says that
what was found is all that can be missing. A loop with accesses in a nested loop is
outside the scan and of that property; the nested loops are not.

Left out: conditionals (both arms count for the scan), a `scf.while` that does not run
forever (no loop to the scan), two loops over exactly the same accesses, and
accesses to other fifos, which the sums keep apart.

### AieccScheduler and AieccDataflow

Edges are numbered in topological order; `Fan` edges have a task per key,
others one. `Rescan` is the fixpoint of `rescan()`: open edges whose inputs'
keys are final, finish empty ones, enqueue what may run. A worker's steps are the stretches of
`worker()` between which `mtx` is free: `Pick`, `Rest` (wait, or give up a
stalled build), `Leave`, and, on return of a task, `Succeed` or `FailTask`; a
worker that completes a task keeps the mutex into its next look at the queue
(`holder`), so no other thread intervenes there. `cv.wait` gives up the mutex
and sleeps in one step, and may wake spuriously. `Preload` and `PreloadFails`
are the loading of restored edges.

Abstractions: the order in the ready queue (`pickTask` takes the first that
qualifies; the model any, which includes it), task contents, timing. An alias
forwards to its last input, as filters and rekeys do; `peano-linked`, which may
forward to its first, has no input that anyone takes. `prepare()`
of a fan-out edge cannot fail in the code's two kinds (map, bundle): a missing
key fails the item's task (`KeysAgree`). `AieccDataflow` is the promise: tasks with
needs, run once, exclusive ones alone, none after a failure; needs are stated
from the graph alone, not from the engine's state.

### AieccItemFile

The steps of `Item::asFile`: the check without the mutex, the check with it,
opening (which truncates), writing into the stream's buffer and setting the
flag, and the return that flushes and releases. `how` is a history variable: how the
caller came by the path.

### DmaQueueModel, RuntimeBdIds and RuntimeQueueGuard

`RuntimeBdIds` runs compiler and array together. The pass walks straight-line
code, so its state at an operation is a function of the operations before it
(and of the starts still to come, which `isStartedAfter` asks for: a
task's starts are fixed when it is configured, in `left`). Each host step is
therefore the pass's work *and* the effect of the compiled operation: an
operation is chosen (`Choose...`), then executes when the poll or token it waits
for is there. A run of the model is a program plus an execution of it, and TLC
explores all of both.

`TakeId` allocates (pinned ids, the lowest reachable one, parity on mem tiles),
`ReclaimProven`/`ReclaimPolled` are `reclaimFor`, `Start` is the queue guard and
push, `Await`/`Sync` consume *the channel's oldest* token and release what is
complete, `Free` releases by hand, `Refuse` are the diagnostics that reject the
sequence. The channel (`Run`, `Complete`) takes the head of its queue, runs it,
and produces a token when asked. `Waiting` excludes the running task, as the
hardware's queue size does. The pass tracks what it believes finished
(`knownComplete`, `pollProven`, `finished`), and the properties compare the
beliefs with the channel.

`Load` is `load_pdi`: the array's channels, queues, tokens and registers are
reset, and so is what the pass knows of them; tasks configured before stay
released (`unloaded`), and the static ids are those of the device that was loaded
(`named`), or unknown (`opaque`), after which only pinned ids can be had. A load
drops the releases that were due (`pendingAwaitReleases`) and leaves the pushes
and the token accounting of `verifyChannelUsage` alone, as the code does; an await after a load may then wait for a token the
load has lost, which depends on what the device does with a running transfer.
`OperationsReturn` therefore speaks of the sequence up to a load.

Not in the model: several tiles or sequences, tokens from other operations, id
alignment for repeat parameters, `warn-unsafe-bd-reuse` off. An operation that the
pass rejects at once (awaiting with no token due) is not chosen.

`RuntimeQueueGuard` has the part of the same analysis that handles control flow
(`guardSequenceQueueDepth`), for one channel, as the code takes each by itself.
A sequence is what the code visits for the channel: its operations, each at a place, with
the places control may go to next (`next`) and, for an operation with a region, those
inside (`body`). A loop whose constant bounds allow no trip only goes on.
The code walks the regions recursively and, at a loop, carries each
header state through the body by itself until no new one appears. No state
influences another, so what it computes is which pairs of a place and a state are
reached, and that is what the model computes: `Analyze` adds the successors of the
pairs it has, `Guard` follows when there are none, marks the pushes that a state
overflows (`Overflowing`) and joins the states at the end (`ExitState`). A
"while" stands for every operation whose regions `unknownRegion` handles: they are not
followed, their pushes all get a poll, and the queue is taken to be full with
its tokens forgotten. A controller then executes the guarded
sequence on the channel and takes any path. The analysis starts with an empty
queue (its callers pass a fresh `DmaQueueModel`). Not in the model: guards that cannot be
emitted since the target has no register to poll, operations on other channels.

### DynamicBdPool

A behaviour writes a sequence operation by operation (`Write...`: configure, start,
free, one loop with or without a carried task, one conditional, in either
nesting), lowers it (`Lower`), and runs it when the pass accepts it. `Accepted` is
the pass's verdict: no conditional that yields a task from one arm only
(`DivergentYield`), no `StartAfterFree`, which is `verifyNoStartAfterFree` with
`AliasesAfter` and its two rules (`LaterInBlock`, `NextTrip`). At run time a name
carries a task and, beside it, the id the pass threaded (`HandOn`);
the properties compare the two: `task` is which task the name means, `ids` which
id the generated builder would push. `Configure` and `Free` are
`bd_pool_pop` and `bd_pool_push` on the free list, `FreshPool` the prologue
(`bd_pool_init_range`, then `bd_pool_reserve` of the static ids). The free list is
an array of `kMaxBDsPerTile`, to which no pool has more ids (`bd_pool_init_range`
cuts it off there), and a push to a full one is dropped, silently.

Left out: chains of several BDs and the checks that their lengths and channels
agree, awaits (they neither pop nor push), pinned ids and `scf.while` (rejected
at once), deeper nesting, frees of a task whose transfer still runs (the pass does
not look at completion at all). The pass description in `AIEXPasses.td` still
speaks of awaits that return ids and of chains being diagnosed; the code
does neither, and the model follows the code.

### DeviceCache

One entry of the cache and any number of builds, each a process: `Lookup` and
`Load` (file by file, without the lock), use of the ELFs in place, or `Compile` and a
store: `TakeLock` (which never waits), `Recheck`, `CreateTmp`, `WriteTmp`,
`Clear` (file by file), `Rename`, `Cleanup`. Each file operation is one step
and may fail; a build may die after any of them, its lock with it. The entry starts as
anything: files absent, damaged or good. A form is damaged when it does not parse; an
ELF is only looked for, so a damaged ELF loads, which is what the code checks.
An absent and an empty directory are one state. The key is fixed: which inputs it
digests, and that they are read again by the link, is outside.

### CacheFileLock and KernelObjectCache

`CacheFileLock` is `file_lock` on POSIX: one try, then a helper thread blocked in
`flock` that hands the lock over through a queue, a timeout, and the
word (`cancelled`) by which a call that gave up makes its thread drop what it
wins. `TimeOut` and `Cancel` are apart because the thread may act in between.
`KernelObjectCache` runs `fetch` under this lock: check the object against its manifest,
remove, compile, stat the input, digest it, record, copy out. The step of the
lock and the step of the fetch happen together where the code has them in
one statement.

The input is a header that the compiler looks up in the include directories (`Dirs`, in
the order of the search: `Found`). A file has a content, which stands for its digest, and
a stamp, which stands for its size and modification time. `record` takes them at two
moments, both after the compile has read the file: `StatInput` and `Record`. The digest is
the one the build already has of the path, when another of its kernels was recorded with the
same header (`digests`, filled by `DigestElsewhere` at any moment), else that of the file as
it is. `Valid` trusts an equal stamp and digests the file otherwise; a file that is gone is a
miss. A record that cannot know its input says so and is not checked later (`Incomplete`).

The author saves, removes, reverts or brings back the header of any directory at any moment
(`Edit`). Two kinds of edits are documented as limits: a header that comes up before a
recorded one in the search (`Shadows`), and a content saved under a stamp that was used
already (`KeepsStamp`). `limit` remembers one, and the author rests after it, since
the properties say nothing from there on. `steady` says of each build that there was no
edit since it first read the header, `settled` that the entry was recorded by such a build;
`since` and `result` are what a fetch may copy out and what it did.

`FetchedIsCurrent`: an entry that was recorded by a settled build is never passed on
once it is stale, whoever edits, dies or fails afterwards. An edit between the first
reading of a build and its record is not caught: stamp, digest and object are then of
different moments, and a later fetch may take the old object for current. The
documentation names no such path; the run ObjectCacheStale shows it.

Left out: the cache of whole designs around it, the Windows retry loop, an
interrupt during the wait for the queue, several inputs per object, declared sources
that are missing (which are left out of the record), and a compiler that goes on writing
after the process that started it has died.

## Runs

| Run | Asks | Bounds |
| --- | --- | --- |
| PoolPath | does a sliding window keep core and DMA apart; order and progress under an iter_count; refinement of one FIFO per segment across two pools and a stream; do the ends carry the same; the inductive invariant | near pool of 2, both filled at the start, acquires up to 2, 2 objects written, 2 passes; far pool of 2 buffers and 2 segments, repeat 2; a stream of 1 |
| SchedBuild | dependencies, exclusive slot, taken inputs, restored edges that fail, aliases, chained empty fan-outs, failures anywhere, what a success has built, the end of the build; the inductive invariant | 14 edges, all of which may fail, 2 keys, 3 threads |
| VerifyLoop | the scan against the run, all cores | 4 accesses, operands 1..2, 2 loops, 4 trips of the watched loop |
| Bd | overflow, proofs of completion, ids in flight, ownership, reclaiming and blocking, with a load of a known or an unknown device anywhere; the inductive invariant | 2 channels that reach half of the ids each, 3 tasks started up to twice, 4 ids, one static, another static in the loaded device, pins, chains of 2, queue depth 2; tasks that need none, one or two later pushes |
| QueueGuard | is any push lost, and is the caller told enough, with loops, conditionals and whiles | up to 2 operations before a region; in it up to 2, or 1 and a nested loop or conditional of 1; after it 1, or 2 pushes; depth 2, 3 trips |
| DynamicBdPool | ids and tasks stay together and the free list exact, on all paths of all sequences | a loop of up to 2 trips and a conditional, 2 configures, 2 starts or frees, 4 ids, 1 static, a free list of 4 |
| DeviceCache | hits keep their ELFs, whole entries stay, stores are whole, a denied lock costs nothing, under failures and deaths; the inductive invariant | 3 builds (symmetric), 2 ELFs, any initial entry |
| ObjectCache | is what is fetched current and whole, has the lock a keeper, do calls return, does the lock come free; the inductive invariant | 2 calls, 2 contents, 1 directory, 1 edit, any initial entry |

Why the bounds are enough to be interesting: a pool wraps around at its depth,
and what is drained is twice what it holds, so that every relation of window and
chain occurs; objects that leave twice in two segments keep near pool,
stream and far pool out of step; three threads, and three builds, allow one that
works, one that waits or is denied, and one that fails; ids run out with one task more
than ids; a queue of depth two has a head, a next and an overflow; two starts
or frees and two configures are the least with which an id is given back, handed on
and used; two calls reach every race of a timeout with a late lock, since a
third could only wait. The runs of a module together fire all its actions.
In SchedBuild an edge really takes its input (9 from 8), a filter (10) forwards the
result and a bundle (12) reads it, beside two edges that ask in vain. One edit,
after an entry of any content recorded at the same or an earlier stamp, makes an entry stale,
brings an older content back, or falls between two steps of a build; the second one, in
ObjectCacheStale, does both in turn. `FetchesAreCurrent` is proved for any number of edits.

Modelled and covered by the proofs but exercised by no run: output paths that collide,
inputs of a bundle that disagree on their keys, a core that drains or works several segments,
and headers in several directories.

`CHECK_DEADLOCK FALSE` is set where the program really stops: runtime sequences
may end after any operation or block on a token (`OperationsReturn` is about
that), and the processes of the cache models end. Everywhere else deadlock
is checked and an explicit final step (`Rest`, `Ended`) says where stopping is
legitimate.

### Runs that show a disagreement

| Run | Shows |
| --- | --- |
| ItemFileShared | the unlocked check sees `fileWritten` before the stream is flushed |
| ObjectCacheStale | an edit between the stat and the digest of a record makes a stale object valid, on neither of the two paths documented |
| BdDoubleFree | freeing a task twice after its id was handed on frees the id of another task |
| DynamicStartAfterFree | a task that goes by two names can be freed by the one and started by the other, later in the same block: the check follows names forward only, and across trips only a loop's own arguments |

`StartsOwnIds`, which the DynamicBdPool run checks and `StartsOwn` proves, says where
that check catches every such start: when each task goes by one name at a time (`OneNameEach`).

Two comments were found too strong and have no run of their own: that both ends carry
the same number of objects (`AIEObjectFifoSplit.cpp:242`, see PoolPath above), and that a
rejected loop underflows whatever the trip count (`AIEObjectFifoVerify.cpp:90`, see
ObjectFifoVerify).

## Fairness

- A DMA channel runs by itself: weak fairness of its steps.
- A core's program is a loop that comes back to its acquires and its releases:
  weak fairness of acquires and of lock steps, strong fairness of `CoreRelease`,
  which other acquires may disable while an acquire is under way.
- The operating system runs every thread that can run, tools terminate, and a
  mutex is handed on: weak fairness of each worker.
- A path (`PathFairness`): the same for both pools; sending and receiving are DMA
  steps.
- A call of the compile cache that has begun goes on, its timeout fires, a
  compile ends, and a thread that won the lock runs on. No fairness for the
  thread's `flock` to return: the timeout is what bounds the wait.
- The controller executes its instruction stream: weak fairness of `Execute`. It
  need not go on with a further operation (`Choose`).
- A channel of the array takes tasks from its queue by itself, and completes the one that
  runs *unless that needs a push still to come* (`HeldUp`): a task may get its data through
  a core from a push later in the sequence, which the compiler cannot see. `Needs` says
  how many later pushes a task of each shape needs. A poll or an await then
  never returns, as the pass says of itself (`AIEAssignRuntimeSequenceBDIDs.cpp:34`, `:663`),
  and `OperationsReturn` excuses exactly the operations that wait on a channel held up so.

`Terminates`, `PathDrained`, `OperationsReturn`, `CallsReturn` and `LockComesFree`
rest on these. `DeviceCache` and `DynamicBdPool` have safety properties only.

## Proofs

`ObjectFifoPool_proofs`, from `PoolAssumption` and, as hypothesis of each theorem,
`Regime`: a core of a pool with a repeat count acquires only when it holds
nothing, and a DMA fills a pool that starts empty or full. Both halves are
needed: with a repeat count a window's acquire takes objects where the lock counts
units, and a DMA starts at buffer 0 wherever the contents end. The programming
guide rules the first out; the second follows from the split pass, whose initial
values cover all objects of the pool or none. `PoolInv` is `TypeOK`, `StepShape` (where a step can be),
`HeldCountsObjects` (the counter is the program's window in lock units),
`LocksCount` (each lock is capacity minus taken plus given) and `QueuedContents`
(each written object is where its number says).
- `TypeCorrect`: `held` and the locks stay natural numbers. Not inductive alone:
  that a release does not underflow needs `HeldCountsObjects`.
- `AccessExclusive` (`NoConflict`): `LocksCount` bounds the distance of filler and drainer
  by the depth; two positions less than Depth apart are in different buffers (`ModDistinct`).
- `ObjectsInOrder` (`InOrder`): what a drainer may touch lies in the interval
  `QueuedContents` speaks about.

`PoolPath_proofs`, from `PathAssumption` and `Regime`, for all depths, repeat counts,
segments and stream lengths. `NearIsPool`: a path is a behaviour of its near
pool, so the theorems above hold of it. `PathSound` (`FarSound`): the
theorems' step lemmas are used a second time, on the instance; what remains is
that the object the stream brings is the one the far pool's filler would have
numbered. That is `StreamInOrder` (the stream holds exactly the arrivals between `Taken`
and `Moved`, and no segment of the far pool is ahead of `Moved`), which every step of
the two DMAs preserves.
- `PathImplements` (`ImplementsPath`): the invariant gives `InPath` a closed form,
  the arrivals after the last one retired up to the last one published
  (`PathShape`): the far pool holds them up to what is written
  (`FarNumbers`), the stream up to what has left (`StreamNumbers`), the near
  pool the rest (`NearNumbers`), each by its pool's `QueuedContents`. The three
  windows add up to the channel's depth. A step leaves one of the two pools alone
  (`OnePool`) and takes nothing back (`DoneGrows`), so it publishes or retires.
- `EndsAgree` (`EndsCarryTheSame`), where the pools are of one depth, and
  `EndsDisagree`, where they are not: the sender stops after `DrainTotal` objects
  (`SenderWithin`), the receiver after `FillTotal` arrivals, and the stream has
  exactly what is between them; a product of depth, passes and repeats is the same
  on both sides only if the depths are.

`DeviceCache_proofs`, for any number of builds and ELFs. `EntryInv` says who
relies on what: a build that holds the lock past its second look has seen damage
that only it can repair (`StoresOverDamage`), a load that has passed files of a
damaged entry still has the damage ahead (`LoadMeetsDamage`), who hit, stored or
was kept out finds the entry whole (`RelyOnWhole`), and a lock is denied for a reason
(`DeniedForAReason`). The four safety properties and `WholeEntriesStay` follow.

`KernelObjectCache_proofs`, for any number of calls, directories, contents and edits,
with no assumption on when the author edits. `LockInv` says from each side who has the lock;
a step of a fetch is a step of the lock or leaves it (`StepOfLock`), so the invariant
carries over. `StoreInv` has two halves. `RecordedIsWhole` (no manifest from the removal to
the record) gives `FetchedIsWhole`. `KnowsItsInput` (what a steady build has read and digested
is still what the header is) makes the record of a settled entry true when it is written;
`EntryKnowsItsInput` keeps it so: until an edit at a limit, a file with the recorded stamp has
the recorded content, and no file comes before it in the search. A hit on either ground,
stamp or digest, then copies out an object of the content the header has, which
`KnowsItsTime` puts in `since` (`FetchedIsCurrent`).

`AieccScheduler_proofs`, from `GraphShape`, `KeysFinite`, `PathsOfItems` (an edge
without items has no paths) and `TakersOwn` (an edge that takes its input does not
forward to it: of the edges that set `aliasSource`, none calls `takesInput()`), for any
graph, threads and set of faulty edges. Every safety property of the run is proved.
`IndInv` is `TypeOK`, `ExclusiveAlone`,
`CountersAgree`, `NoLostWakeup`, `OnePlace` (a task is in the queue, with
one thread, or done), `ResultsInPlace` (what an enqueued task reads is complete)
and `Phases`.
- `ExclusiveTasksAlone`, `WakeupsNotLost`, `FailureStopsBuild`.
- `EngineImplementsDataflow`: each step is `Start`, `Finish`, `Fail`, `Abort` or a
  stutter of `AieccDataflow`. `ResultsInPlace` gives the guard of `Start`,
  `OnePlace` that no task starts twice, `CountersAgree` that `Abort`, taken
  when `inFlight = 0`, finds nothing running.
- `BuildInvariance`: `BuildInv` adds `Progress` and `Truthful`. `Progress` says
  that rescan leaves nothing behind: what is runnable was enqueued, what was
  enqueued is in one place, what may open is open, and an edge whose tasks are done
  is finished. It needs `TasksCounted`: the item counter meets the number of keys
  exactly when the last task is done.
- `NeverRunsDry` (`NeverStalls`): take the least edge that is not finished. Its inputs are
  finished, so it is open, its tasks were enqueued, and with the queue empty
  and nothing in flight they are done, so it is finished.
- `KeysFinalWhenOpened` (`KeysAreFinal`): the least edge of those a rescan opens whose keys
  may still change has inputs whose keys cannot.
- `SuccessMeansComplete` (`SuccessIsComplete`), from `Truthful`: threads leave only when the
  build is over, an item that is done had its key everywhere, and `recordPaths`
  keeps the paths of finished edges apart.
- `TakenNotReadAgain` (`TakenIsNotRead`): a node that forwards to a taken payload would
  be its second reader, through any number of aliases.

`Reached`, `KeyMakers` and `PayloadOf` are recursive functions. The proofs
unfold them by showing that their equations have a solution: the least relation
closed under the equation (`ReachedUnfolds`, `KeyMakersUnfold`, `PayloadUnfolds`).
What needs induction is put as a least counterexample (`LeastOf`).

`RuntimeSequence_proofs` on `RuntimeBdIds`, from `BdAssumption` and
`DepthAssumption`, for any tile, shapes of tasks, queue depth and length of
sequence. `BdInv` (in `RuntimeBdIdsInv`) is an invariant without further
hypotheses (`BdInvariant`); its parts that need `~DoubleReleases` or
`EnforceQueueDepth` say so, since without them the code promises less
(the run BdDoubleFree, and the warning of a push that may overflow).
- `IdsStay` (`OwnersKeepIds`), when no task is freed twice: what an await is
  still to release was not freed by hand (`DueOnce`), so only its owner gives an id
  back (`IdsApart`).
- `ReclaimGoesOn` (`GivesUpOnlyWhenStuck`), always: a task that was started is known
  to be complete, or has a push not known to be finished (`Accounted`), so
  `reclaimFor` finds it.
- `NoPushIsDropped`, `ProofsAreSound` (`ProvenIsFinished`), while the queue depth is
  enforced. Both sides lose their oldest pushes first, so the queue is compared
  with `model` and with `pushes` from the newest push backwards (`Models`,
  `Records`); the tokens produced and those the queue still owes never exceed
  what the pass counts. Hence the pushes a token retires have left the queue
  (`RecordsAwait`).
- `BdsStayIntact` (`BdsIntact`), under both. An id that is handed out is no live
  task's. If it is that of a task in flight, a free gave it away and it is noted in
  `freedInFlight` (`FreedNoted`); as the task is not complete nothing proves it so, and
  the pass warns. What an await, a reclaim or a load releases is through
  (`ReleasedDone`, `VictimIsDone`).

`RuntimeSequence_proofs` on `RuntimeQueueGuard`, from `DepthAssumption` and
`SequencesAssumption` (operations go on to places of the sequence; a "while" is left
through itself), for any queue depth, and any sequences, regions and number of trips.
`GuardInv` (`GuardInvariant`) says that the analysis is closed under its successors
once it is through (`Analyzed`) and covers the run (`Covered`): either a state it has
for the controller's place covers the queue (`Followed`), in the sense of `Models`,
the same as above, or control is in a region the analysis did not follow (`InRegion`) and a
state it has before the region does if there are no pushes in it; with pushes the queue
is only known not to overflow. The lemmas on `Models` serve both
models: what an await, a push or a free slot makes of a queue is covered by what
it makes of the state (`FollowOn`), and a state covers what a channel leaves when it
completes tasks (`ModelsFewer`).
- `GuardedPushesArrive` (`NoPushLost`): a push without a poll stands where no state
  overflows, one of those covers the queue, so there is room (`PushHasRoom`). Pushes in
  a region that is not followed all have a poll.
- `ExitStateHolds` (`ExitCovers`): a state at the end covers the queue, and the exit
  state covers what any of the states covers (`ExitStateCovers`): it is the only one, or
  at least as long as each, without credit for tokens.

`ObjectFifoVerify_proofs`, from `CoreAssumption`, for cores of any length, operands of
any size, any nest of loops and any number of trips. `LoopInv` ties the counter to the
scan's own partial sums of the watched loop: `Gain(n)` is what its first n accesses take
beyond what they give back. A loop without accesses in a nested loop is worked from its first
access to its last (`ActiveNest`), so each step is one of the sums. Two bounds are
kept, one from above and one from below.
- `RejectedBodiesUnderflow` (`RejectedUnderflows`): an acquire raises the counter by
  no more than its operand, so `held` stays at or below what was held at entry,
  less an object for each completed trip, plus the gain of this one
  (`RejectedLoses`); a rejected loop's gain over a trip is below zero. This holds of each loop
  of the nest, since any of them may be the watched one.
- `AcceptedBodiesStayWhole` (`AcceptedStaysWhole`): an acquire raises the counter by its
  operand less what it finds held, so `held` and `found` together are at or above what
  was held at entry plus the gain (`FoundIsMissing`).

The sums are a recursive function; that it has a value for every body is
`PartialSums`.

`DynamicBdPool_proofs`, from `IdsAssumption` and `NoneAssumption`, for any pool, any
number of trips and sequences of any length with a loop and a conditional.
- `PoolExact` (`PoolIsExact`). The pool is exact (`PoolParts`) as long as each push
  brings back the id of the task it frees: the id beside a task is its own (`Own`),
  and a name that is pushed has a task at all (`Assigned`). The latter is a claim about paths: what
  is defined where an operation stands (`UsesDefined`, by scopes) has been given a task
  on every path there. `Live` says that the blocks around a definition
  have not ended, `TextInv` what the text of a sequence is like (blocks nest, an arm that
  ends in the loop began there), and each jump keeps what is live (`LiveOn`, `LiveOver`,
  `LiveBack`); a conditional's result needs both arms to yield (`Lowered`, from
  `DivergentYield`). A pool that lacks the id of an unfreed task has room for it
  (`PoolHasRoom`), so no push is dropped.
- `StartsOwn` (`StartsOwnIds`). Two facts go together (`StartInv`). A name is held where
  it has a task and control may still come to a use of it before it is defined anew
  (`Held`). While each task goes by one name at a time, no two names that are held
  stand for the same task (`OneHolder`); and if the task of a held name was freed, some
  free of the text reached that name by `AliasesAfter` and lies where
  `verifyNoStartAfterFree` looks for it from the place control has come to, earlier in
  the block or in the loop around both (`FreesAreFound`, `Behind`). A start of a freed
  task is then one the pass has rejected. A step of control, jumps included, keeps
  both: a name that is held after it was held before or is the one defined
  (`HeldEarlier`), the name that hands its task on is held no more (`HandedOver`), and
  what was found is found from the next place too (`BehindOn`, `BehindHandOn`). These
  are facts about positions: a finished text has its loop from one place to another,
  its arms between three, and five ways to lie to each other (`Shape`). `OneHolder` is
  what fails in the run DynamicStartAfterFree. That no other task has the id either is
  `PoolExact`'s part, and it is for that part that no task may be freed twice.

## Only model-checked

Liveness throughout (`PathDrained`, `Terminates`, `OperationsReturn`,
`CallsReturn`, `LockComesFree`): outside the prover.
`AieccItemFile` has only the run that contradicts a comment. That the analysis of
`RuntimeQueueGuard` comes to an end, which rests on its states being finitely many, is
not stated; on the run's sequences it does, since each step adds to what is reached
and the run is finite. Every invariant
and action property of the passing runs is a theorem.

## Not modelled

- Joins, broadcasts to several pools, shared memory fifos and shim ends of
  `--aie-objectfifo-split`; unrolling, liveness and erasing of accesses, which
  rewrite the IR once and keep no state.
- Binary locks of the first device generation: a second lock discipline that would
  refine `ObjectFifoChannel` the same way.
- Lock, buffer and static descriptor id assignment: sequential searches whose result is
  checked by the code that uses it.
- Several runtime sequences on one array: tokens left over, re-arm and channel
  reset (`AIEVerifyRuntimeRearm`, `AIELowerDmaChannelReset`).
- Routing, placement, buffer addresses, register and vector lowering, emitters,
  bindings: searches and pattern rewrites without state that lives on, most of
  the repository's lines. The largest files of the examples are tables of weights.
- The host runtime in Python: single-threaded bookkeeping over driver calls.

## What could follow

In order of value: a second sequence in `RuntimeBdIds`, with re-arm;
chains and deeper nesting in `DynamicBdPool`; joins in `PoolPath`; binary locks.
