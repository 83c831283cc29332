# The CUDA provider's executor in TLA+

This directory is a verification development of `Magnetar-provider-CUDA`: TLA+
modules translated from the Rust and CUDA sources, TLC configurations that
check them on small instances, and TLAPS proofs of the properties that matter
most, for every value of the constants. `PROJECT.json` maps every definition to
the lines it stands for, and lists the runs, mutants, hazards, findings and
theorems.

Checking it:

    tlc -workers 2 -config TensorLedger.cfg MCTensorLedger
    tlc -workers 2 -config StepCapture_rows.cfg MCStepCapture
    tlc -workers 2 -config StepCapture_ids.cfg MCStepCapture
    tlc -workers 2 -config KernelExecutions.cfg MCKernelExecutions
    tlc -workers 2 -config DispatchThreads.cfg MCDispatchThreads
    tlc -workers 2 -config DeviceKernels.cfg MCDeviceKernels
    tlapm TensorLedgerProofs.tla
    tlapm StepCaptureProofs.tla
    tlapm KernelExecutionsProofs.tla
    tlapm DispatchThreadsProofs.tla
    tlapm NaturalFacts.tla
    tlapm AttentionCombineProofs.tla
    tlapm HalfPrecisionProofs.tla
    tlapm DeviceKernelsProofs.tla

and, for the six recorded divergences, `TensorLedger_claims.cfg` (module
`TensorLedger`), `StepCapture_stale_ids.cfg` and `StepCapture_format.cfg`
(module `MCStepCapture`), `DispatchThreads_back.cfg`,
`DispatchThreads_locks.cfg` and `DispatchThreads_scratch.cfg` (module
`MCDispatchThreads`), each of which ends in the counterexample.

## 1. Inventory

The program lets Magnetar's runtime dispatch tensor kernels on an NVIDIA GPU.
Two types carry its logic. `CudaExecutor` (`src/executor.rs`) owns a table of
device tensors by resource id and answers the runtime's contracts.
`CudaKernels` (`src/kernels.rs`) owns the stream, the loaded kernels of
`kernels.cu`, and the state that outlives one launch. Both are shared by
threads behind mutexes that are taken and dropped many times within one
dispatch.

### Components

**Device tensor table and memory admission** (`executor.rs`, modelled in
`TensorLedger`, partly; its threads in `DispatchThreads`).
State: `storage`, the buffers by resource id; `resource_allocations`, the
allocation the executor admitted for an id; and, outside the repository, the
Memory Manager's allocations and residency records. In `CudaKernels`, the
`offered_output` slot.
Operations: host writes (plain, zeroed, weights kept as bfloat16 bits,
admitted), copies within and between devices, releases (plain, admitted), and
a dispatch: admit the output, expand compact inputs the kernel cannot read,
take the output's old buffer out of the table and offer it as the output
allocation, run, reclaim the buffer if unused, store the result, settle the
ledgers. `kv-write` takes another path, in place.
Hard: a dispatch that fails at any of these points; an output that is also an
input; the same weight at two positions; an allocation admitted by the caller
instead of the executor; a second thread's dispatch between any two of these
points.
Correct when: no allocation leaks and none is released twice; a caller's
residency record is never overwritten; a failed dispatch keeps every value; a
dispatch is atomic to the caller, who reads between its calls (another thread
sees a lent buffer missing); a kernel finds its inputs, in the format it reads.

**Threads sharing an executor** (`executor.rs`, `kernels.rs`; modelled in
`DispatchThreads`, partly).
State they share besides the table: the `offered_output` slot, the
`embedding_flag` and the scratch buffers on the Device, the `capture` in
progress, and the locks, of which four are held across other steps.
Operations: dispatches, embedding lookups, kernels of two launches, captures
begun, ended and aborted, replays.
Hard: every one of these drops and takes locks midway; the storage lock is held
across a whole kernel call, but not across a graph's launch; two paths take two
locks in opposite orders.
Correct when: a buffer has one owner at any time; a lookup's answer is about its
own ids; a kernel's second launch reads what its first one wrote; a failed
dispatch puts back what it took; nobody waits for ever.

**Step capture and replay** (`executor.rs` 100-340, `kernels.rs` 280-640;
modelled in `StepCapture`, partly).
State: the executor's recording in progress and the captures made, with the
(address, length) of every buffer a captured dispatch touched and the
vocabulary of every ids input; in `CudaKernels`, the capture in progress with
the attributes that advance, the largest replay offset seen so far and any
failure, the offset buffer, and the attention scratch with the outgrown ones.
Operations: begin, dispatch while capturing, end (which runs the graph once),
abort, replay with an offset and inputs to rewrite, release.
Hard: a graph holds raw addresses. Buffers are freed and their addresses handed
out again between the capture and a replay; a replay moves the row offset and
the key count on; ids it reads are data that no launch parameter shows.
Correct when: a replay that passes the checks touches only live buffers, stays
within them at every offset allowed, and meets no id out of its vocabulary.

**Kernel submission, handles, observation log** (`executor.rs` 640-710 and
1436-1494; modelled in `KernelExecutions`).
State: `next_execution_ordinal`, `kernel_executions`, `observations`.
Operations: submit (mint an id, dispatch, file the result, return a handle),
complete, release, and an observation at each event of a dispatch.
Hard: several threads submit the same invocation id; the operation id is a
second read of the counter; a handle may be released instead of completed; the
log is cut while others read it.
Correct when: a handle leads to its own result and no other; a result stays
filed for a reason; the log is bounded and its readers do not notice that it is
cut.

**Plain submission API** (`executor.rs` 1494-1569; modelled in
`KernelExecutions`, with the kernel handles it shares `release` with). State:
`submitted`. Operations: submit, status, cancel, complete, release.

**Kernel launch geometry** (`kernels.rs` launches, `kernels.cu`,
`tensor_kernels.cu`; modelled in `MatmulLaunch`, `AttentionLaunch` and
`AttentionCombine`, partly).
State: a block's shared array and the places of its threads; everything else is
a function of a call.
Operations: the choice of a kernel, its grid and shared memory, and what each of
its threads reaches: matmul, gated-matmul, attention, eager and captured; the
block that merges the chunks of a decode step, from barrier to barrier.
Hard: short last groups, tiles and chunks; a captured launch keeps its grid and
its shared memory while the key count moves on; three kernels and a fused one
are to agree bit by bit, so that the order of additions matters; one array
serves three purposes kept apart by barriers only.
Correct when: every element is written once, every admitted key scored once, in
ascending order; every partial has a writer and a place of its own; sums are
added in the documented order; a block has no data race and ends.

**Greedy token selection** (`kernels.rs` 1607-1654, `kernels.cu` 819-868;
modelled in `GreedySelect`). A parallel argmax through `atomicMax` on packed
keys.
Hard: ties, also those division by the temperature makes; -0; excluded ranges;
warps and grids that the columns do not fill.
Correct when: it selects the column the host's sequential choice selects.

**Half-precision conversion** (`half_precision.rs`; modelled in
`HalfPrecision`). Pure functions on bit patterns.
Hard: carries out of the mantissa, subnormals, NaNs with no payload left.
Correct when: they round to nearest, ties to even, and widen without loss.

**Provider discovery and health** (`provider.rs`, `device.rs`,
`advertisements.rs`; not modelled). Built once from what the driver answers,
immutable afterwards.

**Peer access** (`peer.rs`): driver calls without state here; the copy built on
them is an action of `TensorLedger`. **Errors** (`error.rs`): values.
**Tests and benchmarks**: read as reference for what the executor promises.

The repository README's section "No persistent cross-call device residency"
describes an earlier executor; `storage` does keep device buffers between calls
and the models follow the code.

### Interactions

    runtime --execute_invocation_with_memory_manager--> CudaExecutor
        CudaExecutor --allocate / register_residency / release--> Memory Manager
        CudaExecutor --offer_output, run, take_offered_output--> CudaKernels
        CudaExecutor --begin/end/abort_capture, launch_captured--> CudaKernels
    runtime --submit/complete_kernel_invocation, release--> CudaExecutor
    runtime --select_greedy_column--> CudaExecutor --greedy_select--> CudaKernels
    CudaKernels --launches, in order, on one stream--> kernels of kernels.cu

A captured dispatch goes through the same dispatch path; the capture shows in
`CudaKernels` (allocations and transfers refuse) and in the executor's
recording (made after the dispatch succeeded).

### Hazards

The list with its lines is in `PROJECT.json`, "hazards". Those covered by a
property are the subject of section 3. Those without one either need addresses,
threads and launch choices in one module, or an answer of the driver that the
repository does not give; each says which.

## 2. Modules

| module | what it is |
| --- | --- |
| `ResourceTable` | abstract: a table of values in which a dispatch changes one entry, at one point, or none |
| `TensorLedger` | the executor's table, its ledger, the Memory Manager as it is called, one dispatch at a time; implements `ResourceTable` |
| `StepCapture` | captures and replays over device memory with reused addresses |
| `RecentLog` | abstract: the last `Capacity` observations |
| `KernelExecutions` | threads that submit, complete and release, with the observation log; implements `RecentLog` |
| `DispatchThreads` | threads that dispatch, look up, attend, capture and replay, cut at every lock and launch |
| `MatmulLaunch` | which kernel a matmul launches, what its threads write, and in which order a slice adds |
| `AttentionLaunch` | which kernel an attention launches, the keys its threads score, where partials go |
| `AttentionCombine` | the threads of one block of `attention_combine_kernel`, from barrier to barrier |
| `GreedySelect` | the greedy selection kernel, and the host selection it is to agree with |
| `Listing` | lists of numbers in ascending order, for what is added or scored in order |
| `HalfPrecision` | the four conversions on bit patterns, and round-to-nearest-even |
| `DeviceKernels` | composes the kernels above, and states what they promise |
| `MC*` | symmetry sets and the captured steps for TLC |
| `*Proofs` | the theorems about each |
| `NaturalFacts` | lemmas they share: induction over numbers, division, lists |

### TensorLedger and the code

| variable | code |
| --- | --- |
| `storage` | `CudaExecutor::storage`; a buffer is its contents and whether it is a compact weight |
| `tracked` | `CudaExecutor::resource_allocations` |
| `active`, `residency`, `minted` | the Memory Manager (external): live allocations, residency records, ids granted |
| `callers` | history: which allocations the caller admitted itself |
| `offered`, `restore` | `CudaKernels::offered_output`, and whether `run_invocation_uncaptured` took a buffer out of storage |
| `phase`, `inv`, `admitted`, `failed` | locals of `execute_invocation_with_memory_manager` and of the dispatch under it |
| `before` | history: the values when the dispatch was admitted |

A dispatch is a sequence of steps, cut where the code drops the storage lock:
`AdmitOutput` or `AdmitPreAdmitted`; `Reject`, `ExpandInputs` or `ExpandFails`;
`OfferOutput`; `KernelSucceeds`, `KernelFailsBeforeTaking` or
`KernelFailsAfterTaking` (for `kv-write` instead: `KvWriteRejected`,
`KvWriteSucceeds`, `KvWriteFails`); then `SettleFailed`, `SettlePreAdmitted` or
`SettleAdmitted`. An admitted call holds `&mut MemoryManager` and the caller
does nothing else meanwhile, so the host operations are enabled between
dispatches only. That is the limit of the module: threads that dispatch at once
are in `DispatchThreads`, where the ledgers are left out.

`AdmissionUndone` is an admitted invocation that ends before its dispatch: of
several outputs those admitted so far are released again, and those that were
admitted before have lost the executor's old record. A dispatch that goes on has
one output, as each kernel writes one; whether an invocation that names more
reaches a kernel is for the advertisement check to say, which is not in the
repository, and is left out.

The Memory Manager's crate is not in the repository. Releasing an allocation
may or may not drop the residency record that names it: `AfterRelease` allows
both, and what is proved holds for both.

Operands are two: kernels with more read the rest as f32, as `add` does.
Contents are opaque values; a kernel that succeeds may store any.

### StepCapture and the code

| variable | code |
| --- | --- |
| `storage` | as above; a buffer is its device address, its shape (rows, and floats in a row) and whether it is compact |
| `memory` | device memory: per address, the largest token id a lookup would find there |
| `scratch`, `kept` | `CudaKernels::attention_split` and the outgrown buffers it keeps, as generations |
| `recording`, `captures`, `nextCapture` | `StepCaptureState` |
| `capture` | `CudaKernels::capture`: advancing attributes, `max_offset`, `failure`, and the graph as the sequence of its launches |
| `replayed` | history: the replay the last step was, and the lookups that met an invalid id in it |

`WriteTensor`, `ReleaseTensor`, `Dispatch` and `LookupFails` are what happens
outside captures; the driver chooses any free address for a new buffer, also
one a capture still knows. `CaptureDispatch` adds a launch to the graph and
records its resources; anything that would allocate or transfer instead takes
`ForbidInCapture`. `EndCapture` runs the graph once and keeps the capture if no
lookup met an invalid id. `ReplayStep` is `replay_step` with its checks in the
code's order, `ReplayWriteFails` the replay that ends before its graph runs: an
input cannot be written, or all are and the graph is not launched.
What is recorded of a buffer is its address and its length in floats, as in the
code. A buffer used again for an output of the same length takes the new shape,
and a replay does not notice.
What the driver makes of a release or a replay during another capture cannot
be seen in the repository; both are limited to no capture in progress.

A step to capture is a constant: the kernels it launches, in order. The
operands, the outputs and the attributes of each launch are chosen freely.
`replayed` describes the last step only: every step but an accepted replay
resets it, so that a property of a replay speaks of the state it left.

### KernelExecutions and the code

Each thread goes through `MintId` (the `fetch_add`), `StampOperation` (the
second read), `StartDispatch` / `EndDispatch` (observations), or
`RefuseDescriptor` / `DenyAdmission` when the call ends before the dispatch,
and `FileResult`. `CompleteKernelInvocation` is whoever holds a handle, and so is
`ReleaseKernelHandle`, which in the code looks among the plain requests only
(`submitted`; `SubmitRequest`, `ForgetRequest`) and therefore leaves the result
filed. `status` and `cancel` change nothing. Each step ends where the code drops
a lock or has done an atomic operation.

### DispatchThreads and the code

| variable | code |
| --- | --- |
| `at`, `job` | where each thread is, and the locals of its dispatch |
| `lock` | the holder of `step_capture`, `storage` (executor), `capture`, `embedding_flag` (kernels) |
| `storage`, `offered` | the table and the slot; a buffer is its identity |
| `flag` | the word `embedding_lookup_kernel` sets on the Device |
| `partials` | whose split filled the scratch on the Device last: a thread's, or a graph's |
| `recording`, `capturing` | whether `StepCaptureState::recording` and `CudaKernels::capture` are there |
| `captured` | whether there is a step to replay |

A dispatch is `TakePrevious`, `OfferOutput`, `EnterKernel` (which takes the
storage lock and keeps it through the kernel call), then `TakeOffered`,
`AllocateFresh` or `KernelFails`, `StoreOutput` and `Return`. After a failure
it is `Reclaim`, `DropGuard` (the guard's own `drop`, which empties the slot
once more) and `PutBack`. An embedding lookup adds `LockFlag`,
`AskWhetherCapturing`, `ResetFlag`, `LaunchLookup`, `Confirm...` and
`CheckEmbeddingFlag`, all under the storage lock; an attention adds `LaunchSplit` and `LaunchCombine`,
two launches under that lock. `BeginStepCapture`, `LockCapture` and
`StartCapture` are the three locks a capture takes to begin. `EndStepCapture`
holds `step_capture` while `EndCapture` waits for `capture`, and `ReplayStep`
holds it while `PrepareReplay` waits for `storage`. A lock taken and dropped within one step appears only as the guard `Unheld`.

Whether an offered buffer has the length a kernel wants is a free choice, and
so is whether ids are valid. The device executes its stream in order, so a
launch takes effect as it is queued. Copies within a dispatch, `kv-write`
(one step under the storage lock) and the expansion of compact inputs touch none
of the shared state and are left out.

### The device kernels and the code

`MatmulLaunch`, `AttentionLaunch`, `GreedySelect` and `HalfPrecision` are
operators: a call is a record of what the code branches on (shape, layout,
format, whether a capture is in progress and whether its key count advances),
and the operators are the code's choice of kernel, its grid, and what each
thread of the grid reaches. Floats are never computed. A float sum depends on
the order of its terms, so a sum is the sequence of what it adds: two kernels
are bit-identical if these sequences are. A score is its bit pattern, ordered as
`greedy_select_kernel` orders it.

`AttentionCombine` is a state machine, because its hazard is scheduling:

| variable | code |
| --- | --- |
| `launch` | the arguments: head dimension, chunks, whether weights are cached, each chunk's maximum |
| `at`, `waiting` | per thread, the `__syncthreads` it has reached, and who waits there |
| `regs` | `stride`, `d0`, `max_value`, `total` of each thread |
| `reduce`, `weight` | the shared arrays |
| `out` | what has been written for each dimension |
| `touched` | history: accesses to shared memory since the last barrier |

A thread goes from one barrier to the next in one step. That is sound only as
long as threads do not meet in shared memory between two barriers, which is
`NoDataRace`, checked of the same model. `Barrier` lets all pass once each has
arrived at a barrier or returned.

`DeviceKernels` composes them: `call` is chosen in the initial state, either
none, while a block runs, or one call of a kernel.

Left out: what the Tensor Core kernels add up to (they are known by the elements
they write), the addend of a fused matmul, the kernels of one thread or one block
per element or row (elementwise, softmax, rmsnorm, rope), and row widths of Q, K
and V.

## 3. What the runs show

The executor's runs are of safety properties and assume no fairness: the
executor promises no progress of its own, it is called. `BlockEnds`, of a block
on the Device, assumes weak fairness of each of its threads and of the barrier:
the Device keeps a block resident until it ends and runs each of its warps until
it waits or returns. `CHECK_DEADLOCK FALSE` because the bounds (allocations,
captures, ordinals) run out, and because a block that has ended is at rest.

**tensor_ledger** (1.2 million states). `LedgerExact`: the active allocations
no caller admitted are exactly those the executor still answers for, each under
one resource; it fails if a replaced allocation is not released.
`CallerRecordsStand`: a live record of a caller is changed by the caller only.
`FailedDispatchKeepsValues`: a failed dispatch leaves all values, with two
exceptions that the code has and that the property names: a kernel that fails
with the offered buffer in hand loses it, and a failed `kv-write` into another
resource leaves the copied store there. `DispatchFindsItsInputs` and
`CompactOnlyWhereRead`: lending the output's buffer never takes an input, and a
compact buffer reaches a kernel only where it is read as such.
`ImplementsTable`: the whole is a `ResourceTable`.
Bounds: two resources make every aliasing of two inputs and one output; two
values tell a kept one from an overwritten one; four allocations let an id be
admitted, replaced, pre-admitted by a caller and replaced again; one kernel of
each kind that fails or reads differently (`embedding` differs from `matmul` by
the compact position only, and runs in `tensor_ledger_claims`).

**step_capture_rows** (390 thousand states). A captured `kv-write` and
`attention` of a decode step, where both advance, or the key count alone. `ReplayTouchesOnlyHeldBuffers`: whenever the check of
addresses passes, every buffer in the graph is still in the table and the
scratch it was captured with still allocated. `ReplayStaysInBounds`: at the
largest offset allowed every launch stays within the floats its buffer has now,
whatever its shape.
Bounds: three ids hold the two operands and the output or rows; three addresses
make reuse likely; shapes of one and two rows with one offset make the last legal
replay and the first illegal one, and a row of two floats is as long as two rows
of one, so that a buffer may come back in another shape.

**step_capture_ids**. Two lookups in one step. `SuppliedIdsAreChecked`: a
replayed lookup meets an invalid id only in ids that the replay did not supply,
that the step computed itself, or that two lookups read with different tables
(the executor keeps one vocabulary per ids resource). Tables of one and of two
rows make an id that one has and the other does not.

**kernel_executions**. `HandlesLeadToTheirResults`; `ResultsHaveHolders`: a
result stays filed only while somebody holds its handle, or because its handle
was released instead of completed, which the code cannot tell; `LogIsBounded`;
and `ImplementsRecentLog`: readers of the log see the last `Capacity`
observations after each one. Two threads, two invocation ids, three submissions
and a capacity of two make the log cut at least once under both threads.

**dispatch_threads** (1.6 million states). `BuffersHaveOneOwner`: one entry of
the table, the slot, or one thread, whatever offers cross. It fails if the
table keeps what it lends. `LookupSeesItsOwnFlag`: what serializes lookups is
not the flag's lock, dropped after the launch, but the storage lock, which
happens to be held until the flag is read; dropping the two together breaks it.
The property names the two ways past that lock, a graph launched and a capture
begun by another thread, at any time from the lookup's reset of the flag on:
there an invalid id may go unseen.
`CombineSeesItsOwnSplit`: the same lock keeps another thread's split from coming
between a split and its combine; a graph may come (see below).
`OneCircleOnly`: any threads that wait for each other's locks include one that
begins a capture and one whose lookup asks whether there is one; the deadlock of
`dispatch_threads_locks` is the only one.
Bounds: two threads make every pair of steps meet, two ids let outputs differ
or coincide. Two buffers fill the table, or the slot and a thread's hand, so
that a fresh allocation may be refused. The theorems hold for any number of
each.

**device_kernels** (98 thousand states, of which 50 thousand are calls of which
all is said in one state). Of a block: `NoDataRace`, `ResultIsFixed` (every
dimension is the same expression whatever the order of the threads),
`BarriersAreMet` (who waits, waits at one barrier in the same turn of its loop,
and nobody has ended), `StepsRunOut` (a step lets the waiting threads go, or
takes from the steps one thread has left) and `BlockEnds`. Blocks of one to six threads over dimensions 1, 2, 3 and 7 have
several lanes, idle threads, one lane, and a dimension that takes two passes of
which the last is short; with three chunks, lanes have unequal shares.
Of matmuls: `EachElementIsWrittenOnce`, `SplitKernelsAddInOneOrder` and
`FusedAgreesWithSeparate`. With groups of 2 rows, warps of 2 columns, tiles of 2
warps and 8 inners, shapes up to 9 by 9 and 30 inners have all short last groups
and tiles and more than two of each; a grid of at most 7 rows and a count width
of 64 bring the other two kernels in. The property excepts an output whose
count the width of a launch's parameter cuts.
Of attention: `EveryKeyHasOneChunk`, `EveryPartialHasOneWriter`,
`ScoresFitTheirBlock` and `QueriesScoreWhatTheyAttendTo`, at every offset a
replay may have. Nine rows and chunks of two or three keys, windows of 1, 3 and
4, one, two and three heads per KV head with a limit of two in a group, tiles of
three queries.
Of the greedy selection: `GreedySelectsTheFirstBest`, with warps of four threads,
a grid too small for the columns (one block of one warp: that several agree is
the theorem `SelectsTheFirstBest`), both signs, zeros, infinities and NaNs, a
division that makes scores equal and one that overflows, and columns up to the
last number that fits.
Of the conversions: `HalvesAreNearest` and `HalvesWidenExactly`, over all
patterns of an f32 of 4 and 4 bits, an f16 of 2 and 2, a bfloat16 of 4 and 2.

### Divergences

Six runs end in a counterexample to something the code's comments say.

- **tensor_ledger_claims**: a kernel that fails after it took its output's old
  buffer drops it, while the allocation and the residency record stand. The
  comment of `write_tensor_admitted` (`executor.rs:403-407`) names that state
  as the one a failed write must avoid; the run asks the same of a dispatch.
- **step_capture_stale_ids**: `kernels.rs:1262-1264` says every replay checks
  its ids; a replay that supplies none reads those written since, unchecked.
- **step_capture_format**: the recorded span is address and length, so a table
  rewritten in the other format at the same place passes.
- **dispatch_threads_back**: a second thread's offer drops the first one's
  buffer. The first, failing, puts the second's back under its own id, or
  nothing (`executor.rs:842-843` says the resource keeps its value).
- **dispatch_threads_locks**: `begin_capture` takes `capture`, then
  `embedding_flag`; `embedding_lookup` takes them the other way round. Two
  threads wait for each other for ever, with `step_capture` and `storage` held.
- **dispatch_threads_scratch**: `attention_split` holds its scratch lock, and its
  caller the storage lock, for both of its launches, so that the combine reads
  the split's partials (`kernels.rs:2425-2426`). A graph is launched after
  `replay_step` has dropped the storage lock (`executor.rs:280`), and takes no
  scratch lock: its own splits may be queued in between, on the same scratch.

One more is stated as an exception of a property instead: `gated_matmul` is said
to be "bit-identical to both matmuls" (`kernels.rs:1689-1690`), but of a long
input, with one weight compact and the other f32, it multiplies both by the
split-K kernel, where two matmuls use the Tensor Cores for the compact one.

Whether callers reach these states is not visible in the repository.

## 4. What is proved

Every safety invariant and action property that a passing run checks is a
theorem, and so are both refinements. The constants are any sets and numbers
that satisfy the assumptions of the modules, all of them named and evaluated by
TLC with the runs' values:

- `ConstantsOK` of each module and, in `StepCapture`, `NoneIsNoBuffer`: the
  bounds are natural numbers, one of the shapes has the most rows, and `None` is not a
  value of the data it stands beside.
- `MatmulConstantsOK`: a staged tile holds whole rounds of the slices, and a
  group has no more rows than there are slices (256, 16 and 8 in the code).
- `AttentionConstantsOK`: sizes are positive.
- `GreedyConstantsOK`: infinity is below the sign bit, a block is whole warps,
  and a warp's size is a power of two, stated as having no odd divisor but 1
  (32 in the code; halving an odd offset would lose a lane).
- `WidthsOK` and `RangesOK` of the formats: the halves are narrower, and f32
  has the subnormals of f16 as normals (10 < 127 - 15).
- `CallsOK` of `DeviceKernels`: lengths and counts are natural numbers, flags
  Booleans, and logits and their quotients bit patterns.

**TensorLedgerProofs.** `TypeCorrect`. `LedgerCorrect` (`LedgerExact`): the
inductive invariant adds what the ledger needs from the phases: an admitted
allocation only while a dispatch is in flight, callers' and executor's
allocations apart, and all allocations among those minted, so that a fresh one
is new. `CallerRecordsCorrect` is an action property from the same invariant.
`TableImplemented`: every step maps to a step of `ResourceTable` or a stutter;
its invariant says that a lent buffer is the output's and that its entry is
empty meanwhile. `FailureKeepsValues`, `InputsFound` and `CompactReadAsSuch`
add to it `KeptInv`: while a dispatch is under way no resource's value has
changed since admission, counting the lent buffer as still the output's; that
buffer is no input's; and the compact inputs left are those the kernel reads
so.

**KernelExecutionsProofs.** `TypeCorrect`; `HandlesCorrect`, whose invariant
keeps the ordinals in hand, in the map and already completed apart and below
the counter; `LogBounded`; `RecentLogImplemented`, which rests on a lemma about
suffixes: dropping a prefix that leaves at least `n` elements cannot be seen in
the last `n`. `ResultsHeld` needs no more than itself: filing comes with a
handle, and a handle goes with its result or is marked released.

**StepCaptureProofs.** `TypeCorrect`, `ReplaysTouchHeldBuffers`,
`ReplaysStayInBounds` and `SuppliedIdsChecked`. The inductive invariant has to tie three things the properties do not mention: a
launch to the executor's record (each buffer it holds is behind a recorded
resource, with room for the launch at the largest offset so far), the record to
the table (nothing recorded moves while the capture lasts, because everything
that could move it is refused), and addresses to resources (no two share one,
expansions and reused outputs included). Without the last, a buffer found again
by address could have another length than the recorded one. The record then outlives
the capture, and the comparison of spans before a replay gives the table back.
`SuppliedIdsChecked` follows a replay launch by launch: `AfterLaunches` is a
recursive function, and an induction over the number of launches shows that an
address is written by the supplied inputs or by a launch that has it as its
output, and by nothing else. A lookup that finds an invalid id at a supplied
address and before any such launch contradicts the check, if the vocabulary
checked against is the lookup's own; the invariant `AllIdsRecorded` says that
every lookup captured has its ids recorded, with the vocabulary of a lookup of
the same ids.

**DispatchThreadsProofs.** `TypeCorrect`; `OneOwner`, which is inductive with the
types alone, along a few lemmas that say what giving up, taking and storing a
buffer do to the owners; `OwnFlag`, whose invariant adds that whoever is inside
a kernel holds the storage lock (`OneInKernel`), so no other thread's lookup
runs between a lookup and its check, and that the flag is the lookup's own from
its reset on, and not set until it runs (`FlagFollowed`); `OwnPartials`, for which the same lock keeps
other threads out between a split and its combine. `OneCircle` rests on
where each lock may be held (`HeldWhereTaken`): `storage` within a kernel alone,
`embedding_flag` by a lookup there, `capture` by a begin about to take the flag.
So who waits for `capture` waits for such a begin, who waits for the flag for a
lookup, and who waits for `storage` for one of the two. Who ends a capture
or replays one waits with `step_capture` in hand, which nobody waits for while
holding another lock.

**AttentionCombineProofs.** `TypeCorrect` and `RaceFree`. The invariant is that
a block is in one phase: there are a point, a stride and a dimension that all
threads still running are at, all that wait or have ended are at the place that
follows, and every access since the last barrier is one that the phase permits.
Each step of a thread leaves the phase (one lemma for each of the nine), the
barrier takes the whole block to the next, and no phase permits two threads a
slot that one of them writes; in the tree because a multiple of twice the stride
and another plus the stride are never equal. `ResultFixed` adds the data. At
each phase, what a slot, a register or an output holds is an expression that
depends on the launch alone: `DataInv` gives it for the threads that have taken
the step and for those that have not, and what a step reads nobody else has
changed, because the phase does not permit it. `BarriersMet` and `BlockRunsOut`
are what `BlockEnds` needs besides fairness. Waiting threads have all taken the
step of one phase, which has a barrier at its end; and the bound on the steps a
thread has left falls from each phase to the next (`PhasesRunOut`), as the
stride grows up to the number of threads and the dimension up to the head's.

**NaturalFacts.** Induction is stated for sets of numbers, which are values and
can be instantiated, where a theorem about every operator cannot. With it come
quotient and rest, and what a loop that steps through a range lists.

**HalfPrecisionProofs.** `HalfWidens`, `BrainWidens`, `HalfIsNearest` and
`BrainIsNearest`, for fields of any widths. Powers of two are known by counting
subsets: each added element doubles them. Without its sign a pattern that is not
a NaN is a number from 0 to that of infinity, and its value grows with it,
by a gap that the exponent gives (`NextValue`). So a value between two
neighbours has no other nearest pattern (`NearestOfTwo`), and it is enough that
each conversion decides between the two as `Rounded` does
(`RoundsToNearest`). That is shown case by case: `NormalToHalf`, where a carry out
of the mantissa is the next number already; `SubnormalToHalf`, with the shift
that brings the significand to the last place of the subnormals, and nothing
left where the code stops shifting; `ZeroToHalf`, `LargeToInfinity` and
`NaNToHalf`; `BiasRounds` for bfloat16, where the code adds a bias and cuts. A
subnormal widens by the first shift that gives it a leading bit (`LeadingBit`).

**DeviceKernelsProofs.** `BlocksRaceFree`, `BlocksResultFixed`,
`BlocksBarriersMet` and `BlocksRunOut` carry what is proved of a block over to the composed specification. A call does not change, so
what is said of calls holds of every state once it holds of every call.

- `WrittenByOne`: a thread's element is its row and column written as digits
  (block, slice or lane, and place), which determine each other; what a short
  last group or tile has too much is what its guard leaves out.
- `OneOrder`: unrolled by any number or cut into tiles of any size, a slice's
  loop lists its own inners in ascending order, and a set of numbers has only one
  such list.
- `FusedAgrees`: by the cases in which the two choices of a kernel agree.
- `ScoresFit` and `KeysInChunks`: the upper bound of a query's keys never passes
  the rows, whatever the offset, and the rounded-up quotient of rows by keys in a
  chunk covers the rows.
- `ScoresItsKeys`: a tile's bounds are no narrower than those of any query in it,
  and the keys a query admits of one tile after the other are listed in order.
- `PartialsHaveOneWriter`: a head is its group and its place in it, and a
  partial's floats are its head, chunk and place in it, both written as digits.
- `SelectsTheFirstBest`: an exchange over offsets halved from the warp's size
  leaves the greatest key in the first lane, by induction over the offsets; keys
  are ordered as scores are, and of equal scores the first column has the
  greater key; every column is some thread's.
- `HalvesRoundToNearest` and `HalvesWiden`: the conversions above.

Only model-checked: `BlockEnds`, which is liveness under fairness and with it
`ENABLED`, both out of this prover's reach; its safety half is `BarriersMet` and
`BlockRunsOut`. The six divergences are
counterexamples and need no proof.

## 5. Plan

In order:

1. `StepCapture` and `DispatchThreads` in one module, with addresses and
   threads: the recording looked at twice, and a capture that another thread
   begins between `is_capturing` and a launch.
2. Two executors, for the peer copy.
3. Theorems of the composition in 1: the invariants of `StepCaptureProofs` and
   `DispatchThreadsProofs` put together.

### Not modelled

Floating-point results (out of TLC's reach and tested on hardware by the
repository); the inner loops of the Tensor Core kernels (`tensor_kernels.cu`),
whose staging is laid out for the hardware's fragments; elementwise, norm and
rope kernels, which have one thread or block for each element or row and share
nothing; provider discovery (no state); what the driver answers to calls on a
stream that captures.
