---------------------------- MODULE TensorLedger -----------------------------
(***************************************************************************)
(* The executor's table of device tensors and the two ledgers that must    *)
(* agree with it: the allocation the executor remembers per resource       *)
(* (resource_allocations) and the Memory Manager it is lent for the length *)
(* of an admitted call.  One caller drives it: an admitted call holds      *)
(* &mut MemoryManager, so no other admitted call overlaps it.  Each kernel *)
(* here writes one output; an invocation that names more is undone at its  *)
(* admission.                                                              *)
(*                                                                         *)
(* A dispatch is cut where the code takes and drops the storage lock:      *)
(* admit, expand the compact inputs, offer the output's old buffer (or     *)
(* kv-write in place), run the Kernel, settle the ledgers.                 *)
(*                                                                         *)
(* The Memory Manager is not in this repository: it is modelled from the   *)
(* calls made to it.  Whether releasing an allocation also forgets the     *)
(* residency record naming it is not visible from here, so both happen.    *)
(***************************************************************************)
EXTENDS Integers, FiniteSets

CONSTANTS
    Ids,            \* tensor resource ids
    Vals,           \* tensor contents
    Kernels,        \* the kernels dispatched, a subset of KernelNames
    MaxAllocations, \* bound: allocations the Memory Manager ever grants
    None            \* absence of a buffer, an allocation or a dispatch

\* The shapes of kernel the executor treats differently: matmul stands for
\* its whole family, add for every kernel that reads f32 operands only.
KernelNames == {"matmul", "embedding", "add", "add-half", "kv-write"}

\* A compact buffer holds its weight as bfloat16 bits and has no f32 slice.
Buffers == [val : Vals, compact : BOOLEAN]

ASSUME ConstantsOK ==
    /\ Kernels \subseteq KernelNames
    /\ MaxAllocations \in Nat
    /\ None \notin Vals
    /\ None \notin Ids
    /\ None \notin Nat
    /\ None \notin Buffers

VARIABLES
    storage,    \* id -> device buffer
    tracked,    \* id -> the allocation this executor admitted for it
    active,     \* Memory Manager: allocations granted and not released
    residency,  \* Memory Manager: id -> allocation its residency names
    callers,    \* history: allocations a caller admitted, not the executor
    minted,     \* Memory Manager: allocation ids granted so far
    offered,    \* CudaKernels' slot: contents of the buffer on offer
    phase,      \* where the dispatch in flight stands
    inv,        \* its invocation
    admitted,   \* the allocation it admitted, None if pre-admitted
    restore,    \* it took its output's buffer out of storage to offer it
    failed,     \* its outcome, from "settle" on
    before      \* history: what each id held when it was admitted

tableVars == <<storage, offered, restore>>
ledgerVars == <<tracked, active, residency, callers, minted>>
dispatchVars == <<phase, inv, admitted, failed, before>>
vars == <<tableVars, ledgerVars, dispatchVars>>

Allocations == 1..MaxAllocations

F32(v) == [val |-> v, compact |-> FALSE]

Phases == {"idle", "expand", "output", "kernel", "settle"}

Invocations == [kernel : Kernels, ins : Ids \X Ids, out : Ids]

TypeOK ==
    /\ storage \in [Ids -> Buffers \cup {None}]
    /\ tracked \in [Ids -> Allocations \cup {None}]
    /\ active \subseteq Allocations
    /\ residency \in [Ids -> Allocations \cup {None}]
    /\ callers \subseteq Allocations
    /\ minted \in 0..MaxAllocations
    /\ offered \in Vals \cup {None}
    /\ phase \in Phases
    /\ inv \in Invocations \cup {None}
    /\ admitted \in Allocations \cup {None}
    /\ restore \in BOOLEAN
    /\ failed \in BOOLEAN
    /\ before \in [Ids -> Vals \cup {None}]

NoValues == [i \in Ids |-> None]

Init ==
    /\ storage = [i \in Ids |-> None]
    /\ tracked = [i \in Ids |-> None]
    /\ active = {}
    /\ residency = [i \in Ids |-> None]
    /\ callers = {}
    /\ minted = 0
    /\ offered = None
    /\ phase = "idle"
    /\ inv = None
    /\ admitted = None
    /\ restore = FALSE
    /\ failed = FALSE
    /\ before = NoValues

----------------------------------------------------------------------------
(* The table: what a caller can read of it.                                *)

Held(i) == storage[i] # None
IsCompact(i) == Held(i) /\ storage[i].compact

\* Contents of an id as a caller would read it between dispatches.
ValueOf(i) == IF Held(i) THEN storage[i].val ELSE None

----------------------------------------------------------------------------
(* The Memory Manager.                                                     *)

CanAllocate == minted < MaxAllocations
Fresh == minted + 1

\* What residency can look like once the allocations as are released.
AfterReleases(r, as) ==
    {[i \in Ids |-> IF r[i] \in gone THEN None ELSE r[i]] : gone \in SUBSET as}

AfterRelease(r, a) == AfterReleases(r, {a})

\* admit_kernel_output: a caller admits an output before it dispatches.
CallerAdmits(i) ==
    /\ phase = "idle"
    /\ CanAllocate
    /\ minted' = Fresh
    /\ active' = active \cup {Fresh}
    /\ callers' = callers \cup {Fresh}
    /\ residency' = [residency EXCEPT ![i] = Fresh]
    /\ UNCHANGED <<tableVars, tracked, dispatchVars>>

CallerReleases(a) ==
    /\ phase = "idle"
    /\ a \in callers \cap active
    /\ active' = active \ {a}
    /\ residency' \in AfterRelease(residency, a)
    /\ UNCHANGED <<tableVars, tracked, callers, minted, dispatchVars>>

----------------------------------------------------------------------------
(* Host operations outside a dispatch.  A failed upload, a denied          *)
(* admission or a missing source changes nothing, except where said.       *)

\* write_tensor, write_zeroed_tensor, and write_weight_tensor when compact.
WriteTensor(i, b) ==
    /\ phase = "idle"
    /\ storage' = [storage EXCEPT ![i] = b]
    /\ UNCHANGED <<offered, restore, ledgerVars, dispatchVars>>

\* release_tensor: the buffer alone.
ReleaseTensor(i) ==
    /\ phase = "idle"
    /\ Held(i)
    /\ storage' = [storage EXCEPT ![i] = None]
    /\ UNCHANGED <<offered, restore, ledgerVars, dispatchVars>>

ReleaseAdmittedTensor(i) ==
    /\ phase = "idle"
    /\ storage' = [storage EXCEPT ![i] = None]
    /\ tracked' = [tracked EXCEPT ![i] = None]
    /\ active' = active \ {tracked[i]}
    /\ residency' \in AfterRelease(residency, tracked[i])
    /\ UNCHANGED <<offered, restore, callers, minted, dispatchVars>>

\* Plausible bug: the allocation a write replaces is forgotten, not released.
ReplaceWithoutRelease(i) ==
    /\ tracked' = [tracked EXCEPT ![i] = Fresh]
    /\ active' = active \cup {Fresh}
    /\ UNCHANGED residency

\* The new allocation takes the id; the one it replaces is released.
Replace(i) ==
    /\ tracked' = [tracked EXCEPT ![i] = Fresh]
    /\ active' = (active \cup {Fresh}) \ {tracked[i]}
    /\ residency' \in AfterRelease(residency, tracked[i])

\* write_tensor_admitted once the upload succeeded.
WriteTensorAdmitted(i, v) ==
    /\ phase = "idle"
    /\ CanAllocate
    /\ minted' = Fresh
    /\ Replace(i)
    /\ storage' = [storage EXCEPT ![i] = F32(v)]
    /\ UNCHANGED <<offered, restore, callers, dispatchVars>>

\* write_tensor_admitted whose upload fails: admitted, then rolled back.
WriteTensorAdmittedFails ==
    /\ phase = "idle"
    /\ CanAllocate
    /\ minted' = Fresh
    /\ UNCHANGED <<tableVars, tracked, active, residency, callers, dispatchVars>>

\* copy_tensor_admitted: the source is cloned, compact or not, before the
\* destination is admitted.
CopyTensorAdmitted(from, to) ==
    /\ phase = "idle"
    /\ Held(from)
    /\ CanAllocate
    /\ minted' = Fresh
    /\ Replace(to)
    /\ storage' = [storage EXCEPT ![to] = storage[from]]
    /\ UNCHANGED <<offered, restore, callers, dispatchVars>>

\* copy_tensor_from_peer_admitted: b is what the peer's table holds.
CopyTensorFromPeerAdmitted(i, b) ==
    /\ phase = "idle"
    /\ CanAllocate
    /\ minted' = Fresh
    /\ Replace(i)
    /\ storage' = [storage EXCEPT ![i] = b]
    /\ UNCHANGED <<offered, restore, callers, dispatchVars>>

----------------------------------------------------------------------------
(* Admission (execute_invocation_with_memory_manager).                     *)

\* Plausible bug: any residency record counts as the executor's own.
NeverPreAdmitted(i) == FALSE

\* The residency record names an allocation this executor does not track:
\* the caller admitted the output, and its record is authoritative.
PreAdmitted(i) == residency[i] # None /\ residency[i] # tracked[i]

Begin(k, ins, out) ==
    /\ phase = "idle"
    /\ phase' = "expand"
    /\ inv' = [kernel |-> k, ins |-> ins, out |-> out]
    /\ before' = [i \in Ids |-> ValueOf(i)]
    /\ UNCHANGED <<tableVars, failed, callers>>

\* The caller's record stands; a stale allocation of this executor goes.
AdmitPreAdmitted(k, ins, out) ==
    /\ PreAdmitted(out)
    /\ Begin(k, ins, out)
    /\ admitted' = None
    /\ tracked' = [tracked EXCEPT ![out] = None]
    /\ active' = active \ {tracked[out]}
    /\ residency' \in AfterRelease(residency, tracked[out])
    /\ UNCHANGED minted

\* The output is admitted on the executor's account.  A denied admission, or
\* a descriptor without a byte size, ends the call with nothing changed if it
\* is the only output.
AdmitOutput(k, ins, out) ==
    /\ ~PreAdmitted(out)
    /\ CanAllocate
    /\ Begin(k, ins, out)
    /\ minted' = Fresh
    /\ admitted' = Fresh
    /\ active' = active \cup {Fresh}
    /\ UNCHANGED <<tracked, residency>>

\* An invocation of several outputs, of which a kernel here writes one: either
\* an output is denied after outs were looked at, or outs are all of them and
\* the invocation is rejected.  What was admitted is released; the stale
\* allocations of the pre-admitted ones are gone as well.
AdmissionUndone(outs) ==
    LET pre == {i \in outs : PreAdmitted(i)}
        stale == {tracked[i] : i \in pre}
    IN  /\ phase = "idle"
        /\ minted' = minted + Cardinality(outs \ pre)
        /\ minted' \in minted..MaxAllocations
        /\ tracked' = [i \in Ids |-> IF i \in pre THEN None ELSE tracked[i]]
        /\ active' = active \ stale
        /\ residency' \in AfterReleases(residency, stale)
        /\ UNCHANGED <<tableVars, callers, dispatchVars>>

----------------------------------------------------------------------------
(* The dispatch (execute_invocation, run_invocation_uncaptured).           *)

\* The inputs a kernel reads in compact form; it reads the others as f32.
ReadsCompact(k) ==
    CASE k = "matmul" -> {2}
      [] k = "embedding" -> {1}
      [] OTHER -> {}

\* A deadline of zero, or an invocation the advertisement does not allow.
Reject ==
    /\ phase = "expand"
    /\ phase' = "settle"
    /\ failed' = TRUE
    /\ UNCHANGED <<tableVars, ledgerVars, inv, admitted, before>>

\* Plausible bug: the second operand is taken for the compact one always.
ExpandsFirstOnly(n) ==
    n = 1 /\ IsCompact(inv.ins[n]) /\ n \notin ReadsCompact(inv.kernel)

Expands(n) == IsCompact(inv.ins[n]) /\ n \notin ReadsCompact(inv.kernel)

\* Plausible bug: the expanded buffer replaces the output, not the input.
ExpandIntoOutput(inputs) ==
    IF inputs = {} THEN storage
    ELSE [storage EXCEPT ![inv.out] = F32(storage[inv.ins[CHOOSE n \in inputs : TRUE]].val)]

\* The table once the inputs at these positions are stored as f32.
Expanded(inputs) ==
    [i \in Ids |-> IF \E n \in inputs : inv.ins[n] = i
                   THEN F32(storage[i].val) ELSE storage[i]]

ExpandInputs ==
    /\ phase = "expand"
    /\ storage' = Expanded({n \in 1..2 : Expands(n)})
    /\ phase' = "output"
    /\ UNCHANGED <<offered, restore, ledgerVars, inv, admitted, failed, before>>

\* Input n cannot be expanded: those before it stay expanded.
ExpandFails(n) ==
    /\ phase = "expand"
    /\ Expands(n)
    /\ storage' = Expanded({m \in 1..(n - 1) : Expands(m)})
    /\ phase' = "settle"
    /\ failed' = TRUE
    /\ UNCHANGED <<offered, restore, ledgerVars, inv, admitted, before>>

\* Plausible bug: the output's buffer is offered though an input reads it.
OffersAliased == Held(inv.out) /\ ~IsCompact(inv.out)

\* The output's old buffer becomes the kernel's output allocation, unless
\* the kernel reads that resource too or it has no f32 slice to lend.
Offers ==
    /\ inv.out \notin {inv.ins[1], inv.ins[2]}
    /\ Held(inv.out)
    /\ ~IsCompact(inv.out)

OfferOutput ==
    /\ phase = "output"
    /\ inv.kernel # "kv-write"
    /\ IF Offers
       THEN /\ storage' = [storage EXCEPT ![inv.out] = None]
            /\ offered' = storage[inv.out].val
       ELSE /\ UNCHANGED storage
            /\ offered' = None
    /\ restore' = Offers
    /\ phase' = "kernel"
    /\ UNCHANGED <<ledgerVars, inv, admitted, failed, before>>

OperandsHeld == \A n \in 1..2 : Held(inv.ins[n])
OperandsReadable ==
    \A n \in 1..2 : IsCompact(inv.ins[n]) => n \in ReadsCompact(inv.kernel)

\* Half-precision kernels go through the host and upload their result.
TakesOffer == inv.kernel # "add-half" /\ offered # None

KernelReturns(ok, table) ==
    /\ storage' = table
    /\ offered' = None
    /\ restore' = FALSE
    /\ phase' = "settle"
    /\ failed' = ~ok
    /\ UNCHANGED <<ledgerVars, inv, admitted, before>>

\* Whether it wrote into the offered buffer or a fresh one, v is stored.
KernelSucceeds(v) ==
    /\ phase = "kernel"
    /\ OperandsHeld
    /\ OperandsReadable
    /\ KernelReturns(TRUE, [storage EXCEPT ![inv.out] = F32(v)])

\* Plausible bugs: the offered buffer is not put back after a failure, or
\* the empty slot is.
Unreclaimed == storage
ReclaimedBlindly == [storage EXCEPT ![inv.out] = F32(offered)]

\* The slot still holds the buffer: it goes back under its id.
Reclaimed ==
    IF restore THEN [storage EXCEPT ![inv.out] = F32(offered)] ELSE storage

\* An operand missing or compact, a shape or an attribute not supported, an
\* allocation that failed.
KernelFailsBeforeTaking ==
    /\ phase = "kernel"
    /\ KernelReturns(FALSE, Reclaimed)

\* A launch that fails, or an embedding id out of the vocabulary, once the
\* kernel holds the offered buffer: the buffer is dropped with the error.
KernelFailsAfterTaking ==
    /\ phase = "kernel"
    /\ OperandsHeld
    /\ OperandsReadable
    /\ TakesOffer
    /\ KernelReturns(FALSE, storage)

\* kv-write: rows go into the store in place, or into a copy of it kept
\* under the output when the output is another resource.
StoreId == inv.ins[1]
RowsId == inv.ins[2]

WritingKv == phase = "output" /\ inv.kernel = "kv-write"

KvWriteReturns(ok, table) ==
    /\ storage' = table
    /\ phase' = "settle"
    /\ failed' = ~ok
    /\ UNCHANGED <<offered, restore, ledgerVars, inv, admitted, before>>

\* No row offset, no store, or a copy that could not be made.
KvWriteRejected ==
    /\ WritingKv
    /\ KvWriteReturns(FALSE, storage)

\* The store is out of the table while its rows are looked up.
RowsHeld == Held(RowsId) /\ ~(inv.out = StoreId /\ RowsId = StoreId)

KvWriteSucceeds(v) ==
    /\ WritingKv
    /\ Held(StoreId)
    /\ RowsHeld
    /\ KvWriteReturns(TRUE, [storage EXCEPT ![inv.out] = F32(v)])

\* Rows missing, of another width or past the capacity: the store, or its
\* copy, is kept under the output all the same.
KvWriteFails ==
    /\ WritingKv
    /\ Held(StoreId)
    /\ KvWriteReturns(FALSE, [storage EXCEPT ![inv.out] = storage[StoreId]])

----------------------------------------------------------------------------
(* Settling the ledgers.                                                   *)

SettleIdle ==
    /\ phase = "settle"
    /\ phase' = "idle"
    /\ inv' = None
    /\ admitted' = None
    /\ failed' = FALSE
    /\ before' = NoValues
    /\ UNCHANGED <<tableVars, callers, minted>>

SettleFailed ==
    /\ failed
    /\ SettleIdle
    /\ active' = active \ {admitted}
    /\ UNCHANGED <<tracked, residency>>

SettlePreAdmitted ==
    /\ ~failed
    /\ admitted = None
    /\ SettleIdle
    /\ UNCHANGED <<tracked, active, residency>>

\* The output's residency names the new allocation; the one tracked for an
\* earlier dispatch or write of the same id is released.
SettleAdmitted ==
    /\ ~failed
    /\ admitted # None
    /\ SettleIdle
    /\ tracked' = [tracked EXCEPT ![inv.out] = admitted]
    /\ active' = active \ {tracked[inv.out]}
    /\ residency' \in AfterRelease([residency EXCEPT ![inv.out] = admitted],
                                   tracked[inv.out])

----------------------------------------------------------------------------
CallerStep ==
    \/ \E i \in Ids : CallerAdmits(i)
    \/ \E a \in Allocations : CallerReleases(a)

HostStep ==
    \/ \E i \in Ids, b \in Buffers : WriteTensor(i, b)
    \/ \E i \in Ids : ReleaseTensor(i)
    \/ \E i \in Ids : ReleaseAdmittedTensor(i)
    \/ \E i \in Ids, v \in Vals : WriteTensorAdmitted(i, v)
    \/ WriteTensorAdmittedFails
    \/ \E from, to \in Ids : CopyTensorAdmitted(from, to)
    \/ \E i \in Ids, b \in Buffers : CopyTensorFromPeerAdmitted(i, b)

AdmitStep ==
    \E k \in Kernels, ins \in Ids \X Ids, out \in Ids :
        AdmitPreAdmitted(k, ins, out) \/ AdmitOutput(k, ins, out)

DispatchStep ==
    \/ Reject
    \/ ExpandInputs
    \/ \E n \in 1..2 : ExpandFails(n)
    \/ OfferOutput
    \/ \E v \in Vals : KernelSucceeds(v)
    \/ KernelFailsBeforeTaking
    \/ KernelFailsAfterTaking
    \/ KvWriteRejected
    \/ \E v \in Vals : KvWriteSucceeds(v)
    \/ KvWriteFails

SettleStep == SettleFailed \/ SettlePreAdmitted \/ SettleAdmitted

Next ==
    \/ CallerStep
    \/ HostStep
    \/ AdmitStep
    \/ \E outs \in SUBSET Ids : AdmissionUndone(outs)
    \/ DispatchStep
    \/ SettleStep

Spec == Init /\ [][Next]_vars

----------------------------------------------------------------------------
(* Correctness.                                                            *)

\* The allocations this executor answers for: those it tracks, and the one
\* the dispatch in flight admitted.
Answered == {tracked[i] : i \in Ids} \cup {admitted}

\* Every allocation the executor admits is released exactly once, when it is
\* replaced, released or rolled back: the active allocations no caller
\* admitted are exactly those it answers for (the leak that the replace and
\* release of execute_invocation_with_memory_manager closes), and no two
\* resources share one, so none is released under another.
LedgerExact ==
    /\ active \ callers = Answered \ {None}
    /\ \A i, j \in Ids : tracked[i] = tracked[j] /\ tracked[i] # None => i = j
    /\ \A i \in Ids : tracked[i] = admitted => admitted = None

\* A residency record naming a live allocation of a caller is authoritative
\* (bound-memory-manager-bookkeeping): no host operation and no dispatch
\* overwrites it or releases its allocation; only the caller does.
CallerRecordsStand ==
    [][\A i \in Ids :
        residency[i] \in callers \cap active /\ ~CallerStep
            => residency'[i] = residency[i] /\ residency[i] \in active']_vars

\* A dispatch that fails leaves what every resource holds as it was when the
\* dispatch was admitted.  Two exceptions, both of the output: a kernel that
\* failed with the offered buffer in hand loses it, and a failed kv-write
\* into another resource leaves the copied store there.
FailedDispatchKeepsValues ==
    phase = "settle" /\ failed =>
        \A i \in Ids :
            \/ ValueOf(i) = before[i]
            \/ /\ i = inv.out
               /\ inv.kernel \notin {"add-half", "kv-write"}
               /\ ValueOf(i) = None
               /\ OperandsHeld
            \/ /\ i = inv.out
               /\ inv.kernel = "kv-write"
               /\ i # StoreId
               /\ ValueOf(i) = before[StoreId]

\* Lending the output's buffer never takes an operand from the kernel: an
\* input held when the dispatch was admitted is held when the kernel runs.
DispatchFindsItsInputs ==
    phase = "kernel" =>
        \A n \in 1..2 : before[inv.ins[n]] # None => Held(inv.ins[n])

\* The kernel runs with its compact operands where it reads bfloat16 bits
\* only: every other compact input was expanded first, also when the same
\* weight is passed at two positions.
CompactOnlyWhereRead == phase = "kernel" => OperandsReadable

\* What the rollback of write_tensor_admitted is for, asked of a dispatch:
\* the ledger does not claim residency of a tensor this executor no longer
\* holds.  A failed dispatch leaves a tracked, held resource held.
ClaimsOnlyWhatIsHeld ==
    phase = "settle" /\ failed =>
        \A i \in Ids : tracked[i] # None /\ before[i] # None => Held(i)

----------------------------------------------------------------------------
(* Refinement: to the one caller that drives it and reads between its      *)
(* calls, a dispatch is atomic.  A concurrent reader finds a lent buffer   *)
(* missing: DispatchThreads.                                               *)

\* The offered buffer still counts as the output's until the kernel returns.
AbstractValue ==
    [i \in Ids |-> IF restore /\ i = inv.out THEN offered ELSE ValueOf(i)]

AbstractTarget == IF phase \in {"expand", "output", "kernel"} THEN inv.out ELSE None

Table == INSTANCE ResourceTable WITH value <- AbstractValue, target <- AbstractTarget

ImplementsTable == Table!Spec
=============================================================================
