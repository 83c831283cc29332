----------------------------- MODULE StepCapture -----------------------------
(***************************************************************************)
(* Capturing a step into a CUDA graph and replaying it                     *)
(* (capture-and-replay-cuda-graphs).  A captured launch holds raw device   *)
(* addresses; what keeps a replay from reading freed or moved memory is    *)
(* the executor's record of the buffer behind every resource the captured  *)
(* dispatches touched, compared with the table before each replay.         *)
(*                                                                         *)
(* One thread calls the executor, so each call is one step.  Device memory *)
(* is a pool of addresses the driver may hand out again once freed.  A     *)
(* buffer's contents are abstracted to the largest token id read in it.    *)
(* A table's rows are its vocabulary.                                      *)
(***************************************************************************)
EXTENDS Integers, Sequences, FiniteSets

CONSTANTS
    Ids,         \* tensor resource ids
    Addrs,       \* device addresses of tensor buffers
    Shapes,      \* bound: tensor shapes, <<rows, floats in a row>>
    Formats,     \* whether host writes store a tensor compact: BOOLEAN or less
    Vals,        \* contents: the largest token id a buffer holds
    Step,        \* bound: the kernels a captured step launches, in order
    Advances,    \* bound: the sets of attributes a capture advances
    MaxCaptures, \* bound: captures ever completed
    MaxOffset,   \* bound: replay offsets tried, standing in for u64::MAX
    MaxInputs,   \* bound: inputs one replay rewrites
    None         \* absence of a buffer, a capture or a record

\* silu stands for the kernels without an attribute that advances.
KernelNames == {"embedding", "silu", "kv-write", "attention"}

Advancing == {"row_offset", "key_count"}

ASSUME ConstantsOK ==
    /\ Step \in Seq(KernelNames)
    /\ Formats \subseteq BOOLEAN
    /\ Shapes \subseteq (Nat \ {0}) \X (Nat \ {0})
    /\ \E s \in Shapes : \A t \in Shapes : t[1] <= s[1]
    /\ Vals \subseteq Nat
    /\ Advances \subseteq SUBSET Advancing
    /\ MaxCaptures \in Nat
    /\ MaxOffset \in Nat
    /\ MaxInputs \in Nat
    /\ None \notin Ids \cup Addrs \cup Nat

\* The kernels dispatched, captured or not.
Kernels == {Step[k] : k \in 1..Len(Step)}

VARIABLES
    storage,     \* id -> device buffer
    memory,      \* address -> contents
    scratch,     \* rows the current attention scratch serves, by generation
    kept,        \* scratch generations not freed
    recording,   \* StepCaptureState.recording
    capture,     \* CudaKernels.capture
    captures,    \* StepCaptureState.captures
    nextCapture, \* StepCaptureState.next_capture
    replayed     \* history: the replay the last step was, if it was one

kernelVars == <<scratch, kept>>
captureVars == <<recording, capture, captures, nextCapture>>
vars == <<storage, memory, kernelVars, captureVars, replayed>>

CaptureIds == 1..MaxCaptures
Offsets == 0..MaxOffset

Buffers == [addr : Addrs, shape : Shapes, compact : BOOLEAN]
F32(a, shape) == [addr |-> a, shape |-> shape, compact |-> FALSE]

Rows(b) == b.shape[1]
Width(b) == b.shape[2]
Floats(b) == Rows(b) * Width(b)

\* What the executor records of a resource (CapturedResources): its address
\* and its length in floats, whatever its shape.
Spans == [addr : Addrs, len : Nat]
SpanOf(b) == [addr |-> b.addr, len |-> Floats(b)]

ASSUME NoneIsNoBuffer == None \notin Buffers \cup Spans

\* A captured launch.  It reads its token ids at address ids, valid below
\* vocab; it reaches the first last rows, of width floats, of the buffer at
\* address bounded, further by the replay offset if it advances.
Launches ==
    [touches : SUBSET Buffers, out : Addrs,
     ids : Addrs \cup {None}, vocab : Nat \cup {None},
     bounded : Addrs \cup {None}, last : Nat, width : Nat, advances : BOOLEAN,
     scratch : Nat \cup {None}]

Recordings ==
    [resources : [Ids -> Spans \cup {None}], embeddingIds : [Ids -> Nat \cup {None}]]

KernelCaptures ==
    [advancing : SUBSET Advancing, maxOffset : Offsets, failure : BOOLEAN,
     ops : Seq(Launches)]

CapturedSteps ==
    [ops : Seq(Launches), maxOffset : Offsets, recording : Recordings]

Held(i) == storage[i] # None
Live == {storage[i].addr : i \in {j \in Ids : Held(j)}}
Free == Addrs \ Live
Capturing == capture # None

\* The most rows a buffer has.
MaxRows == (CHOOSE s \in Shapes : \A t \in Shapes : t[1] <= s[1])[1]

Smaller(m, n) == IF m < n THEN m ELSE n

TypeOK ==
    /\ storage \in [Ids -> Buffers \cup {None}]
    /\ memory \in [Addrs -> Vals]
    /\ scratch \in Seq(Nat)
    /\ kept \subseteq 1..Len(scratch)
    /\ recording \in Recordings \cup {None}
    /\ capture \in KernelCaptures \cup {None}
    /\ captures \in [CaptureIds -> CapturedSteps \cup {None}]
    /\ nextCapture \in 0..MaxCaptures

Init ==
    /\ storage = [i \in Ids |-> None]
    /\ memory \in {[a \in Addrs |-> v] : v \in Vals}
    /\ scratch = <<>>
    /\ kept = {}
    /\ recording = None
    /\ capture = None
    /\ captures = [c \in CaptureIds |-> None]
    /\ nextCapture = 0
    /\ replayed = None

----------------------------------------------------------------------------
(* Host operations.                                                        *)

\* A fresh buffer for id i: write_tensor, write_weight_tensor when compact,
\* write_zeroed_tensor, a copy.  Allocated before the old one is freed.
WriteTensor(i, a, shape, compact, v) ==
    /\ ~Capturing
    /\ a \in Free
    /\ storage' = [storage EXCEPT ![i] = [addr |-> a, shape |-> shape, compact |-> compact]]
    /\ memory' = [memory EXCEPT ![a] = v]
    /\ replayed' = None
    /\ UNCHANGED <<kernelVars, captureVars>>

\* The code does not refuse a release while capturing.  The free it queues on
\* the capturing stream is the driver's to answer, so that case is left out.
ReleaseTensor(i) ==
    /\ ~Capturing
    /\ Held(i)
    /\ storage' = [storage EXCEPT ![i] = None]
    /\ replayed' = None
    /\ UNCHANGED <<memory, kernelVars, captureVars>>

\* Uploads, downloads, copies, expansions and every other allocation fail
\* while capturing, and fail the capture (forbid_in_capture).
ForbidInCapture ==
    /\ Capturing
    /\ capture' = [capture EXCEPT !.failure = TRUE]
    /\ replayed' = None
    /\ UNCHANGED <<storage, memory, kernelVars, recording, captures, nextCapture>>

----------------------------------------------------------------------------
(* Dispatches.  Operands: embedding(table, ids), silu(a), attention(q, k)  *)
(* with k standing for K and V alike, kv-write(store, rows) in place.      *)

Arity(k) == IF k = "silu" THEN 1 ELSE 2

\* Operand positions read as f32 only.
F32Operands(k) == IF k = "embedding" THEN {2} ELSE 1..Arity(k)

OperandsHeld(k, ins) == \A p \in 1..Arity(k) : Held(ins[p])

\* The operands expand_unsupported_compact_inputs replaces.
ToExpand(k, ins) == {ins[p] : p \in {q \in F32Operands(k) : storage[ins[q]].compact}}

\* Shape of the output: a row of the table for every id, or the first
\* operand's.
OutputShape(k, ins) ==
    CASE k = "embedding" -> <<Floats(storage[ins[2]]), Width(storage[ins[1]])>>
      [] OTHER -> storage[ins[1]].shape

\* The attribute of kernel k that a replay may advance.
Attribute(k) ==
    CASE k = "kv-write" -> "row_offset"
      [] k = "attention" -> "key_count"
      [] OTHER -> "none"

\* The rows launch k reaches, with attribute n, in the buffer it bounds.
Reach(k, ins, n) ==
    CASE k = "kv-write" -> n + Rows(storage[ins[2]])
      [] k = "attention" -> n
      [] OTHER -> 0

BoundedOperand(k, ins) ==
    CASE k = "kv-write" -> ins[1]
      [] k = "attention" -> ins[2]
      [] OTHER -> None

\* The checks of kv-write and attention: rows of one width, or query heads
\* that share out among those of K.
InBounds(k, ins, n) ==
    LET b == BoundedOperand(k, ins) IN
    /\ b # None => Reach(k, ins, n) <= Rows(storage[b])
    /\ k = "kv-write" => Width(storage[ins[1]]) = Width(storage[ins[2]])
    /\ k = "attention" =>
        /\ Rows(storage[ins[1]]) <= n
        /\ Width(storage[ins[1]]) % Width(storage[ins[2]]) = 0

\* Attribute values: a row offset, or a number of keys.
Attributes(k) == IF Attribute(k) = "none" THEN {0} ELSE 0..MaxRows

\* The attributes a dispatch of these operands may have.
Fitting(k, ins) == {n \in Attributes(k) : InBounds(k, ins, n)}

\* A decode step's attention keeps one partial per chunk of every row of K:
\* what a scratch buffer serves is counted in these rows.
NeedsScratch(k, ins) == k = "attention" /\ Rows(storage[ins[1]]) = 1
ScratchServes(k, ins) ==
    NeedsScratch(k, ins) =>
        /\ scratch # <<>>
        /\ scratch[Len(scratch)] >= Rows(storage[ins[2]])

\* The output's old buffer serves again: offered, of the output's length in
\* floats.
ReusesOutput(k, ins, out) ==
    /\ Held(out)
    /\ ~storage[out].compact
    /\ Floats(storage[out]) = OutputShape(k, ins)[1] * OutputShape(k, ins)[2]
    /\ \A p \in 1..Arity(k) : ins[p] # out

WritesInPlace(k, ins, out) == k = "kv-write" /\ out = ins[1]

\* Plausible bug: an outgrown scratch buffer is freed.
KeepCurrentOnly == {Len(scratch) + 1}

\* Growing the scratch keeps every buffer it outgrew.
KeepOutgrown == kept \cup {Len(scratch) + 1}

\* Whether the lookup of kernel k meets an id its table does not have.
MeetsInvalidId(k, ins) ==
    k = "embedding" /\ memory[storage[ins[2]].addr] >= Rows(storage[ins[1]])

\* A dispatch outside a capture.  Compact operands of f32 arguments move to
\* new buffers at e; the output reuses its buffer or gets one at a.
RunKernel(k, ins, out, e, a, v) ==
    LET expanded == [i \in Ids |-> IF i \in ToExpand(k, ins)
                                   THEN F32(e[i], storage[i].shape) ELSE storage[i]]
        output == IF WritesInPlace(k, ins, out) THEN expanded[out]
                  ELSE F32(a, OutputShape(k, ins))
    IN
    /\ storage' = [expanded EXCEPT ![out] = output]
    /\ memory' = [b \in Addrs |->
                    IF b = output.addr THEN v
                    ELSE IF \E i \in ToExpand(k, ins) : e[i] = b
                         THEN memory[storage[CHOOSE i \in ToExpand(k, ins) : e[i] = b].addr]
                         ELSE memory[b]]
    /\ IF ScratchServes(k, ins) THEN UNCHANGED kernelVars
       ELSE /\ scratch' = Append(scratch, Rows(storage[ins[2]]))
            /\ kept' = KeepOutgrown

Dispatch(k, ins, out, v) ==
    /\ ~Capturing
    /\ OperandsHeld(k, ins)
    /\ Fitting(k, ins) # {} /\ OutputShape(k, ins) \in Shapes
    /\ k = "kv-write" => out = ins[1]
    /\ ~MeetsInvalidId(k, ins)
    /\ \E e \in [ToExpand(k, ins) -> Free] :
        /\ \A i, j \in ToExpand(k, ins) : e[i] = e[j] => i = j
        /\ \E a \in Addrs :
            /\ IF ReusesOutput(k, ins, out) \/ WritesInPlace(k, ins, out)
               THEN a = storage[out].addr
               ELSE a \in Free \ {e[i] : i \in ToExpand(k, ins)}
            /\ RunKernel(k, ins, out, e, a, v)
    /\ replayed' = None
    /\ UNCHANGED captureVars

\* A lookup that meets an invalid id loses the output buffer it had taken.
LookupFails(ins, out) ==
    /\ ~Capturing
    /\ "embedding" \in Kernels
    /\ OperandsHeld("embedding", ins)
    /\ ~storage[ins[2]].compact
    /\ MeetsInvalidId("embedding", ins)
    /\ ReusesOutput("embedding", ins, out)
    /\ storage' = [storage EXCEPT ![out] = None]
    /\ replayed' = None
    /\ UNCHANGED <<memory, kernelVars, captureVars>>

----------------------------------------------------------------------------
(* Dispatches while capturing: launched into the graph, not run.           *)

\* Plausible bug: only what the launch reads is recorded.
TouchedInputs(k, ins, out) == {ins[p] : p \in 1..Arity(k)}

\* The resources record_captured_resources adds: inputs and output.
Touched(k, ins, out) == {ins[p] : p \in 1..Arity(k)} \cup {out}

\* Plausible bug: the rows the launch itself reaches are not counted.
RoomFromStart(k, ins, n) == Rows(storage[BoundedOperand(k, ins)])

\* Plausible bug: off by one, below zero when the launch fills its buffer.
RoomPastRows(k, ins, n) == Rows(storage[BoundedOperand(k, ins)]) - Reach(k, ins, n) - 1

\* The largest offset the launch stays within its buffer for.
Room(k, ins, n) == Rows(storage[BoundedOperand(k, ins)]) - Reach(k, ins, n)

Launch(k, ins, out, n) ==
    LET bounded == BoundedOperand(k, ins) # None IN
    [touches |-> {storage[i] : i \in {ins[p] : p \in 1..Arity(k)} \cup {out}},
     out |-> storage[out].addr,
     ids |-> IF k = "embedding" THEN storage[ins[2]].addr ELSE None,
     vocab |-> IF k = "embedding" THEN Rows(storage[ins[1]]) ELSE None,
     bounded |-> IF bounded THEN storage[BoundedOperand(k, ins)].addr ELSE None,
     last |-> Reach(k, ins, n),
     width |-> IF bounded THEN Width(storage[BoundedOperand(k, ins)]) ELSE 0,
     advances |-> Attribute(k) \in capture.advancing,
     scratch |-> IF NeedsScratch(k, ins) THEN Len(scratch) ELSE None]

\* Nothing the dispatch needs is allocated.
NeedsNothingNew(k, ins, out) ==
    ReusesOutput(k, ins, out) \/ WritesInPlace(k, ins, out)

\* The buffer the output reuses keeps its address and length, and takes the
\* output's shape.
Captured(k, ins, out) ==
    IF WritesInPlace(k, ins, out) THEN storage
    ELSE [storage EXCEPT ![out].shape = OutputShape(k, ins)]

\* A launch that advances lowers the offset the capture can be replayed to.
\* A dispatch that would allocate or expand fails it: ForbidInCapture.  What
\* a failed capture records further is discarded with it, and left out.
CaptureDispatch(k, ins, out, n) ==
    /\ Capturing
    /\ ~capture.failure
    /\ Len(capture.ops) < Len(Step) /\ k = Step[Len(capture.ops) + 1]
    /\ OperandsHeld(k, ins)
    /\ k = "kv-write" => out = ins[1]
    /\ ToExpand(k, ins) = {}
    /\ InBounds(k, ins, n) /\ OutputShape(k, ins) \in Shapes
    /\ ScratchServes(k, ins)
    /\ NeedsNothingNew(k, ins, out)
    /\ storage' = Captured(k, ins, out)
    /\ capture' = [capture EXCEPT
                    !.ops = Append(@, Launch(k, ins, out, n)),
                    !.maxOffset = IF Attribute(k) \in capture.advancing
                                  THEN Smaller(@, Room(k, ins, n)) ELSE @]
    /\ recording' = [resources |->
                        [i \in Ids |-> IF i \in Touched(k, ins, out)
                                       THEN SpanOf(storage[i])
                                       ELSE recording.resources[i]],
                     embeddingIds |->
                        [i \in Ids |-> IF k = "embedding" /\ i = ins[2]
                                       THEN Rows(storage[ins[1]])
                                       ELSE recording.embeddingIds[i]]]
    /\ replayed' = None
    /\ UNCHANGED <<memory, kernelVars, captures, nextCapture>>

----------------------------------------------------------------------------
(* Beginning, ending and aborting a capture.                               *)

BeginCapture(advancing) ==
    /\ ~Capturing
    /\ nextCapture < MaxCaptures
    /\ recording' = [resources |-> [i \in Ids |-> None],
                     embeddingIds |-> [i \in Ids |-> None]]
    /\ capture' = [advancing |-> advancing, maxOffset |-> MaxOffset,
                   failure |-> FALSE, ops |-> <<>>]
    /\ replayed' = None
    /\ UNCHANGED <<storage, memory, kernelVars, captures, nextCapture>>

\* Memory m after the first k launches, launch j writing contents w[j].
AfterLaunches(m, ops, w) ==
    LET After[k \in 0..Len(ops)] ==
            IF k = 0 THEN m ELSE [After[k - 1] EXCEPT ![ops[k].out] = w[k]]
    IN After

\* The launches whose lookup meets an id its table does not have.
InvalidLookups(m, ops, w) ==
    {k \in 1..Len(ops) :
        /\ ops[k].ids # None
        /\ AfterLaunches(m, ops, w)[k - 1][ops[k].ids] >= ops[k].vocab}

\* launch_captured: the graph's launches run in order.
Run(m, ops, w) == memory' = AfterLaunches(m, ops, w)[Len(ops)]

\* The graph runs once, a capture of no dispatch too: its graph resets the
\* flag.  A lookup that met an invalid id fails the call: the step has run but
\* is not kept.
EndCapture(w) ==
    /\ Capturing
    /\ ~capture.failure
    /\ Run(memory, capture.ops, w)
    /\ IF InvalidLookups(memory, capture.ops, w) = {}
       THEN /\ nextCapture' = nextCapture + 1
            /\ captures' = [captures EXCEPT ![nextCapture + 1] =
                               [ops |-> capture.ops, maxOffset |-> capture.maxOffset,
                                recording |-> recording]]
       ELSE UNCHANGED <<captures, nextCapture>>
    /\ capture' = None
    /\ recording' = None
    /\ replayed' = None
    /\ UNCHANGED <<storage, kernelVars>>

\* abort_step_capture, or an end_step_capture that fails before the launch.
DropCapture ==
    /\ Capturing
    /\ capture' = None
    /\ recording' = None
    /\ replayed' = None
    /\ UNCHANGED <<storage, memory, kernelVars, captures, nextCapture>>

ReleaseStepCapture(c) ==
    /\ captures[c] # None
    /\ captures' = [captures EXCEPT ![c] = None]
    /\ replayed' = None
    /\ UNCHANGED <<storage, memory, kernelVars, recording, capture, nextCapture>>

----------------------------------------------------------------------------
(* Replaying.  A replay the checks refuse changes nothing.                 *)

\* Every recorded resource is still in its captured buffer.
Current(c) ==
    \A i \in Ids : captures[c].recording.resources[i] # None =>
        Held(i) /\ SpanOf(storage[i]) = captures[c].recording.resources[i]

\* Plausible bug: the id equal to the vocabulary passes.
ChecksIdsUpTo(v, vocab) == v <= vocab

ValidId(v, vocab) == v < vocab

\* inputs: the contents to write, by id.
Accepts(c, offset, inputs) ==
    /\ captures[c] # None
    /\ offset <= captures[c].maxOffset
    /\ Current(c)
    /\ \A i \in DOMAIN inputs :
        LET r == captures[c].recording IN
        /\ r.resources[i] # None
        /\ r.embeddingIds[i] # None => ValidId(inputs[i], r.embeddingIds[i])

\* Memory once the inputs of these ids are written into their buffers.
Written(inputs, ids) ==
    [a \in Addrs |->
        IF \E i \in ids : storage[i].addr = a
        THEN inputs[CHOOSE i \in ids : storage[i].addr = a]
        ELSE memory[a]]

\* While a capture is in progress the effect of a replay is the driver's to
\* say: not modelled.
ReplayStep(c, offset, inputs, w) ==
    LET ops == captures[c].ops
        m == Written(inputs, DOMAIN inputs)
    IN
    /\ ~Capturing
    /\ Accepts(c, offset, inputs)
    /\ \A i \in DOMAIN inputs : ~storage[i].compact
    /\ Run(m, ops, w)
    /\ replayed' = [capture |-> c, supplied |-> DOMAIN inputs,
                    invalid |-> InvalidLookups(m, ops, w)]
    /\ UNCHANGED <<storage, kernelVars, captureVars>>

\* An input of another length, a compact one, or a transfer that fails; or
\* every input is written and the graph is then not launched.  The inputs
\* written keep their new contents.
ReplayWriteFails(c, offset, inputs, written) ==
    /\ ~Capturing
    /\ Accepts(c, offset, inputs)
    /\ written \subseteq DOMAIN inputs
    /\ \A i \in written : ~storage[i].compact
    /\ memory' = Written(inputs, written)
    /\ replayed' = None
    /\ UNCHANGED <<storage, kernelVars, captureVars>>

----------------------------------------------------------------------------
HostStep ==
    \/ \E i \in Ids, a \in Addrs, shape \in Shapes, compact \in Formats, v \in Vals :
        WriteTensor(i, a, shape, compact, v)
    \/ \E i \in Ids : ReleaseTensor(i)

DispatchStep ==
    \E ins \in Ids \X Ids, out \in Ids :
        \/ \E k \in Kernels :
            \/ \E v \in Vals : Dispatch(k, ins, out, v)
            \/ \E n \in Attributes(k) : CaptureDispatch(k, ins, out, n)
        \/ LookupFails(ins, out)

\* The contents launches may write: one per launch.
Writes(n) == [1..n -> Vals]

CaptureStep ==
    \/ \E advancing \in Advances : BeginCapture(advancing)
    \/ ForbidInCapture
    \/ Capturing /\ \E w \in Writes(Len(capture.ops)) : EndCapture(w)
    \/ DropCapture
    \/ \E c \in CaptureIds : ReleaseStepCapture(c)

Inputs == UNION {[s -> Vals] : s \in {t \in SUBSET Ids : Cardinality(t) <= MaxInputs}}

ReplayAny ==
    \E c \in {d \in CaptureIds : captures[d] # None}, offset \in Offsets, inputs \in Inputs :
        \/ \E w \in Writes(Len(captures[c].ops)) : ReplayStep(c, offset, inputs, w)
        \/ \E written \in SUBSET DOMAIN inputs :
            ReplayWriteFails(c, offset, inputs, written)

Next == HostStep \/ DispatchStep \/ CaptureStep \/ ReplayAny

Spec == Init /\ [][Next]_vars

----------------------------------------------------------------------------
(* Correctness.                                                            *)

\* A buffer as launched is in the table: same address, same length.
InTable(b) == \E i \in Ids : Held(i) /\ SpanOf(storage[i]) = SpanOf(b)

\* A replay the checks accept touches no freed or moved buffer: every buffer
\* its graph holds the address of is still in the table, and every scratch
\* buffer it was captured with is still allocated.
ReplayTouchesOnlyHeldBuffers ==
    \A c \in CaptureIds : captures[c] # None /\ Current(c) =>
        \A k \in 1..Len(captures[c].ops) :
            LET op == captures[c].ops[k] IN
            /\ \A b \in op.touches : InTable(b)
            /\ op.scratch # None => op.scratch \in kept

\* At every offset a replay may be given, each launch stays within the floats
\* the buffer it writes or reads by offset has now, whatever their shape.
ReplayStaysInBounds ==
    \A c \in CaptureIds : captures[c] # None /\ Current(c) =>
        \A k \in 1..Len(captures[c].ops) :
            LET op == captures[c].ops[k] IN
            op.bounded # None =>
                \A i \in Ids : Held(i) /\ storage[i].addr = op.bounded =>
                    (op.last + (IF op.advances THEN captures[c].maxOffset ELSE 0)) * op.width
                        <= Floats(storage[i])

\* Token ids a replay supplies are checked before anything is written: a
\* lookup meets an invalid id only in ids that were not supplied, that the
\* step itself computed, or that several lookups read with different tables.
SuppliedIdsAreChecked ==
    replayed # None =>
        LET ops == captures[replayed.capture].ops IN
        \A k \in replayed.invalid :
            \/ \A i \in replayed.supplied : storage[i].addr # ops[k].ids
            \/ \E j \in 1..(k - 1) : ops[j].out = ops[k].ids
            \/ \E j \in 1..Len(ops) :
                ops[j].ids = ops[k].ids /\ ops[j].vocab # ops[k].vocab

\* "every replay checks its ids on the host" (kernels.rs, embedding_lookup):
\* no replayed lookup meets an invalid id.
EveryReplayMeetsValidIds == replayed # None => replayed.invalid = {}

\* A captured step is "the exact buffers it reads and writes"
\* (CapturedExecutorStep): what an accepted replay reads as bfloat16 bits is
\* a compact buffer, what it reads or writes as f32 is not.
ReplayReadsCapturedFormat ==
    \A c \in CaptureIds : captures[c] # None /\ Current(c) =>
        \A k \in 1..Len(captures[c].ops) : \A b \in captures[c].ops[k].touches :
            \A i \in Ids : Held(i) /\ storage[i].addr = b.addr =>
                storage[i].compact = b.compact
=============================================================================
