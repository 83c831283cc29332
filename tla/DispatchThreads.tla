--------------------------- MODULE DispatchThreads ---------------------------
(***************************************************************************)
(* Threads that share one executor: each dispatches kernels, begins, ends  *)
(* or aborts a step capture, or replays one.  A step ends where another    *)
(* thread may come in: wherever a mutex is taken or dropped, and between   *)
(* two launches.  What they share besides the table is one slot for the    *)
(* offered output buffer, one flag on the Device for invalid token ids,    *)
(* one scratch buffer and one capture in progress.                         *)
(*                                                                         *)
(* A buffer is known by its identity; lengths and contents are left out,   *)
(* so whether an offered buffer fits an output is a free choice.  A mutex  *)
(* held for one step only is not represented: taking it is a guard that    *)
(* no thread holds it across steps.  Three kernels stand for the rest:     *)
(* silu for those that use nothing shared but the slot, attention for      *)
(* those that fill a scratch with one launch and read it with the next: a  *)
(* decode step's partials, and the bfloat16 terms of the Tensor Core       *)
(* kernels.  The scratch's own mutex is taken and dropped while the        *)
(* storage lock is held, and by nobody else.  What a captured dispatch     *)
(* records is StepCapture's.                                               *)
(***************************************************************************)
EXTENDS Integers, FiniteSets

CONSTANTS
    Threads,
    Ids,      \* tensor resource ids
    Buffers,  \* bound: device allocations alive at once
    Calls,    \* the calls threads make, a subset of CallNames
    None      \* absence of a buffer or of a lock's holder

KernelNames == {"silu", "embedding", "attention"}
CallNames == KernelNames \cup {"capture", "replay"}

\* step_capture and storage are the executor's, the others CudaKernels'.
Locks == {"step_capture", "storage", "capture", "embedding_flag"}

ASSUME ConstantsOK ==
    /\ Calls \subseteq CallNames
    /\ None \notin Threads \cup Buffers \cup Ids \cup BOOLEAN

VARIABLES
    at,        \* thread -> the point it has reached
    job,       \* thread -> its dispatch
    lock,      \* mutex -> the thread holding it across steps
    storage,   \* id -> device buffer
    offered,   \* CudaKernels.offered_output
    flag,      \* the invalid-id flag on the Device
    partials,  \* whose split filled the scratch last; None for a graph's
    recording, \* whether StepCaptureState.recording is there
    capturing, \* whether CudaKernels.capture is there
    captured   \* whether a step was captured; that it is released again is left out

captureVars == <<recording, capturing, captured>>
deviceVars == <<flag, partials>>
vars == <<at, job, lock, storage, offered, deviceVars, captureVars>>

\* The points of a dispatch, then those of a capture or replay.
DispatchPoints ==
    {"offer", "run", "alloc", "flag", "ask", "reset", "launch", "confirm", "check",
     "split", "combine", "combine in graph", "store", "reclaim", "unguard", "put back", "drop"}
CapturePoints == {"begin", "start", "end", "graph", "verify", "abort", "current", "replay"}
Points == {"idle"} \cup DispatchPoints \cup CapturePoints

\* previous: the output's old buffer, taken out of the table.  buffer: what
\* the kernel writes.  back: what it found on offer after a failure.
\* invalid, history: whether its lookup met an invalid id since it reset the
\* flag; None before that, and from when another thread launches a graph or
\* begins a capture before it looks at the flag.
Jobs ==
    [kernel : KernelNames, out : Ids,
     previous : Buffers \cup {None}, buffer : Buffers \cup {None},
     back : Buffers \cup {None}, invalid : BOOLEAN \cup {None}]

TypeOK ==
    /\ at \in [Threads -> Points]
    /\ job \in [Threads -> Jobs \cup {None}]
    /\ \A t \in Threads : at[t] \in DispatchPoints => job[t] \in Jobs
    /\ lock \in [Locks -> Threads \cup {None}]
    /\ storage \in [Ids -> Buffers \cup {None}]
    /\ offered \in Buffers \cup {None}
    /\ flag \in BOOLEAN
    /\ partials \in Threads \cup {None}
    /\ recording \in BOOLEAN /\ capturing \in BOOLEAN /\ captured \in BOOLEAN

Init ==
    /\ at = [t \in Threads |-> "idle"]
    /\ job = [t \in Threads |-> None]
    /\ lock = [l \in Locks |-> None]
    /\ storage = [i \in Ids |-> None]
    /\ offered = None
    /\ flag = FALSE
    /\ partials = None
    /\ recording = FALSE /\ capturing = FALSE /\ captured = FALSE

Unheld(l) == lock[l] = None
Holding(l, t) == [lock EXCEPT ![l] = t]
Releasing(ls) == [l \in Locks |-> IF l \in ls THEN None ELSE lock[l]]

Goes(t, from, to) == at[t] = from /\ at' = [at EXCEPT ![t] = to]

\* The buffers a thread owns: the old output until it offers it, the new one
\* until it stores it, and what it took back.
Hands(t) ==
    {b \in Buffers :
        \/ at[t] = "offer" /\ b = job[t].previous
        \/ at[t] \in {"flag", "ask", "reset", "launch", "confirm", "check",
                       "split", "combine", "combine in graph", "store"}
              /\ b = job[t].buffer
        \/ at[t] \in {"unguard", "put back"} /\ b = job[t].back}

InUse == ({storage[i] : i \in Ids} \cup {offered} \cup UNION {Hands(t) : t \in Threads})
            \ {None}

----------------------------------------------------------------------------
(* Host operations, each under the storage lock.                           *)

WriteTensor(i) ==
    /\ Unheld("storage") /\ Unheld("capture")
    /\ ~capturing
    /\ \E b \in Buffers \ InUse : storage' = [storage EXCEPT ![i] = b]
    /\ UNCHANGED <<at, job, lock, offered, deviceVars, captureVars>>

ReleaseTensor(i) ==
    /\ Unheld("storage")
    /\ storage[i] # None
    /\ storage' = [storage EXCEPT ![i] = None]
    /\ UNCHANGED <<at, job, lock, offered, deviceVars, captureVars>>

----------------------------------------------------------------------------
(* A dispatch (run_invocation_uncaptured).                                 *)

\* Plausible bug: the resource is forgotten with its buffer.
ForgetsEntry(i) == [j \in Ids \ {i} |-> storage[j]]

\* Plausible bug: the table goes on holding the buffer it lends.
LendsFromTable(i) == storage

TakesFromTable(i) == [storage EXCEPT ![i] = None]

\* The output's old buffer leaves the table, unless the kernel reads it.
TakePrevious(t, k, out, reads) ==
    /\ Goes(t, "idle", "offer")
    /\ k \in Calls
    /\ Unheld("storage")
    /\ LET previous == IF reads THEN None ELSE storage[out] IN
        /\ job' = [job EXCEPT ![t] =
                    [kernel |-> k, out |-> out, previous |-> previous,
                     buffer |-> None, back |-> None, invalid |-> None]]
        /\ storage' = IF previous = None THEN storage ELSE TakesFromTable(out)
    /\ UNCHANGED <<lock, offered, deviceVars, captureVars>>

\* Whatever another thread had on offer is dropped.
OfferOutput(t) ==
    /\ Goes(t, "offer", "run")
    /\ offered' = job[t].previous
    /\ UNCHANGED <<job, lock, storage, deviceVars, captureVars>>

\* After a failure the buffer is asked back only if one was offered.
FailurePoint(t) == IF job[t].previous = None THEN "drop" ELSE "reclaim"

\* The storage lock is held from here until the kernel is launched, all its
\* launches, and for an embedding lookup until it has looked at the flag.
\* The input may be the output only if its buffer was left in the table.
EnterKernel(t) ==
    /\ Goes(t, "run", "alloc")
    /\ Unheld("storage")
    /\ \E in \in Ids :
        /\ storage[in] # None
        /\ in = job[t].out => job[t].previous = None
    /\ lock' = Holding("storage", t)
    /\ UNCHANGED <<job, storage, offered, deviceVars, captureVars>>

\* An operand missing, a shape or an attribute not supported.
RejectInputs(t) ==
    /\ Goes(t, "run", FailurePoint(t))
    /\ Unheld("storage")
    /\ UNCHANGED <<job, lock, storage, offered, deviceVars, captureVars>>

\* The kernel's output: the buffer on offer if it fits, or a new one, which
\* a capture in progress refuses (alloc_output).
AfterAlloc(t) ==
    CASE job[t].kernel = "embedding" -> "flag"
      [] job[t].kernel = "attention" -> "split"
      [] OTHER -> "store"

\* Plausible bug: only a lookup keeps the storage lock for its launches.
DropsUnlessLookup(t) == IF job[t].kernel = "embedding" THEN lock ELSE Releasing({"storage"})

LocksAfterAlloc(t) == IF job[t].kernel = "silu" THEN Releasing({"storage"}) ELSE lock

TakeOffered(t) ==
    /\ Goes(t, "alloc", AfterAlloc(t))
    /\ offered # None
    /\ job' = [job EXCEPT ![t].buffer = offered]
    /\ offered' = None
    /\ lock' = LocksAfterAlloc(t)
    /\ UNCHANGED <<storage, deviceVars, captureVars>>

AllocateFresh(t) ==
    /\ Goes(t, "alloc", AfterAlloc(t))
    /\ Unheld("capture")
    /\ ~capturing
    /\ \E b \in Buffers \ InUse : job' = [job EXCEPT ![t].buffer = b]
    /\ lock' = LocksAfterAlloc(t)
    /\ UNCHANGED <<storage, offered, deviceVars, captureVars>>

\* No memory, a capture in progress, or a launch that fails: silu's, which
\* has the offered buffer in hand then and drops it.
KernelFails(t) ==
    /\ Goes(t, "alloc", FailurePoint(t))
    /\ Unheld("capture")
    /\ lock' = Releasing({"storage"})
    /\ \/ UNCHANGED <<job, offered>>
       \/ /\ job[t].kernel = "silu" /\ offered # None
          /\ job' = [job EXCEPT ![t].buffer = offered]
          /\ offered' = None
    /\ UNCHANGED <<storage, deviceVars, captureVars>>

----------------------------------------------------------------------------
(* embedding_lookup, its output allocated and the storage lock held.       *)

LockFlag(t) ==
    /\ Goes(t, "flag", "ask")
    /\ Unheld("embedding_flag")
    /\ lock' = Holding("embedding_flag", t)
    /\ UNCHANGED <<job, storage, offered, deviceVars, captureVars>>

\* A captured step resets the flag once, at its start; a lookup of its own
\* resets it first.
AskWhetherCapturing(t) ==
    /\ Goes(t, "ask", IF capturing THEN "launch" ELSE "reset")
    /\ Unheld("capture")
    /\ UNCHANGED <<job, lock, storage, offered, deviceVars, captureVars>>

\* Plausible bug: the storage lock goes with the flag's.
DropsBoth == Releasing({"embedding_flag", "storage"})

\* Plausible bug: the flag's guard lives to the end of the lookup.
KeepsFlagLock == lock

DropsFlagLock == Releasing({"embedding_flag"})

\* No capture begins before the flag's lock is dropped.
ResetFlag(t) ==
    /\ Goes(t, "reset", "launch")
    /\ flag' = FALSE
    /\ job' = [job EXCEPT ![t].invalid = FALSE]
    /\ UNCHANGED <<lock, storage, offered, partials, captureVars>>

\* Into the graph while capturing, else onto the Device.
LaunchLookup(t) ==
    /\ Goes(t, "launch", "confirm")
    /\ IF capturing THEN UNCHANGED <<flag, job>>
       ELSE \E invalid \in BOOLEAN :
            /\ flag' = (invalid \/ flag)
            /\ job' = [job EXCEPT ![t].invalid = IF job[t].invalid = None THEN None ELSE invalid]
    /\ lock' = DropsFlagLock
    /\ UNCHANGED <<storage, offered, partials, captureVars>>

\* No flag to be had, or no launch.  A flag that the failure leaves out of
\* its slot is allocated anew, zeroed, and until then reads as not set.
LaunchLookupFails(t) ==
    /\ \E from \in {"ask", "reset", "launch"} : Goes(t, from, FailurePoint(t))
    /\ at[t] = "ask" => ~flag
    /\ flag' \in {FALSE, flag}
    /\ job' = [job EXCEPT ![t].invalid = None]
    /\ lock' = Releasing({"embedding_flag", "storage"})
    /\ UNCHANGED <<storage, offered, partials, captureVars>>

\* While capturing, the flag is looked at when the captured step has run.
ConfirmInCapture(t) ==
    /\ Goes(t, "confirm", "store")
    /\ Unheld("capture")
    /\ capturing
    /\ job' = [job EXCEPT ![t].invalid = None]
    /\ lock' = Releasing({"storage"})
    /\ UNCHANGED <<storage, offered, deviceVars, captureVars>>

ConfirmOutsideCapture(t) ==
    /\ Goes(t, "confirm", "check")
    /\ Unheld("capture")
    /\ ~capturing
    /\ UNCHANGED <<job, lock, storage, offered, deviceVars, captureVars>>

\* A copy from the Device while another thread captures may fail as well.
CheckEmbeddingFlag(t) ==
    /\ \/ ~flag /\ Goes(t, "check", "store")
       \/ (flag \/ capturing) /\ Goes(t, "check", FailurePoint(t))
    /\ Unheld("embedding_flag")
    /\ job' = [job EXCEPT ![t].invalid = None]
    /\ lock' = Releasing({"storage"})
    /\ UNCHANGED <<storage, offered, deviceVars, captureVars>>

----------------------------------------------------------------------------
(* attention_split, its output allocated and the storage lock held.        *)

LaunchSplit(t) ==
    /\ IF capturing THEN Goes(t, "split", "combine in graph") /\ UNCHANGED partials
       ELSE Goes(t, "split", "combine") /\ partials' = t
    /\ UNCHANGED <<job, lock, storage, offered, flag, captureVars>>

LaunchCombine(t) ==
    /\ \E from \in {"combine", "combine in graph"} : Goes(t, from, "store")
    /\ lock' = Releasing({"storage"})
    /\ UNCHANGED <<job, storage, offered, deviceVars, captureVars>>

\* Either launch fails.
LaunchAttentionFails(t) ==
    /\ \E from \in {"split", "combine", "combine in graph"} : Goes(t, from, FailurePoint(t))
    /\ lock' = Releasing({"storage"})
    /\ UNCHANGED <<job, storage, offered, deviceVars, captureVars>>

----------------------------------------------------------------------------
(* Storing the output, or taking the offered buffer back.                  *)

StoreOutput(t) ==
    /\ Goes(t, "store", "drop")
    /\ Unheld("storage")
    /\ storage' = [storage EXCEPT ![job[t].out] = job[t].buffer]
    /\ UNCHANGED <<job, lock, offered, deviceVars, captureVars>>

\* The slot is emptied: into this thread's hand...
Reclaim(t) ==
    /\ Goes(t, "reclaim", "unguard")
    /\ job' = [job EXCEPT ![t].back = offered]
    /\ offered' = None
    /\ UNCHANGED <<lock, storage, deviceVars, captureVars>>

\* ... and once more as the guard drops, which then frees what it finds.
DropGuard(t) ==
    /\ Goes(t, "unguard", "put back")
    /\ offered' = None
    /\ UNCHANGED <<job, lock, storage, deviceVars, captureVars>>

Return(t) ==
    /\ Goes(t, "drop", "idle")
    /\ offered' = None
    /\ job' = [job EXCEPT ![t] = None]
    /\ UNCHANGED <<lock, storage, deviceVars, captureVars>>

PutBack(t) ==
    /\ Goes(t, "put back", "idle")
    /\ IF job[t].back = None THEN UNCHANGED storage
       ELSE /\ Unheld("storage")
            /\ storage' = [storage EXCEPT ![job[t].out] = job[t].back]
    /\ job' = [job EXCEPT ![t] = None]
    /\ UNCHANGED <<lock, offered, deviceVars, captureVars>>

----------------------------------------------------------------------------
(* Captures and replays, under the step_capture lock.                      *)

\* The lookups of other threads that are on their way to the flag.
Meddled(t) ==
    [u \in Threads |-> IF u # t /\ at[u] \in {"launch", "confirm", "check"}
                       THEN [job[u] EXCEPT !.invalid = None] ELSE job[u]]

BeginStepCapture(t) ==
    /\ Goes(t, "idle", "begin")
    /\ "capture" \in Calls
    /\ Unheld("step_capture")
    /\ ~recording
    /\ lock' = Holding("step_capture", t)
    /\ UNCHANGED <<job, storage, offered, deviceVars, captureVars>>

LockCapture(t) ==
    /\ Goes(t, "begin", "start")
    /\ Unheld("capture")
    /\ ~capturing
    /\ lock' = Holding("capture", t)
    /\ UNCHANGED <<job, storage, offered, deviceVars, captureVars>>

\* A capture whose recording is gone already is still in progress; or the
\* driver refuses.
BeginRefused(t) ==
    /\ \/ Goes(t, "begin", "idle") /\ Unheld("capture") /\ capturing
       \/ Goes(t, "start", "idle")
    /\ lock' = Releasing({"step_capture", "capture"})
    /\ UNCHANGED <<job, storage, offered, deviceVars, captureVars>>

\* The reset of the flag is the graph's first work, not the Device's.
StartCapture(t) ==
    /\ Goes(t, "start", "idle")
    /\ Unheld("embedding_flag")
    /\ capturing' = TRUE
    /\ recording' = TRUE
    /\ job' = Meddled(t)
    /\ lock' = Releasing({"step_capture", "capture"})
    /\ UNCHANGED <<storage, offered, deviceVars, captured>>

\* The recording is taken, and lost unless a capture comes of it.
EndStepCapture(t) ==
    /\ Goes(t, "idle", "end")
    /\ Unheld("step_capture")
    /\ recording
    /\ recording' = FALSE
    /\ lock' = Holding("step_capture", t)
    /\ UNCHANGED <<job, storage, offered, deviceVars, capturing, captured>>

\* A capture that failed, or that another thread has aborted, ends here.  The
\* driver's part, the lock dropped, is one step with the taking of it.
EndCapture(t) ==
    /\ Unheld("capture")
    /\ \/ capturing /\ Goes(t, "end", "graph") /\ UNCHANGED lock
       \/ Goes(t, "end", "idle") /\ lock' = Releasing({"step_capture"})
    /\ capturing' = FALSE
    /\ UNCHANGED <<job, storage, offered, deviceVars, recording, captured>>

\* The graph resets the flag, its lookups set it, and its splits fill the
\* scratch that every launch uses.
RunGraph(t) ==
    /\ flag' \in BOOLEAN
    /\ partials' \in {partials, None}
    /\ job' = Meddled(t)

LaunchEnded(t) ==
    /\ Goes(t, "graph", "verify")
    /\ RunGraph(t)
    /\ UNCHANGED <<lock, storage, offered, captureVars>>

\* A launch that fails, or a step without a lookup, which is kept whatever
\* the flag.
LaunchEndedUnverified(t) ==
    /\ Goes(t, "graph", "idle")
    /\ RunGraph(t)
    /\ captured' \in {captured, TRUE}
    /\ lock' = Releasing({"step_capture"})
    /\ UNCHANGED <<storage, offered, recording, capturing>>

VerifyEnded(t) ==
    /\ Goes(t, "verify", "idle")
    /\ Unheld("embedding_flag")
    /\ captured' = (captured \/ ~flag)
    /\ lock' = Releasing({"step_capture"})
    /\ UNCHANGED <<job, storage, offered, deviceVars, recording, capturing>>

AbortStepCapture(t) ==
    /\ Goes(t, "idle", "abort")
    /\ "capture" \in Calls
    /\ Unheld("step_capture")
    /\ recording' = FALSE
    /\ UNCHANGED <<job, lock, storage, offered, deviceVars, capturing, captured>>

\* Whatever capture is in progress by now.
AbortCapture(t) ==
    /\ Goes(t, "abort", "idle")
    /\ Unheld("capture")
    /\ capturing' = FALSE
    /\ UNCHANGED <<job, lock, storage, offered, deviceVars, recording, captured>>

\* The captured step is looked up and its largest offset compared.
ReplayStep(t) ==
    /\ Goes(t, "idle", "current")
    /\ "replay" \in Calls
    /\ captured
    /\ Unheld("step_capture")
    /\ lock' = Holding("step_capture", t)
    /\ UNCHANGED <<job, storage, offered, deviceVars, captureVars>>

\* The other checks and the inputs, under the storage lock too; it is dropped
\* before the graph is launched.  Or the replay is refused, or fails.
PrepareReplay(t) ==
    /\ \/ Goes(t, "current", "replay") /\ Unheld("storage") /\ UNCHANGED lock
       \/ Goes(t, "current", "idle") /\ lock' = Releasing({"step_capture"})
    /\ UNCHANGED <<job, storage, offered, deviceVars, captureVars>>

\* On a stream that captures the launch is the driver's to answer.
LaunchReplay(t) ==
    /\ Goes(t, "replay", "idle")
    /\ IF capturing THEN UNCHANGED <<deviceVars, job>> ELSE RunGraph(t)
    /\ lock' = Releasing({"step_capture"})
    /\ UNCHANGED <<storage, offered, captureVars>>

----------------------------------------------------------------------------
DispatchStep(t) ==
    \/ \E k \in Calls \cap KernelNames, out \in Ids, reads \in BOOLEAN :
        TakePrevious(t, k, out, reads)
    \/ OfferOutput(t)
    \/ EnterKernel(t)
    \/ RejectInputs(t)
    \/ TakeOffered(t)
    \/ AllocateFresh(t)
    \/ KernelFails(t)
    \/ StoreOutput(t)
    \/ Reclaim(t)
    \/ DropGuard(t)
    \/ PutBack(t)
    \/ Return(t)

LookupStep(t) ==
    \/ LockFlag(t)
    \/ AskWhetherCapturing(t)
    \/ ResetFlag(t)
    \/ LaunchLookup(t)
    \/ LaunchLookupFails(t)
    \/ ConfirmInCapture(t)
    \/ ConfirmOutsideCapture(t)
    \/ CheckEmbeddingFlag(t)

AttentionStep(t) ==
    \/ LaunchSplit(t)
    \/ LaunchCombine(t)
    \/ LaunchAttentionFails(t)

CaptureStep(t) ==
    \/ BeginStepCapture(t)
    \/ LockCapture(t)
    \/ BeginRefused(t)
    \/ StartCapture(t)
    \/ EndStepCapture(t)
    \/ EndCapture(t)
    \/ LaunchEnded(t)
    \/ LaunchEndedUnverified(t)
    \/ VerifyEnded(t)
    \/ AbortStepCapture(t)
    \/ AbortCapture(t)
    \/ ReplayStep(t)
    \/ PrepareReplay(t)
    \/ LaunchReplay(t)

Next ==
    \/ \E i \in Ids : WriteTensor(i) \/ ReleaseTensor(i)
    \/ \E t \in Threads : DispatchStep(t) \/ LookupStep(t) \/ AttentionStep(t) \/ CaptureStep(t)

Spec == Init /\ [][Next]_vars

----------------------------------------------------------------------------
(* Correctness.                                                            *)

\* However threads overlap, a buffer has one owner: one entry of the table,
\* the slot, or one thread.  So no kernel writes a buffer that another one
\* writes, or that the table still holds, though a kernel may well be given
\* the buffer that another thread has on offer.
BuffersHaveOneOwner ==
    /\ \A i, j \in Ids : storage[i] = storage[j] /\ storage[i] # None => i = j
    /\ \A i \in Ids : storage[i] = offered => offered = None
    /\ \A t \in Threads :
        /\ \A i \in Ids : storage[i] \notin Hands(t)
        /\ offered \notin Hands(t)
        /\ \A u \in Threads \ {t} : Hands(t) \cap Hands(u) = {}

\* The one flag serves every thread: when a lookup reads it, the flag tells
\* of that lookup's ids, because lookups follow each other under the storage
\* lock.  Two exceptions, which do not take that lock: a lookup that found a
\* capture in progress, and one that a graph launched or a capture begun by
\* another thread came in between, from the reset of the flag on.
LookupSeesItsOwnFlag ==
    \A t \in Threads :
        at[t] \in {"confirm", "check"} /\ job[t].invalid # None
            => flag = job[t].invalid

\* One scratch serves every thread: between a split on the Device and its
\* combine no other thread's split comes in, because each thread keeps the
\* storage lock for both launches.  Only a graph may, which is launched
\* without that lock.
CombineSeesItsOwnSplit ==
    \A t \in Threads : at[t] = "combine" => partials \in {t, None}

\* "The split Kernel writes every partial of this launch before the combine
\* Kernel reads it, on this same stream" (attention_split): and nothing else
\* writes them in between.
CombineReadsItsOwnPartials ==
    \A t \in Threads : at[t] = "combine" => partials = t

\* "A dispatch that fails before a Kernel takes the buffer puts it back"
\* (run_invocation_uncaptured): what goes back is the buffer it took.
PutsItsOwnBack ==
    \A t \in Threads :
        at[t] = "put back" /\ job[t].buffer = None => job[t].back = job[t].previous

\* The lock a thread takes next, while it may hold others.
Wants(t) ==
    CASE at[t] \in {"run", "store", "put back", "current"} -> "storage"
      [] at[t] \in {"alloc", "ask", "confirm", "begin", "end", "abort"} -> "capture"
      [] at[t] \in {"flag", "check", "start", "verify"} -> "embedding_flag"
      [] OTHER -> "none"

\* "Starts capturing this stream's work" (begin_capture), whatever lookup is
\* under way: no two threads wait for a lock the other one holds.
NoCircularWait ==
    ~ \E t, u \in Threads :
        /\ Wants(t) \in Locks /\ Wants(u) \in Locks
        /\ t # u
        /\ lock[Wants(t)] = u /\ lock[Wants(u)] = t

\* Threads that wait for each other, however many; or one for itself, as a
\* mutex is not reentrant.
Entangled(ts) ==
    /\ ts # {}
    /\ \A t \in ts : Wants(t) \in Locks /\ lock[Wants(t)] \in ts

\* The begin and the lookup that NoCircularWait is about are the only threads
\* that may wait for each other for ever: everywhere else step_capture comes
\* before storage, storage before embedding_flag, and that before capture.
OneCircleOnly ==
    \A ts \in SUBSET Threads :
        Entangled(ts) => \E t, u \in ts : at[t] = "start" /\ at[u] = "ask"
=============================================================================
