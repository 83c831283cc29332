------------------------ MODULE DispatchThreadsProofs ------------------------
(***************************************************************************)
(* Ownership of buffers, the flag a lookup reads, the partials an          *)
(* attention combines, and the circles in which threads may wait for each  *)
(* other's locks, for any number of threads.                               *)
(***************************************************************************)
EXTENDS DispatchThreads, TLAPS

USE DEF Points, DispatchPoints, CapturePoints, Locks, deviceVars

\* The type of everything but the threads' control state.
DataTyped ==
    /\ lock \in [Locks -> Threads \cup {None}]
    /\ storage \in [Ids -> Buffers \cup {None}]
    /\ offered \in Buffers \cup {None}
    /\ flag \in BOOLEAN
    /\ partials \in Threads \cup {None}
    /\ recording \in BOOLEAN /\ capturing \in BOOLEAN /\ captured \in BOOLEAN

LEMMA DataOfTypeOK == TypeOK => DataTyped
BY DEF TypeOK, DataTyped

\* What every kind of step does to the control state: kept apart from the
\* data, so that each action's proof says only what it changes.
LEMMA GoesTyped ==
    ASSUME TypeOK, NEW t \in Threads, NEW from, NEW to \in Points, Goes(t, from, to)
    PROVE  at' \in [Threads -> Points] /\ at'[t] = to /\ at[t] = from
           /\ \A u \in Threads : u # t => at'[u] = at[u]
BY DEF TypeOK, Goes

\* A thread within a dispatch has the record of it.
LEMMA DispatchHasJob ==
    ASSUME TypeOK, NEW t \in Threads, NEW from \in DispatchPoints, NEW to, Goes(t, from, to)
    PROVE  job[t] \in Jobs
<1>1. at[t] = from
  BY DEF Goes
<1> QED BY <1>1 DEF TypeOK

\* A thread that moves on keeps the dispatches typed if its own is.
LEMMA DispatchesTyped ==
    ASSUME TypeOK, NEW t \in Threads, NEW from, NEW to \in Points, Goes(t, from, to),
           job' \in [Threads -> Jobs \cup {None}],
           \A u \in Threads : u # t /\ job[u] \in Jobs => job'[u] \in Jobs,
           to \in DispatchPoints => job'[t] \in Jobs
    PROVE  \A u \in Threads : at'[u] \in DispatchPoints => job'[u] \in Jobs
<1> SUFFICES ASSUME NEW u \in Threads, at'[u] \in DispatchPoints
             PROVE  job'[u] \in Jobs
  OBVIOUS
<1>1. CASE u = t
  <2>1. at'[t] = to
    BY GoesTyped
  <2> QED BY <1>1, <2>1
<1>2. CASE u # t
  <2>1. at'[u] = at[u]
    BY <1>2, GoesTyped
  <2> QED BY <2>1, <1>2 DEF TypeOK
<1> QED BY <1>1, <1>2

LEMMA StepTyped ==
    ASSUME TypeOK, DataTyped', NEW t \in Threads, NEW from, NEW to \in Points,
           Goes(t, from, to), job' \in [Threads -> Jobs \cup {None}],
           \A u \in Threads : u # t /\ job[u] \in Jobs => job'[u] \in Jobs,
           to \in DispatchPoints => job'[t] \in Jobs
    PROVE  TypeOK'
<1>1. at' \in [Threads -> Points]
  BY GoesTyped
<1>2. \A u \in Threads : at'[u] \in DispatchPoints => job'[u] \in Jobs
  BY DispatchesTyped
<1> QED BY <1>1, <1>2 DEF TypeOK, DataTyped

\* A step within a dispatch, or outside of one, that leaves the records.
LEMMA QuietStepTyped ==
    ASSUME TypeOK, DataTyped', NEW t \in Threads, NEW from, NEW to \in Points,
           Goes(t, from, to), job' = job, to \in DispatchPoints => from \in DispatchPoints
    PROVE  TypeOK'
<1>1. job' \in [Threads -> Jobs \cup {None}]
  BY DEF TypeOK
<1>2. to \in DispatchPoints => job'[t] \in Jobs
  BY DispatchHasJob
<1> QED BY <1>1, <1>2, StepTyped

\* A thread that updates its dispatch leaves the others'.
LEMMA JobsTyped ==
    ASSUME TypeOK, NEW t \in Threads, NEW j \in Jobs \cup {None}, job' = [job EXCEPT ![t] = j]
    PROVE  job' \in [Threads -> Jobs \cup {None}] /\ job'[t] = j
           /\ \A u \in Threads : u # t => job'[u] = job[u]
BY DEF TypeOK

LEMMA JobStepTyped ==
    ASSUME TypeOK, DataTyped', NEW t \in Threads, NEW from, NEW to \in Points,
           Goes(t, from, to), NEW j \in Jobs \cup {None}, job' = [job EXCEPT ![t] = j],
           to \in DispatchPoints => j \in Jobs
    PROVE  TypeOK'
<1>1. job' \in [Threads -> Jobs \cup {None}] /\ job'[t] = j
      /\ \A u \in Threads : u # t => job'[u] = job[u]
  BY JobsTyped
<1> QED BY <1>1, StepTyped

LEMMA DispatchEndTyped ==
    ASSUME TypeOK, DataTyped', NEW t \in Threads, NEW from, Goes(t, from, "idle"),
           job' = [job EXCEPT ![t] = None]
    PROVE  TypeOK'
<1>1. None \in Jobs \cup {None} /\ "idle" \in Points /\ "idle" \notin DispatchPoints
  OBVIOUS
<1> HIDE DEF Points, DispatchPoints
<1> QED BY <1>1, JobStepTyped

LEMMA LocksTyped ==
    ASSUME TypeOK, NEW t \in Threads
    PROVE  /\ \A l \in Locks : Holding(l, t) \in [Locks -> Threads \cup {None}]
           /\ \A ls : Releasing(ls) \in [Locks -> Threads \cup {None}]
BY DEF TypeOK, Holding, Releasing

\* The record of a dispatch keeps its type under each update an action makes.
LEMMA JobTyped ==
    ASSUME NEW j \in Jobs
    PROVE  /\ j.previous \in Buffers \cup {None} /\ j.buffer \in Buffers \cup {None}
           /\ j.back \in Buffers \cup {None} /\ j.out \in Ids
           /\ \A b \in Buffers \cup {None} : [j EXCEPT !.buffer = b] \in Jobs
           /\ \A b \in Buffers \cup {None} : [j EXCEPT !.back = b] \in Jobs
           /\ \A f \in BOOLEAN \cup {None} : [j EXCEPT !.invalid = f] \in Jobs
BY DEF Jobs

LEMMA HostTyped ==
    ASSUME TypeOK, NEW i \in Ids, WriteTensor(i) \/ ReleaseTensor(i)
    PROVE  TypeOK'
BY DEF TypeOK, WriteTensor, ReleaseTensor, captureVars

LEMMA DispatchTyped ==
    ASSUME TypeOK, NEW t \in Threads, DispatchStep(t)
    PROVE  TypeOK'
<1>0. DataTyped
  BY DataOfTypeOK
<1>1. ASSUME NEW k \in Calls \cap KernelNames, NEW out \in Ids, NEW reads \in BOOLEAN,
             TakePrevious(t, k, out, reads)
      PROVE  TypeOK'
  <2> DEFINE previous == IF reads THEN None ELSE storage[out]
             new == [kernel |-> k, out |-> out, previous |-> previous,
                     buffer |-> None, back |-> None, invalid |-> None]
  <2>1. new \in Jobs
    BY <1>0 DEF Jobs, DataTyped
  <2>2. Goes(t, "idle", "offer") /\ job' = [job EXCEPT ![t] = new]
    BY <1>1 DEF TakePrevious
  <2>3. storage' \in [Ids -> Buffers \cup {None}]
    BY <1>0, <1>1 DEF TakePrevious, TakesFromTable, DataTyped
  <2>4. DataTyped'
    BY <1>0, <1>1, <2>3 DEF TakePrevious, DataTyped, captureVars
  <2> HIDE DEF new
  <2> QED BY <2>1, <2>2, <2>4, JobStepTyped
<1>2. CASE OfferOutput(t)
  <2>1. Goes(t, "offer", "run") /\ job' = job /\ offered' = job[t].previous
    BY <1>2 DEF OfferOutput
  <2>2. offered' \in Buffers \cup {None}
    BY <2>1, DispatchHasJob, JobTyped
  <2>3. DataTyped'
    BY <1>0, <1>2, <2>2 DEF OfferOutput, DataTyped, captureVars
  <2> QED BY <2>1, <2>3, QuietStepTyped
<1>3. CASE EnterKernel(t)
  <2>1. Goes(t, "run", "alloc") /\ job' = job
    BY <1>3 DEF EnterKernel
  <2>2. DataTyped'
    BY <1>0, <1>3, LocksTyped DEF EnterKernel, DataTyped, captureVars
  <2> QED BY <2>1, <2>2, QuietStepTyped
<1>4. CASE RejectInputs(t)
  <2>1. PICK to \in {"drop", "reclaim"} : Goes(t, "run", to)
    BY <1>4 DEF RejectInputs, FailurePoint
  <2>2. DataTyped' /\ job' = job
    BY <1>0, <1>4 DEF RejectInputs, DataTyped, captureVars
  <2> QED BY <2>1, <2>2, QuietStepTyped
<1>5. CASE TakeOffered(t)
  <2>1. PICK to \in {"flag", "split", "store"} : Goes(t, "alloc", to)
    BY <1>5 DEF TakeOffered, AfterAlloc
  <2>2. job' = [job EXCEPT ![t].buffer = offered] /\ offered \in Buffers \cup {None}
    BY <1>0, <1>5 DEF TakeOffered, DataTyped
  <2>3. [job[t] EXCEPT !.buffer = offered] \in Jobs
    BY <2>1, <2>2, DispatchHasJob, JobTyped
  <2>4. lock' \in [Locks -> Threads \cup {None}]
    <3>1. lock' = lock \/ lock' = Releasing({"storage"})
      BY <1>5 DEF TakeOffered, LocksAfterAlloc
    <3> QED BY <3>1, <1>0, LocksTyped DEF DataTyped
  <2>5. DataTyped'
    BY <1>0, <1>5, <2>4 DEF TakeOffered, DataTyped, captureVars
  <2> QED BY <2>1, <2>2, <2>3, <2>5, JobStepTyped
<1>6. CASE AllocateFresh(t)
  <2>1. PICK to \in {"flag", "split", "store"} : Goes(t, "alloc", to)
    BY <1>6 DEF AllocateFresh, AfterAlloc
  <2>2. PICK b \in Buffers : job' = [job EXCEPT ![t].buffer = b]
    BY <1>6 DEF AllocateFresh
  <2>3. [job[t] EXCEPT !.buffer = b] \in Jobs
    BY <2>1, DispatchHasJob, JobTyped
  <2>4. lock' \in [Locks -> Threads \cup {None}]
    <3>1. lock' = lock \/ lock' = Releasing({"storage"})
      BY <1>6 DEF AllocateFresh, LocksAfterAlloc
    <3> QED BY <3>1, <1>0, LocksTyped DEF DataTyped
  <2>5. DataTyped'
    BY <1>0, <1>6, <2>4 DEF AllocateFresh, DataTyped, captureVars
  <2> QED BY <2>1, <2>2, <2>3, <2>5, JobStepTyped
<1>7. CASE KernelFails(t)
  <2>1. PICK to \in {"drop", "reclaim"} : Goes(t, "alloc", to)
    BY <1>7 DEF KernelFails, FailurePoint
  <2>2. DataTyped'
    <3>1. lock' \in [Locks -> Threads \cup {None}]
      BY <1>7, LocksTyped DEF KernelFails
    <3>2. offered' \in Buffers \cup {None}
      BY <1>0, <1>7 DEF KernelFails, DataTyped
    <3> QED BY <1>0, <1>7, <3>1, <3>2 DEF KernelFails, DataTyped, captureVars
  <2>3. CASE job' = job
    BY <2>1, <2>2, <2>3, QuietStepTyped
  <2>4. CASE job' = [job EXCEPT ![t].buffer = offered]
    <3>1. [job[t] EXCEPT !.buffer = offered] \in Jobs
      BY <1>0, <2>1, DispatchHasJob, JobTyped DEF DataTyped
    <3> QED BY <2>1, <2>2, <2>4, <3>1, JobStepTyped
  <2> QED BY <1>7, <2>3, <2>4 DEF KernelFails
<1>8. CASE StoreOutput(t)
  <2>1. Goes(t, "store", "drop") /\ job' = job
    BY <1>8 DEF StoreOutput
  <2>2. job[t].buffer \in Buffers \cup {None}
    BY <2>1, DispatchHasJob, JobTyped
  <2>3. DataTyped'
    BY <1>0, <1>8, <2>2 DEF StoreOutput, DataTyped, captureVars
  <2> QED BY <2>1, <2>3, QuietStepTyped
<1>9. CASE Reclaim(t)
  <2>1. Goes(t, "reclaim", "unguard") /\ job' = [job EXCEPT ![t].back = offered]
    BY <1>9 DEF Reclaim
  <2>2. [job[t] EXCEPT !.back = offered] \in Jobs
    BY <1>0, <2>1, DispatchHasJob, JobTyped DEF DataTyped
  <2>3. DataTyped'
    BY <1>0, <1>9 DEF Reclaim, DataTyped, captureVars
  <2> QED BY <2>1, <2>2, <2>3, JobStepTyped
<1>10. CASE DropGuard(t)
  <2>1. Goes(t, "unguard", "put back") /\ job' = job
    BY <1>10 DEF DropGuard
  <2>2. DataTyped'
    BY <1>0, <1>10 DEF DropGuard, DataTyped, captureVars
  <2> QED BY <2>1, <2>2, QuietStepTyped
<1>11. CASE PutBack(t)
  <2>1. Goes(t, "put back", "idle") /\ job' = [job EXCEPT ![t] = None]
    BY <1>11 DEF PutBack
  <2>2. job[t].back \in Buffers \cup {None}
    BY <2>1, DispatchHasJob, JobTyped
  <2>3. storage' \in [Ids -> Buffers \cup {None}]
    BY <1>0, <1>11, <2>2 DEF PutBack, DataTyped
  <2>4. DataTyped'
    BY <1>0, <1>11, <2>3 DEF PutBack, DataTyped, captureVars
  <2> QED BY <2>1, <2>4, DispatchEndTyped
<1>12. CASE Return(t)
  <2>1. Goes(t, "drop", "idle") /\ job' = [job EXCEPT ![t] = None]
    BY <1>12 DEF Return
  <2>2. DataTyped'
    BY <1>0, <1>12 DEF Return, DataTyped, captureVars
  <2> QED BY <2>1, <2>2, DispatchEndTyped
<1>13. CASE \E k \in Calls \cap KernelNames, out \in Ids, reads \in BOOLEAN :
              TakePrevious(t, k, out, reads)
  <2>1. PICK k \in Calls \cap KernelNames, out \in Ids, reads \in BOOLEAN :
            TakePrevious(t, k, out, reads)
    BY <1>13
  <2> HIDE DEF TakePrevious
  <2> QED BY ONLY <1>1, <2>1
<1> QED
  BY <1>2, <1>3, <1>4, <1>5, <1>6, <1>7, <1>8, <1>9, <1>10, <1>11, <1>12, <1>13
     DEF DispatchStep

LEMMA LookupTyped ==
    ASSUME TypeOK, NEW t \in Threads, LookupStep(t)
    PROVE  TypeOK'
<1>0. DataTyped
  BY DataOfTypeOK
<1>1. CASE LockFlag(t)
  <2>1. Goes(t, "flag", "ask") /\ job' = job
    BY <1>1 DEF LockFlag
  <2>2. DataTyped'
    BY <1>0, <1>1, LocksTyped DEF LockFlag, DataTyped, captureVars
  <2> QED BY <2>1, <2>2, QuietStepTyped
<1>2. CASE AskWhetherCapturing(t)
  <2>1. PICK to \in {"launch", "reset"} : Goes(t, "ask", to)
    BY <1>2 DEF AskWhetherCapturing
  <2>2. DataTyped' /\ job' = job
    BY <1>0, <1>2 DEF AskWhetherCapturing, DataTyped, captureVars
  <2> QED BY <2>1, <2>2, QuietStepTyped
<1>3. CASE LaunchLookup(t)
  <2>1. Goes(t, "launch", "confirm")
    BY <1>3 DEF LaunchLookup
  <2>2. DataTyped'
    <3>1. lock' \in [Locks -> Threads \cup {None}]
      BY <1>3, LocksTyped DEF LaunchLookup, DropsFlagLock
    <3>2. flag' \in BOOLEAN
      BY <1>0, <1>3 DEF LaunchLookup, DataTyped
    <3> QED BY <1>0, <1>3, <3>1, <3>2 DEF LaunchLookup, DataTyped, captureVars
  <2>3. CASE job' = job
    BY <2>1, <2>2, <2>3, QuietStepTyped
  <2>4. ASSUME NEW f \in BOOLEAN \cup {None}, job' = [job EXCEPT ![t].invalid = f]
        PROVE  TypeOK'
    <3> DEFINE j == [job[t] EXCEPT !.invalid = f]
    <3>0. job[t] \in Jobs
      BY <2>1, DispatchHasJob
    <3>1. j \in Jobs
      BY <3>0 DEF Jobs
    <3>2. job' = [job EXCEPT ![t] = j]
      BY <2>4
    <3> HIDE DEF j
    <3> QED BY <2>1, <2>2, <3>1, <3>2, JobStepTyped
  <2>5. job' = job \/ \E f \in BOOLEAN \cup {None} : job' = [job EXCEPT ![t].invalid = f]
    BY <1>3 DEF LaunchLookup
  <2> QED BY <2>3, <2>4, <2>5
<1>4. CASE LaunchLookupFails(t)
  <2>1. PICK from \in {"ask", "reset", "launch"}, to \in {"drop", "reclaim"} : Goes(t, from, to)
    BY <1>4 DEF LaunchLookupFails, FailurePoint
  <2>2. flag' \in BOOLEAN
    BY <1>0, <1>4 DEF LaunchLookupFails, DataTyped
  <2>3. job' = [job EXCEPT ![t].invalid = None]
    BY <1>4 DEF LaunchLookupFails
  <2>4. [job[t] EXCEPT !.invalid = None] \in Jobs
    <3>1. job[t] \in Jobs
      BY <2>1, DispatchHasJob
    <3> QED BY <3>1, JobTyped
  <2>5. DataTyped'
    BY <1>0, <1>4, <2>2, LocksTyped DEF LaunchLookupFails, DataTyped, captureVars
  <2> QED BY <2>1, <2>3, <2>4, <2>5, JobStepTyped
<1>5. CASE ConfirmInCapture(t)
  <2>1. Goes(t, "confirm", "store") /\ job' = [job EXCEPT ![t].invalid = None]
    BY <1>5 DEF ConfirmInCapture
  <2>2. [job[t] EXCEPT !.invalid = None] \in Jobs
    BY <2>1, DispatchHasJob, JobTyped
  <2>3. DataTyped'
    BY <1>0, <1>5, LocksTyped DEF ConfirmInCapture, DataTyped, captureVars
  <2> QED BY <2>1, <2>2, <2>3, JobStepTyped
<1>6. CASE ConfirmOutsideCapture(t)
  <2>1. Goes(t, "confirm", "check") /\ job' = job
    BY <1>6 DEF ConfirmOutsideCapture
  <2>2. DataTyped'
    BY <1>0, <1>6 DEF ConfirmOutsideCapture, DataTyped, captureVars
  <2> QED BY <2>1, <2>2, QuietStepTyped
<1>7. CASE CheckEmbeddingFlag(t)
  <2>1. PICK to \in {"store", "drop", "reclaim"} : Goes(t, "check", to)
    BY <1>7 DEF CheckEmbeddingFlag, FailurePoint
  <2>2. job' = [job EXCEPT ![t].invalid = None]
    BY <1>7 DEF CheckEmbeddingFlag
  <2>3. [job[t] EXCEPT !.invalid = None] \in Jobs
    BY <2>1, DispatchHasJob, JobTyped
  <2>4. DataTyped'
    BY <1>0, <1>7, LocksTyped DEF CheckEmbeddingFlag, DataTyped, captureVars
  <2> QED BY <2>1, <2>2, <2>3, <2>4, JobStepTyped
<1>8. CASE ResetFlag(t)
  <2>1. Goes(t, "reset", "launch") /\ job' = [job EXCEPT ![t].invalid = FALSE]
    BY <1>8 DEF ResetFlag
  <2>2. [job[t] EXCEPT !.invalid = FALSE] \in Jobs
    <3>1. job[t] \in Jobs
      BY <2>1, DispatchHasJob
    <3> QED BY <3>1 DEF Jobs
  <2>3. DataTyped'
    BY <1>0, <1>8 DEF ResetFlag, DataTyped, captureVars
  <2> QED BY <2>1, <2>2, <2>3, JobStepTyped
<1> QED
  BY <1>1, <1>2, <1>3, <1>4, <1>5, <1>6, <1>7, <1>8 DEF LookupStep

LEMMA AttentionTyped ==
    ASSUME TypeOK, NEW t \in Threads, AttentionStep(t)
    PROVE  TypeOK'
<1>0. DataTyped
  BY DataOfTypeOK
<1>1. CASE LaunchSplit(t)
  <2>1. PICK to \in {"combine", "combine in graph"} : Goes(t, "split", to)
    BY <1>1 DEF LaunchSplit
  <2>2. DataTyped' /\ job' = job
    BY <1>0, <1>1 DEF LaunchSplit, DataTyped, captureVars
  <2> QED BY <2>1, <2>2, QuietStepTyped
<1>2. CASE LaunchCombine(t)
  <2>1. PICK from \in {"combine", "combine in graph"} : Goes(t, from, "store")
    BY <1>2 DEF LaunchCombine
  <2>2. DataTyped' /\ job' = job
    BY <1>0, <1>2, LocksTyped DEF LaunchCombine, DataTyped, captureVars
  <2> QED BY <2>1, <2>2, QuietStepTyped
<1>3. CASE LaunchAttentionFails(t)
  <2>1. PICK from \in {"split", "combine", "combine in graph"}, to \in {"drop", "reclaim"} :
            Goes(t, from, to)
    BY <1>3 DEF LaunchAttentionFails, FailurePoint
  <2>2. DataTyped' /\ job' = job
    BY <1>0, <1>3, LocksTyped DEF LaunchAttentionFails, DataTyped, captureVars
  <2> QED BY <2>1, <2>2, QuietStepTyped
<1> QED BY <1>1, <1>2, <1>3 DEF AttentionStep

LEMMA MeddledTyped ==
    ASSUME TypeOK, NEW t \in Threads
    PROVE  /\ Meddled(t) \in [Threads -> Jobs \cup {None}]
           /\ \A u \in Threads : job[u] \in Jobs => Meddled(t)[u] \in Jobs
<1>1. ASSUME NEW u \in Threads, job[u] \in Jobs
      PROVE  [job[u] EXCEPT !.invalid = None] \in Jobs
  BY <1>1, JobTyped
<1>2. \A u \in Threads : at[u] \in {"launch", "confirm", "check"} => job[u] \in Jobs
  BY DEF TypeOK
<1>3. \A u \in Threads : job[u] \in Jobs \cup {None}
  BY DEF TypeOK
<1> QED BY <1>1, <1>2, <1>3 DEF Meddled

\* A step of a capture or a replay, which may put the lookups of others off.
LEMMA CaptureStepTyped ==
    ASSUME TypeOK, DataTyped', NEW t \in Threads, NEW from, NEW to \in {"idle"} \cup CapturePoints,
           Goes(t, from, to), job' = job \/ job' = Meddled(t)
    PROVE  TypeOK'
<1>1. CASE job' = job
  BY <1>1, QuietStepTyped
<1>2. CASE job' = Meddled(t)
  <2>1. job' \in [Threads -> Jobs \cup {None}]
        /\ \A u \in Threads : job[u] \in Jobs => job'[u] \in Jobs
    BY <1>2, MeddledTyped
  <2> QED BY <2>1, StepTyped
<1> QED BY <1>1, <1>2

LEMMA CaptureTyped ==
    ASSUME TypeOK, NEW t \in Threads, CaptureStep(t)
    PROVE  TypeOK'
<1>0. DataTyped
  BY DataOfTypeOK
<1>1. CASE BeginStepCapture(t)
  <2>1. Goes(t, "idle", "begin") /\ job' = job
    BY <1>1 DEF BeginStepCapture
  <2>2. DataTyped'
    BY <1>0, <1>1, LocksTyped DEF BeginStepCapture, DataTyped, captureVars
  <2> QED BY <2>1, <2>2, CaptureStepTyped
<1>2. CASE LockCapture(t)
  <2>1. Goes(t, "begin", "start") /\ job' = job
    BY <1>2 DEF LockCapture
  <2>2. DataTyped'
    BY <1>0, <1>2, LocksTyped DEF LockCapture, DataTyped, captureVars
  <2> QED BY <2>1, <2>2, CaptureStepTyped
<1>3. CASE BeginRefused(t)
  <2>1. PICK from : Goes(t, from, "idle")
    BY <1>3 DEF BeginRefused
  <2>2. DataTyped' /\ job' = job
    BY <1>0, <1>3, LocksTyped DEF BeginRefused, DataTyped, captureVars
  <2> QED BY <2>1, <2>2, CaptureStepTyped
<1>4. CASE StartCapture(t)
  <2>1. Goes(t, "start", "idle") /\ job' = Meddled(t)
    BY <1>4 DEF StartCapture
  <2>2. DataTyped'
    BY <1>0, <1>4, LocksTyped DEF StartCapture, DataTyped
  <2> QED BY <2>1, <2>2, CaptureStepTyped
<1>5. CASE EndStepCapture(t)
  <2>1. Goes(t, "idle", "end") /\ job' = job
    BY <1>5 DEF EndStepCapture
  <2>2. DataTyped'
    BY <1>0, <1>5, LocksTyped DEF EndStepCapture, DataTyped
  <2> QED BY <2>1, <2>2, CaptureStepTyped
<1>6. CASE LaunchEnded(t)
  <2>1. Goes(t, "graph", "verify") /\ job' = Meddled(t)
    BY <1>6 DEF LaunchEnded, RunGraph
  <2>2. DataTyped'
    BY <1>0, <1>6 DEF LaunchEnded, RunGraph, DataTyped, captureVars
  <2> QED BY <2>1, <2>2, CaptureStepTyped
<1>7. CASE LaunchEndedUnverified(t)
  <2>1. Goes(t, "graph", "idle") /\ job' = Meddled(t)
    BY <1>7 DEF LaunchEndedUnverified, RunGraph
  <2>2. captured' \in BOOLEAN /\ flag' \in BOOLEAN /\ partials' \in Threads \cup {None}
    BY <1>0, <1>7 DEF LaunchEndedUnverified, RunGraph, DataTyped
  <2>3. DataTyped'
    BY <1>0, <1>7, <2>2, LocksTyped DEF LaunchEndedUnverified, DataTyped
  <2> QED BY <2>1, <2>3, CaptureStepTyped
<1>8. CASE VerifyEnded(t)
  <2>1. Goes(t, "verify", "idle") /\ job' = job
    BY <1>8 DEF VerifyEnded
  <2>2. DataTyped'
    BY <1>0, <1>8, LocksTyped DEF VerifyEnded, DataTyped
  <2> QED BY <2>1, <2>2, CaptureStepTyped
<1>9. CASE AbortStepCapture(t)
  <2>1. Goes(t, "idle", "abort") /\ job' = job
    BY <1>9 DEF AbortStepCapture
  <2>2. DataTyped'
    BY <1>0, <1>9 DEF AbortStepCapture, DataTyped
  <2> QED BY <2>1, <2>2, CaptureStepTyped
<1>10. CASE AbortCapture(t)
  <2>1. Goes(t, "abort", "idle") /\ job' = job
    BY <1>10 DEF AbortCapture
  <2>2. DataTyped'
    BY <1>0, <1>10 DEF AbortCapture, DataTyped
  <2> QED BY <2>1, <2>2, CaptureStepTyped
<1>11. CASE ReplayStep(t)
  <2>1. Goes(t, "idle", "current") /\ job' = job
    BY <1>11 DEF ReplayStep
  <2>2. DataTyped'
    BY <1>0, <1>11, LocksTyped DEF ReplayStep, DataTyped, captureVars
  <2> QED BY <2>1, <2>2, CaptureStepTyped
<1>12. CASE LaunchReplay(t)
  <2>1. Goes(t, "replay", "idle") /\ (job' = job \/ job' = Meddled(t))
    BY <1>12 DEF LaunchReplay, RunGraph
  <2>2. flag' \in BOOLEAN /\ partials' \in Threads \cup {None}
    BY <1>0, <1>12 DEF LaunchReplay, RunGraph, DataTyped
  <2>3. DataTyped'
    BY <1>0, <1>12, <2>2, LocksTyped DEF LaunchReplay, DataTyped, captureVars
  <2> QED BY <2>1, <2>3, CaptureStepTyped
<1>13. CASE EndCapture(t)
  <2>1. PICK to \in {"graph", "idle"} : Goes(t, "end", to)
    BY <1>13 DEF EndCapture
  <2>2. lock' \in [Locks -> Threads \cup {None}]
    BY <1>0, <1>13, LocksTyped DEF EndCapture, DataTyped
  <2>3. DataTyped' /\ job' = job
    BY <1>0, <1>13, <2>2 DEF EndCapture, DataTyped
  <2> QED BY <2>1, <2>3, CaptureStepTyped DEF CapturePoints
<1>14. CASE PrepareReplay(t)
  <2>1. PICK to \in {"replay", "idle"} : Goes(t, "current", to)
    BY <1>14 DEF PrepareReplay
  <2>2. lock' \in [Locks -> Threads \cup {None}]
    BY <1>0, <1>14, LocksTyped DEF PrepareReplay, DataTyped
  <2>3. DataTyped' /\ job' = job
    BY <1>0, <1>14, <2>2 DEF PrepareReplay, DataTyped, captureVars
  <2> QED BY <2>1, <2>3, CaptureStepTyped DEF CapturePoints
<1> QED
  BY <1>1, <1>2, <1>3, <1>4, <1>5, <1>6, <1>7, <1>8, <1>9, <1>10, <1>11, <1>12, <1>13, <1>14
     DEF CaptureStep

LEMMA StutterTyped ==
    ASSUME TypeOK, UNCHANGED vars
    PROVE  TypeOK'
BY DEF TypeOK, vars, captureVars

LEMMA TypeInductive ==
    ASSUME TypeOK, [Next]_vars
    PROVE  TypeOK'
BY HostTyped, DispatchTyped, LookupTyped, AttentionTyped, CaptureTyped, StutterTyped DEF Next

LEMMA InitTyped == Init => TypeOK
BY DEF Init, TypeOK

\* Every thread's dispatch, the table, the slot and the locks keep their
\* types, whatever the number of threads.
THEOREM TypeCorrect == Spec => []TypeOK
BY InitTyped, TypeInductive, PTL DEF Spec

----------------------------------------------------------------------------
(* Ownership.                                                              *)

Owning == {"offer", "flag", "ask", "reset", "launch", "confirm", "check",
           "split", "combine", "combine in graph", "store", "unguard", "put back"}

\* Only the points named own anything, and None is never owned.
LEMMA HandsNamed ==
    ASSUME NEW t \in Threads
    PROVE  /\ None \notin Hands(t)
           /\ at[t] \notin Owning => Hands(t) = {}
BY ConstantsOK DEF Hands, Owning

\* The same after a step.
LEMMA HandsNext ==
    ASSUME NEW t \in Threads
    PROVE  /\ at'[t] \notin Owning => Hands(t)' = {}
           /\ at'[t] = "offer" => Hands(t)' \subseteq {job'[t].previous}
           /\ at'[t] \in {"unguard", "put back"} => Hands(t)' \subseteq {job'[t].back}
           /\ at'[t] \in {"flag", "split", "store"} => Hands(t)' \subseteq {job'[t].buffer}
BY DEF Hands, Owning

LEMMA NoneUnowned ==
    \A u \in Threads : None \notin Hands(u) /\ None \notin Hands(u)'
BY ConstantsOK DEF Hands

\* A thread whose point and dispatch stay owns what it owned.
LEMMA HandsKept ==
    ASSUME NEW u \in Threads, at'[u] = at[u], job'[u] = job[u]
    PROVE  Hands(u)' = Hands(u)
BY DEF Hands

\* A step that gives up buffers and takes none keeps every owner single.
LEMMA OwnersOnlyLose ==
    ASSUME BuffersHaveOneOwner,
           \A i \in Ids : storage'[i] \in {storage[i], None},
           offered' \in {offered, None},
           \A u \in Threads : Hands(u)' \subseteq Hands(u),
           \A u \in Threads : None \notin Hands(u)
    PROVE  BuffersHaveOneOwner'
BY DEF BuffersHaveOneOwner

\* One thread takes a buffer that, once the step is over, nobody else owns.
LEMMA OwnerTakes ==
    ASSUME BuffersHaveOneOwner, NEW t \in Threads, NEW b,
           \A i \in Ids : storage'[i] \in {storage[i], None} /\ storage'[i] # b,
           offered' \in {offered, None} /\ offered' # b,
           Hands(t)' \subseteq {b},
           \A u \in Threads \ {t} : Hands(u)' = Hands(u) /\ b \notin Hands(u),
           \A u \in Threads : None \notin Hands(u) /\ None \notin Hands(u)'
    PROVE  BuffersHaveOneOwner'
BY DEF BuffersHaveOneOwner

\* A buffer is stored that nobody else owns once the step is over.
LEMMA OwnerStores ==
    ASSUME BuffersHaveOneOwner, NEW i \in Ids, NEW b,
           storage' = [storage EXCEPT ![i] = b], storage \in [Ids -> Buffers \cup {None}],
           offered' = offered,
           b # None => /\ \A j \in Ids : storage[j] # b
                       /\ offered # b
                       /\ \A u \in Threads : b \notin Hands(u)',
           \A u \in Threads : Hands(u)' \subseteq Hands(u),
           \A u \in Threads : None \notin Hands(u)
    PROVE  BuffersHaveOneOwner'
BY DEF BuffersHaveOneOwner

LEMMA FreshUnowned ==
    ASSUME NEW b \in Buffers \ InUse
    PROVE  /\ b # None
           /\ \A i \in Ids : storage[i] # b
           /\ offered # b
           /\ \A u \in Threads : b \notin Hands(u)
BY ConstantsOK DEF InUse

LEMMA OthersKeep ==
    ASSUME TypeOK, NEW t \in Threads, NEW from, NEW to \in Points, Goes(t, from, to),
           job' = job \/ \E j : job' = [job EXCEPT ![t] = j]
    PROVE  \A u \in Threads \ {t} : Hands(u)' = Hands(u)
<1> TAKE u \in Threads \ {t}
<1>1. at'[u] = at[u]
  BY GoesTyped
<1>2. job'[u] = job[u]
  BY DEF TypeOK
<1> QED BY <1>1, <1>2, HandsKept

LEMMA MeddlingKeeps ==
    ASSUME TypeOK, NEW t \in Threads, NEW u \in Threads, at'[u] = at[u],
           job' = job \/ job' = Meddled(t)
    PROVE  Hands(u)' = Hands(u)
<1>1. CASE job' = job
  BY <1>1, HandsKept
<1>2. CASE job' = Meddled(t) /\ at[u] \in DispatchPoints
  <2>1. job[u] \in Jobs
    BY <1>2 DEF TypeOK
  <2>2. /\ job'[u].previous = job[u].previous
        /\ job'[u].buffer = job[u].buffer
        /\ job'[u].back = job[u].back
    BY <1>2, <2>1 DEF Meddled, Jobs
  <2> QED BY <2>2 DEF Hands
<1>3. CASE at[u] \notin DispatchPoints
  BY <1>3 DEF Hands
<1> QED BY <1>1, <1>2, <1>3

\* A step of t that neither stores nor takes: it may give up what t owns.
LEMMA GivingUp ==
    ASSUME TypeOK, BuffersHaveOneOwner, NEW t \in Threads, NEW from, NEW to \in Points,
           Goes(t, from, to),
           job' = job \/ \E j : job' = [job EXCEPT ![t] = j],
           storage' = storage, offered' \in {offered, None},
           Hands(t)' \subseteq Hands(t)
    PROVE  BuffersHaveOneOwner'
<1>1. \A u \in Threads : Hands(u)' \subseteq Hands(u)
  BY OthersKeep
<1> QED BY <1>1, NoneUnowned, OwnersOnlyLose

\* A thread stores what it owned and owns nothing afterwards.
LEMMA Storing ==
    ASSUME TypeOK, BuffersHaveOneOwner, NEW t \in Threads, NEW from, NEW to \in Points,
           Goes(t, from, to),
           job' = job \/ \E j : job' = [job EXCEPT ![t] = j],
           NEW i \in Ids, NEW b,
           storage' = [storage EXCEPT ![i] = b], offered' = offered,
           b # None => b \in Hands(t),
           Hands(t)' = {}
    PROVE  BuffersHaveOneOwner'
<1>1. \A u \in Threads \ {t} : Hands(u)' = Hands(u)
  BY OthersKeep
<1>2. \A u \in Threads : Hands(u)' \subseteq Hands(u)
  BY <1>1
<1>3. ASSUME b # None
      PROVE  /\ \A j \in Ids : storage[j] # b
             /\ offered # b
             /\ \A u \in Threads : b \notin Hands(u)'
  BY <1>1, <1>3 DEF BuffersHaveOneOwner
<1>4. storage \in [Ids -> Buffers \cup {None}]
  BY DEF TypeOK
<1> QED BY <1>2, <1>3, <1>4, NoneUnowned, OwnerStores

LEMMA HostOwners ==
    ASSUME TypeOK, BuffersHaveOneOwner, NEW i \in Ids, WriteTensor(i) \/ ReleaseTensor(i)
    PROVE  BuffersHaveOneOwner'
<1>1. \A u \in Threads : Hands(u)' = Hands(u)
  BY HandsKept DEF WriteTensor, ReleaseTensor
<1>2. offered' = offered
  BY DEF WriteTensor, ReleaseTensor
<1>3. CASE WriteTensor(i)
  <2>1. PICK b \in Buffers \ InUse : storage' = [storage EXCEPT ![i] = b]
    BY <1>3 DEF WriteTensor
  <2>2. storage \in [Ids -> Buffers \cup {None}]
    BY DEF TypeOK
  <2>3. /\ \A j \in Ids : storage[j] # b
        /\ offered # b
        /\ \A u \in Threads : b \notin Hands(u)'
    BY <1>1, <2>1, FreshUnowned
  <2>4. /\ \A u \in Threads : Hands(u)' \subseteq Hands(u)
        /\ \A u \in Threads : None \notin Hands(u)
    BY <1>1, NoneUnowned
  <2> QED BY <1>2, <2>1, <2>2, <2>3, <2>4, OwnerStores
<1>4. CASE ReleaseTensor(i)
  <2>1. \A j \in Ids : storage'[j] \in {storage[j], None}
    BY <1>4 DEF ReleaseTensor, TypeOK
  <2> QED BY <1>1, <1>2, <2>1, NoneUnowned, OwnersOnlyLose
<1> QED BY <1>3, <1>4

LEMMA DispatchOwners ==
    ASSUME TypeOK, BuffersHaveOneOwner, NEW t \in Threads, DispatchStep(t)
    PROVE  BuffersHaveOneOwner'
<1>1. ASSUME NEW k \in Calls \cap KernelNames, NEW out \in Ids, NEW reads \in BOOLEAN,
             TakePrevious(t, k, out, reads)
      PROVE  BuffersHaveOneOwner'
  <2> DEFINE previous == IF reads THEN None ELSE storage[out]
             new == [kernel |-> k, out |-> out, previous |-> previous,
                     buffer |-> None, back |-> None, invalid |-> None]
  <2>1. Goes(t, "idle", "offer") /\ job' = [job EXCEPT ![t] = new] /\ offered' = offered
        /\ storage' = IF previous = None THEN storage ELSE [storage EXCEPT ![out] = None]
    BY <1>1 DEF TakePrevious, TakesFromTable
  <2>2. job'[t] = new /\ at'[t] = "offer"
    BY <2>1, GoesTyped DEF TypeOK
  <2>3. Hands(t)' \subseteq {previous} \ {None}
    BY <2>2, ConstantsOK DEF Hands
  <2>4. \A u \in Threads \ {t} : Hands(u)' = Hands(u)
    BY <2>1, OthersKeep
  <2>5. Hands(t) = {}
    BY <2>1, HandsNamed DEF Goes, Owning
  <2>6. CASE previous = None
    BY <2>1, <2>3, <2>4, <2>5, <2>6, NoneUnowned, OwnersOnlyLose
  <2>7. CASE previous # None
    <3>1. \A i \in Ids : storage'[i] \in {storage[i], None} /\ storage'[i] # previous
      BY <2>1, <2>7 DEF BuffersHaveOneOwner, TypeOK
    <3>2. offered # previous
      BY <2>7 DEF BuffersHaveOneOwner
    <3>3. \A u \in Threads \ {t} : previous \notin Hands(u)
      BY <2>7 DEF BuffersHaveOneOwner
    <3> QED
      BY <2>1, <2>3, <2>4, <2>7, <3>1, <3>2, <3>3, NoneUnowned, OwnerTakes
  <2> QED BY <2>6, <2>7
<1>2. CASE OfferOutput(t)
  <2>1. Goes(t, "offer", "run") /\ job' = job /\ storage' = storage
        /\ offered' = job[t].previous
    BY <1>2 DEF OfferOutput
  <2>2. Hands(t)' = {}
    BY <2>1, HandsNext DEF Owning, Goes, TypeOK
  <2>3. \A u \in Threads \ {t} : Hands(u)' = Hands(u)
    BY <2>1, OthersKeep
  <2>4. job[t] \in Jobs /\ at[t] = "offer"
    BY <2>1 DEF Goes, TypeOK
  <2>5. job[t].previous # None => job[t].previous \in Hands(t)
    BY <2>4, JobTyped DEF Hands
  <2> QED
    BY <2>1, <2>2, <2>3, <2>5, NoneUnowned DEF BuffersHaveOneOwner
<1>3. CASE EnterKernel(t)
  <2>1. Goes(t, "run", "alloc") /\ UNCHANGED <<job, storage, offered>>
    BY <1>3 DEF EnterKernel
  <2>2. Hands(t)' = {}
    BY <2>1, HandsNext DEF Owning, FailurePoint, Goes, TypeOK
  <2> QED BY <2>1, <2>2, GivingUp
<1>4. CASE RejectInputs(t)
  <2>1. Goes(t, "run", FailurePoint(t)) /\ FailurePoint(t) \in {"drop", "reclaim"}
        /\ UNCHANGED <<job, storage, offered>>
    BY <1>4 DEF RejectInputs, FailurePoint
  <2>2. Hands(t)' = {}
    BY <2>1, HandsNext DEF Owning, FailurePoint, Goes, TypeOK
  <2> QED BY <2>1, <2>2, GivingUp
<1>5. CASE TakeOffered(t)
  <2>1. Goes(t, "alloc", AfterAlloc(t)) /\ AfterAlloc(t) \in {"flag", "split", "store"}
        /\ job' = [job EXCEPT ![t].buffer = offered]
        /\ offered # None /\ offered' = None /\ storage' = storage
    BY <1>5 DEF TakeOffered, AfterAlloc
  <2>2. job[t] \in Jobs
    BY <2>1 DEF Goes, TypeOK
  <2>3. job'[t].buffer = offered
    BY <2>1, <2>2 DEF TypeOK, Jobs
  <2>4. Hands(t)' \subseteq {offered}
    BY <2>1, <2>3, HandsNext DEF Goes, TypeOK
  <2>5. \A u \in Threads \ {t} : Hands(u)' = Hands(u)
    BY <2>1, OthersKeep
  <2>6. \A u \in Threads : offered \notin Hands(u)
    BY DEF BuffersHaveOneOwner
  <2>7. \A i \in Ids : storage[i] # offered
    BY <2>1 DEF BuffersHaveOneOwner
  <2> QED BY <2>1, <2>4, <2>5, <2>6, <2>7, NoneUnowned, OwnerTakes
<1>6. CASE AllocateFresh(t)
  <2>1. PICK b \in Buffers \ InUse : job' = [job EXCEPT ![t].buffer = b]
    BY <1>6 DEF AllocateFresh
  <2>2. Goes(t, "alloc", AfterAlloc(t)) /\ AfterAlloc(t) \in {"flag", "split", "store"}
        /\ UNCHANGED <<storage, offered>>
    BY <1>6 DEF AllocateFresh, AfterAlloc
  <2>3. job[t] \in Jobs
    BY <2>2 DEF Goes, TypeOK
  <2>4. job'[t].buffer = b
    BY <2>1, <2>3 DEF TypeOK, Jobs
  <2>5. Hands(t)' \subseteq {b}
    BY <2>2, <2>4, HandsNext DEF Goes, TypeOK
  <2>6. \A u \in Threads \ {t} : Hands(u)' = Hands(u)
    BY <2>1, <2>2, OthersKeep
  <2> QED BY <2>2, <2>5, <2>6, FreshUnowned, NoneUnowned, OwnerTakes
<1>7. CASE KernelFails(t)
  <2>1. Goes(t, "alloc", FailurePoint(t)) /\ FailurePoint(t) \in {"drop", "reclaim"}
        /\ storage' = storage /\ offered' \in {offered, None}
        /\ (job' = job \/ \E j : job' = [job EXCEPT ![t] = j])
    BY <1>7 DEF KernelFails, FailurePoint
  <2>2. Hands(t)' = {}
    BY <2>1, HandsNext DEF Owning, Goes, TypeOK
  <2> QED BY <2>1, <2>2, GivingUp
<1>8. CASE StoreOutput(t)
  <2>1. Goes(t, "store", "drop") /\ job' = job /\ offered' = offered
        /\ storage' = [storage EXCEPT ![job[t].out] = job[t].buffer]
    BY <1>8 DEF StoreOutput
  <2>2. job[t] \in Jobs /\ at[t] = "store"
    BY <2>1 DEF Goes, TypeOK
  <2>3. job[t].buffer # None => job[t].buffer \in Hands(t)
    BY <2>2, JobTyped DEF Hands
  <2>4. Hands(t)' = {}
    BY <2>1, HandsNext DEF Owning, Goes, TypeOK
  <2> QED BY <2>1, <2>2, <2>3, <2>4, JobTyped, Storing
<1>9. CASE Reclaim(t)
  <2>1. Goes(t, "reclaim", "unguard") /\ job' = [job EXCEPT ![t].back = offered]
        /\ offered' = None /\ storage' = storage
    BY <1>9 DEF Reclaim
  <2>2. job[t] \in Jobs
    BY <2>1 DEF Goes, TypeOK
  <2>3. job'[t].back = offered
    BY <2>1, <2>2 DEF TypeOK, Jobs
  <2>4. Hands(t)' \subseteq {offered} \ {None}
    BY <2>1, <2>3, HandsNext, NoneUnowned DEF Goes, TypeOK
  <2>5. \A u \in Threads \ {t} : Hands(u)' = Hands(u)
    BY <2>1, OthersKeep
  <2>6. \A u \in Threads : offered \notin Hands(u)
    BY DEF BuffersHaveOneOwner
  <2>7. CASE offered = None
    BY <2>1, <2>4, <2>5, <2>7, NoneUnowned, OwnersOnlyLose
  <2>8. CASE offered # None
    <3>1. \A i \in Ids : storage[i] # offered
      BY <2>8 DEF BuffersHaveOneOwner
    <3> QED BY <2>1, <2>4, <2>5, <2>6, <2>8, <3>1, NoneUnowned, OwnerTakes
  <2> QED BY <2>7, <2>8
<1>10. CASE DropGuard(t)
  <2>1. Goes(t, "unguard", "put back") /\ UNCHANGED <<job, storage>> /\ offered' = None
    BY <1>10 DEF DropGuard
  <2>2. Hands(t)' = Hands(t)
    <3>1. at[t] = "unguard" /\ at'[t] = "put back" /\ job'[t] = job[t]
      BY <2>1 DEF Goes, TypeOK
    <3> QED BY <3>1 DEF Hands
  <2> QED BY <2>1, <2>2, GivingUp
<1>11. CASE Return(t)
  <2>1. Goes(t, "drop", "idle") /\ job' = [job EXCEPT ![t] = None]
        /\ offered' = None /\ storage' = storage
    BY <1>11 DEF Return
  <2>2. Hands(t)' = {}
    BY <2>1, HandsNext DEF Owning, Goes, TypeOK
  <2> QED BY <2>1, <2>2, GivingUp
<1>12. CASE PutBack(t)
  <2>1. Goes(t, "put back", "idle") /\ job' = [job EXCEPT ![t] = None] /\ offered' = offered
    BY <1>12 DEF PutBack
  <2>2. job[t] \in Jobs /\ at[t] = "put back"
    BY <2>1 DEF Goes, TypeOK
  <2>3. Hands(t)' = {}
    BY <2>1, HandsNext DEF Owning, Goes, TypeOK
  <2>4. CASE job[t].back = None
    BY <1>12, <2>1, <2>3, <2>4, GivingUp DEF PutBack
  <2>5. CASE job[t].back # None
    <3>1. storage' = [storage EXCEPT ![job[t].out] = job[t].back]
      BY <1>12, <2>5 DEF PutBack
    <3>2. job[t].back \in Hands(t)
      BY <2>2, <2>5, JobTyped DEF Hands
    <3> QED BY <2>1, <2>2, <2>3, <3>1, <3>2, JobTyped, Storing
  <2> QED BY <2>4, <2>5
<1>13. CASE \E k \in Calls \cap KernelNames, out \in Ids, reads \in BOOLEAN :
              TakePrevious(t, k, out, reads)
  BY <1>1, <1>13
<1> QED
  BY <1>2, <1>3, <1>4, <1>5, <1>6, <1>7, <1>8, <1>9, <1>10, <1>11, <1>12, <1>13
     DEF DispatchStep

LEMMA LookupOwners ==
    ASSUME TypeOK, BuffersHaveOneOwner, NEW t \in Threads, LookupStep(t)
    PROVE  BuffersHaveOneOwner'
<1>1. PICK from \in {"flag", "ask", "reset", "launch", "confirm", "check"},
           to \in Points : Goes(t, from, to)
                           /\ to \in {"ask", "reset", "launch", "confirm", "check",
                                      "store", "drop", "reclaim"}
  BY DEF LookupStep, LockFlag, AskWhetherCapturing, ResetFlag, LaunchLookup, LaunchLookupFails,
         ConfirmInCapture, ConfirmOutsideCapture, CheckEmbeddingFlag, FailurePoint
<1>2. job' = job \/ \E f \in BOOLEAN \cup {None} : job' = [job EXCEPT ![t].invalid = f]
  BY DEF LookupStep, LockFlag, AskWhetherCapturing, ResetFlag, LaunchLookup, LaunchLookupFails,
         ConfirmInCapture, ConfirmOutsideCapture, CheckEmbeddingFlag
<1>3. UNCHANGED <<storage, offered>>
  BY DEF LookupStep, LockFlag, AskWhetherCapturing, ResetFlag, LaunchLookup, LaunchLookupFails,
         ConfirmInCapture, ConfirmOutsideCapture, CheckEmbeddingFlag
<1>4. at[t] = from /\ at'[t] = to /\ job[t] \in Jobs
  BY <1>1 DEF Goes, TypeOK
<1>5. job'[t].buffer = job[t].buffer
  <2>1. CASE job' = job
    BY <2>1
  <2>2. ASSUME NEW f \in BOOLEAN \cup {None}, job' = [job EXCEPT ![t].invalid = f]
        PROVE  job'[t].buffer = job[t].buffer
    BY <1>4, <2>2 DEF TypeOK, Jobs
  <2> QED BY <1>2, <2>1, <2>2
<1>6. Hands(t)' \subseteq Hands(t)
  BY <1>1, <1>4, <1>5 DEF Hands
<1>7. job' = job \/ \E j : job' = [job EXCEPT ![t] = j]
  BY <1>2
<1> QED BY <1>1, <1>3, <1>6, <1>7, GivingUp

LEMMA AttentionOwners ==
    ASSUME TypeOK, BuffersHaveOneOwner, NEW t \in Threads, AttentionStep(t)
    PROVE  BuffersHaveOneOwner'
<1>1. PICK from \in {"split", "combine", "combine in graph"},
           to \in {"combine", "combine in graph", "store", "drop", "reclaim"} : Goes(t, from, to)
  BY DEF AttentionStep, LaunchSplit, LaunchCombine, LaunchAttentionFails, FailurePoint
<1>2. UNCHANGED <<job, storage, offered>>
  BY DEF AttentionStep, LaunchSplit, LaunchCombine, LaunchAttentionFails
<1>3. at[t] = from /\ at'[t] = to
  BY <1>1, GoesTyped
<1>4. Hands(t)' \subseteq Hands(t)
  BY <1>2, <1>3 DEF Hands
<1> QED BY <1>1, <1>2, <1>4, GivingUp

LEMMA CaptureOwners ==
    ASSUME TypeOK, BuffersHaveOneOwner, NEW t \in Threads, CaptureStep(t)
    PROVE  BuffersHaveOneOwner'
<1>1. UNCHANGED <<storage, offered>>
  BY DEF CaptureStep, BeginStepCapture, LockCapture, BeginRefused, StartCapture,
         EndStepCapture, EndCapture, LaunchEnded, LaunchEndedUnverified, VerifyEnded,
         AbortStepCapture, AbortCapture, ReplayStep, PrepareReplay, LaunchReplay, captureVars
<1>2. job' = job \/ job' = Meddled(t)
  BY DEF CaptureStep, BeginStepCapture, LockCapture, BeginRefused, StartCapture,
         EndStepCapture, EndCapture, LaunchEnded, LaunchEndedUnverified, VerifyEnded,
         AbortStepCapture, AbortCapture, ReplayStep, PrepareReplay, LaunchReplay, RunGraph
<1>3. at' = at \/ \E to \in CapturePoints \cup {"idle"} : at' = [at EXCEPT ![t] = to]
  BY DEF CaptureStep, BeginStepCapture, LockCapture, BeginRefused, StartCapture,
         EndStepCapture, EndCapture, LaunchEnded, LaunchEndedUnverified, VerifyEnded,
         AbortStepCapture, AbortCapture, ReplayStep, PrepareReplay, LaunchReplay, Goes
<1>4. ASSUME NEW u \in Threads
      PROVE  Hands(u)' \subseteq Hands(u)
  <2>1. CASE at'[u] = at[u]
    BY <1>2, <2>1, MeddlingKeeps
  <2>2. CASE at'[u] # at[u]
    <3>1. at'[u] \notin Owning
      BY <1>3, <2>2 DEF TypeOK, Owning
    <3> QED BY <3>1, HandsNext
  <2> QED BY <2>1, <2>2
<1> QED BY <1>1, <1>4, NoneUnowned, OwnersOnlyLose

LEMMA OwnersInductive ==
    ASSUME TypeOK, BuffersHaveOneOwner, [Next]_vars
    PROVE  BuffersHaveOneOwner'
<1>1. CASE UNCHANGED vars
  <2>1. \A u \in Threads : Hands(u)' = Hands(u)
    BY <1>1, HandsKept DEF vars
  <2> QED BY <1>1, <2>1, NoneUnowned, OwnersOnlyLose DEF vars
<1>2. CASE Next
  BY <1>2, HostOwners, DispatchOwners, LookupOwners, AttentionOwners, CaptureOwners
     DEF Next
<1> QED BY <1>1, <1>2

LEMMA InitOwners == Init => BuffersHaveOneOwner
<1> SUFFICES ASSUME Init PROVE BuffersHaveOneOwner
  OBVIOUS
<1>1. \A t \in Threads : Hands(t) = {}
  BY DEF Init, Hands
<1> QED BY <1>1 DEF Init, BuffersHaveOneOwner

\* However many threads dispatch, look up, capture and replay at once, a
\* device buffer is the table's under one id, the slot's, or one thread's.
THEOREM OneOwner == Spec => []BuffersHaveOneOwner
BY InitTyped, TypeInductive, InitOwners, OwnersInductive, PTL DEF Spec

----------------------------------------------------------------------------
(* The flag a lookup reads.                                                *)

InKernel == {"alloc", "flag", "ask", "reset", "launch", "confirm", "check",
             "split", "combine", "combine in graph"}
Answering == {"launch", "confirm", "check"}

\* One thread at a time is inside a kernel, and only a lookup that has reset
\* the flag remembers what it met.
OneInKernel ==
    /\ \A t \in Threads : at[t] \in InKernel => lock["storage"] = t
    /\ \A t \in Threads :
        at[t] \in DispatchPoints \ Answering => job[t].invalid = None

\* The flag is a lookup's own from its reset on, and not set until it runs.
FlagFollowed ==
    \A t \in Threads :
        at[t] \in Answering /\ job[t].invalid # None
            => flag = job[t].invalid /\ (at[t] = "launch" => flag = FALSE)

FlagInv == OneInKernel /\ FlagFollowed

\* What a step of t has to show: its own point and record, the storage lock,
\* and, if the flag changes, that no other thread is on its way to it.
LEMMA FlagStep ==
    ASSUME TypeOK, FlagInv, NEW t \in Threads,
           \A u \in Threads : u # t => at'[u] = at[u] /\ job'[u] = job[u],
           lock'["storage"] # lock["storage"]
               => lock["storage"] = None \/ (lock["storage"] = t /\ at'[t] \notin InKernel),
           at'[t] \in InKernel => lock'["storage"] = t,
           at'[t] \in DispatchPoints \ Answering => job'[t].invalid = None,
           at'[t] \in Answering /\ job'[t].invalid # None
               => flag' = job'[t].invalid /\ (at'[t] = "launch" => flag' = FALSE),
           flag' # flag => \A u \in Threads : u # t => at[u] \notin Answering
    PROVE  FlagInv'
<1>1. \A u \in Threads : at'[u] \in InKernel => lock'["storage"] = u
  BY ConstantsOK DEF FlagInv, OneInKernel
<1>2. \A u \in Threads : at'[u] \in DispatchPoints \ Answering => job'[u].invalid = None
  BY DEF FlagInv, OneInKernel
<1>3. ASSUME NEW u \in Threads, at'[u] \in Answering, job'[u].invalid # None
      PROVE  flag' = job'[u].invalid /\ (at'[u] = "launch" => flag' = FALSE)
  <2>1. CASE u = t
    BY <1>3, <2>1
  <2>2. CASE u # t
    BY <1>3, <2>2 DEF FlagInv, FlagFollowed
  <2> QED BY <2>1, <2>2
<1> QED BY <1>1, <1>2, <1>3 DEF FlagInv, OneInKernel, FlagFollowed

LEMMA OthersStay ==
    ASSUME TypeOK, NEW t \in Threads, NEW from, NEW to, Goes(t, from, to),
           job' = job \/ \E j : job' = [job EXCEPT ![t] = j]
    PROVE  /\ at[t] = from /\ at'[t] = to
           /\ \A u \in Threads : u # t => at'[u] = at[u] /\ job'[u] = job[u]
BY DEF TypeOK, Goes

\* A step within a dispatch that leaves the flag and is not on its way to it.
LEMMA FlagLeftAlone ==
    ASSUME TypeOK, FlagInv, NEW t \in Threads, NEW from, NEW to, Goes(t, from, to),
           job' = job \/ \E j : job' = [job EXCEPT ![t] = j],
           flag' = flag, to \notin Answering,
           to \in DispatchPoints => job'[t].invalid = None,
           \/ lock'["storage"] = lock["storage"] /\ (to \in InKernel => from \in InKernel)
           \/ lock["storage"] = None /\ lock'["storage"] = t
           \/ lock["storage"] = t /\ to \notin InKernel
    PROVE  FlagInv'
<1>1. /\ at[t] = from /\ at'[t] = to
      /\ \A u \in Threads : u # t => at'[u] = at[u] /\ job'[u] = job[u]
  BY OthersStay
<1>2. at'[t] \in InKernel => lock'["storage"] = t
  BY <1>1 DEF FlagInv, OneInKernel
<1> QED BY <1>1, <1>2, FlagStep

LEMMA LockedBy ==
    ASSUME TypeOK, NEW t \in Threads
    PROVE  /\ Holding("storage", t)["storage"] = t
           /\ \A l \in Locks \ {"storage"} : Holding(l, t)["storage"] = lock["storage"]
           /\ \A ls : Releasing(ls)["storage"]
                        = IF "storage" \in ls THEN None ELSE lock["storage"]
BY DEF TypeOK, Holding, Releasing

\* What the dispatch of t is while it is under way.
LEMMA JobUnderWay ==
    ASSUME TypeOK, FlagInv, NEW t \in Threads, at[t] \in DispatchPoints
    PROVE  /\ job[t] \in Jobs
           /\ at[t] \notin Answering => job[t].invalid = None
           /\ at[t] \in InKernel => lock["storage"] = t
           /\ \A b : [job EXCEPT ![t].buffer = b][t].invalid = job[t].invalid
           /\ \A b : [job EXCEPT ![t].back = b][t].invalid = job[t].invalid
           /\ \A f : [job EXCEPT ![t].invalid = f][t].invalid = f
BY DEF TypeOK, FlagInv, OneInKernel, Jobs

LEMMA DispatchFlag ==
    ASSUME TypeOK, FlagInv, NEW t \in Threads, DispatchStep(t)
    PROVE  FlagInv'
<1> USE DEF InKernel, Answering
<1>1. ASSUME NEW k \in Calls \cap KernelNames, NEW out \in Ids, NEW reads \in BOOLEAN,
             TakePrevious(t, k, out, reads)
      PROVE  FlagInv'
  <2>1. Goes(t, "idle", "offer") /\ UNCHANGED <<lock, flag>>
    BY <1>1 DEF TakePrevious
  <2>2. PICK previous : job' = [job EXCEPT ![t] =
                            [kernel |-> k, out |-> out, previous |-> previous,
                             buffer |-> None, back |-> None, invalid |-> None]]
    BY <1>1 DEF TakePrevious
  <2>3. job'[t].invalid = None
    BY <2>2 DEF TypeOK
  <2> QED BY <2>1, <2>2, <2>3, FlagLeftAlone
<1>2. CASE OfferOutput(t)
  <2>1. Goes(t, "offer", "run") /\ UNCHANGED <<job, lock, flag>> /\ at[t] = "offer"
    BY <1>2 DEF OfferOutput, Goes
  <2> QED BY <2>1, JobUnderWay, FlagLeftAlone
<1>3. CASE EnterKernel(t)
  <2>1. Goes(t, "run", "alloc") /\ UNCHANGED <<job, flag>> /\ at[t] = "run"
        /\ lock["storage"] = None /\ lock' = Holding("storage", t)
    BY <1>3 DEF EnterKernel, Goes, Unheld
  <2> QED BY <2>1, JobUnderWay, LockedBy, FlagLeftAlone
<1>4. CASE RejectInputs(t)
  <2>1. Goes(t, "run", FailurePoint(t)) /\ FailurePoint(t) \in {"drop", "reclaim"}
        /\ UNCHANGED <<job, lock, flag>> /\ at[t] = "run"
    BY <1>4 DEF RejectInputs, FailurePoint, Goes
  <2> QED BY <2>1, JobUnderWay, FlagLeftAlone
<1>5. CASE TakeOffered(t)
  <2>1. Goes(t, "alloc", AfterAlloc(t)) /\ AfterAlloc(t) \in {"flag", "split", "store"}
        /\ job' = [job EXCEPT ![t].buffer = offered] /\ flag' = flag /\ at[t] = "alloc"
    BY <1>5 DEF TakeOffered, AfterAlloc, Goes
  <2>2. lock'["storage"] = lock["storage"] \/ AfterAlloc(t) = "store"
    BY <1>5 DEF TakeOffered, AfterAlloc, LocksAfterAlloc
  <2> QED BY <2>1, <2>2, JobUnderWay, FlagLeftAlone
<1>6. CASE AllocateFresh(t)
  <2>1. PICK b : job' = [job EXCEPT ![t].buffer = b]
    BY <1>6 DEF AllocateFresh
  <2>2. Goes(t, "alloc", AfterAlloc(t)) /\ AfterAlloc(t) \in {"flag", "split", "store"}
        /\ flag' = flag /\ at[t] = "alloc"
    BY <1>6 DEF AllocateFresh, AfterAlloc, Goes
  <2>3. lock'["storage"] = lock["storage"] \/ AfterAlloc(t) = "store"
    BY <1>6 DEF AllocateFresh, AfterAlloc, LocksAfterAlloc
  <2> QED BY <2>1, <2>2, <2>3, JobUnderWay, FlagLeftAlone
<1>7. CASE KernelFails(t)
  <2>1. Goes(t, "alloc", FailurePoint(t)) /\ FailurePoint(t) \in {"drop", "reclaim"}
        /\ flag' = flag /\ at[t] = "alloc"
    BY <1>7 DEF KernelFails, FailurePoint, Goes
  <2>2. job' = job \/ job' = [job EXCEPT ![t].buffer = offered]
    BY <1>7 DEF KernelFails
  <2>3. job'[t].invalid = None
    <3>1. job[t].invalid = None
          /\ [job EXCEPT ![t].buffer = offered][t].invalid = job[t].invalid
      BY <2>1, JobUnderWay
    <3> QED BY <2>2, <3>1
  <2>4. lock["storage"] = t
    BY <2>1, JobUnderWay
  <2> QED BY <2>1, <2>2, <2>3, <2>4, FlagLeftAlone
<1>8. CASE StoreOutput(t)
  <2>1. Goes(t, "store", "drop") /\ UNCHANGED <<job, lock, flag>> /\ at[t] = "store"
    BY <1>8 DEF StoreOutput, Goes
  <2> QED BY <2>1, JobUnderWay, FlagLeftAlone
<1>9. CASE Reclaim(t)
  <2>1. Goes(t, "reclaim", "unguard") /\ job' = [job EXCEPT ![t].back = offered]
        /\ UNCHANGED <<lock, flag>> /\ at[t] = "reclaim"
    BY <1>9 DEF Reclaim, Goes
  <2> QED BY <2>1, JobUnderWay, FlagLeftAlone
<1>10. CASE DropGuard(t)
  <2>1. Goes(t, "unguard", "put back") /\ UNCHANGED <<job, lock, flag>> /\ at[t] = "unguard"
    BY <1>10 DEF DropGuard, Goes
  <2> QED BY <2>1, JobUnderWay, FlagLeftAlone
<1>11. CASE Return(t) \/ PutBack(t)
  <2>1. job' = [job EXCEPT ![t] = None] /\ UNCHANGED <<lock, flag>>
        /\ (Goes(t, "drop", "idle") \/ Goes(t, "put back", "idle"))
    BY <1>11 DEF Return, PutBack
  <2> QED BY <2>1, FlagLeftAlone
<1>12. CASE \E k \in Calls \cap KernelNames, out \in Ids, reads \in BOOLEAN :
              TakePrevious(t, k, out, reads)
  BY <1>1, <1>12
<1> QED
  BY <1>2, <1>3, <1>4, <1>5, <1>6, <1>7, <1>8, <1>9, <1>10, <1>11, <1>12
     DEF DispatchStep

LEMMA LookupFlag ==
    ASSUME TypeOK, FlagInv, NEW t \in Threads, LookupStep(t)
    PROVE  FlagInv'
<1> USE DEF InKernel, Answering
<1>1. CASE LockFlag(t)
  <2>1. Goes(t, "flag", "ask") /\ UNCHANGED <<job, flag>> /\ at[t] = "flag"
        /\ lock' = Holding("embedding_flag", t)
    BY <1>1 DEF LockFlag, Goes
  <2>2. lock'["storage"] = lock["storage"]
    BY <2>1, LockedBy
  <2> QED BY <2>1, <2>2, JobUnderWay, FlagLeftAlone
<1>2. CASE AskWhetherCapturing(t)
  <2>1. PICK to \in {"launch", "reset"} : Goes(t, "ask", to)
    BY <1>2 DEF AskWhetherCapturing
  <2>2. UNCHANGED <<job, lock, flag>> /\ at[t] = "ask"
    BY <1>2, <2>1 DEF AskWhetherCapturing, Goes
  <2>3. lock["storage"] = t /\ job[t].invalid = None
    BY <2>2, JobUnderWay
  <2>4. at'[t] = to /\ \A u \in Threads : u # t => at'[u] = at[u] /\ job'[u] = job[u]
    BY <2>1, <2>2, OthersStay
  <2> QED BY <2>2, <2>3, <2>4, FlagStep
<1>3. CASE LaunchLookup(t)
  <2>1. Goes(t, "launch", "confirm") /\ at[t] = "launch"
    BY <1>3 DEF LaunchLookup, Goes
  <2>2. lock' = Releasing({"embedding_flag"})
    BY <1>3 DEF LaunchLookup, DropsFlagLock
  <2>3. lock'["storage"] = lock["storage"] /\ lock["storage"] = t
    BY <2>1, <2>2, LockedBy, JobUnderWay
  <2>4. \A u \in Threads : u # t => at[u] \notin Answering
    BY <2>3 DEF FlagInv, OneInKernel
  <2>5. job[t].invalid # None => flag = job[t].invalid /\ flag = FALSE
    BY <2>1 DEF FlagInv, FlagFollowed
  <2>6. CASE UNCHANGED <<flag, job>>
    <3>1. at'[t] = "confirm" /\ \A u \in Threads : u # t => at'[u] = at[u] /\ job'[u] = job[u]
      BY <2>1, <2>6, OthersStay
    <3> QED BY <2>3, <2>5, <2>6, <3>1, FlagStep
  <2>7. ASSUME NEW invalid \in BOOLEAN,
               flag' = (invalid \/ flag),
               job' = [job EXCEPT ![t].invalid = IF job[t].invalid = None THEN None ELSE invalid]
        PROVE  FlagInv'
    <3>1. job'[t].invalid = IF job[t].invalid = None THEN None ELSE invalid
      <4> DEFINE met == IF job[t].invalid = None THEN None ELSE invalid
      <4>1. [job EXCEPT ![t].invalid = met][t].invalid = met
        <5> HIDE DEF met
        <5> QED BY <2>1, JobUnderWay
      <4> QED BY <4>1, <2>7
    <3>2. job[t].invalid # None => flag' = invalid
      BY <2>5, <2>7
    <3>3. job'[t].invalid # None => flag' = job'[t].invalid
      BY <3>1, <3>2
    <3>4. at'[t] = "confirm" /\ \A u \in Threads : u # t => at'[u] = at[u] /\ job'[u] = job[u]
      BY <2>1, <2>7, OthersStay
    <3> QED BY <2>3, <2>4, <3>3, <3>4, FlagStep
  <2> QED BY <1>3, <2>6, <2>7 DEF LaunchLookup
<1>4. CASE LaunchLookupFails(t)
  <2>1. PICK from \in {"ask", "reset", "launch"} : Goes(t, from, FailurePoint(t))
    BY <1>4 DEF LaunchLookupFails
  <2>2. FailurePoint(t) \in {"drop", "reclaim"}
    BY DEF FailurePoint
  <2>3. at[t] = from /\ lock["storage"] = t
    BY <2>1, JobUnderWay DEF Goes
  <2>4. job' = [job EXCEPT ![t].invalid = None] /\ job'[t].invalid = None
    BY <1>4, <2>3, JobUnderWay DEF LaunchLookupFails
  <2>5. \A u \in Threads : u # t => at[u] \notin Answering
    BY <2>3 DEF FlagInv, OneInKernel
  <2>6. at'[t] = FailurePoint(t) /\ \A u \in Threads : u # t => at'[u] = at[u] /\ job'[u] = job[u]
    BY <2>1, <2>4, OthersStay
  <2> QED BY <2>2, <2>3, <2>4, <2>5, <2>6, FlagStep
<1>5. CASE ConfirmInCapture(t)
  <2>1. Goes(t, "confirm", "store") /\ flag' = flag /\ at[t] = "confirm"
        /\ job' = [job EXCEPT ![t].invalid = None]
    BY <1>5 DEF ConfirmInCapture, Goes
  <2> QED BY <2>1, JobUnderWay, FlagLeftAlone
<1>6. CASE ConfirmOutsideCapture(t)
  <2>1. Goes(t, "confirm", "check") /\ UNCHANGED <<job, lock, flag>> /\ at[t] = "confirm"
    BY <1>6 DEF ConfirmOutsideCapture, Goes
  <2>2. job[t].invalid # None => flag = job[t].invalid
    BY <2>1 DEF FlagInv, FlagFollowed
  <2>3. lock["storage"] = t
    BY <2>1, JobUnderWay
  <2>4. at'[t] = "check" /\ \A u \in Threads : u # t => at'[u] = at[u] /\ job'[u] = job[u]
    BY <2>1, OthersStay
  <2> QED BY <2>1, <2>2, <2>3, <2>4, FlagStep
<1>7. CASE CheckEmbeddingFlag(t)
  <2>1. PICK to \in {"store", "drop", "reclaim"} : Goes(t, "check", to)
    BY <1>7 DEF CheckEmbeddingFlag, FailurePoint
  <2>2. flag' = flag /\ at[t] = "check" /\ job' = [job EXCEPT ![t].invalid = None]
    BY <1>7, <2>1 DEF CheckEmbeddingFlag, Goes
  <2> QED BY <2>1, <2>2, JobUnderWay, FlagLeftAlone
<1>8. CASE ResetFlag(t)
  <2>1. Goes(t, "reset", "launch") /\ at[t] = "reset" /\ UNCHANGED lock
        /\ job' = [job EXCEPT ![t].invalid = FALSE] /\ flag' = FALSE
    BY <1>8 DEF ResetFlag, Goes
  <2>2. lock["storage"] = t /\ job'[t].invalid = FALSE
    BY <2>1, JobUnderWay
  <2>3. \A u \in Threads : u # t => at[u] \notin Answering
    BY <2>2 DEF FlagInv, OneInKernel
  <2>4. at'[t] = "launch" /\ \A u \in Threads : u # t => at'[u] = at[u] /\ job'[u] = job[u]
    BY <2>1, OthersStay
  <2> QED BY <2>1, <2>2, <2>3, <2>4, FlagStep
<1> QED
  BY <1>1, <1>2, <1>3, <1>4, <1>5, <1>6, <1>7, <1>8 DEF LookupStep

LEMMA AttentionFlag ==
    ASSUME TypeOK, FlagInv, NEW t \in Threads, AttentionStep(t)
    PROVE  FlagInv'
<1> USE DEF InKernel, Answering
<1>1. CASE LaunchSplit(t)
  <2>1. PICK to \in {"combine", "combine in graph"} : Goes(t, "split", to)
    BY <1>1 DEF LaunchSplit
  <2>2. UNCHANGED <<job, lock, flag>> /\ at[t] = "split"
    BY <1>1, <2>1 DEF LaunchSplit, Goes
  <2> QED BY <2>1, <2>2, JobUnderWay, FlagLeftAlone
<1>2. CASE LaunchCombine(t) \/ LaunchAttentionFails(t)
  <2>1. PICK from \in {"split", "combine", "combine in graph"},
             to \in {"store", "drop", "reclaim"} : Goes(t, from, to)
    BY <1>2 DEF LaunchCombine, LaunchAttentionFails, FailurePoint
  <2>2. UNCHANGED <<job, flag>> /\ at[t] = from
    BY <1>2, <2>1 DEF LaunchCombine, LaunchAttentionFails, Goes
  <2> QED BY <2>1, <2>2, JobUnderWay, FlagLeftAlone
<1> QED BY <1>1, <1>2 DEF AttentionStep

LEMMA CaptureFlag ==
    ASSUME TypeOK, FlagInv, NEW t \in Threads, CaptureStep(t)
    PROVE  FlagInv'
<1>1. job' = job \/ job' = Meddled(t)
  BY DEF CaptureStep, BeginStepCapture, LockCapture, BeginRefused, StartCapture,
         EndStepCapture, EndCapture, LaunchEnded, LaunchEndedUnverified, VerifyEnded,
         AbortStepCapture, AbortCapture, ReplayStep, PrepareReplay, LaunchReplay, RunGraph
<1>2. flag' = flag \/ job' = Meddled(t)
  BY DEF CaptureStep, BeginStepCapture, LockCapture, BeginRefused, StartCapture,
         EndStepCapture, EndCapture, LaunchEnded, LaunchEndedUnverified, VerifyEnded,
         AbortStepCapture, AbortCapture, ReplayStep, PrepareReplay, LaunchReplay, RunGraph
<1>3. /\ at[t] \notin DispatchPoints
      /\ at' = at \/ \E to \in CapturePoints \cup {"idle"} : at' = [at EXCEPT ![t] = to]
  BY DEF CaptureStep, BeginStepCapture, LockCapture, BeginRefused, StartCapture,
         EndStepCapture, EndCapture, LaunchEnded, LaunchEndedUnverified, VerifyEnded,
         AbortStepCapture, AbortCapture, ReplayStep, PrepareReplay, LaunchReplay, Goes
<1>4. lock'["storage"] = lock["storage"]
  <2>1. \/ lock' = lock
        \/ lock' = Holding("step_capture", t) \/ lock' = Holding("capture", t)
        \/ lock' = Releasing({"step_capture"})
        \/ lock' = Releasing({"step_capture", "capture"})
    BY DEF CaptureStep, BeginStepCapture, LockCapture, BeginRefused, StartCapture,
           EndStepCapture, EndCapture, LaunchEnded, LaunchEndedUnverified, VerifyEnded,
           AbortStepCapture, AbortCapture, ReplayStep, PrepareReplay, LaunchReplay
  <2> QED BY <2>1 DEF Holding, Releasing, TypeOK
<1>5. at'[t] \notin DispatchPoints /\ \A u \in Threads : u # t => at'[u] = at[u]
  BY <1>3 DEF TypeOK
<1>6. ASSUME NEW u \in Threads, at'[u] \in DispatchPoints
      PROVE  /\ u # t /\ at'[u] = at[u] /\ job[u] \in Jobs
             /\ job'[u].invalid \in {job[u].invalid, None}
             /\ job' = Meddled(t) /\ at[u] \in Answering => job'[u].invalid = None
  <2>1. u # t /\ at'[u] = at[u] /\ job[u] \in Jobs
    BY <1>5, <1>6 DEF TypeOK
  <2>2. CASE job' = job /\ job' # Meddled(t)
    BY <2>1, <2>2
  <2>3. CASE job' = Meddled(t)
    BY <2>1, <2>3 DEF Meddled, Jobs, Answering
  <2> QED BY <1>1, <2>1, <2>2, <2>3
<1>7. OneInKernel'
  BY <1>4, <1>6 DEF FlagInv, OneInKernel, InKernel
<1>8. ASSUME NEW u \in Threads, at'[u] \in Answering, job'[u].invalid # None
      PROVE  flag' = job'[u].invalid /\ (at'[u] = "launch" => flag' = FALSE)
  <2>1. at'[u] \in DispatchPoints
    BY <1>8 DEF Answering
  <2>2. at'[u] = at[u] /\ job' # Meddled(t) /\ job' = job /\ flag' = flag /\ at[u] \in Answering
    BY <1>1, <1>2, <1>6, <1>8, <2>1
  <2> QED BY <1>8, <2>2 DEF FlagInv, FlagFollowed
<1> QED BY <1>7, <1>8 DEF FlagInv, FlagFollowed

LEMMA FlagInductive ==
    ASSUME TypeOK, FlagInv, [Next]_vars
    PROVE  FlagInv'
<1>1. CASE UNCHANGED vars
  BY <1>1 DEF vars, FlagInv, OneInKernel, FlagFollowed
<1>2. ASSUME NEW i \in Ids, WriteTensor(i) \/ ReleaseTensor(i)
      PROVE  FlagInv'
  BY <1>2 DEF WriteTensor, ReleaseTensor, FlagInv, OneInKernel, FlagFollowed
<1> QED BY <1>1, <1>2, DispatchFlag, LookupFlag, AttentionFlag, CaptureFlag DEF Next

LEMMA InitFlag == Init => FlagInv
BY DEF Init, FlagInv, OneInKernel, FlagFollowed, InKernel, Answering

\* One flag serves the lookups of any number of threads: the storage lock
\* keeps it a lookup's own until it has been read, unless another thread
\* launches a graph or begins a capture meanwhile.  It holds because the flag is
\* followed from its reset on, and one thread at a time is inside a kernel.
THEOREM OwnFlag == Spec => []LookupSeesItsOwnFlag
<1>1. FlagInv => LookupSeesItsOwnFlag
  BY DEF FlagInv, FlagFollowed, Answering, LookupSeesItsOwnFlag
<1> QED BY <1>1, InitTyped, TypeInductive, InitFlag, FlagInductive, PTL DEF Spec

----------------------------------------------------------------------------
(* The partials an attention combines.                                     *)

\* A step after which no more threads are about to combine, and which fills
\* the scratch, if at all, from a graph.
LEMMA PartialsLeft ==
    ASSUME CombineSeesItsOwnSplit, partials' \in {partials, None},
           \A u \in Threads : at'[u] = "combine" => at[u] = "combine"
    PROVE  CombineSeesItsOwnSplit'
BY DEF CombineSeesItsOwnSplit

LEMMA PartialsGoing ==
    ASSUME TypeOK, CombineSeesItsOwnSplit, partials' \in {partials, None},
           NEW t \in Threads, NEW from, NEW to \in Points \ {"combine"},
           at' = at \/ Goes(t, from, to)
    PROVE  CombineSeesItsOwnSplit'
<1>1. \A u \in Threads : at'[u] = "combine" => at[u] = "combine"
  BY DEF Goes, TypeOK
<1> QED BY <1>1, PartialsLeft

LEMMA DispatchPartials ==
    ASSUME TypeOK, CombineSeesItsOwnSplit, NEW t \in Threads, DispatchStep(t)
    PROVE  CombineSeesItsOwnSplit'
<1>1. partials' = partials
  BY DEF DispatchStep, TakePrevious, OfferOutput, EnterKernel, RejectInputs, TakeOffered,
         AllocateFresh, KernelFails, StoreOutput, Reclaim, DropGuard, PutBack, Return
<1>2. \E from, to \in Points \ {"combine"} : Goes(t, from, to)
  BY DEF DispatchStep, TakePrevious, OfferOutput, EnterKernel, RejectInputs, TakeOffered,
         AllocateFresh, KernelFails, StoreOutput, Reclaim, DropGuard, PutBack, Return,
         AfterAlloc, FailurePoint
<1> QED BY <1>1, <1>2, PartialsGoing

LEMMA LookupPartials ==
    ASSUME TypeOK, CombineSeesItsOwnSplit, NEW t \in Threads, LookupStep(t)
    PROVE  CombineSeesItsOwnSplit'
<1>1. partials' = partials
  BY DEF LookupStep, LockFlag, AskWhetherCapturing, ResetFlag, LaunchLookup, LaunchLookupFails,
         ConfirmInCapture, ConfirmOutsideCapture, CheckEmbeddingFlag
<1>2. \E from, to \in Points \ {"combine"} : Goes(t, from, to)
  BY DEF LookupStep, LockFlag, AskWhetherCapturing, ResetFlag, LaunchLookup, LaunchLookupFails,
         ConfirmInCapture, ConfirmOutsideCapture, CheckEmbeddingFlag, FailurePoint
<1> QED BY <1>1, <1>2, PartialsGoing

\* The thread that splits holds the storage lock, so no other is between its
\* two launches.
LEMMA AttentionPartials ==
    ASSUME TypeOK, OneInKernel, CombineSeesItsOwnSplit, NEW t \in Threads, AttentionStep(t)
    PROVE  CombineSeesItsOwnSplit'
<1>1. CASE LaunchSplit(t)
  <2>1. CASE capturing
    <3>1. Goes(t, "split", "combine in graph") /\ partials' = partials
      BY <1>1, <2>1 DEF LaunchSplit
    <3> QED BY <3>1, PartialsGoing
  <2>2. CASE ~capturing
    <3>1. Goes(t, "split", "combine") /\ partials' = t
      BY <1>1, <2>2 DEF LaunchSplit
    <3>2. lock["storage"] = t
      BY <3>1 DEF OneInKernel, InKernel, Goes
    <3>3. \A u \in Threads \ {t} : at'[u] = at[u]
      BY <3>1, GoesTyped
    <3>4. \A u \in Threads \ {t} : at'[u] # "combine"
      BY <3>2, <3>3 DEF OneInKernel, InKernel
    <3> QED BY <3>1, <3>4 DEF CombineSeesItsOwnSplit
  <2> QED BY <2>1, <2>2
<1>2. CASE LaunchCombine(t) \/ LaunchAttentionFails(t)
  <2>1. \E from \in Points, to \in {"store", "drop", "reclaim"} : Goes(t, from, to)
    BY <1>2 DEF LaunchCombine, LaunchAttentionFails, FailurePoint, Points, DispatchPoints
  <2>2. partials' = partials
    BY <1>2 DEF LaunchCombine, LaunchAttentionFails
  <2> QED BY <2>1, <2>2, PartialsGoing
<1> QED BY <1>1, <1>2 DEF AttentionStep

LEMMA CapturePartials ==
    ASSUME TypeOK, CombineSeesItsOwnSplit, NEW t \in Threads, CaptureStep(t)
    PROVE  CombineSeesItsOwnSplit'
<1>1. partials' \in {partials, None}
  BY DEF CaptureStep, BeginStepCapture, LockCapture, BeginRefused, StartCapture,
         EndStepCapture, EndCapture, LaunchEnded, LaunchEndedUnverified, VerifyEnded,
         AbortStepCapture, AbortCapture, ReplayStep, PrepareReplay, LaunchReplay, RunGraph
<1>2. at' = at \/ \E from, to \in {"idle"} \cup CapturePoints : Goes(t, from, to)
  BY DEF CaptureStep, BeginStepCapture, LockCapture, BeginRefused, StartCapture,
         EndStepCapture, EndCapture, LaunchEnded, LaunchEndedUnverified, VerifyEnded,
         AbortStepCapture, AbortCapture, ReplayStep, PrepareReplay, LaunchReplay
<1> QED BY <1>1, <1>2, PartialsGoing, PartialsLeft

LEMMA PartialsInductive ==
    ASSUME TypeOK, FlagInv, CombineSeesItsOwnSplit, [Next]_vars
    PROVE  CombineSeesItsOwnSplit'
<1>1. CASE UNCHANGED vars
  BY <1>1, PartialsLeft DEF vars
<1>2. ASSUME NEW i \in Ids, WriteTensor(i) \/ ReleaseTensor(i)
      PROVE  CombineSeesItsOwnSplit'
  BY <1>2, PartialsLeft DEF WriteTensor, ReleaseTensor
<1>3. OneInKernel
  BY DEF FlagInv
<1> QED
  BY <1>1, <1>2, <1>3, DispatchPartials, LookupPartials, AttentionPartials, CapturePartials
     DEF Next

LEMMA InitPartials == Init => CombineSeesItsOwnSplit
BY DEF Init, CombineSeesItsOwnSplit

\* One scratch serves the split and the combine launches of any number of
\* threads: between the two no other thread's split comes in.
THEOREM OwnPartials == Spec => []CombineSeesItsOwnSplit
BY InitTyped, TypeInductive, InitFlag, FlagInductive, InitPartials, PartialsInductive, PTL
   DEF Spec

----------------------------------------------------------------------------
(* Threads that wait for each other.                                       *)

\* The locks a thread may hold at a point.
MayHold(p) ==
    CASE p \in {"begin", "end", "graph", "verify", "current", "replay"} -> {"step_capture"}
      [] p = "start" -> {"step_capture", "capture"}
      [] p \in {"alloc", "flag", "confirm", "check", "split", "combine", "combine in graph"}
            -> {"storage"}
      [] p \in {"ask", "reset", "launch"} -> {"storage", "embedding_flag"}
      [] OTHER -> {}

HeldWhereTaken == \A l \in Locks, t \in Threads : lock[l] = t => l \in MayHold(at[t])

\* A step of t keeps the locks of the others; t is where it holds its own.
LEMMA HeldStep ==
    ASSUME TypeOK, HeldWhereTaken, NEW t \in Threads, NEW from, NEW to, Goes(t, from, to),
           \A l \in Locks : lock'[l] \in {lock[l], None, t},
           \A l \in Locks : lock'[l] = t => l \in MayHold(to)
    PROVE  HeldWhereTaken'
<1>1. at[t] = from /\ at'[t] = to /\ \A u \in Threads : u # t => at'[u] = at[u]
  BY DEF TypeOK, Goes
<1> SUFFICES ASSUME NEW l \in Locks, NEW u \in Threads, lock'[l] = u
             PROVE  l \in MayHold(at'[u])
  BY DEF HeldWhereTaken, MayHold
<1>2. CASE u = t
  BY <1>1, <1>2
<1>3. CASE u # t
  <2>1. lock[l] = u
    BY <1>3, ConstantsOK
  <2> QED BY <1>1, <1>3, <2>1 DEF HeldWhereTaken
<1> QED BY <1>2, <1>3

\* What Holding and Releasing do to each lock.
LEMMA LocksNext ==
    ASSUME TypeOK, NEW t \in Threads
    PROVE  /\ \A l, m \in Locks : Holding(m, t)[l] = IF l = m THEN t ELSE lock[l]
           /\ \A l \in Locks : \A ms : Releasing(ms)[l] = IF l \in ms THEN None ELSE lock[l]
BY DEF TypeOK, Holding, Releasing

LEMMA HeldLeft ==
    ASSUME TypeOK, HeldWhereTaken, NEW t \in Threads, NEW from, NEW to, Goes(t, from, to),
           lock' = lock, MayHold(from) \subseteq MayHold(to)
    PROVE  HeldWhereTaken'
<1>1. at[t] = from
  BY DEF Goes
<1>2. \A l \in Locks : lock'[l] = t => l \in MayHold(to)
  BY <1>1 DEF HeldWhereTaken
<1> QED BY <1>2, HeldStep

LEMMA HeldTaking ==
    ASSUME TypeOK, HeldWhereTaken, NEW t \in Threads, NEW from, NEW to, Goes(t, from, to),
           NEW m \in Locks, lock' = Holding(m, t), MayHold(from) \cup {m} \subseteq MayHold(to)
    PROVE  HeldWhereTaken'
<1>1. \A l \in Locks : lock'[l] = IF l = m THEN t ELSE lock[l]
  BY LocksNext
<1>2. at[t] = from
  BY DEF Goes
<1>3. \A l \in Locks : lock'[l] = t => l \in MayHold(to)
  BY <1>1, <1>2 DEF HeldWhereTaken
<1> QED BY <1>1, <1>3, HeldStep

LEMMA HeldDropping ==
    ASSUME TypeOK, HeldWhereTaken, NEW t \in Threads, NEW from, NEW to, Goes(t, from, to),
           NEW ms, lock' = Releasing(ms),
           MayHold(from) \ ms \subseteq MayHold(to)
    PROVE  HeldWhereTaken'
<1>1. \A l \in Locks : lock'[l] = IF l \in ms THEN None ELSE lock[l]
  BY LocksNext
<1>2. at[t] = from
  BY DEF Goes
<1>3. \A l \in Locks : lock'[l] = t => l \in MayHold(to)
  BY <1>1, <1>2, ConstantsOK DEF HeldWhereTaken
<1> QED BY <1>1, <1>3, HeldStep

LEMMA DispatchHeld ==
    ASSUME TypeOK, HeldWhereTaken, NEW t \in Threads, DispatchStep(t)
    PROVE  HeldWhereTaken'
<1>1. CASE EnterKernel(t)
  <2>1. Goes(t, "run", "alloc") /\ lock' = Holding("storage", t)
    BY <1>1 DEF EnterKernel
  <2>2. MayHold("run") \cup {"storage"} \subseteq MayHold("alloc")
    BY DEF MayHold
  <2> QED BY <2>1, <2>2, HeldTaking
<1>2. CASE KernelFails(t)
  <2>1. PICK to \in {"drop", "reclaim"} : Goes(t, "alloc", to)
    BY <1>2 DEF KernelFails, FailurePoint
  <2>2. lock' = Releasing({"storage"})
    BY <1>2 DEF KernelFails
  <2>3. MayHold("alloc") \ {"storage"} \subseteq MayHold(to)
    BY DEF MayHold
  <2> QED BY <2>1, <2>2, <2>3, HeldDropping
<1>3. CASE TakeOffered(t) \/ AllocateFresh(t)
  <2>1. Goes(t, "alloc", AfterAlloc(t)) /\ lock' = LocksAfterAlloc(t)
    BY <1>3 DEF TakeOffered, AllocateFresh
  <2>2. job[t] \in Jobs
    BY <2>1 DEF TypeOK, Goes
  <2>3. CASE job[t].kernel = "silu"
    <3>1. Goes(t, "alloc", "store") /\ lock' = Releasing({"storage"})
      BY <2>1, <2>3 DEF AfterAlloc, LocksAfterAlloc
    <3>2. MayHold("alloc") \ {"storage"} \subseteq MayHold("store")
      BY DEF MayHold
    <3> QED BY <3>1, <3>2, HeldDropping
  <2>4. CASE job[t].kernel # "silu"
    <3>1. PICK to \in {"flag", "split"} : Goes(t, "alloc", to)
      BY <2>1, <2>2, <2>4 DEF AfterAlloc, Jobs, KernelNames
    <3>2. lock' = lock
      BY <2>1, <2>4 DEF LocksAfterAlloc
    <3> QED BY <3>1, <3>2, HeldLeft DEF MayHold
  <2> QED BY <2>3, <2>4
<1>4. ASSUME NEW k \in Calls \cap KernelNames, NEW out \in Ids, NEW reads \in BOOLEAN,
             TakePrevious(t, k, out, reads)
      PROVE  HeldWhereTaken'
  <2>1. Goes(t, "idle", "offer") /\ lock' = lock
    BY <1>4 DEF TakePrevious
  <2> QED BY <2>1, HeldLeft DEF MayHold
<1>5. CASE OfferOutput(t) \/ RejectInputs(t) \/ StoreOutput(t) \/ Reclaim(t) \/ DropGuard(t)
           \/ PutBack(t) \/ Return(t)
  <2>1. lock' = lock
    BY <1>5 DEF OfferOutput, RejectInputs, StoreOutput, Reclaim, DropGuard, PutBack, Return
  <2>2. ASSUME NEW from \in {"offer", "run", "store", "reclaim", "unguard", "put back", "drop"},
               NEW to, Goes(t, from, to)
        PROVE  HeldWhereTaken'
    BY <2>1, <2>2, HeldLeft DEF MayHold
  <2> QED
    BY <1>5, <2>2 DEF OfferOutput, RejectInputs, StoreOutput, Reclaim, DropGuard, PutBack, Return
<1> QED BY <1>1, <1>2, <1>3, <1>4, <1>5 DEF DispatchStep

LEMMA LookupHeld ==
    ASSUME TypeOK, HeldWhereTaken, NEW t \in Threads, LookupStep(t)
    PROVE  HeldWhereTaken'
<1>1. CASE LockFlag(t)
  <2>1. Goes(t, "flag", "ask") /\ lock' = Holding("embedding_flag", t)
    BY <1>1 DEF LockFlag
  <2>2. MayHold("flag") \cup {"embedding_flag"} \subseteq MayHold("ask")
    BY DEF MayHold
  <2> QED BY <2>1, <2>2, HeldTaking
<1>2. CASE AskWhetherCapturing(t)
  <2>1. PICK to \in {"launch", "reset"} : Goes(t, "ask", to)
    BY <1>2 DEF AskWhetherCapturing
  <2>2. lock' = lock
    BY <1>2 DEF AskWhetherCapturing
  <2> QED BY <2>1, <2>2, HeldLeft DEF MayHold
<1>3. CASE LaunchLookup(t)
  <2>1. Goes(t, "launch", "confirm")
    BY <1>3 DEF LaunchLookup
  <2>2. lock' = Releasing({"embedding_flag"})
    BY <1>3 DEF LaunchLookup, DropsFlagLock
  <2>3. MayHold("launch") \ {"embedding_flag"} \subseteq MayHold("confirm")
    BY <2>1 DEF MayHold
  <2> QED BY <2>1, <2>2, <2>3, HeldDropping
<1>4. CASE LaunchLookupFails(t)
  <2>1. PICK from \in {"ask", "reset", "launch"} : Goes(t, from, FailurePoint(t))
    BY <1>4 DEF LaunchLookupFails
  <2>2. lock' = Releasing({"embedding_flag", "storage"})
    BY <1>4 DEF LaunchLookupFails
  <2>3. MayHold(from) \ {"embedding_flag", "storage"} \subseteq MayHold(FailurePoint(t))
    BY <2>1 DEF MayHold
  <2> QED BY <2>1, <2>2, <2>3, HeldDropping
<1>5. CASE ConfirmInCapture(t)
  <2>1. Goes(t, "confirm", "store") /\ lock' = Releasing({"storage"})
    BY <1>5 DEF ConfirmInCapture
  <2>2. MayHold("confirm") \ {"storage"} \subseteq MayHold("store")
    BY DEF MayHold
  <2> QED BY <2>1, <2>2, HeldDropping
<1>6. CASE ConfirmOutsideCapture(t)
  BY <1>6, HeldLeft DEF ConfirmOutsideCapture, MayHold
<1>7. CASE CheckEmbeddingFlag(t)
  <2>1. PICK to : Goes(t, "check", to)
    BY <1>7 DEF CheckEmbeddingFlag
  <2>2. lock' = Releasing({"storage"})
    BY <1>7 DEF CheckEmbeddingFlag
  <2>3. MayHold("check") \ {"storage"} \subseteq MayHold(to)
    BY <2>1 DEF MayHold
  <2> QED BY <2>1, <2>2, <2>3, HeldDropping
<1>8. CASE ResetFlag(t)
  BY <1>8, HeldLeft DEF ResetFlag, MayHold
<1> QED BY <1>1, <1>2, <1>3, <1>4, <1>5, <1>6, <1>7, <1>8 DEF LookupStep

LEMMA AttentionHeld ==
    ASSUME TypeOK, HeldWhereTaken, NEW t \in Threads, AttentionStep(t)
    PROVE  HeldWhereTaken'
<1>1. CASE LaunchSplit(t)
  <2>1. PICK to \in {"combine", "combine in graph"} : Goes(t, "split", to)
    BY <1>1 DEF LaunchSplit
  <2>2. lock' = lock
    BY <1>1 DEF LaunchSplit
  <2> QED BY <2>1, <2>2, HeldLeft DEF MayHold
<1>2. CASE LaunchCombine(t) \/ LaunchAttentionFails(t)
  <2>1. PICK from \in {"split", "combine", "combine in graph"}, to \in {"store", "drop", "reclaim"} :
            Goes(t, from, to)
    BY <1>2 DEF LaunchCombine, LaunchAttentionFails, FailurePoint
  <2>2. lock' = Releasing({"storage"})
    BY <1>2 DEF LaunchCombine, LaunchAttentionFails
  <2>3. MayHold(from) \ {"storage"} \subseteq MayHold(to)
    BY <2>1 DEF MayHold
  <2> QED BY <2>1, <2>2, <2>3, HeldDropping
<1> QED BY <1>1, <1>2 DEF AttentionStep

LEMMA CaptureHeld ==
    ASSUME TypeOK, HeldWhereTaken, NEW t \in Threads, CaptureStep(t)
    PROVE  HeldWhereTaken'
<1>1. CASE BeginStepCapture(t)
  <2>1. Goes(t, "idle", "begin") /\ lock' = Holding("step_capture", t)
    BY <1>1 DEF BeginStepCapture
  <2>2. MayHold("idle") \cup {"step_capture"} \subseteq MayHold("begin")
    BY DEF MayHold
  <2> QED BY <2>1, <2>2, HeldTaking
<1>2. CASE LockCapture(t)
  <2>1. Goes(t, "begin", "start") /\ lock' = Holding("capture", t)
    BY <1>2 DEF LockCapture
  <2>2. MayHold("begin") \cup {"capture"} \subseteq MayHold("start")
    BY DEF MayHold
  <2> QED BY <2>1, <2>2, HeldTaking
<1>3. CASE BeginRefused(t)
  <2>1. PICK from \in {"begin", "start"} : Goes(t, from, "idle")
    BY <1>3 DEF BeginRefused
  <2>2. lock' = Releasing({"step_capture", "capture"})
    BY <1>3 DEF BeginRefused
  <2>3. MayHold(from) \ {"step_capture", "capture"} \subseteq MayHold("idle")
    BY <2>1 DEF MayHold
  <2> QED BY <2>1, <2>2, <2>3, HeldDropping
<1>4. CASE StartCapture(t)
  <2>1. Goes(t, "start", "idle") /\ lock' = Releasing({"step_capture", "capture"})
    BY <1>4 DEF StartCapture
  <2>2. MayHold("start") \ {"step_capture", "capture"} \subseteq MayHold("idle")
    BY DEF MayHold
  <2> QED BY <2>1, <2>2, HeldDropping
<1>5. CASE EndStepCapture(t)
  <2>1. Goes(t, "idle", "end") /\ lock' = Holding("step_capture", t)
    BY <1>5 DEF EndStepCapture
  <2>2. MayHold("idle") \cup {"step_capture"} \subseteq MayHold("end")
    BY DEF MayHold
  <2> QED BY <2>1, <2>2, HeldTaking
<1>6. CASE LaunchEnded(t)
  <2>1. Goes(t, "graph", "verify") /\ lock' = lock
    BY <1>6 DEF LaunchEnded
  <2>2. MayHold("graph") \subseteq MayHold("verify")
    BY DEF MayHold
  <2> QED BY <2>1, <2>2, HeldLeft
<1>7. CASE LaunchEndedUnverified(t)
  <2>1. Goes(t, "graph", "idle") /\ lock' = Releasing({"step_capture"})
    BY <1>7 DEF LaunchEndedUnverified
  <2>2. MayHold("graph") \ {"step_capture"} \subseteq MayHold("idle")
    BY DEF MayHold
  <2> QED BY <2>1, <2>2, HeldDropping
<1>8. CASE VerifyEnded(t)
  <2>1. Goes(t, "verify", "idle") /\ lock' = Releasing({"step_capture"})
    BY <1>8 DEF VerifyEnded
  <2>2. MayHold("verify") \ {"step_capture"} \subseteq MayHold("idle")
    BY DEF MayHold
  <2> QED BY <2>1, <2>2, HeldDropping
<1>9. CASE AbortStepCapture(t)
  <2>1. Goes(t, "idle", "abort") /\ lock' = lock
    BY <1>9 DEF AbortStepCapture
  <2>2. MayHold("idle") \subseteq MayHold("abort")
    BY DEF MayHold
  <2> QED BY <2>1, <2>2, HeldLeft
<1>10. CASE AbortCapture(t)
  <2>1. Goes(t, "abort", "idle") /\ lock' = lock
    BY <1>10 DEF AbortCapture
  <2>2. MayHold("abort") \subseteq MayHold("idle")
    BY DEF MayHold
  <2> QED BY <2>1, <2>2, HeldLeft
<1>11. CASE ReplayStep(t)
  <2>1. Goes(t, "idle", "current") /\ lock' = Holding("step_capture", t)
    BY <1>11 DEF ReplayStep
  <2>2. MayHold("idle") \cup {"step_capture"} \subseteq MayHold("current")
    BY DEF MayHold
  <2> QED BY <2>1, <2>2, HeldTaking
<1>12. CASE LaunchReplay(t)
  <2>1. Goes(t, "replay", "idle") /\ lock' = Releasing({"step_capture"})
    BY <1>12 DEF LaunchReplay
  <2>2. MayHold("replay") \ {"step_capture"} \subseteq MayHold("idle")
    BY DEF MayHold
  <2> QED BY <2>1, <2>2, HeldDropping
<1>13. CASE EndCapture(t)
  <2>1. MayHold("end") \subseteq MayHold("graph")
        /\ MayHold("end") \ {"step_capture"} \subseteq MayHold("idle")
    BY DEF MayHold
  <2>2. CASE Goes(t, "end", "graph") /\ lock' = lock
    BY <2>1, <2>2, HeldLeft
  <2>3. CASE Goes(t, "end", "idle") /\ lock' = Releasing({"step_capture"})
    BY <2>1, <2>3, HeldDropping
  <2> QED BY <1>13, <2>2, <2>3 DEF EndCapture
<1>14. CASE PrepareReplay(t)
  <2>1. MayHold("current") \subseteq MayHold("replay")
        /\ MayHold("current") \ {"step_capture"} \subseteq MayHold("idle")
    BY DEF MayHold
  <2>2. CASE Goes(t, "current", "replay") /\ lock' = lock
    BY <2>1, <2>2, HeldLeft
  <2>3. CASE Goes(t, "current", "idle") /\ lock' = Releasing({"step_capture"})
    BY <2>1, <2>3, HeldDropping
  <2> QED BY <1>14, <2>2, <2>3 DEF PrepareReplay
<1> QED
  BY <1>1, <1>2, <1>3, <1>4, <1>5, <1>6, <1>7, <1>8, <1>9, <1>10, <1>11, <1>12, <1>13, <1>14
     DEF CaptureStep

LEMMA HeldInductive ==
    ASSUME TypeOK, HeldWhereTaken, [Next]_vars
    PROVE  HeldWhereTaken'
<1>1. CASE UNCHANGED vars
  BY <1>1 DEF vars, HeldWhereTaken, MayHold
<1>2. ASSUME NEW i \in Ids, WriteTensor(i) \/ ReleaseTensor(i)
      PROVE  HeldWhereTaken'
  <2>1. UNCHANGED <<at, lock>>
    BY <1>2 DEF WriteTensor, ReleaseTensor
  <2> QED BY <2>1 DEF HeldWhereTaken, MayHold
<1> QED BY <1>1, <1>2, DispatchHeld, LookupHeld, AttentionHeld, CaptureHeld DEF Next

LEMMA InitHeld == Init => HeldWhereTaken
BY ConstantsOK DEF Init, HeldWhereTaken

\* Who waits for the capture lock waits for a begin, who waits for the flag's
\* waits for a lookup, and so does who waits for storage, or for one more.
LEMMA CirclesClose ==
    ASSUME HeldWhereTaken
    PROVE  OneCircleOnly
<1> SUFFICES ASSUME NEW ts \in SUBSET Threads, Entangled(ts)
             PROVE  \E t, u \in ts : at[t] = "start" /\ at[u] = "ask"
  BY DEF OneCircleOnly
<1>1. \A t \in ts : Wants(t) \in Locks /\ lock[Wants(t)] \in ts
  BY DEF Entangled
<1>2. \A t \in ts : Wants(t) \in MayHold(at[lock[Wants(t)]])
  BY <1>1 DEF HeldWhereTaken
<1>3. ASSUME NEW t \in ts, Wants(t) = "capture"
      PROVE  at[lock["capture"]] = "start" /\ lock["capture"] \in ts
  BY <1>1, <1>2, <1>3 DEF MayHold
<1>4. ASSUME NEW t \in ts, Wants(t) = "embedding_flag"
      PROVE  at[lock["embedding_flag"]] = "ask" /\ lock["embedding_flag"] \in ts
  <2> DEFINE u == lock["embedding_flag"]
  <2>1. u \in ts /\ at[u] \in {"ask", "reset", "launch"}
    BY <1>1, <1>2, <1>4 DEF MayHold
  <2>2. Wants(u) \in Locks
    BY <1>1, <2>1
  <2> QED BY <2>1, <2>2 DEF Wants
<1>5. ASSUME NEW t \in ts, Wants(t) = "storage"
      PROVE  \E u \in ts : Wants(u) \in {"capture", "embedding_flag"}
  <2> DEFINE u == lock["storage"]
  <2>1. u \in ts /\ "storage" \in MayHold(at[u])
    BY <1>1, <1>2, <1>5
  <2>2. Wants(u) \in Locks
    BY <1>1, <2>1
  <2> QED BY <2>1, <2>2 DEF Wants, MayHold
<1>6. \A t \in ts : Wants(t) # "step_capture"
  BY DEF Wants
<1>7. ASSUME NEW t \in ts, at[t] = "ask"
      PROVE  Wants(t) = "capture"
  BY <1>7 DEF Wants
<1>8. ASSUME NEW t \in ts, at[t] = "start"
      PROVE  Wants(t) = "embedding_flag"
  BY <1>8 DEF Wants
<1>9. PICK t \in ts : Wants(t) \in {"capture", "embedding_flag"}
  <2>1. PICK t \in ts : TRUE
    BY DEF Entangled
  <2> QED BY <1>1, <1>5, <1>6, <2>1
<1>10. CASE Wants(t) = "capture"
  BY <1>3, <1>4, <1>8, <1>10
<1>11. CASE Wants(t) = "embedding_flag"
  BY <1>3, <1>4, <1>7, <1>11
<1> QED BY <1>9, <1>10, <1>11

\* Any number of threads that wait for each other's locks include a begin of
\* a capture and a lookup that asks for one: no other circle can close.
THEOREM OneCircle == Spec => []OneCircleOnly
BY InitTyped, TypeInductive, InitHeld, HeldInductive, CirclesClose, PTL DEF Spec
=============================================================================
