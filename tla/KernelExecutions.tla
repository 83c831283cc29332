--------------------------- MODULE KernelExecutions --------------------------
(***************************************************************************)
(* Submitting kernel invocations and completing them by handle, with the   *)
(* observation log every dispatch writes to, and the plain requests, which *)
(* are only remembered.  The executor is shared: each thread brings a      *)
(* Memory Manager of its own, and the maps, the log and the ordinal        *)
(* counter are what the threads have in common.  A step ends wherever      *)
(* another thread may come in: at each lock and atomic.                    *)
(***************************************************************************)
EXTENDS Integers, Sequences

CONSTANTS
    Threads,
    Invocations, \* invocation ids, chosen by callers and reused by them
    Requests,    \* handle ids of plain requests, made up outside the executor
    Capacity,    \* KERNEL_OBSERVATION_LOG_CAPACITY
    MaxOrdinal,  \* bound: submissions ever begun
    None

ASSUME ConstantsOK ==
    /\ Capacity \in Nat \ {0}
    /\ MaxOrdinal \in Nat
    /\ None \notin Invocations

VARIABLES
    phase,       \* thread -> where its submission stands
    call,        \* thread -> the submission: invocation, ordinals, outcome
    nextOrdinal, \* next_execution_ordinal
    executions,  \* kernel_executions: execution id -> result
    handles,     \* history: handles returned and not completed yet
    completed,   \* history: execution ids whose result was handed out
    released,    \* history: those whose handle was released instead
    submitted,   \* handle ids of the plain requests remembered
    log          \* the observations vector

threadVars == <<phase, call>>
mapVars == <<executions, handles, completed, released, submitted>>
vars == <<threadVars, nextOrdinal, mapVars, log>>

Phases == {"idle", "minted", "stamped", "started", "ended"}
Outcomes == {"KernelDispatchCompleted", "KernelDispatchFailed", "KernelTimeout"}
Kinds == Outcomes \cup {"KernelDispatchStarted", "KernelMemoryFeasibilityFailed"}
Events == [kind : Kinds, inv : Invocations]

\* provider:invocation:ordinal.
ExecutionIds == [inv : Invocations, ordinal : 0..MaxOrdinal]
Handles == [id : ExecutionIds, operation : 0..MaxOrdinal, outcome : Outcomes]

NoCall == [inv |-> None, ordinal |-> 0, operation |-> 0, outcome |-> None]

TypeOK ==
    /\ phase \in [Threads -> Phases]
    /\ call \in [Threads -> [inv : Invocations \cup {None}, ordinal : 0..MaxOrdinal,
                             operation : 0..MaxOrdinal, outcome : Outcomes \cup {None}]]
    /\ nextOrdinal \in 0..MaxOrdinal
    /\ DOMAIN executions \subseteq ExecutionIds
    /\ \A id \in DOMAIN executions : executions[id] \in Outcomes
    /\ handles \subseteq Handles
    /\ completed \subseteq ExecutionIds
    /\ released \subseteq ExecutionIds
    /\ submitted \subseteq Requests
    /\ log \in Seq(Events)

Init ==
    /\ phase = [t \in Threads |-> "idle"]
    /\ call = [t \in Threads |-> NoCall]
    /\ nextOrdinal = 0
    /\ executions = [id \in {} |-> None]
    /\ handles = {}
    /\ completed = {}
    /\ released = {}
    /\ submitted = {}
    /\ log = <<>>

----------------------------------------------------------------------------
(* The log.                                                                *)

\* Plausible bugs: everything but the newest goes, or nothing ever does.
DrainedTooFar == IF Len(log) >= 2 * Capacity THEN <<>> ELSE log
NeverDrained == log

\* At twice the capacity the oldest half is dropped.
Drained ==
    IF Len(log) >= 2 * Capacity THEN SubSeq(log, Capacity + 1, Len(log)) ELSE log

Observe(kind, inv) == log' = Append(Drained, [kind |-> kind, inv |-> inv])

\* The slice observations() copies.
Latest(s, n) == SubSeq(s, IF Len(s) > n THEN Len(s) - n + 1 ELSE 1, Len(s))

Observations == Latest(log, Capacity)

----------------------------------------------------------------------------
(* submit_kernel_invocation.                                               *)

Goes(t, from, to) ==
    /\ phase[t] = from
    /\ phase' = [phase EXCEPT ![t] = to]

\* Plausible bugs: the ordinal is read, and advanced too late to be taken, or
\* advanced by a read and by a write of its own.
NotAdvanced == nextOrdinal
AdvancedTwice == nextOrdinal + 2

\* fetch_add: no two submissions read the same ordinal.
Advanced == nextOrdinal + 1

MintId(t, inv) ==
    /\ Goes(t, "idle", "minted")
    /\ nextOrdinal < MaxOrdinal
    /\ nextOrdinal' = Advanced
    /\ call' = [call EXCEPT ![t] = [NoCall EXCEPT !.inv = inv, !.ordinal = nextOrdinal]]
    /\ UNCHANGED <<mapVars, log>>

\* The operation id is a second read of the counter: two handles may get the
\* same one.
StampOperation(t) ==
    /\ Goes(t, "minted", "stamped")
    /\ call' = [call EXCEPT ![t].operation = nextOrdinal]
    /\ UNCHANGED <<nextOrdinal, mapVars, log>>

StartDispatch(t) ==
    /\ Goes(t, "stamped", "started")
    /\ Observe("KernelDispatchStarted", call[t].inv)
    /\ UNCHANGED <<call, nextOrdinal, mapVars>>

\* Completed, failed or past its deadline.
EndDispatch(t, outcome) ==
    /\ Goes(t, "started", "ended")
    /\ Observe(outcome, call[t].inv)
    /\ call' = [call EXCEPT ![t].outcome = outcome]
    /\ UNCHANGED <<nextOrdinal, mapVars>>

Refuse(t) ==
    /\ Goes(t, "stamped", "ended")
    /\ call' = [call EXCEPT ![t].outcome = "KernelDispatchFailed"]
    /\ UNCHANGED <<nextOrdinal, mapVars>>

\* An output's descriptor has no byte size: nothing is observed.
RefuseDescriptor(t) == Refuse(t) /\ UNCHANGED log

\* The Memory Manager denies an output its allocation.
DenyAdmission(t) == Refuse(t) /\ Observe("KernelMemoryFeasibilityFailed", call[t].inv)

IdOf(t) == [inv |-> call[t].inv, ordinal |-> call[t].ordinal]

\* The result is filed before the handle is returned.
FileResult(t) ==
    /\ Goes(t, "ended", "idle")
    /\ executions' = [id \in DOMAIN executions \cup {IdOf(t)} |->
                        IF id = IdOf(t) THEN call[t].outcome ELSE executions[id]]
    /\ handles' = handles \cup
        {[id |-> IdOf(t), operation |-> call[t].operation, outcome |-> call[t].outcome]}
    /\ call' = [call EXCEPT ![t] = NoCall]
    /\ UNCHANGED <<nextOrdinal, completed, released, submitted, log>>

\* Plausible bug: completing reads the result and leaves it where it is.
LeftBy(h) == executions

TakenBy(h) == [id \in DOMAIN executions \ {h.id} |-> executions[id]]

\* complete_kernel_invocation by whoever holds the handle.  A handle already
\* completed is refused, with nothing changed.
CompleteKernelInvocation(h) ==
    /\ h.id \in DOMAIN executions
    /\ executions' = TakenBy(h)
    /\ handles' = handles \ {h}
    /\ completed' = completed \cup {h.id}
    /\ UNCHANGED <<threadVars, nextOrdinal, released, submitted, log>>

\* The same handle given to release: that forgets plain requests only, so the
\* result stays filed with nobody left to ask for it.
ReleaseKernelHandle(h) ==
    /\ handles' = handles \ {h}
    /\ released' = released \cup {h.id}
    /\ UNCHANGED <<threadVars, nextOrdinal, executions, completed, submitted, log>>

----------------------------------------------------------------------------
(* Plain requests.  status, cancel and a complete that is refused change   *)
(* nothing.                                                                *)

SubmitRequest(q) ==
    /\ submitted' = submitted \cup {q}
    /\ UNCHANGED <<threadVars, nextOrdinal, executions, handles, completed, released, log>>

\* By complete, or by release, which accepts what is not there as well.
ForgetRequest(q) ==
    /\ submitted' = submitted \ {q}
    /\ UNCHANGED <<threadVars, nextOrdinal, executions, handles, completed, released, log>>

Next ==
    \/ \E t \in Threads :
        \/ \E inv \in Invocations : MintId(t, inv)
        \/ StampOperation(t)
        \/ StartDispatch(t)
        \/ \E outcome \in Outcomes : EndDispatch(t, outcome)
        \/ RefuseDescriptor(t)
        \/ DenyAdmission(t)
        \/ FileResult(t)
    \/ \E h \in handles : CompleteKernelInvocation(h) \/ ReleaseKernelHandle(h)
    \/ \E q \in Requests : SubmitRequest(q) \/ ForgetRequest(q)

Spec == Init /\ [][Next]_vars

----------------------------------------------------------------------------
(* Correctness.                                                            *)

\* A handle leads to the outcome of its own submission until it is completed,
\* and to no other: a result is never overwritten by another thread's
\* submission of the same invocation id, nor handed out under two handles.
HandlesLeadToTheirResults ==
    /\ \A h \in handles : h.id \in DOMAIN executions /\ executions[h.id] = h.outcome
    /\ \A g, h \in handles : g.id = h.id => g = h
    /\ \A h \in handles : h.id \notin completed

\* Results do not pile up: one stays filed only as long as somebody holds its
\* handle, but for a handle that was released instead of completed.
ResultsHaveHolders ==
    \A id \in DOMAIN executions : id \in released \/ \E h \in handles : h.id = id

\* However many dispatches a resident model makes, the log stays within
\* twice its capacity.
LogIsBounded == Len(log) <= 2 * Capacity

Recent == INSTANCE RecentLog WITH recent <- Observations

\* Dropping the oldest half now and then is not seen by readers: they see the
\* Capacity most recent observations after every one of them.
ImplementsRecentLog == Recent!Spec
=============================================================================
