------------------------ MODULE KernelExecutionsProofs -----------------------
(***************************************************************************)
(* Proofs about KernelExecutions, for any capacity, any number of threads  *)
(* and any number of dispatches: what readers see of the observation log,  *)
(* and that no handle leads to another submission's result.                *)
(***************************************************************************)
EXTENDS KernelExecutions, SequenceTheorems, TLAPS

----------------------------------------------------------------------------
(* The slice a reader sees, and what dropping the oldest half does to it.  *)

\* Latest(s, n) is a suffix of s, of length n where s is long enough.
LEMMA LatestProperties ==
    ASSUME NEW S, NEW s \in Seq(S), NEW n \in Nat
    PROVE  /\ Latest(s, n) \in Seq(S)
           /\ Len(Latest(s, n)) = IF Len(s) > n THEN n ELSE Len(s)
           /\ \A i \in 1..Len(Latest(s, n)) :
                Latest(s, n)[i] = s[Len(s) - Len(Latest(s, n)) + i]
<1> DEFINE len == Len(s)
           m == IF len > n THEN len - n + 1 ELSE 1
           q == SubSeq(s, m, len)
<1>1. /\ len \in Nat /\ m \in Int /\ m >= 1 /\ m <= len + 1
      /\ len - m + 1 = IF len > n THEN n ELSE len
  BY LenProperties
<1>2. \A i \in m..len : s[i] \in S
  BY <1>1, ElementOfSeq
<1>3. /\ q \in Seq(S)
      /\ Len(q) = IF m <= len THEN len - m + 1 ELSE 0
      /\ \A i \in 1..(len - m + 1) : q[i] = s[m + i - 1]
  <2> HIDE DEF m, len
  <2> QED BY <1>1, <1>2, SubSeqProperties
<1>4. Latest(s, n) = q
  BY DEF Latest
<1>5. Len(q) = IF len > n THEN n ELSE len
  <2> HIDE DEF m, len, q
  <2> QED BY <1>1, <1>3
<1>6. \A i \in 1..Len(q) : q[i] = s[len - Len(q) + i]
  <2> HIDE DEF m, len, q
  <2>1. len - m + 1 = Len(q)
    BY <1>1, <1>5
  <2> SUFFICES ASSUME NEW i \in 1..Len(q) PROVE q[i] = s[len - Len(q) + i]
    OBVIOUS
  <2>2. Len(q) \in Nat /\ m + i - 1 = len - Len(q) + i
    BY <1>1, <1>5, <2>1
  <2> QED BY <1>3, <2>1, <2>2
<1> QED BY <1>3, <1>4, <1>5, <1>6

LEMMA AppendFacts ==
    ASSUME NEW S, NEW s \in Seq(S), NEW e \in S
    PROVE  /\ Append(s, e) \in Seq(S) /\ Len(Append(s, e)) = Len(s) + 1
           /\ Append(s, e)[Len(s) + 1] = e
           /\ \A i \in 1..Len(s) : Append(s, e)[i] = s[i]
BY AppendProperties

\* Dropping a prefix that leaves at least n elements hides nothing from a
\* reader of the latest n.
LEMMA LatestOfAppend ==
    ASSUME NEW S, NEW s \in Seq(S), NEW e \in S, NEW n \in Nat \ {0},
           NEW d \in Seq(S), NEW k \in 0..Len(s), Len(d) = Len(s) - k,
           \A i \in 1..Len(d) : d[i] = s[k + i],
           k = 0 \/ Len(d) >= n
    PROVE  Latest(Append(d, e), n) = Latest(Append(Latest(s, n), e), n)
<1> DEFINE r == Latest(s, n)
           x == Append(d, e)
           y == Append(r, e)
<1>1. Len(s) \in Nat /\ Len(d) \in Nat
  BY LenProperties
<1>2. /\ r \in Seq(S)
      /\ Len(r) = IF Len(s) > n THEN n ELSE Len(s)
      /\ \A i \in 1..Len(r) : r[i] = s[Len(s) - Len(r) + i]
  BY LatestProperties
<1>3. /\ x \in Seq(S) /\ Len(x) = Len(d) + 1
      /\ x[Len(d) + 1] = e
      /\ \A i \in 1..Len(d) : x[i] = d[i]
  <2>1. \A u \in Seq(S) : /\ Append(u, e) \in Seq(S) /\ Len(Append(u, e)) = Len(u) + 1
                           /\ Append(u, e)[Len(u) + 1] = e
                           /\ \A i \in 1..Len(u) : Append(u, e)[i] = u[i]
    BY AppendFacts
  <2> QED BY <2>1, Zenon
<1>4. /\ y \in Seq(S) /\ Len(y) = Len(r) + 1 /\ y[Len(r) + 1] = e
      /\ \A i \in 1..Len(r) : y[i] = r[i]
  <2>1. r \in Seq(S)
    BY <1>2
  <2> HIDE DEF r
  <2> QED BY <2>1, AppendProperties
<1> HIDE DEF r, x, y
<1>5. /\ Latest(x, n) \in Seq(S)
      /\ Len(Latest(x, n)) = IF Len(x) > n THEN n ELSE Len(x)
      /\ \A i \in 1..Len(Latest(x, n)) : Latest(x, n)[i] = x[Len(x) - Len(Latest(x, n)) + i]
  BY <1>3, LatestProperties, SMTT(60)
<1>6. /\ Latest(y, n) \in Seq(S)
      /\ Len(Latest(y, n)) = IF Len(y) > n THEN n ELSE Len(y)
      /\ \A i \in 1..Len(Latest(y, n)) : Latest(y, n)[i] = y[Len(y) - Len(Latest(y, n)) + i]
  BY <1>4, LatestProperties, SMTT(60)
<1> DEFINE l == Len(Latest(x, n))
<1>7. l = Len(Latest(y, n)) /\ l \in Nat /\ l >= 1
  BY <1>1, <1>2, <1>3, <1>4, <1>5, <1>6
<1>8. ASSUME NEW i \in 1..l PROVE Latest(x, n)[i] = Latest(y, n)[i]
  <2>1. Latest(x, n)[i] = x[Len(x) - l + i] /\ Latest(y, n)[i] = y[Len(y) - l + i]
    BY <1>5, <1>6, <1>7
  <2>2. CASE i = l
    BY <1>1, <1>2, <1>3, <1>4, <1>7, <2>1, <2>2
  <2>3. CASE i # l
    <3> DEFINE a == Len(x) - l + i
               b == Len(y) - l + i
    <3>1. Len(d) \in Nat /\ Len(r) \in Nat /\ Len(s) \in Nat /\ k \in Nat
      BY <1>1, <1>2
    <3>2. i \in Nat /\ i >= 1 /\ i <= l - 1
      BY <1>7, <2>3
    <3>3. Len(r) = IF Len(s) > n THEN n ELSE Len(s)
      BY <1>2
    <3>4. l = IF Len(d) + 1 > n THEN n ELSE Len(d) + 1
      BY <1>3, <1>5
    <3>5. l = IF Len(r) + 1 > n THEN n ELSE Len(r) + 1
      BY <1>4, <1>6, <1>7
    <3>6. a = Len(d) + 1 - l + i /\ b = Len(r) + 1 - l + i
      BY <1>3, <1>4
    <3> HIDE DEF a, b, l
    <3>7. a \in 1..Len(d) /\ b \in 1..Len(r) /\ k + a = Len(s) - Len(r) + b
      <4>1. n \in Nat \ {0} /\ Len(d) = Len(s) - k /\ l \in Nat
        BY <1>7
      <4>2. l <= Len(d) + 1 /\ l <= Len(r) + 1
        BY ONLY <3>1, <3>4, <3>5, <4>1
      <4>3. a \in 1..Len(d)
        BY ONLY <3>1, <3>2, <3>6, <4>1, <4>2
      <4>4. b \in 1..Len(r)
        BY ONLY <3>1, <3>2, <3>6, <4>1, <4>2
      <4>5. k + a = Len(s) - Len(r) + b
        BY ONLY <3>1, <3>2, <3>6, <4>1
      <4> QED BY ONLY <4>3, <4>4, <4>5
    <3>8. x[a] = s[k + a]
      BY <1>3, <3>7
    <3>9. y[b] = s[Len(s) - Len(r) + b]
      BY <1>2, <1>4, <3>7
    <3> QED BY <2>1, <3>7, <3>8, <3>9 DEF a, b
  <2> QED BY <2>2, <2>3
<1>9. Latest(x, n) = Latest(y, n)
  BY <1>5, <1>6, <1>7, <1>8, SeqEqual
<1> QED BY <1>9 DEF x, y, r

----------------------------------------------------------------------------
(* Type correctness and the bound.                                         *)

\* A submission under way knows its invocation, and its outcome at the end.
CallOK ==
    \A t \in Threads :
        /\ phase[t] # "idle" => call[t].inv \in Invocations
        /\ phase[t] = "ended" => call[t].outcome \in Outcomes

Inv == TypeOK /\ CallOK /\ LogIsBounded

\* What is left of the log before an observation is pushed: all of it, or the
\* newer half of a full one.
LEMMA DrainedProperties ==
    ASSUME log \in Seq(Events), LogIsBounded
    PROVE  /\ Drained \in Seq(Events)
           /\ Len(Drained) < 2 * Capacity
           /\ \E k \in 0..Len(log) :
                /\ Len(Drained) = Len(log) - k
                /\ \A i \in 1..Len(Drained) : Drained[i] = log[k + i]
                /\ k = 0 \/ Len(Drained) >= Capacity
<1> DEFINE len == Len(log)
           q == SubSeq(log, Capacity + 1, len)
<1>1. len \in Nat /\ Capacity \in Nat \ {0} /\ len <= 2 * Capacity
  BY ConstantsOK, LenProperties DEF LogIsBounded
<1>2. CASE len >= 2 * Capacity
  <2>1. \A i \in (Capacity + 1)..len : log[i] \in Events
    BY <1>1, ElementOfSeq
  <2>2. /\ q \in Seq(Events)
        /\ Len(q) = IF Capacity + 1 <= len THEN len - (Capacity + 1) + 1 ELSE 0
        /\ \A i \in 1..(len - (Capacity + 1) + 1) : q[i] = log[(Capacity + 1) + i - 1]
    <3>1. len \in Int /\ Capacity + 1 \in Int
      BY <1>1
    <3> HIDE DEF len
    <3> QED BY <2>1, <3>1, SubSeqProperties
  <2>3. Drained = q
    BY <1>2 DEF Drained
  <2> HIDE DEF len, q
  <2>4. len = 2 * Capacity /\ Len(q) = Capacity /\ Len(q) = len - Capacity
    BY <1>1, <1>2, <2>2
  <2>5. \A i \in 1..Len(q) : q[i] = log[Capacity + i]
    <3> SUFFICES ASSUME NEW i \in 1..Len(q) PROVE q[i] = log[Capacity + i]
      OBVIOUS
    <3>1. i \in 1..(len - (Capacity + 1) + 1) /\ (Capacity + 1) + i - 1 = Capacity + i
      BY <1>1, <2>4
    <3> QED BY <2>2, <3>1
  <2>6. Capacity \in 0..len /\ Len(q) < 2 * Capacity /\ Len(q) >= Capacity
    BY <1>1, <2>4
  <2> QED BY <2>2, <2>3, <2>4, <2>5, <2>6 DEF len
<1>3. CASE ~(len >= 2 * Capacity)
  <2>1. Drained = log /\ len < 2 * Capacity
    BY <1>1, <1>3 DEF Drained
  <2>2. 0 \in 0..len /\ Len(Drained) = Len(log) - 0 /\ \A i \in 1..Len(Drained) : Drained[i] = log[0 + i]
    BY <1>1, <2>1
  <2> QED BY <2>1, <2>2
<1> QED BY <1>2, <1>3

LEMMA ObserveKeepsLog ==
    ASSUME log \in Seq(Events), LogIsBounded, NEW kind, NEW i,
           [kind |-> kind, inv |-> i] \in Events, Observe(kind, i)
    PROVE  log' \in Seq(Events) /\ LogIsBounded'
<1>1. Drained \in Seq(Events) /\ Len(Drained) < 2 * Capacity
  BY DrainedProperties
<1>2. log' = Append(Drained, [kind |-> kind, inv |-> i])
  BY DEF Observe
<1>3. log' \in Seq(Events) /\ Len(log') = Len(Drained) + 1
  BY <1>1, <1>2, AppendFacts
<1>4. Len(Drained) \in Nat /\ Capacity \in Nat
  BY <1>1, ConstantsOK, LenProperties
<1> QED BY <1>1, <1>3, <1>4 DEF LogIsBounded

\* The log grows only where the code observes, by one observation.
LEMMA LogStep ==
    ASSUME Inv, Next
    PROVE  \/ log' = log
           \/ \E kind, i : [kind |-> kind, inv |-> i] \in Events /\ Observe(kind, i)
<1>1. ASSUME NEW t \in Threads, StartDispatch(t)
      PROVE  \E kind, i : [kind |-> kind, inv |-> i] \in Events /\ Observe(kind, i)
  <2>1. call[t].inv \in Invocations /\ Observe("KernelDispatchStarted", call[t].inv)
    BY <1>1 DEF StartDispatch, Goes, Inv, CallOK
  <2> QED BY <2>1 DEF Events, Kinds
<1>2. ASSUME NEW t \in Threads, NEW outcome \in Outcomes, EndDispatch(t, outcome)
      PROVE  \E kind, i : [kind |-> kind, inv |-> i] \in Events /\ Observe(kind, i)
  <2>1. call[t].inv \in Invocations /\ Observe(outcome, call[t].inv)
    BY <1>2 DEF EndDispatch, Goes, Inv, CallOK
  <2> QED BY <2>1 DEF Events, Kinds
<1>3. ASSUME NEW t \in Threads,
             \/ \E i \in Invocations : MintId(t, i)
             \/ StampOperation(t) \/ RefuseDescriptor(t) \/ FileResult(t)
      PROVE  log' = log
  BY <1>3 DEF MintId, StampOperation, RefuseDescriptor, FileResult
<1>4. ASSUME NEW h \in handles, CompleteKernelInvocation(h) \/ ReleaseKernelHandle(h)
      PROVE  log' = log
  BY <1>4 DEF CompleteKernelInvocation, ReleaseKernelHandle
<1>5. ASSUME NEW t \in Threads, DenyAdmission(t)
      PROVE  \E kind, i : [kind |-> kind, inv |-> i] \in Events /\ Observe(kind, i)
  <2>1. call[t].inv \in Invocations /\ Observe("KernelMemoryFeasibilityFailed", call[t].inv)
    BY <1>5 DEF DenyAdmission, Refuse, Goes, Inv, CallOK
  <2> QED BY <2>1 DEF Events, Kinds
<1>6. ASSUME NEW q \in Requests, SubmitRequest(q) \/ ForgetRequest(q) PROVE log' = log
  BY <1>6 DEF SubmitRequest, ForgetRequest
<1> QED BY <1>1, <1>2, <1>3, <1>4, <1>5, <1>6 DEF Next

LEMMA LogKept == Inv /\ Next => log' \in Seq(Events) /\ LogIsBounded'
<1> SUFFICES ASSUME Inv, Next PROVE log' \in Seq(Events) /\ LogIsBounded'
  OBVIOUS
<1>1. CASE log' = log
  BY <1>1 DEF Inv, TypeOK, LogIsBounded
<1>2. ASSUME NEW kind, NEW i, [kind |-> kind, inv |-> i] \in Events, Observe(kind, i)
      PROVE  log' \in Seq(Events) /\ LogIsBounded'
  BY <1>2, ObserveKeepsLog DEF Inv, TypeOK
<1> QED BY <1>1, <1>2, LogStep

CallType == [inv : Invocations \cup {None}, ordinal : 0..MaxOrdinal,
             operation : 0..MaxOrdinal, outcome : Outcomes \cup {None}]

\* A step of thread t moves its own phase and call only.
LEMMA ThreadKept ==
    ASSUME TypeOK, CallOK, NEW t \in Threads, NEW p \in Phases, NEW c \in CallType,
           phase' = [phase EXCEPT ![t] = p], call' = [call EXCEPT ![t] = c],
           p # "idle" => c.inv \in Invocations,
           p = "ended" => c.outcome \in Outcomes
    PROVE  phase' \in [Threads -> Phases] /\ call' \in [Threads -> CallType] /\ CallOK'
BY DEF TypeOK, CallOK, CallType

LEMMA NoCallType == 0 \in 0..MaxOrdinal /\ NoCall \in CallType
BY ConstantsOK DEF NoCall, CallType

LEMMA CallsKept ==
    ASSUME Inv, Next
    PROVE  /\ phase' \in [Threads -> Phases] /\ call' \in [Threads -> CallType] /\ CallOK'
           /\ nextOrdinal' \in 0..MaxOrdinal
<1> USE DEF Inv
<1>1. \A t \in Threads : call[t] \in CallType
  BY DEF TypeOK, CallType
<1>2. ASSUME NEW t \in Threads, NEW i \in Invocations, MintId(t, i)
      PROVE  /\ phase' \in [Threads -> Phases] /\ call' \in [Threads -> CallType] /\ CallOK'
             /\ nextOrdinal' \in 0..MaxOrdinal
  <2> DEFINE c == [NoCall EXCEPT !.inv = i, !.ordinal = nextOrdinal]
  <2>1. c \in CallType /\ c.inv = i
    BY NoCallType DEF NoCall, CallType, TypeOK
  <2>2. call' = [call EXCEPT ![t] = c] /\ phase' = [phase EXCEPT ![t] = "minted"]
    BY <1>2 DEF MintId, Goes
  <2>3. nextOrdinal' \in 0..MaxOrdinal
    BY <1>2, ConstantsOK DEF MintId, Advanced, TypeOK
  <2> HIDE DEF c
  <2> QED BY <2>1, <2>2, <2>3, ThreadKept DEF Phases
<1>3. ASSUME NEW t \in Threads, StampOperation(t)
      PROVE  /\ phase' \in [Threads -> Phases] /\ call' \in [Threads -> CallType] /\ CallOK'
             /\ nextOrdinal' \in 0..MaxOrdinal
  <2> DEFINE c == [call[t] EXCEPT !.operation = nextOrdinal]
  <2>1. c \in CallType /\ c.inv \in Invocations
    BY <1>1, <1>3 DEF CallType, TypeOK, CallOK, StampOperation, Goes
  <2>2. call' = [call EXCEPT ![t] = c] /\ phase' = [phase EXCEPT ![t] = "stamped"]
        /\ nextOrdinal' = nextOrdinal
    BY <1>3 DEF StampOperation, Goes
  <2> HIDE DEF c
  <2> QED BY <2>1, <2>2, ThreadKept DEF Phases, TypeOK
<1>4. ASSUME NEW t \in Threads, StartDispatch(t)
      PROVE  /\ phase' \in [Threads -> Phases] /\ call' \in [Threads -> CallType] /\ CallOK'
             /\ nextOrdinal' \in 0..MaxOrdinal
  BY <1>4 DEF StartDispatch, Goes, TypeOK, CallOK, CallType, Phases
<1>5. ASSUME NEW t \in Threads, NEW o \in Outcomes, NEW from \in Phases \ {"idle"},
             Goes(t, from, "ended"), call' = [call EXCEPT ![t].outcome = o],
             nextOrdinal' = nextOrdinal
      PROVE  /\ phase' \in [Threads -> Phases] /\ call' \in [Threads -> CallType] /\ CallOK'
             /\ nextOrdinal' \in 0..MaxOrdinal
  <2> DEFINE c == [call[t] EXCEPT !.outcome = o]
  <2>1. c \in CallType /\ c.inv \in Invocations /\ c.outcome = o
    BY <1>1, <1>5 DEF CallType, TypeOK, CallOK, Goes
  <2>2. call' = [call EXCEPT ![t] = c] /\ phase' = [phase EXCEPT ![t] = "ended"]
    BY <1>5 DEF Goes
  <2> HIDE DEF c
  <2> QED BY <1>5, <2>1, <2>2, ThreadKept DEF Phases, TypeOK
<1>6. ASSUME NEW t \in Threads, NEW o \in Outcomes, EndDispatch(t, o)
      PROVE  /\ phase' \in [Threads -> Phases] /\ call' \in [Threads -> CallType] /\ CallOK'
             /\ nextOrdinal' \in 0..MaxOrdinal
  BY <1>5, <1>6 DEF EndDispatch, Phases
<1>7. ASSUME NEW t \in Threads, RefuseDescriptor(t) \/ DenyAdmission(t)
      PROVE  /\ phase' \in [Threads -> Phases] /\ call' \in [Threads -> CallType] /\ CallOK'
             /\ nextOrdinal' \in 0..MaxOrdinal
  <2>1. Refuse(t)
    BY <1>7 DEF RefuseDescriptor, DenyAdmission
  <2> QED BY <1>5, <2>1 DEF Refuse, Phases, Outcomes
<1>8. ASSUME NEW t \in Threads, FileResult(t)
      PROVE  /\ phase' \in [Threads -> Phases] /\ call' \in [Threads -> CallType] /\ CallOK'
             /\ nextOrdinal' \in 0..MaxOrdinal
  BY <1>8, NoCallType, ThreadKept DEF FileResult, Goes, Phases, TypeOK
<1>9. ASSUME NEW h \in handles, CompleteKernelInvocation(h)
      PROVE  /\ phase' \in [Threads -> Phases] /\ call' \in [Threads -> CallType] /\ CallOK'
             /\ nextOrdinal' \in 0..MaxOrdinal
  BY <1>9 DEF CompleteKernelInvocation, threadVars, TypeOK, CallOK, CallType
<1>10. ASSUME NEW h \in handles, ReleaseKernelHandle(h)
       PROVE  /\ phase' \in [Threads -> Phases] /\ call' \in [Threads -> CallType] /\ CallOK'
              /\ nextOrdinal' \in 0..MaxOrdinal
  BY <1>10 DEF ReleaseKernelHandle, threadVars, TypeOK, CallOK, CallType
<1>11. ASSUME NEW q \in Requests, SubmitRequest(q) \/ ForgetRequest(q)
       PROVE  /\ phase' \in [Threads -> Phases] /\ call' \in [Threads -> CallType] /\ CallOK'
              /\ nextOrdinal' \in 0..MaxOrdinal
  BY <1>11 DEF SubmitRequest, ForgetRequest, threadVars, TypeOK, CallOK, CallType
<1> QED BY <1>2, <1>3, <1>4, <1>6, <1>7, <1>8, <1>9, <1>10, <1>11 DEF Next

\* The maps, and the histories beside them.
MapsTyped ==
    /\ DOMAIN executions \subseteq ExecutionIds
    /\ \A id \in DOMAIN executions : executions[id] \in Outcomes
    /\ handles \subseteq Handles /\ completed \subseteq ExecutionIds
    /\ released \subseteq ExecutionIds /\ submitted \subseteq Requests

LEMMA MapsKept ==
    ASSUME Inv, Next
    PROVE  MapsTyped'
<1> USE DEF Inv, TypeOK, MapsTyped
<1>1. CASE UNCHANGED mapVars
  BY <1>1 DEF mapVars
<1>2. ASSUME NEW t \in Threads, FileResult(t)
      PROVE  MapsTyped'
  <2>1. IdOf(t) \in ExecutionIds /\ call[t].outcome \in Outcomes
    BY <1>2 DEF FileResult, Goes, CallOK, IdOf, ExecutionIds
  <2>2. [id |-> IdOf(t), operation |-> call[t].operation, outcome |-> call[t].outcome] \in Handles
    BY <2>1 DEF Handles
  <2> QED BY <1>2, <2>1, <2>2 DEF FileResult
<1>3. ASSUME NEW h \in handles, CompleteKernelInvocation(h)
      PROVE  MapsTyped'
  BY <1>3 DEF CompleteKernelInvocation, TakenBy, Handles
<1>4. ASSUME NEW h \in handles, ReleaseKernelHandle(h)
      PROVE  MapsTyped'
  BY <1>4 DEF ReleaseKernelHandle, Handles
<1>5. ASSUME NEW q \in Requests, SubmitRequest(q) \/ ForgetRequest(q)
      PROVE  MapsTyped'
  BY <1>5 DEF SubmitRequest, ForgetRequest
<1> QED BY <1>1, <1>2, <1>3, <1>4, <1>5 DEF Next, MintId, StampOperation, StartDispatch,
         EndDispatch, RefuseDescriptor, DenyAdmission, Refuse

LEMMA InvInit == Init => Inv
<1> SUFFICES ASSUME Init PROVE Inv
  OBVIOUS
<1>1. phase \in [Threads -> Phases] /\ call \in [Threads -> CallType] /\ CallOK
  BY NoCallType DEF Init, Phases, CallOK
<1>2. nextOrdinal \in 0..MaxOrdinal /\ executions = [id \in {} |-> None]
  BY ConstantsOK DEF Init
<1>3. log \in Seq(Events) /\ LogIsBounded
  BY ConstantsOK, EmptySeq DEF Init, LogIsBounded
<1> QED BY <1>1, <1>2, <1>3 DEF Init, Inv, TypeOK, CallType

LEMMA InvStep == Inv /\ [Next]_vars => Inv'
<1> SUFFICES ASSUME Inv, [Next]_vars PROVE Inv'
  OBVIOUS
<1>1. CASE UNCHANGED vars
  BY <1>1 DEF vars, threadVars, mapVars, Inv, TypeOK, CallOK, LogIsBounded
<1>2. CASE Next
  BY <1>2, CallsKept, MapsKept, LogKept DEF Inv, TypeOK, MapsTyped, CallType
<1> QED BY <1>1, <1>2

LEMMA InvAlways == Spec => []Inv
BY InvInit, InvStep, PTL DEF Spec

\* The maps, the counter and the threads' submissions keep their types.
THEOREM TypeCorrect == Spec => []TypeOK
<1>1. Inv => TypeOK
  BY DEF Inv
<1> QED BY <1>1, InvAlways, PTL

\* The log never outgrows twice its capacity, whatever the capacity.
THEOREM LogBounded == Spec => []LogIsBounded
<1>1. Inv => LogIsBounded
  BY DEF Inv
<1> QED BY <1>1, InvAlways, PTL

----------------------------------------------------------------------------
(* Handles.                                                                *)

\* The execution ids known so far: filed, or handed out with their results.
Known == DOMAIN executions \cup completed

\* No two submissions under way, and none that is over, share an ordinal.
OrdinalsApart ==
    /\ \A t \in Threads : phase[t] # "idle" =>
        /\ call[t].ordinal < nextOrdinal
        /\ \A u \in Threads :
            phase[u] # "idle" /\ call[u].ordinal = call[t].ordinal => u = t
        /\ \A id \in Known : id.ordinal # call[t].ordinal
    /\ \A id \in Known : id.ordinal < nextOrdinal

FiledOnce == DOMAIN executions \cap completed = {}

HandleInv == OrdinalsApart /\ FiledOnce /\ HandlesLeadToTheirResults

\* A step of thread t between minting its id and filing its result.
LEMMA UnderWayKeepsHandles ==
    ASSUME Inv, HandleInv, NEW t \in Threads, NEW p \in Phases, phase[t] # "idle",
           phase' = [phase EXCEPT ![t] = p],
           \A u \in Threads : call'[u].ordinal = call[u].ordinal,
           UNCHANGED <<mapVars, nextOrdinal>>
    PROVE  HandleInv'
BY DEF Inv, TypeOK, HandleInv, OrdinalsApart, FiledOnce, HandlesLeadToTheirResults, Known,
    mapVars

LEMMA MintKeepsHandles ==
    ASSUME Inv, HandleInv, NEW t \in Threads, NEW i \in Invocations, MintId(t, i)
    PROVE  HandleInv'
<1> DEFINE c == [NoCall EXCEPT !.inv = i, !.ordinal = nextOrdinal]
<1>1. /\ phase' = [phase EXCEPT ![t] = "minted"] /\ phase[t] = "idle"
      /\ call' = [call EXCEPT ![t] = c] /\ UNCHANGED mapVars
      /\ nextOrdinal' = nextOrdinal + 1
  BY DEF MintId, Goes, Advanced
<1>2. c.ordinal = nextOrdinal
  BY DEF NoCall
<1> HIDE DEF c
<1>3. \A u \in Threads : u # t => call'[u] = call[u] /\ phase'[u] = phase[u]
  BY <1>1 DEF Inv, TypeOK
<1>4. call'[t].ordinal = nextOrdinal
  BY <1>1, <1>2 DEF Inv, TypeOK
<1>5. nextOrdinal \in Nat /\ \A id \in Known : id.ordinal \in Nat
  BY ConstantsOK DEF Inv, TypeOK, Known, ExecutionIds
<1>6. \A u \in Threads : call[u].ordinal \in Nat
  BY ConstantsOK DEF Inv, TypeOK
<1>7. OrdinalsApart'
  BY <1>1, <1>3, <1>4, <1>5, <1>6 DEF HandleInv, OrdinalsApart, Known, mapVars
<1>8. FiledOnce' /\ HandlesLeadToTheirResults'
  BY <1>1 DEF HandleInv, FiledOnce, HandlesLeadToTheirResults, mapVars
<1> QED BY <1>7, <1>8 DEF HandleInv

LEMMA FileKeepsHandles ==
    ASSUME Inv, HandleInv, NEW t \in Threads, FileResult(t)
    PROVE  HandleInv'
<1> DEFINE id == IdOf(t)
           o == call[t].outcome
           h == [id |-> id, operation |-> call[t].operation, outcome |-> o]
<1>1. /\ phase[t] = "ended" /\ phase' = [phase EXCEPT ![t] = "idle"]
      /\ executions' = [j \in DOMAIN executions \cup {id} |->
                            IF j = id THEN o ELSE executions[j]]
      /\ handles' = handles \cup {h}
      /\ call' = [call EXCEPT ![t] = NoCall]
      /\ UNCHANGED <<nextOrdinal, completed>>
  BY DEF FileResult, Goes
<1>2. id.ordinal = call[t].ordinal /\ h.id = id /\ h.outcome = o
  BY DEF IdOf
<1> HIDE DEF id, h, o
<1>3. id \notin Known
  BY <1>1, <1>2 DEF HandleInv, OrdinalsApart
<1>4. \A g \in handles : g.id \in DOMAIN executions
  BY DEF HandleInv, HandlesLeadToTheirResults
<1>5. HandlesLeadToTheirResults'
  <2>1. \A g \in handles : g.id # id /\ g.id \in DOMAIN executions'
                             /\ executions'[g.id] = g.outcome
    BY <1>1, <1>3, <1>4 DEF Known, HandleInv, HandlesLeadToTheirResults
  <2>2. h.id \in DOMAIN executions' /\ executions'[h.id] = h.outcome /\ h.id \notin completed
    BY <1>1, <1>2, <1>3 DEF Known
  <2> QED BY <1>1, <1>2, <2>1, <2>2 DEF HandleInv, HandlesLeadToTheirResults
<1>6. FiledOnce'
  BY <1>1, <1>3 DEF HandleInv, FiledOnce, Known
<1>7. OrdinalsApart'
  <2>1. Known' = Known \cup {id}
    BY <1>1 DEF Known
  <2>2. \A u \in Threads : phase'[u] # "idle" =>
            u # t /\ phase[u] # "idle" /\ call'[u] = call[u]
    BY <1>1 DEF Inv, TypeOK
  <2> QED BY <1>1, <1>2, <2>1, <2>2 DEF HandleInv, OrdinalsApart
<1> QED BY <1>5, <1>6, <1>7 DEF HandleInv

LEMMA CompleteKeepsHandles ==
    ASSUME Inv, HandleInv, NEW h \in handles, CompleteKernelInvocation(h)
    PROVE  HandleInv'
<1>1. /\ h.id \in DOMAIN executions
      /\ executions' = [id \in DOMAIN executions \ {h.id} |-> executions[id]]
      /\ handles' = handles \ {h} /\ completed' = completed \cup {h.id}
      /\ UNCHANGED <<phase, call, nextOrdinal>>
  BY DEF CompleteKernelInvocation, TakenBy, threadVars
<1>2. Known' = Known
  BY <1>1 DEF Known
<1>3. \A g \in handles' : g \in handles /\ g.id # h.id
  BY <1>1 DEF HandleInv, HandlesLeadToTheirResults
<1> QED BY <1>1, <1>2, <1>3 DEF HandleInv, OrdinalsApart, FiledOnce, HandlesLeadToTheirResults

\* Giving a handle up, and plain requests, leave the results where they are.
LEMMA RestKeepsHandles ==
    ASSUME Inv, HandleInv,
           \/ \E h \in handles : ReleaseKernelHandle(h)
           \/ \E q \in Requests : SubmitRequest(q) \/ ForgetRequest(q)
    PROVE  HandleInv'
<1>1. /\ UNCHANGED <<executions, completed, phase, call, nextOrdinal>>
      /\ handles' \subseteq handles
  BY DEF ReleaseKernelHandle, SubmitRequest, ForgetRequest, threadVars
<1> QED
  BY <1>1 DEF HandleInv, OrdinalsApart, FiledOnce, HandlesLeadToTheirResults, Known

LEMMA HandleStep == Inv /\ HandleInv /\ [Next]_vars => HandleInv'
<1> SUFFICES ASSUME Inv, HandleInv, [Next]_vars PROVE HandleInv'
  OBVIOUS
<1>1. ASSUME NEW t \in Threads,
             \/ StampOperation(t) \/ StartDispatch(t)
             \/ \E o \in Outcomes : EndDispatch(t, o)
             \/ RefuseDescriptor(t) \/ DenyAdmission(t)
      PROVE  HandleInv'
  <2>1. \E p \in Phases : phase' = [phase EXCEPT ![t] = p]
    BY <1>1 DEF StampOperation, StartDispatch, EndDispatch, RefuseDescriptor, DenyAdmission,
        Refuse, Goes, Phases
  <2>2. phase[t] # "idle"
    BY <1>1 DEF StampOperation, StartDispatch, EndDispatch, RefuseDescriptor, DenyAdmission,
        Refuse, Goes
  <2>3. UNCHANGED <<mapVars, nextOrdinal>>
    BY <1>1 DEF StampOperation, StartDispatch, EndDispatch, RefuseDescriptor, DenyAdmission,
        Refuse
  <2>4. \A u \in Threads : call'[u].ordinal = call[u].ordinal
    <3>1. call \in [Threads -> CallType]
      BY DEF Inv, TypeOK, CallType
    <3>2. CASE call' = call
      BY <3>2
    <3>3. ASSUME NEW n, call' = [call EXCEPT ![t].operation = n]
          PROVE  \A u \in Threads : call'[u].ordinal = call[u].ordinal
      BY <3>1, <3>3 DEF CallType
    <3>4. ASSUME NEW o, call' = [call EXCEPT ![t].outcome = o]
          PROVE  \A u \in Threads : call'[u].ordinal = call[u].ordinal
      BY <3>1, <3>4 DEF CallType
    <3>5. CASE StampOperation(t)
      BY <3>3, <3>5 DEF StampOperation
    <3>6. CASE StartDispatch(t)
      BY <3>2, <3>6 DEF StartDispatch
    <3>7. CASE \E o \in Outcomes : EndDispatch(t, o)
      BY <3>4, <3>7 DEF EndDispatch
    <3>8. CASE RefuseDescriptor(t) \/ DenyAdmission(t)
      BY <3>4, <3>8 DEF RefuseDescriptor, DenyAdmission, Refuse
    <3> QED BY <1>1, <3>5, <3>6, <3>7, <3>8
  <2> QED BY <2>1, <2>2, <2>3, <2>4, UnderWayKeepsHandles
<1>2. CASE UNCHANGED vars
  BY <1>2 DEF vars, threadVars, mapVars, HandleInv, OrdinalsApart, FiledOnce,
      HandlesLeadToTheirResults, Known
<1> QED
  BY <1>1, <1>2, MintKeepsHandles, FileKeepsHandles, CompleteKeepsHandles, RestKeepsHandles
     DEF Next

\* A handle leads to its own submission's result, once, whatever invocation
\* ids callers reuse and however their submissions interleave: the ordinals
\* fetch_add hands out keep the execution ids of all submissions apart.
THEOREM HandlesCorrect == Spec => []HandlesLeadToTheirResults
<1>1. Init => HandleInv
  BY DEF Init, HandleInv, OrdinalsApart, FiledOnce, HandlesLeadToTheirResults, Known
<1>2. HandleInv => HandlesLeadToTheirResults
  BY DEF HandleInv
<1> QED BY <1>1, <1>2, InvAlways, HandleStep, PTL DEF Spec

\* A handle given up takes its result with it, or leaves it to a release.
LEMMA HoldersStep ==
    ASSUME ResultsHaveHolders, [Next]_vars
    PROVE  ResultsHaveHolders'
<1>1. CASE UNCHANGED <<executions, handles, released>>
  BY <1>1 DEF ResultsHaveHolders
<1>2. ASSUME NEW t \in Threads, FileResult(t)
      PROVE  ResultsHaveHolders'
  <2> DEFINE new == [id |-> IdOf(t), operation |-> call[t].operation, outcome |-> call[t].outcome]
  <2>1. /\ DOMAIN executions' = DOMAIN executions \cup {IdOf(t)}
        /\ handles' = handles \cup {new} /\ released' = released
    BY <1>2 DEF FileResult
  <2>2. new.id = IdOf(t)
    OBVIOUS
  <2> HIDE DEF new
  <2> QED BY <2>1, <2>2 DEF ResultsHaveHolders
<1>3. ASSUME NEW h \in handles, CompleteKernelInvocation(h)
      PROVE  ResultsHaveHolders'
  <2>1. /\ DOMAIN executions' = DOMAIN executions \ {h.id}
        /\ handles' = handles \ {h} /\ released' = released
    BY <1>3 DEF CompleteKernelInvocation, TakenBy
  <2> QED BY <2>1 DEF ResultsHaveHolders
<1>4. ASSUME NEW h \in handles, ReleaseKernelHandle(h)
      PROVE  ResultsHaveHolders'
  BY <1>4 DEF ReleaseKernelHandle, ResultsHaveHolders
<1>5. ASSUME \/ \E t \in Threads :
                  \/ \E i \in Invocations : MintId(t, i)
                  \/ StampOperation(t) \/ StartDispatch(t)
                  \/ \E o \in Outcomes : EndDispatch(t, o)
                  \/ RefuseDescriptor(t) \/ DenyAdmission(t)
             \/ \E q \in Requests : SubmitRequest(q) \/ ForgetRequest(q)
      PROVE  UNCHANGED <<executions, handles, released>>
  BY <1>5 DEF MintId, StampOperation, StartDispatch, EndDispatch, RefuseDescriptor,
      DenyAdmission, Refuse, SubmitRequest, ForgetRequest, mapVars
<1>6. CASE UNCHANGED vars
  BY <1>1, <1>6 DEF vars, mapVars
<1> QED BY <1>1, <1>2, <1>3, <1>4, <1>5, <1>6 DEF Next

\* Results do not pile up over any number of submissions: each is filed only
\* while its handle is held, unless the handle was released.
THEOREM ResultsHeld == Spec => []ResultsHaveHolders
<1>1. Init => ResultsHaveHolders
  BY DEF Init, ResultsHaveHolders
<1> QED BY <1>1, HoldersStep, PTL DEF Spec

----------------------------------------------------------------------------
(* Refinement of RecentLog.                                                *)

LEMMA ObserveIsRecent ==
    ASSUME Inv, NEW kind, NEW i, [kind |-> kind, inv |-> i] \in Events, Observe(kind, i)
    PROVE  Recent!Next
<1> DEFINE e == [kind |-> kind, inv |-> i]
<1>1. log' = Append(Drained, e) /\ log \in Seq(Events) /\ Capacity \in Nat \ {0}
  BY ConstantsOK DEF Observe, Inv, TypeOK
<1>2. Latest(Append(Drained, e), Capacity) = Latest(Append(Latest(log, Capacity), e), Capacity)
  <2>1. PICK k \in 0..Len(log) :
            /\ Len(Drained) = Len(log) - k
            /\ \A j \in 1..Len(Drained) : Drained[j] = log[k + j]
            /\ k = 0 \/ Len(Drained) >= Capacity
    BY DrainedProperties DEF Inv, TypeOK
  <2>2. Drained \in Seq(Events)
    BY DrainedProperties DEF Inv, TypeOK
  <2> HIDE DEF e
  <2>3. e \in Events
    BY DEF e
  <2> QED BY <1>1, <2>1, <2>2, <2>3, LatestOfAppend, SMTT(60)
<1>3. Observations' = Latest(Append(Observations, e), Capacity)
  BY <1>1, <1>2 DEF Observations, Latest
<1>4. Recent!Observe(e)
  BY <1>3 DEF Recent!Observe, Recent!Latest, Latest
<1> QED BY <1>4 DEF Recent!Next

\* A reader of the log never notices that its oldest half is dropped now and
\* then: after each observation it sees the Capacity most recent ones.
THEOREM RecentLogImplemented == Spec => ImplementsRecentLog
<1>1. Init => Recent!Init
  <2>1. Latest(<<>>, Capacity) = <<>>
    <3>1. Len(<<>>) = 0 /\ Capacity \in Nat
      BY ConstantsOK
    <3>2. Latest(<<>>, Capacity) = SubSeq(<<>>, 1, 0)
      BY <3>1 DEF Latest
    <3> QED BY <3>2, SubSeqEmpty
  <2> QED BY <2>1 DEF Init, Recent!Init, Observations
<1>2. Inv /\ [Next]_vars => [Recent!Next]_Observations
  <2> SUFFICES ASSUME Inv, [Next]_vars PROVE [Recent!Next]_Observations
    OBVIOUS
  <2>1. CASE log' = log
    BY <2>1 DEF Observations, Latest
  <2>2. CASE \E kind, i : [kind |-> kind, inv |-> i] \in Events /\ Observe(kind, i)
    BY <2>2, ObserveIsRecent
  <2> QED BY <2>1, <2>2, LogStep DEF vars
<1> QED BY <1>1, <1>2, InvAlways, PTL DEF Spec, ImplementsRecentLog, Recent!Spec
=============================================================================
