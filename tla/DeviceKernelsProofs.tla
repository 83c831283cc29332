------------------------- MODULE DeviceKernelsProofs -------------------------
(***************************************************************************)
(* What holds of the kernels' launches for calls of any size, and of the   *)
(* block of attention_combine_kernel among them.                           *)
(*                                                                         *)
(* A call never changes, so a property of calls holds of every state once  *)
(* it holds of the calls there are: Chosen.                                *)
(***************************************************************************)
EXTENDS DeviceKernels, AttentionCombineProofs, HalfPrecisionProofs

Chosen == call \in Calls \cup {NoCall}

LEMMA AlwaysChosen == KernelsSpec => []Chosen
<1>1. KernelsInit => Chosen
  BY DEF KernelsInit, Chosen
<1>2. Chosen /\ [KernelsNext]_<<vars, call>> => Chosen'
  BY DEF Chosen, KernelsNext, Calls, CallsOf, NoCall, Patterns, Wide, Half, Brain
<1> QED BY <1>1, <1>2, PTL DEF KernelsSpec

LEMMA CallOf ==
    ASSUME NEW kernel, NEW arguments, NEW c \in CallsOf(kernel, arguments)
    PROVE  c.kernel = kernel /\ c.of \in arguments
<1>1. PICK a \in arguments : c = [kernel |-> kernel, of |-> a]
  BY DEF CallsOf
<1> QED BY <1>1

LEMMA ChosenArguments ==
    ASSUME Chosen
    PROVE  /\ call.kernel = "attention" => call.of \in AttentionCalls
           /\ call.kernel = "gated" => call.of \in GatedCalls
           /\ call.kernel = "matmul" => call.of \in MatmulCalls
           /\ call.kernel = "greedy" => call.of \in GreedyCalls
<1>1. CASE call = NoCall
  BY <1>1 DEF NoCall
<1>2. CASE call \in CallsOf("attention", AttentionCalls)
  BY <1>2, CallOf
<1>3. CASE call \in CallsOf("gated", GatedCalls)
  BY <1>3, CallOf
<1>4. CASE call \in CallsOf("matmul", MatmulCalls)
  BY <1>4, CallOf
<1>5. CASE call \in CallsOf("greedy", GreedyCalls)
  BY <1>5, CallOf
<1>6. CASE \/ call \in CallsOf("to half", Patterns(Wide))
           \/ call \in CallsOf("from half", Patterns(Half))
           \/ call \in CallsOf("from bfloat16", Patterns(Brain))
  <2>1. call.kernel \in {"to half", "from half", "from bfloat16"}
    BY <1>6, CallOf
  <2> QED BY <2>1
<1> QED BY <1>1, <1>2, <1>3, <1>4, <1>5, <1>6 DEF Chosen, Calls

----------------------------------------------------------------------------
(* The block.                                                              *)

LEMMA EndedBlockIn ==
    ASSUME BlockEnded
    PROVE  BlockIn("lanes", 1, 1)
<1>1. /\ launch = [dim |-> 1, chunks |-> 1, cached |-> FALSE, max |-> [c \in {0} |-> 0]]
      /\ at = [t \in Threads |-> "done"]
      /\ waiting = {} /\ touched = {}
      /\ regs = [t \in Threads |-> [stride |-> 1, d0 |-> 1, max |-> 0, total |-> FixedTotal]]
      /\ reduce = [t \in Threads |-> <<>>]
      /\ DOMAIN out = {0}
  BY DEF BlockEnded
<1>2. LaunchOK
  BY <1>1 DEF LaunchOK, Chunks, Maxima
<1>3. TypeOK
  BY <1>1 DEF TypeOK, Points, Synced, Maxima
<1>4. RegsOK /\ WaitersSynced
  BY <1>1 DEF RegsOK, WaitersSynced
<1>5. Placed("lanes", 1, 1) /\ Permitted("lanes", 1) /\ MaximaReduced("lanes")
  BY <1>1 DEF Placed, Here, Moved, NextPoint, NextStride, NextDimension, Permitted,
              MaximaReduced
<1> QED BY <1>2, <1>3, <1>4, <1>5 DEF BlockIn, PhasePoints, Points, Synced

\* Of the composed kernels as of one block: the barriers keep any two threads
\* of attention_combine_kernel apart in shared memory.
THEOREM BlocksRaceFree == KernelsSpec => [](TypeOK /\ NoDataRace)
<1>1. KernelsInit => IInv
  BY InitInv, EndedBlockIn DEF KernelsInit, IInv
<1>2. IInv /\ [KernelsNext]_<<vars, call>> => IInv'
  BY NextInv DEF KernelsNext
<1>3. IInv => TypeOK /\ NoDataRace
  BY PermittedIsRaceFree DEF IInv, BlockIn
<1> QED BY <1>1, <1>2, <1>3, PTL DEF KernelsSpec

\* No thread of such a block waits at a barrier that another one passes by.
THEOREM BlocksBarriersMet == KernelsSpec => []BarriersAreMet
<1>1. KernelsInit => IInv
  BY InitInv, EndedBlockIn DEF KernelsInit, IInv
<1>2. IInv /\ [KernelsNext]_<<vars, call>> => IInv'
  BY NextInv DEF KernelsNext
<1>3. IInv => BarriersAreMet
  BY PhaseMeets DEF IInv
<1> QED BY <1>1, <1>2, <1>3, PTL DEF KernelsSpec

\* And each of its steps brings a thread nearer to its end or opens a barrier.
THEOREM BlocksRunOut == KernelsSpec => StepsRunOut
<1>1. KernelsInit => PassInv
  BY InitInv, EndedBlockIn DEF KernelsInit, PassInv, InPass
<1>2. PassInv /\ [KernelsNext]_<<vars, call>> => [Next]_vars
  BY DEF KernelsNext
<1>3. PassInv /\ [Next]_vars => PassInv' /\ [StepRunsOut]_vars
  BY NextRunsOut
<1>4. StepRunsOut <=>
        (\/ /\ waiting # {} /\ waiting' = {}
            /\ \A t \in Threads : StepsLeft(t)' = StepsLeft(t)
         \/ \E t \in Threads :
              /\ t \notin waiting
              /\ StepsLeft(t)' < StepsLeft(t)
              /\ \A u \in Threads \ {t} : StepsLeft(u)' = StepsLeft(u))
  BY DEF StepRunsOut
<1> QED BY <1>1, <1>2, <1>3, <1>4, PTL DEF KernelsSpec, StepsRunOut

LEMMA EndedBlockData ==
    ASSUME BlockEnded
    PROVE  DataInv
<1>1. /\ launch = [dim |-> 1, chunks |-> 1, cached |-> FALSE, max |-> [c \in {0} |-> 0]]
      /\ at = [t \in Threads |-> "done"]
      /\ waiting = {} /\ touched = {}
      /\ regs = [t \in Threads |-> [stride |-> 1, d0 |-> 1, max |-> 0, total |-> FixedTotal]]
      /\ reduce = [t \in Threads |-> <<>>]
      /\ weight = [c \in Chunks |-> <<>>]
      /\ out = [x \in {0} |-> FixedSum]
  BY DEF BlockEnded
<1>2. Largest = 0
  <2>1. Chunks = {0} /\ launch.max[0] = 0
    BY <1>1 DEF Chunks
  <2>2. Largest = Max({0})
    BY <2>1 DEF Largest
  <2> QED BY <2>2, MaxOfTwo
<1>3. TreeData("lanes", 1) /\ RegisterData("lanes", 1)
  BY <1>1, <1>2 DEF TreeData, RegisterData, Ranked
<1>4. WeightData("lanes")
  BY <1>1 DEF WeightData, Ranked
<1>5. Finished("lanes", 1) = {0}
  BY <1>1 DEF Finished
<1>6. OutputData("lanes", 1)
  BY <1>1, <1>5 DEF OutputData
<1>7. BlockIn("lanes", 1, 1)
  BY EndedBlockIn
<1> QED BY <1>3, <1>4, <1>6, <1>7 DEF Data, DataInv

\* And what such a block writes is one expression that its launch fixes,
\* however its threads are scheduled.
THEOREM BlocksResultFixed == KernelsSpec => []ResultIsFixed
<1>1. KernelsInit => DataInv
  BY InitInv, InitData, EndedBlockData DEF KernelsInit, DataInv
<1>2. DataInv /\ [KernelsNext]_<<vars, call>> => DataInv'
  BY NextData DEF KernelsNext
<1> QED BY <1>1, <1>2, EndOfBlock, PTL DEF KernelsSpec

----------------------------------------------------------------------------
(* The inners of a slice.                                                  *)

\* From inner i on, those before `end` that are whole steps away.
Inners(i, end) == {x \in i..(end - 1) : (x - i) % SplitK = 0}

\* The first u of them.
FirstInners(i, u) == {i + a * SplitK : a \in 0..(u - 1)}

LEMMA InnerForm ==
    ASSUME NEW i \in Nat, NEW end \in Nat, NEW x \in Inners(i, end)
    PROVE  x \in Nat /\ x < end /\ \E a \in Nat : x = i + a * SplitK
<1>1. SplitK \in Nat \ {0}
  BY MatmulConstantsOK
<1>2. x \in Nat /\ x < end /\ x - i \in Nat /\ (x - i) % SplitK = 0
  BY DEF Inners
<1>3. (x - i) \div SplitK \in Nat /\ x - i = SplitK * ((x - i) \div SplitK) + 0
  BY <1>1, <1>2, QuotientNat, Division
<1>4. x = i + ((x - i) \div SplitK) * SplitK
  BY <1>1, <1>2, <1>3
<1> QED BY <1>2, <1>3, <1>4

LEMMA InnerMade ==
    ASSUME NEW i \in Nat, NEW end \in Nat, NEW a \in Nat, NEW x, x = i + a * SplitK, x < end
    PROVE  x \in Inners(i, end)
<1>1. SplitK \in Nat \ {0}
  BY MatmulConstantsOK
<1>2. a * SplitK \in Nat /\ a * SplitK + 0 = a * SplitK /\ 0 \in 0..(SplitK - 1)
  BY <1>1
<1>3. (a * SplitK + 0) % SplitK = 0
  BY <1>1, <1>2, DivisionIs
<1>4. x - i = a * SplitK + 0 /\ x \in i..(end - 1)
  BY <1>2
<1> QED BY <1>3, <1>4 DEF Inners

\* As long as there are that many.
LEMMA InnersSplit ==
    ASSUME NEW i \in Nat, NEW end \in Nat, NEW u \in Nat \ {0}, i + (u - 1) * SplitK < end
    PROVE  /\ i + u * SplitK \in Nat
           /\ Inners(i, end) = FirstInners(i, u) \cup Inners(i + u * SplitK, end)
           /\ \A x \in FirstInners(i, u), y \in Inners(i + u * SplitK, end) : x < y
<1>1. SplitK \in Nat \ {0} /\ u * SplitK \in Nat /\ i + u * SplitK \in Nat
  BY MatmulConstantsOK
<1>2. ASSUME NEW a \in 0..(u - 1)
      PROVE  /\ a * SplitK \in Nat /\ a * SplitK <= (u - 1) * SplitK
             /\ a * SplitK + SplitK <= u * SplitK
  <2>1. a * SplitK \in Nat /\ (u - 1) * SplitK \in Nat /\ u - 1 \in Nat
    BY <1>1
  <2>2. a = u - 1 \/ a * SplitK + SplitK <= (u - 1) * SplitK
    BY <1>1, NextMultiple
  <2>3. a * SplitK + SplitK <= u * SplitK
    BY <1>1, NextMultiple
  <2> QED BY <1>1, <2>1, <2>2, <2>3
<1>3. ASSUME NEW x \in FirstInners(i, u)
      PROVE  x \in Inners(i, end) /\ x \in Nat /\ x < i + u * SplitK
  <2>1. PICK a \in 0..(u - 1) : x = i + a * SplitK
    BY DEF FirstInners
  <2>2. (u - 1) * SplitK \in Nat
    BY <1>1
  <2>3. x \in Nat /\ x < end /\ x < i + u * SplitK
    BY <1>1, <1>2, <2>1, <2>2
  <2> QED BY <2>1, <2>3, InnerMade
<1>4. ASSUME NEW x \in Inners(i + u * SplitK, end)
      PROVE  x \in Inners(i, end) /\ x \in Nat /\ i + u * SplitK <= x
  <2>1. PICK a \in Nat : x = (i + u * SplitK) + a * SplitK
    BY <1>1, InnerForm
  <2>2. x \in Nat /\ x < end
    BY <1>1, InnerForm
  <2>3. a * SplitK \in Nat /\ x = i + (u + a) * SplitK /\ u + a \in Nat
    BY <1>1, <2>1
  <2>4. x \in Inners(i, end)
    BY <2>2, <2>3, InnerMade
  <2> QED BY <1>1, <2>1, <2>2, <2>4
<1>5. ASSUME NEW x \in Inners(i, end), x \notin FirstInners(i, u)
      PROVE  x \in Inners(i + u * SplitK, end)
  <2>1. PICK a \in Nat : x = i + a * SplitK
    BY InnerForm
  <2>2. x \in Nat /\ x < end
    BY InnerForm
  <2>3. a - u \in Nat
    BY <1>5, <2>1 DEF FirstInners
  <2>4. x = (i + u * SplitK) + (a - u) * SplitK
    BY <1>1, <2>1, <2>3
  <2> QED BY <1>1, <2>2, <2>3, <2>4, InnerMade
<1> QED BY <1>1, <1>3, <1>4, <1>5

LEMMA OneInner ==
    ASSUME NEW i \in Nat
    PROVE  FirstInners(i, 1) = {i} /\ i + 1 * SplitK = i + SplitK /\ i + (1 - 1) * SplitK = i
<1>1. SplitK \in Nat
  BY MatmulConstantsOK
<1>2. 0..(1 - 1) = {0} /\ i + 0 * SplitK = i
  BY <1>1
<1> QED BY <1>1, <1>2 DEF FirstInners

LEMMA NoInners ==
    ASSUME NEW i \in Nat, NEW end \in Nat, ~(i < end)
    PROVE  Inners(i, end) = {}
BY DEF Inners

LEMMA InnersBounded ==
    ASSUME NEW i \in Nat, NEW end \in Nat
    PROVE  Inners(i, end) \in SUBSET (0..end)
BY DEF Inners

\* One by one, a slice adds its inners in ascending order.
LEMMA OneByOneLists ==
    ASSUME NEW end \in Nat
    PROVE  \A i \in Nat : /\ OneByOne(end)[i] \in Seq(Nat)
                          /\ Lists(OneByOne(end)[i], Inners(i, end))
<1> DEFINE h == [i \in Nat |-> <<i>>]
           r == [i \in Nat |-> <<>>]
           A == [i \in Nat |-> Inners(i, end)]
           B == [i \in Nat |-> {i}]
           Is(f) == f = [i \in Nat |-> IF i < end THEN <<i>> \o f[i + SplitK] ELSE <<>>]
<1>1. SplitK \in Nat \ {0} /\ end \in Int
  BY MatmulConstantsOK
<1>2. \A i \in Nat : A[i] \in SUBSET (0..end)
  BY InnersBounded
<1>3. ASSUME NEW i \in Nat, i < end
      PROVE  /\ h[i] \in Seq(Nat) /\ Lists(h[i], B[i])
             /\ A[i] = B[i] \cup A[i + SplitK]
             /\ \A x \in B[i], y \in A[i + SplitK] : x < y
  <2>1. <<i>> \in Seq(Nat) /\ Lists(<<i>>, {i})
    BY ListOfOne
  <2>2. i + (1 - 1) * SplitK < end /\ 1 \in Nat \ {0}
    BY <1>3, OneInner
  <2>3. /\ Inners(i, end) = FirstInners(i, 1) \cup Inners(i + 1 * SplitK, end)
        /\ \A x \in FirstInners(i, 1), y \in Inners(i + 1 * SplitK, end) : x < y
    BY <2>2, InnersSplit
  <2>4. /\ Inners(i, end) = {i} \cup Inners(i + SplitK, end)
        /\ \A x \in {i}, y \in Inners(i + SplitK, end) : x < y
    BY <2>3, OneInner
  <2>5. i + SplitK \in Nat
    BY <1>1
  <2> QED BY <2>1, <2>4, <2>5
<1>4. ASSUME NEW i \in Nat, ~(i < end)
      PROVE  r[i] \in Seq(Nat) /\ Lists(r[i], A[i])
  BY <1>4, NoInners, EmptyList
<1>5. \A f : Is(f) <=> Loop(f, end, SplitK, h, r)
  <2>1. ASSUME NEW f
        PROVE  [i \in Nat |-> IF i < end THEN <<i>> \o f[i + SplitK] ELSE <<>>]
                 = [i \in Nat |-> IF i < end THEN h[i] \o f[i + SplitK] ELSE r[i]]
    OBVIOUS
  <2> HIDE DEF h, r
  <2> QED BY <2>1 DEF Loop
<1> HIDE DEF h, r, A, B
<1>6. /\ \E f : Loop(f, end, SplitK, h, r)
      /\ \A f : Loop(f, end, SplitK, h, r) =>
            \A i \in Nat : f[i] \in Seq(Nat) /\ Lists(f[i], A[i])
  BY <1>1, <1>2, <1>3, <1>4, LoopLists
<1>7. OneByOne(end) = CHOOSE f : Is(f)
  BY DEF OneByOne
<1> HIDE DEF Is
<1>8. Is(OneByOne(end))
  BY <1>5, <1>6, <1>7
<1>9. \A i \in Nat : A[i] = Inners(i, end)
  BY DEF A
<1> QED BY <1>5, <1>6, <1>8, <1>9

LEMMA FewLists ==
    ASSUME NEW i \in Nat, NEW u \in Nat \ {0}
    PROVE  /\ [j \in 1..u |-> i + (j - 1) * SplitK] \in Seq(Nat)
           /\ Lists([j \in 1..u |-> i + (j - 1) * SplitK], FirstInners(i, u))
<1> DEFINE f == [j \in 1..u |-> i + (j - 1) * SplitK]
<1>1. SplitK \in Nat \ {0}
  BY MatmulConstantsOK
<1>2. \A j \in 1..u : j - 1 \in Nat /\ (j - 1) * SplitK \in Nat /\ f[j] = i + (j - 1) * SplitK
  BY <1>1
<1>3. f \in Seq(Nat) /\ DOMAIN f = 1..u
  BY <1>2
<1> HIDE DEF f
<1>4. ASSUME NEW j \in DOMAIN f, NEW k \in DOMAIN f, j < k
      PROVE  f[j] < f[k]
  <2>1. j \in 1..u /\ k \in 1..u
    BY <1>3
  <2>2. j - 1 \in Nat /\ k - 1 \in Nat /\ j - 1 < k - 1
    BY <1>4, <2>1
  <2>3. (j - 1) * SplitK + SplitK <= (k - 1) * SplitK
    BY <1>1, <2>2, NextMultiple
  <2>4. f[j] = i + (j - 1) * SplitK /\ f[k] = i + (k - 1) * SplitK
    BY <1>2, <2>1
  <2>5. (j - 1) * SplitK \in Nat /\ (k - 1) * SplitK \in Nat
    BY <1>2, <2>1
  <2> QED BY <1>1, <2>3, <2>4, <2>5
<1>5. {f[j] : j \in DOMAIN f} = FirstInners(i, u)
  <2>1. \A j \in 1..u : j - 1 \in 0..(u - 1)
    OBVIOUS
  <2>3. \A j \in 1..u : f[j] \in FirstInners(i, u)
    BY <1>2, <2>1 DEF FirstInners
  <2>4. ASSUME NEW x \in FirstInners(i, u)
        PROVE  \E j \in 1..u : f[j] = x
    <3>1. PICK a \in 0..(u - 1) : x = i + a * SplitK
      BY DEF FirstInners
    <3>2. a + 1 \in 1..u /\ (a + 1) - 1 = a
      OBVIOUS
    <3>3. f[a + 1] = i + a * SplitK
      BY <1>2, <3>2
    <3> QED BY <3>1, <3>2, <3>3
  <2> QED BY <1>3, <2>3, <2>4
<1>6. Lists(f, FirstInners(i, u))
  BY <1>4, <1>5 DEF Lists
<1> QED BY <1>3, <1>6 DEF f

\* So it does u at a time, and what is left one by one.
LEMMA UnrolledLists ==
    ASSUME NEW u \in Nat \ {0}, NEW slice \in Nat, NEW k \in Nat
    PROVE  /\ UnrolledInners(u, slice, k) \in Seq(Nat)
           /\ Lists(UnrolledInners(u, slice, k), Inners(slice, k))
<1> DEFINE end == k - (u - 1) * SplitK
           step == u * SplitK
           h == [i \in Nat |-> [j \in 1..u |-> i + (j - 1) * SplitK]]
           r == OneByOne(k)
           A == [i \in Nat |-> Inners(i, k)]
           B == [i \in Nat |-> FirstInners(i, u)]
           Is(f) == f = [i \in Nat |->
                            IF i + (u - 1) * SplitK < k
                            THEN [j \in 1..u |-> i + (j - 1) * SplitK] \o f[i + u * SplitK]
                            ELSE OneByOne(k)[i]]
<1>1. SplitK \in Nat \ {0} /\ (u - 1) * SplitK \in Nat
  BY MatmulConstantsOK
<1>2. end \in Int /\ step \in Nat \ {0}
  <2>1. step \in Nat \ {0}
    BY <1>1, ProductPositive
  <2> QED BY <1>1, <2>1
<1>3. \A i \in Nat : i < end <=> i + (u - 1) * SplitK < k
  BY <1>1
<1>4. \A i \in Nat : A[i] \in SUBSET (0..k)
  BY InnersBounded
<1>5. ASSUME NEW i \in Nat, i < end
      PROVE  /\ h[i] \in Seq(Nat) /\ Lists(h[i], B[i])
             /\ A[i] = B[i] \cup A[i + step]
             /\ \A x \in B[i], y \in A[i + step] : x < y
  <2>1. /\ [j \in 1..u |-> i + (j - 1) * SplitK] \in Seq(Nat)
        /\ Lists([j \in 1..u |-> i + (j - 1) * SplitK], FirstInners(i, u))
    BY FewLists
  <2>2. i + (u - 1) * SplitK < k
    BY <1>3, <1>5
  <2> HIDE DEF end
  <2>3. /\ i + u * SplitK \in Nat
        /\ Inners(i, k) = FirstInners(i, u) \cup Inners(i + u * SplitK, k)
        /\ \A x \in FirstInners(i, u), y \in Inners(i + u * SplitK, k) : x < y
    BY <2>2, InnersSplit
  <2> QED BY <2>1, <2>3
<1>6. ASSUME NEW i \in Nat, ~(i < end)
      PROVE  r[i] \in Seq(Nat) /\ Lists(r[i], A[i])
  BY OneByOneLists
<1>7. \A f : Is(f) <=> Loop(f, end, step, h, r)
  <2>1. ASSUME NEW f
        PROVE  [i \in Nat |-> IF i + (u - 1) * SplitK < k
                              THEN [j \in 1..u |-> i + (j - 1) * SplitK] \o f[i + u * SplitK]
                              ELSE OneByOne(k)[i]]
                 = [i \in Nat |-> IF i < end THEN h[i] \o f[i + step] ELSE r[i]]
    <3>1. \A i \in Nat : h[i] = [j \in 1..u |-> i + (j - 1) * SplitK]
      OBVIOUS
    <3> HIDE DEF end, h
    <3> QED BY <1>3, <3>1
  <2> HIDE DEF h, r, end, step
  <2> QED BY <2>1 DEF Loop
<1>8. UnrolledInners(u, slice, k) = (CHOOSE f : Is(f))[slice]
  BY DEF UnrolledInners
<1> HIDE DEF end, step, h, r, A, B
<1>9. /\ \E f : Loop(f, end, step, h, r)
      /\ \A f : Loop(f, end, step, h, r) =>
            \A i \in Nat : f[i] \in Seq(Nat) /\ Lists(f[i], A[i])
  BY <1>2, <1>4, <1>5, <1>6, LoopLists
<1> DEFINE g == CHOOSE f : Is(f)
<1> HIDE DEF Is
<1>10. Is(g)
  BY <1>7, <1>9
<1>11. UnrolledInners(u, slice, k) = g[slice]
  BY <1>8
<1> HIDE DEF g
<1>12. A[slice] = Inners(slice, k)
  BY DEF A
<1> QED BY <1>7, <1>9, <1>10, <1>11, <1>12

\* So it does tile by tile: the tile's end cuts a slice between two inners.
LEMMA TileSplit ==
    ASSUME NEW base \in Nat, NEW slice \in 0..(SplitK - 1), NEW k \in Nat, base < k
    PROVE  /\ TileEnd(base, k) \in Nat
           /\ Inners(base + slice, k) = Inners(base + slice, TileEnd(base, k))
                                          \cup Inners(base + TileInner + slice, k)
           /\ \A x \in Inners(base + slice, TileEnd(base, k)),
                 y \in Inners(base + TileInner + slice, k) : x < y
<1>1. /\ SplitK \in Nat \ {0} /\ TileInner \in Nat \ {0}
      /\ slice \in Nat /\ slice < SplitK /\ base + slice \in Nat
      /\ base + TileInner + slice \in Nat
  BY MatmulConstantsOK
<1>2. PICK e \in Nat : TileInner = e * SplitK
  <2>1. TileInner \div SplitK \in Nat /\ TileInner = SplitK * (TileInner \div SplitK) + 0
    BY <1>1, MatmulConstantsOK, QuotientNat, Division
  <2>2. TileInner = (TileInner \div SplitK) * SplitK
    BY <1>1, <2>1
  <2> QED BY <2>1, <2>2
<1>3. TileEnd(base, k) \in Nat /\ TileEnd(base, k) <= k /\ TileEnd(base, k) <= base + TileInner
      /\ (TileEnd(base, k) = k \/ TileEnd(base, k) = base + TileInner)
  BY <1>1 DEF TileEnd
<1>4. ASSUME NEW x \in Inners(base + slice, TileEnd(base, k))
      PROVE  x \in Inners(base + slice, k) /\ x \in Nat /\ x < base + TileInner
  <2>1. x \in Nat /\ x < TileEnd(base, k) /\ \E a \in Nat : x = base + slice + a * SplitK
    BY <1>1, <1>3, InnerForm
  <2>2. x < k /\ x < base + TileInner
    BY <1>1, <1>3, <2>1
  <2>3. PICK a \in Nat : x = base + slice + a * SplitK
    BY <2>1
  <2>4. k \in Nat /\ base + slice \in Nat
    BY <1>1
  <2>5. x \in Inners(base + slice, k)
    BY <2>1, <2>2, <2>3, <2>4, InnerMade
  <2> QED BY <2>1, <2>2, <2>5
<1>5. ASSUME NEW x \in Inners(base + TileInner + slice, k)
      PROVE  x \in Inners(base + slice, k) /\ x \in Nat /\ base + TileInner <= x
  <2>1. PICK a \in Nat : x = base + TileInner + slice + a * SplitK
    BY <1>1, InnerForm
  <2>2. x \in Nat /\ x < k
    BY <1>1, InnerForm
  <2>3. x = base + slice + (e + a) * SplitK /\ e + a \in Nat /\ a * SplitK \in Nat
    BY <1>1, <1>2, <2>1
  <2>4. x \in Inners(base + slice, k)
    BY <1>1, <2>2, <2>3, InnerMade
  <2> QED BY <1>1, <2>1, <2>2, <2>4
<1>6. ASSUME NEW x \in Inners(base + slice, k), x \notin Inners(base + slice, TileEnd(base, k))
      PROVE  x \in Inners(base + TileInner + slice, k)
  <2>1. PICK a \in Nat : x = base + slice + a * SplitK
    BY <1>1, InnerForm
  <2>2. x \in Nat /\ x < k
    BY <1>1, InnerForm
  <2>3. ~(x < TileEnd(base, k))
    BY <1>1, <1>3, <1>6, <2>1, <2>2, InnerMade
  <2>4. base + TileInner <= x
    BY <1>1, <1>3, <2>2, <2>3
  <2>5. ~(a < e)
    <3> SUFFICES ASSUME a < e
                 PROVE  FALSE
      OBVIOUS
    <3>1. a * SplitK + SplitK <= e * SplitK /\ a * SplitK \in Nat
      BY <1>1, NextMultiple
    <3> QED BY <1>1, <1>2, <2>1, <2>4, <3>1
  <2>6. a - e \in Nat /\ x = base + TileInner + slice + (a - e) * SplitK
    BY <1>1, <1>2, <2>1, <2>5
  <2> QED BY <1>1, <2>2, <2>6, InnerMade
<1> QED BY <1>1, <1>3, <1>4, <1>5, <1>6

LEMMA TiledLists ==
    ASSUME NEW slice \in 0..(SplitK - 1), NEW k \in Nat
    PROVE  /\ TiledInners(slice, k) \in Seq(Nat)
           /\ Lists(TiledInners(slice, k), Inners(slice, k))
<1> DEFINE h == [base \in Nat |-> OneByOne(TileEnd(base, k))[base + slice]]
           r == [base \in Nat |-> <<>>]
           A == [base \in Nat |-> Inners(base + slice, k)]
           B == [base \in Nat |-> Inners(base + slice, TileEnd(base, k))]
           Is(f) == f = [base \in Nat |->
                            IF base < k
                            THEN OneByOne(TileEnd(base, k))[base + slice] \o f[base + TileInner]
                            ELSE <<>>]
<1>1. k \in Int /\ TileInner \in Nat \ {0} /\ SplitK \in Nat \ {0} /\ slice \in Nat
  BY MatmulConstantsOK
<1>2. \A base \in Nat : base + slice \in Nat
  BY <1>1
<1>3. \A base \in Nat : A[base] \in SUBSET (0..k)
  BY <1>2, InnersBounded
<1>4. ASSUME NEW base \in Nat, base < k
      PROVE  /\ h[base] \in Seq(Nat) /\ Lists(h[base], B[base])
             /\ A[base] = B[base] \cup A[base + TileInner]
             /\ \A x \in B[base], y \in A[base + TileInner] : x < y
  <2>1. /\ TileEnd(base, k) \in Nat
        /\ Inners(base + slice, k) = Inners(base + slice, TileEnd(base, k))
                                       \cup Inners(base + TileInner + slice, k)
        /\ \A x \in Inners(base + slice, TileEnd(base, k)),
              y \in Inners(base + TileInner + slice, k) : x < y
    BY <1>4, TileSplit
  <2>2. /\ OneByOne(TileEnd(base, k))[base + slice] \in Seq(Nat)
        /\ Lists(OneByOne(TileEnd(base, k))[base + slice], Inners(base + slice, TileEnd(base, k)))
    BY <1>2, <2>1, OneByOneLists
  <2>3. base + TileInner \in Nat
    BY <1>1
  <2> QED BY <2>1, <2>2, <2>3
<1>5. ASSUME NEW base \in Nat, ~(base < k)
      PROVE  r[base] \in Seq(Nat) /\ Lists(r[base], A[base])
  <2>1. ~(base + slice < k)
    BY <1>1, <1>5
  <2> QED BY <1>2, <2>1, NoInners, EmptyList
<1>6. \A f : Is(f) <=> Loop(f, k, TileInner, h, r)
  <2>1. ASSUME NEW f
        PROVE  [base \in Nat |-> IF base < k
                    THEN OneByOne(TileEnd(base, k))[base + slice] \o f[base + TileInner]
                    ELSE <<>>]
                 = [base \in Nat |-> IF base < k THEN h[base] \o f[base + TileInner] ELSE r[base]]
    OBVIOUS
  <2> HIDE DEF h, r
  <2> QED BY <2>1 DEF Loop
<1>7. TiledInners(slice, k) = (CHOOSE f : Is(f))[0]
  BY DEF TiledInners
<1>8. A[0] = Inners(slice, k)
  <2>1. 0 + slice = slice
    BY <1>1
  <2> QED BY <2>1
<1> HIDE DEF h, r, A, B
<1>9. /\ \E f : Loop(f, k, TileInner, h, r)
      /\ \A f : Loop(f, k, TileInner, h, r) =>
            \A base \in Nat : f[base] \in Seq(Nat) /\ Lists(f[base], A[base])
  BY <1>1, <1>3, <1>4, <1>5, LoopLists
<1> DEFINE g == CHOOSE f : Is(f)
<1> HIDE DEF Is
<1>10. Is(g)
  BY <1>6, <1>9
<1>11. TiledInners(slice, k) = g[0]
  BY <1>7
<1> HIDE DEF g
<1> QED BY <1>6, <1>8, <1>9, <1>10, <1>11

\* Whatever the kernel.
LEMMA SlicesList ==
    ASSUME NEW kernel \in {"single", "rows", "tile"}, NEW slice \in 0..(SplitK - 1), NEW k \in Nat
    PROVE  /\ SliceInners(kernel, slice, k) \in Seq(Nat)
           /\ Lists(SliceInners(kernel, slice, k), {i \in 0..(k - 1) : i % SplitK = slice})
<1>1. SplitK \in Nat \ {0} /\ Unroll \in Nat \ {0} /\ RowsUnroll \in Nat \ {0} /\ slice \in Nat
  BY MatmulConstantsOK
<1>2. SliceInners(kernel, slice, k) \in Seq(Nat)
      /\ Lists(SliceInners(kernel, slice, k), Inners(slice, k))
  BY <1>1, UnrolledLists, TiledLists DEF SliceInners
<1>3. ASSUME NEW i \in 0..(k - 1)
      PROVE  i \in Inners(slice, k) <=> i % SplitK = slice
  <2>1. ASSUME i \in Inners(slice, k)
        PROVE  i % SplitK = slice
    <3>1. PICK a \in Nat : i = slice + a * SplitK
      BY <1>1, <2>1, InnerForm
    <3>2. (slice + a * SplitK) % SplitK = slice % SplitK /\ slice % SplitK = slice
      BY <1>1, RestRepeats, SmallRest
    <3> QED BY <3>1, <3>2
  <2>2. ASSUME i % SplitK = slice
        PROVE  i \in Inners(slice, k)
    <3>1. i \div SplitK \in Nat /\ i = SplitK * (i \div SplitK) + slice
      BY <1>1, <2>2, QuotientNat, Division
    <3>2. PICK a \in Nat : i = slice + a * SplitK
      BY <1>1, <3>1
    <3>3. i < k
      OBVIOUS
    <3> QED BY <1>1, <3>2, <3>3, InnerMade
  <2> QED BY <2>1, <2>2
<1>4. Inners(slice, k) \subseteq 0..(k - 1)
  BY <1>1 DEF Inners
<1>5. Inners(slice, k) = {i \in 0..(k - 1) : i % SplitK = slice}
  BY <1>3, <1>4
<1> QED BY <1>2, <1>5

----------------------------------------------------------------------------
(* The elements that a launch writes.                                      *)

\* Blocks of w numbers each reach every number below n.
LEMMA DigitsCover ==
    ASSUME NEW n \in Nat, NEW w \in Nat \ {0}, NEW r \in 0..(n - 1)
    PROVE  \E b \in 0..(CeilDiv(n, w) - 1), y \in 0..(w - 1) : r = b * w + y
<1> DEFINE blocks == CeilDiv(n, w)
<1>1. blocks \in Nat /\ n <= blocks * w
  BY ChunksCover DEF CeilDiv
<1> HIDE DEF blocks
<1>2. PICK b \in Nat, y \in Nat : r = w * b + y /\ y < w
  <2>1. r \in Nat
    OBVIOUS
  <2> QED BY <2>1, QuotientAndRest
<1>3. b * w \in Nat /\ blocks * w \in Nat /\ r = b * w + y
  BY <1>1, <1>2
<1>4. b < blocks
  <2>1. blocks < b => blocks * w + w <= b * w
    BY <1>1, <1>2, NextMultiple
  <2>2. blocks = b => blocks * w = b * w
    OBVIOUS
  <2> QED BY <1>1, <1>2, <1>3, <2>1, <2>2
<1>5. b \in 0..(blocks - 1) /\ y \in 0..(w - 1)
  BY <1>1, <1>2, <1>4
<1> QED BY <1>3, <1>5 DEF blocks

\* A product of a number of rows and a number of columns.
ShapeOK(c) == c.m \in Nat /\ c.n \in Nat

Output(c) == (0..(c.m - 1)) \X (0..(c.n - 1))

WritesEachOnce(c, W) ==
    {v.element : v \in W} = Output(c) /\ Cardinality(W) = c.m * c.n

LEMMA WrittenOnce ==
    ASSUME NEW c, ShapeOK(c), NEW W,
           \A v \in W : v.element \in Output(c),
           \A e \in Output(c) : \E v \in W : v.element = e,
           \A u, v \in W : u.element = v.element => u = v
    PROVE  WritesEachOnce(c, W)
<1> DEFINE R == 0..(c.m - 1)
           C == 0..(c.n - 1)
           f == [v \in W |-> v.element]
<1>1. {v.element : v \in W} = Output(c)
  OBVIOUS
<1>2. f \in Bijection(W, Output(c))
  <2>1. f \in [W -> Output(c)]
    OBVIOUS
  <2>2. \A u, v \in W : f[u] = f[v] => u = v
    OBVIOUS
  <2>3. \A e \in Output(c) : \E v \in W : f[v] = e
    OBVIOUS
  <2> HIDE DEF f
  <2> QED BY <2>1, <2>2, <2>3 DEF Bijection, Injection, Surjection, IsInjective
<1>3. ExistsBijection(Output(c), W)
  BY <1>2, Fun_ExistsBijSymmetric DEF ExistsBijection
<1>4. /\ IsFiniteSet(R) /\ Cardinality(R) = c.m
      /\ IsFiniteSet(C) /\ Cardinality(C) = c.n
  <2>1. ASSUME NEW k \in Nat
        PROVE  IsFiniteSet(0..(k - 1)) /\ Cardinality(0..(k - 1)) = k
    <3>1. Cardinality(0..(k - 1)) = IF 0 > k - 1 THEN 0 ELSE (k - 1) - 0 + 1
      BY FS_Interval
    <3> QED BY <3>1, FS_Interval
  <2> QED BY <2>1 DEF ShapeOK
<1>5. Output(c) = R \X C
  BY DEF Output
<1> HIDE DEF R, C, f
<1>6. IsFiniteSet(Output(c)) /\ Cardinality(Output(c)) = c.m * c.n
  BY <1>4, <1>5, FS_Product
<1>7. Cardinality(W) = Cardinality(Output(c))
  BY <1>3, <1>6, FS_Bijection
<1> QED BY <1>1, <1>6, <1>7 DEF WritesEachOnce

\* Blocks of w columns and h rows, cut off at the output's last.
CutBlocks(c, w, h) == {v \in BlockWrites(c, w, h) : v.element[1] < c.m /\ v.element[2] < c.n}

LEMMA BlocksWriteOnce ==
    ASSUME NEW c, ShapeOK(c), NEW w \in Nat \ {0}, NEW h \in Nat \ {0}
    PROVE  WritesEachOnce(c, CutBlocks(c, w, h))
<1> DEFINE W == CutBlocks(c, w, h)
           Cs == 0..(CeilDiv(c.n, w) - 1)
           Rs == 0..(CeilDiv(c.m, h) - 1)
           The(p, q, x, y) == [block |-> <<p, q>>, thread |-> <<x, y>>,
                               element |-> <<q * h + y, p * w + x>>]
<1>0. c.m \in Nat /\ c.n \in Nat /\ CeilDiv(c.n, w) \in Nat /\ CeilDiv(c.m, h) \in Nat
  BY ChunksCover DEF ShapeOK, CeilDiv
<1>1. ASSUME NEW v \in W
      PROVE  \E p \in Cs, q \in Rs, x \in 0..(w - 1), y \in 0..(h - 1) :
                v = The(p, q, x, y) /\ q * h + y < c.m /\ p * w + x < c.n
  <2>1. v \in BlockWrites(c, w, h) /\ v.element[1] < c.m /\ v.element[2] < c.n
    BY DEF CutBlocks
  <2>2. PICK b \in Blocks(c, w, h), x \in 0..(w - 1), y \in 0..(h - 1) :
            v = [block |-> b, thread |-> <<x, y>>, element |-> <<b[2] * h + y, b[1] * w + x>>]
    BY <2>1 DEF BlockWrites
  <2>3. PICK p \in Cs, q \in Rs : b = <<p, q>>
    BY DEF Blocks
  <2>4. v = The(p, q, x, y)
    BY <2>2, <2>3
  <2>5. q * h + y < c.m /\ p * w + x < c.n
    BY <2>1, <2>4
  <2> QED BY <2>4, <2>5
<1>2. ASSUME NEW p \in Cs, NEW q \in Rs, NEW x \in 0..(w - 1), NEW y \in 0..(h - 1),
             q * h + y < c.m, p * w + x < c.n
      PROVE  The(p, q, x, y) \in W
  <2> DEFINE Write(b, s, t) == [block |-> b, thread |-> <<s, t>>,
                                element |-> <<b[2] * h + t, b[1] * w + s>>]
  <2>1. BlockWrites(c, w, h)
          = {Write(b, s, t) : b \in Blocks(c, w, h), s \in 0..(w - 1), t \in 0..(h - 1)}
    BY DEF BlockWrites
  <2>2. The(p, q, x, y) = Write(<<p, q>>, x, y) /\ <<p, q>> \in Blocks(c, w, h)
    BY DEF Blocks
  <2> HIDE DEF The, Write
  <2>3. The(p, q, x, y) \in BlockWrites(c, w, h)
    BY <2>1, <2>2
  <2> QED BY <1>2, <2>3 DEF CutBlocks, The
<1> HIDE DEF W
<1>3. \A v \in W : v.element \in Output(c)
  <2> SUFFICES ASSUME NEW v \in W
               PROVE  v.element \in Output(c)
    OBVIOUS
  <2>1. PICK p \in Cs, q \in Rs, x \in 0..(w - 1), y \in 0..(h - 1) :
            v = The(p, q, x, y) /\ q * h + y < c.m /\ p * w + x < c.n
    BY <1>1
  <2>2. p \in Nat /\ q \in Nat
    BY <1>0
  <2>3. q * h + y \in Nat /\ p * w + x \in Nat
    BY <2>2, TwoDigits
  <2>4. q * h + y \in 0..(c.m - 1) /\ p * w + x \in 0..(c.n - 1)
    BY <1>0, <2>1, <2>3
  <2> QED BY <2>1, <2>4 DEF Output
<1>4. \A e \in Output(c) : \E v \in W : v.element = e
  <2> SUFFICES ASSUME NEW r \in 0..(c.m - 1), NEW k \in 0..(c.n - 1)
               PROVE  \E v \in W : v.element = <<r, k>>
    BY DEF Output
  <2>0. /\ \A n \in 0..(c.m - 1) : \E q \in 0..(CeilDiv(c.m, h) - 1), y \in 0..(h - 1) : n = q * h + y
        /\ \A n \in 0..(c.n - 1) : \E p \in 0..(CeilDiv(c.n, w) - 1), x \in 0..(w - 1) : n = p * w + x
    <3>1. c.m \in Nat /\ c.n \in Nat
      BY <1>0
    <3> QED BY <3>1, DigitsCover
  <2>1. PICK q \in Rs, y \in 0..(h - 1) : r = q * h + y
    BY <2>0, Zenon
  <2>2. PICK p \in Cs, x \in 0..(w - 1) : k = p * w + x
    BY <2>0, Zenon
  <2>3. The(p, q, x, y) \in W
    BY <1>0, <1>2, <2>1, <2>2
  <2> QED BY <2>1, <2>2, <2>3
<1>5. \A u, v \in W : u.element = v.element => u = v
  <2> SUFFICES ASSUME NEW u \in W, NEW v \in W, u.element = v.element
               PROVE  u = v
    OBVIOUS
  <2>1. PICK p \in Cs, q \in Rs, x \in 0..(w - 1), y \in 0..(h - 1) : u = The(p, q, x, y)
    BY <1>1
  <2>2. PICK a \in Cs, b \in Rs, s \in 0..(w - 1), t \in 0..(h - 1) : v = The(a, b, s, t)
    BY <1>1
  <2>3. q * h + y = b * h + t /\ p * w + x = a * w + s
    BY <2>1, <2>2
  <2>4. p \in Nat /\ q \in Nat /\ a \in Nat /\ b \in Nat
    BY <1>0
  <2>5. q = b /\ y = t
    BY <2>3, <2>4, TwoDigits
  <2>6. p = a /\ x = s
    BY <2>3, <2>4, TwoDigits
  <2> QED BY <2>1, <2>2, <2>5, <2>6
<1>6. WritesEachOnce(c, W)
  BY <1>3, <1>4, <1>5, WrittenOnce
<1> QED BY <1>6 DEF W

\* A slice below the rows of its group has a row of the output.
LEMMA GroupsAreCut ==
    ASSUME NEW m \in Nat, NEW g \in Nat, NEW s \in Nat
    PROVE  s < RowsInGroup(m, g * GroupRows) <=> s < GroupRows /\ g * GroupRows + s < m
<1>1. GroupRows \in Nat /\ g * GroupRows \in Nat
  BY MatmulConstantsOK
<1> DEFINE first == g * GroupRows
<1> HIDE DEF first
<1>2. first \in Nat
  BY <1>1 DEF first
<1>3. s < RowsInGroup(m, first) <=> s < GroupRows /\ first + s < m
  BY <1>1, <1>2 DEF RowsInGroup
<1> QED BY <1>3 DEF first

\* The guard of the row and tile kernels.
CutGroups(c, all) ==
    {v \in all : v.thread[2] < RowsInGroup(c.m, v.block[2] * GroupRows) /\ v.element[2] < c.n}

LEMMA RowsWriteOnce ==
    ASSUME NEW c, ShapeOK(c)
    PROVE  WritesEachOnce(c, CutGroups(c, RowsWrites(c)))
<1> DEFINE w == WarpColumns
           Write(b, x, s) == [block |-> b, thread |-> <<x, s>>,
                              element |-> <<b[2] * GroupRows + s, b[1] * w + x>>]
           B == Blocks(c, w, GroupRows)
<1>1. /\ w \in Nat \ {0} /\ GroupRows \in Nat \ {0} /\ SplitK \in Nat \ {0}
      /\ GroupRows <= SplitK /\ c.m \in Nat
  BY MatmulConstantsOK DEF ShapeOK
<1>2. /\ RowsWrites(c) = {Write(b, x, s) : b \in B, x \in 0..(w - 1), s \in 0..(SplitK - 1)}
      /\ BlockWrites(c, w, GroupRows)
           = {Write(b, x, s) : b \in B, x \in 0..(w - 1), s \in 0..(GroupRows - 1)}
  BY DEF RowsWrites, BlockWrites
<1>3. \A b \in B : b[2] \in Nat
  BY DEF Blocks
<1>4. ASSUME NEW b \in B, NEW x \in 0..(w - 1), NEW s \in 0..(SplitK - 1)
      PROVE  /\ Write(b, x, s).thread[2] = s /\ Write(b, x, s).block[2] = b[2]
             /\ Write(b, x, s).element[1] = b[2] * GroupRows + s
             /\ s < RowsInGroup(c.m, b[2] * GroupRows)
                  <=> s < GroupRows /\ b[2] * GroupRows + s < c.m
  <2>1. b[2] \in Nat /\ s \in Nat
    BY <1>3
  <2>2. s < RowsInGroup(c.m, b[2] * GroupRows)
            <=> s < GroupRows /\ b[2] * GroupRows + s < c.m
    BY <1>1, <2>1, GroupsAreCut
  <2> QED BY <2>2
<1> HIDE DEF Write, B, w
<1>5. ASSUME NEW v \in CutGroups(c, RowsWrites(c))
      PROVE  v \in CutBlocks(c, w, GroupRows)
  <2>1. PICK b \in B, x \in 0..(w - 1), s \in 0..(SplitK - 1) : v = Write(b, x, s)
    BY <1>2 DEF CutGroups
  <2>2. s \in 0..(GroupRows - 1) /\ v.element[1] < c.m /\ v.element[2] < c.n
    BY <1>1, <1>4, <2>1 DEF CutGroups
  <2> QED BY <1>2, <2>1, <2>2 DEF CutBlocks
<1>6. ASSUME NEW v \in CutBlocks(c, w, GroupRows)
      PROVE  v \in CutGroups(c, RowsWrites(c))
  <2>1. PICK b \in B, x \in 0..(w - 1), s \in 0..(GroupRows - 1) : v = Write(b, x, s)
    BY <1>2 DEF CutBlocks
  <2>2. s \in 0..(SplitK - 1) /\ s < GroupRows /\ v.element[1] < c.m /\ v.element[2] < c.n
    BY <1>1, <2>1 DEF CutBlocks
  <2> QED BY <1>2, <1>4, <2>1, <2>2 DEF CutGroups
<1>7. CutGroups(c, RowsWrites(c)) = CutBlocks(c, w, GroupRows)
  BY <1>5, <1>6
<1> QED BY <1>1, <1>7, BlocksWriteOnce

LEMMA TilesWriteOnce ==
    ASSUME NEW c, ShapeOK(c)
    PROVE  WritesEachOnce(c, CutGroups(c, TileWrites(c)))
<1> DEFINE W == CutGroups(c, TileWrites(c))
           width == WarpColumns * TileColumns
           Cs == 0..(CeilDiv(c.n, width) - 1)
           Rs == 0..(CeilDiv(c.m, GroupRows) - 1)
           Xs == 0..(WarpColumns - 1)
           Ss == 0..(SplitK - 1)
           Is == 0..(TileColumns - 1)
           Write(b, x, s, i) == [block |-> b, thread |-> <<x, s, i>>,
                element |-> <<b[2] * GroupRows + s, b[1] * width + x + i * WarpColumns>>]
<1>1. /\ WarpColumns \in Nat \ {0} /\ GroupRows \in Nat \ {0} /\ SplitK \in Nat \ {0}
      /\ TileColumns \in Nat \ {0}
      /\ GroupRows <= SplitK /\ c.m \in Nat /\ c.n \in Nat
  BY MatmulConstantsOK DEF ShapeOK
<1>2. width \in Nat \ {0} /\ CeilDiv(c.n, width) \in Nat /\ CeilDiv(c.m, GroupRows) \in Nat
  <2>1. width \in Nat \ {0}
    BY <1>1, ProductPositive
  <2> QED BY <1>1, <2>1, ChunksCover DEF CeilDiv
<1>3. TileWrites(c) = {Write(b, x, s, i) : b \in Blocks(c, width, GroupRows), x \in Xs, s \in Ss, i \in Is}
  BY DEF TileWrites
<1>4. ASSUME NEW x \in Xs, NEW i \in Is
      PROVE  x + i * WarpColumns \in 0..(width - 1) /\ i * WarpColumns \in Nat
  <2>1. i \in Nat /\ i * WarpColumns \in Nat
    BY <1>1
  <2>2. i * WarpColumns + x < TileColumns * WarpColumns /\ i * WarpColumns + x \in Nat
    BY <1>1, <2>1, TwoDigits
  <2>3. width = TileColumns * WarpColumns
    BY <1>1
  <2> QED BY <1>1, <1>2, <2>1, <2>2, <2>3
<1> HIDE DEF width
<1>5. ASSUME NEW v \in W
      PROVE  \E p \in Cs, q \in Rs, x \in Xs, s \in Ss, i \in Is :
                /\ v = Write(<<p, q>>, x, s, i)
                /\ s < GroupRows /\ q * GroupRows + s < c.m
                /\ p * width + x + i * WarpColumns < c.n
  <2>1. v \in TileWrites(c)
    BY DEF CutGroups
  <2>2. PICK b \in Blocks(c, width, GroupRows), x \in Xs, s \in Ss, i \in Is : v = Write(b, x, s, i)
    BY <1>3, <2>1
  <2>3. PICK p \in Cs, q \in Rs : b = <<p, q>>
    BY DEF Blocks
  <2>4. v = Write(<<p, q>>, x, s, i) /\ q \in Nat /\ s \in Nat
    BY <1>1, <1>2, <2>2, <2>3
  <2>5. s < RowsInGroup(c.m, q * GroupRows) /\ p * width + x + i * WarpColumns < c.n
    BY <2>4 DEF CutGroups
  <2>6. s < GroupRows /\ q * GroupRows + s < c.m
    BY <1>1, <2>4, <2>5, GroupsAreCut
  <2> QED BY <2>4, <2>5, <2>6
<1>6. ASSUME NEW p \in Cs, NEW q \in Rs, NEW x \in Xs, NEW s \in Ss, NEW i \in Is,
             s < GroupRows, q * GroupRows + s < c.m, p * width + x + i * WarpColumns < c.n
      PROVE  /\ Write(<<p, q>>, x, s, i) \in W
             /\ Write(<<p, q>>, x, s, i).element
                  = <<q * GroupRows + s, p * width + x + i * WarpColumns>>
  <2>1. q \in Nat /\ s \in Nat
    BY <1>1, <1>2
  <2>2. s < RowsInGroup(c.m, q * GroupRows)
    BY <1>1, <1>6, <2>1, GroupsAreCut
  <2>3. /\ <<p, q>> \in Blocks(c, width, GroupRows)
        /\ Write(<<p, q>>, x, s, i).thread[2] = s /\ Write(<<p, q>>, x, s, i).block[2] = q
        /\ Write(<<p, q>>, x, s, i).element
             = <<q * GroupRows + s, p * width + x + i * WarpColumns>>
    BY DEF Blocks
  <2> HIDE DEF Write
  <2>4. Write(<<p, q>>, x, s, i) \in TileWrites(c)
    BY <1>3, <2>3
  <2> QED BY <1>6, <2>2, <2>3, <2>4 DEF CutGroups
<1> HIDE DEF W
<1>7. \A v \in W : v.element \in Output(c)
  <2> SUFFICES ASSUME NEW v \in W
               PROVE  v.element \in (0..(c.m - 1)) \X (0..(c.n - 1))
    BY DEF Output
  <2>1. PICK p \in Cs, q \in Rs, x \in Xs, s \in Ss, i \in Is :
                /\ v = Write(<<p, q>>, x, s, i)
                /\ s < GroupRows /\ q * GroupRows + s < c.m
                /\ p * width + x + i * WarpColumns < c.n
    BY <1>5
  <2>2. p \in Nat /\ q \in Nat /\ s \in 0..(GroupRows - 1)
    BY <1>1, <1>2, <2>1
  <2>3. q * GroupRows + s \in Nat
    BY <1>1, <2>2, TwoDigits
  <2>4. p * width + (x + i * WarpColumns) \in Nat
    BY <1>2, <1>4, <2>2, TwoDigits
  <2>5. p * width \in Nat /\ i * WarpColumns \in Nat /\ x \in Nat
    BY <1>1, <1>2, <1>4, <2>2
  <2>6. /\ q * GroupRows + s \in 0..(c.m - 1)
        /\ p * width + x + i * WarpColumns \in 0..(c.n - 1)
    BY <1>1, <2>1, <2>3, <2>5
  <2> QED BY <2>1, <2>6
<1>8. \A e \in Output(c) : \E v \in W : v.element = e
  <2> SUFFICES ASSUME NEW r \in 0..(c.m - 1), NEW k \in 0..(c.n - 1)
               PROVE  \E v \in W : v.element = <<r, k>>
    BY DEF Output
  <2>0. /\ \A n \in 0..(c.m - 1) :
             \E q \in 0..(CeilDiv(c.m, GroupRows) - 1), s \in 0..(GroupRows - 1) : n = q * GroupRows + s
        /\ \A n \in 0..(c.n - 1) :
             \E p \in 0..(CeilDiv(c.n, width) - 1), y \in 0..(width - 1) : n = p * width + y
    <3>1. c.m \in Nat /\ c.n \in Nat /\ GroupRows \in Nat \ {0} /\ width \in Nat \ {0}
      BY <1>1, <1>2
    <3> HIDE DEF width
    <3> QED BY <3>1, DigitsCover
  <2>1. PICK q \in Rs, s \in 0..(GroupRows - 1) : r = q * GroupRows + s
    BY <2>0, Zenon
  <2>2. PICK p \in Cs, y \in 0..(width - 1) : k = p * width + y
    BY <2>0, Zenon
  <2>3. PICK i \in Is, x \in Xs : y = i * WarpColumns + x
    <3>1. y \in Nat /\ y < TileColumns * WarpColumns
      BY <1>1, <1>2 DEF width
    <3>2. PICK j \in Nat, x \in Nat : y = WarpColumns * j + x /\ x < WarpColumns
      BY <1>1, <3>1, QuotientAndRest
    <3>3. j < TileColumns
      <4>1. CASE TileColumns < j
        <5>1. TileColumns * WarpColumns + WarpColumns <= j * WarpColumns
          BY <1>1, <4>1, NextMultiple
        <5>2. j * WarpColumns = WarpColumns * j /\ j * WarpColumns \in Nat
              /\ TileColumns * WarpColumns \in Nat
          BY <1>1
        <5> QED BY <1>1, <3>1, <3>2, <5>1, <5>2
      <4>2. CASE TileColumns = j
        <5>1. j * WarpColumns = WarpColumns * j /\ j * WarpColumns \in Nat
          BY <1>1
        <5> QED BY <3>1, <3>2, <4>2, <5>1
      <4> QED BY <1>1, <4>1, <4>2
    <3>4. j \in Is /\ x \in Xs /\ y = j * WarpColumns + x
      BY <1>1, <3>2, <3>3
    <3> QED BY <3>4
  <2>4. i * WarpColumns \in Nat /\ p * width \in Nat /\ x \in Nat
    BY <1>1, <1>2
  <2>5. s \in Ss /\ s < GroupRows /\ q * GroupRows + s < c.m
        /\ k = p * width + x + i * WarpColumns /\ k < c.n
    BY <1>1, <2>1, <2>2, <2>3, <2>4
  <2>6. /\ Write(<<p, q>>, x, s, i) \in W
        /\ Write(<<p, q>>, x, s, i).element
             = <<q * GroupRows + s, p * width + x + i * WarpColumns>>
    BY <1>6, <2>5
  <2> HIDE DEF Write
  <2> QED BY <2>1, <2>5, <2>6
<1>9. \A u, v \in W : u.element = v.element => u = v
  <2> SUFFICES ASSUME NEW u \in W, NEW v \in W, u.element = v.element
               PROVE  u = v
    OBVIOUS
  <2>1. PICK p \in Cs, q \in Rs, x \in Xs, s \in Ss, i \in Is :
            u = Write(<<p, q>>, x, s, i) /\ s < GroupRows
    BY <1>5
  <2>2. PICK a \in Cs, b \in Rs, y \in Xs, t \in Ss, j \in Is :
            v = Write(<<a, b>>, y, t, j) /\ t < GroupRows
    BY <1>5
  <2>3. /\ q * GroupRows + s = b * GroupRows + t
        /\ p * width + x + i * WarpColumns = a * width + y + j * WarpColumns
    BY <2>1, <2>2
  <2>4. /\ p \in Nat /\ q \in Nat /\ a \in Nat /\ b \in Nat /\ i \in Nat /\ j \in Nat
        /\ s \in 0..(GroupRows - 1) /\ t \in 0..(GroupRows - 1)
    BY <1>1, <1>2, <2>1, <2>2
  <2>5. q = b /\ s = t
    BY <1>1, <2>3, <2>4, TwoDigits
  <2>6. /\ p * width \in Nat /\ a * width \in Nat
        /\ i * WarpColumns \in Nat /\ j * WarpColumns \in Nat
        /\ x + i * WarpColumns \in 0..(width - 1) /\ y + j * WarpColumns \in 0..(width - 1)
    BY <1>2, <1>4, <2>4
  <2>7. p * width + (x + i * WarpColumns) = a * width + (y + j * WarpColumns)
    BY <1>1, <2>3, <2>6
  <2>8. p = a /\ x + i * WarpColumns = y + j * WarpColumns
    BY <1>2, <2>4, <2>6, <2>7, TwoDigits
  <2>9. i * WarpColumns + x = j * WarpColumns + y
    BY <1>1, <2>6, <2>8
  <2>10. i = j /\ x = y
    BY <1>1, <2>4, <2>9, TwoDigits
  <2> QED BY <2>1, <2>2, <2>5, <2>8, <2>10
<1>10. WritesEachOnce(c, W)
  BY <1>7, <1>8, <1>9, WrittenOnce
<1> QED BY <1>10 DEF W

\* The guard of matmul_kernel.
CutElements(c) == {v \in ElementWrites(c) : v.element[1] < c.m /\ v.element[2] < c.n}

LEMMA ElementsWriteOnce ==
    ASSUME NEW c, ShapeOK(c), c.m * c.n < CountWidth
    PROVE  WritesEachOnce(c, CutElements(c))
<1> DEFINE W == CutElements(c)
           E == ElementBlock
           Bs == 0..(CeilDiv(c.m * c.n, E) - 1)
           At(b, x) == b * E + x
           Write(b, x) == [block |-> b, thread |-> x,
                           element |-> <<At(b, x) \div c.n, At(b, x) % c.n>>]
<1>1. c.m \in Nat /\ c.n \in Nat /\ c.m * c.n \in Nat /\ E \in Nat \ {0} /\ CountWidth \in Nat \ {0}
  BY MatmulConstantsOK DEF ShapeOK
<1>2. (c.m * c.n) % CountWidth = c.m * c.n
  BY <1>1, SmallRest
<1>3. ElementWrites(c) = {Write(b, x) : b \in Bs, x \in 0..(E - 1)}
  BY <1>2 DEF ElementWrites
<1>4. CeilDiv(c.m * c.n, E) \in Nat
  BY <1>1, ChunksCover DEF CeilDiv
<1>5. ASSUME NEW v \in W
      PROVE  \E b \in Bs, x \in 0..(E - 1) :
                v = Write(b, x) /\ At(b, x) \div c.n < c.m /\ At(b, x) % c.n < c.n
  <2>1. PICK b \in Bs, x \in 0..(E - 1) : v = Write(b, x)
    BY <1>3 DEF CutElements
  <2> QED BY <2>1 DEF CutElements
<1>6. ASSUME NEW b \in Bs, NEW x \in 0..(E - 1), At(b, x) \div c.n < c.m, At(b, x) % c.n < c.n
      PROVE  Write(b, x) \in W
  <2>1. Write(b, x).element = <<At(b, x) \div c.n, At(b, x) % c.n>>
    OBVIOUS
  <2> HIDE DEF Write
  <2>2. Write(b, x) \in ElementWrites(c)
    BY <1>3
  <2> QED BY <1>6, <2>1, <2>2 DEF CutElements
<1>7. ASSUME NEW b \in Bs, NEW x \in 0..(E - 1)
      PROVE  b \in Nat /\ At(b, x) \in Nat
  <2>1. b \in Nat
    BY <1>4
  <2> QED BY <1>1, <2>1, TwoDigits
<1>8. \A b \in Bs : c.n # 0
  <2> SUFFICES ASSUME c.n = 0
               PROVE  Bs = {}
    OBVIOUS
  <2>1. CeilDiv(c.m * c.n, E) = 0
    <3>1. c.m * c.n = 0 /\ 0 + E - 1 = 0 * E + (E - 1)
      BY <1>1
    <3>2. E - 1 \in 0..(E - 1) /\ 0 \in Nat
      BY <1>1
    <3>3. (0 * E + (E - 1)) \div E = 0
      BY <1>1, <3>2, DivisionIs
    <3> QED BY <3>1, <3>3 DEF CeilDiv
  <2> QED BY <2>1
<1> HIDE DEF W, E
<1>9. \A v \in W : v.element \in Output(c)
  <2> SUFFICES ASSUME NEW v \in W
               PROVE  v.element \in (0..(c.m - 1)) \X (0..(c.n - 1))
    BY DEF Output
  <2>1. PICK b \in Bs, x \in 0..(E - 1) :
            v = Write(b, x) /\ At(b, x) \div c.n < c.m /\ At(b, x) % c.n < c.n
    BY <1>5
  <2>2. At(b, x) \in Nat /\ c.n \in Nat \ {0}
    BY <1>1, <1>7, <1>8
  <2>3. v.element = <<At(b, x) \div c.n, At(b, x) % c.n>>
    BY <2>1
  <2> HIDE DEF At
  <2>4. At(b, x) \div c.n \in Nat /\ At(b, x) % c.n \in Nat
    BY <2>2, QuotientNat
  <2> QED BY <1>1, <2>1, <2>3, <2>4
<1>10. \A e \in Output(c) : \E v \in W : v.element = e
  <2> SUFFICES ASSUME NEW r \in 0..(c.m - 1), NEW k \in 0..(c.n - 1)
               PROVE  \E v \in W : v.element = <<r, k>>
    BY DEF Output
  <2> DEFINE index == r * c.n + k
  <2>1. r \in Nat /\ k \in Nat /\ c.n \in Nat \ {0} /\ r < c.m /\ k < c.n
    BY <1>1
  <2>2. index \in Nat /\ index < c.m * c.n
    BY <1>1, <2>1, TwoDigits
  <2>3. index \div c.n = r /\ index % c.n = k
    BY <2>1, DivisionIs
  <2> HIDE DEF index
  <2>4. index \in 0..(c.m * c.n - 1)
    BY <1>1, <2>2
  <2>5. PICK b \in Bs, x \in 0..(E - 1) : index = At(b, x)
    BY <1>1, <2>4, DigitsCover
  <2>6. Write(b, x) \in W
    BY <1>6, <2>1, <2>3, <2>5
  <2>7. Write(b, x).element = <<r, k>>
    BY <2>3, <2>5
  <2> QED BY <2>6, <2>7
<1>11. \A u, v \in W : u.element = v.element => u = v
  <2> SUFFICES ASSUME NEW u \in W, NEW v \in W, u.element = v.element
               PROVE  u = v
    OBVIOUS
  <2>1. PICK b \in Bs, x \in 0..(E - 1) : u = Write(b, x)
    BY <1>5
  <2>2. PICK a \in Bs, y \in 0..(E - 1) : v = Write(a, y)
    BY <1>5
  <2>3. /\ At(b, x) \in Nat /\ At(a, y) \in Nat /\ c.n \in Nat \ {0}
        /\ b \in Nat /\ a \in Nat
    BY <1>1, <1>7, <1>8
  <2>4. At(b, x) \div c.n = At(a, y) \div c.n /\ At(b, x) % c.n = At(a, y) % c.n
    BY <2>1, <2>2
  <2>5. At(b, x) = At(a, y)
    <3> HIDE DEF At
    <3>1. /\ At(b, x) = c.n * (At(b, x) \div c.n) + (At(b, x) % c.n)
          /\ At(a, y) = c.n * (At(a, y) \div c.n) + (At(a, y) % c.n)
      BY <2>3, Division
    <3> QED BY <2>4, <3>1
  <2>6. b = a /\ x = y
    BY <1>1, <2>3, <2>5, TwoDigits
  <2> QED BY <2>1, <2>2, <2>6
<1>12. WritesEachOnce(c, W)
  BY <1>9, <1>10, <1>11, WrittenOnce
<1> QED BY <1>12 DEF W

\* Whatever kernel a shape and layout choose.
LEMMA KernelsWriteOnce ==
    ASSUME NEW c, ShapeOK(c), c.m * c.n < CountWidth
    PROVE  WritesEachOnce(c, MatmulWrites(c, MatmulKernel(c)))
<1> DEFINE kernel == MatmulKernel(c)
<1>1. kernel \in {"pipelined", "tensor", "single", "rows", "tile", "element"}
  BY DEF MatmulKernel, SplitKernel
<1>2. {PipelineRows, TensorRows, TensorColumns, WarpColumns, 1} \subseteq Nat \ {0}
  BY MatmulConstantsOK
<1> HIDE DEF kernel
<1>3. CASE kernel = "pipelined"
  <2>1. MatmulWrites(c, kernel) = CutBlocks(c, TensorColumns, PipelineRows)
    BY <1>3 DEF MatmulWrites, CutBlocks
  <2> QED BY <1>2, <2>1, BlocksWriteOnce DEF kernel
<1>4. CASE kernel = "tensor"
  <2>1. MatmulWrites(c, kernel) = CutBlocks(c, TensorColumns, TensorRows)
    BY <1>4 DEF MatmulWrites, CutBlocks
  <2> QED BY <1>2, <2>1, BlocksWriteOnce DEF kernel
<1>5. CASE kernel = "single"
  <2>1. MatmulWrites(c, kernel) = CutBlocks(c, WarpColumns, 1)
    BY <1>5 DEF MatmulWrites, CutBlocks, SingleWrites
  <2> QED BY <1>2, <2>1, BlocksWriteOnce DEF kernel
<1>6. CASE kernel = "rows"
  <2>1. MatmulWrites(c, kernel) = CutGroups(c, RowsWrites(c))
    BY <1>6 DEF MatmulWrites, CutGroups
  <2> QED BY <2>1, RowsWriteOnce DEF kernel
<1>7. CASE kernel = "tile"
  <2>1. MatmulWrites(c, kernel) = CutGroups(c, TileWrites(c))
    BY <1>7 DEF MatmulWrites, CutGroups
  <2> QED BY <2>1, TilesWriteOnce DEF kernel
<1>8. CASE kernel = "element"
  <2>1. MatmulWrites(c, kernel) = CutElements(c)
    BY <1>8 DEF MatmulWrites, CutElements
  <2> QED BY <2>1, ElementsWriteOnce DEF kernel
<1> QED BY <1>1, <1>3, <1>4, <1>5, <1>6, <1>7, <1>8

----------------------------------------------------------------------------
(* Matmuls.                                                                *)

\* The split-K kernels, unrolled by any numbers or staged in tiles of any
\* size, have a slice add its own inners, each once, in ascending order: the
\* order in which floats are added does not depend on the number of rows.
THEOREM OneOrder == KernelsSpec => []SplitKernelsAddInOneOrder
<1>1. ASSUME Chosen
      PROVE  SplitKernelsAddInOneOrder
  <2> SUFFICES ASSUME call.kernel = "matmul",
                      NEW slice \in 0..(SplitK - 1), NEW kernel \in {"single", "rows", "tile"}
               PROVE  Lists(SliceInners(kernel, slice, call.of.k),
                            {i \in 0..(call.of.k - 1) : i % SplitK = slice})
    BY DEF SplitKernelsAddInOneOrder
  <2>1. call.of.k \in Nat
    BY <1>1, ChosenArguments, CallsOK
  <2> QED BY <2>1, SlicesList
<1> QED BY <1>1, AlwaysChosen, PTL


\* For any shape, layout and format, and whatever the sizes of blocks, groups
\* and tiles, the threads of the kernel that is chosen write every element of
\* the output and none of them twice.
THEOREM WrittenByOne == KernelsSpec => []EachElementIsWrittenOnce
<1>1. ASSUME Chosen
      PROVE  EachElementIsWrittenOnce
  <2> DEFINE c == call.of
             W == MatmulWrites(c, MatmulKernel(c))
  <2> SUFFICES ASSUME call.kernel = "matmul", c.m * c.n < CountWidth
               PROVE  /\ {v.element : v \in W} = (0..(c.m - 1)) \X (0..(c.n - 1))
                      /\ Cardinality(W) = c.m * c.n
    BY DEF EachElementIsWrittenOnce
  <2>1. ShapeOK(c)
    BY <1>1, ChosenArguments, CallsOK DEF ShapeOK
  <2> HIDE DEF c
  <2>2. WritesEachOnce(c, W)
    BY <2>1, KernelsWriteOnce
  <2> HIDE DEF W
  <2> QED BY <2>2 DEF WritesEachOnce, Output
<1> QED BY <1>1, AlwaysChosen, PTL

\* gated_matmul takes for both its products the arithmetic of a matmul of
\* each, for every shape, layout and format, one compact weight of a long
\* input excepted: its choice of a kernel and matmul_with_addend's agree.
THEOREM FusedAgrees == KernelsSpec => []FusedAgreesWithSeparate
<1>1. ASSUME Chosen
      PROVE  FusedAgreesWithSeparate
  <2> DEFINE g == call.of
             gate == Product(g, g.gateCompact)
             up == Product(g, g.upCompact)
             tensor == LongCompact(gate) /\ LongCompact(up)
             fused == IF tensor /\ Aligned(gate) THEN "pipelined"
                      ELSE IF tensor /\ InnersAdjacent(gate) THEN "tensor"
                      ELSE SplitKernel(g.m)
  <2> SUFFICES ASSUME call.kernel = "gated", LongCompact(gate) = LongCompact(up)
               PROVE  GatedArithmetic(g) =
                        <<Arithmetic(gate, MatmulKernel(gate)), Arithmetic(up, MatmulKernel(up))>>
    BY DEF FusedAgreesWithSeparate
  <2>1. CASE Separate(g)
    BY <2>1 DEF GatedArithmetic
  <2>2. CASE ~Separate(g)
    <3>1. ~g.transposeB /\ g.m <= MaxGridRows
      <4>1. g.m \in Nat /\ MaxGridRows \in Nat
        BY <1>1, ChosenArguments, CallsOK, MatmulConstantsOK
      <4> QED BY <2>2, <4>1 DEF Separate
    <3>2. /\ gate.m = g.m /\ gate.n = g.n /\ ~gate.transposeB
          /\ up.m = g.m /\ up.n = g.n /\ ~up.transposeB
      BY <3>1 DEF Product
    <3>3. Aligned(gate) = Aligned(up) /\ InnersAdjacent(gate) = InnersAdjacent(up)
      BY DEF Product, Aligned, InnersAdjacent
    <3>4. ASSUME NEW p, p.m = g.m, p.n = g.n, ~p.transposeB
          PROVE  MatmulKernel(p) =
                   IF LongCompact(p) /\ Aligned(p) THEN "pipelined"
                   ELSE IF LongCompact(p) /\ InnersAdjacent(p) THEN "tensor"
                   ELSE SplitKernel(g.m)
      BY <3>1, <3>4 DEF MatmulKernel, ColumnsAdjacent, InnerStrideOfB
    <3> HIDE DEF gate, up
    <3>5. MatmulKernel(gate) = fused /\ MatmulKernel(up) = fused
      BY <3>2, <3>3, <3>4
    <3>6. GatedArithmetic(g) = <<Arithmetic(gate, fused), Arithmetic(up, fused)>>
      BY <2>2 DEF GatedArithmetic, gate, up
    <3> QED BY <3>5, <3>6
  <2> QED BY <2>1, <2>2
<1> QED BY <1>1, AlwaysChosen, PTL

----------------------------------------------------------------------------
(* Attention.                                                              *)

\* An attention that the checks accept.
AttentionOK(c) ==
    /\ c.seq \in Nat /\ c.rows \in Nat /\ c.keys \in Nat
    /\ c.heads \in Nat \ {0} /\ c.kvHeads \in Nat \ {0} /\ c.dim \in Nat \ {0}
    /\ c.causal \in BOOLEAN
    /\ c.window # NoWindow => c.window \in Nat \ {0} /\ c.causal
    /\ c.keys <= c.rows /\ c.seq <= c.keys
    /\ c.heads % c.kvHeads = 0

LEMMA AcceptedIsOK ==
    ASSUME Chosen, NEW kernels, IsAttention(kernels)
    PROVE  AttentionOK(call.of)
<1>1. call.of \in AttentionCalls /\ Accepted(call.of)
  BY ChosenArguments DEF IsAttention
<1> DEFINE c == call.of
<1>2. /\ c.seq \in Nat /\ c.rows \in Nat /\ c.keys \in Nat
      /\ c.heads \in Nat /\ c.kvHeads \in Nat /\ c.dim \in Nat
      /\ c.window \in Nat \cup {NoWindow} /\ c.causal \in BOOLEAN
  BY <1>1, CallsOK
<1> HIDE DEF c
<1>3. Accepted(c)
  BY <1>1 DEF c
<1> QED BY <1>2, <1>3 DEF Accepted, AttentionOK, c

\* The keys a query scores are those before an upper bound that no replay
\* brings past the rows there are, or past the scores a block has room for.
LEMMA Bounds ==
    ASSUME NEW c, AttentionOK(c), NEW query \in 0..(c.seq - 1), NEW o \in 0..MaxOffset(c)
    PROVE  /\ o \in Nat
           /\ Position(c, query, o) \in Nat
           /\ Position(c, query, o) < c.keys + o
           /\ KeyUpper(c, query, o) = IF c.causal THEN Position(c, query, o) + 1 ELSE c.keys + o
           /\ KeyUpper(c, query, o) \in Nat
           /\ KeyUpper(c, query, o) <= c.keys + o
           /\ c.keys + o <= ScoreRows(c)
           /\ ScoreRows(c) <= c.rows
<1>1. /\ c.seq \in Nat /\ c.rows \in Nat /\ c.keys \in Nat
      /\ c.keys <= c.rows /\ c.seq <= c.keys /\ c.causal \in BOOLEAN
  BY DEF AttentionOK
<1>2. o \in Nat /\ c.keys + o <= ScoreRows(c) /\ ScoreRows(c) <= c.rows
  BY <1>1 DEF MaxOffset, ScoreRows
<1>3. Position(c, query, o) \in Nat /\ Position(c, query, o) < c.keys + o
  BY <1>1, <1>2 DEF Position
<1>4. KeyUpper(c, query, o) = IF c.causal THEN Position(c, query, o) + 1 ELSE c.keys + o
  BY DEF KeyUpper
<1> QED BY <1>1, <1>2, <1>3, <1>4

LEMMA LowerBound ==
    ASSUME NEW c, AttentionOK(c), NEW query \in 0..(c.seq - 1), NEW o \in 0..MaxOffset(c)
    PROVE  /\ KeyLower(c, query, o) \in Nat
           /\ KeyLower(c, query, o) <= KeyUpper(c, query, o)
           /\ c.window = NoWindow => KeyLower(c, query, o) = 0
           /\ c.window # NoWindow =>
                \A key \in Nat : key >= KeyLower(c, query, o) <=>
                                   Position(c, query, o) - key < c.window
<1> DEFINE p == Position(c, query, o)
           u == KeyUpper(c, query, o)
<1>1. p \in Nat /\ u \in Nat /\ (c.causal => u = p + 1)
  BY Bounds
<1> HIDE DEF p, u
<1>2. CASE c.window = NoWindow
  BY <1>1, <1>2 DEF KeyLower, u
<1>3. CASE c.window # NoWindow
  <2>1. c.window \in Nat \ {0} /\ u = p + 1
    BY <1>1, <1>3 DEF AttentionOK
  <2>2. BackTo(c, p) = IF p > c.window - 1 THEN p - (c.window - 1) ELSE 0
    BY DEF BackTo, Back
  <2>3. KeyLower(c, query, o) = IF BackTo(c, p) > u THEN u ELSE BackTo(c, p)
    BY <1>3 DEF KeyLower, p, u
  <2>4. KeyLower(c, query, o) = BackTo(c, p) /\ BackTo(c, p) \in Nat
    BY <1>1, <2>1, <2>2, <2>3
  <2> QED BY <1>1, <1>3, <2>1, <2>2, <2>4 DEF p, u
<1> QED BY <1>2, <1>3

\* The keys a query attends to are a range.
LEMMA AttendedRange ==
    ASSUME NEW c, AttentionOK(c), NEW query \in 0..(c.seq - 1), NEW o \in 0..MaxOffset(c)
    PROVE  Attended(c, Position(c, query, o), c.keys + o) =
             KeyLower(c, query, o)..(KeyUpper(c, query, o) - 1)
<1> DEFINE p == Position(c, query, o)
           l == KeyLower(c, query, o)
           u == KeyUpper(c, query, o)
           n == c.keys + o
<1>1. /\ p \in Nat /\ u \in Nat /\ p < n /\ n \in Nat
      /\ u = IF c.causal THEN p + 1 ELSE n
  BY Bounds DEF AttentionOK
<1>2. /\ l \in Nat /\ l <= u
      /\ c.window = NoWindow => l = 0
      /\ c.window # NoWindow => \A key \in Nat : key >= l <=> p - key < c.window
  BY LowerBound
<1>3. c.causal \in BOOLEAN
  BY DEF AttentionOK
<1>4. Attended(c, p, n) = {key \in 0..(n - 1) : (c.causal => key <= p)
                                                 /\ (c.window # NoWindow => p - key < c.window)}
  BY DEF Attended
<1> HIDE DEF p, l, u, n
<1>5. ASSUME NEW key \in Nat
      PROVE  key \in Attended(c, p, n) <=> key >= l /\ key < u
  <2>1. key <= n - 1 /\ (c.causal => key <= p) <=> key < u
    BY <1>1, <1>3
  <2>2. (c.window # NoWindow => p - key < c.window) <=> key >= l
    BY <1>2
  <2> QED BY <1>1, <1>4, <2>1, <2>2
<1>6. Attended(c, p, n) \subseteq Nat
  BY <1>1, <1>4
<1>7. Attended(c, p, n) = l..(u - 1)
  <2>1. l..(u - 1) \subseteq Nat
    BY <1>1, <1>2
  <2>2. ASSUME NEW key \in Nat
        PROVE  key \in l..(u - 1) <=> key >= l /\ key < u
    BY <1>1, <1>2
  <2>3. ASSUME NEW key
        PROVE  key \in Attended(c, p, n) <=> key \in l..(u - 1)
    BY <1>5, <1>6, <2>1, <2>2
  <2> HIDE DEF Attended
  <2> QED BY <2>3
<1> QED BY <1>7 DEF p, l, u, n

\* The shared memory a block of attention_f32_kernel is launched with holds
\* the scores of every query, in the step that was captured and in every
\* replay of it.
THEOREM ScoresFit == KernelsSpec => []ScoresFitTheirBlock
<1>1. ASSUME Chosen
      PROVE  ScoresFitTheirBlock
  <2> SUFFICES ASSUME IsAttention({"block"}),
                      NEW query \in 0..(call.of.seq - 1), NEW o \in 0..MaxOffset(call.of)
               PROVE  Len(RangeOfKeys(call.of, query, o)) <= ScoreRows(call.of)
    BY DEF ScoresFitTheirBlock
  <2> DEFINE c == call.of
             l == KeyLower(c, query, o)
             u == KeyUpper(c, query, o)
  <2>1. AttentionOK(c)
    BY <1>1, AcceptedIsOK
  <2>2. u \in Nat /\ o \in Nat /\ u <= c.keys + o /\ c.keys + o <= ScoreRows(c)
        /\ c.keys \in Nat /\ ScoreRows(c) \in Nat
    BY <2>1, Bounds DEF AttentionOK, ScoreRows
  <2>3. l \in Nat /\ l <= u
    BY <2>1, LowerBound
  <2>4. RangeOfKeys(c, query, o) = [i \in 1..(u - l) |-> l + i - 1]
    BY DEF RangeOfKeys, From
  <2> HIDE DEF c, l, u
  <2>5. RangeOfKeys(c, query, o) \in Seq(Int) /\ Len(RangeOfKeys(c, query, o)) = u - l
    BY <2>2, <2>3, <2>4
  <2>6. u - l <= ScoreRows(c)
    BY <2>2, <2>3
  <2> QED BY <2>5, <2>6 DEF c
<1> QED BY <1>1, AlwaysChosen, PTL

----------------------------------------------------------------------------
(* The keys a query scores.                                                *)

\* A tile's bounds are no narrower than those of any query in it.
LEMMA TileBounds ==
    ASSUME NEW c, AttentionOK(c), NEW query \in 0..(c.seq - 1)
    PROVE  /\ TileLower(c, query) \in Nat /\ TileUpper(c, query) \in Nat
           /\ TileLower(c, query) <= KeyLower(c, query, 0)
           /\ KeyUpper(c, query, 0) <= TileUpper(c, query)
<1> DEFINE first == TileFirst(query)
           last == first + TileQueries - 1
           bound == IF last >= c.seq THEN c.seq - 1 ELSE last
<1>1. /\ c.seq \in Nat /\ c.keys \in Nat /\ c.rows \in Nat /\ c.causal \in BOOLEAN
      /\ c.seq <= c.keys /\ c.keys <= c.rows /\ query \in Nat
      /\ 0 \in 0..MaxOffset(c)
  BY DEF AttentionOK, MaxOffset
<1>2. first \in Nat /\ first <= query /\ query <= last
  <2>1. TileQueries \in Nat \ {0}
    BY AttentionConstantsOK
  <2>2. query \div TileQueries \in Nat
        /\ query = TileQueries * (query \div TileQueries) + (query % TileQueries)
    BY <1>1, <2>1, QuotientNat, Division
  <2>3. query % TileQueries \in 0..(TileQueries - 1)
    BY <1>1, <2>1
  <2>4. first \in Nat /\ first = TileQueries * (query \div TileQueries)
    BY <2>1, <2>2 DEF TileFirst
  <2> HIDE DEF first
  <2> QED BY <1>1, <2>1, <2>2, <2>3, <2>4
<1>3. last \in Nat
  BY <1>1, <1>2, AttentionConstantsOK
<1>4. TileUpper(c, query) = KeyUpper(c, bound, 0)
  BY DEF TileUpper
<1>5. TileLower(c, query) = IF c.window = NoWindow THEN 0 ELSE BackTo(c, Position(c, first, 0))
  BY DEF TileLower
<1> HIDE DEF first, last
<1>6. bound \in 0..(c.seq - 1) /\ query <= bound
  BY <1>1, <1>2, <1>3
<1> HIDE DEF bound
<1>7. /\ KeyUpper(c, bound, 0) = IF c.causal THEN Position(c, bound, 0) + 1 ELSE c.keys + 0
      /\ KeyUpper(c, query, 0) = IF c.causal THEN Position(c, query, 0) + 1 ELSE c.keys + 0
      /\ KeyUpper(c, bound, 0) \in Nat /\ KeyUpper(c, query, 0) \in Nat
      /\ Position(c, query, 0) \in Nat
  BY <1>1, <1>6, Bounds
<1>8. /\ Position(c, bound, 0) = c.keys - c.seq + bound + 0
      /\ Position(c, query, 0) = c.keys - c.seq + query + 0
      /\ Position(c, first, 0) = c.keys - c.seq + first + 0
  BY DEF Position
<1>9. KeyUpper(c, query, 0) <= TileUpper(c, query) /\ TileUpper(c, query) \in Nat
  BY <1>1, <1>4, <1>6, <1>7, <1>8
<1>10. TileLower(c, query) <= KeyLower(c, query, 0) /\ TileLower(c, query) \in Nat
  <2> DEFINE l == KeyLower(c, query, 0)
             p == Position(c, query, 0)
             f == Position(c, first, 0)
  <2>1. /\ l \in Nat
        /\ c.window # NoWindow => \A key \in Nat : key >= l <=> p - key < c.window
    BY <1>1, LowerBound
  <2>2. f \in Nat /\ f <= p /\ p \in Nat
    BY <1>1, <1>2, <1>7, <1>8
  <2>3. BackTo(c, f) = IF f > c.window - 1 THEN f - (c.window - 1) ELSE 0
    BY DEF BackTo, Back
  <2> HIDE DEF l, p, f
  <2>4. CASE c.window = NoWindow
    BY <1>5, <2>1, <2>4 DEF l
  <2>5. CASE c.window # NoWindow
    <3>1. c.window \in Nat \ {0}
      BY <2>5 DEF AttentionOK
    <3>2. p - l < c.window
      BY <2>1, <2>5
    <3>3. BackTo(c, f) \in Nat /\ BackTo(c, f) <= l
      BY <2>1, <2>2, <2>3, <3>1, <3>2
    <3> QED BY <1>5, <2>5, <3>3 DEF l, f
  <2> QED BY <2>4, <2>5
<1> QED BY <1>9, <1>10

\* The admitted keys of a..b - 1.
AdmittedOf(c, query, a, b) == {key \in a..(b - 1) : Admits(c, query, key)}

\* A query looks at every key of a tile, and scores those it admits.
LEMMA TileListsKeys ==
    ASSUME NEW c, NEW query, NEW tile \in Nat, TileEndKey(c, query, tile) \in Nat
    PROVE  /\ KeysOfTile(c, query, tile) \in Seq(Nat)
           /\ Lists(KeysOfTile(c, query, tile),
                    AdmittedOf(c, query, tile, TileEndKey(c, query, tile)))
<1> DEFINE end == TileEndKey(c, query, tile)
           h == [key \in Nat |-> IF Admits(c, query, key) THEN <<key>> ELSE <<>>]
           r == [key \in Nat |-> <<>>]
           A == [key \in Nat |-> AdmittedOf(c, query, key, end)]
           B == [key \in Nat |-> IF Admits(c, query, key) THEN {key} ELSE {}]
           Is(f) == f = [key \in Nat |->
                           IF key < end
                           THEN (IF Admits(c, query, key) THEN <<key>> ELSE <<>>) \o f[key + 1]
                           ELSE <<>>]
<1>1. end \in Nat
  OBVIOUS
<1>2. KeysOfTile(c, query, tile) = (CHOOSE f : Is(f))[tile]
  BY DEF KeysOfTile
<1> HIDE DEF end
<1>3. \A key \in Nat : A[key] \in SUBSET (0..end)
  BY <1>1 DEF AdmittedOf
<1>4. ASSUME NEW key \in Nat, key < end
      PROVE  /\ h[key] \in Seq(Nat) /\ Lists(h[key], B[key])
             /\ A[key] = B[key] \cup A[key + 1]
             /\ \A x \in B[key], y \in A[key + 1] : x < y
  <2>1. h[key] \in Seq(Nat) /\ Lists(h[key], B[key])
    <3>1. CASE Admits(c, query, key)
      BY <3>1, ListOfOne
    <3>2. CASE ~Admits(c, query, key)
      BY <3>2, EmptyList
    <3> QED BY <3>1, <3>2
  <2>2. key..(end - 1) = {key} \cup (key + 1)..(end - 1)
    BY <1>1, <1>4
  <2>3. A[key] = B[key] \cup A[key + 1]
    BY <2>2 DEF AdmittedOf
  <2>4. \A x \in B[key], y \in A[key + 1] : x < y
    BY <1>1 DEF AdmittedOf
  <2> QED BY <2>1, <2>3, <2>4
<1>5. ASSUME NEW key \in Nat, ~(key < end)
      PROVE  r[key] \in Seq(Nat) /\ Lists(r[key], A[key])
  <2>1. A[key] = {}
    BY <1>1, <1>5 DEF AdmittedOf
  <2> QED BY <2>1, EmptyList
<1>6. \A f : Is(f) <=> Loop(f, end, 1, h, r)
  <2>1. ASSUME NEW f
        PROVE  [key \in Nat |-> IF key < end
                    THEN (IF Admits(c, query, key) THEN <<key>> ELSE <<>>) \o f[key + 1]
                    ELSE <<>>]
                 = [key \in Nat |-> IF key < end THEN h[key] \o f[key + 1] ELSE r[key]]
    OBVIOUS
  <2> HIDE DEF h, r
  <2> QED BY <2>1 DEF Loop
<1>7. A[tile] = AdmittedOf(c, query, tile, end)
  OBVIOUS
<1> HIDE DEF h, r, A, B
<1>8. /\ \E f : Loop(f, end, 1, h, r)
      /\ \A f : Loop(f, end, 1, h, r) =>
            \A key \in Nat : f[key] \in Seq(Nat) /\ Lists(f[key], A[key])
  <2>1. end \in Int /\ 1 \in Nat \ {0}
    BY <1>1
  <2> QED BY <1>1, <1>3, <1>4, <1>5, <2>1, LoopLists
<1> DEFINE g == CHOOSE f : Is(f)
<1> HIDE DEF Is
<1>9. Is(g)
  BY <1>6, <1>8
<1>10. KeysOfTile(c, query, tile) = g[tile]
  BY <1>2
<1> HIDE DEF g
<1> QED BY <1>6, <1>7, <1>8, <1>9, <1>10 DEF end

LEMMA TilesListKeys ==
    ASSUME NEW c, AttentionOK(c), NEW query \in 0..(c.seq - 1), c.dim \in DOMAIN TiledDims
    PROVE  /\ TiledKeys(c, query) \in Seq(Nat)
           /\ Lists(TiledKeys(c, query), KeyLower(c, query, 0)..(KeyUpper(c, query, 0) - 1))
<1> DEFINE width == TiledDims[c.dim]
           lower == TileLower(c, query)
           upper == TileUpper(c, query)
           End(tile) == TileEndKey(c, query, tile)
           h == [tile \in Nat |-> KeysOfTile(c, query, tile)]
           r == [tile \in Nat |-> <<>>]
           A == [tile \in Nat |-> AdmittedOf(c, query, tile, upper)]
           B == [tile \in Nat |-> AdmittedOf(c, query, tile, End(tile))]
           Is(f) == f = [tile \in Nat |->
                           IF tile < upper
                           THEN KeysOfTile(c, query, tile) \o f[tile + width]
                           ELSE <<>>]
<1>1. /\ width \in Nat \ {0} /\ lower \in Nat /\ upper \in Nat
      /\ lower <= KeyLower(c, query, 0) /\ KeyUpper(c, query, 0) <= upper
  BY AttentionConstantsOK, TileBounds
<1>2. TiledKeys(c, query) = (CHOOSE f : Is(f))[lower]
  BY DEF TiledKeys
<1>3. \A tile \in Nat : End(tile) = IF upper - tile < width THEN upper ELSE tile + width
  BY DEF TileEndKey
<1> HIDE DEF width, lower, upper, End
<1>4. \A tile \in Nat : A[tile] \in SUBSET (0..upper)
  BY <1>1 DEF AdmittedOf
<1>5. ASSUME NEW tile \in Nat, tile < upper
      PROVE  /\ h[tile] \in Seq(Nat) /\ Lists(h[tile], B[tile])
             /\ A[tile] = B[tile] \cup A[tile + width]
             /\ \A x \in B[tile], y \in A[tile + width] : x < y
  <2>1. End(tile) \in Nat
    BY <1>1, <1>3
  <2>2. h[tile] \in Seq(Nat) /\ Lists(h[tile], B[tile])
    BY <2>1, TileListsKeys DEF End
  <2>3. tile + width \in Nat
    BY <1>1
  <2>4. /\ tile..(upper - 1) = tile..(End(tile) - 1) \cup (tile + width)..(upper - 1)
        /\ \A x \in tile..(End(tile) - 1), y \in (tile + width)..(upper - 1) : x < y
    <3>1. CASE upper - tile < width
      BY <1>1, <1>3, <3>1
    <3>2. CASE ~(upper - tile < width)
      BY <1>1, <1>3, <3>2
    <3> QED BY <3>1, <3>2
  <2>5. A[tile] = B[tile] \cup A[tile + width]
    BY <2>3, <2>4 DEF AdmittedOf
  <2>6. \A x \in B[tile], y \in A[tile + width] : x < y
    BY <2>3, <2>4 DEF AdmittedOf
  <2> QED BY <2>2, <2>5, <2>6
<1>6. ASSUME NEW tile \in Nat, ~(tile < upper)
      PROVE  r[tile] \in Seq(Nat) /\ Lists(r[tile], A[tile])
  <2>1. A[tile] = {}
    BY <1>1, <1>6 DEF AdmittedOf
  <2> QED BY <2>1, EmptyList
<1>7. \A f : Is(f) <=> Loop(f, upper, width, h, r)
  <2>1. ASSUME NEW f
        PROVE  [tile \in Nat |-> IF tile < upper
                    THEN KeysOfTile(c, query, tile) \o f[tile + width] ELSE <<>>]
                 = [tile \in Nat |-> IF tile < upper THEN h[tile] \o f[tile + width] ELSE r[tile]]
    OBVIOUS
  <2> HIDE DEF h, r
  <2> QED BY <2>1 DEF Loop
<1>8. A[lower] = KeyLower(c, query, 0)..(KeyUpper(c, query, 0) - 1)
  <2> DEFINE l == KeyLower(c, query, 0)
             u == KeyUpper(c, query, 0)
  <2>1. A[lower] = {key \in lower..(upper - 1) : key >= l /\ key < u}
    BY <1>1 DEF AdmittedOf, Admits
  <2>2. l \in Nat /\ u \in Nat /\ lower <= l /\ u <= upper
    <3>1. 0 \in 0..MaxOffset(c)
      BY DEF AttentionOK, MaxOffset
    <3> QED BY <1>1, <3>1, Bounds, LowerBound
  <2> HIDE DEF l, u, A
  <2>3. {key \in lower..(upper - 1) : key >= l /\ key < u} = l..(u - 1)
    BY <1>1, <2>2
  <2> QED BY <2>1, <2>3 DEF l, u
<1> HIDE DEF h, r, A, B
<1>9. /\ \E f : Loop(f, upper, width, h, r)
      /\ \A f : Loop(f, upper, width, h, r) =>
            \A tile \in Nat : f[tile] \in Seq(Nat) /\ Lists(f[tile], A[tile])
  <2>1. upper \in Int /\ upper \in Nat /\ width \in Nat \ {0}
    BY <1>1
  <2> QED BY <1>4, <1>5, <1>6, <2>1, LoopLists
<1> DEFINE g == CHOOSE f : Is(f)
<1> HIDE DEF Is
<1>10. Is(g)
  BY <1>7, <1>9
<1>11. TiledKeys(c, query) = g[lower]
  BY <1>2
<1> HIDE DEF g
<1> QED BY <1>1, <1>7, <1>8, <1>9, <1>10, <1>11

\* For a prefill of any length, window and head width, whatever the sizes of
\* the tiles of queries and of keys, a query scores the keys it attends to,
\* each once and in ascending order, as it does block by block or thread by
\* thread: the tile's bounds are no narrower than the query's.
THEOREM ScoresItsKeys == KernelsSpec => []QueriesScoreWhatTheyAttendTo
<1>1. ASSUME Chosen
      PROVE  QueriesScoreWhatTheyAttendTo
  <2> DEFINE c == call.of
  <2> SUFFICES ASSUME IsAttention({"tiled", "block", "thread"}),
                      NEW query \in 0..(c.seq - 1), NEW o \in 0..MaxOffset(c)
               PROVE  Lists(IF AttentionKernel(c) = "tiled" THEN TiledKeys(c, query)
                            ELSE RangeOfKeys(c, query, o),
                            Attended(c, Position(c, query, o), c.keys + o))
    BY DEF QueriesScoreWhatTheyAttendTo
  <2> DEFINE l == KeyLower(c, query, o)
             u == KeyUpper(c, query, o)
  <2>1. AttentionOK(c)
    BY <1>1, AcceptedIsOK
  <2>2. Attended(c, Position(c, query, o), c.keys + o) = l..(u - 1)
    BY <2>1, AttendedRange
  <2>3. l \in Nat /\ u \in Nat /\ l <= u
    BY <2>1, Bounds, LowerBound
  <2>4. CASE AttentionKernel(c) = "tiled"
    <3>1. Tiles(c)
      BY <2>4 DEF AttentionKernel, WithoutBlock
    <3>2. o = 0 /\ c.dim \in DOMAIN TiledDims
      BY <3>1 DEF Tiles, MaxOffset, Advances
    <3>3. Lists(TiledKeys(c, query), l..(u - 1))
      BY <2>1, <3>2, TilesListKeys
    <3> QED BY <2>2, <2>4, <3>3
  <2>5. CASE AttentionKernel(c) # "tiled"
    <3>1. RangeOfKeys(c, query, o) = From(l, u - l)
      BY DEF RangeOfKeys
    <3>2. u - l \in Nat /\ l + (u - l) - 1 = u - 1
      BY <2>3
    <3>3. Lists(From(l, u - l), l..(l + (u - l) - 1))
      BY <2>3, <3>2, FromLists
    <3> QED BY <2>2, <2>5, <3>1, <3>2, <3>3
  <2> QED BY <2>4, <2>5
<1> QED BY <1>1, AlwaysChosen, PTL

----------------------------------------------------------------------------
(* Decode steps.                                                           *)

\* A chunk has keys, and there are chunks for all rows.
LEMMA ChunkShape ==
    ASSUME NEW c, AttentionOK(c)
    PROVE  /\ KeysPerChunk(c) \in Nat \ {0}
           /\ ChunkCount(c) \in Nat \ {0}
           /\ c.rows <= ChunkCount(c) * KeysPerChunk(c)
<1> DEFINE k == KeysPerChunk(c)
           n == (c.rows + k - 1) \div k
<1>1. k \in Nat \ {0}
  BY AttentionConstantsOK DEF KeysPerChunk, Grouped
<1>2. c.rows \in Nat
  BY DEF AttentionOK
<1> HIDE DEF k
<1>3. n \in Nat /\ c.rows <= n * k
  BY <1>1, <1>2, ChunksCover
<1>4. ChunkCount(c) = IF n > 1 THEN n ELSE 1
  BY DEF ChunkCount, k
<1> HIDE DEF n
<1>5. CASE n > 1
  BY <1>1, <1>3, <1>4, <1>5 DEF k
<1>6. CASE ~(n > 1)
  <2>1. ChunkCount(c) = 1 /\ n \in {0, 1}
    BY <1>3, <1>4, <1>6
  <2>2. n * k <= k
    BY <1>1, <2>1
  <2>3. c.rows <= k
    BY <1>1, <1>2, <1>3, <2>2
  <2> QED BY <1>1, <2>1, <2>3 DEF k
<1> QED BY <1>5, <1>6

\* A decode step's chunks, as many as the step it was captured in launched,
\* hold every key a replay of it may admit, each in one chunk, and none
\* beyond the rows of K: for any lengths, windows and head shapes.
THEOREM KeysInChunks == KernelsSpec => []EveryKeyHasOneChunk
<1>1. ASSUME Chosen
      PROVE  EveryKeyHasOneChunk
  <2> DEFINE c == call.of
             chunks == 0..(ChunkCount(c) - 1)
  <2> SUFFICES
        ASSUME IsAttention({"split"}), NEW o \in 0..MaxOffset(c)
        PROVE  /\ UNION {ChunkOfKeys(c, chunk, o) : chunk \in chunks}
                    = Attended(c, c.keys - 1 + o, c.keys + o)
               /\ \A a, b \in chunks :
                    a # b => ChunkOfKeys(c, a, o) \cap ChunkOfKeys(c, b, o) = {}
               /\ \A chunk \in chunks : ChunkOfKeys(c, chunk, o) \subseteq 0..(c.rows - 1)
    BY DEF EveryKeyHasOneChunk
  <2>1. AttentionOK(c) /\ c.seq = 1
    BY <1>1, AcceptedIsOK DEF IsAttention, AttentionKernel, WithoutBlock
  <2> DEFINE k == KeysPerChunk(c)
             n == ChunkCount(c)
             l == KeyLower(c, 0, o)
             u == KeyUpper(c, 0, o)
             keys(chunk) == ChunkOfKeys(c, chunk, o)
  <2>2. k \in Nat \ {0} /\ n \in Nat \ {0} /\ c.rows <= n * k
    BY <2>1, ChunkShape
  <2>3. 0 \in 0..(c.seq - 1)
    BY <2>1
  <2>4. /\ u \in Nat /\ u <= c.rows /\ c.rows \in Nat
        /\ l \in Nat /\ l <= u
        /\ Position(c, 0, o) = c.keys - 1 + o
    <3>1. u \in Nat /\ l \in Nat /\ l <= u /\ o \in Nat
      BY <2>1, <2>3, Bounds, LowerBound
    <3>2. c.keys \in Nat /\ c.rows \in Nat /\ u <= c.keys + o /\ c.keys + o <= ScoreRows(c)
          /\ ScoreRows(c) <= c.rows
      BY <2>1, <2>3, Bounds DEF AttentionOK
    <3>3. ScoreRows(c) \in Nat
      BY <3>2 DEF ScoreRows
    <3> QED BY <2>1, <3>1, <3>2, <3>3 DEF Position
  <2>5. Attended(c, c.keys - 1 + o, c.keys + o) = l..(u - 1)
    BY <2>1, <2>3, <2>4, AttendedRange
  <2>6. ASSUME NEW chunk \in Nat, NEW key \in Int
        PROVE  key \in keys(chunk) <=> /\ key >= l + chunk * k
                                       /\ key < l + chunk * k + k
                                       /\ key < u
    <3>1. ChunkFirst(c, chunk, o) = l + chunk * k /\ chunk * k \in Nat
      BY <2>2 DEF ChunkFirst
    <3>2. ChunkLast(c, chunk, o) = IF l + chunk * k + k > u THEN u ELSE l + chunk * k + k
      BY <3>1 DEF ChunkLast
    <3>3. keys(chunk) = ChunkFirst(c, chunk, o)..(ChunkLast(c, chunk, o) - 1)
      BY DEF ChunkOfKeys
    <3> HIDE DEF k, l, u, keys
    <3> QED BY <2>2, <2>4, <3>1, <3>2, <3>3
  <2>7. \A chunk : keys(chunk) \subseteq Int
    BY DEF ChunkOfKeys
  <2>8. chunks \subseteq Nat
    BY <2>2
  <2> HIDE DEF k, l, u, keys, n
  <2>9. \A chunk \in chunks : keys(chunk) \subseteq l..(u - 1)
    <3>1. ASSUME NEW chunk \in Nat, NEW key \in keys(chunk)
          PROVE  key \in l..(u - 1)
      <4>1. key \in Int /\ chunk * k \in Nat
        BY <2>2, <2>7
      <4>2. key >= l + chunk * k /\ key < u
        BY <2>6, <4>1
      <4> QED BY <2>4, <4>1, <4>2
    <3> QED BY <2>8, <3>1
  <2>10. l..(u - 1) \subseteq UNION {keys(chunk) : chunk \in chunks}
    <3>1. ASSUME NEW key \in l..(u - 1)
          PROVE  \E chunk \in chunks : key \in keys(chunk)
      <4>1. key - l \in Nat /\ key \in Int /\ key < u
        BY <2>4
      <4>2. PICK chunk \in Nat, r \in Nat : key - l = k * chunk + r /\ r < k
        BY <2>2, <4>1, QuotientAndRest
      <4>3. chunk * k = k * chunk /\ chunk * k \in Nat
        BY <2>2, <4>2
      <4>4. key \in keys(chunk)
        BY <2>2, <2>4, <2>6, <4>1, <4>2, <4>3
      <4>5. chunk < n
        <5> SUFFICES ASSUME n <= chunk PROVE FALSE
          BY <2>2, <4>2
        <5>1. n * k <= chunk * k
          <6>1. CASE n = chunk
            BY <2>2, <6>1
          <6>2. CASE n < chunk
            <7>1. n * k + k <= chunk * k
              BY <2>2, <4>2, <6>2, NextMultiple
            <7>2. n * k \in Nat
              BY <2>2
            <7> QED BY <2>2, <4>3, <7>1, <7>2
          <6> QED BY <2>2, <4>2, <6>1, <6>2
        <5>2. key - l < c.rows
          BY <2>4, <4>1
        <5>3. n * k \in Nat
          BY <2>2
        <5> QED BY <2>2, <2>4, <4>1, <4>2, <4>3, <5>1, <5>2, <5>3
      <4> QED BY <2>2, <4>2, <4>4, <4>5 DEF n
    <3> QED BY <3>1
  <2>11. ASSUME NEW a \in Nat, NEW b \in Nat, a < b
         PROVE  keys(a) \cap keys(b) = {}
    <3> SUFFICES ASSUME NEW key \in keys(a), key \in keys(b)
                 PROVE  FALSE
      OBVIOUS
    <3>1. key \in Int /\ a * k \in Nat /\ b * k \in Nat
      BY <2>2, <2>7
    <3>2. key < l + a * k + k /\ key >= l + b * k
      BY <2>6, <3>1
    <3>3. a * k + k <= b * k
      BY <2>2, <2>11, NextMultiple
    <3> QED BY <2>2, <2>4, <3>1, <3>2, <3>3
  <2>12. \A a, b \in chunks : a # b => keys(a) \cap keys(b) = {}
    <3> SUFFICES ASSUME NEW a \in chunks, NEW b \in chunks, a # b
                 PROVE  keys(a) \cap keys(b) = {}
      OBVIOUS
    <3>1. a \in Nat /\ b \in Nat /\ (a < b \/ b < a)
      BY <2>8
    <3> QED BY <2>11, <3>1
  <2>13. l..(u - 1) \subseteq 0..(c.rows - 1)
    BY <2>4
  <2>14. UNION {keys(chunk) : chunk \in chunks} = l..(u - 1)
    BY <2>9, <2>10
  <2>15. \A chunk \in chunks : keys(chunk) \subseteq 0..(c.rows - 1)
    BY <2>9, <2>13
  <2> QED BY <2>5, <2>12, <2>14, <2>15 DEF keys
<1> QED BY <1>1, AlwaysChosen, PTL

\* Heads are numbered group by group.
LEMMA HeadsByGroup ==
    ASSUME NEW c, AttentionOK(c)
    PROVE  /\ Group(c) \in Nat \ {0}
           /\ c.heads = c.kvHeads * Group(c)
           /\ \A h \in 0..(c.heads - 1) :
                \E g \in 0..(Group(c) - 1) :
                    KvHead(c, h) \in 0..(c.kvHeads - 1) /\ h = KvHead(c, h) * Group(c) + g
<1> DEFINE G == Group(c)
           kv == c.kvHeads
<1>1. c.heads \in Nat \ {0} /\ kv \in Nat \ {0} /\ c.heads % kv = 0
  BY DEF AttentionOK
<1>2. G \in Nat /\ c.heads = kv * G
  <2>1. G = c.heads \div kv
    BY DEF Group
  <2> HIDE DEF G, kv
  <2>2. c.heads \div kv \in Nat /\ c.heads = kv * (c.heads \div kv) + (c.heads % kv)
    BY <1>1, QuotientNat, Division
  <2>3. kv * G \in Int
    BY <1>1, <2>1, <2>2
  <2> QED BY <1>1, <2>1, <2>2, <2>3
<1> HIDE DEF kv
<1>3. G # 0
  <2> SUFFICES ASSUME G = 0 PROVE FALSE
    OBVIOUS
  <2>1. kv * G = 0
    BY <1>1
  <2> QED BY <1>1, <1>2, <2>1
<1> HIDE DEF G
<1>4. ASSUME NEW h \in 0..(c.heads - 1)
      PROVE  \E g \in 0..(G - 1) : h \div G \in 0..(kv - 1) /\ h = (h \div G) * G + g
  <2> DEFINE q == h \div G
             r == h % G
  <2>1. h \in Nat /\ h < c.heads
    BY <1>1
  <2>2. q \in Nat /\ h = G * q + r
    BY <1>2, <1>3, <2>1, QuotientNat, Division
  <2>3. r \in 0..(G - 1)
    BY <1>2, <1>3, <2>1
  <2> HIDE DEF q, r
  <2>4. G * q = q * G /\ q * G \in Nat
    BY <1>2, <2>2
  <2>5. h = q * G + r
    BY <2>2, <2>4
  <2>6. q < kv
    <3> SUFFICES ASSUME kv <= q PROVE FALSE
      BY <1>1, <2>2
    <3>1. kv * G <= q * G
      <4>1. CASE kv = q
        BY <1>1, <1>2, <2>4, <4>1
      <4>2. CASE kv < q
        <5>1. kv * G + G <= q * G
          BY <1>1, <1>2, <2>2, <4>2, NextMultiple
        <5>2. kv * G \in Nat
          BY <1>1, <1>2
        <5> QED BY <1>2, <2>4, <5>1, <5>2
      <4> QED BY <1>1, <2>2, <4>1, <4>2
    <3> QED BY <1>1, <1>2, <2>1, <2>3, <2>4, <2>5, <3>1
  <2>7. q \in 0..(kv - 1)
    BY <1>1, <2>2, <2>6
  <2> QED BY <2>3, <2>5, <2>7 DEF q
<1> QED BY <1>2, <1>3, <1>4 DEF KvHead, G, kv

\* The block that serves a head in a chunk.
Server(c, h, chunk) == <<chunk, IF Grouped(c) THEN KvHead(c, h) ELSE h>>

LEMMA OneServer ==
    ASSUME NEW c, AttentionOK(c),
           NEW h \in 0..(c.heads - 1), NEW chunk \in 0..(ChunkCount(c) - 1)
    PROVE  /\ Server(c, h, chunk) \in SplitBlocks(c)
           /\ \A b \in SplitBlocks(c) :
                b[1] = chunk /\ h \in BlockHeads(c, b) <=> b = Server(c, h, chunk)
<1> DEFINE G == Group(c)
<1>1. /\ G \in Nat \ {0} /\ c.kvHeads \in Nat /\ c.heads \in Nat /\ h \in Nat
      /\ KvHead(c, h) \in 0..(c.kvHeads - 1)
  BY HeadsByGroup DEF AttentionOK
<1>2. PICK g \in 0..(G - 1) : h = KvHead(c, h) * G + g
  BY HeadsByGroup
<1> HIDE DEF G
<1>3. CASE Grouped(c)
  <2>1. SplitBlocks(c) = (0..(ChunkCount(c) - 1)) \X (0..(c.kvHeads - 1))
    BY <1>3 DEF SplitBlocks
  <2>2. Server(c, h, chunk) = <<chunk, KvHead(c, h)>>
    BY <1>3 DEF Server
  <2>3. ASSUME NEW b \in SplitBlocks(c)
        PROVE  h \in BlockHeads(c, b) <=> b[2] = KvHead(c, h)
    <3>1. b[2] \in Nat /\ KvHead(c, h) \in Nat
      BY <1>1, <2>1
    <3>2. BlockHeads(c, b) = {b[2] * G + i : i \in 0..(G - 1)}
      BY <1>3 DEF BlockHeads, G
    <3>3. ASSUME NEW i \in 0..(G - 1), h = b[2] * G + i
          PROVE  b[2] = KvHead(c, h)
      <4> DEFINE a == b[2]
                 kv == KvHead(c, h)
      <4>1. a * G + i = kv * G + g
        BY <1>2, <3>3
      <4>2. a \in Nat /\ kv \in Nat
        BY <3>1
      <4> HIDE DEF a, kv
      <4>3. \A m \in Nat, y \in 0..(G - 1) : a * G + i = m * G + y => a = m /\ i = y
        BY <1>1, <4>2, TwoDigits
      <4>4. a = kv
        BY <4>1, <4>2, <4>3
      <4> QED BY <4>4 DEF a, kv
    <3>4. ASSUME b[2] = KvHead(c, h)
          PROVE  h \in BlockHeads(c, b)
      BY <1>2, <3>2, <3>4
    <3> QED BY <3>2, <3>3, <3>4
  <2> QED BY <1>1, <2>1, <2>2, <2>3
<1>4. CASE ~Grouped(c)
  <2>1. SplitBlocks(c) = (0..(ChunkCount(c) - 1)) \X (0..(c.heads - 1))
    BY <1>4 DEF SplitBlocks
  <2>2. Server(c, h, chunk) = <<chunk, h>>
    BY <1>4 DEF Server
  <2>3. \A b \in SplitBlocks(c) : BlockHeads(c, b) = {b[2]}
    BY <1>4 DEF BlockHeads
  <2> QED BY <2>1, <2>2, <2>3
<1> QED BY <1>3, <1>4

LEMMA ServedHeads ==
    ASSUME NEW c, AttentionOK(c), NEW b \in SplitBlocks(c)
    PROVE  BlockHeads(c, b) \subseteq 0..(c.heads - 1)
<1> DEFINE G == Group(c)
<1>1. G \in Nat \ {0} /\ c.heads = c.kvHeads * G /\ c.kvHeads \in Nat /\ c.heads \in Nat
  BY HeadsByGroup DEF AttentionOK
<1> HIDE DEF G
<1>2. CASE Grouped(c)
  <2>1. b[2] \in 0..(c.kvHeads - 1)
    BY <1>2 DEF SplitBlocks
  <2>2. BlockHeads(c, b) = {b[2] * G + i : i \in 0..(G - 1)}
    BY <1>2 DEF BlockHeads, G
  <2>3. ASSUME NEW i \in 0..(G - 1)
        PROVE  b[2] * G + i \in 0..(c.heads - 1)
    <3>1. b[2] \in Nat /\ b[2] < c.kvHeads
      BY <1>1, <2>1
    <3>2. b[2] * G + i \in Nat /\ b[2] * G + i < c.kvHeads * G
      BY <1>1, <3>1, TwoDigits
    <3> QED BY <1>1, <3>2
  <2> QED BY <2>2, <2>3
<1>3. CASE ~Grouped(c)
  <2>1. b[2] \in 0..(c.heads - 1) /\ BlockHeads(c, b) = {b[2]}
    BY <1>3 DEF SplitBlocks, BlockHeads
  <2> QED BY <2>1
<1> QED BY <1>2, <1>3

\* Where a partial lies in the scratch.
Floats(c, h, chunk) == PartialAt(c, h, chunk)..(PartialAt(c, h, chunk) + c.dim + 1)

LEMMA PartialsApart ==
    ASSUME NEW c, AttentionOK(c),
           NEW h \in 0..(c.heads - 1), NEW a \in 0..(ChunkCount(c) - 1)
    PROVE  /\ Floats(c, h, a) \subseteq 0..(PartialFloats(c) - 1)
           /\ \A i \in 0..(c.heads - 1), b \in 0..(ChunkCount(c) - 1) :
                <<h, a>> # <<i, b>> => Floats(c, h, a) \cap Floats(c, i, b) = {}
<1> DEFINE n == ChunkCount(c)
           size == c.dim + 2
           index(head, chunk) == head * n + chunk
<1>1. n \in Nat \ {0} /\ c.heads \in Nat \ {0} /\ size \in Nat \ {0} /\ c.dim \in Nat
  BY ChunkShape DEF AttentionOK
<1>2. ASSUME NEW i, NEW b
      PROVE  Floats(c, i, b) = index(i, b) * size..(index(i, b) * size + c.dim + 1)
  BY DEF Floats, PartialAt
<1>3. PartialFloats(c) = c.heads * n * size
  BY DEF PartialFloats
<1> DEFINE all == c.heads * n
<1>4. all \in Nat
  BY <1>1
<1>5. ASSUME NEW i \in 0..(c.heads - 1), NEW b \in 0..(n - 1)
      PROVE  index(i, b) \in Nat /\ index(i, b) < all
  <2>1. i \in Nat /\ i < c.heads
    BY <1>1
  <2> HIDE DEF n
  <2> QED BY <1>1, <2>1, TwoDigits
<1>6. ASSUME NEW i \in 0..(c.heads - 1), NEW b \in 0..(n - 1), index(h, a) = index(i, b)
      PROVE  h = i /\ a = b
  <2>1. h \in Nat /\ i \in Nat /\ a \in 0..(n - 1)
    BY <1>1
  <2> HIDE DEF n
  <2> QED BY <1>1, <1>6, <2>1, TwoDigits
<1>7. ASSUME NEW x \in Nat, NEW float \in x * size..(x * size + c.dim + 1)
      PROVE  \E r \in 0..(size - 1) : float = x * size + r
  <2>1. x * size \in Nat
    BY <1>1
  <2>2. float - x * size \in 0..(size - 1) /\ float = x * size + (float - x * size)
    BY <1>1, <2>1
  <2> QED BY <2>2
<1>8. Floats(c, h, a) \subseteq 0..(PartialFloats(c) - 1)
  <2> SUFFICES ASSUME NEW float \in Floats(c, h, a)
               PROVE  float \in 0..(PartialFloats(c) - 1)
    OBVIOUS
  <2> DEFINE x == index(h, a)
  <2>1. x \in Nat /\ x < all
    BY <1>5
  <2>2. float \in x * size..(x * size + c.dim + 1)
    BY <1>2
  <2>3. PartialFloats(c) = all * size
    BY <1>3
  <2> HIDE DEF x, size, all
  <2>4. PICK r \in 0..(size - 1) : float = x * size + r
    BY <1>7, <2>1, <2>2
  <2>5. float \in Nat /\ float < all * size
    BY <1>1, <1>4, <2>1, <2>4, TwoDigits
  <2>6. all * size \in Nat
    BY <1>1, <1>4
  <2> QED BY <2>3, <2>5, <2>6
<1>9. ASSUME NEW i \in 0..(c.heads - 1), NEW b \in 0..(n - 1), <<h, a>> # <<i, b>>
      PROVE  Floats(c, h, a) \cap Floats(c, i, b) = {}
  <2> SUFFICES ASSUME NEW float \in Floats(c, h, a), float \in Floats(c, i, b)
               PROVE  FALSE
    OBVIOUS
  <2> DEFINE x == index(h, a)
             y == index(i, b)
  <2>1. x # y /\ x \in Nat /\ y \in Nat
    BY <1>5, <1>6, <1>9
  <2>2. float \in x * size..(x * size + c.dim + 1) /\ float \in y * size..(y * size + c.dim + 1)
    BY <1>2
  <2> HIDE DEF x, y, size
  <2>3. PICK r \in 0..(size - 1) : float = x * size + r
    BY <1>7, <2>1, <2>2
  <2>4. PICK q \in 0..(size - 1) : float = y * size + q
    BY <1>7, <2>1, <2>2
  <2>5. x = y
    BY <1>1, <2>1, <2>3, <2>4, TwoDigits
  <2> QED BY <2>1, <2>5
<1> QED BY <1>8, <1>9

\* For any number of heads, groups, chunks and dimensions: every partial of a
\* decode step is written by one block of the split kernel, into floats of
\* the scratch that no other partial has.
THEOREM PartialsHaveOneWriter == KernelsSpec => []EveryPartialHasOneWriter
<1>1. ASSUME Chosen
      PROVE  EveryPartialHasOneWriter
  <2> DEFINE c == call.of
             heads == 0..(c.heads - 1)
             chunks == 0..(ChunkCount(c) - 1)
             writers(h, chunk) == {b \in SplitBlocks(c) : b[1] = chunk /\ h \in BlockHeads(c, b)}
  <2> SUFFICES
        ASSUME IsAttention({"split"})
        PROVE  /\ \A b \in SplitBlocks(c) : BlockHeads(c, b) \subseteq heads
               /\ \A h \in heads, chunk \in chunks :
                    /\ Cardinality(writers(h, chunk)) = 1
                    /\ Grouped(c) => \A b \in writers(h, chunk) : b[2] = KvHead(c, h)
                    /\ Floats(c, h, chunk) \subseteq 0..(PartialFloats(c) - 1)
               /\ \A h, i \in heads, a, b \in chunks :
                    <<h, a>> # <<i, b>> => Floats(c, h, a) \cap Floats(c, i, b) = {}
    BY DEF EveryPartialHasOneWriter, Floats
  <2>1. AttentionOK(c)
    BY <1>1, AcceptedIsOK
  <2>2. \A b \in SplitBlocks(c) : BlockHeads(c, b) \subseteq heads
    BY <2>1, ServedHeads
  <2>3. ASSUME NEW h \in heads, NEW chunk \in chunks
        PROVE  /\ Cardinality(writers(h, chunk)) = 1
               /\ Grouped(c) => \A b \in writers(h, chunk) : b[2] = KvHead(c, h)
    <3>1. writers(h, chunk) = {Server(c, h, chunk)}
      BY <2>1, OneServer
    <3>2. Cardinality({Server(c, h, chunk)}) = 1
      BY FS_Singleton
    <3>3. Grouped(c) => Server(c, h, chunk)[2] = KvHead(c, h)
      BY DEF Server
    <3> QED BY <3>1, <3>2, <3>3
  <2>4. ASSUME NEW h \in heads, NEW a \in chunks
        PROVE  /\ Floats(c, h, a) \subseteq 0..(PartialFloats(c) - 1)
               /\ \A i \in heads, b \in chunks :
                    <<h, a>> # <<i, b>> => Floats(c, h, a) \cap Floats(c, i, b) = {}
    BY <2>1, PartialsApart
  <2> QED BY <2>2, <2>3, <2>4
<1> QED BY <1>1, AlwaysChosen, PTL

----------------------------------------------------------------------------
(* Greedy selection: the lanes of a warp.                                  *)

LaneKeys == [1..Warp -> Nat]

LEMMA GreatestOf ==
    ASSUME NEW S \in SUBSET Nat, S # {}, NEW b \in Nat, \A x \in S : x <= b
    PROVE  Max(S) \in S /\ \A x \in S : x <= Max(S)
<1>1. \E x \in S : \A y \in S : x >= y
  BY GreatestNatural
<1>2. Max(S) \in S /\ \A y \in S : Max(S) >= y
  BY <1>1, Zenon DEF Max
<1>3. Max(S) \in Nat
  BY <1>2
<1> QED BY <1>2, <1>3

\* An exchange leaves a lane the larger of two keys.
LEMMA Exchange ==
    ASSUME NEW keys \in LaneKeys, NEW o \in Nat
    PROVE  /\ ShuffleDown(keys, o) \in LaneKeys
           /\ \A l \in 1..Warp : l + o <= Warp =>
                /\ ShuffleDown(keys, o)[l] \in {keys[l], keys[l + o]}
                /\ keys[l] <= ShuffleDown(keys, o)[l] /\ keys[l + o] <= ShuffleDown(keys, o)[l]
<1> DEFINE s == ShuffleDown(keys, o)
<1>1. Warp \in Nat /\ \A l \in 1..Warp : keys[l] \in Nat
  BY GreedyConstantsOK DEF LaneKeys
<1>2. s = [l \in 1..Warp |-> IF l + o <= Warp THEN Max({keys[l], keys[l + o]}) ELSE keys[l]]
  BY DEF ShuffleDown
<1> HIDE DEF s
<1>3. ASSUME NEW l \in 1..Warp, l + o <= Warp
      PROVE  /\ s[l] \in {keys[l], keys[l + o]} /\ s[l] \in Nat
             /\ keys[l] <= s[l] /\ keys[l + o] <= s[l]
  <2>1. l + o \in 1..Warp
    BY <1>1, <1>3
  <2>2. keys[l] \in Nat /\ keys[l + o] \in Nat
    BY <1>1, <2>1
  <2>3. s[l] = Max({keys[l], keys[l + o]})
    BY <1>2, <1>3
  <2> DEFINE a == keys[l]
             b == keys[l + o]
  <2>4. a \in Int /\ b \in Int
    BY <2>2
  <2> HIDE DEF a, b
  <2>5. Max({a, b}) \in {a, b} /\ Max({a, b}) >= a /\ Max({a, b}) >= b
    BY <2>4, MaxOfTwo
  <2> QED BY <2>2, <2>3, <2>5 DEF a, b
<1>4. ASSUME NEW l \in 1..Warp, ~(l + o <= Warp)
      PROVE  s[l] \in Nat
  BY <1>1, <1>2, <1>4
<1>5. s \in LaneKeys
  <2>1. \A l \in 1..Warp : s[l] \in Nat
    BY <1>3, <1>4
  <2>2. DOMAIN s = 1..Warp /\ s = [l \in 1..Warp |-> s[l]]
    BY <1>2
  <2> QED BY <2>1, <2>2 DEF LaneKeys
<1> QED BY <1>3, <1>5 DEF s

\* The halving of offsets, from n at most.
Reduces(f, n) ==
    f = [offset \in 0..n |->
            [keys \in LaneKeys |->
                IF offset = 0 THEN keys[1] ELSE f[offset \div 2][ShuffleDown(keys, offset)]]]

LEMMA ReducerExists == \E f : Reduces(f, Warp)
<1> DEFINE P == {n \in Nat : \E f : Reduces(f, n)}
<1>0. P \in SUBSET Nat /\ \A n \in Nat : n \in P <=> \E f : Reduces(f, n)
  OBVIOUS
<1> HIDE DEF P
<1>1. 0 \in P
  <2> DEFINE f == [offset \in 0..0 |-> [keys \in LaneKeys |-> keys[1]]]
  <2>1. ASSUME NEW offset \in 0..0
        PROVE  [keys \in LaneKeys |-> keys[1]]
                 = [keys \in LaneKeys |->
                      IF offset = 0 THEN keys[1] ELSE f[offset \div 2][ShuffleDown(keys, offset)]]
    OBVIOUS
  <2>2. Reduces(f, 0)
    BY <2>1 DEF Reduces
  <2> QED BY <1>0, <2>2
<1>2. ASSUME NEW n \in P
      PROVE  n + 1 \in P
  <2>1. n \in Nat /\ n + 1 \in Nat
    BY <1>0
  <2>2. PICK f : Reduces(f, n)
    BY <1>0
  <2> DEFINE R(h, offset) ==
                [keys \in LaneKeys |->
                   IF offset = 0 THEN keys[1] ELSE h[offset \div 2][ShuffleDown(keys, offset)]]
             g == [offset \in 0..(n + 1) |-> R(f, offset)]
  <2>3. \A offset \in 0..n : f[offset] = R(f, offset)
    <3>1. f = [offset \in 0..n |-> R(f, offset)]
      BY <2>2 DEF Reduces
    <3> HIDE DEF R
    <3> QED BY <3>1
  <2>4. \A offset \in 0..(n + 1) : g[offset] = R(f, offset)
    OBVIOUS
  <2>5. \A offset \in 0..n : g[offset] = f[offset]
    <3> HIDE DEF g, R
    <3>1. 0..n \subseteq 0..(n + 1)
      BY <2>1
    <3> QED BY <2>3, <2>4, <3>1
  <2> HIDE DEF g
  <2>6. ASSUME NEW offset \in 0..(n + 1)
        PROVE  R(f, offset) = R(g, offset)
    <3>1. CASE offset = 0
      BY <3>1
    <3>2. CASE offset # 0
      <4>1. offset \div 2 \in 0..n
        BY <2>1, <3>2
      <4>2. f[offset \div 2] = g[offset \div 2]
        BY <2>5, <4>1
      <4> QED BY <4>2
    <3> QED BY <3>1, <3>2
  <2>7. g = [offset \in 0..(n + 1) |-> R(g, offset)]
    <3>1. g = [offset \in 0..(n + 1) |-> R(f, offset)]
      BY DEF g
    <3> HIDE DEF R
    <3> QED BY <2>6, <3>1
  <2>8. Reduces(g, n + 1)
    BY <2>7 DEF Reduces
  <2> QED BY <1>0, <2>1, <2>8
<1>3. P = Nat
  BY <1>0, <1>1, <1>2, Induction
<1>4. Warp \in Nat
  BY GreedyConstantsOK
<1> QED BY <1>0, <1>3, <1>4

\* Half of an offset that halves the warp's lanes into whole parts does, too.
LEMMA HalfDivides ==
    ASSUME NEW o \in 1..Warp, Warp % o = 0, o # 1
    PROVE  \E p \in 1..Warp : p < o /\ o = 2 * p /\ o \div 2 = p /\ Warp % p = 0
<1>1. Warp \in Nat \ {0} /\ o \in Nat \ {0} /\ o % 2 = 0
  BY GreedyConstantsOK
<1>2. PICK p \in Nat : o = 2 * p /\ o \div 2 = p
  BY <1>1
<1>3. p \in 1..Warp /\ p < o
  BY <1>1, <1>2
<1>4. Warp = o * (Warp \div o) + 0 /\ Warp \div o \in Nat
  BY <1>1, Division, QuotientNat
<1>5. PICK k \in Nat : Warp = k * p + 0
  <2>1. Warp = (2 * (Warp \div o)) * p + 0 /\ 2 * (Warp \div o) \in Nat
    BY <1>2, <1>4
  <2> QED BY <2>1
<1>6. 0 \in 0..(p - 1) /\ p \in Nat \ {0}
  BY <1>3
<1>7. (k * p + 0) % p = 0
  BY <1>6, DivisionIs
<1> QED BY <1>2, <1>3, <1>5, <1>7

\* What the first lane has after the offsets o, o / 2, ..., 1.
IsBest(x, keys, n) == (\E l \in 1..n : x = keys[l]) /\ \A l \in 1..n : keys[l] <= x

LEMMA HalvingFindsBest ==
    ASSUME NEW f, Reduces(f, Warp)
    PROVE  \A o \in 1..Warp : Warp % o = 0 /\ 2 * o <= Warp =>
              \A keys \in LaneKeys : IsBest(f[o][keys], keys, 2 * o)
<1> DEFINE P == {o \in Nat : o \in 1..Warp /\ Warp % o = 0 /\ 2 * o <= Warp =>
                    \A keys \in LaneKeys : IsBest(f[o][keys], keys, 2 * o)}
<1>0. /\ P \in SUBSET Nat
      /\ \A o \in Nat : o \in P <=> (o \in 1..Warp /\ Warp % o = 0 /\ 2 * o <= Warp =>
            \A keys \in LaneKeys : IsBest(f[o][keys], keys, 2 * o))
  OBVIOUS
<1> HIDE DEF P
<1>1. Warp \in Nat \ {0}
  BY GreedyConstantsOK
<1>2. ASSUME NEW o \in 0..Warp, NEW keys \in LaneKeys
      PROVE  f[o][keys] = IF o = 0 THEN keys[1] ELSE f[o \div 2][ShuffleDown(keys, o)]
  <2> DEFINE R(offset) ==
                [k \in LaneKeys |->
                   IF offset = 0 THEN k[1] ELSE f[offset \div 2][ShuffleDown(k, offset)]]
  <2>1. f = [offset \in 0..Warp |-> R(offset)]
    BY DEF Reduces
  <2>2. R(o)[keys] = IF o = 0 THEN keys[1] ELSE f[o \div 2][ShuffleDown(keys, o)]
    OBVIOUS
  <2> HIDE DEF R
  <2>3. f[o] = R(o)
    BY <2>1
  <2> QED BY <2>2, <2>3
<1>3. ASSUME NEW o \in Nat, \A m \in Nat : m < o => m \in P
      PROVE  o \in P
  <2> SUFFICES ASSUME o \in 1..Warp, Warp % o = 0, 2 * o <= Warp, NEW keys \in LaneKeys
               PROVE  IsBest(f[o][keys], keys, 2 * o)
    BY <1>0
  <2> DEFINE s == ShuffleDown(keys, o)
  <2>1. /\ s \in LaneKeys
        /\ \A l \in 1..Warp : l + o <= Warp =>
              s[l] \in {keys[l], keys[l + o]} /\ keys[l] <= s[l] /\ keys[l + o] <= s[l]
    BY Exchange
  <2>2. f[o][keys] = f[o \div 2][s]
    <3>1. o \in 0..Warp /\ o # 0
      BY <1>1
    <3> QED BY <1>2, <3>1
  <2>3. \A l \in 1..Warp : keys[l] \in Nat /\ s[l] \in Nat
    BY <2>1 DEF LaneKeys
  <2> HIDE DEF s
  <2>4. IsBest(f[o \div 2][s], s, o)
    <3>1. CASE o = 1
      <4>1. o \div 2 = 0 /\ 0 \in 0..Warp
        BY <1>1, <3>1
      <4>2. f[0][s] = s[1]
        BY <1>2, <2>1, <4>1
      <4>3. \A l \in 1..1 : l = 1
        OBVIOUS
      <4> QED BY <1>1, <2>3, <3>1, <4>1, <4>2, <4>3 DEF IsBest
    <3>2. CASE o # 1
      <4>1. PICK p \in 1..Warp : p < o /\ o = 2 * p /\ o \div 2 = p /\ Warp % p = 0
        BY <3>2, HalfDivides
      <4>2. p \in P /\ 2 * p <= Warp /\ p \in Nat
        BY <1>1, <1>3, <4>1
      <4>3. IsBest(f[p][s], s, 2 * p)
        BY <1>0, <2>1, <4>1, <4>2
      <4> QED BY <4>1, <4>3
    <3> QED BY <3>1, <3>2
  <2>5. PICK m \in 1..o : f[o][keys] = s[m]
    BY <2>2, <2>4 DEF IsBest
  <2>6. \E l \in 1..(2 * o) : f[o][keys] = keys[l]
    <3>1. m \in 1..Warp /\ m + o <= Warp
      BY <1>1
    <3>2. s[m] \in {keys[m], keys[m + o]}
      BY <2>1, <3>1
    <3>3. m \in 1..(2 * o) /\ m + o \in 1..(2 * o)
      OBVIOUS
    <3> QED BY <2>5, <3>2, <3>3
  <2>7. ASSUME NEW l \in 1..(2 * o)
        PROVE  keys[l] <= f[o][keys]
    <3>1. PICK k \in 1..o : l = k \/ l = k + o
      <4>1. CASE l <= o
        BY <4>1
      <4>2. CASE ~(l <= o)
        <5>1. l - o \in 1..o /\ l = (l - o) + o
          BY <4>2
        <5> QED BY <5>1
      <4> QED BY <4>1, <4>2
    <3>2. k \in 1..Warp /\ k + o <= Warp /\ l \in 1..Warp
      BY <1>1
    <3>3. keys[l] <= s[k]
      BY <2>1, <3>1, <3>2
    <3>4. s[k] <= s[m]
      BY <2>2, <2>4, <2>5 DEF IsBest
    <3>5. m \in 1..Warp
      BY <1>1
    <3> QED BY <2>3, <2>5, <3>2, <3>3, <3>4, <3>5
  <2> QED BY <2>6, <2>7 DEF IsBest
<1>4. P = Nat
  BY <1>0, <1>3, StrongInduction
<1>5. 1..Warp \subseteq Nat
  OBVIOUS
<1> QED BY <1>0, <1>4, <1>5

\* The keys of a warp's lanes.
KeysOfWarp(g, warp) == [l \in 1..Warp |-> ThreadKey(g, warp * Warp + l - 1)]

LEMMA WarpFindsBest ==
    ASSUME NEW g, NEW warp, KeysOfWarp(g, warp) \in LaneKeys
    PROVE  IsBest(WarpKey(g, warp), KeysOfWarp(g, warp), Warp)
<1> DEFINE Is(f) == f = [offset \in 0..Warp |->
                           [keys \in [1..Warp -> Nat] |->
                              IF offset = 0 THEN keys[1]
                              ELSE f[offset \div 2][ShuffleDown(keys, offset)]]]
           keys == KeysOfWarp(g, warp)
<1>1. WarpKey(g, warp) = (CHOOSE f : Is(f))[Warp \div 2][keys]
  BY DEF WarpKey, KeysOfWarp
<1>2. \A f : Is(f) <=> Reduces(f, Warp)
  BY DEF Reduces, LaneKeys
<1> HIDE DEF Is, keys
<1> DEFINE f == CHOOSE r : Is(r)
<1>3. Is(f)
  BY <1>2, ReducerExists
<1>4. Reduces(f, Warp)
  BY <1>2, <1>3
<1>5. WarpKey(g, warp) = f[Warp \div 2][keys]
  BY <1>1
<1> HIDE DEF f
<1>6. Warp \in Nat \ {0} /\ keys \in LaneKeys
  BY GreedyConstantsOK DEF keys
<1>7. CASE Warp = 1
  <2>1. Warp \div 2 = 0 /\ 0 \in 0..Warp
    BY <1>7
  <2>2. f[0][keys] = keys[1]
    BY <1>4, <1>6, <2>1 DEF Reduces
  <2>3. keys[1] \in Nat /\ \A l \in 1..1 : l = 1
    BY <1>6, <1>7 DEF LaneKeys
  <2> QED BY <1>5, <1>7, <2>1, <2>2, <2>3 DEF IsBest, keys
<1>8. CASE Warp # 1
  <2>1. Warp \in 1..Warp /\ Warp % Warp = 0
    <3>1. 1 * Warp + 0 = Warp /\ 0 \in 0..(Warp - 1) /\ 1 \in Nat
      BY <1>6
    <3>2. (1 * Warp + 0) % Warp = 0
      BY <1>6, <3>1, DivisionIs
    <3> QED BY <1>6, <3>1, <3>2
  <2>2. PICK p \in 1..Warp : p < Warp /\ Warp = 2 * p /\ Warp \div 2 = p /\ Warp % p = 0
    BY <1>8, <2>1, HalfDivides
  <2>3. 2 * p <= Warp
    BY <2>2
  <2>4. IsBest(f[p][keys], keys, 2 * p)
    BY <1>4, <1>6, <2>2, <2>3, HalvingFindsBest
  <2> QED BY <1>5, <2>2, <2>4 DEF keys
<1> QED BY <1>7, <1>8

----------------------------------------------------------------------------
(* Greedy selection: keys and columns.                                     *)

\* A row of logits that the kernel selects from.
RowOK(g) ==
    /\ g.cols \in Nat \ {0} /\ g.cols < ColumnRange
    /\ g.logits \in [0..(g.cols - 1) -> 0..(2 * SignBit - 1)]
    /\ g.divided \in [0..(SignBit - 1) -> 0..(SignBit - 1)]

Columns(g) == 0..(g.cols - 1)
EligibleColumns(g) == {i \in Columns(g) : Eligible(g, i)}

Rank(g, i) == Ordered(OneZero(Divided(g, g.logits[i])))

\* The bits of a divided logit are ordered as the host's scores are: below
\* zero, zeros of either sign, and above.
LEMMA RankOfScore ==
    ASSUME NEW g, RowOK(g), NEW i \in Columns(g)
    PROVE  /\ Score(g, i) \in Int /\ Rank(g, i) \in 0..(2 * SignBit - 1)
           /\ Rank(g, i) = IF Score(g, i) < 0 THEN SignBit - 1 + Score(g, i)
                           ELSE SignBit + Score(g, i)
<1> DEFINE bits == g.logits[i]
           d == g.divided[Magnitude(bits)]
           D == Divided(g, bits)
<1>1. SignBit \in Nat \ {0}
  BY GreedyConstantsOK
<1>2. bits \in 0..(2 * SignBit - 1)
  BY DEF RowOK, Columns
<1>3. Magnitude(bits) \in 0..(SignBit - 1)
  BY <1>1, <1>2 DEF Magnitude
<1>4. d \in 0..(SignBit - 1)
  BY <1>3 DEF RowOK
<1>5. /\ D = d + (IF Negative(bits) THEN SignBit ELSE 0)
      /\ Score(g, i) = IF Negative(bits) THEN -d ELSE d
  BY DEF Divided, Score
<1>6. Rank(g, i) = Ordered(OneZero(D))
  BY DEF Rank
<1>7. Negative(bits) \in BOOLEAN
  BY DEF Negative
<1> HIDE DEF bits, d, D
<1>8. CASE ~Negative(bits)
  <2>1. D = d /\ D % SignBit = d
    BY <1>1, <1>4, <1>5, <1>8, SmallRest
  <2>2. OneZero(D) = d
    BY <2>1 DEF OneZero, Magnitude
  <2>3. ~Negative(d)
    BY <1>1, <1>4 DEF Negative
  <2>4. Rank(g, i) = d + SignBit
    BY <1>6, <2>2, <2>3 DEF Ordered
  <2> QED BY <1>1, <1>4, <1>5, <1>8, <2>4
<1>9. CASE Negative(bits)
  <2>1. D = d + SignBit /\ D % SignBit = d
    <3>1. D = 1 * SignBit + d /\ 1 \in Nat
      BY <1>1, <1>4, <1>5, <1>9
    <3>2. (1 * SignBit + d) % SignBit = d
      BY <1>1, <1>4, <3>1, DivisionIs
    <3> QED BY <1>1, <1>4, <1>5, <1>9, <3>1, <3>2
  <2>2. CASE d = 0
    <3>1. OneZero(D) = 0
      BY <2>1, <2>2 DEF OneZero, Magnitude
    <3>2. Rank(g, i) = 0 + SignBit
      BY <1>1, <1>6, <3>1 DEF Ordered, Negative
    <3> QED BY <1>1, <1>5, <1>9, <2>2, <3>2
  <2>3. CASE d # 0
    <3>1. OneZero(D) = D
      BY <2>1, <2>3 DEF OneZero, Magnitude
    <3>2. Negative(D)
      BY <1>1, <1>4, <2>1 DEF Negative
    <3>3. Rank(g, i) = 2 * SignBit - 1 - D
      BY <1>6, <3>1, <3>2 DEF Ordered
    <3> QED BY <1>1, <1>4, <1>5, <1>9, <2>1, <2>3, <3>3
  <2> QED BY <2>2, <2>3
<1> QED BY <1>7, <1>8, <1>9

LEMMA KeyDigits ==
    ASSUME NEW g, RowOK(g), NEW i \in Columns(g)
    PROVE  /\ i \in Nat /\ ColumnRange - 1 - i \in 0..(ColumnRange - 1) /\ ColumnRange - 1 - i # 0
           /\ Rank(g, i) \in Nat
           /\ Key(g, i) = Rank(g, i) * ColumnRange + (ColumnRange - 1 - i)
           /\ Key(g, i) \in Nat \ {0}
           /\ Key(g, i) < (2 * SignBit) * ColumnRange
<1>1. ColumnRange \in Nat \ {0} /\ SignBit \in Nat \ {0}
  BY GreedyConstantsOK
<1>2. i \in Nat /\ i < g.cols /\ g.cols < ColumnRange /\ g.cols \in Nat
  BY DEF RowOK, Columns
<1>3. ColumnRange - 1 - i \in 0..(ColumnRange - 1) /\ ColumnRange - 1 - i # 0
  BY <1>1, <1>2
<1>4. i % ColumnRange = i
  BY <1>1, <1>2, SmallRest
<1>5. Key(g, i) = Rank(g, i) * ColumnRange + (ColumnRange - 1 - i)
  BY <1>4 DEF Key, Rank
<1>6. Rank(g, i) \in 0..(2 * SignBit - 1)
  BY RankOfScore
<1> DEFINE r == Rank(g, i)
           x == ColumnRange - 1 - i
<1> HIDE DEF r, x
<1>7. r \in Nat /\ r < 2 * SignBit /\ 2 * SignBit \in Nat
  BY <1>1, <1>6 DEF r
<1>8. x \in 0..(ColumnRange - 1) /\ x # 0
  BY <1>3 DEF x
<1>9. r * ColumnRange + x \in Nat /\ r * ColumnRange + x < (2 * SignBit) * ColumnRange
  BY <1>1, <1>7, <1>8, TwoDigits
<1>10. r * ColumnRange \in Nat
  BY <1>1, <1>7
<1>11. r * ColumnRange + x # 0
  BY <1>1, <1>8, <1>10
<1> QED BY <1>2, <1>3, <1>5, <1>7, <1>9, <1>11 DEF r, x

\* Of two columns, the key of the better score is larger, and of the first
\* of two with the same score.
LEMMA KeyOrder ==
    ASSUME NEW g, RowOK(g), NEW i \in Columns(g), NEW j \in Columns(g), Key(g, i) <= Key(g, j)
    PROVE  Score(g, i) <= Score(g, j) /\ (Score(g, i) = Score(g, j) => j <= i)
<1>1. ColumnRange \in Nat \ {0} /\ SignBit \in Nat \ {0}
  BY GreedyConstantsOK
<1>2. /\ i \in Nat /\ j \in Nat
      /\ Rank(g, i) \in Nat /\ Rank(g, j) \in Nat
      /\ ColumnRange - 1 - i \in 0..(ColumnRange - 1)
      /\ ColumnRange - 1 - j \in 0..(ColumnRange - 1)
      /\ Key(g, i) = Rank(g, i) * ColumnRange + (ColumnRange - 1 - i)
      /\ Key(g, j) = Rank(g, j) * ColumnRange + (ColumnRange - 1 - j)
  BY KeyDigits
<1> DEFINE r == Rank(g, i)
           s == Rank(g, j)
           x == ColumnRange - 1 - i
           y == ColumnRange - 1 - j
<1>3. r \in Nat /\ s \in Nat /\ x \in 0..(ColumnRange - 1) /\ y \in 0..(ColumnRange - 1)
      /\ r * ColumnRange + x <= s * ColumnRange + y
  BY <1>2
<1>4. r * ColumnRange \in Nat /\ s * ColumnRange \in Nat
  BY <1>1, <1>3
<1>5. x <= y <=> j <= i
  BY <1>1, <1>2
<1> HIDE DEF r, s, x, y
<1>6. r <= s
  <2> SUFFICES ASSUME s < r
               PROVE  FALSE
    BY <1>3
  <2>1. s * ColumnRange + y < r * ColumnRange
    BY <1>1, <1>3, TwoDigits
  <2> QED BY <1>3, <1>4, <2>1
<1>7. r = s => x <= y
  <2> SUFFICES ASSUME r = s
               PROVE  x <= y
    OBVIOUS
  <2>1. r * ColumnRange = s * ColumnRange
    OBVIOUS
  <2> QED BY <1>1, <1>3, <1>4, <2>1
<1>8. /\ Score(g, i) \in Int /\ Score(g, j) \in Int
      /\ r = IF Score(g, i) < 0 THEN SignBit - 1 + Score(g, i) ELSE SignBit + Score(g, i)
      /\ s = IF Score(g, j) < 0 THEN SignBit - 1 + Score(g, j) ELSE SignBit + Score(g, j)
  BY RankOfScore DEF r, s
<1> QED BY <1>1, <1>5, <1>6, <1>7, <1>8

\* The keys that the columns of one thread have.
KeysOfThread(g, t) ==
    {0} \cup {Key(g, i) : i \in {i \in Columns(g) : i % (Grid(g) * Block) = t /\ Eligible(g, i)}}

LEMMA ThreadFindsBest ==
    ASSUME NEW g, RowOK(g), NEW t
    PROVE  /\ ThreadKey(g, t) \in KeysOfThread(g, t) /\ ThreadKey(g, t) \in Nat
           /\ \A x \in KeysOfThread(g, t) : x <= ThreadKey(g, t)
<1> DEFINE S == KeysOfThread(g, t)
           b == (2 * SignBit) * ColumnRange
<1>1. b \in Nat
  <2>1. 2 * SignBit \in Nat /\ ColumnRange \in Nat
    BY GreedyConstantsOK
  <2> QED BY <2>1
<1> HIDE DEF b
<1>2. \A i \in Columns(g) : Key(g, i) \in Nat /\ Key(g, i) <= b
  <2> SUFFICES ASSUME NEW i \in Columns(g)
               PROVE  Key(g, i) \in Nat /\ Key(g, i) <= b
    OBVIOUS
  <2>1. Key(g, i) \in Nat /\ Key(g, i) < b
    BY KeyDigits DEF b
  <2> QED BY <1>1, <2>1
<1>3. S \in SUBSET Nat /\ S # {} /\ \A x \in S : x <= b
  BY <1>1, <1>2 DEF KeysOfThread
<1>4. ThreadKey(g, t) = Max(S)
  BY DEF ThreadKey, KeysOfThread, Columns
<1> HIDE DEF S
<1>5. Max(S) \in S /\ \A x \in S : x <= Max(S)
  BY <1>1, <1>3, GreatestOf
<1> QED BY <1>3, <1>4, <1>5 DEF S

\* Every column is some thread's, and every thread is a lane of some warp.
LEMMA LaneOfColumn ==
    ASSUME NEW g, RowOK(g), NEW i \in Columns(g)
    PROVE  \E w \in 0..(((Grid(g) * Block) \div Warp) - 1), l \in 1..Warp :
              i % (Grid(g) * Block) = w * Warp + l - 1
<1> DEFINE total == Grid(g) * Block
<1>1. /\ Block \in Nat \ {0} /\ Warp \in Nat \ {0} /\ MaxBlocks \in Nat \ {0}
      /\ Block % Warp = 0 /\ g.cols \in Nat \ {0} /\ i \in Nat
  BY GreedyConstantsOK DEF RowOK, Columns
<1>2. Grid(g) \in Nat \ {0}
  <2> DEFINE blocks == (g.cols + Block - 1) \div Block
  <2>1. blocks \in Nat /\ g.cols <= blocks * Block
    BY <1>1, ChunksCover
  <2>2. Grid(g) = IF blocks < MaxBlocks THEN blocks ELSE MaxBlocks
    BY DEF Grid
  <2> HIDE DEF blocks
  <2>3. blocks # 0
    <3>1. blocks = 0 => blocks * Block = 0
      BY <1>1
    <3> QED BY <1>1, <2>1, <3>1
  <2> QED BY <1>1, <2>1, <2>2, <2>3
<1>3. total \in Nat \ {0}
  BY <1>1, <1>2, ProductPositive
<1>4. PICK q \in Nat : total = q * Warp
  <2>1. Block = Warp * (Block \div Warp) + 0 /\ Block \div Warp \in Nat
    BY <1>1, Division, QuotientNat
  <2>2. total = (Grid(g) * (Block \div Warp)) * Warp /\ Grid(g) * (Block \div Warp) \in Nat
    BY <1>1, <1>2, <2>1
  <2> QED BY <2>2
<1> HIDE DEF total
<1>5. total \div Warp = q
  <2>1. (q * Warp + 0) \div Warp = q /\ q * Warp + 0 = total
    <3>1. 0 \in 0..(Warp - 1)
      BY <1>1
    <3> QED BY <1>1, <1>4, <3>1, DivisionIs
  <2> QED BY <2>1
<1> DEFINE t == i % total
<1>6. t \in Nat /\ t < total
  BY <1>1, <1>3
<1> HIDE DEF t
<1>7. PICK w \in Nat, x \in Nat : t = Warp * w + x /\ x < Warp
  BY <1>1, <1>6, QuotientAndRest
<1>8. w < q
  <2>1. w * Warp \in Nat /\ w * Warp = Warp * w
    BY <1>1
  <2>2. q < w => q * Warp + Warp <= w * Warp
    BY <1>1, NextMultiple
  <2>3. q = w => q * Warp = w * Warp
    OBVIOUS
  <2> QED BY <1>1, <1>3, <1>4, <1>6, <1>7, <2>1, <2>2, <2>3
<1>9. w \in 0..((total \div Warp) - 1) /\ x + 1 \in 1..Warp /\ t = w * Warp + (x + 1) - 1
  <2>1. w * Warp \in Nat /\ w * Warp = Warp * w
    BY <1>1
  <2> QED BY <1>1, <1>5, <1>7, <1>8, <2>1
<1> QED BY <1>9 DEF t, total

\* The greatest key of all eligible columns reaches atomicMax.
LEMMA BestKeyIs ==
    ASSUME NEW g, RowOK(g)
    PROVE  /\ BestKey(g) = 0 \/ \E i \in EligibleColumns(g) : BestKey(g) = Key(g, i)
           /\ \A i \in EligibleColumns(g) : Key(g, i) <= BestKey(g)
<1> DEFINE Warps == 0..(((Grid(g) * Block) \div Warp) - 1)
           S == {0} \cup {WarpKey(g, w) : w \in Warps}
           All == {0} \cup {Key(g, i) : i \in EligibleColumns(g)}
           b == (2 * SignBit) * ColumnRange
<1> HIDE DEF Warps
<1>1. ASSUME NEW w \in Warps
      PROVE  IsBest(WarpKey(g, w), KeysOfWarp(g, w), Warp)
  <2>1. \A l \in 1..Warp : ThreadKey(g, w * Warp + l - 1) \in Nat
    BY ThreadFindsBest
  <2>2. KeysOfWarp(g, w) \in LaneKeys
    BY <2>1 DEF KeysOfWarp, LaneKeys
  <2> QED BY <2>2, WarpFindsBest
<1>2. ASSUME NEW w \in Warps, NEW l \in 1..Warp
      PROVE  KeysOfWarp(g, w)[l] = ThreadKey(g, w * Warp + l - 1)
  BY DEF KeysOfWarp
<1>3. ASSUME NEW t
      PROVE  ThreadKey(g, t) \in All /\ ThreadKey(g, t) \in Nat
  <2>1. ThreadKey(g, t) \in KeysOfThread(g, t) /\ ThreadKey(g, t) \in Nat
    BY ThreadFindsBest
  <2>2. KeysOfThread(g, t) \subseteq All
    BY DEF KeysOfThread, EligibleColumns
  <2> QED BY <2>1, <2>2
<1>4. ASSUME NEW w \in Warps
      PROVE  WarpKey(g, w) \in All
  <2>1. PICK l \in 1..Warp : WarpKey(g, w) = KeysOfWarp(g, w)[l]
    BY <1>1 DEF IsBest
  <2>2. WarpKey(g, w) = ThreadKey(g, w * Warp + l - 1)
    BY <1>2, <2>1
  <2> QED BY <1>3, <2>2
<1>5. b \in Nat /\ All \in SUBSET Nat /\ \A x \in All : x <= b
  <2>1. 2 * SignBit \in Nat /\ ColumnRange \in Nat
    BY GreedyConstantsOK
  <2>2. b \in Nat
    BY <2>1
  <2> HIDE DEF b
  <2>3. ASSUME NEW i \in EligibleColumns(g)
        PROVE  Key(g, i) \in Nat /\ Key(g, i) <= b
    <3>1. Key(g, i) \in Nat /\ Key(g, i) < b
      BY KeyDigits DEF b, EligibleColumns
    <3> QED BY <2>2, <3>1
  <2> QED BY <2>2, <2>3
<1> HIDE DEF b, All
<1>6. S \subseteq All
  BY <1>4 DEF All
<1>7. BestKey(g) = Max(S)
  BY DEF BestKey, Warps
<1>8. Max(S) \in S /\ \A x \in S : x <= Max(S)
  <2>1. S \in SUBSET Nat /\ S # {} /\ \A x \in S : x <= b
    BY <1>5, <1>6
  <2> HIDE DEF S
  <2> QED BY <1>5, <2>1, GreatestOf
<1>9. BestKey(g) \in All /\ \A w \in Warps : WarpKey(g, w) <= BestKey(g)
  BY <1>6, <1>7, <1>8
<1>10. ASSUME NEW i \in EligibleColumns(g)
       PROVE  Key(g, i) <= BestKey(g)
  <2>1. i \in Columns(g) /\ Eligible(g, i)
    BY DEF EligibleColumns
  <2>2. PICK w \in Warps, l \in 1..Warp : i % (Grid(g) * Block) = w * Warp + l - 1
    BY <2>1, LaneOfColumn DEF Warps
  <2> DEFINE t == w * Warp + l - 1
  <2>3. Key(g, i) \in KeysOfThread(g, t)
    BY <2>1, <2>2 DEF KeysOfThread
  <2>4. Key(g, i) <= ThreadKey(g, t) /\ ThreadKey(g, t) \in Nat
    BY <2>3, ThreadFindsBest
  <2>5. ThreadKey(g, t) <= WarpKey(g, w)
    BY <1>1, <1>2 DEF IsBest
  <2>6. WarpKey(g, w) <= BestKey(g)
    BY <1>9
  <2>7. Key(g, i) \in Nat
    BY <2>1, KeyDigits
  <2>8. WarpKey(g, w) \in Nat /\ BestKey(g) \in Nat
    BY <1>4, <1>5, <1>9
  <2> QED BY <2>4, <2>5, <2>6, <2>7, <2>8
<1> QED BY <1>9, <1>10 DEF All

\* For any row of logits, divided by any temperature, with any exclusions:
\* the threads, warps and blocks of greedy_select_kernel come to the column
\* that the host would select, the first of the best eligible ones, or to
\* none, as the host does when no column is eligible.
THEOREM SelectsTheFirstBest == KernelsSpec => []GreedySelectsTheFirstBest
<1>1. ASSUME NEW g, RowOK(g)
      PROVE  Selected(g) = HostSelection(g)
  <2> DEFINE E == EligibleColumns(g)
             best == {i \in E : \A j \in E : Score(g, j) <= Score(g, i)}
  <2>1. HostSelection(g) = IF E = {} THEN <<>> ELSE <<Min(best)>>
    BY DEF HostSelection, EligibleColumns, Columns
  <2>2. E \in SUBSET Nat /\ \A i \in E : i \in Columns(g)
    BY DEF EligibleColumns, Columns, RowOK
  <2>3. /\ BestKey(g) = 0 \/ \E i \in E : BestKey(g) = Key(g, i)
        /\ \A i \in E : Key(g, i) <= BestKey(g)
    BY <1>1, BestKeyIs
  <2> HIDE DEF E
  <2>4. CASE E = {}
    <3>1. BestKey(g) = 0
      BY <2>3, <2>4
    <3> QED BY <2>1, <2>4, <3>1 DEF Selected
  <2>5. CASE E # {}
    <3>1. \A i \in E : Key(g, i) <= BestKey(g) /\ Key(g, i) \in Nat \ {0}
      <4> SUFFICES ASSUME NEW i \in E
                   PROVE  Key(g, i) <= BestKey(g) /\ Key(g, i) \in Nat \ {0}
        OBVIOUS
      <4>1. i \in Columns(g)
        BY <2>2
      <4> QED BY <1>1, <2>3, <4>1, KeyDigits
    <3>2. BestKey(g) # 0
      BY <2>5, <3>1
    <3>3. PICK b \in E : BestKey(g) = Key(g, b)
      BY <2>3, <3>2
    <3>4. \A i \in E : Score(g, i) <= Score(g, b) /\ (Score(g, i) = Score(g, b) => b <= i)
      <4> SUFFICES ASSUME NEW i \in E
                   PROVE  Score(g, i) <= Score(g, b) /\ (Score(g, i) = Score(g, b) => b <= i)
        OBVIOUS
      <4>1. i \in Columns(g) /\ b \in Columns(g)
        BY <2>2
      <4>2. Key(g, i) <= Key(g, b)
        BY <3>1, <3>3
      <4> QED BY <1>1, <4>1, <4>2, KeyOrder
    <3>5. \A i \in E : Score(g, i) \in Int
      <4> SUFFICES ASSUME NEW i \in E
                   PROVE  Score(g, i) \in Int
        OBVIOUS
      <4>1. i \in Columns(g)
        BY <2>2
      <4> QED BY <1>1, <4>1, RankOfScore
    <3>6. b \in best
      BY <3>4
    <3>7. \A i \in best : b <= i
      <4> SUFFICES ASSUME NEW i \in best
                   PROVE  b <= i
        OBVIOUS
      <4>1. i \in E /\ Score(g, b) <= Score(g, i) /\ Score(g, i) <= Score(g, b)
        BY <3>4
      <4>2. Score(g, i) = Score(g, b)
        BY <3>5, <4>1
      <4> QED BY <3>4, <4>1, <4>2
    <3>8. best \in SUBSET Nat
      BY <2>2
    <3> HIDE DEF best
    <3>9. Min(best) = b
      BY <3>6, <3>7, <3>8, LeastOf
    <3>10. /\ Key(g, b) = Rank(g, b) * ColumnRange + (ColumnRange - 1 - b)
           /\ ColumnRange - 1 - b \in 0..(ColumnRange - 1)
           /\ Rank(g, b) \in Nat /\ b \in Nat /\ ColumnRange \in Nat \ {0}
      <4>1. b \in Columns(g)
        BY <2>2
      <4> QED BY <1>1, <4>1, KeyDigits, GreedyConstantsOK
    <3>11. BestKey(g) % ColumnRange = ColumnRange - 1 - b
      <4> DEFINE column == ColumnRange - 1 - b
      <4>1. column \in 0..(ColumnRange - 1) /\ Rank(g, b) \in Nat /\ ColumnRange \in Nat \ {0}
        BY <3>10
      <4>2. BestKey(g) = Rank(g, b) * ColumnRange + column
        BY <3>3, <3>10
      <4> HIDE DEF column
      <4>3. (Rank(g, b) * ColumnRange + column) % ColumnRange = column
        BY <4>1, DivisionIs
      <4>4. BestKey(g) % ColumnRange = column
        BY <4>2, <4>3
      <4> QED BY <4>4 DEF column
    <3>12. ColumnRange - 1 - (ColumnRange - 1 - b) = b
      BY <3>10
    <3> QED BY <2>1, <2>5, <3>2, <3>9, <3>11, <3>12 DEF Selected
  <2> QED BY <2>4, <2>5
<1>2. ASSUME Chosen, call.kernel = "greedy", ~NoSuchRow(call.of)
      PROVE  RowOK(call.of)
  <2>1. call.of \in GreedyCalls
    BY <1>2, ChosenArguments
  <2>2. /\ call.of.cols \in Nat
        /\ call.of.logits \in [0..(call.of.cols - 1) -> 0..(2 * SignBit - 1)]
        /\ call.of.divided \in [0..(SignBit - 1) -> 0..(SignBit - 1)]
    BY <2>1, CallsOK
  <2>3. call.of.cols # 0 /\ ~(call.of.cols > ColumnRange - 1) /\ ColumnRange \in Nat
    BY <1>2, GreedyConstantsOK DEF NoSuchRow
  <2> QED BY <2>2, <2>3 DEF RowOK
<1>3. ASSUME Chosen
      PROVE  GreedySelectsTheFirstBest
  BY <1>1, <1>2, <1>3 DEF GreedySelectsTheFirstBest
<1> QED BY <1>3, AlwaysChosen, PTL

----------------------------------------------------------------------------
(* Conversions.                                                            *)

LEMMA ChosenPatterns ==
    ASSUME Chosen
    PROVE  /\ call.kernel = "to half" => call.of \in Patterns(Wide)
           /\ call.kernel = "from half" => call.of \in Patterns(Half)
           /\ call.kernel = "from bfloat16" => call.of \in Patterns(Brain)
<1>1. CASE call = NoCall
  BY <1>1 DEF NoCall
<1>2. CASE call \in CallsOf("to half", Patterns(Wide))
  <2>1. call.kernel = "to half" /\ call.of \in Patterns(Wide)
    BY <1>2, CallOf
  <2> QED BY <2>1
<1>3. CASE call \in CallsOf("from half", Patterns(Half))
  <2>1. call.kernel = "from half" /\ call.of \in Patterns(Half)
    BY <1>3, CallOf
  <2> QED BY <2>1
<1>4. CASE call \in CallsOf("from bfloat16", Patterns(Brain))
  <2>1. call.kernel = "from bfloat16" /\ call.of \in Patterns(Brain)
    BY <1>4, CallOf
  <2> QED BY <2>1
<1>5. CASE \/ call \in CallsOf("attention", AttentionCalls)
           \/ call \in CallsOf("gated", GatedCalls)
           \/ call \in CallsOf("matmul", MatmulCalls)
           \/ call \in CallsOf("greedy", GreedyCalls)
  <2>1. call.kernel \in {"attention", "gated", "matmul", "greedy"}
    BY <1>5, CallOf
  <2> QED BY <2>1
<1> QED BY <1>1, <1>2, <1>3, <1>4, <1>5 DEF Chosen, Calls

\* Of formats of any widths: an f32 goes to the nearest f16 and the nearest
\* bfloat16, of two as near to the even one, through every case of the code;
\* and a NaN stays one.
THEOREM HalvesRoundToNearest == KernelsSpec => []HalvesAreNearest
<1>1. ASSUME Chosen
      PROVE  HalvesAreNearest
  <2> SUFFICES ASSUME call.kernel = "to half"
               PROVE  IF IsNaN(Wide, call.of)
                      THEN IsNaN(Half, WideToHalf(call.of)) /\ IsNaN(Brain, WideToBrain(call.of))
                      ELSE /\ WideToHalf(call.of) \in Nearest(Half, Value(Wide, call.of), Sign(Wide, call.of))
                           /\ WideToBrain(call.of) \in Nearest(Brain, Value(Wide, call.of), Sign(Wide, call.of))
    BY DEF HalvesAreNearest
  <2>1. call.of \in Patterns(Wide)
    BY <1>1, ChosenPatterns
  <2> QED BY <2>1, HalfIsNearest, BrainIsNearest
<1> QED BY <1>1, AlwaysChosen, PTL

\* Of formats of any widths: a half or a bfloat16 goes to the f32 of the same
\* sign and value, a subnormal too, infinity to infinity and NaN to NaN.
THEOREM HalvesWiden == KernelsSpec => []HalvesWidenExactly
<1>1. ASSUME Chosen
      PROVE  HalvesWidenExactly
  <2>1. ASSUME call.kernel = "from half"
        PROVE  HalvesWidenExactly
    <3>1. call.of \in Patterns(Half)
      BY <1>1, <2>1, ChosenPatterns
    <3>2. WidensExactly(Half, call.of, HalfToWide(call.of))
      BY <3>1, HalfWidens
    <3> QED BY <2>1, <3>2 DEF HalvesWidenExactly, WidensExactly
  <2>2. ASSUME call.kernel = "from bfloat16"
        PROVE  HalvesWidenExactly
    <3>1. call.of \in Patterns(Brain)
      BY <1>1, <2>2, ChosenPatterns
    <3>2. WidensExactly(Brain, call.of, BrainToWide(call.of))
      BY <3>1, BrainWidens
    <3>3. call.kernel # "from half"
      BY <2>2
    <3> QED BY <2>2, <3>2, <3>3 DEF HalvesWidenExactly, WidensExactly
  <2>3. ASSUME call.kernel \notin {"from half", "from bfloat16"}
        PROVE  HalvesWidenExactly
    BY <2>3 DEF HalvesWidenExactly
  <2> QED BY <2>1, <2>2, <2>3
<1> QED BY <1>1, AlwaysChosen, PTL

=============================================================================
