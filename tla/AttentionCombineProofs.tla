----------------------- MODULE AttentionCombineProofs ------------------------
(***************************************************************************)
(* What holds of a block of attention_combine_kernel for any number of     *)
(* threads, dimensions and chunks.                                         *)
(*                                                                         *)
(* The invariant says that a block is in one phase: all threads that run   *)
(* are at one place, and all that have moved on, to wait or to end, are    *)
(* at the one that follows it.  What has been touched since the last       *)
(* barrier was touched by those, and is what the phase lets them touch.    *)
(* From it follow that threads meet at the barriers, that their steps run  *)
(* out, and what the block computes.                                       *)
(***************************************************************************)
EXTENDS AttentionCombine, NaturalFacts, FiniteSetTheorems, TLAPS

----------------------------------------------------------------------------
(* Shared slots are told apart by their array and index.                   *)

LEMMA SlotsDiffer ==
    /\ \A i, j : Slot(i) = Slot(j) => i = j
    /\ \A c, e : WeightSlot(c) = WeightSlot(e) => c = e
    /\ \A i, c : Slot(i) # WeightSlot(c)
BY DEF Slot, WeightSlot

----------------------------------------------------------------------------
(* The shape of a block.                                                   *)

LEMMA MaxOfTwo ==
    ASSUME NEW a \in Int, NEW b \in Int
    PROVE  Max({a, b}) \in {a, b} /\ Max({a, b}) >= a /\ Max({a, b}) >= b
<1>1. \E x \in {a, b} : \A y \in {a, b} : x >= y
  <2>1. CASE a >= b
    BY <2>1
  <2>2. CASE b >= a
    BY <2>2
  <2> QED BY <2>1, <2>2
<1>2. Max({a, b}) \in {a, b} /\ \A y \in {a, b} : Max({a, b}) >= y
  BY <1>1, Zenon DEF Max
<1> QED BY <1>2

LEMMA MinOfTwo ==
    ASSUME NEW a \in Int, NEW b \in Int
    PROVE  Min({a, b}) \in {a, b}
<1>1. \E x \in {a, b} : \A y \in {a, b} : x =< y
  <2>1. CASE a =< b
    BY <2>1
  <2>2. CASE b =< a
    BY <2>2
  <2> QED BY <2>1, <2>2
<1> QED BY <1>1, Zenon DEF Min

\* What the block was launched with.
LaunchOK ==
    /\ launch.dim \in Nat \ {0}
    /\ launch.chunks \in Nat \ {0}
    /\ launch.cached \in BOOLEAN
    /\ \A c \in Chunks : launch.max[c] \in Maxima

LEMMA BlockNonempty ==
    ASSUME NEW dim \in Nat \ {0}
    PROVE  BlockDim(dim) \in Nat \ {0}
<1>1. CASE dim > BlockThreads
  BY <1>1, ConstantsOK DEF BlockDim
<1>2. CASE ~(dim > BlockThreads)
  <2> DEFINE k == Max({1, Min({LaneThreads \div dim, MaxLanes})})
  <2>1. LaneThreads \div dim \in Nat
    BY ConstantsOK, QuotientNat
  <2>2. Min({LaneThreads \div dim, MaxLanes}) \in Nat
    BY <2>1, ConstantsOK, MinOfTwo
  <2>3. k \in Nat \ {0}
    <3> DEFINE least == Min({LaneThreads \div dim, MaxLanes})
    <3>1. least \in Int
      BY <2>2
    <3> HIDE DEF least
    <3>2. Max({1, least}) \in {1, least} /\ Max({1, least}) >= 1
      BY <3>1, MaxOfTwo
    <3>3. Max({1, least}) \in Nat \ {0}
      BY <3>1, <3>2
    <3> QED BY <3>3 DEF least
  <2>4. BlockDim(dim) = dim * k
    BY <1>2 DEF BlockDim
  <2> HIDE DEF k
  <2> QED BY <2>3, <2>4, ProductPositive
<1> QED BY <1>1, <1>2

\* Threads are numbered from 0, lanes are at least one, and so is the width.
LEMMA Shape ==
    ASSUME LaunchOK
    PROVE  /\ BlockDim(launch.dim) \in Nat \ {0}
           /\ Threads = 0..(BlockDim(launch.dim) - 1)
           /\ Cardinality(Threads) = BlockDim(launch.dim)
           /\ 0 \in Threads
           /\ Lanes \in Nat \ {0}
           /\ Width \in Nat \ {0}
<1> DEFINE B == BlockDim(launch.dim)
<1>1. B \in Nat \ {0}
  BY BlockNonempty DEF LaunchOK
<1>2. Threads = 0..(B - 1)
  BY DEF Threads
<1>3. Cardinality(Threads) = B
  <2>1. Cardinality(0..(B - 1)) = IF 0 > B - 1 THEN 0 ELSE (B - 1) - 0 + 1
    <3>1. 0 \in Int /\ B - 1 \in Int
      BY <1>1
    <3> HIDE DEF B
    <3> QED BY <3>1, FS_Interval
  <2> QED BY <1>1, <1>2, <2>1
<1>4. 0 \in Threads
  BY <1>1, <1>2
<1> DEFINE q == B \div launch.dim
<1>5. q \in Nat /\ q =< B
  BY <1>1, QuotientNat DEF LaunchOK
<1> HIDE DEF B
<1>6. Lanes = Max({1, q})
  BY <1>3 DEF Lanes
<1> HIDE DEF q
<1>7. Lanes \in Nat \ {0} /\ Lanes =< B
  <2>1. Max({1, q}) \in {1, q} /\ Max({1, q}) >= 1
    BY <1>5, MaxOfTwo
  <2> QED BY <1>1, <1>5, <1>6, <2>1
<1>8. Width = B \div Lanes
  BY <1>3 DEF Width
<1>9. B \div Lanes \in Nat \ {0}
  <2>1. \A l \in Nat \ {0} : l =< B => B \div l \in Nat \ {0}
    BY <1>1
  <2> QED BY <1>7, <2>1
<1> QED BY <1>1, <1>2, <1>3, <1>4, <1>7, <1>8, <1>9 DEF B

LEMMA ShapeStays ==
    ASSUME launch' = launch
    PROVE  /\ Threads' = Threads
           /\ Chunks' = Chunks
           /\ Width' = Width
           /\ LaunchOK' <=> LaunchOK
<1>1. Threads' = Threads /\ Chunks' = Chunks
  BY DEF Threads, Chunks
<1>2. Lanes' = Lanes
  BY <1>1 DEF Lanes
<1> QED BY <1>1, <1>2 DEF Width, LaunchOK

----------------------------------------------------------------------------
(* The phases.  A phase is a point with the stride and the dimension that  *)
(* its threads have there.                                                 *)

PhasePoints == Points \ {"done"}

\* Where a thread comes to from phase <<p, s, d>>.
NextPoint(p, s, d) ==
    CASE p = "scan" -> "tree"
      [] p = "tree" -> IF s < Cardinality(Threads) THEN "tree" ELSE "ranked"
      [] p = "ranked" -> IF launch.cached THEN "weighed" ELSE "totalled"
      [] p = "weighed" -> "totalled"
      [] p = "totalled" -> "lanes"
      [] p = "lanes" -> IF d < launch.dim THEN "sum" ELSE "done"
      [] p = "sum" -> "lanes"

NextStride(p, s) == IF p = "tree" /\ s < Cardinality(Threads) THEN 2 * s ELSE s

NextDimension(p, d) == IF p = "sum" THEN d + Width ELSE d

\* What the phase lets thread t read and write.
MayRead(p, s, t, x) ==
    \/ /\ p = "tree" /\ s < Cardinality(Threads)
       /\ t % (2 * s) = 0
       /\ x \in {Slot(t), Slot(t + s)}
    \/ p = "tree" /\ s >= Cardinality(Threads) /\ x = Slot(0)
    \/ p \in {"weighed", "lanes"} /\ \E c \in Chunks : x = WeightSlot(c)
    \/ p = "totalled" /\ x = Slot(0)
    \/ p = "sum" /\ \E i \in Int : x = Slot(i)

MayWrite(p, s, t, x) ==
    \/ p \in {"scan", "lanes"} /\ x = Slot(t)
    \/ p = "tree" /\ s < Cardinality(Threads) /\ t % (2 * s) = 0 /\ x = Slot(t)
    \/ /\ p = "ranked" /\ launch.cached
       /\ \E c \in Chunks : c % Cardinality(Threads) = t /\ x = WeightSlot(c)
    \/ /\ p = IF launch.cached THEN "weighed" ELSE "ranked"
       /\ t = 0 /\ x = Slot(0)

\* A thread that has left the phase.
Moved(t) == t \in waiting \/ at[t] = "done"

Here(t, p, s, d) == at[t] = p /\ regs[t].stride = s /\ regs[t].d0 = d

Placed(p, s, d) ==
    \A t \in Threads :
        IF Moved(t) THEN Here(t, NextPoint(p, s, d), NextStride(p, s), NextDimension(p, d))
        ELSE Here(t, p, s, d)

Permitted(p, s) ==
    \A a \in touched : \E t \in Threads : \E x :
        \/ a = <<t, "read", x>> /\ MayRead(p, s, t, x)
        \/ a = <<t, "write", x>> /\ MayWrite(p, s, t, x)

RegsOK ==
    /\ DOMAIN regs = Threads
    /\ \A t \in Threads : DOMAIN regs[t] = {"stride", "d0", "max", "total"}

MaximaReduced(p) == p \in {"scan", "tree"} => \A t \in Threads : reduce[t] \in Maxima

\* A waiting thread is at a point that is reached through a barrier.
WaitersSynced == \A t \in waiting : at[t] \in Synced

\* The block is in phase <<p, s, d>>.
BlockIn(p, s, d) ==
    /\ LaunchOK
    /\ TypeOK
    /\ RegsOK
    /\ WaitersSynced
    /\ p \in PhasePoints /\ s \in Nat \ {0} /\ d \in Nat
    /\ Placed(p, s, d) /\ Permitted(p, s) /\ MaximaReduced(p)

IInv == \E p, s, d : BlockIn(p, s, d)

----------------------------------------------------------------------------
(* No phase lets two threads meet in a slot that one of them writes.       *)

LEMMA HalfwayIsOdd ==
    ASSUME NEW s \in Nat \ {0}, NEW t \in Nat, NEW u \in Nat,
           t % (2 * s) = 0, u % (2 * s) = 0
    PROVE  t # u + s
<1> DEFINE w == 2 * s
<1>1. w \in Nat \ {0} /\ s < w
  OBVIOUS
<1>0. t % w = 0 /\ u % w = 0
  BY DEF w
<1> HIDE DEF w
<1> DEFINE i == t \div w
           j == u \div w
<1>2. i \in Int /\ t = w * i + (t % w)
  BY <1>1, Division
<1>3. j \in Int /\ u = w * j + (u % w)
  BY <1>1, Division
<1> HIDE DEF i, j
<1> SUFFICES ASSUME t = u + s PROVE FALSE
  OBVIOUS
<1>4. w * (i - j) = s
  BY <1>0, <1>1, <1>2, <1>3
<1>5. CASE i - j =< 0
  BY <1>1, <1>4, <1>5
<1>6. CASE i - j >= 1
  BY <1>1, <1>4, <1>6
<1> QED BY <1>5, <1>6

LEMMA NoMeeting ==
    ASSUME LaunchOK,
           NEW p \in PhasePoints, NEW s \in Nat \ {0},
           NEW t \in Threads, NEW u \in Threads, t # u,
           NEW x, MayWrite(p, s, t, x)
    PROVE  ~MayRead(p, s, u, x) /\ ~MayWrite(p, s, u, x)
<1>0. t \in Nat /\ u \in Nat /\ Cardinality(Threads) \in Nat \ {0}
  BY Shape
<1>1. CASE p \in {"scan", "lanes"} /\ x = Slot(t)
  BY <1>1, SlotsDiffer DEF MayRead, MayWrite
<1>2. CASE p = "tree" /\ s < Cardinality(Threads) /\ t % (2 * s) = 0 /\ x = Slot(t)
  <2>1. ASSUME u % (2 * s) = 0
        PROVE  Slot(t) # Slot(u) /\ Slot(t) # Slot(u + s)
    <3>1. t # u + s
      BY <1>0, <1>2, <2>1, HalfwayIsOdd
    <3> QED BY <3>1, SlotsDiffer
  <2> QED BY <1>0, <1>2, <2>1 DEF MayRead, MayWrite
<1>3. CASE /\ p = "ranked" /\ launch.cached
           /\ \E c \in Chunks : c % Cardinality(Threads) = t /\ x = WeightSlot(c)
  BY <1>3, SlotsDiffer DEF MayRead, MayWrite
<1>4. CASE /\ p = IF launch.cached THEN "weighed" ELSE "ranked"
           /\ t = 0 /\ x = Slot(0)
  BY <1>4, SlotsDiffer DEF MayRead, MayWrite
<1> QED BY <1>1, <1>2, <1>3, <1>4 DEF MayWrite

LEMMA PermittedIsRaceFree ==
    ASSUME IInv
    PROVE  NoDataRace
<1>1. PICK p \in PhasePoints, s \in Nat \ {0} : Permitted(p, s) /\ LaunchOK
  BY DEF IInv, BlockIn
<1> SUFFICES ASSUME NEW a \in touched, NEW b \in touched, a[3] = b[3],
                    "write" \in {a[2], b[2]}, a[1] # b[1]
             PROVE  FALSE
  BY DEF NoDataRace
<1>2. PICK t \in Threads : \E x :
        \/ a = <<t, "read", x>> /\ MayRead(p, s, t, x)
        \/ a = <<t, "write", x>> /\ MayWrite(p, s, t, x)
  BY <1>1 DEF Permitted
<1>3. PICK u \in Threads : \E y :
        \/ b = <<u, "read", y>> /\ MayRead(p, s, u, y)
        \/ b = <<u, "write", y>> /\ MayWrite(p, s, u, y)
  BY <1>1 DEF Permitted
<1>4. /\ t # u
      /\ a[2] \in {"read", "write"} /\ (a[2] = "read" => MayRead(p, s, t, a[3]))
      /\ a[2] = "write" => MayWrite(p, s, t, a[3])
      /\ b[2] \in {"read", "write"} /\ (b[2] = "read" => MayRead(p, s, u, a[3]))
      /\ b[2] = "write" => MayWrite(p, s, u, a[3])
  BY <1>2, <1>3
<1>5. \/ MayWrite(p, s, t, a[3]) /\ (MayRead(p, s, u, a[3]) \/ MayWrite(p, s, u, a[3]))
      \/ MayWrite(p, s, u, a[3]) /\ (MayRead(p, s, t, a[3]) \/ MayWrite(p, s, t, a[3]))
  BY <1>4
<1> QED BY <1>1, <1>4, <1>5, NoMeeting

----------------------------------------------------------------------------
(* Threads leave a phase one by one.                                       *)

\* A step by which thread t leaves the phase, for the place that follows and
\* touching no more than it may.
Leaves(t, p, s, d) ==
    /\ launch' = launch
    /\ Runs(t, p) /\ Arrives(t, NextPoint(p, s, d))
    /\ RegsOK'
    /\ \A u \in Threads \ {t} : regs'[u] = regs[u]
    /\ regs'[t].stride = NextStride(p, s)
    /\ regs'[t].d0 = NextDimension(p, d)
    /\ regs'[t].max \in Maxima
    /\ DOMAIN reduce' = Threads
    /\ MaximaReduced(p)'
    /\ DOMAIN out' \subseteq 0..(launch.dim - 1)
    /\ \A a \in touched' : \/ a \in touched
                           \/ \E x : \/ a = <<t, "read", x>> /\ MayRead(p, s, t, x)
                                     \/ a = <<t, "write", x>> /\ MayWrite(p, s, t, x)

LEMMA PhaseFacts ==
    ASSUME LaunchOK, NEW p \in PhasePoints, NEW s \in Nat \ {0}, NEW d \in Nat
    PROVE  /\ NextPoint(p, s, d) \in Points \ {"scan"}
           /\ NextPoint(p, s, d) # "done" => NextPoint(p, s, d) \in Synced
           /\ NextStride(p, s) \in Nat \ {0}
           /\ NextDimension(p, d) \in Nat
<1>1. Width \in Nat
  BY Shape
<1> QED BY <1>1 DEF PhasePoints, Points, Synced, NextPoint, NextStride, NextDimension

LEMMA PhaseStays ==
    ASSUME launch' = launch,
           NEW p, NEW s, NEW d
    PROVE  /\ NextPoint(p, s, d)' = NextPoint(p, s, d)
           /\ NextDimension(p, d)' = NextDimension(p, d)
           /\ NextStride(p, s)' = NextStride(p, s)
           /\ \A t, x : MayRead(p, s, t, x)' <=> MayRead(p, s, t, x)
           /\ \A t, x : MayWrite(p, s, t, x)' <=> MayWrite(p, s, t, x)
<1>1. Threads' = Threads /\ Chunks' = Chunks /\ Width' = Width
  BY ShapeStays
<1>2. NextPoint(p, s, d)' = NextPoint(p, s, d)
  BY <1>1 DEF NextPoint
<1>3. NextDimension(p, d)' = NextDimension(p, d) /\ NextStride(p, s)' = NextStride(p, s)
  BY <1>1 DEF NextDimension, NextStride
<1>4. \A t, x : MayRead(p, s, t, x)' <=> MayRead(p, s, t, x)
  BY <1>1 DEF MayRead, Slot, WeightSlot
<1>5. \A t, x : MayWrite(p, s, t, x)' <=> MayWrite(p, s, t, x)
  BY <1>1 DEF MayWrite, Slot, WeightSlot
<1> QED BY <1>2, <1>3, <1>4, <1>5

LEMMA LeavingKeepsPhase ==
    ASSUME LaunchOK, TypeOK, RegsOK, WaitersSynced,
           NEW p \in PhasePoints, NEW s \in Nat \ {0}, NEW d \in Nat,
           Placed(p, s, d), Permitted(p, s),
           NEW t \in Threads, Leaves(t, p, s, d)
    PROVE  BlockIn(p, s, d)'
<1> DEFINE q == NextPoint(p, s, d)
<1>1. launch' = launch /\ Threads' = Threads /\ (LaunchOK' <=> LaunchOK)
  BY ShapeStays DEF Leaves
<1>2. /\ q \in Points /\ (q # "done" => q \in Synced)
      /\ NextStride(p, s) \in Nat \ {0} /\ NextDimension(p, d) \in Nat
  BY PhaseFacts
<1>3. /\ at' = [at EXCEPT ![t] = q]
      /\ waiting' = IF q \in Synced THEN waiting \cup {t} ELSE waiting
      /\ at[t] = p /\ t \notin waiting
  BY DEF Leaves, Arrives, Runs
<1> HIDE DEF q
<1>4. /\ at' \in [Threads -> Points] /\ at'[t] = q
      /\ \A u \in Threads \ {t} : at'[u] = at[u]
  BY <1>2, <1>3 DEF TypeOK
<1>5. TypeOK'
  <2>1. waiting' \subseteq Threads
    BY <1>3 DEF TypeOK
  <2>2. \A u \in Threads :
           regs'[u].stride \in Nat \ {0} /\ regs'[u].d0 \in Nat /\ regs'[u].max \in Maxima
    BY <1>2 DEF Leaves, TypeOK
  <2>3. DOMAIN reduce' = Threads /\ DOMAIN out' \subseteq 0..(launch'.dim - 1)
    BY <1>1 DEF Leaves
  <2>4. Maxima' = Maxima /\ Points' = Points
    BY DEF Maxima, Points, Synced
  <2> QED BY <1>1, <1>4, <2>1, <2>2, <2>3, <2>4 DEF TypeOK
<1>6. WaitersSynced'
  BY <1>3, <1>4 DEF WaitersSynced, TypeOK, Synced
<1>7. Placed(p, s, d)'
  <2> DEFINE Next3(u) == at'[u] = q /\ regs'[u].stride = NextStride(p, s)
                                    /\ regs'[u].d0 = NextDimension(p, d)
             Same3(u) == at'[u] = p /\ regs'[u].stride = s /\ regs'[u].d0 = d
  <2>1. ASSUME NEW u \in Threads
        PROVE  IF Moved(u)' THEN Next3(u) ELSE Same3(u)
    <3>1. CASE u = t
      <4>1. Moved(t)'
        BY <1>2, <1>3, <1>4 DEF Moved
      <4>2. Next3(t)
        BY <1>4 DEF Leaves
      <4> QED BY <3>1, <4>1, <4>2
    <3>2. CASE u # t
      <4>1. at'[u] = at[u] /\ regs'[u] = regs[u] /\ (u \in waiting' <=> u \in waiting)
        BY <1>3, <1>4, <3>2 DEF Leaves
      <4>2. Moved(u)' <=> Moved(u)
        BY <4>1 DEF Moved
      <4> QED BY <4>1, <4>2 DEF Placed, Here, q
    <3> QED BY <3>1, <3>2
  <2>2. (NextPoint(p, s, d)' = q) /\ (NextStride(p, s)' = NextStride(p, s))
        /\ (NextDimension(p, d)' = NextDimension(p, d))
    BY <1>1, PhaseStays DEF q
  <2> QED BY <1>1, <2>1, <2>2 DEF Placed, Here
<1>8. Permitted(p, s)'
  BY <1>1, PhaseStays DEF Permitted, Leaves
<1>9. RegsOK' /\ MaximaReduced(p)'
  BY DEF Leaves
<1>10. p \in PhasePoints' /\ s \in (Nat \ {0})' /\ d \in Nat'
  BY DEF PhasePoints, Points, Synced
<1> QED BY <1>1, <1>5, <1>6, <1>7, <1>8, <1>9, <1>10 DEF BlockIn

----------------------------------------------------------------------------
(* Every step of a thread leaves a phase.                                  *)

\* A thread that runs is at the phase's point.
LEMMA RunningIsHere ==
    ASSUME NEW p \in PhasePoints, NEW s, NEW d, Placed(p, s, d),
           NEW t \in Threads, NEW q \in Points \ {"done"}, Runs(t, q)
    PROVE  p = q /\ regs[t].stride = s /\ regs[t].d0 = d
BY DEF Placed, Here, Moved, Runs

LEMMA LargestOfSome ==
    ASSUME NEW S \in SUBSET Maxima, S # {}
    PROVE  /\ Max(S) \in Maxima
           /\ Max(S) \in S /\ \A y \in S : Max(S) >= y
<1>1. \E x \in S : \A y \in S : x >= y
  <2>0. \A y \in S : y \in {0, 1, 2}
    BY DEF Maxima
  <2>1. CASE 2 \in S
    BY <2>0, <2>1
  <2>2. CASE 2 \notin S /\ 1 \in S
    BY <2>0, <2>2
  <2>3. CASE 2 \notin S /\ 1 \notin S
    <3>1. 0 \in S /\ \A y \in S : y = 0
      BY <2>0, <2>3
    <3> QED BY <3>1
  <2> QED BY <2>1, <2>2, <2>3
<1> QED BY <1>1, Zenon DEF Max

\* A phase of the threads that have not left it.
InPhase(p, s, d) ==
    /\ LaunchOK /\ TypeOK /\ RegsOK
    /\ p \in PhasePoints /\ s \in Nat \ {0} /\ d \in Nat
    /\ Placed(p, s, d) /\ MaximaReduced(p)

\* The part of leaving a phase that a step which keeps the variables shares
\* with the others of its kind.
LEMMA KeepingRegs ==
    ASSUME NEW p, NEW s, NEW d, InPhase(p, s, d), NEW t \in Threads,
           launch' = launch, regs' = regs,
           p # "sum", p = "tree" => s >= Cardinality(Threads),
           regs[t].stride = s, regs[t].d0 = d
    PROVE  /\ RegsOK'
           /\ \A u \in Threads \ {t} : regs'[u] = regs[u]
           /\ regs'[t].stride = NextStride(p, s)
           /\ regs'[t].d0 = NextDimension(p, d)
           /\ regs'[t].max \in Maxima
<1>1. Cardinality(Threads) \in Nat /\ Threads' = Threads
  BY Shape, ShapeStays DEF InPhase
<1> QED BY <1>1 DEF InPhase, RegsOK, TypeOK, NextStride, NextDimension

LEMMA ScanLeaves ==
    ASSUME NEW p, NEW s, NEW d, InPhase(p, s, d), NEW t \in Threads, ScanChunks(t)
    PROVE  Leaves(t, p, s, d)
<1>1. /\ launch' = launch /\ Threads' = Threads /\ Maxima' = Maxima
      /\ regs' = regs /\ out' = out
  BY ShapeStays DEF ScanChunks, Maxima
<1>2. p = "scan" /\ regs[t].stride = s /\ regs[t].d0 = d
  BY RunningIsHere DEF ScanChunks, Points, InPhase
<1> DEFINE mine == {launch.max[c] : c \in {c \in Chunks : c % Cardinality(Threads) = t}} \cup {0}
<1>3. Max(mine) \in Maxima
  <2>1. mine \in SUBSET Maxima /\ mine # {}
    BY DEF InPhase, LaunchOK, Maxima
  <2> QED BY <2>1, LargestOfSome
<1>4. reduce' = [reduce EXCEPT ![t] = Max(mine)]
  BY DEF ScanChunks
<1> HIDE DEF mine
<1>5. MaximaReduced(p)' /\ DOMAIN reduce' = Threads
  BY <1>1, <1>2, <1>3, <1>4 DEF MaximaReduced, InPhase, TypeOK
<1>6. \A a \in touched' :
         a \in touched \/ (a = <<t, "write", Slot(t)>> /\ MayWrite(p, s, t, Slot(t)))
  BY <1>2 DEF ScanChunks, Touches, MayWrite
<1>7. Runs(t, p) /\ Arrives(t, NextPoint(p, s, d))
  BY <1>2 DEF ScanChunks, NextPoint
<1>8. DOMAIN out' \subseteq 0..(launch.dim - 1)
  BY <1>1 DEF InPhase, TypeOK
<1> QED BY <1>1, <1>2, <1>5, <1>6, <1>7, <1>8, KeepingRegs DEF Leaves

LEMMA ClimbLeaves ==
    ASSUME NEW p, NEW s, NEW d, InPhase(p, s, d), NEW t \in Threads, ClimbTree(t)
    PROVE  Leaves(t, p, s, d)
<1>1. /\ launch' = launch /\ Threads' = Threads /\ Maxima' = Maxima /\ out' = out
      /\ regs' = [regs EXCEPT ![t].stride = Doubled(t)]
  BY ShapeStays DEF ClimbTree, Maxima
<1>2. p = "tree" /\ regs[t].stride = s /\ regs[t].d0 = d
  <2>1. Runs(t, "tree") /\ "tree" \in Points \ {"done"}
    BY DEF ClimbTree, Points, Synced
  <2> QED BY <2>1, RunningIsHere DEF InPhase
<1>3. s < Cardinality(Threads) /\ Runs(t, p) /\ Arrives(t, NextPoint(p, s, d))
  BY <1>2 DEF ClimbTree, NextPoint
<1>4. MaximaReduced(p)' /\ DOMAIN reduce' = Threads
  <2>1. CASE Pairs(t)
    <3> DEFINE both == {reduce[t], reduce[Partner(t)]}
    <3>1. Max(both) \in Maxima
      <4>1. both \in SUBSET Maxima /\ both # {}
        BY <1>2, <2>1 DEF InPhase, MaximaReduced, Pairs
      <4> QED BY <4>1, LargestOfSome
    <3>2. reduce' = [reduce EXCEPT ![t] = Max(both)]
      BY <2>1 DEF ClimbTree
    <3> HIDE DEF both
    <3> QED BY <1>1, <1>2, <3>1, <3>2 DEF MaximaReduced, InPhase, TypeOK
  <2>2. CASE ~Pairs(t)
    <3>1. reduce' = reduce
      BY <2>2 DEF ClimbTree
    <3> QED BY <1>1, <3>1 DEF MaximaReduced, InPhase, TypeOK
  <2> QED BY <2>1, <2>2
<1>5. \A a \in touched' :
         \/ a \in touched
         \/ \E x : \/ a = <<t, "read", x>> /\ MayRead(p, s, t, x)
                   \/ a = <<t, "write", x>> /\ MayWrite(p, s, t, x)
  <2>1. CASE Pairs(t)
    <3>1. \A a \in touched' :
             \/ a \in touched
             \/ a = <<t, "read", Slot(t)>>
             \/ a = <<t, "read", Slot(t + s)>>
             \/ a = <<t, "write", Slot(t)>>
      BY <1>2, <2>1 DEF ClimbTree, Touches, Partner
    <3>2. /\ MayRead(p, s, t, Slot(t)) /\ MayRead(p, s, t, Slot(t + s))
          /\ MayWrite(p, s, t, Slot(t))
      BY <1>2, <1>3, <2>1 DEF MayRead, MayWrite, Pairs
    <3> QED BY <3>1, <3>2
  <2>2. CASE ~Pairs(t)
    BY <2>2 DEF ClimbTree
  <2> QED BY <2>1, <2>2
<1>6. /\ RegsOK'
      /\ \A u \in Threads \ {t} : regs'[u] = regs[u]
      /\ regs'[t].stride = NextStride(p, s)
      /\ regs'[t].d0 = NextDimension(p, d)
      /\ regs'[t].max \in Maxima
  BY <1>1, <1>2, <1>3 DEF InPhase, RegsOK, TypeOK, NextStride, NextDimension, Doubled
<1>7. DOMAIN out' \subseteq 0..(launch.dim - 1)
  BY <1>1 DEF InPhase, TypeOK
<1> QED BY <1>1, <1>3, <1>4, <1>5, <1>6, <1>7 DEF Leaves

LEMMA MaximumLeaves ==
    ASSUME NEW p, NEW s, NEW d, InPhase(p, s, d), NEW t \in Threads, ReadMaximum(t)
    PROVE  Leaves(t, p, s, d)
<1>1. /\ launch' = launch /\ Threads' = Threads /\ Maxima' = Maxima
      /\ reduce' = reduce /\ out' = out
      /\ regs' = [regs EXCEPT ![t].max = reduce[0]]
  BY ShapeStays DEF ReadMaximum, Maxima
<1>2. p = "tree" /\ regs[t].stride = s /\ regs[t].d0 = d
  <2>1. Runs(t, "tree") /\ "tree" \in Points \ {"done"}
    BY DEF ReadMaximum, Points, Synced
  <2> QED BY <2>1, RunningIsHere DEF InPhase
<1>3. s >= Cardinality(Threads) /\ ~(s < Cardinality(Threads)) /\ 0 \in Threads
  <2>1. Cardinality(Threads) \in Nat /\ 0 \in Threads
    BY Shape DEF InPhase
  <2>2. s >= Cardinality(Threads)
    BY <1>2 DEF ReadMaximum
  <2> QED BY <2>1, <2>2 DEF InPhase
<1>4. Runs(t, p) /\ Arrives(t, NextPoint(p, s, d))
  BY <1>2, <1>3 DEF ReadMaximum, NextPoint
<1>5. MaximaReduced(p)' /\ DOMAIN reduce' = Threads /\ DOMAIN out' \subseteq 0..(launch.dim - 1)
  BY <1>1 DEF MaximaReduced, InPhase, TypeOK
<1>6. \A a \in touched' :
         a \in touched \/ (a = <<t, "read", Slot(0)>> /\ MayRead(p, s, t, Slot(0)))
  BY <1>2, <1>3 DEF ReadMaximum, Touches, MayRead
<1>7. reduce[0] \in Maxima
  BY <1>2, <1>3 DEF InPhase, MaximaReduced
<1>8. /\ RegsOK'
      /\ \A u \in Threads \ {t} : regs'[u] = regs[u]
      /\ regs'[t].stride = NextStride(p, s)
      /\ regs'[t].d0 = NextDimension(p, d)
      /\ regs'[t].max \in Maxima
  BY <1>1, <1>2, <1>3, <1>7 DEF InPhase, RegsOK, TypeOK, NextStride, NextDimension
<1> QED BY <1>1, <1>4, <1>5, <1>6, <1>8 DEF Leaves

LEMMA CacheLeaves ==
    ASSUME NEW p, NEW s, NEW d, InPhase(p, s, d), NEW t \in Threads, CacheWeights(t)
    PROVE  Leaves(t, p, s, d)
<1>1. /\ launch' = launch /\ launch.cached /\ regs' = regs /\ reduce' = reduce /\ out' = out
      /\ Threads' = Threads /\ Maxima' = Maxima
  BY ShapeStays DEF CacheWeights, Maxima
<1>2. p = "ranked" /\ regs[t].stride = s /\ regs[t].d0 = d
  <2>1. Runs(t, "ranked") /\ "ranked" \in Points \ {"done"}
    BY DEF CacheWeights, Points, Synced
  <2> QED BY <2>1, RunningIsHere DEF InPhase
<1>3. Runs(t, p) /\ Arrives(t, NextPoint(p, s, d))
  BY <1>1, <1>2 DEF CacheWeights, NextPoint
<1>4. MaximaReduced(p)' /\ DOMAIN reduce' = Threads /\ DOMAIN out' \subseteq 0..(launch.dim - 1)
  BY <1>1 DEF MaximaReduced, InPhase, TypeOK
<1>5. \A a \in touched' :
         \/ a \in touched
         \/ \E x : a = <<t, "write", x>> /\ MayWrite(p, s, t, x)
  BY <1>1, <1>2 DEF CacheWeights, Touches, MayWrite
<1> QED BY <1>1, <1>2, <1>3, <1>4, <1>5, KeepingRegs DEF Leaves

LEMMA AddLeaves ==
    ASSUME NEW p, NEW s, NEW d, InPhase(p, s, d), NEW t \in Threads, AddWeights(t)
    PROVE  Leaves(t, p, s, d)
<1>1. /\ launch' = launch /\ regs' = regs /\ out' = out
      /\ Threads' = Threads /\ Maxima' = Maxima
  BY ShapeStays DEF AddWeights, Maxima
<1>2. /\ p = (IF launch.cached THEN "weighed" ELSE "ranked")
      /\ regs[t].stride = s /\ regs[t].d0 = d
  <2>1. /\ Runs(t, IF launch.cached THEN "weighed" ELSE "ranked")
        /\ {"weighed", "ranked"} \subseteq Points \ {"done"}
    BY DEF AddWeights, Points, Synced
  <2> QED BY <2>1, RunningIsHere DEF InPhase
<1>3. Runs(t, p) /\ Arrives(t, NextPoint(p, s, d))
  BY <1>2 DEF AddWeights, NextPoint
<1>4. MaximaReduced(p)' /\ DOMAIN reduce' = Threads /\ DOMAIN out' \subseteq 0..(launch.dim - 1)
  <2>1. DOMAIN reduce' = DOMAIN reduce
    BY DEF AddWeights
  <2> QED BY <1>1, <1>2, <2>1 DEF MaximaReduced, InPhase, TypeOK
<1>5. \A a \in touched' :
         \/ a \in touched
         \/ \E x : \/ a = <<t, "read", x>> /\ MayRead(p, s, t, x)
                   \/ a = <<t, "write", x>> /\ MayWrite(p, s, t, x)
  <2>1. CASE t = 0
    <3>1. \A a \in touched' :
             \/ a \in touched
             \/ launch.cached /\ \E c \in Chunks : a = <<t, "read", WeightSlot(c)>>
             \/ a = <<t, "write", Slot(0)>>
      BY <2>1 DEF AddWeights, Touches, WeightSlots
    <3>2. /\ launch.cached => \A c \in Chunks : MayRead(p, s, t, WeightSlot(c))
          /\ MayWrite(p, s, t, Slot(0))
      BY <1>2, <2>1 DEF MayRead, MayWrite
    <3> QED BY <3>1, <3>2
  <2>2. CASE t # 0
    BY <2>2 DEF AddWeights
  <2> QED BY <2>1, <2>2
<1> QED BY <1>1, <1>2, <1>3, <1>4, <1>5, KeepingRegs DEF Leaves

LEMMA TotalLeaves ==
    ASSUME NEW p, NEW s, NEW d, InPhase(p, s, d), NEW t \in Threads, ReadTotal(t)
    PROVE  Leaves(t, p, s, d)
<1>1. /\ launch' = launch /\ Threads' = Threads /\ Maxima' = Maxima
      /\ reduce' = reduce /\ out' = out
      /\ regs' = [regs EXCEPT ![t].total = reduce[0]]
  BY ShapeStays DEF ReadTotal, Maxima
<1>2. p = "totalled" /\ regs[t].stride = s /\ regs[t].d0 = d
  <2>1. Runs(t, "totalled") /\ "totalled" \in Points \ {"done"}
    BY DEF ReadTotal, Points, Synced
  <2> QED BY <2>1, RunningIsHere DEF InPhase
<1>3. Runs(t, p) /\ Arrives(t, NextPoint(p, s, d))
  BY <1>2 DEF ReadTotal, NextPoint
<1>4. MaximaReduced(p)' /\ DOMAIN reduce' = Threads /\ DOMAIN out' \subseteq 0..(launch.dim - 1)
  BY <1>1 DEF MaximaReduced, InPhase, TypeOK
<1>5. \A a \in touched' :
         a \in touched \/ (a = <<t, "read", Slot(0)>> /\ MayRead(p, s, t, Slot(0)))
  BY <1>2 DEF ReadTotal, Touches, MayRead
<1>6. /\ RegsOK'
      /\ \A u \in Threads \ {t} : regs'[u] = regs[u]
      /\ regs'[t].stride = NextStride(p, s)
      /\ regs'[t].d0 = NextDimension(p, d)
      /\ regs'[t].max \in Maxima
  BY <1>1, <1>2 DEF InPhase, RegsOK, TypeOK, NextStride, NextDimension
<1> QED BY <1>1, <1>3, <1>4, <1>5, <1>6 DEF Leaves

LEMMA SumLeaves ==
    ASSUME NEW p, NEW s, NEW d, InPhase(p, s, d), NEW t \in Threads, SumLane(t)
    PROVE  Leaves(t, p, s, d)
<1>1. /\ launch' = launch /\ regs' = regs /\ out' = out
      /\ Threads' = Threads /\ Maxima' = Maxima
  BY ShapeStays DEF SumLane, Maxima
<1>2. p = "lanes" /\ regs[t].stride = s /\ regs[t].d0 = d
  <2>1. Runs(t, "lanes") /\ "lanes" \in Points \ {"done"}
    BY DEF SumLane, Points, Synced
  <2> QED BY <2>1, RunningIsHere DEF InPhase
<1>3. Runs(t, p) /\ Arrives(t, NextPoint(p, s, d))
  BY <1>2 DEF SumLane, NextPoint
<1>4. MaximaReduced(p)' /\ DOMAIN reduce' = Threads /\ DOMAIN out' \subseteq 0..(launch.dim - 1)
  <2>1. DOMAIN reduce' = DOMAIN reduce
    BY DEF SumLane
  <2> QED BY <1>1, <1>2, <2>1 DEF MaximaReduced, InPhase, TypeOK
<1>5. \A a \in touched' :
         \/ a \in touched
         \/ \E x : \/ a = <<t, "read", x>> /\ MayRead(p, s, t, x)
                   \/ a = <<t, "write", x>> /\ MayWrite(p, s, t, x)
  <2>1. \A a \in touched' :
           \/ a \in touched
           \/ \E c \in Chunks : a = <<t, "read", WeightSlot(c)>>
           \/ a = <<t, "write", Slot(t)>>
    <3>1. WeightSlots(LaneChunks(Lane(t))) \subseteq {WeightSlot(c) : c \in Chunks}
      BY DEF WeightSlots, LaneChunks
    <3> QED BY <3>1 DEF SumLane, Touches
  <2>2. (\A c \in Chunks : MayRead(p, s, t, WeightSlot(c))) /\ MayWrite(p, s, t, Slot(t))
    BY <1>2 DEF MayRead, MayWrite
  <2> QED BY <2>1, <2>2
<1> QED BY <1>1, <1>2, <1>3, <1>4, <1>5, KeepingRegs DEF Leaves

LEMMA LanesLeave ==
    ASSUME NEW p, NEW s, NEW d, InPhase(p, s, d), NEW t \in Threads, AddLanes(t)
    PROVE  Leaves(t, p, s, d)
<1>1. /\ launch' = launch /\ Threads' = Threads /\ Maxima' = Maxima /\ reduce' = reduce
      /\ regs' = [regs EXCEPT ![t].d0 = @ + Width]
  BY ShapeStays DEF AddLanes, NextPass, Maxima
<1>2. p = "sum" /\ regs[t].stride = s /\ regs[t].d0 = d
  <2>1. Runs(t, "sum") /\ "sum" \in Points \ {"done"}
    BY DEF AddLanes, Points, Synced
  <2> QED BY <2>1, RunningIsHere DEF InPhase
<1>3. Runs(t, p) /\ Arrives(t, NextPoint(p, s, d))
  BY <1>2 DEF AddLanes, NextPoint
<1>4. t \in Nat /\ Width \in Nat \ {0} /\ Lanes \in Nat \ {0} /\ d \in Nat
  BY Shape DEF InPhase
<1>5. MaximaReduced(p)' /\ DOMAIN reduce' = Threads
  BY <1>1 DEF MaximaReduced, InPhase, TypeOK
<1>6. DOMAIN out' \subseteq 0..(launch.dim - 1)
  <2>1. CASE Writes(t)
    <3>1. Dimension(t) \in Nat
      <4>1. t % Width \in Nat
        BY <1>4
      <4> QED BY <1>2, <1>4, <4>1 DEF Dimension
    <3>2. Dimension(t) \in 0..(launch.dim - 1)
      BY <2>1, <3>1 DEF Writes, InPhase, LaunchOK
    <3>3. DOMAIN out' = DOMAIN out \cup {Dimension(t)}
      BY <2>1 DEF AddLanes
    <3> QED BY <3>2, <3>3 DEF InPhase, TypeOK
  <2>2. CASE ~Writes(t)
    BY <2>2 DEF AddLanes, InPhase, TypeOK
  <2> QED BY <2>1, <2>2
<1>7. \A a \in touched' :
         a \in touched \/ \E x : a = <<t, "read", x>> /\ MayRead(p, s, t, x)
  <2>1. CASE Writes(t)
    <3>1. \A a \in touched' :
             \/ a \in touched
             \/ \E l \in 0..(Lanes - 1) : a = <<t, "read", Slot(l * Width + (t % Width))>>
      BY <2>1 DEF AddLanes, Touches
    <3>2. \A l \in 0..(Lanes - 1) : l * Width + (t % Width) \in Int
      BY <1>4
    <3>3. \A i \in Int : MayRead(p, s, t, Slot(i))
      BY <1>2 DEF MayRead
    <3> QED BY <3>1, <3>2, <3>3
  <2>2. CASE ~Writes(t)
    BY <2>2 DEF AddLanes
  <2> QED BY <2>1, <2>2
<1>8. /\ RegsOK'
      /\ \A u \in Threads \ {t} : regs'[u] = regs[u]
      /\ regs'[t].stride = NextStride(p, s)
      /\ regs'[t].d0 = NextDimension(p, d)
      /\ regs'[t].max \in Maxima
  BY <1>1, <1>2 DEF InPhase, RegsOK, TypeOK, NextStride, NextDimension
<1> QED BY <1>1, <1>3, <1>5, <1>6, <1>7, <1>8 DEF Leaves

LEMMA FinishLeaves ==
    ASSUME NEW p, NEW s, NEW d, InPhase(p, s, d), NEW t \in Threads, Finish(t)
    PROVE  Leaves(t, p, s, d)
<1>1. /\ launch' = launch /\ regs' = regs /\ out' = out /\ reduce' = reduce /\ touched' = touched
      /\ Threads' = Threads /\ Maxima' = Maxima
  BY ShapeStays DEF Finish, memory, Maxima
<1>2. p = "lanes" /\ regs[t].stride = s /\ regs[t].d0 = d
  <2>1. Runs(t, "lanes") /\ "lanes" \in Points \ {"done"}
    BY DEF Finish, Points, Synced
  <2> QED BY <2>1, RunningIsHere DEF InPhase
<1>3. ~(d < launch.dim)
  BY <1>2 DEF Finish, InPhase, LaunchOK
<1>4. Runs(t, p) /\ Arrives(t, NextPoint(p, s, d))
  BY <1>2, <1>3 DEF Finish, NextPoint
<1>5. MaximaReduced(p)' /\ DOMAIN reduce' = Threads /\ DOMAIN out' \subseteq 0..(launch.dim - 1)
  BY <1>1 DEF MaximaReduced, InPhase, TypeOK
<1> QED BY <1>1, <1>2, <1>4, <1>5, KeepingRegs DEF Leaves

----------------------------------------------------------------------------
(* The barrier moves the whole block into the phase that follows.          *)

LEMMA BarrierEntersPhase ==
    ASSUME NEW p, NEW s, NEW d, InPhase(p, s, d), WaitersSynced, Barrier
    PROVE  /\ NextPoint(p, s, d) # "done"
           /\ \A t \in Threads : Moved(t) /\ ~Moved(t)'
           /\ \A q, s1, d1 :
                /\ q = NextPoint(p, s, d)
                /\ s1 = NextStride(p, s)
                /\ d1 = NextDimension(p, d)
                => BlockIn(q, s1, d1)'
<1> DEFINE q == NextPoint(p, s, d)
           s1 == NextStride(p, s)
           d1 == NextDimension(p, d)
<1>1. /\ launch' = launch /\ at' = at /\ regs' = regs /\ reduce' = reduce /\ out' = out
      /\ waiting' = {} /\ touched' = {}
      /\ Threads' = Threads /\ (LaunchOK' <=> LaunchOK)
  BY ShapeStays DEF Barrier
<1>2. q \in Points \ {"scan"} /\ s1 \in Nat \ {0} /\ d1 \in Nat
  BY PhaseFacts DEF InPhase
<1>3. \A t \in Threads : Here(t, q, s1, d1)
  BY DEF Barrier, InPhase, Placed, Moved
<1>4. q # "done" /\ \A t \in Threads : at[t] # "done"
  <2>1. PICK t \in Threads : t \in waiting
    BY DEF Barrier, InPhase, TypeOK
  <2>2. at[t] # "done"
    BY <2>1 DEF WaitersSynced, Synced
  <2> QED BY <1>3, <2>2 DEF Here
<1>5. q = "tree" => \A t \in Threads : reduce[t] \in Maxima
  <2>1. q = "tree" => p \in {"scan", "tree"}
    BY DEF NextPoint, InPhase, PhasePoints, Points, Synced
  <2> QED BY <2>1 DEF InPhase, MaximaReduced
<1> HIDE DEF q, s1, d1
<1>6. TypeOK'
  BY <1>1 DEF InPhase, TypeOK, Maxima, Points, Synced
<1>7. RegsOK' /\ WaitersSynced' /\ LaunchOK'
  BY <1>1 DEF InPhase, RegsOK, WaitersSynced
<1>8. ASSUME NEW p1, NEW s2, NEW d2, p1 = q, s2 = s1, d2 = d1
      PROVE  Placed(p1, s2, d2)' /\ Permitted(p1, s2)' /\ MaximaReduced(p1)'
  <2>1. Placed(p1, s2, d2)'
    BY <1>1, <1>3, <1>4, <1>8 DEF Placed, Here, Moved
  <2>2. Permitted(p1, s2)'
    BY <1>1 DEF Permitted
  <2>3. MaximaReduced(p1)'
    BY <1>1, <1>2, <1>5, <1>8 DEF MaximaReduced, Maxima
  <2> QED BY <2>1, <2>2, <2>3
<1>9. \A t \in Threads : Moved(t) /\ ~Moved(t)'
  BY <1>1, <1>4 DEF Barrier, Moved
<1>10. ASSUME NEW p1, NEW s2, NEW d2, p1 = q, s2 = s1, d2 = d1
       PROVE  BlockIn(p1, s2, d2)'
  BY <1>2, <1>4, <1>6, <1>7, <1>8, <1>10 DEF BlockIn, PhasePoints, Points, Synced
<1> QED BY <1>4, <1>9, <1>10 DEF q, s1, d1

----------------------------------------------------------------------------
(* The invariant.                                                          *)

LEMMA InitInv ==
    ASSUME Init
    PROVE  BlockIn("scan", 1, 0)
<1>1. PICK dim \in Dimensions, n \in ChunkCounts, cached \in BOOLEAN :
        \E max \in [0..(n - 1) -> Maxima] :
          launch = [dim |-> dim, chunks |-> n, cached |-> cached, max |-> max]
  BY DEF Init
<1> PICK max \in [0..(n - 1) -> Maxima] :
        launch = [dim |-> dim, chunks |-> n, cached |-> cached, max |-> max]
  BY <1>1
<1>2. LaunchOK
  <2>1. dim \in Nat \ {0} /\ n \in Nat \ {0}
    BY ConstantsOK
  <2>2. Chunks = 0..(n - 1)
    BY <1>1 DEF Chunks
  <2> QED BY <1>1, <2>1, <2>2 DEF LaunchOK
<1>3. /\ at = [t \in Threads |-> "scan"]
      /\ waiting = {} /\ touched = {}
      /\ regs = [t \in Threads |-> [stride |-> 1, d0 |-> 0, max |-> 0, total |-> <<>>]]
      /\ reduce = [t \in Threads |-> 0]
      /\ out = <<>>
  BY DEF Init
<1>4. RegsOK /\ WaitersSynced
  BY <1>3 DEF RegsOK, WaitersSynced
<1>5. DOMAIN out = {}
  BY <1>3
<1>6. TypeOK
  BY <1>3, <1>5 DEF TypeOK, Points, Maxima
<1>7. Placed("scan", 1, 0) /\ Permitted("scan", 1) /\ MaximaReduced("scan")
  BY <1>3 DEF Placed, Here, Moved, Permitted, MaximaReduced, Maxima
<1>8. "scan" \in PhasePoints /\ 1 \in Nat \ {0} /\ 0 \in Nat
  BY DEF PhasePoints, Points
<1> QED BY <1>2, <1>4, <1>6, <1>7, <1>8 DEF BlockIn

LEMMA StepLeaves ==
    ASSUME NEW p, NEW s, NEW d, BlockIn(p, s, d), NEW t \in Threads, Step(t)
    PROVE  InPhase(p, s, d) /\ Leaves(t, p, s, d) /\ BlockIn(p, s, d)'
<1>1. InPhase(p, s, d) /\ WaitersSynced /\ Permitted(p, s)
  BY DEF BlockIn, InPhase
<1>2. Leaves(t, p, s, d)
  BY <1>1, ScanLeaves, ClimbLeaves, MaximumLeaves, CacheLeaves, AddLeaves,
     TotalLeaves, SumLeaves, LanesLeave, FinishLeaves DEF Step
<1> QED BY <1>1, <1>2, LeavingKeepsPhase DEF InPhase

LEMMA SamePhase ==
    ASSUME NEW p, NEW s, NEW d, BlockIn(p, s, d), UNCHANGED vars
    PROVE  BlockIn(p, s, d)'
<1>1. /\ launch' = launch /\ at' = at /\ waiting' = waiting /\ regs' = regs
      /\ reduce' = reduce /\ out' = out /\ touched' = touched
  BY DEF vars, memory
<1>2. /\ Threads' = Threads /\ (LaunchOK' <=> LaunchOK) /\ Maxima' = Maxima
      /\ PhasePoints' = PhasePoints
  BY <1>1, ShapeStays DEF Maxima, PhasePoints, Points, Synced
<1>3. TypeOK' /\ RegsOK' /\ WaitersSynced'
  BY <1>1, <1>2 DEF BlockIn, TypeOK, RegsOK, WaitersSynced, Points, Synced
<1>4. Placed(p, s, d)'
  <2>1. /\ NextPoint(p, s, d)' = NextPoint(p, s, d)
        /\ NextDimension(p, d)' = NextDimension(p, d)
        /\ NextStride(p, s)' = NextStride(p, s)
    BY <1>1, PhaseStays
  <2> QED BY <1>1, <1>2, <2>1 DEF BlockIn, Placed, Here, Moved
<1>5. Permitted(p, s)' /\ MaximaReduced(p)'
  BY <1>1, <1>2, PhaseStays DEF BlockIn, Permitted, MaximaReduced
<1> QED BY <1>2, <1>3, <1>4, <1>5 DEF BlockIn

LEMMA NextInv ==
    ASSUME IInv, [Next]_vars
    PROVE  IInv'
<1>1. PICK p, s, d : BlockIn(p, s, d)
  BY DEF IInv
<1>2. ASSUME NEW t \in Threads, Step(t)
      PROVE  IInv'
  BY <1>1, <1>2, StepLeaves DEF IInv
<1>3. CASE Barrier
  <2>1. InPhase(p, s, d) /\ WaitersSynced
    BY <1>1 DEF BlockIn, InPhase
  <2> QED BY <1>3, <2>1, BarrierEntersPhase DEF IInv
<1>4. CASE UNCHANGED vars
  BY <1>1, <1>4, SamePhase DEF IInv
<1> QED BY <1>2, <1>3, <1>4 DEF Next

\* The variables of a block of attention_combine_kernel keep their types: a
\* stride is never 0, a thread's maximum is one, and a block writes no
\* dimension that the head does not have, whatever is launched.
THEOREM TypeCorrect == Spec => []TypeOK
<1>1. IInv => TypeOK
  BY DEF IInv, BlockIn
<1>2. Init => IInv
  BY InitInv DEF IInv
<1> QED BY <1>1, <1>2, NextInv, PTL DEF Spec

\* The barriers of attention_combine_kernel are enough for one shared array
\* to serve a maximum, a total and the lanes' sums in turn: for any number of
\* threads, dimensions and chunks, no two threads meet in a slot.
THEOREM RaceFree == Spec => []NoDataRace
<1>1. IInv => NoDataRace
  BY PermittedIsRaceFree
<1>2. Init => IInv
  BY InitInv DEF IInv
<1> QED BY <1>1, <1>2, NextInv, PTL DEF Spec

----------------------------------------------------------------------------
(* A block comes to its end.                                               *)

\* A thread that waits has left the phase for a point before a barrier, where
\* all who have left it are; the others are where no thread ends.
LEMMA PhaseMeets ==
    ASSUME NEW p, NEW s, NEW d, BlockIn(p, s, d)
    PROVE  BarriersAreMet
<1> SUFFICES ASSUME NEW t \in waiting, NEW u \in Threads
             PROVE  /\ at[u] # "done"
                    /\ u \in waiting => /\ at[u] = at[t]
                                        /\ regs[u].stride = regs[t].stride
                                        /\ regs[u].d0 = regs[t].d0
  BY DEF BarriersAreMet
<1>1. t \in Threads /\ at[t] # "done"
  BY DEF BlockIn, TypeOK, WaitersSynced, Synced
<1>2. Here(t, NextPoint(p, s, d), NextStride(p, s), NextDimension(p, d))
  BY <1>1 DEF BlockIn, Placed, Moved
<1>3. IF Moved(u) THEN Here(u, NextPoint(p, s, d), NextStride(p, s), NextDimension(p, d))
      ELSE at[u] # "done" /\ u \notin waiting
  BY DEF BlockIn, Placed, Moved
<1> QED BY <1>1, <1>2, <1>3 DEF Here, Moved

\* However many threads run and whatever is launched, they meet at each
\* barrier of attention_combine_kernel, turn by turn.
THEOREM BarriersMet == Spec => []BarriersAreMet
<1>1. IInv => BarriersAreMet
  BY PhaseMeets DEF IInv
<1>2. Init => IInv
  BY InitInv DEF IInv
<1> QED BY <1>1, <1>2, NextInv, PTL DEF Spec

\* The steps a thread in a phase has left.
PhaseLeft(p, s, d) ==
    LET turns == Left(Cardinality(Threads) - s)
        passes == 2 * Left(launch.dim - d)
    IN  CASE p = "scan" -> turns + passes + 6
          [] p = "tree" -> turns + passes + 5
          [] p = "ranked" -> passes + 4
          [] p = "weighed" -> passes + 3
          [] p = "totalled" -> passes + 2
          [] p = "lanes" -> passes + 1
          [] p = "sum" -> passes
          [] p = "done" -> 0

LEMMA LeftFalls ==
    ASSUME NEW n \in Nat, NEW s \in Nat, NEW k \in Nat \ {0}
    PROVE  /\ Left(n - s) \in Nat /\ Left(n - (s + k)) \in Nat
           /\ s < n => Left(n - (s + k)) < Left(n - s)
BY DEF Left

\* The last of a pass's two points is reached only with a dimension left.
InPass(p, d) == p = "sum" => d < launch.dim

LEMMA PhasesRunOut ==
    ASSUME LaunchOK, NEW p \in PhasePoints, NEW s \in Nat \ {0}, NEW d \in Nat, InPass(p, d)
    PROVE  PhaseLeft(NextPoint(p, s, d), NextStride(p, s), NextDimension(p, d))
             < PhaseLeft(p, s, d)
<1> DEFINE N == Cardinality(Threads)
           turns == Left(N - s)
           passes == 2 * Left(launch.dim - d)
<1>1. /\ N \in Nat \ {0} /\ Width \in Nat \ {0} /\ launch.dim \in Nat \ {0}
  BY Shape DEF LaunchOK
<1>2. /\ turns \in Nat
      /\ s < N => Left(N - 2 * s) \in Nat /\ Left(N - 2 * s) < turns
  <2>1. 2 * s = s + s
    OBVIOUS
  <2> QED BY <1>1, <2>1, LeftFalls
<1>3. /\ passes \in Nat
      /\ d < launch.dim => /\ 2 * Left(launch.dim - (d + Width)) \in Nat
                           /\ 2 * Left(launch.dim - (d + Width)) + 2 <= passes
                           /\ 2 <= passes
  <2>1. /\ Left(launch.dim - d) \in Nat /\ Left(launch.dim - (d + Width)) \in Nat
        /\ d < launch.dim => Left(launch.dim - (d + Width)) < Left(launch.dim - d)
    BY <1>1, LeftFalls
  <2> QED BY <2>1
<1>4. CASE p = "scan"
  <2>1. /\ PhaseLeft(p, s, d) = turns + passes + 6
        /\ PhaseLeft("tree", s, d) = turns + passes + 5
    BY <1>4 DEF PhaseLeft
  <2>2. NextPoint(p, s, d) = "tree" /\ NextStride(p, s) = s /\ NextDimension(p, d) = d
    BY <1>4 DEF NextPoint, NextStride, NextDimension
  <2> HIDE DEF turns, passes
  <2> QED BY <1>2, <1>3, <2>1, <2>2
<1>5. CASE p = "tree" /\ s < N
  <2>1. /\ PhaseLeft(p, s, d) = turns + passes + 5
        /\ PhaseLeft("tree", 2 * s, d) = Left(N - 2 * s) + passes + 5
    BY <1>5 DEF PhaseLeft
  <2>2. NextPoint(p, s, d) = "tree" /\ NextStride(p, s) = 2 * s /\ NextDimension(p, d) = d
    BY <1>5 DEF NextPoint, NextStride, NextDimension
  <2> HIDE DEF turns, passes
  <2> QED BY <1>2, <1>3, <1>5, <2>1, <2>2
<1>6. CASE p = "tree" /\ ~(s < N)
  <2>1. /\ PhaseLeft(p, s, d) = turns + passes + 5
        /\ PhaseLeft("ranked", s, d) = passes + 4
    BY <1>6 DEF PhaseLeft
  <2>2. NextPoint(p, s, d) = "ranked" /\ NextStride(p, s) = s /\ NextDimension(p, d) = d
    BY <1>6 DEF NextPoint, NextStride, NextDimension
  <2> HIDE DEF turns, passes
  <2> QED BY <1>2, <1>3, <2>1, <2>2
<1>7. CASE p \in {"ranked", "weighed", "totalled"}
  <2>1. /\ NextStride(p, s) = s /\ NextDimension(p, d) = d
        /\ p = "ranked" => NextPoint(p, s, d) \in {"weighed", "totalled"}
        /\ p = "weighed" => NextPoint(p, s, d) = "totalled"
        /\ p = "totalled" => NextPoint(p, s, d) = "lanes"
    BY <1>7 DEF NextPoint, NextStride, NextDimension
  <2>2. /\ PhaseLeft("ranked", s, d) = passes + 4 /\ PhaseLeft("weighed", s, d) = passes + 3
        /\ PhaseLeft("totalled", s, d) = passes + 2 /\ PhaseLeft("lanes", s, d) = passes + 1
    BY DEF PhaseLeft
  <2> HIDE DEF turns, passes
  <2> QED BY <1>3, <1>7, <2>1, <2>2
<1>8. CASE p = "lanes"
  <2>1. /\ NextStride(p, s) = s /\ NextDimension(p, d) = d
        /\ NextPoint(p, s, d) = IF d < launch.dim THEN "sum" ELSE "done"
    BY <1>8 DEF NextPoint, NextStride, NextDimension
  <2>2. /\ PhaseLeft("lanes", s, d) = passes + 1 /\ PhaseLeft("sum", s, d) = passes
        /\ PhaseLeft("done", s, d) = 0
    BY DEF PhaseLeft
  <2> HIDE DEF turns, passes
  <2> QED BY <1>3, <1>8, <2>1, <2>2
<1>9. CASE p = "sum"
  <2>1. /\ NextStride(p, s) = s /\ NextDimension(p, d) = d + Width
        /\ NextPoint(p, s, d) = "lanes"
    BY <1>9 DEF NextPoint, NextStride, NextDimension
  <2>2. /\ PhaseLeft("lanes", s, d + Width) = 2 * Left(launch.dim - (d + Width)) + 1
        /\ PhaseLeft("sum", s, d) = passes
    BY DEF PhaseLeft
  <2>3. d < launch.dim
    BY <1>9 DEF InPass
  <2> HIDE DEF turns, passes
  <2> QED BY <1>3, <1>9, <2>1, <2>2, <2>3
<1> QED BY <1>4, <1>5, <1>6, <1>7, <1>8, <1>9 DEF PhasePoints, Points, Synced

LEMMA StepsLeftHere ==
    ASSUME NEW t, NEW p, NEW s, NEW d, Here(t, p, s, d)
    PROVE  StepsLeft(t) = PhaseLeft(p, s, d)
BY DEF Here, StepsLeft, PhaseLeft

PassInv == \E p, s, d : BlockIn(p, s, d) /\ InPass(p, d)

\* What one step does to the steps that the threads have left.
StepRunsOut ==
    \/ /\ waiting # {} /\ waiting' = {}
       /\ \A t \in Threads : StepsLeft(t)' = StepsLeft(t)
    \/ \E t \in Threads :
        /\ t \notin waiting
        /\ StepsLeft(t)' < StepsLeft(t)
        /\ \A u \in Threads \ {t} : StepsLeft(u)' = StepsLeft(u)

LEMMA NextRunsOut ==
    ASSUME PassInv, [Next]_vars
    PROVE  PassInv' /\ [StepRunsOut]_vars
<1>1. PICK p, s, d : BlockIn(p, s, d) /\ InPass(p, d)
  BY DEF PassInv
<1>2. ASSUME NEW t \in Threads, Step(t)
      PROVE  PassInv' /\ StepRunsOut
  <2>1. InPhase(p, s, d) /\ Leaves(t, p, s, d) /\ BlockIn(p, s, d)'
    BY <1>1, <1>2, StepLeaves
  <2>2. launch' = launch /\ Threads' = Threads
    BY <2>1, ShapeStays DEF Leaves
  <2>3. PassInv'
    BY <1>1, <2>1, <2>2 DEF PassInv, InPass
  <2>4. /\ t \notin waiting /\ at[t] = p /\ at' = [at EXCEPT ![t] = NextPoint(p, s, d)]
        /\ \A u \in Threads \ {t} : regs'[u] = regs[u]
        /\ regs'[t].stride = NextStride(p, s) /\ regs'[t].d0 = NextDimension(p, d)
    BY <2>1 DEF Leaves, Runs, Arrives
  <2>5. LaunchOK /\ TypeOK /\ p \in PhasePoints /\ s \in Nat \ {0} /\ d \in Nat
    BY <1>1 DEF BlockIn
  <2>6. StepsLeft(t) = PhaseLeft(p, s, d)
    <3>1. Here(t, p, s, d)
      BY <1>1, <2>4 DEF BlockIn, Placed, Moved, PhasePoints
    <3> QED BY <3>1, StepsLeftHere
  <2>7. StepsLeft(t)' = PhaseLeft(NextPoint(p, s, d), NextStride(p, s), NextDimension(p, d))
    <3>1. at'[t] = NextPoint(p, s, d)
      BY <2>4, <2>5 DEF TypeOK
    <3> QED BY <2>2, <2>4, <3>1 DEF StepsLeft, PhaseLeft
  <2>8. \A u \in Threads \ {t} : StepsLeft(u)' = StepsLeft(u)
    <3>1. \A u \in Threads \ {t} : at'[u] = at[u]
      BY <2>4, <2>5 DEF TypeOK
    <3> QED BY <2>2, <2>4, <3>1 DEF StepsLeft
  <2>9. StepsLeft(t)' < StepsLeft(t)
    BY <1>1, <2>5, <2>6, <2>7, PhasesRunOut
  <2> QED BY <2>3, <2>4, <2>8, <2>9 DEF StepRunsOut
<1>3. CASE Barrier
  <2>1. InPhase(p, s, d) /\ WaitersSynced
    BY <1>1 DEF BlockIn, InPhase
  <2>2. PICK q, s1, d1 : /\ q = NextPoint(p, s, d) /\ s1 = NextStride(p, s)
                         /\ d1 = NextDimension(p, d)
    OBVIOUS
  <2>3. /\ launch' = launch /\ at' = at /\ regs' = regs /\ Threads' = Threads
        /\ waiting # {} /\ waiting' = {}
    BY <1>3, ShapeStays DEF Barrier
  <2>4. q = "sum" => d1 < launch.dim
    BY <2>1, <2>2 DEF NextPoint, NextDimension, InPhase, PhasePoints, Points, Synced
  <2>5. PassInv'
    <3>1. BlockIn(q, s1, d1)'
      BY <1>3, <2>1, <2>2, BarrierEntersPhase
    <3>2. InPass(q, d1)'
      BY <2>3, <2>4 DEF InPass
    <3> QED BY <3>1, <3>2 DEF PassInv
  <2>6. \A t \in Threads : StepsLeft(t)' = StepsLeft(t)
    BY <2>3 DEF StepsLeft
  <2> QED BY <2>3, <2>5, <2>6 DEF StepRunsOut
<1>4. CASE UNCHANGED vars
  <2>1. BlockIn(p, s, d)'
    BY <1>1, <1>4, SamePhase
  <2> QED BY <1>1, <1>4, <2>1 DEF PassInv, InPass, vars
<1> QED BY <1>2, <1>3, <1>4 DEF Next

\* Each step of a block of attention_combine_kernel brings one thread nearer
\* to its end, by a count that the launch bounds, or opens a barrier: no loop
\* of it turns for ever, whatever is launched.
THEOREM BlockRunsOut == Spec => StepsRunOut
<1>1. Init => PassInv
  BY InitInv DEF PassInv, InPass
<1>2. PassInv /\ [Next]_vars => [StepRunsOut]_vars
  BY NextRunsOut
<1>3. PassInv /\ [Next]_vars => PassInv'
  BY NextRunsOut
<1>4. StepRunsOut <=>
        (\/ /\ waiting # {} /\ waiting' = {}
            /\ \A t \in Threads : StepsLeft(t)' = StepsLeft(t)
         \/ \E t \in Threads :
              /\ t \notin waiting
              /\ StepsLeft(t)' < StepsLeft(t)
              /\ \A u \in Threads \ {t} : StepsLeft(u)' = StepsLeft(u))
  BY DEF StepRunsOut
<1> QED BY <1>1, <1>2, <1>3, <1>4, PTL DEF Spec, StepsRunOut

----------------------------------------------------------------------------
(* What the block has computed when it is in a phase.                      *)

Largest == Max({launch.max[c] : c \in Chunks})

\* The maxima that the slots of n threads from t are to hold, and the largest.
MaximaFrom(t, n) ==
    {launch.max[c] : c \in {c \in Chunks : c % Cardinality(Threads) \in t..(t + n - 1)}} \cup {0}

Best(t, n) == Max(MaximaFrom(t, n))

\* What the slot of thread t serves for in the pass from dimension d.
LaneSlot(t, d) ==
    IF d + (t % Width) < launch.dim /\ Lane(t) < Lanes THEN FixedLane(Lane(t)) ELSE <<>>

\* The dimensions that are written.
Finished(p, d) ==
    {x \in 0..(launch.dim - 1) :
        \/ x < d
        \/ p = "sum" /\ \E t \in Threads : Moved(t) /\ Lane(t) = 0 /\ x = d + (t % Width)}

\* The phases in which every thread knows the maximum.
Ranked == {"ranked", "weighed", "totalled", "lanes", "sum"}

\* The partial maxima: n of each thread whose slot is still in the tree.
TreeData(p, s) ==
    /\ p = "scan" => s = 1 /\ \A t \in Threads : Moved(t) => reduce[t] = Best(t, 1)
    /\ p = "tree" => \A t \in Threads : t % s = 0 =>
        reduce[t] = Best(t, IF Moved(t) /\ s < Cardinality(Threads) /\ t % (2 * s) = 0
                            THEN 2 * s ELSE s)

\* What the threads know in their registers.
RegisterData(p, s) ==
    /\ p = "tree" /\ s >= Cardinality(Threads) =>
        \A t \in Threads : Moved(t) => regs[t].max = Largest
    /\ p \in Ranked => \A t \in Threads : regs[t].max = Largest
    /\ p = "totalled" => \A t \in Threads : Moved(t) => regs[t].total = FixedTotal
    /\ p \in {"lanes", "sum"} => \A t \in Threads : regs[t].total = FixedTotal

\* The shared weights, when they are cached, and the total.
WeightData(p) ==
    /\ p = "weighed" => launch.cached
    /\ weight = [c \in Chunks |-> weight[c]]
    /\ p = "ranked" /\ launch.cached =>
        \A c \in Chunks : Moved(c % Cardinality(Threads)) => weight[c] = FixedWeights[c]
    /\ p \in Ranked \ {"ranked"} /\ launch.cached => weight = FixedWeights
    /\ p = (IF launch.cached THEN "weighed" ELSE "ranked") =>
        (Moved(0) => reduce[0] = FixedTotal)
    /\ p = "totalled" => reduce[0] = FixedTotal

\* The lanes' sums of this pass, and the dimensions of the earlier ones.
OutputData(p, d) ==
    /\ p \notin {"lanes", "sum"} => d = 0
    /\ p = "lanes" /\ d < launch.dim =>
        \A t \in Threads : Moved(t) => reduce[t] = LaneSlot(t, d)
    /\ p = "sum" => \A t \in Threads : reduce[t] = LaneSlot(t, d)
    /\ out = [x \in Finished(p, d) |-> FixedSum]

Data(p, s, d) == TreeData(p, s) /\ RegisterData(p, s) /\ WeightData(p) /\ OutputData(p, d)

\* None of this depends on anything but the launch.
LEMMA FixedStays ==
    ASSUME launch' = launch
    PROVE  /\ Threads' = Threads /\ Chunks' = Chunks /\ Lanes' = Lanes /\ Width' = Width
           /\ Largest' = Largest
           /\ \A t, n : Best(t, n)' = Best(t, n)
           /\ FixedWeights' = FixedWeights
           /\ FixedTotal' = FixedTotal
           /\ FixedSum' = FixedSum
           /\ \A t, d : LaneSlot(t, d)' = LaneSlot(t, d)
<1>1. Threads' = Threads /\ Chunks' = Chunks /\ Width' = Width
  BY ShapeStays
<1>2. Lanes' = Lanes
  BY <1>1 DEF Lanes
<1>3. Largest' = Largest
  BY <1>1 DEF Largest
<1>4. ASSUME NEW t, NEW n PROVE Best(t, n)' = Best(t, n)
  BY <1>1 DEF Best, MaximaFrom
<1>5. FixedWeights' = FixedWeights
  BY <1>1 DEF FixedWeights, HasKeys
<1>6. \A cs : InOrder(cs)' = InOrder(cs)
  BY DEF InOrder
<1>7. FixedTotal' = FixedTotal
  BY <1>1, <1>5, <1>6 DEF FixedTotal, HasKeys
<1>8. \A l : FixedLane(l)' = FixedLane(l)
  BY <1>1, <1>2, <1>5, <1>6, <1>7 DEF FixedLane, HasKeys, Share
<1>9. FixedSum' = FixedSum
  BY <1>2, <1>8 DEF FixedSum
<1>10. ASSUME NEW t, NEW d PROVE LaneSlot(t, d)' = LaneSlot(t, d)
  <2>1. Lane(t)' = Lane(t)
    BY <1>1 DEF Lane
  <2>2. FixedLane(Lane(t))' = FixedLane(Lane(t))
    BY <1>8, <2>1
  <2> QED BY <1>1, <1>2, <2>1, <2>2 DEF LaneSlot
<1> QED BY <1>1, <1>2, <1>3, <1>4, <1>5, <1>7, <1>9, <1>10

----------------------------------------------------------------------------
(* Steps and the barrier, of the data.                                     *)

LEMMA LeavingMoves ==
    ASSUME NEW p, NEW s, NEW d, InPhase(p, s, d), NEW t \in Threads, Leaves(t, p, s, d)
    PROVE  /\ launch' = launch
           /\ ~Moved(t) /\ Moved(t)'
           /\ \A u \in Threads : u # t => (Moved(u)' <=> Moved(u))
<1> DEFINE q == NextPoint(p, s, d)
<1>1. q \in Points /\ (q # "done" => q \in Synced)
  BY PhaseFacts DEF InPhase
<1>2. /\ at' = [at EXCEPT ![t] = q] /\ launch' = launch
      /\ waiting' = IF q \in Synced THEN waiting \cup {t} ELSE waiting
      /\ at[t] = p /\ t \notin waiting
  BY DEF Leaves, Arrives, Runs
<1> HIDE DEF q
<1> QED BY <1>1, <1>2 DEF Moved, InPhase, TypeOK, PhasePoints

\* The phase that a step is taken in.
LEMMA StepPhase ==
    ASSUME NEW p, NEW s, NEW d, InPhase(p, s, d), NEW t \in Threads
    PROVE  /\ ScanChunks(t) => p = "scan"
           /\ ClimbTree(t) => p = "tree" /\ s < Cardinality(Threads)
           /\ ReadMaximum(t) => p = "tree" /\ s >= Cardinality(Threads)
           /\ CacheWeights(t) => p = "ranked"
           /\ AddWeights(t) => p = IF launch.cached THEN "weighed" ELSE "ranked"
           /\ ReadTotal(t) => p = "totalled"
           /\ SumLane(t) => p = "lanes" /\ d < launch.dim
           /\ AddLanes(t) => p = "sum"
           /\ Finish(t) => p = "lanes" /\ ~(d < launch.dim)
           /\ Step(t) => regs[t].stride = s /\ regs[t].d0 = d
<1>1. {"scan", "tree", "ranked", "weighed", "totalled", "lanes", "sum"} \subseteq Points \ {"done"}
  BY DEF Points, Synced
<1>2. \A q \in Points \ {"done"} : Runs(t, q) => p = q /\ regs[t].stride = s /\ regs[t].d0 = d
  BY RunningIsHere DEF InPhase
<1>3. /\ ScanChunks(t) => p = "scan" /\ regs[t].stride = s /\ regs[t].d0 = d
      /\ ClimbTree(t) => /\ p = "tree" /\ regs[t].stride = s /\ regs[t].d0 = d
                         /\ s < Cardinality(Threads)
      /\ ReadMaximum(t) => /\ p = "tree" /\ regs[t].stride = s /\ regs[t].d0 = d
                           /\ s >= Cardinality(Threads)
  BY <1>1, <1>2 DEF ScanChunks, ClimbTree, ReadMaximum
<1>4. /\ CacheWeights(t) => p = "ranked" /\ regs[t].stride = s /\ regs[t].d0 = d
      /\ AddWeights(t) => /\ p = (IF launch.cached THEN "weighed" ELSE "ranked")
                          /\ regs[t].stride = s /\ regs[t].d0 = d
      /\ ReadTotal(t) => p = "totalled" /\ regs[t].stride = s /\ regs[t].d0 = d
  BY <1>1, <1>2 DEF CacheWeights, AddWeights, ReadTotal
<1>5. /\ SumLane(t) => /\ p = "lanes" /\ regs[t].stride = s /\ regs[t].d0 = d
                       /\ d < launch.dim
      /\ AddLanes(t) => p = "sum" /\ regs[t].stride = s /\ regs[t].d0 = d
      /\ Finish(t) => /\ p = "lanes" /\ regs[t].stride = s /\ regs[t].d0 = d
                      /\ d >= launch.dim
  BY <1>1, <1>2 DEF SumLane, AddLanes, Finish
<1>6. d >= launch.dim => ~(d < launch.dim)
  BY DEF InPhase, LaunchOK
<1> QED BY <1>3, <1>4, <1>5, <1>6 DEF Step

\* What a step leaves alone.
LEMMA OutputStays ==
    ASSUME NEW p, NEW s, NEW d, InPhase(p, s, d), OutputData(p, d),
           NEW t \in Threads, Leaves(t, p, s, d), p \notin {"lanes", "sum"}, out' = out
    PROVE  OutputData(p, d)'
<1>1. /\ launch' = launch
      /\ \A u \in Threads : u # t => (Moved(u)' <=> Moved(u))
      /\ Threads' = Threads /\ Width' = Width /\ FixedSum' = FixedSum
  BY LeavingMoves, FixedStays
<1>2. Finished(p, d)' = Finished(p, d)
  BY <1>1 DEF Finished
<1> QED BY <1>1, <1>2 DEF OutputData

LEMMA WeightStays ==
    ASSUME NEW p, NEW s, NEW d, InPhase(p, s, d), WeightData(p),
           NEW t \in Threads, Leaves(t, p, s, d), weight' = weight,
           p \in {"scan", "tree"} \/ reduce' = reduce,
           p \notin {"ranked", "weighed"}
    PROVE  WeightData(p)'
<1>1. /\ launch' = launch /\ Threads' = Threads /\ Chunks' = Chunks
      /\ FixedWeights' = FixedWeights /\ FixedTotal' = FixedTotal
  BY LeavingMoves, FixedStays
<1> QED BY <1>1 DEF WeightData, Ranked

LEMMA LaterWeightsStay ==
    ASSUME NEW p, NEW s, NEW d, InPhase(p, s, d), WeightData(p),
           NEW t \in Threads, Leaves(t, p, s, d), weight' = weight,
           p \in {"lanes", "sum"}
    PROVE  WeightData(p)'
<1>1. launch' = launch /\ Chunks' = Chunks /\ FixedWeights' = FixedWeights
  BY LeavingMoves, FixedStays
<1>2. p # "weighed" /\ p # "ranked" /\ p # "totalled"
  OBVIOUS
<1> QED BY <1>1, <1>2 DEF WeightData, Ranked

LEMMA RegistersStay ==
    ASSUME NEW p, NEW s, NEW d, InPhase(p, s, d), RegisterData(p, s),
           NEW t \in Threads, Leaves(t, p, s, d),
           p # "totalled", p = "tree" => s < Cardinality(Threads),
           p \in Ranked => regs'[t].max = regs[t].max /\ regs'[t].total = regs[t].total
    PROVE  RegisterData(p, s)'
<1>1. /\ launch' = launch /\ Threads' = Threads
      /\ Largest' = Largest /\ FixedTotal' = FixedTotal
      /\ \A u \in Threads : u # t => regs'[u] = regs[u]
  BY LeavingMoves, FixedStays DEF Leaves
<1>2. Cardinality(Threads) \in Nat /\ s \in Nat
  BY Shape DEF InPhase
<1> QED BY <1>1, <1>2 DEF RegisterData, Ranked

LEMMA TreeStays ==
    ASSUME NEW p, NEW s, NEW d, p \notin {"scan", "tree"}
    PROVE  TreeData(p, s)'
BY DEF TreeData

----------------------------------------------------------------------------
(* The tree of maxima.                                                     *)

LEMMA LargestIs ==
    ASSUME NEW S \in SUBSET Maxima, NEW x \in S, \A y \in S : x >= y
    PROVE  Max(S) = x
<1>1. Max(S) \in S /\ Max(S) >= x /\ x >= Max(S)
  BY LargestOfSome
<1>2. Max(S) \in 0..2 /\ x \in 0..2
  BY <1>1 DEF Maxima
<1> QED BY <1>1, <1>2

LEMMA LargestOfBoth ==
    ASSUME NEW A \in SUBSET Maxima, A # {}, NEW B \in SUBSET Maxima, B # {}
    PROVE  Max({Max(A), Max(B)}) = Max(A \cup B)
<1>1. Max(A) \in A /\ \A y \in A : Max(A) >= y
  BY LargestOfSome
<1>2. Max(B) \in B /\ \A y \in B : Max(B) >= y
  BY LargestOfSome
<1> DEFINE a == Max(A)
           b == Max(B)
<1>3. a \in Maxima /\ b \in Maxima
  BY <1>1, <1>2
<1>4. CASE a >= b
  <2>1. Max({a, b}) = a
    BY <1>3, <1>4, LargestIs DEF Maxima
  <2>2. \A y \in A \cup B : a >= y
    BY <1>1, <1>2, <1>3, <1>4 DEF Maxima
  <2>3. Max(A \cup B) = a
    BY <1>1, <2>2, LargestIs
  <2> QED BY <2>1, <2>3
<1>5. CASE b >= a
  <2>1. Max({a, b}) = b
    BY <1>3, <1>5, LargestIs DEF Maxima
  <2>2. \A y \in A \cup B : b >= y
    BY <1>1, <1>2, <1>3, <1>5 DEF Maxima
  <2>3. Max(A \cup B) = b
    BY <1>2, <2>2, LargestIs
  <2> QED BY <2>1, <2>3
<1> HIDE DEF a, b
<1>6. a >= b \/ b >= a
  BY <1>3 DEF Maxima
<1> QED BY <1>4, <1>5, <1>6

LEMMA ChunkThread ==
    ASSUME LaunchOK
    PROVE  /\ Cardinality(Threads) \in Nat \ {0}
           /\ Threads = 0..(Cardinality(Threads) - 1)
           /\ \A c \in Chunks : c \in Nat /\ c % Cardinality(Threads) \in Threads
<1>1. /\ Cardinality(Threads) \in Nat \ {0}
      /\ Threads = 0..(Cardinality(Threads) - 1)
  BY Shape
<1>2. \A c \in Chunks : c \in Nat
  BY DEF Chunks
<1>3. \A n \in Nat \ {0}, c \in Nat : c % n \in 0..(n - 1)
  OBVIOUS
<1> QED BY <1>1, <1>2, <1>3

LEMMA MaximaFromType ==
    ASSUME LaunchOK, NEW t, NEW n
    PROVE  MaximaFrom(t, n) \in SUBSET Maxima /\ MaximaFrom(t, n) # {}
BY DEF LaunchOK, MaximaFrom, Maxima

LEMMA BestJoins ==
    ASSUME LaunchOK, NEW t \in Nat, NEW n \in Nat \ {0}
    PROVE  Best(t, 2 * n) = Max({Best(t, n), Best(t + n, n)})
<1>1. \A x \in Nat : x \in t..(t + 2 * n - 1) <=>
                       x \in t..(t + n - 1) \/ x \in (t + n)..(t + n + n - 1)
  OBVIOUS
<1>2. \A c \in Chunks : c % Cardinality(Threads) \in Nat
  BY ChunkThread
<1>3. MaximaFrom(t, 2 * n) = MaximaFrom(t, n) \cup MaximaFrom(t + n, n)
  BY <1>1, <1>2 DEF MaximaFrom
<1> QED BY <1>3, MaximaFromType, LargestOfBoth DEF Best

LEMMA BestBeyond ==
    ASSUME LaunchOK, NEW t \in Nat, NEW n \in Nat \ {0}, t + n \notin Threads
    PROVE  Best(t, 2 * n) = Best(t, n)
<1>1. t + n >= Cardinality(Threads)
  BY ChunkThread
<1>2. \A c \in Chunks : c % Cardinality(Threads) \in Nat
                        /\ c % Cardinality(Threads) < Cardinality(Threads)
  BY ChunkThread
<1>3. ASSUME NEW c \in Chunks
      PROVE  c % Cardinality(Threads) \in t..(t + 2 * n - 1)
                <=> c % Cardinality(Threads) \in t..(t + n - 1)
  <2> DEFINE x == c % Cardinality(Threads)
  <2>1. x \in Nat /\ x < t + n
    BY <1>1, <1>2, ChunkThread
  <2> HIDE DEF x
  <2>2. x \in t..(t + 2 * n - 1) <=> x \in t..(t + n - 1)
    BY <2>1
  <2> QED BY <2>2 DEF x
<1>4. MaximaFrom(t, 2 * n) = MaximaFrom(t, n)
  BY <1>3 DEF MaximaFrom
<1> QED BY <1>4 DEF Best

LEMMA BestOfAll ==
    ASSUME LaunchOK, NEW n \in Nat, n >= Cardinality(Threads)
    PROVE  Best(0, n) = Largest
<1> DEFINE S == {launch.max[c] : c \in Chunks}
<1>1. \A c \in Chunks : c % Cardinality(Threads) \in 0..(0 + n - 1)
  BY ChunkThread
<1>2. MaximaFrom(0, n) = S \cup {0}
  BY <1>1 DEF MaximaFrom
<1>3. S \in SUBSET Maxima /\ S # {}
  <2>1. 0 \in Chunks
    BY DEF LaunchOK, Chunks
  <2> QED BY <2>1 DEF LaunchOK
<1> HIDE DEF S
<1>4. Max(S) \in S /\ Max(S) \in Maxima /\ \A y \in S : Max(S) >= y
  BY <1>3, LargestOfSome
<1>5. S \cup {0} \in SUBSET Maxima /\ Max(S) >= 0
  BY <1>3, <1>4 DEF Maxima
<1>6. Max(S \cup {0}) = Max(S)
  BY <1>4, <1>5, LargestIs
<1> QED BY <1>2, <1>6 DEF Best, Largest, S

LEMMA BestOfOne ==
    ASSUME LaunchOK, NEW t \in Threads
    PROVE  Best(t, 1) =
             Max({launch.max[c] : c \in {c \in Chunks : c % Cardinality(Threads) = t}} \cup {0})
<1>1. \A x \in Nat : x \in t..(t + 1 - 1) <=> x = t
  BY ChunkThread
<1>2. MaximaFrom(t, 1) =
        {launch.max[c] : c \in {c \in Chunks : c % Cardinality(Threads) = t}} \cup {0}
  BY <1>1, ChunkThread DEF MaximaFrom
<1> QED BY <1>2 DEF Best

\* A thread that pairs is a whole number of pairs into the block, and its
\* partner is not.
LEMMA PairsAlternate ==
    ASSUME NEW s \in Nat \ {0}, NEW t \in Nat, t % (2 * s) = 0
    PROVE  t % s = 0 /\ (t + s) % s = 0 /\ (t + s) % (2 * s) # 0
<1> DEFINE w == 2 * s
           q == t \div w
<1>1. w \in Nat \ {0} /\ t % w = 0
  OBVIOUS
<1>2. q \in Nat /\ t = w * q
  <2> HIDE DEF w
  <2>1. q \in Nat /\ q \in Int /\ t = w * q + (t % w)
    BY <1>1, QuotientNat, Division
  <2>2. w * q \in Int
    BY <1>1, <2>1
  <2> QED BY <1>1, <2>1, <2>2
<1> HIDE DEF q
<1>3. t = (2 * q) * s + 0 /\ t + s = (2 * q + 1) * s + 0 /\ t + s = q * w + s
  BY <1>2
<1>4. 2 * q \in Nat /\ 2 * q + 1 \in Nat /\ 0 \in 0..(s - 1) /\ s \in 0..(w - 1)
  BY <1>2
<1>5. ((2 * q) * s + 0) % s = 0 /\ ((2 * q + 1) * s + 0) % s = 0
  BY <1>4, DivisionIs
<1>6. (q * w + s) % w = s
  <2> HIDE DEF w
  <2> QED BY <1>1, <1>2, <1>4, DivisionIs
<1>7. t % s = 0 /\ (t + s) % s = 0
  BY <1>3, <1>5
<1>8. (t + s) % (2 * s) = s
  BY <1>3, <1>6
<1> QED BY <1>7, <1>8

LEMMA ScanData ==
    ASSUME NEW p, NEW s, NEW d, InPhase(p, s, d), TreeData(p, s),
           NEW t \in Threads, ScanChunks(t), Leaves(t, p, s, d)
    PROVE  TreeData(p, s)'
<1>1. p = "scan" /\ LaunchOK
  BY StepPhase DEF InPhase
<1>2. /\ launch' = launch /\ ~Moved(t) /\ Moved(t)' /\ Threads' = Threads
      /\ \A u \in Threads : u # t => (Moved(u)' <=> Moved(u))
      /\ \A u, n : Best(u, n)' = Best(u, n)
  BY LeavingMoves, FixedStays
<1>3. reduce' = [reduce EXCEPT ![t] = Best(t, 1)] /\ DOMAIN reduce = Threads
  BY <1>1, BestOfOne DEF ScanChunks, InPhase, TypeOK
<1> QED BY <1>1, <1>2, <1>3 DEF TreeData

LEMMA ClimbData ==
    ASSUME NEW p, NEW s, NEW d, InPhase(p, s, d), TreeData(p, s),
           NEW t \in Threads, ClimbTree(t), Leaves(t, p, s, d)
    PROVE  TreeData(p, s)'
<1> DEFINE N == Cardinality(Threads)
           Grown(u) == Moved(u) /\ s < N /\ u % (2 * s) = 0
<1>1. /\ p = "tree" /\ s < N /\ LaunchOK /\ regs[t].stride = s
      /\ s \in Nat \ {0} /\ N \in Nat \ {0} /\ Threads = 0..(N - 1) /\ DOMAIN reduce = Threads
  BY StepPhase, ChunkThread DEF InPhase, Step, TypeOK
<1>2. /\ launch' = launch /\ ~Moved(t) /\ Moved(t)' /\ Threads' = Threads
      /\ \A u \in Threads : u # t => (Moved(u)' <=> Moved(u))
      /\ \A u, n : Best(u, n)' = Best(u, n)
  BY LeavingMoves, FixedStays
<1>3. \A u \in Threads : u % s = 0 => reduce[u] = Best(u, IF Grown(u) THEN 2 * s ELSE s)
  BY <1>1 DEF TreeData
<1>4. reduce' = IF Pairs(t) THEN [reduce EXCEPT ![t] = Max({@, reduce[t + s]})] ELSE reduce
  BY <1>1 DEF ClimbTree, Partner
<1>5. Pairs(t) <=> t % (2 * s) = 0 /\ t + s \in Threads
  BY <1>1 DEF Pairs, Partner
<1>6. ASSUME t % (2 * s) = 0
      PROVE  reduce'[t] = Best(t, 2 * s)
  <2>1. /\ t % s = 0 /\ (t + s) % s = 0 /\ (t + s) % (2 * s) # 0
    <3>1. t \in Nat
      BY <1>1
    <3> QED BY <1>1, <1>6, <3>1, PairsAlternate
  <2>2. reduce[t] = Best(t, s)
    BY <1>2, <1>3, <2>1
  <2>3. CASE t + s \in Threads
    <3>1. reduce[t + s] = Best(t + s, s)
      BY <1>3, <2>1, <2>3
    <3>2. reduce'[t] = Max({reduce[t], reduce[t + s]})
      BY <1>1, <1>4, <1>5, <1>6, <2>3
    <3>3. t \in Nat
      BY <1>1
    <3>4. Best(t, 2 * s) = Max({Best(t, s), Best(t + s, s)})
      BY <1>1, <3>3, BestJoins
    <3> QED BY <2>2, <3>1, <3>2, <3>4
  <2>4. CASE t + s \notin Threads
    <3>1. reduce' = reduce
      BY <1>4, <1>5, <2>4
    <3> QED BY <1>1, <2>2, <2>4, <3>1, BestBeyond
  <2> QED BY <2>3, <2>4
<1>7. t % (2 * s) # 0 => reduce' = reduce
  BY <1>4, <1>5
<1>8. \A u \in Threads : u # t => reduce'[u] = reduce[u]
  BY <1>1, <1>4
<1>9. ASSUME NEW u \in Threads, u % s = 0
      PROVE  reduce'[u] = Best(u, IF Moved(u)' /\ s < N /\ u % (2 * s) = 0 THEN 2 * s ELSE s)
  <2>1. CASE u # t
    BY <1>2, <1>3, <1>8, <1>9, <2>1
  <2>2. CASE u = t /\ t % (2 * s) = 0
    BY <1>1, <1>2, <1>6, <2>2
  <2>3. CASE u = t /\ t % (2 * s) # 0
    BY <1>3, <1>7, <1>9, <2>3
  <2> QED BY <2>1, <2>2, <2>3
<1> QED BY <1>1, <1>2, <1>9 DEF TreeData

\* The last level of the tree has the largest maximum in the first slot.
LEMMA MaximumData ==
    ASSUME NEW p, NEW s, NEW d, InPhase(p, s, d), TreeData(p, s), RegisterData(p, s),
           NEW t \in Threads, ReadMaximum(t), Leaves(t, p, s, d)
    PROVE  TreeData(p, s)' /\ RegisterData(p, s)'
<1> DEFINE N == Cardinality(Threads)
<1>1. /\ p = "tree" /\ s >= N /\ ~(s < N) /\ LaunchOK
      /\ s \in Nat \ {0} /\ N \in Nat \ {0} /\ 0 \in Threads
      /\ \A u \in Threads : u \in DOMAIN regs /\ DOMAIN regs[u] = {"stride", "d0", "max", "total"}
  <2>1. N \in Nat \ {0} /\ 0 \in Threads
    BY Shape DEF InPhase
  <2>2. p = "tree" /\ s >= N
    BY StepPhase
  <2> QED BY <2>1, <2>2 DEF InPhase, RegsOK
<1>2. /\ launch' = launch /\ ~Moved(t) /\ Moved(t)' /\ Threads' = Threads
      /\ \A u \in Threads : u # t => (Moved(u)' <=> Moved(u))
      /\ \A u, n : Best(u, n)' = Best(u, n) /\ Largest' = Largest
  BY LeavingMoves, FixedStays
<1>3. reduce' = reduce /\ regs' = [regs EXCEPT ![t].max = reduce[0]]
  BY DEF ReadMaximum
<1>4. reduce[0] = Largest
  <2>1. 0 % s = 0
    BY <1>1
  <2>2. reduce[0] = Best(0, s)
    BY <1>1, <2>1 DEF TreeData
  <2> QED BY <1>1, <2>2, BestOfAll
<1>5. TreeData(p, s)'
  BY <1>1, <1>2, <1>3 DEF TreeData
<1>6. \A u \in Threads : Moved(u)' => regs'[u].max = Largest
  BY <1>1, <1>2, <1>3, <1>4 DEF RegisterData
<1>7. RegisterData(p, s)'
  BY <1>1, <1>2, <1>6 DEF RegisterData, Ranked
<1> QED BY <1>5, <1>7

----------------------------------------------------------------------------
(* Weights and sums.                                                       *)

LEMMA WeightsAreFixed ==
    ASSUME NEW t, regs[t].max = Largest, launch.cached => weight = FixedWeights
    PROVE  Weights(t) = FixedWeights
BY DEF Weights, FixedWeights, Largest

LEMMA FixedHeavy ==
    \A c \in Chunks : FixedWeights[c] # <<>> <=> HasKeys(c)
<1> SUFFICES ASSUME NEW c \in Chunks
             PROVE  FixedWeights[c] # <<>> <=> HasKeys(c)
  OBVIOUS
<1>1. FixedWeights[c] = IF HasKeys(c) THEN <<c, Largest>> ELSE <<>>
  BY DEF FixedWeights, Largest
<1>2. <<c, Largest>> # <<>>
  OBVIOUS
<1> QED BY <1>1, <1>2

LEMMA SumsAreFixed ==
    /\ InTotal(FixedWeights) = FixedTotal
    /\ \A l : LaneSum(l, FixedWeights, FixedTotal) = FixedLane(l)
<1>1. {c \in Chunks : FixedWeights[c] # <<>>} = {c \in Chunks : HasKeys(c)}
  BY FixedHeavy
<1>2. InTotal(FixedWeights) = FixedTotal
  BY <1>1 DEF InTotal, FixedTotal
<1>3. ASSUME NEW l
      PROVE  {c \in LaneChunks(l) : FixedWeights[c] # <<>>}
                = {c \in Chunks : HasKeys(c) /\ c % Lanes = l}
  BY FixedHeavy DEF LaneChunks
<1>4. \A l : LaneSum(l, FixedWeights, FixedTotal) = FixedLane(l)
  BY <1>3 DEF LaneSum, FixedLane
<1> QED BY <1>2, <1>4

LEMMA CacheData ==
    ASSUME NEW p, NEW s, NEW d, InPhase(p, s, d), WeightData(p), RegisterData(p, s),
           NEW t \in Threads, CacheWeights(t), Leaves(t, p, s, d)
    PROVE  WeightData(p)'
<1>1. p = "ranked" /\ launch.cached /\ regs[t].max = Largest
  BY StepPhase DEF CacheWeights, RegisterData, Ranked
<1>2. /\ launch' = launch /\ ~Moved(t) /\ Moved(t)' /\ Threads' = Threads /\ Chunks' = Chunks
      /\ \A u \in Threads : u # t => (Moved(u)' <=> Moved(u))
      /\ FixedWeights' = FixedWeights
  BY LeavingMoves, FixedStays
<1>3. weight' = [c \in Chunks |-> IF c \notin {e \in Chunks : e % Cardinality(Threads) = t}
                                 THEN weight[c]
                                 ELSE IF HasKeys(c) THEN <<c, regs[t].max>> ELSE <<>>]
  BY DEF CacheWeights
<1>4. \A c \in Chunks :
        weight'[c] = IF c % Cardinality(Threads) = t THEN FixedWeights[c] ELSE weight[c]
  BY <1>1, <1>3 DEF FixedWeights, Largest
<1>5. weight' = [c \in Chunks |-> weight'[c]]
  BY <1>3
<1>6. ASSUME NEW c \in Chunks, Moved(c % Cardinality(Threads))'
      PROVE  weight'[c] = FixedWeights[c]
  <2>1. c % Cardinality(Threads) \in Threads
    BY ChunkThread DEF InPhase
  <2> QED BY <1>1, <1>2, <1>4, <1>6, <2>1 DEF WeightData
<1>7. launch'.cached /\ p = "ranked"
  BY <1>1, <1>2
<1> QED BY <1>2, <1>5, <1>6, <1>7 DEF WeightData, Ranked

LEMMA AddData ==
    ASSUME NEW p, NEW s, NEW d, InPhase(p, s, d), WeightData(p), RegisterData(p, s),
           NEW t \in Threads, AddWeights(t), Leaves(t, p, s, d)
    PROVE  WeightData(p)'
<1>1. p = (IF launch.cached THEN "weighed" ELSE "ranked") /\ regs[t].max = Largest
  BY StepPhase DEF RegisterData, Ranked
<1>2. /\ launch' = launch /\ Threads' = Threads /\ Chunks' = Chunks
      /\ \A u \in Threads : u # t => (Moved(u)' <=> Moved(u))
      /\ FixedWeights' = FixedWeights /\ FixedTotal' = FixedTotal
  BY LeavingMoves, FixedStays
<1>3. weight' = weight /\ (launch.cached => weight = FixedWeights)
  BY <1>1 DEF AddWeights, WeightData, Ranked
<1>4. 0 \in Threads /\ 0 \in DOMAIN reduce
  BY Shape DEF InPhase, TypeOK
<1>5. Moved(0)' => reduce'[0] = FixedTotal
  <2>1. CASE t = 0
    <3>1. Weights(0) = FixedWeights
      BY <1>1, <1>3, <2>1, WeightsAreFixed
    <3> QED BY <1>4, <2>1, <3>1, SumsAreFixed DEF AddWeights
  <2>2. CASE t # 0
    <3>1. reduce' = reduce
      BY <2>2 DEF AddWeights
    <3> QED BY <1>1, <1>2, <1>4, <2>2, <3>1 DEF WeightData
  <2> QED BY <2>1, <2>2
<1>6. \A q : q = p => /\ q # "totalled" /\ (q = "ranked" => ~launch'.cached)
  BY <1>1, <1>2
<1> QED BY <1>1, <1>2, <1>3, <1>5, <1>6 DEF WeightData, Ranked

LEMMA TotalData ==
    ASSUME NEW p, NEW s, NEW d, InPhase(p, s, d), WeightData(p), RegisterData(p, s),
           NEW t \in Threads, ReadTotal(t), Leaves(t, p, s, d)
    PROVE  RegisterData(p, s)'
<1>1. p = "totalled" /\ reduce[0] = FixedTotal
  BY StepPhase DEF WeightData
<1>2. /\ launch' = launch /\ Threads' = Threads
      /\ \A u \in Threads : u # t => (Moved(u)' <=> Moved(u))
      /\ Largest' = Largest /\ FixedTotal' = FixedTotal
  BY LeavingMoves, FixedStays
<1>3. \A u \in Threads :
        /\ regs'[u].max = regs[u].max
        /\ regs'[u].total = IF u = t THEN FixedTotal ELSE regs[u].total
  BY <1>1 DEF ReadTotal, InPhase, RegsOK
<1> QED BY <1>1, <1>2, <1>3 DEF RegisterData, Ranked

\* Every thread's sum is the lane's, or nothing.
LEMMA SumData ==
    ASSUME NEW p, NEW s, NEW d, InPhase(p, s, d), Data(p, s, d),
           NEW t \in Threads, SumLane(t), Leaves(t, p, s, d)
    PROVE  OutputData(p, d)'
<1>1. /\ p = "lanes" /\ d < launch.dim
      /\ regs[t].d0 = d /\ regs[t].max = Largest /\ regs[t].total = FixedTotal
      /\ launch.cached => weight = FixedWeights
  BY StepPhase DEF Step, Data, RegisterData, WeightData, Ranked
<1>2. /\ launch' = launch /\ Threads' = Threads /\ Width' = Width
      /\ \A u \in Threads : u # t => (Moved(u)' <=> Moved(u))
      /\ FixedSum' = FixedSum /\ \A u, e : LaneSlot(u, e)' = LaneSlot(u, e)
  BY LeavingMoves, FixedStays
<1>3. LaneSum(Lane(t), Weights(t), regs[t].total) = FixedLane(Lane(t))
  BY <1>1, WeightsAreFixed, SumsAreFixed
<1>4. reduce' = [reduce EXCEPT ![t] = LaneSlot(t, d)] /\ out' = out
  BY <1>1, <1>3 DEF SumLane, Dimension, LaneSlot
<1>5. \A u \in Threads : Moved(u)' => reduce'[u] = LaneSlot(u, d)
  BY <1>1, <1>2, <1>4 DEF Data, OutputData, InPhase, TypeOK
<1>6. Finished(p, d)' = Finished(p, d)
  BY <1>1, <1>2 DEF Finished
<1> QED BY <1>1, <1>2, <1>4, <1>5, <1>6 DEF Data, OutputData

\* Lanes lie side by side in the block.
LEMMA LanesInBlock ==
    ASSUME LaunchOK, NEW l \in 0..(Lanes - 1), NEW r \in 0..(Width - 1)
    PROVE  /\ l * Width + r \in Threads
           /\ Lane(l * Width + r) = l
           /\ (l * Width + r) % Width = r
<1>1. /\ Cardinality(Threads) \in Nat \ {0} /\ Threads = 0..(Cardinality(Threads) - 1)
      /\ Lanes \in Nat \ {0} /\ Width \in Nat \ {0}
  BY Shape
<1>2. Lanes * Width <= Cardinality(Threads)
  <2> DEFINE N == Cardinality(Threads)
  <2>1. N = Lanes * (N \div Lanes) + (N % Lanes) /\ N % Lanes \in Nat
    <3>1. N \in Nat /\ Lanes \in Nat \ {0}
      BY <1>1
    <3> HIDE DEF N
    <3>2. N = Lanes * (N \div Lanes) + (N % Lanes)
      BY <3>1, Division
    <3>3. N % Lanes \in Nat
      BY <3>1
    <3> QED BY <3>2, <3>3
  <2>2. Width = N \div Lanes
    BY DEF Width
  <2> HIDE DEF N
  <2>3. Lanes * Width \in Nat
    BY <1>1
  <2>4. N = Lanes * Width + (N % Lanes)
    BY <2>1, <2>2
  <2>5. N \in Nat
    BY <1>1 DEF N
  <2>6. Lanes * Width <= N
    BY <2>1, <2>3, <2>4, <2>5
  <2> QED BY <2>6 DEF N
<1>3. l \in Nat /\ l < Lanes
  BY <1>1
<1>4. /\ l * Width + r \in Nat /\ l * Width + r < Lanes * Width
  BY <1>1, <1>3, TwoDigits
<1>5. Lanes * Width \in Nat
  BY <1>1
<1>6. l * Width + r \in Threads
  BY <1>1, <1>2, <1>4, <1>5
<1> QED BY <1>1, <1>3, <1>6, DivisionIs DEF Lane

LEMMA LanesData ==
    ASSUME NEW p, NEW s, NEW d, InPhase(p, s, d), OutputData(p, d),
           NEW t \in Threads, AddLanes(t), Leaves(t, p, s, d)
    PROVE  OutputData(p, d)'
<1> DEFINE r == t % Width
<1>1. p = "sum" /\ regs[t].d0 = d /\ LaunchOK /\ d \in Nat
  BY StepPhase DEF Step, InPhase
<1>2. /\ launch' = launch /\ Threads' = Threads /\ Width' = Width /\ ~Moved(t) /\ Moved(t)'
      /\ \A u \in Threads : u # t => (Moved(u)' <=> Moved(u))
      /\ FixedSum' = FixedSum /\ \A u, e : LaneSlot(u, e)' = LaneSlot(u, e)
      /\ \A u : Lane(u)' = Lane(u)
  BY LeavingMoves, FixedStays DEF Lane
<1>3. /\ t \in Nat /\ Lanes \in Nat \ {0} /\ Width \in Nat \ {0} /\ r \in 0..(Width - 1)
      /\ launch.dim \in Nat
  <2>1. t \in Nat /\ Width \in Nat \ {0} /\ Lanes \in Nat \ {0}
    BY <1>1, Shape
  <2> QED BY <1>1, <2>1 DEF LaunchOK
<1>4. \A u \in Threads : reduce[u] = LaneSlot(u, d)
  BY <1>1 DEF OutputData
<1>5. Writes(t) <=> Lane(t) = 0 /\ d + r < launch.dim
  BY <1>1 DEF Writes, Dimension
<1> HIDE DEF r
<1>6. CASE Writes(t)
  <2>1. ASSUME NEW l \in 0..(Lanes - 1)
        PROVE  reduce[l * Width + r] = FixedLane(l)
    <3>1. /\ l * Width + r \in Threads
          /\ Lane(l * Width + r) = l /\ (l * Width + r) % Width = r
      BY <1>1, <1>3, LanesInBlock
    <3>2. l < Lanes /\ d + r < launch.dim
      BY <1>3, <1>5, <1>6
    <3> QED BY <1>4, <3>1, <3>2 DEF LaneSlot
  <2>2. out' = [x \in DOMAIN out \cup {d + r} |->
                  IF x = d + r THEN [l \in 1..Lanes |-> reduce[(l - 1) * Width + r]]
                  ELSE out[x]]
    BY <1>1, <1>6 DEF AddLanes, Dimension, r
  <2>3. [l \in 1..Lanes |-> reduce[(l - 1) * Width + r]] = FixedSum
    <3>1. \A l \in 1..Lanes : l - 1 \in 0..(Lanes - 1)
      BY <1>3
    <3>2. \A l \in 1..Lanes : reduce[(l - 1) * Width + r] = FixedLane(l - 1)
      BY <2>1, <3>1
    <3> QED BY <3>2 DEF FixedSum
  <2>4. Finished(p, d)' = Finished(p, d) \cup {d + r}
    <3>1. \A x \in 0..(launch.dim - 1) :
            (\E u \in Threads : Moved(u)' /\ Lane(u) = 0 /\ x = d + (u % Width))
              <=> \/ \E u \in Threads : Moved(u) /\ Lane(u) = 0 /\ x = d + (u % Width)
                  \/ x = d + r
      BY <1>2, <1>5, <1>6 DEF r
    <3>2. d + r \in 0..(launch.dim - 1)
      BY <1>1, <1>3, <1>5, <1>6
    <3> QED BY <1>1, <1>2, <3>1, <3>2 DEF Finished
  <2>5. out' = [x \in Finished(p, d)' |-> FixedSum]
    <3>1. out = [x \in Finished(p, d) |-> FixedSum]
      BY DEF OutputData
    <3> HIDE DEF Finished
    <3> QED BY <2>2, <2>3, <2>4, <3>1
  <2>6. reduce' = reduce
    BY DEF AddLanes
  <2> QED BY <1>1, <1>2, <1>4, <2>5, <2>6 DEF OutputData
<1>7. CASE ~Writes(t)
  <2>1. Finished(p, d)' = Finished(p, d)
    <3>1. \A x \in 0..(launch.dim - 1) : ~(Lane(t) = 0 /\ x = d + (t % Width))
      BY <1>1, <1>3, <1>5, <1>7 DEF r
    <3> QED BY <1>2, <3>1 DEF Finished
  <2>2. reduce' = reduce /\ out' = out
    BY <1>7 DEF AddLanes
  <2> QED BY <1>1, <1>2, <1>4, <2>1, <2>2 DEF OutputData
<1> QED BY <1>6, <1>7

LEMMA FinishData ==
    ASSUME NEW p, NEW s, NEW d, InPhase(p, s, d), OutputData(p, d),
           NEW t \in Threads, Finish(t), Leaves(t, p, s, d)
    PROVE  OutputData(p, d)'
<1>1. p = "lanes" /\ ~(d < launch.dim)
  BY StepPhase
<1>2. /\ launch' = launch /\ Threads' = Threads /\ Width' = Width /\ FixedSum' = FixedSum
      /\ out' = out
  BY LeavingMoves, FixedStays DEF Finish
<1>3. Finished(p, d)' = Finished(p, d)
  BY <1>1, <1>2 DEF Finished
<1> QED BY <1>1, <1>2, <1>3 DEF OutputData

\* Every step keeps what the phase says of the data.
LEMMA StepData ==
    ASSUME NEW p, NEW s, NEW d, InPhase(p, s, d), Data(p, s, d),
           NEW t \in Threads, Step(t), Leaves(t, p, s, d)
    PROVE  Data(p, s, d)'
<1> USE DEF Data
<1>0. DOMAIN regs = Threads /\ \A u \in Threads : DOMAIN regs[u] = {"stride", "d0", "max", "total"}
  BY DEF InPhase, RegsOK
<1>1. CASE ScanChunks(t)
  <2>1. p = "scan" /\ out' = out /\ weight' = weight
    BY <1>1, StepPhase DEF ScanChunks
  <2> QED BY <1>1, <2>1, ScanData, OutputStays, WeightStays, RegistersStay DEF Ranked
<1>2. CASE ClimbTree(t)
  <2>1. p = "tree" /\ s < Cardinality(Threads) /\ out' = out /\ weight' = weight
    BY <1>2, StepPhase DEF ClimbTree
  <2> QED BY <1>2, <2>1, ClimbData, OutputStays, WeightStays, RegistersStay DEF Ranked
<1>3. CASE ReadMaximum(t)
  <2>1. p = "tree" /\ out' = out /\ weight' = weight
    BY <1>3, StepPhase DEF ReadMaximum
  <2> QED BY <1>3, <2>1, MaximumData, OutputStays, WeightStays
<1>4. CASE CacheWeights(t)
  <2>1. p = "ranked" /\ out' = out /\ regs' = regs
    BY <1>4, StepPhase DEF CacheWeights
  <2> QED BY <1>4, <2>1, CacheData, OutputStays, RegistersStay, TreeStays
<1>5. CASE AddWeights(t)
  <2>1. p \in {"ranked", "weighed"} /\ out' = out /\ regs' = regs
    BY <1>5, StepPhase DEF AddWeights
  <2> QED BY <1>5, <2>1, AddData, OutputStays, RegistersStay, TreeStays
<1>6. CASE ReadTotal(t)
  <2>1. p = "totalled" /\ out' = out /\ weight' = weight /\ reduce' = reduce
    BY <1>6, StepPhase DEF ReadTotal
  <2> QED BY <1>6, <2>1, TotalData, OutputStays, WeightStays, TreeStays
<1>7. CASE SumLane(t)
  <2>1. p = "lanes" /\ regs' = regs /\ weight' = weight
    BY <1>7, StepPhase DEF SumLane
  <2> QED BY <1>7, <2>1, SumData, LaterWeightsStay, RegistersStay, TreeStays
<1>8. CASE AddLanes(t)
  <2>1. p = "sum" /\ weight' = weight /\ regs' = [regs EXCEPT ![t].d0 = @ + Width]
    BY <1>8, StepPhase DEF AddLanes, NextPass
  <2>2. regs'[t].max = regs[t].max /\ regs'[t].total = regs[t].total
    BY <1>0, <2>1
  <2> QED BY <1>8, <2>1, <2>2, LanesData, LaterWeightsStay, RegistersStay, TreeStays
<1>9. CASE Finish(t)
  <2>1. p = "lanes" /\ weight' = weight /\ regs' = regs
    BY <1>9, StepPhase DEF Finish, memory
  <2> QED BY <1>9, <2>1, FinishData, LaterWeightsStay, RegistersStay, TreeStays
<1> QED BY <1>1, <1>2, <1>3, <1>4, <1>5, <1>6, <1>7, <1>8, <1>9 DEF Step

----------------------------------------------------------------------------
(* The barrier hands the data of a phase on to the next.                   *)

LEMMA BarrierKeeps ==
    ASSUME NEW p, NEW s, NEW d, InPhase(p, s, d), WaitersSynced, Barrier
    PROVE  /\ launch' = launch /\ regs' = regs /\ reduce' = reduce /\ weight' = weight
           /\ out' = out
           /\ NextPoint(p, s, d) \in Points \ {"scan", "done"}
           /\ \A t \in Threads : Moved(t) /\ ~Moved(t)'
BY BarrierEntersPhase, PhaseFacts DEF Barrier, InPhase

LEMMA BarrierTreeData ==
    ASSUME NEW p, NEW s, NEW d, InPhase(p, s, d), WaitersSynced, TreeData(p, s), Barrier,
           NEW q, NEW s1, q = NextPoint(p, s, d), s1 = NextStride(p, s)
    PROVE  TreeData(q, s1)'
<1>1. /\ reduce' = reduce /\ Threads' = Threads /\ q # "scan"
      /\ \A u, n : Best(u, n)' = Best(u, n)
      /\ \A t \in Threads : Moved(t) /\ ~Moved(t)'
  BY BarrierKeeps, FixedStays
<1>2. ASSUME q = "tree", NEW t \in Threads, t % s1 = 0
      PROVE  reduce[t] = Best(t, s1)
  <2>1. p = "scan" \/ (p = "tree" /\ s < Cardinality(Threads))
    BY <1>2 DEF NextPoint, InPhase, PhasePoints, Points, Synced
  <2>2. CASE p = "scan"
    BY <1>1, <2>2 DEF TreeData, NextStride
  <2>3. CASE p = "tree" /\ s < Cardinality(Threads)
    <3>1. s1 = 2 * s /\ s \in Nat \ {0} /\ t \in Nat
      BY <2>3, Shape DEF NextStride, InPhase
    <3>2. t % (2 * s) = 0 /\ t % s = 0
      BY <1>2, <3>1, PairsAlternate
    <3> QED BY <1>1, <2>3, <3>1, <3>2 DEF TreeData
  <2> QED BY <2>1, <2>2, <2>3
<1> QED BY <1>1, <1>2 DEF TreeData

LEMMA BarrierRegisterData ==
    ASSUME NEW p, NEW s, NEW d, InPhase(p, s, d), WaitersSynced, RegisterData(p, s), Barrier,
           NEW q, NEW s1, q = NextPoint(p, s, d), s1 = NextStride(p, s)
    PROVE  RegisterData(q, s1)'
<1>1. /\ regs' = regs /\ Threads' = Threads /\ Largest' = Largest /\ FixedTotal' = FixedTotal
      /\ \A t \in Threads : Moved(t) /\ ~Moved(t)'
  BY BarrierKeeps, FixedStays
<1>2. p \in PhasePoints /\ Cardinality(Threads) \in Nat /\ s \in Nat
  BY Shape DEF InPhase
<1>3. q \in Ranked => p \in Ranked \/ (p = "tree" /\ s >= Cardinality(Threads))
  BY <1>2 DEF NextPoint, PhasePoints, Points, Synced, Ranked
<1>4. q \in {"lanes", "sum"} => p \in {"totalled", "lanes", "sum"}
  BY <1>2 DEF NextPoint, PhasePoints, Points, Synced
<1> QED BY <1>1, <1>3, <1>4 DEF RegisterData

LEMMA BarrierWeightData ==
    ASSUME NEW p, NEW s, NEW d, InPhase(p, s, d), WaitersSynced, WeightData(p), Barrier,
           NEW q, q = NextPoint(p, s, d)
    PROVE  WeightData(q)'
<1>1. /\ launch' = launch /\ reduce' = reduce /\ weight' = weight
      /\ Threads' = Threads /\ Chunks' = Chunks
      /\ FixedWeights' = FixedWeights /\ FixedTotal' = FixedTotal
      /\ \A t \in Threads : Moved(t) /\ ~Moved(t)'
  BY BarrierKeeps, FixedStays
<1>2. p \in PhasePoints /\ 0 \in Threads /\ \A c \in Chunks : c % Cardinality(Threads) \in Threads
  BY Shape, ChunkThread DEF InPhase
<1>3. ASSUME q \in Ranked \ {"ranked"}, launch.cached
      PROVE  weight = FixedWeights
  <2>1. p \in Ranked
    BY <1>2, <1>3 DEF NextPoint, PhasePoints, Points, Synced, Ranked
  <2>2. CASE p = "ranked"
    <3>1. \A c \in Chunks : weight[c] = FixedWeights[c]
      BY <1>1, <1>2, <1>3, <2>2 DEF WeightData
    <3>2. weight = [c \in Chunks |-> weight[c]]
      BY DEF WeightData
    <3>3. FixedWeights = [c \in Chunks |-> FixedWeights[c]]
      BY DEF FixedWeights
    <3> QED BY <3>1, <3>2, <3>3, Zenon
  <2>3. CASE p # "ranked"
    BY <1>3, <2>1, <2>3 DEF WeightData
  <2> QED BY <2>2, <2>3
<1>4. ASSUME q = "totalled"
      PROVE  reduce[0] = FixedTotal
  <2>1. p = IF launch.cached THEN "weighed" ELSE "ranked"
    BY <1>2, <1>4 DEF NextPoint, PhasePoints, Points, Synced, WeightData
  <2> QED BY <1>1, <1>2, <2>1 DEF WeightData
<1>5. q = "weighed" => launch.cached
  BY <1>2 DEF NextPoint, PhasePoints, Points, Synced
<1> QED BY <1>1, <1>2, <1>3, <1>4, <1>5 DEF WeightData, Ranked

\* Once every thread has added its lanes, the pass is written.
LEMMA PassFinished ==
    ASSUME NEW s, NEW d, InPhase("sum", s, d), \A t \in Threads : Moved(t)
    PROVE  Finished("sum", d) = {x \in 0..(launch.dim - 1) : x < d + Width}
<1>1. LaunchOK /\ d \in Nat /\ launch.dim \in Nat
  BY DEF InPhase, LaunchOK
<1>2. /\ Width \in Nat \ {0} /\ Lanes \in Nat \ {0}
      /\ \A t \in Threads : t % Width \in 0..(Width - 1)
  <2>1. Width \in Nat \ {0} /\ Lanes \in Nat \ {0} /\ \A t \in Threads : t \in Nat
    BY <1>1, Shape
  <2> QED BY <2>1
<1>3. ASSUME NEW x \in 0..(launch.dim - 1), x < d + Width, ~(x < d)
      PROVE  \E t \in Threads : Moved(t) /\ Lane(t) = 0 /\ x = d + (t % Width)
  <2> DEFINE u == x - d
  <2>1. u \in 0..(Width - 1) /\ 0 \in 0..(Lanes - 1) /\ 0 * Width + u = u
    BY <1>1, <1>2, <1>3
  <2>2. x = d + u
    BY <1>1, <1>3
  <2> HIDE DEF u
  <2>3. u \in Threads /\ Lane(u) = 0 /\ u % Width = u
    BY <1>1, <2>1, LanesInBlock
  <2> QED BY <2>2, <2>3
<1>4. ASSUME NEW x \in 0..(launch.dim - 1)
      PROVE  (\/ x < d
              \/ \E t \in Threads : Moved(t) /\ Lane(t) = 0 /\ x = d + (t % Width))
                <=> x < d + Width
  BY <1>1, <1>2, <1>3
<1> QED BY <1>4 DEF Finished

LEMMA BarrierOutputData ==
    ASSUME NEW p, NEW s, NEW d, InPhase(p, s, d), WaitersSynced, OutputData(p, d), Barrier,
           NEW q, NEW d1, q = NextPoint(p, s, d), d1 = NextDimension(p, d)
    PROVE  OutputData(q, d1)'
<1>1. /\ launch' = launch /\ reduce' = reduce /\ out' = out /\ q # "done"
      /\ Threads' = Threads /\ FixedSum' = FixedSum /\ Width' = Width
      /\ \A u, e : LaneSlot(u, e)' = LaneSlot(u, e)
      /\ \A t \in Threads : Moved(t) /\ ~Moved(t)'
  BY BarrierKeeps, FixedStays
<1>2. p \in PhasePoints
  BY DEF InPhase
<1>3. q \notin {"lanes", "sum"} => d1 = 0
  BY <1>1, <1>2 DEF OutputData, NextPoint, NextDimension, PhasePoints, Points, Synced
<1>4. ASSUME q = "sum"
      PROVE  p = "lanes" /\ d1 = d /\ \A t \in Threads : reduce[t] = LaneSlot(t, d)
  <2>1. p = "lanes" /\ d < launch.dim
    BY <1>2, <1>4 DEF NextPoint, PhasePoints, Points, Synced
  <2>2. d1 = d
    BY <2>1 DEF NextDimension
  <2> QED BY <1>1, <2>1, <2>2 DEF OutputData
<1>5. Finished(q, d1)' = {x \in 0..(launch.dim - 1) : x < d1}
  BY <1>1 DEF Finished
<1>6. Finished(p, d) = {x \in 0..(launch.dim - 1) : x < d1}
  <2>1. CASE p = "sum"
    BY <1>1, <2>1, PassFinished DEF NextDimension
  <2>2. CASE p # "sum"
    BY <2>2 DEF Finished, NextDimension
  <2> QED BY <2>1, <2>2
<1>7. out' = [x \in Finished(q, d1)' |-> FixedSum']
  BY <1>1, <1>5, <1>6 DEF OutputData
<1>8. \A t \in Threads : ~Moved(t)'
  BY <1>1
<1> HIDE DEF Finished
<1> QED BY <1>1, <1>3, <1>4, <1>7, <1>8 DEF OutputData

LEMMA InitData ==
    ASSUME Init
    PROVE  Data("scan", 1, 0)
<1>1. /\ at = [t \in Threads |-> "scan"] /\ waiting = {}
      /\ weight = [c \in Chunks |-> <<>>]
      /\ out = <<>>
  BY DEF Init
<1>2. LaunchOK /\ 0 \in Threads
  BY InitInv, Shape DEF BlockIn
<1>3. \A t \in Threads : ~Moved(t)
  BY <1>1 DEF Moved
<1>4. TreeData("scan", 1) /\ RegisterData("scan", 1)
  BY <1>3 DEF TreeData, RegisterData, Ranked
<1>5. WeightData("scan")
  BY <1>1, <1>2, <1>3 DEF WeightData, Ranked
<1>6. Finished("scan", 0) = {}
  BY DEF Finished
<1>7. out = [x \in Finished("scan", 0) |-> FixedSum]
  <2>1. <<>> = [x \in {} |-> FixedSum]
    OBVIOUS
  <2> QED BY <1>1, <1>6, <2>1
<1>8. OutputData("scan", 0)
  BY <1>7 DEF OutputData
<1> QED BY <1>4, <1>5, <1>8 DEF Data

LEMMA SameData ==
    ASSUME NEW p, NEW s, NEW d, Data(p, s, d), UNCHANGED vars
    PROVE  Data(p, s, d)'
<1>1. /\ launch' = launch /\ at' = at /\ waiting' = waiting /\ regs' = regs
      /\ reduce' = reduce /\ weight' = weight /\ out' = out
  BY DEF vars, memory
<1>2. /\ Threads' = Threads /\ Chunks' = Chunks /\ Lanes' = Lanes /\ Width' = Width
      /\ Largest' = Largest /\ FixedWeights' = FixedWeights /\ FixedTotal' = FixedTotal
      /\ FixedSum' = FixedSum
      /\ \A u, n : Best(u, n)' = Best(u, n)
      /\ \A u, e : LaneSlot(u, e)' = LaneSlot(u, e)
      /\ \A t : Moved(t)' <=> Moved(t)
  BY <1>1, FixedStays DEF Moved
<1>3. TreeData(p, s)' /\ RegisterData(p, s)'
  BY <1>1, <1>2 DEF Data, TreeData, RegisterData, Ranked
<1>4. WeightData(p)'
  BY <1>1, <1>2 DEF Data, WeightData, Ranked
<1>5. Finished(p, d)' = Finished(p, d)
  BY <1>1, <1>2 DEF Finished, Lane
<1> HIDE DEF Finished
<1>6. OutputData(p, d)'
  BY <1>1, <1>2, <1>5 DEF Data, OutputData
<1> QED BY <1>3, <1>4, <1>6 DEF Data

----------------------------------------------------------------------------
(* The block and its data, together.                                       *)

DataInv == \E p, s, d : BlockIn(p, s, d) /\ Data(p, s, d)

LEMMA NextData ==
    ASSUME DataInv, [Next]_vars
    PROVE  DataInv'
<1>1. PICK p, s, d : BlockIn(p, s, d) /\ Data(p, s, d)
  BY DEF DataInv
<1>2. InPhase(p, s, d) /\ WaitersSynced
  BY <1>1 DEF BlockIn, InPhase
<1>3. ASSUME NEW t \in Threads, Step(t)
      PROVE  DataInv'
  <2>1. Leaves(t, p, s, d) /\ BlockIn(p, s, d)'
    BY <1>1, <1>3, StepLeaves
  <2>2. Data(p, s, d)'
    BY <1>1, <1>2, <1>3, <2>1, StepData
  <2> QED BY <2>1, <2>2 DEF DataInv
<1>4. CASE Barrier
  <2> DEFINE q == NextPoint(p, s, d)
             s1 == NextStride(p, s)
             d1 == NextDimension(p, d)
  <2>1. \A x, y, z : x = q /\ y = s1 /\ z = d1 => BlockIn(x, y, z)'
    BY <1>2, <1>4, BarrierEntersPhase
  <2>2. ASSUME NEW x, NEW y, NEW z, x = q, y = s1, z = d1
        PROVE  Data(x, y, z)'
    <3>1. TreeData(x, y)'
      BY <1>1, <1>2, <1>4, <2>2, BarrierTreeData DEF Data
    <3>2. RegisterData(x, y)'
      BY <1>1, <1>2, <1>4, <2>2, BarrierRegisterData DEF Data
    <3>3. WeightData(x)'
      BY <1>1, <1>2, <1>4, <2>2, BarrierWeightData DEF Data
    <3>4. OutputData(x, z)'
      BY <1>1, <1>2, <1>4, <2>2, BarrierOutputData DEF Data
    <3> QED BY <3>1, <3>2, <3>3, <3>4 DEF Data
  <2> HIDE DEF q, s1, d1
  <2>3. \E x, y, z : x = q /\ y = s1 /\ z = d1
    OBVIOUS
  <2> QED BY <2>1, <2>2, <2>3 DEF DataInv
<1>5. CASE UNCHANGED vars
  BY <1>1, <1>5, SamePhase, SameData DEF DataInv
<1> QED BY <1>3, <1>4, <1>5 DEF Next

LEMMA EndOfBlock ==
    ASSUME DataInv
    PROVE  ResultIsFixed
<1> SUFFICES ASSUME \A t \in Threads : at[t] = "done"
             PROVE  out = [x \in 0..(launch.dim - 1) |-> FixedSum]
  BY DEF ResultIsFixed
<1>1. PICK p, s, d : BlockIn(p, s, d) /\ Data(p, s, d)
  BY DEF DataInv
<1>2. /\ LaunchOK /\ p \in PhasePoints /\ d \in Nat /\ launch.dim \in Nat
      /\ Placed(p, s, d) /\ 0 \in Threads
  BY <1>1, Shape DEF BlockIn, LaunchOK
<1>3. NextPoint(p, s, d) = "done"
  BY <1>2 DEF Placed, Here, Moved
<1>4. p = "lanes" /\ ~(d < launch.dim)
  BY <1>2, <1>3 DEF NextPoint, PhasePoints, Points, Synced
<1>5. Finished(p, d) = 0..(launch.dim - 1)
  BY <1>2, <1>4 DEF Finished
<1> QED BY <1>1, <1>5 DEF Data, OutputData

\* What attention_combine_kernel writes does not depend on how its threads
\* are scheduled: whatever the head dimension, the chunks and the size of the
\* block, every dimension ends as the one expression that the launch fixes.
THEOREM ResultFixed == Spec => []ResultIsFixed
<1>1. Init => DataInv
  BY InitInv, InitData DEF DataInv
<1> QED BY <1>1, NextData, EndOfBlock, PTL DEF Spec
=============================================================================
