-------------------------- MODULE AttentionCombine ---------------------------
(***************************************************************************)
(* One block of attention_combine_kernel: the threads of a block, which    *)
(* share the array reduce, merge the chunks of one head.  The array serves *)
(* a maximum, a total and the lanes' sums in turn, kept apart by barriers  *)
(* alone.  A thread goes from one barrier to the next in one step, which   *)
(* is sound as long as no two threads meet in a slot between two barriers: *)
(* NoDataRace.                                                             *)
(*                                                                         *)
(* A float sum depends on the order of its terms, so a sum is kept as the  *)
(* sequence of what it adds.  Of a chunk only its maximum is kept, and     *)
(* whether it has keys; exp never gives a zero here.                       *)
(***************************************************************************)
EXTENDS Integers, Sequences, FiniteSets, FiniteSetsExt

CONSTANTS
    BlockThreads, \* most threads of a block: 1024
    LaneThreads,  \* threads that several lanes may fill: 256
    MaxLanes,     \* most lanes of chunks per output dimension: 8
    Dimensions,   \* bound: head dimensions launched
    ChunkCounts   \* bound: chunks launched

ASSUME ConstantsOK ==
    /\ BlockThreads \in Nat \ {0}
    /\ LaneThreads \in 1..BlockThreads
    /\ MaxLanes \in Nat \ {0}
    /\ Dimensions \subseteq Nat \ {0}
    /\ ChunkCounts \subseteq Nat \ {0}

VARIABLES
    launch,  \* what the block was launched with
    at,      \* thread -> the point it has reached
    waiting, \* threads that wait at a barrier
    regs,    \* thread -> its variables
    reduce,  \* the shared array
    weight,  \* chunk_weight: shared, too, when the launch caches weights
    out,     \* dimension -> the sum written to it
    touched  \* history: accesses to shared memory since the last barrier

memory == <<reduce, weight, touched>>
vars == <<launch, at, waiting, regs, memory, out>>

\* The block attention_split launches for a head dimension.
BlockDim(dim) ==
    IF dim > BlockThreads THEN BlockThreads
    ELSE dim * Max({1, Min({LaneThreads \div dim, MaxLanes})})

\* 0 is the maximum of a chunk without keys, minus infinity.
Maxima == 0..2

Threads == 0..(BlockDim(launch.dim) - 1)
Chunks == 0..(launch.chunks - 1)
Lanes == Max({1, Cardinality(Threads) \div launch.dim})
Width == Cardinality(Threads) \div Lanes

\* What thread t handles in the pass from dimension d0.
Dimension(t) == regs[t].d0 + (t % Width)
Lane(t) == t \div Width
HasKeys(c) == launch.max[c] # 0

\* Plausible bug: no barrier between reading the maximum and its slot's next
\* use, the total.
UnsyncedMaximum == {"tree", "weighed", "totalled", "lanes", "sum"}

\* The points of the kernel that a thread reaches through __syncthreads.
Synced == {"tree", "ranked", "weighed", "totalled", "lanes", "sum"}
Points == Synced \cup {"scan", "done"}

\* One thread arrives at point p, waiting if a barrier comes before.
Arrives(t, p) ==
    /\ at' = [at EXCEPT ![t] = p]
    /\ waiting' = IF p \in Synced THEN waiting \cup {t} ELSE waiting

Runs(t, p) == at[t] = p /\ t \notin waiting

Touches(t, readSlots, writtenSlots) ==
    touched' = touched \cup {<<t, "read", s>> : s \in readSlots}
                       \cup {<<t, "write", s>> : s \in writtenSlots}

Slot(i) == <<"reduce", i>>
WeightSlot(c) == <<"weight", c>>

\* What thread t reads to weigh a chunk (weight_of): the shared weights, or
\* the chunk's partial and its own maximum.
Weights(t) ==
    IF launch.cached THEN weight
    ELSE [c \in Chunks |-> IF HasKeys(c) THEN <<c, regs[t].max>> ELSE <<>>]
WeightSlots(cs) == IF launch.cached THEN {WeightSlot(c) : c \in cs} ELSE {}

\* Some of the first n chunks, in order.
Ascending(cs, n) == LET Wanted(c) == c \in cs IN SelectSeq([i \in 1..n |-> i - 1], Wanted)

InOrder(cs) == Ascending(cs, launch.chunks)

\* The weights that are not zero, in chunk order.
InTotal(ws) == LET cs == InOrder({c \in Chunks : ws[c] # <<>>})
               IN  [i \in 1..Len(cs) |-> ws[cs[i]]]

TypeOK ==
    /\ at \in [Threads -> Points]
    /\ waiting \subseteq Threads
    /\ \A t \in Threads : regs[t].stride \in Nat \ {0} /\ regs[t].d0 \in Nat /\ regs[t].max \in Maxima
    /\ DOMAIN reduce = Threads
    /\ DOMAIN out \subseteq 0..(launch.dim - 1)

Init ==
    /\ \E dim \in Dimensions, n \in ChunkCounts, cached \in BOOLEAN :
         \E max \in [0..(n - 1) -> Maxima] :
            launch = [dim |-> dim, chunks |-> n, cached |-> cached, max |-> max]
    /\ at = [t \in Threads |-> "scan"]
    /\ waiting = {}
    /\ regs = [t \in Threads |-> [stride |-> 1, d0 |-> 0, max |-> 0, total |-> <<>>]]
    /\ reduce = [t \in Threads |-> 0]
    /\ weight = [c \in Chunks |-> <<>>]
    /\ out = <<>>
    /\ touched = {}

----------------------------------------------------------------------------
(* The kernel, from barrier to barrier.                                    *)

\* The maximum of the chunks c = t, t + threads, ...
ScanChunks(t) ==
    /\ Runs(t, "scan") /\ Arrives(t, "tree")
    /\ LET mine == {launch.max[c] : c \in {c \in Chunks : c % Cardinality(Threads) = t}} \cup {0}
       IN  reduce' = [reduce EXCEPT ![t] = Max(mine)]
    /\ Touches(t, {}, {Slot(t)})
    /\ UNCHANGED <<launch, regs, weight, out>>

\* The pairs of one level of the tree.
Partner(t) == t + regs[t].stride
Pairs(t) == t % (2 * regs[t].stride) = 0 /\ Partner(t) \in Threads

\* Plausible bug: the stride doubles only in the threads that pair.
DoubledInPairs(t) == IF Pairs(t) THEN 2 * regs[t].stride ELSE regs[t].stride

Doubled(t) == 2 * regs[t].stride

ClimbTree(t) ==
    /\ Runs(t, "tree") /\ regs[t].stride < Cardinality(Threads)
    /\ Arrives(t, "tree")
    /\ IF Pairs(t)
       THEN /\ reduce' = [reduce EXCEPT ![t] = Max({@, reduce[Partner(t)]})]
            /\ Touches(t, {Slot(t), Slot(Partner(t))}, {Slot(t)})
       ELSE UNCHANGED <<reduce, touched>>
    /\ regs' = [regs EXCEPT ![t].stride = Doubled(t)]
    /\ UNCHANGED <<launch, weight, out>>

ReadMaximum(t) ==
    /\ Runs(t, "tree") /\ regs[t].stride >= Cardinality(Threads)
    /\ Arrives(t, "ranked")
    /\ regs' = [regs EXCEPT ![t].max = reduce[0]]
    /\ Touches(t, {Slot(0)}, {})
    /\ UNCHANGED <<launch, reduce, weight, out>>

CacheWeights(t) ==
    /\ launch.cached
    /\ Runs(t, "ranked") /\ Arrives(t, "weighed")
    /\ LET mine == {c \in Chunks : c % Cardinality(Threads) = t}
       IN  /\ weight' = [c \in Chunks |-> IF c \notin mine THEN weight[c]
                                          ELSE IF HasKeys(c) THEN <<c, regs[t].max>> ELSE <<>>]
           /\ Touches(t, {}, {WeightSlot(c) : c \in mine})
    /\ UNCHANGED <<launch, regs, reduce, out>>

\* One thread adds the weights up, in chunk order.
AddWeights(t) ==
    /\ Runs(t, IF launch.cached THEN "weighed" ELSE "ranked")
    /\ Arrives(t, "totalled")
    /\ IF t = 0
       THEN /\ reduce' = [reduce EXCEPT ![0] = InTotal(Weights(0))]
            /\ Touches(0, WeightSlots(Chunks), {Slot(0)})
       ELSE UNCHANGED <<reduce, touched>>
    /\ UNCHANGED <<launch, regs, weight, out>>

ReadTotal(t) ==
    /\ Runs(t, "totalled") /\ Arrives(t, "lanes")
    /\ regs' = [regs EXCEPT ![t].total = reduce[0]]
    /\ Touches(t, {Slot(0)}, {})
    /\ UNCHANGED <<launch, reduce, weight, out>>

\* A chunk's share of one dimension: its own output, weight and the total.
Share(c, w, total) == [chunk |-> c, weight |-> w, of |-> total]

\* Plausible bug: lanes take consecutive chunks, rounding their number down.
ConsecutiveChunks(l) ==
    LET each == launch.chunks \div Lanes IN {c \in Chunks : c \in l * each..(l + 1) * each - 1}

LaneChunks(l) == {c \in Chunks : c % Lanes = l}

\* What one lane adds, in chunk order.
LaneSum(l, ws, total) ==
    LET cs == InOrder({c \in LaneChunks(l) : ws[c] # <<>>})
    IN  [i \in 1..Len(cs) |-> Share(cs[i], ws[cs[i]], total)]

SumLane(t) ==
    /\ Runs(t, "lanes") /\ regs[t].d0 < launch.dim
    /\ Arrives(t, "sum")
    /\ IF Dimension(t) < launch.dim /\ Lane(t) < Lanes
       THEN /\ reduce' = [reduce EXCEPT ![t] = LaneSum(Lane(t), Weights(t), regs[t].total)]
            /\ Touches(t, WeightSlots(LaneChunks(Lane(t))), {Slot(t)})
       ELSE /\ reduce' = [reduce EXCEPT ![t] = <<>>]
            /\ Touches(t, {}, {Slot(t)})
    /\ UNCHANGED <<launch, regs, weight, out>>

\* Plausible bug: only the threads of the first lane go on to the next pass.
FirstLaneAdvances(t) == IF Lane(t) = 0 THEN regs[t].d0 + Width ELSE regs[t].d0

NextPass(t) == regs[t].d0 + Width

\* Plausible bug: the last pass writes for dimensions the head does not have.
WritesWholeWidth(t) == Lane(t) = 0

Writes(t) == Lane(t) = 0 /\ Dimension(t) < launch.dim

\* The lanes' sums, in lane order.
AddLanes(t) ==
    /\ Runs(t, "sum") /\ Arrives(t, "lanes")
    /\ LET slot(l) == l * Width + (t % Width)
       IN  IF Writes(t)
           THEN /\ out' = [d \in DOMAIN out \cup {Dimension(t)} |->
                             IF d = Dimension(t) THEN [l \in 1..Lanes |-> reduce[slot(l - 1)]]
                             ELSE out[d]]
                /\ Touches(t, {Slot(slot(l)) : l \in 0..(Lanes - 1)}, {})
           ELSE UNCHANGED <<out, touched>>
    /\ regs' = [regs EXCEPT ![t].d0 = NextPass(t)]
    /\ UNCHANGED <<launch, reduce, weight>>

Finish(t) ==
    /\ Runs(t, "lanes") /\ regs[t].d0 >= launch.dim
    /\ Arrives(t, "done")
    /\ UNCHANGED <<launch, regs, memory, out>>

\* __syncthreads lets everyone through once every thread has reached one, or
\* has returned.
Barrier ==
    /\ waiting # {}
    /\ \A t \in Threads : t \in waiting \/ at[t] = "done"
    /\ waiting' = {}
    /\ touched' = {}
    /\ UNCHANGED <<launch, at, regs, reduce, weight, out>>

Step(t) ==
    \/ ScanChunks(t)
    \/ ClimbTree(t)
    \/ ReadMaximum(t)
    \/ CacheWeights(t)
    \/ AddWeights(t)
    \/ ReadTotal(t)
    \/ SumLane(t)
    \/ AddLanes(t)
    \/ Finish(t)

Next == Barrier \/ \E t \in Threads : Step(t)

\* The Device runs every thread of a resident block until it waits or ends.
Fairness == WF_vars(Barrier) /\ \A t \in 0..(BlockThreads - 1) : WF_vars(t \in Threads /\ Step(t))

Spec == Init /\ [][Next]_vars /\ Fairness

----------------------------------------------------------------------------
(* Correctness.                                                            *)

\* Between two barriers, no thread writes a slot of shared memory that
\* another one reads or writes: the three uses of reduce never overlap.
NoDataRace ==
    \A a, b \in touched : a[3] = b[3] /\ "write" \in {a[2], b[2]} => a[1] = b[1]

\* The weights against the largest maximum of all chunks, what they add up
\* to, and what a lane of every Lanes-th chunk adds, in chunk order.
FixedWeights ==
    LET largest == Max({launch.max[c] : c \in Chunks})
    IN  [c \in Chunks |-> IF HasKeys(c) THEN <<c, largest>> ELSE <<>>]

FixedTotal ==
    LET cs == InOrder({c \in Chunks : HasKeys(c)})
    IN  [i \in 1..Len(cs) |-> FixedWeights[cs[i]]]

FixedLane(l) ==
    LET cs == InOrder({c \in Chunks : HasKeys(c) /\ c % Lanes = l})
    IN  [i \in 1..Len(cs) |-> Share(cs[i], FixedWeights[cs[i]], FixedTotal)]

FixedSum == [l \in 1..Lanes |-> FixedLane(l - 1)]

\* "the result does not depend on scheduling": every dimension is the same
\* expression, the chunks with keys weighed against the largest maximum,
\* added in chunk order within a lane and in lane order across.
ResultIsFixed ==
    (\A t \in Threads : at[t] = "done") =>
        out = [d \in 0..(launch.dim - 1) |-> FixedSum]

\* Threads that wait at a barrier wait at the same one, in the same turn of
\* its loop, and none of the others has ended: __syncthreads stands in loops,
\* whose bounds and strides every thread works out by itself.
BarriersAreMet ==
    \A t \in waiting, u \in Threads :
        /\ at[u] # "done"
        /\ u \in waiting => /\ at[u] = at[t]
                            /\ regs[u].stride = regs[t].stride /\ regs[u].d0 = regs[t].d0

\* A bound on the steps a thread has left: the turns of the tree, then two
\* for each dimension, then one for each of the rest.
Left(n) == IF n > 0 THEN n ELSE 0
StepsLeft(t) ==
    LET turns == Left(Cardinality(Threads) - regs[t].stride)
        passes == 2 * Left(launch.dim - regs[t].d0)
    IN  CASE at[t] = "scan" -> turns + passes + 6
          [] at[t] = "tree" -> turns + passes + 5
          [] at[t] = "ranked" -> passes + 4
          [] at[t] = "weighed" -> passes + 3
          [] at[t] = "totalled" -> passes + 2
          [] at[t] = "lanes" -> passes + 1
          [] at[t] = "sum" -> passes
          [] at[t] = "done" -> 0

\* No thread loops for ever, in the tree or over the dimensions: a step lets
\* the waiting threads go or brings one thread nearer to its end, and none
\* away from it.  With BarriersAreMet, what BlockEnds needs besides fairness.
StepsRunOut ==
    [][\/ waiting # {} /\ waiting' = {}
          /\ \A t \in Threads : StepsLeft(t)' = StepsLeft(t)
       \/ \E t \in Threads :
            /\ t \notin waiting
            /\ StepsLeft(t)' < StepsLeft(t)
            /\ \A u \in Threads \ {t} : StepsLeft(u)' = StepsLeft(u)]_vars

\* Every block ends: no thread waits at a barrier that the others pass by,
\* and none loops in the tree or over the dimensions for ever.
BlockEnds == <>(\A t \in Threads : at[t] = "done")
=============================================================================
