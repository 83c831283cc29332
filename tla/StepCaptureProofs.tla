-------------------------- MODULE StepCaptureProofs --------------------------
(***************************************************************************)
(* Proofs about StepCapture, for any resources, addresses and shapes, any  *)
(* step captured and any number of captures and offsets: what the check of *)
(* addresses before a replay guarantees of the buffers the graph reaches.  *)
(***************************************************************************)
EXTENDS StepCapture, NaturalFacts, SequenceTheorems, TLAPS

----------------------------------------------------------------------------
(* The invariant.                                                          *)

\* What the later proofs need of the types.  TypeOK says more, of memory.
Shape ==
    /\ storage \in [Ids -> Buffers \cup {None}]
    /\ scratch \in Seq(Nat)
    /\ kept = 1..Len(scratch)
    /\ recording \in Recordings \cup {None}
    /\ Capturing => /\ capture \in KernelCaptures
                    /\ recording \in Recordings
                    /\ nextCapture < MaxCaptures
    /\ captures \in [CaptureIds -> CapturedSteps \cup {None}]
    /\ nextCapture \in 0..MaxCaptures

\* No two resources share a buffer.
OneBufferEach ==
    \A i, j \in Ids :
        Held(i) /\ Held(j) /\ storage[i].addr = storage[j].addr => i = j

\* While a step is captured, what it recorded does not move.
RecordingIsCurrent ==
    Capturing =>
        \A i \in Ids : recording.resources[i] # None =>
            Held(i) /\ SpanOf(storage[i]) = recording.resources[i]

\* A launch reaches only buffers of this record, within their floats at every
\* offset up to this one, and a scratch buffer that is kept.
Recorded(op, record, offset) ==
    /\ \A b \in op.touches : \E i \in Ids : record.resources[i] = SpanOf(b)
    /\ op.scratch # None => op.scratch \in 1..Len(scratch)
    /\ op.bounded # None =>
        \E i \in Ids :
            /\ record.resources[i] # None
            /\ record.resources[i].addr = op.bounded
            /\ (op.last + (IF op.advances THEN offset ELSE 0)) * op.width
                    <= record.resources[i].len

CaptureRecorded ==
    Capturing =>
        \A k \in 1..Len(capture.ops) :
            Recorded(capture.ops[k], recording, capture.maxOffset)

CapturesRecorded ==
    \A c \in CaptureIds : captures[c] # None =>
        \A k \in 1..Len(captures[c].ops) :
            Recorded(captures[c].ops[k], captures[c].recording, captures[c].maxOffset)

Inv ==
    Shape /\ OneBufferEach /\ RecordingIsCurrent /\ CaptureRecorded /\ CapturesRecorded

LEMMA BufferFacts ==
    ASSUME NEW b \in Buffers
    PROVE  /\ b.addr \in Addrs /\ b.shape \in Shapes
           /\ Rows(b) \in Nat \ {0} /\ Width(b) \in Nat \ {0}
           /\ Floats(b) \in Nat /\ Floats(b) = Rows(b) * Width(b)
           /\ SpanOf(b) \in Spans /\ SpanOf(b) # None
           /\ SpanOf(b).addr = b.addr /\ SpanOf(b).len = Floats(b)
<1>1. b.addr \in Addrs /\ b.shape \in Shapes
  BY DEF Buffers
<1>2. Rows(b) \in Nat \ {0} /\ Width(b) \in Nat \ {0}
  BY <1>1, ConstantsOK DEF Rows, Width
<1>3. Floats(b) \in Nat /\ Floats(b) = Rows(b) * Width(b)
  BY <1>2, ProductPositive DEF Floats
<1>4. SpanOf(b).addr = b.addr /\ SpanOf(b).len = Floats(b) /\ SpanOf(b) \in Spans
  BY <1>1, <1>3 DEF SpanOf, Spans
<1> QED BY <1>1, <1>2, <1>3, <1>4, NoneIsNoBuffer

\* More rows of one width are more floats.
LEMMA RowsToFloats ==
    ASSUME NEW m \in Nat, NEW n \in Nat, NEW w \in Nat, m <= n
    PROVE  m * w <= n * w
<1>1. CASE m = n
  <2>1. m * w \in Nat
    OBVIOUS
  <2> QED BY <1>1, <2>1
<1>2. CASE m < n
  <2>1. m * w + w <= n * w
    BY <1>2, NextMultiple
  <2>2. m * w \in Nat /\ n * w \in Nat
    OBVIOUS
  <2> QED BY <2>1, <2>2
<1> QED BY <1>1, <1>2

LEMMA InvInit == Init => Inv
<1> SUFFICES ASSUME Init PROVE Inv
  OBVIOUS
<1> USE DEF Init
<1>1. ~Capturing
  BY DEF Capturing
<1>2. Shape
  <2>1. scratch \in Seq(Nat) /\ kept = 1..Len(scratch)
    BY EmptySeq
  <2>2. nextCapture \in 0..MaxCaptures
    BY ConstantsOK
  <2> QED BY <1>1, <2>1, <2>2 DEF Shape
<1>3. OneBufferEach
  BY DEF OneBufferEach, Held
<1>4. CapturesRecorded
  BY DEF CapturesRecorded
<1> QED BY <1>1, <1>2, <1>3, <1>4 DEF Inv, RecordingIsCurrent, CaptureRecorded

----------------------------------------------------------------------------
(* Steps outside a capture that change the table.                          *)

\* Recorded asks of the scratch only that it has not lost buffers.
LEMMA RecordedStays ==
    ASSUME NEW op, NEW record, NEW offset, Recorded(op, record, offset),
           scratch \in Seq(Nat), scratch' \in Seq(Nat), Len(scratch) <= Len(scratch')
    PROVE  Recorded(op, record, offset)'
<1>1. Len(scratch) \in Nat /\ Len(scratch') \in Nat
  BY LenProperties
<1>2. op.scratch # None => op.scratch \in 1..Len(scratch')
  BY <1>1 DEF Recorded
<1> QED BY <1>2 DEF Recorded, SpanOf, Floats, Rows, Width

LEMMA CapturesStay ==
    ASSUME Shape, CapturesRecorded, captures' = captures,
           scratch' \in Seq(Nat), Len(scratch) <= Len(scratch')
    PROVE  CapturesRecorded'
BY RecordedStays DEF Shape, CapturesRecorded

\* A step outside a capture need only keep the table and the scratch right.
LEMMA TableStep ==
    ASSUME Inv, ~Capturing, UNCHANGED captureVars,
           storage' \in [Ids -> Buffers \cup {None}], OneBufferEach',
           scratch' \in Seq(Nat), kept' = 1..Len(scratch'), Len(scratch) <= Len(scratch')
    PROVE  Inv'
<1>1. /\ ~Capturing' /\ captures' = captures /\ nextCapture' = nextCapture
      /\ recording' = recording
  BY DEF Capturing, captureVars
<1>2. Shape'
  BY <1>1 DEF Inv, Shape
<1>3. CapturesRecorded'
  BY <1>1, CapturesStay DEF Inv
<1> QED BY <1>1, <1>2, <1>3 DEF Inv, RecordingIsCurrent, CaptureRecorded

LEMMA HostKeepsInv == Inv /\ HostStep => Inv'
<1> SUFFICES ASSUME Inv, HostStep PROVE Inv'
  OBVIOUS
<1> USE DEF kernelVars
<1>1. ASSUME NEW i \in Ids, NEW a \in Addrs, NEW n \in Shapes, NEW compact \in Formats,
             NEW v \in Vals, WriteTensor(i, a, n, compact, v)
      PROVE  Inv'
  <2> DEFINE b == [addr |-> a, shape |-> n, compact |-> compact]
  <2>1. /\ ~Capturing /\ a \in Free /\ UNCHANGED <<kernelVars, captureVars>>
        /\ storage' = [storage EXCEPT ![i] = b]
    BY <1>1 DEF WriteTensor
  <2>2. b \in Buffers
    BY ConstantsOK DEF Buffers
  <2>3. \A j \in Ids : storage'[j] = IF j = i THEN b ELSE storage[j]
    BY <2>1 DEF Inv, Shape
  <2>4. \A j \in Ids : Held(j) => storage[j].addr # a
    BY <2>1 DEF Free, Live
  <2>5. OneBufferEach'
    <3> SUFFICES ASSUME NEW j \in Ids, NEW k \in Ids, Held(j)', Held(k)',
                        storage'[j].addr = storage'[k].addr
                 PROVE  j = k
      BY DEF OneBufferEach
    <3>1. b.addr = a
      OBVIOUS
    <3>2. /\ j # i => Held(j) /\ storage'[j] = storage[j]
          /\ k # i => Held(k) /\ storage'[k] = storage[k]
      BY <2>3 DEF Held
    <3> QED BY <2>3, <2>4, <3>1, <3>2 DEF Inv, OneBufferEach
  <2> HIDE DEF b
  <2>6. storage' \in [Ids -> Buffers \cup {None}]
    BY <2>1, <2>2 DEF Inv, Shape
  <2> QED BY <2>1, <2>5, <2>6, TableStep, LenProperties DEF Inv, Shape
<1>2. ASSUME NEW i \in Ids, ReleaseTensor(i) PROVE Inv'
  <2>1. /\ ~Capturing /\ UNCHANGED <<kernelVars, captureVars>>
        /\ storage' = [storage EXCEPT ![i] = None]
    BY <1>2 DEF ReleaseTensor
  <2>2. OneBufferEach'
    <3>1. \A j \in Ids : storage'[j] = IF j = i THEN None ELSE storage[j]
      BY <2>1 DEF Inv, Shape
    <3>2. OneBufferEach
      BY DEF Inv
    <3> QED BY <3>1, <3>2 DEF OneBufferEach, Held
  <2>3. storage' \in [Ids -> Buffers \cup {None}]
    BY <2>1 DEF Inv, Shape
  <2> QED BY <2>1, <2>2, <2>3, TableStep, LenProperties DEF Inv, Shape
<1> QED BY <1>1, <1>2 DEF HostStep

LEMMA OperandsInTable ==
    ASSUME Inv, NEW k, NEW ins \in Ids \X Ids, OperandsHeld(k, ins)
    PROVE  /\ \A p \in 1..Arity(k) : ins[p] \in Ids /\ storage[ins[p]] \in Buffers
           /\ ToExpand(k, ins) \subseteq Ids
           /\ \A i \in ToExpand(k, ins) : Held(i) /\ storage[i] \in Buffers
<1>1. 1 \in 1..Arity(k) /\ (k # "silu" => 2 \in 1..Arity(k)) /\ 1..Arity(k) \subseteq 1..2
  BY DEF Arity
<1>2. \A p \in 1..Arity(k) : ins[p] \in Ids /\ storage[ins[p]] \in Buffers /\ Held(ins[p])
  BY <1>1 DEF OperandsHeld, Held, Inv, Shape
<1>3. F32Operands(k) \subseteq 1..Arity(k)
  BY DEF F32Operands, Arity
<1>4. \A i \in ToExpand(k, ins) : i \in Ids /\ Held(i) /\ storage[i] \in Buffers
  BY <1>2, <1>3 DEF ToExpand
<1> QED BY <1>2, <1>4

\* Operands expand into free buffers, each its own, and the output goes to a
\* buffer of no other resource.
LEMMA DispatchKeepsInv ==
    ASSUME Inv, NEW k \in Kernels, NEW ins \in Ids \X Ids, NEW out \in Ids,
           NEW v \in Vals, Dispatch(k, ins, out, v)
    PROVE  Inv'
<1> DEFINE x == ToExpand(k, ins)
           inPlace == WritesInPlace(k, ins, out)
           shape == OutputShape(k, ins)
<1>1. /\ ~Capturing /\ OperandsHeld(k, ins) /\ UNCHANGED captureVars
      /\ k = "kv-write" => out = ins[1]
      /\ shape \in Shapes
  BY DEF Dispatch
<1>2. PICK e \in [x -> Free] :
        /\ \A i, j \in x : e[i] = e[j] => i = j
        /\ \E a \in Addrs :
            /\ IF ReusesOutput(k, ins, out) \/ WritesInPlace(k, ins, out)
               THEN a = storage[out].addr
               ELSE a \in Free \ {e[i] : i \in x}
            /\ RunKernel(k, ins, out, e, a, v)
  BY DEF Dispatch
<1>3. PICK a \in Addrs :
        /\ IF ReusesOutput(k, ins, out) \/ WritesInPlace(k, ins, out)
           THEN a = storage[out].addr
           ELSE a \in Free \ {e[i] : i \in x}
        /\ RunKernel(k, ins, out, e, a, v)
  BY <1>2
<1>4. /\ x \subseteq Ids
      /\ \A i \in x : Held(i) /\ storage[i] \in Buffers
      /\ \A p \in 1..Arity(k) : storage[ins[p]] \in Buffers
  BY <1>1, OperandsInTable
<1>5. \A i \in Ids :
        storage'[i] = IF i = out /\ ~inPlace THEN F32(a, shape)
                      ELSE IF i \in x THEN F32(e[i], storage[i].shape)
                      ELSE storage[i]
  <2> HIDE DEF inPlace, shape
  <2> QED BY <1>3 DEF RunKernel, inPlace, shape
<1>6. storage' \in [Ids -> Buffers \cup {None}]
  <2>1. \A c \in Addrs, m \in Shapes : F32(c, m) \in Buffers
    BY DEF F32, Buffers
  <2>2. Free \subseteq Addrs
    BY DEF Free
  <2>3. \A i \in x : F32(e[i], storage[i].shape) \in Buffers
    BY <1>4, <2>1, <2>2 DEF Buffers
  <2>4. DOMAIN storage' = Ids /\ storage' = [i \in Ids |-> storage'[i]]
    BY <1>3 DEF RunKernel
  <2>5. \A i \in Ids : storage'[i] \in Buffers \cup {None}
    <3> HIDE DEF x, inPlace, shape
    <3> QED BY <1>1, <1>4, <1>5, <2>1, <2>3 DEF Inv, Shape
  <2> QED BY <2>4, <2>5
<1>7. OneBufferEach'
  <2>1. ReusesOutput(k, ins, out) => out \notin x /\ Held(out)
    <3>1. F32Operands(k) \subseteq 1..Arity(k)
      BY DEF F32Operands, Arity
    <3> QED BY <3>1 DEF ReusesOutput, ToExpand
  <2>3. inPlace \/ (out \notin x /\ Held(out) /\ a = storage[out].addr)
                \/ a \in Free \ {e[i] : i \in x}
    BY <1>3, <2>1
  <2>5. \A i, j \in x : e[i] = e[j] => i = j
    BY <1>2
  <2> HIDE DEF x, inPlace, shape
  <2>6. \A i \in Ids : Held(i) => storage[i].addr \notin Free
    BY DEF Free, Live
  <2>7. \A i \in x : F32(e[i], storage[i].shape).addr = e[i] /\ e[i] \in Free
    BY DEF F32
  <2>8. F32(a, shape).addr = a
    BY DEF F32
  <2> SUFFICES ASSUME NEW i \in Ids, NEW j \in Ids, Held(i)', Held(j)',
                      storage'[i].addr = storage'[j].addr, i # j
               PROVE  FALSE
    BY DEF OneBufferEach
  <2>9. /\ i \notin x /\ (i # out \/ inPlace) => Held(i) /\ storage'[i] = storage[i]
        /\ j \notin x /\ (j # out \/ inPlace) => Held(j) /\ storage'[j] = storage[j]
    BY <1>5 DEF Held
  <2>10. CASE (i # out \/ inPlace) /\ (j # out \/ inPlace)
    BY <1>5, <2>5, <2>6, <2>7, <2>9, <2>10 DEF Inv, OneBufferEach
  <2>11. CASE ~inPlace /\ i = out
    <3>1. j # out /\ storage'[i].addr = a
      BY <1>5, <2>8, <2>11
    <3>2. CASE j \in x
      BY <1>5, <2>3, <2>6, <2>7, <2>11, <3>1, <3>2
    <3>3. CASE j \notin x
      BY <2>3, <2>6, <2>9, <2>11, <3>1, <3>3 DEF Inv, OneBufferEach
    <3> QED BY <3>2, <3>3
  <2>12. CASE ~inPlace /\ j = out
    <3>1. i # out /\ storage'[j].addr = a
      BY <1>5, <2>8, <2>12
    <3>2. CASE i \in x
      BY <1>5, <2>3, <2>6, <2>7, <2>12, <3>1, <3>2
    <3>3. CASE i \notin x
      BY <2>3, <2>6, <2>9, <2>12, <3>1, <3>3 DEF Inv, OneBufferEach
    <3> QED BY <3>2, <3>3
  <2> QED BY <2>10, <2>11, <2>12
<1>8. scratch' \in Seq(Nat) /\ kept' = 1..Len(scratch') /\ Len(scratch) <= Len(scratch')
  <2>1. scratch \in Seq(Nat) /\ kept = 1..Len(scratch) /\ Len(scratch) \in Nat
    BY LenProperties DEF Inv, Shape
  <2>2. CASE ScratchServes(k, ins)
    BY <1>3, <2>1, <2>2 DEF RunKernel, kernelVars
  <2>3. CASE ~ScratchServes(k, ins)
    <3>1. k = "attention"
      BY <2>3 DEF ScratchServes, NeedsScratch
    <3>2. Rows(storage[ins[2]]) \in Nat
      <4>1. 2 \in 1..Arity(k)
        BY <3>1 DEF Arity
      <4>2. storage[ins[2]] \in Buffers
        BY <1>4, <4>1
      <4> QED BY <4>2, BufferFacts
    <3>3. scratch' = Append(scratch, Rows(storage[ins[2]])) /\ kept' = kept \cup {Len(scratch) + 1}
      BY <1>3, <2>3 DEF RunKernel, KeepOutgrown
    <3>4. scratch' \in Seq(Nat) /\ Len(scratch') = Len(scratch) + 1
      BY <2>1, <3>2, <3>3, AppendProperties
    <3> QED BY <2>1, <3>3, <3>4
  <2> QED BY <2>2, <2>3
<1> QED BY <1>1, <1>6, <1>7, <1>8, TableStep

LEMMA LookupFailureKeepsInv ==
    ASSUME Inv, NEW ins \in Ids \X Ids, NEW out \in Ids, LookupFails(ins, out)
    PROVE  Inv'
<1>1. /\ ~Capturing /\ UNCHANGED <<kernelVars, captureVars>>
      /\ storage' = [storage EXCEPT ![out] = None]
  BY DEF LookupFails
<1>2. OneBufferEach'
  BY <1>1 DEF Inv, Shape, OneBufferEach, Held
<1>3. storage' \in [Ids -> Buffers \cup {None}]
  BY <1>1 DEF Inv, Shape
<1> QED BY <1>1, <1>2, <1>3, TableStep, LenProperties DEF Inv, Shape, kernelVars

----------------------------------------------------------------------------
(* Capturing.                                                              *)

\* What a launch reaches, typed.
LEMMA LaunchType ==
    ASSUME Inv, Capturing, NEW k, NEW ins \in Ids \X Ids, NEW out \in Ids, NEW n \in Nat,
           OperandsHeld(k, ins), NeedsNothingNew(k, ins, out), InBounds(k, ins, n)
    PROVE  /\ Touched(k, ins, out) \subseteq Ids
           /\ \A i \in Touched(k, ins, out) :
                Held(i) /\ storage[i] \in Buffers /\ SpanOf(storage[i]) \in Spans
           /\ Reach(k, ins, n) \in Nat
           /\ BoundedOperand(k, ins) # None =>
                /\ BoundedOperand(k, ins) \in Touched(k, ins, out)
                /\ Reach(k, ins, n) <= Rows(storage[BoundedOperand(k, ins)])
           /\ Launch(k, ins, out, n) \in Launches
<1>1. \A p \in 1..Arity(k) : ins[p] \in Ids /\ storage[ins[p]] \in Buffers /\ Held(ins[p])
  BY OperandsInTable DEF OperandsHeld
<1>2. 1 \in 1..Arity(k) /\ (k # "silu" => 2 \in 1..Arity(k))
  BY DEF Arity
<1>3. Held(out) /\ storage[out] \in Buffers
  <2>1. Held(out)
    BY <1>1, <1>2 DEF NeedsNothingNew, ReusesOutput, WritesInPlace
  <2> QED BY <2>1 DEF Held, Inv, Shape
<1>4. \A b \in Buffers : /\ b.addr \in Addrs /\ SpanOf(b) \in Spans
                         /\ Rows(b) \in Nat /\ Width(b) \in Nat
  BY BufferFacts
<1>5. \A i \in Touched(k, ins, out) : i \in Ids /\ Held(i) /\ storage[i] \in Buffers
  BY <1>1, <1>3 DEF Touched
<1>6. Reach(k, ins, n) \in Nat
  <2>1. k = "kv-write" => Rows(storage[ins[2]]) \in Nat
    BY <1>1, <1>2, <1>4
  <2> QED BY <2>1 DEF Reach
<1>7. BoundedOperand(k, ins) # None => BoundedOperand(k, ins) \in Touched(k, ins, out)
  <2>1. k = "kv-write" \/ k = "attention" => ins[1] \in Touched(k, ins, out) /\ ins[2] \in Touched(k, ins, out)
    BY <1>2 DEF Touched
  <2> QED BY <2>1 DEF BoundedOperand
<1>8. BoundedOperand(k, ins) # None => Reach(k, ins, n) <= Rows(storage[BoundedOperand(k, ins)])
  BY DEF InBounds
<1>9. Launch(k, ins, out, n) \in Launches
  <2> DEFINE op == Launch(k, ins, out, n)
  <2>1. {storage[i] : i \in {ins[p] : p \in 1..Arity(k)} \cup {out}} \in SUBSET Buffers
    BY <1>5 DEF Touched
  <2>2. storage[out].addr \in Addrs
    BY <1>3, <1>4
  <2>3. /\ (IF k = "embedding" THEN storage[ins[2]].addr ELSE None) \in Addrs \cup {None}
        /\ (IF k = "embedding" THEN Rows(storage[ins[1]]) ELSE None) \in Nat \cup {None}
    BY <1>1, <1>2, <1>4
  <2>4. (IF BoundedOperand(k, ins) # None THEN storage[BoundedOperand(k, ins)].addr ELSE None)
            \in Addrs \cup {None}
    BY <1>4, <1>5, <1>7
  <2>7. (IF BoundedOperand(k, ins) # None THEN Width(storage[BoundedOperand(k, ins)]) ELSE 0)
            \in Nat
    BY <1>4, <1>5, <1>7
  <2>5. (IF NeedsScratch(k, ins) THEN Len(scratch) ELSE None) \in Nat \cup {None}
    BY LenProperties DEF Inv, Shape
  <2>6. (Attribute(k) \in capture.advancing) \in BOOLEAN
    OBVIOUS
  <2> QED BY <1>6, <2>1, <2>2, <2>3, <2>4, <2>5, <2>6, <2>7 DEF Launch, Launches
<1> QED BY <1>4, <1>5, <1>6, <1>7, <1>8, <1>9

\* A record that grows, and an offset that falls, still cover a launch.
LEMMA RecordedGrows ==
    ASSUME NEW op \in Launches, NEW r, NEW s, NEW m \in Nat, NEW l \in Nat, l <= m,
           NoneIsNoBuffer, Recorded(op, r, m),
           \A i \in Ids : r.resources[i] # None =>
               s.resources[i] = r.resources[i] /\ r.resources[i] \in Spans
    PROVE  Recorded(op, s, l)
<1>1. \A b \in op.touches : SpanOf(b) # None
  BY BufferFacts DEF Launches
<1>2. op.last \in Nat /\ op.width \in Nat
  BY DEF Launches
<1>3. \A b \in op.touches : \E i \in Ids : s.resources[i] = SpanOf(b)
  BY <1>1 DEF Recorded
<1>4. ASSUME op.bounded # None
      PROVE  \E i \in Ids :
                /\ s.resources[i] # None
                /\ s.resources[i].addr = op.bounded
                /\ (op.last + (IF op.advances THEN l ELSE 0)) * op.width <= s.resources[i].len
  <2>1. PICK i \in Ids :
            /\ r.resources[i] # None
            /\ r.resources[i].addr = op.bounded
            /\ (op.last + (IF op.advances THEN m ELSE 0)) * op.width <= r.resources[i].len
    BY <1>4 DEF Recorded
  <2>2. s.resources[i] = r.resources[i] /\ r.resources[i].len \in Nat
    BY <2>1, ConstantsOK DEF Spans
  <2>3. (op.last + (IF op.advances THEN l ELSE 0)) * op.width <= r.resources[i].len
    <3> DEFINE low == op.last + (IF op.advances THEN l ELSE 0)
               high == op.last + (IF op.advances THEN m ELSE 0)
    <3>1. low \in Nat /\ high \in Nat /\ low <= high
      BY <1>2
    <3>2. high * op.width <= r.resources[i].len
      BY <2>1
    <3> HIDE DEF low, high
    <3>3. low * op.width <= high * op.width /\ low * op.width \in Nat /\ high * op.width \in Nat
      BY <1>2, <3>1, RowsToFloats
    <3>4. low * op.width <= r.resources[i].len
      BY <2>2, <3>2, <3>3
    <3> QED BY <3>4 DEF low
  <2> QED BY <2>1, <2>2, <2>3
<1> QED BY <1>3, <1>4 DEF Recorded

\* A captured launch that reuses a buffer changes its shape only.
LEMMA CapturedSpans ==
    ASSUME Inv, NEW k, NEW ins \in Ids \X Ids, NEW out \in Ids,
           OperandsHeld(k, ins), NeedsNothingNew(k, ins, out),
           OutputShape(k, ins) \in Shapes, storage' = Captured(k, ins, out)
    PROVE  /\ storage' \in [Ids -> Buffers \cup {None}]
           /\ \A i \in Ids :
                /\ Held(i)' <=> Held(i)
                /\ Held(i) => /\ storage'[i].addr = storage[i].addr
                              /\ SpanOf(storage'[i]) = SpanOf(storage[i])
<1>1. storage \in [Ids -> Buffers \cup {None}]
  BY DEF Inv, Shape
<1>2. CASE WritesInPlace(k, ins, out)
  BY <1>1, <1>2 DEF Captured, Held
<1>3. CASE ~WritesInPlace(k, ins, out)
  <2> DEFINE b == [storage[out] EXCEPT !.shape = OutputShape(k, ins)]
  <2>1. Held(out) /\ Floats(storage[out]) = OutputShape(k, ins)[1] * OutputShape(k, ins)[2]
    BY <1>3 DEF NeedsNothingNew, ReusesOutput
  <2>2. storage[out] \in Buffers
    BY <1>1, <2>1 DEF Held
  <2>3. /\ b \in Buffers /\ b.addr = storage[out].addr /\ b.shape = OutputShape(k, ins)
    BY <2>2 DEF Buffers
  <2>4. \A i \in Ids : storage'[i] = IF i = out THEN b ELSE storage[i]
    BY <1>1, <1>3 DEF Captured
  <2> HIDE DEF b
  <2>5. Floats(b) = Floats(storage[out])
    BY <2>1, <2>3 DEF Floats, Rows, Width
  <2>6. SpanOf(b) = SpanOf(storage[out])
    BY <2>3, <2>5 DEF SpanOf
  <2>7. storage' \in [Ids -> Buffers \cup {None}]
    <3>1. storage' = [i \in Ids |-> storage'[i]]
      BY <1>1, <1>3 DEF Captured
    <3> QED BY <1>1, <2>3, <2>4, <3>1
  <2>8. b # None
    BY <2>3, NoneIsNoBuffer
  <2> QED BY <2>1, <2>3, <2>4, <2>6, <2>7, <2>8 DEF Held
<1> QED BY <1>2, <1>3

LEMMA CaptureDispatchKeepsInv ==
    ASSUME Inv, NEW k, NEW ins \in Ids \X Ids, NEW out \in Ids, NEW n \in Nat,
           CaptureDispatch(k, ins, out, n)
    PROVE  Inv'
<1> DEFINE op == Launch(k, ins, out, n)
           touched == Touched(k, ins, out)
           m == IF Attribute(k) \in capture.advancing
                THEN Smaller(capture.maxOffset, Room(k, ins, n)) ELSE capture.maxOffset
           bounded == BoundedOperand(k, ins)
           reach == Reach(k, ins, n)
<1>1. /\ Capturing /\ OperandsHeld(k, ins) /\ NeedsNothingNew(k, ins, out)
      /\ InBounds(k, ins, n) /\ ScratchServes(k, ins)
      /\ OutputShape(k, ins) \in Shapes /\ storage' = Captured(k, ins, out)
      /\ UNCHANGED <<memory, kernelVars, captures, nextCapture>>
  BY DEF CaptureDispatch
<1>2. /\ capture \in KernelCaptures /\ recording \in Recordings /\ nextCapture < MaxCaptures
      /\ scratch' = scratch /\ kept' = kept /\ captures' = captures
      /\ nextCapture' = nextCapture /\ scratch \in Seq(Nat)
  BY <1>1 DEF Inv, Shape, kernelVars
<1>0. /\ storage' \in [Ids -> Buffers \cup {None}]
      /\ \A i \in Ids :
            /\ Held(i)' <=> Held(i)
            /\ Held(i) => /\ storage'[i].addr = storage[i].addr
                          /\ SpanOf(storage'[i]) = SpanOf(storage[i])
  BY <1>1, CapturedSpans
<1>3. /\ touched \subseteq Ids
      /\ \A i \in touched : Held(i) /\ storage[i] \in Buffers /\ SpanOf(storage[i]) \in Spans
      /\ reach \in Nat
      /\ bounded # None => bounded \in touched /\ reach <= Rows(storage[bounded])
      /\ op \in Launches
  BY <1>1, LaunchType
<1>4. capture' = [capture EXCEPT !.ops = Append(@, op), !.maxOffset = m]
  BY DEF CaptureDispatch
<1>5. /\ recording' = [resources |-> [i \in Ids |-> IF i \in touched THEN SpanOf(storage[i])
                                                   ELSE recording.resources[i]],
                       embeddingIds |-> [i \in Ids |-> IF k = "embedding" /\ i = ins[2]
                                                       THEN Rows(storage[ins[1]])
                                                       ELSE recording.embeddingIds[i]]]
  BY DEF CaptureDispatch
<1>6. /\ Attribute(k) \in capture.advancing => bounded # None
      /\ bounded # None => Rows(storage[bounded]) \in Nat
  <2>1. capture.advancing \subseteq {"row_offset", "key_count"}
    BY <1>2 DEF KernelCaptures, Advancing
  <2>2. Attribute(k) \in capture.advancing => k = "kv-write" \/ k = "attention"
    BY <2>1 DEF Attribute
  <2>3. ins[1] # None /\ ins[2] # None
    BY ConstantsOK
  <2>4. k = "kv-write" \/ k = "attention" => bounded # None
    BY <2>3 DEF BoundedOperand
  <2>5. bounded # None => Rows(storage[bounded]) \in Nat
    BY <1>3, BufferFacts
  <2> QED BY <2>2, <2>4, <2>5
<1>7. /\ capture.maxOffset \in Nat /\ capture.maxOffset <= MaxOffset
      /\ m \in Nat /\ m <= capture.maxOffset
      /\ Attribute(k) \in capture.advancing => m + reach <= Rows(storage[bounded])
  <2>1. capture.maxOffset \in Nat /\ capture.maxOffset <= MaxOffset
    BY <1>2, ConstantsOK DEF KernelCaptures, Offsets
  <2>2. CASE Attribute(k) \in capture.advancing
    <3>1. reach <= Rows(storage[bounded]) /\ Rows(storage[bounded]) \in Nat /\ reach \in Nat
      BY <1>3, <1>6, <2>2
    <3>2. Room(k, ins, n) = Rows(storage[bounded]) - reach
      BY DEF Room
    <3> HIDE DEF bounded, reach
    <3> QED BY <2>1, <2>2, <3>1, <3>2 DEF Smaller
  <2> QED BY <2>1, <2>2
<1> HIDE DEF op, touched, m, bounded, reach
<1>8. capture' \in KernelCaptures
  <2>1. Append(capture.ops, op) \in Seq(Launches)
    BY <1>2, <1>3, AppendProperties DEF KernelCaptures
  <2>2. m \in Offsets
    BY <1>7, ConstantsOK DEF Offsets
  <2> QED BY <1>2, <1>4, <2>1, <2>2 DEF KernelCaptures
<1>9. recording' \in Recordings
  <2>1. k = "embedding" => Rows(storage[ins[1]]) \in Nat
    <3>1. 1 \in 1..Arity(k)
      BY DEF Arity
    <3>2. storage[ins[1]] \in Buffers
      BY <1>1, <3>1, OperandsInTable
    <3> QED BY <3>2, BufferFacts
  <2>2. [i \in Ids |-> IF i \in touched THEN SpanOf(storage[i]) ELSE recording.resources[i]]
            \in [Ids -> Spans \cup {None}]
    BY <1>2, <1>3 DEF Recordings
  <2>3. [i \in Ids |-> IF k = "embedding" /\ i = ins[2] THEN Rows(storage[ins[1]])
                       ELSE recording.embeddingIds[i]] \in [Ids -> Nat \cup {None}]
    BY <1>2, <2>1 DEF Recordings
  <2> QED BY <1>5, <2>2, <2>3 DEF Recordings
<1>10. Shape'
  BY <1>0, <1>1, <1>2, <1>8, <1>9 DEF Inv, Shape, Capturing
<1>11. OneBufferEach'
  BY <1>0 DEF Inv, OneBufferEach
<1>12. \A i \in Ids : recording'.resources[i] =
            IF i \in touched THEN SpanOf(storage[i]) ELSE recording.resources[i]
  BY <1>5
<1>13. RecordingIsCurrent'
  <2>1. \A i \in Ids : recording.resources[i] # None =>
            Held(i) /\ SpanOf(storage[i]) = recording.resources[i]
    BY <1>1 DEF Inv, RecordingIsCurrent
  <2>2. \A i \in Ids : recording'.resources[i] # None =>
            Held(i)' /\ SpanOf(storage'[i]) = recording'.resources[i]
    BY <1>0, <1>3, <1>12, <2>1
  <2> QED BY <2>2 DEF RecordingIsCurrent, SpanOf, Floats, Rows, Width
<1>14. CaptureRecorded'
  <2>1. /\ capture'.maxOffset = m /\ Len(capture'.ops) = Len(capture.ops) + 1
        /\ capture'.ops[Len(capture.ops) + 1] = op /\ Len(capture.ops) \in Nat
        /\ \A j \in 1..Len(capture.ops) : capture'.ops[j] = capture.ops[j]
    <3>1. capture.ops \in Seq(Launches)
      BY <1>2 DEF KernelCaptures
    <3>2. capture'.maxOffset = m /\ capture'.ops = Append(capture.ops, op)
      BY <1>2, <1>4 DEF KernelCaptures
    <3> QED BY <1>3, <3>1, <3>2, AppendProperties, LenProperties
  <2>2. Recorded(op, recording', m)
    <3>1. /\ op.touches = {storage[i] : i \in touched}
          /\ op.scratch = IF NeedsScratch(k, ins) THEN Len(scratch) ELSE None
          /\ op.bounded = IF bounded # None THEN storage[bounded].addr ELSE None
          /\ op.last = reach
          /\ op.width = IF bounded # None THEN Width(storage[bounded]) ELSE 0
          /\ op.advances = (Attribute(k) \in capture.advancing)
      BY DEF op, Launch, touched, Touched, bounded, reach
    <3>2. op.scratch # None => op.scratch \in 1..Len(scratch)
      <4>1. NeedsScratch(k, ins) => scratch # <<>>
        BY <1>1 DEF ScratchServes
      <4> QED BY <1>2, <3>1, <4>1, EmptySeq, LenProperties
    <3>3. \A b \in op.touches : \E i \in Ids : recording'.resources[i] = SpanOf(b)
      BY <1>3, <1>12, <3>1
    <3>4. ASSUME op.bounded # None
          PROVE  /\ bounded \in Ids /\ recording'.resources[bounded] # None
                 /\ recording'.resources[bounded].addr = op.bounded
                 /\ (op.last + (IF op.advances THEN m ELSE 0)) * op.width
                        <= recording'.resources[bounded].len
      <4>1. bounded # None /\ op.bounded = storage[bounded].addr
        BY <3>1, <3>4
      <4>2. /\ bounded \in touched /\ bounded \in Ids
            /\ recording'.resources[bounded] = SpanOf(storage[bounded])
        BY <1>3, <1>12, <4>1
      <4>3. recording'.resources[bounded] # None
        BY <1>3, <4>2, NoneIsNoBuffer
      <4>4. /\ SpanOf(storage[bounded]).addr = storage[bounded].addr
            /\ SpanOf(storage[bounded]).len = Rows(storage[bounded]) * Width(storage[bounded])
            /\ op.width = Width(storage[bounded]) /\ op.width \in Nat
        BY <1>3, <3>1, <4>1, <4>2, BufferFacts
      <4>5. (op.last + (IF op.advances THEN m ELSE 0)) * op.width
                <= Rows(storage[bounded]) * op.width
        <5> DEFINE rows == op.last + (IF op.advances THEN m ELSE 0)
        <5>1. reach <= Rows(storage[bounded]) /\ reach \in Nat /\ Rows(storage[bounded]) \in Nat
          BY <1>3, <1>6, <4>1
        <5>2. m \in Nat /\ (op.advances => m + reach <= Rows(storage[bounded]))
          <6>1. op.advances => Attribute(k) \in capture.advancing
            BY <3>1, Zenon
          <6> QED BY <1>7, <6>1
        <5>3. rows \in Nat /\ rows <= Rows(storage[bounded])
          BY <3>1, <5>1, <5>2
        <5> HIDE DEF rows
        <5>4. rows * op.width <= Rows(storage[bounded]) * op.width
          BY <4>4, <5>1, <5>3, RowsToFloats
        <5> QED BY <5>4 DEF rows
      <4> QED BY <4>1, <4>2, <4>3, <4>4, <4>5
    <3> QED BY <3>2, <3>3, <3>4 DEF Recorded
  <2>3. ASSUME NEW j \in 1..Len(capture.ops) PROVE Recorded(capture.ops[j], recording', m)
    <3>1. capture.ops[j] \in Launches
      BY <1>2, ElementOfSeq DEF KernelCaptures
    <3>2. Recorded(capture.ops[j], recording, capture.maxOffset)
      BY <1>1 DEF Inv, CaptureRecorded
    <3>3. \A i \in Ids : recording.resources[i] # None =>
            recording'.resources[i] = recording.resources[i] /\ recording.resources[i] \in Spans
      BY <1>1, <1>2, <1>12 DEF Inv, RecordingIsCurrent, Recordings
    <3> QED BY <1>7, <3>1, <3>2, <3>3, NoneIsNoBuffer, RecordedGrows
  <2>4. \A j \in 1..Len(capture'.ops) : Recorded(capture'.ops[j], recording', capture'.maxOffset)
    BY <2>1, <2>2, <2>3
  <2> QED BY <1>2, <2>4 DEF CaptureRecorded, Recorded, SpanOf, Floats, Rows, Width
<1>15. CapturesRecorded'
  BY <1>2, CapturesStay, LenProperties DEF Inv
<1> QED BY <1>10, <1>11, <1>13, <1>14, <1>15 DEF Inv

\* A step that touches neither the table nor a capture.
LEMMA SameKeepsInv ==
    ASSUME Inv, UNCHANGED <<storage, kernelVars, captureVars>>
    PROVE  Inv'
<1>1. /\ storage' = storage /\ scratch' = scratch /\ kept' = kept /\ capture' = capture
      /\ recording' = recording /\ captures' = captures /\ nextCapture' = nextCapture
  BY DEF kernelVars, captureVars
<1>2. Shape' /\ OneBufferEach' /\ RecordingIsCurrent'
  BY <1>1 DEF Inv, Shape, OneBufferEach, RecordingIsCurrent, Capturing, Held, SpanOf, Floats, Rows, Width
<1>3. CapturesRecorded'
  BY <1>1, CapturesStay, LenProperties DEF Inv, Shape
<1>4. CaptureRecorded'
  BY <1>1 DEF Inv, CaptureRecorded, Capturing, Recorded, SpanOf, Floats, Rows, Width
<1> QED BY <1>2, <1>3, <1>4 DEF Inv

LEMMA CaptureStepKeepsInv == Inv /\ CaptureStep => Inv'
<1> SUFFICES ASSUME Inv, CaptureStep PROVE Inv'
  OBVIOUS
<1>1. /\ UNCHANGED <<storage, kernelVars>>
      /\ storage' = storage /\ scratch' = scratch /\ kept' = kept
  BY DEF CaptureStep, BeginCapture, ForbidInCapture, EndCapture, DropCapture,
         ReleaseStepCapture, kernelVars
<1>2. OneBufferEach'
  BY <1>1 DEF Inv, OneBufferEach, Held
<1>3. scratch' \in Seq(Nat) /\ Len(scratch) <= Len(scratch')
  BY <1>1, LenProperties DEF Inv, Shape
<1>4. ASSUME NEW advancing \in Advances,
             BeginCapture(advancing)
      PROVE  Inv'
  <2>1. /\ recording' = [resources |-> [i \in Ids |-> None], embeddingIds |-> [i \in Ids |-> None]]
        /\ capture' = [advancing |-> advancing, maxOffset |-> MaxOffset,
                       failure |-> FALSE, ops |-> <<>>]
        /\ captures' = captures /\ nextCapture' = nextCapture /\ nextCapture < MaxCaptures
    BY <1>4 DEF BeginCapture
  <2>2. recording' \in Recordings
    BY <2>1 DEF Recordings
  <2>3. capture' \in KernelCaptures
    <3>1. MaxOffset \in Offsets /\ <<>> \in Seq(Launches)
      BY ConstantsOK, EmptySeq DEF Offsets
    <3>2. advancing \in SUBSET Advancing
      BY ConstantsOK
    <3> QED BY <2>1, <3>1, <3>2 DEF KernelCaptures
  <2>4. Shape'
    BY <1>1, <2>1, <2>2, <2>3 DEF Inv, Shape
  <2>5. RecordingIsCurrent'
    BY <2>1 DEF RecordingIsCurrent
  <2>6. CaptureRecorded'
    <3>1. capture'.ops = <<>> /\ Len(<<>>) = 0
      BY <2>1, EmptySeq
    <3> QED BY <3>1 DEF CaptureRecorded
  <2>7. CapturesRecorded'
    BY <1>3, <2>1, CapturesStay DEF Inv
  <2> QED BY <1>2, <2>4, <2>5, <2>6, <2>7 DEF Inv
<1>5. ASSUME ForbidInCapture PROVE Inv'
  <2>1. /\ Capturing /\ capture' = [capture EXCEPT !.failure = TRUE]
        /\ recording' = recording /\ captures' = captures /\ nextCapture' = nextCapture
    BY <1>5 DEF ForbidInCapture
  <2>2. /\ capture' \in KernelCaptures
        /\ capture'.ops = capture.ops /\ capture'.maxOffset = capture.maxOffset
    BY <2>1 DEF Inv, Shape, KernelCaptures
  <2>3. Shape'
    BY <1>1, <2>1, <2>2 DEF Inv, Shape
  <2>4. RecordingIsCurrent'
    BY <1>1, <2>1 DEF Inv, RecordingIsCurrent, Held, SpanOf, Floats, Rows, Width
  <2>5. CaptureRecorded'
    BY <1>1, <2>1, <2>2 DEF Inv, CaptureRecorded, Recorded, SpanOf, Floats, Rows, Width
  <2>6. CapturesRecorded'
    BY <1>3, <2>1, CapturesStay DEF Inv
  <2> QED BY <1>2, <2>3, <2>4, <2>5, <2>6 DEF Inv
<1>6. ASSUME Capturing, NEW w, EndCapture(w) PROVE Inv'
  <2>1. /\ capture' = None /\ ~Capturing' /\ recording' = None
        /\ nextCapture \in 0..MaxCaptures /\ nextCapture < MaxCaptures
        /\ capture \in KernelCaptures /\ recording \in Recordings
        /\ captures \in [CaptureIds -> CapturedSteps \cup {None}]
    BY <1>6 DEF EndCapture, Capturing, Inv, Shape
  <2>2. CASE captures' = captures /\ nextCapture' = nextCapture
    <3>1. Shape'
      BY <1>1, <2>1, <2>2 DEF Inv, Shape
    <3>2. CapturesRecorded'
      BY <1>3, <2>2, CapturesStay DEF Inv
    <3> QED BY <1>2, <2>1, <3>1, <3>2 DEF Inv, RecordingIsCurrent, CaptureRecorded
  <2>3. CASE /\ nextCapture' = nextCapture + 1
             /\ captures' = [captures EXCEPT ![nextCapture + 1] =
                                [ops |-> capture.ops, maxOffset |-> capture.maxOffset,
                                 recording |-> recording]]
    <3> DEFINE step == [ops |-> capture.ops, maxOffset |-> capture.maxOffset,
                        recording |-> recording]
    <3>1. step \in CapturedSteps
      BY <2>1 DEF CapturedSteps, KernelCaptures
    <3>2. nextCapture' \in 0..MaxCaptures
      BY <2>1, <2>3, ConstantsOK
    <3>3. captures' \in [CaptureIds -> CapturedSteps \cup {None}]
      BY <2>1, <2>3, <3>1
    <3>4. Shape'
      BY <1>1, <2>1, <3>2, <3>3 DEF Inv, Shape
    <3>5. \A j \in 1..Len(step.ops) : Recorded(step.ops[j], step.recording, step.maxOffset)
      BY <1>6 DEF Inv, CaptureRecorded
    <3>6. \A c \in CaptureIds : captures'[c] = IF c = nextCapture + 1 THEN step ELSE captures[c]
      BY <2>1, <2>3
    <3> HIDE DEF step
    <3>7. \A c \in CaptureIds : captures'[c] # None =>
            \A j \in 1..Len(captures'[c].ops) :
                Recorded(captures'[c].ops[j], captures'[c].recording, captures'[c].maxOffset)
      BY <3>5, <3>6 DEF Inv, CapturesRecorded
    <3>8. CapturesRecorded'
      BY <1>1, <3>7 DEF CapturesRecorded, Recorded, SpanOf, Floats, Rows, Width
    <3> QED BY <1>2, <2>1, <3>4, <3>8 DEF Inv, RecordingIsCurrent, CaptureRecorded
  <2> QED BY <1>6, <2>2, <2>3 DEF EndCapture
<1>7. ASSUME DropCapture PROVE Inv'
  <2>1. /\ ~Capturing' /\ recording' = None
        /\ captures' = captures /\ nextCapture' = nextCapture
    BY <1>7 DEF DropCapture, Capturing
  <2>2. Shape'
    BY <1>1, <2>1 DEF Inv, Shape
  <2>3. CapturesRecorded'
    BY <1>3, <2>1, CapturesStay DEF Inv
  <2> QED BY <1>2, <2>1, <2>2, <2>3 DEF Inv, RecordingIsCurrent, CaptureRecorded
<1>8. ASSUME NEW c \in CaptureIds, ReleaseStepCapture(c) PROVE Inv'
  <2>1. /\ captures' = [captures EXCEPT ![c] = None] /\ nextCapture' = nextCapture
        /\ capture' = capture /\ recording' = recording
    BY <1>8 DEF ReleaseStepCapture
  <2>2. Shape'
    BY <1>1, <2>1 DEF Inv, Shape, Capturing
  <2>3. RecordingIsCurrent'
    BY <1>1, <2>1 DEF Inv, RecordingIsCurrent, Capturing, Held, SpanOf, Floats, Rows, Width
  <2>4. CaptureRecorded'
    BY <1>1, <2>1 DEF Inv, CaptureRecorded, Capturing, Recorded, SpanOf, Floats, Rows, Width
  <2>5. \A d \in CaptureIds : captures'[d] = IF d = c THEN None ELSE captures[d]
    BY <2>1 DEF Inv, Shape
  <2>6. CapturesRecorded'
    <3>1. \A d \in CaptureIds : captures'[d] # None =>
            \A j \in 1..Len(captures'[d].ops) :
                Recorded(captures'[d].ops[j], captures'[d].recording, captures'[d].maxOffset)
      BY <2>5 DEF Inv, CapturesRecorded
    <3> QED BY <1>1, <3>1 DEF CapturesRecorded, Recorded, SpanOf, Floats, Rows, Width
  <2> QED BY <1>2, <2>2, <2>3, <2>4, <2>6 DEF Inv
<1> QED BY <1>4, <1>5, <1>6, <1>7, <1>8 DEF CaptureStep

LEMMA DispatchStepKeepsInv == Inv /\ DispatchStep => Inv'
<1> SUFFICES ASSUME Inv, DispatchStep PROVE Inv'
  OBVIOUS
<1>1. \A k \in Kernels : Attributes(k) \subseteq Nat
  BY DEF Attributes
<1>2. PICK ins \in Ids \X Ids, out \in Ids :
        \/ \E k \in Kernels :
            \/ \E v \in Vals : Dispatch(k, ins, out, v)
            \/ \E n \in Attributes(k) : CaptureDispatch(k, ins, out, n)
        \/ LookupFails(ins, out)
  BY DEF DispatchStep
<1>3. CASE LookupFails(ins, out)
  BY <1>3, LookupFailureKeepsInv
<1>4. ASSUME NEW k \in Kernels, NEW v \in Vals, Dispatch(k, ins, out, v)
      PROVE  Inv'
  BY <1>4, DispatchKeepsInv
<1>5. ASSUME NEW k \in Kernels, NEW n \in Attributes(k), CaptureDispatch(k, ins, out, n)
      PROVE  Inv'
  BY <1>1, <1>5, CaptureDispatchKeepsInv
<1> QED BY <1>2, <1>3, <1>4, <1>5

LEMMA InvStep == Inv /\ [Next]_vars => Inv'
<1> SUFFICES ASSUME Inv, [Next]_vars PROVE Inv'
  OBVIOUS
<1>1. CASE UNCHANGED vars
  <2>1. UNCHANGED <<storage, kernelVars, captureVars>>
    BY <1>1 DEF vars
  <2> QED BY <2>1, SameKeepsInv
<1>2. CASE HostStep
  BY <1>2, HostKeepsInv
<1>3. CASE DispatchStep
  BY <1>3, DispatchStepKeepsInv
<1>4. CASE CaptureStep
  BY <1>4, CaptureStepKeepsInv
<1>5. CASE ReplayAny
  <2>1. UNCHANGED <<storage, kernelVars, captureVars>>
    BY <1>5 DEF ReplayAny, ReplayStep, ReplayWriteFails
  <2> QED BY <2>1, SameKeepsInv
<1> QED BY <1>1, <1>2, <1>3, <1>4, <1>5 DEF Next

LEMMA InvAlways == Spec => []Inv
BY InvInit, InvStep, PTL DEF Spec

----------------------------------------------------------------------------
(* What the check of addresses guarantees.                                 *)

\* Every buffer of a captured launch is behind a resource of the record, and
\* the check has found that resource where it was.
LEMMA CurrentMeansHeld ==
    ASSUME Inv, NEW c \in CaptureIds, captures[c] # None, Current(c),
           NEW k \in 1..Len(captures[c].ops)
    PROVE  /\ captures[c].ops[k] \in Launches
           /\ captures[c].maxOffset \in Nat
           /\ Recorded(captures[c].ops[k], captures[c].recording, captures[c].maxOffset)
           /\ \A i \in Ids : captures[c].recording.resources[i] # None =>
                Held(i) /\ SpanOf(storage[i]) = captures[c].recording.resources[i]
<1>1. captures[c] \in CapturedSteps
  BY DEF Inv, Shape
<1>2. captures[c].ops \in Seq(Launches) /\ captures[c].maxOffset \in Nat
  BY <1>1 DEF CapturedSteps, Offsets
<1> QED BY <1>2, ElementOfSeq DEF Inv, CapturesRecorded, Current

\* Any replay the checks accept (replay_step's comparison of the captured
\* spans with the table) reaches live buffers only, and a scratch buffer the
\* provider still keeps, whatever was freed and allocated since the capture.
THEOREM ReplaysTouchHeldBuffers == Spec => []ReplayTouchesOnlyHeldBuffers
<1>1. Inv => ReplayTouchesOnlyHeldBuffers
  <2> SUFFICES ASSUME Inv, NEW c \in CaptureIds, captures[c] # None, Current(c),
                      NEW k \in 1..Len(captures[c].ops)
               PROVE  /\ \A b \in captures[c].ops[k].touches : InTable(b)
                      /\ captures[c].ops[k].scratch # None => captures[c].ops[k].scratch \in kept
    BY DEF ReplayTouchesOnlyHeldBuffers
  <2> DEFINE op == captures[c].ops[k]
             record == captures[c].recording
  <2>1. /\ op \in Launches
        /\ Recorded(op, record, captures[c].maxOffset)
        /\ \A i \in Ids : record.resources[i] # None =>
            Held(i) /\ SpanOf(storage[i]) = record.resources[i]
    BY CurrentMeansHeld
  <2> HIDE DEF op, record
  <2>2. ASSUME NEW b \in op.touches PROVE InTable(b)
    <3>1. SpanOf(b) # None
      BY <2>1, BufferFacts DEF Launches
    <3>2. PICK i \in Ids : record.resources[i] = SpanOf(b)
      BY <2>1 DEF Recorded
    <3> QED BY <2>1, <3>1, <3>2 DEF InTable
  <2>3. op.scratch # None => op.scratch \in kept
    BY <2>1 DEF Recorded, Inv, Shape
  <2> QED BY <2>2, <2>3 DEF op
<1> QED BY <1>1, InvAlways, PTL

\* At every offset replay_step accepts (max_offset, lowered by each launch
\* that advances), each launch stays within the floats its buffer has now,
\* whatever the shape of the buffer behind the same address.
THEOREM ReplaysStayInBounds == Spec => []ReplayStaysInBounds
<1>1. Inv => ReplayStaysInBounds
  <2> SUFFICES ASSUME Inv, NEW c \in CaptureIds, captures[c] # None, Current(c),
                      NEW k \in 1..Len(captures[c].ops),
                      captures[c].ops[k].bounded # None,
                      NEW i \in Ids, Held(i), storage[i].addr = captures[c].ops[k].bounded
               PROVE  (captures[c].ops[k].last
                        + (IF captures[c].ops[k].advances THEN captures[c].maxOffset ELSE 0))
                        * captures[c].ops[k].width
                        <= Floats(storage[i])
    BY DEF ReplayStaysInBounds
  <2> DEFINE op == captures[c].ops[k]
             record == captures[c].recording
             offset == captures[c].maxOffset
  <2>1. /\ Recorded(op, record, offset)
        /\ \A j \in Ids : record.resources[j] # None =>
            Held(j) /\ SpanOf(storage[j]) = record.resources[j]
    BY CurrentMeansHeld
  <2> SUFFICES (op.last + (IF op.advances THEN offset ELSE 0)) * op.width <= Floats(storage[i])
    OBVIOUS
  <2>2. op.bounded # None /\ storage[i].addr = op.bounded
    OBVIOUS
  <2> HIDE DEF op, record, offset
  <2>3. PICK j \in Ids :
            /\ record.resources[j] # None
            /\ record.resources[j].addr = op.bounded
            /\ (op.last + (IF op.advances THEN offset ELSE 0)) * op.width
                    <= record.resources[j].len
    BY <2>1, <2>2 DEF Recorded
  <2>4. /\ Held(j) /\ storage[j].addr = op.bounded
        /\ Floats(storage[j]) = record.resources[j].len
    <3>1. Held(j) /\ SpanOf(storage[j]) = record.resources[j]
      BY <2>1, <2>3
    <3>2. /\ SpanOf(storage[j]).addr = storage[j].addr
          /\ SpanOf(storage[j]).len = Floats(storage[j])
      BY DEF SpanOf
    <3> QED BY <2>3, <3>1, <3>2
  <2>5. j = i
    BY <2>2, <2>4 DEF Inv, OneBufferEach
  <2> QED BY <2>3, <2>4, <2>5
<1> QED BY <1>1, InvAlways, PTL

----------------------------------------------------------------------------
(* What memory holds after the launches.                                   *)

\* Memory m once launch k has run.
AfterLaunch(m, ops, w, k) == [m EXCEPT ![ops[k].out] = w[k]]

\* Memory f[k] after the first k of n launches is what the launches make it.
Follows(f, n, m, ops, w) ==
    f = [k \in 0..n |-> IF k = 0 THEN m ELSE AfterLaunch(f[k - 1], ops, w, k)]

LEMMA FollowsAt ==
    ASSUME NEW f, NEW n \in Nat, NEW m, NEW ops, NEW w, Follows(f, n, m, ops, w)
    PROVE  /\ f[0] = m
           /\ \A k \in 0..n : k # 0 => f[k] = AfterLaunch(f[k - 1], ops, w, k)
BY DEF Follows

LEMMA FollowsExists ==
    ASSUME NEW m, NEW ops, NEW w
    PROVE  \A n \in Nat : \E f : Follows(f, n, m, ops, w)
<1> DEFINE S == {n \in Nat : \E f : Follows(f, n, m, ops, w)}
<1>1. 0 \in S
  <2>1. Follows([k \in 0..0 |-> m], 0, m, ops, w)
    BY DEF Follows
  <2> QED BY <2>1
<1>2. ASSUME NEW n \in S
      PROVE  n + 1 \in S
  <2>1. PICK f : Follows(f, n, m, ops, w)
    OBVIOUS
  <2> DEFINE g == [k \in 0..(n + 1) |->
                     IF k <= n THEN f[k] ELSE AfterLaunch(f[n], ops, w, n + 1)]
  <2>2. ASSUME NEW k \in 0..(n + 1)
        PROVE  g[k] = IF k = 0 THEN m ELSE AfterLaunch(g[k - 1], ops, w, k)
    <3>1. CASE k <= n
      <4>1. f[k] = IF k = 0 THEN m ELSE AfterLaunch(f[k - 1], ops, w, k)
        BY <2>1, <3>1, FollowsAt
      <4>2. g[k] = f[k] /\ (k # 0 => g[k - 1] = f[k - 1])
        BY <3>1
      <4> QED BY <4>1, <4>2
    <3>2. CASE k = n + 1
      <4>1. g[k] = AfterLaunch(f[n], ops, w, n + 1) /\ g[k - 1] = f[n]
        BY <3>2
      <4> QED BY <3>2, <4>1
    <3> QED BY <3>1, <3>2
  <2> HIDE DEF g
  <2>3. g = [k \in 0..(n + 1) |-> g[k]]
    BY DEF g
  <2>4. Follows(g, n + 1, m, ops, w)
    BY <2>2, <2>3 DEF Follows
  <2> QED BY <2>4
<1>3. S = Nat
  <2> HIDE DEF S
  <2>1. S \in SUBSET Nat
    BY DEF S
  <2> QED BY <1>1, <1>2, <2>1, Induction
<1> QED BY <1>3

LEMMA AfterLaunchesFollows ==
    ASSUME NEW m, NEW ops \in Seq(Launches), NEW w
    PROVE  Follows(AfterLaunches(m, ops, w), Len(ops), m, ops, w)
<1>1. \E f : Follows(f, Len(ops), m, ops, w)
  BY FollowsExists, LenProperties
<1> QED BY <1>1 DEF AfterLaunches, Follows, AfterLaunch

\* Launches write contents, and only where they write.
LEMMA MemoryAfterLaunches ==
    ASSUME NEW m \in [Addrs -> Vals], NEW ops \in Seq(Launches), NEW w \in Writes(Len(ops)),
           NEW n \in 0..Len(ops)
    PROVE  /\ AfterLaunches(m, ops, w)[n] \in [Addrs -> Vals]
           /\ \A a \in Addrs : (\A j \in 1..n : ops[j].out # a) =>
                AfterLaunches(m, ops, w)[n][a] = m[a]
<1> DEFINE f == AfterLaunches(m, ops, w)
           Good(k) == /\ f[k] \in [Addrs -> Vals]
                      /\ \A a \in Addrs : (\A j \in 1..k : ops[j].out # a) => f[k][a] = m[a]
           S == {k \in Nat : k <= Len(ops) => Good(k)}
<1>0. Len(ops) \in Nat
  BY LenProperties
<1>1. Follows(f, Len(ops), m, ops, w)
  BY AfterLaunchesFollows
<1> HIDE DEF f
<1>2. 0 \in S
  <2>1. f[0] = m
    BY <1>0, <1>1, FollowsAt
  <2> QED BY <2>1
<1>3. ASSUME NEW k \in S
      PROVE  k + 1 \in S
  <2> SUFFICES ASSUME k + 1 <= Len(ops)
               PROVE  Good(k + 1)
    OBVIOUS
  <2>1. f[k] \in [Addrs -> Vals] /\ \A a \in Addrs : (\A j \in 1..k : ops[j].out # a) => f[k][a] = m[a]
    BY <1>0
  <2>2. f[k + 1] = [f[k] EXCEPT ![ops[k + 1].out] = w[k + 1]]
    <3>1. k + 1 \in 0..Len(ops) /\ k + 1 # 0 /\ (k + 1) - 1 = k
      BY <1>0
    <3>2. f[k + 1] = AfterLaunch(f[k], ops, w, k + 1)
      BY <1>0, <1>1, <3>1, FollowsAt
    <3> QED BY <3>2 DEF AfterLaunch
  <2>3. ops[k + 1].out \in Addrs /\ w[k + 1] \in Vals
    <3>1. k + 1 \in 1..Len(ops)
      BY <1>0
    <3>2. ops[k + 1] \in Launches
      BY <3>1, ElementOfSeq
    <3> QED BY <3>1, <3>2 DEF Launches, Writes
  <2>4. f[k + 1] \in [Addrs -> Vals]
    BY <2>1, <2>2, <2>3
  <2>5. ASSUME NEW a \in Addrs, \A j \in 1..(k + 1) : ops[j].out # a
        PROVE  f[k + 1][a] = m[a]
    <3>1. \A j \in 1..k : ops[j].out # a
      BY <2>5
    <3>2. ops[k + 1].out # a
      BY <2>5
    <3> QED BY <2>1, <2>2, <3>1, <3>2
  <2> QED BY <2>4, <2>5
<1>4. S = Nat
  <2> HIDE DEF S
  <2>1. S \in SUBSET Nat
    BY DEF S
  <2> QED BY <1>2, <1>3, <2>1, Induction
<1>5. n \in Nat /\ n <= Len(ops)
  BY <1>0
<1>6. Good(n)
  BY <1>4, <1>5
<1> QED BY <1>6 DEF f

MemoryOK == memory \in [Addrs -> Vals]

LEMMA RunType ==
    ASSUME NEW m \in [Addrs -> Vals], NEW ops \in Seq(Launches), NEW w \in Writes(Len(ops)),
           Run(m, ops, w)
    PROVE  MemoryOK'
<1>1. Len(ops) \in 0..Len(ops)
  BY LenProperties
<1> QED BY <1>1, MemoryAfterLaunches DEF Run, MemoryOK

\* Inputs go to the buffers of their ids, each of which has its own.
LEMMA WrittenInputs ==
    ASSUME Shape, MemoryOK, NEW inputs \in Inputs, NEW ids \in SUBSET DOMAIN inputs,
           \A i \in ids : Held(i)
    PROVE  /\ Written(inputs, ids) \in [Addrs -> Vals]
           /\ OneBufferEach => \A i \in ids : Written(inputs, ids)[storage[i].addr] = inputs[i]
<1>1. PICK s \in SUBSET Ids : inputs \in [s -> Vals]
  BY DEF Inputs
<1>2. ids \subseteq Ids /\ \A i \in ids : inputs[i] \in Vals /\ storage[i].addr \in Addrs
  BY <1>1 DEF Shape, Held, Buffers
<1>3. ASSUME NEW a \in Addrs
      PROVE  (IF \E i \in ids : storage[i].addr = a
              THEN inputs[CHOOSE i \in ids : storage[i].addr = a] ELSE memory[a]) \in Vals
  BY <1>2 DEF MemoryOK
<1>4. Written(inputs, ids) \in [Addrs -> Vals]
  BY <1>3 DEF Written
<1>5. ASSUME OneBufferEach, NEW i \in ids
      PROVE  Written(inputs, ids)[storage[i].addr] = inputs[i]
  <2> DEFINE a == storage[i].addr
             j == CHOOSE j \in ids : storage[j].addr = a
  <2>1. j \in ids /\ storage[j].addr = a
    OBVIOUS
  <2>2. Written(inputs, ids)[a] = inputs[j]
    BY <1>2 DEF Written
  <2>3. j = i
    BY <1>2, <1>5, <2>1 DEF OneBufferEach
  <2> QED BY <2>2, <2>3
<1> QED BY <1>4, <1>5

\* A replay the checks accept rewrites resources of the table only.
LEMMA InputsHeld ==
    ASSUME NEW c, NEW offset, NEW inputs \in Inputs, Accepts(c, offset, inputs)
    PROVE  \A i \in DOMAIN inputs : Held(i)
<1>1. DOMAIN inputs \subseteq Ids
  BY DEF Inputs
<1>2. \A i \in DOMAIN inputs : captures[c].recording.resources[i] # None
  BY DEF Accepts
<1> QED BY <1>1, <1>2 DEF Accepts, Current

LEMMA MemoryOKStep == Inv /\ MemoryOK /\ [Next]_vars => MemoryOK'
<1> SUFFICES ASSUME Inv, MemoryOK, [Next]_vars PROVE MemoryOK'
  OBVIOUS
<1> USE DEF MemoryOK
<1>1. CASE memory' = memory
  BY <1>1
<1>2. ASSUME NEW i \in Ids, NEW a \in Addrs, NEW n \in Shapes, NEW compact \in Formats,
             NEW v \in Vals, WriteTensor(i, a, n, compact, v)
      PROVE  MemoryOK'
  BY <1>2 DEF WriteTensor
<1>3. ASSUME NEW k \in Kernels, NEW ins \in Ids \X Ids, NEW out \in Ids,
             NEW v \in Vals, Dispatch(k, ins, out, v)
      PROVE  MemoryOK'
  <2>1. PICK e \in [ToExpand(k, ins) -> Free], a \in Addrs : RunKernel(k, ins, out, e, a, v)
    BY <1>3 DEF Dispatch
  <2>2. OperandsHeld(k, ins)
    BY <1>3 DEF Dispatch
  <2>3. \A i \in ToExpand(k, ins) : storage[i].addr \in Addrs
    BY <2>2, OperandsInTable DEF Buffers
  <2>4. ASSUME NEW b \in Addrs, \E i \in ToExpand(k, ins) : e[i] = b
        PROVE  memory[storage[CHOOSE i \in ToExpand(k, ins) : e[i] = b].addr] \in Vals
    BY <2>3, <2>4
  <2> DEFINE o == (IF WritesInPlace(k, ins, out)
                   THEN [i \in Ids |-> IF i \in ToExpand(k, ins)
                                       THEN F32(e[i], storage[i].shape) ELSE storage[i]][out]
                   ELSE F32(a, OutputShape(k, ins)))
             Content(b) == IF b = o.addr THEN v
                           ELSE IF \E i \in ToExpand(k, ins) : e[i] = b
                           THEN memory[storage[CHOOSE i \in ToExpand(k, ins) : e[i] = b].addr]
                           ELSE memory[b]
  <2>5. memory' = [b \in Addrs |-> Content(b)]
    BY <2>1 DEF RunKernel
  <2>6. \A b \in Addrs : Content(b) \in Vals
    <3> HIDE DEF o
    <3> QED BY <2>4
  <2> HIDE DEF Content
  <2> QED BY <2>5, <2>6
<1>4. ASSUME Capturing, NEW w \in Writes(Len(capture.ops)), EndCapture(w)
      PROVE  MemoryOK'
  <2>1. capture.ops \in Seq(Launches)
    BY <1>4 DEF Inv, Shape, KernelCaptures
  <2>2. Run(memory, capture.ops, w)
    BY <1>4 DEF EndCapture
  <2> QED BY <2>1, <2>2, RunType
<1>5. ASSUME NEW c \in CaptureIds, captures[c] # None, NEW offset, NEW inputs \in Inputs,
             NEW w \in Writes(Len(captures[c].ops)), ReplayStep(c, offset, inputs, w)
      PROVE  MemoryOK'
  <2>1. captures[c].ops \in Seq(Launches)
    BY <1>5 DEF Inv, Shape, CapturedSteps
  <2>2. Written(inputs, DOMAIN inputs) \in [Addrs -> Vals]
    BY <1>5, InputsHeld, WrittenInputs DEF Inv, ReplayStep
  <2>3. Run(Written(inputs, DOMAIN inputs), captures[c].ops, w)
    BY <1>5 DEF ReplayStep
  <2> QED BY <2>1, <2>2, <2>3, RunType
<1>6. ASSUME NEW c \in CaptureIds, captures[c] # None, NEW offset, NEW inputs \in Inputs,
             NEW written \in SUBSET DOMAIN inputs, ReplayWriteFails(c, offset, inputs, written)
      PROVE  MemoryOK'
  <2>1. \A i \in written : Held(i)
    BY <1>6, InputsHeld DEF ReplayWriteFails
  <2>2. memory' = Written(inputs, written)
    BY <1>6 DEF ReplayWriteFails
  <2> QED BY <2>1, <2>2, WrittenInputs DEF Inv
<1>7. CASE HostStep
  BY <1>1, <1>2, <1>7 DEF HostStep, ReleaseTensor
<1>8. CASE DispatchStep
  <2>1. PICK ins \in Ids \X Ids, out \in Ids :
          \/ \E k \in Kernels :
              \/ \E v \in Vals : Dispatch(k, ins, out, v)
              \/ \E n \in Attributes(k) : CaptureDispatch(k, ins, out, n)
          \/ LookupFails(ins, out)
    BY <1>8 DEF DispatchStep
  <2>2. CASE LookupFails(ins, out)
    BY <1>1, <2>2 DEF LookupFails
  <2>3. ASSUME NEW k \in Kernels, NEW n \in Attributes(k), CaptureDispatch(k, ins, out, n)
        PROVE  MemoryOK'
    <3>1. UNCHANGED <<memory, kernelVars, captures, nextCapture>>
      BY <2>3 DEF CaptureDispatch
    <3> QED BY <1>1, <3>1
  <2> QED BY <1>3, <2>1, <2>2, <2>3
<1>9. CASE CaptureStep
  <2>1. memory' = memory \/ (Capturing /\ \E w \in Writes(Len(capture.ops)) : EndCapture(w))
    BY <1>9 DEF CaptureStep, BeginCapture, ForbidInCapture, DropCapture, ReleaseStepCapture
  <2> QED BY <1>1, <1>4, <2>1
<1>10. CASE ReplayAny
  BY <1>5, <1>6, <1>10 DEF ReplayAny
<1>11. CASE UNCHANGED vars
  BY <1>1, <1>11 DEF vars
<1> QED BY <1>7, <1>8, <1>9, <1>10, <1>11 DEF Next

\* The record of the table, of device memory, of the attention scratch and of
\* the captures keeps its type through every call: in particular a capture
\* identifier stays within the captures ever completed, and the graph's
\* launches leave contents behind in every buffer.
THEOREM TypeCorrect == Spec => []TypeOK
<1>1. Init => MemoryOK
  BY DEF Init, MemoryOK
<1>2. Inv /\ MemoryOK => TypeOK
  <2> SUFFICES ASSUME Inv, MemoryOK PROVE TypeOK
    OBVIOUS
  <2>1. Shape
    BY DEF Inv
  <2>2. capture \in KernelCaptures \cup {None} /\ recording \in Recordings \cup {None}
    BY <2>1 DEF Shape, Capturing
  <2> QED BY <2>1, <2>2 DEF Shape, MemoryOK, TypeOK
<1>3. Inv /\ MemoryOK /\ [Next]_vars => Inv' /\ MemoryOK'
  BY InvStep, MemoryOKStep
<1> QED BY <1>1, <1>2, <1>3, InvInit, PTL DEF Spec

----------------------------------------------------------------------------
(* The ids a replay supplies.                                              *)

\* The address a lookup reads its ids at is recorded, with a vocabulary some
\* lookup there has: the last one's.
IdsRecorded(ops, record) ==
    \A k \in 1..Len(ops) : ops[k].ids # None =>
        \E i \in Ids :
            /\ record.resources[i] # None
            /\ record.resources[i].addr = ops[k].ids
            /\ record.embeddingIds[i] # None
            /\ \E j \in 1..Len(ops) :
                ops[j].ids = ops[k].ids /\ ops[j].vocab = record.embeddingIds[i]

AllIdsRecorded ==
    /\ Capturing => IdsRecorded(capture.ops, recording)
    /\ \A c \in CaptureIds : captures[c] # None =>
        IdsRecorded(captures[c].ops, captures[c].recording)

\* A launch recorded after the others: its ids are recorded with it, and a
\* lookup of the same ids before it is now checked against its vocabulary.
LEMMA LaunchRecordsIds ==
    ASSUME Inv, NEW k, NEW ins \in Ids \X Ids, NEW out \in Ids, NEW n \in Nat,
           IdsRecorded(capture.ops, recording), CaptureDispatch(k, ins, out, n)
    PROVE  IdsRecorded(capture'.ops, recording')
<1> DEFINE ops == capture.ops
           op == Launch(k, ins, out, n)
           touched == Touched(k, ins, out)
<1>1. /\ Capturing /\ OperandsHeld(k, ins) /\ NeedsNothingNew(k, ins, out) /\ InBounds(k, ins, n)
      /\ capture \in KernelCaptures
  BY DEF CaptureDispatch, Inv, Shape
<1>2. /\ touched \subseteq Ids /\ op \in Launches
      /\ \A i \in touched : Held(i) /\ storage[i] \in Buffers /\ SpanOf(storage[i]) \in Spans
  BY <1>1, LaunchType
<1>3. /\ capture'.ops = Append(ops, op)
      /\ ops \in Seq(Launches)
  BY <1>1 DEF CaptureDispatch, KernelCaptures
<1>4. /\ Len(ops) \in Nat /\ Len(capture'.ops) = Len(ops) + 1
      /\ capture'.ops[Len(ops) + 1] = op
      /\ \A j \in 1..Len(ops) : capture'.ops[j] = ops[j]
  BY <1>2, <1>3, AppendProperties, LenProperties
<1>5. \A i \in Ids :
        /\ recording'.resources[i] = IF i \in touched THEN SpanOf(storage[i])
                                     ELSE recording.resources[i]
        /\ recording'.embeddingIds[i] = IF k = "embedding" /\ i = ins[2]
                                        THEN Rows(storage[ins[1]])
                                        ELSE recording.embeddingIds[i]
  BY DEF CaptureDispatch
<1>6. \A i \in Ids : recording.resources[i] # None =>
        Held(i) /\ recording.resources[i] = SpanOf(storage[i])
  BY <1>1 DEF Inv, RecordingIsCurrent
<1>7. /\ op.ids = IF k = "embedding" THEN storage[ins[2]].addr ELSE None
      /\ op.vocab = IF k = "embedding" THEN Rows(storage[ins[1]]) ELSE None
  BY DEF op, Launch
<1>8. \A b \in Buffers : Rows(b) # None /\ SpanOf(b) # None /\ SpanOf(b).addr = b.addr
  BY ConstantsOK, BufferFacts
<1>9. k = "embedding" =>
        /\ ins[1] \in touched /\ ins[2] \in touched
        /\ storage[ins[1]] \in Buffers /\ storage[ins[2]] \in Buffers
  BY <1>2 DEF touched, Touched, Arity
<1> HIDE DEF ops, op, touched
<1>10. ASSUME NEW j \in 1..Len(ops), ops[j].ids # None
       PROVE  \E i \in Ids :
                /\ recording'.resources[i] # None
                /\ recording'.resources[i].addr = ops[j].ids
                /\ recording'.embeddingIds[i] # None
                /\ \E l \in 1..(Len(ops) + 1) :
                    /\ capture'.ops[l].ids = ops[j].ids
                    /\ capture'.ops[l].vocab = recording'.embeddingIds[i]
  <2>1. PICK i \in Ids :
            /\ recording.resources[i] # None
            /\ recording.resources[i].addr = ops[j].ids
            /\ recording.embeddingIds[i] # None
            /\ \E l \in 1..Len(ops) :
                ops[l].ids = ops[j].ids /\ ops[l].vocab = recording.embeddingIds[i]
    BY <1>10 DEF IdsRecorded, ops
  <2>2. recording'.resources[i] = recording.resources[i]
    BY <1>5, <1>6, <2>1
  <2>3. CASE k = "embedding" /\ i = ins[2]
    <3>1. /\ recording'.embeddingIds[i] = op.vocab /\ op.vocab # None
          /\ op.ids = ops[j].ids
      BY <1>5, <1>6, <1>7, <1>8, <1>9, <2>1, <2>3
    <3>2. Len(ops) + 1 \in 1..(Len(ops) + 1)
      BY <1>4
    <3> QED BY <1>4, <2>1, <2>2, <3>1, <3>2
  <2>4. CASE ~(k = "embedding" /\ i = ins[2])
    <3>1. recording'.embeddingIds[i] = recording.embeddingIds[i]
      BY <1>5, <2>4
    <3>2. PICK l \in 1..Len(ops) :
            ops[l].ids = ops[j].ids /\ ops[l].vocab = recording.embeddingIds[i]
      BY <2>1
    <3>3. l \in 1..(Len(ops) + 1) /\ capture'.ops[l] = ops[l]
      BY <1>4
    <3> QED BY <2>1, <2>2, <3>1, <3>2, <3>3
  <2> QED BY <2>3, <2>4
<1>11. ASSUME op.ids # None
       PROVE  /\ ins[2] \in Ids
              /\ recording'.resources[ins[2]] # None
              /\ recording'.resources[ins[2]].addr = op.ids
              /\ recording'.embeddingIds[ins[2]] # None
              /\ recording'.embeddingIds[ins[2]] = op.vocab
  BY <1>2, <1>5, <1>7, <1>8, <1>9, <1>11
<1>12. Len(ops) + 1 \in 1..(Len(ops) + 1)
  BY <1>4
<1>13. ASSUME NEW j \in 1..(Len(ops) + 1), j # Len(ops) + 1
       PROVE  j \in 1..Len(ops)
  BY <1>4, <1>13
<1> DEFINE Noted(ids) == \E i \in Ids :
               /\ recording'.resources[i] # None
               /\ recording'.resources[i].addr = ids
               /\ recording'.embeddingIds[i] # None
               /\ \E l \in 1..(Len(ops) + 1) :
                   capture'.ops[l].ids = ids /\ capture'.ops[l].vocab = recording'.embeddingIds[i]
<1>14. op.ids # None => Noted(op.ids)
  BY <1>4, <1>11, <1>12, <1>2, Zenon
<1>15. \A j \in 1..Len(ops) : ops[j].ids # None => Noted(ops[j].ids)
  BY <1>10, Zenon
<1> HIDE DEF Noted
<1>16. ASSUME NEW j \in 1..(Len(ops) + 1), capture'.ops[j].ids # None
       PROVE  Noted(capture'.ops[j].ids)
  <2>1. CASE j = Len(ops) + 1
    BY <1>4, <1>14, <1>16, <2>1
  <2>2. CASE j # Len(ops) + 1
    BY <1>4, <1>13, <1>15, <1>16, <2>2
  <2> QED BY <2>1, <2>2
<1>17. 1..Len(capture'.ops) = 1..(Len(ops) + 1)
  BY <1>4
<1>18. \A j \in 1..Len(capture'.ops) : capture'.ops[j].ids # None => Noted(capture'.ops[j].ids)
  BY <1>16, <1>17
<1> DEFINE later == capture'.ops
           now == recording'
<1>19. \A j \in 1..Len(later) : later[j].ids # None =>
         \E i \in Ids :
           /\ now.resources[i] # None
           /\ now.resources[i].addr = later[j].ids
           /\ now.embeddingIds[i] # None
           /\ \E l \in 1..Len(later) : later[l].ids = later[j].ids /\ later[l].vocab = now.embeddingIds[i]
  BY <1>17, <1>18 DEF Noted
<1> HIDE DEF later, now
<1>20. IdsRecorded(later, now)
  BY <1>19, Zenon DEF IdsRecorded
<1> QED BY <1>20 DEF later, now

LEMMA AllIdsRecordedStep == Inv /\ AllIdsRecorded /\ [Next]_vars => AllIdsRecorded'
<1> SUFFICES ASSUME Inv, AllIdsRecorded, [Next]_vars PROVE AllIdsRecorded'
  OBVIOUS
<1>1. ASSUME UNCHANGED captureVars PROVE AllIdsRecorded'
  <2>1. capture' = capture /\ recording' = recording /\ captures' = captures
    BY <1>1 DEF captureVars
  <2> QED BY <2>1 DEF AllIdsRecorded, Capturing, IdsRecorded
<1>2. ASSUME captures' = captures
      PROVE  \A c \in CaptureIds : captures'[c] # None =>
                IdsRecorded(captures'[c].ops, captures'[c].recording)
  BY <1>2 DEF AllIdsRecorded
<1>3. ASSUME NEW k \in Kernels, NEW ins \in Ids \X Ids, NEW out \in Ids,
             NEW n \in Attributes(k), CaptureDispatch(k, ins, out, n)
      PROVE  AllIdsRecorded'
  <2>1. n \in Nat
    BY DEF Attributes
  <2>2. captures' = captures /\ IdsRecorded(capture.ops, recording)
    BY <1>3 DEF CaptureDispatch, AllIdsRecorded
  <2>3. IdsRecorded(capture'.ops, recording')
    BY <1>3, <2>1, <2>2, LaunchRecordsIds
  <2> QED BY <1>2, <2>2, <2>3 DEF AllIdsRecorded, IdsRecorded
<1>4. ASSUME NEW advancing, BeginCapture(advancing)
      PROVE  AllIdsRecorded'
  <2>1. capture'.ops = <<>> /\ captures' = captures
    BY <1>4 DEF BeginCapture
  <2>2. IdsRecorded(capture'.ops, recording')
    BY <2>1, EmptySeq DEF IdsRecorded
  <2> QED BY <1>2, <2>1, <2>2 DEF AllIdsRecorded, IdsRecorded
<1>5. ASSUME ForbidInCapture PROVE AllIdsRecorded'
  <2>1. /\ Capturing /\ capture' = [capture EXCEPT !.failure = TRUE]
        /\ recording' = recording /\ captures' = captures
    BY <1>5 DEF ForbidInCapture
  <2>2. capture'.ops = capture.ops
    <3>1. capture \in KernelCaptures
      BY <2>1 DEF Inv, Shape
    <3> QED BY <2>1, <3>1 DEF KernelCaptures
  <2> QED BY <1>2, <2>1, <2>2 DEF AllIdsRecorded, IdsRecorded
<1>6. ASSUME NEW w, EndCapture(w) PROVE AllIdsRecorded'
  <2>1. capture' = None /\ Capturing /\ nextCapture < MaxCaptures /\ nextCapture \in 0..MaxCaptures
    BY <1>6 DEF EndCapture, Inv, Shape
  <2>2. CASE captures' = captures
    BY <1>2, <2>1, <2>2 DEF AllIdsRecorded, Capturing, IdsRecorded
  <2>3. CASE captures' = [captures EXCEPT ![nextCapture + 1] =
                             [ops |-> capture.ops, maxOffset |-> capture.maxOffset,
                              recording |-> recording]]
    <3>1. \A c \in CaptureIds :
            captures'[c] = IF c = nextCapture + 1
                           THEN [ops |-> capture.ops, maxOffset |-> capture.maxOffset,
                                 recording |-> recording]
                           ELSE captures[c]
      BY <2>3 DEF Inv, Shape
    <3>2. \A c \in CaptureIds : captures'[c] # None =>
            IdsRecorded(captures'[c].ops, captures'[c].recording)
      BY <2>1, <3>1 DEF AllIdsRecorded
    <3> QED BY <2>1, <3>2 DEF AllIdsRecorded, Capturing, IdsRecorded
  <2> QED BY <1>6, <2>2, <2>3 DEF EndCapture
<1>7. ASSUME DropCapture PROVE AllIdsRecorded'
  BY <1>2, <1>7 DEF DropCapture, AllIdsRecorded, Capturing, IdsRecorded
<1>8. ASSUME NEW c \in CaptureIds, ReleaseStepCapture(c) PROVE AllIdsRecorded'
  <2>1. /\ captures' = [captures EXCEPT ![c] = None]
        /\ capture' = capture /\ recording' = recording
    BY <1>8 DEF ReleaseStepCapture
  <2>2. \A d \in CaptureIds : captures'[d] = IF d = c THEN None ELSE captures[d]
    BY <2>1 DEF Inv, Shape
  <2>3. \A d \in CaptureIds : captures'[d] # None =>
            IdsRecorded(captures'[d].ops, captures'[d].recording)
    BY <2>2 DEF AllIdsRecorded
  <2> QED BY <2>1, <2>3 DEF AllIdsRecorded, Capturing, IdsRecorded
<1>9. CASE HostStep
  BY <1>1, <1>9 DEF HostStep, WriteTensor, ReleaseTensor
<1>10. CASE DispatchStep
  <2>1. PICK ins \in Ids \X Ids, out \in Ids :
          \/ \E k \in Kernels :
              \/ \E v \in Vals : Dispatch(k, ins, out, v)
              \/ \E n \in Attributes(k) : CaptureDispatch(k, ins, out, n)
          \/ LookupFails(ins, out)
    BY <1>10 DEF DispatchStep
  <2>2. CASE LookupFails(ins, out)
    BY <1>1, <2>2 DEF LookupFails
  <2>3. ASSUME NEW k, NEW v, Dispatch(k, ins, out, v)
        PROVE  AllIdsRecorded'
    BY <1>1, <2>3 DEF Dispatch
  <2> QED BY <1>3, <2>1, <2>2, <2>3
<1>11. CASE CaptureStep
  BY <1>4, <1>5, <1>6, <1>7, <1>8, <1>11 DEF CaptureStep
<1>12. CASE ReplayAny
  BY <1>1, <1>12 DEF ReplayAny, ReplayStep, ReplayWriteFails
<1>13. CASE UNCHANGED vars
  BY <1>1, <1>13 DEF vars
<1> QED BY <1>9, <1>10, <1>11, <1>12, <1>13 DEF Next

\* A replay that supplies the ids of a lookup, which no launch before it
\* overwrites and every lookup there reads with one table, has checked them.
LEMMA ReplayChecksIds ==
    ASSUME Inv, MemoryOK, AllIdsRecorded, NEW c \in CaptureIds, captures[c] # None,
           NEW offset, NEW inputs \in Inputs, Accepts(c, offset, inputs),
           NEW w \in Writes(Len(captures[c].ops)),
           NEW k \in InvalidLookups(Written(inputs, DOMAIN inputs), captures[c].ops, w),
           NEW i \in DOMAIN inputs, storage[i].addr = captures[c].ops[k].ids,
           \A j \in 1..(k - 1) : captures[c].ops[j].out # captures[c].ops[k].ids,
           \A j \in 1..Len(captures[c].ops) :
              captures[c].ops[j].ids = captures[c].ops[k].ids =>
                  captures[c].ops[j].vocab = captures[c].ops[k].vocab
    PROVE  FALSE
<1> DEFINE ops == captures[c].ops
           record == captures[c].recording
           m == Written(inputs, DOMAIN inputs)
           read == AfterLaunches(m, ops, w)[k - 1][ops[k].ids]
<1>1. captures[c] \in CapturedSteps /\ i \in Ids
  BY DEF Inv, Shape, Inputs
<1>2. ops \in Seq(Launches) /\ Len(ops) \in Nat
  BY <1>1, LenProperties DEF CapturedSteps
<1>3. k \in 1..Len(ops) /\ ops[k].ids # None /\ read >= ops[k].vocab
  BY DEF InvalidLookups
<1>4. /\ m \in [Addrs -> Vals]
      /\ m[storage[i].addr] = inputs[i]
  BY InputsHeld, WrittenInputs DEF Inv
<1>5. ops[k] \in Launches
  BY <1>2, <1>3, ElementOfSeq
<1>6. ops[k].ids \in Addrs
  BY <1>3, <1>5 DEF Launches
<1>7. k - 1 \in 0..Len(ops) /\ \A j \in 1..(k - 1) : ops[j].out # ops[k].ids
  BY <1>2, <1>3
<1>8. read = inputs[i]
  <2> HIDE DEF m, ops
  <2>1. read = m[ops[k].ids]
    <3>1. w \in Writes(Len(ops))
      BY DEF ops
    <3>2. \A a \in Addrs : (\A j \in 1..(k - 1) : ops[j].out # a) =>
            AfterLaunches(m, ops, w)[k - 1][a] = m[a]
      BY <1>2, <1>4, <1>7, <3>1, MemoryAfterLaunches
    <3> QED BY <1>6, <1>7, <3>2 DEF read
  <2>2. ops[k].ids = storage[i].addr
    BY DEF ops
  <2> QED BY <1>4, <2>1, <2>2
<1>9. PICK l \in Ids :
        /\ record.resources[l] # None
        /\ record.resources[l].addr = ops[k].ids
        /\ record.embeddingIds[l] # None
        /\ \E j \in 1..Len(ops) : ops[j].ids = ops[k].ids /\ ops[j].vocab = record.embeddingIds[l]
  BY <1>3 DEF AllIdsRecorded, IdsRecorded
<1>10. l = i
  <2>1. Held(l) /\ SpanOf(storage[l]) = record.resources[l]
    BY <1>9 DEF Accepts, Current
  <2>2. storage[l].addr = ops[k].ids
    BY <1>9, <2>1 DEF SpanOf
  <2>3. Held(i)
    BY InputsHeld
  <2> QED BY <1>1, <2>1, <2>2, <2>3 DEF Inv, OneBufferEach
<1>11. record.embeddingIds[i] = ops[k].vocab
  BY <1>9, <1>10
<1>12. inputs[i] < record.embeddingIds[i]
  BY <1>9, <1>10 DEF Accepts, ValidId
<1>13. ops[k].vocab \in Nat
  <2>1. record.embeddingIds[i] \in Nat \cup {None}
    BY <1>1 DEF CapturedSteps, Recordings
  <2> QED BY <1>9, <1>10, <1>11, <2>1, ConstantsOK
<1>14. inputs[i] \in Nat
  <2>1. PICK s \in SUBSET Ids : inputs \in [s -> Vals]
    BY DEF Inputs
  <2> QED BY <2>1, ConstantsOK
<1> HIDE DEF read
<1> QED BY <1>3, <1>8, <1>11, <1>12, <1>13, <1>14

LEMMA OnlyReplaysAreReplayed ==
    ASSUME Next, replayed' # None
    PROVE  \E c \in {d \in CaptureIds : captures[d] # None}, offset \in Offsets,
              inputs \in Inputs :
              \E w \in Writes(Len(captures[c].ops)) : ReplayStep(c, offset, inputs, w)
<1>1. HostStep => replayed' = None
  BY DEF HostStep, WriteTensor, ReleaseTensor
<1>2. ~DispatchStep
  <2> SUFFICES ASSUME DispatchStep PROVE FALSE
    OBVIOUS
  <2>1. PICK ins \in Ids \X Ids, out \in Ids :
          \/ \E k \in Kernels :
              \/ \E v \in Vals : Dispatch(k, ins, out, v)
              \/ \E n \in Attributes(k) : CaptureDispatch(k, ins, out, n)
          \/ LookupFails(ins, out)
    BY DEF DispatchStep
  <2>2. ~LookupFails(ins, out)
    BY DEF LookupFails
  <2>3. ASSUME NEW k, NEW v, Dispatch(k, ins, out, v) PROVE FALSE
    BY <2>3 DEF Dispatch
  <2>4. ASSUME NEW k, NEW n, CaptureDispatch(k, ins, out, n) PROVE FALSE
    BY <2>4 DEF CaptureDispatch
  <2> QED BY <2>1, <2>2, <2>3, <2>4
<1>3. CaptureStep => replayed' = None
  BY DEF CaptureStep, BeginCapture, ForbidInCapture, EndCapture, DropCapture,
         ReleaseStepCapture
<1>4. ReplayAny
  BY <1>1, <1>2, <1>3 DEF Next
<1>5. \A c, offset, inputs, written : ~ReplayWriteFails(c, offset, inputs, written)
  BY DEF ReplayWriteFails
<1> QED BY <1>4, <1>5 DEF ReplayAny

LEMMA SuppliedIdsCheckedStep ==
    ASSUME Inv, MemoryOK, AllIdsRecorded, SuppliedIdsAreChecked, [Next]_vars
    PROVE  SuppliedIdsAreChecked'
<1>1. CASE replayed' = None
  BY <1>1 DEF SuppliedIdsAreChecked
<1>2. CASE UNCHANGED vars
  <2>1. replayed' = replayed /\ captures' = captures /\ storage' = storage
    BY <1>2 DEF vars, captureVars
  <2> QED BY <2>1 DEF SuppliedIdsAreChecked
<1>3. CASE Next /\ replayed' # None
  <2>1. PICK c \in {d \in CaptureIds : captures[d] # None}, offset \in Offsets,
             inputs \in Inputs :
             \E w \in Writes(Len(captures[c].ops)) : ReplayStep(c, offset, inputs, w)
    BY <1>3, OnlyReplaysAreReplayed
  <2>2. PICK w \in Writes(Len(captures[c].ops)) : ReplayStep(c, offset, inputs, w)
    BY <2>1
  <2> DEFINE ops == captures[c].ops
             invalid == InvalidLookups(Written(inputs, DOMAIN inputs), ops, w)
  <2>3. /\ Accepts(c, offset, inputs)
        /\ replayed' = [capture |-> c, supplied |-> DOMAIN inputs, invalid |-> invalid]
        /\ storage' = storage /\ captures' = captures
    BY <2>2 DEF ReplayStep, captureVars
  <2>4. ASSUME NEW k \in invalid
        PROVE  \/ \A i \in DOMAIN inputs : storage[i].addr # ops[k].ids
               \/ \E j \in 1..(k - 1) : ops[j].out = ops[k].ids
               \/ \E j \in 1..Len(ops) :
                   ops[j].ids = ops[k].ids /\ ops[j].vocab # ops[k].vocab
    BY <2>3, ReplayChecksIds
  <2> HIDE DEF invalid
  <2> QED BY <2>3, <2>4 DEF SuppliedIdsAreChecked
<1> QED BY <1>1, <1>2, <1>3

\* Token ids a replay supplies are checked (replay_step, against the
\* vocabulary record_captured_resources kept of the last lookup) before
\* anything is written: a lookup meets an invalid id only where the ids were
\* not supplied, the step computed them, or lookups read them differently.
THEOREM SuppliedIdsChecked == Spec => []SuppliedIdsAreChecked
<1>1. Init => MemoryOK
  BY DEF Init, MemoryOK
<1>2. Init => AllIdsRecorded
  BY DEF Init, AllIdsRecorded, Capturing
<1>3. Init => SuppliedIdsAreChecked
  BY DEF Init, SuppliedIdsAreChecked
<1> QED
  BY <1>1, <1>2, <1>3, InvInit, InvStep, MemoryOKStep, AllIdsRecordedStep,
     SuppliedIdsCheckedStep, PTL DEF Spec

=============================================================================
