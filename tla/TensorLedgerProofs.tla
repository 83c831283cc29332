------------------------- MODULE TensorLedgerProofs --------------------------
(***************************************************************************)
(* Proofs about TensorLedger, for any sets of ids, values and kernels and  *)
(* any number of allocations.                                              *)
(***************************************************************************)
EXTENDS TensorLedger, TLAPS

----------------------------------------------------------------------------
(* Type correctness.                                                       *)

\* A dispatch in flight has its invocation; a buffer to put back is there.
DispatchOK ==
    /\ phase # "idle" => inv \in Invocations
    /\ restore => offered \in Vals

TypeInv == TypeOK /\ DispatchOK

\* Releasing allocations only ever forgets records.
LEMMA AfterReleasesType ==
    ASSUME NEW r \in [Ids -> Allocations \cup {None}], NEW as,
           NEW s \in AfterReleases(r, as)
    PROVE  /\ s \in [Ids -> Allocations \cup {None}]
           /\ \A i \in Ids : s[i] # r[i] => r[i] \in as
BY DEF AfterReleases

LEMMA AfterReleaseType ==
    ASSUME NEW r \in [Ids -> Allocations \cup {None}], NEW a,
           NEW s \in AfterRelease(r, a)
    PROVE  /\ s \in [Ids -> Allocations \cup {None}]
           /\ \A i \in Ids : s[i] # r[i] => r[i] = a
BY AfterReleasesType DEF AfterRelease

\* Expanding compact inputs keeps every entry of the table a buffer.
LEMMA ExpandedType ==
    ASSUME TypeInv, inv \in Invocations, NEW S \in SUBSET (1..2),
           \A n \in S : IsCompact(inv.ins[n])
    PROVE  Expanded(S) \in [Ids -> Buffers \cup {None}]
<1>1. SUFFICES ASSUME NEW i \in Ids
      PROVE (IF \E n \in S : inv.ins[n] = i THEN F32(storage[i].val) ELSE storage[i])
            \in Buffers \cup {None}
  BY DEF Expanded
<1>2. storage[i] \in Buffers \cup {None}
  BY DEF TypeInv, TypeOK
<1>3. CASE \E n \in S : inv.ins[n] = i
  BY <1>2, <1>3 DEF IsCompact, Held, F32, Buffers
<1>4. CASE ~ \E n \in S : inv.ins[n] = i
  BY <1>2, <1>4
<1> QED BY <1>3, <1>4

LEMMA TypeInit == Init => TypeInv
<1> SUFFICES ASSUME Init PROVE TypeInv
  OBVIOUS
<1>1. minted \in 0..MaxAllocations
  BY ConstantsOK DEF Init
<1>2. restore \in BOOLEAN /\ failed \in BOOLEAN /\ ~restore
  BY DEF Init
<1> QED BY <1>1, <1>2 DEF Init, TypeInv, TypeOK, DispatchOK, Phases, NoValues, Allocations

LEMMA FreshType ==
    ASSUME TypeInv, CanAllocate
    PROVE  Fresh \in Allocations /\ Fresh \in 0..MaxAllocations
BY ConstantsOK DEF TypeInv, TypeOK, CanAllocate, Fresh, Allocations

LEMMA TypeCallerStep == TypeInv /\ CallerStep => TypeInv'
<1> SUFFICES ASSUME TypeInv, CallerStep PROVE TypeInv'
  OBVIOUS
<1> USE ConstantsOK DEF TypeInv, TypeOK, DispatchOK, Allocations, Phases
<1>1. ASSUME NEW i \in Ids, CallerAdmits(i) PROVE TypeInv'
  BY <1>1 DEF CallerAdmits, CanAllocate, Fresh, tableVars, dispatchVars
<1>2. ASSUME NEW a \in Allocations, CallerReleases(a) PROVE TypeInv'
  BY <1>2, AfterReleaseType DEF CallerReleases, tableVars, dispatchVars
<1> QED BY <1>1, <1>2 DEF CallerStep

LEMMA TypeHostStep == TypeInv /\ HostStep => TypeInv'
<1> SUFFICES ASSUME TypeInv, HostStep PROVE TypeInv'
  OBVIOUS
<1> USE ConstantsOK DEF TypeInv, TypeOK, DispatchOK, Allocations, Phases
<1>1. ASSUME NEW i \in Ids, Replace(i), CanAllocate
      PROVE  /\ tracked' \in [Ids -> Allocations \cup {None}]
             /\ active' \subseteq Allocations
             /\ residency' \in [Ids -> Allocations \cup {None}]
  <2>1. Fresh \in Allocations
    BY <1>1, FreshType
  <2>2. tracked' \in [Ids -> Allocations \cup {None}] /\ active' \subseteq Allocations
    BY <1>1, <2>1 DEF Replace
  <2>3. residency' \in [Ids -> Allocations \cup {None}]
    BY <1>1, AfterReleaseType DEF Replace
  <2> QED BY <2>2, <2>3
<1>2. ASSUME NEW i \in Ids, NEW b \in Buffers, WriteTensor(i, b) PROVE TypeInv'
  BY <1>2 DEF WriteTensor, ledgerVars, dispatchVars
<1>3. ASSUME NEW i \in Ids, ReleaseTensor(i) PROVE TypeInv'
  BY <1>3 DEF ReleaseTensor, ledgerVars, dispatchVars
<1>4. ASSUME NEW i \in Ids, ReleaseAdmittedTensor(i) PROVE TypeInv'
  BY <1>4, AfterReleaseType DEF ReleaseAdmittedTensor, dispatchVars
<1>5. ASSUME NEW i \in Ids, NEW v \in Vals, WriteTensorAdmitted(i, v) PROVE TypeInv'
  BY <1>1, <1>5 DEF WriteTensorAdmitted, F32, Buffers, dispatchVars, CanAllocate, Fresh
<1>6. ASSUME WriteTensorAdmittedFails PROVE TypeInv'
  BY <1>6 DEF WriteTensorAdmittedFails, tableVars, dispatchVars, CanAllocate, Fresh
<1>7. ASSUME NEW from \in Ids, NEW to \in Ids, CopyTensorAdmitted(from, to) PROVE TypeInv'
  BY <1>1, <1>7 DEF CopyTensorAdmitted, dispatchVars, CanAllocate, Fresh
<1>8. ASSUME NEW i \in Ids, NEW b \in Buffers, CopyTensorFromPeerAdmitted(i, b)
      PROVE TypeInv'
  BY <1>1, <1>8 DEF CopyTensorFromPeerAdmitted, dispatchVars, CanAllocate, Fresh
<1> QED BY <1>2, <1>3, <1>4, <1>5, <1>6, <1>7, <1>8 DEF HostStep

LEMMA TypeAdmitStep == TypeInv /\ AdmitStep => TypeInv'
<1> SUFFICES ASSUME TypeInv, NEW k \in Kernels, NEW ins \in Ids \X Ids, NEW out \in Ids,
                    AdmitPreAdmitted(k, ins, out) \/ AdmitOutput(k, ins, out)
             PROVE  TypeInv'
  BY DEF AdmitStep
<1> USE ConstantsOK DEF TypeInv, TypeOK, DispatchOK, Allocations, Phases
<1>1. ASSUME Begin(k, ins, out)
      PROVE  /\ phase' \in Phases /\ inv' \in Invocations /\ offered' \in Vals \cup {None}
             /\ storage' \in [Ids -> Buffers \cup {None}]
             /\ before' \in [Ids -> Vals \cup {None}]
             /\ restore' \in BOOLEAN /\ failed' \in BOOLEAN
             /\ restore' => offered' \in Vals
             /\ callers' \subseteq Allocations
  <2>1. before' \in [Ids -> Vals \cup {None}]
    BY <1>1 DEF Begin, ValueOf, Held, Buffers
  <2>2. phase' \in Phases /\ inv' \in Invocations
    BY <1>1 DEF Begin, Invocations
  <2>3. UNCHANGED <<storage, offered, restore, failed, callers>>
    BY <1>1 DEF Begin, tableVars
  <2> QED BY <2>1, <2>2, <2>3
<1>2. CASE AdmitPreAdmitted(k, ins, out)
  <2>1. Begin(k, ins, out)
    BY <1>2 DEF AdmitPreAdmitted
  <2>2. /\ tracked' \in [Ids -> Allocations \cup {None}]
        /\ active' \subseteq Allocations
        /\ admitted' = None
        /\ minted' = minted
    BY <1>2 DEF AdmitPreAdmitted
  <2>3. residency' \in [Ids -> Allocations \cup {None}]
    BY <1>2, AfterReleaseType DEF AdmitPreAdmitted
  <2>4. minted' \in 0..MaxAllocations /\ admitted' \in Allocations \cup {None}
    BY <2>2
  <2> QED BY <1>1, <2>1, <2>2, <2>3, <2>4
<1>3. CASE AdmitOutput(k, ins, out)
  <2>1. Begin(k, ins, out)
    BY <1>3 DEF AdmitOutput
  <2>2. Fresh \in Allocations /\ Fresh \in 0..MaxAllocations
    BY <1>3, FreshType DEF AdmitOutput
  <2>3. /\ admitted' \in Allocations /\ minted' \in 0..MaxAllocations
        /\ active' \subseteq Allocations
        /\ UNCHANGED <<tracked, residency>>
    BY <1>3, <2>2 DEF AdmitOutput
  <2>4. /\ tracked' \in [Ids -> Allocations \cup {None}]
        /\ residency' \in [Ids -> Allocations \cup {None}]
    BY <2>3
  <2> QED BY <1>1, <2>1, <2>3, <2>4
<1> QED BY <1>2, <1>3

LEMMA TypeUndone ==
    ASSUME TypeInv, NEW outs \in SUBSET Ids, AdmissionUndone(outs)
    PROVE  TypeInv'
<1> USE DEF TypeInv, TypeOK, DispatchOK
<1>1. minted' \in 0..MaxAllocations
  BY ConstantsOK DEF AdmissionUndone
<1>2. tracked' \in [Ids -> Allocations \cup {None}] /\ active' \subseteq Allocations
  BY DEF AdmissionUndone
<1>3. residency' \in [Ids -> Allocations \cup {None}]
  BY AfterReleasesType DEF AdmissionUndone
<1>4. UNCHANGED <<tableVars, callers, dispatchVars>>
  BY DEF AdmissionUndone
<1> QED BY <1>1, <1>2, <1>3, <1>4 DEF tableVars, dispatchVars

LEMMA TypeDispatchStep == TypeInv /\ DispatchStep => TypeInv'
<1> SUFFICES ASSUME TypeInv, DispatchStep PROVE TypeInv'
  OBVIOUS
<1> USE ConstantsOK DEF TypeInv, TypeOK, DispatchOK, Phases
<1>1. CASE Reject
  BY <1>1 DEF Reject, tableVars, ledgerVars
<1>2. CASE ExpandInputs
  <2>1. Expanded({n \in 1..2 : Expands(n)}) \in [Ids -> Buffers \cup {None}]
    BY <1>2, ExpandedType DEF ExpandInputs, Expands
  <2> QED BY <1>2, <2>1 DEF ExpandInputs, ledgerVars
<1>3. ASSUME NEW n \in 1..2, ExpandFails(n) PROVE TypeInv'
  <2>1. Expanded({m \in 1..(n - 1) : Expands(m)}) \in [Ids -> Buffers \cup {None}]
    BY <1>3, ExpandedType DEF ExpandFails, Expands
  <2> QED BY <1>3, <2>1 DEF ExpandFails, ledgerVars
<1>4. CASE OfferOutput
  BY <1>4 DEF OfferOutput, Offers, Held, Buffers, Invocations, ledgerVars
<1>5. ASSUME NEW ok \in BOOLEAN, NEW table \in [Ids -> Buffers \cup {None}],
             phase # "idle", KernelReturns(ok, table)
      PROVE  TypeInv'
  BY <1>5 DEF KernelReturns, ledgerVars
<1>6. ASSUME NEW ok \in BOOLEAN, NEW table \in [Ids -> Buffers \cup {None}],
             phase # "idle", KvWriteReturns(ok, table)
      PROVE  TypeInv'
  BY <1>6 DEF KvWriteReturns, ledgerVars
<1>7. ASSUME NEW v \in Vals, KernelSucceeds(v) PROVE TypeInv'
  BY <1>5, <1>7 DEF KernelSucceeds, F32, Buffers
<1>8. CASE KernelFailsBeforeTaking
  <2>1. Reclaimed \in [Ids -> Buffers \cup {None}]
    BY DEF Reclaimed, F32, Buffers
  <2> QED BY <1>5, <1>8, <2>1 DEF KernelFailsBeforeTaking
<1>9. CASE KernelFailsAfterTaking
  BY <1>5, <1>9 DEF KernelFailsAfterTaking
<1>10. CASE KvWriteRejected
  BY <1>6, <1>10 DEF KvWriteRejected, WritingKv
<1>11. ASSUME NEW v \in Vals, KvWriteSucceeds(v) PROVE TypeInv'
  BY <1>6, <1>11 DEF KvWriteSucceeds, WritingKv, F32, Buffers
<1>12. CASE KvWriteFails
  BY <1>6, <1>12 DEF KvWriteFails, WritingKv, StoreId, Invocations
<1> QED BY <1>1, <1>2, <1>3, <1>4, <1>7, <1>8, <1>9, <1>10, <1>11, <1>12 DEF DispatchStep

LEMMA TypeSettleStep == TypeInv /\ SettleStep => TypeInv'
<1> SUFFICES ASSUME TypeInv, SettleStep PROVE TypeInv'
  OBVIOUS
<1> USE ConstantsOK DEF TypeInv, TypeOK, DispatchOK, Phases, SettleIdle, NoValues, tableVars
<1>1. CASE SettleFailed
  BY <1>1 DEF SettleFailed
<1>2. CASE SettlePreAdmitted
  BY <1>2 DEF SettlePreAdmitted
<1>3. CASE SettleAdmitted
  <2>1. [residency EXCEPT ![inv.out] = admitted] \in [Ids -> Allocations \cup {None}]
    OBVIOUS
  <2> QED BY <1>3, <2>1, AfterReleaseType DEF SettleAdmitted
<1> QED BY <1>1, <1>2, <1>3 DEF SettleStep

LEMMA TypeStep == TypeInv /\ [Next]_vars => TypeInv'
<1> SUFFICES ASSUME TypeInv, [Next]_vars PROVE TypeInv'
  OBVIOUS
<1>1. CASE UNCHANGED vars
  BY <1>1 DEF vars, tableVars, ledgerVars, dispatchVars, TypeInv, TypeOK, DispatchOK
<1> QED BY <1>1, TypeCallerStep, TypeHostStep, TypeAdmitStep, TypeUndone, TypeDispatchStep,
           TypeSettleStep DEF Next

\* The table holds buffers, the ledgers allocations, in every state.
THEOREM TypeCorrect == Spec => []TypeOK
<1>1. TypeInv => TypeOK
  BY DEF TypeInv
<1> QED BY <1>1, TypeInit, TypeStep, PTL DEF Spec

----------------------------------------------------------------------------
(* The ledger.                                                             *)

\* LedgerExact is not inductive alone: a granted allocation must be new to
\* every set, nothing may be admitted between dispatches, and the record a
\* dispatch will overwrite must not be a caller's.
LedgerInv ==
    /\ LedgerExact
    /\ active \cup callers \subseteq 1..minted
    /\ phase = "idle" => admitted = None
    /\ phase # "idle" /\ admitted # None => residency[inv.out] \notin callers \cap active

Inv == TypeInv /\ LedgerInv

\* What LedgerExact says of one allocation.
LEMMA ExactByElement ==
    LedgerExact <=>
        /\ \A a : a \in active \ callers <=>
                    a # None /\ (a = admitted \/ \E i \in Ids : tracked[i] = a)
        /\ \A i, j \in Ids : tracked[i] = tracked[j] /\ tracked[i] # None => i = j
        /\ \A i \in Ids : tracked[i] = admitted => admitted = None
BY DEF LedgerExact, Answered

LEMMA ExactByElementNext ==
    LedgerExact' <=>
        /\ \A a : a \in active' \ callers' <=>
                    a # None /\ (a = admitted' \/ \E i \in Ids : tracked'[i] = a)
        /\ \A i, j \in Ids : tracked'[i] = tracked'[j] /\ tracked'[i] # None => i = j
        /\ \A i \in Ids : tracked'[i] = admitted' => admitted' = None
BY DEF LedgerExact, Answered

LEMMA NoneIsNoAllocation == None \notin Allocations
<1>1. Allocations \subseteq Nat
  BY ConstantsOK DEF Allocations
<1> QED BY <1>1, ConstantsOK

\* An allocation the Memory Manager grants is in no ledger yet.
LEMMA FreshIsNew ==
    ASSUME Inv, CanAllocate
    PROVE  /\ Fresh \notin active \cup callers
           /\ Fresh # None
           /\ Fresh # admitted
           /\ \A i \in Ids : tracked[i] # Fresh
           /\ \A i \in Ids : tracked[i] \notin callers
           /\ active \cup callers \cup {Fresh} \subseteq 1..Fresh
<1>1. minted \in Nat /\ Fresh = minted + 1 /\ active \cup callers \subseteq 1..minted
  BY ConstantsOK DEF Inv, TypeInv, TypeOK, LedgerInv, Fresh
<1>2. Fresh \notin active \cup callers /\ active \cup callers \cup {Fresh} \subseteq 1..Fresh
  BY <1>1
<1>3. Fresh # None
  BY <1>1, ConstantsOK
<1>4. \A a : a # None /\ (a = admitted \/ \E i \in Ids : tracked[i] = a) => a \in active \ callers
  BY ExactByElement DEF Inv, LedgerInv
<1>5. None \notin callers
  BY NoneIsNoAllocation DEF Inv, TypeInv, TypeOK
<1> QED BY <1>2, <1>3, <1>4, <1>5

\* Replacing the allocation of one id by a new one keeps the ledgers exact.
LEMMA ReplaceKeepsLedger ==
    ASSUME Inv, CanAllocate, phase = "idle", NEW i \in Ids, Replace(i), minted' = Fresh,
           UNCHANGED <<callers, dispatchVars>>
    PROVE  LedgerInv'
<1>1. /\ admitted = None /\ admitted' = None /\ phase' = "idle" /\ callers' = callers
  BY DEF Inv, LedgerInv, dispatchVars
<1>2. /\ tracked' = [tracked EXCEPT ![i] = Fresh]
      /\ active' = (active \cup {Fresh}) \ {tracked[i]}
      /\ tracked \in [Ids -> Allocations \cup {None}]
  BY DEF Replace, Inv, TypeInv, TypeOK
<1>3. active' \cup callers' \subseteq 1..minted'
  BY <1>1, <1>2, FreshIsNew
<1>4. LedgerExact'
  BY <1>1, <1>2, FreshIsNew, ExactByElement, ExactByElementNext DEF Inv, LedgerInv
<1> QED BY <1>1, <1>3, <1>4 DEF LedgerInv

LEMMA LedgerInit == Init => LedgerInv
BY ConstantsOK DEF Init, LedgerInv, LedgerExact, Answered

LEMMA LedgerCallerStep == Inv /\ CallerStep => LedgerInv'
<1> SUFFICES ASSUME Inv, CallerStep PROVE LedgerInv'
  OBVIOUS
<1>1. ASSUME NEW i \in Ids, CallerAdmits(i) PROVE LedgerInv'
  <2>1. /\ CanAllocate /\ admitted = None /\ admitted' = None /\ phase' = "idle"
        /\ minted' = Fresh /\ active' = active \cup {Fresh}
        /\ callers' = callers \cup {Fresh} /\ tracked' = tracked
    BY <1>1 DEF CallerAdmits, Inv, LedgerInv, dispatchVars
  <2>2. LedgerExact'
    BY <2>1, FreshIsNew, ExactByElement, ExactByElementNext DEF Inv, LedgerInv
  <2> QED BY <2>1, <2>2, FreshIsNew DEF LedgerInv
<1>2. ASSUME NEW a \in Allocations, CallerReleases(a) PROVE LedgerInv'
  <2>1. /\ admitted = None /\ admitted' = None /\ phase' = "idle" /\ minted' = minted
        /\ active' = active \ {a} /\ callers' = callers /\ tracked' = tracked
        /\ a \in callers
    BY <1>2 DEF CallerReleases, Inv, LedgerInv, dispatchVars
  <2>2. LedgerExact'
    BY <2>1, ExactByElement, ExactByElementNext DEF Inv, LedgerInv
  <2> QED BY <2>1, <2>2 DEF Inv, LedgerInv
<1> QED BY <1>1, <1>2 DEF CallerStep

LEMMA LedgerHostStep == Inv /\ HostStep => LedgerInv'
<1> SUFFICES ASSUME Inv, HostStep PROVE LedgerInv'
  OBVIOUS
<1>1. ASSUME phase = "idle", UNCHANGED <<tracked, active, callers, dispatchVars>>,
             minted' \in {minted, Fresh}
      PROVE  LedgerInv'
  <2>1. /\ admitted = None /\ admitted' = None /\ phase' = "idle" /\ tracked' = tracked
        /\ active' = active /\ callers' = callers
    BY <1>1 DEF Inv, LedgerInv, dispatchVars
  <2>2. active' \cup callers' \subseteq 1..minted'
    BY <1>1, <2>1, ConstantsOK DEF Inv, TypeInv, TypeOK, LedgerInv, Fresh
  <2> QED BY <2>1, <2>2 DEF Inv, LedgerInv, LedgerExact, Answered
<1>2. ASSUME NEW i \in Ids, NEW b \in Buffers, WriteTensor(i, b) PROVE LedgerInv'
  BY <1>1, <1>2 DEF WriteTensor, ledgerVars
<1>3. ASSUME NEW i \in Ids, ReleaseTensor(i) PROVE LedgerInv'
  BY <1>1, <1>3 DEF ReleaseTensor, ledgerVars
<1>4. ASSUME NEW i \in Ids, ReleaseAdmittedTensor(i) PROVE LedgerInv'
  <2>1. /\ admitted = None /\ admitted' = None /\ phase' = "idle" /\ minted' = minted
        /\ active' = active \ {tracked[i]} /\ callers' = callers
        /\ tracked' = [tracked EXCEPT ![i] = None]
        /\ tracked \in [Ids -> Allocations \cup {None}]
    BY <1>4 DEF ReleaseAdmittedTensor, Inv, TypeInv, TypeOK, LedgerInv, dispatchVars
  <2>2. LedgerExact'
    BY <2>1, ExactByElement, ExactByElementNext DEF Inv, LedgerInv
  <2> QED BY <2>1, <2>2 DEF Inv, LedgerInv
<1>5. ASSUME NEW i \in Ids, NEW v \in Vals, WriteTensorAdmitted(i, v) PROVE LedgerInv'
  BY <1>5, ReplaceKeepsLedger DEF WriteTensorAdmitted
<1>6. ASSUME WriteTensorAdmittedFails PROVE LedgerInv'
  BY <1>1, <1>6 DEF WriteTensorAdmittedFails
<1>7. ASSUME NEW from \in Ids, NEW to \in Ids, CopyTensorAdmitted(from, to) PROVE LedgerInv'
  BY <1>7, ReplaceKeepsLedger DEF CopyTensorAdmitted
<1>8. ASSUME NEW i \in Ids, NEW b \in Buffers, CopyTensorFromPeerAdmitted(i, b)
      PROVE LedgerInv'
  BY <1>8, ReplaceKeepsLedger DEF CopyTensorFromPeerAdmitted
<1> QED BY <1>2, <1>3, <1>4, <1>5, <1>6, <1>7, <1>8 DEF HostStep

LEMMA LedgerAdmitStep == Inv /\ AdmitStep => LedgerInv'
<1> SUFFICES ASSUME Inv, NEW k \in Kernels, NEW ins \in Ids \X Ids, NEW out \in Ids,
                    AdmitPreAdmitted(k, ins, out) \/ AdmitOutput(k, ins, out)
             PROVE  LedgerInv'
  BY DEF AdmitStep
<1>1. ASSUME Begin(k, ins, out)
      PROVE  phase' = "expand" /\ inv'.out = out /\ callers' = callers /\ admitted = None
  BY <1>1 DEF Begin, Inv, LedgerInv
<1>2. CASE AdmitPreAdmitted(k, ins, out)
  <2>1. /\ admitted = None /\ admitted' = None /\ phase' = "expand" /\ minted' = minted
        /\ active' = active \ {tracked[out]} /\ callers' = callers
        /\ tracked' = [tracked EXCEPT ![out] = None]
        /\ tracked \in [Ids -> Allocations \cup {None}]
    BY <1>1, <1>2 DEF AdmitPreAdmitted, Inv, TypeInv, TypeOK
  <2>2. LedgerExact'
    BY <2>1, ExactByElement, ExactByElementNext DEF Inv, LedgerInv
  <2> QED BY <2>1, <2>2 DEF Inv, LedgerInv
<1>3. CASE AdmitOutput(k, ins, out)
  <2>1. /\ CanAllocate /\ admitted = None /\ admitted' = Fresh /\ phase' = "expand"
        /\ minted' = Fresh /\ active' = active \cup {Fresh} /\ callers' = callers
        /\ tracked' = tracked /\ residency' = residency /\ inv'.out = out
    BY <1>1, <1>3 DEF AdmitOutput
  <2>2. LedgerExact'
    BY <2>1, FreshIsNew, ExactByElement, ExactByElementNext DEF Inv, LedgerInv
  <2>3. residency[out] \notin callers
    <3>1. residency[out] = None \/ residency[out] = tracked[out]
      BY <1>3 DEF AdmitOutput, PreAdmitted
    <3>2. None \notin callers
      BY NoneIsNoAllocation DEF Inv, TypeInv, TypeOK
    <3> QED BY <2>1, <3>1, <3>2, FreshIsNew
  <2> QED BY <2>1, <2>2, <2>3, FreshIsNew DEF LedgerInv
<1> QED BY <1>2, <1>3

LEMMA LedgerUndone ==
    ASSUME Inv, NEW outs \in SUBSET Ids, AdmissionUndone(outs)
    PROVE  LedgerInv'
<1> DEFINE pre == {i \in outs : PreAdmitted(i)}
<1>1. /\ admitted = None /\ admitted' = None /\ phase' = "idle" /\ callers' = callers
      /\ tracked' = [i \in Ids |-> IF i \in pre THEN None ELSE tracked[i]]
      /\ active' = active \ {tracked[i] : i \in pre}
  BY DEF AdmissionUndone, Inv, LedgerInv, dispatchVars
<1>2. active' \cup callers' \subseteq 1..minted'
  BY <1>1, ConstantsOK DEF AdmissionUndone, Inv, TypeInv, TypeOK, LedgerInv
<1> HIDE DEF pre
<1>3. pre \subseteq Ids
  BY DEF pre
<1>4. LedgerExact'
  BY <1>1, <1>3, ExactByElement, ExactByElementNext DEF Inv, LedgerInv
<1> QED BY <1>1, <1>2, <1>4 DEF LedgerInv

LEMMA LedgerDispatchStep == Inv /\ DispatchStep => LedgerInv'
<1> SUFFICES ASSUME Inv, DispatchStep PROVE LedgerInv'
  OBVIOUS
<1>1. /\ UNCHANGED <<ledgerVars, inv, admitted>>
      /\ phase # "idle" /\ phase' # "idle"
  BY DEF DispatchStep, Reject, ExpandInputs, ExpandFails, OfferOutput, KernelSucceeds,
         KernelFailsBeforeTaking, KernelFailsAfterTaking, KvWriteRejected, KvWriteSucceeds,
         KvWriteFails, KernelReturns, KvWriteReturns, WritingKv
<1> QED BY <1>1 DEF Inv, LedgerInv, LedgerExact, Answered, ledgerVars

LEMMA LedgerSettleStep == Inv /\ SettleStep => LedgerInv'
<1> SUFFICES ASSUME Inv, SettleStep PROVE LedgerInv'
  OBVIOUS
<1>1. /\ phase' = "idle" /\ admitted' = None /\ callers' = callers /\ minted' = minted
      /\ inv \in Invocations
      /\ tracked \in [Ids -> Allocations \cup {None}]
  BY DEF SettleStep, SettleFailed, SettlePreAdmitted, SettleAdmitted, SettleIdle,
         Inv, TypeInv, TypeOK, DispatchOK
<1>2. CASE SettleFailed
  <2>1. active' = active \ {admitted} /\ tracked' = tracked
    BY <1>2 DEF SettleFailed
  <2>2. LedgerExact'
    BY <1>1, <2>1, ExactByElement, ExactByElementNext DEF Inv, LedgerInv
  <2> QED BY <1>1, <2>1, <2>2 DEF Inv, LedgerInv
<1>3. CASE SettlePreAdmitted
  <2>1. active' = active /\ tracked' = tracked /\ admitted = None
    BY <1>3 DEF SettlePreAdmitted
  <2> QED BY <1>1, <2>1 DEF Inv, LedgerInv, LedgerExact, Answered
<1>4. CASE SettleAdmitted
  <2>1. /\ tracked' = [tracked EXCEPT ![inv.out] = admitted] /\ admitted # None
        /\ active' = active \ {tracked[inv.out]} /\ inv.out \in Ids
    BY <1>1, <1>4 DEF SettleAdmitted, Invocations
  <2>2. LedgerExact'
    BY <1>1, <2>1, ExactByElement, ExactByElementNext DEF Inv, LedgerInv
  <2> QED BY <1>1, <2>1, <2>2 DEF Inv, LedgerInv
<1> QED BY <1>2, <1>3, <1>4 DEF SettleStep

LEMMA LedgerStep == Inv /\ [Next]_vars => Inv'
<1> SUFFICES ASSUME Inv, [Next]_vars PROVE LedgerInv'
  BY TypeStep DEF Inv
<1>1. CASE UNCHANGED vars
  BY <1>1 DEF vars, ledgerVars, dispatchVars, Inv, LedgerInv, LedgerExact, Answered
<1> QED BY <1>1, LedgerCallerStep, LedgerHostStep, LedgerAdmitStep, LedgerUndone, LedgerDispatchStep,
           LedgerSettleStep DEF Next

LEMMA LedgerAlways == Spec => []Inv
<1>1. Init => Inv
  BY TypeInit, LedgerInit DEF Inv
<1> QED BY <1>1, LedgerStep, PTL DEF Spec

\* However many resources, writes and dispatches: no allocation the executor
\* admits leaks, is released twice, or is shared by two resources.
THEOREM LedgerCorrect == Spec => []LedgerExact
<1>1. Inv => LedgerExact
  BY DEF Inv, LedgerInv
<1> QED BY <1>1, LedgerAlways, PTL

----------------------------------------------------------------------------
(* The callers' records.                                                   *)

\* What the executor releases is never a caller's.
LEMMA OwnIsNoCallers ==
    ASSUME Inv
    PROVE  admitted \notin callers /\ \A i \in Ids : tracked[i] \notin callers
<1>1. \A a : a # None /\ (a = admitted \/ \E i \in Ids : tracked[i] = a) => a \notin callers
  BY ExactByElement DEF Inv, LedgerInv
<1>2. None \notin callers
  BY NoneIsNoAllocation DEF Inv, TypeInv, TypeOK
<1> QED BY <1>1, <1>2

\* A step that releases at most an allocation of the executor's own.
LEMMA ReleaseKeepsRecords ==
    ASSUME Inv, NEW a, a \notin callers, active \ {a} \subseteq active',
           residency' \in AfterRelease(residency, a)
    PROVE  \A i \in Ids : residency[i] \in callers \cap active =>
               residency'[i] = residency[i] /\ residency[i] \in active'
BY AfterReleaseType DEF Inv, TypeInv, TypeOK

LEMMA SameKeepsRecords ==
    ASSUME Inv, active \subseteq active' \cup {admitted}, residency' = residency
    PROVE  \A i \in Ids : residency[i] \in callers \cap active =>
               residency'[i] = residency[i] /\ residency[i] \in active'
BY OwnIsNoCallers

LEMMA StepKeepsRecords ==
    ASSUME Inv, Next, ~CallerStep
    PROVE  \A i \in Ids : residency[i] \in callers \cap active =>
               residency'[i] = residency[i] /\ residency[i] \in active'
<1>1. CASE HostStep
  <2>1. ASSUME NEW i \in Ids, Replace(i)
        PROVE  active \ {tracked[i]} \subseteq active' /\ residency' \in AfterRelease(residency, tracked[i])
    BY <2>1 DEF Replace
  <2>2. CASE \E i \in Ids : Replace(i) \/ ReleaseAdmittedTensor(i)
    BY <2>1, <2>2, OwnIsNoCallers, ReleaseKeepsRecords DEF ReleaseAdmittedTensor
  <2>3. CASE UNCHANGED <<active, residency>>
    BY <2>3, SameKeepsRecords
  <2> QED BY <1>1, <2>2, <2>3 DEF HostStep, WriteTensor, ReleaseTensor, WriteTensorAdmitted,
                WriteTensorAdmittedFails, CopyTensorAdmitted, CopyTensorFromPeerAdmitted,
                ledgerVars
<1>2. CASE AdmitStep
  <2>1. PICK k \in Kernels, ins \in Ids \X Ids, out \in Ids :
            AdmitPreAdmitted(k, ins, out) \/ AdmitOutput(k, ins, out)
    BY <1>2 DEF AdmitStep
  <2>2. CASE AdmitPreAdmitted(k, ins, out)
    BY <2>2, OwnIsNoCallers, ReleaseKeepsRecords DEF AdmitPreAdmitted
  <2>3. CASE AdmitOutput(k, ins, out)
    BY <2>3, SameKeepsRecords DEF AdmitOutput
  <2> QED BY <2>1, <2>2, <2>3
<1>3. CASE DispatchStep
  <2>1. UNCHANGED <<active, residency>>
    BY <1>3 DEF DispatchStep, Reject, ExpandInputs, ExpandFails, OfferOutput, KernelSucceeds,
         KernelFailsBeforeTaking, KernelFailsAfterTaking, KvWriteRejected, KvWriteSucceeds,
         KvWriteFails, KernelReturns, KvWriteReturns, ledgerVars
  <2> QED BY <2>1, SameKeepsRecords
<1>4. CASE SettleFailed \/ SettlePreAdmitted
  BY <1>4, SameKeepsRecords DEF SettleFailed, SettlePreAdmitted
<1>5. CASE SettleAdmitted
  <2>1. /\ admitted # None /\ phase # "idle" /\ inv.out \in Ids
        /\ active' = active \ {tracked[inv.out]}
        /\ residency' \in AfterRelease([residency EXCEPT ![inv.out] = admitted], tracked[inv.out])
        /\ residency \in [Ids -> Allocations \cup {None}]
        /\ admitted \in Allocations \cup {None}
    BY <1>5, SMTT(60) DEF SettleAdmitted, SettleIdle, Inv, TypeInv, TypeOK, DispatchOK, Invocations
  <2>2. residency[inv.out] \notin callers \cap active
    BY <2>1 DEF Inv, LedgerInv
  <2>3. \A i \in Ids : residency'[i] # [residency EXCEPT ![inv.out] = admitted][i]
                        => [residency EXCEPT ![inv.out] = admitted][i] = tracked[inv.out]
    <3> DEFINE r == [residency EXCEPT ![inv.out] = admitted]
    <3>1. r \in [Ids -> Allocations \cup {None}]
      BY <2>1
    <3>2. residency' \in AfterRelease(r, tracked[inv.out])
      BY <2>1
    <3> HIDE DEF r
    <3>3. \A i \in Ids : residency'[i] # r[i] => r[i] = tracked[inv.out]
      BY <3>1, <3>2, AfterReleaseType
    <3> QED BY <3>3 DEF r
  <2> QED BY <2>1, <2>2, <2>3, OwnIsNoCallers
<1>6. ASSUME NEW outs \in SUBSET Ids, AdmissionUndone(outs)
      PROVE  \A i \in Ids : residency[i] \in callers \cap active =>
                 residency'[i] = residency[i] /\ residency[i] \in active'
  <2> DEFINE stale == {tracked[i] : i \in {j \in outs : PreAdmitted(j)}}
  <2>1. active' = active \ stale /\ residency' \in AfterReleases(residency, stale)
    BY <1>6 DEF AdmissionUndone
  <2>2. stale \cap callers = {}
    BY OwnIsNoCallers
  <2>3. residency \in [Ids -> Allocations \cup {None}]
    BY DEF Inv, TypeInv, TypeOK
  <2> HIDE DEF stale
  <2> QED BY <2>1, <2>2, <2>3, AfterReleasesType
<1> QED BY <1>1, <1>2, <1>3, <1>4, <1>5, <1>6 DEF Next, SettleStep

\* Whatever is written, released or dispatched, a live record of a caller's
\* allocation is the caller's alone to change.
THEOREM CallerRecordsCorrect == Spec => CallerRecordsStand
<1>1. Inv /\ [Next]_vars =>
        [\A i \in Ids : residency[i] \in callers \cap active /\ ~CallerStep
            => residency'[i] = residency[i] /\ residency[i] \in active']_vars
  BY StepKeepsRecords
<1> QED BY <1>1, LedgerAlways, PTL DEF Spec, CallerRecordsStand

----------------------------------------------------------------------------
(* Refinement of ResourceTable.                                            *)

\* The output's entry is out of the table only while the kernel runs.
LentInv == restore => phase = "kernel" /\ ~Held(inv.out)

LEMMA LentInit == Init => LentInv
BY DEF Init, LentInv

LEMMA LentStep == TypeInv /\ LentInv /\ [Next]_vars => LentInv'
<1> SUFFICES ASSUME TypeInv, LentInv, [Next]_vars PROVE LentInv'
  OBVIOUS
<1> USE DEF LentInv, Held
<1>1. CASE UNCHANGED vars
  BY <1>1 DEF vars, tableVars, dispatchVars
<1>2. CASE phase = "idle" /\ Next
  <2>1. ~restore /\ restore' = restore
    BY <1>2 DEF Next, CallerStep, HostStep, AdmitStep, DispatchStep, SettleStep, CallerAdmits,
         CallerReleases, WriteTensor, ReleaseTensor, ReleaseAdmittedTensor, WriteTensorAdmitted,
         WriteTensorAdmittedFails, CopyTensorAdmitted, CopyTensorFromPeerAdmitted,
         AdmitPreAdmitted, AdmitOutput, Begin, AdmissionUndone, Reject, ExpandInputs, ExpandFails,
         OfferOutput,
         KernelSucceeds, KernelFailsBeforeTaking, KernelFailsAfterTaking, KvWriteRejected,
         KvWriteSucceeds, KvWriteFails, WritingKv, SettleFailed, SettlePreAdmitted,
         SettleAdmitted, SettleIdle, tableVars
  <2> QED BY <2>1
<1>3. CASE phase # "idle" /\ DispatchStep
  <2>1. CASE Reject
    BY <2>1 DEF Reject, tableVars
  <2>2. CASE ExpandInputs \/ \E n \in 1..2 : ExpandFails(n)
    BY <2>2 DEF ExpandInputs, ExpandFails
  <2>3. CASE OfferOutput
    BY <2>3 DEF OfferOutput, Offers, TypeInv, TypeOK, DispatchOK, Invocations
  <2>4. CASE \E ok, table : KernelReturns(ok, table)
    BY <2>4 DEF KernelReturns
  <2>5. CASE WritingKv /\ \E ok, table : KvWriteReturns(ok, table)
    BY <2>5 DEF WritingKv, KvWriteReturns
  <2> QED BY <1>3, <2>1, <2>2, <2>3, <2>4, <2>5 DEF DispatchStep, KernelSucceeds,
        KernelFailsBeforeTaking, KernelFailsAfterTaking, KvWriteRejected, KvWriteSucceeds,
        KvWriteFails
<1>4. CASE phase # "idle" /\ SettleStep
  BY <1>4 DEF SettleStep, SettleFailed, SettlePreAdmitted, SettleAdmitted, SettleIdle, tableVars
<1> QED BY <1>1, <1>2, <1>3, <1>4 DEF Next, CallerStep, HostStep, AdmitStep, CallerAdmits,
      CallerReleases, WriteTensor, ReleaseTensor, ReleaseAdmittedTensor, WriteTensorAdmitted,
      WriteTensorAdmittedFails, CopyTensorAdmitted, CopyTensorFromPeerAdmitted,
      AdmitPreAdmitted, AdmitOutput, Begin, AdmissionUndone

\* Between dispatches the abstract table is the concrete one.
LEMMA IdleValue ==
    ASSUME ~restore PROVE AbstractValue = [i \in Ids |-> ValueOf(i)]
BY DEF AbstractValue

LEMMA IdleValueNext ==
    ASSUME ~restore' PROVE AbstractValue' = [i \in Ids |-> ValueOf(i)']
BY DEF AbstractValue

\* Storing or dropping one buffer is one Put.
LEMMA StoreIsPut ==
    ASSUME TypeInv, LentInv, NEW i \in Ids, NEW b \in Buffers \cup {None},
           phase = "idle", phase' = "idle", storage' = [storage EXCEPT ![i] = b],
           restore' = restore
    PROVE  \E v \in Vals \cup {None} : Table!Put(i, v)
<1>1. ~restore /\ ~restore'
  BY DEF LentInv
<1>2. AbstractTarget = None /\ AbstractTarget' = None
  BY DEF AbstractTarget
<1>3. PICK v \in Vals \cup {None} : v = IF b = None THEN None ELSE b.val
  BY DEF Buffers
<1>4. AbstractValue' = [AbstractValue EXCEPT ![i] = v]
  BY <1>1, <1>3, IdleValue, IdleValueNext DEF ValueOf, Held, TypeInv, TypeOK
<1> QED BY <1>2, <1>4 DEF Table!Put

\* A step that leaves the table and the dispatch alone is a stutter.
LEMMA SameTable ==
    ASSUME UNCHANGED <<storage, offered, restore, phase, inv>>
    PROVE  UNCHANGED <<AbstractValue, AbstractTarget>>
BY DEF AbstractValue, AbstractTarget, ValueOf, Held

\* The end of a dispatch: the output's entry is w, or nothing changed.
LEMMA EndIsFinish ==
    ASSUME TypeInv, phase \in {"expand", "output", "kernel"}, phase' = "settle", ~restore',
           NEW w \in Vals \cup {None},
           \/ \A i \in Ids : ValueOf(i)' = AbstractValue[i]
           \/ \A i \in Ids : ValueOf(i)' = IF i = inv.out THEN w ELSE AbstractValue[i]
    PROVE  \E u \in Vals \cup {None} : Table!Finish(u)
<1>1. AbstractTarget = inv.out /\ AbstractTarget # None /\ AbstractTarget' = None
      /\ inv.out \in Ids
  BY ConstantsOK DEF AbstractTarget, TypeInv, DispatchOK, Invocations
<1>2. AbstractValue' = [i \in Ids |-> ValueOf(i)']
  BY IdleValueNext
<1>3. AbstractValue' = AbstractValue \/ AbstractValue' = [AbstractValue EXCEPT ![inv.out] = w]
  BY <1>2 DEF AbstractValue
<1> QED BY <1>1, <1>3 DEF Table!Finish

LEMMA RefineCallerStep ==
    ASSUME TypeInv, LentInv, CallerStep PROVE UNCHANGED Table!vars
BY SameTable DEF CallerStep, CallerAdmits, CallerReleases, tableVars, dispatchVars, Table!vars

LEMMA RefineHostStep ==
    ASSUME TypeInv, LentInv, HostStep PROVE [Table!Next]_(Table!vars)
<1>1. ASSUME NEW i \in Ids, NEW b \in Buffers \cup {None}, phase = "idle",
             storage' = [storage EXCEPT ![i] = b], UNCHANGED <<restore, phase>>
      PROVE  Table!Next
  BY <1>1, StoreIsPut DEF Table!Next
<1>2. CASE WriteTensorAdmittedFails
  BY <1>2, SameTable DEF WriteTensorAdmittedFails, tableVars, dispatchVars, Table!vars
<1>3. ASSUME NEW i \in Ids, NEW b \in Buffers, WriteTensor(i, b) PROVE Table!Next
  BY <1>1, <1>3 DEF WriteTensor, dispatchVars
<1>4. ASSUME NEW i \in Ids, ReleaseTensor(i) \/ ReleaseAdmittedTensor(i) PROVE Table!Next
  BY <1>1, <1>4 DEF ReleaseTensor, ReleaseAdmittedTensor, dispatchVars
<1>5. ASSUME NEW i \in Ids, NEW v \in Vals, WriteTensorAdmitted(i, v) PROVE Table!Next
  <2>1. F32(v) \in Buffers
    BY DEF F32, Buffers
  <2> QED BY <1>1, <1>5, <2>1 DEF WriteTensorAdmitted, dispatchVars
<1>6. ASSUME NEW from \in Ids, NEW to \in Ids, CopyTensorAdmitted(from, to) PROVE Table!Next
  <2>1. storage[from] \in Buffers \cup {None}
    BY DEF TypeInv, TypeOK
  <2> QED BY <1>1, <1>6, <2>1 DEF CopyTensorAdmitted, dispatchVars
<1>7. ASSUME NEW i \in Ids, NEW b \in Buffers, CopyTensorFromPeerAdmitted(i, b)
      PROVE Table!Next
  BY <1>1, <1>7 DEF CopyTensorFromPeerAdmitted, dispatchVars
<1> QED BY <1>2, <1>3, <1>4, <1>5, <1>6, <1>7 DEF HostStep

\* Admission begins the abstract dispatch, whichever ledger admits it.
LEMMA RefineAdmitStep ==
    ASSUME TypeInv, LentInv, AdmitStep PROVE Table!Next
<1>1. PICK k \in Kernels, ins \in Ids \X Ids, out \in Ids : Begin(k, ins, out)
  BY DEF AdmitStep, AdmitPreAdmitted, AdmitOutput
<1>2. /\ AbstractTarget = None /\ AbstractTarget' = out
      /\ ~restore /\ ~restore' /\ storage' = storage
  BY <1>1 DEF Begin, AbstractTarget, LentInv, tableVars
<1>3. AbstractValue' = AbstractValue
  BY <1>2, IdleValue, IdleValueNext DEF ValueOf, Held
<1>4. Table!Begin(out)
  BY <1>2, <1>3 DEF Table!Begin
<1> QED BY <1>4 DEF Table!Next

LEMMA RefineUndone ==
    ASSUME NEW outs \in SUBSET Ids, AdmissionUndone(outs) PROVE UNCHANGED Table!vars
BY SameTable DEF AdmissionUndone, tableVars, dispatchVars, Table!vars

LEMMA F32IsBuffer ==
    ASSUME NEW v \in Vals PROVE F32(v) \in Buffers /\ F32(v) # None /\ F32(v).val = v
<1>1. F32(v) \in Buffers
  BY DEF F32, Buffers
<1>2. F32(v) # None
  BY <1>1, ConstantsOK
<1>3. F32(v).val = v
  BY DEF F32
<1> QED BY <1>1, <1>2, <1>3

\* Expanding compact inputs changes no value.
LEMMA ExpandedValue ==
    ASSUME TypeInv, inv \in Invocations, NEW S \in SUBSET (1..2),
           \A n \in S : IsCompact(inv.ins[n]), storage' = Expanded(S)
    PROVE  \A i \in Ids : ValueOf(i)' = ValueOf(i)
<1> SUFFICES ASSUME NEW i \in Ids PROVE ValueOf(i)' = ValueOf(i)
  OBVIOUS
<1>1. CASE \E n \in S : inv.ins[n] = i
  <2>1. storage[i] # None /\ storage[i] \in Buffers
    BY <1>1 DEF IsCompact, Held, TypeInv, TypeOK
  <2>2. storage'[i] = F32(storage[i].val)
    BY <1>1 DEF Expanded
  <2>3. F32(storage[i].val) # None /\ F32(storage[i].val).val = storage[i].val
    BY <2>1, F32IsBuffer DEF Buffers
  <2> QED BY <2>1, <2>2, <2>3 DEF ValueOf, Held
<1>2. CASE ~ \E n \in S : inv.ins[n] = i
  BY <1>2 DEF Expanded, ValueOf, Held
<1> QED BY <1>1, <1>2

LEMMA RefineDispatchStep ==
    ASSUME TypeInv, LentInv, DispatchStep PROVE [Table!Next]_(Table!vars)
<1>1. inv \in Invocations /\ inv' = inv
  BY DEF DispatchStep, Reject, ExpandInputs, ExpandFails, OfferOutput, KernelSucceeds,
         KernelFailsBeforeTaking, KernelFailsAfterTaking, KvWriteRejected, KvWriteSucceeds,
         KvWriteFails, KernelReturns, KvWriteReturns, WritingKv, TypeInv, DispatchOK
<1>2. ASSUME NEW w \in Vals \cup {None}, Table!Finish(w) PROVE Table!Next
  BY <1>2 DEF Table!Next
<1>3. CASE Reject
  <2>1. phase = "expand" /\ ~restore /\ ~restore' /\ storage' = storage /\ phase' = "settle"
    BY <1>3 DEF Reject, LentInv, tableVars
  <2>2. \A i \in Ids : ValueOf(i)' = AbstractValue[i]
    BY <2>1, IdleValue DEF ValueOf, Held
  <2> QED BY <1>2, <2>1, <2>2, EndIsFinish
<1>4. CASE ExpandInputs
  <2>1. phase = "expand" /\ ~restore /\ ~restore' /\ phase' = "output"
    BY <1>4 DEF ExpandInputs, LentInv
  <2>2. \A i \in Ids : ValueOf(i)' = ValueOf(i)
    BY <1>1, <1>4, ExpandedValue DEF ExpandInputs, Expands
  <2>3. AbstractValue' = AbstractValue
    BY <2>1, <2>2, IdleValue, IdleValueNext
  <2>4. AbstractTarget' = AbstractTarget
    BY <1>1, <2>1 DEF AbstractTarget
  <2> QED BY <2>3, <2>4 DEF Table!vars
<1>5. ASSUME NEW n \in 1..2, ExpandFails(n) PROVE Table!Next
  <2>1. phase = "expand" /\ ~restore /\ ~restore' /\ phase' = "settle"
    BY <1>5 DEF ExpandFails, LentInv
  <2>2. \A i \in Ids : ValueOf(i)' = ValueOf(i)
    BY <1>1, <1>5, ExpandedValue DEF ExpandFails, Expands
  <2>3. \A i \in Ids : ValueOf(i)' = AbstractValue[i]
    BY <2>1, <2>2, IdleValue
  <2> QED BY <1>2, <2>1, <2>3, EndIsFinish
<1>6. CASE OfferOutput
  <2>1. /\ phase = "output" /\ phase' = "kernel" /\ ~restore /\ restore' = Offers
        /\ inv.out \in Ids /\ storage \in [Ids -> Buffers \cup {None}]
    BY <1>1, <1>6 DEF OfferOutput, LentInv, TypeInv, TypeOK, Invocations
  <2>2. AbstractTarget' = AbstractTarget
    BY <1>1, <2>1 DEF AbstractTarget
  <2>3. AbstractValue' = AbstractValue
    <3>1. CASE Offers
      <4>1. /\ storage' = [storage EXCEPT ![inv.out] = None]
            /\ offered' = storage[inv.out].val
            /\ storage[inv.out] # None
        BY <1>6, <3>1 DEF OfferOutput, Offers, Held
      <4> QED BY <1>1, <2>1, <3>1, <4>1 DEF AbstractValue, ValueOf, Held
    <3>2. CASE ~Offers
      BY <1>1, <1>6, <2>1, <3>2 DEF OfferOutput, AbstractValue, ValueOf, Held
    <3> QED BY <3>1, <3>2
  <2> QED BY <2>2, <2>3 DEF Table!vars
<1>7. ASSUME NEW v \in Vals, phase # "idle", ~restore', phase' = "settle",
             phase \in {"output", "kernel"},
             storage' = [storage EXCEPT ![inv.out] = F32(v)]
      PROVE  Table!Next
  <2>1. \A i \in Ids : ValueOf(i)' = IF i = inv.out THEN v ELSE AbstractValue[i]
    <3>1. F32(v) \in Buffers /\ F32(v) # None /\ F32(v).val = v
      BY F32IsBuffer
    <3>2. \A i \in Ids : storage'[i] = IF i = inv.out THEN F32(v) ELSE storage[i]
      BY <1>7 DEF TypeInv, TypeOK
    <3>3. \A i \in Ids : i # inv.out => AbstractValue[i] = ValueOf(i)
      BY DEF AbstractValue
    <3> QED BY <3>1, <3>2, <3>3 DEF ValueOf, Held
  <2> QED BY <1>2, <1>7, <2>1, EndIsFinish
<1>8. ASSUME ~restore, ~restore', phase' = "settle", phase \in {"output", "kernel"},
             storage' = storage
      PROVE  Table!Next
  <2>1. \A i \in Ids : ValueOf(i)' = AbstractValue[i]
    BY <1>8, IdleValue DEF ValueOf, Held
  <2> QED BY <1>2, <1>8, <2>1, EndIsFinish
<1>9. ASSUME NEW v \in Vals, KernelSucceeds(v) PROVE Table!Next
  BY <1>7, <1>9 DEF KernelSucceeds, KernelReturns
<1>10. CASE KernelFailsBeforeTaking
  <2>1. /\ phase = "kernel" /\ phase' = "settle" /\ ~restore' /\ storage' = Reclaimed
        /\ storage \in [Ids -> Buffers \cup {None}]
    BY <1>10 DEF KernelFailsBeforeTaking, KernelReturns, TypeInv, TypeOK
  <2>2. CASE ~restore
    BY <1>8, <2>1, <2>2 DEF Reclaimed
  <2>3. CASE restore
    <3>1. offered \in Vals /\ storage' = [storage EXCEPT ![inv.out] = F32(offered)]
      BY <2>1, <2>3 DEF Reclaimed, TypeInv, DispatchOK
    <3> QED BY <1>7, <2>1, <3>1
  <2> QED BY <2>2, <2>3
<1>11. CASE KernelFailsAfterTaking
  <2>1. phase = "kernel" /\ phase' = "settle" /\ ~restore' /\ storage' = storage
    BY <1>11 DEF KernelFailsAfterTaking, KernelReturns
  <2>2. CASE ~restore
    BY <1>8, <2>1, <2>2
  <2>3. CASE restore
    <3>1. \A i \in Ids : ValueOf(i)' = IF i = inv.out THEN None ELSE AbstractValue[i]
      BY <1>1, <2>1, <2>3 DEF AbstractValue, ValueOf, Held, LentInv
    <3> QED BY <1>2, <2>1, <3>1, EndIsFinish
  <2> QED BY <2>2, <2>3
<1>12. CASE KvWriteRejected
  BY <1>8, <1>12 DEF KvWriteRejected, KvWriteReturns, WritingKv, LentInv
<1>13. ASSUME NEW v \in Vals, KvWriteSucceeds(v) PROVE Table!Next
  BY <1>7, <1>13 DEF KvWriteSucceeds, KvWriteReturns, WritingKv, LentInv
<1>14. CASE KvWriteFails
  <2>1. /\ phase = "output" /\ phase' = "settle" /\ ~restore /\ ~restore'
        /\ storage' = [storage EXCEPT ![inv.out] = storage[StoreId]]
        /\ storage[StoreId] \in Buffers /\ StoreId \in Ids
        /\ storage \in [Ids -> Buffers \cup {None}]
    BY <1>1, <1>14 DEF KvWriteFails, KvWriteReturns, WritingKv, LentInv, Held, StoreId,
       Invocations, TypeInv, TypeOK
  <2>2. PICK v \in Vals : v = storage[StoreId].val
    BY <2>1 DEF Buffers
  <2>3. \A i \in Ids : ValueOf(i)' = IF i = inv.out THEN v ELSE AbstractValue[i]
    <3>1. storage[StoreId] # None
      BY <2>1, ConstantsOK
    <3>2. \A i \in Ids : storage'[i] = IF i = inv.out THEN storage[StoreId] ELSE storage[i]
      BY <2>1
    <3>3. \A i \in Ids : AbstractValue[i] = ValueOf(i)
      BY <2>1, IdleValue
    <3> QED BY <2>2, <3>1, <3>2, <3>3 DEF ValueOf, Held
  <2> QED BY <1>2, <2>1, <2>3, EndIsFinish
<1> QED BY <1>3, <1>4, <1>5, <1>6, <1>9, <1>10, <1>11, <1>12, <1>13, <1>14 DEF DispatchStep

LEMMA RefineSettleStep ==
    ASSUME TypeInv, LentInv, SettleStep PROVE UNCHANGED Table!vars
<1>1. /\ phase = "settle" /\ phase' = "idle" /\ ~restore /\ ~restore' /\ storage' = storage
  BY DEF SettleStep, SettleFailed, SettlePreAdmitted, SettleAdmitted, SettleIdle, LentInv,
         tableVars
<1>2. AbstractTarget = None /\ AbstractTarget' = None
  BY <1>1 DEF AbstractTarget
<1>3. AbstractValue' = AbstractValue
  BY <1>1, IdleValue, IdleValueNext DEF ValueOf, Held
<1> QED BY <1>2, <1>3 DEF Table!vars

LEMMA RefineInit == Init => Table!Init
BY DEF Init, Table!Init, AbstractValue, AbstractTarget, ValueOf, Held

\* Every step of the executor is one of the promised table or invisible to
\* who reads it: the lent buffer, the expansions and the ledgers never show.
THEOREM TableImplemented == Spec => ImplementsTable
<1>1. TypeInv /\ LentInv /\ [Next]_vars => [Table!Next]_(Table!vars)
  <2> SUFFICES ASSUME TypeInv, LentInv, [Next]_vars PROVE [Table!Next]_(Table!vars)
    OBVIOUS
  <2>1. CASE UNCHANGED vars
    BY <2>1, SameTable DEF vars, tableVars, dispatchVars, Table!vars
  <2> QED BY <2>1, RefineCallerStep, RefineHostStep, RefineAdmitStep, RefineUndone,
             RefineDispatchStep, RefineSettleStep DEF Next
<1> QED BY <1>1, RefineInit, TypeInit, TypeStep, LentInit, LentStep, PTL
        DEF Spec, ImplementsTable, Table!Spec

----------------------------------------------------------------------------
(* What a dispatch finds and what a failed one leaves.                     *)

\* While a dispatch is under way nobody's value has changed, the buffer on
\* offer is no input's, and the compact inputs left are those it reads so.
KeptInv ==
    /\ phase \in {"expand", "output", "kernel"} => \A i \in Ids : AbstractValue[i] = before[i]
    /\ phase \in {"output", "kernel"} => OperandsReadable
    /\ phase = "kernel" => inv.kernel # "kv-write"
    /\ restore => inv.out \notin {inv.ins[1], inv.ins[2]}
    /\ FailedDispatchKeepsValues

LEMMA KeptInit == Init => KeptInv
BY DEF Init, KeptInv, FailedDispatchKeepsValues

\* Outside a dispatch there is nothing to keep.
LEMMA KeptIdle ==
    ASSUME LentInv, phase' = "idle", restore' => phase' = "kernel"
    PROVE  KeptInv'
BY DEF KeptInv, FailedDispatchKeepsValues

LEMMA KeptAdmitStep ==
    ASSUME TypeInv, LentInv, AdmitStep
    PROVE  KeptInv'
<1>1. PICK k \in Kernels, ins \in Ids \X Ids, out \in Ids : Begin(k, ins, out)
  BY DEF AdmitStep, AdmitPreAdmitted, AdmitOutput
<1>2. /\ phase' = "expand" /\ ~restore' /\ storage' = storage
      /\ before' = [i \in Ids |-> ValueOf(i)]
  BY <1>1 DEF Begin, LentInv, tableVars
<1>3. \A i \in Ids : AbstractValue'[i] = before'[i]
  BY <1>2, IdleValueNext DEF ValueOf, Held
<1> QED BY <1>2, <1>3 DEF KeptInv, FailedDispatchKeepsValues

\* Expanding all inputs that have to be leaves none of those compact.
LEMMA ExpandedReadable ==
    ASSUME TypeInv, inv \in Invocations, inv' = inv,
           storage' = Expanded({n \in 1..2 : Expands(n)})
    PROVE  OperandsReadable'
<1> SUFFICES ASSUME NEW n \in 1..2, IsCompact(inv.ins[n])', n \notin ReadsCompact(inv.kernel)
             PROVE  FALSE
  BY DEF OperandsReadable
<1>1. inv.ins[n] \in Ids
  BY DEF Invocations
<1>2. CASE \E m \in {m \in 1..2 : Expands(m)} : inv.ins[m] = inv.ins[n]
  <2>1. storage'[inv.ins[n]] = F32(storage[inv.ins[n]].val)
    BY <1>1, <1>2 DEF Expanded
  <2> QED BY <2>1 DEF IsCompact, F32
<1>3. CASE ~ \E m \in {m \in 1..2 : Expands(m)} : inv.ins[m] = inv.ins[n]
  <2>1. storage'[inv.ins[n]] = storage[inv.ins[n]]
    BY <1>1, <1>3 DEF Expanded
  <2>2. Expands(n)
    BY <2>1 DEF Expands, IsCompact, Held
  <2> QED BY <1>3, <2>2
<1> QED BY <1>2, <1>3

\* A dispatch that returns with every value as it was, or succeeds.
LEMMA KeptAtReturn ==
    ASSUME phase' = "settle", ~restore',
           failed' => \A i \in Ids : ValueOf(i)' = before'[i]
    PROVE  KeptInv'
BY DEF KeptInv, FailedDispatchKeepsValues

LEMMA KeptDispatchStep ==
    ASSUME TypeInv, LentInv, KeptInv, DispatchStep
    PROVE  KeptInv'
<1>1. /\ inv \in Invocations /\ inv' = inv /\ before' = before
      /\ inv.out \in Ids /\ inv.ins[1] \in Ids /\ inv.ins[2] \in Ids
      /\ storage \in [Ids -> Buffers \cup {None}]
  <2>1. inv \in Invocations /\ inv' = inv /\ before' = before
    BY DEF DispatchStep, Reject, ExpandInputs, ExpandFails, OfferOutput, KernelSucceeds,
         KernelFailsBeforeTaking, KernelFailsAfterTaking, KvWriteRejected, KvWriteSucceeds,
         KvWriteFails, KernelReturns, KvWriteReturns, WritingKv, TypeInv, DispatchOK
  <2> QED BY <2>1 DEF Invocations, TypeInv, TypeOK
<1>2. CASE Reject
  <2>1. phase = "expand" /\ ~restore /\ ~restore' /\ storage' = storage /\ phase' = "settle"
    BY <1>2 DEF Reject, LentInv, tableVars
  <2>2. \A i \in Ids : ValueOf(i)' = before[i]
    BY <2>1, IdleValue DEF KeptInv, ValueOf, Held
  <2> QED BY <1>1, <2>1, <2>2, KeptAtReturn
<1>3. CASE ExpandInputs
  <2>1. phase = "expand" /\ ~restore /\ ~restore' /\ phase' = "output"
        /\ storage' = Expanded({n \in 1..2 : Expands(n)})
    BY <1>3 DEF ExpandInputs, LentInv
  <2>2. \A i \in Ids : ValueOf(i)' = ValueOf(i)
    BY <1>1, <2>1, ExpandedValue DEF Expands
  <2>3. \A i \in Ids : AbstractValue'[i] = before[i]
    BY <2>1, <2>2, IdleValue, IdleValueNext DEF KeptInv
  <2>4. OperandsReadable'
    BY <1>1, <2>1, ExpandedReadable
  <2> QED BY <1>1, <2>1, <2>3, <2>4 DEF KeptInv, FailedDispatchKeepsValues
<1>4. ASSUME NEW n \in 1..2, ExpandFails(n)
      PROVE  KeptInv'
  <2>1. phase = "expand" /\ ~restore /\ ~restore' /\ phase' = "settle"
    BY <1>4 DEF ExpandFails, LentInv
  <2>2. \A i \in Ids : ValueOf(i)' = ValueOf(i)
    BY <1>1, <1>4, ExpandedValue DEF ExpandFails, Expands
  <2>3. \A i \in Ids : ValueOf(i)' = before[i]
    BY <2>1, <2>2, IdleValue DEF KeptInv
  <2> QED BY <1>1, <2>1, <2>3, KeptAtReturn
<1>5. CASE OfferOutput
  <2>1. /\ phase = "output" /\ phase' = "kernel" /\ ~restore /\ restore' = Offers
        /\ inv.kernel # "kv-write"
    BY <1>5 DEF OfferOutput, LentInv
  <2>2. \A i \in Ids : AbstractValue'[i] = before[i]
    <3>1. CASE Offers
      <4>1. /\ storage' = [storage EXCEPT ![inv.out] = None]
            /\ offered' = storage[inv.out].val
            /\ storage[inv.out] # None
        BY <1>5, <3>1 DEF OfferOutput, Offers, Held
      <4>2. \A i \in Ids : AbstractValue'[i] = AbstractValue[i]
        BY <1>1, <2>1, <3>1, <4>1 DEF AbstractValue, ValueOf, Held
      <4> QED BY <2>1, <4>2 DEF KeptInv
    <3>2. CASE ~Offers
      <4>1. \A i \in Ids : AbstractValue'[i] = AbstractValue[i]
        BY <1>1, <1>5, <2>1, <3>2 DEF OfferOutput, AbstractValue, ValueOf, Held
      <4> QED BY <2>1, <4>1 DEF KeptInv
    <3> QED BY <3>1, <3>2
  <2>3. OperandsReadable'
    <3>1. \A i \in Ids : storage'[i] \in {storage[i], None}
      BY <1>1, <1>5 DEF OfferOutput
    <3>2. OperandsReadable
      BY <2>1 DEF KeptInv
    <3>3. \A n \in 1..2 : IsCompact(inv.ins[n])' => IsCompact(inv.ins[n])
      BY <1>1, <3>1 DEF IsCompact, Held
    <3> QED BY <1>1, <3>2, <3>3 DEF OperandsReadable
  <2>4. restore' => inv.out \notin {inv.ins[1], inv.ins[2]}
    BY <2>1 DEF Offers
  <2> QED BY <1>1, <2>1, <2>2, <2>3, <2>4 DEF KeptInv, FailedDispatchKeepsValues
<1>6. ASSUME NEW v \in Vals, KernelSucceeds(v) \/ KvWriteSucceeds(v)
      PROVE  KeptInv'
  <2>1. CASE KernelSucceeds(v)
    <3>1. phase' = "settle" /\ restore' = FALSE /\ failed' = (~TRUE)
      BY <2>1 DEF KernelSucceeds, KernelReturns
    <3> QED BY <3>1, KeptAtReturn
  <2>2. CASE KvWriteSucceeds(v)
    <3>1. phase = "output" /\ phase' = "settle" /\ restore' = restore /\ failed' = (~TRUE)
      BY <2>2 DEF KvWriteSucceeds, KvWriteReturns, WritingKv
    <3> QED BY <3>1, KeptAtReturn DEF LentInv
  <2> QED BY <1>6, <2>1, <2>2
<1>7. CASE KernelFailsBeforeTaking
  <2>1. phase = "kernel" /\ phase' = "settle" /\ ~restore' /\ storage' = Reclaimed
    BY <1>7 DEF KernelFailsBeforeTaking, KernelReturns
  <2>2. \A i \in Ids : ValueOf(i)' = AbstractValue[i]
    <3>1. CASE ~restore
      BY <2>1, <3>1, IdleValue DEF Reclaimed, ValueOf, Held
    <3>2. CASE restore
      <4>1. offered \in Vals /\ storage' = [storage EXCEPT ![inv.out] = F32(offered)]
        BY <2>1, <3>2 DEF Reclaimed, TypeInv, DispatchOK
      <4>2. F32(offered) # None /\ F32(offered).val = offered
        BY <4>1, F32IsBuffer
      <4> QED BY <1>1, <3>2, <4>1, <4>2 DEF AbstractValue, ValueOf, Held
    <3> QED BY <3>1, <3>2
  <2>3. \A i \in Ids : ValueOf(i)' = before[i]
    BY <2>1, <2>2 DEF KeptInv
  <2> QED BY <1>1, <2>1, <2>3, KeptAtReturn
<1>8. CASE KernelFailsAfterTaking
  <2>1. /\ phase = "kernel" /\ phase' = "settle" /\ ~restore' /\ storage' = storage
        /\ inv.kernel \notin {"add-half", "kv-write"} /\ OperandsHeld
    BY <1>8 DEF KernelFailsAfterTaking, KernelReturns, TakesOffer, KeptInv
  <2>2. OperandsHeld'
    BY <1>1, <2>1 DEF OperandsHeld, Held
  <2>3. ASSUME NEW i \in Ids
        PROVE  ValueOf(i)' = before[i] \/ (i = inv.out /\ ValueOf(i)' = None)
    <3>1. AbstractValue[i] = before[i] /\ ValueOf(i)' = ValueOf(i)
      BY <2>1 DEF KeptInv, ValueOf, Held
    <3>2. CASE restore /\ i = inv.out
      BY <3>1, <3>2 DEF LentInv, ValueOf
    <3>3. CASE ~(restore /\ i = inv.out)
      BY <3>1, <3>3 DEF AbstractValue
    <3> QED BY <3>2, <3>3
  <2> QED BY <1>1, <2>1, <2>2, <2>3 DEF KeptInv, FailedDispatchKeepsValues
<1>9. CASE KvWriteRejected
  <2>1. phase = "output" /\ ~restore /\ ~restore' /\ storage' = storage /\ phase' = "settle"
    BY <1>9 DEF KvWriteRejected, KvWriteReturns, WritingKv, LentInv
  <2>2. \A i \in Ids : ValueOf(i)' = before[i]
    BY <2>1, IdleValue DEF KeptInv, ValueOf, Held
  <2> QED BY <1>1, <2>1, <2>2, KeptAtReturn
<1>10. CASE KvWriteFails
  <2>1. /\ phase = "output" /\ phase' = "settle" /\ ~restore /\ ~restore'
        /\ inv.kernel = "kv-write"
        /\ storage' = [storage EXCEPT ![inv.out] = storage[StoreId]]
    BY <1>10 DEF KvWriteFails, KvWriteReturns, WritingKv, LentInv
  <2>2. \A i \in Ids : ValueOf(i) = before[i]
    BY <2>1, IdleValue DEF KeptInv
  <2>3. StoreId' = StoreId /\ StoreId \in Ids
    BY <1>1 DEF StoreId
  <2>4. \A i \in Ids : ValueOf(i)' = IF i = inv.out THEN before[StoreId] ELSE before[i]
    BY <1>1, <2>1, <2>2, <2>3 DEF ValueOf, Held
  <2> QED BY <1>1, <2>1, <2>3, <2>4 DEF KeptInv, FailedDispatchKeepsValues
<1> QED BY <1>2, <1>3, <1>4, <1>5, <1>6, <1>7, <1>8, <1>9, <1>10 DEF DispatchStep

LEMMA KeptStep ==
    ASSUME TypeInv, LentInv, LentInv', KeptInv, [Next]_vars
    PROVE  KeptInv'
<1>1. CASE UNCHANGED vars
  BY <1>1 DEF vars, tableVars, dispatchVars, KeptInv, FailedDispatchKeepsValues, AbstractValue,
     ValueOf, Held, OperandsReadable, OperandsHeld, IsCompact, StoreId
<1>2. CASE CallerStep \/ HostStep \/ SettleStep \/ \E outs \in SUBSET Ids : AdmissionUndone(outs)
  <2>1. phase' = "idle"
    BY <1>2 DEF CallerStep, HostStep, SettleStep, CallerAdmits, CallerReleases, WriteTensor,
         ReleaseTensor, ReleaseAdmittedTensor, WriteTensorAdmitted, WriteTensorAdmittedFails,
         CopyTensorAdmitted, CopyTensorFromPeerAdmitted, SettleFailed, SettlePreAdmitted,
         SettleAdmitted, SettleIdle, AdmissionUndone, dispatchVars
  <2>2. restore' => phase' = "kernel"
    BY DEF LentInv
  <2> QED BY <2>1, <2>2, KeptIdle
<1> QED BY <1>1, <1>2, KeptAdmitStep, KeptDispatchStep DEF Next

LEMMA KeptAlways == Spec => [](TypeInv /\ LentInv /\ KeptInv)
BY TypeInit, TypeStep, LentInit, LentStep, KeptInit, KeptStep, PTL DEF Spec

\* However a dispatch fails, and whatever its inputs and output have in
\* common, the resources hold what they held, but for the two exceptions the
\* property names.
THEOREM FailureKeepsValues == Spec => []FailedDispatchKeepsValues
<1>1. KeptInv => FailedDispatchKeepsValues
  BY DEF KeptInv
<1> QED BY <1>1, KeptAlways, PTL

\* Lending an output's buffer to a kernel never takes an input from it.
THEOREM InputsFound == Spec => []DispatchFindsItsInputs
<1>1. TypeInv /\ LentInv /\ KeptInv => DispatchFindsItsInputs
  <2> SUFFICES ASSUME TypeInv, LentInv, KeptInv, phase = "kernel", NEW n \in 1..2,
                      before[inv.ins[n]] # None
               PROVE  Held(inv.ins[n])
    BY DEF DispatchFindsItsInputs
  <2>1. inv.ins[n] \in Ids /\ inv.ins[n] \in {inv.ins[1], inv.ins[2]}
    BY DEF TypeInv, DispatchOK, Invocations
  <2>2. AbstractValue[inv.ins[n]] = ValueOf(inv.ins[n])
    BY <2>1 DEF KeptInv, AbstractValue
  <2>3. ValueOf(inv.ins[n]) # None
    BY <2>1, <2>2 DEF KeptInv
  <2> QED BY <2>3 DEF ValueOf
<1> QED BY <1>1, KeptAlways, PTL

\* No kernel is given a compact buffer where it reads f32, whatever inputs
\* the compact one is passed as.
THEOREM CompactReadAsSuch == Spec => []CompactOnlyWhereRead
<1>1. KeptInv => CompactOnlyWhereRead
  BY DEF KeptInv, CompactOnlyWhereRead
<1> QED BY <1>1, KeptAlways, PTL
=============================================================================
