--------------------------- MODULE DisplacerProofs ---------------------------
(***************************************************************************)
(* Proofs about displace_input_data and the driver's calls (Displacer),   *)
(* for every number of ops and graph inputs and every kind and type set.  *)
(***************************************************************************)
EXTENDS Displacer, ScannerProofs

\* The values res->state can take in this part of the test.
ResStates == {"UNTESTED", "INVALID_ARGUMENTS", "SKIPPED", "UNIMPLEMENTED"}

LogRec == [ret : {"none", "OK", "FAIL"}, fill : FillOutcomes \cup {"none"},
           replayed : Seq(OpIds)]

(***************************************************************************)
(* The inductive invariant.  Besides the scanner's IInv and the types, a  *)
(* buffer that holds displaced data belongs to a tensor the driver has    *)
(* already passed, and it was written after the constructor returned: so  *)
(* no later call and no scan step can change its tensor's log entry or    *)
(* its record in quantize_displace_.                                      *)
(***************************************************************************)
DInv ==
    /\ IInv
    /\ pending \subseteq PartitionInputs
    /\ target \in [TensorIds -> DataRec]
    /\ resState \in ResStates
    /\ drv \in {"run", "stopped"}
    /\ log \in [TensorIds -> LogRec]
    /\ ReplayNeverRuns
    /\ \A t \in TensorIds : target[t] # Fill => t \notin pending /\ pc = "done"
    /\ TargetHoldsOwnFilling

-----------------------------------------------------------------------------
(* Facts about the model's operators *)

(***************************************************************************)
(* The reverse loop of displace_input_data visits no op for a partition   *)
(* input: the loop guard asks for a producer inside the partition, and a  *)
(* partition input's producer is empty or outside it.  So the only walk   *)
(* IsReplayChain accepts is the empty one, and ReplayChain chooses it.    *)
(***************************************************************************)
LEMMA ChainEmpty ==
    ASSUME NEW t \in PartitionInputs
    PROVE  ReplayChain[t] = <<>>
<1>1. t \in TensorIds /\ ~InReplay(GetOpByOutLt(t))
  BY DEF PartitionInputs, InReplay
<1>2. <<>> \in OpWalks
  <2>1. <<>> \in [1..0 -> OpIds]
    OBVIOUS
  <2>. QED  BY <2>1, NumOpsAssumption DEF OpWalks
<1>3. IsReplayChain(t, <<>>)
  BY <1>1 DEF IsReplayChain
<1>4. ASSUME NEW c \in OpWalks, IsReplayChain(t, c) PROVE c = <<>>
  <2>1. PICK m \in 0..NumOps : c \in [1..m -> OpIds]
    BY DEF OpWalks
  <2>2. c \in Seq(OpIds) /\ Len(c) = m
    BY <2>1, SeqDef
  <2>3. CASE m = 0
    BY <2>2, <2>3, EmptySeq
  <2>4. CASE m # 0
    <3>1. Len(c) >= 1
      BY <2>2, <2>4
    <3>2. InReplay(c[1]) /\ c[1] = GetOpByOutLt(t)
      BY <1>4, <3>1 DEF IsReplayChain
    <3>. QED  BY <1>1, <3>2
  <2>. QED  BY <2>3, <2>4
<1>. QED  BY <1>1, <1>2, <1>3, <1>4 DEF ReplayChain

\* gen_quantize_filling's element type, for every slot the scan can record,
\* is a tensor's type or s8: dt, s8, or the type of the op's own input.
LEMMA FilledTyped ==
    ASSUME GraphTypeOK, NEW aop \in OpIds, NEW slot \in 1..Len(ops[aop].in),
           NEW dt \in DTypes
    PROVE  FilledType(aop, slot, dt) \in DTypes \cup {"s8"}
<1>1. ops[aop].in[slot] \in TensorIds
  BY InputTyped
<1>2. dtype[ops[aop].in[slot]] \in DTypes
  BY <1>1 DEF GraphTypeOK
<1>3. CASE slot = 1
  <2>1. slot # 2
    BY <1>3
  <2>. QED  BY <1>3, <2>1, Zenon DEF FilledType
<1>4. CASE slot = 2
  <2>1. slot # 1
    BY <1>4
  <2>. QED  BY <1>4, <2>1, Zenon DEF FilledType
<1>5. CASE slot # 1 /\ slot # 2
  BY <1>2, <1>5 DEF FilledType
<1>. QED  BY <1>3, <1>4, <1>5

\* A step of the constructor's scan happens before it returns, and no step
\* of it changes the graph.
LEMMA ScanBeforeDone ==
    ASSUME ScanNext
    PROVE  pc # "done" /\ UNCHANGED graphVars
BY DEF ScanNext, SkipOp, EnterOp, ScanEnd, StartSlot, EndSlots, WalkNoProducer,
       WalkAccept, WalkContinue, WalkStop

-----------------------------------------------------------------------------
(* The inductive invariant *)

\* The driver's own filling and an empty log entry are well typed.
LEMMA FillTyped == Fill \in DataRec /\ NoCall \in LogRec
<1>1. <<>> \in Seq(STRING) /\ <<>> \in Seq(OpIds)
  OBVIOUS
<1>. QED  BY <1>1 DEF Fill, DataRec, NoCall, LogRec, NoOp, FillOutcomes

\* Before the constructor runs, no buffer is displaced and no call is made.
LEMMA DInvInit == DInit => DInv
<1> SUFFICES ASSUME DInit PROVE DInv
  OBVIOUS
<1>1. IInv
  BY IInvInit DEF DInit
<1>2. /\ pending \subseteq PartitionInputs
      /\ target \in [TensorIds -> DataRec]
      /\ resState \in ResStates
      /\ drv \in {"run", "stopped"}
      /\ log \in [TensorIds -> LogRec]
  BY FillTyped DEF DInit, DrvInit, ResStates
<1>3. ReplayNeverRuns
  BY DEF DInit, DrvInit, NoCall, ReplayNeverRuns
<1>4. \A t \in TensorIds : target[t] = Fill
  BY DEF DInit, DrvInit
<1>. QED  BY <1>1, <1>2, <1>3, <1>4 DEF DInv, TargetHoldsOwnFilling

(***************************************************************************)
(* The shape every call of displace_input_data has: the driver passes a   *)
(* pending input t after the constructor returned, the call leaves the    *)
(* displacer object alone, logs a well-typed record whose replay is empty *)
(* and either leaves the buffers alone or writes t's buffer with data     *)
(* made for t's own record, after a ready filling and an OK return.       *)
(***************************************************************************)
LEMMA CallKeeps ==
    ASSUME DInv, NEW t \in TensorIds, NEW rec \in LogRec, NEW d,
           CanCall(t),
           UNCHANGED vars,
           pending' = pending \ {t},
           log' = [log EXCEPT ![t] = rec],
           rec.replayed = <<>>,
           resState' \in ResStates,
           drv' \in {"run", "stopped"},
           \/ target' = target
           \/ /\ target' = [target EXCEPT ![t] = d]
              /\ d \in DataRec
              /\ qd[t] # NoRec
              /\ rec.ret = "OK" /\ rec.fill = "ready"
              /\ d.aop = qd[t].aop /\ d.slot = qd[t].slot
    PROVE  DInv'
<1>1. IInv'
  BY IInvStep DEF DInv
<1>2. PartitionInputs' = PartitionInputs /\ qd' = qd /\ pc' = pc
  BY DEF vars, graphVars, scanVars, PartitionInputs, InPartition, GetOpByOutLt
<1>3. pc = "done" /\ t \in pending /\ target[t] = Fill
  BY DEF CanCall, DInv
<1>4. /\ pending' \subseteq PartitionInputs'
      /\ log' \in [TensorIds -> LogRec]
      /\ ReplayNeverRuns'
  BY <1>2 DEF DInv, ReplayNeverRuns
<1>5. CASE target' = target
  <2>1. \A u \in TensorIds : target'[u] # Fill => u \notin pending' /\ pc' = "done"
    BY <1>2, <1>3, <1>5 DEF DInv
  <2>2. TargetHoldsOwnFilling'
    BY <1>2, <1>3, <1>5 DEF DInv, TargetHoldsOwnFilling
  <2>. QED  BY <1>1, <1>4, <1>5, <2>1, <2>2 DEF DInv
<1>6. CASE target' # target
  <2>1. /\ target' = [target EXCEPT ![t] = d]
        /\ d \in DataRec
        /\ qd[t] # NoRec
        /\ rec.ret = "OK" /\ rec.fill = "ready"
        /\ d.aop = qd[t].aop /\ d.slot = qd[t].slot
    BY <1>6
  <2>2. target' \in [TensorIds -> DataRec]
    BY <2>1 DEF DInv
  <2>3. \A u \in TensorIds : target'[u] # Fill => u \notin pending' /\ pc' = "done"
    BY <1>2, <1>3, <2>1 DEF DInv
  <2>4. TargetHoldsOwnFilling'
    BY <1>2, <1>3, <2>1 DEF DInv, TargetHoldsOwnFilling
  <2>. QED  BY <1>1, <1>4, <2>2, <2>3, <2>4 DEF DInv
<1>. QED  BY <1>5, <1>6

\* What every call may rely on: its input is a partition input whose replay
\* chain is empty, and the graph is well formed.
LEMMA CallContext ==
    ASSUME DInv, NEW t \in TensorIds, CanCall(t)
    PROVE  /\ GraphTypeOK
           /\ t \in PartitionInputs
           /\ ReplayChain[t] = <<>>
<1>1. t \in PartitionInputs
  BY DEF CanCall, DInv
<1>. QED  BY <1>1, ChainEmpty DEF DInv, IInv, TypeInv, TypeOK

(***************************************************************************)
(* A call that writes the buffer writes well-typed data: the record's     *)
(* main op and slot exist (BoundaryChainValid), the filled type is a      *)
(* tensor's type or s8, and no inverted op is appended.                   *)
(***************************************************************************)
LEMMA DisplacedTyped ==
    ASSUME DInv, NEW t \in TensorIds, CanCall(t), qd[t] # NoRec
    PROVE  Displaced(t) \in DataRec
<1>1. GraphTypeOK /\ ReplayChain[t] = <<>>
  BY CallContext
<1>2. /\ qd[t] \in Rec
      /\ qd[t].slot \in 1..Len(ops[qd[t].aop].in)
      /\ dtype[t] \in DTypes
  BY DEF DInv, IInv, TypeInv, TypeOK, BoundaryChainValid, GraphTypeOK
<1>3. FilledType(qd[t].aop, qd[t].slot, dtype[t]) \in DTypes \cup {"s8"}
  BY <1>1, <1>2, FilledTyped DEF Rec
<1>4. [j \in 1..Len(ReplayChain[t]) |-> Reversed(ops[ReplayChain[t][j]].kind)]
        \in Seq(STRING)
  <2>1. 1..Len(ReplayChain[t]) = {}
    BY <1>1
  <2>. QED  BY <2>1, EmptySeq
<1>. QED  BY <1>2, <1>3, <1>4 DEF Displaced, DataRec, Rec

\* Each step of the scan and of the driver keeps the inductive invariant.
LEMMA DInvStep == DInv /\ [DNext]_allVars => DInv'
<1> SUFFICES ASSUME DInv, [DNext]_allVars PROVE DInv'
  OBVIOUS
<1>1. CASE UNCHANGED allVars \/ DrvFinished
  <2>1. UNCHANGED allVars
    BY <1>1 DEF DrvFinished
  <2>2. IInv'
    BY <2>1, IInvStep DEF DInv, allVars
  <2>3. PartitionInputs' = PartitionInputs
    BY <2>1 DEF allVars, vars, graphVars, PartitionInputs, InPartition, GetOpByOutLt
  <2>. QED
    BY <2>1, <2>2, <2>3 DEF DInv, allVars, drvVars, vars, scanVars,
                            ReplayNeverRuns, TargetHoldsOwnFilling
<1>2. CASE ScanNext /\ UNCHANGED drvVars
  <2>1. pc # "done" /\ UNCHANGED graphVars
    BY <1>2, ScanBeforeDone
  <2>2. IInv'
    BY <1>2, IInvStep DEF DInv, Next
  <2>3. PartitionInputs' = PartitionInputs
    BY <2>1 DEF graphVars, PartitionInputs, InPartition, GetOpByOutLt
  <2>4. \A t \in TensorIds : target[t] = Fill
    BY <2>1 DEF DInv
  <2>. QED
    BY <1>2, <2>2, <2>3, <2>4 DEF DInv, drvVars, ReplayNeverRuns,
                                  TargetHoldsOwnFilling
<1>3. ASSUME NEW t \in TensorIds, DisplaceAbsent(t) PROVE DInv'
  <2>1. [NoCall EXCEPT !.ret = "OK"] \in LogRec
    BY FillTyped DEF NoCall, LogRec
  <2>. QED  BY <1>3, <2>1, CallKeeps DEF DisplaceAbsent, Called, NoCall, DInv
<1>4. ASSUME NEW t \in TensorIds, DisplaceFillFailed(t) PROVE DInv'
  <2>1. PICK o \in {"invalid", "fail"} :
             /\ resState' = FillState(o)
             /\ Called(t, [ret |-> "FAIL", fill |-> o, replayed |-> <<>>])
    BY <1>4 DEF DisplaceFillFailed
  <2>2. FillState(o) \in ResStates
    BY DEF FillState, DInv, ResStates
  <2>3. [ret |-> "FAIL", fill |-> o, replayed |-> <<>>] \in LogRec
    BY FillTyped DEF LogRec, FillOutcomes
  <2>. QED  BY <1>4, <2>1, <2>2, <2>3, CallKeeps DEF DisplaceFillFailed, Called
<1>5. ASSUME NEW t \in TensorIds, DisplaceSkipped(t) PROVE DInv'
  <2>1. PICK o \in FillOutcomes \ {"invalid", "fail"} :
             /\ FillState(o) \in SkipStates
             /\ resState' = FillState(o)
             /\ Called(t, [ret |-> "OK", fill |-> o, replayed |-> <<>>])
    BY <1>5 DEF DisplaceSkipped
  <2>2. [ret |-> "OK", fill |-> o, replayed |-> <<>>] \in LogRec
    BY FillTyped DEF LogRec, FillOutcomes
  <2>. QED
    BY <1>5, <2>1, <2>2, CallKeeps DEF DisplaceSkipped, Called, SkipStates,
                                       ResStates, DInv
<1>6. ASSUME NEW t \in TensorIds, DisplaceReplayFailed(t) PROVE DInv'
  <2>1. ReplayChain[t] = <<>>
    BY <1>6, CallContext DEF DisplaceReplayFailed
  <2>2. [ret |-> "FAIL", fill |-> "ready", replayed |-> ReplayChain[t]] \in LogRec
    BY <2>1, FillTyped DEF LogRec, FillOutcomes
  <2>. QED
    BY <1>6, <2>1, <2>2, CallKeeps DEF DisplaceReplayFailed, Called, DInv
<1>7. ASSUME NEW t \in TensorIds, DisplaceWritten(t) PROVE DInv'
  <2>1. ReplayChain[t] = <<>> /\ Displaced(t) \in DataRec
    BY <1>7, CallContext, DisplacedTyped DEF DisplaceWritten
  <2>2. [ret |-> "OK", fill |-> "ready", replayed |-> ReplayChain[t]] \in LogRec
    BY <2>1, FillTyped DEF LogRec, FillOutcomes
  <2>3. Displaced(t).aop = qd[t].aop /\ Displaced(t).slot = qd[t].slot
    BY DEF Displaced
  <2>. QED
    BY <1>7, <2>1, <2>2, <2>3, CallKeeps DEF DisplaceWritten, Called, DInv
<1>. QED  BY <1>1, <1>2, <1>3, <1>4, <1>5, <1>6, <1>7 DEF DNext, DrvNext

-----------------------------------------------------------------------------
(* Theorems *)

\* The whole run of the invariant: the constructor's scan, then the calls.
LEMMA DInvHolds == DSpec => []DInv
BY DInvInit, DInvStep, PTL DEF DSpec

(***************************************************************************)
(* Through the constructor's scan and any sequence of displace_input_data *)
(* calls, the buffers, res->state and the calls' log stay well typed, and *)
(* the driver passes only partition inputs.                               *)
(***************************************************************************)
THEOREM DisplacerTypeCorrect == DSpec => []DTypeOK
<1>1. DInv => DTypeOK
  BY DEF DInv, IInv, TypeInv, DTypeOK, ResStates, LogRec
<1>. QED  BY <1>1, DInvHolds, PTL

(***************************************************************************)
(* For every graph and partition and every answer of the backend, a       *)
(* caller's buffer holds displaced data only if that call of              *)
(* displace_input_data found its tensor in quantize_displace_, had a      *)
(* ready filling and returned OK, and the data was made for the recorded  *)
(* main op and slot: the early return on SKIPPED/UNIMPLEMENTED keeps the  *)
(* buffer, and no call writes another tensor's buffer.                    *)
(***************************************************************************)
THEOREM OwnFillingHolds == DSpec => []TargetHoldsOwnFilling
<1>1. DInv => TargetHoldsOwnFilling
  BY DEF DInv
<1>. QED  BY <1>1, DInvHolds, PTL

(***************************************************************************)
(* For every graph and partition, the reverse loop of displace_input_data *)
(* never executes an inverted op: every tensor the driver passes is a     *)
(* partition input, whose producer fails the loop guard (ChainEmpty).     *)
(***************************************************************************)
THEOREM ReplayNeverRunsHolds == DSpec => []ReplayNeverRuns
<1>1. DInv => ReplayNeverRuns
  BY DEF DInv
<1>. QED  BY <1>1, DInvHolds, PTL

=============================================================================
