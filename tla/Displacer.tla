----------------------------- MODULE Displacer -----------------------------
(***************************************************************************)
(* partition_data_displacer_t::displace_input_data and                     *)
(* gen_quantize_filling (input_displacer.cpp:97-239), composed with the    *)
(* constructor's scan (Scanner).  After the scan the test driver calls     *)
(* displace_input_data once for each input tensor of the partition, one    *)
(* call at a time, passing the same res_t each time; a call that returns   *)
(* FAIL ends the driver's loop.  Each call is one step: the code has no    *)
(* suspension point, and the reference backend it calls is synchronous.    *)
(*                                                                         *)
(* Data is abstracted to where it came from: the filling generated for     *)
(* (main op, slot) at a data type, and the inverted ops replayed on it.    *)
(* The backend's answers are nondeterministic: for the filling, the first  *)
(* non-ready answer of init_prb, init_prim and init_ref_memory_args; for   *)
(* the replay, whether its steps execute; for the reorder, whether it      *)
(* succeeds.                                                               *)
(***************************************************************************)
EXTENDS Scanner

VARIABLES
    pending,   \* partition inputs the driver has not passed yet
    target,    \* target[t]: contents of the caller's dnn_mem_t for input t
    resState,  \* res->state, shared by all calls
    drv,       \* "run", or "stopped" once a call returned FAIL
    log        \* ghost: what each call saw and returned

drvVars == <<pending, target, resState, drv, log>>
allVars == <<vars, drvVars>>

\* The driver's own filling of a buffer, left as it is when nothing is displaced.
Fill == [aop |-> NoOp, slot |-> 0, dt |-> "none", steps |-> <<>>]

\* The answers of the reference backend while the filling op is prepared.
FillOutcomes == {"ready", "invalid", "fail", "skip", "unimpl"}

NoCall == [ret |-> "none", fill |-> "none", replayed |-> <<>>]

PartitionInputs ==
    { t \in TensorIds :
        /\ \E o \in par : \E j \in 1..Len(ops[o].in) : ops[o].in[j] = t
        /\ ~InPartition(GetOpByOutLt(t)) }

(***************************************************************************)
(* gen_quantize_filling: the element type of the filled argument.  The     *)
(* cloned op gets dt on input 0; input 1 gets dt too, except that u8 is    *)
(* replaced by s8 for MatMul, Convolution and ConvTranspose; other inputs  *)
(* keep their type.  (Slots are 1-based here.)                             *)
(***************************************************************************)
FilledType(aop, slot, dt) ==
    CASE slot = 1 -> dt
      [] slot = 2 -> IF ops[aop].kind \in {"MatMul", "Convolution", "ConvTranspose"}
                        /\ dt = "u8"
                     THEN "s8" ELSE dt
      [] OTHER    -> dtype[ops[aop].in[slot]]

\* res->state after the filling op is prepared with the given answer.
FillState(o) ==
    CASE o = "invalid" -> "INVALID_ARGUMENTS"
      [] o = "skip"    -> "SKIPPED"
      [] o = "unimpl"  -> "UNIMPLEMENTED"
      [] OTHER         -> resState

SkipStates == {"SKIPPED", "UNIMPLEMENTED"}

(***************************************************************************)
(* The reverse loop: from the boundary tensor, each producer in the        *)
(* partition in turn, following the first input (after the swap of in and *)
(* out tensors, the new output).                                           *)
(***************************************************************************)
\* Seeded fault: the loop guard lost its partition test.
InReplayAnyProducer(p) == p # NoOp

\* The guard of the reverse loop: the producer exists and is in the partition.
InReplay(p) == p # NoOp /\ InPartition(p)

\* The op sequences the loop may visit: each visit moves to an earlier op,
\* so no walk is longer than the graph.
OpWalks == UNION { [1..m -> OpIds] : m \in 0..NumOps }

(***************************************************************************)
(* c is the sequence of ops the reverse loop visits from tensor t: it      *)
(* starts at t's producer, goes on from each op to the producer of its     *)
(* first input (tensor = op.out_lts_[0] after the swap), every op it       *)
(* visits passes the loop guard, and the guard fails where it stops.       *)
(***************************************************************************)
IsReplayChain(t, c) ==
    /\ \A j \in 1..Len(c) : InReplay(c[j])
    /\ Len(c) >= 1 => c[1] = GetOpByOutLt(t)
    /\ \A j \in 1..(Len(c) - 1) : c[j + 1] = GetOpByOutLt(ops[c[j]].in[1])
    /\ ~InReplay(GetOpByOutLt(IF c = <<>> THEN t ELSE ops[c[Len(c)]].in[1]))

ReplayChain == [t \in TensorIds |-> CHOOSE c \in OpWalks : IsReplayChain(t, c)]

\* The switch on the op kind: the kind of the inverted op.
Reversed(kd) ==
    CASE kd = "Quantize"   -> "Dequantize"
      [] kd = "Dequantize" -> "Quantize"
      [] OTHER             -> kd

ReversibleKinds == {"Quantize", "Dequantize", "StaticTranspose", "TypeCast", "StaticReshape"}

\* What the replay can end in: "ok", "fail" (a backend step failed) or
\* "assert" (default: of the switch).
ReplayOutcomes(t) ==
    LET c == ReplayChain[t]
    IN  IF \E j \in 1..Len(c) : ops[c[j]].kind \notin ReversibleKinds THEN {"assert"}
        ELSE IF c = <<>> THEN {"ok"} ELSE {"ok", "fail"}

\* Seeded fault: the data is tagged with the scan's loop variable instead of
\* the recorded main op.
DisplacedStaleOp(t) ==
    LET r == qd[t]
        c == ReplayChain[t]
    IN  [aop |-> k, slot |-> r.slot, dt |-> FilledType(r.aop, r.slot, dtype[t]),
         steps |-> [j \in 1..Len(c) |-> Reversed(ops[c[j]].kind)]]

\* The data landed in the target: the filling, then each inverted op.
Displaced(t) ==
    LET r == qd[t]
        c == ReplayChain[t]
    IN  [aop |-> r.aop, slot |-> r.slot, dt |-> FilledType(r.aop, r.slot, dtype[t]),
         steps |-> [j \in 1..Len(c) |-> Reversed(ops[c[j]].kind)]]

DrvInit ==
    /\ pending = PartitionInputs
    /\ target = [t \in TensorIds |-> Fill]
    /\ resState = "UNTESTED"
    /\ drv = "run"
    /\ log = [t \in TensorIds |-> NoCall]

DInit == Init /\ DrvInit

\* A call may be made once the constructor has returned.
CanCall(t) == pc = "done" /\ drv = "run" /\ t \in pending

Called(t, rec) ==
    /\ pending' = pending \ {t}
    /\ log' = [log EXCEPT ![t] = rec]

-----------------------------------------------------------------------------
(* displace_input_data(lt_id, mem, res) *)

\* No entry in quantize_displace_: return OK, the buffer is untouched.
DisplaceAbsent(t) ==
    /\ CanCall(t)
    /\ qd[t] = NoRec
    /\ Called(t, [NoCall EXCEPT !.ret = "OK"])
    /\ UNCHANGED <<vars, target, resState, drv>>

\* gen_quantize_filling returns FAIL (invalid arguments or init_prim
\* failed): SAFE(..., WARN) returns FAIL and the driver stops.
DisplaceFillFailed(t) ==
    /\ CanCall(t)
    /\ qd[t] # NoRec
    /\ \E o \in {"invalid", "fail"} :
        /\ resState' = FillState(o)
        /\ Called(t, [ret |-> "FAIL", fill |-> o, replayed |-> <<>>])
    /\ drv' = "stopped"
    /\ UNCHANGED <<vars, target>>

\* Seeded fault: no early return on SKIPPED/UNIMPLEMENTED; the empty
\* buffer is reordered into the target.
DisplaceSkippedWrites(t) ==
    /\ CanCall(t)
    /\ qd[t] # NoRec
    /\ \E o \in FillOutcomes \ {"invalid", "fail"} :
        /\ FillState(o) \in SkipStates
        /\ resState' = FillState(o)
        /\ Called(t, [ret |-> "OK", fill |-> o, replayed |-> <<>>])
    /\ target' = [target EXCEPT ![t] = Displaced(t)]
    /\ UNCHANGED <<vars, drv>>

\* res->state is SKIPPED or UNIMPLEMENTED after the filling: return OK with
\* the buffer untouched.  The state may come from this call's filling or be
\* left over from an earlier call.
DisplaceSkipped(t) ==
    /\ CanCall(t)
    /\ qd[t] # NoRec
    /\ \E o \in FillOutcomes \ {"invalid", "fail"} :
        /\ FillState(o) \in SkipStates
        /\ resState' = FillState(o)
        /\ Called(t, [ret |-> "OK", fill |-> o, replayed |-> <<>>])
    /\ UNCHANGED <<vars, target, drv>>

\* The filling is ready; the reverse loop or the final reorder fails.
DisplaceReplayFailed(t) ==
    /\ CanCall(t)
    /\ qd[t] # NoRec
    /\ resState \notin SkipStates
    /\ \E res \in ReplayOutcomes(t) \cup {"reorder_fail"} :
        /\ res # "ok"
        /\ Called(t, [ret |-> "FAIL", fill |-> "ready", replayed |-> ReplayChain[t]])
    /\ drv' = "stopped"
    /\ UNCHANGED <<vars, target, resState>>

\* The filling is ready, the reverse loop and the reorder succeed: the
\* target holds the displaced data.
DisplaceWritten(t) ==
    /\ CanCall(t)
    /\ qd[t] # NoRec
    /\ resState \notin SkipStates
    /\ "ok" \in ReplayOutcomes(t)
    /\ target' = [target EXCEPT ![t] = Displaced(t)]
    /\ Called(t, [ret |-> "OK", fill |-> "ready", replayed |-> ReplayChain[t]])
    /\ UNCHANGED <<vars, resState, drv>>

DrvNext ==
    \E t \in TensorIds :
        \/ DisplaceAbsent(t)
        \/ DisplaceFillFailed(t)
        \/ DisplaceSkipped(t)
        \/ DisplaceReplayFailed(t)
        \/ DisplaceWritten(t)

\* Every input passed, or a call failed: the driver is done with the partition.
DrvFinished ==
    /\ pc = "done"
    /\ (pending = {} \/ drv = "stopped")
    /\ UNCHANGED allVars

DNext ==
    \/ ScanNext /\ UNCHANGED drvVars
    \/ DrvNext
    \/ DrvFinished

DSpec == DInit /\ [][DNext]_allVars /\ WF_allVars(ScanNext /\ UNCHANGED drvVars) /\ WF_allVars(DrvNext)

-----------------------------------------------------------------------------
(* Properties *)

\* A buffer's contents: the driver's own filling, or a filling generated at a
\* tensor's type or at s8 (the u8s8 replacement of gen_quantize_filling).
DataRec == [aop : OpIds \cup {NoOp}, slot : Nat, dt : DTypes \cup {"s8", "none"},
            steps : Seq(STRING)]

\* Type invariant of the scan and of the driver's calls to
\* displace_input_data: buffers, the shared res->state and the calls' log.
DTypeOK ==
    /\ TypeOK
    /\ pending \subseteq PartitionInputs
    /\ target \in [TensorIds -> DataRec]
    /\ resState \in {"UNTESTED", "INVALID_ARGUMENTS", "SKIPPED", "UNIMPLEMENTED"}
    /\ drv \in {"run", "stopped"}
    /\ log \in [TensorIds -> [ret : {"none", "OK", "FAIL"},
                               fill : FillOutcomes \cup {"none"},
                               replayed : Seq(OpIds)]]

(***************************************************************************)
(* A caller's buffer holds displaced data only when that very call found   *)
(* its tensor in quantize_displace_ and its own filling was ready, and the *)
(* data is the filling generated for the recorded main op and slot: a      *)
(* skipped, unimplemented or absent filling never reaches the buffer, and  *)
(* no call writes data meant for another tensor (spec section 8).          *)
(***************************************************************************)
TargetHoldsOwnFilling ==
    \A t \in TensorIds : target[t] # Fill =>
        /\ qd[t] # NoRec
        /\ log[t].ret = "OK"
        /\ log[t].fill = "ready"
        /\ target[t].aop = qd[t].aop
        /\ target[t].slot = qd[t].slot

(***************************************************************************)
(* The reverse loop of displace_input_data never executes an inverted op.  *)
(* Its guard asks for a producer inside the partition, but the tensor it   *)
(* starts from is both a boundary (the scan accepted it because its        *)
(* producer is empty or outside the partition) and an input of the         *)
(* partition (the only tensors the driver passes): on either count the     *)
(* guard is false on entry.                                                *)
(***************************************************************************)
ReplayNeverRuns ==
    \A t \in TensorIds : log[t].replayed = <<>>

(***************************************************************************)
(* Spec section 4.3 step 4: the data is synthesized at the boundary        *)
(* tensor's element type.                                                  *)
(***************************************************************************)
FilledAtBoundaryType ==
    \A t \in TensorIds : target[t] # Fill => target[t].dt = dtype[t]

(***************************************************************************)
(* Spec section 5: each call is independent of the others given the map:   *)
(* a call whose own filling was ready and that returned OK has written its *)
(* buffer.                                                                 *)
(***************************************************************************)
CallsIndependent ==
    \A t \in TensorIds :
        (log[t].ret = "OK" /\ log[t].fill = "ready") => target[t] # Fill

=============================================================================
