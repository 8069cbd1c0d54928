------------------------------ MODULE Scanner ------------------------------
(***************************************************************************)
(* The boundary scan of the partition_data_displacer_t constructor         *)
(* (input_displacer.cpp:23-95).  For every op of the partition whose kind  *)
(* is a main kind, and for every input slot i of it, the scan walks from   *)
(* the tensor in slot i up through producers, following the first input of *)
(* each go-through op, until it meets a Dequantize whose own input has no  *)
(* producer in the partition: that input tensor is recorded in             *)
(* quantize_displace_ (first record wins, std::unordered_map::emplace).    *)
(*                                                                         *)
(* One action per branch of the loops: the outer loop over dg_->ops_, the  *)
(* loop over the slots and the upward walk.  The map is qd: qd[t] is the   *)
(* record for boundary tensor t, or NoRec.  A record holds the main op,    *)
(* the slot and, as a ghost, the chain of ops the walk went through.       *)
(***************************************************************************)
EXTENDS ScanRules

VARIABLES
    pc,     \* "ops": outer loop, "slot": slot loop, "walk": upward walk, "done"
    k,      \* aop: the op the outer loop is at
    i,      \* the input slot of aop being searched
    lt,     \* the tensor the walk is at
    chain,  \* ghost: the ops the walk has gone through, from aop upwards
    qd      \* quantize_displace_

scanVars == <<pc, k, i, lt, chain, qd>>
vars == <<graphVars, scanVars>>

Rec == [aop : OpIds, slot : Nat \ {0}, chain : Seq(OpIds)]

\* The absent entry of quantize_displace_.
NoRec == [aop |-> NoOp, slot |-> 0, chain |-> <<>>]

\* Seeded fault: operator[] assignment instead of emplace (last record wins).
EmplaceOverwrite(m, key, r) == [m EXCEPT ![key] = r]

\* std::unordered_map::emplace: an existing entry is kept.
Emplace(m, key, r) == IF m[key] = NoRec THEN [m EXCEPT ![key] = r] ELSE m

\* The op producing the tensor the walk is at.
Parent == GetOpByOutLt(lt)

Init ==
    /\ GraphInit
    /\ pc = "ops"
    /\ k = 1
    /\ i = 1
    /\ lt = NoOp
    /\ chain = <<>>
    /\ qd = [t \in TensorIds |-> NoRec]

-----------------------------------------------------------------------------
(* The outer loop over dg_->ops_ in chronological order. *)

\* Ops outside the partition and ops of a non-main kind are skipped.
SkipOp ==
    /\ pc = "ops"
    /\ k \in OpIds
    /\ (~InPartition(k) \/ ops[k].kind \notin MainOpKind)
    /\ k' = k + 1
    /\ UNCHANGED <<graphVars, pc, i, lt, chain, qd>>

EnterOp ==
    /\ pc = "ops"
    /\ k \in OpIds
    /\ InPartition(k)
    /\ ops[k].kind \in MainOpKind
    /\ pc' = "slot"
    /\ i' = 1
    /\ UNCHANGED <<graphVars, k, lt, chain, qd>>

ScanEnd ==
    /\ pc = "ops"
    /\ k = NumOps + 1
    /\ pc' = "done"
    /\ UNCHANGED <<graphVars, k, i, lt, chain, qd>>

(* The loop over the input slots of aop. *)

StartSlot ==
    /\ pc = "slot"
    /\ i <= Len(ops[k].in)
    /\ pc' = "walk"
    /\ lt' = ops[k].in[i]
    /\ chain' = <<>>
    /\ UNCHANGED <<graphVars, k, i, qd>>

EndSlots ==
    /\ pc = "slot"
    /\ i > Len(ops[k].in)
    /\ pc' = "ops"
    /\ k' = k + 1
    /\ UNCHANGED <<graphVars, i, lt, chain, qd>>

(* The upward walk: one action per way an iteration ends. *)

\* break: the tensor is a graph input.
WalkNoProducer ==
    /\ pc = "walk"
    /\ Parent = NoOp
    /\ pc' = "slot"
    /\ i' = i + 1
    /\ UNCHANGED <<graphVars, k, lt, chain, qd>>

\* Seeded fault: the slot is recorded 0-based.
WalkAcceptSlotZero ==
    /\ pc = "walk"
    /\ Parent # NoOp
    /\ ops[Parent].kind = "Dequantize"
    /\ DqAccepted(Parent)
    /\ qd' = Emplace(qd, ops[Parent].in[1],
                     [aop |-> k, slot |-> i - 1, chain |-> Append(chain, Parent)])
    /\ pc' = "slot"
    /\ i' = i + 1
    /\ UNCHANGED <<graphVars, k, lt, chain>>

\* The first accepted Dequantize: record its input and break.
WalkAccept ==
    /\ pc = "walk"
    /\ Parent # NoOp
    /\ ops[Parent].kind = "Dequantize"
    /\ DqAccepted(Parent)
    /\ qd' = Emplace(qd, ops[Parent].in[1],
                     [aop |-> k, slot |-> i, chain |-> Append(chain, Parent)])
    /\ pc' = "slot"
    /\ i' = i + 1
    /\ UNCHANGED <<graphVars, k, lt, chain>>

\* Seeded fault: the walk goes on through any kind of op.
WalkContinueAnyKind ==
    /\ pc = "walk"
    /\ Parent # NoOp
    /\ ~(ops[Parent].kind = "Dequantize" /\ DqAccepted(Parent))
    /\ lt' = ops[Parent].in[1]
    /\ chain' = Append(chain, Parent)
    /\ UNCHANGED <<graphVars, pc, k, i, qd>>

\* A go-through op (a rejected Dequantize included): go on with its first input.
WalkContinue ==
    /\ pc = "walk"
    /\ Parent # NoOp
    /\ ~(ops[Parent].kind = "Dequantize" /\ DqAccepted(Parent))
    /\ ops[Parent].kind \in GoThroughOpKind
    /\ lt' = ops[Parent].in[1]
    /\ chain' = Append(chain, Parent)
    /\ UNCHANGED <<graphVars, pc, k, i, qd>>

\* break: any other kind of producer.
WalkStop ==
    /\ pc = "walk"
    /\ Parent # NoOp
    /\ ops[Parent].kind \notin GoThroughOpKind
    /\ pc' = "slot"
    /\ i' = i + 1
    /\ UNCHANGED <<graphVars, k, lt, chain, qd>>

ScanNext ==
    \/ SkipOp \/ EnterOp \/ ScanEnd
    \/ StartSlot \/ EndSlots
    \/ WalkNoProducer \/ WalkAccept \/ WalkContinue \/ WalkStop

\* The constructor has returned; the displacer object stays as it is.
ScanFinished ==
    /\ pc = "done"
    /\ UNCHANGED vars

Next == ScanNext \/ ScanFinished

Spec == Init /\ [][Next]_vars /\ WF_vars(ScanNext)

-----------------------------------------------------------------------------
(* Properties *)

\* Type invariant of the constructor's state: the loop counters of the scan
\* over dg_->ops_ and in_lts_, the walk's tensor and quantize_displace_.
TypeOK ==
    /\ GraphTypeOK
    /\ pc \in {"ops", "slot", "walk", "done"}
    /\ k \in 1..(NumOps + 1)
    /\ i \in Nat \ {0}
    /\ lt \in TensorIds \cup {NoOp}
    /\ chain \in Seq(OpIds)
    /\ qd \in [TensorIds -> Rec \cup {NoRec}]

\* c is the sequence of producers met walking up from slot s of op a, each
\* reached through the first input of the one before, all of go-through kinds.
ChainWalks(a, s, c) ==
    /\ Len(c) >= 1 => c[1] = GetOpByOutLt(ops[a].in[s])
    /\ \A j \in 1..(Len(c) - 1) : c[j + 1] = GetOpByOutLt(ops[c[j]].in[1])
    /\ \A j \in 1..Len(c) : ops[c[j]].kind \in GoThroughOpKind

(***************************************************************************)
(* Every record of quantize_displace_ is a real discovery of the scan: its *)
(* main op is a main-kind op of the partition, its slot exists, the ops    *)
(* between that slot and the boundary are all go-through ops linked by     *)
(* their first inputs, and the chain ends in an accepted Dequantize whose  *)
(* input is the key (spec section 3, the BoundaryRecord invariant).        *)
(***************************************************************************)
BoundaryChainValid ==
    \A t \in TensorIds : qd[t] # NoRec =>
        LET r == qd[t]
            d == r.chain[Len(r.chain)]
        IN  /\ InPartition(r.aop)
            /\ ops[r.aop].kind \in MainOpKind
            /\ r.slot \in 1..Len(ops[r.aop].in)
            /\ Len(r.chain) >= 1
            /\ ChainWalks(r.aop, r.slot, r.chain)
            /\ ops[d].kind = "Dequantize"
            /\ DqAccepted(d)
            /\ ops[d].in[1] = t

(***************************************************************************)
(* Each step that changes quantize_displace_ is the emplace at the end of *)
(* a walk: it adds one entry, for a tensor that had none, and that tensor *)
(* is the boundary the reference walk reaches from the slot being         *)
(* searched, recorded with that op and slot.  The walk loop's own        *)
(* variables (lt, the kind tests, the acceptance test) agree with the     *)
(* declarative walk Found at the moment of the insert.                    *)
(***************************************************************************)
EmplaceAtWalkEnd ==
    [][\A t \in TensorIds : qd'[t] # qd[t] =>
           /\ qd[t] = NoRec
           /\ Found[ops[k].in[i]] = t
           /\ qd'[t].aop = k
           /\ qd'[t].slot = i]_vars

\* The main kinds as the spec lists them (section 1): subtract included.
SpecMainOpKind == (MainOpKind \ {"Substract"}) \cup {"Subtract"}

(***************************************************************************)
(* Spec: every main compute op, subtract among them, gets quantization-    *)
(* aware data for each input slot that leads to a boundary.  The code's    *)
(* kind set spells the op "Substract", which no graph op is called.        *)
(***************************************************************************)
SpecVocabularyComplete ==
    pc = "done" =>
        \A t \in TensorIds \ {NoTensor} :
            Discoveries(SpecMainOpKind, t) # {} => qd[t] # NoRec

(***************************************************************************)
(* Spec section 4.2 (edge-case policy) and section 9: a Dequantize whose   *)
(* input is produced inside the partition ends the search of that slot,    *)
(* so no recorded chain passes through a Dequantize before its last op.    *)
(***************************************************************************)
RejectedDequantizeEndsSlot ==
    \A t \in TensorIds : qd[t] # NoRec =>
        \A j \in 1..(Len(qd[t].chain) - 1) : ops[qd[t].chain[j]].kind # "Dequantize"

(***************************************************************************)
(* The boundary is an input of the partition: an op of the partition       *)
(* consumes it, so that the driver, which calls displace_input_data once   *)
(* per partition input, asks for it.                                       *)
(***************************************************************************)
BoundaryIsPartitionInput ==
    \A t \in TensorIds : qd[t] # NoRec =>
        \E o \in par : \E j \in 1..Len(ops[o].in) : ops[o].in[j] = t

=============================================================================
