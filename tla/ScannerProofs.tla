--------------------------- MODULE ScannerProofs ---------------------------
(***************************************************************************)
(* Proofs about the boundary scan (Scanner), for every number of ops and   *)
(* of graph inputs and every set of kinds and element types.              *)
(***************************************************************************)
EXTENDS Scanner, SequenceTheorems, TLAPS

(***************************************************************************)
(* The control facts the loops keep: inside the slot loop and the walk, k  *)
(* is a main-kind op of the partition, and during a walk i is one of its   *)
(* slots.  TypeOK alone is not inductive because StartSlot and the walk    *)
(* read ops[k].in[i].                                                      *)
(***************************************************************************)
PcInv ==
    /\ pc \in {"slot", "walk"} => /\ k \in OpIds
                                  /\ InPartition(k)
                                  /\ ops[k].kind \in MainOpKind
    /\ pc = "walk" => i \in 1..Len(ops[k].in)

TypeInv == TypeOK /\ PcInv

(***************************************************************************)
(* During a walk, the ghost chain is the walk so far and lt is the first   *)
(* input of its last op (or the slot's tensor when the chain is empty).    *)
(***************************************************************************)
WalkInv ==
    pc = "walk" =>
        /\ ChainWalks(k, i, chain)
        /\ chain = <<>> => lt = ops[k].in[i]
        /\ chain # <<>> => lt = ops[chain[Len(chain)]].in[1]

IInv == TypeInv /\ WalkInv /\ BoundaryChainValid

\* The body of BoundaryChainValid for one record r at key t.
ValidRec(t, r) ==
    LET d == r.chain[Len(r.chain)]
    IN  /\ InPartition(r.aop)
        /\ ops[r.aop].kind \in MainOpKind
        /\ r.slot \in 1..Len(ops[r.aop].in)
        /\ Len(r.chain) >= 1
        /\ ChainWalks(r.aop, r.slot, r.chain)
        /\ ops[d].kind = "Dequantize"
        /\ DqAccepted(d)
        /\ ops[d].in[1] = t

-----------------------------------------------------------------------------
(* Facts about the graph. *)

\* Every op kind has at least one input (in_lts_[0] exists), and none has
\* more than MaxSlots (a MatMul with its bias).
LEMMA ArityPositive ==
    ASSUME NEW kd, NEW n \in Arities(kd)
    PROVE  n \in 1..MaxSlots
BY DEF Arities, MaxSlots

\* A graph Init chooses is typed: a function of [1..n -> S] is a sequence.
LEMMA SmallOpRecTyped == SmallOpRec \subseteq OpRec
<1> SUFFICES ASSUME NEW r \in SmallOpRec PROVE r \in OpRec
  OBVIOUS
<1>0. PICK kd \in Kinds : r \in [kind : {kd}, in : UNION {[1..m -> TensorIds] : m \in Arities(kd)}]
  BY DEF SmallOpRec
<1>1. PICK n \in Arities(kd) : r \in [kind : {kd}, in : [1..n -> TensorIds]]
  BY <1>0
<1>2. n \in Nat
  BY ArityPositive
<1>3. r.in \in Seq(TensorIds)
  BY <1>1, <1>2, SeqDef
<1>4. QED
  BY <1>1, <1>3 DEF OpRec

\* Every input of an op, in particular its first, is a tensor id.
LEMMA InputTyped ==
    ASSUME GraphTypeOK, NEW o \in OpIds, NEW j \in 1..Len(ops[o].in)
    PROVE  ops[o].in[j] \in TensorIds
BY NumOpsAssumption, NumExtAssumption DEF GraphTypeOK, WellFormed, Avail, TensorIds, ExtIds, OpIds

\* The first input of any op, which the walk follows, exists.
LEMMA FirstInputExists ==
    ASSUME GraphTypeOK, NEW o \in OpIds
    PROVE  1 \in 1..Len(ops[o].in)
BY ArityPositive DEF GraphTypeOK, WellFormed, MaxSlots

-----------------------------------------------------------------------------
(* Type correctness *)

\* The constructor starts in a typed state.
LEMMA TypeInvInit == Init => TypeInv
<1> SUFFICES ASSUME Init PROVE TypeInv
  OBVIOUS
<1>1. GraphTypeOK
  BY SmallOpRecTyped DEF Init, GraphInit, GraphTypeOK
<1>2. qd \in [TensorIds -> Rec \cup {NoRec}]
  BY DEF Init
<1>3. QED
  BY <1>1, <1>2, NumOpsAssumption DEF Init, TypeInv, TypeOK, PcInv, OpIds

\* Each step of the constructor's loops keeps the state typed.
LEMMA TypeInvStep == TypeInv /\ [Next]_vars => TypeInv'
<1> SUFFICES ASSUME TypeInv, [Next]_vars PROVE TypeInv'
  OBVIOUS
<1> USE NumOpsAssumption, NumExtAssumption
<1>0. GraphTypeOK /\ GraphTypeOK'
  BY DEF TypeInv, TypeOK, Next, ScanNext, ScanFinished, vars, graphVars,
         SkipOp, EnterOp, ScanEnd, StartSlot, EndSlots, WalkNoProducer,
         WalkAccept, WalkContinue, WalkStop, GraphTypeOK, WellFormed, Avail
<1>1. CASE SkipOp
  BY <1>0, <1>1 DEF SkipOp, TypeInv, TypeOK, PcInv, OpIds
<1>2. CASE EnterOp
  BY <1>0, <1>2 DEF EnterOp, graphVars, InPartition, TypeInv, TypeOK, PcInv, OpIds
<1>3. CASE ScanEnd
  BY <1>0, <1>3 DEF ScanEnd, graphVars, InPartition, TypeInv, TypeOK, PcInv
<1>4. CASE StartSlot
  <2>1. ops[k].in[i] \in TensorIds
    BY <1>0, <1>4, InputTyped DEF StartSlot, graphVars, InPartition, TypeInv, TypeOK, PcInv
  <2>2. QED
    BY <1>0, <1>4, <2>1 DEF StartSlot, graphVars, InPartition, TypeInv, TypeOK, PcInv
<1>5. CASE EndSlots
  BY <1>0, <1>5 DEF EndSlots, graphVars, InPartition, TypeInv, TypeOK, PcInv, OpIds
<1>6. CASE WalkNoProducer
  BY <1>0, <1>6 DEF WalkNoProducer, graphVars, InPartition, TypeInv, TypeOK, PcInv
<1>7. CASE WalkAccept
  <2> DEFINE P == Parent
             r == [aop |-> k, slot |-> i, chain |-> Append(chain, P)]
  <2>1. P \in OpIds
    BY <1>0, <1>7 DEF WalkAccept, Parent, GetOpByOutLt
  <2>2. r \in Rec
    BY <1>7, <2>1, AppendProperties DEF TypeInv, TypeOK, PcInv, Rec, WalkAccept
  <2>3. ops[P].in[1] \in TensorIds
    BY <1>0, <2>1, InputTyped, FirstInputExists
  <2>4. qd' \in [TensorIds -> Rec \cup {NoRec}]
    BY <1>0, <1>7, <2>2, <2>3 DEF WalkAccept, Emplace, TypeInv, TypeOK
  <2>5. /\ pc = "walk" /\ pc' = "slot" /\ i' = i + 1
        /\ UNCHANGED <<ops, par, k, lt, chain>>
    BY <1>7 DEF WalkAccept, graphVars
  <2>6. QED
    BY <1>0, <2>4, <2>5 DEF InPartition, TypeInv, TypeOK, PcInv
<1>8. CASE WalkContinue
  <2>1. Parent \in OpIds
    BY <1>0, <1>8 DEF WalkContinue, Parent, GetOpByOutLt
  <2>2. ops[Parent].in[1] \in TensorIds
    BY <1>0, <2>1, InputTyped, FirstInputExists
  <2>3. chain' \in Seq(OpIds)
    BY <1>0, <1>8, <2>1, AppendProperties DEF WalkContinue, graphVars, InPartition, TypeInv, TypeOK
  <2>4. QED
    BY <1>0, <1>8, <2>2, <2>3 DEF WalkContinue, graphVars, InPartition, TypeInv, TypeOK, PcInv
<1>9. CASE WalkStop
  BY <1>0, <1>9 DEF WalkStop, graphVars, InPartition, TypeInv, TypeOK, PcInv
<1>10. CASE ScanFinished \/ UNCHANGED vars
  BY <1>0, <1>10 DEF ScanFinished, vars, graphVars, scanVars, TypeInv, TypeOK, PcInv, InPartition
<1>11. QED
  BY <1>1, <1>2, <1>3, <1>4, <1>5, <1>6, <1>7, <1>8, <1>9, <1>10 DEF Next, ScanNext

(***************************************************************************)
(* The constructor's scan keeps every variable in its type, for every     *)
(* graph size: its loop counters, the walk's tensor and the entries of    *)
(* quantize_displace_.                                                     *)
(***************************************************************************)
THEOREM TypeCorrect == Spec => []TypeOK
<1>1. Init => TypeInv
  BY TypeInvInit
<1>2. TypeInv /\ [Next]_vars => TypeInv'
  BY TypeInvStep
<1>3. TypeInv => TypeOK
  BY DEF TypeInv
<1>4. QED
  BY <1>1, <1>2, <1>3, PTL DEF Spec

-----------------------------------------------------------------------------
(* The boundary records are real discoveries *)

\* BoundaryChainValid states ValidRec of every present entry.
LEMMA ValidRecForm ==
    BoundaryChainValid <=> \A t \in TensorIds : qd[t] # NoRec => ValidRec(t, qd[t])
BY DEF BoundaryChainValid, ValidRec

(***************************************************************************)
(* One more step of the walk: appending the producer p of the tensor the   *)
(* walk is at, if p is a go-through op, gives a chain that still walks.    *)
(***************************************************************************)
LEMMA ChainExtend ==
    ASSUME GraphTypeOK,
           NEW a \in OpIds, NEW s \in 1..Len(ops[a].in),
           NEW c \in Seq(OpIds), NEW p \in OpIds,
           ChainWalks(a, s, c),
           c = <<>> => p = GetOpByOutLt(ops[a].in[s]),
           c # <<>> => p = GetOpByOutLt(ops[c[Len(c)]].in[1]),
           ops[p].kind \in GoThroughOpKind
    PROVE  ChainWalks(a, s, Append(c, p))
<1> DEFINE c2 == Append(c, p)
<1>1. /\ Len(c2) = Len(c) + 1
      /\ \A j \in 1..Len(c) : c2[j] = c[j]
      /\ c2[Len(c) + 1] = p
  BY AppendProperties
<1>2. Len(c2) >= 1 => c2[1] = GetOpByOutLt(ops[a].in[s])
  BY <1>1, EmptySeq DEF ChainWalks
<1>3. \A j \in 1..(Len(c2) - 1) : c2[j + 1] = GetOpByOutLt(ops[c2[j]].in[1])
  BY <1>1, EmptySeq DEF ChainWalks
<1>4. \A j \in 1..Len(c2) : ops[c2[j]].kind \in GoThroughOpKind
  BY <1>1 DEF ChainWalks
<1>5. QED
  BY <1>2, <1>3, <1>4 DEF ChainWalks

\* The constructor starts with an empty map and no walk in progress.
LEMMA IInvInit == Init => IInv
<1> SUFFICES ASSUME Init PROVE IInv
  OBVIOUS
<1>1. TypeInv
  BY TypeInvInit
<1>2. WalkInv
  BY DEF Init, WalkInv
<1>3. BoundaryChainValid
  BY DEF Init, BoundaryChainValid
<1>4. QED
  BY <1>1, <1>2, <1>3 DEF IInv

\* Each step of the constructor's loops keeps the inductive invariant.
LEMMA IInvStep == IInv /\ [Next]_vars => IInv'
<1> SUFFICES ASSUME IInv, [Next]_vars PROVE IInv'
  OBVIOUS
<1> USE NumOpsAssumption, NumExtAssumption
<1>1. TypeInv'
  BY TypeInvStep DEF IInv
<1>2. GraphTypeOK /\ ops' = ops /\ par' = par
  BY DEF IInv, TypeInv, TypeOK, Next, ScanNext, ScanFinished, vars, graphVars,
         SkipOp, EnterOp, ScanEnd, StartSlot, EndSlots, WalkNoProducer,
         WalkAccept, WalkContinue, WalkStop
<1>3. WalkInv'
  <2>1. CASE StartSlot
    BY <2>1, <1>2 DEF StartSlot, WalkInv, ChainWalks
  <2>2. CASE WalkContinue
    <3> DEFINE P == Parent
    <3>1. /\ pc = "walk" /\ pc' = "walk"
          /\ P \in OpIds
          /\ ops[P].kind \in GoThroughOpKind
          /\ lt' = ops[P].in[1]
          /\ chain' = Append(chain, P)
          /\ k' = k /\ i' = i
      BY <2>2 DEF WalkContinue, Parent, GetOpByOutLt
    <3>2. /\ k \in OpIds /\ i \in 1..Len(ops[k].in) /\ chain \in Seq(OpIds)
          /\ ChainWalks(k, i, chain)
          /\ chain = <<>> => lt = ops[k].in[i]
          /\ chain # <<>> => lt = ops[chain[Len(chain)]].in[1]
      BY <3>1 DEF IInv, TypeInv, TypeOK, PcInv, WalkInv
    <3>3. ChainWalks(k, i, Append(chain, P))
      BY <1>2, <3>1, <3>2, ChainExtend DEF Parent
    <3>4. /\ Append(chain, P) # <<>>
          /\ Append(chain, P)[Len(Append(chain, P))] = P
      BY <3>1, <3>2, AppendProperties
    <3>5. (ChainWalks(k, i, chain))'
      BY <1>2, <3>1, <3>3 DEF ChainWalks, GetOpByOutLt
    <3>6. QED
      BY <1>2, <3>1, <3>4, <3>5 DEF WalkInv
  <2>3. CASE ~StartSlot /\ ~WalkContinue
    <3>1. pc' = "walk" => UNCHANGED <<pc, k, i, lt, chain>>
      BY <2>3 DEF Next, ScanNext, ScanFinished, vars, scanVars, SkipOp, EnterOp,
                  ScanEnd, EndSlots, WalkNoProducer, WalkAccept, WalkStop
    <3>2. QED
      BY <1>2, <3>1 DEF IInv, WalkInv, ChainWalks, GetOpByOutLt
  <2>4. QED
    BY <2>1, <2>2, <2>3
<1>4. BoundaryChainValid'
  <2>1. CASE WalkAccept
    <3> DEFINE P == Parent
               key == ops[P].in[1]
               r == [aop |-> k, slot |-> i, chain |-> Append(chain, P)]
    <3>1. /\ pc = "walk"
          /\ P \in OpIds
          /\ ops[P].kind = "Dequantize"
          /\ DqAccepted(P)
          /\ qd' = Emplace(qd, key, r)
      BY <2>1 DEF WalkAccept, Parent, GetOpByOutLt
    <3>2. /\ k \in OpIds /\ InPartition(k) /\ ops[k].kind \in MainOpKind
          /\ i \in 1..Len(ops[k].in) /\ chain \in Seq(OpIds)
          /\ ChainWalks(k, i, chain)
          /\ chain = <<>> => lt = ops[k].in[i]
          /\ chain # <<>> => lt = ops[chain[Len(chain)]].in[1]
          /\ qd \in [TensorIds -> Rec \cup {NoRec}]
      BY <3>1 DEF IInv, TypeInv, TypeOK, PcInv, WalkInv
    <3>3. ChainWalks(k, i, Append(chain, P))
      BY <1>2, <3>1, <3>2, ChainExtend DEF Parent, GoThroughOpKind
    <3>4. /\ Len(Append(chain, P)) >= 1
          /\ Append(chain, P)[Len(Append(chain, P))] = P
      BY <3>1, <3>2, AppendProperties
    <3>5. ValidRec(key, r)
      BY <3>1, <3>2, <3>3, <3>4 DEF ValidRec
    <3>6. ASSUME NEW t \in TensorIds, qd'[t] # NoRec PROVE ValidRec(t, qd'[t])
      <4>1. CASE t = key /\ qd[key] = NoRec
        BY <3>1, <3>2, <3>5, <3>6, <4>1 DEF Emplace
      <4>2. CASE ~(t = key /\ qd[key] = NoRec)
        <5>1. qd'[t] = qd[t]
          BY <3>1, <3>2, <4>2 DEF Emplace
        <5>2. ValidRec(t, qd[t])
          BY <3>6, <5>1, ValidRecForm DEF IInv
        <5>3. QED
          BY <5>1, <5>2
      <4>3. QED
        BY <4>1, <4>2
    <3>7. BoundaryChainValid' = \A t \in TensorIds : qd'[t] # NoRec => ValidRec(t, qd'[t])
      BY <1>2 DEF BoundaryChainValid, ValidRec, ChainWalks, DqAccepted,
                  GetOpByOutLt, InPartition
    <3>8. QED
      BY <3>6, <3>7
  <2>2. CASE ~WalkAccept
    <3>1. qd' = qd
      BY <2>2 DEF Next, ScanNext, ScanFinished, vars, scanVars, SkipOp, EnterOp,
                  ScanEnd, StartSlot, EndSlots, WalkNoProducer, WalkContinue, WalkStop
    <3>2. BoundaryChainValid' = BoundaryChainValid
      BY <1>2, <3>1 DEF BoundaryChainValid, ChainWalks, DqAccepted,
                        GetOpByOutLt, InPartition
    <3>3. QED
      BY <3>2 DEF IInv
  <2>3. QED
    BY <2>1, <2>2
<1>5. QED
  BY <1>1, <1>3, <1>4 DEF IInv

(***************************************************************************)
(* Every record of quantize_displace_ names a main-kind op of the          *)
(* partition and one of its slots, from which a chain of go-through ops    *)
(* linked by first inputs leads to an accepted Dequantize whose input is   *)
(* the record's key: the spec's BoundaryRecord invariant, for graphs of    *)
(* any size.                                                               *)
(***************************************************************************)
THEOREM BoundaryRecordsValid == Spec => []BoundaryChainValid
<1>1. Init => IInv
  BY IInvInit
<1>2. IInv /\ [Next]_vars => IInv'
  BY IInvStep
<1>3. IInv => BoundaryChainValid
  BY DEF IInv
<1>4. QED
  BY <1>1, <1>2, <1>3, PTL DEF Spec

=============================================================================
