----------------------------- MODULE GraphIndex -----------------------------
(***************************************************************************)
(* The deserialized graph and the partition that partition_data_displacer_t *)
(* reads (input_displacer.cpp).  Both are read-only for the whole life of   *)
(* the displacer, so they are variables fixed by Init and left UNCHANGED    *)
(* by every action; Init ranges over every small well-formed graph.        *)
(*                                                                         *)
(* Abstraction of ids: every op kind of interest has exactly one output,    *)
(* so op number k (its place in the chronological order of dg.ops_) is     *)
(* also the id of the op and of its output tensor.  Tensors that no op     *)
(* produces (graph-level inputs) get the ids above NumOps.  The element    *)
(* type of each tensor is kept because the filling coerces types.          *)
(***************************************************************************)
EXTENDS Naturals, Sequences

CONSTANTS
    NumOps,   \* number of ops in the deserialized graph
    NumExt,   \* number of graph-level input tensors
    Kinds,    \* op kind strings the graphs may use
    DTypes    \* element type strings the tensors may have

ASSUME NumOpsAssumption == NumOps \in Nat \ {0}
ASSUME NumExtAssumption == NumExt \in Nat \ {0}

VARIABLES
    ops,    \* ops[k] = [kind |-> kind_, in |-> ids of in_lts_]
    dtype,  \* dtype[t] = data_type_ of logical tensor t
    par     \* op_ids_set_: the ids of the partition's ops

graphVars == <<ops, dtype, par>>

OpIds == 1..NumOps
ExtIds == (NumOps + 1)..(NumOps + NumExt)
TensorIds == OpIds \cup ExtIds

\* The empty deserialized_op that get_op_by_out_lt returns for a tensor no
\* op produces (op.empty() in the code).
NoOp == 0

(***************************************************************************)
(* Number of in_lts_ of an op of each kind, as the graph API defines them: *)
(* the binary ops take two; the weighted ops (MatMul, Convolution,        *)
(* ConvTranspose) take source and weights and an optional bias; the       *)
(* others one.  The constructor's slot loop walks every one of them.       *)
(***************************************************************************)
BiasKinds == {"MatMul", "Convolution", "ConvTranspose"}

BinaryKinds == {"Add", "Divide", "Maximum", "Minimum", "Multiply", "Subtract"}

Arities(kd) ==
    IF kd \in BiasKinds THEN {2, 3}
    ELSE IF kd \in BinaryKinds THEN {2}
    ELSE {1}

\* No op has more inputs than this.
MaxSlots == 3

Slots == 1..MaxSlots

\* Tensors op k may consume: graph inputs and outputs of earlier ops (the
\* deserialized graph is sorted in chronological order).
Avail(k) == ExtIds \cup 1..(k - 1)

OpRec == [kind : Kinds, in : Seq(TensorIds)]

WellFormed(g) ==
    \A k \in OpIds :
        /\ Len(g[k].in) \in Arities(g[k].kind)
        /\ \A j \in 1..Len(g[k].in) : g[k].in[j] \in Avail(k)

\* The candidate op records, bounded so that TLC can enumerate them.
SmallOpRec ==
    UNION { [kind : {kd}, in : UNION { [1..n -> TensorIds] : n \in Arities(kd) }] : kd \in Kinds }

(***************************************************************************)
(* get_op_by_out_lt(id): the op whose output is tensor t, or the empty op. *)
(***************************************************************************)
GetOpByOutLt(t) == IF t \in OpIds THEN t ELSE NoOp

InPartition(o) == o \in par

GraphInit ==
    /\ ops \in { g \in [OpIds -> SmallOpRec] : WellFormed(g) }
    /\ dtype \in [TensorIds -> DTypes]
    /\ par \in SUBSET OpIds

GraphTypeOK ==
    /\ ops \in [OpIds -> OpRec]
    /\ WellFormed(ops)
    /\ dtype \in [TensorIds -> DTypes]
    /\ par \subseteq OpIds
=============================================================================
