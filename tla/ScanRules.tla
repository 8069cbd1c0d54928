------------------------------ MODULE ScanRules ------------------------------
(***************************************************************************)
(* The rules of the constructor's boundary scan that do not depend on the *)
(* order of its steps: the static kind sets, the acceptance test of a     *)
(* Dequantize, and, as a reference, the boundary reached from a tensor    *)
(* defined declaratively (spec section 4.2) and the (main op, slot) pairs *)
(* that reach it.  Used by the step-by-step scan (Scanner) and by what it *)
(* promises (ScanResult).                                                 *)
(***************************************************************************)
EXTENDS GraphIndex

\* The static kind sets of the constructor, spelled as in the code.
MainOpKind == {"Convolution", "ConvTranspose", "AvgPool", "MaxPool", "MatMul",
               "Add", "Divide", "Maximum", "Minimum", "Multiply", "Substract"}

GoThroughOpKind == {"StaticTranspose", "StaticReshape", "TypeCast",
                    "Quantize", "Dequantize"}

(***************************************************************************)
(* A Dequantize op d is accepted as the boundary when the op producing its *)
(* input is empty or lies outside the partition.                          *)
(***************************************************************************)
DqAccepted(d) ==
    LET prev == GetOpByOutLt(ops[d].in[1])
    IN  prev = NoOp \/ ~InPartition(prev)

\* No tensor: the walk from a slot found no boundary.
NoTensor == 0

(***************************************************************************)
(* Reference: the boundary reached by walking up from tensor t, defined    *)
(* declaratively from spec section 4.2 steps 2-4.                          *)
(***************************************************************************)
Found[t \in TensorIds] ==
    LET p == GetOpByOutLt(t)
    IN  IF p = NoOp THEN NoTensor
        ELSE IF ops[p].kind = "Dequantize" /\ DqAccepted(p) THEN ops[p].in[1]
        ELSE IF ops[p].kind \in GoThroughOpKind THEN Found[ops[p].in[1]]
        ELSE NoTensor

\* The (main op, slot) pairs of the partition whose walk finds boundary t.
Discoveries(kinds, t) ==
    { as \in OpIds \X Slots :
        /\ InPartition(as[1])
        /\ ops[as[1]].kind \in kinds
        /\ as[2] <= Len(ops[as[1]].in)
        /\ Found[ops[as[1]].in[as[2]]] = t }

\* The discovery the chronological scan meets first.
IsFirst(as, D) == \A bs \in D : as[1] < bs[1] \/ (as[1] = bs[1] /\ as[2] <= bs[2])

=============================================================================
