---------------------------- MODULE MC_Displacer ----------------------------
(* Model-checking instance of the scan followed by the driver's calls. *)
EXTENDS Displacer

\* Three ops over two graph inputs: a binary main op, the quantization pair
\* and a layout op, so that chains of two go-through ops and main ops with
\* two boundaries arise, and several partition inputs are displaced in turn.
MC_NumOps == 3
MC_NumExt == 2
MC_Kinds == {"MatMul", "Dequantize", "Quantize", "StaticTranspose"}
MC_DTypes == {"u8"}
=============================================================================
