----------------------------- MODULE MC_Scanner -----------------------------
(* Model-checking instance of the boundary scan. *)
EXTENDS ScannerRefinement

\* Three ops over one graph input: a main op (MatMul, whose optional bias
\* makes it the one three-input kind, and a kind the walk cannot pass), the
\* quantization pair and a layout op.  Three ops allow a chain of two
\* go-through ops above a main op, a rejected Dequantize with an accepted
\* one above it, a MatMul reading one tensor through two of its slots, and
\* two main ops sharing one boundary.
MC_NumOps == 3
MC_NumExt == 1
MC_Kinds == {"MatMul", "Dequantize", "Quantize", "StaticTranspose"}
MC_DTypes == {"u8"}
=============================================================================
