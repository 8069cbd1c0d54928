-------------------------- MODULE MC_TransposeOrder --------------------------
(* Model-checking instance of the order inversion. *)
EXTENDS TransposeOrder

\* Ranks 0 to 3: rank 3 is the smallest where 2^64 % ndims # 0, so that a
\* wrapped negative sum lands on a wrong axis.
MC_MaxDims == 3
MC_SizeBits == 64
=============================================================================
