-------------------------- MODULE ScannerRefinement --------------------------
(***************************************************************************)
(* The step-by-step scan implements ScanResult.  Refinement mapping: the  *)
(* abstract map is empty until the constructor's loops end, and then it   *)
(* is quantize_displace_ with each record cut down to its (main op, slot) *)
(* (the ghost chain is dropped).                                          *)
(***************************************************************************)
EXTENDS Scanner

\* The (main op, slot) of the record at t, or the empty entry.
Entry(t) == IF qd[t] = NoRec THEN <<NoOp, 0>> ELSE <<qd[t].aop, qd[t].slot>>

SR == INSTANCE ScanResult WITH
        result <- [t \in TensorIds |-> IF pc = "done" THEN Entry(t) ELSE <<NoOp, 0>>],
        scanned <- (pc = "done")

(***************************************************************************)
(* The constructor computes exactly what ScanResult promises: every step  *)
(* of its loops leaves the abstract map alone until the outer loop ends,  *)
(* and then the map holds, for each boundary, the first (op, slot) in     *)
(* chronological order that leads to it (emplace keeps the first), and    *)
(* the loops do end.                                                      *)
(***************************************************************************)
ImplementsScanResult == SR!SRSpec
=============================================================================
