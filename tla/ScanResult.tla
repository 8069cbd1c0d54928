----------------------------- MODULE ScanResult -----------------------------
(***************************************************************************)
(* What the constructor of partition_data_displacer_t promises, without   *)
(* the loops that compute it: in one step it fills quantize_displace_     *)
(* with, for every boundary tensor some main op's input slot leads to,    *)
(* the (main op, slot) met first in chronological order, and nothing      *)
(* else.  result[t] is that pair, or NoEntry; scanned says the            *)
(* constructor has returned.                                              *)
(***************************************************************************)
EXTENDS ScanRules

VARIABLES result, scanned

srVars == <<graphVars, result, scanned>>

NoEntry == <<NoOp, 0>>

\* The first of a set of (op, slot) pairs in the scan's order.
FirstOf(D) == CHOOSE as \in D : IsFirst(as, D)

Expected ==
    [t \in TensorIds |->
        LET D == Discoveries(MainOpKind, t)
        IN  IF D = {} THEN NoEntry ELSE FirstOf(D)]

SRInit ==
    /\ GraphInit
    /\ result = [t \in TensorIds |-> NoEntry]
    /\ scanned = FALSE

\* The constructor returns with the map filled.
Scan ==
    /\ ~scanned
    /\ scanned' = TRUE
    /\ result' = Expected
    /\ UNCHANGED graphVars

\* The constructor runs to its end (it does not block).
SRSpec == SRInit /\ [][Scan]_srVars /\ WF_srVars(Scan)
=============================================================================
