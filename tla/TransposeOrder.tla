--------------------------- MODULE TransposeOrder ---------------------------
(***************************************************************************)
(* The StaticTranspose case of the reverse replay in displace_input_data  *)
(* (input_displacer.cpp:148-158): the inverted op's "order" attribute is  *)
(* computed by                                                             *)
(*     new_order[(order[i] + ndims) % ndims] = i   for i in 0..ndims-1     *)
(* where order[i] is an int64_t and ndims a size_t, so the sum is taken    *)
(* modulo 2^64 before the %.  The loop is one step per iteration; the     *)
(* attribute read by get_attr_s64_vector may hold any axis values, valid  *)
(* or not, and Init ranges over all of them up to MaxDims axes.           *)
(***************************************************************************)
EXTENDS Integers, Sequences

CONSTANTS
    MaxDims,   \* largest rank of the transposed tensor
    SizeBits   \* width of size_t

ASSUME DimsAssumption == MaxDims \in Nat /\ SizeBits \in Nat \ {0}

VARIABLES
    order,     \* the forward op's order attribute (0-based axis values)
    newOrder,  \* new_order, as a sequence: newOrder[j + 1] is new_order[j]
    i          \* the loop index

toVars == <<order, newOrder, i>>

\* The axis values an order attribute may hold: valid ones are in -n..n-1.
AxisValues == -(MaxDims + 1)..MaxDims

Orders == UNION { [1..n -> AxisValues] : n \in 0..MaxDims }

\* 2^SizeBits % n, by doubling modulo n (n > 0).
Pow2Mod(n) ==
    LET p[e \in 0..SizeBits] == IF e = 0 THEN 1 % n ELSE (2 * p[e - 1]) % n
    IN  p[SizeBits]

\* Seeded fault: the + ndims is dropped, order[i] % ndims converts the
\* negative axis to size_t.
SlotNoShift(a, n) == IF a < 0 THEN ((a % n) + Pow2Mod(n)) % n ELSE a % n

(***************************************************************************)
(* (order[i] + ndims) % ndims: int64_t + size_t converts the axis to      *)
(* size_t, so a negative sum wraps to sum + 2^SizeBits.                   *)
(***************************************************************************)
Slot(a, n) == IF a + n < 0 THEN (((a + n) % n) + Pow2Mod(n)) % n ELSE (a + n) % n

Init ==
    /\ order \in Orders
    /\ newOrder = [j \in 1..Len(order) |-> 0]
    /\ i = 0

\* One iteration: new_order[(order[i] + ndims) % ndims] = i.
Step ==
    /\ i < Len(order)
    /\ newOrder' = [newOrder EXCEPT ![Slot(order[i + 1], Len(order)) + 1] = i]
    /\ i' = i + 1
    /\ UNCHANGED order

\* The loop has ended and op.attrs_["order"] holds new_order.
Done ==
    /\ i = Len(order)
    /\ UNCHANGED toVars

Next == Step \/ Done

Spec == Init /\ [][Next]_toVars

-----------------------------------------------------------------------------
(* Reference: the inverse permutation *)

\* The axis an order value names: a negative value counts from the end.
Axis(a, n) == IF a < 0 THEN a + n ELSE a

\* A valid order: each value in -n..n-1 and the axes a permutation of 0..n-1.
ValidOrder(o) ==
    /\ \A j \in 1..Len(o) : o[j] \in -Len(o)..(Len(o) - 1)
    /\ \A j, k \in 1..Len(o) : j # k => Axis(o[j], Len(o)) # Axis(o[k], Len(o))

\* inv[a + 1] = the position of axis a in o (0-based).
InverseOrder(o) ==
    [a \in 1..Len(o) |-> CHOOSE j \in 0..(Len(o) - 1) : Axis(o[j + 1], Len(o)) = a - 1]

-----------------------------------------------------------------------------
(* Properties *)

(***************************************************************************)
(* Spec section 8, permutation inversion law: for a valid order, negative *)
(* axes included, the loop computes the inverse permutation, and          *)
(* inverting that again gives back the order's axes.                      *)
(***************************************************************************)
InvertsValidOrders ==
    i = Len(order) /\ ValidOrder(order) =>
        /\ newOrder = InverseOrder(order)
        /\ InverseOrder(newOrder) = [j \in 1..Len(order) |-> Axis(order[j], Len(order))]

=============================================================================
