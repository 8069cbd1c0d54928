------------------------- MODULE TransposeOrderProofs -------------------------
(***************************************************************************)
(* Proof that the StaticTranspose order inversion of displace_input_data  *)
(* computes the inverse permutation of every valid order, for every rank  *)
(* and every width of size_t.                                             *)
(***************************************************************************)
EXTENDS TransposeOrder, SequenceTheorems, FiniteSetTheorems, TLAPS

(***************************************************************************)
(* The loop invariant: new_order has ndims entries, and for a valid order *)
(* each iteration j < i has stored j at the slot of axis order[j].        *)
(***************************************************************************)
LoopInv ==
    /\ order \in Seq(Int)
    /\ i \in 0..Len(order)
    /\ newOrder \in [1..Len(order) -> Int]
    /\ ValidOrder(order) =>
           \A j \in 0..(i - 1) : newOrder[Axis(order[j + 1], Len(order)) + 1] = j

\* A valid axis value names an axis of 0..n-1.
LEMMA AxisRange ==
    ASSUME NEW n \in Nat, NEW a \in -n..(n - 1)
    PROVE  Axis(a, n) \in 0..(n - 1)
BY DEF Axis

(***************************************************************************)
(* For a valid axis value, (order[i] + ndims) % ndims is the axis: the    *)
(* sum is never negative, so the size_t wrap does not happen.             *)
(***************************************************************************)
LEMMA SlotIsAxis ==
    ASSUME NEW n \in Nat \ {0}, NEW a \in -n..(n - 1)
    PROVE  Slot(a, n) = Axis(a, n)
BY DEF Slot, Axis

LEMMA LoopInvInit == Init => LoopInv
<1> SUFFICES ASSUME Init PROVE LoopInv
  OBVIOUS
<1>1. PICK m \in 0..MaxDims : order \in [1..m -> AxisValues]
  BY DEF Init, Orders
<1>2. order \in Seq(Int) /\ Len(order) = m
  BY <1>1, DimsAssumption, SeqDef DEF AxisValues
<1>. QED
  BY <1>2 DEF Init, LoopInv

\* Storing a value of S anywhere keeps an array into S an array into S (a
\* store outside the domain changes nothing).
LEMMA ExceptTyped ==
    ASSUME NEW D, NEW S, NEW f \in [D -> S], NEW x, NEW v \in S
    PROVE  [f EXCEPT ![x] = v] \in [D -> S]
<1>1. CASE x \in D
  BY <1>1
<1>2. CASE x \notin D
  <2>1. [f EXCEPT ![x] = v] = f
    BY <1>2, Zenon
  <2>. QED  BY <2>1
<1>. QED  BY <1>1, <1>2

(***************************************************************************)
(* One iteration of the loop on a valid order o of rank n: storing k at   *)
(* the slot of o[k] keeps what the earlier iterations stored, because a  *)
(* valid order repeats no axis.                                          *)
(***************************************************************************)
LEMMA IterationStores ==
    ASSUME NEW n \in Nat \ {0}, NEW o \in [1..n -> Int], NEW f \in [1..n -> Int],
           NEW k \in 0..(n - 1),
           \A j \in 1..n : o[j] \in -n..(n - 1),
           \A j, m \in 1..n : j # m => Axis(o[j], n) # Axis(o[m], n),
           \A j \in 0..(k - 1) : f[Axis(o[j + 1], n) + 1] = j
    PROVE  LET g == [f EXCEPT ![Slot(o[k + 1], n) + 1] = k]
           IN  /\ g \in [1..n -> Int]
               /\ \A j \in 0..k : g[Axis(o[j + 1], n) + 1] = j
<1>1. \A j \in 1..n : Axis(o[j], n) \in 0..(n - 1)
  BY AxisRange
<1>2. Slot(o[k + 1], n) = Axis(o[k + 1], n)
  BY SlotIsAxis
<1>. DEFINE s == Axis(o[k + 1], n) + 1
            g == [f EXCEPT ![s] = k]
<1>3. s \in 1..n
  BY <1>1 DEF s
<1>4. g \in [1..n -> Int] /\ g[s] = k
  BY <1>3 DEF g
<1>5. ASSUME NEW j \in 0..(k - 1) PROVE g[Axis(o[j + 1], n) + 1] = j
  <2>1. j + 1 \in 1..n /\ k + 1 \in 1..n /\ j + 1 # k + 1
    OBVIOUS
  <2>2. Axis(o[j + 1], n) # Axis(o[k + 1], n)
    OBVIOUS
  <2>3. Axis(o[j + 1], n) \in 0..(n - 1) /\ Axis(o[k + 1], n) \in 0..(n - 1)
    BY <2>1, <1>1
  <2>4. Axis(o[j + 1], n) + 1 \in 1..n /\ Axis(o[j + 1], n) + 1 # s
    BY <2>2, <2>3 DEF s
  <2>. QED  BY <2>4, <1>3 DEF g
<1>. QED  BY <1>2, <1>4, <1>5 DEF g, s

\* The loop invariant holds whatever the loop does next.
LEMMA LoopInvStep == LoopInv /\ [Next]_toVars => LoopInv'
<1> SUFFICES ASSUME LoopInv, [Next]_toVars PROVE LoopInv'
  OBVIOUS
<1>1. CASE UNCHANGED toVars
  BY <1>1 DEF toVars, LoopInv, ValidOrder, Axis
<1>2. CASE Done
  BY <1>2 DEF Done, toVars, LoopInv, ValidOrder, Axis
<1>3. CASE Step
  <2>1. /\ i < Len(order)
        /\ newOrder' = [newOrder EXCEPT ![Slot(order[i + 1], Len(order)) + 1] = i]
        /\ i' = i + 1
        /\ order' = order
    BY <1>3 DEF Step
  <2>2. /\ Len(order) \in Nat \ {0}
        /\ order \in [1..Len(order) -> Int]
        /\ newOrder \in [1..Len(order) -> Int]
        /\ i \in 0..(Len(order) - 1)
    BY <2>1 DEF LoopInv
  <2>3. /\ order' \in Seq(Int)
        /\ i' \in 0..Len(order')
    BY <2>1, <2>2 DEF LoopInv
  <2>6. newOrder' \in [1..Len(order') -> Int]
    <3>1. [newOrder EXCEPT ![Slot(order[i + 1], Len(order)) + 1] = i] \in [1..Len(order) -> Int]
      <4>1. newOrder \in [1..Len(order) -> Int] /\ i \in Int
        BY <2>2
      <4>. QED  BY <4>1, ExceptTyped
    <3>. QED  BY <3>1, <2>1
  <2>4. ASSUME ValidOrder(order)
        PROVE  \A j \in 0..i : newOrder'[Axis(order[j + 1], Len(order)) + 1] = j
    BY <2>1, <2>2, <2>4, IterationStores DEF LoopInv, ValidOrder
  <2>5. ValidOrder(order') = ValidOrder(order)
    BY <2>1
  <2>. QED  BY <2>1, <2>3, <2>4, <2>5, <2>6 DEF LoopInv
<1>. QED  BY <1>1, <1>2, <1>3 DEF Next

-----------------------------------------------------------------------------
(* The loop's result *)

(***************************************************************************)
(* A valid order of rank n names every axis of 0..n-1: its axes are n      *)
(* distinct values among n, so the map j |-> axis of o[j] is onto.        *)
(***************************************************************************)
LEMMA AxesOnto ==
    ASSUME NEW n \in Nat, NEW o \in [1..n -> Int],
           \A j \in 1..n : o[j] \in -n..(n - 1),
           \A j, m \in 1..n : j # m => Axis(o[j], n) # Axis(o[m], n)
    PROVE  \A a \in 0..(n - 1) : \E j \in 1..n : Axis(o[j], n) = a
<1> DEFINE ax == [j \in 1..n |-> Axis(o[j], n)]
<1>1. ax \in Injection(1..n, 0..(n - 1))
  BY AxisRange DEF Injection, IsInjective
<1>2. IsFiniteSet(0..(n - 1)) /\ Cardinality(1..n) = Cardinality(0..(n - 1))
  BY FS_Interval
<1>3. ax \in Surjection(1..n, 0..(n - 1))
  BY <1>1, <1>2, FS_Injection
<1>. QED  BY <1>3 DEF Surjection

(***************************************************************************)
(* When every iteration of the loop has run on a valid order o, new_order *)
(* f is the inverse permutation of o, and inverting f gives back the axes *)
(* of o.                                                                   *)
(***************************************************************************)
LEMMA InverseComputed ==
    ASSUME NEW n \in Nat, NEW o \in [1..n -> Int], NEW f \in [1..n -> Int],
           \A j \in 1..n : o[j] \in -n..(n - 1),
           \A j, m \in 1..n : j # m => Axis(o[j], n) # Axis(o[m], n),
           \A j \in 0..(n - 1) : f[Axis(o[j + 1], n) + 1] = j
    PROVE  /\ f = [a \in 1..n |-> CHOOSE j \in 0..(n - 1) : Axis(o[j + 1], n) = a - 1]
           /\ [a \in 1..n |-> CHOOSE j \in 0..(n - 1) : Axis(f[j + 1], n) = a - 1]
                = [j \in 1..n |-> Axis(o[j], n)]
<1>1. \A j \in 1..n : Axis(o[j], n) \in 0..(n - 1)
  BY AxisRange
<1>2. \A a \in 0..(n - 1) : \E j \in 1..n : Axis(o[j], n) = a
  BY AxesOnto
<1>0. ASSUME NEW j \in 1..n PROVE f[Axis(o[j], n) + 1] = j - 1
  <2>1. j - 1 \in 0..(n - 1) /\ (j - 1) + 1 = j
    OBVIOUS
  <2>2. f[Axis(o[(j - 1) + 1], n) + 1] = j - 1
    BY <2>1
  <2>. QED  BY <2>1, <2>2
<1>3. ASSUME NEW a \in 1..n
      PROVE  f[a] = CHOOSE j \in 0..(n - 1) : Axis(o[j + 1], n) = a - 1
  <2>1. PICK p \in 1..n : Axis(o[p], n) = a - 1
    BY <1>2
  <2>2. Axis(o[p], n) + 1 = a
    BY <2>1, <1>1
  <2>4. f[Axis(o[p], n) + 1] = p - 1
    BY <1>0
  <2>3. \A j \in 0..(n - 1) : Axis(o[j + 1], n) = a - 1 <=> j = p - 1
    BY <2>1
  <2>5. \E j \in 0..(n - 1) : Axis(o[j + 1], n) = a - 1
    <3>1. p - 1 \in 0..(n - 1) /\ (p - 1) + 1 = p
      OBVIOUS
    <3>. QED  BY <2>1, <3>1
  <2>6. (CHOOSE j \in 0..(n - 1) : Axis(o[j + 1], n) = a - 1) = p - 1
    <3> DEFINE c == CHOOSE j \in 0..(n - 1) : Axis(o[j + 1], n) = a - 1
    <3>1. c \in 0..(n - 1) /\ Axis(o[c + 1], n) = a - 1
      BY <2>5, Zenon DEF c
    <3>. QED  BY <3>1, <2>3 DEF c
  <2>. QED  BY <2>2, <2>4, <2>6
<1>4. ASSUME NEW b \in 1..n
      PROVE  (CHOOSE j \in 0..(n - 1) : Axis(f[j + 1], n) = b - 1) = Axis(o[b], n)
  <2>1. f[Axis(o[b], n) + 1] = b - 1 /\ Axis(o[b], n) \in 0..(n - 1)
    BY <1>1, <1>0
  <2>2. ASSUME NEW j \in 0..(n - 1), Axis(f[j + 1], n) = b - 1
        PROVE  j = Axis(o[b], n)
    <3>1. PICK m \in 1..n : Axis(o[m], n) = j
      BY <1>2
    <3>2. f[j + 1] = m - 1
      BY <3>1, <1>0
    <3>3. m = b
      BY <3>2, <2>2 DEF Axis
    <3>. QED  BY <3>1, <3>3
  <2>3. Axis(f[Axis(o[b], n) + 1], n) = b - 1
    BY <2>1 DEF Axis
  <2>. QED  BY <2>1, <2>2, <2>3
<1>. QED  BY <1>3, <1>4

(***************************************************************************)
(* For every rank and every width of size_t, once the loop of lines      *)
(* 153-155 has run to the end on a valid order (negative axes included),  *)
(* new_order is its inverse permutation and inverting new_order gives     *)
(* back the order's axes.  The run transpose_order checks the same        *)
(* property for ranks up to 3 with 64-bit size_t.                         *)
(***************************************************************************)
THEOREM InversionCorrect == Spec => []InvertsValidOrders
<1>1. LoopInv => InvertsValidOrders
  <2> SUFFICES ASSUME LoopInv, i = Len(order), ValidOrder(order)
               PROVE  /\ newOrder = InverseOrder(order)
                      /\ InverseOrder(newOrder) = [j \in 1..Len(order) |-> Axis(order[j], Len(order))]
    BY DEF InvertsValidOrders
  <2>1. /\ Len(order) \in Nat
        /\ order \in [1..Len(order) -> Int]
        /\ newOrder \in [1..Len(order) -> Int]
        /\ \A j \in 0..(Len(order) - 1) : newOrder[Axis(order[j + 1], Len(order)) + 1] = j
    BY DEF LoopInv
  <2>2. newOrder \in Seq(Int) /\ Len(newOrder) = Len(order)
    BY <2>1, SeqDef
  <2> DEFINE n == Len(order)
  <2>3. /\ newOrder = [a \in 1..n |-> CHOOSE j \in 0..(n - 1) : Axis(order[j + 1], n) = a - 1]
        /\ [a \in 1..n |-> CHOOSE j \in 0..(n - 1) : Axis(newOrder[j + 1], n) = a - 1]
             = [j \in 1..n |-> Axis(order[j], n)]
    <3>1. /\ \A j \in 1..n : order[j] \in -n..(n - 1)
          /\ \A j, m \in 1..n : j # m => Axis(order[j], n) # Axis(order[m], n)
      BY DEF ValidOrder, n
    <3>. QED  BY <2>1, <3>1, InverseComputed DEF n
  <2>. QED  BY <2>2, <2>3 DEF InverseOrder, n
<1>. QED  BY <1>1, LoopInvInit, LoopInvStep, PTL DEF Spec

=============================================================================
