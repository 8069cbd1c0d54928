----------------------- MODULE ScannerRefinementProofs -----------------------
(***************************************************************************)
(* Proof that the constructor's loops implement what ScanResult promises: *)
(* every step of the scan is a step of ScanResult or leaves its state     *)
(* alone, for every number of ops and graph inputs (the safety part of    *)
(* ImplementsScanResult; that the loops end is left to TLC).              *)
(***************************************************************************)
EXTENDS ScannerRefinement, ScannerProofs, WellFoundedInduction

-----------------------------------------------------------------------------
(* The boundary a walk reaches (ScanRules!Found) satisfies its equation *)

\* The body of Found, with the function it recurses on as a parameter.
FoundBody(g, t) ==
    LET p == GetOpByOutLt(t)
    IN  IF p = NoOp THEN NoTensor
        ELSE IF ops[p].kind = "Dequantize" /\ DqAccepted(p) THEN ops[p].in[1]
        ELSE IF ops[p].kind \in GoThroughOpKind THEN g[ops[p].in[1]]
        ELSE NoTensor

\* How far from the graph inputs a tensor is: its producer's place in the
\* chronological order, 0 for a graph input.
Rank(t) == IF t \in OpIds THEN t ELSE 0

\* The walk moves to tensors of smaller rank.
RankLess == {ss \in TensorIds \X TensorIds : Rank(ss[1]) < Rank(ss[2])}

\* No walk goes on forever: ranks are natural numbers.
LEMMA RankWellFounded == IsWellFoundedOn(RankLess, TensorIds)
<1> SUFFICES ASSUME NEW f \in [Nat -> TensorIds],
                    \A n \in Nat : <<f[n + 1], f[n]>> \in RankLess
             PROVE  FALSE
  BY DEF IsWellFoundedOn
<1> DEFINE h == [n \in Nat |-> Rank(f[n])]
<1>1. h \in [Nat -> Nat]
  BY NumOpsAssumption DEF h, Rank, TensorIds, OpIds, ExtIds
<1>2. ASSUME NEW n \in Nat PROVE <<h[n + 1], h[n]>> \in OpToRel(<, Nat)
  <2>1. Rank(f[n + 1]) < Rank(f[n])
    BY DEF RankLess
  <2>2. h[n + 1] = Rank(f[n + 1]) /\ h[n] = Rank(f[n])
    BY DEF h
  <2>3. h[n + 1] \in Nat /\ h[n] \in Nat
    BY <1>1
  <2>. QED  BY <2>1, <2>2, <2>3 DEF OpToRel
<1>3. \E hh \in [Nat -> Nat] : \A n \in Nat : <<hh[n + 1], hh[n]>> \in OpToRel(<, Nat)
  BY <1>1, <1>2
<1>. QED  BY <1>3, NatLessThanWellFounded DEF IsWellFoundedOn

\* The first input of an op has a smaller rank than the op's output.
LEMMA FirstInputLower ==
    ASSUME GraphTypeOK, NEW t \in OpIds
    PROVE  ops[t].in[1] \in SetLessThan(t, RankLess, TensorIds)
<1>1. 1 \in 1..Len(ops[t].in)
  BY FirstInputExists
<1>2. ops[t].in[1] \in ExtIds \cup 1..(t - 1)
  BY <1>1 DEF GraphTypeOK, WellFormed, Avail
<1>. QED
  BY <1>2, NumOpsAssumption, NumExtAssumption
  DEF SetLessThan, RankLess, Rank, TensorIds, OpIds, ExtIds

\* Found's body reads g only below its argument.
LEMMA FoundBodyWF ==
    ASSUME GraphTypeOK
    PROVE  WFDefOn(RankLess, TensorIds, FoundBody)
<1> SUFFICES ASSUME NEW g, NEW h, NEW t \in TensorIds,
                    \A y \in SetLessThan(t, RankLess, TensorIds) : g[y] = h[y]
             PROVE  FoundBody(g, t) = FoundBody(h, t)
  BY DEF WFDefOn
<1>1. CASE t \in OpIds
  <2>1. g[ops[t].in[1]] = h[ops[t].in[1]]
    BY <1>1, FirstInputLower
  <2>. QED  BY <1>1, <2>1 DEF FoundBody, GetOpByOutLt
<1>2. CASE t \notin OpIds
  BY <1>2 DEF FoundBody, GetOpByOutLt
<1>. QED  BY <1>1, <1>2

(***************************************************************************)
(* The recursion equation of Found: the boundary reached from t is found *)
(* from t's producer, by one step of the walk.                           *)
(***************************************************************************)
LEMMA FoundDef ==
    ASSUME GraphTypeOK, NEW t \in TensorIds
    PROVE  Found[t] = FoundBody(Found, t)
<1>1. OpDefinesFcn(Found, TensorIds, FoundBody)
  BY DEF OpDefinesFcn, Found, FoundBody
<1>2. WFInductiveDefines(Found, TensorIds, FoundBody)
  BY <1>1, RankWellFounded, FoundBodyWF, WFInductiveDef
<1>. QED  BY <1>2 DEF WFInductiveDefines

-----------------------------------------------------------------------------
(* The inductive invariant of the refinement *)

(***************************************************************************)
(* The (main op, slot) pairs leading to boundary t that the scan has      *)
(* finished when it is at control point pcv, op kv and slot iv: those of  *)
(* earlier ops, and inside op kv the slots before iv.                     *)
(***************************************************************************)
Before(pr, pcv, kv, iv) ==
    \/ pr[1] < kv
    \/ pcv \in {"slot", "walk"} /\ pr[1] = kv /\ pr[2] < iv

SeenAt(t, pcv, kv, iv) ==
    { pr \in Discoveries(MainOpKind, t) : Before(pr, pcv, kv, iv) }

Seen(t) == SeenAt(t, pc, k, i)

\* quantize_displace_ holds at t exactly the first of the pairs seen so far.
MapHoldsFirst(t) ==
    /\ Seen(t) = {} => qd[t] = NoRec
    /\ Seen(t) # {} => /\ qd[t] # NoRec
                       /\ Entry(t) \in Seen(t)
                       /\ IsFirst(Entry(t), Seen(t))

(***************************************************************************)
(* Besides the scanner's own invariant IInv: the constructor has returned *)
(* only after its outer loop passed the last op, a walk in progress still *)
(* leads to the boundary its slot leads to, and the map holds the first   *)
(* discovery of each boundary among the slots already searched.           *)
(***************************************************************************)
DoneAtEnd == pc = "done" => k = NumOps + 1

WalkFound == pc = "walk" => lt \in TensorIds /\ Found[lt] = Found[ops[k].in[i]]

RInv ==
    /\ IInv
    /\ DoneAtEnd
    /\ WalkFound
    /\ \A t \in TensorIds : MapHoldsFirst(t)

\* No step of the constructor changes the graph.
LEMMA GraphFixed ==
    ASSUME [Next]_vars
    PROVE  UNCHANGED graphVars
BY DEF Next, ScanNext, ScanFinished, vars, SkipOp, EnterOp, ScanEnd, StartSlot,
       EndSlots, WalkNoProducer, WalkAccept, WalkContinue, WalkStop

\* Over a fixed graph the boundaries each slot leads to are fixed.
LEMMA DiscoveriesFixed ==
    ASSUME UNCHANGED graphVars, NEW t
    PROVE  /\ Found' = Found
           /\ (Discoveries(MainOpKind, t))' = Discoveries(MainOpKind, t)
<1>1. ops' = ops /\ par' = par
  BY DEF graphVars
<1>2. Found' = Found
  BY <1>1 DEF Found, DqAccepted, InPartition, GetOpByOutLt
<1>. QED  BY <1>1, <1>2 DEF Discoveries, InPartition

\* In the scan's order no two pairs are both first.
LEMMA FirstUnique ==
    ASSUME NEW D \in SUBSET (OpIds \X Slots), NEW x \in D, NEW y \in D,
           IsFirst(x, D), IsFirst(y, D)
    PROVE  x = y
BY DEF IsFirst, OpIds, Slots, MaxSlots

\* Seen in the next state, over the fixed graph.
LEMMA SeenPrime ==
    ASSUME UNCHANGED graphVars, NEW t
    PROVE  Seen(t)' = SeenAt(t, pc', k', i')
BY DiscoveriesFixed DEF Seen, SeenAt

\* A discovery is a main op's existing slot, one of the first two.
LEMMA DiscoveryForm ==
    ASSUME GraphTypeOK, NEW t, NEW pr \in Discoveries(MainOpKind, t)
    PROVE  /\ pr = <<pr[1], pr[2]>>
           /\ pr[1] \in OpIds /\ pr[2] \in Slots
           /\ InPartition(pr[1]) /\ ops[pr[1]].kind \in MainOpKind
           /\ pr[2] <= Len(ops[pr[1]].in)
<1>1. /\ InPartition(pr[1]) /\ ops[pr[1]].kind \in MainOpKind
      /\ pr[2] <= Len(ops[pr[1]].in)
  BY Zenon DEF Discoveries
<1>2. pr \in OpIds \X Slots
  BY Zenon DEF Discoveries
<1>3. pr = <<pr[1], pr[2]>> /\ pr[1] \in OpIds /\ pr[2] \in Slots
  BY <1>2
<1>. QED  BY <1>1, <1>3

\* Every op's input list has a natural length.
LEMMA InLenNat ==
    ASSUME GraphTypeOK, NEW o \in OpIds
    PROVE  ops[o].in \in Seq(TensorIds) /\ Len(ops[o].in) \in Nat
BY DEF GraphTypeOK, OpRec

\* A step that keeps the map and the finished pairs keeps MapHoldsFirst.
LEMMA MapKept ==
    ASSUME NEW t, MapHoldsFirst(t), qd'[t] = qd[t], Seen(t)' = Seen(t)
    PROVE  MapHoldsFirst(t)'
BY DEF MapHoldsFirst, Entry

\* The constructor starts before the first op, with an empty map.
LEMMA RInvInit == Init => RInv
<1> SUFFICES ASSUME Init PROVE RInv
  OBVIOUS
<1>1. IInv
  BY IInvInit
<1>2. GraphTypeOK
  BY <1>1 DEF IInv, TypeInv, TypeOK
<1>3. ASSUME NEW t \in TensorIds PROVE Seen(t) = {}
  <2>1. ASSUME NEW pr \in Discoveries(MainOpKind, t) PROVE pr[1] \in OpIds
    BY <1>2, DiscoveryForm, Zenon
  <2>2. pc = "ops" /\ k = 1
    BY DEF Init
  <2>3. ASSUME NEW pr \in Discoveries(MainOpKind, t)
        PROVE  ~Before(pr, pc, k, i)
    <3>1. pr[1] \in OpIds
      BY <2>1
    <3>. QED  BY <2>2, <3>1 DEF OpIds, Before
  <2>. QED  BY <2>3, Zenon DEF Seen, SeenAt
<1>. QED  BY <1>1, <1>3 DEF Init, RInv, DoneAtEnd, WalkFound, MapHoldsFirst

-----------------------------------------------------------------------------
(* How a step changes the finished pairs *)

\* One step of Found from a tensor, in each of the ways a walk iteration ends.
LEMMA FoundStep ==
    ASSUME GraphTypeOK, NEW t \in TensorIds
    PROVE  LET p == GetOpByOutLt(t)
           IN  /\ p = NoOp => Found[t] = NoTensor
               /\ p # NoOp /\ ops[p].kind = "Dequantize" /\ DqAccepted(p)
                    => Found[t] = ops[p].in[1]
               /\ p # NoOp /\ ~(ops[p].kind = "Dequantize" /\ DqAccepted(p))
                    /\ ops[p].kind \in GoThroughOpKind
                    => Found[t] = Found[ops[p].in[1]]
               /\ p # NoOp /\ ops[p].kind \notin GoThroughOpKind
                    => Found[t] = NoTensor
<1>1. Found[t] = FoundBody(Found, t)
  BY FoundDef
<1>. QED  BY <1>1 DEF FoundBody, GoThroughOpKind

\* The slots of an op are among its first MaxSlots inputs.
LEMMA SlotsBounded ==
    ASSUME GraphTypeOK, NEW o \in OpIds, NEW j \in 1..Len(ops[o].in)
    PROVE  j \in Slots
<1>1. Len(ops[o].in) \in Arities(ops[o].kind)
  BY DEF GraphTypeOK, WellFormed
<1>2. Len(ops[o].in) \in 1..MaxSlots
  BY <1>1, ArityPositive
<1>3. \A n \in 1..MaxSlots : 1..n \subseteq Slots
  BY DEF Slots, MaxSlots
<1>. QED  BY <1>2, <1>3, Zenon

\* A slot whose walk ends elsewhere is no discovery of t.
LEMMA NotDiscovery ==
    ASSUME NEW t, NEW a, NEW j, Found[ops[a].in[j]] # t
    PROVE  <<a, j>> \notin Discoveries(MainOpKind, t)
BY Zenon DEF Discoveries

\* A step that moves the scan without finishing a discovery keeps Seen.
LEMMA SameSeen ==
    ASSUME UNCHANGED graphVars, NEW t,
           \A pr \in Discoveries(MainOpKind, t) :
               Before(pr, pc', k', i') = Before(pr, pc, k, i)
    PROVE  Seen(t)' = Seen(t)
<1>1. Seen(t)' = SeenAt(t, pc', k', i')
  BY SeenPrime
<1>. QED  BY <1>1, Zenon DEF Seen, SeenAt

(***************************************************************************)
(* When a walk ends, slot i of op k is finished: the finished pairs gain  *)
(* (k, i) if it is a discovery of t, and nothing else.                    *)
(***************************************************************************)
LEMMA SlotDoneSeen ==
    ASSUME GraphTypeOK, UNCHANGED graphVars, NEW t,
           pc = "walk", pc' = "slot", k' = k, i' = i + 1, k \in OpIds, i \in Nat
    PROVE  Seen(t)' = Seen(t) \cup ({<<k, i>>} \cap Discoveries(MainOpKind, t))
<1>1. Seen(t)' = SeenAt(t, pc', k', i')
  BY SeenPrime
<1>2. ASSUME NEW pr \in Discoveries(MainOpKind, t)
      PROVE  Before(pr, pc', k', i') <=> Before(pr, pc, k, i) \/ pr = <<k, i>>
  <2>1. pr = <<pr[1], pr[2]>> /\ pr[1] \in OpIds /\ pr[2] \in Slots
    BY DiscoveryForm, Zenon
  <2>. QED  BY <2>1 DEF Before, OpIds, Slots, MaxSlots
<1>. QED  BY <1>1, <1>2, Zenon DEF Seen, SeenAt

\* Every finished discovery was finished before slot i of op k.
LEMMA SeenBefore ==
    ASSUME GraphTypeOK, NEW t, NEW pr \in Seen(t), pc = "walk"
    PROVE  /\ pr = <<pr[1], pr[2]>> /\ pr[1] \in OpIds /\ pr[2] \in Slots
           /\ pr[1] < k \/ (pr[1] = k /\ pr[2] < i)
<1>1. pr \in Discoveries(MainOpKind, t) /\ Before(pr, pc, k, i)
  BY DEF Seen, SeenAt
<1>2. pr = <<pr[1], pr[2]>> /\ pr[1] \in OpIds /\ pr[2] \in Slots
  BY <1>1, DiscoveryForm, Zenon
<1>. QED  BY <1>1, <1>2 DEF Before

(***************************************************************************)
(* emplace at the end of a walk: when slot i of op k is the first         *)
(* discovery of t the record (k, i) is stored; otherwise the record kept  *)
(* is still the first, since every finished pair comes before (k, i).     *)
(***************************************************************************)
LEMMA MapAdd ==
    ASSUME GraphTypeOK, NEW t, MapHoldsFirst(t), pc = "walk",
           k \in OpIds, i \in Nat, NEW c,
           Seen(t)' = Seen(t) \cup {<<k, i>>},
           Seen(t) = {} => qd'[t] = [aop |-> k, slot |-> i, chain |-> c],
           Seen(t) # {} => qd'[t] = qd[t]
    PROVE  MapHoldsFirst(t)'
<1>1. CASE Seen(t) = {}
  <2>1. qd'[t] # NoRec /\ Entry(t)' = <<k, i>>
    BY <1>1 DEF Entry, NoRec, NoOp, OpIds
  <2>2. IsFirst(<<k, i>>, {<<k, i>>})
    BY DEF IsFirst
  <2>. QED  BY <1>1, <2>1, <2>2 DEF MapHoldsFirst
<1>2. CASE Seen(t) # {}
  <2>1. qd[t] # NoRec /\ Entry(t) \in Seen(t) /\ IsFirst(Entry(t), Seen(t))
    BY <1>2 DEF MapHoldsFirst
  <2>2. qd'[t] # NoRec /\ Entry(t)' = Entry(t)
    BY <1>2, <2>1 DEF Entry
  <2>3. Entry(t)[1] < k \/ (Entry(t)[1] = k /\ Entry(t)[2] < i)
    BY <2>1, SeenBefore, Zenon
  <2>4. Entry(t)[1] \in OpIds /\ Entry(t)[2] \in Slots
    BY <2>1, SeenBefore, Zenon
  <2>5. IsFirst(Entry(t), Seen(t) \cup {<<k, i>>})
    BY <2>1, <2>3, <2>4 DEF IsFirst, OpIds, Slots, MaxSlots
  <2>. QED  BY <1>2, <2>1, <2>2, <2>5 DEF MapHoldsFirst
<1>. QED  BY <1>1, <1>2

-----------------------------------------------------------------------------
(* The invariant is inductive *)

\* What every step may rely on.
LEMMA StepContext ==
    ASSUME RInv, [Next]_vars
    PROVE  /\ IInv'
           /\ UNCHANGED graphVars
           /\ GraphTypeOK
           /\ Found' = Found
           /\ qd \in [TensorIds -> Rec \cup {NoRec}]
           /\ k \in 1..(NumOps + 1) /\ i \in Nat \ {0}
           /\ PcInv /\ WalkInv
<1>1. IInv' /\ UNCHANGED graphVars
  BY IInvStep, GraphFixed DEF RInv
<1>2. Found' = Found
  BY <1>1, DiscoveriesFixed
<1>. QED  BY <1>1, <1>2 DEF RInv, IInv, TypeInv, TypeOK

\* What the invariant says of the walk's position.
LEMMA WalkContext ==
    ASSUME RInv, pc = "walk"
    PROVE  /\ GraphTypeOK
           /\ k \in OpIds /\ InPartition(k) /\ ops[k].kind \in MainOpKind
           /\ i \in 1..Len(ops[k].in) /\ i \in Slots
           /\ lt \in TensorIds /\ Found[lt] = Found[ops[k].in[i]]
           /\ qd \in [TensorIds -> Rec \cup {NoRec}]
<1>1. GraphTypeOK /\ PcInv /\ qd \in [TensorIds -> Rec \cup {NoRec}]
  BY DEF RInv, IInv, TypeInv, TypeOK
<1>2. k \in OpIds /\ InPartition(k) /\ ops[k].kind \in MainOpKind
      /\ i \in 1..Len(ops[k].in)
  BY <1>1 DEF PcInv
<1>3. i \in Slots
  BY <1>1, <1>2, SlotsBounded
<1>. QED  BY <1>1, <1>2, <1>3 DEF RInv, WalkFound

\* The producer of the walk's tensor, when there is one, is an op.
LEMMA ParentOp ==
    ASSUME NEW x \in TensorIds, GetOpByOutLt(x) # NoOp
    PROVE  GetOpByOutLt(x) \in OpIds /\ GetOpByOutLt(x) = x
BY DEF GetOpByOutLt

(***************************************************************************)
(* A walk that ends on a tensor other than t (a graph input, a stop, or   *)
(* another boundary) leaves t's entry and its finished pairs as they were. *)
(***************************************************************************)
LEMMA WalkEndsElsewhere ==
    ASSUME RInv, pc = "walk", pc' = "slot", k' = k, i' = i + 1,
           UNCHANGED graphVars, NEW t \in TensorIds, Found[lt] # t, qd'[t] = qd[t]
    PROVE  MapHoldsFirst(t)'
<1>1. GraphTypeOK /\ k \in OpIds /\ i \in Nat /\ Found[lt] = Found[ops[k].in[i]]
  BY WalkContext
<1>2. <<k, i>> \notin Discoveries(MainOpKind, t)
  BY <1>1, NotDiscovery
<1>3. Seen(t)' = Seen(t)
  BY <1>1, <1>2, SlotDoneSeen
<1>4. MapHoldsFirst(t)
  BY DEF RInv
<1>. QED  BY <1>3, <1>4, MapKept

LEMMA RInvStep == RInv /\ [Next]_vars => RInv'
<1> SUFFICES ASSUME RInv, [Next]_vars PROVE RInv'
  OBVIOUS
<1>0. /\ IInv' /\ UNCHANGED graphVars /\ GraphTypeOK /\ Found' = Found
      /\ qd \in [TensorIds -> Rec \cup {NoRec}]
      /\ k \in 1..(NumOps + 1) /\ i \in Nat \ {0}
      /\ PcInv /\ WalkInv
  BY StepContext
<1>1. CASE UNCHANGED vars \/ ScanFinished
  <2>1. UNCHANGED vars
    BY <1>1 DEF ScanFinished
  <2>2. ASSUME NEW t \in TensorIds PROVE MapHoldsFirst(t)'
    <3>1. \A pr \in Discoveries(MainOpKind, t) :
            Before(pr, pc', k', i') = Before(pr, pc, k, i)
      BY <2>1 DEF vars, scanVars
    <3>2. Seen(t)' = Seen(t)
      BY <1>0, <3>1, SameSeen
    <3>. QED  BY <2>1, <3>2, MapKept DEF RInv, vars, scanVars
  <2>3. DoneAtEnd' /\ WalkFound'
    BY <1>0, <2>1 DEF RInv, DoneAtEnd, WalkFound, vars, scanVars, graphVars
  <2>. QED  BY <1>0, <2>2, <2>3 DEF RInv
<1>2. CASE SkipOp
  <2>1. ASSUME NEW t \in TensorIds PROVE MapHoldsFirst(t)'
    <3>1. ASSUME NEW pr \in Discoveries(MainOpKind, t)
          PROVE  Before(pr, pc', k', i') = Before(pr, pc, k, i)
      <4>1. pr[1] \in OpIds /\ InPartition(pr[1]) /\ ops[pr[1]].kind \in MainOpKind
        BY <1>0, DiscoveryForm, Zenon
      <4>. QED  BY <1>2, <4>1, <1>0 DEF SkipOp, Before, OpIds
    <3>2. Seen(t)' = Seen(t)
      BY <1>0, <3>1, SameSeen
    <3>. QED  BY <1>2, <3>2, MapKept DEF RInv, SkipOp
  <2>. QED  BY <1>0, <1>2, <2>1 DEF RInv, DoneAtEnd, WalkFound, SkipOp
<1>3. CASE EnterOp
  <2>1. ASSUME NEW t \in TensorIds PROVE MapHoldsFirst(t)'
    <3>1. ASSUME NEW pr \in Discoveries(MainOpKind, t)
          PROVE  Before(pr, pc', k', i') = Before(pr, pc, k, i)
      <4>1. pr[1] \in OpIds /\ pr[2] \in Slots
        BY <1>0, DiscoveryForm, Zenon
      <4>. QED  BY <1>3, <4>1, <1>0 DEF EnterOp, Before, OpIds, Slots, MaxSlots
    <3>2. Seen(t)' = Seen(t)
      BY <1>0, <3>1, SameSeen
    <3>. QED  BY <1>3, <3>2, MapKept DEF RInv, EnterOp
  <2>. QED  BY <1>0, <1>3, <2>1 DEF RInv, DoneAtEnd, WalkFound, EnterOp
<1>4. CASE ScanEnd
  <2>1. ASSUME NEW t \in TensorIds PROVE MapHoldsFirst(t)'
    <3>1. ASSUME NEW pr \in Discoveries(MainOpKind, t)
          PROVE  Before(pr, pc', k', i') = Before(pr, pc, k, i)
      BY <1>4 DEF ScanEnd, Before
    <3>2. Seen(t)' = Seen(t)
      BY <1>0, <3>1, SameSeen
    <3>. QED  BY <1>4, <3>2, MapKept DEF RInv, ScanEnd
  <2>. QED  BY <1>0, <1>4, <2>1 DEF RInv, DoneAtEnd, WalkFound, ScanEnd
<1>5. CASE StartSlot
  <2>1. ASSUME NEW t \in TensorIds PROVE MapHoldsFirst(t)'
    <3>1. ASSUME NEW pr \in Discoveries(MainOpKind, t)
          PROVE  Before(pr, pc', k', i') = Before(pr, pc, k, i)
      BY <1>5 DEF StartSlot, Before
    <3>2. Seen(t)' = Seen(t)
      BY <1>0, <3>1, SameSeen
    <3>. QED  BY <1>5, <3>2, MapKept DEF RInv, StartSlot
  <2>2. WalkFound'
    <3>1. k \in OpIds /\ i \in 1..Len(ops[k].in)
      BY <1>5, <1>0 DEF StartSlot, PcInv
    <3>2. ops[k].in[i] \in TensorIds
      BY <1>0, <3>1, InputTyped
    <3>. QED  BY <1>0, <1>5, <3>2 DEF StartSlot, WalkFound, graphVars
  <2>. QED  BY <1>0, <1>5, <2>1, <2>2 DEF RInv, DoneAtEnd, StartSlot
<1>6. CASE EndSlots
  <2>1. ASSUME NEW t \in TensorIds PROVE MapHoldsFirst(t)'
    <3>1. ASSUME NEW pr \in Discoveries(MainOpKind, t)
          PROVE  Before(pr, pc', k', i') = Before(pr, pc, k, i)
      <4>1. pr[1] \in OpIds /\ pr[2] \in Slots /\ pr[2] <= Len(ops[pr[1]].in)
        BY <1>0, DiscoveryForm, Zenon
      <4>2. k \in OpIds /\ i > Len(ops[k].in)
        BY <1>6, <1>0 DEF EndSlots, PcInv
      <4>3. Len(ops[k].in) \in Nat
        BY <1>0, <4>2, InLenNat
      <4>. QED  BY <1>0, <1>6, <4>1, <4>2, <4>3 DEF EndSlots, Before, OpIds, Slots, MaxSlots
    <3>2. Seen(t)' = Seen(t)
      BY <1>0, <3>1, SameSeen
    <3>. QED  BY <1>6, <3>2, MapKept DEF RInv, EndSlots
  <2>. QED  BY <1>0, <1>6, <2>1 DEF RInv, DoneAtEnd, WalkFound, EndSlots
<1>7. CASE WalkNoProducer
  <2>1. Found[lt] = NoTensor
    <3>1. GraphTypeOK /\ lt \in TensorIds
      BY <1>7, WalkContext DEF WalkNoProducer
    <3>. QED  BY <1>7, <3>1, FoundStep DEF WalkNoProducer, Parent
  <2>2. ASSUME NEW t \in TensorIds PROVE MapHoldsFirst(t)'
    <3>1. Found[lt] # t
      BY <2>1, <2>2, NumOpsAssumption DEF NoTensor, TensorIds, OpIds, ExtIds
    <3>. QED  BY <1>7, <3>1, WalkEndsElsewhere DEF WalkNoProducer
  <2>. QED  BY <1>0, <1>7, <2>2 DEF RInv, DoneAtEnd, WalkFound, WalkNoProducer
<1>8. CASE WalkStop
  <2>1. Found[lt] = NoTensor
    <3>1. GraphTypeOK /\ lt \in TensorIds
      BY <1>8, WalkContext DEF WalkStop
    <3>. QED  BY <1>8, <3>1, FoundStep DEF WalkStop, Parent
  <2>2. ASSUME NEW t \in TensorIds PROVE MapHoldsFirst(t)'
    <3>1. Found[lt] # t
      BY <2>1, <2>2, NumOpsAssumption DEF NoTensor, TensorIds, OpIds, ExtIds
    <3>. QED  BY <1>8, <3>1, WalkEndsElsewhere DEF WalkStop
  <2>. QED  BY <1>0, <1>8, <2>2 DEF RInv, DoneAtEnd, WalkFound, WalkStop
<1>9. CASE WalkContinue
  <2>1. GraphTypeOK /\ lt \in TensorIds /\ Found[lt] = Found[ops[k].in[i]]
    BY <1>9, WalkContext DEF WalkContinue
  <2>2. Parent \in OpIds
    BY <1>9, <2>1, ParentOp DEF WalkContinue, Parent
  <2>3. lt' \in TensorIds
    BY <1>9, <2>1, <2>2, FirstInputExists, InputTyped DEF WalkContinue
  <2>4. Found[lt'] = Found[lt]
    BY <1>9, <2>1, FoundStep DEF WalkContinue, Parent
  <2>5. WalkFound'
    BY <1>0, <1>9, <2>1, <2>3, <2>4 DEF WalkContinue, WalkFound, graphVars
  <2>6. ASSUME NEW t \in TensorIds PROVE MapHoldsFirst(t)'
    <3>1. \A pr \in Discoveries(MainOpKind, t) :
            Before(pr, pc', k', i') = Before(pr, pc, k, i)
      BY <1>9 DEF WalkContinue
    <3>2. Seen(t)' = Seen(t)
      BY <1>0, <3>1, SameSeen
    <3>. QED  BY <1>9, <3>2, MapKept DEF RInv, WalkContinue
  <2>. QED  BY <1>0, <1>9, <2>5, <2>6 DEF RInv, DoneAtEnd, WalkContinue
<1>10. CASE WalkAccept
  <2> DEFINE r == [aop |-> k, slot |-> i, chain |-> Append(chain, Parent)]
  <2>1. /\ GraphTypeOK /\ k \in OpIds /\ i \in Slots /\ i \in 1..Len(ops[k].in)
        /\ InPartition(k) /\ ops[k].kind \in MainOpKind
        /\ lt \in TensorIds /\ Found[lt] = Found[ops[k].in[i]]
        /\ qd \in [TensorIds -> Rec \cup {NoRec}]
    BY <1>10, WalkContext DEF WalkAccept
  <2>2. Parent \in OpIds
    BY <1>10, <2>1, ParentOp DEF WalkAccept, Parent
  <2>3. PICK b \in TensorIds : b = ops[Parent].in[1]
    BY <2>1, <2>2, FirstInputExists, InputTyped
  <2>4. Found[lt] = b
    BY <1>10, <2>1, <2>3, FoundStep DEF WalkAccept, Parent
  <2>5. qd' = IF qd[b] = NoRec THEN [qd EXCEPT ![b] = r] ELSE qd
    BY <1>10, <2>3 DEF WalkAccept, Emplace
  <2>6. ASSUME NEW t \in TensorIds, t # b PROVE MapHoldsFirst(t)'
    <3>1. qd'[t] = qd[t]
      BY <2>1, <2>5, <2>6
    <3>. QED  BY <1>10, <2>4, <2>6, <3>1, WalkEndsElsewhere DEF WalkAccept
  <2>7. MapHoldsFirst(b)'
    <3>1. <<k, i>> \in Discoveries(MainOpKind, b)
      <4>1. <<k, i>> \in OpIds \X Slots /\ <<k, i>>[1] = k /\ <<k, i>>[2] = i
        BY <2>1
      <4>2. Found[ops[k].in[i]] = b /\ i <= Len(ops[k].in)
        BY <2>1, <2>4
      <4>. QED  BY <2>1, <4>1, <4>2, Zenon DEF Discoveries
    <3>2. Seen(b)' = Seen(b) \cup {<<k, i>>}
      <4>1. Seen(b)' = Seen(b) \cup ({<<k, i>>} \cap Discoveries(MainOpKind, b))
        <5>1. i \in Nat /\ UNCHANGED graphVars /\ pc' = "slot" /\ k' = k /\ i' = i + 1
          BY <1>10, <2>1 DEF WalkAccept
        <5>. QED  BY <1>10, <2>1, <5>1, SlotDoneSeen DEF WalkAccept
      <4>. QED  BY <3>1, <4>1
    <3>3. MapHoldsFirst(b)
      BY <2>3 DEF RInv
    <3>4. Seen(b) = {} => qd'[b] = r
      BY <2>1, <2>3, <2>5, <3>3 DEF MapHoldsFirst
    <3>5. Seen(b) # {} => qd'[b] = qd[b]
      BY <2>1, <2>3, <2>5, <3>3 DEF MapHoldsFirst
    <3>6. pc = "walk" /\ i \in Nat
      BY <1>10, <2>1 DEF WalkAccept
    <3>. QED  BY <2>1, <3>2, <3>3, <3>4, <3>5, <3>6, MapAdd
  <2>. QED  BY <1>0, <1>10, <2>6, <2>7 DEF RInv, DoneAtEnd, WalkFound, WalkAccept
<1>. QED  BY <1>1, <1>2, <1>3, <1>4, <1>5, <1>6, <1>7, <1>8, <1>9, <1>10
          DEF Next, ScanNext

-----------------------------------------------------------------------------
(* The refinement *)

\* When the outer loop has passed the last op, every discovery is finished.
LEMMA SeenAll ==
    ASSUME GraphTypeOK, k = NumOps + 1, NEW t
    PROVE  Seen(t) = Discoveries(MainOpKind, t)
<1>1. ASSUME NEW pr \in Discoveries(MainOpKind, t) PROVE Before(pr, pc, k, i)
  <2>1. pr[1] \in OpIds
    BY DiscoveryForm, Zenon
  <2>. QED  BY <2>1, NumOpsAssumption DEF Before, OpIds
<1>. QED  BY <1>1 DEF Seen, SeenAt

\* ScanResult is stated over the same graph and the same scan rules.
LEMMA SameRules ==
    /\ SR!TensorIds = TensorIds
    /\ SR!NoOp = NoOp
    /\ \A t : SR!Discoveries(SR!MainOpKind, t) = Discoveries(MainOpKind, t)
    /\ \A a, D : SR!IsFirst(a, D) = IsFirst(a, D)
<1>1. SR!TensorIds = TensorIds /\ SR!OpIds = OpIds /\ SR!NoOp = NoOp
  BY DEF SR!TensorIds, SR!OpIds, SR!ExtIds, TensorIds, OpIds, ExtIds, SR!NoOp, NoOp
<1>2. SR!Found = Found
  BY <1>1 DEF SR!Found, Found, SR!GetOpByOutLt, GetOpByOutLt, SR!NoTensor, NoTensor,
              SR!DqAccepted, DqAccepted, SR!InPartition, InPartition,
              SR!GoThroughOpKind, GoThroughOpKind
<1>3. SR!MainOpKind = MainOpKind /\ \A o : SR!InPartition(o) = InPartition(o)
  BY DEF SR!MainOpKind, MainOpKind, SR!InPartition, InPartition
<1>4. \A t : SR!Discoveries(SR!MainOpKind, t) = Discoveries(MainOpKind, t)
  BY <1>1, <1>2, <1>3 DEF SR!Discoveries, Discoveries, SR!Slots, Slots, SR!MaxSlots, MaxSlots
<1>. QED  BY <1>1, <1>4 DEF SR!IsFirst, IsFirst

(***************************************************************************)
(* At the end of the outer loop the entry of every tensor is what         *)
(* ScanResult expects: the first discovery, or the empty entry.            *)
(***************************************************************************)
\* ScanResult's expected entry of t, over the scan's own operators.
LEMMA ExpectedAt ==
    ASSUME NEW t \in TensorIds
    PROVE  LET D == Discoveries(MainOpKind, t)
           IN  SR!Expected[t] = IF D = {} THEN <<NoOp, 0>>
                                ELSE CHOOSE as \in D : IsFirst(as, D)
<1> DEFINE D == Discoveries(MainOpKind, t)
<1>1. t \in SR!TensorIds /\ SR!Discoveries(SR!MainOpKind, t) = D
  BY SameRules
<1>2. SR!Expected[t] = IF D = {} THEN SR!NoEntry ELSE SR!FirstOf(D)
  BY <1>1 DEF SR!Expected
<1>3. SR!FirstOf(D) = CHOOSE as \in D : IsFirst(as, D)
  BY DEF SR!FirstOf, SR!IsFirst, IsFirst
<1>4. SR!NoEntry = <<NoOp, 0>>
  BY SameRules DEF SR!NoEntry
<1>. QED  BY <1>2, <1>3, <1>4

LEMMA EntryExpected ==
    ASSUME RInv, k = NumOps + 1, NEW t \in TensorIds
    PROVE  Entry(t) = SR!Expected[t]
<1> DEFINE D == Discoveries(MainOpKind, t)
           F == CHOOSE as \in D : IsFirst(as, D)
<1>0. SR!Expected[t] = IF D = {} THEN <<NoOp, 0>> ELSE F
  BY ExpectedAt
<1>1. GraphTypeOK /\ MapHoldsFirst(t)
  BY DEF RInv, IInv, TypeInv, TypeOK
<1>2. Seen(t) = D
  BY <1>1, SeenAll
<1>3. CASE D = {}
  <2>1. qd[t] = NoRec
    BY <1>1, <1>2, <1>3 DEF MapHoldsFirst
  <2>. QED  BY <1>0, <1>3, <2>1 DEF Entry
<1>4. CASE D # {}
  <2>1. Entry(t) \in D /\ IsFirst(Entry(t), D)
    BY <1>1, <1>2, <1>4 DEF MapHoldsFirst
  <2>2. F \in D /\ IsFirst(F, D)
    BY <2>1
  <2>3. D \subseteq OpIds \X Slots
    BY DEF Discoveries
  <2>4. Entry(t) = F
    BY <2>1, <2>2, <2>3, FirstUnique
  <2>. QED  BY <1>0, <1>4, <2>4
<1>. QED  BY <1>3, <1>4

\* The constructor starts where ScanResult starts: an empty map, not returned.
LEMMA RefInit == Init => SR!SRInit
<1> SUFFICES ASSUME Init PROVE SR!SRInit
  OBVIOUS
<1>1. [t \in TensorIds |-> IF pc = "done" THEN Entry(t) ELSE <<NoOp, 0>>]
        = [t \in SR!TensorIds |-> SR!NoEntry]
  BY SameRules DEF Init, SR!NoEntry
<1>2. GraphInit = SR!GraphInit
  BY SameRules DEF GraphInit, SR!GraphInit, GraphTypeOK, SR!GraphTypeOK,
                   WellFormed, SR!WellFormed, Avail, SR!Avail, OpRec, SR!OpRec,
                   Arities, SR!Arities, SR!OpIds, OpIds, SR!ExtIds, ExtIds,
                   SmallOpRec, SR!SmallOpRec, BinaryKinds, SR!BinaryKinds, BiasKinds, SR!BiasKinds,
                   TensorIds, SR!TensorIds
<1>. QED  BY <1>1, <1>2 DEF Init, SR!SRInit

\* Every step of the loops is a stutter of ScanResult but the last, its Scan.
LEMMA RefStep == RInv /\ [Next]_vars => [SR!Scan]_SR!srVars
<1> SUFFICES ASSUME RInv, [Next]_vars PROVE [SR!Scan]_SR!srVars
  OBVIOUS
<1>1. UNCHANGED graphVars
  BY GraphFixed
<1>2. CASE ScanEnd
  <2>1. \A t \in TensorIds : Entry(t)' = Entry(t)
    BY <1>2 DEF ScanEnd, Entry
  <2>2. \A t \in TensorIds : Entry(t) = SR!Expected[t]
    BY <1>2, EntryExpected DEF ScanEnd
  <2>3. SR!Expected = [t \in TensorIds |-> SR!Expected[t]]
    BY SameRules DEF SR!Expected
  <2>4. [t \in TensorIds |-> IF pc' = "done" THEN Entry(t)' ELSE <<NoOp, 0>>]
          = SR!Expected
    BY <1>2, <2>1, <2>2, <2>3 DEF ScanEnd
  <2>. QED  BY <1>1, <1>2, <2>4 DEF ScanEnd, SR!Scan, SR!graphVars, graphVars
<1>3. CASE pc = "done"
  <2>1. UNCHANGED vars
    BY <1>3 DEF Next, ScanNext, ScanFinished, SkipOp, EnterOp, ScanEnd,
                StartSlot, EndSlots, WalkNoProducer, WalkAccept, WalkContinue, WalkStop
  <2>. QED  BY <2>1 DEF SR!srVars, SR!graphVars, vars, scanVars, graphVars, Entry
<1>4. CASE pc # "done" /\ ~ScanEnd
  <2>1. pc' # "done" /\ UNCHANGED graphVars
    BY <1>1, <1>4 DEF Next, ScanNext, ScanFinished, vars, scanVars, SkipOp, EnterOp,
                StartSlot, EndSlots, WalkNoProducer, WalkAccept, WalkContinue, WalkStop
  <2>. QED  BY <1>4, <2>1 DEF SR!srVars, SR!graphVars, graphVars
<1>. QED  BY <1>2, <1>3, <1>4

(***************************************************************************)
(* The constructor of partition_data_displacer_t implements the safety of *)
(* ScanResult for every graph: until its outer loop over dg_->ops_ ends   *)
(* the abstract map stays empty, and the step that ends it leaves in     *)
(* quantize_displace_, for every boundary tensor, the first (main op,     *)
(* slot) in chronological order whose upward walk reaches it, and no      *)
(* entry for any other tensor: emplace keeps the first record.           *)
(***************************************************************************)
THEOREM ScanImplementsResultSafety == Spec => SR!SRInit /\ [][SR!Scan]_SR!srVars
<1>1. Init => RInv /\ SR!SRInit
  BY RInvInit, RefInit
<1>2. RInv /\ [Next]_vars => RInv' /\ [SR!Scan]_SR!srVars
  BY RInvStep, RefStep
<1>. QED  BY <1>1, <1>2, PTL DEF Spec

-----------------------------------------------------------------------------
(* The emplace at the end of a walk *)

\* The action of EmplaceAtWalkEnd.
EmplaceStep ==
    \A t \in TensorIds : qd'[t] # qd[t] =>
        /\ qd[t] = NoRec
        /\ Found[ops[k].in[i]] = t
        /\ qd'[t].aop = k
        /\ qd'[t].slot = i

\* Only WalkAccept writes the map, and it writes the tensor its walk reached.
LEMMA EmplaceStepHolds == RInv /\ [Next]_vars => [EmplaceStep]_vars
<1> SUFFICES ASSUME RInv, [Next]_vars PROVE [EmplaceStep]_vars
  OBVIOUS
<1>1. CASE WalkAccept
  <2>1. /\ GraphTypeOK /\ lt \in TensorIds /\ Found[lt] = Found[ops[k].in[i]]
        /\ qd \in [TensorIds -> Rec \cup {NoRec}]
    BY <1>1, WalkContext DEF WalkAccept
  <2>2. Parent \in OpIds
    BY <1>1, <2>1, ParentOp DEF WalkAccept, Parent
  <2>3. PICK b \in TensorIds : b = ops[Parent].in[1]
    BY <2>1, <2>2, FirstInputExists, InputTyped
  <2>4. Found[lt] = b
    BY <1>1, <2>1, <2>3, FoundStep DEF WalkAccept, Parent
  <2>5. qd' = IF qd[b] = NoRec
              THEN [qd EXCEPT ![b] = [aop |-> k, slot |-> i,
                                      chain |-> Append(chain, Parent)]]
              ELSE qd
    BY <1>1, <2>3 DEF WalkAccept, Emplace
  <2>. QED  BY <2>1, <2>4, <2>5 DEF EmplaceStep
<1>2. CASE ~WalkAccept
  <2>1. qd' = qd
    BY <1>2 DEF Next, ScanNext, ScanFinished, vars, scanVars, SkipOp, EnterOp, ScanEnd,
                StartSlot, EndSlots, WalkNoProducer, WalkContinue, WalkStop
  <2>. QED  BY <2>1 DEF EmplaceStep
<1>. QED  BY <1>1, <1>2

(***************************************************************************)
(* For every graph, each step of the constructor that changes             *)
(* quantize_displace_ is the emplace of a walk's end: one new entry, for  *)
(* the boundary the reference walk reaches from the slot being searched,  *)
(* recorded with that op and slot; no entry is ever overwritten.          *)
(***************************************************************************)
THEOREM EmplaceAtWalkEndHolds == Spec => EmplaceAtWalkEnd
<1>1. Init => RInv
  BY RInvInit
<1>2. RInv /\ [Next]_vars => RInv' /\ [EmplaceStep]_vars
  BY RInvStep, EmplaceStepHolds
<1>. QED  BY <1>1, <1>2, PTL DEF Spec, EmplaceAtWalkEnd, EmplaceStep

=============================================================================
