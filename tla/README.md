# Formal model of the benchdnn graph input displacer

This directory holds TLA+ models of `partition_data_displacer_t`
(`src/tests/benchdnn/graph/input_displacer.cpp`), the TLC configurations that
model-check them, and TLAPS proofs of their main properties. The ukernel C++
wrappers (`src/include/oneapi/dnnl/dnnl_ukernel.hpp`) are not modelled; see
"Not modelled".

## The system

The displacer prepares quantization-aware input data for one partition of a
deserialized oneDNN graph. It has three parts.

- **Graph index.** This is the deserialized graph (`dg_->ops_`, in chronological
  order) with `get_op_by_out_lt`. It also holds the partition's op-id set
  `op_ids_set_` (lines 26-27). All of it is read-only. The slot loop (line 60)
  walks every entry of `in_lts_`, so the optional bias input of MatMul,
  Convolution and ConvTranspose is a third slot.
- **Boundary scanner.** This is the constructor (lines 23-95). It visits every
  op of the partition whose kind is in `main_op_kind`. For each input slot it
  walks upward through producers along their first input. The first
  `Dequantize` whose own input is produced outside the partition, or by no op,
  is accepted. It is recorded in `quantize_displace_` under its input tensor
  id, and `emplace` keeps the first record. The walk goes on through ops in
  `go_through_op_kind` and stops at any other op or at a graph input.
- **Displacement executor.** `displace_input_data` (lines 97-197) and
  `gen_quantize_filling` (199-239). A test driver calls `displace_input_data`
  once per partition input with the same `res_t`. If the tensor has no record,
  the call returns OK. Otherwise it clones the main op with coerced element
  types, runs it in the reference backend and takes the requested argument as
  the filling. It should then replay the chain inverted (lines 125-191) and
  reorder the result into the caller's buffer. Inverting a `StaticTranspose`
  computes the inverse of its `order` attribute (lines 148-158).

## Modules

| Module | Models | State | Actions |
|---|---|---|---|
| `GraphIndex` | graph and partition | `ops`, `dtype`, `par`, chosen by Init over every well-formed graph of `NumOps` ops and `NumExt` graph inputs, then never changed | none |
| `ScanRules` | the constructor's kind sets and acceptance test, and the reference walk `Found` | | |
| `Scanner` | constructor | `pc`, `k` (op loop), `i` (slot loop), `lt` (walk's tensor), `chain` (ghost: ops walked), `qd` (`quantize_displace_`) | `SkipOp`, `EnterOp`, `ScanEnd`, `StartSlot`, `EndSlots`, `WalkNoProducer`, `WalkAccept`, `WalkContinue`, `WalkStop` |
| `ScanResult` | what the constructor promises | `result` (the map), `scanned` | `Scan`: one step to the first discovery of every boundary |
| `ScannerRefinement` | refinement mapping from `Scanner` to `ScanResult` | | |
| `Displacer` | scanner + driver + `displace_input_data` | `pending`, `target` (caller buffers), `resState` (the shared `res->state`), `drv`, `log` (ghost) | `DisplaceAbsent`, `DisplaceFillFailed`, `DisplaceSkipped`, `DisplaceReplayFailed`, `DisplaceWritten`, `DrvFinished` |
| `TransposeOrder` | the `StaticTranspose` order inversion loop | `order`, `newOrder`, `i` | `Step`, `Done` |
| `ScannerProofs`, `ScannerRefinementProofs`, `DisplacerProofs`, `TransposeOrderProofs` | TLAPS proofs | | |
| `MC_Scanner`, `MC_Displacer`, `MC_TransposeOrder` | TLC instances | | |

Op `k` is the `k`-th op of `ops_` and also its output tensor. Graph inputs have
the ids above `NumOps`, and `NoOp = 0` is the empty op. Each op's inputs come
from earlier ops or graph inputs, as the code assumes ("sorted in the
chronological order"). `Arities(kind)` gives the number of inputs an op may
have: one for unary kinds, two for the binary ones, and two or three for
`BiasKinds` (MatMul, Convolution, ConvTranspose), whose bias is optional.

A call of `displace_input_data` is one atomic step. The code runs on one thread
and never suspends, so no other step can fall inside a call. Each call action
covers one outcome of the whole handler. The backend's answer is a
nondeterministic choice: ready, invalid arguments, failure, skipped or
unimplemented. Data is abstracted to its provenance: the main op and slot it
was generated for, its element type, and the inverted ops applied to it.

The reverse loop of `displace_input_data` (lines 125-187) is modelled by the
op sequence it visits. `ReplayChain[t]` is the walk `c` in `OpWalks` (sequences
of at most `NumOps` ops) such that `IsReplayChain(t, c)`: it starts at `t`'s
producer, goes on from each op to the producer of its first input, every op it
visits passes the loop guard, and the guard fails where it stops. The guard
only admits partition ops, each one earlier than the last, so the walk is
unique and no longer than the graph. A buffer's data type is
`DTypes \cup {"s8", "none"}`: the filling's type is the tensor's own, `s8`
for the u8s8 case of `gen_quantize_filling`, or none for the driver's filling.
`FilledType` follows the clone's element types (lines 203-213): slot 1 gets
the boundary's type, slot 2 that type or `s8`, and a bias slot keeps the
type of the main op's own bias tensor.

`TransposeOrder` keeps the arithmetic of line 154. `order[i]` is an `int64_t`
and `ndims` a `size_t`, so a negative sum wraps to `sum + 2^64` before the `%`.
`Slot` models that wrap exactly, with `Pow2Mod` computing `2^SizeBits % n` by
doubling. Init takes every order attribute of up to `MaxDims` axes with values
in `-(MaxDims+1)..MaxDims`, valid or not, repeated axes included.
This branch of the reverse loop is unreachable in the code (finding 6), so
`TransposeOrder` checks the arithmetic of dead code on its own; it matters
once the loop guard is fixed.
`PROJECT.json` ("map") gives the source lines of every definition.

## Runs

| Run | Config | Expect | Shows |
|---|---|---|---|
| scanner | `MC_Scanner.cfg` | pass | `TypeOK`, `BoundaryChainValid` (each record is a real walk from a main op's slot to an accepted Dequantize), `EmplaceAtWalkEnd` (action property: a step that changes the map adds one entry, never overwrites, at the boundary `Found` gives for the slot being searched) |
| scanner_refinement | `Scanner_Refinement.cfg` | pass | `ImplementsScanResult`: the constructor terminates and then holds exactly the first discovery of each boundary, compared against the recursive reference walk `Found` |
| displacer | `MC_Displacer.cfg` | pass | `DTypeOK`, `TargetHoldsOwnFilling` (a buffer only gets the ready filling of its own record), `ReplayNeverRuns` |
| transpose_order | `MC_TransposeOrder.cfg` | pass | `InvertsValidOrders` (valid orders, negative axes included, are inverted) |
| vocabulary | `Scanner_Vocabulary.cfg` | violation | `Subtract` is never a main op (the code spells it `Substract`) |
| rejected_dq | `Scanner_RejectedDq.cfg` | violation | a rejected Dequantize does not end the slot's walk |
| outside_partition | `Scanner_OutsidePartition.cfg` | violation | a boundary can be recorded at a tensor that is not a partition input |
| filled_type | `Displacer_FilledType.cfg` | violation | u8 weights of MatMul are filled as s8 |
| stale_res | `Displacer_StaleRes.cfg` | violation | a SKIPPED state left by an earlier call makes a ready call return OK unwritten |

**Bounds.**
- `MC_Scanner` uses 3 ops, 1 graph input and the kinds MatMul, Dequantize,
  Quantize and StaticTranspose, over every graph and every partition
  (368K states, a few seconds). MatMul has two or three inputs, so a slot
  walk may start at the bias. The instance covers chains of two go-through
  ops, two main ops or two slots of one MatMul sharing one boundary
  (first-wins `emplace`), rejected and accepted Dequantize ops, and walks that
  leave the partition. With 4 ops the three-input MatMul makes the state
  space 92M states (20 minutes).
- `Scanner_Refinement` uses the same instance (24 s for the temporal check).
- `MC_Displacer` uses 3 ops and 2 graph inputs, so a MatMul can have three
  distinct boundaries and several calls can share `res_t`. That is 9.7M
  states, about 2 minutes.
- `MC_TransposeOrder` has ranks 0 to 3 and axis values -4..3 with 64-bit
  `size_t`. This covers negative axes, axes below `-ndims` (the wrap), repeated
  axes and the empty order.
- Each violation run uses the smallest instance that shows its counterexample.

**Fairness.** The constructor's loops run on one thread without blocking, and
so does the driver's loop. So `Spec` and `DSpec` take weak fairness of the
scan step and of the driver step. `ScanResult` has weak fairness of its one
step, so `ImplementsScanResult` also says the constructor finishes. The walk
ends because every step moves to an earlier op. `TransposeOrder` states no
liveness: the loop's end is a safety question here.

**Refinement.** `ScannerRefinement` maps the constructor's state onto
`ScanResult`:
- `scanned` is `pc = "done"`;
- `result` is `quantize_displace_` without the ghost chain once the scan is
  done, and empty before.

Each loop step maps to a stutter. `ScanEnd` maps to `Scan`, whose result is
`Expected`: for each tensor, the chronologically first (op, slot) among
`Discoveries`, computed from the recursive walk `Found`.

**Mutants.** Each property of a passing run has a seeded fault next to the
definition it alters, and TLC finds the property broken under that fault:
- an off-by-one slot (`WalkAcceptSlotZero`);
- a walk through any kind (`WalkContinueAnyKind`);
- `operator[]` instead of `emplace` (`EmplaceOverwrite`);
- a record of the wrong op (`DisplacedStaleOp`);
- no early return on SKIPPED (`DisplaceSkippedWrites`);
- a replay guard without its partition test (`InReplayAnyProducer`);
- `order[i] % ndims` without the `+ ndims` (`SlotNoShift`).

## Findings

Details are in `PROJECT.json`.
1. `main_op_kind` spells "Substract" (line 31).
2. A rejected Dequantize falls through, and the walk continues (line 88). The
   spec contradicts itself here (section 4.2 step 3 against section 9).
3. The walk never checks partition membership, so boundaries outside the
   partition are recorded and never displaced (line 69).
4. u8 weights are filled as s8 (line 208).
5. `res->state` is shared across calls and never reset, so a stale SKIPPED
   state suppresses a later displacement (line 123).
6. The reverse loop is dead. The accepted boundary's producer is outside the
   partition by the acceptance rule, and the driver passes only partition
   inputs (line 127). `ReplayNeverRuns` (run displacer, theorem
   `ReplayNeverRunsHolds`) states this for every graph.

## Proofs (checked by tlapm)

`ScannerProofs` holds for every `NumOps, NumExt >= 1` (`NumOpsAssumption`,
`NumExtAssumption`) and every kind and type set.

- `TypeCorrect == Spec => []TypeOK`. The inductive form is
  `TypeInv == TypeOK /\ PcInv`. `PcInv` adds that inside the slot and walk
  loops `k` is a main-kind partition op and `i` one of its slots. Without it
  `WalkAccept` could not be shown to build a record of type `Rec`.
- `BoundaryRecordsValid == Spec => []BoundaryChainValid`. The invariant
  `IInv == TypeInv /\ WalkInv /\ BoundaryChainValid` is inductive. `WalkInv`
  says that during a walk the ghost `chain` is a valid walk from slot `i` of op
  `k`, and that `lt` is the first input of its last op. This is what makes the
  new record of `WalkAccept` valid. Lemma `ChainExtend` shows that appending
  the next go-through producer keeps a chain valid. The other entries are kept
  because `emplace` never overwrites them and the graph never changes. `IInv`
  was also checked by TLC as an invariant of `MC_Scanner`.

`TransposeOrderProofs` holds for every `MaxDims` and every `SizeBits`
(`DimsAssumption`).
- `InversionCorrect == Spec => []InvertsValidOrders`. The loop invariant
  `LoopInv` says that for a valid order each earlier iteration `j` has stored
  `j` at the slot of axis `order[j]`.
  - `SlotIsAxis`: for a valid axis the sum is never negative, so the `size_t`
    wrap never happens and the slot is the axis.
  - `IterationStores`: a new store never overwrites an earlier one, because
    a valid order repeats no axis.
  - `AxesOnto`: at the end, the axes are `n` distinct values among `n`, so
    they cover `0..n-1`. This is pigeonhole, through `FS_Injection` of the
    library.
  - `InverseComputed`: with `AxesOnto`, the final `new_order` is the inverse
    permutation, and its own inverse is the order's axes.

`DisplacerProofs` holds for every graph size. It proves
`DisplacerTypeCorrect == DSpec => []DTypeOK`,
`OwnFillingHolds == DSpec => []TargetHoldsOwnFilling` and
`ReplayNeverRunsHolds == DSpec => []ReplayNeverRuns` from one inductive
invariant `DInv`. `DInv` is the scanner's `IInv`, the types, and one extra
conjunct: a buffer differs from the driver's filling only after the scan is
done and the tensor's call has been made (it is no longer pending). Without
that conjunct a scan step could change `qd[t]` under a buffer already written
for the old record; with it, no driver call happens before the scan is done and
the map never changes afterwards. `IInv` is needed because a written buffer
takes the record's main op and slot, and those are typed by
`BoundaryChainValid`. `ChainEmpty` proves that the reverse loop visits no op
from a partition input: the empty walk satisfies `IsReplayChain`, and a
non-empty one would start at a producer that passes the guard, which a
partition input's producer does not. `CallKeeps` is the step lemma shared by
the five call outcomes. `DInv` was checked by TLC on `MC_Displacer` first.

`ScannerRefinementProofs` proves
`ScanImplementsResultSafety == Spec => SR!SRInit /\ [][SR!Scan]_SR!srVars`:
the loops implement every safety part of `ScanResult` under the refinement
mapping of `ScannerRefinement`. The argument:
- `FoundDef` gives the recursion equation of the reference walk `Found` through
  `WFInductiveDef` of the library. The well-founded order is `RankLess`: a
  tensor's first input is an earlier op or a graph input (`FirstInputLower`).
- `RInv` strengthens `IInv`. `Seen(t)` is the set of discoveries of `t` (main op
  and slot pairs whose walk reaches `t`) that the scan has finished at its
  current `pc, k, i`. `MapHoldsFirst(t)` says `qd[t]` is empty while `Seen(t)`
  is, and otherwise holds the first element of `Seen(t)`. `WalkFound` says
  the walk's tensor `lt` leads to the same boundary as slot `i` of op `k`.
  `DoneAtEnd` says that `done` means the outer loop passed the last op.
  TLC checked `RInv` on `MC_Scanner` (367,662 states) before the proof.
- `SlotsBounded`: every slot is in `Slots == 1..MaxSlots`, since no kind has
  more than three inputs (`ArityPositive`).
- `RInvStep` takes one case per action. The steps that end a walk add
  `<<k, i>>` to `Seen` of the boundary they reach (`SlotDoneSeen`). For that
  tensor, `MapAdd` shows that `emplace` stores the pair when it is first and
  keeps the stored one otherwise. Every other tensor keeps its entry
  (`WalkEndsElsewhere`).
- `RefStep`: every step but `ScanEnd` leaves the abstract state alone. At
  `ScanEnd`, `Seen(t)` is all of `Discoveries(t)` (`SeenAll`), and the first
  element is unique (`FirstUnique`), so the map is `SR!Expected`.

`EmplaceAtWalkEndHolds == Spec => EmplaceAtWalkEnd` follows from the same
`RInv`: only `WalkAccept` writes the map, and `WalkFound` with `FoundStep`
shows that the tensor it writes is `Found` of the slot being searched.

**Only model-checked:**
- the liveness half of `ImplementsScanResult` (`WF_srVars(Scan)`: the
  constructor's loops end). It needs ENABLED and fairness reasoning, which is
  beyond the provers here.
- the violation runs (spec vocabulary, rejected Dequantize, boundary outside
  the partition, filled type, stale `res`).
  They are counterexamples, not theorems.
- what `Found` computes on a given graph beyond its recursion equation, and
  the value of `Pow2Mod`. Both would need induction over data with an
  operator parameter, which the installed provers cannot instantiate.

## Not modelled

- **Reference execution backend** (`ref_primitive_t`, not under `src/`). Its
  answers are nondeterministic inputs of the Displacer actions.
- **BRGeMM and transform ukernel wrappers** (`dnnl_ukernel.hpp`). Every
  method is `handle::get()`, one C call and a status check that throws. The
  objects' state (stage, configuration, the hardware context that
  `set_hw_context` loads) lives in the C library, which is not under `src/`.
  A model of it would be a guess at the library, not a translation of this
  code, and the wrapper has no control flow of its own for a property to
  tell apart.
- **Caller obligations of `brgemm::execute`.** The wrapper passes
  `A_B_offsets.data()` without checking its length against `batch_size`
  (line 220). It also passes `binary_po` without checking it against the
  post-ops (lines 236-237). The C side that reads these buffers is not under
  `src/`, and the model has no buffers. The wrapper has no control flow here
  for a property to check.
- **`pack_type`** (lines 65-74) is a plain enumeration, and the data-type
  conversions (`memory::convert_to_c`) are table lookups. Neither has state.
