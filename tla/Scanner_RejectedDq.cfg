CONSTANTS
    NumOps = 3
    NumExt = 1
    Kinds = {"MatMul", "Dequantize", "Quantize"}
    DTypes = {"u8"}
SPECIFICATION Spec
INVARIANT RejectedDequantizeEndsSlot
