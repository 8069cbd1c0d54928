CONSTANTS
    NumOps = 3
    NumExt = 1
    Kinds = {"MatMul", "Dequantize", "StaticTranspose"}
    DTypes = {"u8"}
SPECIFICATION Spec
INVARIANT BoundaryIsPartitionInput
