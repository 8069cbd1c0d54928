CONSTANTS
    NumOps = 2
    NumExt = 1
    Kinds = {"MatMul", "Dequantize"}
    DTypes = {"u8"}
SPECIFICATION DSpec
INVARIANT FilledAtBoundaryType
