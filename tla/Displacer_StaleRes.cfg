CONSTANTS
    NumOps = 3
    NumExt = 2
    Kinds = {"MatMul", "Dequantize"}
    DTypes = {"u8"}
SPECIFICATION DSpec
INVARIANT CallsIndependent
