CONSTANTS
    NumOps = 2
    NumExt = 1
    Kinds = {"Subtract", "MatMul", "Dequantize"}
    DTypes = {"u8"}
SPECIFICATION Spec
INVARIANT SpecVocabularyComplete
