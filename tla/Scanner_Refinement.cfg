CONSTANTS
    NumOps <- MC_NumOps
    NumExt <- MC_NumExt
    Kinds <- MC_Kinds
    DTypes <- MC_DTypes
SPECIFICATION Spec
PROPERTY
    ImplementsScanResult
