CONSTANTS
    MaxDims <- MC_MaxDims
    SizeBits <- MC_SizeBits
SPECIFICATION Spec
INVARIANTS
    InvertsValidOrders
