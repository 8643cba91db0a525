CONSTANTS
    b1 = b1
    b2 = b2
    b3 = b3
    v1 = v1
    Zero = Zero
    NoEntry = NoEntry
    Blocks <- MCBlocks
    Values <- MCValues
    DIM_CACHE = 2
    INTERVALO_TEMPO_CACHE = 2
    TEMPO_MAX = 10
    Garbage = {0, 1}
SPECIFICATION Spec
SYMMETRY BlockSymmetry
INVARIANTS TypeOK CacheCoherent DirtyWrittenWithinDeadline
PROPERTIES NRUOrder
