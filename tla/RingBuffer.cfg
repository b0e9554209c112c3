CONSTANTS
    max_pkt_size = 8
    U64 = 64
    U32 = 16
SPECIFICATION Spec
INVARIANTS IovecsExact
