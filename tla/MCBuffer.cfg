SPECIFICATION BufferSpec
CONSTANTS
    Readers = {r1, r2, r3}
    NoReader = NoReader
    BufSize = 2
    ChunkSizes = {1, 3}
    MaxBytes = 5
INVARIANTS
    NoReaderStranded
    EofOnlyAtEnd
    TotalsSettle
PROPERTIES
    ReadsEndAfterDrain
CHECK_DEADLOCK FALSE
