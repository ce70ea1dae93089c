CONSTANTS
    Reads <- MCReads
    ElementBytes = 4
    FloatBytes = 4
    DecodedBytesPerRead = 32
    MinChunksPerRead = 2
    MaxDecodedBytesPerRead = 64
    SampleMost = 4
SPECIFICATION FairSpec
INVARIANTS PrefixFinal PiecesDecodeOnce PrefetchExact
PROPERTIES ReadEnds
