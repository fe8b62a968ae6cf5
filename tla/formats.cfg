SPECIFICATION Spec
CONSTANTS
    Byte = {0, 1}
    MaxLength = 9
    Modulus = 16
    Constant = 3
    SubTable <- MCSubTable
    Window = 3
    SplitCount = 2
    MinBits = 1
    MaxBits = 2
    LeastBlock = 2
    MaxBlock = 3
    MaxCount = 2
    ReadBuffer = 4
    MaxData = 12
    Neighbour = 2
    Sizes = {1, 2, 3, 5, 20}
    BlockLength = 2
    Piece = 3
    TempSize = 8
    LzmaBuffer = 3
    IdByte = {0, 31, 170, 255}
    MaxId = 6
    SizeMax = 12
    Path <- Paths
    Owner <- Owners
    Ids <- IdLists
    MaxObjects = 2
    MaxAdds = 3
    MaxSaves = 1
INVARIANTS BlocksAreTheFile HashOfWindow BlockSizes CountFits
    RestoredIsPlain RangeIsTheSeal
    EncodesBits DecodesBack BufferRespected
    EntriesResolve RoundTrip RestoreFinds
PROPERTIES FullReads
