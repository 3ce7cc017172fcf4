SPECIFICATION LibrarySpec
CONSTANTS
    MaxBytes = 6
    ChunkSize = 2
    Capacity = 3
    Window = 2
    MaxOut = 8
    ReceiverLeaves = TRUE
    Block256 = 4
    Block512 = 5
    MaxLabel = 4
    MaxString = 3
    MaxSeg = 10
    MaxLoop = 4
    Align = 8
    QuerySize = 8
    QuestionSize = 8
    AnswerSize = 16
    OptSize = 8
INVARIANTS TypeOK LosesOnlyTheTail Structures Precedence  Upgrades TextHelpers
           Digests Codec SmallBuffers AnyPacket
PROPERTIES PipeSpec Delivered EndReaches
CHECK_DEADLOCK FALSE
