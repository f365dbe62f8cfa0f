SPECIFICATION FairSpec
CONSTANTS
    ByteHalf = 2
    ShortHalf = 8
    IntHalf = 128
    LongHalf = 32768
    Programs <- Scenarios
    MaxClasses = 100
    MaxObjects = 5000
    Junk <- MCJunk
    NativeResults <- MCNativeResults
INVARIANTS
    TypeOK
    OperandsTyped
    StackInBounds
    NoAssertionFails
    PointersLive
    StaticReadsLive
    CommonGround
PROPERTIES
    Terminates
    ImplementsJava
