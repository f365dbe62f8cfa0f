SPECIFICATION Spec
CONSTANTS
    ByteHalf = 2
    ShortHalf = 8
    IntHalf = 128
    LongHalf = 32768
    Programs <- Dispatch
    MaxClasses = 100
    MaxObjects = 3
    Junk <- MCJunk
    NativeResults <- MCNativeResults
PROPERTY
    DispatchesOnClass
