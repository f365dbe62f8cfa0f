SPECIFICATION Spec
CONSTANTS
    ByteHalf = 2
    ShortHalf = 8
    IntHalf = 128
    LongHalf = 32768
    Programs <- Unsupported
    MaxClasses = 5
    MaxObjects = 3
    Junk <- MCJunk
    NativeResults <- MCNativeResults
INVARIANTS
    LoadedOnce
    ClinitNotReentered
    CallersWait
    OwnedOnce
PROPERTIES
    LifecycleSpec
