SPECIFICATION FairSpec
CONSTANTS
    ByteHalf = 2
    ShortHalf = 8
    IntHalf = 128
    LongHalf = 32768
    Programs <- Inherited
    MaxClasses = 100
    MaxObjects = 3
    Junk <- MCJunk
    NativeResults <- MCNativeResults
PROPERTY
    FindsFromSuperClass
