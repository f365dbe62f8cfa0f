SPECIFICATION FairSpec
CONSTANTS
    Base = 32
    CodeText <- MCCodeText
    BootstrapText <- MCBootstrapText
    Files <- MCFiles
    Classes <- MCClasses
    JunkTags <- MCJunkTags
INVARIANTS
    TypeOK
    ReadsBack
    ReferencesResolve
    MethodsFound
    FreedOnce
PROPERTIES
    WholeFilesLoad
