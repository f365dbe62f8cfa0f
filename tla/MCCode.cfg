SPECIFICATION Spec
CONSTANTS
    Base = 32
    CodeText <- MCCodeText
    BootstrapText <- MCBootstrapText
    Files <- MCFiles
    Classes <- MCClasses
    JunkTags <- MCJunkTags
INVARIANTS
    MethodsHaveCode
