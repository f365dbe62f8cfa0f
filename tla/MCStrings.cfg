SPECIFICATION Spec
CONSTANTS
    Calls <- MCCalls
    Unassigned <- MCUnassigned
    Width = 4
INVARIANTS
    TypeOK
    ConcatenatesLikeJava
    ComparesLikeJava
    ReadsLines
    ParametersCounted
