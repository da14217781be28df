SPECIFICATION Spec
CONSTANTS
    IntWidth = 8
    NoBody = NoBody
    Node <- SessionNode
    Ast <- SessionAst
    Roots <- SessionRoots
    MaxInputs = 3
INVARIANTS
    TypeOK
    ScopeBalance
    NoClosures
    ParamsKeepTypes
    CrashNeedsReuse
PROPERTIES
    CallersUntouched
    CleanInput
    ImplementsContextStack
    InputsEnd
