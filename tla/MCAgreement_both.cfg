SPECIFICATION SpecAll
CONSTANTS
    IntWidth = 8
    NoBody = NoBody
    Node <- BothNode
    Ast <- BothAst
    Roots <- BothRoots
INVARIANTS
    SameAnswer
    

    
