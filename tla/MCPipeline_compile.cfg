SPECIFICATION Spec
CONSTANTS
    IntWidth = 8
    Node <- CompileNode
    Ast <- CompileAst
    Roots <- CompileRoots
INVARIANTS
    TypeOK
    WellFormed
    Dominated
PROPERTIES
    
    Compiles
