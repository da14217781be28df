SPECIFICATION Spec
CONSTANTS
    IntWidth = 8
    Node <- CompileNode
    Ast <- CompileAst
    Roots <- ValidRoots
INVARIANTS
    ValidModule
