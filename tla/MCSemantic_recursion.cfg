SPECIFICATION Spec
CONSTANTS
    IntWidth = 8
    Node <- RecursionNode
    Ast <- RecursionAst
    Roots <- RecursionRoots
PROPERTY RecursionResolves
