SPECIFICATION Spec
CONSTANTS
    IntWidth = 8
    Node <- WalkNode
    Ast <- WalkAst
    Roots <- WalkRoots
INVARIANTS
    TypeOK
    ReturnsMatchTheirFunction
PROPERTIES
    ImplementsContextStack
    Decides
    AgreesWithTests
