SPECIFICATION Spec
CONSTANTS
    IntWidth = 8
    NoBody = NoBody
    Node <- TestNode
    Ast <- TestAst
    Roots <- TestRoots
    MaxInputs = 1
INVARIANT AgreesWithTests
