SPECIFICATION Spec
CONSTANTS
    IntWidth = 8
    NoBody = NoBody
    Node <- SessionNode
    Ast <- SessionAst
    Roots <- SessionRoots
    MaxInputs = 3
INVARIANT NodesStay
