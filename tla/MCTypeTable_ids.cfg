SPECIFICATION Spec
CONSTANTS
    Lengths = {0, 1, 2}
    Signatures <- MCSignatures
    MaxTypes = 3
INVARIANTS
    TypeOK
    Canonical
    Grounded
    NamesDiffer
PROPERTIES
    ImplementsRegistry
