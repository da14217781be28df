CONSTANTS
    Lines <- MCLines
    MaxBuffer = 11
SPECIFICATION Spec
INVARIANTS
    TypeOK
    Balanced
    NothingWithheld
