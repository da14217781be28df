CONSTANTS
    Lines <- MCLines
    MaxBuffer = 11
SPECIFICATION Spec
INVARIANT
    ErrorsAnswered
