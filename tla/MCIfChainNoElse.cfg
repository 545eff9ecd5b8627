SPECIFICATION Spec
CONSTANTS
    MaxArms = 4
    MaxBody = 2
    BareElif = TRUE
INVARIANTS
    WalkInCode
