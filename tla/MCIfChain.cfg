SPECIFICATION Spec
CONSTANTS
    MaxArms = 4
    MaxBody = 2
    BareElif = FALSE
INVARIANTS
    ArmsLinked
PROPERTIES
    WalkPatchesJumps
    WalkTerminates
