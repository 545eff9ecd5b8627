SPECIFICATION Spec
CONSTANTS
    Builtins = {"b"}
    Units <- MCUnits
    Kind <- MCKind
    Bodies <- MCBodies
    Params <- MCParams
    Main = "main"
    Registered = {"math", "x"}
    MaxFrames = 3
    Names = {"m", "n", "p"}
    Builtin <- MCBuiltin
    Values <- MCValues
    MaxTypes = 2
    MaxObjects = 1
    MaxStores = 3
INVARIANTS
    ReadsLexical
    LookupAsMeant
\* A script ends, and the bounds end the rest.
CHECK_DEADLOCK FALSE
