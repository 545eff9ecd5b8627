SPECIFICATION FairSpec
CONSTANTS
    Blocks <- FromCallee
    Library <- MCLibrary
    MCTypes <- MCOther
    Functions <- MCFunctions
    Main = 0
    Types <- MCAllTypes
    Ancestors <- MCAncestorsOf
    TypeError = 1
    RuntimeError = 2
    AssertionError = 3
    NameError = 4
    ZeroDivisionError = 5
    Program <- MCProgram
    Tame = {}
    Shape <- MCShape
    Signatures <- MCSignatures
    MaxTrace = 6
    MaxFrames = 5
PROPERTIES
    CaughtInItsFrame
