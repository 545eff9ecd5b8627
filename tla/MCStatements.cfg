SPECIFICATION FairSpec
CONSTANTS
    Blocks <- MCBlocks
    Library <- MCLibrary
    MCTypes = {}
    Functions <- MCFunctions
    Main = 0
    Types <- MCAllTypes
    Ancestors <- MCAncestorsOf
    TypeError = 1
    RuntimeError = 2
    AssertionError = 3
    NameError = 4
    ZeroDivisionError = 5
    Program <- MCProgram
    Tame <- MCTame
    Shape <- MCShape
    Signatures <- MCSignatures
    MaxTrace = 7
    MaxFrames = 5
INVARIANTS
    IInv
    Conforms
PROPERTIES
    Stops
    CallerKept
