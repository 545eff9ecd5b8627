SPECIFICATION MCSpec
CONSTANTS
    Names <- MCNames
    Callee = f
    Objects = {f, x}
    Ints = {x}
    MaxParams = 3
    MaxArgs = 3
    MaxBelow = 1
INVARIANTS
    BindsAsMeant
    CallerUntouched
    ArgsFresh
