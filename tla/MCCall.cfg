SPECIFICATION Spec
CONSTANTS
    Literals <- MCLiterals
    Spelling <- MCSpelling
    Program <- MCProgram
INVARIANTS
    OperandsThere
    DisciplinedAsMeant
