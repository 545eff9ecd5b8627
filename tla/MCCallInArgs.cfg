SPECIFICATION InArgsSpec
CONSTANTS
    Literals <- MCLiterals
    Spelling <- MCSpelling
    Program <- MCProgram
INVARIANTS
    CallsAsMeant
