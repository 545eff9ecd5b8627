SPECIFICATION Spec
CONSTANTS
    EOF = EOF
    Scripts <- MCScripts
    Keywords <- MCKeywords
    Garbage <- MCGarbage
    Names = {"a", "b", "c"}
    Consts = {"1"}
    Statements <- MCStatements
INVARIANTS
    TokensAreLexemes
    RecordReplays
    LinesNest
    StatementsMean
    OperandsMatch
PROPERTIES
    ReadingEnds
\* A text is read to its end, and a statement comes to its end.
CHECK_DEADLOCK FALSE
