SPECIFICATION Spec
CONSTANTS
    Key = {1, 2, 3}
    v1 = v1
    v2 = v2
    Value = {v1, v2}
    Absent = Absent
    Hash <- MCHash
    Batch <- MCBatch
    MaxBuckets = 8
    Elem = {a, b}
    NoBound = NoBound
    Steps <- MCSteps
    MaxLen = 3
    WordBits = 6
    IntBits = 4
    Operands <- MCOperands
    MaxTwice = 40
    MaxCount = 2
    Radix = 3
    Texts <- MCTexts
    Formats <- MCFormats
    Argses <- MCArgses
    Addresses <- MCAddresses
    Subs <- MCSubs
    Indices <- MCIndices
INVARIANTS
    LookupFinds
    IterFaithful
    TameListsRight
    SlicesAsMeant
    NumbersAsMeant
    EqualNumbersHashEqual
    TextsAsMeant
    WritersFit
PROPERTIES
    HashImplements
    StoreEnds
\* A list and a number, and the writing of a text, stop after a call that is not tame.
CHECK_DEADLOCK FALSE
