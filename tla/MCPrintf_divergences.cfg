CONSTANTS
    Nibbles = 2
    Formats <- AllFormats
    Operands <- FewWords
    Strings <- SomeStrings
    Characters <- SomeCharacters
SPECIFICATION Spec
\* One at a time: TLC stops at the first invariant it finds violated.
INVARIANTS VariablesKept
\* INVARIANTS ReturnsLength
CHECK_DEADLOCK FALSE
