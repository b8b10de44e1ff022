CONSTANTS
    Nibbles = 2
    Formats <- AllFormats
    Operands <- FewWords
    Strings <- SomeStrings
    Characters <- SomeCharacters
SPECIFICATION Spec
CHECK_DEADLOCK FALSE
INVARIANTS PrintsFormat NumbersReadBack
PROPERTIES Returns
