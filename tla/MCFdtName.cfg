SPECIFICATION NameSpec
CONSTANTS
    MAX_NAME_LENGTH = 2
    Letter = {"g"}
    HexLetter = {"a"}
    Digit = {"0"}
    Punct = {"-"}
    Other = {"!"}
    MaxPath = 4
    MaxName = 4
INVARIANTS
    TakesWholeNames
    PathOfNames
    EqualNames
