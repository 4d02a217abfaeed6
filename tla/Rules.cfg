\* Rules of up to two transformers, fed up to two of three elements.
CONSTANTS
    Nesting = 6
    Texts <- SomeTexts
    LengthOf <- Lengths
    TextOf <- Writing
    Regexes <- TheRegex
    NumberOf <- Numerals
    PrettyOf <- Prettier
    RuleSet <- SomeRules
    Nodes = {"root", "left", "right"}
    Owns <- SomeOwns
    Near <- SomeNear
    MaxFed = 2
SPECIFICATION Spec
\* A rule ends.
CHECK_DEADLOCK FALSE
INVARIANTS
    WellTyped
    PanicsAreKnown
    AggregatesMeanIt
    OperatorsAgree
