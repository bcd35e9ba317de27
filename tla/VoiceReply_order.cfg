CONSTANTS
    Capacity = 2
    MaxSentences = 6
    MaxTurns = 2
SPECIFICATION Spec
INVARIANT HeardInOrder
PROPERTY Ends
CHECK_DEADLOCK FALSE
