CONSTANTS
    MaxLength = 3
    Widths = {1, 2}
    MaxPieces = 3
    MaxChars = 2
SPECIFICATION Spec
INVARIANT NoUtf8Panic
INVARIANT LoggedIffFits
CHECK_DEADLOCK FALSE
