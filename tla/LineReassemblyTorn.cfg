CONSTANTS
    Letters = {a}
    EOL = eol
    MaxLine = 3
    MaxStream = 5
SPECIFICATION Spec
INVARIANT ContinuationLine
CHECK_DEADLOCK FALSE
