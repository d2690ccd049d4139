CONSTANTS
    Limits <- MCLimits
    Messages = 1
    Records = 11
    Content = 3
SPECIFICATION FlowSpec
INVARIANT ShareIsKept
PROPERTY FlowCompletes
CHECK_DEADLOCK FALSE
