CONSTANTS
    Callers = {c1, c2}
    Owner = Owner
    Serial = FALSE
    MaxCalls = 4
SPECIFICATION Spec
INVARIANT NoFatalError
CHECK_DEADLOCK FALSE
