CONSTANTS
    Callers = {c1, c2}
    Owner = Owner
    Serial = TRUE
    MaxCalls = 4
SPECIFICATION Spec
INVARIANTS NoFatalError SerialInv LoopInv
PROPERTIES StopQuiescent StopReturns
CHECK_DEADLOCK FALSE
