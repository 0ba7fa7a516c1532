CONSTANTS
    Main = Main  Sig = Sig
    MaxSignals = 2
    SignalOnMain = FALSE
SPECIFICATION Spec
CHECK_DEADLOCK FALSE
INVARIANT
    NoUseAfterDestroy
