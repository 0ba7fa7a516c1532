CONSTANTS
    Main = Main  Sig = Sig
    MaxSignals = 2
    SignalOnMain = TRUE
SPECIFICATION Spec
CHECK_DEADLOCK FALSE
INVARIANTS
    NoUseAfterDestroy
    CockpitInv
    HandlerInv
PROPERTIES
    AppLifecycleMonotone
    SignalHonoured
