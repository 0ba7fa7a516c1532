CONSTANTS
    c1 = c1  c2 = c2  p1 = p1  p2 = p2
    Sig = Sig  Rtc = Rtc  LocalId = LocalId  NoOwner = NoOwner  NoPeer = NoPeer
    Callers <- MCCallers
    Peers <- MCPeers
    Handlers <- MCHandlers
SPECIFICATION Spec
SYMMETRY MCSymmetry
CHECK_DEADLOCK FALSE
INVARIANTS
    EmittedFromLocal
