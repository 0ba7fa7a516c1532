CONSTANTS
    l1 = l1  l2 = l2  l3 = l3  a = a  b = b
    NoId = NoId  NoLink = NoLink  Server = Server
    Links <- MCLinks
    Ids <- MCIds
    FwdTypes <- MCFwdTypes
    MaxRouted <- MCMaxRouted
SPECIFICATION Spec
SYMMETRY MCSymmetry
CHECK_DEADLOCK FALSE
INVARIANTS
    PartnerCleared
