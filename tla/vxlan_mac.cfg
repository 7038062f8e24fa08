SPECIFICATION Spec
CONSTANTS
    Other = {n2}
    n2 = n2
    n3 = n3
    OHNOV = ohnov
    None = None
    Underlay = eth
    InfoOf <- OneInfo
    VtepOf <- TwoMacs
    Faults = {}
    MaxFaults = 0
INVARIANT NeighIsRight
