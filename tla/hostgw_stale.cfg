\* The address of n2 changes; the daemon restarts once.
SPECIFICATION FairSpec
CONSTANTS
    Other = {n2, n3}
    n2 = n2
    n3 = n3
    Self = n1
    None = None
    Underlay = eth
    InfoOf <- AddressChanges
    Faults = {"restart"}
    MaxFaults = 1
PROPERTY RoutesFollow
