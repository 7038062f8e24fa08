SPECIFICATION FairSpec
CONSTANTS
    Other = {n2, n3}
    n2 = n2
    n3 = n3
    Self = n1
    None = None
    Underlay = eth
    InfoOf <- MCInfoOf
    Faults = {"apiFail", "readFail", "showFail", "setFail", "restart", "reboot"}
    MaxFaults = 2
INVARIANTS TypeOK CachedIsRouted RoutesAreKnown CachedCidrsDiffer
PROPERTIES AnnouncedIsRouted WithdrawnIsRemoved
