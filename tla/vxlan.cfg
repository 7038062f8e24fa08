SPECIFICATION FairSpec
CONSTANTS
    Other = {n2, n3}
    n2 = n2
    n3 = n3
    OHNOV = ohnov
    None = None
    Underlay = eth
    InfoOf <- Moved
    VtepOf <- SameAddr
    Faults = {"apiFail", "readFail", "showFail", "setFail", "traffic", "recreate", "restart"}
    MaxFaults = 1
INVARIANTS TypeOK CachedIsInstalled NoForgottenRoute
PROPERTIES ErasedIsDeleted AnnouncedIsInstalled WithdrawnIsErased
