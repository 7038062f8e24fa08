\* Two containers; one fault.
SPECIFICATION Spec
CONSTANTS
    Container = {c1, c2}
    HOST = HOST
    None = None
    MaxAddr = 3
    Vxlan = TRUE
    Faults = {"crash", "writeFail", "ipFail"}
    MaxFaults = 1
INVARIANT NodeIsComplete
