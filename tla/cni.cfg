\* Three containers, three addresses (one for the gateway); up to three faults of any kind.
SPECIFICATION Spec
CONSTANTS
    Container = {c1, c2, c3}
    HOST = HOST
    None = None
    MaxAddr = 3
    Vxlan = TRUE
    Faults = {"writeFail", "ackLost", "crash", "reboot", "nsGone", "noApi", "noEtcd", "badConf", "ipFail"}
    MaxFaults = 3
SYMMETRY Symmetry
INVARIANTS TypeOK NicHasNetns AddedIsRecorded ContainersDiffer BridgeOutlivesPods NodeLeftClean
PROPERTIES  ImplementsNetwork
