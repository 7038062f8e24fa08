\* One signal, wherever it comes; one exception in the worker.
CHECK_DEADLOCK FALSE
SPECIFICATION Spec
CONSTANTS
    Modes = {"host_gw", "vxlan", "evpn"}
    Faults = {"worker"}
    MaxFaults = 1
    MaxSignals = 1
INVARIANT SleeperWorks
