\* An idle daemon sleeps for ever.
CHECK_DEADLOCK FALSE
SPECIFICATION FairSpec
CONSTANTS
    Modes = {"host_gw", "vxlan", "evpn"}
    Faults = {"start", "token", "command", "worker", "kill", "bridge"}
    MaxFaults = 3
    MaxSignals = 3
INVARIANTS TypeOK PausedWorks NoThreadLeft ReleasedOnExit
PROPERTIES SignalStops ComesUp
