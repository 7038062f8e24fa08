\* Calls one after the other; any command may fail or lose its answer, processes crash.
SPECIFICATION EtcdSpec
CONSTANTS
    Proc = {p1, p2, p3}
    Key = {k1, k2}
    Item = {a, b, c}
    None = None
    Faults = {"readFail", "writeFail", "ackLost", "crash"}
PROPERTY ImplementsLists
