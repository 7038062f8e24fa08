\* Two calls at the same time, and nothing ever fails.
SPECIFICATION EtcdSpec
CONSTANTS
    Proc = {p1, p2}
    Key = {k1}
    Item = {a, b}
    None = None
    Faults = {"overlap"}
PROPERTY AppendExtends
