\* Two nodes at the same time, calls of one node one after the other; writes
\* lose their answer, processes crash, the API does not answer.
\* MaxHosts = 4: two usable addresses per node.
SPECIFICATION Spec
CONSTANTS
    p1 = p1
    p2 = p2
    p3 = p3
    n1 = n1
    n2 = n2
    s1 = s1
    s2 = s2
    subnets = subnets
    None = None
    Proc = {p1, p2, p3}
    Node = {n1, n2}
    NodeOf <- MCNodeOf
    Cidr <- MCCidr
    MaxHosts = 4
    SubnetsKey = subnets
    Key <- MCKey
    Item <- MCItem
    MaxPrefix = 4
    Throws = throws
    NetOf <- MCNetOf
    Configured <- MCConfigured
    Faults = {"ackLost", "crash", "nodes", "apiFail"}
INVARIANTS TypeOK UniqueHolder HeldIsRecorded IpsAreHosts IpsDiffer IpsBelong
PROPERTIES ImplementsPool GivesUpOnlyWhenFull
