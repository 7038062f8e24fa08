\* One call at a time in the whole cluster of two nodes; any write may fail and
\* any process may disappear between two commands.
SPECIFICATION FairSpec
CONSTANTS
    p1 = p1
    p2 = p2
    p3 = p3
    n1 = n1
    n2 = n2
    s1 = s1
    s2 = s2
    subnets = subnets
    None = None
    Proc = {p1, p2, p3}
    Node = {n1, n2}
    NodeOf <- MCNodeOf
    Cidr <- MCCidr
    MaxHosts = 4
    SubnetsKey = subnets
    Key <- MCKey
    Item <- MCItem
    MaxPrefix = 4
    Throws = throws
    NetOf <- MCNetOf
    Configured <- MCConfigured
    Faults = {"writeFail", "crash", "apiFail"}
INVARIANTS SubnetIsListed UniqueHolder HeldIsRecorded
PROPERTY CallReturns
