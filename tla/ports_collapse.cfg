CONSTANTS
    m1 = m1
    m2 = m2
    e1 = e1
    e2 = e2
    Unassigned = Unassigned
    Remote <- DistinctRemotes
    Colon = Colon
    NoDpid = NoDpid
    NoId = NoId
    Internal = 65534
    Managers = {m1}
    IdContains <- ExactIdContains
    Aliases <- NodesAliases
    NodeIds <- PortsNodeIds
    NodeRecs <- PortsNodeRecs
    LinkRecs = {}
    InvRecs = {}
    ConfigChoices = {FALSE}
    FlowChoices = {TRUE}
SPECIFICATION Spec
INVARIANT AllPortsPrinted
CHECK_DEADLOCK FALSE
