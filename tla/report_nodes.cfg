CONSTANTS
    m1 = m1
    m2 = m2
    e1 = e1
    e2 = e2
    Unassigned = Unassigned
    Remote <- DistinctRemotes
    Colon = Colon
    NoDpid = NoDpid
    NoId = NoId
    Internal = 65534
    Managers = {m1, m2}
    IdContains <- ExactIdContains
    Aliases <- NodesAliases
    NodeIds <- NodesNodeIds
    NodeRecs <- NodesNodeRecs
    LinkRecs = {}
    InvRecs <- NodesInvRecs
    ConfigChoices = {FALSE, TRUE}
    FlowChoices = {TRUE}
SPECIFICATION Spec
INVARIANT TypeOK
INVARIANT BridgeListedOnce
INVARIANT AliasLegendComplete
CHECK_DEADLOCK FALSE
