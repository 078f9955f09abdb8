CONSTANTS
    Colon = Colon
    Junk = Junk
    n1 = n1
    n2 = n2
    n3 = n3
    n4 = n4
    n5 = n5
    n6 = n6
    n7 = n7
    Aliases <- MCAliases
    NodeIds <- MCNodeIds
    Symbols <- MCSymbols
    MaxLen = 5
    sfs = sfs
    sffs = sffs
    chains = chains
    paths = paths
    netvirtSfc = netvirtSfc
    acl = acl
    classifier = classifier
    ProvisionOrder <- MCRestOrder
    CleanOrder <- MCRestCleanOrder
    Refs <- StandaloneRefs
    MaxSessions = 3
    r1 = r1
    r2 = r2
    NoTable = NoTable
    NoPrio = NoPrio
    NoRule = NoRule
    Lines <- StandaloneLines
    MaxLines = 4
    NoSuffix = NoSuffix
    NoDpidSet = NoDpidSet
    h1 = h1
    h2 = h2
    h3 = h3
SPECIFICATION Spec
INVARIANT TypeOK
INVARIANT OfFormatIsBigEndian
INVARIANT PaddedDpidKeepsOfId
INVARIANT ProvisionedOnSuccess
INVARIANT CleanResidueReported
INVARIANT PutAfterReferenced
INVARIANT FlowsRegrouped
INVARIANT SectionsFollowInput
INVARIANT PortsFollowHosts
INVARIANT DomainsAsDocumented
INVARIANT RoutesResolve
PROPERTY ImplementsAliasSpec
CHECK_DEADLOCK FALSE
