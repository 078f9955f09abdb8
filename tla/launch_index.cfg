CONSTANTS
    Colon = Colon
    NoSuffix = NoSuffix
    NoDpidSet = NoDpidSet
    h1 = h1
    h2 = h2
    Switches <- DemoSwitches
    Hosts <- DemoHosts
    HostSuffixes <- DemoSuffixes
SPECIFICATION Spec
INVARIANT NoIndexError
CHECK_DEADLOCK FALSE
