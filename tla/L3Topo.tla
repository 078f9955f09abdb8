------------------------------- MODULE L3Topo -------------------------------
(***************************************************************************)
(* mininet/topo.py: L3TestTopo.__init__ builds the topology of the L3     *)
(* test, four hosts on one switch, by a fixed sequence of addHost,        *)
(* addSwitch and addLink calls on an empty mininet Topo (lines 24-56).    *)
(* Mininet applies a host's ip and defaultRoute when the network starts,  *)
(* after the constructor; the properties are stated for the finished      *)
(* topology.                                                               *)
(*                                                                         *)
(* An address "a.b.c.d/n" is the octets <<a, b, c, d>> and the prefix      *)
(* length n; a route "dev hK-ethI via g" is the interface I of hK and the *)
(* gateway octets g.  The mac addresses are left out.  Mininet names a    *)
(* host's interfaces eth0, eth1, ... in the order addLink connects them.  *)
(***************************************************************************)
EXTENDS Naturals, Sequences, FiniteSets

VARIABLES
    topoStep,      \* the next call of the constructor
    topoHosts,     \* host name -> its addHost parameters
    topoSwitches,  \* switch names added
    topoLinks      \* the addLink calls made, in order

topoVars == <<topoStep, topoHosts, topoSwitches, topoLinks>>

HostCall(name, ip, len, dev, gw) ==
    [call |-> "host", name |-> name, ip |-> ip, len |-> len, dev |-> dev, gw |-> gw]

\* h2 given a /16 prefix.
AddHostH2Wide == HostCall("h2", <<10, 10, 20, 2>>, 16, [node |-> "h2", intf |-> 0], <<10, 10, 20, 1>>)

\* Lines 31-34, 36-39, 41-44, 46-49.
AddHostH1 == HostCall("h1", <<10, 10, 10, 2>>, 24, [node |-> "h1", intf |-> 0], <<10, 10, 10, 1>>)
AddHostH2 == HostCall("h2", <<10, 10, 20, 2>>, 24, [node |-> "h2", intf |-> 0], <<10, 10, 20, 1>>)
AddHostH3 == HostCall("h3", <<172, 16, 1, 2>>, 24, [node |-> "h3", intf |-> 0], <<172, 16, 1, 254>>)
AddHostH4 == HostCall("h4", <<10, 10, 20, 4>>, 24, [node |-> "h4", intf |-> 0], <<10, 10, 20, 1>>)

LinkCall(a, b) == [call |-> "link", ends |-> <<a, b>>]

\* The constructor without its last addLink.
TopoCallsNoH4Link ==
    << AddHostH1, AddHostH2, AddHostH3, AddHostH4,
       [call |-> "switch", name |-> "s1"],
       LinkCall("s1", "h1"), LinkCall("s1", "h2"), LinkCall("s1", "h3") >>

\* The constructor's calls, in order (lines 31-56).
TopoCalls ==
    << AddHostH1, AddHostH2, AddHostH3, AddHostH4,
       [call |-> "switch", name |-> "s1"],
       LinkCall("s1", "h1"), LinkCall("s1", "h2"), LinkCall("s1", "h3"), LinkCall("s1", "h4") >>

\* Topo.__init__ (line 28): an empty graph.
TopoInit ==
    /\ topoStep = 1 /\ topoHosts = <<>> /\ topoSwitches = {} /\ topoLinks = <<>>

\* One self.addHost, self.addSwitch or self.addLink call of __init__.
TopoStep ==
    /\ topoStep <= Len(TopoCalls)
    /\ topoStep' = topoStep + 1
    /\ LET c == TopoCalls[topoStep] IN
       CASE c.call = "host" ->
              /\ topoHosts' = [n \in DOMAIN topoHosts \cup {c.name} |->
                                 IF n = c.name THEN c ELSE topoHosts[n]]
              /\ UNCHANGED <<topoSwitches, topoLinks>>
         [] c.call = "switch" ->
              /\ topoSwitches' = topoSwitches \cup {c.name}
              /\ UNCHANGED <<topoHosts, topoLinks>>
         [] c.call = "link" ->
              /\ topoLinks' = Append(topoLinks, c.ends)
              /\ UNCHANGED <<topoHosts, topoSwitches>>

TopoBuilt == topoStep > Len(TopoCalls)

\* The broadcast domains the docstring names (lines 10-12).
DocDomain == [h1 |-> "blue", h2 |-> "green", h4 |-> "green", h3 |-> "external"]

-----------------------------------------------------------------------------
(* Properties.                                                            *)

\* Address a lies in the subnet of address b with prefix length len (a
\* multiple of 8 here).
InSubnet(a, b, len) == \A i \in 1..(len \div 8) : a[i] = b[i]

\* Host h reaches host k without a router: k's address is in h's subnet.
OnLink(h, k) == InSubnet(topoHosts[k].ip, topoHosts[h].ip, topoHosts[h].len)

\* The interfaces addLink gave a node: one per link it is an end of.
IntfCount(n) == Cardinality({i \in DOMAIN topoLinks : n \in {topoLinks[i][1], topoLinks[i][2]}})

\* Two hosts reach each other directly exactly when the docstring puts
\* them in the same broadcast domain (lines 10-12 against the ip and
\* prefix of each addHost).
DomainsAsDocumented ==
    TopoBuilt =>
        /\ DOMAIN topoHosts = DOMAIN DocDomain
        /\ \A h, k \in DOMAIN topoHosts :
              h # k => (OnLink(h, k) <=> DocDomain[h] = DocDomain[k])

\* Every host's default route leaves through an interface addLink gave
\* it, towards a gateway inside its own subnet that is no host's address.
RoutesResolve ==
    TopoBuilt =>
        \A h \in DOMAIN topoHosts :
            LET r == topoHosts[h] IN
            /\ r.dev.node = h /\ r.dev.intf < IntfCount(h)
            /\ InSubnet(r.gw, r.ip, r.len)
            /\ \A k \in DOMAIN topoHosts : topoHosts[k].ip # r.gw
=============================================================================
