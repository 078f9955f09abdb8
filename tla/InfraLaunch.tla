----------------------------- MODULE InfraLaunch -----------------------------
(***************************************************************************)
(* infrastructure_launch.py of the netvirtsfc demo: run on VM             *)
(* netvirtsfc<k>, it configures entry k-1 of the switch list of           *)
(* infrastructure_config (lines 120-166): a netvirt switch gets a bridge, *)
(* tunnels and one container per host (launch, lines 92-118), an SFF a    *)
(* bridge only, an SF a shell script.                                      *)
(*                                                                         *)
(* The ovs-vsctl and docker commands are recorded by their effect on the  *)
(* switch: the bridges created with their datapath id, and the OpenFlow   *)
(* ports requested on them.  A datapath id is a DpidCodec symbol string.  *)
(***************************************************************************)
EXTENDS DpidCodec, FiniteSets, TLC

CONSTANTS
    Switches,      \* infrastructure_config.switches: [name, type, dpid] records
    Hosts,         \* infrastructure_config.hosts: [name, switch] records
    HostSuffixes,  \* what follows "netvirtsfc" in the VM's host name
    NoSuffix,      \* a host name without "netvirtsfc"
    NoDpidSet      \* a bridge whose other-config:datapath-id was not set

VARIABLES
    pc,         \* "start", "launch", "done", or how the script stopped
    swIndex,    \* sw_index
    hostPos,    \* the next host of the loop of line 98
    first_host, \* first_host
    ports,      \* ports: containers connected so far
    bridges,    \* bridge name -> datapath id set on it
    ofports     \* <<bridge, ofport>> pairs requested

vars == <<pc, swIndex, hostPos, first_host, ports, bridges, ofports>>

Init ==
    /\ pc = "start" /\ swIndex = 0 /\ hostPos = 1 /\ first_host = TRUE
    /\ ports = 0 /\ bridges = <<>> /\ ofports = {}

\* addSwitch(name, dpid) (lines 22-31): add-br, then, for a non-empty
\* dpid, pad it to 16 digits or exit 3 when it is longer; the bridges
\* and the exit status after the call.
AddSwitch(name, d) ==
    IF Len(d) > 16 THEN [exit |-> TRUE, bridges |-> (name :> NoDpidSet) @@ bridges]
    ELSE [exit |-> FALSE,
          bridges |-> (name :> IF Len(d) = 0 THEN NoDpidSet ELSE PadDpid(d)) @@ bridges]

\* Lines 123-124 and 127-128: the switch entry of this VM; a host name
\* without the prefix raises at line 123, a number outside
\* range(0, len(switches)+1) configures nothing, and an index the range
\* admits but the list does not have raises IndexError at line 127.
Main ==
    /\ pc = "start"
    /\ \E k \in HostSuffixes :
         IF k = NoSuffix THEN pc' = "noSuffix" /\ UNCHANGED swIndex
         ELSE LET i == k - 1 IN
              /\ swIndex' = i
              /\ pc' = CASE i \notin 0..Len(Switches)         -> "done"
                         [] i = Len(Switches)                 -> "indexError"
                         [] Switches[i + 1].type = "netvirt"  -> "launch"
                         [] OTHER                             -> "sff_or_sf"
    /\ UNCHANGED <<hostPos, first_host, ports, bridges, ofports>>

\* Lines 148-166: an SFF gets its bridge (addSwitch with the entry's
\* dpid); an SF runs sf-config.sh.
ConfigureOther ==
    /\ pc = "sff_or_sf"
    /\ LET sw == Switches[swIndex + 1]
           r == AddSwitch(sw.name, sw.dpid)
       IN  IF sw.type = "sff"
           THEN /\ bridges' = r.bridges
                /\ pc' = IF r.exit THEN "exit3" ELSE "done"
           ELSE /\ pc' = "done" /\ UNCHANGED bridges
    /\ UNCHANGED <<swIndex, hostPos, first_host, ports, ofports>>

\* The loop of lines 98-117 giving every host a port on this switch.
LaunchHostAnySwitch ==
    /\ pc = "launch" /\ hostPos <= Len(Hosts)
    /\ hostPos' = hostPos + 1
    /\ LET sw == Switches[swIndex + 1]
           r == AddSwitch(sw.name, sw.dpid)
           tunnels == {<<sw.name, 7>>} \cup (IF sw.name \in {"sw1", "sw6"} THEN {<<sw.name, 5>>} ELSE {})
       IN  /\ bridges' = IF first_host THEN r.bridges ELSE bridges
           /\ first_host' = FALSE
           /\ ports' = ports + 1
           /\ ofports' = ofports \cup (IF first_host THEN tunnels ELSE {})
                                 \cup {<<sw.name, ports + 1>>}
           /\ UNCHANGED pc
    /\ UNCHANGED swIndex

\* One pass of the host loop of launch (lines 98-117) for the one switch
\* main passes: the first host of the switch creates the bridge with its
\* GPE tunnel (ofport 7) and, on sw1 and sw6, the VXLAN tunnel (ofport 5);
\* every host of the switch gets a container on the next port number.
LaunchHost ==
    /\ pc = "launch" /\ hostPos <= Len(Hosts)
    /\ hostPos' = hostPos + 1
    /\ LET sw == Switches[swIndex + 1]
           h == Hosts[hostPos]
           r == AddSwitch(sw.name, sw.dpid)
           tunnels == {<<sw.name, 7>>} \cup (IF sw.name \in {"sw1", "sw6"} THEN {<<sw.name, 5>>} ELSE {})
       IN  IF h.switch # sw.name
           THEN UNCHANGED <<pc, first_host, ports, bridges, ofports>>
           ELSE IF first_host /\ r.exit
           THEN /\ bridges' = r.bridges /\ pc' = "exit3"
                /\ UNCHANGED <<first_host, ports, ofports>>
           ELSE /\ bridges' = IF first_host THEN r.bridges ELSE bridges
                /\ first_host' = FALSE
                /\ ports' = ports + 1
                /\ ofports' = ofports \cup (IF first_host THEN tunnels ELSE {})
                                      \cup {<<sw.name, ports + 1>>}
                /\ UNCHANGED pc
    /\ UNCHANGED swIndex

\* After the loop main runs the overlay-flows script and prints status.
LaunchDone ==
    /\ pc = "launch" /\ hostPos > Len(Hosts)
    /\ pc' = "done"
    /\ UNCHANGED <<swIndex, hostPos, first_host, ports, bridges, ofports>>

Next == Main \/ ConfigureOther \/ LaunchHost \/ LaunchDone

Spec == Init /\ [][Next]_vars

-----------------------------------------------------------------------------
(* Properties.                                                            *)

\* The check of line 124 lets through only VMs that have a switch entry:
\* main never indexes the switch list out of range (line 127).
NoIndexError == pc # "indexError"

\* The switch launch configures, once main has chosen a netvirt entry.
Launched ==
    /\ pc \in {"launch", "done"}
    /\ swIndex + 1 \in DOMAIN Switches
    /\ Switches[swIndex + 1].type = "netvirt"

\* The hosts of that switch the loop has passed.
HostsSeen == {j \in 1..(hostPos - 1) : Hosts[j].switch = Switches[swIndex + 1].name}

\* After the loop has passed n hosts of the switch, the bridge exists and
\* carries exactly its tunnels and container ports 1..n, one per host of
\* the switch (lines 99-116): hosts of other switches get no port, and
\* the bridge and tunnels are added with the first host only.
PortsFollowHosts ==
    Launched =>
        LET name == Switches[swIndex + 1].name
            n == Cardinality(HostsSeen)
            tunnels == {7} \cup (IF name \in {"sw1", "sw6"} THEN {5} ELSE {})
        IN  /\ (n > 0) = (name \in DOMAIN bridges)
            /\ {p[2] : p \in {q \in ofports : q[1] = name}} =
                 IF n = 0 THEN {} ELSE tunnels \cup 1..n
=============================================================================
