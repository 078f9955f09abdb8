--------------------------- MODULE MC_InfraLaunch ---------------------------
(***************************************************************************)
(* A demo configuration of the shape infrastructure_launch.py expects: a  *)
(* netvirt switch sw1 with two hosts and an SFF sw2, datapath ids "1" and *)
(* "02"; VMs netvirtsfc0 to netvirtsfc3 and one of another name.          *)
(***************************************************************************)
EXTENDS InfraLaunch

CONSTANTS h1, h2

DemoSwitches ==
    << [name |-> "sw1", type |-> "netvirt", dpid |-> <<1>>],
       [name |-> "sw2", type |-> "sff", dpid |-> <<0, 2>>] >>

DemoHosts == << [name |-> h1, switch |-> "sw1"], [name |-> h2, switch |-> "sw1"] >>

DemoSuffixes == {NoSuffix, 0, 1, 2, 3}
====
