---------------------------- MODULE MC_Standalone ----------------------------
(***************************************************************************)
(* The parts of the repository that share no state with one another,     *)
(* checked in one run.  A behaviour works on one part, chosen in Init;    *)
(* the variables of the others keep their initial values.                 *)
(*   "alloc"  the alias allocator of showOvsdbMdsal.py driven by its one  *)
(*            caller, the BridgeNode constructor (bridge node ids are the *)
(*            key of the topology's node list, so no id is asked twice),  *)
(*            against the abstract AliasSpec; node ids are model values;  *)
(*   "codec"  dataPathIdToOfFormat and the dpid padding of                *)
(*            infrastructure_launch.py on every string of at most MaxLen  *)
(*            symbols, against the value spec.md 8 gives a colon-hex id;  *)
(*   "rest"   the two SFC REST scripts (MC_SfcRest);                      *)
(*   "flows"  readable_flows.py (MC_ReadableFlows);                       *)
(*   "launch" infrastructure_launch.py on one VM of a three-switch demo   *)
(*            configuration, any host name;                               *)
(*   "topo"   the constructor of mininet/topo.py (L3Topo).                *)
(***************************************************************************)
EXTENDS AliasAllocator, DpidCodec, L3Topo, FiniteSets, TLC

CONSTANTS
    Symbols,   \* the symbols a datapath id string is made of
    MaxLen,    \* longest string considered
    Junk,      \* a symbol that is neither a hex digit nor a colon
    n1, n2, n3, n4, n5, n6, n7,
    ProvisionOrder, CleanOrder, Refs, MaxSessions,
    sfs, sffs, chains, paths, netvirtSfc, acl, classifier,
    Lines, MaxLines, NoTable, NoPrio, NoRule, r1, r2,
    NoSuffix, NoDpidSet, h1, h2, h3

MCAliases == <<"alpha", "bravo", "charlie">>
MCNodeIds == {n1, n2, n3, n4, n5, n6, n7}
MCSymbols == {0, 1, 10, 15, Colon, Junk}

VARIABLES
    part,
    dpId,
    store, script, step, oops, sessions, lastExit,
    lines, pos, table, rules_by_prio, out, pc,
    launchPc, swIndex, hostPos, first_host, ports, bridges, ofports

Demo == INSTANCE MC_SfcRest
Rest == INSTANCE SfcRest
Flows == INSTANCE ReadableFlows

\* The switch entries and hosts of a demo configuration: a netvirt switch
\* with two hosts, an SFF with one, an SF; host-name suffixes 0 to 4 and
\* none (0 and 4 fall outside the list).
LaunchSwitches ==
    << [name |-> "sw1", type |-> "netvirt", dpid |-> <<1>>],
       [name |-> "sw2", type |-> "sff", dpid |-> <<0, 2>>],
       [name |-> "sw3", type |-> "sf", dpid |-> <<>>] >>
LaunchHosts ==
    << [name |-> h1, switch |-> "sw1"], [name |-> h2, switch |-> "sw2"],
       [name |-> h3, switch |-> "sw1"] >>

Launch == INSTANCE InfraLaunch WITH
    Switches <- LaunchSwitches, Hosts <- LaunchHosts,
    HostSuffixes <- {NoSuffix, 0, 1, 2, 3, 4}, pc <- launchPc

MCRestOrder == Demo!RestOrder
MCRestCleanOrder == Demo!RestCleanOrder
StandaloneRefs ==
    (sfs :> Demo!SfsRefs) @@ (sffs :> Demo!SffsRefs) @@ (chains :> Demo!ChainsRefs)
    @@ (paths :> Demo!PathsRefs) @@ (acl :> Demo!AclRefs)
    @@ (classifier :> Demo!ClassifierRefs) @@ (netvirtSfc :> Demo!NetvirtSfcRefs)
\* The dump lines of MC_ReadableFlows, with a table 25 that TABLE_NAME lacks.
StandaloneLines ==
    [kind : {"flow"}, table : {0, 10, 25}, prio : {NoPrio, 100, 32768}, rule : {r1, r2}]
    \cup {[kind |-> "other", table |-> NoTable, prio |-> NoPrio, rule |-> NoRule]}

restVars == <<store, script, step, oops, sessions, lastExit>>
flowsVars == <<lines, pos, table, rules_by_prio, out, pc>>
launchVars == <<launchPc, swIndex, hostPos, first_host, ports, bridges, ofports>>
vars == <<part, allocVars, dpId, restVars, flowsVars, launchVars, topoVars>>

Init ==
    /\ part \in {"alloc", "codec", "rest", "flows", "launch", "topo"}
    /\ AllocInit /\ dpId = <<>>
    /\ Rest!Init
    /\ Flows!Init /\ (part # "flows" => lines = <<>>)
    /\ Launch!Init
    /\ TopoInit

\* A caller constructing a BridgeNode for a node id not yet seen.
AllocateFresh ==
    /\ \E n \in NodeIds :
          /\ n \notin DOMAIN nodeIdToAlias
          /\ GetNextAlias(n)
    /\ UNCHANGED dpId

\* Extend the string by one symbol.
GrowDpid ==
    /\ Len(dpId) < MaxLen /\ \E c \in Symbols : dpId' = Append(dpId, c)
    /\ UNCHANGED allocVars

Next ==
    \/ part = "alloc" /\ AllocateFresh /\ UNCHANGED <<part, restVars, flowsVars, launchVars, topoVars>>
    \/ part = "codec" /\ GrowDpid /\ UNCHANGED <<part, restVars, flowsVars, launchVars, topoVars>>
    \/ part = "rest" /\ Rest!Next /\ UNCHANGED <<part, allocVars, dpId, flowsVars, launchVars, topoVars>>
    \/ part = "flows" /\ Flows!Next /\ UNCHANGED <<part, allocVars, dpId, restVars, launchVars, topoVars>>
    \/ part = "launch" /\ Launch!Next /\ UNCHANGED <<part, allocVars, dpId, restVars, flowsVars, topoVars>>
    \/ part = "topo" /\ TopoStep /\ UNCHANGED <<part, allocVars, dpId, restVars, flowsVars, launchVars>>

\* Only safety is checked here: no fairness.
Spec == Init /\ [][Next]_vars

-----------------------------------------------------------------------------
(* The allocator.                                                         *)

\* Refinement mapping: the number of allocations made so far is the wrap
\* counter times the alphabet length plus the cursor.
Abstract == INSTANCE AliasSpec WITH
    allocated <- nextAliasWrap * Len(Aliases) + nextAliasIndex,
    aliasOf <- nodeIdToAlias

\* getNextAlias hands out the n-th word, wrapping with a "_k" suffix once
\* the alphabet is used up, as spec.md 4.2 and 8 state it.
ImplementsAliasSpec == Abstract!Spec

\* Type invariant of the allocator state: the cursor stays on a word.
TypeOK == AllocTypeOK

-----------------------------------------------------------------------------
(* The datapath id conversions.                                           *)

\* A colon-hex datapath id: byte pairs separated by single colons.
IsColonHex(d) ==
    /\ Len(d) % 3 = 2
    /\ \A i \in 1..Len(d) : IF i % 3 = 0 THEN d[i] = Colon ELSE d[i] \in HexDigit

\* The bytes of a colon-hex id, most significant first.
Bytes(d) == [j \in 1..((Len(d) + 1) \div 3) |-> d[3 * j - 2] * 16 + d[3 * j - 1]]

RECURSIVE Power(_, _)
Power(b, e) == IF e = 0 THEN 1 ELSE b * Power(b, e - 1)

\* The reference: sum over bytes of byte * 256^(position from the right).
RECURSIVE BigEndian(_)
BigEndian(bs) ==
    IF bs = <<>> THEN 0
    ELSE Head(bs) * Power(256, Len(bs) - 1) + BigEndian(Tail(bs))

\* dataPathIdToOfFormat turns every colon-hex datapath id into
\* "openflow:" followed by the big-endian value of its bytes, and accepts
\* no string that has a symbol other than a hex digit or a colon.
OfFormatIsBigEndian ==
    /\ IsColonHex(dpId) =>
          /\ OfFormatDefined(dpId)
          /\ OfFormat(dpId) = [scheme |-> "openflow", num |-> BigEndian(Bytes(dpId))]
    /\ OfFormatDefined(dpId) => \A i \in 1..Len(dpId) : dpId[i] \in HexDigit \cup {Colon}

\* A dpid addSwitch accepts is stored as exactly 16 hex digits that
\* showOvsdbMdsal converts to the same openflow id as the dpid given:
\* the padding adds leading zeros only.
PaddedDpidKeepsOfId ==
    (PadDefined(dpId) /\ ParsesAsHex(dpId)) =>
        /\ Len(PadDpid(dpId)) = 16
        /\ OfFormat(PadDpid(dpId)) = OfFormat(dpId)
-----------------------------------------------------------------------------
(* The scripts: the properties of SfcRest and ReadableFlows.              *)

\* See SfcRest.
ProvisionedOnSuccess == Rest!ProvisionedOnSuccess
CleanResidueReported == Rest!CleanResidueReported
PutAfterReferenced == Rest!PutAfterReferenced

\* See ReadableFlows.
FlowsRegrouped == Flows!FlowsRegrouped
SectionsFollowInput == Flows!SectionsFollowInput

\* See InfraLaunch.
PortsFollowHosts == Launch!PortsFollowHosts
=============================================================================
