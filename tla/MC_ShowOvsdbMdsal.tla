------------------------- MODULE MC_ShowOvsdbMdsal -------------------------
(***************************************************************************)
(* Inputs for the runs of ShowOvsdbMdsal.  Each run's cfg picks the       *)
(* records its question needs; all documents the controller can return   *)
(* are then every keyed-once subset of those records.                     *)
(*   m1, m2        manager node ids, remote endpoints e1, e2              *)
(*   "00:01" etc.  datapath ids, as DpidCodec symbol sequences            *)
(*   Unassigned    the ofport of a tp that has none (not yet assigned)    *)
(***************************************************************************)
EXTENDS ShowOvsdbMdsal

CONSTANTS m1, m2, e1, e2, Unassigned,
    Remote     \* manager node id -> the remote endpoint of its connection

\* Each manager connection has its own switch endpoint.
DistinctRemotes == (m1 :> e1) @@ (m2 :> e2)

\* Two manager records with one remote endpoint: the switch at e1 seen
\* under two node ids (a reconnect before the old node is removed).
SharedRemote == (m1 :> e1) @@ (m2 :> e1)

D1 == <<0, 0, Colon, 0, 1>>     \* "00:01", openflow:1
D2 == <<0, 0, Colon, 1, 0>>     \* "00:10", openflow:16
DpidOf == (m1 :> D1) @@ (m2 :> D2)

BridgeId(m) == [mgr |-> m, br |-> "br-int"]

ManagerRecs(ms, localIps) ==
    { [kind |-> "manager", nodeId |-> m, remote |-> Remote[m], hasLocalIp |-> h] :
        m \in ms, h \in localIps }

BridgeRecsOf(ms, tpSeqs) ==
    UNION { { [kind |-> "bridge", nodeId |-> BridgeId(m), dpid |-> d, tps |-> t] :
                d \in {NoDpid, DpidOf[m]}, t \in tpSeqs } : m \in ms }

\* A flow:1 node (openflow:1): neither a bridge nor a manager.
OtherRecs == { [kind |-> "other", nodeId |-> [scheme |-> "openflow", num |-> 1]] }

Tps == [name : {"br-int", "eth0"}, ofport : {Internal, 1, Unassigned}]

-----------------------------------------------------------------------------
(* Run report_nodes: managers with and without local-ip, their br-int    *)
(* with and without datapath id and with no ports, a noise port before a *)
(* real one, or two unassigned ports; a skipped record; a one-word        *)
(* alphabet so the second bridge already wraps.                           *)
NodesAliases == <<"alpha">>
NodesNodeIds == { BridgeId(m) : m \in {m1, m2} }
NodesTpSeqs ==
    { <<>>,
      << [name |-> "br-int", ofport |-> Internal], [name |-> "eth0", ofport |-> 1] >>,
      << [name |-> "eth0", ofport |-> Unassigned], [name |-> "br-int", ofport |-> Unassigned] >> }
NodesNodeRecs ==
    ManagerRecs({m1, m2}, BOOLEAN) \cup BridgeRecsOf({m1, m2}, NodesTpSeqs) \cup OtherRecs
NodesInvRecs == { [id |-> OfFormat(D1), tables |-> <<[id |-> 0, flows |-> <<1>>]>>] }

\* Run placement_substring: the text of m1 occurs in m2's ids, as
\* "ovsdb://HOST1" does in "ovsdb://HOST10/bridge/br-int".
SubstringIdContains == { <<m1, m1>>, <<m2, m2>>, <<m1, m2>> }
ExactIdContains == { <<m, m>> : m \in {m1, m2} }

-----------------------------------------------------------------------------
(* Run ports_collapse: one manager and its bridge with up to two tps.       *)
PortsNodeRecs ==
    ManagerRecs({m1}, {TRUE})
    \cup BridgeRecsOf({m1}, { <<>> } \cup { <<t>> : t \in Tps }
                            \cup { <<t, u>> : t, u \in Tps })
PortsNodeIds == { BridgeId(m1) }

-----------------------------------------------------------------------------
(* Run report_links: every link over three tps, consistent or not.       *)
LinkTps == {1, 2, 3}
LinksLinkRecs == [linkId : LinkTps, src : LinkTps, dst : LinkTps]
LinksNodeRecs == BridgeRecsOf({m1}, {<<>>})

-----------------------------------------------------------------------------
(* Run report_flows: two switches whose bridges may or may not carry (or *)
(* have cached) their datapath ids; inventory tables with and without id *)
(* or flows, unsorted flows; and a node without id.  The table list is    *)
(* keyed by id in the inventory YANG model: no two entries share an id.   *)
FlowsNodeRecs == BridgeRecsOf({m1, m2}, {<<>>})
TableEntries == [id : {0, NoId}, flows : {<<>>, <<2, 1>>}]
TableSeqs == { <<>> } \cup { <<e>> : e \in TableEntries }
             \cup { s \in { <<e, f>> : e, f \in TableEntries } :
                      s[1].id = NoId \/ s[1].id # s[2].id }
FlowsInvRecs ==
    [id : {OfFormat(D1), OfFormat(D2)}, tables : TableSeqs]
    \cup { [id |-> NoId, tables |-> <<>>] }
=============================================================================
