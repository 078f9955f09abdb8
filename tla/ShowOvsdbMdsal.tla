--------------------------- MODULE ShowOvsdbMdsal ---------------------------
(***************************************************************************)
(* showOvsdbMdsal.py: one run of doMain (lines 696-709).  The program     *)
(* builds the datapath-id cache (config tree only), fetches the topology  *)
(* and the inventory documents, parses their records into the model       *)
(* (bridges, managers, links, flows) and renders the report sections.     *)
(*                                                                         *)
(* The controller is the concurrent party: each fetch returns whatever    *)
(* document it holds at that moment, or fails.  A document is drawn from  *)
(* the constant sets of records the MC module gives.  Records:            *)
(*   bridge  [kind, nodeId |-> [mgr, br], dpid, tps]                       *)
(*   manager [kind, nodeId, remote, hasLocalIp]                            *)
(*   other   [kind, nodeId]  (no node-id, or neither bridge nor manager)   *)
(*   tp      [name, ofport]                                                *)
(*   link    [linkId, src, dst]  (termination-point ids, ordered numbers)  *)
(*   inventory node [id, tables |-> Seq([id, flows |-> Seq(flow ids)])]    *)
(* A bridge node id "<manager id>/bridge/<name>" is the record [mgr, br]; *)
(* the text of a manager id may occur inside another manager's id, which  *)
(* the constant relation IdContains says.                                 *)
(***************************************************************************)
EXTENDS AliasAllocator, DpidCodec, Integers, FiniteSets, SequencesExt, TLC

CONSTANTS
    Managers,       \* OVSDB manager node ids
    IdContains,     \* <<m, n>>: the text of manager id m occurs in ids under n
    NodeRecs,       \* node records a topology document can hold
    LinkRecs,       \* link records of the flow:1 topology
    InvRecs,        \* inventory node records
    Internal,       \* CONST_TP_OF_INTERNAL (line 18), the value 65534
    NoDpid,         \* a bridge record without ovsdb:datapath-id
    NoId,           \* a record without an 'id'
    ConfigChoices,  \* values of options.useConfigTree (-c) explored
    FlowChoices     \* values of options.showFlows (-f) explored

ASSUME \A m \in Managers : <<m, m>> \in IdContains

VARIABLES
    pc,               \* the statement of doMain being executed
    useConfigTree,    \* options.useConfigTree
    showFlows,        \* options.showFlows
    nodeIdToDpidCache,
    jsonTopology,     \* the fetched topology document (jsonTopologyNodes)
    jsonInventoryNodes,
    pendingNodes,     \* records of jsonTopology not yet parsed
    pendingLinks,     \* links of jsonTopology not yet parsed
    pendingInv,       \* inventory nodes not yet parsed
    bridgeNodes,      \* state.bridgeNodes: node id -> [alias, dpId, tps]
    ovsdbNodes,       \* state.ovsdbNodes: node id -> [alias]
    ofLinks,          \* state.ofLinks: source tp -> destination tp
    flowInfoNodes,    \* openflow id -> table id -> sorted flow ids
    aliasMap,         \* printed alias legend: alias -> bridge node id
    nodesReport,      \* printed bridge lines: [section, bridge, ports]
    flowReport,       \* printed flow sections: label -> table -> flows
    linksReport       \* printed link lines, in order: [from, to, dir]

progVars == <<pc, useConfigTree, showFlows, nodeIdToDpidCache, jsonTopology,
              jsonInventoryNodes, pendingNodes, pendingLinks, pendingInv>>
modelVars == <<bridgeNodes, ovsdbNodes, ofLinks, flowInfoNodes>>
reportVars == <<aliasMap, nodesReport, flowReport, linksReport>>
vars == <<progVars, modelVars, reportVars, allocVars>>

Terminated == {"done", "fatal", "crashed"}

-----------------------------------------------------------------------------
(* Documents the controller can return.                                   *)

\* The lists of a document keyed by 'node-id' ('link-id', 'id') hold each
\* key at most once: a document holds, for each key of a subset of the
\* keys, one record with that key.
KeyedSubsets(S, key(_)) ==
    LET RECURSIVE docs(_)
        docs(ks) ==
            IF ks = {} THEN {{}}
            ELSE LET k == CHOOSE k \in ks : TRUE
                 IN  { d \cup x : d \in docs(ks \ {k}),
                                  x \in {{}} \cup { {r} : r \in { r \in S : key(r) = k } } }
    IN  docs({ key(r) : r \in S })

\* Configuration trees hold no discovered links; in the operational tree a
\* manager's connection-info is that of a live connection and always has
\* its local-ip.
TopologyDocs(config) ==
    { [nodes |-> ns, links |-> ls] :
        ns \in { S \in KeyedSubsets(NodeRecs, LAMBDA r : r.nodeId) :
                   ~config => \A r \in S : r.kind = "manager" => r.hasLocalIp },
        ls \in IF config THEN {{}} ELSE KeyedSubsets(LinkRecs, LAMBDA l : l.linkId) }

InventoryDocs == KeyedSubsets(InvRecs, LAMBDA n : n.id)

BridgeRecs(doc) == { r \in doc.nodes : r.kind = "bridge" }

-----------------------------------------------------------------------------
(* Helpers of the model classes.                                          *)

\* BridgeNode.getOpenflowName (lines 97-100).
GetOpenflowName(nodeId) ==
    IF bridgeNodes[nodeId].dpId = NoDpid THEN nodeId
    ELSE OfFormat(bridgeNodes[nodeId].dpId)

\* The "skip boring tps" test of parseTopologyJsonNodeBridge (390-391).
IsBoringTp(tp) == tp.ofport = Internal /\ tp.name \in {"br-ex", "br-int"}

\* showPrettyTerminationPoints (599-614) keys the ports by ofPort: of the
\* ports sharing an ofPort only the last one listed is printed.
ShownPorts(tps) ==
    { tps[i] : i \in { i \in 1..Len(tps) :
                         \A j \in (i + 1)..Len(tps) : tps[j].ofport # tps[i].ofport } }

\* Bridges whose node id text contains the manager id (534-541:
\* "nodeIdFilter in bridge.nodeId").
GetNodeBridgeIds(m) == { b \in DOMAIN bridgeNodes : <<m, b.mgr>> \in IdContains }

\* bridge.nodeId.split('/bridge/')[0] (line 572).
NodePrefix(b) == b.mgr

\* A bridge the mistaken orphan test below would print with its group even
\* when a manager section already printed it (the filter left out).
ManagedBridgeNever(b) == FALSE

\* The orphan filter of showBridgeOnlyNodes (574-575): a bridge whose
\* prefix is a parsed manager is skipped when only orphans are shown.
ManagedBridge(b) == NodePrefix(b) \in DOMAIN ovsdbNodes

\* Labels printed for an inventory node: an alias or the raw id.
AliasLabel(a) == [kind |-> "alias", name |-> a]
RawLabel(k) == [kind |-> "raw", name |-> k]

\* Bridges showPrettyName(k) may answer with (624-642): its openflow
\* name or its node id equals k; the first in dict order wins.
PrettyNameMatches(k) ==
    { b \in DOMAIN bridgeNodes : GetOpenflowName(b) = k \/ b = k }

\* Flow lists built with flowInfoNode[tableId] = flows for every entry:
\* a later entry of the same table replaces the flows of an earlier one.
\* The flow lists of one inventory node with the final sort left out.
FlowInfoNodeUnsorted(n) ==
    LET entries == SelectSeq(n.tables, LAMBDA e : e.id # NoId /\ e.flows # <<>>)
        ids == { entries[i].id : i \in 1..Len(entries) }
        flowsOf(t) == FlattenSeq([i \in 1..Len(entries) |->
                         IF entries[i].id = t THEN entries[i].flows ELSE <<>>])
    IN  [t \in ids |-> flowsOf(t)]

\* The flow lists of one inventory node, per table id (241-256): a table
\* id gets a key with its first flow, flows of entries with the same id
\* are appended in order, then every list is sorted.
FlowInfoNode(n) ==
    LET entries == SelectSeq(n.tables, LAMBDA e : e.id # NoId /\ e.flows # <<>>)
        ids == { entries[i].id : i \in 1..Len(entries) }
        flowsOf(t) == FlattenSeq([i \in 1..Len(entries) |->
                         IF entries[i].id = t THEN entries[i].flows ELSE <<>>])
    IN  [t \in ids |-> SortSeq(flowsOf(t), <)]

\* showOfLinks (646-666): keys in sorted order; a key already visited is
\* skipped; a link whose destination links back is printed once as "<->"
\* and both ends are marked visited, any other link as "->".
RECURSIVE ResolveLinks(_, _, _, _)
ResolveLinks(links, keys, visited, out) ==
    IF keys = <<>> THEN out
    ELSE LET k == Head(keys)
             d == links[k]
         IN  IF k \in visited THEN ResolveLinks(links, Tail(keys), visited, out)
             ELSE IF d \in DOMAIN links /\ links[d] = k
                  THEN ResolveLinks(links, Tail(keys), visited \cup {d, k},
                                    Append(out, [from |-> k, to |-> d, dir |-> "bi"]))
                  ELSE ResolveLinks(links, Tail(keys), visited \cup {k},
                                    Append(out, [from |-> k, to |-> d, dir |-> "uni"]))

-----------------------------------------------------------------------------
Init ==
    /\ pc = "buildDpidCache"
    /\ useConfigTree \in ConfigChoices
    /\ showFlows \in FlowChoices
    /\ nodeIdToDpidCache = <<>>
    /\ jsonTopology = [nodes |-> {}, links |-> {}]
    /\ jsonInventoryNodes = {}
    /\ pendingNodes = {} /\ pendingLinks = {} /\ pendingInv = {}
    /\ bridgeNodes = <<>> /\ ovsdbNodes = <<>> /\ ofLinks = <<>>
    /\ flowInfoNodes = <<>>
    /\ aliasMap = <<>> /\ nodesReport = {} /\ flowReport = <<>>
    /\ linksReport = <<>>
    /\ AllocInit

\* grabJson (164-183) and the container checks of grabTopologyJson and
\* grabInventoryJson: an unreachable controller, a status other than 200
\* or a document without its top container ends the run with exit 1.
FetchFails ==
    /\ \/ pc = "buildDpidCache" /\ useConfigTree
       \/ pc \in {"grabTopology", "grabInventory"}
    /\ pc' = "fatal"
    /\ UNCHANGED <<useConfigTree, showFlows, nodeIdToDpidCache, jsonTopology,
                   jsonInventoryNodes, pendingNodes, pendingLinks, pendingInv>>
    /\ UNCHANGED <<modelVars, reportVars, allocVars>>

\* buildDpidCache (282-301): nothing to do for the operational tree; for
\* the config tree fetch the operational topology and record the
\* datapath id of every ovsdb:1 node that has one.
BuildDpidCache ==
    /\ pc = "buildDpidCache"
    /\ \/ /\ ~useConfigTree
          /\ UNCHANGED nodeIdToDpidCache
       \/ /\ useConfigTree
          /\ \E doc \in TopologyDocs(FALSE) :
                LET withDpid == { r \in BridgeRecs(doc) : r.dpid # NoDpid }
                IN  nodeIdToDpidCache' =
                        [n \in { r.nodeId : r \in withDpid } |->
                            (CHOOSE r \in withDpid : r.nodeId = n).dpid]
    /\ pc' = "grabTopology"
    /\ UNCHANGED <<useConfigTree, showFlows, jsonTopology, jsonInventoryNodes,
                   pendingNodes, pendingLinks, pendingInv>>
    /\ UNCHANGED <<modelVars, reportVars, allocVars>>

\* grabTopologyJson(getMdsalTreeType()) (263-278).
GrabTopologyJson ==
    /\ pc = "grabTopology"
    /\ \E doc \in TopologyDocs(useConfigTree) :
          /\ jsonTopology' = doc
          /\ pendingNodes' = doc.nodes
          \* line 316: links are parsed for the operational tree only
          /\ pendingLinks' = IF useConfigTree THEN {} ELSE doc.links
    /\ pc' = "grabInventory"
    /\ UNCHANGED <<useConfigTree, showFlows, nodeIdToDpidCache,
                   jsonInventoryNodes, pendingInv>>
    /\ UNCHANGED <<modelVars, reportVars, allocVars>>

\* grabInventoryJson(getMdsalTreeType()) (187-202).
GrabInventoryJson ==
    /\ pc = "grabInventory"
    /\ \E doc \in InventoryDocs :
          /\ jsonInventoryNodes' = doc
          /\ pendingInv' = doc
    /\ pc' = "parseTopology"
    /\ UNCHANGED <<useConfigTree, showFlows, nodeIdToDpidCache, jsonTopology,
                   pendingNodes, pendingLinks>>
    /\ UNCHANGED <<modelVars, reportVars, allocVars>>

-----------------------------------------------------------------------------
(* parseTopologyJson (305-319): every node record, then the links.  Node  *)
(* records and links change disjoint state, so parsing the nodes of every *)
(* topology first yields the states of every order of the topology list.  *)

\* parseTopologyJsonNode (323-335) for a record without node-id, or with
\* neither ovsdb:bridge-name nor ovsdb:connection-info: logged, skipped.
SkipNode ==
    /\ pc = "parseTopology"
    /\ \E r \in pendingNodes :
          /\ r.kind = "other"
          /\ pendingNodes' = pendingNodes \ {r}
    /\ UNCHANGED <<pc, useConfigTree, showFlows, nodeIdToDpidCache, jsonTopology,
                   jsonInventoryNodes, pendingLinks, pendingInv>>
    /\ UNCHANGED <<modelVars, reportVars, allocVars>>

\* parseTopologyJsonNodeBridge (365-401) with the termination point loop
\* of parseTopologyJsonNodeBridgeTerminationPoint (406-429): the datapath
\* id is the record's own, else the cache's; constructing the BridgeNode
\* takes the next alias (89); boring tps are dropped; the node is stored.
ParseBridgeNode ==
    /\ pc = "parseTopology"
    /\ \E r \in pendingNodes :
          /\ r.kind = "bridge"
          /\ pendingNodes' = pendingNodes \ {r}
          /\ LET dpId == IF r.dpid # NoDpid THEN r.dpid
                         ELSE IF r.nodeId \in DOMAIN nodeIdToDpidCache
                              THEN nodeIdToDpidCache[r.nodeId] ELSE NoDpid
             IN  bridgeNodes' = (r.nodeId :> [alias |-> NextAlias, dpId |-> dpId,
                                  tps |-> SelectSeq(r.tps, LAMBDA tp : ~IsBoringTp(tp))])
                                @@ bridgeNodes
          /\ GetNextAlias(r.nodeId)
    /\ UNCHANGED <<pc, useConfigTree, showFlows, nodeIdToDpidCache, jsonTopology,
                   jsonInventoryNodes, pendingLinks, pendingInv>>
    /\ UNCHANGED <<ovsdbNodes, ofLinks, flowInfoNodes, reportVars>>

\* An OvsdbNode stored under its remote endpoint, the key the alias dict
\* of showNodesPretty uses, instead of its node id.
ParseOvsdbNodeByRemote ==
    /\ pc = "parseTopology"
    /\ \E r \in pendingNodes :
          /\ r.kind = "manager"
          /\ pendingNodes' = pendingNodes \ {r}
          /\ \/ /\ r.hasLocalIp
                /\ ovsdbNodes' = (r.remote :> [alias |-> r.remote]) @@ ovsdbNodes
                /\ UNCHANGED pc
             \/ /\ ~r.hasLocalIp
                /\ pc' = "crashed"
                /\ UNCHANGED ovsdbNodes
    /\ UNCHANGED <<useConfigTree, showFlows, nodeIdToDpidCache, jsonTopology,
                   jsonInventoryNodes, pendingLinks, pendingInv>>
    /\ UNCHANGED <<bridgeNodes, ofLinks, flowInfoNodes, reportVars, allocVars>>

\* parseTopologyJsonNodeOvsdb (339-361): the connection info is read as
\* local-ip + ':' + local-port; without a local-ip that is None + ':',
\* a TypeError nothing catches.  Otherwise the OvsdbNode is stored with
\* its remote endpoint as alias (121-124).
ParseOvsdbNode ==
    /\ pc = "parseTopology"
    /\ \E r \in pendingNodes :
          /\ r.kind = "manager"
          /\ pendingNodes' = pendingNodes \ {r}
          /\ \/ /\ r.hasLocalIp
                /\ ovsdbNodes' = (r.nodeId :> [alias |-> r.remote]) @@ ovsdbNodes
                /\ UNCHANGED pc
             \/ /\ ~r.hasLocalIp
                /\ pc' = "crashed"
                /\ UNCHANGED ovsdbNodes
    /\ UNCHANGED <<useConfigTree, showFlows, nodeIdToDpidCache, jsonTopology,
                   jsonInventoryNodes, pendingLinks, pendingInv>>
    /\ UNCHANGED <<bridgeNodes, ofLinks, flowInfoNodes, reportVars, allocVars>>

\* Links stored without the link-id check.
ParseFlowLinkUnchecked ==
    /\ pc = "parseTopology"
    /\ pendingNodes = {}
    /\ \E l \in pendingLinks :
          /\ pendingLinks' = pendingLinks \ {l}
          /\ ofLinks' = (l.src :> l.dst) @@ ofLinks
    /\ UNCHANGED <<pc, useConfigTree, showFlows, nodeIdToDpidCache, jsonTopology,
                   jsonInventoryNodes, pendingNodes, pendingInv>>
    /\ UNCHANGED <<bridgeNodes, ovsdbNodes, flowInfoNodes, reportVars, allocVars>>

\* parseTopologyJsonFlowLink (433-450): a link whose link-id differs from
\* its source tp is dropped with a warning; the others are stored keyed
\* by source.
ParseFlowLink ==
    /\ pc = "parseTopology"
    /\ pendingNodes = {}
    /\ \E l \in pendingLinks :
          /\ pendingLinks' = pendingLinks \ {l}
          /\ IF l.linkId # l.src THEN UNCHANGED ofLinks
             ELSE ofLinks' = (l.src :> l.dst) @@ ofLinks
    /\ UNCHANGED <<pc, useConfigTree, showFlows, nodeIdToDpidCache, jsonTopology,
                   jsonInventoryNodes, pendingNodes, pendingInv>>
    /\ UNCHANGED <<bridgeNodes, ovsdbNodes, flowInfoNodes, reportVars, allocVars>>

ParseTopologyDone ==
    /\ pc = "parseTopology"
    /\ pendingNodes = {} /\ pendingLinks = {}
    /\ pc' = "parseInventory"
    /\ UNCHANGED <<useConfigTree, showFlows, nodeIdToDpidCache, jsonTopology,
                   jsonInventoryNodes, pendingNodes, pendingLinks, pendingInv>>
    /\ UNCHANGED <<modelVars, reportVars, allocVars>>

\* One iteration of parseInventoryJson (210-259): a node without id is
\* skipped; the bridge lookup of lines 218-229 only logs; the flows are
\* collected per table and stored under the node's openflow id.
ParseInventoryNode ==
    /\ pc = "parseInventory"
    /\ \E n \in pendingInv :
          /\ pendingInv' = pendingInv \ {n}
          /\ IF n.id = NoId THEN UNCHANGED flowInfoNodes
             ELSE flowInfoNodes' = (n.id :> FlowInfoNode(n)) @@ flowInfoNodes
    /\ UNCHANGED <<pc, useConfigTree, showFlows, nodeIdToDpidCache, jsonTopology,
                   jsonInventoryNodes, pendingNodes, pendingLinks>>
    /\ UNCHANGED <<bridgeNodes, ovsdbNodes, ofLinks, reportVars, allocVars>>

ParseInventoryDone ==
    /\ pc = "parseInventory"
    /\ pendingInv = {}
    /\ pc' = "showNames"
    /\ UNCHANGED <<useConfigTree, showFlows, nodeIdToDpidCache, jsonTopology,
                   jsonInventoryNodes, pendingNodes, pendingLinks, pendingInv>>
    /\ UNCHANGED <<modelVars, reportVars, allocVars>>

-----------------------------------------------------------------------------
(* The report.                                                            *)

\* showPrettyNamesMap (454-466): the legend is a dict keyed by alias,
\* filled from the bridges in dict order; a later bridge with the same
\* alias replaces an earlier one.
ShowPrettyNamesMap ==
    /\ pc = "showNames"
    /\ LET aliases == { bridgeNodes[b].alias : b \in DOMAIN bridgeNodes }
       IN  \E pick \in [aliases -> DOMAIN bridgeNodes] :
              /\ \A a \in aliases : bridgeNodes[pick[a]].alias = a
              /\ aliasMap' = pick
    /\ pc' = "showNodes"
    /\ UNCHANGED <<nodesReport, flowReport, linksReport>>

\* showNodesPretty (470-487) with showPrettyBridgeNodes and
\* showBridgeOnlyNodes (545-595): without managers every bridge is listed
\* under its node-id prefix; otherwise each manager (one per alias, the
\* dict of line 475) lists the bridges getNodeBridgeIds finds, and the
\* bridges whose prefix is not a manager are listed under that prefix.
ShowNodesPretty ==
    /\ pc = "showNodes"
    /\ LET line(section, b) == [section |-> section, bridge |-> b,
                                ports |-> ShownPorts(bridgeNodes[b].tps)]
           orphans(onlyOrphans) ==
               { line(<<"prefix", NodePrefix(b)>>, b) :
                   b \in { b \in DOMAIN bridgeNodes :
                             ~(onlyOrphans /\ ManagedBridge(b)) } }
           mgrAliases == { ovsdbNodes[m].alias : m \in DOMAIN ovsdbNodes }
       IN  IF DOMAIN ovsdbNodes = {}
           THEN nodesReport' = orphans(FALSE)
           ELSE \E aliasDict \in [mgrAliases -> DOMAIN ovsdbNodes] :
                   /\ \A a \in mgrAliases : ovsdbNodes[aliasDict[a]].alias = a
                   /\ nodesReport' =
                        UNION { { line(<<"manager", aliasDict[a]>>, b) :
                                    b \in GetNodeBridgeIds(aliasDict[a]) } :
                                a \in mgrAliases }
                        \cup orphans(TRUE)
    /\ pc' = "showFlows"
    /\ UNCHANGED <<aliasMap, flowReport, linksReport>>

\* showFlowInfoPretty (491-530): with flows shown, each inventory node is
\* keyed by its pretty name (a dict, line 506) and its tables printed.
ShowFlowInfoPretty ==
    /\ pc = "showFlows"
    /\ \/ /\ ~showFlows \/ DOMAIN flowInfoNodes = {}
          /\ UNCHANGED flowReport
       \/ /\ showFlows /\ DOMAIN flowInfoNodes # {}
          /\ \E label \in [DOMAIN flowInfoNodes ->
                             { AliasLabel(bridgeNodes[b].alias) : b \in DOMAIN bridgeNodes }
                             \cup { RawLabel(k) : k \in DOMAIN flowInfoNodes }] :
                /\ \A k \in DOMAIN flowInfoNodes :
                      IF PrettyNameMatches(k) = {} THEN label[k] = RawLabel(k)
                      ELSE \E b \in PrettyNameMatches(k) :
                              label[k] = AliasLabel(bridgeNodes[b].alias)
                /\ \E keyOf \in [Range(label) -> DOMAIN flowInfoNodes] :
                      /\ \A l \in Range(label) : label[keyOf[l]] = l
                      /\ flowReport' = [l \in Range(label) |-> flowInfoNodes[keyOf[l]]]
    /\ pc' = "showLinks"
    /\ UNCHANGED <<aliasMap, nodesReport, linksReport>>

\* showOfLinks (646-666), then doMain returns and the program exits 0.
ShowOfLinks ==
    /\ pc = "showLinks"
    /\ linksReport' = ResolveLinks(ofLinks, SetToSortSeq(DOMAIN ofLinks, <), {}, <<>>)
    /\ pc' = "done"
    /\ UNCHANGED <<aliasMap, nodesReport, flowReport>>

ReportStep ==
    /\ \/ ShowPrettyNamesMap \/ ShowNodesPretty \/ ShowFlowInfoPretty \/ ShowOfLinks
    /\ UNCHANGED <<useConfigTree, showFlows, nodeIdToDpidCache, jsonTopology,
                   jsonInventoryNodes, pendingNodes, pendingLinks, pendingInv>>
    /\ UNCHANGED <<modelVars, allocVars>>

Next ==
    \/ FetchFails
    \/ BuildDpidCache
    \/ GrabTopologyJson
    \/ GrabInventoryJson
    \/ SkipNode
    \/ ParseBridgeNode
    \/ ParseOvsdbNode
    \/ ParseFlowLink
    \/ ParseTopologyDone
    \/ ParseInventoryNode
    \/ ParseInventoryDone
    \/ ReportStep

\* The program is one thread that runs until it exits.
Spec == Init /\ [][Next]_vars

-----------------------------------------------------------------------------
(* Properties.                                                            *)

PcValues == {"buildDpidCache", "grabTopology", "grabInventory", "parseTopology",
             "parseInventory", "showNames", "showNodes", "showFlows", "showLinks"}
             \cup Terminated

TypeOK ==
    /\ pc \in PcValues
    /\ useConfigTree \in BOOLEAN /\ showFlows \in BOOLEAN
    /\ pendingNodes \subseteq NodeRecs
    /\ pendingLinks \subseteq LinkRecs
    /\ pendingInv \subseteq InvRecs
    /\ DOMAIN bridgeNodes \subseteq { r.nodeId : r \in NodeRecs }
    /\ DOMAIN ovsdbNodes \subseteq Managers
    /\ AllocTypeOK

\* The report sections printed so far.
NamesPrinted == pc \in {"showNodes", "showFlows", "showLinks", "done"}
NodesPrinted == pc \in {"showFlows", "showLinks", "done"}
FlowsPrinted == pc \in {"showLinks", "done"}
LinksPrinted == pc = "done"

\* The record of the fetched topology a bridge was built from.
RecordOf(b) == CHOOSE r \in jsonTopology.nodes : r.nodeId = b

\* The section a bridge belongs in: its manager's, when the manager was
\* parsed, else the group of its node-id prefix.
OwnerSection(b) ==
    IF b.mgr \in DOMAIN ovsdbNodes THEN <<"manager", b.mgr>> ELSE <<"prefix", b.mgr>>

\* Every bridge of the model is printed exactly once in the node section,
\* in the section of its own manager or prefix group: the manager loop of
\* showNodesPretty, getNodeBridgeIds and the orphan pass of
\* showBridgeOnlyNodes together place it once.
BridgeListedOnce ==
    NodesPrinted =>
        \A b \in DOMAIN bridgeNodes :
            { l.section : l \in { l \in nodesReport : l.bridge = b } } = {OwnerSection(b)}

\* The alias legend lists every bridge under the alias it is shown with,
\* however often the alias words wrap: getNextAlias never hands two bridges
\* the same alias, so showPrettyNamesMap's dict loses none.
AliasLegendComplete ==
    NamesPrinted => \A b \in DOMAIN bridgeNodes : aliasMap[bridgeNodes[b].alias] = b

\* The internal ports of br-int and br-ex that spec.md 3 calls noise.
Noise(tp) == tp.ofport = Internal /\ tp.name \in {"br-int", "br-ex"}

\* Every termination point of a bridge that is not noise is printed under
\* the bridge (spec.md 4.5: the manager sections list the bridges' ports).
AllPortsPrinted ==
    NodesPrinted =>
        \A l \in nodesReport : \A tp \in Range(RecordOf(l.bridge).tps) :
            ~Noise(tp) => tp \in l.ports

\* Directed links the operational flow:1 topology declares consistently.
AcceptedLinks ==
    IF useConfigTree THEN {}
    ELSE { <<l.src, l.dst>> : l \in { l \in jsonTopology.links : l.linkId = l.src } }

Covers(line, e) ==
    \/ <<line.from, line.to>> = e
    \/ line.dir = "bi" /\ <<line.to, line.from>> = e

\* Every consistent discovered link is printed exactly once, a reciprocal
\* pair as one "<->" line, and no line stands for a link the document does
\* not hold consistently (parseTopologyJsonFlowLink with showOfLinks;
\* spec.md 4.4 and 8).
LinksReportedOnce ==
    LinksPrinted =>
        /\ \A e \in AcceptedLinks :
              /\ Cardinality({ i \in DOMAIN linksReport : Covers(linksReport[i], e) }) = 1
              /\ <<e[2], e[1]>> \in AcceptedLinks =>
                    \E i \in DOMAIN linksReport :
                        Covers(linksReport[i], e) /\ linksReport[i].dir = "bi"
        /\ \A i \in DOMAIN linksReport :
              LET l == linksReport[i]
              IN  /\ <<l.from, l.to>> \in AcceptedLinks
                  /\ l.dir = "bi" => <<l.to, l.from>> \in AcceptedLinks

\* Times x occurs among the flows the document lists for table t of n.
FlowCount(n, t, x) ==
    Cardinality(UNION { { <<i, j>> : j \in { j \in DOMAIN n.tables[i].flows :
                                              n.tables[i].flows[j] = x } } :
                        i \in { i \in DOMAIN n.tables : n.tables[i].id = t } })

\* The ids of the tables of n that have a flow.
TableIdsOf(n) == { n.tables[i].id : i \in { i \in DOMAIN n.tables : n.tables[i].flows # <<>> } } \ {NoId}

\* The bridges whose datapath id converts to the inventory id k.
OwnersOf(k) ==
    { b \in DOMAIN bridgeNodes :
        bridgeNodes[b].dpId # NoDpid /\ OfFormat(bridgeNodes[b].dpId) = k }

\* With flows shown, every inventory node that has an id gets one flow
\* section, labelled with the alias of a bridge whose datapath id is that
\* node's (the raw id when there is none); each of its tables with a flow
\* (only a flow creates a table's key, lines 248-251) lists every
\* flow of that table's entries, as often as the document has it, in
\* sorted order (parseInventoryJson with showFlowInfoPretty).
FlowsReported ==
    (FlowsPrinted /\ showFlows) =>
        LET nodes == { n \in jsonInventoryNodes : n.id # NoId }
        IN  /\ Cardinality(DOMAIN flowReport) = Cardinality(nodes)
            /\ \A n \in nodes : \E l \in DOMAIN flowReport :
                  /\ IF OwnersOf(n.id) = {} THEN l = RawLabel(n.id)
                     ELSE \E b \in OwnersOf(n.id) : l = AliasLabel(bridgeNodes[b].alias)
                  /\ DOMAIN flowReport[l] = TableIdsOf(n)
                  /\ \A t \in TableIdsOf(n) :
                        LET s == flowReport[l][t]
                        IN  /\ IsSorted(s, <=)
                            /\ \A x \in Range(s) \cup UNION { Range(n.tables[i].flows) :
                                                          i \in DOMAIN n.tables } :
                                  Cardinality({ j \in DOMAIN s : s[j] = x }) = FlowCount(n, t, x)

\* A record missing an optional field is never fatal (spec.md 4.3 and 7):
\* the run does not end in an uncaught exception.
MissingFieldsNotFatal == pc # "crashed"
=============================================================================
