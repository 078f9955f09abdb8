# TLA+ models of the OVSDB MD-SAL inspection tools

This directory holds TLA+ models of the Python tools under `src/resources/`.
The largest model is of `src/resources/commons/showOvsdbMdsal.py`, which reads the topology and inventory trees
of an OpenDaylight controller and prints a report of managers, bridges, ports,
flows and links. Each module is written from the source lines that
`PROJECT.json` ("map") names for each definition.

## 1. The system

| part | source | state | operations |
|---|---|---|---|
| Alias allocator | `State.__init__`, `State.getNextAlias` (lines 24-60) | `nextAliasIndex`, `nextAliasWrap`, `nodeIdToAlias` | `getNextAlias(nodeId)`, called once by every `BridgeNode` constructor (line 89) |
| Identifier codec | `dataPathIdToOfFormat` (619-620) | none | colon-hex datapath id to `openflow:<decimal>` |
| Fetch | `grabJson`, `grabTopologyJson`, `grabInventoryJson` (164-202, 263-278) | the fetched documents | HTTP GET; exit 1 on failure or a missing container |
| Datapath cache | `buildDpidCache` (282-301) | `nodeIdToDpidCache` | config-tree runs only: fetch the operational tree and record each bridge's datapath id |
| Topology builder | `parseTopologyJson*` (305-450) | `state.bridgeNodes`, `state.ovsdbNodes`, `state.ofLinks` | skip unknown records; build bridges (alias, datapath id, filtered ports), managers, links |
| Inventory parser | `parseInventoryJson` (206-259) | `flowInfoNodes` | collect flow ids per table, then sort them |
| Renderer | `showPrettyNamesMap`, `showNodesPretty`, `showBridgeOnlyNodes`, `showPrettyTerminationPoints`, `showFlowInfoPretty`, `showPrettyName`, `showOfLinks` (454-666) | the printed report | legend, manager sections, orphan groups, flow sections, link list |
| Driver | `parseArgv`, `doMain` (670-709) | `options` | runs the steps above in a fixed order |

The program runs on a single thread, and it is the only process that touches
its own state. The concurrency comes from the controller. Each fetch returns
whatever the controller holds at that moment, so the operational tree used for
the cache, the topology and the inventory are three snapshots that need not
agree. Every fetch can also fail.

Other sources:

| part | source | state | operations |
|---|---|---|---|
| Flow dump prettifier | `readable_flows.py` lines 28-65, 109-133 | `table`, `rules_by_prio` | read a line; flush a table group on a change of table and at the end (`print_rules`) |
| Log indenter | `pplog.py` lines 11-69 | `line_num` (global); per line `i`, `in_ws`, `is_empty_list`, `last_char`, `title`, `title_stack` | skip or split a line; one loop pass per message character |
| SFC provisioning | `demo-asymmetric-chain/rest.py` (`put`, main), `rest-clean.py` (`rest_delete`, main) | the controller's config datastore | PUT seven containers in order, stopping at the first failure; DELETE them, printing "oops" on a failure and going on |
| Switch launch | `infrastructure_launch.py` (`addSwitch` 22-31, `launch` 92-118, main 120-166) | the bridges created and the OpenFlow ports requested on this VM | pick the switch entry from the host name; create the bridge, tunnels and one container port per host, or the SFF bridge, or run the SF script |
| L3 test topology | `mininet/topo.py` `L3TestTopo.__init__` (24-56) | the mininet graph: hosts with address and route, switches, links | four `addHost`, one `addSwitch`, four `addLink` calls in order |
| Datapath dump | `dpdumpflows.py` | none | a wrapper around `ovs-dpctl` |

The filters and the scripts are single-threaded. The REST scripts share one
resource, the controller's datastore, across runs: one script may run after
another has stopped part way.

## 2. Modules

- **AliasAllocator**: models `getNextAlias`.
  - The variables are the three fields of `State`.
  - `GetNextAlias(nodeId)` is one call. `AdvanceCursor` is the wrap test of lines 53-57, which compares words, not indices.
  - An alias is the tuple of the pieces the code concatenates: `<<word>>`, or `<<word, "_", wrap>>`.
- **AliasSpec**: the abstract allocator. The n-th allocation gets word `n mod L` with wrap suffix `n div L`, and an id is never allocated twice.
- **MC_Standalone**: four parts that share no state, checked in one run. `part` is chosen in `Init`; only that part's actions run, and the other parts keep their initial values. So the state space is the sum of the four, not their product.
  - "alloc": `AllocateFresh` drives the allocator with its one caller (a fresh node id per bridge). The refinement mapping `allocated = wrap * L + index` is checked through `INSTANCE AliasSpec WITH ...`.
  - "codec": `GrowDpid` grows a string through every string of up to 5 symbols over `{0,1,10,15,':',junk}`. The codec is compared with an independent reference: the big-endian value of the bytes, built with `Power`.
  - "rest": `SfcRest` with the containers, orders and references of `MC_SfcRest`.
  - "flows": `ReadableFlows` over the dump lines of `MC_ReadableFlows`, plus a table 25 that `TABLE_NAME` lacks.
  - "launch": `InfraLaunch` (instanced with its `pc` renamed `launchPc`) on a configuration of a netvirt switch `sw1` with hosts `h1` and `h3`, an SFF `sw2` with host `h2`, and an SF `sw3`, for host-name suffixes 0 to 4 and none.
  - "topo": `L3Topo`.
- **DpidCodec**: `dataPathIdToOfFormat`.
  - `StripColons` is `replace(':','')`.
  - `HexValue` is a RECURSIVE Horner evaluation, which is what `int(s, 16)` does.
  - `OfFormatDefined` says when `int` raises, namely on an empty string or a foreign symbol.
  - `PadDpid` and `PadDefined` are `addSwitch` of `infrastructure_launch.py`: zero-padding to 16 digits, and the exit on a longer id.
- **ShowOvsdbMdsal**: the whole of `doMain`, with a `pc` variable.
  - It EXTENDS AliasAllocator, so bridge construction and alias allocation happen in one step, as they do in the constructor. It also EXTENDS DpidCodec.
  - Each step of the code is an action:

    | action | code |
    |---|---|
    | `FetchFails` | any fetch exits |
    | `BuildDpidCache` | two disjuncts: operational tree and config tree |
    | `GrabTopologyJson` | fetch the topology |
    | `GrabInventoryJson` | fetch the inventory |
    | `SkipNode` | skip an unknown record |
    | `ParseBridgeNode` | build a bridge |
    | `ParseOvsdbNode` | build a manager, or crash without local-ip |
    | `ParseFlowLink` | store a link, or drop it on the id check |
    | `ParseTopologyDone` | end of the topology loop |
    | `ParseInventoryNode` | parse one inventory node |
    | `ParseInventoryDone` | end of the inventory loop |
    | `ShowPrettyNamesMap`, `ShowNodesPretty`, `ShowFlowInfoPretty`, `ShowOfLinks` | the four report sections |

  - Records of a document are parsed in any order (`\E r \in pending...`), which covers every order of the JSON lists.
  - Nodes are parsed before links. Node and link parsing change disjoint state, so this loses no reachable state.
  - Python dicts whose keys collide (the alias legend, the manager `aliasDict`, the flow labels) are modelled as a choice of the surviving entry. Which entry survives depends on dict iteration order.
- **ReadableFlows**: the loop of `readable_flows.py`.
  - A line is a record `[kind, table, prio, rule]`, and `lines` is the whole input, chosen in `Init` among all sequences of up to `MaxLines` lines.
  - `ReadOtherLine` echoes a line the pattern does not match. `ReadFlowLine` has four disjuncts: same table; first table; a change of table that flushes the group (`PrintRules`) and starts a new one (`StartGroup`); and the crash of `print_rules`. `EndOfInput` flushes the last group or crashes.
  - `Printable` is the condition under which `print_rules` does not raise: `int(table)` must parse and `TABLE_NAME` must hold the number.
  - **MC_ReadableFlows** gives flow lines of tables 0 and 10, priorities 100, default and absent, and two rules.
- **SfcRest**: both REST scripts against one datastore (a set of containers).
  - `Start` runs either script, or exits at once without `ODL`. `RestPut` is one `put()`. `CleanDelete` is one `rest_delete()`.
  - A request has four outcomes (`Outcomes`): applied; rejected with an error status; a connection error before the commit; or a connection error after it.
  - `Refs` maps a container to the containers its payload names (the service functions name their forwarder, the forwarders their functions, the path its chain, the ACL its chain, the classifier its ACL and forwarder).
  - **MC_SfcRest** gives the seven containers, the two orders of the scripts' mains, and one reference set per `get_*_data` builder.
- **InfraLaunch**: `infrastructure_launch.py` on one VM.
  - `Main` is lines 120-128: the host-name suffix `k` selects entry `k-1`; no suffix raises, an index outside the range does nothing, and an index the range admits but the list lacks raises `IndexError`.
  - `LaunchHost` is one pass of the host loop of `launch`. The first host of the switch creates the bridge through `AddSwitch` (or exits 3 on a datapath id over 16 digits) and its tunnels (ofport 7, and 5 on sw1 and sw6). Every host of the switch gets the next container port. `ConfigureOther` is the SFF/SF branch, `LaunchDone` the end of the loop.
  - The shell commands are recorded by their effect: `bridges` maps a bridge to its padded datapath id, and `ofports` holds the requested ports.
  - `PortsFollowHosts` relates the bridge and the requested ports to the hosts of the switch the loop has passed.
  - **MC_InfraLaunch** gives a netvirt switch with two hosts, an SFF, and suffixes 0 to 3 and none.
- **L3Topo**: `L3TestTopo.__init__` of `mininet/topo.py`.
  - `TopoCalls` is the constructor's sequence of calls. `AddHostH1` to `AddHostH4` are the four `addHost` calls; an address is its octets and prefix length, a route its device (host and interface number) and gateway. The mac addresses are left out.
  - `TopoStep` applies one call to the graph, as mininet's `Topo` records it. A host's interfaces are numbered in the order `addLink` connects it.
  - `DocDomain` is the docstring's grouping of hosts into broadcast domains (lines 10-12).
- **PpLog**: the whole of `pplog.py`.
  - `SkipLine` (no '|'), `ShortLine` (one to four '|', ValueError), `StartLine` (the per-line reset) and `ReadChar`, which is one pass of the character loop with every write in order. `EndLine` ends the message.
  - Characters are five classes: blank, opener, closer, comma and other. A title is only empty or not. A `title_stack` entry records which opening bracket its title preceded. The ghost `nest` is the stack of brackets really open, used only by the properties.
  - `out` is the token sequence written: line starts, echoed characters, `nl()` with its indent, and `/* title */` notes.
  - `last_char` starts as `"none"`, Python's `''`, which `InCloser` counts as in `closer` (`'' in ']}>'` is true): a message's first character other than a comma is preceded by a newline, and a closing bracket first gets no second one.
- **MC_ShowOvsdbMdsal**: the documents the controller can return.
  - Records come from two managers `m1` and `m2`, bridges with datapath ids `D1` and `D2`, ports of `br-int` and `eth0` with ofport internal, 1 or unassigned, three link endpoints, and inventory tables with and without ids.
  - `IdContains` says which manager id is a substring of which bridge node id. The exact version gives distinct ids. The substring version makes `m1` a prefix of `m2`, as `ovsdb://HOST1` is of `ovsdb://HOST10`.
  - `Remote` gives each manager's remote endpoint, the key of `aliasDict`. `DistinctRemotes` gives different endpoints. `SharedRemote` gives both managers the same one, as when a switch reconnects under a second node id.

## 3. Runs

| run | checks | shows |
|---|---|---|
| standalone | `TypeOK`, `ImplementsAliasSpec`, `OfFormatIsBigEndian`, `PaddedDpidKeepsOfId`, `ProvisionedOnSuccess`, `CleanResidueReported`, `PutAfterReferenced`, `FlowsRegrouped`, `SectionsFollowInput` | `getNextAlias` is the n-th-alias allocator across two wraps of a three-word alphabet (7 ids). The codec agrees with the big-endian reference and rejects foreign symbols, and padding keeps an id's value. Over up to three runs of either REST script, with any request failing, `rest.py` exits 0 only with every container stored, `rest-clean.py` leaves only containers it printed "oops" for, and `rest.py` sends each container after those it names, except for a pair that name each other. Every flow line is printed under its table and priority, once per run of consecutive lines of a table, or the script stops at a table `TABLE_NAME` lacks. On the VM of a netvirt switch, the bridge carries its tunnels and exactly one container port per host of that switch passed so far (`PortsFollowHosts`). In the L3 topology, two hosts share a subnet exactly when the docstring puts them in one broadcast domain, and every default route uses a linked interface and an on-link gateway (`DomainsAsDocumented`, `RoutesResolve`) |
| report_nodes | `TypeOK`, `BridgeListedOnce`, `AliasLegendComplete` | each bridge is printed once, in its manager's section or its prefix group; the legend keeps every alias (one-word alphabet, so every bridge wraps) |
| report_links | `LinksReportedOnce` | every consistent link is printed exactly once, a reciprocal pair as one `<->` line; inconsistent links are not printed |
| report_flows | `FlowsReported` | one flow section per inventory node; the label comes from a matching bridge alias; every flow of every table appears as often as in the document, sorted; a table without flows gets no entry (only a flow creates its key, lines 248-251) |
| placement_substring (violation) | `BridgeListedOnce` | a bridge is also printed under a manager whose id is a substring of its node id |
| ports_collapse (violation) | `AllPortsPrinted` | ports sharing an ofport value collapse into one printed port |
| manager_crash (violation) | `MissingFieldsNotFatal` | a config-tree manager without `local-ip` aborts the run with a TypeError |
| flows_empty_crash (violation) | `NoCrash` | a dump without a flow line ends `readable_flows.py` with a ValueError (`int('')`) |
| pplog_layout | `IndentFollowsNesting`, `NoLeadingBlanks` | every line is indented by the brackets open before it, a closing bracket lines up with its opening line, and no line starts with a blank |
| pplog_notes (violation) | `NoteNamesItsBracket` | after an untitled opening bracket, the `/* title */` comment of a closing bracket names an outer bracket |
| shared_remote (violation) | `BridgeListedOnce` | two managers with one remote endpoint keep one `aliasDict` entry, and the other's bridges are printed nowhere |
| launch_index (violation) | `NoIndexError` | on VM `netvirtsfc<n+1>` with `n` switch entries, the range check admits index `n` and line 127 raises `IndexError` |

The seven violations are findings, recorded in `PROJECT.json`:

- `getNodeBridgeIds` uses a substring test (line 537).
- `showPrettyTerminationPoints` keys ports by ofport (line 603).
- `parseTopologyJsonNodeOvsdb` concatenates a possibly missing local-ip (line 348). spec.md 4.3 and 7 say a missing optional field is never fatal.
- `readable_flows.py` crashes on a dump without flows (line 55).
- `pplog.py` pushes `title_stack` only for a titled bracket but pops it at every closer (lines 54 and 62).
- `showNodesPretty` keys `aliasDict` by remote endpoint (line 475), so a manager sharing its endpoint with another loses its bridges from the report.
- `infrastructure_launch.py` checks `range(0, len(switches)+1)` (line 124), one past the list.

Each property of a passing run has a mutant in `PROJECT.json`. A mutant is a plausible code bug that TLC must catch, for example:

- a cursor that never counts a wrap;
- flow lists that are never sorted;
- a launch host loop that ignores the host's switch;
- links stored without the id check;
- an orphan pass without the manager filter.

**Bounds.** Two managers are enough for one of them to own bridges while the other is absent or shadowing it. Two bridges per manager id pattern and two datapath ids are enough for an inventory node to match a bridge or nothing. A one-word alphabet in report_nodes makes every allocation wrap. Port lists of length two give duplicate ofports. Inventory tables are keyed by id as in the YANG model: a node has at most one table per id, with or without flows. Three link endpoints give reciprocal pairs, one-way links, self-loops and links whose id is wrong. Tables of up to two entries with id 0 or none, with no flow or the unsorted flows 2, 1, give missing table ids, empty tables and the sort.

For `readable_flows.py`, four lines over two tables give a table that comes back after another (printed twice), repeated and distinct priorities, and a priority-less line. For the REST scripts, three runs give a failed `rest.py`, a cleanup, and a retry. In the standalone launch part, a host of another switch between the two hosts of `sw1` shows that the loop skips it. For the launch script's violation run, two switches and two hosts on one switch give a first and a later host, an SFF, and every suffix case (none, in range, the off-by-one, beyond). For `pplog.py`, eight characters over two log lines reach three levels of nesting, empty lists, a closer with nothing open, and the more-than-five-lines distance at which a note is printed; the violation needs seven.

**Fairness.** No module assumes fairness and no run checks a liveness property. Every program here blocks on something that can take forever: `grabJson` calls `urlopen` without a timeout (line 172), the REST scripts call `requests` without one (rest.py line 38), and the filters read stdin, which may never end. The code gives no progress guarantee a fairness assumption could rest on. What the runs check are invariants of every reachable state, and facts about the end of a run are stated as invariants guarded by the end state (`pc = "done"`). The terminal states (`done`, `fatal`, `crashed`) have no successor, so the runs set `CHECK_DEADLOCK FALSE`: the programs really do stop there.

## 4. Not modelled

- The controller-target and connected columns of `showPrettyBridgeNodes` are not modelled. Neither are the `-n/--noalias` option, the `-d` verbosity and all text layout. They change no state the properties look at.
- The order of printed sections is not modelled. Sections are sets, except the link list, which is a sequence because its order decides which line of a pair is printed.
- Malformed datapath ids are not generated in topology documents, because the YANG model types the field. The codec run shows what `dataPathIdToOfFormat` accepts.
- In `readable_flows.py`, the neutron port-list parsing (lines 97-107) and the MAC/IP annotation and `tun_id` rewriting (67-72, 112-116) are text processing: they change only the text of a line before it is matched. `print_flow` prints a line; its wrapping is commented out. None of these is modelled; the component is partly modelled.
- The REST payload builders (`get_*_data`) return constants. Only the containers each payload names are modelled. Nothing in the repository says `rest-clean.py` must keep references resolved while it deletes, so no property states it.
- `infrastructure_launch.py` runs `ovs-vsctl`, `docker` and shell scripts and reads nothing back; their text is not modelled, only the bridges and ports they request. `infrastructure_config`, which it imports, is not in the repository, so its lists are constants. The status printing of lines 129-147 is not modelled.
- The 12-run budget is used in full. A property relating the config-mode datapath cache to the config tree (the stale-cache hazard) has no run.
- `dpdumpflows.py` runs `ovs-dpctl` and prints its output split at `recirc_id`: one command and one `str.split`, with no state or decision to check.
- In `mininet/topo.py`, the mininet `Topo` class is a library outside the repository; its `add*` methods are modelled by what they record.
