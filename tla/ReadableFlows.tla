---------------------------- MODULE ReadableFlows ----------------------------
(***************************************************************************)
(* readable_flows.py: the loop over the lines of an ovs-ofctl dump-flows  *)
(* (lines 109-133) and print_rules (52-65).  A flow line is grouped under *)
(* its table and its priority; when the table changes, the rules gathered *)
(* so far are printed and a new group starts; at the end of the input the *)
(* last group is printed.                                                  *)
(*                                                                         *)
(* A line is the record [kind, table, prio, rule]: kind "flow" when       *)
(* LINE_PATTERN matches (117), else "other"; table is the number after    *)
(* "table=", prio the number after "priority=" or NoPrio when the group   *)
(* is absent, rule a model value for the rest of the line.  The MAC/IP    *)
(* annotation and tun_id rewriting of lines 112-116 change only the text  *)
(* of a rule and are not modelled.  Printed output is a sequence of       *)
(* [kind, val] items: "table" headings, "prio" lines, "rule" lines and    *)
(* echoed "other" lines.                                                   *)
(***************************************************************************)
EXTENDS Integers, SequencesExt

CONSTANTS
    Lines,      \* the lines a dump can hold
    MaxLines,   \* longest input considered
    NoTable,    \* table == '' before the first flow line
    NoPrio,     \* a flow line without a priority= group
    NoRule      \* the rule field of a line that is not a flow

ASSUME MaxLines \in Nat

VARIABLES
    lines,          \* sys.stdin, fixed for the run
    pos,            \* the next line to read
    table,          \* table: the table of the group being gathered
    rules_by_prio,  \* rules_by_prio: priority -> rules, in input order
    out,            \* what has been printed
    pc              \* "loop", "done" or "crashed"

vars == <<lines, pos, table, rules_by_prio, out, pc>>

\* DEFAULT_PRIO (line 28).
DEFAULT_PRIO == 32768

\* TABLE_NAME (lines 30-45).  A dict display keeps the last value given
\* for a repeated key (10, 20 and 70 appear twice); only the keys matter
\* here: print_rules looks the table up and fails on a missing key.
TABLE_NAME ==
    (0 :> "CLASSIFIER") @@ (10 :> "SFC_CLASSIFIER") @@ (20 :> "ARP_RESPONDER")
    @@ (30 :> "INBOUND_NAT") @@ (40 :> "EGRESS_ACL") @@ (50 :> "LOAD_BALANCER")
    @@ (60 :> "ROUTING") @@ (70 :> "L3_FORWARDING") @@ (80 :> "L2_REWRITE")
    @@ (90 :> "INGRESS_ACL") @@ (100 :> "OUTBOUND_NAT") @@ (110 :> "L2_FORWARDING")

\* Lines 128-130: the priority of a flow line, DEFAULT_PRIO when absent.
PrioOf(l) == IF l.prio = NoPrio THEN DEFAULT_PRIO ELSE l.prio

\* rules_by_prio[prio].append(rule) on a defaultdict(list) (line 131).
AppendRule(rbp, p, r) ==
    IF p \in DOMAIN rbp THEN [rbp EXCEPT ![p] = Append(@, r)]
    ELSE (p :> <<r>>) @@ rbp

\* print_rules can print table t: int(table[cut+1:]) must parse (the
\* empty table of a run without flow lines does not) and TABLE_NAME
\* must hold the number (lines 54-55).
Printable(t) == t # NoTable /\ t \in DOMAIN TABLE_NAME

\* print_rules(table, rules_by_prio) (52-65): the heading, then the
\* priorities sorted and reversed, each with its rules in order.
PrintRules(t, rbp) ==
    LET ps == SetToSortSeq(DOMAIN rbp, >)
        group(p) == <<[kind |-> "prio", val |-> p]>>
                    \o [j \in 1..Len(rbp[p]) |-> [kind |-> "rule", val |-> rbp[p][j]]]
    IN  <<[kind |-> "table", val |-> t]>> \o FlattenSeq([i \in 1..Len(ps) |-> group(ps[i])])

\* A new group that keeps the rules of the group just printed.
StartGroupKeep(l) == AppendRule(rules_by_prio, PrioOf(l), l.rule)

\* Lines 125 and 131: the group after a change of table holds only the
\* rule of the line that changed it.
StartGroup(l) == AppendRule(<<>>, PrioOf(l), l.rule)

Init ==
    /\ lines \in BoundedSeq(Lines, MaxLines)
    /\ pos = 1
    /\ table = NoTable
    /\ rules_by_prio = <<>>
    /\ out = <<>>
    /\ pc = "loop"

\* Lines 117-120: a line LINE_PATTERN does not match is echoed.
ReadOtherLine ==
    /\ pc = "loop" /\ pos <= Len(lines)
    /\ lines[pos].kind = "other"
    /\ out' = Append(out, [kind |-> "other", val |-> pos])
    /\ pos' = pos + 1
    /\ UNCHANGED <<lines, table, rules_by_prio, pc>>

\* Lines 122-131 for a flow line: a change of table prints the gathered
\* group first (when there is one) and starts an empty one; the rule is
\* then added under its priority.  print_rules may raise.
ReadFlowLine ==
    /\ pc = "loop" /\ pos <= Len(lines)
    /\ LET l == lines[pos] IN
       /\ l.kind = "flow"
       /\ pos' = pos + 1
       /\ \/ /\ l.table = table
             /\ rules_by_prio' = AppendRule(rules_by_prio, PrioOf(l), l.rule)
             /\ UNCHANGED <<table, out, pc>>
          \/ /\ l.table # table /\ table = NoTable
             /\ table' = l.table
             /\ rules_by_prio' = AppendRule(rules_by_prio, PrioOf(l), l.rule)
             /\ UNCHANGED <<out, pc>>
          \/ /\ l.table # table /\ table # NoTable /\ Printable(table)
             /\ out' = out \o PrintRules(table, rules_by_prio)
             /\ table' = l.table
             /\ rules_by_prio' = StartGroup(l)
             /\ UNCHANGED pc
          \/ /\ l.table # table /\ table # NoTable /\ ~Printable(table)
             /\ pc' = "crashed"
             /\ UNCHANGED <<table, rules_by_prio, out>>
    /\ UNCHANGED lines

\* An end of input that forgets the group still gathered.
EndOfInputNoFlush ==
    /\ pc = "loop" /\ pos > Len(lines)
    /\ pc' = "done"
    /\ UNCHANGED <<lines, pos, table, rules_by_prio, out>>

\* Line 133: after the last line the gathered group is printed; with no
\* flow line at all table is still '' and int('') raises ValueError.
EndOfInput ==
    /\ pc = "loop" /\ pos > Len(lines)
    /\ \/ /\ Printable(table)
          /\ out' = out \o PrintRules(table, rules_by_prio)
          /\ pc' = "done"
       \/ /\ ~Printable(table)
          /\ pc' = "crashed"
          /\ UNCHANGED out
    /\ UNCHANGED <<lines, pos, table, rules_by_prio>>

Next == ReadOtherLine \/ ReadFlowLine \/ EndOfInput

\* The script reads its input to the end without waiting on anything.
Spec == Init /\ [][Next]_vars

-----------------------------------------------------------------------------
(* Properties.                                                            *)

FlowIndices == { i \in 1..Len(lines) : lines[i].kind = "flow" }

\* The last item of kind k printed at or before position i.
LastItem(k, i) ==
    CHOOSE h \in 1..i : out[h].kind = k /\ \A m \in (h + 1)..i : out[m].kind # k

\* A printed rule with the table heading and priority line it is under.
PrintedFlow(i) == <<out[LastItem("table", i)].val, out[LastItem("prio", i)].val, out[i].val>>

InputFlow(i) == <<lines[i].table, PrioOf(lines[i]), lines[i].rule>>

\* When the dump is printed, every flow line appears exactly as often as
\* the input has it, under its own table heading and priority, and within
\* a table section the priority lines are strictly descending: the
\* regrouping of lines 122-131, the flush on a table change with the
\* reset of rules_by_prio, and the sort and reverse of print_rules.
FlowsRegrouped ==
    pc = "done" =>
        LET printed == { i \in DOMAIN out : out[i].kind = "rule" }
        IN  /\ \A x \in { InputFlow(i) : i \in FlowIndices } \cup { PrintedFlow(i) : i \in printed } :
                  Cardinality({ i \in FlowIndices : InputFlow(i) = x })
                    = Cardinality({ i \in printed : PrintedFlow(i) = x })
            /\ \A i, j \in DOMAIN out :
                  /\ i < j /\ out[i].kind = "prio" /\ out[j].kind = "prio"
                  /\ LastItem("table", i) = LastItem("table", j)
                  => out[i].val > out[j].val

\* The tables of the flow lines with consecutive repeats removed.
TableRuns ==
    LET ts == [k \in 1..Cardinality(FlowIndices) |-> lines[SetToSortSeq(FlowIndices, <)[k]].table]
        starts == SetToSortSeq({ k \in DOMAIN ts : k = 1 \/ ts[k] # ts[k - 1] }, <)
    IN  [k \in DOMAIN starts |-> ts[starts[k]]]

\* When the dump is printed, one table heading is printed for every run
\* of consecutive flow lines of one table, in input order, the last run
\* included (the flush on a change of table and the one of line 133).
SectionsFollowInput ==
    pc = "done" =>
        LET hs == SelectSeq(out, LAMBDA o : o.kind = "table")
        IN  [k \in DOMAIN hs |-> hs[k].val] = TableRuns

\* The script's help (lines 8-22) promises a pretty print of whatever
\* dump-flows prints; the run never ends in an uncaught exception.
NoCrash == pc # "crashed"
=============================================================================
