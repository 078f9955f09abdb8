-------------------------- MODULE MC_ReadableFlows --------------------------
(***************************************************************************)
(* Dumps of up to MaxLines lines over two known tables, priorities absent, *)
(* explicit 32768 (equal to DEFAULT_PRIO) and 100, two rule texts, and a   *)
(* line that is not a flow (the reply header of ovs-ofctl).                *)
(***************************************************************************)
EXTENDS ReadableFlows

CONSTANTS r1, r2

FlowLines == [kind : {"flow"}, table : {0, 10}, prio : {NoPrio, 100, 32768}, rule : {r1, r2}]

OtherLine == [kind |-> "other", table |-> NoTable, prio |-> NoPrio, rule |-> NoRule]

MCLines == FlowLines \cup {OtherLine}
====
