------------------------------ MODULE DpidCodec ------------------------------
(***************************************************************************)
(* dataPathIdToOfFormat of showOvsdbMdsal.py (lines 619-620):             *)
(*     'openflow:' + str(int('0x' + dpId.replace(':', ''), 16))           *)
(* A datapath id string is a sequence of symbols: the hex digits, given   *)
(* by their values 0..15, and Colon.  Python's int(s, 16) reads the       *)
(* digits most significant first and raises ValueError on any other      *)
(* symbol or on no digit at all; an "openflow:<decimal>" id is the record *)
(* [scheme |-> "openflow", num |-> n].                                    *)
(***************************************************************************)
EXTENDS Naturals, Sequences

CONSTANT Colon    \* the ':' separator, a model value

HexDigit == 0..15

\* int(s) without the base: the digits read as decimal places.
RECURSIVE HexValueDecimal(_, _)
HexValueDecimal(s, acc) ==
    IF s = <<>> THEN acc ELSE HexValueDecimal(Tail(s), acc * 10 + Head(s))

\* dpId.replace(':', '')
StripColons(d) == SelectSeq(d, LAMBDA c : c # Colon)

\* int('0x' + s, 16) succeeds exactly when s is a non-empty run of digits.
ParsesAsHex(s) == Len(s) > 0 /\ \A i \in 1..Len(s) : s[i] \in HexDigit

\* int(s, 16): the digits read left to right, each one shifting the value
\* accumulated so far by one hex place.
RECURSIVE HexValue(_, _)
HexValue(s, acc) ==
    IF s = <<>> THEN acc ELSE HexValue(Tail(s), acc * 16 + Head(s))

\* dataPathIdToOfFormat(dpId) may be evaluated only when it parses: the
\* code has no handler, so a malformed id ends the run (ValueError).
OfFormatDefined(d) == ParsesAsHex(StripColons(d))

OfFormat(d) == [scheme |-> "openflow", num |-> HexValue(StripColons(d), 0)]

(***************************************************************************)
(* addSwitch of infrastructure_launch.py (lines 22-31) writes the dpid of *)
(* a bridge as other-config:datapath-id, left-padded with zeros to 16     *)
(* digits; a longer one ends the script (exit 3).                          *)
(***************************************************************************)
Filler == [i \in 1..16 |-> 0]

\* A padding one digit short of the filler's length.
PadDpidShort(d) == IF Len(d) < 16 THEN SubSeq(Filler, 1, 15 - Len(d)) \o d ELSE d

\* filler[:len(filler)-len(dpid)] + dpid when shorter than 16 (25-27).
PadDpid(d) == IF Len(d) < 16 THEN SubSeq(Filler, 1, 16 - Len(d)) \o d ELSE d

\* The dpid is set only when given and not longer than 16 (24, 28-30).
PadDefined(d) == Len(d) > 0 /\ Len(d) <= 16
=============================================================================
