-------------------------------- MODULE PpLog --------------------------------
(***************************************************************************)
(* pplog.py: the filter that re-indents the message field of OpenDaylight *)
(* log lines (lines 11-69).  A line without '|' is dropped; any other is  *)
(* split into six fields; the characters of the message then drive a      *)
(* small state machine that breaks lines after commas and around          *)
(* brackets, indents two spaces per open bracket, and after a closing     *)
(* bracket names, in a /* */ comment, the text that came before the       *)
(* matching opening one when that is more than five output lines back.    *)
(*                                                                         *)
(* A character is one of five classes: Sp (' ' or tab), Op ('[{<'), Cl    *)
(* (']}>'), Cm (',') and Ch (anything else, the line's '\n' included).    *)
(* The text of a title is abstracted to whether it is empty; an entry of  *)
(* title_stack records the opening bracket its title came before, by the  *)
(* number of that character in the input.  Output is a sequence of        *)
(* tokens: "start" (a new log line), "c" (a character echoed), "nl" (the  *)
(* newline and indent of nl()) and "note" (the comment of line 56).       *)
(* The variable nest is not in the program: it is the stack of opening    *)
(* brackets really open, used only to state properties.                    *)
(***************************************************************************)
EXTENDS Naturals, Sequences

CONSTANTS
    Sp, Op, Cl, Cm, Ch,  \* the classes of a message character
    MaxChars,            \* message characters read in a run, at most
    MaxLogLines          \* input lines read in a run, at most

Chars == {Sp, Op, Cl, Cm, Ch}

VARIABLES
    pc,             \* "idle" between input lines, "line" in a message, "crashed"
    lines,          \* input lines read
    chars,          \* message characters read (the id of the last one)
    line_num,       \* line_num: newlines written by nl(), never reset
    depth,          \* len(i) / 2
    in_ws,          \* in_ws
    is_empty_list,  \* is_empty_list
    last_char,      \* last_char: a class, or "none" for ''
    title,          \* title # ''
    title_stack,    \* title_stack: [op, ln] entries
    nest,           \* ids of the opening brackets open in this line
    out             \* what has been written

vars == <<pc, lines, chars, line_num, depth, in_ws, is_empty_list, last_char,
          title, title_stack, nest, out>>

NL(d) == [k |-> "nl", d |-> d]
Echo(c) == [k |-> "c", c |-> c]

Init ==
    /\ pc = "idle" /\ lines = 0 /\ chars = 0
    /\ line_num = 0
    /\ depth = 0 /\ in_ws = TRUE /\ is_empty_list = FALSE
    /\ last_char = "none" /\ title = FALSE
    /\ title_stack = <<>> /\ nest = <<>>
    /\ out = <<>>

\* Line 18: a line without '|' is skipped.
SkipLine ==
    /\ pc = "idle" /\ lines < MaxLogLines
    /\ lines' = lines + 1
    /\ UNCHANGED <<pc, chars, line_num, depth, in_ws, is_empty_list, last_char,
                   title, title_stack, nest, out>>

\* Line 20: a line with one to four '|' does not unpack into six fields;
\* the ValueError ends the script.
ShortLine ==
    /\ pc = "idle" /\ lines < MaxLogLines
    /\ lines' = lines + 1
    /\ pc' = "crashed"
    /\ UNCHANGED <<chars, line_num, depth, in_ws, is_empty_list, last_char,
                   title, title_stack, nest, out>>

\* Lines 20-31: a log line; the per-line state is reset, line_num is not.
StartLine ==
    /\ pc = "idle" /\ lines < MaxLogLines
    /\ lines' = lines + 1
    /\ pc' = "line"
    /\ depth' = 0 /\ in_ws' = TRUE /\ is_empty_list' = FALSE
    /\ last_char' = "none" /\ title' = FALSE
    /\ title_stack' = <<>> /\ nest' = <<>>
    /\ out' = Append(out, [k |-> "start"])
    /\ UNCHANGED <<chars, line_num>>

\* A closing bracket that indents its own line before dedenting.
DedentLate(c) == depth

\* Line 38: a closing bracket drops one indent step before anything is
\* written; slicing '' leaves ''.
Dedent(c) == IF c = Cl /\ depth > 0 THEN depth - 1 ELSE depth

\* A comma that does not skip the blanks after it.
WsAfterNoComma(c) == c \in {Op, Cl}

\* Lines 40, 60, 68: whitespace after a bracket or a comma is skipped.
WsAfter(c) == c \in {Op, Cl, Cm}

\* last_char in closer: the '' of line 29 is in every string, so a
\* message starts as if after a closing bracket.
InCloser(lc) == lc \in {Cl, "none"}

\* One pass of the loop of lines 33-69 over character c of the message.
ReadChar ==
    /\ pc = "line" /\ chars < MaxChars
    /\ chars' = chars + 1
    /\ \E c \in Chars :
       IF in_ws /\ c = Sp
       THEN UNCHANGED <<pc, lines, line_num, depth, in_ws, is_empty_list,
                        last_char, title, title_stack, nest, out>>
       ELSE
       LET d == Dedent(c)
           \* lines 39 and 45, then line 47
           nlA == IF c = Cl THEN ~is_empty_list /\ ~InCloser(last_char)
                  ELSE is_empty_list
           nlB == InCloser(last_char) /\ c # Cm
           pre == (IF nlA THEN <<NL(d)>> ELSE <<>>) \o (IF nlB THEN <<NL(d)>> ELSE <<>>)
           ln == line_num + Len(pre)
           \* lines 53-56
           popped == c = Cl /\ title_stack # <<>>
           top == title_stack[Len(title_stack)]
           note == IF popped /\ ln - top.ln > 5
                   THEN <<[k |-> "note", of |-> top.op,
                           closes |-> IF nest # <<>> THEN nest[Len(nest)] ELSE 0]>>
                   ELSE <<>>
           \* lines 66-67
           post == IF c = Cm THEN <<NL(d)>> ELSE <<>>
       IN  /\ out' = out \o pre \o <<Echo(c)>> \o note \o post
           /\ line_num' = ln + Len(post)
           /\ depth' = IF c = Op THEN d + 1 ELSE d
           /\ in_ws' = WsAfter(c)
           /\ is_empty_list' = (c = Op)
           /\ last_char' = c
           \* lines 42, 50, 64, 69
           /\ title' = (c \notin {Op, Cm})
           /\ title_stack' =
                IF popped THEN SubSeq(title_stack, 1, Len(title_stack) - 1)
                ELSE IF c = Op /\ title THEN Append(title_stack, [op |-> chars + 1, ln |-> ln])
                ELSE title_stack
           /\ nest' =
                IF c = Op THEN Append(nest, chars + 1)
                ELSE IF c = Cl /\ nest # <<>> THEN SubSeq(nest, 1, Len(nest) - 1)
                ELSE nest
           /\ UNCHANGED <<pc, lines>>

\* The message ends (its '\n' was its last character).
EndLine ==
    /\ pc = "line"
    /\ pc' = "idle"
    /\ UNCHANGED <<lines, chars, line_num, depth, in_ws, is_empty_list,
                   last_char, title, title_stack, nest, out>>

Next == SkipLine \/ ShortLine \/ StartLine \/ ReadChar \/ EndLine

Spec == Init /\ [][Next]_vars

-----------------------------------------------------------------------------
(* Properties.                                                            *)

\* The brackets left open after the first n tokens of out, counted as the
\* script counts them: per log line, a closer on none open counting none.
RECURSIVE Balance(_)
Balance(n) ==
    IF n = 0 THEN 0
    ELSE LET b == Balance(n - 1) IN
         CASE out[n].k = "start"                    -> 0
           [] out[n].k = "c" /\ out[n].c = Op       -> b + 1
           [] out[n].k = "c" /\ out[n].c = Cl /\ b > 0 -> b - 1
           [] OTHER                                 -> b

\* Every newline is indented two spaces per bracket printed before it and
\* not yet closed, and a line that starts with a closing bracket is
\* indented like the line of its opening one: the dedent of line 38
\* comes before the nl() calls of lines 39 and 47, and the indent of
\* line 59 after the nl() of line 45.
IndentFollowsNesting ==
    \A n \in DOMAIN out :
        out[n].k = "nl" =>
            out[n].d = IF n < Len(out) /\ out[n + 1] = Echo(Cl) /\ Balance(n) > 0
                       THEN Balance(n) - 1
                       ELSE Balance(n)

\* No printed line starts with a blank after its indent: every nl() is
\* followed by a character other than ' ' or a tab (the in_ws flag the
\* script sets after brackets and commas, lines 34, 40, 60, 68).
NoLeadingBlanks ==
    \A n \in DOMAIN out :
        out[n].k = "nl" /\ n < Len(out) => out[n + 1] # Echo(Sp)

\* The comment printed after a closing bracket names the title written
\* before the opening bracket that bracket closes (line 56, with the
\* title_stack pushes of lines 62-63).
NoteNamesItsBracket ==
    \A n \in DOMAIN out : out[n].k = "note" => out[n].of = out[n].closes
=============================================================================
