--------------------------- MODULE AliasAllocator ---------------------------
(***************************************************************************)
(* The alias allocator of showOvsdbMdsal.py: State.getNextAlias (lines    *)
(* 48-60) with the cursor and wrap counter of State.__init__ (lines       *)
(* 26-28).  Every BridgeNode constructed calls it once (line 89).         *)
(*                                                                         *)
(* An alias is the string CONST_ALIASES[i] + ("_" + str(wrap) when wrap   *)
(* is positive); it is represented by the sequence of its pieces, <<w>>   *)
(* or <<w, "_", wrap>>, which is what the concatenation builds.           *)
(***************************************************************************)
EXTENDS Naturals, Sequences, TLC

CONSTANTS
    Aliases,    \* CONST_ALIASES (line 19): the alias words, in order
    NodeIds     \* node ids the callers ask aliases for

ASSUME Aliases \in Seq(STRING) /\ Len(Aliases) > 0

VARIABLES
    nextAliasIndex,   \* State.nextAliasIndex: 0-based cursor into Aliases
    nextAliasWrap,    \* State.nextAliasWrap: times the words ran out
    nodeIdToAlias     \* State.nodeIdToAlias: node id -> alias

allocVars == <<nextAliasIndex, nextAliasWrap, nodeIdToAlias>>

\* The value getNextAlias returns in the current state (lines 49-51).
NextAlias ==
    LET word == Aliases[nextAliasIndex + 1]
    IN  IF nextAliasWrap > 0 THEN <<word, "_", nextAliasWrap>> ELSE <<word>>

AllocInit ==
    /\ nextAliasIndex = 0
    /\ nextAliasWrap = 0
    /\ nodeIdToAlias = <<>>

\* A cursor that returns to the first word without counting the wrap.
AdvanceCursorNoWrapCount ==
    IF Aliases[nextAliasIndex + 1] = Aliases[Len(Aliases)]
    THEN /\ nextAliasIndex' = 0
         /\ UNCHANGED nextAliasWrap
    ELSE /\ nextAliasIndex' = nextAliasIndex + 1
         /\ UNCHANGED nextAliasWrap

\* A cursor whose end test is one word late (index against the length).
AdvanceCursorLate ==
    IF nextAliasIndex = Len(Aliases)
    THEN /\ nextAliasIndex' = 0
         /\ nextAliasWrap' = nextAliasWrap + 1
    ELSE /\ nextAliasIndex' = nextAliasIndex + 1
         /\ UNCHANGED nextAliasWrap

\* Lines 53-57: the cursor wraps when the word under it equals the last
\* word; the comparison is on words, not on the index.
AdvanceCursor ==
    IF Aliases[nextAliasIndex + 1] = Aliases[Len(Aliases)]
    THEN /\ nextAliasIndex' = 0
         /\ nextAliasWrap' = nextAliasWrap + 1
    ELSE /\ nextAliasIndex' = nextAliasIndex + 1
         /\ UNCHANGED nextAliasWrap

\* State.getNextAlias(nodeId): hand out NextAlias, move the cursor and
\* record the alias (line 59, a dict store that overwrites).
GetNextAlias(nodeId) ==
    /\ AdvanceCursor
    /\ nodeIdToAlias' = (nodeId :> NextAlias) @@ nodeIdToAlias

AllocTypeOK ==
    /\ nextAliasIndex \in 0..(Len(Aliases) - 1)
    /\ nextAliasWrap \in Nat
    /\ DOMAIN nodeIdToAlias \subseteq NodeIds
=============================================================================
