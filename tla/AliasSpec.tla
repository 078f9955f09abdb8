------------------------------ MODULE AliasSpec ------------------------------
(***************************************************************************)
(* What the alias allocator promises (spec.md 4.2 and 8): the n-th        *)
(* allocation, counting from 0, returns word n mod L of the alphabet,     *)
(* suffixed with "_" and n div L once the alphabet has been used up; each *)
(* node id is given one alias.                                            *)
(***************************************************************************)
EXTENDS Naturals, Sequences, TLC

CONSTANTS Aliases, NodeIds

VARIABLES allocated, aliasOf

NthAlias(n) ==
    LET word == Aliases[(n % Len(Aliases)) + 1]
        wrap == n \div Len(Aliases)
    IN  IF wrap > 0 THEN <<word, "_", wrap>> ELSE <<word>>

Init ==
    /\ allocated = 0
    /\ aliasOf = <<>>

Allocate(id) ==
    /\ id \notin DOMAIN aliasOf
    /\ aliasOf' = (id :> NthAlias(allocated)) @@ aliasOf
    /\ allocated' = allocated + 1

Next == \E id \in NodeIds : Allocate(id)

Spec == Init /\ [][Next]_<<allocated, aliasOf>>
=============================================================================
