------------------------- MODULE MCPackPublication -------------------------
(***************************************************************************)
(* The instance of PackPublication.  Two desired states meet any two       *)
(* setbacks, three desired states any one: a setback is an operator        *)
(* command, work claimed again, a refused request or an answer that is     *)
(* asked for after the replay window.                                      *)
(***************************************************************************)
EXTENDS PackPublication, TLC

CONSTANT MaxSetbacks \* bound: setbacks that two desired states meet

\* Titles are only compared.
TitleSymmetry == Permutations(Titles)

ClaimedAgain(work) == {s \in Sequence : work[s].state # "none" /\ work[s].attempts > 1}

Setbacks ==
    LET operations == {<<s, i>> \in Sequence \X (1 .. MaxOperations) : i \in DOMAIN ops[s]}
    IN operator + Cardinality(ClaimedAgain(builds)) + Cardinality(ClaimedAgain(intents))
       + Cardinality({o \in operations : ledger[o[1]][o[2]] = "refused"})
       + Cardinality({o \in operations : ops[o[1]][o[2]].receipt = "operation_expired"})

Within == Setbacks <= IF mirror.latest > 2 THEN MaxSetbacks - 1 ELSE MaxSetbacks

MCSpec == PackInit /\ [][PackNext /\ Within']_vars
=============================================================================
