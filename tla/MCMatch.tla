------------------------------ MODULE MCMatch ------------------------------
(***************************************************************************)
(* Small decks for TLC.  The two players have decks of the same make-up,   *)
(* in which a2 and b2 are worth two prizes.  The Energy cards of a deck    *)
(* are interchangeable, and so are its other Pokemon.                      *)
(***************************************************************************)
EXTENDS Match, TLC

CONSTANTS A, B, a2, b2, EA, EB   \* a player's other Pokemon, and Energy cards

MCPokemon == A \cup {a2} \cup B \cup {b2}
MCEnergy == EA \cup EB
MCDecks == [p \in Players |-> IF p = "p1" THEN A \cup {a2} \cup EA ELSE B \cup {b2} \cup EB]
MCHP == [m \in MCPokemon |-> 2]
MCPrizeValue == [m \in MCPokemon |-> IF m \in {a2, b2} THEN 2 ELSE 1]

Venom == [cost |-> 0, damage |-> 1, recoil |-> 0, inflicts |-> {"poisoned", "burned"}]
TakeDown == [cost |-> 1, damage |-> 2, recoil |-> 2, inflicts |-> {}]
Bind == [cost |-> 0, damage |-> 0, recoil |-> 0, inflicts |-> {"paralyzed"}]
Lullaby == [cost |-> 0, damage |-> 0, recoil |-> 0, inflicts |-> {"asleep", "toxic"}]
Dazzle == [cost |-> 0, damage |-> 0, recoil |-> 0, inflicts |-> {"confused"}]

MCMoves == {Dazzle, Venom, TakeDown, Bind, Lullaby}
Alike == UNION {Permutations(S) : S \in {A, B, EA, EB}}
=============================================================================
