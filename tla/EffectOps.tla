----------------------------- MODULE EffectOps -----------------------------
(***************************************************************************)
(* The vocabulary in which the catalogue of card effects is written.       *)
(*                                                                         *)
(* An effect handler of engine/effects is a script: the sequence of what   *)
(* it does to the board, in its order, with its branches, early returns    *)
(* and loops.  "own" is the player whose action is resolved and "foe" the  *)
(* other; as a reference each names the Pokemon in that Active Spot (None  *)
(* when it is empty), and t, u, v name the local variables that hold a     *)
(* Pokemon.  What the numbers decide (damage, coins, names, Energy costs,  *)
(* the choice a player returns) is left open.                              *)
(***************************************************************************)
EXTENDS Sequences

(* What a handler does to the game without regard to one Pokemon.            *)
Blow     == [op |-> "Blow"]      \* _do_default_damage: the attack as printed
Strike   == [op |-> "Strike"]    \* _apply_damage: the defender may retaliate
Piles    == [op |-> "Piles"]     \* draw, search, shuffle or discard cards
Note     == [op |-> "Note"]      \* set a flag of a player or of the game
Stadium  == [op |-> "Stadium"]   \* check_lively_stadium_removed
Quit     == [op |-> "Quit"]      \* return
Break    == [op |-> "Break"]
Continue == [op |-> "Continue"]
Raise    == [op |-> "Raise"]     \* a TypeError or NameError, whatever the state

(* What it does to the Pokemon x names.                                      *)
Upon(kind, x) == [op |-> kind, ref |-> x]
Splash(x)  == Upon("Splash", x)    \* _apply_bench_damage
Check(x)   == Upon("Check", x)     \* check_ko
Hurt(x)    == Upon("Hurt", x)      \* current_hp goes down
Graze(x)   == Upon("Graze", x)     \* current_hp goes down, never to zero
Heal(x)    == Upon("Heal", x)      \* current_hp goes up
Fell(x)    == Upon("Fell", x)      \* current_hp = 0
SetHp(x)   == Upon("SetHp", x)     \* current_hp becomes some number
Recount(x) == Upon("Recount", x)   \* the number of damage counters does
Attach(x)  == Upon("Attach", x)    \* an Energy or a Tool
Strip(x)   == Upon("Strip", x)     \* takes some of them away
Inflict(x) == Upon("Inflict", x)   \* adds or discards a status condition
Cure(x)    == Upon("Cure", x)      \* clears or replaces them
Mark(x)    == Upon("Mark", x)      \* assigns another field of the card
Use(x)     == Upon("Use", x)       \* only reads a field
Evolve(x)  == Upon("Evolve", x)    \* puts a card over it, HP counted afresh
Rise(x)    == Upon("Rise", x)      \* _evolve_in_play_from_deck
Fall(x)    == Upon("Fall", x)      \* _devolve_pokemon
Away(x)    == Upon("Away", x)      \* appends it to a hand, deck or discard pile

(* Moves between the Active Spot and the Bench of a side.                    *)
Lift(side)      == [op |-> "Lift", side |-> side]      \* active = None
Recruit(side)   == [op |-> "Recruit", side |-> side]   \* a card joins the Bench
Win(side)       == [op |-> "Win", side |-> side]       \* declared the winner
Prize(takers)   == [op |-> "Prize", takers |-> takers] \* each takes one, "own" first
Moved(kind, side, x) == [op |-> kind, side |-> side, ref |-> x]
Seat(side, x)   == Moved("Seat", side, x)     \* active = x
Join(side, x)   == Moved("Join", side, x)     \* bench.append(x)
Leave(side, x)  == Moved("Leave", side, x)    \* bench without x
Remove(side, x) == Moved("Remove", side, x)   \* bench.remove(x)
Swap(side, x)   == Moved("Swap", side, x)     \* _switch_active_with_bench

(* Local variables.  Find looks a Pokemon up in play again; Choose takes an  *)
(* element of a pool, or of a sublist of it that is known not to be empty;   *)
(* Maybe an element or None; Keep stores the list, KeepSome a sublist of it. *)
Clear(v)        == [op |-> "Clear", var |-> v]
Bind(v, x)      == [op |-> "Bind", var |-> v, ref |-> x]
Find(v)         == [op |-> "Find", var |-> v]
Choose(v, pool) == [op |-> "Choose", var |-> v, pool |-> pool]
Maybe(v, pool)  == [op |-> "Maybe", var |-> v, pool |-> pool]
Keep(v, pool)   == [op |-> "Keep", var |-> v, pool |-> pool]
KeepSome(v, pool) == [op |-> "KeepSome", var |-> v, pool |-> pool]

(* Literals.  Is(x): the reference or local x holds a Pokemon, the pool x is *)
(* not empty, or the game is over (x = "over"); Among(p): some Pokemon of p  *)
(* meets a test of the code; Some: a test of what the model does not track.  *)
Is(x) == <<"is", x>>
No(x) == <<"no", x>>
Among(pool) == <<"among", pool>>
NoneAmong(pool) == <<"none among", pool>>
Some  == Is("some")
Ended == Is("over")

(* Control.  A condition is a set of literals, which must hold together.     *)
If(c, A, B)   == [op |-> "If", cond |-> c, then |-> A, else |-> B]
When(c, A)    == If(c, A, <<>>)
Unless(c, B)  == If(c, <<>>, B)
Either(A, B)  == If({Some}, A, B)
Perhaps(A)    == When({Some}, A)
OnlyIf(c)     == Unless(c, <<Quit>>)
StopIf(lit)   == When({lit}, <<Quit>>)
IfSame(v, role, A, B) == [op |-> "IfSame", var |-> v, ref |-> role, then |-> A, else |-> B]
While(c, A)   == [op |-> "While", cond |-> c, body |-> A]
Repeat(A)     == While({Some}, A)
Each(v, pool, A) == [op |-> "Each", var |-> v, pool |-> pool, body |-> A]
Do(A)         == [op |-> "Do", body |-> A]    \* another handler, called and returned from
=============================================================================
