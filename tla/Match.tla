------------------------------- MODULE Match -------------------------------
(***************************************************************************)
(* One game between two players, as engine/runner.py orchestrates it and   *)
(* engine/transitions.py and engine/effects/base.py carry it out: setup    *)
(* with mulligans, the turn loop (draw, main phase, attack, promotion,     *)
(* Pokemon Checkup, end of turn), knock-outs with their prizes, and the    *)
(* four ways a game ends.                                                  *)
(*                                                                         *)
(* A card is an element of a set.  A shuffled pile whose order nobody      *)
(* knows is a set from which any card may come next.  A discard pile is a  *)
(* bag, because the code appends to a list without looking.  Hit points    *)
(* and damage are counted in damage counters (10 HP each).  What one       *)
(* attack of the effects registry does is a record of Moves.               *)
(***************************************************************************)
EXTENDS Integers, FiniteSets, Sequences, FiniteSetsExt

CONSTANTS
    Pokemon, Energy,   \* the cards: Basic Pokemon and Energy cards
    Decks,             \* the cards each player starts with
    NoCard,            \* an empty Active Spot
    HP,                \* hit points of a Pokemon, in counters
    PrizeValue,        \* prizes its knock-out is worth
    Moves,             \* attacks: [cost, damage, recoil, inflicts]
    RetreatCost,       \* Energy a retreat costs
    HandSize,          \* 7 in the code: the opening hand
    PrizeCount,        \* 6
    MaxBench,          \* 5
    MaxRedraws,        \* 10 rounds of mulligans
    MaxActions,        \* 200 actions in a main phase
    MaxTurns           \* 200 turns, unless the caller says otherwise

Players == {"p1", "p2"}
Opponent(p) == IF p = "p1" THEN "p2" ELSE "p1"
Cards == Pokemon \cup Energy
Conditions == {"poisoned", "toxic", "burned", "asleep", "confused", "paralyzed"}

ASSUME CardsAssumption ==
    /\ IsFiniteSet(Cards) /\ Pokemon \cap Energy = {} /\ NoCard \notin Cards
    /\ Decks \in [Players -> SUBSET Cards] /\ Decks["p1"] \cap Decks["p2"] = {}
    /\ HP \in [Pokemon -> Nat \ {0}] /\ PrizeValue \in [Pokemon -> Nat]

ASSUME RulesAssumption ==
    /\ Moves \subseteq [cost : Nat, damage : Nat, recoil : Nat, inflicts : SUBSET Conditions]
    /\ {RetreatCost, MaxRedraws} \subseteq Nat
    /\ {HandSize, PrizeCount, MaxBench, MaxActions, MaxTurns} \subseteq Nat \ {0}
    /\ \A p \in Players : Cardinality(Decks[p]) >= HandSize + MaxRedraws + PrizeCount

VARIABLES
    stage,        \* where the runner is
    deck, hand, active, bench, prizes,   \* each player's zones
    discard,      \* how many times a card was put into its owner's discard pile
    prizesLeft,   \* prizes_remaining, kept beside the prize list
    hp, attached, status,                \* of a Pokemon: current_hp, energy_attached, status_conditions
    current, first, turn,                \* active_player, first_player, turn_number
    acts,         \* actions_taken in this main phase
    energyUsed, retreatUsed,             \* once-per-turn flags
    owed,         \* players whose hand is still to be redrawn in this mulligan round
    redraws,      \* mulligan rounds so far
    move,         \* the attack being resolved
    checks, subject,                     \* what is left of the Checkup, and the Pokemon it examines
    winner, how   \* winner, win_condition

zones == <<deck, hand, active, bench, prizes, discard>>
board == <<zones, prizesLeft, hp, attached, status>>
clock == <<current, first, turn>>
limits == <<acts, energyUsed, retreatUsed>>
mulligan == <<owed, redraws>>
checkup == <<checks, subject>>
result == <<winner, how>>
vars == <<stage, board, clock, limits, mulligan, move, checkup, result>>

NoMove == [cost |-> 0, damage |-> 0, recoil |-> 0, inflicts |-> {}]
Stages == {"mulligan", "place1", "place2", "prizes", "draw", "main", "attack", "recoil",
           "afflict", "promote", "checkup", "endturn", "over"}

InPlay(p) == bench[p] \cup ({active[p]} \ {NoCard})
Basics(p) == hand[p] \cap Pokemon
Smaller(a, b) == IF a < b THEN a ELSE b

(* A card without a prize value or a retreat cost of its own is worth one prize and    *)
(* retreats for nothing: an Energy card that had to stand in the Active Spot.          *)
Worth(c) == IF c \in Pokemon THEN PrizeValue[c] ELSE 1
RetreatOf(c) == IF c \in Pokemon THEN RetreatCost ELSE 0

(* Every way of taking the next n cards of a shuffled pile, or all of a shorter one. *)
Top(n, pile) == kSubset(Smaller(n, Cardinality(pile)), pile)

(***************************************************************************)
(* Setup                                                                   *)
(***************************************************************************)
Init ==
    /\ \E h1 \in Top(HandSize, Decks["p1"]), h2 \in Top(HandSize, Decks["p2"]) :
         /\ hand = [p \in Players |-> IF p = "p1" THEN h1 ELSE h2]
         /\ deck = [p \in Players |-> Decks[p] \ hand[p]]
    /\ \E p \in Players : first = p /\ current = p
    /\ stage = "mulligan" /\ owed = {} /\ redraws = 0
    /\ active = [p \in Players |-> NoCard]
    /\ bench = [p \in Players |-> {}] /\ prizes = [p \in Players |-> {}]
    /\ discard = [c \in Cards |-> 0]
    /\ prizesLeft = [p \in Players |-> PrizeCount]
    /\ hp = [c \in Cards |-> IF c \in Pokemon THEN HP[c] ELSE 0]
    /\ attached = [c \in Cards |-> {}] /\ status = [c \in Cards |-> {}]
    /\ turn = 0 /\ acts = 0
    /\ energyUsed = [p \in Players |-> FALSE] /\ retreatUsed = [p \in Players |-> FALSE]
    /\ move = NoMove /\ checks = << >> /\ subject = [p \in Players |-> NoCard]
    /\ winner = "none" /\ how = "none"

\* A faulty variant: without the cap on mulligan rounds.
CheckHandsUncapped ==
    LET needed == {p \in Players : Basics(p) = {}}
    IN  /\ stage = "mulligan" /\ owed = {}
        /\ IF needed = {}
           THEN stage' = "place1" /\ UNCHANGED mulligan
           ELSE owed' = needed /\ UNCHANGED <<stage, redraws>>
        /\ UNCHANGED <<board, clock, limits, move, checkup, result>>

(* The head of the mulligan loop: who has no Basic Pokemon, at most MaxRedraws times. *)
CheckHands ==
    LET needed == {p \in Players : Basics(p) = {}}
    IN  /\ stage = "mulligan" /\ owed = {}
        /\ IF needed = {} \/ redraws = MaxRedraws
           THEN stage' = "place1" /\ UNCHANGED mulligan
           ELSE owed' = needed /\ redraws' = redraws + 1 /\ UNCHANGED stage
        /\ UNCHANGED <<board, clock, limits, move, checkup, result>>

(* MULLIGAN_REDRAW: hand back and shuffle, a bonus card for the opponent, a new hand.  *)
Redraw(p) ==
    LET q == Opponent(p)
        pool == deck[p] \cup hand[p]
    IN  /\ stage = "mulligan" /\ p \in owed /\ (p = "p1" \/ "p1" \notin owed)
        /\ \E bonus \in Top(1, deck[q]), new \in Top(HandSize, pool) :
             /\ hand' = [hand EXCEPT ![p] = new, ![q] = @ \cup bonus]
             /\ deck' = [deck EXCEPT ![p] = pool \ new, ![q] = @ \ bonus]
        /\ owed' = owed \ {p}
        /\ UNCHANGED <<stage, active, bench, prizes, discard, prizesLeft, hp, attached, status,
                       clock, limits, redraws, move, checkup, result>>

(* choose_setup with PLACE_ACTIVE and PLACE_BENCH: any Basic and a Bench of up to      *)
(* MaxBench - 1 others; without a Basic, the fallback is a card of the hand.           *)
Place(p) ==
    /\ stage = (IF p = "p1" THEN "place1" ELSE "place2")
    /\ \E a \in (IF Basics(p) # {} THEN Basics(p) ELSE hand[p]) :
       \E others \in SUBSET (Basics(p) \ {a}) :
         /\ Cardinality(others) <= MaxBench - 1
         /\ active' = [active EXCEPT ![p] = a]
         /\ bench' = [bench EXCEPT ![p] = others]
         /\ hand' = [hand EXCEPT ![p] = @ \ ({a} \cup others)]
    /\ stage' = IF p = "p1" THEN "place2" ELSE "prizes"
    /\ UNCHANGED <<deck, prizes, discard, prizesLeft, hp, attached, status,
                   clock, limits, mulligan, move, checkup, result>>

SetPrizes ==
    /\ stage = "prizes"
    /\ \E z1 \in Top(PrizeCount, deck["p1"]), z2 \in Top(PrizeCount, deck["p2"]) :
         /\ prizes' = [p \in Players |-> IF p = "p1" THEN z1 ELSE z2]
         /\ deck' = [p \in Players |-> deck[p] \ prizes'[p]]
         /\ prizesLeft' = [p \in Players |-> Cardinality(prizes'[p])]
    /\ turn' = 1 /\ stage' = "draw"
    /\ UNCHANGED <<hand, active, bench, discard, hp, attached, status, current, first,
                   limits, mulligan, move, checkup, result>>

(***************************************************************************)
(* The head of the game loop and the draw                                  *)
(***************************************************************************)
Win(p, condition) == winner' = p /\ how' = condition

TurnLimit ==
    /\ stage = "draw" /\ turn >= MaxTurns
    /\ Win("p1", "turn_limit") /\ stage' = "over"
    /\ UNCHANGED <<board, clock, limits, mulligan, move, checkup>>

DeckOut ==
    /\ stage = "draw" /\ turn < MaxTurns /\ deck[current] = {}
    /\ Win(Opponent(current), "deck_out") /\ stage' = "over"
    /\ UNCHANGED <<board, clock, limits, mulligan, move, checkup>>

Draw ==
    /\ stage = "draw" /\ turn < MaxTurns
    /\ \E c \in deck[current] :
         /\ deck' = [deck EXCEPT ![current] = @ \ {c}]
         /\ hand' = [hand EXCEPT ![current] = @ \cup {c}]
    /\ acts' = 0 /\ stage' = "main"
    /\ UNCHANGED <<active, bench, prizes, discard, prizesLeft, hp, attached, status, clock,
                   energyUsed, retreatUsed, mulligan, move, checkup, result>>

(***************************************************************************)
(* The main phase: at most MaxActions actions, legal or not                *)
(***************************************************************************)
MainAction == stage = "main" /\ acts < MaxActions /\ acts' = acts + 1

\* A faulty variant: without the test of the bench limit.
PlayBasicUnbounded ==
    /\ MainAction
    /\ \E m \in Basics(current) :
         /\ hand' = [hand EXCEPT ![current] = @ \ {m}]
         /\ bench' = [bench EXCEPT ![current] = @ \cup {m}]
    /\ UNCHANGED <<stage, deck, active, prizes, discard, prizesLeft, hp, attached, status,
                   clock, energyUsed, retreatUsed, mulligan, move, checkup, result>>

PlayBasic ==
    /\ MainAction /\ Cardinality(bench[current]) < MaxBench
    /\ \E m \in Basics(current) :
         /\ hand' = [hand EXCEPT ![current] = @ \ {m}]
         /\ bench' = [bench EXCEPT ![current] = @ \cup {m}]
    /\ UNCHANGED <<stage, deck, active, prizes, discard, prizesLeft, hp, attached, status,
                   clock, energyUsed, retreatUsed, mulligan, move, checkup, result>>

(* The card leaves the hand for no other list: only its attachment is kept.            *)
AttachEnergy ==
    /\ MainAction /\ ~energyUsed[current]
    /\ \E e \in hand[current] \cap Energy, m \in InPlay(current) :
         /\ hand' = [hand EXCEPT ![current] = @ \ {e}]
         /\ attached' = [attached EXCEPT ![m] = @ \cup {e}]
    /\ energyUsed' = [energyUsed EXCEPT ![current] = TRUE]
    /\ UNCHANGED <<stage, deck, active, bench, prizes, discard, prizesLeft, hp, status,
                   clock, retreatUsed, mulligan, move, checkup, result>>

(* Discarding the cards of attachments: those found in the lists searched go (also) to *)
(* the discard pile, unless they are there already.                                    *)
Discarded(cards, searched) ==
    [c \in Cards |-> IF c \in cards \cap searched /\ discard[c] = 0 THEN 1 ELSE discard[c]]

(* The retreating Pokemon keeps its status conditions.                                 *)
Retreat ==
    /\ MainAction /\ ~retreatUsed[current]
    /\ active[current] # NoCard /\ "paralyzed" \notin status[active[current]]
    /\ \E new \in bench[current],
          paid \in kSubset(RetreatOf(active[current]), attached[active[current]]) :
         /\ attached' = [attached EXCEPT ![active[current]] = @ \ paid]
         /\ discard' = Discarded(paid, hand[current])
         /\ active' = [active EXCEPT ![current] = new]
         /\ bench' = [bench EXCEPT ![current] = (@ \ {new}) \cup {active[current]}]
    /\ retreatUsed' = [retreatUsed EXCEPT ![current] = TRUE]
    /\ UNCHANGED <<stage, deck, hand, prizes, prizesLeft, hp, status,
                   clock, energyUsed, mulligan, move, checkup, result>>

(* An action the validator refuses only counts.                                        *)
Refuse ==
    /\ MainAction
    /\ UNCHANGED <<stage, board, clock, energyUsed, retreatUsed, mulligan, move, checkup, result>>

Pass ==
    /\ stage = "main" /\ acts < MaxActions
    /\ stage' = "attack"
    /\ UNCHANGED <<board, clock, limits, mulligan, move, checkup, result>>

(* END_TURN in the main phase returns from _run_turn through _end_turn at once.        *)
EndTurnEarly ==
    /\ stage = "main" /\ acts < MaxActions
    /\ stage' = "endturn"
    /\ UNCHANGED <<board, clock, limits, mulligan, move, checkup, result>>

(* _handle_between_turns, player by player, condition by condition.                    *)
AllChecks == <<<<"p1", "poison">>, <<"p1", "burn">>, <<"p1", "sleep">>, <<"p1", "paralysis">>,
               <<"p2", "poison">>, <<"p2", "burn">>, <<"p2", "sleep">>, <<"p2", "paralysis">>>>

StartCheckup ==
    /\ stage' = "checkup"
    /\ checks' = AllChecks
    /\ subject' = active

(* The safety valve: after MaxActions the phase is still MAIN, and no attack follows.  *)
Valve ==
    /\ stage = "main" /\ acts = MaxActions
    /\ StartCheckup
    /\ UNCHANGED <<board, clock, limits, mulligan, move, result>>

(***************************************************************************)
(* Knock-outs (check_ko)                                                   *)
(***************************************************************************)

\* A faulty variant: looking at the wrong bench.
VerdictOnBench(p) ==
    LET q == Opponent(p)
    IN  IF prizesLeft'[q] = 0 THEN Win(q, "prizes")
        ELSE IF bench'[q] = {} THEN Win(q, "no_bench")
        ELSE UNCHANGED result

(* The prizes are gone, or nobody is left to stand in the Active Spot.                 *)
Verdict(p) ==
    LET q == Opponent(p)
    IN  IF prizesLeft'[q] = 0 THEN Win(q, "prizes")
        ELSE IF active'[p] = NoCard /\ bench'[p] = {} THEN Win(q, "no_bench")
        ELSE UNCHANGED result

\* A faulty variant: one prize, whatever the Pokemon is worth.
KnockOutForOne(p, m) ==
    LET q == Opponent(p)
    IN  /\ discard' = [Discarded(attached[m], deck[p] \cup hand[p]) EXCEPT ![m] = @ + 1]
        /\ attached' = [attached EXCEPT ![m] = {}]
        /\ IF active[p] = m
           THEN active' = [active EXCEPT ![p] = NoCard] /\ UNCHANGED bench
           ELSE bench' = [bench EXCEPT ![p] = @ \ {m}] /\ UNCHANGED active
        /\ \E taken \in Top(1, prizes[q]) :
             /\ prizes' = [prizes EXCEPT ![q] = @ \ taken]
             /\ hand' = [hand EXCEPT ![q] = @ \cup taken]
             /\ prizesLeft' = [prizesLeft EXCEPT ![q] = @ - Cardinality(taken)]
        /\ Verdict(p)
        /\ UNCHANGED deck

(* m of p is knocked out: it goes to the discard pile and its attachments are          *)
(* dropped, it leaves play, and the opponent takes prizes.                             *)
KnockOut(p, m) ==
    LET q == Opponent(p)
    IN  /\ discard' = [Discarded(attached[m], deck[p] \cup hand[p]) EXCEPT ![m] = @ + 1]
        /\ attached' = [attached EXCEPT ![m] = {}]
        /\ IF active[p] = m
           THEN active' = [active EXCEPT ![p] = NoCard] /\ UNCHANGED bench
           ELSE bench' = [bench EXCEPT ![p] = @ \ {m}] /\ UNCHANGED active
        /\ \E taken \in Top(Worth(m), prizes[q]) :
             /\ prizes' = [prizes EXCEPT ![q] = @ \ taken]
             /\ hand' = [hand EXCEPT ![q] = @ \cup taken]
             /\ prizesLeft' = [prizesLeft EXCEPT ![q] = @ - Cardinality(taken)]
        /\ Verdict(p)
        /\ UNCHANGED deck

\* A faulty variant: alive with no hit points left.
DamageSpareAtZero(p, m, n) ==
    /\ hp' = [hp EXCEPT ![m] = @ - n]
    /\ IF hp[m] >= n THEN UNCHANGED <<zones, prizesLeft, attached, result>> ELSE KnockOut(p, m)

(* n counters on m, and check_ko.                                                      *)
Damage(p, m, n) ==
    /\ hp' = [hp EXCEPT ![m] = @ - n]
    /\ IF hp[m] > n THEN UNCHANGED <<zones, prizesLeft, attached, result>> ELSE KnockOut(p, m)

Unharmed == UNCHANGED <<zones, prizesLeft, attached, hp, result>>

(***************************************************************************)
(* The attack phase                                                        *)
(***************************************************************************)
MayAttack ==
    /\ active[current] # NoCard
    /\ ~(turn = 1 /\ current = first)
    /\ status[active[current]] \cap {"paralyzed", "asleep"} = {}

Affordable(mv) ==
    /\ active[current] \in Pokemon
    /\ mv.cost <= Cardinality(attached[active[current]])

(* Tails for a confused attacker: three counters on itself, and no attack.             *)
HurtItself ==
    /\ stage = "attack" /\ MayAttack
    /\ \E mv \in Moves : Affordable(mv)
    /\ "confused" \in status[active[current]]
    /\ Damage(current, active[current], 3)
    /\ stage' = "promote"
    /\ UNCHANGED <<status, clock, limits, mulligan, move, checkup>>

\* A faulty variant: without the return on GAME_OVER before the recoil.
StrikeOn ==
    LET foe == Opponent(current)
    IN  /\ stage = "attack" /\ MayAttack
        /\ \E mv \in Moves :
             /\ Affordable(mv)
             /\ move' = mv
             /\ IF active[foe] = NoCard \/ mv.damage = 0 THEN Unharmed
                ELSE Damage(foe, active[foe], mv.damage)
        /\ stage' = "recoil"
        /\ UNCHANGED <<status, clock, limits, mulligan, checkup>>

(* The damage step of an attack, zero damage and an empty Active Spot included.        *)
Strike ==
    LET foe == Opponent(current)
    IN  /\ stage = "attack" /\ MayAttack
        /\ \E mv \in Moves :
             /\ Affordable(mv)
             /\ move' = mv
             /\ IF active[foe] = NoCard \/ mv.damage = 0 THEN Unharmed
                ELSE Damage(foe, active[foe], mv.damage)
        /\ stage' = IF winner' = "none" THEN "recoil" ELSE "promote"
        /\ UNCHANGED <<status, clock, limits, mulligan, checkup>>

(* The recoil some attacks do to the attacker, unless the game is over.                *)
Recoil ==
    /\ stage = "recoil"
    /\ IF move.recoil = 0 THEN Unharmed ELSE Damage(current, active[current], move.recoil)
    /\ stage' = IF winner' = "none" THEN "afflict" ELSE "promote"
    /\ UNCHANGED <<status, clock, limits, mulligan, move, checkup>>

(* The conditions an attack leaves on the opponent's Active Pokemon, if there is one.  *)
Afflict ==
    LET target == active[Opponent(current)]
    IN  /\ stage = "afflict"
        /\ status' = IF target = NoCard THEN status
                     ELSE [status EXCEPT ![target] = @ \cup move.inflicts]
        /\ stage' = "promote"
        /\ UNCHANGED <<zones, prizesLeft, hp, attached, clock, limits, mulligan, move, checkup, result>>

(* END_TURN in the attack phase.                                                       *)
Decline ==
    /\ stage = "attack"
    /\ stage' = "promote"
    /\ UNCHANGED <<board, clock, limits, mulligan, move, checkup, result>>

(* An invalid choice in the attack phase skips the attack and the promotions.          *)
RefuseAttack ==
    /\ stage = "attack"
    /\ StartCheckup
    /\ UNCHANGED <<board, clock, limits, mulligan, move, result>>

(* _resolve_ko_aftermath: whoever has an empty Active Spot and a Bench promotes.       *)
Vacant == {p \in Players : active[p] = NoCard /\ bench[p] # {}}

\* A faulty variant: without the removal from the Bench.
PromoteCopy(p) ==
    /\ stage = "promote" /\ p \in Vacant /\ (p = "p1" \/ "p1" \notin Vacant)
    /\ \E m \in bench[p] : active' = [active EXCEPT ![p] = m]
    /\ UNCHANGED <<stage, deck, hand, bench, prizes, discard, prizesLeft, hp, attached, status,
                   clock, limits, mulligan, move, checkup, result>>

Promote(p) ==
    /\ stage = "promote" /\ p \in Vacant /\ (p = "p1" \/ "p1" \notin Vacant)
    /\ \E m \in bench[p] :
         /\ active' = [active EXCEPT ![p] = m]
         /\ bench' = [bench EXCEPT ![p] = @ \ {m}]
    /\ UNCHANGED <<stage, deck, hand, prizes, discard, prizesLeft, hp, attached, status,
                   clock, limits, mulligan, move, checkup, result>>

AfterAttack ==
    /\ stage = "promote" /\ Vacant = {}
    /\ move' = NoMove
    /\ IF winner = "none" THEN StartCheckup ELSE stage' = "over" /\ UNCHANGED checkup
    /\ UNCHANGED <<board, clock, limits, mulligan, result>>

(***************************************************************************)
(* Pokemon Checkup: the Pokemon examined is the one that was Active when   *)
(* the Checkup began, knocked out since or not                             *)
(***************************************************************************)
Toll(m) == IF "toxic" \in status[m] THEN 3 ELSE 1

Check ==
    LET p == checks[1][1]
        kind == checks[1][2]
        m == subject[p]
        has(s) == m # NoCard /\ s \in status[m]
    IN  /\ stage = "checkup" /\ checks # << >>
        /\ checks' = Tail(checks)
        /\ \/ /\ kind = "poison" /\ (has("toxic") \/ has("poisoned"))
              /\ Damage(p, m, Toll(m)) /\ UNCHANGED status
           \/ /\ kind = "burn" /\ has("burned")
              /\ Damage(p, m, 2) \/ Unharmed
              /\ UNCHANGED status
           \/ /\ kind = "sleep" /\ has("asleep")
              /\ status' = status \/ status' = [status EXCEPT ![m] = @ \ {"asleep"}]
              /\ Unharmed
           \/ /\ kind = "paralysis" /\ has("paralyzed") /\ p = current
              /\ status' = [status EXCEPT ![m] = @ \ {"paralyzed"}] /\ Unharmed
           \/ /\ \/ kind = "poison" /\ ~has("toxic") /\ ~has("poisoned")
                 \/ kind = "burn" /\ ~has("burned")
                 \/ kind = "sleep" /\ ~has("asleep")
                 \/ kind = "paralysis" /\ ~(has("paralyzed") /\ p = current)
              /\ Unharmed /\ UNCHANGED status
        /\ stage' = IF winner' = "none" THEN "checkup" ELSE "over"
        /\ UNCHANGED <<clock, limits, mulligan, move, subject>>

EndCheckup ==
    /\ stage = "checkup" /\ checks = << >>
    /\ stage' = "endturn" /\ subject' = [p \in Players |-> NoCard]
    /\ UNCHANGED <<board, clock, limits, mulligan, move, checks, result>>

(* _end_turn: the once-per-turn flags of both players, then the other player's turn.   *)
EndTurn ==
    /\ stage = "endturn"
    /\ energyUsed' = [p \in Players |-> FALSE]
    /\ retreatUsed' = [p \in Players |-> FALSE]
    /\ current' = Opponent(current) /\ turn' = turn + 1
    /\ acts' = 0 /\ stage' = "draw"
    /\ UNCHANGED <<board, first, mulligan, move, checkup, result>>

Over == stage = "over" /\ UNCHANGED vars

Setup == CheckHands \/ SetPrizes \/ \E p \in Players : Redraw(p) \/ Place(p)
Main == PlayBasic \/ AttachEnergy \/ Retreat \/ Refuse \/ Pass \/ EndTurnEarly \/ Valve
Attack == HurtItself \/ Strike \/ Recoil \/ Afflict \/ Decline \/ RefuseAttack
Aftermath == AfterAttack \/ Check \/ EndCheckup \/ EndTurn \/ \E p \in Players : Promote(p)

Next == Setup \/ TurnLimit \/ DeckOut \/ Draw \/ Main \/ Attack \/ Aftermath \/ Over

Spec == Init /\ [][Next]_vars
FairSpec == Spec /\ WF_vars(Next)

(***************************************************************************)
(* Properties                                                              *)
(***************************************************************************)

(* Every variable has its type, and no Bench is ever larger than the rules allow (the  *)
(* guard of _play_basic and the cut of bench_ids in _run_setup).                       *)
TypeOK ==
    /\ stage \in Stages /\ current \in Players /\ first \in Players
    /\ deck \in [Players -> SUBSET Cards] /\ hand \in [Players -> SUBSET Cards]
    /\ prizes \in [Players -> SUBSET Cards] /\ bench \in [Players -> SUBSET Cards]
    /\ active \in [Players -> Cards \cup {NoCard}] /\ subject \in [Players -> Cards \cup {NoCard}]
    /\ discard \in [Cards -> Nat] /\ prizesLeft \in [Players -> 0..PrizeCount]
    /\ hp \in [Cards -> Int] /\ attached \in [Cards -> SUBSET Cards]
    /\ status \in [Cards -> SUBSET Conditions]
    /\ turn \in 0..MaxTurns /\ acts \in 0..MaxActions
    /\ energyUsed \in [Players -> BOOLEAN] /\ retreatUsed \in [Players -> BOOLEAN]
    /\ owed \in SUBSET Players /\ redraws \in 0..MaxRedraws
    /\ move \in Moves \cup {NoMove} /\ Len(checks) \in 0..8
    /\ winner \in Players \cup {"none"}
    /\ how \in {"none", "prizes", "no_bench", "deck_out", "turn_limit"}
    /\ \A p \in Players : Cardinality(bench[p]) <= MaxBench

(* A card is in one place: deck, hand, prizes, Active Spot, Bench, under a Pokemon and *)
(* discard pile do not overlap, for the cards of one player or of two (the list        *)
(* surgery of every transition: remove here, append there).                            *)
OnePlace ==
    LET held(p) == <<deck[p], hand[p], prizes[p], bench[p], {active[p]} \ {NoCard},
                     UNION {attached[m] : m \in InPlay(p)}>>
    IN  /\ \A p \in Players : \A i, j \in 1..6 : i # j => held(p)[i] \cap held(p)[j] = {}
        /\ \A p \in Players : \A i \in 1..6 : \A c \in held(p)[i] :
               c \in Decks[p] /\ discard[c] = 0

(* What the knock-outs of p's Pokemon, so many of each, are worth to the opponent: the *)
(* second knock-out of the same Pokemon counts again.                                  *)
Due(p, times) ==
    LET cost == [c \in Decks[p] |-> Worth(c) * times[c]]
    IN  MapThenSumSet(LAMBDA c : cost[c], Decks[p])

(* Prizes are paid for: what a player has taken is what the opponent's knock-outs are  *)
(* worth, up to all of them (check_ko awards prizes and sends the Pokemon to the       *)
(* discard pile in one call).                                                          *)
PrizesPaidFor ==
    \A p \in Players :
      LET q == Opponent(p)
      IN  /\ prizesLeft[q] = PrizeCount - Smaller(PrizeCount, Due(p, discard))
          /\ turn > 0 => prizesLeft[q] = Cardinality(prizes[q])

(* A Pokemon in play has hit points left: whatever hurts it, attack, recoil, confusion *)
(* or Checkup, takes it off the table in the same call once they are gone.             *)
InPlayAlive ==
    \A p \in Players : \A m \in InPlay(p) \cap Pokemon : hp[m] > 0

(* The winner has earned it in the way the result says: their prizes are all taken,    *)
(* the other side has nobody left in play or nothing left to draw, or the turns are up.*)
WinnerEarned ==
    /\ winner = "none" <=> how = "none"
    /\ how = "prizes" => prizes[winner] = {}
    /\ how = "no_bench" => InPlay(Opponent(winner)) = {}
    /\ how = "deck_out" => deck[current] = {} /\ winner = Opponent(current)
    /\ how = "turn_limit" => turn >= MaxTurns /\ winner = "p1"

(* A result is final: once a knock-out has decided the game, nothing that is still on  *)
(* the stack (the recoil of that attack, the rest of the Checkup) changes the winner   *)
(* or the prizes.  Only the promotions that _resolve_ko_aftermath still asks for move. *)
ResultIsFinal ==
    [][winner # "none" => UNCHANGED <<result, prizes, prizesLeft, hp, discard>>]_vars

(* Every game ends, however the players choose: the mulligan loop, the main phase and  *)
(* the number of turns are bounded, and nobody waits for a choice that cannot be made. *)
GameEnds == <>(stage = "over" /\ winner # "none")

(* An Energy card is always somewhere: in a pile, in a hand, in play or attached       *)
(* ("Move a KO'd Pokemon and its attached energy to the discard pile").                *)
EnergyAccounted ==
    \A p \in Players : \A e \in Energy \cap Decks[p] :
        \/ e \in deck[p] \cup hand[p] \cup prizes[p] \cup InPlay(p)
        \/ \E m \in InPlay(p) : e \in attached[m]
        \/ discard[e] > 0

(* Paralysis wears off at the end of the paralyzed player's own turn.  The code does    *)
(* not keep this: END_TURN in the main phase skips the Checkup (README, section 3).     *)
ParalysisWearsOff ==
    [][current' # current /\ active[current] # NoCard
         => "paralyzed" \notin status'[active[current]]]_vars
=============================================================================
