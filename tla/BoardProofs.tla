----------------------------- MODULE BoardProofs -----------------------------
(***************************************************************************)
(* A game, for decks, attacks and limits of any size: its result is final, *)
(* and its cards: where they are, what hit points they have, which prizes  *)
(* are left and why, and for what the winner has won.                      *)
(*                                                                         *)
(* None of these facts is inductive alone.  A knocked-out Pokemon must be  *)
(* known to have been in play once, or to be in the discard pile already,  *)
(* for the Checkup may knock it out again (Examined); an attachment must   *)
(* lie under a Pokemon in play, or the next Basic Pokemon from the hand    *)
(* would bring it back (Attachments); and prizes_remaining agrees with the *)
(* prize cards only once these have been laid out (Tally).                 *)
(***************************************************************************)
EXTENDS Match, SumProofs

-----------------------------------------------------------------------------
(* A result is final.  The invariant says where the runner can still be once a game is *)
(* decided: asking for the promotions it asks for after any attack, or at its end.     *)
Decided == winner # "none" => stage \in {"promote", "over"}

(* Before the first draw nobody has won.                                              *)
LEMMA InitDecided == Init => Decided
  BY DEF Init, Decided

(* Actions that decide nothing.                                                       *)
LEMMA QuietActions ==
  ASSUME Decided,
         \/ Setup \/ Draw \/ Main
         \/ Afflict \/ Decline \/ RefuseAttack \/ EndCheckup \/ EndTurn
  PROVE  winner = "none" /\ UNCHANGED result
  <1>1. CASE Setup
    BY <1>1 DEF Setup, CheckHands, Redraw, Place, SetPrizes, Decided, result
  <1>2. CASE Draw
    BY <1>2 DEF Draw, Decided, result
  <1>3. CASE Main
    BY <1>3 DEF Main, MainAction, PlayBasic, AttachEnergy, Retreat, Refuse, Pass, EndTurnEarly,
                Valve, Decided, result
  <1>4. CASE Afflict \/ Decline \/ RefuseAttack \/ EndCheckup \/ EndTurn
    BY <1>4 DEF Afflict, Decline, RefuseAttack, EndCheckup, EndTurn, Decided, result
  <1>. QED  BY <1>1, <1>2, <1>3, <1>4

(* Actions that may decide the game, from a state in which nobody has won yet.        *)
LEMMA DecidingActions ==
  ASSUME Decided, TurnLimit \/ DeckOut \/ HurtItself \/ Strike \/ Recoil \/ Check
  PROVE  winner = "none" /\ Decided'
  <1>1. CASE TurnLimit \/ DeckOut
    BY <1>1 DEF TurnLimit, DeckOut, Decided
  <1>2. CASE HurtItself
    BY <1>2 DEF HurtItself, Decided
  <1>3. CASE Strike
    BY <1>3 DEF Strike, Decided
  <1>4. CASE Recoil
    BY <1>4 DEF Recoil, Decided
  <1>5. CASE Check
    BY <1>5 DEF Check, Decided
  <1>. QED  BY <1>1, <1>2, <1>3, <1>4, <1>5

(* What may still happen when somebody has won.                                       *)
LEMMA LateActions ==
  ASSUME Decided, Over \/ AfterAttack \/ \E p \in Players : Promote(p)
  PROVE  Decided' /\ UNCHANGED <<result, prizes, prizesLeft, hp, discard>>
  <1>1. CASE Over
    BY <1>1 DEF Over, Decided, vars, board, zones, result
  <1>2. CASE AfterAttack
    BY <1>2 DEF AfterAttack, Decided, board, zones, result, StartCheckup
  <1>3. CASE \E p \in Players : Promote(p)
    BY <1>3 DEF Promote, Decided, result
  <1>. QED  BY <1>1, <1>2, <1>3

LEMMA StepDecided ==
  ASSUME Decided, [Next]_vars
  PROVE  /\ Decided'
         /\ winner # "none" => UNCHANGED <<result, prizes, prizesLeft, hp, discard>>
  <1>1. CASE Setup \/ Draw \/ Main \/ Afflict \/ Decline \/ RefuseAttack \/ EndCheckup \/ EndTurn
    <2>1. winner = "none" /\ UNCHANGED result  BY <1>1, QuietActions
    <2>. QED  BY <2>1 DEF Decided, result
  <1>2. CASE TurnLimit \/ DeckOut \/ HurtItself \/ Strike \/ Recoil \/ Check
    BY <1>2, DecidingActions
  <1>3. CASE Over \/ AfterAttack \/ \E p \in Players : Promote(p)
    BY <1>3, LateActions
  <1>4. CASE UNCHANGED vars
    BY <1>4 DEF vars, board, zones, result, Decided
  <1>. QED  BY <1>1, <1>2, <1>3, <1>4 DEF Next, Attack, Aftermath

(* Once a knock-out, an empty deck or the turn limit has decided a game, no recoil, no *)
(* condition and no later action changes the winner, the way of winning or the prizes  *)
(* (the GAME_OVER returns between the steps of an attack and of _handle_between_turns).*)
THEOREM ResultFinal == Spec => ResultIsFinal
  <1>1. Spec => []Decided
    <2>1. Decided /\ [Next]_vars => Decided'  BY StepDecided
    <2>. QED  BY InitDecided, <2>1, PTL DEF Spec
  <1>2. Decided /\ [Next]_vars
          => [winner # "none" => UNCHANGED <<result, prizes, prizesLeft, hp, discard>>]_vars
    BY StepDecided
  <1>. QED  BY <1>1, <1>2, PTL DEF Spec, ResultIsFinal
-----------------------------------------------------------------------------
(* The cards.                                                                          *)

SetupStages == {"mulligan", "place1", "place2", "prizes"}
Kinds == {"poison", "burn", "sleep", "paralysis"}

(* The zones hold cards; the other variables have their types.                        *)
ZoneTypes ==
    /\ deck \in [Players -> SUBSET Cards] /\ hand \in [Players -> SUBSET Cards]
    /\ prizes \in [Players -> SUBSET Cards] /\ bench \in [Players -> SUBSET Cards]
    /\ active \in [Players -> Cards \cup {NoCard}]
    /\ discard \in [Cards -> Nat] /\ attached \in [Cards -> SUBSET Cards]

BenchLimit == \A p \in Players : Cardinality(bench[p]) <= MaxBench

OtherTypes ==
    /\ stage \in Stages /\ current \in Players /\ first \in Players
    /\ subject \in [Players -> Cards \cup {NoCard}] /\ status \in [Cards -> SUBSET Conditions]
    /\ acts \in 0..MaxActions
    /\ energyUsed \in [Players -> BOOLEAN] /\ retreatUsed \in [Players -> BOOLEAN]
    /\ owed \in SUBSET Players /\ redraws \in 0..MaxRedraws
    /\ move \in Moves \cup {NoMove}
    /\ checks \in Seq(Players \X Kinds) /\ Len(checks) <= 8
    /\ winner \in Players \cup {"none"}
    /\ how \in {"none", "prizes", "no_bench", "deck_out", "turn_limit"}

(* The turns begin when the prizes are laid out, and do not pass the limit.           *)
Clock ==
    /\ turn \in 0..MaxTurns
    /\ stage \in SetupStages <=> turn = 0
    /\ stage \notin SetupStages \cup {"draw", "over"} => turn < MaxTurns

(* prizes_remaining is the number of prize cards.                                     *)
Tally ==
    /\ prizesLeft \in [Players -> 0..PrizeCount]
    /\ \A p \in Players : IF turn = 0 THEN prizes[p] = {} ELSE prizesLeft[p] = Cardinality(prizes[p])

(* The zones of a player do not overlap, and hold cards of that player's deck that    *)
(* were never put into the discard pile.                                              *)
Apart(p) ==
    /\ deck[p] \cap hand[p] = {} /\ deck[p] \cap prizes[p] = {} /\ deck[p] \cap bench[p] = {}
    /\ hand[p] \cap prizes[p] = {} /\ hand[p] \cap bench[p] = {} /\ prizes[p] \cap bench[p] = {}
    /\ active[p] \notin deck[p] \cup hand[p] \cup prizes[p] \cup bench[p]

Held(p) == deck[p] \cup hand[p] \cup prizes[p] \cup InPlay(p)

Owned(p) == \A c \in Held(p) : c \in Decks[p] /\ discard[c] = 0

(* What is attached lies under a Pokemon in play and nowhere else.                    *)
Attachments(p) ==
    \A m \in Decks[p] : \A e \in attached[m] :
        m \in InPlay(p) /\ e \in Decks[p] /\ e \notin Held(p) /\ discard[e] = 0

Placing == \A p \in Players : Apart(p) /\ Owned(p) /\ Attachments(p)

(* A Pokemon without hit points has been put into the discard pile.                   *)
Vital == hp \in [Cards -> Int] /\ \A m \in Pokemon : hp[m] > 0 \/ discard[m] > 0

(* Whom the Checkup examines is in play or has been knocked out, and the attacker who *)
(* is to suffer recoil is still there.                                                *)
Known(p, m) == m \in Decks[p] /\ (m \in InPlay(p) \/ discard[m] > 0)

Examined ==
    /\ stage = "checkup" => \A p \in Players : subject[p] # NoCard => Known(p, subject[p])
    /\ stage = "recoil" => active[current] # NoCard

(* Nothing is attached during setup.                                                  *)
Bare == turn = 0 => \A m \in Cards : attached[m] = {}

BoardInv == ZoneTypes /\ Placing /\ Vital

(* Facts of the constants.                                                            *)
LEMMA Players2 ==
  ASSUME NEW p \in Players
  PROVE  /\ Opponent(p) \in Players /\ Opponent(p) # p /\ Opponent(Opponent(p)) = p
         /\ \A r \in Players : r = p \/ r = Opponent(p)
  BY DEF Players, Opponent

LEMMA DecksApart ==
  /\ \A p \in Players : Decks[p] \subseteq Cards /\ NoCard \notin Decks[p]
  /\ \A p \in Players : Decks[p] \cap Decks[Opponent(p)] = {}
  BY CardsAssumption DEF Players, Opponent

LEMMA FiniteZones == ASSUME NEW S, S \subseteq Cards PROVE IsFiniteSet(S) /\ Cardinality(S) \in Nat
  BY CardsAssumption, FS_Subset, FS_CardinalityType

LEMMA TopIn == ASSUME NEW n, NEW pile, NEW S \in Top(n, pile) PROVE S \subseteq pile
  BY DEF Top, kSubset

(* At most n cards leave a pile when the top n are taken.                             *)
LEMMA TopLeaves ==
  ASSUME NEW n \in Nat, NEW pile, pile \subseteq Cards, NEW S \in Top(n, pile)
  PROVE  /\ Cardinality(S) = Smaller(n, Cardinality(pile))
         /\ Cardinality(pile \ S) + n >= Cardinality(pile)
<1>1. S \subseteq pile /\ Cardinality(S) = Smaller(n, Cardinality(pile))
  BY DEF Top, kSubset
<1>2. /\ IsFiniteSet(pile) /\ Cardinality(pile) \in Nat
      /\ Cardinality(S) \in Nat /\ Cardinality(pile \ S) \in Nat
  BY <1>1, FiniteZones
<1>3. Cardinality(pile \ S) = Cardinality(pile) - Cardinality(pile \cap S)
  BY <1>2, FS_Difference, Zenon
<1>4. pile \cap S = S
  BY <1>1
<1>5. Cardinality(pile \ S) = Cardinality(pile) - Cardinality(S)
  BY <1>3, <1>4
<1>6. Smaller(n, Cardinality(pile)) <= n
  BY <1>2 DEF Smaller
<1> QED BY <1>1, <1>2, <1>5, <1>6

LEMMA Larger ==
  ASSUME NEW S, S \subseteq Cards, NEW x
  PROVE  IsFiniteSet(S \cup {x}) /\ Cardinality(S \cup {x}) <= Cardinality(S) + 1
<1>1. IsFiniteSet(S) /\ Cardinality(S) \in Nat
  BY FiniteZones
<1>2. IsFiniteSet(S \cup {x})
      /\ (Cardinality(S \cup {x}) = Cardinality(S) \/ Cardinality(S \cup {x}) = Cardinality(S) + 1)
  BY <1>1, FS_AddElement, Zenon
<1>3. QED BY <1>1, <1>2

LEMMA Smaller1 ==
  ASSUME NEW S, S \subseteq Cards, NEW x \in S
  PROVE  Cardinality(S \ {x}) = Cardinality(S) - 1
<1>1. IsFiniteSet(S)
  BY FiniteZones
<1>2. QED BY <1>1, FS_RemoveElement, Zenon

LEMMA BenchStep ==
  ASSUME BenchLimit, NEW p \in Players, NEW S, bench \in [Players -> SUBSET Cards],
         bench' = [bench EXCEPT ![p] = S], Cardinality(S) <= MaxBench
  PROVE  BenchLimit'
  BY DEF BenchLimit

(* Laying out, drawing and mulligans.                                                 *)
LEMMA InitBoard == Init => BoardInv /\ BenchLimit /\ OtherTypes /\ Clock /\ Tally /\ Examined /\ Bare
<1> SUFFICES ASSUME Init PROVE BoardInv /\ BenchLimit /\ OtherTypes /\ Clock /\ Tally /\ Examined /\ Bare
  OBVIOUS
<1>1. PICK h1 \in Top(HandSize, Decks["p1"]), h2 \in Top(HandSize, Decks["p2"]) :
        /\ hand = [p \in Players |-> IF p = "p1" THEN h1 ELSE h2]
        /\ deck = [p \in Players |-> Decks[p] \ hand[p]]
  BY DEF Init
<1>2. \A p \in Players : hand[p] \subseteq Decks[p] /\ deck[p] = Decks[p] \ hand[p]
  BY <1>1, TopIn DEF Players
<1>3. /\ active = [p \in Players |-> NoCard]
      /\ bench = [p \in Players |-> {}] /\ prizes = [p \in Players |-> {}]
      /\ discard = [c \in Cards |-> 0] /\ attached = [c \in Cards |-> {}]
  BY DEF Init
<1>4. ZoneTypes
  BY <1>1, <1>2, <1>3, DecksApart DEF ZoneTypes
<1>5. Placing
  <2> SUFFICES ASSUME NEW p \in Players PROVE Apart(p) /\ Owned(p) /\ Attachments(p)
    BY DEF Placing
  <2>1. Held(p) \subseteq Decks[p] /\ InPlay(p) = {}
    BY <1>2, <1>3 DEF Held, InPlay
  <2>2. Apart(p)
    BY <1>2, <1>3, DecksApart DEF Apart
  <2>3. QED BY <1>3, <2>1, <2>2, DecksApart DEF Owned, Attachments
<1>6. Vital
  BY CardsAssumption DEF Init, Vital, Cards
<1>7. BenchLimit
  BY <1>3, FS_EmptySet, RulesAssumption DEF BenchLimit
<1>8. OtherTypes
  <2>1. << >> \in Seq(Players \X Kinds) /\ Len(<< >>) = 0
    OBVIOUS
  <2>2. QED BY <2>1, RulesAssumption DEF Init, OtherTypes, Stages
<1>9. Clock /\ Tally /\ Examined /\ Bare
  BY RulesAssumption DEF Init, Clock, Tally, Examined, Bare, SetupStages
<1>10. QED BY <1>4, <1>5, <1>6, <1>7, <1>8, <1>9 DEF BoardInv

LEMMA RedrawBoard ==
  ASSUME BoardInv, NEW p \in Players, Redraw(p)
  PROVE  BoardInv'
<1> DEFINE q == Opponent(p)
           pool == deck[p] \cup hand[p]
<1>1. PICK bonus \in Top(1, deck[q]), new \in Top(HandSize, pool) :
        /\ hand' = [hand EXCEPT ![p] = new, ![q] = @ \cup bonus]
        /\ deck' = [deck EXCEPT ![p] = pool \ new, ![q] = @ \ bonus]
  BY DEF Redraw
<1>2. bonus \subseteq deck[q] /\ new \subseteq pool
  BY TopIn
<1>3. UNCHANGED <<active, bench, prizes, discard, hp, attached>>
  BY DEF Redraw
<1>4. p # q /\ q \in Players /\ \A r \in Players : r = p \/ r = q
  BY Players2
<1> HIDE DEF q
<1>5. /\ hand'[p] = new /\ deck'[p] = pool \ new
      /\ hand'[q] = hand[q] \cup bonus /\ deck'[q] = deck[q] \ bonus
  BY <1>1, <1>4 DEF BoardInv, ZoneTypes
<1>6. ZoneTypes'
  BY <1>1, <1>2, <1>3, <1>4 DEF BoardInv, ZoneTypes
<1>7. ASSUME NEW r \in Players PROVE (Apart(r) /\ Owned(r) /\ Attachments(r))'
  <2>1. Apart(r) /\ Owned(r) /\ Attachments(r)
    BY DEF BoardInv, Placing
  <2>2. deck'[r] \cup hand'[r] \subseteq deck[r] \cup hand[r] \/ r = p \/ r = q
    BY <1>4
  <2>3. deck'[r] \cup hand'[r] = deck[r] \cup hand[r] /\ deck'[r] \cap hand'[r] = {}
    BY <1>2, <1>4, <1>5, <2>1 DEF Apart
  <2>4. InPlay(r)' = InPlay(r) /\ Held(r)' = Held(r)
    BY <1>3, <2>3 DEF InPlay, Held
  <2>5. QED BY <1>3, <2>1, <2>3, <2>4 DEF Apart, Owned, Attachments
<1>8. QED BY <1>3, <1>6, <1>7 DEF BoardInv, Placing, Vital

LEMMA PlaceBoard ==
  ASSUME BoardInv, BenchLimit, Bare, turn = 0, NEW p \in Players, Place(p)
  PROVE  BoardInv' /\ BenchLimit'
<1>1. PICK a \in hand[p], others \in SUBSET Basics(p) :
        /\ a \notin others
        /\ Cardinality(others) <= MaxBench - 1
        /\ active' = [active EXCEPT ![p] = a]
        /\ bench' = [bench EXCEPT ![p] = others]
        /\ hand' = [hand EXCEPT ![p] = @ \ ({a} \cup others)]
  BY DEF Place, Basics
<1>2. UNCHANGED <<deck, prizes, discard, hp, attached>>
  BY DEF Place
<1>3. others \subseteq hand[p] /\ a \notin others /\ hand[p] \subseteq Cards
  BY <1>1 DEF Basics, BoardInv, ZoneTypes
<1>4. ZoneTypes'
  <2>1. a \in Cards /\ others \in SUBSET Cards /\ hand[p] \ ({a} \cup others) \in SUBSET Cards
    BY <1>3
  <2>2. /\ active' \in [Players -> Cards \cup {NoCard}]
        /\ bench' \in [Players -> SUBSET Cards] /\ hand' \in [Players -> SUBSET Cards]
    BY <1>1, <2>1 DEF BoardInv, ZoneTypes
  <2>3. QED BY <1>2, <2>2 DEF BoardInv, ZoneTypes
<1>5. /\ active'[p] = a /\ bench'[p] = others /\ hand'[p] = hand[p] \ ({a} \cup others)
      /\ \A r \in Players \ {p} : active'[r] = active[r] /\ bench'[r] = bench[r] /\ hand'[r] = hand[r]
  BY <1>1 DEF BoardInv, ZoneTypes
<1>6. ASSUME NEW r \in Players PROVE (Apart(r) /\ Owned(r) /\ Attachments(r))'
  <2>1. Apart(r) /\ Owned(r)
    BY DEF BoardInv, Placing
  <2>2. Apart(r)'
    BY <1>1, <1>2, <1>3, <1>5, <2>1 DEF Apart
  <2>3. Held(r)' \subseteq Held(r)
    BY <1>1, <1>2, <1>3, <1>5 DEF Held, InPlay
  <2>4. Attachments(r)'
    BY <1>2, DecksApart DEF Bare, Attachments
  <2>5. QED BY <1>2, <2>1, <2>2, <2>3, <2>4 DEF Owned
<1>7. BenchLimit'
  <2>1. Cardinality(others) <= MaxBench
    BY <1>1, <1>3, FiniteZones, RulesAssumption DEF Basics
  <2>2. QED BY <1>5, <2>1 DEF BenchLimit
<1>8. QED BY <1>2, <1>4, <1>6, <1>7 DEF BoardInv, Placing, Vital

LEMMA SetPrizesBoard ==
  ASSUME BoardInv, Tally, turn = 0, SetPrizes
  PROVE  BoardInv' /\ Tally'
<1>1. PICK z1 \in Top(PrizeCount, deck["p1"]), z2 \in Top(PrizeCount, deck["p2"]) :
        /\ prizes' = [p \in Players |-> IF p = "p1" THEN z1 ELSE z2]
        /\ deck' = [p \in Players |-> deck[p] \ prizes'[p]]
        /\ prizesLeft' = [p \in Players |-> Cardinality(prizes'[p])]
  BY DEF SetPrizes
<1>2. UNCHANGED <<hand, active, bench, discard, hp, attached>> /\ turn' = 1
  BY DEF SetPrizes
<1>3. ASSUME NEW p \in Players
      PROVE  /\ prizes'[p] \subseteq deck[p] /\ Cardinality(prizes'[p]) <= PrizeCount
             /\ deck'[p] = deck[p] \ prizes'[p] /\ prizes[p] = {}
  <2>1. prizes'[p] \in Top(PrizeCount, deck[p])
    BY <1>1 DEF Players
  <2>2. Cardinality(prizes'[p]) = Smaller(PrizeCount, Cardinality(deck[p]))
    BY <2>1 DEF Top, kSubset
  <2>3. Cardinality(deck[p]) \in Nat
    BY FiniteZones DEF BoardInv, ZoneTypes
  <2>4. QED BY <1>1, <2>1, <2>2, <2>3, TopIn, RulesAssumption DEF Smaller, Tally
<1>4. ZoneTypes'
  BY <1>1, <1>2, <1>3 DEF BoardInv, ZoneTypes
<1>5. ASSUME NEW p \in Players PROVE (Apart(p) /\ Owned(p) /\ Attachments(p))'
  <2>1. Apart(p) /\ Owned(p) /\ Attachments(p)
    BY DEF BoardInv, Placing
  <2>2. Apart(p)'
    BY <1>2, <1>3, <2>1 DEF Apart
  <2>3. Held(p)' = Held(p) /\ InPlay(p)' = InPlay(p)
    BY <1>2, <1>3 DEF Held, InPlay
  <2>4. QED BY <1>2, <2>1, <2>2, <2>3 DEF Owned, Attachments
<1>6. Tally'
  <2>1. \A p \in Players : prizesLeft'[p] = Cardinality(prizes'[p]) /\ prizesLeft'[p] \in 0..PrizeCount
    <3>1. \A p \in Players : Cardinality(prizes'[p]) \in Nat
      BY <1>4, FiniteZones DEF ZoneTypes
    <3>2. QED BY <1>1, <1>3, <3>1, RulesAssumption
  <2>2. QED BY <1>1, <1>2, <2>1 DEF Tally
<1>7. QED BY <1>2, <1>4, <1>5, <1>6 DEF BoardInv, Placing, Vital

LEMMA DrawBoard == ASSUME BoardInv, Draw PROVE BoardInv'
<1>1. PICK c \in deck[current] :
        /\ deck' = [deck EXCEPT ![current] = @ \ {c}]
        /\ hand' = [hand EXCEPT ![current] = @ \cup {c}]
  BY DEF Draw
<1>2. UNCHANGED <<active, bench, prizes, discard, hp, attached>>
  BY DEF Draw
<1>3. ZoneTypes'
  BY <1>1, <1>2 DEF BoardInv, ZoneTypes
<1>4. ASSUME NEW p \in Players PROVE (Apart(p) /\ Owned(p) /\ Attachments(p))'
  <2>1. Apart(p) /\ Owned(p) /\ Attachments(p)
    BY DEF BoardInv, Placing
  <2>2. \/ deck'[p] = deck[p] /\ hand'[p] = hand[p]
        \/ c \in deck[p] /\ deck'[p] = deck[p] \ {c} /\ hand'[p] = hand[p] \cup {c}
    BY <1>1 DEF BoardInv, ZoneTypes
  <2>3. Apart(p)'
    BY <1>2, <2>1, <2>2 DEF Apart
  <2>4. Held(p)' = Held(p) /\ InPlay(p)' = InPlay(p)
    BY <1>2, <2>2 DEF Held, InPlay
  <2>5. QED BY <1>2, <2>1, <2>3, <2>4 DEF Owned, Attachments
<1>5. QED BY <1>2, <1>3, <1>4 DEF BoardInv, Placing, Vital

(* The main phase.                                                                    *)
LEMMA PlayBasicBoard ==
  ASSUME BoardInv, BenchLimit, PlayBasic, current \in Players
  PROVE  BoardInv' /\ BenchLimit'
<1> DEFINE p == current
<1>1. PICK m \in Basics(p) :
        /\ hand' = [hand EXCEPT ![p] = @ \ {m}]
        /\ bench' = [bench EXCEPT ![p] = @ \cup {m}]
  BY DEF PlayBasic
<1>2. UNCHANGED <<deck, active, prizes, discard, hp, attached>> /\ Cardinality(bench[p]) < MaxBench
  BY DEF PlayBasic
<1>3. m \in hand[p] /\ m \in Cards
  BY DEF Basics, BoardInv, ZoneTypes
<1>4. /\ hand'[p] = hand[p] \ {m} /\ bench'[p] = bench[p] \cup {m}
      /\ \A r \in Players \ {p} : hand'[r] = hand[r] /\ bench'[r] = bench[r]
  BY <1>1 DEF BoardInv, ZoneTypes
<1>5. ZoneTypes'
  BY <1>1, <1>2, <1>3 DEF BoardInv, ZoneTypes
<1>6. ASSUME NEW r \in Players PROVE (Apart(r) /\ Owned(r) /\ Attachments(r))'
  <2>1. Apart(r) /\ Owned(r) /\ Attachments(r)
    BY DEF BoardInv, Placing
  <2>2. m \in Held(p) /\ (r = p \/ r # p)
    BY <1>3 DEF Held
  <2>3. Held(r)' = Held(r) /\ InPlay(r) \subseteq InPlay(r)'
    BY <1>2, <1>3, <1>4 DEF Held, InPlay
  <2>4. Apart(r)'
    BY <1>2, <1>3, <1>4, <2>1 DEF Apart
  <2>5. QED BY <1>2, <2>1, <2>3, <2>4 DEF Owned, Attachments
<1>7. BenchLimit'
  <2>1. IsFiniteSet(bench[p]) /\ Cardinality(bench[p]) \in Nat
    BY FiniteZones DEF BoardInv, ZoneTypes
  <2>2. Cardinality(bench[p] \cup {m}) <= MaxBench
    <3>1. bench[p] \cup {m} \subseteq Cards
      BY <1>3 DEF BoardInv, ZoneTypes
    <3>2. Cardinality(bench[p] \cup {m}) \in Nat /\ MaxBench \in Nat
      BY <3>1, FiniteZones, RulesAssumption
    <3>3. Cardinality(bench[p] \cup {m}) <= Cardinality(bench[p]) + 1
      BY Larger DEF BoardInv, ZoneTypes
    <3>4. QED BY <1>2, <2>1, <3>2, <3>3
  <2>3. QED BY <1>1, <2>2, BenchStep DEF BoardInv, ZoneTypes
<1>8. QED BY <1>2, <1>5, <1>6, <1>7 DEF BoardInv, Placing, Vital

LEMMA AttachEnergyBoard ==
  ASSUME BoardInv, AttachEnergy, current \in Players
  PROVE  BoardInv'
<1> DEFINE p == current
<1>1. PICK e \in hand[p], m \in InPlay(p) :
        /\ hand' = [hand EXCEPT ![p] = @ \ {e}]
        /\ attached' = [attached EXCEPT ![m] = @ \cup {e}]
  BY DEF AttachEnergy
<1>2. UNCHANGED <<deck, active, bench, prizes, discard, hp>>
  BY DEF AttachEnergy
<1>3. ZoneTypes'
  BY <1>1, <1>2 DEF BoardInv, ZoneTypes
<1>4. /\ hand'[p] = hand[p] \ {e} /\ \A r \in Players \ {p} : hand'[r] = hand[r]
      /\ \A x \in Cards : attached'[x] = IF x = m THEN attached[x] \cup {e} ELSE attached[x]
  BY <1>1 DEF BoardInv, ZoneTypes
<1>5. m \in Decks[p] /\ e \in Decks[p] /\ discard[e] = 0
  BY <1>1 DEF BoardInv, Placing, Owned, Held
<1>6. ASSUME NEW r \in Players PROVE (Apart(r) /\ Owned(r) /\ Attachments(r))'
  <2>1. Apart(r) /\ Owned(r) /\ Attachments(r) /\ Decks[r] \subseteq Cards
    BY DecksApart DEF BoardInv, Placing
  <2>2. Apart(r)' /\ InPlay(r)' = InPlay(r) /\ Held(r)' \subseteq Held(r)
    BY <1>2, <1>4, <2>1 DEF Apart, InPlay, Held
  <2>3. r # p => m \notin Decks[r]
    BY <1>5, DecksApart, Players2
  <2>4. r = p => e \notin Held(r)'
    BY <1>1, <1>2, <1>4, <2>1 DEF Held, Apart, InPlay
  <2>5. Attachments(r)'
    <3> SUFFICES ASSUME NEW x \in Decks[r], NEW y \in attached'[x]
                 PROVE  x \in InPlay(r)' /\ y \in Decks[r] /\ y \notin Held(r)' /\ discard'[y] = 0
      BY DEF Attachments
    <3>1. CASE y \in attached[x]
      BY <1>2, <2>1, <2>2, <3>1 DEF Attachments
    <3>2. CASE y \notin attached[x]
      <4>1. x = m /\ y = e /\ r = p
        BY <1>4, <2>1, <2>3, <3>2
      <4>2. QED BY <1>1, <1>2, <1>5, <2>2, <2>4, <4>1
    <3>3. QED BY <3>1, <3>2
  <2>6. QED BY <1>2, <2>1, <2>2, <2>5 DEF Owned
<1>7. QED BY <1>2, <1>3, <1>6 DEF BoardInv, Placing, Vital

(* Changing places between Active Spot and Bench.                                     *)
LEMMA RetreatBoard ==
  ASSUME BoardInv, BenchLimit, Retreat, current \in Players
  PROVE  BoardInv' /\ BenchLimit' /\ UNCHANGED discard
<1> DEFINE p == current
           old == active[p]
<1>1. PICK new \in bench[p], paid \in kSubset(RetreatOf(old), attached[old]) :
        /\ attached' = [attached EXCEPT ![old] = @ \ paid]
        /\ discard' = Discarded(paid, hand[p])
        /\ active' = [active EXCEPT ![p] = new]
        /\ bench' = [bench EXCEPT ![p] = (@ \ {new}) \cup {old}]
  BY DEF Retreat
<1>2. UNCHANGED <<deck, hand, prizes, hp>> /\ old # NoCard
  BY DEF Retreat
<1>3. paid \subseteq attached[old] /\ old \in InPlay(p) /\ old \in Cards /\ new \in Cards
  BY <1>2 DEF kSubset, InPlay, BoardInv, ZoneTypes
<1>4. old \in Decks[p] /\ paid \cap hand[p] = {}
  <2>1. old \in Decks[p]
    BY <1>3 DEF BoardInv, Placing, Owned, Held
  <2>2. QED BY <1>3, <2>1 DEF BoardInv, Placing, Attachments, Held
<1>5. discard' = discard
  BY <1>1, <1>4 DEF Discarded, BoardInv, ZoneTypes
<1>6. ZoneTypes'
  <2>1. /\ active' \in [Players -> Cards \cup {NoCard}] /\ bench' \in [Players -> SUBSET Cards]
        /\ attached' \in [Cards -> SUBSET Cards]
    BY <1>1, <1>3 DEF BoardInv, ZoneTypes
  <2>2. QED BY <1>2, <1>5, <2>1 DEF BoardInv, ZoneTypes
<1>7. /\ active'[p] = new /\ bench'[p] = (bench[p] \ {new}) \cup {old}
      /\ \A r \in Players \ {p} : active'[r] = active[r] /\ bench'[r] = bench[r]
      /\ \A x \in Cards : attached'[x] \subseteq attached[x]
  BY <1>1 DEF BoardInv, ZoneTypes
<1> HIDE DEF old
<1>8. ASSUME NEW r \in Players PROVE (Apart(r) /\ Owned(r) /\ Attachments(r))'
  <2>1. Apart(r) /\ Owned(r) /\ Attachments(r) /\ Decks[r] \subseteq Cards
    BY DecksApart DEF BoardInv, Placing
  <2>2. r = p => old = active[r] /\ new \in bench[r] /\ old # NoCard /\ new # NoCard
    BY <1>2, <1>3, CardsAssumption DEF old
  <2>3. InPlay(r)' = InPlay(r)
    BY <1>7, <2>2 DEF InPlay
  <2>4. Held(r)' = Held(r)
    BY <1>2, <2>3 DEF Held
  <2>5. Apart(r)'
    BY <1>2, <1>7, <2>1, <2>2 DEF Apart
  <2>6. QED BY <1>5, <1>7, <2>1, <2>3, <2>4, <2>5 DEF Owned, Attachments
<1>9. BenchLimit'
  <2>1. IsFiniteSet(bench[p]) /\ Cardinality(bench[p]) \in Nat
    BY FiniteZones DEF BoardInv, ZoneTypes
  <2> DEFINE rest == bench[p] \ {new}
  <2>2. rest \subseteq Cards /\ rest \cup {old} \subseteq Cards
    BY <1>3 DEF BoardInv, ZoneTypes
  <2>3. Cardinality(rest) = Cardinality(bench[p]) - 1
    BY Smaller1 DEF BoardInv, ZoneTypes
  <2> HIDE DEF rest
  <2>4. Cardinality(rest \cup {old}) <= Cardinality(rest) + 1
    BY <2>2, Larger
  <2>5. Cardinality(rest) \in Nat /\ Cardinality(rest \cup {old}) \in Nat /\ MaxBench \in Nat
    BY <2>2, FiniteZones, RulesAssumption
  <2>6. Cardinality(bench[p]) <= MaxBench
    BY DEF BenchLimit
  <2>7. Cardinality(rest \cup {old}) <= MaxBench
    BY <2>1, <2>3, <2>4, <2>5, <2>6
  <2>8. bench' = [bench EXCEPT ![p] = rest \cup {old}]
    BY <1>1 DEF rest, old
  <2>9. QED BY <2>7, <2>8, BenchStep DEF BoardInv, ZoneTypes
<1>10. QED BY <1>2, <1>5, <1>6, <1>8, <1>9 DEF BoardInv, Placing, Vital

LEMMA PromoteBoard ==
  ASSUME BoardInv, BenchLimit, NEW p \in Players, Promote(p)
  PROVE  BoardInv' /\ BenchLimit'
<1>1. PICK m \in bench[p] :
        /\ active' = [active EXCEPT ![p] = m]
        /\ bench' = [bench EXCEPT ![p] = @ \ {m}]
  BY DEF Promote
<1>2. UNCHANGED <<deck, hand, prizes, discard, hp, attached>> /\ active[p] = NoCard
  BY DEF Promote, Vacant
<1>3. ZoneTypes'
  BY <1>1, <1>2 DEF BoardInv, ZoneTypes
<1>4. /\ active'[p] = m /\ bench'[p] = bench[p] \ {m}
      /\ \A r \in Players \ {p} : active'[r] = active[r] /\ bench'[r] = bench[r]
  BY <1>1 DEF BoardInv, ZoneTypes
<1>5. ASSUME NEW r \in Players PROVE (Apart(r) /\ Owned(r) /\ Attachments(r))'
  <2>1. Apart(r) /\ Owned(r) /\ Attachments(r)
    BY DEF BoardInv, Placing
  <2>2. m # NoCard
    BY CardsAssumption DEF BoardInv, ZoneTypes
  <2>3. Apart(r)'
    BY <1>2, <1>4, <2>1 DEF Apart
  <2>4. InPlay(r)' = InPlay(r)
    BY <1>2, <1>4, <2>2 DEF InPlay
  <2>5. Held(r)' = Held(r)
    BY <1>2, <2>4 DEF Held
  <2>6. QED BY <1>2, <2>1, <2>3, <2>4, <2>5 DEF Owned, Attachments
<1>6. BenchLimit'
  <2>1. IsFiniteSet(bench[p]) /\ Cardinality(bench[p]) \in Nat
    BY FiniteZones DEF BoardInv, ZoneTypes
  <2>2. Cardinality(bench[p] \ {m}) = Cardinality(bench[p]) - 1
    BY Smaller1 DEF BoardInv, ZoneTypes
  <2>3. Cardinality(bench[p]) <= MaxBench /\ MaxBench \in Nat
    BY RulesAssumption DEF BenchLimit
  <2>4. Cardinality(bench[p] \ {m}) <= MaxBench
    BY <2>1, <2>2, <2>3
  <2>5. QED BY <1>1, <2>4, BenchStep DEF BoardInv, ZoneTypes
<1>7. QED BY <1>2, <1>3, <1>5, <1>6 DEF BoardInv, Placing, Vital

(* Knock-outs.  Prizes are taken from those that are left.                             *)
LEMMA TakenPrizes ==
  ASSUME ZoneTypes, Tally, turn # 0, NEW q \in Players, NEW n, NEW taken \in Top(n, prizes[q]),
         prizes' = [prizes EXCEPT ![q] = @ \ taken],
         prizesLeft' = [prizesLeft EXCEPT ![q] = @ - Cardinality(taken)],
         turn' = turn
  PROVE  Tally' /\ (prizesLeft'[q] = 0 => prizes'[q] = {})
<1>1. taken \subseteq prizes[q] /\ prizes[q] \subseteq Cards
  BY TopIn DEF ZoneTypes
<1> DEFINE rest == prizes[q] \ taken
<1>2. /\ IsFiniteSet(prizes[q]) /\ IsFiniteSet(rest) /\ IsFiniteSet(taken)
      /\ Cardinality(prizes[q]) \in Nat /\ Cardinality(rest) \in Nat /\ Cardinality(taken) \in Nat
  BY <1>1, FiniteZones
<1>3. Cardinality(rest) = Cardinality(prizes[q]) - Cardinality(taken)
  <2>1. Cardinality(rest) = Cardinality(prizes[q]) - Cardinality(prizes[q] \cap taken)
    BY <1>2, FS_Difference, Zenon
  <2>2. prizes[q] \cap taken = taken
    BY <1>1
  <2>3. QED BY <2>1, <2>2
<1> HIDE DEF rest
<1>4. prizesLeft[q] = Cardinality(prizes[q]) /\ prizesLeft[q] \in 0..PrizeCount /\ PrizeCount \in Nat
  BY RulesAssumption DEF Tally
<1>5. prizes' = [prizes EXCEPT ![q] = rest] /\ prizesLeft' = [prizesLeft EXCEPT ![q] = Cardinality(rest)]
  BY <1>2, <1>3, <1>4 DEF rest
<1>6. Cardinality(rest) \in 0..PrizeCount
  BY <1>2, <1>3, <1>4
<1>7. Tally'
  BY <1>5, <1>6 DEF Tally, ZoneTypes
<1>8. Cardinality(rest) = 0 => rest = {}
  BY <1>2, FS_EmptySet
<1>9. QED BY <1>5, <1>7, <1>8 DEF Tally, ZoneTypes

LEMMA Discards ==
  ASSUME ZoneTypes, NEW cards, NEW searched, NEW m \in Cards,
         cards \cap searched = {},
         discard' = [Discarded(cards, searched) EXCEPT ![m] = @ + 1]
  PROVE  /\ discard' \in [Cards -> Nat] /\ discard'[m] = discard[m] + 1
         /\ \A c \in Cards : discard'[c] >= discard[c]
         /\ \A c \in Cards \ {m} : discard'[c] = discard[c]
<1>1. Discarded(cards, searched) = discard
  BY DEF Discarded, ZoneTypes
<1>2. QED BY <1>1 DEF ZoneTypes

LEMMA KnockOutBoard ==
  ASSUME ZoneTypes, Placing, BenchLimit, Tally, turn # 0, turn' = turn,
         NEW p \in Players, NEW m, Known(p, m), KnockOut(p, m)
  PROVE  /\ ZoneTypes' /\ Placing' /\ BenchLimit' /\ Tally'
         /\ prizesLeft'[Opponent(p)] = 0 => prizes'[Opponent(p)] = {}
         /\ discard'[m] > 0
         /\ \A c \in Cards : discard'[c] >= discard[c]
         /\ \A r \in Players : \A x \in InPlay(r) : x = m \/ x \in InPlay(r)'
<1> DEFINE q == Opponent(p)
<1>1. p # q /\ q \in Players /\ \A r \in Players : r = p \/ r = q
  BY Players2
<1>2. m \in Decks[p] /\ m \in Cards /\ m # NoCard /\ m \notin Decks[q]
  BY DecksApart DEF Known
<1> HIDE DEF q
<1>3. PICK taken \in Top(Worth(m), prizes[q]) :
        /\ prizes' = [prizes EXCEPT ![q] = @ \ taken]
        /\ hand' = [hand EXCEPT ![q] = @ \cup taken]
        /\ prizesLeft' = [prizesLeft EXCEPT ![q] = @ - Cardinality(taken)]
  BY DEF KnockOut, q
<1>4. taken \subseteq prizes[q] /\ taken \subseteq Cards
  BY <1>1, <1>3, TopIn DEF ZoneTypes
<1>5. /\ deck' = deck /\ attached' = [attached EXCEPT ![m] = {}]
      /\ \/ active[p] = m /\ active' = [active EXCEPT ![p] = NoCard] /\ bench' = bench
         \/ active[p] # m /\ active' = active /\ bench' = [bench EXCEPT ![p] = @ \ {m}]
  BY DEF KnockOut
<1>6. attached[m] \cap (deck[p] \cup hand[p]) = {}
  BY <1>2 DEF Placing, Attachments, Held
<1>7. /\ discard' \in [Cards -> Nat] /\ discard'[m] > 0
      /\ \A c \in Cards : discard'[c] >= discard[c]
      /\ \A c \in Cards \ {m} : discard'[c] = discard[c]
  <2>1. discard' = [Discarded(attached[m], deck[p] \cup hand[p]) EXCEPT ![m] = @ + 1]
    BY DEF KnockOut
  <2>2. discard[m] \in Nat
    BY <1>2 DEF ZoneTypes
  <2> DEFINE cards == attached[m]
             searched == deck[p] \cup hand[p]
  <2>3. cards \cap searched = {} /\ discard' = [Discarded(cards, searched) EXCEPT ![m] = @ + 1]
    BY <1>6, <2>1
  <2> HIDE DEF cards, searched
  <2>5. /\ discard' \in [Cards -> Nat] /\ discard'[m] = discard[m] + 1
        /\ \A c \in Cards : discard'[c] >= discard[c]
        /\ \A c \in Cards \ {m} : discard'[c] = discard[c]
    BY ONLY ZoneTypes, <1>2, <2>3, Discards, ZenonT(40)
  <2>6. QED BY <2>2, <2>5
<1>8. ZoneTypes'
  <2>1. prizes' \in [Players -> SUBSET Cards] /\ hand' \in [Players -> SUBSET Cards]
    BY <1>3, <1>4 DEF ZoneTypes
  <2>2. active' \in [Players -> Cards \cup {NoCard}] /\ bench' \in [Players -> SUBSET Cards]
    BY <1>5 DEF ZoneTypes
  <2>3. attached' \in [Cards -> SUBSET Cards]
    BY <1>5 DEF ZoneTypes
  <2>4. QED BY <1>5, <1>7, <2>1, <2>2, <2>3 DEF ZoneTypes
<1>9. /\ prizes'[q] = prizes[q] \ taken /\ hand'[q] = hand[q] \cup taken
      /\ prizes'[p] = prizes[p] /\ hand'[p] = hand[p]
      /\ active'[q] = active[q] /\ bench'[q] = bench[q]
  BY <1>1, <1>3, <1>5 DEF ZoneTypes
<1>10. \/ active[p] = m /\ active'[p] = NoCard /\ bench'[p] = bench[p]
       \/ active[p] # m /\ active'[p] = active[p] /\ bench'[p] = bench[p] \ {m}
  BY <1>1, <1>5 DEF ZoneTypes
<1>11. \A x \in Cards : attached'[x] = IF x = m THEN {} ELSE attached[x]
  BY <1>5 DEF ZoneTypes
<1>12. (Apart(p) /\ Owned(p) /\ Attachments(p))'
  <2>1. Apart(p) /\ Owned(p) /\ Attachments(p) /\ Decks[p] \subseteq Cards /\ NoCard \notin Cards
    BY DecksApart, CardsAssumption DEF Placing
  <2>2. NoCard \notin deck[p] \cup hand[p] \cup prizes[p] \cup bench[p]
    BY <2>1 DEF ZoneTypes
  <2>3. Apart(p)'
    BY <1>5, <1>9, <1>10, <2>1, <2>2 DEF Apart
  <2>4. InPlay(p)' = InPlay(p) \ {m}
    BY <1>2, <1>10, <2>1 DEF InPlay, Apart
  <2>5. m \notin deck[p] \cup hand[p] \cup prizes[p]
    BY <2>1 DEF Known, Apart, Owned, Held, InPlay
  <2>6. Held(p)' = Held(p) \ {m}
    BY <1>5, <1>9, <2>4, <2>5 DEF Held
  <2>7. Owned(p)'
    BY <1>7, <2>1, <2>6 DEF Owned
  <2>8. \A x \in Decks[p] : m \notin attached[x]
    BY <2>1 DEF Known, Attachments, Held
  <2>9. Attachments(p)'
    BY <1>7, <1>11, <2>1, <2>4, <2>6, <2>8 DEF Attachments
  <2>10. QED BY <2>3, <2>7, <2>9
<1>13. (Apart(q) /\ Owned(q) /\ Attachments(q))'
  <2>1. Apart(q) /\ Owned(q) /\ Attachments(q) /\ Decks[q] \subseteq Cards
    BY <1>1, DecksApart DEF Placing
  <2>2. Apart(q)'
    BY <1>4, <1>5, <1>9, <2>1 DEF Apart
  <2>3. InPlay(q)' = InPlay(q)
    BY <1>9 DEF InPlay
  <2>4. Held(q)' = Held(q)
    BY <1>4, <1>5, <1>9, <2>3 DEF Held
  <2>5. \A c \in Decks[q] : discard'[c] = discard[c]
    BY <1>2, <1>7, <2>1
  <2>6. Owned(q)'
    BY <2>1, <2>4, <2>5 DEF Owned
  <2>7. Attachments(q)'
    BY <1>2, <1>11, <2>1, <2>3, <2>4, <2>5 DEF Attachments
  <2>8. QED BY <2>2, <2>6, <2>7
<1>14. Placing'
  BY <1>1, <1>12, <1>13 DEF Placing
<1>15. BenchLimit'
  <2>1. CASE bench' = bench
    BY <2>1 DEF BenchLimit
  <2>2. CASE bench' = [bench EXCEPT ![p] = @ \ {m}]
    <3>1. bench[p] \subseteq Cards /\ Cardinality(bench[p]) <= MaxBench
      BY DEF ZoneTypes, BenchLimit
    <3>2. Cardinality(bench[p] \ {m}) <= Cardinality(bench[p])
      BY <3>1, FiniteZones, FS_Subset
    <3>3. Cardinality(bench[p] \ {m}) \in Nat /\ Cardinality(bench[p]) \in Nat /\ MaxBench \in Nat
      BY <3>1, FiniteZones, RulesAssumption
    <3>4. Cardinality(bench[p] \ {m}) <= MaxBench
      BY <3>1, <3>2, <3>3
    <3>5. QED BY <2>2, <3>4, BenchStep DEF ZoneTypes
  <2>3. QED BY <1>5, <2>1, <2>2
<1>16. Tally' /\ (prizesLeft'[q] = 0 => prizes'[q] = {})
  BY <1>1, <1>3, TakenPrizes
<1>17. ASSUME NEW r \in Players, NEW x \in InPlay(r) PROVE x = m \/ x \in InPlay(r)'
  BY <1>1, <1>9, <1>10 DEF InPlay
<1>18. QED BY <1>7, <1>8, <1>14, <1>15, <1>16, <1>17 DEF q

(* Damage, and the knock-out it may lead to.                                          *)
LEMMA DamageBoard ==
  ASSUME BoardInv, BenchLimit, Tally, turn # 0, turn' = turn,
         NEW p \in Players, NEW m, Known(p, m), NEW n \in Nat, Damage(p, m, n)
  PROVE  /\ BoardInv' /\ BenchLimit' /\ Tally'
         /\ \A c \in Cards : discard'[c] >= discard[c]
         /\ \A r \in Players : \A x \in InPlay(r) : x \in InPlay(r)' \/ (x = m /\ discard'[x] > 0)
<1>1. m \in Cards /\ hp' = [hp EXCEPT ![m] = @ - n] /\ hp \in [Cards -> Int]
  BY DecksApart DEF Known, Damage, BoardInv, Vital
<1>2. hp' \in [Cards -> Int] /\ \A x \in Cards \ {m} : hp'[x] = hp[x]
  BY <1>1
<1>3. CASE hp[m] > n
  <2>1. UNCHANGED <<zones, prizesLeft, attached>>
    BY <1>3 DEF Damage
  <2>2. hp'[m] > 0
    BY <1>1, <1>3
  <2>3. UNCHANGED <<deck, hand, active, bench, prizes, discard, prizesLeft, attached>>
    BY <2>1 DEF zones
  <2>4. Vital'
    BY <1>1, <1>2, <2>2, <2>3, CardsAssumption DEF BoardInv, Vital, Cards
  <2>5. ZoneTypes' /\ BenchLimit' /\ Tally'
    BY <2>3 DEF BoardInv, ZoneTypes, BenchLimit, Tally
  <2>6. Placing' /\ \A r \in Players : InPlay(r)' = InPlay(r)
    BY <2>3 DEF BoardInv, Placing, Apart, Owned, Attachments, Held, InPlay
  <2>7. QED BY <2>3, <2>4, <2>5, <2>6 DEF BoardInv, ZoneTypes
<1>4. CASE ~(hp[m] > n)
  <2>1. KnockOut(p, m)
    BY <1>4 DEF Damage
  <2>2. /\ ZoneTypes' /\ Placing' /\ BenchLimit' /\ Tally' /\ discard'[m] > 0
        /\ \A c \in Cards : discard'[c] >= discard[c]
        /\ \A r \in Players : \A x \in InPlay(r) : x = m \/ x \in InPlay(r)'
    BY <2>1, KnockOutBoard DEF BoardInv
  <2>3. Vital'
    <3> SUFFICES ASSUME NEW x \in Pokemon PROVE hp'[x] > 0 \/ discard'[x] > 0
      BY <1>2 DEF Vital
    <3>1. x \in Cards
      BY DEF Cards
    <3>2. CASE x = m
      BY <2>2, <3>2
    <3>3. CASE x # m
      <4>1. hp[x] > 0 \/ discard[x] > 0
        BY DEF BoardInv, Vital
      <4>2. discard[x] \in Nat /\ discard'[x] \in Nat /\ discard'[x] >= discard[x] /\ hp'[x] = hp[x]
        BY <1>2, <2>2, <3>1, <3>3 DEF BoardInv, ZoneTypes
      <4>3. QED BY <4>1, <4>2
    <3>4. QED BY <3>2, <3>3
  <2>4. QED BY <2>2, <2>3 DEF BoardInv
<1>5. QED BY <1>3, <1>4

-----------------------------------------------------------------------------
(* The invariant of the game.                                                         *)
GameInv == BoardInv /\ BenchLimit /\ Tally /\ Bare /\ OtherTypes /\ Clock /\ Examined

(* Steps that move no card and hurt nobody.                                           *)
Quiet ==
    TurnLimit \/ DeckOut \/ Refuse \/ Pass \/ EndTurnEarly \/ Valve \/ Afflict \/ Decline
    \/ RefuseAttack \/ AfterAttack \/ EndCheckup \/ EndTurn \/ Over \/ CheckHands \/ UNCHANGED vars

(* Steps that move cards.                                                             *)
Moving ==
    SetPrizes \/ Draw \/ PlayBasic \/ AttachEnergy \/ Retreat
    \/ \E p \in Players : Redraw(p) \/ Place(p) \/ Promote(p)

(* Steps that may hurt a Pokemon.                                                     *)
Hurting == HurtItself \/ Strike \/ Recoil \/ Check

LEMMA NextSteps == [Next]_vars => Quiet \/ Moving \/ Hurting
  BY DEF Next, Setup, Main, Attack, Aftermath, Quiet, Moving, Hurting

LEMMA QuietFrame ==
  ASSUME OtherTypes, Clock, Quiet
  PROVE  UNCHANGED <<deck, hand, active, bench, prizes, discard, prizesLeft, attached, hp>>
         /\ (turn' = 0 <=> turn = 0)
<1>1. UNCHANGED <<zones, prizesLeft, attached, hp>>
  BY DEF Quiet, TurnLimit, DeckOut, Refuse, Pass, EndTurnEarly, Valve, Afflict, Decline,
         RefuseAttack, AfterAttack, EndCheckup, EndTurn, Over, CheckHands, vars, board
<1>2. turn' = turn \/ (EndTurn /\ turn' = turn + 1)
  BY DEF Quiet, TurnLimit, DeckOut, Refuse, Pass, EndTurnEarly, Valve, Afflict, Decline,
         RefuseAttack, AfterAttack, EndCheckup, EndTurn, Over, CheckHands, vars, clock
<1>3. EndTurn => turn # 0 /\ turn \in Nat
  BY RulesAssumption DEF EndTurn, Clock, SetupStages
<1>4. QED BY <1>1, <1>2, <1>3 DEF zones

LEMMA QuietBoard ==
  ASSUME GameInv, Quiet
  PROVE  BoardInv' /\ BenchLimit' /\ Tally' /\ Bare'
<1>1. /\ UNCHANGED <<deck, hand, active, bench, prizes, discard, prizesLeft, attached, hp>>
      /\ (turn' = 0 <=> turn = 0)
  BY QuietFrame DEF GameInv
<1>2. Placing'
  BY <1>1 DEF GameInv, BoardInv, Placing, Apart, Owned, Attachments, Held, InPlay
<1>3. QED BY <1>1, <1>2 DEF GameInv, BoardInv, BenchLimit, Tally, Bare, ZoneTypes, Vital

LEMMA CheckupTypes ==
  ASSUME GameInv, StartCheckup
  PROVE  /\ checks' \in Seq(Players \X Kinds) /\ Len(checks') <= 8
         /\ subject' \in [Players -> Cards \cup {NoCard}]
         /\ \A p \in Players : subject'[p] # NoCard => Known(p, subject'[p])
<1>1. AllChecks \in Seq(Players \X Kinds) /\ Len(AllChecks) = 8
  BY DEF AllChecks, Players, Kinds
<1>2. \A p \in Players : active[p] # NoCard => active[p] \in InPlay(p) /\ active[p] \in Decks[p]
  BY DEF GameInv, BoardInv, Placing, Owned, Held, InPlay
<1>3. QED BY <1>1, <1>2 DEF StartCheckup, GameInv, BoardInv, ZoneTypes, Known

(* Who was known is known after a step that leaves the cards in their places.         *)
LEMMA KnownStays ==
  ASSUME NEW p \in Players, NEW m, Known(p, m), UNCHANGED <<active, bench, discard>>
  PROVE  Known(p, m)'
  BY DEF Known, InPlay

LEMMA QuietRest ==
  ASSUME GameInv, Quiet
  PROVE  OtherTypes' /\ Clock' /\ Examined'
<1> USE RulesAssumption DEF GameInv
<1>1. UNCHANGED <<active, bench, discard>>
  BY QuietFrame
<1>2. CASE UNCHANGED vars \/ Over
  <2>1. /\ UNCHANGED <<stage, current, first, turn, subject, status, acts, energyUsed, retreatUsed>>
        /\ UNCHANGED <<owed, redraws, move, checks, winner, how>>
    BY <1>2 DEF Over, vars, board, clock, limits, mulligan, checkup, result
  <2>2. Examined'
    BY <1>1, <2>1 DEF Examined, Known, InPlay
  <2>3. QED BY <2>1, <2>2 DEF OtherTypes, Clock
<1>3. CASE CheckHands
  <2>0. /\ UNCHANGED <<current, first, turn, subject, status, acts, energyUsed, retreatUsed>>
        /\ UNCHANGED <<move, checks, winner, how>>
    BY <1>3 DEF CheckHands, board, clock, limits, mulligan, checkup, result
  <2>1. /\ owed' \in SUBSET Players
        /\ redraws' = redraws \/ (redraws # MaxRedraws /\ redraws' = redraws + 1)
    BY <1>3 DEF CheckHands, mulligan, OtherTypes
  <2>2. stage = "mulligan" /\ stage' \in {"mulligan", "place1"}
    BY <1>3 DEF CheckHands, mulligan
  <2>3. Clock'
    BY <2>0, <2>2 DEF Clock, SetupStages
  <2>4. Examined'
    BY <2>2 DEF Examined
  <2>5. redraws' \in 0..MaxRedraws
    BY <2>1 DEF OtherTypes
  <2>6. OtherTypes'
    <3>1. stage' \in Stages
      BY ONLY <2>2 DEF Stages
    <3>2. OtherTypes
      OBVIOUS
    <3> QED
      BY ONLY <3>1, <3>2, <2>0, <2>1, <2>5 DEF OtherTypes
  <2>7. QED BY <2>3, <2>4, <2>6
<1>4. CASE TurnLimit \/ DeckOut
  <2>1. OtherTypes'
    BY <1>4, Players2 DEF TurnLimit, DeckOut, Win, OtherTypes, board, clock, limits, mulligan, checkup,
                          Stages, Players
  <2>2. stage = "draw" /\ stage' = "over" /\ UNCHANGED clock
    BY <1>4 DEF TurnLimit, DeckOut
  <2>3. Clock'
    BY <2>2 DEF Clock, SetupStages, clock
  <2>4. Examined'
    BY <2>2 DEF Examined
  <2>5. QED BY <2>1, <2>3, <2>4
<1>5. CASE Refuse \/ Pass \/ EndTurnEarly \/ Decline
  <2>1. /\ UNCHANGED <<current, first, turn, subject, status, energyUsed, retreatUsed>>
        /\ UNCHANGED <<owed, redraws, move, checks, winner, how>>
    BY <1>5 DEF Refuse, Pass, EndTurnEarly, Decline, MainAction, board, clock, limits,
                mulligan, checkup, result
  <2>2. /\ stage \in {"main", "attack"}
        /\ stage' \in {"main", "attack", "endturn", "promote"}
        /\ acts' = acts \/ (acts < MaxActions /\ acts' = acts + 1)
    BY <1>5 DEF Refuse, Pass, EndTurnEarly, Decline, MainAction, limits
  <2>3. acts' \in 0..MaxActions
    BY <2>2 DEF OtherTypes
  <2>4. OtherTypes'
    BY <2>1, <2>2, <2>3 DEF OtherTypes, Stages
  <2>5. Clock'
    BY <2>1, <2>2 DEF Clock, SetupStages
  <2>6. Examined'
    BY <2>2 DEF Examined
  <2>7. QED BY <2>4, <2>5, <2>6
<1>6. CASE Valve \/ RefuseAttack
  <2>1. StartCheckup /\ stage' = "checkup"
    BY <1>6 DEF Valve, RefuseAttack, StartCheckup
  <2>2. UNCHANGED <<status, clock, limits, mulligan, move, result>>
    BY <1>6 DEF Valve, RefuseAttack, board
  <2>3. OtherTypes'
    BY <2>1, <2>2, CheckupTypes DEF OtherTypes, clock, limits, mulligan, result, Stages
  <2>4. \A p \in Players : subject'[p] # NoCard => Known(p, subject'[p])
    BY <2>1, CheckupTypes
  <2>5. Examined'
    BY <1>1, <2>1, <2>4 DEF Examined, Known, InPlay
  <2>6. QED BY <1>6, <2>1, <2>2, <2>3, <2>5 DEF Valve, RefuseAttack, Clock, SetupStages, clock
<1>7. CASE Afflict
  <2>1. status' \in [Cards -> SUBSET Conditions]
    <3>1. move.inflicts \in SUBSET Conditions
      BY DEF OtherTypes, NoMove
    <3>2. QED BY <1>7, <3>1 DEF Afflict, OtherTypes
  <2>2. OtherTypes'
    BY <1>7, <2>1 DEF Afflict, OtherTypes, clock, limits, mulligan, checkup, result, Stages
  <2>3. QED BY <1>7, <2>2 DEF Afflict, Clock, Examined, SetupStages, clock
<1>8. CASE AfterAttack
  <2>1. move' = NoMove /\ UNCHANGED <<status, clock, limits, mulligan, result>>
    BY <1>8 DEF AfterAttack, board
  <2>2. CASE winner = "none"
    <3>1. StartCheckup /\ stage' = "checkup"
      BY <1>8, <2>2 DEF AfterAttack, StartCheckup
    <3>2. OtherTypes'
      BY <2>1, <3>1, CheckupTypes DEF OtherTypes, clock, limits, mulligan, result, Stages
    <3>3. \A p \in Players : subject'[p] # NoCard => Known(p, subject'[p])
      BY <3>1, CheckupTypes
    <3>4. Examined'
      BY <1>1, <3>1, <3>3 DEF Examined, Known, InPlay
    <3>5. QED BY <1>8, <2>1, <3>1, <3>2, <3>4 DEF AfterAttack, Clock, SetupStages, clock
  <2>3. CASE winner # "none"
    <3>1. stage' = "over" /\ UNCHANGED <<checks, subject>>
      BY <1>8, <2>3 DEF AfterAttack, checkup
    <3>2. OtherTypes'
      BY <2>1, <3>1 DEF OtherTypes, clock, limits, mulligan, result, Stages
    <3>3. QED BY <1>8, <2>1, <3>1, <3>2 DEF AfterAttack, Clock, Examined, SetupStages, clock
  <2>4. QED BY <2>2, <2>3
<1>9. CASE EndCheckup
  <2>1. OtherTypes'
    BY <1>9 DEF EndCheckup, OtherTypes, board, clock, limits, mulligan, result, Stages
  <2>2. QED BY <1>9, <2>1 DEF EndCheckup, Clock, Examined, SetupStages, clock
<1>10. CASE EndTurn
  <2>1. OtherTypes'
    BY <1>10, Players2 DEF EndTurn, OtherTypes, board, mulligan, checkup, result, Stages
  <2>2. QED BY <1>10, <2>1 DEF EndTurn, Clock, Examined, SetupStages
<1>11. QED BY <1>2, <1>3, <1>4, <1>5, <1>6, <1>7, <1>8, <1>9, <1>10 DEF Quiet

LEMMA MovingBoard ==
  ASSUME GameInv, Moving
  PROVE  BoardInv' /\ BenchLimit' /\ Tally' /\ Bare'
<1> USE DEF GameInv
<1>1. current \in Players
  BY DEF OtherTypes
<1>2. CASE SetPrizes
  <2>1. turn = 0
    BY <1>2 DEF SetPrizes, Clock, SetupStages
  <2>2. UNCHANGED <<bench, attached>> /\ turn' # 0
    BY <1>2 DEF SetPrizes
  <2>3. QED BY <1>2, <2>1, <2>2, SetPrizesBoard DEF BenchLimit, Bare
<1>3. CASE Draw \/ PlayBasic \/ AttachEnergy \/ Retreat \/ \E p \in Players : Redraw(p) \/ Promote(p)
  <2>1. UNCHANGED <<prizes, prizesLeft, turn>>
    BY <1>3 DEF Draw, PlayBasic, AttachEnergy, Retreat, Redraw, Promote, clock
  <2>2. Tally'
    BY <2>1 DEF Tally
  <2>3. BoardInv' /\ BenchLimit'
    <3>1. CASE Draw
      BY <1>1, <3>1, DrawBoard DEF Draw, BenchLimit
    <3>2. CASE PlayBasic
      BY <1>1, <3>2, PlayBasicBoard
    <3>3. CASE AttachEnergy
      BY <1>1, <3>3, AttachEnergyBoard DEF AttachEnergy, BenchLimit
    <3>4. CASE Retreat
      BY <1>1, <3>4, RetreatBoard
    <3>5. ASSUME NEW p \in Players, Redraw(p) PROVE BoardInv' /\ BenchLimit'
      BY <3>5, RedrawBoard DEF Redraw, BenchLimit
    <3>6. ASSUME NEW p \in Players, Promote(p) PROVE BoardInv' /\ BenchLimit'
      BY <3>6, PromoteBoard
    <3>7. QED BY <1>3, <3>1, <3>2, <3>3, <3>4, <3>5, <3>6
  <2>4. attached' = attached \/ stage = "main"
    BY <1>3 DEF Draw, PlayBasic, AttachEnergy, Retreat, Redraw, Promote, MainAction
  <2>5. Bare'
    BY <2>1, <2>4 DEF Bare, Clock, SetupStages
  <2>6. QED BY <2>2, <2>3, <2>5
<1>4. ASSUME NEW p \in Players, Place(p) PROVE BoardInv' /\ BenchLimit' /\ Tally' /\ Bare'
  <2>1. turn = 0
    BY <1>4 DEF Place, Clock, SetupStages
  <2>2. UNCHANGED <<prizes, prizesLeft, turn, attached>>
    BY <1>4 DEF Place, clock
  <2>3. QED BY <1>4, <2>1, <2>2, PlaceBoard DEF Tally, Bare
<1>5. QED BY <1>2, <1>3, <1>4 DEF Moving

LEMMA MovingRest ==
  ASSUME GameInv, Moving
  PROVE  OtherTypes' /\ Clock' /\ Examined'
<1> USE RulesAssumption DEF GameInv
<1>1. stage' \notin {"checkup", "recoil"} => Examined'
  BY DEF Examined
<1>2. CASE SetPrizes
  <2>1. OtherTypes'
    BY <1>2 DEF SetPrizes, OtherTypes, limits, mulligan, checkup, result, Stages
  <2>2. QED BY <1>1, <1>2, <2>1 DEF SetPrizes, Clock, SetupStages
<1>3. CASE Draw
  <2>1. OtherTypes'
    BY <1>3 DEF Draw, OtherTypes, clock, mulligan, checkup, result, Stages
  <2>2. QED BY <1>1, <1>3, <2>1 DEF Draw, Clock, SetupStages, clock
<1>4. CASE PlayBasic \/ AttachEnergy \/ Retreat
  <2>1. /\ acts' \in 0..MaxActions
        /\ energyUsed' \in [Players -> BOOLEAN] /\ retreatUsed' \in [Players -> BOOLEAN]
    <3>1. acts' = acts + 1 /\ acts < MaxActions
      BY <1>4 DEF PlayBasic, AttachEnergy, Retreat, MainAction
    <3>2. /\ energyUsed' = energyUsed \/ energyUsed' = [energyUsed EXCEPT ![current] = TRUE]
          /\ retreatUsed' = retreatUsed \/ retreatUsed' = [retreatUsed EXCEPT ![current] = TRUE]
      BY <1>4 DEF PlayBasic, AttachEnergy, Retreat
    <3>3. acts \in 0..MaxActions /\ MaxActions \in Nat
      BY DEF OtherTypes
    <3>4. acts' \in 0..MaxActions
      BY <3>1, <3>3
    <3>5. energyUsed' \in [Players -> BOOLEAN] /\ retreatUsed' \in [Players -> BOOLEAN]
      BY <3>2 DEF OtherTypes
    <3>6. QED BY <3>4, <3>5
  <2>2. UNCHANGED <<stage, status, clock, mulligan, move, checkup, result>>
    BY <1>4 DEF PlayBasic, AttachEnergy, Retreat
  <2>3. OtherTypes'
    BY <2>1, <2>2 DEF OtherTypes, clock, mulligan, checkup, result
  <2>4. stage' = stage /\ stage = "main" /\ turn' = turn
    BY <1>4 DEF PlayBasic, AttachEnergy, Retreat, MainAction, clock
  <2>5. QED BY <1>1, <2>3, <2>4 DEF Clock
<1>5. ASSUME NEW p \in Players, Redraw(p) PROVE OtherTypes' /\ Clock' /\ Examined'
  <2>1. OtherTypes'
    BY <1>5 DEF Redraw, OtherTypes, clock, limits, checkup, result
  <2>2. QED BY <1>1, <1>5, <2>1 DEF Redraw, Clock, clock
<1>6. ASSUME NEW p \in Players, Place(p) PROVE OtherTypes' /\ Clock' /\ Examined'
  <2>1. OtherTypes'
    BY <1>6 DEF Place, OtherTypes, clock, limits, mulligan, checkup, result, Stages
  <2>2. QED BY <1>1, <1>6, <2>1 DEF Place, Clock, clock, SetupStages
<1>7. ASSUME NEW p \in Players, Promote(p) PROVE OtherTypes' /\ Clock' /\ Examined'
  <2>1. OtherTypes'
    BY <1>7 DEF Promote, OtherTypes, clock, limits, mulligan, checkup, result
  <2>2. QED BY <1>1, <1>7, <2>1 DEF Promote, Clock, clock
<1>8. QED BY <1>2, <1>3, <1>4, <1>5, <1>6, <1>7 DEF Moving

(* The Pokemon a step may hurt.                                                       *)
Hurts(p, m, n) == Known(p, m) /\ Damage(p, m, n) /\ UNCHANGED <<turn, current>>

Unhurt == UNCHANGED <<deck, hand, active, bench, prizes, discard, prizesLeft, attached, hp,
                      turn, current, winner, how>>

LEMMA ActiveKnown ==
  ASSUME GameInv, NEW p \in Players, active[p] # NoCard
  PROVE  Known(p, active[p])
  BY DEF GameInv, BoardInv, Placing, Owned, Held, InPlay, Known

LEMMA CheckHead ==
  ASSUME GameInv, checks # << >>
  PROVE  /\ checks[1][1] \in Players /\ checks[1][2] \in Kinds
         /\ Tail(checks) \in Seq(Players \X Kinds) /\ Len(Tail(checks)) <= 8
  BY DEF GameInv, OtherTypes

LEMMA HurtingStep ==
  ASSUME GameInv, Hurting
  PROVE  Unhurt \/ \E p \in Players, m \in Cards, n \in Nat :
                     /\ Hurts(p, m, n)
                     /\ Strike => p # current
<1> USE DEF GameInv
<1>1. current \in Players /\ Opponent(current) \in Players /\ Opponent(current) # current
  BY Players2 DEF OtherTypes
<1>2. \A p \in Players : active[p] # NoCard => Known(p, active[p]) /\ active[p] \in Cards
  BY ActiveKnown DEF BoardInv, ZoneTypes
<1>3. UNCHANGED <<turn, current>>
  BY DEF Hurting, HurtItself, Strike, Recoil, Check, clock
<1>4. Unharmed => Unhurt
  BY <1>3 DEF Unharmed, Unhurt, zones, result
<1>5. CASE HurtItself /\ ~Strike
  <2>1. Damage(current, active[current], 3) /\ active[current] # NoCard
    BY <1>5 DEF HurtItself, MayAttack
  <2>2. QED BY <1>1, <1>2, <1>3, <1>5, <2>1 DEF Hurts
<1>6. CASE Strike
  <2> DEFINE foe == Opponent(current)
  <2>1. PICK mv \in Moves : IF active[foe] = NoCard \/ mv.damage = 0 THEN Unharmed
                            ELSE Damage(foe, active[foe], mv.damage)
    BY <1>6 DEF Strike
  <2>2. mv.damage \in Nat
    BY RulesAssumption
  <2>3. QED BY <1>1, <1>2, <1>3, <1>4, <2>1, <2>2 DEF Hurts
<1>7. CASE Recoil /\ ~Strike
  <2>1. active[current] # NoCard
    BY <1>7 DEF Recoil, Examined
  <2>2. move.recoil \in Nat
    BY RulesAssumption DEF OtherTypes, NoMove
  <2>3. Unharmed \/ Damage(current, active[current], move.recoil)
    BY <1>7 DEF Recoil
  <2>4. QED BY <1>1, <1>2, <1>3, <1>4, <1>7, <2>1, <2>2, <2>3 DEF Hurts
<1>8. CASE Check /\ ~Strike
  <2> DEFINE p == checks[1][1]
             m == subject[p]
  <2>1. p \in Players
    BY <1>8, CheckHead DEF Check
  <2>2. m # NoCard => Known(p, m) /\ m \in Cards
    BY <1>8, <2>1 DEF Check, Examined, OtherTypes
  <2> HIDE DEF p, m
  <2>3. \/ Unharmed
        \/ m # NoCard /\ (Damage(p, m, Toll(m)) \/ Damage(p, m, 2))
    BY <1>8, Zenon DEF Check, p, m
  <2>4. Toll(m) \in Nat
    BY DEF Toll
  <2>5. QED BY <1>3, <1>4, <1>8, <2>1, <2>2, <2>3, <2>4 DEF Hurts
<1>9. QED BY <1>5, <1>6, <1>7, <1>8 DEF Hurting

LEMMA HurtingBoard ==
  ASSUME GameInv, Hurting
  PROVE  /\ BoardInv' /\ BenchLimit' /\ Tally' /\ Bare'
         /\ \A r \in Players : \A x \in Cards : Known(r, x) => Known(r, x)'
<1> USE DEF GameInv
<1>1. turn # 0
  BY DEF Hurting, HurtItself, Strike, Recoil, Check, Clock, SetupStages
<1>2. CASE Unhurt
  <2>1. Placing'
    BY <1>2 DEF Unhurt, BoardInv, Placing, Apart, Owned, Attachments, Held, InPlay
  <2>2. \A r \in Players : \A x \in Cards : Known(r, x) => Known(r, x)'
    BY <1>2 DEF Unhurt, Known, InPlay
  <2>3. QED BY <1>2, <2>1, <2>2 DEF Unhurt, BoardInv, ZoneTypes, Vital, BenchLimit, Tally, Bare
<1>3. CASE \E p \in Players, m \in Cards, n \in Nat : Hurts(p, m, n)
  <2>1. PICK p \in Players, m \in Cards, n \in Nat : Hurts(p, m, n)
    BY <1>3
  <2>2. turn' = turn
    BY <2>1 DEF Hurts
  <2>3. /\ BoardInv' /\ BenchLimit' /\ Tally'
        /\ \A c \in Cards : discard'[c] >= discard[c]
        /\ \A r \in Players : \A x \in InPlay(r) : x \in InPlay(r)' \/ (x = m /\ discard'[x] > 0)
    BY <1>1, <2>1, <2>2, DamageBoard DEF Hurts
  <2>4. ASSUME NEW r \in Players, NEW x \in Cards, Known(r, x) PROVE Known(r, x)'
    <3>1. discard[x] \in Nat /\ discard'[x] \in Nat /\ discard'[x] >= discard[x]
      BY <2>3 DEF BoardInv, ZoneTypes
    <3>2. x \in InPlay(r)' \/ discard'[x] > 0
      BY <2>3, <2>4, <3>1 DEF Known
    <3>3. QED BY <2>4, <3>2 DEF Known
  <2>5. QED BY <1>1, <2>2, <2>3, <2>4 DEF Bare
<1>4. QED BY <1>2, <1>3, HurtingStep

LEMMA ResultAfterDamage ==
  ASSUME NEW p \in Players, NEW m, NEW n, Damage(p, m, n)
  PROVE  \/ UNCHANGED result
         \/ Win(Opponent(p), "prizes") /\ prizesLeft'[Opponent(p)] = 0
         \/ Win(Opponent(p), "no_bench") /\ active'[p] = NoCard /\ bench'[p] = {}
  BY DEF Damage, KnockOut, Verdict

LEMMA HurtingRest ==
  ASSUME GameInv, Hurting
  PROVE  OtherTypes' /\ Clock' /\ Examined'
<1> USE DEF GameInv
<1>1. winner' \in Players \cup {"none"} /\ how' \in {"none", "prizes", "no_bench", "deck_out", "turn_limit"}
  <2>1. CASE Unhurt
    BY <2>1 DEF Unhurt, OtherTypes
  <2>2. CASE \E p \in Players, m \in Cards, n \in Nat : Hurts(p, m, n)
    <3>1. PICK p \in Players, m \in Cards, n \in Nat : Damage(p, m, n)
      BY <2>2 DEF Hurts
    <3>2. UNCHANGED result \/ Win(Opponent(p), "prizes") \/ Win(Opponent(p), "no_bench")
      BY <3>1, ResultAfterDamage
    <3>3. QED BY <3>2, Players2 DEF Win, result, OtherTypes
  <2>3. QED BY <2>1, <2>2, HurtingStep
<1>2. UNCHANGED <<clock, limits, mulligan, subject>>
  BY DEF Hurting, HurtItself, Strike, Recoil, Check, checkup
<1>3. move' \in Moves \cup {NoMove}
  BY DEF Hurting, HurtItself, Strike, Recoil, Check, OtherTypes
<1>4. status' \in [Cards -> SUBSET Conditions]
  <2>1. status' = status \/ \E m, s : status' = [status EXCEPT ![m] = @ \ {s}]
    BY DEF Hurting, HurtItself, Strike, Recoil, Check
  <2>2. QED BY <2>1 DEF OtherTypes
<1>5. checks' \in Seq(Players \X Kinds) /\ Len(checks') <= 8
  <2>1. checks' = checks \/ (checks # << >> /\ checks' = Tail(checks))
    BY DEF Hurting, HurtItself, Strike, Recoil, Check, checkup
  <2>2. QED BY <2>1, CheckHead DEF OtherTypes
<1>6. /\ stage \in {"attack", "recoil", "checkup"}
      /\ stage' \in {"promote", "recoil", "afflict", "checkup", "over"}
  BY DEF Hurting, HurtItself, Strike, Recoil, Check
<1>7. OtherTypes'
  BY <1>1, <1>2, <1>3, <1>4, <1>5, <1>6 DEF OtherTypes, clock, limits, mulligan, Stages
<1>8. Clock'
  BY <1>2, <1>6 DEF Clock, SetupStages, clock
<1>9. stage' = "checkup" => stage = "checkup"
  BY DEF Hurting, HurtItself, Strike, Recoil, Check
<1>10. stage' = "checkup" => \A p \in Players : \A x \in Cards : subject'[p] = x => Known(p, x)'
  <2> SUFFICES ASSUME stage' = "checkup", NEW p \in Players, NEW x \in Cards, subject'[p] = x
               PROVE  Known(p, x)'
    OBVIOUS
  <2>1. subject[p] = x
    BY <1>2
  <2>2. x # NoCard
    BY CardsAssumption
  <2>3. Known(p, x)
    BY <1>9, <2>1, <2>2 DEF Examined
  <2>4. QED BY <2>3, HurtingBoard
<1>11. stage' = "recoil" => active'[current'] # NoCard
  <2> SUFFICES ASSUME stage' = "recoil" PROVE active'[current'] # NoCard
    OBVIOUS
  <2>1. Strike /\ active[current] # NoCard /\ current' = current /\ current \in Players
    BY DEF Hurting, HurtItself, Strike, Recoil, Check, MayAttack, OtherTypes, clock
  <2>2. CASE Unhurt
    BY <2>1, <2>2 DEF Unhurt
  <2>3. CASE ~Unhurt
    <3>1. PICK p \in Players, m \in Cards, n \in Nat : Damage(p, m, n) /\ p # current
      BY <2>1, <2>3, HurtingStep DEF Hurts
    <3>2. active' = active \/ active' = [active EXCEPT ![p] = NoCard]
      BY <3>1 DEF Damage, KnockOut, zones
    <3>3. QED BY <2>1, <3>1, <3>2 DEF BoardInv, ZoneTypes
  <2>4. QED BY <2>2, <2>3
<1>12. Examined'
  <2>1. \A p \in Players : subject'[p] # NoCard => subject'[p] \in Cards
    BY <1>7 DEF OtherTypes
  <2>2. QED BY <1>10, <1>11, <2>1 DEF Examined, Known, InPlay
<1>13. QED BY <1>7, <1>8, <1>12

LEMMA GameStep == GameInv /\ [Next]_vars => GameInv'
  BY NextSteps, QuietBoard, QuietRest, MovingBoard, MovingRest, HurtingBoard, HurtingRest DEF GameInv

THEOREM GameInvariant == Spec => []GameInv
<1>1. Init => GameInv
  BY InitBoard DEF GameInv
<1>2. QED BY <1>1, GameStep, PTL DEF Spec

(* Every variable has its type, prizes_remaining stays between 0 and 6, and no path    *)
(* puts more Pokemon on a Bench than the rules allow.                                 *)
THEOREM TypesHold == Spec => []TypeOK
<1>1. GameInv => TypeOK
  <2> SUFFICES ASSUME GameInv PROVE TypeOK
    OBVIOUS
  <2>1. Len(checks) \in 0..8
    <3>1. checks \in Seq(Players \X Kinds) /\ Len(checks) <= 8
      BY DEF GameInv, OtherTypes
    <3>2. Len(checks) \in Nat
      BY <3>1
    <3>3. \A n \in Nat : n <= 8 => n \in 0..8
      OBVIOUS
    <3>4. QED BY <3>1, <3>2, <3>3, Zenon
  <2>2. ZoneTypes /\ hp \in [Cards -> Int] /\ BenchLimit
        /\ prizesLeft \in [Players -> 0..PrizeCount] /\ turn \in 0..MaxTurns
    BY DEF GameInv, BoardInv, Vital, Tally, Clock
  <2>3. OtherTypes
    BY DEF GameInv
  <2> HIDE DEF GameInv
  <2>4. QED BY <2>1, <2>2, <2>3 DEF ZoneTypes, BenchLimit, OtherTypes, TypeOK
<1>2. QED BY <1>1, GameInvariant, PTL

(* Whatever hurts a Pokemon, and however often, the one left in play has hit points.  *)
THEOREM AliveInPlay == Spec => []InPlayAlive
<1>1. GameInv => InPlayAlive
  BY DEF GameInv, BoardInv, Vital, Placing, Owned, Held, InPlayAlive
<1>2. QED BY <1>1, GameInvariant, PTL

(* No transition duplicates a card: the removal from one list and the append to the   *)
(* next are both there, for decks of any size.                                        *)
THEOREM CardsInOnePlace == Spec => []OnePlace
<1>1. GameInv => OnePlace
  <2> SUFFICES ASSUME GameInv, NEW p \in Players
               PROVE  LET held == <<deck[p], hand[p], prizes[p], bench[p], {active[p]} \ {NoCard},
                                    UNION {attached[m] : m \in InPlay(p)}>>
                      IN  /\ \A i, j \in 1..6 : i # j => held[i] \cap held[j] = {}
                          /\ \A i \in 1..6 : \A c \in held[i] : c \in Decks[p] /\ discard[c] = 0
    BY DEF OnePlace
  <2> DEFINE under == UNION {attached[m] : m \in InPlay(p)}
             spot == {active[p]} \ {NoCard}
  <2>1. Apart(p) /\ Owned(p) /\ Attachments(p)
    BY DEF GameInv, BoardInv, Placing
  <2>2. \A e \in under : e \in Decks[p] /\ e \notin Held(p) /\ discard[e] = 0
    BY <2>1 DEF Attachments, Owned, Held
  <2>3. /\ \A c \in deck[p] \cup hand[p] \cup prizes[p] \cup bench[p] \cup spot :
             c \in Decks[p] /\ discard[c] = 0 /\ c \notin under
        /\ spot \cap (deck[p] \cup hand[p] \cup prizes[p] \cup bench[p]) = {}
    BY <2>1, <2>2 DEF Apart, Owned, Held, InPlay
  <2> HIDE DEF under, spot
  <2> DEFINE held == <<deck[p], hand[p], prizes[p], bench[p], spot, under>>
  <2>4. /\ held[1] = deck[p] /\ held[2] = hand[p] /\ held[3] = prizes[p]
        /\ held[4] = bench[p] /\ held[5] = spot /\ held[6] = under
    OBVIOUS
  <2> HIDE DEF held
  <2>5. \A i \in 1..6 : i = 1 \/ i = 2 \/ i = 3 \/ i = 4 \/ i = 5 \/ i = 6
    OBVIOUS
  <2>6. \A i, j \in 1..6 : i # j => held[i] \cap held[j] = {}
    <3>1. \A i \in 1..5 : held[i] \cap held[6] = {}
      BY <2>3, <2>4
    <3>2. \A i \in 1..4 : held[i] \cap held[5] = {}
      BY <2>3, <2>4
    <3>3. \A i, j \in 1..4 : i # j => held[i] \cap held[j] = {}
      BY <2>1, <2>4 DEF Apart
    <3>4. QED BY <2>5, <3>1, <3>2, <3>3
  <2>7. \A i \in 1..6 : \A c \in held[i] : c \in Decks[p] /\ discard[c] = 0
    BY <2>2, <2>3, <2>4, <2>5
  <2>8. QED BY <2>6, <2>7 DEF held, under, spot
<1>2. QED BY <1>1, GameInvariant, PTL

(* The winner.  Once a game is decided the zones the result speaks of change no more,  *)
(* except that the winner, and never the loser without a Bench, may still promote.     *)
LEMMA WinnerKept ==
  ASSUME GameInv, Decided, WinnerEarned, winner # "none", [Next]_vars
  PROVE  WinnerEarned'
<1> USE DEF GameInv
<1>1. UNCHANGED <<result, prizes>> /\ stage \in {"promote", "over"}
  BY StepDecided DEF Decided
<1>2. /\ UNCHANGED <<deck, current, turn>>
      /\ \/ UNCHANGED <<active, bench>>
         \/ \E p \in Players : Promote(p)
  BY <1>1 DEF Next, Setup, CheckHands, Redraw, Place, SetPrizes, TurnLimit, DeckOut, Draw, Main,
              MainAction, PlayBasic, AttachEnergy, Retreat, Refuse, Pass, EndTurnEarly, Valve,
              Attack, HurtItself, Strike, Recoil, Afflict, Decline, RefuseAttack,
              Aftermath, AfterAttack, Check, EndCheckup, EndTurn, Promote, Over,
              vars, board, zones, clock
<1>3. how = "no_bench" => InPlay(Opponent(winner))' = {}
  <2> SUFFICES ASSUME how = "no_bench" PROVE InPlay(Opponent(winner))' = {}
    OBVIOUS
  <2>1. bench[Opponent(winner)] = {} /\ InPlay(Opponent(winner)) = {}
    BY DEF WinnerEarned, InPlay
  <2>2. CASE UNCHANGED <<active, bench>>
    BY <1>1, <2>1, <2>2 DEF InPlay, result
  <2>3. CASE \E p \in Players : Promote(p)
    <3>1. PICK p \in Players : Promote(p)
      BY <2>3
    <3>2. p # Opponent(winner)
      BY <2>1, <3>1 DEF Promote, Vacant
    <3>3. /\ winner' = winner /\ Opponent(winner) \in Players
          /\ active'[Opponent(winner)] = active[Opponent(winner)]
          /\ bench'[Opponent(winner)] = bench[Opponent(winner)]
      <4>1. winner \in Players
        BY DEF OtherTypes
      <4>2. QED BY <1>1, <3>1, <3>2, <4>1, Players2 DEF Promote, BoardInv, ZoneTypes, result
    <3>4. QED BY <2>1, <3>3 DEF InPlay
  <2>4. QED BY <1>2, <2>2, <2>3
<1>4. QED BY <1>1, <1>2, <1>3 DEF WinnerEarned, result

LEMMA WinnerMade ==
  ASSUME GameInv, GameInv', Decided, WinnerEarned, winner = "none", [Next]_vars
  PROVE  WinnerEarned'
<1> USE DEF GameInv
<1>1. how = "none"
  BY DEF WinnerEarned
<1>2. CASE UNCHANGED result
  BY <1>1, <1>2 DEF WinnerEarned, result
<1>3. CASE TurnLimit
  BY <1>3 DEF TurnLimit, Win, WinnerEarned, Players, clock
<1>4. CASE DeckOut
  <2>1. current \in Players /\ Opponent(current) \in Players /\ Opponent(current) # "none"
    BY Players2 DEF OtherTypes, Players
  <2>2. QED BY <1>4, <2>1 DEF DeckOut, Win, WinnerEarned, clock, board, zones
<1>5. CASE Hurting /\ ~UNCHANGED result
  <2>1. PICK p \in Players, m \in Cards, n \in Nat : Damage(p, m, n)
    BY <1>5, HurtingStep DEF Unhurt, Hurts, result
  <2>2. Opponent(p) \in Players /\ Opponent(p) # "none" /\ Opponent(Opponent(p)) = p
    BY Players2 DEF Players
  <2>3. CASE Win(Opponent(p), "prizes") /\ prizesLeft'[Opponent(p)] = 0
    <3>1. turn' # 0
      BY <1>5 DEF Hurting, HurtItself, Strike, Recoil, Check, Clock, SetupStages, clock
    <3>2. prizes'[Opponent(p)] \subseteq Cards /\ Cardinality(prizes'[Opponent(p)]) = 0
      BY <2>2, <2>3, <3>1 DEF Tally, BoardInv, ZoneTypes
    <3>3. prizes'[Opponent(p)] = {}
      BY <3>2, FiniteZones, FS_EmptySet, Zenon
    <3>4. QED BY <2>2, <2>3, <3>3 DEF Win, WinnerEarned
  <2>4. CASE Win(Opponent(p), "no_bench") /\ active'[p] = NoCard /\ bench'[p] = {}
    BY <2>2, <2>4 DEF Win, WinnerEarned, InPlay
  <2>5. QED BY <1>5, <2>1, <2>3, <2>4, ResultAfterDamage
<1>6. CASE Setup \/ Draw \/ Main \/ Afflict \/ Decline \/ RefuseAttack \/ EndCheckup \/ EndTurn
  BY <1>2, <1>6, QuietActions
<1>7. CASE Over \/ AfterAttack \/ (\E p \in Players : Promote(p)) \/ UNCHANGED vars
  BY <1>2, <1>7 DEF Over, AfterAttack, Promote, vars, result
<1>8. QED BY <1>2, <1>3, <1>4, <1>5, <1>6, <1>7 DEF Next, Attack, Aftermath, Hurting

(* Whoever is recorded as the winner has won in the way recorded, to the end: the      *)
(* prize cards are really gone when prizes_remaining says so, and an opponent without  *)
(* a Bench has nobody to promote after the game was decided.                           *)
THEOREM WinnerRight == Spec => []WinnerEarned
<1>1. Init => WinnerEarned
  BY DEF Init, WinnerEarned
<1>2. Spec => []Decided
  <2>1. Decided /\ [Next]_vars => Decided'
    BY StepDecided
  <2>2. QED BY InitDecided, <2>1, PTL DEF Spec
<1>3. WinnerEarned /\ GameInv /\ GameInv' /\ Decided /\ [Next]_vars => WinnerEarned'
  BY WinnerKept, WinnerMade
<1>4. QED BY <1>1, <1>2, <1>3, GameInvariant, PTL DEF Spec

-----------------------------------------------------------------------------
(* Prizes.  There are always enough cards left for them to be laid out: a mulligan     *)
(* round takes at most one card from a deck that is not redrawn.                       *)
PileInv ==
    /\ owed # {} => stage = "mulligan" /\ redraws > 0
    /\ stage = "mulligan" => \A p \in Players : deck[p] \cup hand[p] = Decks[p]
    /\ turn = 0 => \A p \in Players :
          Cardinality(deck[p]) + HandSize + redraws
             >= Cardinality(Decks[p]) + (IF Opponent(p) \in owed THEN 1 ELSE 0)

PaidInv ==
    /\ turn = 0 => \A p \in Players : prizesLeft[p] = PrizeCount
    /\ turn = 0 => \A c \in Cards : discard[c] = 0
    /\ \A p \in Players :
          prizesLeft[Opponent(p)] = PrizeCount - Smaller(PrizeCount, Due(p, discard))

(* What the cards of p have cost.                                                      *)
Cost(p, times) == [c \in Decks[p] |-> Worth(c) * times[c]]

LEMMA DueIsTotal == ASSUME NEW p, NEW times PROVE Due(p, times) = Total(Cost(p, times), Decks[p])
  BY Zenon DEF Due, Total, Cost

LEMMA WorthNat == ASSUME NEW c PROVE Worth(c) \in Nat
  BY CardsAssumption DEF Worth

LEMMA NothingDue ==
  ASSUME NEW p \in Players, NEW times, \A c \in Cards : times[c] = 0
  PROVE  Due(p, times) = 0
<1>1. \A c \in Decks[p] : Cost(p, times)[c] \in 0..0
  BY WorthNat, DecksApart DEF Cost
<1>2. IsFiniteSet(Decks[p]) /\ Cardinality(Decks[p]) \in Nat
  BY DecksApart, FiniteZones
<1>3. Total(Cost(p, times), Decks[p]) \in 0..(Cardinality(Decks[p]) * 0)
  BY <1>1, <1>2, TotalBounds
<1> QED BY <1>2, <1>3, DueIsTotal

(* A knock-out is one more payment for one card.                                       *)
LEMMA OneMoreDue ==
  ASSUME NEW p \in Players, NEW m \in Cards, NEW d \in [Cards -> Nat], NEW e,
         \A c \in Cards : e[c] = IF c = m THEN d[c] + 1 ELSE d[c]
  PROVE  /\ Due(p, d) \in Int
         /\ Due(p, e) = Due(p, d) + (IF m \in Decks[p] THEN Worth(m) ELSE 0)
<1>1. Decks[p] \subseteq Cards /\ IsFiniteSet(Decks[p])
  BY DecksApart, FiniteZones
<1>2. \A c \in Decks[p] : d[c] \in Nat /\ Worth(c) \in Nat
  BY <1>1, WorthNat
<1>3. /\ \A c \in Decks[p] : Cost(p, d)[c] = Worth(c) * d[c]
      /\ \A c \in Decks[p] : Cost(p, e)[c] = Worth(c) * e[c]
  BY DEF Cost
<1>4. \A c \in Decks[p] : Cost(p, d)[c] \in Int /\ Cost(p, e)[c] \in Int
  BY <1>1, <1>2, <1>3
<1>5. \A c \in Decks[p] \ {m} : Cost(p, e)[c] = Cost(p, d)[c]
  BY <1>1, <1>3
<1>6. m \in Decks[p] => Cost(p, e)[m] - Cost(p, d)[m] = Worth(m)
  BY <1>2, <1>3
<1>7. /\ Total(Cost(p, d), Decks[p]) \in Int
      /\ Total(Cost(p, e), Decks[p]) = Total(Cost(p, d), Decks[p]) +
            (IF m \in Decks[p] THEN Cost(p, e)[m] - Cost(p, d)[m] ELSE 0)
  <2> DEFINE f == Cost(p, d)
             g == Cost(p, e)
             S == Decks[p]
  <2>1. Differ(f, g, S, m)
    BY <1>1, <1>4, <1>5 DEF Differ
  <2> HIDE DEF f, g, S
  <2>2. /\ Total(f, S) \in Int
        /\ Total(g, S) = Total(f, S) + (IF m \in S THEN g[m] - f[m] ELSE 0)
    BY ONLY <2>1, TotalChange
  <2> QED BY <2>2 DEF f, g, S
<1> QED BY <1>6, <1>7, DueIsTotal

LEMMA PaidStays ==
  ASSUME PaidInv, UNCHANGED <<discard, prizesLeft>>, turn' = 0 => turn = 0
  PROVE  PaidInv'
  BY DEF PaidInv

LEMMA InitPaid == Init => PileInv /\ PaidInv
<1> SUFFICES ASSUME Init PROVE PileInv /\ PaidInv
  OBVIOUS
<1>1. PICK h1 \in Top(HandSize, Decks["p1"]), h2 \in Top(HandSize, Decks["p2"]) :
        /\ hand = [p \in Players |-> IF p = "p1" THEN h1 ELSE h2]
        /\ deck = [p \in Players |-> Decks[p] \ hand[p]]
  BY DEF Init
<1>2. ASSUME NEW p \in Players
      PROVE  /\ deck[p] \cup hand[p] = Decks[p]
             /\ Cardinality(deck[p]) + HandSize >= Cardinality(Decks[p])
  <2>1. hand[p] \in Top(HandSize, Decks[p]) /\ deck[p] = Decks[p] \ hand[p]
    BY <1>1 DEF Players
  <2>2. hand[p] \subseteq Decks[p] /\ Decks[p] \subseteq Cards
    BY <2>1, TopIn, DecksApart
  <2>3. Cardinality(Decks[p] \ hand[p]) + HandSize >= Cardinality(Decks[p])
    BY <2>1, <2>2, TopLeaves, RulesAssumption
  <2> QED BY <2>1, <2>2, <2>3
<1>3. owed = {} /\ redraws = 0 /\ turn = 0 /\ HandSize \in Nat /\ PrizeCount \in Nat
  BY RulesAssumption DEF Init
<1>4. PileInv
  <2>1. \A p \in Players : Cardinality(deck[p]) \in Nat /\ Cardinality(Decks[p]) \in Nat
    BY <1>1, DecksApart, FiniteZones
  <2> QED BY <1>2, <1>3, <2>1 DEF PileInv
<1>5. PaidInv
  <2>1. /\ \A p \in Players : prizesLeft[p] = PrizeCount
        /\ \A c \in Cards : discard[c] = 0
    BY DEF Init
  <2> QED BY <1>3, <2>1, NothingDue, Players2 DEF PaidInv, Smaller
<1> QED BY <1>4, <1>5

LEMMA PileMulligan ==
  ASSUME GameInv, PileInv, NEW p \in Players, Redraw(p)
  PROVE  PileInv'
<1> DEFINE q == Opponent(p)
           pool == deck[p] \cup hand[p]
<1>1. PICK bonus \in Top(1, deck[q]), new \in Top(HandSize, pool) :
        /\ hand' = [hand EXCEPT ![p] = new, ![q] = @ \cup bonus]
        /\ deck' = [deck EXCEPT ![p] = pool \ new, ![q] = @ \ bonus]
  BY DEF Redraw
<1>2. /\ owed' = owed \ {p} /\ p \in owed /\ UNCHANGED <<stage, turn, redraws>>
      /\ stage = "mulligan"
  BY DEF Redraw, clock
<1>3. p # q /\ q \in Players /\ Opponent(q) = p /\ \A r \in Players : r = p \/ r = q
  BY Players2
<1>4. pool = Decks[p] /\ deck[q] \cup hand[q] = Decks[q]
  BY <1>2, <1>3 DEF PileInv
<1>5. turn = 0 /\ redraws \in Nat /\ redraws > 0 /\ HandSize \in Nat
  BY <1>2, RulesAssumption DEF PileInv, GameInv, OtherTypes, Clock, SetupStages
<1> HIDE DEF q, pool
<1>6. /\ hand'[p] = new /\ deck'[p] = pool \ new
      /\ hand'[q] = hand[q] \cup bonus /\ deck'[q] = deck[q] \ bonus
  BY <1>1, <1>3 DEF GameInv, BoardInv, ZoneTypes
<1>7. /\ new \subseteq pool /\ bonus \subseteq deck[q]
      /\ pool \subseteq Cards /\ deck[q] \subseteq Cards
  BY <1>1, <1>3, <1>4, TopIn, DecksApart DEF GameInv, BoardInv, ZoneTypes
<1>8. /\ Cardinality(deck'[p]) + HandSize >= Cardinality(Decks[p])
      /\ Cardinality(deck'[q]) + 1 >= Cardinality(deck[q])
  <2>1. Cardinality(pool \ new) + HandSize >= Cardinality(pool)
    BY <1>1, <1>5, <1>7, TopLeaves
  <2>2. bonus \in Top(1, deck[q])
    BY <1>1
  <2>3. Cardinality(deck[q] \ bonus) + 1 >= Cardinality(deck[q])
    BY <1>7, <2>2, TopLeaves
  <2> QED BY <1>4, <1>6, <2>1, <2>3
<1>9. /\ Cardinality(deck'[p]) \in Nat /\ Cardinality(deck'[q]) \in Nat
      /\ Cardinality(deck[q]) \in Nat
      /\ Cardinality(Decks[p]) \in Nat /\ Cardinality(Decks[q]) \in Nat
  <2>1. deck'[p] \subseteq Cards /\ deck'[q] \subseteq Cards
    BY <1>6, <1>7
  <2> QED BY <1>3, <1>7, <2>1, FiniteZones, DecksApart
<1>10. Cardinality(deck'[p]) + HandSize + redraws >= Cardinality(Decks[p]) + 1
  BY <1>5, <1>8, <1>9
<1>11. Cardinality(deck'[q]) + HandSize + redraws >= Cardinality(Decks[q])
  <2>1. Cardinality(deck[q]) + HandSize + redraws >= Cardinality(Decks[q]) + 1
    BY <1>2, <1>3, <1>5 DEF PileInv
  <2> QED BY <1>5, <1>8, <1>9, <2>1
<1>12. \A r \in Players :
          Cardinality(deck'[r]) + HandSize + redraws
             >= Cardinality(Decks[r]) + (IF Opponent(r) \in owed' THEN 1 ELSE 0)
  <2>1. q = Opponent(p)
    BY DEF q
  <2>2. ASSUME NEW r \in Players
        PROVE  Cardinality(deck'[r]) + HandSize + redraws
                  >= Cardinality(Decks[r]) + (IF Opponent(r) \in owed' THEN 1 ELSE 0)
    <3>1. CASE r = p
      BY <1>5, <1>9, <1>10, <3>1
    <3>2. CASE r = q
      BY <1>2, <1>3, <1>5, <1>9, <1>11, <3>2
    <3> QED BY <1>3, <3>1, <3>2
  <2> QED BY <2>2
<1>13. \A r \in Players : deck'[r] \cup hand'[r] = Decks[r]
  BY <1>3, <1>4, <1>6, <1>7
<1> QED BY <1>2, <1>5, <1>12, <1>13 DEF PileInv

LEMMA StepPile == GameInv /\ PileInv /\ [Next]_vars => PileInv'
<1> SUFFICES ASSUME GameInv, PileInv, [Next]_vars PROVE PileInv'
  OBVIOUS
<1>0. /\ turn \in Nat /\ (stage \in SetupStages <=> turn = 0)
      /\ turn' \in Nat /\ (stage' \in SetupStages <=> turn' = 0)
      /\ redraws \in 0..MaxRedraws /\ MaxRedraws \in Nat /\ HandSize \in Nat
      /\ \A p \in Players : Cardinality(deck[p]) \in Nat /\ Cardinality(Decks[p]) \in Nat
  <2>1. GameInv'
    BY GameStep
  <2>2. \A p \in Players : Cardinality(deck[p]) \in Nat /\ Cardinality(Decks[p]) \in Nat
    BY FiniteZones, DecksApart DEF GameInv, BoardInv, ZoneTypes
  <2>3. Clock /\ Clock' /\ OtherTypes
    BY <2>1 DEF GameInv
  <2> QED BY <2>2, <2>3, RulesAssumption DEF Clock, OtherTypes
<1>1. CASE turn' # 0
  <2>1. owed' = {}
    <3>1. CASE turn = 0
      <4>1. SetPrizes
        BY <1>0, <1>1, <3>1 DEF Next, Setup, CheckHands, Redraw, Place, TurnLimit, DeckOut, Draw,
           Main, MainAction, PlayBasic, AttachEnergy, Retreat, Refuse, Pass, EndTurnEarly, Valve,
           Attack, HurtItself, Strike, Recoil, Afflict, Decline, RefuseAttack,
           Aftermath, AfterAttack, Check, EndCheckup, EndTurn, Promote, Over,
           vars, board, zones, clock, SetupStages
      <4> QED BY <4>1 DEF SetPrizes, mulligan, PileInv
    <3>2. CASE turn # 0
      <4>1. stage # "mulligan" /\ stage \notin {"place1", "place2", "prizes"}
        BY <1>0, <3>2 DEF SetupStages
      <4>2. UNCHANGED owed
        BY <4>1 DEF Next, Setup, CheckHands, Redraw, Place, SetPrizes, TurnLimit, DeckOut, Draw,
           Main, MainAction, PlayBasic, AttachEnergy, Retreat, Refuse, Pass, EndTurnEarly, Valve,
           Attack, HurtItself, Strike, Recoil, Afflict, Decline, RefuseAttack,
           Aftermath, AfterAttack, Check, EndCheckup, EndTurn, Promote, Over,
           vars, mulligan
      <4> QED BY <4>1, <4>2 DEF PileInv
    <3> QED BY <3>1, <3>2
  <2> QED BY <1>0, <1>1, <2>1 DEF PileInv, SetupStages
<1>2. CASE turn' = 0 /\ \E p \in Players : Redraw(p)
  BY <1>2, PileMulligan
<1>3. CASE turn' = 0 /\ CheckHands
  <2>1. UNCHANGED <<deck, hand, turn>> /\ stage = "mulligan" /\ owed = {}
    BY <1>3 DEF CheckHands, board, zones, clock
  <2>2. \/ stage' = "place1" /\ UNCHANGED <<owed, redraws>>
        \/ stage' = "mulligan" /\ redraws' = redraws + 1
    BY <1>3, <2>1 DEF CheckHands, mulligan
  <2> QED BY <1>0, <1>3, <2>1, <2>2 DEF PileInv
<1>4. CASE turn' = 0 /\ ~CheckHands /\ ~\E p \in Players : Redraw(p)
  <2>1. /\ UNCHANGED <<deck, owed, redraws, turn>>
        /\ \/ stage # "mulligan" /\ stage' # "mulligan"
           \/ UNCHANGED <<stage, hand>>
    <3>1. stage' \in SetupStages /\ stage' # "draw"
      BY <1>0, <1>4 DEF SetupStages
    <3>2. \/ \E p \in Players : Place(p)
          \/ UNCHANGED vars
          \/ turn # 0
      BY <1>0, <1>4, <3>1 DEF Next, Setup, SetPrizes, TurnLimit, DeckOut, Draw,
         Main, MainAction, PlayBasic, AttachEnergy, Retreat, Refuse, Pass, EndTurnEarly, Valve,
         Attack, HurtItself, Strike, Recoil, Afflict, Decline, RefuseAttack,
         Aftermath, AfterAttack, Check, EndCheckup, EndTurn, Promote, Over, SetupStages
    <3>3. turn = 0
      <4>1. turn' \in {turn, turn + 1} \/ turn' = 1
        BY DEF Next, Setup, CheckHands, Redraw, Place, SetPrizes, TurnLimit, DeckOut, Draw,
           Main, MainAction, PlayBasic, AttachEnergy, Retreat, Refuse, Pass, EndTurnEarly, Valve,
           Attack, HurtItself, Strike, Recoil, Afflict, Decline, RefuseAttack,
           Aftermath, AfterAttack, Check, EndCheckup, EndTurn, Promote, Over,
           vars, clock
      <4> QED BY <1>0, <1>4, <4>1
    <3> QED BY <3>2, <3>3 DEF Place, mulligan, clock, vars, board, zones
  <2> QED BY <1>4, <2>1 DEF PileInv
<1> QED BY <1>1, <1>2, <1>3, <1>4

(* The prizes laid out are all of them.                                                *)
LEMMA PaidSetPrizes ==
  ASSUME GameInv, PileInv, PaidInv, SetPrizes
  PROVE  PaidInv'
<1>1. PICK z1 \in Top(PrizeCount, deck["p1"]), z2 \in Top(PrizeCount, deck["p2"]) :
        /\ prizes' = [p \in Players |-> IF p = "p1" THEN z1 ELSE z2]
        /\ prizesLeft' = [p \in Players |-> Cardinality(prizes'[p])]
  BY DEF SetPrizes
<1>2. UNCHANGED discard /\ turn = 0 /\ turn' = 1
  BY DEF SetPrizes, GameInv, Clock, SetupStages
<1>3. ASSUME NEW p \in Players PROVE prizesLeft'[p] = PrizeCount
  <2>1. prizes'[p] \in Top(PrizeCount, deck[p])
    BY <1>1 DEF Players
  <2>2. deck[p] \subseteq Cards /\ Cardinality(deck[p]) \in Nat /\ Cardinality(Decks[p]) \in Nat
    BY FiniteZones, DecksApart DEF GameInv, BoardInv, ZoneTypes
  <2>3. Cardinality(deck[p]) >= PrizeCount
    <3>1. /\ Cardinality(deck[p]) + HandSize + redraws >= Cardinality(Decks[p])
          /\ redraws \in 0..MaxRedraws
      BY <1>2, <2>2, RulesAssumption DEF PileInv, GameInv, OtherTypes
    <3> QED BY <2>2, <3>1, RulesAssumption
  <2>4. Cardinality(prizes'[p]) = Smaller(PrizeCount, Cardinality(deck[p]))
    BY <2>1, <2>2, TopLeaves, RulesAssumption
  <2> QED BY <1>1, <2>2, <2>3, <2>4, RulesAssumption DEF Smaller
<1>4. \A p \in Players : Due(p, discard') = 0
  BY <1>2, NothingDue DEF PaidInv
<1> QED BY <1>2, <1>3, <1>4, Players2, RulesAssumption DEF PaidInv, Smaller

(* The prizes taken are what the knock-out is worth, as long as there are any.         *)
LEMMA PaidKnockOut ==
  ASSUME GameInv, PaidInv, turn # 0, turn' = turn, NEW p \in Players, NEW m \in Cards,
         Known(p, m), KnockOut(p, m)
  PROVE  PaidInv'
<1> DEFINE q == Opponent(p)
<1>1. p # q /\ q \in Players /\ Opponent(q) = p /\ \A r \in Players : r = p \/ r = q
  BY Players2
<1>2. m \in Decks[p] /\ m \notin Decks[q]
  BY DecksApart DEF Known
<1>3. PICK taken \in Top(Worth(m), prizes[q]) :
         prizesLeft' = [prizesLeft EXCEPT ![q] = @ - Cardinality(taken)]
  BY DEF KnockOut
<1>4. /\ prizesLeft[q] = Cardinality(prizes[q]) /\ prizesLeft[q] \in 0..PrizeCount
      /\ PrizeCount \in Nat /\ prizes[q] \subseteq Cards /\ Worth(m) \in Nat
      /\ prizesLeft \in [Players -> 0..PrizeCount]
  BY <1>1, RulesAssumption, WorthNat DEF GameInv, Tally, BoardInv, ZoneTypes
<1>5. Cardinality(taken) = Smaller(Worth(m), prizesLeft[q])
  BY <1>4, TopLeaves
<1> HIDE DEF q
<1>6. prizesLeft'[q] = prizesLeft[q] - Smaller(Worth(m), prizesLeft[q])
      /\ prizesLeft'[p] = prizesLeft[p]
  BY <1>1, <1>3, <1>4, <1>5
<1>7. \A c \in Cards : discard'[c] = IF c = m THEN discard[c] + 1 ELSE discard[c]
  <2>1. discard' = [Discarded(attached[m], deck[p] \cup hand[p]) EXCEPT ![m] = @ + 1]
    BY DEF KnockOut
  <2>2. attached[m] \cap (deck[p] \cup hand[p]) = {}
    BY <1>2 DEF GameInv, BoardInv, Placing, Attachments, Held
  <2> QED BY <2>1, <2>2, Discards DEF GameInv, BoardInv
<1>8. discard \in [Cards -> Nat]
  BY DEF GameInv, BoardInv, ZoneTypes
<1>9. /\ Due(p, discard) \in Int
      /\ Due(p, discard') = Due(p, discard) + Worth(m)
      /\ Due(q, discard) \in Int /\ Due(q, discard') = Due(q, discard)
  BY <1>1, <1>2, <1>7, <1>8, OneMoreDue
<1>10. /\ prizesLeft[q] = PrizeCount - Smaller(PrizeCount, Due(p, discard))
       /\ prizesLeft[p] = PrizeCount - Smaller(PrizeCount, Due(q, discard))
  <2>1. q = Opponent(p)
    BY DEF q
  <2> QED BY <1>1, <2>1 DEF PaidInv
<1>11. prizesLeft'[q] = PrizeCount - Smaller(PrizeCount, Due(p, discard'))
  BY <1>4, <1>6, <1>9, <1>10 DEF Smaller
<1>12. prizesLeft'[p] = PrizeCount - Smaller(PrizeCount, Due(q, discard'))
  BY <1>6, <1>9, <1>10
<1>13. \A r \in Players :
          prizesLeft'[Opponent(r)] = PrizeCount - Smaller(PrizeCount, Due(r, discard'))
  <2>1. q = Opponent(p)
    BY DEF q
  <2> QED BY <1>1, <1>11, <1>12, <2>1
<1> QED BY <1>13 DEF PaidInv

LEMMA StepPaid == GameInv /\ PileInv /\ PaidInv /\ [Next]_vars => PaidInv'
<1> SUFFICES ASSUME GameInv, PileInv, PaidInv, [Next]_vars PROVE PaidInv'
  OBVIOUS
<1>1. CASE Quiet
  BY <1>1, QuietFrame, PaidStays DEF GameInv
<1>2. CASE Moving
  <2>1. CASE SetPrizes
    BY <2>1, PaidSetPrizes
  <2>2. CASE Draw \/ PlayBasic \/ AttachEnergy \/ \E p \in Players : Redraw(p) \/ Place(p) \/ Promote(p)
    <3>1. UNCHANGED <<discard, prizesLeft, turn>>
      BY <2>2 DEF Draw, PlayBasic, AttachEnergy, Redraw, Place, Promote, clock
    <3> QED BY <3>1, PaidStays
  <2>3. CASE Retreat
    <3>1. UNCHANGED <<prizesLeft, turn>> /\ UNCHANGED discard
      BY <2>3, RetreatBoard DEF Retreat, clock, GameInv, OtherTypes
    <3> QED BY <3>1, PaidStays
  <2> QED BY <1>2, <2>1, <2>2, <2>3 DEF Moving
<1>3. CASE Hurting
  <2>1. CASE Unhurt
    BY <2>1, PaidStays DEF Unhurt
  <2>2. CASE \E p \in Players, m \in Cards, n \in Nat : Hurts(p, m, n)
    <3>1. PICK p \in Players, m \in Cards, n \in Nat : Hurts(p, m, n)
      BY <2>2
    <3>2. turn # 0 /\ turn' = turn
      BY <1>3, <3>1 DEF Hurts, Hurting, HurtItself, Strike, Recoil, Check, GameInv, Clock, SetupStages
    <3>3. KnockOut(p, m) \/ UNCHANGED <<discard, prizesLeft>>
      BY <3>1 DEF Hurts, Damage, zones
    <3>4. CASE KnockOut(p, m)
      BY <3>1, <3>2, <3>4, PaidKnockOut DEF Hurts
    <3>5. CASE UNCHANGED <<discard, prizesLeft>>
      BY <3>2, <3>5, PaidStays
    <3> QED BY <3>3, <3>4, <3>5
  <2> QED BY <1>3, <2>1, <2>2, HurtingStep
<1> QED BY <1>1, <1>2, <1>3, NextSteps

(* prizes_remaining is what the opponent's knock-outs leave, for Pokemon worth any     *)
(* number of prizes and knocked out any number of times, and from the moment they are  *)
(* laid out it is the number of prize cards.                                           *)
THEOREM PrizesPaid == Spec => []PrizesPaidFor
<1>1. GameInv /\ PaidInv => PrizesPaidFor
  <2> SUFFICES ASSUME GameInv, PaidInv, NEW p \in Players
               PROVE  /\ prizesLeft[Opponent(p)] = PrizeCount - Smaller(PrizeCount, Due(p, discard))
                      /\ turn > 0 => prizesLeft[Opponent(p)] = Cardinality(prizes[Opponent(p)])
    BY DEF PrizesPaidFor
  <2> QED BY Players2 DEF PaidInv, GameInv, Tally
<1>2. GameInv /\ PileInv /\ PaidInv /\ [Next]_vars => PileInv' /\ PaidInv'
  BY StepPile, StepPaid
<1> QED BY InitPaid, <1>1, <1>2, GameInvariant, PTL DEF Spec
=============================================================================
