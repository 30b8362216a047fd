---------------------------- MODULE EffectShapes ----------------------------
(***************************************************************************)
(* What can be read off the text of a handler, and is enough for a promise *)
(* of EffectScript: which operations it is made of, and in which order.    *)
(* A script of a shape keeps the promise on every board, however large the *)
(* Benches are and whatever a knock-out is worth.                          *)
(***************************************************************************)
EXTENDS EffectScript

(* The blocks of a script: itself, and the bodies of its operations at any     *)
(* depth.  Handlers nest four deep; Orderly says that none was missed.         *)
Bodies(o) ==
    IF o.op \in {"If", "IfSame"} THEN {o.then, o.else}
    ELSE IF o.op \in {"While", "Each", "Do"} THEN {o.body} ELSE {}

WithBodies(B) == B \cup UNION {UNION {Bodies(o) : o \in Range(b)} : b \in B}
Blocks(sc) == WithBodies(WithBodies(WithBodies(WithBodies({sc}))))
Ops(sc) == UNION {Range(b) : b \in Blocks(sc)}

Controlling == {"If", "IfSame", "While", "Each", "Do", "Quit", "Break", "Continue", "Raise"}
Assigning == {"Clear", "Bind", "Find", "Choose", "Maybe", "Keep", "KeepSome"}
Touching == {"Piles", "Note", "Attach", "Strip", "Inflict", "Cure", "Mark", "Use"}
Sparing == {"Graze", "Heal"}                        \* HP changes that fell nobody
Lowering == {"Hurt", "Fell", "SetHp", "Recount", "Evolve"}
Knocking == {"Blow", "Strike", "Splash", "Check", "Rise", "Fall", "Stadium"}
Shifting == {"Swap", "Recruit"}                     \* by a shared function
Moving == {"Lift", "Seat", "Join", "Leave", "Remove", "Away"}   \* by the handler itself
Awarding == {"Prize", "Win"}

Vocabulary ==
    Controlling \cup Assigning \cup Touching \cup Sparing \cup Lowering \cup Knocking
      \cup Shifting \cup Moving \cup Awarding

(* Only the operations of EffectOps, and the blocks are complete.              *)
Orderly(sc) ==
    /\ WithBodies(Blocks(sc)) \subseteq Blocks(sc)
    /\ \A b \in Blocks(sc) : b \in Seq(Ops(sc))
    /\ \A o \in Ops(sc) :
         /\ o.op \in Vocabulary
         /\ o.op = "While" => o = While(o.cond, o.body)
         /\ o.op = "Each" => o = Each(o.var, o.pool, o.body)
         /\ o.op \in Shifting => o.side \in Sides

(* It leaves the moving of Pokemon to _switch_active_with_bench, to the effects *)
(* that put a card on the Bench, and to check_ko.                              *)
Still(sc) == Orderly(sc) /\ \A o \in Ops(sc) : o.op \notin Moving

(* And it takes HP by the shared functions only, which call check_ko.           *)
Examining(sc) == Still(sc) /\ \A o \in Ops(sc) : o.op \notin Lowering

(* And those it calls for a Pokemon by itself are called for one in an Active    *)
(* Spot.  The attacker's retaliation makes _apply_damage the attacks' own.      *)
Paying(sc) ==
    /\ Still(sc)
    /\ \A o \in Ops(sc) :
         /\ o.op \in {"Splash", "Check", "Rise", "Fall"} => o.ref \in Sides
         /\ o.op = "Strike" => sc \notin Cards

(* It does not name a winner itself.                                           *)
Modest(sc) == Orderly(sc) /\ \A o \in Ops(sc) : o.op # "Win"

-----------------------------------------------------------------------------
(* A handler that looks at the phase: between a step that may end the game and   *)
(* the next one there is "if state.phase == Phase.GAME_OVER: return".            *)
Deciding == Knocking \cup Awarding
Jumping == {"Break", "Continue"}
Halts(o) == o = StopIf(Ended) \/ o = Quit

(* What must not be reached in a game that is over: steps that may end it, jumps *)
(* that could miss the look at the phase, and whatever has one of them inside.   *)
Holding(sc, E) == E \cup {o \in Ops(sc) : \E b \in Bodies(o) : Range(b) \cap E # {}}
Risky(sc) ==
    LET E == {o \in Ops(sc) : o.op \in Deciding \cup Jumping}
    IN  Holding(sc, Holding(sc, Holding(sc, Holding(sc, E))))

(* What may end the game without a look at the phase, given the bodies that do, *)
(* and the blocks in which nothing looks after it.                              *)
Open(o, B) == o.op \in Deciding \/ Bodies(o) \cap B # {}
Opening(sc, B) ==
    B \cup {b \in Blocks(sc) : \E i \in 1 .. Len(b) :
              Open(b[i], B) /\ \A k \in 1 .. Len(b) : i < k => ~Halts(b[k])}
OpenBlocks(sc) ==
    Opening(sc, Opening(sc, Opening(sc, Opening(sc, Opening(sc, {})))))

Heeding(sc) ==
    /\ Orderly(sc)
    /\ Holding(sc, Risky(sc)) = Risky(sc)
    /\ Opening(sc, OpenBlocks(sc)) = OpenBlocks(sc)
    /\ \A o \in Ops(sc) :
         /\ o.op # "Do"
         /\ o.op \in {"While", "Each"} => o.body \notin OpenBlocks(sc)
    /\ \A b \in Blocks(sc) : \A i, j \in 1 .. Len(b) :
         i < j /\ Open(b[i], OpenBlocks(sc)) /\ b[j] \in Risky(sc)
           => \E k \in 1 .. Len(b) : i < k /\ k < j /\ Halts(b[k])

-----------------------------------------------------------------------------
(* A handler that looks before it reads a field of a Pokemon: what a step needs *)
(* was tested, chosen or switched in before it, and no step between the two can  *)
(* have taken it away.  The facts are literals, and that a local holds nobody   *)
(* or a Pokemon of a Bench.                                                    *)
Listing == {"own play", "foe play", "own bench", "foe bench"}
Aboard(v, s) == <<"aboard", v, s>>
Held == {Is(v) : v \in Vars}
Facts == {Is(x) : x \in Sides \cup Vars \cup Listing} \cup {Aboard(v, s) : v \in Vars, s \in Sides}
BenchOf(s) == IF s = "own" THEN "own bench" ELSE "foe bench"

Requires(o) ==
    IF o.op \in {"Swap", "Remove"} THEN {Is(o.ref), Aboard(o.ref, o.side)}
    ELSE IF o.op \in OnPokemon \cup {"Bind"} THEN {Is(o.ref)}
    ELSE IF o.op = "Choose" THEN {Is(o.pool)} ELSE {}

(* The steps after which it may be otherwise, and whatever has one inside.       *)
Spoils(o, f) ==
    \/ o.op \in Deciding \cup {"Lift", "Seat", "Leave", "Remove"} /\ f \notin Held
    \/ o.op = "Swap" /\ f \notin Held /\ f \notin {Is(s) : s \in Sides}
    \/ o.op \in {"Clear", "Find", "Maybe"} /\ f = Is(o.var)
    \/ /\ o.op \in {"Clear", "Bind", "Find", "Choose", "Maybe", "Each"}
       /\ \E s \in Sides : f = Aboard(o.var, s)
Spoiling(sc, f) ==
    LET E == {o \in Ops(sc) : Spoils(o, f)}
    IN  Holding(sc, Holding(sc, Holding(sc, Holding(sc, E))))

(* What holds in the branches of a test.                                       *)
Assumed(c, f) ==
    \/ \E x \in Sides \cup Vars \cup Listing : f = Is(x) /\ Is(x) \in c
    \/ \E p \in Listing : f = Is(p) /\ Among(p) \in c
Refuted(c, f) ==
    \/ \E x \in Sides \cup Vars \cup Listing : f = Is(x) /\ c = {No(x)}
    \/ \E p \in Listing : f = Is(p) /\ c = {NoneAmong(p)}

(* The steps after which it holds, or the rest of the block is not reached.      *)
Settles(o, f) ==
    \/ o.op \in {"Quit", "Break", "Continue"}
    \/ o.op \in {"Choose", "Bind"} /\ f \in Held \cap {Is(o.var)}
    \/ o.op \in {"Maybe", "Choose"} /\ \E s \in Sides : f = Aboard(o.var, s) /\ o.pool = BenchOf(s)
    \/ o.op = "Swap" /\ f = Is(o.side)
Ensures(sc, b, f) ==
    \E k \in 1 .. Len(b) : Settles(b[k], f) /\ \A i \in (k + 1) .. Len(b) : b[i] \notin Spoiling(sc, f)
Gives(sc, o, f) ==
    \/ Settles(o, f)
    \/ /\ o.op = "If"
       /\ Ensures(sc, o.then, f) \/ (Assumed(o.cond, f) /\ Range(o.then) \cap Spoiling(sc, f) = {})
       /\ Ensures(sc, o.else, f) \/ (Refuted(o.cond, f) /\ Range(o.else) \cap Spoiling(sc, f) = {})

(* What a step needs, given the blocks that need it at their start.            *)
Lacks(o, f, B) ==
    \/ f \in Requires(o)
    \/ o.op = "If" /\ o.then \in B /\ ~Assumed(o.cond, f)
    \/ o.op = "If" /\ o.else \in B /\ ~Refuted(o.cond, f)
    \/ o.op = "IfSame" /\ (o.then \in B \/ o.else \in B)
    \/ o.op = "While" /\ o.body \in B /\ ~Assumed(o.cond, f)
    \/ o.op = "Each" /\ o.body \in B /\ f \notin Held \cap {Is(o.var)}
Given(sc, b, j, f) ==
    \E k \in 1 .. (j - 1) :
       Gives(sc, b[k], f) /\ \A i \in (k + 1) .. (j - 1) : b[i] \notin Spoiling(sc, f)
Wanting(sc, f, B) ==
    B \cup {b \in Blocks(sc) : \E j \in 1 .. Len(b) : Lacks(b[j], f, B) /\ ~Given(sc, b, j, f)}
Wants(sc, f) == Wanting(sc, f, Wanting(sc, f, Wanting(sc, f, Wanting(sc, f, Wanting(sc, f, {})))))

(* An attack begins with an attacker.                                          *)
Careful(sc) ==
    /\ Orderly(sc)
    /\ \A o \in Ops(sc) :
         /\ o.op \notin {"Raise", "Do"}
         /\ o.op \in OnPokemon \cup {"Bind"} => o.ref \in Sides \cup Vars
         /\ o.op \in {"Swap", "Remove"} => o.ref \in Vars /\ o.side \in Sides
         /\ o.op = "Choose" => o.pool \in Listing
    /\ \A f \in Facts :
         /\ Holding(sc, Spoiling(sc, f)) = Spoiling(sc, f)
         /\ Wanting(sc, f, Wants(sc, f)) = Wants(sc, f)
         /\ \A b \in Blocks(sc) : \A j \in 1 .. Len(b) :
              Lacks(b[j], f, Wants(sc, f)) /\ ~Given(sc, b, j, f)
                => \A i \in 1 .. (j - 1) : b[i] \notin Spoiling(sc, f)
         /\ \A o \in Ops(sc) :
              o.op \in {"While", "Each"} /\ Lacks(o, f, Wants(sc, f)) => o \notin Spoiling(sc, f)
         /\ sc \in Wants(sc, f) => f = Is("own") /\ sc \notin Cards
=============================================================================
