---------------------------- MODULE EffectScript ----------------------------
(***************************************************************************)
(* Running one effect handler of engine/effects on a board: the script is  *)
(* executed operation by operation, and what the shared functions of       *)
(* effects/base.py and effects/attacks.py do on the way (damage,           *)
(* retaliation, knock-outs with their prizes, the end of the game) is      *)
(* spelled out.                                                            *)
(*                                                                         *)
(* Of a Pokemon the model keeps whose it is, where it stands, and whether  *)
(* a change of its HP has left it without any ("down").  The HP bonuses    *)
(* that passive abilities and Energy add to that (_get_effective_hp_bonus) *)
(* come and go without the model: an examination finds what it finds.      *)
(* Evolving and devolving keep the identity of the Pokemon.                *)
(***************************************************************************)
EXTENDS EffectOps, Integers, FiniteSets, Functions

CONSTANTS
    Attacks,      \* the handlers of attacks under study: these need an attacker
    Cards,        \* those of Trainers, abilities and Special Energy
    MaxBench,     \* Pokemon on a Bench at the start
    MaxPrizes,    \* prizes a player may have left
    MaxTaken      \* prizes a knock-out may be worth

(* The handlers known to break a promise, of those below.                      *)
CONSTANTS
    Raising, Reopening, Victorious, Unexamined, Emptying, PayingTwice

Scripts == Attacks \cup Cards
Sides == {"own", "foe"}
Other(s) == IF s = "own" THEN "foe" ELSE "own"
None == <<>>
Vars == {"t", "u", "v"}                \* the locals that hold a Pokemon
Lists == {"balloons", "own_targets", "opp_targets", "all_opp_pokemon"}

(* The Pokemon of a side: its Active, its Bench, and one it may recruit.       *)
Mons == Sides \X (0 .. MaxBench + 1)
Owner(m) == m[1]
Spare(s) == <<s, MaxBench + 1>>

ASSUME ScriptAssumption ==
    /\ MaxBench \in Nat /\ MaxTaken \in Nat /\ MaxPrizes \in Nat \ {0}

VARIABLES
    script,    \* the handler that runs
    todo,      \* what is left of it
    active,    \* of a side: the Pokemon in its Active Spot
    bench,     \* of a side: the list of its Benched Pokemon
    down,      \* left without HP, and not found alive since
    gone,      \* the Pokemon put into a hand, a deck or a discard pile
    vals,      \* the local variables that hold a Pokemon
    kept,      \* and those that hold a list
    prizes,    \* of a side: prizes_remaining
    winner,
    payments,  \* how often the knock-out of a Pokemon was carried out
    failed,    \* the handler ended in an exception
    dirty      \* it has changed the game

board == <<active, bench, down, gone>>
locals == <<vals, kept>>
score == <<prizes, winner, payments>>
vars == <<script, todo, board, locals, score, failed, dirty>>

Benched(s) == {bench[s][i] : i \in DOMAIN bench[s]}
InPlayOf(s) == Benched(s) \cup ({active[s]} \ {None})
InPlay == InPlayOf("own") \cup InPlayOf("foe")
Over == winner # "none"
Done == todo = <<>>

-----------------------------------------------------------------------------
(* Names                                                                       *)

ActiveList(s) == IF active[s] = None THEN <<>> ELSE <<active[s]>>
PlayList(s) == ActiveList(s) \o bench[s]

(* The Pokemon a pool lists, in the code's order.                              *)
Pool(name) ==
    CASE name = "own play"   -> PlayList("own")
      [] name = "foe play"   -> PlayList("foe")
      [] name = "own bench"  -> bench["own"]
      [] name = "foe bench"  -> bench["foe"]
      [] name = "own active" -> ActiveList("own")
      [] name = "foe active" -> ActiveList("foe")
      [] name = "all play"   -> PlayList("own") \o PlayList("foe")
      [] name = "all bench"  -> bench["own"] \o bench["foe"]
      [] name = "others"     -> bench["own"] \o PlayList("foe")
      [] name \in Lists       -> kept[name]
      [] OTHER               -> <<>>

Value(x) == IF x \in Sides THEN active[x] ELSE IF x \in Vars THEN vals[x] ELSE None

(* What a literal says of the board, and whether the code may find it so: the  *)
(* tests the model does not track may go either way.                           *)
Fact(x) ==
    CASE x \in Sides \cup Vars -> Value(x) # None
      [] x = "over"            -> Over
      [] OTHER                 -> Pool(x) # <<>>

CanHold(lit) ==
    CASE lit = Some                -> TRUE
      [] lit[1] = "is"             -> Fact(lit[2])
      [] lit[1] = "no"             -> ~Fact(lit[2])
      [] lit[1] = "among"          -> Pool(lit[2]) # <<>>
      [] lit[1] = "none among"     -> TRUE

CanFail(lit) ==
    CASE lit = Some                -> TRUE
      [] lit[1] = "is"             -> ~Fact(lit[2])
      [] lit[1] = "no"             -> Fact(lit[2])
      [] lit[1] = "among"          -> TRUE
      [] lit[1] = "none among"     -> Pool(lit[2]) # <<>>

CondTrue(c) == \A lit \in c : CanHold(lit)
CondFalse(c) == \E lit \in c : CanFail(lit)

-----------------------------------------------------------------------------
(* Steps                                                                       *)

Now == Head(todo)
Rest == Tail(todo)
At(kinds) == ~Done /\ Now.op \in kinds
Then(ops) == todo' = ops \o Rest
Onward == todo' = Rest

Changes == dirty' = TRUE
Keeps == UNCHANGED <<script, failed>>

Init ==
    /\ script \in Scripts /\ todo = script
    /\ \E on, fn \in BOOLEAN, b1, b2 \in 0 .. MaxBench :
         /\ active = [s \in Sides |-> IF (IF s = "own" THEN on ELSE fn) THEN <<s, 0>> ELSE None]
         /\ bench = [s \in Sides |-> [i \in 1 .. (IF s = "own" THEN b1 ELSE b2) |-> <<s, i>>]]
         \* A side without any Pokemon would have lost before.
         /\ on \/ (b1 > 0 /\ script \in Cards)
         /\ fn \/ b2 > 0
    /\ prizes \in [Sides -> 1 .. MaxPrizes]
    /\ down = {} /\ gone = {}
    /\ vals = [v \in Vars |-> None] /\ kept = [k \in Lists |-> <<>>]
    /\ winner = "none" /\ payments = [m \in Mons |-> 0]
    /\ failed = FALSE /\ dirty = FALSE

(* An exception ends the handler: the code raises it outright, or reads a field *)
(* of None, or removes from a list what is not in it.                          *)
OnPokemon == {"Splash", "Check", "Hurt", "Graze", "Heal", "Fell", "SetHp", "Recount", "Attach", "Strip",
              "Inflict", "Cure", "Mark", "Use", "Evolve", "Rise", "Fall", "Away",
              "Join", "Remove", "Swap"}

Fails ==
    \/ At({"Raise"})
    \/ At(OnPokemon) /\ Value(Now.ref) \notin Mons
    \/ At({"Remove", "Swap"}) /\ Value(Now.ref) \notin Benched(Now.side)
    \/ At({"Choose"}) /\ Pool(Now.pool) = <<>>

Fail ==
    /\ Fails
    /\ todo' = <<>> /\ failed' = TRUE
    \* _switch_active_with_bench has set the Active Spot before it misses the Pokemon.
    /\ dirty' = (dirty \/ Now.op = "Swap")
    /\ UNCHANGED <<script, board, locals, score>>

Sound(kinds) == At(kinds) /\ ~Fails

-----------------------------------------------------------------------------
(* Control                                                                     *)

Branch ==
    /\ Sound({"If"})
    /\ \/ CondTrue(Now.cond) /\ Then(Now.then)
       \/ CondFalse(Now.cond) /\ Then(Now.else)
    /\ UNCHANGED <<board, locals, score, dirty>> /\ Keeps

BranchSame ==
    /\ Sound({"IfSame"})
    /\ Then(IF vals[Now.var] = active[Now.ref] THEN Now.then ELSE Now.else)
    /\ UNCHANGED <<board, locals, score, dirty>> /\ Keeps

(* A loop in progress is an "again" in todo, behind the rest of its body.      *)
Loop ==
    /\ Sound({"While", "again"})
    /\ \/ CondTrue(Now.cond) /\ Then(Now.body \o <<[Now EXCEPT !.op = "again"]>>)
       \/ CondFalse(Now.cond) /\ Onward
    /\ UNCHANGED <<board, locals, score, dirty>> /\ Keeps

(* for v in list(pool): the list is read once.                                 *)
StartEach ==
    /\ Sound({"Each"})
    /\ Then(<<[op |-> "next", var |-> Now.var, list |-> Pool(Now.pool), body |-> Now.body]>>)
    /\ UNCHANGED <<board, locals, score, dirty>> /\ Keeps

NextEach ==
    /\ Sound({"next"})
    /\ IF Now.list = <<>>
       THEN Onward /\ UNCHANGED vals
       ELSE /\ Head(Now.list) \in Mons
            /\ vals' = [vals EXCEPT ![Now.var] = Head(Now.list)]
            /\ Then(Now.body \o <<[Now EXCEPT !.list = Tail(@)]>>)
    /\ UNCHANGED <<board, kept, score, dirty>> /\ Keeps

(* What is left from the first of the given marks on.                          *)
Marked(marks) == {i \in DOMAIN todo : todo[i].op \in marks}
From(i) == SubSeq(todo, i, Len(todo))
First(S) == CHOOSE i \in S : \A j \in S : i <= j

LeaveLoop ==
    /\ Sound({"Break", "Continue"}) /\ Marked({"again", "next"}) # {}
    /\ LET mark == First(Marked({"again", "next"}))
       IN  todo' = From(IF Now.op = "Break" THEN mark + 1 ELSE mark)
    /\ UNCHANGED <<board, locals, score, dirty>> /\ Keeps

Call ==
    /\ Sound({"Do"})
    /\ Then(Now.body \o <<[op |-> "ret"]>>)
    /\ UNCHANGED <<board, locals, score, dirty>> /\ Keeps

Return ==
    /\ Sound({"Quit", "ret"})
    /\ LET calls == Marked({"ret"})
       IN  todo' = IF calls = {} THEN <<>> ELSE From(First(calls) + 1)
    /\ UNCHANGED <<board, locals, score, dirty>> /\ Keeps

(* Local variables.                                                            *)
Assign ==
    /\ Sound({"Clear", "Bind", "Find", "Choose", "Maybe"})
    /\ \E m \in Mons \cup {None} :
         /\ CASE Now.op = "Clear"  -> m = None
              [] Now.op = "Bind"   -> m = Value(Now.ref)
              [] Now.op = "Find"   -> m = IF vals[Now.var] \in InPlay THEN vals[Now.var] ELSE None
              [] Now.op = "Choose" -> m \in Range(Pool(Now.pool))
              [] Now.op = "Maybe"  -> m \in Range(Pool(Now.pool)) \cup {None}
         /\ vals' = [vals EXCEPT ![Now.var] = m]
    /\ Onward
    /\ UNCHANGED <<board, kept, score, dirty>> /\ Keeps

Store ==
    /\ Sound({"Keep", "KeepSome"})
    /\ LET list == Pool(Now.pool)
       IN  \E S \in (IF Now.op = "Keep" THEN {Range(list)} ELSE SUBSET Range(list)) :
             LET chosen == SelectSeq(list, LAMBDA m : m \in S)
             IN  /\ chosen \in Seq(Mons) /\ Range(chosen) \subseteq S
                 /\ kept' = [kept EXCEPT ![Now.var] = chosen]
    /\ Onward
    /\ UNCHANGED <<board, vals, score, dirty>> /\ Keeps

-----------------------------------------------------------------------------
(* What a handler does by itself                                               *)

Touch ==
    /\ Sound({"Piles", "Note", "Attach", "Strip", "Inflict", "Cure", "Mark"})
    /\ Changes /\ Onward
    /\ UNCHANGED <<board, locals, score>> /\ Keeps

Read ==
    /\ Sound({"Use"})
    /\ Onward
    /\ UNCHANGED <<board, locals, score, dirty>> /\ Keeps

(* HP changes.  Hurting keeps down what is down, healing keeps up what is up;  *)
(* an HP bonus may hold up even a Pokemon whose current_hp was set to zero.    *)
AfterHp(kind, m) ==
    CASE kind = "Hurt" -> {down, down \cup {m}}
      [] kind = "Heal" -> {down, down \ {m}}
      [] kind = "Graze" -> {down}
      [] OTHER         -> {down \cup {m}, down \ {m}}

HpSet == {"Hurt", "Graze", "Heal", "Fell", "SetHp", "Recount", "Evolve"}

SetHitPoints ==
    /\ Sound(HpSet)
    /\ down' \in AfterHp(Now.op, Value(Now.ref))
    /\ Changes /\ Onward
    /\ UNCHANGED <<active, bench, gone, locals, score>> /\ Keeps

(* An examination by check_ko; only a Basic Pokemon has Exploding Needles.       *)
KoOf(m, needles) == [op |-> "ko", mon |-> m, needles |-> needles]
Ko(m) == KoOf(m, TRUE)

(* Evolving from the deck or devolving, with the knock-out test at its end;    *)
(* nothing happens when the card is not found.                                 *)
Reshape ==
    /\ Sound({"Rise", "Fall"})
    /\ LET m == Value(Now.ref)
       IN  \/ /\ down' \in AfterHp("Recount", m)
              /\ Changes /\ Then(<<KoOf(m, FALSE)>>)
           \/ Onward /\ UNCHANGED <<down, dirty>>
    /\ UNCHANGED <<active, bench, gone, locals, score>> /\ Keeps

(* list.remove(m): the list without it, or the list itself.                    *)
Without(list, m) ==
    LET at == {i \in DOMAIN list : list[i] = m}
        i  == CHOOSE j \in at : TRUE
    IN  IF at = {} THEN list ELSE SubSeq(list, 1, i - 1) \o SubSeq(list, i + 1, Len(list))

(* _switch_active_with_bench: m comes in, the old Active goes to the end.       *)
SwappedBenchCopy(s, m) == bench[s] \o ActiveList(s)
SwappedBench(s, m) == Without(bench[s], m) \o ActiveList(s)

Rearrange ==
    /\ Sound({"Lift", "Seat", "Join", "Leave", "Remove", "Swap", "Recruit"})
    /\ LET s == Now.side
           m == IF Now.op \in {"Lift", "Recruit"} THEN None ELSE Value(Now.ref)
       IN  CASE Now.op = "Lift" -> active' = [active EXCEPT ![s] = None] /\ UNCHANGED bench
             [] Now.op = "Seat" -> active' = [active EXCEPT ![s] = m] /\ UNCHANGED bench
             [] Now.op = "Join" -> bench' = [bench EXCEPT ![s] = Append(@, m)] /\ UNCHANGED active
             [] Now.op \in {"Leave", "Remove"} ->
                  bench' = [bench EXCEPT ![s] = Without(@, m)] /\ UNCHANGED active
             [] Now.op = "Swap" ->
                  /\ active' = [active EXCEPT ![s] = m]
                  /\ bench' = [bench EXCEPT ![s] = SwappedBench(s, m)]
             [] Now.op = "Recruit" ->
                  \* The model has one card to recruit; a second one finds no place.
                  /\ bench' = [bench EXCEPT ![s] =
                                 IF Spare(s) \in InPlayOf(s) \cup gone THEN @ ELSE Append(@, Spare(s))]
                  /\ UNCHANGED active
    /\ Changes /\ Onward
    /\ UNCHANGED <<down, gone, locals, score>> /\ Keeps

Discard ==
    /\ Sound({"Away"})
    /\ gone' = gone \cup {Value(Now.ref)}
    /\ Changes /\ Onward
    /\ UNCHANGED <<active, bench, down, locals, score>> /\ Keeps

Declare ==
    /\ Sound({"Win"})
    /\ \E s \in Sides : s = Now.side /\ winner' = s
    /\ Changes /\ Onward
    /\ UNCHANGED <<board, locals, prizes, payments>> /\ Keeps

(* n prizes are taken, as long as there are any.                               *)
PrizesAfterOverdrawn(left, n) == left - n
PrizesAfter(left, n) == IF n < left THEN left - n ELSE 0

(* Onyx, Amp You Very Much, Lt. Surge's Bargain: a prize without a knock-out.   *)
TakePrizes ==
    /\ Sound({"Prize"})
    /\ prizes' = [s \in Sides |-> IF s \in Now.takers THEN PrizesAfter(prizes[s], 1) ELSE prizes[s]]
    /\ winner' = IF prizes'["own"] = 0 THEN "own" ELSE IF prizes'["foe"] = 0 THEN "foe" ELSE winner
    /\ Changes /\ Onward
    /\ UNCHANGED <<board, locals, payments>> /\ Keeps

-----------------------------------------------------------------------------
(* What the shared functions do                                                *)

(* _default_damage: the printed attack, without retaliation.                   *)
BlowLands ==
    /\ Sound({"Blow"})
    /\ \/ Onward /\ UNCHANGED <<down, dirty>>
       \/ /\ active["own"] # None /\ active["foe"] # None
          /\ down' \in AfterHp("Hurt", active["foe"])
          /\ Changes /\ Then(<<Ko(active["foe"])>>)
    /\ UNCHANGED <<active, bench, gone, locals, score>> /\ Keeps

(* _apply_damage: nothing without both Active Pokemon or when an effect        *)
(* prevents it; else damage, retaliation, and the knock-out of the defender.   *)
StrikeLands ==
    /\ Sound({"Strike"})
    /\ \/ Onward /\ UNCHANGED <<down, dirty>>
       \/ /\ active["own"] # None /\ active["foe"] # None
          /\ down' \in AfterHp("Hurt", active["foe"])
          /\ Changes
          /\ Then(<<[op |-> "parry", mon |-> active["own"]], Ko(active["foe"])>>)
    /\ UNCHANGED <<active, bench, gone, locals, score>> /\ Keeps

(* The retaliating Energy, abilities and Tools of the defender, one by one,    *)
(* each while the attacker is up; Smog Signals puts a Pokemon on the Bench.    *)
(* A retaliation that ends the game returns from _apply_damage at once.         *)
Parry ==
    /\ Sound({"parry"}) /\ Now.mon \in Mons
    /\ \/ Onward /\ UNCHANGED <<down, bench>>
       \/ /\ Now.mon \notin down
          /\ down' = down \cup {Now.mon}
          /\ Then(<<Ko(Now.mon), [Now EXCEPT !.op = "parried"]>>)
          /\ UNCHANGED bench
       \/ /\ Spare("foe") \notin InPlayOf("foe") \cup gone
          /\ bench' = [bench EXCEPT !["foe"] = Append(@, Spare("foe"))]
          /\ todo' = todo /\ UNCHANGED down
    /\ UNCHANGED <<active, gone, locals, score, dirty>> /\ Keeps

(* Two retaliations may raise.  Smog Signals reads a local that is assigned     *)
(* only while the attacker's current_hp is above zero; Poison Point adds a      *)
(* condition to the attacker, and to one that was once devolved it cannot: its  *)
(* conditions are a list then, which has no add.                               *)
ParryRaises ==
    /\ Sound({"parry"})
    /\ todo' = <<>> /\ failed' = TRUE
    /\ UNCHANGED <<script, board, locals, score, dirty>>

(* So does any handler that adds or discards a condition of such a Pokemon.     *)
InflictOnList ==
    /\ Sound({"Inflict"})
    /\ todo' = <<>> /\ failed' = TRUE
    /\ UNCHANGED <<script, board, locals, score, dirty>>

Slip == ParryRaises \/ InflictOnList

ParriedOn ==
    /\ Sound({"parried"})
    /\ todo' = <<[Now EXCEPT !.op = "parry"]>> \o Rest
    /\ UNCHANGED <<board, locals, score, dirty>> /\ Keeps

Parried ==
    /\ Sound({"parried"})
    /\ todo' = IF Over THEN Tail(Rest) ELSE <<[Now EXCEPT !.op = "parry"]>> \o Rest
    /\ UNCHANGED <<board, locals, score, dirty>> /\ Keeps

(* _apply_bench_damage: some effects block it.                                 *)
SplashUnchecked ==
    /\ Sound({"Splash"})
    /\ LET m == Value(Now.ref)
       IN  down' \in AfterHp("Hurt", m) /\ Changes /\ Onward
    /\ UNCHANGED <<active, bench, gone, locals, score>> /\ Keeps

SplashLands ==
    /\ Sound({"Splash"})
    /\ LET m == Value(Now.ref)
       IN  \/ Onward /\ UNCHANGED <<down, dirty>>
           \/ down' \in AfterHp("Hurt", m) /\ Changes /\ Then(<<Ko(m)>>)
    /\ UNCHANGED <<active, bench, gone, locals, score>> /\ Keeps

CheckKo ==
    /\ Sound({"Check"})
    /\ Then(<<Ko(Value(Now.ref))>>)
    /\ UNCHANGED <<board, locals, score, dirty>> /\ Keeps

(* check_lively_stadium_removed: the bonus HP of a Stadium is lost, and every  *)
(* Pokemon of the one player, then of the other, is examined until the game    *)
(* is over.                                                                    *)
StadiumGoneListed ==
    /\ Sound({"Stadium"})
    /\ \/ Onward /\ UNCHANGED down
       \/ \E S \in SUBSET InPlay, s \in Sides :
            /\ down' = down \cup S
            /\ Then(<<[op |-> "sweep", list |-> PlayList(s) \o PlayList(Other(s))]>>)
    /\ UNCHANGED <<active, bench, gone, locals, score, dirty>> /\ Keeps

StadiumGone ==
    /\ Sound({"Stadium"})
    /\ \/ Onward /\ UNCHANGED down
       \/ \E S \in SUBSET InPlay, s \in Sides :
            /\ down' = down \cup S
            /\ Then(<<[op |-> "tour", side |-> s], [op |-> "tour", side |-> Other(s)]>>)
    /\ UNCHANGED <<active, bench, gone, locals, score, dirty>> /\ Keeps

Tour ==
    /\ Sound({"tour"})
    /\ Then(<<[op |-> "sweep", list |-> PlayList(Now.side)]>>)
    /\ UNCHANGED <<board, locals, score, dirty>> /\ Keeps

Sweep ==
    /\ Sound({"sweep"})
    /\ IF Over \/ Now.list = <<>>
       THEN Onward
       ELSE Then(<<Ko(Head(Now.list)), [Now EXCEPT !.list = Tail(@)]>>)
    /\ UNCHANGED <<board, locals, score, dirty>> /\ Keeps

(* check_ko, up to the point of no return: alive, with the HP bonuses it has   *)
(* by now; saved by Resolute Heart or Tenacious Body; knocked out, be it only   *)
(* because a bonus has ended; or Exploding Needles hurts the other Active      *)
(* before that.  The attacker has no Exploding Needles: the card that has them *)
(* attacks with Corner, a plain blow nobody retaliates for.                    *)
Examine ==
    /\ Sound({"ko"}) /\ Now.mon \in Mons
    /\ LET m == Now.mon
           rival == active[Other(Owner(m))]
       IN  \/ down' = down \ {m} /\ Onward /\ UNCHANGED dirty
           \/ down' = down \ {m} /\ Changes /\ Onward
           \/ down' = down \cup {m} /\ Then(<<[Now EXCEPT !.op = "out"]>>) /\ UNCHANGED dirty
           \/ /\ m = active[Owner(m)] /\ rival # None /\ rival \notin down
              /\ Now.needles /\ (Owner(m) = "foe" \/ script \in Cards)
              /\ down' \in {d \cup {m} : d \in AfterHp("Hurt", rival)} /\ Changes
              /\ Then(<<Ko(rival), [Now EXCEPT !.op = "late out"]>>)
    /\ UNCHANGED <<active, bench, gone, locals, score>> /\ Keeps

(* The rest of check_ko.  The card leaves play for the discard pile;           *)
LeavesPlayOnly(m) ==
    IF active[Owner(m)] = m
    THEN active' = [active EXCEPT ![Owner(m)] = None] /\ gone' = gone \cup {m} /\ UNCHANGED bench
    ELSE bench' = [bench EXCEPT ![Owner(m)] = Without(@, m)] /\ UNCHANGED <<active, gone>>

LeavesPlay(m) ==
    /\ gone' = gone \cup {m}
    /\ IF active[Owner(m)] = m
       THEN active' = [active EXCEPT ![Owner(m)] = None] /\ UNCHANGED bench
       ELSE bench' = [bench EXCEPT ![Owner(m)] = Without(@, m)] /\ UNCHANGED active

(* the other side wins with its last prize, or when nobody is left to fight.    *)
NobodyLeft(s) == active'[s] = None /\ bench'[s] = <<>>
WinsLate(q) == prizes[q] = 0 \/ NobodyLeft(Other(q))
WinsByPrizes(q) == prizes'[q] = 0
WinsByBench(q) == prizes'[q] = 0 \/ bench'[Other(q)] = <<>>
Wins(q) == prizes'[q] = 0 \/ NobodyLeft(Other(q))

KnockOut ==
    /\ Sound({"out", "late out"}) /\ Now.mon \in Mons
    /\ LET m == Now.mon
           q == Other(Owner(m))
       IN  IF Now.op = "late out" /\ Over
           THEN UNCHANGED <<board, score, dirty>>
           ELSE /\ LeavesPlay(m)
                /\ payments' = [payments EXCEPT ![m] = @ + 1]
                /\ \E n \in 0 .. MaxTaken :
                     prizes' = [prizes EXCEPT ![q] = PrizesAfter(@, n)]
                /\ winner' = IF Wins(q) THEN q ELSE winner
                /\ Changes /\ UNCHANGED down
    /\ Onward
    /\ UNCHANGED locals /\ Keeps

(* The handler has returned.                                                   *)
Stop == Done /\ UNCHANGED vars

Next ==
    \/ Fail \/ Branch \/ BranchSame \/ Loop \/ StartEach \/ NextEach \/ LeaveLoop \/ Call
    \/ Return \/ Assign \/ Store \/ Touch \/ Read \/ SetHitPoints \/ Reshape \/ Rearrange
    \/ Discard \/ Declare \/ TakePrizes \/ BlowLands \/ StrikeLands \/ Parry \/ Parried
    \/ Slip \/ SplashLands \/ CheckKo \/ StadiumGone \/ Tour \/ Sweep \/ Examine \/ KnockOut
    \/ Stop

Spec == Init /\ [][Next]_vars

-----------------------------------------------------------------------------
(* Properties of every handler                                                 *)

(* The state is well typed; more prizes are never taken than are left (the      *)
(* loop of check_ko over the prize cards).                                     *)
TypeOK ==
    /\ active \in [Sides -> Mons \cup {None}]
    /\ bench \in [Sides -> Seq(Mons)]
    /\ down \subseteq Mons /\ gone \subseteq Mons
    /\ vals \in [Vars -> Mons \cup {None}]
    /\ kept \in [Lists -> Seq(Mons)]
    /\ prizes \in [Sides -> Nat]
    /\ winner \in Sides \cup {"none"}
    /\ payments \in [Mons -> Nat]

(* When a handler is through, a Pokemon stands in one place: in one Active Spot *)
(* or once on one Bench, of its owner's side, and never also in a pile of       *)
(* cards.  The handlers move it by a removal here and an append there.         *)
OnePlace == Done =>
    /\ \A s \in Sides :
         /\ \A m \in InPlayOf(s) : Owner(m) = s
         /\ Len(bench[s]) = Cardinality(Benched(s))
         /\ active[s] \notin Benched(s)
    /\ InPlay \cap gone = {}

(* Whoever takes the last prize has won the game, at once: check_ko looks at    *)
(* prizes_remaining after it has taken them.                                   *)
LastPrizeWins == \A s \in Sides : prizes[s] = 0 => Over

(* A knock-out that was paid for has put the card into the discard pile.       *)
PaidIsGone == \A m \in Mons : payments[m] > 0 => m \in gone

-----------------------------------------------------------------------------
(* Promises of the handlers, but for those known to break them                 *)

Returned == Done /\ ~failed

(* No step of a handler raises, whatever was knocked out before or during it:   *)
(* the exception passes the runner and the batch and fails the simulation.     *)
(* The two slips of the shared code are under every handler that gets there.    *)
NeverRaises == [][failed' # failed => Slip \/ script \in Raising]_vars

(* Once check_ko has named a winner no later damage, retaliation or knock-out   *)
(* of the same handler names the other one: state.winner is assigned without   *)
(* a look at the phase, so it takes a test of GAME_OVER between the steps.      *)
ResultStays == [][Over /\ script \notin Reopening => winner' = winner]_vars

(* A side wins only when it has taken its last prize, or the other side has no  *)
(* Pokemon in play.                                                            *)
WinnerEarned ==
    [][winner' # winner /\ script \notin Victorious
         => prizes'[winner'] = 0 \/ NobodyLeft(Other(winner'))]_vars

(* A Pokemon that a handler has left without HP has been examined before it    *)
(* returns, and found alive or knocked out, unless the game is over: every path *)
(* that lowers HP leads to check_ko.  A bonus that ends is another matter: only *)
(* the loss of Lively Stadium has anybody examined.                            *)
LossesExamined ==
    Returned /\ ~Over /\ script \notin Unexamined => down \cap InPlay = {}

(* A side that has lost its last Pokemon in play has lost the game.             *)
SomebodyLeft ==
    Returned /\ ~Over /\ script \notin Emptying => \A s \in Sides : InPlayOf(s) # {}

(* The knock-out of a Pokemon is carried out, and its prizes are taken, once.   *)
PaidOnce == script \in PayingTwice \/ \A m \in Mons : payments[m] <= 1
=============================================================================
