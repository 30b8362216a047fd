---------------------------- MODULE EffectProofs ----------------------------
(***************************************************************************)
(* What holds of every handler, written in the catalogue or not, for any   *)
(* size of the Benches and any worth of a knock-out.  The first theorems   *)
(* make no assumption on the scripts; the later ones are about the scripts *)
(* of a shape of EffectShapes.                                             *)
(***************************************************************************)
EXTENDS EffectShapes, FiniteSetTheorems, SequenceTheorems, TLAPS

LEMMA MonsOwner == ASSUME NEW m \in Mons PROVE Owner(m) \in Sides /\ Other(Owner(m)) \in Sides
  BY DEF Mons, Owner, Other, Sides

LEMMA NoneIsNoMon == None \notin Mons
  BY DEF None, Mons, Sides

(* bench.remove(m) leaves a list of Pokemon.                                   *)
LEMMA WithoutType ==
  ASSUME NEW list \in Seq(Mons), NEW m
  PROVE  Without(list, m) \in Seq(Mons)
<1> DEFINE at == {i \in DOMAIN list : list[i] = m}
           i  == CHOOSE j \in at : TRUE
<1>1. CASE at = {}
  BY <1>1 DEF Without
<1>2. CASE at # {}
  <2>1. i \in at
    BY <1>2
  <2>2. i \in 1 .. Len(list)
    BY <2>1
  <2> HIDE DEF i
  <2>3. SubSeq(list, 1, i - 1) \in Seq(Mons) /\ SubSeq(list, i + 1, Len(list)) \in Seq(Mons)
    BY <2>2
  <2>4. SubSeq(list, 1, i - 1) \o SubSeq(list, i + 1, Len(list)) \in Seq(Mons)
    BY <2>3
  <2>5. Without(list, m) = SubSeq(list, 1, i - 1) \o SubSeq(list, i + 1, Len(list))
    BY <1>2 DEF Without, i
  <2>6. QED BY <2>4, <2>5
<1>3. QED BY <1>1, <1>2

LEMMA ValueType == ASSUME TypeOK, NEW x PROVE Value(x) \in Mons \cup {None}
  BY DEF TypeOK, Value

(* Nobody takes more prizes than are left, whatever a knock-out is worth.      *)
LEMMA PrizesLeft == ASSUME NEW left \in Nat, NEW n \in Nat PROVE PrizesAfter(left, n) \in Nat
  BY DEF PrizesAfter

LEMMA BoardAtStart == Init => TypeOK
<1> SUFFICES ASSUME Init PROVE TypeOK
  OBVIOUS
<1> USE ScriptAssumption
<1>1. PICK on, fn \in BOOLEAN, b1, b2 \in 0 .. MaxBench :
        /\ active = [s \in Sides |-> IF (IF s = "own" THEN on ELSE fn) THEN <<s, 0>> ELSE None]
        /\ bench = [s \in Sides |-> [i \in 1 .. (IF s = "own" THEN b1 ELSE b2) |-> <<s, i>>]]
        /\ on \/ (b1 > 0 /\ script \in Cards)
        /\ fn \/ b2 > 0
  BY Zenon DEF Init
<1>2. ASSUME NEW s \in Sides, NEW i \in 0 .. MaxBench PROVE <<s, i>> \in Mons
  BY <1>2 DEF Mons
<1>3. active \in [Sides -> Mons \cup {None}]
  <2>1. \A s \in Sides : <<s, 0>> \in Mons
    BY DEF Mons
  <2>2. QED BY <1>1, <2>1
<1>4. bench \in [Sides -> Seq(Mons)]
  <2>1. ASSUME NEW s \in Sides, NEW n \in 0 .. MaxBench
        PROVE  [i \in 1 .. n |-> <<s, i>>] \in Seq(Mons)
    <3>1. \A i \in 1 .. n : <<s, i>> \in Mons
      BY <1>2
    <3>2. QED BY <3>1
  <2>2. \A s \in Sides : [i \in 1 .. (IF s = "own" THEN b1 ELSE b2) |-> <<s, i>>] \in Seq(Mons)
    BY <2>1
  <2>3. QED BY <1>1, <2>2
<1>5. /\ down = {} /\ gone = {}
      /\ vals \in [Vars -> Mons \cup {None}] /\ payments \in [Mons -> Nat] /\ winner = "none"
  BY DEF Init
<1>6. kept \in [Lists -> Seq(Mons)]
  <2>1. <<>> \in Seq(Mons)
    OBVIOUS
  <2>2. QED BY <2>1 DEF Init
<1>7. prizes \in [Sides -> Nat]
  BY DEF Init
<1>8. QED BY <1>3, <1>4, <1>5, <1>6, <1>7 DEF TypeOK

(* A change of the number of Pokemon without HP.                               *)
LEMMA HpType ==
  ASSUME TypeOK, NEW kind, NEW m \in Mons, NEW d \in AfterHp(kind, m)
  PROVE  d \subseteq Mons
  BY DEF TypeOK, AfterHp

LEMMA InPlayType == TypeOK => InPlay \subseteq Mons
  BY DEF TypeOK, InPlay, InPlayOf, Benched, Sides

(* The steps that move nobody and change no score.                             *)
Idle ==
    Fail \/ Branch \/ BranchSame \/ Loop \/ StartEach \/ LeaveLoop \/ Call \/ Return
    \/ Touch \/ Read \/ Parried \/ Slip \/ CheckKo \/ Tour \/ Sweep \/ Stop

(* The steps of a local variable.                                              *)
Local == NextEach \/ Assign \/ Store

(* The steps that change HP.                                                   *)
Hit == SetHitPoints \/ Reshape \/ BlowLands \/ StrikeLands \/ SplashLands \/ StadiumGone \/ Examine

LEMMA IdleSteps == Idle => UNCHANGED <<board, locals, score>>
  BY DEF Idle, Fail, Branch, BranchSame, Loop, StartEach, LeaveLoop, Call, Return, Touch, Read,
         Parried, Slip, ParryRaises, InflictOnList, CheckKo, Tour, Sweep, Stop, board, locals, score, vars

LEMMA LocalSteps == Local => UNCHANGED <<board, score>>
  BY DEF Local, NextEach, Assign, Store, board, score

LEMMA HitSteps == Hit => UNCHANGED <<active, bench, gone, locals, score>>
  BY DEF Hit, SetHitPoints, Reshape, BlowLands, StrikeLands, SplashLands, StadiumGone, Examine,
         locals, score

LEMMA LocalTypes ==
  ASSUME TypeOK, Local
  PROVE  vals' \in [Vars -> Mons \cup {None}] /\ kept' \in [Lists -> Seq(Mons)]
<1>1. vals \in [Vars -> Mons \cup {None}] /\ kept \in [Lists -> Seq(Mons)]
  BY DEF TypeOK
<1>2. CASE NextEach
  <2>1. kept' = kept /\ (vals' = vals \/ \E m \in Mons : vals' = [vals EXCEPT ![Now.var] = m])
    BY <1>2 DEF NextEach
  <2>2. QED BY <1>1, <2>1
<1>3. CASE Assign
  <2>1. kept' = kept
    BY <1>3 DEF Assign
  <2>2. PICK m \in Mons \cup {None} : vals' = [vals EXCEPT ![Now.var] = m]
    BY <1>3 DEF Assign
  <2>3. QED BY <1>1, <2>1, <2>2
<1>4. CASE Store
  <2>1. vals' = vals
    BY <1>4 DEF Store
  <2>2. PICK chosen \in Seq(Mons) : kept' = [kept EXCEPT ![Now.var] = chosen]
    BY <1>4 DEF Store
  <2>3. QED BY <1>1, <2>1, <2>2
<1>5. QED BY <1>2, <1>3, <1>4 DEF Local

LEMMA HitTypes == ASSUME TypeOK, Hit PROVE down' \subseteq Mons
<1> USE NoneIsNoMon
<1>1. down \subseteq Mons /\ \A s \in Sides : active[s] \in Mons \cup {None}
  BY DEF TypeOK
<1>2. ASSUME NEW x, Value(x) \in Mons, NEW kind PROVE \A d \in AfterHp(kind, Value(x)) : d \subseteq Mons
  BY <1>2, HpType
<1>3. CASE SetHitPoints
  <2>1. Value(Now.ref) \in Mons
    BY <1>3 DEF SetHitPoints, Sound, Fails, At, HpSet, OnPokemon
  <2>2. QED BY <1>2, <1>3, <2>1 DEF SetHitPoints
<1>4. CASE Reshape
  <2>1. Value(Now.ref) \in Mons
    BY <1>4 DEF Reshape, Sound, Fails, At, OnPokemon
  <2>2. QED BY <1>1, <1>2, <1>4, <2>1 DEF Reshape
<1>5. CASE SplashLands
  <2>1. Value(Now.ref) \in Mons
    BY <1>5 DEF SplashLands, Sound, Fails, At, OnPokemon
  <2>2. QED BY <1>1, <1>2, <1>5, <2>1 DEF SplashLands
<1>6. CASE BlowLands \/ StrikeLands
  <2>1. down' = down \/ (active["foe"] # None /\ down' \in AfterHp("Hurt", active["foe"]))
    BY <1>6 DEF BlowLands, StrikeLands
  <2>2. active["foe"] \in Mons \cup {None}
    BY <1>1 DEF Sides
  <2>3. QED BY <1>1, <2>1, <2>2, HpType
<1>7. CASE StadiumGone
  <2>1. down' = down \/ \E S \in SUBSET InPlay : down' = down \cup S
    BY <1>7 DEF StadiumGone
  <2>2. QED BY <1>1, <2>1, InPlayType
<1>8. CASE Examine
  <2>1. PICK m \in Mons : m = Now.mon
    BY <1>8 DEF Examine
  <2> DEFINE rival == active[Other(Owner(m))]
  <2>2. rival \in Mons \cup {None}
    BY <1>1, MonsOwner
  <2>3. \/ down' = down \ {m} \/ down' = down \cup {m}
        \/ rival # None /\ \E d \in AfterHp("Hurt", rival) : down' = d \cup {m}
    BY <1>8, <2>1 DEF Examine
  <2>4. QED BY <1>1, <2>2, <2>3, HpType
<1>9. QED BY <1>3, <1>4, <1>5, <1>6, <1>7, <1>8 DEF Hit

LEMMA ParryTypes ==
  ASSUME TypeOK, Parry
  PROVE  down' \subseteq Mons /\ bench' \in [Sides -> Seq(Mons)]
<1>1. Spare("foe") \in Mons
  BY ScriptAssumption DEF Spare, Mons, Sides
<1>2. down \subseteq Mons /\ bench \in [Sides -> Seq(Mons)]
  BY DEF TypeOK
<1>3. \/ down' = down \/ \E m \in Mons : down' = down \cup {m}
  BY DEF Parry
<1>4. bench' = bench \/ bench' = [bench EXCEPT !["foe"] = Append(@, Spare("foe"))]
  BY DEF Parry
<1>5. Append(bench["foe"], Spare("foe")) \in Seq(Mons)
  BY <1>1, <1>2 DEF Sides
<1>6. QED BY <1>2, <1>3, <1>4, <1>5

LEMMA ActiveListType ==
  ASSUME TypeOK, NEW s \in Sides PROVE ActiveList(s) \in Seq(Mons)
<1>1. active[s] \in Mons \cup {None}
  BY DEF TypeOK
<1>2. QED BY <1>1 DEF ActiveList

LEMMA RearrangeTypes ==
  ASSUME TypeOK, Rearrange
  PROVE  active' \in [Sides -> Mons \cup {None}] /\ bench' \in [Sides -> Seq(Mons)]
<1> DEFINE s == Now.side
           x == Value(Now.ref)
<1>1. active \in [Sides -> Mons \cup {None}] /\ bench \in [Sides -> Seq(Mons)]
  BY DEF TypeOK
<1>2. x \in Mons \cup {None}
  BY ValueType
<1>3. CASE Now.op = "Lift"
  <2>1. active' = [active EXCEPT ![s] = None] /\ bench' = bench
    BY <1>3 DEF Rearrange
  <2>2. QED BY <1>1, <2>1
<1>4. CASE Now.op = "Seat"
  <2>1. active' = [active EXCEPT ![s] = x] /\ bench' = bench
    BY <1>4 DEF Rearrange
  <2>2. QED BY <1>1, <1>2, <2>1
<1>5. CASE Now.op = "Join"
  <2>1. x \in Mons
    BY <1>5 DEF Rearrange, Sound, Fails, At, OnPokemon
  <2>2. bench' = [bench EXCEPT ![s] = Append(@, x)] /\ active' = active
    BY <1>5 DEF Rearrange
  <2>3. s \in Sides => Append(bench[s], x) \in Seq(Mons)
    BY <1>1, <2>1
  <2>4. QED BY <1>1, <2>2, <2>3
<1>6. CASE Now.op \in {"Leave", "Remove"}
  <2>1. bench' = [bench EXCEPT ![s] = Without(@, x)] /\ active' = active
    BY <1>6 DEF Rearrange
  <2>2. s \in Sides => Without(bench[s], x) \in Seq(Mons)
    BY <1>1, WithoutType
  <2>3. QED BY <1>1, <2>1, <2>2
<1>7. CASE Now.op = "Swap"
  <2>1. /\ active' = [active EXCEPT ![s] = x]
        /\ bench' = [bench EXCEPT ![s] = SwappedBench(s, x)]
    BY <1>7 DEF Rearrange
  <2>2. s \in Sides => SwappedBench(s, x) \in Seq(Mons)
    <3>1. ASSUME s \in Sides
          PROVE  Without(bench[s], x) \in Seq(Mons) /\ ActiveList(s) \in Seq(Mons)
      BY <1>1, <3>1, WithoutType, ActiveListType
    <3>2. QED BY <3>1 DEF SwappedBench
  <2>3. QED BY <1>1, <1>2, <2>1, <2>2
<1>8. CASE Now.op = "Recruit"
  <2>1. /\ active' = active
        /\ \/ bench' = [bench EXCEPT ![s] = bench[s]]
           \/ bench' = [bench EXCEPT ![s] = Append(bench[s], Spare(s))]
    BY <1>8 DEF Rearrange
  <2>2. s \in Sides => Append(bench[s], Spare(s)) \in Seq(Mons)
    BY <1>1, ScriptAssumption DEF Spare, Mons
  <2>3. QED BY <1>1, <2>1, <2>2
<1>9. QED BY <1>3, <1>4, <1>5, <1>6, <1>7, <1>8 DEF Rearrange, Sound, At

(* What a knock-out that is carried out does to the score.                     *)
LEMMA KnockOutScore ==
  ASSUME KnockOut
  PROVE  \/ UNCHANGED <<board, score>>
         \/ \E m \in Mons : /\ LeavesPlay(m)
                            /\ payments' = [payments EXCEPT ![m] = @ + 1]
                            /\ \E n \in 0 .. MaxTaken :
                                 prizes' = [prizes EXCEPT ![Other(Owner(m))] = PrizesAfter(@, n)]
                            /\ winner' = IF Wins(Other(Owner(m))) THEN Other(Owner(m)) ELSE winner
                            /\ UNCHANGED down
  BY DEF KnockOut

LEMMA KnockOutTypes == ASSUME TypeOK, KnockOut PROVE TypeOK'
<1>1. UNCHANGED locals
  BY DEF KnockOut
<1>2. CASE UNCHANGED <<board, score>>
  BY <1>1, <1>2 DEF TypeOK, board, score, locals
<1>3. CASE ~UNCHANGED <<board, score>>
  <2>1. PICK m \in Mons, n \in 0 .. MaxTaken :
          /\ LeavesPlay(m)
          /\ payments' = [payments EXCEPT ![m] = @ + 1]
          /\ prizes' = [prizes EXCEPT ![Other(Owner(m))] = PrizesAfter(@, n)]
          /\ winner' = IF Wins(Other(Owner(m))) THEN Other(Owner(m)) ELSE winner
          /\ UNCHANGED down
    BY <1>3, KnockOutScore
  <2> DEFINE o == Owner(m)
             q == Other(o)
  <2>2. o \in Sides /\ q \in Sides
    BY MonsOwner
  <2> HIDE DEF o
  <2>3. n \in Nat
    BY ScriptAssumption
  <2>4. active' \in [Sides -> Mons \cup {None}]
    BY <2>1, <2>2 DEF TypeOK, LeavesPlay, o
  <2>5. bench' \in [Sides -> Seq(Mons)]
    <3>1. bench' = bench \/ bench' = [bench EXCEPT ![o] = Without(@, m)]
      BY <2>1 DEF LeavesPlay, o
    <3>2. bench \in [Sides -> Seq(Mons)] /\ Without(bench[o], m) \in Seq(Mons)
      BY <2>2, WithoutType DEF TypeOK
    <3>3. QED BY <3>1, <3>2
  <2>6. gone' \subseteq Mons /\ down' \subseteq Mons
    BY <2>1 DEF LeavesPlay, TypeOK
  <2>7. payments' \in [Mons -> Nat]
    BY <2>1 DEF TypeOK
  <2>8. prizes' \in [Sides -> Nat]
    <3>1. prizes \in [Sides -> Nat] /\ PrizesAfter(prizes[q], n) \in Nat
      BY <2>2, <2>3, PrizesLeft DEF TypeOK
    <3>2. prizes' = [prizes EXCEPT ![q] = PrizesAfter(prizes[q], n)]
      BY <2>1 DEF o
    <3>3. QED BY <3>1, <3>2
  <2>9. winner' \in Sides \cup {"none"}
    BY <2>1, <2>2 DEF TypeOK, o
  <2>10. vals' = vals /\ kept' = kept
    BY <1>1 DEF locals
  <2>11. QED BY <2>4, <2>5, <2>6, <2>7, <2>8, <2>9, <2>10 DEF TypeOK
<1>4. QED BY <1>2, <1>3

LEMMA TakePrizesTypes == ASSUME TypeOK, TakePrizes PROVE TypeOK'
<1>1. ASSUME NEW s \in Sides PROVE PrizesAfter(prizes[s], 1) \in Nat /\ prizes[s] \in Nat
  BY PrizesLeft DEF TypeOK
<1>2. prizes' \in [Sides -> Nat]
  BY <1>1 DEF TakePrizes
<1>3. winner' \in Sides \cup {"none"}
  BY DEF TakePrizes, TypeOK, Sides
<1>4. QED BY <1>2, <1>3 DEF TakePrizes, TypeOK, board, locals

LEMMA StepTypes == TypeOK /\ [Next]_vars => TypeOK'
<1> SUFFICES ASSUME TypeOK, [Next]_vars PROVE TypeOK'
  OBVIOUS
<1>1. CASE Idle \/ UNCHANGED vars
  <2>1. UNCHANGED <<board, locals, score>>
    BY <1>1, IdleSteps DEF vars
  <2>2. QED BY <2>1 DEF TypeOK, board, locals, score
<1>2. CASE Local
  BY <1>2, LocalSteps, LocalTypes DEF TypeOK, board, score
<1>3. CASE Hit
  BY <1>3, HitSteps, HitTypes DEF TypeOK, locals, score
<1>4. CASE Parry
  BY <1>4, ParryTypes DEF Parry, TypeOK, locals, score
<1>5. CASE Rearrange
  <2>1. UNCHANGED <<down, gone, locals, score>>
    BY <1>5 DEF Rearrange
  <2>2. QED BY <1>5, <2>1, RearrangeTypes DEF TypeOK, locals, score
<1>6. CASE Discard
  <2>1. Value(Now.ref) \in Mons
    BY <1>6 DEF Discard, Sound, Fails, At, OnPokemon
  <2>2. QED BY <1>6, <2>1 DEF Discard, TypeOK, locals, score
<1>7. CASE Declare
  BY <1>7 DEF Declare, TypeOK, board, locals
<1>8. CASE KnockOut
  BY <1>8, KnockOutTypes
<1>9. CASE TakePrizes
  BY <1>9, TakePrizesTypes
<1>10. QED BY <1>1, <1>2, <1>3, <1>4, <1>5, <1>6, <1>7, <1>8, <1>9 DEF Next, Idle, Local, Hit

(* Whatever a handler does, in whatever order, the lists of the board hold Pokemon, *)
(* and neither player takes more prizes than are left.                         *)
THEOREM TypeCorrect == Spec => []TypeOK
  BY BoardAtStart, StepTypes, PTL DEF Spec

-----------------------------------------------------------------------------
LEMMA LastPrizeAtStart == Init => LastPrizeWins
  BY ScriptAssumption DEF Init, LastPrizeWins

LEMMA LastPrizeStep == TypeOK /\ LastPrizeWins /\ [Next]_vars => LastPrizeWins'
<1> SUFFICES ASSUME TypeOK, LastPrizeWins, [Next]_vars PROVE LastPrizeWins'
  OBVIOUS
<1>1. CASE UNCHANGED <<prizes, winner>>
  BY <1>1 DEF LastPrizeWins, Over
<1>2. CASE KnockOut
  <2>1. CASE UNCHANGED <<board, score>>
    BY <1>1, <2>1 DEF score
  <2>2. CASE ~UNCHANGED <<board, score>>
    <3>1. PICK m \in Mons, n \in 0 .. MaxTaken :
            /\ prizes' = [prizes EXCEPT ![Other(Owner(m))] = PrizesAfter(@, n)]
            /\ winner' = IF Wins(Other(Owner(m))) THEN Other(Owner(m)) ELSE winner
      BY <1>2, <2>2, KnockOutScore
    <3> DEFINE q == Other(Owner(m))
    <3>2. q \in Sides /\ q # "none"
      BY MonsOwner DEF Sides
    <3> HIDE DEF q
    <3>3. CASE prizes'[q] = 0
      BY <3>1, <3>2, <3>3 DEF Wins, LastPrizeWins, Over, q
    <3>4. CASE prizes'[q] # 0
      <4>1. \A s \in Sides : prizes'[s] = 0 => prizes[s] = 0
        BY <3>1, <3>4 DEF TypeOK, q
      <4>2. Over => Over'
        BY <3>1, <3>2 DEF Over, q
      <4>3. QED BY <4>1, <4>2 DEF LastPrizeWins
    <3>5. QED BY <3>3, <3>4
  <2>3. QED BY <2>1, <2>2
<1>3. CASE TakePrizes
  <2>1. winner' = IF prizes'["own"] = 0 THEN "own" ELSE IF prizes'["foe"] = 0 THEN "foe" ELSE winner
    BY <1>3 DEF TakePrizes
  <2>2. QED BY <2>1 DEF LastPrizeWins, Over, Sides
<1>4. CASE Declare
  <2>1. prizes' = prizes /\ winner' \in Sides
    BY <1>4 DEF Declare
  <2>2. QED BY <2>1 DEF LastPrizeWins, Over, Sides
<1>5. CASE Idle \/ Local \/ Hit \/ Parry \/ Rearrange \/ Discard \/ UNCHANGED vars
  <2>1. UNCHANGED score
    BY <1>5, IdleSteps, LocalSteps, HitSteps DEF Parry, Rearrange, Discard, vars
  <2>2. QED BY <1>1, <2>1 DEF score
<1>6. QED BY <1>2, <1>3, <1>4, <1>5 DEF Next, Idle, Local, Hit

(* No sequence of effects lets a player hold no prizes in a game that goes on.  *)
THEOREM LastPrize == Spec => []LastPrizeWins
<1>1. Init => TypeOK /\ LastPrizeWins
  BY BoardAtStart, LastPrizeAtStart
<1>2. (TypeOK /\ LastPrizeWins) /\ [Next]_vars => (TypeOK /\ LastPrizeWins)'
  BY StepTypes, LastPrizeStep
<1>3. QED BY <1>1, <1>2, PTL DEF Spec

-----------------------------------------------------------------------------
LEMMA PaidStep == TypeOK /\ PaidIsGone /\ [Next]_vars => PaidIsGone'
<1> SUFFICES ASSUME TypeOK, PaidIsGone, [Next]_vars PROVE PaidIsGone'
  OBVIOUS
<1>1. CASE payments' = payments /\ gone \subseteq gone'
  BY <1>1 DEF PaidIsGone
<1>2. CASE KnockOut
  <2>1. CASE UNCHANGED <<board, score>>
    BY <1>1, <2>1 DEF score, board
  <2>2. CASE ~UNCHANGED <<board, score>>
    <3>1. PICK m \in Mons : LeavesPlay(m) /\ payments' = [payments EXCEPT ![m] = @ + 1]
      BY <1>2, <2>2, KnockOutScore
    <3>2. QED BY <3>1 DEF LeavesPlay, PaidIsGone, TypeOK
  <2>3. QED BY <2>1, <2>2
<1>3. CASE Idle \/ Local \/ Hit \/ UNCHANGED vars
  <2>1. payments' = payments /\ gone' = gone
    BY <1>3, IdleSteps, LocalSteps, HitSteps DEF vars, score, board
  <2>2. QED BY <1>1, <2>1
<1>4. CASE Parry \/ Rearrange \/ Discard \/ Declare \/ TakePrizes
  <2>1. payments' = payments /\ gone \subseteq gone'
    BY <1>4 DEF Parry, Rearrange, Discard, Declare, TakePrizes, score, board
  <2>2. QED BY <1>1, <2>1
<1>5. QED BY <1>2, <1>3, <1>4 DEF Next, Idle, Local, Hit

(* Prizes are never paid for a card that stays out of the discard pile.        *)
THEOREM PaidGone == Spec => []PaidIsGone
<1>1. Init => TypeOK /\ PaidIsGone
  BY BoardAtStart DEF Init, PaidIsGone
<1>2. (TypeOK /\ PaidIsGone) /\ [Next]_vars => (TypeOK /\ PaidIsGone)'
  BY StepTypes, PaidStep
<1>3. QED BY <1>1, <1>2, PTL DEF Spec

-----------------------------------------------------------------------------
(* A list of work: any sequence.                                               *)
Row(s) == s \in Seq(Range(s))

LEMMA RowFacts ==
  ASSUME NEW s, Row(s)
  PROVE  /\ Len(s) \in Nat /\ DOMAIN s = 1 .. Len(s)
         /\ s # <<>> => Len(s) > 0 /\ Head(s) = s[1]
         /\ Len(s) = 0 => s = <<>>
<1>1. s \in Seq(Range(s))
  BY DEF Row
<1> HIDE DEF Row
<1> QED BY <1>1

LEMMA RowOf == ASSUME NEW S, NEW s \in Seq(S) PROVE Row(s)
  BY SeqOfRange DEF Row, Range

(* What is left after the first is replaced by others.                         *)
LEMMA PushAt ==
  ASSUME NEW s, Row(s), s # <<>>, NEW ops, Row(ops)
  PROVE  LET t == ops \o Tail(s)
         IN  /\ Row(t) /\ Len(t) = Len(ops) + Len(s) - 1
             /\ \A i \in 1 .. Len(ops) : t[i] = ops[i]
             /\ \A i \in (Len(ops) + 1) .. Len(t) : t[i] = s[i + 1 - Len(ops)]
<1> DEFINE S == Range(s) \cup Range(ops)
           t == ops \o Tail(s)
<1>1. s \in Seq(S) /\ ops \in Seq(S)
  <2>1. s \in Seq(Range(s)) /\ ops \in Seq(Range(ops))
    BY DEF Row
  <2> QED BY <2>1, SeqMonotonic
<1> HIDE DEF S
<1>2. /\ Tail(s) \in Seq(S) /\ Len(Tail(s)) = Len(s) - 1
      /\ \A i \in 1 .. Len(Tail(s)) : Tail(s)[i] = s[i + 1]
  BY <1>1, HeadTailProperties
<1>3. /\ t \in Seq(S) /\ Len(t) = Len(ops) + Len(Tail(s))
      /\ \A i \in 1 .. Len(ops) + Len(Tail(s)) :
           t[i] = IF i <= Len(ops) THEN ops[i] ELSE Tail(s)[i - Len(ops)]
  BY <1>1, <1>2, ConcatProperties
<1>4. Len(s) \in Nat /\ Len(ops) \in Nat
  BY <1>1
<1>5. Row(t)
  BY <1>3, RowOf
<1>6. \A i \in 1 .. Len(ops) : t[i] = ops[i]
  BY <1>2, <1>3, <1>4
<1>7. \A i \in (Len(ops) + 1) .. Len(t) : t[i] = s[i + 1 - Len(ops)]
  BY <1>2, <1>3, <1>4
<1> QED BY <1>2, <1>3, <1>5, <1>6, <1>7

(* What is left from the k-th on.                                              *)
LEMMA SkipAt ==
  ASSUME NEW s, Row(s), NEW k \in 1 .. Len(s) + 1
  PROVE  LET t == SubSeq(s, k, Len(s))
         IN  /\ Row(t) /\ Len(t) = Len(s) + 1 - k
             /\ \A i \in 1 .. Len(t) : t[i] = s[i + k - 1]
<1> DEFINE S == Range(s)
           t == SubSeq(s, k, Len(s))
<1>1. s \in Seq(S)
  BY DEF Row
<1> HIDE DEF S
<1>2. Len(s) \in Nat /\ \A i \in k .. Len(s) : s[i] \in S
  BY <1>1
<1>3. /\ t \in Seq(S) /\ Len(t) = IF k <= Len(s) THEN Len(s) - k + 1 ELSE 0
      /\ \A i \in 1 .. Len(s) - k + 1 : t[i] = s[k + i - 1]
  BY <1>2, SubSeqProperties
<1>4. Row(t)
  BY <1>3, RowOf
<1> QED BY <1>2, <1>3, <1>4

LEMMA FirstIsIn ==
  ASSUME NEW S, S \subseteq Nat, S # {}
  PROVE  First(S) \in S /\ \A j \in S : First(S) <= j
<1>1. PICK n \in S : n \in Nat
  OBVIOUS
<1> DEFINE U == 1 .. n
           T == {1 .. i : i \in {k \in S : k <= n}}
<1>2. IsWellFoundedOn(StrictSubsetOrdering(U), SUBSET U)
  <2>1. IsFiniteSet(U)
    BY FS_Interval
  <2>2. FiniteSubsetsOf(U) = SUBSET U /\ IsWellFoundedOn(StrictSubsetOrdering(U), FiniteSubsetsOf(U))
    BY <2>1, FS_FiniteSubsetsOfFinite, FS_StrictSubsetOrderingWellFounded
  <2> HIDE DEF U
  <2> QED BY <2>2, Zenon
<1>3. T \subseteq SUBSET U /\ T # {}
  BY <1>1
<1>4. PICK u \in T : \A x \in T : ~(<<x, u>> \in StrictSubsetOrdering(U))
  <2> HIDE DEF T, U
  <2> QED BY <1>2, <1>3, WFMin
<1>5. PICK i \in S : i <= n /\ u = 1 .. i
  BY <1>4
<1>6. ASSUME NEW j \in S, j < i PROVE FALSE
  <2>1. 1 .. j \in T /\ 1 .. j \subseteq U /\ u \subseteq U
    BY <1>1, <1>5, <1>6
  <2>2. 1 .. j \subseteq u /\ i \in u /\ i \notin 1 .. j
    BY <1>5, <1>6
  <2>3. <<1 .. j, u>> \in StrictSubsetOrdering(U)
    <3> HIDE DEF U, T
    <3> QED BY <2>1, <2>2 DEF StrictSubsetOrdering
  <2> QED BY <1>4, <2>1, <2>3
<1>7. \A j \in S : i <= j
  BY <1>5, <1>6
<1> QED BY <1>7 DEF First

LEMMA RowNone == Row(<<>>) /\ Len(<<>>) = 0
  BY RowOf, EmptySeq
LEMMA RowOne == ASSUME NEW x PROVE Row(<<x>>) /\ Len(<<x>>) = 1 /\ <<x>>[1] = x
<1>1. <<x>> \in Seq({x})
  OBVIOUS
<1> QED BY <1>1, RowOf
LEMMA RowTwo ==
  ASSUME NEW x, NEW y PROVE Row(<<x, y>>) /\ Len(<<x, y>>) = 2 /\ <<x, y>>[1] = x /\ <<x, y>>[2] = y
<1>1. <<x, y>> \in Seq({x, y})
  OBVIOUS
<1> QED BY <1>1, RowOf
LEMMA RowMore ==
  ASSUME NEW b, Row(b), NEW x
  PROVE  LET t == b \o <<x>>
         IN  /\ Row(t) /\ Len(t) = Len(b) + 1 /\ t[Len(b) + 1] = x
             /\ \A i \in 1 .. Len(b) : t[i] = b[i]
<1> DEFINE S == Range(b) \cup {x}
           t == b \o <<x>>
<1>1. b \in Seq(S) /\ <<x>> \in Seq(S)
  <2>1. b \in Seq(Range(b))
    BY DEF Row
  <2>2. b \in Seq(S)
    BY <2>1, SeqMonotonic
  <2> QED BY <2>2
<1> HIDE DEF S
<1>2. /\ t \in Seq(S) /\ Len(t) = Len(b) + Len(<<x>>)
      /\ \A i \in 1 .. Len(b) + Len(<<x>>) : t[i] = IF i <= Len(b) THEN b[i] ELSE <<x>>[i - Len(b)]
  BY <1>1, ConcatProperties
<1>3. Len(b) \in Nat /\ Len(<<x>>) = 1 /\ <<x>>[1] = x
  BY <1>1
<1>4. Row(t)
  BY <1>2, RowOf
<1> QED BY <1>2, <1>3, <1>4

-----------------------------------------------------------------------------
(* What a script leaves to do: its own operations, loops in progress, returns, and *)
(* before them the examinations the shared functions have begun.               *)
Internals == {"ko", "out", "late out", "parry", "parried", "sweep", "tour"}
Internal(o) == o.op \in Internals
Parrying == {"parry", "parried"}

InnerWork(o) ==
    \/ /\ o.op \in {"ko", "out", "late out"} /\ o.mon \in Mons
       /\ o = [op |-> o.op, mon |-> o.mon, needles |-> o.needles]
    \/ o.op \in {"parry", "parried"} /\ o.mon \in Mons /\ o = [op |-> o.op, mon |-> o.mon]
    \/ o.op = "sweep" /\ o.list \in Seq(Mons) /\ o = [op |-> "sweep", list |-> o.list]
    \/ o.op = "tour" /\ o.side \in Sides /\ o = [op |-> "tour", side |-> o.side]

OuterWork(sc, o) ==
    \/ o \in Ops(sc)
    \/ /\ o.op = "again" /\ o.body \in Blocks(sc)
       /\ o = [op |-> "again", cond |-> o.cond, body |-> o.body]
    \/ /\ o.op = "next" /\ o.body \in Blocks(sc) /\ o.list \in Seq(Mons)
       /\ o = [op |-> "next", var |-> o.var, list |-> o.list, body |-> o.body]
    \/ o = [op |-> "ret"]

Work(sc, o) == InnerWork(o) \/ OuterWork(sc, o)

Queue(sc, s) ==
    /\ Row(s)
    /\ \A i \in 1 .. Len(s) : Work(sc, s[i])
    /\ \A i, j \in 1 .. Len(s) : i < j /\ Internal(s[j]) => Internal(s[i])
    /\ \A i \in 1 .. Len(s) : s[i].op \in Parrying => i < Len(s) /\ s[i + 1].op = "ko"

Begun == Orderly(script) /\ TypeOK /\ Queue(script, todo)

(* todo after a step: ops in the place of the first operation.                 *)
Becomes(ops) == todo # <<>> /\ todo' = ops \o Tail(todo)

-----------------------------------------------------------------------------
LEMMA OuterNotInternal ==
  ASSUME NEW sc, Orderly(sc), NEW o, OuterWork(sc, o)
  PROVE  ~Internal(o)
<1>1. CASE o \in Ops(sc)
  <2>1. o.op \in Vocabulary
    BY <1>1 DEF Orderly
  <2>2. Vocabulary \cap Internals = {}
    BY DEF Vocabulary, Internals, Controlling, Assigning, Touching, Sparing, Lowering, Knocking,
           Shifting, Moving, Awarding
  <2> QED BY <2>1, <2>2 DEF Internal
<1>2. CASE o \notin Ops(sc)
  <2>1. o.op = "again" \/ o.op = "next" \/ o = [op |-> "ret"]
    BY <1>2 DEF OuterWork
  <2>2. [op |-> "ret"].op = "ret"
    OBVIOUS
  <2>3. o.op \in {"again", "next", "ret"}
    BY <2>1, <2>2
  <2> QED BY <2>3 DEF Internal, Internals
<1> QED BY <1>1, <1>2

LEMMA InnerInternal == ASSUME NEW o, InnerWork(o) PROVE Internal(o)
  BY DEF InnerWork, Internal, Internals

LEMMA BlockRow ==
  ASSUME NEW sc, Orderly(sc), NEW b \in Blocks(sc)
  PROVE  Row(b) /\ \A i \in 1 .. Len(b) : b[i] \in Ops(sc) /\ OuterWork(sc, b[i])
<1>1. b \in Seq(Ops(sc))
  BY DEF Orderly
<1>2. Row(b)
  BY <1>1, RowOf
<1>3. \A i \in 1 .. Len(b) : b[i] \in Ops(sc)
  BY <1>1
<1> QED BY <1>2, <1>3 DEF OuterWork

LEMMA BodyIsBlock ==
  ASSUME NEW sc, Orderly(sc), NEW o \in Ops(sc)
  PROVE  Bodies(o) \subseteq Blocks(sc)
<1>1. PICK b \in Blocks(sc) : o \in Range(b)
  BY DEF Ops
<1>2. \A B : \A c \in B : \A x \in Range(c) : Bodies(x) \subseteq WithBodies(B)
  BY DEF WithBodies
<1>3. Bodies(o) \subseteq WithBodies(Blocks(sc))
  BY <1>1, <1>2
<1> QED BY <1>3 DEF Orderly

LEMMA ScriptIsBlock == ASSUME NEW sc PROVE sc \in Blocks(sc)
<1>1. \A B : B \subseteq WithBodies(B)
  BY DEF WithBodies
<1> QED BY <1>1 DEF Blocks

(* The first operation decides what may be behind it.                          *)
LEMMA HeadFacts ==
  ASSUME NEW sc, Orderly(sc), Queue(sc, todo), todo # <<>>
  PROVE  /\ Len(todo) \in Nat /\ Len(todo) > 0 /\ DOMAIN todo = 1 .. Len(todo)
         /\ Now = todo[1] /\ Work(sc, Now)
         /\ ~Internal(Now) => OuterWork(sc, Now) /\ \A i \in 1 .. Len(todo) : ~Internal(todo[i])
         /\ Internal(Now) => InnerWork(Now)
<1>1. /\ Len(todo) \in Nat /\ Len(todo) > 0 /\ DOMAIN todo = 1 .. Len(todo) /\ Now = todo[1]
  BY RowFacts DEF Queue, Now
<1>2. Work(sc, Now)
  BY <1>1 DEF Queue
<1>3. ~Internal(Now) => \A i \in 1 .. Len(todo) : ~Internal(todo[i])
  BY <1>1 DEF Queue
<1> QED BY <1>1, <1>2, <1>3, InnerInternal, OuterNotInternal DEF Work

LEMMA QueuePush ==
  ASSUME NEW sc, Queue(sc, todo), NEW ops, Becomes(ops), Row(ops),
         \A i \in 1 .. Len(ops) : Work(sc, ops[i]),
         \A i, j \in 1 .. Len(ops) : i < j /\ Internal(ops[j]) => Internal(ops[i]),
         Internal(todo[1]) => \A i \in 1 .. Len(ops) : Internal(ops[i]),
         \A i \in 1 .. Len(ops) : ops[i].op \in Parrying =>
            \/ i < Len(ops) /\ ops[i + 1].op = "ko"
            \/ i = Len(ops) /\ todo[1].op \in Parrying
  PROVE  Queue(sc, todo')
<1> DEFINE t == ops \o Tail(todo)
           n == Len(ops)
<1>1. /\ Row(t) /\ Len(t) = n + Len(todo) - 1
      /\ \A i \in 1 .. n : t[i] = ops[i]
      /\ \A i \in (n + 1) .. Len(t) : t[i] = todo[i + 1 - n]
  BY PushAt DEF Becomes, Queue
<1>2. n \in Nat /\ Len(todo) \in Nat /\ Len(todo) > 0
  BY RowFacts DEF Becomes, Queue
<1>3. todo' = t
  BY DEF Becomes
<1> HIDE DEF t, n
<1>4. ASSUME NEW i \in 1 .. Len(t) PROVE Work(sc, t[i])
  <2>1. CASE i <= n
    BY <1>1, <1>2, <2>1 DEF n
  <2>2. CASE i > n
    <3>1. i + 1 - n \in 1 .. Len(todo) /\ t[i] = todo[i + 1 - n]
      BY <1>1, <1>2, <2>2
    <3> QED BY <3>1 DEF Queue
  <2> QED BY <1>1, <1>2, <2>1, <2>2
<1>5. ASSUME NEW i \in 1 .. Len(t), NEW j \in 1 .. Len(t), i < j, Internal(t[j]) PROVE Internal(t[i])
  <2>1. CASE j <= n
    <3>1. i \in 1 .. n /\ j \in 1 .. n
      BY <1>2, <1>5, <2>1
    <3> QED BY <1>1, <1>5, <3>1 DEF n
  <2>2. CASE j > n
    <3>1. /\ j + 1 - n \in 1 .. Len(todo) /\ t[j] = todo[j + 1 - n] /\ 1 \in 1 .. Len(todo)
          /\ j + 1 - n > 1
      BY <1>1, <1>2, <2>2
    <3>2. Internal(todo[1])
      BY <1>5, <3>1 DEF Queue
    <3>3. CASE i <= n
      BY <1>1, <1>2, <3>2, <3>3 DEF n
    <3>4. CASE i > n
      <4>1. i \in (n + 1) .. Len(t) /\ i + 1 - n \in 1 .. Len(todo) /\ i + 1 - n < j + 1 - n
        BY <1>1, <1>2, <1>5, <3>4
      <4>2. t[i] = todo[i + 1 - n]
        BY <1>1, <4>1
      <4> QED BY <1>5, <3>1, <4>1, <4>2 DEF Queue
    <3> QED BY <1>1, <1>2, <3>3, <3>4
  <2> QED BY <1>1, <1>2, <2>1, <2>2
<1>6. ASSUME NEW i \in 1 .. Len(t), t[i].op \in Parrying PROVE i < Len(t) /\ t[i + 1].op = "ko"
  <2>1. CASE i < n
    <3>1. i \in 1 .. n /\ i + 1 \in 1 .. n
      BY <1>2, <2>1
    <3>2. t[i] = ops[i] /\ t[i + 1] = ops[i + 1] /\ i # n
      BY <1>1, <2>1, <3>1
    <3> QED BY <1>1, <1>2, <1>6, <2>1, <3>1, <3>2 DEF n
  <2>2. CASE i = n
    <3>1. t[i] = ops[i] /\ i \in 1 .. n
      BY <1>1, <1>2, <2>2
    <3>2. todo[1].op \in Parrying
      BY <1>2, <1>6, <2>2, <3>1 DEF n
    <3>3. 1 < Len(todo) /\ todo[2].op = "ko"
      BY <1>2, <3>2 DEF Queue
    <3>4. n + 1 \in (n + 1) .. Len(t) /\ (n + 1) + 1 - n = 2
      BY <1>1, <1>2, <3>3
    <3>5. t[n + 1] = todo[2]
      BY <1>1, <3>4
    <3> QED BY <1>2, <2>2, <3>3, <3>4, <3>5
  <2>3. CASE i > n
    <3>1. i \in (n + 1) .. Len(t) /\ i + 1 - n \in 1 .. Len(todo)
      BY <1>1, <1>2, <2>3
    <3>2. t[i] = todo[i + 1 - n]
      BY <1>1, <3>1
    <3>3. i + 1 - n < Len(todo) /\ todo[i + 1 - n + 1].op = "ko"
      BY <1>6, <3>1, <3>2 DEF Queue
    <3>4. i < Len(t) /\ i + 1 \in (n + 1) .. Len(t) /\ (i + 1) + 1 - n = i + 1 - n + 1
      BY <1>1, <1>2, <2>3, <3>3
    <3>5. t[i + 1] = todo[(i + 1) + 1 - n]
      BY <1>1, <3>4
    <3> QED BY <3>3, <3>4, <3>5
  <2> QED BY <1>1, <1>2, <2>1, <2>2, <2>3
<1> QED BY <1>1, <1>3, <1>4, <1>5, <1>6 DEF Queue

LEMMA QueueSkip ==
  ASSUME NEW sc, Queue(sc, todo), NEW k \in 1 .. Len(todo) + 1, todo' = From(k)
  PROVE  Queue(sc, todo')
<1> DEFINE t == SubSeq(todo, k, Len(todo))
<1>1. Row(t) /\ Len(t) = Len(todo) + 1 - k /\ \A i \in 1 .. Len(t) : t[i] = todo[i + k - 1]
  BY SkipAt DEF Queue
<1>2. Len(todo) \in Nat
  BY RowFacts DEF Queue
<1>3. todo' = t
  BY DEF From
<1> HIDE DEF t
<1>4. ASSUME NEW i \in 1 .. Len(t) PROVE i + k - 1 \in 1 .. Len(todo) /\ t[i] = todo[i + k - 1]
  BY <1>1, <1>2
<1>5. \A i \in 1 .. Len(t) : Work(sc, t[i])
  BY <1>4 DEF Queue
<1>6. \A i, j \in 1 .. Len(t) : i < j /\ Internal(t[j]) => Internal(t[i])
  <2>1. SUFFICES ASSUME NEW i \in 1 .. Len(t), NEW j \in 1 .. Len(t), i < j, Internal(t[j])
                 PROVE  Internal(t[i])
    OBVIOUS
  <2>2. i + k - 1 < j + k - 1
    BY <1>1, <1>2, <2>1
  <2> QED BY <1>4, <2>1, <2>2 DEF Queue
<1>7. ASSUME NEW i \in 1 .. Len(t), t[i].op \in Parrying PROVE i < Len(t) /\ t[i + 1].op = "ko"
  <2>1. i + k - 1 < Len(todo) /\ todo[i + k - 1 + 1].op = "ko"
    BY <1>4, <1>7 DEF Queue
  <2>2. i < Len(t) /\ i + 1 \in 1 .. Len(t) /\ (i + 1) + k - 1 = i + k - 1 + 1
    BY <1>1, <1>2, <2>1
  <2>3. t[i + 1] = todo[(i + 1) + k - 1]
    BY <1>1, <2>2
  <2> QED BY <2>1, <2>2, <2>3
<1> QED BY <1>1, <1>3, <1>5, <1>6, <1>7 DEF Queue

-----------------------------------------------------------------------------
(* The operations of the script itself, and those that call a shared function. *)
OwnStep ==
    \/ Fail \/ Branch \/ BranchSame \/ Loop \/ StartEach \/ NextEach \/ LeaveLoop \/ Call
    \/ Return \/ Assign \/ Store \/ Touch \/ Read \/ SetHitPoints \/ Rearrange
    \/ Discard \/ Declare \/ TakePrizes

Launch == BlowLands \/ StrikeLands \/ SplashLands \/ CheckKo \/ Reshape \/ StadiumGone

InnerStep == Parry \/ Parried \/ Tour \/ Sweep \/ Examine \/ KnockOut

LEMMA StepKinds == Next => OwnStep \/ Launch \/ InnerStep \/ Slip \/ UNCHANGED vars
  BY DEF Next, OwnStep, Launch, InnerStep, Stop

LEMMA AtHead == ASSUME NEW K, At(K) PROVE todo # <<>> /\ Now.op \in K
  BY DEF At, Done

LEMMA OwnOp ==
  ASSUME NEW sc, NEW o, OuterWork(sc, o), o.op \in Vocabulary
  PROVE  o \in Ops(sc)
<1>1. \A x \in {"again", "next", "ret"} : x \notin Vocabulary
  BY DEF Vocabulary, Controlling, Assigning, Touching, Sparing, Lowering, Knocking, Shifting,
         Moving, Awarding
<1>2. [op |-> "ret"].op = "ret"
  OBVIOUS
<1> QED BY <1>1, <1>2 DEF OuterWork

LEMMA NotInner == ASSUME NEW o, o.op \in Vocabulary \cup {"again", "next", "ret"} PROVE ~Internal(o)
  BY DEF Internal, Internals, Vocabulary, Controlling, Assigning, Touching, Sparing, Lowering,
         Knocking, Shifting, Moving, Awarding

LEMMA OnwardIs == ASSUME NEW sc, Queue(sc, todo), todo # <<>>, Onward PROVE Becomes(<<>>)
<1>1. todo \in Seq(Range(todo))
  BY DEF Queue, Row
<1>2. Tail(todo) \in Seq(Range(todo))
  BY <1>1, HeadTailProperties
<1>3. <<>> \o Tail(todo) = Tail(todo)
  BY <1>2, ConcatEmptySeq
<1> QED BY <1>3 DEF Onward, Rest, Becomes

LEMMA PoolType == ASSUME TypeOK, NEW name PROVE Pool(name) \in Seq(Mons)
<1>1. \A s \in Sides : bench[s] \in Seq(Mons) /\ ActiveList(s) \in Seq(Mons)
  BY ActiveListType DEF TypeOK
<1>2. \A s \in Sides : PlayList(s) \in Seq(Mons)
  BY <1>1 DEF PlayList
<1>3. \A k \in Lists : kept[k] \in Seq(Mons)
  BY DEF TypeOK
<1>4. "own" \in Sides /\ "foe" \in Sides
  BY DEF Sides
<1>5. /\ PlayList("own") \o PlayList("foe") \in Seq(Mons)
      /\ bench["own"] \o bench["foe"] \in Seq(Mons)
      /\ bench["own"] \o PlayList("foe") \in Seq(Mons)
      /\ <<>> \in Seq(Mons)
  BY <1>1, <1>2, <1>4
<1> QED BY <1>1, <1>2, <1>3, <1>4, <1>5 DEF Pool

-----------------------------------------------------------------------------
(* Work of the script that a step adds: a loop is over a pool of the board, or   *)
(* over what is left of the list of the loop in progress.                      *)
Sprung(o) ==
    /\ OuterWork(script, o)
    /\ o.op = "next" =>
         \/ \E name : o.list = Pool(name)
         \/ Now.op = "next" /\ Now.list \in Seq(Mons) /\ Now.list # <<>> /\ o.list = Tail(Now.list)

(* What a step of the script leaves: some of its own operations in the place of *)
(* the first, or what is behind the end of a loop or of a called handler.       *)
OwnMove ==
    /\ todo # <<>> /\ ~Internal(Now) /\ script' = script
    /\ \/ \E ops : /\ Becomes(ops) /\ Row(ops)
                   /\ \A i \in 1 .. Len(ops) : Sprung(ops[i])
       \/ todo' = <<>>
       \/ \E k \in 1 .. Len(todo) + 1 : todo' = From(k)

LEMMA BlockSprung ==
  ASSUME Begun, NEW b \in Blocks(script)
  PROVE  Row(b) /\ \A i \in 1 .. Len(b) : Sprung(b[i])
<1>1. Row(b) /\ \A i \in 1 .. Len(b) : b[i] \in Ops(script) /\ OuterWork(script, b[i])
  BY BlockRow DEF Begun
<1>2. \A o \in Ops(script) : o.op # "next"
  BY DEF Begun, Orderly, Vocabulary, Controlling, Assigning, Touching, Sparing, Lowering,
         Knocking, Shifting, Moving, Awarding
<1> QED BY <1>1, <1>2 DEF Sprung

LEMMA PushBlock ==
  ASSUME Begun, NEW b \in Blocks(script), todo # <<>>, todo' = b \o Rest
  PROVE  \E ops : /\ Becomes(ops) /\ Row(ops)
                  /\ \A i \in 1 .. Len(ops) : Sprung(ops[i])
  BY BlockSprung DEF Becomes, Rest

LEMMA PushBlockAnd ==
  ASSUME Begun, NEW b \in Blocks(script), NEW o, Sprung(o), todo # <<>>,
         todo' = (b \o <<o>>) \o Rest
  PROVE  \E ops : /\ Becomes(ops) /\ Row(ops)
                  /\ \A i \in 1 .. Len(ops) : Sprung(ops[i])
<1> DEFINE t == b \o <<o>>
<1>1. Row(b) /\ \A i \in 1 .. Len(b) : Sprung(b[i])
  BY BlockSprung
<1>2. Row(t) /\ Len(t) = Len(b) + 1 /\ t[Len(b) + 1] = o /\ \A i \in 1 .. Len(b) : t[i] = b[i]
  BY <1>1, RowMore
<1>3. Len(b) \in Nat
  BY <1>1, RowFacts
<1>4. Becomes(t)
  BY DEF Becomes, Rest
<1> HIDE DEF t
<1>5. \A i \in 1 .. Len(t) : Sprung(t[i])
  BY <1>1, <1>2, <1>3
<1> QED BY <1>2, <1>4, <1>5

LEMMA PushOnward ==
  ASSUME Begun, todo # <<>>, Onward
  PROVE  \E ops : /\ Becomes(ops) /\ Row(ops)
                  /\ \A i \in 1 .. Len(ops) : Sprung(ops[i])
<1>1. Becomes(<<>>) /\ Row(<<>>) /\ Len(<<>>) = 0
  BY OnwardIs, RowNone DEF Begun
<1>2. \A i \in 1 .. 0 : Sprung(<<>>[i])
  OBVIOUS
<1> QED BY <1>1, <1>2

LEMMA OwnMoves == ASSUME Begun, OwnStep PROVE OwnMove
<1> DEFINE Goes == \E ops : /\ Becomes(ops) /\ Row(ops)
                            /\ \A i \in 1 .. Len(ops) : Sprung(ops[i])
<1>1. ASSUME NEW K, At(K), K \subseteq Vocabulary \cup {"again", "next", "ret"}
      PROVE  /\ todo # <<>> /\ ~Internal(Now) /\ OuterWork(script, Now) /\ Now.op \in K
             /\ Now.op \in Vocabulary => Now \in Ops(script) /\ Bodies(Now) \subseteq Blocks(script)
  <2>1. todo # <<>> /\ Now.op \in K
    BY <1>1, AtHead
  <2>2. ~Internal(Now)
    BY <1>1, <2>1, NotInner
  <2>3. OuterWork(script, Now)
    BY <2>1, <2>2, HeadFacts DEF Begun
  <2>4. Now.op \in Vocabulary => Now \in Ops(script)
    BY <2>3, OwnOp
  <2>5. Now.op \in Vocabulary => Bodies(Now) \subseteq Blocks(script)
    BY <2>4, BodyIsBlock DEF Begun
  <2> QED BY <2>1, <2>2, <2>3, <2>4, <2>5
<1>2. /\ {"If"} \subseteq Vocabulary /\ {"IfSame"} \subseteq Vocabulary /\ {"Each"} \subseteq Vocabulary
      /\ {"While"} \subseteq Vocabulary /\ {"Do"} \subseteq Vocabulary
      /\ {"Break", "Continue"} \subseteq Vocabulary /\ {"Quit"} \subseteq Vocabulary
      /\ Assigning \subseteq Vocabulary /\ HpSet \subseteq Vocabulary /\ Touching \subseteq Vocabulary
      /\ {"Lift", "Seat", "Join", "Leave", "Remove", "Swap", "Recruit"} \subseteq Vocabulary
      /\ OnPokemon \subseteq Vocabulary /\ {"Raise", "Choose", "Remove", "Swap"} \subseteq Vocabulary
      /\ {"Win"} \subseteq Vocabulary /\ {"Prize"} \subseteq Vocabulary /\ {"Away"} \subseteq Vocabulary
  BY DEF Vocabulary, Controlling, Assigning, Touching, Sparing, Lowering, Knocking, Shifting,
         Moving, Awarding, HpSet, OnPokemon
<1>3. CASE Fail
  <2>1. At({"Raise"}) \/ At(OnPokemon) \/ At({"Remove", "Swap"}) \/ At({"Choose"})
    BY <1>3 DEF Fail, Fails
  <2>2. todo # <<>> /\ ~Internal(Now)
    BY <1>1, <1>2, <2>1
  <2> QED BY <1>3, <2>2 DEF Fail, OwnMove
<1>4. CASE Branch
  <2>1. /\ todo # <<>> /\ ~Internal(Now) /\ Now.op = "If" /\ Bodies(Now) \subseteq Blocks(script)
    BY <1>1, <1>2, <1>4 DEF Branch, Sound
  <2>2. Now.then \in Blocks(script) /\ Now.else \in Blocks(script)
    BY <2>1 DEF Bodies
  <2>3. script' = script /\ (todo' = Now.then \o Rest \/ todo' = Now.else \o Rest)
    BY <1>4 DEF Branch, Then, Keeps
  <2>4. Goes
    BY <2>1, <2>2, <2>3, PushBlock
  <2> QED BY <2>1, <2>3, <2>4 DEF OwnMove
<1>5. CASE BranchSame
  <2>1. /\ todo # <<>> /\ ~Internal(Now) /\ Now.op = "IfSame" /\ Bodies(Now) \subseteq Blocks(script)
    BY <1>1, <1>2, <1>5 DEF BranchSame, Sound
  <2>2. Now.then \in Blocks(script) /\ Now.else \in Blocks(script)
    BY <2>1 DEF Bodies
  <2>3. script' = script /\ (todo' = Now.then \o Rest \/ todo' = Now.else \o Rest)
    BY <1>5 DEF BranchSame, Then, Keeps
  <2>4. Goes
    BY <2>1, <2>2, <2>3, PushBlock
  <2> QED BY <2>1, <2>3, <2>4 DEF OwnMove
<1>6. CASE Call
  <2>1. /\ todo # <<>> /\ ~Internal(Now) /\ Now.op = "Do" /\ Bodies(Now) \subseteq Blocks(script)
    BY <1>1, <1>2, <1>6 DEF Call, Sound
  <2>2. Now.body \in Blocks(script) /\ Sprung([op |-> "ret"])
    BY <2>1 DEF Bodies, OuterWork, Sprung
  <2>3. script' = script /\ todo' = (Now.body \o <<[op |-> "ret"]>>) \o Rest
    BY <1>6 DEF Call, Then, Keeps
  <2>4. Goes
    BY <2>1, <2>2, <2>3, PushBlockAnd
  <2> QED BY <2>1, <2>3, <2>4 DEF OwnMove
<1>7. CASE Loop
  <2>1. /\ todo # <<>> /\ ~Internal(Now) /\ Now.op \in {"While", "again"} /\ OuterWork(script, Now)
        /\ Now.op = "While" => Now \in Ops(script) /\ Bodies(Now) \subseteq Blocks(script)
    BY <1>1, <1>2, <1>7 DEF Loop, Sound
  <2>2. Now.body \in Blocks(script) /\ Now = [op |-> Now.op, cond |-> Now.cond, body |-> Now.body]
    <3>1. CASE Now.op = "While"
      <4>1. Now = While(Now.cond, Now.body)
        BY <2>1, <3>1 DEF Begun, Orderly
      <4> QED BY <2>1, <3>1, <4>1 DEF Bodies, While
    <3>2. CASE Now.op = "again"
      <4>1. "again" \notin Vocabulary /\ [op |-> "ret"].op # "again"
        BY DEF Vocabulary, Controlling, Assigning, Touching, Sparing, Lowering, Knocking, Shifting,
               Moving, Awarding
      <4>2. Now \notin Ops(script)
        BY <3>2, <4>1 DEF Begun, Orderly
      <4> QED BY <2>1, <3>2, <4>1, <4>2 DEF OuterWork
    <3> QED BY <2>1, <3>1, <3>2
  <2>3. Sprung([Now EXCEPT !.op = "again"])
    <3>1. [Now EXCEPT !.op = "again"] = [op |-> "again", cond |-> Now.cond, body |-> Now.body]
      BY <2>2
    <3> QED BY <2>2, <3>1 DEF OuterWork, Sprung
  <2>4. /\ script' = script
        /\ Onward \/ todo' = (Now.body \o <<[Now EXCEPT !.op = "again"]>>) \o Rest
    BY <1>7 DEF Loop, Then, Keeps
  <2>5. Goes
    BY <2>1, <2>2, <2>3, <2>4, PushBlockAnd, PushOnward
  <2> QED BY <2>1, <2>4, <2>5 DEF OwnMove
<1>8. CASE StartEach
  <2> DEFINE f == [op |-> "next", var |-> Now.var, list |-> Pool(Now.pool), body |-> Now.body]
  <2>1. /\ todo # <<>> /\ ~Internal(Now) /\ Now.op = "Each" /\ Bodies(Now) \subseteq Blocks(script)
    BY <1>1, <1>2, <1>8 DEF StartEach, Sound
  <2>2. Now.body \in Blocks(script) /\ Pool(Now.pool) \in Seq(Mons)
    BY <2>1, PoolType DEF Bodies, Begun
  <2>3. Sprung(f)
    BY <2>2 DEF OuterWork, Sprung
  <2>4. script' = script /\ todo' = <<f>> \o Rest
    BY <1>8 DEF StartEach, Then, Keeps
  <2> HIDE DEF f
  <2>5. Becomes(<<f>>) /\ Row(<<f>>) /\ \A i \in 1 .. Len(<<f>>) : Sprung(<<f>>[i])
    BY <2>1, <2>3, <2>4, RowOne DEF Becomes, Rest
  <2> QED BY <2>1, <2>4, <2>5 DEF OwnMove
<1>9. CASE NextEach
  <2>1. /\ todo # <<>> /\ ~Internal(Now) /\ Now.op = "next" /\ OuterWork(script, Now)
    BY <1>1, <1>2, <1>9 DEF NextEach, Sound
  <2>2. /\ Now.body \in Blocks(script) /\ Now.list \in Seq(Mons)
        /\ Now = [op |-> "next", var |-> Now.var, list |-> Now.list, body |-> Now.body]
    <3>1. "next" \notin Vocabulary /\ [op |-> "ret"].op # "next"
      BY DEF Vocabulary, Controlling, Assigning, Touching, Sparing, Lowering, Knocking, Shifting,
             Moving, Awarding
    <3>2. Now \notin Ops(script)
      BY <2>1, <3>1 DEF Begun, Orderly
    <3> QED BY <2>1, <3>1, <3>2 DEF OuterWork
  <2>3. Now.list # <<>> => Sprung([Now EXCEPT !.list = Tail(Now.list)])
    <3>1. Now.list # <<>> => Tail(Now.list) \in Seq(Mons)
      BY <2>2, HeadTailProperties
    <3>2. \A o, a, b, l, x : o = [op |-> "next", var |-> a, list |-> l, body |-> b]
             => [o EXCEPT !.list = x] = [op |-> "next", var |-> a, list |-> x, body |-> b]
      OBVIOUS
    <3>3. [Now EXCEPT !.list = Tail(Now.list)]
            = [op |-> "next", var |-> Now.var, list |-> Tail(Now.list), body |-> Now.body]
      BY <2>2, <3>2, Zenon
    <3>4. [op |-> "next", var |-> Now.var, list |-> Tail(Now.list), body |-> Now.body].list = Tail(Now.list)
      OBVIOUS
    <3> QED BY <2>1, <2>2, <3>1, <3>3, <3>4 DEF OuterWork, Sprung
  <2>4. /\ script' = script
        /\ \/ Onward
           \/ /\ Now.list # <<>>
              /\ todo' = (Now.body \o <<[Now EXCEPT !.list = Tail(Now.list)]>>) \o Rest
    BY <1>9 DEF NextEach, Then, Keeps
  <2>5. Goes
    BY <2>1, <2>2, <2>3, <2>4, PushBlockAnd, PushOnward
  <2> QED BY <2>1, <2>4, <2>5 DEF OwnMove
<1>10. ASSUME NEW marks, Marked(marks) # {}
       PROVE  First(Marked(marks)) \in 1 .. Len(todo)
  <2>1. Marked(marks) \subseteq 1 .. Len(todo) /\ Len(todo) \in Nat
    BY RowFacts DEF Marked, Begun, Queue
  <2> QED BY <1>10, <2>1, FirstIsIn
<1>11. CASE LeaveLoop
  <2>1. todo # <<>> /\ ~Internal(Now)
    BY <1>1, <1>2, <1>11 DEF LeaveLoop, Sound
  <2> DEFINE k == First(Marked({"again", "next"}))
  <2>2. k \in 1 .. Len(todo) /\ Len(todo) \in Nat
    BY <1>10, <1>11, RowFacts DEF LeaveLoop, Begun, Queue
  <2>3. script' = script /\ (todo' = From(k) \/ todo' = From(k + 1))
    BY <1>11 DEF LeaveLoop, Keeps
  <2> HIDE DEF k
  <2>4. \E i \in 1 .. Len(todo) + 1 : todo' = From(i)
    BY <2>2, <2>3
  <2> QED BY <2>1, <2>3, <2>4 DEF OwnMove
<1>12. CASE Return
  <2>1. todo # <<>> /\ ~Internal(Now)
    BY <1>1, <1>2, <1>12 DEF Return, Sound
  <2> DEFINE C == Marked({"ret"})
  <2>2. C # {} => First(C) \in 1 .. Len(todo)
    BY <1>10
  <2>3. script' = script /\ (todo' = <<>> \/ (C # {} /\ todo' = From(First(C) + 1)))
    <3>1. script' = script
      BY <1>12 DEF Return, Keeps
    <3>2. todo' = IF C = {} THEN <<>> ELSE From(First(C) + 1)
      BY <1>12, Zenon DEF Return
    <3> HIDE DEF C
    <3>3. CASE C = {}
      BY <3>1, <3>2, <3>3
    <3>4. CASE C # {}
      BY <3>1, <3>2, <3>4
    <3> QED BY <3>3, <3>4
  <2>4. Len(todo) \in Nat
    BY RowFacts DEF Begun, Queue
  <2> HIDE DEF C
  <2>5. todo' = <<>> \/ \E i \in 1 .. Len(todo) + 1 : todo' = From(i)
    BY <2>2, <2>3, <2>4
  <2> QED BY <2>1, <2>3, <2>5 DEF OwnMove
<1>13. CASE Assign \/ Store \/ Touch \/ Read \/ SetHitPoints \/ Rearrange \/ Discard \/ Declare \/ TakePrizes
  <2>1. \/ At(Assigning) \/ At(Touching) \/ At(HpSet) \/ At({"Away"}) \/ At({"Win"}) \/ At({"Prize"})
        \/ At({"Lift", "Seat", "Join", "Leave", "Remove", "Swap", "Recruit"})
    BY <1>13 DEF Assign, Store, Touch, Read, SetHitPoints, Rearrange, Discard, Declare, TakePrizes,
                 Sound, At, Assigning, Touching
  <2>2. todo # <<>> /\ ~Internal(Now)
    BY <1>1, <1>2, <2>1
  <2>3. Onward /\ script' = script
    BY <1>13 DEF Assign, Store, Touch, Read, SetHitPoints, Rearrange, Discard, Declare, TakePrizes,
                 Keeps
  <2> QED BY <2>2, <2>3, PushOnward DEF OwnMove
<1> QED BY <1>3, <1>4, <1>5, <1>6, <1>7, <1>8, <1>9, <1>11, <1>12, <1>13 DEF OwnStep

-----------------------------------------------------------------------------
(* What a shared function puts in front of the work: examinations, each        *)
(* retaliation with the knock-out test of the defender behind it.              *)
Chain(ops) ==
    /\ Row(ops)
    /\ \A i \in 1 .. Len(ops) :
         /\ InnerWork(ops[i])
         /\ ops[i].op \in Parrying =>
              \/ i < Len(ops) /\ ops[i + 1].op = "ko" /\ ops[i].mon = active["own"]
              \/ i = Len(ops) /\ Now.op \in Parrying /\ ops[i].mon = Now.mon

LEMMA ChainNone == Chain(<<>>)
<1>1. Row(<<>>) /\ Len(<<>>) = 0
  BY RowNone
<1>2. 1 .. 0 = {}
  OBVIOUS
<1> QED BY <1>1, <1>2 DEF Chain

LEMMA ChainOne ==
  ASSUME NEW x, InnerWork(x), x.op \in Parrying => Now.op \in Parrying /\ x.mon = Now.mon
  PROVE  Chain(<<x>>)
<1>1. Row(<<x>>) /\ Len(<<x>>) = 1 /\ <<x>>[1] = x
  BY RowOne
<1> DEFINE t == <<x>>
<1> HIDE DEF t
<1>2. \A i \in 1 .. Len(t) : i = 1 /\ t[i] = x /\ i = Len(t)
  BY <1>1 DEF t
<1>3. Chain(t)
  BY <1>1, <1>2 DEF Chain, t
<1> QED BY <1>3 DEF t

LEMMA ChainTwo ==
  ASSUME NEW x, NEW y, InnerWork(x), InnerWork(y),
         x.op \in Parrying => y.op = "ko" /\ x.mon = active["own"],
         y.op \in Parrying => Now.op \in Parrying /\ y.mon = Now.mon
  PROVE  Chain(<<x, y>>)
<1>1. Row(<<x, y>>) /\ Len(<<x, y>>) = 2 /\ <<x, y>>[1] = x /\ <<x, y>>[2] = y
  BY RowTwo
<1> DEFINE t == <<x, y>>
<1> HIDE DEF t
<1>2. \A i \in 1 .. Len(t) : \/ i = 1 /\ t[i] = x /\ i < Len(t) /\ t[i + 1] = y
                             \/ i = 2 /\ t[i] = y /\ i = Len(t)
  BY <1>1 DEF t
<1>3. Chain(t)
  BY <1>1, <1>2 DEF Chain, t
<1> QED BY <1>3 DEF t

LEMMA ChainPush ==
  ASSUME Begun, NEW ops, Becomes(ops), Chain(ops)
  PROVE  Queue(script, todo')
<1>1. /\ Row(ops)
      /\ \A i \in 1 .. Len(ops) : Work(script, ops[i]) /\ Internal(ops[i])
  BY InnerInternal DEF Chain, Work
<1>2. Now = todo[1]
  BY HeadFacts DEF Becomes, Begun
<1>3. \A i \in 1 .. Len(ops) : ops[i].op \in Parrying =>
            \/ i < Len(ops) /\ ops[i + 1].op = "ko"
            \/ i = Len(ops) /\ todo[1].op \in Parrying
  BY <1>2 DEF Chain
<1> QED BY <1>1, <1>3, QueuePush DEF Begun

LEMMA KoIsWork ==
  ASSUME NEW m \in Mons, NEW n
  PROVE  /\ InnerWork(KoOf(m, n)) /\ InnerWork(Ko(m))
         /\ KoOf(m, n).op = "ko" /\ Ko(m).op = "ko" /\ KoOf(m, n).mon = m /\ Ko(m).mon = m
         /\ KoOf(m, n).op \notin Parrying /\ Ko(m).op \notin Parrying
  BY DEF KoOf, Ko, InnerWork, Parrying

LEMMA ParryIsWork ==
  ASSUME NEW m \in Mons, NEW k \in Parrying
  PROVE  /\ InnerWork([op |-> k, mon |-> m]) /\ [op |-> k, mon |-> m].op = k
         /\ [op |-> k, mon |-> m].mon = m
<1>1. [op |-> k, mon |-> m].op = k /\ [op |-> k, mon |-> m].mon = m
  OBVIOUS
<1> QED BY <1>1 DEF InnerWork, Parrying

LEMMA TourIsWork ==
  ASSUME NEW s \in Sides
  PROVE  /\ InnerWork([op |-> "tour", side |-> s]) /\ [op |-> "tour", side |-> s].op = "tour"
         /\ [op |-> "tour", side |-> s].side = s /\ "tour" \notin Parrying
  BY DEF InnerWork, Parrying

LEMMA SweepIsWork ==
  ASSUME NEW l \in Seq(Mons)
  PROVE  /\ InnerWork([op |-> "sweep", list |-> l]) /\ [op |-> "sweep", list |-> l].op = "sweep"
         /\ [op |-> "sweep", list |-> l].list = l /\ "sweep" \notin Parrying
  BY DEF InnerWork, Parrying

LEMMA OutIsWork ==
  ASSUME NEW m \in Mons, NEW n, NEW k \in {"out", "late out"}
  PROVE  LET o == [op |-> k, mon |-> m, needles |-> n]
         IN  InnerWork(o) /\ o.op = k /\ o.mon = m /\ k \notin Parrying
<1> DEFINE o == [op |-> k, mon |-> m, needles |-> n]
<1>1. o.op = k /\ o.mon = m /\ o.needles = n
  OBVIOUS
<1>2. o = [op |-> o.op, mon |-> o.mon, needles |-> o.needles]
  BY <1>1
<1> HIDE DEF o
<1>3. InnerWork(o) /\ k \notin Parrying
  BY <1>1, <1>2 DEF InnerWork, Parrying
<1> QED BY <1>1, <1>3 DEF o

LEMMA Reordered ==
  ASSUME NEW o, o = [op |-> o.op, mon |-> o.mon, needles |-> o.needles], NEW k
  PROVE  [o EXCEPT !.op = k] = [op |-> k, mon |-> o.mon, needles |-> o.needles]
<1>1. DOMAIN o = {"op", "mon", "needles"}
  OBVIOUS
<1> DEFINE l == [o EXCEPT !.op = k]
           r == [op |-> k, mon |-> o.mon, needles |-> o.needles]
<1>2. DOMAIN l = {"op", "mon", "needles"} /\ DOMAIN r = {"op", "mon", "needles"}
  BY <1>1
<1>3. l.op = k /\ l.mon = o.mon /\ l.needles = o.needles
  BY <1>1
<1>4. r.op = k /\ r.mon = o.mon /\ r.needles = o.needles
  OBVIOUS
<1>5. l = [x \in {"op", "mon", "needles"} |-> l[x]] /\ r = [x \in {"op", "mon", "needles"} |-> r[x]]
  BY <1>2
<1>6. \A x \in {"op", "mon", "needles"} : l[x] = r[x]
  BY <1>3, <1>4
<1> HIDE DEF l, r
<1> QED BY <1>2, <1>5, <1>6 DEF l, r

-----------------------------------------------------------------------------
(* The forms of the work of the shared functions, at the front.                *)
LEMMA InnerForms ==
  ASSUME Begun, todo # <<>>, InnerWork(Now)
  PROVE  /\ Now.op \in {"ko", "out", "late out", "parry", "parried"} => Now.mon \in Mons
         /\ Now.op \in {"ko", "out", "late out"} =>
              Now = [op |-> Now.op, mon |-> Now.mon, needles |-> Now.needles]
         /\ Now.op \in Parrying => Now = [op |-> Now.op, mon |-> Now.mon]
         /\ Now.op = "sweep" => Now.list \in Seq(Mons) /\ Now = [op |-> "sweep", list |-> Now.list]
         /\ Now.op = "tour" => Now.side \in Sides
  BY DEF InnerWork, Parrying

(* The steps that call a shared function put a chain in the place of the call.  *)
LaunchMove ==
    /\ todo # <<>> /\ ~Internal(Now) /\ Now \in Ops(script) /\ script' = script
    /\ \E ops : Becomes(ops) /\ Chain(ops)

LEMMA LaunchMoves == ASSUME Begun, Launch PROVE LaunchMove
<1> DEFINE Goes == \E ops : Becomes(ops) /\ Chain(ops)
<1> USE NoneIsNoMon
<1>1. \/ At({"Blow"}) \/ At({"Strike"}) \/ At({"Splash"}) \/ At({"Check"})
      \/ At({"Rise", "Fall"}) \/ At({"Stadium"})
  BY DEF Launch, BlowLands, StrikeLands, SplashLands, CheckKo, Reshape, StadiumGone, Sound
<1>2. todo # <<>> /\ Now.op \in {"Blow", "Strike", "Splash", "Check", "Rise", "Fall", "Stadium"}
  BY <1>1, AtHead
<1>3. Now.op \in Vocabulary
  BY <1>2 DEF Vocabulary, Knocking
<1>4. ~Internal(Now)
  BY <1>3, NotInner
<1>5. Now \in Ops(script)
  BY <1>2, <1>3, <1>4, HeadFacts, OwnOp DEF Begun
<1>6. script' = script
  BY DEF Launch, BlowLands, StrikeLands, SplashLands, CheckKo, Reshape, StadiumGone, Keeps
<1>7. Onward => Goes
  <2>1. Onward => Becomes(<<>>)
    BY <1>2, OnwardIs DEF Begun
  <2> QED BY <2>1, ChainNone
<1>8. ASSUME NEW ops, Then(ops), Chain(ops) PROVE Goes
  <2>1. Becomes(ops)
    BY <1>2, <1>8 DEF Then, Becomes, Rest
  <2> QED BY <1>8, <2>1
<1>9. ASSUME NEW x, Value(x) \in Mons, NEW n PROVE Chain(<<KoOf(Value(x), n)>>) /\ Chain(<<Ko(Value(x))>>)
  BY <1>9, KoIsWork, ChainOne
<1>10. active["own"] \in Mons \cup {None} /\ active["foe"] \in Mons \cup {None}
  BY DEF Begun, TypeOK, Sides
<1>11. CASE BlowLands
  <2>1. Onward \/ (active["foe"] # None /\ Then(<<Ko(active["foe"])>>))
    BY <1>11 DEF BlowLands
  <2>2. active["foe"] # None => Chain(<<Ko(active["foe"])>>)
    BY <1>10, KoIsWork, ChainOne
  <2>3. Goes
    BY <1>7, <1>8, <2>1, <2>2
  <2> QED BY <1>2, <1>4, <1>5, <1>6, <2>3 DEF LaunchMove
<1>12. CASE StrikeLands
  <2> DEFINE p == [op |-> "parry", mon |-> active["own"]]
  <2>1. Onward \/ (active["own"] # None /\ active["foe"] # None /\ Then(<<p, Ko(active["foe"])>>))
    BY <1>12 DEF StrikeLands
  <2>2. active["own"] # None => InnerWork(p) /\ p.mon = active["own"]
    BY <1>10, ParryIsWork DEF Parrying
  <2> HIDE DEF p
  <2>3. active["own"] # None /\ active["foe"] # None => Chain(<<p, Ko(active["foe"])>>)
    BY <1>10, <2>2, KoIsWork, ChainTwo
  <2>4. Goes
    BY <1>7, <1>8, <2>1, <2>3
  <2> QED BY <1>2, <1>4, <1>5, <1>6, <2>4 DEF LaunchMove
<1>13. CASE SplashLands
  <2>1. Value(Now.ref) \in Mons
    BY <1>13 DEF SplashLands, Sound, Fails, At, OnPokemon
  <2>2. Onward \/ Then(<<Ko(Value(Now.ref))>>)
    BY <1>13 DEF SplashLands
  <2>3. Goes
    BY <1>7, <1>8, <1>9, <2>1, <2>2
  <2> QED BY <1>2, <1>4, <1>5, <1>6, <2>3 DEF LaunchMove
<1>14. CASE CheckKo
  <2>1. Value(Now.ref) \in Mons
    BY <1>14 DEF CheckKo, Sound, Fails, At, OnPokemon
  <2>2. Then(<<Ko(Value(Now.ref))>>)
    BY <1>14 DEF CheckKo
  <2>3. Goes
    BY <1>8, <1>9, <2>1, <2>2
  <2> QED BY <1>2, <1>4, <1>5, <1>6, <2>3 DEF LaunchMove
<1>15. CASE Reshape
  <2>1. Value(Now.ref) \in Mons
    BY <1>15 DEF Reshape, Sound, Fails, At, OnPokemon
  <2>2. Onward \/ Then(<<KoOf(Value(Now.ref), FALSE)>>)
    BY <1>15 DEF Reshape
  <2>3. Goes
    BY <1>7, <1>8, <1>9, <2>1, <2>2
  <2> QED BY <1>2, <1>4, <1>5, <1>6, <2>3 DEF LaunchMove
<1>16. CASE StadiumGone
  <2>1. \/ Onward
        \/ \E s \in Sides : Then(<<[op |-> "tour", side |-> s], [op |-> "tour", side |-> Other(s)]>>)
    BY <1>16 DEF StadiumGone
  <2>2. ASSUME NEW s \in Sides
        PROVE  Chain(<<[op |-> "tour", side |-> s], [op |-> "tour", side |-> Other(s)]>>)
    <3>1. Other(s) \in Sides
      BY DEF Other, Sides
    <3> QED BY <3>1, TourIsWork, ChainTwo
  <2>3. Goes
    BY <1>7, <1>8, <2>1, <2>2
  <2> QED BY <1>2, <1>4, <1>5, <1>6, <2>3 DEF LaunchMove
<1> QED BY <1>11, <1>12, <1>13, <1>14, <1>15, <1>16 DEF Launch

(* The steps of the shared functions themselves.                               *)
InnerMove ==
    /\ todo # <<>> /\ Internal(Now) /\ InnerWork(Now) /\ script' = script
    /\ \/ \E ops : Becomes(ops) /\ Chain(ops)
       \/ todo' = todo
       \/ Len(todo) > 1 /\ Now.op = "parried" /\ todo' = From(3)

LEMMA InnerMoves == ASSUME Begun, InnerStep PROVE InnerMove
<1> DEFINE Goes == \E ops : Becomes(ops) /\ Chain(ops)
<1> USE NoneIsNoMon
<1>1. \/ At({"parry"}) \/ At({"parried"}) \/ At({"tour"}) \/ At({"sweep"}) \/ At({"ko"})
      \/ At({"out", "late out"})
  BY DEF InnerStep, Parry, Parried, Tour, Sweep, Examine, KnockOut, Sound
<1>2. todo # <<>> /\ Now.op \in Internals
  BY <1>1, AtHead DEF Internals
<1>3. Internal(Now) /\ InnerWork(Now)
  BY <1>2, HeadFacts DEF Begun, Internal
<1>4. script' = script
  BY DEF InnerStep, Parry, Parried, Tour, Sweep, Examine, KnockOut, Keeps
<1>5. Onward => Goes
  <2>1. Onward => Becomes(<<>>)
    BY <1>2, OnwardIs DEF Begun
  <2> QED BY <2>1, ChainNone
<1>6. ASSUME NEW ops, todo' = ops \o Rest, Chain(ops) PROVE Goes
  <2>1. Becomes(ops)
    BY <1>2, <1>6 DEF Becomes, Rest
  <2> QED BY <1>6, <2>1
<1>7. CASE Parry
  <2>1. Now.op = "parry" /\ Now.mon \in Mons /\ Now = [op |-> "parry", mon |-> Now.mon]
    BY <1>2, <1>3, <1>7, InnerForms DEF Parry, Sound, At, Parrying
  <2> DEFINE r == [op |-> "parried", mon |-> Now.mon]
  <2>2. [Now EXCEPT !.op = "parried"] = r
    BY <2>1
  <2>3. InnerWork(r) /\ r.op \in Parrying /\ r.mon = Now.mon /\ Now.op \in Parrying
    BY <2>1, ParryIsWork DEF Parrying
  <2>4. Onward \/ Then(<<Ko(Now.mon), [Now EXCEPT !.op = "parried"]>>) \/ todo' = todo
    BY <1>7 DEF Parry
  <2>5. Chain(<<Ko(Now.mon), [Now EXCEPT !.op = "parried"]>>)
    <3> HIDE DEF r
    <3>1. Chain(<<Ko(Now.mon), r>>)
      BY <2>1, <2>3, KoIsWork, ChainTwo
    <3> QED BY <2>2, <3>1
  <2>6. Goes \/ todo' = todo
    BY <1>5, <1>6, <2>4, <2>5 DEF Then
  <2> QED BY <1>2, <1>3, <1>4, <2>6 DEF InnerMove
<1>8. CASE Parried
  <2>1. Now.op = "parried" /\ Now.mon \in Mons /\ Now = [op |-> "parried", mon |-> Now.mon]
    BY <1>2, <1>3, <1>8, InnerForms DEF Parried, Sound, At, Parrying
  <2>2. [Now EXCEPT !.op = "parry"] = [op |-> "parry", mon |-> Now.mon]
    BY <2>1
  <2>3. Chain(<<[Now EXCEPT !.op = "parry"]>>)
    <3>1. /\ InnerWork([op |-> "parry", mon |-> Now.mon]) /\ Now.op \in Parrying
          /\ [op |-> "parry", mon |-> Now.mon].mon = Now.mon
      BY <2>1, ParryIsWork DEF Parrying
    <3>2. Chain(<<[op |-> "parry", mon |-> Now.mon]>>)
      BY <3>1, ChainOne
    <3> QED BY <2>2, <3>2
  <2>4. todo' = Tail(Rest) \/ todo' = <<[Now EXCEPT !.op = "parry"]>> \o Rest
    BY <1>8 DEF Parried
  <2>5. Len(todo) > 1
    <3>1. Now = todo[1] /\ 1 \in 1 .. Len(todo)
      BY <1>2, HeadFacts DEF Begun
    <3> QED BY <2>1, <3>1 DEF Begun, Queue, Parrying
  <2>6. Tail(Rest) = From(3)
    <3>1. todo \in Seq(Range(todo))
      BY DEF Begun, Queue, Row
    <3> QED BY <2>5, <3>1 DEF Rest, From
  <2>7. Goes \/ todo' = From(3)
    BY <1>6, <2>3, <2>4, <2>6
  <2> QED BY <1>2, <1>3, <1>4, <2>1, <2>5, <2>7 DEF InnerMove
<1>9. CASE Tour
  <2>1. Now.side \in Sides
    BY <1>2, <1>3, <1>9, InnerForms DEF Tour, Sound, At
  <2>2. PlayList(Now.side) \in Seq(Mons)
    <3>1. bench[Now.side] \in Seq(Mons) /\ ActiveList(Now.side) \in Seq(Mons)
      BY <2>1, ActiveListType DEF Begun, TypeOK
    <3> QED BY <3>1 DEF PlayList
  <2>3. Chain(<<[op |-> "sweep", list |-> PlayList(Now.side)]>>)
    BY <2>2, SweepIsWork, ChainOne
  <2>4. Goes
    BY <1>6, <1>9, <2>3 DEF Tour, Then
  <2> QED BY <1>2, <1>3, <1>4, <2>4 DEF InnerMove
<1>10. CASE Sweep
  <2>1. Now.list \in Seq(Mons) /\ Now = [op |-> "sweep", list |-> Now.list]
    BY <1>2, <1>3, <1>10, InnerForms DEF Sweep, Sound, At
  <2>2. [Now EXCEPT !.list = Tail(Now.list)] = [op |-> "sweep", list |-> Tail(Now.list)]
    <3>1. \A o, l, x : o = [op |-> "sweep", list |-> l] => [o EXCEPT !.list = x] = [op |-> "sweep", list |-> x]
      OBVIOUS
    <3> QED BY <2>1, <3>1, Zenon
  <2>3. \/ Onward
        \/ Now.list # <<>> /\ Then(<<Ko(Head(Now.list)), [Now EXCEPT !.list = Tail(Now.list)]>>)
    BY <1>10 DEF Sweep
  <2>4. Now.list # <<>> => Chain(<<Ko(Head(Now.list)), [Now EXCEPT !.list = Tail(Now.list)]>>)
    <3>1. Now.list # <<>> => Head(Now.list) \in Mons /\ Tail(Now.list) \in Seq(Mons)
      BY <2>1, HeadTailProperties
    <3>2. Now.list # <<>> => Chain(<<Ko(Head(Now.list)), [op |-> "sweep", list |-> Tail(Now.list)]>>)
      BY <3>1, KoIsWork, SweepIsWork, ChainTwo
    <3> QED BY <2>2, <3>2
  <2>5. Goes
    BY <1>5, <1>6, <2>3, <2>4 DEF Then
  <2> QED BY <1>2, <1>3, <1>4, <2>5 DEF InnerMove
<1>11. CASE Examine
  <2> DEFINE rival == active[Other(Owner(Now.mon))]
             x == [op |-> "out", mon |-> Now.mon, needles |-> Now.needles]
             y == [op |-> "late out", mon |-> Now.mon, needles |-> Now.needles]
  <2>1. /\ Now.mon \in Mons /\ Now.op = "ko"
        /\ Now = [op |-> Now.op, mon |-> Now.mon, needles |-> Now.needles]
    BY <1>2, <1>3, <1>11, InnerForms DEF Examine, Sound, At
  <2>2. rival \in Mons \cup {None}
    BY <2>1, MonsOwner DEF Begun, TypeOK
  <2>3. [Now EXCEPT !.op = "out"] = x /\ [Now EXCEPT !.op = "late out"] = y
    <3>2. [Now EXCEPT !.op = "out"] = [op |-> "out", mon |-> Now.mon, needles |-> Now.needles]
      BY <2>1, Reordered
    <3>3. [Now EXCEPT !.op = "late out"] = [op |-> "late out", mon |-> Now.mon, needles |-> Now.needles]
      BY <2>1, Reordered
    <3> QED BY <3>2, <3>3
  <2>4. \/ Onward
        \/ Then(<<[Now EXCEPT !.op = "out"]>>)
        \/ rival # None /\ Then(<<Ko(rival), [Now EXCEPT !.op = "late out"]>>)
    BY <1>11 DEF Examine
  <2>5. InnerWork(x) /\ x.op \notin Parrying /\ InnerWork(y) /\ y.op \notin Parrying
    BY <2>1, OutIsWork
  <2> HIDE DEF x, y, rival
  <2>6. Chain(<<x>>) /\ (rival # None => Chain(<<Ko(rival), y>>))
    BY <2>2, <2>5, KoIsWork, ChainOne, ChainTwo
  <2>7. Goes
    BY <1>5, <1>6, <2>3, <2>4, <2>6 DEF Then
  <2> QED BY <1>2, <1>3, <1>4, <2>7 DEF InnerMove
<1>12. CASE KnockOut
  <2>1. Goes
    BY <1>5, <1>12 DEF KnockOut
  <2> QED BY <1>2, <1>3, <1>4, <2>1 DEF InnerMove
<1> QED BY <1>7, <1>8, <1>9, <1>10, <1>11, <1>12 DEF InnerStep

-----------------------------------------------------------------------------
LEMMA BegunAtStart == Init /\ Orderly(script) => Begun
<1> SUFFICES ASSUME Init, Orderly(script) PROVE Begun
  OBVIOUS
<1>1. TypeOK /\ todo = script
  BY BoardAtStart DEF Init
<1>2. Row(todo) /\ \A i \in 1 .. Len(todo) : OuterWork(script, todo[i])
  BY <1>1, ScriptIsBlock, BlockRow
<1>3. \A i \in 1 .. Len(todo) : Work(script, todo[i]) /\ ~Internal(todo[i])
  BY <1>2, OuterNotInternal DEF Work
<1>4. \A i \in 1 .. Len(todo) : todo[i].op \notin Parrying
  BY <1>3 DEF Internal, Internals, Parrying
<1> QED BY <1>1, <1>2, <1>3, <1>4 DEF Begun, Queue

(* After a step of the script none of the examinations is left.                *)
LEMMA OwnKeepsOuter ==
  ASSUME Begun, OwnMove
  PROVE  Queue(script, todo') /\ \A i \in 1 .. Len(todo') : ~Internal(todo'[i])
<1>1. /\ Len(todo) \in Nat /\ todo # <<>> /\ Len(todo) > 0 /\ Now = todo[1]
      /\ \A i \in 1 .. Len(todo) : ~Internal(todo[i])
  BY HeadFacts DEF OwnMove, Begun
<1>2. ASSUME NEW ops, Becomes(ops), Row(ops), \A i \in 1 .. Len(ops) : Sprung(ops[i])
      PROVE  Queue(script, todo') /\ \A i \in 1 .. Len(todo') : ~Internal(todo'[i])
  <2>1. \A i \in 1 .. Len(ops) : Work(script, ops[i]) /\ ~Internal(ops[i]) /\ ops[i].op \notin Parrying
    BY <1>2, OuterNotInternal DEF Begun, Sprung, Work, Internal, Internals, Parrying
  <2>2. Queue(script, todo')
    BY <1>1, <1>2, <2>1, QueuePush DEF Begun
  <2>3. ASSUME NEW i \in 1 .. Len(todo') PROVE ~Internal(todo'[i])
    <3> DEFINE t == ops \o Tail(todo)
               n == Len(ops)
    <3>1. /\ Len(t) = n + Len(todo) - 1
          /\ \A j \in 1 .. n : t[j] = ops[j]
          /\ \A j \in (n + 1) .. Len(t) : t[j] = todo[j + 1 - n]
      BY <1>1, <1>2, PushAt DEF Begun, Queue
    <3>2. n \in Nat /\ todo' = t
      BY <1>2, RowFacts DEF Becomes
    <3> HIDE DEF t
    <3>3. CASE i <= n
      BY <2>1, <3>1, <3>2, <3>3
    <3>4. CASE i > n
      <4>1. i + 1 - n \in 1 .. Len(todo) /\ t[i] = todo[i + 1 - n]
        BY <1>1, <3>1, <3>2, <3>4
      <4> QED BY <1>1, <3>2, <4>1
    <3> QED BY <3>1, <3>2, <3>3, <3>4, <1>1
  <2> QED BY <2>2, <2>3
<1>3. CASE todo' = <<>>
  <2>1. Queue(script, <<>>)
    <3>1. Row(<<>>) /\ Len(<<>>) = 0 /\ 1 .. 0 = {}
      BY RowNone
    <3> QED BY <3>1 DEF Queue
  <2> QED BY <1>3, <2>1, RowNone
<1>4. ASSUME NEW k \in 1 .. Len(todo) + 1, todo' = From(k)
      PROVE  Queue(script, todo') /\ \A i \in 1 .. Len(todo') : ~Internal(todo'[i])
  <2>1. Queue(script, todo')
    BY <1>4, QueueSkip DEF Begun
  <2> DEFINE t == SubSeq(todo, k, Len(todo))
  <2>2. Len(t) = Len(todo) + 1 - k /\ \A i \in 1 .. Len(t) : t[i] = todo[i + k - 1]
    BY SkipAt DEF Begun, Queue
  <2>3. todo' = t
    BY <1>4 DEF From
  <2> HIDE DEF t
  <2>4. \A i \in 1 .. Len(t) : i + k - 1 \in 1 .. Len(todo)
    BY <1>1, <2>2
  <2> QED BY <1>1, <2>1, <2>2, <2>3, <2>4
<1> QED BY <1>2, <1>3, <1>4 DEF OwnMove

LEMMA SlipEnds ==
  ASSUME Begun, Slip
  PROVE  /\ Queue(script, todo') /\ \A i \in 1 .. Len(todo') : ~Internal(todo'[i])
         /\ todo' = <<>> /\ Len(todo') = 0 /\ failed' /\ UNCHANGED <<script, board, locals, score>>
<1>1. todo' = <<>> /\ failed' /\ UNCHANGED <<script, board, locals, score>>
  BY DEF Slip, ParryRaises, InflictOnList
<1>2. Row(<<>>) /\ Len(<<>>) = 0 /\ 1 .. 0 = {}
  BY RowNone
<1>3. Queue(script, <<>>)
  BY <1>2 DEF Queue
<1> QED BY <1>1, <1>2, <1>3

LEMMA BegunStep == Begun /\ [Next]_vars => Begun'
<1> SUFFICES ASSUME Begun, [Next]_vars PROVE Begun'
  OBVIOUS
<1>1. TypeOK'
  BY StepTypes DEF Begun
<1>2. CASE OwnStep
  <2>1. OwnMove
    BY <1>2, OwnMoves
  <2>2. Queue(script, todo') /\ script' = script
    BY <2>1, OwnKeepsOuter DEF OwnMove
  <2> QED BY <1>1, <2>2 DEF Begun
<1>3. CASE Launch
  <2>1. LaunchMove
    BY <1>3, LaunchMoves
  <2>2. Queue(script, todo') /\ script' = script
    BY <2>1, ChainPush DEF LaunchMove
  <2> QED BY <1>1, <2>2 DEF Begun
<1>4. CASE InnerStep
  <2>1. InnerMove
    BY <1>4, InnerMoves
  <2>2. Queue(script, todo') /\ script' = script
    <3>1. Len(todo) \in Nat
      BY <2>1, HeadFacts DEF InnerMove, Begun
    <3>2. Len(todo) > 1 => 3 \in 1 .. Len(todo) + 1
      BY <3>1
    <3> QED BY <2>1, <3>2, ChainPush, QueueSkip DEF InnerMove, Begun
  <2> QED BY <1>1, <2>2 DEF Begun
<1>5. CASE Slip
  BY <1>1, <1>5, SlipEnds DEF Begun
<1>6. CASE UNCHANGED vars
  BY <1>1, <1>6 DEF Begun, vars
<1> QED BY <1>2, <1>3, <1>4, <1>5, <1>6, StepKinds

-----------------------------------------------------------------------------
(* No card twice on a list.                                                    *)
Apart(l) == \A i, j \in 1 .. Len(l) : l[i] = l[j] => i = j

Placed ==
    /\ \A s \in Sides :
         /\ \A m \in InPlayOf(s) : Owner(m) = s
         /\ Apart(bench[s])
         /\ active[s] \notin Benched(s)
    /\ InPlay \cap gone = {}

LEMMA WithoutAt ==
  ASSUME NEW list \in Seq(Mons), NEW m
  PROVE  LET t == Without(list, m)
         IN  /\ m \notin Range(list) => t = list
             /\ m \in Range(list) => \E i \in 1 .. Len(list) :
                  /\ list[i] = m /\ Len(t) = Len(list) - 1
                  /\ \A j \in 1 .. Len(t) : t[j] = IF j < i THEN list[j] ELSE list[j + 1]
<1> DEFINE at == {i \in DOMAIN list : list[i] = m}
           i  == CHOOSE j \in at : TRUE
           n == Len(list)
           t == Without(list, m)
<1>1. n \in Nat /\ DOMAIN list = 1 .. n
  OBVIOUS
<1>2. CASE at = {}
  <2>1. t = list
    BY <1>2 DEF Without
  <2>2. m \notin Range(list)
    BY <1>2 DEF Range
  <2> QED BY <2>1, <2>2
<1>3. CASE at # {}
  <2>1. i \in at
    BY <1>3
  <2>2. i \in 1 .. n /\ list[i] = m
    BY <2>1
  <2> DEFINE a == SubSeq(list, 1, i - 1)
             b == SubSeq(list, i + 1, n)
  <2>3. t = a \o b
    BY <1>3 DEF Without
  <2> HIDE DEF i, at, t
  <2>4. \A k \in 1 .. n : list[k] \in Mons
    OBVIOUS
  <2>5. /\ a \in Seq(Mons) /\ Len(a) = i - 1
        /\ \A j \in 1 .. i - 1 : a[j] = list[j]
    <3>1. \A k \in 1 .. i - 1 : list[k] \in Mons
      BY <1>1, <2>2, <2>4
    <3>2. i - 1 \in Int /\ (i - 1) - 1 + 1 = i - 1 /\ (1 <= i - 1 \/ i - 1 = 0)
      BY <2>2
    <3>3. /\ a \in Seq(Mons)
          /\ Len(a) = IF 1 <= i - 1 THEN (i - 1) - 1 + 1 ELSE 0
          /\ \A j \in 1 .. (i - 1) - 1 + 1 : a[j] = list[1 + j - 1]
      BY <3>1, <3>2, SubSeqProperties
    <3>4. \A j \in 1 .. i - 1 : 1 + j - 1 = j
      OBVIOUS
    <3> QED BY <3>2, <3>3, <3>4
  <2>6. /\ b \in Seq(Mons) /\ Len(b) = n - i
        /\ \A j \in 1 .. n - i : b[j] = list[i + j]
    <3>1. \A k \in i + 1 .. n : list[k] \in Mons
      BY <1>1, <2>2, <2>4
    <3>2. i + 1 \in Int /\ n \in Int /\ n - (i + 1) + 1 = n - i /\ (i + 1 <= n \/ n - i = 0)
      <4>1. i \in Nat /\ i <= n /\ n \in Nat
        BY <1>1, <2>2
      <4> HIDE DEF n
      <4> QED BY <4>1
    <3>3. /\ b \in Seq(Mons)
          /\ Len(b) = IF i + 1 <= n THEN n - (i + 1) + 1 ELSE 0
          /\ \A j \in 1 .. n - (i + 1) + 1 : b[j] = list[i + 1 + j - 1]
      BY <3>1, <3>2, SubSeqProperties
    <3>4. \A j \in 1 .. n - i : i + 1 + j - 1 = i + j
      BY <2>2
    <3> QED BY <3>2, <3>3, <3>4
  <2> HIDE DEF a, b
  <2>7. /\ Len(t) = Len(a) + Len(b)
        /\ \A j \in 1 .. Len(a) + Len(b) : t[j] = IF j <= Len(a) THEN a[j] ELSE b[j - Len(a)]
    BY <2>3, <2>5, <2>6, ConcatProperties
  <2>8. Len(t) = n - 1
    BY <1>1, <2>2, <2>5, <2>6, <2>7
  <2>9. ASSUME NEW j \in 1 .. Len(t) PROVE t[j] = IF j < i THEN list[j] ELSE list[j + 1]
    <3>1. CASE j < i
      <4>1. j <= Len(a) /\ j \in 1 .. i - 1
        BY <1>1, <2>2, <2>5, <2>8, <3>1
      <4> QED BY <2>5, <2>7, <3>1, <4>1
    <3>2. CASE ~(j < i)
      <4>1. ~(j <= Len(a)) /\ j - Len(a) \in 1 .. n - i /\ i + (j - Len(a)) = j + 1
        BY <1>1, <2>2, <2>5, <2>8, <3>2
      <4> QED BY <2>6, <2>7, <3>2, <4>1
    <3> QED BY <3>1, <3>2
  <2>10. m \in Range(list)
    BY <1>1, <2>2 DEF Range
  <2> QED BY <2>2, <2>8, <2>9, <2>10 DEF t
<1> QED BY <1>2, <1>3

LEMMA WithoutSet ==
  ASSUME NEW list \in Seq(Mons), NEW m
  PROVE  LET t == Without(list, m)
         IN  /\ Range(t) \subseteq Range(list) /\ Range(list) \ {m} \subseteq Range(t)
             /\ Apart(list) => Apart(t) /\ m \notin Range(t)
<1> DEFINE t == Without(list, m)
           n == Len(list)
<1>1. CASE m \notin Range(list)
  <2>1. t = list
    BY <1>1, WithoutAt
  <2> HIDE DEF t
  <2> QED BY <1>1, <2>1 DEF t
<1>2. CASE m \in Range(list)
  <2>1. PICK i \in 1 .. n :
          /\ list[i] = m /\ Len(t) = n - 1
          /\ \A j \in 1 .. Len(t) : t[j] = IF j < i THEN list[j] ELSE list[j + 1]
    BY <1>2, WithoutAt
  <2>2. t \in Seq(Mons) /\ n \in Nat
    BY WithoutType
  <2> HIDE DEF t, n
  <2>3. DOMAIN t = 1 .. n - 1 /\ DOMAIN list = 1 .. n
    BY <2>1, <2>2 DEF n
  <2>4. \A j \in 1 .. n - 1 :
          \E k \in 1 .. n : t[j] = list[k] /\ k # i /\ k = IF j < i THEN j ELSE j + 1
    BY <2>1, <2>2
  <2>5. Range(t) \subseteq Range(list)
    BY <2>3, <2>4 DEF Range
  <2>6. ASSUME NEW x \in Range(list), x # m PROVE x \in Range(t)
    <3>1. PICK k \in 1 .. n : x = list[k]
      BY <2>3 DEF Range
    <3>2. k # i
      BY <2>1, <2>6, <3>1
    <3> DEFINE j == IF k < i THEN k ELSE k - 1
    <3>3. j \in 1 .. n - 1 /\ t[j] = list[k]
      BY <2>1, <2>2, <3>2
    <3> QED BY <2>3, <3>1, <3>3 DEF Range
  <2>7. ASSUME Apart(list) PROVE Apart(t) /\ m \notin Range(t)
    <3>1. \A k, l \in 1 .. n : list[k] = list[l] => k = l
      BY <2>7 DEF Apart, n
    <3>2. Apart(t)
      <4>1. SUFFICES ASSUME NEW j \in 1 .. n - 1, NEW h \in 1 .. n - 1, t[j] = t[h] PROVE j = h
        BY <2>1 DEF Apart
      <4>2. PICK k \in 1 .. n : t[j] = list[k] /\ k = IF j < i THEN j ELSE j + 1
        BY <2>4
      <4>3. PICK l \in 1 .. n : t[h] = list[l] /\ l = IF h < i THEN h ELSE h + 1
        BY <2>4
      <4>4. k = l
        BY <3>1, <4>1, <4>2, <4>3
      <4> QED BY <2>1, <2>2, <4>2, <4>3, <4>4
    <3>3. m \notin Range(t)
      <4>1. SUFFICES ASSUME NEW j \in 1 .. n - 1, t[j] = m PROVE FALSE
        BY <2>3 DEF Range
      <4>2. PICK k \in 1 .. n : t[j] = list[k] /\ k # i
        BY <2>4
      <4> QED BY <2>1, <3>1, <4>1, <4>2
    <3> QED BY <3>2, <3>3
  <2> QED BY <2>5, <2>6, <2>7 DEF t
<1> QED BY <1>1, <1>2

LEMMA AppendSet ==
  ASSUME NEW l \in Seq(Mons), NEW x \in Mons
  PROVE  LET t == l \o <<x>>
         IN  /\ Append(l, x) = t /\ t \in Seq(Mons)
             /\ Range(t) = Range(l) \cup {x}
             /\ Apart(l) /\ x \notin Range(l) => Apart(t)
<1> DEFINE t == l \o <<x>>
           n == Len(l)
<1>1. Append(l, x) = t /\ t \in Seq(Mons)
  OBVIOUS
<1>2. Row(l)
  BY RowOf
<1>3. Row(t) /\ Len(t) = n + 1 /\ t[n + 1] = x /\ \A i \in 1 .. n : t[i] = l[i]
  BY <1>2, RowMore
<1>4. n \in Nat /\ DOMAIN l = 1 .. n
  OBVIOUS
<1> HIDE DEF t
<1>5. DOMAIN t = 1 .. n + 1
  BY <1>1, <1>3
<1> HIDE DEF n
<1>6. Range(t) = Range(l) \cup {x}
  <2>1. \A i \in 1 .. n + 1 : i = n + 1 \/ i \in 1 .. n
    BY <1>4
  <2>2. \A i \in 1 .. n : i \in 1 .. n + 1
    BY <1>4
  <2>3. n + 1 \in 1 .. n + 1
    BY <1>4
  <2> QED BY <1>3, <1>4, <1>5, <2>1, <2>2, <2>3 DEF Range
<1>7. ASSUME Apart(l), x \notin Range(l) PROVE Apart(t)
  <2>1. \A i \in 1 .. n : l[i] # x
    BY <1>4, <1>7 DEF Range
  <2> QED BY <1>3, <1>4, <1>7, <2>1 DEF Apart, n
<1> QED BY <1>1, <1>6, <1>7 DEF t

-----------------------------------------------------------------------------
(* What the steps of a handler that leaves the moving to the shared functions  *)
(* may do to the board.                                                        *)
SwapsIn(s, m) ==
    /\ m \in Benched(s) /\ m \in Mons
    /\ active' = [active EXCEPT ![s] = m]
    /\ bench' = [bench EXCEPT ![s] = SwappedBench(s, m)]
    /\ gone' = gone

Recruits(s) ==
    /\ Spare(s) \notin InPlayOf(s) \cup gone
    /\ bench' = [bench EXCEPT ![s] = Append(@, Spare(s))]
    /\ UNCHANGED <<active, gone>>

BoardMove ==
    \/ UNCHANGED <<active, bench, gone>>
    \/ \E s \in Sides : (\E m : SwapsIn(s, m)) \/ Recruits(s)
    \/ KnockOut /\ \E m \in Mons : LeavesPlay(m)

LEMMA OwnHead ==
  ASSUME Begun, NEW K, At(K), K \subseteq Vocabulary
  PROVE  todo # <<>> /\ Now.op \in K /\ ~Internal(Now) /\ Now \in Ops(script)
<1>1. todo # <<>> /\ Now.op \in K
  BY AtHead
<1>2. ~Internal(Now)
  BY <1>1, NotInner
<1> QED BY <1>1, <1>2, HeadFacts, OwnOp DEF Begun

LEMMA BoardMoves == ASSUME Begun, Still(script), [Next]_vars PROVE BoardMove
<1>1. CASE Idle \/ Local \/ Hit \/ Declare \/ TakePrizes \/ UNCHANGED vars
  BY <1>1, IdleSteps, LocalSteps, HitSteps DEF vars, board, Declare, TakePrizes, BoardMove
<1>2. CASE Parry
  <2>1. \/ bench' = bench
        \/ /\ Spare("foe") \notin InPlayOf("foe") \cup gone
           /\ bench' = [bench EXCEPT !["foe"] = Append(@, Spare("foe"))]
    BY <1>2 DEF Parry
  <2>2. UNCHANGED <<active, gone>> /\ "foe" \in Sides
    BY <1>2 DEF Parry, Sides
  <2> QED BY <2>1, <2>2 DEF BoardMove, Recruits
<1>3. CASE KnockOut
  <2>1. UNCHANGED <<active, bench, gone>> \/ \E m \in Mons : LeavesPlay(m)
    BY <1>3 DEF KnockOut, board
  <2> QED BY <1>3, <2>1 DEF BoardMove
<1>4. CASE Discard
  <2>1. {"Away"} \subseteq Vocabulary /\ {"Away"} \subseteq Moving
    BY DEF Vocabulary, Moving
  <2>2. Now \in Ops(script) /\ Now.op \in Moving
    BY <1>4, <2>1, OwnHead DEF Discard, Sound
  <2> QED BY <2>2 DEF Still
<1>5. CASE Rearrange
  <2> DEFINE s == Now.side
             K == {"Lift", "Seat", "Join", "Leave", "Remove", "Swap", "Recruit"}
  <2>1. K \subseteq Vocabulary /\ K \subseteq Moving \cup Shifting
    BY DEF Vocabulary, Moving, Shifting
  <2>2. Now.op \in K /\ Now \in Ops(script)
    BY <1>5, <2>1, OwnHead DEF Rearrange, Sound
  <2>3. Now.op \in Shifting /\ s \in Sides
    BY <2>1, <2>2 DEF Still, Orderly
  <2>4. gone' = gone
    BY <1>5 DEF Rearrange
  <2>5. CASE Now.op = "Swap"
    <3> DEFINE m == Value(Now.ref)
    <3>1. m \in Mons /\ m \in Benched(s)
      BY <1>5, <2>5 DEF Rearrange, Sound, Fails, At, OnPokemon
    <3>2. /\ active' = [active EXCEPT ![s] = m]
          /\ bench' = [bench EXCEPT ![s] = SwappedBench(s, m)]
      BY <1>5, <2>5 DEF Rearrange
    <3>3. SwapsIn(s, m)
      BY <2>4, <3>1, <3>2 DEF SwapsIn
    <3> QED BY <2>3, <3>3 DEF BoardMove
  <2>6. CASE Now.op = "Recruit"
    <3>1. /\ active' = active
          /\ bench' = [bench EXCEPT ![s] =
                        IF Spare(s) \in InPlayOf(s) \cup gone THEN @ ELSE Append(@, Spare(s))]
      BY <1>5, <2>6 DEF Rearrange
    <3>2. CASE Spare(s) \in InPlayOf(s) \cup gone
      <4>1. bench' = bench
        BY <3>1, <3>2 DEF Begun, TypeOK
      <4> QED BY <2>4, <3>1, <4>1 DEF BoardMove
    <3>3. CASE Spare(s) \notin InPlayOf(s) \cup gone
      <4>1. Recruits(s)
        BY <2>4, <3>1, <3>3 DEF Recruits
      <4> QED BY <2>3, <4>1 DEF BoardMove
    <3> QED BY <3>2, <3>3
  <2> QED BY <2>3, <2>5, <2>6 DEF Shifting
<1> QED BY <1>1, <1>2, <1>3, <1>4, <1>5 DEF Next, Idle, Local, Hit

(* The same for the sets of Pokemon in play.                                   *)
LEMMA SwapSets ==
  ASSUME TypeOK, NEW s \in Sides, NEW m, SwapsIn(s, m)
  PROVE  /\ active'[s] = m /\ bench'[s] \in Seq(Mons)
         /\ InPlayOf(s)' = InPlayOf(s)
         /\ Apart(bench[s]) /\ active[s] \notin Benched(s) => Apart(bench'[s]) /\ m \notin Benched(s)'
         /\ \A r \in Sides \ {s} : active'[r] = active[r] /\ bench'[r] = bench[r]
<1> DEFINE w == Without(bench[s], m)
<1>1. /\ active \in [Sides -> Mons \cup {None}] /\ bench \in [Sides -> Seq(Mons)]
      /\ bench[s] \in Seq(Mons) /\ active[s] \in Mons \cup {None}
  BY DEF TypeOK
<1>2. active'[s] = m /\ bench'[s] = w \o ActiveList(s) /\ m \in Mons /\ m \in Benched(s)
  BY <1>1 DEF SwapsIn, SwappedBench
<1>3. \A r \in Sides \ {s} : active'[r] = active[r] /\ bench'[r] = bench[r]
  BY <1>1 DEF SwapsIn
<1>4. /\ w \in Seq(Mons) /\ Range(w) \subseteq Range(bench[s]) /\ Range(bench[s]) \ {m} \subseteq Range(w)
      /\ Apart(bench[s]) => Apart(w) /\ m \notin Range(w)
  BY <1>1, WithoutType, WithoutSet
<1>5. Benched(s) = Range(bench[s]) /\ Benched(s)' = Range(bench'[s])
  BY DEF Benched, Range
<1> HIDE DEF w
<1>6. CASE active[s] = None
  <2>1. bench'[s] = w
    BY <1>2, <1>4, <1>6, ConcatEmptySeq DEF ActiveList
  <2> QED BY <1>2, <1>3, <1>4, <1>5, <1>6, <2>1, NoneIsNoMon DEF InPlayOf
<1>7. CASE active[s] # None
  <2>1. active[s] \in Mons /\ bench'[s] = w \o <<active[s]>>
    BY <1>1, <1>2, <1>7 DEF ActiveList
  <2>2. /\ bench'[s] \in Seq(Mons) /\ Range(bench'[s]) = Range(w) \cup {active[s]}
        /\ Apart(w) /\ active[s] \notin Range(w) => Apart(bench'[s])
    BY <1>4, <2>1, AppendSet
  <2>3. ASSUME Apart(bench[s]), active[s] \notin Benched(s) PROVE Apart(bench'[s]) /\ m \notin Benched(s)'
    <3>1. active[s] \notin Range(w) /\ m # active[s] /\ m \notin Range(w)
      BY <1>2, <1>4, <1>5, <2>3
    <3> QED BY <1>4, <1>5, <2>2, <2>3, <3>1
  <2>4. InPlayOf(s)' = InPlayOf(s)
    BY <1>2, <1>4, <1>5, <1>7, <2>1, <2>2, NoneIsNoMon DEF InPlayOf
  <2> QED BY <1>2, <1>3, <2>2, <2>3, <2>4
<1> QED BY <1>6, <1>7

LEMMA RecruitSets ==
  ASSUME TypeOK, NEW s \in Sides, Recruits(s)
  PROVE  /\ active' = active /\ bench'[s] \in Seq(Mons) /\ Spare(s) \in Mons
         /\ Benched(s)' = Benched(s) \cup {Spare(s)} /\ Spare(s) \notin InPlayOf(s) \cup gone
         /\ Apart(bench[s]) => Apart(bench'[s])
         /\ \A r \in Sides \ {s} : bench'[r] = bench[r]
<1>1. Spare(s) \in Mons
  BY ScriptAssumption DEF Spare, Mons
<1>2. bench \in [Sides -> Seq(Mons)] /\ bench[s] \in Seq(Mons)
  BY DEF TypeOK
<1>3. /\ bench'[s] = bench[s] \o <<Spare(s)>> /\ bench'[s] \in Seq(Mons)
      /\ Range(bench'[s]) = Range(bench[s]) \cup {Spare(s)}
      /\ Apart(bench[s]) /\ Spare(s) \notin Range(bench[s]) => Apart(bench'[s])
  BY <1>1, <1>2, AppendSet DEF Recruits
<1>4. Benched(s) = Range(bench[s]) /\ Benched(s)' = Range(bench'[s])
  BY DEF Benched, Range
<1>5. Spare(s) \notin InPlayOf(s) \cup gone /\ Benched(s) \subseteq InPlayOf(s)
  BY DEF Recruits, InPlayOf
<1>6. \A r \in Sides \ {s} : bench'[r] = bench[r]
  BY <1>2 DEF Recruits
<1> QED BY <1>1, <1>3, <1>4, <1>5, <1>6 DEF Recruits

LEMMA LeaveSets ==
  ASSUME TypeOK, NEW m \in Mons, LeavesPlay(m), Apart(bench[Owner(m)]), active[Owner(m)] \notin Benched(Owner(m))
  PROVE  /\ InPlayOf(Owner(m))' = InPlayOf(Owner(m)) \ {m}
         /\ Apart(bench'[Owner(m)]) /\ active'[Owner(m)] \notin Benched(Owner(m))'
         /\ gone' = gone \cup {m}
         /\ \A r \in Sides \ {Owner(m)} : active'[r] = active[r] /\ bench'[r] = bench[r]
<1> DEFINE s == Owner(m)
           w == Without(bench[s], m)
<1>1. s \in Sides
  BY MonsOwner
<1>2. /\ active \in [Sides -> Mons \cup {None}] /\ bench \in [Sides -> Seq(Mons)]
      /\ bench[s] \in Seq(Mons) /\ active[s] \in Mons \cup {None}
  BY <1>1 DEF TypeOK
<1>3. Benched(s) = Range(bench[s]) /\ Benched(s)' = Range(bench'[s])
  BY DEF Benched, Range
<1>4. gone' = gone \cup {m}
  BY DEF LeavesPlay
<1>5. CASE active[s] = m
  <2>1. active' = [active EXCEPT ![s] = None] /\ bench' = bench
    BY <1>5 DEF LeavesPlay
  <2>2. active'[s] = None /\ \A r \in Sides \ {s} : active'[r] = active[r]
    BY <1>1, <1>2, <2>1
  <2>3. \A x \in Range(bench[s]) : x \in Mons
    BY <1>2 DEF Range
  <2>4. None \notin Benched(s)' /\ Benched(s)' = Benched(s)
    BY <1>3, <2>1, <2>3, NoneIsNoMon
  <2> HIDE DEF s
  <2>5. InPlayOf(s)' = InPlayOf(s) \ {m}
    BY <1>5, <2>2, <2>4 DEF InPlayOf, s
  <2> QED BY <1>4, <2>1, <2>2, <2>4, <2>5 DEF s
<1>6. CASE active[s] # m
  <2>1. active' = active /\ bench' = [bench EXCEPT ![s] = w]
    BY <1>6 DEF LeavesPlay
  <2>2. bench'[s] = w /\ \A r \in Sides \ {s} : bench'[r] = bench[r]
    BY <1>1, <1>2, <2>1
  <2>3. /\ Range(w) \subseteq Range(bench[s]) /\ Range(bench[s]) \ {m} \subseteq Range(w)
        /\ Apart(w) /\ m \notin Range(w)
    BY <1>2, WithoutSet
  <2> HIDE DEF w, s
  <2>4. Benched(s)' = Benched(s) \ {m}
    BY <1>3, <2>2, <2>3
  <2>5. InPlayOf(s)' = InPlayOf(s) \ {m}
    BY <1>6, <2>1, <2>4 DEF InPlayOf
  <2> QED BY <1>4, <2>1, <2>2, <2>3, <2>4, <2>5 DEF s
<1> QED BY <1>5, <1>6

LEMMA PlacedStep ==
  ASSUME Begun, Still(script), Placed, [Next]_vars
  PROVE  Placed'
<1>0. TypeOK /\ Sides = {"own", "foe"}
  BY DEF Begun, Sides
<1>1. /\ \A s \in Sides : /\ \A m \in InPlayOf(s) : Owner(m) = s
                          /\ Apart(bench[s]) /\ active[s] \notin Benched(s)
                          /\ InPlayOf(s) \cap gone = {}
  BY <1>0 DEF Placed, InPlay
<1>2. SUFFICES ASSUME NEW s \in Sides
               PROVE  /\ \A m \in InPlayOf(s)' : Owner(m) = s
                      /\ Apart(bench'[s]) /\ active'[s] \notin Benched(s)'
                      /\ InPlayOf(s)' \cap gone' = {}
  BY <1>0 DEF Placed, InPlay
<1>3. CASE UNCHANGED <<active, bench, gone>>
  BY <1>1, <1>3 DEF InPlayOf, Benched
<1>4. ASSUME active'[s] = active[s], bench'[s] = bench[s] PROVE InPlayOf(s)' = InPlayOf(s) /\ Benched(s)' = Benched(s)
  BY <1>4 DEF InPlayOf, Benched
<1>5. ASSUME NEW r \in Sides, NEW m, SwapsIn(r, m) PROVE InPlayOf(s)' = InPlayOf(s) /\ gone' = gone
          /\ Apart(bench'[s]) /\ active'[s] \notin Benched(s)'
  <2>1. gone' = gone
    BY <1>5 DEF SwapsIn
  <2>2. CASE r = s
    BY <1>0, <1>1, <1>5, <2>1, <2>2, SwapSets
  <2>3. CASE r # s
    BY <1>0, <1>1, <1>4, <1>5, <2>1, <2>3, SwapSets
  <2> QED BY <2>2, <2>3
<1>6. ASSUME NEW r \in Sides, Recruits(r)
      PROVE  /\ \A m \in InPlayOf(s)' : Owner(m) = s
             /\ Apart(bench'[s]) /\ active'[s] \notin Benched(s)'
             /\ InPlayOf(s)' \cap gone' = {}
  <2>1. gone' = gone /\ active' = active /\ active[s] \in Mons \cup {None}
    BY <1>0, <1>6 DEF Recruits, TypeOK
  <2>2. CASE r = s
    <3>1. /\ Benched(s)' = Benched(s) \cup {Spare(s)} /\ Spare(s) \notin InPlayOf(s) \cup gone
          /\ Apart(bench'[s]) /\ Spare(s) \in Mons
      BY <1>0, <1>1, <1>6, <2>2, RecruitSets
    <3>2. Spare(s) # active[s]
      BY <3>1, NoneIsNoMon DEF InPlayOf
    <3>3. InPlayOf(s)' = InPlayOf(s) \cup {Spare(s)}
      BY <2>1, <3>1 DEF InPlayOf
    <3>4. Owner(Spare(s)) = s
      BY DEF Owner, Spare
    <3> QED BY <1>1, <2>1, <3>1, <3>2, <3>3, <3>4
  <2>3. CASE r # s
    <3>1. bench'[s] = bench[s]
      BY <1>0, <1>6, <2>3, RecruitSets
    <3> QED BY <1>1, <1>4, <2>1, <3>1
  <2> QED BY <2>2, <2>3
<1>7. ASSUME NEW m \in Mons, LeavesPlay(m)
      PROVE  /\ \A x \in InPlayOf(s)' : Owner(x) = s
             /\ Apart(bench'[s]) /\ active'[s] \notin Benched(s)'
             /\ InPlayOf(s)' \cap gone' = {}
  <2>1. Owner(m) \in Sides
    BY MonsOwner
  <2>2. /\ InPlayOf(Owner(m))' = InPlayOf(Owner(m)) \ {m}
        /\ Apart(bench'[Owner(m)]) /\ active'[Owner(m)] \notin Benched(Owner(m))'
        /\ gone' = gone \cup {m}
        /\ \A r \in Sides \ {Owner(m)} : active'[r] = active[r] /\ bench'[r] = bench[r]
    BY <1>0, <1>1, <1>7, <2>1, LeaveSets
  <2>3. CASE Owner(m) = s
    BY <1>1, <2>2, <2>3
  <2>4. CASE Owner(m) # s
    <3>1. active'[s] = active[s] /\ bench'[s] = bench[s]
      BY <2>2, <2>4
    <3>2. m \notin InPlayOf(s)
      BY <1>1, <2>4
    <3> QED BY <1>1, <1>4, <2>2, <3>1, <3>2
  <2> QED BY <2>3, <2>4
<1>8. BoardMove
  BY BoardMoves
<1> QED BY <1>1, <1>3, <1>5, <1>6, <1>7, <1>8 DEF BoardMove

LEMMA AtStart ==
  ASSUME Init
  PROVE  \A s \in Sides :
           /\ active[s] \in {None, <<s, 0>>}
           /\ \E n \in Nat : bench[s] = [i \in 1 .. n |-> <<s, i>>] /\ (active[s] = None => n > 0)
<1>1. PICK on, fn \in BOOLEAN, b1, b2 \in 0 .. MaxBench :
        /\ active = [s \in Sides |-> IF (IF s = "own" THEN on ELSE fn) THEN <<s, 0>> ELSE None]
        /\ bench = [s \in Sides |-> [i \in 1 .. (IF s = "own" THEN b1 ELSE b2) |-> <<s, i>>]]
        /\ on \/ (b1 > 0 /\ script \in Cards)
        /\ fn \/ b2 > 0
  BY Zenon DEF Init
<1>2. b1 \in Nat /\ b2 \in Nat
  BY ScriptAssumption
<1>3. CASE TRUE
  <2>1. SUFFICES ASSUME NEW s \in Sides
                 PROVE  /\ active[s] \in {None, <<s, 0>>}
                        /\ \E n \in Nat : bench[s] = [i \in 1 .. n |-> <<s, i>>] /\ (active[s] = None => n > 0)
    OBVIOUS
  <2>2. <<s, 0>> # None
    BY DEF None
  <2>3. CASE s = "own"
    <3>1. active[s] = (IF on THEN <<s, 0>> ELSE None) /\ bench[s] = [i \in 1 .. b1 |-> <<s, i>>]
      BY <1>1, <2>3
    <3> QED BY <1>1, <1>2, <2>2, <3>1
  <2>4. CASE s # "own"
    <3>1. active[s] = (IF fn THEN <<s, 0>> ELSE None) /\ bench[s] = [i \in 1 .. b2 |-> <<s, i>>]
      BY <1>1, <2>4
    <3> QED BY <1>1, <1>2, <2>2, <3>1
  <2> QED BY <2>3, <2>4
<1> QED BY <1>3

LEMMA PlacedAtStart == Init => Placed
<1> SUFFICES ASSUME Init PROVE Placed
  OBVIOUS
<1>1. gone = {}
  BY DEF Init
<1>2. ASSUME NEW s \in Sides
      PROVE  /\ \A m \in InPlayOf(s) : Owner(m) = s
             /\ Apart(bench[s]) /\ active[s] \notin Benched(s)
  <2>1. PICK n \in Nat : bench[s] = [i \in 1 .. n |-> <<s, i>>]
    BY AtStart
  <2>2. active[s] \in {None, <<s, 0>>}
    BY AtStart
  <2>3. Len(bench[s]) = n /\ DOMAIN bench[s] = 1 .. n /\ \A i \in 1 .. n : bench[s][i] = <<s, i>>
    BY <2>1
  <2>4. Benched(s) = {<<s, i>> : i \in 1 .. n}
    BY <2>3 DEF Benched
  <2>5. Apart(bench[s])
    BY <2>3 DEF Apart
  <2>6. active[s] \notin Benched(s)
    <3>1. \A i \in 1 .. n : <<s, i>> # <<s, 0>> /\ <<s, i>> # <<>>
      OBVIOUS
    <3> QED BY <2>2, <2>4, <3>1 DEF None
  <2>7. \A m \in InPlayOf(s) : Owner(m) = s
    BY <2>2, <2>4 DEF InPlayOf, Owner
  <2> QED BY <2>5, <2>6, <2>7
<1> QED BY <1>1, <1>2 DEF Placed

LEMMA PlacedOnce == ASSUME TypeOK, Placed PROVE OnePlace
<1>1. ASSUME NEW s \in Sides PROVE Len(bench[s]) = Cardinality(Benched(s))
  <2> DEFINE n == Len(bench[s])
             f == [i \in 1 .. n |-> bench[s][i]]
  <2>1. bench[s] \in Seq(Mons) /\ n \in Nat /\ DOMAIN bench[s] = 1 .. n
    BY DEF TypeOK
  <2>2. \A i, j \in 1 .. n : bench[s][i] = bench[s][j] => i = j
    BY DEF Placed, Apart
  <2>3. f \in Bijection(1 .. n, Benched(s))
    BY <2>1, <2>2 DEF Benched, Bijection, Injection, Surjection, IsInjective
  <2>4. IsFiniteSet(1 .. n) /\ Cardinality(1 .. n) = n
    BY <2>1, FS_Interval
  <2> HIDE DEF f, n
  <2>5. ExistsBijection(1 .. n, Benched(s))
    BY <2>3 DEF ExistsBijection
  <2> QED BY <2>4, <2>5, FS_Bijection DEF n
<1> QED BY <1>1 DEF Placed, OnePlace

-----------------------------------------------------------------------------
LEMMA ScriptStays == [Next]_vars => script' = script
<1>1. CASE Next
  BY <1>1 DEF Next, Fail, Branch, BranchSame, Loop, StartEach, NextEach, LeaveLoop, Call,
     Return, Assign, Store, Touch, Read, SetHitPoints, Reshape, Rearrange,
     Discard, Declare, TakePrizes, BlowLands, StrikeLands, Parry, Parried, Slip, ParryRaises,
     InflictOnList, SplashLands, CheckKo, StadiumGone, Tour, Sweep, Examine, KnockOut, Stop, Keeps, vars
<1>2. CASE UNCHANGED vars
  BY <1>2 DEF vars
<1> QED BY <1>1, <1>2

(* A handler that leaves the moving of Pokemon to the shared functions never    *)
(* has one in two places, not even for a moment.                               *)
Standing == Still(script) => Begun /\ Placed

LEMMA StandingAtStart == Init => Standing
  BY BegunAtStart, PlacedAtStart DEF Standing, Still

LEMMA StandingStep == Standing /\ [Next]_vars => Standing'
  BY ScriptStays, BegunStep, PlacedStep DEF Standing

(* A handler that moves Pokemon only by _switch_active_with_bench, by the     *)
(* effects that put one on the Bench and by check_ko leaves each of them in   *)
(* one place, of its owner's side, and none also in a pile of cards, whatever *)
(* is knocked out on the way.                                                 *)
THEOREM NobodyTwice == Spec => [](Still(script) => OnePlace)
<1>1. Standing => (Still(script) => OnePlace)
  BY PlacedOnce DEF Standing, Begun
<1> QED BY <1>1, StandingAtStart, StandingStep, PTL DEF Spec

-----------------------------------------------------------------------------
(* Once there is a winner there is one.                                        *)
LEMMA OverLasts == ASSUME TypeOK, [Next]_vars, Over PROVE Over'
<1>1. CASE winner' = winner
  BY <1>1 DEF Over
<1>2. CASE KnockOut
  <2>1. CASE UNCHANGED <<board, score>>
    BY <1>1, <2>1 DEF score
  <2>2. CASE ~UNCHANGED <<board, score>>
    <3>1. PICK m \in Mons : winner' = IF Wins(Other(Owner(m))) THEN Other(Owner(m)) ELSE winner
      BY <1>2, <2>2, KnockOutScore
    <3>2. Other(Owner(m)) # "none"
      BY MonsOwner DEF Sides
    <3> QED BY <3>1, <3>2 DEF Over
  <2> QED BY <2>1, <2>2
<1>3. CASE TakePrizes
  BY <1>3 DEF TakePrizes, Over
<1>4. CASE Declare
  BY <1>4 DEF Declare, Over, Sides
<1>5. CASE Idle \/ Local \/ Hit \/ Parry \/ Rearrange \/ Discard \/ UNCHANGED vars
  <2>1. UNCHANGED score
    BY <1>5, IdleSteps, LocalSteps, HitSteps DEF Parry, Rearrange, Discard, vars
  <2> QED BY <1>1, <2>1 DEF score
<1> QED BY <1>2, <1>3, <1>4, <1>5 DEF Next, Idle, Local, Hit

(* While nobody has won, each side has a Pokemon in play.                      *)
Manned == Over \/ \A s \in Sides : InPlayOf(s) # {}

LEMMA MannedAtStart == Init => Manned
<1> SUFFICES ASSUME Init, NEW s \in Sides PROVE InPlayOf(s) # {}
  BY DEF Manned
<1>1. active[s] \in {None, <<s, 0>>}
  BY AtStart
<1>2. PICK n \in Nat : bench[s] = [i \in 1 .. n |-> <<s, i>>] /\ (active[s] = None => n > 0)
  BY AtStart
<1>3. CASE active[s] # None
  BY <1>3 DEF InPlayOf
<1>4. CASE active[s] = None
  <2>1. 1 \in DOMAIN bench[s]
    BY <1>2, <1>4
  <2> QED BY <2>1 DEF InPlayOf, Benched
<1> QED BY <1>3, <1>4

LEMMA MannedStep ==
  ASSUME Still(script), Begun, Placed, Manned, [Next]_vars
  PROVE  Manned'
<1>0. TypeOK /\ TypeOK'
  BY StepTypes DEF Begun
<1>1. SUFFICES ASSUME ~Over', NEW s \in Sides PROVE InPlayOf(s)' # {}
  BY DEF Manned
<1>2. InPlayOf(s) # {}
  BY <1>0, <1>1, OverLasts DEF Manned
<1>3. CASE active'[s] = active[s] /\ bench'[s] = bench[s]
  BY <1>2, <1>3 DEF InPlayOf, Benched
<1>4. CASE KnockOut
  <2>1. CASE UNCHANGED <<board, score>>
    BY <1>3, <2>1 DEF board
  <2>2. CASE ~UNCHANGED <<board, score>>
    <3>1. PICK m \in Mons : /\ LeavesPlay(m)
                            /\ winner' = IF Wins(Other(Owner(m))) THEN Other(Owner(m)) ELSE winner
      BY <1>4, <2>2, KnockOutScore
    <3>2. Owner(m) \in Sides /\ Other(Owner(m)) \in Sides /\ Other(Other(Owner(m))) = Owner(m)
      BY DEF Mons, Owner, Other, Sides
    <3>3. CASE Owner(m) # s
      <4>1. active'[s] = active[s] /\ bench'[s] = bench[s]
        BY <1>0, <3>1, <3>2, <3>3, LeaveSets DEF Placed
      <4> QED BY <1>3, <4>1
    <3>4. CASE Owner(m) = s
      <4>1. ~Wins(Other(s))
        BY <1>1, <3>1, <3>2, <3>4 DEF Over, Sides
      <4>2. active'[s] # None \/ bench'[s] # <<>>
        BY <3>2, <3>4, <4>1 DEF Wins, NobodyLeft
      <4>3. bench'[s] \in Seq(Mons)
        BY <1>0 DEF TypeOK
      <4>4. bench'[s] # <<>> => 1 \in DOMAIN bench'[s]
        BY <4>3
      <4> QED BY <4>2, <4>4 DEF InPlayOf, Benched
    <3> QED BY <3>3, <3>4
  <2> QED BY <2>1, <2>2
<1>5. CASE UNCHANGED <<active, bench, gone>>
  BY <1>3, <1>5
<1>6. ASSUME NEW r \in Sides, NEW m, SwapsIn(r, m) PROVE InPlayOf(s)' # {}
  <2>1. CASE r = s
    BY <1>0, <1>2, <1>6, <2>1, SwapSets
  <2>2. CASE r # s
    BY <1>0, <1>3, <1>6, <2>2, SwapSets
  <2> QED BY <2>1, <2>2
<1>7. ASSUME NEW r \in Sides, Recruits(r) PROVE InPlayOf(s)' # {}
  <2>1. CASE r = s
    BY <1>0, <1>7, <2>1, RecruitSets DEF InPlayOf
  <2>2. CASE r # s
    BY <1>0, <1>3, <1>7, <2>2, RecruitSets
  <2> QED BY <2>1, <2>2
<1> QED BY <1>4, <1>5, <1>6, <1>7, BoardMoves DEF BoardMove

(* Such a handler never leaves a side without Pokemon in a game that goes on: *)
(* only check_ko takes one away, and check_ko looks whether it was the last.  *)
THEOREM SideManned == Spec => [](Still(script) => SomebodyLeft)
<1> DEFINE I == Standing /\ (Still(script) => Manned)
<1>1. Init => I
  BY StandingAtStart, MannedAtStart
<1>2. I /\ [Next]_vars => I'
  <2> SUFFICES ASSUME I, [Next]_vars PROVE I'
    OBVIOUS
  <2>1. Standing' /\ script' = script
    BY StandingStep, ScriptStays
  <2>2. Still(script') => Manned'
    BY <2>1, MannedStep DEF Standing
  <2> QED BY <2>1, <2>2
<1>3. I => (Still(script) => SomebodyLeft)
  BY DEF Manned, SomebodyLeft
<1> HIDE DEF I
<1> QED BY <1>1, <1>2, <1>3, PTL DEF Spec

-----------------------------------------------------------------------------
(* The work before and after a step, as sets.                                  *)
LEMMA RowRange == ASSUME NEW s, Row(s) PROVE Range(s) = {s[i] : i \in 1 .. Len(s)}
  BY RowFacts DEF Range

LEMMA PushRange ==
  ASSUME Row(todo), NEW ops, Row(ops), Becomes(ops)
  PROVE  /\ Row(todo') /\ Range(todo') = Range(ops) \cup Range(Tail(todo))
         /\ Range(todo) = {Now} \cup Range(Tail(todo))
<1> DEFINE t == ops \o Tail(todo)
           r == SubSeq(todo, 2, Len(todo))
           n == Len(ops)
           l == Len(todo)
<1>1. n \in Nat /\ l \in Nat /\ l > 0 /\ Now = todo[1]
  BY RowFacts DEF Becomes, Now
<1>2. todo \in Seq(Range(todo))
  BY DEF Row
<1>3. Tail(todo) = r
  BY <1>1, <1>2
<1>4. Row(r) /\ Len(r) = l - 1 /\ \A i \in 1 .. Len(r) : r[i] = todo[i + 1]
  <2>1. 2 \in 1 .. l + 1 /\ l + 1 - 2 = l - 1
    BY <1>1
  <2>2. Row(r) /\ Len(r) = l + 1 - 2 /\ \A i \in 1 .. Len(r) : r[i] = todo[i + 2 - 1]
    BY <2>1, SkipAt
  <2> HIDE DEF r, l
  <2>3. \A i \in 1 .. Len(r) : i + 2 - 1 = i + 1
    OBVIOUS
  <2> QED BY <2>1, <2>2, <2>3
<1>5. /\ Row(t) /\ Len(t) = n + l - 1
      /\ \A i \in 1 .. n : t[i] = ops[i]
      /\ \A i \in (n + 1) .. Len(t) : t[i] = todo[i + 1 - n]
  BY PushAt DEF Becomes
<1>6. todo' = t
  BY DEF Becomes
<1>7. Range(todo) = {todo[i] : i \in 1 .. l}
  BY RowRange
<1>8. Range(r) = {r[i] : i \in 1 .. Len(r)}
  BY <1>4, RowRange
<1>9. Range(t) = {t[i] : i \in 1 .. Len(t)} /\ Range(ops) = {ops[i] : i \in 1 .. n}
  BY <1>5, RowRange
<1> HIDE DEF t, r, n, l
<1>10. Range(todo) = {Now} \cup Range(r)
  <2>1. \A i \in 1 .. l : i = 1 \/ (i - 1 \in 1 .. Len(r) /\ (i - 1) + 1 = i)
    BY <1>1, <1>4
  <2>2. \A i \in 1 .. Len(r) : i + 1 \in 1 .. l
    BY <1>1, <1>4
  <2>3. 1 \in 1 .. l
    BY <1>1
  <2>4. Range(todo) \subseteq {Now} \cup Range(r)
    <3> SUFFICES ASSUME NEW i \in 1 .. l PROVE todo[i] \in {Now} \cup Range(r)
      BY <1>7
    <3>1. i # 1 => todo[i] = r[i - 1] /\ i - 1 \in 1 .. Len(r)
      BY <1>4, <2>1
    <3> QED BY <1>1, <1>8, <3>1
  <2>5. Range(r) \subseteq Range(todo)
    BY <1>4, <1>7, <1>8, <2>2
  <2> QED BY <1>1, <1>7, <2>3, <2>4, <2>5
<1>11. Range(t) = Range(ops) \cup Range(r)
  <2>1. \A i \in 1 .. Len(t) : i \in 1 .. n \/ (i \in (n + 1) .. Len(t) /\ i - n \in 1 .. Len(r) /\ (i - n) + 1 = i + 1 - n)
    BY <1>1, <1>4, <1>5
  <2>2. \A i \in 1 .. n : i \in 1 .. Len(t)
    BY <1>1, <1>5
  <2>3. \A i \in 1 .. Len(r) : i + n \in (n + 1) .. Len(t) /\ i + n \in 1 .. Len(t) /\ (i + n) + 1 - n = i + 1
    BY <1>1, <1>4, <1>5
  <2>4. Range(t) \subseteq Range(ops) \cup Range(r)
    <3> SUFFICES ASSUME NEW i \in 1 .. Len(t) PROVE t[i] \in Range(ops) \cup Range(r)
      BY <1>9
    <3>1. CASE i \in 1 .. n
      BY <1>5, <1>9, <3>1
    <3>2. CASE i \notin 1 .. n
      <4>1. t[i] = todo[i + 1 - n] /\ r[i - n] = todo[(i - n) + 1] /\ i - n \in 1 .. Len(r)
        BY <1>4, <1>5, <2>1, <3>2
      <4> QED BY <1>8, <2>1, <3>2, <4>1
    <3> QED BY <3>1, <3>2
  <2>5. Range(ops) \subseteq Range(t)
    BY <1>5, <1>9, <2>2
  <2>6. Range(r) \subseteq Range(t)
    <3> SUFFICES ASSUME NEW i \in 1 .. Len(r) PROVE r[i] \in Range(t)
      BY <1>8
    <3>1. t[i + n] = todo[i + 1] /\ r[i] = todo[i + 1]
      BY <1>4, <1>5, <2>3
    <3> QED BY <1>9, <2>3, <3>1
  <2> QED BY <2>4, <2>5, <2>6
<1> QED BY <1>3, <1>5, <1>6, <1>10, <1>11

LEMMA SkipRange ==
  ASSUME Row(todo), NEW k \in 1 .. Len(todo) + 1, todo' = From(k)
  PROVE  Row(todo') /\ Range(todo') \subseteq Range(todo)
<1> DEFINE t == SubSeq(todo, k, Len(todo))
<1>1. Row(t) /\ Len(t) = Len(todo) + 1 - k /\ \A i \in 1 .. Len(t) : t[i] = todo[i + k - 1]
  BY SkipAt
<1>2. todo' = t /\ Len(todo) \in Nat
  BY RowFacts DEF From
<1>3. Range(t) = {t[i] : i \in 1 .. Len(t)} /\ Range(todo) = {todo[i] : i \in 1 .. Len(todo)}
  BY <1>1, RowRange
<1> HIDE DEF t
<1>4. \A i \in 1 .. Len(t) : i + k - 1 \in 1 .. Len(todo)
  BY <1>1, <1>2
<1> QED BY <1>1, <1>2, <1>3, <1>4

LEMMA RangeNone == Range(<<>>) = {}
  BY DEF Range
LEMMA RangeOne == ASSUME NEW x PROVE Range(<<x>>) = {x}
  BY DEF Range
LEMMA RangeTwo == ASSUME NEW x, NEW y PROVE Range(<<x, y>>) = {x, y}
  BY DEF Range

LEMMA RangeConcat ==
  ASSUME NEW a \in Seq(Mons), NEW b \in Seq(Mons)
  PROVE  Range(a \o b) = Range(a) \cup Range(b)
  BY RangeConcatenation

LEMMA RangeTail ==
  ASSUME NEW l \in Seq(Mons), l # <<>>
  PROVE  /\ Tail(l) \in Seq(Mons) /\ Head(l) \in Mons /\ Range(l) = {Head(l)} \cup Range(Tail(l))
<1>1. /\ Tail(l) \in Seq(Mons) /\ Head(l) \in Mons /\ Len(Tail(l)) = Len(l) - 1
      /\ \A i \in 1 .. Len(Tail(l)) : Tail(l)[i] = l[i + 1]
      /\ Head(l) = l[1]
  BY HeadTailProperties
<1>2. Len(l) \in Nat /\ Len(l) > 0 /\ DOMAIN l = 1 .. Len(l) /\ DOMAIN Tail(l) = 1 .. Len(l) - 1
  BY <1>1
<1> DEFINE n == Len(l)
           t == Tail(l)
<1> HIDE DEF n, t
<1>3. Range(l) = {l[i] : i \in 1 .. n} /\ Range(t) = {t[i] : i \in 1 .. n - 1}
  BY <1>2 DEF Range, n, t
<1>4. \A i \in 1 .. n - 1 : t[i] = l[i + 1] /\ i + 1 \in 1 .. n
  BY <1>1, <1>2 DEF n, t
<1>5. \A i \in 1 .. n : i = 1 \/ (i - 1 \in 1 .. n - 1 /\ (i - 1) + 1 = i)
  BY <1>2 DEF n
<1>6. 1 \in 1 .. n
  BY <1>2 DEF n
<1>7. \A i \in 1 .. n : l[i] = Head(l) \/ (l[i] = t[i - 1] /\ i - 1 \in 1 .. n - 1)
  BY <1>1, <1>4, <1>5
<1>8. Range(l) = {Head(l)} \cup Range(t)
  BY <1>1, <1>3, <1>4, <1>6, <1>7
<1> QED BY <1>1, <1>8 DEF t

-----------------------------------------------------------------------------
(* Every Pokemon a handler speaks of is or was in play.                        *)
Known == InPlay \cup gone

Listed(o) ==
    IF o.op \in Parrying \cup {"ko"} THEN {o.mon}
    ELSE IF o.op \in {"next", "sweep"} THEN Range(o.list) ELSE {}

AllSeen ==
    /\ down \subseteq Known
    /\ \A v \in Vars : vals[v] \in Known \cup {None}
    /\ \A k \in Lists : Range(kept[k]) \subseteq Known
    /\ \A o \in Range(todo) : Listed(o) \subseteq Known

LEMMA KnownGrows ==
  ASSUME Begun, Still(script), Placed, [Next]_vars
  PROVE  Known \subseteq Known' /\ InPlay' \cap Known \subseteq InPlay
<1>0. TypeOK /\ Sides = {"own", "foe"}
  BY DEF Begun, Sides
<1>1. CASE UNCHANGED <<active, bench, gone>>
  BY <1>1 DEF Known, InPlay, InPlayOf, Benched
<1>2. ASSUME NEW s \in Sides, active'[s] = active[s], bench'[s] = bench[s]
      PROVE  InPlayOf(s)' = InPlayOf(s)
  BY <1>2 DEF InPlayOf, Benched
<1>3. ASSUME NEW s \in Sides, NEW m, SwapsIn(s, m)
      PROVE  Known \subseteq Known' /\ InPlay' \cap Known \subseteq InPlay
  <2>1. \A r \in Sides : InPlayOf(r)' = InPlayOf(r)
    BY <1>0, <1>2, <1>3, SwapSets
  <2>2. InPlay' = InPlay /\ gone' = gone
    BY <1>0, <1>3, <2>1 DEF InPlay, SwapsIn
  <2> QED BY <2>2 DEF Known
<1>4. ASSUME NEW s \in Sides, Recruits(s)
      PROVE  Known \subseteq Known' /\ InPlay' \cap Known \subseteq InPlay
  <2>1. /\ active' = active /\ gone' = gone /\ Spare(s) \notin InPlayOf(s) \cup gone
        /\ Benched(s)' = Benched(s) \cup {Spare(s)} /\ Spare(s) \in Mons
    BY <1>0, <1>4, RecruitSets DEF Recruits
  <2>2. \A r \in Sides : InPlayOf(r) \subseteq InPlayOf(r)' /\ InPlayOf(r)' \subseteq InPlayOf(r) \cup {Spare(s)}
    <3>1. InPlayOf(s) \subseteq InPlayOf(s)' /\ InPlayOf(s)' \subseteq InPlayOf(s) \cup {Spare(s)}
      BY <2>1 DEF InPlayOf
    <3>2. \A r \in Sides \ {s} : InPlayOf(r)' = InPlayOf(r)
      BY <1>0, <1>2, <1>4, <2>1, RecruitSets
    <3> QED BY <3>1, <3>2
  <2>3. InPlay \subseteq InPlay' /\ InPlay' \subseteq InPlay \cup {Spare(s)}
    BY <1>0, <2>2 DEF InPlay
  <2> QED BY <2>1, <2>3 DEF Known
<1>5. ASSUME NEW m \in Mons, LeavesPlay(m)
      PROVE  Known \subseteq Known' /\ InPlay' \cap Known \subseteq InPlay
  <2>1. Owner(m) \in Sides
    BY MonsOwner
  <2>2. /\ InPlayOf(Owner(m))' = InPlayOf(Owner(m)) \ {m}
        /\ gone' = gone \cup {m}
        /\ \A r \in Sides \ {Owner(m)} : InPlayOf(r)' = InPlayOf(r)
    BY <1>0, <1>2, <1>5, <2>1, LeaveSets DEF Placed
  <2>3. \A r \in Sides : InPlayOf(r) \subseteq InPlayOf(r)' \cup {m} /\ InPlayOf(r)' \subseteq InPlayOf(r)
    BY <2>2
  <2>4. InPlay \subseteq InPlay' \cup {m} /\ InPlay' \subseteq InPlay
    BY <1>0, <2>3 DEF InPlay
  <2> QED BY <2>2, <2>4 DEF Known
<1> QED BY <1>1, <1>3, <1>4, <1>5, BoardMoves DEF BoardMove

LEMMA PlaySeen == ASSUME TypeOK PROVE \A s \in Sides : Range(PlayList(s)) = InPlayOf(s) /\ PlayList(s) \in Seq(Mons)
<1> SUFFICES ASSUME NEW s \in Sides
             PROVE  Range(PlayList(s)) = InPlayOf(s) /\ PlayList(s) \in Seq(Mons)
  OBVIOUS
<1>1. bench[s] \in Seq(Mons) /\ ActiveList(s) \in Seq(Mons)
  BY ActiveListType DEF TypeOK
<1>2. Range(bench[s]) = Benched(s)
  BY DEF Range, Benched
<1>3. Range(ActiveList(s)) = {active[s]} \ {None}
  BY RangeNone, RangeOne DEF ActiveList
<1> QED BY <1>1, <1>2, <1>3, RangeConcat DEF PlayList, InPlayOf

LEMMA PoolSeen == ASSUME TypeOK, AllSeen, NEW name PROVE Range(Pool(name)) \subseteq Known
<1>1. \A s \in Sides : bench[s] \in Seq(Mons) /\ ActiveList(s) \in Seq(Mons) /\ PlayList(s) \in Seq(Mons)
  BY ActiveListType, PlaySeen DEF TypeOK
<1>2. \A s \in Sides : /\ Range(bench[s]) \subseteq Known /\ Range(ActiveList(s)) \subseteq Known
                       /\ Range(PlayList(s)) \subseteq Known
  <2>1. \A s \in Sides : Range(bench[s]) = Benched(s) /\ Benched(s) \subseteq Known /\ Range(PlayList(s)) \subseteq Known
    <3>1. \A s \in Sides : Range(bench[s]) = Benched(s)
      BY DEF Range, Benched
    <3>2. \A s \in Sides : Benched(s) \subseteq InPlayOf(s) /\ InPlayOf(s) \subseteq Known
      BY DEF InPlayOf, InPlay, Known, Sides
    <3> QED BY <3>1, <3>2, PlaySeen
  <2>2. \A s \in Sides : Range(ActiveList(s)) \subseteq Known
    BY RangeNone, RangeOne DEF ActiveList, InPlayOf, InPlay, Known, Sides
  <2> QED BY <2>1, <2>2
<1>3. \A k \in Lists : Range(kept[k]) \subseteq Known
  BY DEF AllSeen
<1>4. "own" \in Sides /\ "foe" \in Sides
  BY DEF Sides
<1>5. /\ Range(PlayList("own") \o PlayList("foe")) \subseteq Known
      /\ Range(bench["own"] \o bench["foe"]) \subseteq Known
      /\ Range(bench["own"] \o PlayList("foe")) \subseteq Known
      /\ Range(<<>>) \subseteq Known
  BY <1>1, <1>2, <1>4, RangeConcat, RangeNone
<1> QED BY <1>2, <1>3, <1>4, <1>5 DEF Pool

LEMMA ValueSeen == ASSUME TypeOK, AllSeen, NEW x, Value(x) \in Mons PROVE Value(x) \in Known
<1>1. \A s \in Sides : active[s] # None => active[s] \in Known
  BY DEF InPlayOf, InPlay, Known, Sides
<1>2. \A v \in Vars : vals[v] \in Known \cup {None}
  BY DEF AllSeen
<1> QED BY <1>1, <1>2, NoneIsNoMon DEF Value

-----------------------------------------------------------------------------
LEMMA FailedLasts == [Next]_vars /\ failed => failed'
<1>1. CASE Next /\ failed
  <2>1. (failed' = failed) \/ (failed' = TRUE)
    BY <1>1 DEF Next, Fail, Branch, BranchSame, Loop, StartEach, NextEach, LeaveLoop, Call,
       Return, Assign, Store, Touch, Read, SetHitPoints, Reshape, Rearrange,
       Discard, Declare, TakePrizes, BlowLands, StrikeLands, Parry, Parried, Slip, ParryRaises,
       InflictOnList, SplashLands, CheckKo, StadiumGone, Tour, Sweep, Examine, KnockOut, Stop, Keeps, vars
  <2> QED BY <1>1, <2>1
<1>2. CASE UNCHANGED vars
  BY <1>2 DEF vars
<1> QED BY <1>1, <1>2

LEMMA NowInTodo == ASSUME Begun, todo # <<>> PROVE Row(todo) /\ Now \in Range(todo)
<1>1. Row(todo) /\ Now = todo[1] /\ 1 \in 1 .. Len(todo)
  BY HeadFacts DEF Begun, Queue
<1> QED BY <1>1, RowRange

(* The handlers that take HP by the shared functions only.                     *)
LEMMA SparingDown ==
  ASSUME Begun, Examining(script), SetHitPoints
  PROVE  down' \subseteq down
<1>1. HpSet \subseteq Vocabulary /\ HpSet \subseteq Sparing \cup Lowering
  BY DEF HpSet, Vocabulary, Sparing, Lowering
<1>2. Now.op \in HpSet /\ Now \in Ops(script)
  BY <1>1, OwnHead DEF SetHitPoints, Sound
<1>3. Now.op \in {"Graze", "Heal"}
  BY <1>1, <1>2 DEF Examining, Sparing
<1> QED BY <1>3 DEF SetHitPoints, AfterHp

LEMMA OwnSpares ==
  ASSUME Begun, Examining(script), OwnStep
  PROVE  down' \subseteq down
<1>1. CASE SetHitPoints
  BY <1>1, SparingDown
<1>2. CASE ~SetHitPoints
  BY <1>2, Zenon DEF OwnStep, Fail, Branch, BranchSame, Loop, StartEach, NextEach, LeaveLoop, Call,
     Return, Assign, Store, Touch, Read, Rearrange, Discard, Declare, TakePrizes, board
<1> QED BY <1>1, <1>2

LEMMA DownSeen ==
  ASSUME Begun, Examining(script), AllSeen, [Next]_vars
  PROVE  down' \subseteq Known
<1>0. TypeOK /\ down \subseteq Known /\ InPlay \subseteq Known
  BY DEF Begun, AllSeen, Known
<1>1. \A s \in Sides : active[s] \in Mons \cup {None} /\ (active[s] # None => active[s] \in Known)
  BY DEF Begun, TypeOK, InPlayOf, InPlay, Known, Sides
<1>2. \A m \in Known : \A kind : \A d \in AfterHp(kind, m) : d \subseteq Known
  BY <1>0 DEF AfterHp
<1>3. CASE OwnStep
  BY <1>0, <1>3, OwnSpares
<1>4. CASE BlowLands \/ StrikeLands
  <2>1. down' = down \/ (active["foe"] # None /\ down' \in AfterHp("Hurt", active["foe"]))
    BY <1>4 DEF BlowLands, StrikeLands
  <2> QED BY <1>0, <1>1, <1>2, <2>1 DEF Sides
<1>5. CASE SplashLands
  <2>1. Value(Now.ref) \in Mons
    BY <1>5 DEF SplashLands, Sound, Fails, At, OnPokemon
  <2> QED BY <1>0, <1>2, <1>5, <2>1, ValueSeen DEF SplashLands
<1>6. CASE Reshape
  <2>1. Value(Now.ref) \in Mons
    BY <1>6 DEF Reshape, Sound, Fails, At, OnPokemon
  <2>2. Value(Now.ref) \in Known
    BY <1>0, <2>1, ValueSeen
  <2>3. down' = down \/ down' \in AfterHp("Recount", Value(Now.ref))
    BY <1>6 DEF Reshape
  <2> QED BY <1>0, <1>2, <2>2, <2>3
<1>7. CASE CheckKo \/ Tour \/ Sweep \/ Parried \/ Slip \/ KnockOut \/ UNCHANGED vars
  <2>1. down' = down
    BY <1>7, Zenon DEF Slip, ParryRaises, InflictOnList, CheckKo, Tour, Sweep, Parried, KnockOut, vars, board
  <2> QED BY <1>0, <2>1
<1>8. CASE StadiumGone
  <2>1. down' = down \/ \E S \in SUBSET InPlay : down' = down \cup S
    BY <1>8 DEF StadiumGone
  <2> QED BY <1>0, <2>1
<1>9. CASE Parry
  <2>1. todo # <<>> /\ Now.op \in {"parry"}
    BY <1>9, AtHead DEF Parry, Sound
  <2>2. Now.mon \in Known
    BY <2>1, NowInTodo DEF AllSeen, Parrying, Listed
  <2>3. down' = down \/ down' = down \cup {Now.mon}
    BY <1>9 DEF Parry
  <2> QED BY <1>0, <2>2, <2>3
<1>10. CASE Examine
  <2> DEFINE rival == active[Other(Owner(Now.mon))]
  <2>0. Now.mon \in Known
    <3>1. todo # <<>> /\ Now.op \in {"ko"}
      BY <1>10, AtHead DEF Examine, Sound
    <3> QED BY <3>1, NowInTodo DEF AllSeen, Listed
  <2>1. \/ down' = down \ {Now.mon} \/ down' = down \cup {Now.mon}
        \/ rival # None /\ \E d \in AfterHp("Hurt", rival) : down' = d \cup {Now.mon}
    BY <1>10 DEF Examine
  <2>2. Other(Owner(Now.mon)) \in Sides
    BY <1>10, MonsOwner DEF Examine
  <2>3. rival # None => rival \in Known
    BY <1>1, <2>2
  <2> HIDE DEF rival
  <2> QED BY <1>0, <1>2, <2>0, <2>1, <2>3
<1> QED BY <1>3, <1>4, <1>5, <1>6, <1>7, <1>8, <1>9, <1>10, StepKinds DEF Launch, InnerStep

LEMMA LocalsSeen ==
  ASSUME Begun, AllSeen, Local
  PROVE  /\ \A v \in Vars : vals'[v] \in Known \cup {None}
         /\ \A k \in Lists : Range(kept'[k]) \subseteq Known
<1>0. /\ TypeOK /\ vals \in [Vars -> Mons \cup {None}] /\ kept \in [Lists -> Seq(Mons)]
      /\ \A v \in Vars : vals[v] \in Known \cup {None}
      /\ \A k \in Lists : Range(kept[k]) \subseteq Known
  BY DEF Begun, TypeOK, AllSeen
<1>1. \A name : Range(Pool(name)) \subseteq Known
  BY <1>0, PoolSeen
<1>2. CASE NextEach
  <2>1. kept' = kept
    BY <1>2 DEF NextEach
  <2>2. CASE vals' = vals
    BY <1>0, <2>1, <2>2
  <2>3. CASE vals' # vals
    <3>1. todo # <<>> /\ Now.op = "next"
      BY <1>2, AtHead DEF NextEach, Sound
    <3>2. ~Internal(Now)
      BY <3>1, NotInner
    <3>3. OuterWork(script, Now)
      BY <3>1, <3>2, HeadFacts DEF Begun
    <3>4. Now.list \in Seq(Mons)
      <4>1. "next" \notin Vocabulary /\ [op |-> "ret"].op # "next"
        BY DEF Vocabulary, Controlling, Assigning, Touching, Sparing, Lowering, Knocking, Shifting,
               Moving, Awarding
      <4>2. Now \notin Ops(script)
        BY <3>1, <4>1 DEF Begun, Orderly
      <4> QED BY <3>1, <3>3, <4>1, <4>2 DEF OuterWork
    <3>5. Now.list # <<>> /\ vals' = [vals EXCEPT ![Now.var] = Head(Now.list)]
      BY <1>2, <2>3 DEF NextEach
    <3>6. Head(Now.list) \in Known
      <4>1. Head(Now.list) \in Range(Now.list)
        BY <3>4, <3>5, RangeTail
      <4>2. Range(Now.list) \subseteq Known
        BY <3>1, NowInTodo DEF AllSeen, Listed, Parrying
      <4> QED BY <4>1, <4>2
    <3> QED BY <1>0, <2>1, <3>5, <3>6
  <2> QED BY <2>2, <2>3
<1>3. CASE Assign
  <2>1. kept' = kept
    BY <1>3 DEF Assign
  <2>2. PICK m \in Mons \cup {None} :
          /\ CASE Now.op = "Clear"  -> m = None
               [] Now.op = "Bind"   -> m = Value(Now.ref)
               [] Now.op = "Find"   -> m = IF vals[Now.var] \in InPlay THEN vals[Now.var] ELSE None
               [] Now.op = "Choose" -> m \in Range(Pool(Now.pool))
               [] Now.op = "Maybe"  -> m \in Range(Pool(Now.pool)) \cup {None}
          /\ vals' = [vals EXCEPT ![Now.var] = m]
    BY <1>3 DEF Assign
  <2>3. Now.op \in {"Clear", "Bind", "Find", "Choose", "Maybe"}
    BY <1>3 DEF Assign, Sound, At
  <2>4. m \in Known \cup {None}
    <3>1. CASE Now.op \in {"Clear", "Choose", "Maybe"}
      BY <1>1, <2>2, <3>1
    <3>2. CASE Now.op = "Bind"
      BY <1>0, <2>2, <3>2, ValueSeen
    <3>3. CASE Now.op = "Find"
      BY <2>2, <3>3 DEF Known
    <3> QED BY <2>3, <3>1, <3>2, <3>3
  <2> QED BY <1>0, <2>1, <2>2, <2>4
<1>4. CASE Store
  <2>1. vals' = vals
    BY <1>4 DEF Store
  <2>2. \E S : /\ S = Range(Pool(Now.pool)) \/ S \in SUBSET Range(Pool(Now.pool))
               /\ \E c \in Seq(Mons) : Range(c) \subseteq S /\ kept' = [kept EXCEPT ![Now.var] = c]
    BY <1>4 DEF Store
  <2>3. PICK c : Range(c) \subseteq Known /\ kept' = [kept EXCEPT ![Now.var] = c]
    BY <1>1, <2>2
  <2> QED BY <1>0, <2>1, <2>3
<1> QED BY <1>2, <1>3, <1>4 DEF Local

LEMMA Shortened ==
  ASSUME NEW o, o = [op |-> "sweep", list |-> o.list], NEW x
  PROVE  [o EXCEPT !.list = x] = [op |-> "sweep", list |-> x]
<1> DEFINE l == [o EXCEPT !.list = x]
           r == [op |-> "sweep", list |-> x]
<1>1. DOMAIN o = {"op", "list"} /\ o.op = "sweep"
  OBVIOUS
<1>2. DOMAIN l = {"op", "list"} /\ DOMAIN r = {"op", "list"}
  BY <1>1
<1>3. l.op = "sweep" /\ l.list = x /\ r.op = "sweep" /\ r.list = x
  BY <1>1
<1>4. l = [y \in {"op", "list"} |-> l[y]] /\ r = [y \in {"op", "list"} |-> r[y]]
  BY <1>2
<1>5. \A y \in {"op", "list"} : l[y] = r[y]
  BY <1>3
<1> HIDE DEF l, r
<1> QED BY <1>4, <1>5 DEF l, r

LEMMA WorkSeen ==
  ASSUME Begun, AllSeen, [Next]_vars
  PROVE  \A o \in Range(todo') : Listed(o) \subseteq Known
<1> DEFINE Seen(o) == Listed(o) \subseteq Known
           AllNext == \A o \in Range(todo') : Seen(o)
<1>1. \A o \in Range(todo) : Seen(o)
  BY DEF AllSeen
<1>2. TypeOK /\ Row(todo) /\ InPlay \subseteq Known
  BY DEF Begun, Queue, Known
<1>3. ASSUME NEW m \in Known, NEW n
      PROVE  Seen(KoOf(m, n)) /\ Seen(Ko(m)) /\ \A k \in Parrying : Seen([op |-> k, mon |-> m])
  BY <1>3 DEF KoOf, Ko, Listed, Parrying
<1>4. ASSUME NEW k \in {"tour", "out", "late out"}, NEW o, o.op = k PROVE Seen(o)
  BY <1>4 DEF Listed, Parrying
<1>5. ASSUME NEW l, Range(l) \subseteq Known PROVE Seen([op |-> "sweep", list |-> l])
  BY <1>5 DEF Listed, Parrying
<1> HIDE DEF Seen
<1>6. ASSUME NEW ops, Becomes(ops), Row(ops), \A i \in 1 .. Len(ops) : Seen(ops[i])
      PROVE  AllNext
  <2>1. Range(todo') = Range(ops) \cup Range(Tail(todo)) /\ Range(todo) = {Now} \cup Range(Tail(todo))
    BY <1>2, <1>6, PushRange
  <2>2. \A o \in Range(ops) : Seen(o)
    BY <1>6, RowRange
  <2> QED BY <1>1, <2>1, <2>2
<1>7. ASSUME NEW k \in 1 .. Len(todo) + 1, todo' = From(k) PROVE AllNext
  BY <1>1, <1>2, <1>7, SkipRange
<1>8. ASSUME todo # <<>>, Onward PROVE AllNext
  <2>1. Becomes(<<>>) /\ Row(<<>>) /\ Len(<<>>) = 0
    BY <1>8, OnwardIs, RowNone DEF Begun
  <2> QED BY <1>6, <2>1
<1>9. ASSUME todo # <<>>, NEW x, Seen(x), todo' = <<x>> \o Rest PROVE AllNext
  <2> DEFINE t == <<x>>
  <2>1. Becomes(t) /\ Row(t) /\ Len(t) = 1 /\ t[1] = x
    BY <1>9, RowOne DEF Becomes, Rest
  <2> HIDE DEF t
  <2> QED BY <1>6, <1>9, <2>1
<1>10. ASSUME todo # <<>>, NEW x, NEW y, Seen(x), Seen(y), todo' = <<x, y>> \o Rest PROVE AllNext
  <2> DEFINE t == <<x, y>>
  <2>1. Becomes(t) /\ Row(t) /\ Len(t) = 2 /\ t[1] = x /\ t[2] = y
    BY <1>10, RowTwo DEF Becomes, Rest
  <2> HIDE DEF t
  <2>2. \A i \in 1 .. 2 : i = 1 \/ i = 2
    OBVIOUS
  <2> QED BY <1>6, <1>10, <2>1, <2>2
<1>11. ASSUME todo' = <<>> PROVE AllNext
  BY <1>11, RangeNone
<1> SUFFICES AllNext
  BY DEF Seen
<1> HIDE DEF AllNext
<1>12. CASE OwnStep
  <2>1. OwnMove
    BY <1>12, OwnMoves
  <2>2. ASSUME NEW o, Sprung(o) PROVE Seen(o)
    <3>1. o.op \notin Parrying \cup {"ko", "sweep"}
      BY <2>2, OuterNotInternal DEF Sprung, Begun, Internal, Internals, Parrying
    <3>2. ASSUME o.op = "next" PROVE Range(o.list) \subseteq Known
      <4>1. CASE \E name : o.list = Pool(name)
        BY <1>2, <4>1, PoolSeen
      <4>2. CASE Now.op = "next" /\ Now.list \in Seq(Mons) /\ Now.list # <<>> /\ o.list = Tail(Now.list)
        <5>1. Range(Now.list) \subseteq Known
          BY <2>1, <4>2, NowInTodo DEF AllSeen, OwnMove, Listed, Parrying
        <5> QED BY <4>2, <5>1, RangeTail
      <4> QED BY <2>2, <3>2, <4>1, <4>2 DEF Sprung
    <3> QED BY <3>1, <3>2 DEF Seen, Listed
  <2> QED BY <1>6, <1>7, <1>11, <2>1, <2>2 DEF OwnMove
<1>13. CASE Launch
  <2>1. LaunchMove
    BY <1>13, LaunchMoves
  <2>2. todo # <<>>
    BY <2>1 DEF LaunchMove
  <2>3. \A s \in {"own", "foe"} : active[s] # None => active[s] \in Known
    BY <1>2 DEF InPlayOf, InPlay
  <2>4. Onward => AllNext
    BY <1>8, <2>2
  <2>5. ASSUME NEW m \in Known, NEW n, Then(<<KoOf(m, n)>>) \/ Then(<<Ko(m)>>) PROVE AllNext
    BY <1>3, <1>9, <2>2, <2>5 DEF Then
  <2>6. CASE BlowLands
    <3>1. Onward \/ (active["foe"] # None /\ Then(<<Ko(active["foe"])>>))
      BY <2>6 DEF BlowLands
    <3> QED BY <2>3, <2>4, <2>5, <3>1
  <2>7. CASE StrikeLands
    <3>1. Onward \/ /\ active["own"] # None /\ active["foe"] # None
                    /\ todo' = <<[op |-> "parry", mon |-> active["own"]], Ko(active["foe"])>> \o Rest
      BY <2>7 DEF StrikeLands, Then
    <3> QED BY <1>3, <1>10, <2>2, <2>3, <2>4, <3>1 DEF Parrying
  <2>8. CASE SplashLands \/ CheckKo \/ Reshape
    <3>1. Value(Now.ref) \in Mons
      BY <2>8 DEF SplashLands, CheckKo, Reshape, Sound, Fails, At, OnPokemon
    <3>2. Value(Now.ref) \in Known
      BY <1>2, <3>1, ValueSeen
    <3>3. Onward \/ \E n : Then(<<KoOf(Value(Now.ref), n)>>) \/ Then(<<Ko(Value(Now.ref))>>)
      BY <2>8 DEF SplashLands, CheckKo, Reshape
    <3> QED BY <2>4, <2>5, <3>2, <3>3
  <2>9. CASE StadiumGone
    <3>1. Onward \/ \E s : todo' = <<[op |-> "tour", side |-> s], [op |-> "tour", side |-> Other(s)]>> \o Rest
      BY <2>9 DEF StadiumGone, Then
    <3>2. \A s : Seen([op |-> "tour", side |-> s])
      BY <1>4
    <3> QED BY <1>10, <2>2, <2>4, <3>1, <3>2
  <2> QED BY <1>13, <2>6, <2>7, <2>8, <2>9 DEF Launch
<1>14. CASE InnerStep
  <2>1. InnerMove
    BY <1>14, InnerMoves
  <2>2. todo # <<>> /\ InnerWork(Now) /\ Now \in Range(todo)
    BY <2>1, NowInTodo DEF InnerMove
  <2>3. Listed(Now) \subseteq Known
    BY <2>2 DEF AllSeen
  <2>4. Onward => AllNext
    BY <1>8, <2>2
  <2>5. todo' = todo => AllNext
    BY <1>1 DEF AllNext
  <2>6. CASE Parry
    <3>1. Now.op = "parry" /\ Now = [op |-> Now.op, mon |-> Now.mon] /\ Now.mon \in Known
      BY <2>2, <2>3, <2>6, InnerForms DEF Parry, Sound, At, Parrying, Listed
    <3>2. [Now EXCEPT !.op = "parried"] = [op |-> "parried", mon |-> Now.mon]
      BY <3>1
    <3>3. \/ Onward \/ todo' = todo
          \/ todo' = <<Ko(Now.mon), [op |-> "parried", mon |-> Now.mon]>> \o Rest
      BY <2>6, <3>2 DEF Parry, Then
    <3> QED BY <1>3, <1>10, <2>2, <2>4, <2>5, <3>1, <3>3 DEF Parrying
  <2>7. CASE Parried
    <3>1. Now.op = "parried" /\ Now = [op |-> Now.op, mon |-> Now.mon] /\ Now.mon \in Known
      BY <2>2, <2>3, <2>7, InnerForms DEF Parried, Sound, At, Parrying, Listed
    <3>2. [Now EXCEPT !.op = "parry"] = [op |-> "parry", mon |-> Now.mon]
      BY <3>1
    <3>3. todo' = <<[op |-> "parry", mon |-> Now.mon]>> \o Rest => AllNext
      BY <1>3, <1>9, <2>2, <3>1 DEF Parrying
    <3>4. \/ \E ops : Becomes(ops) /\ Chain(ops)
          \/ todo' = todo
          \/ Len(todo) > 1 /\ todo' = From(3)
      BY <2>1 DEF InnerMove
    <3>5. todo' = Tail(Rest) \/ todo' = <<[op |-> "parry", mon |-> Now.mon]>> \o Rest
      BY <2>7, <3>2 DEF Parried
    <3>6. todo' = Tail(Rest) => todo' = From(3) /\ 3 \in 1 .. Len(todo) + 1
      <4>1. Now = todo[1] /\ 1 \in 1 .. Len(todo)
        BY <2>2, HeadFacts DEF Begun
      <4>2. Len(todo) > 1 /\ todo \in Seq(Range(todo))
        BY <3>1, <4>1 DEF Begun, Queue, Parrying, Row
      <4>3. Tail(Rest) = From(3)
        BY <4>2 DEF Rest, From
      <4>4. Len(todo) \in Nat
        BY <4>2
      <4> QED BY <4>2, <4>3, <4>4
    <3> QED BY <1>7, <3>3, <3>5, <3>6
  <2>8. CASE Tour
    <3>1. Now.side \in Sides /\ todo' = <<[op |-> "sweep", list |-> PlayList(Now.side)]>> \o Rest
      BY <2>2, <2>8, InnerForms DEF Tour, Sound, At, Then
    <3>2. Range(PlayList(Now.side)) \subseteq Known
      BY <1>2, <3>1, PlaySeen DEF InPlay, Sides
    <3> QED BY <1>5, <1>9, <2>2, <3>1, <3>2
  <2>9. CASE Sweep
    <3>1. /\ Now.op = "sweep" /\ Now.list \in Seq(Mons) /\ Now = [op |-> "sweep", list |-> Now.list]
          /\ Range(Now.list) \subseteq Known
      BY <2>2, <2>3, <2>9, InnerForms DEF Sweep, Sound, At, Listed, Parrying
    <3>2. [Now EXCEPT !.list = Tail(Now.list)] = [op |-> "sweep", list |-> Tail(Now.list)]
      BY <3>1, Shortened
    <3>3. \/ Onward
          \/ /\ Now.list # <<>>
             /\ todo' = <<Ko(Head(Now.list)), [op |-> "sweep", list |-> Tail(Now.list)]>> \o Rest
      BY <2>9, <3>2 DEF Sweep, Then
    <3>4. Now.list # <<>> => Head(Now.list) \in Known /\ Range(Tail(Now.list)) \subseteq Known
      BY <3>1, RangeTail
    <3> QED BY <1>3, <1>5, <1>10, <2>2, <2>4, <3>3, <3>4
  <2>10. CASE Examine
    <3> DEFINE rival == active[Other(Owner(Now.mon))]
    <3>1. Now.op = "ko" /\ Now = [op |-> Now.op, mon |-> Now.mon, needles |-> Now.needles] /\ Now.mon \in Mons
      BY <2>2, <2>10, InnerForms DEF Examine, Sound, At
    <3>2. PICK x, y : x = [Now EXCEPT !.op = "out"] /\ y = [Now EXCEPT !.op = "late out"]
      OBVIOUS
    <3>3. x.op = "out" /\ y.op = "late out"
      BY <3>1, <3>2
    <3>4. rival # None => rival \in Known
      BY <1>2, <3>1, MonsOwner DEF InPlayOf, InPlay, Sides
    <3>5. \/ Onward \/ todo' = <<x>> \o Rest
          \/ rival # None /\ todo' = <<Ko(rival), y>> \o Rest
      BY <2>10, <3>2 DEF Examine, Then
    <3> HIDE DEF rival
    <3> QED BY <1>3, <1>4, <1>9, <1>10, <2>2, <2>4, <3>3, <3>4, <3>5
  <2>11. CASE KnockOut
    BY <2>4, <2>11 DEF KnockOut
  <2> QED BY <1>14, <2>6, <2>7, <2>8, <2>9, <2>10, <2>11 DEF InnerStep
<1>15. CASE Slip
  BY <1>11, <1>15, SlipEnds
<1>16. CASE UNCHANGED vars
  BY <1>1, <1>16 DEF vars, AllNext
<1> QED BY <1>12, <1>13, <1>14, <1>15, <1>16, StepKinds

LEMMA AllSeenStep ==
  ASSUME Begun, Examining(script), Placed, AllSeen, [Next]_vars
  PROVE  AllSeen'
<1>1. Known \subseteq Known'
  BY KnownGrows DEF Examining
<1>2. down' \subseteq Known
  BY DownSeen
<1>3. /\ \A v \in Vars : vals'[v] \in Known \cup {None}
      /\ \A k \in Lists : Range(kept'[k]) \subseteq Known
  <2>1. CASE Local
    BY <2>1, LocalsSeen
  <2>2. CASE ~Local
    <3>1. UNCHANGED locals
      BY <2>2, IdleSteps, HitSteps DEF Next, Idle, Local, Hit, Parry, Rearrange, Discard, Declare, TakePrizes,
         KnockOut, vars
    <3> QED BY <3>1 DEF locals, AllSeen
  <2> QED BY <2>1, <2>2
<1>4. \A o \in Range(todo') : Listed(o) \subseteq Known
  BY WorkSeen
<1> QED BY <1>1, <1>2, <1>3, <1>4 DEF AllSeen

-----------------------------------------------------------------------------
(* The Pokemon an operation in progress will examine.                          *)
Examinee(o) ==
    IF o.op \in {"ko", "out", "late out"} THEN {o.mon}
    ELSE IF o.op = "sweep" THEN Range(o.list)
    ELSE IF o.op = "tour" THEN {m \in Mons : Owner(m) = o.side}
    ELSE {}

Owed(s) == UNION {Examinee(o) : o \in Range(s)}

(* No Pokemon without HP is forgotten.                                         *)
Pending == Over \/ failed \/ down \cap InPlay \subseteq Owed(todo)

LEMMA OwedPush ==
  ASSUME Begun, NEW ops, Becomes(ops), Row(ops)
  PROVE  /\ Owed(todo') = Owed(ops) \cup Owed(Tail(todo))
         /\ Owed(todo) = Examinee(Now) \cup Owed(Tail(todo))
<1>1. Range(todo') = Range(ops) \cup Range(Tail(todo)) /\ Range(todo) = {Now} \cup Range(Tail(todo))
  BY PushRange DEF Begun, Queue
<1> QED BY <1>1 DEF Owed

LEMMA OwedNone == Owed(<<>>) = {}
  BY RangeNone DEF Owed
LEMMA OwedOf == ASSUME NEW s, NEW m PROVE m \in Owed(s) <=> \E o \in Range(s) : m \in Examinee(o)
  BY DEF Owed
LEMMA OwedOne == ASSUME NEW x PROVE Owed(<<x>>) = Examinee(x)
<1>1. Range(<<x>>) = {x}
  BY RangeOne
<1> QED BY <1>1, OwedOf
LEMMA OwedTwo == ASSUME NEW x, NEW y PROVE Owed(<<x, y>>) = Examinee(x) \cup Examinee(y)
<1>1. Range(<<x, y>>) = {x, y}
  BY RangeTwo
<1> QED BY <1>1, OwedOf

LEMMA OwedOnward == ASSUME Begun, todo # <<>>, Onward PROVE Owed(todo) \subseteq Examinee(Now) \cup Owed(todo')
<1>1. Becomes(<<>>) /\ Row(<<>>)
  BY OnwardIs, RowNone DEF Begun
<1> QED BY <1>1, OwedPush

LEMMA OwedThenOne ==
  ASSUME Begun, todo # <<>>, NEW x, todo' = <<x>> \o Rest
  PROVE  Owed(todo) \subseteq Examinee(Now) \cup Owed(todo') /\ Examinee(x) \subseteq Owed(todo')
<1>1. Becomes(<<x>>) /\ Row(<<x>>)
  BY RowOne DEF Becomes, Rest
<1> QED BY <1>1, OwedPush, OwedOne

LEMMA OwedThenTwo ==
  ASSUME Begun, todo # <<>>, NEW x, NEW y, todo' = <<x, y>> \o Rest
  PROVE  /\ Owed(todo) \subseteq Examinee(Now) \cup Owed(todo')
         /\ Examinee(x) \subseteq Owed(todo') /\ Examinee(y) \subseteq Owed(todo')
<1> DEFINE t == <<x, y>>
<1>1. Becomes(t) /\ Row(t)
  BY RowTwo DEF Becomes, Rest
<1>2. Owed(t) = Examinee(x) \cup Examinee(y)
  BY OwedTwo
<1> HIDE DEF t
<1>3. Owed(todo') = Owed(t) \cup Owed(Tail(todo)) /\ Owed(todo) = Examinee(Now) \cup Owed(Tail(todo))
  BY <1>1, OwedPush
<1> QED BY <1>2, <1>3

LEMMA NoneOwed ==
  ASSUME \A i \in 1 .. Len(todo) : ~Internal(todo[i]), Row(todo)
  PROVE  Owed(todo) = {}
<1>1. Range(todo) = {todo[i] : i \in 1 .. Len(todo)}
  BY RowRange
<1>2. \A i \in 1 .. Len(todo) : Examinee(todo[i]) = {}
  BY DEF Internal, Internals, Examinee
<1> QED BY <1>1, <1>2 DEF Owed

LEMMA KoExaminee == ASSUME NEW m, NEW n PROVE Examinee(KoOf(m, n)) = {m} /\ Examinee(Ko(m)) = {m}
  BY DEF KoOf, Ko, Examinee

LEMMA PendingStep ==
  ASSUME Begun, Examining(script), Placed, AllSeen, Pending, [Next]_vars
  PROVE  Pending'
<1>0. TypeOK /\ Row(todo) /\ down \subseteq Known /\ down \subseteq Mons
  BY DEF Begun, Queue, AllSeen, TypeOK
<1>1. SUFFICES ASSUME ~Over', ~failed' PROVE down' \cap InPlay' \subseteq Owed(todo')
  BY DEF Pending
<1>2. ~Over /\ ~failed
  BY <1>0, <1>1, OverLasts, FailedLasts
<1>3. down \cap InPlay \subseteq Owed(todo)
  BY <1>2 DEF Pending
<1>4. InPlay' \cap Known \subseteq InPlay
  BY KnownGrows DEF Examining
<1>5. CASE OwnStep
  <2>1. OwnMove
    BY <1>5, OwnMoves
  <2>2. Owed(todo) = {}
    BY <1>0, <2>1, HeadFacts, NoneOwed DEF OwnMove, Begun
  <2>3. down' \subseteq down
    BY <1>5, OwnSpares
  <2> QED BY <1>0, <1>3, <1>4, <2>2, <2>3
<1>6. CASE Launch
  <2>1. LaunchMove
    BY <1>6, LaunchMoves
  <2>2. Owed(todo) = {} /\ todo # <<>>
    BY <1>0, <2>1, HeadFacts, NoneOwed DEF LaunchMove, Begun
  <2>3. down \cap InPlay = {}
    BY <1>3, <2>2
  <2>4. InPlay' = InPlay
    <3>1. UNCHANGED <<active, bench>>
      BY <1>6 DEF Launch, BlowLands, StrikeLands, SplashLands, CheckKo, Reshape, StadiumGone, board
    <3> QED BY <3>1 DEF InPlay, InPlayOf, Benched
  <2>5. ASSUME NEW m, NEW kind, down' \in AfterHp(kind, m) PROVE down' \subseteq down \cup {m}
    BY <2>5 DEF AfterHp
  <2>6. CASE BlowLands
    <3>1. \/ down' = down
          \/ down' \in AfterHp("Hurt", active["foe"]) /\ todo' = <<Ko(active["foe"])>> \o Rest
      BY <2>6 DEF BlowLands, Then
    <3> QED BY <2>2, <2>3, <2>4, <2>5, <3>1, OwedThenOne, KoExaminee
  <2>7. CASE StrikeLands
    <3>1. \/ down' = down
          \/ /\ down' \in AfterHp("Hurt", active["foe"])
             /\ todo' = <<[op |-> "parry", mon |-> active["own"]], Ko(active["foe"])>> \o Rest
      BY <2>7 DEF StrikeLands, Then
    <3> QED BY <2>2, <2>3, <2>4, <2>5, <3>1, OwedThenTwo, KoExaminee
  <2>8. CASE SplashLands
    <3>1. \/ down' = down
          \/ /\ down' \in AfterHp("Hurt", Value(Now.ref))
             /\ todo' = <<Ko(Value(Now.ref))>> \o Rest
      BY <2>8 DEF SplashLands, Then
    <3> QED BY <2>2, <2>3, <2>4, <2>5, <3>1, OwedThenOne, KoExaminee
  <2>9. CASE CheckKo
    <3>1. down' = down
      BY <2>9 DEF CheckKo, board
    <3> QED BY <2>3, <2>4, <3>1
  <2>10. CASE Reshape
    <3>1. \/ down' = down
          \/ /\ down' \in AfterHp("Recount", Value(Now.ref))
             /\ todo' = <<KoOf(Value(Now.ref), FALSE)>> \o Rest
      BY <2>10 DEF Reshape, Then
    <3> QED BY <2>2, <2>3, <2>4, <2>5, <3>1, OwedThenOne, KoExaminee
  <2>11. CASE StadiumGone
    <3>1. CASE down' = down
      BY <2>3, <2>4, <3>1
    <3>2. CASE down' # down
      <4>1. PICK s \in Sides :
              todo' = <<[op |-> "tour", side |-> s], [op |-> "tour", side |-> Other(s)]>> \o Rest
        BY <2>11, <3>2 DEF StadiumGone, Then
      <4>2. \A r : Examinee([op |-> "tour", side |-> r]) = {m \in Mons : Owner(m) = r}
        BY DEF Examinee
      <4>3. {m \in Mons : Owner(m) = s} \cup {m \in Mons : Owner(m) = Other(s)} \subseteq Owed(todo')
        BY <2>2, <4>1, <4>2, OwedThenTwo
      <4>4. \A m \in Mons : Owner(m) \in {s, Other(s)}
        BY DEF Mons, Owner, Other, Sides
      <4>5. InPlay \subseteq Mons
        BY <1>0, InPlayType
      <4> QED BY <2>4, <4>3, <4>4, <4>5
    <3> QED BY <3>1, <3>2
  <2> QED BY <1>6, <2>6, <2>7, <2>8, <2>9, <2>10, <2>11 DEF Launch
<1>7. CASE InnerStep
  <2>1. todo # <<>> /\ InnerWork(Now)
    BY <1>7, InnerMoves DEF InnerMove
  <2>2. CASE Parry
    <3>1. Now.op = "parry"
      BY <2>1, <2>2 DEF Parry, Sound, At
    <3>2. Examinee(Now) = {}
      BY <3>1 DEF Examinee
    <3>3. CASE Onward /\ UNCHANGED <<down, bench>>
      <4>1. Owed(todo) \subseteq Owed(todo')
        BY <2>1, <3>2, <3>3, OwedOnward
      <4> QED BY <1>0, <1>3, <1>4, <3>3, <4>1
    <3>4. CASE /\ down' = down \cup {Now.mon}
               /\ todo' = <<Ko(Now.mon), [Now EXCEPT !.op = "parried"]>> \o Rest
      <4>1. Owed(todo) \subseteq Owed(todo') /\ Now.mon \in Owed(todo')
        BY <2>1, <3>2, <3>4, OwedThenTwo, KoExaminee
      <4> QED BY <1>0, <1>3, <1>4, <3>4, <4>1
    <3>5. CASE todo' = todo /\ down' = down
      BY <1>0, <1>3, <1>4, <3>5
    <3> QED BY <2>2, <3>3, <3>4, <3>5 DEF Parry, Then
  <2>3. CASE Parried
    <3>1. Now.op = "parried" /\ down' = down
      BY <2>1, <2>3 DEF Parried, Sound, At, board
    <3>2. Examinee(Now) = {}
      BY <3>1 DEF Examinee
    <3>3. todo' = <<[Now EXCEPT !.op = "parry"]>> \o Rest
      BY <1>2, <2>3 DEF Parried
    <3>4. Owed(todo) \subseteq Owed(todo')
      BY <2>1, <3>2, <3>3, OwedThenOne
    <3> QED BY <1>0, <1>3, <1>4, <3>1, <3>4
  <2>4. CASE Tour
    <3>1. /\ Now.op = "tour" /\ down' = down /\ UNCHANGED <<active, bench>> /\ Now.side \in Sides
          /\ todo' = <<[op |-> "sweep", list |-> PlayList(Now.side)]>> \o Rest
      BY <2>1, <2>4, InnerForms DEF Tour, Sound, At, board, Then
    <3>2. Examinee(Now) = {m \in Mons : Owner(m) = Now.side}
      BY <3>1 DEF Examinee
    <3>3. Examinee([op |-> "sweep", list |-> PlayList(Now.side)]) = InPlayOf(Now.side)
      BY <1>0, <3>1, PlaySeen DEF Examinee
    <3>4. Owed(todo) \subseteq Examinee(Now) \cup Owed(todo') /\ InPlayOf(Now.side) \subseteq Owed(todo')
      BY <2>1, <3>1, <3>3, OwedThenOne
    <3>5. \A m \in InPlay : Owner(m) = Now.side => m \in InPlayOf(Now.side)
      BY DEF Placed, InPlay, Sides
    <3>6. InPlay' = InPlay
      BY <3>1 DEF InPlay, InPlayOf, Benched
    <3> QED BY <1>3, <3>1, <3>2, <3>4, <3>5, <3>6
  <2>5. CASE Sweep
    <3>1. Now.op = "sweep" /\ Now.list \in Seq(Mons) /\ down' = down
      BY <2>1, <2>5, InnerForms DEF Sweep, Sound, At, board
    <3>2. Examinee(Now) = Range(Now.list)
      BY <3>1 DEF Examinee
    <3>3. CASE Now.list = <<>> /\ Onward
      <4>1. Owed(todo) \subseteq Owed(todo')
        BY <2>1, <3>2, <3>3, OwedOnward, RangeNone
      <4> QED BY <1>0, <1>3, <1>4, <3>1, <4>1
    <3>4. CASE /\ Now.list # <<>>
               /\ todo' = <<Ko(Head(Now.list)), [Now EXCEPT !.list = Tail(Now.list)]>> \o Rest
      <4>1. Range(Now.list) = {Head(Now.list)} \cup Range(Tail(Now.list))
        BY <3>1, <3>4, RangeTail
      <4>2. Now = [op |-> "sweep", list |-> Now.list]
        BY <2>1, <3>1, InnerForms
      <4>3. Examinee([Now EXCEPT !.list = Tail(Now.list)]) = Range(Tail(Now.list))
        <5>2. [Now EXCEPT !.list = Tail(Now.list)] = [op |-> "sweep", list |-> Tail(Now.list)]
          BY <4>2, Shortened
        <5>3. Examinee([op |-> "sweep", list |-> Tail(Now.list)]) = Range(Tail(Now.list))
          BY DEF Examinee
        <5> QED BY <5>2, <5>3
      <4>4. Owed(todo) \subseteq Owed(todo')
        <5> DEFINE y == [Now EXCEPT !.list = Tail(Now.list)]
        <5>1. todo' = <<Ko(Head(Now.list)), y>> \o Rest /\ Examinee(y) = Range(Tail(Now.list))
          BY <3>4, <4>3
        <5> HIDE DEF y
        <5>2. /\ Owed(todo) \subseteq Examinee(Now) \cup Owed(todo')
              /\ Examinee(Ko(Head(Now.list))) \subseteq Owed(todo') /\ Examinee(y) \subseteq Owed(todo')
          BY <2>1, <5>1, OwedThenTwo
        <5>3. Examinee(Ko(Head(Now.list))) = {Head(Now.list)}
          BY KoExaminee
        <5> QED BY <3>2, <4>1, <5>1, <5>2, <5>3
      <4> QED BY <1>0, <1>3, <1>4, <3>1, <4>4
    <3> QED BY <1>2, <2>5, <3>3, <3>4 DEF Sweep, Then
  <2>6. CASE Examine
    <3> DEFINE m == Now.mon
               rival == active[Other(Owner(m))]
    <3>1. /\ Now.op = "ko" /\ m \in Mons
          /\ Now = [op |-> Now.op, mon |-> Now.mon, needles |-> Now.needles]
      BY <2>1, <2>6, InnerForms DEF Examine, Sound, At
    <3>2. Examinee(Now) = {m}
      BY <3>1 DEF Examinee
    <3>3. \A k \in {"out", "late out"} : Examinee([Now EXCEPT !.op = k]) = {m}
      <4>1. \A k : [Now EXCEPT !.op = k] = [op |-> k, mon |-> m, needles |-> Now.needles]
        BY <3>1, Reordered
      <4>2. \A k \in {"out", "late out"} : Examinee([op |-> k, mon |-> m, needles |-> Now.needles]) = {m}
        BY DEF Examinee
      <4> QED BY <4>1, <4>2
    <3>4. CASE Onward /\ down' = down \ {m}
      <4>1. Owed(todo) \subseteq {m} \cup Owed(todo')
        BY <2>1, <3>2, <3>4, OwedOnward
      <4> QED BY <1>0, <1>3, <1>4, <3>4, <4>1
    <3>5. CASE down' = down \cup {m} /\ todo' = <<[Now EXCEPT !.op = "out"]>> \o Rest
      <4>1. Owed(todo) \subseteq Owed(todo') /\ m \in Owed(todo')
        BY <2>1, <3>2, <3>3, <3>5, OwedThenOne
      <4> QED BY <1>0, <1>3, <1>4, <3>5, <4>1
    <3>6. CASE /\ \E d \in AfterHp("Hurt", rival) : down' = d \cup {m}
               /\ todo' = <<Ko(rival), [Now EXCEPT !.op = "late out"]>> \o Rest
      <4>1. Owed(todo) \subseteq Owed(todo') /\ rival \in Owed(todo') /\ m \in Owed(todo')
        BY <2>1, <3>2, <3>3, <3>6, OwedThenTwo, KoExaminee
      <4>2. down' \subseteq down \cup {rival, m}
        BY <3>6 DEF AfterHp
      <4> QED BY <1>0, <1>3, <1>4, <4>1, <4>2
    <3> QED BY <2>6, <3>4, <3>5, <3>6 DEF Examine, Then
  <2>7. CASE KnockOut
    <3>1. down' = down /\ Onward /\ Now.mon \in Mons /\ Now.op \in {"out", "late out"}
      BY <2>1, <2>7 DEF KnockOut, board, Sound, At
    <3>2. Owed(todo) \subseteq {Now.mon} \cup Owed(todo')
      BY <2>1, <3>1, OwedOnward DEF Examinee
    <3>3. LeavesPlay(Now.mon)
      BY <1>2, <2>7 DEF KnockOut
    <3>4. Now.mon \notin InPlay'
      <4>1. Placed'
        BY PlacedStep DEF Examining
      <4> QED BY <3>3, <4>1 DEF Placed, LeavesPlay
    <3> QED BY <1>0, <1>3, <1>4, <3>1, <3>2, <3>4
  <2> QED BY <1>7, <2>2, <2>3, <2>4, <2>5, <2>6, <2>7 DEF InnerStep
<1>8. CASE Slip
  BY <1>1, <1>8, SlipEnds
<1>9. CASE UNCHANGED vars
  BY <1>3, <1>9 DEF vars, board, InPlay, InPlayOf, Benched
<1> QED BY <1>5, <1>6, <1>7, <1>8, <1>9, StepKinds

LEMMA SeenAtStart == ASSUME Init, Begun PROVE AllSeen /\ Pending
<1>1. /\ down = {} /\ vals = [v \in Vars |-> None] /\ kept = [k \in Lists |-> <<>>]
      /\ todo = script
  BY DEF Init
<1>2. \A k \in Lists : Range(kept[k]) = {}
  BY <1>1, RangeNone
<1>3. \A o \in Range(todo) : o \in Ops(script)
  BY <1>1, ScriptIsBlock, BlockRow, RowRange DEF Begun
<1>4. \A o \in Ops(script) : Listed(o) = {}
  BY DEF Begun, Orderly, Vocabulary, Controlling, Assigning, Touching, Sparing, Lowering,
         Knocking, Shifting, Moving, Awarding, Parrying, Listed
<1> QED BY <1>1, <1>2, <1>3, <1>4 DEF AllSeen, Pending

(* The shared functions never lose sight of a Pokemon without HP: what lowers   *)
(* HP leads to check_ko, and check_ko to a knock-out, a rescue or the end.      *)
Watched == Examining(script) => Begun /\ Placed /\ AllSeen /\ Pending

LEMMA WatchedAtStart == Init => Watched
  BY BegunAtStart, PlacedAtStart, SeenAtStart DEF Watched, Examining, Still

LEMMA WatchedStep == Watched /\ [Next]_vars => Watched'
<1> SUFFICES ASSUME Watched, [Next]_vars, Examining(script) PROVE (Begun /\ Placed /\ AllSeen /\ Pending)'
  BY ScriptStays DEF Watched
<1>1. Begun /\ Placed /\ AllSeen /\ Pending /\ Still(script)
  BY DEF Watched, Examining
<1> QED BY <1>1, BegunStep, PlacedStep, AllSeenStep, PendingStep

(* A handler that takes HP by the shared functions only has every Pokemon     *)
(* that a change of its HP left without any examined before it returns: such  *)
(* a change leads to check_ko, through every retaliation, and check_ko to a   *)
(* knock-out, a rescue or the end of the game.  It says nothing of a Pokemon  *)
(* that is without HP because a bonus to it has ended.                        *)
THEOREM NobodyForgotten == Spec => [](Examining(script) => LossesExamined)
<1>1. Watched => (Examining(script) => LossesExamined)
  BY OwedNone DEF Watched, LossesExamined, Returned, Done, Pending
<1> QED BY <1>1, WatchedAtStart, WatchedStep, PTL DEF Spec

-----------------------------------------------------------------------------
(* The Pokemon an operation in progress will examine, or knock out.             *)
Claims(o) ==
    IF o.op \in {"ko", "out", "late out"} THEN {o.mon}
    ELSE IF o.op = "sweep" THEN Range(o.list) ELSE {}

(* It is in play, and without HP when it is to be knocked out.                 *)
Fine(o) ==
    /\ Claims(o) \subseteq InPlay
    /\ o.op \in {"out", "late out"} => o.mon \in down
    /\ o.op \in Parrying => o.mon \in InPlay \cup down /\ Owner(o.mon) = "own" /\ script \notin Cards
    /\ o.op = "sweep" => Apart(o.list) /\ \E s \in Sides : \A m \in Range(o.list) : Owner(m) = s

(* And nobody behind it examines the same one, nor one that Exploding Needles   *)
(* of the first could hurt and examine before.                                 *)
Spares(o, p) ==
    /\ \A m \in Claims(o), n \in Claims(p) :
         /\ m # n
         /\ \/ n \in down \/ n # active[Owner(n)] \/ Owner(m) = Owner(n)
            \/ (Owner(m) = "own" /\ script \notin Cards)
    /\ o.op \in Parrying => \A n \in Claims(p) : Owner(n) = "foe"
    /\ o.op = "tour" => Claims(p) = {}

Claimed ==
    /\ \A i \in 1 .. Len(todo) : Fine(todo[i])
    /\ \A i, j \in 1 .. Len(todo) : i < j => Spares(todo[i], todo[j])

(* What is behind the first.                                                   *)
Left(o) == \E k \in 2 .. Len(todo) : o = todo[k]
LeftPair(o, p) == \E k, l \in 2 .. Len(todo) : k < l /\ o = todo[k] /\ p = todo[l]

LEMMA ClaimsNow ==
  ASSUME Begun, todo # <<>>, Claimed
  PROVE  /\ Fine(Now)
         /\ \A o : Left(o) => Fine(o) /\ Spares(Now, o)
         /\ \A o, p : LeftPair(o, p) => Spares(o, p) /\ Left(o) /\ Left(p)
<1>1. Len(todo) \in Nat /\ Len(todo) > 0 /\ Now = todo[1] /\ 1 \in 1 .. Len(todo)
  BY HeadFacts DEF Begun
<1>2. \A k \in 2 .. Len(todo) : k \in 1 .. Len(todo) /\ 1 < k
  BY <1>1
<1> QED BY <1>1, <1>2 DEF Claimed, Left, LeftPair

LEMMA ClaimPush ==
  ASSUME Begun, NEW ops, Becomes(ops), Row(ops),
         \A i \in 1 .. Len(ops) : Fine(ops[i])',
         \A i, j \in 1 .. Len(ops) : i < j => Spares(ops[i], ops[j])',
         \A o : Left(o) => Fine(o)',
         \A o, p : LeftPair(o, p) => Spares(o, p)',
         \A i \in 1 .. Len(ops) : \A o : Left(o) => Spares(ops[i], o)'
  PROVE  Claimed'
<1> DEFINE t == ops \o Tail(todo)
           n == Len(ops)
<1>1. n \in Nat /\ Len(todo) \in Nat /\ Len(todo) > 0
  BY RowFacts DEF Becomes, Begun, Queue
<1>2. /\ Len(t) = n + Len(todo) - 1
      /\ \A i \in 1 .. n : t[i] = ops[i]
      /\ \A i \in (n + 1) .. Len(t) : t[i] = todo[i + 1 - n]
  BY PushAt DEF Becomes, Begun, Queue
<1>3. todo' = t
  BY DEF Becomes
<1>4. PICK u : u = t
  OBVIOUS
<1> HIDE DEF t, n
<1>5. \A i \in 1 .. Len(u) : i > n => i + 1 - n \in 2 .. Len(todo) /\ u[i] = todo[i + 1 - n]
  BY <1>1, <1>2, <1>4
<1>6. \A i \in 1 .. Len(u) : i <= n => i \in 1 .. n /\ u[i] = ops[i]
  BY <1>1, <1>2, <1>4
<1>7. ASSUME NEW i \in 1 .. Len(u) PROVE Fine(u[i])'
  <2>1. CASE i <= n
    BY <1>6, <2>1 DEF n
  <2>2. CASE i > n
    <3>1. Left(u[i])
      BY <1>5, <2>2 DEF Left
    <3> QED BY <3>1
  <2> QED BY <1>1, <1>2, <1>4, <2>1, <2>2
<1>8. ASSUME NEW i \in 1 .. Len(u), NEW j \in 1 .. Len(u), i < j PROVE Spares(u[i], u[j])'
  <2>0. i \in Int /\ j \in Int /\ n \in Int
    BY <1>1, <1>8
  <2>1. CASE j <= n
    <3>1. i <= n
      BY <1>8, <2>0, <2>1
    <3>2. i \in 1 .. n /\ j \in 1 .. n /\ u[i] = ops[i] /\ u[j] = ops[j]
      BY <1>6, <2>1, <3>1
    <3> QED BY <1>8, <3>2 DEF n
  <2>2. CASE i <= n /\ j > n
    <3>1. Left(u[j])
      BY <1>5, <2>2 DEF Left
    <3>2. i \in 1 .. n /\ u[i] = ops[i]
      BY <1>6, <2>2
    <3> QED BY <3>1, <3>2 DEF n
  <2>3. CASE i > n
    <3>1. j > n /\ i + 1 - n < j + 1 - n
      BY <1>8, <2>0, <2>3
    <3>2. LeftPair(u[i], u[j])
      BY <1>5, <2>3, <3>1 DEF LeftPair
    <3> QED BY <3>2
  <2> QED BY <2>0, <2>1, <2>2, <2>3
<1> QED BY <1>3, <1>4, <1>7, <1>8 DEF Claimed

LEMMA ClaimSkip ==
  ASSUME Begun, Claimed, NEW k \in 1 .. Len(todo) + 1, todo' = From(k),
         UNCHANGED <<script, active, bench, down>>
  PROVE  Claimed'
<1> DEFINE t == SubSeq(todo, k, Len(todo))
<1>1. Len(t) = Len(todo) + 1 - k /\ \A i \in 1 .. Len(t) : t[i] = todo[i + k - 1]
  BY SkipAt DEF Begun, Queue
<1>2. todo' = t /\ Len(todo) \in Nat
  BY RowFacts DEF From, Begun, Queue
<1> HIDE DEF t
<1>3. \A i \in 1 .. Len(t) : i + k - 1 \in 1 .. Len(todo)
  BY <1>1, <1>2
<1>4. \A i, j \in 1 .. Len(t) : i < j => i + k - 1 < j + k - 1
  BY <1>1, <1>2
<1>5. /\ \A i \in 1 .. Len(t) : Fine(t[i])
      /\ \A i, j \in 1 .. Len(t) : i < j => Spares(t[i], t[j])
  BY <1>1, <1>3, <1>4 DEF Claimed
<1>6. PICK u : u = t
  OBVIOUS
<1>7. /\ \A i \in 1 .. Len(u) : Fine(u[i])'
      /\ \A i, j \in 1 .. Len(u) : i < j => Spares(u[i], u[j])'
  <2>1. InPlay' = InPlay
    BY DEF InPlay, InPlayOf, Benched
  <2>2. \A o : Fine(o) => Fine(o)'
    BY <2>1 DEF Fine
  <2>3. \A o, p : Spares(o, p) => Spares(o, p)'
    BY DEF Spares
  <2> QED BY <1>5, <1>6, <2>2, <2>3
<1> QED BY <1>2, <1>6, <1>7 DEF Claimed

(* What keeps a claim good.                                                    *)
LEMMA FineKept ==
  ASSUME NEW o, Fine(o), script' = script, Claims(o) \subseteq InPlay',
         InPlay \cup down \subseteq InPlay' \cup down',
         o.op \in {"out", "late out"} => o.mon \in down'
  PROVE  Fine(o)'
  BY DEF Fine

LEMMA SparesKept ==
  ASSUME NEW o, NEW p, Spares(o, p), script' = script,
         \A n \in Claims(p) : n \in down => n \in down',
         \A n \in Claims(p) : n # active[Owner(n)] => n # active'[Owner(n)]
  PROVE  Spares(o, p)'
  BY DEF Spares

LEMMA ClaimsGrow ==
  ASSUME Begun, Claimed, todo # <<>>, script' = script, active' = active, InPlay \subseteq InPlay', down \subseteq down'
  PROVE  /\ \A o : Left(o) => Fine(o)'
         /\ \A o, p : LeftPair(o, p) => Spares(o, p)'
         /\ \A o : Left(o) => Spares(Now, o)
<1>1. /\ \A o : Left(o) => Fine(o) /\ Spares(Now, o)
      /\ \A o, p : LeftPair(o, p) => Spares(o, p)
  BY ClaimsNow
<1>2. ASSUME NEW o, Left(o) PROVE Fine(o)'
  <2>1. Fine(o)
    BY <1>1, <1>2
  <2>2. Claims(o) \subseteq InPlay /\ (o.op \in {"out", "late out"} => o.mon \in down)
    BY <2>1 DEF Fine
  <2> QED BY <2>1, <2>2, FineKept
<1>3. ASSUME NEW o, NEW p, LeftPair(o, p) PROVE Spares(o, p)'
  BY <1>1, <1>3, SparesKept
<1> QED BY <1>1, <1>2, <1>3

(* Without an examination in progress nothing is claimed.                      *)
LEMMA NoClaims ==
  ASSUME NEW o, ~Internal(o)
  PROVE  Claims(o) = {} /\ o.op \notin Parrying /\ o.op \notin {"out", "late out", "sweep", "tour"}
  BY DEF Internal, Internals, Claims, Parrying

-----------------------------------------------------------------------------
LEMMA OuterClaimed ==
  ASSUME \A i \in 1 .. Len(todo') : ~Internal(todo'[i])
  PROVE  Claimed'
<1>1. \A i \in 1 .. Len(todo') :
         /\ Claims(todo'[i]) = {} /\ todo'[i].op \notin Parrying
         /\ todo'[i].op \notin {"out", "late out", "sweep", "tour"}
  BY NoClaims
<1>2. \A i \in 1 .. Len(todo') : Fine(todo[i])'
  BY <1>1 DEF Fine
<1>3. \A i, j \in 1 .. Len(todo') : Spares(todo[i], todo[j])'
  BY <1>1 DEF Spares
<1> QED BY <1>2, <1>3 DEF Claimed

LEMMA ClaimNone ==
  ASSUME Begun, todo # <<>>, Onward,
         \A o : Left(o) => Fine(o)',
         \A o, p : LeftPair(o, p) => Spares(o, p)'
  PROVE  Claimed'
<1>1. Becomes(<<>>) /\ Row(<<>>) /\ Len(<<>>) = 0 /\ 1 .. 0 = {}
  BY OnwardIs, RowNone DEF Begun
<1> QED BY <1>1, ClaimPush

LEMMA ClaimOne ==
  ASSUME Begun, NEW x, todo # <<>>, todo' = <<x>> \o Rest, Fine(x)',
         \A o : Left(o) => Fine(o)',
         \A o, p : LeftPair(o, p) => Spares(o, p)',
         \A o : Left(o) => Spares(x, o)'
  PROVE  Claimed'
<1> DEFINE t == <<x>>
<1>1. Becomes(t) /\ Row(t) /\ Len(t) = 1 /\ t[1] = x
  BY RowOne DEF Becomes, Rest
<1> HIDE DEF t
<1>2. /\ \A i \in 1 .. Len(t) : i = 1 /\ t[i] = x
      /\ \A i, j \in 1 .. Len(t) : ~(i < j)
  BY <1>1
<1> QED BY <1>1, <1>2, ClaimPush

LEMMA ClaimTwo ==
  ASSUME Begun, NEW x, NEW y, todo # <<>>, todo' = <<x, y>> \o Rest, Fine(x)', Fine(y)', Spares(x, y)',
         \A o : Left(o) => Fine(o)',
         \A o, p : LeftPair(o, p) => Spares(o, p)',
         \A o : Left(o) => Spares(x, o)' /\ Spares(y, o)'
  PROVE  Claimed'
<1> DEFINE t == <<x, y>>
<1>1. Becomes(t) /\ Row(t) /\ Len(t) = 2 /\ t[1] = x /\ t[2] = y
  BY RowTwo DEF Becomes, Rest
<1> HIDE DEF t
<1>2. /\ \A i \in 1 .. Len(t) : (i = 1 /\ t[i] = x) \/ (i = 2 /\ t[i] = y)
      /\ \A i, j \in 1 .. Len(t) : i < j => i = 1 /\ j = 2
  BY <1>1
<1>3. /\ \A i \in 1 .. Len(t) : Fine(t[i])'
      /\ \A i, j \in 1 .. Len(t) : i < j => Spares(t[i], t[j])'
      /\ \A i \in 1 .. Len(t) : \A o : Left(o) => Spares(t[i], o)'
  BY <1>1, <1>2
<1> QED BY <1>1, <1>3, ClaimPush

LEMMA ApartTail ==
  ASSUME NEW l \in Seq(Mons), l # <<>>, Apart(l)
  PROVE  Apart(Tail(l)) /\ Head(l) \notin Range(Tail(l))
<1>1. /\ Tail(l) \in Seq(Mons) /\ Len(Tail(l)) = Len(l) - 1 /\ Head(l) = l[1]
      /\ \A i \in 1 .. Len(Tail(l)) : Tail(l)[i] = l[i + 1]
  BY HeadTailProperties
<1> DEFINE n == Len(l)
           t == Tail(l)
<1>2. n \in Nat /\ n > 0 /\ Row(t)
  <2>1. n \in Nat /\ n > 0
    OBVIOUS
  <2>2. Row(t)
    BY <1>1, RowOf
  <2> QED BY <2>1, <2>2
<1> HIDE DEF n, t
<1>3. \A i \in 1 .. n - 1 : i + 1 \in 1 .. n /\ i + 1 # 1 /\ t[i] = l[i + 1]
  BY <1>1, <1>2 DEF n, t
<1>4. 1 \in 1 .. n /\ \A i, j \in 1 .. n : l[i] = l[j] => i = j
  BY <1>2 DEF n, Apart
<1>5. \A i, j \in 1 .. n - 1 : t[i] = t[j] => i = j
  <2>1. SUFFICES ASSUME NEW i \in 1 .. n - 1, NEW j \in 1 .. n - 1, t[i] = t[j] PROVE i = j
    OBVIOUS
  <2>2. i + 1 = j + 1
    BY <1>3, <1>4, <2>1
  <2> QED BY <1>2, <2>2
<1>6. \A i \in 1 .. n - 1 : t[i] # l[1]
  BY <1>3, <1>4
<1>7. Range(t) = {t[i] : i \in 1 .. Len(t)} /\ Len(t) = n - 1
  BY <1>1, <1>2, RowRange DEF n, t
<1> QED BY <1>1, <1>5, <1>6, <1>7 DEF Apart, t

LEMMA PlayApart ==
  ASSUME TypeOK, Placed, NEW s \in Sides
  PROVE  Apart(PlayList(s))
<1>1. bench[s] \in Seq(Mons) /\ Apart(bench[s]) /\ active[s] \notin Benched(s) /\ active[s] \in Mons \cup {None}
  BY DEF TypeOK, Placed
<1>2. CASE active[s] = None
  <2>1. PlayList(s) = bench[s]
    BY <1>1, <1>2, ConcatEmptySeq DEF PlayList, ActiveList
  <2> QED BY <1>1, <2>1
<1>3. CASE active[s] # None
  <2> DEFINE a == <<active[s]>>
             t == a \o bench[s]
             n == Len(bench[s])
  <2>1. a \in Seq(Mons) /\ Len(a) = 1 /\ a[1] = active[s] /\ n \in Nat
    BY <1>1, <1>3
  <2>2. PlayList(s) = t
    BY <1>3 DEF PlayList, ActiveList
  <2> HIDE DEF a
  <2>3. /\ Len(t) = 1 + n
        /\ \A i \in 1 .. 1 + n : t[i] = IF i <= 1 THEN a[i] ELSE bench[s][i - 1]
    <3>1. /\ Len(t) = Len(a) + Len(bench[s])
          /\ \A i \in 1 .. Len(a) + Len(bench[s]) :
               t[i] = IF i <= Len(a) THEN a[i] ELSE bench[s][i - Len(a)]
      BY <1>1, <2>1, ConcatProperties
    <3> HIDE DEF t
    <3> QED BY <2>1, <3>1
  <2>4. \A i \in 1 .. n : bench[s][i] \in Benched(s)
    BY <1>1 DEF Benched
  <2> HIDE DEF t, n
  <2>5. \A i \in 1 .. 1 + n : (i = 1 /\ t[i] = active[s]) \/ (i - 1 \in 1 .. n /\ t[i] = bench[s][i - 1])
    BY <2>1, <2>3
  <2>6. \A i, j \in 1 .. n : bench[s][i] = bench[s][j] => i = j
    BY <1>1 DEF Apart, n
  <2>7. ASSUME NEW i \in 1 .. 1 + n, NEW j \in 1 .. 1 + n, t[i] = t[j] PROVE i = j
    <3>1. CASE i = 1 \/ j = 1
      BY <1>1, <2>4, <2>5, <2>7, <3>1
    <3>2. CASE i # 1 /\ j # 1
      <4>1. i - 1 = j - 1
        BY <2>5, <2>6, <2>7, <3>2
      <4> QED BY <2>1, <4>1
    <3> QED BY <3>1, <3>2
  <2>8. Apart(t)
    BY <2>3, <2>7 DEF Apart
  <2> QED BY <2>2, <2>8
<1> QED BY <1>2, <1>3

LEMMA KoFine == ASSUME NEW m, NEW k, m \in InPlay' PROVE Fine(KoOf(m, k))' /\ Fine(Ko(m))'
  BY DEF Fine, KoOf, Ko, Claims, Parrying

-----------------------------------------------------------------------------
(* The calls of the shared functions.                                          *)
LEMMA LaunchClaims ==
  ASSUME Begun, Paying(script), Placed, Launch
  PROVE  Claimed'
<1>1. todo # <<>> /\ ~Internal(Now) /\ Now \in Ops(script) /\ script' = script
  BY LaunchMoves DEF LaunchMove
<1>2. \A i \in 1 .. Len(todo) : ~Internal(todo[i])
  BY <1>1, HeadFacts DEF Begun
<1>3. Len(todo) \in Nat
  BY RowFacts DEF Begun, Queue
<1>4. \A o : Left(o) => Claims(o) = {} /\ o.op \notin Parrying /\ o.op \notin {"out", "late out", "sweep", "tour"}
  <2>1. \A o : Left(o) => ~Internal(o)
    BY <1>2, <1>3 DEF Left
  <2> QED BY <2>1, NoClaims
<1>5. /\ \A o : Left(o) => Fine(o)'
      /\ \A x, o : Left(o) => Spares(x, o)'
      /\ \A o, p : LeftPair(o, p) => Spares(o, p)'
  <2>1. \A o : Left(o) => Fine(o)'
    BY <1>4 DEF Fine
  <2>2. \A x, o : Left(o) => Spares(x, o)'
    BY <1>4 DEF Spares
  <2>3. \A o, p : LeftPair(o, p) => Left(p)
    BY DEF Left, LeftPair
  <2> QED BY <2>1, <2>2, <2>3
<1>6. Onward => Claimed'
  BY <1>1, <1>5, ClaimNone
<1>7. /\ active' = active /\ bench' = bench /\ InPlay' = InPlay
  <2>1. active' = active /\ bench' = bench
    BY DEF Launch, BlowLands, StrikeLands, SplashLands, CheckKo, Reshape, StadiumGone, board
  <2> QED BY <2>1 DEF InPlay, InPlayOf, Benched
<1>8. \A s \in Sides : active[s] # None => active[s] \in InPlay /\ Owner(active[s]) = s
  BY DEF Placed, InPlay, InPlayOf, Sides
<1>9. ASSUME NEW m, NEW k, m \in InPlay, todo' = <<KoOf(m, k)>> \o Rest \/ todo' = <<Ko(m)>> \o Rest
      PROVE  Claimed'
  BY <1>1, <1>5, <1>7, <1>9, KoFine, ClaimOne
<1>10. CASE BlowLands
  <2>1. Onward \/ (active["foe"] # None /\ todo' = <<Ko(active["foe"])>> \o Rest)
    BY <1>10 DEF BlowLands, Then
  <2>2. PICK m : m = active["foe"]
    OBVIOUS
  <2>3. m # None => m \in InPlay
    BY <1>8, <2>2 DEF Sides
  <2> QED BY <1>6, <1>9, <2>1, <2>2, <2>3
<1>11. CASE StrikeLands
  <2>1. PICK m, n : m = active["own"] /\ n = active["foe"]
    OBVIOUS
  <2> DEFINE p == [op |-> "parry", mon |-> m]
  <2>2. Onward \/ (m # None /\ n # None /\ todo' = <<p, Ko(n)>> \o Rest)
    BY <1>11, <2>1 DEF StrikeLands, Then
  <2>3. script \notin Cards
    <3>1. Now.op = "Strike"
      BY <1>11 DEF StrikeLands, Sound, At
    <3> QED BY <1>1, <3>1 DEF Paying
  <2>4. p.op = "parry" /\ p.mon = m /\ Claims(p) = {} /\ p.op \in Parrying
    BY DEF Claims, Parrying
  <2> HIDE DEF p
  <2>5. ASSUME m # None, n # None, todo' = <<p, Ko(n)>> \o Rest PROVE Claimed'
    <3>1. m \in InPlay /\ Owner(m) = "own" /\ n \in InPlay /\ Owner(n) = "foe"
      BY <1>8, <2>1, <2>5 DEF Sides
    <3>2. Fine(p)'
      BY <1>1, <1>7, <2>3, <2>4, <3>1 DEF Fine
    <3>3. Fine(Ko(n))'
      BY <1>7, <3>1, KoFine
    <3>4. Spares(p, Ko(n))'
      BY <2>4, <3>1 DEF Spares, Ko, KoOf, Claims
    <3>5. PICK y : y = Ko(n)
      OBVIOUS
    <3>6. Fine(y)' /\ Spares(p, y)' /\ todo' = <<p, y>> \o Rest
      BY <2>5, <3>3, <3>4, <3>5
    <3> QED BY <1>1, <1>5, <3>2, <3>6, ClaimTwo
  <2> QED BY <1>6, <2>2, <2>5
<1>12. ASSUME Now.op \in {"Splash", "Check", "Rise", "Fall"}, Value(Now.ref) \in Mons
       PROVE  Value(Now.ref) \in InPlay
  <2>1. Now.ref \in Sides
    BY <1>1, <1>12 DEF Paying
  <2> QED BY <1>8, <1>12, <2>1, NoneIsNoMon DEF Value
<1>13. CASE SplashLands \/ CheckKo \/ Reshape
  <2>1. Now.op \in {"Splash", "Check", "Rise", "Fall"} /\ Value(Now.ref) \in Mons
    BY <1>13 DEF SplashLands, CheckKo, Reshape, Sound, Fails, At, OnPokemon
  <2>2. PICK m : m = Value(Now.ref)
    OBVIOUS
  <2>3. m \in InPlay
    BY <1>12, <2>1, <2>2
  <2>4. Onward \/ todo' = <<KoOf(m, FALSE)>> \o Rest \/ todo' = <<Ko(m)>> \o Rest
    BY <1>13, <2>2 DEF SplashLands, CheckKo, Reshape, Then
  <2> QED BY <1>6, <1>9, <2>3, <2>4
<1>14. CASE StadiumGone
  <2>1. \/ Onward
        \/ \E s \in Sides :
             todo' = <<[op |-> "tour", side |-> s], [op |-> "tour", side |-> Other(s)]>> \o Rest
    BY <1>14 DEF StadiumGone, Then
  <2>2. ASSUME NEW s, NEW r, todo' = <<[op |-> "tour", side |-> s], [op |-> "tour", side |-> r]>> \o Rest
        PROVE  Claimed'
    <3>1. PICK x, y : x = [op |-> "tour", side |-> s] /\ y = [op |-> "tour", side |-> r]
      OBVIOUS
    <3>2. x.op = "tour" /\ y.op = "tour" /\ todo' = <<x, y>> \o Rest
      BY <2>2, <3>1
    <3>3. Claims(x) = {} /\ Claims(y) = {}
      BY <3>2 DEF Claims
    <3>4. Fine(x)' /\ Fine(y)'
      BY <3>2, <3>3 DEF Fine, Parrying
    <3>5. Spares(x, y)'
      BY <3>2, <3>3 DEF Spares
    <3> QED BY <1>1, <1>5, <3>2, <3>4, <3>5, ClaimTwo
  <2> QED BY <1>6, <2>1, <2>2
<1> QED BY <1>10, <1>11, <1>13, <1>14 DEF Launch

-----------------------------------------------------------------------------
LEMMA ParryClaims == ASSUME Begun, Paying(script), Placed, Claimed, Parry PROVE Claimed'
<1> DEFINE m == Now.mon
<1>1. todo # <<>> /\ Now.op = "parry" /\ m \in Mons /\ Now = [op |-> Now.op, mon |-> Now.mon] /\ TypeOK
  <2>1. todo # <<>> /\ InnerWork(Now)
    BY InnerMoves DEF InnerStep, InnerMove
  <2>2. Now.op = "parry" /\ m \in Mons
    BY DEF Parry, Sound, At
  <2> QED BY <2>1, <2>2, InnerForms DEF Parrying, Begun
<1>2. /\ script' = script /\ active' = active /\ gone' = gone
      /\ \/ Onward /\ UNCHANGED <<down, bench>>
         \/ /\ m \notin down /\ down' = down \cup {m} /\ bench' = bench
            /\ todo' = <<Ko(m), [Now EXCEPT !.op = "parried"]>> \o Rest
         \/ /\ Recruits("foe") /\ todo' = todo /\ down' = down
  BY Zenon DEF Parry, Keeps, Then, Recruits
<1>3. Fine(Now) /\ (\A o : Left(o) => Spares(Now, o))
  BY <1>1, ClaimsNow
<1>4. CASE Onward /\ UNCHANGED <<down, bench>>
  <2>1. InPlay' = InPlay
    BY <1>2, <1>4 DEF InPlay, InPlayOf, Benched
  <2>2. down' = down
    BY <1>4
  <2>3. /\ \A o : Left(o) => Fine(o)'
        /\ \A o, p : LeftPair(o, p) => Spares(o, p)'
    BY <1>1, <1>2, <2>1, <2>2, ClaimsGrow
  <2> QED BY <1>1, <1>4, <2>3, ClaimNone
<1>5. CASE /\ m \notin down /\ down' = down \cup {m} /\ bench' = bench
           /\ todo' = <<Ko(m), [Now EXCEPT !.op = "parried"]>> \o Rest
  <2>1. InPlay' = InPlay
    BY <1>2, <1>5 DEF InPlay, InPlayOf, Benched
  <2>2. /\ \A o : Left(o) => Fine(o)'
        /\ \A o, p : LeftPair(o, p) => Spares(o, p)'
    BY <1>1, <1>2, <1>5, <2>1, ClaimsGrow
  <2>3. PICK n, x, y : n = m /\ x = Ko(m) /\ y = [Now EXCEPT !.op = "parried"]
    OBVIOUS
  <2>4. n \in InPlay /\ Owner(n) = "own" /\ script \notin Cards /\ n \in down'
    BY <1>1, <1>3, <1>5, <2>3 DEF Fine, Parrying
  <2>5. x.op = "ko" /\ x.mon = n /\ Claims(x) = {n}
    BY <2>3 DEF Ko, KoOf, Claims
  <2>6. y.op = "parried" /\ y.mon = n /\ Claims(y) = {}
    <3>1. y.op = "parried" /\ y.mon = n
      BY <1>1, <2>3
    <3> QED BY <3>1 DEF Claims
  <2>7. Fine(x)' /\ Fine(y)'
    BY <1>2, <2>1, <2>4, <2>5, <2>6 DEF Fine, Parrying
  <2>8. Spares(x, y)'
    BY <2>5, <2>6 DEF Spares, Parrying
  <2>9. ASSUME NEW o, Left(o) PROVE Spares(x, o)' /\ Spares(y, o)'
    <3>1. \A k \in Claims(o) : Owner(k) = "foe" /\ k # n
      BY <1>1, <1>3, <2>4, <2>9 DEF Spares, Parrying
    <3> QED BY <1>2, <2>4, <2>5, <2>6, <3>1 DEF Spares, Parrying
  <2>10. todo' = <<x, y>> \o Rest
    BY <1>5, <2>3
  <2> QED BY <1>1, <2>2, <2>7, <2>8, <2>9, <2>10, ClaimTwo
<1>6. CASE Recruits("foe") /\ todo' = todo /\ down' = down
  <2>1. InPlay \subseteq InPlay'
    <3>1. bench'["own"] = bench["own"] /\ Benched("foe") \subseteq Benched("foe")'
      BY <1>1, <1>6, RecruitSets DEF Sides
    <3>2. Benched("own")' = Benched("own")
      BY <3>1 DEF Benched
    <3> QED BY <1>2, <3>1, <3>2 DEF InPlay, InPlayOf
  <2>2. PICK u : u = todo
    OBVIOUS
  <2>3. /\ \A o : Fine(o) => Fine(o)'
        /\ \A o, p : Spares(o, p) => Spares(o, p)'
    BY <1>2, <1>6, <2>1 DEF Fine, Spares
  <2>4. /\ \A i \in 1 .. Len(u) : Fine(u[i])'
        /\ \A i, j \in 1 .. Len(u) : i < j => Spares(u[i], u[j])'
    BY <2>2, <2>3 DEF Claimed
  <2>5. todo' = u
    BY <1>6, <2>2
  <2> QED BY <2>4, <2>5 DEF Claimed
<1> QED BY <1>2, <1>4, <1>5, <1>6

LEMMA ParriedClaims == ASSUME Begun, Claimed, Parried PROVE Claimed'
<1>1. todo # <<>> /\ InnerWork(Now) /\ Now.op = "parried" /\ UNCHANGED <<script, active, bench, down>>
  BY InnerMoves DEF InnerStep, InnerMove, Parried, Sound, At, board, Keeps
<1>2. Len(todo) > 1 /\ Now.mon \in Mons /\ Now = [op |-> Now.op, mon |-> Now.mon]
  <2>1. Now = todo[1] /\ 1 \in 1 .. Len(todo)
    BY <1>1, HeadFacts DEF Begun
  <2> QED BY <1>1, <2>1, InnerForms DEF Begun, Queue, Parrying
<1>3. Tail(Rest) = From(3) /\ 3 \in 1 .. Len(todo) + 1
  <2>1. todo \in Seq(Range(todo)) /\ Len(todo) \in Nat
    BY RowFacts DEF Begun, Queue, Row
  <2> QED BY <1>2, <2>1 DEF Rest, From
<1>4. todo' = From(3) \/ todo' = <<[Now EXCEPT !.op = "parry"]>> \o Rest
  BY <1>3 DEF Parried
<1>5. CASE todo' = From(3)
  BY <1>1, <1>3, <1>5, ClaimSkip
<1>6. CASE todo' = <<[Now EXCEPT !.op = "parry"]>> \o Rest
  <2>1. InPlay' = InPlay
    BY <1>1 DEF InPlay, InPlayOf, Benched
  <2>2. /\ \A o : Left(o) => Fine(o)'
        /\ \A o, p : LeftPair(o, p) => Spares(o, p)'
    BY <1>1, <2>1, ClaimsGrow
  <2>3. PICK x : x = [Now EXCEPT !.op = "parry"]
    OBVIOUS
  <2>4. x.op = "parry" /\ x.mon = Now.mon /\ Claims(x) = {}
    <3>1. x.op = "parry" /\ x.mon = Now.mon
      BY <1>2, <2>3
    <3> QED BY <3>1 DEF Claims
  <2>5. PICK n : n = Now.mon
    OBVIOUS
  <2>6. Fine(Now) /\ \A o : Left(o) => Spares(Now, o)
    BY <1>1, ClaimsNow
  <2>7. n \in InPlay \cup down /\ Owner(n) = "own" /\ script \notin Cards
    BY <1>1, <2>5, <2>6 DEF Fine, Parrying
  <2>8. Fine(x)'
    BY <1>1, <2>1, <2>4, <2>5, <2>7 DEF Fine
  <2>9. ASSUME NEW o, Left(o) PROVE Spares(x, o)'
    <3>1. \A k \in Claims(o) : Owner(k) = "foe"
      BY <1>1, <2>6, <2>9 DEF Spares, Parrying
    <3> QED BY <2>4, <3>1 DEF Spares
  <2> QED BY <1>1, <1>6, <2>2, <2>3, <2>8, <2>9, ClaimOne
<1> QED BY <1>4, <1>5, <1>6

LEMMA TourClaims == ASSUME Begun, Placed, Claimed, Tour PROVE Claimed'
<1>1. /\ todo # <<>> /\ Now.op = "tour" /\ Now.side \in Sides /\ TypeOK
      /\ UNCHANGED <<script, active, bench, down>>
      /\ todo' = <<[op |-> "sweep", list |-> PlayList(Now.side)]>> \o Rest
  BY InnerMoves, InnerForms DEF InnerStep, InnerMove, Tour, Sound, At, board, Keeps, Then, Begun
<1>2. InPlay' = InPlay
  BY <1>1 DEF InPlay, InPlayOf, Benched
<1>3. /\ \A o : Left(o) => Fine(o)'
      /\ \A o, p : LeftPair(o, p) => Spares(o, p)'
      /\ \A o : Left(o) => Spares(Now, o)
  BY <1>1, <1>2, ClaimsGrow
<1>4. PICK l : l = PlayList(Now.side)
  OBVIOUS
<1>5. l \in Seq(Mons) /\ Range(l) = InPlayOf(Now.side) /\ Apart(l)
  BY <1>1, <1>4, PlaySeen, PlayApart
<1>6. Range(l) \subseteq InPlay /\ \E s \in Sides : \A m \in Range(l) : Owner(m) = s
  BY <1>1, <1>5 DEF Placed, InPlay, Sides
<1>7. PICK x : x = [op |-> "sweep", list |-> l]
  OBVIOUS
<1>8. x.op = "sweep" /\ x.list = l /\ Claims(x) = Range(l)
  BY <1>7 DEF Claims
<1>9. Fine(x)'
  BY <1>2, <1>5, <1>6, <1>8 DEF Fine, Parrying
<1>10. ASSUME NEW o, Left(o) PROVE Spares(x, o)'
  <2>1. Claims(o) = {}
    BY <1>1, <1>3, <1>10 DEF Spares
  <2> QED BY <1>8, <2>1 DEF Spares, Parrying
<1> QED BY <1>1, <1>3, <1>4, <1>7, <1>9, <1>10, ClaimOne

LEMMA SweepClaims == ASSUME Begun, Claimed, Sweep PROVE Claimed'
<1>1. /\ todo # <<>> /\ InnerWork(Now) /\ Now.op = "sweep"
      /\ Now.list \in Seq(Mons) /\ Now = [op |-> "sweep", list |-> Now.list]
      /\ UNCHANGED <<script, active, bench, down>>
  BY InnerMoves, InnerForms DEF InnerStep, InnerMove, Sweep, Sound, At, board, Keeps
<1>2. InPlay' = InPlay
  BY <1>1 DEF InPlay, InPlayOf, Benched
<1>3. /\ \A o : Left(o) => Fine(o)'
      /\ \A o, p : LeftPair(o, p) => Spares(o, p)'
      /\ \A o : Left(o) => Spares(Now, o)
  BY <1>1, <1>2, ClaimsGrow
<1>4. CASE Onward
  BY <1>1, <1>3, <1>4, ClaimNone
<1>5. CASE ~Onward
  <2>1. /\ Now.list # <<>>
        /\ todo' = <<Ko(Head(Now.list)), [Now EXCEPT !.list = Tail(Now.list)]>> \o Rest
    BY <1>5 DEF Sweep, Then
  <2>2. PICK l, h, t : l = Now.list /\ h = Head(l) /\ t = Tail(l)
    OBVIOUS
  <2>3. PICK x, y : x = Ko(h) /\ y = [op |-> "sweep", list |-> t]
    OBVIOUS
  <2>4. todo' = <<x, y>> \o Rest
    BY <1>1, <2>1, <2>2, <2>3, Shortened
  <2>5. Fine(Now)
    BY <1>1, ClaimsNow
  <2>6. Range(l) \subseteq InPlay /\ Apart(l) /\ \E s \in Sides : \A m \in Range(l) : Owner(m) = s
    BY <1>1, <2>2, <2>5 DEF Fine, Claims
  <2>7. t \in Seq(Mons) /\ h \in Mons /\ Range(l) = {h} \cup Range(t) /\ Apart(t) /\ h \notin Range(t)
    BY <1>1, <2>1, <2>2, <2>6, RangeTail, ApartTail
  <2>8. x.op = "ko" /\ Claims(x) = {h} /\ y.op = "sweep" /\ y.list = t /\ Claims(y) = Range(t)
    BY <2>3 DEF Ko, KoOf, Claims
  <2>9. Fine(x)' /\ Fine(y)'
    BY <1>2, <2>6, <2>7, <2>8 DEF Fine, Parrying
  <2>10. Spares(x, y)'
    BY <2>6, <2>7, <2>8 DEF Spares, Parrying
  <2>11. ASSUME NEW o, Left(o) PROVE Spares(x, o)' /\ Spares(y, o)'
    <3>1. Claims(Now) = Range(l)
      BY <1>1, <2>2 DEF Claims
    <3>2. \A m \in Range(l), n \in Claims(o) :
            /\ m # n
            /\ \/ n \in down' \/ n # active'[Owner(n)] \/ Owner(m) = Owner(n)
               \/ (Owner(m) = "own" /\ script' \notin Cards)
      BY <1>1, <1>3, <2>11, <3>1 DEF Spares
    <3> QED BY <2>7, <2>8, <3>2 DEF Spares, Parrying
  <2> QED BY <1>1, <1>3, <2>4, <2>9, <2>10, <2>11, ClaimTwo
<1> QED BY <1>4, <1>5

LEMMA ExamineClaims == ASSUME Begun, Placed, Claimed, Examine PROVE Claimed'
<1>1. /\ todo # <<>> /\ Now.op = "ko" /\ Now.mon \in Mons
      /\ Now = [op |-> Now.op, mon |-> Now.mon, needles |-> Now.needles]
      /\ UNCHANGED <<script, active, bench>> /\ TypeOK
  BY InnerMoves, InnerForms DEF InnerStep, InnerMove, Examine, Sound, At, Keeps, Begun
<1>2. InPlay' = InPlay
  BY <1>1 DEF InPlay, InPlayOf, Benched
<1>3. PICK m, r : m = Now.mon /\ r = active[Other(Owner(m))]
  OBVIOUS
<1>4. /\ Fine(Now) /\ \A o : Left(o) => Fine(o) /\ Spares(Now, o)
      /\ \A o, p : LeftPair(o, p) => Spares(o, p) /\ Left(o) /\ Left(p)
  BY <1>1, ClaimsNow
<1>5. Claims(Now) = {m}
  BY <1>1, <1>3 DEF Claims
<1>6. m \in InPlay /\ \A o : Left(o) => m \notin Claims(o)
  BY <1>4, <1>5 DEF Fine, Spares
<1>7. ASSUME down \subseteq down'
      PROVE  /\ \A o : Left(o) => Fine(o)'
             /\ \A o, p : LeftPair(o, p) => Spares(o, p)'
  BY <1>1, <1>2, <1>7, ClaimsGrow
<1>8. \/ down' = down \ {m} /\ Onward
      \/ todo' = <<[Now EXCEPT !.op = "out"]>> \o Rest /\ down' = down \cup {m}
      \/ /\ m = active[Owner(m)] /\ r # None /\ r \notin down
         /\ Owner(m) = "foe" \/ script \in Cards
         /\ \E d \in AfterHp("Hurt", r) : down' = d \cup {m}
         /\ todo' = <<Ko(r), [Now EXCEPT !.op = "late out"]>> \o Rest
  BY <1>3 DEF Examine, Then
<1>10. CASE Onward /\ down' = down \ {m}
  <2>1. ASSUME NEW o, Left(o) PROVE Fine(o)'
    <3>1. Fine(o) /\ m \notin Claims(o)
      BY <1>4, <1>6, <2>1
    <3>2. Claims(o) \subseteq InPlay /\ (o.op \in {"out", "late out"} => o.mon \in down /\ o.mon # m)
      BY <3>1 DEF Fine, Claims
    <3> QED BY <1>1, <1>2, <1>6, <1>10, <3>1, <3>2, FineKept
  <2>2. ASSUME NEW o, NEW p, LeftPair(o, p) PROVE Spares(o, p)'
    <3>1. Spares(o, p) /\ m \notin Claims(p)
      BY <1>4, <1>6, <2>2
    <3> QED BY <1>1, <1>10, <3>1, SparesKept
  <2> QED BY <1>1, <1>10, <2>1, <2>2, ClaimNone
<1>11. ASSUME NEW k
       PROVE  LET o == [Now EXCEPT !.op = k]
              IN  o.op = k /\ o.mon = m
  BY <1>1, <1>3
<1>12. CASE todo' = <<[Now EXCEPT !.op = "out"]>> \o Rest /\ down' = down \cup {m}
  <2>1. PICK x : x = [Now EXCEPT !.op = "out"]
    OBVIOUS
  <2>2. x.op = "out" /\ x.mon = m
    BY <1>11, <2>1
  <2>3. Claims(x) = {m}
    BY <2>2 DEF Claims
  <2>4. Fine(x)'
    BY <1>2, <1>6, <1>12, <2>2, <2>3 DEF Fine, Parrying
  <2>5. ASSUME NEW o, Left(o) PROVE Spares(x, o)'
    <3>1. Spares(Now, o)
      BY <1>4, <2>5
    <3> QED BY <1>1, <1>5, <1>12, <2>2, <2>3, <3>1 DEF Spares, Parrying
  <2>6. todo' = <<x>> \o Rest
    BY <1>12, <2>1
  <2> QED BY <1>1, <1>7, <1>12, <2>4, <2>5, <2>6, ClaimOne
<1>13. CASE /\ m = active[Owner(m)] /\ r # None /\ r \notin down
            /\ Owner(m) = "foe" \/ script \in Cards
            /\ \E d \in AfterHp("Hurt", r) : down' = d \cup {m}
            /\ todo' = <<Ko(r), [Now EXCEPT !.op = "late out"]>> \o Rest
  <2>1. PICK x, y : x = Ko(r) /\ y = [Now EXCEPT !.op = "late out"]
    OBVIOUS
  <2>2. y.op = "late out" /\ y.mon = m /\ x.op = "ko" /\ Claims(x) = {r}
    BY <1>11, <2>1 DEF Ko, KoOf, Claims
  <2>3. Claims(y) = {m}
    BY <2>2 DEF Claims
  <2>4. down \subseteq down' /\ m \in down'
    BY <1>13 DEF AfterHp
  <2>5. /\ Owner(m) \in Sides /\ Other(Owner(m)) \in Sides /\ Other(Owner(m)) # Owner(m)
        /\ Owner(r) = Other(Owner(m)) /\ r \in InPlay
    <3>1. Owner(m) \in Sides /\ Other(Owner(m)) \in Sides /\ Other(Owner(m)) # Owner(m)
      BY <1>1, <1>3 DEF Mons, Owner, Other, Sides
    <3>2. r \in InPlayOf(Other(Owner(m)))
      BY <1>3, <1>13 DEF InPlayOf
    <3> QED BY <3>1, <3>2 DEF Placed, InPlay, Sides
  <2>6. Fine(x)' /\ Fine(y)'
    BY <1>2, <1>6, <1>13, <2>2, <2>3, <2>4, <2>5 DEF Fine, Parrying
  <2>7. Spares(x, y)'
    BY <1>13, <2>2, <2>3, <2>4, <2>5 DEF Spares, Parrying
  <2>8. ASSUME NEW o, Left(o), NEW n \in Claims(o)
        PROVE  /\ n # m /\ n # r
               /\ n \in down \/ n # active[Owner(n)] \/ Owner(n) = Owner(m)
               /\ n \in down \/ n # active[Owner(n)]
    <3>1. /\ n # m
          /\ \/ n \in down \/ n # active[Owner(n)] \/ Owner(m) = Owner(n)
             \/ (Owner(m) = "own" /\ script \notin Cards)
      BY <1>4, <1>5, <2>8 DEF Spares
    <3>2. ~(Owner(m) = "own" /\ script \notin Cards)
      BY <1>13
    <3>3. n \in down \/ n # active[Owner(n)]
      BY <1>13, <3>1, <3>2
    <3>4. n # r
      BY <1>3, <1>13, <2>5, <3>3
    <3> QED BY <3>1, <3>3, <3>4
  <2>9. ASSUME NEW o, Left(o) PROVE Spares(x, o)' /\ Spares(y, o)'
    BY <1>1, <2>2, <2>3, <2>4, <2>8, <2>9 DEF Spares, Parrying
  <2>10. todo' = <<x, y>> \o Rest
    BY <1>13, <2>1
  <2> QED BY <1>1, <1>7, <2>4, <2>6, <2>7, <2>9, <2>10, ClaimTwo
<1> QED BY <1>8, <1>10, <1>12, <1>13

LEMMA KnockOutClaims ==
  ASSUME Begun, Placed, Claimed, KnockOut
  PROVE  /\ Claimed'
         /\ \/ payments' = payments
            \/ Now.mon \in InPlay /\ payments' = [payments EXCEPT ![Now.mon] = @ + 1]
<1>1. /\ todo # <<>> /\ Now.op \in {"out", "late out"} /\ Now.mon \in Mons
      /\ Onward /\ script' = script /\ down' = down /\ TypeOK
  BY InnerMoves DEF InnerStep, InnerMove, KnockOut, Sound, At, Keeps, board, Begun
<1>2. PICK m : m = Now.mon
  OBVIOUS
<1>3. /\ Fine(Now) /\ \A o : Left(o) => Fine(o) /\ Spares(Now, o)
      /\ \A o, p : LeftPair(o, p) => Spares(o, p) /\ Left(o) /\ Left(p)
  BY <1>1, ClaimsNow
<1>4. Claims(Now) = {m}
  BY <1>1, <1>2 DEF Claims
<1>5. m \in InPlay /\ m \in down /\ \A o : Left(o) => m \notin Claims(o)
  BY <1>1, <1>2, <1>3, <1>4 DEF Fine, Spares
<1>6. \/ UNCHANGED <<board, score>>
      \/ LeavesPlay(m) /\ payments' = [payments EXCEPT ![m] = @ + 1]
  BY <1>2 DEF KnockOut
<1>7. CASE UNCHANGED <<board, score>>
  <2>1. active' = active /\ bench' = bench /\ payments' = payments
    BY <1>7 DEF board, score
  <2>2. InPlay' = InPlay
    BY <2>1 DEF InPlay, InPlayOf, Benched
  <2>3. /\ \A o : Left(o) => Fine(o)'
        /\ \A o, p : LeftPair(o, p) => Spares(o, p)'
    BY <1>1, <2>1, <2>2, ClaimsGrow
  <2> QED BY <1>1, <2>1, <2>3, ClaimNone
<1>8. CASE LeavesPlay(m) /\ payments' = [payments EXCEPT ![m] = @ + 1]
  <2>1. Owner(m) \in Sides
    BY <1>1, <1>2, MonsOwner
  <2>2. \A s \in Sides : InPlayOf(s) \ {m} \subseteq InPlayOf(s)'
    <3>1. /\ InPlayOf(Owner(m))' = InPlayOf(Owner(m)) \ {m}
          /\ \A r \in Sides \ {Owner(m)} : active'[r] = active[r] /\ bench'[r] = bench[r]
      BY <1>1, <1>2, <1>8, <2>1, LeaveSets DEF Placed
    <3>2. \A r \in Sides \ {Owner(m)} : InPlayOf(r)' = InPlayOf(r)
      BY <3>1 DEF InPlayOf, Benched
    <3> QED BY <3>1, <3>2
  <2>3. InPlay \ {m} \subseteq InPlay'
    BY <2>2 DEF InPlay, Sides
  <2>4. \A s \in Sides : active'[s] = active[s] \/ active'[s] = None
    BY <1>1, <1>8 DEF LeavesPlay, TypeOK
  <2>5. ASSUME NEW o, Left(o) PROVE Fine(o)'
    <3>1. Fine(o) /\ m \notin Claims(o)
      BY <1>3, <1>5, <2>5
    <3>2. Claims(o) \subseteq InPlay /\ (o.op \in {"out", "late out"} => o.mon \in down)
      BY <3>1 DEF Fine
    <3> QED BY <1>1, <1>5, <2>3, <3>1, <3>2, FineKept
  <2>6. ASSUME NEW o, NEW p, LeftPair(o, p) PROVE Spares(o, p)'
    <3>1. Spares(o, p) /\ Claims(p) \subseteq InPlay
      BY <1>3, <2>6 DEF Fine
    <3>2. \A n \in Claims(p) : n \in Mons
      BY <1>1, <3>1, InPlayType
    <3>3. \A n \in Claims(p) : n # active[Owner(n)] => n # active'[Owner(n)]
      BY <2>4, <3>2, MonsOwner, NoneIsNoMon
    <3> QED BY <1>1, <3>1, <3>3, SparesKept
  <2>7. Claimed'
    BY <1>1, <2>5, <2>6, ClaimNone
  <2> QED BY <1>2, <1>5, <1>8, <2>7
<1> QED BY <1>6, <1>7, <1>8

-----------------------------------------------------------------------------
LEMMA ClaimedStep ==
  ASSUME Begun, Paying(script), Placed, Claimed, [Next]_vars
  PROVE  Claimed'
<1>1. CASE OwnStep \/ Slip
  BY <1>1, OwnMoves, OwnKeepsOuter, SlipEnds, OuterClaimed
<1>2. CASE Launch
  BY <1>2, LaunchClaims
<1>3. CASE InnerStep
  BY <1>3, ParryClaims, ParriedClaims, TourClaims, SweepClaims, ExamineClaims, KnockOutClaims
     DEF InnerStep
<1>4. CASE UNCHANGED vars
  <2>1. UNCHANGED <<script, active, bench, down, todo>>
    BY <1>4 DEF vars, board
  <2>2. InPlay' = InPlay
    BY <2>1 DEF InPlay, InPlayOf, Benched
  <2>3. \A o : Fine(o) => Fine(o)'
    BY <2>1, <2>2 DEF Fine
  <2>4. \A o, p : Spares(o, p) => Spares(o, p)'
    BY <2>1 DEF Spares
  <2>5. PICK u : u = todo
    OBVIOUS
  <2>6. /\ \A i \in 1 .. Len(u) : Fine(u[i])
        /\ \A i, j \in 1 .. Len(u) : i < j => Spares(u[i], u[j])
    BY <2>5 DEF Claimed
  <2>7. /\ \A i \in 1 .. Len(u) : Fine(u[i])'
        /\ \A i, j \in 1 .. Len(u) : i < j => Spares(u[i], u[j])'
    BY <2>3, <2>4, <2>6
  <2> QED BY <2>1, <2>5, <2>7 DEF Claimed
<1> QED BY <1>1, <1>2, <1>3, <1>4, StepKinds

LEMMA PaidOnceStep ==
  ASSUME Begun, Placed, Claimed, PaidIsGone, \A m \in Mons : payments[m] <= 1, [Next]_vars
  PROVE  \A m \in Mons : payments'[m] <= 1
<1>1. CASE payments' = payments
  BY <1>1
<1>2. CASE KnockOut
  <2>1. payments \in [Mons -> Nat]
    BY DEF Begun, TypeOK
  <2>2. Now.mon \in InPlay => payments[Now.mon] = 0
    <3>1. InPlay \subseteq Mons
      BY InPlayType DEF Begun
    <3>2. Now.mon \in InPlay => ~(payments[Now.mon] > 0) /\ Now.mon \in Mons
      BY <3>1 DEF PaidIsGone, Placed
    <3> QED BY <2>1, <3>2
  <2> QED BY <1>2, <2>1, <2>2, KnockOutClaims
<1>3. CASE ~KnockOut
  <2>1. payments' = payments
    BY <1>3, IdleSteps, LocalSteps, HitSteps DEF Next, Idle, Local, Hit, Parry, Rearrange, Discard,
       Declare, TakePrizes, vars, score
  <2> QED BY <1>1, <2>1
<1> QED BY <1>2, <1>3

(* Examinations in progress are of different Pokemon, each of them in play:     *)
(* Exploding Needles and retaliation interrupt a knock-out, never repeat it.    *)
Counted ==
    Paying(script) =>
      /\ Begun /\ Placed /\ Claimed /\ PaidIsGone
      /\ \A m \in Mons : payments[m] <= 1

LEMMA CountedAtStart == Init => Counted
<1> SUFFICES ASSUME Init, Paying(script)
             PROVE  /\ Begun /\ Placed /\ Claimed /\ PaidIsGone
                    /\ \A m \in Mons : payments[m] <= 1
  BY DEF Counted
<1>1. Begun /\ Placed
  BY BegunAtStart, PlacedAtStart DEF Paying, Still
<1>2. payments = [m \in Mons |-> 0] /\ todo = script
  BY DEF Init
<1>3. \A i \in 1 .. Len(todo) : OuterWork(script, todo[i])
  BY <1>1, <1>2, ScriptIsBlock, BlockRow DEF Begun
<1>4. \A i \in 1 .. Len(todo) : ~Internal(todo[i])
  BY <1>1, <1>3, OuterNotInternal DEF Begun
<1>5. Claimed
  BY <1>4, NoClaims DEF Claimed, Fine, Spares
<1> QED BY <1>1, <1>2, <1>5 DEF PaidIsGone

LEMMA CountedStep == Counted /\ [Next]_vars => Counted'
<1> SUFFICES ASSUME Counted, [Next]_vars, Paying(script)
             PROVE  (/\ Begun /\ Placed /\ Claimed /\ PaidIsGone
                     /\ \A m \in Mons : payments[m] <= 1)'
  BY ScriptStays DEF Counted
<1>1. /\ Begun /\ Placed /\ Claimed /\ PaidIsGone /\ Still(script) /\ TypeOK
      /\ \A m \in Mons : payments[m] <= 1
  BY DEF Counted, Paying, Begun
<1> QED BY <1>1, BegunStep, PlacedStep, ClaimedStep, PaidStep, PaidOnceStep

(* A handler that calls those functions by itself for Pokemon in an Active    *)
(* Spot only never has one knocked out and paid for twice, although Exploding *)
(* Needles and retaliations examine others while an examination is under way. *)
THEOREM PaidForOnce == Spec => [](Paying(script) => PaidOnce)
<1>1. Counted => (Paying(script) => PaidOnce)
  BY DEF Counted, PaidOnce
<1> QED BY <1>1, CountedAtStart, CountedStep, PTL DEF Spec

-----------------------------------------------------------------------------
LEMMA WinStep ==
  ASSUME Begun, Modest(script), [Next]_vars, winner' # winner
  PROVE  prizes'[winner'] = 0 \/ NobodyLeft(Other(winner'))
<1>1. CASE KnockOut
  <2>1. PICK m \in Mons : winner' = IF Wins(Other(Owner(m))) THEN Other(Owner(m)) ELSE winner
    BY <1>1, KnockOutScore DEF score
  <2> QED BY <2>1 DEF Wins
<1>2. CASE TakePrizes
  BY <1>2 DEF TakePrizes
<1>3. CASE Declare
  <2>1. {"Win"} \subseteq Vocabulary
    BY DEF Vocabulary, Awarding
  <2>2. Now.op = "Win" /\ Now \in Ops(script)
    BY <1>3, <2>1, OwnHead DEF Declare, Sound
  <2> QED BY <2>2 DEF Modest
<1>4. CASE Idle \/ Local \/ Hit \/ Parry \/ Rearrange \/ Discard \/ UNCHANGED vars
  <2>1. UNCHANGED score
    BY <1>4, IdleSteps, LocalSteps, HitSteps DEF Parry, Rearrange, Discard, vars
  <2> QED BY <2>1 DEF score
<1> QED BY <1>1, <1>2, <1>3, <1>4 DEF Next, Idle, Local, Hit

(* Whoever a handler makes the winner has taken the last prize or has left    *)
(* the other side without Pokemon, unless the handler names the winner        *)
(* itself; Victory Symbol is the only one that does.                          *)
THEOREM WinsAreEarned == Spec /\ Modest(script) => WinnerEarned
<1>1. Init /\ Modest(script) => Begun /\ Modest(script)
  BY BegunAtStart DEF Modest
<1>2. (Begun /\ Modest(script)) /\ [Next]_vars => (Begun /\ Modest(script))'
  BY BegunStep, ScriptStays
<1>3. (Begun /\ Modest(script)) /\ [Next]_vars
        => [winner' # winner /\ script \notin Victorious
              => prizes'[winner'] = 0 \/ NobodyLeft(Other(winner'))]_vars
  BY WinStep
<1> QED BY <1>1, <1>2, <1>3, PTL DEF Spec, WinnerEarned

-----------------------------------------------------------------------------
(* Work that must not be reached in a game that is over, and work after which it *)
(* may be over without anybody having looked.                                  *)
Danger(o) ==
    \/ o \in Risky(script)
    \/ o.op \in {"again", "next"} /\ Range(o.body) \cap Risky(script) # {}
Loose(o) == Internal(o) \/ Open(o, OpenBlocks(script))

(* Behind the i-th, there is a look at the phase before anything dangerous.     *)
Sheltered(i) ==
    \A j \in 1 .. Len(todo) : i < j /\ Danger(todo[j]) =>
       \E k \in 1 .. Len(todo) : i < k /\ k < j /\ Halts(todo[k])

Permitted(o) ==
    o.op # "ret" /\ (o.op \in {"again", "next"} => o.body \notin OpenBlocks(script))

Heedful ==
    /\ \A i \in 1 .. Len(todo) : Permitted(todo[i]) /\ (Loose(todo[i]) => Sheltered(i))
    /\ Over => Sheltered(0)

(* Among the examinations, one that may knock out waits behind a retaliation,   *)
(* which drops it when the game is over.                                       *)
Relay ==
    /\ \A j \in 2 .. Len(todo) :
         /\ todo[j].op # "parry"
         /\ todo[j].op \in {"ko", "out"} => todo[j - 1].op \in Parrying
    /\ Over /\ todo # <<>> => Now.op \notin {"ko", "out", "parry"}

-----------------------------------------------------------------------------
LEMMA RiskyFacts ==
  ASSUME NEW sc, Heeding(sc), NEW o \in Ops(sc)
  PROVE  /\ o.op \in Deciding \cup Jumping => o \in Risky(sc)
         /\ \A b \in Bodies(o) : Range(b) \cap Risky(sc) # {} => o \in Risky(sc)
         /\ Risky(sc) \subseteq Ops(sc)
<1>1. \A E : E \subseteq Holding(sc, E) /\ (E \subseteq Ops(sc) => Holding(sc, E) \subseteq Ops(sc))
  BY DEF Holding
<1> DEFINE E == {x \in Ops(sc) : x.op \in Deciding \cup Jumping}
<1>2. E \subseteq Risky(sc) /\ Risky(sc) \subseteq Ops(sc)
  <2>1. E \subseteq Ops(sc)
    OBVIOUS
  <2>2. Risky(sc) = Holding(sc, Holding(sc, Holding(sc, Holding(sc, E))))
    BY DEF Risky
  <2> HIDE DEF E
  <2> QED BY <1>1, <2>1, <2>2
<1>3. \A b \in Bodies(o) : Range(b) \cap Risky(sc) # {} => o \in Holding(sc, Risky(sc))
  BY DEF Holding
<1>4. Holding(sc, Risky(sc)) = Risky(sc)
  BY DEF Heeding
<1> QED BY <1>2, <1>3, <1>4

LEMMA OpenFacts ==
  ASSUME NEW sc, Heeding(sc), NEW b \in Blocks(sc), NEW i \in 1 .. Len(b), Open(b[i], OpenBlocks(sc)),
         \A k \in 1 .. Len(b) : i < k => ~Halts(b[k])
  PROVE  b \in OpenBlocks(sc)
<1>1. b \in Opening(sc, OpenBlocks(sc))
  BY DEF Opening
<1> QED BY <1>1 DEF Heeding

(* Operations of the script and the work of the shared functions.              *)
LEMMA InnerSafe ==
  ASSUME Heeding(script), NEW o, InnerWork(o)
  PROVE  ~Danger(o) /\ Loose(o) /\ Permitted(o) /\ ~Halts(o)
<1>1. o.op \in Internals
  BY InnerInternal DEF Internal
<1>2. Internals \cap (Vocabulary \cup {"again", "next", "ret"}) = {}
  BY DEF Internals, Vocabulary, Controlling, Assigning, Touching, Sparing, Lowering, Knocking,
         Shifting, Moving, Awarding
<1>3. o \notin Ops(script)
  BY <1>1, <1>2 DEF Heeding, Orderly
<1>4. o \notin Risky(script)
  <2>1. \A E : E \subseteq Ops(script) => Holding(script, E) \subseteq Ops(script)
    BY DEF Holding
  <2>2. {x \in Ops(script) : x.op \in Deciding \cup Jumping} \subseteq Ops(script)
    OBVIOUS
  <2>3. Risky(script) \subseteq Ops(script)
    BY <2>1, <2>2 DEF Risky
  <2> QED BY <1>3, <2>3
<1>5. ~Halts(o)
  <2>1. Quit.op = "Quit" /\ StopIf(Ended).op = "If"
    BY DEF Quit, StopIf, When, If
  <2>2. "Quit" \notin Internals /\ "If" \notin Internals
    BY DEF Internals
  <2> QED BY <1>1, <2>1, <2>2 DEF Halts
<1> QED BY <1>1, <1>2, <1>4, <1>5 DEF Danger, Loose, Permitted, Internal

(* In a block of the script.                                                   *)
LEMMA BlockSafe ==
  ASSUME Heeding(script), NEW b \in Blocks(script)
  PROVE  /\ Row(b)
         /\ \A i \in 1 .. Len(b) :
              /\ b[i] \in Ops(script) /\ Permitted(b[i])
              /\ Danger(b[i]) <=> b[i] \in Risky(script)
              /\ Loose(b[i]) => Open(b[i], OpenBlocks(script))
         /\ \A i, j \in 1 .. Len(b) : i < j /\ Loose(b[i]) /\ Danger(b[j])
              => \E k \in 1 .. Len(b) : i < k /\ k < j /\ Halts(b[k])
         /\ \A i \in 1 .. Len(b) : Loose(b[i]) /\ b \notin OpenBlocks(script)
              => \E k \in 1 .. Len(b) : i < k /\ Halts(b[k])
<1>1. Row(b) /\ \A i \in 1 .. Len(b) : b[i] \in Ops(script)
  BY BlockRow DEF Heeding
<1>2. \A o \in Ops(script) : o.op \in Vocabulary
  BY DEF Heeding, Orderly
<1>3. Vocabulary \cap (Internals \cup {"again", "next", "ret"}) = {}
  BY DEF Internals, Vocabulary, Controlling, Assigning, Touching, Sparing, Lowering, Knocking,
         Shifting, Moving, Awarding
<1>4. \A o \in Ops(script) : Permitted(o) /\ (Danger(o) <=> o \in Risky(script))
                             /\ (Loose(o) => Open(o, OpenBlocks(script)))
  BY <1>2, <1>3 DEF Permitted, Danger, Loose, Internal
<1>5. \A i, j \in 1 .. Len(b) : i < j /\ Loose(b[i]) /\ Danger(b[j])
              => \E k \in 1 .. Len(b) : i < k /\ k < j /\ Halts(b[k])
  BY <1>1, <1>4 DEF Heeding
<1>6. \A i \in 1 .. Len(b) : Loose(b[i]) /\ b \notin OpenBlocks(script)
              => \E k \in 1 .. Len(b) : i < k /\ Halts(b[k])
  BY <1>1, <1>4, OpenFacts
<1> QED BY <1>1, <1>4, <1>5, <1>6

-----------------------------------------------------------------------------
(* Work put in the place of the first.                                         *)
LEMMA ShelterPush ==
  ASSUME Begun, script' = script, NEW ops, Becomes(ops), Row(ops), NEW i \in 0 .. Len(ops),
         \A j \in 1 .. Len(ops) : i < j /\ Danger(ops[j]) =>
            \E k \in 1 .. Len(ops) : i < k /\ k < j /\ Halts(ops[k]),
         (\E k \in 1 .. Len(ops) : i < k /\ Halts(ops[k])) \/ Sheltered(1)
  PROVE  Sheltered(i)'
<1>1. PICK t, n : t = ops \o Tail(todo) /\ n = Len(ops)
  OBVIOUS
<1>2. /\ Row(t) /\ Len(t) = n + Len(todo) - 1
      /\ \A j \in 1 .. n : t[j] = ops[j]
      /\ \A j \in (n + 1) .. Len(t) : t[j] = todo[j + 1 - n]
  BY <1>1, PushAt DEF Becomes, Begun, Queue
<1>3. n \in Nat /\ Len(todo) \in Nat /\ Len(todo) > 0 /\ Len(t) \in Nat /\ todo' = t
  BY <1>1, <1>2, RowFacts, HeadFacts DEF Becomes, Begun
<1>4. \A o : Danger(o)' <=> Danger(o)
  BY DEF Danger
<1>5. SUFFICES ASSUME NEW j \in 1 .. Len(t), i < j, Danger(t[j])
               PROVE  \E k \in 1 .. Len(t) : i < k /\ k < j /\ Halts(t[k])
  BY <1>3, <1>4 DEF Sheltered
<1>6. CASE j <= n
  <2>1. PICK k \in 1 .. n : i < k /\ k < j /\ Halts(ops[k])
    BY <1>1, <1>2, <1>3, <1>5, <1>6
  <2> QED BY <1>2, <1>3, <2>1
<1>7. CASE j > n
  <2>1. CASE \E k \in 1 .. Len(ops) : i < k /\ Halts(ops[k])
    <3>1. PICK k \in 1 .. n : i < k /\ Halts(ops[k])
      BY <1>1, <2>1
    <3>2. k \in 1 .. Len(t) /\ k < j /\ t[k] = ops[k]
      BY <1>2, <1>3, <1>7, <3>1
    <3> QED BY <3>1, <3>2
  <2>2. CASE Sheltered(1)
    <3>1. t[j] = todo[j + 1 - n] /\ j + 1 - n \in 1 .. Len(todo) /\ 1 < j + 1 - n
      BY <1>2, <1>3, <1>7
    <3>2. PICK l \in 1 .. Len(todo) : 1 < l /\ l < j + 1 - n /\ Halts(todo[l])
      BY <1>5, <2>2, <3>1 DEF Sheltered
    <3>3. PICK k : k = l - 1 + n
      OBVIOUS
    <3>4. k \in (n + 1) .. Len(t) /\ k \in 1 .. Len(t) /\ i < k /\ k < j /\ k + 1 - n = l
      BY <1>1, <1>2, <1>3, <3>2, <3>3
    <3> QED BY <1>2, <3>2, <3>4
  <2> QED BY <2>1, <2>2
<1> QED BY <1>3, <1>6, <1>7

(* Work that was behind the first.                                             *)
LEMMA ShelterStays ==
  ASSUME Begun, script' = script, NEW ops, Becomes(ops), Row(ops),
         NEW i \in 1 .. Len(todo), i > 1, Sheltered(i)
  PROVE  Sheltered(i - 1 + Len(ops))'
<1>1. PICK t, n : t = ops \o Tail(todo) /\ n = Len(ops)
  OBVIOUS
<1>2. /\ Row(t) /\ Len(t) = n + Len(todo) - 1
      /\ \A j \in (n + 1) .. Len(t) : t[j] = todo[j + 1 - n]
  BY <1>1, PushAt DEF Becomes, Begun, Queue
<1>3. n \in Nat /\ Len(todo) \in Nat /\ Len(t) \in Nat /\ todo' = t
  BY <1>1, <1>2, RowFacts, HeadFacts DEF Becomes, Begun
<1>4. \A o : Danger(o)' <=> Danger(o)
  BY DEF Danger
<1>5. SUFFICES ASSUME NEW j \in 1 .. Len(t), i - 1 + n < j, Danger(t[j])
               PROVE  \E k \in 1 .. Len(t) : i - 1 + n < k /\ k < j /\ Halts(t[k])
  BY <1>1, <1>3, <1>4 DEF Sheltered
<1>6. j \in (n + 1) .. Len(t) /\ t[j] = todo[j + 1 - n] /\ j + 1 - n \in 1 .. Len(todo) /\ i < j + 1 - n
  BY <1>2, <1>3, <1>5
<1>7. PICK l \in 1 .. Len(todo) : i < l /\ l < j + 1 - n /\ Halts(todo[l])
  BY <1>5, <1>6 DEF Sheltered
<1>8. PICK k : k = l - 1 + n
  OBVIOUS
<1>9. k \in (n + 1) .. Len(t) /\ k \in 1 .. Len(t) /\ i - 1 + n < k /\ k < j /\ k + 1 - n = l
  BY <1>2, <1>3, <1>6, <1>7, <1>8
<1> QED BY <1>2, <1>7, <1>9

LEMMA ShelterSkip ==
  ASSUME Begun, script' = script, NEW k \in 1 .. Len(todo) + 1, todo' = From(k),
         NEW i \in Nat, Sheltered(i + k - 1)
  PROVE  Sheltered(i)'
<1>1. PICK t : t = SubSeq(todo, k, Len(todo))
  OBVIOUS
<1>2. Row(t) /\ Len(t) = Len(todo) + 1 - k /\ \A j \in 1 .. Len(t) : t[j] = todo[j + k - 1]
  BY <1>1, SkipAt DEF Begun, Queue
<1>3. Len(todo) \in Nat /\ k \in Nat /\ k >= 1 /\ todo' = t
  BY <1>1, RowFacts DEF Begun, Queue, From
<1>4. \A o : Danger(o)' <=> Danger(o)
  BY DEF Danger
<1>5. SUFFICES ASSUME NEW j \in 1 .. Len(t), i < j, Danger(t[j])
               PROVE  \E l \in 1 .. Len(t) : i < l /\ l < j /\ Halts(t[l])
  BY <1>3, <1>4 DEF Sheltered
<1>6. t[j] = todo[j + k - 1] /\ j + k - 1 \in 1 .. Len(todo) /\ i + k - 1 < j + k - 1
  BY <1>2, <1>3, <1>5
<1>7. PICK m \in 1 .. Len(todo) : i + k - 1 < m /\ m < j + k - 1 /\ Halts(todo[m])
  BY <1>5, <1>6 DEF Sheltered
<1>8. PICK l : l = m + 1 - k
  OBVIOUS
<1>9. l \in 1 .. Len(t) /\ i < l /\ l < j /\ l + k - 1 = m
  BY <1>2, <1>3, <1>5, <1>7, <1>8
<1> QED BY <1>2, <1>7, <1>9

-----------------------------------------------------------------------------
LEMMA HeedPush ==
  ASSUME Begun, Heedful, script' = script, NEW ops, Becomes(ops), Row(ops),
         \A i \in 1 .. Len(ops) : Permitted(ops[i]),
         \A i, j \in 1 .. Len(ops) : i < j /\ Loose(ops[i]) /\ Danger(ops[j]) =>
            \E k \in 1 .. Len(ops) : i < k /\ k < j /\ Halts(ops[k]),
         \A i \in 1 .. Len(ops) : Loose(ops[i]) =>
            (\E k \in 1 .. Len(ops) : i < k /\ Halts(ops[k])) \/ Sheltered(1),
         Over' => /\ \A j \in 1 .. Len(ops) : ~Danger(ops[j])
                  /\ (\E k \in 1 .. Len(ops) : Halts(ops[k])) \/ Sheltered(1)
  PROVE  Heedful'
<1>1. PICK t, n : t = ops \o Tail(todo) /\ n = Len(ops)
  OBVIOUS
<1>2. /\ Row(t) /\ Len(t) = n + Len(todo) - 1
      /\ \A j \in 1 .. n : t[j] = ops[j]
      /\ \A j \in (n + 1) .. Len(t) : t[j] = todo[j + 1 - n]
  BY <1>1, PushAt DEF Becomes, Begun, Queue
<1>3. n \in Nat /\ Len(todo) \in Nat /\ Len(todo) > 0 /\ Len(t) \in Nat /\ todo' = t
  BY <1>1, <1>2, RowFacts, HeadFacts DEF Becomes, Begun
<1>4. \A o : (Loose(o)' <=> Loose(o)) /\ (Permitted(o)' <=> Permitted(o))
  BY DEF Loose, Permitted
<1>5. ASSUME NEW i \in 1 .. Len(t) PROVE Permitted(t[i]) /\ (Loose(t[i]) => Sheltered(i)')
  <2>1. CASE i <= n
    <3>1. i \in 1 .. n /\ t[i] = ops[i] /\ i \in 0 .. Len(ops)
      BY <1>1, <1>2, <1>3, <2>1
    <3>2. ASSUME Loose(ops[i]) PROVE Sheltered(i)'
      <4>1. \A j \in 1 .. Len(ops) : i < j /\ Danger(ops[j]) =>
              \E k \in 1 .. Len(ops) : i < k /\ k < j /\ Halts(ops[k])
        BY <1>1, <3>1, <3>2
      <4>2. (\E k \in 1 .. Len(ops) : i < k /\ Halts(ops[k])) \/ Sheltered(1)
        BY <1>1, <3>1, <3>2
      <4> QED BY <3>1, <4>1, <4>2, ShelterPush
    <3> QED BY <1>1, <3>1, <3>2
  <2>2. CASE i > n
    <3>1. i \in (n + 1) .. Len(t) /\ t[i] = todo[i + 1 - n] /\ i + 1 - n \in 1 .. Len(todo)
          /\ i + 1 - n > 1 /\ (i + 1 - n) - 1 + n = i
      BY <1>2, <1>3, <2>2
    <3>2. Permitted(t[i])
      BY <3>1 DEF Heedful
    <3>3. ASSUME Loose(t[i]) PROVE Sheltered(i)'
      <4>1. PICK l \in 1 .. Len(todo) : l = i + 1 - n /\ l > 1 /\ l - 1 + n = i
        BY <3>1
      <4>2. Sheltered(l)
        BY <3>1, <3>3, <4>1 DEF Heedful
      <4>3. Sheltered(l - 1 + Len(ops))'
        BY <4>1, <4>2, ShelterStays
      <4>4. PICK x : x = l - 1 + Len(ops)
        OBVIOUS
      <4>5. x = i
        BY <1>1, <4>1, <4>4
      <4> QED BY <4>3, <4>4, <4>5
    <3> QED BY <3>2, <3>3
  <2> QED BY <1>2, <1>3, <2>1, <2>2
<1>6. ASSUME Over' PROVE Sheltered(0)'
  <2>1. 0 \in 0 .. Len(ops) /\ \A k \in 1 .. Len(ops) : 0 < k
    BY <1>1, <1>3
  <2>2. (\E k \in 1 .. Len(ops) : 0 < k /\ Halts(ops[k])) \/ Sheltered(1)
    BY <1>6, <2>1
  <2>3. \A j \in 1 .. Len(ops) : ~Danger(ops[j])
    BY <1>6
  <2> QED BY <2>1, <2>2, <2>3, ShelterPush
<1> QED BY <1>3, <1>4, <1>5, <1>6 DEF Heedful

LEMMA HeedOnward ==
  ASSUME Begun, Heedful, script' = script, todo # <<>>, Onward, Over' => Sheltered(1)
  PROVE  Heedful'
<1>1. PICK ops : ops = <<>>
  OBVIOUS
<1>2. Becomes(ops) /\ Row(ops) /\ Len(ops) = 0
  BY <1>1, OnwardIs, RowNone DEF Begun
<1>3. \A i \in 1 .. Len(ops) : FALSE
  BY <1>2
<1> QED BY <1>2, <1>3, HeedPush

(* In a game that is over the first operation is harmless.                     *)
LEMMA HeadSafe ==
  ASSUME Begun, Heedful, todo # <<>>
  PROVE  /\ Permitted(Now)
         /\ Loose(Now) => Sheltered(1)
         /\ Over => ~Danger(Now)
         /\ Over /\ ~Halts(Now) => Sheltered(1)
<1>1. Len(todo) \in Nat /\ Len(todo) > 0 /\ Now = todo[1] /\ 1 \in 1 .. Len(todo)
  BY HeadFacts DEF Begun
<1>2. Permitted(Now) /\ (Loose(Now) => Sheltered(1))
  BY <1>1 DEF Heedful
<1>3. ASSUME Over, Danger(Now) PROVE FALSE
  <2>1. \E k \in 1 .. Len(todo) : 0 < k /\ k < 1 /\ Halts(todo[k])
    BY <1>1, <1>3 DEF Heedful, Sheltered
  <2> QED BY <1>1, <2>1
<1>4. ASSUME Over, ~Halts(Now) PROVE Sheltered(1)
  <2>1. \A k \in 1 .. Len(todo) : 0 < k /\ Halts(todo[k]) => 1 < k
    BY <1>1, <1>4
  <2>2. \A j \in 1 .. Len(todo) : 1 < j => 0 < j
    BY <1>1
  <2> QED BY <1>4, <2>1, <2>2 DEF Heedful, Sheltered
<1> QED BY <1>2, <1>3, <1>4

(* A block of the script in the place of an operation that has it.              *)
LEMMA HeedBlock ==
  ASSUME Begun, Heeding(script), Heedful, script' = script, winner' = winner, todo # <<>>,
         Now \in Ops(script), NEW b \in Bodies(Now), todo' = b \o Rest,
         Over /\ Halts(Now) => b = <<Quit>>
  PROVE  Heedful'
<1>1. b \in Blocks(script)
  BY BodyIsBlock DEF Begun
<1>2. Becomes(b)
  BY DEF Becomes, Rest
<1>3. /\ Row(b)
      /\ \A i \in 1 .. Len(b) : b[i] \in Ops(script) /\ Permitted(b[i]) /\ (Danger(b[i]) <=> b[i] \in Risky(script))
      /\ \A i, j \in 1 .. Len(b) : i < j /\ Loose(b[i]) /\ Danger(b[j])
              => \E k \in 1 .. Len(b) : i < k /\ k < j /\ Halts(b[k])
      /\ \A i \in 1 .. Len(b) : Loose(b[i]) /\ b \notin OpenBlocks(script)
              => \E k \in 1 .. Len(b) : i < k /\ Halts(b[k])
  BY <1>1, BlockSafe
<1>4. b \in OpenBlocks(script) => Sheltered(1)
  BY HeadSafe DEF Loose, Open
<1>5. ASSUME Over' PROVE /\ \A j \in 1 .. Len(b) : ~Danger(b[j])
                         /\ (\E k \in 1 .. Len(b) : Halts(b[k])) \/ Sheltered(1)
  <2>1. Over
    BY <1>5 DEF Over
  <2>2. Now \notin Risky(script)
    BY <2>1, HeadSafe DEF Danger
  <2>3. \A j \in 1 .. Len(b) : b[j] \in Range(b)
    BY <1>3, RowFacts DEF Range
  <2>4. \A j \in 1 .. Len(b) : ~Danger(b[j])
    BY <1>3, <2>2, <2>3, RiskyFacts
  <2>5. CASE Halts(Now)
    <3>1. b = <<Quit>>
      BY <2>1, <2>5
    <3>2. Len(b) = 1 /\ b[1] = Quit /\ 1 \in 1 .. Len(b)
      BY <3>1
    <3> QED BY <2>4, <3>2 DEF Halts
  <2> QED BY <2>1, <2>4, <2>5, HeadSafe
<1> QED BY <1>2, <1>3, <1>4, <1>5, HeedPush

(* A round of a loop.                                                          *)
LEMMA HeedRound ==
  ASSUME Begun, Heeding(script), Heedful, script' = script, winner' = winner, todo # <<>>,
         NEW b \in Blocks(script), b \notin OpenBlocks(script),
         NEW o, o.op \in {"again", "next"}, o.body = b, todo' = (b \o <<o>>) \o Rest,
         Over => Sheltered(1) /\ Range(b) \cap Risky(script) = {}
  PROVE  Heedful'
<1>1. PICK t, n : t = b \o <<o>> /\ n = Len(b)
  OBVIOUS
<1>2. /\ Row(b)
      /\ \A i \in 1 .. n : Permitted(b[i]) /\ (Danger(b[i]) <=> b[i] \in Risky(script))
      /\ \A i, j \in 1 .. n : i < j /\ Loose(b[i]) /\ Danger(b[j])
              => \E k \in 1 .. n : i < k /\ k < j /\ Halts(b[k])
      /\ \A i \in 1 .. n : Loose(b[i]) => \E k \in 1 .. n : i < k /\ Halts(b[k])
  BY <1>1, BlockSafe
<1>3. Row(t) /\ Len(t) = n + 1 /\ t[n + 1] = o /\ (\A i \in 1 .. n : t[i] = b[i]) /\ n \in Nat
  BY <1>1, <1>2, RowMore, RowFacts
<1>4. Permitted(o) /\ ~Loose(o) /\ (Danger(o) => Range(b) \cap Risky(script) # {})
  <2>1. o.op \notin Internals \cup Deciding \cup Vocabulary /\ Bodies(o) = {}
    BY DEF Internals, Deciding, Vocabulary, Controlling, Assigning, Touching, Sparing, Lowering,
           Knocking, Shifting, Moving, Awarding, Bodies
  <2>2. o \notin Ops(script)
    BY <2>1 DEF Heeding, Orderly
  <2>3. o \notin Risky(script)
    <3>1. \A E : E \subseteq Ops(script) => Holding(script, E) \subseteq Ops(script)
      BY DEF Holding
    <3>2. {x \in Ops(script) : x.op \in Deciding \cup Jumping} \subseteq Ops(script)
      OBVIOUS
    <3> QED BY <2>2, <3>1, <3>2 DEF Risky
  <2> QED BY <2>1, <2>3 DEF Permitted, Loose, Open, Danger, Internal
<1>5. \A i \in 1 .. Len(t) : i \in 1 .. n \/ (i = n + 1 /\ t[i] = o)
  BY <1>3
<1>6. \A i \in 1 .. Len(t) : Permitted(t[i])
  BY <1>2, <1>3, <1>4, <1>5
<1>7. \A i \in 1 .. Len(t) : Loose(t[i]) => \E k \in 1 .. n : i < k /\ Halts(t[k])
  BY <1>2, <1>3, <1>4, <1>5
<1>8. ASSUME NEW i \in 1 .. Len(t), NEW j \in 1 .. Len(t), i < j, Loose(t[i]), Danger(t[j])
      PROVE  \E k \in 1 .. Len(t) : i < k /\ k < j /\ Halts(t[k])
  <2>1. CASE j \in 1 .. n
    <3>1. i \in 1 .. n
      BY <1>3, <1>8, <2>1
    <3>2. PICK k \in 1 .. n : i < k /\ k < j /\ Halts(b[k])
      BY <1>2, <1>3, <1>8, <2>1, <3>1
    <3> QED BY <1>3, <3>2
  <2>2. CASE j = n + 1
    <3>1. PICK k \in 1 .. n : i < k /\ Halts(t[k])
      BY <1>7, <1>8
    <3> QED BY <1>3, <2>2, <3>1
  <2> QED BY <1>5, <2>1, <2>2
<1>9. ASSUME Over' PROVE (\A j \in 1 .. Len(t) : ~Danger(t[j])) /\ Sheltered(1)
  <2>1. Sheltered(1) /\ Range(b) \cap Risky(script) = {}
    BY <1>9 DEF Over
  <2>2. \A j \in 1 .. n : b[j] \in Range(b)
    BY <1>1, <1>2, RowFacts DEF Range
  <2> QED BY <1>2, <1>3, <1>4, <1>5, <2>1, <2>2
<1>10. Becomes(t)
  BY <1>1 DEF Becomes, Rest
<1>11. \A i \in 1 .. Len(t) : Loose(t[i]) => \E k \in 1 .. Len(t) : i < k /\ Halts(t[k])
  BY <1>3, <1>7
<1> QED BY <1>3, <1>6, <1>8, <1>9, <1>10, <1>11, HeedPush

-----------------------------------------------------------------------------
LEMMA HeedLoops ==
  ASSUME Begun, Heeding(script), Heedful, todo # <<>>, Now.op \in {"While", "again", "Each", "next"}
  PROVE  /\ Now.body \in Blocks(script) /\ Now.body \notin OpenBlocks(script)
         /\ Over => Sheltered(1) /\ Range(Now.body) \cap Risky(script) = {}
         /\ Now.op = "again" => Now = [op |-> "again", cond |-> Now.cond, body |-> Now.body]
         /\ Now.op = "While" => Now = [op |-> "While", cond |-> Now.cond, body |-> Now.body]
         /\ Now.op = "next" =>
              Now = [op |-> "next", var |-> Now.var, list |-> Now.list, body |-> Now.body]
<1>1. Now.op \notin Internals \cup {"ret"} /\ OuterWork(script, Now)
  <2>1. ~Internal(Now)
    BY DEF Internal, Internals
  <2> QED BY <2>1, HeadFacts DEF Begun, Internal, Internals
<1>2. [op |-> "ret"].op = "ret" /\ {"While", "Each"} \subseteq Vocabulary /\ "again" \notin Vocabulary
      /\ "next" \notin Vocabulary
  BY DEF Vocabulary, Controlling, Assigning, Touching, Sparing, Lowering, Knocking, Shifting,
         Moving, Awarding
<1>3. Now.op \in {"While", "Each"} => Now \in Ops(script)
  BY <1>1, <1>2, OwnOp
<1>4. Now.op \in {"again", "next"} => Now \notin Ops(script)
  BY <1>2 DEF Begun, Orderly
<1>5. ~Halts(Now)
  <2>1. Quit.op = "Quit" /\ StopIf(Ended).op = "If"
    BY DEF Quit, StopIf, When, If
  <2> QED BY <2>1 DEF Halts
<1>6. Permitted(Now) /\ (Over => ~Danger(Now) /\ Sheltered(1))
  BY <1>5, HeadSafe
<1>7. CASE Now.op \in {"While", "Each"}
  <2>1. Now.body \in Bodies(Now)
    BY <1>7 DEF Bodies
  <2>2. Now.body \in Blocks(script) /\ Now.body \notin OpenBlocks(script)
    BY <1>3, <1>7, <2>1, BodyIsBlock DEF Begun, Heeding
  <2>3. Over => Range(Now.body) \cap Risky(script) = {}
    BY <1>3, <1>6, <1>7, <2>1, RiskyFacts DEF Danger
  <2>4. Now.op = "While" => Now = While(Now.cond, Now.body)
    BY <1>3, <1>7 DEF Begun, Orderly
  <2> QED BY <1>6, <1>7, <2>2, <2>3, <2>4 DEF While
<1>8. CASE Now.op \in {"again", "next"}
  BY <1>1, <1>2, <1>4, <1>6, <1>8 DEF OuterWork, Permitted, Danger
<1> QED BY <1>7, <1>8

LEMMA OwnHeeds == ASSUME Begun, Heeding(script), Heedful, OwnStep PROVE Heedful'
<1>1. todo # <<>> /\ ~Internal(Now) /\ script' = script
  BY OwnMoves DEF OwnMove
<1>2. OuterWork(script, Now) /\ (Now.op \in Vocabulary => Now \in Ops(script))
  BY <1>1, HeadFacts, OwnOp DEF Begun
<1>3. /\ {"If", "IfSame", "Do", "Break", "Continue", "Win", "Prize"} \subseteq Vocabulary
      /\ {"Win", "Prize"} \subseteq Deciding /\ Quit.op = "Quit" /\ StopIf(Ended).op = "If"
  BY DEF Vocabulary, Controlling, Awarding, Deciding, Quit, StopIf, When, If
<1>4. CASE Fail \/ Return
  <2>1. todo' = <<>>
    <3>1. CASE Return
      <4>1. Marked({"ret"}) = {}
        <5>1. DOMAIN todo = 1 .. Len(todo)
          BY <1>1, HeadFacts DEF Begun
        <5> QED BY <5>1 DEF Marked, Heedful, Permitted
      <4> QED BY <3>1, <4>1 DEF Return
    <3> QED BY <1>4, <3>1 DEF Fail
  <2>2. Len(todo') = 0 /\ 1 .. 0 = {}
    BY <2>1
  <2> QED BY <2>2 DEF Heedful, Sheltered
<1>5. CASE Branch
  <2>1. Now.op = "If" /\ winner' = winner
    BY <1>5 DEF Branch, Sound, At, score
  <2>2. Now \in Ops(script) /\ {Now.then, Now.else} = Bodies(Now)
    BY <1>2, <1>3, <2>1 DEF Bodies
  <2>3. (todo' = Now.then \o Rest) \/ (CondFalse(Now.cond) /\ todo' = Now.else \o Rest)
    BY <1>5 DEF Branch, Then
  <2>4. Halts(Now) => Now.cond = {Ended} /\ Now.then = <<Quit>>
    <3>1. Now # Quit
      BY <1>3, <2>1
    <3> QED BY <3>1 DEF Halts, StopIf, When, If
  <2>5. Over => ~CondFalse({Ended})
    <3>1. Ended # Some /\ Ended[1] = "is" /\ Ended[2] = "over" /\ "over" \notin Sides \cup Vars
      BY DEF Ended, Some, Is, Sides, Vars
    <3>2. Fact("over") = Over
      BY <3>1 DEF Fact
    <3>3. CanFail(Ended) = ~Over
      BY <3>1, <3>2 DEF CanFail
    <3> QED BY <3>3 DEF CondFalse
  <2>6. CASE todo' = Now.then \o Rest
    BY <1>1, <2>1, <2>2, <2>4, <2>6, HeedBlock
  <2>7. CASE CondFalse(Now.cond) /\ todo' = Now.else \o Rest
    BY <1>1, <2>1, <2>2, <2>4, <2>5, <2>7, HeedBlock
  <2> QED BY <2>3, <2>6, <2>7
<1>6. CASE BranchSame
  <2>1. Now.op = "IfSame" /\ winner' = winner
    BY <1>6 DEF BranchSame, Sound, At, score
  <2>2. Now \in Ops(script) /\ {Now.then, Now.else} = Bodies(Now) /\ ~Halts(Now)
    BY <1>2, <1>3, <2>1 DEF Bodies, Halts
  <2>3. (todo' = Now.then \o Rest) \/ (todo' = Now.else \o Rest)
    BY <1>6 DEF BranchSame, Then
  <2> QED BY <1>1, <2>1, <2>2, <2>3, HeedBlock
<1>7. CASE Loop
  <2>1. Now.op \in {"While", "again"} /\ winner' = winner
    BY <1>7 DEF Loop, Sound, At, score
  <2>2. Onward \/ todo' = (Now.body \o <<[Now EXCEPT !.op = "again"]>>) \o Rest
    BY <1>7 DEF Loop, Then
  <2>3. [Now EXCEPT !.op = "again"] = [op |-> "again", cond |-> Now.cond, body |-> Now.body]
    BY <1>1, <2>1, HeedLoops
  <2>4. PICK o : o = [Now EXCEPT !.op = "again"]
    OBVIOUS
  <2>5. o.op = "again" /\ o.body = Now.body
    BY <2>3, <2>4
  <2>6. CASE Onward
    BY <1>1, <2>1, <2>6, HeedLoops, HeedOnward DEF Over
  <2>7. CASE todo' = (Now.body \o <<o>>) \o Rest
    <3>1. PICK b : b = Now.body
      OBVIOUS
    <3>2. /\ b \in Blocks(script) /\ b \notin OpenBlocks(script)
          /\ Over => Sheltered(1) /\ Range(b) \cap Risky(script) = {}
      BY <1>1, <2>1, <3>1, HeedLoops
    <3>3. o.op \in {"again", "next"} /\ o.body = b /\ todo' = (b \o <<o>>) \o Rest
      BY <2>5, <2>7, <3>1
    <3> QED BY <1>1, <2>1, <3>2, <3>3, HeedRound
  <2> QED BY <2>2, <2>4, <2>6, <2>7
<1>8. CASE StartEach
  <2>1. Now.op = "Each" /\ winner' = winner
    BY <1>8 DEF StartEach, Sound, At, score
  <2>2. PICK o : o = [op |-> "next", var |-> Now.var, list |-> Pool(Now.pool), body |-> Now.body]
    OBVIOUS
  <2>3. o.op = "next" /\ o.body = Now.body
    BY <2>2
  <2>4. PICK ops : ops = <<o>>
    OBVIOUS
  <2>5. Becomes(ops) /\ Row(ops) /\ Len(ops) = 1 /\ ops[1] = o
    BY <1>1, <1>8, <2>2, <2>4, RowOne DEF StartEach, Then, Becomes, Rest
  <2>6. Permitted(o) /\ ~Loose(o)
    <3>1. o.op \notin Internals \cup Deciding /\ Bodies(o) = {}
      BY <2>3 DEF Internals, Deciding, Knocking, Awarding, Bodies
    <3> QED BY <1>1, <2>1, <2>3, <3>1, HeedLoops DEF Permitted, Loose, Open, Internal
  <2>7. Over => Sheltered(1) /\ ~Danger(o)
    <3>1. "next" \notin Vocabulary
      BY DEF Vocabulary, Controlling, Assigning, Touching, Sparing, Lowering, Knocking, Shifting,
             Moving, Awarding
    <3>2. o \notin Ops(script)
      BY <2>3, <3>1 DEF Begun, Orderly
    <3>3. Now \in Ops(script)
      <4>1. "Each" \in Vocabulary
        BY DEF Vocabulary, Controlling
      <4> QED BY <1>2, <2>1, <4>1
    <3>4. o \notin Risky(script)
      BY <3>2, <3>3, RiskyFacts
    <3> QED BY <1>1, <2>1, <2>3, <3>4, HeedLoops DEF Danger
  <2>8. \A i \in 1 .. Len(ops) : i = 1 /\ ops[i] = o
    BY <2>5
  <2>9. Over' => Over
    BY <2>1 DEF Over
  <2>10. /\ \A i \in 1 .. Len(ops) : Permitted(ops[i]) /\ ~Loose(ops[i])
         /\ Over' => (\A i \in 1 .. Len(ops) : ~Danger(ops[i])) /\ Sheltered(1)
    BY <2>6, <2>7, <2>8, <2>9
  <2> QED BY <1>1, <2>5, <2>10, HeedPush
<1>9. CASE NextEach
  <2>1. Now.op = "next" /\ winner' = winner
    BY <1>9 DEF NextEach, Sound, At, score
  <2>2. Onward \/ todo' = (Now.body \o <<[Now EXCEPT !.list = Tail(Now.list)]>>) \o Rest
    BY <1>9 DEF NextEach, Then
  <2>3. PICK o : o = [Now EXCEPT !.list = Tail(Now.list)]
    OBVIOUS
  <2>4. o.op = "next" /\ o.body = Now.body
    <3>1. \A q, a, l, b, x : q = [op |-> "next", var |-> a, list |-> l, body |-> b]
            => [q EXCEPT !.list = x] = [op |-> "next", var |-> a, list |-> x, body |-> b]
      OBVIOUS
    <3>2. Now = [op |-> "next", var |-> Now.var, list |-> Now.list, body |-> Now.body]
      BY <1>1, <2>1, HeedLoops
    <3>3. o = [op |-> "next", var |-> Now.var, list |-> Tail(Now.list), body |-> Now.body]
      BY <2>3, <3>1, <3>2, Zenon
    <3> QED BY <3>3
  <2>5. CASE Onward
    BY <1>1, <2>1, <2>5, HeedLoops, HeedOnward DEF Over
  <2>6. CASE todo' = (Now.body \o <<o>>) \o Rest
    BY <1>1, <2>1, <2>4, <2>6, HeedLoops, HeedRound
  <2> QED BY <2>2, <2>3, <2>5, <2>6
<1>10. CASE LeaveLoop
  <2>1. Now.op \in Jumping /\ winner' = winner
    BY <1>10 DEF LeaveLoop, Sound, At, score, Jumping
  <2>2. Now \in Risky(script)
    <3>1. Now \in Ops(script)
      BY <1>2, <1>3, <2>1 DEF Jumping
    <3> QED BY <2>1, <3>1, RiskyFacts
  <2>3. ~Over /\ ~Over'
    BY <1>1, <2>1, <2>2, HeadSafe DEF Danger, Over
  <2>4. PICK k \in 1 .. Len(todo) + 1 : todo' = From(k)
    <3>1. /\ Marked({"again", "next"}) # {} /\ Marked({"again", "next"}) \subseteq 1 .. Len(todo)
          /\ Len(todo) \in Nat
      BY <1>10, RowFacts DEF LeaveLoop, Marked, Begun, Queue
    <3>2. First(Marked({"again", "next"})) \in 1 .. Len(todo)
      BY <3>1, FirstIsIn
    <3>3. PICK l \in 1 .. Len(todo) : l = First(Marked({"again", "next"}))
      BY <3>2
    <3>4. todo' = From(l) \/ todo' = From(l + 1)
      BY <1>10, <3>3 DEF LeaveLoop
    <3> QED BY <3>1, <3>4
  <2>5. PICK t : t = SubSeq(todo, k, Len(todo))
    OBVIOUS
  <2>6. Len(t) = Len(todo) + 1 - k /\ (\A j \in 1 .. Len(t) : t[j] = todo[j + k - 1]) /\ todo' = t
        /\ Len(todo) \in Nat
    BY <2>4, <2>5, SkipAt, RowFacts DEF Begun, Queue, From
  <2>7. \A o : (Loose(o)' <=> Loose(o)) /\ (Permitted(o)' <=> Permitted(o))
    BY <1>1 DEF Loose, Permitted
  <2>8. ASSUME NEW i \in 1 .. Len(t) PROVE Permitted(t[i]) /\ (Loose(t[i]) => Sheltered(i)')
    <3>1. i + k - 1 \in 1 .. Len(todo) /\ t[i] = todo[i + k - 1] /\ i \in Nat
      BY <2>6
    <3>2. Permitted(t[i]) /\ (Loose(t[i]) => Sheltered(i + k - 1))
      BY <3>1 DEF Heedful
    <3> QED BY <1>1, <2>4, <3>1, <3>2, ShelterSkip
  <2> QED BY <2>3, <2>6, <2>7, <2>8 DEF Heedful
<1>11. CASE Call
  <2>1. Now.op = "Do"
    BY <1>11 DEF Call, Sound, At
  <2> QED BY <1>2, <1>3, <2>1 DEF Heeding
<1>12. CASE Assign \/ Store \/ Touch \/ Read \/ SetHitPoints \/ Rearrange \/ Discard
  <2>1. Onward /\ winner' = winner
    BY <1>12 DEF Assign, Store, Touch, Read, SetHitPoints, Rearrange, Discard, score
  <2>2. Now.op \notin {"If", "Quit"}
    BY <1>12 DEF Assign, Store, Touch, Read, SetHitPoints, Rearrange, Discard, Sound, At, HpSet
  <2>3. ~Halts(Now)
    BY <1>3, <2>2 DEF Halts
  <2>4. Over' => Sheltered(1)
    BY <1>1, <2>1, <2>3, HeadSafe DEF Over
  <2> QED BY <1>1, <2>1, <2>4, HeedOnward
<1>13. CASE Declare \/ TakePrizes
  <2>1. Onward /\ Now.op \in {"Win", "Prize"}
    BY <1>13 DEF Declare, TakePrizes, Sound, At
  <2>2. Loose(Now)
    BY <1>3, <2>1 DEF Loose, Open
  <2> QED BY <1>1, <2>1, <2>2, HeadSafe, HeedOnward
<1> QED BY <1>4, <1>5, <1>6, <1>7, <1>8, <1>9, <1>10, <1>11, <1>12, <1>13 DEF OwnStep

-----------------------------------------------------------------------------
(* What the shared functions add is never dangerous itself.                    *)
LEMMA HeedChain ==
  ASSUME Begun, Heeding(script), Heedful, script' = script, NEW ops, Becomes(ops), Chain(ops), Loose(Now)
  PROVE  Heedful'
<1>1. Row(ops) /\ \A i \in 1 .. Len(ops) : InnerWork(ops[i])
  BY DEF Chain
<1>2. \A i \in 1 .. Len(ops) : Permitted(ops[i]) /\ ~Danger(ops[i])
  BY <1>1, InnerSafe
<1>3. Sheltered(1)
  BY HeadSafe DEF Becomes
<1> QED BY <1>1, <1>2, <1>3, HeedPush

LEMMA LaunchHeeds ==
  ASSUME Begun, Heeding(script), Heedful, Launch
  PROVE  Heedful' /\ ~Over /\ winner' = winner
<1>1. LaunchMove /\ todo # <<>> /\ Now \in Ops(script)
  BY LaunchMoves DEF LaunchMove
<1>2. Now.op \in Knocking
  BY DEF Launch, BlowLands, StrikeLands, SplashLands, CheckKo, Reshape, StadiumGone, Sound, At, Knocking
<1>3. Loose(Now) /\ Danger(Now)
  BY <1>1, <1>2, RiskyFacts DEF Loose, Open, Deciding, Danger
<1>4. winner' = winner
  BY DEF Launch, BlowLands, StrikeLands, SplashLands, CheckKo, Reshape, StadiumGone, score
<1> QED BY <1>1, <1>3, <1>4, HeadSafe, HeedChain DEF LaunchMove

LEMMA InnerHeeds == ASSUME Begun, Heeding(script), Heedful, InnerStep PROVE Heedful'
<1>1. InnerMove /\ todo # <<>> /\ Internal(Now) /\ script' = script
  BY InnerMoves DEF InnerMove
<1>2. Loose(Now)
  BY <1>1 DEF Loose
<1>3. CASE \E ops : Becomes(ops) /\ Chain(ops)
  BY <1>1, <1>2, <1>3, HeedChain
<1>4. CASE todo' = todo
  <2>1. KnockOut => Onward
    BY DEF KnockOut
  <2>2. ~KnockOut
    <3>1. Len(Tail(todo)) = Len(todo) - 1 /\ Len(todo) \in Nat
      <4>1. todo \in Seq(Range(todo))
        BY DEF Begun, Queue, Row
      <4> QED BY <1>1, <4>1, HeadTailProperties
    <3> QED BY <1>4, <2>1, <3>1 DEF Onward, Rest
  <2>3. winner' = winner
    BY <2>2 DEF InnerStep, Parry, Parried, Tour, Sweep, Examine, score
  <2>4. \A o : (Loose(o)' <=> Loose(o)) /\ (Permitted(o)' <=> Permitted(o)) /\ (Danger(o)' <=> Danger(o))
    BY <1>1 DEF Loose, Permitted, Danger
  <2>5. \A i : Sheltered(i)' <=> Sheltered(i)
    BY <1>4, <2>4 DEF Sheltered
  <2> QED BY <1>4, <2>3, <2>4, <2>5 DEF Heedful, Over
<1>5. CASE Len(todo) > 1 /\ Now.op = "parried" /\ todo' = From(3)
  <2>1. Len(todo) \in Nat /\ Now = todo[1] /\ 3 \in 1 .. Len(todo) + 1 /\ 1 \in 1 .. Len(todo)
    BY <1>1, <1>5, HeadFacts DEF Begun
  <2>2. todo[2].op = "ko" /\ 2 \in 1 .. Len(todo)
    BY <1>5, <2>1 DEF Begun, Queue, Parrying
  <2>3. Sheltered(2)
    BY <2>2 DEF Heedful, Loose, Internal, Internals
  <2>4. PICK t : t = SubSeq(todo, 3, Len(todo))
    OBVIOUS
  <2>5. Len(t) = Len(todo) + 1 - 3 /\ (\A j \in 1 .. Len(t) : t[j] = todo[j + 3 - 1]) /\ todo' = t
    BY <1>5, <2>1, <2>4, SkipAt DEF Begun, Queue, From
  <2>6. \A o : (Loose(o)' <=> Loose(o)) /\ (Permitted(o)' <=> Permitted(o))
    BY <1>1 DEF Loose, Permitted
  <2>7. ASSUME NEW i \in 1 .. Len(t) PROVE Permitted(t[i]) /\ (Loose(t[i]) => Sheltered(i)')
    <3>1. i + 3 - 1 \in 1 .. Len(todo) /\ t[i] = todo[i + 3 - 1] /\ i \in Nat
      BY <2>1, <2>5
    <3>2. Permitted(t[i]) /\ (Loose(t[i]) => Sheltered(i + 3 - 1))
      BY <3>1 DEF Heedful
    <3> QED BY <1>1, <1>5, <2>1, <3>1, <3>2, ShelterSkip
  <2>8. Sheltered(0)'
    <3>1. 0 + 3 - 1 = 2 /\ 0 \in Nat
      OBVIOUS
    <3>2. Sheltered(0 + 3 - 1)
      BY <2>3, <3>1
    <3> QED BY <1>1, <1>5, <2>1, <3>1, <3>2, ShelterSkip
  <2> QED BY <2>5, <2>6, <2>7, <2>8 DEF Heedful
<1> QED BY <1>1, <1>3, <1>4, <1>5 DEF InnerMove

-----------------------------------------------------------------------------
(* Examinations in the place of the first.                                     *)
LEMMA RelayPush ==
  ASSUME Begun, Relay, NEW ops, Becomes(ops), Row(ops), Len(ops) > 0,
         Over' => ops[1].op \notin {"ko", "out", "parry"},
         \A j \in 2 .. Len(ops) : ops[j].op \notin {"parry", "out"} /\ (ops[j].op = "ko" => ops[j - 1].op \in Parrying),
         ops[Len(ops)].op \in Parrying \/ Now.op \notin Parrying
  PROVE  Relay'
<1>1. PICK t, n : t = ops \o Tail(todo) /\ n = Len(ops)
  OBVIOUS
<1>2. /\ Row(t) /\ Len(t) = n + Len(todo) - 1
      /\ \A j \in 1 .. n : t[j] = ops[j]
      /\ \A j \in (n + 1) .. Len(t) : t[j] = todo[j + 1 - n]
  BY <1>1, PushAt DEF Becomes, Begun, Queue
<1>3. n \in Nat /\ n > 0 /\ Len(todo) \in Nat /\ Len(todo) > 0 /\ Len(t) \in Nat /\ todo' = t /\ Now = todo[1]
  BY <1>1, <1>2, RowFacts, HeadFacts DEF Becomes, Begun
<1>4. ASSUME NEW j \in 2 .. Len(t)
      PROVE  t[j].op # "parry" /\ (t[j].op \in {"ko", "out"} => t[j - 1].op \in Parrying)
  <2>1. CASE j <= n
    <3>1. j \in 2 .. n /\ t[j] = ops[j] /\ t[j - 1] = ops[j - 1]
      BY <1>2, <1>3, <2>1
    <3> QED BY <1>1, <3>1
  <2>2. CASE j = n + 1
    <3>1. 2 \in 2 .. Len(todo) /\ t[j] = todo[2] /\ t[j - 1] = ops[n]
      BY <1>2, <1>3, <2>2
    <3>2. todo[2].op # "parry" /\ (todo[2].op \in {"ko", "out"} => todo[1].op \in Parrying)
      BY <3>1 DEF Relay
    <3> QED BY <1>1, <1>3, <3>1, <3>2
  <2>3. CASE j > n + 1
    <3>1. j + 1 - n \in 2 .. Len(todo) /\ t[j] = todo[j + 1 - n] /\ t[j - 1] = todo[(j + 1 - n) - 1]
      BY <1>2, <1>3, <2>3
    <3> QED BY <3>1 DEF Relay
  <2> QED BY <1>2, <1>3, <2>1, <2>2, <2>3
<1>5. Head(t) = ops[1]
  BY <1>1, <1>2, <1>3
<1>6. Now' = ops[1]
  BY <1>3, <1>5 DEF Now
<1> QED BY <1>1, <1>3, <1>4, <1>6 DEF Relay

(* What is left when the first is done.                                        *)
LEMMA RelaySkip ==
  ASSUME Begun, Relay, NEW k \in 2 .. Len(todo) + 1, todo' = From(k), Internal(Now), todo # <<>>,
         Over' => k = Len(todo) + 1 \/ todo[k - 1].op \notin Parrying
  PROVE  Relay'
<1>1. PICK t : t = SubSeq(todo, k, Len(todo))
  OBVIOUS
<1>2. Len(t) = Len(todo) + 1 - k /\ (\A j \in 1 .. Len(t) : t[j] = todo[j + k - 1]) /\ todo' = t
      /\ Len(todo) \in Nat /\ Len(t) \in Nat /\ Row(t)
  BY <1>1, SkipAt, RowFacts DEF Begun, Queue, From
<1>3. ASSUME NEW j \in 2 .. Len(t)
      PROVE  t[j].op # "parry" /\ (t[j].op \in {"ko", "out"} => t[j - 1].op \in Parrying)
  <2>1. j + k - 1 \in 2 .. Len(todo) /\ t[j] = todo[j + k - 1] /\ t[j - 1] = todo[(j + k - 1) - 1]
    BY <1>2
  <2> QED BY <2>1 DEF Relay
<1>4. ASSUME Over', t # <<>> PROVE Head(t).op \notin {"ko", "out", "parry"}
  <2>1. Len(t) > 0 /\ Head(t) = t[1]
    BY <1>2, <1>4, RowFacts
  <2>2. Head(t) = todo[k] /\ k \in 2 .. Len(todo)
    BY <1>2, <2>1
  <2>3. todo[k - 1].op \notin Parrying
    BY <1>2, <1>4, <2>2
  <2> QED BY <2>2, <2>3 DEF Relay
<1>5. Now' = Head(todo')
  BY DEF Now
<1> QED BY <1>2, <1>3, <1>4, <1>5 DEF Relay

LEMMA OnwardSkips ==
  ASSUME Begun, todo # <<>>, Onward
  PROVE  todo' = From(2) /\ 2 \in 2 .. Len(todo) + 1 /\ 2 \in Nat
<1>1. todo \in Seq(Range(todo)) /\ Len(todo) \in Nat /\ Len(todo) > 0
  BY HeadFacts DEF Begun, Queue, Row
<1> QED BY <1>1 DEF Onward, Rest, From

LEMMA OuterRelays ==
  ASSUME Len(todo') \in Nat, todo' # <<>> => Head(todo') = todo'[1] /\ Len(todo') > 0,
         \A i \in 1 .. Len(todo') : ~Internal(todo'[i])
  PROVE  Relay'
<1>1. \A j \in 1 .. Len(todo') : todo'[j].op \notin {"ko", "out", "parry"}
  BY DEF Internal, Internals
<1>2. \A j \in 2 .. Len(todo') : j \in 1 .. Len(todo')
  OBVIOUS
<1>3. todo' # <<>> => 1 \in 1 .. Len(todo')
  OBVIOUS
<1>4. Now' = Head(todo')
  BY DEF Now
<1>5. todo' # <<>> => Now'.op \notin {"ko", "out", "parry"}
  BY <1>1, <1>3, <1>4
<1>6. \A j \in 2 .. Len(todo') : todo'[j].op # "parry" /\ todo'[j].op \notin {"ko", "out"}
  BY <1>1, <1>2
<1> QED BY <1>5, <1>6 DEF Relay

LEMMA LaunchRelays ==
  ASSUME Begun, Heeding(script), Heedful, Relay, Launch
  PROVE  Relay'
<1>1. ~Over' /\ todo # <<>> /\ ~Internal(Now)
  BY LaunchHeeds, LaunchMoves DEF LaunchMove, Over
<1>2. Now.op \notin Parrying /\ \A i \in 1 .. Len(todo) : ~Internal(todo[i])
  BY <1>1, HeadFacts DEF Begun, Internal, Internals, Parrying
<1>3. CASE Onward
  <2>1. PICK t : t = SubSeq(todo, 2, Len(todo))
    OBVIOUS
  <2>2. todo' = From(2) /\ 2 \in 2 .. Len(todo) + 1
    BY <1>1, <1>3, OnwardSkips
  <2>3. Len(todo) \in Nat /\ 2 \in 1 .. Len(todo) + 1
    BY <1>1, <2>2, HeadFacts DEF Begun
  <2>4. Row(t) /\ Len(t) = Len(todo) + 1 - 2 /\ (\A j \in 1 .. Len(t) : t[j] = todo[j + 2 - 1]) /\ todo' = t
    BY <2>1, <2>2, <2>3, SkipAt DEF Begun, Queue, From
  <2>5. \A j \in 1 .. Len(t) : ~Internal(t[j])
    BY <1>2, <2>3, <2>4
  <2>6. Len(t) \in Nat /\ (t # <<>> => Head(t) = t[1] /\ Len(t) > 0)
    BY <2>4, RowFacts
  <2> QED BY <2>4, <2>5, <2>6, OuterRelays
<1>4. CASE \E x : Then(<<x>>)
  <2>1. PICK x : Then(<<x>>)
    BY <1>4
  <2>2. PICK ops : ops = <<x>>
    OBVIOUS
  <2>3. Becomes(ops) /\ Row(ops) /\ Len(ops) = 1
    BY <1>1, <2>1, <2>2, RowOne DEF Then, Becomes, Rest
  <2>4. 2 .. Len(ops) = {}
    BY <2>3
  <2> QED BY <1>1, <1>2, <2>3, <2>4, RelayPush
<1>5. CASE \E x, y : Then(<<x, y>>) /\ (y.op = "tour" \/ (y.op = "ko" /\ x.op = "parry"))
  <2>1. PICK x, y : Then(<<x, y>>) /\ (y.op = "tour" \/ (y.op = "ko" /\ x.op = "parry"))
    BY <1>5
  <2>2. PICK ops : ops = <<x, y>>
    OBVIOUS
  <2>3. Becomes(ops) /\ Row(ops) /\ Len(ops) = 2 /\ ops[1] = x /\ ops[2] = y
    BY <1>1, <2>1, <2>2, RowTwo DEF Then, Becomes, Rest
  <2>4. \A j \in 2 .. Len(ops) : j = 2 /\ ops[j] = y /\ ops[j - 1] = x
    BY <2>3
  <2>5. \A j \in 2 .. Len(ops) : ops[j].op \notin {"parry", "out"} /\ (ops[j].op = "ko" => ops[j - 1].op \in Parrying)
    BY <2>1, <2>4 DEF Parrying
  <2> QED BY <1>1, <1>2, <2>3, <2>5, RelayPush
<1>6. CASE BlowLands \/ SplashLands \/ CheckKo \/ Reshape
  BY <1>3, <1>4, <1>6 DEF BlowLands, SplashLands, CheckKo, Reshape
<1>7. CASE StrikeLands
  <2>1. PICK p : p = [op |-> "parry", mon |-> active["own"]]
    OBVIOUS
  <2>2. Onward \/ Then(<<p, Ko(active["foe"])>>)
    BY <1>7, <2>1 DEF StrikeLands
  <2>3. p.op = "parry" /\ Ko(active["foe"]).op = "ko"
    BY <2>1 DEF Ko, KoOf
  <2> QED BY <1>3, <1>5, <2>2, <2>3
<1>8. CASE StadiumGone
  <2>1. \/ Onward
        \/ \E s \in Sides : Then(<<[op |-> "tour", side |-> s], [op |-> "tour", side |-> Other(s)]>>)
    BY <1>8 DEF StadiumGone
  <2>2. ASSUME NEW s \in Sides,
               Then(<<[op |-> "tour", side |-> s], [op |-> "tour", side |-> Other(s)]>>)
        PROVE  Relay'
    <3>1. PICK x, y : x = [op |-> "tour", side |-> s] /\ y = [op |-> "tour", side |-> Other(s)]
      OBVIOUS
    <3>2. y.op = "tour" /\ Then(<<x, y>>)
      BY <2>2, <3>1
    <3> QED BY <1>5, <3>2
  <2> QED BY <1>3, <2>1, <2>2
<1> QED BY <1>6, <1>7, <1>8 DEF Launch

LEMMA InnerRelays ==
  ASSUME Begun, Relay, InnerStep
  PROVE  Relay' /\ (Over => winner' = winner)
<1>1. InnerMove /\ todo # <<>> /\ Internal(Now) /\ InnerWork(Now)
  BY InnerMoves DEF InnerMove
<1>2. Len(todo) \in Nat /\ Len(todo) > 0 /\ Now = todo[1] /\ 1 \in 1 .. Len(todo)
  BY <1>1, HeadFacts DEF Begun
<1>3. Over => Now.op \notin {"ko", "out", "parry"}
  BY <1>1 DEF Relay
<1>4. Onward /\ (Over' => Now.op \notin Parrying) => Relay'
  <2>1. SUFFICES ASSUME Onward, Over' => Now.op \notin Parrying PROVE Relay'
    OBVIOUS
  <2>2. PICK k \in 2 .. Len(todo) + 1 : k = 2 /\ todo' = From(k)
    BY <1>1, <2>1, OnwardSkips
  <2>3. todo[k - 1] = Now
    BY <1>2, <2>2
  <2> QED BY <1>1, <2>1, <2>2, <2>3, RelaySkip
<1>5. ASSUME NEW x, todo' = <<x>> \o Rest, Over' => x.op \notin {"ko", "out", "parry"},
             x.op \in Parrying \/ Now.op \notin Parrying
      PROVE  Relay'
  <2>1. PICK ops : ops = <<x>>
    OBVIOUS
  <2>2. Becomes(ops) /\ Row(ops) /\ Len(ops) = 1 /\ ops[1] = x
    BY <1>1, <1>5, <2>1, RowOne DEF Becomes, Rest
  <2>3. 2 .. Len(ops) = {}
    BY <2>2
  <2> QED BY <1>5, <2>2, <2>3, RelayPush
<1>6. ASSUME NEW x, NEW y, todo' = <<x, y>> \o Rest, ~Over', y.op \notin {"ko", "out", "parry"},
             y.op \in Parrying \/ Now.op \notin Parrying
      PROVE  Relay'
  <2>1. PICK ops : ops = <<x, y>>
    OBVIOUS
  <2>2. Becomes(ops) /\ Row(ops) /\ Len(ops) = 2 /\ ops[1] = x /\ ops[2] = y
    BY <1>1, <1>6, <2>1, RowTwo DEF Becomes, Rest
  <2>3. \A j \in 2 .. Len(ops) : ops[j] = y
    BY <2>2
  <2>4. \A j \in 2 .. Len(ops) : ops[j].op \notin {"parry", "out"} /\ (ops[j].op = "ko" => ops[j - 1].op \in Parrying)
    BY <1>6, <2>3
  <2>5. ops[Len(ops)].op \in Parrying \/ Now.op \notin Parrying
    BY <1>6, <2>2
  <2>6. Len(ops) > 0 /\ (Over' => ops[1].op \notin {"ko", "out", "parry"})
    BY <1>6, <2>2
  <2> QED BY <2>2, <2>4, <2>5, <2>6, RelayPush
<1>7. CASE Parry
  <2>1. Now.op = "parry" /\ winner' = winner /\ Now = [op |-> "parry", mon |-> Now.mon]
    BY <1>1, <1>7, InnerForms DEF Parry, Sound, At, score, Parrying
  <2>2. ~Over'
    BY <1>3, <2>1 DEF Over
  <2>3. PICK r : r = [Now EXCEPT !.op = "parried"]
    OBVIOUS
  <2>4. r.op = "parried"
    BY <2>1, <2>3
  <2>5. Onward \/ (todo' = <<Ko(Now.mon), r>> \o Rest) \/ todo' = todo
    BY <1>7, <2>3 DEF Parry, Then
  <2>6. CASE todo' = <<Ko(Now.mon), r>> \o Rest
    BY <1>6, <2>1, <2>2, <2>4, <2>6 DEF Parrying
  <2>7. CASE todo' = todo
    BY <2>1, <2>2, <2>7 DEF Relay
  <2> QED BY <1>4, <2>1, <2>2, <2>5, <2>6, <2>7
<1>8. CASE Parried
  <2>1. Now.op = "parried" /\ winner' = winner /\ Now = [op |-> "parried", mon |-> Now.mon]
    BY <1>1, <1>8, InnerForms DEF Parried, Sound, At, score, Parrying
  <2>2. CASE Over
    <3>1. todo' = Tail(Rest)
      BY <1>8, <2>2 DEF Parried
    <3>2. Len(todo) > 1 /\ todo[2].op = "ko"
      BY <1>2, <2>1 DEF Begun, Queue, Parrying
    <3>3. todo' = From(3)
      <4>1. todo \in Seq(Range(todo))
        BY DEF Begun, Queue, Row
      <4> QED BY <3>1, <3>2, <4>1 DEF Rest, From
    <3>4. PICK k \in 2 .. Len(todo) + 1 : k = 3 /\ todo' = From(k)
      BY <1>2, <3>2, <3>3
    <3>5. todo[k - 1].op \notin Parrying
      BY <3>2, <3>4 DEF Parrying
    <3> QED BY <1>1, <2>1, <3>4, <3>5, RelaySkip
  <2>3. CASE ~Over
    <3>1. PICK r : r = [Now EXCEPT !.op = "parry"]
      OBVIOUS
    <3>2. r.op = "parry" /\ todo' = <<r>> \o Rest
      BY <1>8, <2>1, <2>3, <3>1 DEF Parried
    <3> QED BY <1>5, <2>1, <2>3, <3>2 DEF Over, Parrying
  <2> QED BY <2>1, <2>2, <2>3
<1>9. CASE Tour
  <2>1. Now.op = "tour" /\ winner' = winner
    BY <1>9 DEF Tour, Sound, At, score
  <2>2. PICK x : x = [op |-> "sweep", list |-> PlayList(Now.side)]
    OBVIOUS
  <2>3. x.op = "sweep" /\ todo' = <<x>> \o Rest
    BY <1>9, <2>2 DEF Tour, Then
  <2> QED BY <1>5, <2>1, <2>3 DEF Parrying
<1>10. CASE Sweep
  <2>1. Now.op = "sweep" /\ winner' = winner /\ Now = [op |-> "sweep", list |-> Now.list]
    BY <1>1, <1>10, InnerForms DEF Sweep, Sound, At, score
  <2>2. PICK y : y = [Now EXCEPT !.list = Tail(Now.list)]
    OBVIOUS
  <2>3. y.op = "sweep"
    <3>1. \A o, l, x : o = [op |-> "sweep", list |-> l] => [o EXCEPT !.list = x] = [op |-> "sweep", list |-> x]
      OBVIOUS
    <3>2. y = [op |-> "sweep", list |-> Tail(Now.list)]
      BY <2>1, <2>2, <3>1, Zenon
    <3> QED BY <3>2
  <2>4. Onward \/ (~Over /\ todo' = <<Ko(Head(Now.list)), y>> \o Rest)
    BY <1>10, <2>2 DEF Sweep, Then
  <2>5. ~Over => ~Over'
    BY <2>1 DEF Over
  <2> QED BY <1>4, <1>6, <2>1, <2>3, <2>4, <2>5 DEF Parrying
<1>11. CASE Examine
  <2>1. Now.op = "ko" /\ winner' = winner /\ Now = [op |-> Now.op, mon |-> Now.mon, needles |-> Now.needles]
    BY <1>1, <1>11, InnerForms DEF Examine, Sound, At, score
  <2>2. ~Over'
    BY <1>3, <2>1 DEF Over
  <2>3. PICK x, y : x = [Now EXCEPT !.op = "out"] /\ y = [Now EXCEPT !.op = "late out"]
    OBVIOUS
  <2>4. y.op = "late out" /\ x.op = "out"
    BY <2>1, <2>3
  <2>5. \/ Onward \/ todo' = <<x>> \o Rest
        \/ \E m : todo' = <<Ko(m), y>> \o Rest
    BY <1>11, <2>3 DEF Examine, Then
  <2>6. Now.op \notin Parrying
    BY <2>1 DEF Parrying
  <2> QED BY <1>4, <1>5, <1>6, <2>1, <2>2, <2>4, <2>5, <2>6
<1>12. CASE KnockOut
  <2>1. Now.op \in {"out", "late out"} /\ Onward
    BY <1>12 DEF KnockOut, Sound, At
  <2>2. Relay'
    BY <1>4, <2>1 DEF Parrying
  <2>3. Over => winner' = winner
    BY <1>3, <1>12, <2>1 DEF KnockOut, score
  <2> QED BY <2>2, <2>3
<1> QED BY <1>7, <1>8, <1>9, <1>10, <1>11, <1>12 DEF InnerStep

-----------------------------------------------------------------------------
(* After a step that may end the game nothing that could end it once more is    *)
(* reached: the handler looks at the phase, and so do the shared functions.     *)
Settled == Heeding(script) => Begun /\ Heedful /\ Relay

LEMMA SettledAtStart == Init => Settled
<1> SUFFICES ASSUME Init, Heeding(script) PROVE Begun /\ Heedful /\ Relay
  BY DEF Settled
<1>1. Begun /\ todo = script /\ ~Over /\ script \in Blocks(script)
  BY BegunAtStart, ScriptIsBlock DEF Heeding, Init, Over
<1>2. /\ Row(todo)
      /\ \A i \in 1 .. Len(todo) : Permitted(todo[i]) /\ todo[i] \in Ops(script)
      /\ \A i, j \in 1 .. Len(todo) : i < j /\ Loose(todo[i]) /\ Danger(todo[j])
              => \E k \in 1 .. Len(todo) : i < k /\ k < j /\ Halts(todo[k])
  BY <1>1, BlockSafe
<1>3. Heedful
  BY <1>1, <1>2 DEF Heedful, Sheltered
<1>4. \A i \in 1 .. Len(todo) : todo[i].op \notin {"parry", "ko", "out"}
  <2>1. Vocabulary \cap {"parry", "ko", "out"} = {}
    BY DEF Vocabulary, Controlling, Assigning, Touching, Sparing, Lowering, Knocking, Shifting,
           Moving, Awarding
  <2> QED BY <1>2, <2>1 DEF Heeding, Orderly
<1>5. Relay
  BY <1>1, <1>4 DEF Relay
<1> QED BY <1>1, <1>3, <1>5

LEMMA OwnResult ==
  ASSUME Begun, Heeding(script), Heedful, OwnStep, Over
  PROVE  winner' = winner
<1>1. CASE Declare \/ TakePrizes
  <2>1. At({"Win"}) \/ At({"Prize"})
    BY <1>1 DEF Declare, TakePrizes, Sound
  <2>2. todo # <<>> /\ Now.op \in {"Win", "Prize"}
    BY <2>1, AtHead
  <2>3. {"Win", "Prize"} \subseteq Vocabulary /\ {"Win", "Prize"} \subseteq Deciding
    BY DEF Vocabulary, Awarding, Deciding
  <2>4. Now \in Ops(script)
    <3>1. ~Internal(Now)
      BY <2>2, <2>3, NotInner
    <3> QED BY <2>2, <2>3, <3>1, HeadFacts, OwnOp DEF Begun
  <2> QED BY <2>2, <2>3, <2>4, RiskyFacts, HeadSafe DEF Danger
<1>2. CASE ~Declare /\ ~TakePrizes
  BY <1>2, Zenon DEF OwnStep, Fail, Branch, BranchSame, Loop, StartEach, NextEach, LeaveLoop, Call,
     Return, Assign, Store, Touch, Read, SetHitPoints, Rearrange, Discard, score
<1> QED BY <1>1, <1>2

LEMMA SettledStep == Settled /\ [Next]_vars => Settled'
<1> SUFFICES ASSUME Settled, [Next]_vars, Heeding(script) PROVE (Begun /\ Heedful /\ Relay)'
  BY ScriptStays DEF Settled
<1>1. Begun /\ Heedful /\ Relay /\ Begun'
  BY BegunStep DEF Settled
<1>2. CASE OwnStep
  <2>1. \A i \in 1 .. Len(todo') : ~Internal(todo'[i])
    BY <1>1, <1>2, OwnMoves, OwnKeepsOuter
  <2>2. Len(todo') \in Nat /\ (todo' # <<>> => Head(todo') = todo'[1] /\ Len(todo') > 0)
    <3>1. Row(todo)'
      BY <1>1 DEF Begun, Queue
    <3>2. todo' \in Seq(Range(todo'))
      BY <3>1 DEF Row
    <3> QED BY <3>2
  <2> QED BY <1>1, <1>2, <2>1, <2>2, OuterRelays, OwnHeeds
<1>3. CASE Launch
  BY <1>1, <1>3, LaunchHeeds, LaunchRelays
<1>4. CASE InnerStep
  BY <1>1, <1>4, InnerHeeds, InnerRelays
<1>5. CASE UNCHANGED vars
  <2>1. script' = script /\ todo' = todo /\ winner' = winner
    BY <1>5 DEF vars, score
  <2>2. \A o : (Loose(o)' <=> Loose(o)) /\ (Permitted(o)' <=> Permitted(o)) /\ (Danger(o)' <=> Danger(o))
    BY <2>1 DEF Loose, Permitted, Danger
  <2>3. \A i : Sheltered(i)' <=> Sheltered(i)
    BY <2>1, <2>2 DEF Sheltered
  <2>4. Now' = Now
    BY <2>1 DEF Now
  <2> QED BY <1>1, <2>1, <2>2, <2>3, <2>4 DEF Heedful, Relay, Over
<1>6. CASE Slip
  <2>1. todo' = <<>> /\ Len(todo') = 0 /\ 1 .. 0 = {}
    BY <1>1, <1>6, SlipEnds
  <2> QED BY <1>1, <2>1 DEF Heedful, Relay, Sheltered
<1> QED BY <1>2, <1>3, <1>4, <1>5, <1>6, StepKinds

LEMMA ResultStep == ASSUME Begun, Heeding(script), Heedful, Relay, Over, [Next]_vars PROVE winner' = winner
<1>1. CASE OwnStep
  BY <1>1, OwnResult
<1>2. CASE Launch
  BY <1>2, LaunchHeeds
<1>3. CASE InnerStep
  BY <1>3, InnerRelays
<1>4. CASE Slip \/ UNCHANGED vars
  BY <1>4, SlipEnds DEF vars, score
<1> QED BY <1>1, <1>2, <1>3, <1>4, StepKinds

(* A handler that looks at the phase between the steps that may end the game never *)
(* lets the result be overwritten, by its own later damage or by the retaliations *)
(* and examinations still under way when check_ko names the winner.            *)
THEOREM ResultKept == Spec /\ Heeding(script) => ResultStays
<1>1. Init /\ Heeding(script) => Settled /\ Heeding(script)
  BY SettledAtStart
<1>2. (Settled /\ Heeding(script)) /\ [Next]_vars => (Settled /\ Heeding(script))'
  BY SettledStep, ScriptStays
<1>3. (Settled /\ Heeding(script)) /\ [Next]_vars
        => [Over /\ script \notin Reopening => winner' = winner]_vars
  BY ResultStep DEF Settled
<1> QED BY <1>1, <1>2, <1>3, PTL DEF Spec, ResultStays

-----------------------------------------------------------------------------
(* What a careful handler needs at each step, and where it comes from.          *)
(* A fact of the state.                                                        *)
Holds(f) ==
    \/ \E x \in Sides \cup Vars \cup Listing : f = Is(x) /\ Fact(x)
    \/ \E v \in Vars, s \in Sides : f = Aboard(v, s) /\ vals[v] \in Benched(s) \cup {None}

(* A loop in progress needs and spoils what its body does.                     *)
Looped(o) == o.op \in {"again", "next"}
Needs(o, f) ==
    \/ Lacks(o, f, Wants(script, f))
    \/ o.op = "again" /\ o.body \in Wants(script, f) /\ ~Assumed(o.cond, f)
    \/ o.op = "next" /\ o.body \in Wants(script, f) /\ f \notin Held \cap {Is(o.var)}
Upsets(o, f) ==
    \/ o \in Spoiling(script, f)
    \/ Internal(o) /\ f \notin Held
    \/ Looped(o) /\ Range(o.body) \cap Spoiling(script, f) # {}
    \/ o.op = "next" /\ \E s \in Sides : f = Aboard(o.var, s)

(* Of the work in s, the j-th can rely on f: nothing before it spoils it, or    *)
(* something before it gives it.                                               *)
Unspoilt(s, j, f) == \A i \in 1 .. (j - 1) : ~Upsets(s[i], f)
Source(s, k, j, f) ==
    /\ Gives(script, s[k], f)
    /\ \A i \in (k + 1) .. (j - 1) : ~Upsets(s[i], f)
    /\ \A i \in (k + 1) .. j : ~Looped(s[i])
Sourced(s, j, f) == \E k \in 1 .. (j - 1) : Source(s, k, j, f)

Supplied ==
    \A j \in 1 .. Len(todo) :
      /\ todo[j].op # "ret"
      /\ \A f \in Facts : Needs(todo[j], f) =>
           /\ (Holds(f) /\ Unspoilt(todo, j, f)) \/ Sourced(todo, j, f)
           /\ Looped(todo[j]) => ~Upsets(todo[j], f)

-----------------------------------------------------------------------------
LEMMA ScriptFacts ==
  ASSUME script' = script
  PROVE  /\ \A o, f : (Needs(o, f)' <=> Needs(o, f)) /\ (Upsets(o, f)' <=> Upsets(o, f))
         /\ \A s, j, f : (Unspoilt(s, j, f)' <=> Unspoilt(s, j, f)) /\ (Sourced(s, j, f)' <=> Sourced(s, j, f))
<1>1. \A o, f : (Needs(o, f)' <=> Needs(o, f)) /\ (Upsets(o, f)' <=> Upsets(o, f))
  BY DEF Needs, Upsets
<1>2. \A s, j, f : Unspoilt(s, j, f)' <=> Unspoilt(s, j, f)
  BY <1>1 DEF Unspoilt
<1>3. \A s, k, j, f : Source(s, k, j, f)' <=> Source(s, k, j, f)
  BY <1>1 DEF Source
<1>4. \A s, j, f : Sourced(s, j, f)' <=> Sourced(s, j, f)
  BY <1>3 DEF Sourced
<1> QED BY <1>1, <1>2, <1>4

(* Work put in the place of the first.                                         *)
LEMMA SupplyPush ==
  ASSUME Begun, Supplied, script' = script, NEW ops, Becomes(ops), Row(ops),
         \A f \in Facts : Holds(f) /\ ~Upsets(Now, f) => Holds(f)',
         \A f \in Facts : \A i \in 1 .. Len(ops) : ~Upsets(Now, f) => ~Upsets(ops[i], f),
         \A f \in Facts : Gives(script, Now, f) =>
            \/ Holds(f)' /\ \A i \in 1 .. Len(ops) : ~Upsets(ops[i], f)
            \/ \E k \in 1 .. Len(ops) :
                 /\ Gives(script, ops[k], f)
                 /\ \A i \in (k + 1) .. Len(ops) : ~Upsets(ops[i], f) /\ ~Looped(ops[i]),
         \A j \in 1 .. Len(ops) : ops[j].op # "ret",
         \A j \in 1 .. Len(ops) : \A f \in Facts : Needs(ops[j], f) =>
            /\ (Holds(f)' /\ Unspoilt(ops, j, f)) \/ Sourced(ops, j, f)
            /\ Looped(ops[j]) => ~Upsets(ops[j], f)
  PROVE  Supplied'
<1>1. PICK t, n : t = ops \o Tail(todo) /\ n = Len(ops)
  OBVIOUS
<1>2. /\ Row(t) /\ Len(t) = n + Len(todo) - 1
      /\ \A j \in 1 .. n : t[j] = ops[j]
      /\ \A j \in (n + 1) .. Len(t) : t[j] = todo[j + 1 - n]
  BY <1>1, PushAt DEF Becomes, Begun, Queue
<1>3. n \in Nat /\ Len(todo) \in Nat /\ Len(todo) > 0 /\ Len(t) \in Nat /\ todo' = t /\ Now = todo[1]
  BY <1>1, <1>2, RowFacts, HeadFacts DEF Becomes, Begun
<1>0. ASSUME NEW j \in 1 .. Len(t) PROVE t[j].op # "ret"
  <2>1. CASE j <= n
    <3>1. j \in 1 .. n
      BY <1>3, <2>1
    <3> QED BY <1>1, <1>2, <3>1
  <2>2. CASE j > n
    <3>1. j \in (n + 1) .. Len(t) /\ j + 1 - n \in 1 .. Len(todo)
      BY <1>2, <1>3, <2>2
    <3> QED BY <1>2, <3>1 DEF Supplied
  <2> QED BY <1>3, <2>1, <2>2
<1>4. SUFFICES ASSUME NEW j \in 1 .. Len(t), NEW f \in Facts, Needs(t[j], f)
               PROVE  /\ (Holds(f)' /\ Unspoilt(t, j, f)) \/ Sourced(t, j, f)
                      /\ Looped(t[j]) => ~Upsets(t[j], f)
  BY <1>3, <1>0, ScriptFacts DEF Supplied
<1>5. CASE j <= n
  <2>1. j \in 1 .. n /\ t[j] = ops[j] /\ \A i \in 1 .. j : t[i] = ops[i]
    BY <1>2, <1>3, <1>5
  <2>2. /\ (Holds(f)' /\ Unspoilt(ops, j, f)) \/ Sourced(ops, j, f)
        /\ Looped(ops[j]) => ~Upsets(ops[j], f)
    BY <1>1, <1>4, <2>1
  <2>3. Unspoilt(ops, j, f) => Unspoilt(t, j, f)
    BY <1>3, <2>1 DEF Unspoilt
  <2>4. ASSUME Sourced(ops, j, f) PROVE Sourced(t, j, f)
    <3>1. PICK k \in 1 .. (j - 1) : Source(ops, k, j, f)
      BY <2>4 DEF Sourced
    <3>2. k \in 1 .. j /\ (\A i \in (k + 1) .. j : i \in 1 .. j) /\ (\A i \in (k + 1) .. (j - 1) : i \in 1 .. j)
      BY <1>3, <2>1, <3>1
    <3>3. Source(t, k, j, f)
      BY <2>1, <3>1, <3>2 DEF Source
    <3> QED BY <3>1, <3>3 DEF Sourced
  <2> QED BY <2>1, <2>2, <2>3, <2>4
<1>6. CASE j > n
  <2>1. PICK l : l = j + 1 - n
    OBVIOUS
  <2>2. l \in 2 .. Len(todo) /\ t[j] = todo[l] /\ l \in 1 .. Len(todo)
    BY <1>2, <1>3, <1>6, <2>1
  <2>3. /\ (Holds(f) /\ Unspoilt(todo, l, f)) \/ Sourced(todo, l, f)
        /\ Looped(todo[l]) => ~Upsets(todo[l], f)
    BY <1>4, <2>2 DEF Supplied
  <2>4. ASSUME NEW i \in (n + 1) .. j
        PROVE  t[i] = todo[i + 1 - n] /\ i + 1 - n \in 2 .. l /\ (i < j => i + 1 - n < l)
    <3>1. i \in (n + 1) .. Len(t) /\ i \in Nat /\ j \in Nat
      BY <1>3
    <3>2. t[i] = todo[i + 1 - n]
      BY <1>2, <3>1
    <3>3. i + 1 - n \in 2 .. l /\ (i < j => i + 1 - n < l)
      BY <1>3, <2>1, <3>1
    <3> QED BY <3>2, <3>3
  <2>5. \A i \in 1 .. j : i \in 1 .. n \/ i \in (n + 1) .. j
    BY <1>3, <1>6
  <2>6. ASSUME Holds(f), Unspoilt(todo, l, f) PROVE Holds(f)' /\ Unspoilt(t, j, f)
    <3>1. \A m \in 1 .. Len(todo) : m < l => ~Upsets(todo[m], f)
      BY <2>2, <2>6 DEF Unspoilt
    <3>2. ~Upsets(Now, f)
      BY <1>3, <2>2, <3>1
    <3>3. Holds(f)' /\ \A i \in 1 .. n : ~Upsets(ops[i], f)
      BY <1>1, <2>6, <3>2
    <3>4. ASSUME NEW i \in 1 .. (j - 1) PROVE ~Upsets(t[i], f)
      <4>1. CASE i \in 1 .. n
        BY <1>2, <3>3, <4>1
      <4>2. CASE i \in (n + 1) .. j
        <5>1. i < j
          BY <1>3, <3>4
        <5>2. t[i] = todo[i + 1 - n] /\ i + 1 - n \in 2 .. l /\ i + 1 - n < l
          BY <2>4, <4>2, <5>1
        <5>3. i + 1 - n \in 1 .. Len(todo)
          BY <2>2, <5>2
        <5> QED BY <3>1, <5>2, <5>3
      <4>3. i \in 1 .. j
        BY <1>3, <3>4
      <4> QED BY <2>5, <4>1, <4>2, <4>3
    <3> QED BY <3>3, <3>4 DEF Unspoilt
  <2>7. ASSUME Sourced(todo, l, f) PROVE (Holds(f)' /\ Unspoilt(t, j, f)) \/ Sourced(t, j, f)
    <3>1. PICK k \in 1 .. (l - 1) : Source(todo, k, l, f)
      BY <2>7 DEF Sourced
    <3>2. /\ \A m \in 1 .. Len(todo) : k < m /\ m < l => ~Upsets(todo[m], f)
          /\ \A m \in 1 .. Len(todo) : k < m /\ m <= l => ~Looped(todo[m])
      BY <2>2, <3>1 DEF Source
    <3>3. CASE k > 1
      <4>1. PICK h : h = k - 1 + n
        OBVIOUS
      <4>2. h \in 1 .. (j - 1) /\ h \in (n + 1) .. j /\ h + 1 - n = k
        BY <1>3, <2>1, <2>2, <3>1, <3>3, <4>1
      <4>3. Gives(script, t[h], f)
        BY <2>4, <3>1, <4>2 DEF Source
      <4>4. ASSUME NEW i \in (h + 1) .. j PROVE ~Looped(t[i]) /\ (i < j => ~Upsets(t[i], f))
        <5>1. i \in (n + 1) .. j /\ k < i + 1 - n
          BY <1>3, <3>3, <4>1, <4>4
        <5> QED BY <2>2, <2>4, <3>2, <5>1
      <4>5. Source(t, h, j, f)
        BY <1>3, <4>2, <4>3, <4>4 DEF Source
      <4> QED BY <4>2, <4>5 DEF Sourced
    <3>4. CASE k = 1
      <4>1. Gives(script, Now, f)
        BY <1>3, <3>1, <3>4 DEF Source
      <4>2. CASE Holds(f)' /\ \A i \in 1 .. n : ~Upsets(ops[i], f)
        <5>1. ASSUME NEW i \in 1 .. (j - 1) PROVE ~Upsets(t[i], f)
          <6>1. CASE i \in 1 .. n
            BY <1>2, <4>2, <6>1
          <6>2. CASE i \in (n + 1) .. j
            BY <2>2, <2>4, <3>2, <3>4, <5>1, <6>2
          <6> QED BY <1>3, <2>5, <6>1, <6>2
        <5> QED BY <4>2, <5>1 DEF Unspoilt
      <4>3. CASE \E h \in 1 .. n : /\ Gives(script, ops[h], f)
                                   /\ \A i \in (h + 1) .. n : ~Upsets(ops[i], f) /\ ~Looped(ops[i])
        <5>1. PICK h \in 1 .. n : /\ Gives(script, ops[h], f)
                                  /\ \A i \in (h + 1) .. n : ~Upsets(ops[i], f) /\ ~Looped(ops[i])
          BY <4>3
        <5>2. h \in 1 .. (j - 1) /\ Gives(script, t[h], f)
          BY <1>2, <1>3, <1>6, <5>1
        <5>3. ASSUME NEW i \in (h + 1) .. j PROVE ~Looped(t[i]) /\ (i < j => ~Upsets(t[i], f))
          <6>1. CASE i \in 1 .. n
            BY <1>2, <5>1, <5>3, <6>1
          <6>2. CASE i \in (n + 1) .. j
            BY <2>2, <2>4, <3>2, <3>4, <6>2
          <6> QED BY <1>3, <2>5, <5>1, <5>3, <6>1, <6>2
        <5>4. Source(t, h, j, f)
          BY <1>3, <5>2, <5>3 DEF Source
        <5> QED BY <5>2, <5>4 DEF Sourced
      <4> QED BY <1>1, <4>1, <4>2, <4>3
    <3> QED BY <2>2, <3>1, <3>3, <3>4
  <2> QED BY <2>2, <2>3, <2>6, <2>7
<1> QED BY <1>3, <1>5, <1>6

(* What is left behind the end of a loop, or of an examination.                *)
LEMMA SupplySkip ==
  ASSUME Begun, Supplied, script' = script, NEW k \in 2 .. Len(todo) + 1, todo' = From(k),
         \A f \in Facts : Holds(f) => Holds(f)',
         \A i \in 1 .. (k - 1) : \/ \A f \in Facts : ~Gives(script, todo[i], f)
                                 \/ \E m \in 1 .. Len(todo) : i < m /\ m <= k /\ Looped(todo[m])
  PROVE  Supplied'
<1>1. PICK t : t = SubSeq(todo, k, Len(todo))
  OBVIOUS
<1>2. Len(t) = Len(todo) + 1 - k /\ (\A j \in 1 .. Len(t) : t[j] = todo[j + k - 1]) /\ todo' = t
      /\ Len(todo) \in Nat /\ Len(t) \in Nat
  BY <1>1, SkipAt, RowFacts DEF Begun, Queue, From
<1>0. ASSUME NEW j \in 1 .. Len(t) PROVE t[j].op # "ret"
  <2>1. j + k - 1 \in 1 .. Len(todo)
    BY <1>2
  <2> QED BY <1>2, <2>1 DEF Supplied
<1>3. SUFFICES ASSUME NEW j \in 1 .. Len(t), NEW f \in Facts, Needs(t[j], f)
               PROVE  /\ (Holds(f)' /\ Unspoilt(t, j, f)) \/ Sourced(t, j, f)
                      /\ Looped(t[j]) => ~Upsets(t[j], f)
  BY <1>2, <1>0, ScriptFacts DEF Supplied
<1>4. PICK l : l = j + k - 1
  OBVIOUS
<1>5. l \in 1 .. Len(todo) /\ t[j] = todo[l] /\ l >= k
  BY <1>2, <1>4
<1>6. /\ (Holds(f) /\ Unspoilt(todo, l, f)) \/ Sourced(todo, l, f)
      /\ Looped(todo[l]) => ~Upsets(todo[l], f)
  BY <1>3, <1>5 DEF Supplied
<1>7. \A i \in 1 .. j : t[i] = todo[i + k - 1] /\ i + k - 1 \in k .. l /\ (i < j => i + k - 1 < l)
  BY <1>2, <1>4
<1>8. Unspoilt(todo, l, f) => Unspoilt(t, j, f)
  BY <1>2, <1>5, <1>7 DEF Unspoilt
<1>9. ASSUME Sourced(todo, l, f) PROVE Sourced(t, j, f)
  <2>1. PICK h \in 1 .. (l - 1) : Source(todo, h, l, f)
    BY <1>9 DEF Sourced
  <2>2. /\ \A m \in 1 .. Len(todo) : h < m /\ m < l => ~Upsets(todo[m], f)
        /\ \A m \in 1 .. Len(todo) : h < m /\ m <= l => ~Looped(todo[m])
        /\ Gives(script, todo[h], f)
    BY <1>5, <2>1 DEF Source
  <2>3. h >= k
    <3>1. SUFFICES ASSUME h < k PROVE FALSE
      BY <1>2, <2>1
    <3>2. h \in 1 .. (k - 1)
      BY <1>2, <2>1, <3>1
    <3>3. PICK m \in 1 .. Len(todo) : h < m /\ m <= k /\ Looped(todo[m])
      BY <2>2, <3>2
    <3> QED BY <1>2, <1>5, <2>2, <3>3
  <2>4. PICK g : g = h + 1 - k
    OBVIOUS
  <2>5. g \in 1 .. (j - 1) /\ g \in 1 .. j /\ g + k - 1 = h
    BY <1>2, <1>4, <1>5, <2>1, <2>3, <2>4
  <2>6. ASSUME NEW i \in (g + 1) .. j PROVE ~Looped(t[i]) /\ (i < j => ~Upsets(t[i], f))
    <3>1. i \in 1 .. j /\ h < i + k - 1 /\ i + k - 1 \in 1 .. Len(todo)
      BY <1>2, <1>4, <1>5, <2>5, <2>6
    <3> QED BY <1>2, <1>5, <1>7, <2>2, <3>1
  <2>7. Gives(script, t[g], f)
    BY <1>7, <2>2, <2>5
  <2>8. Source(t, g, j, f)
    <3>1. \A i \in (g + 1) .. (j - 1) : i \in (g + 1) .. j /\ i < j
      BY <1>2, <2>5
    <3> QED BY <2>6, <2>7, <3>1 DEF Source
  <2> QED BY <2>5, <2>8 DEF Sourced
<1> QED BY <1>3, <1>5, <1>6, <1>8, <1>9

-----------------------------------------------------------------------------
(* What each fact says.                                                        *)
PlayOf(s) == IF s = "own" THEN "own play" ELSE "foe play"

LEMMA FactKinds ==
  ASSUME NEW f \in Facts
  PROVE  \/ \E s \in Sides : f = Is(s)
         \/ \E v \in Vars : f = Is(v) /\ f \in Held
         \/ \E s \in Sides : f = Is(BenchOf(s)) \/ f = Is(PlayOf(s))
         \/ \E v \in Vars, s \in Sides : f = Aboard(v, s)
<1>1. \A p \in Listing : \E s \in Sides : p = BenchOf(s) \/ p = PlayOf(s)
  BY DEF Listing, Sides, BenchOf, PlayOf
<1> QED BY <1>1 DEF Facts, Held

LEMMA FactsApart ==
  /\ \A x, y : Is(x) = Is(y) => x = y
  /\ \A x, v, s : Is(x) # Aboard(v, s)
  /\ \A v, w, s, r : Aboard(v, s) = Aboard(w, r) => v = w /\ s = r
  /\ \A f \in Held : \E v \in Vars : f = Is(v)
  /\ Sides \cap Vars = {} /\ Sides \cap Listing = {} /\ Vars \cap Listing = {}
  /\ \A s \in Sides : BenchOf(s) \in Listing /\ PlayOf(s) \in Listing
<1>1. \A x, y : Is(x) = Is(y) => x = y
  BY DEF Is
<1>2. \A x, v, s : Is(x) # Aboard(v, s)
  BY DEF Is, Aboard
<1>3. \A v, w, s, r : Aboard(v, s) = Aboard(w, r) => v = w /\ s = r
  BY DEF Aboard
<1>4. \A f \in Held : \E v \in Vars : f = Is(v)
  BY DEF Held
<1>5. Sides \cap Vars = {} /\ Sides \cap Listing = {} /\ Vars \cap Listing = {}
      /\ \A s \in Sides : BenchOf(s) \in Listing /\ PlayOf(s) \in Listing
  BY DEF Sides, Vars, Listing, BenchOf, PlayOf
<1> QED BY <1>1, <1>2, <1>3, <1>4, <1>5

LEMMA HoldsOf ==
  /\ \A x \in Sides \cup Vars \cup Listing : Holds(Is(x)) <=> Fact(x)
  /\ \A v \in Vars, s \in Sides : Holds(Aboard(v, s)) <=> vals[v] \in Benched(s) \cup {None}
<1>1. \A x \in Sides \cup Vars \cup Listing : Holds(Is(x)) <=> Fact(x)
  BY FactsApart DEF Holds
<1>2. \A v \in Vars, s \in Sides : Holds(Aboard(v, s)) <=> vals[v] \in Benched(s) \cup {None}
  BY FactsApart DEF Holds
<1> QED BY <1>1, <1>2

LEMMA FactOf ==
  ASSUME TypeOK
  PROVE  /\ \A s \in Sides : Fact(s) <=> active[s] # None
         /\ \A v \in Vars : Fact(v) <=> vals[v] # None
         /\ \A s \in Sides : Fact(BenchOf(s)) <=> bench[s] # <<>>
         /\ \A s \in Sides : Fact(PlayOf(s)) <=> active[s] # None \/ bench[s] # <<>>
<1>1. \A x \in Sides \cup Vars : Fact(x) <=> Value(x) # None
  <2>1. "over" \notin Sides \cup Vars
    BY DEF Sides, Vars
  <2>2. ASSUME NEW x \in Sides \cup Vars PROVE Fact(x) <=> Value(x) # None
    <3>1. x # "over" /\ x \in Sides \cup Vars
      BY <2>1
    <3> QED BY <3>1 DEF Fact
  <2> QED BY <2>2
<1>2. (\A s \in Sides : Value(s) = active[s]) /\ \A v \in Vars : Value(v) = vals[v]
  BY FactsApart DEF Value
<1>3. \A s \in Sides : Fact(s) <=> active[s] # None
  BY <1>1, <1>2
<1>4. \A v \in Vars : Fact(v) <=> vals[v] # None
  BY <1>1, <1>2
<1>5. \A p \in Listing : p \notin Sides \cup Vars /\ p # "over" /\ (Fact(p) <=> Pool(p) # <<>>)
  <2>1. \A p \in Listing : p \notin Sides \cup Vars /\ p # "over"
    BY FactsApart DEF Listing
  <2> QED BY <2>1 DEF Fact
<1>6. ASSUME NEW s \in Sides PROVE Pool(BenchOf(s)) = bench[s] /\ Pool(PlayOf(s)) = PlayList(s)
  <2>1. s = "own" \/ s = "foe"
    BY DEF Sides
  <2>2. /\ Pool("own bench") = bench["own"] /\ Pool("foe bench") = bench["foe"]
        /\ Pool("own play") = PlayList("own") /\ Pool("foe play") = PlayList("foe")
    <3>1. Pool("own bench") = bench["own"]
      BY DEF Pool, Lists
    <3>2. Pool("foe bench") = bench["foe"]
      BY DEF Pool, Lists
    <3>3. Pool("own play") = PlayList("own")
      BY DEF Pool, Lists
    <3>4. Pool("foe play") = PlayList("foe")
      BY DEF Pool, Lists
    <3> QED BY <3>1, <3>2, <3>3, <3>4
  <2>3. /\ BenchOf("own") = "own bench" /\ BenchOf("foe") = "foe bench"
        /\ PlayOf("own") = "own play" /\ PlayOf("foe") = "foe play"
    BY DEF BenchOf, PlayOf
  <2> QED BY <2>1, <2>2, <2>3
<1>7. ASSUME NEW s \in Sides PROVE PlayList(s) # <<>> <=> active[s] # None \/ bench[s] # <<>>
  <2>1. bench[s] \in Seq(Mons) /\ active[s] \in Mons \cup {None}
    BY <1>7 DEF TypeOK
  <2>2. CASE active[s] = None
    <3>1. PlayList(s) = bench[s]
      BY <2>1, <2>2 DEF PlayList, ActiveList
    <3> QED BY <2>2, <3>1
  <2>3. CASE active[s] # None
    <3>1. Len(PlayList(s)) = 1 + Len(bench[s])
      BY <2>1, <2>3 DEF PlayList, ActiveList
    <3>2. Len(bench[s]) \in Nat /\ Len(<<>>) = 0
      BY <2>1
    <3> QED BY <2>3, <3>1, <3>2
  <2> QED BY <2>2, <2>3
<1> QED BY <1>3, <1>4, <1>5, <1>6, <1>7, FactsApart

(* The facts, state by state.                                                  *)
FactTable ==
    /\ \A s \in Sides : Holds(Is(s)) <=> active[s] # None
    /\ \A v \in Vars : Holds(Is(v)) <=> vals[v] # None
    /\ \A s \in Sides : Holds(Is(BenchOf(s))) <=> bench[s] # <<>>
    /\ \A s \in Sides : Holds(Is(PlayOf(s))) <=> active[s] # None \/ bench[s] # <<>>
    /\ \A v \in Vars, s \in Sides : Holds(Aboard(v, s)) <=> vals[v] \in Benched(s) \cup {None}

LEMMA HoldsIs == TypeOK => FactTable
  BY HoldsOf, FactOf, FactsApart DEF FactTable

LEMMA HoldsNext == TypeOK' => FactTable'
  BY HoldsIs, PTL

(* What is kept where nothing, or only more, is in play.                        *)
LEMMA HoldsGrow ==
  ASSUME TypeOK, TypeOK', active' = active, vals' = vals,
         \A s \in Sides : Benched(s) \subseteq Benched(s)' /\ (bench[s] # <<>> => bench'[s] # <<>>),
         NEW f \in Facts, Holds(f)
  PROVE  Holds(f)'
  BY FactKinds, HoldsIs, HoldsNext DEF FactTable

LEMMA HoldsSame ==
  ASSUME TypeOK, TypeOK', UNCHANGED <<active, bench, vals>>, NEW f \in Facts
  PROVE  Holds(f)' <=> Holds(f)
<1>1. \A s : Benched(s)' = Benched(s)
  BY DEF Benched
<1> QED BY <1>1, FactKinds, HoldsIs, HoldsNext DEF FactTable

LEMMA HeldStays ==
  ASSUME TypeOK, TypeOK', vals' = vals, NEW f \in Held
  PROVE  Holds(f)' <=> Holds(f)
  BY FactsApart, HoldsIs, HoldsNext DEF FactTable

LEMMA HoldsSet ==
  ASSUME TypeOK, TypeOK', UNCHANGED <<active, bench>>, NEW x, NEW m, vals' = [vals EXCEPT ![x] = m],
         NEW f \in Facts
  PROVE  /\ f \notin Held \cap {Is(x)} /\ (\A s \in Sides : f # Aboard(x, s)) => (Holds(f)' <=> Holds(f))
         /\ f \in Held \cap {Is(x)} => (Holds(f)' <=> m # None)
         /\ \A s \in Sides : f = Aboard(x, s) => (Holds(f)' <=> m \in Benched(s) \cup {None})
<1>1. \A s : Benched(s)' = Benched(s)
  BY DEF Benched
<1>2. \A v \in Vars : vals'[v] = IF v = x THEN m ELSE vals[v]
  BY DEF TypeOK
<1>3. ASSUME f \in Held \cap {Is(x)} PROVE Holds(f)' <=> m # None
  <2>1. x \in Vars /\ f = Is(x)
    BY <1>3, FactsApart
  <2> QED BY <1>2, <2>1, HoldsNext DEF FactTable
<1>4. ASSUME NEW s \in Sides, f = Aboard(x, s) PROVE Holds(f)' <=> m \in Benched(s) \cup {None}
  <2>1. x \in Vars
    BY <1>4, FactKinds, FactsApart
  <2> QED BY <1>1, <1>2, <1>4, <2>1, HoldsNext DEF FactTable
<1>5. ASSUME f \notin Held \cap {Is(x)}, \A s \in Sides : f # Aboard(x, s) PROVE Holds(f)' <=> Holds(f)
  <2>1. CASE \E s \in Sides : f = Is(s)
    BY <2>1, HoldsIs, HoldsNext DEF FactTable
  <2>2. CASE \E s \in Sides : f = Is(BenchOf(s)) \/ f = Is(PlayOf(s))
    BY <2>2, HoldsIs, HoldsNext DEF FactTable
  <2>3. CASE \E v \in Vars : f = Is(v) /\ f \in Held
    <3>1. PICK v \in Vars : f = Is(v) /\ f \in Held
      BY <2>3
    <3>2. vals'[v] = vals[v]
      BY <1>2, <1>5, <3>1
    <3> QED BY <3>1, <3>2, HoldsIs, HoldsNext DEF FactTable
  <2>4. CASE \E v \in Vars, s \in Sides : f = Aboard(v, s)
    <3>1. PICK v \in Vars, s \in Sides : f = Aboard(v, s)
      BY <2>4
    <3>2. vals'[v] = vals[v]
      BY <1>2, <1>5, <3>1
    <3> QED BY <1>1, <3>1, <3>2, HoldsIs, HoldsNext DEF FactTable
  <2> QED BY <2>1, <2>2, <2>3, <2>4, FactKinds
<1> QED BY <1>3, <1>4, <1>5

-----------------------------------------------------------------------------
(* The words of the work under way.                                            *)
LEMMA SpoilFacts ==
  ASSUME NEW sc, Careful(sc), NEW f \in Facts
  PROVE  /\ Spoiling(sc, f) \subseteq Ops(sc)
         /\ \A o \in Ops(sc) : Spoils(o, f) => o \in Spoiling(sc, f)
         /\ \A o \in Ops(sc) : \A b \in Bodies(o) : Range(b) \cap Spoiling(sc, f) # {} => o \in Spoiling(sc, f)
<1>1. \A E : E \subseteq Holding(sc, E) /\ (E \subseteq Ops(sc) => Holding(sc, E) \subseteq Ops(sc))
  BY DEF Holding
<1> DEFINE E == {x \in Ops(sc) : Spoils(x, f)}
<1>2. E \subseteq Spoiling(sc, f) /\ Spoiling(sc, f) \subseteq Ops(sc)
  <2>1. E \subseteq Ops(sc)
    OBVIOUS
  <2>2. Spoiling(sc, f) = Holding(sc, Holding(sc, Holding(sc, Holding(sc, E))))
    BY DEF Spoiling
  <2> HIDE DEF E
  <2> QED BY <1>1, <2>1, <2>2
<1>3. \A o \in Ops(sc) : \A b \in Bodies(o) :
         Range(b) \cap Spoiling(sc, f) # {} => o \in Holding(sc, Spoiling(sc, f))
  BY DEF Holding
<1>4. Holding(sc, Spoiling(sc, f)) = Spoiling(sc, f)
  BY DEF Careful
<1> QED BY <1>2, <1>3, <1>4

LEMMA OwnWords ==
  ASSUME Careful(script), NEW o \in Ops(script)
  PROVE  /\ ~Looped(o) /\ ~Internal(o) /\ o.op # "ret"
         /\ \A f \in Facts : (Needs(o, f) <=> Lacks(o, f, Wants(script, f)))
                             /\ (Upsets(o, f) <=> o \in Spoiling(script, f))
<1>1. o.op \in Vocabulary
  BY DEF Careful, Orderly
<1>2. Vocabulary \cap (Internals \cup {"again", "next", "ret"}) = {}
  BY DEF Internals, Vocabulary, Controlling, Assigning, Touching, Sparing, Lowering, Knocking,
         Shifting, Moving, Awarding
<1>3. o.op \notin Internals \cup {"again", "next", "ret"}
  BY <1>1, <1>2
<1> QED BY <1>3 DEF Looped, Internal, Needs, Upsets

LEMMA Unsettled ==
  ASSUME NEW o, o.op \notin {"If", "Quit", "Break", "Continue", "Choose", "Bind", "Maybe", "Swap"}
  PROVE  \A f : ~Gives(script, o, f)
  BY DEF Gives, Settles

LEMMA InnerWords ==
  ASSUME Careful(script), NEW o, Internal(o)
  PROVE  /\ ~Looped(o) /\ o.op # "ret" /\ o.op \notin {"again", "next"}
         /\ \A f \in Facts : ~Needs(o, f) /\ ~Gives(script, o, f) /\ (Upsets(o, f) <=> f \notin Held)
<1>1. Vocabulary \cap Internals = {} /\ {"again", "next", "ret"} \cap Internals = {}
      /\ OnPokemon \cup {"Bind", "Choose", "If", "IfSame", "While", "Each", "Quit", "Break", "Continue", "Maybe", "Swap", "Remove"}
           \subseteq Vocabulary
  BY DEF Internals, Vocabulary, Controlling, Assigning, Touching, Sparing, Lowering, Knocking,
         Shifting, Moving, Awarding, OnPokemon
<1>2. o.op \notin Vocabulary /\ o.op \notin {"again", "next", "ret"}
  BY <1>1 DEF Internal
<1>3. o \notin Ops(script)
  BY <1>2 DEF Careful, Orderly
<1>4. ASSUME NEW f \in Facts PROVE ~Needs(o, f) /\ (Upsets(o, f) <=> f \notin Held)
  <2>1. o \notin Spoiling(script, f)
    BY <1>3, SpoilFacts
  <2>2. Upsets(o, f) <=> f \notin Held
    BY <1>2, <2>1 DEF Upsets, Looped
  <2>3. ~Lacks(o, f, Wants(script, f))
    BY <1>1, <1>2 DEF Lacks, Requires
  <2> QED BY <1>2, <2>2, <2>3 DEF Needs
<1>5. \A f : ~Gives(script, o, f)
  BY <1>1, <1>2, Unsettled
<1> QED BY <1>2, <1>4, <1>5 DEF Looped

LEMMA LoopWords ==
  ASSUME Careful(script), NEW o, Looped(o)
  PROVE  /\ o.op # "ret"
         /\ \A f \in Facts :
              /\ ~Gives(script, o, f)
              /\ Needs(o, f) <=> \/ o.op = "again" /\ o.body \in Wants(script, f) /\ ~Assumed(o.cond, f)
                                 \/ o.op = "next" /\ o.body \in Wants(script, f) /\ f \notin Held \cap {Is(o.var)}
              /\ Upsets(o, f) <=> \/ Range(o.body) \cap Spoiling(script, f) # {}
                                  \/ o.op = "next" /\ \E s \in Sides : f = Aboard(o.var, s)
<1>1. {"again", "next"} \cap (Vocabulary \cup Internals) = {}
      /\ OnPokemon \cup {"Bind", "Choose", "If", "IfSame", "While", "Each", "Quit", "Break", "Continue", "Maybe", "Swap", "Remove"}
           \subseteq Vocabulary
  BY DEF Internals, Vocabulary, Controlling, Assigning, Touching, Sparing, Lowering, Knocking,
         Shifting, Moving, Awarding, OnPokemon
<1>2. o.op \notin Vocabulary /\ ~Internal(o) /\ o.op # "ret"
  BY <1>1 DEF Internal, Looped
<1>3. o \notin Ops(script)
  BY <1>2 DEF Careful, Orderly
<1>4. \A f : ~Gives(script, o, f)
  BY <1>1, <1>2, Unsettled
<1>5. ASSUME NEW f \in Facts
      PROVE  /\ Needs(o, f) <=> \/ o.op = "again" /\ o.body \in Wants(script, f) /\ ~Assumed(o.cond, f)
                                \/ o.op = "next" /\ o.body \in Wants(script, f) /\ f \notin Held \cap {Is(o.var)}
             /\ Upsets(o, f) <=> \/ Range(o.body) \cap Spoiling(script, f) # {}
                                 \/ o.op = "next" /\ \E s \in Sides : f = Aboard(o.var, s)
  <2>1. o \notin Spoiling(script, f)
    BY <1>3, SpoilFacts
  <2>2. ~Lacks(o, f, Wants(script, f))
    BY <1>1, <1>2 DEF Lacks, Requires
  <2>3. Needs(o, f) <=> \/ o.op = "again" /\ o.body \in Wants(script, f) /\ ~Assumed(o.cond, f)
                        \/ o.op = "next" /\ o.body \in Wants(script, f) /\ f \notin Held \cap {Is(o.var)}
    BY <2>2 DEF Needs
  <2>4. Upsets(o, f) <=> \/ Range(o.body) \cap Spoiling(script, f) # {}
                         \/ o.op = "next" /\ \E s \in Sides : f = Aboard(o.var, s)
    BY <1>2, <2>1 DEF Upsets
  <2> QED BY <2>3, <2>4
<1> QED BY <1>2, <1>4, <1>5

(* A block of the script has what its steps need, but for what it wants at its  *)
(* start.                                                                      *)
LEMMA BlockSupplied ==
  ASSUME Careful(script), NEW b \in Blocks(script), NEW j \in 1 .. Len(b), NEW f \in Facts, Needs(b[j], f)
  PROVE  (b \in Wants(script, f) /\ Unspoilt(b, j, f)) \/ Sourced(b, j, f)
<1>1. Row(b) /\ \A i \in 1 .. Len(b) : b[i] \in Ops(script)
  BY BlockRow DEF Careful
<1>2. Len(b) \in Nat /\ \A i \in 1 .. j : i \in 1 .. Len(b)
  BY <1>1, RowFacts
<1>3. /\ Lacks(b[j], f, Wants(script, f))
      /\ \A i \in 1 .. j : ~Looped(b[i]) /\ (Upsets(b[i], f) <=> b[i] \in Spoiling(script, f))
  BY <1>1, <1>2, OwnWords
<1>4. CASE Given(script, b, j, f)
  <2>1. PICK k \in 1 .. (j - 1) :
           Gives(script, b[k], f) /\ \A i \in (k + 1) .. (j - 1) : b[i] \notin Spoiling(script, f)
    BY <1>4 DEF Given
  <2>2. (\A i \in (k + 1) .. j : i \in 1 .. j) /\ (\A i \in (k + 1) .. (j - 1) : i \in 1 .. j)
    BY <1>2, <2>1
  <2>3. Source(b, k, j, f)
    BY <1>3, <2>1, <2>2 DEF Source
  <2> QED BY <2>1, <2>3 DEF Sourced
<1>5. CASE ~Given(script, b, j, f)
  <2>1. b \in Wanting(script, f, Wants(script, f))
    BY <1>3, <1>5 DEF Wanting
  <2>2. Wanting(script, f, Wants(script, f)) = Wants(script, f)
    BY DEF Careful
  <2>3. \A i \in 1 .. (j - 1) : b[i] \notin Spoiling(script, f)
    BY <1>3, <1>5 DEF Careful
  <2>4. \A i \in 1 .. (j - 1) : i \in 1 .. j
    BY <1>2
  <2> QED BY <1>3, <2>1, <2>2, <2>3, <2>4 DEF Unspoilt
<1> QED BY <1>4, <1>5

(* What a row has within its first n, it has when more follows.                *)
LEMMA Prefix ==
  ASSUME NEW s, NEW t, NEW n \in Nat, \A i \in 1 .. n : t[i] = s[i], NEW j \in 1 .. n, NEW f
  PROVE  (Unspoilt(s, j, f) => Unspoilt(t, j, f)) /\ (Sourced(s, j, f) => Sourced(t, j, f))
<1>1. \A i \in 1 .. j : t[i] = s[i]
  OBVIOUS
<1>2. Unspoilt(s, j, f) => Unspoilt(t, j, f)
  BY <1>1 DEF Unspoilt
<1>3. ASSUME Sourced(s, j, f) PROVE Sourced(t, j, f)
  <2>1. PICK k \in 1 .. (j - 1) : Source(s, k, j, f)
    BY <1>3 DEF Sourced
  <2>2. k \in 1 .. j /\ (\A i \in (k + 1) .. j : i \in 1 .. j) /\ (\A i \in (k + 1) .. (j - 1) : i \in 1 .. j)
    BY <2>1
  <2>3. Source(t, k, j, f)
    BY <1>1, <2>1, <2>2 DEF Source
  <2> QED BY <2>1, <2>3 DEF Sourced
<1> QED BY <1>2, <1>3

(* What the next step needs is there.                                          *)
LEMMA NowSupplied ==
  ASSUME Begun, Supplied, todo # <<>>, NEW f \in Facts, Needs(Now, f)
  PROVE  Holds(f) /\ (Looped(Now) => ~Upsets(Now, f))
<1>1. Now = todo[1] /\ 1 \in 1 .. Len(todo)
  BY HeadFacts DEF Begun
<1>2. /\ (Holds(f) /\ Unspoilt(todo, 1, f)) \/ Sourced(todo, 1, f)
      /\ Looped(Now) => ~Upsets(Now, f)
  BY <1>1 DEF Supplied
<1>3. 1 .. (1 - 1) = {}
  OBVIOUS
<1> QED BY <1>2, <1>3 DEF Sourced

-----------------------------------------------------------------------------
(* Steps with the kinds of work they put in the place of the first.             *)
LEMMA SupplyOnward ==
  ASSUME Begun, Supplied, script' = script, todo # <<>>, Onward,
         \A f \in Facts : Holds(f) /\ ~Upsets(Now, f) => Holds(f)',
         \A f \in Facts : Gives(script, Now, f) => Holds(f)'
  PROVE  Supplied'
<1>1. PICK ops : ops = <<>>
  OBVIOUS
<1>2. Becomes(ops) /\ Row(ops) /\ 1 .. Len(ops) = {}
  <2>1. Becomes(<<>>)
    BY OnwardIs DEF Begun
  <2>2. Row(<<>>) /\ Len(<<>>) = 0 /\ 1 .. 0 = {}
    BY RowNone
  <2> QED BY <1>1, <2>1, <2>2
<1> QED BY <1>2, SupplyPush

LEMMA SupplyChain ==
  ASSUME Begun, Careful(script), Supplied, script' = script, NEW ops, Becomes(ops), Chain(ops),
         \A f \in Facts : ~Gives(script, Now, f) /\ (f \notin Held => Upsets(Now, f)),
         \A f \in Facts : Holds(f) /\ ~Upsets(Now, f) => Holds(f)'
  PROVE  Supplied'
<1>1. Row(ops) /\ \A i \in 1 .. Len(ops) : Internal(ops[i])
  BY InnerInternal DEF Chain
<1>2. \A i \in 1 .. Len(ops) : /\ ~Looped(ops[i]) /\ ops[i].op # "ret"
                               /\ \A f \in Facts : ~Needs(ops[i], f) /\ (Upsets(ops[i], f) <=> f \notin Held)
  BY <1>1, InnerWords
<1> QED BY <1>1, <1>2, SupplyPush

(* One of its bodies.                                                          *)
LEMMA SupplyBlock ==
  ASSUME Begun, Careful(script), Supplied, script' = script, todo # <<>>, Now \in Ops(script),
         NEW b \in Bodies(Now), todo' = b \o Rest,
         \A f \in Facts : Holds(f)' <=> Holds(f),
         \A f \in Facts : b \in Wants(script, f) => Holds(f),
         \A f \in Facts : Gives(script, Now, f) =>
            Ensures(script, b, f) \/ (Holds(f) /\ Range(b) \cap Spoiling(script, f) = {})
  PROVE  Supplied'
<1>1. b \in Blocks(script) /\ Becomes(b)
  BY BodyIsBlock DEF Begun, Becomes, Rest
<1>2. Row(b) /\ \A i \in 1 .. Len(b) : b[i] \in Ops(script)
  BY <1>1, BlockRow DEF Careful
<1>3. \A i \in 1 .. Len(b) : /\ b[i].op # "ret" /\ ~Looped(b[i]) /\ b[i] \in Range(b)
                             /\ \A f \in Facts : Upsets(b[i], f) <=> b[i] \in Spoiling(script, f)
  BY <1>2, OwnWords, RowFacts DEF Range
<1>4. \A f \in Facts : ~Upsets(Now, f) => \A i \in 1 .. Len(b) : ~Upsets(b[i], f)
  <2>1. \A f \in Facts : ~Upsets(Now, f) => Range(b) \cap Spoiling(script, f) = {}
    BY OwnWords, SpoilFacts
  <2> QED BY <1>3, <2>1
<1>5. ASSUME NEW f \in Facts, Gives(script, Now, f)
      PROVE  \/ Holds(f)' /\ \A i \in 1 .. Len(b) : ~Upsets(b[i], f)
             \/ \E k \in 1 .. Len(b) :
                 /\ Gives(script, b[k], f)
                 /\ \A i \in (k + 1) .. Len(b) : ~Upsets(b[i], f) /\ ~Looped(b[i])
  <2>1. CASE Ensures(script, b, f)
    <3>1. PICK k \in 1 .. Len(b) : Settles(b[k], f) /\ \A i \in (k + 1) .. Len(b) : b[i] \notin Spoiling(script, f)
      BY <2>1 DEF Ensures
    <3>2. \A i \in (k + 1) .. Len(b) : i \in 1 .. Len(b)
      BY <1>2, RowFacts
    <3> QED BY <1>3, <3>1, <3>2 DEF Gives
  <2>2. CASE Holds(f) /\ Range(b) \cap Spoiling(script, f) = {}
    BY <1>3, <2>2
  <2> QED BY <1>5, <2>1, <2>2
<1>6. \A j \in 1 .. Len(b) : \A f \in Facts : Needs(b[j], f) =>
        /\ (Holds(f)' /\ Unspoilt(b, j, f)) \/ Sourced(b, j, f)
        /\ Looped(b[j]) => ~Upsets(b[j], f)
  BY <1>1, <1>3, BlockSupplied
<1> QED BY <1>1, <1>2, <1>3, <1>4, <1>5, <1>6, SupplyPush

(* A round of a loop.                                                          *)
LEMMA SupplyRound ==
  ASSUME Begun, Careful(script), Supplied, script' = script, todo # <<>>,
         NEW b \in Blocks(script), NEW o, Looped(o), o.body = b, todo' = (b \o <<o>>) \o Rest,
         \A f \in Facts : Holds(f) /\ ~Upsets(Now, f) => Holds(f)',
         \A f \in Facts : ~Upsets(Now, f) => ~Upsets(o, f),
         \A f \in Facts : ~Gives(script, Now, f),
         \A f \in Facts : b \in Wants(script, f) => Holds(f)',
         \A f \in Facts : Needs(o, f) => Holds(f)' /\ ~Upsets(o, f)
  PROVE  Supplied'
<1>1. PICK t, n : t = b \o <<o>> /\ n = Len(b)
  OBVIOUS
<1>2. Row(b) /\ \A i \in 1 .. n : b[i] \in Ops(script)
  BY <1>1, BlockRow DEF Careful
<1>3. Row(t) /\ Len(t) = n + 1 /\ t[n + 1] = o /\ (\A i \in 1 .. n : t[i] = b[i]) /\ n \in Nat
  BY <1>1, <1>2, RowMore, RowFacts
<1>4. \A i \in 1 .. n : /\ b[i].op # "ret" /\ ~Looped(b[i]) /\ b[i] \in Range(b)
                        /\ \A f \in Facts : Upsets(b[i], f) <=> b[i] \in Spoiling(script, f)
  BY <1>1, <1>2, OwnWords, RowFacts DEF Range
<1>5. \A i \in 1 .. Len(t) : i \in 1 .. n \/ (i = n + 1 /\ t[i] = o)
  BY <1>3
<1>6. \A f \in Facts : ~Upsets(o, f) => \A i \in 1 .. Len(t) : ~Upsets(t[i], f)
  <2>1. \A f \in Facts : ~Upsets(o, f) => Range(b) \cap Spoiling(script, f) = {}
    BY LoopWords
  <2> QED BY <1>3, <1>4, <1>5, <2>1
<1>7. \A i \in 1 .. Len(t) : t[i].op # "ret"
  BY <1>3, <1>4, <1>5, LoopWords
<1>8. ASSUME NEW j \in 1 .. Len(t), NEW f \in Facts, Needs(t[j], f)
      PROVE  /\ (Holds(f)' /\ Unspoilt(t, j, f)) \/ Sourced(t, j, f)
             /\ Looped(t[j]) => ~Upsets(t[j], f)
  <2>1. CASE j \in 1 .. n
    <3>1. t[j] = b[j] /\ ~Looped(t[j])
      BY <1>3, <1>4, <2>1
    <3>2. (Holds(f)' /\ Unspoilt(b, j, f)) \/ Sourced(b, j, f)
      BY <1>1, <1>8, <2>1, <3>1, BlockSupplied
    <3> QED BY <1>3, <2>1, <3>1, <3>2, Prefix
  <2>2. CASE j = n + 1
    <3>1. Holds(f)' /\ ~Upsets(o, f) /\ t[j] = o
      BY <1>3, <1>8, <2>2
    <3>2. \A i \in 1 .. (j - 1) : i \in 1 .. Len(t)
      BY <1>3, <2>2
    <3> QED BY <1>6, <3>1, <3>2 DEF Unspoilt
  <2> QED BY <1>5, <2>1, <2>2
<1>9. Becomes(t)
  BY <1>1 DEF Becomes, Rest
<1> QED BY <1>3, <1>6, <1>7, <1>8, <1>9, SupplyPush

-----------------------------------------------------------------------------
(* With what it needs a step does not fail.                                    *)
LEMMA NameFacts ==
  ASSUME Begun, Careful(script), Supplied, todo # <<>>, Now \in Ops(script)
  PROVE  /\ Now.op \in OnPokemon \cup {"Bind"} => Value(Now.ref) \in Mons
         /\ Now.op \in {"Remove", "Swap"} => Value(Now.ref) \in Benched(Now.side)
         /\ Now.op = "Choose" => Pool(Now.pool) # <<>>
<1>1. TypeOK /\ \A x \in Sides \cup Vars : Is(x) \in Facts
  BY DEF Begun, Facts
<1>2. \A f \in Facts : f \in Requires(Now) => Holds(f)
  BY NowSupplied, OwnWords DEF Lacks
<1>3. ASSUME Now.op \in OnPokemon \cup {"Bind"} PROVE Value(Now.ref) \in Mons /\ Value(Now.ref) # None
  <2>1. Now.ref \in Sides \cup Vars
    BY <1>3 DEF Careful
  <2>2. Is(Now.ref) \in Requires(Now)
    BY <1>3 DEF Requires, OnPokemon
  <2>3. Fact(Now.ref)
    BY <1>1, <1>2, <2>1, <2>2, HoldsOf
  <2>4. Value(Now.ref) # None
    <3>1. Now.ref # "over"
      BY <2>1 DEF Sides, Vars
    <3> QED BY <2>1, <2>3, <3>1 DEF Fact
  <2> QED BY <1>1, <2>4, ValueType
<1>4. ASSUME Now.op \in {"Remove", "Swap"} PROVE Value(Now.ref) \in Benched(Now.side)
  <2>1. Now.ref \in Vars /\ Now.side \in Sides
    BY <1>4 DEF Careful
  <2>2. Aboard(Now.ref, Now.side) \in Facts /\ Aboard(Now.ref, Now.side) \in Requires(Now)
    BY <1>4, <2>1 DEF Facts, Requires
  <2>3. vals[Now.ref] \in Benched(Now.side) \cup {None}
    BY <1>2, <2>1, <2>2, HoldsOf
  <2>4. Value(Now.ref) = vals[Now.ref] /\ Value(Now.ref) # None
    BY <1>3, <1>4, <2>1, FactsApart DEF Value, OnPokemon
  <2> QED BY <2>3, <2>4
<1>5. ASSUME Now.op = "Choose" PROVE Pool(Now.pool) # <<>>
  <2>1. Now.pool \in Listing
    BY <1>5 DEF Careful
  <2>2. Is(Now.pool) \in Facts /\ Is(Now.pool) \in Requires(Now)
    BY <1>5, <2>1 DEF Facts, Requires, OnPokemon
  <2>3. Fact(Now.pool)
    BY <1>2, <2>1, <2>2, HoldsOf
  <2>4. Now.pool \notin Sides \cup Vars /\ Now.pool # "over"
    BY <2>1, FactsApart DEF Listing
  <2> QED BY <2>3, <2>4 DEF Fact
<1> QED BY <1>3, <1>4, <1>5

LEMMA NeverFails == ASSUME Begun, Careful(script), Supplied PROVE ~Fails
<1>1. OnPokemon \cup {"Raise", "Remove", "Swap", "Choose"} \subseteq Vocabulary
  BY DEF Vocabulary, Controlling, Assigning, Touching, Sparing, Lowering, Knocking, Shifting,
         Moving, Awarding, OnPokemon
<1>2. ~At({"Raise"})
  BY <1>1, OwnHead DEF Careful
<1>3. ~(At(OnPokemon) /\ Value(Now.ref) \notin Mons)
  <2>1. At(OnPokemon) => todo # <<>> /\ Now.op \in OnPokemon /\ Now \in Ops(script)
    BY <1>1, OwnHead
  <2> QED BY <2>1, NameFacts
<1>4. ~(At({"Remove", "Swap"}) /\ Value(Now.ref) \notin Benched(Now.side))
  <2>1. At({"Remove", "Swap"}) => todo # <<>> /\ Now.op \in {"Remove", "Swap"} /\ Now \in Ops(script)
    BY <1>1, OwnHead
  <2> QED BY <2>1, NameFacts
<1>5. ~(At({"Choose"}) /\ Pool(Now.pool) = <<>>)
  <2>1. At({"Choose"}) => todo # <<>> /\ Now.op = "Choose" /\ Now \in Ops(script)
    BY <1>1, OwnHead
  <2> QED BY <2>1, NameFacts
<1> QED BY <1>2, <1>3, <1>4, <1>5 DEF Fails

-----------------------------------------------------------------------------
(* What the facts are after a move, an assignment, a test.                     *)
LEMMA PoolOfBench == ASSUME NEW s \in Sides PROVE Pool(BenchOf(s)) = bench[s]
<1>1. s = "own" \/ s = "foe"
  BY DEF Sides
<1>2. Pool("own bench") = bench["own"]
  BY DEF Pool, Lists
<1>3. Pool("foe bench") = bench["foe"]
  BY DEF Pool, Lists
<1> QED BY <1>1, <1>2, <1>3 DEF BenchOf

LEMMA MovesLast ==
  ASSUME Begun, Begun', Careful(script), Rearrange
  PROVE  /\ \A f \in Facts : Holds(f) /\ ~Upsets(Now, f) => Holds(f)'
         /\ \A f \in Facts : Gives(script, Now, f) => Holds(f)'
<1>1. At({"Lift", "Seat", "Join", "Leave", "Remove", "Swap", "Recruit"}) /\ ~Fails /\ vals' = vals
  BY DEF Rearrange, Sound, locals
<1>2. {"Lift", "Seat", "Join", "Leave", "Remove", "Swap", "Recruit"} \subseteq Vocabulary
  BY DEF Vocabulary, Shifting, Moving
<1>3. Now \in Ops(script) /\ Now.op \in {"Lift", "Seat", "Join", "Leave", "Remove", "Swap", "Recruit"}
  BY <1>1, <1>2, OwnHead
<1>4. TypeOK /\ TypeOK' /\ bench \in [Sides -> Seq(Mons)] /\ active \in [Sides -> Mons \cup {None}]
  BY DEF Begun, TypeOK
<1>5. \A f \in Facts : Spoils(Now, f) => Upsets(Now, f)
  BY <1>3, OwnWords, SpoilFacts
<1>6. CASE Now.op \in {"Lift", "Seat", "Leave", "Remove"}
  <2>1. \A f \in Facts : ~Upsets(Now, f) => f \in Held
    BY <1>5, <1>6 DEF Spoils
  <2>2. \A f \in Facts : ~Gives(script, Now, f)
    BY <1>6, Unsettled
  <2> QED BY <1>1, <1>4, <2>1, <2>2, HeldStays
<1>7. CASE Now.op = "Swap"
  <2>1. PICK s, m : s = Now.side /\ m = Value(Now.ref)
    OBVIOUS
  <2>2. s \in Sides /\ m \in Mons /\ m # None
    <3>1. m \in Mons
      BY <1>1, <1>3, <1>7, <2>1 DEF Fails, At, OnPokemon
    <3> QED BY <1>3, <1>7, <2>1, <3>1, NoneIsNoMon DEF Careful
  <2>3. active' = [active EXCEPT ![s] = m]
    BY <1>7, <2>1 DEF Rearrange
  <2>4. \A r \in Sides : active'[r] # None <=> active[r] # None \/ r = s
    BY <1>4, <2>2, <2>3
  <2>5. \A r \in Sides : /\ Holds(Is(r)) => Holds(Is(r))'
                         /\ r = s => Holds(Is(r))'
    BY <1>4, <2>4, HoldsIs, HoldsNext DEF FactTable
  <2>6. \A f \in Facts : ~Upsets(Now, f) => f \in Held \/ \E r \in Sides : f = Is(r)
    BY <1>5, <1>7 DEF Spoils
  <2>7. \A f \in Facts : Gives(script, Now, f) => f = Is(s)
    BY <1>7, <2>1 DEF Gives, Settles
  <2> QED BY <1>1, <1>4, <2>2, <2>5, <2>6, <2>7, HeldStays
<1>8. CASE Now.op \in {"Join", "Recruit"}
  <2>1. active' = active
    BY <1>8 DEF Rearrange
  <2>2. \A r \in Sides : bench'[r] = bench[r] \/ \E x : bench'[r] = Append(bench[r], x)
    <3>1. CASE Now.op = "Join"
      <4>1. bench' = [bench EXCEPT ![Now.side] = Append(@, Value(Now.ref))]
        BY <3>1 DEF Rearrange
      <4> QED BY <1>4, <4>1
    <3>2. CASE Now.op = "Recruit"
      <4>1. bench' = [bench EXCEPT ![Now.side] =
                        IF Spare(Now.side) \in InPlayOf(Now.side) \cup gone THEN @ ELSE Append(@, Spare(Now.side))]
        BY <3>2 DEF Rearrange
      <4> QED BY <1>4, <4>1
    <3> QED BY <1>8, <3>1, <3>2
  <2>3. ASSUME NEW r \in Sides
        PROVE  Benched(r) \subseteq Benched(r)' /\ (bench[r] # <<>> => bench'[r] # <<>>)
    <3>1. CASE bench'[r] = bench[r]
      BY <3>1 DEF Benched
    <3>2. CASE bench'[r] # bench[r]
      <4>1. PICK x : bench'[r] = Append(bench[r], x) /\ bench[r] \in Seq(Mons)
        BY <1>4, <2>2, <3>2
      <4>2. /\ Len(bench'[r]) = Len(bench[r]) + 1 /\ DOMAIN bench[r] = 1 .. Len(bench[r])
            /\ DOMAIN bench'[r] = 1 .. Len(bench[r]) + 1 /\ Len(bench[r]) \in Nat
            /\ \A i \in 1 .. Len(bench[r]) : bench'[r][i] = bench[r][i]
        BY <4>1
      <4>3. bench'[r] # <<>>
        BY <4>2
      <4>4. \A i \in DOMAIN bench[r] : i \in DOMAIN bench'[r] /\ bench'[r][i] = bench[r][i]
        BY <4>2
      <4> QED BY <4>3, <4>4 DEF Benched
    <3> QED BY <3>1, <3>2
  <2>4. \A f \in Facts : ~Gives(script, Now, f)
    BY <1>8, Unsettled
  <2> QED BY <1>1, <1>4, <2>1, <2>3, <2>4, HoldsGrow
<1> QED BY <1>3, <1>6, <1>7, <1>8

LEMMA AssignLast ==
  ASSUME Begun, Begun', Careful(script), Supplied, Assign
  PROVE  /\ \A f \in Facts : Holds(f) /\ ~Upsets(Now, f) => Holds(f)'
         /\ \A f \in Facts : Gives(script, Now, f) => Holds(f)'
<1>1. At({"Clear", "Bind", "Find", "Choose", "Maybe"}) /\ ~Fails /\ UNCHANGED <<active, bench>>
  BY DEF Assign, Sound, board
<1>2. {"Clear", "Bind", "Find", "Choose", "Maybe"} \subseteq Vocabulary
  BY DEF Vocabulary, Assigning
<1>3. todo # <<>> /\ Now \in Ops(script) /\ Now.op \in {"Clear", "Bind", "Find", "Choose", "Maybe"}
  BY <1>1, <1>2, OwnHead
<1>4. TypeOK /\ TypeOK'
  BY DEF Begun
<1>5. \A f \in Facts : Spoils(Now, f) => Upsets(Now, f)
  BY <1>3, OwnWords, SpoilFacts
<1>6. PICK x, m :
         /\ x = Now.var /\ vals' = [vals EXCEPT ![x] = m]
         /\ Now.op = "Bind" => m = Value(Now.ref)
         /\ Now.op = "Choose" => m \in Range(Pool(Now.pool))
         /\ Now.op = "Maybe" => m \in Range(Pool(Now.pool)) \cup {None}
  <2>1. PICK x : x = Now.var
    OBVIOUS
  <2>2. PICK m : /\ CASE Now.op = "Clear"  -> m = None
                      [] Now.op = "Bind"   -> m = Value(Now.ref)
                      [] Now.op = "Find"   -> m = IF vals[Now.var] \in InPlay THEN vals[Now.var] ELSE None
                      [] Now.op = "Choose" -> m \in Range(Pool(Now.pool))
                      [] Now.op = "Maybe"  -> m \in Range(Pool(Now.pool)) \cup {None}
                 /\ vals' = [vals EXCEPT ![Now.var] = m]
    BY DEF Assign
  <2> QED BY <2>1, <2>2
<1>7. Now.op \in {"Bind", "Choose"} => m # None
  <2>1. Now.op = "Bind" => m \in Mons
    BY <1>3, <1>6, NameFacts
  <2>2. Range(Pool(Now.pool)) \subseteq Mons
    BY <1>4, PoolType DEF Range
  <2> QED BY <1>6, <2>1, <2>2, NoneIsNoMon
<1>8. \A f \in Facts :
         /\ f \notin Held \cap {Is(x)} /\ (\A s \in Sides : f # Aboard(x, s)) => (Holds(f)' <=> Holds(f))
         /\ f \in Held \cap {Is(x)} => (Holds(f)' <=> m # None)
         /\ \A s \in Sides : f = Aboard(x, s) => (Holds(f)' <=> m \in Benched(s) \cup {None})
  BY <1>1, <1>4, <1>6, HoldsSet
<1>9. ASSUME NEW f \in Facts, Holds(f), ~Upsets(Now, f) PROVE Holds(f)'
  <2>1. \A s \in Sides : f # Aboard(x, s)
    BY <1>3, <1>5, <1>6, <1>9 DEF Spoils
  <2>2. f \in Held \cap {Is(x)} => Now.op \in {"Bind", "Choose"}
    BY <1>3, <1>5, <1>6, <1>9 DEF Spoils
  <2> QED BY <1>7, <1>8, <1>9, <2>1, <2>2
<1>10. ASSUME NEW f \in Facts, Gives(script, Now, f) PROVE Holds(f)'
  <2>1. \/ Now.op \in {"Choose", "Bind"} /\ f \in Held \cap {Is(x)}
        \/ Now.op \in {"Maybe", "Choose"} /\ \E s \in Sides : f = Aboard(x, s) /\ Now.pool = BenchOf(s)
    BY <1>3, <1>6, <1>10 DEF Gives, Settles
  <2>2. CASE Now.op \in {"Choose", "Bind"} /\ f \in Held \cap {Is(x)}
    BY <1>7, <1>8, <2>2
  <2>3. CASE Now.op \in {"Maybe", "Choose"} /\ \E s \in Sides : f = Aboard(x, s) /\ Now.pool = BenchOf(s)
    <3>1. PICK s \in Sides : f = Aboard(x, s) /\ Now.pool = BenchOf(s)
      BY <2>3
    <3>2. Pool(Now.pool) = bench[s]
      BY <3>1, PoolOfBench
    <3>3. m \in Benched(s) \cup {None}
      BY <1>6, <2>3, <3>2 DEF Range, Benched
    <3> QED BY <1>8, <3>1, <3>3
  <2> QED BY <2>1, <2>2, <2>3
<1> QED BY <1>9, <1>10

LEMMA TestTells ==
  ASSUME NEW c, NEW f \in Facts
  PROVE  /\ CondTrue(c) /\ Assumed(c, f) => Holds(f)
         /\ CondFalse(c) /\ Refuted(c, f) => Holds(f)
<1>1. \A x \in Sides \cup Vars \cup Listing : Is(x) # Some
  BY DEF Is, Some, Sides, Vars, Listing
<1>2. \A p \in Listing : p \notin Sides \cup Vars /\ p # "over"
  BY FactsApart DEF Listing
<1>3. \A p \in Listing : Fact(p) <=> Pool(p) # <<>>
  BY <1>2 DEF Fact
<1>4. ASSUME NEW x \in Sides \cup Vars \cup Listing
      PROVE  (CanHold(Is(x)) => Fact(x)) /\ (CanFail(No(x)) => Fact(x))
  <2>1. Is(x)[1] = "is" /\ Is(x)[2] = x /\ No(x)[1] = "no" /\ No(x)[2] = x /\ No(x) # Some /\ Is(x) # Some
    BY <1>1 DEF Is, No, Some
  <2> QED BY <2>1 DEF CanHold, CanFail
<1>5. ASSUME NEW p \in Listing
      PROVE  (CanHold(Among(p)) => Fact(p)) /\ (CanFail(NoneAmong(p)) => Fact(p))
  <2>1. /\ Among(p)[1] = "among" /\ Among(p)[2] = p /\ NoneAmong(p)[1] = "none among" /\ NoneAmong(p)[2] = p
        /\ Among(p) # Some /\ NoneAmong(p) # Some
    BY DEF Among, NoneAmong, Some, Is
  <2> QED BY <1>3, <2>1 DEF CanHold, CanFail
<1>6. ASSUME CondTrue(c), Assumed(c, f) PROVE Holds(f)
  BY <1>4, <1>5, <1>6, HoldsOf DEF Assumed, CondTrue
<1>7. ASSUME CondFalse(c), Refuted(c, f) PROVE Holds(f)
  BY <1>4, <1>5, <1>7, HoldsOf DEF Refuted, CondFalse
<1> QED BY <1>6, <1>7

-----------------------------------------------------------------------------
(* The steps of the script.                                                    *)
LEMMA LoopBodies ==
  ASSUME Begun, todo # <<>>, Now.op \in {"While", "again", "next"}
  PROVE  /\ Now.body \in Blocks(script)
         /\ Now.op \in {"While", "again"} =>
              LET o == [Now EXCEPT !.op = "again"] IN o.op = "again" /\ o.body = Now.body /\ o.cond = Now.cond
         /\ Now.op = "next" =>
              Now = [op |-> "next", var |-> Now.var, list |-> Now.list, body |-> Now.body]
<1>1. Now.op \notin Internals \cup {"ret"} /\ OuterWork(script, Now)
  <2>1. ~Internal(Now)
    BY DEF Internal, Internals
  <2> QED BY <2>1, HeadFacts DEF Begun, Internal, Internals
<1>2. [op |-> "ret"].op = "ret" /\ "While" \in Vocabulary /\ "again" \notin Vocabulary /\ "next" \notin Vocabulary
  BY DEF Vocabulary, Controlling, Assigning, Touching, Sparing, Lowering, Knocking, Shifting,
         Moving, Awarding
<1>3. \A k, c, b : LET o == [[op |-> k, cond |-> c, body |-> b] EXCEPT !.op = "again"]
                   IN  o.op = "again" /\ o.body = b /\ o.cond = c
  OBVIOUS
<1>4. CASE Now.op = "While"
  <2>1. Now \in Ops(script) /\ Now.body \in Bodies(Now)
    BY <1>1, <1>2, <1>4, OwnOp DEF Bodies
  <2>2. Now = [op |-> "While", cond |-> Now.cond, body |-> Now.body]
    BY <1>4, <2>1 DEF Begun, Orderly, While
  <2>3. Now.body \in Blocks(script)
    BY <2>1, BodyIsBlock DEF Begun
  <2> QED BY <1>3, <1>4, <2>2, <2>3
<1>5. CASE Now.op \in {"again", "next"}
  <2>1. Now \notin Ops(script)
    BY <1>2, <1>5 DEF Begun, Orderly
  <2>2. /\ Now.body \in Blocks(script)
        /\ Now.op = "again" => Now = [op |-> "again", cond |-> Now.cond, body |-> Now.body]
        /\ Now.op = "next" => Now = [op |-> "next", var |-> Now.var, list |-> Now.list, body |-> Now.body]
    BY <1>1, <1>2, <1>5, <2>1 DEF OuterWork
  <2> QED BY <1>3, <1>5, <2>2
<1> QED BY <1>4, <1>5

LEMMA OwnSupplies == ASSUME Begun, Begun', Careful(script), Supplied, OwnStep PROVE Supplied'
<1>1. todo # <<>> /\ ~Internal(Now) /\ script' = script /\ ~Fails
  BY OwnMoves, NeverFails DEF OwnMove
<1>2. OuterWork(script, Now) /\ (Now.op \in Vocabulary => Now \in Ops(script)) /\ TypeOK /\ TypeOK'
  BY <1>1, HeadFacts, OwnOp DEF Begun
<1>3. /\ {"If", "IfSame", "While", "Each", "Do"} \subseteq Vocabulary
      /\ "again" \notin Vocabulary /\ "next" \notin Vocabulary
  BY DEF Vocabulary, Controlling, Assigning, Touching, Sparing, Lowering, Knocking, Shifting,
         Moving, Awarding
<1>4. \A f \in Facts : Needs(Now, f) => Holds(f) /\ (Looped(Now) => ~Upsets(Now, f))
  BY <1>1, NowSupplied
<1>5. UNCHANGED <<active, bench, vals>> => \A f \in Facts : Holds(f)' <=> Holds(f)
  BY <1>2, HoldsSame
<1>6. CASE Fail \/ Return
  <2>1. todo' = <<>>
    <3>1. CASE Return
      <4>1. Marked({"ret"}) = {}
        <5>1. DOMAIN todo = 1 .. Len(todo)
          BY <1>1, HeadFacts DEF Begun
        <5> QED BY <5>1 DEF Marked, Supplied
      <4> QED BY <3>1, <4>1 DEF Return
    <3> QED BY <1>6, <3>1 DEF Fail
  <2>2. Len(todo') = 0 /\ 1 .. 0 = {}
    BY <2>1
  <2> QED BY <2>2 DEF Supplied
<1>7. CASE Branch
  <2>1. Now.op = "If" /\ UNCHANGED <<active, bench, vals>>
    BY <1>7 DEF Branch, Sound, At, board, locals
  <2>2. Now \in Ops(script) /\ {Now.then, Now.else} = Bodies(Now)
    BY <1>2, <1>3, <2>1 DEF Bodies
  <2>3. \A f \in Facts :
          /\ Now.then \in Wants(script, f) => Assumed(Now.cond, f) \/ Needs(Now, f)
          /\ Now.else \in Wants(script, f) => Refuted(Now.cond, f) \/ Needs(Now, f)
    BY <1>1, <2>1, <2>2, OwnWords DEF Lacks
  <2>4. \A f \in Facts : Gives(script, Now, f) =>
          /\ Ensures(script, Now.then, f)
               \/ (Assumed(Now.cond, f) /\ Range(Now.then) \cap Spoiling(script, f) = {})
          /\ Ensures(script, Now.else, f)
               \/ (Refuted(Now.cond, f) /\ Range(Now.else) \cap Spoiling(script, f) = {})
    BY <2>1 DEF Gives, Settles
  <2>5. (CondTrue(Now.cond) /\ todo' = Now.then \o Rest) \/ (CondFalse(Now.cond) /\ todo' = Now.else \o Rest)
    BY <1>7 DEF Branch, Then
  <2>6. CASE CondTrue(Now.cond) /\ todo' = Now.then \o Rest
    <3>1. \A f \in Facts : Assumed(Now.cond, f) => Holds(f)
      BY <2>6, TestTells
    <3>2. PICK b : b = Now.then
      OBVIOUS
    <3>3. b \in Bodies(Now) /\ todo' = b \o Rest
      BY <2>2, <2>6, <3>2
    <3>4. \A f \in Facts : /\ b \in Wants(script, f) => Holds(f)
                           /\ Gives(script, Now, f) =>
                                Ensures(script, b, f) \/ (Holds(f) /\ Range(b) \cap Spoiling(script, f) = {})
      BY <1>4, <2>3, <2>4, <3>1, <3>2
    <3> QED BY <1>1, <1>5, <2>1, <2>2, <3>3, <3>4, SupplyBlock
  <2>7. CASE CondFalse(Now.cond) /\ todo' = Now.else \o Rest
    <3>1. \A f \in Facts : Refuted(Now.cond, f) => Holds(f)
      BY <2>7, TestTells
    <3>2. PICK b : b = Now.else
      OBVIOUS
    <3>3. b \in Bodies(Now) /\ todo' = b \o Rest
      BY <2>2, <2>7, <3>2
    <3>4. \A f \in Facts : /\ b \in Wants(script, f) => Holds(f)
                           /\ Gives(script, Now, f) =>
                                Ensures(script, b, f) \/ (Holds(f) /\ Range(b) \cap Spoiling(script, f) = {})
      BY <1>4, <2>3, <2>4, <3>1, <3>2
    <3> QED BY <1>1, <1>5, <2>1, <2>2, <3>3, <3>4, SupplyBlock
  <2> QED BY <2>5, <2>6, <2>7
<1>8. CASE BranchSame
  <2>1. Now.op = "IfSame" /\ UNCHANGED <<active, bench, vals>>
    BY <1>8 DEF BranchSame, Sound, At, board, locals
  <2>2. Now \in Ops(script) /\ {Now.then, Now.else} = Bodies(Now)
    BY <1>2, <1>3, <2>1 DEF Bodies
  <2>3. PICK b : b \in Bodies(Now) /\ todo' = b \o Rest
    BY <1>8, <2>2 DEF BranchSame, Then
  <2>4. \A f \in Facts : b \in Wants(script, f) => Holds(f)
    <3>1. \A f \in Facts : b \in Wants(script, f) => Needs(Now, f)
      BY <2>1, <2>2, <2>3, OwnWords DEF Lacks
    <3> QED BY <1>4, <3>1
  <2>5. \A f \in Facts : ~Gives(script, Now, f)
    BY <2>1, Unsettled
  <2> QED BY <1>1, <1>5, <2>1, <2>2, <2>3, <2>4, <2>5, SupplyBlock
<1>9. CASE Loop
  <2>1. Now.op \in {"While", "again"} /\ UNCHANGED <<active, bench, vals>>
    BY <1>9 DEF Loop, Sound, At, board, locals
  <2>2. \A f \in Facts : ~Gives(script, Now, f)
    BY <2>1, Unsettled
  <2>3. \/ Onward
        \/ CondTrue(Now.cond) /\ todo' = (Now.body \o <<[Now EXCEPT !.op = "again"]>>) \o Rest
    BY <1>9 DEF Loop, Then
  <2>4. CASE Onward
    BY <1>1, <1>5, <2>1, <2>2, <2>4, SupplyOnward
  <2>5. CASE CondTrue(Now.cond) /\ todo' = (Now.body \o <<[Now EXCEPT !.op = "again"]>>) \o Rest
    <3>1. PICK b, o : b = Now.body /\ o = [Now EXCEPT !.op = "again"]
      OBVIOUS
    <3>2. b \in Blocks(script) /\ o.op = "again" /\ o.body = b /\ o.cond = Now.cond
      BY <1>1, <2>1, <3>1, LoopBodies
    <3>3. \A f \in Facts : Assumed(Now.cond, f) => Holds(f)
      BY <2>5, TestTells
    <3>4. ASSUME NEW f \in Facts
          PROVE  /\ ~Upsets(Now, f) => ~Upsets(o, f)
                 /\ Needs(o, f) => Holds(f) /\ ~Upsets(o, f)
                 /\ b \in Wants(script, f) => Holds(f)
      <4>1. /\ Upsets(o, f) <=> Range(b) \cap Spoiling(script, f) # {}
            /\ Needs(o, f) <=> b \in Wants(script, f) /\ ~Assumed(Now.cond, f)
        BY <3>2, LoopWords DEF Looped
      <4>2. CASE Now.op = "again"
        <5>1. /\ Upsets(Now, f) <=> Range(b) \cap Spoiling(script, f) # {}
              /\ Needs(Now, f) <=> b \in Wants(script, f) /\ ~Assumed(Now.cond, f)
          BY <3>1, <4>2, LoopWords DEF Looped
        <5> QED BY <1>4, <3>3, <4>1, <4>2, <5>1 DEF Looped
      <4>3. CASE Now.op = "While"
        <5>1. Now \in Ops(script) /\ b \in Bodies(Now)
          BY <1>2, <1>3, <3>1, <4>3 DEF Bodies
        <5>2. /\ Upsets(Now, f) <=> Now \in Spoiling(script, f)
              /\ Needs(Now, f) <=> Lacks(Now, f, Wants(script, f))
              /\ Range(b) \cap Spoiling(script, f) # {} => Now \in Spoiling(script, f)
          BY <5>1, OwnWords, SpoilFacts
        <5>3. b \in Wants(script, f) /\ ~Assumed(Now.cond, f) => Lacks(Now, f, Wants(script, f))
          BY <3>1, <4>3 DEF Lacks
        <5>4. Lacks(Now, f, Wants(script, f)) => Now \notin Spoiling(script, f)
          BY <4>3, <5>1 DEF Careful
        <5> QED BY <1>4, <3>3, <4>1, <5>2, <5>3, <5>4
      <4> QED BY <2>1, <4>2, <4>3
    <3>5. Looped(o) /\ todo' = (b \o <<o>>) \o Rest
      BY <2>5, <3>1, <3>2 DEF Looped
    <3>6. \A f \in Facts : Holds(f)' <=> Holds(f)
      BY <1>5, <2>1
    <3> QED BY <1>1, <2>2, <3>2, <3>4, <3>5, <3>6, SupplyRound
  <2> QED BY <2>3, <2>4, <2>5
<1>10. CASE StartEach
  <2>1. Now.op = "Each" /\ UNCHANGED <<active, bench, vals>>
    BY <1>10 DEF StartEach, Sound, At, board, locals
  <2>2. PICK o : o = [op |-> "next", var |-> Now.var, list |-> Pool(Now.pool), body |-> Now.body]
    OBVIOUS
  <2>3. o.op = "next" /\ o.body = Now.body /\ o.var = Now.var /\ Looped(o)
    BY <2>2 DEF Looped
  <2>4. PICK ops : ops = <<o>>
    OBVIOUS
  <2>5. Becomes(ops) /\ Row(ops) /\ Len(ops) = 1 /\ ops[1] = o
    BY <1>1, <1>10, <2>2, <2>4, RowOne DEF StartEach, Then, Becomes, Rest
  <2>6. Now \in Ops(script) /\ Now.body \in Bodies(Now)
    BY <1>2, <1>3, <2>1 DEF Bodies
  <2>7. ASSUME NEW f \in Facts
        PROVE  /\ ~Upsets(Now, f) => ~Upsets(o, f)
               /\ Needs(o, f) => Holds(f) /\ ~Upsets(o, f)
    <3>1. /\ Upsets(o, f) <=> \/ Range(Now.body) \cap Spoiling(script, f) # {}
                              \/ \E s \in Sides : f = Aboard(Now.var, s)
          /\ Needs(o, f) <=> Now.body \in Wants(script, f) /\ f \notin Held \cap {Is(Now.var)}
      BY <2>3, LoopWords
    <3>2. /\ Upsets(Now, f) <=> Now \in Spoiling(script, f)
          /\ Needs(Now, f) <=> Lacks(Now, f, Wants(script, f))
          /\ Range(Now.body) \cap Spoiling(script, f) # {} => Now \in Spoiling(script, f)
          /\ Spoils(Now, f) => Now \in Spoiling(script, f)
      BY <2>6, OwnWords, SpoilFacts
    <3>3. Now.body \in Wants(script, f) /\ f \notin Held \cap {Is(Now.var)} => Lacks(Now, f, Wants(script, f))
      BY <2>1 DEF Lacks
    <3>4. Lacks(Now, f, Wants(script, f)) => Now \notin Spoiling(script, f)
      BY <2>1, <2>6 DEF Careful
    <3>5. (\E s \in Sides : f = Aboard(Now.var, s)) => Spoils(Now, f)
      BY <2>1 DEF Spoils
    <3> QED BY <1>4, <3>1, <3>2, <3>3, <3>4, <3>5
  <2>8. \A i \in 1 .. Len(ops) : i = 1 /\ ops[i] = o
    BY <2>5
  <2>9. \A i \in 1 .. Len(ops) : ops[i].op # "ret"
    BY <2>3, <2>8
  <2>10. \A f \in Facts : ~Gives(script, Now, f)
    BY <2>1, Unsettled
  <2>11. \A f \in Facts : Holds(f)' <=> Holds(f)
    BY <1>5, <2>1
  <2>12. \A f \in Facts : \A i \in 1 .. Len(ops) : ~Upsets(Now, f) => ~Upsets(ops[i], f)
    BY <2>7, <2>8
  <2>13. ASSUME NEW j \in 1 .. Len(ops), NEW f \in Facts, Needs(ops[j], f)
         PROVE  /\ (Holds(f)' /\ Unspoilt(ops, j, f)) \/ Sourced(ops, j, f)
                /\ Looped(ops[j]) => ~Upsets(ops[j], f)
    <3>1. j = 1 /\ ops[j] = o
      BY <2>8
    <3>2. 1 .. (j - 1) = {}
      BY <3>1
    <3> QED BY <2>7, <2>11, <2>13, <3>1, <3>2 DEF Unspoilt
  <2> QED BY <1>1, <2>5, <2>9, <2>10, <2>11, <2>12, <2>13, SupplyPush
<1>11. CASE NextEach
  <2>1. Now.op = "next" /\ UNCHANGED <<active, bench>> /\ Looped(Now)
    BY <1>11 DEF NextEach, Sound, At, board, Looped
  <2>2. \A f \in Facts : ~Gives(script, Now, f)
    BY <2>1, Unsettled
  <2>3. \/ Onward /\ vals' = vals
        \/ /\ Head(Now.list) \in Mons /\ vals' = [vals EXCEPT ![Now.var] = Head(Now.list)]
           /\ todo' = (Now.body \o <<[Now EXCEPT !.list = Tail(Now.list)]>>) \o Rest
    BY <1>11 DEF NextEach, Then
  <2>4. CASE Onward /\ vals' = vals
    BY <1>1, <1>5, <2>1, <2>2, <2>4, SupplyOnward
  <2>5. CASE /\ Head(Now.list) \in Mons /\ vals' = [vals EXCEPT ![Now.var] = Head(Now.list)]
             /\ todo' = (Now.body \o <<[Now EXCEPT !.list = Tail(Now.list)]>>) \o Rest
    <3>1. PICK b, o, x, m : b = Now.body /\ o = [Now EXCEPT !.list = Tail(Now.list)] /\ x = Now.var /\ m = Head(Now.list)
      OBVIOUS
    <3>2. Now = [op |-> "next", var |-> Now.var, list |-> Now.list, body |-> Now.body] /\ b \in Blocks(script)
      BY <1>1, <2>1, <3>1, LoopBodies
    <3>3. o.op = "next" /\ o.body = b /\ o.var = x
      <4>1. \A q, a, l, c, y : q = [op |-> "next", var |-> a, list |-> l, body |-> c]
              => [q EXCEPT !.list = y] = [op |-> "next", var |-> a, list |-> y, body |-> c]
        OBVIOUS
      <4>2. o = [op |-> "next", var |-> Now.var, list |-> Tail(Now.list), body |-> Now.body]
        BY <3>1, <3>2, <4>1, Zenon
      <4> QED BY <3>1, <4>2
    <3>4. Looped(o) /\ todo' = (b \o <<o>>) \o Rest
      BY <2>5, <3>1, <3>3 DEF Looped
    <3>5. vals' = [vals EXCEPT ![x] = m] /\ m # None
      BY <2>5, <3>1, NoneIsNoMon
    <3>6. ASSUME NEW f \in Facts
          PROVE  /\ Upsets(o, f) <=> Upsets(Now, f)
                 /\ Needs(o, f) <=> Needs(Now, f)
                 /\ Needs(Now, f) <=> b \in Wants(script, f) /\ f \notin Held \cap {Is(x)}
                 /\ (\E s \in Sides : f = Aboard(x, s)) => Upsets(Now, f)
      <4>1. /\ Needs(o, f) <=> b \in Wants(script, f) /\ f \notin Held \cap {Is(x)}
            /\ Upsets(o, f) <=> \/ Range(b) \cap Spoiling(script, f) # {}
                                \/ \E s \in Sides : f = Aboard(x, s)
        <5>1. o.op # "again"
          BY <3>3
        <5> QED BY <3>3, <3>4, <5>1, LoopWords
      <4>2. /\ Needs(Now, f) <=> b \in Wants(script, f) /\ f \notin Held \cap {Is(x)}
            /\ Upsets(Now, f) <=> \/ Range(b) \cap Spoiling(script, f) # {}
                                  \/ \E s \in Sides : f = Aboard(x, s)
        <5>1. Now.op # "again"
          BY <2>1
        <5> QED BY <2>1, <3>1, <5>1, LoopWords
      <4> QED BY <4>1, <4>2
    <3>7. \A f \in Facts :
            /\ f \notin Held \cap {Is(x)} /\ (\A s \in Sides : f # Aboard(x, s)) => (Holds(f)' <=> Holds(f))
            /\ f \in Held \cap {Is(x)} => (Holds(f)' <=> m # None)
      BY <1>2, <2>1, <3>5, HoldsSet
    <3>8. \A f \in Facts : Holds(f) /\ ~Upsets(Now, f) => Holds(f)'
      BY <3>5, <3>6, <3>7
    <3>9. \A f \in Facts : Needs(o, f) => Holds(f)' /\ ~Upsets(o, f)
      BY <1>4, <2>1, <3>6, <3>8
    <3>10. \A f \in Facts : b \in Wants(script, f) => Holds(f)'
      BY <3>5, <3>6, <3>7, <3>9
    <3>11. \A f \in Facts : ~Upsets(Now, f) => ~Upsets(o, f)
      BY <3>6
    <3> QED BY <1>1, <2>2, <3>2, <3>3, <3>4, <3>8, <3>9, <3>10, <3>11, SupplyRound
  <2> QED BY <2>3, <2>4, <2>5
<1>12. CASE LeaveLoop
  <2>1. Now.op \in {"Break", "Continue"} /\ UNCHANGED <<active, bench, vals>>
    BY <1>12 DEF LeaveLoop, Sound, At, board, locals
  <2>2. /\ Marked({"again", "next"}) # {} /\ Marked({"again", "next"}) \subseteq 1 .. Len(todo)
        /\ Len(todo) \in Nat /\ Now = todo[1]
    BY <1>1, <1>12, HeadFacts DEF LeaveLoop, Marked, Begun
  <2>3. PICK l \in Marked({"again", "next"}) : l = First(Marked({"again", "next"}))
    BY <2>2, FirstIsIn
  <2>4. l \in 2 .. Len(todo) /\ Looped(todo[l]) /\ l \in 1 .. Len(todo)
    <3>1. todo[l].op \in {"again", "next"} /\ l \in 1 .. Len(todo)
      BY <2>2, <2>3 DEF Marked
    <3>2. l # 1
      BY <2>1, <2>2, <3>1
    <3> QED BY <2>2, <3>1, <3>2 DEF Looped
  <2>5. PICK k \in 2 .. Len(todo) + 1 : todo' = From(k) /\ (k = l \/ k = l + 1)
    <3>1. todo' = From(l) \/ todo' = From(l + 1)
      BY <1>12, <2>3 DEF LeaveLoop
    <3> QED BY <2>2, <2>4, <3>1
  <2>6. ASSUME NEW i \in 1 .. (k - 1)
        PROVE  \/ \A f \in Facts : ~Gives(script, todo[i], f)
               \/ \E m \in 1 .. Len(todo) : i < m /\ m <= k /\ Looped(todo[m])
    <3>1. i < l \/ i = l
      BY <2>4, <2>5
    <3>2. CASE i < l
      <4>1. l <= k
        BY <2>4, <2>5
      <4> QED BY <2>4, <3>2, <4>1
    <3>3. CASE i = l
      BY <2>4, <3>3, LoopWords
    <3> QED BY <3>1, <3>2, <3>3
  <2>7. \A f \in Facts : Holds(f)' <=> Holds(f)
    BY <1>5, <2>1
  <2> QED BY <1>1, <2>5, <2>6, <2>7, SupplySkip
<1>13. CASE Call
  <2>1. Now.op = "Do"
    BY <1>13 DEF Call, Sound, At
  <2> QED BY <1>2, <1>3, <2>1 DEF Careful
<1>14. CASE Assign
  <2>1. Onward
    BY <1>14 DEF Assign
  <2> QED BY <1>1, <1>14, <2>1, AssignLast, SupplyOnward
<1>15. CASE Rearrange
  <2>1. Onward
    BY <1>15 DEF Rearrange
  <2> QED BY <1>1, <1>15, <2>1, MovesLast, SupplyOnward
<1>16. CASE Store \/ Touch \/ Read \/ SetHitPoints \/ Discard \/ Declare \/ TakePrizes
  <2>1. Onward /\ UNCHANGED <<active, bench, vals>>
    BY <1>16 DEF Store, Touch, Read, SetHitPoints, Discard, Declare, TakePrizes, board, locals
  <2>2. Now.op \notin {"If", "Quit", "Break", "Continue", "Choose", "Bind", "Maybe", "Swap"}
    BY <1>16 DEF Store, Touch, Read, SetHitPoints, Discard, Declare, TakePrizes, Sound, At, HpSet
  <2>3. \A f \in Facts : ~Gives(script, Now, f)
    BY <2>2, Unsettled
  <2> QED BY <1>1, <1>5, <2>1, <2>3, SupplyOnward
<1> QED BY <1>6, <1>7, <1>8, <1>9, <1>10, <1>11, <1>12, <1>13, <1>14, <1>15, <1>16 DEF OwnStep

-----------------------------------------------------------------------------
(* The steps of the shared functions.                                          *)
LEMMA LaunchSupplies == ASSUME Begun, Begun', Careful(script), Supplied, Launch PROVE Supplied'
<1>1. /\ todo # <<>> /\ Now \in Ops(script) /\ script' = script
      /\ \E ops : Becomes(ops) /\ Chain(ops)
  BY LaunchMoves DEF LaunchMove
<1>2. Now.op \in Knocking /\ UNCHANGED <<active, bench, vals>>
  BY DEF Launch, BlowLands, StrikeLands, SplashLands, CheckKo, Reshape, StadiumGone, Sound, At, Knocking,
         board, locals
<1>3. \A f \in Facts : ~Gives(script, Now, f)
  BY <1>2, Unsettled DEF Knocking
<1>4. \A f \in Facts : f \notin Held => Upsets(Now, f)
  <2>1. \A f \in Facts : f \notin Held => Spoils(Now, f)
    BY <1>2 DEF Spoils, Deciding
  <2> QED BY <1>1, <2>1, OwnWords, SpoilFacts
<1>5. \A f \in Facts : Holds(f)' <=> Holds(f)
  BY <1>2, HoldsSame DEF Begun
<1> QED BY <1>1, <1>3, <1>4, <1>5, SupplyChain

LEMMA InnerSupplies == ASSUME Begun, Begun', Careful(script), Supplied, InnerStep PROVE Supplied'
<1>1. /\ todo # <<>> /\ Internal(Now) /\ script' = script
      /\ \/ \E ops : Becomes(ops) /\ Chain(ops)
         \/ todo' = todo
         \/ Len(todo) > 1 /\ Now.op = "parried" /\ todo' = From(3)
  BY InnerMoves DEF InnerMove
<1>2. vals' = vals /\ TypeOK /\ TypeOK'
  BY DEF InnerStep, Parry, Parried, Tour, Sweep, Examine, KnockOut, locals, Begun
<1>3. \A f \in Facts : ~Needs(Now, f) /\ ~Gives(script, Now, f) /\ (Upsets(Now, f) <=> f \notin Held)
  BY <1>1, InnerWords
<1>4. \A f \in Facts : Holds(f) /\ ~Upsets(Now, f) => Holds(f)'
  BY <1>2, <1>3, HeldStays
<1>5. CASE \E ops : Becomes(ops) /\ Chain(ops)
  BY <1>1, <1>3, <1>4, <1>5, SupplyChain
<1>6. CASE todo' = todo
  <2>1. Now = todo[1] /\ Len(todo) \in Nat
    BY <1>1, HeadFacts DEF Begun
  <2>2. SUFFICES ASSUME NEW j \in 1 .. Len(todo), NEW f \in Facts, Needs(todo[j], f)
                 PROVE  /\ (Holds(f)' /\ Unspoilt(todo, j, f)) \/ Sourced(todo, j, f)
                        /\ Looped(todo[j]) => ~Upsets(todo[j], f)
    BY <1>1, <1>6, ScriptFacts DEF Supplied
  <2>3. /\ (Holds(f) /\ Unspoilt(todo, j, f)) \/ Sourced(todo, j, f)
        /\ Looped(todo[j]) => ~Upsets(todo[j], f)
    BY <2>2 DEF Supplied
  <2>4. 1 \in 1 .. (j - 1)
    <3>1. j # 1
      BY <1>3, <2>1, <2>2
    <3> QED BY <2>1, <3>1
  <2>5. Unspoilt(todo, j, f) => ~Upsets(Now, f)
    BY <2>1, <2>4 DEF Unspoilt
  <2> QED BY <1>4, <2>3, <2>5
<1>7. CASE Len(todo) > 1 /\ Now.op = "parried" /\ todo' = From(3)
  <2>1. Len(todo) \in Nat /\ Now = todo[1] /\ 3 \in 2 .. Len(todo) + 1 /\ 1 \in 1 .. Len(todo)
    BY <1>1, <1>7, HeadFacts DEF Begun
  <2>2. todo[2].op = "ko"
    BY <1>7, <2>1 DEF Begun, Queue, Parrying
  <2>3. Internal(todo[1]) /\ Internal(todo[2])
    BY <1>1, <2>1, <2>2 DEF Internal, Internals
  <2>4. \A i \in 1 .. (3 - 1) : i = 1 \/ i = 2
    OBVIOUS
  <2>5. \A i \in 1 .. (3 - 1) : \A f \in Facts : ~Gives(script, todo[i], f)
    BY <2>3, <2>4, InnerWords
  <2>6. UNCHANGED <<active, bench, vals>>
    BY <1>7 DEF InnerStep, Parry, Parried, Tour, Sweep, Examine, KnockOut, locals, board, Sound, At
  <2>7. \A f \in Facts : Holds(f)' <=> Holds(f)
    BY <1>2, <2>6, HoldsSame
  <2> QED BY <1>1, <1>7, <2>1, <2>5, <2>7, SupplySkip
<1> QED BY <1>1, <1>5, <1>6, <1>7

-----------------------------------------------------------------------------
(* Careful handlers: everything left has what it needs.                        *)
Provided == Careful(script) => Begun /\ Supplied

LEMMA ProvidedAtStart == Init => Provided
<1> SUFFICES ASSUME Init, Careful(script) PROVE Begun /\ Supplied
  BY DEF Provided
<1>1. Begun /\ todo = script /\ script \in Blocks(script)
  BY BegunAtStart, ScriptIsBlock DEF Careful, Init
<1>2. \A i \in 1 .. Len(script) : script[i].op # "ret" /\ ~Looped(script[i])
  BY <1>1, BlockRow, OwnWords DEF Careful
<1>3. ASSUME NEW f \in Facts, script \in Wants(script, f) PROVE Holds(f)
  <2>1. f = Is("own") /\ script \notin Cards
    BY <1>3 DEF Careful
  <2>2. active["own"] # None
    <3>1. PICK on \in BOOLEAN, fn \in BOOLEAN, b1 \in 0 .. MaxBench :
            /\ active = [s \in Sides |-> IF (IF s = "own" THEN on ELSE fn) THEN <<s, 0>> ELSE None]
            /\ on \/ (b1 > 0 /\ script \in Cards)
      BY DEF Init
    <3>2. on /\ "own" \in Sides
      BY <2>1, <3>1 DEF Sides
    <3>3. active["own"] = <<"own", 0>>
      BY <3>1, <3>2
    <3> QED BY <3>3 DEF None
  <2>3. "own" \in Sides
    BY DEF Sides
  <2> QED BY <1>1, <2>1, <2>2, <2>3, HoldsIs DEF FactTable, Begun
<1>4. Supplied
  BY <1>1, <1>2, <1>3, BlockSupplied DEF Supplied
<1> QED BY <1>1, <1>4

LEMMA ProvidedStep == Provided /\ [Next]_vars => Provided'
<1> SUFFICES ASSUME Provided, [Next]_vars, Careful(script) PROVE (Begun /\ Supplied)'
  BY ScriptStays DEF Provided
<1>1. Begun /\ Supplied /\ Begun'
  BY BegunStep DEF Provided
<1>2. CASE OwnStep
  BY <1>1, <1>2, OwnSupplies
<1>3. CASE Launch
  BY <1>1, <1>3, LaunchSupplies
<1>4. CASE InnerStep
  BY <1>1, <1>4, InnerSupplies
<1>5. CASE Slip
  <2>1. todo' = <<>> /\ Len(todo') = 0 /\ 1 .. 0 = {}
    BY <1>1, <1>5, SlipEnds
  <2> QED BY <1>1, <2>1 DEF Supplied
<1>6. CASE UNCHANGED vars
  <2>1. script' = script /\ todo' = todo /\ UNCHANGED <<active, bench, vals>>
    BY <1>6 DEF vars, board, locals
  <2>2. \A f \in Facts : Holds(f)' <=> Holds(f)
    BY <1>1, <2>1, HoldsSame DEF Begun
  <2>3. Supplied'
    BY <1>1, <2>1, <2>2, ScriptFacts DEF Supplied
  <2> QED BY <1>1, <2>3
<1> QED BY <1>1, <1>2, <1>3, <1>4, <1>5, <1>6, StepKinds

(* The step that would raise is not taken.                                     *)
LEMMA OnlySlips ==
  ASSUME Begun, Careful(script), Supplied, [Next]_vars, failed' # failed
  PROVE  Slip
<1>1. ~Fail
  BY NeverFails DEF Fail
<1>2. CASE Next
  BY <1>1, <1>2 DEF Next, Keeps, Branch, BranchSame, Loop, StartEach, NextEach, LeaveLoop, Call,
     Return, Assign, Store, Touch, Read, SetHitPoints, Reshape, Rearrange, Discard, Declare,
     TakePrizes, BlowLands, StrikeLands, Parry, Parried, SplashLands, CheckKo, StadiumGone, Tour,
     Sweep, Examine, KnockOut, Stop, vars
<1>3. CASE UNCHANGED vars
  BY <1>3 DEF vars
<1> QED BY <1>2, <1>3

(* A handler that looks before it reads a field of a Pokemon, chooses from a pool *)
(* or switches never ends in an exception of its own, whatever its own damage, the *)
(* retaliations and the knock-outs in between have taken out of play; what is      *)
(* left are the slips of the shared code, a retaliation that raises and a status   *)
(* condition on a Pokemon that was once devolved.                              *)
THEOREM NobodyTrips == Spec /\ Careful(script) => NeverRaises
<1>1. Init /\ Careful(script) => Provided /\ Careful(script)
  BY ProvidedAtStart
<1>2. (Provided /\ Careful(script)) /\ [Next]_vars => (Provided /\ Careful(script))'
  BY ProvidedStep, ScriptStays
<1>3. (Provided /\ Careful(script)) /\ [Next]_vars
        => [failed' # failed => Slip \/ script \in Raising]_vars
  BY OnlySlips DEF Provided
<1> QED BY <1>1, <1>2, <1>3, PTL DEF Spec, NeverRaises
=============================================================================
