------------------------------ MODULE BestProofs ------------------------------
(***************************************************************************)
(* Proofs about SimRun: the types of its state, what a simulation has      *)
(* recorded as its best deck when it completes, that reverted mutations    *)
(* stay out of the deck, and that a run keeps the ledger of BatchLedger.   *)
(***************************************************************************)
EXTENDS SimRunProofs, SumProofs

-----------------------------------------------------------------------------
(* Win rates are percentages.                                              *)

LEMMA RateIsTotal ==
  ASSUME NEW won
  PROVE  RateOf(won) = WinRatePct(Total(won, Opp), NumOpps * Matches)
  BY Zenon DEF RateOf, Total

LEMMA Quotient ==
  ASSUME NEW a \in Nat, NEW n \in Nat \ {0}, a <= 100 * n
  PROVE  /\ a \div n \in 0..100
         /\ a % n \in Nat
         /\ a \div n = 100 => a % n = 0
<1> DEFINE q == a \div n
<1>1. q \in Nat /\ a = n * q + (a % n) /\ a % n \in 0..(n - 1)
  OBVIOUS
<1> HIDE DEF q
<1>2. ASSUME q >= 101 PROVE FALSE
  <2>1. PICK k \in Nat : q = 101 + k
    <3>1. q - 101 \in Nat
      BY <1>1, <1>2
    <3> QED BY <1>1, <3>1
  <2>2. n * q = 101 * n + n * k /\ n * k \in Nat
    BY <2>1
  <2> QED BY <1>1, <2>2
<1>3. q \in 0..100
  BY <1>1, <1>2
<1>4. ASSUME q = 100 PROVE a % n = 0
  BY <1>1, <1>4
<1> QED BY <1>1, <1>3, <1>4 DEF q

\* The rounding does not leave the range of a percentage.
LEMMA RatePercent ==
  ASSUME NEW n \in Nat, NEW w \in 0..n
  PROVE  WinRatePct(w, n) \in 0..100
<1>1. CASE n = 0
  BY <1>1 DEF WinRatePct
<1>2. CASE n # 0
  <2> DEFINE q == (100 * w) \div n
             r == (100 * w) % n
  <2>1. q \in 0..100 /\ r \in Nat /\ (q = 100 => r = 0)
    BY <1>2, Quotient
  <2>2. WinRatePct(w, n) = IF 2 * r < n THEN q
                           ELSE IF 2 * r > n THEN q + 1 ELSE q + (q % 2)
    BY <1>2 DEF WinRatePct
  <2> HIDE DEF q, r
  <2>3. q % 2 \in {0, 1}
    BY <2>1
  <2>4. q = 100 => WinRatePct(w, n) = 100
    BY <1>2, <2>1, <2>2
  <2> QED BY <2>1, <2>2, <2>3, <2>4
<1> QED BY <1>1, <1>2

LEMMA RateOfPercent ==
  ASSUME NEW won, \A o \in Opp : won[o] \in 0..Matches
  PROVE  RateOf(won) \in 0..100
<1>1. IsFiniteSet(Opp) /\ Cardinality(Opp) = NumOpps
  BY RunAssumption, FS_Interval DEF Opp
<1>2. Matches \in Nat /\ NumOpps \in Nat
  BY RunAssumption
<1>3. Total(won, Opp) \in 0..(NumOpps * Matches)
  BY <1>1, <1>2, TotalBounds
<1>4. NumOpps * Matches \in Nat
  BY <1>2
<1> QED BY <1>3, <1>4, RateIsTotal, RatePercent

-----------------------------------------------------------------------------
(* Types                                                                   *)

\* The local state is a record of the fields of Memory.
Shape(m) ==
    m = [round |-> m.round, opp |-> m.opp, deck |-> m.deck, id |-> m.id,
         rawText |-> m.rawText, skipped |-> m.skipped, batch |-> m.batch,
         result |-> m.result, best |-> m.best, bestRound |-> m.bestRound,
         bestDeck |-> m.bestDeck, bestId |-> m.bestId, bestRaw |-> m.bestRaw,
         prev |-> m.prev, regressions |-> m.regressions, hits |-> m.hits,
         streak |-> m.streak]

Place(m) ==
    /\ m.round \in Round /\ m.opp \in 1..(NumOpps + 1)
    /\ m.skipped \in BOOLEAN
    /\ m.batch \in -1..Matches /\ m.result \in [Opp -> -1..Matches]

Decks(m, n) ==
    /\ m.deck \subseteq 1..n /\ m.id \in 0..n /\ m.rawText \in BOOLEAN
    /\ m.bestDeck \subseteq 1..n /\ m.bestId \in 0..n
    /\ m.bestRaw \in BOOLEAN

Rates(m) ==
    /\ m.best \in -1..100 /\ m.bestRound \in 0..NumRounds /\ m.prev \in -1..100

\* The track of the round is kept, but its target is not checked yet.
Coaching == {"coach", "analyze", "log", "clone", "target"}

\* A counter has counted some of the rounds.
Counters(m, at) ==
    /\ m.regressions \in Nat /\ m.regressions <= m.round
    /\ at \notin Coaching \cup {"finish", "fail"} => m.regressions < m.round
    /\ m.hits \in Nat /\ m.hits <= m.round
    /\ m.streak \in [Opp -> Nat] /\ \A o \in Opp : m.streak[o] <= m.round
    /\ at \notin {"finish", "fail"} =>
          m.hits < m.round /\ \A o \in Opp : m.streak[o] < m.round

Locals(m, at, n) ==
    Shape(m) /\ Place(m) /\ Decks(m, n) /\ Rates(m) /\ Counters(m, at)

RowTypes ==
    /\ sim \in [status : {"pending", "running", "complete", "failed"},
               best : [deck : SUBSET (1..serial), rate : -1..100],
               final : 0..serial]
    /\ DOMAIN roundRow \subseteq Round
    /\ \A r \in DOMAIN roundRow :
          roundRow[r] \in [deck : SUBSET (1..serial), id : 0..serial,
                           rate : -1..100]
    /\ mutations \subseteq [id : 1..serial, round : Round,
                            status : {"applied", "reverted"}]
    /\ DOMAIN deckRows \subseteq 0..serial
    /\ \A i \in DOMAIN deckRows : deckRows[i] \subseteq 1..serial

BatchTypes ==
    /\ wins \in [Batch -> 0..Matches]
    /\ played \in [Batch -> SUBSET (1..serial)]

Places == {"idle", "round", "prepare", "batch", "close", "summary", "track",
           "coach", "analyze", "log", "clone", "target", "finish", "fail"}

TypeInv ==
    /\ serial \in Nat /\ (pc = "log" => serial > 0)
    /\ pc \in Places /\ crashes \in 0..MaxCrashes
    /\ RowTypes /\ BatchTypes
    /\ Locals(mem, pc, serial)

LEMMA MemoryHolds == ASSUME TypeInv PROVE mem \in Memory
<1>1. /\ mem.regressions \in 0..NumRounds /\ mem.hits \in 0..NumRounds
      /\ mem.streak \in [Opp -> 0..NumRounds]
  BY RunAssumption DEF TypeInv, Locals, Place, Counters, Round
<1> QED BY <1>1 DEF TypeInv, Locals, Shape, Place, Decks, Rates, Memory

LEMMA TypesAre == ASSUME IInv, TypeInv PROVE TypeOK
<1>1. /\ checkpoint \in [Batch -> [status : {"pending", "running", "complete", "failed"},
                                  done : 0..Matches]]
      /\ persisted \in [Batch -> 0..Matches]
  <2>1. \A b \in Batch : persisted[b] \in 0..Matches
    BY RunAssumption DEF IInv, CountInv
  <2>2. \A b \in Batch : checkpoint[b] \in [status : {"pending", "running", "complete", "failed"},
                                            done : 0..Matches]
    BY DEF IInv, CountInv
  <2> QED BY <2>1, <2>2 DEF IInv, CountInv
<1> QED BY <1>1, MemoryHolds DEF TypeInv, RowTypes, BatchTypes, Places, TypeOK

LEMMA FreshLocals == ASSUME NEW n \in Nat, NEW at PROVE Locals(FreshMemory, at, n)
  BY RunAssumption DEF Locals, Shape, Place, Decks, Rates, Counters, FreshMemory,
     Round, Opp, UserDeck, UserDeckId, NoRate

LEMMA InitTypes == Init => TypeInv
<1> SUFFICES ASSUME Init PROVE TypeInv
  OBVIOUS
<1>1. serial = 0 /\ pc = "idle" /\ crashes = 0 /\ mem = FreshMemory
  BY DEF Init
<1>2. Locals(mem, pc, serial)
  BY <1>1, FreshLocals
<1>3. RowTypes /\ BatchTypes
  BY RunAssumption DEF Init, RowTypes, BatchTypes, UserDeck, UserDeckId, NoRate
<1> QED BY <1>1, <1>2, <1>3, RunAssumption DEF TypeInv, Places

\* The rows are typed for a longer life of the names.
LEMMA RowsStay ==
  ASSUME TypeInv, UNCHANGED <<sim, roundRow, mutations, deckRows>>,
         serial' \in {serial, serial + 1}
  PROVE  RowTypes'
<1>1. 0..serial \subseteq 0..serial' /\ 1..serial \subseteq 1..serial'
  BY DEF TypeInv
<1>2. sim' \in [status : {"pending", "running", "complete", "failed"},
                best : [deck : SUBSET (1..serial'), rate : -1..100],
                final : 0..serial']
  BY <1>1 DEF TypeInv, RowTypes
<1>3. \A r \in DOMAIN roundRow' :
          roundRow'[r] \in [deck : SUBSET (1..serial'), id : 0..serial',
                            rate : -1..100]
  BY <1>1 DEF TypeInv, RowTypes
<1>4. mutations' \subseteq [id : 1..serial', round : Round,
                            status : {"applied", "reverted"}]
  BY <1>1 DEF TypeInv, RowTypes
<1> QED BY <1>1, <1>2, <1>3, <1>4 DEF TypeInv, RowTypes

LEMMA BatchesStay ==
  ASSUME TypeInv, UNCHANGED <<wins, played>>, serial' \in {serial, serial + 1}
  PROVE  BatchTypes'
<1>1. 1..serial \subseteq 1..serial'
  BY DEF TypeInv
<1> QED BY <1>1 DEF TypeInv, BatchTypes

\* The worker starts anew.
LEMMA TypesFresh ==
  ASSUME TypeInv, Start \/ Crash \/ FailRun \/ Finish
  PROVE  TypeInv'
<1>1. /\ mem' = FreshMemory /\ pc' \in {"idle", "round"}
      /\ UNCHANGED <<roundRow, wins, played, mutations, deckRows, serial>>
      /\ serial \in Nat
  BY DEF TypeInv, Start, Crash, FailRun, Finish
<1>2. sim' \in [status : {"pending", "running", "complete", "failed"},
                best : [deck : SUBSET (1..serial), rate : -1..100],
                final : 0..serial]
  <2>1. mem.id \in 0..serial
    BY DEF TypeInv, Locals, Decks
  <2> QED BY <2>1 DEF TypeInv, RowTypes, Start, Crash, FailRun, Finish
<1>3. RowTypes'
  BY <1>1, <1>2 DEF TypeInv, RowTypes
<1>4. Locals(mem, pc, serial)'
  BY <1>1, FreshLocals
<1>5. crashes' \in 0..MaxCrashes
  BY RunAssumption DEF TypeInv, Start, Crash, FailRun, Finish
<1> QED BY <1>1, <1>3, <1>4, <1>5, BatchesStay DEF TypeInv, Places

\* The worker moves, and its memory and all rows stay.
LEMMA TypesMoved ==
  ASSUME TypeInv,
         \/ StepRaises \/ CoachBlocked \/ CoachKeeps \/ CoachFails \/ LogFails
         \/ CloneFails
  PROVE  TypeInv'
<1>1. /\ UNCHANGED <<sim, roundRow, wins, played, mutations, deckRows, mem, serial,
                     crashes>>
      /\ \/ pc' = "fail"
         \/ pc \in Coaching /\ pc' \in Coaching /\ pc' # "log"
  BY DEF StepRaises, CoachBlocked, CoachKeeps, CoachFails, LogFails, CloneFails, Coaching
<1>2. Counters(mem, pc')
  BY <1>1 DEF TypeInv, Locals, Counters, Coaching
<1>3. Locals(mem, pc, serial)'
  BY <1>1, <1>2 DEF TypeInv, Locals
<1> QED BY <1>1, <1>3, RowsStay, BatchesStay DEF TypeInv, Places, Coaching

LEMMA TypesRecover == ASSUME TypeInv, Recover PROVE TypeInv'
<1>1. /\ UNCHANGED <<roundRow, wins, played, mutations, deckRows, mem, pc, serial, crashes>>
      /\ \E st \in {"failed", "pending"} : sim' = [sim EXCEPT !.status = st]
  BY DEF Recover
<1>2. RowTypes'
  BY <1>1 DEF TypeInv, RowTypes
<1> QED BY <1>1, <1>2, BatchesStay DEF TypeInv

LEMMA TypesOpenRound == ASSUME TypeInv, OpenRound PROVE TypeInv'
<1>1. /\ UNCHANGED <<sim, wins, played, mutations, deckRows, serial, crashes>>
      /\ pc = "round" /\ pc' = "prepare" /\ serial \in Nat
  BY DEF OpenRound, TypeInv
<1>2. /\ Shape(mem) /\ Place(mem) /\ Decks(mem, serial) /\ Rates(mem)
      /\ Counters(mem, pc)
  BY DEF TypeInv, Locals
<1>3. \/ mem.round \notin DOMAIN roundRow
      \/ /\ mem.round \in DOMAIN roundRow
         /\ roundRow[mem.round] \in [deck : SUBSET (1..serial), id : 0..serial,
                                     rate : -1..100]
  BY DEF TypeInv, RowTypes
<1>4. RowTypes'
  <2>1. [deck |-> mem.deck, id |-> mem.id, rate |-> NoRate]
           \in [deck : SUBSET (1..serial), id : 0..serial, rate : -1..100]
    BY <1>2 DEF Decks, NoRate
  <2>2. /\ DOMAIN roundRow' = DOMAIN roundRow \cup {mem.round}
        /\ \A r \in DOMAIN roundRow' :
              \/ r \in DOMAIN roundRow /\ roundRow'[r] = roundRow[r]
              \/ roundRow'[r] = [deck |-> mem.deck, id |-> mem.id, rate |-> NoRate]
    BY DEF OpenRound, Put
  <2> QED BY <1>1, <1>2, <2>1, <2>2 DEF TypeInv, RowTypes, Place
<1>5. Shape(mem') /\ Place(mem')
  <2>1. Shape(mem') /\ mem'.round = mem.round /\ mem'.opp = 1
        /\ mem'.skipped = FALSE /\ mem'.batch = mem.batch
        /\ mem'.result = [o \in Opp |-> NoRate]
    BY <1>2 DEF Shape, OpenRound
  <2>2. 1 \in 1..(NumOpps + 1) /\ NoRate \in -1..Matches
    BY RunAssumption DEF NoRate
  <2> QED BY <1>2, <2>1, <2>2 DEF Place
<1>6. Decks(mem', serial) /\ Rates(mem')
  <2>1. CASE mem.round \notin DOMAIN roundRow
    BY <1>2, <2>1 DEF Shape, Decks, Rates, OpenRound
  <2>2. CASE mem.round \in DOMAIN roundRow
    <3>1. mem' = [mem EXCEPT !.opp = 1, !.skipped = FALSE,
                             !.result = [o \in Opp |-> NoRate],
                             !.deck = roundRow[mem.round].deck,
                             !.id = roundRow[mem.round].id, !.rawText = FALSE]
      BY <1>2, <2>2 DEF Shape, OpenRound
    <3>2. roundRow[mem.round].deck \subseteq 1..serial /\ roundRow[mem.round].id \in 0..serial
      BY <1>3, <2>2
    <3> QED BY <1>2, <3>1, <3>2 DEF Shape, Decks, Rates
  <2> QED BY <2>1, <2>2
<1>7. Counters(mem', pc')
  BY <1>1, <1>2 DEF Shape, Counters, OpenRound, Coaching
<1> QED BY <1>1, <1>4, <1>5, <1>6, <1>7, BatchesStay DEF TypeInv, Locals, Places

\* Going on to the next opponent.
LEMMA LocalsNext ==
  ASSUME TypeInv, NEW memory, NextOpponent(memory), pc \in {"prepare", "close"},
         mem.opp \in Opp, Locals(memory, pc, serial), memory.opp = mem.opp
  PROVE  Locals(mem', pc', serial) /\ pc' \in {"prepare", "summary"}
<1>1. /\ Shape(memory) /\ Place(memory) /\ Decks(memory, serial) /\ Rates(memory)
      /\ Counters(memory, pc)
  BY DEF Locals
<1>2. Shape(mem') /\ Place(mem')
  <2>1. Shape(mem') /\ mem'.round = memory.round /\ mem'.opp = memory.opp + 1
        /\ mem'.skipped = memory.skipped /\ mem'.batch = memory.batch
        /\ mem'.result = memory.result
    BY <1>1 DEF Shape, NextOpponent
  <2>2. memory.opp + 1 \in 1..(NumOpps + 1)
    BY RunAssumption DEF Opp
  <2> QED BY <1>1, <2>1, <2>2 DEF Place
<1>3. Decks(mem', serial) /\ Rates(mem')
  BY <1>1 DEF Shape, Decks, Rates, NextOpponent
<1>4. Counters(mem', pc')
  BY <1>1 DEF Shape, Counters, NextOpponent, Coaching
<1> QED BY <1>2, <1>3, <1>4 DEF Locals, NextOpponent

\* A result of a batch is noted.
LEMMA LocalsResult ==
  ASSUME NEW m, NEW at, NEW n, Locals(m, at, n), NEW memory,
         \E o \in Opp, w \in -1..Matches :
            \/ memory = [m EXCEPT !.result[o] = w]
            \/ memory = [m EXCEPT !.skipped = TRUE, !.result[o] = w]
  PROVE  Locals(memory, at, n) /\ memory.opp = m.opp
<1>0. PICK o \in Opp, w \in -1..Matches :
            \/ memory = [m EXCEPT !.result[o] = w]
            \/ memory = [m EXCEPT !.skipped = TRUE, !.result[o] = w]
  OBVIOUS
<1>1. Shape(m) /\ Place(m) /\ Decks(m, n) /\ Rates(m) /\ Counters(m, at)
  BY DEF Locals
<1>2. /\ Shape(memory) /\ memory.opp = m.opp /\ memory.round = m.round
      /\ memory.batch = m.batch
      /\ memory.result = [m.result EXCEPT ![o] = w]
  BY <1>0, <1>1 DEF Shape
<1>3. memory.skipped \in BOOLEAN
  BY <1>0, <1>1 DEF Shape, Place
<1>4. Place(memory)
  BY <1>1, <1>2, <1>3 DEF Place
<1>5. Decks(memory, n) /\ Rates(memory)
  BY <1>0, <1>1 DEF Shape, Decks, Rates
<1>6. Counters(memory, at)
  BY <1>0, <1>1 DEF Shape, Counters
<1> QED BY <1>2, <1>4, <1>5, <1>6 DEF Locals

LEMMA TypesPrepare == ASSUME IInv, TypeInv, Prepare PROVE TypeInv'
<1>1. /\ UNCHANGED <<sim, roundRow, wins, played, mutations, deckRows, serial, crashes>>
      /\ pc = "prepare" /\ Here \in Batch /\ AtBatch
      /\ Verdict(Here) \in {"run", "skip"}
  BY HereIsBatch, VerdictIsRunOrSkip DEF Prepare
<1>2. CASE Verdict(Here) = "run"
  <2>1. UNCHANGED mem /\ pc' = "batch"
    BY <1>1, <1>2 DEF Prepare
  <2>2. Locals(mem', pc', serial)
    BY <1>1, <2>1 DEF TypeInv, Locals, Counters, Coaching
  <2> QED BY <1>1, <2>1, <2>2, RowsStay, BatchesStay DEF TypeInv, Places
<1>3. CASE Verdict(Here) = "skip"
  <2> DEFINE memory == [mem EXCEPT !.skipped = TRUE, !.result[mem.opp] = wins[Here]]
  <2>1. NextOpponent(memory)
    BY <1>1, <1>3 DEF Prepare
  <2>2. wins[Here] \in -1..Matches
    BY <1>1, RunAssumption DEF TypeInv, BatchTypes
  <2>3. mem.opp \in Opp
    BY <1>1 DEF AtBatch
  <2>4. memory = [mem EXCEPT !.skipped = TRUE, !.result[mem.opp] = wins[Here]]
    OBVIOUS
  <2> HIDE DEF memory
  <2>6. Locals(mem, pc, serial)
    BY DEF TypeInv
  <2>7. Locals(memory, pc, serial) /\ memory.opp = mem.opp
    <3>1. \E o \in Opp, w \in -1..Matches :
             memory = [mem EXCEPT !.skipped = TRUE, !.result[o] = w]
      BY <2>2, <2>3, <2>4
    <3> QED BY <2>6, <3>1, LocalsResult
  <2>5. Locals(mem', pc', serial) /\ pc' \in {"prepare", "summary"}
    BY <1>1, <2>1, <2>3, <2>7, LocalsNext
  <2> QED BY <1>1, <2>5, RowsStay, BatchesStay DEF TypeInv, Places
<1> QED BY <1>1, <1>2, <1>3

LEMMA TypesCloseBatch == ASSUME IInv, TypeInv, CloseBatch PROVE TypeInv'
<1> DEFINE memory == [mem EXCEPT !.result[mem.opp] = mem.batch]
<1>1. /\ UNCHANGED <<sim, roundRow, wins, played, mutations, deckRows, serial, crashes>>
      /\ pc = "close" /\ mem.opp \in Opp /\ NextOpponent(memory)
  BY HereIsBatch DEF CloseBatch, AtBatch
<1>2. mem.batch \in -1..Matches
  BY DEF TypeInv, Locals, Place
<1>3. memory = [mem EXCEPT !.result[mem.opp] = mem.batch]
  OBVIOUS
<1>4. Locals(memory, pc, serial) /\ memory.opp = mem.opp
  <2> HIDE DEF memory
  <2>1. Locals(mem, pc, serial)
    BY DEF TypeInv
  <2>2. \E o \in Opp, w \in -1..Matches : memory = [mem EXCEPT !.result[o] = w]
    BY <1>1, <1>2, <1>3
  <2> QED BY <2>1, <2>2, LocalsResult
<1> HIDE DEF memory
<1>5. Locals(mem', pc', serial) /\ pc' \in {"prepare", "summary"}
  BY <1>1, <1>4, LocalsNext
<1> QED BY <1>1, <1>5, RowsStay, BatchesStay DEF TypeInv, Places

LEMMA TypesPersistBatch == ASSUME IInv, RateInv, TypeInv, PersistBatch PROVE TypeInv'
<1>1. /\ UNCHANGED <<sim, roundRow, mutations, serial, crashes>>
      /\ pc = "batch" /\ pc' = "close" /\ Here \in Batch
      /\ deckRows' = Put(deckRows, mem.id, mem.deck)
      /\ played' = [played EXCEPT ![Here] = mem.deck]
      /\ persisted[Here] = 0 /\ wins[Here] = 0
  BY HereIsBatch DEF PersistBatch, IInv, PlaceInv, RateInv
<1>2. PICK w \in 0..Matches : /\ wins' = [wins EXCEPT ![Here] = @ + w]
                              /\ mem' = [mem EXCEPT !.batch = w]
  BY DEF PersistBatch
<1>3. /\ Shape(mem) /\ Place(mem) /\ Decks(mem, serial) /\ Rates(mem)
      /\ Counters(mem, pc)
  BY DEF TypeInv, Locals
<1>4. RowTypes'
  <2>1. /\ DOMAIN deckRows' = DOMAIN deckRows \cup {mem.id}
        /\ \A i \in DOMAIN deckRows' :
              \/ deckRows'[i] = mem.deck
              \/ i \in DOMAIN deckRows /\ deckRows'[i] = deckRows[i]
    BY <1>1 DEF Put
  <2> QED BY <1>1, <1>3, <2>1 DEF TypeInv, RowTypes, Decks
<1>5. BatchTypes'
  <2>1. wins' = [wins EXCEPT ![Here] = w]
    <3>1. wins[Here] + w = w
      BY <1>1, RunAssumption
    <3> QED BY <1>2, <3>1
  <2>2. wins' \in [Batch -> 0..Matches]
    BY <2>1 DEF TypeInv, BatchTypes
  <2>3. played' \in [Batch -> SUBSET (1..serial)]
    BY <1>1, <1>3 DEF TypeInv, BatchTypes, Decks
  <2> QED BY <1>1, <2>2, <2>3 DEF BatchTypes
<1>6. Locals(mem', pc', serial)
  <2>1. Shape(mem') /\ Decks(mem', serial) /\ Rates(mem')
    BY <1>2, <1>3 DEF Shape, Decks, Rates
  <2>2. Place(mem')
    BY <1>2, <1>3 DEF Shape, Place
  <2>3. Counters(mem', pc')
    BY <1>1, <1>2, <1>3 DEF Shape, Counters, Coaching
  <2> QED BY <2>1, <2>2, <2>3 DEF Locals
<1> QED BY <1>1, <1>4, <1>5, <1>6 DEF TypeInv, Places

\* The rate of a round that is over.
LEMMA RoundRatePercent ==
  ASSUME RateInv, TypeInv, IInv, pc \in {"summary", "track"}
  PROVE  RoundRate \in 0..100
<1>1. \A o \in Opp : mem.result[o] = wins[<<mem.round, o>>]
  BY RunAssumption DEF RateInv, PlayedTo, Opp
<1>2. \A o \in Opp : <<mem.round, o>> \in Batch
  BY DEF Batch, IInv, PlaceInv
<1>3. \A o \in Opp : mem.result[o] \in 0..Matches
  BY <1>1, <1>2 DEF TypeInv, BatchTypes
<1> QED BY <1>3, RateOfPercent DEF RoundRate

LEMMA TypesSummarise == ASSUME IInv, RateInv, TypeInv, Summarise PROVE TypeInv'
<1>1. /\ UNCHANGED <<sim, wins, played, mutations, deckRows, mem, serial, crashes>>
      /\ pc = "summary" /\ pc' = "track"
      /\ roundRow' = [roundRow EXCEPT ![mem.round].rate = RoundRate]
  BY DEF Summarise
<1>2. RoundRate \in 0..100
  BY <1>1, RoundRatePercent
<1>3. \A r \in DOMAIN roundRow' :
         /\ r \in DOMAIN roundRow
         /\ roundRow'[r] \in {roundRow[r], [roundRow[r] EXCEPT !.rate = RoundRate]}
  BY <1>1
<1>4. RowTypes'
  <2>1. \A r \in DOMAIN roundRow :
           [roundRow[r] EXCEPT !.rate = RoundRate]
              \in [deck : SUBSET (1..serial), id : 0..serial, rate : -1..100]
    BY <1>2 DEF TypeInv, RowTypes
  <2> QED BY <1>1, <1>3, <2>1 DEF TypeInv, RowTypes
<1>5. Locals(mem', pc', serial)
  BY <1>1 DEF TypeInv, Locals, Counters, Coaching
<1> QED BY <1>1, <1>4, <1>5, BatchesStay DEF TypeInv, Places

LEMMA TypesTrack == ASSUME IInv, RateInv, TypeInv, Track PROVE TypeInv'
<1>1. /\ UNCHANGED <<roundRow, wins, played, mutations, deckRows, serial, crashes>>
      /\ pc = "track" /\ pc' \in {"coach", "target"}
  BY DEF Track
<1>2. RoundRate \in 0..100
  BY <1>1, RoundRatePercent
<1>3. /\ Shape(mem) /\ Place(mem) /\ Decks(mem, serial) /\ Rates(mem)
      /\ Counters(mem, pc)
  BY DEF TypeInv, Locals
<1>4. RowTypes'
  <2>1. \/ sim' = sim
        \/ sim' = [sim EXCEPT !.best = [deck |-> mem.deck, rate |-> RoundRate]]
    BY DEF Track
  <2>2. [deck |-> mem.deck, rate |-> RoundRate] \in [deck : SUBSET (1..serial), rate : -1..100]
    BY <1>2, <1>3 DEF Decks
  <2>3. sim' \in [status : {"pending", "running", "complete", "failed"},
                  best : [deck : SUBSET (1..serial), rate : -1..100],
                  final : 0..serial]
    BY <2>1, <2>2 DEF TypeInv, RowTypes
  <2> QED BY <1>1, <2>3 DEF TypeInv, RowTypes
<1>5. Locals(mem', pc', serial)
  <2>1. Shape(mem') /\ Place(mem')
    BY <1>3 DEF Track, Shape, Place
  <2>2. Decks(mem', serial)
    BY <1>3 DEF Track, Shape, Decks
  <2>3. Rates(mem')
    <3>1. mem.round \in 0..NumRounds
      BY <1>3, RunAssumption DEF Place, Round
    <3>2. /\ mem'.best \in {mem.best, RoundRate} /\ mem'.prev = RoundRate
          /\ mem'.bestRound \in {mem.bestRound, mem.round}
      BY <1>3 DEF Track, Shape
    <3> QED BY <1>2, <1>3, <3>1, <3>2 DEF Rates
  <2>4. Counters(mem', pc')
    <3>1. mem'.regressions = CheckRegression(RoundRate)
          /\ UNCHANGED <<mem.round, mem.hits, mem.streak>>
      BY <1>3 DEF Track, Shape
    <3>2. CheckRegression(RoundRate) \in {0, mem.regressions + 1}
      BY DEF CheckRegression
    <3>3. mem.regressions < mem.round /\ mem.round \in Nat
      BY <1>1, <1>3 DEF Counters, Coaching, Place, Round
    <3> QED BY <1>1, <1>3, <3>1, <3>2, <3>3 DEF Counters, Coaching
  <2> QED BY <2>1, <2>2, <2>3, <2>4 DEF Locals
<1> QED BY <1>1, <1>4, <1>5, BatchesStay DEF TypeInv, Places

LEMMA TypesCoach ==
  ASSUME IInv, TypeInv,
         CoachReverts \/ CoachAppliesNone \/ CoachApplies \/ LogMutation \/ CloneDeck
  PROVE  TypeInv'
<1>0. /\ Shape(mem) /\ Place(mem) /\ Decks(mem, serial) /\ Rates(mem)
      /\ Counters(mem, pc) /\ serial \in Nat
  BY DEF TypeInv, Locals
<1>1. CASE CoachReverts
  <2>1. /\ UNCHANGED <<sim, roundRow, wins, played, deckRows, serial, crashes>>
        /\ pc = "coach" /\ pc' = "analyze"
        /\ mutations' = MarkReverted(mem.bestRound)
        /\ mem' = [mem EXCEPT !.deck = mem.bestDeck, !.id = mem.bestId,
                              !.rawText = mem.bestRaw, !.regressions = 0]
    BY <1>1 DEF CoachReverts
  <2>2. mutations' \subseteq [id : 1..serial, round : Round,
                              status : {"applied", "reverted"}]
    BY <2>1 DEF TypeInv, RowTypes, MarkReverted
  <2>3. RowTypes'
    BY <2>1, <2>2 DEF TypeInv, RowTypes
  <2>4. Shape(mem') /\ Place(mem') /\ Decks(mem', serial) /\ Rates(mem')
    BY <1>0, <2>1 DEF Shape, Place, Decks, Rates
  <2>5. Counters(mem', pc')
    BY <1>0, <2>1 DEF Shape, Counters, Coaching, Place, Round
  <2> QED BY <2>1, <2>3, <2>4, <2>5, BatchesStay DEF TypeInv, Places, Locals
<1>2. CASE CoachAppliesNone
  <2>1. /\ UNCHANGED <<sim, roundRow, wins, played, mutations, deckRows, serial, crashes>>
        /\ pc = "analyze" /\ pc' \in {"clone", "target"}
        /\ mem' = [mem EXCEPT !.rawText = FALSE]
    BY <1>2 DEF CoachAppliesNone
  <2>2. Shape(mem') /\ Place(mem') /\ Decks(mem', serial) /\ Rates(mem')
    BY <1>0, <2>1 DEF Shape, Place, Decks, Rates
  <2>3. Counters(mem', pc')
    BY <1>0, <2>1 DEF Shape, Counters, Coaching
  <2> QED BY <2>1, <2>2, <2>3, RowsStay, BatchesStay DEF TypeInv, Places, Locals
<1>3. CASE CoachApplies
  <2>1. /\ UNCHANGED <<sim, roundRow, wins, played, mutations, deckRows, crashes>>
        /\ pc = "analyze" /\ pc' = "log" /\ serial' = serial + 1
        /\ mem' = [mem EXCEPT !.deck = @ \cup {serial'}, !.rawText = FALSE]
    BY <1>3 DEF CoachApplies
  <2>2. /\ mem'.deck = mem.deck \cup {serial + 1} /\ mem'.rawText = FALSE
        /\ UNCHANGED <<mem.id, mem.bestDeck, mem.bestId, mem.bestRaw>>
        /\ Shape(mem') /\ Place(mem') /\ Rates(mem')
    BY <1>0, <2>1 DEF Shape, Place, Rates
  <2>3. Decks(mem', serial')
    BY <1>0, <2>1, <2>2 DEF Decks
  <2>4. Counters(mem', pc')
    BY <1>0, <2>1 DEF Shape, Counters, Coaching
  <2>5. serial' \in Nat /\ serial' > 0
    BY <1>0, <2>1
  <2> QED BY <2>1, <2>2, <2>3, <2>4, <2>5, RowsStay, BatchesStay DEF TypeInv, Places, Locals
<1>4. CASE LogMutation
  <2>1. /\ UNCHANGED <<sim, roundRow, wins, played, deckRows, mem, serial, crashes>>
        /\ pc = "log" /\ pc' = "clone"
        /\ mutations' = mutations \cup
              {[id |-> serial, round |-> mem.round, status |-> "applied"]}
    BY <1>4 DEF LogMutation
  <2>2. serial \in 1..serial
    BY <2>1 DEF TypeInv
  <2>3. RowTypes'
    BY <1>0, <2>1, <2>2 DEF TypeInv, RowTypes, Place
  <2>4. Counters(mem', pc')
    BY <1>0, <2>1 DEF Counters, Coaching
  <2> QED BY <1>0, <2>1, <2>3, <2>4, BatchesStay DEF TypeInv, Places, Locals
<1>5. CASE CloneDeck
  <2>1. /\ UNCHANGED <<sim, roundRow, wins, played, mutations, crashes>>
        /\ pc = "clone" /\ pc' = "target" /\ serial' = serial + 1
        /\ deckRows' = Put(deckRows, serial', mem.deck)
        /\ mem' = [mem EXCEPT !.id = serial']
    BY <1>5 DEF CloneDeck
  <2>2. /\ serial' \in Nat /\ serial' \in 0..serial'
        /\ 0..serial \subseteq 0..serial' /\ 1..serial \subseteq 1..serial'
    BY <1>0, <2>1
  <2>3. /\ DOMAIN deckRows' = DOMAIN deckRows \cup {serial'}
        /\ \A i \in DOMAIN deckRows' :
              \/ deckRows'[i] = mem.deck
              \/ i \in DOMAIN deckRows /\ deckRows'[i] = deckRows[i]
    BY <2>1 DEF Put
  <2>4. /\ DOMAIN deckRows' \subseteq 0..serial'
        /\ \A i \in DOMAIN deckRows' : deckRows'[i] \subseteq 1..serial'
    <3>1. mem.deck \subseteq 1..serial'
      BY <1>0, <2>2 DEF Decks
    <3>2. \A i \in DOMAIN deckRows : i \in 0..serial' /\ deckRows[i] \subseteq 1..serial'
      BY <2>2 DEF TypeInv, RowTypes
    <3> QED BY <2>2, <2>3, <3>1, <3>2
  <2>5. /\ sim' \in [status : {"pending", "running", "complete", "failed"},
                     best : [deck : SUBSET (1..serial'), rate : -1..100],
                     final : 0..serial']
        /\ \A r \in DOMAIN roundRow' :
              roundRow'[r] \in [deck : SUBSET (1..serial'), id : 0..serial',
                                rate : -1..100]
        /\ mutations' \subseteq [id : 1..serial', round : Round,
                                 status : {"applied", "reverted"}]
        /\ DOMAIN roundRow' \subseteq Round
    <3>1. sim \in [status : {"pending", "running", "complete", "failed"},
                     best : [deck : SUBSET (1..serial'), rate : -1..100],
                     final : 0..serial']
      BY <2>2 DEF TypeInv, RowTypes
    <3>2. \A r \in DOMAIN roundRow :
              roundRow[r] \in [deck : SUBSET (1..serial'), id : 0..serial',
                                rate : -1..100]
      BY <2>2 DEF TypeInv, RowTypes
    <3>3. mutations \subseteq [id : 1..serial', round : Round,
                                 status : {"applied", "reverted"}]
      BY <2>2 DEF TypeInv, RowTypes
    <3> QED BY <2>1, <3>1, <3>2, <3>3 DEF TypeInv, RowTypes
  <2>6. RowTypes'
    BY <2>4, <2>5 DEF RowTypes
  <2>7. /\ mem'.id = serial' /\ UNCHANGED <<mem.deck, mem.rawText, mem.bestDeck, mem.bestId, mem.bestRaw>>
        /\ Shape(mem') /\ Place(mem') /\ Rates(mem')
    BY <1>0, <2>1 DEF Shape, Place, Rates
  <2>8. Decks(mem', serial')
    BY <1>0, <2>2, <2>7 DEF Decks
  <2>9. Counters(mem', pc')
    BY <1>0, <2>1 DEF Shape, Counters, Coaching
  <2> QED BY <2>1, <2>2, <2>6, <2>7, <2>8, <2>9, BatchesStay DEF TypeInv, Places, Locals
<1> QED BY <1>1, <1>2, <1>3, <1>4, <1>5

LEMMA TypesCheckTarget == ASSUME IInv, TypeInv, CheckTarget PROVE TypeInv'
<1>1. /\ UNCHANGED <<sim, roundRow, wins, played, mutations, deckRows, serial, crashes>>
      /\ pc = "target" /\ pc' \in {"round", "finish"}
      /\ pc' = "round" => mem.round < NumRounds
  BY DEF CheckTarget
<1>2. /\ Shape(mem) /\ Place(mem) /\ Decks(mem, serial) /\ Rates(mem)
      /\ Counters(mem, pc)
  BY DEF TypeInv, Locals
<1>3. Shape(mem') /\ Decks(mem', serial) /\ Rates(mem')
  BY <1>2 DEF CheckTarget, Shape, Decks, Rates
<1>4. /\ mem'.round = IF pc' = "round" THEN mem.round + 1 ELSE mem.round
      /\ mem'.opp = mem.opp /\ mem'.skipped = mem.skipped /\ mem'.batch = mem.batch
      /\ mem'.result = mem.result /\ mem'.regressions = mem.regressions
      /\ mem'.hits \in {mem.hits, Hits} /\ mem'.streak \in {mem.streak, Streaks}
  BY <1>2 DEF CheckTarget, Shape
<1>5. Place(mem')
  BY <1>1, <1>2, <1>4, RunAssumption DEF Place, Round
<1>6. Counters(mem', pc')
  <2>1. mem.round \in Nat
    BY <1>2 DEF Place, Round
  <2>2. mem'.hits \in Nat /\ mem'.hits <= mem.round
    <3>1. Hits \in {0, mem.hits + 1}
      BY DEF Hits
    <3> QED BY <1>1, <1>2, <1>4, <2>1, <3>1 DEF Counters
  <2>3. mem'.streak \in [Opp -> Nat] /\ \A o \in Opp : mem'.streak[o] <= mem.round
    <3>1. Streaks = [o \in Opp |-> Streaks[o]] /\ \A o \in Opp : Streaks[o] \in {0, mem.streak[o] + 1}
      BY DEF Streaks
    <3>2. \A o \in Opp : mem.streak[o] \in Nat /\ mem.streak[o] < mem.round
      BY <1>1, <1>2 DEF Counters
    <3>3. \A o \in Opp : Streaks[o] \in Nat /\ Streaks[o] <= mem.round
      BY <2>1, <3>1, <3>2
    <3>4. Streaks \in [Opp -> Nat]
      BY <3>1, <3>3
    <3> HIDE DEF Streaks
    <3>5. CASE mem'.streak = mem.streak
      BY <1>2, <3>5 DEF Counters
    <3> QED BY <1>4, <3>3, <3>4, <3>5
  <2>4. mem.regressions \in Nat /\ mem.regressions <= mem.round
    BY <1>2 DEF Counters
  <2>5. pc' = "round" => mem'.round = mem.round + 1
    BY <1>4
  <2>6. pc' # "round" => mem'.round = mem.round /\ pc' = "finish"
    BY <1>1, <1>4
  <2> QED BY <1>1, <1>4, <2>1, <2>2, <2>3, <2>4, <2>5, <2>6 DEF Counters, Coaching
<1> QED BY <1>1, <1>3, <1>5, <1>6, RowsStay, BatchesStay DEF TypeInv, Places, Locals

LEMMA StepTypes == IInv /\ RateInv /\ TypeInv /\ [Next]_vars => TypeInv'
<1> SUFFICES ASSUME IInv, RateInv, TypeInv, [Next]_vars PROVE TypeInv'
  OBVIOUS
<1>1. CASE UNCHANGED vars
  <2>1. /\ UNCHANGED <<sim, roundRow, wins, played, mutations, deckRows, serial>>
        /\ UNCHANGED <<pc, mem, crashes>>
    BY <1>1 DEF vars
  <2> QED BY <2>1, RowsStay, BatchesStay DEF TypeInv
<1>2. CASE RoundStep
  BY <1>2, TypesOpenRound, TypesPrepare, TypesPersistBatch, TypesCloseBatch,
     TypesSummarise, TypesTrack DEF RoundStep
<1>3. CASE CoachStep
  BY <1>3, TypesMoved, TypesCoach DEF CoachStep
<1>4. CASE Start \/ CheckTarget \/ Finish \/ StepRaises \/ FailRun \/ Recover \/ Crash
  BY <1>4, TypesFresh, TypesMoved, TypesRecover, TypesCheckTarget
<1> QED BY <1>1, <1>2, <1>3, <1>4 DEF Next, WorkerStep

LEMMA TypeInvariance == Spec => [](IInv /\ RateInv /\ TypeInv)
<1>1. IInv /\ RateInv /\ [Next]_vars => RateInv'
  BY StepRate
<1>2. IInv /\ [Next]_vars => IInv'
  BY StepInv
<1>3. IInv /\ RateInv /\ TypeInv /\ [Next]_vars => TypeInv'
  BY StepTypes
<1> QED BY InitInv, InitRate, InitTypes, <1>1, <1>2, <1>3, PTL DEF Spec

\* The state has the types TypeOK says, whatever the length of the schedule
\* and the number of crashes: rates are percentages, no counter exceeds the
\* rounds played, no row names a deck that was not made.
THEOREM TypesHold == Spec => []TypeOK
<1>1. IInv /\ RateInv /\ TypeInv => TypeOK
  BY TypesAre
<1> QED BY <1>1, TypeInvariance, PTL

-----------------------------------------------------------------------------
(* The best deck.  A replay visits the rounds that have rows again; what it *)
(* finds there decides alone when it stops, because the streaks are those   *)
(* of the rows.  So it stops after the last round that has a row, and has   *)
(* compared them all.                                                       *)

\* The round is over and its rate is known.
Tracked == Coaching \cup {"finish"}

Active == pc \notin {"idle", "fail"}

\* The rounds, by the rows, whose rate is on target: of all matches, and of
\* those against one opponent.
Good == {r \in Round : StoredRate(r) >= Target}
Beaten(o) == {r \in Round : WinRatePct(wins[<<r, o>>], Matches) >= Target}

\* n is the number of rounds up to r that are in S without a break.
StreakIs(S, r, n) ==
    /\ n \in 0..r
    /\ (r - n + 1)..r \subseteq S
    /\ n < r => r - n \notin S

LongStreak(S, r) == Confirm <= r /\ (r - Confirm + 1)..r \subseteq S

\* The target is met after round r.
Met(r) ==
    IF TargetMode = "per_opponent"
    THEN Confirm > 0 /\ \A o \in Opp : LongStreak(Beaten(o), r)
    ELSE LongStreak(Good, r)

\* A round after which the run went on.
Passed(q) == q \in DOMAIN roundRow /\ roundRow[q].rate # NoRate /\ ~Met(q)

RowInv == \A r \in DOMAIN roundRow : \A q \in 1..(r - 1) : Passed(q)

WorkerInv ==
    /\ pc # "idle" => sim.status = "running"
    /\ Active => \A q \in 1..(mem.round - 1) : Passed(q)
    /\ pc \in {"prepare", "batch", "close", "summary", "track"} =>
          mem.round \in DOMAIN roundRow /\ mem.deck = roundRow[mem.round].deck
    /\ pc \in Tracked \cup {"track"} =>
          /\ mem.round \in DOMAIN roundRow
          /\ roundRow[mem.round].rate = StoredRate(mem.round)
          /\ PlayedTo(mem.round, NumOpps + 1)

StreakInv ==
    Active /\ pc # "finish" =>
       IF TargetMode = "per_opponent"
       THEN \A o \in Opp : StreakIs(Beaten(o), mem.round - 1, mem.streak[o])
       ELSE StreakIs(Good, mem.round - 1, mem.hits)

EndInv == pc = "finish" => mem.round = NumRounds \/ Met(mem.round)

\* The rounds up to t were compared.
BestOf(t) ==
    /\ mem.bestRound \in 1..t
    /\ \A q \in 1..t : q \in DOMAIN roundRow
    /\ roundRow[mem.bestRound].rate = mem.best
    /\ roundRow[mem.bestRound].deck = mem.bestDeck
    /\ \A q \in 1..t :
          roundRow[q].rate <= mem.best - (IF q < mem.bestRound THEN 1 ELSE 0)
    /\ sim.best = [deck |-> mem.bestDeck, rate |-> mem.best]

BestTo(t) == IF t = 0 THEN mem.best = NoRate ELSE BestOf(t)

BestInv ==
    /\ Active /\ pc \notin Tracked => BestTo(mem.round - 1)
    /\ pc \in Tracked => BestTo(mem.round)

DoneInv == sim.status = "complete" => pc = "idle" /\ BestAtCompletion

AllBestInv == RowInv /\ WorkerInv /\ StreakInv /\ EndInv /\ BestInv /\ DoneInv

LEMMA StreakNext ==
  ASSUME NEW S, NEW r \in Nat \ {0}, NEW n, StreakIs(S, r - 1, n)
  PROVE  StreakIs(S, r, IF r \in S THEN n + 1 ELSE 0)
<1>1. CASE r \in S
  <2>1. n + 1 \in 0..r /\ (n + 1 < r => r - (n + 1) \notin S)
    BY DEF StreakIs
  <2>2. ASSUME NEW i \in (r - (n + 1) + 1)..r PROVE i \in S
    <3>1. i = r \/ i \in (r - 1 - n + 1)..(r - 1)
      BY DEF StreakIs
    <3> QED BY <1>1, <3>1 DEF StreakIs
  <2> QED BY <1>1, <2>1, <2>2 DEF StreakIs
<1>2. CASE r \notin S
  BY <1>2 DEF StreakIs
<1> QED BY <1>1, <1>2

LEMMA StreakLong ==
  ASSUME NEW S, NEW r \in Nat, NEW n, StreakIs(S, r, n)
  PROVE  n >= Confirm <=> LongStreak(S, r)
<1>0. Confirm \in Nat /\ n \in 0..r
  BY RunAssumption DEF StreakIs
<1>1. ASSUME n >= Confirm PROVE LongStreak(S, r)
  BY <1>0, <1>1 DEF StreakIs, LongStreak
<1>2. ASSUME LongStreak(S, r), n < Confirm PROVE FALSE
  <2>1. r - n \in (r - Confirm + 1)..r /\ n < r
    BY <1>0, <1>2 DEF LongStreak
  <2> QED BY <1>2, <2>1 DEF StreakIs, LongStreak
<1> QED BY <1>0, <1>1, <1>2

\* What the target rules compute is what the rows say.
LEMMA TargetByRows ==
  ASSUME IInv, RateInv, TypeInv, AllBestInv, pc = "target"
  PROVE  /\ IF TargetMode = "per_opponent"
            THEN \A o \in Opp : StreakIs(Beaten(o), mem.round, Streaks[o])
            ELSE StreakIs(Good, mem.round, Hits)
         /\ TargetMet <=> Met(mem.round)
<1>1. mem.round \in Round /\ mem.round \in Nat \ {0}
  BY DEF IInv, PlaceInv, Round
<1>2. \A o \in Opp : mem.result[o] = wins[<<mem.round, o>>]
  BY RunAssumption DEF AllBestInv, WorkerInv, Tracked, Coaching, PlayedTo, Opp
<1>3. RoundRate = StoredRate(mem.round)
  <2>1. mem.result = [o \in Opp |-> wins[<<mem.round, o>>]]
    BY <1>2 DEF RateInv
  <2> QED BY <2>1 DEF RoundRate, StoredRate
<1>4. CASE TargetMode = "per_opponent"
  <2>1. ASSUME NEW o \in Opp
        PROVE  StreakIs(Beaten(o), mem.round, Streaks[o])
    <3>1. StreakIs(Beaten(o), mem.round - 1, mem.streak[o])
      BY <1>4 DEF AllBestInv, StreakInv, Active
    <3>2. Streaks[o] = IF mem.round \in Beaten(o) THEN mem.streak[o] + 1 ELSE 0
      BY <1>1, <1>2 DEF Streaks, Beaten
    <3> QED BY <1>1, <3>1, <3>2, StreakNext
  <2>2. \A o \in Opp : Streaks[o] >= Confirm <=> LongStreak(Beaten(o), mem.round)
    BY <1>1, <2>1, StreakLong
  <2> QED BY <1>4, <2>1, <2>2 DEF TargetMet, Met
<1>5. CASE TargetMode # "per_opponent"
  <2>1. StreakIs(Good, mem.round - 1, mem.hits)
    BY <1>5 DEF AllBestInv, StreakInv, Active
  <2>2. Hits = IF mem.round \in Good THEN mem.hits + 1 ELSE 0
    BY <1>1, <1>3 DEF Hits, Good
  <2>3. StreakIs(Good, mem.round, Hits)
    BY <1>1, <2>1, <2>2, StreakNext
  <2>4. Hits >= Confirm <=> LongStreak(Good, mem.round)
    BY <1>1, <2>3, StreakLong
  <2> QED BY <1>5, <2>3, <2>4 DEF TargetMet, Met
<1> QED BY <1>4, <1>5

LEMMA InitBest == Init => AllBestInv
  BY DEF Init, AllBestInv, RowInv, WorkerInv, StreakInv, EndInv, BestInv, DoneInv,
     Active, Tracked, Coaching

\* What the rows say of a round changes with the rows only.
LEMMA SameRows ==
  ASSUME UNCHANGED <<roundRow, wins>>
  PROVE  /\ \A r : StoredRate(r)' = StoredRate(r)
         /\ Good' = Good /\ \A o : Beaten(o)' = Beaten(o)
         /\ \A q : Passed(q)' <=> Passed(q)
         /\ RowInv' <=> RowInv
  BY DEF StoredRate, Good, Beaten, Passed, Met, LongStreak, RowInv

\* The worker goes on within a round, and no row of a round changes.
LEMMA BestKeeps ==
  ASSUME AllBestInv, UNCHANGED <<sim, roundRow, wins, persisted>>,
         UNCHANGED <<mem.round, mem.hits, mem.streak, mem.best, mem.bestRound,
                     mem.bestDeck>>,
         \/ pc \in Coaching /\ pc' \in Coaching /\ mem'.result = mem.result
         \/ /\ pc \in {"prepare", "batch", "close"}
            /\ pc' \in {"prepare", "batch", "close", "summary"}
            /\ mem'.deck = mem.deck
  PROVE  AllBestInv'
<1>1. /\ \A r : StoredRate(r)' = StoredRate(r)
      /\ Good' = Good /\ \A o : Beaten(o)' = Beaten(o)
      /\ \A q : Passed(q)' <=> Passed(q)
      /\ RowInv'
  BY SameRows DEF AllBestInv
<1>2. WorkerInv'
  <2>1. pc \in Coaching => PlayedTo(mem.round, NumOpps + 1)'
    BY DEF AllBestInv, WorkerInv, Tracked, Coaching, PlayedTo
  <2> QED BY <1>1, <2>1 DEF AllBestInv, WorkerInv, Tracked, Coaching, Active
<1>3. StreakInv'
  BY <1>1 DEF AllBestInv, StreakInv, Active, Coaching
<1>4. EndInv' /\ DoneInv'
  BY DEF AllBestInv, EndInv, DoneInv, WorkerInv, Coaching
<1>5. BestInv'
  BY DEF AllBestInv, BestInv, BestTo, BestOf, Tracked, Coaching, Active
<1> QED BY <1>1, <1>2, <1>3, <1>4, <1>5 DEF AllBestInv

\* The worker stops, and the run is not complete.
LEMMA BestStops ==
  ASSUME AllBestInv, UNCHANGED <<roundRow, wins>>,
         \/ pc' = "idle" /\ pc # "idle" /\ sim'.status \in {"running", "failed"}
         \/ pc' = "idle" /\ sim'.status \in {"pending", "failed"}
         \/ pc' = "fail" /\ pc \notin {"idle", "fail"} /\ sim' = sim
  PROVE  AllBestInv'
<1>1. RowInv'
  BY SameRows DEF AllBestInv
<1>2. WorkerInv' /\ StreakInv' /\ EndInv' /\ BestInv' /\ DoneInv'
  BY DEF AllBestInv, WorkerInv, StreakInv, EndInv, BestInv, DoneInv, Active, Tracked, Coaching
<1> QED BY <1>1, <1>2 DEF AllBestInv

LEMMA BestQuiet ==
  ASSUME TypeInv, AllBestInv,
         \/ Crash \/ FailRun \/ Recover \/ StepRaises \/ CoachStep \/ Prepare \/ CloseBatch
  PROVE  AllBestInv'
<1>0. Shape(mem)
  BY DEF TypeInv, Locals
<1>1. CASE Crash \/ Recover \/ StepRaises \/ CoachBlocked
  <2>1. UNCHANGED <<roundRow, wins>>
    BY <1>1 DEF Crash, Recover, StepRaises, CoachBlocked
  <2>2. CASE Crash
    BY <2>1, <2>2, BestStops DEF Crash, AllBestInv, WorkerInv
  <2>3. CASE Recover
    <3>1. sim'.status \in {"pending", "failed"}
      BY <2>3 DEF Recover, TypeInv, RowTypes
    <3> QED BY <2>1, <2>3, <3>1, BestStops DEF Recover
  <2>4. CASE StepRaises \/ CoachBlocked
    BY <2>1, <2>4, BestStops DEF StepRaises, CoachBlocked
  <2> QED BY <1>1, <2>2, <2>3, <2>4
<1>2. CASE FailRun
  <2>1. sim'.status = "failed"
    BY <1>2 DEF FailRun, TypeInv, RowTypes
  <2> QED BY <1>2, <2>1, BestStops DEF FailRun
<1>3. CASE CoachStep /\ ~CoachBlocked
  <2>1. /\ UNCHANGED <<sim, roundRow, wins, persisted>>
        /\ pc \in Coaching /\ pc' \in Coaching
    BY <1>3 DEF CoachStep, CoachReverts, CoachKeeps, CoachFails, CoachAppliesNone,
       CoachApplies, LogMutation, LogFails, CloneDeck, CloneFails, Coaching
  <2>2. UNCHANGED <<mem.round, mem.hits, mem.streak, mem.best, mem.bestRound,
                    mem.bestDeck, mem.result>>
    BY <1>0, <1>3 DEF Shape, CoachStep, CoachReverts, CoachKeeps, CoachFails, CoachAppliesNone,
       CoachApplies, LogMutation, LogFails, CloneDeck, CloneFails
  <2> QED BY <2>1, <2>2, BestKeeps
<1>4. CASE Prepare
  <2>1. /\ UNCHANGED <<sim, roundRow, wins, persisted>>
        /\ pc = "prepare" /\ pc' \in {"prepare", "batch", "summary", "fail"}
    BY <1>4 DEF Prepare, NextOpponent, Verdict
  <2>2. UNCHANGED <<mem.round, mem.hits, mem.streak, mem.best, mem.bestRound,
                    mem.bestDeck, mem.deck>>
    <3>1. CASE mem' = mem
      BY <3>1
    <3>2. CASE NextOpponent([mem EXCEPT !.skipped = TRUE, !.result[mem.opp] = wins[Here]])
      <4> DEFINE memory == [mem EXCEPT !.skipped = TRUE, !.result[mem.opp] = wins[Here]]
      <4>1. /\ Shape(memory)
            /\ memory.round = mem.round /\ memory.hits = mem.hits /\ memory.streak = mem.streak
            /\ memory.best = mem.best /\ memory.bestRound = mem.bestRound
            /\ memory.bestDeck = mem.bestDeck /\ memory.deck = mem.deck
        <5>1. memory = [mem EXCEPT !.skipped = TRUE, !.result[mem.opp] = wins[Here]]
          OBVIOUS
        <5> HIDE DEF memory
        <5> QED BY <1>0, <5>1 DEF Shape
      <4>2. mem' = [memory EXCEPT !.opp = @ + 1]
        BY <3>2 DEF NextOpponent
      <4> HIDE DEF memory
      <4> QED BY <4>1, <4>2 DEF Shape
    <3> QED BY <1>4, <3>1, <3>2 DEF Prepare, Verdict
  <2>3. CASE pc' = "fail"
    BY <2>1, <2>3, BestStops
  <2>4. CASE pc' # "fail"
    BY <2>1, <2>2, <2>4, BestKeeps
  <2> QED BY <2>3, <2>4
<1>5. CASE CloseBatch
  <2>1. /\ UNCHANGED <<sim, roundRow, wins, persisted>>
        /\ pc = "close" /\ pc' \in {"prepare", "summary"}
    BY <1>5 DEF CloseBatch, NextOpponent
  <2>2. UNCHANGED <<mem.round, mem.hits, mem.streak, mem.best, mem.bestRound,
                    mem.bestDeck, mem.deck>>
    BY <1>0, <1>5 DEF CloseBatch, NextOpponent, Shape
  <2> QED BY <2>1, <2>2, BestKeeps
<1> QED BY <1>1, <1>2, <1>3, <1>4, <1>5

\* Before the first round nothing is best.
LEMMA BestStart == ASSUME TypeInv, AllBestInv, Start PROVE AllBestInv'
<1>1. /\ UNCHANGED <<roundRow, wins>> /\ pc' = "round" /\ mem' = FreshMemory
      /\ sim'.status = "running"
  BY DEF Start, TypeInv, RowTypes
<1>2. /\ mem'.round = 1 /\ mem'.best = NoRate /\ mem'.hits = 0
      /\ \A o \in Opp : mem'.streak[o] = 0
  BY <1>1 DEF FreshMemory
<1>3. RowInv'
  BY <1>1, SameRows DEF AllBestInv
<1>4. \A S : StreakIs(S, 1 - 1, 0)
  BY DEF StreakIs
<1>5. StreakInv'
  BY <1>1, <1>2, <1>4 DEF StreakInv
<1>6. WorkerInv' /\ EndInv' /\ BestInv' /\ DoneInv'
  BY <1>1, <1>2 DEF WorkerInv, EndInv, BestInv, BestTo, DoneInv, Active, Tracked, Coaching
<1> QED BY <1>3, <1>5, <1>6 DEF AllBestInv

\* The row of a round is new or taken as it is.
LEMMA BestOpenRound == ASSUME IInv, TypeInv, AllBestInv, OpenRound PROVE AllBestInv'
<1>0. Shape(mem) /\ mem.round \in Round
  BY DEF TypeInv, Locals, IInv, PlaceInv
<1>1. /\ UNCHANGED <<sim, wins, persisted>> /\ pc = "round" /\ pc' = "prepare"
      /\ UNCHANGED <<mem.round, mem.hits, mem.streak, mem.best, mem.bestRound,
                     mem.bestDeck>>
  BY <1>0 DEF OpenRound, Shape
<1>2. /\ DOMAIN roundRow' = DOMAIN roundRow \cup {mem.round}
      /\ \A r \in DOMAIN roundRow : roundRow'[r] = roundRow[r]
      /\ mem'.deck = roundRow'[mem.round].deck
  <2>1. CASE mem.round \notin DOMAIN roundRow
    <3>1. /\ mem'.deck = mem.deck
          /\ roundRow' = Put(roundRow, mem.round,
                             [deck |-> mem.deck, id |-> mem.id, rate |-> NoRate])
      BY <1>0, <2>1 DEF OpenRound, Shape
    <3> QED BY <2>1, <3>1 DEF Put
  <2>2. CASE mem.round \in DOMAIN roundRow
    <3>1. /\ roundRow' = roundRow
          /\ mem' = [mem EXCEPT !.opp = 1, !.skipped = FALSE,
                                !.result = [o \in Opp |-> NoRate],
                                !.deck = roundRow[mem.round].deck,
                                !.id = roundRow[mem.round].id, !.rawText = FALSE]
      BY <1>0, <2>2 DEF OpenRound, Shape
    <3> QED BY <1>0, <2>2, <3>1 DEF Shape
  <2> QED BY <2>1, <2>2
<1>3. /\ \A r : StoredRate(r)' = StoredRate(r)
      /\ Good' = Good /\ \A o : Beaten(o)' = Beaten(o) /\ \A q : Met(q)' = Met(q)
  BY <1>1 DEF StoredRate, Good, Beaten, Met, LongStreak
<1>4. \A q : Passed(q) => Passed(q)'
  BY <1>2, <1>3 DEF Passed
<1>5. \A q \in 1..(mem.round - 1) : Passed(q)
  BY <1>1 DEF AllBestInv, WorkerInv, Active
<1>6. RowInv'
  BY <1>2, <1>4, <1>5 DEF AllBestInv, RowInv
<1>7. WorkerInv'
  BY <1>1, <1>2, <1>4, <1>5 DEF AllBestInv, WorkerInv, Active, Tracked, Coaching
<1>8. StreakInv' /\ EndInv' /\ DoneInv'
  BY <1>1, <1>3 DEF AllBestInv, StreakInv, EndInv, DoneInv, WorkerInv, Active
<1>9. BestInv'
  <2>1. mem.round - 1 # 0 => BestOf(mem.round - 1)'
    BY <1>1, <1>2 DEF AllBestInv, BestInv, BestTo, BestOf, Active, Tracked, Coaching
  <2> QED BY <1>1, <2>1 DEF AllBestInv, BestInv, BestTo, Active, Tracked, Coaching
<1> QED BY <1>6, <1>7, <1>8, <1>9 DEF AllBestInv

\* The wins of a round that is not over are not looked at.
LEMMA BestPersistBatch ==
  ASSUME IInv, RateInv, TypeInv, AllBestInv, PersistBatch
  PROVE  AllBestInv'
<1>0. Shape(mem) /\ mem.round \in Round
  BY DEF TypeInv, Locals, IInv, PlaceInv
<1>1. /\ UNCHANGED <<sim, roundRow>> /\ pc = "batch" /\ pc' = "close"
      /\ UNCHANGED <<mem.round, mem.hits, mem.streak, mem.best, mem.bestRound,
                     mem.bestDeck, mem.deck>>
  BY <1>0 DEF PersistBatch, Shape
<1>2. /\ Here \in Batch /\ Here = <<mem.round, mem.opp>> /\ mem.opp \in Opp
      /\ persisted[Here] = 0 /\ DOMAIN wins = Batch
  BY <1>1, HereIsBatch DEF IInv, PlaceInv, RateInv, AtBatch
<1>3. \A r, o : r # mem.round => wins'[<<r, o>>] = wins[<<r, o>>]
  <2>1. PICK w \in 0..Matches : wins' = [wins EXCEPT ![Here] = @ + w]
    BY DEF PersistBatch
  <2>2. \A b : b # Here => wins'[b] = wins[b]
    <3>1. wins' = [b \in Batch |-> IF b = Here THEN wins[Here] + w ELSE wins[b]]
      BY <1>2, <2>1
    <3>2. \A b \in Batch : b # Here => wins'[b] = wins[b]
      BY <3>1
    <3>3. \A b : b \notin Batch => wins'[b] = wins[b]
      BY <1>2, <2>1
    <3> QED BY <3>2, <3>3
  <2> QED BY <1>2, <2>2
<1>4. ASSUME NEW r, r # mem.round
      PROVE  /\ StoredRate(r)' = StoredRate(r)
             /\ r \in Good' <=> r \in Good
             /\ \A o : r \in Beaten(o)' <=> r \in Beaten(o)
  <2>1. [o \in Opp |-> wins'[<<r, o>>]] = [o \in Opp |-> wins[<<r, o>>]]
    BY <1>3, <1>4
  <2>2. StoredRate(r)' = StoredRate(r)
    BY <2>1 DEF StoredRate
  <2> QED BY <1>3, <1>4, <2>2 DEF Good, Beaten
<1>5. ASSUME NEW q \in 1..(mem.round - 1)
      PROVE  Met(q)' <=> Met(q)
  <2>1. \A i : i \in 1..q => i # mem.round
    BY <1>0 DEF Round
  <2>2. Confirm <= q => \A i \in (q - Confirm + 1)..q : i \in 1..q
    BY <1>0, RunAssumption DEF Round
  <2>3. LongStreak(Good, q)' <=> LongStreak(Good, q)
    BY <1>4, <2>1, <2>2 DEF LongStreak
  <2>4. \A o : LongStreak(Beaten(o), q)' <=> LongStreak(Beaten(o), q)
    BY <1>4, <2>1, <2>2 DEF LongStreak
  <2> QED BY <2>3, <2>4 DEF Met
<1>6. \A q \in 1..(mem.round - 1) : Passed(q)' <=> Passed(q)
  BY <1>1, <1>5 DEF Passed
<1>7. roundRow[mem.round].rate = NoRate
  <2>1. mem.round \in DOMAIN roundRow
    BY <1>1 DEF AllBestInv, WorkerInv
  <2> QED BY <1>2, <2>1, RunAssumption DEF RateInv
<1>8. RowInv'
  <2> SUFFICES ASSUME NEW r \in DOMAIN roundRow, NEW q \in 1..(r - 1)
               PROVE  Passed(q)'
    BY <1>1 DEF RowInv
  <2>1. r \in Nat
    BY DEF TypeInv, RowTypes, Round
  <2>2. Passed(q)
    BY DEF AllBestInv, RowInv
  <2>3. ~(mem.round \in 1..(r - 1))
    BY <1>7 DEF AllBestInv, RowInv, Passed
  <2>4. q \in 1..(mem.round - 1)
    BY <1>0, <2>1, <2>3 DEF Round
  <2> QED BY <1>6, <2>2, <2>4
<1>9. WorkerInv'
  BY <1>1, <1>6 DEF AllBestInv, WorkerInv, Active, Tracked, Coaching
<1>10. StreakInv'
  <2>1. ASSUME NEW S, NEW S2, NEW n, StreakIs(S, mem.round - 1, n),
               \A r : r # mem.round => (r \in S2 <=> r \in S)
        PROVE  StreakIs(S2, mem.round - 1, n)
    <3>1. mem.round \in Nat /\ n \in 0..(mem.round - 1)
      BY <1>0, <2>1 DEF StreakIs, Round
    <3>2. \A i \in (mem.round - 1 - n + 1)..(mem.round - 1) : i # mem.round
      BY <3>1
    <3>3. mem.round - 1 - n # mem.round
      BY <3>1
    <3> QED BY <2>1, <3>2, <3>3 DEF StreakIs
  <2>2. CASE TargetMode = "per_opponent"
    <3>1. \A o \in Opp : StreakIs(Beaten(o), mem.round - 1, mem.streak[o])
      BY <1>1, <2>2 DEF AllBestInv, StreakInv, Active
    <3>2. \A o \in Opp : StreakIs(Beaten(o)', mem.round - 1, mem.streak[o])
      BY <1>4, <2>1, <3>1
    <3> QED BY <1>1, <2>2, <3>2 DEF StreakInv
  <2>3. CASE TargetMode # "per_opponent"
    <3>1. StreakIs(Good, mem.round - 1, mem.hits)
      BY <1>1, <2>3 DEF AllBestInv, StreakInv, Active
    <3>2. StreakIs(Good', mem.round - 1, mem.hits)
      BY <1>4, <2>1, <3>1
    <3> QED BY <1>1, <2>3, <3>2 DEF StreakInv
  <2> QED BY <2>2, <2>3
<1>11. EndInv' /\ DoneInv' /\ BestInv'
  BY <1>1 DEF AllBestInv, EndInv, DoneInv, WorkerInv, BestInv, BestTo, BestOf, Active,
     Tracked, Coaching
<1> QED BY <1>8, <1>9, <1>10, <1>11 DEF AllBestInv

\* A rate that is written again is the one that was there.
LEMMA BestSummarise ==
  ASSUME IInv, RateInv, TypeInv, AllBestInv, Summarise
  PROVE  AllBestInv'
<1>0. mem.round \in Round
  BY DEF IInv, PlaceInv
<1>1. /\ UNCHANGED <<sim, wins, persisted, mem>> /\ pc = "summary" /\ pc' = "track"
      /\ roundRow' = [roundRow EXCEPT ![mem.round].rate = RoundRate]
      /\ mem.round \in DOMAIN roundRow
  BY DEF Summarise, AllBestInv, WorkerInv
<1>2. PlayedTo(mem.round, NumOpps + 1)
  BY <1>1 DEF RateInv
<1>3. RoundRate = StoredRate(mem.round)
  <2>1. mem.result = [o \in Opp |-> wins[<<mem.round, o>>]]
    BY <1>2, RunAssumption DEF RateInv, PlayedTo, Opp
  <2> QED BY <2>1 DEF RoundRate, StoredRate
<1>4. /\ DOMAIN roundRow' = DOMAIN roundRow
      /\ \A r \in DOMAIN roundRow : roundRow'[r].deck = roundRow[r].deck
      /\ \A r \in DOMAIN roundRow : r # mem.round => roundRow'[r] = roundRow[r]
      /\ roundRow'[mem.round].rate = StoredRate(mem.round)
  BY <1>1, <1>3 DEF IInv, NamesInv
<1>5. StoredRate(mem.round) # NoRate
  BY <1>1, <1>3, RoundRatePercent DEF NoRate
<1>6. /\ \A r : StoredRate(r)' = StoredRate(r)
      /\ Good' = Good /\ \A o : Beaten(o)' = Beaten(o) /\ \A q : Met(q)' = Met(q)
  BY <1>1 DEF StoredRate, Good, Beaten, Met, LongStreak
<1>7. \A q : Passed(q) => Passed(q)'
  BY <1>4, <1>5, <1>6 DEF Passed
<1>8. RowInv'
  BY <1>4, <1>7 DEF AllBestInv, RowInv
<1>9. WorkerInv'
  <2>1. PlayedTo(mem.round, NumOpps + 1)'
    BY <1>1, <1>2 DEF PlayedTo
  <2> QED BY <1>1, <1>4, <1>6, <1>7, <2>1 DEF AllBestInv, WorkerInv, Active, Tracked, Coaching
<1>10. StreakInv' /\ EndInv' /\ DoneInv'
  BY <1>1, <1>6 DEF AllBestInv, StreakInv, EndInv, DoneInv, WorkerInv, Active
<1>11. BestInv'
  <2>1. BestTo(mem.round - 1)
    BY <1>1 DEF AllBestInv, BestInv, Active, Tracked, Coaching
  <2>2. \A q \in 1..(mem.round - 1) : q # mem.round
    BY <1>0 DEF Round
  <2>3. BestTo(mem.round - 1)'
    BY <1>1, <1>4, <2>1, <2>2 DEF BestTo, BestOf
  <2> QED BY <1>1, <2>3 DEF BestInv, Tracked, Coaching
<1> QED BY <1>8, <1>9, <1>10, <1>11 DEF AllBestInv

\* The best of the rounds before and this one.
LEMMA BestTrack ==
  ASSUME IInv, RateInv, TypeInv, AllBestInv, Track
  PROVE  AllBestInv'
<1>0. Shape(mem) /\ mem.round \in Round /\ mem.best \in -1..100
  BY DEF TypeInv, Locals, Rates, IInv, PlaceInv
<1>1. /\ UNCHANGED <<roundRow, wins, persisted>> /\ pc = "track"
      /\ pc' \in {"coach", "target"} /\ sim.status = "running" /\ sim'.status = "running"
      /\ UNCHANGED <<mem.round, mem.hits, mem.streak, mem.deck, mem.result>>
  BY <1>0 DEF Track, Shape, TypeInv, RowTypes, AllBestInv, WorkerInv
<1>2. /\ mem.round \in DOMAIN roundRow /\ mem.deck = roundRow[mem.round].deck
      /\ roundRow[mem.round].rate = StoredRate(mem.round)
      /\ PlayedTo(mem.round, NumOpps + 1)
  BY <1>1 DEF AllBestInv, WorkerInv
<1>3. RoundRate = roundRow[mem.round].rate /\ RoundRate \in 0..100
  <2>1. mem.result = [o \in Opp |-> wins[<<mem.round, o>>]]
    BY <1>2, RunAssumption DEF RateInv, PlayedTo, Opp
  <2> QED BY <1>1, <1>2, <2>1, RoundRatePercent DEF RoundRate, StoredRate
<1>4. /\ \A r : StoredRate(r)' = StoredRate(r)
      /\ Good' = Good /\ \A o : Beaten(o)' = Beaten(o)
      /\ \A q : Passed(q)' <=> Passed(q)
      /\ RowInv'
  BY <1>1, SameRows DEF AllBestInv
<1>5. WorkerInv'
  <2>1. PlayedTo(mem.round, NumOpps + 1)'
    BY <1>1, <1>2 DEF PlayedTo
  <2> QED BY <1>1, <1>2, <1>4, <2>1 DEF AllBestInv, WorkerInv, Active, Tracked, Coaching
<1>6. StreakInv' /\ EndInv' /\ DoneInv'
  BY <1>1, <1>4 DEF AllBestInv, StreakInv, EndInv, DoneInv, Active
<1>7. BestTo(mem.round)'
  <2> DEFINE t == mem.round
  <2>1. BestTo(t - 1) /\ t \in Nat \ {0}
    BY <1>0, <1>1 DEF AllBestInv, BestInv, Active, Tracked, Coaching, Round
  <2>2. \A q \in 1..(t - 1) : q \in DOMAIN roundRow
    BY <2>1 DEF BestTo, BestOf
  <2>3. \A q \in DOMAIN roundRow : roundRow[q].rate \in -1..100
    BY DEF TypeInv, RowTypes
  <2>4. CASE RoundRate > mem.best
    <3>1. /\ sim' = [sim EXCEPT !.best = [deck |-> mem.deck, rate |-> RoundRate]]
          /\ mem'.best = RoundRate /\ mem'.bestRound = t /\ mem'.bestDeck = mem.deck
      BY <1>0, <2>4 DEF Track, Shape
    <3>2. sim'.best = [deck |-> mem.deck, rate |-> RoundRate]
      BY <3>1 DEF TypeInv, RowTypes
    <3>3. ASSUME NEW q \in 1..(t - 1)
          PROVE  roundRow[q].rate <= RoundRate - 1
      <4>1. roundRow[q].rate <= mem.best
        <5>1. BestOf(t - 1)
          BY <2>1, <3>3 DEF BestTo
        <5>2. roundRow[q].rate <= mem.best - (IF q < mem.bestRound THEN 1 ELSE 0)
          BY <5>1 DEF BestOf
        <5> QED BY <1>0, <2>2, <2>3, <5>2
      <4> QED BY <1>0, <1>3, <2>2, <2>3, <2>4, <4>1
    <3>4. ASSUME NEW q \in 1..t
          PROVE  /\ q \in DOMAIN roundRow
                 /\ roundRow[q].rate <= RoundRate - (IF q < t THEN 1 ELSE 0)
      <4>1. q = t \/ q \in 1..(t - 1)
        BY <2>1
      <4> QED BY <1>2, <1>3, <2>1, <2>2, <3>3, <4>1
    <3>5. t # 0 /\ t \in 1..t
      BY <2>1
    <3>6. BestOf(t)'
      BY <1>1, <1>2, <1>3, <3>1, <3>2, <3>4, <3>5 DEF BestOf
    <3> QED BY <1>1, <3>5, <3>6 DEF BestTo
  <2>5. CASE ~(RoundRate > mem.best)
    <3>1. /\ sim' = sim /\ mem'.best = mem.best /\ mem'.bestRound = mem.bestRound
          /\ mem'.bestDeck = mem.bestDeck
      BY <1>0, <2>5 DEF Track, Shape
    <3>2. t - 1 # 0 /\ BestOf(t - 1)
      BY <1>3, <2>1, <2>5 DEF BestTo, NoRate
    <3>3. ASSUME NEW q \in 1..t
          PROVE  /\ q \in DOMAIN roundRow
                 /\ roundRow[q].rate <= mem.best - (IF q < mem.bestRound THEN 1 ELSE 0)
      <4>1. q = t \/ q \in 1..(t - 1)
        BY <2>1
      <4>2. mem.bestRound \in 1..(t - 1)
        BY <3>2 DEF BestOf
      <4>3. CASE q = t
        BY <1>0, <1>2, <1>3, <2>1, <2>5, <4>2, <4>3
      <4>4. CASE q \in 1..(t - 1)
        BY <3>2, <4>4 DEF BestOf
      <4> QED BY <4>1, <4>3, <4>4
    <3>4. mem.bestRound \in 1..t /\ t # 0
      BY <2>1, <3>2 DEF BestOf
    <3>5. BestOf(t)'
      BY <1>1, <3>1, <3>2, <3>3, <3>4 DEF BestOf
    <3> QED BY <1>1, <3>4, <3>5 DEF BestTo
  <2> QED BY <2>4, <2>5
<1>8. BestInv'
  BY <1>1, <1>7 DEF BestInv, Tracked, Coaching
<1> QED BY <1>4, <1>5, <1>6, <1>8 DEF AllBestInv

LEMMA BestCheckTarget ==
  ASSUME IInv, RateInv, TypeInv, AllBestInv, CheckTarget
  PROVE  AllBestInv'
<1>0. Shape(mem) /\ mem.round \in Round /\ mem.round \in Nat \ {0}
  BY DEF TypeInv, Locals, IInv, PlaceInv, Round
<1>1. /\ UNCHANGED <<sim, roundRow, wins, persisted>> /\ pc = "target"
      /\ pc' = IF ~TargetMet /\ mem.round < NumRounds THEN "round" ELSE "finish"
      /\ UNCHANGED <<mem.best, mem.bestRound, mem.bestDeck, mem.deck, mem.result>>
      /\ mem'.round = IF pc' = "round" THEN mem.round + 1 ELSE mem.round
      /\ IF TargetMode = "per_opponent" THEN mem'.streak = Streaks ELSE mem'.hits = Hits
  BY <1>0 DEF CheckTarget, Shape
<1>2. /\ IF TargetMode = "per_opponent"
         THEN \A o \in Opp : StreakIs(Beaten(o), mem.round, Streaks[o])
         ELSE StreakIs(Good, mem.round, Hits)
      /\ TargetMet <=> Met(mem.round)
  BY <1>1, TargetByRows
<1>3. /\ \A r : StoredRate(r)' = StoredRate(r)
      /\ Good' = Good /\ \A o : Beaten(o)' = Beaten(o)
      /\ \A q : Passed(q)' <=> Passed(q)
      /\ RowInv'
  BY <1>1, SameRows DEF AllBestInv
<1>4. /\ mem.round \in DOMAIN roundRow
      /\ roundRow[mem.round].rate = StoredRate(mem.round)
      /\ PlayedTo(mem.round, NumOpps + 1)
      /\ \A q \in 1..(mem.round - 1) : Passed(q)
      /\ sim.status = "running" /\ BestTo(mem.round)
  BY <1>1 DEF AllBestInv, WorkerInv, BestInv, Active, Tracked, Coaching
<1>5. CASE pc' = "round"
  <2>1. mem'.round = mem.round + 1 /\ mem'.round - 1 = mem.round
    BY <1>0, <1>1, <1>5
  <2>2. roundRow[mem.round].rate # NoRate
    <3>1. StoredRate(mem.round) \in 0..100
      <4>1. \A o \in Opp : wins[<<mem.round, o>>] \in 0..Matches
        BY <1>0 DEF TypeInv, BatchTypes, Batch
      <4> QED BY <4>1, RateOfPercent DEF StoredRate
    <3> QED BY <1>4, <3>1 DEF NoRate
  <2>3. Passed(mem.round)
    BY <1>1, <1>2, <1>4, <1>5, <2>2 DEF Passed
  <2>4. \A q \in 1..(mem'.round - 1) : Passed(q)'
    <3>1. \A q \in 1..(mem'.round - 1) : q = mem.round \/ q \in 1..(mem.round - 1)
      BY <1>0, <2>1
    <3> QED BY <1>3, <1>4, <2>3, <3>1
  <2>5. WorkerInv'
    BY <1>1, <1>4, <1>5, <2>4 DEF WorkerInv, Active, Tracked, Coaching
  <2>6. StreakInv'
    BY <1>1, <1>2, <1>3, <1>5, <2>1 DEF StreakInv
  <2>7. EndInv' /\ DoneInv'
    BY <1>1, <1>4, <1>5 DEF EndInv, DoneInv
  <2>8. BestInv'
    BY <1>1, <1>4, <1>5, <2>1 DEF BestInv, BestTo, BestOf, Tracked, Coaching
  <2> QED BY <1>3, <2>5, <2>6, <2>7, <2>8 DEF AllBestInv
<1>6. CASE pc' # "round"
  <2>1. pc' = "finish" /\ mem'.round = mem.round
    BY <1>1, <1>6
  <2>2. mem.round = NumRounds \/ Met(mem.round)
    BY <1>0, <1>1, <1>2, <1>6, RunAssumption DEF Round
  <2>3. Met(mem.round)' <=> Met(mem.round)
    BY <1>3, <2>1 DEF Met, LongStreak
  <2>4. EndInv' /\ DoneInv' /\ StreakInv'
    BY <1>1, <1>4, <2>1, <2>2, <2>3 DEF EndInv, DoneInv, StreakInv, Met
  <2>5. WorkerInv'
    <3>1. PlayedTo(mem.round, NumOpps + 1)'
      BY <1>1, <1>4, <2>1 DEF PlayedTo
    <3> QED BY <1>1, <1>3, <1>4, <2>1, <3>1 DEF WorkerInv, Active, Tracked, Coaching
  <2>6. BestInv'
    BY <1>1, <1>4, <2>1 DEF BestInv, BestTo, BestOf, Active, Tracked, Coaching
  <2> QED BY <1>3, <2>4, <2>5, <2>6 DEF AllBestInv
<1> QED BY <1>5, <1>6

\* No row lies beyond the round the run ends with.
LEMMA BestFinish == ASSUME IInv, TypeInv, AllBestInv, Finish PROVE AllBestInv'
<1>0. mem.round \in Round /\ DOMAIN roundRow \subseteq Round
  BY DEF TypeInv, RowTypes, IInv, PlaceInv
<1>1. /\ UNCHANGED <<roundRow, wins>> /\ pc = "finish" /\ pc' = "idle"
      /\ sim'.status = "complete" /\ sim'.best = sim.best
  BY DEF Finish, TypeInv, RowTypes
<1>2. BestOf(mem.round)
  BY <1>0, <1>1 DEF AllBestInv, BestInv, BestTo, Tracked, Round
<1>3. ASSUME NEW r \in DOMAIN roundRow PROVE r \in 1..mem.round
  <2>1. ~(mem.round \in 1..(r - 1))
    BY <1>0, <1>1, <1>3 DEF AllBestInv, EndInv, RowInv, Passed, Round
  <2> QED BY <1>0, <2>1, RunAssumption DEF Round
<1>4. BestAtCompletion'
  <2>1. /\ mem.bestRound \in DOMAIN roundRow
        /\ roundRow[mem.bestRound].rate = sim.best.rate
        /\ roundRow[mem.bestRound].deck = sim.best.deck
        /\ \A q \in DOMAIN roundRow :
              roundRow[q].rate <= sim.best.rate - (IF q < mem.bestRound THEN 1 ELSE 0)
    BY <1>2, <1>3 DEF BestOf
  <2> QED BY <1>1, <2>1 DEF BestAtCompletion
<1>5. RowInv'
  BY <1>1, SameRows DEF AllBestInv
<1>6. WorkerInv' /\ StreakInv' /\ EndInv' /\ BestInv' /\ DoneInv'
  BY <1>1, <1>4 DEF WorkerInv, StreakInv, EndInv, BestInv, DoneInv, Active, Tracked, Coaching
<1> QED BY <1>5, <1>6 DEF AllBestInv

LEMMA StepBest == IInv /\ RateInv /\ TypeInv /\ AllBestInv /\ [Next]_vars => AllBestInv'
<1> SUFFICES ASSUME IInv, RateInv, TypeInv, AllBestInv, [Next]_vars PROVE AllBestInv'
  OBVIOUS
<1>1. CASE UNCHANGED vars
  <2>1. RowInv'
    BY <1>1, SameRows DEF vars, AllBestInv
  <2>2. /\ \A q : Passed(q)' <=> Passed(q)
        /\ \A r : StoredRate(r)' = StoredRate(r)
        /\ Good' = Good /\ \A o : Beaten(o)' = Beaten(o)
    BY <1>1, SameRows DEF vars
  <2>3. WorkerInv' /\ StreakInv'
    BY <1>1, <2>2 DEF vars, AllBestInv, WorkerInv, StreakInv, Active, PlayedTo
  <2>4. EndInv' /\ BestInv' /\ DoneInv'
    BY <1>1, <2>2 DEF vars, AllBestInv, EndInv, Met, LongStreak, BestInv, BestTo, BestOf,
       DoneInv, BestAtCompletion, Active
  <2> QED BY <2>1, <2>3, <2>4 DEF AllBestInv
<1>2. CASE RoundStep
  BY <1>2, BestOpenRound, BestQuiet, BestPersistBatch, BestSummarise, BestTrack DEF RoundStep
<1>3. CASE CoachStep
  BY <1>3, BestQuiet
<1>4. CASE Start \/ CheckTarget \/ Finish \/ StepRaises \/ FailRun \/ Recover \/ Crash
  BY <1>4, BestStart, BestCheckTarget, BestFinish, BestQuiet
<1> QED BY <1>1, <1>2, <1>3, <1>4 DEF Next, WorkerStep

LEMMA BestInvariance == Spec => []AllBestInv
<1>1. IInv /\ RateInv /\ TypeInv /\ AllBestInv /\ [Next]_vars => AllBestInv'
  BY StepBest
<1> QED BY InitBest, <1>1, TypeInvariance, PTL DEF Spec

\* When the simulation completes, best_deck_snapshot is the best deck of all
\* its rounds and the first with that rate, however often the run was killed
\* and replayed, and whichever attempt played which round.
THEOREM BestRecorded == Spec => []BestAtCompletion
<1>1. AllBestInv => BestAtCompletion
  BY DEF AllBestInv, DoneInv, BestAtCompletion
<1> QED BY <1>1, BestInvariance, PTL

-----------------------------------------------------------------------------
(* Reverted mutations, in a run that is not killed.                        *)

\* A run that has not started has no rows; one that was interrupted was
\* killed.
FreshInv ==
    crashes = 0 /\ pc = "idle" =>
       /\ sim.status # "running"
       /\ sim.status = "pending" => mutations = {} /\ DOMAIN roundRow = {}

\* The log of this attempt: it reaches to the round before, or to this one
\* once the coach has logged it.
LogInv ==
    /\ \A r \in DOMAIN roundRow : r <= mem.round /\ (pc = "round" => r < mem.round)
    /\ \A m \in mutations :
          m.round <= mem.round /\
          (pc \notin {"analyze", "log", "clone", "target", "finish"} => m.round < mem.round)

\* The deck and the best deck hold no mutation that is or may be reverted.
DeckLogInv ==
    /\ \A m \in mutations :
          m.status = "reverted" => m.id \notin mem.deck \cup mem.bestDeck
    /\ \A m \in mutations :
          m.round >= mem.bestRound /\ mem.bestRound > 0 => m.id \notin mem.bestDeck
    /\ pc = "log" => serial \notin mem.bestDeck

RevertInv ==
    /\ FreshInv
    /\ crashes = 0 /\ Active => LogInv /\ DeckLogInv

LEMMA InitRevert == Init => RevertInv
  BY DEF Init, RevertInv, FreshInv, Active

\* The worker stops or has stopped.
LEMMA RevertStops ==
  ASSUME TypeInv, AllBestInv, RevertInv,
         Crash \/ Recover \/ StepRaises \/ FailRun \/ Finish \/ CoachBlocked
  PROVE  RevertInv'
<1>1. CASE Crash
  <2>1. crashes' # 0
    BY <1>1 DEF Crash, TypeInv
  <2> QED BY <2>1 DEF RevertInv, FreshInv
<1>2. CASE Recover
  BY <1>2 DEF Recover, RevertInv, FreshInv, Active
<1>3. CASE StepRaises \/ CoachBlocked
  BY <1>3 DEF StepRaises, CoachBlocked, RevertInv, FreshInv, Active
<1>4. CASE FailRun \/ Finish
  <2>1. sim'.status \in {"failed", "complete"} /\ pc' = "idle"
    BY <1>4 DEF FailRun, Finish, TypeInv, RowTypes
  <2> QED BY <2>1 DEF RevertInv, FreshInv, Active
<1> QED BY <1>1, <1>2, <1>3, <1>4

LEMMA RevertStart == ASSUME TypeInv, RevertInv, Start PROVE RevertInv'
<1>1. /\ pc = "idle" /\ sim.status = "pending" /\ pc' = "round"
      /\ UNCHANGED <<roundRow, mutations, crashes>>
  BY DEF Start
<1>2. crashes = 0 => mutations' = {} /\ DOMAIN roundRow' = {}
  BY <1>1 DEF RevertInv, FreshInv
<1> QED BY <1>1, <1>2 DEF RevertInv, FreshInv, LogInv, DeckLogInv, Active

\* Steps that touch neither the log nor a deck.
LEMMA RevertKeeps ==
  ASSUME RevertInv, Active, UNCHANGED <<mutations, crashes>>,
         DOMAIN roundRow' = DOMAIN roundRow,
         UNCHANGED <<mem.round, mem.deck, mem.bestDeck, mem.bestRound>>,
         pc' \notin {"idle", "round", "log"},
         pc \in {"analyze", "log", "clone", "target", "finish"} =>
            pc' \in {"analyze", "log", "clone", "target", "finish"}
  PROVE  RevertInv'
<1>1. ASSUME crashes = 0 PROVE LogInv' /\ DeckLogInv'
  <2>1. LogInv /\ DeckLogInv
    BY <1>1 DEF RevertInv
  <2>2. LogInv'
    BY <2>1 DEF LogInv
  <2>3. DeckLogInv'
    BY <2>1 DEF DeckLogInv
  <2> QED BY <2>2, <2>3
<1> QED BY <1>1 DEF RevertInv, FreshInv, Active

LEMMA RevertRound ==
  ASSUME IInv, TypeInv, RevertInv,
         Prepare \/ PersistBatch \/ CloseBatch \/ Summarise
  PROVE  RevertInv'
<1>0. Shape(mem)
  BY DEF TypeInv, Locals
<1>1. /\ UNCHANGED <<mutations, crashes>> /\ Active
      /\ pc \in {"prepare", "batch", "close", "summary"}
      /\ pc' \in {"prepare", "batch", "close", "summary", "track", "fail"}
      /\ DOMAIN roundRow' = DOMAIN roundRow
  BY DEF Prepare, PersistBatch, CloseBatch, Summarise, NextOpponent, Verdict, Active
<1>2. UNCHANGED <<mem.round, mem.deck, mem.bestDeck, mem.bestRound>>
  <2>1. CASE Prepare
    <3> DEFINE memory == [mem EXCEPT !.skipped = TRUE, !.result[mem.opp] = wins[Here]]
    <3>1. mem' = mem \/ NextOpponent(memory)
      BY <2>1 DEF Prepare, Verdict
    <3>2. memory = [mem EXCEPT !.skipped = TRUE, !.result[mem.opp] = wins[Here]]
      OBVIOUS
    <3> HIDE DEF memory
    <3>3. /\ Shape(memory)
          /\ memory.round = mem.round /\ memory.deck = mem.deck
          /\ memory.bestRound = mem.bestRound /\ memory.bestDeck = mem.bestDeck
      BY <1>0, <3>2 DEF Shape
    <3> QED BY <3>1, <3>3 DEF NextOpponent, Shape
  <2>2. CASE PersistBatch \/ Summarise
    BY <1>0, <2>2 DEF PersistBatch, Summarise, Shape
  <2>3. CASE CloseBatch
    BY <1>0, <2>3 DEF CloseBatch, NextOpponent, Shape
  <2> QED BY <2>1, <2>2, <2>3
<1> QED BY <1>1, <1>2, RevertKeeps

\* In the first attempt no round has a row before it is opened.
LEMMA RevertOpenRound == ASSUME IInv, TypeInv, RevertInv, OpenRound PROVE RevertInv'
<1>0. Shape(mem) /\ mem.round \in Nat
  BY DEF TypeInv, Locals, IInv, PlaceInv, Round
<1>1. UNCHANGED <<mutations, crashes>> /\ pc = "round" /\ pc' = "prepare"
  BY DEF OpenRound
<1>2. ASSUME crashes = 0
      PROVE  /\ DOMAIN roundRow' = DOMAIN roundRow \cup {mem.round}
             /\ UNCHANGED <<mem.round, mem.deck, mem.bestDeck, mem.bestRound>>
  <2>1. \A r \in DOMAIN roundRow : r < mem.round
    BY <1>1, <1>2 DEF RevertInv, LogInv, Active
  <2>2. mem.round \notin DOMAIN roundRow
    BY <1>0, <2>1
  <2> QED BY <1>0, <2>2 DEF OpenRound, Put, Shape
<1>3. ASSUME crashes = 0 PROVE LogInv' /\ DeckLogInv'
  <2>1. LogInv /\ DeckLogInv
    BY <1>1, <1>3 DEF RevertInv, Active
  <2>2. LogInv'
    BY <1>0, <1>1, <1>2, <1>3, <2>1 DEF LogInv, TypeInv, RowTypes, Round
  <2>3. DeckLogInv'
    BY <1>1, <1>2, <1>3, <2>1 DEF DeckLogInv
  <2> QED BY <2>2, <2>3
<1> QED BY <1>1, <1>3 DEF RevertInv, FreshInv, Active

\* A new best deck holds what the deck holds, and the log is behind it.
LEMMA RevertTrack == ASSUME IInv, TypeInv, RevertInv, Track PROVE RevertInv'
<1>0. Shape(mem) /\ mem.round \in Nat
  BY DEF TypeInv, Locals, IInv, PlaceInv, Round
<1>1. /\ UNCHANGED <<roundRow, mutations, crashes, serial>> /\ pc = "track"
      /\ pc' \in {"coach", "target"}
      /\ mem'.round = mem.round /\ mem'.deck = mem.deck
      /\ \/ mem'.bestRound = mem.bestRound /\ mem'.bestDeck = mem.bestDeck
         \/ mem'.bestRound = mem.round /\ mem'.bestDeck = mem.deck
  BY <1>0 DEF Track, Shape
<1>2. ASSUME crashes = 0 PROVE LogInv' /\ DeckLogInv'
  <2>1. LogInv /\ DeckLogInv
    BY <1>1, <1>2 DEF RevertInv, Active
  <2>2. \A m \in mutations : m.round < mem.round /\ m.round \in Nat
    BY <1>1, <2>1 DEF LogInv, TypeInv, RowTypes, Round
  <2>3. LogInv'
    BY <1>1, <2>1, <2>2 DEF LogInv
  <2>4. \A m \in mutations : ~(m.round >= mem.round)
    BY <1>0, <2>2
  <2> QED BY <1>1, <2>1, <2>3, <2>4 DEF DeckLogInv
<1> QED BY <1>1, <1>2 DEF RevertInv, FreshInv, Active

LEMMA RevertCoach ==
  ASSUME IInv, TypeInv, AllBestInv, RevertInv, CoachStep, ~CoachBlocked
  PROVE  RevertInv'
<1>0. Shape(mem) /\ mem.round \in Nat /\ serial \in Nat
  BY DEF TypeInv, Locals, IInv, PlaceInv, Round
<1>1. CASE \/ CoachKeeps \/ CoachFails \/ CoachAppliesNone \/ LogFails \/ CloneDeck \/ CloneFails
  <2>1. /\ UNCHANGED <<roundRow, mutations, crashes>> /\ pc \in Coaching
        /\ pc' \in Coaching \ {"coach", "log"}
    BY <1>1 DEF CoachKeeps, CoachFails, CoachAppliesNone, LogFails, CloneDeck, CloneFails,
       Coaching
  <2>2. UNCHANGED <<mem.round, mem.deck, mem.bestDeck, mem.bestRound>>
    BY <1>0, <1>1 DEF CoachKeeps, CoachFails, CoachAppliesNone, LogFails, CloneDeck, CloneFails,
       Shape
  <2> QED BY <2>1, <2>2, RevertKeeps DEF Coaching, Active
<1>2. CASE CoachReverts
  <2>1. /\ UNCHANGED <<roundRow, crashes>> /\ pc = "coach" /\ pc' = "analyze"
        /\ mutations' = MarkReverted(mem.bestRound)
        /\ mem'.deck = mem.bestDeck
        /\ UNCHANGED <<mem.round, mem.bestDeck, mem.bestRound>>
    BY <1>0, <1>2 DEF CoachReverts, Shape
  <2>2. mem.bestRound > 0
    <3>1. BestTo(mem.round) /\ mem.round # 0
      BY <2>1 DEF AllBestInv, BestInv, Tracked, Coaching, IInv, PlaceInv, Round
    <3> QED BY <3>1 DEF BestTo, BestOf
  <2>3. ASSUME NEW n \in mutations'
        PROVE  \E m \in mutations :
                  /\ n.id = m.id /\ n.round = m.round
                  /\ n.status = "reverted" => m.status = "reverted" \/ m.round > mem.bestRound
    BY <2>1 DEF MarkReverted, TypeInv, RowTypes
  <2>4. ASSUME crashes = 0 PROVE LogInv' /\ DeckLogInv'
    <3>1. LogInv /\ DeckLogInv
      BY <2>1, <2>4 DEF RevertInv, Active
    <3>2. \A m \in mutations : m.round > mem.bestRound => m.id \notin mem.bestDeck
      <4>1. mem.bestRound \in Nat /\ \A m \in mutations : m.round \in Nat
        BY DEF TypeInv, RowTypes, Locals, Rates, Round
      <4> QED BY <2>2, <3>1, <4>1 DEF DeckLogInv
    <3>3. LogInv'
      BY <2>1, <2>3, <3>1 DEF LogInv
    <3>4. \A n \in mutations' : n.status = "reverted" => n.id \notin mem.bestDeck
      BY <2>3, <3>1, <3>2 DEF DeckLogInv
    <3>5. \A n \in mutations' :
             n.round >= mem.bestRound /\ mem.bestRound > 0 => n.id \notin mem.bestDeck
      BY <2>3, <3>1 DEF DeckLogInv
    <3> QED BY <2>1, <3>3, <3>4, <3>5 DEF DeckLogInv
  <2> QED BY <2>1, <2>4 DEF RevertInv, FreshInv, Active
<1>3. CASE CoachApplies
  <2>1. /\ UNCHANGED <<roundRow, mutations, crashes>> /\ pc = "analyze" /\ pc' = "log"
        /\ serial' = serial + 1 /\ mem'.deck = mem.deck \cup {serial + 1}
        /\ UNCHANGED <<mem.round, mem.bestDeck, mem.bestRound>>
    BY <1>0, <1>3 DEF CoachApplies, Shape
  <2>2. /\ \A m \in mutations : m.id # serial + 1
        /\ serial + 1 \notin mem.bestDeck
    BY <1>0 DEF TypeInv, RowTypes, Locals, Decks
  <2>3. ASSUME crashes = 0 PROVE LogInv' /\ DeckLogInv'
    <3>1. LogInv /\ DeckLogInv
      BY <2>1, <2>3 DEF RevertInv, Active
    <3>2. LogInv'
      BY <2>1, <3>1 DEF LogInv
    <3>3. DeckLogInv'
      BY <2>1, <2>2, <3>1 DEF DeckLogInv
    <3> QED BY <3>2, <3>3
  <2> QED BY <2>1, <2>3 DEF RevertInv, FreshInv, Active
<1>4. CASE LogMutation
  <2>1. /\ UNCHANGED <<roundRow, crashes, mem, serial>> /\ pc = "log" /\ pc' = "clone"
        /\ mutations' = mutations \cup
              {[id |-> serial, round |-> mem.round, status |-> "applied"]}
    BY <1>4 DEF LogMutation
  <2>2. ASSUME crashes = 0 PROVE LogInv' /\ DeckLogInv'
    <3>1. LogInv /\ DeckLogInv
      BY <2>1, <2>2 DEF RevertInv, Active
    <3>2. LogInv'
      BY <1>0, <2>1, <3>1 DEF LogInv
    <3>3. DeckLogInv'
      BY <2>1, <3>1 DEF DeckLogInv
    <3> QED BY <3>2, <3>3
  <2> QED BY <2>1, <2>2 DEF RevertInv, FreshInv, Active
<1> QED BY <1>1, <1>2, <1>3, <1>4 DEF CoachStep

LEMMA RevertCheckTarget == ASSUME IInv, TypeInv, RevertInv, CheckTarget PROVE RevertInv'
<1>0. Shape(mem) /\ mem.round \in Nat
  BY DEF TypeInv, Locals, IInv, PlaceInv, Round
<1>1. /\ UNCHANGED <<roundRow, mutations, crashes>> /\ pc = "target"
      /\ \/ pc' = "round" /\ mem'.round = mem.round + 1
         \/ pc' = "finish" /\ mem'.round = mem.round
      /\ UNCHANGED <<mem.deck, mem.bestDeck, mem.bestRound>>
  BY <1>0 DEF CheckTarget, Shape
<1>2. ASSUME crashes = 0 PROVE LogInv' /\ DeckLogInv'
  <2>1. LogInv /\ DeckLogInv
    BY <1>1, <1>2 DEF RevertInv, Active
  <2>2. DeckLogInv'
    BY <1>1, <2>1 DEF DeckLogInv
  <2>3. /\ \A r \in DOMAIN roundRow : r \in Nat
        /\ \A m \in mutations : m.round \in Nat
    BY DEF TypeInv, RowTypes, Round
  <2>4. LogInv'
    BY <1>0, <1>1, <2>1, <2>3 DEF LogInv
  <2> QED BY <2>2, <2>4
<1> QED BY <1>1, <1>2 DEF RevertInv, FreshInv, Active

LEMMA StepRevert ==
  IInv /\ TypeInv /\ AllBestInv /\ RevertInv /\ [Next]_vars => RevertInv'
<1> SUFFICES ASSUME IInv, TypeInv, AllBestInv, RevertInv, [Next]_vars PROVE RevertInv'
  OBVIOUS
<1>1. CASE UNCHANGED vars
  BY <1>1 DEF vars, RevertInv, FreshInv, LogInv, DeckLogInv, Active
<1>2. CASE RoundStep
  BY <1>2, RevertRound, RevertOpenRound, RevertTrack DEF RoundStep
<1>3. CASE CoachStep
  BY <1>3, RevertCoach, RevertStops
<1>4. CASE Start \/ CheckTarget \/ Finish \/ StepRaises \/ FailRun \/ Recover \/ Crash
  BY <1>4, RevertStart, RevertCheckTarget, RevertStops
<1> QED BY <1>1, <1>2, <1>3, <1>4 DEF Next, WorkerStep

\* Until the worker is killed for the first time, a mutation that a revert has
\* taken out of the deck and out of the log is not played again: the log is cut
\* where the best deck was taken.
THEOREM RevertedOut == Spec => RevertedStaysOut
<1> DEFINE Out == \A m \in mutations :
                     persisted' # persisted /\ crashes = 0 /\ m.status = "reverted" =>
                        m.id \notin mem.deck
<1>1. RevertInv /\ [Next]_vars => [Out]_vars
  <2> SUFFICES ASSUME RevertInv, [Next]_vars, persisted' # persisted, crashes = 0,
                      NEW m \in mutations, m.status = "reverted"
               PROVE  m.id \notin mem.deck
    OBVIOUS
  <2>1. PersistBatch
    BY DEF vars, Next, WorkerStep, RoundStep, CoachStep, Start, OpenRound, Prepare,
       CloseBatch, Summarise, Track, CoachBlocked, CoachReverts, CoachKeeps, CoachFails,
       CoachAppliesNone, CoachApplies, LogMutation, LogFails, CloneDeck, CloneFails,
       CheckTarget, Finish, StepRaises, FailRun, Recover, Crash
  <2>2. Active
    BY <2>1 DEF PersistBatch, Active
  <2> QED BY <2>2 DEF RevertInv, DeckLogInv
<1>2. IInv /\ TypeInv /\ AllBestInv /\ RevertInv /\ [Next]_vars => RevertInv'
  BY StepRevert
<1> HIDE DEF Out
<1>3. Spec => [][Out]_vars
  BY InitRevert, <1>1, <1>2, TypeInvariance, BestInvariance, PTL DEF Spec
<1> QED BY <1>3 DEF RevertedStaysOut, Out

-----------------------------------------------------------------------------
(* The ledger of the batches (BatchLedger).                                *)

\* The batches of a round are recorded in the order of the opponents.
SegInv ==
    \A r \in Round, o \in Opp, p \in Opp :
       p < o /\ persisted[<<r, o>>] > 0 => persisted[<<r, p>>] > 0

LEMMA InitSeg == Init => SegInv
  BY DEF Init, SegInv, Batch

LEMMA StepSeg == IInv /\ RateInv /\ SegInv /\ [Next]_vars => SegInv'
<1> SUFFICES ASSUME IInv, RateInv, SegInv, [Next]_vars PROVE SegInv'
  OBVIOUS
<1>1. CASE PersistBatch
  <2>1. /\ pc = "batch"
        /\ persisted' = [persisted EXCEPT ![Here] = @ + Matches]
    BY <1>1 DEF PersistBatch
  <2>2. /\ Here \in Batch /\ Here = <<mem.round, mem.opp>> /\ mem.opp \in Opp
        /\ DOMAIN persisted = Batch
        /\ \A b \in Batch : persisted[b] \in Nat
    BY <2>1, HereIsBatch, RunAssumption DEF IInv, AtBatch, CountInv
  <2>3. \A b \in Batch : /\ persisted'[b] \in Nat /\ persisted'[b] >= persisted[b]
                         /\ b # Here => persisted'[b] = persisted[b]
    BY <2>1, <2>2, RunAssumption
  <2>4. \A p \in Opp : p < mem.opp => persisted[<<mem.round, p>>] > 0
    BY <2>1, RunAssumption DEF RateInv, PlayedTo
  <2> SUFFICES ASSUME NEW r \in Round, NEW o \in Opp, NEW p \in Opp,
                      p < o, persisted'[<<r, o>>] > 0
               PROVE  persisted'[<<r, p>>] > 0
    BY DEF SegInv
  <2>5. <<r, o>> \in Batch /\ <<r, p>> \in Batch
    BY DEF Batch
  <2>6. persisted[<<r, p>>] > 0
    BY <2>2, <2>3, <2>4, <2>5 DEF SegInv
  <2> QED BY <2>2, <2>3, <2>5, <2>6
<1>2. CASE ~PersistBatch
  <2>1. UNCHANGED persisted
    BY <1>2 DEF vars, Next, WorkerStep, RoundStep, CoachStep, Start, OpenRound, Prepare,
       CloseBatch, Summarise, Track, CoachBlocked, CoachReverts, CoachKeeps, CoachFails,
       CoachAppliesNone, CoachApplies, LogMutation, LogFails, CloneDeck, CloneFails,
       CheckTarget, Finish, StepRaises, FailRun, Recover, Crash
  <2> QED BY <2>1 DEF SegInv
<1> QED BY <1>1, <1>2

\* The batch with a given number in the schedule.
Scheduled(i) == <<((i - 1) \div NumOpps) + 1, ((i - 1) % NumOpps) + 1>>

\* The schedule numbers the batches round by round.
LEMMA RoundsApart ==
  ASSUME NEW r \in Nat, NEW q \in Nat, q < r, NEW n \in Nat
  PROVE  q * n + n <= r * n
<1>1. PICK k \in Nat : r = q + 1 + k
  <2>1. r - (q + 1) \in Nat
    OBVIOUS
  <2> QED BY <2>1
<1>2. r * n = q * n + n + k * n /\ k * n \in Nat /\ q * n \in Nat
  BY <1>1
<1> QED BY <1>2

\* The order of the numbers is that of the rounds, and of the opponents in a
\* round.
LEMMA ScheduleOrder ==
  ASSUME NEW b \in Batch, NEW c \in Batch
  PROVE  /\ ScheduleIndex(b) \in 1..(NumRounds * NumOpps)
         /\ b[1] < c[1] => ScheduleIndex(b) < ScheduleIndex(c)
         /\ b[1] = c[1] =>
               (ScheduleIndex(b) < ScheduleIndex(c) <=> b[2] < c[2])
<1>1. /\ b[1] \in 1..NumRounds /\ c[1] \in 1..NumRounds
      /\ b[2] \in 1..NumOpps /\ c[2] \in 1..NumOpps
  BY DEF Batch, Round, Opp
<1>2. NumRounds \in Nat /\ NumOpps \in Nat
  BY RunAssumption
<1>3. (b[1] - 1) * NumOpps \in Nat /\ (c[1] - 1) * NumOpps \in Nat
  BY <1>1, <1>2
<1>4. (b[1] - 1) * NumOpps + NumOpps <= NumRounds * NumOpps
  BY <1>1, <1>2, RoundsApart
<1>5. b[1] < c[1] => (b[1] - 1) * NumOpps + NumOpps <= (c[1] - 1) * NumOpps
  BY <1>1, <1>2, RoundsApart
<1>6. NumRounds * NumOpps \in Nat
  BY <1>2
<1> QED BY <1>1, <1>2, <1>3, <1>4, <1>5, <1>6 DEF ScheduleIndex

LEMMA ScheduleInjective ==
  ASSUME NEW b \in Batch, NEW c \in Batch, ScheduleIndex(b) = ScheduleIndex(c)
  PROVE  b = c
<1>1. /\ b[1] \in Nat /\ c[1] \in Nat /\ b[2] \in Nat /\ c[2] \in Nat
      /\ b = <<b[1], b[2]>> /\ c = <<c[1], c[2]>>
      /\ ScheduleIndex(b) \in Nat
  BY ScheduleOrder DEF Batch, Round, Opp
<1>2. ~(b[1] < c[1]) /\ ~(c[1] < b[1])
  BY <1>1, ScheduleOrder
<1>3. ~(b[2] < c[2]) /\ ~(c[2] < b[2])
  BY <1>1, <1>2, ScheduleOrder
<1> QED BY <1>1, <1>2, <1>3

LEMMA ScheduledAt ==
  ASSUME NEW i \in 1..(NumRounds * NumOpps)
  PROVE  /\ Scheduled(i) \in Batch /\ ScheduleIndex(Scheduled(i)) = i
         /\ BatchAt(i) = Scheduled(i)
<1> DEFINE q == (i - 1) \div NumOpps
           m == (i - 1) % NumOpps
<1>1. /\ NumRounds \in Nat /\ NumOpps \in Nat \ {0} /\ i - 1 \in Nat
      /\ NumRounds * NumOpps \in Nat /\ i <= NumRounds * NumOpps
  BY RunAssumption
<1>2. q \in Nat /\ m \in 0..(NumOpps - 1) /\ i - 1 = q * NumOpps + m
  BY <1>1
<1> HIDE DEF q, m
<1>3. q < NumRounds
  <2>1. ASSUME ~(q < NumRounds) PROVE FALSE
    <3>1. q = NumRounds \/ NumRounds < q
      BY <1>1, <1>2, <2>1
    <3>2. NumRounds * NumOpps <= q * NumOpps
      BY <1>1, <1>2, <3>1, RoundsApart
    <3>3. q * NumOpps \in Nat
      BY <1>1, <1>2
    <3> QED BY <1>1, <1>2, <3>2, <3>3
  <2> QED BY <2>1
<1>4. Scheduled(i) = <<q + 1, m + 1>>
  BY DEF Scheduled, q, m
<1>5. Scheduled(i) \in Batch
  BY <1>1, <1>2, <1>3, <1>4 DEF Batch, Round, Opp
<1>6. ScheduleIndex(Scheduled(i)) = i
  <2>1. ScheduleIndex(<<q + 1, m + 1>>) = q * NumOpps + (m + 1)
    BY <1>2 DEF ScheduleIndex
  <2>2. q * NumOpps \in Nat
    BY <1>1, <1>2
  <2> QED BY <1>1, <1>2, <1>4, <2>1, <2>2
<1> QED BY <1>5, <1>6, ScheduleInjective DEF BatchAt

\* When a batch is recorded, those recorded before are the ones before it in
\* the schedule: earlier rounds have a rate, and later ones no row.
LEMMA RecordedBefore ==
  ASSUME IInv, RateInv, TypeInv, AllBestInv, SegInv, pc = "batch", NEW b \in Batch
  PROVE  b \in Recorded <=> ScheduleIndex(b) < ScheduleIndex(Here)
<1>0. /\ Here \in Batch /\ Here = <<mem.round, mem.opp>> /\ persisted[Here] = 0
      /\ mem.round \in Round /\ mem.opp \in Opp
      /\ b = <<b[1], b[2]>> /\ b[1] \in Round /\ b[2] \in Opp
  BY HereIsBatch DEF IInv, PlaceInv, AtBatch, Batch
<1>1. /\ b[1] \in Nat /\ b[2] \in Nat /\ mem.round \in Nat /\ mem.opp \in Nat
      /\ ScheduleIndex(b) \in Nat /\ ScheduleIndex(Here) \in Nat
      /\ Here[1] = mem.round /\ Here[2] = mem.opp
  BY <1>0, ScheduleOrder DEF Round, Opp
<1>2. \A q \in Round :
         q \in DOMAIN roundRow /\ roundRow[q].rate # NoRate =>
            \A o \in Opp : persisted[<<q, o>>] > 0
  BY RunAssumption DEF RateInv
<1>3. CASE b[1] < mem.round
  <2>1. Passed(b[1])
    BY <1>0, <1>1, <1>3 DEF AllBestInv, WorkerInv, Active, Round
  <2>2. persisted[b] > 0
    BY <1>0, <1>2, <2>1 DEF Passed
  <2> QED BY <1>0, <1>1, <1>3, <2>2, ScheduleOrder DEF Recorded
<1>4. CASE mem.round < b[1]
  <2>1. ASSUME persisted[b] > 0 PROVE FALSE
    <3>1. b[1] \in DOMAIN roundRow
      BY <1>0, <2>1 DEF IInv, DeckInv, RoundDeckStable
    <3>2. Passed(mem.round)
      BY <1>0, <1>1, <1>4, <3>1 DEF AllBestInv, RowInv, Round
    <3> QED BY <1>0, <1>2, <3>2 DEF Passed
  <2>2. ScheduleIndex(Here) < ScheduleIndex(b)
    BY <1>0, <1>1, <1>4, ScheduleOrder
  <2> QED BY <1>1, <2>1, <2>2 DEF Recorded
<1>5. CASE b[1] = mem.round
  <2>1. b[2] < mem.opp => persisted[b] > 0
    BY <1>0, <1>5, RunAssumption DEF RateInv, PlayedTo
  <2>2. mem.opp < b[2] => ~(persisted[b] > 0)
    BY <1>0, <1>5 DEF SegInv
  <2>3. mem.opp = b[2] => ~(persisted[b] > 0)
    BY <1>0, <1>5
  <2>4. ScheduleIndex(b) < ScheduleIndex(Here) <=> b[2] < mem.opp
    BY <1>0, <1>1, <1>5, ScheduleOrder
  <2> QED BY <1>1, <2>1, <2>2, <2>3, <2>4 DEF Recorded
<1> QED BY <1>1, <1>3, <1>4, <1>5

\* The first n numbers of the schedule are those of n batches.
LEMMA CountBefore ==
  ASSUME NEW n \in Nat, n <= NumRounds * NumOpps, NEW S \in SUBSET Batch,
         \A b \in Batch : b \in S <=> ScheduleIndex(b) <= n
  PROVE  Cardinality(S) = n
<1> DEFINE f == [i \in 1..n |-> Scheduled(i)]
<1>1. NumRounds * NumOpps \in Nat
  BY RunAssumption
<1>2. \A i \in 1..n : i \in 1..(NumRounds * NumOpps)
  BY <1>1
<1>3. \A i \in 1..n : f[i] \in S /\ ScheduleIndex(f[i]) = i
  BY <1>2, ScheduledAt
<1>4. \A b \in S : ScheduleIndex(b) \in 1..n /\ f[ScheduleIndex(b)] = b
  <2>1. ASSUME NEW b \in S PROVE ScheduleIndex(b) \in 1..n /\ f[ScheduleIndex(b)] = b
    <3>1. ScheduleIndex(b) \in 1..n
      BY ScheduleOrder
    <3> QED BY <1>3, <3>1, ScheduleInjective
  <2> QED BY <2>1
<1>5. f \in Bijection(1..n, S)
  BY <1>3, <1>4 DEF Bijection, Injection, Surjection, IsInjective
<1>6. ExistsBijection(1..n, S)
  BY <1>5 DEF ExistsBijection
<1> QED BY <1>6, FS_Interval, FS_Bijection

\* The next batch in the schedule is appended to the ledger.
LEMMA LedgerRecords ==
  ASSUME IInv, RateInv, TypeInv, AllBestInv, SegInv, PersistBatch
  PROVE  Ledger!Record
<1> DEFINE n == ScheduleIndex(Here) - 1
<1>1. /\ pc = "batch" /\ UNCHANGED sim
      /\ persisted' = [persisted EXCEPT ![Here] = @ + Matches]
  BY DEF PersistBatch
<1>2. PICK w \in 0..Matches : wins' = [wins EXCEPT ![Here] = @ + w]
  BY DEF PersistBatch
<1>3. /\ Here \in Batch /\ persisted[Here] = 0 /\ wins[Here] = 0
      /\ DOMAIN persisted = Batch /\ DOMAIN wins = Batch
      /\ Matches \in Nat \ {0}
  BY <1>1, HereIsBatch, RunAssumption DEF IInv, PlaceInv, CountInv, RateInv
<1>4. /\ n \in Nat /\ n + 1 = ScheduleIndex(Here)
      /\ n < NumRounds * NumOpps /\ NumRounds * NumOpps \in Nat
      /\ \A b \in Batch : ScheduleIndex(b) \in Nat
  <2>1. NumRounds * NumOpps \in Nat
    BY RunAssumption
  <2> QED BY <1>3, <2>1, ScheduleOrder
<1> HIDE DEF n
<1>5. Cardinality(Recorded) = n
  <2>1. \A b \in Batch : b \in Recorded <=> ScheduleIndex(b) <= n
    BY <1>1, <1>4, RecordedBefore
  <2> QED BY <1>4, <2>1, CountBefore DEF Recorded
<1>6. Cardinality(Recorded') = n + 1
  <2>1. \A b \in Batch : persisted'[b] > 0 <=> persisted[b] > 0 \/ b = Here
    BY <1>1, <1>3
  <2>2. \A b \in Batch : b \in Recorded' <=> ScheduleIndex(b) <= n + 1
    <3>1. \A b \in Batch : b \in Recorded <=> ScheduleIndex(b) < n + 1
      BY <1>1, <1>4, RecordedBefore
    <3>2. \A b \in Batch : b \in Recorded' <=> b \in Recorded \/ b = Here
      BY <2>1 DEF Recorded
    <3> QED BY <1>3, <1>4, <3>1, <3>2, ScheduleInjective
  <2> QED BY <1>4, <2>2, CountBefore DEF Recorded
<1>7. /\ RecordedWins \in Seq(Int) /\ Len(RecordedWins) = n
      /\ RecordedWins = [i \in 1..n |-> wins[Scheduled(i)]]
  <2>1. RecordedWins = [i \in 1..n |-> wins[Scheduled(i)]]
    <3>1. \A i \in 1..n : BatchAt(i) = Scheduled(i)
      BY <1>4, ScheduledAt
    <3> QED BY <1>5, <3>1 DEF RecordedWins
  <2>2. \A i \in 1..n : wins[Scheduled(i)] \in Int
    BY <1>4, ScheduledAt DEF TypeInv, BatchTypes
  <2> QED BY <1>4, <2>1, <2>2
<1>8. RecordedWins' = [i \in 1..(n + 1) |-> wins'[Scheduled(i)]]
  <2>1. \A i \in 1..(n + 1) : BatchAt(i) = Scheduled(i)
    BY <1>4, ScheduledAt
  <2> QED BY <1>6, <2>1 DEF RecordedWins
<1>9. RecordedWins' = Append(RecordedWins, w)
  <2>1. ASSUME NEW i \in 1..n PROVE wins'[Scheduled(i)] = wins[Scheduled(i)]
    <3>1. Scheduled(i) \in Batch /\ Scheduled(i) # Here
      BY <1>4, ScheduledAt
    <3> QED BY <1>2, <1>3, <3>1
  <2>2. wins'[Scheduled(n + 1)] = w
    <3>1. Scheduled(n + 1) = Here
      BY <1>3, <1>4, ScheduledAt, ScheduleInjective
    <3> QED BY <1>2, <1>3, <3>1
  <2>3. Append(RecordedWins, w) =
           [i \in 1..(n + 1) |-> IF i = n + 1 THEN w ELSE RecordedWins[i]]
    BY <1>4, <1>7
  <2> QED BY <1>4, <1>7, <1>8, <2>1, <2>2, <2>3
<1>10. ~(sim.status \in {"complete", "failed"})
  BY <1>1 DEF AllBestInv, WorkerInv
<1> QED BY <1>1, <1>4, <1>7, <1>9, <1>10 DEF Ledger!Record

\* Every other step leaves the results as they are; the one that ends the
\* simulation closes the ledger, and none opens it again.
LEMMA LedgerNext ==
  ASSUME IInv, RateInv, TypeInv, AllBestInv, SegInv, [Next]_vars
  PROVE  [Ledger!Next]_Ledger!vars
<1>1. CASE PersistBatch
  BY <1>1, LedgerRecords DEF Ledger!Next
<1>2. CASE ~PersistBatch
  <2>1. UNCHANGED <<persisted, wins>>
    BY <1>2 DEF vars, Next, WorkerStep, RoundStep, CoachStep, Start, OpenRound, Prepare,
       CloseBatch, Summarise, Track, CoachBlocked, CoachReverts, CoachKeeps, CoachFails,
       CoachAppliesNone, CoachApplies, LogMutation, LogFails, CloneDeck, CloneFails,
       CheckTarget, Finish, StepRaises, FailRun, Recover, Crash
  <2>2. RecordedWins' = RecordedWins
    BY <2>1 DEF RecordedWins, Recorded
  <2>3. sim.status \in {"complete", "failed"} =>
           sim'.status \in {"complete", "failed"}
    BY DEF vars, Next, WorkerStep, RoundStep, CoachStep, Start, OpenRound, Prepare,
       PersistBatch, CloseBatch, Summarise, Track, CoachBlocked, CoachReverts, CoachKeeps,
       CoachFails, CoachAppliesNone, CoachApplies, LogMutation, LogFails, CloneDeck,
       CloneFails, CheckTarget, Finish, StepRaises, FailRun, Recover, Crash, AllBestInv,
       WorkerInv, TypeInv, RowTypes
  <2> QED BY <2>2, <2>3 DEF Ledger!Next, Ledger!Close, Ledger!vars
<1> QED BY <1>1, <1>2

\* A run of a simulation, with its crashes and retries, is a ledger: a batch
\* is recorded once and after those scheduled before it, what is recorded
\* stays, and nothing is recorded after the end.
THEOREM LedgerImplemented == Spec => LedgerSteps
<1>1. Init => Ledger!Init
  <2> SUFFICES ASSUME Init PROVE Ledger!Init
    OBVIOUS
  <2>1. Recorded = {}
    BY DEF Init, Recorded
  <2>2. Cardinality(Recorded) = 0
    BY <2>1, FS_EmptySet
  <2>3. RecordedWins = <<>>
    BY <2>2 DEF RecordedWins
  <2> QED BY <2>3 DEF Init, Ledger!Init
<1>2. /\ IInv /\ RateInv /\ TypeInv /\ AllBestInv /\ SegInv /\ [Next]_vars
         => [Ledger!Next]_Ledger!vars
  BY LedgerNext
<1>3. IInv /\ RateInv /\ SegInv /\ [Next]_vars => SegInv'
  BY StepSeg
<1> QED BY InitSeg, <1>1, <1>2, <1>3, TypeInvariance, BestInvariance, PTL
        DEF Spec, LedgerSteps, Ledger!Safety
=============================================================================
