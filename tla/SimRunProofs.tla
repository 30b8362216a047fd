----------------------------- MODULE SimRunProofs -----------------------------
(***************************************************************************)
(* Proofs about SimRun: what the rows of a simulation say after any number *)
(* of crashes and retries.                                                 *)
(***************************************************************************)
EXTENDS SimRun, TLAPS

\* The fields of the local state that the proofs look at.
Fields == {"round", "opp", "deck", "id", "rawText", "skipped", "batch",
           "result", "best", "bestRound", "bestDeck", "bestId", "bestRaw",
           "prev", "regressions", "hits", "streak"}

\* Deck names are given once: those in use are at most serial.
NamesInv ==
    /\ serial \in Nat
    /\ Fields \subseteq DOMAIN mem
    /\ mem.id \in 0..serial
    /\ mem.bestId \in 0..serial
    /\ DOMAIN deckRows \subseteq 0..serial
    /\ \A r \in DOMAIN roundRow :
          /\ {"deck", "id", "rate"} \subseteq DOMAIN roundRow[r]
          /\ roundRow[r].id \in 0..serial

\* While a batch is prepared, played and closed, the worker is at a batch of
\* the schedule whose round has a row, and it holds the deck of that row.
AtBatch ==
    /\ mem.opp \in Opp
    /\ mem.round \in DOMAIN roundRow
    /\ mem.deck = roundRow[mem.round].deck
    /\ mem.id = roundRow[mem.round].id

PlaceInv ==
    /\ mem.round \in Round
    /\ pc \in {"prepare", "batch", "close"} => AtBatch
    /\ pc = "batch" => persisted[Here] = 0
    /\ pc = "close" => persisted[Here] = Matches

\* A batch has all its match rows or none, and all if it is complete.
CountInv ==
    /\ persisted \in [Batch -> {0, Matches}]
    /\ checkpoint \in [Batch -> [status : {"pending", "running", "complete"},
                                 done : 0..Matches]]
    /\ \A b \in Batch : checkpoint[b].status = "complete" =>
                           persisted[b] = Matches /\ checkpoint[b].done = Matches

DeckInv ==
    /\ DOMAIN played = Batch
    /\ RoundDeckStable
    /\ AttributedDeck

IInv == NamesInv /\ PlaceInv /\ CountInv /\ DeckInv

LEMMA InitInv == Init => IInv
  BY RunAssumption
  DEF Init, IInv, NamesInv, PlaceInv, CountInv, DeckInv, AtBatch, FreshMemory,
      Fields, Round, Opp, Batch, Here, UserDeck, UserDeckId, RoundDeckStable,
      AttributedDeck, NoRate

\* The places where the worker holds no batch.
Elsewhere == {"idle", "round", "summary", "track", "coach", "analyze", "log",
              "clone", "target", "finish", "fail"}

\* A step that leaves the rows of the invariant alone and the worker at no
\* batch keeps it when the local state stays well formed.
LEMMA QuietStep ==
  ASSUME IInv,
         UNCHANGED <<checkpoint, persisted, played, deckRows>>,
         UNCHANGED <<roundRow, serial>>,
         Fields \subseteq DOMAIN mem',
         mem'.id \in 0..serial, mem'.bestId \in 0..serial,
         mem'.round \in Round,
         pc' \in Elsewhere
  PROVE  IInv'
  BY DEF IInv, NamesInv, PlaceInv, CountInv, DeckInv, AtBatch, Elsewhere,
         RoundDeckStable, AttributedDeck, Here

\* The steps that only move the worker and change fields of its memory.
LEMMA QuietSteps ==
  ASSUME IInv,
         \/ Start \/ Crash \/ Recover \/ StepRaises \/ FailRun \/ Track
         \/ CoachBlocked \/ CoachReverts \/ CoachKeeps \/ CoachFails
         \/ CoachAppliesNone \/ LogMutation \/ LogFails \/ CloneFails
         \/ CheckTarget \/ Finish
  PROVE  IInv'
<1> USE RunAssumption DEF Elsewhere
<1>0. /\ Fields \subseteq DOMAIN mem
      /\ mem.round \in Round /\ mem.id \in 0..serial /\ mem.bestId \in 0..serial
      /\ serial \in Nat
  BY DEF IInv, NamesInv, PlaceInv
<1>1. CASE Start \/ Crash \/ FailRun \/ Finish
  <2>1. /\ Fields \subseteq DOMAIN FreshMemory
        /\ FreshMemory.round \in Round
        /\ FreshMemory.id \in 0..serial
        /\ FreshMemory.bestId \in 0..serial
    BY <1>0 DEF FreshMemory, Fields, Round, UserDeckId
  <2> QED BY <1>0, <1>1, <2>1, QuietStep DEF Start, Crash, FailRun, Finish
<1>2. CASE Recover
  <2>1. pc' = "idle" /\ UNCHANGED <<mem, checkpoint, persisted, played,
                                    deckRows, roundRow, serial>>
    BY <1>2 DEF Recover
  <2> QED BY <1>0, <2>1, QuietStep
<1>3. CASE \/ StepRaises \/ CoachBlocked \/ CoachKeeps \/ CoachFails
           \/ LogMutation \/ LogFails \/ CloneFails
  <2>1. /\ pc' \in Elsewhere
        /\ UNCHANGED <<mem, checkpoint, persisted, played, deckRows, roundRow,
                       serial>>
    BY <1>3 DEF StepRaises, CoachBlocked, CoachKeeps, CoachFails, LogMutation,
                LogFails, CloneFails
  <2> QED BY <1>0, <2>1, QuietStep
<1>4. CASE Track
  <2>1. /\ pc' \in Elsewhere
        /\ UNCHANGED <<checkpoint, persisted, played, deckRows, roundRow, serial>>
    BY <1>4 DEF Track
  <2>2. /\ Fields \subseteq DOMAIN mem'
        /\ mem'.round = mem.round /\ mem'.id = mem.id
        /\ mem'.bestId \in {mem.bestId, mem.id}
    BY <1>0, <1>4 DEF Track, Fields
  <2> QED BY <1>0, <2>1, <2>2, QuietStep
<1>5. CASE CoachReverts
  <2>1. /\ pc' \in Elsewhere
        /\ UNCHANGED <<checkpoint, persisted, played, deckRows, roundRow, serial>>
    BY <1>5 DEF CoachReverts
  <2>2. /\ Fields \subseteq DOMAIN mem'
        /\ mem'.round = mem.round /\ mem'.id = mem.bestId
        /\ mem'.bestId = mem.bestId
    BY <1>0, <1>5 DEF CoachReverts, Fields
  <2> QED BY <1>0, <2>1, <2>2, QuietStep
<1>6. CASE CoachAppliesNone
  <2>1. /\ pc' \in Elsewhere
        /\ UNCHANGED <<checkpoint, persisted, played, deckRows, roundRow, serial>>
    BY <1>6 DEF CoachAppliesNone
  <2>2. /\ Fields \subseteq DOMAIN mem'
        /\ mem'.round = mem.round /\ mem'.id = mem.id
        /\ mem'.bestId = mem.bestId
    BY <1>0, <1>6 DEF CoachAppliesNone, Fields
  <2> QED BY <1>0, <2>1, <2>2, QuietStep
<1>7. CASE CheckTarget
  <2>1. /\ pc' \in Elsewhere
        /\ UNCHANGED <<checkpoint, persisted, played, deckRows, roundRow, serial>>
    BY <1>7 DEF CheckTarget
  <2>2. /\ Fields \subseteq DOMAIN mem'
        /\ mem'.round = mem.round \/ (mem.round < NumRounds /\ mem'.round = mem.round + 1)
        /\ mem'.id = mem.id
        /\ mem'.bestId = mem.bestId
    BY <1>0, <1>7 DEF CheckTarget, Fields
  <2>3. mem'.round \in Round
    BY <1>0, <2>2 DEF Round
  <2> QED BY <1>0, <2>1, <2>2, <2>3, QuietStep
<1> QED BY <1>1, <1>2, <1>3, <1>4, <1>5, <1>6, <1>7

\* A new name is not in use: a mutation leaves every row as it is.
LEMMA CoachAppliesStep == ASSUME IInv, CoachApplies PROVE IInv'
<1>1. /\ Fields \subseteq DOMAIN mem'
      /\ mem'.round = mem.round /\ mem'.id = mem.id /\ mem'.bestId = mem.bestId
      /\ serial' = serial + 1 /\ pc' = "log"
      /\ UNCHANGED <<checkpoint, persisted, played, deckRows, roundRow>>
  BY DEF IInv, NamesInv, CoachApplies, Fields
<1>2. serial \in Nat /\ 0..serial \subseteq 0..serial'
  BY <1>1 DEF IInv, NamesInv
<1>3. NamesInv'
  BY <1>1, <1>2 DEF IInv, NamesInv
<1>4. PlaceInv'
  BY <1>1 DEF IInv, PlaceInv
<1>5. CountInv' /\ DeckInv'
  BY <1>1 DEF IInv, CountInv, DeckInv, RoundDeckStable, AttributedDeck
<1> QED BY <1>3, <1>4, <1>5 DEF IInv

\* The clone is a new deck: the rows of the others stay.
LEMMA CloneDeckStep == ASSUME IInv, CloneDeck PROVE IInv'
<1>1. /\ Fields \subseteq DOMAIN mem'
      /\ mem'.round = mem.round /\ mem'.id = serial' /\ mem'.bestId = mem.bestId
      /\ serial' = serial + 1 /\ pc' = "target"
      /\ deckRows' = Put(deckRows, serial', mem.deck)
      /\ UNCHANGED <<checkpoint, persisted, played, roundRow>>
  BY DEF IInv, NamesInv, CloneDeck, Fields
<1>2. /\ serial \in Nat /\ 0..serial \subseteq 0..serial'
      /\ serial' \in 0..serial' /\ serial' \notin 0..serial
  BY <1>1 DEF IInv, NamesInv
<1>3. DOMAIN deckRows' = DOMAIN deckRows \cup {serial'}
  BY <1>1 DEF Put
<1>4. \A i \in DOMAIN deckRows : deckRows'[i] = deckRows[i]
  BY <1>1, <1>2 DEF Put, IInv, NamesInv
<1>5. NamesInv'
  BY <1>1, <1>2, <1>3 DEF IInv, NamesInv
<1>6. PlaceInv'
  BY <1>1 DEF IInv, PlaceInv
<1>7. CountInv' /\ DeckInv'
  BY <1>1, <1>3, <1>4 DEF IInv, CountInv, DeckInv, RoundDeckStable, AttributedDeck
<1> QED BY <1>5, <1>6, <1>7 DEF IInv

\* A round is opened with its row and the memory in agreement.
LEMMA OpenRoundStep == ASSUME IInv, OpenRound PROVE IInv'
<1> USE RunAssumption
<1> DEFINE r == mem.round
<1>0. /\ r \in Round /\ Fields \subseteq DOMAIN mem /\ pc' = "prepare"
      /\ UNCHANGED <<checkpoint, persisted, played, deckRows, serial>>
  BY DEF IInv, NamesInv, PlaceInv, OpenRound
<1>1. /\ Fields \subseteq DOMAIN mem'
      /\ mem'.round = r /\ mem'.opp = 1 /\ mem'.bestId = mem.bestId
  BY <1>0 DEF OpenRound, Fields
<1>2. /\ r \in DOMAIN roundRow'
      /\ DOMAIN roundRow' = DOMAIN roundRow \cup {r}
      /\ \A q \in DOMAIN roundRow : roundRow'[q] = roundRow[q]
      /\ {"deck", "id", "rate"} \subseteq DOMAIN roundRow'[r]
      /\ mem'.deck = roundRow'[r].deck /\ mem'.id = roundRow'[r].id
      /\ mem'.id \in 0..serial
  <2>1. CASE r \notin DOMAIN roundRow
    <3>1. /\ roundRow' = Put(roundRow, r, [deck |-> mem.deck, id |-> mem.id,
                                           rate |-> NoRate])
          /\ mem'.deck = mem.deck /\ mem'.id = mem.id
      BY <1>0, <2>1 DEF OpenRound, Fields
    <3> QED BY <2>1, <3>1 DEF Put, IInv, NamesInv
  <2>2. CASE r \in DOMAIN roundRow
    <3>1. /\ roundRow' = roundRow
          /\ mem'.deck = roundRow[r].deck /\ mem'.id = roundRow[r].id
      BY <1>0, <2>2 DEF OpenRound, Fields
    <3> QED BY <2>2, <3>1 DEF IInv, NamesInv
  <2> QED BY <2>1, <2>2
<1>3. NamesInv'
  BY <1>0, <1>1, <1>2 DEF IInv, NamesInv
<1>4. PlaceInv'
  BY <1>0, <1>1, <1>2 DEF PlaceInv, AtBatch, Opp
<1>5. CountInv'
  BY <1>0 DEF IInv, CountInv
<1>6. DeckInv'
  BY <1>0, <1>2 DEF IInv, DeckInv, RoundDeckStable, AttributedDeck
<1> QED BY <1>3, <1>4, <1>5, <1>6 DEF IInv

\* Here is a batch of the schedule when the worker is at one.
LEMMA HereIsBatch ==
  ASSUME IInv, pc \in {"prepare", "batch", "close"}
  PROVE  Here \in Batch /\ Here = <<mem.round, mem.opp>> /\ AtBatch
  BY DEF IInv, PlaceInv, AtBatch, Here, Batch

\* Going on to the next opponent, or to the summary.
LEMMA NextOpponentPlace ==
  ASSUME IInv, NEW memory, NextOpponent(memory), pc \in {"prepare", "close"},
         Fields \subseteq DOMAIN memory,
         memory.round = mem.round, memory.opp = mem.opp, memory.deck = mem.deck,
         memory.id = mem.id, memory.bestId = mem.bestId,
         UNCHANGED roundRow
  PROVE  /\ PlaceInv'
         /\ Fields \subseteq DOMAIN mem'
         /\ mem'.id = mem.id /\ mem'.bestId = mem.bestId
<1>1. /\ Fields \subseteq DOMAIN mem'
      /\ mem'.round = mem.round /\ mem'.opp = mem.opp + 1
      /\ mem'.deck = mem.deck /\ mem'.id = mem.id /\ mem'.bestId = mem.bestId
      /\ pc' = IF mem.opp < NumOpps THEN "prepare" ELSE "summary"
  BY DEF NextOpponent, Fields
<1>2. AtBatch /\ mem.round \in Round
  BY HereIsBatch DEF IInv, PlaceInv
<1>3. mem.opp < NumOpps => mem'.opp \in Opp
  BY <1>1, <1>2, RunAssumption DEF AtBatch, Opp
<1> QED BY <1>1, <1>2, <1>3 DEF PlaceInv, AtBatch

\* The retry rules never refuse a checkpoint, and a batch is run only if it
\* has no match row.
LEMMA VerdictIsRunOrSkip ==
  ASSUME IInv, NEW b \in Batch
  PROVE  /\ Verdict(b) \in {"run", "skip"}
         /\ Verdict(b) = "run" => persisted[b] = 0
         /\ Verdict(b) = "skip" => persisted[b] = Matches
<1>1. persisted[b] \in {0, Matches}
      /\ checkpoint[b].status \in {"pending", "running", "complete"}
      /\ (checkpoint[b].status = "complete" =>
             persisted[b] = Matches /\ checkpoint[b].done = Matches)
  BY DEF IInv, CountInv
<1> QED BY <1>1, RunAssumption DEF Verdict

LEMMA PrepareStep == ASSUME IInv, Prepare PROVE IInv'
<1> USE RunAssumption
<1>0. /\ UNCHANGED <<roundRow, persisted, played, deckRows, serial, wins>>
      /\ pc = "prepare" /\ Here \in Batch
      /\ Verdict(Here) \in {"run", "skip"}
      /\ Fields \subseteq DOMAIN mem
  BY HereIsBatch, VerdictIsRunOrSkip DEF Prepare, IInv, NamesInv
<1>1. CASE Verdict(Here) = "run"
  <2>1. /\ checkpoint' = [checkpoint EXCEPT ![Here] = [status |-> "running", done |-> 0]]
        /\ pc' = "batch" /\ UNCHANGED mem
    BY <1>0, <1>1 DEF Prepare
  <2>2. persisted[Here] = 0
    BY <1>0, <1>1, VerdictIsRunOrSkip
  <2>3. CountInv'
    BY <1>0, <2>1, <2>2 DEF IInv, CountInv
  <2>4. NamesInv' /\ DeckInv'
    BY <1>0, <2>1 DEF IInv, NamesInv, DeckInv, RoundDeckStable, AttributedDeck
  <2>5. PlaceInv'
    BY <1>0, <2>1, <2>2 DEF IInv, PlaceInv, AtBatch, Here
  <2> QED BY <2>3, <2>4, <2>5 DEF IInv
<1>2. CASE Verdict(Here) = "skip"
  <2> DEFINE memory == [mem EXCEPT !.skipped = TRUE, !.result[mem.opp] = wins[Here]]
  <2>1. /\ checkpoint' = [checkpoint EXCEPT ![Here] =
                             [status |-> "complete", done |-> persisted[Here]]]
        /\ NextOpponent(memory)
    BY <1>0, <1>2 DEF Prepare
  <2>2. persisted[Here] = Matches
    BY <1>0, <1>2, VerdictIsRunOrSkip
  <2>3. CountInv'
    BY <1>0, <2>1, <2>2 DEF IInv, CountInv
  <2>4. /\ Fields \subseteq DOMAIN memory
        /\ memory.round = mem.round /\ memory.opp = mem.opp
        /\ memory.deck = mem.deck /\ memory.id = mem.id
        /\ memory.bestId = mem.bestId
    BY <1>0 DEF Fields
  <2>5. /\ PlaceInv' /\ Fields \subseteq DOMAIN mem'
        /\ mem'.id = mem.id /\ mem'.bestId = mem.bestId
    <3> HIDE DEF memory
    <3> QED BY <1>0, <2>1, <2>4, NextOpponentPlace
  <2>6. NamesInv' /\ DeckInv'
    BY <1>0, <2>5 DEF IInv, NamesInv, DeckInv, RoundDeckStable, AttributedDeck
  <2> QED BY <2>3, <2>5, <2>6 DEF IInv
<1> QED BY <1>0, <1>1, <1>2

\* The batch is filed under a deck whose rows are the cards it was played
\* with, and no rows of a deck that is in use change.
LEMMA PersistBatchStep == ASSUME IInv, PersistBatch PROVE IInv'
<1> USE RunAssumption
<1>0. /\ UNCHANGED <<roundRow, checkpoint, serial>>
      /\ pc = "batch" /\ pc' = "close"
      /\ DeckAccepted(mem.id, mem.deck)
      /\ deckRows' = Put(deckRows, mem.id, mem.deck)
      /\ persisted' = [persisted EXCEPT ![Here] = @ + Matches]
      /\ played' = [played EXCEPT ![Here] = mem.deck]
  BY DEF PersistBatch
<1>1. /\ Fields \subseteq DOMAIN mem'
      /\ mem'.round = mem.round /\ mem'.opp = mem.opp /\ mem'.deck = mem.deck
      /\ mem'.id = mem.id /\ mem'.bestId = mem.bestId
  <2>1. PICK w \in 0..Matches : mem' = [mem EXCEPT !.batch = w]
    BY DEF PersistBatch
  <2> QED BY <2>1 DEF IInv, NamesInv, Fields
<1>2. /\ Here \in Batch /\ Here = <<mem.round, mem.opp>> /\ AtBatch
      /\ Here' = Here
      /\ persisted[Here] = 0
  BY <1>0, <1>1, HereIsBatch DEF IInv, PlaceInv, Here
<1>3. /\ persisted' = [persisted EXCEPT ![Here] = Matches]
      /\ persisted'[Here] = Matches
  BY <1>0, <1>2 DEF IInv, CountInv
<1>4. /\ DOMAIN deckRows' = DOMAIN deckRows \cup {mem.id}
      /\ deckRows'[mem.id] = mem.deck
      /\ \A i \in DOMAIN deckRows : deckRows'[i] = deckRows[i]
  BY <1>0 DEF Put, DeckAccepted
<1>5. NamesInv'
  BY <1>0, <1>1, <1>4 DEF IInv, NamesInv
<1>6. PlaceInv'
  BY <1>0, <1>1, <1>2, <1>3 DEF IInv, PlaceInv, AtBatch
<1>7. CountInv'
  BY <1>0, <1>2, <1>3 DEF IInv, CountInv
<1>8. DeckInv'
  <2>1. DOMAIN played' = Batch
    BY <1>0 DEF IInv, DeckInv
  <2>2. ASSUME NEW r \in Round, NEW o \in Opp, persisted'[<<r, o>>] > 0
        PROVE  /\ r \in DOMAIN roundRow'
               /\ played'[<<r, o>>] = roundRow'[r].deck
               /\ roundRow'[r].id \in DOMAIN deckRows'
               /\ deckRows'[roundRow'[r].id] = played'[<<r, o>>]
    <3>0. <<r, o>> \in Batch
      BY DEF Batch
    <3>1. CASE <<r, o>> = Here
      BY <1>0, <1>2, <1>4, <3>0, <3>1 DEF AtBatch, IInv, DeckInv
    <3>2. CASE <<r, o>> # Here
      <4>1. persisted[<<r, o>>] > 0 /\ played'[<<r, o>>] = played[<<r, o>>]
        BY <1>0, <1>2, <2>2, <3>0, <3>2 DEF IInv, CountInv, DeckInv
      <4> QED BY <1>0, <1>4, <4>1
              DEF IInv, DeckInv, RoundDeckStable, AttributedDeck
    <3> QED BY <3>1, <3>2
  <2> QED BY <2>1, <2>2 DEF DeckInv, RoundDeckStable, AttributedDeck
<1> QED BY <1>5, <1>6, <1>7, <1>8 DEF IInv

LEMMA CloseBatchStep == ASSUME IInv, CloseBatch PROVE IInv'
<1> USE RunAssumption
<1> DEFINE memory == [mem EXCEPT !.result[mem.opp] = mem.batch]
<1>0. /\ UNCHANGED <<roundRow, persisted, played, deckRows, serial>>
      /\ pc = "close" /\ Here \in Batch /\ persisted[Here] = Matches
      /\ checkpoint' = [checkpoint EXCEPT ![Here] =
                           [status |-> "complete", done |-> Matches]]
      /\ NextOpponent(memory)
      /\ Fields \subseteq DOMAIN mem
  BY HereIsBatch DEF CloseBatch, IInv, NamesInv, PlaceInv
<1>1. CountInv'
  BY <1>0 DEF IInv, CountInv
<1>2. /\ Fields \subseteq DOMAIN memory
      /\ memory.round = mem.round /\ memory.opp = mem.opp
      /\ memory.deck = mem.deck /\ memory.id = mem.id
      /\ memory.bestId = mem.bestId
  BY <1>0 DEF Fields
<1>3. /\ PlaceInv' /\ Fields \subseteq DOMAIN mem'
      /\ mem'.id = mem.id /\ mem'.bestId = mem.bestId
  <2> HIDE DEF memory
  <2> QED BY <1>0, <1>2, NextOpponentPlace
<1>4. NamesInv' /\ DeckInv'
  BY <1>0, <1>3 DEF IInv, NamesInv, DeckInv, RoundDeckStable, AttributedDeck
<1> QED BY <1>1, <1>3, <1>4 DEF IInv

\* The summary writes the rate of a row and nothing else of it.
LEMMA SummariseStep == ASSUME IInv, Summarise PROVE IInv'
<1>0. /\ UNCHANGED <<checkpoint, persisted, played, deckRows, mem, serial>>
      /\ pc' = "track"
      /\ roundRow' = [roundRow EXCEPT ![mem.round].rate = RoundRate]
  BY DEF Summarise
<1>1. /\ DOMAIN roundRow' = DOMAIN roundRow
      /\ \A r \in DOMAIN roundRow :
            /\ DOMAIN roundRow'[r] = DOMAIN roundRow[r]
            /\ roundRow'[r].deck = roundRow[r].deck
            /\ roundRow'[r].id = roundRow[r].id
  BY <1>0 DEF IInv, NamesInv
<1>2. NamesInv' /\ PlaceInv' /\ CountInv'
  BY <1>0, <1>1 DEF IInv, NamesInv, PlaceInv, CountInv
<1>3. DeckInv'
  BY <1>0, <1>1 DEF IInv, DeckInv, RoundDeckStable, AttributedDeck
<1> QED BY <1>2, <1>3 DEF IInv

LEMMA StepInv == IInv /\ [Next]_vars => IInv'
<1> SUFFICES ASSUME IInv, [Next]_vars PROVE IInv'
  OBVIOUS
<1>1. CASE UNCHANGED vars
  BY <1>1 DEF vars, IInv, NamesInv, PlaceInv, CountInv, DeckInv, AtBatch, Here,
              RoundDeckStable, AttributedDeck
<1>2. CASE RoundStep
  BY <1>2, OpenRoundStep, PrepareStep, PersistBatchStep, CloseBatchStep,
     SummariseStep, QuietSteps DEF RoundStep
<1>3. CASE CoachStep
  BY <1>3, QuietSteps, CoachAppliesStep, CloneDeckStep DEF CoachStep
<1>4. CASE Start \/ CheckTarget \/ Finish \/ StepRaises \/ FailRun \/ Recover \/ Crash
  BY <1>4, QuietSteps
<1> QED BY <1>1, <1>2, <1>3, <1>4 DEF Next, WorkerStep

LEMMA Invariance == Spec => []IInv
<1>1. Init => IInv
  BY InitInv
<1>2. IInv /\ [Next]_vars => IInv'
  BY StepInv
<1> QED BY <1>1, <1>2, PTL DEF Spec

\* No sequence of crashes and retries leads to a checkpoint that
\* _prepare_opponent_checkpoint refuses with "manual repair required".
THEOREM NoRepairNeeded == Spec => []NoManualRepair
<1>1. IInv => NoManualRepair
  BY HereIsBatch, VerdictIsRunOrSkip DEF NoManualRepair
<1> QED BY <1>1, Invariance, PTL

\* A round is played with one deck, whatever is retried.
THEOREM OneDeckPerRound == Spec => []RoundDeckStable
<1>1. IInv => RoundDeckStable
  BY DEF IInv, DeckInv
<1> QED BY <1>1, Invariance, PTL

\* Matches stay attributed to the cards they were played with.
THEOREM DeckAttribution == Spec => []AttributedDeck
<1>1. IInv => AttributedDeck
  BY DEF IInv, DeckInv
<1> QED BY <1>1, Invariance, PTL

\* The batches of round r before opponent n are played, and their results are
\* in memory.
PlayedTo(r, n) ==
    \A o \in Opp : o < n => /\ mem.result[o] = wins[<<r, o>>]
                            /\ persisted[<<r, o>>] = Matches

\* The rows with a rate are of rounds that are played, and the worker that
\* comes to a summary holds the result of every batch of the round.
RateInv ==
    /\ DOMAIN wins = Batch
    /\ \A b \in Batch : persisted[b] = 0 => wins[b] = 0
    /\ mem.result = [o \in Opp |-> mem.result[o]]
    /\ pc \in {"prepare", "batch", "close"} => PlayedTo(mem.round, mem.opp)
    /\ pc = "close" => mem.batch = wins[Here]
    /\ pc \in {"summary", "track"} => PlayedTo(mem.round, NumOpps + 1)
    /\ \A r \in DOMAIN roundRow :
          \/ roundRow[r].rate = NoRate
          \/ /\ \A o \in Opp : persisted[<<r, o>>] = Matches
             /\ roundRow[r].rate = StoredRate(r)

LEMMA InitRate == Init => RateInv
  BY RunAssumption DEF Init, RateInv, FreshMemory, PlayedTo, Opp

\* Elsewhere the worker may do what it likes with its memory.
LEMMA RateQuiet ==
  ASSUME RateInv, UNCHANGED <<persisted, wins, roundRow>>,
         mem'.result = mem.result \/ mem'.result = [o \in Opp |-> NoRate],
         \/ pc' \notin {"prepare", "batch", "close", "summary", "track"}
         \/ pc = "summary" /\ pc' = "track" /\ UNCHANGED mem
  PROVE  RateInv'
  BY DEF RateInv, PlayedTo, StoredRate

LEMMA RateQuietSteps ==
  ASSUME IInv, RateInv,
         \/ Start \/ Crash \/ Recover \/ StepRaises \/ FailRun \/ Track \/ CoachStep
         \/ CheckTarget \/ Finish
  PROVE  RateInv'
<1>0. Fields \subseteq DOMAIN mem
  BY DEF IInv, NamesInv
<1>1. CASE Start \/ Crash \/ FailRun \/ Finish
  BY <1>1, RateQuiet DEF Start, Crash, FailRun, Finish, FreshMemory
<1>2. CASE Recover \/ StepRaises
  BY <1>2, RateQuiet DEF Recover, StepRaises
<1>3. CASE Track \/ CheckTarget
  <2>1. mem'.result = mem.result
    BY <1>0, <1>3 DEF Track, CheckTarget, Fields
  <2>2. QED BY <1>3, <2>1, RateQuiet DEF Track, CheckTarget
<1>4. CASE CoachStep
  <2>1. mem'.result = mem.result
    BY <1>0, <1>4 DEF CoachStep, CoachBlocked, CoachReverts, CoachKeeps, CoachFails,
                CoachAppliesNone, CoachApplies, LogMutation, LogFails, CloneDeck, CloneFails,
                Fields
  <2>2. /\ UNCHANGED <<persisted, wins, roundRow>>
        /\ pc' \in {"fail", "analyze", "target", "clone", "log"}
    BY <1>4 DEF CoachStep, CoachBlocked, CoachReverts, CoachKeeps, CoachFails,
                CoachAppliesNone, CoachApplies, LogMutation, LogFails, CloneDeck, CloneFails
  <2>3. QED BY <2>1, <2>2, RateQuiet
<1>5. QED BY <1>1, <1>2, <1>3, <1>4

LEMMA RateOpenRound == ASSUME IInv, RateInv, OpenRound PROVE RateInv'
<1>0. /\ Fields \subseteq DOMAIN mem /\ mem.round \in Round
      /\ UNCHANGED <<persisted, wins>> /\ pc' = "prepare"
  BY DEF IInv, NamesInv, PlaceInv, OpenRound
<1>1. mem'.opp = 1 /\ mem'.result = [o \in Opp |-> NoRate]
  BY <1>0 DEF OpenRound, Fields
<1>2. \A r \in DOMAIN roundRow' :
        \/ r \in DOMAIN roundRow /\ roundRow'[r] = roundRow[r]
        \/ roundRow'[r].rate = NoRate
  BY DEF OpenRound, Put
<1>3. PlayedTo(mem.round, mem.opp)'
  BY <1>1, RunAssumption DEF PlayedTo, Opp
<1>4. QED BY <1>0, <1>1, <1>2, <1>3 DEF RateInv, StoredRate

\* What the loop has at hand when it goes on to the next opponent.
LEMMA RateNext ==
  ASSUME IInv, RateInv, NEW memory, NextOpponent(memory), pc \in {"prepare", "close"},
         Fields \subseteq DOMAIN memory, memory.round = mem.round, memory.opp = mem.opp,
         memory.result = [mem.result EXCEPT ![mem.opp] = wins[Here]],
         persisted[Here] = Matches, UNCHANGED <<persisted, wins, roundRow>>
  PROVE  RateInv'
<1>1. /\ mem'.round = mem.round /\ mem'.opp = mem.opp + 1
      /\ mem'.result = [mem.result EXCEPT ![mem.opp] = wins[Here]]
      /\ pc' = IF mem.opp < NumOpps THEN "prepare" ELSE "summary"
  BY DEF NextOpponent, Fields
<1>2. mem.opp \in Opp /\ Here = <<mem.round, mem.opp>>
  BY HereIsBatch DEF AtBatch
<1>3. \A o \in Opp : o < mem.opp + 1 => o < mem.opp \/ o = mem.opp
  BY <1>2, RunAssumption DEF Opp
<1>4. PlayedTo(mem.round, mem.opp)
  BY DEF RateInv
<1>5. mem'.result = [o \in Opp |-> mem'.result[o]]
      /\ mem'.result[mem.opp] = wins[Here]
      /\ \A o \in Opp : o # mem.opp => mem'.result[o] = mem.result[o]
  BY <1>1, <1>2 DEF RateInv
<1>6. \A o \in Opp : o < mem.opp + 1 => /\ mem'.result[o] = wins[<<mem.round, o>>]
                                         /\ persisted[<<mem.round, o>>] = Matches
  BY <1>2, <1>3, <1>4, <1>5 DEF PlayedTo
<1>7. PlayedTo(mem.round, mem.opp)'
  BY <1>1, <1>6 DEF PlayedTo
<1>8. pc' = "summary" => PlayedTo(mem.round, NumOpps + 1)'
  <2> SUFFICES ASSUME pc' = "summary" PROVE PlayedTo(mem.round, NumOpps + 1)'
    OBVIOUS
  <2>1. mem.opp = NumOpps
    BY <1>1, <1>2, RunAssumption DEF Opp
  <2>2. QED BY <1>1, <1>6, <2>1 DEF PlayedTo
<1>9. \A r \in DOMAIN roundRow' :
          \/ roundRow'[r].rate = NoRate
          \/ /\ \A o \in Opp : persisted'[<<r, o>>] = Matches
             /\ roundRow'[r].rate = StoredRate(r)'
  BY DEF RateInv, StoredRate
<1>10. QED BY <1>1, <1>5, <1>7, <1>8, <1>9 DEF RateInv

LEMMA RatePrepare == ASSUME IInv, RateInv, Prepare PROVE RateInv'
<1>0. /\ UNCHANGED <<persisted, wins, roundRow>> /\ pc = "prepare"
      /\ Here \in Batch /\ Verdict(Here) \in {"run", "skip"} /\ Fields \subseteq DOMAIN mem
  BY HereIsBatch, VerdictIsRunOrSkip DEF Prepare, IInv, NamesInv
<1>1. CASE Verdict(Here) = "run"
  <2>1. pc' = "batch" /\ UNCHANGED mem
    BY <1>0, <1>1 DEF Prepare
  <2>2. QED BY <1>0, <2>1 DEF RateInv, PlayedTo, StoredRate
<1>2. CASE Verdict(Here) = "skip"
  <2> DEFINE memory == [mem EXCEPT !.skipped = TRUE, !.result[mem.opp] = wins[Here]]
  <2>1. NextOpponent(memory)
    BY <1>0, <1>2 DEF Prepare
  <2>2. persisted[Here] = Matches
    BY <1>0, <1>2, VerdictIsRunOrSkip
  <2>3. /\ Fields \subseteq DOMAIN memory
        /\ memory.round = mem.round /\ memory.opp = mem.opp
        /\ memory.result = [mem.result EXCEPT ![mem.opp] = wins[Here]]
    BY <1>0 DEF Fields
  <2> HIDE DEF memory
  <2>4. QED BY <1>0, <2>1, <2>2, <2>3, RateNext
<1>3. QED BY <1>0, <1>1, <1>2

LEMMA RateClose == ASSUME IInv, RateInv, CloseBatch PROVE RateInv'
<1> DEFINE memory == [mem EXCEPT !.result[mem.opp] = mem.batch]
<1>0. /\ UNCHANGED <<persisted, wins, roundRow>> /\ pc = "close"
      /\ persisted[Here] = Matches /\ mem.batch = wins[Here]
      /\ NextOpponent(memory) /\ Fields \subseteq DOMAIN mem
  BY DEF CloseBatch, IInv, NamesInv, PlaceInv, RateInv
<1>1. /\ Fields \subseteq DOMAIN memory
      /\ memory.round = mem.round /\ memory.opp = mem.opp
      /\ memory.result = [mem.result EXCEPT ![mem.opp] = wins[Here]]
  BY <1>0 DEF Fields
<1> HIDE DEF memory
<1>2. QED BY <1>0, <1>1, RateNext

\* A batch is played once: no round that has a rate is touched.
LEMMA RatePersist == ASSUME IInv, RateInv, PersistBatch PROVE RateInv'
<1> USE RunAssumption
<1>0. /\ UNCHANGED roundRow /\ pc = "batch" /\ pc' = "close"
      /\ persisted' = [persisted EXCEPT ![Here] = @ + Matches]
  BY DEF PersistBatch
<1>1. PICK w \in 0..Matches : /\ wins' = [wins EXCEPT ![Here] = @ + w]
                              /\ mem' = [mem EXCEPT !.batch = w]
  BY DEF PersistBatch
<1>2. /\ Here \in Batch /\ Here = <<mem.round, mem.opp>> /\ mem.opp \in Opp
      /\ persisted[Here] = 0 /\ wins[Here] = 0 /\ DOMAIN persisted = Batch
  BY <1>0, HereIsBatch DEF IInv, PlaceInv, RateInv, AtBatch, CountInv
<1>3. /\ mem'.round = mem.round /\ mem'.opp = mem.opp /\ mem'.result = mem.result
      /\ mem'.batch = w /\ Here' = Here
  BY <1>1 DEF IInv, NamesInv, Fields, Here
<1>4. /\ wins'[Here] = w /\ persisted'[Here] = Matches /\ DOMAIN wins' = Batch
      /\ \A b \in Batch : b # Here => wins'[b] = wins[b] /\ persisted'[b] = persisted[b]
  BY <1>0, <1>1, <1>2 DEF RateInv
<1>5. \A b \in Batch : persisted'[b] = 0 => wins'[b] = 0
  BY <1>4 DEF RateInv
<1>6. \A r \in DOMAIN roundRow' :
          \/ roundRow'[r].rate = NoRate
          \/ /\ \A o \in Opp : persisted'[<<r, o>>] = Matches
             /\ roundRow'[r].rate = StoredRate(r)'
  <2> SUFFICES ASSUME NEW r \in DOMAIN roundRow, roundRow[r].rate # NoRate
               PROVE  /\ \A o \in Opp : persisted'[<<r, o>>] = Matches
                      /\ roundRow[r].rate = StoredRate(r)'
    BY <1>0
  <2>1. /\ \A o \in Opp : persisted[<<r, o>>] = Matches
        /\ roundRow[r].rate = StoredRate(r)
    BY DEF RateInv
  <2>2. \A o \in Opp : <<r, o>> # Here
    BY <1>2, <2>1
  <2>3. \A o \in Opp : wins'[<<r, o>>] = wins[<<r, o>>] /\ persisted'[<<r, o>>] = persisted[<<r, o>>]
    <3>1. \A x, y : y # Here => [wins EXCEPT ![Here] = x][y] = wins[y] \/ y \notin Batch
      BY DEF RateInv
    <3>2. QED BY <1>0, <1>1, <2>2 DEF RateInv
  <2>4. [o \in Opp |-> wins'[<<r, o>>]] = [o \in Opp |-> wins[<<r, o>>]]
    BY <2>3
  <2>5. QED BY <2>1, <2>3, <2>4 DEF StoredRate
<1>7. PlayedTo(mem.round, mem.opp)'
  <2>1. \A o \in Opp : o < mem.opp => <<mem.round, o>> # Here /\ <<mem.round, o>> \in Batch
    BY <1>2 DEF Opp, Batch
  <2>2. QED BY <1>0, <1>3, <1>4, <2>1 DEF RateInv, PlayedTo
<1>8. QED BY <1>0, <1>3, <1>4, <1>5, <1>6, <1>7 DEF RateInv

\* The rate written is that of the rows.
LEMMA RateSummarise == ASSUME IInv, RateInv, Summarise PROVE RateInv'
<1>0. /\ UNCHANGED <<persisted, wins, mem>> /\ pc = "summary" /\ pc' = "track"
      /\ roundRow' = [roundRow EXCEPT ![mem.round].rate = RoundRate]
  BY DEF Summarise
<1>1. PlayedTo(mem.round, NumOpps + 1) /\ \A o \in Opp : o < NumOpps + 1
  BY <1>0, RunAssumption DEF RateInv, Opp
<1>2. mem.result = [o \in Opp |-> wins[<<mem.round, o>>]]
  BY <1>1 DEF RateInv, PlayedTo
<1>3. RoundRate = StoredRate(mem.round)
  BY <1>2 DEF RoundRate, StoredRate
<1>4. \A r \in DOMAIN roundRow' :
        /\ r \in DOMAIN roundRow
        /\ r # mem.round => roundRow'[r] = roundRow[r]
        /\ r = mem.round => roundRow'[r].rate = StoredRate(r)
  BY <1>0, <1>3 DEF IInv, NamesInv
<1>5. \A o \in Opp : persisted[<<mem.round, o>>] = Matches
  BY <1>1 DEF PlayedTo
<1>6. \A r : StoredRate(r)' = StoredRate(r)
  BY <1>0 DEF StoredRate
<1>7. \A r \in DOMAIN roundRow' :
          \/ roundRow'[r].rate = NoRate
          \/ /\ \A o \in Opp : persisted'[<<r, o>>] = Matches
             /\ roundRow'[r].rate = StoredRate(r)'
  BY <1>0, <1>4, <1>5, <1>6 DEF RateInv
<1>8. QED BY <1>0, <1>1, <1>7 DEF RateInv, PlayedTo

LEMMA StepRate == IInv /\ RateInv /\ [Next]_vars => RateInv'
<1> SUFFICES ASSUME IInv, RateInv, [Next]_vars PROVE RateInv'
  OBVIOUS
<1>1. CASE UNCHANGED vars
  BY <1>1 DEF vars, RateInv, PlayedTo, StoredRate, Here
<1>2. CASE OpenRound \/ Prepare \/ PersistBatch \/ CloseBatch \/ Summarise
  BY <1>2, RateOpenRound, RatePrepare, RatePersist, RateClose, RateSummarise
<1>3. CASE \/ Start \/ Crash \/ Recover \/ StepRaises \/ FailRun \/ Track \/ CoachStep
           \/ CheckTarget \/ Finish
  BY <1>3, RateQuietSteps
<1>4. QED BY <1>1, <1>2, <1>3 DEF Next, WorkerStep, RoundStep

\* The win rate of a round is that of its match rows even if half of its
\* batches were played by a run that was killed and are only skipped by the
\* one that writes the summary.
THEOREM RatesStored == Spec => []RateFromMatches
<1>1. RateInv => RateFromMatches
  BY DEF RateInv, RateFromMatches
<1>2. IInv /\ RateInv /\ [Next]_vars => RateInv'
  BY StepRate
<1>3. QED BY InitRate, <1>1, <1>2, Invariance, PTL DEF Spec
=============================================================================
