-------------------------------- MODULE SimRun --------------------------------
(***************************************************************************)
(* One simulation inside _run_simulation_async (tasks/simulation.py): the  *)
(* loop over rounds and opponents with its per-opponent checkpoints, the   *)
(* coach phase that mutates the deck between rounds, and what is left of   *)
(* all this when the worker is killed and the simulation is run again.     *)
(*                                                                         *)
(* A step is one database transaction together with the computation that   *)
(* leads to it.  The rows survive a crash; mem, the local variables of the *)
(* function, does not.  A deck is the set of the mutations that lead from  *)
(* the user's deck to it, and a mutation is named by a serial number, as   *)
(* is the working deck cloned for it.                                      *)
(***************************************************************************)
EXTENDS Integers, FiniteSets, Sequences, FiniteSetsExt

CONSTANTS
    NumRounds,       \* num_rounds
    NumOpps,         \* opponent decks, in the order of the loop
    Matches,         \* matches_per_opponent
    Target,          \* target_win_rate, a percentage
    Confirm,         \* target_consecutive_rounds
    TargetMode,      \* "aggregate" or "per_opponent"
    DeckLocked,      \* deck_locked: the coach never runs
    MaxCrashes       \* bound: times the worker is killed

ASSUME RunAssumption ==
    /\ NumRounds \in Nat \ {0}
    /\ NumOpps \in Nat \ {0}
    /\ Matches \in Nat \ {0}
    /\ Target \in 0..100
    /\ Confirm \in Nat
    /\ TargetMode \in {"aggregate", "per_opponent"}
    /\ DeckLocked \in BOOLEAN
    /\ MaxCrashes \in Nat

Round == 1..NumRounds
Opp   == 1..NumOpps
Batch == Round \X Opp

UserDeck   == {}           \* no mutation applied
UserDeckId == 0
NoRate     == -1

VARIABLES
    sim,         \* the simulation row: status, best_deck_snapshot (best, final)
    roundRow,    \* rounds with a row: deck_snapshot, working_deck_id, win_rate
    checkpoint,  \* simulation_opponent_results: status, matches_completed
    persisted,   \* number of match rows of each batch
    wins,        \* how many of them p1 won
    played,      \* the deck those matches were played with
    mutations,   \* deck_mutations rows
    deckRows,    \* the cards of each deck that has DeckCard rows
    pc, mem,     \* the worker
    serial,      \* names given so far
    crashes

vars == <<sim, roundRow, checkpoint, persisted, wins, played, mutations,
          deckRows, pc, mem, serial, crashes>>

\* The local variables at the start of the function.
FreshMemory ==
    [round |-> 1, opp |-> 1, deck |-> UserDeck, id |-> UserDeckId,
     rawText |-> TRUE, skipped |-> FALSE, batch |-> NoRate,
     result |-> [o \in Opp |-> NoRate],
     best |-> NoRate, bestRound |-> 0, bestDeck |-> UserDeck,
     bestId |-> UserDeckId, bestRaw |-> TRUE,
     prev |-> NoRate, regressions |-> 0, hits |-> 0,
     streak |-> [o \in Opp |-> 0]]

Init ==
    /\ sim = [status |-> "pending", best |-> [deck |-> UserDeck, rate |-> NoRate],
              final |-> UserDeckId]
    /\ roundRow = [r \in {} |-> 0]
    /\ checkpoint = [b \in Batch |-> [status |-> "pending", done |-> 0]]
    /\ persisted = [b \in Batch |-> 0]
    /\ wins = [b \in Batch |-> 0]
    /\ played = [b \in Batch |-> UserDeck]
    /\ mutations = {}
    /\ deckRows = [i \in {} |-> UserDeck]
    /\ pc = "idle"
    /\ mem = FreshMemory
    /\ serial = 0
    /\ crashes = 0

-----------------------------------------------------------------------------
(* Helpers *)

Here == <<mem.round, mem.opp>>

\* An insert or an update of the row with key k.
Put(rows, k, value) ==
    [i \in DOMAIN rows \cup {k} |-> IF i = k THEN value ELSE rows[i]]

\* int(round(p1_wins / total * 100)): halves go to the even neighbour.
WinRatePct(w, total) ==
    LET q == (100 * w) \div total
        r == (100 * w) % total
    IN  IF total = 0 THEN 0
        ELSE IF 2 * r < total THEN q
        ELSE IF 2 * r > total THEN q + 1
        ELSE q + (q % 2)

\* The rate over all opponents, of the wins against each.
RateOf(won) == WinRatePct(MapThenSumSet(LAMBDA o : won[o], Opp), NumOpps * Matches)

\* p1_wins_round / p1_total_round once every opponent has a result.
RoundRate == RateOf(mem.result)

\* _check_regression
CheckRegression(rate) ==
    IF mem.prev # NoRate /\ rate < mem.prev THEN mem.regressions + 1 ELSE 0

\* _round_has_persisted_mutations
HasAppliedMutations(r) ==
    \E m \in mutations : m.round = r /\ m.status = "applied"

\* _mark_mutations_reverted
MarkReverted(afterRound) ==
    {IF m.round > afterRound /\ m.status = "applied"
     THEN [m EXCEPT !.status = "reverted"] ELSE m : m \in mutations}

\* A faulty variant: the results of a skipped batch are not loaded.
NextOpponentForgetful(memory) ==
    /\ pc' = IF memory.opp < NumOpps THEN "prepare" ELSE "summary"
    /\ mem' = [memory EXCEPT !.opp = @ + 1,
                   !.result[memory.opp] = IF memory.skipped THEN 0 ELSE @]

\* The opponent loop goes on with the result of this opponent.
NextOpponent(memory) ==
    /\ pc' = IF memory.opp < NumOpps THEN "prepare" ELSE "summary"
    /\ mem' = [memory EXCEPT !.opp = @ + 1]

-----------------------------------------------------------------------------
(* A run starts, and may have to start again.                              *)

Start ==
    /\ pc = "idle"
    /\ sim.status = "pending"
    /\ sim' = [sim EXCEPT !.status = "running"]
    /\ mem' = FreshMemory
    /\ pc' = "round"
    /\ UNCHANGED <<roundRow, checkpoint, persisted, wins, played, mutations,
                   deckRows, serial, crashes>>

\* The worker is killed between two transactions.
Crash ==
    /\ crashes < MaxCrashes
    /\ pc # "idle"
    /\ crashes' = crashes + 1
    /\ pc' = "idle"
    /\ mem' = FreshMemory
    /\ UNCHANGED <<sim, roundRow, checkpoint, persisted, wins, played,
                   mutations, deckRows, serial>>

\* _classify_stale_simulation: 'fail' for a partial running checkpoint,
\* 'requeue' for everything else.
Recover ==
    /\ pc = "idle"
    /\ sim.status = "running"
    /\ LET partial(b) == /\ checkpoint[b].status = "running"
                         /\ checkpoint[b].done \in 1..(Matches - 1)
       IN  sim' = [sim EXCEPT !.status =
                     IF \E b \in Batch : partial(b) THEN "failed" ELSE "pending"]
    /\ UNCHANGED <<roundRow, checkpoint, persisted, wins, played, mutations,
                   deckRows, pc, mem, serial, crashes>>

\* A query, the engine or a deck that cannot be used raises.  Between the
\* coach's analysis and its clone an exception is caught there and then.
StepRaises ==
    /\ pc \in {"round", "prepare", "batch", "close", "summary", "track",
               "coach", "finish"}
    /\ pc' = "fail"
    /\ UNCHANGED <<sim, roundRow, checkpoint, persisted, wins, played,
                   mutations, deckRows, mem, serial, crashes>>

\* The except clause of the function.
FailRun ==
    /\ pc = "fail"
    /\ sim' = [sim EXCEPT !.status = "failed"]
    /\ pc' = "idle"
    /\ mem' = FreshMemory
    /\ UNCHANGED <<roundRow, checkpoint, persisted, wins, played, mutations,
                   deckRows, serial, crashes>>

-----------------------------------------------------------------------------
(* A round: its row, and a batch of matches against each opponent.         *)

\* A faulty variant: the deck in memory is kept for a round that has a row.
OpenRoundOwnDeck ==
    /\ pc = "round"
    /\ mem' = [mem EXCEPT !.opp = 1, !.skipped = FALSE,
                          !.result = [o \in Opp |-> NoRate]]
    /\ roundRow' = IF mem.round \in DOMAIN roundRow THEN roundRow
                   ELSE Put(roundRow, mem.round,
                            [deck |-> mem.deck, id |-> mem.id, rate |-> NoRate])
    /\ pc' = "prepare"
    /\ UNCHANGED <<sim, checkpoint, persisted, wins, played, mutations,
                   deckRows, serial, crashes>>

\* A row that exists is from an earlier run: its deck replaces the one in
\* memory, so that the round is played with a single deck.
OpenRound ==
    /\ pc = "round"
    /\ LET r == mem.round
           fresh == [mem EXCEPT !.opp = 1, !.skipped = FALSE,
                                !.result = [o \in Opp |-> NoRate]]
       IN  IF r \notin DOMAIN roundRow
           THEN /\ roundRow' = Put(roundRow, r,
                                  [deck |-> mem.deck, id |-> mem.id, rate |-> NoRate])
                /\ mem' = fresh
           ELSE /\ mem' = [fresh EXCEPT !.deck = roundRow[r].deck,
                                        !.id = roundRow[r].id,
                                        !.rawText = FALSE]
                /\ UNCHANGED roundRow
    /\ pc' = "prepare"
    /\ UNCHANGED <<sim, checkpoint, persisted, wins, played, mutations,
                   deckRows, serial, crashes>>

\* A faulty variant: a batch that is not complete is run again.
VerdictByStatus(b) ==
    IF checkpoint[b].status = "complete" THEN "skip"
    ELSE IF checkpoint[b].status = "failed" THEN "raise" ELSE "run"

\* _prepare_opponent_checkpoint returns "run" or "skip", or it raises.
Verdict(b) ==
    LET full == persisted[b] = Matches
        open == checkpoint[b].status \in {"pending", "running"}
    IN  IF open /\ persisted[b] = 0 THEN "run"
        ELSE IF open /\ full THEN "skip"
        ELSE IF checkpoint[b].status = "complete" /\ full
                /\ checkpoint[b].done = Matches THEN "skip"
        ELSE "raise"

Prepare ==
    /\ pc = "prepare"
    /\ checkpoint' = [checkpoint EXCEPT ![Here] =
          CASE Verdict(Here) = "run"   -> [status |-> "running", done |-> 0]
            [] Verdict(Here) = "skip"  -> [status |-> "complete",
                                           done |-> persisted[Here]]
            [] Verdict(Here) = "raise" -> [status |-> "failed",
                                           done |-> IF @.status \in {"pending", "running"}
                                                    THEN persisted[Here]
                                                    ELSE @.done]]
    /\ CASE Verdict(Here) = "run"   -> pc' = "batch" /\ UNCHANGED mem
         [] Verdict(Here) = "raise" -> pc' = "fail" /\ UNCHANGED mem
         [] Verdict(Here) = "skip"  ->
               NextOpponent([mem EXCEPT !.skipped = TRUE,
                                        !.result[mem.opp] = wins[Here]])
    /\ UNCHANGED <<sim, roundRow, persisted, wins, played, mutations, deckRows,
                   serial, crashes>>

\* A faulty variant: the rows of a known deck are replaced.
AcceptAnyDeck(id, deck) == TRUE

\* ensure_deck_cards_for_id: rows are written once and compared ever after.
DeckAccepted(id, deck) == id \in DOMAIN deckRows => deckRows[id] = deck

\* A faulty variant: every match is a transaction of its own.
PersistByMatch ==
    /\ pc = "batch"
    /\ DeckAccepted(mem.id, mem.deck)
    /\ deckRows' = Put(deckRows, mem.id, mem.deck)
    /\ persisted' = [persisted EXCEPT ![Here] = @ + 1]
    /\ played' = [played EXCEPT ![Here] = mem.deck]
    /\ \E w \in 0..1 :
          /\ wins' = [wins EXCEPT ![Here] = @ + w]
          /\ mem' = [mem EXCEPT !.batch = wins[Here] + w]
    /\ pc' = IF persisted[Here] + 1 < Matches THEN "batch" ELSE "close"
    /\ UNCHANGED <<sim, roundRow, checkpoint, mutations, serial, crashes>>

\* run_hh_batch, and one transaction for the deck and all the match rows.
PersistBatch ==
    /\ pc = "batch"
    /\ DeckAccepted(mem.id, mem.deck)
    /\ deckRows' = Put(deckRows, mem.id, mem.deck)
    /\ persisted' = [persisted EXCEPT ![Here] = @ + Matches]
    /\ played' = [played EXCEPT ![Here] = mem.deck]
    /\ \E w \in 0..Matches :
          /\ wins' = [wins EXCEPT ![Here] = @ + w]
          /\ mem' = [mem EXCEPT !.batch = w]
    /\ pc' = "close"
    /\ UNCHANGED <<sim, roundRow, checkpoint, mutations, serial, crashes>>

\* _complete_opponent_checkpoint, after the graph writes.
CloseBatch ==
    /\ pc = "close"
    /\ checkpoint' = [checkpoint EXCEPT ![Here] =
                         [status |-> "complete", done |-> Matches]]
    /\ NextOpponent([mem EXCEPT !.result[mem.opp] = mem.batch])
    /\ UNCHANGED <<sim, roundRow, persisted, wins, played, mutations, deckRows,
                   serial, crashes>>

\* rounds.win_rate, simulations.rounds_completed.
Summarise ==
    /\ pc = "summary"
    /\ roundRow' = [roundRow EXCEPT ![mem.round].rate = RoundRate]
    /\ pc' = "track"
    /\ UNCHANGED <<sim, checkpoint, persisted, wins, played, mutations,
                   deckRows, mem, serial, crashes>>

\* A faulty variant: better than the round before is taken for best.
TrackLatest ==
    /\ pc = "track"
    /\ LET rate == RoundRate
           counted == [mem EXCEPT !.regressions = CheckRegression(rate),
                                  !.prev = rate]
       IN  IF rate > mem.prev
           THEN /\ sim' = [sim EXCEPT !.best = [deck |-> mem.deck, rate |-> rate]]
                /\ mem' = [counted EXCEPT
                             !.best = rate, !.bestRound = mem.round,
                             !.bestDeck = mem.deck, !.bestId = mem.id,
                             !.bestRaw = mem.rawText]
           ELSE mem' = counted /\ UNCHANGED sim
    /\ pc' = IF ~DeckLocked /\ mem.round < NumRounds THEN "coach" ELSE "target"
    /\ UNCHANGED <<roundRow, checkpoint, persisted, wins, played, mutations,
                   deckRows, serial, crashes>>

\* Regression tracking; a better deck goes to best_deck_snapshot.
Track ==
    /\ pc = "track"
    /\ LET rate == RoundRate
           counted == [mem EXCEPT !.regressions = CheckRegression(rate),
                                  !.prev = rate]
       IN  IF rate > mem.best
           THEN /\ sim' = [sim EXCEPT !.best = [deck |-> mem.deck, rate |-> rate]]
                /\ mem' = [counted EXCEPT
                             !.best = rate, !.bestRound = mem.round,
                             !.bestDeck = mem.deck, !.bestId = mem.id,
                             !.bestRaw = mem.rawText]
           ELSE mem' = counted /\ UNCHANGED sim
    /\ pc' = IF ~DeckLocked /\ mem.round < NumRounds THEN "coach" ELSE "target"
    /\ UNCHANGED <<roundRow, checkpoint, persisted, wins, played, mutations,
                   deckRows, serial, crashes>>

-----------------------------------------------------------------------------
(* The coach phase.                                                        *)

ReplayBlocked == mem.skipped /\ HasAppliedMutations(mem.round)

\* A replayed round whose mutations are in the log: the run fails.
CoachBlocked ==
    /\ pc = "coach"
    /\ ReplayBlocked
    /\ pc' = "fail"
    /\ UNCHANGED <<sim, roundRow, checkpoint, persisted, wins, played,
                   mutations, deckRows, mem, serial, crashes>>

\* A faulty variant: the log is reverted and the deck is not.
CoachRevertsLog ==
    /\ pc = "coach"
    /\ ~ReplayBlocked
    /\ mem.regressions = 2
    /\ mem' = [mem EXCEPT !.regressions = 0]
    /\ mutations' = MarkReverted(mem.bestRound)
    /\ pc' = "analyze"
    /\ UNCHANGED <<sim, roundRow, checkpoint, persisted, wins, played, deckRows,
                   serial, crashes>>

\* Two regressions in a row go back to the best deck before the coach is
\* asked.
CoachReverts ==
    /\ pc = "coach"
    /\ ~ReplayBlocked
    /\ mem.regressions = 2
    /\ mem' = [mem EXCEPT !.deck = mem.bestDeck, !.id = mem.bestId,
                          !.rawText = mem.bestRaw, !.regressions = 0]
    /\ mutations' = MarkReverted(mem.bestRound)
    /\ pc' = "analyze"
    /\ UNCHANGED <<sim, roundRow, checkpoint, persisted, wins, played, deckRows,
                   serial, crashes>>

CoachKeeps ==
    /\ pc = "coach"
    /\ ~ReplayBlocked
    /\ mem.regressions # 2
    /\ pc' = IF mem.regressions >= 3 THEN "target" ELSE "analyze"
    /\ UNCHANGED <<sim, roundRow, checkpoint, persisted, wins, played,
                   mutations, deckRows, mem, serial, crashes>>

\* The analyst raised or _apply_mutations kept the deck as illegal to change.
CoachFails ==
    /\ pc = "analyze"
    /\ pc' = "target"
    /\ UNCHANGED <<sim, roundRow, checkpoint, persisted, wins, played,
                   mutations, deckRows, mem, serial, crashes>>

\* No swap was applied.  The deck text is nevertheless written anew, and it
\* may differ from a text that is still in the user's own format.
CoachAppliesNone ==
    /\ pc = "analyze"
    /\ mem' = [mem EXCEPT !.rawText = FALSE]
    /\ pc' \in IF mem.rawText THEN {"clone", "target"} ELSE {"target"}
    /\ UNCHANGED <<sim, roundRow, checkpoint, persisted, wins, played,
                   mutations, deckRows, serial, crashes>>

\* The swaps applied after this round, taken together as one mutation.
CoachApplies ==
    /\ pc = "analyze"
    /\ serial' = serial + 1
    /\ mem' = [mem EXCEPT !.deck = @ \cup {serial'}, !.rawText = FALSE]
    /\ pc' = "log"
    /\ UNCHANGED <<sim, roundRow, checkpoint, persisted, wins, played,
                   mutations, deckRows, crashes>>

\* _persist_applied_mutations
LogMutation ==
    /\ pc = "log"
    /\ mutations' = mutations \cup
          {[id |-> serial, round |-> mem.round, status |-> "applied"]}
    /\ pc' = "clone"
    /\ UNCHANGED <<sim, roundRow, checkpoint, persisted, wins, played, deckRows,
                   mem, serial, crashes>>

\* The exception is caught with the deck already changed in memory.
LogFails ==
    /\ pc = "log"
    /\ pc' = "target"
    /\ UNCHANGED <<sim, roundRow, checkpoint, persisted, wins, played,
                   mutations, deckRows, mem, serial, crashes>>

\* A deck of the simulation's own for the changed cards.
CloneDeck ==
    /\ pc = "clone"
    /\ serial' = serial + 1
    /\ deckRows' = Put(deckRows, serial', mem.deck)
    /\ mem' = [mem EXCEPT !.id = serial']
    /\ pc' = "target"
    /\ UNCHANGED <<sim, roundRow, checkpoint, persisted, wins, played,
                   mutations, crashes>>

\* "continuing with existing deck id"
CloneFails ==
    /\ pc = "clone"
    /\ pc' = "target"
    /\ UNCHANGED <<sim, roundRow, checkpoint, persisted, wins, played,
                   mutations, deckRows, mem, serial, crashes>>

-----------------------------------------------------------------------------
(* The target, and the end.                                                *)

Streaks ==
    [o \in Opp |-> IF WinRatePct(mem.result[o], Matches) >= Target
                   THEN mem.streak[o] + 1 ELSE 0]

Hits == IF RoundRate >= Target THEN mem.hits + 1 ELSE 0

\* _per_opponent_all_met, or the streak of aggregate rates.
TargetMet ==
    IF TargetMode = "per_opponent"
    THEN Confirm > 0 /\ \A o \in Opp : Streaks[o] >= Confirm
    ELSE Hits >= Confirm

\* A faulty variant: the number of rounds is not looked at.
CheckTargetOnly ==
    /\ pc = "target"
    /\ pc' = IF TargetMet THEN "finish" ELSE "round"
    /\ mem' = [mem EXCEPT !.streak = Streaks, !.hits = Hits,
                          !.round = IF TargetMet THEN @ ELSE @ + 1]
    /\ UNCHANGED <<sim, roundRow, checkpoint, persisted, wins, played,
                   mutations, deckRows, serial, crashes>>

CheckTarget ==
    /\ pc = "target"
    /\ LET more == ~TargetMet /\ mem.round < NumRounds
       IN  /\ pc' = IF more THEN "round" ELSE "finish"
           /\ mem' = [mem EXCEPT
                        !.streak = IF TargetMode = "per_opponent" THEN Streaks ELSE @,
                        !.hits = IF TargetMode = "per_opponent" THEN @ ELSE Hits,
                        !.round = IF more THEN @ + 1 ELSE @]
    /\ UNCHANGED <<sim, roundRow, checkpoint, persisted, wins, played,
                   mutations, deckRows, serial, crashes>>

\* final_working_deck_id is the deck the coach left, played or not.
Finish ==
    /\ pc = "finish"
    /\ sim' = [sim EXCEPT !.status = "complete", !.final = mem.id]
    /\ pc' = "idle"
    /\ mem' = FreshMemory
    /\ UNCHANGED <<roundRow, checkpoint, persisted, wins, played, mutations,
                   deckRows, serial, crashes>>

-----------------------------------------------------------------------------
RoundStep ==
    \/ OpenRound \/ Prepare \/ PersistBatch \/ CloseBatch
    \/ Summarise \/ Track

CoachStep ==
    \/ CoachBlocked \/ CoachReverts \/ CoachKeeps \/ CoachFails
    \/ CoachAppliesNone \/ CoachApplies \/ LogMutation \/ LogFails
    \/ CloneDeck \/ CloneFails

WorkerStep ==
    \/ Start \/ RoundStep \/ CoachStep \/ CheckTarget \/ Finish
    \/ StepRaises \/ FailRun

Next == WorkerStep \/ Recover \/ Crash

Spec == Init /\ [][Next]_vars

\* A started run goes on, and Beat has a dead one recovered and dispatched
\* (SimQueue).
FairSpec == Spec /\ WF_vars(WorkerStep) /\ WF_vars(Recover)

-----------------------------------------------------------------------------
(* Properties *)

Memory ==
    [round : Round, opp : 1..(NumOpps + 1), deck : SUBSET (1..serial),
     id : 0..serial, rawText : BOOLEAN, skipped : BOOLEAN,
     batch : -1..Matches, result : [Opp -> -1..Matches],
     best : -1..100, bestRound : 0..NumRounds, bestDeck : SUBSET (1..serial),
     bestId : 0..serial, bestRaw : BOOLEAN,
     prev : -1..100, regressions : 0..NumRounds, hits : 0..NumRounds,
     streak : [Opp -> 0..NumRounds]]

\* The values each part of the state takes.
TypeOK ==
    /\ sim \in [status : {"pending", "running", "complete", "failed"},
               best : [deck : SUBSET (1..serial), rate : -1..100],
               final : 0..serial]
    /\ DOMAIN roundRow \subseteq Round
    /\ \A r \in DOMAIN roundRow :
          roundRow[r] \in [deck : SUBSET (1..serial), id : 0..serial,
                           rate : -1..100]
    /\ checkpoint \in [Batch -> [status : {"pending", "running", "complete", "failed"},
                               done : 0..Matches]]
    /\ persisted \in [Batch -> 0..Matches]
    /\ wins \in [Batch -> 0..Matches]
    /\ played \in [Batch -> SUBSET (1..serial)]
    /\ mutations \subseteq [id : 1..serial, round : Round,
                            status : {"applied", "reverted"}]
    /\ DOMAIN deckRows \subseteq 0..serial
    /\ \A i \in DOMAIN deckRows : deckRows[i] \subseteq 1..serial
    /\ pc \in {"idle", "round", "prepare", "batch", "close", "summary", "track",
               "coach", "analyze", "log", "clone", "target", "finish", "fail"}
    /\ mem \in Memory
    /\ serial \in Nat
    /\ crashes \in 0..MaxCrashes

\* No crash leaves a checkpoint that a retry must refuse: the "manual repair
\* required" branches of _prepare_opponent_checkpoint are never taken,
\* because all the match rows of a batch are one transaction.
NoManualRepair == pc = "prepare" => Verdict(Here) # "raise"

\* All the matches of a round, those of a retry included, are played with
\* the deck of the round's snapshot.
RoundDeckStable ==
    \A r \in Round, o \in Opp :
       persisted[<<r, o>>] > 0 =>
          r \in DOMAIN roundRow /\ played[<<r, o>>] = roundRow[r].deck

\* The DeckCard rows of the deck a match is filed under are, then and ever
\* after, the cards it was played with.
AttributedDeck ==
    \A r \in Round, o \in Opp :
       persisted[<<r, o>>] > 0 =>
          /\ roundRow[r].id \in DOMAIN deckRows
          /\ deckRows[roundRow[r].id] = played[<<r, o>>]

\* The rate of the match rows of round r.
StoredRate(r) == RateOf([o \in Opp |-> wins[<<r, o>>]])

\* The recorded win rate of a round is that of its match rows, however many
\* runs it took to play it.
RateFromMatches ==
    \A r \in DOMAIN roundRow : roundRow[r].rate \in {NoRate, StoredRate(r)}

\* When the simulation completes, best_deck_snapshot holds the best rate of
\* all its rounds and the deck that first reached it.
BestAtCompletion ==
    sim.status = "complete" =>
      \E r \in DOMAIN roundRow :
         /\ roundRow[r].rate = sim.best.rate
         /\ roundRow[r].deck = sim.best.deck
         /\ \A q \in DOMAIN roundRow :
               roundRow[q].rate <= sim.best.rate - (IF q < r THEN 1 ELSE 0)

\* As long as the worker is not killed, no match is played with a deck that
\* holds a mutation the log calls reverted.
RevertedStaysOut ==
    [][\A m \in mutations :
          persisted' # persisted /\ crashes = 0 /\ m.status = "reverted" =>
             m.id \notin mem.deck]_vars

\* The same with crashes.  The code does not keep it (README, section 3): the
\* revert of a replayed round also marks the mutations that were logged in
\* later rounds before the crash, and the rows of those rounds bring them back.
RevertedNeverReturns ==
    [][\A m \in mutations :
          persisted' # persisted /\ m.status = "reverted" => m.id \notin mem.deck]_vars

\* The batches are a ledger in the order of the schedule (BatchLedger).
ScheduleIndex(b) == (b[1] - 1) * NumOpps + b[2]

BatchAt(i) == CHOOSE b \in Batch : ScheduleIndex(b) = i

Recorded == {b \in Batch : persisted[b] > 0}

\* The wins of the batches recorded, in schedule order.
RecordedWins ==
    [i \in 1..Cardinality(Recorded) |-> wins[BatchAt(i)]]

Ledger == INSTANCE BatchLedger WITH
    Batches <- NumRounds * NumOpps,
    ledger <- RecordedWins,
    closed <- sim.status \in {"complete", "failed"}

LedgerSpec == Ledger!Spec

\* Its safety half: every step of a run records the next batch, ends the
\* simulation or leaves the ledger alone.
LedgerSteps == Ledger!Safety

\* What the log of mutations promises: what it calls applied is in the deck
\* the simulation goes on with after a revert.  The code does not keep it
\* (README, section 3).
AppliedIsInDeck ==
    pc = "analyze" => \A m \in mutations : m.status = "applied" => m.id \in mem.deck

\* What the warning of a failed clone says: the run continues with the deck
\* id it has.  The next batch is refused instead (README, section 3).
RunsWithOldDeckId == pc = "batch" => DeckAccepted(mem.id, mem.deck)
=============================================================================
