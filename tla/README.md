# Verification of PokéPrism

PokéPrism plays a Pokémon TCG deck against a set of opponent decks in a game
engine, lets an LLM coach change the deck between rounds, and repeats until a
target win rate is reached. The simulations run in a Celery worker behind a
queue that lives in a PostgreSQL table. This directory holds TLA+ models of the
parts of `src/backend/app` that carry this logic, the TLC configurations that
check them, and TLAPS proofs of the properties that matter most.

## 1. Inventory

| Component | State | Operations | What makes it correct |
|---|---|---|---|
| Queue and dispatcher (`tasks/simulation.py` 623–824, `tasks/scheduled.py`, `tasks/celery_app.py`) | `simulations.status`, start time, Celery messages | dispatch, stale recovery, load guard, cancellation check, outcome | no double execution, outcomes stick, nobody waits for ever |
| Simulation API (`api/simulations.py`) | the same rows | create, cancel, delete, star | count-then-insert, cancel is honoured |
| Nightly rerun (`services/nightly_hh_rerun.py`) | history rows, advisory lock | `create_rerun` | one rerun at a time, round robin over sources |
| Simulation run (`tasks/simulation.py` 831–1523) | rounds, opponent checkpoints, match rows, mutation log, working decks; locals of the task | open round, prepare/play/close batch, summarise, track best, coach, revert, clone, target, finish, fail | a retry neither repeats nor loses a batch; every match is filed under the deck it was played with; the best deck is kept; reverted mutations stay out |
| Memory writers (`memory/postgres.py`) | deck, match and decision rows | write once, compare afterwards | rows agree with the deck in memory |
| Match engine (`engine/runner.py`, `transitions.py`, `actions.py`, `effects/base.py`) | zones, hit points, attachments, conditions, prizes, phase | setup, turn loop, attack, knock-out, promotion, Checkup, turn change | cards are conserved, prizes are earned, every game ends, a result is final |
| Card effects (`engine/effects/attacks.py`, `trainers.py`, `abilities.py`, `energies.py`, with the functions they share in `base.py` and the dispatch of `registry.py`; ~43 000 lines) | the game's | one handler per attack, Trainer, ability or Special Energy | every HP loss by an effect is examined, a knock-out is carried out and paid for once, nothing reopens a decided game, no handler trips over a Pokémon that has just left play |
| Players (`players/`) | decision buffers | choose among legal actions | a legal choice |
| Coach (`coach/`) | none of its own | analyse, propose swaps | legal swaps |
| Graph and embeddings (`memory/graph.py`, `embeddings.py`) | Neo4j, vectors | best-effort writes | failures do not stop a run |
| Observed play import (`observed_play/`, `api/observed_play.py`) | archive files, logs, events, card mentions, resolution rules, memory items | upload, parse, resolve, reparse, ingest | each log archived before it is stored, counters that never understate what is unresolved, only eligible logs ingested, ingestions whole |
| Observed play coach context, readiness | – | queries and scores | – |
| Event bridge (`api/ws.py`) | a task per client | subscribe, forward, disconnect | a disconnect ends the forwarding |
| Card data, read-only API, frontend, scripts | – | – | – |

Components interact through the database (API, dispatcher, run and nightly task
share `simulations`), through Celery messages (commit a row, then `delay()`),
through a Redis channel per simulation (run to bridge), and by calls (run →
`run_hh_batch` → `MatchRunner` → `StateTransition`/`EffectRegistry` →
`check_ko`). What is hard in this code: unlocked reads followed by writes,
commits followed by sends, crashes between any two transactions with
late-acknowledged messages delivered again, replay of a half-finished
simulation, two copies of the same fact (log and deck, prize list and counter)
that are updated one after the other, and the order of events after a
knock-out. The import runs requests side by side that read in one transaction
what they write in a later one. `PROJECT.json` lists each hazard at its line.

## 2. Modules

| Module | Models | Proofs |
|---|---|---|
| `SimQueue` | the rows of `simulations` and every process that moves them | `SimQueueProofs` |
| `SimRun` | one simulation inside the worker, with its rows and its memory | `SimRunProofs`, `BestProofs` |
| `BatchLedger` | abstract: what the checkpoints promise | its safety half in `BestProofs` |
| `Match` | one game in the engine | `BoardProofs` |
| `EffectOps` | the operations card effects are written in | – |
| `AttackEffects1` – `AttackEffects4`, `CardEffects` | the catalogue: one script per effect handler | – |
| `EffectScript` | one handler running on a board, and what handlers promise | `EffectProofs` |
| `EffectShapes` | no code: which operations a script is made of and in which order, as far as that is enough for a promise | used by `EffectProofs` |
| `ObservedPlay` | the observed-play import, several requests at once | `ObservedPlayProofs`, `MentionProofs` |
| `SumProofs` | sums over finite sets, for the two proofs that count | all of it |
| `MCSimQueue`, `MCSimRun`, `MCMatch`, `MCEffects`, `MCObservedPlay` | symmetry sets and small instances for TLC; `MCEffects` also names the handlers that break a promise of `EffectScript` and counts those of each shape | – |

`SimQueue` and `SimRun` meet at the status of a simulation: `SimQueue` reduces a
round to a step and leaves open which verdict the stale recovery gives;
`SimRun` has one simulation, with the checkpoints on which the verdict
depends. `Match` is what `PersistBatch` of `SimRun` runs `Matches` times; only
the winner crosses the boundary. `Match` has the turns and simple attacks,
`EffectScript` what the handlers of real cards do inside one of its actions; both
spell out `check_ko`. `ObservedPlay` shares no rows with the others.

Definitions that the text calls *a faulty variant* are not part of any
specification. Each is the definition that follows it with one plausible bug,
kept to show that a property notices that bug.

### SimQueue

Every process, worker or API request, is a program counter with an argument
and the status it read earlier. A step is one transaction, one unlocked read or
one broker call. `status` and `stale` are rows, `ready` and `orphaned` are
messages a worker can take and messages whose worker died; `held` is the
message a worker has not acknowledged. An exception (`Raise`) and the update to
`failed` that follows it (`Fail`) are two steps, since that update is a transaction
of its own and does not look at the status. The `try` begins before the row is
loaded, so the exception may come before the guard against a finished row has seen
anything; `misread` records, for the properties only, the rows whose load raised.

| Code | Actions |
|---|---|
| `create_simulation`: count, insert, 422, `delay` | `BeginCreate`, `CommitCreate`, `AbortCreate`, `Send` |
| `cancel_simulation`: read, write, dispatch for a queued row | `BeginCancel`, `CommitCancel`, then the dispatcher |
| `delete_simulation` | `Delete` |
| `create_rerun` and its callers | `BeginRerun`, `CommitRerun`, `AbortRerun`, `Send` |
| `advance_simulation_queue` | `Beat` |
| `_dispatch_next_queued` | `Recover`, `CountActive`, `Pick`, `Send` |
| `run_simulation`, `_run_simulation_async` | `Receive`, `Load`, `CheckCancelled`, `NextRound`, `Complete`, `Raise`, `Fail`, then the dispatcher |
| 45 minutes without a checkpoint | `GoStale` |
| a killed process, the broker's visibility timeout | `Crash`, `RestoreOrphan`, `Redeliver` |

Abstractions: a simulation is named by its creation time; the star flag,
history rows and event publishing are left out; the verdict of the recovery is
a choice; a `delay()` that raises is a process killed at step `send`; an exception
that skips the recovery inside `_dispatch_next_queued` (it is caught and logged) is
not modelled.

### SimRun

The rows of one simulation and the local variables (`mem`) of the task. A crash
resets `mem` and `pc` and leaves the rows. A deck is the set of mutations that
lead to it; a mutation and the working deck cloned for it have a serial number.
`rawText` tells a deck text in the user's own format from a text written by
`_deck_text_from_cards` or `_apply_mutations`: the two may differ for the same
cards, and then the code clones a deck although nothing was swapped.

| Code | Actions |
|---|---|
| start 851–966, round row 999–1047 | `Start`, `OpenRound` |
| `_prepare_opponent_checkpoint`, skip 1074–1093 | `Prepare` with `Verdict` |
| `run_hh_batch` and the transaction 1149–1189 | `PersistBatch` with `DeckAccepted` |
| graph writes and `_complete_opponent_checkpoint` | `CloseBatch` |
| round summary, best deck | `Summarise`, `Track` |
| coach 1279–1408 | `CoachBlocked`, `CoachReverts`, `CoachKeeps`, `CoachFails`, `CoachAppliesNone`, `CoachApplies`, `LogMutation`, `LogFails`, `CloneDeck`, `CloneFails` |
| target rules 1413–1455, completion | `CheckTarget`, `Finish` |
| exceptions, crash, `_classify_stale_simulation` | `StepRaises`, `FailRun`, `Crash`, `Recover` |

Abstractions: opponents have distinct decks that parse; the user has a deck;
the analyst's answer and the games' results are choices; cancel and delete
belong to `SimQueue`; a dead worker is recovered only once it is dead
(`SimQueue` shows when that holds); a failure update that fails itself is a
crash at step `fail`. `WinRatePct` rounds halves to even, as Python does.

### BatchLedger

An append-only list of batch results and a flag. `SimRun` implements it with
`ledger` = the wins of the batches that have match rows in the order of the
schedule and `closed` = the simulation is complete or failed. The mapping says
at once that batches are played in order, none twice, none changed, none after
the end, and that the simulation ends.

### Match

The runner's position is `stage`; the phases of `GameState` are `draw`, `main`,
`attack` and `over`. Piles nobody has looked into are sets from which any card
may come; a discard pile counts how often a card was put into it, because the
code appends without looking. Hit points are counted in damage counters.

| Code | Actions |
|---|---|
| `_run_setup`, `_mulligan_redraw`, `choose_setup` | `CheckHands`, `Redraw`, `Place`, `SetPrizes` |
| loop head, draw | `TurnLimit`, `DeckOut`, `Draw` |
| main loop | `PlayBasic`, `AttachEnergy`, `Retreat`, `Refuse`, `Pass`, `EndTurnEarly`, `Valve` |
| attack | `HurtItself`, `Strike`, `Recoil`, `Afflict`, `Decline`, `RefuseAttack` |
| `check_ko`, `_move_to_discard` | `Damage`, `KnockOut`, `Verdict` inside the actions above and below |
| `_resolve_ko_aftermath`, `_switch_active` | `Promote`, `AfterAttack` |
| `_handle_between_turns`, `_end_turn` | `Check`, `EndCheckup`, `EndTurn` |

Abstractions: decks of Basic Pokémon and Energy; an attack is a record of cost,
damage, recoil and conditions, carried out in the order most handlers of
`effects/attacks.py` use (damage, return if the game is over, recoil, return,
conditions); weakness, abilities, tools, stadiums, trainers and evolution are
left out, and with them every card-specific branch of the mapped functions.
The assumption on deck sizes (an opening hand, the mulligan cards and the
prizes can be dealt) is implied by 60-card decks.

### EffectScript and the catalogue

A handler of `engine/effects` is a script: the sequence of what it does to the
Pokémon in play, in its order, with its branches, early returns and loops. The
records of the catalogue stand for consecutive handlers and are named by the
first line of the run (`Attacks4432` begins at `effects/attacks.py:4432`); their
fields are the handlers. Of a Pokémon the model keeps its side, its place and
whether it was left without HP and not found alive since (`down`). What numbers decide
(damage, coins, names, costs, the choice a player returns) is left open, so a
script covers every outcome of its handler; what a test of the code rules out by
the board alone (an empty Bench, `active is None`, the game is over) is a literal
of its condition. Handlers with the same script keep a field each.

| Code | Actions |
|---|---|
| control flow, a generator driven by `_drive_effect` | `Branch`, `BranchSame`, `Loop`, `StartEach`, `NextEach`, `LeaveLoop`, `Call`, `Return` |
| an exception (nothing between a handler and the task catches one) | `Fail` |
| locals that hold Pokémon or lists of them | `Assign`, `Store` |
| fields of a card, of a player, of the game; its piles of cards | `Touch`, `Read` |
| `current_hp` and damage counters, evolving and devolving | `SetHitPoints`, `Reshape` |
| the Active Spot and the Benches, `_switch_active_with_bench` | `Rearrange`, `Discard` |
| a winner or a prize without a knock-out | `Declare`, `TakePrizes` |
| `_default_damage`, `_apply_damage` with the retaliations in it | `BlowLands`, `StrikeLands`, `Parry`, `ParryRaises`, `Parried` |
| a condition given to or taken from a Pokémon whose conditions have become a list | `InflictOnList` |
| `_apply_bench_damage`, `check_ko` | `SplashLands`, `CheckKo`, `Examine`, `KnockOut` |
| `check_lively_stadium_removed` | `StadiumGone`, `Tour`, `Sweep` |

Abstractions: cards in a hand, a deck or a discard pile are not told apart; a
Bench is below its limit, so that the pruning of Area Zero Underdepths has
nothing to do; bonuses to HP (`_get_effective_hp_bonus`: attached Energy, a Ludicolo
in play, a Stadium, prizes taken) come and go uncounted, so that an examination may
find any Pokémon alive or knocked out, whatever `down` says of it; each side has one
further Pokémon to bring into play; the attack that comes with
Exploding Needles does not meet its own retaliation. Passive abilities are
conditions inside the shared functions, and choices here. Left out are five
handlers that run the effect of another card (`_night_joker`,
`_gemstone_mimicry`, `_try_to_imitate`, `_look_alike_show`,
`_supernatural_shapeshifter`) and the 31 definitions that a later one of the same
name in the same file hides.

### ObservedPlay

A log stands for its content, which the unique hash makes its name. Several
requests are open at once, each in a session of its own under READ COMMITTED
with `expire_on_commit=False`. An action is the reads of one transaction or its
commit; a flush that waits for another session's row is a guard, a constraint it
violates is the branch that rolls back. `Abort` is an exception, a lost
connection or a killed server at any point.

| Code | Actions |
|---|---|
| upload of a log or a zip: archive, parse, insert | `AskUpload`, `ArchiveFile`, `InsertLog`, `CommitUpload` |
| resolution rules | `AskRule`, `SaveRule` |
| `extract_and_resolve_mentions_for_log` | `AskResolve`, `LoadLog`, `DeleteMentions`, `ReadMentions`, `StoreMentions` |
| `reparse_log`, `reparse_all_logs` | `AskReparse`, `AskReparseAll`, `DeleteEvents`, `RewriteEvents`, then the mentions, `GiveUpMentions` |
| `ingest_observed_play_log`, `ingest_all_eligible_logs` | `AskIngest`, `AskIngestEligible`, `Judge`, `Replace`, `StoreItems` |

A resolution loads the row of its log, deletes the mentions and reads the rules by
statements of their own, and each sees what is committed by then. Its counters are
assignments to the loaded row, and an UPDATE leaves out a column that is assigned
the value it was loaded with (`Written`): what another resolution has committed in
between stays there.

Abstractions: a log has one event, with one mention, for each name; a parse that
fails yields no events and still counts as parsed, as in `parse_log`; the
grammar of the parser, the extraction of names, batch counters and the listing
endpoints are left out. The branch that would set `ingestion_failed`
(`memory_ingestion.py` 745–758) is not reached in the model: the block it guards
builds the items in memory and speaks to the database nowhere, and a flush or a
commit that fails is outside it. A resolution that raises leaves no half of its
work.

## 3. What the runs check

| Run | Instance | Checks |
|---|---|---|
| `queue_safety` | 2 simulations, 2 workers, 1 request, 2 rounds, one fault, one repeated delivery | `TypeOK`, `ExclusiveRun`, `PendingIsDelivered`, `OutcomeSticks` |
| `queue_live` | 2 simulations, 1 worker, 1 request, one fault outside `send` | `QueueDrains`, `ActiveResolves` |
| `run_retry` | 2 rounds × 2 opponents × 2 matches, per-opponent target, one crash | `NoManualRepair`, `RoundDeckStable`, `AttributedDeck`, `RateFromMatches`, `LedgerSpec` |
| `run_coach` | 4 rounds × 1 opponent × 2 matches, aggregate target, one crash | `TypeOK`, `BestAtCompletion`, `RevertedStaysOut` |
| `match_game` | 3 and 2 Pokémon, 2 Energy each, 2 prizes, Bench of 1, 2 actions a phase, 4 turns | `TypeOK`, `OnePlace`, `PrizesPaidFor`, `InPlayAlive`, `WinnerEarned`, `ResultIsFinal`, `GameEnds` |
| `effects` | every handler of the catalogue on every board with Benches of up to 2 and up to 2 prizes left, a knock-out worth up to 2 | `TypeOK`, `OnePlace`, `LastPrizeWins`, `PaidIsGone`, `LossesExamined`, `SomebodyLeft`, `PaidOnce`, `NeverRaises`, `ResultStays`, `WinnerEarned` |
| `observed` | 2 logs with 3 names between them, 5 configurations, 2 sessions, 4 requests | `TypeOK`, `ArchivedFirst`, `ItemsHaveEvents`, `WholeIngestions`, `Gated`, `CountersCover`, `MemoryKept`, `ResolutionKept` |

`queue_cancel`, `queue_lost_send`, `match_energy`, `effects_twice` and
`observed_reparse` each check one statement of the repository that the code does
not keep; they are told below.

Why the bounds are enough. Two simulations and two workers are what a race for
a row, an overtaken queue entry and a second delivery need. One fault suffices
for each recovery path; the proofs then cover any number. Exceptions of the task
are not counted: `Raise` is possible wherever the task is, and only a failure update
that fails itself uses up the fault. Four rounds are the
fewest in which a deck wins best, loses twice in a row, is restored and is
played again; two matches give three different rates. In the game, the first
player may not attack in its first turn, so that four turns hold three attacks;
two-prize Pokémon make a knock-out worth more than is left, a Bench of one makes
an empty Bench and a full one common, and the attacks of `MCMatch` reach recoil,
confusion and every condition. `Alike` only permutes cards with equal data.

A handler names at most its two Active Pokémon and one or two of a Bench at a
time, so a Bench of two has a chosen Pokémon and another one. Two prizes left
and knock-outs worth up to two give a prize too few, just enough and too many
on both sides. The damage a handler does is open, so no number is bounded. In
`observed` one log is confident and names a card the catalogue lacks and one it
has several of, the other is below the default confidence; the configurations
are the default and one for each way past it. Two sessions suffice for what one
request may change between two transactions of another, and four requests let
an upload and a first ingestion precede the two that meet.

The bounds that cap a counter of the code: `MaxCrashes`, `MaxRedeliveries`
(faults), `NumRounds`, `NumOpps`, `Matches`; the limits `HandSize`,
`PrizeCount`, `MaxBench`, `MaxRedraws`, `MaxActions` and `MaxTurns` are the
code's own 7, 6, 5, 10, 200 and 200 made small. `MaxRequests` caps the requests
of `observed`; `MaxPrizes` and `MaxTaken` are the most prizes left and taken.

A simulation row that has completed or failed has no further steps in `SimRun`,
and nothing can happen in `ObservedPlay` once `MaxRequests` requests are
answered, so these runs do not ask for the absence of deadlock; the other models
never stop (a finished game stutters in `Over`, a handler that has returned in
`Stop`).

### Where the code departs from what it says

* `queue_cancel` – `CancelSticks`: a cancel accepted during the last round is
  overwritten by `complete`; the update at `tasks/simulation.py` 1474 has no
  condition on the status.
* `queue_lost_send` – `QueueDrains`: a worker killed between the commit at 785
  and `delay()` at 790 leaves a pending row that no recovery looks at; it counts
  as active, so nothing is dispatched again. The other callers of `delay()`
  have the same gap.
* `match_energy` – `EnergyAccounted`: an attached Energy card is in no zone
  list, so a knock-out or a retreat cannot find it and it leaves the game.
* `effects_twice` – `EveryKnockOutOnce`: `check_ko` does not ask whether the
  Pokémon is still in play, and six handlers examine one again that
  `_apply_bench_damage` has already knocked out, or hit it through a list made
  earlier: it is discarded and paid for twice.
* `observed_reparse` – `ReparseKeepsMemory`: deleting the events of a log
  deletes its memory items by cascade, while the log goes on saying
  `ingested`.

Six properties state promises that TLC also refutes and that no run checks.
To see the counterexample, give the property to the module with these
constants, and `CHECK_DEADLOCK FALSE` for `MCSimRun` and `MCObservedPlay`:

* `CompleteStays` (`MCSimQueue`; as `SimQueueSafety.cfg`, with this property alone):
  the comment at `tasks/simulation.py` 871–874 says of a message delivered again that
  it "must not overwrite the completed state". The guard is inside the `try` that
  begins at 850, behind the `SELECT ... FOR UPDATE`: when that raises (a lost
  connection), the failure update at 1494 writes `failed` over `complete`.
  `OutcomeSticks` is what is left: a finished row is never started or queued again,
  and its outcome changes only after a load that raised.
* `CountersAgree` (`MCObservedPlay`; as `Observed.cfg`, with this invariant alone):
  an upload has stored a log and its resolution has raised. Two resolutions load
  the row, whose counters are zero, and a rule for its unresolved name is saved
  before the second reads the rules. The first commits its mention and a counter of
  one; the second then commits a resolved mention and a counter of zero, which is what
  it had loaded, so the one stays. The log has nothing unresolved and is refused
  memory for an unresolved card. `CountersCover` is what holds: a counter may say too
  much, never too little, so that nothing passes the gate by it.

* `AppliedIsInDeck` (`MCSimRun`; `NumRounds` 4, `NumOpps` 1, `Matches` 2,
  `Target` 100, `Confirm` 2, aggregate, no crash): the best deck is taken before
  the coach of its round; after a revert the mutation of that round is out of
  the deck and still `applied` in the log.
* `RevertedNeverReturns` (`MCSimRun`; as `SimRunCoach.cfg`, with `NumRounds` 5
  and this property alone; about 13 million states): what
  `_mark_mutations_reverted` (`tasks/simulation.py` 596–617) and
  `docs/STATUS.md` 58–67 say of reverted mutations, with a crash. The best round
  is 1, two regressions follow, and round 3 restores its deck; the coach then
  adds a mutation in round 4, round 5 is opened with it in its deck row, and the
  worker is killed. The replay reverts again at round 3 and marks every applied
  mutation after the best round, that of round 4 included; but the row of
  round 5 still has it, and its matches are played with a mutation the log calls
  reverted. `RevertedStaysOut` is the same without a crash: it holds, and is
  checked and proved.
* `RunsWithOldDeckId` (`MCSimRun`; `NumRounds` 2, `NumOpps` 1, `Matches` 1,
  `Confirm` 1, no crash): "continuing with existing deck id" is refused by
  `ensure_deck_cards_for_id` at the next batch.
* `ParalysisWearsOff` (`MCMatch`; as `MatchEnergy.cfg`): ending the turn from the
  main phase skips the Checkup, and with it the end of paralysis.

Further departures of the game, without a property of their own: a knock-out in
the Checkup is not followed by a promotion, nor is one by a Trainer or an
ability (`_resolve_ko_aftermath` runs after attacks); and a Pokémon knocked out
by poison that is also burned can be knocked out, and paid for, twice.
`PrizesPaidFor` counts both, as the code does.

Of the effects: effective HP also falls when an Energy that gives a bonus is
discarded (Okidogi, Tyrantrum, Conkeldurr) or when Ludicolo leaves play
(`effects/base.py` 225–247). Only `check_lively_stadium_removed` has anybody
examined because a bonus has ended, so such a Pokémon stays in play without HP until
something else has it examined. `LossesExamined` speaks of the HP a handler takes,
not of bonuses.

Two slips of the shared code raise under whatever handler gets there; `NeverRaises`
names them (`Slip`) and leaves them out. Smog Signals (`attacks.py` 661–664) reads
`_def_player`, which is assigned at 626 only while the attacker has HP: after Spiky
Energy on Koffing has knocked the attacker out, this is an `UnboundLocalError`. And
`_devolve_pokemon` turns `status_conditions` into a list (`effects/base.py` 597), so
that Poison Point, Incandescent Body (`attacks.py` 644, 691) or an effect that adds or
discards a condition raises an `AttributeError` on that Pokémon. Retreating with
such a list (`transitions.py` 581, 590) is not in `Match`, which has no Evolutions.

The promises of `EffectScript` hold for all handlers except those of a set that
each names, a constant to which `MCEffects` gives the handlers that do break the
promise, found by checking it without exception.

* `Raising` (16 handlers): they build an `EnergyAttachment` with a field it does
  not have or without one it needs, use `random` in a module that does not import
  it, or read a field of a Pokémon that the attack or a retaliation has knocked
  out. The exception passes the runner and the batch and fails the simulation.
* `Reopening` (11): they go on dealing damage after a step that may have ended
  the game, and `check_ko` then names the other player.
* `Unexamined` (9): they lower `current_hp`, or put on an Evolution with less HP, and do
  not call `check_ko`.
* `Emptying` (18): they put a Pokémon back into a hand or a deck without looking
  whether it was the last of its side.
* `PayingTwice` (6): see `effects_twice`.
* `Victorious` (1): `_victory_symbol` wins by its text; it also leaves
  `win_condition` unset.

Met on the way, and outside what the model tells apart: 28 handlers of
`attacks.py` and 3 of `abilities.py` are hidden by a later definition of the same
name.

Of the import, three more: concurrent ingestions of one log leave two whole sets
of items, because each deletes only those it saw (`WholeIngestions` says that
they are whole, and no more); two requests that add a rule for one name both find
none and leave two that contradict each other; and a bulk ingestion does not go
on after an ineligible log as its docstring says (`api/observed_play.py`
1864–1866), because the rollback expires every loaded row and the next
`str(log.id)` raises.

### Fairness

`SimQueue`: weak fairness for the steps of a started task or request, for the
passing of time and for the broker's restore of unacknowledged messages; strong
fairness for a worker taking a message and for the Beat task, because the
broker queue is first-in first-out and Beat enqueues every 60 seconds, so a
worker that is idle again and again comes to each of them. Nothing is assumed
of users or of the nightly task. `queue_live` excludes only one place for a crash,
`send`, and `queue_lost_send` shows that this exclusion is needed.
`SimRun`: weak fairness of the worker and of the recovery. `Match`: weak
fairness of `Next`, since the runner is a loop nobody interrupts; which player
acts how is free. `EffectScript` and `ObservedPlay` have safety properties only
and assume no fairness.

## 4. What is proved

For every value of the constants that satisfies the named assumptions:

* `TypeCorrect` – `SimQueue`'s `TypeOK`, inductive as it stands.
* `Exclusive`, `OutcomeFinal` – `ExclusiveRun` and `OutcomeSticks`, assuming
  `~SlowBatches` (no batch outlasts the 45-minute threshold; with slow batches
  the recovery does requeue a live run). The invariant `RunInv` adds that an
  executing worker's row has a status `Load` refuses, and that a stale running
  row has lost its worker. Without these, a requeued or redelivered message
  could start the simulation a second time from a state the invariant allows.
  A worker whose task raised has no claim on the row any more if it raised at
  the load (`Owns`): it writes `failed` over whatever another worker has made of it.
  `OutcomeSticks` allows the change of an outcome for those rows (`misread`) and
  for no other, and allows a new start for none.
* `PendingDelivered` – `PendingIsDelivered`, from `TypeOK`.
* `NoRepairNeeded`, `OneDeckPerRound`, `DeckAttribution` – from one invariant
  `IInv` of `SimRun`: a batch has all its match rows or none, and all of them if
  its checkpoint is complete (`CountInv`); a worker at a batch holds the deck
  and the id of the round's row (`PlaceInv`); names are used once (`NamesInv`).
  `NoManualRepair` is not inductive: it needs `CountInv` to know what a crash
  can leave behind.
* `RatesStored` – `RateFromMatches`, from the same invariant and `RateInv`: the
  results in memory are those of the match rows of the batches behind the
  worker, whether it played or skipped them.
* `TypesHold`, `BestRecorded`, `RevertedOut` – `TypeOK`, `BestAtCompletion` and
  `RevertedStaysOut` of `SimRun` (`BestProofs`), from `AllBestInv` on top of
  `IInv`: the best deck and the streaks in memory are those of the round rows
  behind the worker. The streaks are needed for a completion: what a replay
  counts must be what the first attempt counted, or a run that has met its
  target once would go on past the last round that has a row, or stop before
  it, and record another best deck than its rows show. `RevertedOut` adds
  `RevertInv`: until the first crash the log reaches no further than the round the
  worker is in, and neither the deck nor the best deck in memory holds a
  mutation that is or may be reverted.
* `LedgerImplemented` – every step of `SimRun` is a step of `BatchLedger` or
  leaves it alone. The batches that have match rows are always the first ones
  of the schedule (`SegInv`), and the schedule numbers batches one to one, so
  the list that `RecordedWins` makes of them only grows at its end.
* `ResultFinal` – `ResultIsFinal` of `Match`, from `Decided`: once somebody has
  won, the runner is asking for promotions or at the end.
* `TypesHold`, `AliveInPlay`, `CardsInOnePlace`, `WinnerRight` – `TypeOK`,
  `InPlayAlive`, `OnePlace` and `WinnerEarned` of `Match`, from one invariant
  `GameInv` (`BoardProofs`). None of them is inductive alone. It takes that a
  Pokémon the Checkup has knocked out was in play or is in the discard pile
  (`Examined`), that attached cards lie under Pokémon in play and in no zone
  (`Attachments`), and that `prizes_remaining` agrees with the prize cards once they
  are laid out and not before (`Tally`).
* `PrizesPaid` – `PrizesPaidFor` of `Match`, from `PileInv` and `PaidInv`: before
  the first turn nothing is discarded and every prize is there, a mulligan
  changes hand and deck only, and after that a knock-out is the only step that
  puts a Pokémon into the discard pile, and it is paid at once. What is due is a
  sum over the cards of a deck; `SumProofs` says how it changes when one of them
  is discarded once more.
* `TypeCorrect`, `LastPrize`, `PaidGone` – `TypeOK`, `LastPrizeWins` and
  `PaidIsGone` of `EffectScript`, for whatever scripts, Benches and values of a
  knock-out: nothing is assumed of the catalogue, so these hold for a handler
  yet to be written in the same operations.
* `NobodyTwice`, `SideManned`, `NobodyForgotten`, `PaidForOnce`, `WinsAreEarned`,
  `ResultKept`, `NobodyTrips` – `OnePlace`, `SomebodyLeft`, `LossesExamined`,
  `PaidOnce`, `WinnerEarned`, `ResultStays` and `NeverRaises` of `EffectScript` for
  the scripts of a shape, told below.
* `Archived`, `EventsThere`, `IngestionsWhole`, `MemoryStays` – `ArchivedFirst`,
  `ItemsHaveEvents`, `WholeIngestions` and `MemoryKept` of `ObservedPlay`, for
  any number of logs, sessions and requests. The invariant says what an open
  request may rely on although others commit in between: the logs it works on
  stay, its new files are archived, its id is in no stored item yet, and what it
  is about to delete are whole ingestions.
* `CountersRight`, `ResolutionStays` – `CountersCover` and `ResolutionKept`, from
  `MentionInv`: rules are never taken back, and a commit whose mentions are not
  those its transaction deleted fails, so that what a request found is never
  behind what it replaces. For the counters that is not enough, because the row is
  loaded before the mentions are deleted. The invariant adds that, as long as a
  resolution under way can still be committed (`Timely`), the counter there is covers
  what it has left unresolved (`Covers`), so that it does no harm when the UPDATE
  leaves it there, and that the row it loaded is no newer than the row there is.

* `ImportTyped`, `MemoryGated` – `TypeOK` and `Gated` of `ObservedPlay`, from
  `GateInv`. A request judges a log by the row it loaded when it began, and reads
  the mentions for its items two steps later. The invariant says why the old row
  does no harm: one that counts mentions and none unresolved makes the log
  `Settled`, every name known for good, and no resolution another request could
  still store behind it. Without the clause on resolutions under way the
  invariant is not inductive. It takes that a log mentions finitely many
  names, which `ObservedAssumption` states.

### Shapes of scripts

These promises are false of some sequences of operations, so they are proved of
shapes: conditions of `EffectShapes` on the text of a script, without a board. The
theorems hold for every script of the shape, also one that is not in the catalogue,
for Benches of any size, whatever a knock-out is worth, and with whatever lists of
exceptions. Of the 571 different scripts of the catalogue, all are `Orderly` (made
of the operations of `EffectOps`, blocks nested at most four deep).

| Theorem | Shape | A script has it when | Scripts |
|---|---|---|---|
| `NobodyTwice`, `SideManned` | `Still` | it leaves the moving of Pokémon to `_switch_active_with_bench`, the effects that put a card on the Bench, and `check_ko` | 535 |
| `NobodyForgotten` | `Examining` | `Still`, and HP is lowered by the shared functions only | 478 |
| `PaidForOnce` | `Paying` | `Still`, and it calls `check_ko` and `_apply_bench_damage` by itself for Active Pokémon only | 438 |
| `WinsAreEarned` | `Modest` | it names no winner itself | 570 |
| `ResultKept` | `Heeding` | between a step that may end the game and the next such step it looks at the phase | 549 |
| `NobodyTrips` | `Careful` | what a step reads was tested, chosen or switched in before it, with nothing in between that may take it away | 510 |

`ShapesAreCommon` of `MCEffects` asks for about these numbers, and that no handler an
exception list names has the shape of the promise it breaks. The invariants speak
of `todo`, the operations left to do, because a step deep inside `check_ko` must be
known not to disturb what the handler does after it:

* `Begun`: the work of the shared functions lies in front of the handler's own, and a
  retaliation is followed by the examination it belongs to. Every other invariant
  needs it to know what a step finds next.
* `Placed` (for `NobodyTwice`): `OnePlace` in the middle of a handler, too; with `Manned`
  (for `SideManned`) that only a decided game has an empty side.
* `AllSeen` and `Pending` (for `NobodyForgotten`): a handler and its lists speak only of
  Pokémon that are or were in play, and each one without HP in play is named by an
  examination still to come, which finds it alive or knocks it out. `LossesExamined`
  looks at the end only and says nothing of the middle.
* `Claimed` (for `PaidForOnce`): two examinations still to come are of different Pokémon,
  each still in play, and Exploding Needles of the first cannot reach the second's.
* `Heedful` and `Relay` (for `ResultKept`): in front of whatever may end the game, something
  looks at the phase if anything before it may have ended the game; among
  examinations under way the retaliations do the looking.
* `Supplied` (for `NobodyTrips`): each fact that an operation of `todo` needs either holds now
  and nothing before it can spoil it, or an operation before it establishes it, in the
  same round of a loop. What a loop needs at its start its body must not spoil.
  A handler that ends by a slip of the shared code ends at once (`OnlySlips`,
  `SlipEnds`), so the slips disturb nothing that is still to come.

The scripts outside a shape are not all wrong: a loop over a list that tests each
member in its own way, or a Pokémon that is lifted from the Bench and set down again
by the handler itself, keeps its promise for a reason the shape does not see. For
them, TLC's run on every board of the instance is what there is.

Sums over finite sets are the library's folds, and its theorems about induction
cannot be used; `SumProofs` proves what is needed of them by looking at a set
without a smaller exception.

Only model-checked:

* liveness (`QueueDrains`, `ActiveResolves`, `GameEnds`) and the fairness of
  `LedgerSpec`, whose safety half is `LedgerImplemented`: out of this prover's
  reach;
* the promises of `EffectScript` for the handlers outside the shapes, and that the
  scripts of the catalogue have the shapes in the numbers above (`ShapesAreCommon` of
  `MCEffects`, which TLC evaluates): facts about data, which the provers would have to compute script by script.

## 5. Not modelled

* Players, coach and deck builder: a choice among legal actions or swaps, which
  `Match` and `SimRun` leave open; ranking and prompts have no protocol.
* Graph and embedding memory: best-effort writes whose failures are caught and
  which the loop does not read.
* Coach context and readiness of observed play, card data, read-only endpoints,
  frontend, configuration and scripts: queries, pure I/O or presentation.
* In the game: playing a Trainer, evolving, using an ability, Tools and Stadiums
  as actions of a turn (what their handlers do is in the catalogue); passive
  abilities and the registration tables of the effects.
* In the import: the grammar of the parser.
* The event bridge and the round robin of the nightly task: planned.

## 6. Plan

1. `SimQueue`, `SimRun` with `BatchLedger`, `Match`, `EffectScript` with the
   catalogue, `ObservedPlay`: done, with the proofs above.
2. `NightlyRerun`: cycles, history rows, the advisory lock; every eligible
   source is rerun once a cycle, and a failing source starves the others.
3. `WsBridge`: subscribe, forward, disconnect with asyncio cancellation; a
   disconnected client has no forwarder.
4. `Match`: evolution, Trainers and abilities as actions of a turn, each running
   a script of the catalogue; a turn starts with an Active Pokémon.
5. Proofs: wider shapes, for handlers that move Pokémon themselves or examine Benched
   ones; `RevertedStaysOut` with crashes, for the mutations logged before the round of
   the revert.
