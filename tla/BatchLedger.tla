----------------------------- MODULE BatchLedger -----------------------------
(***************************************************************************)
(* What the checkpoints of a simulation promise: the results of the        *)
(* opponent batches are a ledger.  A batch is recorded once, after the     *)
(* batches scheduled before it, and what is recorded is never changed,     *)
(* whatever is retried.  After the simulation has ended nothing is added.  *)
(***************************************************************************)
EXTENDS Naturals, Sequences

CONSTANTS Matches,    \* matches of a batch, a natural number
          Batches     \* batches scheduled: rounds times opponents, a natural number

VARIABLES ledger,     \* wins of each batch recorded so far, in schedule order
          closed      \* the simulation has ended

Init == ledger = <<>> /\ closed = FALSE

Record ==
    /\ ~closed
    /\ Len(ledger) < Batches
    /\ \E w \in 0..Matches : ledger' = Append(ledger, w)
    /\ UNCHANGED closed

Close ==
    /\ ~closed
    /\ closed' = TRUE
    /\ UNCHANGED ledger

Next == Record \/ Close

vars == <<ledger, closed>>

Safety == Init /\ [][Next]_vars

Spec == Safety /\ WF_vars(Close)
=============================================================================
