---------------------------- MODULE SimQueueProofs ----------------------------
(***************************************************************************)
(* Proofs about SimQueue, for any number of simulations, workers, API      *)
(* requests, rounds and crashes.                                           *)
(*                                                                         *)
(* Type correctness is inductive by itself.  Exclusive execution is not:   *)
(* a second worker is kept away from s by the STATUS of s, so the          *)
(* invariant has to say what that status can be while a worker executes s  *)
(* (RunningStatus), and the recovery can put s back in the queue only when *)
(* it is stale, so it has to say that a stale row has no worker            *)
(* (StaleIsDead).  A worker between its exception and the failure update   *)
(* counts as the worker of s still, unless the exception came from a load: *)
(* then it may find s in any status.                                       *)
(***************************************************************************)
EXTENDS SimQueue, TLAPS

USE DEF Proc, Absent, NoProc

\* Every action keeps every variable in its type.
LEMMA TypeStep == TypeOK /\ [Next]_vars => TypeOK'
<1> SUFFICES ASSUME TypeOK, [Next]_vars PROVE TypeOK'
  OBVIOUS
<1> USE SimAssumption, ProcAssumption, BoundAssumption
        DEF TypeOK, Status, Step, GoTo, HasStatus, Exists
<1>1. ASSUME NEW a \in Api, BeginCreate(a) PROVE TypeOK'
  BY <1>1 DEF BeginCreate
<1>2. ASSUME NEW a \in Api, CommitCreate(a) PROVE TypeOK'
  BY <1>2 DEF CommitCreate
<1>3. ASSUME NEW a \in Api, AbortCreate(a) PROVE TypeOK'
  BY <1>3 DEF AbortCreate
<1>4. ASSUME NEW a \in Api, BeginCancel(a) PROVE TypeOK'
  BY <1>4 DEF BeginCancel
<1>5. ASSUME NEW a \in Api, CommitCancel(a) PROVE TypeOK'
  BY <1>5 DEF CommitCancel, Update
<1>6. ASSUME NEW a \in Api, Delete(a) PROVE TypeOK'
  BY <1>6 DEF Delete, Update
<1>7. ASSUME NEW p \in Proc, BeginRerun(p) PROVE TypeOK'
  BY <1>7 DEF BeginRerun
<1>8. ASSUME NEW p \in Proc, CommitRerun(p) PROVE TypeOK'
  BY <1>8 DEF CommitRerun
<1>9. ASSUME NEW p \in Proc, AbortRerun(p) PROVE TypeOK'
  BY <1>9 DEF AbortRerun
<1>10. ASSUME NEW p \in Proc, Recover(p) PROVE TypeOK'
  BY <1>10 DEF Recover
<1>11. ASSUME NEW p \in Proc, CountActive(p) PROVE TypeOK'
  BY <1>11 DEF CountActive, Return
<1>12. ASSUME NEW p \in Proc, Pick(p) PROVE TypeOK'
  BY <1>12 DEF Pick, Return, OldestQueued
<1>13. ASSUME NEW p \in Proc, Send(p) PROVE TypeOK'
  <2>1. PICK s \in Sim : s = arg[p]
    BY <1>13 DEF Send
  <2>2. ready' \in [Sim -> Nat]
    <3>1. ready' = [ready EXCEPT ![s] = ready[s] + 1]
      BY <1>13, <2>1 DEF Send
    <3>2. QED
      BY <3>1
  <2>3. QED
    BY <1>13, <2>2 DEF Send, Return
<1>14. ASSUME NEW p \in Killable, Crash(p) PROVE TypeOK'
  BY <1>14 DEF Crash
<1>15. ASSUME NEW w \in Worker, Beat(w) PROVE TypeOK'
  BY <1>15 DEF Beat
<1>16. ASSUME NEW w \in Worker, Load(w) PROVE TypeOK'
  <2>1. arg[w] \in Sim
    BY <1>16 DEF Load
  <2>2. status' \in [Sim -> Status] /\ stale' \in [Sim -> BOOLEAN]
    BY <1>16, <2>1, ZenonT(40) DEF Load
  <2>3. QED
    BY <1>16, <2>1, <2>2 DEF Load
<1>17. ASSUME NEW w \in Worker, CheckCancelled(w) PROVE TypeOK'
  BY <1>17 DEF CheckCancelled, EndRun
<1>18. ASSUME NEW w \in Worker, NextRound(w) PROVE TypeOK'
  BY <1>18 DEF NextRound
<1>19. ASSUME NEW w \in Worker, Complete(w) PROVE TypeOK'
  BY <1>19 DEF Complete, EndRun, Update
<1>20. ASSUME NEW w \in Worker, Fail(w) PROVE TypeOK'
  BY <1>20 DEF Fail, EndRun, Update
<1>21. ASSUME NEW w \in Worker, Redeliver(w) PROVE TypeOK'
  <2>1. ready' \in [Sim -> Nat]
    <3>1. PICK s \in Sim : s = held[w]
      BY <1>21 DEF Redeliver
    <3>2. ready' = [ready EXCEPT ![s] = ready[s] + 1]
      BY <1>21, <3>1 DEF Redeliver
    <3>3. QED
      BY <3>2
  <2>2. QED
    BY <1>21, <2>1 DEF Redeliver
<1>22. ASSUME NEW w \in Worker, NEW s \in Sim, Receive(w, s) PROVE TypeOK'
  BY <1>22 DEF Receive
<1>23. ASSUME NEW s \in Sim, GoStale(s) PROVE TypeOK'
  BY <1>23 DEF GoStale
<1>24. ASSUME NEW s \in Sim, RestoreOrphan(s) PROVE TypeOK'
  BY <1>24 DEF RestoreOrphan
<1>25. CASE UNCHANGED vars
  BY <1>25 DEF vars
<1>26. ASSUME NEW w \in Worker, Raise(w) PROVE TypeOK'
  BY <1>26 DEF Raise
<1>27. QED
  BY <1>1, <1>2, <1>3, <1>4, <1>5, <1>6, <1>7, <1>8, <1>9, <1>10, <1>11,
     <1>12, <1>13, <1>14, <1>15, <1>16, <1>17, <1>18, <1>19, <1>20, <1>21,
     <1>22, <1>23, <1>24, <1>25, <1>26
  DEF Next, ApiStep, RerunStep, DispatchStep, RunStep

\* Type correctness, for every value of the constants.
THEOREM TypeCorrect == Spec => []TypeOK
<1>1. Init => TypeOK
  BY BoundAssumption DEF Init, TypeOK, Status, Step
<1>2. QED
  BY <1>1, TypeStep, PTL DEF Spec

-----------------------------------------------------------------------------
(* Exclusive execution and final outcomes, when no batch outlasts the      *)
(* staleness threshold.                                                    *)

\* The worker of s: it executes s, or an exception of its own run of s has
\* brought it to the failure update.
Owns(w, s) ==
    \/ Executing(w, s)
    \/ pc[w] = "fail" /\ arg[w] = s /\ s \notin misread

\* While s has a worker, nobody can start s: its status is one that Load
\* refuses.
RunningStatus ==
    \A w \in Worker, s \in Sim :
       Owns(w, s) => \/ status[s] \in {"running", "cancelled", "deleted"}
                     \/ s \in misread /\ status[s] = "failed"

\* A running row that the recovery may put back has lost its worker.
StaleIsDead ==
    \A w \in Worker, s \in Sim :
       Owns(w, s) => ~(stale[s] /\ status[s] = "running")

OneOwner ==
    \A w1, w2 \in Worker, s \in Sim : Owns(w1, s) /\ Owns(w2, s) => w1 = w2

RunInv == TypeOK /\ RunningStatus /\ StaleIsDead /\ OneOwner

\* The three parts of RunInv that speak of the workers of a row are kept by
\* a step that starts no execution and changes no row to a status they
\* forbid.
LEMMA RunFrame ==
    ASSUME RunInv,
           misread \subseteq misread',
           \A w \in Worker, s \in Sim : Owns(w, s)' => Owns(w, s),
           \A w \in Worker, s \in Sim :
              Owns(w, s)' =>
                 /\ \/ status'[s] \in {status[s], "cancelled", "deleted"}
                    \/ s \in misread' /\ status'[s] = "failed"
                 /\ stale'[s] => stale[s] \/ status[s] # "running"
    PROVE  RunningStatus' /\ StaleIsDead' /\ OneOwner'
<1>1. RunningStatus'
  BY DEF RunInv, RunningStatus
<1>2. StaleIsDead'
  BY DEF RunInv, StaleIsDead
<1>3. OneOwner'
  BY DEF RunInv, OneOwner
<1>4. QED
  BY <1>1, <1>2, <1>3

\* RunInv is kept by every step.
LEMMA RunStepInv ==
    ASSUME ~SlowBatches
    PROVE  RunInv /\ [Next]_vars => RunInv'
<1> SUFFICES ASSUME RunInv, [Next]_vars PROVE RunInv'
  OBVIOUS
<1> DEFINE Keeps == RunningStatus' /\ StaleIsDead' /\ OneOwner'
<1>0. TypeOK'
  BY TypeStep DEF RunInv
<1> USE SimAssumption, ProcAssumption, BoundAssumption
        DEF RunInv, TypeOK, RunningStatus, StaleIsDead, OneOwner, Owns,
            Executing, GoTo, HasStatus, Exists
<1>1. ASSUME NEW a \in Api, BeginCreate(a) PROVE Keeps
  BY <1>1, RunFrame DEF BeginCreate
<1>2. ASSUME NEW a \in Api, CommitCreate(a) PROVE Keeps
  BY <1>2, RunFrame DEF CommitCreate
<1>3. ASSUME NEW a \in Api, AbortCreate(a) PROVE Keeps
  BY <1>3, RunFrame DEF AbortCreate
<1>4. ASSUME NEW a \in Api, BeginCancel(a) PROVE Keeps
  BY <1>4, RunFrame DEF BeginCancel
<1>5. ASSUME NEW a \in Api, CommitCancel(a) PROVE Keeps
  BY <1>5, RunFrame DEF CommitCancel, Update
<1>6. ASSUME NEW a \in Api, Delete(a) PROVE Keeps
  BY <1>6, RunFrame DEF Delete, Update
<1>7. ASSUME NEW p \in Proc, BeginRerun(p) PROVE Keeps
  BY <1>7, RunFrame DEF BeginRerun
<1>8. ASSUME NEW p \in Proc, CommitRerun(p) PROVE Keeps
  BY <1>8, RunFrame DEF CommitRerun
<1>9. ASSUME NEW p \in Proc, AbortRerun(p) PROVE Keeps
  BY <1>9, RunFrame DEF AbortRerun
<1>10. ASSUME NEW p \in Proc, Recover(p) PROVE Keeps
  BY <1>10, RunFrame DEF Recover
<1>11. ASSUME NEW p \in Proc, CountActive(p) PROVE Keeps
  BY <1>11, RunFrame DEF CountActive, Return
<1>12. ASSUME NEW p \in Proc, Pick(p) PROVE Keeps
  BY <1>12, RunFrame DEF Pick, Return, OldestQueued
<1>13. ASSUME NEW p \in Proc, Send(p) PROVE Keeps
  BY <1>13, RunFrame DEF Send, Return
<1>14. ASSUME NEW p \in Killable, Crash(p) PROVE Keeps
  BY <1>14, RunFrame DEF Crash
<1>15. ASSUME NEW w \in Worker, Beat(w) PROVE Keeps
  BY <1>15, RunFrame DEF Beat
<1>16. ASSUME NEW w \in Worker, Load(w) PROVE Keeps
  BY <1>16, RunFrame DEF Load
<1>17. ASSUME NEW w \in Worker, CheckCancelled(w) PROVE Keeps
  BY <1>17, RunFrame DEF CheckCancelled, EndRun
<1>18. ASSUME NEW w \in Worker, NextRound(w) PROVE Keeps
  BY <1>18, RunFrame DEF NextRound
<1>19. ASSUME NEW w \in Worker, Complete(w) PROVE Keeps
  BY <1>19, RunFrame DEF Complete, EndRun, Update
<1>20. ASSUME NEW w \in Worker, Fail(w) PROVE Keeps
  BY <1>20, RunFrame DEF Fail, EndRun, Update
<1>21. ASSUME NEW w \in Worker, Redeliver(w) PROVE Keeps
  BY <1>21, RunFrame DEF Redeliver
<1>22. ASSUME NEW w \in Worker, NEW s \in Sim, Receive(w, s) PROVE Keeps
  BY <1>22, RunFrame DEF Receive
<1>23. ASSUME NEW s \in Sim, GoStale(s) PROVE Keeps
  BY <1>23, RunFrame DEF GoStale, Attending
<1>24. ASSUME NEW s \in Sim, RestoreOrphan(s) PROVE Keeps
  BY <1>24, RunFrame DEF RestoreOrphan
<1>25. CASE UNCHANGED vars
  BY <1>25 DEF vars
<1>26. ASSUME NEW w \in Worker, Raise(w) PROVE Keeps
  BY <1>26, RunFrame DEF Raise
<1>27. QED
  BY <1>0, <1>1, <1>2, <1>3, <1>4, <1>5, <1>6, <1>7, <1>8, <1>9, <1>10, <1>11, <1>12, <1>13, <1>14, <1>15, <1>16, <1>17, <1>18, <1>19, <1>20, <1>21, <1>22, <1>23, <1>24, <1>25, <1>26
  DEF Next, ApiStep, RerunStep, DispatchStep, RunStep

LEMMA InitRunInv == Init => RunInv
<1>1. Init => TypeOK
  BY BoundAssumption DEF Init, TypeOK, Status, Step
<1>2. QED
  BY <1>1 DEF Init, RunInv, RunningStatus, StaleIsDead, OneOwner, Owns,
               Executing

\* No two workers execute the same simulation.
THEOREM Exclusive == ASSUME ~SlowBatches PROVE Spec => []ExclusiveRun
<1>1. Init => RunInv
  BY InitRunInv
<1>2. RunInv => ExclusiveRun
  BY DEF RunInv, OneOwner, Owns, ExclusiveRun
<1>3. QED
  BY <1>1, <1>2, RunStepInv, PTL DEF Spec

\* The outcome of a row does not change in a step, or a load of it raised.
OutcomeKept ==
    \A s \in Sim : status[s] \in {"complete", "failed"} =>
       \/ status'[s] \in {status[s], "cancelled", "deleted"}
       \/ s \in misread /\ status'[s] \in {"complete", "failed"}

\* Only the worker of s writes an outcome, or one whose load of s raised;
\* RunInv says that s has no outcome in the first case, unless some other
\* load of it raised.
LEMMA OutcomeStep == RunInv /\ [Next]_vars => OutcomeKept
<1> SUFFICES ASSUME RunInv, [Next]_vars PROVE OutcomeKept
  OBVIOUS
<1> USE SimAssumption, ProcAssumption
        DEF RunInv, TypeOK, RunningStatus, Owns, Executing, GoTo, HasStatus,
            Exists, OutcomeKept
<1>1. ASSUME NEW a \in Api, BeginCreate(a) PROVE OutcomeKept
  BY <1>1 DEF BeginCreate
<1>2. ASSUME NEW a \in Api, CommitCreate(a) PROVE OutcomeKept
  BY <1>2 DEF CommitCreate
<1>3. ASSUME NEW a \in Api, AbortCreate(a) PROVE OutcomeKept
  BY <1>3 DEF AbortCreate
<1>4. ASSUME NEW a \in Api, BeginCancel(a) PROVE OutcomeKept
  BY <1>4 DEF BeginCancel
<1>5. ASSUME NEW a \in Api, CommitCancel(a) PROVE OutcomeKept
  BY <1>5 DEF CommitCancel, Update
<1>6. ASSUME NEW a \in Api, Delete(a) PROVE OutcomeKept
  BY <1>6 DEF Delete, Update
<1>7. ASSUME NEW p \in Proc, BeginRerun(p) PROVE OutcomeKept
  BY <1>7 DEF BeginRerun
<1>8. ASSUME NEW p \in Proc, CommitRerun(p) PROVE OutcomeKept
  BY <1>8 DEF CommitRerun
<1>9. ASSUME NEW p \in Proc, AbortRerun(p) PROVE OutcomeKept
  BY <1>9 DEF AbortRerun
<1>10. ASSUME NEW p \in Proc, Recover(p) PROVE OutcomeKept
  BY <1>10 DEF Recover
<1>11. ASSUME NEW p \in Proc, CountActive(p) PROVE OutcomeKept
  BY <1>11 DEF CountActive, Return
<1>12. ASSUME NEW p \in Proc, Pick(p) PROVE OutcomeKept
  BY <1>12 DEF Pick, Return, OldestQueued
<1>13. ASSUME NEW p \in Proc, Send(p) PROVE OutcomeKept
  BY <1>13 DEF Send, Return
<1>14. ASSUME NEW p \in Killable, Crash(p) PROVE OutcomeKept
  BY <1>14 DEF Crash
<1>15. ASSUME NEW w \in Worker, Beat(w) PROVE OutcomeKept
  BY <1>15 DEF Beat
<1>16. ASSUME NEW w \in Worker, Load(w) PROVE OutcomeKept
  BY <1>16 DEF Load
<1>17. ASSUME NEW w \in Worker, CheckCancelled(w) PROVE OutcomeKept
  BY <1>17 DEF CheckCancelled, EndRun
<1>18. ASSUME NEW w \in Worker, NextRound(w) PROVE OutcomeKept
  BY <1>18 DEF NextRound
<1>19. ASSUME NEW w \in Worker, Complete(w) PROVE OutcomeKept
  BY <1>19 DEF Complete, EndRun, Update
<1>20. ASSUME NEW w \in Worker, Fail(w) PROVE OutcomeKept
  BY <1>20 DEF Fail, EndRun, Update
<1>21. ASSUME NEW w \in Worker, Redeliver(w) PROVE OutcomeKept
  BY <1>21 DEF Redeliver
<1>22. ASSUME NEW w \in Worker, NEW s \in Sim, Receive(w, s) PROVE OutcomeKept
  BY <1>22 DEF Receive
<1>23. ASSUME NEW s \in Sim, GoStale(s) PROVE OutcomeKept
  BY <1>23 DEF GoStale
<1>24. ASSUME NEW s \in Sim, RestoreOrphan(s) PROVE OutcomeKept
  BY <1>24 DEF RestoreOrphan
<1>25. CASE UNCHANGED vars
  BY <1>25 DEF vars
<1>26. ASSUME NEW w \in Worker, Raise(w) PROVE OutcomeKept
  BY <1>26 DEF Raise
<1>27. QED
  BY <1>1, <1>2, <1>3, <1>4, <1>5, <1>6, <1>7, <1>8, <1>9, <1>10, <1>11, <1>12, <1>13, <1>14, <1>15, <1>16, <1>17, <1>18, <1>19, <1>20, <1>21, <1>22, <1>23, <1>24, <1>25, <1>26
  DEF Next, ApiStep, RerunStep, DispatchStep, RunStep

\* A complete or failed simulation never runs again, and its outcome is
\* never replaced by the other one, unless a load of it raised.
THEOREM OutcomeFinal == ASSUME ~SlowBatches PROVE Spec => OutcomeSticks
<1>1. Init => RunInv
  BY InitRunInv
<1>2. RunInv /\ [Next]_vars => [OutcomeKept]_vars
  BY OutcomeStep
<1>3. QED
  BY <1>1, <1>2, RunStepInv, PTL DEF Spec, OutcomeSticks, OutcomeKept

-----------------------------------------------------------------------------
(* No dispatch is lost while nothing is killed.                            *)

\* Someone is responsible for every pending row, in every step but a crash.
LEMMA DeliveredStep ==
    TypeOK /\ PendingIsDelivered /\ [Next]_vars => PendingIsDelivered'
<1> SUFFICES ASSUME TypeOK, PendingIsDelivered, [Next]_vars
             PROVE PendingIsDelivered'
  OBVIOUS
<1> DEFINE Delivered(s) ==
       \/ ready[s] > 0
       \/ \E p \in Proc : pc[p] \in {"send", "load", "fail"} /\ arg[p] = s
<1> USE SimAssumption, ProcAssumption, BoundAssumption
        DEF TypeOK, PendingIsDelivered, GoTo, HasStatus, Exists
<1>1. ASSUME NEW a \in Api, BeginCreate(a) PROVE PendingIsDelivered'
  BY <1>1 DEF BeginCreate
<1>2. ASSUME NEW a \in Api, CommitCreate(a) PROVE PendingIsDelivered'
  <2> SUFFICES ASSUME crashes = 0, NEW s \in Sim, status'[s] = "pending"
               PROVE  Delivered(s)'
    BY <1>2 DEF CommitCreate
  <2>1. CASE status[s] = "pending"
    <3>1. Delivered(s)
      BY <2>1
    <3>2. \A q \in Proc : pc[q] \in {"send", "load", "fail"} =>
             pc'[q] = pc[q] /\ arg'[q] = arg[q]
      BY <1>2 DEF CommitCreate
    <3>3. ready' = ready
      BY <1>2 DEF CommitCreate
    <3>4. QED
      BY <3>1, <3>2, <3>3
  <2>2. CASE status[s] # "pending"
    <3>1. pc'[a] = "send" /\ arg'[a] = s
      BY <1>2, <2>2 DEF CommitCreate
    <3>2. QED
      BY <3>1
  <2>3. QED
    BY <2>1, <2>2
<1>3. ASSUME NEW a \in Api, AbortCreate(a) PROVE PendingIsDelivered'
  BY <1>3 DEF AbortCreate
<1>4. ASSUME NEW a \in Api, BeginCancel(a) PROVE PendingIsDelivered'
  <2> SUFFICES ASSUME crashes = 0, NEW s \in Sim, status'[s] = "pending"
               PROVE  Delivered(s)'
    BY <1>4 DEF BeginCancel
  <2>1. CASE status[s] = "pending"
    <3>1. Delivered(s)
      BY <2>1
    <3>2. \A q \in Proc : pc[q] \in {"send", "load", "fail"} =>
             pc'[q] = pc[q] /\ arg'[q] = arg[q]
      BY <1>4 DEF BeginCancel
    <3>3. ready' = ready
      BY <1>4 DEF BeginCancel
    <3>4. QED
      BY <3>1, <3>2, <3>3
  <2>2. status[s] = "pending"
    BY <1>4 DEF BeginCancel
  <2>3. QED
    BY <2>1, <2>2
<1>5. ASSUME NEW a \in Api, CommitCancel(a) PROVE PendingIsDelivered'
  BY <1>5 DEF CommitCancel, Update
<1>6. ASSUME NEW a \in Api, Delete(a) PROVE PendingIsDelivered'
  <2> SUFFICES ASSUME crashes = 0, NEW s \in Sim, status'[s] = "pending"
               PROVE  Delivered(s)'
    BY <1>6 DEF Delete
  <2>1. CASE status[s] = "pending"
    <3>1. Delivered(s)
      BY <2>1
    <3>2. \A q \in Proc : pc[q] \in {"send", "load", "fail"} =>
             pc'[q] = pc[q] /\ arg'[q] = arg[q]
      BY <1>6 DEF Delete, Update
    <3>3. ready' = ready
      BY <1>6 DEF Delete, Update
    <3>4. QED
      BY <3>1, <3>2, <3>3
  <2>2. status[s] = "pending"
    BY <1>6 DEF Delete, Update
  <2>3. QED
    BY <2>1, <2>2
<1>7. ASSUME NEW p \in Proc, BeginRerun(p) PROVE PendingIsDelivered'
  BY <1>7 DEF BeginRerun
<1>8. ASSUME NEW p \in Proc, CommitRerun(p) PROVE PendingIsDelivered'
  <2> SUFFICES ASSUME crashes = 0, NEW s \in Sim, status'[s] = "pending"
               PROVE  Delivered(s)'
    BY <1>8 DEF CommitRerun
  <2>1. CASE status[s] = "pending"
    <3>1. Delivered(s)
      BY <2>1
    <3>2. \A q \in Proc : pc[q] \in {"send", "load", "fail"} =>
             pc'[q] = pc[q] /\ arg'[q] = arg[q]
      BY <1>8 DEF CommitRerun
    <3>3. ready' = ready
      BY <1>8 DEF CommitRerun
    <3>4. QED
      BY <3>1, <3>2, <3>3
  <2>2. CASE status[s] # "pending"
    <3>1. pc'[p] = "send" /\ arg'[p] = s
      BY <1>8, <2>2 DEF CommitRerun
    <3>2. QED
      BY <3>1
  <2>3. QED
    BY <2>1, <2>2
<1>9. ASSUME NEW p \in Proc, AbortRerun(p) PROVE PendingIsDelivered'
  BY <1>9 DEF AbortRerun
<1>10. ASSUME NEW p \in Proc, Recover(p) PROVE PendingIsDelivered'
  BY <1>10 DEF Recover
<1>11. ASSUME NEW p \in Proc, CountActive(p) PROVE PendingIsDelivered'
  BY <1>11 DEF CountActive, Return
<1>12. ASSUME NEW p \in Proc, Pick(p) PROVE PendingIsDelivered'
  BY <1>12 DEF Pick, Return, OldestQueued
<1>13. ASSUME NEW p \in Proc, Send(p) PROVE PendingIsDelivered'
  BY <1>13 DEF Send, Return
<1>14. ASSUME NEW p \in Killable, Crash(p) PROVE PendingIsDelivered'
  BY <1>14 DEF Crash
<1>15. ASSUME NEW w \in Worker, Beat(w) PROVE PendingIsDelivered'
  BY <1>15 DEF Beat
<1>16. ASSUME NEW w \in Worker, Load(w) PROVE PendingIsDelivered'
  BY <1>16 DEF Load
<1>17. ASSUME NEW w \in Worker, CheckCancelled(w) PROVE PendingIsDelivered'
  BY <1>17 DEF CheckCancelled, EndRun
<1>18. ASSUME NEW w \in Worker, NextRound(w) PROVE PendingIsDelivered'
  BY <1>18 DEF NextRound
<1>19. ASSUME NEW w \in Worker, Complete(w) PROVE PendingIsDelivered'
  BY <1>19 DEF Complete, EndRun, Update
<1>20. ASSUME NEW w \in Worker, Fail(w) PROVE PendingIsDelivered'
  BY <1>20 DEF Fail, EndRun, Update
<1>21. ASSUME NEW w \in Worker, Redeliver(w) PROVE PendingIsDelivered'
  BY <1>21 DEF Redeliver
<1>22. ASSUME NEW w \in Worker, NEW s \in Sim, Receive(w, s) PROVE PendingIsDelivered'
  BY <1>22 DEF Receive
<1>23. ASSUME NEW s \in Sim, GoStale(s) PROVE PendingIsDelivered'
  BY <1>23 DEF GoStale
<1>24. ASSUME NEW s \in Sim, RestoreOrphan(s) PROVE PendingIsDelivered'
  BY <1>24 DEF RestoreOrphan
<1>25. CASE UNCHANGED vars
  BY <1>25 DEF vars
<1>26. ASSUME NEW w \in Worker, Raise(w) PROVE PendingIsDelivered'
  BY <1>26 DEF Raise
<1>27. QED
  BY <1>1, <1>2, <1>3, <1>4, <1>5, <1>6, <1>7, <1>8, <1>9, <1>10, <1>11, <1>12, <1>13, <1>14, <1>15, <1>16, <1>17, <1>18, <1>19, <1>20, <1>21, <1>22, <1>23, <1>24, <1>25, <1>26
  DEF Next, ApiStep, RerunStep, DispatchStep, RunStep

\* Every commit of a pending row is followed by its delivery to a worker.
THEOREM PendingDelivered == Spec => []PendingIsDelivered
<1>1. Init => PendingIsDelivered
  BY DEF Init, PendingIsDelivered
<1>2. QED
  BY <1>1, DeliveredStep, TypeCorrect, PTL DEF Spec
=============================================================================
