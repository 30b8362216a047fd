------------------------------- MODULE SimQueue -------------------------------
(***************************************************************************)
(* The life of the rows of table "simulations": the API handlers that      *)
(* create, cancel and delete them (api/simulations.py), the nightly rerun  *)
(* service, the dispatcher _dispatch_next_queued with its stale-run        *)
(* recovery, the Celery broker with late acknowledgement, and the workers  *)
(* that execute run_simulation (tasks/simulation.py).                      *)
(*                                                                         *)
(* Every process is a program counter over one shared database.  A step is *)
(* one database transaction, one unlocked read, or one broker call, since  *)
(* these are the points where the code lets another process in.  What a    *)
(* worker does inside a round is in module SimRun.                         *)
(***************************************************************************)
EXTENDS Naturals, FiniteSets

CONSTANTS
    Sim,               \* simulation rows, each named by its created_at
    Worker,            \* Celery worker processes (docker-compose runs one)
    Api,               \* API requests that may be in flight at once
    NoSim,             \* "no simulation"
    NumRounds,         \* num_rounds of every simulation
    MaxCrashes,        \* bound: processes killed, outcomes that cannot be written
    MaxRedeliveries,   \* bound: deliveries repeated while the first is alive
    SlowBatches,       \* can a batch outlast SIMULATION_STALE_RUNNING_MINUTES?
    Killable,          \* the processes that may be killed
    CrashSteps         \* the steps before which they may be

ASSUME SimAssumption == Sim \subseteq Nat /\ NoSim \notin Sim
ASSUME ProcAssumption == Worker \cap Api = {}
ASSUME BoundAssumption ==
    /\ NumRounds \in Nat \ {0}
    /\ MaxCrashes \in Nat
    /\ MaxRedeliveries \in Nat
    /\ SlowBatches \in BOOLEAN
    /\ Killable \subseteq Worker \cup Api

VARIABLES
    status,        \* simulations.status; "absent" before insert, "deleted" after
    stale,         \* started_at and every checkpoint.updated_at are < cutoff
    ready,         \* run_simulation messages a worker may take
    orphaned,      \* messages taken by a worker that died before acking
    pc,            \* what each process does next
    arg,           \* the simulation it does it to
    seen,          \* the status it read in an earlier step
    round,         \* round_number of the loop in _run_simulation_async
    held,          \* the simulation whose message the worker has not acked
    rerunLock,     \* holder of the advisory lock of create_rerun
    misread,       \* history: rows whose load ended in an exception
    crashes, redeliveries

vars == <<status, stale, ready, orphaned, pc, arg, seen, round, held,
          rerunLock, misread, crashes, redeliveries>>

Proc    == Worker \cup Api
NoProc  == "nobody"
Absent  == "absent"
Status  == {"absent", "queued", "pending", "running", "complete", "failed",
            "cancelled", "deleted"}
Step    == {"idle", "insert", "cancel", "rerun", "recover", "count", "pick",
            "send", "load", "check", "work", "fail"}

Init ==
    /\ status = [s \in Sim |-> Absent]
    /\ stale = [s \in Sim |-> FALSE]
    /\ ready = [s \in Sim |-> 0]
    /\ orphaned = [s \in Sim |-> 0]
    /\ pc = [p \in Proc |-> "idle"]
    /\ arg = [p \in Proc |-> NoSim]
    /\ seen = [p \in Proc |-> Absent]
    /\ round = [w \in Worker |-> 0]
    /\ held = [w \in Worker |-> NoSim]
    /\ rerunLock = NoProc
    /\ misread = {}
    /\ crashes = 0
    /\ redeliveries = 0

-----------------------------------------------------------------------------
(* Helpers *)

HasStatus(S) == {s \in Sim : status[s] \in S}
Exists(s)    == status[s] \notin {"absent", "deleted"}

\* The row every dispatcher would pick: ORDER BY created_at LIMIT 1.
OldestQueued(s) ==
    /\ s \in HasStatus({"queued"})
    /\ \A t \in HasStatus({"queued"}) : s <= t

\* An UPDATE ... WHERE id = s changes nothing when the row is gone.
Update(s, value) ==
    status' = IF Exists(s) THEN [status EXCEPT ![s] = value] ELSE status

GoTo(p, step) == pc' = [pc EXCEPT ![p] = step]

\* The task or request of p returns: a worker acks the message it holds.
Return(p) ==
    /\ GoTo(p, "idle")
    /\ arg' = [arg EXCEPT ![p] = NoSim]
    /\ held' = [w \in Worker |-> IF w = p THEN NoSim ELSE held[w]]

Executing(w, s) == pc[w] \in {"check", "work"} /\ arg[w] = s

\* As long as w has s in hand, executing it or about to write that it failed.
Attending(w, s) == pc[w] \in {"check", "work", "fail"} /\ arg[w] = s

-----------------------------------------------------------------------------
(* POST /api/simulations: count the active rows, then insert.  The count   *)
(* and the insert are one transaction, but nothing locks the rows counted. *)

BeginCreate(a) ==
    /\ pc[a] = "idle"
    /\ seen' = [seen EXCEPT ![a] = IF HasStatus({"pending", "running"}) = {}
                                   THEN "pending" ELSE "queued"]
    /\ GoTo(a, "insert")
    /\ UNCHANGED <<status, stale, ready, orphaned, arg, round, held, rerunLock,
                   misread, crashes, redeliveries>>

\* The commit makes the row visible; only a pending one is sent to Celery.
CommitCreate(a) ==
    /\ pc[a] = "insert"
    /\ \E s \in HasStatus({Absent}) :
          /\ status' = [status EXCEPT ![s] = seen[a]]
          /\ IF seen[a] = "pending"
             THEN /\ GoTo(a, "send")
                  /\ arg' = [arg EXCEPT ![a] = s]
             ELSE GoTo(a, "idle") /\ UNCHANGED arg
    /\ seen' = [seen EXCEPT ![a] = Absent]
    /\ UNCHANGED <<stale, ready, orphaned, round, held, rerunLock, misread,
                   crashes, redeliveries>>

\* An opponent deck that is not 60 cards: 422, the transaction rolls back.
AbortCreate(a) ==
    /\ pc[a] = "insert"
    /\ GoTo(a, "idle")
    /\ seen' = [seen EXCEPT ![a] = Absent]
    /\ UNCHANGED <<status, stale, ready, orphaned, arg, round, held, rerunLock,
                   misread, crashes, redeliveries>>

-----------------------------------------------------------------------------
(* POST /{id}/cancel: an unlocked read, then an unconditional write.       *)

BeginCancel(a) ==
    /\ pc[a] = "idle"
    /\ \E s \in HasStatus({"queued", "pending", "running"}) :
          /\ arg' = [arg EXCEPT ![a] = s]
          /\ seen' = [seen EXCEPT ![a] = status[s]]
    /\ GoTo(a, "cancel")
    /\ UNCHANGED <<status, stale, ready, orphaned, round, held, rerunLock,
                   misread, crashes, redeliveries>>

\* A row deleted in between makes the commit fail: nothing is dispatched.
CommitCancel(a) ==
    /\ pc[a] = "cancel"
    /\ Update(arg[a], "cancelled")
    /\ GoTo(a, IF seen[a] = "queued" /\ Exists(arg[a]) THEN "recover" ELSE "idle")
    /\ arg' = [arg EXCEPT ![a] = NoSim]
    /\ seen' = [seen EXCEPT ![a] = Absent]
    /\ UNCHANGED <<stale, ready, orphaned, round, held, rerunLock, misread,
                   crashes, redeliveries>>

\* DELETE /{id}: any status, whether or not a worker is on it.
Delete(a) ==
    /\ pc[a] = "idle"
    /\ \E s \in Sim : Exists(s) /\ Update(s, "deleted")
    /\ UNCHANGED <<stale, ready, orphaned, pc, arg, seen, round, held,
                   rerunLock, misread, crashes, redeliveries>>

-----------------------------------------------------------------------------
(* create_rerun, run by the nightly task on a worker or by the admin API.  *)
(* A busy queue or a taken advisory lock is a return without effect.       *)

BeginRerun(p) ==
    /\ pc[p] = "idle"
    /\ rerunLock = NoProc
    /\ HasStatus({"queued", "pending", "running"}) = {}
    /\ rerunLock' = p
    /\ GoTo(p, "rerun")
    /\ UNCHANGED <<status, stale, ready, orphaned, arg, seen, round, held,
                   misread, crashes, redeliveries>>

CommitRerun(p) ==
    /\ pc[p] = "rerun"
    /\ \E s \in HasStatus({Absent}) :
          /\ status' = [status EXCEPT ![s] = "pending"]
          /\ arg' = [arg EXCEPT ![p] = s]
    /\ GoTo(p, "send")
    /\ rerunLock' = NoProc
    /\ UNCHANGED <<stale, ready, orphaned, seen, round, held, misread, crashes,
                   redeliveries>>

\* No eligible source, or the insert failed and only the history says so.
AbortRerun(p) ==
    /\ pc[p] = "rerun"
    /\ GoTo(p, "idle")
    /\ rerunLock' = NoProc
    /\ UNCHANGED <<status, stale, ready, orphaned, arg, seen, round, held,
                   misread, crashes, redeliveries>>

-----------------------------------------------------------------------------
(* _dispatch_next_queued: recover, count, pick, commit, and then send.     *)

\* The Beat task advance_simulation_queue, on an idle worker.
Beat(w) ==
    /\ pc[w] = "idle"
    /\ GoTo(w, "recover")
    /\ UNCHANGED <<status, stale, ready, orphaned, arg, seen, round, held,
                   rerunLock, misread, crashes, redeliveries>>

\* A faulty variant: stale rows are left running.
RecoverNothing(p) ==
    /\ pc[p] = "recover"
    /\ GoTo(p, "count")
    /\ UNCHANGED <<status, stale, ready, orphaned, arg, seen, round, held,
                   rerunLock, misread, crashes, redeliveries>>

\* One transaction over every stale running row.  Which verdict a row gets
\* depends on its checkpoints, which SimRun has and this module does not.
Recover(p) ==
    /\ pc[p] = "recover"
    /\ \E verdict \in [Sim -> {"queued", "failed"}] :
          /\ \A s \in Sim : ~(stale[s] /\ status[s] = "running") =>
                               verdict[s] = "queued"
          /\ status' = [s \in Sim |-> IF stale[s] /\ status[s] = "running"
                                      THEN verdict[s] ELSE status[s]]
    /\ GoTo(p, "count")
    /\ UNCHANGED <<stale, ready, orphaned, arg, seen, round, held, rerunLock,
                   misread, crashes, redeliveries>>

\* A faulty variant: queued rows count as active.
CountWaiting(p) ==
    /\ pc[p] = "count"
    /\ IF HasStatus({"queued", "pending", "running"}) = {}
       THEN GoTo(p, "pick") /\ UNCHANGED <<arg, held>>
       ELSE Return(p)
    /\ UNCHANGED <<status, stale, ready, orphaned, seen, round, rerunLock,
                   misread, crashes, redeliveries>>

CountActive(p) ==
    /\ pc[p] = "count"
    /\ IF HasStatus({"pending", "running"}) = {}
       THEN GoTo(p, "pick") /\ UNCHANGED <<arg, held>>
       ELSE Return(p)
    /\ UNCHANGED <<status, stale, ready, orphaned, seen, round, rerunLock,
                   misread, crashes, redeliveries>>

\* A faulty variant: the row is promoted and nothing is sent.
PickOnly(p) ==
    /\ pc[p] = "pick"
    /\ \/ HasStatus({"queued"}) = {} /\ UNCHANGED status
       \/ \E s \in Sim : OldestQueued(s) /\ status' = [status EXCEPT ![s] = "pending"]
    /\ Return(p)
    /\ UNCHANGED <<stale, ready, orphaned, seen, round, rerunLock, misread,
                   crashes, redeliveries>>

\* SELECT ... FOR UPDATE SKIP LOCKED and the commit that promotes the row.
Pick(p) ==
    /\ pc[p] = "pick"
    /\ \/ /\ HasStatus({"queued"}) = {}
          /\ Return(p)
          /\ UNCHANGED status
       \/ \E s \in Sim :
             /\ OldestQueued(s)
             /\ status' = [status EXCEPT ![s] = "pending"]
             /\ arg' = [arg EXCEPT ![p] = s]
             /\ GoTo(p, "send")
             /\ UNCHANGED held
    /\ UNCHANGED <<stale, ready, orphaned, seen, round, rerunLock, misread,
                   crashes, redeliveries>>

\* run_simulation.delay, after the commit that made the row pending.
Send(p) ==
    /\ pc[p] = "send"
    /\ ready' = [ready EXCEPT ![arg[p]] = @ + 1]
    /\ Return(p)
    /\ UNCHANGED <<status, stale, orphaned, seen, round, rerunLock, misread,
                   crashes, redeliveries>>

-----------------------------------------------------------------------------
(* A worker: run_simulation and the round loop of _run_simulation_async.   *)

\* A faulty variant: the worker forgets which simulation it took.
ReceiveBlindly(w, s) ==
    /\ pc[w] = "idle"
    /\ ready[s] > 0
    /\ ready' = [ready EXCEPT ![s] = @ - 1]
    /\ held' = [held EXCEPT ![w] = s]
    /\ GoTo(w, "load")
    /\ UNCHANGED <<status, stale, orphaned, arg, seen, round, rerunLock,
                   misread, crashes, redeliveries>>

Receive(w, s) ==
    /\ pc[w] = "idle"
    /\ ready[s] > 0
    /\ ready' = [ready EXCEPT ![s] = @ - 1]
    /\ held' = [held EXCEPT ![w] = s]
    /\ arg' = [arg EXCEPT ![w] = s]
    /\ GoTo(w, "load")
    /\ UNCHANGED <<status, stale, orphaned, seen, round, rerunLock, misread,
                   crashes, redeliveries>>

\* A faulty variant: a redelivered message starts a running row again.
LoadRunning(w) ==
    /\ pc[w] = "load"
    /\ IF status[arg[w]] \in {"queued", "pending", "running"}
       THEN /\ status' = [status EXCEPT ![arg[w]] = "running"]
            /\ stale' = [stale EXCEPT ![arg[w]] = FALSE]
            /\ round' = [round EXCEPT ![w] = 1]
            /\ GoTo(w, "check")
            /\ UNCHANGED arg
       ELSE /\ GoTo(w, "recover")
            /\ arg' = [arg EXCEPT ![w] = NoSim]
            /\ UNCHANGED <<status, stale, round>>
    /\ UNCHANGED <<ready, orphaned, seen, held, rerunLock, misread, crashes,
                   redeliveries>>

\* A faulty variant: a redelivered message starts a failed row again.
LoadFailed(w) ==
    /\ pc[w] = "load"
    /\ IF status[arg[w]] \in {"queued", "pending", "failed"}
       THEN /\ status' = [status EXCEPT ![arg[w]] = "running"]
            /\ stale' = [stale EXCEPT ![arg[w]] = FALSE]
            /\ round' = [round EXCEPT ![w] = 1]
            /\ GoTo(w, "check")
            /\ UNCHANGED arg
       ELSE /\ GoTo(w, "recover")
            /\ arg' = [arg EXCEPT ![w] = NoSim]
            /\ UNCHANGED <<status, stale, round>>
    /\ UNCHANGED <<ready, orphaned, seen, held, rerunLock, misread, crashes,
                   redeliveries>>

\* The row is read FOR UPDATE.  Only a queued or pending one is started; the
\* others, and a row that is gone, end the task, which dispatches on its way
\* out.
Load(w) ==
    /\ pc[w] = "load"
    /\ IF status[arg[w]] \in {"queued", "pending"}
       THEN /\ status' = [status EXCEPT ![arg[w]] = "running"]
            /\ stale' = [stale EXCEPT ![arg[w]] = FALSE]
            /\ round' = [round EXCEPT ![w] = 1]
            /\ GoTo(w, "check")
            /\ UNCHANGED arg
       ELSE /\ GoTo(w, "recover")
            /\ arg' = [arg EXCEPT ![w] = NoSim]
            /\ UNCHANGED <<status, stale, round>>
    /\ UNCHANGED <<ready, orphaned, seen, held, rerunLock, misread, crashes,
                   redeliveries>>

\* The body of the task is over: its finally clause dispatches.
EndRun(w) ==
    /\ GoTo(w, "recover")
    /\ arg' = [arg EXCEPT ![w] = NoSim]
    /\ round' = [round EXCEPT ![w] = 0]

\* Cancellation is looked at here, at the top of a round, and nowhere else.
CheckCancelled(w) ==
    /\ pc[w] = "check"
    /\ IF status[arg[w]] = "cancelled"
       THEN EndRun(w)
       ELSE GoTo(w, "work") /\ UNCHANGED <<arg, round>>
    /\ UNCHANGED <<status, stale, ready, orphaned, seen, held, rerunLock,
                   misread, crashes, redeliveries>>

\* A round ends without reaching the target; its checkpoints are fresh.
NextRound(w) ==
    /\ pc[w] = "work"
    /\ round[w] < NumRounds
    /\ round' = [round EXCEPT ![w] = @ + 1]
    /\ stale' = [stale EXCEPT ![arg[w]] = FALSE]
    /\ GoTo(w, "check")
    /\ UNCHANGED <<status, ready, orphaned, arg, seen, held, rerunLock,
                   misread, crashes, redeliveries>>

\* The target is met or the rounds are used up: UPDATE ... 'complete'.
Complete(w) ==
    /\ pc[w] = "work"
    /\ Update(arg[w], "complete")
    /\ EndRun(w)
    /\ UNCHANGED <<stale, ready, orphaned, seen, held, rerunLock, misread,
                   crashes, redeliveries>>

\* Any exception inside the try of _run_simulation_async, which begins before
\* the transaction that loads the row: nothing of that transaction remains,
\* and the exception says nothing of the status the row had.
Raise(w) ==
    /\ pc[w] \in {"load", "check", "work"}
    /\ GoTo(w, "fail")
    /\ misread' = IF pc[w] = "load" THEN misread \cup {arg[w]} ELSE misread
    /\ UNCHANGED <<status, stale, ready, orphaned, arg, seen, round, held,
                   rerunLock, crashes, redeliveries>>

\* The except clause: UPDATE ... 'failed', whatever the status is by now.
\* When the update fails too, its exception is swallowed and the row stays
\* as it is.  If that is pending, its message is lost, as it is in a crash
\* at "send"; CrashSteps without "fail" leaves that fault out.
Fail(w) ==
    /\ pc[w] = "fail"
    /\ \/ Update(arg[w], "failed") /\ UNCHANGED crashes
       \/ /\ crashes < MaxCrashes
          /\ status[arg[w]] = "pending" => "fail" \in CrashSteps
          /\ crashes' = crashes + 1
          /\ UNCHANGED status
    /\ EndRun(w)
    /\ UNCHANGED <<stale, ready, orphaned, seen, held, rerunLock, misread,
                   redeliveries>>

-----------------------------------------------------------------------------
(* Time and faults *)

\* 45 minutes pass without a checkpoint.  While a worker has s in hand this
\* takes a batch slower than the threshold.
GoStale(s) ==
    /\ status[s] = "running"
    /\ ~stale[s]
    /\ SlowBatches \/ \A w \in Worker : ~Attending(w, s)
    /\ stale' = [stale EXCEPT ![s] = TRUE]
    /\ UNCHANGED <<status, ready, orphaned, pc, arg, seen, round, held,
                   rerunLock, misread, crashes, redeliveries>>

\* A process is killed.  An unfinished transaction rolls back, and the
\* message it holds stays unacknowledged.
Crash(p) ==
    /\ crashes < MaxCrashes
    /\ pc[p] \in CrashSteps \ {"idle"}
    /\ crashes' = crashes + 1
    /\ GoTo(p, "idle")
    /\ arg' = [arg EXCEPT ![p] = NoSim]
    /\ seen' = [seen EXCEPT ![p] = Absent]
    /\ round' = [w \in Worker |-> IF w = p THEN 0 ELSE round[w]]
    /\ held' = [w \in Worker |-> IF w = p THEN NoSim ELSE held[w]]
    /\ orphaned' = [s \in Sim |-> IF p \in Worker /\ held[p] = s
                                  THEN orphaned[s] + 1 ELSE orphaned[s]]
    /\ rerunLock' = IF rerunLock = p THEN NoProc ELSE rerunLock
    /\ UNCHANGED <<status, stale, ready, misread, redeliveries>>

\* The visibility timeout of a message whose worker is dead.
RestoreOrphan(s) ==
    /\ orphaned[s] > 0
    /\ orphaned' = [orphaned EXCEPT ![s] = @ - 1]
    /\ ready' = [ready EXCEPT ![s] = @ + 1]
    /\ UNCHANGED <<status, stale, pc, arg, seen, round, held, rerunLock,
                   misread, crashes, redeliveries>>

\* The same timeout while the worker is still on it: a second delivery.
Redeliver(w) ==
    /\ redeliveries < MaxRedeliveries
    /\ held[w] # NoSim
    /\ redeliveries' = redeliveries + 1
    /\ ready' = [ready EXCEPT ![held[w]] = @ + 1]
    /\ held' = [held EXCEPT ![w] = NoSim]
    /\ UNCHANGED <<status, stale, orphaned, pc, arg, seen, round, rerunLock,
                   misread, crashes>>

-----------------------------------------------------------------------------
ApiStep(a) ==
    \/ BeginCreate(a) \/ CommitCreate(a) \/ AbortCreate(a)
    \/ BeginCancel(a) \/ CommitCancel(a) \/ Delete(a)

RerunStep(p) == BeginRerun(p) \/ CommitRerun(p) \/ AbortRerun(p)

DispatchStep(p) == Recover(p) \/ CountActive(p) \/ Pick(p) \/ Send(p)

RunStep(w) ==
    \/ Load(w) \/ CheckCancelled(w) \/ NextRound(w) \/ Complete(w)
    \/ Raise(w) \/ Fail(w)

Next ==
    \/ \E a \in Api : ApiStep(a)
    \/ \E p \in Proc : RerunStep(p) \/ DispatchStep(p)
    \/ \E p \in Killable : Crash(p)
    \/ \E w \in Worker : Beat(w) \/ RunStep(w) \/ Redeliver(w)
    \/ \E w \in Worker, s \in Sim : Receive(w, s)
    \/ \E s \in Sim : GoStale(s) \/ RestoreOrphan(s)

Spec == Init /\ [][Next]_vars

(***************************************************************************)
(* Fairness.  A started request or task is carried on by its process, time *)
(* passes, and Redis restores what was never acknowledged.  The broker     *)
(* queue is first-in first-out and Beat puts an advance task in it every   *)
(* minute, so a worker that is idle again and again gets to each of them:  *)
(* strong fairness.  Nothing says that users or the nightly task act.      *)
(***************************************************************************)
Fairness ==
    /\ \A p \in Proc : WF_vars(DispatchStep(p))
    /\ \A p \in Proc : WF_vars(CommitRerun(p) \/ AbortRerun(p))
    /\ \A a \in Api : WF_vars(CommitCreate(a) \/ AbortCreate(a) \/ CommitCancel(a))
    /\ \A w \in Worker : WF_vars(RunStep(w))
    /\ \A w \in Worker : SF_vars(Beat(w))
    /\ \A w \in Worker, s \in Sim : SF_vars(Receive(w, s))
    /\ \A s \in Sim : WF_vars(GoStale(s)) /\ WF_vars(RestoreOrphan(s))

FairSpec == Spec /\ Fairness

-----------------------------------------------------------------------------
(* Properties *)

\* The values each part of the state takes.  A worker that executes has a
\* simulation and a round, one that sends has the row it committed.
TypeOK ==
    /\ status \in [Sim -> Status]
    /\ stale \in [Sim -> BOOLEAN]
    /\ ready \in [Sim -> Nat]
    /\ orphaned \in [Sim -> Nat]
    /\ pc \in [Proc -> Step]
    /\ arg \in [Proc -> Sim \cup {NoSim}]
    /\ seen \in [Proc -> {Absent, "queued", "pending", "running"}]
    /\ round \in [Worker -> 0..NumRounds]
    /\ held \in [Worker -> Sim \cup {NoSim}]
    /\ rerunLock \in Proc \cup {NoProc}
    /\ misread \subseteq Sim
    /\ crashes \in 0..MaxCrashes
    /\ redeliveries \in 0..MaxRedeliveries
    /\ \A p \in Proc :
          pc[p] \in {"cancel", "send", "load", "check", "work", "fail"} =>
             arg[p] \in Sim
    /\ \A a \in Api : pc[a] \notin {"load", "check", "work", "fail"}

\* No two workers ever execute the same simulation, whatever crashes, is
\* redelivered or is requeued: the promise of the "running" guard of
\* _run_simulation_async and of the staleness rule.  It holds when every
\* batch is faster than the staleness threshold (~SlowBatches).
ExclusiveRun ==
    \A w1, w2 \in Worker, s \in Sim :
       Executing(w1, s) /\ Executing(w2, s) => w1 = w2

\* As long as there was no fault, a pending row has a message that will
\* reach a worker, a process that is about to send it, or one whose load of
\* it raised and that is about to mark it failed: every commit of 'pending'
\* is followed by its delay().
PendingIsDelivered ==
    crashes = 0 =>
      \A s \in Sim : status[s] = "pending" =>
         \/ ready[s] > 0
         \/ \E p \in Proc : pc[p] \in {"send", "load", "fail"} /\ arg[p] = s

\* A finished simulation is never started or queued again, and one outcome
\* never replaces the other, but for a row whose load raised in some worker:
\* the failure update of that worker overwrites a complete row as well, and
\* the worker that executes the row may still complete a failed one.  A late
\* cancel request or a delete may overwrite either.  It needs ~SlowBatches.
OutcomeSticks ==
    [][\A s \in Sim : status[s] \in {"complete", "failed"} =>
          \/ status'[s] \in {status[s], "cancelled", "deleted"}
          \/ s \in misread /\ status'[s] \in {"complete", "failed"}]_vars

\* What the comment on the "complete" guard says: a message delivered again
\* never overwrites a complete row.  No run checks it, since TLC refutes it.
CompleteStays ==
    [][\A s \in Sim : status[s] = "complete" =>
          status'[s] \in {"complete", "cancelled", "deleted"}]_vars

\* Every queued simulation is eventually promoted, cancelled or deleted,
\* whatever process is killed, unless it is killed between the commit of a
\* pending row and its delay() (step "send"): the stale-run recovery and the
\* Beat task make up for every other crash.
QueueDrains == \A s \in Sim : status[s] = "queued" ~> status[s] # "queued"

\* A dispatched or started simulation does not stay active for ever, under
\* the same crashes.
ActiveResolves ==
    \A s \in Sim : status[s] \in {"pending", "running"} ~>
                   status[s] \notin {"pending", "running"}

\* What cancel_simulation promises: a cancelled row stays cancelled.
CancelSticks ==
    [][\A s \in Sim : status[s] = "cancelled" =>
          status'[s] \in {"cancelled", "deleted"}]_vars
=============================================================================
