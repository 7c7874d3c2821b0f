------------------------------ MODULE JobProofs ------------------------------
(***************************************************************************)
(* Theorems about JobQueue for any number of jobs, requests, calls, stops  *)
(* and failed statements, and then about FetchJob, for any file and any    *)
(* disk: what is proved of the queue holds of its downloads, since every   *)
(* step of a download is a step of the queue.                              *)
(***************************************************************************)
EXTENDS FetchJob, TLAPS

(* The worker holds a job exactly between the claim and the end of step(). *)
RunHasJob ==
  cur = None <=> pc \notin {"claimed", "handler", "returned", "written"}

(* A request goroutine in the middle of a call has asked for what it is    *)
(* about to do, and a cancel function that still works is the one of the   *)
(* present run.                                                            *)
CallsMatch ==
  \A c \in Client :
    /\ call[c].op # "idle" => call[c].job \in Job
    /\ call[c].op \in {"cancel", "row"} => "cancel" \in seen[call[c].job]
    /\ call[c].op = "pause" => "pause" \in seen[call[c].job]
    /\ call[c].live => /\ call[c].op \in {"cancel", "pause"}
                       /\ call[c].job = cur
                       /\ cur \in running

(* The cause of a run was asked for by a caller.                           *)
CauseWasAsked ==
  /\ cause = "cancelled" => cur \in running /\ "cancel" \in seen[cur]
  /\ cause = "paused" => cur \in running /\ "pause" \in seen[cur]

(* When step() is about to let go of its job, the row has left "running",  *)
(* unless the statement that should have moved it failed.                  *)
ConcludedRow ==
  pc = "written" => ctxDone \/ fails > 0 \/ status[cur] # "running"

(* The inductive invariant.                                                *)
IInv ==
  /\ TypeOK
  /\ PausedIsPending
  /\ RunOwnsRow
  /\ MapIsTheRun
  /\ NoRunningRowLeftBehind
  /\ OutcomeWasAsked
  /\ RunHasJob
  /\ CallsMatch
  /\ CauseWasAsked
  /\ ConcludedRow

-----------------------------------------------------------------------------

(* What releasing the run does to a request that still holds its cancel    *)
(* function.                                                               *)
LEMMA ReleasedCall ==
  ASSUME NEW r \in Calls
  PROVE  /\ [r EXCEPT !.live = FALSE] \in Calls
         /\ [r EXCEPT !.live = FALSE].op = r.op
         /\ [r EXCEPT !.live = FALSE].job = r.job
         /\ [r EXCEPT !.live = FALSE].live = FALSE
  BY DEF Calls

\* A new queue has its inductive invariant.
LEMMA InitIInv == Init => IInv
<1> SUFFICES ASSUME Init PROVE IInv
  OBVIOUS
<1> USE DEF Init
<1>1. TypeOK
  BY DEF TypeOK, Statuses, Finished, Fractions, Causes, Steps, Facts, Calls,
         NoCall
<1>2. PausedIsPending /\ RunOwnsRow /\ MapIsTheRun /\ NoRunningRowLeftBehind
  BY DEF PausedIsPending, RunOwnsRow, MapIsTheRun, NoRunningRowLeftBehind
<1>3. OutcomeWasAsked /\ RunHasJob /\ CallsMatch /\ CauseWasAsked /\ ConcludedRow
  BY DEF OutcomeWasAsked, RunHasJob, CallsMatch, CauseWasAsked, ConcludedRow,
         NoCall
<1> QED
  BY <1>1, <1>2, <1>3 DEF IInv

(* Every action preserves the inductive invariant.                         *)
LEMMA NextIInv == IInv /\ [Next]_vars => IInv'
<1> USE DEF IInv, TypeOK, PausedIsPending, RunOwnsRow, MapIsTheRun,
      NoRunningRowLeftBehind, OutcomeWasAsked, RunHasJob, CallsMatch,
      CauseWasAsked, ConcludedRow, None, Statuses, Finished, Fractions, Causes, Steps,
      Facts, Calls, NoCall, rows, worker, bounds, vars
<1> SUFFICES ASSUME IInv, [Next]_vars PROVE IInv'
  OBVIOUS
<1>0. 0 \notin Job
  BY DEF Job
<1>1. CASE Requeue
  BY <1>0, <1>1 DEF Requeue, WriteOK, WriteFails, RequeueRunningJobs
<1>2. CASE ClaimNothing
  BY <1>0, <1>2 DEF ClaimNothing, WriteOK, WriteFails
<1>3. CASE Wake
  BY <1>0, <1>3 DEF Wake
<1>4. CASE Stop
  BY <1>0, <1>4 DEF Stop
<1>5. ASSUME NEW j \in Job, Claim(j) PROVE IInv'
  BY <1>0, <1>5 DEF Claim, WriteOK, Oldest, Runnable
<1>6. CASE RejectUnknown
  <2> USE <1>0, <1>6 DEF RejectUnknown, WriteOK, WriteFails, FinishJob, AfterStep
  <2>1. TypeOK'
    <3>1. status' \in [Job -> Statuses] /\ paused' \in [Job -> BOOLEAN]
      OBVIOUS
    <3>2. progress' \in [Job -> Fractions]
      OBVIOUS
    <3>3. call' \in [Client -> Calls] /\ seen' \in [Job -> SUBSET Facts]
      OBVIOUS
    <3>4. /\ pc' \in Steps /\ cur' \in Job \cup {None} /\ err' \in BOOLEAN
          /\ running' \in SUBSET Job
      OBVIOUS
    <3>5. /\ cause' \in Causes /\ ctxDone' \in BOOLEAN
          /\ calls' \in Nat /\ stops' \in Nat /\ fails' \in Nat
      OBVIOUS
    <3> QED
      BY <3>1, <3>2, <3>3, <3>4, <3>5
  <2>2. PausedIsPending'
    OBVIOUS
  <2>3. RunOwnsRow'
    OBVIOUS
  <2>4. MapIsTheRun'
    OBVIOUS
  <2>5. NoRunningRowLeftBehind'
    OBVIOUS
  <2>6. OutcomeWasAsked'
    OBVIOUS
  <2>7. RunHasJob'
    OBVIOUS
  <2>8. CallsMatch'
    OBVIOUS
  <2>9. CauseWasAsked'
    OBVIOUS
  <2>10. ConcludedRow'
    OBVIOUS
  <2> QED
    BY <2>1, <2>2, <2>3, <2>4, <2>5, <2>6, <2>7, <2>8, <2>9, <2>10
<1>7. CASE Register
  BY <1>0, <1>7 DEF Register
<1>8. CASE Conclude
  <2> USE <1>0, <1>8 DEF Conclude, WriteOK, WriteFails, FinishJob, MarkJobPaused
  <2>1. TypeOK'
    <3>1. status' \in [Job -> Statuses] /\ paused' \in [Job -> BOOLEAN]
      BY ZenonT(40)
    <3>2. progress' \in [Job -> Fractions]
      OBVIOUS
    <3>3. call' \in [Client -> Calls] /\ seen' \in [Job -> SUBSET Facts]
      OBVIOUS
    <3>4. /\ pc' \in Steps /\ cur' \in Job \cup {None} /\ err' \in BOOLEAN
          /\ running' \in SUBSET Job
      OBVIOUS
    <3>5. /\ cause' \in Causes /\ ctxDone' \in BOOLEAN
          /\ calls' \in Nat /\ stops' \in Nat /\ fails' \in Nat
      OBVIOUS
    <3> QED
      BY <3>1, <3>2, <3>3, <3>4, <3>5
  <2>2. PausedIsPending'
    OBVIOUS
  <2>3. RunOwnsRow'
    OBVIOUS
  <2>4. MapIsTheRun'
    OBVIOUS
  <2>5. NoRunningRowLeftBehind'
    OBVIOUS
  <2>6. OutcomeWasAsked'
    OBVIOUS
  <2>7. RunHasJob'
    OBVIOUS
  <2>8. CallsMatch'
    OBVIOUS
  <2>9. CauseWasAsked'
    OBVIOUS
  <2>10. ConcludedRow'
    OBVIOUS
  <2> QED
    BY <2>1, <2>2, <2>3, <2>4, <2>5, <2>6, <2>7, <2>8, <2>9, <2>10
<1>9. CASE Deregister
  <2> USE <1>0, <1>9 DEF Deregister, AfterStep
  <2>1. TypeOK'
    <3>1. status' \in [Job -> Statuses] /\ paused' \in [Job -> BOOLEAN]
      OBVIOUS
    <3>2. progress' \in [Job -> Fractions]
      OBVIOUS
    <3>3. call' \in [Client -> Calls] /\ seen' \in [Job -> SUBSET Facts]
      <4>1. \A c \in Client : [call[c] EXCEPT !.live = FALSE] \in Calls
        BY ReleasedCall
      <4> QED
        BY <4>1
    <3>4. /\ pc' \in Steps /\ cur' \in Job \cup {None} /\ err' \in BOOLEAN
          /\ running' \in SUBSET Job
      OBVIOUS
    <3>5. /\ cause' \in Causes /\ ctxDone' \in BOOLEAN
          /\ calls' \in Nat /\ stops' \in Nat /\ fails' \in Nat
      OBVIOUS
    <3> QED
      BY <3>1, <3>2, <3>3, <3>4, <3>5
  <2>2. PausedIsPending'
    OBVIOUS
  <2>3. RunOwnsRow'
    OBVIOUS
  <2>4. MapIsTheRun'
    OBVIOUS
  <2>5. NoRunningRowLeftBehind'
    OBVIOUS
  <2>6. OutcomeWasAsked'
    OBVIOUS
  <2>7. RunHasJob'
    OBVIOUS
  <2>8. CallsMatch'
    <3>1. \A c \in Client : /\ call'[c].op = call[c].op
                            /\ call'[c].job = call[c].job
                            /\ call'[c].live = FALSE
      BY ReleasedCall
    <3> QED
      BY <3>1
  <2>9. CauseWasAsked'
    OBVIOUS
  <2>10. ConcludedRow'
    OBVIOUS
  <2> QED
    BY <2>1, <2>2, <2>3, <2>4, <2>5, <2>6, <2>7, <2>8, <2>9, <2>10
<1>10. CASE Report
  BY <1>0, <1>10 DEF Report
<1>11. ASSUME NEW failed \in BOOLEAN, HandlerReturn(failed) PROVE IInv'
  BY <1>0, <1>11 DEF HandlerReturn
<1>12. ASSUME NEW j \in Job, Enqueue(j) PROVE IInv'
  BY <1>0, <1>12 DEF Enqueue, Up
<1>13. ASSUME NEW j \in Job, Resume(j) PROVE IInv'
  BY <1>0, <1>13 DEF Resume, Up, Counted
<1>14. ASSUME NEW c \in Client, NEW j \in Job, CallCancel(c, j) PROVE IInv'
  BY <1>0, <1>14 DEF CallCancel, Up, Counted
<1>15. ASSUME NEW c \in Client, NEW j \in Job, CallPause(c, j) PROVE IInv'
  BY <1>0, <1>15 DEF CallPause, Up, Counted
<1>16. ASSUME NEW c \in Client, Signal(c) PROVE IInv'
  BY <1>0, <1>16 DEF Signal
<1>17. ASSUME NEW c \in Client, CancelPendingJob(c) PROVE IInv'
  <2> USE <1>0, <1>17 DEF CancelPendingJob
  <2>1. TypeOK'
    <3>1. status' \in [Job -> Statuses] /\ paused' \in [Job -> BOOLEAN]
      OBVIOUS
    <3>2. progress' \in [Job -> Fractions]
      OBVIOUS
    <3>3. call' \in [Client -> Calls] /\ seen' \in [Job -> SUBSET Facts]
      OBVIOUS
    <3>4. /\ pc' \in Steps /\ cur' \in Job \cup {None} /\ err' \in BOOLEAN
          /\ running' \in SUBSET Job
      OBVIOUS
    <3>5. /\ cause' \in Causes /\ ctxDone' \in BOOLEAN
          /\ calls' \in Nat /\ stops' \in Nat /\ fails' \in Nat
      OBVIOUS
    <3> QED
      BY <3>1, <3>2, <3>3, <3>4, <3>5
  <2>2. PausedIsPending'
    OBVIOUS
  <2>3. RunOwnsRow'
    OBVIOUS
  <2>4. MapIsTheRun'
    OBVIOUS
  <2>5. NoRunningRowLeftBehind'
    OBVIOUS
  <2>6. OutcomeWasAsked'
    OBVIOUS
  <2>7. RunHasJob'
    OBVIOUS
  <2>8. CallsMatch'
    OBVIOUS
  <2>9. CauseWasAsked'
    OBVIOUS
  <2>10. ConcludedRow'
    OBVIOUS
  <2> QED
    BY <2>1, <2>2, <2>3, <2>4, <2>5, <2>6, <2>7, <2>8, <2>9, <2>10
<1>18. CASE Boot
  BY <1>0, <1>18 DEF Boot
<1>19. CASE Shutdown
  BY <1>0, <1>19 DEF Shutdown, Up
<1>20. CASE Exit
  <2> USE <1>0, <1>20 DEF Exit, Up
  <2>1. TypeOK'
    <3>1. status' \in [Job -> Statuses] /\ paused' \in [Job -> BOOLEAN]
      OBVIOUS
    <3>2. progress' \in [Job -> Fractions]
      OBVIOUS
    <3>3. call' \in [Client -> Calls] /\ seen' \in [Job -> SUBSET Facts]
      OBVIOUS
    <3>4. /\ pc' \in Steps /\ cur' \in Job \cup {None} /\ err' \in BOOLEAN
          /\ running' \in SUBSET Job
      OBVIOUS
    <3>5. /\ cause' \in Causes /\ ctxDone' \in BOOLEAN
          /\ calls' \in Nat /\ stops' \in Nat /\ fails' \in Nat
      <4>1. stops' \in Nat
        OBVIOUS
      <4>2. cause' \in Causes /\ ctxDone' \in BOOLEAN
        OBVIOUS
      <4>3. calls' \in Nat /\ fails' \in Nat
        OBVIOUS
      <4> QED
        BY <4>1, <4>2, <4>3
    <3> QED
      BY <3>1, <3>2, <3>3, <3>4, <3>5
  <2>2. PausedIsPending'
    OBVIOUS
  <2>3. RunOwnsRow'
    OBVIOUS
  <2>4. MapIsTheRun'
    OBVIOUS
  <2>5. NoRunningRowLeftBehind'
    OBVIOUS
  <2>6. OutcomeWasAsked'
    OBVIOUS
  <2>7. RunHasJob'
    OBVIOUS
  <2>8. CallsMatch'
    OBVIOUS
  <2>9. CauseWasAsked'
    OBVIOUS
  <2>10. ConcludedRow'
    OBVIOUS
  <2> QED
    BY <2>1, <2>2, <2>3, <2>4, <2>5, <2>6, <2>7, <2>8, <2>9, <2>10
<1>21. CASE UNCHANGED vars
  BY <1>21
<1> QED
  BY <1>1, <1>2, <1>3, <1>4, <1>5, <1>6, <1>7, <1>8, <1>9, <1>10, <1>11, <1>12, <1>13, <1>14, <1>15, <1>16, <1>17, <1>18, <1>19, <1>20, <1>21 DEF Next, WorkerStep, Handler, Request, Process

(* The inductive invariant holds in every reachable state.                 *)
THEOREM QueueInvariant == Spec => []IInv
  BY InitIInv, NextIInv, PTL DEF Spec

(* Every variable keeps its type.                                          *)
THEOREM QueueTypes == Spec => []TypeOK
  BY QueueInvariant, PTL DEF IInv

(* A paused job is a pending one.                                          *)
THEOREM PausedJobsArePending == Spec => []PausedIsPending
  BY QueueInvariant, PTL DEF IInv

(* Nobody but the worker writes the status of the job it holds, and the    *)
(* map of running jobs is that job.                                        *)
THEOREM RunIsExclusive == Spec => [](RunOwnsRow /\ MapIsTheRun)
  BY QueueInvariant, PTL DEF IInv

(* No running row is left behind by a live worker.                         *)
THEOREM NoRowIsLost == Spec => []NoRunningRowLeftBehind
  BY QueueInvariant, PTL DEF IInv

(* Jobs end cancelled, or wait paused, only if somebody asked for it.      *)
THEOREM OutcomesAreAsked == Spec => []OutcomeWasAsked
  BY QueueInvariant, PTL DEF IInv

-----------------------------------------------------------------------------

(* No step changes the row of a finished job.                              *)
LEMMA StepKeepsFinished ==
  ASSUME IInv, [Next]_vars, NEW j \in Job, status[j] \in Finished
  PROVE  UNCHANGED <<status[j], paused[j], progress[j]>>
<1> USE DEF IInv, TypeOK, PausedIsPending, RunOwnsRow, RunHasJob, Finished,
      None, rows, worker, bounds, vars
<1>1. CASE Requeue
  BY <1>1 DEF Requeue, RequeueRunningJobs
<1>2. CASE ClaimNothing
  BY <1>2 DEF ClaimNothing
<1>3. CASE Wake
  BY <1>3 DEF Wake
<1>4. CASE Stop
  BY <1>4 DEF Stop
<1>5. ASSUME NEW k \in Job, Claim(k) PROVE UNCHANGED <<status[j], paused[j], progress[j]>>
  BY <1>5 DEF Claim, Oldest, Runnable
<1>6. CASE RejectUnknown
  BY <1>6 DEF RejectUnknown, FinishJob
<1>7. CASE Register
  BY <1>7 DEF Register
<1>8. CASE Conclude
  BY <1>8 DEF Conclude, FinishJob, MarkJobPaused
<1>9. CASE Deregister
  BY <1>9 DEF Deregister
<1>10. CASE Report
  BY <1>10 DEF Report
<1>11. ASSUME NEW failed \in BOOLEAN, HandlerReturn(failed) PROVE UNCHANGED <<status[j], paused[j], progress[j]>>
  BY <1>11 DEF HandlerReturn
<1>12. ASSUME NEW k \in Job, Enqueue(k) PROVE UNCHANGED <<status[j], paused[j], progress[j]>>
  BY <1>12 DEF Enqueue
<1>13. ASSUME NEW k \in Job, Resume(k) PROVE UNCHANGED <<status[j], paused[j], progress[j]>>
  BY <1>13 DEF Resume
<1>14. ASSUME NEW c \in Client, NEW k \in Job, CallCancel(c, k) PROVE UNCHANGED <<status[j], paused[j], progress[j]>>
  BY <1>14 DEF CallCancel
<1>15. ASSUME NEW c \in Client, NEW k \in Job, CallPause(c, k) PROVE UNCHANGED <<status[j], paused[j], progress[j]>>
  BY <1>15 DEF CallPause
<1>16. ASSUME NEW c \in Client, Signal(c) PROVE UNCHANGED <<status[j], paused[j], progress[j]>>
  BY <1>16 DEF Signal
<1>17. ASSUME NEW c \in Client, CancelPendingJob(c) PROVE UNCHANGED <<status[j], paused[j], progress[j]>>
  BY <1>17 DEF CancelPendingJob
<1>18. CASE Boot
  BY <1>18 DEF Boot
<1>19. CASE Shutdown
  BY <1>19 DEF Shutdown
<1>20. CASE Exit
  BY <1>20 DEF Exit
<1>21. CASE UNCHANGED vars
  BY <1>21
<1> QED
  BY <1>1, <1>2, <1>3, <1>4, <1>5, <1>6, <1>7, <1>8, <1>9, <1>10, <1>11,
     <1>12, <1>13, <1>14, <1>15, <1>16, <1>17, <1>18, <1>19, <1>20,
     <1>21
  DEF Next, WorkerStep, Handler, Request, Process

(* A finished job stays as it is.                                          *)
THEOREM FinishedJobsStay == Spec => FinishedStays
<1>1. IInv /\ [Next]_vars =>
        [\A j \in Job : status[j] \in Finished =>
           UNCHANGED <<status[j], paused[j], progress[j]>>]_vars
  BY StepKeepsFinished
<1> QED
  BY <1>1, QueueInvariant, PTL DEF Spec, FinishedStays

(* A pause ends by a Resume or by a Cancel that found the job waiting.     *)
LEMMA StepKeepsPause ==
  ASSUME IInv, [Next]_vars, NEW j \in Job
  PROVE  PauseKept(j)
<1> SUFFICES ASSUME paused[j] PROVE PauseKept(j)
  BY DEF PauseKept
<1> USE DEF IInv, TypeOK, PausedIsPending, RunOwnsRow, RunHasJob, None, rows,
      worker, bounds, vars
<1>0. status[j] = "pending"
  OBVIOUS
<1>1. CASE Requeue
  BY <1>0, <1>1 DEF PauseKept, Requeue, RequeueRunningJobs
<1>2. CASE ClaimNothing
  BY <1>0, <1>2 DEF PauseKept, ClaimNothing
<1>3. CASE Wake
  BY <1>0, <1>3 DEF PauseKept, Wake
<1>4. CASE Stop
  BY <1>0, <1>4 DEF PauseKept, Stop
<1>5. ASSUME NEW k \in Job, Claim(k) PROVE PauseKept(j)
  BY <1>0, <1>5 DEF PauseKept, Claim, Oldest, Runnable
<1>6. CASE RejectUnknown
  BY <1>0, <1>6 DEF PauseKept, RejectUnknown, FinishJob
<1>7. CASE Register
  BY <1>0, <1>7 DEF PauseKept, Register
<1>8. CASE Conclude
  BY <1>0, <1>8 DEF PauseKept, Conclude, FinishJob, MarkJobPaused
<1>9. CASE Deregister
  BY <1>0, <1>9 DEF PauseKept, Deregister
<1>10. CASE Report
  BY <1>0, <1>10 DEF PauseKept, Report
<1>11. ASSUME NEW failed \in BOOLEAN, HandlerReturn(failed) PROVE PauseKept(j)
  BY <1>0, <1>11 DEF PauseKept, HandlerReturn
<1>12. ASSUME NEW k \in Job, Enqueue(k) PROVE PauseKept(j)
  BY <1>0, <1>12 DEF PauseKept, Enqueue
<1>13. ASSUME NEW k \in Job, Resume(k) PROVE PauseKept(j)
  BY <1>0, <1>13 DEF PauseKept, Resume
<1>14. ASSUME NEW c \in Client, NEW k \in Job, CallCancel(c, k) PROVE PauseKept(j)
  BY <1>0, <1>14 DEF PauseKept, CallCancel
<1>15. ASSUME NEW c \in Client, NEW k \in Job, CallPause(c, k) PROVE PauseKept(j)
  BY <1>0, <1>15 DEF PauseKept, CallPause
<1>16. ASSUME NEW c \in Client, Signal(c) PROVE PauseKept(j)
  BY <1>0, <1>16 DEF PauseKept, Signal
<1>17. ASSUME NEW c \in Client, CancelPendingJob(c) PROVE PauseKept(j)
  BY <1>0, <1>17 DEF PauseKept, CancelPendingJob
<1>18. CASE Boot
  BY <1>0, <1>18 DEF PauseKept, Boot
<1>19. CASE Shutdown
  BY <1>0, <1>19 DEF PauseKept, Shutdown
<1>20. CASE Exit
  BY <1>0, <1>20 DEF PauseKept, Exit
<1>21. CASE UNCHANGED vars
  BY <1>0, <1>21 DEF PauseKept
<1> QED
  BY <1>1, <1>2, <1>3, <1>4, <1>5, <1>6, <1>7, <1>8, <1>9, <1>10, <1>11,
     <1>12, <1>13, <1>14, <1>15, <1>16, <1>17, <1>18, <1>19, <1>20,
     <1>21
  DEF Next, WorkerStep, Handler, Request, Process

(* A paused job keeps its progress and waits until it is resumed or        *)
(* cancelled, through any number of restarts.                              *)
THEOREM PausesHold == Spec => PauseHolds
<1>1. IInv /\ [Next]_vars => [\A j \in Job : PauseKept(j)]_vars
  BY StepKeepsPause
<1> QED
  BY <1>1, QueueInvariant, PTL DEF Spec, PauseHolds

-----------------------------------------------------------------------------
(* The queue implements the life cycle: the abstract step every concrete   *)
(* one takes.                                                              *)

\* A new queue is one of the abstract specification.
LEMMA InitImplements == Init => Lifecycle!Init
  BY DEF Init, Lifecycle!Init, Shown, Executing

\* Every step of the queue is one of the life cycle, or changes nothing of it.
LEMMA StepImplements ==
  ASSUME IInv, [Next]_vars
  PROVE  [Lifecycle!Next]_(Lifecycle!jvars)
<1> DEFINE State == [j \in Job |-> Shown(j)]
<1> USE DEF IInv, TypeOK, PausedIsPending, RunOwnsRow, RunHasJob, None,
      Statuses, Finished, rows, worker, bounds, vars
<1>0. 0 \notin Job
  BY DEF Job
<1>a. ASSUME UNCHANGED <<status, paused, Executing>>
      PROVE  UNCHANGED Lifecycle!jvars
  BY <1>a DEF Lifecycle!jvars, Shown
<1>1. CASE Requeue
  <2>1. CASE UNCHANGED rows
    BY <1>a, <1>1, <2>1 DEF Requeue, Executing
  <2>2. CASE RequeueRunningJobs
    <3>1. Executing = None /\ Executing' = None
      BY <1>1 DEF Requeue, Executing
    <3>2. State' = [j \in Job |-> IF State[j] = "running" THEN "pending" ELSE State[j]]
      BY <2>2 DEF RequeueRunningJobs, Shown
    <3>3. Lifecycle!Restart
      BY <3>1, <3>2 DEF Lifecycle!Restart
    <3> QED
      BY <3>3 DEF Lifecycle!Next
  <2> QED
    BY <1>1, <2>1, <2>2 DEF Requeue
<1>2. CASE ClaimNothing
  BY <1>a, <1>2 DEF ClaimNothing, Executing
<1>3. CASE Wake
  BY <1>a, <1>3 DEF Wake, Executing
<1>4. CASE Stop
  BY <1>a, <1>4 DEF Stop, Executing
<1>5. ASSUME NEW k \in Job, Claim(k)
      PROVE  [Lifecycle!Next]_(Lifecycle!jvars)
  <2>1. Executing = None /\ Executing' = k
    BY <1>5 DEF Claim, Executing
  <2>2. State[k] = "pending" /\ State' = [State EXCEPT ![k] = "running"]
    BY <1>5 DEF Claim, Oldest, Runnable, Shown
  <2>3. Lifecycle!Take(k)
    BY <2>1, <2>2 DEF Lifecycle!Take
  <2> QED
    BY <2>3 DEF Lifecycle!Next
<1>6. CASE RejectUnknown
  <2>1. /\ Executing = cur /\ Executing' = None
        /\ cur \in Job /\ State[cur] = "running"
    BY <1>6 DEF RejectUnknown, Executing, Shown, AfterStep
  <2>2. CASE UNCHANGED rows
    <3>1. Lifecycle!Interrupt
      BY <1>0, <2>1, <2>2 DEF Lifecycle!Interrupt, Shown
    <3> QED
      BY <3>1 DEF Lifecycle!Next
  <2>3. ASSUME NEW s \in Finished, FinishJob(cur, s)
        PROVE  Lifecycle!Next
    <3>1. State' = [State EXCEPT ![cur] = s]
      BY <1>6, <2>1, <2>3 DEF RejectUnknown, FinishJob, Shown
    <3>2. Lifecycle!End(cur)
      BY <2>1, <3>1 DEF Lifecycle!End, Lifecycle!Results
    <3> QED
      BY <2>1, <3>2 DEF Lifecycle!Next
  <2> QED
    BY <1>6, <2>2, <2>3 DEF RejectUnknown
<1>7. CASE Register
  BY <1>a, <1>7 DEF Register, Executing
<1>8. CASE Conclude
  <2>1. /\ Executing = cur /\ Executing' = None
        /\ cur \in Job /\ State[cur] = "running"
    BY <1>8 DEF Conclude, Executing, Shown, AfterStep
  <2>2. CASE UNCHANGED rows
    <3>1. Lifecycle!Interrupt
      BY <1>0, <2>1, <2>2 DEF Lifecycle!Interrupt, Shown
    <3> QED
      BY <3>1 DEF Lifecycle!Next
  <2>3. ASSUME NEW s \in Finished, FinishJob(cur, s)
        PROVE  Lifecycle!Next
    <3>1. State' = [State EXCEPT ![cur] = s]
      BY <1>8, <2>1, <2>3 DEF Conclude, FinishJob, Shown
    <3>2. Lifecycle!End(cur)
      BY <2>1, <3>1 DEF Lifecycle!End, Lifecycle!Results
    <3> QED
      BY <2>1, <3>2 DEF Lifecycle!Next
  <2>4. CASE MarkJobPaused(cur)
    <3>1. State' = [State EXCEPT ![cur] = "paused"]
      BY <1>8, <2>1, <2>4 DEF Conclude, MarkJobPaused, Shown
    <3>2. Lifecycle!End(cur)
      BY <2>1, <3>1 DEF Lifecycle!End, Lifecycle!Results
    <3> QED
      BY <2>1, <3>2 DEF Lifecycle!Next
  <2> QED
    BY <1>8, <2>2, <2>3, <2>4 DEF Conclude
<1>9. CASE Deregister
  BY <1>a, <1>9 DEF Deregister, Executing, AfterStep
<1>10. CASE Report
  BY <1>a, <1>10 DEF Report, Executing
<1>11. ASSUME NEW failed \in BOOLEAN, HandlerReturn(failed)
      PROVE  [Lifecycle!Next]_(Lifecycle!jvars)
  BY <1>a, <1>11 DEF HandlerReturn, Executing
<1>12. ASSUME NEW k \in Job, Enqueue(k)
      PROVE  [Lifecycle!Next]_(Lifecycle!jvars)
  <2>1. State[k] = "none" /\ State' = [State EXCEPT ![k] = "pending"]
    BY <1>12 DEF Enqueue, Shown
  <2>2. Lifecycle!Submit(k)
    BY <1>12, <2>1 DEF Enqueue, Executing, Lifecycle!Submit
  <2> QED
    BY <2>2 DEF Lifecycle!Next
<1>13. ASSUME NEW k \in Job, Resume(k)
      PROVE  [Lifecycle!Next]_(Lifecycle!jvars)
  <2>1. State[k] = "paused" /\ State' = [State EXCEPT ![k] = "pending"]
    BY <1>13 DEF Resume, Shown
  <2>2. Lifecycle!Continue(k)
    BY <1>13, <2>1 DEF Resume, Executing, Lifecycle!Continue
  <2> QED
    BY <2>2 DEF Lifecycle!Next
<1>14. ASSUME NEW c \in Client, NEW k \in Job, CallCancel(c, k)
      PROVE  [Lifecycle!Next]_(Lifecycle!jvars)
  BY <1>a, <1>14 DEF CallCancel, Executing
<1>15. ASSUME NEW c \in Client, NEW k \in Job, CallPause(c, k)
      PROVE  [Lifecycle!Next]_(Lifecycle!jvars)
  BY <1>a, <1>15 DEF CallPause, Executing
<1>16. ASSUME NEW c \in Client, Signal(c)
      PROVE  [Lifecycle!Next]_(Lifecycle!jvars)
  BY <1>a, <1>16 DEF Signal, Executing
<1>17. ASSUME NEW c \in Client, CancelPendingJob(c)
      PROVE  [Lifecycle!Next]_(Lifecycle!jvars)
  <2> DEFINE k == call[c].job
  <2>1. k \in Job
    BY <1>17 DEF CancelPendingJob, CallsMatch
  <2>2. CASE status[k] = "pending"
    <3>1. /\ State[k] \in {"pending", "paused"}
          /\ State' = [State EXCEPT ![k] = "cancelled"]
      BY <1>17, <2>1, <2>2 DEF CancelPendingJob, Shown
    <3>2. Lifecycle!Abandon(k)
      BY <1>17, <3>1 DEF CancelPendingJob, Executing, Lifecycle!Abandon
    <3> QED
      BY <2>1, <3>2 DEF Lifecycle!Next
  <2>3. CASE status[k] # "pending"
    BY <1>a, <1>17, <2>3 DEF CancelPendingJob, Executing
  <2> QED
    BY <2>2, <2>3
<1>18. CASE Boot
  BY <1>a, <1>18 DEF Boot, Executing
<1>19. CASE Shutdown
  BY <1>a, <1>19 DEF Shutdown, Executing
<1>20. CASE Exit
  <2>1. Executing' = None /\ UNCHANGED State
    BY <1>20 DEF Exit, Executing, Shown
  <2>2. CASE Executing = None
    BY <1>a, <1>20, <2>1, <2>2 DEF Exit
  <2>3. CASE Executing # None
    <3>1. Lifecycle!Interrupt
      BY <2>1, <2>3 DEF Lifecycle!Interrupt
    <3> QED
      BY <3>1 DEF Lifecycle!Next
  <2> QED
    BY <2>2, <2>3
<1>21. CASE UNCHANGED vars
  BY <1>a, <1>21 DEF Executing
<1> QED
  BY <1>1, <1>2, <1>3, <1>4, <1>5, <1>6, <1>7, <1>8, <1>9, <1>10, <1>11,
     <1>12, <1>13, <1>14, <1>15, <1>16, <1>17, <1>18, <1>19, <1>20,
     <1>21
  DEF Next, WorkerStep, Handler, Request, Process

(* The queue implements the abstract life cycle.                           *)
THEOREM QueueImplementsLifecycle == Spec => ImplementsLifecycle
<1>1. IInv /\ [Next]_vars => [Lifecycle!Next]_(Lifecycle!jvars)
  BY StepImplements
<1> QED
  BY <1>1, InitImplements, QueueInvariant, PTL
  DEF Spec, ImplementsLifecycle, Lifecycle!Spec

-----------------------------------------------------------------------------
(* Downloads.                                                              *)

(* The free space above the reserve is a number of 64 bits with one to     *)
(* spare, for the limited reader.                                          *)
Roomy == \A available \in Free : available < Reserve + MaxInt

(* What a stage or a destination holds is of the only version there was.   *)
OfOneVersion(data) == src = 1 => \A i \in 1..Len(data) : data[i] = 1

StagesFit ==
  /\ ver <= src
  /\ \A j \in Job : StageLen(j) <= Size /\ OfOneVersion(stage[j])

(* Where the handler is, its offset and its response continue what the     *)
(* stage of its job holds.                                                 *)
PlacesFit ==
  /\ hpc # "none" => pc = "handler"
  /\ hpc \notin {"none", "owner"} => cur \in staged
  /\ hpc = "get" => off = StageLen(cur)
  /\ hpc = "discard" => left = Size
  /\ hpc = "space" => off = StageLen(cur) /\ left = Size - off
  /\ hpc = "append" => /\ off <= StageLen(cur) /\ left = Size - StageLen(cur)
                       /\ Roomy => budget < MaxInt
  /\ hpc \in {"commit", "rename"} /\ Roomy => StageLen(cur) = Size

(* A file at the destination that a job put there.                         *)
WholeIfOurs ==
  /\ dest.by \in Job => (Roomy => Len(dest.data) = Size) /\ OfOneVersion(dest.data)
  /\ dest # NoFile => dest.by \in Job \cup {Others}

(* A run that goes on to the end, or has ended well, has published its     *)
(* file.                                                                   *)
EndedWell ==
  /\ hpc = "owner" => pubs[cur] > 0
  /\ pc = "returned" /\ ~err => pubs[cur] > 0 /\ (dest.by = cur => dest.owned)

(* While nobody else was at the destination, it has at most one file, from *)
(* the only job that published.                                            *)
AloneAtTheDestination ==
  others = 0 =>
    /\ hpc = "rename" => dest = NoFile
    /\ \A j \in Job : pubs[j] <= 1 /\ (pubs[j] = 1 => dest # NoFile)

(* The inductive invariant, on top of that of the queue.                   *)
FInv ==
  /\ FetchTypeOK
  /\ StagesFit
  /\ PlacesFit
  /\ WholeIfOurs
  /\ EndedWell
  /\ DoneMeansPublished
  /\ AloneAtTheDestination

-----------------------------------------------------------------------------

(* Every step of a download job is a step of the queue, or none.           *)
LEMMA FetchStepIsQueueStep ==
  ASSUME [FetchNext]_<<vars, fvars>>
  PROVE  [Next]_vars
<1>1. ReturnError => Next
  BY DEF ReturnError, Next, Handler
<1>2. ASSUME FetchStep PROVE Next \/ UNCHANGED vars
  <2>1. CASE EnsureStage
    BY <1>1, <2>1 DEF EnsureStage, queue
  <2>2. CASE Get
    BY <1>1, <2>2 DEF Get, queue
  <2>3. CASE Discard
    BY <1>1, <2>3 DEF Discard, queue
  <2>4. CASE CheckSpace
    BY <1>1, <2>4 DEF CheckSpace, queue
  <2>5. CASE AppendUnit \/ AppendEnd \/ AppendError
    BY <1>1, <2>5 DEF AppendUnit, AppendEnd, AppendError, queue
  <2>6. CASE Commit \/ Rename
    BY <1>1, <2>6 DEF Commit, Rename, queue
  <2>7. CASE SetOwner
    BY <1>1, <2>7 DEF SetOwner, Next, Handler
  <2> QED
    BY <1>2, <2>1, <2>2, <2>3, <2>4, <2>5, <2>6, <2>7 DEF FetchStep
<1>3. ASSUME FetchReport \/ QueueStep \/ FetchExit PROVE Next
  BY <1>3 DEF FetchReport, QueueStep, FetchExit, Next, Handler, Process
<1>4. ASSUME SourceChanges \/ OtherUser PROVE UNCHANGED vars
  BY <1>4 DEF SourceChanges, OtherUser, queue
<1> QED
  BY <1>2, <1>3, <1>4 DEF FetchNext

(* A queue whose handler is a download is a queue: what is proved of the   *)
(* queue holds of its downloads.                                           *)
THEOREM DownloadsAreJobs == FetchSpec => Spec
<1>1. FetchInit => Init
  BY DEF FetchInit
<1> QED
  BY <1>1, FetchStepIsQueueStep, PTL DEF FetchSpec, Spec

-----------------------------------------------------------------------------

(* In a handler the worker has a job, whose row is running; a step of the  *)
(* handler that goes on stays in it.                                       *)
LEMMA InTheHandler ==
  ASSUME IInv, FetchTypeOK, pc = "handler"
  PROVE  cur \in Job /\ status[cur] = "running" /\ stage[cur] \in Seq(Version) /\ StageLen(cur) \in Nat
<1>1. cur \in Job /\ status[cur] = "running"
  BY DEF IInv, TypeOK, RunHasJob, RunOwnsRow
<1>2. stage[cur] \in Seq(Version)
  BY <1>1 DEF FetchTypeOK
<1> QED
  BY <1>1, <1>2 DEF StageLen

(* A stage that is thrown away is empty, the others are as they were.      *)
LEMMA Discarded ==
  ASSUME FetchTypeOK, StagesFit, UNCHANGED src, NEW v \in Version, v <= src, ver' = v,
         \/ UNCHANGED <<staged, stage>>
         \/ DiscardStage(cur)
         \/ UNCHANGED staged /\ stage' = [stage EXCEPT ![cur] = <<>>]
  PROVE  /\ staged' \subseteq Job /\ stage' \in [Job -> Seq(Version)]
         /\ \A j \in Job : stage'[j] # <<>> => j \in staged'
         /\ StagesFit'
<1>1. ASSUME NEW j \in Job
      PROVE  /\ stage[j] \in Seq(Version) /\ stage'[j] \in {stage[j], <<>>}
             /\ stage'[j] # <<>> => j \in staged'
             /\ Len(stage'[j]) <= Size /\ (src = 1 => \A i \in 1..Len(stage'[j]) : stage'[j][i] = 1)
  <2>1. /\ stage[j] \in Seq(Version) /\ Len(stage[j]) <= Size
        /\ src = 1 => \A i \in 1..Len(stage[j]) : stage[j][i] = 1
    BY DEF FetchTypeOK, StagesFit, StageLen, OfOneVersion
  <2>2. /\ stage'[j] \in {stage[j], <<>>}
        /\ stage'[j] # <<>> => j \in staged'
    BY DEF FetchTypeOK, DiscardStage
  <2>3. CASE stage'[j] = stage[j]
    BY <2>1, <2>2, <2>3
  <2>4. CASE stage'[j] = <<>>
    BY <2>1, <2>2, <2>4, FetchAssumption
  <2> QED
    BY <2>2, <2>3, <2>4
<1>2. staged' \subseteq Job /\ stage' \in [Job -> Seq(Version)]
  <2>1. DOMAIN stage' = Job /\ stage' = [j \in DOMAIN stage' |-> stage'[j]]
    BY DEF FetchTypeOK, DiscardStage
  <2>2. \A j \in Job : stage'[j] \in Seq(Version)
    <3>1. <<>> \in Seq(Version)
      OBVIOUS
    <3> QED
      BY <1>1, <3>1
  <2>3. stage' \in [Job -> Seq(Version)]
    BY <2>1, <2>2
  <2>4. staged' \subseteq Job
    BY DEF FetchTypeOK, DiscardStage
  <2> QED
    BY <2>3, <2>4
<1>3. StagesFit'
  BY <1>1 DEF StagesFit, StageLen, OfOneVersion
<1> QED
  BY <1>1, <1>2, <1>3

(* The handler returns an error, with the stage or without it.             *)
LEMMA ErrorStep ==
  ASSUME IInv, IInv', FInv, pc = "handler", ReturnError, fault' \in SUBSET Job,
         UNCHANGED <<staged, stage>> \/ DiscardStage(cur),
         UNCHANGED <<dest, src, pubs, others>>
  PROVE  FInv'
<1>1. UNCHANGED <<status, off, ver, left, budget, cur>> /\ hpc' = "none" /\ err' = TRUE /\ pc' = "returned"
  BY DEF ReturnError, HandlerReturn, rows
<1>2. /\ staged' \subseteq Job /\ stage' \in [Job -> Seq(Version)]
      /\ \A j \in Job : stage'[j] # <<>> => j \in staged'
      /\ StagesFit'
  BY <1>1, Discarded DEF FInv, FetchTypeOK, StagesFit
<1>3. FetchTypeOK'
  BY <1>1, <1>2 DEF IInv, FInv, FetchTypeOK
<1>4. PlacesFit' /\ EndedWell' /\ AloneAtTheDestination'
  BY <1>1 DEF FInv, PlacesFit, EndedWell, AloneAtTheDestination
<1>5. WholeIfOurs' /\ DoneMeansPublished'
  BY <1>1 DEF FInv, WholeIfOurs, OfOneVersion, DoneMeansPublished
<1> QED
  BY <1>2, <1>3, <1>4, <1>5 DEF FInv

(* The handler goes on, and no file has moved.                             *)
LEMMA GoesOn ==
  ASSUME IInv, IInv', FInv, pc = "handler", UNCHANGED queue, UNCHANGED <<dest, src, pubs, others, fault>>,
         hpc' \in {"get", "discard", "space", "append", "commit", "rename"},
         staged' \subseteq Job, stage' \in [Job -> Seq(Version)],
         \A j \in Job : stage'[j] # <<>> => j \in staged',
         off' \in 0..Size, ver' \in Version, left' \in 0..Size, budget' \in 0..MaxInt,
         StagesFit', PlacesFit',
         hpc' = "rename" => dest = NoFile
  PROVE  FInv'
<1>1. UNCHANGED <<pc, cur, err, status>>
  BY DEF queue, vars, rows, worker
<1>2. FetchTypeOK'
  BY DEF IInv, FInv, FetchTypeOK
<1>3. WholeIfOurs' /\ DoneMeansPublished'
  BY <1>1 DEF FInv, WholeIfOurs, OfOneVersion, DoneMeansPublished
<1>4. EndedWell' /\ AloneAtTheDestination'
  BY <1>1 DEF FInv, EndedWell, AloneAtTheDestination
<1> QED
  BY <1>2, <1>3, <1>4 DEF FInv

(* The steps of the handler up to the copy.                                *)
LEMMA BeforeTheCopy ==
  ASSUME IInv, IInv', FInv, EnsureStage \/ Get \/ Discard \/ CheckSpace
  PROVE  FInv'
<1>0. /\ pc = "handler" /\ cur \in Job /\ FetchTypeOK
      /\ stage[cur] \in Seq(Version) /\ StageLen(cur) \in Nat /\ StageLen(cur) <= Size
      /\ Size \in Nat \ {0}
  <2>1. pc = "handler" /\ FetchTypeOK
    BY DEF EnsureStage, Get, Discard, CheckSpace, In, FInv
  <2> QED
    BY <2>1, InTheHandler, FetchAssumption DEF FInv, StagesFit
<1>1. ASSUME ReturnError, fault' \in SUBSET Job, UNCHANGED <<staged, stage>> \/ DiscardStage(cur),
             UNCHANGED <<dest, src, pubs, others>>
      PROVE  FInv'
  BY <1>0, <1>1, ErrorStep
<1>2. fault \in SUBSET Job /\ (Blamed(cur) => fault' \in SUBSET Job)
  BY <1>0 DEF FetchTypeOK, Blamed
<1>3. ASSUME UNCHANGED queue PROVE UNCHANGED <<cur, pc>>
  BY <1>3 DEF queue, vars, worker
<1>4. CASE EnsureStage
  <2>1. CASE ReturnError
    BY <1>1, <1>2, <1>4, <2>1 DEF EnsureStage, ReturnError
  <2>2. CASE ~ReturnError
    <3>1. /\ staged' = staged \cup {cur} /\ off' = StageLen(cur) /\ hpc' = "get"
          /\ UNCHANGED <<queue, ver, left, budget, fault, stage, dest, src, pubs, others>>
      BY <1>4, <2>2 DEF EnsureStage
    <3>2. StagesFit' /\ PlacesFit'
      BY <1>0, <1>3, <3>1 DEF FInv, StagesFit, OfOneVersion, PlacesFit, StageLen
    <3>3. off' \in 0..Size
      BY <1>0, <3>1
    <3> QED
      BY <1>0, <3>1, <3>2, <3>3, GoesOn DEF FetchTypeOK
  <2> QED
    BY <2>1, <2>2
<1>5. CASE Get
  <2>1. CASE ReturnError
    BY <1>1, <1>2, <1>5, <2>1 DEF Get, disk
  <2>2. CASE ~ReturnError
    <3>1. /\ hpc = "get" /\ off = StageLen(cur) /\ cur \in staged /\ ver' = src
          /\ \/ hpc' = "space" /\ left' = Size - off
             \/ hpc' = "discard" /\ left' = Size
          /\ UNCHANGED <<queue, off, budget, fault, staged, stage, dest, src, pubs, others>>
      BY <1>5, <2>2 DEF Get, In, disk, FInv, PlacesFit
    <3>2. StagesFit' /\ PlacesFit'
      BY <1>0, <1>3, <3>1 DEF FInv, FetchTypeOK, Version, StagesFit, OfOneVersion, PlacesFit, StageLen
    <3>3. left' \in 0..Size
      BY <1>0, <3>1
    <3> QED
      BY <1>0, <3>1, <3>2, <3>3, GoesOn DEF FetchTypeOK
  <2> QED
    BY <2>1, <2>2
<1>6. CASE Discard
  <2>1. CASE ReturnError
    BY <1>1, <1>2, <1>6, <2>1 DEF Discard, ReturnError
  <2>2. CASE ~ReturnError
    <3>1. /\ hpc = "discard" /\ left = Size /\ cur \in staged
          /\ stage' = [stage EXCEPT ![cur] = <<>>] /\ off' = 0 /\ hpc' = "space"
          /\ UNCHANGED <<queue, staged, ver, left, budget, fault, dest, src, pubs, others>>
      BY <1>6, <2>2 DEF Discard, In, FInv, PlacesFit
    <3>2. /\ stage' \in [Job -> Seq(Version)] /\ StagesFit'
          /\ \A j \in Job : stage'[j] # <<>> => j \in staged'
      BY <1>0, <3>1, Discarded DEF FInv, FetchTypeOK, StagesFit
    <3>3. stage'[cur] = <<>>
      BY <1>0, <3>1 DEF FetchTypeOK
    <3>4. PlacesFit'
      BY <1>0, <1>3, <3>1, <3>3 DEF PlacesFit, StageLen
    <3> QED
      BY <1>0, <3>1, <3>2, <3>4, GoesOn DEF FetchTypeOK
  <2> QED
    BY <2>1, <2>2
<1>7. CASE CheckSpace
  <2>1. CASE ReturnError
    BY <1>1, <1>2, <1>7, <2>1 DEF CheckSpace, disk
  <2>2. CASE ~ReturnError
    <3>1. /\ hpc = "space" /\ off = StageLen(cur) /\ left = Size - off /\ cur \in staged
          /\ \E available \in Free : budget' = Budget(available)
          /\ hpc' = "append"
          /\ UNCHANGED <<queue, off, ver, left, fault, staged, stage, dest, src, pubs, others>>
      BY <1>7, <2>2 DEF CheckSpace, In, disk, FInv, PlacesFit
    <3>2. budget' \in 0..MaxInt /\ (Roomy => budget' < MaxInt)
      BY <3>1, FetchAssumption DEF Budget, Roomy
    <3>3. StagesFit' /\ PlacesFit'
      BY <1>0, <1>3, <3>1, <3>2 DEF FInv, StagesFit, OfOneVersion, PlacesFit, StageLen
    <3> QED
      BY <1>0, <3>1, <3>2, <3>3, GoesOn DEF FetchTypeOK
  <2> QED
    BY <2>1, <2>2
<1> QED
  BY <1>4, <1>5, <1>6, <1>7

(* The copy, up to the commit.                                             *)
LEMMA DuringTheCopy ==
  ASSUME IInv, IInv', FInv, AppendUnit \/ AppendEnd \/ AppendError
  PROVE  FInv'
<1>0. /\ pc = "handler" /\ cur \in Job /\ FetchTypeOK /\ hpc = "append" /\ cur \in staged
      /\ stage[cur] \in Seq(Version) /\ StageLen(cur) \in Nat /\ StageLen(cur) <= Size
      /\ Size \in Nat \ {0} /\ left = Size - StageLen(cur) /\ off <= StageLen(cur) /\ (Roomy => budget < MaxInt)
  <2>1. pc = "handler" /\ FetchTypeOK /\ hpc = "append"
    BY DEF AppendUnit, AppendEnd, AppendError, In, FInv
  <2> QED
    BY <2>1, InTheHandler, FetchAssumption DEF FInv, StagesFit, PlacesFit
<1>1. ASSUME ReturnError, fault' \in SUBSET Job, UNCHANGED <<staged, stage>> \/ DiscardStage(cur),
             UNCHANGED <<dest, src, pubs, others>>
      PROVE  FInv'
  BY <1>0, <1>1, ErrorStep
<1>2. fault \in SUBSET Job /\ (Blamed(cur) => fault' \in SUBSET Job)
  BY <1>0 DEF FetchTypeOK, Blamed
<1>3. ASSUME UNCHANGED queue PROVE UNCHANGED <<cur, pc>>
  BY <1>3 DEF queue, vars, worker
<1>4. CASE AppendUnit
  <2>1. /\ left > 0 /\ stage' = [stage EXCEPT ![cur] = Append(@, ver)] /\ left' = left - 1
        /\ UNCHANGED <<queue, staged, dest, src, hpc, off, ver, budget, fault, pubs, others>>
    BY <1>4 DEF AppendUnit, hist
  <2>2. ver \in Version /\ stage \in [Job -> Seq(Version)] /\ off \in Nat
    BY <1>0 DEF FetchTypeOK
  <2>3. /\ stage'[cur] = Append(stage[cur], ver) /\ stage'[cur] \in Seq(Version)
        /\ Len(stage'[cur]) = StageLen(cur) + 1
        /\ \A j \in Job : j # cur => stage'[j] = stage[j]
    BY <1>0, <2>1, <2>2 DEF StageLen
  <2>4. stage' \in [Job -> Seq(Version)]
    BY <1>0, <2>1, <2>2, <2>3
  <2>5. \A j \in Job : stage'[j] # <<>> => j \in staged'
    BY <1>0, <2>1, <2>3 DEF FetchTypeOK
  <2>6. StagesFit'
    <3>1. ASSUME src = 1, NEW i \in 1..Len(stage'[cur]) PROVE stage'[cur][i] = 1
      <4>1. CASE i <= StageLen(cur)
        <5>1. stage'[cur][i] = stage[cur][i] /\ i \in 1..Len(stage[cur])
          BY <1>0, <2>2, <2>3, <4>1 DEF StageLen
        <5> QED
          BY <1>0, <3>1, <5>1 DEF FInv, StagesFit, OfOneVersion
      <4>2. CASE i = StageLen(cur) + 1
        <5>1. stage'[cur][i] = ver
          BY <1>0, <2>2, <2>3, <4>2 DEF StageLen
        <5>2. ver = 1
          BY <2>2, <3>1, FetchAssumption DEF FInv, StagesFit, Version
        <5> QED
          BY <5>1, <5>2
      <4> QED
        BY <1>0, <2>3, <4>1, <4>2
    <3>2. Len(stage'[cur]) <= Size
      BY <1>0, <2>1, <2>3
    <3> QED
      BY <1>0, <2>1, <2>3, <3>1, <3>2 DEF FInv, StagesFit, OfOneVersion, StageLen
  <2>7. PlacesFit'
    BY <1>0, <1>3, <2>1, <2>2, <2>3 DEF PlacesFit, StageLen
  <2>8. left' \in 0..Size
    BY <1>0, <2>1
  <2> QED
    BY <1>0, <2>1, <2>4, <2>5, <2>6, <2>7, <2>8, GoesOn DEF FetchTypeOK
<1>5. CASE AppendEnd
  <2>1. CASE ReturnError
    BY <1>1, <1>2, <1>5, <2>1 DEF AppendEnd, ReturnError, disk
  <2>2. CASE ~ReturnError
    <3>1. /\ left = 0 \/ Read >= Limit(budget)
          /\ ~(Read > budget) /\ hpc' = "commit"
          /\ UNCHANGED <<queue, staged, stage, off, ver, left, budget, fault, dest, src, pubs, others>>
      BY <1>5, <2>2 DEF AppendEnd, disk
    <3>2. Roomy => left = 0
      <4>1. Read \in Nat /\ off \in Nat /\ budget \in 0..MaxInt
        BY <1>0 DEF Read, FetchTypeOK
      <4>2. budget < MaxInt => Limit(budget) = budget + 1
        BY <4>1, FetchAssumption DEF Limit, Wrap
      <4> QED
        BY <1>0, <3>1, <4>1, <4>2, FetchAssumption
    <3>3. StagesFit' /\ PlacesFit'
      BY <1>0, <1>3, <3>1, <3>2 DEF FInv, StagesFit, OfOneVersion, PlacesFit, StageLen
    <3> QED
      BY <1>0, <3>1, <3>3, GoesOn DEF FetchTypeOK
  <2> QED
    BY <2>1, <2>2
<1>6. CASE AppendError
  BY <1>1, <1>2, <1>6 DEF AppendError
<1> QED
  BY <1>4, <1>5, <1>6

(* The look at the destination, the rename and the owner.                  *)
LEMMA Publishing ==
  ASSUME IInv, IInv', FInv, Commit \/ Rename \/ SetOwner
  PROVE  FInv'
<1>0. /\ pc = "handler" /\ cur \in Job /\ FetchTypeOK /\ status[cur] = "running"
      /\ stage[cur] \in Seq(Version) /\ StageLen(cur) \in Nat
  <2>1. pc = "handler" /\ FetchTypeOK
    BY DEF Commit, Rename, SetOwner, In, FInv
  <2> QED
    BY <2>1, InTheHandler
<1>1. ASSUME ReturnError, fault' \in SUBSET Job, UNCHANGED <<staged, stage>> \/ DiscardStage(cur),
             UNCHANGED <<dest, src, pubs, others>>
      PROVE  FInv'
  BY <1>0, <1>1, ErrorStep
<1>2. fault \in SUBSET Job /\ (Blamed(cur) => fault' \in SUBSET Job)
  BY <1>0 DEF FetchTypeOK, Blamed
<1>3. ASSUME UNCHANGED queue PROVE UNCHANGED <<cur, pc, err, status>>
  BY <1>3 DEF queue, vars, worker, rows
<1>4. CASE Commit
  <2>1. CASE ReturnError
    <3>1. fault' \in SUBSET Job
      BY <1>0, <1>2, <1>4, <2>1 DEF Commit, ReturnError
    <3> QED
      BY <1>1, <1>4, <2>1, <3>1 DEF Commit, disk
  <2>2. CASE ~ReturnError
    <3>1. /\ dest = NoFile /\ hpc = "commit" /\ hpc' = "rename"
          /\ UNCHANGED <<queue, staged, stage, off, ver, left, budget, fault, dest, src, pubs, others>>
      BY <1>4, <2>2 DEF Commit, In, disk
    <3>2. StagesFit' /\ PlacesFit'
      BY <1>0, <1>3, <3>1 DEF FInv, StagesFit, OfOneVersion, PlacesFit, StageLen
    <3> QED
      BY <1>0, <3>1, <3>2, GoesOn DEF FetchTypeOK
  <2> QED
    BY <2>1, <2>2
<1>5. CASE Rename
  <2>1. /\ hpc = "rename" /\ hpc' = "owner"
        /\ dest' = [by |-> cur, data |-> stage[cur], owned |-> FALSE]
        /\ DiscardStage(cur)
        /\ pubs' = [pubs EXCEPT ![cur] = @ + 1]
        /\ UNCHANGED <<queue, src, off, ver, left, budget, fault, others>>
    BY <1>5 DEF Rename, In
  <2>2. /\ dest'.by = cur /\ dest'.data = stage[cur] /\ dest' # NoFile
        /\ dest' \in [by: Job \cup {Others, NoFile.by}, data: Seq(Version), owned: BOOLEAN]
    BY <1>0, <2>1 DEF NoFile, Job
  <2>3. pubs' \in [Job -> Nat] /\ pubs'[cur] = pubs[cur] + 1 /\ \A j \in Job : j # cur => pubs'[j] = pubs[j]
    BY <1>0, <2>1 DEF FetchTypeOK
  <2>4. /\ staged' \subseteq Job /\ stage' \in [Job -> Seq(Version)]
        /\ \A j \in Job : stage'[j] # <<>> => j \in staged'
        /\ StagesFit'
    BY <1>0, <2>1, Discarded DEF FInv, FetchTypeOK, StagesFit
  <2>5. FetchTypeOK'
    BY <2>1, <2>2, <2>3, <2>4 DEF IInv, FInv, FetchTypeOK
  <2>6. PlacesFit'
    BY <1>0, <1>3, <2>1 DEF PlacesFit
  <2>7. WholeIfOurs'
    BY <1>0, <2>1, <2>2 DEF FInv, PlacesFit, StagesFit, StageLen, WholeIfOurs, OfOneVersion
  <2>8. EndedWell'
    BY <1>0, <1>3, <2>1, <2>3 DEF EndedWell, FetchTypeOK
  <2>9. DoneMeansPublished'
    BY <1>0, <1>3, <2>1, <2>2, <2>3 DEF FInv, DoneMeansPublished, FetchTypeOK
  <2>10. AloneAtTheDestination'
    <3>1. others = 0 => dest = NoFile /\ \A j \in Job : pubs[j] \in Nat /\ pubs[j] <= 1 /\ pubs[j] # 1
      BY <2>1 DEF FInv, AloneAtTheDestination, FetchTypeOK
    <3>2. others = 0 => \A j \in Job : pubs[j] = 0
      BY <3>1
    <3> QED
      BY <1>0, <2>1, <2>2, <2>3, <3>2 DEF AloneAtTheDestination
  <2> QED
    BY <2>4, <2>5, <2>6, <2>7, <2>8, <2>9, <2>10 DEF FInv
<1>6. CASE SetOwner
  <2>1. CASE ReturnError
    <3>1. UNCHANGED dest /\ Blamed(cur)
      BY <1>6, <2>1 DEF SetOwner, ReturnError, HandlerReturn
    <3> QED
      BY <1>1, <1>2, <1>6, <2>1, <3>1 DEF SetOwner
  <2>2. CASE ~ReturnError
    <3>1. /\ hpc = "owner" /\ hpc' = "none" /\ HandlerReturn(FALSE)
          /\ dest' = IF dest = NoFile THEN dest ELSE [dest EXCEPT !.owned = TRUE]
          /\ UNCHANGED <<off, ver, left, budget, fault, staged, stage, src, pubs, others>>
      BY <1>6, <2>2 DEF SetOwner, In
    <3>2. UNCHANGED <<cur, status>> /\ pc' = "returned" /\ ~err'
      BY <3>1 DEF HandlerReturn, rows
    <3>3. /\ dest' \in [by: Job \cup {Others, NoFile.by}, data: Seq(Version), owned: BOOLEAN]
          /\ dest'.by = dest.by /\ dest'.data = dest.data /\ (dest # NoFile => dest'.owned)
          /\ dest' = NoFile <=> dest = NoFile
          /\ dest.owned => dest'.owned
      BY <1>0, <3>1 DEF FetchTypeOK, NoFile
    <3>4. cur # NoFile.by
      BY <1>0 DEF NoFile, Job
    <3>5. FetchTypeOK'
      BY <3>1, <3>3 DEF IInv, FInv, FetchTypeOK
    <3>6. StagesFit' /\ PlacesFit'
      BY <3>1, <3>2 DEF FInv, StagesFit, OfOneVersion, PlacesFit, StageLen
    <3>7. WholeIfOurs' /\ AloneAtTheDestination'
      BY <3>1, <3>3 DEF FInv, WholeIfOurs, OfOneVersion, AloneAtTheDestination
    <3>8. EndedWell' /\ DoneMeansPublished'
      BY <3>1, <3>2, <3>3, <3>4 DEF FInv, EndedWell, DoneMeansPublished
    <3> QED
      BY <3>5, <3>6, <3>7, <3>8 DEF FInv
  <2> QED
    BY <2>1, <2>2
<1> QED
  BY <1>4, <1>5, <1>6

-----------------------------------------------------------------------------

(* What the queue does around a handler: a run in its handler stays there  *)
(* until the handler returns, a run that has returned keeps its error, and *)
(* only a run that returned none ends done.                                *)
LEMMA AroundTheHandler ==
  ASSUME IInv, WorkerStep \/ Request \/ Boot \/ Shutdown
  PROVE  /\ pc = "handler" => pc' = "handler" /\ cur' = cur
         /\ pc' = "returned" => pc = "returned" /\ UNCHANGED <<cur, err>>
         /\ \A j \in Job : status'[j] = "done" =>
              status[j] = "done" \/ (pc = "returned" /\ ~err /\ j = cur)
<1> DEFINE Goal ==
      /\ pc = "handler" => pc' = "handler" /\ cur' = cur
      /\ pc' = "returned" => pc = "returned" /\ UNCHANGED <<cur, err>>
      /\ \A j \in Job : status'[j] = "done" =>
           status[j] = "done" \/ (pc = "returned" /\ ~err /\ j = cur)
<1> USE DEF rows, worker, AfterStep, FinishJob
<1>0. status \in [Job -> Statuses]
  BY DEF IInv, TypeOK
<1>1. CASE Requeue \/ ClaimNothing \/ Wake \/ Stop
  BY <1>0, <1>1 DEF Requeue, RequeueRunningJobs, ClaimNothing, Wake, Stop
<1>2. ASSUME NEW j \in Job, Claim(j) PROVE Goal
  BY <1>0, <1>2 DEF Claim
<1>3. CASE RejectUnknown \/ Register \/ Deregister
  BY <1>0, <1>3 DEF RejectUnknown, Register, Deregister
<1>4. CASE Conclude
  BY <1>0, <1>4 DEF Conclude, MarkJobPaused
<1>5. ASSUME NEW j \in Job, Enqueue(j) \/ Resume(j) PROVE Goal
  BY <1>0, <1>5 DEF Enqueue, Resume
<1>6. ASSUME NEW c \in Client, NEW j \in Job, CallCancel(c, j) \/ CallPause(c, j) PROVE Goal
  BY <1>6 DEF CallCancel, CallPause
<1>7. ASSUME NEW c \in Client, Signal(c) \/ CancelPendingJob(c) PROVE Goal
  BY <1>0, <1>7 DEF Signal, CancelPendingJob
<1>8. CASE Boot \/ Shutdown
  BY <1>8 DEF Boot, Shutdown
<1> QED
  BY <1>1, <1>2, <1>3, <1>4, <1>5, <1>6, <1>7, <1>8 DEF WorkerStep, Request

(* The steps that are not of the handler.                                  *)
LEMMA Surroundings ==
  ASSUME IInv, IInv', FInv, FetchReport \/ QueueStep \/ FetchExit \/ UNCHANGED <<vars, fvars>>
  PROVE  FInv'
<1>1. /\ UNCHANGED <<staged, stage, dest, src, off, ver, left, budget, pubs, fault, others>>
      /\ hpc' \in {hpc, "none"}
  BY DEF FetchReport, QueueStep, FetchExit, fvars, disk, local, hist
<1>2. /\ hpc' # "none" => hpc' = hpc /\ (pc = "handler" => pc' = "handler" /\ cur' = cur)
      /\ pc' = "returned" => pc = "returned" /\ UNCHANGED <<cur, err>>
      /\ \A j \in Job : status'[j] = "done" =>
           status[j] = "done" \/ (pc = "returned" /\ ~err /\ j = cur)
  <2>1. CASE FetchReport
    BY <1>1, <2>1 DEF FetchReport, Report, worker
  <2>2. CASE QueueStep
    BY <1>1, <2>2, AroundTheHandler DEF QueueStep
  <2>3. CASE FetchExit
    BY <2>3 DEF FetchExit, Exit, rows
  <2>4. CASE UNCHANGED <<vars, fvars>>
    BY <1>1, <2>4 DEF vars, rows, worker
  <2> QED
    BY <2>1, <2>2, <2>3, <2>4
<1>3. FetchTypeOK'
  BY <1>1 DEF IInv, FInv, FetchTypeOK
<1>4. StagesFit' /\ WholeIfOurs'
  BY <1>1 DEF FInv, StagesFit, StageLen, OfOneVersion, WholeIfOurs
<1>5. PlacesFit'
  BY <1>1, <1>2 DEF FInv, PlacesFit, StageLen
<1>6. EndedWell' /\ DoneMeansPublished'
  BY <1>1, <1>2 DEF FInv, PlacesFit, EndedWell, DoneMeansPublished
<1>7. AloneAtTheDestination'
  BY <1>1, <1>2 DEF FInv, AloneAtTheDestination
<1> QED
  BY <1>3, <1>4, <1>5, <1>6, <1>7 DEF FInv

(* The source and the other users.                                         *)
LEMMA TheWorldOutside ==
  ASSUME IInv, IInv', FInv, SourceChanges \/ OtherUser
  PROVE  FInv'
<1>1. UNCHANGED <<pc, cur, err, status, staged, stage, hpc, off, ver, left, budget, pubs, fault>>
  BY DEF SourceChanges, OtherUser, queue, vars, rows, worker, disk, local, hist
<1>2. CASE SourceChanges
  <2>1. src \in Version /\ src < MaxVersion /\ src' = src + 1 /\ UNCHANGED <<dest, others>>
    BY <1>2 DEF SourceChanges, disk, FInv, FetchTypeOK
  <2>2. src' \in Version /\ src' # 1 /\ src <= src'
    BY <2>1, FetchAssumption DEF Version
  <2>3. FetchTypeOK'
    BY <1>1, <2>1, <2>2 DEF IInv, FInv, FetchTypeOK
  <2>4. StagesFit'
    <3>1. ver \in Int /\ src \in Int /\ ver <= src
      BY <2>1 DEF FInv, FetchTypeOK, StagesFit, Version
    <3>2. ver' <= src'
      BY <1>1, <2>1, <3>1
    <3> QED
      BY <1>1, <2>2, <3>2 DEF FInv, StagesFit, StageLen, OfOneVersion
  <2>5. WholeIfOurs' /\ PlacesFit' /\ EndedWell' /\ DoneMeansPublished' /\ AloneAtTheDestination'
    BY <1>1, <2>1, <2>2
    DEF FInv, WholeIfOurs, OfOneVersion, PlacesFit, StageLen, EndedWell, DoneMeansPublished, AloneAtTheDestination
  <2> QED
    BY <2>3, <2>4, <2>5 DEF FInv
<1>3. CASE OtherUser
  <2>1. /\ others \in Nat /\ others' = others + 1 /\ others < MaxOthers
        /\ dest' \in {NoFile, [by |-> Others, data |-> <<1>>, owned |-> TRUE]} /\ UNCHANGED src
    BY <1>3 DEF OtherUser, FInv, FetchTypeOK
  <2>2. /\ dest' \in [by: Job \cup {Others, NoFile.by}, data: Seq(Version), owned: BOOLEAN]
        /\ dest'.by \notin Job
        /\ dest' # NoFile => dest'.by = Others
    <3>1. 1 \in Version
      BY FetchAssumption DEF Version
    <3>2. <<1>> \in Seq(Version) /\ <<>> \in Seq(Version)
      BY <3>1
    <3>3. CASE dest' = NoFile
      BY <3>2, <3>3 DEF NoFile, Job
    <3>4. CASE dest' = [by |-> Others, data |-> <<1>>, owned |-> TRUE]
      BY <3>2, <3>4 DEF NoFile, Others, Job
    <3> QED
      BY <2>1, <3>3, <3>4
  <2>3. FetchTypeOK'
    BY <1>1, <2>1, <2>2, FetchAssumption DEF IInv, FInv, FetchTypeOK
  <2>4. StagesFit' /\ PlacesFit' /\ AloneAtTheDestination'
    BY <1>1, <2>1 DEF FInv, StagesFit, PlacesFit, StageLen, OfOneVersion, AloneAtTheDestination
  <2>5. WholeIfOurs' /\ DoneMeansPublished'
    BY <1>1, <2>2 DEF FInv, WholeIfOurs, DoneMeansPublished
  <2>6. pc = "returned" => cur \in Job
    BY DEF IInv, TypeOK, RunHasJob
  <2>7. EndedWell'
    BY <1>1, <2>2, <2>6 DEF FInv, EndedWell
  <2> QED
    BY <2>3, <2>4, <2>5, <2>7 DEF FInv
<1> QED
  BY <1>2, <1>3

-----------------------------------------------------------------------------

(* Nothing is staged or published when the program is installed.           *)
LEMMA InitFInv == FetchInit => FInv
<1> SUFFICES ASSUME FetchInit PROVE FInv
  OBVIOUS
<1>1. TypeOK /\ pc = "boot" /\ \A j \in Job : status[j] = "none"
  BY InitIInv DEF FetchInit, IInv, Init
<1>2. FetchTypeOK
  BY <1>1, FetchAssumption DEF FetchInit, FetchTypeOK, Version, NoFile
<1>3. StagesFit /\ PlacesFit
  BY FetchAssumption DEF FetchInit, StagesFit, StageLen, OfOneVersion, PlacesFit
<1>4. WholeIfOurs /\ EndedWell /\ DoneMeansPublished /\ AloneAtTheDestination
  BY <1>1 DEF FetchInit, WholeIfOurs, EndedWell, DoneMeansPublished, AloneAtTheDestination, NoFile, Job
<1> QED
  BY <1>2, <1>3, <1>4 DEF FInv

(* Every step of a download job preserves the inductive invariant.         *)
LEMMA NextFInv == IInv /\ FInv /\ [FetchNext]_<<vars, fvars>> => FInv'
<1> SUFFICES ASSUME IInv, FInv, [FetchNext]_<<vars, fvars>> PROVE FInv'
  OBVIOUS
<1>1. IInv'
  BY FetchStepIsQueueStep, NextIInv
<1>2. FetchStep => FInv'
  BY <1>1, BeforeTheCopy, DuringTheCopy, Publishing DEF FetchStep
<1> QED
  BY <1>1, <1>2, Surroundings, TheWorldOutside DEF FetchNext

(* The invariant of a download job, over that of the queue.                *)
THEOREM DownloadInvariant == FetchSpec => [](IInv /\ FInv)
  BY InitFInv, NextFInv, DownloadsAreJobs, QueueInvariant, PTL DEF FetchSpec

(* Every variable of a download keeps its type.                            *)
THEOREM DownloadTypes == FetchSpec => []FetchTypeOK
  BY DownloadInvariant, PTL DEF FInv

(* What a download publishes is a whole file, of one version if there was  *)
(* only one, unless the disk has the whole range of a 64-bit number free.  *)
THEOREM DownloadsAreWhole ==
  ASSUME Roomy
  PROVE  FetchSpec => []PublishedIsWhole
<1>1. FInv => PublishedIsWhole
  BY DEF FInv, WholeIfOurs, OfOneVersion, PublishedIsWhole
<1> QED
  BY <1>1, DownloadInvariant, PTL

(* A job that ends done has published its file and recorded its owner.     *)
THEOREM DoneJobsHavePublished == FetchSpec => []DoneMeansPublished
  BY DownloadInvariant, PTL DEF FInv

(* Though a job may run many times, it publishes once as long as nobody    *)
(* takes the file away.                                                    *)
THEOREM DownloadsPublishOnce == FetchSpec => []PublishedOnce
<1>1. FInv => PublishedOnce
  BY DEF FInv, AloneAtTheDestination, PublishedOnce, FetchTypeOK
<1> QED
  BY <1>1, DownloadInvariant, PTL

(* The steps that throw staged bytes away.                                 *)
LEMMA StepKeepsBytes ==
  ASSUME IInv, FInv, [FetchNext]_<<vars, fvars>>, NEW j \in Job, StageLen(j) > 0, stage'[j] = <<>>
  PROVE  cause = "cancelled" \/ hpc = "discard" \/ dest'.by = j
<1>1. stage \in [Job -> Seq(Version)] /\ stage[j] # <<>>
  BY DEF FInv, FetchTypeOK, StageLen
<1>2. UNCHANGED stage => FALSE
  BY <1>1
<1>3. CASE EnsureStage \/ Get \/ CheckSpace \/ AppendEnd \/ Commit \/ SetOwner
  BY <1>2, <1>3 DEF EnsureStage, Get, CheckSpace, AppendEnd, Commit, SetOwner, disk
<1>4. CASE Discard
  BY <1>4 DEF Discard, In
<1>5. CASE AppendUnit
  <2>1. stage' = [stage EXCEPT ![cur] = Append(@, ver)]
    BY <1>5 DEF AppendUnit
  <2>2. ver \in Version
    BY DEF FInv, FetchTypeOK
  <2>3. j = cur
    BY <1>1, <2>1
  <2>4. stage'[j] = Append(stage[j], ver)
    BY <1>1, <2>1, <2>3
  <2>5. Len(Append(stage[j], ver)) = Len(stage[j]) + 1 /\ stage[j] \in Seq(Version)
    BY <1>1, <2>2
  <2> QED
    BY <2>4, <2>5
<1>6. CASE AppendError
  BY <1>2, <1>6 DEF AppendError
<1>7. CASE Rename
  <2>1. dest'.by = cur /\ stage' = [stage EXCEPT ![cur] = <<>>]
    BY <1>7 DEF Rename, DiscardStage
  <2> QED
    BY <1>1, <2>1
<1>8. CASE FetchReport \/ QueueStep \/ FetchExit \/ SourceChanges \/ OtherUser \/ UNCHANGED <<vars, fvars>>
  BY <1>2, <1>8 DEF FetchReport, QueueStep, FetchExit, SourceChanges, OtherUser, fvars, disk
<1> QED
  BY <1>3, <1>4, <1>5, <1>6, <1>7, <1>8 DEF FetchNext, FetchStep

(* A pause, a shutdown, a crash and a failure keep the staged bytes.       *)
THEOREM StagedBytesAreKept == FetchSpec => BytesAreKept
<1>1. IInv /\ FInv /\ [FetchNext]_<<vars, fvars>> =>
        [\A j \in Job : StageLen(j) > 0 /\ stage'[j] = <<>> =>
           \/ cause = "cancelled"
           \/ hpc = "discard"
           \/ dest'.by = j]_<<vars, fvars>>
  BY StepKeepsBytes
<1> QED
  BY <1>1, DownloadInvariant, PTL DEF FetchSpec, BytesAreKept
=============================================================================
