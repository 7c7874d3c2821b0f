------------------------------ MODULE JobQueue ------------------------------
(***************************************************************************)
(* The background job queue (internal/job/service.go, and the statements   *)
(* of internal/db/queries/jobs.sql it is made of): one table of jobs, one  *)
(* worker goroutine, and request goroutines that enqueue, cancel, pause    *)
(* and resume jobs while the worker runs them.                             *)
(*                                                                         *)
(* Each SQL statement is one step, because the writer is one connection.   *)
(* What the code does between two statements, or between a statement and   *)
(* a look at the map of running jobs, is interleaved with everything else. *)
(* The process may be killed at any point, or asked to stop, which cancels *)
(* the worker's context; every statement issued with a cancelled context   *)
(* fails, and a bounded number of the worker's statements fail besides.    *)
(***************************************************************************)
EXTENDS Naturals

CONSTANTS
  NJobs,      (* How many jobs may be enqueued: ids are 1..NJobs.          *)
  Unknown,    (* The jobs whose type no handler is registered for.         *)
  Client,     (* Request goroutines.                                       *)
  MaxCalls,   (* Bound: calls of Cancel, Pause and Resume.                 *)
  MaxStops,   (* Bound: ends of the process, by a crash or a shutdown.     *)
  MaxFails    (* Bound: failed statements of a live worker.                *)

ASSUME ConstantsAssumption ==
  /\ NJobs \in Nat \ {0}
  /\ MaxCalls \in Nat
  /\ MaxStops \in Nat
  /\ MaxFails \in Nat

Job  == 1..NJobs
None == 0

Finished  == {"done", "failed", "cancelled"}
Statuses  == {"none", "pending", "running"} \cup Finished
Fractions == {"zero", "part", "full"}
Causes    == {"none", "paused", "cancelled", "shutdown"}
Steps     == {"down", "boot", "idle", "sleep", "claimed", "handler",
              "returned", "written", "stopped"}
Facts     == {"cancel", "pause", "direct"}

VARIABLES
  (* The jobs table. *)
  status,     (* status[j]: the status column, "none" before the insert.   *)
  paused,     (* paused[j]: the paused column.                             *)
  progress,   (* progress[j]: the progress column.                         *)
  (* The process. *)
  pc,         (* Where the worker goroutine is.                            *)
  cur,        (* The job step() has claimed, None outside of it.           *)
  err,        (* Whether the handler returned an error.                    *)
  running,    (* The keys of Service.running.                              *)
  cause,      (* context.Cause of the context of the run.                  *)
  ctxDone,    (* Whether the worker's own context is cancelled.            *)
  call,       (* call[c]: what the request goroutine c is in the middle of.*)
  (* Observation: what callers asked for and were answered. *)
  seen,       (* seen[j]: "cancel" and "pause" once asked of a running or  *)
              (* waiting job, "direct" once a Cancel returned by way of    *)
              (* the table.                                                *)
  (* Bounds. *)
  calls, stops, fails

rows    == <<status, paused, progress>>
worker  == <<pc, cur, err, running, cause, ctxDone>>
bounds  == <<calls, stops, fails>>
vars    == <<rows, worker, call, seen, bounds>>

NoCall == [op |-> "idle", job |-> None, live |-> FALSE]
Calls  == [op: {"idle", "cancel", "pause", "row"}, job: Job \cup {None},
           live: BOOLEAN]

TypeOK ==
  /\ status \in [Job -> Statuses]
  /\ paused \in [Job -> BOOLEAN]
  /\ progress \in [Job -> Fractions]
  /\ pc \in Steps
  /\ cur \in Job \cup {None}
  /\ err \in BOOLEAN
  /\ running \in SUBSET Job
  /\ cause \in Causes
  /\ ctxDone \in BOOLEAN
  /\ call \in [Client -> Calls]
  /\ seen \in [Job -> SUBSET Facts]
  /\ calls \in Nat /\ stops \in Nat /\ fails \in Nat

Init ==
  /\ status = [j \in Job |-> "none"]
  /\ paused = [j \in Job |-> FALSE]
  /\ progress = [j \in Job |-> "zero"]
  /\ pc = "boot"
  /\ cur = None
  /\ err = FALSE
  /\ running = {}
  /\ cause = "none"
  /\ ctxDone = FALSE
  /\ call = [c \in Client |-> NoCall]
  /\ seen = [j \in Job |-> {}]
  /\ calls = 0 /\ stops = 0 /\ fails = 0

-----------------------------------------------------------------------------
(* The worker's statements. *)

(* A statement the worker issues goes through, or it fails: always once    *)
(* the worker's context is cancelled, now and then otherwise.              *)
WriteOK    == ~ctxDone /\ UNCHANGED fails
WriteFails == \/ ctxDone /\ UNCHANGED fails
              \/ ~ctxDone /\ fails < MaxFails /\ fails' = fails + 1

(* finish: FinishJob, which overwrites the row whatever its status is.     *)
FinishJob(j, s) ==
  /\ status' = [status EXCEPT ![j] = s]
  /\ progress' = [progress EXCEPT ![j] = IF s = "done" THEN "full" ELSE "zero"]
  /\ UNCHANGED paused

(* Mutant: the pause kept as a status of its own, as the interface has it. *)
MarkJobPausedAsStatus(j) ==
  /\ status' = [status EXCEPT ![j] = "paused"]
  /\ UNCHANGED <<paused, progress>>

(* MarkJobPaused: only a running row; progress is kept.                    *)
MarkJobPaused(j) ==
  /\ IF status[j] = "running"
       THEN /\ status' = [status EXCEPT ![j] = "pending"]
            /\ paused' = [paused EXCEPT ![j] = TRUE]
       ELSE UNCHANGED <<status, paused>>
  /\ UNCHANGED progress

(* Mutant: a start that leaves interrupted jobs as they are.               *)
RequeueNothing == UNCHANGED rows

(* Mutant: a requeue that resets the pause flags as well.                  *)
RequeueResetsPauses ==
  /\ status' = [j \in Job |->
                  IF status[j] = "running" THEN "pending" ELSE status[j]]
  /\ paused' = [j \in Job |-> FALSE]
  /\ UNCHANGED progress

(* RequeueRunningJobs: every running row is pending again, its pause flag  *)
(* and its progress untouched.                                             *)
RequeueRunningJobs ==
  /\ status' = [j \in Job |->
                  IF status[j] = "running" THEN "pending" ELSE status[j]]
  /\ UNCHANGED <<paused, progress>>

(* What ClaimNextJob selects from, and the oldest of it.                   *)
Runnable(j) == status[j] = "pending" /\ ~paused[j]
Oldest(j)   == Runnable(j) /\ \A k \in Job : Runnable(k) => j <= k

-----------------------------------------------------------------------------
(* The worker: Run and step. *)

Boot ==
  /\ pc = "down"
  /\ pc' = "boot"
  /\ UNCHANGED <<rows, cur, err, running, cause, ctxDone, call, seen, bounds>>

Requeue ==
  /\ pc = "boot"
  /\ pc' = "idle"
  /\ \/ WriteOK /\ RequeueRunningJobs
     \/ WriteFails /\ UNCHANGED rows
  /\ UNCHANGED <<cur, err, running, cause, ctxDone, call, seen, calls, stops>>

Claim(j) ==
  /\ pc = "idle"
  /\ Oldest(j)
  /\ WriteOK
  /\ status' = [status EXCEPT ![j] = "running"]
  /\ cur' = j
  /\ pc' = "claimed"
  /\ UNCHANGED <<paused, progress, err, running, cause, ctxDone, call, seen,
                 calls, stops>>

(* ClaimNextJob returns no row, or fails: Run goes to its select.          *)
ClaimNothing ==
  /\ pc = "idle"
  /\ \/ WriteOK /\ \A j \in Job : ~Runnable(j)
     \/ WriteFails
  /\ pc' = "sleep"
  /\ UNCHANGED <<rows, cur, err, running, cause, ctxDone, call, seen, calls,
                 stops>>

(* The ticker fires or a nudge arrives.                                    *)
Wake ==
  /\ pc = "sleep"
  /\ pc' = "idle"
  /\ UNCHANGED <<rows, cur, err, running, cause, ctxDone, call, seen, bounds>>

Stop ==
  /\ pc = "sleep"
  /\ ctxDone
  /\ pc' = "stopped"
  /\ UNCHANGED <<rows, cur, err, running, cause, ctxDone, call, seen, bounds>>

(* After a step that found work, Run returns if its context is cancelled   *)
(* and takes the next job otherwise.                                       *)
AfterStep == IF ctxDone THEN "stopped" ELSE "idle"

RejectUnknown ==
  /\ pc = "claimed"
  /\ cur \in Unknown
  /\ \/ WriteOK /\ FinishJob(cur, "failed")
     \/ WriteFails /\ UNCHANGED rows
  /\ cur' = None
  /\ pc' = AfterStep
  /\ UNCHANGED <<err, running, cause, ctxDone, call, seen, calls, stops>>

(* The job context is derived and registered; the derived context of a     *)
(* cancelled one is born cancelled.                                        *)
Register ==
  /\ pc = "claimed"
  /\ cur \notin Unknown
  /\ running' = running \cup {cur}
  /\ cause' = IF ctxDone THEN "shutdown" ELSE "none"
  /\ pc' = "handler"
  /\ UNCHANGED <<rows, cur, err, ctxDone, call, seen, bounds>>

(* The reporter of the run: called from inside the handler, throttled.     *)
Report ==
  /\ pc = "handler"
  /\ ~ctxDone
  /\ \E f \in {"part", "full"} : progress' = [progress EXCEPT ![cur] = f]
  /\ UNCHANGED <<status, paused, worker, call, seen, bounds>>

(* The handler returns. It may fail on its own or because its context was  *)
(* cancelled, and it may also succeed although it was.                     *)
HandlerReturn(failed) ==
  /\ pc = "handler"
  /\ err' = failed
  /\ pc' = "returned"
  /\ UNCHANGED <<rows, cur, running, cause, ctxDone, call, seen, bounds>>

(* Mutant: any error that is not a pause recorded as a cancellation.       *)
ConcludeErrorIsCancel ==
  /\ pc = "returned"
  /\ pc' = "written"
  /\ \/ WriteOK /\ ~err /\ FinishJob(cur, "done")
     \/ WriteOK /\ err /\ cause = "paused" /\ MarkJobPaused(cur)
     \/ WriteOK /\ err /\ cause # "paused" /\ FinishJob(cur, "cancelled")
     \/ WriteFails /\ UNCHANGED rows
  /\ UNCHANGED <<cur, err, running, cause, ctxDone, call, seen, calls, stops>>

(* The switch on the cause of the context, in the order of its cases.      *)
Conclude ==
  /\ pc = "returned"
  /\ pc' = "written"
  /\ \/ WriteOK /\ ~err /\ FinishJob(cur, "done")
     \/ WriteOK /\ err /\ cause = "paused" /\ MarkJobPaused(cur)
     \/ WriteOK /\ err /\ cause = "cancelled" /\ FinishJob(cur, "cancelled")
     \/ WriteOK /\ err /\ cause \notin {"paused", "cancelled"}
                /\ FinishJob(cur, "failed")
     \/ WriteFails /\ UNCHANGED rows
  /\ UNCHANGED <<cur, err, running, cause, ctxDone, call, seen, calls, stops>>

(* The deferred deregister: the run's context is released, so a cancel     *)
(* function a caller still holds no longer does anything.                  *)
Deregister ==
  /\ pc = "written"
  /\ running' = running \ {cur}
  /\ call' = [c \in Client |-> [call[c] EXCEPT !.live = FALSE]]
  /\ cur' = None
  /\ cause' = "none"
  /\ err' = FALSE
  /\ pc' = AfterStep
  /\ UNCHANGED <<rows, ctxDone, seen, bounds>>

-----------------------------------------------------------------------------
(* The callers. *)

Up == pc # "down"

Enqueue(j) ==
  /\ Up
  /\ status[j] = "none"
  /\ \A k \in Job : k < j => status[k] # "none"
  /\ status' = [status EXCEPT ![j] = "pending"]
  /\ UNCHANGED <<paused, progress, worker, call, seen, bounds>>

Counted == calls < MaxCalls /\ calls' = calls + 1 /\ UNCHANGED <<stops, fails>>

(* Cancel, up to the unlock: the caller leaves with the cancel function of *)
(* the run, or knows that there is none.                                   *)
CallCancel(c, j) ==
  /\ Up
  /\ call[c].op = "idle"
  /\ status[j] # "none"
  /\ call' = [call EXCEPT ![c] =
                IF j \in running
                  THEN [op |-> "cancel", job |-> j, live |-> TRUE]
                  ELSE [op |-> "row", job |-> j, live |-> FALSE]]
  /\ seen' = [seen EXCEPT ![j] = @ \cup {"cancel"}]
  /\ Counted
  /\ UNCHANGED <<rows, worker>>

(* Pause, up to the unlock. A job that is not running is refused with      *)
(* ErrNotRunning, which changes nothing.                                   *)
CallPause(c, j) ==
  /\ Up
  /\ call[c].op = "idle"
  /\ j \in running
  /\ call' = [call EXCEPT ![c] = [op |-> "pause", job |-> j, live |-> TRUE]]
  /\ seen' = [seen EXCEPT ![j] = @ \cup {"pause"}]
  /\ Counted
  /\ UNCHANGED <<rows, worker>>

(* The call of the cancel function: the first cause stays.                 *)
Signal(c) ==
  /\ call[c].op \in {"cancel", "pause"}
  /\ cause' = IF call[c].live /\ cause = "none"
                THEN IF call[c].op = "cancel" THEN "cancelled" ELSE "paused"
                ELSE cause
  /\ call' = [call EXCEPT ![c] = NoCall]
  /\ UNCHANGED <<rows, pc, cur, err, running, ctxDone, seen, bounds>>

(* Mutant: the statement without its WHERE status = 'pending'.             *)
CancelAnyJob(c) ==
  /\ call[c].op = "row"
  /\ LET j == call[c].job IN
       /\ status' = [status EXCEPT ![j] = "cancelled"]
       /\ paused' = [paused EXCEPT ![j] = FALSE]
       /\ seen' = [seen EXCEPT ![j] = @ \cup {"direct"}]
  /\ call' = [call EXCEPT ![c] = NoCall]
  /\ UNCHANGED <<progress, worker, bounds>>

(* CancelPendingJob, on a row that may have changed since the look.        *)
CancelPendingJob(c) ==
  /\ call[c].op = "row"
  /\ LET j == call[c].job IN
       /\ IF status[j] = "pending"
            THEN /\ status' = [status EXCEPT ![j] = "cancelled"]
                 /\ paused' = [paused EXCEPT ![j] = FALSE]
            ELSE UNCHANGED <<status, paused>>
       /\ seen' = [seen EXCEPT ![j] = @ \cup {"direct"}]
  /\ call' = [call EXCEPT ![c] = NoCall]
  /\ UNCHANGED <<progress, worker, bounds>>

Resume(j) ==
  /\ Up
  /\ paused[j]
  /\ paused' = [paused EXCEPT ![j] = FALSE]
  /\ Counted
  /\ UNCHANGED <<status, progress, worker, call, seen>>

-----------------------------------------------------------------------------
(* The process. *)

(* serve has returned: stopWorker cancels the worker's context, and with   *)
(* it the context of the run, unless that one already has a cause.         *)
Shutdown ==
  /\ Up
  /\ ~ctxDone
  /\ stops < MaxStops
  /\ ctxDone' = TRUE
  /\ cause' = IF running # {} /\ cause = "none" THEN "shutdown" ELSE cause
  /\ UNCHANGED <<rows, pc, cur, err, running, call, seen, bounds>>

(* The process is gone: killed, or main returned, which does not wait for  *)
(* the worker. Only the table survives.                                    *)
Exit ==
  /\ Up
  /\ stops < MaxStops
  /\ stops' = stops + 1
  /\ pc' = "down"
  /\ cur' = None
  /\ err' = FALSE
  /\ running' = {}
  /\ cause' = "none"
  /\ ctxDone' = FALSE
  /\ call' = [c \in Client |-> NoCall]
  /\ UNCHANGED <<rows, seen, calls, fails>>

-----------------------------------------------------------------------------

WorkerStep ==
  \/ Requeue \/ ClaimNothing \/ Wake \/ Stop
  \/ \E j \in Job : Claim(j)
  \/ RejectUnknown \/ Register \/ Conclude \/ Deregister

Handler == Report \/ \E failed \in BOOLEAN : HandlerReturn(failed)

Request ==
  \/ \E j \in Job : Enqueue(j) \/ Resume(j)
  \/ \E c \in Client, j \in Job : CallCancel(c, j) \/ CallPause(c, j)
  \/ \E c \in Client : Signal(c) \/ CancelPendingJob(c)

Process == Boot \/ Shutdown \/ Exit

Next == WorkerStep \/ Handler \/ Request \/ Process

Spec == Init /\ [][Next]_vars

(* The goroutine of the worker is scheduled; a handler comes back, since   *)
(* its input is finite and a silent download is cut off; the supervisor    *)
(* starts the process again and a process asked to stop ends; a request    *)
(* that has looked at the map goes on to its second half.                  *)
Fairness ==
  /\ WF_vars(WorkerStep)
  /\ WF_vars(\E failed \in BOOLEAN : HandlerReturn(failed))
  /\ WF_vars(Boot)
  /\ WF_vars(ctxDone /\ Exit)
  /\ \A c \in Client : WF_vars(Signal(c)) /\ WF_vars(CancelPendingJob(c))

FairSpec == Spec /\ Fairness

-----------------------------------------------------------------------------
(* Properties. *)

(* A paused job is a pending one (what toJob and ClaimNextJob rely on):    *)
(* no crash, cancel or late pause leaves the flag on a row the worker      *)
(* holds or on a finished one.                                             *)
PausedIsPending == \A j \in Job : paused[j] => status[j] = "pending"

(* While step() holds a job nobody else writes its status, so FinishJob,   *)
(* which has no guard, and MarkJobPaused, which has one, act on the row    *)
(* they claimed.                                                           *)
RunOwnsRow == pc \in {"claimed", "handler", "returned"} => status[cur] = "running"

(* The map of running jobs is the job whose handler the worker is in, from *)
(* the registration to the deferred removal, and nothing else.             *)
MapIsTheRun ==
  running = IF pc \in {"handler", "returned", "written"} THEN {cur} ELSE {}

(* Once the worker has started and while no statement of it has failed, a  *)
(* running row is the row of the job it holds: none is left behind, where  *)
(* neither Cancel nor the worker would reach it.                           *)
NoRunningRowLeftBehind ==
  \/ pc \in {"down", "boot"} \/ ctxDone \/ fails > 0
  \/ \A j \in Job : status[j] = "running" => j = cur

(* A job is cancelled or paused only when somebody asked for it: a         *)
(* shutdown, a crash or a failure is never recorded as either.             *)
OutcomeWasAsked ==
  \A j \in Job : /\ status[j] = "cancelled" => "cancel" \in seen[j]
                 /\ paused[j] => "pause" \in seen[j]

(* A finished job stays as it is: no requeue, no late report, no cancel or *)
(* pause that arrives after it, no second run.                             *)
FinishedStays ==
  [][\A j \in Job : status[j] \in Finished =>
       UNCHANGED <<status[j], paused[j], progress[j]>>]_vars

(* A paused job keeps its progress and waits through restarts, until a     *)
(* Resume or a Cancel takes the pause away.                                *)
PauseKept(j) ==
  paused[j] => \/ paused'[j] /\ UNCHANGED <<status[j], progress[j]>>
               \/ Resume(j)
               \/ \E c \in Client : call[c].job = j /\ CancelPendingJob(c)

PauseHolds == [][\A j \in Job : PauseKept(j)]_vars

(* Every job enqueued and not paused ends: jobs interrupted by a stop are  *)
(* taken up again, and a cancelled one unwinds, unless a statement of the  *)
(* worker has failed (see NoRunningRowLeftBehind).                         *)
EveryJobEnds ==
  \A j \in Job :
    (status[j] \in {"pending", "running"} /\ ~paused[j])
      ~> (status[j] \in Finished \/ paused[j] \/ fails > 0)

(* service.go, on Cancel: "a pending or paused one is marked cancelled     *)
(* directly". A Cancel that returned by way of the table leaves a finished *)
(* job.                                                                    *)
DirectCancelFinishes ==
  \A j \in Job : "direct" \in seen[j] => status[j] \in Finished

-----------------------------------------------------------------------------
(* What the interface sees of a job (toJob), and the job being executed.   *)
Shown(j)  == IF paused[j] /\ status[j] = "pending" THEN "paused" ELSE status[j]
Executing == IF pc \in {"claimed", "handler", "returned"} THEN cur ELSE None

Lifecycle == INSTANCE JobLifecycle
               WITH state <- [j \in Job |-> Shown(j)], executing <- Executing

(* The queue implements the life cycle: one job at a time, a result only   *)
(* for the job being executed, whatever the callers, the crashes and the   *)
(* failed statements do in between.                                        *)
ImplementsLifecycle == Lifecycle!Spec

=============================================================================
