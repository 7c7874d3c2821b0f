---------------------------- MODULE JobLifecycle ----------------------------
(***************************************************************************)
(* What the job queue promises its callers, with no worker goroutine, map  *)
(* of cancel functions or table: jobs are executed one at a time, only the *)
(* job being executed gets a result or is paused, a job that is waiting    *)
(* can be cancelled, and an interrupted job waits again after a restart.   *)
(* The states are the words toJob shows (internal/job/service.go).         *)
(***************************************************************************)
CONSTANTS Job, None

Results == {"done", "failed", "cancelled"}
States  == {"none", "pending", "running", "paused"} \cup Results

VARIABLES
  state,      (* state[j]: the state the interface shows.                  *)
  executing   (* The job being executed, or None.                          *)

jvars == <<state, executing>>

Init ==
  /\ state = [j \in Job |-> "none"]
  /\ executing = None

Submit(j) ==
  /\ state[j] = "none"
  /\ state' = [state EXCEPT ![j] = "pending"]
  /\ UNCHANGED executing

Take(j) ==
  /\ executing = None
  /\ state[j] = "pending"
  /\ state' = [state EXCEPT ![j] = "running"]
  /\ executing' = j

(* The execution ends with a result, or with a pause.                      *)
End(j) ==
  /\ executing = j
  /\ state[j] = "running"
  /\ \E s \in Results \cup {"paused"} : state' = [state EXCEPT ![j] = s]
  /\ executing' = None

(* The execution is cut short: the job is still shown as running.          *)
Interrupt ==
  /\ executing # None
  /\ executing' = None
  /\ UNCHANGED state

Restart ==
  /\ executing = None
  /\ state' = [j \in Job |-> IF state[j] = "running" THEN "pending" ELSE state[j]]
  /\ UNCHANGED executing

Continue(j) ==
  /\ state[j] = "paused"
  /\ state' = [state EXCEPT ![j] = "pending"]
  /\ UNCHANGED executing

Abandon(j) ==
  /\ state[j] \in {"pending", "paused"}
  /\ state' = [state EXCEPT ![j] = "cancelled"]
  /\ UNCHANGED executing

Next ==
  \/ \E j \in Job : Submit(j) \/ Take(j) \/ End(j) \/ Continue(j) \/ Abandon(j)
  \/ Interrupt
  \/ Restart

Spec == Init /\ [][Next]_jvars

=============================================================================
