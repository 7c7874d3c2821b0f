------------------------------ MODULE FetchJob ------------------------------
(***************************************************************************)
(* The download job (fetchJobHandler in cmd/zefile/main.go) inside the job *)
(* queue: JobQueue with its handler replaced by the steps of a resumable   *)
(* download into a staged file named after the job. Staged files           *)
(* (internal/storage/staging.go) and the destination survive the process,  *)
(* what the handler knows does not.                                        *)
(*                                                                         *)
(* A file is a sequence of units, each marked with the version of the      *)
(* source it was read from. All jobs of an instance download to one name.  *)
(***************************************************************************)
EXTENDS JobQueue, Integers, Sequences

CONSTANTS
  Size,        (* Units in every version of the source.                    *)
  MaxVersion,  (* Bound: versions of the source; 1 if it never changes.    *)
  Ranges,      (* Whether the source may honour a range request.           *)
  Free,        (* What Space may report as available.                      *)
  Reserve,     (* The configured reserve.                                  *)
  MaxInt,      (* math.MaxInt64.                                           *)
  MaxOthers,   (* Bound: steps of other users at the destination.          *)
  Faulty       (* Whether network, permission and storage errors occur.    *)

ASSUME FetchAssumption ==
  /\ Size \in Nat \ {0}
  /\ MaxVersion \in Nat \ {0}
  /\ Ranges \in BOOLEAN /\ Faulty \in BOOLEAN
  /\ Free \subseteq Nat
  /\ Reserve \in Nat
  /\ MaxInt \in Nat /\ Size < MaxInt
  /\ MaxOthers \in Nat

Version == 1..MaxVersion
Others  == 0     (* Who else may put a file at the destination.            *)
NoFile  == [by |-> -1, data |-> <<>>, owned |-> FALSE]

VARIABLES
  staged,    (* The jobs that have a staged file.                          *)
  stage,     (* stage[j]: its units, none without a file.                  *)
  dest,      (* The destination: who published it, its units, and whether  *)
             (* its owner is recorded; or NoFile.                          *)
  src,       (* The version the source has now.                            *)
  hpc,       (* Where the handler is, "none" before its first step.        *)
  off,       (* Its offset.                                                *)
  ver,       (* The version its response carries.                          *)
  left,      (* The units its response has not delivered yet.              *)
  budget,    (* Its budget, as an int64.                                   *)
  pubs,      (* Observation: how often job j has published a file.         *)
  fault,     (* Observation: jobs that met an error not of their making.   *)
  others     (* Steps of other users so far.                               *)

disk   == <<staged, stage, dest>>
local  == <<hpc, off, ver, left, budget>>
hist   == <<pubs, fault>>
fvars  == <<disk, src, local, hist, others>>

(* The queue's variables that no step of the handler but its return and    *)
(* its reports changes.                                                    *)
queue  == vars

FetchTypeOK ==
  /\ TypeOK
  /\ staged \subseteq Job
  /\ stage \in [Job -> Seq(Version)]
  /\ \A j \in Job : stage[j] # <<>> => j \in staged
  /\ dest \in [by: Job \cup {Others, NoFile.by}, data: Seq(Version),
              owned: BOOLEAN]
  /\ src \in Version
  /\ hpc \in {"none", "get", "discard", "space", "append", "commit", "rename",
              "owner"}
  /\ off \in 0..Size /\ ver \in Version /\ left \in 0..Size
  /\ budget \in 0..MaxInt
  /\ pubs \in [Job -> Nat]
  /\ fault \subseteq Job
  /\ others \in 0..MaxOthers

FetchInit ==
  /\ Init
  /\ staged = {}
  /\ stage = [j \in Job |-> <<>>]
  /\ dest = NoFile
  /\ src = 1
  /\ hpc = "none"
  /\ off = 0
  /\ ver = 1 /\ left = 0
  /\ budget = 0
  /\ pubs = [j \in Job |-> 0]
  /\ fault = {}
  /\ others = 0

-----------------------------------------------------------------------------
(* Arithmetic of the space bound, in 64-bit integers.                      *)

Wrap(n) == IF n > MaxInt THEN n - 2 * (MaxInt + 1) ELSE n

Budget(available) ==
  IF available <= Reserve THEN 0
  ELSE IF available - Reserve < MaxInt THEN available - Reserve
  ELSE MaxInt

(* The bound of the limited reader.                                        *)
Limit(b) == Wrap(b + 1)

-----------------------------------------------------------------------------
(* The handler. *)

In(step) == pc = "handler" /\ hpc = step

StageLen(j) == Len(stage[j])

DiscardStage(j) ==
  /\ staged' = staged \ {j}
  /\ stage' = [stage EXCEPT ![j] = <<>>]

(* The handler returns an error. With no cause on its context the error is *)
(* one it met.                                                             *)
ReturnError ==
  /\ HandlerReturn(TRUE)
  /\ hpc' = "none"
  /\ UNCHANGED <<off, ver, left, budget>>

Errors == cause # "none" \/ Faulty

Blamed(j) == fault' = IF cause = "none" THEN fault \cup {j} ELSE fault

(* LoadSubject, ParsePath, EnsureStage.                                    *)
EnsureStage ==
  /\ In("none")
  /\ \/ /\ staged' = staged \cup {cur}
        /\ off' = StageLen(cur)
        /\ hpc' = "get"
        /\ UNCHANGED <<queue, ver, left, budget, fault>>
     \/ Errors /\ Blamed(cur) /\ ReturnError /\ UNCHANGED staged
  /\ UNCHANGED <<stage, dest, src, pubs, others>>

(* Get: with an offset, a source that honours ranges answers 206, or 416   *)
(* when nothing is left after the offset; one that does not sends the      *)
(* whole file.                                                             *)
Get ==
  /\ In("get")
  /\ \/ /\ cause = "none"
        /\ off = 0 \/ (Ranges /\ off < Size)
        /\ hpc' = "space" /\ ver' = src /\ left' = Size - off
        /\ UNCHANGED <<queue, off, budget, fault>>
     \/ /\ cause = "none"
        /\ off > 0
        /\ hpc' = "discard" /\ ver' = src /\ left' = Size
        /\ UNCHANGED <<queue, off, budget, fault>>
     \/ /\ cause = "none"
        /\ Ranges /\ off >= Size
        /\ ReturnError
        /\ UNCHANGED fault
     \/ Errors /\ Blamed(cur) /\ ReturnError
  /\ UNCHANGED <<disk, src, pubs, others>>

(* Mutant: the whole file appended to what is staged already.              *)
DiscardNothing ==
  /\ In("discard")
  /\ hpc' = "space"
  /\ UNCHANGED <<queue, disk, src, off, ver, left, budget, hist, others>>

(* The source ignored the range: DiscardStage, then EnsureStage again.     *)
Discard ==
  /\ In("discard")
  /\ \/ /\ stage' = [stage EXCEPT ![cur] = <<>>]
        /\ off' = 0
        /\ hpc' = "space"
        /\ UNCHANGED <<queue, staged, ver, left, budget, fault>>
     \/ /\ Faulty
        /\ Blamed(cur) /\ ReturnError
        /\ DiscardStage(cur) \/ UNCHANGED <<staged, stage>>
  /\ UNCHANGED <<dest, src, pubs, others>>

(* Child, Space and the refusal of a declared size that does not fit.      *)
CheckSpace ==
  /\ In("space")
  /\ \/ \E available \in Free, declared \in BOOLEAN :
          LET b == Budget(available) IN
            IF declared /\ Size > Wrap(off + b)
              THEN Blamed(cur) /\ ReturnError
              ELSE /\ budget' = b
                   /\ hpc' = "append"
                   /\ UNCHANGED <<queue, off, ver, left, fault>>
     \/ Faulty /\ Blamed(cur) /\ ReturnError
  /\ UNCHANGED <<disk, src, pubs, others>>

(* What this run has read so far.                                          *)
Read == StageLen(cur) - off

(* AppendToStage: one unit of the response lands in the stage.             *)
AppendUnit ==
  /\ In("append")
  /\ cause = "none"
  /\ left > 0
  /\ Read < Limit(budget)
  /\ stage' = [stage EXCEPT ![cur] = Append(@, ver)]
  /\ left' = left - 1
  /\ UNCHANGED <<queue, staged, dest, src, hpc, off, ver, budget, hist, others>>

(* The reader is at its end, and the stage is synced: a download that read *)
(* more than its budget is refused, with what it staged left behind.       *)
AppendEnd ==
  /\ In("append")
  /\ cause = "none"
  /\ left = 0 \/ Read >= Limit(budget)
  /\ IF Read > budget
       THEN Blamed(cur) /\ ReturnError
       ELSE hpc' = "commit" /\ UNCHANGED <<queue, off, ver, left, budget, fault>>
  /\ UNCHANGED <<disk, src, pubs, others>>

(* Mutant: the stage discarded whenever the context was cancelled.         *)
AppendErrorDiscards ==
  /\ In("append")
  /\ Errors
  /\ Blamed(cur)
  /\ ReturnError
  /\ IF cause # "none" THEN DiscardStage(cur) ELSE UNCHANGED <<staged, stage>>
  /\ UNCHANGED <<dest, src, pubs, others>>

(* The copy breaks off: the context is cancelled, or the source stalls or  *)
(* fails. Only a cancellation discards the stage.                          *)
AppendError ==
  /\ In("append")
  /\ Errors
  /\ Blamed(cur)
  /\ ReturnError
  /\ IF cause = "cancelled" THEN DiscardStage(cur)
                           ELSE UNCHANGED <<staged, stage>>
  /\ UNCHANGED <<dest, src, pubs, others>>

(* Mutant: a destination that exists taken for the file of an earlier run. *)
CommitFindsOwnFile ==
  /\ In("commit")
  /\ \/ /\ dest # NoFile
        /\ HandlerReturn(FALSE)
        /\ hpc' = "none"
        /\ UNCHANGED <<off, ver, left, budget, fault>>
     \/ dest = NoFile /\ hpc' = "rename"
        /\ UNCHANGED <<queue, off, ver, left, budget, fault>>
     \/ Faulty /\ Blamed(cur) /\ ReturnError
  /\ UNCHANGED <<disk, src, pubs, others>>

(* Mutant: no look at the destination before the rename.                   *)
CommitBlindly ==
  /\ In("commit")
  /\ hpc' = "rename"
  /\ UNCHANGED <<queue, disk, src, off, ver, left, budget, hist, others>>

(* CommitStage, up to the look at the destination.                         *)
Commit ==
  /\ In("commit")
  /\ \/ /\ dest # NoFile
        /\ fault' = IF dest.by = Others THEN fault \cup {cur} ELSE fault
        /\ ReturnError
     \/ dest = NoFile /\ hpc' = "rename"
        /\ UNCHANGED <<queue, off, ver, left, budget, fault>>
     \/ Faulty /\ Blamed(cur) /\ ReturnError
  /\ UNCHANGED <<disk, src, pubs, others>>

(* CommitStage, the rename.                                                *)
Rename ==
  /\ In("rename")
  /\ dest' = [by |-> cur, data |-> stage[cur], owned |-> FALSE]
  /\ DiscardStage(cur)   (* The file is no longer in the staging area.     *)
  /\ pubs' = [pubs EXCEPT ![cur] = @ + 1]
  /\ hpc' = "owner"
  /\ UNCHANGED <<queue, src, off, ver, left, budget, fault, others>>

(* SetOwner, with the context of the job.                                  *)
SetOwner ==
  /\ In("owner")
  /\ \/ /\ cause = "none"
        /\ dest' = IF dest = NoFile THEN dest ELSE [dest EXCEPT !.owned = TRUE]
        /\ HandlerReturn(FALSE)
        /\ hpc' = "none"
        /\ UNCHANGED <<off, ver, left, budget, fault>>
     \/ Errors /\ Blamed(cur) /\ ReturnError /\ UNCHANGED dest
  /\ UNCHANGED <<staged, stage, src, pubs, others>>

-----------------------------------------------------------------------------
(* The surroundings. *)

(* The source gets a new version.                                          *)
SourceChanges ==
  /\ src < MaxVersion
  /\ src' = src + 1
  /\ UNCHANGED <<queue, disk, local, hist, others>>

(* Another user puts a file at the destination, or takes away what is      *)
(* there.                                                                  *)
OtherUser ==
  /\ others < MaxOthers
  /\ others' = others + 1
  /\ \/ /\ dest = NoFile
        /\ dest' = [by |-> Others, data |-> <<1>>, owned |-> TRUE]
     \/ dest # NoFile /\ dest' = NoFile
  /\ UNCHANGED <<queue, staged, stage, src, local, hist>>

FetchStep ==
  \/ EnsureStage \/ Get \/ Discard \/ CheckSpace
  \/ AppendUnit \/ AppendEnd \/ AppendError
  \/ Commit \/ Rename \/ SetOwner

FetchReport == In("append") /\ Report /\ UNCHANGED fvars

QueueStep == (WorkerStep \/ Request \/ Boot \/ Shutdown) /\ UNCHANGED fvars

FetchExit ==
  /\ Exit
  /\ hpc' = "none"
  /\ UNCHANGED <<disk, src, off, ver, left, budget, hist, others>>

FetchNext ==
  \/ FetchStep \/ FetchReport \/ QueueStep \/ FetchExit
  \/ SourceChanges \/ OtherUser

FetchSpec == FetchInit /\ [][FetchNext]_<<vars, fvars>>

(* As in JobQueue; a step of the handler comes to its end, since a request *)
(* has timeouts and a silent response is cut off.                          *)
FetchFairness ==
  /\ WF_<<vars, fvars>>(FetchStep)
  /\ WF_<<vars, fvars>>(QueueStep)
  /\ WF_<<vars, fvars>>(ctxDone /\ FetchExit)

FetchFairSpec == FetchSpec /\ FetchFairness

-----------------------------------------------------------------------------
(* Properties. *)

(* What a download publishes is a whole file: no run starts behind or      *)
(* before what the stage holds, whatever was interrupted where. Units of   *)
(* two versions are mixed only if the source has changed.                  *)
PublishedIsWhole ==
  dest # NoFile /\ dest.by # Others =>
    /\ Len(dest.data) = Size
    /\ src = 1 => \A i \in 1..Size : dest.data[i] = 1

(* A job that ends done has published its file and recorded its owner.     *)
DoneMeansPublished ==
  \A j \in Job : status[j] = "done" =>
    /\ pubs[j] > 0
    /\ dest # NoFile /\ dest.by = j => dest.owned

(* At-least-once execution publishes at most once, as long as nobody takes *)
(* the file away and no other user's file is in play.                      *)
PublishedOnce == \A j \in Job : pubs[j] > 1 => others > 0

(* Staged bytes are thrown away only by a cancellation, by a source that   *)
(* ignores the range, or by becoming the destination: a pause, a shutdown, *)
(* a crash and a failure keep them.                                        *)
BytesAreKept ==
  [][\A j \in Job :
       StageLen(j) > 0 /\ stage'[j] = <<>> =>
         \/ cause = "cancelled"
         \/ hpc = "discard"
         \/ dest'.by = j]_<<vars, fvars>>

(* files.md: "cancelling discards the partial"; main.go, on the handler:   *)
(* "Pause keeps the stage, cancel discards it". A cancelled download       *)
(* leaves no staged bytes.                                                 *)
CancelDiscardsStage ==
  \A j \in Job : status[j] = "cancelled" => StageLen(j) = 0

(* main.go, on the handler: "a crash mid-download resumes on the next      *)
(* start"; files.md: "A job interrupted by a restart resumes on its own".  *)
(* A download that met no error and has not published yet does not fail.   *)
InterruptionIsNotFailure ==
  \A j \in Job : status[j] = "failed" => j \in fault \/ pubs[j] > 0

=============================================================================
