---------------------------- MODULE UploadProofs ----------------------------
(***************************************************************************)
(* Theorems about Upload, and about UploadClient in front of it, for any   *)
(* number of sessions, requests, calls, stops, sweeps of the map of locks  *)
(* and failures. None but the last about Upload rests on the mutex: two    *)
(* requests may write to one session at once.                              *)
(***************************************************************************)
EXTENDS UploadClient, TLAPS

(* A request under way names a session whose token was handed out, which   *)
(* is the end of its creation.                                             *)
TokenWasAnswered ==
  \A r \in Request : pc[r] # "idle" => tok[r] \in Session /\ create[tok[r]] = "answered"

(* Staged bytes are there only between the creation of the stage and the   *)
(* publication: what is published has none, and has them never again.      *)
StagedIsUnpublished ==
  \A s \in Session :
    /\ stage[s] # NoStage => create[s] \notin {"new", "staging"} /\ pubs[s] = 0
    /\ pubs[s] # 0 => create[s] = "answered" /\ pubs[s] = 1

(* A session has a row only after it was inserted.                         *)
RowIsInserted ==
  \A s \in row : create[s] \notin {"new", "staging", "inserting"}

(* What a request has found or written is still there, unless the whole    *)
(* stage is gone: a stage is never shortened.                              *)
StageIsMonotone ==
  \A r \in Request :
    pc[r] = "copy" => \/ stage[tok[r]] = NoStage
                      \/ /\ stage[tok[r]] >= at[r]
                         /\ stage[tok[r]] >= base[r]

(* From finish() to the rename the stage is whole or gone.                 *)
WholeOrGone ==
  \A r \in Request :
    pc[r] \in {"finish", "commit", "rename"} => stage[tok[r]] \in {NoStage, Size}

(* What a request has done of the end of an upload.                        *)
EndIsInOrder ==
  \A r \in Request :
    /\ pc[r] \in {"chmod", "delete"} => pubs[tok[r]] = 1
    /\ answer[r] = "complete" =>
         pc[r] \in {"unlock", "reply"} /\ pubs[tok[r]] = 1 /\ tok[r] \notin row

(* A session that Cancel has answered for has no row, or has expired; and  *)
(* where the row of an opened session is gone nothing is staged, if no     *)
(* discard has failed.                                                     *)
CancelledIsGone ==
  /\ \A s \in cancelled : create[s] = "answered" /\ (s \in row => Expired(s))
  /\ faults = 0 =>
       /\ \A s \in Session :
            create[s] \in {"owning", "answered"} /\ stage[s] # NoStage => s \in row
       /\ \A r \in Request : pc[r] \in {"verify", "c_delete"} => stage[tok[r]] = NoStage

(* A staged file is no older than its row, which bounds what the sweep of  *)
(* old files may take by the expiry of the session.                        *)
TouchedAfterOpened ==
  \A s \in Session :
    /\ touched[s] <= now
    /\ create[s] = "inserting" => touched[s] = now
    /\ create[s] \in {"new", "staging", "inserting"} => opened[s] = 0
    /\ stage[s] # NoStage => opened[s] <= touched[s]

(* The inductive invariant.                                                *)
IInv ==
  /\ UploadTypeOK
  /\ TokenWasAnswered
  /\ StagedIsUnpublished
  /\ RowIsInserted
  /\ StageIsMonotone
  /\ WholeOrGone
  /\ EndIsInOrder
  /\ CancelledIsGone
  /\ TouchedAfterOpened
  /\ PublishedIsWhole
  /\ DoneIsSettled

-----------------------------------------------------------------------------

\* Nothing is staged at the beginning.
LEMMA InitIInv == Init => IInv
<1> SUFFICES ASSUME Init PROVE IInv
  OBVIOUS
<1> USE UploadAssumption DEF Init, Idle, NoFile, NoStage
<1>1. UploadTypeOK
  BY DEF UploadTypeOK, Creating, Writing, Canceling, Answers
<1>2. TokenWasAnswered /\ StagedIsUnpublished /\ RowIsInserted /\ StageIsMonotone
  BY DEF TokenWasAnswered, StagedIsUnpublished, RowIsInserted, StageIsMonotone
<1>3. WholeOrGone /\ EndIsInOrder /\ CancelledIsGone /\ TouchedAfterOpened
  BY DEF WholeOrGone, EndIsInOrder, CancelledIsGone, TouchedAfterOpened
<1>4. PublishedIsWhole /\ DoneIsSettled
  BY DEF PublishedIsWhole, DoneIsSettled
<1> QED
  BY <1>1, <1>2, <1>3, <1>4 DEF IInv

(* Opening a session.                                                      *)
LEMMA CreateStep ==
  ASSUME IInv, NEW s \in Session, Create(s)
  PROVE  IInv'
<1> USE UploadAssumption DEF IInv, UploadTypeOK, TokenWasAnswered, StagedIsUnpublished, RowIsInserted,
     StageIsMonotone, WholeOrGone, EndIsInOrder, CancelledIsGone, TouchedAfterOpened, PublishedIsWhole,
     DoneIsSettled, Expired, NoFile, NoStage, Creating, Fault, NoFault, store, request, hist, bounds, Advance
<1>1. CASE CreateStat(s)
  BY <1>1 DEF CreateStat
<1>2. CASE NewStage(s)
  BY SMTT(60), <1>2 DEF NewStage
<1>3. CASE InsertRow(s)
  BY <1>3 DEF InsertRow, Discard
<1>4. CASE CreateOwner(s)
  BY <1>4 DEF CreateOwner
<1> QED
  BY <1>1, <1>2, <1>3, <1>4 DEF Create

(* A PATCH, from the mutex to its release.                                 *)
LEMMA WriteStep ==
  ASSUME IInv, NEW r \in Request, Write(r)
  PROVE  IInv'
<1> USE UploadAssumption DEF IInv, UploadTypeOK, TokenWasAnswered, StagedIsUnpublished, RowIsInserted,
     StageIsMonotone, WholeOrGone, EndIsInOrder, CancelledIsGone, TouchedAfterOpened, PublishedIsWhole,
     DoneIsSettled, Expired, NoFile, NoStage, Writing, Answers, Fault, NoFault, store, request, hist, bounds,
     Goto, Reply, Return
<1>1. CASE Lock(r)
  BY <1>1 DEF Lock
<1>2. CASE Load(r)
  BY <1>2 DEF Load
<1>3. CASE CheckOffset(r)
  BY <1>3 DEF CheckOffset
<1>4. CASE OpenStage(r)
  BY SMTT(60), <1>4 DEF OpenStage
<1>5. CASE CopyUnit(r)
  BY <1>5 DEF CopyUnit
<1>6. CASE CopyEnd(r)
  BY SMTT(60), <1>6 DEF CopyEnd, Written
<1>7. CASE CopyBreaks(r)
  BY <1>7 DEF CopyBreaks
<1>8. CASE Finish(r)
  BY <1>8 DEF Finish, Discard
<1>9. CASE DropRow(r)
  BY <1>9 DEF DropRow
<1>10. CASE Commit(r)
  BY SMTT(60), <1>10 DEF Commit
<1>11. CASE Rename(r)
  BY SMTT(60), <1>11 DEF Rename, Discard
<1>12. CASE Chmod(r)
  BY <1>12 DEF Chmod
<1>13. CASE DeleteRow(r)
  BY <1>13 DEF DeleteRow
<1>14. CASE Unlock(r)
  BY <1>14 DEF Unlock
<1> QED
  BY <1>1, <1>2, <1>3, <1>4, <1>5, <1>6, <1>7, <1>8, <1>9, <1>10, <1>11, <1>12, <1>13, <1>14
  DEF Write

(* A call arrives, is cancelled or is answered.                            *)
LEMMA CallStep ==
  ASSUME IInv, NEW r \in Request,
         Cancel(r) \/ Respond(r) \/ \E s \in Session : Call(r, s)
  PROVE  IInv'
<1> USE UploadAssumption DEF IInv, UploadTypeOK, TokenWasAnswered, StagedIsUnpublished, RowIsInserted,
     StageIsMonotone, WholeOrGone, EndIsInOrder, CancelledIsGone, TouchedAfterOpened, PublishedIsWhole,
     DoneIsSettled, Expired, NoFile, NoStage, Canceling, Answers, Fault, NoFault, store, request, hist, bounds,
     Goto, Reply, Counted
<1>1. CASE CancelLoad(r)
  BY <1>1 DEF CancelLoad, Loaded
<1>2. CASE CancelDiscard(r)
  BY SMTT(60), <1>2 DEF CancelDiscard, Discard
<1>3. CASE CancelDelete(r)
  BY <1>3 DEF CancelDelete
<1>4. CASE Respond(r)
  BY <1>4 DEF Respond, Forget
<1>5. ASSUME NEW s \in Session, CallCancel(r, s) PROVE IInv'
  BY <1>5 DEF CallCancel
<1>6. ASSUME NEW s \in Session, NEW offset \in 0..Size, CallWrite(r, s, offset) PROVE IInv'
  BY <1>6 DEF CallWrite
<1> QED
  BY <1>1, <1>2, <1>3, <1>4, <1>5, <1>6 DEF Cancel, Call

(* The purge, the clock, other users and the process.                      *)
LEMMA SurroundingsStep ==
  ASSUME IInv,
         (\E s \in Session : PurgeExpired(s)) \/ Tick \/ OtherUser \/ Restart \/ UNCHANGED vars
  PROVE  IInv'
<1> USE UploadAssumption DEF IInv, UploadTypeOK, TokenWasAnswered, StagedIsUnpublished, RowIsInserted,
     StageIsMonotone, WholeOrGone, EndIsInOrder, CancelledIsGone, TouchedAfterOpened, PublishedIsWhole,
     DoneIsSettled, Expired, NoFile, NoStage, store, request, hist, bounds
<1>1. ASSUME NEW s \in Session, PurgeStage(s) PROVE IInv'
  BY <1>1 DEF PurgeStage, Discard
<1>2. ASSUME NEW s \in Session, PurgeRow(s) PROVE IInv'
  BY <1>2 DEF PurgeRow
<1>3. CASE Tick
  BY <1>3 DEF Tick
<1>4. CASE OtherUser
  BY <1>4 DEF OtherUser
<1>5. CASE Restart
  BY <1>5 DEF Restart, Idle, Creating, Answers
<1>6. CASE UNCHANGED vars
  BY <1>6 DEF vars
<1> QED
  BY <1>1, <1>2, <1>3, <1>4, <1>5, <1>6 DEF PurgeExpired

\* Every step preserves the inductive invariant.
LEMMA NextIInv == IInv /\ [Next]_vars => IInv'
  BY CreateStep, WriteStep, CallStep, SurroundingsStep DEF Next

(* The inductive invariant holds in every reachable state.                 *)
THEOREM UploadInvariant == Spec => []IInv
  BY InitIInv, NextIInv, PTL DEF Spec

(* Every variable keeps its type.                                          *)
THEOREM UploadTypes == Spec => []UploadTypeOK
  BY UploadInvariant, PTL DEF IInv

(* However many requests overlap, whichever mutexes they took and whatever *)
(* breaks off, the file a session publishes is as long as was declared.    *)
THEOREM UploadsPublishWholeFiles == Spec => []PublishedIsWhole
  BY UploadInvariant, PTL DEF IInv

(* An upload answered as complete was published once and has left nothing. *)
THEOREM CompletedUploadsAreSettled == Spec => []DoneIsSettled
  BY UploadInvariant, PTL DEF IInv

-----------------------------------------------------------------------------

(* Only a rename publishes, and only a session of which something is       *)
(* staged.                                                                 *)
LEMMA OnlyStagedPublishes ==
  ASSUME IInv, [Next]_vars, NEW s \in Session, pubs'[s] # pubs[s]
  PROVE  stage[s] # NoStage
<1> USE DEF IInv, UploadTypeOK, TokenWasAnswered, NoStage, store, request, hist, bounds
<1>1. PICK r \in Request : Rename(r)
  <2>1. ASSUME NEW r \in Request, Write(r), ~Rename(r) PROVE FALSE
    BY <2>1 DEF Write, Lock, Load, CheckOffset, OpenStage, CopyUnit, CopyEnd, CopyBreaks, Finish, DropRow,
           Commit, Chmod, DeleteRow, Unlock
  <2>2. ASSUME NEW r \in Request, Cancel(r) \/ Respond(r) PROVE FALSE
    BY <2>2 DEF Cancel, CancelLoad, CancelDiscard, CancelDelete, Respond
  <2>3. ASSUME NEW r \in Request, NEW t \in Session, Call(r, t) PROVE FALSE
    BY <2>3 DEF Call, CallCancel, CallWrite
  <2>4. ASSUME NEW t \in Session, Create(t) \/ PurgeExpired(t) PROVE FALSE
    BY <2>4 DEF Create, CreateStat, NewStage, InsertRow, CreateOwner, PurgeExpired, PurgeStage, PurgeRow
  <2>5. CASE Tick \/ OtherUser \/ Restart \/ UNCHANGED vars
    BY <2>5 DEF Tick, OtherUser, Restart, vars
  <2> QED
    BY <2>1, <2>2, <2>3, <2>4, <2>5 DEF Next
<1> QED
  BY <1>1 DEF Rename

(* Once Cancel has answered, the session publishes nothing any more,       *)
(* unless it had expired and still has its row.                            *)
THEOREM CancelledUploadsPublishNothing == Spec => CancelIsFinal
<1>1. ASSUME IInv, [Next]_vars, faults = 0, NEW s \in cancelled, pubs'[s] # pubs[s]
      PROVE  s \in row /\ Expired(s)
  BY <1>1, OnlyStagedPublishes DEF IInv, UploadTypeOK, CancelledIsGone
<1>2. IInv /\ [Next]_vars =>
        [faults = 0 => \A s \in cancelled :
           pubs'[s] # pubs[s] => s \in row /\ Expired(s)]_vars
  BY <1>1
<1> QED
  BY <1>2, UploadInvariant, PTL DEF Spec, CancelIsFinal

(* What a step that leaves a session with less than it had does with it:   *)
(* it is published, cancelled, found different from its checksum, given up *)
(* before it was opened, or expired.                                       *)
LEMMA LossHasCause ==
  ASSUME IInv, [Next]_vars, NEW s \in Session, stage'[s] < stage[s]
  PROVE  /\ stage'[s] = NoStage
         /\ \/ pubs'[s] > pubs[s]
            \/ \E r \in Request : pc[r] = "c_discard" /\ tok[r] = s
            \/ s \in bad \/ create[s] = "inserting" \/ Expired(s)
<1> DEFINE Explained ==
      /\ stage'[s] = NoStage
      /\ \/ pubs'[s] > pubs[s]
         \/ \E r \in Request : pc[r] = "c_discard" /\ tok[r] = s
         \/ s \in bad \/ create[s] = "inserting" \/ Expired(s)
<1> USE UploadAssumption DEF IInv, UploadTypeOK, NoStage, store, request, hist, bounds
<1>1. ASSUME NEW r \in Request, Write(r) PROVE Explained
  <2>1. CASE Finish(r)
    BY <2>1 DEF Finish, Discard
  <2>2. CASE Rename(r)
    BY <2>2 DEF Rename, Discard
  <2>3. CASE CopyUnit(r)
    BY <2>3 DEF CopyUnit
  <2>4. ASSUME ~Finish(r), ~Rename(r), ~CopyUnit(r) PROVE FALSE
    BY <1>1, <2>4 DEF Write, Lock, Load, CheckOffset, OpenStage, CopyEnd, CopyBreaks, DropRow, Commit,
                      Chmod, DeleteRow, Unlock
  <2> QED
    BY <2>1, <2>2, <2>3, <2>4
<1>2. ASSUME NEW r \in Request, Cancel(r) \/ Respond(r) PROVE Explained
  BY <1>2 DEF Cancel, CancelLoad, CancelDiscard, CancelDelete, Respond, Discard
<1>3. ASSUME NEW r \in Request, NEW t \in Session, Call(r, t) PROVE Explained
  BY <1>3 DEF Call, CallCancel, CallWrite
<1>4. ASSUME NEW t \in Session, Create(t) PROVE Explained
  BY <1>4 DEF Create, CreateStat, NewStage, InsertRow, CreateOwner, Discard, StagedIsUnpublished
<1>5. ASSUME NEW t \in Session, PurgeExpired(t) PROVE Explained
  BY <1>5 DEF PurgeExpired, PurgeStage, PurgeRow, Discard, TouchedAfterOpened, Expired
<1>6. CASE Tick \/ OtherUser \/ Restart \/ UNCHANGED vars
  BY <1>6 DEF Tick, OtherUser, Restart, vars
<1> QED
  BY <1>1, <1>2, <1>3, <1>4, <1>5, <1>6 DEF Next

(* Bytes that have arrived are lost for one of those reasons only: not by  *)
(* a dropped connection, a refused commit or a restart.                    *)
THEOREM ArrivedBytesAreKept == Spec => BytesAreKept
<1>1. IInv /\ [Next]_vars =>
        [\A s \in Session : stage'[s] < stage[s] =>
           /\ stage'[s] = NoStage
           /\ \/ pubs'[s] > pubs[s]
              \/ \E r \in Request : pc[r] = "c_discard" /\ tok[r] = s
              \/ s \in bad \/ create[s] = "inserting" \/ Expired(s)]_vars
  BY LossHasCause
<1> QED
  BY <1>1, UploadInvariant, PTL DEF Spec, BytesAreKept

-----------------------------------------------------------------------------

(* Two requests that hold the mutex of one session took it from different  *)
(* maps of locks.                                                          *)
OneMutexOneHolder ==
  \A r, q \in Request :
    Holds(r) /\ Holds(q) /\ tok[r] = tok[q] /\ key[r] = key[q] => r = q

\* While nobody sweeps the map of locks, no step gives one mutex two holders.
LEMMA NextOneMutex == IInv /\ OneMutexOneHolder /\ [Next]_vars => OneMutexOneHolder'
<1> SUFFICES ASSUME IInv, OneMutexOneHolder, [Next]_vars PROVE OneMutexOneHolder'
  OBVIOUS
<1> USE DEF IInv, UploadTypeOK, OneMutexOneHolder, Holds, Writing, store, request, hist, bounds
<1>1. ASSUME NEW r \in Request, Write(r) PROVE OneMutexOneHolder'
  <2>1. CASE Lock(r)
    BY <2>1 DEF Lock, Goto
  <2>2. CASE Unlock(r)
    BY <2>2 DEF Unlock, Goto
  <2>3. ASSUME ~Lock(r), ~Unlock(r)
        PROVE  /\ pc[r] \in Writing /\ UNCHANGED <<tok, key>>
               /\ \A q \in Request : q # r => pc'[q] = pc[q]
    BY <1>1, <2>3 DEF Write, Load, CheckOffset, OpenStage, CopyUnit, CopyEnd, CopyBreaks, Finish, DropRow,
                      Commit, Rename, Chmod, DeleteRow, Goto, Return
  <2> QED
    BY <2>1, <2>2, <2>3
<1>2. ASSUME NEW r \in Request, Cancel(r) \/ Respond(r) PROVE OneMutexOneHolder'
  BY <1>2 DEF Cancel, CancelLoad, CancelDiscard, CancelDelete, Respond, Goto, Forget
<1>3. ASSUME NEW r \in Request, NEW s \in Session, Call(r, s) PROVE OneMutexOneHolder'
  BY <1>3 DEF Call, CallCancel, CallWrite, Goto
<1>4. ASSUME NEW s \in Session, Create(s) \/ PurgeExpired(s) PROVE OneMutexOneHolder'
  BY <1>4 DEF Create, CreateStat, NewStage, InsertRow, CreateOwner, PurgeExpired, PurgeStage, PurgeRow
<1>5. CASE Tick \/ OtherUser \/ Restart \/ UNCHANGED vars
  BY <1>5 DEF Tick, OtherUser, Restart, Idle, vars
<1> QED
  BY <1>1, <1>2, <1>3, <1>4, <1>5 DEF Next

(* The sweep of the map of locks is all that stands between the code and   *)
(* what its comment promises: while the map is not thrown away, at most    *)
(* one request writes to a session, with any number of them, whatever      *)
(* fails, restarts or expires.                                             *)
THEOREM WritesExcludeUntilTheSweep ==
  ASSUME MaxSweeps = 0
  PROVE  Spec => []WritesExclude
<1>1. Init => OneMutexOneHolder
  BY DEF Init, Idle, OneMutexOneHolder, Holds, Writing
<1>2. IInv /\ OneMutexOneHolder => WritesExclude
  BY DEF IInv, UploadTypeOK, OneMutexOneHolder, WritesExclude
<1> QED
  BY <1>1, <1>2, NextOneMutex, UploadInvariant, PTL DEF Spec

-----------------------------------------------------------------------------
(* The web client. The requests of a session are those of its client, and  *)
(* a client that still expects something has one at most.                  *)

Waits ==
  /\ \A s \in Session : cpc[s] \in {"create", "failed"} \/ create[s] = "answered"
  /\ \A s \in Session : cpc[s] = "patching" =>
       via[s] \in Request /\ pc[via[s]] # "idle" /\ tok[via[s]] = s
  /\ \A r \in Request :
       /\ pc[r] \notin Canceling
       /\ pc[r] # "idle" =>
            cpc[tok[r]] = "failed" \/ (cpc[tok[r]] = "patching" /\ via[tok[r]] = r)

(* A client that has not begun, has a chunk under way, or was told that it *)
(* is there, finds it staged.                                              *)
ToldIsStaged ==
  /\ \A s \in Session : cpc[s] = "create" =>
       /\ off[s] = 0
       /\ create[s] \in {"inserting", "owning", "answered"} => stage[s] # NoStage
  /\ \A s \in Session : cpc[s] = "patching" /\ pc[via[s]] = "copy" => stage[s] # NoStage
  /\ \A s \in Session :
       cpc[s] = "patching" /\ pc[via[s]] \in {"unlock", "reply"} /\ answer[via[s]] = "ok"
         /\ s \in row /\ pubs[s] = 0
       => stage[s] >= Written(via[s])

(* The inductive invariant of clients, on top of that of uploads.          *)
CInv ==
  /\ ClientTypeOK
  /\ Waits
  /\ ToldIsStaged
  /\ NeverAhead
-----------------------------------------------------------------------------

\* Every step of the composition is a step of the server's own specification, or none of it.
LEMMA ClientStepIsUploadStep ==
  ASSUME ClientTypeOK, Waits, [ClientNext]_<<vars, cvars>>
  PROVE  [Next]_vars
<1>1. CASE Server
  <2>1. ASSUME NEW r \in Request, ServerWrite(r) \/ Unheard(r) PROVE Next
    BY <2>1 DEF ServerWrite, Unheard, Next
  <2> QED
    BY <1>1, <2>1 DEF Server, Next
<1>2. CASE ClientRestart
  BY <1>2 DEF ClientRestart, Next
<1>3. ASSUME NEW s \in Session, NEW r \in Request, ClientPatch(s, r) PROVE Next
  BY <1>3 DEF ClientPatch, ClientTypeOK, Call, Next
<1>4. ASSUME NEW s \in Session, ClientAnswered(s) PROVE Next
  BY <1>4 DEF ClientAnswered, Waits, Next
<1>5. ASSUME NEW s \in Session, ClientCreated(s) \/ ClientHead(s) \/ ClientDone(s) \/ ClientCutOff(s)
      PROVE  UNCHANGED vars
  BY <1>5 DEF ClientCreated, ClientHead, ClientDone, ClientCutOff
<1>6. CASE UNCHANGED <<vars, cvars>>
  BY <1>6
<1> QED
  BY <1>1, <1>2, <1>3, <1>4, <1>5, <1>6 DEF ClientNext, Client

\* Nothing has begun.
LEMMA InitCInv == ClientInit => CInv
<1> SUFFICES ASSUME ClientInit PROVE CInv
  OBVIOUS
<1>1. UploadTypeOK
  BY InitIInv DEF ClientInit, IInv
<1>2. ClientTypeOK
  BY <1>1, UploadAssumption DEF ClientInit, ClientTypeOK
<1>3. Waits /\ ToldIsStaged /\ NeverAhead
  BY DEF ClientInit, Init, Idle, Waits, ToldIsStaged, NeverAhead, Canceling
<1> QED
  BY <1>2, <1>3 DEF CInv

\* The server at work on a request, or on the creation of a session.
LEMMA ServerStep ==
  ASSUME Purging = FALSE, IInv, IInv', CInv, Server
  PROVE  CInv'
<1>1. UNCHANGED cvars /\ ClientTypeOK'
  BY DEF Server, IInv, CInv, ClientTypeOK, cvars
<1> USE UploadAssumption DEF CInv, ClientTypeOK, Waits, ToldIsStaged, NeverAhead, cvars, NoStage, store, request, hist, bounds
<1>2. ASSUME NEW s \in Session, Create(s) PROVE CInv'
  <2> USE DEF IInv, UploadTypeOK, RowIsInserted, StagedIsUnpublished, Fault, NoFault, Advance, Written
  <2>1. CASE CreateStat(s)
    BY <1>1, <2>1 DEF CreateStat
  <2>2. CASE NewStage(s)
    BY <1>1, <2>2 DEF NewStage
  <2>3. CASE InsertRow(s)
    BY <1>1, <2>3 DEF InsertRow, Discard
  <2>4. CASE CreateOwner(s)
    BY <1>1, <2>4 DEF CreateOwner
  <2> QED
    BY <1>2, <2>1, <2>2, <2>3, <2>4 DEF Create
<1>3. ASSUME NEW s \in Session, PurgeExpired(s) PROVE FALSE
  BY <1>3 DEF PurgeExpired, PurgeStage, PurgeRow
<1>4. ASSUME NEW r \in Request, Write(r) PROVE CInv'
  <2> USE DEF IInv, UploadTypeOK, TokenWasAnswered, Writing, Canceling, Answers, Fault, NoFault, Goto, Reply, Return
  <2>1. CASE Lock(r) \/ Load(r) \/ CheckOffset(r)
    BY <1>1, <2>1 DEF Lock, Load, CheckOffset, Written
  <2>2. CASE OpenStage(r)
    BY <1>1, <2>2 DEF OpenStage, Written
  <2>3. CASE CopyUnit(r)
    BY <1>1, <2>3 DEF CopyUnit, Written
  <2>4. CASE CopyEnd(r)
    BY <1>1, <2>4 DEF CopyEnd, Written, StageIsMonotone
  <2>5. CASE CopyBreaks(r)
    BY <1>1, <2>5 DEF CopyBreaks, Written
  <2>6. CASE Finish(r)
    BY <1>1, <2>6 DEF Finish, Discard, Written
  <2>7. CASE DropRow(r)
    BY <1>1, <2>7 DEF DropRow, Written
  <2>8. CASE Commit(r)
    BY <1>1, <2>8 DEF Commit, Written
  <2>9. CASE Rename(r)
    <3>1. /\ pc[r] = "rename" /\ pc' = [pc EXCEPT ![r] = pc'[r]] /\ pc'[r] \in {"chmod", "unlock"}
          /\ pc'[r] = "unlock" => answer'[r] = "error"
          /\ answer' = [answer EXCEPT ![r] = answer'[r]] /\ UNCHANGED <<row, create, tok, at, base>>
          /\ \A s \in Session : s # tok[r] => stage'[s] = stage[s] /\ pubs'[s] = pubs[s]
      BY <2>9 DEF Rename, Discard
    <3>2. \A s \in Session : cpc[s] # "failed" /\ s = tok[r] => cpc[s] = "patching" /\ via[s] = r
      BY <3>1
    <3>3. NeverAhead'
      BY <1>1, <3>1, <3>2
    <3>4. Waits'
      BY <1>1, <3>1, <3>2
    <3>5. ASSUME NEW s \in Session, cpc[s] = "patching", via[s] # r
          PROVE  s # tok[r] /\ pc'[via[s]] = pc[via[s]] /\ answer'[via[s]] = answer[via[s]]
      <4>1. via[s] \in Request /\ s # tok[r]
        BY <3>2, <3>5
      <4>2. \A q \in Request : q # r => pc'[q] = pc[q] /\ answer'[q] = answer[q]
        BY <3>1
      <4> QED
        BY <4>1, <4>2, <3>5
    <3>6. ToldIsStaged'
      BY SMTT(60), <1>1, <3>1, <3>2, <3>5 DEF Written
    <3> QED
      BY <1>1, <3>3, <3>4, <3>6
  <2>10. CASE Chmod(r) \/ DeleteRow(r)
    BY <1>1, <2>10 DEF Chmod, DeleteRow, Written
  <2>11. CASE Unlock(r)
    BY <1>1, <2>11 DEF Unlock, Written
  <2> QED
    BY <1>4, <2>1, <2>2, <2>3, <2>4, <2>5, <2>6, <2>7, <2>8, <2>9, <2>10, <2>11 DEF Write
<1>5. ASSUME NEW r \in Request, Unheard(r) PROVE CInv'
  BY <1>1, <1>5 DEF Unheard, Respond, Forget, Goto, IInv, UploadTypeOK, TokenWasAnswered, Canceling, Written
<1>6. CASE Tick
  BY <1>1, <1>6 DEF Tick, Written
<1>7. CASE OtherUser
  BY <1>1, <1>7 DEF OtherUser, Written
<1> QED
  BY <1>2, <1>3, <1>4, <1>5, <1>6, <1>7 DEF Server, ServerWrite

\* The client, its connection and the end of the process.
LEMMA ClientStep ==
  ASSUME IInv, IInv', CInv, ClientRestart \/ \E s \in Session : Client(s) \/ ClientCutOff(s)
  PROVE  CInv'
<1> USE UploadAssumption DEF IInv, UploadTypeOK, TokenWasAnswered, CInv, ClientTypeOK, Waits, ToldIsStaged, NeverAhead, Move, NoStage, store, request,
    hist, bounds, vars, Written
<1>1. CASE ClientRestart
  BY <1>1 DEF ClientRestart, Restart, Idle, Canceling
<1>2. ASSUME NEW s \in Session, ClientCreated(s) PROVE CInv'
  BY <1>2 DEF ClientCreated
<1>3. ASSUME NEW s \in Session, NEW r \in Request, ClientPatch(s, r) PROVE CInv'
  BY <1>3 DEF ClientPatch, CallWrite, Goto, Counted, Canceling
<1>4. ASSUME NEW s \in Session, ClientAnswered(s) PROVE CInv'
  BY SMTT(60), <1>4 DEF ClientAnswered, Respond, Forget, Goto, Canceling, EndIsInOrder
<1>5. ASSUME NEW s \in Session, ClientHead(s) PROVE CInv'
  BY SMTT(60), <1>5 DEF ClientHead, Loaded
<1>6. ASSUME NEW s \in Session, ClientDone(s) PROVE CInv'
  BY <1>6 DEF ClientDone
<1>7. ASSUME NEW s \in Session, ClientCutOff(s) PROVE CInv'
  BY <1>7 DEF ClientCutOff
<1> QED
  BY <1>1, <1>2, <1>3, <1>4, <1>5, <1>6, <1>7 DEF Client

\* Every step of the composition preserves the invariant of the clients.
LEMMA NextCInv ==
  ASSUME Purging = FALSE
  PROVE  IInv /\ CInv /\ [ClientNext]_<<vars, cvars>> => CInv'
<1> SUFFICES ASSUME IInv, CInv, [ClientNext]_<<vars, cvars>> PROVE CInv'
  OBVIOUS
<1>1. IInv'
  BY ClientStepIsUploadStep, NextIInv DEF CInv
<1>2. CASE UNCHANGED <<vars, cvars>>
  BY <1>1, <1>2 DEF vars, cvars, store, request, hist, IInv, CInv, ClientTypeOK, Waits, ToldIsStaged, NeverAhead, Written
<1> QED
  BY <1>1, <1>2, ServerStep, ClientStep DEF ClientNext

(* A server that clients talk to is the server of the theorems above, as   *)
(* nothing but PurgeExpired, which nothing calls, sweeps staged files.     *)
THEOREM ClientsAreServed ==
  ASSUME Purging = FALSE
  PROVE  ClientSpec => Spec /\ []CInv
<1>1. ClientInit => Init /\ IInv /\ CInv
  BY InitIInv, InitCInv DEF ClientInit
<1>2. IInv /\ CInv /\ [ClientNext]_<<vars, cvars>> => [Next]_vars /\ IInv' /\ CInv'
  BY ClientStepIsUploadStep, NextIInv, NextCInv DEF CInv
<1> QED
  BY <1>1, <1>2, PTL DEF ClientSpec, Spec

(* A client never believes that more is sent than is staged, unless its    *)
(* session is over, whatever fails, restarts or breaks off.                *)
THEOREM ClientsAreNeverAhead ==
  ASSUME Purging = FALSE
  PROVE  ClientSpec => []NeverAhead
  BY ClientsAreServed, PTL DEF CInv
=============================================================================
