------------------------------- MODULE Upload -------------------------------
(***************************************************************************)
(* Resumable uploads: internal/upload/service.go over the staged files of  *)
(* internal/storage/staging.go, and the handlers around them. A session is *)
(* a row and a staged file, which no transaction joins. Request goroutines *)
(* write to and cancel sessions; the writes to one session are meant to    *)
(* exclude each other by a mutex looked up in a map, and the map is thrown *)
(* away when it has grown.                                                 *)
(*                                                                         *)
(* All sessions are for one destination, each opened by a user of its own  *)
(* (so a session also names its user). Clients send the bytes of their     *)
(* file at the offsets they belong to, so a file is known by its length.   *)
(* The column received, written and never read, is left out.               *)
(***************************************************************************)
EXTENDS Integers, FiniteSets

CONSTANTS
  Session,     (* Upload sessions.                                         *)
  Request,     (* Request goroutines.                                      *)
  NoOne,       (* Who publishes or owns what is not there.                 *)
  Size,        (* The declared length, in units.                           *)
  TTL,         (* How long a session lives.                                *)
  BadSum,      (* The sessions that may declare a checksum not their own.  *)
  Purging,     (* Whether anything calls PurgeExpired.                     *)
  MaxTime,     (* Bound: the clock.                                        *)
  MaxCalls,    (* Bound: Write and Cancel requests.                        *)
  MaxSweeps,   (* Bound: times the map of locks is thrown away.            *)
  MaxStops,    (* Bound: ends of the process.                              *)
  MaxFaults,   (* Bound: failing statements and file operations.           *)
  MaxOthers    (* Bound: removals and withdrawals by others.               *)

ASSUME UploadAssumption ==
  /\ NoOne \notin Session
  /\ Size \in Nat /\ TTL \in Nat \ {0}
  /\ BadSum \subseteq Session
  /\ Purging \in BOOLEAN
  /\ {MaxTime, MaxCalls, MaxSweeps, MaxStops, MaxFaults, MaxOthers} \subseteq Nat

NoStage == -1
NoFile  == [by |-> NoOne, len |-> 0]

Creating == {"new", "staging", "inserting", "owning", "answered", "refused"}
Writing  == {"load", "size", "append", "copy", "finish", "verify", "commit",
             "rename", "chmod", "delete", "unlock"}
Canceling == {"c_load", "c_discard", "c_delete"}
Answers  == {"ok", "complete", "conflict", "notfound", "error"}

VARIABLES
  (* What survives the process. *)
  row,       (* The sessions that have a row.                              *)
  opened,    (* opened[s]: when it was created.                            *)
  stage,     (* stage[s]: the length of its staged file, or NoStage.       *)
  dest,      (* The destination: who published it and its length.          *)
  owner,     (* Its row in file_owners.                                    *)
  now,       (* The clock.                                                 *)
  allowed,   (* The users who may write the destination.                   *)
  bad,       (* The sessions whose declared checksum is not their file's.  *)
  (* The process. *)
  create,    (* create[s]: how far the request that opens s is.            *)
  pc,        (* pc[r]: where the request is.                               *)
  tok,       (* tok[r]: the session it names.                              *)
  key,       (* key[r]: the mutex it took from the map, by generation.     *)
  at,        (* at[r]: the position it writes at.                          *)
  base,      (* base[r]: the length AppendToStage found.                   *)
  answer,    (* answer[r]: what it will answer.                            *)
  gen,       (* The generation of the map of locks.                        *)
  (* Observation. *)
  cancelled, (* Sessions that a Cancel has answered for.                   *)
  done,      (* Sessions a Write has answered "complete" for.              *)
  pubs,      (* pubs[s]: how often s has published.                        *)
  touched,   (* touched[s]: when its staged file was last written.         *)
  (* Bounds. *)
  calls, stops, faults, others

store   == <<row, opened, stage, dest, owner, now, allowed, bad>>
request == <<pc, tok, key, at, base, answer>>
hist    == <<cancelled, done, pubs, touched>>
bounds  == <<calls, stops, faults, others>>
vars    == <<store, create, request, gen, hist, bounds>>

UploadTypeOK ==
  /\ row \subseteq Session
  /\ opened \in [Session -> 0..MaxTime]
  /\ stage \in [Session -> NoStage..Size]
  /\ dest \in [by: Session \cup {NoOne}, len: 0..Size]
  /\ owner \in Session \cup {NoOne}
  /\ now \in 0..MaxTime
  /\ allowed \subseteq Session
  /\ bad \subseteq BadSum
  /\ create \in [Session -> Creating]
  /\ pc \in [Request -> {"idle", "wait", "reply"} \cup Writing \cup Canceling]
  /\ tok \in [Request -> Session \cup {NoOne}]
  /\ key \in [Request -> 0..MaxSweeps]
  /\ at \in [Request -> 0..Size]
  /\ base \in [Request -> 0..Size]
  /\ answer \in [Request -> Answers]
  /\ gen \in 0..MaxSweeps
  /\ cancelled \subseteq Session /\ done \subseteq Session
  /\ pubs \in [Session -> Nat]
  /\ touched \in [Session -> 0..MaxTime]
  /\ calls \in 0..MaxCalls /\ stops \in 0..MaxStops
  /\ faults \in 0..MaxFaults /\ others \in 0..MaxOthers

Idle == [r \in Request |-> "idle"]

Init ==
  /\ row = {}
  /\ opened = [s \in Session |-> 0]
  /\ stage = [s \in Session |-> NoStage]
  /\ dest = NoFile
  /\ owner = NoOne
  /\ now = 0
  /\ allowed = Session
  /\ bad \in SUBSET BadSum
  /\ create = [s \in Session |-> "new"]
  /\ pc = Idle
  /\ tok = [r \in Request |-> NoOne]
  /\ key = [r \in Request |-> 0]
  /\ at = [r \in Request |-> 0]
  /\ base = [r \in Request |-> 0]
  /\ answer = [r \in Request |-> "ok"]
  /\ gen = 0
  /\ cancelled = {} /\ done = {}
  /\ pubs = [s \in Session |-> 0]
  /\ touched = [s \in Session |-> 0]
  /\ calls = 0 /\ stops = 0 /\ faults = 0 /\ others = 0

Fault == faults < MaxFaults /\ faults' = faults + 1 /\ UNCHANGED <<calls, stops, others>>
NoFault == UNCHANGED bounds

-----------------------------------------------------------------------------
(* The staged files and the rows. *)

Discard(s) == stage' = [stage EXCEPT ![s] = NoStage]

(* GetUpload, which filters on the expiry.                                 *)
Expired(s) == now >= opened[s] + TTL
Loaded(s)  == s \in row /\ ~Expired(s)

(* The caller's authority over the destination, ownership included.        *)
MayWrite(s) == s \in allowed

-----------------------------------------------------------------------------
(* Create and its handler. *)

Advance(s, step) == create' = [create EXCEPT ![s] = step]

(* The length and the destination are looked at.                           *)
CreateStat(s) ==
  /\ create[s] = "new"
  /\ Advance(s, IF dest = NoFile THEN "staging" ELSE "refused")
  /\ UNCHANGED <<store, request, gen, hist, bounds>>

NewStage(s) ==
  /\ create[s] = "staging"
  /\ \/ /\ NoFault
        /\ stage' = [stage EXCEPT ![s] = 0]
        /\ touched' = [touched EXCEPT ![s] = now]
        /\ Advance(s, "inserting")
     \/ Fault /\ UNCHANGED <<stage, touched>> /\ Advance(s, "refused")
  /\ UNCHANGED <<row, opened, dest, owner, now, allowed, bad, request, gen,
                 cancelled, done, pubs>>

(* CreateUpload; when it fails the staged file is discarded.               *)
InsertRow(s) ==
  /\ create[s] = "inserting"
  /\ \/ /\ NoFault
        /\ row' = row \cup {s}
        /\ opened' = [opened EXCEPT ![s] = now]
        /\ Advance(s, "owning")
        /\ UNCHANGED stage
     \/ /\ Fault
        /\ Discard(s)
        /\ Advance(s, "refused")
        /\ UNCHANGED <<row, opened>>
  /\ UNCHANGED <<dest, owner, now, allowed, bad, request, gen, hist>>

(* The handler records the caller as the owner of what is not there yet.   *)
(* When that fails it answers without the token: the session is stranded.  *)
CreateOwner(s) ==
  /\ create[s] = "owning"
  /\ \/ NoFault /\ owner' = s /\ Advance(s, "answered")
     \/ Fault /\ UNCHANGED owner /\ Advance(s, "refused")
  /\ UNCHANGED <<row, opened, stage, dest, now, allowed, bad, request, gen, hist>>

-----------------------------------------------------------------------------
(* Write. *)

Goto(r, step)   == pc' = [pc EXCEPT ![r] = step]
Reply(r, a)     == answer' = [answer EXCEPT ![r] = a]
Return(r, a)    == Goto(r, "unlock") /\ Reply(r, a)
Counted == calls < MaxCalls /\ calls' = calls + 1 /\ UNCHANGED <<stops, faults, others>>

(* A PATCH arrives with the offset the client believes in. The mutex of    *)
(* the session is taken from the map, which gets one if it has none.       *)
CallWrite(r, s, offset) ==
  /\ pc[r] = "idle"
  /\ create[s] = "answered"
  /\ Counted
  /\ Goto(r, "wait")
  /\ tok' = [tok EXCEPT ![r] = s]
  /\ key' = [key EXCEPT ![r] = gen]
  /\ at' = [at EXCEPT ![r] = offset]
  /\ UNCHANGED <<store, create, base, answer, gen, hist>>

Holds(r) == pc[r] \in Writing

Lock(r) ==
  /\ pc[r] = "wait"
  /\ \A q \in Request : Holds(q) => <<tok[q], key[q]>> # <<tok[r], key[r]>>
  /\ Goto(r, "load")
  /\ UNCHANGED <<store, create, tok, key, at, base, answer, gen, hist, bounds>>

Load(r) ==
  /\ pc[r] = "load"
  /\ IF Loaded(tok[r]) THEN Goto(r, "size") /\ UNCHANGED answer
                       ELSE Return(r, "notfound")
  /\ UNCHANGED <<store, create, tok, key, at, base, gen, hist, bounds>>

(* StageSize and the comparison of the offsets.                            *)
CheckOffset(r) ==
  /\ pc[r] = "size"
  /\ LET current == stage[tok[r]] IN
       IF current = NoStage THEN Return(r, "notfound")
       ELSE IF at[r] # current THEN Return(r, "conflict")
       ELSE Goto(r, "append") /\ UNCHANGED answer
  /\ UNCHANGED <<store, create, tok, key, at, base, gen, hist, bounds>>

(* AppendToStage, up to the open and the seek.                             *)
OpenStage(r) ==
  /\ pc[r] = "append"
  /\ LET current == stage[tok[r]] IN
       \/ /\ NoFault
          /\ current # NoStage /\ at[r] <= current
          /\ base' = [base EXCEPT ![r] = current]
          /\ Goto(r, "copy") /\ UNCHANGED answer
       \/ /\ NoFault
          /\ current = NoStage \/ at[r] > current
          /\ Return(r, "error") /\ UNCHANGED base
       \/ Fault /\ Return(r, "error") /\ UNCHANGED base
  /\ UNCHANGED <<store, create, tok, key, at, gen, hist>>

(* Mutant: the body without the limit of the declared size.                *)
CopyUnlimited(r) ==
  /\ pc[r] = "copy"
  /\ at' = [at EXCEPT ![r] = @ + 1]
  /\ stage' = [stage EXCEPT ![tok[r]] = IF @ = NoStage THEN @ ELSE at[r] + 1]
  /\ UNCHANGED <<row, opened, dest, owner, now, allowed, bad, create, pc, tok, key,
                 base, answer, gen, hist, bounds>>

(* One unit of the body lands at the position it belongs to. Once the name *)
(* is gone (discarded, or renamed as a whole file) it lands in the file    *)
(* the descriptor still holds, where it changes nothing that is modelled.  *)
CopyUnit(r) ==
  /\ pc[r] = "copy"
  /\ at[r] < Size
  /\ LET s == tok[r] IN
       /\ at' = [at EXCEPT ![r] = @ + 1]
       /\ stage' = [stage EXCEPT ![s] =
                      IF @ = NoStage \/ @ > at[r] THEN @ ELSE at[r] + 1]
       /\ touched' = [touched EXCEPT ![s] = now]
  /\ UNCHANGED <<row, opened, dest, owner, now, allowed, bad, create, pc, tok, key,
                 base, answer, gen, cancelled, done, pubs, bounds>>

(* What AppendToStage returns.                                             *)
Written(r) == IF at[r] > base[r] THEN at[r] ELSE base[r]

(* Mutant: any body that ends taken for the last one.                      *)
CopyEndFinishes(r) ==
  /\ pc[r] = "copy"
  /\ Goto(r, "finish")
  /\ UNCHANGED <<store, create, tok, key, at, base, answer, gen, hist, bounds>>

(* The body is at its end, by itself or by the limit of the declared size. *)
CopyEnd(r) ==
  /\ pc[r] = "copy"
  /\ IF Written(r) < Size THEN Return(r, "ok")
                          ELSE Goto(r, "finish") /\ UNCHANGED answer
  /\ UNCHANGED <<store, create, tok, key, at, base, gen, hist, bounds>>

(* Mutant: a dropped connection costs what has arrived.                    *)
CopyBreaksDiscards(r) ==
  /\ pc[r] = "copy"
  /\ Discard(tok[r])
  /\ Return(r, "error")
  /\ UNCHANGED <<row, opened, dest, owner, now, allowed, bad, create, tok, key, at,
                 base, gen, hist, bounds>>

(* The connection drops. What has landed stays.                            *)
CopyBreaks(r) ==
  /\ pc[r] = "copy"
  /\ Return(r, "error")
  /\ UNCHANGED <<store, create, tok, key, at, base, gen, hist, bounds>>

(* finish: the staged file is hashed when a checksum was declared. One     *)
(* that does not match is discarded, and its row with it.                  *)
Finish(r) ==
  /\ pc[r] = "finish"
  /\ LET s == tok[r] IN
       \/ s \notin bad /\ Goto(r, "commit") /\ UNCHANGED <<answer, stage>>
       \/ /\ s \in bad
          /\ IF stage[s] = NoStage
               THEN Return(r, "error")
               ELSE Goto(r, "verify") /\ UNCHANGED answer
          /\ Discard(s)
  /\ UNCHANGED <<row, opened, dest, owner, now, allowed, bad, create, tok, key, at,
                 base, gen, hist, bounds>>

DropRow(r) ==
  /\ pc[r] = "verify"
  /\ \/ NoFault /\ row' = row \ {tok[r]}
     \/ Fault /\ UNCHANGED row
  /\ Return(r, "error")
  /\ UNCHANGED <<opened, stage, dest, owner, now, allowed, bad, create, tok, key, at,
                 base, gen, hist>>

(* CommitStage, up to the look at the destination.                         *)
Commit(r) ==
  /\ pc[r] = "commit"
  /\ \/ NoFault /\ ~MayWrite(tok[r]) /\ Return(r, "error")
     \/ /\ NoFault /\ MayWrite(tok[r])
        /\ IF stage[tok[r]] = NoStage THEN Return(r, "error")
           ELSE IF dest # NoFile THEN Return(r, "conflict")
           ELSE Goto(r, "rename") /\ UNCHANGED answer
     \/ Fault /\ Return(r, "error")
  /\ UNCHANGED <<store, create, tok, key, at, base, gen, hist>>

(* The rename, which takes the place of whatever file is there.            *)
Rename(r) ==
  /\ pc[r] = "rename"
  /\ LET s == tok[r] IN
       IF stage[s] = NoStage
         THEN Return(r, "error") /\ UNCHANGED <<stage, dest, pubs>>
         ELSE /\ dest' = [by |-> s, len |-> stage[s]]
              /\ Discard(s)
              /\ pubs' = [pubs EXCEPT ![s] = @ + 1]
              /\ Goto(r, "chmod") /\ UNCHANGED answer
  /\ UNCHANGED <<row, opened, owner, now, allowed, bad, create, tok, key, at, base,
                 gen, cancelled, done, touched, bounds>>

Chmod(r) ==
  /\ pc[r] = "chmod"
  /\ \/ NoFault /\ dest # NoFile /\ Goto(r, "delete") /\ UNCHANGED answer
     \/ NoFault /\ dest = NoFile /\ Return(r, "error")
     \/ Fault /\ Return(r, "error")
  /\ UNCHANGED <<store, create, tok, key, at, base, gen, hist>>

(* Mutant: the error of the last statement ignored.                        *)
DeleteRowIgnoresError(r) ==
  /\ pc[r] = "delete"
  /\ Return(r, "complete")
  /\ \/ NoFault /\ row' = row \ {tok[r]}
     \/ Fault /\ UNCHANGED row
  /\ UNCHANGED <<opened, stage, dest, owner, now, allowed, bad, create, tok, key, at,
                 base, gen, hist>>

DeleteRow(r) ==
  /\ pc[r] = "delete"
  /\ \/ NoFault /\ row' = row \ {tok[r]} /\ Return(r, "complete")
     \/ Fault /\ UNCHANGED row /\ Return(r, "error")
  /\ UNCHANGED <<opened, stage, dest, owner, now, allowed, bad, create, tok, key, at,
                 base, gen, hist>>

(* Mutant: a release that is not deferred, and that errors pass by.        *)
UnlockOnSuccess(r) ==
  /\ pc[r] = "unlock"
  /\ answer[r] \in {"ok", "complete"}
  /\ Goto(r, "reply")
  /\ UNCHANGED <<store, create, tok, key, at, base, answer, gen, hist, bounds>>

(* The deferred release, and the sweep of the map of locks: it holds an    *)
(* entry for every upload there has been, so it may be due at any release. *)
Unlock(r) ==
  /\ pc[r] = "unlock"
  /\ Goto(r, "reply")
  /\ done' = IF answer[r] = "complete" THEN done \cup {tok[r]} ELSE done
  /\ \/ gen' = gen
     \/ gen < MaxSweeps /\ gen' = gen + 1
  /\ UNCHANGED <<store, create, tok, key, at, base, answer, cancelled, pubs,
                 touched, bounds>>

(* The answer leaves; the goroutine is free.                               *)
Forget(r) ==
  /\ tok' = [tok EXCEPT ![r] = NoOne]
  /\ key' = [key EXCEPT ![r] = 0]
  /\ at' = [at EXCEPT ![r] = 0]
  /\ base' = [base EXCEPT ![r] = 0]
  /\ answer' = [answer EXCEPT ![r] = "ok"]

Respond(r) ==
  /\ pc[r] = "reply"
  /\ Goto(r, "idle")
  /\ Forget(r)
  /\ UNCHANGED <<store, create, gen, hist, bounds>>

-----------------------------------------------------------------------------
(* Cancel: no mutex. *)

CallCancel(r, s) ==
  /\ pc[r] = "idle"
  /\ create[s] = "answered"
  /\ Counted
  /\ Goto(r, "c_load")
  /\ tok' = [tok EXCEPT ![r] = s]
  /\ UNCHANGED <<store, create, key, at, base, answer, gen, hist>>

(* A session that is not found is taken as cancelled before, and the       *)
(* answer is the same; one that has expired is not found either, with its  *)
(* bytes and its row still there.                                          *)
CancelLoad(r) ==
  /\ pc[r] = "c_load"
  /\ \/ /\ Loaded(tok[r]) /\ Goto(r, "c_discard")
        /\ NoFault /\ UNCHANGED <<answer, cancelled>>
     \/ /\ ~Loaded(tok[r]) /\ Goto(r, "reply")
        /\ cancelled' = cancelled \cup {tok[r]}
        /\ NoFault /\ UNCHANGED answer
     \/ /\ Fault /\ Goto(r, "reply") /\ Reply(r, "error")
        /\ UNCHANGED cancelled
  /\ UNCHANGED <<store, create, tok, key, at, base, gen, done, pubs, touched>>

(* Mutant: the row goes and the bytes stay.                                *)
CancelKeepsBytes(r) ==
  /\ pc[r] = "c_discard"
  /\ Goto(r, "c_delete")
  /\ UNCHANGED <<store, create, tok, key, at, base, answer, gen, hist, bounds>>

(* The staged file is discarded, an error of which is ignored.             *)
CancelDiscard(r) ==
  /\ pc[r] = "c_discard"
  /\ \/ NoFault /\ Discard(tok[r])
     \/ Fault /\ UNCHANGED stage
  /\ Goto(r, "c_delete")
  /\ UNCHANGED <<row, opened, dest, owner, now, allowed, bad, create, tok, key, at,
                 base, answer, gen, hist>>

CancelDelete(r) ==
  /\ pc[r] = "c_delete"
  /\ \/ /\ NoFault
        /\ row' = row \ {tok[r]}
        /\ cancelled' = cancelled \cup {tok[r]}
        /\ UNCHANGED answer
     \/ Fault /\ UNCHANGED <<row, cancelled>> /\ Reply(r, "error")
  /\ Goto(r, "reply")
  /\ UNCHANGED <<opened, stage, dest, owner, now, allowed, bad, create, tok, key, at,
                 base, gen, done, pubs, touched>>

-----------------------------------------------------------------------------
(* PurgeExpired, also without the mutex: the staged file of an expired     *)
(* session, then its row; and any staged file two lifetimes old.           *)
PurgeStage(s) ==
  /\ Purging
  /\ stage[s] # NoStage
  /\ (s \in row /\ Expired(s)) \/ now >= touched[s] + 2 * TTL
  /\ Discard(s)
  /\ UNCHANGED <<row, opened, dest, owner, now, allowed, bad, create, request, gen,
                 hist, bounds>>

PurgeRow(s) ==
  /\ Purging
  /\ s \in row /\ Expired(s) /\ stage[s] = NoStage
  /\ row' = row \ {s}
  /\ UNCHANGED <<opened, stage, dest, owner, now, allowed, bad, create, request, gen,
                 hist, bounds>>

PurgeExpired(s) == PurgeStage(s) \/ PurgeRow(s)

-----------------------------------------------------------------------------
(* The surroundings. *)

(* The creation of a session takes no time worth counting.                 *)
Tick ==
  /\ now < MaxTime
  /\ \A s \in Session : create[s] \notin {"staging", "inserting", "owning"}
  /\ now' = now + 1
  /\ UNCHANGED <<row, opened, stage, dest, owner, allowed, bad, create, request, gen,
                 hist, bounds>>

(* The destination is deleted, with its owner; or a user's permission is   *)
(* withdrawn.                                                              *)
OtherUser ==
  /\ others < MaxOthers
  /\ others' = others + 1
  /\ \/ /\ dest # NoFile
        /\ dest' = NoFile /\ owner' = NoOne /\ UNCHANGED allowed
     \/ \E s \in allowed : allowed' = allowed \ {s} /\ UNCHANGED <<dest, owner>>
  /\ UNCHANGED <<row, opened, stage, now, bad, create, request, gen, hist, calls,
                 stops, faults>>

(* The process ends and another one starts; every request is gone.         *)
Restart ==
  /\ stops < MaxStops
  /\ stops' = stops + 1
  /\ create' = [s \in Session |->
       IF create[s] \in {"staging", "inserting", "owning"} THEN "refused" ELSE create[s]]
  /\ pc' = Idle
  /\ tok' = [r \in Request |-> NoOne]
  /\ key' = [r \in Request |-> 0]
  /\ at' = [r \in Request |-> 0]
  /\ base' = [r \in Request |-> 0]
  /\ answer' = [r \in Request |-> "ok"]
  /\ gen' = 0
  /\ UNCHANGED <<store, hist, calls, faults, others>>

Create(s) == CreateStat(s) \/ NewStage(s) \/ InsertRow(s) \/ CreateOwner(s)

Write(r) ==
  \/ Lock(r) \/ Load(r) \/ CheckOffset(r)
  \/ OpenStage(r) \/ CopyUnit(r) \/ CopyEnd(r) \/ CopyBreaks(r)
  \/ Finish(r) \/ DropRow(r)
  \/ Commit(r) \/ Rename(r) \/ Chmod(r) \/ DeleteRow(r)
  \/ Unlock(r)

Cancel(r) == CancelLoad(r) \/ CancelDiscard(r) \/ CancelDelete(r)

Call(r, s) == CallCancel(r, s) \/ \E offset \in 0..Size : CallWrite(r, s, offset)

Next ==
  \/ \E s \in Session : Create(s) \/ PurgeExpired(s)
  \/ \E r \in Request, s \in Session : Call(r, s)
  \/ \E r \in Request : Write(r) \/ Cancel(r) \/ Respond(r)
  \/ Tick \/ OtherUser \/ Restart

Spec == Init /\ [][Next]_vars

(* Goroutines are scheduled; a client goes on sending or its connection    *)
(* dies, which is the client's doing, as the server reads a body without a *)
(* deadline; and the purge, if it runs, runs again and again.              *)
Fairness ==
  /\ \A r \in Request : WF_vars(Write(r) \/ Cancel(r) \/ Respond(r))
  /\ \A s \in Session : WF_vars(Create(s)) /\ WF_vars(PurgeExpired(s))
  /\ WF_vars(Tick)

FairSpec == Spec /\ Fairness

-----------------------------------------------------------------------------
(* Properties. *)

(* A session publishes its whole file or nothing, however its requests     *)
(* overlap, whichever mutex they took and whatever breaks off.             *)
PublishedIsWhole == dest # NoFile => dest.len = Size

(* An upload that was answered as complete was published exactly once and  *)
(* has left neither a row nor staged bytes.                                *)
DoneIsSettled ==
  \A s \in done : pubs[s] = 1 /\ s \notin row /\ stage[s] = NoStage

(* Once Cancel has answered, the session publishes nothing any more, even  *)
(* if a request of it is under way: Cancel takes no mutex and relies on    *)
(* the bytes being gone. Only a session that has expired, of which Cancel  *)
(* says the same and leaves the row, may be published by a request that    *)
(* loaded the row before. (The error of a discard is ignored: no faults.)  *)
CancelIsFinal ==
  [][faults = 0 => \A s \in cancelled :
       pubs'[s] # pubs[s] => s \in row /\ Expired(s)]_vars

(* service.go, on Cancel: "abandons a session and deletes what was         *)
(* received". After its answer nothing is published, expired or not.       *)
CancelAbandons ==
  [][faults = 0 => \A s \in cancelled : pubs'[s] = pubs[s]]_vars

(* Bytes that have arrived are lost only by being published, by a Cancel,  *)
(* by a checksum that does not match, or after the session has expired. A  *)
(* dropped connection, a refused commit or a restart keep them.            *)
BytesAreKept ==
  [][\A s \in Session : stage'[s] < stage[s] =>
       /\ stage'[s] = NoStage
       /\ \/ pubs'[s] > pubs[s]
          \/ \E r \in Request : pc[r] = "c_discard" /\ tok[r] = s
          \/ s \in bad \/ create[s] = "inserting" \/ Expired(s)]_vars

(* Every request is answered: no path of Write forgets the mutex.          *)
RequestsEnd == \A r \in Request : pc[r] # "idle" ~> pc[r] = "idle"

(* service.go, on the locks: "this makes the second request wait rather    *)
(* than trusting the client to obey". At most one request is writing to a  *)
(* session.                                                                *)
WritesExclude ==
  \A r, q \in Request : Holds(r) /\ Holds(q) /\ tok[r] = tok[q] => r = q

=============================================================================
