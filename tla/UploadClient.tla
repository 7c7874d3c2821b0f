---------------------------- MODULE UploadClient ----------------------------
(***************************************************************************)
(* The web client of resumable uploads (uploadFile in web/src/upload.ts)   *)
(* against the service of Upload: one client per session, which opens it,  *)
(* sends chunk after chunk at the offset the server told it, and asks for  *)
(* the offset when it is answered with a conflict.                         *)
(***************************************************************************)
EXTENDS Upload

VARIABLES
  cpc,    (* cpc[s]: where the client is.                                  *)
  off,    (* off[s]: the offset it believes in.                            *)
  via     (* via[s]: the request it waits for, NoOne otherwise.            *)

cvars == <<cpc, off, via>>

ClientTypeOK ==
  /\ UploadTypeOK
  /\ cpc \in [Session -> {"create", "loop", "patching", "head", "done", "failed"}]
  /\ off \in [Session -> 0..Size]
  /\ via \in [Session -> Request \cup {NoOne}]

ClientInit ==
  /\ Init
  /\ cpc = [s \in Session |-> "create"]
  /\ off = [s \in Session |-> 0]
  /\ via = [s \in Session |-> NoOne]

Move(s, step) == cpc' = [cpc EXCEPT ![s] = step]

(* The answer to the POST.                                                 *)
ClientCreated(s) ==
  /\ cpc[s] = "create"
  /\ \/ create[s] = "answered" /\ Move(s, "loop")
     \/ create[s] = "refused" /\ Move(s, "failed")
  /\ UNCHANGED <<vars, off, via>>

(* while (offset < file.size): the next chunk.                             *)
ClientPatch(s, r) ==
  /\ cpc[s] = "loop"
  /\ off[s] < Size
  /\ CallWrite(r, s, off[s])
  /\ Move(s, "patching")
  /\ via' = [via EXCEPT ![s] = r]
  /\ UNCHANGED off

(* Mutant: a chunk that failed taken for sent.                             *)
ClientAssumesSent(s) ==
  /\ cpc[s] = "patching"
  /\ Respond(via[s])
  /\ off' = [off EXCEPT ![s] = @ + 1]
  /\ Move(s, IF answer[via[s]] = "conflict" THEN "head" ELSE "loop")
  /\ via' = [via EXCEPT ![s] = NoOne]

(* Mutant: after a conflict, the chunk again, without asking.              *)
ClientRetries(s) ==
  /\ cpc[s] = "patching"
  /\ Respond(via[s])
  /\ UNCHANGED off
  /\ Move(s, IF answer[via[s]] = "conflict" THEN "loop" ELSE "failed")
  /\ via' = [via EXCEPT ![s] = NoOne]

(* Its answer: a new offset, a conflict, or an error.                      *)
ClientAnswered(s) ==
  /\ cpc[s] = "patching"
  /\ LET r == via[s] IN
       /\ Respond(r)
       /\ off' = [off EXCEPT ![s] =
                    IF answer[r] \in {"ok", "complete"} THEN Written(r) ELSE @]
       /\ Move(s, IF answer[r] \in {"ok", "complete"} THEN "loop"
                  ELSE IF answer[r] = "conflict" THEN "head" ELSE "failed")
  /\ via' = [via EXCEPT ![s] = NoOne]

(* No answer comes: the connection dropped, or the process ended.          *)
ClientCutOff(s) ==
  /\ cpc[s] = "patching"
  /\ Move(s, "failed")
  /\ via' = [via EXCEPT ![s] = NoOne]
  /\ UNCHANGED <<vars, off>>

(* HEAD: the length of the staged file.                                    *)
ClientHead(s) ==
  /\ cpc[s] = "head"
  /\ IF Loaded(s) /\ stage[s] # NoStage
       THEN off' = [off EXCEPT ![s] = stage[s]] /\ Move(s, "loop")
       ELSE Move(s, "failed") /\ UNCHANGED off
  /\ UNCHANGED <<vars, via>>

(* The loop is over.                                                       *)
ClientDone(s) ==
  /\ cpc[s] = "loop"
  /\ off[s] >= Size
  /\ Move(s, "done")
  /\ UNCHANGED <<vars, off, via>>

(* A request nobody waits for any more answers into the void.              *)
Unheard(r) == Respond(r) /\ \A s \in Session : via[s] # r

(* The end of the process is the end of the connections.                   *)
ClientRestart ==
  /\ Restart
  /\ cpc' = [s \in Session |->
               IF cpc[s] = "patching" \/ (cpc[s] = "create" /\ create'[s] = "refused")
                 THEN "failed" ELSE cpc[s]]
  /\ via' = [s \in Session |-> NoOne]
  /\ UNCHANGED off

Client(s) ==
  \/ ClientCreated(s) \/ ClientAnswered(s) \/ ClientHead(s) \/ ClientDone(s)
  \/ \E r \in Request : ClientPatch(s, r)

(* The body of a chunk is not empty: it cannot end before its first unit.  *)
ServerWrite(r) ==
  /\ Write(r)
  /\ pc[r] = "copy" /\ at[r] = base[r] /\ at[r] < Size
       => pc'[r] = "copy" \/ answer'[r] = "error"

Server ==
  /\ \/ \E s \in Session : Create(s) \/ PurgeExpired(s)
     \/ \E r \in Request : ServerWrite(r) \/ Unheard(r)
     \/ Tick \/ OtherUser
  /\ UNCHANGED cvars

ClientNext ==
  \/ Server \/ ClientRestart
  \/ \E s \in Session : Client(s) \/ ClientCutOff(s)

ClientSpec == ClientInit /\ [][ClientNext]_<<vars, cvars>>

(* Goroutines and the client's promises are scheduled.                     *)
ClientFairness ==
  /\ \A s \in Session : WF_<<vars, cvars>>(Client(s))
  /\ \A s \in Session : WF_<<vars, cvars>>(Create(s) /\ UNCHANGED cvars)
  /\ \A r \in Request :
       WF_<<vars, cvars>>((ServerWrite(r) \/ Unheard(r)) /\ UNCHANGED cvars)

ClientFairSpec == ClientSpec /\ ClientFairness

-----------------------------------------------------------------------------
(* Properties. *)

(* The client never runs ahead of the server: what it takes as sent of its *)
(* own session is staged, or was published, unless the session is over.    *)
NeverAhead ==
  \A s \in Session :
    cpc[s] = "loop" /\ s \in row /\ pubs[s] = 0 => stage[s] >= off[s]

(* A client comes to an end, however often it is answered with a conflict. *)
ClientEnds == \A s \in Session : <>(cpc[s] \in {"done", "failed"})

(* A transfer the interface reports as done (Browser.tsx, on the return of *)
(* uploadFile) has been published: files.md, "A partial upload lives       *)
(* outside any listing until it completes, then appears in one atomic      *)
(* step".                                                                  *)
DoneIsPublished == \A s \in Session : cpc[s] = "done" => pubs[s] > 0

=============================================================================
