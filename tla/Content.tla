------------------------------ MODULE Content -------------------------------
(***************************************************************************)
(* The content origin: signed links, archives made on the fly and public   *)
(* shares, all read with the rights of one account (internal/content,      *)
(* internal/share, acl/loader.go and the handlers that mint the links).    *)
(*                                                                         *)
(* A folder Top, which is not the root, holds the files. A link carries    *)
(* the number of an account, which is handed out again after a deletion:   *)
(* `bearer' counts its bearers. What the number may read is decided anew   *)
(* at every question (module Acl). A request verifies its link, reads the  *)
(* account, and asks the storage for each thing it serves; links, rights,  *)
(* files and the account change in between. A request holds the facts that *)
(* changed since it began: each of them held at some moment of it, and     *)
(* failed at some other. Headers, pages and ranges of bytes are left out.  *)
(***************************************************************************)
EXTENDS Integers, Sequences, FiniteSets

CONSTANTS
  Request,
  File, Top,
  Selections,     \* the sequences of paths a bundle may name
  Rights,         \* [read, lead]: what some set of rules grants, and what it leads to
  MaxLinks,       \* links and shares ever made
  MaxDownloads,   \* counted on one share
  MaxChanges,     \* withdrawals and their opposites, deletions and new bearers
  MaxTroubles     \* restarts and errors of the disk

\* A link names at least one path (handleBundleLink, VerifyBundle). What leads to something beneath a file leads to
\* something beneath Top (hasReadUnder).
ASSUME ContentAssumption ==
  /\ Top \notin File /\ Selections \subseteq Seq(File \cup {Top}) \ {<<>>}
  /\ Rights \subseteq [read : SUBSET (File \cup {Top}), lead : SUBSET (File \cup {Top})]
  /\ \A rt \in Rights : rt.lead # {} => Top \in rt.lead
  /\ MaxLinks \in Nat /\ MaxDownloads \in Nat /\ MaxChanges \in Nat /\ MaxTroubles \in Nat

VARIABLES
  present, readable, leading,   \* files on disk, paths the number may read, paths above a rule that grants read
  account, bearer,              \* enabled, disabled or gone, and which bearer of its number it is
  links, shares,                \* [id, by, paths, over] and [id, by, path, password, revoked, over, count, log]
  made, call, changes, troubles

vars == <<present, readable, leading, account, bearer, links, shares, made, call, changes, troubles>>

Path == File \cup {Top}
Exists(p) == p = Top \/ p \in present
\* withinShare, and what a selected path takes with it.
Within(root, p) == root = Top \/ p = root
\* Stat and Open answer alike for what is not there and for what may not be read.
Reached(p) == Exists(p) /\ p \in readable
\* A folder is listed, and an entry shown, if it may be read or leads to what may be read.
CanList(p) == p \in readable \cup leading
VisibleChildren(ps) == {p \in ps : p \in readable \cup leading}

\* `by' is the bearer of the number when the link or share was asked for; nothing in the code knows it.
Idle == [pc |-> "idle", kind |-> "link", id |-> 0, by |-> 0, root |-> <<>>, target |-> Top, head |-> FALSE,
         files |-> {}, in |-> {}, aborted |-> FALSE, unsettled |-> {}]

Calls(r, c) == call' = [call EXCEPT ![r] = c]
Goes(r, pc) == Calls(r, [call[r] EXCEPT !.pc = pc])
Ends(r) == Calls(r, Idle)
At(r, kind, pc) == call[r].kind = kind /\ call[r].pc = pc
World == UNCHANGED <<present, readable, leading, account, bearer>>
Reads == World /\ UNCHANGED <<links, shares, made, changes, troubles>>

------------------------------------------------------------------------------
(* Making links.                                                           *)

\* handleLink and handleBundleLink: the paths are read once more when the link is used.
Sign(paths) ==
  /\ made < MaxLinks /\ account = "enabled" /\ \A i \in DOMAIN paths : Reached(paths[i])
  /\ made' = made + 1 /\ links' = links \cup {[id |-> made + 1, by |-> bearer, paths |-> paths, over |-> FALSE]}
  /\ World /\ UNCHANGED <<shares, call, changes, troubles>>

\* Create: the path is found, the engine says whether it may be shared, and the row is written.
StartShare(r, p, password) ==
  /\ call[r].pc = "idle" /\ account = "enabled"
  /\ Reached(p) /\ ~(p = Top /\ password)
  /\ Calls(r, [Idle EXCEPT !.pc = "insert", !.kind = "create", !.by = bearer, !.target = p, !.head = password]) /\ Reads

\* The row is refused by the foreign key if nobody bears the number.
CreateShare(r) ==
  /\ At(r, "create", "insert") /\ made < MaxLinks
  /\ made' = made + 1 /\ Ends(r)
  /\ shares' = IF account = "gone" THEN shares
               ELSE shares \cup {[id |-> made + 1, by |-> call[r].by, path |-> call[r].target,
                                  password |-> call[r].head, revoked |-> FALSE, over |-> FALSE, count |-> 0, log |-> 0]}
  /\ World /\ UNCHANGED <<links, changes, troubles>>

------------------------------------------------------------------------------
(* Serving.                                                                *)

\* Verify and VerifyBundle: the signature, which a restart makes void, and the time.
GetLink(id) == {l \in links : l.id = id /\ ~l.over}

StartLink(r, id, kind) ==
  /\ call[r].pc = "idle"
  /\ \E l \in GetLink(id) :
       /\ IF kind = "zip" THEN TRUE ELSE Len(l.paths) = 1 /\ l.paths[1] # Top
       /\ Calls(r, [Idle EXCEPT !.pc = "context", !.kind = kind, !.id = id, !.by = l.by, !.root = l.paths,
                             !.target = l.paths[1]])
  /\ Reads

\* Resolve: revoked, then expired, then the password.
Resolve(id, password) == {s \in shares : s.id = id /\ ~s.revoked /\ ~s.over /\ (s.password => password)}

\* handleShare: `p' names what is wanted beneath the shared path.
StartResolve(r, id, password, p, head) ==
  /\ call[r].pc = "idle"
  /\ \E s \in Resolve(id, password) :
       Calls(r, [Idle EXCEPT !.pc = "context", !.kind = "share", !.id = id, !.by = s.by, !.root = <<s.path>>,
                             !.target = p, !.head = head])
  /\ Reads

\* Mutant: the account is not read again.
ContextForAnyone(r) == account # "gone"
\* ContextFor: the account that bears the number of the link, as it is now.
ContextFor(r) == account = "enabled"

Context(r) ==
  /\ call[r].pc = "context"
  /\ IF ~ContextFor(r) \/ (call[r].kind = "share" /\ ~Within(call[r].root[1], call[r].target)) THEN Ends(r)
     ELSE Goes(r, IF call[r].kind = "zip" THEN "walk" ELSE "stat")
  /\ Reads

\* handleDownload and handleShare: Stat, then either the listing of a folder or the file.
Stat(r) ==
  /\ call[r].pc = "stat"
  /\ IF ~Reached(call[r].target) THEN Ends(r)
     ELSE Goes(r, IF call[r].target = Top THEN "browse" ELSE "open")
  /\ Reads

\* List: what it shows of Top.
Listing == VisibleChildren(present)
Browse(r) ==
  /\ call[r].pc = "browse"
  /\ IF CanList(Top) THEN Calls(r, [call[r] EXCEPT !.pc = "sent", !.in = Listing]) ELSE Ends(r)
  /\ Reads

Open(r) ==
  /\ call[r].pc = "open"
  /\ IF ~Reached(call[r].target) THEN Ends(r)
     ELSE Calls(r, [call[r] EXCEPT !.pc = IF call[r].kind = "share" /\ ~call[r].head THEN "count" ELSE "sent",
                                   !.in = {call[r].target}])
  /\ Reads

\* RecordDownload: two statements; an error in either is not the holder's.
IncrementShareDownloads(r) ==
  /\ call[r].pc = "count" /\ Goes(r, "log")
  /\ \A s \in shares : s.id = call[r].id => s.count < MaxDownloads
  /\ shares' = {IF s.id = call[r].id THEN [s EXCEPT !.count = @ + 1] ELSE s : s \in shares}
  /\ World /\ UNCHANGED <<links, made, changes, troubles>>
LogShareAccess(r) ==
  /\ call[r].pc = "log" /\ Goes(r, "sent")
  /\ shares' = {IF s.id = call[r].id THEN [s EXCEPT !.log = @ + 1] ELSE s : s \in shares}
  /\ World /\ UNCHANGED <<links, made, changes, troubles>>

\* The body has been sent; or the client hangs up before.
Hangup(r) == call[r].pc # "idle" /\ Ends(r) /\ Reads

------------------------------------------------------------------------------
(* handleZip: the selection, path by path, in one archive.                 *)

\* The archive is closed after an error too.
Abort(r) == Calls(r, [call[r] EXCEPT !.pc = "close", !.files = {}, !.aborted = TRUE])

Takes(r, files) == Calls(r, [call[r] EXCEPT !.pc = "walk", !.root = Tail(@), !.files = files])

\* addToZip: Stat, then the file or the folder.
AddToZip(r) ==
  /\ call[r].pc = "walk" /\ call[r].files = {} /\ call[r].root # <<>>
  /\ LET p == Head(call[r].root) IN
     IF ~Reached(p) THEN Abort(r) ELSE IF p = Top THEN Goes(r, "list") ELSE Takes(r, {p})
  /\ Reads

\* zipDir: what the folder lists.
ZipDir(r) ==
  /\ call[r].pc = "list"
  /\ IF CanList(Top) THEN Takes(r, Listing) ELSE Abort(r)
  /\ Reads

\* zipFile skips what vanished or turned unreadable.
ZipFile(r, f) ==
  /\ call[r].pc = "walk" /\ f \in call[r].files
  /\ Calls(r, [call[r] EXCEPT !.files = @ \ {f}, !.in = @ \cup {g \in {f} : Reached(f)}])
  /\ Reads

\* Mutant: a file whose bytes cannot be read is passed over.
PassOver(r, f) == Calls(r, [call[r] EXCEPT !.files = @ \ {f}])
\* Any other error ends the archive where it is.
StopThere(r, f) == Abort(r)
DiskError(r, f) ==
  /\ call[r].pc = "walk" /\ f \in call[r].files
  /\ troubles < MaxTroubles /\ troubles' = troubles + 1 /\ StopThere(r, f)
  /\ World /\ UNCHANGED <<links, shares, made, changes>>

Finish(r) == call[r].pc = "walk" /\ call[r].files = {} /\ call[r].root = <<>> /\ Goes(r, "close") /\ Reads
Close(r) == call[r].pc = "close" /\ Goes(r, "closed") /\ Reads

------------------------------------------------------------------------------
(* What changes meanwhile.                                                 *)

\* Facts are links and shares by their number, paths, and 0 for the account.
Unsettle(facts) ==
  call' = [r \in Request |-> IF call[r].pc \in {"idle", "insert"} THEN call[r] ELSE [call[r] EXCEPT !.unsettled = @ \cup facts]]
Change == changes < MaxChanges /\ changes' = changes + 1 /\ UNCHANGED <<made, troubles>>

RevokeShare(id) ==
  /\ Change /\ \E s \in shares : s.id = id /\ ~s.revoked
  /\ shares' = {IF s.id = id THEN [s EXCEPT !.revoked = TRUE] ELSE s : s \in shares}
  /\ Unsettle({id}) /\ World /\ UNCHANGED links
Expire(id) ==
  /\ Change
  /\ shares' = {IF s.id = id THEN [s EXCEPT !.over = TRUE] ELSE s : s \in shares}
  /\ links' = {IF l.id = id THEN [l EXCEPT !.over = TRUE] ELSE l : l \in links}
  /\ <<links', shares'>> # <<links, shares>>
  /\ Unsettle({id}) /\ World
\* The rules about the number change: the facts are the paths whose reading or showing is another.
Grants(rt) == readable' = rt.read /\ leading' = rt.lead
Regranted(rt) ==
  {p \in Path : (p \in readable) # (p \in rt.read) \/ (p \in readable \cup leading) # (p \in rt.read \cup rt.lead)}
SetRight(rt) ==
  /\ Change /\ rt \in Rights /\ <<rt.read, rt.lead>> # <<readable, leading>>
  /\ Grants(rt) /\ Unsettle(Regranted(rt))
  /\ UNCHANGED <<present, account, bearer, links, shares>>

SetUserDisabled(to) ==
  /\ Change /\ account \notin {to, "gone"} /\ to \in {"enabled", "disabled"} /\ account' = to
  /\ Unsettle({0}) /\ UNCHANGED <<present, readable, leading, bearer, links, shares>>
\* The shares go with the row, and what the account owned; its links do not.
DeleteUser(rt) ==
  /\ Change /\ account # "gone" /\ account' = "gone" /\ shares' = {}
  /\ Grants(rt) /\ Unsettle({0} \cup {s.id : s \in shares} \cup Regranted(rt))
  /\ UNCHANGED <<present, bearer, links>>
\* The next account gets the number, if the deleted one had the highest, and with it whatever rules are left about it.
CreateUser(rt) ==
  /\ Change /\ account = "gone" /\ account' = "enabled" /\ bearer' = bearer + 1
  /\ Grants(rt) /\ Unsettle({0} \cup Regranted(rt))
  /\ UNCHANGED <<present, links, shares>>
\* A file comes or goes, moved from or to somewhere else.
SetFile(f) ==
  /\ Change /\ f \in File
  /\ present' = (IF f \in present THEN present \ {f} ELSE present \cup {f}) /\ Unsettle({f})
  /\ UNCHANGED <<readable, leading, account, bearer, links, shares>>

\* A new process has a new key.
Restart ==
  /\ troubles < MaxTroubles /\ troubles' = troubles + 1
  /\ links' = {} /\ call' = [r \in Request |-> Idle]
  /\ World /\ UNCHANGED <<shares, made, changes>>

Init ==
  /\ present = File /\ account = "enabled" /\ bearer = 0
  /\ \E rt \in Rights : readable = rt.read /\ leading = rt.lead
  /\ links = {} /\ shares = {} /\ made = 0 /\ call = [r \in Request |-> Idle] /\ changes = 0 /\ troubles = 0

Next ==
  \/ \E paths \in Selections : Sign(paths)
  \/ \E r \in Request :
       \/ \E p \in Path, password \in BOOLEAN : StartShare(r, p, password)
       \/ \E id \in 1..made, kind \in {"link", "zip"} : StartLink(r, id, kind)
       \/ \E id \in 1..made, p \in Path, password, head \in BOOLEAN : StartResolve(r, id, password, p, head)
       \/ \E f \in File : ZipFile(r, f) \/ DiskError(r, f)
       \/ CreateShare(r) \/ Context(r) \/ Stat(r) \/ Browse(r) \/ Open(r)
       \/ IncrementShareDownloads(r) \/ LogShareAccess(r)
       \/ AddToZip(r) \/ ZipDir(r) \/ Finish(r) \/ Close(r) \/ Hangup(r)
  \/ \E id \in 1..made : RevokeShare(id) \/ Expire(id)
  \/ \E to \in {"enabled", "disabled"} : SetUserDisabled(to)
  \/ \E rt \in Rights : SetRight(rt) \/ DeleteUser(rt) \/ CreateUser(rt)
  \/ \E f \in File : SetFile(f)
  \/ Restart

Spec == Init /\ [][Next]_vars

------------------------------------------------------------------------------

\* What makes a thing served rightful: it holds, or it held after the request began.
Or(c, fact, holds) == holds \/ fact \in c.unsettled
Alive(id) == (\E l \in links : l.id = id /\ ~l.over) \/ \E s \in shares : s.id = id /\ ~s.revoked /\ ~s.over

\* A listing shows what leads to something readable too; the bytes of a file are for its readers only.
Shown(c, f) == IF c.kind # "zip" /\ c.target = Top THEN Exists(f) /\ f \in readable \cup leading ELSE Reached(f)

\* What leaves on a link was open to the enabled account that bears its number, under a link in force, each at some
\* moment of the request: a right, an account or a link withdrawn before it began serves nothing (signing.go:56-60,
\* loader.go:15-20).
ServedByRight ==
  \A r \in Request : LET c == call[r] IN
    c.in # {} =>
      /\ Or(c, c.id, Alive(c.id)) /\ Or(c, 0, account = "enabled")
      /\ \A f \in c.in : Or(c, f, Shown(c, f))

\* "against the account the link was minted for" (server.go:97-98): what is served goes by the rights of the account
\* that made the link, not of another that bears its number.
ServedAsMaker ==
  \A r \in Request : call[r].in # {} => Or(call[r], 0, call[r].by = bearer)

\* The files a closed archive should hold and does not, though they were there and readable all along.
Missing(c) == {f \in File : Reached(f) /\ f \notin c.unsettled /\ f \notin c.in}
Selected(id) == UNION {{l.paths[i] : i \in DOMAIN l.paths} : l \in {k \in links : k.id = id}}
Holes(c) == IF Top \in Selected(c.id) THEN Missing(c) ELSE Missing(c) \cap Selected(c.id)

\* An archive that no error ended holds every selected file that stayed where it was, whatever came or went around
\* it while it was written (server.go:163-177, 228-233).
ArchiveMissesNothing == \A r \in Request : call[r].pc = "closed" /\ ~call[r].aborted => Holes(call[r]) = {}

\* After an error the archive stops "rather than pretend the archive is whole" (server.go:172-173): what is closed
\* as a whole archive lacks nothing.
ArchiveIsWhole == \A r \in Request : call[r].pc = "closed" => Holes(call[r]) = {}
=============================================================================
