------------------------------ MODULE Namespace ------------------------------
(***************************************************************************)
(* The tree of files as requests change it: Move, MkdirAll, Copy and       *)
(* CopyTree of internal/storage, the trash (internal/trash over            *)
(* internal/storage/trash.go), and the rows keyed by path that handlers    *)
(* carry along: owners and permission rules. The file system is the truth; *)
(* a request changes it and then the database, in steps that nothing joins *)
(* and no lock protects, while other requests do the same.                 *)
(*                                                                         *)
(* An entry is a node. Where a node stands is its folder and its name      *)
(* there, so that a rename, which moves a whole subtree at once, is one    *)
(* assignment. A request that is refused before it has changed anything is *)
(* left out, and so is who an owner is: what matters of a row in           *)
(* file_owners or acl is the path it is keyed by.                          *)
(***************************************************************************)
EXTENDS Integers, FiniteSets, SequencesExt

CONSTANTS
  Request,    (* Request goroutines; retention and copy jobs run as such.  *)
  Top, Inner, (* The names that requests use, at the root and in a folder. *)
  Recorded,   (* Whether the first entries have owners and rules.          *)
  MaxNodes,   (* Bound: nodes, a full disk.                                *)
  MaxCalls,   (* Bound: requests.                                          *)
  MaxDays,    (* Bound: the clock of the retention policy.                 *)
  MaxTroubles (* Bound: failing statements and file operations, and ends   *)
              (* of the process.                                           *)

Node    == 1..MaxNodes
Root    == 0
Trash   == -1  (* The reserved directory of trashed entries.               *)
Temp    == -2  (* The reserved directory of copies in the making.          *)
Nowhere == -3
Absent  == [in |-> Nowhere, as |-> Nowhere]

ASSUME NamespaceAssumption ==
  /\ Cardinality(Top) >= 2 /\ Inner # {}
  /\ Nowhere \notin Top \cup Inner
  /\ Recorded \in BOOLEAN
  /\ MaxNodes \in Nat /\ MaxNodes >= 3
  /\ {MaxCalls, MaxDays, MaxTroubles} \subseteq Nat

Path == {<<x>> : x \in Top} \cup {<<x, y>> : x \in Top, y \in Inner}

NoRow == [id |-> 0, name |-> 0, path |-> <<>>, day |-> 0]
Blank == [step |-> "idle", mode |-> "one", from |-> <<>>, to |-> <<>>,
          item |-> NoRow, queue |-> {}, node |-> Nowhere, todo |-> {}, missed |-> {}]

VARIABLES
  at,      (* at[n]: the folder node n stands in, and its name there.      *)
  folder,  (* The nodes that are folders.                                  *)
  born,    (* How many nodes there have been.                              *)
  rows,    (* The table trash.                                             *)
  names,   (* How many names have been drawn for trashed entries.          *)
  owners,  (* The paths of file_owners.                                    *)
  rules,   (* The paths of acl, for one subject.                           *)
  day,     (* The clock of the retention policy.                           *)
  req,     (* req[r]: how far request r is, and what it has read; in       *)
           (* missed, an observation, what a copy could not look at.       *)
  kept,    (* Observation: what a copy has listed and nothing has moved.   *)
  calls, faults, stops

tree   == <<at, folder, born>>
tables == <<rows, names, owners, rules>>
bounds == <<calls, faults, stops>>
vars   == <<tree, tables, day, req, kept, bounds>>

-----------------------------------------------------------------------------
(* The file system. *)

Children(d) == {n \in Node : at[n].in = d}
Entry(d, x) == IF \E n \in Node : at[n] = [in |-> d, as |-> x]
                 THEN CHOOSE n \in Node : at[n] = [in |-> d, as |-> x]
                 ELSE Nowhere
Walk(d, p)  == FoldLeft(Entry, d, p)
Find(p)     == Walk(Root, p)
Exists(p)   == Find(p) # Nowhere
IsFolder(d) == d = Root \/ d \in folder
Present(n)  == at[n].in # Nowhere

(* The nodes of some subtrees, and of one.                                 *)
Beneath[S \in SUBSET Node] ==
  LET more == S \cup {m \in Node : at[m].in \in S}
  IN  IF more = S THEN S ELSE Beneath[more]
Inside(n) == Beneath[{n}]

(* rename(2): a file takes the place of a file, a folder that of an empty  *)
(* folder, and no folder moves into itself.                                *)
CanRename(n, to) ==
  LET d == Find(Front(to))
      e == Entry(d, Last(to)) IN
  /\ IsFolder(d) /\ d \notin Inside(n)
  /\ \/ e = Nowhere
     \/ e # n /\ Children(e) = {} /\ (e \in folder <=> n \in folder)

(* Node n comes to stand at <<d, x>> for request r.                        *)
Place(r, n, d, x) ==
  LET e == Entry(d, x) IN
  /\ at' = [m \in Node |-> IF m = n THEN [in |-> d, as |-> x]
                           ELSE IF m = e THEN Absent ELSE at[m]]
  /\ kept' = [q \in Request |-> IF q = r THEN {} ELSE
                {k \in kept[q] : k.node # e /\ k.node \notin Inside(n)}]

Rename(r, n, to) == Place(r, n, Find(Front(to)), Last(to))

(* Request r takes some nodes away.                                        *)
Unlink(r, gone) ==
  /\ at' = [m \in Node |-> IF m \in gone THEN Absent ELSE at[m]]
  /\ kept' = [q \in Request |-> IF q = r THEN {} ELSE {k \in kept[q] : k.node \notin gone}]

-----------------------------------------------------------------------------
(* Requests. *)

Arrive(r) ==
  /\ req[r].step = "idle"
  /\ calls < MaxCalls /\ calls' = calls + 1
  /\ UNCHANGED <<faults, stops>>

Begin(r, request) == req' = [req EXCEPT ![r] = request]
Goto(r, step)     == req' = [req EXCEPT ![r].step = step]
Done(r)           == req' = [req EXCEPT ![r] = Blank]
NoFault           == UNCHANGED bounds
Fault ==
  /\ faults + stops < MaxTroubles /\ faults' = faults + 1
  /\ UNCHANGED <<calls, stops>>

(* What a path becomes when from is renamed to to.                         *)
Rebased(p, from, to) ==
  IF IsPrefix(from, p) THEN to \o SubSeq(p, Len(from) + 1, Len(p)) ELSE p

(* The UPDATE of MoveFileOwner and MoveACLSubtree. It fails as a whole     *)
(* when a path it writes is the key of another row.                        *)
Conflict(keys, from, to) ==
  \E p \in keys : IsPrefix(from, p) /\ Rebased(p, from, to) \in keys
Carried(keys, from, to) == {Rebased(p, from, to) : p \in keys}

-----------------------------------------------------------------------------
(* Move and its handler. *)

Move(r, from, to) ==
  /\ Arrive(r)
  /\ ~IsPrefix(from, to)
  /\ Exists(from) /\ CanRename(Find(from), to)
  /\ Rename(r, Find(from), to)
  /\ Begin(r, [Blank EXCEPT !.step = "m_owner", !.from = from, !.to = to])
  /\ UNCHANGED <<folder, born, tables, day>>

MoveOwner(r) ==
  /\ req[r].step = "m_owner"
  /\ \/ /\ NoFault
        /\ IF Conflict(owners, req[r].from, req[r].to)
             THEN Done(r) /\ UNCHANGED owners
             ELSE /\ owners' = Carried(owners, req[r].from, req[r].to)
                  /\ Goto(r, "m_rules")
     \/ Fault /\ Done(r) /\ UNCHANGED owners
  /\ UNCHANGED <<tree, rows, names, rules, day, kept>>

MoveRules(r) ==
  /\ req[r].step = "m_rules"
  /\ Done(r)
  /\ \/ /\ NoFault
        /\ rules' = IF Conflict(rules, req[r].from, req[r].to)
                      THEN rules ELSE Carried(rules, req[r].from, req[r].to)
     \/ Fault /\ UNCHANGED rules
  /\ UNCHANGED <<tree, rows, names, owners, day, kept>>

(* MkdirAll makes what is missing of the path. Nobody is recorded as the   *)
(* owner.                                                                  *)
MkdirAll(r, p) ==
  LET missing == {k \in 1..Len(p) : ~Exists(SubSeq(p, 1, k))}
      first   == Len(p) - Cardinality(missing) + 1
      made    == born + 1 .. born + Cardinality(missing) IN
  /\ Arrive(r)
  /\ missing # {} /\ made \subseteq Node
  /\ IsFolder(Find(SubSeq(p, 1, first - 1)))
  /\ at' = [n \in Node |->
       IF n \notin made THEN at[n]
       ELSE [in |-> IF n = born + 1 THEN Find(SubSeq(p, 1, first - 1)) ELSE n - 1,
             as |-> p[n - born + first - 1]]]
  /\ folder' = folder \cup made
  /\ born' = born + Cardinality(missing)
  /\ UNCHANGED <<tables, day, req, kept>>

-----------------------------------------------------------------------------
(* Copy and CopyTree, with the owner recorded afterwards. *)

Listing(n, q) == {[rel |-> Append(q, at[m].as), node |-> m] : m \in Children(n)}

(* Node t becomes the copy of node n, and n is listed if it is a folder.   *)
CopyNode(r, n, t, where, q) ==
  /\ born' = t
  /\ at' = [at EXCEPT ![t] = where]
  /\ folder' = IF n \in folder THEN folder \cup {t} ELSE folder
  /\ kept' = [kept EXCEPT ![r] = @ \cup Listing(n, q)]

(* Mutant: one temporary name for every copy.                              *)
TempNameFixed(t) == Temp

(* The random name of a temporary entry.                                   *)
TempName(t) == t

(* The look at the source and the destination, and the temporary entry.    *)
Copy(r, from, to) ==
  LET n == Find(from)
      t == born + 1 IN
  /\ Arrive(r)
  /\ Exists(from) /\ ~Exists(to) /\ IsFolder(Find(Front(to)))
  /\ t \in Node
  /\ CopyNode(r, n, t, [in |-> Temp, as |-> TempName(t)], <<>>)
  /\ Begin(r, [Blank EXCEPT !.step = "c_entry", !.from = from, !.to = to, !.node = t,
                             !.todo = {k.rel : k \in Listing(n, <<>>)}])
  /\ UNCHANGED <<tables, day>>

(* Mutant: an error leaves what has been made.                             *)
AbandonKeepsTemp(r) ==
  /\ kept' = [kept EXCEPT ![r] = {}]
  /\ Done(r)
  /\ UNCHANGED tree

(* An error drops what has been made. That the removal fails as well, an   *)
(* error the code ignores, is left out.                                    *)
Abandon(r) ==
  /\ Unlink(r, Inside(req[r].node))
  /\ Done(r)
  /\ UNCHANGED <<folder, born>>

(* Mutant: an entry that was looked at and cannot be copied is passed      *)
(* over as well.                                                           *)
CopyEntrySkipsContent(r) ==
  /\ req[r].step = "c_entry"
  /\ \E q \in req[r].todo :
       /\ Exists(req[r].from \o q)
       /\ req' = [req EXCEPT ![r].todo = @ \ {q}]
  /\ Fault
  /\ UNCHANGED <<tree, tables, day, kept>>

(* One entry of a folder, found by its path. One that has vanished is      *)
(* passed over, and so is one that cannot be looked at, whatever the       *)
(* error. When the look succeeds an error ends the copy: a full disk, or   *)
(* an entry gone by the time it is opened. The walk goes down before it    *)
(* goes on. There are files and folders only.                              *)
CopyEntry(r) ==
  /\ req[r].step = "c_entry"
  /\ \E q \in req[r].todo :
       LET n == Find(req[r].from \o q)
           t == born + 1
           rest == req[r].todo \ {q} IN
       /\ \A p \in req[r].todo : Len(p) <= Len(q)
       /\ \/ /\ NoFault /\ n = Nowhere
             /\ req' = [req EXCEPT ![r].todo = rest]
             /\ UNCHANGED <<tree, kept>>
          \/ /\ Fault /\ n # Nowhere
             /\ req' = [req EXCEPT ![r].todo = rest, ![r].missed = @ \cup {q}]
             /\ UNCHANGED <<tree, kept>>
          \/ /\ NoFault /\ n # Nowhere /\ t \in Node
             /\ CopyNode(r, n, t, [in |-> Walk(req[r].node, Front(q)), as |-> Last(q)], q)
             /\ req' = [req EXCEPT ![r].todo = rest \cup {k.rel : k \in Listing(n, q)}]
          \/ NoFault /\ (n = Nowhere \/ t \notin Node) /\ Abandon(r)
          \/ Fault /\ Abandon(r)
  /\ UNCHANGED <<tables, day>>

(* The copy is whole and takes its place, whatever is there by now.        *)
CopyRename(r) ==
  /\ req[r].step = "c_entry" /\ req[r].todo = {}
  /\ IF CanRename(req[r].node, req[r].to)
       THEN Rename(r, req[r].node, req[r].to) /\ Goto(r, "c_owner")
            /\ UNCHANGED <<folder, born>>
       ELSE Abandon(r)
  /\ UNCHANGED <<tables, day, bounds>>

-----------------------------------------------------------------------------
(* Deleting: the entry is renamed into the trash, then the row is written. *)

TrashNode(w) == Entry(Trash, w.name)

(* Mutant: in the trash an entry keeps its own name.                       *)
TrashNameOwn(p) == Last(p)

(* The random name of a trashed entry.                                     *)
TrashName(p) == names + 1

Delete(r, p) ==
  /\ Arrive(r)
  /\ Exists(p)
  /\ names' = names + 1
  /\ Place(r, Find(p), Trash, TrashName(p))
  /\ Begin(r, [Blank EXCEPT !.step = "d_record",
                 !.item = [id |-> 0, name |-> TrashName(p), path |-> p, day |-> day]])
  /\ UNCHANGED <<folder, born, rows, owners, rules, day>>

(* SQLite gives an INTEGER PRIMARY KEY the number after the largest one    *)
(* there is, so a number comes back when its row was the last.             *)
FreshId == IF rows = {} THEN 1
           ELSE 1 + (CHOOSE w \in rows : \A v \in rows : v.id <= w.id).id

CreateTrash(r) ==
  /\ req[r].step = "d_record"
  /\ \/ /\ NoFault
        /\ rows' = rows \cup {[req[r].item EXCEPT !.id = FreshId]}
        /\ Goto(r, "d_clear")
     \/ Fault /\ UNCHANGED rows /\ Goto(r, "u_look")
  /\ UNCHANGED <<tree, names, owners, rules, day, kept>>

(* The owner of the path alone, not of what was beneath it.                *)
ClearOwner(r) ==
  /\ req[r].step = "d_clear"
  /\ Done(r)
  /\ \/ NoFault /\ owners' = owners \ {req[r].item.path}
     \/ Fault /\ UNCHANGED owners
  /\ UNCHANGED <<tree, rows, names, rules, day, kept>>

-----------------------------------------------------------------------------
(* Restoring, by request or because the row could not be written. *)

Restore(r, w) ==
  /\ Arrive(r)
  /\ Begin(r, [Blank EXCEPT !.step = "r_look", !.item = w])
  /\ UNCHANGED <<tree, tables, day, kept>>

(* The trashed entry is there, its parent too, and its place is free. An   *)
(* undone deletion may also be refused: its caller is gone, or was allowed *)
(* to delete and not to write.                                             *)
RestoreLook(r) ==
  LET w == req[r].item IN
  /\ req[r].step \in {"r_look", "u_look"}
  /\ \/ /\ TrashNode(w) # Nowhere
        /\ IsFolder(Find(Front(w.path))) /\ ~Exists(w.path)
        /\ Goto(r, IF req[r].step = "r_look" THEN "r_rename" ELSE "u_rename")
     \/ /\ \/ req[r].step = "u_look" \/ TrashNode(w) = Nowhere
           \/ ~IsFolder(Find(Front(w.path))) \/ Exists(w.path)
        /\ Done(r)
  /\ UNCHANGED <<tree, tables, day, kept, bounds>>

RestoreRename(r) ==
  LET w == req[r].item
      n == TrashNode(w) IN
  /\ req[r].step \in {"r_rename", "u_rename"}
  /\ IF n # Nowhere /\ CanRename(n, w.path)
       THEN /\ Rename(r, n, w.path)
            /\ IF req[r].step = "r_rename" THEN Goto(r, "r_row") ELSE Done(r)
       ELSE Done(r) /\ UNCHANGED <<at, kept>>
  /\ UNCHANGED <<folder, born, tables, day, bounds>>

-----------------------------------------------------------------------------
(* Purging: one item, all of them, or those that are old enough. *)

Purge(r, w) ==
  /\ Arrive(r)
  /\ Begin(r, [Blank EXCEPT !.step = "p_open", !.item = w])
  /\ UNCHANGED <<tree, tables, day, kept>>

(* Empty works on the rows it has listed, the newest first.                *)
Empty(r) ==
  /\ Arrive(r)
  /\ rows # {}
  /\ Begin(r, [Blank EXCEPT !.step = "next", !.mode = "all", !.queue = rows])
  /\ UNCHANGED <<tree, tables, day, kept>>

(* PurgeExpired lists the rows, and then purges by their numbers.          *)
PurgeExpired(r) ==
  LET old == {w \in rows : w.day < day} IN
  /\ Arrive(r)
  /\ old # {}
  /\ Begin(r, [Blank EXCEPT !.step = "next", !.mode = "expired", !.queue = old])
  /\ UNCHANGED <<tree, tables, day, kept>>

Take(r, w, v) ==
  req' = [req EXCEPT ![r].step = "p_open", ![r].item = v, ![r].queue = @ \ {w}]

(* Purge reads the row again by its number, and PurgeExpired gives up when *)
(* there is none; Empty goes by what it has read.                          *)
TakeNext(r) ==
  /\ req[r].step = "next"
  /\ \E w \in req[r].queue :
       /\ \A v \in req[r].queue : v.day <= w.day
       /\ \/ req[r].mode = "all" /\ Take(r, w, w)
          \/ /\ req[r].mode = "expired"
             /\ \/ \E v \in rows : v.id = w.id /\ Take(r, w, v)
                \/ (\A v \in rows : v.id # w.id) /\ Done(r)
  /\ UNCHANGED <<tree, tables, day, kept, bounds>>

(* PurgeTrash, which does not mind if the entry is gone. A file goes at    *)
(* once; a folder is opened, and goes after everything in it.              *)
PurgeOpen(r) ==
  LET n == TrashNode(req[r].item) IN
  /\ req[r].step = "p_open"
  /\ \/ /\ NoFault /\ n \in folder
        /\ req' = [req EXCEPT ![r].step = "p_remove", ![r].node = n]
        /\ UNCHANGED <<at, kept>>
     \/ /\ NoFault /\ n \notin folder
        /\ Unlink(r, {n}) /\ Goto(r, "p_row")
     \/ Fault /\ Done(r) /\ UNCHANGED <<at, kept>>
  /\ UNCHANGED <<folder, born, tables, day>>

(* The open folder is emptied wherever it stands by now, and is removed if *)
(* it still is in the trash.                                               *)
PurgeRemove(r) ==
  LET n == req[r].node IN
  /\ req[r].step = "p_remove"
  /\ \/ /\ NoFault
        /\ \E m \in Inside(n) \ {n} : Children(m) = {} /\ Unlink(r, {m})
        /\ UNCHANGED req
     \/ /\ NoFault /\ Children(n) = {}
        /\ IF TrashNode(req[r].item) = n THEN Unlink(r, {n}) ELSE UNCHANGED <<at, kept>>
        /\ req' = [req EXCEPT ![r].step = "p_row", ![r].node = Nowhere]
     \/ Fault /\ Done(r) /\ UNCHANGED <<at, kept>>
  /\ UNCHANGED <<folder, born, tables, day>>

(* Mutant: a purge that forgets the row of what it has removed.            *)
DeleteTrashOnRestore(r) ==
  /\ req[r].step \in {"p_row", "r_row"}
  /\ rows' = IF req[r].step = "r_row" THEN {w \in rows : w.id # req[r].item.id} ELSE rows
  /\ IF req[r].step = "r_row" THEN Goto(r, "r_owner") ELSE Done(r)
  /\ UNCHANGED <<tree, names, owners, rules, day, kept, bounds>>

(* DeleteTrash, by number, after a purge and after a restore.              *)
DeleteTrash(r) ==
  /\ req[r].step \in {"p_row", "r_row"}
  /\ \/ /\ NoFault
        /\ rows' = {w \in rows : w.id # req[r].item.id}
        /\ IF req[r].step = "r_row" THEN Goto(r, "r_owner")
           ELSE IF req[r].queue = {} THEN Done(r) ELSE Goto(r, "next")
     \/ Fault /\ Done(r) /\ UNCHANGED rows
  /\ UNCHANGED <<tree, names, owners, rules, day, kept>>

(* SetOwner at the destination, after a copy and after a restore.          *)
SetOwner(r) ==
  /\ req[r].step \in {"c_owner", "r_owner"}
  /\ Done(r)
  /\ \/ /\ NoFault
        /\ owners' = owners \cup
             {IF req[r].step = "c_owner" THEN req[r].to ELSE req[r].item.path}
     \/ Fault /\ UNCHANGED owners
  /\ UNCHANGED <<tree, rows, names, rules, day, kept>>

-----------------------------------------------------------------------------
NextDay ==
  /\ day < MaxDays /\ day' = day + 1
  /\ UNCHANGED <<tree, tables, req, kept, bounds>>

(* The process ends and another one starts: the requests are gone, and     *)
(* nothing looks for what they left half done.                             *)
Restart ==
  /\ faults + stops < MaxTroubles /\ stops' = stops + 1
  /\ req' = [r \in Request |-> Blank]
  /\ kept' = [r \in Request |-> {}]
  /\ UNCHANGED <<tree, tables, day, calls, faults>>

(* The first tree: a folder with a file in it, and another file.           *)
Init ==
  \E x, y \in Top, z \in Inner :
    /\ x # y
    /\ at = [n \in Node |-> CASE n = 1 -> [in |-> Root, as |-> x]
                              [] n = 2 -> [in |-> 1, as |-> z]
                              [] n = 3 -> [in |-> Root, as |-> y]
                              [] OTHER -> Absent]
    /\ folder = {1}
    /\ born = 3
    /\ rows = {} /\ names = 0
    /\ owners = IF Recorded THEN {<<x>>, <<x, z>>, <<y>>} ELSE {}
    /\ rules = owners
    /\ day = 0
    /\ req = [r \in Request |-> Blank]
    /\ kept = [r \in Request |-> {}]
    /\ calls = 0 /\ faults = 0 /\ stops = 0

Call(r) ==
  \/ \E p \in Path : MkdirAll(r, p) \/ Delete(r, p)
  \/ \E from, to \in Path : Move(r, from, to) \/ Copy(r, from, to)
  \/ \E w \in rows : Restore(r, w) \/ Purge(r, w)
  \/ Empty(r) \/ PurgeExpired(r)

Step(r) ==
  \/ MoveOwner(r) \/ MoveRules(r)
  \/ CopyEntry(r) \/ CopyRename(r)
  \/ CreateTrash(r) \/ ClearOwner(r)
  \/ RestoreLook(r) \/ RestoreRename(r)
  \/ TakeNext(r) \/ PurgeOpen(r) \/ PurgeRemove(r)
  \/ DeleteTrash(r) \/ SetOwner(r)

Next ==
  \/ \E r \in Request : Call(r) \/ Step(r)
  \/ NextDay \/ Restart

Spec == Init /\ [][Next]_vars

-----------------------------------------------------------------------------
(* Properties. *)

Quiet == \A r \in Request : req[r].step = "idle"

(* The state is well formed and the tree is one: every entry stands in a   *)
(* folder that is there, no two at one place, and no folder inside itself. *)
NamespaceTypeOK ==
  /\ folder \subseteq 1..born /\ born \in 0..MaxNodes
  /\ \A n \in Node :
       /\ at[n].in \in {Root, Trash, Temp, Nowhere} \cup folder
       /\ at[n].in \in Node => Present(at[n].in) /\ at[n].in # n
       /\ \A m \in Node : Present(n) /\ at[m] = at[n] => m = n
       /\ n > born => ~Present(n)
  /\ \A w \in rows : w.name \in 1..names /\ w.path \in Path /\ w.day \in 0..day
  /\ \A w, v \in rows : w.id = v.id \/ w.name = v.name => w = v
  /\ \A p \in owners \cup rules : p \in Seq(Top \cup Inner)

(* Nothing vanishes: an entry ceases to exist because a purge of the       *)
(* trashed entry it is in was asked for, because something was renamed     *)
(* onto it in the visible tree, or as part of a copy that was abandoned.   *)
NothingVanishes ==
  [][\A n \in Node : Present(n) /\ ~Present(n)' =>
       \/ \E r \in Request : req[r].step = "p_open" /\ TrashNode(req[r].item) = n
       \/ \E r \in Request : req[r].step = "p_remove" /\ n \in Inside(req[r].node)
       \/ at[n].in \in folder \cup {Root} /\ \E m \in Node : at'[m] = at[n]
       \/ \E r \in Request : req[r].step = "c_entry" /\ n \in Inside(req[r].node)]_vars

(* At rest, and unless a statement has failed or the process has ended,    *)
(* every row of the trash has its entry, whoever restored and purged what  *)
(* at the same time, and however often a row's number has been reused.     *)
RowsHaveEntries ==
  Quiet /\ faults + stops = 0 => \A w \in rows : TrashNode(w) # Nowhere

(* A tree that is published as a copy has everything that was listed,      *)
(* could be looked at and has stayed where it was until then: whatever     *)
(* fails after the look ends the copy.                                     *)
CopyIsWhole ==
  [][\A r \in Request : req[r].step = "c_entry" /\ req'[r].step = "c_owner" =>
       \A k \in kept[r] : k.rel \in req[r].missed \/ Walk(req[r].node, k.rel) # Nowhere]_vars

(* storage/copy.go: "an interrupted copy never leaves a partial tree where *)
(* callers can see it". What is published has everything that was listed   *)
(* and has stayed.                                                         *)
CopyMissesNothing ==
  [][\A r \in Request : req[r].step = "c_entry" /\ req'[r].step = "c_owner" =>
       \A k \in kept[r] : Walk(req[r].node, k.rel) # Nowhere]_vars

(* However a copy ended, its temporary tree is gone; only the end of the   *)
(* process leaves one.                                                     *)
NoTempLeft == Quiet /\ stops = 0 => Children(Temp) = {}

(* trash/service.go: "PurgeExpired permanently removes items deleted       *)
(* before the cutoff".                                                     *)
RetentionSparesNew ==
  \A r \in Request : req[r].mode = "expired" /\ req[r].step \in {"p_open", "p_remove"} =>
    req[r].item.day < day

(* fs_handlers.go: "a rename has to carry them across". When a move is     *)
(* over, no rule is left behind.                                           *)
MoveCarriesRules ==
  [][\A r \in Request :
       req[r].step \in {"m_owner", "m_rules"} /\ req'[r].step = "idle"
         /\ faults' + stops' = 0 =>
       \A p \in rules' : ~IsPrefix(req[r].from, p)]_vars

=============================================================================
