--------------------------------- MODULE Acl ---------------------------------
(***************************************************************************)
(* Who may do what, and where: the resolution of rules                     *)
(* (internal/acl/engine.go) and the life of the rows it reads, accounts,   *)
(* groups, members, rules and owners, under the handlers of                *)
(* internal/api/{group,permission,user}_handlers.go.                       *)
(*                                                                         *)
(* A question is put by an Asker: a request authenticates, loads its       *)
(* subject, and later reads the rules of the account, those of its groups  *)
(* and the owners in three queries of their own, between which Admins      *)
(* write. A handler that needs two statements takes two steps. Row numbers *)
(* are those of an INTEGER PRIMARY KEY and are given out again, so who     *)
(* bears a number is told apart by the count of births (`born'), which the *)
(* program does not have; nor has it `for', `truths' and `changes'.        *)
(*                                                                         *)
(* A path is the sequence of its names, so the separator that keeps /jeu   *)
(* from covering /jeux is there by construction. The administrator behind  *)
(* a handler is an account outside User, which no handler can touch.       *)
(***************************************************************************)
EXTENDS Integers, Sequences, SequencesExt, FiniteSets, FiniteSetsExt

CONSTANTS
  User, Group,   \* row numbers, 1..n
  Path,          \* sequences of names, closed under prefix
  Bits,          \* the permission bits told apart
  Questions,     \* [what, want, path]
  Asker, Admin,  \* requests that ask, and that administer
  MaxRules,      \* rows of acl at one time
  MaxStart,      \* rows of acl at the beginning
  MaxBirths,     \* accounts and groups ever made
  MaxChanges,    \* statements of administrators in a run
  MaxSeen,       \* such statements while a question is open
  MaxTroubles    \* revocations that fail

ASSUME AclAssumption ==
  /\ <<>> \in Path /\ \A p \in Path : p \in Seq(ToSet(p)) /\ \A i \in 0..Len(p) : SubSeq(p, 1, i) \in Path
  /\ Bits \subseteq {"read", "write", "delete", "share", "manage"} /\ "read" \in Bits
  /\ User \cup Group \subseteq Nat \ {0} /\ IsFiniteSet(User \cup Group) /\ {1} \subseteq User \cap Group
  /\ MaxBirths \in Nat /\ MaxBirths >= 2
  /\ Questions \subseteq [what : {"permitted", "list", "show"}, want : Bits, path : Path]

VARIABLES
  db,      \* the tables
  born,    \* how many accounts and groups were made
  ask,     \* the questions being answered
  call,    \* the handlers under way
  changes,
  failed   \* the subjects whose rules could not be removed

vars == <<db, born, ask, call, changes, failed>>

Kind == {"user", "group"}
OwnerPerms == Bits \ {"manage"}

\* A row of acl, with the birth of the subject it was written for; `late' tells that the subject was another by then.
Rule == [kind : Kind, sid : User \cup Group, path : Path, perms : SUBSET Bits \ {{}},
         recursive : BOOLEAN, deny : BOOLEAN, for : 0..MaxBirths, late : BOOLEAN]
Key(r) == <<r.kind, r.sid, r.path, r.deny>>

------------------------------------------------------------------------------
(* Resolution. `rules' is a sequence: rows in the order a query returned.  *)

Depth(p) == Len(p)
AppliesTo(r, p) == r.path = p \/ (r.recursive /\ IsStrictPrefix(r.path, p))

\* Mutant: the last rule at a depth wins, denial or not.
ConsiderLast(acc, depth, perms, deny) ==
  [b \in Bits |-> IF b \notin perms THEN acc[b]
                  ELSE IF ~acc[b].decided \/ depth >= acc[b].at THEN [decided |-> TRUE, at |-> depth, denied |-> deny]
                  ELSE acc[b]]

\* One rule (or the ownership, at depth -1) taken into account, bit by bit.
Consider(acc, depth, perms, deny) ==
  [b \in Bits |->
     IF b \notin perms THEN acc[b]
     ELSE IF ~acc[b].decided \/ depth > acc[b].at THEN [decided |-> TRUE, at |-> depth, denied |-> deny]
     ELSE [acc[b] EXCEPT !.denied = @ \/ (depth = acc[b].at /\ deny)]]

Resolve(rules, p, owned) ==
  LET none  == [b \in Bits |-> [decided |-> FALSE, at |-> 0, denied |-> FALSE]]
      start == IF owned THEN Consider(none, -1, OwnerPerms, FALSE) ELSE none
      Take(acc, r) == IF AppliesTo(r, p) THEN Consider(acc, Depth(r.path), r.perms, r.deny) ELSE acc
      end   == FoldLeft(Take, start, rules)
  IN {b \in Bits : end[b].decided /\ ~end[b].denied}

\* Mutant: a denied folder is not looked into.
HasReadUnderOpen(rules, p) ==
  /\ \E r \in ToSet(rules) : ~r.deny /\ "read" \in r.perms /\ r.path # p /\ IsPrefix(p, r.path)
  /\ ~\E r \in ToSet(rules) : r.deny /\ AppliesTo(r, p)

HasReadUnder(rules, p) ==
  \E r \in ToSet(rules) : ~r.deny /\ "read" \in r.perms /\ r.path # p /\ IsPrefix(p, r.path)

\* What the engine answers once everything is loaded. A question is about a bit (Permitted, Allows), or
\* whether a folder may be listed, or an entry shown.
Permitted(rules, want, p, owned) == want \in Resolve(rules, p, owned)
CanList(rules, p, owned) == "read" \in Resolve(rules, p, owned) \/ HasReadUnder(rules, p)
VisibleChild(rules, p, owned) == "read" \in Resolve(rules, p, owned) \/ HasReadUnder(rules, p)

Answer(c, rules, owned) ==
  CASE c.what = "permitted" -> Permitted(rules, c.want, c.path, owned)
    [] c.what = "list" -> CanList(rules, c.path, owned)
    [] c.what = "show" -> VisibleChild(rules, c.path, owned)

\* An administrator, and the list of the root, need no rules.
Early(c) == c.admin \/ (c.what = "list" /\ c.path = <<>>)

------------------------------------------------------------------------------
(* What resolution promises, stated over the tables: for each bit the      *)
(* deepest rule that mentions it wins, a denial wins a tie, and ownership  *)
(* counts where no rule says anything.                                     *)

RulesFor(d, u) ==
  {r \in d.acl : \/ r.kind = "user" /\ r.sid = u
                 \/ r.kind = "group" /\ <<r.sid, u>> \in d.members}

\* The rules that decide the bit b at p: those that mention it, no other such rule being deeper.
Deciding(rows, b, p) ==
  LET about == {r \in rows : b \in r.perms /\ AppliesTo(r, p)}
  IN {r \in about : \A s \in about : Depth(s.path) <= Depth(r.path)}

Holds(rows, b, p, owned) ==
  LET ds == Deciding(rows, b, p)
  IN IF ds = {} THEN owned /\ b # "manage" ELSE \A r \in ds : ~r.deny

LeadsTo(rows, p) == \E r \in rows : ~r.deny /\ "read" \in r.perms /\ IsStrictPrefix(p, r.path)

\* The right answer to question c in the tables d.
Truth(d, c) ==
  LET rows == RulesFor(d, c.user)  owned == d.owners[c.path] = c.user  Read == Holds(rows, "read", c.path, owned)
  IN /\ d.users[c.user] # 0
     /\ \/ c.user \in d.admins
        \/ c.what = "permitted" /\ Holds(rows, c.want, c.path, owned)
        \/ c.what = "list" /\ (c.path = <<>> \/ Read \/ LeadsTo(rows, c.path))
        \/ c.what = "show" /\ (Read \/ LeadsTo(rows, c.path))

------------------------------------------------------------------------------
(* The statements, as functions of the tables.                             *)

\* The number of a new row: one more than the largest.
FreshNumber(rows) == 1 + Max({0} \cup {n \in DOMAIN rows : rows[n] # 0})

CreateUser(d, n) == [d EXCEPT !.users[FreshNumber(d.users)] = n]
CreateGroup(d, n) == [d EXCEPT !.groups[FreshNumber(d.groups)] = n]
\* Members, owners (and what module Accounts has) go with the row, by their foreign keys; rules have none.
DeleteUser(d, u) == [d EXCEPT !.users[u] = 0, !.admins = @ \ {u}, !.members = {m \in @ : m[2] # u},
                              !.owners = [p \in Path |-> IF @[p] = u THEN 0 ELSE @[p]]]
\* Mutant: the cascade from groups to their members is forgotten.
DeleteGroupKeepsMembers(d, g) == [d EXCEPT !.groups[g] = 0]
DeleteGroup(d, g) == [d EXCEPT !.groups[g] = 0, !.members = {m \in @ : m[1] # g}]
AddGroupMember(d, g, u) == [d EXCEPT !.members = @ \cup {<<g, u>>}]
RemoveGroupMember(d, g, u) == [d EXCEPT !.members = @ \ {<<g, u>>}]
SetUserAdmin(d, u, flag) == [d EXCEPT !.admins = IF flag THEN @ \cup {u} ELSE @ \ {u}]
UpsertACL(d, row) == [d EXCEPT !.acl = {r \in @ : Key(r) # Key(row)} \cup {row}]
DeleteACL(d, row) == [d EXCEPT !.acl = @ \ {row}]
DeleteACLForSubject(d, kind, sid) == [d EXCEPT !.acl = {r \in @ : ~(r.kind = kind /\ r.sid = sid)}]
SetFileOwner(d, p, u) == [d EXCEPT !.owners[p] = u]
DeleteFileOwner(d, p) == [d EXCEPT !.owners[p] = 0]

\* Who bears the number, 0 for nobody.
Birth(d, kind, sid) == IF kind = "user" THEN d.users[sid] ELSE d.groups[sid]

Open(a) == ask[a].pc \notin {"idle", "done"}

\* One statement that changes the tables: every question that is open sees a new truth.
Write(d) ==
  /\ changes < MaxChanges /\ \A a \in Asker : Open(a) => ask[a].changes < MaxSeen
  /\ changes' = changes + 1
  /\ db' = d
  /\ ask' = [a \in Asker |-> IF ~Open(a) THEN ask[a]
                             ELSE [ask[a] EXCEPT !.truths = @ \cup {Truth(d, ask[a])}, !.changes = @ + 1]]

------------------------------------------------------------------------------
(* Questions.                                                              *)

Rest == UNCHANGED <<db, born, call, changes, failed>>
Steps(a, from, c) == ask[a].pc = from /\ ask' = [ask EXCEPT ![a] = c] /\ Rest

NoQuestion == [pc |-> "idle", user |-> 1, admin |-> FALSE, groups |-> {}, what |-> "permitted", want |-> "read",
               path |-> <<>>, rules |-> <<>>, verdict |-> FALSE, truths |-> {}, changes |-> 0]

Answered(c, verdict) == [NoQuestion EXCEPT !.pc = "done", !.user = c.user, !.verdict = verdict, !.truths = c.truths, !.changes = c.changes]
Free(q) == call[q].pc = "idle"

\* requireAuth: the session's account is read, then its groups. Bound: the question is put before anything
\* is administered, on tables that hold any MaxStart rules.
Authenticate(a, u, what, want, p) ==
  LET c == [NoQuestion EXCEPT !.pc = "groups", !.user = u, !.admin = u \in db.admins, !.what = what,
                              !.want = want, !.path = p]
  IN db.users[u] # 0 /\ changes = MaxStart /\ (\A q \in Admin : Free(q)) /\ Steps(a, "idle", [c EXCEPT !.truths = {Truth(db, c)}])

LoadSubject(a) ==
  Steps(a, "groups", IF Early(ask[a]) THEN Answered(ask[a], TRUE)
                     ELSE [ask[a] EXCEPT !.groups = {g \in Group : <<g, ask[a].user>> \in db.members},
                                         !.pc = "userRules"])

\* loadRules, in two queries; no ORDER BY, so the rows come in any order.
LoadUserRules(a) ==
  \E rows \in SetToSeqs({r \in db.acl : r.kind = "user" /\ r.sid = ask[a].user}) :
    Steps(a, "userRules", [ask[a] EXCEPT !.rules = rows, !.pc = IF ask[a].groups = {} THEN "owners" ELSE "groupRules"])

LoadGroupRules(a) ==
  \E rows \in SetToSeqs({r \in db.acl : r.kind = "group" /\ r.sid \in ask[a].groups}) :
    Steps(a, "groupRules", [ask[a] EXCEPT !.rules = @ \o rows, !.pc = "owners"])

\* loadOwnership, and the verdict.
LoadOwnership(a) ==
  Steps(a, "owners", Answered(ask[a], Answer(ask[a], ask[a].rules, db.owners[ask[a].path] = ask[a].user)))

Question(a) ==
  \/ \E u \in User, c \in Questions : Authenticate(a, u, c.what, c.want, c.path)
  \/ LoadSubject(a) \/ LoadUserRules(a) \/ LoadGroupRules(a) \/ LoadOwnership(a)

------------------------------------------------------------------------------
(* Handlers of administrators, and of those who own files.                 *)

Idle == [pc |-> "idle", kind |-> "user", sid |-> 1, row |-> <<>>]
Stays == UNCHANGED <<born, call, failed>>
Goes(q, c) == call' = [call EXCEPT ![q] = c] /\ UNCHANGED <<born, failed>>

\* Bounds: one handler at a time while a question is open, and one grant at a time.
MayStart(q) == Free(q) /\ \A a \in Asker, o \in Admin : Open(a) => Free(o) /\ ask[a].changes < MaxSeen

\* handleGrantAccess: the subject is looked up, then the rule is written.
CheckSubject(q, row) ==
  /\ MayStart(q) /\ (\A o \in Admin : call[o].pc # "grant") /\ Birth(db, row.kind, row.sid) # 0
  /\ Goes(q, [Idle EXCEPT !.pc = "grant", !.row = [row EXCEPT !.for = Birth(db, row.kind, row.sid)]])
  /\ UNCHANGED <<db, ask, changes>>

Grant(q) ==
  LET row == call[q].row  d == UpsertACL(db, [row EXCEPT !.late = Birth(db, row.kind, row.sid) # row.for])
  IN call[q].pc = "grant" /\ Cardinality(d.acl) <= MaxRules /\ Write(d) /\ Goes(q, Idle)

\* handleRevokeAccess: by number, whichever row bears it by now.
Revoke(q) == MayStart(q) /\ (\E row \in db.acl : Write(DeleteACL(db, row))) /\ Stays

\* Mutant: the rules go first and the row after them.
RemoveGroupLast(q, g) ==
  \/ /\ MayStart(q) /\ db.groups[g] # 0
     /\ Write(DeleteACLForSubject(db, "group", g))
     /\ Goes(q, [Idle EXCEPT !.pc = "deleteGroup", !.kind = "group", !.sid = g])
  \/ /\ call[q].pc = "deleteGroup" /\ call[q].kind = "group" /\ call[q].sid = g
     /\ Write(DeleteGroup(db, g))
     /\ Goes(q, Idle)
\* handleDeleteGroup: ErrGroupNotFound when there was no row; else the rules follow in a second statement.
RemoveGroup(q, g) ==
  /\ MayStart(q) /\ db.groups[g] # 0
  /\ Write(DeleteGroup(db, g))
  /\ Goes(q, [Idle EXCEPT !.pc = "revokeAll", !.kind = "group", !.sid = g])

\* handleDeleteUser: GetUser, DeleteUser, RevokeAllForSubject.
FindUser(q, u) ==
  /\ MayStart(q) /\ db.users[u] # 0
  /\ Goes(q, [Idle EXCEPT !.pc = "deleteUser", !.sid = u])
  /\ UNCHANGED <<db, ask, changes>>

RemoveUser(q) ==
  /\ call[q].pc = "deleteUser"
  /\ Write(DeleteUser(db, call[q].sid))
  /\ Goes(q, [call[q] EXCEPT !.pc = "revokeAll"])

RevokeAllForSubject(q) ==
  /\ call[q].pc = "revokeAll"
  /\ Write(DeleteACLForSubject(db, call[q].kind, call[q].sid))
  /\ Goes(q, Idle)

\* The second statement fails, or the process dies before it: what the first one did stays.
Fail(q) ==
  /\ call[q].pc = "revokeAll" /\ Cardinality(failed) < MaxTroubles
  /\ failed' = failed \cup {<<call[q].kind, call[q].sid>>}
  /\ call' = [call EXCEPT ![q] = Idle]
  /\ UNCHANGED <<db, born, ask, changes>>

\* Handlers of one statement. An account comes from an invitation (module Accounts).
Make(q) ==
  /\ MayStart(q) /\ born < MaxBirths
  /\ born' = born + 1
  /\ \/ FreshNumber(db.users) \in User /\ Write(CreateUser(db, born + 1))
     \/ FreshNumber(db.groups) \in Group /\ Write(CreateGroup(db, born + 1))
  /\ UNCHANGED <<call, failed>>

Membership(q, g, u) ==
  /\ MayStart(q)
  /\ \/ db.groups[g] # 0 /\ db.users[u] # 0 /\ <<g, u>> \notin db.members /\ Write(AddGroupMember(db, g, u))
     \/ <<g, u>> \in db.members /\ Write(RemoveGroupMember(db, g, u))
  /\ Stays

\* Bound: roles and owners change only while a question is open; nothing else depends on them.
Promote(q, u) ==
  /\ MayStart(q) /\ (\E a \in Asker : Open(a)) /\ db.users[u] # 0
  /\ Write(SetUserAdmin(db, u, u \notin db.admins))
  /\ Stays

Own(q, p, u) ==
  /\ MayStart(q) /\ (\E a \in Asker : Open(a))
  /\ \/ db.users[u] # 0 /\ db.owners[p] # u /\ Write(SetFileOwner(db, p, u))
     \/ db.owners[p] = u /\ Write(DeleteFileOwner(db, p))
  /\ Stays

NewRules == {r \in [kind : Kind, sid : User \cup Group, path : Path, perms : SUBSET Bits \ {{}},
                    recursive : BOOLEAN, deny : BOOLEAN, for : {0}, late : {FALSE}] :
               r.sid \in IF r.kind = "user" THEN User ELSE Group}

Handler(q) ==
  \/ \E row \in NewRules : CheckSubject(q, row)
  \/ \E g \in Group : RemoveGroup(q, g) \/ \E u \in User : Membership(q, g, u)
  \/ \E u \in User : FindUser(q, u) \/ Promote(q, u) \/ \E p \in Path \ {<<>>} : Own(q, p, u)
  \/ Grant(q) \/ Revoke(q) \/ RemoveUser(q) \/ RevokeAllForSubject(q) \/ Make(q) \/ Fail(q)

\* Bound: a run ends with its answer.
Next == \/ \E a \in Asker : Question(a)
        \/ (\A a \in Asker : ask[a].pc # "done") /\ \E q \in Admin : Handler(q)

\* An account and a group, the one in the other or not, and some rules about them.
Init ==
  /\ born = 2
  /\ \E owned \in SUBSET {p \in Path : Len(p) = 2},
       rows \in UNION {kSubset(n, {[r EXCEPT !.for = IF r.kind = "user" THEN 1 ELSE 2] :
                                     r \in {s \in NewRules : s.sid = 1}}) : n \in 0..MaxStart} :
       /\ IsFiniteSet(rows) /\ \A r, s \in rows : Key(r) = Key(s) => r = s
       /\ db = [users |-> [u \in User |-> IF u = 1 THEN 1 ELSE 0], admins |-> {},
                groups |-> [g \in Group |-> IF g = 1 THEN 2 ELSE 0], members |-> {<<1, 1>>},
                acl |-> rows, owners |-> [p \in Path |-> IF p \in owned THEN 1 ELSE 0]]
  /\ ask = [a \in Asker |-> NoQuestion]
  /\ call = [q \in Admin |-> Idle]
  /\ changes = Cardinality(db.acl) /\ failed = {}

Spec == Init /\ [][Next]_vars

------------------------------------------------------------------------------
(* Properties.                                                             *)

\* The tables keep their keys: one rule a subject, path and sign (UpsertACL), members and owners that exist.
AclTypeOK ==
  /\ db.users \in [User -> 0..MaxBirths] /\ db.groups \in [Group -> 0..MaxBirths] /\ born \in 2..MaxBirths
  /\ \A u, v \in User : db.users[u] = db.users[v] /\ u # v => db.users[u] = 0
  /\ db.admins \subseteq {u \in User : db.users[u] # 0}
  /\ \A m \in db.members : db.groups[m[1]] # 0 /\ db.users[m[2]] # 0
  /\ db.acl \subseteq Rule /\ \A r, s \in db.acl : Key(r) = Key(s) => r = s
  /\ \A p \in Path : db.owners[p] = 0 \/ db.users[db.owners[p]] # 0
  /\ \A a \in Asker : ask[a].pc \in {"idle", "groups", "userRules", "groupRules", "owners", "done"}
  /\ \A q \in Admin : call[q].pc \in {"idle", "grant", "deleteUser", "revokeAll"}

\* The verdict, folded over rules in whatever order the queries returned them, is what the tables say at
\* some moment between the authentication and the answer, as long as one statement at most changed them
\* meanwhile: accounts, groups, rules and owners are read by four queries that share no transaction. An
\* account that is deleted meanwhile is set apart: its memberships go with its row and its own rules a
\* statement later, so in between its grants stand without the denials of its groups.
VerdictOfAMoment ==
  \A a \in Asker :
    ask[a].pc = "done" /\ ask[a].changes <= 1 /\ db.users[ask[a].user] # 0 => ask[a].verdict \in ask[a].truths

\* What a rule lets an account read can be reached by browsing: every folder above it is listed and shown.
\* This is what hasReadUnder is for ("hiding one that leads to a grant is a bug"); it needs denials that
\* are inherited, for a denial of a folder alone hides the folder and leaves what lies beneath readable.
ReachableIsShown ==
  \A u \in User, p \in Path :
    LET rows == RulesFor(db, u)  seq == SetToSeq(rows)
    IN /\ \A r \in rows : r.deny => r.recursive
       /\ Deciding(rows, "read", p) # {} /\ "read" \in Resolve(seq, p, FALSE)
       => \A x \in Path : IsStrictPrefix(x, p) /\ x # <<>> =>
            CanList(seq, x, db.owners[x] = u) /\ VisibleChild(seq, x, db.owners[x] = u)

\* A rule never changes hands: it is held by the account or group it was written for, though their numbers
\* are given out again. Deleting removes the row first and the rules after it, so a rule granted in between
\* goes too; what stays is what a grant wrote that had looked the subject up before, or what a failed
\* revocation left.
RuleStaysWithItsSubject ==
  \A r \in db.acl :
    \/ Birth(db, r.kind, r.sid) = r.for
    \/ r.late \/ <<r.kind, r.sid>> \in failed
    \/ \E q \in Admin : call[q].pc = "revokeAll" /\ call[q].kind = r.kind /\ call[q].sid = r.sid

=============================================================================
