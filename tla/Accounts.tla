------------------------------ MODULE Accounts ------------------------------
(***************************************************************************)
(* The accounts of an instance: how the first one is made, how invitations *)
(* become accounts, and how administrators promote, demote, disable and    *)
(* delete each other (internal/auth/service.go, with the handlers of       *)
(* internal/api).                                                          *)
(*                                                                         *)
(* A handler is let in by what it reads of its caller and its arguments,   *)
(* works (hashing a password takes long) and then writes; each statement,  *)
(* and each transaction, is a step. A token is the number of its issue.    *)
(* Rows are numbered one above the largest, so a number comes back when    *)
(* the row that had it is deleted. Sessions and passwords are in SignIn;   *)
(* here every account that is not disabled may call.                       *)
(***************************************************************************)
EXTENDS Integers, FiniteSetsExt

CONSTANTS
  Request,
  Bodies,        \* what a request may ask of <<role, state>>
  MaxUsers,      \* accounts at one time
  MaxTokens,     \* setup tokens and invitations ever issued
  MaxTroubles    \* restarts, expiries and broken calls

Answer == {"keep", "yes", "no"}
ASSUME AccountsAssumption ==
  /\ Bodies \subseteq (Answer \X Answer) \ {<<"keep", "keep">>}
  /\ MaxUsers \in Nat \ {0} /\ MaxTokens \in Nat \ {0} /\ MaxTroubles \in Nat

VARIABLES
  users,         \* [id, admin, disabled]
  invitations,   \* [id, token, inviter, used, expired]; inviter is 0 for none
  issued, call, troubles,
  spent,         \* how often each token became an account or was withdrawn, by calls nothing overtook
  astray         \* whether a caller took something from another after it lost its own role

vars == <<users, invitations, issued, call, troubles, spent, astray>>

FreshId(rows) == 1 + Max({0} \cup {r.id : r \in rows})
Users(id) == {u \in users : u.id = id}
Administrators == {u \in users : u.admin /\ ~u.disabled}

------------------------------------------------------------------------------
(* The statements.                                                         *)

CreateUser(admin) == users \cup {[id |-> FreshId(users), admin |-> admin, disabled |-> FALSE]}
SetUserAdmin(id, flag) == {IF u.id = id THEN [u EXCEPT !.admin = flag] ELSE u : u \in users}
SetUserDisabled(id, flag) == {IF u.id = id THEN [u EXCEPT !.disabled = flag] ELSE u : u \in users}
DeleteUser(id) == users \ Users(id)
\* What the foreign key does to the invitations of a deleted account.
InviterGone(id) == {IF i.inviter = id THEN [i EXCEPT !.inviter = 0] ELSE i : i \in invitations}

CreateInvitation(rows, inviter) ==
  rows \cup {[id |-> FreshId(rows), token |-> issued + 1, inviter |-> inviter, used |-> FALSE, expired |-> FALSE]}
GetInvitationByTokenHash(token) == {i \in invitations : i.token = token /\ ~i.used /\ ~i.expired}
\* Mutant: nothing is marked.
MarkNothing(id) == invitations
MarkInvitationUsed(id) == {IF i.id = id THEN [i EXCEPT !.used = TRUE] ELSE i : i \in invitations}
DeleteUnusedInvitations == {i \in invitations : i.used \/ i.inviter # 0}
Withdrawable(id) == {i \in invitations : i.id = id /\ ~i.used /\ i.inviter # 0}

------------------------------------------------------------------------------
(* Calls.                                                                  *)

Idle == [pc |-> "idle", op |-> "none", me |-> 0, target |-> 0, token |-> 0, role |-> "keep", state |-> "keep",
         late |-> FALSE]
Goes(r, pc) == call' = [call EXCEPT ![r].pc = pc]
Ends(r) == call' = [call EXCEPT ![r] = Idle]
At(r, op, pc) == call[r].op = op /\ call[r].pc = pc
Ghosts == UNCHANGED <<troubles, spent, astray>>
Reads == UNCHANGED <<users, invitations, issued>> /\ Ghosts

\* The other calls that hold the token have been overtaken.
Overtakes(r, token) ==
  call' = [q \in Request |-> IF q = r THEN Idle
                             ELSE IF call[q].token = token /\ call[q].pc = "join" THEN [call[q] EXCEPT !.late = TRUE]
                             ELSE call[q]]
Spend(token, late) == spent' = IF late THEN spent ELSE [spent EXCEPT ![token] = @ + 1]

\* requireAuth and requireAdmin.
LetIn(r, me, c) == call[r].pc = "idle" /\ (\E u \in Administrators : u.id = me) /\ call' = [call EXCEPT ![r] = c]

------------------------------------------------------------------------------
(* Making accounts.                                                        *)

\* CompleteSetup: NeedsSetup, then the token, whoever issued it.
StartSetup(r, token) ==
  /\ call[r].pc = "idle" /\ users = {}
  /\ call' = [call EXCEPT ![r] = [Idle EXCEPT !.pc = "look", !.op = "setup", !.token = token]]
  /\ Reads

\* AcceptInvitation.
StartAccept(r, token) ==
  /\ call[r].pc = "idle"
  /\ call' = [call EXCEPT ![r] = [Idle EXCEPT !.pc = "look", !.op = "accept", !.token = token]]
  /\ Reads

\* lookupInvitation refuses one without an inviter; setup takes every one.
lookupInvitation(op, token) == {i \in GetInvitationByTokenHash(token) : op = "setup" \/ i.inviter # 0}

Look(r) ==
  /\ call[r].pc = "look"
  /\ LET found == lookupInvitation(call[r].op, call[r].token) IN
     \/ \E i \in found : call' = [call EXCEPT ![r].pc = "join", ![r].target = i.id]
     \/ found = {} /\ Ends(r)
  /\ Reads

\* The transaction: the account, unless the name is taken, and the mark, whether or not it meets a row.
Join(r, taken) ==
  /\ call[r].pc = "join"
  /\ IF taken THEN users # {} /\ Ends(r) /\ Reads
     ELSE /\ Cardinality(users) < MaxUsers
          /\ users' = CreateUser(call[r].op = "setup")
          /\ invitations' = MarkInvitationUsed(call[r].target)
          /\ Overtakes(r, call[r].token) /\ Spend(call[r].token, call[r].late)
          /\ UNCHANGED <<issued, troubles, astray>>

------------------------------------------------------------------------------
(* Invitations.                                                            *)

StartInvite(r, me) == LetIn(r, me, [Idle EXCEPT !.pc = "invite", !.op = "invite", !.me = me]) /\ Reads

\* The row names its inviter, and the foreign key refuses one that is gone.
Invite(r) ==
  /\ call[r].pc = "invite" /\ issued < MaxTokens
  /\ IF Users(call[r].me) = {} THEN UNCHANGED <<invitations, issued>>
     ELSE invitations' = CreateInvitation(invitations, call[r].me) /\ issued' = issued + 1
  /\ Ends(r) /\ UNCHANGED users /\ Ghosts

StartRevoke(r, me, id) ==
  LetIn(r, me, [Idle EXCEPT !.pc = "withdraw", !.op = "revoke", !.target = id]) /\ Reads

RevokeInvitation(r) ==
  /\ call[r].pc = "withdraw"
  /\ LET rows == Withdrawable(call[r].target) IN
     /\ invitations' = invitations \ rows
     /\ \/ rows = {} /\ Ends(r) /\ UNCHANGED spent
        \/ \E i \in rows : Overtakes(r, i.token) /\ Spend(i.token, FALSE)
  /\ UNCHANGED <<users, issued, troubles, astray>>

------------------------------------------------------------------------------
(* Roles: an administrator acts on another account, never on its own.      *)

\* Mutant: not even oneself is set apart.
AnyAccount(me, id) == TRUE
Allowed(me, id) == me # id

\* What a request may ask: a role, a state, or both.
StartUpdate(r, me, id, role, state) ==
  /\ Allowed(me, id) /\ Users(id) # {}
  /\ LetIn(r, me, [Idle EXCEPT !.pc = IF role = "keep" THEN "state" ELSE "role", !.op = "update", !.me = me, !.target = id, !.role = role, !.state = state])
  /\ Reads

\* A caller that lost its role since it was let in.
Strays(r, takes) == astray' = (astray \/ (takes /\ ~\E u \in Administrators : u.id = call[r].me))

UpdateRole(r) ==
  /\ call[r].pc = "role"
  /\ users' = SetUserAdmin(call[r].target, call[r].role = "yes")
  /\ Strays(r, call[r].role = "no")
  /\ call' = [call EXCEPT ![r] = IF @.state = "keep" THEN Idle ELSE [@ EXCEPT !.pc = "state", !.role = "keep"]]
  /\ UNCHANGED <<invitations, issued, troubles, spent>>

UpdateState(r) ==
  /\ call[r].pc = "state"
  /\ users' = SetUserDisabled(call[r].target, call[r].state = "yes")
  /\ Strays(r, call[r].state = "yes")
  /\ Ends(r) /\ UNCHANGED <<invitations, issued, troubles, spent>>

StartDelete(r, me, id) ==
  /\ Allowed(me, id) /\ Users(id) # {}
  /\ LetIn(r, me, [Idle EXCEPT !.pc = "delete", !.op = "delete", !.me = me, !.target = id]) /\ Reads

Delete(r) ==
  /\ call[r].pc = "delete"
  /\ users' = DeleteUser(call[r].target) /\ invitations' = InviterGone(call[r].target)
  /\ Strays(r, TRUE)
  /\ Ends(r) /\ UNCHANGED <<issued, troubles, spent>>

------------------------------------------------------------------------------

\* announceSetup and IssueSetupToken at every start: without accounts, the last setup token gives way to a new one.
Issues(rows) ==
  IF users = {} /\ issued < MaxTokens
  THEN invitations' = CreateInvitation(rows, 0) /\ issued' = issued + 1
  ELSE UNCHANGED <<invitations, issued>>

Trouble == troubles < MaxTroubles /\ troubles' = troubles + 1 /\ UNCHANGED <<spent, astray>>
Restart == Trouble /\ Issues(DeleteUnusedInvitations) /\ call' = [r \in Request |-> Idle] /\ UNCHANGED users
Break(r) == Trouble /\ call[r].pc # "idle" /\ Ends(r) /\ UNCHANGED <<users, invitations, issued>>
Expire ==
  /\ Trouble /\ UNCHANGED <<users, issued, call>>
  /\ \E i \in {j \in invitations : ~j.used} : invitations' = (invitations \ {i}) \cup {[i EXCEPT !.expired = TRUE]}

Init ==
  /\ users = {} /\ issued = 1
  /\ invitations = {[id |-> 1, token |-> 1, inviter |-> 0, used |-> FALSE, expired |-> FALSE]}
  /\ call = [r \in Request |-> Idle] /\ troubles = 0
  /\ spent = [t \in 1..MaxTokens |-> 0] /\ astray = FALSE

Next ==
  \/ \E r \in Request :
       \/ \E token \in 1..issued : StartSetup(r, token) \/ StartAccept(r, token)
       \/ \E taken \in BOOLEAN : Join(r, taken)
       \/ \E u \in users :
            \/ StartInvite(r, u.id)
            \/ \E i \in invitations : StartRevoke(r, u.id, i.id)
            \/ \E v \in users : StartDelete(r, u.id, v.id)
            \/ \E v \in users, body \in Bodies : StartUpdate(r, u.id, v.id, body[1], body[2])
       \/ Look(r) \/ Invite(r) \/ RevokeInvitation(r) \/ UpdateRole(r) \/ UpdateState(r) \/ Delete(r) \/ Break(r)
  \/ Restart \/ Expire

Spec == Init /\ [][Next]_vars

------------------------------------------------------------------------------

\* A link becomes one account or is withdrawn, once: only a call that had looked it up before another one spent it
\* may still make an account of it (service.go:272-274, 390-391; invitations.sql:7-8).
SpentOnce == \A t \in 1..MaxTokens : spent[t] <= 1

\* An instance with accounts has an administrator who can sign in, unless one whom another administrator had just
\* demoted, disabled or deleted finished a change it was let in for before (user_handlers.go:20-22).
AdminRemains == users = {} \/ astray \/ Administrators # {}
=============================================================================
