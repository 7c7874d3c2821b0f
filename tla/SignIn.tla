------------------------------- MODULE SignIn -------------------------------
(***************************************************************************)
(* One account seen from its credentials: password, sessions, second       *)
(* factor, recovery codes, API tokens and the limiter of failures          *)
(* (internal/auth, with the handlers of internal/api that call it).        *)
(*                                                                         *)
(* Every statement and every look at the limiter is a step; hashing and    *)
(* verifying, which are slow, lie between them. A password is the number   *)
(* of the write that set it (0 at first). A recovery code is the pair of   *)
(* its set and its place in it; its row has a number of its own, given out *)
(* again once the set is deleted. Sign-ins by address are limited like     *)
(* those by name, with more room, and are left out. The account is not     *)
(* deleted here (modules Accounts and Acl).                                *)
(*                                                                         *)
(* A cut is what ends sessions: a reset, a change of the password, the     *)
(* disabling of the account. `era' numbers their writes, `floor' is the    *)
(* last one whose handler finished, and the number a session bears is the  *)
(* last write it need not fear: the one it was verified under, the change  *)
(* that kept it, or a cut that finished while its sign-in was under way.   *)
(***************************************************************************)
EXTENDS Integers, FiniteSetsExt

CONSTANTS
  Request,
  Slot,         \* the sessions that may be opened, 1..n
  SetSize,      \* codes in a set (RecoveryCodeCount)
  Limit,        \* failures a name may have (defaultAccountLimit)
  MaxEra, MaxSets, MaxTroubles

ASSUME SignInAssumption == SetSize \in Nat \ {0} /\ Limit \in Nat \ {0} /\ MaxEra \in Nat /\ MaxSets \in Nat

VARIABLES
  db,        \* the rows of the account
  era, floor,
  sets,      \* sets of codes begun, and `cleared': the last one that deleted the others
  limiter,   \* failures counted for the name; `own' of them by attempts that spelled it as it is stored
  accepted,  \* how often a code was accepted
  call, troubles

vars == <<db, era, floor, sets, limiter, accepted, call, troubles>>

Code == (1..MaxSets) \X (1..SetSize)
Unopened == -2     \* what a slot holds in place of a session's number
Ended == -1

------------------------------------------------------------------------------
(* The statements, as functions of the rows.                               *)

UpdateUserPassword(d, pw) == [d EXCEPT !.pw = pw, !.weak = FALSE]
SetUserDisabled(d, flag) == [d EXCEPT !.disabled = flag]
SetTOTPSecret(d, on) == [d EXCEPT !.totp = on]

Live(d) == {s \in Slot : d.sessions[s] \notin {Unopened, Ended}}
CreateSession(d, id, seen) == [d EXCEPT !.sessions[id] = seen]
RevokeSession(d, id) == [d EXCEPT !.sessions[id] = Ended]
RevokeAllSessionsForUser(d) == [d EXCEPT !.sessions = [s \in Slot |-> IF s \in Live(d) THEN Ended ELSE @[s]]]
\* `keep' is 0 for a caller with an API token, who has no session.
RevokeOtherSessionsForUser(d, keep) ==
  [d EXCEPT !.sessions = [s \in Slot |-> IF s \in Live(d) \ {keep} THEN Ended ELSE @[s]]]
DeleteExpiredSessions(d, ids) == [d EXCEPT !.sessions = [s \in Slot |-> IF s \in ids THEN Ended ELSE @[s]]]

CreateAPIToken(d) == [d EXCEPT !.token = TRUE]
RevokeAPITokenForUser(d) == [d EXCEPT !.token = FALSE]

\* Rows of codes are [id, code, used]; the number is one more than the largest.
FreshId(rows) == 1 + Max({0} \cup {r.id : r \in rows})
CreateRecoveryCode(d, code) == [d EXCEPT !.codes = @ \cup {[id |-> FreshId(@), code |-> code, used |-> FALSE]}]
DeleteRecoveryCodesForUser(d) == [d EXCEPT !.codes = {}]
Unused(d, code) == {r \in d.codes : r.code = code /\ ~r.used}
\* Mutant: without the condition on used_at.
MarkableAnyway(d, id) == {r \in d.codes : r.id = id}
\* UPDATE ... WHERE id = ? AND used_at IS NULL, and how many rows it met.
Markable(d, id) == {r \in d.codes : r.id = id /\ ~r.used}
MarkRecoveryCodeUsed(d, id) ==
  [d EXCEPT !.codes = {IF r \in Markable(d, id) THEN [r EXCEPT !.used = TRUE] ELSE r : r \in @}]

------------------------------------------------------------------------------
(* Calls.                                                                  *)

Idle == [pc |-> "idle", op |-> "login", by |-> 0, pw |-> 0, typed |-> TRUE, code |-> <<1, 1>>,
         weak |-> FALSE, totp |-> FALSE, seen |-> 0, id |-> 0, set |-> 0]

Calls(r, c) == call' = [call EXCEPT ![r] = c]
Goes(r, pc) == Calls(r, [call[r] EXCEPT !.pc = pc])
Ends(r) == Calls(r, Idle)
At(r, op, pc) == call[r].op = op /\ call[r].pc = pc

Quiet == UNCHANGED <<floor, sets, accepted, troubles>>
Reads == UNCHANGED <<db, era, limiter>> /\ Quiet
Writes == UNCHANGED <<era, limiter>> /\ Quiet

\* Lookup and LookupAPIToken: who may call. A disabled account has no callers.
Callers == IF db.disabled THEN {} ELSE Live(db) \cup (IF db.token THEN {0} ELSE {})

\* The limiter is asked under the name as typed, and counts under the name as stored.
Allow(typed) == typed => limiter.fails < Limit
Fail(typed) == limiter' = [fails |-> limiter.fails + 1, own |-> limiter.own + (IF typed THEN 1 ELSE 0)]
\* A name spelled another way than it is stored is one of the troubles.
Spell(typed) ==
  /\ UNCHANGED <<db, era, floor, sets, limiter, accepted>>
  /\ IF typed THEN UNCHANGED troubles ELSE troubles < MaxTroubles /\ troubles' = troubles + 1
Reset == limiter' = [fails |-> 0, own |-> 0]
WindowEnds == limiter.fails > 0 /\ Reset /\ UNCHANGED <<db, era, call>> /\ Quiet

\* recordFailure, and the answer.
RecordFailure(r) == call[r].pc = "fail" /\ Fail(call[r].typed) /\ Ends(r) /\ UNCHANGED <<db, era>> /\ Quiet

------------------------------------------------------------------------------
(* Signing in: handleLogin.                                                *)

StartLogin(r, typed) ==
  /\ call[r].pc = "idle" /\ Allow(typed)
  /\ Calls(r, [Idle EXCEPT !.pc = "read", !.typed = typed]) /\ Spell(typed)

\* Authenticate reads the row and verifies the password, right or wrong, against what it read.
ReadAccount(r, right) ==
  /\ At(r, "login", "read")
  /\ IF db.disabled \/ ~right THEN Goes(r, "fail")
     ELSE Calls(r, [Idle EXCEPT !.pc = "verified", !.pw = db.pw, !.weak = db.weak, !.totp = db.totp, !.seen = era])
  /\ Reads

AfterPassword(c) == [c EXCEPT !.pc = IF c.totp THEN "second" ELSE "open", !.pw = 0, !.weak = FALSE, !.totp = FALSE]

Verified(r) ==
  /\ At(r, "login", "verified") /\ Reset
  /\ IF call[r].weak THEN Goes(r, "rehash") ELSE Calls(r, AfterPassword(call[r]))
  /\ UNCHANGED <<db, era>> /\ Quiet

\* A hash made under weaker settings is replaced by one of the password that was presented.
Rehash(r) ==
  /\ At(r, "login", "rehash")
  /\ db' = UpdateUserPassword(db, call[r].pw)
  /\ Calls(r, AfterPassword(call[r])) /\ Writes

\* Where a call goes on once its code is accepted.
Accepted(op) == CASE op = "login" -> "open" [] op = "reset" -> "update" [] op = "totpOff" -> "turnOff"

\* VerifyLoginTOTP and DisableTOTP: the code of the app, if the secret is still there, else a recovery code.
Second(r, app) ==
  /\ call[r].pc = "second"
  /\ IF call[r].op = "totpOff" /\ ~db.totp THEN Ends(r)
     ELSE Goes(r, IF app /\ db.totp THEN Accepted(call[r].op) ELSE "list")
  /\ Reads

OpenSession(r) ==
  /\ At(r, "login", "open")
  /\ \E id \in Slot : db.sessions[id] = Unopened /\ db' = CreateSession(db, id, call[r].seen)
  /\ Ends(r) /\ Writes

------------------------------------------------------------------------------
(* consumeRecoveryCode: the unused codes are listed and verified, then the *)
(* matching row is marked, by number, if it is still unused.               *)

\* The code is one that was shown once, of any set; what the client guesses matches none of them.
Presented == {c \in Code : c[1] <= sets.begun}

\* A reset counts the failure; a wrong second factor is not counted.
Refuse(r) == IF call[r].op = "reset" THEN Goes(r, "fail") ELSE Ends(r)

List(r, code) ==
  /\ call[r].pc = "list"
  /\ \/ \E row \in Unused(db, code) : Calls(r, [call[r] EXCEPT !.pc = "mark", !.code = code, !.id = row.id])
     \/ Unused(db, code) = {} /\ Refuse(r)
  /\ Reads

Mark(r) ==
  /\ call[r].pc = "mark"
  /\ IF Markable(db, call[r].id) = {} THEN Refuse(r) /\ Reads
     ELSE /\ db' = MarkRecoveryCodeUsed(db, call[r].id)
          /\ accepted' = [accepted EXCEPT ![call[r].code] = @ + 1]
          /\ Calls(r, [call[r] EXCEPT !.pc = Accepted(call[r].op), !.typed = TRUE, !.code = <<1, 1>>, !.id = 0])
          /\ UNCHANGED <<era, limiter, floor, sets, troubles>>

\* GenerateRecoveryCodes: the old set is deleted, the new one stored code by code.
StartRegenerate(r) ==
  /\ call[r].pc = "idle" /\ Callers # {}
  /\ sets.begun + Cardinality({q \in Request : call[q].pc = "clear"}) < MaxSets
  /\ Calls(r, [Idle EXCEPT !.pc = "clear", !.op = "regenerate"]) /\ Reads

Clear(r) ==
  /\ call[r].pc = "clear"
  /\ db' = DeleteRecoveryCodesForUser(db)
  /\ sets' = [begun |-> sets.begun + 1, cleared |-> sets.begun + 1]
  /\ Calls(r, [call[r] EXCEPT !.pc = "store", !.set = sets.begun + 1, !.id = 1])
  /\ UNCHANGED <<era, limiter, floor, accepted, troubles>>

Store(r) ==
  /\ call[r].pc = "store"
  /\ db' = CreateRecoveryCode(db, <<call[r].set, call[r].id>>)
  /\ IF call[r].id = SetSize THEN Ends(r) ELSE Calls(r, [call[r] EXCEPT !.id = @ + 1])
  /\ Writes

------------------------------------------------------------------------------
(* The cuts: reset, change of the password, disabling.                     *)

Cutting == {r \in Request : call[r].op \in {"reset", "change"} /\ call[r].pc # "revoke"}
MayCut == era + Cardinality(Cutting) < MaxEra

\* Mutant: a reset that does not ask the limiter.
StartResetAnyway(r, typed) ==
  /\ call[r].pc = "idle" /\ MayCut
  /\ Calls(r, [Idle EXCEPT !.pc = "read", !.op = "reset", !.typed = typed])
  /\ Spell(typed)

\* ResetPasswordWithCode: the row, then the code, then the password, then the sessions.
StartReset(r, typed) ==
  /\ call[r].pc = "idle" /\ Allow(typed) /\ MayCut
  /\ Calls(r, [Idle EXCEPT !.pc = "read", !.op = "reset", !.typed = typed])
  /\ Spell(typed)

FindAccount(r) == At(r, "reset", "read") /\ Goes(r, IF db.disabled THEN "fail" ELSE "list") /\ Reads

\* handleChangePassword and ChangePassword, which is not limited.
StartChange(r, by) ==
  /\ call[r].pc = "idle" /\ by \in Callers /\ MayCut
  /\ Calls(r, [Idle EXCEPT !.pc = "read", !.op = "change", !.by = by]) /\ Reads

CheckCurrent(r, right) ==
  /\ At(r, "change", "read")
  /\ IF right THEN Goes(r, "update") ELSE Ends(r)
  /\ Reads

\* Mutant: the sessions go before the password.
WriteAfterRevoking(r) ==
  \/ /\ call[r].pc = "update"
     /\ db' = RevokeAllSessionsForUser(db) /\ Goes(r, "late") /\ Writes
  \/ /\ call[r].pc = "late"
     /\ era' = era + 1 /\ db' = UpdateUserPassword(db, era + 1) /\ floor' = era + 1 /\ Ends(r)
     /\ UNCHANGED <<limiter, sets, accepted, troubles>>

WritePassword(r) ==
  /\ call[r].pc = "update"
  /\ era' = era + 1 /\ db' = UpdateUserPassword(db, era + 1)
  /\ Calls(r, [call[r] EXCEPT !.pc = "revoke", !.seen = era + 1])
  /\ UNCHANGED limiter /\ Quiet

\* SetUserDisabled, called by an administrator.
Disable(r) ==
  /\ call[r].pc = "idle" /\ MayCut
  /\ era' = era + 1 /\ db' = SetUserDisabled(db, TRUE)
  /\ Calls(r, [Idle EXCEPT !.pc = "revoke", !.op = "disable", !.seen = era + 1])
  /\ UNCHANGED limiter /\ Quiet
Enable == db.disabled /\ db' = SetUserDisabled(db, FALSE) /\ UNCHANGED call /\ Writes

\* The cut e is over: it is the floor, and what is under way or was kept need not fear it.
Larger(a, b) == IF a > b THEN a ELSE b
Over(r, d, kept, e) ==
  /\ db' = [d EXCEPT !.sessions = [s \in Slot |-> IF s \in Live(d) /\ s = kept THEN Larger(@[s], e) ELSE @[s]]]
  /\ floor' = Larger(floor, e)
  /\ call' = [q \in Request |-> IF q = r THEN Idle
                                ELSE IF call[q].op = "login" /\ call[q].pc \notin {"idle", "read"}
                                     THEN [call[q] EXCEPT !.seen = Larger(@, e)] ELSE call[q]]

EndSessions(r) ==
  /\ call[r].pc = "revoke"
  /\ IF call[r].op = "change"
     THEN Over(r, RevokeOtherSessionsForUser(db, call[r].by), call[r].by, call[r].seen)
     ELSE Over(r, RevokeAllSessionsForUser(db), 0, call[r].seen)
  /\ IF call[r].op = "reset" THEN Reset ELSE UNCHANGED limiter
  /\ UNCHANGED <<era, sets, accepted, troubles>>

------------------------------------------------------------------------------
(* Handlers of one statement are one step with their authentication.       *)

\* EnableTOTP, once a code of the app was shown.
EnableTOTP == Callers # {} /\ ~db.totp /\ db' = SetTOTPSecret(db, TRUE) /\ UNCHANGED call /\ Writes

\* DisableTOTP reads the secret, takes a code and clears the secret.
StartDisableTOTP(r) ==
  /\ call[r].pc = "idle" /\ Callers # {}
  /\ Calls(r, [Idle EXCEPT !.pc = "second", !.op = "totpOff"]) /\ Reads
TurnOff(r) == call[r].pc = "turnOff" /\ db' = SetTOTPSecret(db, FALSE) /\ Ends(r) /\ Writes

\* handleLogout, handleRevokeSession, handleRevokeOtherSessions.
SignOut == \E by \in Callers, s \in Live(db) : db' = RevokeSession(db, s) /\ UNCHANGED call /\ Writes
SignOutOthers == \E by \in Callers : db' = RevokeOtherSessionsForUser(db, by) /\ UNCHANGED call /\ Writes
\* Sessions past their time resolve to nothing, and are deleted.
PurgeExpiredSessions ==
  \E ids \in SUBSET Live(db) \ {{}} : db' = DeleteExpiredSessions(db, ids) /\ UNCHANGED call /\ Writes
Tokens ==
  /\ Callers # {}
  /\ db' \in {CreateAPIToken(db), RevokeAPITokenForUser(db)}
  /\ UNCHANGED call /\ Writes

\* A statement fails or the caller hangs up; the process stops, and the limiter forgets.
Break(r) ==
  /\ call[r].pc # "idle" /\ troubles < MaxTroubles /\ troubles' = troubles + 1
  /\ Ends(r) /\ UNCHANGED <<db, era, floor, sets, limiter, accepted>>
Stop ==
  /\ troubles < MaxTroubles /\ troubles' = troubles + 1
  /\ call' = [r \in Request |-> Idle] /\ Reset
  /\ UNCHANGED <<db, era, floor, sets, accepted>>

------------------------------------------------------------------------------

Init ==
  /\ \E weak, totp \in BOOLEAN :
       db = [pw |-> 0, weak |-> weak, disabled |-> FALSE, totp |-> totp, token |-> FALSE,
             sessions |-> [s \in Slot |-> IF s = 1 THEN 0 ELSE Unopened],
             codes |-> {[id |-> i, code |-> <<1, i>>, used |-> FALSE] : i \in 1..SetSize}]
  /\ era = 0 /\ floor = 0 /\ sets = [begun |-> 1, cleared |-> 1]
  /\ limiter = [fails |-> 0, own |-> 0]
  /\ accepted = [c \in Code |-> 0]
  /\ call = [r \in Request |-> Idle] /\ troubles = 0

Next ==
  \/ \E r \in Request :
       \/ \E typed \in BOOLEAN : StartLogin(r, typed) \/ StartReset(r, typed)
       \/ \E by \in Callers : StartChange(r, by)
       \/ \E right \in BOOLEAN : ReadAccount(r, right) \/ CheckCurrent(r, right)
       \/ \E app \in BOOLEAN : Second(r, app)
       \/ \E code \in Presented : List(r, code)
       \/ Verified(r) \/ Rehash(r) \/ OpenSession(r) \/ RecordFailure(r)
       \/ Mark(r) \/ Clear(r) \/ Store(r) \/ StartRegenerate(r) \/ StartDisableTOTP(r) \/ TurnOff(r)
       \/ FindAccount(r) \/ WritePassword(r) \/ Disable(r) \/ EndSessions(r) \/ Break(r)
  \/ Enable \/ EnableTOTP \/ SignOut \/ SignOutOthers \/ PurgeExpiredSessions \/ Tokens \/ WindowEnds \/ Stop

Spec == Init /\ [][Next]_vars

------------------------------------------------------------------------------

\* Once a reset, a change of the password or a disabling has answered, no session that was there before it
\* resolves, whatever ran between its statements (recovery.go:68-70, service.go:122-123).
SessionsEnd == \A s \in Live(db) : db.sessions[s] >= floor

\* Of two calls with one code of the set in force, one is told that it was accepted, though both read it unused
\* (recovery.go:131-134).
CodesAreSpentOnce == \A c \in Code : c[1] >= sets.cleared => accepted[c] <= 1

\* However many attempts run at once, those that spell the name as it is stored fail at most Limit times in a
\* window, and once more for each attempt that was already let in (ratelimit.go:48-79).
AttemptsAreBounded == limiter.own <= Limit + Cardinality(Request) - 1

\* "Any previous codes stop working immediately" (recovery_handlers.go:54): no code is accepted whose set was
\* replaced before. The code is looked for in one statement and marked, by the number of its row, in another.
OldCodesStop == [][\A c \in Code : accepted'[c] > accepted[c] => c[1] >= sets.cleared]_vars
=============================================================================
