---------------------------- MODULE SignInProofs ----------------------------
(***************************************************************************)
(* Theorems about SignIn for any number of requests, sessions, sets of     *)
(* codes and cuts, and any limit.                                          *)
(***************************************************************************)
EXTENDS SignIn, FiniteSetTheorems, TLAPS

Pair == Nat \X Nat
Pc ==
  {"idle", "read", "verified", "rehash", "second", "list", "mark", "open", "fail", "clear", "store", "update",
   "revoke", "turnOff"}
Op == {"login", "reset", "change", "regenerate", "totpOff", "disable"}
Row == [id : Nat \ {0}, code : Pair, used : BOOLEAN]
Account ==
  [pw : Nat, weak : BOOLEAN, disabled : BOOLEAN, totp : BOOLEAN, token : BOOLEAN,
   sessions : [Slot -> Int], codes : SUBSET Row]
Call ==
  [pc : Pc, op : Op, by : Slot \cup {0}, pw : Nat, typed : BOOLEAN, code : Pair,
   weak : BOOLEAN, totp : BOOLEAN, seen : Nat, id : Nat, set : Nat]

Typed ==
  /\ db \in Account
  /\ era \in Nat /\ floor \in Nat
  /\ sets \in [begun : Nat, cleared : Nat]
  /\ limiter \in [fails : Nat, own : Nat]
  /\ accepted \in [Code -> Nat]
  /\ call \in [Request -> Call]
  /\ troubles \in Nat

-----------------------------------------------------------------------------
(* What ends sessions.                                                     *)

(* The steps at which a sign-in bears the number of what it has seen.      *)
Seeing == {"verified", "rehash", "second", "list", "mark", "open"}

(* The floor is a write that was made, a cut on its way to its sessions    *)
(* has been written, and a sign-in past the account's row was verified     *)
(* after the floor or was under way when it rose.                          *)
SeenSinceTheFloor ==
  /\ floor <= era
  /\ \A r \in Request :
       /\ call[r].pc = "revoke" => call[r].seen <= era
       /\ call[r].op = "login" /\ call[r].pc \in Seeing => call[r].seen >= floor

-----------------------------------------------------------------------------
(* Only a sign-in, a reset or the removal of the second factor takes a     *)
(* code, and a reset takes no code of the app.                             *)
Takers == {"login", "reset", "totpOff"}
TakersTake ==
  \A r \in Request :
    /\ call[r].pc \in {"second", "list", "mark"} => call[r].op \in Takers
    /\ call[r].pc = "second" => call[r].op # "reset"

-----------------------------------------------------------------------------
(* The recovery codes.                                                     *)

(* Numbers and codes are given to one row each.                            *)
RowsAreDistinct ==
  /\ sets.cleared = sets.begun
  /\ IsFiniteSet({row.id : row \in db.codes})
  /\ \A row \in db.codes : row.code[1] <= sets.begun
  /\ \A row, other \in db.codes : row.id = other.id \/ row.code = other.code => row = other

(* A call that stores a set is the only one to store it, and nobody has    *)
(* seen the codes that are still to come.                                  *)
StoringIsAhead ==
  \A r \in Request : call[r].pc = "store" =>
    /\ call[r].set <= sets.begun
    /\ \A row \in db.codes : row.code[1] = call[r].set => row.code[2] < call[r].id
    /\ \A c \in Code : c[1] = call[r].set /\ c[2] >= call[r].id => accepted[c] = 0
    /\ \A q \in Request :
         /\ call[q].pc = "mark" /\ call[q].code[1] = call[r].set => call[q].code[2] < call[r].id
         /\ call[q].pc = "store" /\ call[q].set = call[r].set => q = r

(* A call about to mark a row, by its number, means the code of that row,  *)
(* unless its set has been replaced.                                       *)
MarkIsOfTheCode ==
  \A r \in Request : call[r].pc = "mark" =>
    /\ call[r].code \in Code /\ call[r].code[1] <= sets.begun
    /\ call[r].code[1] = sets.begun =>
         \E row \in db.codes : row.id = call[r].id /\ row.code = call[r].code

(* A code of the set in force that was accepted has its row marked.        *)
AcceptedIsMarked ==
  \A c \in Code :
    /\ c[1] > sets.begun => accepted[c] = 0
    /\ c[1] = sets.begun /\ accepted[c] # 0 =>
         accepted[c] = 1 /\ \A row \in db.codes : row.code = c => row.used

-----------------------------------------------------------------------------
(* The limiter.                                                            *)

(* The attempts that were let in and may still be counted as failures of   *)
(* the name as it is stored.                                               *)
MayFail(c) ==
  /\ c.typed
  /\ \/ c.pc = "fail"
     \/ c.op = "login" /\ c.pc = "read"
     \/ c.op = "reset" /\ c.pc \in {"read", "list", "mark"}
LetIn == {r \in Request : MayFail(call[r])}

(* The failures counted and those that may follow.                         *)
RoomIsShared ==
  /\ limiter.own <= limiter.fails
  /\ IsFiniteSet(Request) =>
       limiter.own + Cardinality(LetIn) <= Limit + Cardinality(Request) - 1

(* The inductive invariant.                                                *)
IInv ==
  /\ Typed
  /\ SeenSinceTheFloor
  /\ SessionsEnd
  /\ TakersTake
  /\ RowsAreDistinct
  /\ StoringIsAhead
  /\ MarkIsOfTheCode
  /\ AcceptedIsMarked
  /\ RoomIsShared

-----------------------------------------------------------------------------
(* What the updates of a call leave of it.                                 *)

\* An idle call is a call.
LEMMA IdleIsACall ==
  /\ Idle \in Call
  /\ Idle.pc = "idle" /\ Idle.op = "login" /\ Idle.typed /\ Idle.seen = 0
  BY DEF Idle, Call, Pair, Pc, Op

\* A call that goes to another place keeps the rest.
LEMMA NextPlace ==
  ASSUME NEW c \in Call, NEW p \in Pc
  PROVE  /\ [c EXCEPT !.pc = p] \in Call
         /\ [c EXCEPT !.pc = p].pc = p
         /\ [c EXCEPT !.pc = p].op = c.op
         /\ [c EXCEPT !.pc = p].typed = c.typed
         /\ [c EXCEPT !.pc = p].code = c.code
         /\ [c EXCEPT !.pc = p].seen = c.seen
         /\ [c EXCEPT !.pc = p].id = c.id
         /\ [c EXCEPT !.pc = p].set = c.set
  BY DEF Call

\* After the password comes the second factor, or the session.
LEMMA PasswordForgotten ==
  ASSUME NEW c \in Call
  PROVE  /\ AfterPassword(c) \in Call
         /\ AfterPassword(c).pc \in {"second", "open"}
         /\ AfterPassword(c).op = c.op
         /\ AfterPassword(c).typed = c.typed
         /\ AfterPassword(c).seen = c.seen
  BY DEF AfterPassword, Call, Pc, Op

\* A step of a request moves its call.
LEMMA Going ==
  ASSUME Typed, NEW r \in Request, NEW p \in Pc, Goes(r, p)
  PROVE  \E d \in Call :
           /\ Calls(r, d) /\ d.pc = p
           /\ d.op = call[r].op /\ d.typed = call[r].typed /\ d.code = call[r].code
           /\ d.seen = call[r].seen /\ d.id = call[r].id /\ d.set = call[r].set
<1>1. call[r] \in Call
  BY DEF Typed
<1> QED
  BY <1>1, NextPlace DEF Goes

\* The calls of other requests stay.
LEMMA CallMoves ==
  ASSUME Typed, NEW r \in Request, NEW c \in Call, Calls(r, c)
  PROVE  /\ call' \in [Request -> Call]
         /\ call'[r] = c
         /\ \A q \in Request : q # r => call'[q] = call[q]
  BY DEF Typed, Calls

(* What the statements leave of the rows.                                  *)

\* What the tables hold of the account.
LEMMA AccountFields ==
  ASSUME NEW d \in Account
  PROVE  /\ d.sessions \in [Slot -> Int] /\ d.codes \subseteq Row
         /\ d.pw \in Nat /\ d.weak \in BOOLEAN /\ d.totp \in BOOLEAN /\ d.disabled \in BOOLEAN
  BY DEF Account

\* Statements about the password, the flags and the tokens leave sessions and codes alone.
LEMMA FlagStatements ==
  ASSUME NEW d \in Account, NEW n \in Nat, NEW b \in BOOLEAN
  PROVE  \A e \in {UpdateUserPassword(d, n), SetUserDisabled(d, b), SetTOTPSecret(d, b), CreateAPIToken(d),
                   RevokeAPITokenForUser(d)} :
           e \in Account /\ e.sessions = d.sessions /\ e.codes = d.codes
  BY DEF Account, UpdateUserPassword, SetUserDisabled, SetTOTPSecret, CreateAPIToken, RevokeAPITokenForUser

\* Statements that revoke sessions end some and open none.
LEMMA SessionStatements ==
  ASSUME NEW d \in Account, NEW keep, NEW ids
  PROVE  \A e \in {RevokeAllSessionsForUser(d), RevokeOtherSessionsForUser(d, keep),
                   DeleteExpiredSessions(d, ids)} \cup {RevokeSession(d, id) : id \in Slot} :
           /\ e \in Account /\ e.codes = d.codes
           /\ \A s \in Slot : e.sessions[s] \in {d.sessions[s], Ended}
  BY DEF Account, RevokeSession, RevokeAllSessionsForUser, RevokeOtherSessionsForUser, DeleteExpiredSessions,
         Ended

\* A session that is inserted is the only one to change.
LEMMA SessionOpened ==
  ASSUME NEW d \in Account, NEW id \in Slot, NEW n \in Nat
  PROVE  /\ CreateSession(d, id, n) \in Account
         /\ CreateSession(d, id, n).codes = d.codes
         /\ CreateSession(d, id, n).sessions[id] = n
         /\ \A s \in Slot : s # id => CreateSession(d, id, n).sessions[s] = d.sessions[s]
  BY DEF Account, CreateSession

-----------------------------------------------------------------------------

(* A finite set of naturals has the maximum that Max chooses.              *)
LEMMA MaxOfFinite ==
  ASSUME NEW S \in SUBSET Nat, S # {}, IsFiniteSet(S)
  PROVE  Max(S) \in S /\ \A n \in S : n <= Max(S)
<1> DEFINE Above(m) == {n \in S : n >= m}
           T == {Above(m) : m \in S}
           R == StrictSubsetOrdering(S)
<1>1. T \subseteq SUBSET S /\ T # {}
  OBVIOUS
<1>2. IsWellFoundedOn(R, SUBSET S)
  BY FS_FiniteSubsetsOfFinite, FS_StrictSubsetOrderingWellFounded
<1>3. PICK m \in S : \A k \in S : <<Above(k), Above(m)>> \notin R
  <2> HIDE DEF R, Above
  <2>1. \E x \in T : \A y \in T : <<y, x>> \notin R
    <3> HIDE DEF T
    <3> QED
      BY <1>1, <1>2, WFMin
  <2> QED
    BY <2>1
<1>4. ASSUME NEW k \in S PROVE k <= m
  <2>0. k \in Nat /\ m \in Nat /\ \A n \in S : n \in Nat
    OBVIOUS
  <2>1. CASE k > m
    <3>1. ASSUME NEW n \in Above(k) PROVE n \in Above(m)
      BY <2>0, <2>1, <3>1
    <3>2. m \in Above(m) /\ m \notin Above(k)
      BY <2>0, <2>1
    <3>3. Above(k) \subseteq Above(m) /\ Above(k) # Above(m)
      <4> HIDE DEF Above
      <4> QED
        BY <3>1, <3>2
    <3>4. Above(k) \in SUBSET S /\ Above(m) \in SUBSET S
      OBVIOUS
    <3> HIDE DEF Above
    <3> QED
      BY <3>3, <3>4, <1>3 DEF StrictSubsetOrdering
  <2> QED
    BY <2>0, <2>1
<1> HIDE DEF Above, T, R
<1> QED
  BY <1>4 DEF Max

(* The number of a new row is above every number in use.                   *)
LEMMA FreshIdIsNew ==
  ASSUME NEW rows \in SUBSET Row, IsFiniteSet({row.id : row \in rows})
  PROVE  FreshId(rows) \in Nat \ {0} /\ \A row \in rows : row.id < FreshId(rows)
<1> DEFINE ids == {0} \cup {row.id : row \in rows}
<1>1. ids \in SUBSET Nat /\ ids # {}
  BY DEF Row
<1>2. IsFiniteSet(ids)
  BY FS_AddElement
<1>3. Max(ids) \in ids /\ \A n \in ids : n <= Max(ids)
  <2> HIDE DEF ids
  <2> QED
    BY <1>1, <1>2, MaxOfFinite
<1>4. FreshId(rows) = 1 + Max(ids)
  BY DEF FreshId
<1>5. \A row \in rows : row.id \in ids
  OBVIOUS
<1> HIDE DEF ids
<1>6. Max(ids) \in Nat
  BY <1>1, <1>3
<1>7. ASSUME NEW row \in rows PROVE row.id < 1 + Max(ids)
  <2>1. row.id <= Max(ids) /\ row.id \in Nat
    BY <1>1, <1>3, <1>5
  <2> QED
    BY <1>6, <2>1
<1> QED
  BY <1>4, <1>6, <1>7

(* Sessions only end, and no call takes a number it may not bear.          *)
LEMMA SessionsKept ==
  ASSUME IInv,
         \A s \in Slot : db'.sessions[s] \in {db.sessions[s], Ended},
         floor' = floor, era' \in Nat, era' >= era,
         call' \in [Request -> Call],
         \A q \in Request :
           \/ call'[q] = call[q]
           \/ /\ call'[q].pc = "revoke" => call'[q].seen <= era'
              /\ call'[q].op = "login" /\ call'[q].pc \in Seeing => call'[q].seen >= floor
  PROVE  SeenSinceTheFloor' /\ SessionsEnd'
  BY DEF IInv, Typed, SeenSinceTheFloor, SessionsEnd, Live, Call

(* No code is stored, deleted, marked or about to be.                      *)
LEMMA CodesKept ==
  ASSUME IInv,
         db'.codes = db.codes, UNCHANGED <<sets, accepted>>,
         \A q \in Request : call'[q] = call[q] \/ call'[q].pc \notin {"store", "mark"}
  PROVE  RowsAreDistinct' /\ StoringIsAhead' /\ MarkIsOfTheCode' /\ AcceptedIsMarked'
  BY DEF IInv, RowsAreDistinct, StoringIsAhead, MarkIsOfTheCode, AcceptedIsMarked

\* The attempts let in are finitely many, and counted.
LEMMA AttemptsAreFinite ==
  ASSUME IsFiniteSet(Request)
  PROVE  /\ Cardinality(LetIn) \in Nat /\ Cardinality(LetIn') \in Nat /\ Cardinality(Request) \in Nat
         /\ Cardinality(LetIn) <= Cardinality(Request)
         /\ Cardinality(LetIn') <= Cardinality(Request)
         /\ LetIn' \subseteq LetIn => Cardinality(LetIn') <= Cardinality(LetIn)
<1>1. LetIn \subseteq Request /\ LetIn' \subseteq Request
  BY DEF LetIn
<1>2. IsFiniteSet(LetIn) /\ IsFiniteSet(LetIn')
  BY <1>1, FS_Subset
<1> QED
  BY <1>1, <1>2, FS_Subset, FS_CardinalityType

(* Nobody is let in.                                                       *)
LEMMA RoomKept ==
  ASSUME IInv,
         limiter' = limiter \/ Reset,
         \A q \in Request : MayFail(call'[q]) => MayFail(call[q])
  PROVE  RoomIsShared'
<1>1. LetIn' \subseteq LetIn
  BY DEF LetIn
<1>2. limiter.own \in Nat /\ Limit \in Nat \ {0}
  BY SignInAssumption DEF IInv, Typed
<1>3. \/ limiter'.own = limiter.own /\ limiter'.fails = limiter.fails
      \/ limiter'.own = 0 /\ limiter'.fails = 0
  BY DEF Reset
<1> QED
  BY <1>1, <1>2, <1>3, AttemptsAreFinite DEF IInv, RoomIsShared

(* Most steps end sessions at most, leave the codes alone, let nobody in,  *)
(* and move a call to a place of which the invariant says little.          *)
Plain(c, old) ==
  /\ c.pc \notin {"store", "mark", "revoke"}
  /\ c.op = "login" /\ c.pc \in Seeing => c.seen >= floor
  /\ c.pc \in {"second", "list"} => c.op \in Takers
  /\ c.pc = "second" => c.op # "reset"
  /\ MayFail(c) => MayFail(old)

\* Such a step keeps the inductive invariant.
LEMMA PlainStep ==
  ASSUME IInv,
         db' \in Account, db'.codes = db.codes,
         \A s \in Slot : db'.sessions[s] \in {db.sessions[s], Ended},
         UNCHANGED <<era, floor, sets, accepted>>, troubles' \in Nat,
         limiter' = limiter \/ Reset,
         call' \in [Request -> Call],
         \A q \in Request : call'[q] = call[q] \/ Plain(call'[q], call[q])
  PROVE  IInv'
<1>1. Typed'
  BY DEF IInv, Typed, Reset
<1>2. SeenSinceTheFloor' /\ SessionsEnd'
  BY SessionsKept DEF IInv, Typed, Plain
<1>3. TakersTake'
  BY DEF IInv, TakersTake, Plain
<1>4. RowsAreDistinct' /\ StoringIsAhead' /\ MarkIsOfTheCode' /\ AcceptedIsMarked'
  BY CodesKept DEF Plain
<1>5. RoomIsShared'
  BY RoomKept DEF Plain
<1> QED
  BY <1>1, <1>2, <1>3, <1>4, <1>5 DEF IInv

-----------------------------------------------------------------------------

(* Signing in and taking a second factor.                                  *)
LEMMA LoginStep ==
  ASSUME IInv, NEW r \in Request,
         \/ \E right \in BOOLEAN : ReadAccount(r, right)
         \/ \E app \in BOOLEAN : Second(r, app)
         \/ Verified(r) \/ Rehash(r)
  PROVE  IInv'
<1>0. call[r] \in Call /\ db \in Account /\ Typed
  BY DEF IInv, Typed
<1> USE <1>0 DEF Reads, Writes, Quiet, Ends, At, Plain, Seeing, MayFail, Takers
<1>1. ASSUME NEW right \in BOOLEAN, ReadAccount(r, right) PROVE IInv'
  <2>1. PICK c \in Call : Calls(r, c) /\ Plain(c, call[r])
    <3>1. CASE db.disabled \/ ~right
      BY <1>1, <3>1, Going DEF ReadAccount, Pc
    <3>2. CASE ~(db.disabled \/ ~right)
      <4> DEFINE d == [Idle EXCEPT !.pc = "verified", !.pw = db.pw, !.weak = db.weak, !.totp = db.totp, !.seen = era]
      <4>1. Calls(r, d)
        BY <1>1, <3>2 DEF ReadAccount
      <4>2. d \in Call /\ d.pc = "verified" /\ d.seen = era
        BY AccountFields DEF Idle, Call, Pair, Pc, Op, Typed
      <4>3. era >= floor
        BY DEF IInv, Typed, SeenSinceTheFloor
      <4> HIDE DEF d
      <4> QED
        BY <4>1, <4>2, <4>3
    <3> QED
      BY <3>1, <3>2
  <2> QED
    BY <1>1, <2>1, CallMoves, PlainStep DEF ReadAccount, Typed
<1>2. CASE Verified(r)
  <2>1. PICK c \in Call : Calls(r, c) /\ Plain(c, call[r])
    <3>1. CASE call[r].weak
      BY <1>2, <3>1, Going DEF Verified, Pc, IInv, SeenSinceTheFloor
    <3>2. CASE ~call[r].weak
      BY <1>2, <3>2, PasswordForgotten DEF Verified, IInv, SeenSinceTheFloor
    <3> QED
      BY <3>1, <3>2
  <2> QED
    BY <1>2, <2>1, CallMoves, PlainStep DEF Verified, Typed
<1>3. CASE Rehash(r)
  <2>1. PICK c \in Call : Calls(r, c) /\ Plain(c, call[r])
    BY <1>3, PasswordForgotten DEF Rehash, IInv, SeenSinceTheFloor
  <2>2. db' \in Account /\ db'.sessions = db.sessions /\ db'.codes = db.codes
    BY <1>3, FlagStatements DEF Rehash, Call
  <2> QED
    BY <1>3, <2>1, <2>2, CallMoves, PlainStep DEF Rehash, Typed
<1>4. ASSUME NEW app \in BOOLEAN, Second(r, app) PROVE IInv'
  <2>1. PICK c \in Call : Calls(r, c) /\ Plain(c, call[r])
    <3>1. CASE call[r].op = "totpOff" /\ ~db.totp
      BY <1>4, <3>1, IdleIsACall DEF Second
    <3>2. CASE ~(call[r].op = "totpOff" /\ ~db.totp)
      BY <1>4, <3>2, Going DEF Second, Accepted, Pc, IInv, SeenSinceTheFloor, TakersTake
    <3> QED
      BY <3>1, <3>2
  <2> QED
    BY <1>4, <2>1, CallMoves, PlainStep DEF Second, Typed
<1> QED
  BY <1>1, <1>2, <1>3, <1>4

(* What a call begins with, and what it does between its statements.       *)
LEMMA CallStep ==
  ASSUME IInv, NEW r \in Request,
         \/ \E by \in Callers : StartChange(r, by)
         \/ \E right \in BOOLEAN : CheckCurrent(r, right)
         \/ StartRegenerate(r) \/ StartDisableTOTP(r) \/ TurnOff(r) \/ FindAccount(r) \/ Break(r)
  PROVE  IInv'
<1>0. call[r] \in Call /\ db \in Account /\ Typed
  BY DEF IInv, Typed
<1> USE <1>0 DEF Reads, Writes, Quiet, Ends, At, Plain, Seeing, MayFail, Takers
<1>1. ASSUME NEW by \in Callers, StartChange(r, by) PROVE IInv'
  <2> DEFINE c == [Idle EXCEPT !.pc = "read", !.op = "change", !.by = by]
  <2>1. by \in Slot \cup {0}
    BY DEF Callers, Live
  <2>2. c \in Call /\ c.pc = "read" /\ c.op = "change"
    BY <2>1 DEF Idle, Call, Pair, Pc, Op
  <2>3. Calls(r, c)
    BY <1>1 DEF StartChange
  <2> HIDE DEF c
  <2> QED
    BY ZenonT(40), <1>1, <2>2, <2>3, CallMoves, PlainStep DEF StartChange, Typed
<1>2. ASSUME NEW right \in BOOLEAN, CheckCurrent(r, right) PROVE IInv'
  <2>1. PICK c \in Call : Calls(r, c) /\ Plain(c, call[r])
    BY <1>2, Going, IdleIsACall DEF CheckCurrent, Pc
  <2> QED
    BY <1>2, <2>1, CallMoves, PlainStep DEF CheckCurrent, Typed
<1>3. CASE StartRegenerate(r)
  <2> DEFINE c == [Idle EXCEPT !.pc = "clear", !.op = "regenerate"]
  <2>1. c \in Call /\ c.pc = "clear" /\ c.op = "regenerate"
    BY DEF Idle, Call, Pair, Pc, Op
  <2>2. Calls(r, c)
    BY <1>3 DEF StartRegenerate
  <2> HIDE DEF c
  <2> QED
    BY <1>3, <2>1, <2>2, CallMoves, PlainStep DEF StartRegenerate, Typed
<1>4. CASE StartDisableTOTP(r)
  <2> DEFINE c == [Idle EXCEPT !.pc = "second", !.op = "totpOff"]
  <2>1. c \in Call /\ c.pc = "second" /\ c.op = "totpOff"
    BY DEF Idle, Call, Pair, Pc, Op
  <2>2. Calls(r, c)
    BY <1>4 DEF StartDisableTOTP
  <2> HIDE DEF c
  <2> QED
    BY <1>4, <2>1, <2>2, CallMoves, PlainStep DEF StartDisableTOTP, Typed
<1>5. CASE TurnOff(r)
  <2>1. db' \in Account /\ db'.sessions = db.sessions /\ db'.codes = db.codes
    BY <1>5, FlagStatements DEF TurnOff
  <2>2. Calls(r, Idle) /\ Plain(Idle, call[r])
    BY <1>5, IdleIsACall DEF TurnOff
  <2> HIDE DEF Plain
  <2> QED
    BY ZenonT(40), <1>5, <2>1, <2>2, IdleIsACall, CallMoves, PlainStep DEF TurnOff, Typed
<1>6. CASE FindAccount(r)
  <2>1. PICK c \in Call : Calls(r, c) /\ Plain(c, call[r])
    BY <1>6, Going DEF FindAccount, Pc
  <2> QED
    BY <1>6, <2>1, CallMoves, PlainStep DEF FindAccount, Typed
<1>7. CASE Break(r)
  BY <1>7, IdleIsACall, CallMoves, PlainStep DEF Break, Typed
<1> QED
  BY <1>1, <1>2, <1>3, <1>4, <1>5, <1>6, <1>7

(* The handlers of one statement, the window of the limiter, the process.  *)
LEMMA SurroundingsStep ==
  ASSUME IInv,
         \/ Enable \/ EnableTOTP \/ SignOut \/ SignOutOthers \/ PurgeExpiredSessions \/ Tokens
         \/ WindowEnds \/ Stop \/ UNCHANGED vars
  PROVE  IInv'
<1>0. db \in Account /\ Typed
  BY DEF IInv, Typed
<1> USE <1>0 DEF Writes, Quiet
<1>1. CASE Enable \/ EnableTOTP \/ Tokens
  <2>1. db' \in Account /\ db'.sessions = db.sessions /\ db'.codes = db.codes
    BY ZenonT(40), <1>1, FlagStatements DEF Enable, EnableTOTP, Tokens
  <2> QED
    BY <1>1, <2>1, PlainStep DEF Enable, EnableTOTP, Tokens, Typed
<1>2. CASE SignOut \/ SignOutOthers \/ PurgeExpiredSessions
  <2>1. /\ db' \in Account /\ db'.codes = db.codes
        /\ \A s \in Slot : db'.sessions[s] \in {db.sessions[s], Ended}
    <3>1. CASE SignOut
      <4>1. PICK s \in Slot : db' = RevokeSession(db, s)
        BY <3>1 DEF SignOut, Live
      <4> QED
        BY <4>1, SessionStatements
    <3>2. CASE SignOutOthers \/ PurgeExpiredSessions
      <4>1. \/ \E by : db' = RevokeOtherSessionsForUser(db, by)
            \/ \E ids : db' = DeleteExpiredSessions(db, ids)
        BY <3>2 DEF SignOutOthers, PurgeExpiredSessions
      <4> QED
        BY <4>1, SessionStatements
    <3> QED
      BY <1>2, <3>1, <3>2
  <2> QED
    BY <1>2, <2>1, PlainStep DEF SignOut, SignOutOthers, PurgeExpiredSessions, Typed
<1>3. CASE WindowEnds
  BY <1>3, PlainStep DEF WindowEnds, Typed
<1>4. CASE Stop
  <2>1. /\ call' \in [Request -> Call] /\ \A q \in Request : Plain(call'[q], call[q])
    BY <1>4, IdleIsACall DEF Stop, Plain, Seeing, MayFail, Takers
  <2> QED
    BY <1>4, <2>1, PlainStep DEF Stop, Typed
<1>5. CASE UNCHANGED vars
  BY <1>5, PlainStep DEF vars, Typed
<1> QED
  BY <1>1, <1>2, <1>3, <1>4, <1>5

-----------------------------------------------------------------------------

(* An attempt is let in while the failures are below the limit.            *)
LEMMA AttemptStep ==
  ASSUME IInv, NEW r \in Request, NEW typed \in BOOLEAN,
         StartLogin(r, typed) \/ StartReset(r, typed)
  PROVE  IInv'
<1> DEFINE c == IF StartLogin(r, typed) THEN [Idle EXCEPT !.pc = "read", !.typed = typed]
                ELSE [Idle EXCEPT !.pc = "read", !.op = "reset", !.typed = typed]
<1>1. c \in Call /\ c.pc = "read" /\ c.op \in {"login", "reset"} /\ c.typed = typed
  BY DEF Idle, Call, Pair, Pc, Op
<1>2. Calls(r, c) /\ Spell(typed) /\ Allow(typed)
  BY DEF StartLogin, StartReset
<1> HIDE DEF c
<1>3. /\ call' \in [Request -> Call] /\ call'[r] = c
      /\ \A q \in Request : q # r => call'[q] = call[q]
  BY <1>1, <1>2, CallMoves DEF IInv
<1>4. UNCHANGED <<db, era, floor, sets, limiter, accepted>> /\ troubles' \in Nat
  BY <1>2 DEF Spell, IInv, Typed
<1>5. Typed'
  BY <1>3, <1>4 DEF IInv, Typed
<1>6. SeenSinceTheFloor' /\ SessionsEnd' /\ TakersTake'
  BY <1>1, <1>3, <1>4, SessionsKept DEF IInv, Typed, Seeing, TakersTake
<1>7. RowsAreDistinct' /\ StoringIsAhead' /\ MarkIsOfTheCode' /\ AcceptedIsMarked'
  BY <1>1, <1>3, <1>4, CodesKept
<1>8. RoomIsShared'
  <2>1. CASE typed
    <3>1. limiter.own <= limiter.fails /\ limiter.fails < Limit /\ limiter.own \in Nat /\ limiter.fails \in Nat
      BY <1>2, <2>1 DEF Allow, IInv, Typed, RoomIsShared
    <3> QED
      BY <3>1, <1>4, AttemptsAreFinite, SignInAssumption DEF RoomIsShared
  <2>2. CASE ~typed
    BY <1>1, <1>3, <1>4, <2>2, RoomKept DEF MayFail
  <2> QED
    BY <2>1, <2>2
<1> QED
  BY <1>5, <1>6, <1>7, <1>8 DEF IInv

(* A failure is counted, and its attempt is over.                          *)
LEMMA FailureStep ==
  ASSUME IInv, NEW r \in Request, RecordFailure(r)
  PROVE  IInv'
<1>1. /\ call' \in [Request -> Call] /\ call'[r] = Idle
      /\ \A q \in Request : q # r => call'[q] = call[q]
  BY IdleIsACall, CallMoves DEF RecordFailure, Ends, IInv
<1>2. UNCHANGED <<db, era, floor, sets, accepted, troubles>>
  BY DEF RecordFailure, Quiet
<1>3. /\ limiter' \in [fails : Nat, own : Nat]
      /\ limiter'.fails = limiter.fails + 1
      /\ limiter'.own = IF call[r].typed THEN limiter.own + 1 ELSE limiter.own
  BY DEF RecordFailure, Fail, IInv, Typed
<1>4. Typed'
  BY <1>1, <1>2, <1>3 DEF IInv, Typed
<1>5. SeenSinceTheFloor' /\ SessionsEnd' /\ TakersTake'
  BY <1>1, <1>2, IdleIsACall, SessionsKept DEF IInv, Typed, Seeing, TakersTake
<1>6. RowsAreDistinct' /\ StoringIsAhead' /\ MarkIsOfTheCode' /\ AcceptedIsMarked'
  BY <1>1, <1>2, IdleIsACall, CodesKept
<1>7. RoomIsShared'
  <2>1. ASSUME IsFiniteSet(Request), call[r].typed
        PROVE  Cardinality(LetIn') = Cardinality(LetIn) - 1
    <3>1. LetIn' = LetIn \ {r} /\ r \in LetIn
      BY <1>1, <2>1, IdleIsACall DEF LetIn, MayFail, RecordFailure
    <3>2. IsFiniteSet(LetIn)
      BY <2>1, FS_Subset DEF LetIn
    <3> QED
      BY <3>1, <3>2, FS_RemoveElement
  <2>2. LetIn' \subseteq LetIn
    BY <1>1, IdleIsACall DEF LetIn, MayFail
  <2>3. limiter.own \in Nat /\ limiter.fails \in Nat /\ Limit \in Nat
    BY SignInAssumption DEF IInv, Typed
  <2> QED
    BY <1>3, <2>1, <2>2, <2>3, AttemptsAreFinite DEF IInv, RoomIsShared
<1> QED
  BY <1>4, <1>5, <1>6, <1>7 DEF IInv

-----------------------------------------------------------------------------

(* What a call of the invariant's places is.                               *)
LEMMA CallFields ==
  ASSUME Typed, NEW r \in Request
  PROVE  /\ call[r] \in Call
         /\ call[r].id \in Nat /\ call[r].set \in Nat /\ call[r].seen \in Nat /\ call[r].code \in Pair
         /\ call[r].by \in Slot \cup {0}
  BY DEF Typed, Call

(* A session is opened under the number its sign-in bears.                 *)
LEMMA OpenStep ==
  ASSUME IInv, NEW r \in Request, OpenSession(r)
  PROVE  IInv'
<1>1. /\ call' \in [Request -> Call] /\ call'[r] = Idle
      /\ \A q \in Request : q # r => call'[q] = call[q]
  BY IdleIsACall, CallMoves DEF OpenSession, Ends, IInv
<1>2. PICK id \in Slot : db' = CreateSession(db, id, call[r].seen)
  BY DEF OpenSession
<1>3. UNCHANGED <<era, floor, sets, limiter, accepted, troubles>>
  BY DEF OpenSession, Writes, Quiet
<1>4. call[r].seen \in Nat /\ call[r].seen >= floor /\ db \in Account
  BY CallFields DEF IInv, Typed, OpenSession, At, Seeing, SeenSinceTheFloor
<1>5. /\ db' \in Account /\ db'.codes = db.codes /\ db'.sessions[id] = call[r].seen
      /\ \A s \in Slot : s # id => db'.sessions[s] = db.sessions[s]
  BY <1>2, <1>4, SessionOpened
<1>6. Typed'
  BY <1>1, <1>3, <1>5 DEF IInv, Typed
<1>7. SeenSinceTheFloor' /\ TakersTake'
  BY <1>1, <1>3, IdleIsACall DEF IInv, SeenSinceTheFloor, TakersTake, Seeing
<1>8. SessionsEnd'
  BY <1>3, <1>4, <1>5 DEF IInv, SessionsEnd, Live
<1>9. RowsAreDistinct' /\ StoringIsAhead' /\ MarkIsOfTheCode' /\ AcceptedIsMarked'
  BY <1>1, <1>3, <1>5, IdleIsACall, CodesKept
<1>10. RoomIsShared'
  BY <1>1, <1>3, IdleIsACall, RoomKept DEF MayFail
<1> QED
  BY <1>6, <1>7, <1>8, <1>9, <1>10 DEF IInv

(* A password is written, or the account disabled: the era goes up, and a  *)
(* call is on its way to the sessions.                                     *)
LEMMA CutStep ==
  ASSUME IInv, NEW r \in Request, WritePassword(r) \/ Disable(r)
  PROVE  IInv'
<1> DEFINE c == IF WritePassword(r) THEN [call[r] EXCEPT !.pc = "revoke", !.seen = era + 1]
                ELSE [Idle EXCEPT !.pc = "revoke", !.op = "disable", !.seen = era + 1]
<1>1. c \in Call /\ c.pc = "revoke" /\ c.seen = era + 1
  <2>1. era + 1 \in Nat
    BY DEF IInv, Typed
  <2>2. ASSUME NEW k \in Call, NEW p \in Op
        PROVE  LET b == [k EXCEPT !.pc = "revoke", !.op = p, !.seen = era + 1]
                   w == [k EXCEPT !.pc = "revoke", !.seen = era + 1]
               IN /\ b \in Call /\ b.pc = "revoke" /\ b.seen = era + 1
                  /\ w \in Call /\ w.pc = "revoke" /\ w.seen = era + 1
    BY <2>1 DEF Call, Pc
  <2>3. call[r] \in Call /\ Idle \in Call /\ "disable" \in Op
    BY CallFields, IdleIsACall DEF IInv, Op
  <2> QED
    BY <2>2, <2>3
<1>2. Calls(r, c)
  BY DEF WritePassword, Disable
<1> HIDE DEF c
<1>3. /\ call' \in [Request -> Call] /\ call'[r] = c
      /\ \A q \in Request : q # r => call'[q] = call[q]
  BY <1>1, <1>2, CallMoves DEF IInv
<1>4. era' = era + 1 /\ UNCHANGED <<floor, sets, limiter, accepted, troubles>>
  BY DEF WritePassword, Disable, Quiet
<1>5. db' \in Account /\ db'.sessions = db.sessions /\ db'.codes = db.codes
  <2>1. db \in Account /\ era + 1 \in Nat
    BY DEF IInv, Typed
  <2>2. db' = UpdateUserPassword(db, era + 1) \/ db' = SetUserDisabled(db, TRUE)
    BY DEF WritePassword, Disable
  <2> QED
    BY ZenonT(40), <2>1, <2>2, FlagStatements
<1>6. Typed'
  BY <1>3, <1>4, <1>5 DEF IInv, Typed
<1>7. SeenSinceTheFloor' /\ SessionsEnd'
  BY <1>1, <1>3, <1>4, <1>5, SessionsKept DEF IInv, Typed, Seeing
<1>8. TakersTake'
  BY <1>1, <1>3 DEF IInv, TakersTake
<1>9. RowsAreDistinct' /\ StoringIsAhead' /\ MarkIsOfTheCode' /\ AcceptedIsMarked'
  BY <1>1, <1>3, <1>4, <1>5, CodesKept
<1>10. RoomIsShared'
  BY <1>1, <1>3, <1>4, RoomKept DEF MayFail
<1> QED
  BY <1>6, <1>7, <1>8, <1>9, <1>10 DEF IInv

(* The cut reaches the sessions: the floor rises, and so do the numbers of *)
(* the session that was kept and of the sign-ins under way.                *)
LEMMA EndStep ==
  ASSUME IInv, NEW r \in Request, EndSessions(r)
  PROVE  IInv'
<1> DEFINE kept == IF call[r].op = "change" THEN call[r].by ELSE 0
           d == IF call[r].op = "change" THEN RevokeOtherSessionsForUser(db, call[r].by)
                ELSE RevokeAllSessionsForUser(db)
           e == call[r].seen
<1>1. /\ d \in Account /\ d.codes = db.codes /\ d.sessions \in [Slot -> Int]
      /\ \A s \in Slot : d.sessions[s] \in {db.sessions[s], Ended} /\ (s # kept => s \notin Live(d))
  <2>1. db \in Account
    BY DEF IInv, Typed
  <2>2. d \in Account /\ d.codes = db.codes /\ \A s \in Slot : d.sessions[s] \in {db.sessions[s], Ended}
    BY <2>1, SessionStatements
  <2>3. \A s \in Slot : s # kept => s \notin Live(d)
    BY <2>1 DEF Account, Live, RevokeOtherSessionsForUser, RevokeAllSessionsForUser, Ended, Unopened
  <2> QED
    BY <2>2, <2>3, AccountFields
<1>2. Over(r, d, kept, e)
  BY DEF EndSessions
<1>3. UNCHANGED <<era, sets, accepted, troubles>> /\ (limiter' = limiter \/ Reset)
  BY DEF EndSessions
<1>4. e \in Nat /\ e <= era /\ floor \in Nat /\ floor <= era /\ era \in Nat
  BY CallFields DEF EndSessions, IInv, Typed, SeenSinceTheFloor
<1> HIDE DEF d, kept, e
<1>5. floor' = Larger(floor, e) /\ floor' \in Nat /\ floor' >= floor /\ floor' >= e /\ floor' <= era
  BY <1>2, <1>4 DEF Over, Larger
<1>6. /\ call' \in [Request -> Call] /\ call'[r] = Idle
      /\ \A q \in Request : q # r =>
           /\ call'[q].pc = call[q].pc /\ call'[q].op = call[q].op /\ call'[q].typed = call[q].typed
           /\ call'[q].code = call[q].code /\ call'[q].id = call[q].id /\ call'[q].set = call[q].set
           /\ IF call[q].op = "login" /\ call[q].pc \notin {"idle", "read"}
              THEN call'[q].seen = Larger(call[q].seen, e) ELSE call'[q].seen = call[q].seen
  <2>1. ASSUME NEW c \in Call
        PROVE  /\ [c EXCEPT !.seen = Larger(@, e)] \in Call
               /\ [c EXCEPT !.seen = Larger(@, e)].seen = Larger(c.seen, e)
    BY <1>4 DEF Call, Larger
  <2>2. call \in [Request -> Call] /\ Idle \in Call
    BY IdleIsACall DEF IInv, Typed
  <2>3. call' = [q \in Request |-> IF q = r THEN Idle
                                ELSE IF call[q].op = "login" /\ call[q].pc \notin {"idle", "read"}
                                     THEN [call[q] EXCEPT !.seen = Larger(@, e)] ELSE call[q]]
    BY <1>2 DEF Over
  <2> QED
    BY <2>1, <2>2, <2>3 DEF Call
<1>7. /\ db' \in Account /\ db'.codes = db.codes
      /\ \A s \in Slot : s \in Live(db') => s = kept /\ s \in Live(db) /\ db'.sessions[s] = Larger(db.sessions[s], e)
  BY <1>1, <1>2, <1>4 DEF Over, Account, Live, Larger, Ended, Unopened
<1>8. Typed'
  BY <1>3, <1>5, <1>6, <1>7 DEF IInv, Typed, Reset
<1>9. SeenSinceTheFloor'
  BY <1>3, <1>4, <1>5, <1>6, IdleIsACall, CallFields DEF IInv, SeenSinceTheFloor, Seeing, Larger
<1>10. SessionsEnd'
  <2>1. ASSUME NEW s \in Slot, s \in Live(db') PROVE db'.sessions[s] >= floor'
    <3>1. db.sessions[s] >= floor /\ db'.sessions[s] = Larger(db.sessions[s], e) /\ db.sessions[s] \in Int
      BY <1>7, <2>1, AccountFields DEF IInv, SessionsEnd, Typed
    <3> QED
      BY <1>4, <1>5, <3>1 DEF Larger
  <2> QED
    BY <2>1 DEF SessionsEnd, Live
<1>11. TakersTake'
  BY <1>6, IdleIsACall DEF IInv, TakersTake
<1>12. RowsAreDistinct' /\ StoringIsAhead' /\ MarkIsOfTheCode' /\ AcceptedIsMarked'
  BY <1>3, <1>6, <1>7, IdleIsACall DEF IInv, RowsAreDistinct, StoringIsAhead, MarkIsOfTheCode, AcceptedIsMarked
<1>13. RoomIsShared'
  BY <1>3, <1>6, IdleIsACall, RoomKept DEF MayFail
<1> QED
  BY <1>8, <1>9, <1>10, <1>11, <1>12, <1>13 DEF IInv

-----------------------------------------------------------------------------

(* A call that goes on or fails as if nothing had been found is let        *)
(* nowhere it was not.                                                     *)
LEMMA RefuseIsPlain ==
  ASSUME Typed, NEW r \in Request, call[r].pc \in {"list", "mark"}, Refuse(r)
  PROVE  \E c \in Call : Calls(r, c) /\ Plain(c, call[r])
  BY Going, IdleIsACall DEF Refuse, Ends, Plain, Seeing, MayFail, Takers, Pc

(* The code that was presented is looked for among the unused ones.        *)
LEMMA ListStep ==
  ASSUME IInv, NEW r \in Request, NEW code \in Presented, List(r, code)
  PROVE  IInv'
<1>0. Typed /\ db \in Account /\ code \in Code /\ code[1] <= sets.begun
  BY DEF IInv, Typed, Presented
<1>1. CASE Refuse(r)
  BY <1>0, <1>1, RefuseIsPlain, CallMoves, PlainStep DEF List, Reads, Quiet, Typed
<1>2. CASE ~Refuse(r)
  <2>1. PICK row \in Unused(db, code) :
          Calls(r, [call[r] EXCEPT !.pc = "mark", !.code = code, !.id = row.id])
    BY <1>2 DEF List
  <2> DEFINE c == [call[r] EXCEPT !.pc = "mark", !.code = code, !.id = row.id]
  <2>2. row \in db.codes /\ row.code = code /\ row.id \in Nat /\ code \in Pair
    BY <1>0, AccountFields DEF Unused, Row, Code, Pair
  <2>3. /\ c \in Call /\ c.pc = "mark" /\ c.code = code /\ c.id = row.id
        /\ c.op = call[r].op /\ c.seen = call[r].seen /\ c.typed = call[r].typed
    BY ZenonT(40), <1>0, <2>2, CallFields DEF Call, Pc
  <2>4. Calls(r, c)
    BY <2>1
  <2> HIDE DEF c
  <2>5. /\ call' \in [Request -> Call] /\ call'[r] = c
        /\ \A q \in Request : q # r => call'[q] = call[q]
    BY <1>0, <2>3, <2>4, CallMoves
  <2>6. UNCHANGED <<db, era, limiter, floor, sets, accepted, troubles>> /\ call[r].pc = "list"
    BY DEF List, Reads, Quiet
  <2>7. Typed'
    BY <2>5, <2>6 DEF IInv, Typed
  <2>8. SeenSinceTheFloor' /\ SessionsEnd' /\ TakersTake'
    BY <2>3, <2>5, <2>6 DEF IInv, SeenSinceTheFloor, SessionsEnd, Live, TakersTake, Seeing
  <2>9. RowsAreDistinct' /\ AcceptedIsMarked'
    BY <2>6 DEF IInv, RowsAreDistinct, AcceptedIsMarked
  <2>10. StoringIsAhead' /\ MarkIsOfTheCode'
    BY <1>0, <2>2, <2>3, <2>5, <2>6 DEF IInv, StoringIsAhead, MarkIsOfTheCode
  <2>11. RoomIsShared'
    BY <2>3, <2>5, <2>6, RoomKept DEF MayFail
  <2> QED
    BY <2>7, <2>8, <2>9, <2>10, <2>11 DEF IInv
<1> QED
  BY <1>1, <1>2

(* The rows of e are those of d with the one of that number marked.        *)
RowsFollow(d, id, e) ==
  /\ e \in Account /\ e.sessions = d.sessions
  /\ \A row \in d.codes : \E new \in e.codes : new.id = row.id /\ new.code = row.code
  /\ \A new \in e.codes : \E row \in d.codes :
       /\ new.id = row.id /\ new.code = row.code
       /\ row.used \/ row.id = id => new.used
       /\ ~row.used /\ row.id # id => new = row

(* Marking a row changes no number and no code.                            *)
LEMMA RowsMarked ==
  ASSUME NEW d \in Account, NEW id \in Nat
  PROVE  RowsFollow(d, id, MarkRecoveryCodeUsed(d, id))
<1> DEFINE e == MarkRecoveryCodeUsed(d, id)
<1> DEFINE Marked(row) == IF row \in Markable(d, id) THEN [row EXCEPT !.used = TRUE] ELSE row
<1>1. ASSUME NEW row \in d.codes
      PROVE  /\ Marked(row) \in Row /\ Marked(row).id = row.id /\ Marked(row).code = row.code
             /\ row.used \/ row.id = id => Marked(row).used
             /\ ~row.used /\ row.id # id => Marked(row) = row
  BY AccountFields DEF Row, Markable
<1>2. e = [d EXCEPT !.codes = {Marked(row) : row \in d.codes}]
  BY DEF MarkRecoveryCodeUsed, Account
<1> HIDE DEF Marked, e
<1>3. e.codes = {Marked(row) : row \in d.codes} /\ e.codes \in SUBSET Row /\ e.sessions = d.sessions
  BY <1>1, <1>2 DEF Account
<1>4. e \in Account
  BY <1>2, <1>3 DEF Account
<1>5. RowsFollow(d, id, e)
  BY <1>1, <1>3, <1>4 DEF RowsFollow
<1> QED
  BY <1>5 DEF e

(* A row is marked, and its code accepted; or it was marked meanwhile.     *)
LEMMA MarkStep ==
  ASSUME IInv, NEW r \in Request, Mark(r)
  PROVE  IInv'
<1>0. Typed /\ db \in Account /\ call[r].id \in Nat /\ call[r] \in Call
  BY CallFields DEF IInv, Typed
<1>1. CASE Markable(db, call[r].id) = {}
  BY <1>0, <1>1, RefuseIsPlain, CallMoves, PlainStep DEF Mark, Reads, Quiet, Typed
<1>2. CASE Markable(db, call[r].id) # {}
  <2> DEFINE c == [call[r] EXCEPT !.pc = Accepted(call[r].op), !.typed = TRUE, !.code = <<1, 1>>, !.id = 0]
  <2>1. call[r].pc = "mark" /\ call[r].op \in Takers
    BY DEF Mark, IInv, TakersTake
  <2>2. Accepted(call[r].op) \in {"open", "update", "turnOff"} /\ (call[r].op # "login" => Accepted(call[r].op) # "open")
    BY <2>1 DEF Accepted, Takers
  <2>3. /\ c \in Call /\ c.pc = Accepted(call[r].op) /\ c.op = call[r].op /\ c.seen = call[r].seen
    BY <1>0, <2>2 DEF Call, Pc, Pair
  <2>4. Calls(r, c)
    BY <1>2 DEF Mark
  <2> HIDE DEF c
  <2>5. /\ call' \in [Request -> Call] /\ call'[r] = c
        /\ \A q \in Request : q # r => call'[q] = call[q]
    BY <1>0, <2>3, <2>4, CallMoves
  <2>6. /\ db' = MarkRecoveryCodeUsed(db, call[r].id)
        /\ accepted' = [accepted EXCEPT ![call[r].code] = @ + 1]
        /\ UNCHANGED <<era, limiter, floor, sets, troubles>>
    BY <1>2 DEF Mark
  <2>7. /\ db' \in Account /\ db'.sessions = db.sessions
        /\ \A row \in db.codes : \E new \in db'.codes : new.id = row.id /\ new.code = row.code
        /\ \A new \in db'.codes : \E row \in db.codes :
             /\ new.id = row.id /\ new.code = row.code
             /\ row.used \/ row.id = call[r].id => new.used
             /\ ~row.used /\ row.id # call[r].id => new = row
    <3>1. RowsFollow(db, call[r].id, db')
      BY <1>0, <2>6, RowsMarked
    <3> QED
      BY <3>1 DEF RowsFollow
  <2>8. Typed'
    <3>1. call[r].code \in Code
      BY <2>1 DEF IInv, MarkIsOfTheCode
    <3>2. accepted' \in [Code -> Nat]
      BY <2>6, <3>1 DEF IInv, Typed
    <3> QED
      BY <2>5, <2>6, <2>7, <3>2 DEF IInv, Typed
  <2>9. SeenSinceTheFloor' /\ SessionsEnd'
    <3>1. \A s \in Slot : db'.sessions[s] \in {db.sessions[s], Ended}
      BY <2>7
    <3>2. call'[r].pc # "revoke" /\ (call'[r].op = "login" => call'[r].seen >= floor)
      BY <2>1, <2>2, <2>3, <2>5 DEF IInv, SeenSinceTheFloor, Seeing
    <3> QED
      BY <2>5, <2>6, <3>1, <3>2, SessionsKept DEF IInv, Typed
  <2>10. TakersTake'
    BY <2>2, <2>3, <2>5 DEF IInv, TakersTake
  <2>11. RowsAreDistinct'
    <3>1. {row.id : row \in db'.codes} = {row.id : row \in db.codes}
      BY <2>7
    <3>2. ASSUME NEW new \in db'.codes, NEW other \in db'.codes, new.id = other.id \/ new.code = other.code
          PROVE  new = other
      <4>1. PICK row \in db.codes :
              /\ new.id = row.id /\ new.code = row.code
              /\ row.used \/ row.id = call[r].id => new.used
              /\ ~row.used /\ row.id # call[r].id => new = row
        BY <2>7
      <4>2. PICK old \in db.codes :
              /\ other.id = old.id /\ other.code = old.code
              /\ old.used \/ old.id = call[r].id => other.used
              /\ ~old.used /\ old.id # call[r].id => other = old
        BY <2>7
      <4>3. row = old
        BY <3>2, <4>1, <4>2 DEF IInv, RowsAreDistinct
      <4>4. new \in Row /\ other \in Row
        BY <2>7, AccountFields
      <4>5. new.used = other.used
        BY <4>1, <4>2, <4>3, <4>4 DEF Row
      <4> QED
        BY <4>1, <4>2, <4>3, <4>4, <4>5 DEF Row
    <3>3. \A new \in db'.codes : new.code[1] <= sets'.begun
      BY <2>6, <2>7 DEF IInv, RowsAreDistinct
    <3> QED
      BY <2>6, <3>1, <3>2, <3>3 DEF IInv, RowsAreDistinct
  <2>12. call[r].code \in Code /\ call[r].code[1] <= sets.begun
    BY <2>1 DEF IInv, MarkIsOfTheCode
  <2>13. /\ \A k \in Code : k # call[r].code => accepted'[k] = accepted[k]
         /\ accepted'[call[r].code] = accepted[call[r].code] + 1
    BY <2>6, <2>12 DEF IInv, Typed
  <2>14. StoringIsAhead'
    <3>1. ASSUME NEW q \in Request, call[q].pc = "store", NEW k \in Code,
                 k[1] = call[q].set, k[2] >= call[q].id
          PROVE  k # call[r].code
      <4>1. call[r].code[1] = call[q].set => call[r].code[2] < call[q].id
        BY <2>1, <3>1 DEF IInv, StoringIsAhead
      <4>2. k[2] \in Nat /\ call[q].id \in Nat
        BY <1>0, CallFields DEF Code
      <4> QED
        BY <3>1, <4>1, <4>2
    <3>2. \A q \in Request : call'[q].pc \in {"store", "mark"} => q # r /\ call'[q] = call[q]
      BY <2>2, <2>3, <2>5
    <3> QED
      BY <2>6, <2>7, <2>13, <3>1, <3>2 DEF IInv, StoringIsAhead
  <2>15. MarkIsOfTheCode'
    <3>1. \A q \in Request : call'[q].pc = "mark" => call'[q] = call[q]
      BY <2>2, <2>3, <2>5
    <3> QED
      BY <2>6, <2>7, <3>1 DEF IInv, MarkIsOfTheCode
  <2>16. AcceptedIsMarked'
    <3>1. ASSUME NEW k \in Code, k[1] = sets.begun, k = call[r].code
          PROVE  accepted'[k] = 1 /\ \A new \in db'.codes : new.code = k => new.used
      <4>1. PICK row \in db.codes : row.id = call[r].id /\ row.code = k
        BY <2>1, <3>1 DEF IInv, MarkIsOfTheCode
      <4>2. PICK m \in db.codes : m.id = call[r].id /\ ~m.used
        BY <1>2 DEF Markable
      <4>3. m = row
        BY <4>1, <4>2 DEF IInv, RowsAreDistinct
      <4>4. accepted[k] = 0
        BY <3>1, <4>1, <4>2, <4>3 DEF IInv, AcceptedIsMarked
      <4>5. ASSUME NEW new \in db'.codes, new.code = k PROVE new.used
        <5>1. PICK old \in db.codes :
                new.id = old.id /\ new.code = old.code /\ (old.id = call[r].id => new.used)
          BY <2>7
        <5> QED
          BY <4>1, <4>5, <5>1 DEF IInv, RowsAreDistinct
      <4> QED
        BY <2>13, <3>1, <4>4, <4>5
    <3>2. ASSUME NEW k \in Code, k[1] = sets.begun, k # call[r].code, accepted[k] # 0
          PROVE  accepted'[k] = 1 /\ \A new \in db'.codes : new.code = k => new.used
      <4>1. accepted[k] = 1 /\ \A row \in db.codes : row.code = k => row.used
        BY <3>2 DEF IInv, AcceptedIsMarked
      <4> QED
        BY <2>7, <2>13, <3>2, <4>1
    <3>3. ASSUME NEW k \in Code, k[1] > sets.begun PROVE accepted'[k] = 0
      <4>1. k # call[r].code
        BY <2>12, <3>3 DEF Code, IInv, Typed
      <4> QED
        BY <2>13, <3>3, <4>1 DEF IInv, AcceptedIsMarked
    <3> QED
      BY <2>6, <2>13, <3>1, <3>2, <3>3 DEF AcceptedIsMarked
  <2>17. RoomIsShared'
    BY <2>2, <2>3, <2>5, <2>6, RoomKept DEF MayFail
  <2> QED
    BY <2>8, <2>9, <2>10, <2>11, <2>14, <2>15, <2>16, <2>17 DEF IInv
<1> QED
  BY <1>1, <1>2

(* The old codes are deleted, and a new set is begun.                      *)
LEMMA ClearStep ==
  ASSUME IInv, NEW r \in Request, Clear(r)
  PROVE  IInv'
<1> DEFINE c == [call[r] EXCEPT !.pc = "store", !.set = sets.begun + 1, !.id = 1]
<1>0. Typed /\ db \in Account /\ call[r] \in Call /\ sets.begun \in Nat
  BY CallFields DEF IInv, Typed
<1>1. c \in Call /\ c.pc = "store" /\ c.set = sets.begun + 1 /\ c.id = 1
  <2>1. ASSUME NEW d \in Call, NEW n \in Nat
        PROVE  LET e == [d EXCEPT !.pc = "store", !.set = n, !.id = 1]
               IN e \in Call /\ e.pc = "store" /\ e.set = n /\ e.id = 1
    BY DEF Call, Pc
  <2>2. sets.begun + 1 \in Nat
    BY <1>0
  <2> QED
    BY <1>0, <2>1, <2>2
<1>2. Calls(r, c)
  BY DEF Clear
<1> HIDE DEF c
<1>3. /\ call' \in [Request -> Call] /\ call'[r] = c
      /\ \A q \in Request : q # r => call'[q] = call[q]
  BY <1>0, <1>1, <1>2, CallMoves
<1>4. /\ UNCHANGED <<era, limiter, floor, accepted, troubles>>
      /\ sets' = [begun |-> sets.begun + 1, cleared |-> sets.begun + 1]
  BY DEF Clear
<1>5. db' \in Account /\ db'.sessions = db.sessions /\ db'.codes = {}
  BY <1>0 DEF Clear, Account, DeleteRecoveryCodesForUser
<1>6. Typed'
  BY <1>0, <1>3, <1>4, <1>5 DEF IInv, Typed
<1>7. SeenSinceTheFloor' /\ SessionsEnd' /\ TakersTake'
  BY <1>1, <1>3, <1>4, <1>5 DEF IInv, SeenSinceTheFloor, SessionsEnd, Live, TakersTake, Seeing
<1>8. RowsAreDistinct'
  <2>1. {row.id : row \in db'.codes} = {}
    BY <1>5
  <2> QED
    BY <1>4, <1>5, <2>1, FS_EmptySet DEF RowsAreDistinct
<1>9. StoringIsAhead'
  <2>1. ASSUME NEW k \in Code, k[1] = sets.begun + 1 PROVE accepted[k] = 0
    BY <1>0, <2>1 DEF IInv, AcceptedIsMarked
  <2>2. ASSUME NEW q \in Request, call[q].pc = "mark" PROVE call[q].code[1] # sets.begun + 1
    <3>1. call[q].code \in Code /\ call[q].code[1] <= sets.begun
      BY <2>2 DEF IInv, MarkIsOfTheCode
    <3> QED
      BY <1>0, <3>1 DEF Code
  <2>3. ASSUME NEW q \in Request, call[q].pc = "store"
        PROVE  call[q].set <= sets.begun /\ call[q].set # sets.begun + 1 /\ call[q].set <= sets.begun + 1
    BY <1>0, <2>3, CallFields DEF IInv, StoringIsAhead
  <2>4. ASSUME NEW q \in Request, call'[q].pc = "store"
        PROVE  /\ call'[q].set <= sets.begun + 1
               /\ \A k \in Code : k[1] = call'[q].set /\ k[2] >= call'[q].id => accepted[k] = 0
               /\ \A p \in Request :
                    /\ call'[p].pc = "mark" /\ call'[p].code[1] = call'[q].set => call'[p].code[2] < call'[q].id
                    /\ call'[p].pc = "store" /\ call'[p].set = call'[q].set => p = q
    <3>1. CASE q = r
      BY <1>0, <1>1, <1>3, <2>1, <2>2, <2>3, <3>1
    <3>2. CASE q # r
      <4>1. call'[q] = call[q] /\ call[q].pc = "store" /\ call[q].set <= sets.begun + 1
            /\ call[q].set # sets.begun + 1
        BY <1>3, <2>3, <2>4, <3>2
      <4>2. \A k \in Code : k[1] = call[q].set /\ k[2] >= call[q].id => accepted[k] = 0
        BY <4>1 DEF IInv, StoringIsAhead
      <4>3. ASSUME NEW p \in Request
            PROVE  /\ call'[p].pc = "mark" /\ call'[p].code[1] = call[q].set => call'[p].code[2] < call[q].id
                   /\ call'[p].pc = "store" /\ call'[p].set = call[q].set => p = q
        <5>1. CASE p = r
          BY <1>1, <1>3, <4>1, <5>1
        <5>2. CASE p # r
          BY <1>3, <4>1, <5>2 DEF IInv, StoringIsAhead
        <5> QED
          BY <5>1, <5>2
      <4> QED
        BY <4>1, <4>2, <4>3
    <3> QED
      BY <3>1, <3>2
  <2> QED
    BY <1>4, <1>5, <2>4 DEF StoringIsAhead
<1>10. MarkIsOfTheCode'
  <2>1. ASSUME NEW q \in Request, call'[q].pc = "mark"
        PROVE  /\ call'[q].code \in Code
               /\ call'[q].code[1] <= sets.begun + 1 /\ call'[q].code[1] # sets.begun + 1
    <3>1. call'[q] = call[q] /\ call[q].code \in Code /\ call[q].code[1] <= sets.begun
      BY <1>1, <1>3, <2>1 DEF IInv, MarkIsOfTheCode
    <3> QED
      BY <1>0, <3>1 DEF Code
  <2> QED
    BY <1>4, <2>1 DEF MarkIsOfTheCode
<1>11. AcceptedIsMarked'
  <2>1. ASSUME NEW k \in Code, k[1] >= sets.begun + 1 PROVE accepted[k] = 0
    BY <1>0, <2>1 DEF IInv, AcceptedIsMarked, Code
  <2> QED
    BY <1>0, <1>4, <2>1 DEF AcceptedIsMarked, Code
<1>12. RoomIsShared'
  BY <1>1, <1>3, <1>4, RoomKept DEF MayFail
<1> QED
  BY <1>6, <1>7, <1>8, <1>9, <1>10, <1>11, <1>12 DEF IInv

(* The next code of a set is stored, under a number nobody has.            *)
LEMMA StoreStep ==
  ASSUME IInv, NEW r \in Request, Store(r)
  PROVE  IInv'
<1> DEFINE k == <<call[r].set, call[r].id>>
           new == [id |-> FreshId(db.codes), code |-> k, used |-> FALSE]
<1>0. /\ Typed /\ db \in Account /\ call[r] \in Call /\ sets.begun \in Nat /\ db.codes \in SUBSET Row
      /\ call[r].pc = "store" /\ call[r].set \in Nat /\ call[r].id \in Nat /\ call[r].set <= sets.begun
  BY CallFields, AccountFields DEF IInv, Typed, Store, StoringIsAhead
<1>1. PICK c \in Call : /\ Calls(r, c)
                        /\ c.pc = "store" => c.set = call[r].set /\ c.id = call[r].id + 1
                        /\ c.pc \in {"idle", "store"}
  <2>1. CASE call[r].id = SetSize
    BY <2>1, IdleIsACall DEF Store, Ends
  <2>2. CASE call[r].id # SetSize
    <3> DEFINE d == [call[r] EXCEPT !.id = @ + 1]
    <3>1. d \in Call /\ d.pc = "store" /\ d.set = call[r].set /\ d.id = call[r].id + 1
      BY <1>0 DEF Call
    <3>2. Calls(r, d)
      BY <2>2 DEF Store
    <3> HIDE DEF d
    <3> QED
      BY <3>1, <3>2
  <2> QED
    BY <2>1, <2>2
<1>2. /\ call' \in [Request -> Call] /\ call'[r] = c
      /\ \A q \in Request : q # r => call'[q] = call[q]
  BY <1>0, <1>1, CallMoves
<1>3. UNCHANGED <<era, limiter, floor, sets, accepted, troubles>>
  BY DEF Store, Writes, Quiet
<1>4. FreshId(db.codes) \in Nat \ {0} /\ \A row \in db.codes : row.id < FreshId(db.codes)
  BY <1>0, FreshIdIsNew DEF IInv, RowsAreDistinct
<1>5. new \in Row /\ new.id = FreshId(db.codes) /\ new.code = k /\ k[1] = call[r].set /\ k[2] = call[r].id
  BY <1>0, <1>4 DEF Row, Pair
<1>6. db' \in Account /\ db'.sessions = db.sessions /\ db'.codes = db.codes \cup {new}
  <2>1. db' = [db EXCEPT !.codes = @ \cup {new}]
    BY DEF Store, CreateRecoveryCode
  <2> HIDE DEF new, k
  <2> QED
    BY <1>0, <1>5, <2>1 DEF Account
<1>7. \A row \in db.codes : row.id # new.id /\ row.code # k
  <2>1. ASSUME NEW row \in db.codes PROVE row.code # k
    <3>1. row.code[1] = call[r].set => row.code[2] < call[r].id
      BY <1>0 DEF IInv, StoringIsAhead
    <3> QED
      BY <1>0, <1>5, <3>1
  <2>2. ASSUME NEW row \in db.codes PROVE row.id # new.id
    <3>1. row.id \in Nat
      BY <1>0 DEF Row
    <3> QED
      BY <1>4, <1>5, <3>1
  <2> QED
    BY <2>1, <2>2
<1> HIDE DEF new, k
<1>8. Typed'
  BY <1>2, <1>3, <1>6 DEF IInv, Typed
<1>9. SeenSinceTheFloor' /\ SessionsEnd' /\ TakersTake'
  BY <1>1, <1>2, <1>3, <1>6 DEF IInv, SeenSinceTheFloor, SessionsEnd, Live, TakersTake, Seeing
<1>10. RowsAreDistinct'
  <2>1. {row.id : row \in db'.codes} = {row.id : row \in db.codes} \cup {new.id}
    BY <1>6
  <2>2. IsFiniteSet({row.id : row \in db'.codes})
    <3> DEFINE old == {row.id : row \in db.codes}
    <3>1. IsFiniteSet(old)
      BY DEF IInv, RowsAreDistinct
    <3> HIDE DEF old
    <3>2. IsFiniteSet(old \cup {new.id})
      BY <3>1, FS_AddElement
    <3> QED
      BY <2>1, <3>2 DEF old
  <2>3. \A row \in db'.codes : row.code[1] <= sets.begun
    BY <1>0, <1>5, <1>6 DEF IInv, RowsAreDistinct
  <2>4. \A row, other \in db'.codes : row.id = other.id \/ row.code = other.code => row = other
    BY <1>5, <1>6, <1>7 DEF IInv, RowsAreDistinct
  <2> QED
    BY <1>3, <2>2, <2>3, <2>4 DEF IInv, RowsAreDistinct
<1>11. StoringIsAhead'
  <2>1. ASSUME NEW q \in Request, call'[q].pc = "store"
        PROVE  /\ call[q].pc = "store" /\ call'[q].set = call[q].set
               /\ call'[q].id = IF q = r THEN call[q].id + 1 ELSE call[q].id
               /\ call[q].id \in Nat
    BY <1>0, <1>1, <1>2, <2>1, CallFields
  <2>2. ASSUME NEW q \in Request, call'[q].pc = "store"
        PROVE  \A row \in db'.codes : row.code[1] = call'[q].set => row.code[2] < call'[q].id
    <3>1. ASSUME NEW row \in db.codes, row.code[1] = call[q].set PROVE row.code[2] < call'[q].id
      <4>1. row.code[2] < call[q].id /\ row.code[2] \in Nat
        BY <1>0, <2>1, <2>2, <3>1 DEF IInv, StoringIsAhead, Row, Pair
      <4> QED
        BY <2>1, <2>2, <4>1
    <3>2. CASE q = r
      BY <1>0, <1>5, <1>6, <2>1, <2>2, <3>1, <3>2
    <3>3. CASE q # r
      <4>1. call[q].set # call[r].set
        BY <1>0, <2>1, <2>2, <3>3 DEF IInv, StoringIsAhead
      <4> QED
        BY <1>5, <1>6, <2>1, <2>2, <3>1, <4>1
    <3> QED
      BY <3>2, <3>3
  <2>3. ASSUME NEW q \in Request, call'[q].pc = "store", NEW l \in Code,
               l[1] = call'[q].set, l[2] >= call'[q].id
        PROVE  accepted[l] = 0
    <3>1. l[2] \in Nat /\ l[2] >= call[q].id
      BY <2>1, <2>3 DEF Code
    <3> QED
      BY <2>1, <2>3, <3>1 DEF IInv, StoringIsAhead
  <2>4. ASSUME NEW q \in Request, call'[q].pc = "store", NEW p \in Request, call'[p].pc = "mark",
               call'[p].code[1] = call'[q].set
        PROVE  call'[p].code[2] < call'[q].id
    <3>1. call'[p] = call[p] /\ call[p].code[2] \in Nat
      BY <1>1, <1>2, <2>4, CallFields DEF IInv, Pair
    <3>2. call[p].code[2] < call[q].id
      BY <2>1, <2>4, <3>1 DEF IInv, StoringIsAhead
    <3> QED
      BY <2>1, <2>4, <3>1, <3>2
  <2>5. ASSUME NEW q \in Request, call'[q].pc = "store", NEW p \in Request, call'[p].pc = "store",
               call'[p].set = call'[q].set
        PROVE  p = q
    BY <2>1, <2>5 DEF IInv, StoringIsAhead
  <2>6. \A q \in Request : call'[q].pc = "store" => call'[q].set <= sets.begun
    BY <2>1 DEF IInv, StoringIsAhead
  <2> QED
    BY <1>3, <2>2, <2>3, <2>4, <2>5, <2>6 DEF StoringIsAhead
<1>12. MarkIsOfTheCode'
  BY <1>1, <1>2, <1>3, <1>6 DEF IInv, MarkIsOfTheCode
<1>13. AcceptedIsMarked'
  <2>1. k \in Code => accepted[k] = 0
    BY <1>0, <1>5 DEF IInv, StoringIsAhead
  <2> QED
    BY <1>3, <1>5, <1>6, <2>1 DEF IInv, AcceptedIsMarked
<1>14. RoomIsShared'
  BY <1>1, <1>2, <1>3, RoomKept DEF MayFail
<1> QED
  BY <1>8, <1>9, <1>10, <1>11, <1>12, <1>13, <1>14 DEF IInv

-----------------------------------------------------------------------------

(* An account with one session and a first set of codes, and no call.      *)
LEMMA InitIInv == Init => IInv
<1> SUFFICES ASSUME Init PROVE IInv
  OBVIOUS
<1> DEFINE First(i) == [id |-> i, code |-> <<1, i>>, used |-> FALSE]
           rows == {First(i) : i \in 1..SetSize}
<1>0. ASSUME NEW i \in 1..SetSize
      PROVE  /\ First(i) \in Row /\ First(i).id = i /\ First(i).code = <<1, i>>
             /\ First(i).code[1] = 1 /\ First(i).code[2] = i
  BY SignInAssumption DEF Row, Pair
<1>1. \A q \in Request : call[q] = Idle
  BY DEF Init
<1>2. db.codes = rows /\ \A s \in Slot : db.sessions[s] = IF s = 1 THEN 0 ELSE Unopened
  BY DEF Init
<1>3. /\ era = 0 /\ floor = 0 /\ sets = [begun |-> 1, cleared |-> 1] /\ troubles = 0
      /\ limiter = [fails |-> 0, own |-> 0] /\ accepted = [c \in Code |-> 0]
  BY DEF Init
<1>4. Typed
  <2>1. rows \subseteq Row
    <3> HIDE DEF First
    <3> QED
      BY <1>0
  <2>2. db \in Account
    <3> HIDE DEF rows
    <3>1. PICK weak, totp \in BOOLEAN :
            db = [pw |-> 0, weak |-> weak, disabled |-> FALSE, totp |-> totp, token |-> FALSE,
                  sessions |-> [s \in Slot |-> IF s = 1 THEN 0 ELSE Unopened], codes |-> rows]
      BY DEF Init, rows
    <3>2. [s \in Slot |-> IF s = 1 THEN 0 ELSE Unopened] \in [Slot -> Int]
      BY DEF Unopened
    <3> QED
      BY <2>1, <3>1, <3>2 DEF Account
  <2>3. call \in [Request -> Call]
    BY IdleIsACall DEF Init
  <2> QED
    BY <1>3, <2>2, <2>3 DEF Typed
<1>5. SeenSinceTheFloor /\ SessionsEnd /\ TakersTake /\ StoringIsAhead /\ MarkIsOfTheCode /\ AcceptedIsMarked
  BY <1>1, <1>2, <1>3, IdleIsACall
  DEF SeenSinceTheFloor, SessionsEnd, TakersTake, StoringIsAhead, MarkIsOfTheCode, AcceptedIsMarked, Live,
      Unopened, Ended, Seeing
<1>6. RowsAreDistinct
  <2> HIDE DEF First
  <2>1. {row.id : row \in rows} = 1..SetSize
    BY <1>0
  <2>2. IsFiniteSet({row.id : row \in db.codes})
    <3>1. IsFiniteSet(1..SetSize)
      BY FS_Interval, SignInAssumption
    <3>2. {row.id : row \in db.codes} = 1..SetSize
      BY <1>2, <2>1
    <3> QED
      BY <3>1, <3>2
  <2>3. \A row \in rows : row.code[1] = 1 /\ row.code[2] = row.id
    BY <1>0
  <2>4. \A row, other \in rows : row.id = other.id => row = other
    BY <1>0
  <2> HIDE DEF rows
  <2> QED
    BY <1>2, <1>3, <2>2, <2>3, <2>4 DEF RowsAreDistinct
<1>7. RoomIsShared
  <2>1. LetIn = {}
    BY <1>1, IdleIsACall DEF LetIn, MayFail
  <2>2. Cardinality(LetIn) = 0
    BY <2>1, FS_EmptySet
  <2>3. IsFiniteSet(Request) => Cardinality(Request) \in Nat
    BY FS_CardinalityType
  <2> QED
    BY <1>3, <2>2, <2>3, SignInAssumption DEF RoomIsShared
<1> QED
  BY <1>4, <1>5, <1>6, <1>7 DEF IInv

(* Every step keeps it.                                                    *)
LEMMA NextIInv == IInv /\ [Next]_vars => IInv'
<1> SUFFICES ASSUME IInv, [Next]_vars PROVE IInv'
  OBVIOUS
<1>1. ASSUME NEW r \in Request,
             \/ \E typed \in BOOLEAN : StartLogin(r, typed) \/ StartReset(r, typed)
             \/ RecordFailure(r)
      PROVE  IInv'
  BY <1>1, AttemptStep, FailureStep
<1>2. ASSUME NEW r \in Request,
             \/ \E right \in BOOLEAN : ReadAccount(r, right)
             \/ \E app \in BOOLEAN : Second(r, app)
             \/ Verified(r) \/ Rehash(r)
      PROVE  IInv'
  BY <1>2, LoginStep
<1>3. ASSUME NEW r \in Request,
             \/ \E by \in Callers : StartChange(r, by)
             \/ \E right \in BOOLEAN : CheckCurrent(r, right)
             \/ StartRegenerate(r) \/ StartDisableTOTP(r) \/ TurnOff(r) \/ FindAccount(r) \/ Break(r)
      PROVE  IInv'
  BY <1>3, CallStep
<1>4. ASSUME NEW r \in Request,
             (\E code \in Presented : List(r, code)) \/ Mark(r) \/ Clear(r) \/ Store(r)
      PROVE  IInv'
  BY <1>4, ListStep, MarkStep, ClearStep, StoreStep
<1>5. ASSUME NEW r \in Request, OpenSession(r) \/ WritePassword(r) \/ Disable(r) \/ EndSessions(r)
      PROVE  IInv'
  BY <1>5, OpenStep, CutStep, EndStep
<1>6. CASE \/ Enable \/ EnableTOTP \/ SignOut \/ SignOutOthers \/ PurgeExpiredSessions \/ Tokens
           \/ WindowEnds \/ Stop \/ UNCHANGED vars
  BY <1>6, SurroundingsStep
<1> QED
  BY <1>1, <1>2, <1>3, <1>4, <1>5, <1>6 DEF Next

(* Whatever the requests, the sessions, the sets of codes and the cuts     *)
(* are, the account keeps its invariant.                                   *)
THEOREM SignInInvariant == Spec => []IInv
  BY InitIInv, NextIInv, PTL DEF Spec

(* Once a reset, a change of the password or a disabling has answered, no  *)
(* session from before it resolves.                                        *)
THEOREM CutsEndSessions == Spec => []SessionsEnd
<1>1. IInv => SessionsEnd
  BY DEF IInv
<1> QED
  BY SignInInvariant, <1>1, PTL

(* No two calls are told that one code of the set in force was accepted.   *)
THEOREM CodesAreAcceptedOnce == Spec => []CodesAreSpentOnce
<1>1. IInv => CodesAreSpentOnce
  <2> SUFFICES ASSUME IInv, NEW c \in Code, c[1] >= sets.cleared PROVE accepted[c] <= 1
    BY DEF CodesAreSpentOnce
  <2>1. sets.cleared = sets.begun /\ sets.begun \in Nat /\ c[1] \in Nat
    BY DEF IInv, Typed, RowsAreDistinct, Code
  <2> QED
    BY <2>1 DEF IInv, AcceptedIsMarked
<1> QED
  BY SignInInvariant, <1>1, PTL

(* However many attempts run at once, they fail no more often than the     *)
(* limit and the attempts already let in allow.                            *)
THEOREM FailuresAreBounded ==
  ASSUME IsFiniteSet(Request)
  PROVE  Spec => []AttemptsAreBounded
<1>1. IInv => AttemptsAreBounded
  <2>1. Cardinality(LetIn) \in Nat /\ Cardinality(Request) \in Nat
    BY AttemptsAreFinite
  <2> QED
    BY <2>1, SignInAssumption DEF IInv, Typed, RoomIsShared, AttemptsAreBounded
<1> QED
  BY SignInInvariant, <1>1, PTL
=============================================================================
