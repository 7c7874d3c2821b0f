--------------------------- MODULE AccountsProofs ---------------------------
(***************************************************************************)
(* Theorems about Accounts for any number of requests, accounts, links and *)
(* troubles, and whatever the requests may ask.                            *)
(***************************************************************************)
EXTENDS Accounts, FiniteSetTheorems, TLAPS

User == [id : Nat \ {0}, admin : BOOLEAN, disabled : BOOLEAN]
Invitation == [id : Nat \ {0}, token : Nat \ {0}, inviter : Nat, used : BOOLEAN, expired : BOOLEAN]
Pc == {"idle", "look", "join", "invite", "withdraw", "role", "state", "delete"}
Op == {"none", "setup", "accept", "invite", "revoke", "update", "delete"}
Call ==
  [pc : Pc, op : Op, me : Nat, target : Nat, token : Nat, role : Answer, state : Answer, late : BOOLEAN]

Typed ==
  /\ users \subseteq User /\ invitations \subseteq Invitation
  /\ issued \in Nat /\ troubles \in Nat
  /\ call \in [Request -> Call]
  /\ spent \in [1..MaxTokens -> Nat] /\ astray \in BOOLEAN

(* Numbers and tokens are given to one invitation each, of those issued,   *)
(* and an invitation names an inviter that is there.                       *)
InvitationsAreDistinct ==
  /\ issued <= MaxTokens
  /\ IsFiniteSet({u.id : u \in users}) /\ IsFiniteSet({i.id : i \in invitations})
  /\ \A i \in invitations :
       /\ i.token <= issued
       /\ i.inviter = 0 \/ \E u \in users : u.id = i.inviter
  /\ \A i, j \in invitations : i.id = j.id \/ i.token = j.token => i = j

(* A call that looked a link up, and that nothing overtook, holds the      *)
(* number of its row.                                                      *)
HoldersHaveRows ==
  \A r \in Request : call[r].pc = "join" /\ ~call[r].late =>
    \E i \in invitations : i.token = call[r].token /\ i.id = call[r].target

(* A token that was spent can be neither found, nor withdrawn, nor spent   *)
(* again by a call that holds it.                                          *)
SpentIsGone ==
  \A t \in 1..MaxTokens : spent[t] # 0 =>
    /\ spent[t] = 1 /\ t <= issued
    /\ \A i \in invitations : i.token = t => i.used
    /\ \A r \in Request : call[r].pc = "join" /\ call[r].token = t => call[r].late

(* A change is asked of another account, and asks for something.           *)
OthersAreChanged ==
  \A r \in Request :
    /\ call[r].pc \in {"role", "state", "delete"} => call[r].me # call[r].target
    /\ call[r].pc = "role" => call[r].role # "keep"
    /\ call[r].pc = "state" => call[r].state # "keep"

(* Before there is an account, only the setup makes one.                   *)
SetupComesFirst ==
  users = {} /\ ~astray => \A r \in Request : call[r].pc = "join" => call[r].op = "setup"

(* The inductive invariant.                                                *)
IInv ==
  /\ Typed
  /\ InvitationsAreDistinct
  /\ HoldersHaveRows
  /\ SpentIsGone
  /\ OthersAreChanged
  /\ SetupComesFirst
  /\ AdminRemains

-----------------------------------------------------------------------------

(* A finite set of naturals has the maximum that Max chooses.              *)
LEMMA MaxOfFinite ==
  ASSUME NEW S \in SUBSET Nat, S # {}, IsFiniteSet(S)
  PROVE  Max(S) \in S /\ \A n \in S : n <= Max(S)
<1> DEFINE Above(m) == {n \in S : n >= m}
           T == {Above(m) : m \in S}
           R == StrictSubsetOrdering(S)
<1>1. T \subseteq SUBSET S /\ T # {}
  OBVIOUS
<1>2. IsWellFoundedOn(R, SUBSET S)
  BY FS_FiniteSubsetsOfFinite, FS_StrictSubsetOrderingWellFounded
<1>3. PICK m \in S : \A k \in S : <<Above(k), Above(m)>> \notin R
  <2> HIDE DEF R, Above
  <2>1. \E x \in T : \A y \in T : <<y, x>> \notin R
    <3> HIDE DEF T
    <3> QED
      BY <1>1, <1>2, WFMin
  <2> QED
    BY <2>1
<1>4. ASSUME NEW k \in S PROVE k <= m
  <2>0. k \in Nat /\ m \in Nat /\ \A n \in S : n \in Nat
    OBVIOUS
  <2>1. CASE k > m
    <3>1. ASSUME NEW n \in Above(k) PROVE n \in Above(m)
      BY <2>0, <2>1, <3>1
    <3>2. m \in Above(m) /\ m \notin Above(k)
      BY <2>0, <2>1
    <3>3. Above(k) \subseteq Above(m) /\ Above(k) # Above(m)
      <4> HIDE DEF Above
      <4> QED
        BY <3>1, <3>2
    <3>4. Above(k) \in SUBSET S /\ Above(m) \in SUBSET S
      OBVIOUS
    <3> HIDE DEF Above
    <3> QED
      BY <3>3, <3>4, <1>3 DEF StrictSubsetOrdering
  <2> QED
    BY <2>0, <2>1
<1> HIDE DEF Above, T, R
<1> QED
  BY <1>4 DEF Max

(* The number of a new row is above every number in use.                   *)
LEMMA FreshIdIsNew ==
  ASSUME NEW rows, \A row \in rows : row.id \in Nat, IsFiniteSet({row.id : row \in rows})
  PROVE  FreshId(rows) \in Nat \ {0} /\ \A row \in rows : row.id < FreshId(rows)
<1> DEFINE ids == {0} \cup {row.id : row \in rows}
<1>1. ids \in SUBSET Nat /\ ids # {}
  OBVIOUS
<1>2. IsFiniteSet(ids)
  BY FS_AddElement
<1>3. Max(ids) \in ids /\ \A n \in ids : n <= Max(ids)
  <2> HIDE DEF ids
  <2> QED
    BY <1>1, <1>2, MaxOfFinite
<1>4. FreshId(rows) = 1 + Max(ids)
  BY DEF FreshId
<1>5. \A row \in rows : row.id \in ids
  OBVIOUS
<1> HIDE DEF ids
<1>6. Max(ids) \in Nat
  BY <1>1, <1>3
<1>7. ASSUME NEW row \in rows PROVE row.id < 1 + Max(ids)
  <2>1. row.id <= Max(ids) /\ row.id \in Nat
    BY <1>1, <1>3, <1>5
  <2> QED
    BY <1>6, <2>1
<1> QED
  BY <1>4, <1>6, <1>7

-----------------------------------------------------------------------------

(* What the places of a call hold.                                         *)
LEMMA CallFields ==
  ASSUME Typed, NEW r \in Request
  PROVE  /\ call[r] \in Call
         /\ call[r].target \in Nat /\ call[r].token \in Nat /\ call[r].me \in Nat
         /\ call[r].late \in BOOLEAN
  BY DEF Typed, Call

(* An idle call is a call.                                                 *)
LEMMA IdleIsACall == Idle \in Call /\ Idle.pc = "idle"
  BY DEF Idle, Call, Pc, Op, Answer

(* What asks nothing that the invariant speaks of.                         *)
Plain(c) ==
  /\ c.pc # "join"
  /\ c.pc \in {"role", "state", "delete"} => c.me # c.target
  /\ c.pc = "role" => c.role # "keep"
  /\ c.pc = "state" => c.state # "keep"

(* A step that moves calls to such places, and touches no row.             *)
LEMMA PlainStep ==
  ASSUME IInv, UNCHANGED <<users, invitations, issued, spent, astray>>, troubles' \in Nat,
         call' \in [Request -> Call],
         \A q \in Request : call'[q] = call[q] \/ Plain(call'[q])
  PROVE  IInv'
<1>1. Typed' /\ InvitationsAreDistinct' /\ AdminRemains'
  BY DEF IInv, Typed, InvitationsAreDistinct, AdminRemains, Administrators
<1>2. HoldersHaveRows' /\ SpentIsGone' /\ SetupComesFirst'
  BY DEF IInv, HoldersHaveRows, SpentIsGone, SetupComesFirst, Plain
<1>3. OthersAreChanged'
  BY DEF IInv, OthersAreChanged, Plain
<1> QED
  BY <1>1, <1>2, <1>3 DEF IInv

(* A call that is put into a place of the request r.                       *)
LEMMA Putting ==
  ASSUME Typed, NEW r \in Request, NEW c \in Call, call' = [call EXCEPT ![r] = c]
  PROVE  /\ call' \in [Request -> Call] /\ call'[r] = c
         /\ \A q \in Request : q # r => call'[q] = call[q]
  BY DEF Typed

(* What calls begin with, what is refused, and what breaks.                *)
LEMMA StartStep ==
  ASSUME IInv, NEW r \in Request,
         \/ \E token \in 1..issued : StartSetup(r, token) \/ StartAccept(r, token)
         \/ \E u \in users :
              \/ StartInvite(r, u.id)
              \/ \E i \in invitations : StartRevoke(r, u.id, i.id)
              \/ \E v \in users : StartDelete(r, u.id, v.id)
              \/ \E v \in users, body \in Bodies : StartUpdate(r, u.id, v.id, body[1], body[2])
         \/ Break(r)
  PROVE  IInv'
<1>0. Typed /\ issued \in Nat
  BY DEF IInv, Typed
<1>1. ASSUME NEW c \in Call, Plain(c), call' = [call EXCEPT ![r] = c],
             UNCHANGED <<users, invitations, issued, spent, astray>>, troubles' \in Nat
      PROVE  IInv'
  BY <1>0, <1>1, Putting, PlainStep
<1>2. \A u \in users : u.id \in Nat
  BY <1>0 DEF Typed, User
<1> USE <1>0 DEF Reads, Ghosts, Plain
<1>3. ASSUME NEW token \in 1..issued, StartSetup(r, token) \/ StartAccept(r, token) PROVE IInv'
  <2> DEFINE c == IF StartSetup(r, token) THEN [Idle EXCEPT !.pc = "look", !.op = "setup", !.token = token]
                  ELSE [Idle EXCEPT !.pc = "look", !.op = "accept", !.token = token]
  <2>0. token \in Nat
    OBVIOUS
  <2>1. c \in Call /\ c.pc = "look"
    BY <2>0 DEF Idle, Call, Pc, Op, Answer
  <2>2. call' = [call EXCEPT ![r] = c] /\ UNCHANGED <<users, invitations, issued, spent, astray, troubles>>
    BY <1>3 DEF StartSetup, StartAccept
  <2> HIDE DEF c
  <2> QED
    BY <1>1, <2>1, <2>2 DEF Typed
<1>4. ASSUME NEW u \in users, StartInvite(r, u.id) PROVE IInv'
  <2> DEFINE c == [Idle EXCEPT !.pc = "invite", !.op = "invite", !.me = u.id]
  <2>1. c \in Call /\ c.pc = "invite"
    BY <1>2 DEF Idle, Call, Pc, Op, Answer
  <2>2. call' = [call EXCEPT ![r] = c] /\ UNCHANGED <<users, invitations, issued, spent, astray, troubles>>
    BY <1>4 DEF StartInvite, LetIn
  <2> HIDE DEF c
  <2> QED
    BY <1>1, <2>1, <2>2 DEF Typed
<1>5. ASSUME NEW u \in users, NEW i \in invitations, StartRevoke(r, u.id, i.id) PROVE IInv'
  <2> DEFINE c == [Idle EXCEPT !.pc = "withdraw", !.op = "revoke", !.target = i.id]
  <2>0. i.id \in Nat
    BY DEF Typed, Invitation
  <2>1. c \in Call /\ c.pc = "withdraw"
    BY <2>0 DEF Idle, Call, Pc, Op, Answer
  <2>2. call' = [call EXCEPT ![r] = c] /\ UNCHANGED <<users, invitations, issued, spent, astray, troubles>>
    BY <1>5 DEF StartRevoke, LetIn
  <2> HIDE DEF c
  <2> QED
    BY <1>1, <2>1, <2>2 DEF Typed
<1>6. ASSUME NEW u \in users, NEW v \in users, StartDelete(r, u.id, v.id) PROVE IInv'
  <2> DEFINE c == [Idle EXCEPT !.pc = "delete", !.op = "delete", !.me = u.id, !.target = v.id]
  <2>1. c \in Call /\ c.pc = "delete" /\ c.me = u.id /\ c.target = v.id
    BY <1>2 DEF Idle, Call, Pc, Op, Answer
  <2>2. /\ call' = [call EXCEPT ![r] = c] /\ UNCHANGED <<users, invitations, issued, spent, astray, troubles>>
        /\ u.id # v.id
    BY <1>6 DEF StartDelete, LetIn, Allowed
  <2> HIDE DEF c
  <2> QED
    BY <1>1, <2>1, <2>2 DEF Typed
<1>7. ASSUME NEW u \in users, NEW v \in users, NEW body \in Bodies,
             StartUpdate(r, u.id, v.id, body[1], body[2])
      PROVE  IInv'
  <2> DEFINE c == [Idle EXCEPT !.pc = IF body[1] = "keep" THEN "state" ELSE "role", !.op = "update", !.me = u.id,
                               !.target = v.id, !.role = body[1], !.state = body[2]]
  <2>0. body[1] \in Answer /\ body[2] \in Answer /\ (body[1] = "keep" => body[2] # "keep")
    BY AccountsAssumption
  <2>1. /\ c \in Call /\ c.me = u.id /\ c.target = v.id /\ c.role = body[1] /\ c.state = body[2]
        /\ c.pc = IF body[1] = "keep" THEN "state" ELSE "role"
    BY <1>2, <2>0 DEF Idle, Call, Pc, Op
  <2>2. /\ call' = [call EXCEPT ![r] = c] /\ UNCHANGED <<users, invitations, issued, spent, astray, troubles>>
        /\ u.id # v.id
    BY <1>7 DEF StartUpdate, LetIn, Allowed
  <2> HIDE DEF c
  <2> QED
    BY <1>1, <2>0, <2>1, <2>2 DEF Typed
<1>8. CASE Break(r)
  <2>1. troubles' \in Nat
    BY <1>8 DEF Break, Trouble, Typed
  <2>2. call' = [call EXCEPT ![r] = Idle] /\ UNCHANGED <<users, invitations, issued, spent, astray>>
    BY <1>8 DEF Break, Trouble, Ends
  <2> QED
    BY <1>1, <2>1, <2>2, IdleIsACall
<1> QED
  BY <1>3, <1>4, <1>5, <1>6, <1>7, <1>8

(* A link is looked up: what is found has not been spent.                  *)
LEMMA LookStep ==
  ASSUME IInv, NEW r \in Request, Look(r)
  PROVE  IInv'
<1>0. Typed /\ call[r] \in Call
  BY CallFields DEF IInv
<1>1. UNCHANGED <<users, invitations, issued, spent, astray, troubles>>
  BY DEF Look, Reads, Ghosts
<1>2. CASE Ends(r)
  BY <1>0, <1>1, <1>2, IdleIsACall, Putting, PlainStep DEF Ends, Plain, Typed
<1>3. CASE ~Ends(r)
  <2>1. PICK i \in lookupInvitation(call[r].op, call[r].token) :
          call' = [call EXCEPT ![r].pc = "join", ![r].target = i.id]
    BY <1>3 DEF Look
  <2> DEFINE c == [call[r] EXCEPT !.pc = "join", !.target = i.id]
  <2>2. /\ i \in invitations /\ i.token = call[r].token /\ ~i.used /\ i.id \in Nat
        /\ call[r].op = "setup" \/ i.inviter # 0
    BY <1>0 DEF lookupInvitation, GetInvitationByTokenHash, Typed, Invitation
  <2>3. c \in Call /\ c.pc = "join" /\ c.target = i.id /\ c.token = i.token /\ c.op = call[r].op
    BY <1>0, <2>2 DEF Call, Pc
  <2>4. call' = [call EXCEPT ![r] = c]
    BY <1>0, <2>1 DEF Typed
  <2> HIDE DEF c
  <2>5. /\ call' \in [Request -> Call] /\ call'[r] = c
        /\ \A q \in Request : q # r => call'[q] = call[q]
    BY <1>0, <2>3, <2>4, Putting
  <2>6. Typed' /\ InvitationsAreDistinct' /\ AdminRemains'
    BY <1>1, <2>5 DEF IInv, Typed, InvitationsAreDistinct, AdminRemains, Administrators
  <2>7. HoldersHaveRows'
    BY <1>1, <2>2, <2>3, <2>5 DEF IInv, HoldersHaveRows
  <2>8. SpentIsGone'
    BY <1>1, <2>2, <2>3, <2>5 DEF IInv, SpentIsGone
  <2>9. OthersAreChanged'
    BY <2>3, <2>5 DEF IInv, OthersAreChanged
  <2>10. SetupComesFirst'
    BY <1>1, <2>2, <2>3, <2>5 DEF IInv, SetupComesFirst, InvitationsAreDistinct
  <2> QED
    BY <2>6, <2>7, <2>8, <2>9, <2>10 DEF IInv
<1> QED
  BY <1>2, <1>3

(* The calls that hold a token are overtaken, and nothing else is changed. *)
LEMMA Overtaken ==
  ASSUME Typed, NEW r \in Request, NEW token, Overtakes(r, token)
  PROVE  /\ call' \in [Request -> Call] /\ call'[r] = Idle
         /\ \A q \in Request : q # r =>
              /\ call[q].pc = "join" /\ call[q].token = token => call'[q].late
              /\ \/ call'[q] = call[q]
                 \/ /\ call[q].pc = "join" /\ call'[q].pc = "join" /\ call'[q].late
                    /\ call'[q].op = call[q].op /\ call'[q].token = call[q].token
<1>1. ASSUME NEW c \in Call
      PROVE  /\ [c EXCEPT !.late = TRUE] \in Call /\ [c EXCEPT !.late = TRUE].late
             /\ [c EXCEPT !.late = TRUE].pc = c.pc /\ [c EXCEPT !.late = TRUE].op = c.op
             /\ [c EXCEPT !.late = TRUE].token = c.token
  BY DEF Call
<1>2. call \in [Request -> Call]
  BY DEF Typed
<1> QED
  BY <1>1, <1>2, IdleIsACall DEF Overtakes

(* A link becomes an account.                                              *)
LEMMA JoinStep ==
  ASSUME IInv, NEW r \in Request, NEW taken \in BOOLEAN, Join(r, taken)
  PROVE  IInv'
<1>0. Typed /\ call[r] \in Call /\ call[r].pc = "join" /\ call[r].target \in Nat
  BY CallFields DEF IInv, Join
<1>1. CASE taken
  <2>1. Ends(r) /\ Reads
    BY <1>1 DEF Join
  <2> QED
    BY <1>0, <2>1, IdleIsACall, Putting, PlainStep DEF Ends, Reads, Ghosts, Plain, Typed
<1>2. CASE ~taken
  <2> DEFINE admin == call[r].op = "setup"
             new == [id |-> FreshId(users), admin |-> admin, disabled |-> FALSE]
             t == call[r].token
  <2>1. /\ users' = users \cup {new}
        /\ invitations' = MarkInvitationUsed(call[r].target)
        /\ Overtakes(r, t) /\ Spend(t, call[r].late)
        /\ UNCHANGED <<issued, troubles, astray>>
    BY <1>2 DEF Join, CreateUser
  <2>2. FreshId(users) \in Nat \ {0}
    <3>1. \A u \in users : u.id \in Nat
      BY <1>0 DEF Typed, User
    <3> QED
      BY <3>1, FreshIdIsNew DEF IInv, InvitationsAreDistinct
  <2>3. new \in User /\ new.admin = admin /\ ~new.disabled /\ new.id = FreshId(users)
    <3> HIDE DEF admin
    <3>1. admin \in BOOLEAN
      BY DEF admin
    <3> QED
      BY <2>2, <3>1 DEF User
  <2>4. /\ call' \in [Request -> Call] /\ call'[r] = Idle
        /\ \A q \in Request : q # r =>
             /\ call[q].pc = "join" /\ call[q].token = t => call'[q].late
             /\ \/ call'[q] = call[q]
                \/ /\ call[q].pc = "join" /\ call'[q].pc = "join" /\ call'[q].late
                   /\ call'[q].op = call[q].op /\ call'[q].token = call[q].token
    BY <1>0, <2>1, Overtaken
  <2> HIDE DEF new
  <2>5. /\ invitations' \subseteq Invitation
        /\ {i.id : i \in invitations'} = {i.id : i \in invitations}
        /\ \A i \in invitations : \E n \in invitations' : n.id = i.id /\ n.token = i.token
        /\ \A n \in invitations' : \E i \in invitations :
             /\ n.id = i.id /\ n.token = i.token /\ n.inviter = i.inviter /\ n.expired = i.expired
             /\ i.id = call[r].target \/ i.used => n.used
             /\ i.id # call[r].target => n = i
    <3> DEFINE Marked(i) == IF i.id = call[r].target THEN [i EXCEPT !.used = TRUE] ELSE i
    <3>1. ASSUME NEW i \in invitations
          PROVE  /\ Marked(i) \in Invitation /\ Marked(i).id = i.id /\ Marked(i).token = i.token
                 /\ Marked(i).inviter = i.inviter /\ Marked(i).expired = i.expired
                 /\ i.id = call[r].target \/ i.used => Marked(i).used
                 /\ i.id # call[r].target => Marked(i) = i
      BY <1>0 DEF Typed, Invitation
    <3>2. invitations' = {Marked(i) : i \in invitations}
      BY <2>1 DEF MarkInvitationUsed
    <3> HIDE DEF Marked
    <3> QED
      BY <3>1, <3>2
  <2>6. ~call[r].late => \E i \in invitations : i.token = t /\ i.id = call[r].target
    BY <1>0 DEF IInv, HoldersHaveRows
  <2>7. ~call[r].late => t \in 1..MaxTokens /\ t <= issued /\ spent[t] = 0
    <3>1. ASSUME NEW i \in invitations PROVE i.token \in 1..MaxTokens /\ i.token <= issued
      <4>1. i.token \in Nat \ {0} /\ i.token <= issued /\ issued <= MaxTokens /\ issued \in Nat /\ MaxTokens \in Nat
        BY <1>0, AccountsAssumption DEF IInv, Typed, Invitation, InvitationsAreDistinct
      <4> QED
        BY <4>1
    <3>2. SUFFICES ASSUME ~call[r].late PROVE t \in 1..MaxTokens /\ t <= issued /\ spent[t] = 0
      OBVIOUS
    <3> QED
      BY <1>0, <2>6, <3>1, <3>2 DEF IInv, SpentIsGone
  <2> HIDE DEF t, admin
  <2>8. /\ spent' \in [1..MaxTokens -> Nat]
        /\ \A k \in 1..MaxTokens : spent'[k] = IF k = t /\ ~call[r].late THEN 1 ELSE spent[k]
    BY <1>0, <2>1, <2>7 DEF Spend, Typed
  <2>9. Typed'
    BY <1>0, <2>1, <2>3, <2>4, <2>5, <2>8 DEF Typed
  <2>10. InvitationsAreDistinct'
    <3>1. IsFiniteSet({u.id : u \in users'})
      <4> DEFINE ids == {u.id : u \in users}
      <4>1. IsFiniteSet(ids)
        BY DEF IInv, InvitationsAreDistinct
      <4>2. {u.id : u \in users'} = ids \cup {new.id}
        BY <2>1
      <4> HIDE DEF ids
      <4> QED
        BY <4>1, <4>2, FS_AddElement
    <3>2. ASSUME NEW n \in invitations', NEW m \in invitations', n.id = m.id \/ n.token = m.token PROVE n = m
      <4>1. PICK i \in invitations :
              /\ n.id = i.id /\ n.token = i.token /\ n.inviter = i.inviter /\ n.expired = i.expired
              /\ i.id = call[r].target \/ i.used => n.used
              /\ i.id # call[r].target => n = i
        BY <2>5
      <4>2. PICK j \in invitations :
              /\ m.id = j.id /\ m.token = j.token /\ m.inviter = j.inviter /\ m.expired = j.expired
              /\ j.id = call[r].target \/ j.used => m.used
              /\ j.id # call[r].target => m = j
        BY <2>5
      <4>3. i = j
        BY <3>2, <4>1, <4>2 DEF IInv, InvitationsAreDistinct
      <4>4. n \in Invitation /\ m \in Invitation
        BY <2>5
      <4>5. CASE i.id = call[r].target
        <5>1. n.used = m.used
          BY <4>1, <4>2, <4>3, <4>4, <4>5 DEF Invitation
        <5> QED
          BY <4>1, <4>2, <4>3, <4>4, <5>1 DEF Invitation
      <4>6. CASE i.id # call[r].target
        BY <4>1, <4>2, <4>3, <4>6
      <4> QED
        BY <4>5, <4>6
    <3>3. ASSUME NEW n \in invitations'
          PROVE  n.token <= issued' /\ (n.inviter = 0 \/ \E u \in users' : u.id = n.inviter)
      <4>1. PICK i \in invitations : n.token = i.token /\ n.inviter = i.inviter /\ n.expired = i.expired
        BY <2>5
      <4> QED
        BY <2>1, <4>1 DEF IInv, InvitationsAreDistinct
    <3> QED
      BY <2>1, <2>5, <3>1, <3>2, <3>3 DEF IInv, InvitationsAreDistinct
  <2>11. HoldersHaveRows'
    <3>1. ASSUME NEW q \in Request, call'[q].pc = "join", ~call'[q].late
          PROVE  q # r /\ call'[q] = call[q]
      BY <2>4, <3>1, IdleIsACall
    <3> QED
      BY <2>5, <3>1 DEF IInv, HoldersHaveRows
  <2>12. SpentIsGone'
    <3>1. ASSUME NEW k \in 1..MaxTokens, spent'[k] # 0
          PROVE  /\ spent'[k] = 1 /\ k <= issued
                 /\ \A n \in invitations' : n.token = k => n.used
                 /\ \A q \in Request : call'[q].pc = "join" /\ call'[q].token = k => call'[q].late
      <4>1. CASE k = t /\ ~call[r].late
        <5>1. \A i \in invitations : i.token = t => i.id = call[r].target
          BY <2>6, <4>1 DEF IInv, InvitationsAreDistinct
        <5>2. \A n \in invitations' : n.token = k => n.used
          BY <2>5, <4>1, <5>1
        <5>3. \A q \in Request : call'[q].pc = "join" /\ call'[q].token = k => call'[q].late
          BY <2>4, <4>1, IdleIsACall
        <5> QED
          BY <2>7, <2>8, <3>1, <4>1, <5>2, <5>3
      <4>2. CASE ~(k = t /\ ~call[r].late)
        <5>1. /\ spent[k] = 1 /\ spent'[k] = 1 /\ k <= issued
              /\ \A i \in invitations : i.token = k => i.used
              /\ \A q \in Request : call[q].pc = "join" /\ call[q].token = k => call[q].late
          BY <2>8, <3>1, <4>2 DEF IInv, SpentIsGone
        <5>2. \A n \in invitations' : n.token = k => n.used
          BY <2>5, <5>1
        <5>3. \A q \in Request : call'[q].pc = "join" /\ call'[q].token = k => call'[q].late
          BY <2>4, <5>1, IdleIsACall
        <5> QED
          BY <5>1, <5>2, <5>3
      <4> QED
        BY <4>1, <4>2
    <3> QED
      BY <2>1, <3>1 DEF SpentIsGone
  <2>13. OthersAreChanged'
    BY <2>4, IdleIsACall DEF IInv, OthersAreChanged
  <2>14. SetupComesFirst' /\ AdminRemains'
    BY <1>0, <2>1, <2>3 DEF IInv, SetupComesFirst, AdminRemains, Administrators, admin
  <2> QED
    BY <2>9, <2>10, <2>11, <2>12, <2>13, <2>14 DEF IInv
<1> QED
  BY <1>1, <1>2

(* A link is issued, under a number and a token that no row has, to some   *)
(* of the rows.                                                            *)
LEMMA IssueStep ==
  ASSUME IInv, NEW rows \in SUBSET invitations, NEW inviter \in Nat,
         inviter = 0 \/ \E u \in users : u.id = inviter,
         issued < MaxTokens, issued' = issued + 1,
         invitations' = CreateInvitation(rows, inviter),
         UNCHANGED <<users, spent, astray>>, troubles' \in Nat,
         call' \in [Request -> Call],
         \A q \in Request : call'[q] = Idle \/ (call'[q] = call[q] /\ rows = invitations)
  PROVE  IInv'
<1> DEFINE n == [id |-> FreshId(rows), token |-> issued + 1, inviter |-> inviter, used |-> FALSE, expired |-> FALSE]
           ids == {j.id : j \in rows}
<1>0. Typed /\ issued \in Nat /\ MaxTokens \in Nat /\ rows \subseteq Invitation
  BY AccountsAssumption DEF IInv, Typed
<1>1. IsFiniteSet(ids)
  <2>1. ids \subseteq {j.id : j \in invitations}
    OBVIOUS
  <2> QED
    BY <2>1, FS_Subset DEF IInv, InvitationsAreDistinct
<1>2. FreshId(rows) \in Nat \ {0} /\ \A j \in rows : j.id < FreshId(rows)
  <2>1. \A j \in rows : j.id \in Nat
    BY <1>0 DEF Invitation
  <2> QED
    BY <1>1, <2>1, FreshIdIsNew
<1>3. n \in Invitation /\ n.id = FreshId(rows) /\ n.token = issued + 1 /\ n.inviter = inviter /\ ~n.used
  BY <1>0, <1>2 DEF Invitation
<1>4. invitations' = rows \cup {n}
  BY DEF CreateInvitation
<1> HIDE DEF n
<1>5. \A j \in rows : j.id # n.id /\ j.token # n.token
  <2>1. ASSUME NEW j \in rows PROVE j.id # n.id /\ j.token # n.token
    <3>1. j.id \in Nat /\ j.token \in Nat /\ j.token <= issued
      BY <1>0 DEF Invitation, IInv, InvitationsAreDistinct
    <3> QED
      BY <1>0, <1>2, <1>3, <3>1
  <2> QED
    BY <2>1
<1>6. Typed'
  BY <1>0, <1>3, <1>4 DEF Typed
<1>7. InvitationsAreDistinct'
  <2>1. IsFiniteSet({j.id : j \in invitations'})
    <3>1. {j.id : j \in invitations'} = ids \cup {n.id}
      BY <1>4
    <3> HIDE DEF ids
    <3>2. IsFiniteSet(ids \cup {n.id})
      BY <1>1, FS_AddElement
    <3> QED
      BY <3>1, <3>2
  <2>2. \A j \in invitations' : j.token <= issued + 1
    <3>1. ASSUME NEW j \in rows PROVE j.token <= issued + 1
      BY <1>0, <3>1 DEF IInv, InvitationsAreDistinct, Invitation
    <3> QED
      BY <1>0, <1>3, <1>4, <3>1
  <2>3. \A j \in invitations' : j.inviter = 0 \/ \E u \in users : u.id = j.inviter
    BY <1>3, <1>4 DEF IInv, InvitationsAreDistinct
  <2>4. \A j, k \in invitations' : j.id = k.id \/ j.token = k.token => j = k
    BY <1>4, <1>5 DEF IInv, InvitationsAreDistinct
  <2> QED
    BY <1>0, <2>1, <2>2, <2>3, <2>4 DEF IInv, InvitationsAreDistinct
<1>8. HoldersHaveRows'
  BY <1>4, IdleIsACall DEF IInv, HoldersHaveRows
<1>9. SpentIsGone'
  <2>1. ASSUME NEW t \in 1..MaxTokens, spent[t] # 0
        PROVE  /\ spent[t] = 1 /\ t <= issued + 1 /\ n.token # t
               /\ \A j \in rows : j.token = t => j.used
               /\ \A q \in Request : call'[q].pc = "join" /\ call'[q].token = t => call'[q].late
    <3>1. t <= issued /\ t \in Nat
      BY <1>0, <2>1 DEF IInv, SpentIsGone
    <3> QED
      BY <1>0, <1>3, <2>1, <3>1, IdleIsACall DEF IInv, SpentIsGone
  <2> QED
    BY <1>4, <2>1 DEF SpentIsGone
<1>10. OthersAreChanged' /\ SetupComesFirst' /\ AdminRemains'
  BY IdleIsACall DEF IInv, OthersAreChanged, SetupComesFirst, AdminRemains, Administrators
<1> QED
  BY <1>6, <1>7, <1>8, <1>9, <1>10 DEF IInv

(* An administrator that is still there invites.                           *)
LEMMA InviteStep ==
  ASSUME IInv, NEW r \in Request, Invite(r)
  PROVE  IInv'
<1>0. Typed /\ call[r].me \in Nat
  BY CallFields DEF IInv
<1>1. /\ call' \in [Request -> Call] /\ call'[r] = Idle
      /\ \A q \in Request : q # r => call'[q] = call[q]
  BY <1>0, IdleIsACall, Putting DEF Invite, Ends
<1>2. UNCHANGED <<users, spent, astray, troubles>> /\ issued < MaxTokens
  BY DEF Invite, Ghosts
<1>3. CASE Users(call[r].me) = {}
  BY <1>0, <1>1, <1>2, <1>3, IdleIsACall, PlainStep DEF Invite, Plain, Typed
<1>4. CASE Users(call[r].me) # {}
  <2>1. \E u \in users : u.id = call[r].me
    BY <1>4 DEF Users
  <2>2. invitations' = CreateInvitation(invitations, call[r].me) /\ issued' = issued + 1
    BY <1>4 DEF Invite
  <2> QED
    BY <1>0, <1>1, <1>2, <2>1, <2>2, IssueStep DEF Typed
<1> QED
  BY <1>3, <1>4

(* The process starts again: no call survives it.                          *)
LEMMA RestartStep ==
  ASSUME IInv, Restart
  PROVE  IInv'
<1>0. Typed /\ call' \in [Request -> Call] /\ \A q \in Request : call'[q] = Idle
  BY IdleIsACall DEF IInv, Restart
<1>1. UNCHANGED <<users, spent, astray>> /\ troubles' \in Nat
  BY <1>0 DEF Restart, Trouble, Typed
<1>2. CASE users = {} /\ issued < MaxTokens
  <2>1. DeleteUnusedInvitations \in SUBSET invitations
    BY DEF DeleteUnusedInvitations
  <2>2. invitations' = CreateInvitation(DeleteUnusedInvitations, 0) /\ issued' = issued + 1
    BY <1>2 DEF Restart, Issues
  <2> QED
    BY <1>0, <1>1, <1>2, <2>1, <2>2, IssueStep
<1>3. CASE ~(users = {} /\ issued < MaxTokens)
  BY <1>0, <1>1, <1>3, IdleIsACall, PlainStep DEF Restart, Issues, Plain
<1> QED
  BY <1>2, <1>3

(* An invitation is withdrawn, from whoever looked it up as well.          *)
LEMMA RevokeStep ==
  ASSUME IInv, NEW r \in Request, RevokeInvitation(r)
  PROVE  IInv'
<1>0. Typed
  BY DEF IInv
<1>1. UNCHANGED <<users, issued, troubles, astray>>
  BY DEF RevokeInvitation
<1>2. CASE Withdrawable(call[r].target) = {} /\ Ends(r) /\ UNCHANGED spent
  <2>1. invitations' = invitations
    BY <1>2 DEF RevokeInvitation
  <2> QED
    BY <1>0, <1>1, <1>2, <2>1, IdleIsACall, Putting, PlainStep DEF Ends, Plain, Typed
<1>3. CASE \E i \in Withdrawable(call[r].target) : Overtakes(r, i.token) /\ Spend(i.token, FALSE)
  <2>1. PICK i \in Withdrawable(call[r].target) : Overtakes(r, i.token) /\ Spend(i.token, FALSE)
    BY <1>3
  <2>2. i \in invitations /\ ~i.used /\ Withdrawable(call[r].target) = {i}
    BY DEF Withdrawable, IInv, InvitationsAreDistinct
  <2>3. invitations' = invitations \ {i}
    BY <2>2 DEF RevokeInvitation
  <2>4. /\ call' \in [Request -> Call] /\ call'[r] = Idle
        /\ \A q \in Request : q # r =>
             /\ call[q].pc = "join" /\ call[q].token = i.token => call'[q].late
             /\ \/ call'[q] = call[q]
                \/ /\ call[q].pc = "join" /\ call'[q].pc = "join" /\ call'[q].late
                   /\ call'[q].op = call[q].op /\ call'[q].token = call[q].token
    BY <1>0, <2>1, Overtaken
  <2>5. i.token \in 1..MaxTokens /\ i.token <= issued
    <3>1. i.token \in Nat \ {0} /\ i.token <= issued /\ issued <= MaxTokens /\ issued \in Nat /\ MaxTokens \in Nat
      BY <1>0, <2>2, AccountsAssumption DEF IInv, Typed, Invitation, InvitationsAreDistinct
    <3> QED
      BY <3>1
  <2>6. spent[i.token] = 0
    BY <2>2, <2>5 DEF IInv, SpentIsGone
  <2>7. /\ spent' \in [1..MaxTokens -> Nat]
        /\ \A k \in 1..MaxTokens : spent'[k] = IF k = i.token THEN 1 ELSE spent[k]
    BY <1>0, <2>1, <2>5, <2>6 DEF Spend, Typed
  <2>8. Typed'
    BY <1>0, <1>1, <2>3, <2>4, <2>7 DEF Typed
  <2>9. InvitationsAreDistinct'
    <3>1. {j.id : j \in invitations'} \subseteq {j.id : j \in invitations}
      BY <2>3
    <3>2. IsFiniteSet({j.id : j \in invitations'})
      BY <3>1, FS_Subset DEF IInv, InvitationsAreDistinct
    <3> QED
      BY <1>1, <2>3, <3>2 DEF IInv, InvitationsAreDistinct
  <2>10. HoldersHaveRows'
    <3>1. ASSUME NEW q \in Request, call'[q].pc = "join", ~call'[q].late
          PROVE  call'[q] = call[q] /\ call[q].token # i.token
      BY <2>4, <3>1, IdleIsACall
    <3> QED
      BY <2>3, <3>1 DEF IInv, HoldersHaveRows
  <2>11. SpentIsGone'
    <3>1. ASSUME NEW k \in 1..MaxTokens, spent'[k] # 0
          PROVE  /\ spent'[k] = 1 /\ k <= issued
                 /\ \A j \in invitations' : j.token = k => j.used
                 /\ \A q \in Request : call'[q].pc = "join" /\ call'[q].token = k => call'[q].late
      <4>1. CASE k = i.token
        <5>1. \A j \in invitations' : j.token # k
          BY <2>2, <2>3, <4>1 DEF IInv, InvitationsAreDistinct
        <5> QED
          BY <2>4, <2>5, <2>7, <4>1, <5>1, IdleIsACall
      <4>2. CASE k # i.token
        BY <2>3, <2>4, <2>7, <3>1, <4>2, IdleIsACall DEF IInv, SpentIsGone
      <4> QED
        BY <4>1, <4>2
    <3> QED
      BY <1>1, <3>1 DEF SpentIsGone
  <2>12. OthersAreChanged' /\ SetupComesFirst' /\ AdminRemains'
    BY <1>1, <2>4, IdleIsACall DEF IInv, OthersAreChanged, SetupComesFirst, AdminRemains, Administrators
  <2> QED
    BY <2>8, <2>9, <2>10, <2>11, <2>12 DEF IInv
<1> QED
  BY <1>2, <1>3 DEF RevokeInvitation

(* An administrator promotes, demotes, disables, enables or deletes        *)
(* another: the caller is still one, or it is astray.                      *)
LEMMA ChangeStep ==
  ASSUME IInv, NEW r \in Request, UpdateRole(r) \/ UpdateState(r) \/ Delete(r)
  PROVE  IInv'
<1>0. /\ Typed /\ call[r] \in Call /\ call[r].me # call[r].target
      /\ call[r].pc = "role" => call[r].role \in {"yes", "no"}
      /\ call[r].pc = "state" => call[r].state \in {"yes", "no"}
  BY CallFields DEF IInv, OthersAreChanged, UpdateRole, UpdateState, Delete, Call, Answer
<1>1. UNCHANGED <<issued, troubles, spent>>
  BY DEF UpdateRole, UpdateState, Delete
<1>2. PICK c \in Call : call' = [call EXCEPT ![r] = c] /\ Plain(c)
  <2>1. CASE UpdateRole(r)
    <3> DEFINE c == IF call[r].state = "keep" THEN Idle ELSE [call[r] EXCEPT !.pc = "state", !.role = "keep"]
    <3>1. c \in Call /\ Plain(c)
      BY <1>0, IdleIsACall DEF Call, Pc, Answer, Plain
    <3>2. call' = [call EXCEPT ![r] = c]
      BY <1>0, <2>1 DEF UpdateRole, Typed
    <3> HIDE DEF c
    <3> QED
      BY <3>1, <3>2
  <2>2. CASE UpdateState(r) \/ Delete(r)
    BY <2>2, IdleIsACall DEF UpdateState, Delete, Ends, Plain
  <2> QED
    BY <2>1, <2>2
<1>3. /\ call' \in [Request -> Call] /\ call'[r] = c
      /\ \A q \in Request : q # r => call'[q] = call[q]
  BY <1>0, <1>2, Putting
<1>4. /\ users' \subseteq User
      /\ {u.id : u \in users'} \subseteq {u.id : u \in users}
      /\ \A u \in users : u.id # call[r].target => u \in users'
      /\ UpdateRole(r) \/ UpdateState(r) => {u.id : u \in users'} = {u.id : u \in users}
  <2>1. CASE UpdateRole(r)
    <3> DEFINE yes == call[r].role = "yes"
               Set(u) == IF u.id = call[r].target THEN [u EXCEPT !.admin = yes] ELSE u
    <3>0. yes \in BOOLEAN
      OBVIOUS
    <3> HIDE DEF yes
    <3>1. ASSUME NEW u \in users
          PROVE  Set(u) \in User /\ Set(u).id = u.id /\ (u.id # call[r].target => Set(u) = u)
      BY <1>0, <3>0 DEF Typed, User
    <3>2. users' = {Set(u) : u \in users}
      BY <2>1 DEF UpdateRole, SetUserAdmin, yes
    <3> HIDE DEF Set
    <3> QED
      BY <3>1, <3>2
  <2>2. CASE UpdateState(r)
    <3> DEFINE yes == call[r].state = "yes"
               Set(u) == IF u.id = call[r].target THEN [u EXCEPT !.disabled = yes] ELSE u
    <3>0. yes \in BOOLEAN
      OBVIOUS
    <3> HIDE DEF yes
    <3>1. ASSUME NEW u \in users
          PROVE  Set(u) \in User /\ Set(u).id = u.id /\ (u.id # call[r].target => Set(u) = u)
      BY <1>0, <3>0 DEF Typed, User
    <3>2. users' = {Set(u) : u \in users}
      BY <2>2 DEF UpdateState, SetUserDisabled, yes
    <3> HIDE DEF Set
    <3> QED
      BY <3>1, <3>2
  <2>3. CASE Delete(r)
    BY <1>0, <2>3 DEF Delete, DeleteUser, Users, Typed, UpdateRole, UpdateState
  <2> QED
    BY <2>1, <2>2, <2>3
<1>5. /\ invitations' \subseteq Invitation
      /\ {i.id : i \in invitations'} = {i.id : i \in invitations}
      /\ \A i \in invitations : \E n \in invitations' : n.id = i.id /\ n.token = i.token
      /\ \A n \in invitations' : \E i \in invitations :
           n.id = i.id /\ n.token = i.token /\ n.used = i.used
      /\ \A n \in invitations' : n.inviter = 0 \/ \E u \in users' : u.id = n.inviter
  <2>1. CASE Delete(r)
    <3> DEFINE Set(i) == IF i.inviter = call[r].target THEN [i EXCEPT !.inviter = 0] ELSE i
    <3>1. ASSUME NEW i \in invitations
          PROVE  /\ Set(i) \in Invitation /\ Set(i).id = i.id /\ Set(i).token = i.token
                 /\ Set(i).used = i.used
                 /\ Set(i).inviter = IF i.inviter = call[r].target THEN 0 ELSE i.inviter
      BY <1>0 DEF Typed, Invitation
    <3>2. invitations' = {Set(i) : i \in invitations}
      BY <2>1 DEF Delete, InviterGone
    <3> HIDE DEF Set
    <3>3. \A n \in invitations' : n.inviter = 0 \/ \E u \in users' : u.id = n.inviter
      <4>1. ASSUME NEW i \in invitations, i.inviter # call[r].target
            PROVE  i.inviter = 0 \/ \E u \in users' : u.id = i.inviter
        BY <1>4, <4>1 DEF IInv, InvitationsAreDistinct
      <4> QED
        BY <3>1, <3>2, <4>1
    <3> QED
      BY <3>1, <3>2, <3>3
  <2>2. CASE UpdateRole(r) \/ UpdateState(r)
    <3>1. invitations' = invitations
      BY <2>2 DEF UpdateRole, UpdateState
    <3>2. ASSUME NEW i \in invitations, i.inviter # 0 PROVE \E u \in users' : u.id = i.inviter
      <4>1. PICK u \in users : u.id = i.inviter
        BY <3>2 DEF IInv, InvitationsAreDistinct
      <4>2. u.id \in {v.id : v \in users'}
        BY <1>4, <2>2
      <4> QED
        BY <4>1, <4>2
    <3> QED
      BY <1>0, <3>1, <3>2 DEF Typed
  <2> QED
    BY <2>1, <2>2
<1>6. astray' \in BOOLEAN /\ (astray => astray')
  BY <1>0 DEF UpdateRole, UpdateState, Delete, Strays, Typed
<1>7. \/ astray'
      \/ \E u \in Administrators : u.id = call[r].me
      \/ /\ Administrators # {} => Administrators' # {}
         /\ users = {} <=> users' = {}
  <2>1. CASE UpdateRole(r) /\ call[r].role = "yes"
    <3>1. users' = {IF u.id = call[r].target THEN [u EXCEPT !.admin = TRUE] ELSE u : u \in users}
      BY <2>1 DEF UpdateRole, SetUserAdmin
    <3>2. ASSUME NEW u \in Administrators PROVE u \in users'
      BY <1>0, <3>1 DEF Administrators, Typed, User
    <3> QED
      BY <1>4, <2>1, <3>2 DEF Administrators
  <2>2. CASE UpdateState(r) /\ call[r].state = "no"
    <3>1. users' = {IF u.id = call[r].target THEN [u EXCEPT !.disabled = FALSE] ELSE u : u \in users}
      BY <2>2 DEF UpdateState, SetUserDisabled
    <3>2. ASSUME NEW u \in Administrators PROVE u \in users'
      BY <1>0, <3>1 DEF Administrators, Typed, User
    <3> QED
      BY <1>4, <2>2, <3>2 DEF Administrators
  <2>3. CASE Delete(r) \/ (UpdateRole(r) /\ call[r].role = "no") \/ (UpdateState(r) /\ call[r].state = "yes")
    BY <2>3 DEF UpdateRole, UpdateState, Delete, Strays
  <2> QED
    BY <1>0, <2>1, <2>2, <2>3 DEF UpdateRole, UpdateState
<1>8. Typed'
  BY <1>0, <1>1, <1>3, <1>4, <1>5, <1>6 DEF Typed
<1>9. InvitationsAreDistinct'
  <2>1. IsFiniteSet({u.id : u \in users'})
    BY <1>4, FS_Subset DEF IInv, InvitationsAreDistinct
  <2>2. ASSUME NEW n \in invitations', NEW m \in invitations', n.id = m.id \/ n.token = m.token PROVE n = m
    <3>1. CASE UpdateRole(r) \/ UpdateState(r)
      BY <2>2, <3>1 DEF UpdateRole, UpdateState, IInv, InvitationsAreDistinct
    <3>2. CASE Delete(r)
      <4> DEFINE Set(i) == IF i.inviter = call[r].target THEN [i EXCEPT !.inviter = 0] ELSE i
      <4>1. \A i \in invitations : Set(i).id = i.id /\ Set(i).token = i.token
        BY <1>0 DEF Typed, Invitation
      <4>2. invitations' = {Set(i) : i \in invitations}
        BY <3>2 DEF Delete, InviterGone
      <4> HIDE DEF Set
      <4> QED
        BY <2>2, <4>1, <4>2 DEF IInv, InvitationsAreDistinct
    <3> QED
      BY <3>1, <3>2
  <2>3. \A n \in invitations' : n.token <= issued /\ (n.inviter = 0 \/ \E u \in users' : u.id = n.inviter)
    BY <1>5 DEF IInv, InvitationsAreDistinct
  <2> QED
    BY <1>1, <1>5, <2>1, <2>2, <2>3 DEF IInv, InvitationsAreDistinct
<1>10. HoldersHaveRows'
  BY <1>2, <1>3, <1>5 DEF IInv, HoldersHaveRows, Plain
<1>11. SpentIsGone'
  BY <1>1, <1>2, <1>3, <1>5 DEF IInv, SpentIsGone, Plain
<1>12. OthersAreChanged'
  BY <1>2, <1>3 DEF IInv, OthersAreChanged, Plain
<1>13. SetupComesFirst' /\ AdminRemains'
  <2>1. ASSUME ~astray', \E u \in Administrators : u.id = call[r].me PROVE users' # {} /\ Administrators' # {}
    BY <1>0, <1>4, <2>1 DEF Administrators
  <2> QED
    BY <1>2, <1>3, <1>6, <1>7, <2>1 DEF IInv, SetupComesFirst, AdminRemains, Plain
<1> QED
  BY <1>8, <1>9, <1>10, <1>11, <1>12, <1>13 DEF IInv

(* A link runs out.                                                        *)
LEMMA ExpireStep ==
  ASSUME IInv, Expire
  PROVE  IInv'
<1>0. Typed
  BY DEF IInv
<1>1. PICK i \in invitations : ~i.used /\ invitations' = (invitations \ {i}) \cup {[i EXCEPT !.expired = TRUE]}
  BY DEF Expire
<1> DEFINE n == [i EXCEPT !.expired = TRUE]
<1>2. /\ n \in Invitation /\ n.id = i.id /\ n.token = i.token /\ n.inviter = i.inviter /\ n.used = i.used
      /\ invitations' = (invitations \ {i}) \cup {n}
  BY <1>0, <1>1 DEF Typed, Invitation
<1> HIDE DEF n
<1>3. UNCHANGED <<users, issued, call, spent, astray>> /\ troubles' \in Nat
  BY <1>0 DEF Expire, Trouble, Typed
<1>4. Typed'
  BY <1>0, <1>2, <1>3 DEF Typed
<1>5. InvitationsAreDistinct'
  <2>1. {j.id : j \in invitations'} = {j.id : j \in invitations}
    BY <1>2
  <2>2. \A j \in invitations' : j.token <= issued /\ (j.inviter = 0 \/ \E u \in users : u.id = j.inviter)
    BY <1>2 DEF IInv, InvitationsAreDistinct
  <2>3. \A j, k \in invitations' : j.id = k.id \/ j.token = k.token => j = k
    BY <1>2 DEF IInv, InvitationsAreDistinct
  <2> QED
    BY <1>3, <2>1, <2>2, <2>3 DEF IInv, InvitationsAreDistinct
<1>6. HoldersHaveRows'
  BY <1>2, <1>3 DEF IInv, HoldersHaveRows
<1>7. SpentIsGone'
  BY <1>1, <1>2, <1>3 DEF IInv, SpentIsGone
<1>8. OthersAreChanged' /\ SetupComesFirst' /\ AdminRemains'
  BY <1>3 DEF IInv, OthersAreChanged, SetupComesFirst, AdminRemains, Administrators
<1> QED
  BY <1>4, <1>5, <1>6, <1>7, <1>8 DEF IInv

-----------------------------------------------------------------------------

(* No account, one setup token, and no call.                               *)
LEMMA InitIInv == Init => IInv
<1> SUFFICES ASSUME Init PROVE IInv
  OBVIOUS
<1> DEFINE first == [id |-> 1, token |-> 1, inviter |-> 0, used |-> FALSE, expired |-> FALSE]
<1>1. first \in Invitation /\ first.id = 1 /\ first.token = 1 /\ first.inviter = 0
  BY DEF Invitation
<1>2. users = {} /\ issued = 1 /\ invitations = {first} /\ troubles = 0 /\ ~astray /\ astray \in BOOLEAN
  BY DEF Init
<1> HIDE DEF first
<1>3. call \in [Request -> Call] /\ \A r \in Request : call[r] = Idle
  BY IdleIsACall DEF Init
<1>4. spent \in [1..MaxTokens -> Nat] /\ \A t \in 1..MaxTokens : spent[t] = 0
  BY DEF Init
<1>5. Typed
  BY <1>1, <1>2, <1>3, <1>4 DEF Typed
<1>6. InvitationsAreDistinct
  <2>0. {u.id : u \in users} = {} /\ {i.id : i \in invitations} = {1}
    BY <1>1, <1>2
  <2>1. IsFiniteSet({}) /\ IsFiniteSet({1})
    BY FS_EmptySet, FS_Singleton
  <2>2. IsFiniteSet({u.id : u \in users}) /\ IsFiniteSet({i.id : i \in invitations})
    BY <2>0, <2>1
  <2> QED
    BY <1>1, <1>2, <2>2, AccountsAssumption DEF InvitationsAreDistinct
<1>7. HoldersHaveRows /\ SpentIsGone /\ OthersAreChanged /\ SetupComesFirst /\ AdminRemains
  BY <1>2, <1>3, <1>4, IdleIsACall
  DEF HoldersHaveRows, SpentIsGone, OthersAreChanged, SetupComesFirst, AdminRemains
<1> QED
  BY <1>5, <1>6, <1>7 DEF IInv

(* Every step keeps it.                                                    *)
LEMMA NextIInv == IInv /\ [Next]_vars => IInv'
<1> SUFFICES ASSUME IInv, [Next]_vars PROVE IInv'
  OBVIOUS
<1>1. ASSUME NEW r \in Request,
             \/ \E token \in 1..issued : StartSetup(r, token) \/ StartAccept(r, token)
             \/ \E u \in users :
                  \/ StartInvite(r, u.id)
                  \/ \E i \in invitations : StartRevoke(r, u.id, i.id)
                  \/ \E v \in users : StartDelete(r, u.id, v.id)
                  \/ \E v \in users, body \in Bodies : StartUpdate(r, u.id, v.id, body[1], body[2])
             \/ Break(r)
      PROVE  IInv'
  BY <1>1, StartStep
<1>2. ASSUME NEW r \in Request, (\E taken \in BOOLEAN : Join(r, taken)) \/ Look(r) \/ Invite(r)
      PROVE  IInv'
  BY <1>2, JoinStep, LookStep, InviteStep
<1>3. ASSUME NEW r \in Request, RevokeInvitation(r) \/ UpdateRole(r) \/ UpdateState(r) \/ Delete(r)
      PROVE  IInv'
  BY <1>3, RevokeStep, ChangeStep
<1>4. CASE Restart \/ Expire
  BY <1>4, RestartStep, ExpireStep
<1>5. CASE UNCHANGED vars
  BY <1>5, PlainStep DEF vars, IInv, Typed
<1> QED
  BY <1>1, <1>2, <1>3, <1>4, <1>5 DEF Next

(* The accounts and the links keep their invariant, whatever the requests. *)
THEOREM AccountsInvariant == Spec => []IInv
  BY InitIInv, NextIInv, PTL DEF Spec

(* A link becomes one account or is withdrawn, once, by calls that nothing *)
(* overtook.                                                               *)
THEOREM LinksAreSpentOnce == Spec => []SpentOnce
<1>1. IInv => SpentOnce
  <2> SUFFICES ASSUME IInv, NEW t \in 1..MaxTokens PROVE spent[t] <= 1
    BY DEF SpentOnce
  <2>1. spent[t] = 0 \/ spent[t] = 1
    BY DEF IInv, SpentIsGone
  <2> QED
    BY <2>1
<1> QED
  BY AccountsInvariant, <1>1, PTL

(* While no administrator acts after it lost its role, an instance with    *)
(* accounts has one who can sign in.                                       *)
THEOREM AnAdministratorRemains == Spec => []AdminRemains
<1>1. IInv => AdminRemains
  BY DEF IInv
<1> QED
  BY AccountsInvariant, <1>1, PTL
=============================================================================
