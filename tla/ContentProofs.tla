--------------------------- MODULE ContentProofs ----------------------------
(***************************************************************************)
(* Theorems about Content for any files, selections, links, requests and   *)
(* changes.                                                                *)
(***************************************************************************)
EXTENDS Content, TLAPS

Serving == {"context", "stat", "browse", "open", "count", "log", "sent", "walk", "list", "close", "closed"}
Fact == Nat \cup Path
Link == [id : Nat, by : Nat, paths : Seq(Path) \ {<<>>}, over : BOOLEAN]
Share == [id : Nat, by : Nat, path : Path, password : BOOLEAN, revoked : BOOLEAN, over : BOOLEAN, count : Nat,
          log : Nat]
Call == [pc : {"idle", "insert"} \cup Serving, kind : {"link", "zip", "share", "create"}, id : Nat, by : Nat,
         root : Seq(Path), target : Path, head : BOOLEAN, files : SUBSET File, in : SUBSET Path, aborted : BOOLEAN,
         unsettled : SUBSET Fact]

Typed ==
  /\ present \subseteq File /\ readable \subseteq Path /\ leading \subseteq Path
  /\ account \in {"enabled", "disabled", "gone"} /\ bearer \in Nat
  /\ links \subseteq Link /\ shares \subseteq Share /\ made \in Nat
  /\ call \in [Request -> Call]

\* Numbers are handed out once: a link keeps its paths.
LinksAreDistinct ==
  /\ \A l \in links : l.id <= made
  /\ \A k, l \in links : k.id = l.id => k.paths = l.paths

\* A request is about a link or share that was made, and serves only once the account was read.
Rightful(c) ==
  /\ c.id <= made
  /\ c.pc \in Serving => Or(c, c.id, Alive(c.id))
  /\ c.pc \in Serving \ {"context"} => Or(c, 0, account = "enabled")
  /\ c.pc \in {"idle", "insert", "context"} => c.in = {}
  /\ c.pc = "browse" => c.target = Top
  /\ \A f \in c.in : Or(c, f, Shown(c, f))

\* What a selected path should bring into the archive.
Due(c, p) == {f \in File : (p = Top \/ f = p) /\ Reached(f) /\ f \notin c.unsettled}

\* Of each selected path, it is yet to be walked, or what it should bring is in the archive or about to be.
Collects(c) ==
  /\ c.pc \in {"walk", "list", "close", "closed"} => c.kind = "zip"
  /\ c.kind = "zip" /\ c.pc \in Serving =>
       /\ c.pc \in {"context", "walk", "list", "close", "closed"}
       /\ c.pc = "list" => c.root # <<>> /\ Head(c.root) = Top /\ c.files = {}
       /\ ~c.aborted =>
            \A p \in Selected(c.id) : (\E i \in DOMAIN c.root : c.root[i] = p) \/ Due(c, p) \subseteq c.files \cup c.in
       /\ c.pc \in {"close", "closed"} /\ ~c.aborted => c.files = {} /\ c.root = <<>>

\* The inductive invariant.
IInv ==
  /\ Typed
  /\ LinksAreDistinct
  /\ \A r \in Request : Rightful(call[r]) /\ Collects(call[r])
-----------------------------------------------------------------------------
(* What a step leaves as it was.                                           *)

\* But for the facts it changes, links, shares, files, rights and the account stay.
Settled(facts) ==
  /\ made' \in Nat /\ made <= made'
  /\ 0 \notin facts => account' = account
  /\ \A p \in Path \ facts :
       /\ (p \in present' <=> p \in present) /\ (p \in readable' <=> p \in readable)
       /\ (p \in readable' \cup leading' <=> p \in readable \cup leading)
  /\ \A l \in links : \E k \in links' : k.id = l.id /\ k.paths = l.paths /\ (l.id \in facts \/ k.over = l.over)
  /\ \A s \in shares : \/ s.id \in facts
                       \/ \E t \in shares' : t.id = s.id /\ t.revoked = s.revoked /\ t.over = s.over
  /\ \A k \in links' : k.id <= made => \E l \in links : k.id = l.id /\ k.paths = l.paths

\* One request takes a step, and what it goes by stays.
LEMMA RequestMoves ==
  ASSUME IInv, NEW r \in Request, NEW c \in Call, Calls(r, c), Rightful(c), Collects(c), Settled({})
  PROVE  \A q \in Request : Rightful(call[q])' /\ Collects(call[q])'
<1> SUFFICES ASSUME NEW q \in Request PROVE Rightful(call[q])' /\ Collects(call[q])'
  OBVIOUS
<1>1. PICK d \in Call : call'[q] = d /\ Rightful(d) /\ Collects(d)
  BY DEF Calls, IInv, Typed
<1>2. /\ account' = account /\ made \in Nat /\ made' \in Nat /\ made <= made'
      /\ \A p \in Path : /\ (p \in present' <=> p \in present) /\ (p \in readable' <=> p \in readable)
                        /\ (p \in readable' \cup leading' <=> p \in readable \cup leading)
  BY DEF Settled, IInv, Typed
<1>3. Alive(d.id) => Alive(d.id)'
  BY DEF Settled, Alive
<1>4. Rightful(call[q])'
  <2>1. d.id <= made' /\ (d.pc \in {"idle", "insert", "context"} => d.in = {}) /\ (d.pc = "browse" => d.target = Top)
    BY <1>1, <1>2 DEF Rightful, Call
  <2>2. d.pc \in Serving => Or(d, d.id, Alive(d.id)) /\ (d.pc # "context" => Or(d, 0, account = "enabled"))
    BY <1>1 DEF Rightful
  <2>3. \A f \in d.in : f \in d.unsettled \/ Shown(d, f)'
    BY <1>1, <1>2 DEF Rightful, Or, Shown, Reached, Exists, Call
  <2>4. \A f \in call'[q].in : f \in call'[q].unsettled \/ Shown(call[q], f)'
    BY <1>1, <2>3
  <2> QED
    BY <1>1, <1>2, <1>3, <2>1, <2>2, <2>4 DEF Rightful, Or
<1>5. Selected(d.id)' = Selected(d.id)
  <2>1. d.id <= made
    BY <1>1 DEF Rightful
  <2>2. \A l \in links : l.id = d.id => \E k \in links' : k.id = d.id /\ k.paths = l.paths
    BY DEF Settled
  <2>3. \A k \in links' : k.id = d.id => \E l \in links : l.id = d.id /\ k.paths = l.paths
    BY <2>1 DEF Settled
  <2> QED
    BY <2>2, <2>3 DEF Selected
<1>6. \A p \in Path : Due(d, p)' = Due(d, p)
  <2>1. \A f \in File : Reached(f)' <=> Reached(f)
    BY <1>2 DEF Reached, Exists, Path
  <2> QED
    BY <2>1 DEF Due
<1>7. Collects(call[q])'
  <2>1. ASSUME d.kind = "zip", d.pc \in Serving, ~d.aborted, NEW p \in Selected(d.id)',
               \A i \in DOMAIN d.root : d.root[i] # p
        PROVE  Due(d, p)' \subseteq d.files \cup d.in
    <3>1. p \in Path
      <4>1. links \subseteq Link /\ p \in Selected(d.id)
        BY <1>5, <2>1 DEF IInv, Typed
      <4>2. PICK l \in links : \E i \in DOMAIN l.paths : p = l.paths[i]
        BY <4>1 DEF Selected
      <4> QED
        BY <4>1, <4>2 DEF Link
    <3> QED
      BY <1>1, <1>5, <1>6, <2>1, <3>1 DEF Collects
  <2> QED
    BY <1>1, <2>1 DEF Collects
<1> QED
  BY <1>4, <1>7
\* Something changes, and every request under way holds that it did.
LEMMA WorldMoves ==
  ASSUME IInv, NEW facts, Unsettle(facts), Settled(facts)
  PROVE  \A q \in Request : Rightful(call[q])' /\ Collects(call[q])'
<1> SUFFICES ASSUME NEW q \in Request PROVE Rightful(call[q])' /\ Collects(call[q])'
  OBVIOUS
<1>1. PICK c \in Call : c = call[q] /\ Rightful(c) /\ Collects(c)
  BY DEF IInv, Typed
<1>2. made \in Nat /\ made' \in Nat /\ made <= made'
  BY DEF Settled, IInv, Typed
<1>3. CASE c.pc \in {"idle", "insert"}
  <2>1. call'[q] = c
    BY <1>1, <1>3 DEF Unsettle
  <2> QED
    BY <1>1, <1>2, <1>3, <2>1 DEF Rightful, Collects, Serving, Call
<1>4. CASE c.pc \in Serving
  <2>1. /\ call'[q] = [c EXCEPT !.unsettled = c.unsettled \cup facts]
        /\ call'[q].unsettled = c.unsettled \cup facts
        /\ call'[q].pc = c.pc /\ call'[q].kind = c.kind /\ call'[q].id = c.id /\ call'[q].root = c.root
        /\ call'[q].target = c.target
        /\ call'[q].files = c.files /\ call'[q].in = c.in /\ call'[q].aborted = c.aborted
    BY <1>1, <1>4 DEF Unsettle, Call, Serving
  <2>2. c.id \in c.unsettled \/ c.id \in facts \/ Alive(c.id)'
    BY <1>1, <1>4 DEF Settled, Alive, Rightful, Or
  <2>3. c.pc # "context" => 0 \in c.unsettled \/ 0 \in facts \/ account' = "enabled"
    BY <1>1, <1>4 DEF Settled, Rightful, Or
  <2>4. \A f \in Path : f \notin facts => (Reached(f)' <=> Reached(f))
    BY DEF Settled, Reached, Exists
  <2>5. \A f \in c.in : f \in c.unsettled \/ f \in facts \/ Shown(call[q], f)'
    <3>1. \A f \in Path : f \notin facts => (Shown(call[q], f)' <=> Shown(c, f))
      BY <2>1, <2>4 DEF Settled, Shown, Exists
    <3> QED
      BY <1>1, <3>1 DEF Rightful, Or, Call
  <2>6. c.id <= made' /\ (c.pc = "context" => c.in = {}) /\ (c.pc = "browse" => c.target = Top)
    BY <1>1, <1>2 DEF Rightful, Call
  <2>7. Rightful(call[q])'
    BY <1>4, <2>1, <2>2, <2>3, <2>5, <2>6 DEF Rightful, Or, Serving
  <2>8. Selected(c.id)' = Selected(c.id)
    <3>1. \A l \in links : l.id = c.id => \E k \in links' : k.id = c.id /\ k.paths = l.paths
      BY DEF Settled
    <3>2. \A k \in links' : k.id = c.id => \E l \in links : l.id = c.id /\ k.paths = l.paths
      BY <1>1 DEF Settled, Rightful
    <3> QED
      BY <3>1, <3>2 DEF Selected
  <2>9. \A p \in Path : \A f \in Due(call[q], p)' : f \in Due(c, p)
    BY <2>1, <2>4 DEF Due, Path
  <2>10. \A p \in Selected(c.id) : p \in Path
    BY DEF Selected, IInv, Typed, Link
  <2>11. ASSUME c.kind = "zip", ~c.aborted, NEW p \in Selected(c.id), \A i \in DOMAIN c.root : c.root[i] # p
         PROVE  Due(call[q], p)' \subseteq c.files \cup c.in
    BY <1>1, <1>4, <2>9, <2>10, <2>11 DEF Collects
  <2>12. ASSUME call'[q].kind = "zip", ~call'[q].aborted, NEW p \in Selected(call[q].id)',
                ~\E i \in DOMAIN call'[q].root : call'[q].root[i] = p
         PROVE  Due(call[q], p)' \subseteq call'[q].files \cup call'[q].in
    <3>1. p \in Selected(c.id)
      BY <2>1, <2>8, <2>12 DEF Selected
    <3> QED
      BY <2>1, <2>11, <2>12, <3>1
  <2>13. Collects(call[q])'
    <3>1. /\ c.pc \in {"walk", "list", "close", "closed"} => c.kind = "zip"
          /\ c.kind = "zip" => c.pc \in {"context", "walk", "list", "close", "closed"}
          /\ c.kind = "zip" /\ c.pc = "list" => c.root # <<>> /\ Head(c.root) = Top /\ c.files = {}
          /\ c.kind = "zip" /\ c.pc \in {"close", "closed"} /\ ~c.aborted => c.files = {} /\ c.root = <<>>
      BY <1>1, <1>4 DEF Collects
    <3> QED
      BY <2>1, <2>12, <3>1 DEF Collects
  <2> QED
    BY <2>7, <2>13
<1> QED
  BY <1>1, <1>3, <1>4 DEF Call
-----------------------------------------------------------------------------
(* The steps of a request.                                                 *)

\* A call put in the place of another is the call of its request.
LEMMA CallsAreTyped ==
  ASSUME Typed, NEW r \in Request, NEW c \in Call, Calls(r, c)
  PROVE  call' \in [Request -> Call]
  BY DEF Typed, Calls

\* A step that only reads keeps the invariant if what the request becomes is well.
LEMMA ReadStep ==
  ASSUME IInv, NEW r \in Request, NEW c \in Call, Calls(r, c), Reads, Rightful(c), Collects(c)
  PROVE  IInv'
<1>1. Settled({})
  BY DEF Settled, Reads, World, IInv, Typed
<1>2. Typed' /\ LinksAreDistinct'
  BY CallsAreTyped DEF IInv, Typed, LinksAreDistinct, Reads, World
<1> QED
  BY <1>1, <1>2, RequestMoves DEF IInv

\* A request that is idle is a request, and well.
LEMMA IdleIsWell == IInv => Idle \in Call /\ Rightful(Idle) /\ Collects(Idle)
  BY ContentAssumption DEF IInv, Typed, Idle, Call, Serving, Rightful, Collects, Path

\* What a request keeps when its place changes.
LEMMA PlaceChanges ==
  ASSUME NEW c \in Call, NEW pc \in {"idle", "insert"} \cup Serving
  PROVE  LET d == [c EXCEPT !.pc = pc] IN
         /\ d \in Call /\ d.pc = pc /\ d.kind = c.kind /\ d.id = c.id /\ d.by = c.by /\ d.root = c.root /\ d.target = c.target
         /\ d.head = c.head /\ d.files = c.files /\ d.in = c.in /\ d.aborted = c.aborted /\ d.unsettled = c.unsettled
  BY DEF Call

\* A request that ends.
LEMMA EndStep ==
  ASSUME IInv, NEW r \in Request, Ends(r), Reads
  PROVE  IInv'
  BY IdleIsWell, ReadStep DEF Ends

\* A request begins: a share is to be made, or a link or a share to be served.
LEMMA StartStep ==
  ASSUME IInv, NEW r \in Request,
         \/ \E p \in Path, password \in BOOLEAN : StartShare(r, p, password)
         \/ \E id \in 1..made, kind \in {"link", "zip"} : StartLink(r, id, kind)
         \/ \E id \in 1..made, p \in Path, password, head \in BOOLEAN : StartResolve(r, id, password, p, head)
  PROVE  IInv'
<1>1. ASSUME NEW p \in Path, NEW password \in BOOLEAN, StartShare(r, p, password) PROVE IInv'
  <2> DEFINE c == [Idle EXCEPT !.pc = "insert", !.kind = "create", !.by = bearer, !.target = p, !.head = password]
  <2>1. c \in Call /\ c.pc = "insert" /\ c.kind = "create" /\ c.id = 0 /\ c.in = {}
    BY <1>1, IdleIsWell DEF Idle, Call, IInv, Typed
  <2>2. Rightful(c) /\ Collects(c)
    BY <2>1, IdleIsWell DEF Rightful, Collects, Serving, Idle
  <2> QED
    BY <1>1, <2>1, <2>2, ReadStep DEF StartShare
<1>2. ASSUME NEW id \in 1..made, NEW kind \in {"link", "zip"}, StartLink(r, id, kind) PROVE IInv'
  <2>1. PICK l \in GetLink(id) :
          Calls(r, [Idle EXCEPT !.pc = "context", !.kind = kind, !.id = id, !.by = l.by, !.root = l.paths,
                    !.target = l.paths[1]])
    BY <1>2 DEF StartLink
  <2> DEFINE c == [Idle EXCEPT !.pc = "context", !.kind = kind, !.id = id, !.by = l.by, !.root = l.paths,
                    !.target = l.paths[1]]
  <2>2. l \in links /\ l.id = id /\ ~l.over /\ l.paths \in Seq(Path) /\ l.paths[1] \in Path /\ l.by \in Nat /\ id \in Nat /\ made \in Nat
    BY <2>1 DEF GetLink, IInv, Typed, Link
  <2>3. c \in Call /\ c.pc = "context" /\ c.kind = kind /\ c.id = id /\ c.root = l.paths /\ c.in = {}
    BY <2>2, IdleIsWell DEF Idle, Call, Serving
  <2>4. Rightful(c)
    BY <2>2, <2>3 DEF Rightful, Or, Alive, Serving
  <2>5. \A p \in Selected(id) : \E i \in DOMAIN l.paths : l.paths[i] = p
    BY <2>2 DEF Selected, IInv, LinksAreDistinct
  <2>6. Collects(c)
    BY <2>3, <2>5 DEF Collects
  <2> QED
    BY <1>2, <2>1, <2>3, <2>4, <2>6, ReadStep DEF StartLink
<1>3. ASSUME NEW id \in 1..made, NEW p \in Path, NEW password \in BOOLEAN, NEW head \in BOOLEAN,
             StartResolve(r, id, password, p, head)
      PROVE  IInv'
  <2>1. PICK s \in Resolve(id, password) :
          Calls(r, [Idle EXCEPT !.pc = "context", !.kind = "share", !.id = id, !.by = s.by, !.root = <<s.path>>, !.target = p,
                                !.head = head])
    BY <1>3 DEF StartResolve
  <2> DEFINE c == [Idle EXCEPT !.pc = "context", !.kind = "share", !.id = id, !.by = s.by, !.root = <<s.path>>, !.target = p,
                               !.head = head]
  <2>2. s \in shares /\ s.id = id /\ ~s.over /\ ~s.revoked /\ s.path \in Path /\ s.by \in Nat /\ id \in Nat /\ made \in Nat
    BY <2>1 DEF Resolve, IInv, Typed, Share
  <2>3. c \in Call /\ c.pc = "context" /\ c.kind = "share" /\ c.id = id /\ c.in = {}
    <3>1. <<s.path>> \in Seq(Path)
      BY <2>2
    <3> QED
      BY <1>3, <2>2, <3>1, IdleIsWell DEF Idle, Call, Serving
  <2>4. Rightful(c) /\ Collects(c)
    BY <2>2, <2>3 DEF Rightful, Or, Alive, Serving, Collects
  <2> QED
    BY <1>3, <2>1, <2>3, <2>4, ReadStep DEF StartResolve
<1> QED
  BY <1>1, <1>2, <1>3

\* A request that goes on, with what it sends left as it is.
LEMMA GoesStep ==
  ASSUME IInv, NEW r \in Request, NEW pc \in Serving, Goes(r, pc), Reads,
         call[r].pc \in Serving, call[r].kind = "zip" <=> pc \in {"walk", "list", "close", "closed"},
         call[r].pc = "context" => account = "enabled",
         pc # "context",
         pc = "browse" => call[r].target = Top,
         pc = "list" => call[r].root # <<>> /\ Head(call[r].root) = Top /\ call[r].files = {},
         pc = "close" => call[r].files = {} /\ call[r].root = <<>>,
         pc = "closed" => call[r].pc = "close"
  PROVE  IInv'
<1>1. PICK c \in Call : c = call[r] /\ Rightful(c) /\ Collects(c)
  BY DEF IInv, Typed
<1> DEFINE d == [c EXCEPT !.pc = pc]
<1>2. /\ d \in Call /\ d.pc = pc /\ d.kind = c.kind /\ d.id = c.id /\ d.root = c.root /\ d.target = c.target
      /\ d.files = c.files /\ d.in = c.in /\ d.aborted = c.aborted /\ d.unsettled = c.unsettled
  BY PlaceChanges
<1>3. Rightful(d)
  BY <1>1, <1>2 DEF Rightful, Or, Shown, Serving
<1>4. \A p : Due(d, p) = Due(c, p)
  BY <1>2 DEF Due
<1>5. Collects(d)
  BY <1>1, <1>2, <1>4 DEF Collects, Serving
<1>6. Calls(r, d)
  BY <1>1 DEF Goes
<1> HIDE DEF d
<1> QED
  BY <1>2, <1>3, <1>5, <1>6, ReadStep

\* The steps of serving a file, a folder or an archive that read and go on.
LEMMA ServeStep ==
  ASSUME IInv, NEW r \in Request, Context(r) \/ Stat(r) \/ Browse(r) \/ Open(r) \/ Finish(r) \/ Close(r) \/ Hangup(r)
  PROVE  IInv'
<1>0. call[r] \in Call /\ Collects(call[r])
  BY DEF IInv, Typed
<1>1. CASE Context(r)
  <2>1. CASE Ends(r)
    BY <1>1, <2>1, EndStep DEF Context
  <2>2. CASE ~Ends(r)
    BY <1>0, <1>1, <2>2, GoesStep DEF Context, ContextFor, Serving
  <2> QED
    BY <2>1, <2>2
<1>2. CASE Stat(r)
  <2>1. CASE Ends(r)
    BY <1>2, <2>1, EndStep DEF Stat
  <2>2. call[r].kind # "zip"
    BY <1>0, <1>2 DEF Stat, Collects, Serving
  <2>3. CASE ~Ends(r)
    BY <1>0, <1>2, <2>2, <2>3, GoesStep DEF Stat, Serving
  <2> QED
    BY <2>1, <2>3
<1>3. CASE Finish(r)
  <2>1. call[r].kind = "zip"
    BY <1>0, <1>3 DEF Finish, Collects
  <2> QED
    BY <1>3, <2>1, GoesStep DEF Finish, Serving
<1>4. CASE Close(r)
  <2>1. call[r].kind = "zip"
    BY <1>0, <1>4 DEF Close, Collects
  <2> QED
    BY <1>4, <2>1, GoesStep DEF Close, Serving
<1>5. CASE Hangup(r)
  BY <1>5, EndStep DEF Hangup
<1>6. ASSUME call[r].pc \in {"browse", "open"}, Reads, NEW pc \in {"sent", "count"}, NEW in \in SUBSET Path,
             \A f \in in : Shown(call[r], f), Calls(r, [call[r] EXCEPT !.pc = pc, !.in = in])
      PROVE  IInv'
  <2>1. PICK c \in Call : c = call[r] /\ Rightful(c) /\ Collects(c)
    BY DEF IInv, Typed
  <2> DEFINE d == [c EXCEPT !.pc = pc, !.in = in]
  <2>2. /\ d \in Call /\ d.pc = pc /\ d.kind = c.kind /\ d.id = c.id /\ d.target = c.target
        /\ d.in = in /\ d.unsettled = c.unsettled
    BY <1>6 DEF Call, Serving
  <2>3. Rightful(d)
    BY <1>6, <2>1, <2>2 DEF Rightful, Or, Shown, Serving
  <2>4. Collects(d)
    BY <1>6, <2>1, <2>2 DEF Collects, Serving
  <2>5. Calls(r, d)
    BY <1>6, <2>1
  <2> HIDE DEF d
  <2> QED
    BY <1>6, <2>2, <2>3, <2>4, <2>5, ReadStep
<1>7. CASE Browse(r)
  <2>1. CASE CanList(Top)
    <3>1. call[r].kind # "zip" /\ call[r].target = Top
      BY <1>0, <1>7 DEF Browse, IInv, Rightful, Collects, Serving
    <3>2. Listing \subseteq Path /\ \A f \in Listing : Shown(call[r], f)
      BY <3>1 DEF Listing, VisibleChildren, Path, IInv, Typed, Shown, Exists
    <3> QED
      BY <1>6, <1>7, <2>1, <3>2 DEF Browse
  <2> QED
    BY <1>7, <2>1, EndStep DEF Browse
<1>8. CASE Open(r)
  <2>1. CASE Reached(call[r].target)
    <3>1. {call[r].target} \in SUBSET Path /\ \A f \in {call[r].target} : Shown(call[r], f)
      BY <1>0, <2>1 DEF Call, Shown, Reached
    <3>2. CASE call[r].kind = "share" /\ ~call[r].head
      BY <1>6, <1>8, <2>1, <3>1, <3>2 DEF Open
    <3>3. CASE ~(call[r].kind = "share" /\ ~call[r].head)
      BY <1>6, <1>8, <2>1, <3>1, <3>3 DEF Open
    <3> QED
      BY <3>2, <3>3
  <2> QED
    BY <1>8, <2>1, EndStep DEF Open
<1> QED
  BY <1>1, <1>2, <1>3, <1>4, <1>5, <1>7, <1>8

\* An archive that is ended by an error.
LEMMA AbortStep ==
  ASSUME IInv, NEW r \in Request, call[r].pc \in {"walk", "list"}, Abort(r)
  PROVE  /\ call' \in [Request -> Call]
         /\ Settled({}) => \A q \in Request : Rightful(call[q])' /\ Collects(call[q])'
<1>1. PICK c \in Call : c = call[r] /\ c.pc \in {"walk", "list"} /\ Rightful(c) /\ Collects(c)
  BY DEF IInv, Typed
<1> DEFINE d == [c EXCEPT !.pc = "close", !.files = {}, !.aborted = TRUE]
<1>2. /\ d \in Call /\ d.pc = "close" /\ d.kind = c.kind /\ d.id = c.id /\ d.aborted
      /\ d.target = c.target /\ d.in = c.in /\ d.unsettled = c.unsettled
  BY DEF Call, Serving
<1>3. Rightful(d)
  BY <1>1, <1>2 DEF Rightful, Or, Shown, Serving
<1>4. Collects(d)
  BY <1>1, <1>2 DEF Collects, Serving
<1>5. Calls(r, d)
  BY <1>1 DEF Abort
<1> HIDE DEF d
<1> QED
  BY <1>2, <1>3, <1>4, <1>5, CallsAreTyped, RequestMoves DEF IInv

\* A selected path or a file goes into an archive, or an error ends it.
LEMMA ZipStep ==
  ASSUME IInv, NEW r \in Request, AddToZip(r) \/ ZipDir(r) \/ \E f \in File : ZipFile(r, f) \/ DiskError(r, f)
  PROVE  IInv'
<1>1. PICK c \in Call : c = call[r] /\ c.pc \in {"walk", "list"} /\ Rightful(c) /\ Collects(c)
  BY DEF IInv, Typed, AddToZip, ZipDir, ZipFile, DiskError
<1>2. c.kind = "zip" /\ c.root \in Seq(Path) /\ c.in \subseteq Path /\ c.files \subseteq File
  BY <1>1 DEF Collects, Call
<1>3. ASSUME Abort(r), World, UNCHANGED <<links, shares, made>> PROVE IInv'
  <2>1. Settled({}) /\ LinksAreDistinct'
    BY <1>3 DEF Settled, World, IInv, Typed, LinksAreDistinct
  <2> QED
    BY <1>1, <1>3, <2>1, AbortStep DEF IInv, Typed, World
<1>4. ASSUME NEW brings \in SUBSET File, c.root # <<>>, c.files = {}, Takes(r, brings), Reads,
             \A f \in File : (Head(c.root) = Top \/ f = Head(c.root)) /\ Reached(f) => f \in brings
      PROVE  IInv'
  <2> DEFINE p == Head(c.root)
             d == [c EXCEPT !.pc = "walk", !.root = Tail(c.root), !.files = brings]
  <2>1. p \in Path /\ Tail(c.root) \in Seq(Path) /\ c.root # <<>> /\ c.files = {}
    BY <1>2, <1>4
  <2>2. /\ d \in Call /\ d.pc = "walk" /\ d.kind = "zip" /\ d.id = c.id /\ d.root = Tail(c.root)
        /\ d.files = brings /\ d.in = c.in /\ d.aborted = c.aborted /\ d.unsettled = c.unsettled
    BY <1>1, <1>2, <2>1 DEF Call, Serving
  <2>3. Rightful(d)
    BY <1>1, <1>2, <2>2 DEF Rightful, Or, Shown, Serving
  <2>4. Due(d, p) \subseteq brings
    BY <1>4, <2>2 DEF Due
  <2>5. \A x : Due(d, x) = Due(c, x)
    BY <2>2 DEF Due
  <2>6. ASSUME NEW i \in DOMAIN c.root, c.root[i] # p
        PROVE  \E j \in DOMAIN Tail(c.root) : Tail(c.root)[j] = c.root[i]
    <3>1. i \in 1..Len(c.root) /\ i # 1 /\ Len(c.root) \in Nat
      BY <1>2, <2>6
    <3>2. i - 1 \in DOMAIN Tail(c.root) /\ Tail(c.root)[i - 1] = c.root[i]
      BY <1>2, <2>1, <3>1
    <3> QED
      BY <3>2
  <2>7. ASSUME ~d.aborted, NEW x \in Selected(d.id), ~\E j \in DOMAIN d.root : d.root[j] = x
        PROVE  Due(d, x) \subseteq d.files \cup d.in
    <3>1. CASE x = p
      BY <2>2, <2>4, <3>1
    <3>2. CASE x # p
      <4>1. ~\E j \in DOMAIN c.root : c.root[j] = x
        BY <2>2, <2>6, <2>7, <3>2
      <4>2. Due(c, x) \subseteq c.in
        BY <1>1, <1>2, <2>1, <2>2, <2>7, <4>1 DEF Collects, Serving
      <4> QED
        BY <2>2, <2>5, <4>2
    <3> QED
      BY <3>1, <3>2
  <2>8. Collects(d)
    BY <2>2, <2>7 DEF Collects
  <2>9. Calls(r, d) /\ Reads
    BY <1>1, <1>4 DEF Takes
  <2> HIDE DEF d
  <2> QED
    BY <2>2, <2>3, <2>8, <2>9, ReadStep
<1>7. CASE AddToZip(r)
  <2>1. CASE ~Reached(Head(call[r].root))
    BY <1>3, <1>7, <2>1 DEF AddToZip, Reads
  <2>2. CASE Reached(Head(call[r].root)) /\ Head(call[r].root) = Top
    BY <1>1, <1>2, <1>7, <2>2, GoesStep DEF AddToZip, Serving
  <2>3. CASE Reached(Head(call[r].root)) /\ Head(call[r].root) # Top
    <3>1. Head(c.root) \in File /\ c.root # <<>> /\ c.files = {} /\ Takes(r, {Head(c.root)}) /\ Reads
      BY <1>1, <1>2, <1>7, <2>3 DEF AddToZip, Path
    <3> QED
      BY <1>1, <1>4, <2>3, <3>1
  <2> QED
    BY <2>1, <2>2, <2>3
<1>8. CASE ZipDir(r)
  <2>1. CASE CanList(Top)
    <3>1. c.root # <<>> /\ Head(c.root) = Top /\ c.files = {}
      BY <1>1, <1>2, <1>8 DEF ZipDir, Collects, Serving
    <3>2. Listing \in SUBSET File /\ \A f \in File : Reached(f) => f \in Listing
      BY ContentAssumption DEF Listing, VisibleChildren, Reached, Exists, IInv, Typed
    <3> QED
      BY <1>4, <1>8, <2>1, <3>1, <3>2 DEF ZipDir
  <2> QED
    BY <1>3, <1>8, <2>1 DEF ZipDir, Reads
<1>5. ASSUME NEW f \in File, ZipFile(r, f) PROVE IInv'
  <2> DEFINE d == [c EXCEPT !.files = c.files \ {f}, !.in = c.in \cup {g \in {f} : Reached(f)}]
  <2>0. c.pc = "walk"
    BY <1>1, <1>5 DEF ZipFile
  <2>1. /\ d \in Call /\ d.pc = "walk" /\ d.kind = "zip" /\ d.id = c.id /\ d.root = c.root /\ d.files = c.files \ {f}
        /\ d.in = c.in \cup {g \in {f} : Reached(f)} /\ d.aborted = c.aborted /\ d.unsettled = c.unsettled
    BY <1>1, <1>2, <2>0 DEF Call, Path
  <2>2. Rightful(d)
    BY <1>1, <1>2, <2>0, <2>1 DEF Rightful, Or, Shown, Serving
  <2>3. \A x : Due(d, x) = Due(c, x) /\ (Due(c, x) \subseteq c.files \cup c.in => Due(c, x) \subseteq d.files \cup d.in)
    BY <2>1 DEF Due
  <2>4. Collects(d)
    BY <1>1, <1>2, <2>0, <2>1, <2>3 DEF Collects, Serving
  <2>5. Calls(r, d) /\ Reads
    BY <1>1, <1>5 DEF ZipFile
  <2> HIDE DEF d
  <2> QED
    BY <2>1, <2>2, <2>4, <2>5, ReadStep
<1>6. ASSUME NEW f \in File, DiskError(r, f) PROVE IInv'
  BY <1>3, <1>6 DEF DiskError, StopThere
<1> QED
  BY <1>5, <1>6, <1>7, <1>8

\* The rows of shares.
LEMMA ShareStep ==
  ASSUME IInv, NEW r \in Request, CreateShare(r) \/ IncrementShareDownloads(r) \/ LogShareAccess(r)
  PROVE  IInv'
<1>1. PICK c \in Call : c = call[r] /\ Rightful(c) /\ Collects(c)
  BY DEF IInv, Typed
<1>2. CASE CreateShare(r)
  <2> DEFINE s == [id |-> made + 1, by |-> call[r].by, path |-> call[r].target, password |-> call[r].head,
                   revoked |-> FALSE, over |-> FALSE, count |-> 0, log |-> 0]
  <2>0. s \in Share
    BY <1>1 DEF IInv, Typed, Share, Call
  <2>1. made' \in Nat /\ made < made' /\ shares' \subseteq Share /\ shares \subseteq shares' /\ links' = links
    <3>1. shares' = shares \/ shares' = shares \cup {s}
      BY <1>2 DEF CreateShare
    <3>2. made \in Nat /\ made' = made + 1 /\ links' = links /\ shares \subseteq Share
      BY <1>2 DEF CreateShare, IInv, Typed
    <3> HIDE DEF s
    <3> QED
      BY <2>0, <3>1, <3>2
  <2>2. Settled({}) /\ LinksAreDistinct'
    BY <1>2, <2>1 DEF Settled, CreateShare, World, IInv, Typed, LinksAreDistinct, Link
  <2>3. Calls(r, Idle) /\ World
    BY <1>2 DEF CreateShare, Ends
  <2> QED
    BY <2>1, <2>2, <2>3, IdleIsWell, CallsAreTyped, RequestMoves DEF IInv, Typed, World
<1>3. ASSUME NEW pc \in {"log", "sent"}, Goes(r, pc), c.pc \in {"count", "log"},
             World, UNCHANGED <<links, made>>, shares' \subseteq Share,
             \A s \in shares : \E t \in shares' : t.id = s.id /\ t.revoked = s.revoked /\ t.over = s.over
      PROVE  IInv'
  <2> DEFINE d == [c EXCEPT !.pc = pc]
  <2>1. /\ d \in Call /\ d.pc = pc /\ d.kind = c.kind /\ d.id = c.id /\ d.target = c.target
        /\ d.in = c.in /\ d.unsettled = c.unsettled
    BY PlaceChanges DEF Serving
  <2>2. Rightful(d) /\ Collects(d)
    BY <1>1, <1>3, <2>1 DEF Rightful, Or, Shown, Serving, Collects
  <2>3. Settled({}) /\ LinksAreDistinct'
    BY <1>3 DEF Settled, World, IInv, Typed, LinksAreDistinct
  <2>4. Calls(r, d)
    BY <1>1, <1>3 DEF Goes
  <2> HIDE DEF d
  <2> QED
    BY <1>3, <2>1, <2>2, <2>3, <2>4, CallsAreTyped, RequestMoves DEF IInv, Typed, World
<1>4. CASE IncrementShareDownloads(r)
  <2>1. \A s \in shares : [s EXCEPT !.count = s.count + 1] \in Share
    BY DEF IInv, Typed, Share
  <2> DEFINE After(s) == IF s.id = c.id THEN [s EXCEPT !.count = s.count + 1] ELSE s
  <2>2. shares' = {After(s) : s \in shares}
    BY <1>1, <1>4 DEF IncrementShareDownloads
  <2>3. \A s \in shares : After(s) \in Share /\ After(s).id = s.id /\ After(s).revoked = s.revoked /\ After(s).over = s.over
    BY <2>1 DEF IInv, Typed, Share
  <2> HIDE DEF After
  <2> QED
    BY <1>1, <1>3, <1>4, <2>2, <2>3 DEF IncrementShareDownloads
<1>5. CASE LogShareAccess(r)
  <2>1. \A s \in shares : [s EXCEPT !.log = s.log + 1] \in Share
    BY DEF IInv, Typed, Share
  <2> DEFINE After(s) == IF s.id = c.id THEN [s EXCEPT !.log = s.log + 1] ELSE s
  <2>2. shares' = {After(s) : s \in shares}
    BY <1>1, <1>5 DEF LogShareAccess
  <2>3. \A s \in shares : After(s) \in Share /\ After(s).id = s.id /\ After(s).revoked = s.revoked /\ After(s).over = s.over
    BY <2>1 DEF IInv, Typed, Share
  <2> HIDE DEF After
  <2> QED
    BY <1>1, <1>3, <1>5, <2>2, <2>3 DEF LogShareAccess
<1> QED
  BY <1>2, <1>4, <1>5

-----------------------------------------------------------------------------
(* What comes in between.                                                  *)

\* Nobody moves, and what requests go by stays.
LEMMA NobodyMoves ==
  ASSUME IInv, UNCHANGED call, Settled({})
  PROVE  \A q \in Request : Rightful(call[q])' /\ Collects(call[q])'
<1>1. ASSUME NEW r \in Request PROVE \A q \in Request : Rightful(call[q])' /\ Collects(call[q])'
  <2>1. call[r] \in Call /\ Calls(r, call[r])
    BY DEF IInv, Typed, Calls
  <2> QED
    BY <2>1, RequestMoves DEF IInv
<1> QED
  BY <1>1

\* A link is signed.
LEMMA SignStep ==
  ASSUME IInv, NEW paths \in Selections, Sign(paths)
  PROVE  IInv'
<1> DEFINE l == [id |-> made + 1, by |-> bearer, paths |-> paths, over |-> FALSE]
<1>1. l \in Link /\ made \in Nat /\ made' = made + 1 /\ links' = links \cup {l} /\ shares' = shares /\ call' = call
  BY ContentAssumption DEF Sign, IInv, Typed, Link, Path
<1>2. LinksAreDistinct'
  <2>1. \A k \in links : k.id \in Nat /\ k.id <= made
    BY DEF IInv, Typed, LinksAreDistinct, Link
  <2>2. l.id = made + 1
    OBVIOUS
  <2> HIDE DEF l
  <2> QED
    BY <1>1, <2>1, <2>2 DEF IInv, LinksAreDistinct
<1>3. Settled({})
  <2>1. l.id = made + 1
    OBVIOUS
  <2> HIDE DEF l
  <2> QED
    BY <1>1, <2>1 DEF Settled, Sign, World, IInv, Typed
<1>4. \A q \in Request : Rightful(call[q])' /\ Collects(call[q])'
  BY <1>1, <1>3, NobodyMoves
<1> HIDE DEF l
<1> QED
  BY <1>1, <1>2, <1>4 DEF IInv, Typed, Sign, World

\* Whatever is unsettled, a call stays a call.
LEMMA UnsettledAreTyped ==
  ASSUME Typed, NEW facts \in SUBSET Fact, Unsettle(facts)
  PROVE  call' \in [Request -> Call]
<1>1. \A c \in Call : [c EXCEPT !.unsettled = c.unsettled \cup facts] \in Call
  BY DEF Call
<1> QED
  BY <1>1 DEF Typed, Unsettle

\* A change that unsettles what it changes keeps the invariant.
LEMMA ChangeStep ==
  ASSUME IInv, NEW facts \in SUBSET Fact, Unsettle(facts), made' = made,
         present' \subseteq File, readable' \subseteq Path, leading' \subseteq Path,
         account' \in {"enabled", "disabled", "gone"}, bearer' \in Nat,
         links' \subseteq Link, shares' \subseteq Share,
         0 \notin facts => account' = account,
         \A p \in Path \ facts :
           /\ (p \in present' <=> p \in present) /\ (p \in readable' <=> p \in readable)
           /\ (p \in readable' \cup leading' <=> p \in readable \cup leading),
         \A l \in links : \E k \in links' : k.id = l.id /\ k.paths = l.paths /\ (l.id \in facts \/ k.over = l.over),
         \A s \in shares : \/ s.id \in facts
                           \/ \E t \in shares' : t.id = s.id /\ t.revoked = s.revoked /\ t.over = s.over,
         \A k \in links' : \E l \in links : k.id = l.id /\ k.paths = l.paths
  PROVE  IInv'
<1>1. Settled(facts)
  BY DEF Settled, IInv, Typed
<1>2. LinksAreDistinct'
  BY DEF IInv, LinksAreDistinct
<1>3. Typed'
  BY UnsettledAreTyped DEF IInv, Typed
<1> QED
  BY <1>1, <1>2, <1>3, WorldMoves DEF IInv

\* A share is revoked, or a link or a share expires.
LEMMA WithdrawalStep ==
  ASSUME IInv, NEW id \in 1..made, RevokeShare(id) \/ Expire(id)
  PROVE  IInv'
<1>1. made \in Nat /\ {id} \in SUBSET Fact /\ links \subseteq Link /\ shares \subseteq Share
  BY DEF Fact, IInv, Typed
<1> DEFINE Ended(l) == IF l.id = id THEN [l EXCEPT !.over = TRUE] ELSE l
           Revoked(s) == IF s.id = id THEN [s EXCEPT !.revoked = TRUE] ELSE s
<1>2. \A l \in links : Ended(l) \in Link /\ Ended(l).id = l.id /\ Ended(l).paths = l.paths /\ (l.id = id \/ Ended(l) = l)
  BY <1>1 DEF Link
<1>3. \A s \in shares : /\ Ended(s) \in Share /\ Ended(s).id = s.id /\ (s.id = id \/ Ended(s) = s)
                        /\ Revoked(s) \in Share /\ Revoked(s).id = s.id /\ (s.id = id \/ Revoked(s) = s)
  BY <1>1 DEF Share
<1>4. CASE RevokeShare(id)
  <2>1. /\ shares' = {Revoked(s) : s \in shares} /\ UNCHANGED <<links, made, present, readable, leading, account, bearer>>
        /\ Unsettle({id})
    BY <1>4 DEF RevokeShare, Change, World
  <2> HIDE DEF Revoked, Ended
  <2>2. /\ shares' \subseteq Share
        /\ \A s \in shares : \/ s.id \in {id}
                             \/ \E t \in shares' : t.id = s.id /\ t.revoked = s.revoked /\ t.over = s.over
    BY <1>3, <2>1
  <2>3. /\ present \subseteq File /\ readable \subseteq Path /\ leading \subseteq Path
        /\ account \in {"enabled", "disabled", "gone"} /\ bearer \in Nat
    BY DEF IInv, Typed
  <2> QED
    BY <1>1, <2>1, <2>2, <2>3, ChangeStep
<1>5. CASE Expire(id)
  <2>1. /\ shares' = {Ended(s) : s \in shares} /\ links' = {Ended(l) : l \in links}
        /\ UNCHANGED <<made, present, readable, leading, account, bearer>> /\ Unsettle({id})
    BY <1>5 DEF Expire, Change, World
  <2> HIDE DEF Revoked, Ended
  <2>2. /\ shares' \subseteq Share
        /\ \A s \in shares : \/ s.id \in {id}
                             \/ \E t \in shares' : t.id = s.id /\ t.revoked = s.revoked /\ t.over = s.over
    BY <1>3, <2>1
  <2>3. /\ links' \subseteq Link
        /\ \A l \in links : \E k \in links' : k.id = l.id /\ k.paths = l.paths /\ (l.id \in {id} \/ k.over = l.over)
        /\ \A k \in links' : \E l \in links : k.id = l.id /\ k.paths = l.paths
    BY <1>2, <2>1
  <2>4. /\ present \subseteq File /\ readable \subseteq Path /\ leading \subseteq Path
        /\ account \in {"enabled", "disabled", "gone"} /\ bearer \in Nat
    BY DEF IInv, Typed
  <2> QED
    BY <1>1, <2>1, <2>2, <2>3, <2>4, ChangeStep
<1> QED
  BY <1>4, <1>5

\* What new rules grant and lead to, with what they change.
LEMMA RulesChange ==
  ASSUME IInv, NEW rt \in Rights, Grants(rt)
  PROVE  /\ readable' \subseteq Path /\ leading' \subseteq Path /\ Regranted(rt) \in SUBSET Fact
         /\ \A p \in Path \ Regranted(rt) :
              (p \in readable' <=> p \in readable) /\ (p \in readable' \cup leading' <=> p \in readable \cup leading)
  BY ContentAssumption DEF Grants, Regranted, Fact, Path

\* The account is disabled, enabled or deleted, its number gets another bearer, or its rules change.
LEMMA AccountStep ==
  ASSUME IInv,
         \/ \E to \in {"enabled", "disabled"} : SetUserDisabled(to)
         \/ \E rt \in Rights : SetRight(rt) \/ DeleteUser(rt) \/ CreateUser(rt)
  PROVE  IInv'
<1>1. /\ present \subseteq File /\ readable \subseteq Path /\ leading \subseteq Path
      /\ links \subseteq Link /\ shares \subseteq Share
      /\ account \in {"enabled", "disabled", "gone"} /\ bearer \in Nat /\ bearer + 1 \in Nat
      /\ {0} \in SUBSET Fact /\ {s.id : s \in shares} \in SUBSET Fact
  BY DEF IInv, Typed, Fact, Share
<1>2. ASSUME NEW to \in {"enabled", "disabled"}, SetUserDisabled(to) PROVE IInv'
  BY <1>1, <1>2, ChangeStep DEF SetUserDisabled, Change
<1>3. ASSUME NEW rt \in Rights, SetRight(rt) PROVE IInv'
  <2>1. Grants(rt) /\ Unsettle(Regranted(rt)) /\ UNCHANGED <<present, account, bearer, links, shares, made>>
    BY <1>3 DEF SetRight, Change
  <2> QED
    BY <1>1, <2>1, RulesChange, ChangeStep
<1>4. ASSUME NEW rt \in Rights, NEW facts \in SUBSET Fact, NEW to \in {"enabled", "gone"}, Grants(rt),
             Unsettle(facts), Regranted(rt) \subseteq facts, 0 \in facts, account' = to, bearer' \in Nat,
             UNCHANGED <<present, links, made>>, shares' \subseteq shares, \A s \in shares \ shares' : s.id \in facts
      PROVE  IInv'
  <2>1. \A p \in Path \ facts : (p \in readable' <=> p \in readable)
                                /\ (p \in readable' \cup leading' <=> p \in readable \cup leading)
    BY <1>4, RulesChange
  <2>2. readable' \subseteq Path /\ leading' \subseteq Path
    BY <1>4, RulesChange
  <2>3. \A s \in shares : \/ s.id \in facts
                          \/ \E t \in shares' : t.id = s.id /\ t.revoked = s.revoked /\ t.over = s.over
    BY <1>4
  <2> QED
    BY <1>1, <1>4, <2>1, <2>2, <2>3, ChangeStep
<1>5. ASSUME NEW rt \in Rights, DeleteUser(rt) PROVE IInv'
  <2> DEFINE facts == {0} \cup {s.id : s \in shares} \cup Regranted(rt)
  <2>1. /\ Grants(rt) /\ Unsettle(facts) /\ account' = "gone" /\ shares' = {}
        /\ UNCHANGED <<present, bearer, links, made>>
    BY <1>5 DEF DeleteUser, Change
  <2>2. facts \in SUBSET Fact /\ Regranted(rt) \subseteq facts /\ 0 \in facts /\ \A s \in shares : s.id \in facts
    BY <1>1, <2>1, RulesChange
  <2> HIDE DEF facts
  <2> QED
    BY <1>1, <1>4, <2>1, <2>2
<1>6. ASSUME NEW rt \in Rights, CreateUser(rt) PROVE IInv'
  <2> DEFINE facts == {0} \cup Regranted(rt)
  <2>1. /\ Grants(rt) /\ Unsettle(facts) /\ account' = "enabled" /\ bearer' = bearer + 1
        /\ UNCHANGED <<present, links, shares, made>>
    BY <1>6 DEF CreateUser, Change
  <2>2. facts \in SUBSET Fact /\ Regranted(rt) \subseteq facts /\ 0 \in facts
    BY <1>1, <2>1, RulesChange
  <2> HIDE DEF facts
  <2> QED
    BY <1>1, <1>4, <2>1, <2>2
<1> QED
  BY <1>2, <1>3, <1>5, <1>6

\* A file comes or goes.
LEMMA TreeStep ==
  ASSUME IInv, NEW p \in File, SetFile(p)
  PROVE  IInv'
<1>1. /\ present \subseteq File /\ readable \subseteq Path /\ leading \subseteq Path
      /\ links \subseteq Link /\ shares \subseteq Share
      /\ account \in {"enabled", "disabled", "gone"} /\ bearer \in Nat /\ {p} \in SUBSET Fact
  BY DEF IInv, Typed, Fact, Path
<1>2. /\ UNCHANGED <<readable, leading, account, bearer, links, shares, made>> /\ Unsettle({p})
      /\ present' \subseteq File
      /\ \A q \in Path \ {p} : q \in present' <=> q \in present
  BY <1>1 DEF SetFile, Change, Path
<1> QED
  BY <1>1, <1>2, ChangeStep

\* A new process knows neither the links nor the requests of the last one.
LEMMA RestartStep ==
  ASSUME IInv, Restart
  PROVE  IInv'
<1>1. Idle \in Call /\ Idle.pc = "idle" /\ Idle.kind = "link" /\ Idle.id = 0 /\ Idle.in = {}
  BY IdleIsWell DEF Idle
<1>2. \A q \in Request : call'[q] = Idle
  BY DEF Restart
<1>3. Typed' /\ LinksAreDistinct'
  BY <1>1 DEF Restart, World, IInv, Typed, LinksAreDistinct
<1>4. made \in Nat /\ made' = made
  BY DEF Restart, IInv, Typed
<1>5. \A q \in Request : Rightful(call[q])' /\ Collects(call[q])'
  BY <1>1, <1>2, <1>4 DEF Rightful, Collects, Serving
<1> QED
  BY <1>3, <1>5 DEF IInv

\* Nothing has been asked.
LEMMA InitIInv == Init => IInv
<1> SUFFICES ASSUME Init PROVE IInv
  OBVIOUS
<1>1. Idle \in Call /\ Idle.pc = "idle" /\ Idle.kind = "link" /\ Idle.id = 0 /\ Idle.in = {}
  BY ContentAssumption DEF Idle, Call, Serving, Path
<1>2. Typed /\ LinksAreDistinct
  BY <1>1, ContentAssumption DEF Init, Typed, LinksAreDistinct, Path
<1>3. \A r \in Request : Rightful(call[r]) /\ Collects(call[r])
  BY <1>1 DEF Init, Rightful, Collects, Serving
<1> QED
  BY <1>2, <1>3 DEF IInv

\* Every step preserves the invariant.
LEMMA NextIInv == IInv /\ [Next]_vars => IInv'
<1> SUFFICES ASSUME IInv, [Next]_vars PROVE IInv'
  OBVIOUS
<1>1. CASE UNCHANGED vars
  <2>1. Typed' /\ LinksAreDistinct' /\ Settled({}) /\ UNCHANGED call
    BY <1>1 DEF vars, IInv, Typed, LinksAreDistinct, Settled
  <2> QED
    BY <2>1, NobodyMoves DEF IInv
<1>2. ASSUME NEW r \in Request, NEW f \in File, ZipFile(r, f) \/ DiskError(r, f) PROVE IInv'
  BY <1>2, ZipStep
<1>3. ASSUME NEW r \in Request,
             \/ CreateShare(r) \/ Context(r) \/ Stat(r) \/ Browse(r) \/ Open(r)
             \/ IncrementShareDownloads(r) \/ LogShareAccess(r)
             \/ AddToZip(r) \/ ZipDir(r) \/ Finish(r) \/ Close(r) \/ Hangup(r)
      PROVE  IInv'
  BY <1>3, ServeStep, ShareStep, ZipStep
<1> QED
  BY <1>1, <1>2, <1>3, SignStep, StartStep, WithdrawalStep, AccountStep, TreeStep, RestartStep DEF Next

\* Whatever the requests, the links and what comes in between, the invariant holds.
THEOREM ContentInvariant == Spec => []IInv
  BY InitIInv, NextIInv, PTL DEF Spec

\* Nothing leaves on a right, an account or a link that was gone before the request began.
THEOREM ContentIsServedByRight == Spec => []ServedByRight
<1>1. IInv => ServedByRight
  BY DEF IInv, Typed, Call, Rightful, ServedByRight
<1> QED
  BY <1>1, ContentInvariant, PTL

\* An archive that no error ended holds every selected file that stayed where it was while it was written.
THEOREM ArchivesMissNothing == Spec => []ArchiveMissesNothing
<1>1. IInv => ArchiveMissesNothing
  <2> SUFFICES ASSUME IInv, NEW r \in Request, call[r].pc = "closed", ~call[r].aborted PROVE Holes(call[r]) = {}
    BY DEF ArchiveMissesNothing
  <2>1. PICK c \in Call : c = call[r] /\ Collects(c)
    BY DEF IInv, Typed
  <2>2. c.files = {} /\ c.root = <<>> /\ \A p \in Selected(c.id) : Due(c, p) \subseteq c.in
    BY <2>1 DEF Collects, Serving
  <2> QED
    BY <2>1, <2>2 DEF Holes, Missing, Due
<1> QED
  BY <1>1, ContentInvariant, PTL
=============================================================================
