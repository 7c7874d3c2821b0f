--------------------------- MODULE NamespaceProofs ---------------------------
(***************************************************************************)
(* Theorems about Namespace for any requests, names, nodes and bounds: the *)
(* tree stays one, rows keep their entries, copies are whole, temporary    *)
(* trees go away, and nothing vanishes unasked.                            *)
(***************************************************************************)
EXTENDS Namespace, TLAPS, FiniteSetTheorems, SequenceTheorems, WellFoundedInduction

Name == Top \cup Inner

-----------------------------------------------------------------------------
(* The tree.                                                               *)

(* The tree h with folders F among its first b nodes, and k names drawn in *)
(* the trash: entries stand where they may, no two at one place, and under *)
(* folders that are there.                                                 *)
Sound(h, F, b, k) ==
  /\ b \in 0..MaxNodes /\ k \in Nat
  /\ F \subseteq 1..b
  /\ h \in [Node -> [in : {Root, Trash, Temp, Nowhere} \cup F, as : Name \cup Int]]
  /\ \A n \in Node :
       /\ h[n].in = Nowhere => h[n] = Absent
       /\ h[n].in \in Node \cup {Root} => h[n].as \in Name
       /\ h[n].in = Trash => h[n].as \in 1..k
       /\ h[n].in = Temp => h[n].as = n
       /\ h[n].in \in Node => h[h[n].in].in # Nowhere /\ h[n].in # n
       /\ n > b => h[n].in = Nowhere
  /\ \A n, m \in Node : h[n].in # Nowhere /\ h[m] = h[n] => m = n

TreeStands == Sound(at, folder, born, names)

-----------------------------------------------------------------------------
(* Rows and requests.                                                      *)

(* Rows, when k names have been drawn and it is day d.                     *)
ItemOf(k, d) == [id : Nat, name : 1..k, path : Path, day : 0..d]
Item == ItemOf(names, day)

RowsFit ==
  /\ day \in Nat /\ {calls, faults, stops} \subseteq Nat
  /\ rows \subseteq Item /\ IsFiniteSet(rows)
  /\ \A w \in rows : w.id # 0
  /\ \A w, v \in rows : w.id = v.id \/ w.name = v.name => w = v
  /\ owners \cup rules \subseteq Seq(Name)

(* The steps that go by a row they have read, or by one not written.       *)
Holding == {"r_look", "r_rename", "r_row", "u_look", "u_rename", "next", "p_open", "p_remove", "p_row"}
Copying == {"c_entry", "c_owner"}
Moving  == {"m_owner", "m_rules"}
Noting  == {"d_record", "d_clear", "r_owner"}

RequestOf(k, d) ==
  [step : {"idle"} \cup Holding \cup Copying \cup Moving \cup Noting, mode : {"one", "all", "expired"},
   from : Path \cup {<<>>}, to : Path \cup {<<>>}, item : ItemOf(k, d) \cup {NoRow},
   queue : SUBSET ItemOf(k, d), node : Int, todo : SUBSET Seq(Name),
   missed : SUBSET Seq(Name)]

(* A request v that has what its step needs, when the folders are F.       *)
Fitting(v, k, d, F) ==
  /\ v \in RequestOf(k, d)
  /\ v.step \in (Holding \ {"next"}) \cup Noting => v.item \in ItemOf(k, d)
  /\ v.step \in Copying \cup Moving => v.from \in Path /\ v.to \in Path
  /\ v.step = "d_record" => v.queue = {}
  /\ v.step \in {"d_record", "u_look", "u_rename"} => v.item.id = 0
  /\ v.step = "p_remove" => v.node \in F

RequestsFit ==
  /\ req = [r \in Request |-> req[r]]
  /\ \A r \in Request : Fitting(req[r], names, day, folder)

(* What a request knows of rows.                                           *)
HeldBy(v) == IF v.step \in Holding THEN {v.item} \cup v.queue ELSE {}
Held(r)   == HeldBy(req[r])

(* A name is of one row, ever: what is held under the name of a row is     *)
(* that row.                                                               *)
HeldIsTheRow == \A r \in Request : \A v \in Held(r), w \in rows : v.name = w.name => v = w

(* An entry without its row is known to the request that will write it.    *)
RecordsAreNew ==
  \A r \in Request : req[r].step = "d_record" =>
    /\ TrashNode(req[r].item) # Nowhere
    /\ \A w \in rows : w.name # req[r].item.name
    /\ \A q \in Request :
         /\ \A v \in Held(q) : v.name # req[r].item.name
         /\ q # r /\ req[q].step = "d_record" => req[q].item.name # req[r].item.name

(* A row without its entry is about to be deleted.                         *)
MissingIsCleared ==
  faults + stops = 0 =>
    \A w \in rows : TrashNode(w) = Nowhere =>
      \E r \in Request : req[r].step \in {"p_row", "r_row"} /\ req[r].item.id = w.id

-----------------------------------------------------------------------------
(* Copies in the making.                                                   *)

Copies(r) == req[r].step = "c_entry"

(* Every copy has a temporary tree of its own, and only copies have one    *)
(* unless the process has ended; no purge has a folder in one open.        *)
TempsStand ==
  /\ \A r \in Request : Copies(r) =>
       /\ req[r].node \in 1..born
       /\ at[req[r].node] = [in |-> Temp, as |-> req[r].node]
       /\ \A q \in Request :
            /\ q # r /\ Copies(q) => req[q].node # req[r].node
            /\ req[q].step = "p_remove" => req[q].node \notin Inside(req[r].node)
  /\ stops = 0 => \A n \in Node : at[n].in = Temp => \E r \in Request : Copies(r) /\ req[r].node = n

(* What is left to do is not done, and its folder is there.                *)
TodoIsOpen ==
  \A r \in Request : Copies(r) =>
    \A q \in req[r].todo :
      /\ q # <<>>
      /\ Walk(req[r].node, Front(q)) \in folder
      /\ Walk(req[r].node, q) = Nowhere

(* What was listed and has stayed is where it was, and is done, left to do *)
(* or missed.                                                              *)
KeptIsCopied ==
  /\ kept \in [Request -> SUBSET [rel : Seq(Name), node : Node]]
  /\ \A r \in Request : \A k \in kept[r] :
       /\ Copies(r)
       /\ k.rel # <<>> /\ Find(req[r].from \o k.rel) = k.node
       /\ k.rel \in req[r].todo \cup req[r].missed \/ Walk(req[r].node, k.rel) # Nowhere

(* The inductive invariant.                                                *)
IInv ==
  /\ TreeStands
  /\ RowsFit /\ RequestsFit
  /\ HeldIsTheRow /\ RecordsAreNew /\ MissingIsCleared
  /\ TempsStand /\ TodoIsOpen /\ KeptIsCopied

-----------------------------------------------------------------------------
(* Numbers and sets.                                                       *)

LEMMA NoneIsNoneMore ==
  ASSUME NEW f \in Nat, NEW g \in {f, f + 1}, NEW n \in Nat, g + n = 0
  PROVE  g = f
  OBVIOUS

\* A set of naturals has a least member.
LEMMA LeastMember ==
  ASSUME NEW T \in SUBSET Nat, T # {}
  PROVE  \E m \in T : \A k \in T : m <= k
<1> DEFINE R == OpToRel(<, Nat)
           N == Nat
<1>1. IsWellFoundedOn(R, N)
  BY NatLessThanWellFounded
<1>2. \A k, m \in Nat : <<k, m>> \in R <=> k < m
  BY DEF OpToRel
<1>3. T \subseteq N /\ T # {}
  OBVIOUS
<1> HIDE DEF R, N
<1>4. \E m \in T : \A k \in T : ~(<<k, m>> \in R)
  BY <1>1, <1>3, WFMin
<1> USE DEF N
<1>5. PICK m \in T : \A k \in T : ~(<<k, m>> \in R)
  BY <1>4
<1>6. ASSUME NEW k \in T PROVE m <= k
  <2>1. k \in Nat /\ m \in Nat
    OBVIOUS
  <2>2. ~(<<k, m>> \in R)
    BY <1>5
  <2>3. ~(k < m)
    BY <1>2, <2>1, <2>2
  <2> QED
    BY <2>1, <2>3
<1> QED
  BY <1>6

\* The last of the first n numbers is the one a fold takes first.
LEMMA LastOfMany ==
  ASSUME NEW n \in Nat, NEW S \in SUBSET (1..n), n \in S
  PROVE  Max(S) = n
<1>1. \A y \in S : n >= y
  OBVIOUS
<1>2. ASSUME NEW x \in S, \A y \in S : x >= y PROVE x = n
  <2>1. x \in Nat /\ x <= n /\ x >= n
    BY <1>2
  <2> QED
    BY <2>1
<1> QED
  BY <1>1, <1>2 DEF Max

-----------------------------------------------------------------------------
(* Paths. The lemmas are about a tree h, to speak of two states at once.   *)

EntryIn(h, d, x) == IF \E n \in Node : h[n] = [in |-> d, as |-> x]
                      THEN CHOOSE n \in Node : h[n] = [in |-> d, as |-> x]
                      ELSE Nowhere
WalkIn(h, d, p)  == FoldLeft(LAMBDA u, x : EntryIn(h, u, x), d, p)

\* The results of a fold over the first n names, by the sets of their places.
IsFold(G, h, d, p, n) ==
  G = [s \in SUBSET (1..n) |-> IF s = {} THEN d ELSE EntryIn(h, G[s \ {Max(s)}], p[Max(s)])]

\* A walk is that fold.
LEMMA WalkFolds ==
  ASSUME NEW h, NEW d, NEW p, NEW n, DOMAIN p = 1..n
  PROVE  \E G : G = (CHOOSE H : IsFold(H, h, d, p, n)) /\ WalkIn(h, d, p) = G[1..n]
  BY DEF WalkIn, FoldLeft, MapThenFoldSet, IsFold

\* A fold goes on to one more name.
LEMMA FoldGrows ==
  ASSUME NEW h, NEW d, NEW p, NEW n \in Nat, NEW G, IsFold(G, h, d, p, n)
  PROVE  \E H : IsFold(H, h, d, p, n + 1)
<1> DEFINE m == n + 1
           H == [s \in SUBSET (1..m) |-> IF m \notin s THEN G[s] ELSE EntryIn(h, G[s \ {m}], p[m])]
<1>1. ASSUME NEW s \in SUBSET (1..m)
      PROVE  H[s] = IF s = {} THEN d ELSE EntryIn(h, H[s \ {Max(s)}], p[Max(s)])
  <2>1. CASE m \in s
    <3>1. Max(s) = m
      BY <2>1, LastOfMany
    <3>2. s \ {m} \in SUBSET (1..m) /\ m \notin s \ {m}
      OBVIOUS
    <3>3. H[s \ {m}] = G[s \ {m}]
      BY <3>2
    <3> QED
      BY <2>1, <3>1, <3>3
  <2>2. CASE m \notin s
    <3>0. \A x \in s : x \in 1..n
      BY <2>2
    <3>1. s \in SUBSET (1..n) /\ s \ {Max(s)} \in SUBSET (1..m) /\ m \notin s \ {Max(s)}
      BY <2>2, <3>0
    <3>2. H[s] = G[s] /\ H[s \ {Max(s)}] = G[s \ {Max(s)}]
      BY <2>2, <3>1
    <3>3. G[s] = IF s = {} THEN d ELSE EntryIn(h, G[s \ {Max(s)}], p[Max(s)])
      BY <3>1 DEF IsFold
    <3> QED
      BY <3>2, <3>3
  <2> QED
    BY <2>1, <2>2
<1>2. H = [s \in SUBSET (1..m) |-> H[s]]
  OBVIOUS
<1> HIDE DEF H
<1>3. H = [s \in SUBSET (1..m) |-> IF s = {} THEN d ELSE EntryIn(h, H[s \ {Max(s)}], p[Max(s)])]
  BY <1>1, <1>2
<1> QED
  BY <1>3 DEF IsFold

\* There is a fold over any number of names.
LEMMA FoldsExist ==
  ASSUME NEW h, NEW d, NEW p, NEW n \in Nat
  PROVE  \E G : IsFold(G, h, d, p, n)
<1> DEFINE Has(k) == \E G : IsFold(G, h, d, p, k)
           T == {k \in Nat : ~Has(k)}
<1>1. Has(0)
  <2> DEFINE G == [s \in SUBSET (1..0) |-> d]
  <2>1. \A s \in SUBSET (1..0) : s = {}
    OBVIOUS
  <2>2. G = [s \in SUBSET (1..0) |-> IF s = {} THEN d ELSE EntryIn(h, G[s \ {Max(s)}], p[Max(s)])]
    BY <2>1
  <2> QED
    BY <2>2 DEF IsFold
<1>2. ASSUME NEW k \in Nat, Has(k) PROVE Has(k + 1)
  BY <1>2, FoldGrows
<1> HIDE DEF Has
<1>3. ASSUME T # {} PROVE FALSE
  <2>1. PICK m \in T : \A k \in T : m <= k
    BY <1>3, LeastMember
  <2>2. m \in Nat /\ m # 0 /\ ~Has(m)
    BY <1>1
  <2>3. m - 1 \in Nat /\ m - 1 \notin T /\ (m - 1) + 1 = m
    BY <2>1, <2>2
  <2> QED
    BY <1>2, <2>2, <2>3
<1> QED
  BY <1>3 DEF Has

\* The nodes that the first names of a path lead to.
Leads(f, h, d, p, n) == f[0] = d /\ \A i \in 1..n : f[i] = EntryIn(h, f[i - 1], p[i])

\* A walk comes to where the names lead one after another.
LEMMA WalkLeads ==
  ASSUME NEW h, NEW d, NEW p, NEW n \in Nat, DOMAIN p = 1..n
  PROVE  \E f : Leads(f, h, d, p, n) /\ WalkIn(h, d, p) = f[n]
<1>1. PICK G : IsFold(G, h, d, p, n) /\ WalkIn(h, d, p) = G[1..n]
  <2>1. PICK F : IsFold(F, h, d, p, n)
    BY FoldsExist
  <2>2. PICK G : G = (CHOOSE H : IsFold(H, h, d, p, n)) /\ WalkIn(h, d, p) = G[1..n]
    BY WalkFolds
  <2>3. IsFold(G, h, d, p, n)
    <3> DEFINE P(H) == IsFold(H, h, d, p, n)
    <3>1. P(F) /\ G = CHOOSE H : P(H)
      BY <2>1, <2>2
    <3> HIDE DEF P
    <3>2. P(G)
      BY <3>1
    <3> QED
      BY <3>2 DEF P
  <2> QED
    BY <2>2, <2>3
<1> DEFINE f == [i \in 0..n |-> G[1..i]]
<1>2. f[0] = d
  <2>1. 1..0 \in SUBSET (1..n) /\ 1..0 = {}
    OBVIOUS
  <2>2. f[0] = G[1..0]
    OBVIOUS
  <2> HIDE DEF f
  <2> QED
    BY <1>1, <2>1, <2>2 DEF IsFold
<1>3. ASSUME NEW k \in 1..n PROVE f[k] = EntryIn(h, f[k - 1], p[k])
  <2>0. k \in 1..k /\ \A i \in 1..k : i \in 1..n
    OBVIOUS
  <2>1. 1..k \in SUBSET (1..n) /\ 1..k # {}
    BY <2>0
  <2>2. Max(1..k) = k
    BY LastOfMany
  <2>3. (1..k) \ {k} = 1..(k - 1) /\ k \in 0..n /\ k - 1 \in 0..n
    OBVIOUS
  <2>4. G[1..k] = EntryIn(h, G[1..(k - 1)], p[k])
    BY <1>1, <2>1, <2>2, <2>3 DEF IsFold
  <2> QED
    BY <2>3, <2>4
<1>4. WalkIn(h, d, p) = f[n]
  BY <1>1
<1> HIDE DEF f
<1> QED
  BY <1>2, <1>3, <1>4 DEF Leads

\* They lead to one node.
LEMMA LeadsToOne ==
  ASSUME NEW h, NEW d, NEW p, NEW n \in Nat, NEW f, NEW g, Leads(f, h, d, p, n), Leads(g, h, d, p, n)
  PROVE  f[n] = g[n]
<1> DEFINE T == {k \in Nat : k <= n /\ f[k] # g[k]}
<1>1. ASSUME T # {} PROVE FALSE
  <2>1. PICK m \in T : \A k \in T : m <= k
    BY <1>1, LeastMember
  <2>2. m \in Nat /\ m <= n /\ f[m] # g[m]
    OBVIOUS
  <2>3. m # 0
    BY <2>2 DEF Leads
  <2>4. m \in 1..n /\ m - 1 \in Nat /\ m - 1 <= n /\ m - 1 \notin T
    BY <2>1, <2>2, <2>3
  <2>5. f[m - 1] = g[m - 1]
    BY <2>4
  <2> QED
    BY <2>2, <2>4, <2>5 DEF Leads
<1> QED
  BY <1>1

\* The empty path.
LEMMA WalkNowhere ==
  ASSUME NEW h, NEW d
  PROVE  WalkIn(h, d, <<>>) = d
<1>1. DOMAIN <<>> = 1..0
  OBVIOUS
<1> QED
  BY <1>1, WalkLeads DEF Leads

\* The last name of a path.
LEMMA WalkOn ==
  ASSUME NEW X, NEW h, NEW d, NEW p \in Seq(X), p # <<>>
  PROVE  /\ Front(p) \in Seq(X) /\ Len(Front(p)) = Len(p) - 1 /\ Last(p) \in X
         /\ WalkIn(h, d, p) = EntryIn(h, WalkIn(h, d, Front(p)), Last(p))
<1> DEFINE n == Len(p)
<1>1. n \in Nat /\ n # 0 /\ DOMAIN p = 1..n /\ Last(p) = p[n] /\ n \in 1..n
  BY EmptySeq DEF Last
<1>2. Front(p) \in Seq(X) /\ Len(Front(p)) = n - 1 /\ \A i \in 1..(n - 1) : Front(p)[i] = p[i]
  <2>1. \A i \in 1..(n - 1) : p[i] \in X
    BY <1>1
  <2>2. n - 1 \in Int /\ 1 \in Int
    BY <1>1
  <2>3. /\ SubSeq(p, 1, n - 1) \in Seq(X)
        /\ Len(SubSeq(p, 1, n - 1)) = IF 1 <= n - 1 THEN (n - 1) - 1 + 1 ELSE 0
        /\ \A i \in 1..((n - 1) - 1 + 1) : SubSeq(p, 1, n - 1)[i] = p[1 + i - 1]
    BY <2>1, <2>2, SubSeqProperties
  <2> QED
    BY <1>1, <2>3 DEF Front
<1>3. DOMAIN Front(p) = 1..(n - 1) /\ n - 1 \in Nat
  BY <1>1, <1>2
<1>4. PICK f : Leads(f, h, d, p, n) /\ WalkIn(h, d, p) = f[n]
  BY <1>1, WalkLeads
<1>5. PICK g : Leads(g, h, d, Front(p), n - 1) /\ WalkIn(h, d, Front(p)) = g[n - 1]
  BY <1>3, WalkLeads
<1>6. Leads(f, h, d, Front(p), n - 1)
  BY <1>1, <1>2, <1>4 DEF Leads
<1>7. f[n - 1] = g[n - 1]
  BY <1>3, <1>5, <1>6, LeadsToOne
<1>8. f[n] = EntryIn(h, f[n - 1], p[n])
  BY <1>1, <1>4 DEF Leads
<1>9. Last(p) \in X
  BY <1>1
<1> QED
  BY <1>1, <1>2, <1>4, <1>5, <1>7, <1>8, <1>9

\* What holds of the empty sequence, and of a sequence if of all but its last, holds of all.
LEMMA SeqsByFront ==
  ASSUME NEW X, NEW G \in SUBSET Seq(X), <<>> \in G,
         \A p \in Seq(X) : p # <<>> /\ Front(p) \in G => p \in G
  PROVE  \A p \in Seq(X) : p \in G
<1> DEFINE T == {n \in Nat : \E p \in Seq(X) : Len(p) = n /\ p \notin G}
<1>1. ASSUME NEW q \in Seq(X), q \notin G PROVE FALSE
  <2>1. Len(q) \in T
    BY <1>1
  <2>2. PICK m \in T : \A k \in T : m <= k
    <3>1. T \in SUBSET Nat /\ T # {}
      BY <2>1
    <3> HIDE DEF T
    <3> QED
      BY <3>1, LeastMember
  <2>3. PICK p \in Seq(X) : Len(p) = m /\ p \notin G
    OBVIOUS
  <2>4. p # <<>> /\ m \in Nat
    BY <2>3
  <2>5. Front(p) \in Seq(X) /\ Len(Front(p)) = m - 1
    BY <2>3, <2>4, WalkOn
  <2>6. Front(p) \notin G
    BY <2>3, <2>4
  <2>7. m - 1 \in T
    <3>1. m - 1 \in Nat
      BY <2>3, <2>4, EmptySeq
    <3> QED
      BY <2>5, <2>6, <3>1
  <2> QED
    BY <2>2, <2>4, <2>7
<1> QED
  BY <1>1

\* Two sequences with the same last element and the rest the same.
LEMMA SameFrontAndLast ==
  ASSUME NEW X, NEW p \in Seq(X), NEW q \in Seq(X), p # <<>>, q # <<>>,
         Front(p) = Front(q), Last(p) = Last(q)
  PROVE  p = q
<1>1. Len(p) = Len(q)
  <2>1. Len(Front(p)) = Len(p) - 1 /\ Len(Front(q)) = Len(q) - 1
    BY WalkOn
  <2>2. Len(p) \in Nat /\ Len(q) \in Nat
    OBVIOUS
  <2> QED
    BY <2>1, <2>2
<1>2. ASSUME NEW i \in 1..Len(p) PROVE p[i] = q[i]
  <2>1. CASE i = Len(p)
    BY <1>1, <2>1 DEF Last
  <2>2. CASE i # Len(p)
    <3>1. i \in 1..(Len(p) - 1)
      BY <2>2
    <3>2. Front(p)[i] = p[i] /\ Front(q)[i] = q[i]
      BY <1>1, <3>1 DEF Front
    <3> QED
      BY <3>2
  <2> QED
    BY <2>1, <2>2
<1> QED
  BY <1>1, <1>2, SeqEqual

\* One more name at the end of a path.
LEMMA OneMore ==
  ASSUME NEW X, NEW p \in Seq(X), NEW q \in Seq(X), NEW x \in X
  PROVE  /\ Append(q, x) \in Seq(X) /\ Append(q, x) # <<>>
         /\ Front(Append(q, x)) = q /\ Last(Append(q, x)) = x
         /\ p \o Append(q, x) = Append(p \o q, x)
         /\ p \o q \in Seq(X)
         /\ Front(Append(p \o q, x)) = p \o q /\ Last(Append(p \o q, x)) = x
         /\ Append(p \o q, x) # <<>> /\ Append(p \o q, x) \in Seq(X)
<1>1. ASSUME NEW s \in Seq(X)
      PROVE  /\ Append(s, x) \in Seq(X) /\ Append(s, x) # <<>> /\ Front(Append(s, x)) = s /\ Last(Append(s, x)) = x
  <2> DEFINE a == Append(s, x)
             n == Len(s)
  <2>1. a \in Seq(X) /\ Len(a) = n + 1 /\ n \in Nat /\ a[n + 1] = x /\ \A i \in 1..n : a[i] = s[i]
    OBVIOUS
  <2>2. a # <<>>
    BY <2>1, SMTT(30)
  <2>3. Last(a) = x
    BY <2>1 DEF Last
  <2> HIDE DEF a
  <2>4. Front(a) \in Seq(X) /\ Len(Front(a)) = n
    <3>1. a \in Seq(X)
      BY <2>1
    <3>2. Front(a) \in Seq(X) /\ Len(Front(a)) = Len(a) - 1
      BY <2>2, <3>1, WalkOn
    <3> QED
      BY <2>1, <3>2
  <2>5. ASSUME NEW i \in 1..n PROVE Front(a)[i] = s[i]
    BY <2>1, <2>5 DEF Front
  <2>6. Front(a) = s
    BY <2>4, <2>5, SeqEqual
  <2> QED
    BY <2>1, <2>2, <2>3, <2>6 DEF a
<1>2. p \o q \in Seq(X)
  OBVIOUS
<1>3. p \o Append(q, x) = Append(p \o q, x)
  OBVIOUS
<1> QED
  BY <1>1, <1>2, <1>3

-----------------------------------------------------------------------------
(* What a name leads to in a tree.                                         *)

Tree(h) ==
  /\ h \in [Node -> [in : Int, as : Name \cup Int]]
  /\ \A n \in Node : h[n].in = Nowhere => h[n] = Absent
  /\ \A n, m \in Node : h[n].in # Nowhere /\ h[m] = h[n] => m = n

\* Nodes are numbers, and the special places are no nodes.
LEMMA NodesAreNumbers ==
  /\ MaxNodes \in Nat /\ Node \subseteq Nat
  /\ Root \notin Node /\ Trash \notin Node /\ Temp \notin Node /\ Nowhere \notin Node
  /\ Nowhere # Root /\ Nowhere # Trash /\ Nowhere # Temp /\ Root # Trash /\ Root # Temp /\ Trash # Temp
  /\ Root \in Int /\ Trash \in Int /\ Temp \in Int /\ Nowhere \in Int
  BY NamespaceAssumption DEF Node, Root, Trash, Temp, Nowhere

\* The entry that is there, or nothing.
LEMMA EntryFound ==
  ASSUME NEW h, NEW d, NEW x
  PROVE  \/ EntryIn(h, d, x) = Nowhere /\ \A n \in Node : h[n] # [in |-> d, as |-> x]
         \/ EntryIn(h, d, x) \in Node /\ h[EntryIn(h, d, x)] = [in |-> d, as |-> x]
  BY DEF EntryIn

\* The one entry that is there.
LEMMA EntryIsIt ==
  ASSUME NEW h, Tree(h), NEW d, NEW x, d # Nowhere,
         NEW n \in Node, h[n] = [in |-> d, as |-> x]
  PROVE  EntryIn(h, d, x) = n
<1>1. h[n].in # Nowhere
  OBVIOUS
<1>2. EntryIn(h, d, x) \in Node /\ h[EntryIn(h, d, x)] = h[n]
  BY EntryFound
<1> QED
  BY <1>1, <1>2 DEF Tree

\* Nothing bears a name nowhere.
LEMMA NothingInNowhere ==
  ASSUME NEW h, Tree(h), NEW x \in Name
  PROVE  EntryIn(h, Nowhere, x) = Nowhere
<1>1. ASSUME NEW n \in Node, h[n] = [in |-> Nowhere, as |-> x] PROVE FALSE
  <2>1. h[n].in = Nowhere /\ h[n].as = x
    BY <1>1
  <2>2. h[n].as = Nowhere
    BY <2>1 DEF Tree, Absent
  <2> QED
    BY <2>1, <2>2, NamespaceAssumption DEF Name
<1> QED
  BY <1>1, EntryFound

\* A walk ends at a node, nowhere or where it began.
LEMMA WalkEnds ==
  ASSUME NEW h, Tree(h), NEW d, NEW p \in Seq(Name), p # <<>>
  PROVE  /\ WalkIn(h, d, p) \in Node \cup {Nowhere}
         /\ WalkIn(h, d, p) \in Node =>
              /\ h[WalkIn(h, d, p)] = [in |-> WalkIn(h, d, Front(p)), as |-> Last(p)]
              /\ WalkIn(h, d, Front(p)) # Nowhere
<1>1. Last(p) \in Name /\ WalkIn(h, d, p) = EntryIn(h, WalkIn(h, d, Front(p)), Last(p))
  BY WalkOn
<1>2. CASE WalkIn(h, d, Front(p)) = Nowhere
  <2>1. EntryIn(h, Nowhere, Last(p)) = Nowhere
    BY <1>1, NothingInNowhere
  <2>2. WalkIn(h, d, p) = Nowhere
    BY <1>1, <1>2, <2>1
  <2> QED
    BY <2>2, NodesAreNumbers
<1>3. CASE WalkIn(h, d, Front(p)) # Nowhere
  <2> DEFINE u == WalkIn(h, d, Front(p))
             x == Last(p)
  <2>1. \/ EntryIn(h, u, x) = Nowhere
        \/ EntryIn(h, u, x) \in Node /\ h[EntryIn(h, u, x)] = [in |-> u, as |-> x]
    BY EntryFound
  <2>2. WalkIn(h, d, p) = EntryIn(h, u, x) /\ u # Nowhere
    BY <1>1, <1>3
  <2> HIDE DEF u, x
  <2>3. /\ WalkIn(h, d, p) \in Node \cup {Nowhere}
        /\ WalkIn(h, d, p) \in Node => h[WalkIn(h, d, p)] = [in |-> u, as |-> x] /\ u # Nowhere
    BY <2>1, <2>2, NodesAreNumbers
  <2> QED
    BY <2>3 DEF u, x
<1> QED
  BY <1>2, <1>3

Closed(h, S) == \A m \in Node : h[m].in \in S => m \in S

\* A walk does not leave a set that holds what stands in its members.
LEMMA WalkStays ==
  ASSUME NEW h, Tree(h), NEW S, NEW d \in S, Closed(h, S), NEW p \in Seq(Name)
  PROVE  WalkIn(h, d, p) \in S \cup {Nowhere}
<1> DEFINE G == {q \in Seq(Name) : WalkIn(h, d, q) \in S \cup {Nowhere}}
<1>1. <<>> \in G
  BY WalkNowhere
<1>2. ASSUME NEW q \in Seq(Name), q # <<>>, Front(q) \in G PROVE q \in G
  <2>1. CASE WalkIn(h, d, q) \in Node
    <3>0. /\ h[WalkIn(h, d, q)] = [in |-> WalkIn(h, d, Front(q)), as |-> Last(q)]
          /\ WalkIn(h, d, Front(q)) # Nowhere
      <4>1. q \in Seq(Name) /\ q # <<>>
        BY <1>2
      <4> HIDE DEF G
      <4> QED
        BY <2>1, <4>1, WalkEnds
    <3>1. h[WalkIn(h, d, q)].in = WalkIn(h, d, Front(q)) /\ WalkIn(h, d, Front(q)) # Nowhere
      BY <3>0
    <3>2. WalkIn(h, d, Front(q)) \in S
      BY <1>2, <3>1
    <3> QED
      BY <2>1, <3>1, <3>2 DEF Closed
  <2>2. CASE WalkIn(h, d, q) \notin Node
    BY <1>2, <2>2, WalkEnds
  <2> QED
    BY <2>1, <2>2
<1>3. G \in SUBSET Seq(Name)
  OBVIOUS
<1> HIDE DEF G
<1>4. p \in G
  BY <1>1, <1>2, <1>3, SeqsByFront
<1> QED
  BY <1>4 DEF G

\* A walk to a node that has stayed, as has all above it, still leads there.
LEMMA WalkKept ==
  ASSUME NEW h, NEW g, Tree(h), Tree(g), NEW S \in SUBSET Node,
         \A m \in S : g[m] = h[m],
         \A m \in S : h[m].in \in Node => h[m].in \in S,
         NEW d, NEW p \in Seq(Name), WalkIn(h, d, p) \in S
  PROVE  WalkIn(g, d, p) = WalkIn(h, d, p)
<1> DEFINE G == {q \in Seq(Name) : WalkIn(h, d, q) \in S => WalkIn(g, d, q) = WalkIn(h, d, q)}
<1>1. <<>> \in G
  BY WalkNowhere
<1>2. ASSUME NEW q \in Seq(Name), q # <<>>, Front(q) \in G, WalkIn(h, d, q) \in S
      PROVE  WalkIn(g, d, q) = WalkIn(h, d, q)
  <2> DEFINE v == WalkIn(h, d, q)
             u == WalkIn(h, d, Front(q))
  <2>1. h[v] = [in |-> u, as |-> Last(q)] /\ u # Nowhere
    BY <1>2, WalkEnds
  <2>2. WalkIn(g, d, Front(q)) = u
    <3>1. CASE Front(q) = <<>>
      BY <3>1, WalkNowhere
    <3>2. CASE Front(q) # <<>>
      <4>1. Front(q) \in Seq(Name)
        BY <1>2, WalkOn
      <4>2. u \in Node
        BY <2>1, <3>2, <4>1, WalkEnds
      <4>3. u \in S
        BY <1>2, <2>1, <4>2
      <4> QED
        BY <1>2, <4>3
    <3> QED
      BY <3>1, <3>2
  <2>3. g[v] = [in |-> u, as |-> Last(q)] /\ v \in Node
    BY <1>2, <2>1
  <2>4. WalkIn(g, d, q) = EntryIn(g, u, Last(q))
    <3>1. WalkIn(g, d, q) = EntryIn(g, WalkIn(g, d, Front(q)), Last(q))
      <4>1. q \in Seq(Name) /\ q # <<>>
        BY <1>2
      <4> QED
        BY <4>1, WalkOn
    <3> QED
      BY <2>2, <3>1
  <2> QED
    BY <2>1, <2>3, <2>4, EntryIsIt
<1>3. G \in SUBSET Seq(Name)
  OBVIOUS
<1>4. ASSUME NEW q \in Seq(Name), q # <<>>, Front(q) \in G PROVE q \in G
  BY <1>2, <1>4
<1> HIDE DEF G
<1>5. p \in G
  BY <1>1, <1>3, <1>4, SeqsByFront
<1> QED
  BY <1>5 DEF G

\* The last name of a path, in two trees.
LEMMA WalksOn ==
  ASSUME NEW h, NEW g, NEW d, NEW p \in Seq(Name), p # <<>>
  PROVE  /\ WalkIn(h, d, p) = EntryIn(h, WalkIn(h, d, Front(p)), Last(p))
         /\ WalkIn(g, d, p) = EntryIn(g, WalkIn(g, d, Front(p)), Last(p))
  BY WalkOn

\* Walks are the same in a part of the tree that is.
LEMMA WalkSame ==
  ASSUME NEW h, NEW g, Tree(h), Tree(g), NEW S, NEW d \in S, Nowhere \notin S, Closed(h, S),
         \A m \in Node : h[m].in \in S \/ g[m].in \in S => g[m] = h[m],
         NEW p \in Seq(Name)
  PROVE  WalkIn(g, d, p) = WalkIn(h, d, p)
<1> DEFINE G == {q \in Seq(Name) : WalkIn(g, d, q) = WalkIn(h, d, q)}
<1>1. <<>> \in G
  BY WalkNowhere
<1>2. ASSUME NEW u \in S, NEW x \in Name PROVE EntryIn(g, u, x) = EntryIn(h, u, x)
  <2>1. \A n \in Node : g[n] = [in |-> u, as |-> x] <=> h[n] = [in |-> u, as |-> x]
    <3>1. ASSUME NEW n \in Node, g[n] = [in |-> u, as |-> x] PROVE h[n] = [in |-> u, as |-> x]
      <4>1. g[n].in = u
        BY <3>1
      <4> QED
        BY <3>1, <4>1
    <3>2. ASSUME NEW n \in Node, h[n] = [in |-> u, as |-> x] PROVE g[n] = [in |-> u, as |-> x]
      <4>1. h[n].in = u
        BY <3>2
      <4> QED
        BY <3>2, <4>1
    <3> QED
      BY <3>1, <3>2
  <2>2. u # Nowhere
    BY <1>2
  <2>3. CASE EntryIn(h, u, x) = Nowhere
    <3>1. \A n \in Node : h[n] # [in |-> u, as |-> x]
      BY <2>3, EntryFound, NodesAreNumbers
    <3>2. \A n \in Node : g[n] # [in |-> u, as |-> x]
      BY <2>1, <3>1
    <3> QED
      BY <2>3, <3>2, EntryFound
  <2>4. CASE EntryIn(h, u, x) # Nowhere
    <3>1. EntryIn(h, u, x) \in Node /\ h[EntryIn(h, u, x)] = [in |-> u, as |-> x]
      BY <2>4, EntryFound
    <3>2. g[EntryIn(h, u, x)] = [in |-> u, as |-> x]
      BY <2>1, <3>1
    <3> QED
      BY <2>2, <3>1, <3>2, EntryIsIt
  <2> QED
    BY <2>3, <2>4
<1>3. ASSUME NEW q \in Seq(Name), q # <<>>, Front(q) \in G PROVE q \in G
  <2>0. q \in Seq(Name) /\ q # <<>>
    BY <1>3
  <2>1. Front(q) \in Seq(Name) /\ Last(q) \in Name
    BY <2>0, WalkOn
  <2>2. WalkIn(h, d, Front(q)) \in S \cup {Nowhere}
    BY <2>1, WalkStays
  <2>3. /\ WalkIn(h, d, q) = EntryIn(h, WalkIn(h, d, Front(q)), Last(q))
        /\ WalkIn(g, d, q) = EntryIn(g, WalkIn(g, d, Front(q)), Last(q))
    <3> HIDE DEF G
    <3> QED
      BY <2>0, WalksOn
  <2>4. WalkIn(g, d, q) = EntryIn(g, WalkIn(h, d, Front(q)), Last(q))
    BY <1>3, <2>3
  <2>5. CASE WalkIn(h, d, Front(q)) \in S
    BY <1>2, <2>1, <2>3, <2>4, <2>5
  <2>6. CASE WalkIn(h, d, Front(q)) = Nowhere
    BY <2>1, <2>3, <2>4, <2>6, NothingInNowhere
  <2> QED
    BY <2>2, <2>5, <2>6
<1>4. G \in SUBSET Seq(Name)
  OBVIOUS
<1> HIDE DEF G
<1>5. p \in G
  BY <1>1, <1>3, <1>4, SeqsByFront
<1> QED
  BY <1>5 DEF G

\* In a tree that hangs from no node, one path leads to a node.
LEMMA OnePath ==
  ASSUME NEW h, Tree(h), NEW d \in Node, h[d].in \notin Node \cup {Nowhere},
         NEW p \in Seq(Name), NEW q \in Seq(Name),
         WalkIn(h, d, p) = WalkIn(h, d, q), WalkIn(h, d, p) # Nowhere
  PROVE  p = q
<1> DEFINE At(s) == WalkIn(h, d, s)
           G == {s \in Seq(Name) : \A t \in Seq(Name) : At(s) = At(t) /\ At(s) # Nowhere => s = t}
<1>1. ASSUME NEW s \in Seq(Name), s # <<>>, At(s) # Nowhere
      PROVE  /\ At(s) # d /\ At(s) \in Node /\ h[At(s)] = [in |-> At(Front(s)), as |-> Last(s)]
             /\ Front(s) \in Seq(Name) /\ At(Front(s)) # Nowhere
  <2>1. At(s) \in Node /\ h[At(s)] = [in |-> At(Front(s)), as |-> Last(s)] /\ At(Front(s)) # Nowhere
    BY <1>1, WalkEnds
  <2>2. Front(s) \in Seq(Name)
    BY <1>1, WalkOn
  <2>3. At(Front(s)) \in Node
    <3>1. CASE Front(s) = <<>>
      BY <3>1, WalkNowhere
    <3>2. CASE Front(s) # <<>>
      BY <2>1, <2>2, <3>2, WalkEnds
    <3> QED
      BY <3>1, <3>2
  <2>4. h[At(s)].in \in Node
    BY <2>1, <2>3
  <2>5. At(s) # d
    BY <2>4
  <2> QED
    BY <2>1, <2>2, <2>5
<1>2. At(<<>>) = d
  BY WalkNowhere
<1> HIDE DEF At
<1>3. <<>> \in G
  <2>1. ASSUME NEW t \in Seq(Name), At(<<>>) = At(t), At(<<>>) # Nowhere PROVE <<>> = t
    BY <1>1, <1>2, <2>1
  <2> QED
    BY <2>1
<1>4. ASSUME NEW s \in Seq(Name), s # <<>>, Front(s) \in G PROVE s \in G
  <2>1. ASSUME NEW t \in Seq(Name), At(s) = At(t), At(s) # Nowhere PROVE s = t
    <3>1. t # <<>>
      BY <1>1, <1>2, <1>4, <2>1
    <3>2. [in |-> At(Front(s)), as |-> Last(s)] = [in |-> At(Front(t)), as |-> Last(t)]
      BY <1>1, <1>4, <2>1, <3>1
    <3>3. At(Front(s)) = At(Front(t)) /\ Last(s) = Last(t)
      BY <3>2
    <3>4. Front(t) \in Seq(Name) /\ At(Front(s)) # Nowhere
      BY <1>1, <1>4, <2>1, <3>1
    <3>5. Front(s) = Front(t)
      BY <1>4, <3>3, <3>4
    <3> QED
      BY <1>4, <3>1, <3>3, <3>5, SameFrontAndLast
  <2> QED
    BY <2>1
<1>5. G \in SUBSET Seq(Name)
  OBVIOUS
<1>6. p \in G
  <2> HIDE DEF G
  <2> QED
    BY <1>3, <1>4, <1>5, SeqsByFront
<1> QED
  BY <1>6 DEF At

-----------------------------------------------------------------------------
(* Subtrees.                                                               *)

\* The nodes in every closed set that holds S.
Least(h, S) == {m \in Node : \A C \in SUBSET Node : S \subseteq C /\ Closed(h, C) => m \in C}
InsideIn(h, n) == Least(h, {n})

\* They are themselves such a set.
LEMMA LeastHolds ==
  ASSUME NEW h, NEW S \in SUBSET Node
  PROVE  /\ Least(h, S) \in SUBSET Node /\ S \subseteq Least(h, S) /\ Closed(h, Least(h, S))
         /\ \A C \in SUBSET Node : S \subseteq C /\ Closed(h, C) => Least(h, S) \subseteq C
<1>1. Least(h, S) \in SUBSET Node /\ S \subseteq Least(h, S)
  BY DEF Least
<1>2. \A C \in SUBSET Node : S \subseteq C /\ Closed(h, C) => Least(h, S) \subseteq C
  BY DEF Least
<1>3. ASSUME NEW m \in Node, h[m].in \in Least(h, S) PROVE m \in Least(h, S)
  <2>1. ASSUME NEW C \in SUBSET Node, S \subseteq C, Closed(h, C) PROVE m \in C
    <3>1. h[m].in \in C
      BY <1>2, <1>3, <2>1
    <3> QED
      BY <2>1, <3>1 DEF Closed
  <2> QED
    BY <2>1 DEF Least
<1> QED
  BY <1>1, <1>2, <1>3 DEF Closed

More(h, S) == S \cup {m \in Node : h[m].in \in S}
IsBeneath(f, h) == f = [S \in SUBSET Node |-> IF More(h, S) = S THEN S ELSE f[More(h, S)]]

\* The recursion has a solution.
LEMMA LeastIsBeneath ==
  ASSUME NEW h
  PROVE  IsBeneath([S \in SUBSET Node |-> Least(h, S)], h)
<1> DEFINE f == [S \in SUBSET Node |-> Least(h, S)]
<1>1. ASSUME NEW S \in SUBSET Node PROVE f[S] = IF More(h, S) = S THEN S ELSE f[More(h, S)]
  <2>1. More(h, S) \in SUBSET Node /\ S \subseteq More(h, S)
    BY DEF More
  <2>2. CASE More(h, S) = S
    <3>1. Closed(h, S)
      BY <2>2 DEF More, Closed
    <3>2. Least(h, S) \subseteq S /\ S \subseteq Least(h, S)
      BY <3>1, LeastHolds
    <3> QED
      BY <2>2, <3>2
  <2>3. CASE More(h, S) # S
    <3>1. \A C \in SUBSET Node : Closed(h, C) => (S \subseteq C <=> More(h, S) \subseteq C)
      BY DEF Closed, More
    <3>2. Least(h, S) = Least(h, More(h, S))
      BY <3>1 DEF Least
    <3> QED
      BY <2>1, <2>3, <3>2
  <2> QED
    BY <2>2, <2>3
<1>2. f = [S \in SUBSET Node |-> f[S]]
  OBVIOUS
<1> HIDE DEF f
<1>3. f = [S \in SUBSET Node |-> IF More(h, S) = S THEN S ELSE f[More(h, S)]]
  BY <1>1, <1>2
<1>4. IsBeneath(f, h)
  BY <1>3 DEF IsBeneath
<1> QED
  BY <1>4 DEF f

\* It has no other, since the sets grow and the nodes are finitely many.
LEMMA BeneathIsLeast ==
  ASSUME NEW h, NEW f, IsBeneath(f, h)
  PROVE  \A S \in SUBSET Node : f[S] = Least(h, S)
<1> DEFINE Rest(S) == Node \ S
           T == {S \in SUBSET Node : f[S] # Least(h, S)}
           U == {Rest(S) : S \in T}
           R == StrictSubsetOrdering(Node)
<1>1. IsFiniteSet(Node)
  BY FS_Interval, NamespaceAssumption DEF Node
<1>2. IsWellFoundedOn(R, SUBSET Node)
  BY <1>1, FS_FiniteSubsetsOfFinite, FS_StrictSubsetOrderingWellFounded
<1>3. ASSUME T # {} PROVE FALSE
  <2>1. U \subseteq SUBSET Node /\ U # {}
    BY <1>3
  <2>2. \E x \in U : \A y \in U : <<y, x>> \notin R
    <3> HIDE DEF U, R
    <3> QED
      BY <1>2, <2>1, WFMin
  <2>3. PICK S \in T : \A C \in T : <<Rest(C), Rest(S)>> \notin R
    <3> HIDE DEF R, Rest, T
    <3> QED
      BY <2>2
  <2>4. S \in SUBSET Node /\ f[S] # Least(h, S)
    OBVIOUS
  <2>5. More(h, S) \in SUBSET Node /\ S \subseteq More(h, S)
    BY <2>4 DEF More
  <2>6. f[S] = IF More(h, S) = S THEN S ELSE f[More(h, S)]
    BY <2>4 DEF IsBeneath
  <2>7. Least(h, S) = IF More(h, S) = S THEN S ELSE Least(h, More(h, S))
    <3> DEFINE g == [C \in SUBSET Node |-> Least(h, C)]
    <3>1. \A C \in SUBSET Node : g[C] = Least(h, C)
      OBVIOUS
    <3>2. IsBeneath(g, h)
      BY LeastIsBeneath
    <3> HIDE DEF g
    <3>3. g[S] = IF More(h, S) = S THEN S ELSE g[More(h, S)]
      BY <2>4, <3>2 DEF IsBeneath
    <3> QED
      BY <2>4, <2>5, <3>1, <3>3
  <2>8. More(h, S) # S /\ More(h, S) \in T
    BY <2>4, <2>5, <2>6, <2>7
  <2>9. Rest(More(h, S)) \subseteq Rest(S) /\ Rest(More(h, S)) # Rest(S)
    <3>1. PICK m \in More(h, S) : m \notin S
      BY <2>5, <2>8
    <3> QED
      BY <2>5, <3>1
  <2>10. <<Rest(More(h, S)), Rest(S)>> \in R
    <3>1. Rest(More(h, S)) \in SUBSET Node /\ Rest(S) \in SUBSET Node
      OBVIOUS
    <3> HIDE DEF Rest
    <3> QED
      BY <2>9, <3>1 DEF StrictSubsetOrdering
  <2> HIDE DEF T, R, Rest
  <2> QED
    BY <2>3, <2>8, <2>10
<1> QED
  BY <1>3

\* What Inside computes.
LEMMA InsideIs ==
  /\ \A n \in Node : Inside(n) = InsideIn(at, n)
  /\ \A n \in Node : Beneath'[{n}] = InsideIn(at', n)
<1>1. Beneath = CHOOSE f : IsBeneath(f, at)
  BY DEF Beneath, IsBeneath, More
<1>2. Beneath' = CHOOSE f : IsBeneath(f, at')
  BY DEF Beneath, IsBeneath, More
<1>3. ASSUME NEW h, NEW f, f = CHOOSE g : IsBeneath(g, h) PROVE IsBeneath(f, h)
  <2> DEFINE P(g) == IsBeneath(g, h)
  <2>1. P([S \in SUBSET Node |-> Least(h, S)]) /\ f = CHOOSE g : P(g)
    BY <1>3, LeastIsBeneath
  <2> HIDE DEF P
  <2>2. P(f)
    BY <2>1
  <2> QED
    BY <2>2 DEF P
<1>4. IsBeneath(Beneath, at) /\ IsBeneath(Beneath', at')
  BY <1>1, <1>2, <1>3
<1>5. \A n \in Node : {n} \in SUBSET Node
  OBVIOUS
<1> QED
  BY <1>4, <1>5, BeneathIsLeast DEF Inside, InsideIn

\* What Walk computes.
LEMMA WalkIs ==
  /\ \A d, p : Walk(d, p) = WalkIn(at, d, p)
  /\ \A d, p : Walk(d, p)' = WalkIn(at', d, p)
  BY DEF Walk, WalkIn, Entry, EntryIn, FoldLeft, MapThenFoldSet

\* A subtree holds its top, and what stands in its nodes, and no more.
LEMMA InsideHolds ==
  ASSUME NEW h, NEW n \in Node
  PROVE  /\ InsideIn(h, n) \in SUBSET Node /\ n \in InsideIn(h, n) /\ Closed(h, InsideIn(h, n))
         /\ \A C \in SUBSET Node : n \in C /\ Closed(h, C) => InsideIn(h, n) \subseteq C
         /\ \A m \in InsideIn(h, n) : m # n => h[m].in \in InsideIn(h, n)
<1>1. /\ InsideIn(h, n) \in SUBSET Node /\ n \in InsideIn(h, n) /\ Closed(h, InsideIn(h, n))
      /\ \A C \in SUBSET Node : n \in C /\ Closed(h, C) => InsideIn(h, n) \subseteq C
  BY LeastHolds DEF InsideIn
<1>2. ASSUME NEW m \in InsideIn(h, n), m # n, h[m].in \notin InsideIn(h, n) PROVE FALSE
  <2> DEFINE C == InsideIn(h, n) \ {m}
  <2>1. C \in SUBSET Node /\ n \in C /\ Closed(h, C)
    BY <1>1, <1>2 DEF Closed
  <2>2. InsideIn(h, n) \subseteq C
    BY <1>1, <2>1
  <2> QED
    BY <2>2
<1> QED
  BY <1>1, <1>2

-----------------------------------------------------------------------------
(* What the file operations make of a sound tree.                          *)

LEMMA SoundIsTree ==
  ASSUME NEW h, NEW F, NEW b, NEW k, Sound(h, F, b, k)
  PROVE  /\ Tree(h) /\ F \subseteq Node /\ b \in Nat /\ k \in Nat
         /\ h \in [Node -> [in : {Root, Trash, Temp, Nowhere} \cup F, as : Name \cup Int]]
<1>1. b \in Nat /\ 1..b \subseteq Node /\ MaxNodes \in Nat /\ k \in Nat
  BY NamespaceAssumption DEF Sound, Node
<1>2. F \subseteq Node /\ Node \subseteq Int
  BY <1>1, NodesAreNumbers DEF Sound
<1>3. {Root, Trash, Temp, Nowhere} \cup F \subseteq Int
  BY <1>2, NodesAreNumbers
<1>4. h \in [Node -> [in : {Root, Trash, Temp, Nowhere} \cup F, as : Name \cup Int]]
  BY DEF Sound
<1>5. h \in [Node -> [in : Int, as : Name \cup Int]]
  BY <1>3, <1>4
<1>6. Tree(h)
  BY <1>5 DEF Tree, Sound
<1> QED
  BY <1>1, <1>2, <1>4, <1>6

\* A node comes to another place, and the one that was there goes.
Placed(h, n, d, x) ==
  [m \in Node |-> IF m = n THEN [in |-> d, as |-> x] ELSE IF m = EntryIn(h, d, x) THEN Absent ELSE h[m]]

LEMMA PlacedIsSound ==
  ASSUME NEW h, NEW F, NEW b, NEW k, NEW l, Sound(h, F, b, k), l \in Nat, k <= l,
         NEW n \in Node, h[n].in # Nowhere,
         NEW d \in {Root, Trash} \cup F, d \in Node => h[d].in # Nowhere, d # n,
         NEW x, d \in Node \cup {Root} => x \in Name, d = Trash => x \in 1..l,
         EntryIn(h, d, x) \in Node =>
           EntryIn(h, d, x) # n /\ \A m \in Node : h[m].in # EntryIn(h, d, x)
  PROVE  Sound(Placed(h, n, d, x), F, b, l)
<1> DEFINE e == EntryIn(h, d, x)
           g == Placed(h, n, d, x)
<1>0. /\ Tree(h) /\ F \subseteq Node /\ b \in Nat /\ k \in Nat
      /\ h \in [Node -> [in : {Root, Trash, Temp, Nowhere} \cup F, as : Name \cup Int]]
  BY SoundIsTree
<1>1. /\ g = [m \in Node |-> g[m]]
      /\ g[n] = [in |-> d, as |-> x]
      /\ \A m \in Node : m # n => g[m] = IF m = e THEN Absent ELSE h[m]
  BY DEF Placed
<1>2. \/ e = Nowhere /\ \A m \in Node : h[m] # [in |-> d, as |-> x]
      \/ e \in Node /\ e # n /\ h[e] = [in |-> d, as |-> x] /\ \A m \in Node : h[m].in # e
  BY EntryFound
<1>3. d # Nowhere /\ d # Temp
  BY <1>0, NodesAreNumbers
<1>4. x \in Name \cup Int
  BY <1>0, NodesAreNumbers
<1> HIDE DEF g, e
<1>5. g \in [Node -> [in : {Root, Trash, Temp, Nowhere} \cup F, as : Name \cup Int]]
  <2>1. ASSUME NEW m \in Node PROVE g[m] \in [in : {Root, Trash, Temp, Nowhere} \cup F, as : Name \cup Int]
    <3>1. Absent \in [in : {Root, Trash, Temp, Nowhere} \cup F, as : Name \cup Int]
      BY NodesAreNumbers DEF Absent
    <3>2. [in |-> d, as |-> x] \in [in : {Root, Trash, Temp, Nowhere} \cup F, as : Name \cup Int]
      BY <1>4
    <3> QED
      BY <1>0, <1>1, <3>1, <3>2
  <2> QED
    BY <1>1, <2>1
<1>6. n <= b
  BY <1>0, NodesAreNumbers DEF Sound
<1>7. d \in Node => d # e
  <2>1. ASSUME d \in Node, d = e PROVE FALSE
    <3>1. h[e].in = e /\ e \in Node
      BY <1>2, <2>1, NodesAreNumbers
    <3> QED
      BY <3>1 DEF Sound
  <2> QED
    BY <2>1
<1>8. ASSUME NEW m \in Node
      PROVE  /\ g[m].in = Nowhere => g[m] = Absent
             /\ g[m].in \in Node \cup {Root} => g[m].as \in Name
             /\ g[m].in = Trash => g[m].as \in 1..l
             /\ g[m].in = Temp => g[m].as = m
             /\ g[m].in \in Node => g[g[m].in].in # Nowhere /\ g[m].in # m
             /\ m > b => g[m].in = Nowhere
  <2>1. CASE m = n
    <3>1. g[m].in = d /\ g[m].as = x
      BY <1>1, <2>1
    <3>2. d \in Node => g[d] = h[d]
      BY <1>1, <1>7
    <3> QED
      BY <1>3, <1>6, <2>1, <3>1, <3>2, <1>0, NodesAreNumbers
  <2>2. CASE m # n /\ m = e
    <3>1. g[m] = Absent
      BY <1>1, <2>2
    <3>2. g[m].in = Nowhere
      BY <3>1 DEF Absent
    <3> QED
      BY <3>1, <3>2, NodesAreNumbers
  <2>3. CASE m # n /\ m # e
    <3>1. g[m] = h[m]
      BY <1>1, <2>3
    <3>2. /\ h[m].in = Nowhere => h[m] = Absent
          /\ h[m].in \in Node \cup {Root} => h[m].as \in Name
          /\ h[m].in = Trash => h[m].as \in 1..k
          /\ h[m].in = Temp => h[m].as = m
          /\ h[m].in \in Node => h[h[m].in].in # Nowhere /\ h[m].in # m
          /\ m > b => h[m].in = Nowhere
      BY DEF Sound
    <3>3. \A i \in 1..k : i \in 1..l
      BY <1>0
    <3>4. h[m].in \in Node => h[m].in # e
      BY <1>2, NodesAreNumbers
    <3>5. h[m].in \in Node => g[h[m].in].in # Nowhere
      BY <1>1, <1>3, <3>2, <3>4
    <3> QED
      BY <3>1, <3>2, <3>3, <3>5
  <2> QED
    BY <2>1, <2>2, <2>3
<1>9. ASSUME NEW i \in Node, NEW m \in Node, g[i].in # Nowhere, g[m] = g[i] PROVE m = i
  <2>0. i # e /\ m # e
    BY <1>1, <1>2, <1>9, NodesAreNumbers DEF Absent
  <2>1. ASSUME NEW j \in Node, j # n, j # e, g[j] = g[n] PROVE FALSE
    <3>1. h[j] = [in |-> d, as |-> x]
      BY <1>1, <2>1
    <3>2. e \in Node /\ h[e] = h[j] /\ h[j].in # Nowhere
      BY <1>2, <1>3, <3>1
    <3> QED
      BY <2>1, <3>2 DEF Sound
  <2>2. CASE i # n /\ m # n
    <3>1. h[m] = h[i] /\ h[i].in # Nowhere
      BY <1>1, <1>9, <2>0, <2>2
    <3> QED
      BY <3>1 DEF Sound
  <2> QED
    BY <1>9, <2>0, <2>1, <2>2
<1>10. Sound(g, F, b, l)
  BY <1>5, <1>8, <1>9 DEF Sound
<1> QED
  BY <1>10 DEF g

\* A new node in a folder.
LEMMA GrownIsSound ==
  ASSUME NEW h, NEW F, NEW b, NEW k, Sound(h, F, b, k),
         b + 1 \in Node, NEW d \in {Root, Temp} \cup F, d \in Node => h[d].in # Nowhere,
         NEW x, d \in Node \cup {Root} => x \in Name, d = Temp => x = b + 1,
         EntryIn(h, d, x) = Nowhere,
         NEW G, F \subseteq G, G \subseteq F \cup {b + 1}
  PROVE  Sound([h EXCEPT ![b + 1] = [in |-> d, as |-> x]], G, b + 1, k)
<1> DEFINE t == b + 1
           g == [h EXCEPT ![t] = [in |-> d, as |-> x]]
<1>0. /\ Tree(h) /\ F \subseteq Node /\ b \in Nat /\ k \in Nat
      /\ h \in [Node -> [in : {Root, Trash, Temp, Nowhere} \cup F, as : Name \cup Int]]
  BY SoundIsTree
<1>1. /\ g = [m \in Node |-> g[m]]
      /\ g[t] = [in |-> d, as |-> x]
      /\ \A m \in Node : m # t => g[m] = h[m]
  BY <1>0
<1>2. \A m \in Node : h[m] # [in |-> d, as |-> x]
  BY EntryFound, NodesAreNumbers
<1>3. d # Nowhere /\ d # Trash
  BY <1>0, NodesAreNumbers
<1>4. x \in Name \cup Int
  BY <1>0, NodesAreNumbers
<1>5. t > b /\ h[t].in = Nowhere /\ t \in 0..MaxNodes /\ t \in Int
  BY <1>0, NodesAreNumbers DEF Sound, Node
<1>6. G \subseteq 1..t /\ F \subseteq 1..b
  BY <1>0, <1>5 DEF Sound
<1>7. d # t
  BY <1>0, <1>5, <1>6, NodesAreNumbers
<1> HIDE DEF g, t
<1>8. g \in [Node -> [in : {Root, Trash, Temp, Nowhere} \cup G, as : Name \cup Int]]
  <2>1. ASSUME NEW m \in Node PROVE g[m] \in [in : {Root, Trash, Temp, Nowhere} \cup G, as : Name \cup Int]
    <3>1. [in |-> d, as |-> x] \in [in : {Root, Trash, Temp, Nowhere} \cup G, as : Name \cup Int]
      BY <1>4
    <3>2. h[m] \in [in : {Root, Trash, Temp, Nowhere} \cup F, as : Name \cup Int]
      BY <1>0
    <3>3. h[m] \in [in : {Root, Trash, Temp, Nowhere} \cup G, as : Name \cup Int]
      BY <3>2
    <3> QED
      BY <1>1, <3>1, <3>3
  <2> QED
    BY <1>1, <2>1
<1>9. ASSUME NEW m \in Node
      PROVE  /\ g[m].in = Nowhere => g[m] = Absent
             /\ g[m].in \in Node \cup {Root} => g[m].as \in Name
             /\ g[m].in = Trash => g[m].as \in 1..k
             /\ g[m].in = Temp => g[m].as = m
             /\ g[m].in \in Node => g[g[m].in].in # Nowhere /\ g[m].in # m
             /\ m > t => g[m].in = Nowhere
  <2>1. CASE m = t
    <3>1. g[m].in = d /\ g[m].as = x
      BY <1>1, <2>1
    <3>2. d \in Node => g[d] = h[d]
      BY <1>1, <1>7
    <3> QED
      BY <1>3, <1>5, <1>7, <2>1, <3>1, <3>2, NodesAreNumbers DEF t
  <2>2. CASE m # t
    <3>1. g[m] = h[m]
      BY <1>1, <2>2
    <3>2. /\ h[m].in = Nowhere => h[m] = Absent
          /\ h[m].in \in Node \cup {Root} => h[m].as \in Name
          /\ h[m].in = Trash => h[m].as \in 1..k
          /\ h[m].in = Temp => h[m].as = m
          /\ h[m].in \in Node => h[h[m].in].in # Nowhere /\ h[m].in # m
          /\ m > b => h[m].in = Nowhere
      BY DEF Sound
    <3>3. m > t => m > b
      BY <1>0, <1>5, NodesAreNumbers
    <3>4. h[m].in \in Node => g[h[m].in].in # Nowhere
      BY <1>1, <1>3, <3>2
    <3> QED
      BY <3>1, <3>2, <3>3, <3>4
  <2> QED
    BY <2>1, <2>2
<1>10. ASSUME NEW i \in Node, NEW m \in Node, g[i].in # Nowhere, g[m] = g[i] PROVE m = i
  <2>1. CASE i # t /\ m # t
    <3>1. h[m] = h[i] /\ h[i].in # Nowhere
      BY <1>1, <1>10, <2>1
    <3> QED
      BY <3>1 DEF Sound
  <2>2. CASE i = t \/ m = t
    BY <1>1, <1>2, <1>10, <2>2
  <2> QED
    BY <2>1, <2>2
<1>11. t = b + 1 /\ t \in 0..MaxNodes /\ k \in Nat
  BY <1>0, <1>5 DEF t
<1>12. Sound(g, G, t, k)
  BY <1>6, <1>8, <1>9, <1>10, <1>11 DEF Sound
<1> QED
  BY <1>12 DEF g, t

\* Some nodes are taken away, with all beneath them.
Unlinked(h, gone) == [m \in Node |-> IF m \in gone THEN Absent ELSE h[m]]

LEMMA UnlinkedIsSound ==
  ASSUME NEW h, NEW F, NEW b, NEW k, Sound(h, F, b, k),
         NEW gone, \A m \in Node : h[m].in \in Node /\ h[m].in \in gone => m \in gone
  PROVE  Sound(Unlinked(h, gone), F, b, k)
<1> DEFINE g == Unlinked(h, gone)
<1>0. /\ Tree(h) /\ F \subseteq Node /\ b \in Nat /\ k \in Nat
      /\ h \in [Node -> [in : {Root, Trash, Temp, Nowhere} \cup F, as : Name \cup Int]]
  BY SoundIsTree
<1>1. /\ g = [m \in Node |-> g[m]]
      /\ \A m \in Node : g[m] = IF m \in gone THEN Absent ELSE h[m]
  BY DEF Unlinked
<1>2. Absent.in = Nowhere
  BY DEF Absent
<1> HIDE DEF g
<1>3. g \in [Node -> [in : {Root, Trash, Temp, Nowhere} \cup F, as : Name \cup Int]]
  <2>1. Absent \in [in : {Root, Trash, Temp, Nowhere} \cup F, as : Name \cup Int]
    BY NodesAreNumbers DEF Absent
  <2> QED
    BY <1>0, <1>1, <2>1
<1>4. ASSUME NEW m \in Node
      PROVE  /\ g[m].in = Nowhere => g[m] = Absent
             /\ g[m].in \in Node \cup {Root} => g[m].as \in Name
             /\ g[m].in = Trash => g[m].as \in 1..k
             /\ g[m].in = Temp => g[m].as = m
             /\ g[m].in \in Node => g[g[m].in].in # Nowhere /\ g[m].in # m
             /\ m > b => g[m].in = Nowhere
  <2>1. CASE m \in gone
    BY <1>1, <1>2, <2>1, NodesAreNumbers
  <2>2. CASE m \notin gone
    <3>1. g[m] = h[m] /\ (h[m].in \in Node => h[m].in \notin gone)
      BY <1>1, <2>2
    <3>2. h[m].in \in Node => g[h[m].in] = h[h[m].in]
      BY <1>1, <3>1
    <3> QED
      BY <3>1, <3>2 DEF Sound
  <2> QED
    BY <2>1, <2>2
<1>5. ASSUME NEW i \in Node, NEW m \in Node, g[i].in # Nowhere, g[m] = g[i] PROVE m = i
  <2>1. i \notin gone /\ m \notin gone
    BY <1>1, <1>2, <1>5
  <2>2. h[m] = h[i] /\ h[i].in # Nowhere
    BY <1>1, <1>5, <2>1
  <2> QED
    BY <2>2 DEF Sound
<1>6. Sound(g, F, b, k)
  BY <1>3, <1>4, <1>5 DEF Sound
<1> QED
  BY <1>6 DEF g

-----------------------------------------------------------------------------
(* What a change leaves of a temporary tree, and of the way to a node.     *)

\* No node of the subtree of t changes, comes or goes.
Apart(h, g, t) ==
  \A m \in Node : m \in InsideIn(h, t) \/ g[m].in \in InsideIn(h, t) => g[m] = h[m]

LEMMA ApartKeeps ==
  ASSUME NEW h, NEW g, Tree(h), Tree(g), NEW t \in Node, Apart(h, g, t)
  PROVE  /\ g[t] = h[t]
         /\ InsideIn(g, t) \subseteq InsideIn(h, t)
         /\ \A q \in Seq(Name) : WalkIn(g, t, q) = WalkIn(h, t, q)
<1> DEFINE I == InsideIn(h, t)
<1>1. I \in SUBSET Node /\ t \in I /\ Closed(h, I)
  BY InsideHolds
<1>2. g[t] = h[t]
  BY <1>1 DEF Apart
<1>3. Closed(g, I)
  BY <1>1 DEF Apart, Closed
<1>4. InsideIn(g, t) \subseteq I
  BY <1>1, <1>3, InsideHolds
<1>5. Nowhere \notin I
  BY <1>1, NodesAreNumbers
<1>6. \A m \in Node : h[m].in \in I \/ g[m].in \in I => g[m] = h[m]
  BY <1>1 DEF Apart, Closed
<1>7. ASSUME NEW q \in Seq(Name) PROVE WalkIn(g, t, q) = WalkIn(h, t, q)
  <2> HIDE DEF I
  <2> QED
    BY <1>1, <1>5, <1>6, WalkSame
<1> QED
  BY <1>2, <1>4, <1>7

\* Nothing under the root or in the trash is in a temporary tree.
LEMMA TempsAreAway ==
  ASSUME NEW h, Tree(h), NEW t \in Node, h[t].in = Temp
  PROVE  /\ \A p \in Seq(Name) : WalkIn(h, Root, p) \notin InsideIn(h, t)
         /\ \A n \in Node : h[n].in = Trash => n \notin InsideIn(h, t)
         /\ \A n \in Node : n \notin InsideIn(h, t) => InsideIn(h, n) \cap InsideIn(h, t) = {}
         /\ \A d \in (Node \cup {Root, Trash}) \ InsideIn(h, t) : \A x : EntryIn(h, d, x) \notin InsideIn(h, t)
<1> DEFINE I == InsideIn(h, t)
           A == (Node \cup {Root, Trash}) \ I
<1>1. I \in SUBSET Node /\ t \in I /\ Closed(h, I) /\ \A m \in I : m # t => h[m].in \in I
  BY InsideHolds
<1> HIDE DEF I
<1>2. Temp \notin A /\ Root \in A /\ Trash \in A /\ Nowhere \notin I
  BY <1>1, NodesAreNumbers
<1>3. Closed(h, A)
  <2>1. ASSUME NEW m \in Node, h[m].in \in A, m \in I PROVE FALSE
    <3>1. m # t
      BY <1>2, <2>1
    <3>2. h[m].in \in I
      BY <1>1, <2>1, <3>1
    <3> QED
      BY <2>1, <3>2
  <2> QED
    BY <2>1 DEF Closed
<1>4. ASSUME NEW p \in Seq(Name) PROVE WalkIn(h, Root, p) \notin I
  <2>1. WalkIn(h, Root, p) \in A \cup {Nowhere}
    <3> HIDE DEF A
    <3> QED
      BY <1>2, <1>3, WalkStays
  <2> QED
    BY <1>2, <2>1
<1>5. \A n \in Node : h[n].in = Trash => n \notin I
  BY <1>2, <1>3 DEF Closed
<1>6. ASSUME NEW n \in Node, n \notin I PROVE InsideIn(h, n) \cap I = {}
  <2>1. Closed(h, Node \ I)
    BY <1>3 DEF Closed
  <2>2. InsideIn(h, n) \subseteq Node \ I
    BY <1>6, <2>1, InsideHolds
  <2> QED
    BY <2>2
<1>7. ASSUME NEW d \in A, NEW x PROVE EntryIn(h, d, x) \notin I
  <2>1. CASE EntryIn(h, d, x) = Nowhere
    BY <1>2, <2>1
  <2>2. CASE EntryIn(h, d, x) # Nowhere
    <3>0. EntryIn(h, d, x) \in Node /\ h[EntryIn(h, d, x)] = [in |-> d, as |-> x]
      BY <2>2, EntryFound
    <3>1. EntryIn(h, d, x) \in Node /\ h[EntryIn(h, d, x)].in = d
      BY <3>0
    <3> QED
      BY <1>3, <3>1 DEF Closed
  <2> QED
    BY <2>1, <2>2
<1> QED
  BY <1>4, <1>5, <1>6, <1>7 DEF I

\* A node that is placed leaves a temporary tree alone that it neither is in nor comes to.
LEMMA PlacedIsApart ==
  ASSUME NEW h, Tree(h), NEW t \in Node, h[t].in = Temp,
         NEW n \in Node, n \notin InsideIn(h, t),
         NEW d \in (Node \cup {Root, Trash}) \ InsideIn(h, t), NEW x
  PROVE  Apart(h, Placed(h, n, d, x), t)
<1> DEFINE g == Placed(h, n, d, x)
           e == EntryIn(h, d, x)
<1>1. InsideIn(h, t) \in SUBSET Node
  BY InsideHolds
<1>2. e \notin InsideIn(h, t)
  BY TempsAreAway
<1>3. \A m \in Node : g[m] = IF m = n THEN [in |-> d, as |-> x] ELSE IF m = e THEN Absent ELSE h[m]
  BY DEF Placed
<1>4. Absent.in \notin InsideIn(h, t)
  BY <1>1, NodesAreNumbers DEF Absent
<1> HIDE DEF g, e
<1>5. ASSUME NEW m \in Node, m \in InsideIn(h, t) \/ g[m].in \in InsideIn(h, t) PROVE g[m] = h[m]
  <2>1. m # n
    <3>1. ASSUME m = n PROVE FALSE
      <4>1. g[m].in = d
        BY <1>3, <3>1
      <4> QED
        BY <1>5, <3>1, <4>1
    <3> QED
      BY <3>1
  <2>2. m # e
    BY <1>2, <1>3, <1>4, <1>5, <2>1
  <2> QED
    BY <1>3, <2>1, <2>2
<1> QED
  BY <1>5 DEF Apart, g

\* So does a new one.
LEMMA GrownIsApart ==
  ASSUME NEW h, Tree(h), NEW t \in Node, h[t].in = Temp,
         NEW n \in Node, h[n].in = Nowhere, NEW d, d \notin InsideIn(h, t), NEW x
  PROVE  Apart(h, [h EXCEPT ![n] = [in |-> d, as |-> x]], t)
<1> DEFINE g == [h EXCEPT ![n] = [in |-> d, as |-> x]]
<1>1. \A m \in Node : g[m] = IF m = n THEN [in |-> d, as |-> x] ELSE h[m]
  BY DEF Tree
<1>2. InsideIn(h, t) \in SUBSET Node /\ \A m \in InsideIn(h, t) : m # t => h[m].in \in InsideIn(h, t)
  BY InsideHolds
<1>3. n \notin InsideIn(h, t)
  BY <1>2, NodesAreNumbers
<1> HIDE DEF g
<1>4. ASSUME NEW m \in Node, m \in InsideIn(h, t) \/ g[m].in \in InsideIn(h, t) PROVE g[m] = h[m]
  <2>1. ASSUME m = n PROVE FALSE
    <3>1. g[m].in = d
      BY <1>1, <2>1
    <3> QED
      BY <1>3, <1>4, <2>1, <3>1
  <2> QED
    BY <1>1, <2>1
<1> QED
  BY <1>4 DEF Apart, g

\* So does taking away what is not in it.
LEMMA UnlinkedIsApart ==
  ASSUME NEW h, Tree(h), NEW t \in Node, NEW gone, gone \cap InsideIn(h, t) = {}
  PROVE  Apart(h, Unlinked(h, gone), t)
<1>1. InsideIn(h, t) \in SUBSET Node
  BY InsideHolds
<1>2. Absent.in \notin InsideIn(h, t)
  BY <1>1, NodesAreNumbers DEF Absent
<1> QED
  BY <1>2 DEF Apart, Unlinked

\* The way to a node that is neither moved nor replaced, nor anything above it.
LEMMA PlacedKeeps ==
  ASSUME NEW h, Tree(h), NEW n \in Node, NEW d, NEW x, Tree(Placed(h, n, d, x)),
         EntryIn(h, d, x) \in Node => \A m \in Node : h[m].in # EntryIn(h, d, x),
         NEW u, NEW p \in Seq(Name),
         WalkIn(h, u, p) \in Node, WalkIn(h, u, p) \notin InsideIn(h, n), WalkIn(h, u, p) # EntryIn(h, d, x)
  PROVE  WalkIn(Placed(h, n, d, x), u, p) = WalkIn(h, u, p)
<1> DEFINE g == Placed(h, n, d, x)
           e == EntryIn(h, d, x)
           S == Node \ (InsideIn(h, n) \cup {e})
<1>1. n \in InsideIn(h, n) /\ Closed(h, InsideIn(h, n))
  BY InsideHolds
<1>2. \A m \in S : g[m] = h[m]
  BY <1>1 DEF Placed
<1>3. \A m \in S : h[m].in \in Node => h[m].in \in S
  BY <1>1 DEF Closed
<1>4. S \in SUBSET Node /\ WalkIn(h, u, p) \in S /\ Tree(g)
  OBVIOUS
<1> HIDE DEF S, g, e
<1>5. WalkIn(g, u, p) = WalkIn(h, u, p)
  BY <1>2, <1>3, <1>4, WalkKept
<1> QED
  BY <1>5 DEF g

\* The way to an old node when there is a new one.
LEMMA GrownKeeps ==
  ASSUME NEW h, NEW g, Tree(h), Tree(g), NEW n \in Node, h[n].in = Nowhere, \A m \in Node : h[m].in # n,
         \A m \in Node : m # n => g[m] = h[m],
         NEW u, NEW p \in Seq(Name), WalkIn(h, u, p) \in Node, h[WalkIn(h, u, p)].in # Nowhere
  PROVE  WalkIn(g, u, p) = WalkIn(h, u, p)
<1> DEFINE S == Node \ {n}
<1>1. \A m \in S : g[m] = h[m]
  OBVIOUS
<1>2. \A m \in S : h[m].in \in Node => h[m].in \in S
  OBVIOUS
<1>3. S \in SUBSET Node /\ WalkIn(h, u, p) \in S /\ Tree(g)
  OBVIOUS
<1> HIDE DEF S
<1> QED
  BY <1>1, <1>2, <1>3, WalkKept

\* The way to a node that is not taken away.
LEMMA UnlinkedKeeps ==
  ASSUME NEW h, Tree(h), NEW gone, \A m \in Node : h[m].in \in Node /\ h[m].in \in gone => m \in gone,
         Tree(Unlinked(h, gone)),
         NEW u, NEW p \in Seq(Name), WalkIn(h, u, p) \in Node, WalkIn(h, u, p) \notin gone
  PROVE  WalkIn(Unlinked(h, gone), u, p) = WalkIn(h, u, p)
<1> DEFINE g == Unlinked(h, gone)
           S == Node \ gone
<1>1. \A m \in S : g[m] = h[m]
  BY DEF Unlinked
<1>2. \A m \in S : h[m].in \in Node => h[m].in \in S
  OBVIOUS
<1>3. S \in SUBSET Node /\ WalkIn(h, u, p) \in S /\ Tree(g)
  OBVIOUS
<1> HIDE DEF S, g
<1>4. WalkIn(g, u, p) = WalkIn(h, u, p)
  BY <1>1, <1>2, <1>3, WalkKept
<1> QED
  BY <1>4 DEF g

-----------------------------------------------------------------------------
(* The operators of Namespace in two states.                               *)

LEMMA EntryIs ==
  /\ \A d, x : Entry(d, x) = EntryIn(at, d, x)
  /\ \A d, x : Entry(d, x)' = EntryIn(at', d, x)
  BY DEF Entry, EntryIn

LEMMA FindIs ==
  /\ \A p : Find(p) = WalkIn(at, Root, p)
  /\ \A p : Find(p)' = WalkIn(at', Root, p)
<1>1. \A p : Find(p) = Walk(Root, p)
  BY DEF Find
<1>2. \A p : Find(p)' = Walk(Root, p)'
  BY DEF Find, Walk
<1> QED
  BY <1>1, <1>2, WalkIs DEF Root

LEMMA TrashNodeIs ==
  /\ \A w : TrashNode(w) = EntryIn(at, Trash, w.name)
  /\ \A w : TrashNode(w)' = EntryIn(at', Trash, w.name)
  BY DEF TrashNode, Entry, EntryIn

\* A path of a request.
LEMMA PathsAreSeqs ==
  ASSUME NEW p \in Path
  PROVE  /\ p \in Seq(Name) /\ p # <<>> /\ Len(p) \in {1, 2}
         /\ Front(p) \in Seq(Name) /\ Last(p) \in Name
<1>1. p \in Seq(Name) /\ p # <<>> /\ Len(p) \in {1, 2}
  <2>1. CASE \E x \in Top : p = <<x>>
    <3>1. PICK x \in Name : p = <<x>>
      BY <2>1 DEF Name
    <3> QED
      BY <3>1
  <2>2. CASE \E x \in Top, y \in Inner : p = <<x, y>>
    <3>1. PICK x \in Name, y \in Name : p = <<x, y>>
      BY <2>2 DEF Name
    <3> QED
      BY <3>1
  <2> QED
    BY <2>1, <2>2 DEF Path
<1> QED
  BY <1>1, WalkOn

\* What Place does to the tree and to what copies have listed.
LEMMA PlaceIs ==
  ASSUME NEW r, NEW n \in Node, NEW d, NEW x, Place(r, n, d, x)
  PROVE  /\ at' = Placed(at, n, d, x)
         /\ kept' = [q \in Request |-> IF q = r THEN {} ELSE
                       {k \in kept[q] : k.node # EntryIn(at, d, x) /\ k.node \notin InsideIn(at, n)}]
<1>1. Entry(d, x) = EntryIn(at, d, x) /\ Inside(n) = InsideIn(at, n)
  BY EntryIs, InsideIs
<1> QED
  BY <1>1 DEF Place, Placed

LEMMA UnlinkIs ==
  ASSUME NEW r, NEW gone, Unlink(r, gone)
  PROVE  /\ at' = Unlinked(at, gone)
         /\ kept' = [q \in Request |-> IF q = r THEN {} ELSE {k \in kept[q] : k.node \notin gone}]
  BY DEF Unlink, Unlinked

\* The temporary tree of a copy.
LEMMA TempIs ==
  ASSUME IInv, NEW r \in Request, Copies(r)
  PROVE  /\ req[r].node \in Node /\ req[r].node <= born /\ at[req[r].node] = [in |-> Temp, as |-> req[r].node]
         /\ at[req[r].node].in = Temp
         /\ Inside(req[r].node) = InsideIn(at, req[r].node)
<1>1. req[r].node \in 1..born /\ born \in 0..MaxNodes /\ at[req[r].node] = [in |-> Temp, as |-> req[r].node]
  BY DEF IInv, TempsStand, TreeStands, Sound
<1>2. req[r].node \in Node /\ req[r].node <= born
  BY <1>1, NamespaceAssumption DEF Node
<1> QED
  BY <1>1, <1>2, InsideIs

\* A path that leads somewhere, under the root and in no temporary tree.
LEMMA FindLeads ==
  ASSUME IInv, NEW p \in Seq(Name)
  PROVE  /\ Find(p) \in Node \cup {Root, Nowhere}
         /\ p # <<>> => Find(p) \in Node \cup {Nowhere}
         /\ Find(p) \in Node => at[Find(p)].in \in Node \cup {Root} /\ at[Find(p)].in # Nowhere
         /\ \A r \in Request : Copies(r) => Find(p) \notin InsideIn(at, req[r].node)
<1>1. Tree(at) /\ Find(p) = WalkIn(at, Root, p)
  BY SoundIsTree, FindIs DEF IInv, TreeStands
<1>2. CASE p = <<>>
  <2>1. Find(p) = Root
    BY <1>1, <1>2, WalkNowhere
  <2>2. ASSUME NEW r \in Request, Copies(r) PROVE InsideIn(at, req[r].node) \subseteq Node
    BY <2>2, TempIs, InsideHolds
  <2> QED
    BY <1>2, <2>1, <2>2, NodesAreNumbers
<1>3. CASE p # <<>>
  <2>1. Find(p) \in Node \cup {Nowhere}
    BY <1>1, <1>3, WalkEnds
  <2>2. ASSUME Find(p) \in Node PROVE at[Find(p)].in \in Node \cup {Root} /\ at[Find(p)].in # Nowhere
    <3>1. /\ at[Find(p)] = [in |-> WalkIn(at, Root, Front(p)), as |-> Last(p)]
          /\ WalkIn(at, Root, Front(p)) # Nowhere
      BY <1>1, <1>3, <2>2, WalkEnds
    <3>2. WalkIn(at, Root, Front(p)) \in Node \cup {Root, Nowhere}
      <4>1. Front(p) \in Seq(Name)
        BY <1>3, WalkOn
      <4>2. CASE Front(p) = <<>>
        BY <4>2, WalkNowhere
      <4>3. CASE Front(p) # <<>>
        BY <1>1, <4>1, <4>3, WalkEnds
      <4> QED
        BY <4>2, <4>3
    <3> QED
      BY <3>1, <3>2
  <2>3. ASSUME NEW r \in Request, Copies(r) PROVE Find(p) \notin InsideIn(at, req[r].node)
    <3>1. req[r].node \in Node /\ at[req[r].node].in = Temp
      BY <2>3, TempIs
    <3> QED
      BY <1>1, <3>1, TempsAreAway
  <2> QED
    BY <1>3, <2>1, <2>2, <2>3
<1> QED
  BY <1>2, <1>3

-----------------------------------------------------------------------------
(* Copies that a step leaves alone.                                        *)

Kept == [rel : Seq(Name), node : Node]

\* The copy that request v makes, having listed K, in the tree h of which F are
\* the folders among the first b nodes.
CopyFits(v, K, h, F, b) ==
  /\ v.node \in Node /\ v.node <= b /\ h[v.node] = [in |-> Temp, as |-> v.node]
  /\ \A q \in v.todo : q # <<>> /\ WalkIn(h, v.node, Front(q)) \in F /\ WalkIn(h, v.node, q) = Nowhere
  /\ \A k \in K : /\ k.rel # <<>> /\ WalkIn(h, Root, v.from \o k.rel) = k.node
                  /\ k.rel \in v.todo \cup v.missed \/ WalkIn(h, v.node, k.rel) # Nowhere

LEMMA CopyIs ==
  ASSUME IInv, NEW r \in Request, Copies(r)
  PROVE  CopyFits(req[r], kept[r], at, folder, born)
<1>1. \A d, p : Walk(d, p) = WalkIn(at, d, p)
  BY WalkIs
<1>2. \A p : Find(p) = WalkIn(at, Root, p)
  BY FindIs
<1>3. req[r].node \in Node /\ req[r].node <= born /\ at[req[r].node] = [in |-> Temp, as |-> req[r].node]
  BY TempIs
<1>4. \A q \in req[r].todo :
        q # <<>> /\ WalkIn(at, req[r].node, Front(q)) \in folder /\ WalkIn(at, req[r].node, q) = Nowhere
  BY <1>1 DEF IInv, TodoIsOpen
<1>5. \A k \in kept[r] :
        /\ k.rel # <<>> /\ WalkIn(at, Root, req[r].from \o k.rel) = k.node
        /\ k.rel \in req[r].todo \cup req[r].missed \/ WalkIn(at, req[r].node, k.rel) # Nowhere
  BY <1>1, <1>2 DEF IInv, KeptIsCopied
<1> QED
  BY <1>3, <1>4, <1>5 DEF CopyFits

\* The part of the invariant about copies, after a step.
LEMMA CopiesAre ==
  ASSUME born' \in Int,
         \A r \in Request : req'[r].step = "c_entry" => CopyFits(req'[r], kept'[r], at', folder', born'),
         \A r \in Request : req'[r].step = "c_entry" =>
           \A q \in Request :
             /\ q # r /\ req'[q].step = "c_entry" => req'[q].node # req'[r].node
             /\ req'[q].step = "p_remove" => req'[q].node \notin InsideIn(at', req'[r].node),
         stops' = 0 =>
           \A n \in Node : at'[n].in = Temp => \E r \in Request : req'[r].step = "c_entry" /\ req'[r].node = n,
         kept' \in [Request -> SUBSET Kept],
         \A r \in Request : kept'[r] # {} => req'[r].step = "c_entry"
  PROVE  TempsStand' /\ TodoIsOpen' /\ KeptIsCopied'
<1>1. TempsStand'
  <2>1. ASSUME NEW r \in Request, req'[r].step = "c_entry"
        PROVE  req'[r].node \in 1..born' /\ at'[req'[r].node] = [in |-> Temp, as |-> req'[r].node]
    <3>1. /\ req'[r].node \in Node /\ req'[r].node <= born'
          /\ at'[req'[r].node] = [in |-> Temp, as |-> req'[r].node]
      BY <2>1 DEF CopyFits
    <3>2. req'[r].node \in Int /\ req'[r].node >= 1
      BY <3>1 DEF Node
    <3> QED
      BY <3>1, <3>2
  <2>2. ASSUME NEW r \in Request, req'[r].step = "c_entry"
        PROVE  Inside(req[r].node)' = InsideIn(at', req'[r].node)
    <3>1. Inside(req[r].node)' = Beneath'[{req'[r].node}]
      BY DEF Inside
    <3>2. req'[r].node \in Node
      BY <2>2 DEF CopyFits
    <3> QED
      BY <3>1, <3>2, InsideIs
  <2> QED
    BY <2>1, <2>2 DEF TempsStand, Copies
<1>2. TodoIsOpen'
  <2>1. ASSUME NEW r \in Request, req'[r].step = "c_entry", NEW q \in req'[r].todo
        PROVE  /\ q # <<>> /\ Walk(req[r].node, Front(q))' \in folder' /\ Walk(req[r].node, q)' = Nowhere
    <3>1. /\ Walk(req[r].node, q)' = WalkIn(at', req'[r].node, q)
          /\ Walk(req[r].node, Front(q))' = WalkIn(at', req'[r].node, Front(q))
      BY WalkIs DEF Walk
    <3>2. CopyFits(req'[r], kept'[r], at', folder', born')
      BY <2>1
    <3>3. /\ q # <<>> /\ WalkIn(at', req'[r].node, Front(q)) \in folder'
          /\ WalkIn(at', req'[r].node, q) = Nowhere
      BY <2>1, <3>2 DEF CopyFits
    <3> QED
      BY <3>1, <3>3
  <2> QED
    BY <2>1 DEF TodoIsOpen, Copies
<1>3. KeptIsCopied'
  <2>1. ASSUME NEW r \in Request, NEW k \in kept'[r]
        PROVE  /\ req'[r].step = "c_entry" /\ k.rel # <<>> /\ Find(req[r].from \o k.rel)' = k.node
               /\ k.rel \in req'[r].todo \cup req'[r].missed \/ Walk(req[r].node, k.rel)' # Nowhere
    <3>1. Find(req[r].from \o k.rel)' = WalkIn(at', Root, req'[r].from \o k.rel)
      BY WalkIs DEF Find, Walk, Root
    <3>2. Walk(req[r].node, k.rel)' = WalkIn(at', req'[r].node, k.rel)
      BY WalkIs DEF Walk
    <3>3. req'[r].step = "c_entry" /\ CopyFits(req'[r], kept'[r], at', folder', born')
      BY <2>1
    <3>4. /\ k.rel # <<>> /\ WalkIn(at', Root, req'[r].from \o k.rel) = k.node
          /\ k.rel \in req'[r].todo \cup req'[r].missed \/ WalkIn(at', req'[r].node, k.rel) # Nowhere
      BY <2>1, <3>3 DEF CopyFits
    <3> QED
      BY <3>1, <3>2, <3>3, <3>4
  <2> QED
    BY <2>1 DEF KeptIsCopied, Copies, Kept
<1> QED
  BY <1>1, <1>2, <1>3

\* A copy that a step leaves alone.
LEMMA CopyLasts ==
  ASSUME IInv, Tree(at'), folder \subseteq folder', born' \in Int, born <= born',
         NEW r \in Request, Copies(r), Apart(at, at', req[r].node),
         NEW K \in SUBSET kept[r],
         \A k \in K, p \in Seq(Name) : WalkIn(at, Root, p) = k.node => WalkIn(at', Root, p) = k.node
  PROVE  /\ CopyFits(req[r], K, at', folder', born')
         /\ InsideIn(at', req[r].node) \subseteq InsideIn(at, req[r].node)
<1>0. Tree(at) /\ born \in Int
  BY SoundIsTree DEF IInv, TreeStands
<1>1. /\ req[r].node \in Node /\ req[r].node <= born /\ at[req[r].node] = [in |-> Temp, as |-> req[r].node]
      /\ CopyFits(req[r], kept[r], at, folder, born)
  BY TempIs, CopyIs
<1>2. /\ at'[req[r].node] = at[req[r].node]
      /\ InsideIn(at', req[r].node) \subseteq InsideIn(at, req[r].node)
      /\ \A q \in Seq(Name) : WalkIn(at', req[r].node, q) = WalkIn(at, req[r].node, q)
  BY <1>0, <1>1, ApartKeeps
<1>3. req[r].from \in Path /\ req[r].todo \subseteq Seq(Name)
  BY DEF IInv, RequestsFit, Fitting, RequestOf, Copies, Copying
<1>4. ASSUME NEW q \in req[r].todo
      PROVE  q # <<>> /\ WalkIn(at', req[r].node, Front(q)) \in folder' /\ WalkIn(at', req[r].node, q) = Nowhere
  <2>1. q # <<>> /\ WalkIn(at, req[r].node, Front(q)) \in folder /\ WalkIn(at, req[r].node, q) = Nowhere
    BY <1>1 DEF CopyFits
  <2>2. q \in Seq(Name)
    BY <1>3
  <2>3. Front(q) \in Seq(Name)
    BY <2>1, <2>2, WalkOn
  <2> QED
    BY <1>2, <2>1, <2>2, <2>3
<1>5. ASSUME NEW k \in K
      PROVE  /\ k.rel # <<>> /\ WalkIn(at', Root, req[r].from \o k.rel) = k.node
             /\ k.rel \in req[r].todo \cup req[r].missed \/ WalkIn(at', req[r].node, k.rel) # Nowhere
  <2>1. /\ k.rel # <<>> /\ WalkIn(at, Root, req[r].from \o k.rel) = k.node
        /\ k.rel \in req[r].todo \cup req[r].missed \/ WalkIn(at, req[r].node, k.rel) # Nowhere
    BY <1>1 DEF CopyFits
  <2>2. k.rel \in Seq(Name)
    BY DEF IInv, KeptIsCopied
  <2>3. req[r].from \o k.rel \in Seq(Name)
    BY <1>3, <2>2, PathsAreSeqs
  <2> QED
    BY <1>2, <2>1, <2>2, <2>3
<1>6. req[r].node <= born' /\ at'[req[r].node] = [in |-> Temp, as |-> req[r].node]
  <2>1. req[r].node \in Int
    BY <1>1 DEF Node
  <2> QED
    BY <1>0, <1>1, <1>2, <2>1
<1> QED
  BY <1>1, <1>2, <1>4, <1>5, <1>6 DEF CopyFits

\* A step that leaves every copy alone, or ends it.
LEMMA CopiesStay ==
  ASSUME IInv, Tree(at'), folder \subseteq folder', born' \in Int, born <= born',
         \A q \in Request : req'[q].step = "c_entry" =>
           req'[q] = req[q] /\ Apart(at, at', req[q].node),
         \A q \in Request : req'[q].step = "p_remove" =>
           \/ req[q].step = "p_remove" /\ req'[q].node = req[q].node
           \/ \A r \in Request : Copies(r) => req'[q].node \notin InsideIn(at, req[r].node),
         kept' \in [Request -> SUBSET Kept],
         \A q \in Request : \A k \in kept'[q] :
           /\ k \in kept[q] /\ req'[q].step = "c_entry"
           /\ \A p \in Seq(Name) : WalkIn(at, Root, p) = k.node => WalkIn(at', Root, p) = k.node,
         stops' = 0 => stops = 0,
         \A n \in Node : stops' = 0 /\ at'[n].in = Temp =>
           at[n].in = Temp /\ \A q \in Request : Copies(q) /\ req[q].node = n => req'[q].step = "c_entry"
  PROVE  TempsStand' /\ TodoIsOpen' /\ KeptIsCopied'
<1>1. ASSUME NEW r \in Request, req'[r].step = "c_entry"
      PROVE  /\ Copies(r) /\ req'[r] = req[r]
             /\ CopyFits(req'[r], kept'[r], at', folder', born')
             /\ InsideIn(at', req'[r].node) \subseteq InsideIn(at, req[r].node)
  <2>1. Copies(r) /\ req'[r] = req[r] /\ Apart(at, at', req[r].node)
    BY <1>1 DEF Copies
  <2>2. kept'[r] \in SUBSET kept[r]
    OBVIOUS
  <2>3. \A k \in kept'[r], p \in Seq(Name) : WalkIn(at, Root, p) = k.node => WalkIn(at', Root, p) = k.node
    OBVIOUS
  <2>4. /\ CopyFits(req[r], kept'[r], at', folder', born')
        /\ InsideIn(at', req[r].node) \subseteq InsideIn(at, req[r].node)
    BY <2>1, <2>2, <2>3, CopyLasts
  <2> QED
    BY <2>1, <2>4
<1>2. ASSUME NEW r \in Request, req'[r].step = "c_entry", NEW q \in Request
      PROVE  /\ q # r /\ req'[q].step = "c_entry" => req'[q].node # req'[r].node
             /\ req'[q].step = "p_remove" => req'[q].node \notin InsideIn(at', req'[r].node)
  <2>1. CASE q # r /\ req'[q].step = "c_entry"
    <3>1. Copies(q) /\ req'[q] = req[q] /\ Copies(r) /\ req'[r] = req[r]
      BY <1>1, <1>2, <2>1
    <3>2. req[q].node # req[r].node
      BY <2>1, <3>1 DEF IInv, TempsStand
    <3> QED
      BY <2>1, <3>1, <3>2
  <2>2. CASE req'[q].step = "p_remove"
    <3>1. req'[q].node \notin InsideIn(at, req[r].node)
      <4>1. Copies(r)
        BY <1>1, <1>2
      <4>2. CASE req[q].step = "p_remove" /\ req'[q].node = req[q].node
        <5>1. req[q].node \notin Inside(req[r].node)
          BY <4>1, <4>2 DEF IInv, TempsStand
        <5> QED
          BY <4>1, <4>2, <5>1, TempIs
      <4> QED
        BY <2>2, <4>1, <4>2
    <3>2. InsideIn(at', req'[r].node) \subseteq InsideIn(at, req[r].node)
      BY <1>1, <1>2
    <3> QED
      BY <2>2, <3>1, <3>2
  <2> QED
    BY <2>1, <2>2
<1>3. ASSUME stops' = 0, NEW n \in Node, at'[n].in = Temp
      PROVE  \E r \in Request : req'[r].step = "c_entry" /\ req'[r].node = n
  <2>1. at[n].in = Temp /\ \A q \in Request : Copies(q) /\ req[q].node = n => req'[q].step = "c_entry"
    BY <1>3
  <2>2. PICK r \in Request : Copies(r) /\ req[r].node = n
    BY <1>3, <2>1 DEF IInv, TempsStand
  <2>3. req'[r].step = "c_entry"
    BY <2>1, <2>2
  <2>4. req'[r] = req[r]
    BY <1>1, <2>3
  <2> QED
    BY <2>2, <2>3, <2>4
<1>4. \A r \in Request : kept'[r] # {} => req'[r].step = "c_entry"
  OBVIOUS
<1> QED
  BY <1>1, <1>2, <1>3, <1>4, CopiesAre

-----------------------------------------------------------------------------
(* What a step does to the request that takes it.                          *)

Only(r) == req' = [q \in Request |-> IF q = r THEN req'[r] ELSE req[q]]

LEMMA OnlyOne ==
  ASSUME NEW r \in Request, Only(r)
  PROVE  \A q \in Request : q # r => req'[q] = req[q]
  BY DEF Only

LEMMA GotoIs ==
  ASSUME RequestsFit, NEW r \in Request, NEW s, Goto(r, s)
  PROVE  Only(r) /\ req'[r] = [req[r] EXCEPT !.step = s]
  BY DEF RequestsFit, Goto, Only

LEMMA BeginIs ==
  ASSUME RequestsFit, NEW r \in Request, NEW v, Begin(r, v)
  PROVE  Only(r) /\ req'[r] = v
  BY DEF RequestsFit, Begin, Only

LEMMA DoneIs ==
  ASSUME RequestsFit, NEW r \in Request, Done(r)
  PROVE  Only(r) /\ req'[r] = Blank
  BY DEF RequestsFit, Done, Only

\* The same request at another step has what that step needs.
LEMMA StepFits ==
  ASSUME NEW v, NEW k, NEW d, NEW F, Fitting(v, k, d, F),
         NEW s \in {"idle"} \cup Holding \cup Copying \cup Moving \cup Noting
  PROVE  LET u == [v EXCEPT !.step = s] IN
         /\ u \in RequestOf(k, d)
         /\ u.step = s /\ u.mode = v.mode /\ u.from = v.from /\ u.to = v.to /\ u.item = v.item
         /\ u.queue = v.queue /\ u.node = v.node /\ u.todo = v.todo /\ u.missed = v.missed
  BY DEF Fitting, RequestOf

LEMMA BlankFits ==
  ASSUME NEW k, NEW d, NEW F
  PROVE  Fitting(Blank, k, d, F) /\ HeldBy(Blank) = {} /\ Blank.step = "idle"
  BY NodesAreNumbers DEF Fitting, Blank, RequestOf, Holding, Copying, Moving, Noting, HeldBy

\* Blank requests that go by a row, by a list of rows, or by two paths.
RowRequest(s, w)              == [Blank EXCEPT !.step = s, !.item = w]
ListRequest(s, Q)             == [Blank EXCEPT !.step = "next", !.mode = s, !.queue = Q]
MoveRequest(from, to)         == [Blank EXCEPT !.step = "m_owner", !.from = from, !.to = to]
CopyRequest(from, to, n, all) == [Blank EXCEPT !.step = "c_entry", !.from = from, !.to = to, !.node = n, !.todo = all]

LEMMA RowBegins ==
  ASSUME NEW k, NEW d, NEW F, NEW s \in (Holding \ {"next", "p_remove"}) \cup Noting, NEW w \in ItemOf(k, d),
         s \in {"d_record", "u_look", "u_rename"} => w.id = 0
  PROVE  /\ Fitting(RowRequest(s, w), k, d, F) /\ RowRequest(s, w).step = s
         /\ RowRequest(s, w).item = w /\ RowRequest(s, w).queue = {}
         /\ HeldBy(RowRequest(s, w)) = IF s \in Holding THEN {w} ELSE {}
  BY NodesAreNumbers DEF RowRequest, Fitting, Blank, RequestOf, Holding, Copying, Moving, Noting, HeldBy

LEMMA ListBegins ==
  ASSUME NEW k, NEW d, NEW F, NEW s \in {"all", "expired"}, NEW Q \in SUBSET ItemOf(k, d)
  PROVE  /\ Fitting(ListRequest(s, Q), k, d, F) /\ ListRequest(s, Q).step = "next"
         /\ HeldBy(ListRequest(s, Q)) = {NoRow} \cup Q
  BY NodesAreNumbers DEF ListRequest, Fitting, Blank, RequestOf, Holding, Copying, Moving, Noting, HeldBy

LEMMA MoveBegins ==
  ASSUME NEW k, NEW d, NEW F, NEW from \in Path, NEW to \in Path
  PROVE  /\ Fitting(MoveRequest(from, to), k, d, F)
         /\ MoveRequest(from, to).step = "m_owner" /\ HeldBy(MoveRequest(from, to)) = {}
  BY NodesAreNumbers DEF MoveRequest, Fitting, Blank, RequestOf, Holding, Copying, Moving, Noting, HeldBy

LEMMA CopyBegins ==
  ASSUME NEW k, NEW d, NEW F, NEW from \in Path, NEW to \in Path, NEW n \in Int, NEW all \in SUBSET Seq(Name)
  PROVE  Fitting(CopyRequest(from, to, n, all), k, d, F)
  BY NodesAreNumbers DEF CopyRequest, Fitting, Blank, RequestOf, Holding, Copying, Moving, Noting

LEMMA CopyRequestIs ==
  ASSUME NEW from, NEW to, NEW n, NEW all
  PROVE  LET v == CopyRequest(from, to, n, all) IN
         /\ HeldBy(v) = {} /\ v.step = "c_entry" /\ v.from = from /\ v.to = to /\ v.node = n /\ v.todo = all
  BY DEF CopyRequest, Blank, HeldBy, Holding

\* Time passes, names are drawn and folders made: a request has what it had.
LEMMA FittingLasts ==
  ASSUME NEW k \in Nat, NEW l \in Nat, k <= l, NEW d \in Nat, NEW e \in Nat, d <= e, NEW F, NEW G, F \subseteq G
  PROVE  ItemOf(k, d) \subseteq ItemOf(l, e) /\ \A v : Fitting(v, k, d, F) => Fitting(v, l, e, G)
<1>1. ItemOf(k, d) \subseteq ItemOf(l, e)
  BY DEF ItemOf
<1> QED
  BY <1>1 DEF Fitting, RequestOf

LEMMA RequestsStay ==
  ASSUME IInv, names' \in Nat, names <= names', day' \in Nat, day <= day', folder \subseteq folder',
         NEW r \in Request, Only(r), Fitting(req'[r], names', day', folder')
  PROVE  RequestsFit'
<1>1. names \in Nat /\ day \in Nat /\ RequestsFit
  BY DEF IInv, TreeStands, Sound, RowsFit
<1>2. ASSUME NEW q \in Request PROVE Fitting(req'[q], names', day', folder')
  <2>1. CASE q = r
    BY <2>1
  <2>2. CASE q # r
    <3>1. Fitting(req[q], names, day, folder) /\ req'[q] = req[q]
      BY <1>1, <2>2, OnlyOne DEF RequestsFit
    <3>2. Fitting(req[q], names', day', folder')
      BY <1>1, <3>1, FittingLasts
    <3> QED
      BY <3>1, <3>2
  <2> QED
    BY <2>1, <2>2
<1>3. req' = [q \in Request |-> req'[q]]
  BY DEF Only
<1> QED
  BY <1>2, <1>3 DEF RequestsFit

-----------------------------------------------------------------------------
(* What a step may do to rows and names.                                   *)

\* An entry that stays in the trash is found there.
LEMMA TrashStays ==
  ASSUME Tree(at'), NEW w, NEW m \in Node, at[m] = [in |-> Trash, as |-> w.name], at'[m] = at[m]
  PROVE  TrashNode(w)' = m
<1>1. EntryIn(at', Trash, w.name) = m
  BY EntryIsIt, NodesAreNumbers
<1> QED
  BY <1>1, TrashNodeIs

LEMMA TrashNodeLeads ==
  ASSUME Tree(at), NEW w, TrashNode(w) # Nowhere
  PROVE  /\ TrashNode(w) \in Node /\ at[TrashNode(w)] = [in |-> Trash, as |-> w.name]
         /\ at[TrashNode(w)].in = Trash /\ at[TrashNode(w)].in # Nowhere
<1>1. TrashNode(w) \in Node /\ at[TrashNode(w)] = [in |-> Trash, as |-> w.name]
  BY EntryFound, TrashNodeIs
<1> QED
  BY <1>1, NodesAreNumbers

\* No row comes; what a request holds it held, or is a row, or it was to
\* write; and what is to be written still is, with its entry.
LEMMA NamesStay ==
  ASSUME IInv, rows' \subseteq rows,
         \A q \in Request : \A v \in HeldBy(req'[q]) :
           \/ v \in Held(q) \cup rows \cup {NoRow}
           \/ req[q].step = "d_record" /\ v = req[q].item /\ req'[q].step # "d_record",
         \A q \in Request : req'[q].step = "d_record" =>
           req'[q].item = req[q].item /\ req[q].step = "d_record" /\ TrashNode(req[q].item)' # Nowhere
  PROVE  HeldIsTheRow' /\ RecordsAreNew'
<1>0. \A w \in rows : w.name \in Nat /\ w.name # 0
  BY DEF IInv, RowsFit, Item, ItemOf
<1>1. \A q \in Request : req[q].step = "d_record" => req[q].item.name \in Nat /\ req[q].item.name # 0
  BY DEF IInv, RequestsFit, Fitting, Noting, ItemOf
<1>2. NoRow.name = 0
  BY DEF NoRow
<1>3. ASSUME NEW q \in Request, NEW v \in HeldBy(req'[q]), NEW w \in rows', v.name = w.name PROVE v = w
  <2>0. w \in rows
    OBVIOUS
  <2>1. CASE v \in Held(q)
    BY <1>3, <2>0, <2>1 DEF IInv, HeldIsTheRow
  <2>2. CASE v \in rows
    BY <1>3, <2>0, <2>2 DEF IInv, RowsFit
  <2>3. CASE v = NoRow
    BY <1>0, <1>2, <1>3, <2>0, <2>3
  <2>4. CASE req[q].step = "d_record" /\ v = req[q].item
    BY <1>3, <2>0, <2>4 DEF IInv, RecordsAreNew
  <2> QED
    BY <2>1, <2>2, <2>3, <2>4
<1>4. ASSUME NEW r \in Request, req'[r].step = "d_record"
      PROVE  /\ TrashNode(req[r].item)' # Nowhere
             /\ \A w \in rows' : w.name # req'[r].item.name
             /\ \A q \in Request :
                  /\ \A v \in HeldBy(req'[q]) : v.name # req'[r].item.name
                  /\ q # r /\ req'[q].step = "d_record" => req'[q].item.name # req'[r].item.name
  <2>1. req'[r].item = req[r].item /\ req[r].step = "d_record" /\ TrashNode(req[r].item)' # Nowhere
    BY <1>4
  <2>2. \A w \in rows : w.name # req[r].item.name
    BY <2>1 DEF IInv, RecordsAreNew
  <2>3. ASSUME NEW q \in Request, NEW v \in HeldBy(req'[q]) PROVE v.name # req[r].item.name
    <3>1. CASE v \in Held(q)
      BY <2>1, <3>1 DEF IInv, RecordsAreNew
    <3>2. CASE v \in rows
      BY <2>2, <3>2
    <3>3. CASE v = NoRow
      BY <1>1, <1>2, <2>1, <3>3
    <3>4. CASE req[q].step = "d_record" /\ v = req[q].item /\ req'[q].step # "d_record"
      <4>1. q # r
        BY <1>4, <3>4
      <4> QED
        BY <2>1, <3>4, <4>1 DEF IInv, RecordsAreNew
    <3> QED
      BY <3>1, <3>2, <3>3, <3>4
  <2>4. ASSUME NEW q \in Request, q # r, req'[q].step = "d_record" PROVE req'[q].item.name # req[r].item.name
    <3>1. req'[q].item = req[q].item /\ req[q].step = "d_record"
      BY <2>4
    <3> QED
      BY <2>1, <2>4, <3>1 DEF IInv, RecordsAreNew
  <2> QED
    BY <2>1, <2>2, <2>3, <2>4
<1>5. HeldIsTheRow'
  BY <1>3 DEF HeldIsTheRow, Held
<1>6. \A r \in Request : TrashNode(req[r].item)' = EntryIn(at', Trash, req'[r].item.name)
  BY EntryIs DEF TrashNode, Trash
<1>7. ASSUME NEW r \in Request, req'[r].step = "d_record"
      PROVE  EntryIn(at', Trash, req'[r].item.name) # Nowhere
  <2>1. TrashNode(req[r].item)' # Nowhere
    BY <1>4, <1>7
  <2> QED
    BY <1>6, <2>1
<1>8. RecordsAreNew'
  BY <1>4, <1>6, <1>7 DEF RecordsAreNew, Held
<1> QED
  BY <1>5, <1>8

\* No row comes, or loses its entry to a request that will not delete it; and
\* who was to delete one has, or still will.
LEMMA ClearingStays ==
  ASSUME IInv, faults' \in Nat, stops' \in Nat, faults <= faults', stops <= stops',
         faults' + stops' = 0 =>
           /\ rows' \subseteq rows
           /\ \A w \in rows : TrashNode(w) # Nowhere /\ EntryIn(at', Trash, w.name) = Nowhere =>
                \E r \in Request : req'[r].step \in {"p_row", "r_row"} /\ req'[r].item.id = w.id
           /\ \A r \in Request : req[r].step \in {"p_row", "r_row"} =>
                \/ req'[r].step \in {"p_row", "r_row"} /\ req'[r].item = req[r].item
                \/ \A w \in rows' : w.id # req[r].item.id
  PROVE  MissingIsCleared'
<1>1. ASSUME faults' + stops' = 0, NEW w \in rows', TrashNode(w)' = Nowhere
      PROVE  \E r \in Request : req'[r].step \in {"p_row", "r_row"} /\ req'[r].item.id = w.id
  <2>0. faults \in Nat /\ stops \in Nat
    BY DEF IInv, RowsFit
  <2>1. faults + stops = 0
    BY <1>1, <2>0
  <2>2. w \in rows /\ EntryIn(at', Trash, w.name) = Nowhere
    BY <1>1, TrashNodeIs
  <2>3. CASE TrashNode(w) # Nowhere
    BY <1>1, <2>2, <2>3
  <2>4. CASE TrashNode(w) = Nowhere
    <3>1. PICK r \in Request : req[r].step \in {"p_row", "r_row"} /\ req[r].item.id = w.id
      BY <2>1, <2>2, <2>4 DEF IInv, MissingIsCleared
    <3> QED
      BY <1>1, <3>1
  <2> QED
    BY <2>3, <2>4
<1> QED
  BY <1>1 DEF MissingIsCleared

-----------------------------------------------------------------------------
(* Steps that leave the tree alone.                                        *)

\* A request that is not copying takes a step in the database alone. It holds
\* what it held, a row, or what it was to write; it opens no temporary tree; and
\* if it was to delete a row, and nothing fails, the row is gone.
LEMMA QuietKeeps ==
  ASSUME IInv, UNCHANGED <<tree, kept, names, day, stops>>, calls' \in Nat, faults' \in {faults, faults + 1},
         rows' \subseteq rows, owners' \cup rules' \subseteq Seq(Name),
         NEW r \in Request, Only(r), ~Copies(r), req'[r].step \notin {"c_entry", "d_record"},
         Fitting(req'[r], names, day, folder),
         \A v \in HeldBy(req'[r]) :
           \/ v \in Held(r) \cup rows \cup {NoRow}
           \/ req[r].step = "d_record" /\ v = req[r].item,
         req'[r].step = "p_remove" =>
           \/ req[r].step = "p_remove" /\ req'[r].node = req[r].node
           \/ \A q \in Request : Copies(q) => req'[r].node \notin InsideIn(at, req[q].node),
         faults' = faults /\ req[r].step \in {"p_row", "r_row"} => \A w \in rows' : w.id # req[r].item.id
  PROVE  IInv'
<1>1. /\ at' = at /\ folder' = folder /\ born' = born /\ kept' = kept /\ names' = names /\ day' = day
      /\ stops' = stops
  BY DEF tree
<1>2. Tree(at) /\ Tree(at') /\ born \in Nat /\ names \in Nat /\ TreeStands'
  BY <1>1, SoundIsTree DEF IInv, TreeStands
<1>3. day \in Nat /\ faults \in Nat /\ stops \in Nat /\ calls \in Nat
  BY DEF IInv, RowsFit
<1>4. \A q \in Request : q # r => req'[q] = req[q]
  BY OnlyOne
<1>5. RowsFit'
  <2>1. rows' \subseteq Item' /\ IsFiniteSet(rows')
    BY <1>1, FS_Subset DEF IInv, RowsFit, Item
  <2> QED
    BY <1>1, <1>3, <2>1 DEF IInv, RowsFit
<1>6. RequestsFit'
  BY <1>1, <1>2, <1>3, RequestsStay
<1>7. HeldIsTheRow' /\ RecordsAreNew'
  <2>1. ASSUME NEW q \in Request, NEW v \in HeldBy(req'[q])
        PROVE  \/ v \in Held(q) \cup rows \cup {NoRow}
               \/ req[q].step = "d_record" /\ v = req[q].item /\ req'[q].step # "d_record"
    <3>1. CASE q = r
      BY <3>1
    <3>2. CASE q # r
      BY <1>4, <3>2 DEF Held
    <3> QED
      BY <3>1, <3>2
  <2>2. ASSUME NEW q \in Request, req'[q].step = "d_record"
        PROVE  req'[q].item = req[q].item /\ req[q].step = "d_record" /\ TrashNode(req[q].item)' # Nowhere
    <3>1. q # r /\ req'[q] = req[q]
      BY <1>4, <2>2
    <3>2. TrashNode(req[q].item) # Nowhere
      BY <2>2, <3>1 DEF IInv, RecordsAreNew
    <3>3. TrashNode(req[q].item)' = TrashNode(req[q].item)
      BY <1>1, <3>1 DEF TrashNode, Entry
    <3> QED
      BY <2>2, <3>1, <3>2, <3>3
  <2> QED
    BY <2>1, <2>2, NamesStay
<1>8. MissingIsCleared'
  <2>1. ASSUME faults' + stops' = 0, NEW q \in Request, req[q].step \in {"p_row", "r_row"}
        PROVE  \/ req'[q].step \in {"p_row", "r_row"} /\ req'[q].item = req[q].item
               \/ \A w \in rows' : w.id # req[q].item.id
    <3>1. faults' = faults
      <4>1. faults \in Nat /\ faults' \in {faults, faults + 1} /\ stops' \in Nat /\ faults' + stops' = 0
        BY <1>1, <1>3, <2>1
      <4> QED
        BY <4>1, NoneIsNoneMore
    <3> QED
      BY <1>4, <2>1, <3>1
  <2>2. \A w \in rows : ~(TrashNode(w) # Nowhere /\ EntryIn(at', Trash, w.name) = Nowhere)
    BY <1>1, TrashNodeIs
  <2>3. faults' \in Nat /\ stops' \in Nat /\ faults <= faults' /\ stops <= stops'
    BY <1>1, <1>3
  <2> QED
    BY <2>1, <2>2, <2>3, ClearingStays
<1>9. TempsStand' /\ TodoIsOpen' /\ KeptIsCopied'
  <2>1. \A q \in Request : req'[q].step = "c_entry" => req'[q] = req[q] /\ Apart(at, at', req[q].node)
    BY <1>1, <1>4 DEF Apart
  <2>2. \A q \in Request : req'[q].step = "p_remove" =>
           \/ req[q].step = "p_remove" /\ req'[q].node = req[q].node
           \/ \A p \in Request : Copies(p) => req'[q].node \notin InsideIn(at, req[p].node)
    BY <1>4
  <2>3. kept' \in [Request -> SUBSET Kept]
    BY <1>1 DEF IInv, KeptIsCopied, Kept
  <2>4. \A q \in Request : \A k \in kept'[q] :
          /\ k \in kept[q] /\ req'[q].step = "c_entry"
          /\ \A p \in Seq(Name) : WalkIn(at, Root, p) = k.node => WalkIn(at', Root, p) = k.node
    BY <1>1, <1>4 DEF IInv, KeptIsCopied, Copies
  <2>5. \A n \in Node : at'[n].in = Temp =>
           at[n].in = Temp /\ \A q \in Request : Copies(q) /\ req[q].node = n => req'[q].step = "c_entry"
    BY <1>1, <1>4 DEF Copies
  <2> QED
    BY <1>1, <1>2, <2>1, <2>2, <2>3, <2>4, <2>5, CopiesStay
<1> QED
  BY <1>2, <1>5, <1>6, <1>7, <1>8, <1>9 DEF IInv

\* What becomes of a key when a path is renamed is a path.
LEMMA CarriedArePaths ==
  ASSUME NEW keys \in SUBSET Seq(Name), NEW from \in Path, NEW to \in Path
  PROVE  Carried(keys, from, to) \subseteq Seq(Name)
<1>1. ASSUME NEW p \in keys PROVE Rebased(p, from, to) \in Seq(Name)
  <2>1. CASE IsPrefix(from, p)
    <3>1. p \in Seq(Name) /\ from \in Seq(Name) /\ to \in Seq(Name)
      BY PathsAreSeqs
    <3>2. SubSeq(p, Len(from) + 1, Len(p)) \in Seq(Name)
      <4>1. \A k \in (Len(from) + 1)..Len(p) : k \in 1..Len(p)
        BY <3>1
      <4>2. \A k \in (Len(from) + 1)..Len(p) : p[k] \in Name
        BY <3>1, <4>1, ElementOfSeq
      <4> QED
        BY <3>1, <4>2, SubSeqProperties
    <3> QED
      BY <2>1, <3>1, <3>2, ConcatProperties DEF Rebased
  <2>2. CASE ~IsPrefix(from, p)
    BY <2>2 DEF Rebased
  <2> QED
    BY <2>1, <2>2
<1> QED
  BY <1>1 DEF Carried

LEMMA FaultsCount ==
  ASSUME IInv
  PROVE  /\ NoFault => calls' \in Nat /\ faults' = faults /\ stops' = stops
         /\ Fault => calls' \in Nat /\ faults' = faults + 1 /\ stops' = stops
         /\ \A r \in Request : Arrive(r) => calls' \in Nat /\ faults' = faults /\ stops' = stops
         /\ faults \in Nat /\ stops \in Nat /\ calls \in Nat
  BY DEF IInv, RowsFit, NoFault, Fault, Arrive, bounds

\* A request that ends in the database.
LEMMA EndingKeeps ==
  ASSUME IInv, NEW r \in Request, Done(r), NoFault \/ Fault, ~Copies(r),
         UNCHANGED <<tree, kept, names, day>>, rows' \subseteq rows, owners' \cup rules' \subseteq Seq(Name),
         NoFault /\ req[r].step \in {"p_row", "r_row"} => \A w \in rows' : w.id # req[r].item.id
  PROVE  IInv'
<1>1. Only(r) /\ req'[r] = Blank
  BY DoneIs DEF IInv
<1>2. Fitting(req'[r], names, day, folder) /\ HeldBy(req'[r]) = {} /\ req'[r].step = "idle"
  BY <1>1, BlankFits
<1>3. stops' = stops /\ calls' \in Nat /\ faults' \in {faults, faults + 1}
  BY FaultsCount
<1>4. faults' = faults => NoFault
  BY FaultsCount
<1> QED
  BY <1>1, <1>2, <1>3, <1>4, QuietKeeps

LEMMA MoveOwnerKeeps ==
  ASSUME IInv, NEW r \in Request, MoveOwner(r)
  PROVE  IInv'
<1>1. /\ req[r].step = "m_owner" /\ UNCHANGED <<tree, kept, names, day>>
      /\ rows' \subseteq rows /\ rules' = rules /\ ~Copies(r)
  BY DEF MoveOwner, Copies
<1>2. owners \cup rules \subseteq Seq(Name)
  BY DEF IInv, RowsFit
<1>3. CASE Done(r) /\ owners' = owners /\ (NoFault \/ Fault)
  BY <1>1, <1>2, <1>3, EndingKeeps
<1>4. CASE NoFault /\ Goto(r, "m_rules") /\ owners' = Carried(owners, req[r].from, req[r].to)
  <2>1. Fitting(req[r], names, day, folder)
    BY DEF IInv, RequestsFit
  <2>2. req[r].from \in Path /\ req[r].to \in Path
    BY <1>1, <2>1 DEF Fitting, Moving
  <2>3. Only(r) /\ req'[r] = [req[r] EXCEPT !.step = "m_rules"]
    BY <1>4, GotoIs DEF IInv
  <2>4. Fitting(req'[r], names, day, folder) /\ HeldBy(req'[r]) = {} /\ req'[r].step = "m_rules"
    <3>1. "m_rules" \in Moving
      BY DEF Moving
    <3>2. /\ req'[r] \in RequestOf(names, day) /\ req'[r].step = "m_rules"
          /\ req'[r].from = req[r].from /\ req'[r].to = req[r].to
      BY <2>1, <2>3, <3>1, StepFits
    <3> QED
      BY <2>2, <3>2 DEF Fitting, Moving, Copying, Holding, Noting, HeldBy
  <2>5. owners' \cup rules' \subseteq Seq(Name)
    BY <1>1, <1>2, <1>4, <2>2, CarriedArePaths
  <2> QED
    BY <1>1, <1>4, <2>3, <2>4, <2>5, FaultsCount, QuietKeeps
<1> QED
  BY <1>3, <1>4 DEF MoveOwner

LEMMA MoveRulesKeeps ==
  ASSUME IInv, NEW r \in Request, MoveRules(r)
  PROVE  IInv'
<1>1. /\ req[r].step = "m_rules" /\ UNCHANGED <<tree, kept, names, day>>
      /\ rows' \subseteq rows /\ owners' = owners /\ ~Copies(r) /\ Done(r) /\ (NoFault \/ Fault)
      /\ rules' = rules \/ rules' = Carried(rules, req[r].from, req[r].to)
  BY DEF MoveRules, Copies
<1>2. owners \cup rules \subseteq Seq(Name)
  BY DEF IInv, RowsFit
<1>3. req[r].from \in Path /\ req[r].to \in Path
  BY <1>1 DEF IInv, RequestsFit, Fitting, Moving
<1>4. owners' \cup rules' \subseteq Seq(Name)
  BY <1>1, <1>2, <1>3, CarriedArePaths
<1> QED
  BY <1>1, <1>4, EndingKeeps

LEMMA ClearOwnerKeeps ==
  ASSUME IInv, NEW r \in Request, ClearOwner(r)
  PROVE  IInv'
<1>1. /\ req[r].step = "d_clear" /\ UNCHANGED <<tree, kept, names, day>>
      /\ rows' \subseteq rows /\ owners' \subseteq owners /\ rules' = rules /\ ~Copies(r) /\ Done(r)
      /\ NoFault \/ Fault
  BY DEF ClearOwner, Copies
<1>2. owners' \cup rules' \subseteq Seq(Name)
  BY <1>1 DEF IInv, RowsFit
<1> QED
  BY <1>1, <1>2, EndingKeeps

LEMMA SetOwnerKeeps ==
  ASSUME IInv, NEW r \in Request, SetOwner(r)
  PROVE  IInv'
<1>1. /\ req[r].step \in {"c_owner", "r_owner"} /\ UNCHANGED <<tree, kept, names, day>>
      /\ rows' \subseteq rows /\ rules' = rules /\ ~Copies(r) /\ Done(r) /\ (NoFault \/ Fault)
      /\ owners' \subseteq owners \cup {IF req[r].step = "c_owner" THEN req[r].to ELSE req[r].item.path}
  BY DEF SetOwner, Copies
<1>2. (IF req[r].step = "c_owner" THEN req[r].to ELSE req[r].item.path) \in Path
  BY <1>1 DEF IInv, RequestsFit, Fitting, Copying, Noting, ItemOf
<1>3. owners' \cup rules' \subseteq Seq(Name)
  BY <1>1, <1>2, PathsAreSeqs DEF IInv, RowsFit
<1> QED
  BY <1>1, <1>3, EndingKeeps

\* The number of a new row is greater than any there is.
LEMMA FreshIdIsNew ==
  ASSUME RowsFit
  PROVE  FreshId \in Nat /\ FreshId # 0 /\ \A w \in rows : w.id # FreshId
<1>1. \A w \in rows : w.id \in Nat
  BY DEF RowsFit, Item, ItemOf
<1>2. CASE rows = {}
  BY <1>2 DEF FreshId
<1>3. CASE rows # {}
  <2> DEFINE AtLeast(w) == {v \in rows : v.id >= w.id}
             T == {AtLeast(w) : w \in rows}
             R == StrictSubsetOrdering(rows)
             Tops(w) == \A v \in rows : v.id <= w.id
  <2>1. T \subseteq SUBSET rows /\ T # {}
    BY <1>3
  <2>2. IsWellFoundedOn(R, SUBSET rows)
    BY FS_FiniteSubsetsOfFinite, FS_StrictSubsetOrderingWellFounded DEF RowsFit
  <2>3. PICK w \in rows : \A v \in rows : <<AtLeast(v), AtLeast(w)>> \notin R
    <3> HIDE DEF R, AtLeast
    <3>1. \E x \in T : \A y \in T : <<y, x>> \notin R
      <4> HIDE DEF T
      <4> QED
        BY <2>1, <2>2, WFMin
    <3> QED
      BY <3>1
  <2>4. ASSUME NEW v \in rows PROVE v.id <= w.id
    <3>1. ASSUME v.id > w.id PROVE FALSE
      <4>1. AtLeast(v) \subseteq AtLeast(w)
        BY <1>1, <3>1
      <4>2. w \in AtLeast(w) /\ w \notin AtLeast(v)
        BY <1>1, <3>1
      <4>3. AtLeast(w) \in SUBSET rows /\ AtLeast(v) \in SUBSET rows
        OBVIOUS
      <4> HIDE DEF AtLeast
      <4>4. <<AtLeast(v), AtLeast(w)>> \in R
        BY <4>1, <4>2, <4>3 DEF StrictSubsetOrdering
      <4> QED
        BY <2>3, <4>4
    <3> QED
      BY <1>1, <3>1
  <2>5. Tops(w)
    BY <2>4
  <2>6. FreshId = 1 + (CHOOSE u \in rows : Tops(u)).id
    BY <1>3 DEF FreshId
  <2> HIDE DEF Tops
  <2>7. PICK u \in rows : Tops(u) /\ FreshId = 1 + u.id
    BY <2>5, <2>6
  <2>8. \A v \in rows : v.id <= u.id
    BY <2>7 DEF Tops
  <2> QED
    BY <1>1, <2>7, <2>8
<1> QED
  BY <1>2, <1>3

\* A request goes on with the row it has.
LEMMA GoesOn ==
  ASSUME IInv, NEW r \in Request, req[r].step \in (Holding \ {"next"}) \cup Noting,
         NEW s \in ((Holding \ {"p_remove"}) \cup Noting) \ {"d_record"}, Goto(r, s),
         s \in {"u_look", "u_rename"} => req[r].step \in {"d_record", "u_look", "u_rename"}
  PROVE  /\ Only(r) /\ req'[r].step = s
         /\ req'[r].item = req[r].item /\ req'[r].queue = req[r].queue /\ req'[r].node = req[r].node
         /\ Fitting(req'[r], names, day, folder)
         /\ req[r].item \in Item /\ ~Copies(r)
         /\ HeldBy(req'[r]) \subseteq {req[r].item} \cup req[r].queue
         /\ req[r].step \in Holding => HeldBy(req'[r]) \subseteq Held(r)
         /\ req[r].step = "d_record" => req[r].queue = {} /\ HeldBy(req'[r]) \subseteq {req[r].item}
<1>1. Only(r) /\ req'[r] = [req[r] EXCEPT !.step = s]
  BY GotoIs DEF IInv
<1>2. Fitting(req[r], names, day, folder)
  BY DEF IInv, RequestsFit
<1>3. /\ req'[r] \in RequestOf(names, day)
      /\ req'[r].step = s /\ req'[r].item = req[r].item /\ req'[r].queue = req[r].queue
      /\ req'[r].node = req[r].node
  BY <1>1, <1>2, StepFits
<1>4. /\ req[r].item \in ItemOf(names, day) /\ (req[r].step = "d_record" => req[r].queue = {})
      /\ s \in {"u_look", "u_rename"} => req[r].item.id = 0
  BY <1>2 DEF Fitting
<1>5. s \notin {"d_record", "p_remove"} \cup Copying \cup Moving /\ ~Copies(r)
  BY DEF Holding, Noting, Copying, Moving, Copies
<1>6. Fitting(req'[r], names, day, folder)
  BY <1>3, <1>4, <1>5 DEF Fitting
<1> QED
  BY <1>1, <1>3, <1>4, <1>5, <1>6 DEF HeldBy, Held, Item

LEMMA RestoreLookKeeps ==
  ASSUME IInv, NEW r \in Request, RestoreLook(r)
  PROVE  IInv'
<1>1. /\ req[r].step \in {"r_look", "u_look"} /\ UNCHANGED <<tree, kept, names, day, stops, rows>> /\ NoFault
      /\ owners' = owners /\ rules' = rules
      /\ \/ Goto(r, "r_rename") \/ (req[r].step = "u_look" /\ Goto(r, "u_rename"))
         \/ Done(r)
  <2> DEFINE s == IF req[r].step = "r_look" THEN "r_rename" ELSE "u_rename"
  <2>1. /\ req[r].step \in {"r_look", "u_look"} /\ UNCHANGED <<tree, kept, names, day, stops, rows>> /\ NoFault
        /\ owners' = owners /\ rules' = rules
    BY DEF RestoreLook, NoFault, tables, bounds
  <2>2. Goto(r, s) \/ Done(r)
    BY DEF RestoreLook
  <2>3. s = "r_rename" \/ (req[r].step = "u_look" /\ s = "u_rename")
    BY <2>1
  <2> HIDE DEF s
  <2>4. Goto(r, "r_rename") \/ (req[r].step = "u_look" /\ Goto(r, "u_rename")) \/ Done(r)
    BY <2>2, <2>3
  <2> QED
    BY <2>1, <2>4
<1>2. owners' \cup rules' \subseteq Seq(Name)
  BY <1>1 DEF IInv, RowsFit
<1>3. req[r].step \in Holding /\ req[r].step \notin {"next", "p_row", "r_row"} /\ ~Copies(r)
  BY <1>1 DEF Holding, Copies
<1>4. CASE Done(r)
  BY <1>1, <1>2, <1>3, <1>4, EndingKeeps
<1>5. CASE Goto(r, "r_rename") \/ (req[r].step = "u_look" /\ Goto(r, "u_rename"))
  <2>1. PICK s \in {"r_rename", "u_rename"} : Goto(r, s) /\ (s = "u_rename" => req[r].step = "u_look")
    BY <1>5
  <2>2. s \in ((Holding \ {"p_remove"}) \cup Noting) \ {"d_record"}
    BY DEF Holding, Noting
  <2>3. /\ Only(r) /\ req'[r].step = s /\ Fitting(req'[r], names, day, folder)
        /\ HeldBy(req'[r]) \subseteq Held(r)
    BY <1>3, <2>1, <2>2, GoesOn
  <2> QED
    BY <1>1, <1>2, <1>3, <2>3, FaultsCount, QuietKeeps
<1> QED
  BY <1>1, <1>4, <1>5

LEMMA DeleteTrashKeeps ==
  ASSUME IInv, NEW r \in Request, DeleteTrash(r)
  PROVE  IInv'
<1>1. /\ req[r].step \in {"p_row", "r_row"} /\ UNCHANGED <<tree, kept, names, day>>
      /\ owners' = owners /\ rules' = rules /\ rows' \subseteq rows
      /\ \/ NoFault /\ rows' = {w \in rows : w.id # req[r].item.id}
         \/ Fault
      /\ \/ Done(r)
         \/ NoFault /\ (Goto(r, "r_owner") \/ Goto(r, "next"))
  BY DEF DeleteTrash
<1>2. owners' \cup rules' \subseteq Seq(Name)
  BY <1>1 DEF IInv, RowsFit
<1>3. req[r].step \in Holding \ {"next"} /\ ~Copies(r)
  BY <1>1 DEF Holding, Copies
<1>4. faults' = faults => \A w \in rows' : w.id # req[r].item.id
  BY <1>1, FaultsCount
<1>5. CASE Done(r)
  BY <1>1, <1>2, <1>3, <1>4, <1>5, FaultsCount, EndingKeeps
<1>6. CASE NoFault /\ (Goto(r, "r_owner") \/ Goto(r, "next"))
  <2>1. PICK s \in {"r_owner", "next"} : Goto(r, s)
    BY <1>6
  <2>2. s \in ((Holding \ {"p_remove"}) \cup Noting) \ {"d_record"}
    BY DEF Holding, Noting
  <2>3. /\ Only(r) /\ req'[r].step = s /\ Fitting(req'[r], names, day, folder)
        /\ HeldBy(req'[r]) \subseteq Held(r)
    BY <1>3, <2>1, <2>2, GoesOn
  <2>4. calls' \in Nat /\ faults' = faults /\ stops' = stops
    BY <1>6, FaultsCount
  <2> QED
    BY <1>1, <1>2, <1>3, <1>4, <2>3, <2>4, QuietKeeps
<1> QED
  BY <1>1, <1>5, <1>6

\* A request begins with nothing but rows.
LEMMA BeginningKeeps ==
  ASSUME IInv, NEW r \in Request, Arrive(r), NEW v, Begin(r, v),
         UNCHANGED <<tree, kept, names, day, rows, owners, rules>>,
         Fitting(v, names, day, folder), v.step \notin {"c_entry", "d_record", "p_remove"},
         HeldBy(v) \subseteq rows \cup {NoRow}
  PROVE  IInv'
<1>1. Only(r) /\ req'[r] = v
  BY BeginIs DEF IInv
<1>2. req[r].step = "idle" /\ ~Copies(r)
  BY DEF Arrive, Copies
<1>3. owners' \cup rules' \subseteq Seq(Name)
  BY DEF IInv, RowsFit
<1>4. calls' \in Nat /\ faults' = faults /\ stops' = stops
  BY FaultsCount
<1> QED
  BY <1>1, <1>2, <1>3, <1>4, QuietKeeps

LEMMA ByRowKeeps ==
  ASSUME IInv, NEW r \in Request, NEW w \in rows, Restore(r, w) \/ Purge(r, w)
  PROVE  IInv'
<1>1. PICK s \in {"r_look", "p_open"} : Begin(r, RowRequest(s, w))
  BY DEF Restore, Purge, RowRequest
<1>2. Arrive(r) /\ UNCHANGED <<tree, kept, names, day, rows, owners, rules>>
  BY DEF Restore, Purge, tables
<1>3. /\ w \in ItemOf(names, day) /\ s \in Holding /\ s \in (Holding \ {"next", "p_remove"}) \cup Noting
      /\ s \notin {"d_record", "u_look", "u_rename"}
  BY DEF IInv, RowsFit, Item, Holding
<1>4. /\ Fitting(RowRequest(s, w), names, day, folder) /\ RowRequest(s, w).step = s
      /\ HeldBy(RowRequest(s, w)) = {w}
  BY <1>3, RowBegins
<1> QED
  BY <1>1, <1>2, <1>4, BeginningKeeps

LEMMA ByListKeeps ==
  ASSUME IInv, NEW r \in Request, Empty(r) \/ PurgeExpired(r)
  PROVE  IInv'
<1>1. PICK s \in {"all", "expired"}, Q \in SUBSET rows : Begin(r, ListRequest(s, Q))
  <2>1. {w \in rows : w.day < day} \in SUBSET rows /\ rows \in SUBSET rows
    OBVIOUS
  <2>2. CASE Empty(r)
    <3>1. Begin(r, ListRequest("all", rows))
      BY <2>2 DEF Empty, ListRequest
    <3> QED
      BY <2>1, <3>1
  <2>3. CASE PurgeExpired(r)
    <3>1. Begin(r, ListRequest("expired", {w \in rows : w.day < day}))
      BY <2>3 DEF PurgeExpired, ListRequest
    <3> QED
      BY <2>1, <3>1
  <2> QED
    BY <2>2, <2>3
<1>2. Arrive(r) /\ UNCHANGED <<tree, kept, names, day, rows, owners, rules>>
  BY DEF Empty, PurgeExpired, tables
<1>3. Q \in SUBSET ItemOf(names, day)
  BY DEF IInv, RowsFit, Item
<1>4. /\ Fitting(ListRequest(s, Q), names, day, folder) /\ ListRequest(s, Q).step = "next"
      /\ HeldBy(ListRequest(s, Q)) = {NoRow} \cup Q
  BY <1>3, ListBegins
<1> QED
  BY <1>1, <1>2, <1>4, BeginningKeeps

LEMMA TakeNextKeeps ==
  ASSUME IInv, NEW r \in Request, TakeNext(r)
  PROVE  IInv'
<1>1. /\ req[r].step = "next" /\ UNCHANGED <<tree, kept, names, day, rows, owners, rules, stops>> /\ NoFault
  BY DEF TakeNext, NoFault, tables, bounds
<1>2. owners' \cup rules' \subseteq Seq(Name) /\ ~Copies(r)
  BY <1>1 DEF IInv, RowsFit, Copies
<1>3. CASE Done(r)
  BY <1>1, <1>2, <1>3, EndingKeeps
<1>4. ASSUME NEW w \in req[r].queue, NEW v \in req[r].queue \cup rows, Take(r, w, v) PROVE IInv'
  <2>1. Fitting(req[r], names, day, folder)
    BY DEF IInv, RequestsFit
  <2>2. req[r] \in RequestOf(names, day)
    BY <2>1 DEF Fitting
  <2>3. v \in ItemOf(names, day) /\ req[r].queue \subseteq ItemOf(names, day)
    BY <2>2 DEF RequestOf, IInv, RowsFit, Item
  <2>4. Only(r) /\ req'[r] = [req[r] EXCEPT !.step = "p_open", !.item = v, !.queue = @ \ {w}]
    <3>1. req = [q \in Request |-> req[q]]
      BY DEF IInv, RequestsFit
    <3> QED
      BY <1>4, <3>1 DEF Take, Only
  <2>5. /\ req'[r] \in RequestOf(names, day) /\ req'[r].step = "p_open"
        /\ req'[r].item = v /\ req'[r].queue = req[r].queue \ {w}
    <3>1. "p_open" \in Holding /\ req[r].queue \ {w} \in SUBSET ItemOf(names, day)
      BY <2>3 DEF Holding
    <3>2. req'[r] = [step |-> "p_open", mode |-> req[r].mode, from |-> req[r].from, to |-> req[r].to,
                     item |-> v, queue |-> req[r].queue \ {w}, node |-> req[r].node, todo |-> req[r].todo,
                     missed |-> req[r].missed]
      BY <2>2, <2>4 DEF RequestOf
    <3>3. /\ req[r].mode \in {"one", "all", "expired"}
          /\ req[r].from \in Path \cup {<<>>} /\ req[r].to \in Path \cup {<<>>}
          /\ req[r].node \in Int /\ req[r].todo \in SUBSET Seq(Name) /\ req[r].missed \in SUBSET Seq(Name)
      BY <2>2 DEF RequestOf
    <3>4. req'[r] \in RequestOf(names, day)
      BY <2>3, <3>1, <3>2, <3>3 DEF RequestOf
    <3> QED
      BY <3>2, <3>4
  <2>6. Fitting(req'[r], names, day, folder)
    BY <2>3, <2>5 DEF Fitting, Holding, Noting, Copying, Moving
  <2>7. HeldBy(req'[r]) \subseteq Held(r) \cup rows
    BY <1>1, <2>5 DEF HeldBy, Held, Holding
  <2> QED
    BY <1>1, <1>2, <2>4, <2>5, <2>6, <2>7, FaultsCount, QuietKeeps
<1> QED
  BY <1>3, <1>4 DEF TakeNext

LEMMA CreateTrashKeeps ==
  ASSUME IInv, NEW r \in Request, CreateTrash(r)
  PROVE  IInv'
<1>1. /\ req[r].step = "d_record" /\ UNCHANGED <<tree, kept, names, day, owners, rules>> /\ ~Copies(r)
      /\ req[r].step \in (Holding \ {"next"}) \cup Noting
  BY DEF CreateTrash, Copies, Noting
<1>2. owners' \cup rules' \subseteq Seq(Name)
  BY <1>1 DEF IInv, RowsFit
<1>3. CASE Fault /\ rows' = rows /\ Goto(r, "u_look")
  <2>1. "u_look" \in ((Holding \ {"p_remove"}) \cup Noting) \ {"d_record"}
    BY DEF Holding
  <2>2. /\ Only(r) /\ req'[r].step = "u_look" /\ Fitting(req'[r], names, day, folder)
        /\ HeldBy(req'[r]) \subseteq {req[r].item}
    BY <1>1, <1>3, <2>1, GoesOn
  <2>3. calls' \in Nat /\ faults' = faults + 1 /\ stops' = stops
    BY <1>3, FaultsCount
  <2> QED
    BY <1>1, <1>2, <1>3, <2>2, <2>3, QuietKeeps
<1>4. CASE NoFault /\ rows' = rows \cup {[req[r].item EXCEPT !.id = FreshId]} /\ Goto(r, "d_clear")
  <2> DEFINE new == [req[r].item EXCEPT !.id = FreshId]
  <2>1. "d_clear" \in ((Holding \ {"p_remove"}) \cup Noting) \ {"d_record"} /\ "d_clear" \notin Holding
    BY DEF Noting, Holding
  <2>2. /\ Only(r) /\ req'[r].step = "d_clear" /\ Fitting(req'[r], names, day, folder)
        /\ req[r].item \in Item
    BY <1>1, <1>4, <2>1, GoesOn
  <2>3. HeldBy(req'[r]) = {}
    BY <2>1, <2>2 DEF HeldBy
  <2>4. FreshId \in Nat /\ FreshId # 0 /\ \A w \in rows : w.id # FreshId
    BY FreshIdIsNew DEF IInv
  <2>5. new \in Item /\ new.id = FreshId /\ new.name = req[r].item.name
    BY <2>2, <2>4 DEF Item, ItemOf
  <2> HIDE DEF new
  <2>6. rows' = rows \cup {new}
    BY <1>4 DEF new
  <2>7. calls' \in Nat /\ faults' = faults /\ stops' = stops
    BY <1>4, FaultsCount
  <2>8. /\ at' = at /\ folder' = folder /\ born' = born /\ names' = names /\ day' = day /\ kept' = kept
    BY <1>1 DEF tree
  <2>9. \A q \in Request : q # r => req'[q] = req[q]
    BY <2>2, OnlyOne
  <2>10. /\ TrashNode(req[r].item) # Nowhere
         /\ \A w \in rows : w.name # new.name
         /\ \A q \in Request :
              /\ \A v \in Held(q) : v.name # new.name
              /\ q # r /\ req[q].step = "d_record" => req[q].item.name # new.name
    BY <1>1, <2>5 DEF IInv, RecordsAreNew
  <2>11. \A w : TrashNode(w)' = TrashNode(w)
    BY <2>8 DEF TrashNode, Entry
  <2>12. TreeStands'
    BY <2>8 DEF IInv, TreeStands
  <2>13. RowsFit'
    <3>1. rows' \subseteq Item' /\ IsFiniteSet(rows')
      BY <2>5, <2>6, <2>8, FS_AddElement DEF IInv, RowsFit, Item
    <3>2. \A w \in rows' : w.id # 0
      BY <2>4, <2>5, <2>6 DEF IInv, RowsFit
    <3>3. \A w, v \in rows' : w.id = v.id \/ w.name = v.name => w = v
      BY <2>4, <2>5, <2>6, <2>10 DEF IInv, RowsFit
    <3> QED
      BY <1>2, <2>7, <2>8, <3>1, <3>2, <3>3, FaultsCount DEF IInv, RowsFit
  <2>14. RequestsFit'
    <3>1. names \in Nat /\ day \in Nat
      BY DEF IInv, TreeStands, Sound, RowsFit
    <3> QED
      BY <2>2, <2>8, <3>1, RequestsStay
  <2>15. HeldIsTheRow'
    <3>1. ASSUME NEW q \in Request, NEW v \in HeldBy(req'[q]), NEW w \in rows', v.name = w.name PROVE v = w
      <4>1. q # r /\ v \in Held(q)
        BY <2>3, <2>9, <3>1 DEF Held
      <4>2. w # new
        BY <2>10, <3>1, <4>1
      <4> QED
        BY <2>6, <3>1, <4>1, <4>2 DEF IInv, HeldIsTheRow
    <3> QED
      BY <3>1 DEF HeldIsTheRow, Held
  <2>16. RecordsAreNew'
    <3>1. ASSUME NEW q \in Request, req'[q].step = "d_record"
          PROVE  /\ EntryIn(at', Trash, req'[q].item.name) # Nowhere
                 /\ \A w \in rows' : w.name # req'[q].item.name
                 /\ \A p \in Request :
                      /\ \A v \in HeldBy(req'[p]) : v.name # req'[q].item.name
                      /\ p # q /\ req'[p].step = "d_record" => req'[p].item.name # req'[q].item.name
      <4>1. q # r /\ req'[q] = req[q] /\ req[q].step = "d_record"
        BY <2>2, <2>9, <3>1
      <4>2. /\ TrashNode(req[q].item) # Nowhere
            /\ \A w \in rows : w.name # req[q].item.name
            /\ \A p \in Request :
                 /\ \A v \in Held(p) : v.name # req[q].item.name
                 /\ p # q /\ req[p].step = "d_record" => req[p].item.name # req[q].item.name
        BY <4>1 DEF IInv, RecordsAreNew
      <4>3. EntryIn(at', Trash, req'[q].item.name) # Nowhere
        BY <2>8, <4>1, <4>2, TrashNodeIs
      <4>4. \A w \in rows' : w.name # req'[q].item.name
        BY <2>6, <2>10, <4>1, <4>2
      <4>5. ASSUME NEW p \in Request
            PROVE  /\ \A v \in HeldBy(req'[p]) : v.name # req'[q].item.name
                   /\ p # q /\ req'[p].step = "d_record" => req'[p].item.name # req'[q].item.name
        <5>1. CASE p = r
          BY <2>2, <2>3, <5>1
        <5>2. CASE p # r
          BY <2>9, <4>1, <4>2, <5>2 DEF Held
        <5> QED
          BY <5>1, <5>2
      <4> QED
        BY <4>3, <4>4, <4>5
    <3>2. \A q \in Request : TrashNode(req[q].item)' = EntryIn(at', Trash, req'[q].item.name)
      BY EntryIs DEF TrashNode, Trash
    <3> QED
      BY <3>1, <3>2 DEF RecordsAreNew, Held
  <2>17. MissingIsCleared'
    <3>1. ASSUME faults + stops = 0, NEW w \in rows', TrashNode(w) = Nowhere
          PROVE  \E q \in Request : req'[q].step \in {"p_row", "r_row"} /\ req'[q].item.id = w.id
      <4>1. w # new
        BY <2>5, <2>10, <3>1 DEF TrashNode
      <4>2. PICK q \in Request : req[q].step \in {"p_row", "r_row"} /\ req[q].item.id = w.id
        BY <2>6, <3>1, <4>1 DEF IInv, MissingIsCleared
      <4>3. q # r
        BY <1>1, <4>2
      <4> QED
        BY <2>9, <4>2, <4>3
    <3> QED
      BY <2>7, <2>11, <3>1 DEF MissingIsCleared
  <2>18. TempsStand' /\ TodoIsOpen' /\ KeptIsCopied'
    <3>1. Tree(at') /\ born' \in Int /\ born <= born'
      BY <2>8, SoundIsTree DEF IInv, TreeStands
    <3>2. \A q \in Request : req'[q].step = "c_entry" => req'[q] = req[q] /\ Apart(at, at', req[q].node)
      BY <2>2, <2>8, <2>9 DEF Apart
    <3>3. \A q \in Request : req'[q].step = "p_remove" => req[q].step = "p_remove" /\ req'[q].node = req[q].node
      BY <2>2, <2>9
    <3>4. kept' \in [Request -> SUBSET Kept]
      BY <2>8 DEF IInv, KeptIsCopied, Kept
    <3>5. \A q \in Request : \A k \in kept'[q] :
            /\ k \in kept[q] /\ req'[q].step = "c_entry"
            /\ \A p \in Seq(Name) : WalkIn(at, Root, p) = k.node => WalkIn(at', Root, p) = k.node
      BY <1>1, <2>8, <2>9 DEF IInv, KeptIsCopied, Copies
    <3>6. \A n \in Node : at'[n].in = Temp =>
             at[n].in = Temp /\ \A q \in Request : Copies(q) /\ req[q].node = n => req'[q].step = "c_entry"
      BY <1>1, <2>8, <2>9 DEF Copies
    <3> QED
      BY <2>7, <2>8, <3>1, <3>2, <3>3, <3>4, <3>5, <3>6, CopiesStay
  <2> QED
    BY <2>12, <2>13, <2>14, <2>15, <2>16, <2>17, <2>18 DEF IInv
<1> QED
  BY <1>3, <1>4 DEF CreateTrash

-----------------------------------------------------------------------------
(* Steps that change the tree.                                             *)

\* The request that takes the step renames an entry that is in no temporary
\* tree, or the one it has made.
LEMMA PlaceStays ==
  ASSUME IInv, NEW r \in Request, NEW n \in Node, at[n].in # Nowhere,
         NEW d \in {Root, Trash} \cup folder, d \in Node => at[d].in # Nowhere, d # n,
         names' \in Nat, names <= names',
         NEW x, d \in Node \cup {Root} => x \in Name, d = Trash => x \in 1..names',
         EntryIn(at, d, x) \in Node => EntryIn(at, d, x) # n /\ \A m \in Node : at[m].in # EntryIn(at, d, x),
         Place(r, n, d, x), folder' = folder, born' = born, stops' = stops,
         Only(r), req'[r].step \notin {"c_entry", "p_remove"},
         \A q \in Request : Copies(q) /\ q # r =>
           n \notin InsideIn(at, req[q].node) /\ d \notin InsideIn(at, req[q].node),
         Copies(r) => n = req[r].node
  PROVE  /\ TreeStands' /\ TempsStand' /\ TodoIsOpen' /\ KeptIsCopied'
         /\ \A m \in Node : m # n /\ at[m].in # d => at'[m] = at[m]
<1> DEFINE e == EntryIn(at, d, x)
<1>0. Sound(at, folder, born, names) /\ Tree(at) /\ folder \subseteq Node /\ born \in Nat
  BY SoundIsTree DEF IInv, TreeStands
<1>1. /\ at' = Placed(at, n, d, x)
      /\ kept' = [q \in Request |-> IF q = r THEN {} ELSE
                    {k \in kept[q] : k.node # e /\ k.node \notin InsideIn(at, n)}]
  BY PlaceIs
<1>2. Sound(at', folder', born', names')
  BY <1>0, <1>1, PlacedIsSound
<1>3. Tree(at')
  BY <1>2, SoundIsTree
<1>4. \A q \in Request : q # r => req'[q] = req[q]
  BY OnlyOne
<1>5. ASSUME NEW q \in Request, req'[q].step = "c_entry"
      PROVE  req'[q] = req[q] /\ Apart(at, at', req[q].node)
  <2>1. q # r /\ req'[q] = req[q] /\ Copies(q)
    BY <1>4, <1>5 DEF Copies
  <2>2. req[q].node \in Node /\ at[req[q].node].in = Temp
    BY <2>1, TempIs
  <2>3. n \notin InsideIn(at, req[q].node) /\ d \in (Node \cup {Root, Trash}) \ InsideIn(at, req[q].node)
    BY <1>0, <2>1
  <2> QED
    BY <1>0, <1>1, <2>1, <2>2, <2>3, PlacedIsApart
<1>6. \A q \in Request : req'[q].step = "p_remove" => req[q].step = "p_remove" /\ req'[q].node = req[q].node
  BY <1>4
<1>7. kept \in [Request -> SUBSET Kept] /\ \A q \in Request : kept[q] # {} => Copies(q)
  BY DEF IInv, KeptIsCopied, Kept
<1>8. kept' \in [Request -> SUBSET Kept]
  BY <1>1, <1>7
<1>9. ASSUME NEW q \in Request, NEW k \in kept'[q]
      PROVE  /\ k \in kept[q] /\ req'[q].step = "c_entry"
             /\ \A p \in Seq(Name) : WalkIn(at, Root, p) = k.node => WalkIn(at', Root, p) = k.node
  <2>1. q # r /\ k \in kept[q] /\ k.node # e /\ k.node \notin InsideIn(at, n)
    BY <1>1, <1>9
  <2>2. k.node \in Node /\ req'[q].step = "c_entry"
    BY <1>4, <1>7, <2>1 DEF Kept, Copies
  <2>3. ASSUME NEW p \in Seq(Name), WalkIn(at, Root, p) = k.node PROVE WalkIn(at', Root, p) = k.node
    <3>1. WalkIn(at, Root, p) \in Node /\ WalkIn(at, Root, p) \notin InsideIn(at, n) /\ WalkIn(at, Root, p) # e
      BY <2>1, <2>2, <2>3
    <3>2. Tree(Placed(at, n, d, x)) /\ Tree(at)
      BY <1>0, <1>1, <1>3
    <3>3. WalkIn(Placed(at, n, d, x), Root, p) = WalkIn(at, Root, p)
      BY <3>1, <3>2, PlacedKeeps
    <3> QED
      BY <1>1, <2>3, <3>3
  <2> QED
    BY <2>1, <2>2, <2>3
<1>10. \A m \in Node : at'[m] = IF m = n THEN [in |-> d, as |-> x] ELSE IF m = e THEN Absent ELSE at[m]
  BY <1>1 DEF Placed
<1>11. d # Temp /\ Absent.in # Temp
  BY <1>0, NodesAreNumbers DEF Absent
<1>12. ASSUME NEW m \in Node, at'[m].in = Temp
       PROVE  at[m].in = Temp /\ \A q \in Request : Copies(q) /\ req[q].node = m => req'[q].step = "c_entry"
  <2>1. m # n
    <3>1. ASSUME m = n PROVE FALSE
      <4>1. at'[m].in = d
        BY <1>10, <3>1
      <4> QED
        BY <1>11, <1>12, <4>1
    <3> QED
      BY <3>1
  <2>2. at[m].in = Temp
    BY <1>10, <1>11, <1>12, <2>1
  <2> QED
    BY <1>4, <2>1, <2>2 DEF Copies
<1>13. ASSUME NEW m \in Node, m # n, at[m].in # d PROVE at'[m] = at[m]
  <2>1. m # e
    <3>1. ASSUME m = e PROVE FALSE
      <4>1. at[e] = [in |-> d, as |-> x]
        BY <3>1, EntryFound, NodesAreNumbers
      <4>2. at[e].in = d
        BY <4>1
      <4> QED
        BY <1>13, <3>1, <4>2
    <3> QED
      BY <3>1
  <2> QED
    BY <1>10, <1>13, <2>1
<1>14. TempsStand' /\ TodoIsOpen' /\ KeptIsCopied'
  <2>1. born' \in Int /\ born <= born' /\ folder \subseteq folder' /\ (stops' = 0 => stops = 0)
    BY <1>0
  <2> QED
    BY <1>3, <1>5, <1>6, <1>8, <1>9, <1>12, <2>1, CopiesStay
<1> QED
  BY <1>2, <1>13, <1>14 DEF TreeStands

\* Where a rename may come to.
LEMMA RenameLeads ==
  ASSUME IInv, NEW n \in Node, NEW to \in Path, CanRename(n, to)
  PROVE  LET d == Find(Front(to)) IN
         /\ d \in {Root} \cup folder /\ (d \in Node => at[d].in # Nowhere) /\ d # n /\ Last(to) \in Name
         /\ EntryIn(at, d, Last(to)) \in Node =>
              EntryIn(at, d, Last(to)) # n /\ \A m \in Node : at[m].in # EntryIn(at, d, Last(to))
         /\ \A q \in Request : Copies(q) => d \notin InsideIn(at, req[q].node)
<1> DEFINE d == Find(Front(to))
           e == Entry(d, Last(to))
<1>1. to \in Seq(Name) /\ Front(to) \in Seq(Name) /\ Last(to) \in Name
  BY PathsAreSeqs
<1>2. d \in {Root} \cup folder /\ d \notin Inside(n)
  BY DEF CanRename, IsFolder
<1>3. d # n
  <2>1. n \in Inside(n)
    BY InsideIs, InsideHolds
  <2> QED
    BY <1>2, <2>1
<1>4. ASSUME e # Nowhere PROVE e # n /\ \A m \in Node : at[m].in # e
  BY <1>4 DEF CanRename, Children
<1>5. e = EntryIn(at, d, Last(to))
  BY EntryIs
<1>6. /\ d \in Node => at[d].in # Nowhere
      /\ \A q \in Request : Copies(q) => d \notin InsideIn(at, req[q].node)
  BY <1>1, FindLeads
<1> QED
  BY <1>1, <1>2, <1>3, <1>4, <1>5, <1>6, NodesAreNumbers

\* The same for a rename in the visible tree.
LEMMA RenameStays ==
  ASSUME IInv, NEW r \in Request, NEW n \in Node, at[n].in # Nowhere, NEW to \in Path,
         CanRename(n, to), Rename(r, n, to),
         names' = names, folder' = folder, born' = born, stops' = stops,
         Only(r), req'[r].step \notin {"c_entry", "p_remove"},
         \A q \in Request : Copies(q) /\ q # r => n \notin InsideIn(at, req[q].node),
         Copies(r) => n = req[r].node
  PROVE  /\ TreeStands' /\ TempsStand' /\ TodoIsOpen' /\ KeptIsCopied'
         /\ \A m \in Node : m # n /\ at[m].in = Trash => at'[m] = at[m]
<1> DEFINE d == Find(Front(to))
<1>1. /\ d \in {Root} \cup folder /\ (d \in Node => at[d].in # Nowhere) /\ d # n /\ Last(to) \in Name
      /\ EntryIn(at, d, Last(to)) \in Node =>
           EntryIn(at, d, Last(to)) # n /\ \A m \in Node : at[m].in # EntryIn(at, d, Last(to))
      /\ \A q \in Request : Copies(q) => d \notin InsideIn(at, req[q].node)
  BY RenameLeads
<1>2. Place(r, n, d, Last(to))
  BY DEF Rename
<1>3. folder \subseteq Node /\ names \in Nat
  BY SoundIsTree DEF IInv, TreeStands
<1> HIDE DEF d
<1>4. d \in {Root, Trash} \cup folder /\ d # Trash /\ names' \in Nat /\ names <= names'
  BY <1>1, <1>3, NodesAreNumbers
<1>5. /\ TreeStands' /\ TempsStand' /\ TodoIsOpen' /\ KeptIsCopied'
      /\ \A m \in Node : m # n /\ at[m].in # d => at'[m] = at[m]
  BY <1>1, <1>2, <1>4, PlaceStays
<1> QED
  BY <1>4, <1>5

\* The request that takes the step takes nodes away, with all that is in them,
\* outside temporary trees but its own.
LEMMA UnlinkStays ==
  ASSUME IInv, NEW r \in Request, NEW gone, Unlink(r, gone),
         \A m \in Node : at[m].in \in Node /\ at[m].in \in gone => m \in gone,
         names' = names, folder' = folder, born' = born, stops' = stops,
         Only(r), req'[r].step # "c_entry",
         req'[r].step = "p_remove" =>
           \/ req[r].step = "p_remove" /\ req'[r].node = req[r].node
           \/ \A q \in Request : Copies(q) => req'[r].node \notin InsideIn(at, req[q].node),
         \A q \in Request : Copies(q) /\ q # r => gone \cap InsideIn(at, req[q].node) = {},
         Copies(r) => req[r].node \in gone
  PROVE  /\ TreeStands' /\ TempsStand' /\ TodoIsOpen' /\ KeptIsCopied'
         /\ \A m \in Node : at'[m] = IF m \in gone THEN Absent ELSE at[m]
<1>0. Sound(at, folder, born, names) /\ Tree(at) /\ born \in Nat
  BY SoundIsTree DEF IInv, TreeStands
<1>1. /\ at' = Unlinked(at, gone)
      /\ kept' = [q \in Request |-> IF q = r THEN {} ELSE {k \in kept[q] : k.node \notin gone}]
  BY UnlinkIs
<1>2. Sound(at', folder', born', names')
  BY <1>0, <1>1, UnlinkedIsSound
<1>3. Tree(at')
  BY <1>2, SoundIsTree
<1>4. \A q \in Request : q # r => req'[q] = req[q]
  BY OnlyOne
<1>5. ASSUME NEW q \in Request, req'[q].step = "c_entry"
      PROVE  req'[q] = req[q] /\ Apart(at, at', req[q].node)
  <2>1. q # r /\ req'[q] = req[q] /\ Copies(q)
    BY <1>4, <1>5 DEF Copies
  <2>2. req[q].node \in Node
    BY <2>1, TempIs
  <2> QED
    BY <1>0, <1>1, <2>1, <2>2, UnlinkedIsApart
<1>6. \A q \in Request : req'[q].step = "p_remove" =>
        \/ req[q].step = "p_remove" /\ req'[q].node = req[q].node
        \/ \A p \in Request : Copies(p) => req'[q].node \notin InsideIn(at, req[p].node)
  BY <1>4
<1>7. kept \in [Request -> SUBSET Kept] /\ \A q \in Request : kept[q] # {} => Copies(q)
  BY DEF IInv, KeptIsCopied, Kept
<1>8. kept' \in [Request -> SUBSET Kept]
  BY <1>1, <1>7
<1>9. ASSUME NEW q \in Request, NEW k \in kept'[q]
      PROVE  /\ k \in kept[q] /\ req'[q].step = "c_entry"
             /\ \A p \in Seq(Name) : WalkIn(at, Root, p) = k.node => WalkIn(at', Root, p) = k.node
  <2>1. q # r /\ k \in kept[q] /\ k.node \notin gone
    BY <1>1, <1>9
  <2>2. k.node \in Node /\ req'[q].step = "c_entry"
    BY <1>4, <1>7, <2>1 DEF Kept, Copies
  <2>3. ASSUME NEW p \in Seq(Name), WalkIn(at, Root, p) = k.node PROVE WalkIn(at', Root, p) = k.node
    <3>1. WalkIn(at, Root, p) \in Node /\ WalkIn(at, Root, p) \notin gone
      BY <2>1, <2>2, <2>3
    <3>2. Tree(Unlinked(at, gone)) /\ Tree(at)
      BY <1>0, <1>1, <1>3
    <3>3. WalkIn(Unlinked(at, gone), Root, p) = WalkIn(at, Root, p)
      BY <3>1, <3>2, UnlinkedKeeps
    <3> QED
      BY <1>1, <2>3, <3>3
  <2> QED
    BY <2>1, <2>2, <2>3
<1>10. \A m \in Node : at'[m] = IF m \in gone THEN Absent ELSE at[m]
  BY <1>1 DEF Unlinked
<1>11. ASSUME NEW m \in Node, at'[m].in = Temp
       PROVE  at[m].in = Temp /\ \A q \in Request : Copies(q) /\ req[q].node = m => req'[q].step = "c_entry"
  <2>1. m \notin gone /\ at[m].in = Temp
    BY <1>10, <1>11, NodesAreNumbers DEF Absent
  <2> QED
    BY <1>4, <2>1 DEF Copies
<1>12. TempsStand' /\ TodoIsOpen' /\ KeptIsCopied'
  <2>1. born' \in Int /\ born <= born' /\ folder \subseteq folder' /\ (stops' = 0 => stops = 0)
    BY <1>0
  <2> QED
    BY <1>3, <1>5, <1>6, <1>8, <1>9, <1>11, <2>1, CopiesStay
<1> QED
  BY <1>2, <1>10, <1>12 DEF TreeStands

\* What becomes of rows and requests when the tree changes, and nothing leaves
\* the trash but the entry of the row that the request goes by, which it will
\* delete or has never written.
LEMMA OthersStay ==
  ASSUME IInv, Tree(at'), UNCHANGED <<rows, names, day>>, owners' = owners, rules' = rules,
         folder \subseteq folder', calls' \in Nat, faults' \in {faults, faults + 1}, stops' = stops,
         NEW r \in Request, Only(r), Fitting(req'[r], names, day, folder'), req'[r].step # "d_record",
         HeldBy(req'[r]) \subseteq Held(r) \cup rows \cup {NoRow},
         req[r].step \notin {"p_row", "r_row"},
         \A m \in Node : at[m].in = Trash /\ at'[m] # at[m] =>
           /\ req[r].item \in Held(r) /\ at[m].as = req[r].item.name
           /\ (req'[r].step \in {"p_row", "r_row"} /\ req'[r].item = req[r].item) \/ req[r].item.id = 0
  PROVE  RowsFit' /\ RequestsFit' /\ HeldIsTheRow' /\ RecordsAreNew' /\ MissingIsCleared'
<1>0. Tree(at) /\ names \in Nat /\ day \in Nat
  BY SoundIsTree DEF IInv, TreeStands, RowsFit
<1>1. \A q \in Request : q # r => req'[q] = req[q]
  BY OnlyOne
<1>2. faults \in Nat /\ stops \in Nat
  BY FaultsCount
<1>3. RowsFit'
  BY <1>2 DEF IInv, RowsFit, Item
<1>4. RequestsFit'
  BY <1>0, RequestsStay
<1>5. HeldIsTheRow' /\ RecordsAreNew'
  <2>1. ASSUME NEW q \in Request, NEW v \in HeldBy(req'[q]) PROVE v \in Held(q) \cup rows \cup {NoRow}
    <3>1. CASE q = r
      BY <3>1
    <3>2. CASE q # r
      BY <1>1, <3>2 DEF Held
    <3> QED
      BY <3>1, <3>2
  <2>2. ASSUME NEW q \in Request, req'[q].step = "d_record"
        PROVE  req'[q].item = req[q].item /\ req[q].step = "d_record" /\ TrashNode(req[q].item)' # Nowhere
    <3>1. q # r /\ req'[q] = req[q] /\ req[q].step = "d_record"
      BY <1>1, <2>2
    <3>2. TrashNode(req[q].item) # Nowhere /\ \A v \in Held(r) : v.name # req[q].item.name
      BY <3>1 DEF IInv, RecordsAreNew
    <3> DEFINE m == EntryIn(at, Trash, req[q].item.name)
    <3>3. m = TrashNode(req[q].item)
      BY TrashNodeIs
    <3> HIDE DEF m
    <3>4. m \in Node /\ at[m] = [in |-> Trash, as |-> req[q].item.name]
      BY <1>0, <3>2, <3>3, TrashNodeLeads
    <3>5. at[m].in = Trash /\ at[m].as = req[q].item.name
      BY <3>4
    <3>6. at'[m] = at[m]
      BY <3>2, <3>4, <3>5
    <3>7. EntryIn(at', Trash, req[q].item.name) = m
      BY <3>4, <3>6, EntryIsIt, NodesAreNumbers
    <3>8. TrashNode(req[q].item)' = EntryIn(at', Trash, req'[q].item.name)
      BY EntryIs DEF TrashNode, Trash
    <3> QED
      BY <3>1, <3>4, <3>7, <3>8, NodesAreNumbers
  <2> QED
    BY <2>1, <2>2, NamesStay
<1>6. MissingIsCleared'
  <2>1. ASSUME NEW w \in rows, TrashNode(w) # Nowhere, EntryIn(at', Trash, w.name) = Nowhere
        PROVE  req'[r].step \in {"p_row", "r_row"} /\ req'[r].item.id = w.id
    <3> DEFINE m == TrashNode(w)
    <3>1. m \in Node /\ at[m] = [in |-> Trash, as |-> w.name] /\ at[m].in = Trash
      BY <1>0, <2>1, TrashNodeLeads
    <3>2. at[m].as = w.name
      BY <3>1
    <3> HIDE DEF m
    <3>3. at'[m] # at[m]
      <4>1. ASSUME at'[m] = at[m] PROVE FALSE
        <5>1. EntryIn(at', Trash, w.name) = m
          BY <3>1, <4>1, EntryIsIt, NodesAreNumbers
        <5> QED
          BY <2>1, <3>1, <5>1, NodesAreNumbers
      <4> QED
        BY <4>1
    <3>4. /\ req[r].item \in Held(r) /\ w.name = req[r].item.name
          /\ (req'[r].step \in {"p_row", "r_row"} /\ req'[r].item = req[r].item) \/ req[r].item.id = 0
      BY <3>1, <3>2, <3>3
    <3>5. req[r].item = w
      BY <3>4 DEF IInv, HeldIsTheRow
    <3>6. w.id # 0
      BY DEF IInv, RowsFit
    <3> QED
      BY <3>4, <3>5, <3>6
  <2>2. \A q \in Request : req[q].step \in {"p_row", "r_row"} => req'[q] = req[q]
    BY <1>1
  <2>3. faults' \in Nat /\ stops' \in Nat /\ faults <= faults' /\ stops <= stops' /\ rows' \subseteq rows
    BY <1>2
  <2> QED
    BY <2>1, <2>2, <2>3, ClearingStays
<1> QED
  BY <1>3, <1>4, <1>5, <1>6

LEMMA MoveKeeps ==
  ASSUME IInv, NEW r \in Request, NEW from \in Path, NEW to \in Path, Move(r, from, to)
  PROVE  IInv'
<1> DEFINE n == Find(from)
<1>1. /\ Arrive(r) /\ n # Nowhere /\ CanRename(n, to) /\ Rename(r, n, to)
      /\ Begin(r, MoveRequest(from, to))
      /\ folder' = folder /\ born' = born /\ UNCHANGED <<rows, names, day>>
      /\ owners' = owners /\ rules' = rules
  BY DEF Move, Exists, MoveRequest, tables
<1>2. from \in Seq(Name) /\ from # <<>>
  BY PathsAreSeqs
<1>3. /\ n \in Node /\ at[n].in \in Node \cup {Root} /\ at[n].in # Nowhere
      /\ \A q \in Request : Copies(q) => n \notin InsideIn(at, req[q].node)
  BY <1>1, <1>2, FindLeads
<1> HIDE DEF n
<1>4. Only(r) /\ req'[r] = MoveRequest(from, to) /\ req[r].step = "idle" /\ ~Copies(r)
  BY <1>1, BeginIs DEF IInv, Arrive, Copies
<1>5. /\ Fitting(req'[r], names, day, folder') /\ req'[r].step = "m_owner" /\ HeldBy(req'[r]) = {}
  BY <1>1, <1>4, MoveBegins
<1>6. calls' \in Nat /\ faults' = faults /\ stops' = stops
  BY <1>1, FaultsCount
<1>7. /\ TreeStands' /\ TempsStand' /\ TodoIsOpen' /\ KeptIsCopied'
      /\ \A m \in Node : m # n /\ at[m].in = Trash => at'[m] = at[m]
  BY <1>1, <1>3, <1>4, <1>5, <1>6, RenameStays
<1>8. Tree(at') /\ \A m \in Node : at[m].in = Trash => at'[m] = at[m]
  BY <1>3, <1>7, SoundIsTree, NodesAreNumbers DEF TreeStands
<1>9. RowsFit' /\ RequestsFit' /\ HeldIsTheRow' /\ RecordsAreNew' /\ MissingIsCleared'
  BY <1>1, <1>4, <1>5, <1>6, <1>8, OthersStay
<1> QED
  BY <1>7, <1>9 DEF IInv

LEMMA RestoreRenameKeeps ==
  ASSUME IInv, NEW r \in Request, RestoreRename(r)
  PROVE  IInv'
<1> DEFINE w == req[r].item
           n == TrashNode(w)
<1>1. /\ req[r].step \in {"r_rename", "u_rename"} /\ folder' = folder /\ born' = born /\ NoFault
      /\ UNCHANGED <<rows, names, day>> /\ owners' = owners /\ rules' = rules
  BY DEF RestoreRename, NoFault, tables
<1>2. /\ req[r].step \in Holding \ {"next"} /\ req[r].step \notin {"p_row", "r_row"} /\ ~Copies(r)
      /\ w \in Held(r)
  BY <1>1 DEF Holding, Copies, Held, HeldBy
<1>3. CASE Done(r) /\ UNCHANGED <<at, kept>>
  <2>1. owners' \cup rules' \subseteq Seq(Name) /\ rows' \subseteq rows /\ UNCHANGED <<tree, kept, names, day>>
    BY <1>1, <1>3 DEF IInv, RowsFit, tree
  <2> QED
    BY <1>1, <1>2, <1>3, <2>1, EndingKeeps
<1>4. CASE /\ n # Nowhere /\ CanRename(n, w.path) /\ Rename(r, n, w.path)
           /\ IF req[r].step = "r_rename" THEN Goto(r, "r_row") ELSE Done(r)
  <2>1. Tree(at)
    BY SoundIsTree DEF IInv, TreeStands
  <2>2. /\ Fitting(req[r], names, day, folder)
        /\ w.path \in Path /\ (req[r].step = "u_rename" => w.id = 0)
    BY <1>2 DEF IInv, RequestsFit, Fitting, ItemOf
  <2>3. /\ n \in Node /\ at[n] = [in |-> Trash, as |-> w.name] /\ at[n].in = Trash /\ at[n].in # Nowhere
    BY <1>4, <2>1, TrashNodeLeads
  <2>4. at[n].as = w.name
    BY <2>3
  <2>5. \A q \in Request : Copies(q) => n \notin InsideIn(at, req[q].node)
    BY <2>1, <2>3, TempIs, TempsAreAway
  <2>6. calls' \in Nat /\ faults' = faults /\ stops' = stops
    BY <1>1, FaultsCount
  <2>7. /\ Only(r) /\ Fitting(req'[r], names, day, folder') /\ HeldBy(req'[r]) \subseteq Held(r)
        /\ req'[r].step \in {"idle", "r_row"}
        /\ req[r].step = "r_rename" => req'[r].step = "r_row" /\ req'[r].item = w
    <3>1. CASE Goto(r, "r_row")
      <4>1. "r_row" \in ((Holding \ {"p_remove"}) \cup Noting) \ {"d_record"}
        BY DEF Holding
      <4> QED
        BY <1>1, <1>2, <3>1, <4>1, GoesOn
    <3>2. CASE req[r].step # "r_rename" /\ Done(r)
      BY <1>1, <3>2, DoneIs, BlankFits DEF IInv
    <3> QED
      BY <1>4, <3>1, <3>2
  <2> HIDE DEF n
  <2>8. /\ TreeStands' /\ TempsStand' /\ TodoIsOpen' /\ KeptIsCopied'
        /\ \A m \in Node : m # n /\ at[m].in = Trash => at'[m] = at[m]
    BY <1>1, <1>2, <1>4, <2>2, <2>3, <2>5, <2>6, <2>7, RenameStays
  <2>9. Tree(at') /\ \A m \in Node : at[m].in = Trash /\ at'[m] # at[m] => m = n
    BY <2>8, SoundIsTree DEF TreeStands
  <2>10. (req'[r].step \in {"p_row", "r_row"} /\ req'[r].item = req[r].item) \/ req[r].item.id = 0
    BY <1>1, <2>2, <2>7
  <2>11. RowsFit' /\ RequestsFit' /\ HeldIsTheRow' /\ RecordsAreNew' /\ MissingIsCleared'
    BY <1>1, <1>2, <2>4, <2>6, <2>7, <2>9, <2>10, OthersStay
  <2> QED
    BY <2>8, <2>11 DEF IInv
<1> QED
  BY <1>3, <1>4 DEF RestoreRename

LEMMA PurgeOpenKeeps ==
  ASSUME IInv, NEW r \in Request, PurgeOpen(r)
  PROVE  IInv'
<1> DEFINE w == req[r].item
           n == TrashNode(w)
<1>1. /\ req[r].step = "p_open" /\ folder' = folder /\ born' = born
      /\ UNCHANGED <<rows, names, day>> /\ owners' = owners /\ rules' = rules
  BY DEF PurgeOpen, tables
<1>2. /\ req[r].step \in Holding \ {"next"} /\ req[r].step \notin {"p_row", "r_row"} /\ ~Copies(r)
      /\ w \in Held(r)
  BY <1>1 DEF Holding, Copies, Held, HeldBy
<1>3. owners' \cup rules' \subseteq Seq(Name) /\ rows' \subseteq rows
  BY <1>1 DEF IInv, RowsFit
<1>4. Sound(at, folder, born, names) /\ Tree(at) /\ folder \subseteq Node
  BY SoundIsTree DEF IInv, TreeStands
<1>5. Fitting(req[r], names, day, folder)
  BY DEF IInv, RequestsFit
<1>6. ASSUME n # Nowhere
      PROVE  /\ n \in Node /\ at[n].in = Trash /\ at[n].as = w.name
             /\ \A q \in Request : Copies(q) => n \notin InsideIn(at, req[q].node)
  <2>1. n \in Node /\ at[n] = [in |-> Trash, as |-> w.name] /\ at[n].in = Trash
    BY <1>4, <1>6, TrashNodeLeads
  <2>2. at[n].as = w.name
    BY <2>1
  <2> HIDE DEF n
  <2> QED
    BY <1>4, <2>1, <2>2, TempIs, TempsAreAway
<1>7. CASE Fault /\ Done(r) /\ UNCHANGED <<at, kept>>
  <2>1. UNCHANGED <<tree, kept, names, day>>
    BY <1>1, <1>7 DEF tree
  <2> QED
    BY <1>2, <1>3, <1>7, <2>1, EndingKeeps
<1>8. CASE /\ NoFault /\ n \in folder /\ UNCHANGED <<at, kept>>
           /\ req' = [req EXCEPT ![r].step = "p_remove", ![r].node = n]
  <2>1. n # Nowhere
    BY <1>4, <1>8, NodesAreNumbers
  <2> HIDE DEF n
  <2>2. Only(r) /\ req'[r] = [req[r] EXCEPT !.step = "p_remove", !.node = n]
    <3>1. req = [q \in Request |-> req[q]]
      BY DEF IInv, RequestsFit
    <3> QED
      BY <1>8, <3>1 DEF Only
  <2>3. /\ req'[r] \in RequestOf(names, day) /\ req'[r].step = "p_remove" /\ req'[r].node = n
        /\ req'[r].item = w /\ req'[r].queue = req[r].queue
    <3>1. "p_remove" \in Holding /\ n \in Int /\ req[r] \in RequestOf(names, day)
      BY <1>4, <1>5, <1>8, NodesAreNumbers DEF Holding, Fitting
    <3> QED
      BY <2>2, <3>1 DEF RequestOf
  <2>4. Fitting(req'[r], names, day, folder)
    <3>1. w \in ItemOf(names, day)
      BY <1>2, <1>5 DEF Fitting
    <3> QED
      BY <1>8, <2>3, <3>1 DEF Fitting, Copying, Moving
  <2>5. HeldBy(req'[r]) \subseteq Held(r)
    BY <1>2, <2>3 DEF HeldBy, Held
  <2>6. UNCHANGED <<tree, kept, names, day>>
    BY <1>1, <1>8 DEF tree
  <2>7. \A q \in Request : Copies(q) => req'[r].node \notin InsideIn(at, req[q].node)
    BY <1>6, <2>1, <2>3
  <2>8. calls' \in Nat /\ faults' = faults /\ stops' = stops
    BY <1>8, FaultsCount
  <2> QED
    BY <1>2, <1>3, <2>2, <2>3, <2>4, <2>5, <2>6, <2>7, <2>8, QuietKeeps
<1>9. CASE NoFault /\ n \notin folder /\ Unlink(r, {n}) /\ Goto(r, "p_row")
  <2>1. /\ Only(r) /\ Fitting(req'[r], names, day, folder') /\ HeldBy(req'[r]) \subseteq Held(r)
        /\ req'[r].step = "p_row" /\ req'[r].item = w
    <3>1. "p_row" \in ((Holding \ {"p_remove"}) \cup Noting) \ {"d_record"}
      BY DEF Holding
    <3> QED
      BY <1>1, <1>2, <1>9, <3>1, GoesOn
  <2>2. calls' \in Nat /\ faults' = faults /\ stops' = stops
    BY <1>9, FaultsCount
  <2> HIDE DEF n
  <2>3. \A m \in Node : at[m].in \in Node => at[m].in # n
    BY <1>4, <1>9, NodesAreNumbers DEF Sound
  <2>4. \A q \in Request : Copies(q) /\ q # r => {n} \cap InsideIn(at, req[q].node) = {}
    <3>1. CASE n = Nowhere
      <4>1. \A q \in Request : Copies(q) => InsideIn(at, req[q].node) \subseteq Node
        BY TempIs, InsideHolds
      <4> QED
        BY <3>1, <4>1, NodesAreNumbers
    <3>2. CASE n # Nowhere
      BY <1>6, <3>2
    <3> QED
      BY <3>1, <3>2
  <2>5. /\ TreeStands' /\ TempsStand' /\ TodoIsOpen' /\ KeptIsCopied'
        /\ \A m \in Node : at'[m] = IF m \in {n} THEN Absent ELSE at[m]
    BY <1>1, <1>2, <1>9, <2>1, <2>2, <2>3, <2>4, UnlinkStays
  <2>6. Tree(at') /\ \A m \in Node : at[m].in = Trash /\ at'[m] # at[m] => m = n
    BY <2>5, SoundIsTree DEF TreeStands
  <2>7. n \in Node => at[n].as = w.name
    BY <1>6, NodesAreNumbers
  <2>8. RowsFit' /\ RequestsFit' /\ HeldIsTheRow' /\ RecordsAreNew' /\ MissingIsCleared'
    BY <1>1, <1>2, <2>1, <2>2, <2>6, <2>7, OthersStay
  <2> QED
    BY <2>5, <2>8 DEF IInv
<1> QED
  BY <1>7, <1>8, <1>9 DEF PurgeOpen

LEMMA PurgeRemoveKeeps ==
  ASSUME IInv, NEW r \in Request, PurgeRemove(r)
  PROVE  IInv'
<1> DEFINE w == req[r].item
           n == req[r].node
<1>1. /\ req[r].step = "p_remove" /\ folder' = folder /\ born' = born
      /\ UNCHANGED <<rows, names, day>> /\ owners' = owners /\ rules' = rules
  BY DEF PurgeRemove, tables
<1>2. /\ req[r].step \in Holding \ {"next"} /\ req[r].step \notin {"p_row", "r_row"} /\ ~Copies(r)
      /\ w \in Held(r)
  BY <1>1 DEF Holding, Copies, Held, HeldBy
<1>3. owners' \cup rules' \subseteq Seq(Name) /\ rows' \subseteq rows
  BY <1>1 DEF IInv, RowsFit
<1>4. Sound(at, folder, born, names) /\ Tree(at) /\ folder \subseteq Node
  BY SoundIsTree DEF IInv, TreeStands
<1>5. Fitting(req[r], names, day, folder)
  BY DEF IInv, RequestsFit
<1>6. n \in folder /\ n \in Node /\ Inside(n) = InsideIn(at, n)
  BY <1>1, <1>4, <1>5, InsideIs DEF Fitting
<1>7. ASSUME NEW q \in Request, Copies(q) PROVE n \notin InsideIn(at, req[q].node)
  <2>1. n \notin Inside(req[q].node)
    BY <1>1, <1>7 DEF IInv, TempsStand
  <2> QED
    BY <1>7, <2>1, TempIs
<1>8. CASE Fault /\ Done(r) /\ UNCHANGED <<at, kept>>
  <2>1. UNCHANGED <<tree, kept, names, day>>
    BY <1>1, <1>8 DEF tree
  <2> QED
    BY <1>2, <1>3, <1>8, <2>1, EndingKeeps
<1>9. ASSUME NoFault, NEW m \in Inside(n) \ {n}, Children(m) = {}, Unlink(r, {m}), UNCHANGED req PROVE IInv'
  <2>1. m \in Node /\ at[m].in \in Node /\ \A i \in Node : at[i].in # m
    <3>1. m \in InsideIn(at, n) /\ m # n
      BY <1>6, <1>9
    <3>2. m \in Node /\ at[m].in \in Node
      BY <1>6, <3>1, InsideHolds
    <3> QED
      BY <1>9, <3>2 DEF Children
  <2>2. \A q \in Request : Copies(q) => {m} \cap InsideIn(at, req[q].node) = {}
    <3>1. ASSUME NEW q \in Request, Copies(q) PROVE m \notin InsideIn(at, req[q].node)
      <4>1. req[q].node \in Node /\ at[req[q].node].in = Temp
        BY <3>1, TempIs
      <4>2. InsideIn(at, n) \cap InsideIn(at, req[q].node) = {}
        BY <1>4, <1>6, <1>7, <3>1, <4>1, TempsAreAway
      <4> QED
        BY <1>6, <4>2
    <3> QED
      BY <3>1
  <2>3. Only(r) /\ req'[r] = req[r]
    BY <1>9 DEF Only, IInv, RequestsFit
  <2>4. calls' \in Nat /\ faults' = faults /\ stops' = stops
    BY <1>9, FaultsCount
  <2>5. /\ TreeStands' /\ TempsStand' /\ TodoIsOpen' /\ KeptIsCopied'
        /\ \A i \in Node : at'[i] = IF i \in {m} THEN Absent ELSE at[i]
    BY <1>1, <1>2, <1>9, <2>1, <2>2, <2>3, <2>4, UnlinkStays
  <2>6. Tree(at') /\ \A i \in Node : at[i].in = Trash => at'[i] = at[i]
    BY <2>1, <2>5, SoundIsTree, NodesAreNumbers DEF TreeStands
  <2>7. HeldBy(req'[r]) \subseteq Held(r) /\ Fitting(req'[r], names, day, folder') /\ req'[r].step # "d_record"
    BY <1>1, <1>5, <2>3 DEF Held
  <2>8. RowsFit' /\ RequestsFit' /\ HeldIsTheRow' /\ RecordsAreNew' /\ MissingIsCleared'
    BY <1>1, <1>2, <2>3, <2>4, <2>6, <2>7, OthersStay
  <2> QED
    BY <2>5, <2>8 DEF IInv
<1>10. CASE /\ NoFault /\ Children(n) = {}
            /\ IF TrashNode(w) = n THEN Unlink(r, {n}) ELSE UNCHANGED <<at, kept>>
            /\ req' = [req EXCEPT ![r].step = "p_row", ![r].node = Nowhere]
  <2>1. Only(r) /\ req'[r] = [req[r] EXCEPT !.step = "p_row", !.node = Nowhere]
    <3>1. req = [q \in Request |-> req[q]]
      BY DEF IInv, RequestsFit
    <3> QED
      BY <1>10, <3>1 DEF Only
  <2>2. /\ req'[r] \in RequestOf(names, day) /\ req'[r].step = "p_row"
        /\ req'[r].item = w /\ req'[r].queue = req[r].queue
    <3>1. "p_row" \in Holding /\ Nowhere \in Int /\ req[r] \in RequestOf(names, day)
      BY <1>5, NodesAreNumbers DEF Holding, Fitting
    <3> QED
      BY <2>1, <3>1 DEF RequestOf
  <2>3. Fitting(req'[r], names, day, folder)
    <3>1. w \in ItemOf(names, day)
      BY <1>2, <1>5 DEF Fitting
    <3> QED
      BY <2>2, <3>1 DEF Fitting, Copying, Moving
  <2>4. HeldBy(req'[r]) \subseteq Held(r)
    BY <1>2, <2>2 DEF HeldBy, Held
  <2>5. calls' \in Nat /\ faults' = faults /\ stops' = stops
    BY <1>10, FaultsCount
  <2>6. CASE UNCHANGED <<at, kept>>
    <3>1. UNCHANGED <<tree, kept, names, day>>
      BY <1>1, <2>6 DEF tree
    <3> QED
      BY <1>2, <1>3, <2>1, <2>2, <2>3, <2>4, <2>5, <3>1, QuietKeeps
  <2>7. CASE TrashNode(w) = n /\ Unlink(r, {n})
    <3>1. \A m \in Node : at[m].in # n
      BY <1>6, <1>10 DEF Children
    <3>2. at[n] = [in |-> Trash, as |-> w.name]
      BY <1>4, <1>6, <2>7, TrashNodeLeads, NodesAreNumbers
    <3>3. at[n].as = w.name
      BY <3>2
    <3>4. \A q \in Request : Copies(q) => {n} \cap InsideIn(at, req[q].node) = {}
      BY <1>7
    <3> HIDE DEF n
    <3>5. /\ Only(r) /\ Unlink(r, {n}) /\ req'[r].step = "p_row" /\ ~Copies(r)
          /\ names' = names /\ folder' = folder /\ born' = born /\ stops' = stops
          /\ \A m \in Node : at[m].in \in Node /\ at[m].in \in {n} => m \in {n}
      BY <1>1, <1>2, <2>1, <2>2, <2>5, <2>7, <3>1
    <3>6. /\ TreeStands' /\ TempsStand' /\ TodoIsOpen' /\ KeptIsCopied'
          /\ \A m \in Node : at'[m] = IF m \in {n} THEN Absent ELSE at[m]
      BY <3>4, <3>5, UnlinkStays
    <3>7. Tree(at') /\ \A m \in Node : at[m].in = Trash /\ at'[m] # at[m] => m = n
      BY <3>6, SoundIsTree DEF TreeStands
    <3>8. RowsFit' /\ RequestsFit' /\ HeldIsTheRow' /\ RecordsAreNew' /\ MissingIsCleared'
      BY <1>1, <1>2, <2>1, <2>2, <2>3, <2>4, <2>5, <3>3, <3>7, OthersStay
    <3> QED
      BY <3>6, <3>8 DEF IInv
  <2> QED
    BY <1>10, <2>6, <2>7
<1> QED
  BY <1>8, <1>9, <1>10 DEF PurgeRemove

-----------------------------------------------------------------------------
(* Copies.                                                                 *)

\* No temporary tree is in another one, or in the trash.
LEMMA TempsAreApart ==
  ASSUME IInv, NEW r \in Request, Copies(r)
  PROVE  /\ \A q \in Request : Copies(q) /\ q # r =>
              /\ req[r].node \notin InsideIn(at, req[q].node)
              /\ InsideIn(at, req[r].node) \cap InsideIn(at, req[q].node) = {}
         /\ \A n \in Node : at[n].in = Trash => n \notin InsideIn(at, req[r].node)
<1>1. Tree(at)
  BY SoundIsTree DEF IInv, TreeStands
<1>2. req[r].node \in Node /\ at[req[r].node].in = Temp
  BY TempIs
<1>3. ASSUME NEW q \in Request, Copies(q), q # r
      PROVE  /\ req[r].node \notin InsideIn(at, req[q].node)
             /\ InsideIn(at, req[r].node) \cap InsideIn(at, req[q].node) = {}
  <2>1. req[q].node \in Node /\ at[req[q].node].in = Temp /\ req[q].node # req[r].node
    BY <1>3, TempIs DEF IInv, TempsStand
  <2>2. req[r].node \notin InsideIn(at, req[q].node)
    <3>1. Temp \notin InsideIn(at, req[q].node)
      BY <2>1, InsideHolds, NodesAreNumbers
    <3> QED
      BY <1>2, <2>1, <3>1, InsideHolds
  <2> QED
    BY <1>1, <1>2, <2>1, <2>2, TempsAreAway
<1> QED
  BY <1>1, <1>2, <1>3, TempsAreAway

LEMMA AbandonKeeps ==
  ASSUME IInv, NEW r \in Request, Copies(r), Abandon(r),
         UNCHANGED <<rows, names, day>>, owners' = owners, rules' = rules,
         calls' \in Nat, faults' \in {faults, faults + 1}, stops' = stops
  PROVE  IInv'
<1> DEFINE gone == InsideIn(at, req[r].node)
<1>1. Unlink(r, gone) /\ Done(r) /\ folder' = folder /\ born' = born
  BY TempIs DEF Abandon
<1>2. Only(r) /\ req'[r] = Blank
  BY <1>1, DoneIs DEF IInv
<1>3. Fitting(req'[r], names, day, folder') /\ HeldBy(req'[r]) = {} /\ req'[r].step = "idle"
  BY <1>1, <1>2, BlankFits
<1>4. req[r].node \in gone /\ Closed(at, gone)
  BY TempIs, InsideHolds
<1>5. \A m \in Node : at[m].in \in Node /\ at[m].in \in gone => m \in gone
  BY <1>4 DEF Closed
<1>6. /\ \A q \in Request : Copies(q) /\ q # r => gone \cap InsideIn(at, req[q].node) = {}
      /\ \A m \in Node : at[m].in = Trash => m \notin gone
  BY TempsAreApart
<1> HIDE DEF gone
<1>7. /\ TreeStands' /\ TempsStand' /\ TodoIsOpen' /\ KeptIsCopied'
      /\ \A m \in Node : at'[m] = IF m \in gone THEN Absent ELSE at[m]
  BY <1>1, <1>2, <1>3, <1>4, <1>5, <1>6, UnlinkStays
<1>8. Tree(at') /\ \A m \in Node : at[m].in = Trash => at'[m] = at[m]
  BY <1>6, <1>7, SoundIsTree DEF TreeStands
<1>9. req[r].step \notin {"p_row", "r_row"}
  BY DEF Copies
<1>10. RowsFit' /\ RequestsFit' /\ HeldIsTheRow' /\ RecordsAreNew' /\ MissingIsCleared'
  BY <1>1, <1>2, <1>3, <1>8, <1>9, OthersStay
<1> QED
  BY <1>7, <1>10 DEF IInv

LEMMA CopyRenameKeeps ==
  ASSUME IInv, NEW r \in Request, CopyRename(r)
  PROVE  IInv'
<1> DEFINE n == req[r].node
           to == req[r].to
<1>1. /\ Copies(r) /\ req[r].step \notin {"p_row", "r_row"} /\ UNCHANGED <<rows, names, day>>
      /\ owners' = owners /\ rules' = rules
      /\ calls' \in Nat /\ faults' = faults /\ stops' = stops
  BY DEF CopyRename, Copies, tables, bounds, IInv, RowsFit
<1>2. CASE Abandon(r)
  BY <1>1, <1>2, AbandonKeeps
<1>3. CASE CanRename(n, to) /\ Rename(r, n, to) /\ Goto(r, "c_owner") /\ UNCHANGED <<folder, born>>
  <2>1. n \in Node /\ at[n].in = Temp /\ at[n].in # Nowhere /\ at[n].in # Trash
    BY <1>1, TempIs, NodesAreNumbers
  <2>2. \A q \in Request : Copies(q) /\ q # r => n \notin InsideIn(at, req[q].node)
    BY <1>1, TempsAreApart
  <2>3. Fitting(req[r], names, day, folder)
    BY DEF IInv, RequestsFit
  <2>4. to \in Path /\ req[r].from \in Path
    BY <1>1, <2>3 DEF Fitting, Copies, Copying
  <2>5. Only(r) /\ req'[r] = [req[r] EXCEPT !.step = "c_owner"]
    BY <1>3, GotoIs DEF IInv
  <2>6. /\ req'[r] \in RequestOf(names, day) /\ req'[r].step = "c_owner"
        /\ req'[r].from = req[r].from /\ req'[r].to = req[r].to
    <3>1. "c_owner" \in Copying
      BY DEF Copying
    <3> QED
      BY <2>3, <2>5, <3>1, StepFits
  <2>7. Fitting(req'[r], names, day, folder') /\ HeldBy(req'[r]) = {}
    BY <1>3, <2>4, <2>6 DEF Fitting, Moving, Copying, Holding, Noting, HeldBy
  <2> HIDE DEF n, to
  <2>8. /\ TreeStands' /\ TempsStand' /\ TodoIsOpen' /\ KeptIsCopied'
        /\ \A m \in Node : m # n /\ at[m].in = Trash => at'[m] = at[m]
    <3>1. Copies(r) => n = req[r].node
      BY DEF n
    <3> QED
      BY <1>1, <1>3, <2>1, <2>2, <2>4, <2>5, <2>6, <3>1, RenameStays
  <2>9. Tree(at') /\ \A m \in Node : at[m].in = Trash => at'[m] = at[m]
    BY <2>1, <2>8, SoundIsTree DEF TreeStands
  <2>10. RowsFit' /\ RequestsFit' /\ HeldIsTheRow' /\ RecordsAreNew' /\ MissingIsCleared'
    BY <1>1, <1>3, <2>5, <2>6, <2>7, <2>9, OthersStay
  <2> QED
    BY <2>8, <2>10 DEF IInv
<1> QED
  BY <1>2, <1>3 DEF CopyRename

\* There is one more node.
Grows(h, g, n, w) == g = [h EXCEPT ![n] = w]

LEMMA OneGrows ==
  ASSUME IInv, NEW t, t = born + 1, t \in Node,
         NEW d \in {Root, Temp} \cup folder, d \in Node => at[d].in # Nowhere,
         NEW x, d \in Node \cup {Root} => x \in Name, d = Temp => x = t,
         EntryIn(at, d, x) = Nowhere,
         Grows(at, at', t, [in |-> d, as |-> x]),
         folder \subseteq folder', folder' \subseteq folder \cup {t}, born' = t, names' = names
  PROVE  /\ TreeStands' /\ Tree(at) /\ Tree(at') /\ born' \in Int /\ born <= born'
         /\ at[t].in = Nowhere /\ at'[t] = [in |-> d, as |-> x] /\ at'[t].in = d /\ at'[t].as = x
         /\ \A m \in Node : at[m].in # t /\ at'[m].in # t
         /\ \A m \in Node : m # t => at'[m] = at[m]
         /\ \A u : \A p \in Seq(Name) : WalkIn(at, u, p) \in Node /\ at[WalkIn(at, u, p)].in # Nowhere =>
              WalkIn(at', u, p) = WalkIn(at, u, p)
<1>1. Sound(at, folder, born, names) /\ Tree(at) /\ born \in Nat
  BY SoundIsTree DEF IInv, TreeStands
<1>2. Sound(at', folder', born', names')
  BY <1>1, GrownIsSound DEF Grows
<1>3. Tree(at')
  BY <1>2, SoundIsTree
<1>4. \A m \in Node : m > born => at[m].in = Nowhere
  BY <1>1 DEF Sound
<1>5. at[t].in = Nowhere
  BY <1>1, <1>4
<1>6. \A m \in Node : at'[m] = IF m = t THEN [in |-> d, as |-> x] ELSE at[m]
  BY <1>1 DEF Tree, Grows
<1>7. ASSUME NEW m \in Node PROVE at[m].in # t
  <2>1. at[m].in \in Node => at[at[m].in].in # Nowhere
    BY <1>1 DEF Sound
  <2> QED
    BY <1>5, <2>1
<1>8. at'[t].in = d /\ at'[t].as = x
  BY <1>6
<1>9. d # t
  BY <1>5, NodesAreNumbers
<1>10. \A m \in Node : at'[m].in # t
  BY <1>6, <1>7, <1>8, <1>9
<1>11. ASSUME NEW u, NEW p \in Seq(Name), WalkIn(at, u, p) \in Node, at[WalkIn(at, u, p)].in # Nowhere
       PROVE  WalkIn(at', u, p) = WalkIn(at, u, p)
  <2>1. \A m \in Node : m # t => at'[m] = at[m]
    BY <1>6
  <2> QED
    BY <1>1, <1>3, <1>5, <1>7, <1>11, <2>1, GrownKeeps
<1>12. born' \in Int /\ born <= born'
  BY <1>1
<1> QED
  BY <1>1, <1>2, <1>3, <1>5, <1>6, <1>7, <1>8, <1>10, <1>11, <1>12 DEF TreeStands

\* It is not in the temporary tree of another copy.
LEMMA OthersGrow ==
  ASSUME IInv, Tree(at'), folder \subseteq folder', born' \in Int, born <= born',
         NEW t \in Node, at[t].in = Nowhere, NEW d, NEW x, Grows(at, at', t, [in |-> d, as |-> x]),
         \A u : \A p \in Seq(Name) : WalkIn(at, u, p) \in Node /\ at[WalkIn(at, u, p)].in # Nowhere =>
              WalkIn(at', u, p) = WalkIn(at, u, p),
         NEW q \in Request, Copies(q), d \notin InsideIn(at, req[q].node)
  PROVE  /\ CopyFits(req[q], kept[q], at', folder', born')
         /\ InsideIn(at', req[q].node) \subseteq InsideIn(at, req[q].node)
<1>1. Tree(at)
  BY SoundIsTree DEF IInv, TreeStands
<1>2. req[q].node \in Node /\ at[req[q].node].in = Temp
  BY TempIs
<1>3. Apart(at, at', req[q].node)
  BY <1>1, <1>2, GrownIsApart DEF Grows
<1>4. ASSUME NEW k \in kept[q], NEW p \in Seq(Name), WalkIn(at, Root, p) = k.node PROVE WalkIn(at', Root, p) = k.node
  <2>1. k.node \in Node
    BY DEF IInv, KeptIsCopied
  <2>2. Find(p) = WalkIn(at, Root, p)
    BY FindIs
  <2>3. at[Find(p)].in # Nowhere
    BY <1>4, <2>1, <2>2, FindLeads
  <2> QED
    BY <1>4, <2>1, <2>2, <2>3
<1> QED
  BY <1>3, <1>4, CopyLasts

\* What is listed of a node that the path from \o q leads to.
LEMMA ListingIs ==
  ASSUME IInv, NEW from \in Path, NEW q \in Seq(Name),
         WalkIn(at, Root, from \o q) \in Node,
         NEW k \in Listing(WalkIn(at, Root, from \o q), q)
  PROVE  LET n == WalkIn(at, Root, from \o q) IN
         /\ k \in Kept /\ n \in folder /\ at[k.node].in # Nowhere
         /\ k.rel \in Seq(Name) /\ k.rel # <<>> /\ Front(k.rel) = q /\ Last(k.rel) \in Name
         /\ from \o k.rel \in Seq(Name) /\ WalkIn(at, Root, from \o k.rel) = k.node
<1> DEFINE n == WalkIn(at, Root, from \o q)
<1>1. Sound(at, folder, born, names) /\ Tree(at)
  BY SoundIsTree DEF IInv, TreeStands
<1>2. PICK m \in Node : at[m].in = n /\ k = [rel |-> Append(q, at[m].as), node |-> m]
  BY DEF Listing, Children
<1> DEFINE x == at[m].as
<1>3. n \in folder /\ x \in Name /\ at[m].in # Nowhere
  <2>1. at[m] \in [in : {Root, Trash, Temp, Nowhere} \cup folder, as : Name \cup Int]
    BY <1>1 DEF Sound
  <2>2. at[m].in \in {Root, Trash, Temp, Nowhere} \cup folder
    BY <2>1
  <2>3. at[m].in \in Node => at[m].as \in Name
    BY <1>1 DEF Sound
  <2> QED
    BY <1>2, <2>2, <2>3, NodesAreNumbers
<1>4. at[m] = [in |-> n, as |-> x]
  <2>1. at[m] \in [in : {Root, Trash, Temp, Nowhere} \cup folder, as : Name \cup Int]
    BY <1>1 DEF Sound
  <2> QED
    BY <1>2, <2>1
<1>5. from \in Seq(Name)
  BY PathsAreSeqs
<1> HIDE DEF x
<1>6. /\ Append(q, x) \in Seq(Name) /\ Append(q, x) # <<>>
      /\ Front(Append(q, x)) = q /\ Last(Append(q, x)) = x
      /\ from \o Append(q, x) = Append(from \o q, x)
      /\ from \o q \in Seq(Name)
      /\ Front(Append(from \o q, x)) = from \o q /\ Last(Append(from \o q, x)) = x
      /\ Append(from \o q, x) # <<>> /\ Append(from \o q, x) \in Seq(Name)
  BY <1>3, <1>5, OneMore
<1>7. WalkIn(at, Root, Append(from \o q, x)) = EntryIn(at, n, x)
  <2> DEFINE p == Append(from \o q, x)
  <2>1. p \in Seq(Name) /\ p # <<>> /\ Front(p) = from \o q /\ Last(p) = x
    BY <1>6
  <2> HIDE DEF p
  <2>2. WalkIn(at, Root, p) = EntryIn(at, WalkIn(at, Root, Front(p)), Last(p))
    BY <2>1, WalksOn
  <2> QED
    BY <2>1, <2>2 DEF p
<1>8. EntryIn(at, n, x) = m
  BY <1>1, <1>4, EntryIsIt, NodesAreNumbers
<1>9. k.rel = Append(q, x) /\ k.node = m /\ k \in Kept
  BY <1>2, <1>6 DEF x, Kept
<1> QED
  BY <1>3, <1>6, <1>7, <1>8, <1>9

\* A step of one copy, which leaves the others alone.
LEMMA OneCopies ==
  ASSUME IInv, NEW r \in Request, Only(r), req'[r].step = "c_entry", born' \in Int, stops' = stops,
         CopyFits(req'[r], kept'[r], at', folder', born'),
         \A q \in Request : q # r /\ Copies(q) =>
           /\ req[q].node # req'[r].node
           /\ CopyFits(req[q], kept'[q], at', folder', born')
           /\ InsideIn(at', req[q].node) \subseteq InsideIn(at, req[q].node),
         \A q \in Request : q # r /\ req[q].step = "p_remove" => req[q].node \notin InsideIn(at', req'[r].node),
         kept' \in [Request -> SUBSET Kept], \A q \in Request : q # r => kept'[q] \subseteq kept[q],
         \A m \in Node : at'[m].in = Temp /\ m # req'[r].node =>
           at[m].in = Temp /\ (Copies(r) => m # req[r].node)
  PROVE  TempsStand' /\ TodoIsOpen' /\ KeptIsCopied'
<1>1. \A q \in Request : q # r => req'[q] = req[q]
  BY OnlyOne
<1>2. \A q \in Request : req'[q].step = "c_entry" => CopyFits(req'[q], kept'[q], at', folder', born')
  BY <1>1 DEF Copies
<1>3. ASSUME NEW p \in Request, req'[p].step = "c_entry", NEW q \in Request
      PROVE  /\ q # p /\ req'[q].step = "c_entry" => req'[q].node # req'[p].node
             /\ req'[q].step = "p_remove" => req'[q].node \notin InsideIn(at', req'[p].node)
  <2>1. CASE p = r
    BY <1>1, <2>1 DEF Copies
  <2>2. CASE p # r
    <3>1. Copies(p) /\ req'[p] = req[p]
      BY <1>1, <1>3, <2>2 DEF Copies
    <3>2. ASSUME q # p, req'[q].step = "c_entry" PROVE req'[q].node # req'[p].node
      <4>1. CASE q = r
        BY <2>2, <3>1, <4>1
      <4>2. CASE q # r
        <5>1. Copies(q) /\ req'[q] = req[q]
          BY <1>1, <3>2, <4>2 DEF Copies
        <5>2. req[q].node # req[p].node
          BY <3>1, <3>2, <5>1 DEF IInv, TempsStand
        <5> QED
          BY <3>1, <5>1, <5>2
      <4> QED
        BY <4>1, <4>2
    <3>3. ASSUME req'[q].step = "p_remove" PROVE req'[q].node \notin InsideIn(at', req'[p].node)
      <4>1. q # r /\ req'[q] = req[q] /\ req[q].step = "p_remove"
        BY <1>1, <3>3
      <4>2. req[q].node \notin Inside(req[p].node)
        BY <3>1, <4>1 DEF IInv, TempsStand
      <4>3. req[q].node \notin InsideIn(at, req[p].node)
        BY <3>1, <4>2, TempIs
      <4> QED
        BY <2>2, <3>1, <4>1, <4>3
    <3> QED
      BY <3>2, <3>3
  <2> QED
    BY <2>1, <2>2
<1>4. ASSUME stops' = 0, NEW m \in Node, at'[m].in = Temp
      PROVE  \E q \in Request : req'[q].step = "c_entry" /\ req'[q].node = m
  <2>1. CASE m = req'[r].node
    BY <2>1
  <2>2. CASE m # req'[r].node
    <3>1. at[m].in = Temp /\ stops = 0 /\ (Copies(r) => m # req[r].node)
      BY <1>4, <2>2
    <3>2. PICK q \in Request : Copies(q) /\ req[q].node = m
      BY <3>1 DEF IInv, TempsStand
    <3>3. q # r /\ req'[q] = req[q]
      BY <1>1, <3>1, <3>2
    <3> QED
      BY <3>2, <3>3 DEF Copies
  <2> QED
    BY <2>1, <2>2
<1>5. ASSUME NEW q \in Request, kept'[q] # {} PROVE req'[q].step = "c_entry"
  <2>1. CASE q # r
    <3>1. kept[q] # {}
      BY <1>5, <2>1
    <3>2. Copies(q)
      BY <3>1 DEF IInv, KeptIsCopied
    <3> QED
      BY <1>1, <2>1, <3>2 DEF Copies
  <2> QED
    BY <2>1
<1> QED
  BY <1>2, <1>3, <1>4, <1>5, CopiesAre

LEMMA CopyKeeps ==
  ASSUME IInv, NEW r \in Request, NEW from \in Path, NEW to \in Path, Copy(r, from, to)
  PROVE  IInv'
<1> DEFINE n == Find(from)
           t == born + 1
           L == Listing(n, <<>>)
           all == {k.rel : k \in L}
           v == CopyRequest(from, to, t, all)
<1>1. /\ Arrive(r) /\ n # Nowhere /\ t \in Node /\ born' = t /\ UNCHANGED <<rows, names, day>>
      /\ owners' = owners /\ rules' = rules
      /\ Grows(at, at', t, [in |-> Temp, as |-> t])
      /\ folder' = IF n \in folder THEN folder \cup {t} ELSE folder
      /\ kept' = [kept EXCEPT ![r] = @ \cup L]
      /\ Begin(r, v)
  BY DEF Copy, Exists, CopyNode, TempName, Grows, CopyRequest, tables
<1>2. from \in Seq(Name) /\ from # <<>>
  BY PathsAreSeqs
<1>3. n \in Node /\ n = WalkIn(at, Root, from) /\ at[n].in # Nowhere
  BY <1>1, <1>2, FindLeads, FindIs
<1>4. ASSUME NEW k \in L
      PROVE  /\ k \in Kept /\ n \in folder /\ at[k.node].in # Nowhere
             /\ k.rel \in Seq(Name) /\ k.rel # <<>> /\ Front(k.rel) = <<>> /\ Last(k.rel) \in Name
             /\ from \o k.rel \in Seq(Name) /\ WalkIn(at, Root, from \o k.rel) = k.node
  <2>1. from \o <<>> = from /\ <<>> \in Seq(Name)
    BY <1>2
  <2>2. WalkIn(at, Root, from \o <<>>) = n /\ k \in Listing(WalkIn(at, Root, from \o <<>>), <<>>)
    BY <1>3, <2>1
  <2> HIDE DEF n, L
  <2> QED
    BY <1>3, <2>1, <2>2, ListingIs
<1>5. all \in SUBSET Seq(Name)
  BY <1>4
<1>6. Only(r) /\ req'[r] = v /\ req[r].step = "idle" /\ ~Copies(r)
  BY <1>1, BeginIs DEF IInv, Arrive, Copies
<1> HIDE DEF n, L
<1>7. /\ Fitting(v, names, day, folder') /\ HeldBy(v) = {}
      /\ v.step = "c_entry" /\ v.from = from /\ v.to = to /\ v.node = t /\ v.todo = all
  <2>1. v = CopyRequest(from, to, t, all)
    OBVIOUS
  <2> HIDE DEF t, all, v
  <2>2. t \in Int
    BY <1>1, NodesAreNumbers
  <2> DEFINE u == CopyRequest(from, to, t, all)
  <2>3. /\ Fitting(u, names, day, folder') /\ HeldBy(u) = {}
        /\ u.step = "c_entry" /\ u.from = from /\ u.to = to /\ u.node = t /\ u.todo = all
    <3>1. Fitting(u, names, day, folder')
      BY <1>5, <2>2, CopyBegins
    <3> QED
      BY <3>1, CopyRequestIs
  <2> QED
    BY <2>1, <2>3
<1> HIDE DEF v
<1>8. calls' \in Nat /\ faults' = faults /\ stops' = stops
  BY <1>1, FaultsCount
<1>9. /\ TreeStands' /\ Tree(at) /\ Tree(at') /\ born' \in Int /\ born <= born'
      /\ at[t].in = Nowhere /\ at'[t] = [in |-> Temp, as |-> t] /\ at'[t].in = Temp
      /\ \A m \in Node : at[m].in # t /\ at'[m].in # t
      /\ \A m \in Node : m # t => at'[m] = at[m]
      /\ \A u : \A p \in Seq(Name) : WalkIn(at, u, p) \in Node /\ at[WalkIn(at, u, p)].in # Nowhere =>
           WalkIn(at', u, p) = WalkIn(at, u, p)
  <2>1. Sound(at, folder, born, names) /\ Tree(at) /\ born \in Nat
    BY SoundIsTree DEF IInv, TreeStands
  <2>2. EntryIn(at, Temp, t) = Nowhere
    <3>1. CASE EntryIn(at, Temp, t) # Nowhere
      <4>1. EntryIn(at, Temp, t) \in Node /\ at[EntryIn(at, Temp, t)] = [in |-> Temp, as |-> t]
        BY <3>1, EntryFound
      <4> DEFINE e == EntryIn(at, Temp, t)
      <4>2. at[e].in = Temp /\ at[e].as = t
        BY <4>1
      <4>3. e = t
        BY <2>1, <4>1, <4>2 DEF Sound
      <4>4. at[t].in = Nowhere
        <5>1. \A m \in Node : m > born => at[m].in = Nowhere
          BY <2>1 DEF Sound
        <5> QED
          BY <1>1, <2>1, <5>1
      <4> QED
        BY <4>2, <4>3, <4>4, NodesAreNumbers
    <3> QED
      BY <3>1
  <2>3. folder \subseteq folder' /\ folder' \subseteq folder \cup {t}
    BY <1>1
  <2>4. Temp \in {Root, Temp} \cup folder /\ Temp \notin Node \cup {Root}
    BY NodesAreNumbers
  <2>5. t = born + 1
    OBVIOUS
  <2> HIDE DEF t
  <2> QED
    BY <1>1, <2>2, <2>3, <2>4, <2>5, OneGrows
<1>10. t \notin folder /\ born < t
  <2>1. born \in Nat /\ folder \subseteq 1..born
    BY DEF IInv, TreeStands, Sound
  <2> QED
    BY <2>1
<1>11. all = {k.rel : k \in L} /\ folder \subseteq folder' /\ (n \in folder => t \in folder')
  BY <1>1
<1> HIDE DEF t, all
<1>12. \A q \in Request : q # r => req'[q] = req[q]
  BY <1>6, OnlyOne
<1>13. kept \in [Request -> SUBSET Kept] /\ \A q \in Request : kept[q] # {} => Copies(q)
  BY DEF IInv, KeptIsCopied, Kept
<1>14. kept[r] = {}
  BY <1>6, <1>13
<1>15. kept' = [q \in Request |-> IF q = r THEN L ELSE kept[q]]
  BY <1>1, <1>13, <1>14
<1>16. L \subseteq Kept
  BY <1>4
<1>17. kept' \in [Request -> SUBSET Kept] /\ kept'[r] = L /\ \A q \in Request : q # r => kept'[q] = kept[q]
  BY <1>13, <1>15, <1>16
<1>18. ASSUME NEW q \in Request, q # r, Copies(q)
       PROVE  /\ req[q].node # t
              /\ CopyFits(req[q], kept'[q], at', folder', born')
              /\ InsideIn(at', req[q].node) \subseteq InsideIn(at, req[q].node)
  <2>1. req[q].node \in Node /\ at[req[q].node].in = Temp
    BY <1>18, TempIs
  <2>2. InsideIn(at, req[q].node) \subseteq Node
    BY <2>1, InsideHolds
  <2>3. Temp \notin InsideIn(at, req[q].node)
    BY <2>2, NodesAreNumbers
  <2>4. t # req[q].node
    BY <1>9, <2>1, NodesAreNumbers
  <2>5. /\ CopyFits(req[q], kept[q], at', folder', born')
        /\ InsideIn(at', req[q].node) \subseteq InsideIn(at, req[q].node)
    BY <1>1, <1>9, <1>11, <1>18, <2>3, OthersGrow
  <2> QED
    BY <1>17, <1>18, <2>4, <2>5
<1>19. CopyFits(v, L, at', folder', born')
  <2>1. WalkIn(at', t, <<>>) = t
    BY WalkNowhere
  <2>2. ASSUME NEW k \in L
        PROVE  /\ WalkIn(at', t, Front(k.rel)) \in folder' /\ WalkIn(at', t, k.rel) = Nowhere
               /\ WalkIn(at', Root, from \o k.rel) = k.node
    <3>1. /\ k \in Kept /\ n \in folder /\ at[k.node].in # Nowhere
          /\ k.rel \in Seq(Name) /\ k.rel # <<>> /\ Front(k.rel) = <<>> /\ Last(k.rel) \in Name
          /\ from \o k.rel \in Seq(Name) /\ WalkIn(at, Root, from \o k.rel) = k.node
      BY <1>4
    <3>2. WalkIn(at', t, Front(k.rel)) = t /\ t \in folder'
      BY <1>11, <2>1, <3>1
    <3>3. WalkIn(at', t, k.rel) = EntryIn(at', t, Last(k.rel))
      BY <3>1, <3>2, WalksOn
    <3>4. EntryIn(at', t, Last(k.rel)) = Nowhere
      <4>1. CASE EntryIn(at', t, Last(k.rel)) # Nowhere
        <5> DEFINE e == EntryIn(at', t, Last(k.rel))
        <5>1. e \in Node /\ at'[e] = [in |-> t, as |-> Last(k.rel)]
          BY <4>1, EntryFound
        <5>2. at'[e].in = t
          BY <5>1
        <5> HIDE DEF e
        <5> QED
          BY <1>9, <5>1, <5>2
      <4> QED
        BY <4>1
    <3>5. k.node \in Node
      BY <3>1 DEF Kept
    <3>6. WalkIn(at', Root, from \o k.rel) = k.node
      BY <1>9, <3>1, <3>5
    <3> QED
      BY <3>2, <3>3, <3>4, <3>6
  <2>3. \A q \in v.todo : q # <<>> /\ WalkIn(at', v.node, Front(q)) \in folder' /\ WalkIn(at', v.node, q) = Nowhere
    BY <1>4, <1>7, <1>11, <2>2
  <2>4. \A k \in L : /\ k.rel # <<>> /\ WalkIn(at', Root, v.from \o k.rel) = k.node
                     /\ k.rel \in v.todo
    BY <1>4, <1>7, <1>11, <2>2
  <2>5. v.node \in Node /\ v.node <= born' /\ at'[v.node] = [in |-> Temp, as |-> v.node]
    BY <1>1, <1>7, <1>9
  <2> QED
    BY <2>3, <2>4, <2>5 DEF CopyFits
<1>20. InsideIn(at', t) \subseteq {t}
  <2>1. Closed(at', {t}) /\ {t} \in SUBSET Node
    BY <1>1, <1>9 DEF Closed
  <2> QED
    BY <1>1, <2>1, InsideHolds
<1>21. \A q \in Request : req[q].step = "p_remove" => req[q].node \notin InsideIn(at', t)
  <2>1. \A q \in Request : req[q].step = "p_remove" => req[q].node \in folder
    BY DEF IInv, RequestsFit, Fitting
  <2> QED
    BY <1>10, <1>20, <2>1
<1>22. \A m \in Node : at'[m].in = Temp /\ m # t => at[m].in = Temp
  BY <1>9
<1>23. TempsStand' /\ TodoIsOpen' /\ KeptIsCopied'
  <2>1. \A q \in Request : q # r => kept'[q] \subseteq kept[q]
    BY <1>17
  <2>2. /\ req'[r].step = "c_entry" /\ req'[r].node = t
        /\ CopyFits(req'[r], kept'[r], at', folder', born')
    BY <1>6, <1>7, <1>17, <1>19
  <2> QED
    BY <1>6, <1>8, <1>9, <1>17, <1>18, <1>21, <1>22, <2>1, <2>2, OneCopies
<1>24. \A m \in Node : at[m].in = Trash => at'[m] = at[m]
  BY <1>9, NodesAreNumbers
<1>25. RowsFit' /\ RequestsFit' /\ HeldIsTheRow' /\ RecordsAreNew' /\ MissingIsCleared'
  BY <1>1, <1>6, <1>7, <1>8, <1>9, <1>11, <1>24, OthersStay
<1> QED
  BY <1>9, <1>23, <1>25 DEF IInv

\* An entry that has vanished, or could not be looked at, is passed over.
LEMMA CopyPassesKeeps ==
  ASSUME IInv, NEW r \in Request, Copies(r), NEW q \in req[r].todo, Only(r),
         calls' \in Nat, faults' \in {faults, faults + 1}, stops' = stops,
         req'[r] \in RequestOf(names, day), req'[r].step = "c_entry", req'[r].node = req[r].node,
         req'[r].from = req[r].from, req'[r].to = req[r].to, req'[r].todo = req[r].todo \ {q},
         \/ req'[r].missed = req[r].missed /\ Find(req[r].from \o q) = Nowhere
         \/ req'[r].missed = req[r].missed \cup {q},
         UNCHANGED <<tree, kept, rows, names, day>>, owners' = owners, rules' = rules
  PROVE  IInv'
<1>1. /\ at' = at /\ folder' = folder /\ born' = born /\ kept' = kept
  BY DEF tree
<1>2. Tree(at) /\ Tree(at') /\ TreeStands' /\ born' \in Int /\ born <= born'
  <2>1. born \in Nat
    BY SoundIsTree DEF IInv, TreeStands
  <2> QED
    BY <1>1, <2>1, SoundIsTree DEF IInv, TreeStands
<1>4. Fitting(req[r], names, day, folder)
  BY DEF IInv, RequestsFit
<1>7. Fitting(req'[r], names, day, folder') /\ HeldBy(req'[r]) = {}
  <2>1. req[r].from \in Path /\ req[r].to \in Path
    BY <1>4 DEF Fitting, Copies, Copying
  <2> QED
    BY <1>1, <2>1 DEF Fitting, Copying, Moving, Holding, Noting, HeldBy
<1>8. CopyFits(req[r], kept[r], at, folder, born)
  BY CopyIs
<1>9. ASSUME NEW k \in kept[r]
      PROVE  k.rel \in req'[r].todo \cup req'[r].missed \/ WalkIn(at, req[r].node, k.rel) # Nowhere
  <2>1. k.rel \in req[r].todo \cup req[r].missed \/ WalkIn(at, req[r].node, k.rel) # Nowhere
    BY <1>8 DEF CopyFits
  <2>2. CASE k.rel = q
    <3>1. Find(req[r].from \o q) = k.node /\ k.node \in Node
      BY <2>2 DEF IInv, KeptIsCopied
    <3>2. Find(req[r].from \o q) # Nowhere
      BY <3>1, NodesAreNumbers
    <3> QED
      BY <2>2, <3>2
  <2>3. CASE k.rel # q
    BY <2>1, <2>3
  <2> QED
    BY <2>2, <2>3
<1>10. CopyFits(req'[r], kept'[r], at', folder', born')
  BY <1>1, <1>8, <1>9 DEF CopyFits
<1>11. ASSUME NEW p \in Request, p # r, Copies(p)
       PROVE  /\ req[p].node # req'[r].node
              /\ CopyFits(req[p], kept'[p], at', folder', born')
              /\ InsideIn(at', req[p].node) \subseteq InsideIn(at, req[p].node)
  <2>1. req[p].node # req[r].node
    BY <1>11 DEF IInv, TempsStand
  <2>2. CopyFits(req[p], kept[p], at, folder, born)
    BY <1>11, CopyIs
  <2> QED
    BY <1>1, <2>1, <2>2
<1>12. ASSUME NEW p \in Request, req[p].step = "p_remove" PROVE req[p].node \notin InsideIn(at', req'[r].node)
  <2>1. req[p].node \notin Inside(req[r].node)
    BY <1>12 DEF IInv, TempsStand
  <2> QED
    BY <1>1, <2>1, TempIs
<1>13. kept' \in [Request -> SUBSET Kept] /\ \A p \in Request : p # r => kept'[p] \subseteq kept[p]
  BY <1>1 DEF IInv, KeptIsCopied, Kept
<1>14. \A m \in Node : at'[m].in = Temp /\ m # req'[r].node =>
           at[m].in = Temp /\ (Copies(r) => m # req[r].node)
  BY <1>1
<1>15. TempsStand' /\ TodoIsOpen' /\ KeptIsCopied'
  BY <1>2, <1>10, <1>11, <1>12, <1>13, <1>14, OneCopies
<1>16. req'[r].step # "d_record" /\ req[r].step \notin {"p_row", "r_row"} /\ \A m \in Node : at'[m] = at[m]
  BY <1>1 DEF Copies
<1>17. RowsFit' /\ RequestsFit' /\ HeldIsTheRow' /\ RecordsAreNew' /\ MissingIsCleared'
  BY <1>1, <1>2, <1>7, <1>16, OthersStay
<1> QED
  BY <1>2, <1>15, <1>17 DEF IInv

\* An entry is copied: what is left to do is not done, and its folder is there.
LEMMA CopyMakesKeeps ==
  ASSUME IInv, NEW r \in Request, Copies(r), NEW q \in req[r].todo, NEW n, n = Find(req[r].from \o q),
         NEW t, t = born + 1, n # Nowhere, t \in Node, NoFault,
         CopyNode(r, n, t, [in |-> Walk(req[r].node, Front(q)), as |-> Last(q)], q),
         req' = [req EXCEPT ![r].todo = (req[r].todo \ {q}) \cup {k.rel : k \in Listing(n, q)}],
         UNCHANGED <<rows, names, day>>, owners' = owners, rules' = rules
  PROVE  IInv'
<1> DEFINE T == req[r].node
           d == WalkIn(at, T, Front(q))
           x == Last(q)
           L == Listing(n, q)
           from == req[r].from
           todo == (req[r].todo \ {q}) \cup {k.rel : k \in L}
<1>1. /\ Grows(at, at', t, [in |-> d, as |-> x]) /\ born' = t
      /\ folder' = IF n \in folder THEN folder \cup {t} ELSE folder
      /\ kept' = [kept EXCEPT ![r] = @ \cup L]
  BY WalkIs DEF CopyNode, Grows
<1>2. calls' \in Nat /\ faults' = faults /\ stops' = stops
  BY FaultsCount
<1>3. Fitting(req[r], names, day, folder) /\ req[r] \in RequestOf(names, day)
  BY DEF IInv, RequestsFit, Fitting
<1>4. from \in Path /\ req[r].to \in Path /\ req[r].todo \subseteq Seq(Name)
  BY <1>3 DEF Fitting, Copies, Copying, RequestOf
<1>5. /\ CopyFits(req[r], kept[r], at, folder, born)
      /\ T \in Node /\ T <= born /\ at[T] = [in |-> Temp, as |-> T] /\ at[T].in = Temp
  BY CopyIs, TempIs
<1>6. q # <<>> /\ q \in Seq(Name) /\ d \in folder /\ WalkIn(at, T, q) = Nowhere
  BY <1>4, <1>5 DEF CopyFits
<1>7. Front(q) \in Seq(Name) /\ x \in Name /\ EntryIn(at, d, x) = Nowhere
  <2>1. Front(q) \in Seq(Name) /\ Last(q) \in Name
    BY <1>6, WalkOn
  <2>2. WalkIn(at, T, q) = EntryIn(at, WalkIn(at, T, Front(q)), Last(q))
    BY <1>6, WalksOn
  <2> QED
    BY <1>6, <2>1, <2>2
<1>8. Sound(at, folder, born, names) /\ Tree(at) /\ born \in Nat /\ folder \subseteq Node
  BY SoundIsTree DEF IInv, TreeStands
<1>9. d \in Node /\ at[d].in # Nowhere /\ d \in InsideIn(at, T)
  <2>1. d \in Node
    BY <1>6, <1>8
  <2>2. d \in InsideIn(at, T)
    <3>1. T \in InsideIn(at, T) /\ Closed(at, InsideIn(at, T))
      BY <1>5, InsideHolds
    <3>2. d \in InsideIn(at, T) \cup {Nowhere}
      BY <1>7, <1>8, <3>1, WalkStays
    <3> QED
      BY <2>1, <3>2, NodesAreNumbers
  <2>3. at[d].in # Nowhere
    <3>1. CASE Front(q) = <<>>
      <4>1. d = T
        BY <3>1, WalkNowhere
      <4> QED
        BY <1>5, <4>1, NodesAreNumbers
    <3>2. CASE Front(q) # <<>>
      <4>1. /\ at[d] = [in |-> WalkIn(at, T, Front(Front(q))), as |-> Last(Front(q))]
            /\ WalkIn(at, T, Front(Front(q))) # Nowhere
        BY <1>7, <1>8, <2>1, <3>2, WalkEnds
      <4> QED
        BY <4>1
    <3> QED
      BY <3>1, <3>2
  <2> QED
    BY <2>1, <2>2, <2>3
<1> HIDE DEF T, d, x, L, todo
<1>10. /\ TreeStands' /\ Tree(at') /\ born' \in Int /\ born <= born'
       /\ at[t].in = Nowhere /\ at'[t] = [in |-> d, as |-> x] /\ at'[t].in = d
       /\ \A m \in Node : at[m].in # t /\ at'[m].in # t
       /\ \A m \in Node : m # t => at'[m] = at[m]
       /\ \A u : \A p \in Seq(Name) : WalkIn(at, u, p) \in Node /\ at[WalkIn(at, u, p)].in # Nowhere =>
            WalkIn(at', u, p) = WalkIn(at, u, p)
  <2>1. folder \subseteq folder' /\ folder' \subseteq folder \cup {t}
    BY <1>1
  <2>2. d \in {Root, Temp} \cup folder /\ d # Temp
    BY <1>6, <1>9, NodesAreNumbers
  <2>3. d \in Node => at[d].in # Nowhere
    BY <1>9
  <2>4. names' = names
    OBVIOUS
  <2> QED
    BY <1>1, <1>7, <1>9, <2>1, <2>2, <2>3, <2>4, OneGrows
<1>11. folder \subseteq folder' /\ (n \in folder => t \in folder')
  BY <1>1
<1>12. t \notin folder /\ born < t
  BY <1>8 DEF Sound
<1>13. n \in Node /\ n = WalkIn(at, Root, from \o q) /\ at[n].in # Nowhere
  <2>1. from \in Seq(Name) /\ from # <<>>
    BY <1>4, PathsAreSeqs
  <2>2. from \o q \in Seq(Name) /\ from \o q # <<>>
    BY <1>6, <2>1
  <2> QED
    BY <2>2, FindLeads, FindIs
<1>14. ASSUME NEW k \in L
       PROVE  /\ k \in Kept /\ n \in folder /\ at[k.node].in # Nowhere
              /\ k.rel \in Seq(Name) /\ k.rel # <<>> /\ Front(k.rel) = q /\ Last(k.rel) \in Name
              /\ from \o k.rel \in Seq(Name) /\ WalkIn(at, Root, from \o k.rel) = k.node
  <2>1. k \in Listing(WalkIn(at, Root, from \o q), q)
    BY <1>13 DEF L
  <2> HIDE DEF from
  <2> QED
    BY <1>4, <1>6, <1>13, <2>1, ListingIs
<1>15. todo = (req[r].todo \ {q}) \cup {k.rel : k \in L} /\ todo \in SUBSET Seq(Name)
  BY <1>4, <1>14 DEF todo
<1>16. Only(r) /\ req'[r] = [req[r] EXCEPT !.todo = todo]
  <2>1. req = [p \in Request |-> req[p]]
    BY DEF IInv, RequestsFit
  <2> QED
    BY <2>1 DEF Only, todo, L
<1>17. /\ req'[r] \in RequestOf(names, day) /\ req'[r].step = "c_entry" /\ req'[r].node = T
       /\ req'[r].from = from /\ req'[r].to = req[r].to /\ req'[r].todo = todo
       /\ req'[r].missed = req[r].missed
  <2>1. req[r] \in RequestOf(names, day) /\ req[r].step = "c_entry" /\ req[r].node = T /\ req[r].from = from
    BY <1>3 DEF Copies, T, from
  <2>2. req'[r] = [step |-> req[r].step, mode |-> req[r].mode, from |-> req[r].from, to |-> req[r].to,
                   item |-> req[r].item, queue |-> req[r].queue, node |-> req[r].node, todo |-> todo,
                   missed |-> req[r].missed]
    BY <1>16, <2>1 DEF RequestOf
  <2>3. req'[r] \in RequestOf(names, day)
    BY <1>15, <2>1, <2>2 DEF RequestOf
  <2> QED
    BY <2>1, <2>2, <2>3
<1>18. Fitting(req'[r], names, day, folder') /\ HeldBy(req'[r]) = {}
  BY <1>4, <1>17 DEF Fitting, Copying, Moving, Holding, Noting, HeldBy
<1>19. /\ kept' \in [Request -> SUBSET Kept] /\ kept'[r] = kept[r] \cup L
       /\ \A p \in Request : p # r => kept'[p] = kept[p]
  <2>1. kept \in [Request -> SUBSET Kept]
    BY DEF IInv, KeptIsCopied, Kept
  <2>2. L \subseteq Kept
    BY <1>14
  <2>3. kept' = [p \in Request |-> IF p = r THEN kept[r] \cup L ELSE kept[p]]
    BY <1>1, <2>1
  <2> QED
    BY <2>1, <2>2, <2>3
<1>20. ASSUME NEW p \in Request, p # r, Copies(p)
       PROVE  /\ req[p].node # T
              /\ CopyFits(req[p], kept'[p], at', folder', born')
              /\ InsideIn(at', req[p].node) \subseteq InsideIn(at, req[p].node)
  <2>1. req[p].node # T
    BY <1>20 DEF IInv, TempsStand, T
  <2>2. d \notin InsideIn(at, req[p].node)
    BY <1>9, <1>20, TempsAreApart DEF T
  <2>3. /\ CopyFits(req[p], kept[p], at', folder', born')
        /\ InsideIn(at', req[p].node) \subseteq InsideIn(at, req[p].node)
    BY <1>1, <1>10, <1>11, <1>20, <2>2, OthersGrow
  <2> QED
    BY <1>19, <1>20, <2>1, <2>3
<1>21. \A p \in Seq(Name) : WalkIn(at, T, p) \in Node => at[WalkIn(at, T, p)].in # Nowhere
  <2>1. ASSUME NEW p \in Seq(Name), WalkIn(at, T, p) \in Node PROVE at[WalkIn(at, T, p)].in # Nowhere
    <3>1. CASE p = <<>>
      BY <1>5, <3>1, WalkNowhere, NodesAreNumbers
    <3>2. CASE p # <<>>
      <4>1. /\ at[WalkIn(at, T, p)] = [in |-> WalkIn(at, T, Front(p)), as |-> Last(p)]
            /\ WalkIn(at, T, Front(p)) # Nowhere
        BY <1>8, <2>1, <3>2, WalkEnds
      <4> QED
        BY <4>1
    <3> QED
      BY <3>1, <3>2
  <2> QED
    BY <2>1
<1>22. d = WalkIn(at, T, Front(q)) /\ x = Last(q)
  BY DEF d, x, T
<1>23. WalkIn(at', T, q) = t
  <2>1. WalkIn(at', T, Front(q)) = d
    BY <1>7, <1>9, <1>10, <1>22
  <2>2. EntryIn(at', d, x) = t
    BY <1>9, <1>10, EntryIsIt, NodesAreNumbers
  <2>3. WalkIn(at', T, q) = EntryIn(at', WalkIn(at', T, Front(q)), Last(q))
    BY <1>6, WalksOn
  <2> QED
    BY <1>22, <2>1, <2>2, <2>3
<1>24. ASSUME NEW p \in req[r].todo, p # q
       PROVE  p # <<>> /\ WalkIn(at', T, Front(p)) \in folder' /\ WalkIn(at', T, p) = Nowhere
  <2> DEFINE D == WalkIn(at, T, Front(p))
             e == WalkIn(at', T, p)
  <2>1. p # <<>> /\ p \in Seq(Name) /\ D \in folder /\ WalkIn(at, T, p) = Nowhere
    BY <1>4, <1>5 DEF CopyFits, T
  <2>2. Front(p) \in Seq(Name) /\ WalkIn(at, T, p) = EntryIn(at, D, Last(p))
    <3>1. Front(p) \in Seq(Name)
      BY <2>1, WalkOn
    <3>2. WalkIn(at, T, p) = EntryIn(at, WalkIn(at, T, Front(p)), Last(p))
      BY <2>1, WalksOn
    <3> QED
      BY <3>1, <3>2
  <2>3. WalkIn(at', T, Front(p)) = D /\ D \in Node
    BY <1>8, <1>10, <1>21, <2>1, <2>2
  <2>4. CASE e # Nowhere
    <3>1. e \in Node /\ at'[e] = [in |-> D, as |-> Last(p)]
      BY <1>10, <2>1, <2>3, <2>4, WalkEnds
    <3> HIDE DEF e
    <3>2. CASE e # t
      <4>1. at[e] = [in |-> D, as |-> Last(p)]
        BY <1>10, <3>1, <3>2
      <4>2. EntryIn(at, D, Last(p)) = e
        BY <1>8, <2>3, <3>1, <4>1, EntryIsIt, NodesAreNumbers
      <4> QED
        BY <2>1, <2>2, <3>1, <4>2, NodesAreNumbers
    <3>3. CASE e = t
      <4>1. D = d /\ Last(p) = x
        <5>1. at'[t].in = D /\ at'[t].as = Last(p) /\ at'[t].in = d /\ at'[t].as = x
          BY <1>10, <3>1, <3>3
        <5> QED
          BY <5>1
      <4>2. WalkIn(at, T, Front(p)) = WalkIn(at, T, Front(q)) /\ WalkIn(at, T, Front(p)) # Nowhere
        BY <1>22, <2>3, <4>1, NodesAreNumbers
      <4>3. at[T].in \notin Node \cup {Nowhere}
        BY <1>5, NodesAreNumbers
      <4>4. Front(p) = Front(q)
        BY <1>5, <1>7, <1>8, <2>2, <4>2, <4>3, OnePath
      <4> QED
        BY <1>6, <1>22, <1>24, <2>1, <4>1, <4>4, SameFrontAndLast
    <3> QED
      BY <3>2, <3>3
  <2> QED
    BY <1>11, <2>1, <2>3, <2>4
<1>25. ASSUME NEW k \in L
       PROVE  /\ k.rel # <<>> /\ WalkIn(at', T, Front(k.rel)) \in folder' /\ WalkIn(at', T, k.rel) = Nowhere
              /\ WalkIn(at', Root, from \o k.rel) = k.node
  <2>1. /\ k \in Kept /\ n \in folder /\ at[k.node].in # Nowhere
        /\ k.rel \in Seq(Name) /\ k.rel # <<>> /\ Front(k.rel) = q /\ Last(k.rel) \in Name
        /\ from \o k.rel \in Seq(Name) /\ WalkIn(at, Root, from \o k.rel) = k.node
    BY <1>14
  <2>2. WalkIn(at', T, Front(k.rel)) = t /\ t \in folder'
    BY <1>11, <1>23, <2>1
  <2>3. WalkIn(at', T, k.rel) = EntryIn(at', t, Last(k.rel))
    BY <2>1, <2>2, WalksOn
  <2>4. EntryIn(at', t, Last(k.rel)) = Nowhere
    <3>1. CASE EntryIn(at', t, Last(k.rel)) # Nowhere
      <4> DEFINE e == EntryIn(at', t, Last(k.rel))
      <4>1. e \in Node /\ at'[e] = [in |-> t, as |-> Last(k.rel)]
        BY <3>1, EntryFound
      <4>2. at'[e].in = t
        BY <4>1
      <4> HIDE DEF e
      <4> QED
        BY <1>10, <4>1, <4>2
    <3> QED
      BY <3>1
  <2>5. k.node \in Node
    BY <2>1 DEF Kept
  <2>6. WalkIn(at', Root, from \o k.rel) = k.node
    BY <1>10, <2>1, <2>5
  <2> QED
    BY <2>1, <2>2, <2>3, <2>4, <2>6
<1>26. ASSUME NEW k \in kept[r]
       PROVE  /\ k.rel # <<>> /\ WalkIn(at', Root, from \o k.rel) = k.node
              /\ k.rel \in todo \cup req[r].missed \/ WalkIn(at', T, k.rel) # Nowhere
  <2>1. /\ k.rel # <<>> /\ WalkIn(at, Root, from \o k.rel) = k.node
        /\ k.rel \in req[r].todo \cup req[r].missed \/ WalkIn(at, T, k.rel) # Nowhere
    BY <1>5 DEF CopyFits, T
  <2>2. k.rel \in Seq(Name) /\ k.node \in Node
    BY DEF IInv, KeptIsCopied
  <2>3. from \o k.rel \in Seq(Name)
    BY <1>4, <2>2, PathsAreSeqs
  <2>4. Find(from \o k.rel) = k.node
    BY <2>1, FindIs
  <2>5. at[k.node].in # Nowhere
    BY <2>2, <2>3, <2>4, FindLeads
  <2>6. WalkIn(at', Root, from \o k.rel) = k.node
    <3>1. WalkIn(at, Root, from \o k.rel) \in Node /\ at[WalkIn(at, Root, from \o k.rel)].in # Nowhere
      BY <2>1, <2>2, <2>5
    <3>2. WalkIn(at', Root, from \o k.rel) = WalkIn(at, Root, from \o k.rel)
      BY <1>10, <2>3, <3>1
    <3> QED
      BY <2>1, <3>2
  <2>7. CASE k.rel \in req[r].todo
    BY <1>15, <1>23, <2>1, <2>6, <2>7, NodesAreNumbers
  <2>9. CASE k.rel \in req[r].missed
    BY <2>1, <2>6, <2>9
  <2>8. CASE WalkIn(at, T, k.rel) # Nowhere
    <3>1. WalkIn(at, T, k.rel) \in Node
      <4>1. WalkIn(at, T, k.rel) \in Node \cup {Nowhere}
        <5>1. Tree(at) /\ k.rel \in Seq(Name) /\ k.rel # <<>>
          BY <1>8, <2>1, <2>2
        <5> QED
          BY <5>1, WalkEnds
      <4> QED
        BY <2>8, <4>1
    <3>2. WalkIn(at', T, k.rel) = WalkIn(at, T, k.rel)
      BY <1>10, <1>21, <2>2, <3>1
    <3> QED
      BY <2>1, <2>6, <2>8, <3>2
  <2> QED
    BY <2>1, <2>7, <2>8, <2>9
<1>27. CopyFits(req'[r], kept'[r], at', folder', born')
  <2>1. T \in Node /\ T <= born' /\ at'[T] = [in |-> Temp, as |-> T]
    <3>1. T \in Node /\ T <= born /\ at[T] = [in |-> Temp, as |-> T] /\ T \in Int
      BY <1>5, NodesAreNumbers DEF T
    <3> QED
      BY <1>8, <1>10, <1>12, <3>1
  <2>2. \A p \in todo : p # <<>> /\ WalkIn(at', T, Front(p)) \in folder' /\ WalkIn(at', T, p) = Nowhere
    BY <1>15, <1>24, <1>25
  <2>3. \A k \in L : k.rel \in todo
    BY <1>15
  <2>4. \A k \in kept'[r] : /\ k.rel # <<>> /\ WalkIn(at', Root, from \o k.rel) = k.node
                            /\ k.rel \in todo \cup req[r].missed \/ WalkIn(at', T, k.rel) # Nowhere
    BY <1>19, <1>25, <1>26, <2>3
  <2> QED
    BY <1>17, <2>1, <2>2, <2>4 DEF CopyFits
<1>28. ASSUME NEW p \in Request, req[p].step = "p_remove" PROVE req[p].node \notin InsideIn(at', T)
  <2> DEFINE S == InsideIn(at, T) \cup {t}
  <2>1. T \in Node /\ InsideIn(at, T) \in SUBSET Node /\ T \in InsideIn(at, T) /\ Closed(at, InsideIn(at, T))
    BY <1>5, InsideHolds DEF T
  <2>2. Closed(at', S)
    <3>1. ASSUME NEW m \in Node, at'[m].in \in S, m # t PROVE m \in S
      <4>1. at[m].in \in S /\ at[m].in # t
        BY <1>10, <3>1
      <4> QED
        BY <2>1, <4>1 DEF Closed
    <3> QED
      BY <3>1 DEF Closed
  <2>3. InsideIn(at', T) \subseteq S
    <3>1. S \in SUBSET Node /\ T \in S
      BY <2>1
    <3> HIDE DEF S
    <3> QED
      BY <2>1, <2>2, <3>1, InsideHolds
  <2>4. req[p].node \notin Inside(req[r].node) /\ req[p].node \in folder
    BY <1>28 DEF IInv, TempsStand, RequestsFit, Fitting
  <2>5. req[p].node \notin InsideIn(at, T)
    BY <2>4, TempIs DEF T
  <2> QED
    BY <1>12, <2>3, <2>4, <2>5
<1>29. \A m \in Node : at'[m].in = Temp /\ m # T => at[m].in = Temp
  BY <1>9, <1>10, NodesAreNumbers
<1>30. TempsStand' /\ TodoIsOpen' /\ KeptIsCopied'
  <2>1. \A p \in Request : p # r => kept'[p] \subseteq kept[p]
    BY <1>19
  <2>2. \A m \in Node : at'[m].in = Temp /\ m # req'[r].node => at[m].in = Temp /\ m # req[r].node
    BY <1>17, <1>29 DEF T
  <2>3. \A p \in Request : req[p].step = "p_remove" => req[p].node \notin InsideIn(at', req'[r].node)
    BY <1>17, <1>28
  <2> QED
    BY <1>2, <1>10, <1>16, <1>17, <1>19, <1>20, <1>27, <2>1, <2>2, <2>3, OneCopies
<1>31. \A m \in Node : at[m].in = Trash => at'[m] = at[m]
  BY <1>10, NodesAreNumbers
<1>32. req'[r].step # "d_record" /\ req[r].step \notin {"p_row", "r_row"}
  BY <1>17 DEF Copies
<1>33. RowsFit' /\ RequestsFit' /\ HeldIsTheRow' /\ RecordsAreNew' /\ MissingIsCleared'
  BY <1>2, <1>10, <1>11, <1>16, <1>18, <1>31, <1>32, OthersStay
<1> QED
  BY <1>10, <1>30, <1>33 DEF IInv

LEMMA CopyEntryKeeps ==
  ASSUME IInv, NEW r \in Request, CopyEntry(r)
  PROVE  IInv'
<1>1. Copies(r) /\ UNCHANGED <<rows, names, day>> /\ owners' = owners /\ rules' = rules
  BY DEF CopyEntry, Copies, tables
<1> DEFINE n(q) == Find(req[r].from \o q)
           t == born + 1
<1>2. PICK q \in req[r].todo :
        \/ /\ NoFault /\ n(q) = Nowhere
           /\ req' = [req EXCEPT ![r].todo = req[r].todo \ {q}]
           /\ UNCHANGED <<tree, kept>>
        \/ /\ Fault
           /\ req' = [req EXCEPT ![r].todo = req[r].todo \ {q}, ![r].missed = req[r].missed \cup {q}]
           /\ UNCHANGED <<tree, kept>>
        \/ /\ NoFault /\ n(q) # Nowhere /\ t \in Node
           /\ CopyNode(r, n(q), t, [in |-> Walk(req[r].node, Front(q)), as |-> Last(q)], q)
           /\ req' = [req EXCEPT ![r].todo = (req[r].todo \ {q}) \cup {k.rel : k \in Listing(n(q), q)}]
        \/ NoFault /\ Abandon(r)
        \/ Fault /\ Abandon(r)
  BY DEF CopyEntry
<1>0. /\ req = [p \in Request |-> req[p]] /\ req[r] \in RequestOf(names, day) /\ req[r].step = "c_entry"
      /\ req[r].todo \ {q} \in SUBSET Seq(Name) /\ req[r].missed \cup {q} \in SUBSET Seq(Name)
  BY <1>1 DEF IInv, RequestsFit, Fitting, RequestOf, Copies
<1>3. CASE /\ NoFault /\ n(q) = Nowhere
           /\ req' = [req EXCEPT ![r].todo = req[r].todo \ {q}]
           /\ UNCHANGED <<tree, kept>>
  <2>1. Only(r) /\ req'[r] = [req[r] EXCEPT !.todo = req[r].todo \ {q}]
    BY <1>0, <1>3 DEF Only
  <2>2. /\ req'[r] \in RequestOf(names, day) /\ req'[r].step = "c_entry" /\ req'[r].node = req[r].node
        /\ req'[r].from = req[r].from /\ req'[r].to = req[r].to /\ req'[r].todo = req[r].todo \ {q}
        /\ req'[r].missed = req[r].missed
    BY <1>0, <2>1 DEF RequestOf
  <2>3. calls' \in Nat /\ faults' \in {faults, faults + 1} /\ stops' = stops
    BY <1>3, FaultsCount
  <2> QED
    BY <1>1, <1>3, <2>1, <2>2, <2>3, CopyPassesKeeps
<1>6. CASE /\ Fault
           /\ req' = [req EXCEPT ![r].todo = req[r].todo \ {q}, ![r].missed = req[r].missed \cup {q}]
           /\ UNCHANGED <<tree, kept>>
  <2>1. Only(r) /\ req'[r] = [req[r] EXCEPT !.todo = req[r].todo \ {q}, !.missed = req[r].missed \cup {q}]
    BY <1>0, <1>6 DEF Only
  <2>2. /\ req'[r] \in RequestOf(names, day) /\ req'[r].step = "c_entry" /\ req'[r].node = req[r].node
        /\ req'[r].from = req[r].from /\ req'[r].to = req[r].to /\ req'[r].todo = req[r].todo \ {q}
        /\ req'[r].missed = req[r].missed \cup {q}
    BY <1>0, <2>1 DEF RequestOf
  <2>3. calls' \in Nat /\ faults' \in {faults, faults + 1} /\ stops' = stops
    BY <1>6, FaultsCount
  <2> QED
    BY <1>1, <1>6, <2>1, <2>2, <2>3, CopyPassesKeeps
<1>4. CASE /\ NoFault /\ n(q) # Nowhere /\ t \in Node
           /\ CopyNode(r, n(q), t, [in |-> Walk(req[r].node, Front(q)), as |-> Last(q)], q)
           /\ req' = [req EXCEPT ![r].todo = (req[r].todo \ {q}) \cup {k.rel : k \in Listing(n(q), q)}]
  BY <1>1, <1>4, CopyMakesKeeps
<1>5. CASE (NoFault \/ Fault) /\ Abandon(r)
  <2>1. calls' \in Nat /\ faults' \in {faults, faults + 1} /\ stops' = stops
    BY <1>5, FaultsCount
  <2> QED
    BY <1>1, <1>5, <2>1, AbandonKeeps
<1> QED
  BY <1>2, <1>3, <1>4, <1>5, <1>6

-----------------------------------------------------------------------------
(* Deleting.                                                               *)

LEMMA DeleteKeeps ==
  ASSUME IInv, NEW r \in Request, NEW p \in Path, Delete(r, p)
  PROVE  IInv'
<1> DEFINE n == Find(p)
           x == names + 1
           w == [id |-> 0, name |-> x, path |-> p, day |-> day]
<1>1. /\ Arrive(r) /\ n # Nowhere /\ names' = x /\ Place(r, n, Trash, x) /\ Begin(r, RowRequest("d_record", w))
      /\ folder' = folder /\ born' = born /\ rows' = rows /\ owners' = owners /\ rules' = rules /\ day' = day
  BY DEF Delete, Exists, TrashName, RowRequest
<1>2. Sound(at, folder, born, names) /\ Tree(at) /\ names \in Nat /\ day \in Nat
  BY SoundIsTree DEF IInv, TreeStands, RowsFit
<1>3. /\ n \in Node /\ at[n].in # Nowhere /\ at[n].in \in Node \cup {Root}
      /\ \A q \in Request : Copies(q) => n \notin InsideIn(at, req[q].node)
  <2>1. p \in Seq(Name) /\ p # <<>>
    BY PathsAreSeqs
  <2> QED
    BY <1>1, <2>1, FindLeads
<1>4. /\ w \in ItemOf(names', day) /\ w.id = 0 /\ w.name = x
      /\ names' \in Nat /\ names <= names' /\ x \in 1..names' /\ x \notin 1..names
  BY <1>1, <1>2 DEF ItemOf
<1> HIDE DEF n, w
<1>5. Only(r) /\ req'[r] = RowRequest("d_record", w) /\ req[r].step = "idle" /\ ~Copies(r)
  BY <1>1, BeginIs DEF IInv, Arrive, Copies
<1>6. /\ Fitting(req'[r], names', day, folder) /\ req'[r].step = "d_record"
      /\ req'[r].item = w /\ HeldBy(req'[r]) = {}
  <2>1. "d_record" \in (Holding \ {"next", "p_remove"}) \cup Noting /\ "d_record" \notin Holding
    BY DEF Holding, Noting
  <2>2. /\ Fitting(RowRequest("d_record", w), names', day, folder)
        /\ RowRequest("d_record", w).step = "d_record" /\ RowRequest("d_record", w).item = w
        /\ HeldBy(RowRequest("d_record", w)) = {}
    <3> DEFINE s == "d_record"
    <3>1. s \in (Holding \ {"next", "p_remove"}) \cup Noting /\ s \notin Holding /\ w \in ItemOf(names', day)
          /\ w.id = 0
      BY <1>4, <2>1
    <3> HIDE DEF s
    <3>2. Fitting(RowRequest(s, w), names', day, folder) /\ RowRequest(s, w).step = s
      BY <3>1, RowBegins
    <3>3. RowRequest(s, w).item = w /\ HeldBy(RowRequest(s, w)) = {}
      BY <3>1, RowBegins
    <3> QED
      BY <3>2, <3>3 DEF s
  <2> QED
    BY <1>5, <2>2
<1>7. calls' \in Nat /\ faults' = faults /\ stops' = stops /\ faults \in Nat /\ stops \in Nat
  BY <1>1, FaultsCount
<1>8. EntryIn(at, Trash, x) = Nowhere
  <2>1. CASE EntryIn(at, Trash, x) # Nowhere
    <3> DEFINE e == EntryIn(at, Trash, x)
    <3>1. e \in Node /\ at[e] = [in |-> Trash, as |-> x]
      BY <2>1, EntryFound
    <3>2. at[e].in = Trash /\ at[e].as = x
      BY <3>1
    <3> HIDE DEF e
    <3> QED
      BY <1>2, <1>4, <3>1, <3>2 DEF Sound
  <2> QED
    BY <2>1
<1>9. /\ at'[n] = [in |-> Trash, as |-> x] /\ \A m \in Node : m # n => at'[m] = at[m]
      /\ \A m \in Node : at[m].in = Trash => at'[m] = at[m]
  <2>1. at' = Placed(at, n, Trash, x)
    BY <1>1, <1>3, PlaceIs
  <2> QED
    BY <1>3, <1>8, <2>1, NodesAreNumbers DEF Placed
<1>10. TreeStands' /\ TempsStand' /\ TodoIsOpen' /\ KeptIsCopied'
  <2>1. /\ Trash \in {Root, Trash} \cup folder /\ Trash \notin Node \cup {Root} /\ Trash # n
        /\ EntryIn(at, Trash, x) \notin Node
    BY <1>3, <1>8, NodesAreNumbers
  <2>2. ASSUME NEW q \in Request, Copies(q)
        PROVE  n \notin InsideIn(at, req[q].node) /\ Trash \notin InsideIn(at, req[q].node)
    BY <1>3, <2>1, <2>2, TempIs, InsideHolds
  <2>3. req'[r].step \notin {"c_entry", "p_remove"}
    BY <1>6
  <2> HIDE DEF x
  <2> QED
    BY <1>1, <1>3, <1>4, <1>5, <1>7, <2>1, <2>2, <2>3, PlaceStays
<1>11. Tree(at') /\ EntryIn(at', Trash, x) = n
  <2>1. Tree(at')
    BY <1>10, SoundIsTree DEF TreeStands
  <2>2. EntryIn(at', Trash, x) = n
    BY <1>3, <1>9, <2>1, EntryIsIt, NodesAreNumbers
  <2> QED
    BY <2>1, <2>2
<1>12. ASSUME NEW y, EntryIn(at, Trash, y) # Nowhere PROVE EntryIn(at', Trash, y) # Nowhere
  <2> DEFINE e == EntryIn(at, Trash, y)
  <2>1. e \in Node /\ at[e] = [in |-> Trash, as |-> y]
    BY <1>12, EntryFound
  <2>2. at[e].in = Trash
    BY <2>1
  <2> HIDE DEF e
  <2>3. at'[e] = [in |-> Trash, as |-> y]
    BY <1>9, <2>1, <2>2
  <2>4. EntryIn(at', Trash, y) = e
    BY <1>11, <2>1, <2>3, EntryIsIt, NodesAreNumbers
  <2> QED
    BY <2>1, <2>4, NodesAreNumbers
<1>13. \A q \in Request : q # r => req'[q] = req[q]
  BY <1>5, OnlyOne
<1>14. /\ ItemOf(names, day) \subseteq ItemOf(names', day)
       /\ \A q \in Request : Fitting(req[q], names, day, folder)
  BY <1>2, <1>4, FittingLasts DEF IInv, RequestsFit
<1>15. RowsFit'
  <2>1. rows' \subseteq Item'
    BY <1>1, <1>14 DEF IInv, RowsFit, Item
  <2> QED
    BY <1>1, <1>7, <2>1 DEF IInv, RowsFit
<1>16. RequestsFit'
  BY <1>1, <1>2, <1>4, <1>5, <1>6, RequestsStay
<1>17. HeldIsTheRow'
  <2>1. ASSUME NEW q \in Request, NEW v \in HeldBy(req'[q]), NEW u \in rows', v.name = u.name PROVE v = u
    <3>1. q # r /\ v \in Held(q) /\ u \in rows
      BY <1>1, <1>6, <1>13, <2>1 DEF Held
    <3> QED
      BY <2>1, <3>1 DEF IInv, HeldIsTheRow
  <2> QED
    BY <2>1 DEF HeldIsTheRow, Held
<1>18. /\ \A v \in rows : v.name # x
       /\ \A q \in Request : \A v \in Held(q) : v.name # x
       /\ \A q \in Request : req[q].step = "d_record" => req[q].item.name # x
  <2>1. \A v \in ItemOf(names, day) \cup {NoRow} : v.name # x
    BY <1>2 DEF ItemOf, NoRow
  <2>2. rows \subseteq ItemOf(names, day)
    BY DEF IInv, RowsFit, Item
  <2>3. ASSUME NEW q \in Request, NEW v \in Held(q) PROVE v \in ItemOf(names, day) \cup {NoRow}
    BY <1>14, <2>3 DEF Fitting, RequestOf, Held, HeldBy
  <2>4. ASSUME NEW q \in Request, req[q].step = "d_record" PROVE req[q].item \in ItemOf(names, day)
    BY <1>14, <2>4 DEF Fitting, Noting
  <2> QED
    BY <2>1, <2>2, <2>3, <2>4
<1>19. RecordsAreNew'
  <2>1. ASSUME NEW q \in Request, req'[q].step = "d_record"
        PROVE  /\ EntryIn(at', Trash, req'[q].item.name) # Nowhere
               /\ \A u \in rows' : u.name # req'[q].item.name
               /\ \A o \in Request :
                    /\ \A v \in HeldBy(req'[o]) : v.name # req'[q].item.name
                    /\ o # q /\ req'[o].step = "d_record" => req'[o].item.name # req'[q].item.name
    <3>1. CASE q = r
      <4>1. req'[q].item.name = x /\ req'[q].item = w
        BY <1>4, <1>6, <3>1
      <4>2. EntryIn(at', Trash, x) # Nowhere
        BY <1>3, <1>11, NodesAreNumbers
      <4>3. ASSUME NEW o \in Request
            PROVE  /\ \A v \in HeldBy(req'[o]) : v.name # x
                   /\ o # r /\ req'[o].step = "d_record" => req'[o].item.name # x
        BY <1>6, <1>13, <1>18 DEF Held
      <4> QED
        BY <1>1, <1>18, <3>1, <4>1, <4>2, <4>3
    <3>2. CASE q # r
      <4>1. req'[q] = req[q] /\ req[q].step = "d_record"
        BY <1>13, <2>1, <3>2
      <4>2. /\ TrashNode(req[q].item) # Nowhere
            /\ \A u \in rows : u.name # req[q].item.name
            /\ \A o \in Request :
                 /\ \A v \in Held(o) : v.name # req[q].item.name
                 /\ o # q /\ req[o].step = "d_record" => req[o].item.name # req[q].item.name
        BY <4>1 DEF IInv, RecordsAreNew
      <4>3. EntryIn(at', Trash, req'[q].item.name) # Nowhere
        BY <1>12, <4>1, <4>2, TrashNodeIs
      <4>4. ASSUME NEW o \in Request
            PROVE  /\ \A v \in HeldBy(req'[o]) : v.name # req'[q].item.name
                   /\ o # q /\ req'[o].step = "d_record" => req'[o].item.name # req'[q].item.name
        <5>1. CASE o = r
          BY <1>4, <1>6, <1>18, <4>1, <5>1
        <5>2. CASE o # r
          BY <1>13, <4>1, <4>2, <5>2 DEF Held
        <5> QED
          BY <5>1, <5>2
      <4> QED
        BY <1>1, <4>1, <4>2, <4>3, <4>4
    <3> QED
      BY <3>1, <3>2
  <2>2. \A q \in Request : TrashNode(req[q].item)' = EntryIn(at', Trash, req'[q].item.name)
    BY EntryIs DEF TrashNode, Trash
  <2> QED
    BY <2>1, <2>2 DEF RecordsAreNew, Held
<1>20. MissingIsCleared'
  <2>1. ASSUME NEW v \in rows, TrashNode(v) # Nowhere PROVE EntryIn(at', Trash, v.name) # Nowhere
    BY <1>12, <2>1, TrashNodeIs
  <2>2. \A q \in Request : req[q].step \in {"p_row", "r_row"} => req'[q] = req[q]
    BY <1>5, <1>13
  <2> QED
    BY <1>1, <1>7, <2>1, <2>2, ClearingStays
<1> QED
  BY <1>10, <1>15, <1>16, <1>17, <1>19, <1>20 DEF IInv

-----------------------------------------------------------------------------
(* Making folders.                                                         *)

\* The tree h with folders F among b nodes grows to g with folders G: node t
\* comes to stand at <<d, x>>.
Made(h, F, b, t, d, x, g, G) ==
  /\ t = b + 1 /\ t \in Node
  /\ d \in {Root} \cup F /\ (d \in Node => h[d].in # Nowhere) /\ d # Temp
  /\ x \in Name /\ EntryIn(h, d, x) = Nowhere
  /\ Grows(h, g, t, [in |-> d, as |-> x])
  /\ F \subseteq G /\ G \subseteq F \cup {t}

LEMMA MadeIsSound ==
  ASSUME NEW h, NEW F, NEW b, NEW k, Sound(h, F, b, k), NEW t, NEW d, NEW x, NEW g, NEW G,
         Made(h, F, b, t, d, x, g, G)
  PROVE  Sound(g, G, t, k)
<1>0. /\ t = b + 1 /\ t \in Node /\ d \in {Root, Temp} \cup F /\ (d \in Node => h[d].in # Nowhere) /\ d # Temp
      /\ x \in Name /\ EntryIn(h, d, x) = Nowhere
      /\ Grows(h, g, t, [in |-> d, as |-> x])
      /\ F \subseteq G /\ G \subseteq F \cup {t}
  BY DEF Made
<1> QED
  BY <1>0, GrownIsSound DEF Grows

LEMMA MadeIs ==
  ASSUME NEW h, Tree(h), NEW t \in Node, NEW d, NEW x, NEW g, Grows(h, g, t, [in |-> d, as |-> x])
  PROVE  \A m \in Node : g[m] = IF m = t THEN [in |-> d, as |-> x] ELSE h[m]
  BY DEF Tree, Grows

\* MkdirAll makes one folder at a place that is free, or another one in it too.
MadeAt(d, x) ==
  \/ /\ born' = born + 1 /\ folder' = folder \cup {born + 1}
     /\ Grows(at, at', born + 1, [in |-> d, as |-> x])
  \/ /\ born + 2 \in Node /\ born' = born + 2 /\ folder' = folder \cup {born + 1, born + 2}
     /\ \E g, y : /\ y \in Name /\ Grows(at, g, born + 1, [in |-> d, as |-> x])
                  /\ Grows(g, at', born + 2, [in |-> born + 1, as |-> y])

LEMMA MkdirAllMakes ==
  ASSUME IInv, NEW r \in Request, NEW p \in Path, MkdirAll(r, p)
  PROVE  \E q \in Seq(Name), x \in Name :
           /\ Find(q) \in {Root} \cup folder /\ EntryIn(at, Find(q), x) = Nowhere
           /\ born + 1 \in Node /\ MadeAt(Find(q), x)
<1> DEFINE missing == {k \in 1..Len(p) : ~Exists(SubSeq(p, 1, k))}
           first   == Len(p) - Cardinality(missing) + 1
           made    == born + 1 .. born + Cardinality(missing)
           d       == Find(SubSeq(p, 1, first - 1))
<1>1. /\ missing # {} /\ made \subseteq Node /\ IsFolder(d)
      /\ at' = [n \in Node |-> IF n \notin made THEN at[n]
                               ELSE [in |-> IF n = born + 1 THEN d ELSE n - 1, as |-> p[n - born + first - 1]]]
      /\ folder' = folder \cup made /\ born' = born + Cardinality(missing)
  BY DEF MkdirAll
<1>2. born \in Nat /\ Tree(at) /\ at = [n \in Node |-> at[n]]
  BY SoundIsTree DEF IInv, TreeStands, Tree
<1>3. d \in {Root} \cup folder /\ d # Nowhere
  BY <1>1, NodesAreNumbers, SoundIsTree DEF IsFolder, IInv, TreeStands
<1>4. p \in Seq(Name) /\ p # <<>> /\ Len(p) \in {1, 2} /\ Front(p) = SubSeq(p, 1, Len(p) - 1) /\ Last(p) = p[Len(p)]
      /\ SubSeq(p, 1, Len(p)) = p
  <2>1. p \in Seq(Name) /\ p # <<>> /\ Len(p) \in {1, 2}
    BY PathsAreSeqs
  <2> QED
    BY <2>1 DEF Front, Last
<1>5. Find(p) = EntryIn(at, Find(SubSeq(p, 1, Len(p) - 1)), p[Len(p)])
  <2>1. WalkIn(at, Root, p) = EntryIn(at, WalkIn(at, Root, Front(p)), Last(p))
    BY <1>4, WalksOn
  <2>2. Find(p) = WalkIn(at, Root, p) /\ Find(Front(p)) = WalkIn(at, Root, Front(p))
    BY FindIs
  <2> QED
    BY <1>4, <2>1, <2>2
<1>6. \A q : Exists(q) <=> Find(q) # Nowhere
  BY DEF Exists
<1>7. \A k \in 1..Len(p) : p[k] \in Name
  BY <1>4
<1>8. SubSeq(p, 1, 0) = <<>> /\ <<>> \in Seq(Name)
  BY <1>4
<1>9. CASE \E l \in 1..Len(p) : missing = {l}
  <2>1. PICK l \in 1..Len(p) : missing = {l}
    BY <1>9
  <2>2. Cardinality(missing) = 1
    BY <2>1, FS_Singleton
  <2> HIDE DEF missing
  <2>3. first = Len(p) /\ d = Find(SubSeq(p, 1, Len(p) - 1)) /\ made = {born + 1}
    BY <1>2, <1>4, <2>2
  <2>4. EntryIn(at, d, p[Len(p)]) = Nowhere
    <3>1. CASE l = Len(p)
      <4>1. ~Exists(SubSeq(p, 1, Len(p)))
        BY <2>1, <3>1 DEF missing
      <4> QED
        BY <1>4, <1>5, <1>6, <2>3, <4>1
    <3>2. CASE l # Len(p)
      <4>1. l = Len(p) - 1
        <5>1. CASE Len(p) = 1
          BY <2>1, <3>2, <5>1
        <5>2. CASE Len(p) = 2
          <6>1. l \in 1..2
            BY <5>2
          <6> QED
            BY <3>2, <5>2, <6>1
        <5> QED
          BY <1>4, <5>1, <5>2
      <4>2. ~Exists(SubSeq(p, 1, Len(p) - 1))
        BY <2>1, <4>1 DEF missing
      <4> QED
        BY <1>3, <1>6, <2>3, <4>2
    <3> QED
      BY <3>1, <3>2
  <2> DEFINE q == SubSeq(p, 1, Len(p) - 1)
             x == p[Len(p)]
  <2>5. q \in Seq(Name) /\ x \in Name /\ Find(q) = d
    <3>1. Front(p) \in Seq(Name)
      BY <1>4, WalkOn
    <3> QED
      BY <1>4, <1>7, <2>3, <3>1
  <2>6. at' = [n \in Node |-> IF n = born + 1 THEN [in |-> d, as |-> x] ELSE at[n]]
    <3>1. \A n \in made : n = born + 1 /\ n - born + first - 1 = Len(p)
      BY <1>2, <1>4, <2>3
    <3> HIDE DEF made, first, d
    <3> QED
      BY <1>1, <2>3, <3>1
  <2> HIDE DEF d, q, x
  <2>7. Grows(at, at', born + 1, [in |-> d, as |-> x])
    BY <1>2, <2>6 DEF Grows
  <2>8. born' = born + 1 /\ folder' = folder \cup {born + 1} /\ born + 1 \in Node
    BY <1>1, <2>2, <2>3
  <2> QED
    BY <1>3, <2>4, <2>5, <2>7, <2>8 DEF x, MadeAt
<1>10. CASE missing = {1, 2} /\ Len(p) = 2
  <2>1. Cardinality(missing) = 2
    <3>1. Cardinality({1}) = 1 /\ IsFiniteSet({1})
      BY FS_Singleton
    <3>2. Cardinality({1} \cup {2}) = 2
      <4>1. 2 \notin {1}
        OBVIOUS
      <4>2. Cardinality({1} \cup {2}) = Cardinality({1}) + 1
        BY <3>1, <4>1, FS_AddElement
      <4> QED
        BY <3>1, <4>2
    <3>3. missing = {1} \cup {2}
      BY <1>10
    <3> QED
      BY <3>2, <3>3
  <2>2. ~Exists(SubSeq(p, 1, 1))
    BY <1>10
  <2> HIDE DEF missing
  <2>3. first = 1 /\ d = Find(<<>>) /\ made = {born + 1, born + 2}
    <3>1. first = 1
      BY <1>10, <2>1
    <3>2. made = born + 1 .. born + 2
      BY <2>1
    <3>3. born + 1 .. born + 2 = {born + 1, born + 2}
      BY <1>2
    <3>4. SubSeq(p, 1, first - 1) = <<>>
      BY <1>8, <3>1
    <3> QED
      BY <3>1, <3>2, <3>3, <3>4
  <2> DEFINE q == SubSeq(p, 1, 1)
             x == p[1]
             y == p[2]
  <2>4. q \in Seq(Name) /\ q # <<>> /\ Front(q) = <<>> /\ Last(q) = x /\ x \in Name /\ y \in Name
    BY <1>4, <1>7, <1>10 DEF Front, Last
  <2>5. EntryIn(at, d, x) = Nowhere
    <3> HIDE DEF q, x
    <3>1. Find(q) = EntryIn(at, Find(<<>>), x)
      BY <2>4, FindIs, WalksOn
    <3>2. Find(q) = Nowhere
      BY <1>6, <2>2 DEF q
    <3> QED
      BY <2>3, <3>1, <3>2
  <2> DEFINE g == [n \in Node |-> IF n = born + 1 THEN [in |-> d, as |-> x] ELSE at[n]]
  <2>6. at' = [n \in Node |-> IF n = born + 2 THEN [in |-> born + 1, as |-> y] ELSE g[n]]
    <3>1. ASSUME NEW n \in Node
          PROVE  at'[n] = IF n = born + 2 THEN [in |-> born + 1, as |-> y] ELSE g[n]
      <4>1. at'[n] = IF n \notin made THEN at[n]
                     ELSE [in |-> IF n = born + 1 THEN d ELSE n - 1, as |-> p[n - born + first - 1]]
        BY <1>1
      <4>2. born + 1 - born + first - 1 = 1 /\ born + 2 - born + first - 1 = 2 /\ born + 2 - 1 = born + 1
            /\ born + 1 # born + 2
        BY <1>2, <2>3
      <4>3. made = {born + 1, born + 2}
        BY <2>3
      <4> HIDE DEF made, first, d
      <4>4. CASE n = born + 1
        <5>1. n - born + first - 1 = 1 /\ n # born + 2 /\ n \in made
          BY <1>2, <2>3, <4>3, <4>4
        <5> QED
          BY <4>1, <4>4, <5>1
      <4>5. CASE n = born + 2
        <5>1. n - born + first - 1 = 2 /\ n # born + 1 /\ n \in made /\ n - 1 = born + 1
          BY <1>2, <2>3, <4>3, <4>5
        <5> QED
          BY <4>1, <4>5, <5>1
      <4>6. CASE n \notin made
        BY <4>1, <4>3, <4>6
      <4> QED
        BY <4>3, <4>4, <4>5, <4>6
    <3>2. at' = [n \in Node |-> at'[n]]
      BY <1>1
    <3> HIDE DEF g
    <3> QED
      BY <3>1, <3>2
  <2>7. Grows(at, g, born + 1, [in |-> d, as |-> x])
    BY <1>2 DEF Grows
  <2>8. g = [n \in Node |-> g[n]]
    OBVIOUS
  <2> HIDE DEF d, q, x, y, g
  <2>9. Grows(g, at', born + 2, [in |-> born + 1, as |-> y])
    BY <2>6, <2>8 DEF Grows
  <2>10. born' = born + 2 /\ folder' = folder \cup {born + 1, born + 2} /\ born + 1 \in Node /\ born + 2 \in Node
    BY <1>1, <2>1, <2>3
  <2>11. MadeAt(d, x)
    BY <2>4, <2>7, <2>9, <2>10 DEF MadeAt
  <2> QED
    BY <1>3, <1>8, <2>3, <2>4, <2>5, <2>10, <2>11
<1>11. \/ \E l \in 1..Len(p) : missing = {l}
       \/ missing = {1, 2} /\ Len(p) = 2
  <2>1. missing # {} /\ missing \subseteq 1..Len(p) /\ Len(p) \in {1, 2}
    BY <1>1, <1>4
  <2>2. 1..Len(p) \subseteq {1, 2} /\ (Len(p) = 1 => 1..Len(p) = {1})
    BY <1>4
  <2>3. 2 \in missing => Len(p) = 2
    BY <2>1, <2>2
  <2> HIDE DEF missing
  <2>4. missing = {1} \/ missing = {2} \/ missing = {1, 2}
    BY <2>1, <2>2
  <2> QED
    BY <2>1, <2>3, <2>4
<1> QED
  BY <1>9, <1>10, <1>11

LEMMA MkdirAllKeeps ==
  ASSUME IInv, NEW r \in Request, NEW p \in Path, MkdirAll(r, p)
  PROVE  IInv'
<1> DEFINE t == born + 1
           u == born + 2
<1>1. /\ Arrive(r) /\ req' = req /\ kept' = kept /\ UNCHANGED <<rows, names, day>>
      /\ owners' = owners /\ rules' = rules
  BY DEF MkdirAll, tables
<1>2. PICK q \in Seq(Name), x \in Name :
        /\ Find(q) \in {Root} \cup folder /\ EntryIn(at, Find(q), x) = Nowhere
        /\ t \in Node /\ MadeAt(Find(q), x)
  BY MkdirAllMakes
<1> DEFINE d == Find(q)
<1>3. /\ Sound(at, folder, born, names) /\ Tree(at) /\ born \in Nat /\ names \in Nat /\ folder \subseteq Node
      /\ day \in Nat /\ folder \subseteq 1..born
  <2>1. Sound(at, folder, born, names) /\ day \in Nat
    BY DEF IInv, TreeStands, RowsFit
  <2>2. folder \subseteq 1..born
    BY <2>1 DEF Sound
  <2> QED
    BY <2>1, <2>2, SoundIsTree
<1>4. /\ d \in {Root} \cup folder /\ EntryIn(at, d, x) = Nowhere
      /\ d \in Node => at[d].in # Nowhere
      /\ \A o \in Request : Copies(o) => d \notin InsideIn(at, req[o].node)
  BY <1>2, FindLeads
<1>5. d \in {Root, Temp} \cup folder /\ d # Temp /\ d # Nowhere /\ d # Trash
  BY <1>3, <1>4, NodesAreNumbers
<1> HIDE DEF d
<1>6. \A m \in Node : m > born => at[m].in = Nowhere
  BY <1>3 DEF Sound
<1>7. /\ Sound(at', folder', born', names) /\ folder \subseteq folder' /\ born' \in Int /\ born <= born'
      /\ \A m \in Node : m # t /\ m # u => at'[m] = at[m]
      /\ at'[t].in = d
      /\ u \in Node => at'[u].in = t \/ at'[u] = at[u]
  <2>1. t = born + 1 /\ t # u /\ u = t + 1 /\ u > born /\ t > born
    BY <1>3
  <2>4. /\ Sound(at, folder, born, names) /\ t = born + 1 /\ t \in Node
        /\ d \in {Root} \cup folder /\ (d \in Node => at[d].in # Nowhere)
        /\ x \in Name /\ d # Temp /\ EntryIn(at, d, x) = Nowhere
    BY <1>2, <1>3, <1>4, <1>5
  <2>2. CASE /\ born' = born + 1 /\ folder' = folder \cup {born + 1}
             /\ Grows(at, at', born + 1, [in |-> d, as |-> x])
    <3>1. born' = t /\ folder' = folder \cup {t} /\ Grows(at, at', t, [in |-> d, as |-> x])
      BY <2>2
    <3>2. folder \subseteq folder' /\ folder' \subseteq folder \cup {t}
      BY <3>1
    <3> HIDE DEF t, u
    <3>3. /\ Sound(at', folder', t, names) /\ at'[t].in = d
          /\ \A m \in Node : m # t => at'[m] = at[m]
      <4>1. Made(at, folder, born, t, d, x, at', folder')
        BY <2>4, <3>1, <3>2 DEF Made
      <4>2. Sound(at, folder, born, names)
        BY <2>4
      <4>3. Sound(at', folder', t, names)
        BY <4>1, <4>2, MadeIsSound
      <4>4. \A m \in Node : at'[m] = IF m = t THEN [in |-> d, as |-> x] ELSE at[m]
        BY <1>3, <2>4, <3>1, MadeIs
      <4> QED
        BY <2>4, <4>3, <4>4
    <3> QED
      BY <1>3, <2>1, <3>1, <3>2, <3>3
  <2>3. CASE /\ born + 2 \in Node /\ born' = born + 2 /\ folder' = folder \cup {born + 1, born + 2}
             /\ \E g, y : /\ y \in Name /\ Grows(at, g, born + 1, [in |-> d, as |-> x])
                          /\ Grows(g, at', born + 2, [in |-> born + 1, as |-> y])
    <3>1. PICK g, y : /\ y \in Name /\ Grows(at, g, t, [in |-> d, as |-> x])
                      /\ Grows(g, at', u, [in |-> t, as |-> y])
      BY <2>3
    <3>2. u \in Node /\ born' = u /\ folder' = folder \cup {t, u}
      BY <2>3
    <3> DEFINE F == folder \cup {t}
    <3>3. folder \subseteq F /\ F \subseteq folder \cup {t} /\ F \subseteq folder' /\ folder' \subseteq F \cup {u} /\ t \in F
      BY <3>2
    <3> HIDE DEF t, u, F
    <3>4. /\ Sound(g, F, t, names) /\ g[t].in = d
          /\ \A m \in Node : m # t => g[m] = at[m]
      <4>1. Made(at, folder, born, t, d, x, g, F)
        BY <2>4, <3>1, <3>3 DEF Made
      <4>2. Sound(at, folder, born, names)
        BY <2>4
      <4>3. Sound(g, F, t, names)
        BY <4>1, <4>2, MadeIsSound
      <4>4. \A m \in Node : g[m] = IF m = t THEN [in |-> d, as |-> x] ELSE at[m]
        BY <1>3, <2>4, <3>1, MadeIs
      <4> QED
        BY <2>4, <4>3, <4>4
    <3>5. EntryIn(g, t, y) = Nowhere
      <4>1. CASE EntryIn(g, t, y) # Nowhere
        <5> DEFINE e == EntryIn(g, t, y)
        <5>1. e \in Node /\ g[e] = [in |-> t, as |-> y]
          BY <4>1, EntryFound
        <5>2. g[e].in = t
          BY <5>1
        <5> HIDE DEF e
        <5>3. g[e].in \in Node => g[g[e].in].in # Nowhere /\ g[e].in # e
          BY <3>4, <5>1 DEF Sound
        <5>4. e # t /\ at[e].in = t
          BY <1>2, <3>4, <5>1, <5>2, <5>3
        <5>5. at[e].in \in Node => at[at[e].in].in # Nowhere
          BY <1>3, <5>1 DEF Sound
        <5> QED
          BY <1>2, <1>6, <2>1, <5>4, <5>5
      <4> QED
        BY <4>1
    <3>6. t \in {Root, Temp} \cup F /\ g[t].in # Nowhere /\ t # Temp
      BY <1>2, <1>5, <3>3, <3>4, NodesAreNumbers
    <3>7. /\ Sound(at', folder', u, names) /\ at'[u].in = t
          /\ \A m \in Node : m # u => at'[m] = g[m]
      <4>1. u = t + 1 /\ u \in Node /\ t # Temp /\ (t \in Node => g[t].in # Nowhere)
        BY <2>1, <3>2, <3>6
      <4>2. Sound(g, F, t, names) /\ t \in {Root, Temp} \cup F /\ y \in Name /\ EntryIn(g, t, y) = Nowhere
        BY <3>1, <3>4, <3>5, <3>6
      <4>3. F \subseteq folder' /\ folder' \subseteq F \cup {u} /\ Grows(g, at', u, [in |-> t, as |-> y])
        BY <3>1, <3>3
      <4> QED
        <5>1. Made(g, F, t, u, t, y, at', folder')
          BY <3>3, <4>1, <4>2, <4>3 DEF Made
        <5>2. Sound(g, F, t, names) /\ Tree(g)
          BY <4>2, SoundIsTree
        <5>3. Sound(at', folder', u, names)
          BY <5>1, <5>2, MadeIsSound
        <5>4. \A m \in Node : at'[m] = IF m = u THEN [in |-> t, as |-> y] ELSE g[m]
          BY <4>1, <4>3, <5>2, MadeIs
        <5> QED
          BY <4>1, <5>3, <5>4
    <3>8. folder \subseteq folder' /\ born' \in Int /\ born <= born'
      BY <1>3, <2>1, <3>2
    <3>9. /\ \A m \in Node : m # t /\ m # u => at'[m] = at[m]
          /\ at'[t].in = d
      BY <2>1, <2>4, <3>4, <3>7
    <3> QED
      BY <3>2, <3>7, <3>8, <3>9
  <2> QED
    BY <1>2, <2>2, <2>3 DEF MadeAt, d
<1>8. \A m \in Node : at[m].in # Nowhere => at'[m] = at[m]
  <2>1. t > born /\ u > born
    BY <1>3
  <2> HIDE DEF t, u
  <2> QED
    BY <1>6, <1>7, <2>1
<1>9. \A m \in Node : at'[m] = at[m] \/ at'[m].in = d \/ at'[m].in = t
  BY <1>7
<1>10. TreeStands' /\ Tree(at')
  BY <1>1, <1>7, SoundIsTree DEF TreeStands
<1>11. at[t].in = Nowhere /\ t \notin folder /\ \A m \in Node : at[m].in # t
  <2>1. t > born
    BY <1>3
  <2>2. at[t].in = Nowhere
    BY <1>2, <1>6, <2>1
  <2>3. \A m \in Node : at[m].in \in Node => at[at[m].in].in # Nowhere
    BY <1>3 DEF Sound
  <2> QED
    BY <1>2, <1>3, <2>1, <2>2, <2>3
<1> HIDE DEF t, u
<1>12. ASSUME NEW o \in Request, Copies(o) PROVE Apart(at, at', req[o].node)
  <2> DEFINE S == InsideIn(at, req[o].node)
  <2>1. /\ req[o].node \in Node /\ at[req[o].node].in = Temp
        /\ S \in SUBSET Node /\ \A m \in S : m # req[o].node => at[m].in \in S
    BY <1>12, TempIs, InsideHolds
  <2>2. \A m \in S : at[m].in # Nowhere
    BY <2>1, NodesAreNumbers
  <2>3. d \notin S /\ t \notin S
    BY <1>4, <1>11, <1>12, <2>2
  <2>4. ASSUME NEW m \in Node, m \in S \/ at'[m].in \in S PROVE at'[m] = at[m]
    BY <1>8, <1>9, <2>2, <2>3, <2>4
  <2> QED
    BY <2>4 DEF Apart
<1>13. ASSUME NEW o \in Request, NEW k \in kept'[o]
       PROVE  /\ k \in kept[o] /\ req'[o].step = "c_entry"
              /\ \A y \in Seq(Name) : WalkIn(at, Root, y) = k.node => WalkIn(at', Root, y) = k.node
  <2>1. k \in kept[o] /\ k.node \in Node /\ Copies(o)
    BY <1>1, <1>13 DEF IInv, KeptIsCopied
  <2>2. ASSUME NEW y \in Seq(Name), WalkIn(at, Root, y) = k.node PROVE WalkIn(at', Root, y) = k.node
    <3> DEFINE S == {m \in Node : at[m].in # Nowhere}
    <3>1. Find(y) = k.node
      BY <2>2, FindIs
    <3>2. k.node \in S
      BY <2>1, <3>1, FindLeads
    <3>3. \A m \in S : at[m].in \in Node => at[m].in \in S
      BY <1>3 DEF Sound
    <3>4. \A m \in S : at'[m] = at[m]
      BY <1>8
    <3>5. S \in SUBSET Node /\ WalkIn(at, Root, y) \in S
      BY <2>2, <3>2
    <3> HIDE DEF S
    <3> QED
      BY <1>3, <1>10, <2>2, <3>3, <3>4, <3>5, WalkKept
  <2> QED
    BY <1>1, <2>1, <2>2 DEF Copies
<1>14. calls' \in Nat /\ faults' = faults /\ stops' = stops /\ req[r].step = "idle"
  BY <1>1, FaultsCount DEF Arrive
<1>15. TempsStand' /\ TodoIsOpen' /\ KeptIsCopied'
  <2>1. \A o \in Request : req'[o].step = "c_entry" => req'[o] = req[o] /\ Apart(at, at', req[o].node)
    BY <1>1, <1>12 DEF Copies
  <2>2. \A o \in Request : req'[o].step = "p_remove" => req[o].step = "p_remove" /\ req'[o].node = req[o].node
    BY <1>1
  <2>3. kept' \in [Request -> SUBSET Kept]
    BY <1>1 DEF IInv, KeptIsCopied, Kept
  <2>4. \A n \in Node : at'[n].in = Temp =>
           at[n].in = Temp /\ \A o \in Request : Copies(o) /\ req[o].node = n => req'[o].step = "c_entry"
    BY <1>1, <1>2, <1>5, <1>9, NodesAreNumbers DEF Copies
  <2> QED
    BY <1>7, <1>10, <1>12, <1>13, <1>14, <2>1, <2>2, <2>3, <2>4, CopiesStay
<1>16. Only(r) /\ Fitting(req'[r], names, day, folder') /\ HeldBy(req'[r]) = {}
  <2>1. Fitting(req[r], names, day, folder) /\ req = [o \in Request |-> req[o]]
    BY DEF IInv, RequestsFit
  <2>2. Fitting(req[r], names, day, folder')
    BY <1>3, <1>7, <2>1, FittingLasts
  <2> QED
    BY <1>1, <1>14, <2>1, <2>2 DEF Only, HeldBy, Holding
<1>17. \A m \in Node : at[m].in = Trash => at'[m] = at[m]
  BY <1>8, NodesAreNumbers
<1>18. RowsFit' /\ RequestsFit' /\ HeldIsTheRow' /\ RecordsAreNew' /\ MissingIsCleared'
  <2>1. req'[r].step # "d_record" /\ req[r].step \notin {"p_row", "r_row"}
    BY <1>1, <1>14
  <2> QED
    BY <1>1, <1>7, <1>10, <1>14, <1>16, <1>17, <2>1, OthersStay
<1> QED
  BY <1>10, <1>15, <1>18 DEF IInv

-----------------------------------------------------------------------------
(* The clock, the end of the process, and the first state.                 *)

LEMMA DayKeeps ==
  ASSUME IInv, day' \in {day, day + 1}, UNCHANGED <<tree, tables, req, kept, bounds>>
  PROVE  IInv'
<1>1. /\ at' = at /\ folder' = folder /\ born' = born /\ rows' = rows /\ names' = names /\ owners' = owners
      /\ rules' = rules /\ req' = req /\ kept' = kept /\ calls' = calls /\ faults' = faults /\ stops' = stops
  BY DEF tree, tables, bounds
<1>2. names \in Nat /\ day \in Nat /\ day' \in Nat /\ day <= day'
  BY DEF IInv, TreeStands, Sound, RowsFit
<1>3. /\ ItemOf(names, day) \subseteq ItemOf(names, day')
      /\ \A v : Fitting(v, names, day, folder) => Fitting(v, names, day', folder)
  BY <1>2, FittingLasts
<1>4. TreeStands'
  BY <1>1 DEF IInv, TreeStands
<1>5. RowsFit'
  <2>1. rows' \subseteq Item'
    BY <1>1, <1>3 DEF IInv, RowsFit, Item
  <2> QED
    BY <1>1, <1>2, <2>1 DEF IInv, RowsFit
<1>6. RequestsFit'
  BY <1>1, <1>3 DEF IInv, RequestsFit
<1>7. HeldIsTheRow'
  BY <1>1 DEF IInv, HeldIsTheRow, Held
<1>8. \A w : TrashNode(w)' = EntryIn(at, Trash, w.name) /\ TrashNode(w) = EntryIn(at, Trash, w.name)
  BY <1>1, TrashNodeIs
<1>9. RecordsAreNew'
  <2>1. \A q \in Request : TrashNode(req[q].item)' = TrashNode(req[q].item)
    BY <1>1 DEF TrashNode, Entry
  <2> QED
    BY <1>1, <2>1 DEF IInv, RecordsAreNew, Held
<1>10. MissingIsCleared'
  BY <1>1, <1>8 DEF IInv, MissingIsCleared
<1>11. TempsStand' /\ TodoIsOpen' /\ KeptIsCopied'
  <2>1. \A q \in Request : Inside(req[q].node)' = Inside(req[q].node)
    BY <1>1 DEF Inside, Beneath
  <2>2. \A q \in Request : \A p : Walk(req[q].node, p)' = Walk(req[q].node, p)
    BY <1>1, WalkIs DEF Walk
  <2>3. \A q \in Request : \A p : Find(req[q].from \o p)' = Find(req[q].from \o p)
    BY <1>1, WalkIs DEF Find, Walk, Root
  <2>4. TempsStand'
    BY <1>1, <2>1 DEF IInv, TempsStand, Copies
  <2>5. TodoIsOpen'
    BY <1>1, <2>2 DEF IInv, TodoIsOpen, Copies
  <2>6. KeptIsCopied'
    <3>1. ASSUME NEW q \in Request, NEW k \in kept[q]
          PROVE  /\ req[q].step = "c_entry" /\ k.rel # <<>> /\ Find(req[q].from \o k.rel)' = k.node
                 /\ k.rel \in req[q].todo \cup req[q].missed \/ Walk(req[q].node, k.rel)' # Nowhere
      <4>1. /\ Copies(q) /\ k.rel # <<>> /\ Find(req[q].from \o k.rel) = k.node
            /\ k.rel \in req[q].todo \cup req[q].missed \/ Walk(req[q].node, k.rel) # Nowhere
        BY DEF IInv, KeptIsCopied
      <4> QED
        BY <2>2, <2>3, <4>1 DEF Copies
    <3>2. kept \in [Request -> SUBSET [rel : Seq(Name), node : Node]]
      BY DEF IInv, KeptIsCopied
    <3> QED
      BY <1>1, <3>1, <3>2 DEF KeptIsCopied, Copies
  <2> QED
    BY <2>4, <2>5, <2>6
<1> QED
  BY <1>4, <1>5, <1>6, <1>7, <1>9, <1>10, <1>11 DEF IInv

LEMMA RestartKeeps ==
  ASSUME IInv, Restart
  PROVE  IInv'
<1>1. /\ at' = at /\ folder' = folder /\ born' = born /\ rows' = rows /\ names' = names /\ owners' = owners
      /\ rules' = rules /\ day' = day /\ calls' = calls /\ faults' = faults /\ stops' = stops + 1
      /\ req' = [q \in Request |-> Blank] /\ kept' = [q \in Request |-> {}]
  BY DEF Restart, tree, tables
<1>2. \A q \in Request : req'[q] = Blank /\ req'[q].step = "idle" /\ kept'[q] = {}
  BY <1>1, BlankFits
<1>3. TreeStands'
  BY <1>1 DEF IInv, TreeStands
<1>4. RowsFit'
  BY <1>1 DEF IInv, RowsFit, Item
<1>5. RequestsFit'
  <2>1. Fitting(Blank, names', day', folder')
    BY BlankFits
  <2>2. req' = [q \in Request |-> req'[q]]
    BY <1>1
  <2> QED
    BY <1>2, <2>1, <2>2 DEF RequestsFit
<1>6. HeldIsTheRow'
  BY <1>2, BlankFits DEF HeldIsTheRow, Held
<1>7. RecordsAreNew'
  BY <1>2 DEF RecordsAreNew
<1>8. faults' + stops' # 0 /\ stops' # 0
  BY <1>1, FaultsCount
<1>9. MissingIsCleared'
  BY <1>8 DEF MissingIsCleared
<1>10. TempsStand'
  BY <1>2, <1>8 DEF TempsStand, Copies
<1>11. TodoIsOpen'
  BY <1>2 DEF TodoIsOpen, Copies
<1>12. KeptIsCopied'
  BY <1>1, <1>2 DEF KeptIsCopied
<1> QED
  BY <1>3, <1>4, <1>5, <1>6, <1>7, <1>9, <1>10, <1>11, <1>12 DEF IInv

LEMMA InitKeeps ==
  ASSUME Init
  PROVE  IInv
<1>1. PICK x \in Top, y \in Top, z \in Inner :
        /\ x # y
        /\ at = [n \in Node |-> CASE n = 1 -> [in |-> Root, as |-> x]
                                  [] n = 2 -> [in |-> 1, as |-> z]
                                  [] n = 3 -> [in |-> Root, as |-> y]
                                  [] OTHER -> Absent]
        /\ owners = IF Recorded THEN {<<x>>, <<x, z>>, <<y>>} ELSE {}
  BY DEF Init
<1>2. /\ folder = {1} /\ born = 3 /\ rows = {} /\ names = 0 /\ rules = owners /\ day = 0
      /\ req = [r \in Request |-> Blank] /\ kept = [r \in Request |-> {}]
      /\ calls = 0 /\ faults = 0 /\ stops = 0
  BY DEF Init
<1>3. {x, y, z} \subseteq Name
  BY DEF Name
<1>4. \A r \in Request : req[r] = Blank /\ req[r].step = "idle" /\ HeldBy(req[r]) = {} /\ kept[r] = {}
  BY <1>2, BlankFits
<1>5. Sound(at, folder, born, names)
  <2>1. 3 \in 0..MaxNodes /\ 1 \in Node /\ 2 \in Node /\ 3 \in Node /\ {1} \subseteq 1..3
    BY NamespaceAssumption DEF Node
  <2>2. ASSUME NEW n \in Node
        PROVE  /\ n = 1 => at[n] = [in |-> Root, as |-> x]
               /\ n = 2 => at[n] = [in |-> 1, as |-> z]
               /\ n = 3 => at[n] = [in |-> Root, as |-> y]
               /\ n \notin {1, 2, 3} => at[n] = Absent
    BY <1>1
  <2>3. ASSUME NEW n \in Node
        PROVE  at[n] \in [in : {Root, Trash, Temp, Nowhere} \cup {1}, as : Name \cup Int]
    BY <1>3, <2>2 DEF Absent, Nowhere, Root
  <2>4. at \in [Node -> [in : {Root, Trash, Temp, Nowhere} \cup {1}, as : Name \cup Int]]
    <3>1. at = [n \in Node |-> at[n]]
      BY <1>1
    <3> QED
      BY <2>3, <3>1
  <2>5. ASSUME NEW n \in Node
        PROVE  /\ n = 1 => at[n].in = Root /\ at[n].as = x
               /\ n = 2 => at[n].in = 1 /\ at[n].as = z
               /\ n = 3 => at[n].in = Root /\ at[n].as = y
               /\ n \notin {1, 2, 3} => at[n].in = Nowhere
    BY <2>2 DEF Absent
  <2>6. ASSUME NEW n \in Node
        PROVE  /\ at[n].in = Nowhere => at[n] = Absent
               /\ at[n].in \in Node \cup {Root} => at[n].as \in Name
               /\ at[n].in = Trash => at[n].as \in 1..0
               /\ at[n].in = Temp => at[n].as = n
               /\ at[n].in \in Node => at[at[n].in].in # Nowhere /\ at[n].in # n
               /\ n > 3 => at[n].in = Nowhere
    BY <1>3, <2>1, <2>2, <2>5, NodesAreNumbers DEF Root, Trash, Temp, Nowhere
  <2>7. ASSUME NEW n \in Node, NEW m \in Node, at[n].in # Nowhere, at[m] = at[n] PROVE m = n
    <3>1. at[m].in = at[n].in /\ at[m].as = at[n].as
      BY <2>7
    <3> QED
      BY <1>1, <2>5, <2>7, <3>1 DEF Root, Nowhere
  <2> QED
    BY <1>2, <2>1, <2>4, <2>6, <2>7 DEF Sound
<1>6. RowsFit
  <2>1. owners \subseteq Seq(Name)
    <3>1. x \in Name /\ y \in Name /\ z \in Name
      BY <1>3
    <3>2. <<x>> \in Seq(Name) /\ <<x, z>> \in Seq(Name) /\ <<y>> \in Seq(Name)
      BY <3>1
    <3> QED
      BY <1>1, <3>2
  <2>2. IsFiniteSet(rows)
    BY <1>2, FS_EmptySet
  <2> QED
    BY <1>2, <2>1, <2>2 DEF RowsFit
<1>7. RequestsFit
  <2>1. Fitting(Blank, names, day, folder)
    BY BlankFits
  <2>2. req = [q \in Request |-> req[q]]
    BY <1>2
  <2> QED
    BY <1>4, <2>1, <2>2 DEF RequestsFit
<1>8. HeldIsTheRow /\ RecordsAreNew /\ MissingIsCleared
  BY <1>2, <1>4 DEF HeldIsTheRow, RecordsAreNew, MissingIsCleared
<1>9. TempsStand
  <2>1. ASSUME NEW n \in Node, at[n].in = Temp PROVE FALSE
    BY <1>1, <2>1, NodesAreNumbers DEF Absent, Root, Temp, Nowhere
  <2> QED
    BY <1>4, <2>1 DEF TempsStand, Copies
<1>10. TodoIsOpen /\ KeptIsCopied
  BY <1>2, <1>4 DEF TodoIsOpen, KeptIsCopied, Copies
<1> QED
  BY <1>5, <1>6, <1>7, <1>8, <1>9, <1>10 DEF IInv, TreeStands

-----------------------------------------------------------------------------
(* The invariant.                                                          *)

LEMMA NextKeeps ==
  ASSUME IInv, [Next]_vars
  PROVE  IInv'
<1>1. ASSUME NEW r \in Request, Call(r) PROVE IInv'
  <2>1. CASE \E p \in Path : MkdirAll(r, p)
    BY <2>1, MkdirAllKeeps
  <2>2. CASE \E p \in Path : Delete(r, p)
    BY <2>2, DeleteKeeps
  <2>3. CASE \E from, to \in Path : Move(r, from, to)
    BY <2>3, MoveKeeps
  <2>4. CASE \E from, to \in Path : Copy(r, from, to)
    BY <2>4, CopyKeeps
  <2>5. CASE \E w \in rows : Restore(r, w) \/ Purge(r, w)
    BY <2>5, ByRowKeeps
  <2>6. CASE Empty(r) \/ PurgeExpired(r)
    BY <2>6, ByListKeeps
  <2> QED
    BY <1>1, <2>1, <2>2, <2>3, <2>4, <2>5, <2>6 DEF Call
<1>2. ASSUME NEW r \in Request, Step(r) PROVE IInv'
  <2>1. CASE MoveOwner(r)
    BY <2>1, MoveOwnerKeeps
  <2>2. CASE MoveRules(r)
    BY <2>2, MoveRulesKeeps
  <2>3. CASE CopyEntry(r)
    BY <2>3, CopyEntryKeeps
  <2>4. CASE CopyRename(r)
    BY <2>4, CopyRenameKeeps
  <2>5. CASE CreateTrash(r)
    BY <2>5, CreateTrashKeeps
  <2>6. CASE ClearOwner(r)
    BY <2>6, ClearOwnerKeeps
  <2>7. CASE RestoreLook(r)
    BY <2>7, RestoreLookKeeps
  <2>8. CASE RestoreRename(r)
    BY <2>8, RestoreRenameKeeps
  <2>9. CASE TakeNext(r)
    BY <2>9, TakeNextKeeps
  <2>10. CASE PurgeOpen(r)
    BY <2>10, PurgeOpenKeeps
  <2>11. CASE PurgeRemove(r)
    BY <2>11, PurgeRemoveKeeps
  <2>12. CASE DeleteTrash(r)
    BY <2>12, DeleteTrashKeeps
  <2>13. CASE SetOwner(r)
    BY <2>13, SetOwnerKeeps
  <2> QED
    BY <1>2, <2>1, <2>2, <2>3, <2>4, <2>5, <2>6, <2>7, <2>8, <2>9, <2>10, <2>11, <2>12, <2>13 DEF Step
<1>3. CASE NextDay
  BY <1>3, DayKeeps DEF NextDay
<1>4. CASE Restart
  BY <1>4, RestartKeeps
<1>5. CASE UNCHANGED vars
  BY <1>5, DayKeeps DEF vars
<1> QED
  BY <1>1, <1>2, <1>3, <1>4, <1>5 DEF Next

(* However requests interleave, statements fail and the process ends, the  *)
(* tree stays one, rows and requests have what they need, a trashed name   *)
(* stays one row's, and every copy in the making is where it was left:     *)
(* the invariant the other theorems rest on.                               *)
THEOREM NamespaceInvariant == Spec => []IInv
<1>1. Init => IInv
  BY InitKeeps
<1>2. IInv /\ [Next]_vars => IInv'
  BY NextKeeps
<1> QED
  BY <1>1, <1>2, PTL DEF Spec

(* Every entry stands in a folder that is there, no two at one place and   *)
(* none in itself; rows are of names drawn, by different numbers and       *)
(* names; owners and rules are keyed by paths.                             *)
THEOREM NamespaceTypes == Spec => []NamespaceTypeOK
<1>1. ASSUME IInv PROVE NamespaceTypeOK
  <2>1. Sound(at, folder, born, names)
    BY <1>1 DEF IInv, TreeStands
  <2>2. folder \subseteq 1..born /\ born \in 0..MaxNodes
    BY <2>1 DEF Sound
  <2>3. ASSUME NEW n \in Node
        PROVE  /\ at[n].in \in {Root, Trash, Temp, Nowhere} \cup folder
               /\ at[n].in \in Node => at[at[n].in].in # Nowhere /\ at[n].in # n
               /\ \A m \in Node : at[n].in # Nowhere /\ at[m] = at[n] => m = n
               /\ n > born => at[n].in = Nowhere
    <3>1. at[n] \in [in : {Root, Trash, Temp, Nowhere} \cup folder, as : Name \cup Int]
      BY <2>1 DEF Sound
    <3>2. at[n].in \in {Root, Trash, Temp, Nowhere} \cup folder
      BY <3>1
    <3>3. /\ at[n].in \in Node => at[at[n].in].in # Nowhere /\ at[n].in # n
          /\ n > born => at[n].in = Nowhere
      BY <2>1 DEF Sound
    <3>4. \A m \in Node : at[n].in # Nowhere /\ at[m] = at[n] => m = n
      BY <2>1 DEF Sound
    <3> QED
      BY <3>2, <3>3, <3>4
  <2>4. \A w \in rows : w.name \in 1..names /\ w.path \in Path /\ w.day \in 0..day
    BY <1>1 DEF IInv, RowsFit, Item, ItemOf
  <2>5. \A w, v \in rows : w.id = v.id \/ w.name = v.name => w = v
    BY <1>1 DEF IInv, RowsFit
  <2>6. \A p \in owners \cup rules : p \in Seq(Top \cup Inner)
    BY <1>1 DEF IInv, RowsFit, Name
  <2> QED
    BY <2>2, <2>3, <2>4, <2>5, <2>6 DEF NamespaceTypeOK, Present
<1> QED
  BY <1>1, NamespaceInvariant, PTL

(* At rest, and as long as no statement has failed and no process ended,   *)
(* every row of the trash has its entry: no interleaving of deletions,     *)
(* restores and purges, by rows read long ago, takes the entry of a row    *)
(* that stays.                                                             *)
THEOREM RowsKeepTheirEntries == Spec => []RowsHaveEntries
<1>1. ASSUME IInv PROVE RowsHaveEntries
  <2>1. ASSUME Quiet, faults + stops = 0, NEW w \in rows, TrashNode(w) = Nowhere PROVE FALSE
    <3>1. PICK r \in Request : req[r].step \in {"p_row", "r_row"}
      BY <1>1, <2>1 DEF IInv, MissingIsCleared
    <3> QED
      BY <2>1, <3>1 DEF Quiet
  <2> QED
    BY <2>1 DEF RowsHaveEntries
<1> QED
  BY <1>1, NamespaceInvariant, PTL

(* When no request is under way and no process has ended, there is nothing *)
(* in the temporary directory: whether a copy was published, refused or    *)
(* broken off, its temporary tree is gone.                                 *)
THEOREM TempsGoAway == Spec => []NoTempLeft
<1>1. ASSUME IInv PROVE NoTempLeft
  <2>1. ASSUME Quiet, stops = 0, NEW n \in Node, at[n].in = Temp PROVE FALSE
    <3>1. PICK r \in Request : Copies(r)
      BY <1>1, <2>1 DEF IInv, TempsStand
    <3> QED
      BY <2>1, <3>1 DEF Quiet, Copies
  <2> QED
    BY <2>1 DEF NoTempLeft, Children
<1> QED
  BY <1>1, NamespaceInvariant, PTL

-----------------------------------------------------------------------------
(* What a step may never do.                                               *)

\* A request that was copying and now records the owner has renamed the copy.
LEMMA PublishIsRename ==
  ASSUME IInv, [Next]_vars, NEW r \in Request, req[r].step = "c_entry", req'[r].step = "c_owner"
  PROVE  CopyRename(r)
<1>1. req = [q \in Request |-> req[q]] /\ RequestsFit
  BY DEF IInv, RequestsFit
<1>2. ASSUME NEW q \in Request, q # r, \E v : req' = [req EXCEPT ![q] = v] PROVE FALSE
  BY <1>1, <1>2
<1>3. ASSUME req' = req PROVE FALSE
  BY <1>3
<1>4. ASSUME req'[r] = Blank PROVE FALSE
  BY <1>4, BlankFits
<1>5. ASSUME NEW q \in Request, Call(q) PROVE FALSE
  <2>1. (\E v : Begin(q, v)) \/ req' = req
    BY <1>5 DEF Call, MkdirAll, Delete, Move, Copy, Restore, Purge, Empty, PurgeExpired
  <2>2. q # r
    BY <1>5 DEF Call, MkdirAll, Delete, Move, Copy, Restore, Purge, Empty, PurgeExpired, Arrive
  <2> QED
    BY <1>2, <1>3, <2>1, <2>2 DEF Begin
<1>6. ASSUME NEW q \in Request, q # r, Step(q) PROVE FALSE
  <2>1. CASE MoveOwner(q)
    BY <1>1, <1>6, <2>1 DEF MoveOwner, Goto, Done
  <2>2. CASE MoveRules(q)
    BY <1>1, <1>6, <2>2 DEF MoveRules, Done
  <2>3. CASE CopyEntry(q)
    BY <1>1, <1>6, <2>3 DEF CopyEntry, Abandon, Done
  <2>4. CASE CopyRename(q)
    BY <1>1, <1>6, <2>4 DEF CopyRename, Abandon, Goto, Done
  <2>5. CASE CreateTrash(q)
    BY <1>1, <1>6, <2>5 DEF CreateTrash, Goto
  <2>6. CASE ClearOwner(q)
    BY <1>1, <1>6, <2>6 DEF ClearOwner, Done
  <2>7. CASE RestoreLook(q)
    BY <1>1, <1>6, <2>7 DEF RestoreLook, Goto, Done
  <2>8. CASE RestoreRename(q)
    BY <1>1, <1>6, <2>8 DEF RestoreRename, Goto, Done
  <2>9. CASE TakeNext(q)
    BY <1>1, <1>6, <2>9 DEF TakeNext, Take, Done
  <2>10. CASE PurgeOpen(q)
    BY <1>1, <1>6, <2>10 DEF PurgeOpen, Goto, Done
  <2>11. CASE PurgeRemove(q)
    BY <1>1, <1>6, <2>11 DEF PurgeRemove, Done
  <2>12. CASE DeleteTrash(q)
    BY <1>1, <1>6, <2>12 DEF DeleteTrash, Goto, Done
  <2>13. CASE SetOwner(q)
    BY <1>1, <1>6, <2>13 DEF SetOwner, Done
  <2> QED
    BY <1>6, <2>1, <2>2, <2>3, <2>4, <2>5, <2>6, <2>7, <2>8, <2>9, <2>10, <2>11, <2>12, <2>13 DEF Step
<1>7. ASSUME Step(r) PROVE CopyRename(r)
  <2>1. CASE CopyEntry(r)
    <3>1. (\E v, m : req' = [req EXCEPT ![r].todo = v, ![r].missed = m])
          \/ (\E v : req' = [req EXCEPT ![r].todo = v]) \/ Done(r)
      BY <2>1 DEF CopyEntry, Abandon
    <3>4. req[r] \in RequestOf(names, day)
      BY DEF IInv, RequestsFit, Fitting
    <3>2. CASE \E v : req' = [req EXCEPT ![r].todo = v]
      <4>1. PICK v : req' = [req EXCEPT ![r].todo = v]
        BY <3>2
      <4>2. req'[r] = [req[r] EXCEPT !.todo = v]
        BY <1>1, <4>1
      <4>4. req'[r].step = req[r].step
        BY <3>4, <4>2 DEF RequestOf
      <4> QED
        BY <4>4
    <3>5. CASE \E v, m : req' = [req EXCEPT ![r].todo = v, ![r].missed = m]
      <4>1. PICK v, m : req' = [req EXCEPT ![r].todo = v, ![r].missed = m]
        BY <3>5
      <4>2. req'[r] = [req[r] EXCEPT !.todo = v, !.missed = m]
        BY <1>1, <4>1
      <4>4. req'[r].step = req[r].step
        BY <3>4, <4>2 DEF RequestOf
      <4> QED
        BY <4>4
    <3>3. CASE Done(r)
      BY <1>1, <1>4, <3>3, DoneIs
    <3> QED
      BY <3>1, <3>2, <3>3, <3>5
  <2> QED
    BY <1>7, <2>1 DEF Step, MoveOwner, MoveRules, CreateTrash, ClearOwner, RestoreLook, RestoreRename, TakeNext,
         PurgeOpen, PurgeRemove, DeleteTrash, SetOwner
<1>8. CASE NextDay \/ UNCHANGED vars
  BY <1>3, <1>8 DEF NextDay, vars
<1>9. CASE Restart
  BY <1>4, <1>9 DEF Restart
<1> QED
  BY <1>5, <1>6, <1>7, <1>8, <1>9 DEF Next

(* What a copy had listed, could look at and nobody moved is in the tree   *)
(* that takes its place: a copy is published whole or not at all, whatever *)
(* happened to the entries while it was made, but for the entries that it  *)
(* could not look at.                                                      *)
THEOREM CopiesAreWhole == Spec => CopyIsWhole
<1>1. ASSUME IInv, [Next]_vars, NEW r \in Request, req[r].step = "c_entry", req'[r].step = "c_owner", NEW k \in kept[r]
      PROVE  k.rel \in req[r].missed \/ Walk(req[r].node, k.rel) # Nowhere
  <2>1. req[r].todo = {}
    BY <1>1, PublishIsRename DEF CopyRename
  <2>2. k.rel \in req[r].todo \cup req[r].missed \/ Walk(req[r].node, k.rel) # Nowhere
    BY <1>1 DEF IInv, KeptIsCopied
  <2> QED
    BY <2>1, <2>2
<1>2. IInv /\ [Next]_vars =>
        [\A r \in Request : req[r].step = "c_entry" /\ req'[r].step = "c_owner" =>
           \A k \in kept[r] : k.rel \in req[r].missed \/ Walk(req[r].node, k.rel) # Nowhere]_vars
  BY <1>1
<1> QED
  BY <1>2, NamespaceInvariant, PTL DEF Spec, CopyIsWhole

\* A rename takes away what it puts its entry in the place of.
LEMMA PlaceReplaces ==
  ASSUME IInv, NEW r \in Request, NEW m \in Node, NEW d, NEW x, d # Nowhere, Place(r, m, d, x),
         NEW n \in Node, at[n].in # Nowhere, at'[n].in = Nowhere
  PROVE  n = EntryIn(at, d, x) /\ at[n].in = d /\ \E k \in Node : at'[k] = at[n]
<1>1. at' = Placed(at, m, d, x)
  BY EntryIs DEF Place, Placed
<1>2. at'[m] = [in |-> d, as |-> x] /\ at'[m].in = d
  BY <1>1 DEF Placed
<1>3. n = EntryIn(at, d, x)
  BY <1>1, <1>2 DEF Placed
<1>4. at[n] = [in |-> d, as |-> x]
  BY <1>3, EntryFound, NodesAreNumbers
<1>5. at[n].in = d
  BY <1>4
<1> QED
  BY <1>2, <1>3, <1>4, <1>5

\* Where CanRename allows one, that is in the visible tree.
LEMMA RenameReplaces ==
  ASSUME IInv, NEW r \in Request, NEW m \in Node, NEW to, CanRename(m, to), Rename(r, m, to),
         NEW n \in Node, at[n].in # Nowhere, at'[n].in = Nowhere
  PROVE  at[n].in \in folder \cup {Root} /\ \E k \in Node : at'[k] = at[n]
<1> DEFINE d == Find(Front(to))
<1>1. d \in folder \cup {Root}
  BY DEF CanRename, IsFolder
<1>2. folder \subseteq Node
  BY SoundIsTree DEF IInv, TreeStands
<1>3. d # Nowhere
  BY <1>1, <1>2, NodesAreNumbers
<1>4. Place(r, m, d, Last(to))
  BY DEF Rename
<1> HIDE DEF d
<1> QED
  BY <1>1, <1>3, <1>4, PlaceReplaces

\* No step takes away an entry for any other reason.
LEMMA LossIsAskedFor ==
  ASSUME IInv, [Next]_vars, NEW n \in Node, at[n].in # Nowhere, at'[n].in = Nowhere
  PROVE  \/ \E r \in Request : req[r].step = "p_open" /\ TrashNode(req[r].item) = n
         \/ \E r \in Request : req[r].step = "p_remove" /\ n \in Inside(req[r].node)
         \/ at[n].in \in folder \cup {Root} /\ \E m \in Node : at'[m] = at[n]
         \/ \E r \in Request : req[r].step = "c_entry" /\ n \in Inside(req[r].node)
<1>1. Sound(at, folder, born, names) /\ Tree(at) /\ born \in Nat
  BY SoundIsTree DEF IInv, TreeStands
<1>2. ~(n > born) /\ n \in Int /\ at' # at
  <2>1. n > born => at[n].in = Nowhere
    BY <1>1 DEF Sound
  <2> QED
    BY <2>1, NodesAreNumbers
<1>3. ASSUME NEW r, NEW gone, Unlink(r, gone) PROVE n \in gone
  BY <1>3 DEF Unlink
<1>4. ASSUME NEW w, NEW t, t = born + 1, t \in Node, at' = [at EXCEPT ![t] = w] PROVE FALSE
  <2>1. n # t
    BY <1>1, <1>2, <1>4
  <2> QED
    BY <1>1, <1>4, <2>1 DEF Tree
<1>5. ASSUME NEW r \in Request, Call(r)
      PROVE  at[n].in \in folder \cup {Root} /\ \E m \in Node : at'[m] = at[n]
  <2>1. ASSUME NEW p \in Path, MkdirAll(r, p) PROVE FALSE
    <3>1. PICK made : (\A i \in made : i > born) /\ at' = [i \in Node |-> IF i \notin made THEN at[i] ELSE at'[i]]
      <4>1. at' = [i \in Node |-> at'[i]]
        BY <2>1 DEF MkdirAll
      <4> DEFINE c == Cardinality({k \in 1..Len(p) : ~Exists(SubSeq(p, 1, k))})
      <4>2. \A i \in born + 1 .. born + c : i > born
        BY <1>1
      <4>3. \A i \in Node : i \notin born + 1 .. born + c => at'[i] = at[i]
        BY <2>1 DEF MkdirAll
      <4> HIDE DEF c
      <4> QED
        BY <4>1, <4>2, <4>3
    <3> QED
      BY <1>1, <1>2, <3>1
  <2>2. ASSUME NEW p \in Path, Delete(r, p) PROVE FALSE
    <3>1. Find(p) # Nowhere /\ Place(r, Find(p), Trash, names + 1)
      BY <2>2 DEF Delete, Exists, TrashName
    <3>2. Find(p) \in Node
      BY <3>1, PathsAreSeqs, FindLeads
    <3>3. Trash # Nowhere
      BY NodesAreNumbers
    <3>4. n = EntryIn(at, Trash, names + 1) /\ at[n].in = Trash
      BY <3>1, <3>2, <3>3, PlaceReplaces
    <3>5. at[n] = [in |-> Trash, as |-> names + 1]
      BY <3>4, EntryFound, NodesAreNumbers
    <3>6. at[n].as \in 1..names /\ names \in Nat
      BY <1>1, <3>4 DEF Sound
    <3> QED
      BY <3>5, <3>6
  <2>3. ASSUME NEW from \in Path, NEW to \in Path, Move(r, from, to)
        PROVE  at[n].in \in folder \cup {Root} /\ \E m \in Node : at'[m] = at[n]
    <3>1. Find(from) # Nowhere /\ CanRename(Find(from), to) /\ Rename(r, Find(from), to)
      BY <2>3 DEF Move, Exists
    <3>2. Find(from) \in Node
      BY <3>1, PathsAreSeqs, FindLeads
    <3> QED
      BY <3>1, <3>2, RenameReplaces
  <2>4. ASSUME NEW from \in Path, NEW to \in Path, Copy(r, from, to) PROVE FALSE
    <3>1. \E w : born + 1 \in Node /\ at' = [at EXCEPT ![born + 1] = w]
      BY <2>4 DEF Copy, CopyNode
    <3> QED
      BY <1>4, <3>1
  <2>5. CASE (\E w \in rows : Restore(r, w) \/ Purge(r, w)) \/ Empty(r) \/ PurgeExpired(r)
    BY <1>2, <2>5 DEF Restore, Purge, Empty, PurgeExpired, tree
  <2> QED
    BY <1>5, <2>1, <2>2, <2>3, <2>4, <2>5 DEF Call
<1>6. ASSUME NEW r \in Request, Abandon(r), req[r].step = "c_entry" PROVE n \in Inside(req[r].node)
  BY <1>3, <1>6 DEF Abandon
<1>7. ASSUME NEW r \in Request, CopyEntry(r) PROVE req[r].step = "c_entry" /\ n \in Inside(req[r].node)
  <2>1. req[r].step = "c_entry"
    BY <1>7 DEF CopyEntry
  <2>2. \/ UNCHANGED tree \/ Abandon(r)
        \/ \E w : born + 1 \in Node /\ at' = [at EXCEPT ![born + 1] = w]
    BY <1>7 DEF CopyEntry, CopyNode
  <2> QED
    BY <1>2, <1>4, <1>6, <2>1, <2>2 DEF tree
<1>8. ASSUME NEW r \in Request, CopyRename(r)
      PROVE  \/ at[n].in \in folder \cup {Root} /\ \E m \in Node : at'[m] = at[n]
             \/ req[r].step = "c_entry" /\ n \in Inside(req[r].node)
  <2>1. req[r].step = "c_entry" /\ req[r].node \in Node
    BY <1>8, TempIs DEF CopyRename, Copies
  <2>2. \/ Abandon(r)
        \/ CanRename(req[r].node, req[r].to) /\ Rename(r, req[r].node, req[r].to)
    BY <1>8 DEF CopyRename
  <2> QED
    BY <1>6, <2>1, <2>2, RenameReplaces
<1>9. ASSUME NEW r \in Request, RestoreRename(r)
      PROVE  at[n].in \in folder \cup {Root} /\ \E m \in Node : at'[m] = at[n]
  <2> DEFINE m == TrashNode(req[r].item)
             to == req[r].item.path
  <2>1. m # Nowhere /\ CanRename(m, to) /\ Rename(r, m, to)
    BY <1>2, <1>9 DEF RestoreRename
  <2>2. m \in Node
    BY <1>1, <2>1, TrashNodeLeads
  <2> HIDE DEF m, to
  <2> QED
    BY <2>1, <2>2, RenameReplaces
<1>10. ASSUME NEW r \in Request, PurgeOpen(r) PROVE req[r].step = "p_open" /\ TrashNode(req[r].item) = n
  <2>1. req[r].step = "p_open" /\ Unlink(r, {TrashNode(req[r].item)})
    BY <1>2, <1>10 DEF PurgeOpen
  <2> QED
    BY <1>3, <2>1
<1>11. ASSUME NEW r \in Request, PurgeRemove(r) PROVE req[r].step = "p_remove" /\ n \in Inside(req[r].node)
  <2>1. /\ req[r].step = "p_remove"
        /\ \/ \E m \in Inside(req[r].node) : Unlink(r, {m})
           \/ Unlink(r, {req[r].node})
    BY <1>2, <1>11 DEF PurgeRemove
  <2>2. req[r].node \in Node
    <3>1. folder \subseteq Node
      BY <1>1, SoundIsTree
    <3> QED
      BY <2>1, <3>1 DEF IInv, RequestsFit, Fitting
  <2>3. req[r].node \in Inside(req[r].node)
    BY <2>2, InsideIs, InsideHolds
  <2> QED
    BY <1>3, <2>1, <2>3
<1>12. ASSUME NEW r \in Request,
              \/ MoveOwner(r) \/ MoveRules(r) \/ CreateTrash(r) \/ ClearOwner(r)
              \/ RestoreLook(r) \/ TakeNext(r) \/ DeleteTrash(r) \/ SetOwner(r)
       PROVE  FALSE
  BY <1>2, <1>12 DEF MoveOwner, MoveRules, CreateTrash, ClearOwner, RestoreLook, TakeNext, DeleteTrash, SetOwner, tree
<1>13. CASE NextDay \/ Restart \/ UNCHANGED vars
  BY <1>2, <1>13 DEF NextDay, Restart, vars, tree
<1>14. CASE \E r \in Request : Call(r)
  BY <1>5, <1>14
<1>15. ASSUME NEW r \in Request, Step(r)
       PROVE  \/ req[r].step = "p_open" /\ TrashNode(req[r].item) = n
              \/ req[r].step = "p_remove" /\ n \in Inside(req[r].node)
              \/ at[n].in \in folder \cup {Root} /\ \E m \in Node : at'[m] = at[n]
              \/ req[r].step = "c_entry" /\ n \in Inside(req[r].node)
  BY <1>7, <1>8, <1>9, <1>10, <1>11, <1>12, <1>15 DEF Step
<1> QED
  BY <1>13, <1>14, <1>15 DEF Next

(* An entry ceases to exist only where somebody asked for it: a purge of   *)
(* the trashed entry it is in, a rename onto it in the visible tree, or a  *)
(* copy that is given up; no restore, no purge of something else, no end   *)
(* of the process and no failing statement loses one.                      *)
THEOREM NothingVanishesUnasked == Spec => NothingVanishes
<1>1. IInv /\ [Next]_vars =>
        [\A n \in Node : Present(n) /\ ~Present(n)' =>
           \/ \E r \in Request : req[r].step = "p_open" /\ TrashNode(req[r].item) = n
           \/ \E r \in Request : req[r].step = "p_remove" /\ n \in Inside(req[r].node)
           \/ at[n].in \in folder \cup {Root} /\ \E m \in Node : at'[m] = at[n]
           \/ \E r \in Request : req[r].step = "c_entry" /\ n \in Inside(req[r].node)]_vars
  BY LossIsAskedFor DEF Present
<1> QED
  BY <1>1, NamespaceInvariant, PTL DEF Spec, NothingVanishes

=============================================================================
