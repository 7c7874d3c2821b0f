------------------------------ MODULE AclProofs ------------------------------
(***************************************************************************)
(* Theorems about Acl for any accounts, groups, paths, rules and           *)
(* questions: what resolution computes from any rules in any order, what   *)
(* the statements keep of the tables, and what an answer is worth.         *)
(***************************************************************************)
EXTENDS Acl, TLAPS, FiniteSetTheorems, SequenceTheorems, WellFoundedInduction

(* Numbers. *)

\* A set of naturals has a least member.
LEMMA LeastMember ==
  ASSUME NEW T \in SUBSET Nat, T # {}
  PROVE  \E m \in T : \A k \in T : m <= k
<1> DEFINE R == OpToRel(<, Nat)
           N == Nat
<1>1. IsWellFoundedOn(R, N)
  BY NatLessThanWellFounded
<1>2. \A k, m \in Nat : <<k, m>> \in R <=> k < m
  BY DEF OpToRel
<1>3. T \subseteq N /\ T # {}
  OBVIOUS
<1> HIDE DEF R, N
<1>4. \E m \in T : \A k \in T : ~(<<k, m>> \in R)
  BY <1>1, <1>3, WFMin
<1> USE DEF N
<1>5. PICK m \in T : \A k \in T : ~(<<k, m>> \in R)
  BY <1>4
<1>6. ASSUME NEW k \in T PROVE m <= k
  <2>1. k \in Nat /\ m \in Nat
    OBVIOUS
  <2>2. ~(<<k, m>> \in R)
    BY <1>5
  <2>3. ~(k < m)
    BY <1>2, <2>1, <2>2
  <2> QED
    BY <2>1, <2>3
<1> QED
  BY <1>6

\* The last of the first n numbers is the one a fold takes first.
LEMMA LastOfMany ==
  ASSUME NEW n \in Nat, NEW S \in SUBSET (1..n), n \in S
  PROVE  Max(S) = n
<1>1. \A y \in S : n >= y
  OBVIOUS
<1>2. ASSUME NEW x \in S, \A y \in S : x >= y PROVE x = n
  <2>1. x \in Nat /\ x <= n /\ x >= n
    BY <1>2
  <2> QED
    BY <2>1
<1> QED
  BY <1>1, <1>2 DEF Max

------------------------------------------------------------------------------
(* What a fold over rules computes.                                        *)

\* One rule taken into account, if it applies.
Taken(acc, r, p) == IF AppliesTo(r, p) THEN Consider(acc, Depth(r.path), r.perms, r.deny) ELSE acc

\* The results of a fold over the first n rules, by the sets of their places.
IsFold(G, rules, p, base, n) ==
  G = [s \in SUBSET (1..n) |-> IF s = {} THEN base ELSE Taken(G[s \ {Max(s)}], rules[Max(s)], p)]

None == [b \in Bits |-> [decided |-> FALSE, at |-> 0, denied |-> FALSE]]
Start(owned) == IF owned THEN Consider(None, -1, OwnerPerms, FALSE) ELSE None

\* Resolution is that fold.
LEMMA ResolveFolds ==
  ASSUME NEW rules, NEW p, NEW owned, NEW n, DOMAIN rules = 1..n
  PROVE  \E G : /\ G = CHOOSE H : IsFold(H, rules, p, Start(owned), n)
                /\ Resolve(rules, p, owned) = {b \in Bits : G[1..n][b].decided /\ ~G[1..n][b].denied}
  BY DEF Resolve, FoldLeft, MapThenFoldSet, IsFold, Taken, Start, None

\* A fold goes on to one more rule.
LEMMA FoldGrows ==
  ASSUME NEW rules, NEW p, NEW base, NEW n \in Nat, NEW G, IsFold(G, rules, p, base, n)
  PROVE  \E H : IsFold(H, rules, p, base, n + 1)
<1> DEFINE m == n + 1
           H == [s \in SUBSET (1..m) |-> IF m \notin s THEN G[s] ELSE Taken(G[s \ {m}], rules[m], p)]
<1>1. ASSUME NEW s \in SUBSET (1..m)
      PROVE  H[s] = IF s = {} THEN base ELSE Taken(H[s \ {Max(s)}], rules[Max(s)], p)
  <2>1. CASE m \in s
    <3>1. Max(s) = m
      BY <2>1, LastOfMany
    <3>2. s \ {m} \in SUBSET (1..m) /\ m \notin s \ {m}
      OBVIOUS
    <3>3. H[s \ {m}] = G[s \ {m}]
      BY <3>2
    <3> QED
      BY <2>1, <3>1, <3>3
  <2>2. CASE m \notin s
    <3>0. \A x \in s : x \in 1..n
      BY <2>2
    <3>1. s \in SUBSET (1..n) /\ s \ {Max(s)} \in SUBSET (1..m) /\ m \notin s \ {Max(s)}
      BY <2>2, <3>0
    <3>2. H[s] = G[s] /\ H[s \ {Max(s)}] = G[s \ {Max(s)}]
      BY <2>2, <3>1
    <3>3. G[s] = IF s = {} THEN base ELSE Taken(G[s \ {Max(s)}], rules[Max(s)], p)
      BY <3>1 DEF IsFold
    <3> QED
      BY <3>2, <3>3
  <2> QED
    BY <2>1, <2>2
<1>2. H = [s \in SUBSET (1..m) |-> H[s]]
  OBVIOUS
<1> HIDE DEF H
<1>3. H = [s \in SUBSET (1..m) |-> IF s = {} THEN base ELSE Taken(H[s \ {Max(s)}], rules[Max(s)], p)]
  BY <1>1, <1>2
<1> QED
  BY <1>3 DEF IsFold

\* There is a fold over any number of rules.
LEMMA FoldsExist ==
  ASSUME NEW rules, NEW p, NEW base, NEW n \in Nat
  PROVE  \E G : IsFold(G, rules, p, base, n)
<1> DEFINE Has(k) == \E G : IsFold(G, rules, p, base, k)
           T == {k \in Nat : ~Has(k)}
<1>1. Has(0)
  <2> DEFINE G == [s \in SUBSET (1..0) |-> base]
  <2>1. \A s \in SUBSET (1..0) : s = {}
    OBVIOUS
  <2>2. G = [s \in SUBSET (1..0) |-> IF s = {} THEN base ELSE Taken(G[s \ {Max(s)}], rules[Max(s)], p)]
    BY <2>1
  <2> QED
    BY <2>2 DEF IsFold
<1>2. ASSUME NEW k \in Nat, Has(k) PROVE Has(k + 1)
  BY <1>2, FoldGrows
<1> HIDE DEF Has
<1>3. ASSUME T # {} PROVE FALSE
  <2>1. PICK m \in T : \A k \in T : m <= k
    BY <1>3, LeastMember
  <2>2. m \in Nat /\ m # 0 /\ ~Has(m)
    BY <1>1
  <2>3. m - 1 \in Nat /\ m - 1 \notin T /\ (m - 1) + 1 = m
    BY <2>1, <2>2
  <2> QED
    BY <1>2, <2>2, <2>3
<1> QED
  BY <1>3 DEF Has

\* A fold over the first rules takes the last of them into account.
TakesEach(G, rules, p, base, n) ==
  /\ G[1..0] = base
  /\ \A k \in 1..n : G[1..k] = Taken(G[1..(k - 1)], rules[k], p)
\* Such a fold is one rule after another.
LEMMA FoldTakesEach ==
  ASSUME NEW rules, NEW p, NEW base, NEW n \in Nat, NEW G, IsFold(G, rules, p, base, n)
  PROVE  TakesEach(G, rules, p, base, n)
<1>1. G[1..0] = base
  <2>1. 1..0 \in SUBSET (1..n) /\ 1..0 = {}
    OBVIOUS
  <2> QED
    BY <2>1 DEF IsFold
<1>2. ASSUME NEW k \in 1..n PROVE G[1..k] = Taken(G[1..(k - 1)], rules[k], p)
  <2>1. 1..k \in SUBSET (1..n) /\ 1..k # {}
    OBVIOUS
  <2>2. Max(1..k) = k
    BY LastOfMany
  <2>3. (1..k) \ {k} = 1..(k - 1)
    OBVIOUS
  <2> QED
    BY <2>1, <2>2, <2>3 DEF IsFold
<1> QED
  BY <1>1, <1>2 DEF TakesEach

------------------------------------------------------------------------------
(* What the accumulator says of the rules taken so far.                    *)

Entry == [decided: BOOLEAN, at: Int, denied: BOOLEAN]
About(rows, b, p) == {r \in rows : b \in r.perms /\ AppliesTo(r, p)}

\* A rule as the tables have it, as far as resolution looks at it.
Plain(r) == Len(r.path) \in Nat /\ r.perms \subseteq Bits /\ r.deny \in BOOLEAN

\* The deepest of the rules about b, and whether one of that depth denies; the ownership, where there is none.
Says(e, rows, b, p, owned) ==
  /\ e \in Entry
  /\ About(rows, b, p) = {} => e.decided = (owned /\ b # "manage") /\ ~e.denied /\ (e.decided => e.at = -1)
  /\ About(rows, b, p) # {} =>
       /\ e.decided
       /\ \A r \in About(rows, b, p) : Depth(r.path) <= e.at /\ (Depth(r.path) = e.at /\ r.deny => e.denied)
       /\ \E r \in About(rows, b, p) : Depth(r.path) = e.at
       /\ e.denied => \E r \in About(rows, b, p) : Depth(r.path) = e.at /\ r.deny

SaysAll(acc, rows, p, owned) ==
  acc \in [Bits -> Entry] /\ \A b \in Bits : Says(acc[b], rows, b, p, owned)

\* Without a rule, ownership counts.
LEMMA StartSays ==
  ASSUME NEW p, NEW owned \in BOOLEAN
  PROVE  SaysAll(Start(owned), {}, p, owned)
<1>1. None \in [Bits -> Entry]
  BY DEF None, Entry
<1>2. \A b \in Bits : None[b] = [decided |-> FALSE, at |-> 0, denied |-> FALSE] /\ About({}, b, p) = {}
  BY DEF None, About
<1>3. CASE ~owned
  BY <1>1, <1>2, <1>3 DEF Start, SaysAll, Says, Entry
<1>4. CASE owned
  <2> DEFINE acc == Start(owned)
             ours == [decided |-> TRUE, at |-> -1, denied |-> FALSE]
  <2>1. \A b \in Bits : acc[b] = IF b = "manage" THEN None[b] ELSE ours
    BY <1>2, <1>4 DEF Start, Consider, OwnerPerms
  <2>2. acc = [b \in Bits |-> acc[b]]
    BY <1>4 DEF Start, Consider
  <2>3. ours \in Entry /\ ours.decided /\ ours.at = -1 /\ ~ours.denied
    BY DEF Entry
  <2> HIDE DEF acc, ours
  <2>4. \A b \in Bits : acc[b] \in Entry
    BY <1>1, <2>1, <2>3
  <2>5. ASSUME NEW b \in Bits PROVE Says(acc[b], {}, b, p, owned)
    <3>1. CASE b = "manage"
      <4>1. acc[b] \in Entry /\ ~acc[b].decided /\ ~acc[b].denied
        BY <1>2, <2>1, <2>4, <3>1
      <4> QED
        BY <1>2, <3>1, <4>1 DEF Says, Entry
    <3>2. CASE b # "manage"
      <4>1. acc[b] = ours
        BY <2>1, <3>2
      <4> QED
        BY <1>2, <1>4, <2>3, <3>2, <4>1 DEF Says
    <3> QED
      BY <3>1, <3>2
  <2>6. acc \in [Bits -> Entry]
    BY <2>2, <2>4
  <2>7. SaysAll(acc, {}, p, owned)
    BY <2>5, <2>6 DEF SaysAll
  <2> QED
    BY <2>7 DEF acc
<1> QED
  BY <1>3, <1>4

\* A rule taken into account is one the accumulator speaks of.
LEMMA OneMoreRule ==
  ASSUME NEW rows, NEW p, NEW owned \in BOOLEAN, NEW acc, SaysAll(acc, rows, p, owned), NEW r, Plain(r),
         \A s \in rows : Plain(s)
  PROVE  SaysAll(Taken(acc, r, p), rows \cup {r}, p, owned)
<1> DEFINE new == Taken(acc, r, p)
           depth == Depth(r.path)
<1>0. depth \in Nat /\ r.deny \in BOOLEAN /\ acc \in [Bits -> Entry]
  BY DEF Plain, Depth, SaysAll
<1>1. ASSUME NEW b \in Bits
      PROVE  new[b] \in Entry /\ Says(new[b], rows \cup {r}, b, p, owned)
  <2> DEFINE e == acc[b]
             f == new[b]
  <2>0. /\ e \in Entry /\ Says(e, rows, b, p, owned)
        /\ e.decided \in BOOLEAN /\ e.at \in Int /\ e.denied \in BOOLEAN
    BY DEF SaysAll, Entry
  <2>1. CASE ~(b \in r.perms /\ AppliesTo(r, p))
    <3>1. f = e
      BY <2>1 DEF Taken, Consider
    <3>2. About(rows \cup {r}, b, p) = About(rows, b, p)
      BY <2>1 DEF About
    <3> HIDE DEF f, e
    <3> QED
      BY <2>0, <3>1, <3>2 DEF Says, f
  <2>2. CASE b \in r.perms /\ AppliesTo(r, p)
    <3>1. About(rows \cup {r}, b, p) = About(rows, b, p) \cup {r}
      BY <2>2 DEF About
    <3>2. f = IF ~e.decided \/ depth > e.at THEN [decided |-> TRUE, at |-> depth, denied |-> r.deny]
              ELSE [e EXCEPT !.denied = @ \/ (depth = e.at /\ r.deny)]
      BY <2>2 DEF Taken, Consider
    <3> DEFINE A == About(rows, b, p)
    <3>3. ASSUME NEW s \in A PROVE Depth(s.path) <= e.at
      BY <2>0, <3>3 DEF Says
    <3>4. CASE ~e.decided \/ depth > e.at
      <4>1. f = [decided |-> TRUE, at |-> depth, denied |-> r.deny]
        BY <3>2, <3>4
      <4>2. f \in Entry /\ f.decided /\ f.at = depth /\ f.denied = r.deny
        BY <1>0, <4>1 DEF Entry
      <4>3. ASSUME NEW s \in A PROVE Depth(s.path) \in Int /\ Depth(s.path) < depth
        <5>1. e.decided /\ depth > e.at /\ Depth(s.path) <= e.at
          BY <2>0, <3>4, <4>3 DEF Says
        <5>2. Depth(s.path) \in Int
          BY <4>3 DEF About, Plain, Depth
        <5> QED
          BY <1>0, <2>0, <5>1, <5>2
      <4>4. About(rows \cup {r}, b, p) # {}
        BY <3>1
      <4>5. \A s \in A \cup {r} : Depth(s.path) <= depth /\ (Depth(s.path) = depth /\ s.deny => s = r)
        BY <1>0, <4>3
      <4> HIDE DEF f, e, A
      <4>6. \A s \in A \cup {r} : Depth(s.path) <= f.at /\ (Depth(s.path) = f.at /\ s.deny => f.denied)
        BY <4>2, <4>5
      <4>7. \E s \in A \cup {r} : Depth(s.path) = f.at
        BY <4>2
      <4>8. f.denied => \E s \in A \cup {r} : Depth(s.path) = f.at /\ s.deny
        BY <4>2
      <4>9. About(rows \cup {r}, b, p) = A \cup {r}
        BY <3>1 DEF A
      <4> QED
        BY <4>2, <4>4, <4>6, <4>7, <4>8, <4>9 DEF Says, f
    <3>5. CASE ~(~e.decided \/ depth > e.at)
      <4>0. e.decided /\ depth <= e.at /\ A # {}
        <5>1. e.decided /\ depth <= e.at
          BY <1>0, <2>0, <3>5
        <5>2. A = {} => e.at = -1
          BY <2>0, <5>1 DEF Says
        <5> QED
          BY <1>0, <2>0, <5>1, <5>2
      <4>1. f \in Entry /\ f.decided /\ f.at = e.at /\ f.denied = (e.denied \/ (depth = e.at /\ r.deny))
        <5>1. f = [e EXCEPT !.denied = @ \/ (depth = e.at /\ r.deny)]
          BY <3>2, <3>5
        <5>2. ASSUME NEW x \in Entry, NEW v \in BOOLEAN
              PROVE  /\ [x EXCEPT !.denied = v] \in Entry /\ [x EXCEPT !.denied = v].denied = v
                     /\ [x EXCEPT !.denied = v].decided = x.decided /\ [x EXCEPT !.denied = v].at = x.at
          BY DEF Entry
        <5>3. (e.denied \/ (depth = e.at /\ r.deny)) \in BOOLEAN
          OBVIOUS
        <5>4. f = [e EXCEPT !.denied = (e.denied \/ (depth = e.at /\ r.deny))]
          BY <5>1
        <5> HIDE DEF f, e
        <5> QED
          BY <2>0, <4>0, <5>2, <5>3, <5>4
      <4>2. /\ \A s \in A : Depth(s.path) <= e.at /\ (Depth(s.path) = e.at /\ s.deny => e.denied)
            /\ \E s \in A : Depth(s.path) = e.at
            /\ e.denied => \E s \in A : Depth(s.path) = e.at /\ s.deny
        BY <2>0, <4>0 DEF Says
      <4> HIDE DEF f, e, A
      <4>3. \A s \in A \cup {r} : Depth(s.path) <= f.at /\ (Depth(s.path) = f.at /\ s.deny => f.denied)
        BY <4>0, <4>1, <4>2
      <4>4. \E s \in A \cup {r} : Depth(s.path) = f.at
        BY <4>1, <4>2
      <4>5. f.denied => \E s \in A \cup {r} : Depth(s.path) = f.at /\ s.deny
        BY <4>1, <4>2
      <4>6. About(rows \cup {r}, b, p) = A \cup {r}
        BY <3>1 DEF A
      <4> QED
        BY <4>1, <4>3, <4>4, <4>5, <4>6 DEF Says, f
    <3> QED
      BY <3>4, <3>5
  <2> QED
    BY <2>0, <2>1, <2>2
<1>2. new = [b \in Bits |-> new[b]]
  BY <1>0 DEF Taken, Consider
<1> HIDE DEF new
<1>3. new \in [Bits -> Entry]
  BY <1>1, <1>2
<1>4. SaysAll(new, rows \cup {r}, p, owned)
  BY <1>1, <1>3 DEF SaysAll
<1> QED
  BY <1>4 DEF new

\* Whatever the order of the rules, the accumulator ends up speaking of all of them.
LEMMA FoldSays ==
  ASSUME NEW rules, NEW n \in Nat, NEW p, NEW owned \in BOOLEAN, \A i \in 1..n : Plain(rules[i]),
         NEW G, IsFold(G, rules, p, Start(owned), n)
  PROVE  SaysAll(G[1..n], {rules[i] : i \in 1..n}, p, owned)
<1> DEFINE First(k) == {rules[i] : i \in 1..k}
           Said(k) == SaysAll(G[1..k], First(k), p, owned)
           T == {k \in 0..n : ~Said(k)}
           base == Start(owned)
<1>0. G[1..0] = base /\ \A k \in 1..n : G[1..k] = Taken(G[1..(k - 1)], rules[k], p)
  <2>1. TakesEach(G, rules, p, base, n)
    BY FoldTakesEach
  <2> HIDE DEF base, First, Said, T
  <2> QED
    BY <2>1 DEF TakesEach
<1>1. Said(0)
  <2>1. G[1..0] = Start(owned)
    BY <1>0
  <2>2. First(0) = {}
    OBVIOUS
  <2> QED
    BY <2>1, <2>2, StartSays
<1>2. ASSUME NEW k \in 1..n, Said(k - 1) PROVE Said(k)
  <2>1. G[1..k] = Taken(G[1..(k - 1)], rules[k], p)
    BY <1>0
  <2>2. First(k) = First(k - 1) \cup {rules[k]}
    <3>1. \A i : i \in 1..k <=> i \in 1..(k - 1) \/ i = k
      BY <1>2
    <3> QED
      BY <3>1
  <2>3. \A s \in First(k - 1) : Plain(s)
    <3>1. \A i \in 1..(k - 1) : i \in 1..n
      BY <1>2
    <3> QED
      BY <3>1
  <2> HIDE DEF First
  <2>4. SaysAll(Taken(G[1..(k - 1)], rules[k], p), First(k - 1) \cup {rules[k]}, p, owned)
    BY <1>2, <2>3, OneMoreRule
  <2> QED
    BY <2>1, <2>2, <2>4
<1> HIDE DEF Said
<1>3. ASSUME T # {} PROVE FALSE
  <2>0. T \in SUBSET Nat
    OBVIOUS
  <2>1. PICK m \in T : \A k \in T : m <= k
    BY <1>3, <2>0, LeastMember
  <2>2. m \in 0..n /\ m # 0 /\ ~Said(m)
    BY <1>1
  <2>3. m \in 1..n /\ m - 1 \in 0..n /\ m - 1 \notin T
    BY <2>1, <2>2
  <2> QED
    BY <1>2, <2>2, <2>3
<1>4. Said(n)
  BY <1>3
<1> QED
  BY <1>4 DEF Said

\* What resolution computes, in whatever order the rules come, is what they promise: for each bit the deepest
\* rules about it decide, a denial among them prevails, and ownership counts where there are none.
THEOREM ResolutionIsRight ==
  ASSUME NEW n \in Nat, NEW rules, DOMAIN rules = 1..n, \A i \in 1..n : Plain(rules[i]),
         NEW p, NEW owned \in BOOLEAN
  PROVE  Resolve(rules, p, owned) = {b \in Bits : Holds(ToSet(rules), b, p, owned)}
<1> DEFINE rows == {rules[i] : i \in 1..n}
<1>1. PICK G : /\ G = CHOOSE H : IsFold(H, rules, p, Start(owned), n)
               /\ Resolve(rules, p, owned) = {b \in Bits : G[1..n][b].decided /\ ~G[1..n][b].denied}
  BY ResolveFolds
<1>2. IsFold(G, rules, p, Start(owned), n)
  BY <1>1, FoldsExist
<1>3. SaysAll(G[1..n], rows, p, owned)
  BY <1>2, FoldSays
<1>4. ToSet(rules) = rows
  BY DEF ToSet
<1>5. \A r \in rows : Plain(r)
  OBVIOUS
<1> HIDE DEF rows
<1>6. ASSUME NEW b \in Bits
      PROVE  (G[1..n][b].decided /\ ~G[1..n][b].denied) <=> Holds(rows, b, p, owned)
  <2> DEFINE e == G[1..n][b]
             A == About(rows, b, p)
             D == Deciding(rows, b, p)
  <2>1. Says(e, rows, b, p, owned) /\ e.decided \in BOOLEAN /\ e.denied \in BOOLEAN /\ e.at \in Int
    BY <1>3 DEF SaysAll, Says, Entry
  <2>2. D = {r \in A : \A s \in A : Depth(s.path) <= Depth(r.path)}
    BY DEF Deciding, About
  <2>3. CASE A = {}
    <3>1. D = {}
      BY <2>2, <2>3
    <3>2. e.decided = (owned /\ b # "manage") /\ ~e.denied
      BY <2>1, <2>3 DEF Says
    <3> QED
      BY <3>1, <3>2 DEF Holds
  <2>4. CASE A # {}
    <3>1. /\ e.decided
          /\ \A r \in A : Depth(r.path) <= e.at /\ (Depth(r.path) = e.at /\ r.deny => e.denied)
          /\ \E r \in A : Depth(r.path) = e.at
          /\ e.denied => \E r \in A : Depth(r.path) = e.at /\ r.deny
      BY <2>1, <2>4 DEF Says
    <3>2. \A r \in A : Depth(r.path) \in Int
      BY <1>5 DEF About, Plain, Depth
    <3> HIDE DEF A
    <3>3. D = {r \in A : Depth(r.path) = e.at}
      <4>1. ASSUME NEW r \in A, \A s \in A : Depth(s.path) <= Depth(r.path) PROVE Depth(r.path) = e.at
        BY <2>1, <3>1, <3>2, <4>1
      <4>2. ASSUME NEW r \in A, Depth(r.path) = e.at PROVE \A s \in A : Depth(s.path) <= Depth(r.path)
        BY <3>1, <4>2
      <4> HIDE DEF D, e
      <4> QED
        BY <2>2, <4>1, <4>2
    <3> HIDE DEF e
    <3>4. D # {} /\ (e.denied <=> \E r \in D : r.deny)
      BY <3>1, <3>3
    <3>5. Holds(rows, b, p, owned) <=> \A r \in D : ~r.deny
      BY <3>4 DEF Holds
    <3> QED
      BY <3>1, <3>4, <3>5 DEF e
  <2> QED
    BY <2>3, <2>4
<1> QED
  BY <1>1, <1>4, <1>6

------------------------------------------------------------------------------
(* The inductive invariant.                                                *)

Tables == [users: [User -> 0..MaxBirths], admins: SUBSET User, groups: [Group -> 0..MaxBirths],
           members: SUBSET (Group \X User), acl: SUBSET Rule, owners: [Path -> User \cup {0}]]

Proper(r) == r \in Rule /\ r.sid \in (IF r.kind = "user" THEN User ELSE Group) /\ r.for # 0

\* The tables refer to rows that exist, and no birth is later than the last, n.
Kept(d, n) ==
  /\ d \in Tables
  /\ \A u \in User : d.users[u] <= n
  /\ \A u, v \in User : d.users[u] = d.users[v] /\ u # v => d.users[u] = 0
  /\ \A u \in d.admins : d.users[u] # 0
  /\ \A m \in d.members : d.groups[m[1]] # 0 /\ d.users[m[2]] # 0
  /\ \A p \in Path : d.owners[p] # 0 => d.users[d.owners[p]] # 0
  /\ IsFiniteSet(d.acl) /\ (\A r \in d.acl : Proper(r)) /\ \A r, s \in d.acl : Key(r) = Key(s) => r = s

Call == [pc: {"idle", "grant", "deleteUser", "revokeAll"}, kind: Kind, sid: User \cup Group, row: Rule \cup {<<>>}]
CallOK(c) ==
  /\ c \in Call
  /\ c.pc = "grant" => Proper(c.row)
  /\ c.pc = "deleteUser" => c.kind = "user"
  /\ c.pc \in {"deleteUser", "revokeAll"} => c.sid \in (IF c.kind = "user" THEN User ELSE Group)

Ask == [pc: {"idle", "groups", "userRules", "groupRules", "owners", "done"}, user: User, admin: BOOLEAN,
        groups: SUBSET Group, what: {"permitted", "list", "show"}, want: Bits, path: Path, rules: Seq(Rule),
        verdict: BOOLEAN, truths: SUBSET BOOLEAN, changes: Nat]

Typed ==
  /\ born \in 2..MaxBirths /\ Kept(db, born)
  /\ call \in [Admin -> Call] /\ \A q \in Admin : CallOK(call[q])
  /\ ask \in [Asker -> Ask]

\* What a question asks about one account, part by part.
GroupsOf(d, u) == {g \in Group : <<g, u>> \in d.members}
OwnRules(rows, u) == {r \in rows : r.kind = "user" /\ r.sid = u}
GroupRules(rows) == {r \in rows : r.kind = "group"}
SharedRules(rows, gs) == {r \in rows : r.kind = "group" /\ r.sid \in gs}

\* The parts a question goes by: those it has loaded, and those it will load if nothing changes.
GroupsSeen(c, d) == IF c.pc = "groups" THEN GroupsOf(d, c.user) ELSE c.groups
OwnSeen(c, d) == IF c.pc \in {"groups", "userRules"} THEN OwnRules(d.acl, c.user) ELSE OwnRules(ToSet(c.rules), c.user)
SharedSeen(c, d) == IF c.pc = "owners" THEN GroupRules(ToSet(c.rules)) ELSE SharedRules(d.acl, GroupsSeen(c, d))

\* The answer from some rules.
Right(c, rows, owned) ==
  \/ c.what = "permitted" /\ Holds(rows, c.want, c.path, owned)
  \/ c.what \in {"list", "show"} /\ (Holds(rows, "read", c.path, owned) \/ LeadsTo(rows, c.path))

\* The answer to come if nothing changes.
Coming(c, d) == Early(c) \/ Right(c, OwnSeen(c, d) \cup SharedSeen(c, d), d.owners[c.path] = c.user)

\* A question past its groups is not answered early, and its rules come in their order.
AskedInOrder ==
  \A a \in Asker : LET c == ask[a] IN
    /\ c.pc \in {"userRules", "groupRules", "owners"} => ~Early(c)
    /\ c.pc \in {"groups", "userRules"} => c.rules = <<>>
    /\ c.pc = "groupRules" => \A r \in ToSet(c.rules) : r.kind = "user" /\ r.sid = c.user
    /\ c.pc = "owners" => \A r \in ToSet(c.rules) : r.kind = "user" => r.sid = c.user

\* Until a statement comes in between, what is loaded is what the tables hold.
UndisturbedSeesTheTables ==
  \A a \in Asker : LET c == ask[a] IN
    Open(a) /\ c.changes = 0 =>
      /\ db.users[c.user] # 0 /\ c.admin = (c.user \in db.admins)
      /\ GroupsSeen(c, db) = GroupsOf(db, c.user)
      /\ OwnSeen(c, db) = OwnRules(db.acl, c.user)
      /\ SharedSeen(c, db) = SharedRules(db.acl, GroupsOf(db, c.user))
      /\ Truth(db, c) \in c.truths

\* After one statement, the answer to come is that of before it or of after it.
AnswersOfAMoment ==
  \A a \in Asker : LET c == ask[a] IN
    Open(a) /\ c.changes <= 1 /\ db.users[c.user] # 0 => Coming(c, db) \in c.truths

IInv ==
  /\ Typed
  /\ RuleStaysWithItsSubject
  /\ AskedInOrder
  /\ UndisturbedSeesTheTables
  /\ AnswersOfAMoment
  /\ VerdictOfAMoment

------------------------------------------------------------------------------
(* Lemmas about numbers, orders and statements.                            *)

\* A finite set of naturals has the maximum that Max chooses.
LEMMA MaxOfFinite ==
  ASSUME NEW S \in SUBSET Nat, S # {}, IsFiniteSet(S)
  PROVE  Max(S) \in S /\ \A n \in S : n <= Max(S)
<1> DEFINE Above(m) == {n \in S : n >= m}
           T == {Above(m) : m \in S}
           R == StrictSubsetOrdering(S)
<1>1. T \subseteq SUBSET S /\ T # {}
  OBVIOUS
<1>2. IsWellFoundedOn(R, SUBSET S)
  BY FS_FiniteSubsetsOfFinite, FS_StrictSubsetOrderingWellFounded
<1>3. PICK m \in S : \A k \in S : <<Above(k), Above(m)>> \notin R
  <2> HIDE DEF R, Above
  <2>1. \E x \in T : \A y \in T : <<y, x>> \notin R
    <3> HIDE DEF T
    <3> QED
      BY <1>1, <1>2, WFMin
  <2> QED
    BY <2>1
<1>4. ASSUME NEW k \in S PROVE k <= m
  <2>0. k \in Nat /\ m \in Nat /\ \A n \in S : n \in Nat
    OBVIOUS
  <2>1. CASE k > m
    <3>1. ASSUME NEW n \in Above(k) PROVE n \in Above(m)
      BY <2>0, <2>1, <3>1
    <3>2. m \in Above(m) /\ m \notin Above(k)
      BY <2>0, <2>1
    <3>3. Above(k) \subseteq Above(m) /\ Above(k) # Above(m)
      <4> HIDE DEF Above
      <4> QED
        BY <3>1, <3>2
    <3>4. Above(k) \in SUBSET S /\ Above(m) \in SUBSET S
      OBVIOUS
    <3> HIDE DEF Above
    <3> QED
      BY <3>3, <3>4, <1>3 DEF StrictSubsetOrdering
  <2> QED
    BY <2>0, <2>1
<1> HIDE DEF Above, T, R
<1> QED
  BY <1>4 DEF Max

\* The number of a new row is one no row bears.
LEMMA FreshIsNew ==
  ASSUME NEW R \in SUBSET (Nat \ {0}), IsFiniteSet(R), NEW rows \in [R -> Nat]
  PROVE  FreshNumber(rows) \in Nat /\ (FreshNumber(rows) \in R => rows[FreshNumber(rows)] = 0)
<1> DEFINE taken == {0} \cup {n \in DOMAIN rows : rows[n] # 0}
           used == {n \in R : rows[n] # 0}
<1>1. taken = used \cup {0}
  OBVIOUS
<1>2. IsFiniteSet(used)
  <2>1. used \in SUBSET R
    OBVIOUS
  <2> HIDE DEF used
  <2> QED
    BY <2>1, FS_Subset
<1>3. used \in SUBSET Nat
  OBVIOUS
<1> HIDE DEF used, taken
<1>4. IsFiniteSet(used \cup {0})
  BY <1>2, FS_AddElement
<1>5. taken \in SUBSET Nat /\ taken # {} /\ IsFiniteSet(taken)
  BY <1>1, <1>3, <1>4
<1>6. Max(taken) \in taken /\ \A n \in taken : n <= Max(taken)
  BY <1>5, MaxOfFinite
<1>7. Max(taken) \in Nat
  BY <1>5, <1>6
<1>8. FreshNumber(rows) = 1 + Max(taken)
  BY DEF FreshNumber, taken
<1>9. 1 + Max(taken) \notin taken
  <2>1. ASSUME 1 + Max(taken) \in taken PROVE FALSE
    <3>1. 1 + Max(taken) <= Max(taken)
      BY <1>6, <2>1
    <3> QED
      BY <1>7, <3>1
  <2> QED
    BY <2>1
<1>10. \A n \in R : n \notin taken => rows[n] = 0
  BY DEF taken
<1> QED
  BY <1>7, <1>8, <1>9, <1>10

\* The rows of a query, in any order, are the rows.
LEMMA RowsInOrder ==
  ASSUME NEW S, IsFiniteSet(S), NEW f \in SetToSeqs(S)
  PROVE  /\ Cardinality(S) \in Nat /\ f \in Seq(S) /\ DOMAIN f = 1..Cardinality(S) /\ ToSet(f) = S
<1>1. Cardinality(S) \in Nat
  BY FS_CardinalityType
<1> DEFINE n == Cardinality(S)
           D == 1..n
<1>2. f \in [D -> S] /\ \A i, j \in D : i # j => f[i] # f[j]
  BY DEF SetToSeqs
<1>3. f \in Injection(D, S)
  <2>1. DOMAIN f = D
    BY <1>2
  <2> HIDE DEF D
  <2> QED
    BY <1>2, <2>1 DEF Injection, IsInjective
<1>4. Cardinality(D) = n
  BY <1>1, FS_Interval
<1> HIDE DEF D
<1>5. f \in Surjection(D, S)
  BY <1>3, <1>4, FS_Injection
<1>6. \A x \in S : \E i \in D : f[i] = x
  BY <1>5 DEF Surjection
<1>7. DOMAIN f = D
  BY <1>2
<1>8. ToSet(f) = S
  BY <1>2, <1>6, <1>7 DEF ToSet
<1>9. f \in Seq(S)
  BY <1>1, <1>2 DEF D
<1> QED
  BY <1>1, <1>7, <1>8, <1>9 DEF D

\* SetToSeq puts a finite set in one of its orders.
LEMMA SomeOrder ==
  ASSUME NEW S, IsFiniteSet(S)
  PROVE  SetToSeq(S) \in SetToSeqs(S)
<1> DEFINE D == 1..Cardinality(S)
<1>1. ExistsBijection(D, S)
  BY FS_CardinalityType
<1> HIDE DEF D
<1>2. \E f \in [D -> S] : IsInjective(f)
  BY <1>1 DEF ExistsBijection, Bijection, Injection
<1>3. SetToSeq(S) = CHOOSE f \in [D -> S] : IsInjective(f)
  BY DEF SetToSeq, D
<1>4. SetToSeq(S) \in [D -> S] /\ IsInjective(SetToSeq(S))
  BY <1>2, <1>3
<1>5. \A i, j \in D : i # j => SetToSeq(S)[i] # SetToSeq(S)[j]
  BY <1>4 DEF IsInjective
<1> QED
  BY <1>4, <1>5 DEF SetToSeqs, D

\* Two tables differ in at most one part of what a question of u about p goes by.
Apart(d, e, u, p) ==
  LET admin  == (u \in d.admins) <=> (u \in e.admins)
      groups == GroupsOf(d, u) = GroupsOf(e, u)
      own    == OwnRules(d.acl, u) = OwnRules(e.acl, u)
      shared == GroupRules(d.acl) = GroupRules(e.acl)
      owner  == (d.owners[p] = u) <=> (e.owners[p] = u)
  IN \/ groups /\ own /\ shared /\ owner
     \/ admin /\ own /\ shared /\ owner
     \/ admin /\ groups /\ shared /\ owner
     \/ admin /\ groups /\ own /\ owner
     \/ admin /\ groups /\ own /\ shared

\* For every account that lives through it, a statement changes one part at most.
Close(d, e) == \A u \in User, p \in Path : d.users[u] # 0 /\ e.users[u] # 0 => Apart(d, e, u, p)

\* An account is made at a number nobody bears.
LEMMA UserMade ==
  ASSUME NEW n \in Nat, n < MaxBirths, NEW d, Kept(d, n), FreshNumber(d.users) \in User
  PROVE  LET e == CreateUser(d, n + 1)
         IN /\ Kept(e, n + 1) /\ Close(d, e) /\ e.acl = d.acl /\ e.groups = d.groups
            /\ \A u \in User : d.users[u] # 0 => e.users[u] = d.users[u]
<1> DEFINE f == FreshNumber(d.users)
           e == CreateUser(d, n + 1)
<1>1. d.users[f] = 0
  <2>1. User \in SUBSET (Nat \ {0}) /\ IsFiniteSet(User)
    BY AclAssumption, FS_Subset
  <2>2. d.users \in [User -> Nat]
    BY AclAssumption DEF Kept, Tables
  <2> QED
    BY <2>1, <2>2, FreshIsNew
<1> HIDE DEF f
<1>2. f \in User
  BY DEF f
<1>3. e = [d EXCEPT !.users[f] = n + 1]
  BY DEF CreateUser, f
<1>4. d \in Tables /\ n + 1 \in 0..MaxBirths
  BY AclAssumption DEF Kept
<1>5. /\ e \in Tables /\ e.users = [d.users EXCEPT ![f] = n + 1] /\ e.admins = d.admins /\ e.groups = d.groups
      /\ e.members = d.members /\ e.acl = d.acl /\ e.owners = d.owners
  BY <1>2, <1>3, <1>4 DEF Tables
<1> HIDE DEF e
<1>6. \A u \in User : e.users[u] = IF u = f THEN n + 1 ELSE d.users[u]
  BY <1>2, <1>4, <1>5 DEF Tables
<1>7. \A u \in User : d.users[u] \in Nat /\ d.users[u] <= n
  BY AclAssumption DEF Kept, Tables
<1>8. \A u \in User : e.users[u] <= n + 1 /\ (d.users[u] # 0 => e.users[u] = d.users[u])
  BY <1>1, <1>6, <1>7
<1>9. \A u, v \in User : e.users[u] = e.users[v] /\ u # v => e.users[u] = 0
  BY <1>6, <1>7 DEF Kept
<1>10. Kept(e, n + 1)
  <2>1. \A u \in e.admins : e.users[u] # 0
    BY <1>4, <1>5, <1>8 DEF Kept, Tables
  <2>2. \A m \in e.members : e.groups[m[1]] # 0 /\ e.users[m[2]] # 0
    BY <1>4, <1>5, <1>8 DEF Kept, Tables
  <2>3. \A p \in Path : e.owners[p] # 0 => e.users[e.owners[p]] # 0
    BY <1>4, <1>5, <1>8 DEF Kept, Tables
  <2>4. IsFiniteSet(e.acl) /\ (\A r \in e.acl : Proper(r)) /\ \A r, s \in e.acl : Key(r) = Key(s) => r = s
    BY <1>5 DEF Kept
  <2> QED
    BY <1>5, <1>8, <1>9, <2>1, <2>2, <2>3, <2>4 DEF Kept
<1>11. Close(d, e)
  BY <1>5 DEF Close, Apart, GroupsOf
<1> QED
  BY <1>5, <1>8, <1>10, <1>11 DEF e

\* A group is made at a number no group bears.
LEMMA GroupMade ==
  ASSUME NEW n \in Nat, n < MaxBirths, NEW d, Kept(d, n), FreshNumber(d.groups) \in Group
  PROVE  LET e == CreateGroup(d, n + 1)
         IN /\ Kept(e, n + 1) /\ Close(d, e) /\ e.acl = d.acl /\ e.users = d.users
            /\ \A g \in Group : d.groups[g] # 0 => e.groups[g] = d.groups[g]
<1> DEFINE f == FreshNumber(d.groups)
           e == CreateGroup(d, n + 1)
<1>1. d.groups[f] = 0
  <2>1. Group \in SUBSET (Nat \ {0}) /\ IsFiniteSet(Group)
    BY AclAssumption, FS_Subset
  <2>2. d.groups \in [Group -> Nat]
    BY AclAssumption DEF Kept, Tables
  <2> QED
    BY <2>1, <2>2, FreshIsNew
<1> HIDE DEF f
<1>2. f \in Group
  BY DEF f
<1>3. e = [d EXCEPT !.groups[f] = n + 1]
  BY DEF CreateGroup, f
<1>4. d \in Tables /\ n + 1 \in 0..MaxBirths
  BY AclAssumption DEF Kept
<1>5. /\ e \in Tables /\ e.groups = [d.groups EXCEPT ![f] = n + 1] /\ e.admins = d.admins /\ e.users = d.users
      /\ e.members = d.members /\ e.acl = d.acl /\ e.owners = d.owners
  BY <1>2, <1>3, <1>4 DEF Tables
<1> HIDE DEF e
<1>6. \A g \in Group : d.groups[g] # 0 => e.groups[g] = d.groups[g]
  BY <1>1, <1>2, <1>4, <1>5 DEF Tables
<1>7. Kept(e, n + 1)
  <2>1. \A u \in User : e.users[u] <= n + 1
    <3>1. \A u \in User : d.users[u] \in Nat /\ d.users[u] <= n
      BY AclAssumption DEF Kept, Tables
    <3> QED
      BY <1>5, <3>1
  <2>2. \A m \in e.members : e.groups[m[1]] # 0 /\ e.users[m[2]] # 0
    BY <1>4, <1>5, <1>6 DEF Kept, Tables
  <2>3. IsFiniteSet(e.acl) /\ (\A r \in e.acl : Proper(r)) /\ \A r, s \in e.acl : Key(r) = Key(s) => r = s
    BY <1>5 DEF Kept
  <2> QED
    BY <1>5, <2>1, <2>2, <2>3 DEF Kept
<1>8. Close(d, e)
  BY <1>5 DEF Close, Apart, GroupsOf
<1> QED
  BY <1>5, <1>6, <1>7, <1>8 DEF e

\* What an account had goes with its row, but for its rules.
LEMMA UserDeleted ==
  ASSUME NEW n \in Nat, NEW d, Kept(d, n), NEW x \in User
  PROVE  LET e == DeleteUser(d, x)
         IN /\ Kept(e, n) /\ Close(d, e) /\ e.acl = d.acl /\ e.groups = d.groups
            /\ \A u \in User : u # x => e.users[u] = d.users[u]
<1> DEFINE e == DeleteUser(d, x)
<1>1. d \in Tables /\ 0 \in 0..MaxBirths
  BY AclAssumption DEF Kept
<1> DEFINE U == [d.users EXCEPT ![x] = 0]
           A == d.admins \ {x}
           M == {m \in d.members : m[2] # x}
           O == [p \in Path |-> IF d.owners[p] = x THEN 0 ELSE d.owners[p]]
<1>2. U \in [User -> 0..MaxBirths] /\ A \in SUBSET User /\ M \in SUBSET (Group \X User) /\ O \in [Path -> User \cup {0}]
  BY <1>1 DEF Tables
<1>3. e = [d EXCEPT !.users = U, !.admins = A, !.members = M, !.owners = O]
  BY <1>1 DEF Tables, DeleteUser
<1> HIDE DEF e, U, A, M, O
<1>4. /\ e \in Tables
      /\ e.users = U /\ e.admins = A /\ e.groups = d.groups /\ e.members = M /\ e.acl = d.acl /\ e.owners = O
  BY <1>1, <1>2, <1>3 DEF Tables
<1>5. /\ e.users = [d.users EXCEPT ![x] = 0] /\ e.admins = d.admins \ {x} /\ e.groups = d.groups
      /\ e.members = {m \in d.members : m[2] # x} /\ e.acl = d.acl
      /\ e.owners = [p \in Path |-> IF d.owners[p] = x THEN 0 ELSE d.owners[p]]
  BY <1>4 DEF U, A, M, O
<1>6. \A u \in User : e.users[u] = IF u = x THEN 0 ELSE d.users[u]
  BY <1>1, <1>5 DEF Tables
<1>7. x \notin {0} /\ \A p \in Path : e.owners[p] = IF d.owners[p] = x THEN 0 ELSE d.owners[p]
  BY <1>5, AclAssumption
<1>8. Kept(e, n)
  <2>1. \A u \in User : e.users[u] <= n
    BY <1>6 DEF Kept
  <2>2. \A u, v \in User : e.users[u] = e.users[v] /\ u # v => e.users[u] = 0
    BY <1>6 DEF Kept
  <2>3. \A u \in e.admins : e.users[u] # 0
    BY <1>1, <1>5, <1>6 DEF Kept, Tables
  <2>4. \A m \in e.members : e.groups[m[1]] # 0 /\ e.users[m[2]] # 0
    BY <1>1, <1>5, <1>6 DEF Kept, Tables
  <2>5. \A p \in Path : e.owners[p] # 0 => e.users[e.owners[p]] # 0
    BY <1>1, <1>6, <1>7 DEF Kept, Tables
  <2>6. IsFiniteSet(e.acl) /\ (\A r \in e.acl : Proper(r)) /\ \A r, s \in e.acl : Key(r) = Key(s) => r = s
    BY <1>5 DEF Kept
  <2> QED
    BY <1>4, <2>1, <2>2, <2>3, <2>4, <2>5, <2>6 DEF Kept
<1>9. ASSUME NEW u \in User, NEW p \in Path, e.users[u] # 0 PROVE Apart(d, e, u, p)
  <2>1. u # x
    BY <1>6, <1>9
  <2>2. (u \in d.admins) <=> (u \in e.admins)
    BY <1>5, <2>1
  <2>3. GroupsOf(d, u) = GroupsOf(e, u)
    BY <1>5, <2>1 DEF GroupsOf
  <2>4. (d.owners[p] = u) <=> (e.owners[p] = u)
    <3>1. u # 0
      BY AclAssumption
    <3> QED
      BY <1>7, <2>1, <3>1
  <2> QED
    BY <1>5, <2>2, <2>3, <2>4 DEF Apart
<1> QED
  BY <1>5, <1>6, <1>8, <1>9 DEF e, Close

\* The members of a group go with its row, but its rules do not.
LEMMA GroupDeleted ==
  ASSUME NEW n \in Nat, NEW d, Kept(d, n), NEW x \in Group
  PROVE  LET e == DeleteGroup(d, x)
         IN /\ Kept(e, n) /\ Close(d, e) /\ e.acl = d.acl /\ e.users = d.users
            /\ \A g \in Group : g # x => e.groups[g] = d.groups[g]
<1> DEFINE e == DeleteGroup(d, x)
<1>1. d \in Tables /\ 0 \in 0..MaxBirths
  BY AclAssumption DEF Kept
<1> DEFINE G == [d.groups EXCEPT ![x] = 0]
           M == {m \in d.members : m[1] # x}
<1>2. G \in [Group -> 0..MaxBirths] /\ M \in SUBSET (Group \X User)
  BY <1>1 DEF Tables
<1>3. e = [d EXCEPT !.groups = G, !.members = M]
  BY <1>1 DEF Tables, DeleteGroup
<1> HIDE DEF e, G, M
<1>4. /\ e \in Tables
      /\ e.users = d.users /\ e.admins = d.admins /\ e.groups = G /\ e.members = M /\ e.acl = d.acl
      /\ e.owners = d.owners
  BY <1>1, <1>2, <1>3 DEF Tables
<1>5. /\ e.groups = [d.groups EXCEPT ![x] = 0] /\ e.admins = d.admins /\ e.users = d.users
      /\ e.members = {m \in d.members : m[1] # x} /\ e.acl = d.acl /\ e.owners = d.owners
  BY <1>4 DEF G, M
<1>6. \A g \in Group : e.groups[g] = IF g = x THEN 0 ELSE d.groups[g]
  BY <1>1, <1>5 DEF Tables
<1>7. Kept(e, n)
  <2>1. \A m \in e.members : e.groups[m[1]] # 0 /\ e.users[m[2]] # 0
    BY <1>1, <1>5, <1>6 DEF Kept, Tables
  <2>2. IsFiniteSet(e.acl) /\ (\A r \in e.acl : Proper(r)) /\ \A r, s \in e.acl : Key(r) = Key(s) => r = s
    BY <1>5 DEF Kept
  <2> QED
    BY <1>5, <1>4, <2>1, <2>2 DEF Kept
<1>8. Close(d, e)
  BY <1>5 DEF Close, Apart
<1> QED
  BY <1>5, <1>6, <1>7, <1>8 DEF e

\* One comes into a group, or goes.
LEMMA MembershipWritten ==
  ASSUME NEW n \in Nat, NEW d, Kept(d, n), NEW g \in Group, NEW x \in User, NEW e,
         \/ d.groups[g] # 0 /\ d.users[x] # 0 /\ e = AddGroupMember(d, g, x)
         \/ e = RemoveGroupMember(d, g, x)
  PROVE  Kept(e, n) /\ Close(d, e) /\ e.acl = d.acl /\ e.users = d.users /\ e.groups = d.groups
<1>1. d \in Tables
  BY DEF Kept
<1>2. PICK M \in SUBSET (Group \X User) :
        /\ e = [d EXCEPT !.members = M]
        /\ \A m \in M : d.groups[m[1]] # 0 /\ d.users[m[2]] # 0
  <2>1. CASE d.groups[g] # 0 /\ d.users[x] # 0 /\ e = AddGroupMember(d, g, x)
    <3> DEFINE M == d.members \cup {<<g, x>>}
    <3>1. M \in SUBSET (Group \X User) /\ \A m \in M : d.groups[m[1]] # 0 /\ d.users[m[2]] # 0
      BY <1>1, <2>1 DEF Tables, Kept
    <3>2. e = [d EXCEPT !.members = M]
      BY <2>1 DEF AddGroupMember
    <3> QED
      BY <3>1, <3>2
  <2>2. CASE e = RemoveGroupMember(d, g, x)
    <3> DEFINE M == d.members \ {<<g, x>>}
    <3>1. M \in SUBSET (Group \X User) /\ \A m \in M : d.groups[m[1]] # 0 /\ d.users[m[2]] # 0
      BY <1>1 DEF Tables, Kept
    <3>2. e = [d EXCEPT !.members = M]
      BY <2>2 DEF RemoveGroupMember
    <3> QED
      BY <3>1, <3>2
  <2> QED
    BY <2>1, <2>2
<1>3. /\ e \in Tables
      /\ e.users = d.users /\ e.admins = d.admins /\ e.groups = d.groups /\ e.members = M /\ e.acl = d.acl
      /\ e.owners = d.owners
  BY <1>1, <1>2 DEF Tables
<1>4. Kept(e, n)
  BY <1>2, <1>3 DEF Kept
<1>5. Close(d, e)
  BY <1>3 DEF Close, Apart
<1> QED
  BY <1>3, <1>4, <1>5

\* An account becomes an administrator, or is no more.
LEMMA RoleWritten ==
  ASSUME NEW n \in Nat, NEW d, Kept(d, n), NEW x \in User, d.users[x] # 0, NEW flag \in BOOLEAN
  PROVE  LET e == SetUserAdmin(d, x, flag)
         IN Kept(e, n) /\ Close(d, e) /\ e.acl = d.acl /\ e.users = d.users /\ e.groups = d.groups
<1> DEFINE e == SetUserAdmin(d, x, flag)
           A == IF flag THEN d.admins \cup {x} ELSE d.admins \ {x}
<1>1. d \in Tables
  BY DEF Kept
<1>2. A \in SUBSET User /\ \A u \in A : d.users[u] # 0
  BY <1>1 DEF Tables, Kept
<1>3. e = [d EXCEPT !.admins = A]
  BY DEF SetUserAdmin
<1> HIDE DEF A, e
<1>4. /\ e \in Tables
      /\ e.users = d.users /\ e.admins = A /\ e.groups = d.groups /\ e.members = d.members /\ e.acl = d.acl
      /\ e.owners = d.owners
  BY <1>1, <1>2, <1>3 DEF Tables
<1>5. Kept(e, n)
  BY <1>2, <1>4 DEF Kept
<1>6. Close(d, e)
  BY <1>4 DEF Close, Apart, GroupsOf
<1> QED
  BY <1>4, <1>5, <1>6 DEF e

\* A file gets an owner who exists, or none.
LEMMA OwnerWritten ==
  ASSUME NEW n \in Nat, NEW d, Kept(d, n), NEW p \in Path, NEW x \in User, NEW e,
         (d.users[x] # 0 /\ e = SetFileOwner(d, p, x)) \/ e = DeleteFileOwner(d, p)
  PROVE  Kept(e, n) /\ Close(d, e) /\ e.acl = d.acl /\ e.users = d.users /\ e.groups = d.groups
<1>1. d \in Tables
  BY DEF Kept
<1>2. PICK v \in User \cup {0} : e = [d EXCEPT !.owners[p] = v] /\ (v # 0 => d.users[v] # 0)
  BY DEF SetFileOwner, DeleteFileOwner
<1> DEFINE O == [d.owners EXCEPT ![p] = v]
<1>3. O \in [Path -> User \cup {0}] /\ \A q \in Path : O[q] # 0 => d.users[O[q]] # 0
  BY <1>1, <1>2 DEF Tables, Kept
<1>4. e = [d EXCEPT !.owners = O]
  BY <1>1, <1>2 DEF Tables
<1> HIDE DEF O
<1>5. /\ e \in Tables
      /\ e.users = d.users /\ e.admins = d.admins /\ e.groups = d.groups /\ e.members = d.members /\ e.acl = d.acl
      /\ e.owners = O
  BY <1>1, <1>3, <1>4 DEF Tables
<1>6. Kept(e, n)
  BY <1>3, <1>5 DEF Kept
<1>7. Close(d, e)
  BY <1>5 DEF Close, Apart, GroupsOf
<1> QED
  BY <1>5, <1>6, <1>7

\* The rules of one kind of subject are written: other tables, and the rules of the other kind, stay.
LEMMA RulesWritten ==
  ASSUME NEW n \in Nat, NEW d, Kept(d, n), NEW e, NEW rows, NEW k \in Kind,
         e = [d EXCEPT !.acl = rows],
         IsFiniteSet(rows), \A r \in rows : Proper(r), \A r, s \in rows : Key(r) = Key(s) => r = s,
         \A r \in rows \cup d.acl : r.kind # k => (r \in rows <=> r \in d.acl)
  PROVE  Kept(e, n) /\ Close(d, e) /\ e.acl = rows /\ e.users = d.users /\ e.groups = d.groups
<1>1. d \in Tables /\ rows \in SUBSET Rule
  BY DEF Kept, Proper
<1>2. /\ e \in Tables
      /\ e.users = d.users /\ e.admins = d.admins /\ e.groups = d.groups /\ e.members = d.members /\ e.acl = rows
      /\ e.owners = d.owners
  BY <1>1 DEF Tables
<1>3. Kept(e, n)
  BY <1>2 DEF Kept
<1>4. ASSUME NEW u \in User, NEW p \in Path PROVE Apart(d, e, u, p)
  <2>1. GroupsOf(d, u) = GroupsOf(e, u)
    BY <1>2 DEF GroupsOf
  <2>2. CASE k = "user"
    <3>1. GroupRules(d.acl) = GroupRules(rows)
      BY <2>2 DEF GroupRules
    <3> QED
      BY <1>2, <2>1, <3>1 DEF Apart
  <2>3. CASE k = "group"
    <3>1. OwnRules(d.acl, u) = OwnRules(rows, u)
      BY <2>3 DEF OwnRules
    <3> QED
      BY <1>2, <2>1, <3>1 DEF Apart
  <2> QED
    BY <2>2, <2>3 DEF Kind
<1> QED
  BY <1>2, <1>3, <1>4 DEF Close

\* A rule takes the place of the one with its key.
LEMMA RuleGranted ==
  ASSUME NEW n \in Nat, NEW d, Kept(d, n), NEW row, Proper(row)
  PROVE  LET e == UpsertACL(d, row)
         IN /\ Kept(e, n) /\ Close(d, e) /\ e.users = d.users /\ e.groups = d.groups
            /\ e.acl \subseteq d.acl \cup {row}
<1> DEFINE others == {r \in d.acl : Key(r) # Key(row)}
           rows == others \cup {row}
<1>1. UpsertACL(d, row) = [d EXCEPT !.acl = rows]
  BY DEF UpsertACL
<1>2. \A r \in d.acl : Proper(r)
  BY DEF Kept
<1>3. \A r, s \in rows : Key(r) = Key(s) => r = s
  BY DEF Kept
<1>4. \A r \in rows : Proper(r)
  BY <1>2
<1>5. ASSUME NEW r \in rows \cup d.acl, r.kind # row.kind PROVE r \in rows <=> r \in d.acl
  <2>1. Key(r) # Key(row) /\ r # row
    BY <1>5 DEF Key
  <2> QED
    BY <2>1
<1>6. IsFiniteSet(others)
  <2>1. others \in SUBSET d.acl /\ IsFiniteSet(d.acl)
    BY DEF Kept
  <2> HIDE DEF others
  <2> QED
    BY <2>1, FS_Subset
<1>7. rows \subseteq d.acl \cup {row} /\ row.kind \in Kind
  BY DEF Proper, Rule
<1> HIDE DEF others
<1>8. IsFiniteSet(rows)
  BY <1>6, FS_AddElement
<1> HIDE DEF rows
<1> QED
  BY <1>1, <1>3, <1>4, <1>5, <1>7, <1>8, RulesWritten

\* Rules of one kind of subject go.
LEMMA RulesDropped ==
  ASSUME NEW n \in Nat, NEW d, Kept(d, n), NEW rows \in SUBSET d.acl, NEW k \in Kind,
         \A r \in d.acl \ rows : r.kind = k
  PROVE  LET e == [d EXCEPT !.acl = rows]
         IN Kept(e, n) /\ Close(d, e) /\ e.acl = rows /\ e.users = d.users /\ e.groups = d.groups
<1>1. IsFiniteSet(rows)
  BY FS_Subset DEF Kept
<1>2. (\A r \in rows : Proper(r)) /\ \A r, s \in rows : Key(r) = Key(s) => r = s
  BY DEF Kept
<1> QED
  BY <1>1, <1>2, RulesWritten

------------------------------------------------------------------------------
(* What an answer is worth.                                                *)

\* A rule of the tables is as resolution takes it.
LEMMA RulesArePlain ==
  ASSUME NEW r \in Rule
  PROVE  Plain(r)
<1>1. r.path \in Path /\ r.perms \subseteq Bits /\ r.deny \in BOOLEAN
  BY DEF Rule
<1>2. r.path \in Seq(ToSet(r.path))
  BY <1>1, AclAssumption
<1> QED
  BY <1>1, <1>2 DEF Plain

\* The answer given from rules in some order is the one their set gives.
LEMMA AnswerIsRight ==
  ASSUME NEW c \in Ask, NEW owned \in BOOLEAN
  PROVE  Answer(c, c.rules, owned) <=> Right(c, ToSet(c.rules), owned)
<1> DEFINE rules == c.rules
           rows == ToSet(c.rules)
<1>1. rules \in Seq(Rule) /\ c.want \in Bits /\ "read" \in Bits /\ c.what \in {"permitted", "list", "show"}
  BY AclAssumption DEF Ask
<1> HIDE DEF rules
<1>2. Len(rules) \in Nat /\ DOMAIN rules = 1..Len(rules) /\ \A i \in 1..Len(rules) : Plain(rules[i])
  BY <1>1, RulesArePlain
<1>3. Resolve(rules, c.path, owned) = {b \in Bits : Holds(rows, b, c.path, owned)}
  BY <1>2, ResolutionIsRight DEF rules
<1>4. HasReadUnder(rules, c.path) <=> LeadsTo(rows, c.path)
  BY DEF HasReadUnder, LeadsTo, IsStrictPrefix, rules
<1> HIDE DEF rows
<1>5. CASE c.what = "permitted"
  BY <1>1, <1>3, <1>5 DEF Answer, Permitted, Right, rules, rows
<1>6. CASE c.what = "list"
  BY <1>1, <1>3, <1>4, <1>6 DEF Answer, CanList, Right, rules, rows
<1>7. CASE c.what = "show"
  BY <1>1, <1>3, <1>4, <1>7 DEF Answer, VisibleChild, Right, rules, rows
<1> QED
  BY <1>1, <1>5, <1>6, <1>7

\* The right answer, from the parts a question goes by.
Whole(c, admin, own, shared, owned) ==
  admin \/ (c.what = "list" /\ c.path = <<>>) \/ Right(c, own \cup shared, owned)

\* The right answer is the one the parts of the tables give, to an account that is there.
LEMMA TruthIsOfTheParts ==
  ASSUME NEW c \in Ask, NEW n, NEW d, Kept(d, n)
  PROVE  Truth(d, c) <=> /\ d.users[c.user] # 0
                         /\ Whole(c, c.user \in d.admins, OwnRules(d.acl, c.user),
                                  SharedRules(d.acl, GroupsOf(d, c.user)), d.owners[c.path] = c.user)
<1>1. RulesFor(d, c.user) = OwnRules(d.acl, c.user) \cup SharedRules(d.acl, GroupsOf(d, c.user))
  <2>1. ASSUME NEW r \in d.acl
        PROVE  r.kind = "group" => r.sid \in Group
    BY DEF Kept, Proper
  <2> QED
    BY <2>1 DEF RulesFor, OwnRules, SharedRules, GroupsOf
<1> DEFINE rows == OwnRules(d.acl, c.user) \cup SharedRules(d.acl, GroupsOf(d, c.user))
           owned == d.owners[c.path] = c.user
<1>2. c.what \in {"permitted", "list", "show"}
  BY DEF Ask
<1>3. Truth(d, c) <=>
        /\ d.users[c.user] # 0
        /\ \/ c.user \in d.admins
           \/ c.what = "permitted" /\ Holds(rows, c.want, c.path, owned)
           \/ c.what = "list" /\ (c.path = <<>> \/ Holds(rows, "read", c.path, owned) \/ LeadsTo(rows, c.path))
           \/ c.what = "show" /\ (Holds(rows, "read", c.path, owned) \/ LeadsTo(rows, c.path))
  BY <1>1 DEF Truth
<1> HIDE DEF rows, owned
<1>4. Truth(d, c) <=> d.users[c.user] # 0 /\ Whole(c, c.user \in d.admins, rows, {}, owned)
  BY <1>2, <1>3 DEF Whole, Right
<1> QED
  BY <1>4 DEF rows, owned, Whole

\* What is to come, from the parts seen.
LEMMA ComingIsOfTheParts ==
  ASSUME NEW c, NEW d
  PROVE  Coming(c, d) <=> Whole(c, c.admin, OwnSeen(c, d), SharedSeen(c, d), d.owners[c.path] = c.user)
  BY DEF Coming, Whole, Early

\* The same question, whatever is loaded.
SameQuestion(c, e) ==
  /\ e.user = c.user /\ e.admin = c.admin /\ e.what = c.what /\ e.want = c.want /\ e.path = c.path

\* With the same parts in view, the answer to come is the same, and so is the right one.
LEMMA SamePartsSameAnswer ==
  ASSUME NEW c, NEW e, NEW d, SameQuestion(c, e)
  PROVE  /\ Early(e) <=> Early(c)
         /\ Truth(d, e) <=> Truth(d, c)
         /\ OwnSeen(e, d) = OwnSeen(c, d) /\ SharedSeen(e, d) = SharedSeen(c, d)
              => (Coming(e, d) <=> Coming(c, d))
<1>1. Early(e) <=> Early(c)
  BY DEF SameQuestion, Early
<1>2. Truth(d, e) <=> Truth(d, c)
  BY DEF SameQuestion, Truth
<1>3. \A rows, owned : Right(e, rows, owned) <=> Right(c, rows, owned)
  BY DEF SameQuestion, Right
<1>4. (d.owners[e.path] = e.user) = (d.owners[c.path] = c.user)
  BY DEF SameQuestion
<1> QED
  BY <1>1, <1>2, <1>3, <1>4 DEF Coming

\* One statement after all that is loaded was loaded: what is to come is the truth before it or after it.
LEMMA OneStatementApart ==
  ASSUME NEW c \in Ask, c.pc \in {"groups", "userRules", "groupRules", "owners"}, NEW n, NEW m,
         NEW d, Kept(d, n), NEW e, Kept(e, m),
         d.users[c.user] # 0, e.users[c.user] # 0, c.admin = (c.user \in d.admins),
         GroupsSeen(c, d) = GroupsOf(d, c.user), OwnSeen(c, d) = OwnRules(d.acl, c.user),
         SharedSeen(c, d) = SharedRules(d.acl, GroupsOf(d, c.user)),
         Close(d, e)
  PROVE  (Coming(c, e) <=> Truth(d, c)) \/ (Coming(c, e) <=> Truth(e, c))
<1> DEFINE u == c.user
           Old(admin, own, shared, owned) ==
             /\ admin <=> u \in d.admins
             /\ own = OwnRules(d.acl, u) /\ shared = SharedRules(d.acl, GroupsOf(d, u))
             /\ owned <=> d.owners[c.path] = u
           New(admin, own, shared, owned) ==
             /\ admin <=> u \in e.admins
             /\ own = OwnRules(e.acl, u) /\ shared = SharedRules(e.acl, GroupsOf(e, u))
             /\ owned <=> e.owners[c.path] = u
           Seen(T(_, _, _, _)) == T(c.admin, OwnSeen(c, e), SharedSeen(c, e), e.owners[c.path] = u)
<1>1. u \in User /\ c.path \in Path /\ c.admin \in BOOLEAN
  BY DEF Ask
<1>2. Apart(d, e, u, c.path)
  BY <1>1 DEF Close
<1>3. \A rows, gs : SharedRules(rows, gs) = {r \in GroupRules(rows) : r.sid \in gs}
  BY DEF SharedRules, GroupRules
<1>4. (c.pc # "groups" => GroupsSeen(c, e) = GroupsOf(d, u)) /\ (c.pc = "groups" => GroupsSeen(c, e) = GroupsOf(e, u))
  BY DEF GroupsSeen
<1>5. /\ c.pc \in {"groups", "userRules"} => OwnSeen(c, e) = OwnRules(e.acl, u)
      /\ c.pc \notin {"groups", "userRules"} => OwnSeen(c, e) = OwnRules(d.acl, u)
  BY DEF OwnSeen
<1>6. /\ c.pc = "owners" => SharedSeen(c, e) = SharedRules(d.acl, GroupsOf(d, u))
      /\ c.pc # "owners" => SharedSeen(c, e) = SharedRules(e.acl, GroupsSeen(c, e))
  BY DEF SharedSeen
<1>7. Seen(Old) \/ Seen(New)
  <2>1. CASE /\ GroupsOf(d, u) = GroupsOf(e, u) /\ OwnRules(d.acl, u) = OwnRules(e.acl, u)
             /\ GroupRules(d.acl) = GroupRules(e.acl) /\ (d.owners[c.path] = u <=> e.owners[c.path] = u)
    BY <1>3, <1>4, <1>5, <1>6, <2>1
  <2>2. CASE /\ (u \in d.admins <=> u \in e.admins) /\ OwnRules(d.acl, u) = OwnRules(e.acl, u)
             /\ GroupRules(d.acl) = GroupRules(e.acl) /\ (d.owners[c.path] = u <=> e.owners[c.path] = u)
    BY <1>3, <1>4, <1>5, <1>6, <2>2
  <2>3. CASE /\ (u \in d.admins <=> u \in e.admins) /\ GroupsOf(d, u) = GroupsOf(e, u)
             /\ GroupRules(d.acl) = GroupRules(e.acl) /\ (d.owners[c.path] = u <=> e.owners[c.path] = u)
    BY <1>3, <1>4, <1>5, <1>6, <2>3
  <2>4. CASE /\ (u \in d.admins <=> u \in e.admins) /\ GroupsOf(d, u) = GroupsOf(e, u)
             /\ OwnRules(d.acl, u) = OwnRules(e.acl, u) /\ (d.owners[c.path] = u <=> e.owners[c.path] = u)
    BY <1>3, <1>4, <1>5, <1>6, <2>4
  <2>5. CASE /\ (u \in d.admins <=> u \in e.admins) /\ GroupsOf(d, u) = GroupsOf(e, u)
             /\ OwnRules(d.acl, u) = OwnRules(e.acl, u) /\ GroupRules(d.acl) = GroupRules(e.acl)
    BY <1>3, <1>4, <1>5, <1>6, <2>5
  <2> QED
    BY <1>2, <2>1, <2>2, <2>3, <2>4, <2>5 DEF Apart
<1>8. ASSUME Seen(Old) PROVE Coming(c, e) <=> Truth(d, c)
  BY <1>1, <1>8, ComingIsOfTheParts, TruthIsOfTheParts DEF Whole
<1>9. ASSUME Seen(New) PROVE Coming(c, e) <=> Truth(e, c)
  BY <1>1, <1>9, ComingIsOfTheParts, TruthIsOfTheParts DEF Whole
<1> QED
  BY <1>7, <1>8, <1>9

\* What the inductive invariant says of the questions.
QuestionsOK ==
  /\ ask \in [Asker -> Ask]
  /\ AskedInOrder /\ UndisturbedSeesTheTables /\ AnswersOfAMoment /\ VerdictOfAMoment

\* What it says of one question c over the tables d.
QuestionOK(c, d) ==
  /\ c \in Ask
  /\ c.pc \in {"userRules", "groupRules", "owners"} => ~Early(c)
  /\ c.pc \in {"groups", "userRules"} => c.rules = <<>>
  /\ c.pc = "groupRules" => \A r \in ToSet(c.rules) : r.kind = "user" /\ r.sid = c.user
  /\ c.pc = "owners" => \A r \in ToSet(c.rules) : r.kind = "user" => r.sid = c.user
  /\ c.pc \notin {"idle", "done"} =>
       /\ c.changes = 0 => /\ d.users[c.user] # 0 /\ c.admin = (c.user \in d.admins)
                           /\ GroupsSeen(c, d) = GroupsOf(d, c.user)
                           /\ OwnSeen(c, d) = OwnRules(d.acl, c.user)
                           /\ SharedSeen(c, d) = SharedRules(d.acl, GroupsOf(d, c.user))
                           /\ Truth(d, c) \in c.truths
       /\ c.changes <= 1 /\ d.users[c.user] # 0 => Coming(c, d) \in c.truths
  /\ c.pc = "done" /\ c.changes <= 1 /\ d.users[c.user] # 0 => c.verdict \in c.truths

\* The questions are well when each is.
LEMMA QuestionsOneByOne ==
  /\ QuestionsOK <=> ask \in [Asker -> Ask] /\ \A a \in Asker : QuestionOK(ask[a], db)
  /\ QuestionsOK' <=> ask' \in [Asker -> Ask] /\ \A a \in Asker : QuestionOK(ask'[a], db')
<1>1. ASSUME ask \in [Asker -> Ask]
      PROVE  AskedInOrder /\ UndisturbedSeesTheTables /\ AnswersOfAMoment /\ VerdictOfAMoment
             <=> \A a \in Asker : QuestionOK(ask[a], db)
  BY <1>1 DEF AskedInOrder, UndisturbedSeesTheTables, AnswersOfAMoment, VerdictOfAMoment, QuestionOK, Open
<1>2. ASSUME (ask \in [Asker -> Ask])'
      PROVE  (AskedInOrder /\ UndisturbedSeesTheTables /\ AnswersOfAMoment /\ VerdictOfAMoment)'
             <=> \A a \in Asker : QuestionOK(ask'[a], db')
  BY <1>2 DEF AskedInOrder, UndisturbedSeesTheTables, AnswersOfAMoment, VerdictOfAMoment, QuestionOK, Open
<1> QED
  BY <1>1, <1>2 DEF QuestionsOK

\* A statement adds its truth to those of an open question.
LEMMA QuestionMeetsAWrite ==
  ASSUME NEW c, NEW n, NEW m, NEW d, Kept(d, n), NEW e, Kept(e, m), Close(d, e), QuestionOK(c, d),
         c.pc \notin {"idle", "done"}
  PROVE  QuestionOK([c EXCEPT !.truths = @ \cup {Truth(e, c)}, !.changes = @ + 1], e)
<1> DEFINE f == [c EXCEPT !.truths = @ \cup {Truth(e, c)}, !.changes = @ + 1]
<1>1. c \in Ask
  BY DEF QuestionOK
<1>2. Truth(e, c) \in BOOLEAN
  BY DEF Truth
<1>3. f = [c EXCEPT !.truths = c.truths \cup {Truth(e, c)}, !.changes = c.changes + 1]
  OBVIOUS
<1>4. c.truths \cup {Truth(e, c)} \in SUBSET BOOLEAN /\ c.changes \in Nat /\ c.changes + 1 \in Nat
  BY <1>1, <1>2 DEF Ask
<1> HIDE DEF f
<1>5. /\ f \in Ask /\ SameQuestion(c, f) /\ f.pc = c.pc /\ f.groups = c.groups /\ f.rules = c.rules
      /\ f.truths = c.truths \cup {Truth(e, c)} /\ f.changes = c.changes + 1
  BY <1>1, <1>3, <1>4 DEF Ask, SameQuestion
<1>6. GroupsSeen(f, e) = GroupsSeen(c, e) /\ OwnSeen(f, e) = OwnSeen(c, e) /\ SharedSeen(f, e) = SharedSeen(c, e)
  BY <1>5 DEF GroupsSeen, OwnSeen, SharedSeen, SameQuestion
<1>7. (Early(f) <=> Early(c)) /\ (Coming(f, e) <=> Coming(c, e))
  BY <1>5, <1>6, SamePartsSameAnswer
<1>8. ASSUME f.changes <= 1, e.users[f.user] # 0 PROVE Coming(f, e) \in f.truths
  <2>1. c.changes = 0 /\ f.user = c.user
    BY <1>4, <1>5, <1>8 DEF SameQuestion
  <2>2. /\ d.users[c.user] # 0 /\ c.admin = (c.user \in d.admins)
        /\ GroupsSeen(c, d) = GroupsOf(d, c.user) /\ OwnSeen(c, d) = OwnRules(d.acl, c.user)
        /\ SharedSeen(c, d) = SharedRules(d.acl, GroupsOf(d, c.user)) /\ Truth(d, c) \in c.truths
    BY <2>1 DEF QuestionOK
  <2>3. c.pc \in {"groups", "userRules", "groupRules", "owners"}
    BY <1>1 DEF Ask
  <2>4. (Coming(c, e) <=> Truth(d, c)) \/ (Coming(c, e) <=> Truth(e, c))
    BY <1>1, <1>8, <2>1, <2>2, <2>3, OneStatementApart
  <2>5. Coming(f, e) \in BOOLEAN /\ Truth(d, c) \in BOOLEAN
    BY DEF Coming, Truth
  <2>6. Coming(f, e) = Truth(d, c) \/ Coming(f, e) = Truth(e, c)
    BY <1>2, <1>7, <2>4, <2>5
  <2> QED
    BY <1>5, <2>2, <2>6
<1>9. QuestionOK(f, e)
  BY <1>4, <1>5, <1>7, <1>8 DEF QuestionOK, SameQuestion
<1> QED
  BY <1>9 DEF f

\* A question that is idle says nothing.
LEMMA IdleIsWell ==
  ASSUME NEW c \in Ask, c.pc = "idle", NEW d
  PROVE  QuestionOK(c, d)
  BY DEF QuestionOK

\* The questions stay well through a statement that changes one part at most.
LEMMA QuestionsMeetAWrite ==
  ASSUME Typed, QuestionsOK, \A a \in Asker : ask[a].pc # "done", NEW d, Write(d), Kept(d, born'), Close(db, d)
  PROVE  QuestionsOK' /\ db' = d
<1>1. /\ db' = d
      /\ ask' = [a \in Asker |-> IF ~Open(a) THEN ask[a]
                                 ELSE [ask[a] EXCEPT !.truths = @ \cup {Truth(d, ask[a])}, !.changes = @ + 1]]
  BY DEF Write
<1>2. ASSUME NEW a \in Asker PROVE ask'[a] \in Ask /\ QuestionOK(ask'[a], d)
  <2>0. ask[a] \in Ask /\ QuestionOK(ask[a], db) /\ ask[a].pc # "done"
    BY QuestionsOneByOne DEF QuestionsOK
  <2>1. CASE ~Open(a)
    <3>1. ask'[a] = ask[a] /\ ask[a].pc = "idle"
      BY <1>1, <2>0, <2>1 DEF Open
    <3> QED
      BY <2>0, <3>1, IdleIsWell
  <2>2. CASE Open(a)
    <3>1. ask'[a] = [ask[a] EXCEPT !.truths = @ \cup {Truth(d, ask[a])}, !.changes = @ + 1]
      BY <1>1, <2>2
    <3>2. QuestionOK(ask'[a], d)
      BY <2>0, <2>2, <3>1, QuestionMeetsAWrite DEF Typed, Open
    <3> QED
      BY <3>2 DEF QuestionOK
  <2> QED
    BY <2>1, <2>2
<1>3. ask' \in [Asker -> Ask]
  <2>1. ask' = [a \in Asker |-> ask'[a]]
    BY <1>1
  <2> QED
    BY <1>2, <2>1
<1> QED
  BY <1>1, <1>2, <1>3, QuestionsOneByOne

\* A new question, and the truths it may be answered with.
Put(u, admin, what, want, path) ==
  [NoQuestion EXCEPT !.pc = "groups", !.user = u, !.admin = admin, !.what = what, !.want = want, !.path = path]
Given(c, truths) == [c EXCEPT !.truths = truths]

\* The question c, given its truths as e, is typed and has loaded nothing.
Starts(c, e, u, admin, truths) ==
  /\ e \in Ask /\ SameQuestion(c, e) /\ e.pc = "groups" /\ e.user = u /\ e.admin = admin
  /\ e.rules = <<>> /\ e.truths = truths /\ e.changes = 0

\* A new question starts so.
LEMMA NewQuestion ==
  ASSUME NEW u \in User, NEW admin \in BOOLEAN, NEW truths \in SUBSET BOOLEAN,
         NEW what \in {"permitted", "list", "show"}, NEW want \in Bits, NEW path \in Path
  PROVE  Starts(Put(u, admin, what, want, path), Given(Put(u, admin, what, want, path), truths), u, admin, truths)
<1> DEFINE c == Put(u, admin, what, want, path)
           e == Given(c, truths)
<1>1. NoQuestion \in Ask /\ NoQuestion.rules = <<>> /\ NoQuestion.changes = 0
  <2>1. <<>> \in Seq(Rule) /\ <<>> \in Path /\ 1 \in User /\ "read" \in Bits
    BY AclAssumption
  <2> QED
    BY <2>1 DEF NoQuestion, Ask
<1>2. /\ c \in Ask /\ c.pc = "groups" /\ c.user = u /\ c.admin = admin /\ c.rules = <<>> /\ c.changes = 0
      /\ c.what = what /\ c.want = want /\ c.path = path
  BY <1>1 DEF Ask, Put
<1> HIDE DEF c
<1>3. /\ e \in Ask /\ e.pc = "groups" /\ e.user = u /\ e.admin = admin /\ e.rules = <<>> /\ e.changes = 0
      /\ e.what = what /\ e.want = want /\ e.path = path /\ e.truths = truths
  BY <1>2 DEF Ask, Given
<1> HIDE DEF e
<1> QED
  BY <1>2, <1>3 DEF c, e, SameQuestion, Starts

\* A question begins by seeing the tables.
LEMMA AskedIsWell ==
  ASSUME Typed, NEW c, NEW e \in Ask, SameQuestion(c, e), e.pc = "groups", db.users[e.user] # 0,
         e.admin = (e.user \in db.admins), e.rules = <<>>, e.truths = {Truth(db, c)}, e.changes = 0
  PROVE  QuestionOK(e, db)
<1>1. Truth(db, e) <=> Truth(db, c)
  BY SamePartsSameAnswer
<1>2. Truth(db, e) \in e.truths
  <2>1. Truth(db, e) \in BOOLEAN /\ Truth(db, c) \in BOOLEAN
    BY DEF Truth
  <2>2. Truth(db, e) = Truth(db, c)
    BY <1>1, <2>1
  <2> QED
    BY <2>2
<1>3. /\ GroupsSeen(e, db) = GroupsOf(db, e.user) /\ OwnSeen(e, db) = OwnRules(db.acl, e.user)
      /\ SharedSeen(e, db) = SharedRules(db.acl, GroupsOf(db, e.user))
  BY DEF GroupsSeen, OwnSeen, SharedSeen
<1>4. Coming(e, db) \in e.truths
  <2>1. Coming(e, db) <=> Truth(db, e)
    <3>1. Coming(e, db) <=> Whole(e, e.admin, OwnSeen(e, db), SharedSeen(e, db), db.owners[e.path] = e.user)
      BY ComingIsOfTheParts
    <3>2. Truth(db, e) <=> /\ db.users[e.user] # 0
                           /\ Whole(e, e.user \in db.admins, OwnRules(db.acl, e.user),
                                    SharedRules(db.acl, GroupsOf(db, e.user)), db.owners[e.path] = e.user)
      BY TruthIsOfTheParts DEF Typed
    <3> QED
      BY <1>3, <3>1, <3>2 DEF Whole
  <2>2. Coming(e, db) \in BOOLEAN /\ Truth(db, e) \in BOOLEAN
    BY DEF Coming, Truth
  <2> QED
    BY <1>2, <2>1, <2>2
<1> QED
  BY <1>2, <1>3, <1>4 DEF QuestionOK

\* Loading a part from the tables shows nothing but what was to come.
LEMMA LoadedIsWell ==
  ASSUME NEW c, NEW d, QuestionOK(c, d), c.pc \in {"groups", "userRules", "groupRules"}, ~Early(c),
         NEW e \in Ask, SameQuestion(c, e), e.pc \in {"userRules", "groupRules", "owners"},
         e.truths = c.truths, e.changes = c.changes,
         GroupsSeen(e, d) = GroupsSeen(c, d), OwnSeen(e, d) = OwnSeen(c, d), SharedSeen(e, d) = SharedSeen(c, d),
         e.pc = "userRules" => e.rules = <<>>,
         e.pc = "groupRules" => \A r \in ToSet(e.rules) : r.kind = "user" /\ r.sid = c.user,
         e.pc = "owners" => \A r \in ToSet(e.rules) : r.kind = "user" => r.sid = c.user
  PROVE  QuestionOK(e, d)
<1>1. (Early(e) <=> Early(c)) /\ (Truth(d, e) <=> Truth(d, c)) /\ (Coming(e, d) <=> Coming(c, d))
  BY SamePartsSameAnswer
<1>2. (Truth(d, e) = Truth(d, c)) /\ (Coming(e, d) = Coming(c, d))
  BY <1>1 DEF Truth, Coming
<1> QED
  BY <1>1, <1>2 DEF QuestionOK, SameQuestion

\* An answer that is the one to come is worth as much.
LEMMA AnsweredIsWell ==
  ASSUME NEW c, NEW d, QuestionOK(c, d), c.pc \notin {"idle", "done"}, NEW verdict \in BOOLEAN,
         verdict <=> Coming(c, d)
  PROVE  QuestionOK(Answered(c, verdict), d)
<1> DEFINE e == Answered(c, verdict)
<1>1. c \in Ask
  BY DEF QuestionOK
<1>2. /\ e.pc = "done" /\ e.user = c.user /\ e.verdict = verdict /\ e.truths = c.truths /\ e.changes = c.changes
      /\ e = [NoQuestion EXCEPT !.pc = "done", !.user = c.user, !.verdict = verdict, !.truths = c.truths,
                                !.changes = c.changes]
  BY DEF Answered, NoQuestion
<1>3. e \in Ask
  <2>1. c.user \in User /\ c.truths \in SUBSET BOOLEAN /\ c.changes \in Nat
    BY <1>1 DEF Ask
  <2>2. <<>> \in Path /\ <<>> \in Seq(Rule) /\ "read" \in Bits
    BY AclAssumption
  <2>3. e = [pc |-> "done", user |-> c.user, admin |-> FALSE, groups |-> {}, what |-> "permitted", want |-> "read",
             path |-> <<>>, rules |-> <<>>, verdict |-> verdict, truths |-> c.truths, changes |-> c.changes]
    BY <1>2 DEF NoQuestion
  <2> HIDE DEF e
  <2> QED
    BY <2>1, <2>2, <2>3 DEF Ask
<1> HIDE DEF e
<1>4. c.changes <= 1 /\ d.users[c.user] # 0 => verdict \in c.truths
  <2>1. Coming(c, d) \in BOOLEAN
    BY DEF Coming
  <2>2. verdict = Coming(c, d)
    BY <2>1
  <2> QED
    BY <2>2 DEF QuestionOK
<1>5. QuestionOK(e, d)
  BY <1>2, <1>3, <1>4 DEF QuestionOK
<1> QED
  BY <1>5 DEF e

\* A question takes a step of its own.
LEMMA QuestionGoesOn ==
  ASSUME Typed, QuestionsOK, NEW a \in Asker, Question(a)
  PROVE  QuestionsOK' /\ UNCHANGED <<db, born, call, changes, failed>>
<1> DEFINE c == ask[a]
           u == ask[a].user
           rows == OwnRules(db.acl, u)
           more == {r \in db.acl : r.kind = "group" /\ r.sid \in ask[a].groups}
<1>0. c \in Ask /\ QuestionOK(c, db)
  BY QuestionsOneByOne DEF QuestionsOK
<1>1. ASSUME NEW from, NEW e, Steps(a, from, e), QuestionOK(e, db)
      PROVE  QuestionsOK' /\ UNCHANGED <<db, born, call, changes, failed>>
  <2>1. e \in Ask
    BY <1>1 DEF QuestionOK
  <2>2. ask' = [ask EXCEPT ![a] = e] /\ UNCHANGED <<db, born, call, changes, failed>>
    BY <1>1 DEF Steps, Rest
  <2>3. ask' \in [Asker -> Ask] /\ \A b \in Asker : ask'[b] = IF b = a THEN e ELSE ask[b]
    BY <2>1, <2>2 DEF QuestionsOK
  <2>4. \A b \in Asker : QuestionOK(ask'[b], db')
    BY <1>1, <2>2, <2>3, QuestionsOneByOne DEF QuestionsOK
  <2> QED
    BY <2>2, <2>3, <2>4, QuestionsOneByOne
<1>2. CASE \E x \in User, q \in Questions : Authenticate(a, x, q.what, q.want, q.path)
  <2>1. PICK x \in User, q \in Questions : Authenticate(a, x, q.what, q.want, q.path)
    BY <1>2
  <2> DEFINE admin == x \in db.admins
             f == Put(x, admin, q.what, q.want, q.path)
             truths == {Truth(db, f)}
             e == Given(f, truths)
  <2>2. db.users[x] # 0 /\ Steps(a, "idle", e)
    BY <2>1 DEF Authenticate, Put, Given
  <2>3. admin \in BOOLEAN /\ truths \in SUBSET BOOLEAN
    BY DEF Truth
  <2>4. q.what \in {"permitted", "list", "show"} /\ q.want \in Bits /\ q.path \in Path
    BY AclAssumption
  <2> HIDE DEF truths, admin
  <2>5. /\ e \in Ask /\ SameQuestion(f, e) /\ e.pc = "groups" /\ e.user = x /\ e.admin = admin
        /\ e.rules = <<>> /\ e.truths = truths /\ e.changes = 0
    <3>1. Starts(f, e, x, admin, truths)
      BY <2>3, <2>4, NewQuestion
    <3> HIDE DEF f, e
    <3> QED
      BY <3>1 DEF Starts
  <2> HIDE DEF e, f
  <2>6. QuestionOK(e, db)
    BY <2>2, <2>5, AskedIsWell DEF truths, admin
  <2> QED
    BY <1>1, <2>2, <2>6
<1>3. CASE LoadSubject(a)
  <2>1. CASE Early(c)
    <3>1. Steps(a, "groups", Answered(c, TRUE)) /\ c.pc = "groups"
      BY <1>3, <2>1 DEF LoadSubject, Steps
    <3>2. Coming(c, db)
      BY <2>1 DEF Coming
    <3>3. QuestionOK(Answered(c, TRUE), db)
      BY <1>0, <3>1, <3>2, AnsweredIsWell
    <3> QED
      BY <1>1, <3>1, <3>3
  <2>2. CASE ~Early(c)
    <3> DEFINE gs == GroupsOf(db, u)
               e == [c EXCEPT !.groups = gs, !.pc = "userRules"]
    <3>1. Steps(a, "groups", e) /\ c.pc = "groups"
      BY <1>3, <2>2 DEF LoadSubject, Steps, GroupsOf
    <3>2. gs \in SUBSET Group
      BY DEF GroupsOf
    <3> HIDE DEF c
    <3>3. /\ e \in Ask /\ SameQuestion(c, e) /\ e.pc = "userRules" /\ e.groups = gs /\ e.rules = c.rules
          /\ e.truths = c.truths /\ e.changes = c.changes
      BY <1>0, <3>2 DEF Ask, SameQuestion
    <3>4. GroupsSeen(e, db) = GroupsSeen(c, db) /\ OwnSeen(e, db) = OwnSeen(c, db) /\ SharedSeen(e, db) = SharedSeen(c, db)
      BY <3>1, <3>3 DEF GroupsSeen, OwnSeen, SharedSeen, SameQuestion, c
    <3>5. c.rules = <<>>
      BY <1>0, <3>1 DEF QuestionOK
    <3> HIDE DEF e
    <3>6. QuestionOK(e, db)
      BY <1>0, <2>2, <3>1, <3>3, <3>4, <3>5, LoadedIsWell
    <3> QED
      BY <1>1, <3>1, <3>6
  <2> QED
    BY <2>1, <2>2
<1>4. CASE LoadUserRules(a)
  <2>1. PICK seq \in SetToSeqs(rows) :
          Steps(a, "userRules", [c EXCEPT !.rules = seq, !.pc = IF c.groups = {} THEN "owners" ELSE "groupRules"])
    BY <1>4 DEF LoadUserRules, OwnRules
  <2> DEFINE pc == IF c.groups = {} THEN "owners" ELSE "groupRules"
             e == [c EXCEPT !.rules = seq, !.pc = pc]
  <2>2. rows \in SUBSET db.acl /\ db.acl \in SUBSET Rule /\ IsFiniteSet(db.acl)
    BY DEF OwnRules, Typed, Kept, Tables
  <2>3. IsFiniteSet(rows)
    BY <2>2, FS_Subset
  <2>4. seq \in Seq(rows) /\ ToSet(seq) = rows
    BY <2>3, RowsInOrder
  <2>5. seq \in Seq(Rule)
    BY <2>2, <2>4
  <2>6. pc \in {"owners", "groupRules"} /\ (pc = "owners" <=> c.groups = {})
    OBVIOUS
  <2>7. Steps(a, "userRules", e) /\ c.pc = "userRules" /\ c.user = u
    BY <2>1 DEF Steps
  <2> HIDE DEF c, pc
  <2>8. /\ e \in Ask /\ SameQuestion(c, e) /\ e.pc = pc /\ e.groups = c.groups /\ e.rules = seq
        /\ e.truths = c.truths /\ e.changes = c.changes
    BY <1>0, <2>5, <2>6 DEF Ask, SameQuestion
  <2> HIDE DEF e
  <2>9. OwnRules(rows, u) = rows /\ GroupRules(rows) = {} /\ \A r \in rows : r.kind = "user" /\ r.sid = u
    BY DEF OwnRules, GroupRules
  <2> HIDE DEF rows
  <2>10. GroupsSeen(e, db) = GroupsSeen(c, db)
    BY <2>6, <2>7, <2>8 DEF GroupsSeen
  <2>11. OwnSeen(e, db) = OwnSeen(c, db)
    BY <2>4, <2>6, <2>7, <2>8, <2>9 DEF OwnSeen, SameQuestion, rows
  <2>12. SharedSeen(e, db) = SharedSeen(c, db)
    <3>1. CASE c.groups = {}
      <4>1. SharedSeen(e, db) = {}
        BY <2>4, <2>6, <2>8, <2>9, <3>1 DEF SharedSeen
      <4>2. SharedSeen(c, db) = {}
        BY <2>7, <3>1 DEF SharedSeen, SharedRules, GroupsSeen
      <4> QED
        BY <4>1, <4>2
    <3>2. CASE c.groups # {}
      BY <2>6, <2>7, <2>8, <2>10, <3>2 DEF SharedSeen
    <3> QED
      BY <3>1, <3>2
  <2>13. ~Early(c)
    BY <1>0, <2>7 DEF QuestionOK
  <2>14. QuestionOK(e, db)
    BY <1>0, <2>4, <2>6, <2>7, <2>8, <2>9, <2>10, <2>11, <2>12, <2>13, LoadedIsWell
  <2> QED
    BY <1>1, <2>7, <2>14
<1>5. CASE LoadGroupRules(a)
  <2>1. PICK seq \in SetToSeqs(more) : Steps(a, "groupRules", [c EXCEPT !.rules = @ \o seq, !.pc = "owners"])
    BY <1>5 DEF LoadGroupRules
  <2> DEFINE e == [c EXCEPT !.rules = @ \o seq, !.pc = "owners"]
             all == c.rules \o seq
  <2>2. more \in SUBSET db.acl /\ db.acl \in SUBSET Rule /\ IsFiniteSet(db.acl)
    BY DEF Typed, Kept, Tables
  <2>3. more = SharedRules(db.acl, c.groups)
    BY DEF SharedRules
  <2> HIDE DEF more
  <2>4. IsFiniteSet(more)
    BY <2>2, FS_Subset
  <2>5. seq \in Seq(more) /\ ToSet(seq) = more
    BY <2>4, RowsInOrder
  <2>6. Steps(a, "groupRules", e) /\ c.pc = "groupRules" /\ c.user = u
    BY <2>1 DEF Steps
  <2> HIDE DEF c
  <2>7. c.rules \in Seq(Rule) /\ seq \in Seq(Rule)
    BY <1>0, <2>2, <2>5 DEF Ask
  <2>8. all \in Seq(Rule)
    BY <2>7
  <2>9. ToSet(all) = ToSet(c.rules) \cup more
    <3>1. /\ Len(all) = Len(c.rules) + Len(seq) /\ Len(c.rules) \in Nat /\ Len(seq) \in Nat
          /\ DOMAIN all = 1..Len(all) /\ DOMAIN c.rules = 1..Len(c.rules) /\ DOMAIN seq = 1..Len(seq)
      BY <2>7, <2>8
    <3>2. \A i \in 1..Len(c.rules) : i \in 1..Len(all) /\ all[i] = c.rules[i]
      BY <2>7, <3>1
    <3>3. \A i \in 1..Len(seq) : i + Len(c.rules) \in 1..Len(all) /\ all[i + Len(c.rules)] = seq[i]
      BY <2>7, <3>1
    <3>4. \A i \in 1..Len(all) : i \in 1..Len(c.rules) \/ i - Len(c.rules) \in 1..Len(seq)
      BY <3>1
    <3>5. \A i \in 1..Len(all) : i - Len(c.rules) \in 1..Len(seq) => all[i] = seq[i - Len(c.rules)]
      BY <2>7, <3>1
    <3>6. /\ ToSet(all) = {all[i] : i \in 1..Len(all)} /\ ToSet(c.rules) = {c.rules[i] : i \in 1..Len(c.rules)}
          /\ more = {seq[i] : i \in 1..Len(seq)}
      BY <2>5, <3>1 DEF ToSet
    <3> HIDE DEF all
    <3>7. ASSUME NEW r \in ToSet(all) PROVE r \in ToSet(c.rules) \cup more
      BY SMTT(30), <3>2, <3>4, <3>5, <3>6
    <3>8. ASSUME NEW r \in ToSet(c.rules) \cup more PROVE r \in ToSet(all)
      <4>1. CASE r \in ToSet(c.rules)
        BY <3>2, <3>6, <4>1
      <4>2. CASE r \in more
        BY <3>3, <3>6, <4>2
      <4> QED
        BY <4>1, <4>2
    <3> QED
      BY <3>7, <3>8
  <2>10. e = [c EXCEPT !.rules = all, !.pc = "owners"]
    OBVIOUS
  <2> HIDE DEF e, all
  <2>11. /\ e \in Ask /\ SameQuestion(c, e) /\ e.pc = "owners" /\ e.groups = c.groups /\ e.rules = all
         /\ e.truths = c.truths /\ e.changes = c.changes
    BY <1>0, <2>8, <2>10 DEF Ask, SameQuestion
  <2>12. \A r \in ToSet(c.rules) : r.kind = "user" /\ r.sid = u
    BY <1>0, <2>6 DEF QuestionOK
  <2>13. \A r \in more : r.kind = "group"
    BY <2>3 DEF SharedRules
  <2>14. OwnRules(ToSet(all), u) = OwnRules(ToSet(c.rules), u) /\ GroupRules(ToSet(all)) = more
    BY <2>9, <2>12, <2>13 DEF OwnRules, GroupRules
  <2>15. GroupsSeen(e, db) = GroupsSeen(c, db)
    BY <2>6, <2>11 DEF GroupsSeen
  <2>16. OwnSeen(e, db) = OwnSeen(c, db)
    BY <2>6, <2>11, <2>14 DEF OwnSeen, SameQuestion
  <2>17. SharedSeen(e, db) = SharedSeen(c, db)
    BY <2>3, <2>6, <2>11, <2>14 DEF SharedSeen, GroupsSeen
  <2>18. \A r \in ToSet(e.rules) : r.kind = "user" => r.sid = c.user
    BY <2>6, <2>9, <2>11, <2>12, <2>13
  <2>19. ~Early(c)
    BY <1>0, <2>6 DEF QuestionOK
  <2>20. QuestionOK(e, db)
    BY <1>0, <2>6, <2>11, <2>15, <2>16, <2>17, <2>18, <2>19, LoadedIsWell
  <2> QED
    BY <1>1, <2>6, <2>20
<1>6. CASE LoadOwnership(a)
  <2> DEFINE owned == db.owners[c.path] = u
             verdict == Answer(c, c.rules, owned)
  <2>1. Steps(a, "owners", Answered(c, verdict)) /\ c.pc = "owners" /\ c.user = u
    BY <1>6 DEF LoadOwnership, Steps
  <2> HIDE DEF c
  <2>2. \A r \in ToSet(c.rules) : r.kind = "user" => r.sid = u
    BY <1>0, <2>1 DEF QuestionOK
  <2>3. \A r \in ToSet(c.rules) : r.kind \in {"user", "group"}
    <3>1. c.rules \in Seq(Rule)
      BY <1>0 DEF Ask
    <3>2. \A i \in DOMAIN c.rules : c.rules[i] \in Rule
      BY <3>1
    <3> QED
      BY <3>2 DEF ToSet, Rule, Kind
  <2>4. OwnSeen(c, db) \cup SharedSeen(c, db) = ToSet(c.rules)
    BY <2>1, <2>2, <2>3 DEF OwnSeen, SharedSeen, OwnRules, GroupRules
  <2>5. ~Early(c)
    BY <1>0, <2>1 DEF QuestionOK
  <2>6. verdict <=> Coming(c, db)
    BY <1>0, <2>1, <2>4, <2>5, AnswerIsRight DEF Coming
  <2>7. verdict \in BOOLEAN
    <3>1. c.what \in {"permitted", "list", "show"}
      BY <1>0 DEF Ask
    <3>2. CASE c.what = "permitted"
      BY <3>2 DEF Answer, Permitted
    <3>3. CASE c.what = "list"
      BY <3>3 DEF Answer, CanList
    <3>4. CASE c.what = "show"
      BY <3>4 DEF Answer, VisibleChild
    <3> QED
      BY <3>1, <3>2, <3>3, <3>4
  <2> HIDE DEF verdict
  <2>8. QuestionOK(Answered(c, verdict), db)
    BY <1>0, <2>1, <2>6, <2>7, AnsweredIsWell
  <2> QED
    BY <1>1, <2>1, <2>8
<1> QED
  BY <1>2, <1>3, <1>4, <1>5, <1>6 DEF Question

------------------------------------------------------------------------------
(* The rules and the handlers.                                             *)

\* The parts of the inductive invariant.
LEMMA Parts ==
  IInv <=> Typed /\ RuleStaysWithItsSubject /\ QuestionsOK
  BY DEF IInv, Typed, QuestionsOK

\* The parts of the inductive invariant, after a step.
LEMMA Assembled ==
  ASSUME born' \in 2..MaxBirths, Kept(db', born'), call' \in [Admin -> Call],
         \A q \in Admin : CallOK(call'[q]), RuleStaysWithItsSubject', QuestionsOK'
  PROVE  IInv'
  BY DEF IInv, Typed, QuestionsOK

\* A handler goes on, and the others stay.
LEMMA CallGoes ==
  ASSUME Typed, NEW q \in Admin, NEW c, CallOK(c), call' = [call EXCEPT ![q] = c]
  PROVE  /\ call' \in [Admin -> Call] /\ \A o \in Admin : CallOK(call'[o])
         /\ \A o \in Admin : call'[o] = IF o = q THEN c ELSE call[o]
<1>1. c \in Call
  BY DEF CallOK
<1>2. call' \in [Admin -> Call] /\ \A o \in Admin : call'[o] = IF o = q THEN c ELSE call[o]
  BY <1>1 DEF Typed
<1> QED
  BY <1>2 DEF Typed

\* A handler that is idle, or goes to its second statement, is as it should be.
LEMMA IdleIsOK ==
  CallOK(Idle) /\ Idle.pc = "idle" /\ Idle.kind = "user"
<1>1. 1 \in User \cup Group
  BY AclAssumption
<1> QED
  BY <1>1 DEF Idle, Call, Kind, CallOK

\* So is one that is about to write a rule,
LEMMA GrantIsOK ==
  ASSUME NEW row, Proper(row), NEW c, c = [Idle EXCEPT !.pc = "grant", !.row = row]
  PROVE  CallOK(c) /\ c.pc = "grant"
  BY IdleIsOK DEF CallOK, Call, Proper

\* one that has deleted a group,
LEMMA GroupGoes ==
  ASSUME NEW g \in Group, NEW c, c = [Idle EXCEPT !.pc = "revokeAll", !.kind = "group", !.sid = g]
  PROVE  CallOK(c) /\ c.pc = "revokeAll" /\ c.kind = "group" /\ c.sid = g
  BY IdleIsOK DEF CallOK, Call, Kind

\* one that has looked an account up,
LEMMA UserIsFound ==
  ASSUME NEW u \in User, NEW c, c = [Idle EXCEPT !.pc = "deleteUser", !.sid = u]
  PROVE  CallOK(c) /\ c.pc = "deleteUser" /\ c.kind = "user" /\ c.sid = u
  BY IdleIsOK DEF CallOK, Call, Kind

\* and one that has deleted it.
LEMMA UserGoes ==
  ASSUME NEW b, CallOK(b), b.pc = "deleteUser", NEW c, c = [b EXCEPT !.pc = "revokeAll"]
  PROVE  CallOK(c) /\ c.pc = "revokeAll" /\ c.kind = b.kind /\ c.sid = b.sid
  BY DEF CallOK, Call, Kind

\* The handler o is about to remove the rules of the subject of r.
Removes(c, r) == c.pc = "revokeAll" /\ c.kind = r.kind /\ c.sid = r.sid

\* Where no rule is written, rules stay with their subjects as long as a subject that changes leaves a
\* handler behind to remove its rules.
LEMMA RulesStay ==
  ASSUME RuleStaysWithItsSubject, db'.acl \subseteq db.acl, failed \subseteq failed',
         \A r \in db'.acl : Birth(db, r.kind, r.sid) = r.for =>
            \/ Birth(db', r.kind, r.sid) = r.for
            \/ \E q \in Admin : Removes(call'[q], r),
         \A r \in db'.acl, q \in Admin : Removes(call[q], r) =>
            Removes(call'[q], r) \/ <<r.kind, r.sid>> \in failed'
  PROVE  RuleStaysWithItsSubject'
<1>1. ASSUME NEW r \in db'.acl
      PROVE  \/ Birth(db', r.kind, r.sid) = r.for
             \/ r.late \/ <<r.kind, r.sid>> \in failed'
             \/ \E q \in Admin : Removes(call'[q], r)
  BY DEF RuleStaysWithItsSubject, Removes
<1> QED
  BY <1>1 DEF RuleStaysWithItsSubject, Removes, Birth

\* A grant has looked its subject up.
LEMMA NextCheckSubject ==
  ASSUME IInv, NEW q \in Admin, NEW row \in NewRules, CheckSubject(q, row)
  PROVE  IInv'
<1> DEFINE s == IF row.kind = "user" THEN User ELSE Group
           for == Birth(db, row.kind, row.sid)
           new == [row EXCEPT !.for = for]
<1>1. /\ call' = [call EXCEPT ![q] = [Idle EXCEPT !.pc = "grant", !.row = new]]
      /\ UNCHANGED <<db, ask, changes, born, failed>> /\ call[q].pc = "idle" /\ for # 0
  BY DEF CheckSubject, Goes, MayStart, Free
<1>2. Proper(new)
  <2>1. /\ row \in [kind : Kind, sid : User \cup Group, path : Path, perms : SUBSET Bits \ {{}},
                    recursive : BOOLEAN, deny : BOOLEAN, for : {0}, late : {FALSE}]
        /\ row.sid \in s
    BY DEF NewRules
  <2>2. for \in 0..MaxBirths
    BY <2>1 DEF IInv, Typed, Kept, Tables, Birth, Kind
  <2> HIDE DEF for
  <2>3. new \in Rule /\ new.kind = row.kind /\ new.sid = row.sid /\ new.for = for
    BY <2>1, <2>2 DEF Rule
  <2> HIDE DEF new
  <2> QED
    BY <1>1, <2>1, <2>3 DEF Proper, for
<1> HIDE DEF new, for
<1> DEFINE c == [Idle EXCEPT !.pc = "grant", !.row = new]
<1>3. CallOK(c) /\ c.pc = "grant"
  BY <1>2, GrantIsOK
<1> HIDE DEF c
<1>4. /\ call' \in [Admin -> Call] /\ \A o \in Admin : CallOK(call'[o])
      /\ \A o \in Admin : call'[o] = IF o = q THEN c ELSE call[o]
  BY <1>1, <1>3, CallGoes DEF IInv, c
<1>5. RuleStaysWithItsSubject'
  <2>1. \A r \in db.acl, o \in Admin : Removes(call[o], r) => Removes(call'[o], r)
    BY <1>1, <1>4 DEF Removes
  <2> QED
    BY <1>1, <2>1, RulesStay DEF IInv, Birth
<1>6. QuestionsOK'
  BY <1>1, QuestionsOneByOne, Parts
<1> QED
  BY <1>1, <1>4, <1>5, <1>6, Parts, Assembled DEF Typed

\* A grant is written; if the subject it had looked up is another by now, the rule says so.
LEMMA NextGrant ==
  ASSUME IInv, \A a \in Asker : ask[a].pc # "done", NEW q \in Admin, Grant(q)
  PROVE  IInv'
<1> DEFINE old == call[q].row
           late == Birth(db, old.kind, old.sid) # old.for
           row == [old EXCEPT !.late = late]
           d == UpsertACL(db, row)
<1>1. Write(d) /\ call' = [call EXCEPT ![q] = Idle] /\ UNCHANGED <<born, failed>> /\ call[q].pc = "grant"
  BY DEF Grant, Goes
<1>2. Proper(old)
  BY <1>1 DEF IInv, Typed, CallOK
<1>3. late \in BOOLEAN
  OBVIOUS
<1>4. /\ Proper(row) /\ row.kind = old.kind /\ row.sid = old.sid /\ row.for = old.for /\ row.late = late
  <2> HIDE DEF late, old
  <2> QED
    BY <1>2, <1>3 DEF Proper, Rule
<1> HIDE DEF row
<1>5. /\ Kept(d, born') /\ Close(db, d) /\ d.users = db.users /\ d.groups = db.groups
      /\ d.acl \subseteq db.acl \cup {row}
  BY <1>1, <1>4, RuleGranted DEF IInv, Typed
<1> HIDE DEF d
<1>6. QuestionsOK' /\ db' = d
  BY <1>1, <1>5, QuestionsMeetAWrite, Parts
<1>7. /\ call' \in [Admin -> Call] /\ \A o \in Admin : CallOK(call'[o])
      /\ \A o \in Admin : call'[o] = IF o = q THEN Idle ELSE call[o]
  BY <1>1, IdleIsOK, CallGoes DEF IInv
<1>8. \A k, sid : Birth(d, k, sid) = Birth(db, k, sid)
  BY <1>5 DEF Birth
<1>9. ASSUME NEW r \in d.acl
      PROVE  \/ Birth(d, r.kind, r.sid) = r.for \/ r.late \/ <<r.kind, r.sid>> \in failed
             \/ \E o \in Admin : call'[o].pc = "revokeAll" /\ call'[o].kind = r.kind /\ call'[o].sid = r.sid
  <2>1. CASE r \in db.acl
    BY <1>1, <1>7, <1>8, <2>1 DEF IInv, RuleStaysWithItsSubject
  <2>2. CASE r = row
    BY <1>4, <1>8, <2>2
  <2> QED
    BY <1>5, <2>1, <2>2
<1>10. RuleStaysWithItsSubject'
  BY <1>1, <1>6, <1>9 DEF RuleStaysWithItsSubject, Birth
<1> QED
  BY <1>1, <1>5, <1>6, <1>7, <1>10, Assembled DEF IInv, Typed

\* One statement that writes no rule and changes no subject.
LEMMA OneStatement ==
  ASSUME IInv, \A a \in Asker : ask[a].pc # "done", NEW d, Write(d), UNCHANGED <<call, failed>>,
         born' \in 2..MaxBirths, Kept(d, born'), Close(db, d), d.acl \subseteq db.acl,
         \A u \in User : db.users[u] # 0 => d.users[u] = db.users[u],
         \A g \in Group : db.groups[g] # 0 => d.groups[g] = db.groups[g]
  PROVE  IInv'
<1>1. QuestionsOK' /\ db' = d
  BY QuestionsMeetAWrite, Parts
<1>2. ASSUME NEW r \in d.acl, Birth(db, r.kind, r.sid) = r.for PROVE Birth(d, r.kind, r.sid) = r.for
  <2>1. Proper(r)
    BY DEF Kept
  <2> QED
    BY <1>2, <2>1 DEF Birth, Proper
<1>3. RuleStaysWithItsSubject'
  BY <1>1, <1>2, RulesStay DEF IInv
<1> QED
  BY <1>1, <1>3, Assembled DEF IInv, Typed

\* A rule is revoked.
LEMMA NextRevoke ==
  ASSUME IInv, \A a \in Asker : ask[a].pc # "done", NEW q \in Admin, Revoke(q)
  PROVE  IInv'
<1>1. PICK row \in db.acl : Write(DeleteACL(db, row)) /\ UNCHANGED <<born, call, failed>>
  BY DEF Revoke, Stays
<1> DEFINE rows == db.acl \ {row}
           d == [db EXCEPT !.acl = rows]
<1>2. Kept(db, born) /\ born \in 2..MaxBirths /\ born \in Nat /\ row.kind \in Kind
  BY DEF IInv, Typed, Kept, Proper, Rule
<1>3. rows \in SUBSET db.acl /\ \A r \in db.acl \ rows : r.kind = row.kind
  OBVIOUS
<1>4. DeleteACL(db, row) = d
  BY DEF DeleteACL
<1> HIDE DEF rows
<1>5. Kept(d, born) /\ Close(db, d) /\ d.acl = rows /\ d.users = db.users /\ d.groups = db.groups
  BY <1>2, <1>3, RulesDropped
<1> HIDE DEF d
<1> QED
  BY <1>1, <1>2, <1>3, <1>4, <1>5, OneStatement

\* A group comes or goes, or an account; a number that is given out was free.
LEMMA NextMake ==
  ASSUME IInv, \A a \in Asker : ask[a].pc # "done", NEW q \in Admin, Make(q)
  PROVE  IInv'
<1>1. born < MaxBirths /\ born' = born + 1 /\ UNCHANGED <<call, failed>>
  BY DEF Make
<1>2. Kept(db, born) /\ born \in Nat /\ born' \in 2..MaxBirths
  BY <1>1, AclAssumption DEF IInv, Typed
<1>3. CASE FreshNumber(db.users) \in User /\ Write(CreateUser(db, born + 1))
  <2> DEFINE d == CreateUser(db, born + 1)
  <2>1. /\ Kept(d, born + 1) /\ Close(db, d) /\ d.acl = db.acl /\ d.groups = db.groups
        /\ \A u \in User : db.users[u] # 0 => d.users[u] = db.users[u]
    BY <1>1, <1>2, <1>3, UserMade
  <2> HIDE DEF d
  <2> QED
    BY <1>1, <1>2, <1>3, <2>1, OneStatement DEF d
<1>4. CASE FreshNumber(db.groups) \in Group /\ Write(CreateGroup(db, born + 1))
  <2> DEFINE d == CreateGroup(db, born + 1)
  <2>1. /\ Kept(d, born + 1) /\ Close(db, d) /\ d.acl = db.acl /\ d.users = db.users
        /\ \A g \in Group : db.groups[g] # 0 => d.groups[g] = db.groups[g]
    BY <1>1, <1>2, <1>4, GroupMade
  <2> HIDE DEF d
  <2> QED
    BY <1>1, <1>2, <1>4, <2>1, OneStatement DEF d
<1> QED
  BY <1>3, <1>4 DEF Make

\* A member is added, or removed, in one statement.
LEMMA NextMembership ==
  ASSUME IInv, \A a \in Asker : ask[a].pc # "done", NEW q \in Admin, NEW g \in Group, NEW u \in User,
         Membership(q, g, u)
  PROVE  IInv'
<1>1. PICK d : /\ Write(d) /\ UNCHANGED <<born, call, failed>>
               /\ \/ db.groups[g] # 0 /\ db.users[u] # 0 /\ d = AddGroupMember(db, g, u)
                  \/ d = RemoveGroupMember(db, g, u)
  BY DEF Membership, Stays
<1>2. Kept(db, born) /\ born \in Nat /\ born \in 2..MaxBirths
  BY DEF IInv, Typed
<1>3. Kept(d, born) /\ Close(db, d) /\ d.acl = db.acl /\ d.users = db.users /\ d.groups = db.groups
  BY <1>1, <1>2, MembershipWritten
<1> QED
  BY <1>1, <1>2, <1>3, OneStatement

\* A role is changed in one statement.
LEMMA NextPromote ==
  ASSUME IInv, \A a \in Asker : ask[a].pc # "done", NEW q \in Admin, NEW u \in User, Promote(q, u)
  PROVE  IInv'
<1> DEFINE flag == u \notin db.admins
           d == SetUserAdmin(db, u, flag)
<1>1. db.users[u] # 0 /\ Write(d) /\ UNCHANGED <<born, call, failed>>
  BY DEF Promote, Stays
<1>2. Kept(db, born) /\ born \in Nat /\ born \in 2..MaxBirths /\ flag \in BOOLEAN
  BY DEF IInv, Typed
<1> HIDE DEF flag
<1>3. Kept(d, born) /\ Close(db, d) /\ d.acl = db.acl /\ d.users = db.users /\ d.groups = db.groups
  BY <1>1, <1>2, RoleWritten
<1> HIDE DEF d
<1> QED
  BY <1>1, <1>2, <1>3, OneStatement

\* An owner is written, or forgotten, in one statement.
LEMMA NextOwn ==
  ASSUME IInv, \A a \in Asker : ask[a].pc # "done", NEW q \in Admin, NEW p \in Path, NEW u \in User, Own(q, p, u)
  PROVE  IInv'
<1>1. PICK d : /\ Write(d) /\ UNCHANGED <<born, call, failed>>
               /\ (db.users[u] # 0 /\ d = SetFileOwner(db, p, u)) \/ d = DeleteFileOwner(db, p)
  BY DEF Own, Stays
<1>2. Kept(db, born) /\ born \in Nat /\ born \in 2..MaxBirths
  BY DEF IInv, Typed
<1>3. Kept(d, born) /\ Close(db, d) /\ d.acl = db.acl /\ d.users = db.users /\ d.groups = db.groups
  BY <1>1, <1>2, OwnerWritten
<1> QED
  BY <1>1, <1>2, <1>3, OneStatement

\* An account is looked up before it is deleted.
LEMMA NextFindUser ==
  ASSUME IInv, NEW q \in Admin, NEW u \in User, FindUser(q, u)
  PROVE  IInv'
<1> DEFINE c == [Idle EXCEPT !.pc = "deleteUser", !.sid = u]
<1>1. call' = [call EXCEPT ![q] = c] /\ UNCHANGED <<db, ask, changes, born, failed>> /\ call[q].pc = "idle"
  BY DEF FindUser, Goes, MayStart, Free
<1>2. CallOK(c)
  BY UserIsFound
<1> HIDE DEF c
<1>3. /\ call' \in [Admin -> Call] /\ \A o \in Admin : CallOK(call'[o])
      /\ \A o \in Admin : call'[o] = IF o = q THEN c ELSE call[o]
  BY <1>1, <1>2, CallGoes DEF IInv
<1>4. RuleStaysWithItsSubject'
  <2>1. \A r \in db.acl, o \in Admin : Removes(call[o], r) => Removes(call'[o], r)
    BY <1>1, <1>3 DEF Removes
  <2> QED
    BY <1>1, <2>1, RulesStay DEF IInv, Birth
<1>5. QuestionsOK'
  BY <1>1, QuestionsOneByOne, Parts
<1> QED
  BY <1>1, <1>3, <1>4, <1>5, Parts, Assembled DEF Typed

\* An account's row goes, and its rules are to follow.
LEMMA NextRemoveUser ==
  ASSUME IInv, \A a \in Asker : ask[a].pc # "done", NEW q \in Admin, RemoveUser(q)
  PROVE  IInv'
<1> DEFINE u == call[q].sid
           d == DeleteUser(db, u)
           c == [call[q] EXCEPT !.pc = "revokeAll"]
<1>1. Write(d) /\ call' = [call EXCEPT ![q] = c] /\ UNCHANGED <<born, failed>> /\ call[q].pc = "deleteUser"
  BY DEF RemoveUser, Goes
<1>2. Kept(db, born) /\ born \in Nat /\ born \in 2..MaxBirths /\ CallOK(call[q])
  BY DEF IInv, Typed
<1>3. u \in User /\ call[q].kind = "user"
  BY <1>1, <1>2 DEF CallOK
<1>4. CallOK(c) /\ c.pc = "revokeAll" /\ c.kind = "user" /\ c.sid = u
  BY <1>1, <1>2, <1>3, UserGoes
<1> HIDE DEF c
<1>5. /\ Kept(d, born) /\ Close(db, d) /\ d.acl = db.acl /\ d.groups = db.groups
      /\ \A v \in User : v # u => d.users[v] = db.users[v]
  BY <1>2, <1>3, UserDeleted
<1> HIDE DEF d
<1>6. QuestionsOK' /\ db' = d
  BY <1>1, <1>5, QuestionsMeetAWrite, Parts
<1>7. /\ call' \in [Admin -> Call] /\ \A o \in Admin : CallOK(call'[o])
      /\ \A o \in Admin : call'[o] = IF o = q THEN c ELSE call[o]
  BY <1>1, <1>4, CallGoes DEF IInv
<1>8. ASSUME NEW r \in d.acl, Birth(db, r.kind, r.sid) = r.for
      PROVE  Birth(d, r.kind, r.sid) = r.for \/ \E o \in Admin : Removes(call'[o], r)
  <2>1. Proper(r) /\ r.kind \in {"user", "group"}
    BY <1>5 DEF Kept, Proper, Rule, Kind
  <2>2. CASE r.kind = "user" /\ r.sid = u
    BY <1>4, <1>7, <2>2 DEF Removes
  <2>3. CASE ~(r.kind = "user" /\ r.sid = u)
    BY <1>5, <1>8, <2>1, <2>3 DEF Birth, Proper
  <2> QED
    BY <2>2, <2>3
<1>9. \A r \in d.acl, o \in Admin : Removes(call[o], r) => Removes(call'[o], r)
  BY <1>1, <1>7 DEF Removes
<1>10. RuleStaysWithItsSubject'
  BY <1>1, <1>5, <1>6, <1>8, <1>9, RulesStay DEF IInv
<1> QED
  BY <1>1, <1>2, <1>5, <1>6, <1>7, <1>10, Assembled

\* So with a group.
LEMMA NextRemoveGroup ==
  ASSUME IInv, \A a \in Asker : ask[a].pc # "done", NEW q \in Admin, NEW g \in Group, RemoveGroup(q, g)
  PROVE  IInv'
<1> DEFINE d == DeleteGroup(db, g)
           c == [Idle EXCEPT !.pc = "revokeAll", !.kind = "group", !.sid = g]
<1>1. Write(d) /\ call' = [call EXCEPT ![q] = c] /\ UNCHANGED <<born, failed>> /\ call[q].pc = "idle"
  BY DEF RemoveGroup, Goes, MayStart, Free
<1>2. Kept(db, born) /\ born \in Nat /\ born \in 2..MaxBirths
  BY DEF IInv, Typed
<1>3. CallOK(c) /\ c.pc = "revokeAll" /\ c.kind = "group" /\ c.sid = g
  BY GroupGoes
<1> HIDE DEF c
<1>4. /\ Kept(d, born) /\ Close(db, d) /\ d.acl = db.acl /\ d.users = db.users
      /\ \A h \in Group : h # g => d.groups[h] = db.groups[h]
  BY <1>2, GroupDeleted
<1> HIDE DEF d
<1>5. QuestionsOK' /\ db' = d
  BY <1>1, <1>4, QuestionsMeetAWrite, Parts
<1>6. /\ call' \in [Admin -> Call] /\ \A o \in Admin : CallOK(call'[o])
      /\ \A o \in Admin : call'[o] = IF o = q THEN c ELSE call[o]
  BY <1>1, <1>3, CallGoes DEF IInv
<1>7. ASSUME NEW r \in d.acl, Birth(db, r.kind, r.sid) = r.for
      PROVE  Birth(d, r.kind, r.sid) = r.for \/ \E o \in Admin : Removes(call'[o], r)
  <2>1. Proper(r) /\ r.kind \in {"user", "group"}
    BY <1>4 DEF Kept, Proper, Rule, Kind
  <2>2. CASE r.kind = "group" /\ r.sid = g
    BY <1>3, <1>6, <2>2 DEF Removes
  <2>3. CASE ~(r.kind = "group" /\ r.sid = g)
    BY <1>4, <1>7, <2>1, <2>3 DEF Birth, Proper
  <2> QED
    BY <2>2, <2>3
<1>8. \A r \in d.acl, o \in Admin : Removes(call[o], r) => Removes(call'[o], r)
  BY <1>1, <1>6 DEF Removes
<1>9. RuleStaysWithItsSubject'
  BY <1>1, <1>4, <1>5, <1>7, <1>8, RulesStay DEF IInv
<1> QED
  BY <1>1, <1>2, <1>4, <1>5, <1>6, <1>9, Assembled

\* The rules of a subject follow its row.
LEMMA NextRevokeAllForSubject ==
  ASSUME IInv, \A a \in Asker : ask[a].pc # "done", NEW q \in Admin, RevokeAllForSubject(q)
  PROVE  IInv'
<1> DEFINE k == call[q].kind
           rows == {r \in db.acl : ~(r.kind = k /\ r.sid = call[q].sid)}
           d == [db EXCEPT !.acl = rows]
<1>1. Write(d) /\ call' = [call EXCEPT ![q] = Idle] /\ UNCHANGED <<born, failed>>
  BY DEF RevokeAllForSubject, Goes, DeleteACLForSubject
<1>2. Kept(db, born) /\ born \in Nat /\ born \in 2..MaxBirths /\ k \in Kind
  BY DEF IInv, Typed, Call
<1>3. rows \in SUBSET db.acl /\ \A r \in db.acl \ rows : r.kind = k
  OBVIOUS
<1>4. Kept(d, born) /\ Close(db, d) /\ d.acl = rows /\ d.users = db.users /\ d.groups = db.groups
  <2> HIDE DEF rows, k
  <2> QED
    BY <1>2, <1>3, RulesDropped
<1> HIDE DEF d
<1>5. QuestionsOK' /\ db' = d
  BY <1>1, <1>4, QuestionsMeetAWrite, Parts
<1>6. /\ call' \in [Admin -> Call] /\ \A o \in Admin : CallOK(call'[o])
      /\ \A o \in Admin : call'[o] = IF o = q THEN Idle ELSE call[o]
  BY <1>1, IdleIsOK, CallGoes DEF IInv
<1>7. \A r \in d.acl, o \in Admin : Removes(call[o], r) => Removes(call'[o], r)
  BY <1>4, <1>6 DEF Removes
<1>8. RuleStaysWithItsSubject'
  BY <1>1, <1>3, <1>4, <1>5, <1>7, RulesStay DEF IInv, Birth
<1> QED
  BY <1>1, <1>2, <1>4, <1>5, <1>6, <1>8, Assembled

\* If they do not, that is recorded.
LEMMA NextFail ==
  ASSUME IInv, NEW q \in Admin, Fail(q)
  PROVE  IInv'
<1>1. /\ call' = [call EXCEPT ![q] = Idle] /\ UNCHANGED <<db, born, ask, changes>>
      /\ failed' = failed \cup {<<call[q].kind, call[q].sid>>}
  BY DEF Fail
<1>2. /\ call' \in [Admin -> Call] /\ \A o \in Admin : CallOK(call'[o])
      /\ \A o \in Admin : call'[o] = IF o = q THEN Idle ELSE call[o]
  BY <1>1, IdleIsOK, CallGoes DEF IInv
<1>3. \A r \in db.acl, o \in Admin : Removes(call[o], r) => Removes(call'[o], r) \/ <<r.kind, r.sid>> \in failed'
  BY <1>1, <1>2 DEF Removes
<1>4. RuleStaysWithItsSubject'
  BY <1>1, <1>3, RulesStay DEF IInv, Birth
<1>5. QuestionsOK'
  BY <1>1, QuestionsOneByOne, Parts
<1> QED
  BY <1>1, <1>2, <1>4, <1>5, Parts, Assembled DEF Typed

\* The tables begin with one account, one group and rules about them.
LEMMA InitIInv ==
  ASSUME Init PROVE IInv
<1> DEFINE Written(r) == [r EXCEPT !.for = IF r.kind = "user" THEN 1 ELSE 2]
           about == {Written(r) : r \in {s \in NewRules : s.sid = 1}}
<1>1. PICK owned \in SUBSET Path, rows \in SUBSET about :
        /\ IsFiniteSet(rows) /\ \A r, s \in rows : Key(r) = Key(s) => r = s
        /\ db = [users |-> [u \in User |-> IF u = 1 THEN 1 ELSE 0], admins |-> {},
                 groups |-> [g \in Group |-> IF g = 1 THEN 2 ELSE 0], members |-> {<<1, 1>>},
                 acl |-> rows, owners |-> [p \in Path |-> IF p \in owned THEN 1 ELSE 0]]
  <2>1. \A S, n : kSubset(n, S) \subseteq SUBSET S
    BY DEF kSubset
  <2>2. PICK owned \in SUBSET {p \in Path : Len(p) = 2}, rows \in UNION {kSubset(n, about) : n \in 0..MaxStart} :
          /\ IsFiniteSet(rows) /\ \A r, s \in rows : Key(r) = Key(s) => r = s
          /\ db = [users |-> [u \in User |-> IF u = 1 THEN 1 ELSE 0], admins |-> {},
                   groups |-> [g \in Group |-> IF g = 1 THEN 2 ELSE 0], members |-> {<<1, 1>>},
                   acl |-> rows, owners |-> [p \in Path |-> IF p \in owned THEN 1 ELSE 0]]
    BY DEF Init
  <2> HIDE DEF about
  <2>3. rows \in SUBSET about /\ owned \in SUBSET Path
    BY <2>1
  <2> QED
    BY <2>2, <2>3
<1>2. born = 2 /\ ask = [a \in Asker |-> NoQuestion] /\ call = [q \in Admin |-> Idle]
  BY DEF Init
<1>3. 1 \in User /\ 1 \in Group /\ 0 \in 0..MaxBirths /\ 1 \in 0..MaxBirths /\ 2 \in 0..MaxBirths /\ 2 \in 2..MaxBirths
  BY AclAssumption
<1>4. ASSUME NEW r \in about
      PROVE  Proper(r) /\ r.sid = 1 /\ r.for = IF r.kind = "user" THEN 1 ELSE 2
  <2>1. PICK s \in NewRules : s.sid = 1 /\ r = Written(s)
    BY <1>4
  <2> DEFINE for == IF s.kind = "user" THEN 1 ELSE 2
  <2>2. for \in 0..MaxBirths /\ for # 0 /\ r = [s EXCEPT !.for = for]
    BY <1>3, <2>1
  <2>3. /\ s \in [kind : Kind, sid : User \cup Group, path : Path, perms : SUBSET Bits \ {{}},
                  recursive : BOOLEAN, deny : BOOLEAN, for : {0}, late : {FALSE}]
    BY DEF NewRules
  <2> HIDE DEF for, about, Written
  <2>4. r \in Rule /\ r.kind = s.kind /\ r.sid = s.sid /\ r.for = for
    BY <2>2, <2>3 DEF Rule
  <2> QED
    BY <1>3, <2>1, <2>2, <2>4 DEF Proper, for
<1> HIDE DEF about
<1>5. /\ db.users = [u \in User |-> IF u = 1 THEN 1 ELSE 0] /\ db.admins = {}
      /\ db.groups = [g \in Group |-> IF g = 1 THEN 2 ELSE 0] /\ db.members = {<<1, 1>>} /\ db.acl = rows
      /\ db.owners = [p \in Path |-> IF p \in owned THEN 1 ELSE 0]
  BY <1>1
<1>6. db \in Tables
  <2>1. /\ [u \in User |-> IF u = 1 THEN 1 ELSE 0] \in [User -> 0..MaxBirths]
        /\ [g \in Group |-> IF g = 1 THEN 2 ELSE 0] \in [Group -> 0..MaxBirths]
        /\ {<<1, 1>>} \in SUBSET (Group \X User) /\ {} \in SUBSET User
        /\ [p \in Path |-> IF p \in owned THEN 1 ELSE 0] \in [Path -> User \cup {0}]
    BY <1>3
  <2>2. rows \in SUBSET Rule
    BY <1>4 DEF Proper
  <2> QED
    BY <1>1, <2>1, <2>2 DEF Tables
<1>7. Kept(db, born)
  <2>1. \A u \in User : db.users[u] <= born /\ (db.users[u] # 0 <=> u = 1)
    BY <1>2, <1>5
  <2>2. \A m \in db.members : db.groups[m[1]] # 0 /\ db.users[m[2]] # 0
    BY <1>3, <1>5
  <2>3. \A p \in Path : db.owners[p] # 0 => db.users[db.owners[p]] # 0
    BY <1>3, <1>5
  <2>4. IsFiniteSet(db.acl) /\ (\A r \in db.acl : Proper(r)) /\ \A r, s \in db.acl : Key(r) = Key(s) => r = s
    BY <1>1, <1>4, <1>5
  <2> QED
    BY <1>5, <1>6, <2>1, <2>2, <2>3, <2>4 DEF Kept
<1>8. /\ call \in [Admin -> Call] /\ \A q \in Admin : CallOK(call[q])
  BY <1>2, IdleIsOK DEF CallOK
<1>9. NoQuestion \in Ask /\ NoQuestion.pc = "idle"
  <2>1. <<>> \in Seq(Rule) /\ <<>> \in Path /\ 1 \in User /\ "read" \in Bits
    BY AclAssumption
  <2> QED
    BY <2>1 DEF NoQuestion, Ask
<1>10. QuestionsOK
  BY <1>2, <1>9, QuestionsOneByOne, IdleIsWell
<1>11. RuleStaysWithItsSubject
  <2>1. ASSUME NEW r \in db.acl PROVE Birth(db, r.kind, r.sid) = r.for
    <3>1. Proper(r) /\ r.sid = 1 /\ r.for = IF r.kind = "user" THEN 1 ELSE 2
      BY <1>1, <1>4, <1>5
    <3> QED
      BY <1>3, <1>5, <3>1 DEF Birth
  <2> QED
    BY <2>1 DEF RuleStaysWithItsSubject
<1> QED
  BY <1>2, <1>3, <1>7, <1>8, <1>10, <1>11, Parts DEF Typed, QuestionsOK

\* Every step keeps the invariant.
LEMMA NextIInv ==
  ASSUME IInv, [Next]_vars PROVE IInv'
<1>1. ASSUME NEW a \in Asker, Question(a) PROVE IInv'
  <2>1. QuestionsOK' /\ UNCHANGED <<db, born, call, changes, failed>>
    BY <1>1, QuestionGoesOn, Parts
  <2>2. RuleStaysWithItsSubject'
    BY <2>1, RulesStay DEF IInv, Birth
  <2> QED
    BY <2>1, <2>2, Parts, Assembled DEF Typed
<1>2. ASSUME \A a \in Asker : ask[a].pc # "done", NEW q \in Admin, Handler(q) PROVE IInv'
  <2>1. ASSUME NEW row \in NewRules, CheckSubject(q, row) PROVE IInv'
    BY <2>1, NextCheckSubject
  <2>2. ASSUME NEW g \in Group, RemoveGroup(q, g) PROVE IInv'
    BY <1>2, <2>2, NextRemoveGroup
  <2>3. ASSUME NEW g \in Group, NEW u \in User, Membership(q, g, u) PROVE IInv'
    BY <1>2, <2>3, NextMembership
  <2>4. ASSUME NEW u \in User, FindUser(q, u) PROVE IInv'
    BY <2>4, NextFindUser
  <2>5. ASSUME NEW u \in User, Promote(q, u) PROVE IInv'
    BY <1>2, <2>5, NextPromote
  <2>6. ASSUME NEW u \in User, NEW p \in Path, Own(q, p, u) PROVE IInv'
    BY <1>2, <2>6, NextOwn
  <2>7. CASE Grant(q)
    BY <1>2, <2>7, NextGrant
  <2>8. CASE Revoke(q)
    BY <1>2, <2>8, NextRevoke
  <2>9. CASE RemoveUser(q)
    BY <1>2, <2>9, NextRemoveUser
  <2>10. CASE RevokeAllForSubject(q)
    BY <1>2, <2>10, NextRevokeAllForSubject
  <2>11. CASE Make(q)
    BY <1>2, <2>11, NextMake
  <2>12. CASE Fail(q)
    BY <2>12, NextFail
  <2> QED
    BY <1>2, <2>1, <2>2, <2>3, <2>4, <2>5, <2>6, <2>7, <2>8, <2>9, <2>10, <2>11, <2>12 DEF Handler
<1>3. CASE UNCHANGED vars
  <2>1. QuestionsOK' /\ RuleStaysWithItsSubject'
    <3>1. QuestionsOK'
      BY <1>3, QuestionsOneByOne, Parts DEF vars
    <3>2. RuleStaysWithItsSubject'
      BY <1>3, RulesStay DEF IInv, Birth, vars
    <3> QED
      BY <3>1, <3>2
  <2> QED
    BY <1>3, <2>1, Parts, Assembled DEF Typed, vars
<1> QED
  BY <1>1, <1>2, <1>3 DEF Next

\* The inductive invariant holds throughout: the tables refer to rows that exist, a question sees the tables
\* until a statement comes in between, and what it is about to answer is then the truth of before or after.
THEOREM AclInvariant == Spec => []IInv
  BY InitIInv, NextIInv, PTL DEF Spec

\* The tables keep their keys whatever the handlers do in whatever order: one rule a subject, path and sign,
\* members, administrators and owners that exist.
THEOREM TablesKeepTheirKeys == Spec => []AclTypeOK
<1>1. IInv => AclTypeOK
  <2> SUFFICES ASSUME IInv PROVE AclTypeOK
    OBVIOUS
  <2>1. db \in Tables /\ born \in 2..MaxBirths /\ Kept(db, born)
    BY DEF IInv, Typed, Kept
  <2>2. db.users \in [User -> 0..MaxBirths] /\ db.groups \in [Group -> 0..MaxBirths] /\ db.acl \subseteq Rule
    BY <2>1 DEF Tables
  <2>3. db.admins \subseteq {u \in User : db.users[u] # 0}
    BY <2>1 DEF Tables, Kept
  <2>4. \A p \in Path : db.owners[p] = 0 \/ db.users[db.owners[p]] # 0
    BY <2>1 DEF Kept
  <2>5. \A a \in Asker : ask[a].pc \in {"idle", "groups", "userRules", "groupRules", "owners", "done"}
    BY DEF IInv, Typed, Ask
  <2>6. \A q \in Admin : call[q].pc \in {"idle", "grant", "deleteUser", "revokeAll"}
    BY DEF IInv, Typed, Call
  <2> QED
    BY <2>1, <2>2, <2>3, <2>4, <2>5, <2>6 DEF AclTypeOK, Kept
<1> QED
  BY <1>1, AclInvariant, PTL

\* A rule never changes hands: numbers of accounts and groups are given out again, but a rule is held by the one
\* it was written for, or a handler is about to remove it, or a revocation failed, or a grant came late.
THEOREM RulesNeverChangeHands == Spec => []RuleStaysWithItsSubject
<1>1. IInv => RuleStaysWithItsSubject
  BY DEF IInv
<1> QED
  BY <1>1, AclInvariant, PTL

\* A verdict put together from four queries without a transaction is what the tables said at some moment of the
\* question, when one statement at most came in between.
THEOREM VerdictsAreOfAMoment == Spec => []VerdictOfAMoment
<1>1. IInv => VerdictOfAMoment
  BY DEF IInv
<1> QED
  BY <1>1, AclInvariant, PTL

------------------------------------------------------------------------------
(* What is granted can be reached.                                         *)

\* A prefix, name by name.
LEMMA PrefixByNames ==
  ASSUME NEW p \in Path, NEW q \in Path
  PROVE  /\ Len(p) \in Nat /\ Len(q) \in Nat
         /\ IsPrefix(p, q) <=> Len(p) <= Len(q) /\ \A i \in 1..Len(p) : p[i] = q[i]
         /\ p = q <=> Len(p) = Len(q) /\ \A i \in 1..Len(p) : p[i] = q[i]
<1> DEFINE Name == UNION {ToSet(r) : r \in Path}
<1>1. ASSUME NEW r \in Path PROVE r \in Seq(Name)
  <2>1. r \in Seq(ToSet(r)) /\ ToSet(r) \subseteq Name
    BY AclAssumption
  <2> HIDE DEF Name
  <2> QED
    BY <2>1
<1>2. p \in Seq(Name) /\ q \in Seq(Name)
  BY <1>1
<1> HIDE DEF Name
<1>3. Len(p) \in Nat /\ Len(q) \in Nat
  BY <1>2
<1>4. ASSUME NEW r \in Seq(Name), NEW n \in Nat, n <= Len(r)
      PROVE  /\ SubSeq(r, 1, n) \in Seq(Name) /\ Len(SubSeq(r, 1, n)) = n
             /\ \A i \in 1..n : SubSeq(r, 1, n)[i] = r[i]
  <2>1. \A i \in 1..n : r[i] \in Name
    BY <1>4
  <2>2. /\ SubSeq(r, 1, n) \in Seq(Name) /\ Len(SubSeq(r, 1, n)) = IF 1 <= n THEN n - 1 + 1 ELSE 0
        /\ \A i \in 1..(n - 1 + 1) : SubSeq(r, 1, n)[i] = r[1 + i - 1]
    BY <2>1, SubSeqProperties
  <2>3. \A i \in 1..n : 1 + i - 1 = i
    OBVIOUS
  <2> QED
    BY <2>2, <2>3
<1>5. ASSUME Len(p) <= Len(q)
      PROVE  SubSeq(p, 1, Len(p)) = SubSeq(q, 1, Len(p)) <=> \A i \in 1..Len(p) : p[i] = q[i]
  <2> DEFINE s == SubSeq(p, 1, Len(p))
             t == SubSeq(q, 1, Len(p))
  <2>1. /\ s \in Seq(Name) /\ t \in Seq(Name) /\ Len(s) = Len(p) /\ Len(t) = Len(p)
        /\ \A i \in 1..Len(p) : s[i] = p[i] /\ t[i] = q[i]
    BY <1>2, <1>3, <1>4, <1>5
  <2> HIDE DEF s, t
  <2>2. (\A i \in 1..Len(p) : p[i] = q[i]) => s = t
    BY <2>1, SeqEqual
  <2>3. s = t => \A i \in 1..Len(p) : p[i] = q[i]
    BY <2>1
  <2> QED
    BY <2>2, <2>3 DEF s, t
<1>6. p = q <=> Len(p) = Len(q) /\ \A i \in 1..Len(p) : p[i] = q[i]
  BY <1>2, SeqEqual
<1> QED
  BY <1>3, <1>5, <1>6 DEF IsPrefix

\* Of two prefixes of one path, the shorter is a prefix of the longer.
LEMMA PrefixesAreInLine ==
  ASSUME NEW p \in Path, NEW x \in Path, NEW y \in Path, IsPrefix(x, p), IsPrefix(y, p), Len(x) <= Len(y)
  PROVE  IsPrefix(x, y)
<1>1. /\ Len(x) \in Nat /\ Len(y) \in Nat /\ Len(p) \in Nat
      /\ \A i \in 1..Len(x) : x[i] = p[i]
      /\ \A i \in 1..Len(y) : y[i] = p[i]
  BY PrefixByNames
<1>2. \A i \in 1..Len(x) : i \in 1..Len(y)
  BY <1>1
<1>3. \A i \in 1..Len(x) : x[i] = y[i]
  BY <1>1, <1>2
<1> QED
  BY <1>3, PrefixByNames

\* A prefix of a prefix is a prefix.
LEMMA PrefixOfPrefix ==
  ASSUME NEW p \in Path, NEW x \in Path, NEW y \in Path, IsPrefix(x, y), IsPrefix(y, p)
  PROVE  IsPrefix(x, p)
<1>1. /\ Len(x) \in Nat /\ Len(y) \in Nat /\ Len(p) \in Nat /\ Len(x) <= Len(y) /\ Len(y) <= Len(p)
      /\ \A i \in 1..Len(x) : x[i] = y[i]
      /\ \A i \in 1..Len(y) : y[i] = p[i]
  BY PrefixByNames
<1>2. \A i \in 1..Len(x) : i \in 1..Len(y)
  BY <1>1
<1>3. Len(x) <= Len(p) /\ \A i \in 1..Len(x) : x[i] = p[i]
  BY <1>1, <1>2
<1> QED
  BY <1>3, PrefixByNames

\* A strict prefix is shorter.
LEMMA StrictIsShorter ==
  ASSUME NEW p \in Path, NEW x \in Path, IsPrefix(x, p)
  PROVE  /\ Len(x) \in Nat /\ Len(p) \in Nat /\ Len(x) <= Len(p)
         /\ x = p <=> Len(x) = Len(p)
  BY PrefixByNames

\* Where some rule speaks of a bit, the deepest of them decide.
LEMMA SomeRuleDecides ==
  ASSUME NEW rows, NEW b, NEW x \in Path, \A s \in rows : s.path \in Path, NEW r \in About(rows, b, x)
  PROVE  Deciding(rows, b, x) # {}
<1> DEFINE A == About(rows, b, x)
           T == {Len(x) - Depth(s.path) : s \in A}
<1>1. ASSUME NEW s \in A PROVE Depth(s.path) \in Nat /\ Len(x) \in Nat /\ Depth(s.path) <= Len(x)
  <2>1. (s.path \in Path /\ IsPrefix(s.path, x)) \/ s.path = x
    BY <1>1 DEF About, AppliesTo, IsStrictPrefix
  <2>2. s.path \in Path
    BY <1>1 DEF About
  <2> QED
    BY <2>1, <2>2, PrefixByNames DEF Depth
<1>2. T \in SUBSET Nat /\ T # {}
  BY <1>1
<1>3. PICK m \in T : \A k \in T : m <= k
  <2> HIDE DEF T
  <2> QED
    BY <1>2, LeastMember
<1>4. PICK s \in A : m = Len(x) - Depth(s.path)
  OBVIOUS
<1>5. ASSUME NEW t \in A PROVE Depth(t.path) <= Depth(s.path)
  <2>1. Len(x) - Depth(s.path) <= Len(x) - Depth(t.path)
    BY <1>3, <1>4, <1>5
  <2> QED
    BY <1>1, <2>1
<1>6. Deciding(rows, b, x) = {u \in A : \A t \in A : Depth(t.path) <= Depth(u.path)}
  BY DEF Deciding, About
<1> HIDE DEF A
<1> QED
  BY <1>4, <1>5, <1>6

\* A grant at p shows every folder above it, as long as denials are inherited.
LEMMA GrantShowsTheWay ==
  ASSUME NEW rows, \A s \in rows : s.path \in Path /\ (s.deny => s.recursive),
         NEW p \in Path, Deciding(rows, "read", p) # {}, Holds(rows, "read", p, FALSE),
         NEW x \in Path, IsStrictPrefix(x, p), NEW owned
  PROVE  LeadsTo(rows, x) \/ Holds(rows, "read", x, owned)
<1>1. PICK r \in Deciding(rows, "read", p) : ~r.deny
  BY DEF Holds
<1>2. r \in rows /\ "read" \in r.perms /\ AppliesTo(r, p) /\ r.path \in Path
  BY DEF Deciding
<1>3. IsPrefix(x, p) /\ x # p
  BY DEF IsStrictPrefix
<1>4. IsPrefix(r.path, p)
  <2>1. CASE r.path = p
    BY <2>1, PrefixByNames
  <2> QED
    BY <1>2, <2>1 DEF AppliesTo, IsStrictPrefix
<1>5. /\ Len(x) \in Nat /\ Len(r.path) \in Nat /\ Len(p) \in Nat /\ Len(x) < Len(p) /\ Len(r.path) <= Len(p)
  BY <1>2, <1>3, <1>4, StrictIsShorter
<1>6. CASE Len(x) < Len(r.path)
  <2>1. IsPrefix(x, r.path) /\ x # r.path
    BY <1>2, <1>3, <1>4, <1>5, <1>6, PrefixesAreInLine
  <2> QED
    BY <1>1, <1>2, <2>1 DEF LeadsTo, IsStrictPrefix
<1>7. CASE Len(r.path) <= Len(x)
  <2>1. IsPrefix(r.path, x)
    BY <1>2, <1>3, <1>4, <1>7, PrefixesAreInLine
  <2>2. r.path # p
    BY <1>5, <1>7
  <2>3. r \in About(rows, "read", x)
    BY <1>2, <2>1, <2>2 DEF About, AppliesTo, IsStrictPrefix
  <2>4. ASSUME NEW s \in Deciding(rows, "read", x), s.deny PROVE FALSE
    <3>1. /\ s \in rows /\ "read" \in s.perms /\ AppliesTo(s, x) /\ s.path \in Path /\ s.recursive
          /\ Depth(r.path) <= Depth(s.path)
      BY <2>3, <2>4 DEF Deciding, About
    <3>2. IsPrefix(s.path, x)
      <4>1. CASE s.path = x
        BY <4>1, PrefixByNames
      <4> QED
        BY <3>1, <4>1 DEF AppliesTo, IsStrictPrefix
    <3>3. IsPrefix(s.path, p)
      BY <1>3, <3>1, <3>2, PrefixOfPrefix
    <3>4. Len(s.path) \in Nat /\ Len(s.path) <= Len(x) /\ s.path # p
      <4>1. Len(s.path) \in Nat /\ Len(s.path) <= Len(x)
        BY <3>1, <3>2, StrictIsShorter
      <4> QED
        BY <1>5, <4>1
    <3>5. AppliesTo(s, p)
      BY <3>1, <3>3, <3>4 DEF AppliesTo, IsStrictPrefix
    <3>6. \A t \in rows : "read" \in t.perms /\ AppliesTo(t, p) => Depth(t.path) <= Depth(r.path)
      BY DEF Deciding
    <3>7. Depth(s.path) = Depth(r.path)
      BY <1>5, <3>1, <3>4, <3>5, <3>6 DEF Depth
    <3>8. s \in Deciding(rows, "read", p)
      BY <3>1, <3>5, <3>6, <3>7 DEF Deciding
    <3> QED
      BY <2>4, <3>8 DEF Holds
  <2>5. Deciding(rows, "read", x) # {}
    BY <2>3, SomeRuleDecides
  <2> QED
    BY <2>4, <2>5 DEF Holds
<1> QED
  BY <1>5, <1>6, <1>7

\* What a rule lets an account read can be reached by browsing: every folder above it is listed and shown, from
\* the tables as they are at any time, the rules being taken in the order SetToSeq chooses.
THEOREM GrantsAreReachable == Spec => []ReachableIsShown
<1>1. IInv => ReachableIsShown
  <2> SUFFICES ASSUME IInv, NEW u \in User, NEW p \in Path,
                      \A r \in RulesFor(db, u) : r.deny => r.recursive,
                      Deciding(RulesFor(db, u), "read", p) # {},
                      "read" \in Resolve(SetToSeq(RulesFor(db, u)), p, FALSE),
                      NEW x \in Path, IsStrictPrefix(x, p)
               PROVE  /\ CanList(SetToSeq(RulesFor(db, u)), x, db.owners[x] = u)
                      /\ VisibleChild(SetToSeq(RulesFor(db, u)), x, db.owners[x] = u)
    BY DEF ReachableIsShown
  <2> DEFINE rows == RulesFor(db, u)
             seq == SetToSeq(rows)
             owned == db.owners[x] = u
  <2>1. rows \in SUBSET db.acl /\ IsFiniteSet(db.acl) /\ \A r \in rows : r \in Rule
    BY DEF RulesFor, IInv, Typed, Kept, Tables
  <2> HIDE DEF rows
  <2>2. IsFiniteSet(rows)
    BY <2>1, FS_Subset
  <2>3. seq \in SetToSeqs(rows)
    BY <2>2, SomeOrder
  <2> HIDE DEF seq
  <2>4. Cardinality(rows) \in Nat /\ seq \in Seq(rows) /\ DOMAIN seq = 1..Cardinality(rows) /\ ToSet(seq) = rows
    BY <2>2, <2>3, RowsInOrder
  <2>5. \A i \in 1..Cardinality(rows) : Plain(seq[i])
    BY <2>1, <2>4, RulesArePlain
  <2>6. ASSUME NEW q \in Path, NEW o \in BOOLEAN PROVE "read" \in Resolve(seq, q, o) <=> Holds(rows, "read", q, o)
    <3>1. Resolve(seq, q, o) = {b \in Bits : Holds(rows, b, q, o)}
      BY <2>4, <2>5, ResolutionIsRight
    <3> QED
      BY <3>1, AclAssumption
  <2>7. \A s \in rows : s.path \in Path /\ (s.deny => s.recursive)
    BY <2>1 DEF rows, Rule
  <2>8. Holds(rows, "read", p, FALSE)
    <3>1. "read" \in Resolve(seq, p, FALSE)
      BY DEF seq, rows
    <3> QED
      BY <2>6, <3>1
  <2>9. Deciding(rows, "read", p) # {}
    BY DEF rows
  <2>10. LeadsTo(rows, x) \/ Holds(rows, "read", x, owned)
    <3> HIDE DEF owned
    <3> QED
      BY <2>7, <2>8, <2>9, GrantShowsTheWay
  <2>11. LeadsTo(rows, x) => HasReadUnder(seq, x)
    BY <2>4 DEF LeadsTo, HasReadUnder, IsStrictPrefix
  <2>12. Holds(rows, "read", x, owned) => "read" \in Resolve(seq, x, owned)
    BY <2>6
  <2>13. CanList(seq, x, owned) /\ VisibleChild(seq, x, owned)
    BY <2>10, <2>11, <2>12 DEF CanList, VisibleChild
  <2> QED
    BY <2>13 DEF seq, rows
<1> QED
  BY <1>1, AclInvariant, PTL
=============================================================================
