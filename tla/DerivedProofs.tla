--------------------------- MODULE DerivedProofs -----------------------------
(***************************************************************************)
(* Theorems about Derived for any archives, limits, stamps, jobs, readers  *)
(* and troubles.                                                           *)
(***************************************************************************)
EXTENDS Derived, TLAPS, WellFoundedInduction

Hashing == {"stat", "hash", "store"}
Unpacking == {"check", "header", "unpack", "remove", "own"}
JobState == [pc: {"idle"} \cup Hashing \cup Unpacking, holds: Contents, stamp: Stamps \cup {0}, sizes: Seq(Nat)]
ReaderState == [pc: {"idle", "row", "answered"}, saw: SUBSET Contents, stamp: Stamps \cup {0}, digest: Contents \cup {0}]
Row == [digest: Contents, stamp: Stamps \cup {0}]

Typed ==
  /\ file \in [holds: Contents, stamp: Stamps]
  /\ borne \in [stamps: SUBSET Stamps, twice: BOOLEAN]
  /\ cache \in SUBSET Row
  /\ place \in [is: {"nothing", "folder", "things", "tree"}, holds: Contents, sizes: Seq(Nat)]
  /\ owned \in BOOLEAN
  /\ job \in [Job -> JobState]
  /\ reader \in [Reader -> ReaderState]
  /\ troubles \in Nat

\* A digest d may go with the stamp s: if the file bears s now, d is of what it holds, and whoever asked while it
\* bore s has seen that content since.
MayGoWith(d, s) ==
  /\ s \in borne.stamps
  /\ s = file.stamp => d = file.holds
  /\ \A r \in Reader : reader[r].pc # "idle" /\ reader[r].stamp = s => d \in reader[r].saw

\* As long as no stamp is borne again, that is so of every row and of every digest that is about to become one.
StampsTell ==
  ~borne.twice =>
    /\ \A c \in cache : MayGoWith(c.digest, c.stamp)
    /\ \A j \in Job : job[j].pc = "hash" => job[j].stamp \in borne.stamps
    /\ \A j \in Job : job[j].pc = "store" => MayGoWith(job[j].holds, job[j].stamp)

\* A question that is still open has seen what the file holds now, and asks about a stamp it bore.
QuestionsSee ==
  /\ file.stamp \in borne.stamps
  /\ \A r \in Reader : reader[r].pc # "idle" =>
       file.holds \in reader[r].saw /\ reader[r].stamp \in borne.stamps

\* The entries that were unpacked have all their bytes, up to the one that was too long.
Whole(sizes, entries) ==
  /\ Len(sizes) <= Len(entries)
  /\ \A i \in 1..Len(sizes) : sizes[i] = entries[i].real
UnpacksInOrder ==
  \A j \in Job : job[j].pc = "unpack" => Whole(job[j].sizes, Archive(j)) /\ Written(job[j].sizes) <= Bytes

\* A job that has not unpacked anything has written nothing.
EmptyBefore == \A j \in Job : job[j].pc \notin {"unpack", "remove"} => job[j].sizes = <<>>

\* The inductive invariant.
IInv ==
  /\ Typed
  /\ StampsTell
  /\ QuestionsSee
  /\ DigestIsOfTheFile
  /\ UnpacksInOrder
  /\ EmptyBefore
  /\ TreesAreWhole
  /\ BytesAreBounded

------------------------------------------------------------------------------
(* What an extraction has written.                                         *)

\* A set of naturals has a least member.
LEMMA LeastMember ==
  ASSUME NEW T \in SUBSET Nat, T # {}
  PROVE  \E m \in T : \A k \in T : m <= k
<1> DEFINE R == OpToRel(<, Nat)
           N == Nat
<1>1. IsWellFoundedOn(R, N)
  BY NatLessThanWellFounded
<1>2. \A k, m \in Nat : <<k, m>> \in R <=> k < m
  BY DEF OpToRel
<1>3. T \subseteq N /\ T # {}
  OBVIOUS
<1> HIDE DEF R, N
<1>4. \E m \in T : \A k \in T : ~(<<k, m>> \in R)
  BY <1>1, <1>3, WFMin
<1> USE DEF N
<1>5. PICK m \in T : \A k \in T : ~(<<k, m>> \in R)
  BY <1>4
<1>6. ASSUME NEW k \in T PROVE m <= k
  <2>1. k \in Nat /\ m \in Nat
    OBVIOUS
  <2>2. ~(<<k, m>> \in R)
    BY <1>5
  <2>3. ~(k < m)
    BY <1>2, <2>1, <2>2
  <2> QED
    BY <2>1, <2>3
<1> QED
  BY <1>6

\* The sums of the first n sizes, from none of them on.
IsSum(f, sizes, n) ==
  /\ f = [i \in 0..n |-> f[i]]
  /\ \A i \in 0..n : f[i] = IF i = 0 THEN 0 ELSE f[i - 1] + sizes[i]

\* The sums of one more size.
LEMMA SumGrows ==
  ASSUME NEW sizes \in Seq(Nat), NEW n \in Nat, n + 1 <= Len(sizes), NEW f \in [0..n -> Nat], IsSum(f, sizes, n)
  PROVE  \E g \in [0..(n + 1) -> Nat] : IsSum(g, sizes, n + 1) /\ g[n + 1] = f[n] + sizes[n + 1]
<1> DEFINE g == [i \in 0..(n + 1) |-> IF i = n + 1 THEN f[n] + sizes[n + 1] ELSE f[i]]
<1>1. sizes[n + 1] \in Nat /\ f[n] \in Nat
  OBVIOUS
<1>2. g \in [0..(n + 1) -> Nat] /\ g[n + 1] = f[n] + sizes[n + 1]
  BY <1>1
<1>3. \A i \in 0..n : g[i] = f[i]
  OBVIOUS
<1>4. ASSUME NEW i \in 0..(n + 1) PROVE g[i] = IF i = 0 THEN 0 ELSE g[i - 1] + sizes[i]
  <2>1. CASE i = n + 1
    BY <1>2, <1>3, <2>1
  <2>2. CASE i # n + 1
    <3>1. i \in 0..n /\ (i # 0 => i - 1 \in 0..n)
      BY <2>2
    <3> QED
      BY <1>3, <3>1 DEF IsSum
  <2> QED
    BY <2>1, <2>2
<1>5. g = [i \in 0..(n + 1) |-> g[i]]
  OBVIOUS
<1> HIDE DEF g
<1>6. IsSum(g, sizes, n + 1)
  BY <1>4, <1>5 DEF IsSum
<1> QED
  BY <1>2, <1>6

\* Every sequence of sizes has its sums.
LEMMA SumsExist ==
  ASSUME NEW sizes \in Seq(Nat)
  PROVE  \E f \in [0..Len(sizes) -> Nat] : IsSum(f, sizes, Len(sizes))
<1> DEFINE Has(n) == \E f \in [0..n -> Nat] : IsSum(f, sizes, n)
<1> DEFINE T == {n \in 0..Len(sizes) : ~Has(n)}
<1>0. Len(sizes) \in Nat
  OBVIOUS
<1>1. Has(0)
  <2> DEFINE f == [i \in 0..0 |-> 0]
  <2>1. f \in [0..0 -> Nat] /\ IsSum(f, sizes, 0)
    BY DEF IsSum
  <2> QED
    BY <2>1
<1>2. ASSUME NEW n \in Nat, n + 1 <= Len(sizes), Has(n) PROVE Has(n + 1)
  BY <1>2, SumGrows
<1> HIDE DEF Has
<1>3. ASSUME T # {} PROVE FALSE
  <2>1. T \in SUBSET Nat
    BY <1>0
  <2>2. PICK m \in T : \A k \in T : m <= k
    BY <1>3, <2>1, LeastMember
  <2>3. m \in Nat /\ m <= Len(sizes) /\ ~Has(m)
    BY <1>0
  <2>4. m # 0
    BY <1>1, <2>3
  <2>5. m - 1 \in Nat /\ m - 1 \in 0..Len(sizes) /\ m - 1 \notin T /\ (m - 1) + 1 = m
    BY <1>0, <2>2, <2>3, <2>4
  <2>6. Has(m - 1)
    BY <2>5
  <2> QED
    BY <1>2, <2>3, <2>5, <2>6
<1>4. Has(Len(sizes))
  BY <1>0, <1>3
<1> QED
  BY <1>4 DEF Has

\* There is one function of sums only.
LEMMA SumsAreOne ==
  ASSUME NEW sizes, NEW n \in Nat, NEW f, NEW g, IsSum(f, sizes, n), IsSum(g, sizes, n)
  PROVE  f[n] = g[n]
<1> DEFINE T == {i \in 0..n : f[i] # g[i]}
<1>1. ASSUME T # {} PROVE FALSE
  <2>1. T \in SUBSET Nat
    OBVIOUS
  <2>2. PICK m \in T : \A k \in T : m <= k
    BY <1>1, <2>1, LeastMember
  <2>3. m # 0 /\ m \in 0..n
    BY DEF IsSum
  <2>4. m - 1 \in 0..n /\ m - 1 \notin T
    BY <2>2, <2>3
  <2>5. f[m - 1] = g[m - 1]
    BY <2>4
  <2>6. f[m] = f[m - 1] + sizes[m] /\ g[m] = g[m - 1] + sizes[m]
    BY <2>3 DEF IsSum
  <2> QED
    BY <2>2, <2>5, <2>6
<1> QED
  BY <1>1

\* What was written is the last of the sums.
LEMMA WrittenIsSum ==
  ASSUME NEW sizes \in Seq(Nat), NEW f \in [0..Len(sizes) -> Nat], IsSum(f, sizes, Len(sizes))
  PROVE  Written(sizes) = f[Len(sizes)]
<1> DEFINE n == Len(sizes)
           sum == CHOOSE g : g = [i \in 0..n |-> IF i = 0 THEN 0 ELSE g[i - 1] + sizes[i]]
<1>1. n \in Nat
  OBVIOUS
<1>2. f = [i \in 0..n |-> IF i = 0 THEN 0 ELSE f[i - 1] + sizes[i]]
  BY DEF IsSum
<1>3. sum = [i \in 0..n |-> IF i = 0 THEN 0 ELSE sum[i - 1] + sizes[i]]
  BY <1>2
<1>4. Written(sizes) = sum[n]
  BY DEF Written
<1> HIDE DEF sum
<1>5. \A i \in 0..n : sum[i] = IF i = 0 THEN 0 ELSE sum[i - 1] + sizes[i]
  BY <1>3
<1>6. sum = [i \in 0..n |-> sum[i]]
  BY <1>3
<1>7. IsSum(sum, sizes, n)
  BY <1>5, <1>6 DEF IsSum
<1>8. sum[n] = f[n]
  BY <1>1, <1>7, SumsAreOne
<1> QED
  BY <1>4, <1>8

\* Written counts every size once.
LEMMA WrittenAdds ==
  ASSUME NEW sizes \in Seq(Nat), NEW size \in Nat
  PROVE  Written(sizes) \in Nat /\ Written(Append(sizes, size)) = Written(sizes) + size
<1> DEFINE n == Len(sizes)
           more == Append(sizes, size)
<1>1. /\ n \in Nat /\ more \in Seq(Nat) /\ Len(more) = n + 1 /\ more[n + 1] = size
      /\ \A i \in 1..n : more[i] = sizes[i]
  OBVIOUS
<1>2. PICK f \in [0..n -> Nat] : IsSum(f, sizes, n)
  BY SumsExist
<1>3. Written(sizes) = f[n] /\ f[n] \in Nat
  BY <1>1, <1>2, WrittenIsSum
<1> HIDE DEF n, more
<1>4. IsSum(f, more, n)
  BY <1>1, <1>2 DEF IsSum
<1>5. PICK g \in [0..(n + 1) -> Nat] : IsSum(g, more, n + 1) /\ g[n + 1] = f[n] + size
  BY SMTT(30), <1>1, <1>4, SumGrows
<1>6. Written(more) = g[n + 1]
  BY <1>1, <1>5, WrittenIsSum
<1> QED
  BY <1>3, <1>5, <1>6 DEF more

\* Nothing unpacked, nothing written.
LEMMA WrittenNothing == Written(<<>>) = 0
<1> DEFINE f == [i \in 0..0 |-> 0]
<1>1. <<>> \in Seq(Nat) /\ Len(<<>>) = 0
  OBVIOUS
<1>2. f \in [0..0 -> Nat] /\ IsSum(f, <<>>, 0) /\ f[0] = 0
  BY DEF IsSum
<1> HIDE DEF f
<1> QED
  BY <1>1, <1>2, WrittenIsSum

------------------------------------------------------------------------------
(* Steps.                                                                  *)

\* What a job may be in the middle of.
Sound(s) ==
  /\ s \in JobState
  /\ ~borne.twice => (s.pc = "hash" => s.stamp \in borne.stamps)
  /\ ~borne.twice => (s.pc = "store" => MayGoWith(s.holds, s.stamp))
  /\ s.pc = "unpack" => Whole(s.sizes, Archives[s.holds]) /\ Written(s.sizes) <= Bytes
  /\ s.pc \notin {"unpack", "remove"} => s.sizes = <<>>
  /\ Written(s.sizes) <= Bytes + 1

\* The invariant holds the jobs to that.
LEMMA JobsAreSound ==
  ASSUME IInv, NEW j \in Job
  PROVE  Sound(job[j])
  BY DEF IInv, Typed, StampsTell, UnpacksInOrder, Archive, EmptyBefore, BytesAreBounded, Sound

\* A job that goes on to a sound state keeps the invariant, with the row or the tree it leaves.
LEMMA JobStep ==
  ASSUME IInv, NEW j \in Job, NEW s, Sound(s), job' = [job EXCEPT ![j] = s],
         UNCHANGED <<file, borne, reader, troubles>>,
         cache' \in SUBSET Row, ~borne.twice => \A c \in cache' : MayGoWith(c.digest, c.stamp),
         place' \in [is: {"nothing", "folder", "things", "tree"}, holds: Contents, sizes: Seq(Nat)],
         owned' \in BOOLEAN, TreesAreWhole'
  PROVE  IInv'
<1>1. Typed'
  BY DEF IInv, Typed, Sound
<1>2. ASSUME NEW k \in Job PROVE Sound(job'[k])
  <2>1. job'[k] = IF k = j THEN s ELSE job[k]
    BY DEF IInv, Typed
  <2> QED
    BY <2>1, JobsAreSound
<1>3. \A d, t : MayGoWith(d, t) => MayGoWith(d, t)'
  BY DEF MayGoWith
<1>4. StampsTell'
  BY <1>2, <1>3 DEF Sound, StampsTell
<1>5. QuestionsSee' /\ DigestIsOfTheFile'
  BY DEF IInv, QuestionsSee, DigestIsOfTheFile
<1>6. UnpacksInOrder' /\ EmptyBefore' /\ BytesAreBounded'
  BY <1>2 DEF Sound, UnpacksInOrder, Archive, EmptyBefore, BytesAreBounded
<1> QED
  BY <1>1, <1>4, <1>5, <1>6 DEF IInv

\* Most steps of a job leave nothing behind.
LEMMA QuietStep ==
  ASSUME IInv, NEW j \in Job, NEW s, Sound(s), job' = [job EXCEPT ![j] = s], Works
  PROVE  IInv'
<1>1. UNCHANGED <<file, borne, place, owned, cache, reader, troubles>>
  BY DEF Works, Disk
<1>2. TreesAreWhole'
  BY <1>1 DEF IInv, TreesAreWhole
<1>3. /\ cache' \in SUBSET Row /\ owned' \in BOOLEAN
      /\ place' \in [is: {"nothing", "folder", "things", "tree"}, holds: Contents, sizes: Seq(Nat)]
      /\ ~borne.twice => \A c \in cache' : MayGoWith(c.digest, c.stamp)
  BY <1>1 DEF IInv, Typed, StampsTell
<1> QED
  BY <1>1, <1>2, <1>3, JobStep

\* The states of a job that has unpacked nothing.
LEMMA Unstarted ==
  ASSUME NEW s \in JobState, s.sizes = <<>>, s.pc \notin {"hash", "store", "unpack"}
  PROVE  Sound(s)
<1>1. Written(s.sizes) <= Bytes + 1
  BY WrittenNothing, DerivedAssumption
<1> QED
  BY <1>1 DEF Sound

\* An idle job has no archive yet: it points at the first.
LEMMA NoJobIsSound == NoJob \in JobState /\ Sound(NoJob)
<1>1. 1 \in Contents
  BY DerivedAssumption DEF Contents
<1>2. NoJob \in JobState
  BY <1>1 DEF NoJob, JobState, Hashing, Unpacking
<1> QED
  BY <1>2, Unstarted DEF NoJob

\* What a change of place does to the state of a job.
LEMMA JobFields ==
  ASSUME NEW s \in JobState, NEW pc \in {"idle"} \cup Hashing \cup Unpacking
  PROVE  /\ [s EXCEPT !.pc = pc] \in JobState
         /\ [s EXCEPT !.pc = pc].pc = pc /\ [s EXCEPT !.pc = pc].holds = s.holds
         /\ [s EXCEPT !.pc = pc].stamp = s.stamp /\ [s EXCEPT !.pc = pc].sizes = s.sizes
  BY DEF JobState

\* The steps that hash a file.
LEMMA DigestSteps ==
  ASSUME IInv, NEW j \in Job, StartDigest(j) \/ Stat(j) \/ Hash(j) \/ UpsertChecksum(j)
  PROVE  IInv'
<1> DEFINE s == job[j]
<1>0. /\ Sound(s) /\ s \in JobState /\ job \in [Job -> JobState]
      /\ file.holds \in Contents /\ file.stamp \in Stamps
  BY JobsAreSound DEF IInv, Typed
<1>1. CASE StartDigest(j)
  <2> DEFINE t == [s EXCEPT !.pc = "stat"]
  <2>1. job' = [job EXCEPT ![j] = t] /\ s.pc = "idle" /\ Works
    BY <1>0, <1>1 DEF StartDigest, Goes
  <2>2. t \in JobState /\ t.sizes = s.sizes /\ t.pc = "stat"
    BY <1>0, JobFields DEF Hashing
  <2>3. Sound(t)
    BY <1>0, <2>1, <2>2, Unstarted DEF Sound
  <2> HIDE DEF t
  <2> QED
    BY <2>1, <2>3, QuietStep
<1>2. CASE Stat(j)
  <2> DEFINE t == [s EXCEPT !.pc = "hash", !.stamp = file.stamp]
  <2>1. job' = [job EXCEPT ![j] = t] /\ s.pc = "stat" /\ Works
    BY <1>0, <1>2 DEF Stat
  <2>2. t \in JobState /\ t.sizes = s.sizes /\ t.pc = "hash" /\ t.stamp = file.stamp
    BY <1>0 DEF JobState, Hashing
  <2> HIDE DEF t
  <2>3. Sound(t)
    BY <1>0, <2>1, <2>2 DEF Sound, IInv, QuestionsSee
  <2> QED
    BY <2>1, <2>3, QuietStep
<1>3. CASE Hash(j)
  <2> DEFINE t == [s EXCEPT !.pc = "store", !.holds = file.holds]
  <2>1. job' = [job EXCEPT ![j] = t] /\ s.pc = "hash" /\ Works
    BY <1>0, <1>3 DEF Hash
  <2>2. t \in JobState /\ t.sizes = s.sizes /\ t.pc = "store" /\ t.stamp = s.stamp /\ t.holds = file.holds
    BY <1>0 DEF JobState, Hashing
  <2> HIDE DEF t
  <2>3. ~borne.twice => MayGoWith(t.holds, t.stamp)
    BY <1>0, <2>1, <2>2 DEF Sound, IInv, QuestionsSee, MayGoWith
  <2>4. Sound(t)
    BY <1>0, <2>1, <2>2, <2>3 DEF Sound
  <2> QED
    BY <2>1, <2>4, QuietStep
<1>4. CASE UpsertChecksum(j)
  <2> DEFINE row == [digest |-> s.holds, stamp |-> s.stamp]
  <2>1. /\ job' = [job EXCEPT ![j] = NoJob] /\ s.pc = "store" /\ cache' = {row}
        /\ UNCHANGED <<file, borne, place, owned, reader, troubles>>
    BY <1>4 DEF UpsertChecksum, StampOf, Ends, Disk
  <2>2. row \in Row /\ row.digest = s.holds /\ row.stamp = s.stamp
    BY <1>0 DEF Row, JobState
  <2>3. cache' \in SUBSET Row /\ (~borne.twice => \A c \in cache' : MayGoWith(c.digest, c.stamp))
    BY <1>0, <2>1, <2>2 DEF Sound
  <2>4. TreesAreWhole'
    BY <2>1 DEF IInv, TreesAreWhole
  <2> QED
    BY <2>1, <2>3, <2>4, NoJobIsSound, JobStep DEF IInv, Typed
<1> QED
  BY <1>1, <1>2, <1>3, <1>4

\* The entries of the archives.
EntryType == [name: Nat, declared: 0..(Word - 1), packed: Nat, real: Nat]
\* An archive is a sequence of them.
LEMMA EntriesAreTyped ==
  ASSUME NEW c \in Contents
  PROVE  Archives[c] \in Seq(EntryType)
  BY DerivedAssumption DEF Contents, EntryType

\* No entry is given more than the budget leaves.
LEMMA CeilingIsLeft ==
  ASSUME NEW entry \in EntryType, NEW already \in Nat, already <= Bytes
  PROVE  Ceiling(entry, already) \in Nat /\ Ceiling(entry, already) <= Bytes - already
<1>1. entry.packed * Ratio + Floor \in Nat
  <2>1. entry.packed \in Nat
    BY DEF EntryType
  <2>2. entry.packed * Ratio \in Nat
    BY <2>1, DerivedAssumption
  <2> QED
    BY <2>2, DerivedAssumption
<1> DEFINE allowed == entry.packed * Ratio + Floor
<1> HIDE DEF allowed
<1>2. Smaller(Bytes - already, allowed) \in Nat /\ Smaller(Bytes - already, allowed) <= Bytes - already
  BY <1>1, DerivedAssumption DEF Smaller, allowed
<1>3. Ceiling(entry, already) \in {Smaller(Bytes - already, allowed), Bytes - already}
  BY DEF Ceiling, allowed
<1> QED
  BY <1>2, <1>3, DerivedAssumption

\* An entry is unpacked, or the extraction comes to its end.
LEMMA UnpackStep ==
  ASSUME IInv, NEW j \in Job, Unpack(j)
  PROVE  IInv'
<1> DEFINE s == job[j]
           n == Len(s.sizes)
           entry == NextEntry(j)
           c == Ceiling(entry, Written(s.sizes))
           size == Copied(j)
<1>0. /\ Sound(s) /\ s \in JobState /\ job \in [Job -> JobState] /\ s.pc = "unpack" /\ Works
      /\ s.sizes \in Seq(Nat) /\ s.holds \in Contents /\ n \in Nat /\ n < Len(Archives[s.holds])
  BY JobsAreSound DEF IInv, Typed, Unpack, JobState, Archive
<1>1. entry \in EntryType /\ entry = Archives[s.holds][n + 1] /\ entry.real \in Nat
  <2> DEFINE entries == Archives[s.holds]
  <2>1. entries \in Seq(EntryType)
    BY <1>0, EntriesAreTyped
  <2>2. entry = entries[n + 1]
    BY DEF NextEntry, Archive
  <2> HIDE DEF entries
  <2>3. n + 1 \in 1..Len(entries)
    BY <1>0, <2>1 DEF entries
  <2>4. entries[n + 1] \in EntryType
    BY <2>1, <2>3
  <2> QED
    BY <2>2, <2>4 DEF entries, EntryType
<1>2. Written(s.sizes) \in Nat /\ Written(s.sizes) <= Bytes
  BY <1>0, WrittenAdds DEF Sound
<1>3. c \in Nat /\ c <= Bytes - Written(s.sizes)
  BY <1>1, <1>2, CeilingIsLeft
<1>4. size = Smaller(entry.real, c + 1)
  BY DEF Copied
<1> HIDE DEF entry, c
<1>5. size \in Nat /\ size <= c + 1 /\ (size <= c => size = entry.real)
  BY <1>1, <1>3, <1>4 DEF Smaller
<1>6. CASE job' = [job EXCEPT ![j].pc = "remove"]
  <2> DEFINE t == [s EXCEPT !.pc = "remove"]
  <2>1. job' = [job EXCEPT ![j] = t]
    BY <1>0, <1>6
  <2>2. t \in JobState /\ t.sizes = s.sizes /\ t.pc = "remove"
    BY <1>0, JobFields DEF Unpacking
  <2> HIDE DEF t
  <2>3. Sound(t)
    BY <1>0, <2>2 DEF Sound
  <2> QED
    BY <1>0, <2>1, <2>3, QuietStep
<1>7. CASE job' = [job EXCEPT ![j].sizes = Append(@, size), ![j].pc = IF TooLong(size, c) THEN "remove" ELSE "unpack"]
  <2> DEFINE more == Append(s.sizes, size)
             t == [s EXCEPT !.sizes = more, !.pc = IF TooLong(size, c) THEN "remove" ELSE "unpack"]
  <2>1. job' = [job EXCEPT ![j] = t]
    BY <1>0, <1>7
  <2>2. /\ more \in Seq(Nat) /\ Len(more) = n + 1 /\ more[n + 1] = size
        /\ \A i \in 1..n : more[i] = s.sizes[i]
    BY <1>0, <1>5
  <2>3. Written(more) = Written(s.sizes) + size
    BY <1>0, <1>5, WrittenAdds
  <2> HIDE DEF more
  <2>4. /\ t \in JobState /\ t.sizes = more /\ t.holds = s.holds /\ t.stamp = s.stamp
        /\ t.pc = IF TooLong(size, c) THEN "remove" ELSE "unpack"
    BY <1>0, <2>2 DEF JobState, Unpacking
  <2> HIDE DEF t
  <2>5. Written(more) <= Bytes + 1
    BY <1>2, <1>3, <1>5, <2>3, DerivedAssumption
  <2>6. ASSUME t.pc = "unpack" PROVE Whole(more, Archives[s.holds]) /\ Written(more) <= Bytes
    <3>1. size <= c /\ size = entry.real
      BY <1>3, <1>5, <2>4, <2>6 DEF TooLong
    <3>2. Len(Archives[s.holds]) \in Nat
      BY <1>0, EntriesAreTyped
    <3>3. ASSUME NEW i \in 1..Len(more) PROVE more[i] = Archives[s.holds][i].real
      <4>1. CASE i = n + 1
        BY <1>1, <2>2, <3>1, <4>1
      <4>2. CASE i # n + 1
        <5>1. i \in 1..n
          BY <1>0, <2>2, <4>2
        <5> QED
          BY <1>0, <2>2, <5>1 DEF Sound, Whole
      <4> QED
        BY <4>1, <4>2
    <3>4. Whole(more, Archives[s.holds])
      BY <1>0, <2>2, <3>2, <3>3 DEF Whole
    <3> QED
      BY <1>2, <1>3, <1>5, <2>3, <3>1, <3>4, DerivedAssumption
  <2>7. t.pc \in {"unpack", "remove"}
    BY <2>4
  <2>8. Sound(t)
    BY <2>4, <2>5, <2>6, <2>7 DEF Sound
  <2> QED
    BY <1>0, <2>1, <2>8, QuietStep
<1> QED
  BY <1>6, <1>7 DEF Unpack, Goes, c, entry

\* The other steps of an extraction.
LEMMA ExtractSteps ==
  ASSUME IInv, NEW j \in Job,
         \/ StartExtract(j) \/ CheckPlace(j) \/ OpenArchive(j) \/ Fail(j) \/ RemoveAll(j)
         \/ Commit(j) \/ SetOwner(j)
  PROVE  IInv'
<1> DEFINE s == job[j]
<1>0. /\ Sound(s) /\ s \in JobState /\ job \in [Job -> JobState] /\ s.sizes \in Seq(Nat) /\ s.holds \in Contents
      /\ file.holds \in Contents
  BY JobsAreSound DEF IInv, Typed, JobState
<1>1. ASSUME NEW pc \in {"check", "header", "remove"}, Goes(j, pc),
             pc # "remove" => s.sizes = <<>>
      PROVE  \E t : Sound(t) /\ job' = [job EXCEPT ![j] = t]
  <2> DEFINE t == [s EXCEPT !.pc = pc]
  <2>1. job' = [job EXCEPT ![j] = t]
    BY <1>0, <1>1 DEF Goes
  <2>2. t \in JobState /\ t.sizes = s.sizes /\ t.pc = pc
    BY <1>0, JobFields DEF Unpacking
  <2> HIDE DEF t
  <2>3. Sound(t)
    BY <1>0, <1>1, <2>2 DEF Sound
  <2> QED
    BY <2>1, <2>3
<1>2. Ends(j) => \E t : Sound(t) /\ job' = [job EXCEPT ![j] = t]
  BY NoJobIsSound DEF Ends
<1>3. CASE StartExtract(j)
  <2>1. Goes(j, "check") /\ s.sizes = <<>> /\ Works
    BY <1>0, <1>3 DEF StartExtract, Sound
  <2> QED
    BY <1>1, <2>1, QuietStep
<1>4. CASE CheckPlace(j)
  <2>1. s.sizes = <<>> /\ Works /\ (Goes(j, "header") \/ Ends(j))
    BY <1>0, <1>4 DEF CheckPlace, Sound
  <2> QED
    BY <1>1, <1>2, <2>1, QuietStep
<1>5. CASE OpenArchive(j)
  <2> DEFINE t == [s EXCEPT !.pc = "unpack", !.holds = file.holds]
  <2>1. s.sizes = <<>> /\ Works /\ (job' = [job EXCEPT ![j] = t] \/ Ends(j))
    BY <1>0, <1>5 DEF OpenArchive, Sound
  <2>2. t \in JobState /\ t.sizes = s.sizes /\ t.pc = "unpack" /\ t.holds = file.holds
    BY <1>0 DEF JobState, Unpacking
  <2> HIDE DEF t
  <2>3. Whole(t.sizes, Archives[t.holds])
    <3>1. Archives[t.holds] \in Seq(EntryType) /\ t.sizes = <<>>
      BY <1>0, <2>1, <2>2, EntriesAreTyped
    <3> QED
      BY <3>1 DEF Whole
  <2>4. Sound(t)
    BY <2>1, <2>2, <2>3, WrittenNothing, DerivedAssumption DEF Sound
  <2> QED
    BY <1>2, <2>1, <2>4, QuietStep
<1>6. CASE Fail(j)
  BY <1>1, <1>6, QuietStep DEF Fail
<1>7. CASE RemoveAll(j)
  BY <1>2, <1>7, QuietStep DEF RemoveAll
<1>8. CASE Commit(j)
  <2>0. s.pc = "unpack" /\ Len(s.sizes) = Len(Archives[s.holds]) /\ UNCHANGED <<file, borne, owned, cache, reader, troubles>>
    BY <1>8 DEF Commit, Archive
  <2>1. CASE Goes(j, "remove") /\ UNCHANGED place
    <3>1. Works
      BY <2>0, <2>1 DEF Works, Disk
    <3> QED
      BY <1>1, <2>1, <3>1, QuietStep
  <2>2. CASE /\ place' = [is |-> "tree", holds |-> s.holds, sizes |-> s.sizes]
             /\ job' = [job EXCEPT ![j] = [NoJob EXCEPT !.pc = "own"]]
    <3> DEFINE t == [NoJob EXCEPT !.pc = "own"]
    <3>1. t \in JobState /\ t.sizes = <<>> /\ t.pc = "own"
      BY NoJobIsSound, JobFields DEF Unpacking, NoJob
    <3> HIDE DEF t
    <3>2. Sound(t)
      BY <3>1, Unstarted
    <3>3. Whole(s.sizes, Archives[s.holds])
      BY <1>0, <2>0 DEF Sound
    <3>4. place'.holds = s.holds /\ place'.sizes = s.sizes /\ DOMAIN s.sizes = 1..Len(s.sizes)
      BY <1>0, <2>2
    <3>5. TreesAreWhole'
      BY <2>0, <3>3, <3>4 DEF Whole, TreesAreWhole
    <3>6. place' \in [is: {"nothing", "folder", "things", "tree"}, holds: Contents, sizes: Seq(Nat)]
      BY <1>0, <2>2
    <3>7. /\ cache' \in SUBSET Row /\ owned' \in BOOLEAN
          /\ ~borne.twice => \A c \in cache' : MayGoWith(c.digest, c.stamp)
      BY <2>0 DEF IInv, Typed, StampsTell
    <3>8. job' = [job EXCEPT ![j] = t]
      BY <2>2 DEF t
    <3> QED
      BY <2>0, <3>2, <3>5, <3>6, <3>7, <3>8, JobStep
  <2> QED
    BY <1>8, <2>1, <2>2 DEF Commit
<1>9. CASE SetOwner(j)
  <2>1. job' = [job EXCEPT ![j] = NoJob] /\ owned' = TRUE /\ UNCHANGED <<file, borne, place, cache, reader, troubles>>
    BY <1>9 DEF SetOwner, Ends
  <2>2. TreesAreWhole'
    BY <2>1 DEF IInv, TreesAreWhole
  <2> QED
    BY <2>1, <2>2, NoJobIsSound, JobStep DEF IInv, Typed, StampsTell
<1> QED
  BY <1>3, <1>4, <1>5, <1>6, <1>7, <1>8, <1>9

\* Somebody asks for a digest.
LEMMA ReaderSteps ==
  ASSUME IInv, NEW r \in Reader, Look(r) \/ GetChecksum(r) \/ Answered(r)
  PROVE  IInv'
<1> DEFINE q == reader[r]
<1>0. /\ UNCHANGED <<file, borne, place, owned, cache, job, troubles>>
      /\ reader \in [Reader -> ReaderState] /\ q \in ReaderState
      /\ file.holds \in Contents /\ file.stamp \in Stamps /\ cache \in SUBSET Row
  BY DEF Look, GetChecksum, Answered, Disk, IInv, Typed
<1>1. ASSUME NEW p \in ReaderState, reader' = [reader EXCEPT ![r] = p],
             p.pc # "idle" => /\ file.holds \in p.saw /\ p.stamp \in borne.stamps
                              /\ \/ p.saw = q.saw /\ p.stamp = q.stamp /\ q.pc # "idle"
                                 \/ p.saw = {file.holds} /\ p.stamp = file.stamp,
             ~borne.twice => (p.pc = "answered" => p.digest \in p.saw)
      PROVE  IInv'
  <2>1. \A k \in Reader : reader'[k] = IF k = r THEN p ELSE reader[k]
    BY <1>0, <1>1
  <2>2. Typed'
    BY <1>0, <1>1 DEF IInv, Typed
  <2>3. QuestionsSee' /\ DigestIsOfTheFile'
    BY <1>0, <1>1, <2>1 DEF IInv, QuestionsSee, DigestIsOfTheFile
  <2>4. \A d, t : MayGoWith(d, t) => MayGoWith(d, t)'
    BY <1>0, <1>1, <2>1 DEF MayGoWith
  <2>5. StampsTell'
    BY <1>0, <2>4 DEF IInv, StampsTell
  <2>6. UnpacksInOrder' /\ EmptyBefore' /\ BytesAreBounded' /\ TreesAreWhole'
    BY <1>0 DEF IInv, UnpacksInOrder, Archive, EmptyBefore, BytesAreBounded, TreesAreWhole
  <2> QED
    BY <2>2, <2>3, <2>5, <2>6 DEF IInv
<1>2. NoReader \in ReaderState /\ NoReader.pc = "idle"
  BY DEF NoReader, ReaderState
<1>3. CASE Look(r)
  <2> DEFINE p == [NoReader EXCEPT !.pc = "row", !.saw = {file.holds}, !.stamp = file.stamp]
  <2>1. reader' = [reader EXCEPT ![r] = p]
    BY <1>3 DEF Look
  <2>2. p \in ReaderState /\ p.pc = "row" /\ p.saw = {file.holds} /\ p.stamp = file.stamp
    BY <1>0 DEF NoReader, ReaderState
  <2> HIDE DEF p
  <2> QED
    BY <1>1, <2>1, <2>2 DEF IInv, QuestionsSee
<1>4. CASE GetChecksum(r)
  <2> DEFINE rows == {c \in cache : c.stamp = q.stamp}
             row == CHOOSE c \in rows : TRUE
             p == [q EXCEPT !.pc = "answered", !.digest = row.digest]
  <2>1. q.pc = "row" /\ reader' = [reader EXCEPT ![r] = IF rows = {} THEN NoReader ELSE p]
    BY <1>0, <1>4 DEF GetChecksum
  <2>2. CASE rows = {}
    BY <1>1, <1>2, <2>1, <2>2
  <2>3. CASE rows # {}
    <3>1. row \in cache /\ row.stamp = q.stamp
      BY <2>3
    <3> HIDE DEF row
    <3>2. row \in Row /\ row.digest \in Contents
      BY <1>0, <3>1 DEF Row
    <3>3. p \in ReaderState /\ p.pc = "answered" /\ p.saw = q.saw /\ p.stamp = q.stamp /\ p.digest = row.digest
      BY <1>0, <3>2 DEF ReaderState
    <3>4. ~borne.twice => row.digest \in q.saw
      BY <2>1, <3>1 DEF IInv, StampsTell, MayGoWith
    <3>5. file.holds \in q.saw /\ q.stamp \in borne.stamps
      BY <2>1 DEF IInv, QuestionsSee
    <3>6. reader' = [reader EXCEPT ![r] = p]
      BY <2>1, <2>3
    <3> HIDE DEF p
    <3> QED
      BY <1>1, <2>1, <3>3, <3>4, <3>5, <3>6
  <2> QED
    BY <2>2, <2>3
<1>5. CASE Answered(r)
  BY <1>1, <1>2, <1>5 DEF Answered
<1> QED
  BY <1>3, <1>4, <1>5

\* The file is replaced, the place is taken or cleared, the process dies.
LEMMA TroubleSteps ==
  ASSUME IInv,
         \/ \E c \in Contents, t \in Stamps : Replace(c, t)
         \/ \E what \in {"nothing", "folder", "things"} : Occupy(what)
         \/ Crash
  PROVE  IInv'
<1>0. /\ troubles \in Nat /\ file \in [holds: Contents, stamp: Stamps] /\ borne \in [stamps: SUBSET Stamps, twice: BOOLEAN]
      /\ job \in [Job -> JobState] /\ reader \in [Reader -> ReaderState]
      /\ place \in [is: {"nothing", "folder", "things", "tree"}, holds: Contents, sizes: Seq(Nat)]
  BY DEF IInv, Typed
<1>1. ASSUME NEW c \in Contents, NEW t \in Stamps, Replace(c, t) PROVE IInv'
  <2>1. /\ file' = [holds |-> c, stamp |-> t] /\ troubles' \in Nat
        /\ borne' = [stamps |-> borne.stamps \cup {t}, twice |-> borne.twice \/ t \in borne.stamps]
        /\ reader' = [r \in Reader |-> IF reader[r].pc = "idle" THEN NoReader ELSE [reader[r] EXCEPT !.saw = @ \cup {c}]]
        /\ UNCHANGED <<cache, place, owned, job>>
    BY <1>0, <1>1 DEF Replace, Trouble
  <2>2. /\ file' \in [holds: Contents, stamp: Stamps] /\ file'.holds = c /\ file'.stamp = t
        /\ borne'.stamps = borne.stamps \cup {t}
        /\ ~borne'.twice => ~borne.twice /\ t \notin borne.stamps
    BY <1>0, <2>1
  <2>3. borne' \in [stamps: SUBSET Stamps, twice: BOOLEAN]
    <3>1. (borne.twice \/ t \in borne.stamps) \in BOOLEAN
      OBVIOUS
    <3>2. borne.stamps \cup {t} \in SUBSET Stamps
      BY <1>0
    <3> QED
      BY <2>1, <3>1, <3>2
  <2>4. ASSUME NEW r \in Reader
        PROVE  /\ reader'[r] \in ReaderState /\ (reader'[r].pc = "idle" <=> reader[r].pc = "idle")
               /\ reader[r].pc # "idle" => /\ reader'[r].pc = reader[r].pc /\ reader'[r].stamp = reader[r].stamp
                                           /\ reader'[r].digest = reader[r].digest
                                           /\ reader'[r].saw = reader[r].saw \cup {c}
    <3>1. CASE reader[r].pc = "idle"
      BY <2>1, <3>1 DEF NoReader, ReaderState
    <3>2. CASE reader[r].pc # "idle"
      <4>1. reader[r] \in ReaderState /\ reader'[r] = [reader[r] EXCEPT !.saw = @ \cup {c}]
        BY <1>0, <2>1, <3>2
      <4>2. ASSUME NEW q \in ReaderState
            PROVE  /\ [q EXCEPT !.saw = @ \cup {c}] \in ReaderState
                   /\ [q EXCEPT !.saw = @ \cup {c}].pc = q.pc /\ [q EXCEPT !.saw = @ \cup {c}].stamp = q.stamp
                   /\ [q EXCEPT !.saw = @ \cup {c}].digest = q.digest
                   /\ [q EXCEPT !.saw = @ \cup {c}].saw = q.saw \cup {c}
        BY DEF ReaderState
      <4> QED
        BY <3>2, <4>1, <4>2
    <3> QED
      BY <3>1, <3>2
  <2>5. Typed'
    <3>1. reader' = [r \in Reader |-> reader'[r]]
      BY <2>1
    <3>2. reader' \in [Reader -> ReaderState]
      BY <2>4, <3>1
    <3> QED
      BY <2>1, <2>2, <2>3, <3>2 DEF IInv, Typed
  <2>6. QuestionsSee' /\ DigestIsOfTheFile'
    BY <2>2, <2>4 DEF IInv, QuestionsSee, DigestIsOfTheFile
  <2>7. \A d, u : ~borne'.twice /\ MayGoWith(d, u) => MayGoWith(d, u)'
    BY <2>2, <2>4 DEF MayGoWith
  <2>8. StampsTell'
    BY <2>1, <2>2, <2>7 DEF IInv, StampsTell
  <2>9. UnpacksInOrder' /\ EmptyBefore' /\ BytesAreBounded' /\ TreesAreWhole'
    BY <2>1 DEF IInv, UnpacksInOrder, Archive, EmptyBefore, BytesAreBounded, TreesAreWhole
  <2> QED
    BY <2>5, <2>6, <2>8, <2>9 DEF IInv
<1>2. ASSUME NEW what \in {"nothing", "folder", "things"}, Occupy(what) PROVE IInv'
  <2>1. /\ place' = [Nothing EXCEPT !.is = what] /\ owned' = (what # "nothing") /\ troubles' \in Nat
        /\ UNCHANGED <<file, borne, cache, job, reader>>
    BY <1>0, <1>2 DEF Occupy, Trouble
  <2>2. 1 \in Contents
    BY DerivedAssumption DEF Contents
  <2>3. place' \in [is: {"nothing", "folder", "things", "tree"}, holds: Contents, sizes: Seq(Nat)] /\ place'.is = what
    <3>1. <<>> \in Seq(Nat)
      OBVIOUS
    <3> QED
      BY <2>1, <2>2, <3>1 DEF Nothing
  <2>4. owned' \in BOOLEAN
    BY <2>1
  <2>5. Typed' /\ TreesAreWhole'
    BY <2>1, <2>3, <2>4 DEF IInv, Typed, TreesAreWhole
  <2>6. \A d, u : MayGoWith(d, u) => MayGoWith(d, u)'
    BY <2>1 DEF MayGoWith
  <2>7. StampsTell' /\ QuestionsSee' /\ DigestIsOfTheFile'
    BY <2>1, <2>6 DEF IInv, StampsTell, QuestionsSee, DigestIsOfTheFile
  <2>8. UnpacksInOrder' /\ EmptyBefore' /\ BytesAreBounded'
    BY <2>1 DEF IInv, UnpacksInOrder, Archive, EmptyBefore, BytesAreBounded
  <2> QED
    BY <2>5, <2>7, <2>8 DEF IInv
<1>3. CASE Crash
  <2>1. /\ troubles' \in Nat /\ UNCHANGED <<file, borne, place, owned, cache, reader>>
        /\ job' = [j \in Job |-> IF job[j].pc = "idle" THEN NoJob
                     ELSE [NoJob EXCEPT !.pc = IF job[j].pc \in {"stat", "hash", "store"} THEN "stat" ELSE "check"]]
    BY <1>0, <1>3 DEF Crash, Trouble, Disk
  <2>2. ASSUME NEW j \in Job PROVE job'[j] \in JobState /\ job'[j].sizes = <<>> /\ job'[j].pc \in {"idle", "stat", "check"}
    <3>1. \/ job'[j] = NoJob
          \/ job'[j] = [NoJob EXCEPT !.pc = "stat"]
          \/ job'[j] = [NoJob EXCEPT !.pc = "check"]
      BY <2>1
    <3>2. NoJob.pc = "idle" /\ NoJob.sizes = <<>> /\ NoJob \in JobState
      BY NoJobIsSound DEF NoJob
    <3>3. ASSUME NEW pc \in {"stat", "check"}, job'[j] = [NoJob EXCEPT !.pc = pc]
          PROVE  job'[j] \in JobState /\ job'[j].sizes = <<>> /\ job'[j].pc \in {"idle", "stat", "check"}
      <4>1. pc \in {"idle"} \cup Hashing \cup Unpacking
        BY DEF Hashing, Unpacking
      <4> DEFINE t == [NoJob EXCEPT !.pc = pc]
      <4>2. t \in JobState /\ t.pc = pc /\ t.sizes = NoJob.sizes
        BY <3>2, <4>1, JobFields
      <4>3. job'[j] = t
        BY <3>3
      <4> HIDE DEF t
      <4> QED
        BY <3>2, <4>2, <4>3
    <3> QED
      BY <3>1, <3>2, <3>3
  <2>3. Typed'
    <3>1. job' = [j \in Job |-> job'[j]]
      BY <2>1
    <3>2. job' \in [Job -> JobState]
      BY <2>2, <3>1
    <3> QED
      BY <2>1, <3>2 DEF IInv, Typed
  <2>4. \A d, u : MayGoWith(d, u) => MayGoWith(d, u)'
    BY <2>1 DEF MayGoWith
  <2>5. StampsTell' /\ QuestionsSee' /\ DigestIsOfTheFile' /\ TreesAreWhole'
    BY <2>1, <2>2, <2>4 DEF IInv, StampsTell, QuestionsSee, DigestIsOfTheFile, TreesAreWhole
  <2>6. UnpacksInOrder' /\ EmptyBefore' /\ BytesAreBounded'
    <3>1. \A j \in Job : Written(job'[j].sizes) = 0 /\ job'[j].sizes = <<>> /\ job'[j].pc # "unpack"
      BY <2>2, WrittenNothing
    <3>2. 0 <= Bytes + 1
      BY DerivedAssumption
    <3> QED
      BY <3>1, <3>2 DEF UnpacksInOrder, EmptyBefore, BytesAreBounded
  <2> QED
    BY <2>3, <2>5, <2>6 DEF IInv
<1> QED
  BY <1>1, <1>2, <1>3

------------------------------------------------------------------------------

\* At first there is a file, and nothing is known of it.
LEMMA InitIInv == Init => IInv
<1> SUFFICES ASSUME Init PROVE IInv
  OBVIOUS
<1>1. PICK c \in Contents, t \in Stamps : file = [holds |-> c, stamp |-> t]
  BY DEF Init
<1>2. 1 \in Contents
  BY DerivedAssumption DEF Contents
<1>3. \A j \in Job : job[j] = NoJob /\ NoJob.pc = "idle" /\ NoJob.sizes = <<>>
  BY DEF Init, NoJob
<1>4. NoReader \in ReaderState /\ NoReader.pc = "idle"
  BY DEF NoReader, ReaderState
<1>5. Typed
  <2>1. file \in [holds: Contents, stamp: Stamps] /\ file.stamp = t
    BY <1>1
  <2>2. borne = [stamps |-> {t}, twice |-> FALSE]
    BY <2>1 DEF Init
  <2>3. place \in [is: {"nothing", "folder", "things", "tree"}, holds: Contents, sizes: Seq(Nat)]
    <3>1. <<>> \in Seq(Nat)
      OBVIOUS
    <3> QED
      BY <1>2, <3>1 DEF Init, Nothing
  <2>4. job \in [Job -> JobState] /\ reader \in [Reader -> ReaderState] /\ owned \in BOOLEAN /\ cache \in SUBSET Row /\ troubles \in Nat
    BY <1>4, NoJobIsSound DEF Init
  <2> QED
    BY <2>1, <2>2, <2>3, <2>4 DEF Typed
<1>6. StampsTell /\ QuestionsSee /\ DigestIsOfTheFile
  BY <1>1, <1>3, <1>4 DEF Init, StampsTell, QuestionsSee, DigestIsOfTheFile
<1>7. UnpacksInOrder /\ EmptyBefore /\ BytesAreBounded /\ TreesAreWhole
  BY <1>3, WrittenNothing, DerivedAssumption
  DEF Init, UnpacksInOrder, EmptyBefore, BytesAreBounded, TreesAreWhole, Nothing
<1> QED
  BY <1>5, <1>6, <1>7 DEF IInv

\* Every step preserves the invariant.
LEMMA NextIInv == IInv /\ [Next]_vars => IInv'
<1> SUFFICES ASSUME IInv, [Next]_vars PROVE IInv'
  OBVIOUS
<1>1. CASE UNCHANGED vars
  BY <1>1 DEF vars, IInv, Typed, StampsTell, MayGoWith, QuestionsSee, DigestIsOfTheFile, UnpacksInOrder, Archive,
     EmptyBefore, BytesAreBounded, TreesAreWhole
<1> QED
  BY <1>1, DigestSteps, UnpackStep, ExtractSteps, ReaderSteps, TroubleSteps DEF Next

\* The invariant of what is derived from a file.
THEOREM DerivedInvariant == Spec => []IInv
  BY InitIInv, NextIInv, PTL DEF Spec

\* A digest that is answered is that of what the file held at some moment of the question, as long as no stamp is
\* borne again.
THEOREM DigestsAreOfTheFile == Spec => []DigestIsOfTheFile
  BY DerivedInvariant, PTL DEF IInv

\* A tree is there whole or not at all, whatever its archive declared and whatever broke off on the way.
THEOREM UnpackedTreesAreWhole == Spec => []TreesAreWhole
  BY DerivedInvariant, PTL DEF IInv

\* An extraction writes no more than its budget and one byte.
THEOREM ExtractionIsBounded == Spec => []BytesAreBounded
  BY DerivedInvariant, PTL DEF IInv
=============================================================================
