------------------------------ MODULE Derived -------------------------------
(***************************************************************************)
(* What background jobs derive from a file: its digest, kept in a cache    *)
(* (internal/checksum), and the tree unpacked from it when it is an        *)
(* archive (storage/extract.go), with their job handlers (cmd/zefile).     *)
(*                                                                         *)
(* The file may be replaced at any time, by an upload or a move, which     *)
(* brings a modification time of its own; a stamp is that time, in         *)
(* seconds, and the size. A file that is open keeps the bytes it had. The  *)
(* place of the tree may be taken or cleared meanwhile. A crash sends the  *)
(* running jobs back to the queue (module JobQueue); what it leaves under  *)
(* the uploads directory is never looked at again and is not kept here.    *)
(***************************************************************************)
EXTENDS Integers, Sequences, FiniteSets

CONSTANTS
  Job, Reader,
  Archives,      \* what the file may hold: sequences of entries [name, declared, packed, real]
  Stamps,        \* sizes and modification times
  Entries,       \* MaxArchiveEntries
  Bytes,         \* MaxExtractedBytes
  Ratio, Floor,  \* MaxCompressionRatio and ratioFloorBytes
  Word,          \* the values of a uint64
  MaxTroubles    \* replacements, crashes and others' work at the place of the tree

ASSUME DerivedAssumption ==
  /\ Bytes \in Nat /\ Entries \in Nat /\ Ratio \in Nat \ {0} /\ Floor \in Nat /\ Word \in Nat /\ Bytes < Word
  /\ Archives \in Seq(Seq([name: Nat, declared: 0..(Word - 1), packed: Nat, real: Nat])) /\ Archives # <<>>

VARIABLES
  file,      \* [holds, stamp]; `holds' is an index of Archives
  borne,     \* the stamps the file has had, and `twice': whether it was given one of them again
  cache,     \* the rows: none, or one [digest, stamp]
  place,     \* what is where the tree goes: [is, holds, sizes]
  owned,     \* whether the tree's owner is recorded
  job, reader, troubles

vars == <<file, borne, cache, place, owned, job, reader, troubles>>

Contents == DOMAIN Archives
NoJob == [pc |-> "idle", holds |-> 1, stamp |-> 0, sizes |-> <<>>]
NoReader == [pc |-> "idle", saw |-> {}, stamp |-> 0, digest |-> 0]
Nothing == [is |-> "nothing", holds |-> 1, sizes |-> <<>>]

Goes(j, pc) == job' = [job EXCEPT ![j].pc = pc]
Ends(j) == job' = [job EXCEPT ![j] = NoJob]
Disk == UNCHANGED <<file, borne, place, owned>>
Works == Disk /\ UNCHANGED <<cache, reader, troubles>>

------------------------------------------------------------------------------
(* Digests.                                                                *)

StartDigest(j) == job[j].pc = "idle" /\ Goes(j, "stat") /\ Works

\* Compute: Stat, then the bytes, then the row with the stamp of before.
Stat(j) == job[j].pc = "stat" /\ job' = [job EXCEPT ![j].pc = "hash", ![j].stamp = file.stamp] /\ Works
Hash(j) == job[j].pc = "hash" /\ job' = [job EXCEPT ![j].pc = "store", ![j].holds = file.holds] /\ Works
\* Mutant: the stamp is taken once the bytes are read.
StampOfAfter(j) == file.stamp
StampOf(j) == job[j].stamp
UpsertChecksum(j) ==
  /\ job[j].pc = "store"
  /\ cache' = {[digest |-> job[j].holds, stamp |-> StampOf(j)]}
  /\ Ends(j) /\ Disk /\ UNCHANGED <<reader, troubles>>

\* Cached: Stat, then the row, which must bear the same stamp; without it handleChecksum enqueues a job.
Look(r) ==
  /\ reader[r].pc = "idle"
  /\ reader' = [reader EXCEPT ![r] = [NoReader EXCEPT !.pc = "row", !.saw = {file.holds}, !.stamp = file.stamp]]
  /\ Disk /\ UNCHANGED <<cache, job, troubles>>
GetChecksum(r) ==
  /\ reader[r].pc = "row"
  /\ LET rows == {c \in cache : c.stamp = reader[r].stamp} IN
     reader' = [reader EXCEPT ![r] = IF rows = {} THEN NoReader
                                     ELSE [@ EXCEPT !.pc = "answered", !.digest = (CHOOSE c \in rows : TRUE).digest]]
  /\ Disk /\ UNCHANGED <<cache, job, troubles>>
Answered(r) ==
  /\ reader[r].pc = "answered" /\ reader' = [reader EXCEPT ![r] = NoReader]
  /\ Disk /\ UNCHANGED <<cache, job, troubles>>

------------------------------------------------------------------------------
(* Trees: ExtractZip.                                                      *)

Archive(j) == Archives[job[j].holds]

\* The sum of declared sizes, entry by entry, in the width of the header's field.
Declared(entries) ==
  LET sum[i \in 0..Len(entries)] == IF i = 0 THEN 0 ELSE (sum[i - 1] + entries[i].declared) % Word
  IN {sum[i] : i \in 0..Len(entries)}
Preflight(entries) == Len(entries) <= Entries /\ \A sum \in Declared(entries) : sum <= Bytes

Written(sizes) ==
  LET sum[i \in 0..Len(sizes)] == IF i = 0 THEN 0 ELSE sum[i - 1] + sizes[i]
  IN sum[Len(sizes)]

Smaller(a, b) == IF a < b THEN a ELSE b
\* Mutant: every entry has the whole budget.
CeilingOfEach(entry, already) ==
  IF entry.packed <= Bytes \div Ratio THEN Smaller(Bytes, entry.packed * Ratio + Floor) ELSE Bytes
\* What an entry may expand to: what the budget leaves, and what its packed size allows.
Ceiling(entry, already) ==
  IF entry.packed <= Bytes \div Ratio THEN Smaller(Bytes - already, entry.packed * Ratio + Floor) ELSE Bytes - already

StartExtract(j) == job[j].pc = "idle" /\ Goes(j, "check") /\ Works

\* The place must be free; then the archive is opened and its header is read.
CheckPlace(j) ==
  /\ job[j].pc = "check"
  /\ IF place.is = "nothing" THEN Goes(j, "header") ELSE Ends(j)
  /\ Works
OpenArchive(j) ==
  /\ job[j].pc = "header"
  /\ IF Preflight(Archives[file.holds]) THEN job' = [job EXCEPT ![j].pc = "unpack", ![j].holds = file.holds] ELSE Ends(j)
  /\ Works

\* Mutant: what does not fit is cut off.
NeverTooLong(size, ceiling) == FALSE
\* extractFile: at most one byte past the ceiling is written, and that byte ends the extraction.
TooLong(size, ceiling) == size > ceiling

NextEntry(j) == Archive(j)[Len(job[j].sizes) + 1]
Copied(j) == LET c == Ceiling(NextEntry(j), Written(job[j].sizes)) IN Smaller(NextEntry(j).real, c + 1)

Unpack(j) ==
  /\ job[j].pc = "unpack" /\ Len(job[j].sizes) < Len(Archive(j))
  /\ LET n == Len(job[j].sizes) + 1
         again == \E i \in 1..(n - 1) : Archive(j)[i].name = Archive(j)[n].name
     IN IF again THEN Goes(j, "remove")
        ELSE job' = [job EXCEPT ![j].sizes = Append(@, Copied(j)),
                                ![j].pc = IF TooLong(Copied(j), Ceiling(NextEntry(j), Written(job[j].sizes)))
                                          THEN "remove" ELSE "unpack"]
  /\ Works
\* A read fails, or the job is cancelled between two of them.
Fail(j) == job[j].pc = "unpack" /\ Goes(j, "remove") /\ Works
RemoveAll(j) == job[j].pc = "remove" /\ Ends(j) /\ Works

\* The rename takes an empty folder's place, and no other.
Commit(j) ==
  /\ job[j].pc = "unpack" /\ Len(job[j].sizes) = Len(Archive(j))
  /\ IF place.is \in {"nothing", "folder"}
     THEN /\ place' = [is |-> "tree", holds |-> job[j].holds, sizes |-> job[j].sizes]
          /\ job' = [job EXCEPT ![j] = [NoJob EXCEPT !.pc = "own"]]
     ELSE Goes(j, "remove") /\ UNCHANGED place
  /\ UNCHANGED <<file, borne, owned, cache, reader, troubles>>
SetOwner(j) ==
  /\ job[j].pc = "own" /\ owned' = TRUE /\ Ends(j)
  /\ UNCHANGED <<file, borne, place, cache, reader, troubles>>

------------------------------------------------------------------------------
(* Meanwhile.                                                              *)

Trouble == troubles < MaxTroubles /\ troubles' = troubles + 1 /\ UNCHANGED cache

Replace(c, s) ==
  /\ Trouble /\ c # file.holds /\ file' = [holds |-> c, stamp |-> s]
  /\ borne' = [stamps |-> borne.stamps \cup {s}, twice |-> borne.twice \/ s \in borne.stamps]
  /\ reader' = [r \in Reader |-> IF reader[r].pc = "idle" THEN NoReader ELSE [reader[r] EXCEPT !.saw = @ \cup {c}]]
  /\ UNCHANGED <<place, owned, job>>
\* Others put an empty folder or something of theirs at the place, or clear it, owner and all.
Occupy(what) ==
  /\ Trouble /\ what \in {"nothing", "folder", "things"} /\ place.is # what
  /\ place' = [Nothing EXCEPT !.is = what] /\ owned' = (what # "nothing")
  /\ UNCHANGED <<file, borne, job, reader>>
\* The jobs that ran are run again.
Crash ==
  /\ Trouble /\ Disk /\ UNCHANGED reader
  /\ job' = [j \in Job |-> IF job[j].pc = "idle" THEN NoJob
                           ELSE [NoJob EXCEPT !.pc = IF job[j].pc \in {"stat", "hash", "store"} THEN "stat" ELSE "check"]]

Init ==
  /\ \E c \in Contents, s \in Stamps : file = [holds |-> c, stamp |-> s]
  /\ borne = [stamps |-> {file.stamp}, twice |-> FALSE] /\ cache = {} /\ place = Nothing /\ owned = FALSE
  /\ job = [j \in Job |-> NoJob] /\ reader = [r \in Reader |-> NoReader] /\ troubles = 0

Next ==
  \/ \E j \in Job :
       \/ StartDigest(j) \/ Stat(j) \/ Hash(j) \/ UpsertChecksum(j)
       \/ StartExtract(j) \/ CheckPlace(j) \/ OpenArchive(j) \/ Unpack(j) \/ Fail(j) \/ RemoveAll(j)
       \/ Commit(j) \/ SetOwner(j)
  \/ \E r \in Reader : Look(r) \/ GetChecksum(r) \/ Answered(r)
  \/ \E c \in Contents, s \in Stamps : Replace(c, s)
  \/ \E what \in {"nothing", "folder", "things"} : Occupy(what)
  \/ Crash

Spec == Init /\ [][Next]_vars

------------------------------------------------------------------------------

\* The digest that is answered is that of what the file held at some moment of the question, whatever replaced it
\* while it was hashed or looked up, as long as it was never given a stamp it had borne before
\* (checksum/service.go:3-6, 67-88).
DigestIsOfTheFile ==
  ~borne.twice => \A r \in Reader : reader[r].pc = "answered" => reader[r].digest \in reader[r].saw

\* A tree is seen whole or not at all: every entry of the archive it was unpacked from, with all of its bytes
\* (extract.go:42-47).
TreesAreWhole ==
  place.is = "tree" =>
    /\ Len(place.sizes) = Len(Archives[place.holds])
    /\ \A i \in DOMAIN place.sizes : place.sizes[i] = Archives[place.holds][i].real

\* However the header lies, an extraction writes no more than its budget and the byte that shows the lie
\* (extract.go:16-37, 209-241).
BytesAreBounded == \A j \in Job : Written(job[j].sizes) <= Bytes + 1
=============================================================================
