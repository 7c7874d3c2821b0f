# Zefile: a verification development

TLA+ specifications of Zefile, a self-hosted file server
(one Go process, one SQLite database, one directory tree), with the TLC
configurations that model-check them on small instances and proofs that TLAPS
checks. Paths such as `internal/job/service.go:332` are relative to the
repository. `PROJECT.json` maps every definition to the lines it models.

1. [The system](#1-the-system)
2. [Modules](#2-modules)
3. [Runs, bounds and what they show](#3-runs)
4. [Fairness](#4-fairness)
5. [Proofs](#5-proofs)
6. [Divergences found while modelling](#6-divergences-found-while-modelling)
7. [What is not modelled](#7-not-modelled)
8. [Plan](#8-plan)

## 1. The system

The process keeps two kinds of durable state, which no transaction joins: the
tree of files under the data directory, with the reserved directories
`.zefile-uploads` and `.zefile-trash` in it, and the SQLite database. The
database has one write connection, so a statement (or a transaction) is atomic
and writers never overlap; reads come from other connections. Request handlers
are goroutines; one worker goroutine runs background jobs, and one goroutine
applies the retention policy. Most hazards follow from this shape: a handler
does a step in the tree, then one in the database, then one in memory, and
anything may come in between: another handler, a failing statement, a client
that goes away (which cancels the context of its statements), the end of the
process.

| Component | State | Operations | Hard behaviour | What makes it correct |
|---|---|---|---|---|
| Job queue (`internal/job`) | table `jobs`; map of cancel functions; worker | Enqueue, Run/step, Cancel, Pause, Resume, requeue at start | cancel and pause race the worker; two signals to one run; stop and restart; a lost nudge | one job at a time, results only for it, finished rows final, pauses hold, every job ends |
| Download job (`cmd/zefile/main.go`, `internal/fetch`) | staged file named after the job, destination, owner | stat stage, ranged Get, append, commit, set owner | resume after crash, changing source, one error with four meanings, int64 budget | what is published is whole, published once; staged bytes lost only on purpose |
| Resumable uploads (`internal/upload`, `internal/storage/staging.go`) | table `uploads`; staged files; map of mutexes | Create, Write, Cancel, Offset, PurgeExpired | concurrent PATCHes, cancel under a write, map of locks thrown away, dropped connections | published whole, once; cancel final; bytes kept |
| Web upload client (`web/src/upload.ts`) | what it believes is sent | create, PATCH, HEAD on conflict | 409 has two meanings | never ahead of the server; always ends |
| Tree operations (`internal/storage/local.go`, `copy.go`) | the tree, temporary copies | MkdirAll, Move, Copy, CopyTree | look-then-rename, a tree changing under a copy | the tree stays one; copies whole; nothing left behind |
| Trash and retention (`internal/trash`, `internal/storage/trash.go`) | table `trash`; trashed entries | Trash, Restore, Purge, Empty, PurgeExpired | file step and row step apart; row numbers reused; RemoveAll is not atomic | nothing vanishes unasked; rows and entries agree |
| Ownership and rules by path (`internal/acl`, `file_owners`, `acl`) | rows keyed by path | SetOwner, MoveOwner, MoveRules, ClearOwner, Grant, Revoke | a rename and its bookkeeping are three steps | rows follow their entries |
| Access control (`internal/acl`) | rules, groups, owners | Authorize, CanList, VisibleChildren, groups | precedence is a fold over rows; group deletion in two statements; numbers reused | the verdict depends on depth, subject and denial only; a readable entry can be reached; a rule never changes hands |
| Accounts (`internal/auth/service.go`) | users, invitations | setup, invite/withdraw/accept, promote, disable, delete | checks before transactions, slow hashes between look and write, two administrators at once | a link is used once; an administrator remains |
| Sessions, codes, tokens, limiter (`internal/auth`) | sessions, recovery codes, second factor, API tokens; failures per name, in memory | sign-in, reset, change of password, regenerate, revoke | a handler is four or five statements; row numbers of codes reused; slow verification between the question to the limiter and the count | nothing outlives a revocation that has answered; a code is spent once; attempts are bounded |
| Share links and content origin (`internal/share`, `internal/content`) | shares; signed links, which no table holds | create, resolve, revoke, download, archive, browse | account, rights, share and files change while a request runs | served by right; an archive misses nothing |
| Checksums (`internal/checksum`) | cached digests | Cached, Compute | file changes while it is hashed; time stamps in seconds | a digest belongs to the bytes it is served for |
| Archive extraction (`internal/storage/extract.go`) | temporary tree | ExtractZip | headers that lie, sums that wrap, look-then-rename | all or nothing, within the budget |
| Audit, settings, backup, configuration, geolocation, search, thumbnails, web interface | | | | see [section 7](#7-not-modelled) |

How they interact: handlers (`internal/api`) call storage, trash, uploads and
shares with the caller's subject in the context; storage asks the access engine
(`storage.Guard`) before each operation; handlers then update the rows keyed by
path. Copies of trees, extractions, checksums and downloads are handed to the
job queue, whose worker calls the handler registered in `cmd/zefile/main.go`
with a context it can cancel; retention calls the trash.

`PROJECT.json` lists the hazards with the line where each bites and the
properties that would catch it.

## 2. Modules

| Module | Models | Depends on |
|---|---|---|
| `JobLifecycle` | what the queue promises: the states `toJob` shows and the job being executed | |
| `JobQueue` | `internal/job/service.go` with `jobs.sql` | implements `JobLifecycle` |
| `FetchJob` | the download handler inside the queue | extends `JobQueue`, replacing its handler |
| `Upload` | upload sessions and their handlers | |
| `UploadClient` | the web client, composed with the server | extends `Upload` |
| `Namespace` | tree operations, trash, retention, rows keyed by path | |
| `Acl` | resolution of rules; accounts, groups, members, rules and owners under their handlers | |
| `SignIn` | one account seen from its credentials | |
| `Accounts` | all accounts, seen from their roles and invitations | |
| `Content` | signed links, shares, archives made on the fly | rights as `Acl` decides them, accounts as `SignIn` and `Accounts` leave them |
| `Derived` | cached digests and unpacked archives | its jobs are those of `JobQueue` |
| `JobProofs` | theorems about `JobQueue`, and about `FetchJob` on top of them | `FetchJob`, TLAPS |
| `NamespaceProofs`, `UploadProofs`, `AclProofs`, `SignInProofs`, `AccountsProofs`, `ContentProofs`, `DerivedProofs` | theorems about the module in the name; `UploadProofs` also about `UploadClient` | that module, TLAPS and its theorems about finite sets, sequences and well-founded orders |
| `MC...` (one for each of the modules above that a run checks) | instances for TLC | |

**JobQueue.** `status`, `paused`, `progress` are the columns of `jobs`; `pc`,
`cur`, `err` are the worker's place in `Run`/`step`; `running`, `cause`,
`ctxDone` are the map of cancel functions, the cause of a run's context and the
worker's own context; `call[c]` is a request between its look at the map and
its statement. Each SQL statement is one action (`Claim`, `Conclude`,
`CancelPendingJob`, ...), and so is each access to the map (`Register`,
`Deregister`, `CallCancel`, `Signal`). `Exit` is a crash or the end of a
shutdown; `Boot` and `Requeue` are the next start. `seen` is an observation:
what callers asked for.

**FetchJob.** The steps of `fetchJobHandler` (`hpc`) over the staged file, the
destination and a source whose content has versions, so that bytes of two
versions are told apart. The handler's return goes through the queue's
`HandlerReturn`; pause, cancel, crash and shutdown are the queue's.

**Upload.** A session is a row, a staged file and the request that opened it.
The map of mutexes is a generation number: throwing the map away starts a new
generation, and mutexes of two generations do not exclude each other. A file is
known by its length, because clients send the bytes of one file at the offsets
they belong to. `Write` is cut at every point where the code looks at or
changes the table, the staged file or the destination. `cancelled` is an
observation: the sessions for which a `Cancel` has answered, the one that answers
without doing anything because it finds no row in force (`CancelLoad`) included.

**UploadClient.** `uploadFile` as a process that sends a chunk, is answered or
cut off, asks for the offset after a conflict, and believes something about
what has been sent.

**Namespace.** An entry is a node; `at[n]` is its folder and name, so that
`rename(2)`, which moves a subtree at once, is one assignment. `Place` is a
rename that takes the place of what is there, with the kernel's rules in
`CanRename`. `rows` is the table `trash` with numbers handed out as SQLite does
for an `INTEGER PRIMARY KEY` (one more than the largest there is, hence
reused), `owners` and `rules` are the paths that key `file_owners` and `acl`.
`req[r]` is a request's step and what it has read. `MoveOwner` and `MoveRules`
fail as a whole on a key conflict, as the `UPDATE` does. `PurgeRemove` is
`RemoveAll`, which empties the folder it has opened wherever that has been
moved by now. `kept[r]` is an observation: what a copy has listed, less what has
been renamed or unlinked since, by itself or with a folder above it; `req[r].missed`
is another: the entries that a copy could not look at and passed over, as
`copyDirInto` does on any error of `Lstat` (`CopyEntry`). Requests refused before
they change anything are left out.

**Acl.** `db` holds the five tables; the operators with the names of the SQL
statements are functions from tables to tables. A question (`ask[a]`) takes the
steps of the code: account, groups, rules of the account, rules of the groups,
owners. `Resolve` is the fold of `resolve` over the rows in whatever order the
queries returned them; `Deciding` and `Holds` say without any order what it
should compute: for each bit, the deepest rules that mention it decide, and one
denial among them denies. A row bears the birth of the subject it was written
for, which the table does not have, so that a number that comes back can be
told from its first bearer; `ask[a].truths` collects the right answers while a
question is open.

**SignIn.** `db` is what the tables say of one account. A handler is a chain of
steps, one for each statement and each look at the limiter. `era` numbers what
ends sessions (a reset, a change of the password, a disabling), `floor` is the
last of these whose handler has answered, and a session bears the last one it
need not fear. Codes are told apart by set and place, their rows by numbers
that come back.

**Accounts.** `users` and `invitations` are the tables; a call is let in, looks,
and writes. `spent` counts what became of each token by calls that nothing
overtook, `astray` notes that a caller acted after it had lost its role.

**Content.** One folder with files, what exists, and the account that bears the
one number there is: enabled, disabled or gone (`SetUserDisabled`, `DeleteUser`),
and then another account that was given the number (`CreateUser`, `bearer`), since
`users.id` is an `INTEGER PRIMARY KEY` without `AUTOINCREMENT`. `readable` and
`leading` are what the rules and the ownership of that number come to: what may
be read, and what leads to something that may (`hasReadUnder`). They change as a
whole, to any of `Rights` (`SetRight`, and with the account), because what one
grant does to them is the matter of `Acl`. A folder is listed (`Listing`) by
`CanList` and `VisibleChildren`, as the engine, being a `ListGuard`, has it.
A request collects in `unsettled` whatever changed since it began, and a
property that is about one moment asks for what held or was unsettled. An
archive is written path by path and file by file (`AddToZip`, `ZipDir`, `ZipFile`),
`DiskError` ends it.

**Derived.** One file whose content, with its stamp, is replaced at any time;
digests and trees are computed from it by jobs that a crash sends back to the
start. An archive is a sequence of entries with the size they declare, the size
they are packed to and the size they have; sums of declared sizes wrap at
`Word`.

## 3. Runs

| Run | Instance | Shows |
|---|---|---|
| `job_queue` | 2 jobs (one of a type without a handler), 2 requests, 3 calls, 1 stop, 1 failed statement; fair | the invariants of the worker, its map and the table; finished rows and pauses stay; every job that is not paused ends; refinement of `JobLifecycle` |
| `fetch_job` | 1 job, 2 units, 2 versions of the source, 2 calls, 1 stop, 1 step of another user, 2 amounts of free space, errors anywhere; fair | `PublishedIsWhole`, `DoneMeansPublished`, `PublishedOnce`, `BytesAreKept`, `EveryJobEnds` |
| `upload` | 1 session of 2 units, its declared checksum right or wrong, 2 requests, 3 calls, 1 sweep of the locks, 1 restart, 1 fault, 1 act of another user, 3 instants | `PublishedIsWhole`, `DoneIsSettled`, `CancelIsFinal`, `BytesAreKept` |
| `upload_client` | 2 clients for one name, 2 chunks each, 1 restart; fair | `NeverAhead`, `RequestsEnd`, `ClientEnds` |
| `namespace` | 2 requests at a time, 4 in all, 4 paths, 7 nodes, 2 days, 1 fault or stop | `NothingVanishes`, `RowsHaveEntries`, `CopyIsWhole`, `NoTempLeft` |
| `acl` | 1 question, 2 administrators, 1 account and 1 group (each number may be borne by another later), paths `/`, `/x`, `/x/y`, any 2 rules at the start, 2 at a time, 3 births, 2 changes after the start, 1 of them while the question is open, 1 failed revocation | `VerdictOfAMoment`, `ReachableIsShown`, `RuleStaysWithItsSubject`, `AclTypeOK` |
| `sign_in` | 2 requests, 2 sessions, 2 sets of 1 code, 1 failure allowed, 1 cut, 1 stop, broken call or odd spelling | `SessionsEnd`, `CodesAreSpentOnce`, `AttemptsAreBounded` |
| `accounts` | 2 calls, 2 accounts at a time, 3 tokens, 1 restart, expiry or broken call | `SpentOnce`, `AdminRemains` |
| `content` | 2 requests, a folder of 2 files, 1 link or share, 5 sets of rights, 2 changes (a deletion and a new bearer of the number, for one), 1 restart or error of the disk | `ServedByRight`, `ArchiveMissesNothing` |
| `derive` | 2 jobs, 1 reader, 5 archives, 2 stamps, 2 replacements, crashes or acts of others; a budget of 6 bytes in a word of 16 | `DigestIsOfTheFile`, `TreesAreWhole`, `BytesAreBounded` |
| `upload_client_taken`, `trash_retention` | the smallest instance with the case | the findings of `PROJECT.json`, [section 6](#6-divergences-found-while-modelling) |

Further configurations are kept beside these. Each checks one property, taken
from a comment or a document of the repository, that TLC refutes, and is
explained in section 6: `MCJobQueueDirect`, `MCFetchJobCancel`,
`MCFetchJobCrash`, `MCUploadLocks`, `MCUploadCancel`, `MCNamespaceMove`,
`MCNamespaceCopy`, `MCSignInReuse`, `MCContentWhole`, `MCContentReuse` (for instance `tlc -config MCSignInReuse.cfg MCSignIn`).

Why the bounds are enough to be interesting. Two requests beside the worker (or
beside each other) give every pairwise race; three or four calls allow a third
party to use what the first two freed (a row number, a destination, a mutex),
which is what `trash_retention` needs. One stop and one fault at any point
cover each crash window once. Two units are the smallest file with a partial
state; two versions the smallest source that changes. In `namespace`, two names
at the root and one below are enough for a folder with content, a move into and
out of it, a conflict of rows beneath a folder, and a copy that changes while
it is made; running out of nodes is a full disk. In `acl`, two levels of
folders and two rules are the smallest instance in which depth, kind of subject
and sign can disagree, and one number for accounts and one for groups is enough
for it to be given out again; one change while the question is open is where
the answer of four queries still is the answer of one moment
([section 6](#6-divergences-found-while-modelling)). In `sign_in`, two
requests race every pair of handlers and the single-step handlers run between
any two of their statements; two sets of one code suffice for a number that
comes back. In `accounts` two accounts can act on each other, and the third
token lets a number of the table be reused. In `content` two files are enough
for an archive that has one and not the other. In `derive` the five archives
are one for each way to be refused or accepted, with two entries because the
budget is shared between entries. Where a configuration sets
`CHECK_DEADLOCK FALSE`, the instance stops because its calls are used up.
Symmetry is used for interchangeable requests and names, never in a run with a
liveness property.

Every listed property of a passing run has a mutant in the module it is about:
a definition marked `Mutant:`, a plausible mistake in that code, under which
the property fails. `FetchTypeOK`, `ClientTypeOK`, `PausedIsPending` and
`MapIsTheRun` are stated beside the listed ones and hold too; the last two are
part of the invariant that is proved.

## 4. Fairness

* The worker: Go schedules a runnable goroutine; `Run` polls every few seconds
  even if a nudge is lost (`internal/job/service.go:231-258`), hence `WF` of
  `WorkerStep`.
* A handler returns: it copies a finite file or reads a source under a stall
  timeout (`internal/fetch/stall.go`).
* The process starts again: `deploy/docker-compose.yml:11`, `restart:
  unless-stopped`. Crashes and shutdowns themselves are never fair.
* Requests take their next step. For an upload this includes the client: the
  server has no read deadline for bodies (`cmd/zefile/main.go:256-261`), so that
  a body ends or its connection dies is the client's doing, and part of
  `RequestsEnd` and `ClientEnds` as an assumption.
* No fairness is assumed for `Namespace`, `Acl`, `SignIn`, `Accounts`, `Content`
  and `Derived`, which have safety properties only: their handlers end by
  themselves, one statement after the other, and wait for nothing.

## 5. Proofs

Every safety property that a passing run checks is proved, for every value of the
constants that satisfies the module's `...Assumption`, which asks only for what
the code has (bounds that are naturals, sizes and limits that are not zero, paths
that are sequences of names) or what the model needs of its own notation (in
`Namespace`, that the name an absent entry bears is no name of a file). None of the properties is inductive alone.
Each `...Proofs` module states the strengthening `IInv` as a conjunction of named
parts, shows `Init => IInv` and `IInv /\ [Next]_vars => IInv'` (`InitIInv`,
`NextIInv`, one lemma for each handler or group of steps), and draws the theorems
from it. Each `IInv` was checked with TLC on the instance of the run before it
was proved. `PROJECT.json` lists the theorems with the property each one states.

| Module | Theorems | Hypotheses beyond the assumption |
|---|---|---|
| `JobProofs`, about `JobQueue` | types, `RunOwnsRow`, `NoRunningRowLeftBehind`, `OutcomeWasAsked`, `FinishedStays`, `PauseHolds`, refinement of `JobLifecycle` | |
| `JobProofs`, about `FetchJob` | `FetchSpec => Spec` of the queue; types, `PublishedIsWhole`, `DoneMeansPublished`, `PublishedOnce`, `BytesAreKept` | `Roomy` for `PublishedIsWhole` |
| `NamespaceProofs` | `NamespaceTypeOK`, `RowsHaveEntries`, `NoTempLeft`, `CopyIsWhole`, `NothingVanishes` | |
| `UploadProofs` | types, `PublishedIsWhole`, `DoneIsSettled`, `CancelIsFinal`, `BytesAreKept`; `WritesExclude`; `ClientSpec => Spec`, `NeverAhead` | `MaxSweeps = 0` for `WritesExclude`; `Purging = FALSE` for `NeverAhead` |
| `AclProofs` | resolution, `AclTypeOK`, `RuleStaysWithItsSubject`, `VerdictOfAMoment`, `ReachableIsShown` | |
| `SignInProofs` | `SessionsEnd`, `CodesAreSpentOnce`, `AttemptsAreBounded` | finitely many requests for `AttemptsAreBounded` |
| `AccountsProofs` | `SpentOnce`, `AdminRemains` | |
| `ContentProofs` | `ServedByRight`, `ArchiveMissesNothing` | |
| `DerivedProofs` | `DigestIsOfTheFile`, `TreesAreWhole`, `BytesAreBounded` | |

**JobProofs, the queue.** `IInv` adds: `RunHasJob`, the worker has a job exactly in the
steps between claim and deregistration; `CallsMatch`, a request that is about to
signal a run, or to write a row, names a job that exists, what it asked for has
been noted, and a cancel function it holds that still works is the one of the
job being run; `CauseWasAsked`, the cause of a run's context was asked for, so
that `Conclude`, which reads the cause, writes only asked-for outcomes;
`ConcludedRow`, after `Conclude` the row is not running unless a statement
failed or the worker's context is cancelled. The action properties and the
refinement follow step by step under `IInv` (`StepKeepsFinished`,
`StepKeepsPause`, `StepImplements`). The refinement mapping shows a paused
pending row as "paused", as `toJob` does, and the job between claim and
conclusion as the one being executed.

**JobProofs, downloads.** `DownloadsAreJobs`: every step of a download is a step of the
queue or none, so that all theorems about the queue hold of downloads, and
`FInv` only speaks of files. `PlacesFit` ties the handler's place to the
stage (its offset is the length of the stage, `left` is what is missing of the
file); `StagesFit` and `WholeIfOurs` say that what is staged or published is of
one version if there was one; `AloneAtTheDestination`, that while nobody else
has been there, a job that published has left its file in place, so that every
later run is refused. `Roomy` (free space less the reserve is below the largest
`int64`) is needed: beyond it the budget of the copy overflows
(`cmd/zefile/main.go:428`) and a stage cut short is published.

**NamespaceProofs.** `IInv` has three parts. *The tree*: `TreeStands` (`Sound`) is the
type invariant with what its preservation needs: who stands nowhere has no name,
an entry in the trash bears a name that was drawn, one in the temporary directory
its own number. *Rows and requests*: `RowsFit` and `RequestsFit` say that each
request has what its step uses; `HeldIsTheRow`, that what a request holds under
the name of a row is that row, however long ago it was read, since names in the
trash are drawn once while numbers come back; `RecordsAreNew`, that an entry
whose row is not written yet is in the trash and known to nobody else;
`MissingIsCleared`, that a row without its entry is about to be deleted by the
request that took the entry. `RowsHaveEntries` is the last of these at rest, and
it holds although `DeleteTrash` goes by numbers: the statement that could delete
the wrong row strands an entry, never a row
([section 6](#6-divergences-found-while-modelling)). *Copies*: `TempsStand` gives
each copy a temporary tree of its own, into which no purge has a folder open;
`TodoIsOpen` and `KeptIsCopied` say that each entry that was listed and has
stayed is where it was, and is done, still to do, with its folder made, or was
missed because the look at it failed.
`NoTempLeft` follows at rest, `CopyIsWhole` at the step that publishes, where
nothing is left to do.

Two definitions have to be reasoned about by what they compute. `Walk`, a fold
along a path, is shown to take one step after the other (`WalksOn`), so that two
trees that agree along a path agree at its end. `Inside` is shown to be the least
set of nodes that holds the node and is closed under being contained. Both are
inductions, one over the length of a path, one over the nodes that are left to
add, made by taking a least counterexample. Each change of the tree then has a
lemma: an entry that is made, placed or taken away leaves the tree sound, and
leaves every temporary tree alone that is `Apart` from it. `NothingVanishes` goes
by the same changes: a node that stands before and not after was unlinked by a
purge, was in a temporary tree given up, or lay where a rename put something
(`LossIsAskedFor`).

**UploadProofs.** Nothing but `WritesExclude` rests on the mutex. What a request
has found or written is still there unless the whole stage is gone
(`StageIsMonotone`: a stage is never shortened), so from `finish` to the rename
a stage is whole or gone (`WholeOrGone`), whoever else writes; a stage that was
published never comes back (`StagedIsUnpublished`), so one session publishes
once. `CancelIsFinal` needs that a session Cancel has answered for has no row, or
an expired one, and that without a row there is no staged file
(`CancelledIsGone`), both for good; `BytesAreKept` that a staged file is no older than its row
(`TouchedAfterOpened`), which makes the sweep of old files a case of expiry.
`WritesExcludeUntilTheSweep` shows that the sweep of the map of locks is the
only thing between the code and the comment it contradicts in
`MCUploadLocks.cfg`. For the clients, `Waits` says that the requests of a
session are those of its client, which has one at most unless it has given up,
and `ToldIsStaged` that an answer "ok" is true when it arrives. `NeverAhead`
holds while staged files are not swept; nothing calls `upload.PurgeExpired`
([section 6](#6-divergences-found-while-modelling)).

**AclProofs.** `ResolutionIsRight`: for any finite sequence of rules in any order,
the fold computes `Holds`. The argument is an induction over the length of the
sequence (`FoldsExist`, `FoldTakesEach`, `FoldSays`), made by taking the least
length at which it fails. About the tables, `Kept` says that every row refers to
what exists, and the births in `RuleStaysWithItsSubject` follow. For
`VerdictOfAMoment`: until a statement comes in between, what a question has
loaded is what the tables hold (`UndisturbedSeesTheTables`); every statement
changes at most one of the parts a question goes by (role, groups, rules of the
account, rules of the groups, owner: `Close`, with one lemma for each
statement); so after one statement the answer to come is that of before or of
after it, whichever queries have run (`AnswersOfAMoment`). That one statement is
the limit is not for the proof's sake: with two, the answer may be that of no
moment. `ReachableIsShown` is a property of rules alone: a rule that decides for
a path applies to it, and its folder is above or beneath every folder on the way.

**SignInProofs.** `SeenSinceTheFloor`: the floor, below which no session may
live, is a write that was made; a cut on its way to delete the sessions has
been written; and a sign-in that has read the account read it after the floor,
or was under way when the floor rose: the code does not promise to end the
session such a sign-in opens, and the model lets it bear the new floor. For the codes: rows have distinct numbers
(`RowsAreDistinct`, from `FreshIdIsNew`), a request that marks a row by number
holds the code of that row if the code's set is still in force
(`MarkIsOfTheCode`), and an accepted code's row is marked (`AcceptedIsMarked`);
marking is one conditional statement, so the second of two requests finds no
row. For the limiter: failures counted and attempts let in together never
exceed `Limit` and the requests there are (`RoomIsShared`, by cardinalities of
finite sets).

**AccountsProofs.** A token that was spent cannot be found, withdrawn or held by a
call that nothing overtook (`SpentIsGone`, `HoldersHaveRows`,
`InvitationsAreDistinct`). A caller changes another account than its own
(`OthersAreChanged`) and is an administrator when it writes, unless it is
counted as `astray`; so it is itself the administrator who remains.

**ContentProofs.** `Rightful`: a request in service goes by a link that is alive,
an account that is enabled and files that are reached or shown, or holds the fact
that changed since it began. None of this says whose account it is
([section 6](#6-divergences-found-while-modelling)). `Collects`: of each selected path, it is yet to be
walked, or what it should bring is in the archive or about to be. The lemma
`WorldMoves` shows both to survive any change of facts that are marked as
unsettled.

**DerivedProofs.** `StampsTell` follows a stamp from the look before the hash to
the row and to the question: as long as no stamp is borne twice, the digest that
goes with it is that of what the file held. `UnpacksInOrder` bounds what is
written before each entry; `CeilingIsLeft` bounds the entry. That `Written`, a
fold, adds up is an induction over sequences, again by least counterexample
(`WrittenIsSum`). Sums of declared sizes may wrap: no theorem depends on them.

Only model-checked:

* liveness (`EveryJobEnds`, `RequestsEnd`, `ClientEnds`), which needs fairness and
  `ENABLED`, out of the provers' reach;
* the violations of [section 6](#6-divergences-found-while-modelling), which are
  counterexamples and need no proof;
* that the order-free definition in `Acl` is what the documentation means, and
  that the instances reach the cases: reading, runs and mutants.

## 6. Divergences found while modelling

With a configuration that exhibits them:

* **An upload reported as done and never published** (run
  `upload_client_taken`): two conflicts share one status.
* **Retention may erase a new deletion** (run `trash_retention`): it purges by
  numbers listed earlier, and row numbers are reused.
* **A Cancel can be lost** (`MCJobQueueDirect.cfg`, `DirectCancelFinishes`):
  `Cancel` looks the job up in the map and otherwise issues `CancelPendingJob`,
  which only touches a pending row. Between `ClaimNextJob`
  (`internal/job/service.go:260`) and `register` (`:278`) a job is neither, and
  Cancel returns without effect and without error; `:324-326` says that a
  running job "is signalled" and a pending one "marked cancelled directly".
* **Cancelling a paused download keeps its bytes** (`MCFetchJobCancel.cfg`,
  `CancelDiscardsStage`): the stage is discarded only after a failed
  `AppendToStage` (`cmd/zefile/main.go:434`); docs/features/files.md:65-66 says
  "cancelling discards the partial".
* **A download that is complete when interrupted fails on resume**
  (`MCFetchJobCrash.cfg`, `InterruptionIsNotFailure`): it asks for an empty
  range and is answered 416 (`cmd/zefile/main.go:376`,
  `internal/fetch/fetch.go:189`); main.go:345 says "a crash mid-download resumes
  on the next start".
* **Two writers in one upload** (`MCUploadLocks.cfg`, `WritesExclude`): the map
  of mutexes is replaced while mutexes of it are held
  (`internal/upload/service.go:346`); `:83-86` says that the second request
  waits.
* **An upload may appear after its Cancel** (`MCUploadCancel.cfg`,
  `CancelAbandons`): for a session whose row has expired `Cancel` answers without
  discarding anything (`internal/upload/service.go:282-289`), and a `Write` that
  loaded the row before goes on to publish; `:280` says "Cancel abandons a session
  and deletes what was received". `CancelIsFinal` sets exactly this case apart.
* **A move can leave rules behind** (`MCNamespaceMove.cfg`, `MoveCarriesRules`):
  an owner row at the destination makes `MoveOwner` fail as a whole, and
  `handleMove` returns before `MoveRules`
  (`internal/api/fs_handlers.go:131`); `:128-130` says that "a rename has to
  carry them across".
* **A copy may miss what was there** (`MCNamespaceCopy.cfg`,
  `CopyMissesNothing`): an entry at which `Lstat` fails is passed over whatever
  the error (`internal/storage/copy.go:228-231`), not only when it has vanished,
  and the tree without it is published and the job done; `:97-99` says "an
  interrupted copy never leaves a partial tree where callers can see it".
  `CopyIsWhole` promises the rest: what was looked at and stayed is there.
* **A replaced recovery code may be accepted** (`MCSignInReuse.cfg`,
  `OldCodesStop`): a request that found a code among the unused ones marks it
  later by the number of its row. If the codes were regenerated in between, the
  new rows have the old numbers (`id INTEGER PRIMARY KEY` without
  `AUTOINCREMENT`, 00003_recovery_codes.sql:8): the old code is accepted and a
  new one, never shown to anybody, is used up. recovery_handlers.go:54 says "Any
  previous codes stop working immediately".
* **An archive ended by an error is closed as a whole one**
  (`MCContentWhole.cfg`, `ArchiveIsWhole`): after the error the loop is left and
  `zw.Close` writes the directory of the archive
  (`internal/content/server.go:178`), so that the client sees a complete archive
  with files missing; the comment at `:172-173` says "rather than pretend the
  archive is whole".

* **A link outlives its account** (`MCContentReuse.cfg`, `ServedAsMaker`): a
  signed link carries the number of an account (`internal/content/signing.go:73-76`)
  and no table holds it; after the account is deleted the next one may get the
  number (00001_initial_schema.sql:21), and `ContextFor` (`internal/acl/loader.go:33`)
  takes the link for one of its own. server.go:97-98 says "against the account the
  link was minted for". What is served still goes by the rights the new bearer
  has at that moment, which is what `ServedByRight` says.

Seen in the models without a run of their own:

* A Cancel after a Pause of the same run is lost: the cause of a context is its
  first (`internal/job/service.go:332`).
* A process that dies between the rename of a download and `SetOwner` leaves a
  file without an owner; the job fails on the next start because its name is
  taken (`cmd/zefile/main.go:443-446`). The same holds for copies
  (`:294`) and extractions.
* `budget+1` overflows when the free space is at least `MaxInt64`
  (`cmd/zefile/main.go:428`).
* Two publishers of one name: `CommitStage`, `CopyTree`, `ExtractZip` and
  `Restore` look at the destination and then rename onto it; a file that came in
  between is replaced, although copy.go:99 says "an existing destination is
  never overwritten".
* The user who opened an upload last owns a file that another upload published
  (`internal/api/upload_handlers.go:71`).
* A session expires a fixed time after it was opened, however active
  (`internal/upload/service.go:149`); nothing calls `upload.PurgeExpired`
  (docs/features/trash.md:12 says fragments are purged).
* A file of length zero is reported as uploaded without a request that would
  publish it (`web/src/upload.ts:70`).
* A number that is reused also strands entries: a second purge of one item ends
  with `DeleteTrash` of a number that by then belongs to a new deletion, whose
  entry stays in the trash directory without a row. The same state follows when
  the row of a deletion cannot be written and the undo is refused, for instance
  because the context that failed the statement also fails the authorisation
  (`internal/trash/service.go:67-70`), and when the process dies between the
  two steps.
* A folder renamed while it is copied: its entries are looked up by path and
  passed over when not found, so the job ends done with part of the tree
  (`internal/storage/copy.go:226-230`).
* Rows of `file_owners` and `acl` beneath a trashed folder stay, and apply to
  whatever is created there next (`internal/api/fs_handlers.go:371`).
* A source that changed between two runs of a download is spliced onto the old
  bytes: the range request carries no `If-Range` (`internal/fetch/fetch.go:188`).
* Access control. A question reads four tables in four queries: with two changes
  in between, its answer may be that of no moment, and while an account is being
  deleted its memberships, denials among them, are gone a statement before its
  own rules are. A grant whose check preceded the deletion of its subject, and
  rules whose removal failed, wait for the next bearer of the number; a removal
  that comes late takes the rules of the new bearer. `Revoke` is by a row number
  that may have changed hands. `CanList` says that a folder may be
  listed "if it leads to something they can read"
  (`internal/acl/engine.go:105-106`): a file that is readable because it is
  owned does not count, nor does one that a rule further up makes readable
  through a folder whose own denial is not inherited.
* Sign-in. A sign-in that verified the old password opens its session after the
  reset has ended the others. A rehash writes back the hash of the password it
  has verified, over a reset that came in between
  (`internal/auth/service.go:547-557`). The limiter is asked under the name as
  typed and counts under the normalised one, so another spelling is always let
  in. Two regenerations at once leave a mixture of both sets. API tokens survive
  resets and changes of the password.
* Accounts. Two setups at once make two administrators, two acceptances at once
  two accounts of one link (invitations.sql:7-8 marks it used without a
  condition). Two administrators who demote, disable or delete each other at the
  same time leave none (`internal/api/user_handlers.go:32` compares only a caller
  with its target). Setup opens again when every account is deleted, although
  `internal/auth/service.go:67-69` says "It stays closed even if every account
  is later deleted".
* Shares. The path of a share does not follow a rename. A download is counted
  and logged in two statements that may part. Folders are accepted without a
  password although `internal/share/service.go:113-115` says "Folders are
  refused".
* Digests and trees. A file that is replaced while it is hashed, and later
  replaced by one with the first one's size and second, is answered with the
  wrong digest; `DigestIsOfTheFile` sets that case apart. The rename of a tree
  takes the place of an empty folder made meanwhile
  (`internal/storage/extract.go:44` says that it never overwrites). A crash
  between the rename and `SetOwner` leaves a tree without an owner, and the job
  fails on its next start because the place is taken. A crash leaves its
  temporary tree.

## 7. Not modelled

Functions of data that unit tests reach well: password hashing, one-time
codes, the shape of names, Unicode resolution of paths, address checks and
redirects of the fetcher, signatures. Read-only parts: listings, search,
thumbnails, audit listing, geolocation, the interface. Backup and restore are
commands of their own: sequences of file copies with nobody beside them. The
audit log is appended to and never read to decide; settings are read per call.

Left out of modules that exist: in `Acl` the administrator behind a handler is
never the object of one (`Accounts` has that), and groups have no names; in
`SignIn` there is one account and the limiter by address is missing; in
`Content` there is one folder, downloads in pieces are not told apart, and the
groups and the role of a caller, which a request reads once, are taken with its
rights as if read at every step; in
`Derived` names that lead out of the tree and kinds of entries are checked by
functions of data. In `Namespace` there are files and folders only (a copy skips
anything else), and the removal of an abandoned copy is taken to succeed, although
`copy.go:147-151` ignores its errors: `NoTempLeft` says that every failing path
removes its tree, not that the removal works. In `FetchJob` and `Upload` the access engine appears as the
set of users allowed to write the destination.

## 8. Plan

What could come next: extraction and checksums run as jobs as downloads do, so
`Derived` could be shown to implement the queue in the way `FetchJob` is; and the
keys of `owners` and `rules`, of which `NamespaceTypeOK` only says that they are
paths, could be followed through moves, deletions and restores when no statement
fails and no row stands in the way.
