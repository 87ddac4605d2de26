# kemono-downloader in TLA+

TLA+ specifications of the program in this repository: what its threads, its retries, its scheduler and its
database keep true, model-checked with TLC on small instances and, for nine components, proved with TLAPS
for every value of the constants. Lines such as `creator.py:449` are lines of the repository
(`core/creator.py`). `PROJECT.json` lists the runs, maps each definition to the lines it models, and holds
the hazards, the findings and the theorems.

## 1. The system

`app.py` is the container's process. It runs `download.py` as a subprocess, once or on a schedule
(`scheduler.py`). `download.py` goes through the creators one by one; a `Creator` reads its posts from the
API (`kemono.py` over `network.py`), detects files, drops those whose hash the database (`db.py`) has, and
downloads the rest (`file.py`, `external.py`) with a pool of threads, unpacking archives (`files.py`) in the
same threads. `reconcile.py` is a second program over the same database.

| Component | State it keeps | Operations | What makes it correct | Module |
|---|---|---|---|---|
| Request pacing, API calls (`network.py`) | `_next_request_at` under a lock | reserve a slot, sleep, send, retry with back-off | requests start apart, across threads; no thread waits for more slots than there are threads | `RequestPacer` |
| Kemono pool, mirror block (`creator.py:387-456`) | `_mirror_blocked`, the pool's queue, results | probe, pool, check, mark, unwind on an exception | the block stops a creator's downloads and no more; every file has an outcome; nothing outlives its creator | `MirrorPool` |
| Fetch of one file (`file.py:95-185`) | temp file, attempts, resume offset | request, 200, 206, 404, 403, 416, chunk, broken connection, retry | the file is whole, a failure leaves nothing, it ends | `KemonoFetch` |
| Drive and Mega downloads (`creator.py:418-530`, `external.py`, `file.py:187-218`) | `_gdrive_blocked`, the temp folder of each link | Drive loop, Mega listing, `megatools`, checks | one rejected request per creator, partial files are not recorded, whole ones are kept | `ExternalFiles` |
| Library (`creator.py:315-385, 532-659`, `db.py`, `file.py:220-239`, `files.py:143-183`) | files on disk, the files table, `Creator.hashes` | detect, fetch, move, save, extract, drop or claim an entry, delete a failed archive | no duplicates, rows and disk agree, nothing is lost or fetched twice, over runs and crashes | `Library` |
| Scheduler (`scheduler.py`, `app.py`) | `_shutdown`, `_current_process` | loop, sleep, spawn, wait, stop | one run at a time, a stop reaches the run and ends the container | `Scheduler` |
| Loop over creators (`download.py`) | the run's summary | next creator, `except Exception` | a creator that fails costs only itself | in `MirrorPool`, `ExternalFiles` |
| Detection (`creator.py:106-343`, `kemono.py`) | posts read, `Creator.hashes`, `external_urls` | pages of posts, filters, dedup, listings | no post, file, embed or link is missed or queued twice | `Detection` |
| Passwords, extraction, `.conf` files (`creator.py:561-623`, `files.py`, `conf.py`) | `ARCHIVE_PASSWORDS`, its file, the folders in `TEMP_DIR`, the lock | gather, try, unpack, move, learn, rewrite | learned passwords are tried and kept, extraction returns the whole archive | `Unpack` |
| Reconcile (`core/management/reconcile.py`) | the files table | walk, look up, hash, insert a file, an entry, a straggler | rows tell what is on disk, also while a run goes on; what is on disk is not fetched again | `Reconcile` over `Library` |
| Summary, album creator, `utils.py`, `ext/` | - | rendering, one HTTP request, text, C code | - | not modelled |
| Cleanup, deduplicate (`core/management`) | - | nothing calls them | - | not modelled |

How they meet: the pacer is called in front of every request of `KemonoFetch` and of the API; `Detection`
fills the queues of `MirrorPool` and `ExternalFiles`, the two halves of `download_all_files`; the start and
the end of a download in `MirrorPool` are a `FileTransfer`, which a whole `KemonoFetch` implements, followed
by `Library`'s steps for the file; `Unpack` is what `Library` takes for one step (`ClearFolder`,
`UnpackFails`); `Reconcile` is composed with `Library`, each step of the one between any two of the other;
`Scheduler` owns the process all of this runs in, and `OneRunAtATime` is what lets `Library` and
`KemonoFetch` assume that one `download.py` writes `DATA_DIR` and the database at a time.

What is hard here: steps of several threads between a check and the action that rests on it (the block flag,
the hash set, the slot and the sleep, `_current_process`); exceptions that leave a pool through
`fut.result()`; files resumed over many attempts; runs that end half-way and what the next one concludes
from the database; `TEMP_DIR` and the table, shared by processes; lists of posts and folders that change
between two looks at them.

## 2. Modules

Each component is one module, `MC<module>` gives its constants for TLC (a few files, two or three threads)
and `<module>_proofs` holds theorems. Operators with a comment that begins with `Bug:` are no part of a
specification: each is a plausible error in the code, written as an alternative form of the definition after
it, and shows that a property notices it when it takes that definition's place.

**RequestPacer** (`network.py`). A thread calls, `Reserve`s a slot (the block under `_request_lock`),
`Sleep`s outside of it, `Send`s, and gets an answer: success, nothing usable, or an error that is retried
after `Backoff`. Time is discrete; a thread is at most `MaxLag` ticks late, so the clock (`Tick`) waits for
threads whose deadline has come. `granted` and `starts` are history. As the clock waits for threads, the
module says nothing about whether calls return: it has no fairness and no liveness property.

**MirrorPool** (`creator.py`, `download.py`, the flag in `network.py`). The main thread's `phase` is
`begin`, `probe`, `pool` or `unwinding` (an exception came out of `fut.result()` and the executor finishes
its queue). A worker takes a file, reads the flag (`Pass`, `Refuse`), `Start`s and `End`s the download, and
`Mark`s the flag in steps of their own. `Toggle` is the mirror that starts or stops blocking. A download
that runs across a toggle can be answered either way.

**Downloads** is the abstract specification of what `main` takes `Creator.download` to be: no threads, flags
or links, but files of the running creator that come to an outcome (`Settle`), a creator that ends when all
its files have one or it has failed (`End`), and all creators got past. Both halves of `download_all_files`
implement it (`Returns`): `MirrorPool`, where a file whose download raised has no outcome (`Settlement`), as
the exception leaves the future, and `ExternalFiles`, whose outcomes are those of `Downloads` as they are.

**KemonoFetch** (`File._fetch_kemono`). The file's bytes are numbered, so the temp file is a sequence that
tells loss, repetition and disorder apart. `Attempt` reads the size and asks for the rest; `Partial` (206),
`Full` (200) and `Reject` (404, 403, 416, others) are the answers; `Chunk`, `EndOfBody` and `Interrupt` the
body; `GiveUp`, `Unsatisfiable`, `GotFurther`, `CountFailure` and `NoProgress` the branches of the except
clause. `Wipe` is `config.init()` of another process; `linked` is whether the open file is still the one in
the directory.

**Library** (`creator.py`, `db.py`, `files.py`, `file.py`). A run starts with the hashes in the table, each
worker fetches, moves, saves and unpacks its file, with a step per locked section and per change of the
disk. `Edit` changes the posts between runs (a re-upload has a new hash and the same path), `Raise` is an
exception nobody classified, `Crash` ends the process anywhere. `log` is history that the properties'
exceptions refer to (what was extracted, kept, cut short, overwritten).

**Collection** is the abstract specification of what the runs do to a creator's table: without files,
workers, archives or order, a run wants what is posted and not recorded, an entry is claimed when nobody has
recorded it or is about to, what is wanted is recorded once, only the row of what failed goes, and a run
ends when nothing is wanted any more, or with its process. `Library` implements it (`Collects`): wanted are
the hashes of queued files, of files in a worker's hands until their row is committed, and of claimed
entries.

**ExternalFiles** (`creator.py`, `external.py`, `file.py`). The Drive loop in the main thread, then the Mega
pool: a link's worker lists its folder (`List`; files can be gone), `megatools` makes a listing of its own
when it downloads (the numbers it is given can mean other files by then: `chosen`), writes parts of files
(`Write`), succeeds, fails or is killed (`Break`), and the files are checked one by one against the size
shown, which is missing for `Unsized` files and another number than the file's for `Rounded` ones. A
`ListingError` is no `DownloadError` and leaves the task (`ListFails`). `Advance` is every step of a worker
but `Write`.

**Scheduler** (`scheduler.py`, `app.py`). `pc` is in `run_loop` or `run_once`, `handler` in `stop`; Python
runs a handler in the main thread, so with a schedule the two interleave at each statement, and without one
the handler interrupts `run_once`. `Popen` is two steps, the start of the process and the assignment of
`_current_process`.

**FileTransfer** is the abstract specification of a fetch: in one step the file is there and whole, or an
error is returned and nothing is left; only after a disturbance may the content be something else.
`KemonoFetch` implements it under a refinement mapping of its outcome and its temp file (`Transfer`).

**Detection** (`creator.py`, `kemono.py`). `ReadPage` reads a page at its offset in the list of posts as it
is at that moment; `Publish`, `Remove` and `Import` change the site at any time, during a listing too.
`Detect` is one turn of the loop over the posts, with the dedup by hash and identity and the title's filter
in the order of the code. `types` is what `ALLOWED_TYPES` says of embeds and links. Both are in the post's
content; for a `Truncated` post that is another request (`Requested`), and when it fails (`content` is
FALSE) the post has neither, while its other files are queued as usual. `Download` records what succeeds,
and the next run starts from the table.

**Unpack** (`creator.py`, `files.py`, `conf.py`). A worker of the Mega pool takes an archive, records it,
gathers the passwords, and tries one after the other: `Begin` removes the directory in `TEMP_DIR`, which is
named by the archive's content, `WriteEntry` and `Move` are steps of `extractall` and `recursive_move`. A
password that works is learned (`Unknown`, `Learn`, `OpenConf`, `WriteConf`: look, append and the two halves
of the rewriting are apart). `AskLock` and `CreateLock` are the two steps of `get_thread_lock`. `Edit` is
the user at the `.conf`, between runs and during one.

**Reconcile** (`reconcile.py`) EXTENDS `Library`: `RNext` interleaves its steps (list a folder, look a path
up, hash the file, insert the row) with all steps of `Library`, and `LoseDatabase` removes the table between
runs. `loose` is the set of rows of entries without a `parent_archive_id`; the variable is `Library`'s,
where `HasChildren` and `SaveEntry` use it. Two kinds of files are added to those of `Library`, for
reconcile comes to them, too. External files: a run downloads them after kemono's (`LinkStep`), leaves out
those a row of the type `external` has the identity of (`KnownLinks`), and reconcile records them as
`attachment` (`InsertLink`). Entries with a number only (`Numbered`): those a worker has extracted and not
come to, or that it never came to (`leftover`); reconcile passes over them (`Hash`). What reconcile expects
(`Start`) is any part of the posts' files, as a page or a post's content may not be read.

## 3. Runs

| Run | Instance | Shows |
|---|---|---|
| `pacer` | 2 threads, 2 attempts of a read and 1 of a write, interval 2, lag 1, horizon 1; 349 090 states | starts are apart by the interval minus the lag; waits are bounded |
| `pool` | creators with 4 and 2 files, 2 workers, 2 toggles; 564 409 states | the five properties of the block and the pool, implements `Downloads` |
| `fetch` | 3 blocks, 3 attempts, 1 wipe; 4 992 states | whole unless wiped, bounded requests, implements `FileTransfer` |
| `fetch_wiped` | same | finding 1 |
| `library` | 2 posted files of 4 (an archive and its re-upload, a second archive, a picture that is an entry; one entry with an unwanted extension), 2 workers, 2 runs, 1 edit, 1 fault, three settings; 1 891 377 states | the type invariant, the five invariants, `NoRefetch`, implements `Collection` |
| `library_failed_archive`, `library_reupload` | same, shipped settings, no faults | findings 2 and 3 |
| `scheduler` | 4 values of `CRON_EXPRESSION` (empty, 2 valid, 1 invalid), 3 runs, 2 signals, 2 changes; 57 183 states | one run at a time, late runs, the signal, exit |
| `external` | creators with 2 and 1 Drive files, a Mega folder of 2 (one with a rounded size) and a lone Mega file (without a size), 2 workers, 2 attempts; 821 471 states | the block, partial and whole files, outcomes, implements `Downloads` |
| `unpack` | 3 archives, two of them with equal bytes, 4 passwords (one blank, one that is stripped to another), 2 workers, 2 runs, 1 edit, 1 fault; 821 672 states | whole extraction, why an archive fails, passwords kept, repeats bounded |
| `detection` | 5 posts in pages of 2, 2 pages, a file, an embed and a link in two posts each, two posts without their content in the list, one post filtered out, any types, 2 changes, 1 failure; 589 025 states | what is missed, queued once, queued at all, recorded in the end |
| `reconcile` | an archive, a picture that is its entry, an external file, 1 worker, 2 runs, 1 edit, 1 fault (a crash, an exception or a lost table), 1 reconcile; 4 149 412 states | rows tell the disk, entries have their parent, what on disk is downloaded again |

Why the bounds are enough. Two threads give every race of a check with an action, as each race is between
two of them; four files for two workers leave some queued when the block hits. Three blocks and attempts
give a resume of a resume and a restart after progress. A re-upload needs two runs and one edit; one fault
puts a crash or an exception at every step. With three scheduled runs there is one before, one during and
one after a stop. A lone creator cannot show what the next creator's first file does: there are two. Two
workers with equal archives meet at each step of `extract`; the second run of `unpack` reads the `.conf` the
first one wrote. Two changes during a listing of two pages give a post that is read twice and one that is
missed, and both in one run. One reconcile next to one worker gives each place of `insert_file` between each
step of a run; the second run shows what the table it left leads to. A crash and a lost table are not in one
behaviour of that run; the theorems are about any number of both.

Deadlock is checked in each run: a system that may stop has a `Finished` step with its condition. Symmetry
is used for the workers of `MCLibrary` and `MCUnpack`, whose runs have no liveness property.

### Fairness

- `MirrorPool`, `ExternalFiles`: of the main thread and of each worker. A download ends (`FileTransfer` says
  so and `KemonoFetch!ImplementsTransfer` shows it). Fairness of a worker in `ExternalFiles` is of `Advance`,
  not of `Write`: a `megatools` process that goes on writing is killed after its overall timeout
  (`external.py:298-301`), one that stalls before. Nothing is assumed of the mirror or of Drive.
- `KemonoFetch`: of the fetch; each read of a body has a timeout.
- `Scheduler`: of both threads, and a `download.py` ends. No fairness of signals or schedule changes.
- `Detection`: of the run's steps, `StartRun` included: the scheduler starts the next run. None of the
  site's changes, of failures or of a crash, which are bounded: `EverythingArrives` is about what happens
  after the last of them.
- `RequestPacer`, `Library`, `Unpack` and `Reconcile` state no liveness property and no fairness.

## 4. Findings

Three runs end with a counterexample to something the repository says of itself:

1. `fetch_wiped`: `config.init()` (`config.py:138-140`) wipes `TEMP_DIR` in every `download.py` and
   `reconcile.py`. When `reconcile` starts in a running container (`Readme.md:299`) between a request with a
   Range and its 206, the rest of the file is appended to an empty one and recorded as the file.
2. `library_failed_archive`: a failed archive whose row has entries cannot be deleted (`db.py:41`), so it is
   not "retried on every future run" (`Readme.md:233`).
3. `library_reupload`: `extract` clears the folder of a re-uploaded archive (`files.py:171`) before `unpack`
   drops the entries that are already recorded (`creator.py:631-639`), which are the ones it just removed.

The other surprises of the code are the exceptions in properties that hold, so that each is known to be the
only one of its kind:

- `ClearedByProbeOnly`: `creator.py:405` clears the mirror's block after every outcome of the probe but
  `mirror_blocked`, a failed one included.
- `StopReachesKnownRun`: a signal between the start of `download.py` and the assignment at `scheduler.py:40`
  is not forwarded, although `stop` is to forward it (`scheduler.py:24-25`).
- `ArchivesSettled`: an archive whose processing was cut short after its row was committed is never
  extracted (`log.cut`).
- `DroppedIsAccountedFor`: an empty `ALLOWED_EXTENSIONS` lets all attachments pass (`Readme.md:145`) and
  rejects every entry of an archive (`creator.py:629`).
- `WholeUnlessShared`: equal archives that two workers unpack at once share a directory (`files.py:149`,
  against the "fresh directory" of `files.py:144-146`); entries of one can be moved or removed by the other.
- `PasswordsKept`: the lock "created once" (`files.py:11`) can be made twice at its first use (`log.two`),
  after which two workers write the `.conf` at once; a rewriting cut short leaves an empty one (`log.cut`).
- `FailedIsLocked` holds of the passwords kemono answered with, the post had and the list had when the run
  began or when `unpack` read it, and not of one another worker learns later: it is appended to the list
  (`creator.py:598`) after other archives have read it. In which order they are tried is not part of it:
  `Readme.md:150` and `222-224` have later archives try a learned password first, the code appends it at the
  end of the list.
- `QueueIsWanted`: the embeds and links of a post are left out when its content cannot be fetched
  (`creator.py:135-149`; `log.unread`, `log.unlisted`); nothing is noted of them, so that a later run finds
  them (`EverythingArrives`). A link is noted as seen (`creator.py:273`) before the title's filter; when the
  filtered post comes first, a later post that passes does not get it (`HiddenAt`), in this run or another.
- `MissedBounded`: each post removed while the pages are read can hide another one until the next run.
- `WholeFilesKept`: a whole file whose listing shows a rounded size (`external.py:236`, `creator.py:476`) is
  taken for partial, and so downloaded again in each run.
- `RowsTellTheDisk`: a row inserted from a look-up that a run has overtaken (`history.raced`); between
  `delete_file` and `os.remove` of a failed archive it makes the archive recorded and not retried.
- `NothingRedownloaded`: `reconcile` is there so that files on disk "aren't re-downloaded"
  (`Readme.md:294-296`), stragglers included (`Readme.md:308-310`). It does not keep Drive and Mega files from
  that: they match no post's file by hash, are recorded as stragglers of the type `attachment` without a url
  (`reconcile.py:107-121`), and the next run knows external files by the urls of the type `external` only
  (`db.py:85-88`, `creator.py:249`). After a lost table each of them that is on disk is downloaded once more;
  that run records it over the straggler's row. Nor does it record an entry that has its number only, left
  by an unpack that ended early (`reconcile.py:55-60`): if a post has the same content, it is downloaded.
  The property is about the run after the reconcile, and needs rows that are not of another content than
  their places have when the reconcile begins: a path that has a row is skipped (`reconcile.py:49-51`), so
  what a run that was cut short between the move and the save left there, over an older row, is not
  recorded, and downloaded again. With `KEEP_UNPACKED_ARCHIVES=false` an archive that was unpacked and
  removed is not on disk: it is downloaded again, and its entries are dropped as duplicates of the rows
  reconcile made for those that extracting it again removes.

## 5. Proofs

Each proof module states the inductive invariant its component needs (`IInv`), shows that `Init` implies it
and every action keeps it, and draws the theorems from it.

`RequestPacer_proofs`, from `PacerAssumption` (at least one attempt, a positive interval), for any set of
threads. `IInv` is `TypeOK`, `SlotsSpaced` and: every slot granted ends before `_next_request_at`
(`NextIsFree`); a thread between its reservation and its request is neither early nor later than `MaxLag`
(`WaitsForSlot`); a request starts in its slot (`StartsInSlot`); a slot serves one thread and one request
(`TicketsUnique`). `StartsApart` is not inductive: it says nothing of threads still asleep. It follows from
the slots' spacing and each start's distance from its slot. `WaitsAreBounded` needs `QueueInv` in addition,
of the threads whose slots are ahead of the clock: `_next_request_at` is at most as many intervals from now
as there are such threads and one more (`Ahead`), and from the slot of each of them as there are later ones
and one more (`Behind`). The second part carries the first one over a tick that comes to a slot: its thread
leaves `Ahead`, and those that remain are the ones behind it. A thread that reserves is not ahead itself, so
that it finds fewer than all threads there.

`KemonoFetch_proofs`, from `FetchAssumption`, for any size, number of attempts and of wipes. `IInv` is
`TypeOK`, `NoLeftover` and: the temp file is never longer than what was requested and received (`Fits`);
without a wipe it is the first bytes of the file in order, as long as the offset says (`Intact`); a failure
is left while the loop goes on (`FailuresLeft`); and an amortised bound on requests (`Budget`): a counted
failure pays for `Size + 1` requests, a wipe for `Size`, and each byte in the temp file for one, as an
uncounted attempt must have got further. `RequestsBounded` alone is not inductive: it does not say how many
requests the current temp file has used up. From the same invariant `FetchIsATransfer` shows that `Spec`
implements the safety part of `FileTransfer`; that the transfer ends is liveness, and the `fetch` run's.

`MirrorPool_proofs`, from `PoolAssumption` (no file belongs to two creators, at least one worker), for any
creators, files, workers and toggles of the mirror. `IInv` is `BlockIsRemembered`, the shape of a creator's
run (`Shape`: types; no worker and no queue outside of the `with` block, only this creator's files inside),
what is still to come (`Untouched`: no outcome before the pool is open; `Unsent`: no request but the
probe's), the time after a blocked probe (`ProbeStopped`: the flag is set and no worker is past the check)
and a count (`LateCounted`: late starts plus workers past the check are fewer than the workers while the
flag is set; there are no late starts while it is not). `LateStartsBounded` alone is not inductive: it does
not know how many workers may still start. The count holds when the flag is set because the worker that sets
it is not past the check itself. `BlockIsRemembered` needs `Untouched` when main goes on, as the next
creator's files must not have failed before. `CompletedHasOutcomes` needs a ledger in addition: each file of the
creator is in exactly one of queue, a worker's hands, the probe and the results, so that an empty queue and
idle workers leave it in the results. The ledger also says that what is queued or in hands has no outcome
(`Pending`), which with `Untouched` makes each step one of `Downloads` (`PoolSettles`).

`Scheduler_proofs`, for any schedules, runs, signals and changes. `IInv` numbers the runs (`Numbered`), says
which of them may be in progress where `run_once` is (`OnlyRun`), that a run begun after a stop is the last
one (`LateIsLast`), that a known run in progress has been signalled, unless `stop` is about to
(`Forwarded`), and where `run_loop` can be once `stop` has seen a current process (`Stopping`).

`Detection_proofs`, from `DetectionAssumption`. `IInv` is `TypeOK`, where the loop is (`Progress`), what
`hashes` and `urls` hold of the posts looked at so far, without the embeds of those whose content was not
read (`Seen`), and `QueuedOnce`. `QueueIsWanted` is only
about the end of the loop; `Seen` is what carries it over the posts, one by one. `MissedBounded` needs a
count while pages are read: of the posts that stay, those not read at places the offset has passed
(`Missed`) are no more than the removals so far. A new post moves none of them there, a removal one, a page
none; what the last page leaves unread is `Missed`, or beyond `max_pages` pages.

`ExternalFiles_proofs`, from `ExternalAssumption` (no file or link is there twice). `IInv` is `TypeOK`, whose
hands each link is in (`Hands`), what is not begun (`Fresh`, `Unhandled`), that links which are done have
settled all their files (`LinksSettled`), what the flag tells of the Drive files so far (`FlagTold`) and that
these are settled (`DriveSettled`). `PartialNotRecorded` and `CompletedHasOutcomes` are conjuncts of it;
`WholeFilesKept` is about a step, and follows from it. `ExternalSettle`, that each step is one of `Downloads`,
needs in addition that the Drive files still to come have no outcome (`Later`), and of a task that it gives
one only to files of its link that have none (`TaskSettles`): when the folder is listed, as none of them has
(`Fresh`), in the loops, as they skip those that do.

`Library_proofs`, from `LibraryAssumption`, for any attachments, archives, settings, workers, runs, edits,
exceptions and crashes. `Tickets`: a hash that is to be recorded is in one pair of hands (a queued file's, a
worker's file's or a worker's claimed entry's), it is in `hashes`, and no row has it; while a run goes on
`hashes` holds every row's hash; no two rows have the same. `NoDuplicateRows` alone is not inductive, as it
does not know what is about to be saved. `Apart`: no two files of a run go to the same path, so that a
worker's folder and row are its own. `Mine`: what a worker has moved, saved, renamed so far, and that
entries ahead of it have no row yet unless the folder was extracted before. `PathOK` is `RecordedIsOnDisk`
of one path. Every step of a worker is shown to be `Good` (it changes its own path only, and gives its
ticket up before it writes a row), and one lemma, `GoodIInv`, draws the invariant from that for all the
others. Two more invariants rest on it. `Account`: each hash that a run knows is recorded, was overwritten
(`superseded`), is queued, is in a worker's hands, or belongs to a file that failed; it needs that no file
in the queue or in hands has an outcome yet (`Undecided`), and of several equal attachments it is the first
one, which exists as `<` on the numbers of the items is well-founded, that is queued. `Settled`: a recorded
archive is extracted, kept, cut short, or in the hands of a worker that has saved it. The assumption says
that two items of one path and one hash are the same attachment, as that is all a row tells of it.

`KeepsACollection` is the refinement: each step of `Library` is a step of `Collection` or changes nothing of
it. The lemmas `...Collects` go through the steps. It rests on both invariants: `Tickets` gives that what a
worker lets go of nobody else holds (`WantedOnce`) and that what it claims is recorded nowhere, `Account`
that it lets go of nothing that is not recorded by then or failed (`QuietCollects`), `Mine` that the row
`DeleteRow` removes is still that of the failed archive.

The same module proves the properties of `Reconcile`, from `ReconcileAssumption` in addition, for any number
of paths, workers, runs, reconciles and lost tables. `IInv` does not hold there: next to reconcile two rows
can have the same hash, and a worker's row can be overwritten by what reconcile hashed before. `RInv` keeps
what is left of it. `Stands`: what a worker has moved, saved and renamed is on the disk, and its row is its
own unless the place was `raced`. `Fresh`: what reconcile is about to insert is at its place, or the place
was raced; this is what makes `RowsTellTheDisk` inductive (`Tells`, of one path). `Noted`: an archive that
is noted as a parent has its row, as a deletion is seen; `EntriesHaveParent` rests on it. `Walk`, while no run
disturbs the reconcile: a file that has no row yet is in a place the walk still comes to (`Ahead`: listed, in
a folder that is left, or at hand). At its end nothing is ahead, so that all that is on disk is recorded
(`Rebuilt`), hence in `hashes` when the next run begins, and nothing of it in its queue. An external file on
disk has a row then, too, and one of the type `external` is left out, so that a file that is downloaded again
has the row reconcile made: both together are `NothingRedownloaded`.
The steps of `Library` are summed up once, by what each leaves alone (`Frame`) and what it does (`Shape`),
and the lemmas `...Kept` carry `Tells`, `Stands` and `HasParent` over each of these shapes.

`Unpack_proofs`, from `UnpackAssumption`, for any archives, passwords, workers, runs, edits and faults, in four
parts. `Unpacked`: two workers that are not noted as sharing have different directories (`Apart`), what a
directory holds is what its one worker has written and not moved (`Stage`), and an archive that waits has no
entries yet (`Waiting`); `WholeUnlessShared` is what is left when it ends. `KeptInv`: while no rewriting was
cut short and a run has one lock, one worker at most writes, and the list on the disk, or the one being
written, holds all that is to be kept and all the run has learned but what a worker is about to save
(`Holds`). `PasswordsKept` says nothing while a worker writes; the list it has in hand carries it over.
`FewRepeats`: the times a password is in the list plus the workers about to append it are at most the
workers, as each of them saw the list without it. `LocksBounded` counts locks and those about to be made in
the same way. `LockedInv`: what a worker has before it when it tries passwords is all that the archive was
given (kemono's, the post's, the list's as the run began and as `unpack` read it), those it has passed
do not open the archive, so that none is left when it fails; that is `FailedIsLocked`. Its candidates are a
list without repeats
(`Distinct`): the place of a value is the number of first occurrences up to its own, and that these numbers
run from 1 to the length without a gap is proved of the cardinalities, without an induction over the list.

| Theorem | States |
|---|---|
| `RequestPacer_proofs!TypeCorrect`, `SlotsAreSpaced`, `StartsAreApart`, `WaitsAreBounded` | `Spec => []TypeOK`, `[]SlotsSpaced`, `[]StartsApart`, `[]WaitBounded` |
| `KemonoFetch_proofs!TypeCorrect`, `FetchIsWhole`, `LeavesNothingBehind`, `RequestsAreBounded`, `FetchIsATransfer` | `Spec => []TypeOK`, `[]WholeUnlessWiped`, `[]NoLeftover`, `[]RequestsBounded`, `Transfer!Safety` |
| `MirrorPool_proofs!TypeCorrect`, `NoStray`, `Remembered`, `LateBounded`, `ProbeStops`, `ClearedByProbe`, `AllHaveOutcomes`, `PoolSettles` | `Spec => []TypeOK`, `[]NoStrayWorker`, `[]BlockIsRemembered`, `[]LateStartsBounded`, `[]BlockedProbeStops`, `ClearedByProbeOnly`, `[]CompletedHasOutcomes`, `Returns!Safety` |
| `Scheduler_proofs!TypeCorrect`, `OneRun`, `LateBounded`, `StopReaches`, `FailsLate` | `Spec => []TypeOK`, `[]OneRunAtATime`, `[]LateRunsBounded`, `[]StopReachesKnownRun`, `[]FailsAfterLastRun` |
| `Detection_proofs!TypeCorrect`, `Once`, `QueuesTheWanted`, `MissesFew` | `Spec => []TypeOK`, `[]QueuedOnce`, `[]QueueIsWanted`, `[]MissedBounded` |
| `ExternalFiles_proofs!TypeCorrect`, `OneRequest`, `NoPartial`, `AllHaveOutcomes`, `KeepsWholeFiles`, `ExternalSettle` | `Spec => []TypeOK`, `[]OneRequestTellsTheBlock`, `[]PartialNotRecorded`, `[]CompletedHasOutcomes`, `WholeFilesKept`, `Returns!Safety` |
| `Library_proofs!TypeCorrect`, `NoDuplicates`, `RowsOnDisk`, `NeverRefetched`, `CleanRun`, `DroppedAccounted`, `ArchivesAreSettled` | `Spec => []TypeOK`, `[]NoDuplicateRows`, `[]RecordedIsOnDisk`, `NoRefetch`, `[]CleanRunRecordsAll`, `[]DroppedIsAccountedFor`, `[]ArchivesSettled` |
| `Library_proofs!KeepsACollection` | `Spec => ImplementsCollection`, that is `Collects!Spec` |
| `Library_proofs!TypesBeside`, `RowsTell`, `ParentsStay`, `NothingTwice` | `RSpec => []TypeOK`, `[]RowsTellTheDisk`, `[]EntriesHaveParent`, `NothingRedownloaded` |
| `Unpack_proofs!TypeCorrect`, `WholeExtraction`, `FailsForThePassword`, `KeepsPasswords`, `RepeatsAreBounded` | `Spec => []TypeOK`, `[]WholeUnlessShared`, `[]FailedIsLocked`, `[]PasswordsKept`, `[]RepeatsBounded` |

The type invariants of all modules but `Library`, and `SlotsSpaced`, `NoStrayWorker` and
`NoLeftover`, are proved and not in a run as well.

Every safety property a run expects to hold is proved, and the safety part of each refinement. Only
model-checked: the liveness properties and the liveness parts of `FileTransfer` and `Downloads` (the prover
handles neither fairness nor ENABLED), and the three counterexamples of the findings. No module
declares a RECURSIVE operator or folds over a list, as what these compute for every input would need an
induction the provers cannot do.

## 6. What the models leave out

- `RequestPacer`: the HTTP adapter's own connect retries (`network.py:77`), which reserve no slot; that calls
  return: each loop has a counter and each request a timeout.
- `KemonoFetch`: a server whose file changes between attempts. A body that ends early raises, by its
  declared length. The pacing of attempts is `RequestPacer`'s.
- `Library`: contents are hashes and the hash in an URL is the content's; an entry keeps its number and name
  over re-uploads; external files are `ExternalFiles`', passwords `Unpack`'s; entries that extraction has
  not renamed yet are on the disk in `Reconcile` only; `AUTO_UNZIP=false`, which skips the extraction.
- `ExternalFiles`: moving and recording a file is one step (see `Library`); the pages of Drive folders,
  finding links in a text and the parsing of listings are text. `megatools`' output pipes, which are read
  when it has ended (`external.py:281`): how much it prints is not in this code.
- `Scheduler`: `Popen` does not fail; signals do not nest. `CRON_EXPRESSION` changes in memory, which the
  code provides for and nothing does yet.
- `Detection`: what `ALLOWED_EXTENSIONS` leaves out, and thumbnails or attachments that `ALLOWED_TYPES` does,
  are not in `Files`, `Embeds` and `Links`; names, numbering and dates of files. `MaxPages` is 2, not 200.
- `Unpack`: the formats of archives and their encryption; folders in an archive. Moving an entry to the
  archive's folder is a step, the renaming and the recording of entries is `Library`'s. No property is about
  the order in which passwords are tried.
- `Reconcile`: all posts are in one folder; an external file is no archive, has a content of its own and keeps
  its path; names with a colon, which no run writes (`reconcile.py:41-45`), and files of other names than the
  convention's that are no entries; the favourites it can add, one request.
- Not modelled at all: `cleanup` and `deduplicate` (nothing calls them), the summary and the failure log
  (counts and wording of outcomes that are state here), the webhook of the album creator (one request), text
  and date helpers, the C sources, the build and the values in `downloader.conf` (types and defaults).

## 7. Plan

Done: all components with state that threads, processes or runs share, in the order of their risk, and
proofs of all their safety properties. What is left, most useful first:

1. `Reconcile` over any number of folders.
2. `Library` as an abstraction of `Unpack`, so that the refinement shows that `ClearFolder` and
   `UnpackFails` are all that an extraction does to it.
