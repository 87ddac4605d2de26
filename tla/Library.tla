-------------------------------- MODULE Library --------------------------------
(***************************************************************************)
(* One creator's library over several runs: the files table (core/db.py),  *)
(* the files under DATA_DIR, and the in-memory hash set that                *)
(* core/creator.py dedups with (Creator.load_files, download,              *)
(* _finish_download, unpack; File.finalize; files.extract).                *)
(*                                                                         *)
(* A run detects what is new and hands it to a pool of workers.  Every     *)
(* section under get_thread_lock() and every change of the disk is a step, *)
(* so that workers interleave between them, an exception can end a worker  *)
(* and a crash can end the run.  Between runs the creator's posts change:  *)
(* a re-uploaded attachment has another hash and the same path.            *)
(*                                                                         *)
(* Contents are hashes.  The files of an extracted archive are at <<p, k>>,*)
(* k the entry's number and p the path of the archive; only renamed and    *)
(* thus recordable entries are on the modelled disk, not the numbered ones *)
(* extract leaves for unpack to rename.                                    *)
(***************************************************************************)
EXTENDS Integers, Sequences, FiniteSets, Functions

CONSTANTS
  Items,       \* the attachments ever posted, numbered in posting order
  Paths,       \* their destination paths
  PathOf,      \* [Items -> Paths]: File.get_dest_download_path
  HashOf,      \* [Items -> Hashes]: the hash, which is in the url too
  Entries,     \* [Items -> Seq(Hashes)]: what an archive holds
  Archives,    \* the items that are archives
  Hashes,      \* the contents there are
  Unwanted,    \* contents whose extension is not in ALLOWED_EXTENSIONS
  Nothing,     \* no file at a path, no row for it
  Torn,        \* a file whose copy to DATA_DIR was cut short
  Workers,     \* the threads of the pool
  Configs,     \* the settings a run may find in the creator's .conf
  MaxEntries,  \* bound: the entries of an archive
  MaxRuns,     \* bound: the runs
  MaxEdits,    \* bound: how often the posts change
  MaxFaults    \* bound: crashes and unclassified exceptions

(* The numbers an archive's entries can have. *)
Slots == 1..MaxEntries

ASSUME LibraryAssumption ==
  /\ Items \subseteq Nat \ {0}
  /\ PathOf \in [Items -> Paths]
  /\ HashOf \in [Items -> Hashes]
  /\ Archives \subseteq Items
  /\ Entries \in [Items -> Seq(Hashes)]
  /\ \A i \in Items : Len(Entries[i]) <= MaxEntries /\ (i \notin Archives => Entries[i] = <<>>)
  /\ Nothing \notin Hashes /\ Torn \notin Hashes /\ Nothing # Torn
  /\ \A i, j \in Items : PathOf[i] = PathOf[j] =>
       (i \in Archives <=> j \in Archives) /\ (HashOf[i] = HashOf[j] => i = j)
  /\ Configs \subseteq [keepUnpacked : BOOLEAN, keepFailed : BOOLEAN, anyExtension : BOOLEAN]
  /\ {MaxEntries, MaxRuns, MaxEdits, MaxFaults} \subseteq Nat

VARIABLES
  \* durable
  file,        \* the disk: the content at each path
  child,       \* the disk: the content at each <<p, k>>
  row,         \* the files table: the hash recorded for each path
  childRow,    \* the files table: the hash recorded for each <<p, k>>
  loose,       \* the rows among these without a parent_archive_id (see Reconcile)
  \* the site
  posted,      \* the attachments in the creator's posts
  \* the run
  running,     \* download.py is working on the creator
  conf,        \* KEEP_UNPACKED_ARCHIVES, KEEP_FAILED_ARCHIVES, no ALLOWED_EXTENSIONS
  hashes,      \* Creator.hashes
  queue,       \* files not yet taken by a worker
  pc, job, k,  \* each worker: where it is, its item, the entry it is at
  outcome,     \* this run's outcome of each item
  \* history
  log,         \* what happened, see LogInit
  runs, edits, faults

disk == <<file, child>>
db == <<row, childRow, loose>>
workers == <<pc, job, k>>
counters == <<runs, edits, faults>>
vars == <<disk, db, posted, running, conf, hashes, queue, workers, outcome, log, counters>>

NoItem == 0

(* Every hash the files table knows for this creator. *)
Recorded ==
  (Range(row) \cup UNION {Range(childRow[p]) : p \in Paths}) \ {Nothing}

(* Posts hold one attachment per path. *)
Posts == {S \in SUBSET Items : \A i, j \in S : PathOf[i] = PathOf[j] => i = j}

LogInit == [
  seen |-> {},        \* this run: the items in the posts it read
  dropped |-> {},     \* this run: entries removed as duplicates
  superseded |-> {},  \* this run: hashes whose row was overwritten or deleted
  ended |-> FALSE,    \* the latest run came to its end
  extracted |-> {},   \* archives unpacked to the end
  kept |-> {},        \* archives kept although they failed
  refused |-> {},     \* archives whose extraction failed
  cut |-> {},         \* archives whose processing was cut short after the save
  torn |-> {},        \* paths where a move was cut short before the save
  redone |-> {}]      \* paths whose folder was cleared while it had rows

Init ==
  /\ file = [p \in Paths |-> Nothing]
  /\ child = [p \in Paths |-> [n \in Slots |-> Nothing]]
  /\ row = [p \in Paths |-> Nothing]
  /\ childRow = [p \in Paths |-> [n \in Slots |-> Nothing]]
  /\ loose = {}
  /\ posted \in Posts
  /\ running = FALSE
  /\ conf \in Configs
  /\ hashes = {}
  /\ queue = {}
  /\ pc = [w \in Workers |-> "free"]
  /\ job = [w \in Workers |-> NoItem]
  /\ k = [w \in Workers |-> 0]
  /\ outcome = [i \in Items |-> "none"]
  /\ log = LogInit
  /\ runs = 0 /\ edits = 0 /\ faults = 0

-----------------------------------------------------------------------------
(* The run. *)

(* Bug: the hashes of the entries of archives are not loaded. *)
NewToTopLevel ==
  {i \in posted : /\ HashOf[i] \notin Range(row)
                  /\ \A j \in posted : j < i => HashOf[j] # HashOf[i]}

(* Creator.load_config, load_files and the dedup of Creator.download: new  *)
(* is what is neither recorded nor a repetition of an earlier attachment;  *)
(* its hash counts as known from here on.                                  *)
New ==
  {i \in posted : /\ HashOf[i] \notin Recorded
                  /\ \A j \in posted : j < i => HashOf[j] # HashOf[i]}

StartRun(c) ==
  /\ ~running /\ runs < MaxRuns
  /\ running' = TRUE
  /\ runs' = runs + 1
  /\ conf' = c
  /\ queue' = New
  /\ hashes' = Recorded \cup {HashOf[i] : i \in New}
  /\ outcome' = [i \in Items |-> "none"]
  /\ log' = [log EXCEPT !.seen = posted, !.dropped = {}, !.superseded = {}, !.ended = FALSE]
  /\ UNCHANGED <<disk, db, posted, workers, edits, faults>>

(* Bug: the run ends while workers still work. *)
EndRunEarly ==
  /\ running
  /\ queue = {}
  /\ running' = FALSE
  /\ hashes' = {}
  /\ log' = [log EXCEPT !.ended = TRUE]
  /\ UNCHANGED <<disk, db, posted, conf, queue, workers, outcome, counters>>

(* Every future is done, with an exception or not: the run is over. *)
EndRun ==
  /\ running
  /\ queue = {}
  /\ \A w \in Workers : pc[w] = "free"
  /\ running' = FALSE
  /\ hashes' = {}
  /\ log' = [log EXCEPT !.ended = TRUE]
  /\ UNCHANGED <<disk, db, posted, conf, queue, workers, outcome, counters>>

(* The creator edits posts; a run reads them once, when it starts. *)
Edit(S) ==
  /\ ~running /\ edits < MaxEdits
  /\ S # posted
  /\ posted' = S
  /\ edits' = edits + 1
  /\ UNCHANGED <<disk, db, running, conf, hashes, queue, workers, outcome, log,
                 runs, faults>>

-----------------------------------------------------------------------------
(* One worker, on the item it has taken. *)

P(w) == PathOf[job[w]]
H(w) == HashOf[job[w]]

Go(w, to) == pc' = [pc EXCEPT ![w] = to]

(* The future is done. *)
Done(w, o) ==
  /\ Go(w, "free")
  /\ outcome' = [outcome EXCEPT ![job[w]] = o]
  /\ job' = [job EXCEPT ![w] = NoItem]
  /\ k' = [k EXCEPT ![w] = 0]

(* File.download up to finalize: the bytes are in TEMP_DIR (KemonoFetch). *)
Fetch(w, i) ==
  /\ pc[w] = "free" /\ i \in queue
  /\ queue' = queue \ {i}
  /\ job' = [job EXCEPT ![w] = i]
  /\ Go(w, "fetched")
  /\ UNCHANGED <<disk, db, posted, running, conf, hashes, k, outcome, log, counters>>

(* ... or a DownloadError: there is nothing to record. *)
FetchFails(w, i) ==
  /\ pc[w] = "free" /\ i \in queue
  /\ queue' = queue \ {i}
  /\ outcome' = [outcome EXCEPT ![i] = "failed"]
  /\ UNCHANGED <<disk, db, posted, running, conf, hashes, workers, log, counters>>

(* finalize: TEMP_DIR and DATA_DIR are different mounts, so shutil.move    *)
(* copies, over whatever is at the destination.                            *)
BeginMove(w) ==
  /\ pc[w] = "fetched"
  /\ file' = [file EXCEPT ![P(w)] = Torn]
  /\ Go(w, "moving")
  /\ UNCHANGED <<child, db, posted, running, conf, hashes, queue, job, k, outcome, log, counters>>

EndMove(w) ==
  /\ pc[w] = "moving"
  /\ file' = [file EXCEPT ![P(w)] = H(w)]
  /\ Go(w, "moved")
  /\ UNCHANGED <<child, db, posted, running, conf, hashes, queue, job, k, outcome, log, counters>>

(* Bug: a path that has a row keeps it (ON CONFLICT DO NOTHING). *)
SaveFirst(w) ==
  /\ pc[w] = "moved"
  /\ row' = [row EXCEPT ![P(w)] = IF @ = Nothing THEN H(w) ELSE @]
  /\ log' = [log EXCEPT !.torn = @ \ {P(w)}]
  /\ IF job[w] \in Archives
     THEN Go(w, "saved") /\ UNCHANGED <<job, k, outcome>>
     ELSE Done(w, "success")
  /\ UNCHANGED <<disk, childRow, loose, posted, running, conf, hashes, queue, counters>>

(* _finish_download: save_file under the lock, an upsert on the path. *)
Save(w) ==
  /\ pc[w] = "moved"
  /\ row' = [row EXCEPT ![P(w)] = H(w)]
  /\ log' = [log EXCEPT !.superseded = @ \cup ({row[P(w)]} \ {Nothing}),
                        !.torn = @ \ {P(w)}]
  /\ IF job[w] \in Archives
     THEN Go(w, "saved") /\ UNCHANGED <<job, k, outcome>>
     ELSE Done(w, "success")
  /\ UNCHANGED <<disk, childRow, loose, posted, running, conf, hashes, queue, counters>>

(* extract, once it has unpacked into TEMP_DIR with a password that fits:  *)
(* the folder of the archive is removed and made again.                    *)
ClearFolder(w) ==
  /\ pc[w] = "saved"
  /\ child' = [child EXCEPT ![P(w)] = [n \in Slots |-> Nothing]]
  /\ log' = IF Range(childRow[P(w)]) # {Nothing}
            THEN [log EXCEPT !.redone = @ \cup {P(w)}]
            ELSE log
  /\ Go(w, "entry")
  /\ k' = [k EXCEPT ![w] = 1]
  /\ UNCHANGED <<file, db, posted, running, conf, hashes, queue, job, outcome, counters>>

(* Bug: KEEP_FAILED_ARCHIVES is read the wrong way round. *)
UnpackFailsInverted(w) ==
  /\ \/ pc[w] = "saved"
     \/ pc[w] = "entry" /\ k[w] = 1
  /\ log' = [log EXCEPT !.refused = @ \cup {job[w]},
                        !.kept = IF conf.keepFailed THEN @ \cup {job[w]} ELSE @]
  /\ IF ~conf.keepFailed
     THEN Done(w, "failed")
     ELSE Go(w, "failing") /\ UNCHANGED <<job, k, outcome>>
  /\ UNCHANGED <<disk, db, posted, running, conf, hashes, queue, counters>>

(* unpack raises a DownloadError: no password fits, or extract fails,      *)
(* before or after it has cleared the folder.  _finish_download keeps the  *)
(* archive or goes on to delete its row.                                   *)
UnpackFails(w) ==
  /\ \/ pc[w] = "saved"
     \/ pc[w] = "entry" /\ k[w] = 1
  /\ log' = [log EXCEPT !.refused = @ \cup {job[w]},
                        !.kept = IF conf.keepFailed THEN @ \cup {job[w]} ELSE @]
  /\ IF conf.keepFailed
     THEN Done(w, "failed")
     ELSE Go(w, "failing") /\ UNCHANGED <<job, k, outcome>>
  /\ UNCHANGED <<disk, db, posted, running, conf, hashes, queue, counters>>

(* Bug: the pragma foreign_keys is off. *)
HasChildrenUnseen(p) == FALSE

(* Rows that refer to the row of p. *)
HasChildren(p) == \E n \in Slots : childRow[p][n] # Nothing /\ <<p, n>> \notin loose

(* Bug: the row's deletion is not committed, the file is removed all the same. *)
DeleteRowUncommitted(w) ==
  /\ pc[w] = "failing"
  /\ ~HasChildren(P(w))
  /\ Go(w, "deleted")
  /\ UNCHANGED <<disk, db, posted, running, conf, hashes, queue, job, k, outcome, log, counters>>

(* delete_file under the lock. *)
DeleteRow(w) ==
  /\ pc[w] = "failing"
  /\ ~HasChildren(P(w))
  /\ row' = [row EXCEPT ![P(w)] = Nothing]
  /\ log' = [log EXCEPT !.superseded = @ \cup {H(w)}]
  /\ Go(w, "deleted")
  /\ UNCHANGED <<disk, childRow, loose, posted, running, conf, hashes, queue, job, k, outcome, counters>>

(* ... which the foreign key of the rows of extracted entries forbids: an  *)
(* IntegrityError, not a DownloadError, leaves _finish_download.           *)
DeleteRefused(w) ==
  /\ pc[w] = "failing"
  /\ HasChildren(P(w))
  /\ Done(w, "raised")
  /\ log' = [log EXCEPT !.cut = @ \cup {job[w]}]
  /\ UNCHANGED <<disk, db, posted, running, conf, hashes, queue, counters>>

RemoveFailed(w) ==
  /\ pc[w] = "deleted"
  /\ file' = [file EXCEPT ![P(w)] = Nothing]
  /\ Done(w, "failed")
  /\ UNCHANGED <<child, db, posted, running, conf, hashes, queue, log, counters>>

(* The entry the worker is at. *)
More(w) == k[w] <= Len(Entries[job[w]])
Entry(w) == Entries[job[w]][k[w]]

(* wrong_ext: an empty ALLOWED_EXTENSIONS, which lets every attachment     *)
(* pass (Readme.md:145), rejects every entry of an archive.                *)
Rejected == IF conf.anyExtension THEN Hashes ELSE Unwanted

(* unpack, under the lock: an entry known already or rejected is dropped   *)
(* and its file removed, else its hash is claimed.                         *)
DropEntry(w) ==
  /\ pc[w] = "entry" /\ More(w)
  /\ Entry(w) \in hashes \cup Rejected
  /\ k' = [k EXCEPT ![w] = @ + 1]
  /\ log' = [log EXCEPT !.dropped = @ \cup ({Entry(w)} \ Unwanted)]
  /\ UNCHANGED <<disk, db, posted, running, conf, hashes, queue, pc, job, outcome, counters>>

(* Bug: the hash is not looked up again under the lock. *)
ClaimEntryUnchecked(w) ==
  /\ pc[w] = "entry" /\ More(w)
  /\ Entry(w) \notin Rejected
  /\ hashes' = hashes \cup {Entry(w)}
  /\ Go(w, "claimed")
  /\ UNCHANGED <<disk, db, posted, running, conf, queue, job, k, outcome, log, counters>>

ClaimEntry(w) ==
  /\ pc[w] = "entry" /\ More(w)
  /\ Entry(w) \notin hashes \cup Rejected
  /\ hashes' = hashes \cup {Entry(w)}
  /\ Go(w, "claimed")
  /\ UNCHANGED <<disk, db, posted, running, conf, queue, job, k, outcome, log, counters>>

RenameEntry(w) ==
  /\ pc[w] = "claimed"
  /\ child' = [child EXCEPT ![P(w)][k[w]] = Entry(w)]
  /\ Go(w, "renamed")
  /\ UNCHANGED <<file, db, posted, running, conf, hashes, queue, job, k, outcome, log, counters>>

(* Bug: an entry is claimed and renamed, and not recorded. *)
SaveEntryLost(w) ==
  /\ pc[w] = "renamed"
  /\ Go(w, "entry")
  /\ k' = [k EXCEPT ![w] = @ + 1]
  /\ UNCHANGED <<disk, db, posted, running, conf, hashes, queue, job, outcome, log, counters>>

(* save_file of the entry, under the lock. *)
SaveEntry(w) ==
  /\ pc[w] = "renamed"
  /\ childRow' = [childRow EXCEPT ![P(w)][k[w]] = Entry(w)]
  /\ loose' = loose \ {<<P(w), k[w]>>}
  /\ log' = [log EXCEPT !.superseded = @ \cup ({childRow[P(w)][k[w]]} \ {Nothing})]
  /\ Go(w, "entry")
  /\ k' = [k EXCEPT ![w] = @ + 1]
  /\ UNCHANGED <<disk, row, posted, running, conf, hashes, queue, job, outcome, counters>>

(* The last entry: the archive goes, unless it is kept. *)
EndUnpack(w) ==
  /\ pc[w] = "entry" /\ ~More(w)
  /\ file' = IF conf.keepUnpacked THEN file ELSE [file EXCEPT ![P(w)] = Nothing]
  /\ log' = [log EXCEPT !.extracted = @ \cup {job[w]}, !.refused = @ \ {job[w]}]
  /\ Done(w, "success")
  /\ UNCHANGED <<child, db, posted, running, conf, hashes, queue, counters>>

-----------------------------------------------------------------------------
(* What ends work early. *)

AfterSave == {"saved", "entry", "claimed", "renamed", "failing"}

CutShort(W) == [log EXCEPT
  !.cut = @ \cup {job[w] : w \in {v \in W : pc[v] \in AfterSave}},
  !.torn = @ \cup {P(w) : w \in {v \in W : pc[v] \in {"moving", "moved"}}}]

(* An exception that is no DownloadError (a full disk, a locked database,  *)
(* a removed file) ends the worker's file, wherever it is; the pool goes on. *)
Raise(w) ==
  /\ pc[w] # "free"
  /\ faults < MaxFaults
  /\ faults' = faults + 1
  /\ log' = CutShort({w})
  /\ Done(w, "raised")
  /\ UNCHANGED <<disk, db, posted, running, conf, hashes, queue, runs, edits>>

(* The process is killed: what is in memory is lost. *)
Crash ==
  /\ running /\ faults < MaxFaults
  /\ faults' = faults + 1
  /\ running' = FALSE
  /\ log' = CutShort(Workers)
  /\ hashes' = {}
  /\ queue' = {}
  /\ pc' = [w \in Workers |-> "free"]
  /\ job' = [w \in Workers |-> NoItem]
  /\ k' = [w \in Workers |-> 0]
  /\ UNCHANGED <<disk, db, posted, conf, outcome, runs, edits>>

(* No run is left within the bound. *)
Finished == ~running /\ runs = MaxRuns /\ UNCHANGED vars

WorkerStep(w) ==
  \/ \E i \in Items : Fetch(w, i) \/ FetchFails(w, i)
  \/ BeginMove(w) \/ EndMove(w) \/ Save(w)
  \/ ClearFolder(w) \/ UnpackFails(w) \/ DeleteRow(w) \/ DeleteRefused(w) \/ RemoveFailed(w)
  \/ DropEntry(w) \/ ClaimEntry(w) \/ RenameEntry(w) \/ SaveEntry(w) \/ EndUnpack(w)

Next ==
  \/ \E c \in Configs : StartRun(c)
  \/ EndRun
  \/ \E S \in Posts : Edit(S)
  \/ \E w \in Workers : WorkerStep(w) \/ Raise(w)
  \/ Crash
  \/ Finished

Spec == Init /\ [][Next]_vars

-----------------------------------------------------------------------------
(* The type invariant: the disk, the table, the run and its workers. *)
TypeOK ==
  /\ file \in [Paths -> Hashes \cup {Nothing, Torn}]
  /\ child \in [Paths -> [Slots -> Hashes \cup {Nothing}]]
  /\ row \in [Paths -> Hashes \cup {Nothing, Torn}]
  /\ childRow \in [Paths -> [Slots -> Hashes \cup {Nothing}]]
  /\ loose \subseteq Paths \X Slots
  /\ posted \in Posts
  /\ running \in BOOLEAN
  /\ conf \in Configs
  /\ hashes \subseteq Hashes \cup {Torn}
  /\ queue \subseteq Items
  /\ pc \in [Workers -> AfterSave \cup {"free", "fetched", "moving", "moved", "deleted"}]
  /\ job \in [Workers -> Items \cup {NoItem}]
  /\ k \in [Workers -> 0..(MaxEntries + 1)]
  /\ outcome \in [Items -> {"none", "success", "failed", "raised"}]
  /\ \A w \in Workers : pc[w] # "free" => running /\ job[w] # NoItem

(* The dedup of Creator.download and of unpack, with archives unpacked by  *)
(* concurrent workers and across runs and crashes: the table never holds   *)
(* the same content twice for a creator.                                   *)
Rows == {<<p, 0>> : p \in {q \in Paths : row[q] # Nothing}}
        \cup {r \in Paths \X Slots : childRow[r[1]][r[2]] # Nothing}
HashOfRow(r) == IF r[2] = 0 THEN row[r[1]] ELSE childRow[r[1]][r[2]]
NoDuplicateRows == \A r, s \in Rows : HashOfRow(r) = HashOfRow(s) => r = s

(* What the table records is on disk, so that skipping it in later runs    *)
(* loses nothing.  The exceptions are a path that is being overwritten (or *)
(* whose overwriting was cut short), an unpacked archive that is not kept, *)
(* and the entries of an archive that was extracted a second time.         *)
RecordedIsOnDisk ==
  /\ \A p \in Paths : row[p] # Nothing =>
       \/ file[p] = row[p]
       \/ p \in log.torn
       \/ \E w \in Workers : job[w] # NoItem /\ P(w) = p /\ pc[w] \in {"moving", "moved"}
       \/ file[p] = Nothing /\ \E i \in log.extracted : HashOf[i] = row[p]
  /\ \A p \in Paths \ log.redone : \A n \in Slots :
       childRow[p][n] # Nothing => child[p][n] = childRow[p][n]

(* A run that came to its end without a failure has recorded everything in *)
(* the posts it read, unless it overwrote the row it was skipped for.      *)
CleanRunRecordsAll ==
  log.ended /\ ~running /\ (\A i \in Items : outcome[i] \in {"none", "success"}) =>
    \A i \in log.seen : HashOf[i] \in Recorded \cup log.superseded

(* Between runs a recorded archive is extracted, or was kept on purpose,   *)
(* or its processing was cut short after its row was committed.            *)
ArchivesSettled ==
  ~running => \A i \in Archives :
    row[PathOf[i]] = HashOf[i] => i \in log.extracted \cup log.kept \cup log.cut

(* unpack drops an entry for a hash that is recorded, or that a file of    *)
(* or an archive of this run brings: after the run its content is          *)
(* recorded, unless just that file or archive failed, or the row it        *)
(* repeated was itself overwritten.  An empty ALLOWED_EXTENSIONS loses all *)
(* entries.                                                                *)
DroppedIsAccountedFor ==
  log.ended /\ ~running /\ ~conf.anyExtension => \A h \in log.dropped :
    \/ h \in Recorded \cup log.superseded
    \/ \E i \in Items : /\ outcome[i] \in {"failed", "raised"}
                       /\ h \in {HashOf[i]} \cup Range(Entries[i])

(* What the runs promise of the table is a Collection: the hash of a file  *)
(* that is queued or not saved yet, and of an entry that is claimed and    *)
(* not saved yet, is wanted, and in one pair of hands.  What the steps of  *)
(* all workers, exceptions and crashes do to the table are its steps: a    *)
(* run wants what is posted and new, records only what is wanted and       *)
(* recorded nowhere, and forgets nothing that has not failed.              *)
Cells == Paths \X (0..MaxEntries)
Held(w) ==
  IF pc[w] \in {"fetched", "moving", "moved"} THEN {H(w)}
  ELSE IF pc[w] \in {"claimed", "renamed"} THEN {Entry(w)} ELSE {}
Wanted == {HashOf[i] : i \in queue} \cup UNION {Held(w) : w \in Workers}
Failed ==
  {i \in Items : outcome[i] \in {"failed", "raised"}}
    \cup {job[w] : w \in {v \in Workers : pc[v] \in {"failing", "deleted"}}}
Failures == UNION {{HashOf[i]} \cup Range(Entries[i]) : i \in Failed}

Collects == INSTANCE Collection WITH
  Contents <- Hashes, Places <- Cells, Empty <- Nothing,
  posted <- {HashOf[i] : i \in posted}, table <- [l \in Cells |-> HashOfRow(l)],
  wanted <- Wanted, failures <- Failures
ImplementsCollection == Collects!Spec

(* What a run downloads is new: nothing that is recorded, by an earlier    *)
(* run or meanwhile by another worker, is ever fetched again.              *)
NoRefetch ==
  [][\A w \in Workers : pc[w] = "free" /\ pc'[w] = "fetched" => HashOf[job'[w]] \notin Recorded]_vars

(* Readme.md:232-234: an archive no password fits "is deleted and will be  *)
(* re-downloaded and retried on every future run until it succeeds".       *)
FailedIsRetried ==
  ~running => \A i \in log.refused \ log.kept : HashOf[i] \notin Recorded

(* insert_file updates the row of a path in place because "a re-uploaded   *)
(* attachment can land on the same destination path with new content"      *)
(* (db.py:103-104), and unpack skips the entries that "duplicate an        *)
(* existing hash" (creator.py:564-565): after runs in which no extraction  *)
(* failed, every entry the table records exists.                           *)
RecordedEntriesExist ==
  ~running /\ log.refused = {} => \A p \in Paths, n \in Slots :
    childRow[p][n] # Nothing => child[p][n] = childRow[p][n]
=============================================================================
