-------------------------------- MODULE Reconcile --------------------------------
(***************************************************************************)
(* core/management/reconcile.py together with the Library: rows are made   *)
(* for the files that are on disk.  It is a process of its own, started    *)
(* with `docker exec` in the container in which runs go on, so its steps   *)
(* come between those of a run: it looks a path up, hashes the file and    *)
(* inserts a row in three steps.  The table may have been lost before.     *)
(*                                                                         *)
(* All posts are in one folder, the entries of the archive at p are in the *)
(* folder p of it.  The wiping of TEMP_DIR by config.init is KemonoFetch's; *)
(* here it is one of the exceptions that can end a worker's file (Raise).  *)
(*                                                                         *)
(* The Library has the files kemono hosts.  Two more kinds are on disk     *)
(* that reconcile comes to.  The posts have external files, which a run    *)
(* downloads after kemono's and knows by identity, not by hash; here they  *)
(* are no archives and of contents of their own.  And entries of archives  *)
(* have the number extract gave them until unpack drops or renames them:   *)
(* an unpack that ends early leaves them behind.                           *)
(***************************************************************************)
EXTENDS Library

CONSTANTS
  Links,          \* the external files in the posts: their identities
  MaxReconciles   \* bound: how often reconcile is run

ASSUME ReconcileAssumption ==
  /\ MaxReconciles \in Nat
  /\ Links \cap (Paths \cup Hashes \cup {Nothing, Torn}) = {}

VARIABLES
  onDisk,     \* the external files that are on disk, each at its path
  linkRow,    \* the row of this path: "none" or its type
  link,       \* what the run has to do with each external file
  leftover,   \* entries with a number only, of archives no worker is at
  rpc,        \* where reconcile is
  expected,   \* expected_by_hash: the hashes of the posts' files
  folder,     \* the folder that is walked: Top, or the path of an archive
  folders,    \* the folders os.walk still has to go into
  listed,     \* the files of the folder that are not looked at yet
  at,         \* the file that is looked at
  found,      \* its hash
  noted,      \* archive_folder_info: the archives this reconcile has recorded
  history     \* see HistoryInit

others == <<onDisk, link, leftover>>
rvars == <<rpc, expected, folder, folders, listed, at, found, noted, history>>
all == <<vars, others, linkRow, rvars>>

Top == "top"
None == <<>>

HistoryInit == [
  quiet |-> FALSE,    \* this reconcile began with the rows agreeing, and no run went on since
  rebuilt |-> FALSE,  \* such a reconcile came to its end, and no run began since
  raced |-> {},       \* places a run changed, or the row of, while reconcile was at them
  reconciles |-> 0]

RInit ==
  /\ onDisk = {} /\ leftover = {}
  /\ linkRow = [x \in Links |-> "none"] /\ link = [x \in Links |-> "none"]
  /\ rpc = "off"
  /\ expected = {} /\ folder = Top /\ folders = {} /\ listed = {}
  /\ at = None /\ found = Nothing /\ noted = [p \in Paths |-> "no"]
  /\ history = HistoryInit

(* A place on disk: <<p, 0>> is p, <<p, n>> the entry n of the archive at  *)
(* p, <<x, 0>> the path of the external file x.                            *)
Places == (Paths \X (0..MaxEntries)) \cup (Links \X {0})
OnDisk(l) ==
  IF l[1] \in Links THEN (IF l[1] \in onDisk THEN l[1] ELSE Nothing)
  ELSE IF l[2] = 0 THEN file[l[1]] ELSE child[l[1]][l[2]]
RowOf(l) ==
  IF l[1] \in Links THEN (IF linkRow[l[1]] # "none" THEN l[1] ELSE Nothing)
  ELSE IF l[2] = 0 THEN row[l[1]] ELSE childRow[l[1]][l[2]]

(* <<p, -n>> is the entry n when it has its number only, no "_" and name:  *)
(* it is one a worker has not come to, or left over.                       *)
Numbers == Paths \X {-n : n \in Slots}
Waiting(w) ==
  {n \in Slots : /\ k[w] > 0 /\ n <= Len(Entries[job[w]])
                 /\ n > k[w] \/ (n = k[w] /\ pc[w] # "renamed")}
Numbered ==
  leftover \cup UNION {{P(w)} \X {-n : n \in Waiting(w)} : w \in {v \in Workers : job[v] # NoItem}}

IsThere(l) == IF l \in Numbers THEN l \in Numbered ELSE OnDisk(l) # Nothing

(* The row of a place is not of another content than the place has.        *)
Agrees(l) == RowOf(l) = Nothing \/ OnDisk(l) \in {Nothing, RowOf(l)}

(* The table is lost between runs: kemono.db is removed or damaged.  It is *)
(* one of the faults that MaxFaults bounds.                                *)
LoseDatabase ==
  /\ ~running /\ rpc = "off"
  /\ faults < MaxFaults /\ faults' = faults + 1
  /\ row' = [p \in Paths |-> Nothing]
  /\ childRow' = [p \in Paths |-> [n \in Slots |-> Nothing]]
  /\ loose' = {}
  /\ linkRow' = [x \in Links |-> "none"]
  /\ history' = [history EXCEPT !.rebuilt = FALSE]
  /\ UNCHANGED <<disk, posted, running, conf, hashes, queue, workers, outcome, log, runs, edits,
                 others, rpc, expected, folder, folders, listed, at, found, noted>>

(* The hashes of the posts' files, or of a part of them: a page that fails *)
(* ends the list, and embeds are missing when the content cannot be read.  *)
Start ==
  /\ rpc = "off" /\ history.reconciles < MaxReconciles
  /\ expected' \in SUBSET {HashOf[i] : i \in posted}
  /\ rpc' = "list"
  /\ folder' = Top /\ folders' = {} /\ noted' = [p \in Paths |-> "no"]
  /\ history' = [history EXCEPT
       !.reconciles = @ + 1, !.quiet = ~running /\ \A l \in Places : Agrees(l)]
  /\ UNCHANGED <<vars, others, linkRow, listed, at, found>>

(* Bug: os.walk does not go into the folders of archives. *)
NoFolders == {}

Folders == {p \in Paths : Range(child[p]) # {Nothing} \/ \E n \in Slots : <<p, -n>> \in Numbered}

(* os.walk: the files and the folders that are there now.                  *)
ListFolder ==
  /\ rpc = "list"
  /\ listed' = {l \in Places \cup Numbers :
       /\ IsThere(l)
       /\ IF folder = Top THEN l[2] = 0 ELSE l[1] = folder /\ l[2] # 0}
  /\ folders' = IF folder = Top THEN Folders ELSE folders
  /\ rpc' = "look"
  /\ UNCHANGED <<vars, others, linkRow, expected, folder, at, found, noted, history>>

(* path_exists_in_db: no row has the path of a number.                     *)
LookUp(l) ==
  /\ rpc = "look" /\ l \in listed
  /\ listed' = listed \ {l}
  /\ IF l \in Places /\ RowOf(l) # Nothing
     THEN UNCHANGED <<rpc, at>>
     ELSE rpc' = "hash" /\ at' = l
  /\ UNCHANGED <<vars, others, linkRow, expected, folder, folders, found, noted, history>>

(* The local variables at the end, of an exception too: main goes on with  *)
(* the next creator.                                                       *)
Return ==
  /\ rpc' = "off"
  /\ expected' = {} /\ folder' = Top /\ folders' = {} /\ listed' = {}
  /\ at' = None /\ found' = Nothing /\ noted' = [p \in Paths |-> "no"]

(* generate_hash: of what is there by now, or an exception.  What has a    *)
(* number only is passed over then: its name is not of the convention.     *)
Hash ==
  /\ rpc = "hash"
  /\ \/ ~IsThere(at) /\ Return
     \/ /\ IsThere(at) /\ at \in Places
        /\ rpc' = "insert" /\ found' = OnDisk(at)
        /\ UNCHANGED <<expected, folder, folders, listed, at, noted>>
     \/ /\ IsThere(at) /\ at \in Numbers
        /\ rpc' = "look" /\ at' = None
        /\ UNCHANGED <<expected, folder, folders, listed, found, noted>>
  /\ UNCHANGED <<vars, others, linkRow, history>>

IsArchive(p) == \E i \in Archives : PathOf[i] = p

Inserted ==
  /\ rpc' = "look" /\ at' = None /\ found' = Nothing
  /\ history' = IF \E w \in Workers : pc[w] = "deleted" /\ at = <<P(w), 0>>
                THEN [history EXCEPT !.raced = @ \cup {at}] ELSE history
  /\ UNCHANGED <<disk, posted, running, conf, hashes, queue, workers, outcome, log, counters,
                 others, expected, folder, folders, listed>>

(* A file of a post, or a straggler.  insert_file is an upsert.            *)
InsertFile ==
  /\ rpc = "insert" /\ at[1] \in Paths /\ at[2] = 0
  /\ row' = [row EXCEPT ![at[1]] = found]
  /\ noted' = IF found \in expected /\ IsArchive(at[1])
              THEN [noted EXCEPT ![at[1]] = "parent"] ELSE noted
  /\ UNCHANGED <<childRow, loose, linkRow>>
  /\ Inserted

(* An external file is always a straggler, for no post's file is expected  *)
(* by its hash: the row has the type "attachment" and no url.              *)
InsertLink ==
  /\ rpc = "insert" /\ at[1] \in Links
  /\ linkRow' = [linkRow EXCEPT ![at[1]] = "attachment"]
  /\ UNCHANGED <<row, childRow, loose, noted>>
  /\ Inserted

(* A file in the folder of an archive: the entry of an archive noted       *)
(* before, unless it equals a file of a post; or a straggler.              *)
IsEntry == found \notin expected /\ noted[at[1]] # "no"

InsertEntry ==
  /\ rpc = "insert" /\ at[2] # 0
  /\ IsEntry => noted[at[1]] = "parent"
  /\ childRow' = [childRow EXCEPT ![at[1]][at[2]] = found]
  /\ loose' = IF IsEntry THEN loose \ {at} ELSE loose \cup {at}
  /\ UNCHANGED <<row, linkRow, noted>>
  /\ Inserted

(* The row of the noted archive was deleted meanwhile: the foreign key. *)
InsertRefused ==
  /\ rpc = "insert" /\ at[2] # 0
  /\ IsEntry /\ noted[at[1]] = "deleted"
  /\ Return
  /\ UNCHANGED <<vars, others, linkRow, history>>

NextFolder ==
  /\ rpc = "look" /\ listed = {} /\ folders # {}
  /\ rpc' = "list"
  /\ folder' \in folders
  /\ folders' = folders \ {folder'}
  /\ UNCHANGED <<vars, others, linkRow, expected, listed, at, found, noted, history>>

End ==
  /\ rpc = "look" /\ listed = {} /\ folders = {}
  /\ history' = [history EXCEPT !.rebuilt = history.quiet, !.quiet = FALSE]
  /\ Return
  /\ UNCHANGED <<vars, others, linkRow>>

ReconcileStep ==
  \/ Start \/ ListFolder \/ (\E l \in Places \cup Numbers : LookUp(l)) \/ Hash
  \/ InsertFile \/ InsertLink \/ InsertEntry \/ InsertRefused \/ NextFolder \/ End

(* get_creator_external_urls: a run leaves out what a row of the type      *)
(* "external" has the identity of.                                         *)
KnownLinks == {x \in Links : linkRow[x] = "external"}

(* After the pool: the file is moved to its path and saved, or fails; an   *)
(* exception between the two is not told from a Crash.                     *)
LinkStep(x) ==
  /\ running /\ queue = {} /\ \A w \in Workers : pc[w] = "free"
  /\ \/ /\ link[x] = "queued"
        /\ link' = [link EXCEPT ![x] = "moved"] /\ onDisk' = onDisk \cup {x}
        /\ UNCHANGED linkRow
     \/ /\ link[x] = "moved"
        /\ link' = [link EXCEPT ![x] = "none"] /\ linkRow' = [linkRow EXCEPT ![x] = "external"]
        /\ UNCHANGED onDisk
     \/ /\ link[x] = "queued"
        /\ link' = [link EXCEPT ![x] = "none"]
        /\ UNCHANGED <<onDisk, linkRow>>
  /\ UNCHANGED <<vars, leftover, rvars>>

(* The library goes on meanwhile.  A run comes to its end after the        *)
(* external files, unless it is killed.                                    *)
LibraryStep ==
  /\ Next
  /\ running /\ ~running' /\ faults' = faults => \A x \in Links : link[x] = "none"
  /\ link' = IF running' = running THEN link
             ELSE [x \in Links |-> IF running' /\ x \notin KnownLinks THEN "queued" ELSE "none"]
  /\ leftover' =
       {l \in leftover : \A w \in Workers : ~(k[w] = 0 /\ k'[w] = 1 /\ P(w) = l[1])}
       \cup UNION {{P(w)} \X {-n : n \in Waiting(w)} :
                    w \in {v \in Workers : job[v] # NoItem /\ job'[v] = NoItem}}
  /\ UNCHANGED <<onDisk, linkRow, rpc, expected, folder, folders, listed, at, found>>
  /\ noted' = [p \in Paths |-> IF noted[p] = "parent" /\ row'[p] = Nothing
                               THEN "deleted" ELSE noted[p]]
  /\ history' = [history EXCEPT
       !.quiet = @ /\ ~running',
       !.rebuilt = @ /\ ~running',
       !.raced = IF at \in Places /\ (RowOf(at)' # RowOf(at) \/ OnDisk(at)' # OnDisk(at))
                 THEN @ \cup {at} ELSE @]

RNext == ReconcileStep \/ LoseDatabase \/ LibraryStep \/ \E x \in Links : LinkStep(x)

RSpec == Init /\ RInit /\ [][RNext]_all

-----------------------------------------------------------------------------
(* Every row tells what is at its path, whatever reconcile and a run do at *)
(* the same time, with the exceptions of RecordedIsOnDisk and one more:    *)
(* what the run does at a place between reconcile's look-up and its insert, *)
(* which then records what was there before, over a row of the run's; or a *)
(* failed archive that is recorded again when its row is deleted already   *)
(* and its file is not.                                                    *)
RowsTellTheDisk ==
  /\ \A p \in Paths : row[p] # Nothing =>
       \/ file[p] = row[p]
       \/ p \in log.torn \/ <<p, 0>> \in history.raced
       \/ \E w \in Workers : job[w] # NoItem /\ P(w) = p /\ pc[w] \in {"moving", "moved"}
       \/ file[p] = Nothing /\ \E i \in log.extracted : HashOf[i] = row[p]
  /\ \A p \in Paths \ log.redone : \A n \in Slots :
       childRow[p][n] # Nothing =>
         child[p][n] = childRow[p][n] \/ <<p, n>> \in history.raced

(* "so they aren't re-downloaded" (Readme.md:296): after a reconcile that  *)
(* went through while no run did, the next run downloads nothing that is   *)
(* on disk, whether the table was lost or not, if no row was of another    *)
(* content than its place has: a path that has a row is skipped.  With two *)
(* exceptions: an external file is downloaded again when it was reconcile  *)
(* that made its row; and an entry that was left with its number only is   *)
(* not known, so that its content is downloaded if a post has it.          *)
NothingRedownloaded ==
  [][history.rebuilt /\ ~running /\ running' =>
       /\ \A i \in queue' : \A l \in Places : OnDisk(l) # HashOf[i]
       /\ \A x \in onDisk : link'[x] = "queued" => linkRow[x] = "attachment"]_all

(* The foreign key of the entries over all that changes the table, deletes *)
(* of failed archives and reconcile's late inserts included: an entry that *)
(* has a parent has it in the table.                                       *)
EntriesHaveParent ==
  \A p \in Paths, n \in Slots :
    childRow[p][n] # Nothing /\ <<p, n>> \notin loose => row[p] # Nothing
=============================================================================
