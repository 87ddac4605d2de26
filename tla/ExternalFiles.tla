------------------------------ MODULE ExternalFiles ------------------------------
(***************************************************************************)
(* core/creator.py: the Google Drive and Mega parts of download_all_files, *)
(* for one creator after the other.  Drive files are downloaded one by one *)
(* (File._fetch_gdrive), and fail straight away once Drive has blocked     *)
(* this client, except for a creator's first one.  Mega files are grouped  *)
(* by link; each link is one task of a small pool, download_mega_link,     *)
(* with one megatools process that can hang, fail or be killed half-way.   *)
(*                                                                         *)
(* megatools writes the files of its selection to the link's own folder in *)
(* TEMP_DIR: each is absent, partial or whole there.  What the creator     *)
(* shares can change between the detection of the files, the listing that  *)
(* download_mega_link makes, and the one megatools makes to download.      *)
(* Moving a file to DATA_DIR and recording it (the steps of Library) is    *)
(* one step here.                                                          *)
(***************************************************************************)
EXTENDS Integers, Sequences, FiniteSets, Functions

CONSTANTS
  DriveFiles,   \* the Drive files of each creator, a sequence of sequences
  LinksOf,      \* the Mega links of each creator, a sequence of sets
  Group,        \* [links -> SUBSET of Mega files]: the files detected in each link
  Lone,         \* the links to a single file, which has no ref_id
  Unsized,      \* the Mega files that have no listing, or no size in it
  Rounded,      \* those whose listing shows another than theirs: 1.5 GiB is no number of bytes
  MaxAttempts,  \* DOWNLOAD_MAX_ATTEMPTS
  Workers       \* the mega_max_workers threads

NoLink == "none"
Links == UNION Range(LinksOf)
Drive == UNION {Range(DriveFiles[c]) : c \in DOMAIN DriveFiles}
Mega == UNION {Group[l] : l \in Links}

ASSUME ExternalAssumption ==
  /\ DriveFiles \in Seq(Seq(Drive)) /\ DOMAIN LinksOf = DOMAIN DriveFiles
  /\ \A c, d \in DOMAIN DriveFiles : \A i \in DOMAIN DriveFiles[c], j \in DOMAIN DriveFiles[d] :
       DriveFiles[c][i] = DriveFiles[d][j] => c = d /\ i = j
  /\ \A c, d \in DOMAIN LinksOf : c # d => LinksOf[c] \cap LinksOf[d] = {}
  /\ Group \in [Links -> SUBSET Mega] /\ NoLink \notin Links
  /\ \A l, m \in Links : Group[l] # {} /\ (l # m => Group[l] \cap Group[m] = {})
  /\ Lone \subseteq Links /\ \A l \in Lone : Cardinality(Group[l]) = 1 /\ Group[l] \subseteq Unsized
  /\ Drive \cap Mega = {} /\ Unsized \cap Rounded = {}
  /\ MaxAttempts \in Nat \ {0}

VARIABLES
  driveBlocked,  \* external._gdrive_blocked
  creator,       \* index of main's loop
  phase,         \* where download_all_files is
  at,            \* how many Drive files of the creator it has handled
  attempt,       \* _fetch_gdrive's loop variable
  todo,          \* the links still queued
  pc,            \* where each worker is
  link,          \* the link it works on
  mapped,        \* [links -> files]: download_mega_link's path_map
  chosen,        \* [links -> files]: what megatools takes its numbers for
  error,         \* download_error of each link
  temp,          \* each Mega file in its link's temp folder
  outcome,       \* results
  recorded,      \* what was moved to DATA_DIR and recorded of each file
  raised,        \* the links whose task ended with an exception
  summary,       \* what main recorded of each creator
  quotas         \* history: this creator's Drive requests answered with a 403

driving == <<driveBlocked, at, attempt, quotas>>
main == <<creator, phase, summary>>
task == <<pc, link>>
vars == <<driving, main, todo, task, mapped, chosen, error, temp, outcome, recorded, raised>>

Running == creator <= Len(DriveFiles)
Here == DriveFiles[creator]

Init ==
  /\ driveBlocked = FALSE
  /\ creator = 1 /\ phase = "drive" /\ at = 0 /\ attempt = 0
  /\ todo = {}
  /\ pc = [w \in Workers |-> "free"] /\ link = [w \in Workers |-> NoLink]
  /\ mapped = [l \in Links |-> {}] /\ chosen = mapped /\ error = [l \in Links |-> FALSE]
  /\ temp = [f \in Mega |-> "absent"]
  /\ outcome = [f \in Drive \cup Mega |-> "none"]
  /\ recorded = [f \in Drive \cup Mega |-> "none"]
  /\ raised = {}
  /\ summary = [c \in DOMAIN DriveFiles |-> "none"]
  /\ quotas = 0

-----------------------------------------------------------------------------
(* Drive, in the main thread. *)

Blocked == at > 0 /\ driveBlocked

(* "skipping remaining Drive downloads": it fails without a request. *)
Skip ==
  /\ phase = "drive" /\ Running /\ at < Len(Here)
  /\ Blocked
  /\ outcome' = [outcome EXCEPT ![Here[at + 1]] = "quota"]
  /\ at' = at + 1
  /\ UNCHANGED <<driveBlocked, attempt, quotas, main, todo, task, mapped, chosen, error, temp, recorded,
                 raised>>

(* The file is handled: a quota rejection marks Drive as blocked, any      *)
(* other outcome as not blocked.                                           *)
Handle(o) ==
  /\ outcome' = [outcome EXCEPT ![Here[at + 1]] = o]
  /\ driveBlocked' = (o = "quota")
  /\ at' = at + 1
  /\ attempt' = 0
  /\ UNCHANGED <<main, todo, task, mapped, chosen, error, temp, raised>>

Attempting == phase = "drive" /\ Running /\ at < Len(Here) /\ ~Blocked

(* The file is moved and recorded; its extraction may fail. *)
DriveOk ==
  /\ Attempting
  /\ \E o \in {"success", "failed"} : Handle(o)
  /\ recorded' = [recorded EXCEPT ![Here[at + 1]] = "whole"]
  /\ UNCHANGED quotas

(* Bug: a 403 is retried like any other failure. *)
DriveQuotaRetried ==
  /\ Attempting
  /\ quotas' = quotas + 1
  /\ IF attempt < MaxAttempts - 1
     THEN /\ attempt' = attempt + 1
          /\ UNCHANGED <<driveBlocked, at, main, todo, task, mapped, chosen, error, temp, outcome, raised>>
     ELSE Handle("quota")
  /\ UNCHANGED recorded

(* A 403: no retry. *)
DriveQuota ==
  /\ Attempting
  /\ Handle("quota")
  /\ quotas' = quotas + 1
  /\ UNCHANGED recorded

(* Any other exception: the next attempt, or a DownloadTimeoutError after  *)
(* the last one.                                                           *)
DriveFails ==
  /\ Attempting
  /\ \/ /\ attempt < MaxAttempts - 1
        /\ attempt' = attempt + 1
        /\ UNCHANGED <<driveBlocked, at, main, todo, task, mapped, chosen, error, temp, outcome, raised>>
     \/ /\ attempt >= MaxAttempts - 1
        /\ Handle("failed")
  /\ UNCHANGED <<quotas, recorded>>

(* main goes on to the next creator. *)
NextCreator(s) ==
  /\ summary' = [summary EXCEPT ![creator] = s]
  /\ creator' = creator + 1
  /\ phase' = "drive" /\ at' = 0 /\ attempt' = 0 /\ quotas' = 0

(* An exception that is no DownloadError, before or after the file was     *)
(* moved, leaves download_all_files.                                       *)
DriveRaises ==
  /\ Attempting
  /\ NextCreator("failed")
  /\ \E r \in {"none", "whole"} : recorded' = [recorded EXCEPT ![Here[at + 1]] = r]
  /\ UNCHANGED <<driveBlocked, todo, task, mapped, chosen, error, temp, outcome, raised>>

(* All Drive files are handled: the pool, with one task per link. *)
OpenPool ==
  /\ phase = "drive" /\ Running /\ at = Len(Here)
  /\ phase' = "mega"
  /\ todo' = LinksOf[creator]
  /\ UNCHANGED <<driving, creator, summary, task, mapped, chosen, error, temp, outcome, recorded, raised>>

-----------------------------------------------------------------------------
(* A worker: download_mega_link. *)

Go(w, to) == pc' = [pc EXCEPT ![w] = to]

Take(w, l) ==
  /\ pc[w] = "free" /\ l \in todo
  /\ todo' = todo \ {l}
  /\ link' = [link EXCEPT ![w] = l]
  /\ Go(w, IF l \in Lone THEN "downloading" ELSE "listing")
  /\ UNCHANGED <<driving, main, mapped, chosen, error, temp, outcome, recorded, raised>>

(* The fresh listing: the files S of the link that are still shared.  The  *)
(* numbers they have in it are files T to megatools, others if what is     *)
(* shared changes again before it makes its own listing.                   *)
Listed(w, S, T) ==
  /\ Cardinality(T) <= Cardinality(S)
  /\ mapped' = [mapped EXCEPT ![link[w]] = S]
  /\ chosen' = [chosen EXCEPT ![link[w]] = T]
  /\ outcome' = [f \in DOMAIN outcome |->
                   IF f \in Group[link[w]] \ S THEN "not_found" ELSE outcome[f]]
  /\ Go(w, IF S = {} THEN "checking" ELSE "downloading")
  /\ UNCHANGED <<driving, main, todo, link, error, temp, recorded, raised>>

List(w) ==
  /\ pc[w] = "listing"
  /\ \E S, T \in SUBSET Group[link[w]] : Listed(w, S, T)

(* A ListingError (the listing failed, megatools is missing) is no         *)
(* DownloadError: it leaves the task.                                      *)
ListFails(w) ==
  /\ \/ pc[w] = "listing"
     \/ pc[w] = "downloading" /\ \A f \in Group[link[w]] : temp[f] = "absent"
  /\ raised' = raised \cup {link[w]}
  /\ Go(w, "free")
  /\ link' = [link EXCEPT ![w] = NoLink]
  /\ UNCHANGED <<driving, main, todo, mapped, chosen, error, temp, outcome, recorded>>

Selected(w) == IF link[w] \in Lone THEN Group[link[w]] ELSE chosen[link[w]]

(* megatools writes a part, or the rest, of a file.  A part can be as long *)
(* as the size that is shown, when that is rounded.                        *)
Write(w, f) ==
  /\ pc[w] = "downloading"
  /\ f \in Selected(w) /\ temp[f] # "whole"
  /\ \E s \in {"partial", "shown", "whole"} \ {temp[f]} :
       /\ s = "shown" => f \in Rounded
       /\ temp' = [temp EXCEPT ![f] = s]
  /\ UNCHANGED <<driving, main, todo, task, mapped, chosen, error, outcome, recorded, raised>>

(* megatools succeeds.  A lone file is found in the folder then. *)
Succeed(w) ==
  /\ pc[w] = "downloading"
  /\ \A f \in Selected(w) : temp[f] = "whole"
  /\ mapped' = IF link[w] \in Lone THEN [mapped EXCEPT ![link[w]] = Selected(w)] ELSE mapped
  /\ Go(w, "checking")
  /\ UNCHANGED <<driving, main, todo, link, chosen, error, temp, outcome, recorded, raised>>

(* It reports an error, or hangs and is killed: a DownloadError. *)
Break(w) ==
  /\ pc[w] = "downloading"
  /\ error' = [error EXCEPT ![link[w]] = TRUE]
  /\ Go(w, "checking")
  /\ UNCHANGED <<driving, main, todo, link, mapped, chosen, temp, outcome, recorded, raised>>

(* Bug: after an error no file is looked at. *)
NoneComplete(f) == temp[f] = "whole" /\ \A l \in Links : f \in Group[l] => ~error[l]

(* Bug: a file that exists is complete. *)
Present(f) == temp[f] # "absent"

(* The file exists and has the size listed for it, if any. *)
Complete(f) ==
  \/ f \in Unsized /\ temp[f] # "absent"
  \/ f \in Rounded /\ temp[f] = "shown"
  \/ f \notin Rounded /\ temp[f] = "whole"

(* The loop over path_map: a complete file is moved and recorded (its own  *)
(* extraction may still fail), another one has failed.                     *)
Check(w, f) ==
  /\ pc[w] = "checking"
  /\ f \in mapped[link[w]] /\ outcome[f] = "none"
  /\ IF Complete(f)
     THEN /\ \E o \in {"success", "failed"} : outcome' = [outcome EXCEPT ![f] = o]
          /\ recorded' = [recorded EXCEPT ![f] = temp[f]]
          /\ temp' = [temp EXCEPT ![f] = "absent"]
     ELSE /\ outcome' = [outcome EXCEPT ![f] = "failed"]
          /\ UNCHANGED <<recorded, temp>>
  /\ UNCHANGED <<driving, main, todo, task, mapped, chosen, error, raised>>

(* ... with an exception that is no DownloadError, before or after the     *)
(* move: the rest of the files is not looked at, and the folder stays.     *)
CheckRaises(w, f) ==
  /\ pc[w] = "checking"
  /\ f \in mapped[link[w]] /\ outcome[f] = "none" /\ Complete(f)
  /\ \/ UNCHANGED <<temp, recorded>>
     \/ /\ recorded' = [recorded EXCEPT ![f] = temp[f]]
        /\ temp' = [temp EXCEPT ![f] = "absent"]
  /\ raised' = raised \cup {link[w]}
  /\ Go(w, "free")
  /\ link' = [link EXCEPT ![w] = NoLink]
  /\ UNCHANGED <<driving, main, todo, mapped, chosen, error, outcome>>

(* Bug: the files that are not in path_map are forgotten. *)
EndLinkMapped(w) ==
  /\ pc[w] = "checking"
  /\ \A f \in mapped[link[w]] : outcome[f] # "none"
  /\ temp' = [f \in Mega |-> IF f \in Group[link[w]] THEN "absent" ELSE temp[f]]
  /\ Go(w, "free")
  /\ link' = [link EXCEPT ![w] = NoLink]
  /\ UNCHANGED <<driving, main, todo, mapped, chosen, error, outcome, recorded, raised>>

(* Bug: the files that are left over are not told from those handled. *)
EndLinkAgain(w) ==
  /\ pc[w] = "checking"
  /\ \A f \in mapped[link[w]] : outcome[f] # "none"
  /\ outcome' = [f \in DOMAIN outcome |->
                   IF f \in Group[link[w]] \ mapped[link[w]] THEN "failed" ELSE outcome[f]]
  /\ temp' = [f \in Mega |-> IF f \in Group[link[w]] THEN "absent" ELSE temp[f]]
  /\ Go(w, "free")
  /\ link' = [link EXCEPT ![w] = NoLink]
  /\ UNCHANGED <<driving, main, todo, mapped, chosen, error, recorded, raised>>

(* The rest of the files has failed, and the temp folder goes. *)
EndLink(w) ==
  /\ pc[w] = "checking"
  /\ \A f \in mapped[link[w]] : outcome[f] # "none"
  /\ outcome' = [f \in DOMAIN outcome |->
                   IF f \in Group[link[w]] /\ outcome[f] = "none" THEN "failed" ELSE outcome[f]]
  /\ temp' = [f \in Mega |-> IF f \in Group[link[w]] THEN "absent" ELSE temp[f]]
  /\ Go(w, "free")
  /\ link' = [link EXCEPT ![w] = NoLink]
  /\ UNCHANGED <<driving, main, todo, mapped, chosen, error, recorded, raised>>

-----------------------------------------------------------------------------
(* The main thread again: the pool is done, and fut.result() raised or not. *)
EndCreator ==
  /\ phase = "mega"
  /\ todo = {} /\ \A w \in Workers : pc[w] = "free"
  /\ NextCreator(IF raised \cap LinksOf[creator] = {} THEN "completed" ELSE "failed")
  /\ UNCHANGED <<driveBlocked, todo, task, mapped, chosen, error, temp, outcome, recorded, raised>>

Finished == ~Running /\ UNCHANGED vars

MainStep == Skip \/ DriveOk \/ DriveQuota \/ DriveFails \/ DriveRaises \/ OpenPool \/ EndCreator
Advance(w) ==
  \/ \E l \in Links : Take(w, l)
  \/ List(w) \/ ListFails(w) \/ Succeed(w) \/ Break(w) \/ EndLink(w)
  \/ \E f \in Mega : Check(w, f) \/ CheckRaises(w, f)
WorkerStep(w) == Advance(w) \/ \E f \in Mega : Write(w, f)

Next == MainStep \/ (\E w \in Workers : WorkerStep(w)) \/ Finished

(* The threads are scheduled, and every megatools process ends: one that   *)
(* stalls is killed, and one that goes on writing after an overall timeout.*)
Spec == Init /\ [][Next]_vars /\ WF_vars(MainStep) /\ \A w \in Workers : WF_vars(Advance(w))

-----------------------------------------------------------------------------
(* The type invariant: the flags, the pool and the files. *)
TypeOK ==
  /\ driveBlocked \in BOOLEAN
  /\ creator \in 1..(Len(DriveFiles) + 1)
  /\ phase \in {"drive", "mega"} /\ (phase = "mega" => Running /\ at = Len(Here))
  /\ at \in Nat /\ (Running => at <= Len(Here))
  /\ attempt \in 0..(MaxAttempts - 1)
  /\ todo \subseteq Links
  /\ pc \in [Workers -> {"free", "listing", "downloading", "checking"}]
  /\ link \in [Workers -> Links \cup {NoLink}]
  /\ \A w \in Workers : pc[w] = "free" <=> link[w] = NoLink
  /\ {mapped, chosen} \subseteq [Links -> SUBSET Mega] /\ error \in [Links -> BOOLEAN]
  /\ temp \in [Mega -> {"absent", "partial", "shown", "whole"}]
  /\ outcome \in [Drive \cup Mega -> {"none", "success", "quota", "failed", "not_found"}]
  /\ recorded \in [Drive \cup Mega -> {"none", "partial", "shown", "whole"}]
  /\ raised \subseteq Links
  /\ summary \in [DOMAIN DriveFiles -> {"none", "completed", "failed"}]
  /\ quotas \in Nat

(* "Once that block is hit, the rest of that creator's Drive downloads     *)
(* fail immediately, except each next creator's first Drive file, which is *)
(* always attempted for real" (Readme.md:251): Drive answers at most one   *)
(* request of a creator with a 403, retries included, and when all of a    *)
(* creator's files fail as blocked, one request has asked: a block that    *)
(* has lifted does not last.                                               *)
OneRequestTellsTheBlock ==
  /\ quotas <= 1
  /\ Running /\ at > 0 /\ (\A i \in 1..at : outcome[Here[i]] = "quota") => quotas = 1

(* download_mega_link: whatever megatools took its numbers for and         *)
(* wherever it was cut short, a file that is recorded is whole, as far as  *)
(* the listing shows its size.                                             *)
PartialNotRecorded == \A f \in Mega \ (Unsized \cup Rounded) : recorded[f] \in {"none", "whole"}

(* "On a partial failure, only files not fully on disk are failed - the    *)
(* rest are still recorded" (creator.py:476): no file that is complete in  *)
(* the temp folder of a link is removed with the folder.  The exceptions   *)
(* are a file whose size is rounded in the listing, which always is: it    *)
(* fails, and is downloaded again in each run; a lone file link's, which   *)
(* is not looked at after an error; and one the listing did not have and   *)
(* megatools found.                                                        *)
WholeFilesKept ==
  [][\A f \in Mega \ Rounded : temp[f] = "whole" /\ temp'[f] = "absent" =>
       \/ recorded'[f] = "whole"
       \/ \E l \in Links : f \in Group[l] \ mapped[l] /\ (l \in Lone => error[l])]_vars

(* download_all_files completes with an outcome for every external file:   *)
(* whatever became of a link, none of its files is left out.               *)
CompletedHasOutcomes ==
  \A c \in DOMAIN summary : summary[c] = "completed" =>
    \A f \in Range(DriveFiles[c]) \cup UNION {Group[l] : l \in LinksOf[c]} : outcome[f] # "none"

(* main sees the Drive loop and the Mega pool as Downloads: no outcome is  *)
(* overwritten, by the passes over a link's files and the files left over  *)
(* (creator.py:509-528) either, each is the running creator's, and main    *)
(* gets past every creator, whatever Drive and megatools do.               *)
Returns == INSTANCE Downloads WITH
  Files <- Drive \cup Mega,
  FilesOf <- [c \in DOMAIN DriveFiles |-> Range(DriveFiles[c]) \cup UNION {Group[l] : l \in LinksOf[c]}],
  Outcomes <- {"success", "quota", "failed", "not_found"}
ImplementsDownloads == Returns!Spec
=============================================================================
