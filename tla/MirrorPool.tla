------------------------------- MODULE MirrorPool -------------------------------
(***************************************************************************)
(* core/creator.py: the kemono-hosted part of download_all_files, run for  *)
(* one creator after the other by download.py's main.  When the mirror     *)
(* blocks this client (a 403), the process-wide flag of core/network.py    *)
(* makes the pool's workers fail the rest of the creator's files without a *)
(* request; the next creator's first file is downloaded on its own as a    *)
(* probe.                                                                  *)
(*                                                                         *)
(* A worker reads the flag, downloads and sets the flag in separate steps, *)
(* with the other workers and the mirror in between.  One download         *)
(* (KemonoFetch, Library) is two steps here: it starts, and it has ended   *)
(* with some outcome.                                                      *)
(***************************************************************************)
EXTENDS Integers, Sequences, FiniteSets, Functions

CONSTANTS
  Files,       \* the kemono-hosted files to download
  NoFile,      \* what a worker without a file holds
  Batches,     \* the files of each creator, in the order they were detected
  Workers,     \* max_workers threads of the pool
  MaxToggles   \* bound: how often the mirror starts or stops blocking

ASSUME PoolAssumption ==
  /\ Batches \in Seq(Seq(Files))
  /\ \A c, d \in DOMAIN Batches : \A i \in DOMAIN Batches[c], j \in DOMAIN Batches[d] :
       Batches[c][i] = Batches[d][j] => c = d /\ i = j
  /\ NoFile \notin Files
  /\ IsFiniteSet(Workers) /\ Workers # {}
  /\ MaxToggles \in Nat

VARIABLES
  blocked,     \* network._mirror_blocked
  hostBlocks,  \* the mirror answers with 403
  toggles,     \* how often it changed its mind
  creator,     \* index of main's loop
  phase,       \* where download_all_files is
  queue,       \* the executor's work queue
  pc,          \* where each worker is
  held,        \* the file it works on
  answer,      \* the outcome of its download_file
  outcome,     \* what became of each file
  results,     \* the files in the dict of download_all_files
  summary,     \* what main recorded of each creator
  sends,       \* history: how often a download of each file was started
  late,        \* history: this creator's downloads started after the flag was set
  probe        \* history: the outcome of this creator's probe

main == <<creator, phase, results, summary>>
host == <<hostBlocks, toggles>>
worker == <<queue, pc, held, answer>>
vars == <<blocked, host, main, worker, outcome, sends, late, probe>>

\* "failed" is any other DownloadError, "raised" any other exception
Answers == {"success", "blocked", "failed", "raised"}

Batch == Batches[creator]
Running == creator <= Len(Batches)

Init ==
  /\ blocked = FALSE
  /\ hostBlocks \in BOOLEAN
  /\ toggles = 0
  /\ creator = 1
  /\ phase = "begin"
  /\ queue = <<>>
  /\ pc = [w \in Workers |-> "free"]
  /\ held = [w \in Workers |-> NoFile]
  /\ answer = [w \in Workers |-> "none"]
  /\ outcome = [f \in Files |-> "none"]
  /\ results = {}
  /\ summary = [c \in DOMAIN Batches |-> "none"]
  /\ sends = [f \in Files |-> 0]
  /\ late = {}
  /\ probe = "none"

-----------------------------------------------------------------------------
(* The main thread. *)

(* main goes on to the next creator. *)
EndCreator(s) ==
  /\ summary' = [summary EXCEPT ![creator] = s]
  /\ creator' = creator + 1
  /\ phase' = "begin"
  /\ results' = {}

(* download_all_files starts: straight to the pool, or a probe first. *)
OpenPool ==
  /\ phase = "begin" /\ Running
  /\ ~(blocked /\ Batch # <<>>)
  /\ queue' = Batch
  /\ phase' = "pool"
  /\ late' = {}
  /\ probe' = "none"
  /\ UNCHANGED <<blocked, host, creator, results, summary, pc, held, answer, outcome, sends>>

StartProbe ==
  /\ phase = "begin" /\ Running
  /\ blocked /\ Batch # <<>>
  /\ sends' = [sends EXCEPT ![Head(Batch)] = @ + 1]
  /\ phase' = "probe"
  /\ late' = {}
  /\ probe' = "none"
  /\ UNCHANGED <<blocked, host, creator, results, summary, worker, outcome>>

(* The mirror answers 403 only while it blocks; a download can also fail   *)
(* otherwise then, and a block can end at any time.                        *)
CanAnswer(a) == a = "blocked" => hostBlocks

(* Bug: the flag is cleared after a probe, whatever it found. *)
EndProbeClearing(a) ==
  /\ phase = "probe"
  /\ a # "raised" /\ CanAnswer(a)
  /\ outcome' = [outcome EXCEPT ![Head(Batch)] = a]
  /\ results' = {Head(Batch)}
  /\ blocked' = FALSE
  /\ probe' = a
  /\ queue' = Tail(Batch)
  /\ phase' = "pool"
  /\ UNCHANGED <<host, creator, summary, pc, held, answer, sends, late>>

(* Bug: the probe's file is not taken out of the pool's files. *)
EndProbeTwice(a) ==
  /\ phase = "probe"
  /\ a # "raised" /\ CanAnswer(a)
  /\ outcome' = [outcome EXCEPT ![Head(Batch)] = a]
  /\ results' = {Head(Batch)}
  /\ blocked' = (a = "blocked")
  /\ probe' = a
  /\ queue' = Batch
  /\ phase' = "pool"
  /\ UNCHANGED <<host, creator, summary, pc, held, answer, sends, late>>

(* The probe has ended: any outcome but mirror_blocked clears the flag. *)
EndProbe(a) ==
  /\ phase = "probe"
  /\ a # "raised" /\ CanAnswer(a)
  /\ outcome' = [outcome EXCEPT ![Head(Batch)] = a]
  /\ results' = {Head(Batch)}
  /\ blocked' = (a = "blocked")
  /\ probe' = a
  /\ queue' = Tail(Batch)
  /\ phase' = "pool"
  /\ UNCHANGED <<host, creator, summary, pc, held, answer, sends, late>>

(* An exception of the probe leaves download_all_files. *)
ProbeRaises ==
  /\ phase = "probe"
  /\ outcome' = [outcome EXCEPT ![Head(Batch)] = "raised"]
  /\ EndCreator("failed")
  /\ UNCHANGED <<blocked, host, worker, sends, late, probe>>

(* as_completed yields a file's future: its result is stored. *)
Collect(f) ==
  /\ phase = "pool"
  /\ f \in Range(Batch) \ results
  /\ outcome[f] \notin {"none", "raised"}
  /\ results' = results \cup {f}
  /\ UNCHANGED <<blocked, host, creator, phase, summary, worker, outcome, sends, late,
                 probe>>

(* ... or fut.result() raises, and leaving the `with` waits for the pool.  *)
CollectRaises(f) ==
  /\ phase = "pool"
  /\ f \in Range(Batch) \ results
  /\ outcome[f] = "raised"
  /\ phase' = "unwinding"
  /\ UNCHANGED <<blocked, host, creator, results, summary, worker, outcome, sends, late,
                 probe>>

(* The executor's shutdown(wait=True): queued files are still downloaded. *)
Drained == queue = <<>> /\ \A w \in Workers : pc[w] = "free"

Complete ==
  /\ phase = "pool"
  /\ results = Range(Batch)
  /\ Drained
  /\ EndCreator("completed")
  /\ UNCHANGED <<blocked, host, worker, outcome, sends, late, probe>>

Abort ==
  /\ phase = "unwinding"
  /\ Drained
  /\ EndCreator("failed")
  /\ UNCHANGED <<blocked, host, worker, outcome, sends, late, probe>>

-----------------------------------------------------------------------------
(* A worker of the pool: _download_kemono_file. *)

Take(w) ==
  /\ pc[w] = "free"
  /\ queue # <<>>
  /\ held' = [held EXCEPT ![w] = Head(queue)]
  /\ queue' = Tail(queue)
  /\ pc' = [pc EXCEPT ![w] = "taken"]
  /\ UNCHANGED <<blocked, host, main, answer, outcome, sends, late, probe>>

(* The future is done with outcome o and the worker is free. *)
Finish(w, o) ==
  /\ outcome' = [outcome EXCEPT ![held[w]] = o]
  /\ held' = [held EXCEPT ![w] = NoFile]
  /\ answer' = [answer EXCEPT ![w] = "none"]
  /\ pc' = [pc EXCEPT ![w] = "free"]

(* The flag is set: the file fails straight away. *)
Refuse(w) ==
  /\ pc[w] = "taken"
  /\ blocked
  /\ Finish(w, "blocked")
  /\ UNCHANGED <<blocked, host, main, queue, sends, late, probe>>

(* Bug: the flag is not checked before a download. *)
PassUnchecked(w) ==
  /\ pc[w] = "taken"
  /\ pc' = [pc EXCEPT ![w] = "passed"]
  /\ UNCHANGED <<blocked, host, main, queue, held, answer, outcome, sends, late, probe>>

(* The flag is not set: the worker is bound to download the file. *)
Pass(w) ==
  /\ pc[w] = "taken"
  /\ ~blocked
  /\ pc' = [pc EXCEPT ![w] = "passed"]
  /\ UNCHANGED <<blocked, host, main, queue, held, answer, outcome, sends, late, probe>>

Start(w) ==
  /\ pc[w] = "passed"
  /\ sends' = [sends EXCEPT ![held[w]] = @ + 1]
  /\ late' = IF blocked THEN late \cup {held[w]} ELSE late
  /\ pc' = [pc EXCEPT ![w] = "downloading"]
  /\ UNCHANGED <<blocked, host, main, queue, held, answer, outcome, probe>>

End(w, a) ==
  /\ pc[w] = "downloading"
  /\ CanAnswer(a)
  /\ answer' = [answer EXCEPT ![w] = a]
  /\ pc' = [pc EXCEPT ![w] = "ended"]
  /\ UNCHANGED <<blocked, host, main, queue, held, outcome, sends, late, probe>>

(* Bug: the block is left for the main thread to mark. *)
MarkNothing(w) ==
  /\ pc[w] = "ended"
  /\ Finish(w, answer[w])
  /\ UNCHANGED <<blocked, host, main, queue, sends, late, probe>>

(* Bug: a worker whose download goes through clears the flag. *)
MarkBoth(w) ==
  /\ pc[w] = "ended"
  /\ blocked' = (answer[w] = "blocked")
  /\ Finish(w, answer[w])
  /\ UNCHANGED <<host, main, queue, sends, late, probe>>

(* Bug: an exception ends the worker but not the file's future. *)
MarkUnlessRaised(w) ==
  /\ pc[w] = "ended"
  /\ answer[w] # "raised"
  /\ blocked' = (blocked \/ answer[w] = "blocked")
  /\ Finish(w, answer[w])
  /\ UNCHANGED <<host, main, queue, sends, late, probe>>

(* The worker marks the block before it picks up its next file. *)
Mark(w) ==
  /\ pc[w] = "ended"
  /\ blocked' = (blocked \/ answer[w] = "blocked")
  /\ Finish(w, answer[w])
  /\ UNCHANGED <<host, main, queue, sends, late, probe>>

-----------------------------------------------------------------------------
(* The mirror. *)
Toggle ==
  /\ Running /\ toggles < MaxToggles
  /\ hostBlocks' = ~hostBlocks
  /\ toggles' = toggles + 1
  /\ UNCHANGED <<blocked, main, worker, outcome, sends, late, probe>>

(* main has handled every creator. *)
Finished == ~Running /\ UNCHANGED vars

EndProbes == \E a \in Answers : EndProbe(a)
MainStep ==
  \/ OpenPool \/ StartProbe \/ EndProbes \/ ProbeRaises
  \/ \E f \in Files : Collect(f) \/ CollectRaises(f)
  \/ Complete \/ Abort
WorkerStep(w) ==
  \/ Take(w) \/ Refuse(w) \/ Pass(w) \/ Start(w) \/ Mark(w)
  \/ \E a \in Answers : End(w, a)

Next ==
  \/ MainStep
  \/ \E w \in Workers : WorkerStep(w)
  \/ Toggle
  \/ Finished

(* The threads are scheduled and downloads end (KemonoFetch); nothing is   *)
(* assumed of the mirror.                                                  *)
Spec == Init /\ [][Next]_vars /\ WF_vars(MainStep) /\ \A w \in Workers : WF_vars(WorkerStep(w))

-----------------------------------------------------------------------------
Busy == {w \in Workers : pc[w] # "free"}

(* The type invariant: the threads' state, the flag and the results. *)
TypeOK ==
  /\ blocked \in BOOLEAN
  /\ hostBlocks \in BOOLEAN
  /\ toggles \in 0..MaxToggles
  /\ creator \in 1..(Len(Batches) + 1)
  /\ phase \in {"begin", "probe", "pool", "unwinding"}
  /\ phase # "begin" => Running
  /\ queue \in Seq(Files)
  /\ pc \in [Workers -> {"free", "taken", "passed", "downloading", "ended"}]
  /\ held \in [Workers -> Files \cup {NoFile}]
  /\ answer \in [Workers -> Answers \cup {"none"}]
  /\ outcome \in [Files -> Answers \cup {"none"}]
  /\ results \subseteq Files
  /\ summary \in [DOMAIN Batches -> {"none", "completed", "failed"}]
  /\ sends \in [Files -> Nat]
  /\ late \subseteq Files
  /\ probe \in Answers \cup {"none"}

(* _download_kemono_file: once a worker has marked the block, only the     *)
(* workers that had already passed the check still start a download: fewer *)
(* than there are workers.                                                 *)
LateStartsBounded == Cardinality(late) <= Cardinality(Workers) - 1

(* download_all_files returns only when every file of the creator has an   *)
(* outcome: the probe and the pool between them download no file twice, a  *)
(* file that was not downloaded failed as mirror_blocked, and a block never *)
(* costs a creator all its files without a single request: "the first file *)
(* of every creator ... always attempts a download" (creator.py:393).      *)
CompletedHasOutcomes ==
  \A c \in DOMAIN Batches :
    /\ summary[c] = "completed" => \A f \in Range(Batches[c]) :
         /\ outcome[f] \in {"success", "blocked", "failed"}
         /\ sends[f] = 1 \/ (sends[f] = 0 /\ outcome[f] = "blocked")
    /\ summary[c] # "none" /\ Batches[c] # <<>> => \E f \in Range(Batches[c]) : sends[f] > 0

(* Leaving the `with` block, by an exception too, waits for the pool: no   *)
(* worker still runs a file of a creator main has left.                    *)
NoStrayWorker ==
  \A w \in Busy : Running /\ phase \in {"pool", "unwinding"} /\ held[w] \in Range(Batch)

(* _download_kemono_file marks the block before the file's future is done: *)
(* while a creator runs, a file of its that failed as mirror_blocked means *)
(* that the flag is set, whichever worker found out.                       *)
BlockIsRemembered ==
  Running => \A f \in Range(Batch) : outcome[f] = "blocked" => blocked

(* "the rest of that creator's downloads are skipped" (Readme.md:286):     *)
(* after a probe that comes back blocked no other file of the creator is   *)
(* downloaded.                                                             *)
BlockedProbeStops ==
  Running /\ phase = "pool" /\ probe = "blocked" =>
    \A f \in Range(Tail(Batch)) : sends[f] = 0

(* A block once noticed is forgotten only by a probe, on its own: never    *)
(* while a worker of the pool is running.                                  *)
ClearedByProbeOnly == [][blocked /\ ~blocked' => phase = "probe" /\ Busy = {}]_vars

(* main sees the pool, the probe and the block as Downloads: no file gets  *)
(* its outcome twice, or for another creator than its own, and main gets   *)
(* past every creator, whatever its downloads end with.  A file whose      *)
(* download raised has no outcome: the exception leaves the future.        *)
Settlement(o) == IF o = "raised" THEN "none" ELSE o
Returns == INSTANCE Downloads WITH
  FilesOf <- [c \in DOMAIN Batches |-> Range(Batches[c])],
  Outcomes <- Answers \ {"raised"},
  outcome <- [f \in Files |-> Settlement(outcome[f])]
ImplementsDownloads == Returns!Spec
=============================================================================
