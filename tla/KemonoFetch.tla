------------------------------ MODULE KemonoFetch ------------------------------
(***************************************************************************)
(* core/file.py: File._fetch_kemono, the download of one kemono-hosted     *)
(* file to its temp path: the retry loop that resumes a partial file with  *)
(* a Range request and does not count the attempts that got further.       *)
(*                                                                         *)
(* The remote file is the bytes 1..Size in this order (a byte stands for a *)
(* block of them), so the temp file is a sequence of byte numbers and is   *)
(* whole when it is <<1, ..., Size>>.  requests raises when a body ends    *)
(* before its declared length, so a body that ends without an exception is *)
(* complete.  Another process may wipe TEMP_DIR meanwhile: config.init()   *)
(* does, in every download.py and reconcile.py that starts.                *)
(***************************************************************************)
EXTENDS Integers, Sequences

CONSTANTS
  Size,         \* the length of the remote file
  MaxAttempts,  \* DOWNLOAD_MAX_ATTEMPTS
  MaxWipes      \* bound: how often another process wipes TEMP_DIR

ASSUME FetchAssumption ==
  /\ Size \in Nat \ {0}
  /\ MaxAttempts \in Nat \ {0}
  /\ MaxWipes \in Nat

VARIABLES
  pc,          \* where _fetch_kemono is, or what it ended with
  exists,      \* os.path.exists(temp_path)
  temp,        \* what the temp file holds
  linked,      \* the open file is still the one at temp_path
  resumeFrom,  \* resume_from
  pos,         \* how much of the remote file has been received in this attempt
  error,       \* the exception being handled: a status, or "other"
  failed,      \* failed_attempts
  requests,    \* history: the requests sent
  wipes        \* how often TEMP_DIR was wiped

vars == <<pc, exists, temp, linked, resumeFrom, pos, error, failed, requests, wipes>>

Whole == [i \in 1..Size |-> i]

Failures == {"not_found", "blocked", "timeout", "raised"}
Ended == Failures \cup {"fetched"}

(* The temp directory is empty when a run begins (config.init). *)
Init ==
  /\ pc = "loop"
  /\ exists = FALSE /\ temp = <<>> /\ linked = FALSE
  /\ resumeFrom = 0 /\ pos = 0 /\ error = "none"
  /\ failed = 0 /\ requests = 0 /\ wipes = 0

-----------------------------------------------------------------------------
(* The top of the loop: how far the temp file goes. *)
Attempt ==
  /\ pc = "loop"
  /\ resumeFrom' = Len(temp)
  /\ pc' = "request"
  /\ requests' = requests + 1
  /\ UNCHANGED <<exists, temp, linked, pos, error, failed, wipes>>

(* A 206 to a Range request: the rest of the file, appended ('ab'). *)
Partial ==
  /\ pc = "request"
  /\ 0 < resumeFrom /\ resumeFrom < Size
  /\ exists' = TRUE /\ linked' = TRUE
  /\ pos' = resumeFrom
  /\ pc' = "body"
  /\ UNCHANGED <<temp, resumeFrom, error, failed, requests, wipes>>

(* Bug: a 200 is appended to what is there, as if it were a 206. *)
FullAppended ==
  /\ pc = "request"
  /\ exists' = TRUE /\ linked' = TRUE
  /\ pos' = 0
  /\ pc' = "body"
  /\ UNCHANGED <<temp, resumeFrom, error, failed, requests, wipes>>

(* A 200, with or without a Range: all of the file, from scratch ('wb'). *)
Full ==
  /\ pc = "request"
  /\ exists' = TRUE /\ linked' = TRUE
  /\ temp' = <<>>
  /\ pos' = 0
  /\ pc' = "body"
  /\ UNCHANGED <<resumeFrom, error, failed, requests, wipes>>

(* f.write(chunk): lost when the open file was removed from TEMP_DIR. *)
Chunk ==
  /\ pc = "body"
  /\ pos < Size
  /\ temp' = IF linked THEN Append(temp, pos + 1) ELSE temp
  /\ pos' = pos + 1
  /\ UNCHANGED <<pc, exists, linked, resumeFrom, error, failed, requests, wipes>>

(* The whole body is written: return, or "No file created". *)
EndOfBody ==
  /\ pc = "body"
  /\ pos = Size
  /\ linked' = FALSE
  /\ \/ /\ exists
        /\ pc' = "fetched"
        /\ UNCHANGED error
     \/ /\ ~exists
        /\ pc' = "except"
        /\ error' = "other"
  /\ UNCHANGED <<exists, temp, resumeFrom, pos, failed, requests, wipes>>

(* The connection breaks while the body is read, after its last byte too. *)
Interrupt ==
  /\ pc = "body"
  /\ pc' = "except"
  /\ error' = "other"
  /\ linked' = FALSE
  /\ UNCHANGED <<exists, temp, resumeFrom, pos, failed, requests, wipes>>

(* No body: an error status (a 416 says that there is nothing left after   *)
(* resume_from), a refused connection, a timeout.                          *)
Reject(e) ==
  /\ pc = "request"
  /\ e = "416" => resumeFrom >= Size
  /\ pc' = "except"
  /\ error' = e
  /\ UNCHANGED <<exists, temp, linked, resumeFrom, pos, failed, requests, wipes>>

-----------------------------------------------------------------------------
(* The except clause. *)

RemoveTemp ==
  /\ exists' = FALSE
  /\ temp' = <<>>

(* 404 and 403 are not retried. *)
GiveUp ==
  /\ pc = "except"
  /\ \/ error = "404" /\ pc' = "not_found"
     \/ error = "403" /\ pc' = "blocked"
  /\ RemoveTemp
  /\ UNCHANGED <<linked, resumeFrom, pos, error, failed, requests, wipes>>

(* failed_attempts += 1, and retry or give up. *)
CountFailure ==
  /\ failed' = failed + 1
  /\ pc' = IF failed + 1 < MaxAttempts THEN "loop" ELSE "timeout"

(* A 416: the temp file does not fit, start over.  Its removal raises when *)
(* the file is already gone.                                               *)
Unsatisfiable ==
  /\ pc = "except"
  /\ error = "416"
  /\ RemoveTemp
  /\ \/ ~exists /\ pc' = "raised" /\ UNCHANGED failed
     \/ exists /\ CountFailure
  /\ UNCHANGED <<linked, resumeFrom, pos, error, requests, wipes>>

(* Bug: an attempt that got nothing is progress too. *)
NotShorter == exists /\ Len(temp) >= resumeFrom

GotFurther == exists /\ Len(temp) > resumeFrom

(* The attempt got the file further: it does not count. *)
Resume ==
  /\ pc = "except"
  /\ error = "other"
  /\ GotFurther
  /\ pc' = "loop"
  /\ UNCHANGED <<exists, temp, linked, resumeFrom, pos, error, failed, requests, wipes>>

(* Bug: the last failure leaves the partial file. *)
NoProgressLeft ==
  /\ pc = "except"
  /\ error = "other"
  /\ ~GotFurther
  /\ CountFailure
  /\ UNCHANGED <<exists, temp, linked, resumeFrom, pos, error, requests, wipes>>

NoProgress ==
  /\ pc = "except"
  /\ error = "other"
  /\ ~GotFurther
  /\ CountFailure
  /\ IF failed + 1 < MaxAttempts THEN UNCHANGED <<exists, temp>> ELSE RemoveTemp
  /\ UNCHANGED <<linked, resumeFrom, pos, error, requests, wipes>>

-----------------------------------------------------------------------------
(* config.init() of another process: shutil.rmtree(TEMP_DIR). *)
Wipe ==
  /\ pc \notin Ended
  /\ exists
  /\ wipes < MaxWipes
  /\ RemoveTemp
  /\ linked' = FALSE
  /\ wipes' = wipes + 1
  /\ UNCHANGED <<pc, resumeFrom, pos, error, failed, requests>>

Finished == pc \in Ended /\ UNCHANGED vars

Fetch ==
  \/ Attempt \/ Partial \/ Full \/ Chunk \/ EndOfBody \/ Interrupt
  \/ \E e \in {"404", "403", "416", "other"} : Reject(e)
  \/ GiveUp \/ Unsatisfiable \/ Resume \/ NoProgress

Next == Fetch \/ Wipe \/ Finished

(* The thread runs, and no request hangs: each read has a timeout. *)
Spec == Init /\ [][Next]_vars /\ WF_vars(Fetch)

-----------------------------------------------------------------------------
(* The type invariant: the local state of _fetch_kemono and the temp file. *)
TypeOK ==
  /\ pc \in Ended \cup {"loop", "request", "body", "except"}
  /\ exists \in BOOLEAN
  /\ temp \in Seq(1..Size)
  /\ ~exists => temp = <<>>
  /\ linked \in BOOLEAN
  /\ linked => exists /\ pc = "body"
  /\ resumeFrom \in 0..Size
  /\ pos \in 0..Size
  /\ error \in {"none", "404", "403", "416", "other"}
  /\ failed \in 0..MaxAttempts
  /\ requests \in Nat
  /\ wipes \in 0..MaxWipes

(* _fetch_kemono resumes and starts over, in whatever order the attempts   *)
(* break, without ever losing, repeating or misplacing a byte: the file it *)
(* returns is the whole file, unless TEMP_DIR was wiped under it.          *)
WholeUnlessWiped == pc = "fetched" /\ wipes = 0 => temp = Whole

(* _fetch_kemono leaves no partial file behind when it fails.              *)
NoLeftover == pc \in Failures => ~exists

(* Attempts that make progress do not count, so DOWNLOAD_MAX_ATTEMPTS does *)
(* not bound the requests; still no mirror can keep _fetch_kemono busy for *)
(* more than a number of requests that the file's size bounds.             *)
RequestsBounded == requests <= MaxAttempts * (Size + 1) + wipes * Size

(* For the code that calls it _fetch_kemono is one step of FileTransfer:   *)
(* however many requests, answers and retries it takes, it ends, with the  *)
(* whole file (unless TEMP_DIR was wiped) or with one of the failures that *)
(* its callers tell apart and nothing at the temp path.                    *)
Absent == [exists |-> FALSE, holds |-> <<>>]
Transfer == INSTANCE FileTransfer WITH
  Contents <- [exists : {TRUE}, holds : Seq(1..Size)],
  Whole <- [exists |-> TRUE, holds |-> Whole],
  Nothing <- Absent,
  outcome <- IF pc \in Ended THEN pc ELSE "none",
  left <- IF pc \in Ended THEN [exists |-> exists, holds |-> temp] ELSE Absent,
  disturbed <- wipes > 0
ImplementsTransfer == Transfer!Spec

(* "a retry resumes from what's already in temp_path" (file.py:97): the    *)
(* file that is returned is whole.                                         *)
FetchedIsWhole == pc = "fetched" => temp = Whole
=============================================================================
