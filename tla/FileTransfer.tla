------------------------------ MODULE FileTransfer ------------------------------
(***************************************************************************)
(* What its callers take the fetch of a file to be: Creator._download_one  *)
(* in the pool (MirrorPool's Start and End) and File.download, which moves *)
(* what is in TEMP_DIR to the library (Library's Fetch and FetchFails).    *)
(* It is one step: the file is there, whole, or a DownloadError says why   *)
(* not and nothing is left.  Only if TEMP_DIR was disturbed meanwhile can  *)
(* the content be something else.  KemonoFetch implements it.              *)
(***************************************************************************)
CONSTANTS
  Contents,  \* what a file can hold
  Whole,     \* what the remote file holds
  Nothing,   \* no file at the temp path
  Failures   \* the outcomes the callers tell apart

VARIABLES outcome, left, disturbed

tvars == <<outcome, left, disturbed>>

Init == outcome = "none" /\ left = Nothing /\ disturbed = FALSE

Disturb ==
  /\ outcome = "none" /\ ~disturbed
  /\ disturbed' = TRUE
  /\ UNCHANGED <<outcome, left>>

Succeed ==
  /\ outcome = "none"
  /\ outcome' = "fetched"
  /\ left' \in Contents
  /\ ~disturbed => left' = Whole
  /\ UNCHANGED disturbed

Fail ==
  /\ outcome = "none"
  /\ outcome' \in Failures
  /\ UNCHANGED <<left, disturbed>>

Next == Disturb \/ Succeed \/ Fail

Safety == Init /\ [][Next]_tvars

Spec == Safety /\ <>(outcome # "none")
=============================================================================
