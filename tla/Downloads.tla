-------------------------------- MODULE Downloads --------------------------------
(***************************************************************************)
(* What main takes Creator.download to be, one creator after the other:    *)
(* the files that were detected come to an outcome each, once, while their *)
(* own creator runs; it is completed only when all of them have one, or it *)
(* has failed.  Every creator is got past.                                 *)
(*                                                                         *)
(* There are no threads here, no flags, no retries and no links.  Both     *)
(* halves of download_all_files implement it: MirrorPool for the files of  *)
(* kemono, ExternalFiles for those of Drive and Mega.                      *)
(***************************************************************************)
EXTENDS Naturals

CONSTANTS
  Files,    \* all that is to be downloaded
  FilesOf,  \* [creators -> SUBSET Files], the creators numbered from 1
  Outcomes  \* what can become of a file

VARIABLES
  creator,  \* the one that runs
  outcome,  \* what became of each file, "none" so far
  summary   \* what main recorded of each creator

dvars == <<creator, outcome, summary>>

Running == creator \in DOMAIN FilesOf

Init ==
  /\ creator = 1
  /\ outcome = [f \in Files |-> "none"]
  /\ summary = [c \in DOMAIN FilesOf |-> "none"]

(* Some files of the creator come to their outcome. *)
Settle ==
  /\ Running
  /\ outcome' \in [Files -> Outcomes \cup {"none"}]
  /\ \A f \in Files : outcome'[f] # outcome[f] => f \in FilesOf[creator] /\ outcome[f] = "none"
  /\ UNCHANGED <<creator, summary>>

(* Creator.download returns, or an exception leaves it. *)
End(s) ==
  /\ Running
  /\ s = "completed" => \A f \in FilesOf[creator] : outcome[f] # "none"
  /\ summary' = [summary EXCEPT ![creator] = s]
  /\ creator' = creator + 1
  /\ UNCHANGED outcome

Next == Settle \/ End("completed") \/ End("failed")

Safety == Init /\ [][Next]_dvars

Spec == Safety /\ <>(creator \notin DOMAIN FilesOf)
=============================================================================
