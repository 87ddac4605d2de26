------------------------------- MODULE Collection -------------------------------
(***************************************************************************)
(* What the runs of a creator promise of its files table: a collection to  *)
(* which each run adds what the posts have and it has not, once.  A        *)
(* content that is wanted is brought by somebody, and stops being wanted   *)
(* only by being recorded, by failing, or by the end of the process.       *)
(*                                                                         *)
(* There are no files, workers, archives or posts here, and no order: the  *)
(* locks, the hash set and the steps of Library are how it is kept.        *)
(***************************************************************************)
CONSTANTS
  Contents,  \* what can be recorded
  Places,    \* the rows there can be
  Empty      \* no row

VARIABLES
  posted,    \* the contents of the creator's posts
  table,     \* the content recorded at each place, or Empty
  running,   \* a run goes on
  wanted,    \* the contents it is about to record
  failures   \* the contents that failed in it, or were in what failed

cvars == <<posted, table, running, wanted, failures>>

Collected == {table[l] : l \in Places} \ {Empty}

Init ==
  /\ posted \subseteq Contents
  /\ table = [l \in Places |-> Empty]
  /\ running = FALSE
  /\ wanted = {} /\ failures = {}

(* The posts change between runs. *)
Publish ==
  /\ ~running
  /\ posted' \subseteq Contents
  /\ UNCHANGED <<table, running, wanted, failures>>

(* A run wants all that is posted and not recorded, nothing else. *)
Begin ==
  /\ ~running /\ running' = TRUE
  /\ wanted' = posted \ Collected
  /\ failures' = {}
  /\ UNCHANGED <<posted, table>>

(* An entry of an archive that nobody has recorded or is about to.         *)
Claim(h) ==
  /\ running
  /\ h \notin Collected \cup wanted
  /\ wanted' = wanted \cup {h}
  /\ UNCHANGED <<posted, table, running, failures>>

(* What is wanted is recorded, over the row of an earlier upload or not.   *)
Record(l, h) ==
  /\ running
  /\ h \in wanted
  /\ table' = [table EXCEPT ![l] = h]
  /\ wanted' = wanted \ {h}
  /\ UNCHANGED <<posted, running, failures>>

(* Something fails: a content may be wanted no longer for that only. *)
Fail ==
  /\ running
  /\ failures \subseteq failures'
  /\ wanted \ failures' \subseteq wanted' /\ wanted' \subseteq wanted
  /\ UNCHANGED <<posted, table, running>>

(* The row of what failed goes, no other. *)
Drop(l) ==
  /\ running
  /\ table[l] \in failures
  /\ table' = [table EXCEPT ![l] = Empty]
  /\ UNCHANGED <<posted, running, wanted, failures>>

(* A run ends when nothing is wanted any more ... *)
End ==
  /\ running /\ wanted = {}
  /\ running' = FALSE
  /\ UNCHANGED <<posted, table, wanted, failures>>

(* ... or with its process, which forgets what was failing in it. *)
Cut ==
  /\ running /\ running' = FALSE
  /\ wanted' = {}
  /\ failures' \subseteq failures
  /\ UNCHANGED <<posted, table>>

Next ==
  \/ Publish \/ Begin \/ Fail \/ End \/ Cut
  \/ \E h \in Contents : Claim(h)
  \/ \E l \in Places : Drop(l) \/ \E h \in Contents : Record(l, h)

Spec == Init /\ [][Next]_cvars
=============================================================================
