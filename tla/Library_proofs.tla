----------------------------- MODULE Library_proofs -----------------------------
(* Proofs about Library, for any attachments, archives, settings, workers, *)
(* edits, exceptions and crashes; and about Reconcile, which has it run    *)
(* beside reconcile, for any number of reconciles and losses of the table. *)
EXTENDS Reconcile, TLAPS, WellFoundedInduction

LogOK ==
  log \in [seen : SUBSET Items, dropped : SUBSET Hashes, superseded : SUBSET (Hashes \cup {Torn}),
           ended : BOOLEAN, extracted : SUBSET Items, kept : SUBSET Items, refused : SUBSET Items,
           cut : SUBSET Items, torn : SUBSET Paths, redone : SUBSET Paths]

(* Where a worker is in its archive. *)
AtEntry ==
  /\ \A w \in Workers : pc[w] \in {"entry", "claimed", "renamed"} =>
       k[w] \in 1..(Len(Entries[job[w]]) + 1)
  /\ \A w \in Workers : pc[w] \in {"claimed", "renamed"} => k[w] <= Len(Entries[job[w]])

(* The type invariant in parts. *)
DiskOK ==
  /\ file \in [Paths -> Hashes \cup {Nothing, Torn}]
  /\ child \in [Paths -> [Slots -> Hashes \cup {Nothing}]]
DbOK ==
  /\ row \in [Paths -> Hashes \cup {Nothing, Torn}]
  /\ childRow \in [Paths -> [Slots -> Hashes \cup {Nothing}]]
  /\ loose \subseteq Paths \X Slots
RunOK ==
  /\ posted \in Posts /\ running \in BOOLEAN /\ conf \in Configs
  /\ hashes \subseteq Hashes \cup {Torn} /\ queue \subseteq Items
  /\ outcome \in [Items -> {"none", "success", "failed", "raised"}]
WorkersOK ==
  /\ pc \in [Workers -> AfterSave \cup {"free", "fetched", "moving", "moved", "deleted"}]
  /\ job \in [Workers -> Items \cup {NoItem}]
  /\ k \in [Workers -> 0..(MaxEntries + 1)]
  /\ \A w \in Workers : pc[w] # "free" => running /\ job[w] # NoItem
  /\ AtEntry

Types == DiskOK /\ DbOK /\ RunOK /\ WorkersOK /\ LogOK

-----------------------------------------------------------------------------
LEMMA TypesAreOK == Types => TypeOK
  BY DEF Types, TypeOK, DiskOK, DbOK, RunOK, WorkersOK

LEMMA Facts ==
  /\ Items \subseteq Nat \ {0} /\ NoItem \notin Items /\ NoItem = 0
  /\ \A i \in Items : /\ PathOf[i] \in Paths /\ HashOf[i] \in Hashes
                      /\ Entries[i] \in Seq(Hashes) /\ Len(Entries[i]) \in Nat
                      /\ Len(Entries[i]) <= MaxEntries
                      /\ \A n \in 1..Len(Entries[i]) : Entries[i][n] \in Hashes /\ n \in Slots
  /\ MaxEntries \in Nat
  /\ Nothing \notin Hashes /\ Torn \notin Hashes /\ Nothing # Torn
<1>1. Items \subseteq Nat \ {0} /\ NoItem \notin Items /\ NoItem = 0
  BY LibraryAssumption DEF NoItem
<1>2. MaxEntries \in Nat
  BY LibraryAssumption
<1>3. ASSUME NEW i \in Items
      PROVE  /\ PathOf[i] \in Paths /\ HashOf[i] \in Hashes
             /\ Entries[i] \in Seq(Hashes) /\ Len(Entries[i]) \in Nat
             /\ Len(Entries[i]) <= MaxEntries
             /\ \A n \in 1..Len(Entries[i]) : Entries[i][n] \in Hashes /\ n \in Slots
  <2>1. PathOf[i] \in Paths /\ HashOf[i] \in Hashes /\ Entries[i] \in Seq(Hashes)
        /\ Len(Entries[i]) <= MaxEntries
    BY LibraryAssumption
  <2>2. QED
    BY <1>2, <2>1 DEF Slots
<1>4. QED
  BY <1>1, <1>2, <1>3, LibraryAssumption

(* The item of a worker that is not free. *)
LEMMA Busy ==
  ASSUME WorkersOK, NEW w \in Workers, pc[w] # "free"
  PROVE  /\ job[w] \in Items /\ job[w] # NoItem /\ P(w) \in Paths /\ H(w) \in Hashes
         /\ Entries[job[w]] \in Seq(Hashes) /\ Len(Entries[job[w]]) \in Nat
  BY Facts DEF WorkersOK, P, H

(* The entry a worker is at. *)
LEMMA EntryOK ==
  ASSUME WorkersOK, NEW w \in Workers, pc[w] \in {"entry", "claimed", "renamed"}
  PROVE  /\ k[w] \in 1..(Len(Entries[job[w]]) + 1) /\ k[w] \in Nat
         /\ More(w) => Entry(w) \in Hashes /\ k[w] \in Slots
         /\ pc[w] \in {"claimed", "renamed"} => More(w)
<1>1. job[w] \in Items /\ Len(Entries[job[w]]) \in Nat
  BY Busy
<1>2. k[w] \in 1..(Len(Entries[job[w]]) + 1) /\ k[w] \in Nat
  BY <1>1 DEF WorkersOK, AtEntry
<1>3. More(w) => k[w] \in 1..Len(Entries[job[w]])
  BY <1>1, <1>2 DEF More
<1>4. More(w) => Entry(w) \in Hashes /\ k[w] \in Slots
  BY <1>1, <1>3, Facts DEF Entry
<1>5. pc[w] \in {"claimed", "renamed"} => More(w)
  BY <1>2 DEF WorkersOK, AtEntry, More
<1>6. QED
  BY <1>2, <1>4, <1>5

-----------------------------------------------------------------------------
LEMMA InitTypes == Init => Types
<1> SUFFICES ASSUME Init PROVE Types
  OBVIOUS
<1>1. DiskOK /\ DbOK
  BY DEF Init, DiskOK, DbOK, Slots
<1>2. RunOK
  BY DEF Init, RunOK
<1>3. WorkersOK
  BY Facts DEF Init, WorkersOK, AtEntry
<1>4. LogOK
  BY DEF Init, LogInit, LogOK
<1>5. QED
  BY <1>1, <1>2, <1>3, <1>4 DEF Types

(* The future is done. *)
LEMMA DoneTypes ==
  ASSUME Types, NEW w \in Workers, NEW o \in {"success", "failed", "raised"}, pc[w] # "free", Done(w, o),
         UNCHANGED <<running, posted, conf, hashes, queue>>
  PROVE  WorkersOK' /\ RunOK'
<1>1. job[w] \in Items
  BY Busy DEF Types
<1>2. /\ pc' = [pc EXCEPT ![w] = "free"] /\ job' = [job EXCEPT ![w] = NoItem]
      /\ k' = [k EXCEPT ![w] = 0] /\ outcome' = [outcome EXCEPT ![job[w]] = o]
  BY Zenon DEF Done, Go
<1>3. RunOK'
  <2>1. running' \in BOOLEAN /\ conf' \in Configs
    BY Zenon DEF Types, RunOK
  <2>2. QED
    BY <1>1, <1>2, <2>1 DEF Types, RunOK
<1>4. WorkersOK'
  BY <1>2, Facts DEF Types, WorkersOK, AtEntry
<1>5. QED
  BY <1>3, <1>4

(* A worker goes on to another place in the code. *)
LEMMA GoTypes ==
  ASSUME Types, NEW w \in Workers, pc[w] # "free",
         NEW to \in AfterSave \cup {"fetched", "moving", "moved", "deleted"}, Go(w, to),
         UNCHANGED <<running, posted, conf, queue, job, outcome>>, hashes' \subseteq Hashes \cup {Torn},
         k' \in [Workers -> 0..(MaxEntries + 1)], \A v \in Workers \ {w} : k'[v] = k[v],
         to \in {"entry", "claimed", "renamed"} => k'[w] \in 1..(Len(Entries[job[w]]) + 1),
         to \in {"claimed", "renamed"} => k'[w] <= Len(Entries[job[w]])
  PROVE  WorkersOK' /\ RunOK'
<1>1. RunOK'
  <2>1. running' \in BOOLEAN /\ conf' \in Configs
    BY Zenon DEF Types, RunOK
  <2>2. QED
    BY <2>1 DEF Types, RunOK
<1>2. WorkersOK'
  BY DEF Types, WorkersOK, AtEntry, Go
<1>3. QED
  BY <1>1, <1>2

-----------------------------------------------------------------------------
(* No two files of a run go to the same path. *)
Apart ==
  /\ \A i, j \in queue : PathOf[i] = PathOf[j] => i = j
  /\ \A w \in Workers : pc[w] # "free" => \A i \in queue : PathOf[i] # P(w)
  /\ \A v, w \in Workers : pc[v] # "free" /\ pc[w] # "free" /\ P(v) = P(w) => v = w
  /\ ~running => queue = {}

(* What a step of a worker that has a file may do.                         *)
Others(w) ==
  /\ UNCHANGED <<queue, running>>
  /\ \A v \in Workers \ {w} : pc'[v] = pc[v] /\ job'[v] = job[v] /\ k'[v] = k[v]
  /\ pc'[w] # "free" => job'[w] = job[w]
  /\ \A p \in Paths \ {P(w)} :
       /\ file'[p] = file[p] /\ row'[p] = row[p]
       /\ child'[p] = child[p] /\ childRow'[p] = childRow[p]
       /\ (\A n \in Slots : <<p, n>> \in loose => <<p, n>> \in loose')
       /\ (p \in log.torn => p \in log'.torn)
       /\ (p \in log.redone <=> p \in log'.redone)
  /\ log.extracted \subseteq log'.extracted

-----------------------------------------------------------------------------
(* What each of these steps does to types and to the others' things.       *)
LEMMA BeginMoveFrame ==
  ASSUME Types, NEW w \in Workers, BeginMove(w) PROVE Types' /\ Others(w) /\ pc[w] # "free"
<1>1. /\ pc[w] = "fetched" /\ file' = [file EXCEPT ![P(w)] = Torn] /\ Go(w, "moving")
      /\ UNCHANGED <<child, row, childRow, loose, posted, running, conf, hashes, queue, job, k, outcome, log>>
      /\ DiskOK /\ DbOK /\ WorkersOK /\ LogOK /\ P(w) \in Paths
  BY Busy DEF BeginMove, Types, db
<1>2. WorkersOK' /\ RunOK'
  BY <1>1, GoTypes DEF Types, RunOK, WorkersOK
<1>3. DiskOK' /\ DbOK' /\ LogOK'
  BY <1>1 DEF DiskOK, DbOK, LogOK
<1>4. Others(w)
  BY <1>1 DEF Others, DiskOK, WorkersOK, Go
<1>5. QED
  BY <1>1, <1>2, <1>3, <1>4 DEF Types

LEMMA EndMoveFrame ==
  ASSUME Types, NEW w \in Workers, EndMove(w) PROVE Types' /\ Others(w) /\ pc[w] # "free"
<1>1. /\ pc[w] = "moving" /\ file' = [file EXCEPT ![P(w)] = H(w)] /\ Go(w, "moved")
      /\ UNCHANGED <<child, row, childRow, loose, posted, running, conf, hashes, queue, job, k, outcome, log>>
      /\ DiskOK /\ DbOK /\ WorkersOK /\ LogOK /\ P(w) \in Paths /\ H(w) \in Hashes
  BY Busy DEF EndMove, Types, db
<1>2. WorkersOK' /\ RunOK'
  BY <1>1, GoTypes DEF Types, RunOK, WorkersOK
<1>3. DiskOK' /\ DbOK' /\ LogOK'
  BY <1>1 DEF DiskOK, DbOK, LogOK
<1>4. Others(w)
  BY <1>1 DEF Others, DiskOK, WorkersOK, Go
<1>5. QED
  BY <1>1, <1>2, <1>3, <1>4 DEF Types

LEMMA SaveFrame ==
  ASSUME Types, NEW w \in Workers, Save(w) PROVE Types' /\ Others(w) /\ pc[w] # "free"
<1>1. /\ pc[w] = "moved" /\ row' = [row EXCEPT ![P(w)] = H(w)]
      /\ log' = [log EXCEPT !.superseded = @ \cup ({row[P(w)]} \ {Nothing}), !.torn = @ \ {P(w)}]
      /\ \/ Go(w, "saved") /\ UNCHANGED <<job, k, outcome>>
         \/ Done(w, "success")
      /\ UNCHANGED <<file, child, childRow, loose, posted, running, conf, hashes, queue>>
      /\ DiskOK /\ DbOK /\ WorkersOK /\ LogOK /\ P(w) \in Paths /\ H(w) \in Hashes
  BY Busy DEF Save, Types, disk
<1>2. /\ log'.redone = log.redone /\ log'.extracted = log.extracted
      /\ \A p \in Paths \ {P(w)} : p \in log.torn => p \in log'.torn
  BY <1>1 DEF LogOK
<1>3. WorkersOK' /\ RunOK'
  <2>1. hashes' \subseteq Hashes \cup {Torn}
    BY <1>1 DEF Types, RunOK
  <2>2. k \in [Workers -> 0..(MaxEntries + 1)]
    BY <1>1 DEF WorkersOK
  <2>3. CASE Go(w, "saved") /\ UNCHANGED <<job, k, outcome>>
    BY <1>1, <2>1, <2>2, <2>3, GoTypes DEF AfterSave
  <2>4. CASE Done(w, "success")
    BY <1>1, <2>4, DoneTypes
  <2>5. QED
    BY <1>1, <2>3, <2>4
<1>4. DiskOK' /\ DbOK'
  BY <1>1 DEF DiskOK, DbOK
<1>5. LogOK'
  BY <1>1 DEF LogOK, DbOK
<1>6. Others(w)
  BY <1>1, <1>2 DEF Others, DbOK, WorkersOK, Go, Done
<1>7. QED
  BY <1>1, <1>3, <1>4, <1>5, <1>6 DEF Types

LEMMA ClearFrame ==
  ASSUME Types, NEW w \in Workers, ClearFolder(w) PROVE Types' /\ Others(w) /\ pc[w] # "free"
<1>1. /\ pc[w] = "saved" /\ child' = [child EXCEPT ![P(w)] = [n \in Slots |-> Nothing]]
      /\ log' = IF Range(childRow[P(w)]) # {Nothing}
                THEN [log EXCEPT !.redone = @ \cup {P(w)}] ELSE log
      /\ Go(w, "entry") /\ k' = [k EXCEPT ![w] = 1]
      /\ UNCHANGED <<file, row, childRow, loose, posted, running, conf, hashes, queue, job, outcome>>
      /\ DiskOK /\ DbOK /\ WorkersOK /\ LogOK /\ P(w) \in Paths /\ Len(Entries[job[w]]) \in Nat
  BY Busy, Zenon DEF ClearFolder, Types, db
<1>2. /\ log'.extracted = log.extracted /\ log'.torn = log.torn
      /\ \A p \in Paths \ {P(w)} : p \in log.redone <=> p \in log'.redone
  BY <1>1 DEF LogOK
<1>3. WorkersOK' /\ RunOK'
  <2>1. hashes' \subseteq Hashes \cup {Torn}
    BY <1>1 DEF Types, RunOK
  <2>2. k' \in [Workers -> 0..(MaxEntries + 1)] /\ k'[w] = 1 /\ \A v \in Workers \ {w} : k'[v] = k[v]
    BY <1>1, Facts DEF WorkersOK
  <2>3. "entry" \in AfterSave
    BY DEF AfterSave
  <2>4. QED
    BY <1>1, <2>1, <2>2, <2>3, GoTypes
<1>4. DiskOK' /\ DbOK'
  BY <1>1 DEF DiskOK, DbOK
<1>5. LogOK'
  BY <1>1 DEF LogOK
<1>6. Others(w)
  BY <1>1, <1>2 DEF Others, DiskOK, WorkersOK, Go
<1>7. QED
  BY <1>1, <1>3, <1>4, <1>5, <1>6 DEF Types

(* Steps that change neither the disk nor the table, nor add to the hands. *)
Quietly(w) ==
  /\ pc[w] \in AfterSave \ {"claimed", "renamed"}
  /\ UNCHANGED <<file, child, row, childRow, loose, posted, running, conf, hashes, queue>>
  /\ log.torn \subseteq log'.torn /\ log'.redone = log.redone /\ log.extracted \subseteq log'.extracted
  /\ \/ Done(w, "failed")
     \/ Done(w, "raised")
     \/ Go(w, "failing") /\ UNCHANGED <<job, k, outcome>>
     \/ pc[w] = "entry" /\ More(w) /\ k' = [k EXCEPT ![w] = @ + 1] /\ UNCHANGED <<pc, job, outcome>>

LEMMA QuietFrame ==
  ASSUME Types, NEW w \in Workers, Quietly(w), LogOK'
  PROVE  Types' /\ Others(w) /\ pc[w] # "free"
<1>1. /\ pc[w] # "free" /\ UNCHANGED <<file, child, row, childRow, loose, posted, running, conf, hashes, queue>>
      /\ DiskOK /\ DbOK /\ WorkersOK /\ LogOK /\ job[w] \in Items /\ P(w) \in Paths
      /\ log.torn \subseteq log'.torn /\ log'.redone = log.redone /\ log.extracted \subseteq log'.extracted
  BY Busy DEF Types, Quietly, AfterSave
<1> DEFINE Next1 == pc[w] = "entry" /\ More(w) /\ k' = [k EXCEPT ![w] = @ + 1] /\ UNCHANGED <<pc, job, outcome>>
<1>2. ASSUME Next1 PROVE WorkersOK' /\ RunOK' /\ Others(w)
  <2>1. k[w] \in 1..Len(Entries[job[w]]) /\ k[w] \in Nat
    <3>1. k[w] \in 1..(Len(Entries[job[w]]) + 1) /\ k[w] <= Len(Entries[job[w]])
      BY <1>1, <1>2, EntryOK DEF More
    <3>2. QED
      BY <1>1, <3>1, Facts
  <2>2. Len(Entries[job[w]]) \in Nat /\ Len(Entries[job[w]]) <= MaxEntries /\ MaxEntries \in Nat
    BY <1>1, Facts
  <2>3. /\ k'[w] = k[w] + 1 /\ k' \in [Workers -> 0..(MaxEntries + 1)]
        /\ \A v \in Workers \ {w} : k'[v] = k[v]
    BY <1>1, <1>2, <2>1, <2>2 DEF WorkersOK
  <2>4. Go(w, "entry") /\ hashes' \subseteq Hashes \cup {Torn} /\ k'[w] \in 1..(Len(Entries[job[w]]) + 1)
    BY <1>1, <1>2, <2>1, <2>2, <2>3 DEF Go, WorkersOK, Types, RunOK
  <2>5. WorkersOK' /\ RunOK'
    BY <1>1, <1>2, <2>3, <2>4, GoTypes DEF AfterSave
  <2>6. QED
    BY <1>1, <1>2, <2>3, <2>5 DEF Others
<1>3. ASSUME Done(w, "failed") \/ Done(w, "raised") PROVE WorkersOK' /\ RunOK' /\ Others(w)
  <2>1. WorkersOK' /\ RunOK'
    BY <1>1, <1>3, DoneTypes
  <2>2. pc'[w] = "free" /\ \A v \in Workers \ {w} : pc'[v] = pc[v] /\ job'[v] = job[v] /\ k'[v] = k[v]
    BY <1>1, <1>3 DEF Done, Go, WorkersOK
  <2>3. QED
    BY <1>1, <2>1, <2>2 DEF Others
<1>4. ASSUME Go(w, "failing"), UNCHANGED <<job, k, outcome>> PROVE WorkersOK' /\ RunOK' /\ Others(w)
  <2>1. WorkersOK' /\ RunOK'
    BY <1>1, <1>4, GoTypes DEF AfterSave, WorkersOK, Types, RunOK
  <2>2. pc'[w] = "failing" /\ \A v \in Workers \ {w} : pc'[v] = pc[v]
    BY <1>1, <1>4 DEF Go, WorkersOK
  <2>3. QED
    BY <1>1, <1>4, <2>1, <2>2 DEF Others
<1>5. WorkersOK' /\ RunOK' /\ Others(w)
  BY <1>2, <1>3, <1>4 DEF Quietly
<1>6. QED
  BY <1>1, <1>5 DEF Types, DiskOK, DbOK

LEMMA FailQuietly ==
  ASSUME Types, NEW w \in Workers, UnpackFails(w) \/ DeleteRefused(w) \/ DropEntry(w)
  PROVE  Quietly(w) /\ LogOK'
<1>1. /\ pc[w] \in AfterSave \ {"claimed", "renamed"} /\ pc[w] # "free"
      /\ UNCHANGED <<file, child, row, childRow, loose, posted, running, conf, hashes, queue>>
  BY Zenon DEF UnpackFails, DeleteRefused, DropEntry, AfterSave, disk, db
<1>2. job[w] \in Items /\ LogOK /\ (pc[w] = "entry" /\ More(w) => Entry(w) \in Hashes)
  BY <1>1, Busy, EntryOK DEF Types
<1>3. LogOK' /\ log.torn \subseteq log'.torn /\ log'.redone = log.redone /\ log.extracted \subseteq log'.extracted
  <2>1. CASE UnpackFails(w)
    <3> DEFINE S == IF conf.keepFailed THEN log.kept \cup {job[w]} ELSE log.kept
    <3>1. log' = [log EXCEPT !.refused = @ \cup {job[w]}, !.kept = S]
      BY <2>1, Zenon DEF UnpackFails
    <3>2. S = log.kept \cup {job[w]} \/ S = log.kept
      BY Zenon
    <3>3. S \in SUBSET Items
      BY <1>2, <3>2 DEF LogOK
    <3> HIDE DEF S
    <3>4. QED
      BY <1>2, <3>1, <3>3 DEF LogOK
  <2>2. CASE DeleteRefused(w)
    <3>1. log' = [log EXCEPT !.cut = @ \cup {job[w]}]
      BY <2>2, Zenon DEF DeleteRefused
    <3>2. QED
      BY <1>2, <3>1 DEF LogOK
  <2>3. CASE DropEntry(w)
    <3>1. log' = [log EXCEPT !.dropped = @ \cup ({Entry(w)} \ Unwanted)] /\ pc[w] = "entry" /\ More(w)
      BY <2>3, Zenon DEF DropEntry
    <3>2. QED
      BY <1>2, <3>1 DEF LogOK
  <2>4. QED
    BY <2>1, <2>2, <2>3
<1>4. \/ Done(w, "failed")
      \/ Done(w, "raised")
      \/ Go(w, "failing") /\ UNCHANGED <<job, k, outcome>>
      \/ pc[w] = "entry" /\ More(w) /\ k' = [k EXCEPT ![w] = @ + 1] /\ UNCHANGED <<pc, job, outcome>>
  BY Zenon DEF UnpackFails, DeleteRefused, DropEntry
<1>5. QED
  BY <1>1, <1>3, <1>4 DEF Quietly

LEMMA FailFrame ==
  ASSUME Types, NEW w \in Workers, UnpackFails(w) \/ DeleteRefused(w) \/ DropEntry(w)
  PROVE  Types' /\ Others(w) /\ pc[w] # "free"
  BY FailQuietly, QuietFrame

LEMMA DeleteFrame ==
  ASSUME Types, NEW w \in Workers, DeleteRow(w) PROVE Types' /\ Others(w) /\ pc[w] # "free"
<1>1. /\ pc[w] = "failing" /\ row' = [row EXCEPT ![P(w)] = Nothing]
      /\ log' = [log EXCEPT !.superseded = @ \cup {H(w)}] /\ Go(w, "deleted")
      /\ UNCHANGED <<file, child, childRow, loose, posted, running, conf, hashes, queue, job, k, outcome>>
      /\ DiskOK /\ DbOK /\ WorkersOK /\ LogOK /\ P(w) \in Paths /\ H(w) \in Hashes
  BY Busy DEF DeleteRow, Types, disk
<1>2. log'.extracted = log.extracted /\ log'.torn = log.torn /\ log'.redone = log.redone
  BY <1>1 DEF LogOK
<1>3. WorkersOK' /\ RunOK'
  BY <1>1, GoTypes DEF Types, RunOK, WorkersOK
<1>4. DiskOK' /\ DbOK' /\ LogOK'
  BY <1>1 DEF DiskOK, DbOK, LogOK
<1>5. Others(w)
  BY <1>1, <1>2 DEF Others, DbOK, WorkersOK, Go
<1>6. QED
  BY <1>1, <1>3, <1>4, <1>5 DEF Types

LEMMA RemoveFrame ==
  ASSUME Types, NEW w \in Workers, RemoveFailed(w) PROVE Types' /\ Others(w) /\ pc[w] # "free"
<1>1. /\ pc[w] = "deleted" /\ file' = [file EXCEPT ![P(w)] = Nothing] /\ Done(w, "failed")
      /\ UNCHANGED <<child, row, childRow, loose, posted, running, conf, hashes, queue, log>>
      /\ DiskOK /\ DbOK /\ WorkersOK /\ LogOK /\ P(w) \in Paths
  BY Busy DEF RemoveFailed, Types, db
<1>2. WorkersOK' /\ RunOK'
  BY <1>1, DoneTypes
<1>3. DiskOK' /\ DbOK' /\ LogOK'
  BY <1>1 DEF DiskOK, DbOK, LogOK
<1>4. Others(w)
  BY <1>1 DEF Others, DiskOK, WorkersOK, Done, Go
<1>5. QED
  BY <1>1, <1>2, <1>3, <1>4 DEF Types

LEMMA ClaimFrame ==
  ASSUME Types, NEW w \in Workers, ClaimEntry(w) PROVE Types' /\ Others(w) /\ pc[w] # "free"
<1>1. /\ pc[w] = "entry" /\ More(w) /\ hashes' = hashes \cup {Entry(w)} /\ Go(w, "claimed")
      /\ UNCHANGED <<file, child, row, childRow, loose, posted, running, conf, queue, job, k, outcome, log>>
      /\ DiskOK /\ DbOK /\ WorkersOK /\ LogOK
  BY DEF ClaimEntry, Types, disk, db
<1>2. Entry(w) \in Hashes /\ k[w] \in 1..(Len(Entries[job[w]]) + 1) /\ k[w] <= Len(Entries[job[w]])
  BY <1>1, EntryOK DEF More
<1>3. WorkersOK' /\ RunOK'
  <2>1. "claimed" \in AfterSave /\ hashes' \subseteq Hashes \cup {Torn} /\ k' \in [Workers -> 0..(MaxEntries + 1)]
    BY <1>1, <1>2 DEF Types, RunOK, WorkersOK, AfterSave
  <2>2. QED
    BY <1>1, <1>2, <2>1, GoTypes
<1>4. DiskOK' /\ DbOK' /\ LogOK'
  BY <1>1 DEF DiskOK, DbOK, LogOK
<1>5. Others(w)
  BY <1>1 DEF Others, WorkersOK, Go
<1>6. QED
  BY <1>1, <1>3, <1>4, <1>5 DEF Types

LEMMA RenameFrame ==
  ASSUME Types, NEW w \in Workers, RenameEntry(w) PROVE Types' /\ Others(w) /\ pc[w] # "free"
<1>1. /\ pc[w] = "claimed" /\ child' = [child EXCEPT ![P(w)][k[w]] = Entry(w)] /\ Go(w, "renamed")
      /\ UNCHANGED <<file, row, childRow, loose, posted, running, conf, hashes, queue, job, k, outcome, log>>
      /\ DiskOK /\ DbOK /\ WorkersOK /\ LogOK /\ P(w) \in Paths
  BY Busy DEF RenameEntry, Types, db
<1>2. /\ Entry(w) \in Hashes /\ k[w] \in Slots
      /\ k[w] \in 1..(Len(Entries[job[w]]) + 1) /\ k[w] <= Len(Entries[job[w]])
  BY <1>1, EntryOK DEF More
<1>3. WorkersOK' /\ RunOK'
  <2>1. "renamed" \in AfterSave /\ hashes' \subseteq Hashes \cup {Torn} /\ k' \in [Workers -> 0..(MaxEntries + 1)]
    BY <1>1 DEF Types, RunOK, WorkersOK, AfterSave
  <2>2. QED
    BY <1>1, <1>2, <2>1, GoTypes
<1>4. DiskOK' /\ DbOK' /\ LogOK'
  BY <1>1, <1>2 DEF DiskOK, DbOK, LogOK
<1>5. Others(w)
  BY <1>1 DEF Others, DiskOK, WorkersOK, Go
<1>6. QED
  BY <1>1, <1>3, <1>4, <1>5 DEF Types

LEMMA SaveEntryFrame ==
  ASSUME Types, NEW w \in Workers, SaveEntry(w) PROVE Types' /\ Others(w) /\ pc[w] # "free"
<1>1. /\ pc[w] = "renamed" /\ childRow' = [childRow EXCEPT ![P(w)][k[w]] = Entry(w)]
      /\ loose' = loose \ {<<P(w), k[w]>>}
      /\ log' = [log EXCEPT !.superseded = @ \cup ({childRow[P(w)][k[w]]} \ {Nothing})]
      /\ Go(w, "entry") /\ k' = [k EXCEPT ![w] = @ + 1]
      /\ UNCHANGED <<file, child, row, posted, running, conf, hashes, queue, job, outcome>>
      /\ DiskOK /\ DbOK /\ WorkersOK /\ LogOK /\ P(w) \in Paths
      /\ Len(Entries[job[w]]) \in Nat /\ Len(Entries[job[w]]) <= MaxEntries /\ MaxEntries \in Nat
  BY Busy, Facts DEF SaveEntry, Types, disk
<1>2. /\ Entry(w) \in Hashes /\ k[w] \in Slots /\ k[w] \in Nat
      /\ k[w] \in 1..(Len(Entries[job[w]]) + 1) /\ k[w] <= Len(Entries[job[w]])
  BY <1>1, EntryOK DEF More
<1>3. /\ k'[w] = k[w] + 1 /\ k' \in [Workers -> 0..(MaxEntries + 1)]
      /\ \A v \in Workers \ {w} : k'[v] = k[v]
  BY <1>1, <1>2 DEF WorkersOK
<1>4. log'.extracted = log.extracted /\ log'.torn = log.torn /\ log'.redone = log.redone
  BY <1>1 DEF LogOK
<1>5. WorkersOK' /\ RunOK'
  <2>1. "entry" \in AfterSave /\ hashes' \subseteq Hashes \cup {Torn} /\ k'[w] \in 1..(Len(Entries[job[w]]) + 1)
    BY <1>1, <1>2, <1>3 DEF Types, RunOK, AfterSave
  <2>2. QED
    BY <1>1, <1>3, <2>1, GoTypes
<1>6. DiskOK' /\ DbOK'
  BY <1>1, <1>2 DEF DiskOK, DbOK
<1>7. childRow[P(w)][k[w]] \in Hashes \cup {Nothing}
  BY <1>1, <1>2 DEF DbOK
<1>8. LogOK'
  BY <1>1, <1>7 DEF LogOK
<1>9. Others(w)
  BY <1>1, <1>3, <1>4 DEF Others, DbOK, WorkersOK, Go
<1>10. QED
  BY <1>1, <1>5, <1>6, <1>8, <1>9 DEF Types

LEMMA EndUnpackFrame ==
  ASSUME Types, NEW w \in Workers, EndUnpack(w) PROVE Types' /\ Others(w) /\ pc[w] # "free"
<1>1. /\ pc[w] = "entry"
      /\ file' = IF conf.keepUnpacked THEN file ELSE [file EXCEPT ![P(w)] = Nothing]
      /\ log' = [log EXCEPT !.extracted = @ \cup {job[w]}, !.refused = @ \ {job[w]}]
      /\ Done(w, "success")
      /\ UNCHANGED <<child, row, childRow, loose, posted, running, conf, hashes, queue>>
      /\ DiskOK /\ DbOK /\ WorkersOK /\ LogOK /\ job[w] \in Items /\ P(w) \in Paths
  BY Busy DEF EndUnpack, Types, db
<1>2. log'.extracted = log.extracted \cup {job[w]} /\ log'.torn = log.torn /\ log'.redone = log.redone
  BY <1>1 DEF LogOK
<1>3. file' = file \/ file' = [file EXCEPT ![P(w)] = Nothing]
  BY <1>1, Zenon
<1>4. WorkersOK' /\ RunOK'
  BY <1>1, DoneTypes
<1>5. DiskOK' /\ DbOK' /\ LogOK'
  BY <1>1, <1>3 DEF DiskOK, DbOK, LogOK
<1>6. Others(w)
  BY <1>1, <1>2, <1>3 DEF Others, DiskOK, WorkersOK, Done, Go
<1>7. QED
  BY <1>1, <1>4, <1>5, <1>6 DEF Types

LEMMA RaiseFrame ==
  ASSUME Types, NEW w \in Workers, Raise(w)
  PROVE  /\ Types' /\ Others(w) /\ pc[w] # "free"
         /\ log.torn \subseteq log'.torn /\ log'.redone = log.redone
         /\ pc[w] \in {"moving", "moved"} => P(w) \in log'.torn
<1>1. /\ pc[w] # "free" /\ log' = CutShort({w}) /\ Done(w, "raised")
      /\ UNCHANGED <<file, child, row, childRow, loose, posted, running, conf, hashes, queue>>
      /\ DiskOK /\ DbOK /\ WorkersOK /\ LogOK /\ job[w] \in Items /\ P(w) \in Paths
  BY Busy DEF Raise, Types, disk, db
<1>2. /\ LogOK' /\ log'.extracted = log.extracted /\ log'.redone = log.redone
      /\ log.torn \subseteq log'.torn /\ (pc[w] \in {"moving", "moved"} => P(w) \in log'.torn)
  BY <1>1 DEF CutShort, LogOK
<1>3. WorkersOK' /\ RunOK'
  BY <1>1, DoneTypes
<1>4. DiskOK' /\ DbOK'
  BY <1>1 DEF DiskOK, DbOK
<1>5. Others(w)
  BY <1>1, <1>2 DEF Others, WorkersOK, Done, Go
<1>6. QED
  BY <1>1, <1>2, <1>3, <1>4, <1>5 DEF Types

-----------------------------------------------------------------------------
(* load_files reads the hash of every row. *)
LEMMA RecordedCells ==
  ASSUME DbOK, NEW h
  PROVE  h \in Recorded <=> h # Nothing /\ \E l \in Cells : HashOfRow(l) = h
<1>1. /\ DOMAIN row = Paths /\ DOMAIN childRow = Paths /\ \A p \in Paths : DOMAIN childRow[p] = Slots
  BY DEF DbOK
<1>2. ASSUME h \in Range(row) PROVE \E l \in Cells : HashOfRow(l) = h
  <2>1. PICK p \in Paths : row[p] = h
    BY <1>1, <1>2 DEF Range
  <2>2. <<p, 0>> \in Cells /\ HashOfRow(<<p, 0>>) = h
    BY <2>1, Facts DEF Cells, HashOfRow
  <2>3. QED
    BY <2>2
<1>3. ASSUME NEW p \in Paths, h \in Range(childRow[p]) PROVE \E l \in Cells : HashOfRow(l) = h
  <2>1. PICK n \in Slots : childRow[p][n] = h
    BY <1>1, <1>3 DEF Range
  <2>2. <<p, n>> \in Cells /\ HashOfRow(<<p, n>>) = h
    BY <2>1, Facts DEF Cells, HashOfRow, Slots
  <2>3. QED
    BY <2>2
<1>4. ASSUME NEW l \in Cells
      PROVE  HashOfRow(l) \in Range(row) \cup UNION {Range(childRow[p]) : p \in Paths}
  <2>1. l[1] \in Paths /\ (l[2] # 0 => l[2] \in Slots)
    BY Facts DEF Cells, Slots
  <2>2. CASE l[2] = 0
    BY <1>1, <2>1, <2>2 DEF HashOfRow, Range
  <2>3. CASE l[2] # 0
    <3>1. HashOfRow(l) \in Range(childRow[l[1]])
      BY <1>1, <2>1, <2>3 DEF HashOfRow, Range
    <3>2. QED
      BY <2>1, <3>1
  <2>4. QED
    BY <2>2, <2>3
<1>5. QED
  BY <1>2, <1>3, <1>4 DEF Recorded

LEMMA CellTypes ==
  ASSUME DbOK, NEW l \in Cells
  PROVE  HashOfRow(l) \in Hashes \cup {Nothing, Torn}
<1>1. l[1] \in Paths /\ (l[2] # 0 => l[2] \in Slots)
  BY Facts DEF Cells, Slots
<1>2. QED
  BY <1>1 DEF HashOfRow, DbOK

(* Every step keeps the types, and two files of a run apart.               *)
LEMMA WorkingApart ==
  ASSUME Types, Apart, NEW w \in Workers, pc[w] # "free", Others(w), WorkersOK' PROVE Apart'
<1>1. \A v \in Workers \ {w} : pc'[v] # "free" =>
        pc[v] # "free" /\ P(v)' = P(v) /\ P(v) # P(w) /\ P(v) \in Paths
  BY Busy DEF Others, Apart, P, Types
<1>2. pc'[w] # "free" => P(w)' = P(w)
  BY DEF Others, P
<1>3. QED
  BY <1>1, <1>2 DEF Apart, Others

LEMMA FetchShape ==
  ASSUME Types, Apart, NEW w \in Workers, NEW i \in Items, Fetch(w, i) PROVE Types' /\ Apart'
<1>1. /\ pc[w] = "free" /\ i \in queue /\ queue' = queue \ {i} /\ job' = [job EXCEPT ![w] = i]
      /\ pc' = [pc EXCEPT ![w] = "fetched"]
      /\ UNCHANGED <<file, child, row, childRow, loose, posted, running, conf, hashes, k, outcome, log>>
      /\ DiskOK /\ DbOK /\ WorkersOK /\ RunOK /\ LogOK
  BY Zenon DEF Fetch, Go, disk, db, counters, Types
<1>2. running
  BY <1>1, Zenon DEF Apart
<1>3. RunOK'
  <2>1. running' \in BOOLEAN /\ conf' \in Configs
    BY <1>1, Zenon DEF RunOK
  <2>2. QED
    BY <1>1, <2>1 DEF RunOK
<1>4. WorkersOK'
  BY <1>1, <1>2, Facts DEF WorkersOK, AtEntry
<1>5. DiskOK' /\ DbOK' /\ LogOK'
  BY <1>1 DEF DiskOK, DbOK, LogOK
<1>6. /\ pc'[w] = "fetched" /\ P(w)' = PathOf[i]
      /\ \A v \in Workers \ {w} : pc'[v] = pc[v] /\ P(v)' = P(v)
  BY <1>1 DEF WorkersOK, P
<1>7. Apart'
  BY <1>1, <1>6 DEF Apart
<1>8. QED
  BY <1>3, <1>4, <1>5, <1>7 DEF Types

(* Steps that leave the workers, the disk and the table alone. *)
LEMMA AsideApart ==
  ASSUME Apart, UNCHANGED <<pc, job>>, queue' \subseteq queue, running' = running \/ (~running' /\ queue' = {})
  PROVE  Apart'
<1>1. \A w \in Workers : P(w)' = P(w)
  BY DEF P
<1>2. QED
  BY <1>1 DEF Apart

LEMMA FetchFailsShape ==
  ASSUME Types, Apart, NEW w \in Workers, NEW i \in Items, FetchFails(w, i) PROVE Types' /\ Apart'
<1>1. /\ queue' = queue \ {i} /\ outcome' = [outcome EXCEPT ![i] = "failed"]
      /\ UNCHANGED <<file, child, row, childRow, loose, posted, running, conf, hashes, pc, job, k, log>>
  BY Zenon DEF FetchFails, disk, db, workers
<1>2. running' \in BOOLEAN /\ conf' \in Configs
  BY <1>1, Zenon DEF Types, RunOK
<1>3. RunOK'
  BY <1>1, <1>2 DEF Types, RunOK
<1>4. Types'
  BY <1>1, <1>3 DEF Types, DiskOK, DbOK, WorkersOK, AtEntry, LogOK
<1>5. QED
  BY <1>1, <1>4, AsideApart

LEMMA EndRunShape == ASSUME Types, Apart, EndRun PROVE Types' /\ Apart'
<1>1. /\ running' = FALSE /\ hashes' = {} /\ queue = {} /\ \A w \in Workers : pc[w] = "free"
      /\ log' = [log EXCEPT !.ended = TRUE]
      /\ UNCHANGED <<file, child, row, childRow, loose, posted, conf, queue, pc, job, k, outcome>>
  BY Zenon DEF EndRun, disk, db, workers
<1>2. conf' \in Configs
  BY <1>1, Zenon DEF Types, RunOK
<1>3. RunOK'
  BY <1>1, <1>2 DEF Types, RunOK
<1>4. LogOK'
  BY <1>1 DEF Types, LogOK
<1>5. WorkersOK'
  BY <1>1 DEF Types, WorkersOK, AtEntry
<1>6. Types'
  BY <1>1, <1>3, <1>4, <1>5 DEF Types, DiskOK, DbOK
<1>7. QED
  BY <1>1, <1>6, AsideApart

LEMMA EditShape == ASSUME Types, Apart, NEW S \in Posts, Edit(S) PROVE Types' /\ Apart'
<1>1. /\ posted' = S
      /\ UNCHANGED <<file, child, row, childRow, loose, running, conf, hashes, queue, pc, job, k, outcome, log>>
  BY Zenon DEF Edit, disk, db, workers
<1>2. running' \in BOOLEAN /\ conf' \in Configs
  BY <1>1, Zenon DEF Types, RunOK
<1>3. RunOK'
  BY <1>1, <1>2 DEF Types, RunOK
<1>4. Types'
  BY <1>1, <1>3 DEF Types, DiskOK, DbOK, WorkersOK, AtEntry, LogOK
<1>5. QED
  BY <1>1, <1>4, AsideApart

LEMMA StutterShape == ASSUME Types, Apart, UNCHANGED vars PROVE Types' /\ Apart'
<1>1. UNCHANGED <<file, child, row, childRow, loose, posted, running, conf, hashes, queue, pc, job, k,
                  outcome, log>>
  BY Zenon DEF vars, disk, db, workers
<1>2. running' \in BOOLEAN /\ conf' \in Configs
  BY <1>1, Zenon DEF Types, RunOK
<1>3. RunOK'
  BY <1>1, <1>2 DEF Types, RunOK
<1>4. Types'
  BY <1>1, <1>3 DEF Types, DiskOK, DbOK, WorkersOK, AtEntry, LogOK
<1>5. QED
  BY <1>1, <1>4, AsideApart

LEMMA StartRunShape == ASSUME Types, Apart, NEW c \in Configs, StartRun(c) PROVE Types' /\ Apart'
<1>1. /\ ~running /\ running' = TRUE /\ conf' = c /\ queue' = New
      /\ hashes' = Recorded \cup {HashOf[i] : i \in New}
      /\ outcome' = [i \in Items |-> "none"]
      /\ log' = [log EXCEPT !.seen = posted, !.dropped = {}, !.superseded = {}, !.ended = FALSE]
      /\ UNCHANGED <<file, child, row, childRow, loose, posted, pc, job, k>>
  BY Zenon DEF StartRun, disk, db, workers
<1>2. DbOK /\ WorkersOK /\ LogOK /\ posted \in Posts
  BY DEF Types, RunOK
<1>3. \A w \in Workers : pc'[w] = "free"
  BY <1>1, <1>2, Zenon DEF WorkersOK
<1>4. posted \subseteq Items /\ \A i, j \in posted : PathOf[i] = PathOf[j] => i = j
  BY <1>2 DEF Posts
<1>5. \A i \in New : i \in posted /\ i \in Items /\ HashOf[i] \in Hashes
  BY <1>4, Facts DEF New
<1>6. Recorded \subseteq Hashes \cup {Torn}
  <2> SUFFICES ASSUME NEW h \in Recorded PROVE h \in Hashes \cup {Torn}
    OBVIOUS
  <2>1. h # Nothing /\ \E l \in Cells : HashOfRow(l) = h
    BY <1>2, RecordedCells
  <2>2. QED
    BY <1>2, <2>1, CellTypes
<1>7. hashes' \subseteq Hashes \cup {Torn} /\ queue' \subseteq Items
  BY <1>1, <1>5, <1>6
<1>8. RunOK'
  BY <1>1, <1>2, <1>7 DEF RunOK
<1>9. WorkersOK'
  BY <1>1, <1>2, <1>3 DEF WorkersOK, AtEntry
<1>10. LogOK'
  BY <1>1, <1>2, <1>4 DEF LogOK
<1>11. DiskOK' /\ DbOK'
  BY <1>1 DEF Types, DiskOK, DbOK
<1>12. Apart'
  BY <1>1, <1>3, <1>4, <1>5 DEF Apart
<1>13. QED
  BY <1>8, <1>9, <1>10, <1>11, <1>12 DEF Types

LEMMA CrashShape ==
  ASSUME Types, Apart, Crash
  PROVE  /\ Types' /\ Apart' /\ log'.extracted = log.extracted /\ log'.redone = log.redone
         /\ log'.torn = log.torn \cup {P(w) : w \in {v \in Workers : pc[v] \in {"moving", "moved"}}}
<1>1. /\ running' = FALSE /\ log' = CutShort(Workers) /\ hashes' = {} /\ queue' = {}
      /\ pc' = [w \in Workers |-> "free"] /\ job' = [w \in Workers |-> NoItem]
      /\ k' = [w \in Workers |-> 0]
      /\ UNCHANGED <<file, child, row, childRow, loose, posted, conf, outcome>>
      /\ DbOK /\ WorkersOK /\ LogOK
  BY Zenon DEF Crash, disk, db, Types
<1>2. \A w \in Workers : pc'[w] = "free"
  BY <1>1
<1>3. \A w \in Workers : pc[w] # "free" => job[w] \in Items /\ P(w) \in Paths
  BY <1>1, Busy
<1>4. /\ LogOK' /\ log'.extracted = log.extracted /\ log'.redone = log.redone
      /\ log'.torn = log.torn \cup {P(w) : w \in {v \in Workers : pc[v] \in {"moving", "moved"}}}
  <2>1. {job[w] : w \in {v \in Workers : pc[v] \in AfterSave}} \subseteq Items
    BY <1>3 DEF AfterSave
  <2>2. {P(w) : w \in {v \in Workers : pc[v] \in {"moving", "moved"}}} \subseteq Paths
    BY <1>3
  <2>3. QED
    BY <1>1, <2>1, <2>2 DEF CutShort, LogOK
<1>5. conf' \in Configs
  BY <1>1, Zenon DEF Types, RunOK
<1>6. RunOK'
  BY <1>1, <1>5 DEF Types, RunOK
<1>7. WorkersOK'
  BY <1>1, <1>2, Facts DEF WorkersOK, AtEntry
<1>8. DiskOK' /\ DbOK'
  BY <1>1 DEF Types, DiskOK, DbOK
<1>9. Apart'
  BY <1>1, <1>2 DEF Apart
<1>10. QED
  BY <1>4, <1>6, <1>7, <1>8, <1>9 DEF Types

(* A step of a worker that has a file. *)
Working(w) ==
  \/ BeginMove(w) \/ EndMove(w) \/ Save(w)
  \/ ClearFolder(w) \/ UnpackFails(w) \/ DeleteRow(w) \/ DeleteRefused(w) \/ RemoveFailed(w)
  \/ DropEntry(w) \/ ClaimEntry(w) \/ RenameEntry(w) \/ SaveEntry(w) \/ EndUnpack(w)
  \/ Raise(w)

LEMMA WorkingFrame ==
  ASSUME Types, NEW w \in Workers, Working(w) PROVE Types' /\ Others(w) /\ pc[w] # "free"
  BY BeginMoveFrame, EndMoveFrame, SaveFrame, ClearFrame, FailFrame, DeleteFrame, RemoveFrame, ClaimFrame,
     RenameFrame, SaveEntryFrame, EndUnpackFrame, RaiseFrame DEF Working

LEMMA NextCases ==
  ASSUME Next
  PROVE  \/ \E c \in Configs : StartRun(c)
         \/ EndRun
         \/ \E S \in Posts : Edit(S)
         \/ \E w \in Workers, i \in Items : Fetch(w, i) \/ FetchFails(w, i)
         \/ \E w \in Workers : Working(w)
         \/ Crash
         \/ UNCHANGED vars
  BY Zenon DEF Next, WorkerStep, Working, Finished

LEMMA NextShape == ASSUME Types, Apart, [Next]_vars PROVE Types' /\ Apart'
<1>1. ASSUME NEW w \in Workers, Working(w) PROVE Types' /\ Apart'
  <2>1. Types' /\ Others(w) /\ pc[w] # "free"
    BY <1>1, WorkingFrame
  <2>2. QED
    BY <2>1, WorkingApart DEF Types
<1>2. CASE Next
  BY <1>1, <1>2, NextCases, StartRunShape, EndRunShape, EditShape, FetchShape, FetchFailsShape, CrashShape,
     StutterShape
<1>3. QED
  BY <1>2, StutterShape

-----------------------------------------------------------------------------
(* A content that is in nobody's hands but the holder's: the hash of a     *)
(* queued file, of a worker's file that has no row yet, of a worker's      *)
(* entry that is claimed and has none.                                     *)
Free(h) == h \in hashes /\ \A l \in Cells : HashOfRow(l) # h

Tickets ==
  /\ \A w \in Workers : \A h \in Held(w) : Free(h)
  /\ \A i \in queue : Free(HashOf[i])
  /\ \A v, w \in Workers : v # w => Held(v) \cap Held(w) = {}
  /\ \A w \in Workers : \A i \in queue : HashOf[i] \notin Held(w)
  /\ \A i, j \in queue : HashOf[i] = HashOf[j] => i = j
  /\ running => \A l \in Cells : HashOfRow(l) \in hashes \cup {Nothing}
  /\ \A r, s \in Cells : HashOfRow(r) # Nothing /\ HashOfRow(r) = HashOfRow(s) => r = s

(* What a worker has done to the disk and the table. *)
Mine(w) ==
  /\ pc[w] \in AfterSave \cup {"moved"} => file[P(w)] = H(w)
  /\ pc[w] \in AfterSave => row[P(w)] = H(w)
  /\ pc[w] = "deleted" => row[P(w)] = Nothing
  /\ pc[w] = "renamed" => child[P(w)][k[w]] = Entry(w)
  /\ pc[w] \in {"entry", "claimed", "renamed"} /\ P(w) \notin log.redone =>
       \A n \in Slots : n >= k[w] => childRow[P(w)][n] = Nothing

(* RecordedIsOnDisk, of one path. *)
PathOK(p) ==
  /\ row[p] # Nothing =>
       \/ file[p] = row[p]
       \/ p \in log.torn
       \/ \E w \in Workers : job[w] # NoItem /\ P(w) = p /\ pc[w] \in {"moving", "moved"}
       \/ file[p] = Nothing /\ \E i \in log.extracted : HashOf[i] = row[p]
  /\ p \notin log.redone => \A n \in Slots :
       childRow[p][n] # Nothing => child[p][n] = childRow[p][n]

IInv ==
  /\ Types /\ Tickets /\ Apart /\ (\A w \in Workers : Mine(w)) /\ (\A p \in Paths : PathOK(p))

-----------------------------------------------------------------------------
CellsOf(w) ==
  \/ \A l \in Cells : HashOfRow(l)' = HashOfRow(l)
  \/ \E c \in Cells, h \in {Nothing} \cup (Held(w) \ Held(w)') :
       \A l \in Cells : HashOfRow(l)' = IF l = c THEN h ELSE HashOfRow(l)

TicketsOf(w) ==
  /\ hashes \subseteq hashes'
  /\ Held(w)' \subseteq hashes' /\ Held(w)' \subseteq Held(w) \cup (hashes' \ hashes)
  /\ CellsOf(w)

Good(w) ==
  /\ Types' /\ Others(w) /\ TicketsOf(w) /\ Mine(w)'
  /\ \A p \in Paths : p = P(w) => PathOK(p)'

LEMMA GoodTickets ==
  ASSUME IInv, NEW w \in Workers, pc[w] # "free", Good(w)
  PROVE  Tickets'
<1>1. /\ Tickets /\ UNCHANGED <<queue, running>> /\ running
      /\ hashes \subseteq hashes' /\ Held(w)' \subseteq hashes'
      /\ Held(w)' \subseteq Held(w) \cup (hashes' \ hashes)
      /\ CellsOf(w)
  BY DEF IInv, Good, TicketsOf, Others, Types, WorkersOK
<1>2. \A v \in Workers \ {w} : Held(v)' = Held(v)
  BY DEF Good, Others, Held, H, Entry
<1>3. Nothing \notin hashes'
  BY Facts DEF Good, Types, RunOK
<1> DEFINE Cell(l) == HashOfRow(l)
           Cell1(l) == HashOfRow(l)'
           Mine0 == Held(w)
           Mine1 == Held(w)'
<1>4. \/ \A l \in Cells : Cell1(l) = Cell(l)
      \/ \E c \in Cells, h \in {Nothing} \cup (Mine0 \ Mine1) :
           \A l \in Cells : Cell1(l) = IF l = c THEN h ELSE Cell(l)
  BY <1>1 DEF CellsOf
<1>5. /\ \A h \in Mine0 : h \in hashes /\ \A l \in Cells : Cell(l) # h
      /\ \A l \in Cells : Cell(l) \in hashes \cup {Nothing}
      /\ \A r, s \in Cells : Cell(r) # Nothing /\ Cell(r) = Cell(s) => r = s
      /\ \A v \in Workers \ {w} : \A h \in Held(v) : h \in hashes /\ h \notin Mine0 /\ \A l \in Cells : Cell(l) # h
      /\ \A i \in queue : HashOf[i] \in hashes /\ HashOf[i] \notin Mine0 /\ \A l \in Cells : Cell(l) # HashOf[i]
  BY <1>1 DEF Tickets, Free
<1>6. \A h \in Mine1 : h \in hashes' /\ (h \in Mine0 \/ h \notin hashes)
  BY <1>1
<1> HIDE DEF Cell, Cell1, Mine0, Mine1
<1>7. \A h \in Mine1 : h \in hashes' /\ \A l \in Cells : Cell1(l) # h
  BY <1>1, <1>3, <1>4, <1>5, <1>6
<1>8. /\ \A v \in Workers \ {w} : \A h \in Held(v) :
           h \in hashes' /\ h \notin Mine1 /\ \A l \in Cells : Cell1(l) # h
      /\ \A i \in queue : /\ HashOf[i] \in hashes' /\ HashOf[i] \notin Mine1
                          /\ \A l \in Cells : Cell1(l) # HashOf[i]
  BY <1>1, <1>3, <1>4, <1>5, <1>6
<1>9. \A l \in Cells : Cell1(l) \in hashes' \cup {Nothing}
  BY <1>1, <1>4, <1>5
<1>10. \A r, s \in Cells : Cell1(r) # Nothing /\ Cell1(r) = Cell1(s) => r = s
  BY <1>1, <1>4, <1>5
<1>11. \A v \in Workers : \A h \in Held(v)' : h \in hashes' /\ \A l \in Cells : HashOfRow(l)' # h
  BY <1>2, <1>7, <1>8 DEF Cell1, Mine1
<1>12. \A u, v \in Workers : u # v => Held(u)' \cap Held(v)' = {}
  BY <1>1, <1>2, <1>8 DEF Tickets, Mine1
<1>13. /\ \A v \in Workers : \A i \in queue : HashOf[i] \notin Held(v)'
       /\ \A i \in queue : HashOf[i] \in hashes' /\ \A l \in Cells : HashOfRow(l)' # HashOf[i]
  BY <1>1, <1>2, <1>8 DEF Tickets, Mine1, Cell1
<1>14. /\ \A l \in Cells : HashOfRow(l)' \in hashes' \cup {Nothing}
       /\ \A r, s \in Cells : HashOfRow(r)' # Nothing /\ HashOfRow(r)' = HashOfRow(s)' => r = s
  BY <1>9, <1>10 DEF Cell1
<1>15. QED
  BY <1>1, <1>11, <1>12, <1>13, <1>14 DEF Tickets, Free

LEMMA GoodIInv ==
  ASSUME IInv, NEW w \in Workers, pc[w] # "free", Good(w)
  PROVE  IInv'
<1>1. Types /\ Apart /\ Types' /\ Others(w) /\ P(w) \in Paths /\ job[w] # NoItem
  BY Busy DEF IInv, Good, Types
<1>2. \A v \in Workers \ {w} : pc'[v] # "free" =>
        /\ pc[v] # "free" /\ P(v)' = P(v) /\ H(v)' = H(v) /\ Entry(v)' = Entry(v)
        /\ P(v) # P(w) /\ P(v) \in Paths
  BY <1>1, Busy DEF Others, Apart, P, H, Entry, Types
<1>3. pc'[w] # "free" => P(w)' = P(w)
  BY <1>1 DEF Others, P
<1>4. Apart'
  BY <1>1, WorkingApart DEF Types, Good
<1>5. \A v \in Workers : Mine(v)'
  <2> TAKE v \in Workers
  <2>1. CASE v = w
    BY <2>1 DEF Good
  <2>2. CASE v # w
    BY <1>1, <1>2, <2>2 DEF Others, Mine, IInv, AfterSave
  <2>3. QED
    BY <2>1, <2>2
<1>6. \A p \in Paths : PathOK(p)'
  <2> TAKE p \in Paths
  <2>1. CASE p = P(w)
    BY <2>1 DEF Good
  <2>2. CASE p # P(w)
    <3>1. /\ PathOK(p) /\ file'[p] = file[p] /\ row'[p] = row[p] /\ child'[p] = child[p]
          /\ childRow'[p] = childRow[p] /\ (p \in log.torn => p \in log'.torn)
          /\ (p \in log.redone <=> p \in log'.redone) /\ log.extracted \subseteq log'.extracted
      BY <1>1, <2>2 DEF IInv, Others
    <3>2. (\E v \in Workers : job[v] # NoItem /\ P(v) = p /\ pc[v] \in {"moving", "moved"}) =>
            \E v \in Workers : job'[v] # NoItem /\ P(v)' = p /\ pc'[v] \in {"moving", "moved"}
      BY <1>1, <2>2 DEF Others, P
    <3>3. QED
      BY <3>1, <3>2 DEF PathOK
  <2>3. QED
    BY <2>1, <2>2
<1>7. QED
  BY <1>1, <1>4, <1>5, <1>6, GoodTickets DEF IInv

-----------------------------------------------------------------------------
LEMMA TicketsSame ==
  ASSUME IInv, NEW w \in Workers, UNCHANGED <<row, childRow, hashes>>, Held(w)' \subseteq Held(w)
  PROVE  TicketsOf(w)
<1>1. \A l \in Cells : HashOfRow(l)' = HashOfRow(l)
  BY DEF HashOfRow
<1>2. Held(w) \subseteq hashes
  BY DEF IInv, Tickets, Free
<1>3. QED
  BY <1>1, <1>2 DEF TicketsOf, CellsOf

(* A row of p is written. *)
LEMMA CellOfRow ==
  ASSUME DbOK, NEW p \in Paths, NEW h, row' = [row EXCEPT ![p] = h], UNCHANGED childRow
  PROVE  /\ <<p, 0>> \in Cells
         /\ \A l \in Cells : HashOfRow(l)' = IF l = <<p, 0>> THEN h ELSE HashOfRow(l)
<1>1. <<p, 0>> \in Cells
  BY Facts DEF Cells
<1>2. ASSUME NEW l \in Cells PROVE HashOfRow(l)' = IF l = <<p, 0>> THEN h ELSE HashOfRow(l)
  <2>1. l = <<l[1], l[2]>> /\ l[1] \in Paths /\ DOMAIN row = Paths
    BY DEF Cells, DbOK
  <2>2. l[2] # 0 => HashOfRow(l)' = HashOfRow(l) /\ l # <<p, 0>>
    BY DEF HashOfRow
  <2>3. l[2] = 0 => HashOfRow(l)' = row'[l[1]] /\ HashOfRow(l) = row[l[1]] /\ (l = <<p, 0>> <=> l[1] = p)
    BY <2>1 DEF HashOfRow
  <2>4. QED
    BY <2>1, <2>2, <2>3
<1>3. QED
  BY <1>1, <1>2

(* A row of the entry n of p is written. *)
LEMMA CellOfEntry ==
  ASSUME DbOK, NEW p \in Paths, NEW n \in Slots, NEW h, childRow' = [childRow EXCEPT ![p][n] = h],
         UNCHANGED row
  PROVE  /\ <<p, n>> \in Cells
         /\ \A l \in Cells : HashOfRow(l)' = IF l = <<p, n>> THEN h ELSE HashOfRow(l)
<1>1. <<p, n>> \in Cells /\ n # 0
  BY Facts DEF Cells, Slots
<1>2. ASSUME NEW l \in Cells PROVE HashOfRow(l)' = IF l = <<p, n>> THEN h ELSE HashOfRow(l)
  <2>1. l = <<l[1], l[2]>> /\ l[1] \in Paths /\ DOMAIN childRow = Paths
        /\ (l[2] # 0 => l[2] \in Slots) /\ \A q \in Paths : DOMAIN childRow[q] = Slots
    BY Facts DEF Cells, DbOK, Slots
  <2>2. l[2] = 0 => HashOfRow(l)' = HashOfRow(l) /\ l # <<p, n>>
    BY <1>1 DEF HashOfRow
  <2>3. l[2] # 0 => HashOfRow(l)' = childRow'[l[1]][l[2]] /\ HashOfRow(l) = childRow[l[1]][l[2]]
                    /\ (l = <<p, n>> <=> l[1] = p /\ l[2] = n)
    BY <2>1 DEF HashOfRow
  <2>4. l[2] # 0 => childRow'[l[1]][l[2]] = IF l[1] = p /\ l[2] = n THEN h ELSE childRow[l[1]][l[2]]
    BY <2>1
  <2>5. QED
    BY <2>2, <2>3, <2>4
<1>3. QED
  BY <1>1, <1>2

LEMMA TicketsWritten ==
  ASSUME IInv, NEW w \in Workers, UNCHANGED hashes, Held(w)' = {}, NEW h \in {Nothing} \cup Held(w),
         \/ \E p \in Paths : row' = [row EXCEPT ![p] = h] /\ UNCHANGED childRow
         \/ \E p \in Paths, n \in Slots : childRow' = [childRow EXCEPT ![p][n] = h] /\ UNCHANGED row
  PROVE  TicketsOf(w)
<1>1. h \in {Nothing} \cup (Held(w) \ Held(w)')
  OBVIOUS
<1>2. \E c \in Cells : \A l \in Cells : HashOfRow(l)' = IF l = c THEN h ELSE HashOfRow(l)
  <2>1. DbOK
    BY DEF IInv, Types
  <2>2. CASE \E p \in Paths : row' = [row EXCEPT ![p] = h] /\ UNCHANGED childRow
    <3>1. PICK p \in Paths : row' = [row EXCEPT ![p] = h] /\ UNCHANGED childRow
      BY <2>2
    <3>2. QED
      BY <2>1, <3>1, CellOfRow
  <2>3. CASE \E p \in Paths, n \in Slots : childRow' = [childRow EXCEPT ![p][n] = h] /\ UNCHANGED row
    <3>1. PICK p \in Paths, n \in Slots : childRow' = [childRow EXCEPT ![p][n] = h] /\ UNCHANGED row
      BY <2>3
    <3>2. QED
      BY <2>1, <3>1, CellOfEntry
  <2>4. QED
    BY <2>2, <2>3
<1>3. QED
  BY <1>1, <1>2 DEF TicketsOf, CellsOf

(* The path of a file that is not being moved. *)
LEMMA PathSame ==
  ASSUME IInv, NEW w \in Workers, Others(w), pc[w] \notin {"moving", "moved"}, P(w) \in Paths,
         UNCHANGED <<file, row, child, childRow>>,
         log.torn \subseteq log'.torn, log'.redone = log.redone
  PROVE  \A p \in Paths : p = P(w) => PathOK(p)'
<1> SUFFICES ASSUME NEW p \in Paths PROVE PathOK(p)'
  OBVIOUS
<1>1. PathOK(p) /\ log.extracted \subseteq log'.extracted
  BY DEF IInv, Others
<1>2. (\E v \in Workers : job[v] # NoItem /\ P(v) = p /\ pc[v] \in {"moving", "moved"}) =>
        \E v \in Workers : job'[v] # NoItem /\ P(v)' = p /\ pc'[v] \in {"moving", "moved"}
  BY DEF Others, P
<1>3. QED
  BY <1>1, <1>2 DEF PathOK

LEMMA BeginMoveGood == ASSUME IInv, NEW w \in Workers, BeginMove(w) PROVE Good(w) /\ pc[w] # "free"
<1>1. /\ pc[w] = "fetched" /\ file' = [file EXCEPT ![P(w)] = Torn] /\ pc' = [pc EXCEPT ![w] = "moving"]
      /\ UNCHANGED <<child, row, childRow, loose, posted, running, conf, hashes, queue, job, k, outcome, log>>
      /\ Types /\ DiskOK /\ DbOK /\ WorkersOK /\ LogOK /\ job[w] # NoItem /\ P(w) \in Paths
  BY Busy DEF BeginMove, Go, IInv, Types, db
<1>2. pc'[w] = "moving" /\ P(w)' = P(w) /\ H(w)' = H(w)
  BY <1>1 DEF WorkersOK, P, H
<1>3. Types'
  BY <1>1, BeginMoveFrame
<1>4. Others(w)
  BY <1>1, BeginMoveFrame
<1>5. TicketsOf(w)
  BY <1>1, <1>2, TicketsSame DEF Held
<1>6. Mine(w)'
  BY <1>2 DEF Mine, AfterSave
<1>7. \A p \in Paths : p = P(w) => PathOK(p)'
  BY <1>1, <1>2 DEF PathOK, IInv
<1>8. QED
  BY <1>1, <1>3, <1>4, <1>5, <1>6, <1>7 DEF Good

LEMMA EndMoveGood == ASSUME IInv, NEW w \in Workers, EndMove(w) PROVE Good(w) /\ pc[w] # "free"
<1>1. /\ pc[w] = "moving" /\ file' = [file EXCEPT ![P(w)] = H(w)] /\ pc' = [pc EXCEPT ![w] = "moved"]
      /\ UNCHANGED <<child, row, childRow, loose, posted, running, conf, hashes, queue, job, k, outcome, log>>
      /\ Types /\ DiskOK /\ DbOK /\ WorkersOK /\ LogOK /\ job[w] # NoItem /\ P(w) \in Paths /\ H(w) \in Hashes
  BY Busy DEF EndMove, Go, IInv, Types, db
<1>2. pc'[w] = "moved" /\ P(w)' = P(w) /\ H(w)' = H(w) /\ file'[P(w)] = H(w)
  BY <1>1 DEF WorkersOK, P, H, DiskOK
<1>3. Types'
  BY <1>1, EndMoveFrame
<1>4. Others(w)
  BY <1>1, EndMoveFrame
<1>5. TicketsOf(w)
  BY <1>1, <1>2, TicketsSame DEF Held
<1>6. Mine(w)'
  BY <1>2 DEF Mine, AfterSave
<1>7. \A p \in Paths : p = P(w) => PathOK(p)'
  BY <1>1, <1>2 DEF PathOK, IInv
<1>8. QED
  BY <1>1, <1>3, <1>4, <1>5, <1>6, <1>7 DEF Good

LEMMA SaveGood == ASSUME IInv, NEW w \in Workers, Save(w) PROVE Good(w) /\ pc[w] # "free"
<1>1. /\ pc[w] = "moved" /\ row' = [row EXCEPT ![P(w)] = H(w)]
      /\ log' = [log EXCEPT !.superseded = @ \cup ({row[P(w)]} \ {Nothing}), !.torn = @ \ {P(w)}]
      /\ \/ Go(w, "saved") /\ UNCHANGED <<job, k, outcome>>
         \/ Done(w, "success")
      /\ UNCHANGED <<file, child, childRow, loose, posted, running, conf, hashes, queue>>
      /\ Types /\ DiskOK /\ DbOK /\ WorkersOK /\ LogOK /\ job[w] # NoItem /\ P(w) \in Paths /\ H(w) \in Hashes
      /\ file[P(w)] = H(w)
  BY Busy DEF Save, IInv, Types, disk, Mine
<1>2. pc'[w] \in {"saved", "free"} /\ (pc'[w] = "saved" => P(w)' = P(w) /\ H(w)' = H(w))
  BY <1>1 DEF WorkersOK, P, H, Go, Done
<1>3. /\ log'.redone = log.redone /\ log'.extracted = log.extracted
      /\ \A p \in Paths \ {P(w)} : p \in log.torn => p \in log'.torn
  BY <1>1 DEF LogOK
<1>4. Types'
  BY <1>1, SaveFrame
<1>5. Others(w)
  BY <1>1, SaveFrame
<1>6. TicketsOf(w)
  BY <1>1, <1>2, TicketsWritten DEF Held
<1>7. row'[P(w)] = H(w)
  BY <1>1 DEF DbOK
<1>8. Mine(w)'
  BY <1>1, <1>2, <1>7 DEF Mine, AfterSave
<1>9. \A p \in Paths : p = P(w) => PathOK(p)'
  BY <1>1, <1>3, <1>7 DEF PathOK, IInv
<1>10. QED
  BY <1>1, <1>4, <1>5, <1>6, <1>8, <1>9 DEF Good

LEMMA ClearGood == ASSUME IInv, NEW w \in Workers, ClearFolder(w) PROVE Good(w) /\ pc[w] # "free"
<1>1. /\ pc[w] = "saved" /\ child' = [child EXCEPT ![P(w)] = [n \in Slots |-> Nothing]]
      /\ log' = IF Range(childRow[P(w)]) # {Nothing}
                THEN [log EXCEPT !.redone = @ \cup {P(w)}] ELSE log
      /\ pc' = [pc EXCEPT ![w] = "entry"] /\ k' = [k EXCEPT ![w] = 1]
      /\ UNCHANGED <<file, row, childRow, loose, posted, running, conf, hashes, queue, job, outcome>>
      /\ Types /\ DiskOK /\ DbOK /\ WorkersOK /\ LogOK /\ job[w] # NoItem /\ job[w] \in Items
      /\ P(w) \in Paths /\ H(w) \in Hashes
      /\ file[P(w)] = H(w) /\ row[P(w)] = H(w) /\ Len(Entries[job[w]]) \in Nat
  BY Busy, Zenon DEF ClearFolder, Go, IInv, Types, db, Mine, AfterSave
<1>2. pc'[w] = "entry" /\ k'[w] = 1 /\ P(w)' = P(w) /\ H(w)' = H(w)
  BY <1>1 DEF WorkersOK, P, H
<1>3. /\ log'.extracted = log.extracted /\ log'.torn = log.torn
      /\ \A p \in Paths \ {P(w)} : p \in log.redone <=> p \in log'.redone
      /\ log.redone \subseteq log'.redone
      /\ P(w) \notin log'.redone => Range(childRow[P(w)]) = {Nothing}
  BY <1>1 DEF LogOK
<1>4. P(w) \notin log'.redone => \A n \in Slots : childRow[P(w)][n] = Nothing
  BY <1>1, <1>3 DEF DbOK, Range
<1>5. Types'
  BY <1>1, ClearFrame
<1>6. Others(w)
  BY <1>1, ClearFrame
<1>7. TicketsOf(w)
  BY <1>1, <1>2, TicketsSame DEF Held
<1>8. Mine(w)'
  BY <1>1, <1>2, <1>4 DEF Mine, AfterSave
<1>9. \A p \in Paths : p = P(w) => PathOK(p)'
  BY <1>1, <1>4 DEF PathOK
<1>10. QED
  BY <1>1, <1>2, <1>3, <1>4, <1>5, <1>6, <1>7, <1>8, <1>9 DEF Good

LEMMA QuietGood ==
  ASSUME IInv, NEW w \in Workers, Quietly(w), LogOK'
  PROVE  Good(w)
<1>1. /\ pc[w] # "free" /\ pc[w] \notin {"moving", "moved"} /\ pc[w] \notin {"claimed", "renamed"}
      /\ UNCHANGED <<file, child, row, childRow, hashes>>
      /\ log.torn \subseteq log'.torn /\ log'.redone = log.redone
      /\ Types' /\ Others(w) /\ WorkersOK /\ job[w] \in Items /\ P(w) \in Paths
      /\ file[P(w)] = H(w) /\ row[P(w)] = H(w) /\ Mine(w)
  BY QuietFrame, Busy DEF IInv, Types, Mine, AfterSave, Quietly
<1>2. ASSUME pc[w] = "entry", More(w), k' = [k EXCEPT ![w] = @ + 1], UNCHANGED <<pc, job, outcome>>
      PROVE  Mine(w)' /\ Held(w)' = {}
  <2>1. k[w] \in Nat /\ k'[w] = k[w] + 1
    BY <1>1, <1>2, EntryOK DEF WorkersOK
  <2>2. P(w)' = P(w) /\ H(w)' = H(w) /\ pc'[w] = "entry"
    BY <1>2 DEF P, H
  <2>3. \A n \in Slots : n >= k[w] + 1 => n >= k[w]
    BY <2>1, Facts DEF Slots
  <2>4. Mine(w)'
    BY <1>1, <1>2, <2>1, <2>2, <2>3 DEF Mine, AfterSave
  <2>5. Held(w)' = {}
    BY <2>2 DEF Held
  <2>6. QED
    BY <2>4, <2>5
<1>3. ASSUME Done(w, "failed") \/ Done(w, "raised") PROVE Mine(w)' /\ Held(w)' = {}
  <2>1. pc'[w] = "free"
    BY <1>1, <1>3 DEF Done, Go, WorkersOK
  <2>2. QED
    BY <2>1 DEF Mine, Held, AfterSave
<1>4. ASSUME Go(w, "failing"), UNCHANGED <<job, k, outcome>> PROVE Mine(w)' /\ Held(w)' = {}
  <2>1. pc'[w] = "failing" /\ P(w)' = P(w) /\ H(w)' = H(w)
    BY <1>1, <1>4 DEF Go, WorkersOK, P, H
  <2>2. QED
    BY <1>1, <2>1 DEF Mine, Held, AfterSave
<1>5. Mine(w)' /\ Held(w)' = {}
  BY <1>2, <1>3, <1>4 DEF Quietly
<1>6. TicketsOf(w)
  BY <1>1, <1>5, TicketsSame
<1>7. \A p \in Paths : p = P(w) => PathOK(p)'
  BY <1>1, PathSame
<1>8. QED
  BY <1>1, <1>5, <1>6, <1>7 DEF Good

LEMMA FailGood ==
  ASSUME IInv, NEW w \in Workers, UnpackFails(w) \/ DeleteRefused(w) \/ DropEntry(w)
  PROVE  Good(w) /\ pc[w] # "free"
  BY FailQuietly, QuietFrame, QuietGood DEF IInv

LEMMA DeleteGood == ASSUME IInv, NEW w \in Workers, DeleteRow(w) PROVE Good(w) /\ pc[w] # "free"
<1>1. /\ pc[w] = "failing" /\ row' = [row EXCEPT ![P(w)] = Nothing]
      /\ log' = [log EXCEPT !.superseded = @ \cup {H(w)}]
      /\ pc' = [pc EXCEPT ![w] = "deleted"]
      /\ UNCHANGED <<file, child, childRow, loose, posted, running, conf, hashes, queue, job, k, outcome>>
      /\ Types /\ DiskOK /\ DbOK /\ WorkersOK /\ LogOK /\ job[w] # NoItem /\ job[w] \in Items
      /\ P(w) \in Paths /\ H(w) \in Hashes
  BY Busy DEF DeleteRow, Go, IInv, Types, disk
<1>2. pc'[w] = "deleted" /\ P(w)' = P(w) /\ H(w)' = H(w) /\ row'[P(w)] = Nothing
  BY <1>1 DEF WorkersOK, P, H, DbOK
<1>3. log'.extracted = log.extracted /\ log'.torn = log.torn /\ log'.redone = log.redone
  BY <1>1 DEF LogOK
<1>4. Types'
  BY <1>1, DeleteFrame
<1>5. Others(w)
  BY <1>1, DeleteFrame
<1>6. TicketsOf(w)
  BY <1>1, <1>2, TicketsWritten DEF Held
<1>7. Mine(w)'
  BY <1>2 DEF Mine, AfterSave
<1>8. \A p \in Paths : p = P(w) => PathOK(p)'
  BY <1>1, <1>2, <1>3 DEF PathOK, IInv
<1>9. QED
  BY <1>1, <1>2, <1>3, <1>4, <1>5, <1>6, <1>7, <1>8 DEF Good

LEMMA RemoveGood == ASSUME IInv, NEW w \in Workers, RemoveFailed(w) PROVE Good(w) /\ pc[w] # "free"
<1>1. /\ pc[w] = "deleted" /\ file' = [file EXCEPT ![P(w)] = Nothing] /\ Done(w, "failed")
      /\ UNCHANGED <<child, row, childRow, loose, posted, running, conf, hashes, queue, log>>
      /\ Types /\ DiskOK /\ DbOK /\ WorkersOK /\ LogOK /\ job[w] # NoItem /\ job[w] \in Items
      /\ P(w) \in Paths /\ H(w) \in Hashes
      /\ row[P(w)] = Nothing
  BY Busy DEF RemoveFailed, IInv, Types, db, Mine
<1>2. pc'[w] = "free" /\ \A v \in Workers \ {w} : pc'[v] = pc[v] /\ job'[v] = job[v] /\ k'[v] = k[v]
  BY <1>1 DEF Done, Go, WorkersOK
<1>3. Types'
  BY <1>1, RemoveFrame
<1>4. Others(w)
  BY <1>1, RemoveFrame
<1>5. TicketsOf(w)
  BY <1>1, <1>2, TicketsSame DEF Held
<1>6. Mine(w)'
  BY <1>2 DEF Mine, AfterSave
<1>7. \A p \in Paths : p = P(w) => PathOK(p)'
  BY <1>1 DEF PathOK, IInv
<1>8. QED
  BY <1>1, <1>2, <1>3, <1>4, <1>5, <1>6, <1>7 DEF Good

LEMMA ClaimGood == ASSUME IInv, NEW w \in Workers, ClaimEntry(w) PROVE Good(w) /\ pc[w] # "free"
<1>1. /\ pc[w] = "entry" /\ More(w) /\ Entry(w) \notin hashes /\ hashes' = hashes \cup {Entry(w)}
      /\ pc' = [pc EXCEPT ![w] = "claimed"]
      /\ UNCHANGED <<file, child, row, childRow, loose, posted, running, conf, queue, job, k, outcome, log>>
      /\ Types /\ DiskOK /\ DbOK /\ WorkersOK /\ LogOK /\ job[w] # NoItem /\ job[w] \in Items
      /\ P(w) \in Paths /\ H(w) \in Hashes
      /\ Mine(w)
  BY Busy DEF ClaimEntry, Go, IInv, Types, disk, db
<1>2. pc'[w] = "claimed" /\ P(w)' = P(w) /\ H(w)' = H(w) /\ Entry(w)' = Entry(w)
  BY <1>1 DEF WorkersOK, P, H, Entry
<1>3. Entry(w) \in Hashes /\ k[w] \in 1..(Len(Entries[job[w]]) + 1) /\ k[w] <= Len(Entries[job[w]])
  BY <1>1, EntryOK DEF More
<1>4. Types'
  BY <1>1, ClaimFrame
<1>5. Others(w)
  BY <1>1, ClaimFrame
<1>6. TicketsOf(w)
  <2>1. \A l \in Cells : HashOfRow(l)' = HashOfRow(l)
    BY <1>1 DEF HashOfRow
  <2>2. Held(w)' = {Entry(w)}
    BY <1>2 DEF Held
  <2>3. QED
    BY <1>1, <2>1, <2>2 DEF TicketsOf, CellsOf
<1>7. Mine(w)'
  BY <1>1, <1>2 DEF Mine, AfterSave
<1>8. \A p \in Paths : p = P(w) => PathOK(p)'
  BY <1>1, <1>5, PathSame
<1>9. QED
  BY <1>1, <1>2, <1>3, <1>4, <1>5, <1>6, <1>7, <1>8 DEF Good

LEMMA RenameGood == ASSUME IInv, NEW w \in Workers, RenameEntry(w) PROVE Good(w) /\ pc[w] # "free"
<1>1. /\ pc[w] = "claimed" /\ child' = [child EXCEPT ![P(w)][k[w]] = Entry(w)]
      /\ pc' = [pc EXCEPT ![w] = "renamed"]
      /\ UNCHANGED <<file, row, childRow, loose, posted, running, conf, hashes, queue, job, k, outcome, log>>
      /\ Types /\ DiskOK /\ DbOK /\ WorkersOK /\ LogOK /\ job[w] # NoItem /\ job[w] \in Items
      /\ P(w) \in Paths /\ H(w) \in Hashes
      /\ Mine(w) /\ PathOK(P(w))
  BY Busy DEF RenameEntry, Go, IInv, Types, db
<1>2. pc'[w] = "renamed" /\ P(w)' = P(w) /\ H(w)' = H(w) /\ Entry(w)' = Entry(w)
  BY <1>1 DEF WorkersOK, P, H, Entry
<1>3. /\ Entry(w) \in Hashes /\ k[w] \in Slots
      /\ k[w] \in 1..(Len(Entries[job[w]]) + 1) /\ k[w] <= Len(Entries[job[w]])
  BY <1>1, EntryOK DEF More
<1>4. child'[P(w)][k[w]] = Entry(w) /\ \A n \in Slots \ {k[w]} : child'[P(w)][n] = child[P(w)][n]
  BY <1>1, <1>3 DEF DiskOK
<1>5. Types'
  BY <1>1, RenameFrame
<1>6. Others(w)
  BY <1>1, RenameFrame
<1>7. TicketsOf(w)
  BY <1>1, <1>2, TicketsSame DEF Held
<1>8. Mine(w)'
  BY <1>1, <1>2, <1>4 DEF Mine, AfterSave
<1>9. P(w) \notin log.redone => childRow[P(w)][k[w]] = Nothing
  BY <1>1, <1>3, Facts DEF Mine, Slots
<1>10. \A p \in Paths : p = P(w) => PathOK(p)'
  <2>1. row'[P(w)] = H(w) /\ file'[P(w)] = H(w)
    BY <1>1 DEF Mine, AfterSave
  <2>2. QED
    BY <1>1, <1>4, <1>9, <2>1 DEF PathOK
<1>11. QED
  BY <1>1, <1>2, <1>3, <1>4, <1>5, <1>6, <1>7, <1>8, <1>9, <1>10 DEF Good

LEMMA SaveEntryGood == ASSUME IInv, NEW w \in Workers, SaveEntry(w) PROVE Good(w) /\ pc[w] # "free"
<1>1. /\ pc[w] = "renamed" /\ childRow' = [childRow EXCEPT ![P(w)][k[w]] = Entry(w)]
      /\ loose' = loose \ {<<P(w), k[w]>>}
      /\ log' = [log EXCEPT !.superseded = @ \cup ({childRow[P(w)][k[w]]} \ {Nothing})]
      /\ pc' = [pc EXCEPT ![w] = "entry"] /\ k' = [k EXCEPT ![w] = @ + 1]
      /\ UNCHANGED <<file, child, row, posted, running, conf, hashes, queue, job, outcome>>
      /\ Types /\ DiskOK /\ DbOK /\ WorkersOK /\ LogOK /\ job[w] # NoItem /\ job[w] \in Items
      /\ P(w) \in Paths /\ H(w) \in Hashes
      /\ Mine(w) /\ PathOK(P(w)) /\ Len(Entries[job[w]]) \in Nat
      /\ Len(Entries[job[w]]) <= MaxEntries /\ MaxEntries \in Nat
  BY Busy, Facts DEF SaveEntry, Go, IInv, Types, disk
<1>2. pc'[w] = "entry" /\ P(w)' = P(w) /\ H(w)' = H(w)
  BY <1>1 DEF WorkersOK, P, H
<1>3. /\ Entry(w) \in Hashes /\ k[w] \in Slots /\ k[w] \in Nat
      /\ k[w] \in 1..(Len(Entries[job[w]]) + 1) /\ k[w] <= Len(Entries[job[w]])
  BY <1>1, EntryOK DEF More
<1>4. childRow'[P(w)][k[w]] = Entry(w) /\ \A n \in Slots \ {k[w]} : childRow'[P(w)][n] = childRow[P(w)][n]
  BY <1>1, <1>3 DEF DbOK
<1>5. /\ k'[w] = k[w] + 1 /\ k' \in [Workers -> 0..(MaxEntries + 1)]
      /\ \A v \in Workers \ {w} : k'[v] = k[v]
  BY <1>1, <1>3 DEF WorkersOK
<1>6. log'.extracted = log.extracted /\ log'.torn = log.torn /\ log'.redone = log.redone
  BY <1>1 DEF LogOK
<1>7. Types'
  BY <1>1, SaveEntryFrame
<1>8. Others(w)
  BY <1>1, SaveEntryFrame
<1>9. TicketsOf(w)
  BY <1>1, <1>2, <1>3, TicketsWritten DEF Held
<1>10. Mine(w)'
  <2>1. \A n \in Slots : n >= k[w] + 1 => n >= k[w] /\ n # k[w]
    BY <1>3, Facts DEF Slots
  <2>2. QED
    BY <1>1, <1>2, <1>4, <1>5, <1>6, <2>1 DEF Mine, AfterSave
<1>11. \A p \in Paths : p = P(w) => PathOK(p)'
  <2>1. row'[P(w)] = H(w) /\ file'[P(w)] = H(w) /\ child'[P(w)][k[w]] = Entry(w)
    BY <1>1 DEF Mine, AfterSave
  <2>2. QED
    BY <1>1, <1>4, <1>6, <2>1 DEF PathOK
<1>12. QED
  BY <1>1, <1>2, <1>3, <1>4, <1>5, <1>6, <1>7, <1>8, <1>9, <1>10, <1>11 DEF Good

LEMMA EndUnpackGood == ASSUME IInv, NEW w \in Workers, EndUnpack(w) PROVE Good(w) /\ pc[w] # "free"
<1>1. /\ pc[w] = "entry"
      /\ file' = IF conf.keepUnpacked THEN file ELSE [file EXCEPT ![P(w)] = Nothing]
      /\ log' = [log EXCEPT !.extracted = @ \cup {job[w]}, !.refused = @ \ {job[w]}]
      /\ Done(w, "success")
      /\ UNCHANGED <<child, row, childRow, loose, posted, running, conf, hashes, queue>>
      /\ Types /\ DiskOK /\ DbOK /\ WorkersOK /\ LogOK /\ job[w] # NoItem /\ job[w] \in Items
      /\ P(w) \in Paths /\ H(w) \in Hashes
      /\ row[P(w)] = H(w) /\ file[P(w)] = H(w) /\ PathOK(P(w))
  BY Busy DEF EndUnpack, IInv, Types, db, Mine, AfterSave
<1>2. pc'[w] = "free" /\ \A v \in Workers \ {w} : pc'[v] = pc[v] /\ job'[v] = job[v] /\ k'[v] = k[v]
  BY <1>1 DEF Done, Go, WorkersOK
<1>3. log'.extracted = log.extracted \cup {job[w]} /\ log'.torn = log.torn /\ log'.redone = log.redone
  BY <1>1 DEF LogOK
<1>4. file' = file \/ file' = [file EXCEPT ![P(w)] = Nothing]
  BY <1>1, Zenon
<1>5. Types'
  BY <1>1, EndUnpackFrame
<1>6. Others(w)
  BY <1>1, EndUnpackFrame
<1>7. TicketsOf(w)
  BY <1>1, <1>2, TicketsSame DEF Held
<1>8. Mine(w)'
  BY <1>2 DEF Mine, AfterSave
<1>9. file'[P(w)] \in {H(w), Nothing}
  BY <1>1, <1>4 DEF DiskOK
<1>10. \A p \in Paths : p = P(w) => PathOK(p)'
  BY <1>1, <1>3, <1>9 DEF PathOK, H
<1>11. QED
  BY <1>1, <1>2, <1>3, <1>4, <1>5, <1>6, <1>7, <1>8, <1>9, <1>10 DEF Good

LEMMA RaiseGood == ASSUME IInv, NEW w \in Workers, Raise(w) PROVE Good(w) /\ pc[w] # "free"
<1>1. /\ pc[w] # "free" /\ log' = CutShort({w}) /\ Done(w, "raised")
      /\ UNCHANGED <<file, child, row, childRow, loose, posted, running, conf, hashes, queue>>
      /\ Types /\ DiskOK /\ DbOK /\ WorkersOK /\ LogOK /\ job[w] # NoItem /\ job[w] \in Items
      /\ P(w) \in Paths /\ H(w) \in Hashes
      /\ PathOK(P(w))
  BY Busy DEF Raise, IInv, Types, disk, db
<1>2. pc'[w] = "free" /\ \A v \in Workers \ {w} : pc'[v] = pc[v] /\ job'[v] = job[v] /\ k'[v] = k[v]
  BY <1>1 DEF Done, Go, WorkersOK
<1>3. /\ LogOK' /\ log'.extracted = log.extracted /\ log'.redone = log.redone
      /\ log.torn \subseteq log'.torn /\ (pc[w] \in {"moving", "moved"} => P(w) \in log'.torn)
  BY <1>1 DEF CutShort, LogOK
<1>4. Types'
  BY <1>1, RaiseFrame
<1>5. Others(w)
  BY <1>1, RaiseFrame
<1>6. TicketsOf(w)
  BY <1>1, <1>2, TicketsSame DEF Held
<1>7. Mine(w)'
  BY <1>2 DEF Mine, AfterSave
<1>8. \A p \in Paths : p = P(w) => PathOK(p)'
  <2>1. CASE pc[w] \in {"moving", "moved"}
    BY <1>1, <1>3, <2>1 DEF PathOK
  <2>2. CASE pc[w] \notin {"moving", "moved"}
    BY <1>1, <1>3, <1>5, <2>2, PathSame
  <2>3. QED
    BY <2>1, <2>2
<1>9. QED
  BY <1>1, <1>2, <1>3, <1>4, <1>5, <1>6, <1>7, <1>8 DEF Good

-----------------------------------------------------------------------------
(* A file is taken from the queue. *)
LEMMA FetchIInv == ASSUME IInv, NEW w \in Workers, NEW i \in Items, Fetch(w, i) PROVE IInv'
<1>1. /\ pc[w] = "free" /\ i \in queue /\ queue' = queue \ {i} /\ job' = [job EXCEPT ![w] = i]
      /\ pc' = [pc EXCEPT ![w] = "fetched"]
      /\ UNCHANGED <<file, child, row, childRow, loose, posted, running, conf, hashes, k, outcome, log>>
      /\ Types /\ DiskOK /\ DbOK /\ WorkersOK /\ RunOK /\ LogOK /\ Apart /\ Tickets
  BY Zenon DEF Fetch, Go, disk, db, counters, IInv, Types
<1>2. /\ pc'[w] = "fetched" /\ P(w)' = PathOf[i] /\ Held(w)' = {HashOf[i]} /\ job'[w] = i
      /\ Held(w) = {}
      /\ \A v \in Workers \ {w} : /\ pc'[v] = pc[v] /\ job'[v] = job[v] /\ P(v)' = P(v)
                                  /\ Held(v)' = Held(v) /\ (Mine(v) => Mine(v)')
  BY <1>1 DEF WorkersOK, P, H, Held, Entry, Mine
<1>3. Types'
  BY <1>1, FetchShape
<1>4. Apart'
  BY <1>1, FetchShape
<1>5. Tickets'
  <2>1. \A l \in Cells : HashOfRow(l)' = HashOfRow(l)
    BY <1>1 DEF HashOfRow
  <2>2. \A v \in Workers : \A h \in Held(v)' : h \in hashes /\ \A l \in Cells : HashOfRow(l) # h
    BY <1>1, <1>2 DEF Tickets, Free
  <2>3. \A u, v \in Workers : u # v => Held(u)' \cap Held(v)' = {}
    BY <1>1, <1>2 DEF Tickets
  <2>4. \A v \in Workers : \A j \in queue' : HashOf[j] \notin Held(v)'
    BY <1>1, <1>2 DEF Tickets
  <2>5. QED
    BY <1>1, <2>1, <2>2, <2>3, <2>4 DEF Tickets, Free
<1>6. \A v \in Workers : Mine(v)'
  <2>1. Mine(w)'
    BY <1>2 DEF Mine, AfterSave
  <2>2. QED
    BY <1>2, <2>1 DEF IInv
<1>7. \A p \in Paths : PathOK(p)'
  <2> SUFFICES ASSUME NEW p \in Paths PROVE PathOK(p)'
    OBVIOUS
  <2>1. (\E v \in Workers : job[v] # NoItem /\ P(v) = p /\ pc[v] \in {"moving", "moved"}) =>
          \E v \in Workers : job'[v] # NoItem /\ P(v)' = p /\ pc'[v] \in {"moving", "moved"}
    BY <1>1, <1>2
  <2>2. QED
    BY <1>1, <2>1 DEF PathOK, IInv
<1>8. QED
  BY <1>3, <1>4, <1>5, <1>6, <1>7 DEF IInv

(* Steps that leave the workers, the disk and the table alone. *)
LEMMA AsideIInv ==
  ASSUME IInv, Types', UNCHANGED <<file, child, row, childRow, pc, job, k>>, queue' \subseteq queue,
         log.torn \subseteq log'.torn, log'.redone = log.redone, log'.extracted = log.extracted,
         \/ UNCHANGED <<hashes, running>>
         \/ ~running' /\ (\A w \in Workers : pc[w] = "free") /\ queue' = {}
  PROVE  IInv'
<1>1. Tickets /\ Apart
  BY DEF IInv
<1>2. \A l \in Cells : HashOfRow(l)' = HashOfRow(l)
  BY DEF HashOfRow
<1>3. \A w \in Workers : P(w)' = P(w) /\ Held(w)' = Held(w) /\ (Mine(w) => Mine(w)')
  BY DEF P, H, Held, Entry, Mine
<1>4. Apart'
  BY <1>1, <1>3 DEF Apart
<1>5. Tickets'
  <2>1. CASE UNCHANGED <<hashes, running>>
    BY <1>1, <1>2, <1>3, <2>1 DEF Tickets, Free
  <2>2. CASE ~running' /\ (\A w \in Workers : pc[w] = "free") /\ queue' = {}
    <3>1. \A w \in Workers : Held(w)' = {}
      BY <1>3, <2>2 DEF Held
    <3>2. QED
      BY <1>1, <1>2, <2>2, <3>1 DEF Tickets
  <2>3. QED
    BY <2>1, <2>2
<1>6. \A p \in Paths : PathOK(p)'
  <2> SUFFICES ASSUME NEW p \in Paths PROVE PathOK(p)'
    OBVIOUS
  <2>1. (\E v \in Workers : job[v] # NoItem /\ P(v) = p /\ pc[v] \in {"moving", "moved"}) =>
          \E v \in Workers : job'[v] # NoItem /\ P(v)' = p /\ pc'[v] \in {"moving", "moved"}
    BY <1>3
  <2>2. QED
    BY <2>1 DEF PathOK, IInv
<1>7. QED
  BY <1>3, <1>4, <1>5, <1>6 DEF IInv

(* The future of a file that could not be downloaded. *)
LEMMA FetchFailsIInv == ASSUME IInv, NEW w \in Workers, NEW i \in Items, FetchFails(w, i) PROVE IInv'
<1>1. /\ queue' = queue \ {i}
      /\ UNCHANGED <<file, child, row, childRow, running, hashes, pc, job, k, log>>
  BY Zenon DEF FetchFails, disk, db, workers
<1>2. Types'
  BY FetchFailsShape DEF IInv
<1>3. QED
  BY <1>1, <1>2, AsideIInv

LEMMA EndRunIInv == ASSUME IInv, EndRun PROVE IInv'
<1>1. /\ running' = FALSE /\ queue = {} /\ \A w \in Workers : pc[w] = "free"
      /\ log' = [log EXCEPT !.ended = TRUE]
      /\ UNCHANGED <<file, child, row, childRow, queue, pc, job, k>>
      /\ LogOK
  BY Zenon DEF EndRun, disk, db, workers, IInv, Types
<1>2. log'.torn = log.torn /\ log'.redone = log.redone /\ log'.extracted = log.extracted
  BY <1>1 DEF LogOK
<1>3. Types'
  BY EndRunShape DEF IInv
<1>4. QED
  BY <1>1, <1>2, <1>3, AsideIInv

LEMMA EditIInv == ASSUME IInv, NEW S \in Posts, Edit(S) PROVE IInv'
<1>1. UNCHANGED <<file, child, row, childRow, running, hashes, queue, pc, job, k, log>>
  BY Zenon DEF Edit, disk, db, workers
<1>2. Types'
  BY EditShape DEF IInv
<1>3. QED
  BY <1>1, <1>2, AsideIInv

LEMMA StutterIInv == ASSUME IInv, UNCHANGED vars PROVE IInv'
<1>1. UNCHANGED <<file, child, row, childRow, running, hashes, queue, pc, job, k, log>>
  BY Zenon DEF vars, disk, db, workers
<1>2. Types'
  BY StutterShape DEF IInv
<1>3. QED
  BY <1>1, <1>2, AsideIInv

-----------------------------------------------------------------------------
(* The files a run finds to be new. *)
LEMMA StartRunIInv == ASSUME IInv, NEW c \in Configs, StartRun(c) PROVE IInv'
<1>1. /\ ~running /\ running' = TRUE /\ conf' = c /\ queue' = New
      /\ hashes' = Recorded \cup {HashOf[i] : i \in New}
      /\ outcome' = [i \in Items |-> "none"]
      /\ log' = [log EXCEPT !.seen = posted, !.dropped = {}, !.superseded = {}, !.ended = FALSE]
      /\ UNCHANGED <<file, child, row, childRow, loose, posted, pc, job, k>>
  BY Zenon DEF StartRun, disk, db, workers
<1>2. Types /\ DbOK /\ WorkersOK /\ LogOK /\ Tickets /\ posted \in Posts
  BY DEF IInv, Types, RunOK
<1>3. \A w \in Workers : pc[w] = "free"
  BY <1>1, <1>2, Zenon DEF WorkersOK
<1>4. \A w \in Workers : pc'[w] = "free" /\ Held(w)' = {}
  BY <1>1, <1>3 DEF Held
<1>5. posted \subseteq Items /\ \A i, j \in posted : PathOf[i] = PathOf[j] => i = j
  BY <1>2 DEF Posts
<1>6. \A i \in New : /\ i \in posted /\ i \in Items /\ i \in Nat /\ HashOf[i] \in Hashes
                     /\ HashOf[i] \notin Recorded
                     /\ \A j \in posted : j < i => HashOf[j] # HashOf[i]
  BY <1>5, Facts DEF New
<1>7. \A l \in Cells : HashOfRow(l)' = HashOfRow(l)
  BY <1>1 DEF HashOfRow
<1>8. Recorded \subseteq Hashes \cup {Torn}
  <2> SUFFICES ASSUME NEW h \in Recorded PROVE h \in Hashes \cup {Torn}
    OBVIOUS
  <2>1. h # Nothing /\ \E l \in Cells : HashOfRow(l) = h
    BY <1>2, RecordedCells
  <2>2. QED
    BY <1>2, <2>1, CellTypes
<1>9. Types'
  BY <1>2, StartRunShape DEF IInv
<1>10. Apart'
  BY <1>2, StartRunShape DEF IInv
<1>11. Tickets'
  <2>1. \A i \in New : Free(HashOf[i])'
    <3> SUFFICES ASSUME NEW i \in New PROVE Free(HashOf[i])'
      OBVIOUS
    <3>1. HashOf[i] # Nothing /\ HashOf[i] \notin Recorded
      BY <1>6, Facts
    <3>2. \A l \in Cells : HashOfRow(l) # HashOf[i]
      BY <1>2, <3>1, RecordedCells
    <3>3. QED
      BY <1>1, <1>7, <3>2 DEF Free
  <2>2. \A i, j \in New : HashOf[i] = HashOf[j] => i = j
    <3> SUFFICES ASSUME NEW i \in New, NEW j \in New, HashOf[i] = HashOf[j] PROVE i = j
      OBVIOUS
    <3>1. i \in Nat /\ j \in Nat /\ ~(i < j) /\ ~(j < i)
      BY <1>6
    <3>2. QED
      BY <3>1
  <2>3. \A l \in Cells : HashOfRow(l)' \in hashes' \cup {Nothing}
    <3> SUFFICES ASSUME NEW l \in Cells, HashOfRow(l) # Nothing PROVE HashOfRow(l) \in Recorded
      BY <1>1, <1>7
    <3>1. QED
      BY <1>2, RecordedCells
  <2>4. \A r, s \in Cells : HashOfRow(r)' # Nothing /\ HashOfRow(r)' = HashOfRow(s)' => r = s
    BY <1>2, <1>7 DEF Tickets
  <2>5. QED
    BY <1>1, <1>4, <2>1, <2>2, <2>3, <2>4 DEF Tickets
<1>12. \A w \in Workers : Mine(w)'
  BY <1>4 DEF Mine, AfterSave
<1>13. \A p \in Paths : PathOK(p)'
  <2> SUFFICES ASSUME NEW p \in Paths PROVE PathOK(p)'
    OBVIOUS
  <2>1. log'.torn = log.torn /\ log'.redone = log.redone /\ log'.extracted = log.extracted
    BY <1>1, <1>2 DEF LogOK
  <2>2. QED
    BY <1>1, <1>3, <2>1 DEF PathOK, IInv
<1>14. QED
  BY <1>9, <1>10, <1>11, <1>12, <1>13 DEF IInv

(* The process is killed. *)
LEMMA CrashIInv == ASSUME IInv, Crash PROVE IInv'
<1>1. /\ running' = FALSE /\ log' = CutShort(Workers) /\ hashes' = {} /\ queue' = {}
      /\ pc' = [w \in Workers |-> "free"] /\ job' = [w \in Workers |-> NoItem]
      /\ k' = [w \in Workers |-> 0]
      /\ UNCHANGED <<file, child, row, childRow, loose, posted, conf, outcome>>
      /\ Types /\ DbOK /\ WorkersOK /\ LogOK /\ Tickets
  BY Zenon DEF Crash, disk, db, IInv, Types
<1>2. \A w \in Workers : pc'[w] = "free" /\ Held(w)' = {}
  BY <1>1 DEF Held
<1>3. \A w \in Workers : pc[w] # "free" => job[w] \in Items /\ P(w) \in Paths
  BY <1>1, Busy
<1>4. /\ LogOK' /\ log'.extracted = log.extracted /\ log'.redone = log.redone
      /\ log'.torn = log.torn \cup {P(w) : w \in {v \in Workers : pc[v] \in {"moving", "moved"}}}
  <2>1. {job[w] : w \in {v \in Workers : pc[v] \in AfterSave}} \subseteq Items
    BY <1>3 DEF AfterSave
  <2>2. {P(w) : w \in {v \in Workers : pc[v] \in {"moving", "moved"}}} \subseteq Paths
    BY <1>3
  <2>3. QED
    BY <1>1, <2>1, <2>2 DEF CutShort, LogOK
<1>5. Types'
  BY <1>1, CrashShape DEF IInv
<1>6. Apart'
  BY <1>1, CrashShape DEF IInv
<1>7. Tickets'
  <2>1. \A l \in Cells : HashOfRow(l)' = HashOfRow(l)
    BY <1>1 DEF HashOfRow
  <2>2. QED
    BY <1>1, <1>2, <2>1 DEF Tickets
<1>8. \A w \in Workers : Mine(w)'
  BY <1>2 DEF Mine, AfterSave
<1>9. \A p \in Paths : PathOK(p)'
  BY <1>1, <1>4 DEF PathOK, IInv
<1>10. QED
  BY <1>5, <1>6, <1>7, <1>8, <1>9 DEF IInv

-----------------------------------------------------------------------------
LEMMA WorkingGood == ASSUME IInv, NEW w \in Workers, Working(w) PROVE Good(w) /\ pc[w] # "free"
  BY BeginMoveGood, EndMoveGood, SaveGood, ClearGood, FailGood, DeleteGood, RemoveGood, ClaimGood,
     RenameGood, SaveEntryGood, EndUnpackGood, RaiseGood DEF Working

LEMMA NextIInv == IInv /\ [Next]_vars => IInv'
<1> SUFFICES ASSUME IInv, [Next]_vars PROVE IInv'
  OBVIOUS
<1>1. ASSUME NEW w \in Workers, Working(w) PROVE IInv'
  BY <1>1, WorkingGood, GoodIInv
<1>2. CASE Next
  BY <1>1, <1>2, NextCases, StartRunIInv, EndRunIInv, EditIInv, FetchIInv, FetchFailsIInv, CrashIInv,
     StutterIInv
<1>3. QED
  BY <1>2, StutterIInv

LEMMA InitIInv == Init => IInv
<1> SUFFICES ASSUME Init PROVE IInv
  OBVIOUS
<1>1. Types
  BY InitTypes
<1>2. /\ queue = {} /\ running = FALSE /\ row = [p \in Paths |-> Nothing]
      /\ childRow = [p \in Paths |-> [n \in Slots |-> Nothing]]
      /\ \A w \in Workers : pc[w] = "free"
  BY DEF Init
<1>3. \A w \in Workers : Held(w) = {} /\ Mine(w)
  BY <1>2 DEF Held, Mine, AfterSave
<1>4. \A l \in Cells : HashOfRow(l) = Nothing
  <2> SUFFICES ASSUME NEW l \in Cells PROVE HashOfRow(l) = Nothing
    OBVIOUS
  <2>1. l[1] \in Paths /\ (l[2] # 0 => l[2] \in Slots)
    BY Facts DEF Cells, Slots
  <2>2. QED
    BY <1>2, <2>1 DEF HashOfRow
<1>5. Tickets
  BY <1>2, <1>3, <1>4 DEF Tickets
<1>6. Apart
  BY <1>2 DEF Apart
<1>7. \A p \in Paths : PathOK(p)
  BY <1>2 DEF PathOK
<1>8. QED
  BY <1>1, <1>3, <1>5, <1>6, <1>7 DEF IInv

(* The invariant: who holds which content, and what is on disk. *)
LEMMA Invariant == Spec => []IInv
  BY InitIInv, NextIInv, PTL DEF Spec

-----------------------------------------------------------------------------
(* What becomes of each hash that a run knows or drops: it is recorded, or *)
(* was and is overwritten, or is on its way, or its file failed.           *)
Lost(h) ==
  \E i \in Items : outcome[i] \in {"failed", "raised"} /\ h \in {HashOf[i]} \cup Range(Entries[i])

Accounted(h) ==
  \/ h \in log.superseded
  \/ \E l \in Cells : HashOfRow(l) = h
  \/ \E j \in queue : HashOf[j] = h
  \/ \E w \in Workers : h \in Held(w)
  \/ Lost(h)

Undecided ==
  /\ \A i \in queue : outcome[i] = "none"
  /\ \A w \in Workers : pc[w] # "free" => outcome[job[w]] = "none"

Account ==
  /\ running => ~log.ended /\ Undecided /\ \A h \in hashes : Accounted(h)
  /\ running \/ log.ended => \A i \in log.seen : Accounted(HashOf[i])
  /\ (running \/ log.ended) /\ ~conf.anyExtension => \A h \in log.dropped : Accounted(h)

(* ArchivesSettled, while a run goes on too. *)
Closed == log.extracted \cup log.kept \cup log.cut
Settled ==
  \A i \in Archives : row[PathOf[i]] = HashOf[i] =>
    i \in Closed \/ \E w \in Workers : job[w] = i /\ pc[w] \in AfterSave

(* What a step of a worker that has a file may do. *)
Accounts(w) ==
  /\ UNCHANGED <<running, conf>> /\ log'.seen = log.seen /\ log'.ended = log.ended
  /\ log.superseded \subseteq log'.superseded
  /\ \A l \in Cells : HashOfRow(l)' = HashOfRow(l) \/ HashOfRow(l) \in log'.superseded \cup {Nothing}
  /\ \A h \in Held(w) \ Held(w)' : (\E l \in Cells : HashOfRow(l)' = h) \/ Lost(h)'
  /\ hashes' \subseteq hashes \cup Held(w)'
  /\ ~conf.anyExtension => log'.dropped \subseteq log.dropped \cup hashes
  /\ \A i \in Items \ {job[w]} : outcome'[i] = outcome[i]
  /\ pc'[w] # "free" => outcome' = outcome

Settles(w) ==
  /\ Closed \subseteq Closed'
  /\ \A p \in Paths :
       \/ row'[p] \in {row[p], Nothing}
       \/ p = P(w) /\ row'[p] = H(w) /\ (job[w] \in Archives => pc'[w] \in AfterSave)
  /\ pc[w] \in AfterSave => pc'[w] \in AfterSave \/ job[w] \in Closed' \/ row'[P(w)] = Nothing

-----------------------------------------------------------------------------
LEMMA AccountedStays ==
  ASSUME IInv, Undecided, NEW w \in Workers, pc[w] # "free", Good(w), Accounts(w),
         NEW h, h # Nothing, Accounted(h)
  PROVE  Accounted(h)'
<1>1. /\ \A v \in Workers \ {w} : Held(v)' = Held(v)
      /\ queue' = queue
  BY DEF Good, Others, Held, H, Entry
<1>2. CASE h \in log.superseded
  BY <1>2 DEF Accounts, Accounted
<1>3. CASE \E l \in Cells : HashOfRow(l) = h
  BY <1>3 DEF Accounts, Accounted
<1>4. CASE \E j \in queue : HashOf[j] = h
  BY <1>1, <1>4 DEF Accounted
<1>5. ASSUME NEW v \in Workers, h \in Held(v) PROVE Accounted(h)'
  <2>1. CASE v # w
    BY <1>1, <1>5, <2>1 DEF Accounted
  <2>2. CASE v = w /\ h \in Held(w)'
    BY <2>2 DEF Accounted
  <2>3. CASE v = w /\ h \notin Held(w)'
    BY <1>5, <2>3 DEF Accounts, Accounted
  <2>4. QED
    BY <2>1, <2>2, <2>3
<1>6. CASE Lost(h)
  <2>1. PICK i \in Items : outcome[i] \in {"failed", "raised"} /\ h \in {HashOf[i]} \cup Range(Entries[i])
    BY <1>6 DEF Lost
  <2>2. i # job[w]
    BY <2>1 DEF Undecided
  <2>3. outcome'[i] = outcome[i]
    BY <2>2 DEF Accounts
  <2>4. Lost(h)'
    BY <2>1, <2>3 DEF Lost
  <2>5. QED
    BY <2>4 DEF Accounted
<1>7. QED
  BY <1>2, <1>3, <1>4, <1>5, <1>6 DEF Accounted

LEMMA AccountStep ==
  ASSUME IInv, Account, NEW w \in Workers, pc[w] # "free", Good(w), Accounts(w)
  PROVE  Account'
<1>1. /\ running /\ running' /\ conf' = conf /\ log'.ended = log.ended /\ log'.seen = log.seen /\ ~log.ended
      /\ Undecided /\ \A h \in hashes : Accounted(h)
  BY DEF IInv, Types, WorkersOK, Account, Accounts
<1>2. /\ hashes \subseteq Hashes \cup {Torn} /\ log.dropped \subseteq Hashes /\ log.seen \subseteq Items
      /\ Nothing \notin Hashes \cup {Torn}
  BY Facts DEF IInv, Types, RunOK, LogOK
<1>3. \A h \in Hashes \cup {Torn} : Accounted(h) => Accounted(h)'
  BY <1>1, <1>2, AccountedStays
<1>4. Undecided'
  <2>1. /\ queue' = queue /\ \A v \in Workers \ {w} : pc'[v] = pc[v] /\ job'[v] = job[v]
        /\ (pc'[w] # "free" => job'[w] = job[w] /\ outcome' = outcome)
        /\ \A i \in Items \ {job[w]} : outcome'[i] = outcome[i]
        /\ queue \subseteq Items
    BY DEF Good, Others, Accounts, IInv, Types, RunOK
  <2>2. /\ \A i \in queue : i # job[w]
        /\ \A v \in Workers \ {w} : pc[v] # "free" => job[v] # job[w] /\ job[v] \in Items
    <3>1. Apart /\ WorkersOK
      BY DEF IInv, Types
    <3>2. QED
      BY <3>1, Busy DEF Apart, P
  <2>3. \A i \in queue' : outcome'[i] = "none"
    BY <1>1, <2>1, <2>2 DEF Undecided
  <2>4. \A v \in Workers : pc'[v] # "free" => outcome'[job'[v]] = "none"
    <3> TAKE v \in Workers
    <3>1. CASE v = w
      BY <1>1, <2>1, <3>1 DEF Undecided
    <3>2. CASE v # w
      BY <1>1, <2>1, <2>2, <3>2 DEF Undecided
    <3>3. QED
      BY <3>1, <3>2
  <2>5. QED
    BY <2>3, <2>4 DEF Undecided
<1>5. \A h \in hashes' : Accounted(h)'
  <2> SUFFICES ASSUME NEW h \in hashes' PROVE Accounted(h)'
    OBVIOUS
  <2>1. h \in hashes \/ h \in Held(w)'
    BY DEF Accounts
  <2>2. QED
    BY <1>1, <1>2, <1>3, <2>1 DEF Accounted
<1>6. \A i \in log'.seen : Accounted(HashOf[i])'
  <2> SUFFICES ASSUME NEW i \in log.seen PROVE Accounted(HashOf[i])'
    BY <1>1
  <2>1. HashOf[i] \in Hashes
    BY <1>2, Facts
  <2>2. Accounted(HashOf[i])
    BY <1>1 DEF Account
  <2>3. QED
    BY <1>3, <2>1, <2>2
<1>7. ~conf.anyExtension => \A h \in log'.dropped : Accounted(h)'
  <2> SUFFICES ASSUME ~conf.anyExtension, NEW h \in log'.dropped PROVE Accounted(h)'
    OBVIOUS
  <2>1. h \in log.dropped \/ h \in hashes
    BY DEF Accounts
  <2>2. Accounted(h)
    BY <1>1, <2>1 DEF Account
  <2>3. QED
    BY <1>2, <1>3, <2>1, <2>2
<1>8. QED
  BY <1>1, <1>4, <1>5, <1>6, <1>7 DEF Account

LEMMA SettledStep ==
  ASSUME IInv, Settled, NEW w \in Workers, pc[w] # "free", Good(w), Settles(w)
  PROVE  Settled'
<1> SUFFICES ASSUME NEW i \in Archives, row'[PathOf[i]] = HashOf[i]
             PROVE  i \in Closed' \/ \E v \in Workers : job'[v] = i /\ pc'[v] \in AfterSave
  BY DEF Settled
<1>1. i \in Items /\ PathOf[i] \in Paths /\ HashOf[i] # Nothing
  BY Facts, LibraryAssumption
<1>2. /\ \A v \in Workers \ {w} : pc'[v] = pc[v] /\ job'[v] = job[v]
      /\ (pc'[w] \in AfterSave => job'[w] = job[w])
      /\ job[w] \in Items /\ P(w) \in Paths
  BY Busy DEF Good, Others, AfterSave, IInv, Types
<1>3. CASE PathOf[i] = P(w) /\ HashOf[i] = H(w) /\ (job[w] \in Archives => pc'[w] \in AfterSave)
  <2>1. i = job[w]
    BY <1>1, <1>2, <1>3, LibraryAssumption DEF P, H
  <2>2. QED
    BY <1>2, <1>3, <2>1
<1>4. CASE row'[PathOf[i]] = row[PathOf[i]]
  <2>1. CASE i \in Closed
    BY <2>1 DEF Settles
  <2>2. ASSUME NEW v \in Workers, job[v] = i, pc[v] \in AfterSave
        PROVE  i \in Closed' \/ \E u \in Workers : job'[u] = i /\ pc'[u] \in AfterSave
    <3>1. CASE v # w
      BY <1>2, <2>2, <3>1
    <3>2. CASE v = w
      <4>1. PathOf[i] = P(w)
        BY <2>2, <3>2 DEF P
      <4>2. QED
        BY <1>1, <1>2, <2>2, <3>2, <4>1 DEF Settles
    <3>3. QED
      BY <3>1, <3>2
  <2>3. QED
    BY <1>4, <2>1, <2>2 DEF Settled
<1>5. QED
  BY <1>1, <1>3, <1>4 DEF Settles

-----------------------------------------------------------------------------
LEMMA RowsAlone == ASSUME UNCHANGED <<row, childRow>> PROVE \A l \in Cells : HashOfRow(l)' = HashOfRow(l)
  BY DEF HashOfRow

(* What a worker holds belongs to its item. *)
LEMMA HeldIsMine ==
  ASSUME IInv, NEW w \in Workers, pc[w] # "free"
  PROVE  Held(w) \subseteq {HashOf[job[w]]} \cup Range(Entries[job[w]])
<1>1. WorkersOK /\ job[w] \in Items /\ Entries[job[w]] \in Seq(Hashes) /\ Len(Entries[job[w]]) \in Nat
  BY Busy DEF IInv, Types
<1>2. CASE pc[w] \in {"claimed", "renamed"}
  <2>1. k[w] \in 1..Len(Entries[job[w]])
    BY <1>1, <1>2, EntryOK DEF More
  <2>2. Entry(w) \in Range(Entries[job[w]])
    BY <1>1, <2>1 DEF Entry, Range
  <2>3. QED
    BY <1>2, <2>2 DEF Held
<1>3. CASE pc[w] \notin {"claimed", "renamed"}
  BY <1>3 DEF Held, H
<1>4. QED
  BY <1>2, <1>3

(* The other workers' items are not done, and failures are noted. *)
LEMMA DoneOutcome ==
  ASSUME IInv, NEW w \in Workers, pc[w] # "free", NEW o \in {"success", "failed", "raised"}, Done(w, o)
  PROVE  /\ pc'[w] = "free" /\ \A i \in Items \ {job[w]} : outcome'[i] = outcome[i]
         /\ o # "success" => \A h \in Held(w) : Lost(h)'
<1>1. /\ pc' = [pc EXCEPT ![w] = "free"] /\ outcome' = [outcome EXCEPT ![job[w]] = o]
      /\ job[w] \in Items /\ pc \in [Workers -> AfterSave \cup {"free", "fetched", "moving", "moved", "deleted"}]
      /\ DOMAIN outcome = Items
  BY Busy DEF Done, Go, IInv, Types, WorkersOK, RunOK
<1>2. pc'[w] = "free" /\ (\A i \in Items \ {job[w]} : outcome'[i] = outcome[i]) /\ outcome'[job[w]] = o
  BY <1>1
<1>3. ASSUME o # "success", NEW h \in Held(w) PROVE Lost(h)'
  <2>1. h \in {HashOf[job[w]]} \cup Range(Entries[job[w]])
    BY HeldIsMine
  <2>2. outcome'[job[w]] \in {"failed", "raised"}
    BY <1>2, <1>3
  <2>3. QED
    BY <1>1, <2>1, <2>2 DEF Lost
<1>4. QED
  BY <1>2, <1>3

(* Steps that only go on, without a change of the table or the log that    *)
(* matters here.                                                           *)
LEMMA GoAccounts ==
  ASSUME IInv, NEW w \in Workers, pc[w] # "free", UNCHANGED <<row, childRow, running, conf, outcome>>,
         log'.seen = log.seen, log'.ended = log.ended, log'.superseded = log.superseded,
         log'.dropped = log.dropped, log'.extracted = log.extracted, log'.kept = log.kept, log'.cut = log.cut,
         hashes' \subseteq hashes \cup Held(w)', Held(w) \subseteq Held(w)',
         pc[w] \in AfterSave => pc'[w] \in AfterSave
  PROVE  Accounts(w) /\ Settles(w)
<1>1. \A l \in Cells : HashOfRow(l)' = HashOfRow(l)
  BY RowsAlone
<1>2. Accounts(w)
  <2>1. running' = running /\ conf' = conf
    OBVIOUS
  <2>2. QED
    BY <1>1, <2>1 DEF Accounts
<1>3. Settles(w)
  BY DEF Settles, Closed
<1>4. QED
  BY <1>2, <1>3

LEMMA MovingAccounts ==
  ASSUME IInv, NEW w \in Workers, BeginMove(w) \/ EndMove(w) \/ RenameEntry(w) \/ ClaimEntry(w) \/ ClearFolder(w)
  PROVE  Accounts(w) /\ Settles(w)
<1>1. \/ pc[w] = "fetched" /\ pc' = [pc EXCEPT ![w] = "moving"]
      \/ pc[w] = "moving" /\ pc' = [pc EXCEPT ![w] = "moved"]
      \/ pc[w] = "claimed" /\ pc' = [pc EXCEPT ![w] = "renamed"] /\ k' = k
      \/ pc[w] = "entry" /\ pc' = [pc EXCEPT ![w] = "claimed"] /\ k' = k
      \/ pc[w] = "saved" /\ pc' = [pc EXCEPT ![w] = "entry"]
  BY Zenon DEF BeginMove, EndMove, RenameEntry, ClaimEntry, ClearFolder, Go
<1>2. UNCHANGED <<row, childRow, running, conf, outcome, job>>
  BY Zenon DEF BeginMove, EndMove, RenameEntry, ClaimEntry, ClearFolder, db
<1>3. \/ hashes' = hashes
      \/ /\ pc[w] = "entry" /\ hashes' = hashes \cup {Entry(w)}
         /\ pc' = [pc EXCEPT ![w] = "claimed"] /\ k' = k
  BY Zenon DEF BeginMove, EndMove, RenameEntry, ClaimEntry, ClearFolder, Go
<1>4. log' = log \/ log' = [log EXCEPT !.redone = @ \cup {P(w)}]
  BY Zenon DEF BeginMove, EndMove, RenameEntry, ClaimEntry, ClearFolder
<1>5. LogOK /\ DOMAIN pc = Workers
  BY DEF IInv, Types, WorkersOK
<1>6. /\ log'.seen = log.seen /\ log'.ended = log.ended /\ log'.superseded = log.superseded
      /\ log'.dropped = log.dropped /\ log'.extracted = log.extracted /\ log'.kept = log.kept
      /\ log'.cut = log.cut
  BY <1>4, <1>5 DEF LogOK
<1>7. Held(w) \subseteq Held(w)' /\ (pc[w] \in AfterSave => pc'[w] \in AfterSave) /\ pc[w] # "free"
  BY <1>1, <1>2, <1>5 DEF Held, H, Entry, AfterSave
<1>8. hashes' \subseteq hashes \cup Held(w)'
  BY <1>1, <1>2, <1>3, <1>5 DEF Held, Entry
<1>9. QED
  BY <1>2, <1>6, <1>7, <1>8, GoAccounts

LEMMA DropAccounts == ASSUME IInv, NEW w \in Workers, DropEntry(w) PROVE Accounts(w) /\ Settles(w)
<1>1. /\ pc[w] = "entry" /\ Entry(w) \in hashes \cup Rejected
      /\ log' = [log EXCEPT !.dropped = @ \cup ({Entry(w)} \ Unwanted)]
      /\ UNCHANGED <<row, childRow, running, conf, hashes, pc, job, outcome>>
      /\ LogOK
  BY Zenon DEF DropEntry, db, IInv, Types
<1>2. /\ log'.seen = log.seen /\ log'.ended = log.ended /\ log'.superseded = log.superseded
      /\ log'.dropped = log.dropped \cup ({Entry(w)} \ Unwanted) /\ Closed' = Closed
  BY <1>1 DEF LogOK, Closed
<1>3. ~conf.anyExtension => log'.dropped \subseteq log.dropped \cup hashes
  BY <1>1, <1>2 DEF Rejected
<1>4. Held(w)' = {} /\ Held(w) = {}
  BY <1>1 DEF Held
<1>5. \A l \in Cells : HashOfRow(l)' = HashOfRow(l)
  BY <1>1, RowsAlone
<1>6. running' = running /\ conf' = conf
  BY <1>1
<1>7. Accounts(w)
  BY <1>1, <1>2, <1>3, <1>4, <1>5, <1>6 DEF Accounts
<1>8. Settles(w)
  BY <1>1, <1>2 DEF Settles
<1>9. QED
  BY <1>7, <1>8

(* What ends a worker's file without a change of the table. *)
LEMMA EndAccounts ==
  ASSUME IInv, NEW w \in Workers,
         UnpackFails(w) \/ DeleteRefused(w) \/ RemoveFailed(w) \/ EndUnpack(w) \/ Raise(w)
  PROVE  Accounts(w) /\ Settles(w)
<1>1. /\ UNCHANGED <<row, childRow, running, conf, hashes>> /\ pc[w] # "free"
      /\ LogOK /\ WorkersOK /\ job[w] \in Items /\ DOMAIN pc = Workers
  <2>1. UNCHANGED <<row, childRow, running, conf, hashes>> /\ pc[w] # "free"
    BY Zenon DEF UnpackFails, DeleteRefused, RemoveFailed, EndUnpack, Raise, db
  <2>2. QED
    BY <2>1, Busy DEF IInv, Types, WorkersOK
<1>2. \/ Done(w, "failed") \/ Done(w, "raised")
      \/ Done(w, "success") /\ pc[w] = "entry"
      \/ Go(w, "failing") /\ UNCHANGED <<job, k, outcome>> /\ pc[w] \in {"saved", "entry"}
  BY Zenon DEF UnpackFails, DeleteRefused, RemoveFailed, EndUnpack, Raise
<1>3. /\ log'.seen = log.seen /\ log'.ended = log.ended /\ log'.superseded = log.superseded
      /\ log'.dropped = log.dropped /\ Closed \subseteq Closed'
      /\ pc[w] \in AfterSave => job[w] \in Closed' \/ Go(w, "failing") \/ row[P(w)] = Nothing
  <2>1. CASE UnpackFails(w)
    <3> DEFINE S == IF conf.keepFailed THEN log.kept \cup {job[w]} ELSE log.kept
    <3>1. log' = [log EXCEPT !.refused = @ \cup {job[w]}, !.kept = S]
          /\ (S = log.kept \cup {job[w]} \/ (S = log.kept /\ Go(w, "failing")))
      BY <2>1, Zenon DEF UnpackFails
    <3> HIDE DEF S
    <3>2. QED
      BY <1>1, <3>1 DEF LogOK, Closed
  <2>2. CASE DeleteRefused(w)
    <3>1. log' = [log EXCEPT !.cut = @ \cup {job[w]}]
      BY <2>2, Zenon DEF DeleteRefused
    <3>2. QED
      BY <1>1, <3>1 DEF LogOK, Closed
  <2>3. CASE RemoveFailed(w)
    <3>1. log' = log /\ pc[w] = "deleted"
      BY <2>3, Zenon DEF RemoveFailed
    <3>2. QED
      BY <3>1 DEF Closed, AfterSave
  <2>4. CASE EndUnpack(w)
    <3>1. log' = [log EXCEPT !.extracted = @ \cup {job[w]}, !.refused = @ \ {job[w]}]
      BY <2>4, Zenon DEF EndUnpack
    <3>2. QED
      BY <1>1, <3>1 DEF LogOK, Closed
  <2>5. CASE Raise(w)
    <3>1. log' = CutShort({w})
      BY <2>5, Zenon DEF Raise
    <3>2. pc[w] \in AfterSave => job[w] \in log'.cut
      BY <1>1, <3>1 DEF CutShort, LogOK
    <3>3. /\ log'.seen = log.seen /\ log'.ended = log.ended /\ log'.superseded = log.superseded
          /\ log'.dropped = log.dropped /\ log'.extracted = log.extracted /\ log'.kept = log.kept
          /\ log.cut \subseteq log'.cut
      BY <1>1, <3>1 DEF CutShort, LogOK
    <3>4. QED
      BY <3>2, <3>3 DEF Closed
  <2>6. QED
    BY <2>1, <2>2, <2>3, <2>4, <2>5
<1>4. /\ \A i \in Items \ {job[w]} : outcome'[i] = outcome[i]
      /\ pc'[w] # "free" => outcome' = outcome
      /\ \A h \in Held(w) : Lost(h)'
      /\ Go(w, "failing") => pc'[w] = "failing"
  <2>1. Go(w, "failing") => pc'[w] = "failing"
    BY <1>1 DEF Go
  <2>2. CASE Done(w, "failed") \/ Done(w, "raised")
    BY <1>1, <2>1, <2>2, DoneOutcome
  <2>3. CASE Done(w, "success") /\ pc[w] = "entry"
    <3>1. Held(w) = {}
      BY <2>3 DEF Held
    <3>2. QED
      BY <1>1, <2>1, <2>3, <3>1, DoneOutcome
  <2>4. CASE Go(w, "failing") /\ UNCHANGED <<job, k, outcome>> /\ pc[w] \in {"saved", "entry"}
    <3>1. Held(w) = {}
      BY <2>4 DEF Held
    <3>2. QED
      BY <2>1, <2>4, <3>1
  <2>5. QED
    BY <1>2, <2>2, <2>3, <2>4
<1>5. \A l \in Cells : HashOfRow(l)' = HashOfRow(l)
  BY <1>1, RowsAlone
<1>6. Accounts(w)
  <2>1. running' = running /\ conf' = conf
    BY <1>1
  <2>2. QED
    BY <1>1, <1>3, <1>4, <1>5, <2>1 DEF Accounts
<1>7. Settles(w)
  BY <1>1, <1>3, <1>4 DEF Settles, AfterSave
<1>8. QED
  BY <1>6, <1>7

(* A row is written: what was in it is superseded. *)
LEMMA RowAccounts ==
  ASSUME IInv, NEW w \in Workers, NEW h, UNCHANGED childRow, row' = [row EXCEPT ![P(w)] = h],
         P(w) \in Paths, log.superseded \cup ({row[P(w)]} \ {Nothing}) \subseteq log'.superseded
  PROVE  /\ \A l \in Cells : HashOfRow(l)' = HashOfRow(l) \/ HashOfRow(l) \in log'.superseded \cup {Nothing}
         /\ \E l \in Cells : HashOfRow(l)' = h
<1>1. <<P(w), 0>> \in Cells /\ DOMAIN row = Paths
  BY Facts DEF Cells, IInv, Types, DbOK
<1>2. ASSUME NEW p \in Paths, p = P(w) PROVE <<p, 0>> \in Cells /\ HashOfRow(<<p, 0>>)' = h
  BY <1>1, <1>2 DEF HashOfRow
<1>3. ASSUME NEW l \in Cells
      PROVE  HashOfRow(l)' = HashOfRow(l) \/ HashOfRow(l) \in log'.superseded \cup {Nothing}
  <2>1. l[1] \in Paths
    BY DEF Cells
  <2>2. CASE l[2] # 0 \/ l[1] # P(w)
    BY <1>1, <2>1, <2>2 DEF HashOfRow
  <2>3. CASE l[2] = 0 /\ l[1] = P(w)
    <3>1. HashOfRow(l) = row[P(w)]
      BY <2>3 DEF HashOfRow
    <3>2. QED
      BY <3>1
  <2>4. QED
    BY <2>2, <2>3
<1>4. QED
  BY <1>1, <1>2, <1>3

LEMMA SaveAccounts == ASSUME IInv, NEW w \in Workers, Save(w) PROVE Accounts(w) /\ Settles(w)
<1>1. /\ pc[w] = "moved" /\ row' = [row EXCEPT ![P(w)] = H(w)]
      /\ log' = [log EXCEPT !.superseded = @ \cup ({row[P(w)]} \ {Nothing}), !.torn = @ \ {P(w)}]
      /\ UNCHANGED <<childRow, running, conf, hashes>>
      /\ \/ job[w] \in Archives /\ Go(w, "saved") /\ UNCHANGED <<job, k, outcome>>
         \/ job[w] \notin Archives /\ Done(w, "success")
  BY Zenon DEF Save
<1>2. LogOK /\ WorkersOK /\ DbOK /\ P(w) \in Paths /\ DOMAIN pc = Workers
  BY <1>1, Busy DEF IInv, Types, WorkersOK
<1>3. /\ log'.seen = log.seen /\ log'.ended = log.ended
      /\ log'.superseded = log.superseded \cup ({row[P(w)]} \ {Nothing})
      /\ log'.dropped = log.dropped /\ Closed' = Closed
  BY <1>1, <1>2 DEF LogOK, Closed
<1>4. /\ \A l \in Cells : HashOfRow(l)' = HashOfRow(l) \/ HashOfRow(l) \in log'.superseded \cup {Nothing}
      /\ \E l \in Cells : HashOfRow(l)' = H(w)
  BY <1>1, <1>2, <1>3, RowAccounts
<1>5. Held(w) = {H(w)}
  BY <1>1 DEF Held
<1>6. /\ \A i \in Items \ {job[w]} : outcome'[i] = outcome[i]
      /\ pc'[w] # "free" => outcome' = outcome
      /\ job[w] \in Archives => pc'[w] \in AfterSave
  <2>1. CASE Go(w, "saved") /\ outcome' = outcome
    BY <1>2, <2>1 DEF Go, AfterSave
  <2>2. CASE job[w] \notin Archives /\ Done(w, "success")
    BY <1>1, <2>2, DoneOutcome
  <2>3. QED
    BY <1>1, <2>1, <2>2
<1>7. Accounts(w)
  <2>1. running' = running /\ conf' = conf
    BY <1>1
  <2>2. QED
    BY <1>1, <1>3, <1>4, <1>5, <1>6, <2>1 DEF Accounts
<1>8. Settles(w)
  <2>1. \A p \in Paths : row'[p] = row[p] \/ (p = P(w) /\ row'[p] = H(w))
    BY <1>1, <1>2 DEF DbOK
  <2>2. pc[w] \notin AfterSave
    BY <1>1 DEF AfterSave
  <2>3. QED
    BY <1>3, <1>6, <2>1, <2>2 DEF Settles
<1>9. QED
  BY <1>7, <1>8

LEMMA DeleteAccounts == ASSUME IInv, NEW w \in Workers, DeleteRow(w) PROVE Accounts(w) /\ Settles(w)
<1>1. /\ pc[w] = "failing" /\ row' = [row EXCEPT ![P(w)] = Nothing]
      /\ log' = [log EXCEPT !.superseded = @ \cup {H(w)}]
      /\ UNCHANGED <<childRow, running, conf, hashes, outcome, job>>
      /\ pc' = [pc EXCEPT ![w] = "deleted"]
  BY Zenon DEF DeleteRow, Go
<1>2. /\ LogOK /\ WorkersOK /\ DbOK /\ P(w) \in Paths /\ DOMAIN pc = Workers /\ row[P(w)] = H(w)
  BY <1>1, Busy DEF IInv, Types, WorkersOK, Mine, AfterSave
<1>3. /\ log'.seen = log.seen /\ log'.ended = log.ended
      /\ log'.superseded = log.superseded \cup {H(w)}
      /\ log'.dropped = log.dropped /\ Closed' = Closed
  BY <1>1, <1>2 DEF LogOK, Closed
<1>4. \A l \in Cells : HashOfRow(l)' = HashOfRow(l) \/ HashOfRow(l) \in log'.superseded \cup {Nothing}
  BY <1>1, <1>2, <1>3, RowAccounts
<1>5. Held(w) = {}
  BY <1>1 DEF Held
<1>6. Accounts(w)
  <2>1. running' = running /\ conf' = conf
    BY <1>1
  <2>2. QED
    BY <1>1, <1>3, <1>4, <1>5, <2>1 DEF Accounts
<1>7. Settles(w)
  BY <1>1, <1>2, <1>3 DEF Settles, DbOK
<1>8. QED
  BY <1>6, <1>7

LEMMA SaveEntryAccounts == ASSUME IInv, NEW w \in Workers, SaveEntry(w) PROVE Accounts(w) /\ Settles(w)
<1>1. /\ pc[w] = "renamed" /\ childRow' = [childRow EXCEPT ![P(w)][k[w]] = Entry(w)]
      /\ log' = [log EXCEPT !.superseded = @ \cup ({childRow[P(w)][k[w]]} \ {Nothing})]
      /\ UNCHANGED <<row, running, conf, hashes, job, outcome>>
      /\ pc' = [pc EXCEPT ![w] = "entry"]
  BY Zenon DEF SaveEntry, Go
<1>2. LogOK /\ WorkersOK /\ DbOK /\ P(w) \in Paths /\ DOMAIN pc = Workers
  BY <1>1, Busy DEF IInv, Types, WorkersOK
<1>3. k[w] \in Slots
  BY <1>1, <1>2, EntryOK
<1>4. /\ log'.seen = log.seen /\ log'.ended = log.ended
      /\ log'.superseded = log.superseded \cup ({childRow[P(w)][k[w]]} \ {Nothing})
      /\ log'.dropped = log.dropped /\ Closed' = Closed
  BY <1>1, <1>2 DEF LogOK, Closed
<1>5. DOMAIN childRow = Paths /\ \A q \in Paths : DOMAIN childRow[q] = Slots
  BY <1>2 DEF DbOK
<1>6. ASSUME NEW l \in Cells
      PROVE  HashOfRow(l)' = HashOfRow(l) \/ HashOfRow(l) \in log'.superseded \cup {Nothing}
  <2>1. l[1] \in Paths /\ (l[2] # 0 => l[2] \in Slots)
    BY Facts DEF Cells, Slots
  <2>2. CASE l[2] = 0
    BY <1>1, <2>2 DEF HashOfRow
  <2>3. CASE l[2] # 0 /\ ~(l[1] = P(w) /\ l[2] = k[w])
    <3>1. childRow'[l[1]][l[2]] = childRow[l[1]][l[2]]
      BY <1>1, <1>2, <1>3, <1>5, <2>1, <2>3
    <3>2. QED
      BY <2>3, <3>1 DEF HashOfRow
  <2>4. CASE l[2] # 0 /\ l[1] = P(w) /\ l[2] = k[w]
    <3>1. HashOfRow(l) = childRow[P(w)][k[w]]
      BY <2>4 DEF HashOfRow
    <3>2. QED
      BY <1>4, <3>1
  <2>5. QED
    BY <2>2, <2>3, <2>4
<1>7. \E l \in Cells : HashOfRow(l)' = Entry(w)
  <2>1. ASSUME NEW p \in Paths, NEW n \in Slots, p = P(w), n = k[w]
        PROVE  <<p, n>> \in Cells /\ HashOfRow(<<p, n>>)' = Entry(w)
    <3>1. <<p, n>> \in Cells /\ n # 0
      BY Facts DEF Cells, Slots
    <3>2. childRow'[p][n] = Entry(w)
      BY <1>1, <1>5, <2>1
    <3>3. QED
      BY <3>1, <3>2 DEF HashOfRow
  <2>2. QED
    BY <1>2, <1>3, <2>1
<1>8. Held(w) = {Entry(w)}
  BY <1>1 DEF Held
<1>9. Accounts(w)
  <2>1. running' = running /\ conf' = conf
    BY <1>1
  <2>2. QED
    BY <1>1, <1>4, <1>6, <1>7, <1>8, <2>1 DEF Accounts
<1>10. Settles(w)
  BY <1>1, <1>2, <1>4 DEF Settles, AfterSave
<1>11. QED
  BY <1>9, <1>10

LEMMA WorkingAccounts == ASSUME IInv, NEW w \in Workers, Working(w) PROVE Accounts(w) /\ Settles(w)
  BY MovingAccounts, DropAccounts, EndAccounts, SaveAccounts, DeleteAccounts, SaveEntryAccounts DEF Working

-----------------------------------------------------------------------------
(* A step that does not disturb what becomes of hashes. *)
LEMMA SameAccount ==
  ASSUME IInv, Account, UNCHANGED <<running, conf, hashes, log>>, running => Undecided',
         \A h : Accounted(h) => Accounted(h)'
  PROVE  Account'
  BY DEF Account

LEMMA SameSettled ==
  ASSUME Settled, UNCHANGED row, Closed \subseteq Closed',
         \A w \in Workers : pc[w] \in AfterSave =>
           (pc'[w] = pc[w] /\ job'[w] = job[w]) \/ job[w] \in Closed'
  PROVE  Settled'
<1> SUFFICES ASSUME NEW i \in Archives, row[PathOf[i]] = HashOf[i]
             PROVE  i \in Closed' \/ \E v \in Workers : job'[v] = i /\ pc'[v] \in AfterSave
  BY DEF Settled
<1>1. i \in Closed \/ \E w \in Workers : job[w] = i /\ pc[w] \in AfterSave
  BY DEF Settled
<1>2. QED
  BY <1>1

LEMMA FetchAccount ==
  ASSUME IInv, Account, Settled, NEW w \in Workers, NEW i \in Items, Fetch(w, i)
  PROVE  Account' /\ Settled'
<1>1. /\ pc[w] = "free" /\ i \in queue /\ queue' = queue \ {i} /\ job' = [job EXCEPT ![w] = i]
      /\ pc' = [pc EXCEPT ![w] = "fetched"]
      /\ UNCHANGED <<row, childRow, running, conf, hashes, k, outcome, log>>
  BY Zenon DEF Fetch, Go, db
<1>2. DOMAIN pc = Workers /\ DOMAIN job = Workers
  BY DEF IInv, Types, WorkersOK
<1>3. /\ pc'[w] = "fetched" /\ job'[w] = i /\ Held(w)' = {HashOf[i]} /\ Held(w) = {}
      /\ \A v \in Workers \ {w} : pc'[v] = pc[v] /\ job'[v] = job[v] /\ Held(v)' = Held(v)
  BY <1>1, <1>2 DEF Held, H, Entry
<1>4. \A l \in Cells : HashOfRow(l)' = HashOfRow(l)
  BY <1>1, RowsAlone
<1>5. ASSUME NEW h, Accounted(h) PROVE Accounted(h)'
  <2>1. Lost(h)' = Lost(h) /\ log'.superseded = log.superseded
    BY <1>1 DEF Lost
  <2>2. (\E j \in queue : HashOf[j] = h) => (\E j \in queue' : HashOf[j] = h) \/ h \in Held(w)'
    BY <1>1, <1>3
  <2>3. (\E v \in Workers : h \in Held(v)) => \E v \in Workers : h \in Held(v)'
    BY <1>3
  <2>4. QED
    BY <1>4, <1>5, <2>1, <2>2, <2>3 DEF Accounted
<1>6. running => Undecided'
  <2> SUFFICES ASSUME running PROVE Undecided'
    OBVIOUS
  <2>1. Undecided
    BY DEF Account
  <2>2. QED
    BY <1>1, <1>3, <2>1 DEF Undecided
<1>7. Account'
  BY <1>1, <1>5, <1>6, SameAccount
<1>8. Settled'
  <2>1. \A v \in Workers : pc[v] \in AfterSave => pc'[v] = pc[v] /\ job'[v] = job[v]
    BY <1>1, <1>3 DEF AfterSave
  <2>2. Closed' = Closed
    BY <1>1 DEF Closed
  <2>3. QED
    BY <1>1, <2>1, <2>2, SameSettled
<1>9. QED
  BY <1>7, <1>8

LEMMA FetchFailsAccount ==
  ASSUME IInv, Account, Settled, NEW w \in Workers, NEW i \in Items, FetchFails(w, i)
  PROVE  Account' /\ Settled'
<1>1. /\ i \in queue /\ queue' = queue \ {i} /\ outcome' = [outcome EXCEPT ![i] = "failed"]
      /\ UNCHANGED <<row, childRow, running, conf, hashes, pc, job, k, log>>
      /\ DOMAIN outcome = Items /\ queue \subseteq Items /\ Apart /\ WorkersOK
  BY Zenon DEF FetchFails, db, workers, IInv, Types, RunOK
<1>2. \A v \in Workers : Held(v)' = Held(v)
  BY <1>1 DEF Held, H, Entry
<1>3. \A l \in Cells : HashOfRow(l)' = HashOfRow(l)
  BY <1>1, RowsAlone
<1>4. outcome'[i] = "failed" /\ \A j \in Items \ {i} : outcome'[j] = outcome[j]
  BY <1>1
<1>5. ASSUME NEW h, Accounted(h) PROVE Accounted(h)'
  <2>1. Lost(h) => Lost(h)'
    BY <1>4 DEF Lost
  <2>2. HashOf[i] = h => Lost(h)'
    BY <1>4 DEF Lost
  <2>3. (\E j \in queue : HashOf[j] = h) => (\E j \in queue' : HashOf[j] = h) \/ Lost(h)'
    BY <1>1, <2>2
  <2>4. QED
    BY <1>1, <1>2, <1>3, <1>5, <2>1, <2>3 DEF Accounted
<1>6. running => Undecided'
  <2> SUFFICES ASSUME running PROVE Undecided'
    OBVIOUS
  <2>1. Undecided
    BY DEF Account
  <2>2. \A v \in Workers : pc[v] # "free" => job[v] \in Items /\ job[v] # i
    BY <1>1, Busy DEF Apart, P
  <2>3. QED
    BY <1>1, <1>4, <2>1, <2>2 DEF Undecided
<1>7. Account'
  BY <1>1, <1>5, <1>6, SameAccount
<1>8. Closed' = Closed
  BY <1>1 DEF Closed
<1>9. Settled'
  BY <1>1, <1>8, SameSettled
<1>10. QED
  BY <1>7, <1>9

LEMMA IdleAccount ==
  ASSUME IInv, Account, Settled, (\E S \in Posts : Edit(S)) \/ UNCHANGED vars
  PROVE  Account' /\ Settled'
<1>1. UNCHANGED <<row, childRow, running, conf, hashes, queue, pc, job, k, outcome, log>>
  BY Zenon DEF Edit, vars, db, workers
<1>2. \A h : Accounted(h)' = Accounted(h)
  BY <1>1 DEF Accounted, Lost, Held, H, Entry, HashOfRow
<1>3. Undecided => Undecided'
  BY <1>1 DEF Undecided
<1>4. Account'
  BY <1>1, <1>2, <1>3, SameAccount DEF Account
<1>5. Closed' = Closed
  BY <1>1 DEF Closed
<1>6. Settled'
  BY <1>1, <1>5, SameSettled
<1>7. QED
  BY <1>4, <1>6

LEMMA EndRunAccount == ASSUME IInv, Account, Settled, EndRun PROVE Account' /\ Settled'
<1>1. /\ running /\ running' = FALSE /\ hashes' = {} /\ log' = [log EXCEPT !.ended = TRUE]
      /\ UNCHANGED <<row, childRow, conf, queue, pc, job, k, outcome>> /\ LogOK
  BY Zenon DEF EndRun, db, workers, IInv, Types
<1>2. log'.seen = log.seen /\ log'.superseded = log.superseded /\ log'.dropped = log.dropped /\ Closed' = Closed
  BY <1>1 DEF LogOK, Closed
<1>3. \A h : Accounted(h)' = Accounted(h)
  BY <1>1, <1>2 DEF Accounted, Lost, Held, H, Entry, HashOfRow
<1>4. Account'
  BY <1>1, <1>2, <1>3 DEF Account
<1>5. Settled'
  BY <1>1, <1>2, SameSettled
<1>6. QED
  BY <1>4, <1>5

LEMMA CrashAccount == ASSUME IInv, Account, Settled, Crash PROVE Account' /\ Settled'
<1>1. running /\ running' = FALSE /\ log' = CutShort(Workers) /\ row' = row /\ LogOK
  BY Zenon DEF Crash, db, IInv, Types
<1>2. log'.ended = log.ended /\ ~log.ended
  BY <1>1 DEF CutShort, LogOK, Account
<1>3. Account'
  BY <1>1, <1>2, Zenon DEF Account
<1>4. Closed \subseteq Closed' /\ \A w \in Workers : pc[w] \in AfterSave => job[w] \in Closed'
  BY <1>1 DEF CutShort, LogOK, Closed
<1>5. Settled'
  BY <1>1, <1>4, SameSettled
<1>6. QED
  BY <1>3, <1>5

(* Among the attachments with the same hash, there is a first one. *)
LEMMA Least == ASSUME NEW S \in SUBSET Nat, S # {} PROVE \E i \in S : \A j \in S : ~(j < i)
<1> DEFINE R == {ss \in Nat \X Nat : ss[1] < ss[2]}
<1>1. R = OpToRel(<, Nat)
  BY DEF OpToRel
<1>2. IsWellFoundedOn(R, Nat)
  BY <1>1, NatLessThanWellFounded
<1> HIDE DEF R
<1>3. \E i \in S : \A j \in S : <<j, i>> \notin R
  BY <1>2, WFMin
<1>4. QED
  BY <1>3 DEF R

LEMMA StartRunAccount ==
  ASSUME IInv, Account, Settled, NEW c \in Configs, StartRun(c)
  PROVE  Account' /\ Settled'
<1>1. /\ ~running /\ running' = TRUE /\ conf' = c /\ queue' = New
      /\ hashes' = Recorded \cup {HashOf[i] : i \in New}
      /\ outcome' = [i \in Items |-> "none"]
      /\ log' = [log EXCEPT !.seen = posted, !.dropped = {}, !.superseded = {}, !.ended = FALSE]
      /\ UNCHANGED <<row, childRow, pc, job, k>>
  BY Zenon DEF StartRun, db, workers
<1>2. DbOK /\ WorkersOK /\ LogOK /\ posted \subseteq Items
  BY DEF IInv, Types, RunOK, Posts
<1>3. \A w \in Workers : pc[w] = "free"
  BY <1>1, <1>2, Zenon DEF WorkersOK
<1>4. log'.seen = posted /\ log'.dropped = {} /\ log'.ended = FALSE /\ Closed' = Closed
  BY <1>1, <1>2 DEF LogOK, Closed
<1>5. \A l \in Cells : HashOfRow(l)' = HashOfRow(l)
  BY <1>1, RowsAlone
<1>6. \A h \in Recorded : Accounted(h)'
  <2> SUFFICES ASSUME NEW h \in Recorded PROVE Accounted(h)'
    OBVIOUS
  <2>1. \E l \in Cells : HashOfRow(l) = h
    BY <1>2, RecordedCells
  <2>2. QED
    BY <1>5, <2>1 DEF Accounted
<1>7. \A i \in New : Accounted(HashOf[i])'
  BY <1>1 DEF Accounted
<1>8. \A i \in posted : Accounted(HashOf[i])'
  <2> SUFFICES ASSUME NEW i \in posted, HashOf[i] \notin Recorded PROVE Accounted(HashOf[i])'
    BY <1>6
  <2>1. {j \in posted : HashOf[j] = HashOf[i]} \in SUBSET Nat
    BY <1>2, Facts
  <2>2. PICK j \in {x \in posted : HashOf[x] = HashOf[i]} :
          \A m \in {x \in posted : HashOf[x] = HashOf[i]} : ~(m < j)
    BY <2>1, Least
  <2>3. j \in New /\ HashOf[j] = HashOf[i]
    BY <2>2 DEF New
  <2>4. QED
    BY <1>7, <2>3
<1>9. Undecided'
  <2>1. New \subseteq Items
    BY <1>2 DEF New
  <2>2. QED
    BY <1>1, <1>3, <2>1 DEF Undecided
<1>10. Account'
  <2>1. \A h \in hashes' : Accounted(h)'
    BY <1>1, <1>6, <1>7
  <2>2. QED
    BY <1>4, <1>8, <1>9, <2>1 DEF Account
<1>11. Settled'
  BY <1>1, <1>4, SameSettled
<1>12. QED
  BY <1>10, <1>11

LEMMA NextAccount == IInv /\ Account /\ Settled /\ [Next]_vars => Account' /\ Settled'
<1> SUFFICES ASSUME IInv, Account, Settled, [Next]_vars PROVE Account' /\ Settled'
  OBVIOUS
<1>1. ASSUME NEW w \in Workers, Working(w) PROVE Account' /\ Settled'
  <2>1. Good(w) /\ pc[w] # "free" /\ Accounts(w) /\ Settles(w)
    BY <1>1, WorkingGood, WorkingAccounts
  <2>2. QED
    BY <2>1, AccountStep, SettledStep
<1>2. CASE Next
  BY <1>1, <1>2, NextCases, StartRunAccount, EndRunAccount, IdleAccount, FetchAccount, FetchFailsAccount,
     CrashAccount
<1>3. QED
  BY <1>2, IdleAccount

LEMMA InitAccount == Init => Account /\ Settled
<1> SUFFICES ASSUME Init PROVE Account /\ Settled
  OBVIOUS
<1>1. running = FALSE /\ log = LogInit /\ row = [p \in Paths |-> Nothing]
  BY DEF Init
<1>2. Account
  BY <1>1 DEF Account, LogInit
<1>3. Settled
  <2> SUFFICES ASSUME NEW i \in Archives PROVE row[PathOf[i]] # HashOf[i]
    BY DEF Settled
  <2>1. i \in Items /\ PathOf[i] \in Paths /\ HashOf[i] # Nothing
    BY Facts, LibraryAssumption
  <2>2. QED
    BY <1>1, <2>1
<1>4. QED
  BY <1>2, <1>3

LEMMA AccountInvariant == Spec => [](IInv /\ Account /\ Settled)
<1>1. Init => IInv /\ Account /\ Settled
  BY InitIInv, InitAccount
<1>2. IInv /\ Account /\ Settled /\ [Next]_vars => (IInv /\ Account /\ Settled)'
  BY NextIInv, NextAccount
<1>3. QED
  BY <1>1, <1>2, PTL DEF Spec

(* Once a run is over, a hash is recorded, was overwritten, or failed. *)
LEMMA AtEnd ==
  ASSUME IInv, ~running, NEW h \in Hashes, Accounted(h)
  PROVE  h \in Recorded \cup log.superseded \/ Lost(h)
<1>1. queue = {} /\ \A w \in Workers : Held(w) = {}
  BY DEF IInv, Apart, Types, WorkersOK, Held
<1>2. (\E l \in Cells : HashOfRow(l) = h) => h \in Recorded
  <2>1. DbOK /\ h # Nothing
    BY Facts DEF IInv, Types
  <2>2. QED
    BY <2>1, RecordedCells
<1>3. QED
  BY <1>1, <1>2 DEF Accounted

-----------------------------------------------------------------------------
(* The disk, the table, the run and its workers keep their types, whatever *)
(* the attachments, settings, edits, exceptions and crashes.               *)
THEOREM TypeCorrect == Spec => []TypeOK
<1>1. IInv => TypeOK
  BY TypesAreOK DEF IInv
<1>2. QED
  BY <1>1, Invariant, PTL

(* The files table never holds a content twice, with any number of workers *)
(* that save files and unpack archives at the same time, over any runs,    *)
(* re-uploads and crashes: the dedup of Creator.download hands out each    *)
(* hash once, unpack claims each under the lock, and both only hashes that *)
(* no row has.                                                             *)
THEOREM NoDuplicates == Spec => []NoDuplicateRows
<1>1. IInv => NoDuplicateRows
  <2> SUFFICES ASSUME IInv, NEW r \in Rows, NEW s \in Rows, HashOfRow(r) = HashOfRow(s) PROVE r = s
    BY DEF NoDuplicateRows
  <2>1. \A l \in Rows : l \in Cells /\ HashOfRow(l) # Nothing
    <3> SUFFICES ASSUME NEW l \in Rows PROVE l \in Cells /\ HashOfRow(l) # Nothing
      OBVIOUS
    <3>1. CASE \E p \in Paths : l = <<p, 0>> /\ row[p] # Nothing
      BY <3>1, Facts DEF Cells, HashOfRow
    <3>2. CASE l \in Paths \X Slots /\ childRow[l[1]][l[2]] # Nothing
      BY <3>2, Facts DEF Cells, HashOfRow, Slots
    <3>3. QED
      BY <3>1, <3>2 DEF Rows
  <2>2. QED
    BY <2>1 DEF IInv, Tickets
<1>2. QED
  BY <1>1, Invariant, PTL

(* What the files table records is on disk, with the exceptions that the   *)
(* property names: a run that skips what is recorded loses nothing.        *)
THEOREM RowsOnDisk == Spec => []RecordedIsOnDisk
<1>1. IInv => RecordedIsOnDisk
  BY DEF IInv, PathOK, RecordedIsOnDisk
<1>2. QED
  BY <1>1, Invariant, PTL

(* No run downloads what is recorded, not even what another worker has     *)
(* recorded since the run looked.                                          *)
THEOREM NeverRefetched == Spec => NoRefetch
<1> DEFINE A == \A w \in Workers : pc[w] = "free" /\ pc'[w] = "fetched" => HashOf[job'[w]] \notin Recorded
<1>1. IInv /\ [Next]_vars => [A]_vars
  <2> SUFFICES ASSUME IInv, Next, NEW w \in Workers, pc[w] = "free", pc'[w] = "fetched"
               PROVE  HashOf[job'[w]] \notin Recorded
    BY Zenon
  <2>1. ASSUME NEW v \in Workers, Working(v) PROVE FALSE
    BY <2>1, WorkingGood DEF Good, Others
  <2>2. ASSUME pc' = pc PROVE FALSE
    BY <2>2
  <2>3. ASSUME NEW v \in Workers, NEW i \in Items, Fetch(v, i) PROVE HashOf[job'[w]] \notin Recorded
    <3>1. pc' = [pc EXCEPT ![v] = "fetched"] /\ job' = [job EXCEPT ![v] = i] /\ i \in queue
      BY <2>3, Zenon DEF Fetch, Go
    <3>2. v = w /\ job'[w] = i
      BY <3>1 DEF IInv, Types, WorkersOK
    <3>3. DbOK /\ HashOf[i] \in Hashes /\ \A l \in Cells : HashOfRow(l) # HashOf[i]
      BY <3>1, Facts DEF IInv, Types, Tickets, Free
    <3>4. QED
      BY <3>2, <3>3, RecordedCells
  <2>4. CASE (\E c \in Configs : StartRun(c)) \/ EndRun \/ (\E S \in Posts : Edit(S)) \/ UNCHANGED vars
    <3>1. pc' = pc
      BY <2>4, Zenon DEF StartRun, EndRun, Edit, vars, workers
    <3>2. QED
      BY <2>2, <3>1
  <2>5. ASSUME NEW v \in Workers, NEW i \in Items, FetchFails(v, i) PROVE FALSE
    BY <2>2, <2>5 DEF FetchFails, workers
  <2>6. CASE Crash
    BY <2>6 DEF Crash
  <2>7. QED
    BY <2>1, <2>3, <2>4, <2>5, <2>6, NextCases
<1>2. QED
  BY <1>1, Invariant, PTL DEF Spec, NoRefetch

(* After a run in which nothing failed, all that was in the posts it read  *)
(* is recorded, unless its row was overwritten, for any posts and workers: *)
(* each hash the run knows is recorded, in the queue, or in a worker's     *)
(* hands until its file has failed.                                        *)
THEOREM CleanRun == Spec => []CleanRunRecordsAll
<1>1. IInv /\ Account => CleanRunRecordsAll
  <2> SUFFICES ASSUME IInv, Account, log.ended, ~running, \A i \in Items : outcome[i] \in {"none", "success"},
                      NEW i \in log.seen
               PROVE  HashOf[i] \in Recorded \cup log.superseded
    BY Zenon DEF CleanRunRecordsAll
  <2>1. HashOf[i] \in Hashes
    BY Facts DEF IInv, Types, LogOK
  <2>2. Accounted(HashOf[i])
    BY DEF Account
  <2>3. ~Lost(HashOf[i])
    BY DEF Lost
  <2>4. QED
    BY <2>1, <2>2, <2>3, AtEnd
<1>2. QED
  BY <1>1, AccountInvariant, PTL

(* An entry that unpack drops for another file's or archive's hash does    *)
(* not vanish: after the run it is recorded or was overwritten, or just    *)
(* that file or archive failed.                                            *)
THEOREM DroppedAccounted == Spec => []DroppedIsAccountedFor
<1>1. IInv /\ Account => DroppedIsAccountedFor
  <2> SUFFICES ASSUME IInv, Account, log.ended, ~running, ~conf.anyExtension, NEW h \in log.dropped
               PROVE  \/ h \in Recorded \cup log.superseded
                      \/ \E i \in Items : /\ outcome[i] \in {"failed", "raised"}
                                          /\ h \in {HashOf[i]} \cup Range(Entries[i])
    BY Zenon DEF DroppedIsAccountedFor
  <2>1. h \in Hashes
    BY DEF IInv, Types, LogOK
  <2>2. Accounted(h)
    BY DEF Account
  <2>3. QED
    BY <2>1, <2>2, AtEnd DEF Lost
<1>2. QED
  BY <1>1, AccountInvariant, PTL

(* Between runs no recorded archive is left unextracted but those that     *)
(* were kept on purpose and those cut short after their row was committed. *)
THEOREM ArchivesAreSettled == Spec => []ArchivesSettled
<1>1. IInv /\ Settled => ArchivesSettled
  BY DEF IInv, Types, WorkersOK, Settled, Closed, ArchivesSettled, AfterSave
<1>2. QED
  BY <1>1, AccountInvariant, PTL

-----------------------------------------------------------------------------
(* The refinement of Collection: what its variables are of the library's,  *)
(* and which of its steps each step of the library is.                     *)
Table == [l \in Cells |-> HashOfRow(l)]
Posted == {HashOf[i] : i \in posted}

LEMMA WantedIs == ASSUME NEW h PROVE h \in Wanted <=> (\E i \in queue : HashOf[i] = h) \/ \E w \in Workers : h \in Held(w)
  BY DEF Wanted

Dropping == {"failing", "deleted"}

LEMMA FailedAre ==
  ASSUME NEW i
  PROVE  i \in Failed <=> \/ i \in Items /\ outcome[i] \in {"failed", "raised"}
                         \/ \E w \in Workers : pc[w] \in Dropping /\ job[w] = i
  BY DEF Failed, Dropping

(* What is lost has failed. *)
LEMMA LostFailed == ASSUME NEW h, Lost(h) PROVE h \in Failures
  BY DEF Failures, Failed, Lost

LEMMA FailuresGrow == (Failed \subseteq Failed' => Failures \subseteq Failures') /\ (Failed' \subseteq Failed => Failures' \subseteq Failures)
<1>1. Failures' = UNION {{HashOf[i]} \cup Range(Entries[i]) : i \in Failed'}
  BY DEF Failures
<1>2. QED
  BY <1>1 DEF Failures

LEMMA FailuresAlone ==
  ASSUME UNCHANGED outcome, \A w \in Workers : pc'[w] \in Dropping \/ pc[w] \in Dropping => pc'[w] = pc[w] /\ job'[w] = job[w]
  PROVE  Failures' = Failures
<1>1. Failed' = {i \in Items : outcome'[i] \in {"failed", "raised"}}
                  \cup {job'[w] : w \in {v \in Workers : pc'[v] \in Dropping}}
  BY DEF Failed, Dropping
<1>2. Failed' = Failed
  BY <1>1 DEF Failed, Dropping
<1>3. QED
  BY <1>2, FailuresGrow

LEMMA CollectedIs == ASSUME DbOK PROVE {Table[l] : l \in Cells} \ {Nothing} = Recorded
<1>1. \A h : h \in {Table[l] : l \in Cells} \ {Nothing} <=> h # Nothing /\ \E l \in Cells : HashOfRow(l) = h
  BY DEF Table
<1>2. QED
  BY <1>1, RecordedCells

LEMMA InitCollects == ASSUME Init, IInv PROVE Collects!Init
<1>1. /\ posted \subseteq Items /\ running = FALSE /\ queue = {} /\ outcome = [i \in Items |-> "none"]
      /\ pc = [w \in Workers |-> "free"] /\ row = [p \in Paths |-> Nothing]
      /\ childRow = [p \in Paths |-> [n \in Slots |-> Nothing]]
  BY DEF Init, Posts
<1>2. \A l \in Cells : HashOfRow(l) = Nothing
  <2> SUFFICES ASSUME NEW l \in Cells PROVE HashOfRow(l) = Nothing
    OBVIOUS
  <2>1. l[1] \in Paths /\ (l[2] # 0 => l[2] \in Slots)
    BY Facts DEF Cells, Slots
  <2>2. QED
    BY <1>1, <2>1 DEF HashOfRow
<1>3. Table = [l \in Cells |-> Nothing]
  BY <1>2 DEF Table
<1>4. Wanted = {}
  BY <1>1 DEF Wanted, Held
<1>5. Failures = {}
  BY <1>1 DEF Failures, Failed
<1>6. Posted \subseteq Hashes
  BY <1>1, Facts DEF Posted
<1>7. QED
  BY <1>1, <1>3, <1>4, <1>5, <1>6 DEF Collects!Init, Table, Posted

(* The steps between runs, and the first and the last of a run. *)
LEMMA EditCollects == ASSUME IInv, IInv', NEW S \in Posts, Edit(S) PROVE Collects!Publish
<1>1. ~running /\ UNCHANGED <<row, childRow, running, queue, pc, job, k, outcome>>
  BY Zenon DEF Edit, db, workers
<1>2. Posted' \subseteq Hashes
  BY Facts DEF IInv, Types, RunOK, Posts, Posted
<1>3. Table' = Table /\ Wanted' = Wanted /\ Failures' = Failures
  BY <1>1, FailuresAlone DEF Table, Wanted, Held, H, Entry, HashOfRow
<1>4. QED
  BY <1>1, <1>2, <1>3 DEF Collects!Publish, Table, Posted

LEMMA StartRunCollects == ASSUME IInv, NEW c \in Configs, StartRun(c) PROVE Collects!Begin
<1>1. /\ ~running /\ running' = TRUE /\ queue' = New /\ outcome' = [i \in Items |-> "none"]
      /\ UNCHANGED <<row, childRow, posted, pc, job, k>>
  BY Zenon DEF StartRun, db, workers
<1>2. DbOK /\ WorkersOK /\ posted \subseteq Items
  BY DEF IInv, Types, RunOK, Posts
<1>3. \A w \in Workers : pc'[w] = "free"
  BY <1>1, <1>2, Zenon DEF WorkersOK
<1>4. Wanted' = {HashOf[i] : i \in New}
  BY <1>1, <1>3 DEF Wanted, Held
<1>5. {HashOf[i] : i \in New} = Posted \ Recorded
  <2>1. \A h \in {HashOf[i] : i \in New} : h \in Posted \ Recorded
    BY DEF New, Posted
  <2>2. ASSUME NEW h \in Posted \ Recorded PROVE h \in {HashOf[i] : i \in New}
    <3>1. {i \in posted : HashOf[i] = h} \in SUBSET Nat /\ {i \in posted : HashOf[i] = h} # {}
      BY <1>2, Facts DEF Posted
    <3>2. PICK j \in {i \in posted : HashOf[i] = h} : \A i \in {x \in posted : HashOf[x] = h} : ~(i < j)
      BY <3>1, Least
    <3>3. j \in New /\ HashOf[j] = h
      BY <3>2 DEF New
    <3>4. QED
      BY <3>3
  <2>3. QED
    BY <2>1, <2>2
<1>6. Failures' = {}
  <2>1. \A i : i \notin Failed'
    BY <1>1, <1>3 DEF Failed
  <2>2. QED
    BY <2>1 DEF Failures
<1>7. Table' = Table /\ Posted' = Posted
  BY <1>1, RowsAlone DEF Table, Posted
<1>8. Wanted' = Posted \ ({Table[l] : l \in Cells} \ {Nothing})
  BY <1>2, <1>4, <1>5, CollectedIs
<1>9. QED
  BY <1>1, <1>6, <1>7, <1>8 DEF Collects!Begin, Collects!Collected, Table, Posted

LEMMA EndRunCollects == ASSUME IInv, EndRun PROVE Collects!End
<1>1. /\ running /\ running' = FALSE /\ queue = {} /\ \A w \in Workers : pc[w] = "free"
      /\ UNCHANGED <<row, childRow, posted, queue, pc, job, k, outcome>>
  BY Zenon DEF EndRun, db, workers
<1>2. Wanted = {}
  BY <1>1 DEF Wanted, Held
<1>3. Table' = Table /\ Wanted' = Wanted /\ Failures' = Failures /\ Posted' = Posted
  BY <1>1, FailuresAlone DEF Table, Wanted, Posted, Held, H, Entry, HashOfRow
<1>4. QED
  BY <1>1, <1>2, <1>3 DEF Collects!End, Table, Posted

LEMMA CrashCollects == ASSUME Crash PROVE Collects!Cut
<1>1. /\ running /\ running' = FALSE /\ queue' = {} /\ pc' = [w \in Workers |-> "free"]
      /\ UNCHANGED <<row, childRow, posted, outcome>>
  BY Zenon DEF Crash, db
<1>2. Wanted' = {}
  BY <1>1 DEF Wanted, Held
<1>3. Table' = Table /\ Posted' = Posted
  BY <1>1 DEF Table, Posted, HashOfRow
<1>4. Failures' \subseteq Failures
  <2>1. \A i \in Failed' : i \in Failed
    BY <1>1 DEF Failed
  <2>2. QED
    BY <2>1, FailuresGrow
<1>5. QED
  BY <1>1, <1>2, <1>3, <1>4 DEF Collects!Cut, Table, Posted

(* A file leaves the queue for a worker's hands, or for good. *)
LEMMA FetchCollects ==
  ASSUME IInv, NEW w \in Workers, NEW i \in Items, Fetch(w, i) PROVE UNCHANGED Collects!cvars
<1>1. /\ pc[w] = "free" /\ i \in queue /\ queue' = queue \ {i} /\ job' = [job EXCEPT ![w] = i]
      /\ pc' = [pc EXCEPT ![w] = "fetched"]
      /\ UNCHANGED <<row, childRow, posted, running, k, outcome>>
  BY Zenon DEF Fetch, Go, db
<1>2. WorkersOK
  BY DEF IInv, Types
<1>3. /\ Held(w)' = {HashOf[i]} /\ Held(w) = {}
      /\ \A v \in Workers \ {w} : Held(v)' = Held(v)
  BY <1>1, <1>2 DEF WorkersOK, Held, H, Entry
<1>4. Wanted' = Wanted
  <2>1. {HashOf[j] : j \in queue'} \cup {HashOf[i]} = {HashOf[j] : j \in queue}
    BY <1>1
  <2>2. (UNION {Held(v)' : v \in Workers}) = (UNION {Held(v) : v \in Workers}) \cup {HashOf[i]}
    BY <1>3
  <2>3. Wanted' = {HashOf[j] : j \in queue'} \cup UNION {Held(v)' : v \in Workers}
    BY DEF Wanted
  <2>4. Wanted = {HashOf[j] : j \in queue} \cup UNION {Held(v) : v \in Workers}
    BY DEF Wanted
  <2>5. QED
    BY <2>1, <2>2, <2>3, <2>4
<1>5. Table' = Table /\ Failures' = Failures /\ Posted' = Posted
  BY <1>1, <1>2, RowsAlone, FailuresAlone DEF Table, Posted, WorkersOK, Dropping
<1>6. QED
  BY <1>1, <1>4, <1>5 DEF Collects!cvars, Table, Posted

LEMMA FetchFailsCollects ==
  ASSUME IInv, NEW w \in Workers, NEW i \in Items, FetchFails(w, i) PROVE Collects!Fail
<1>1. /\ i \in queue /\ queue' = queue \ {i} /\ outcome' = [outcome EXCEPT ![i] = "failed"]
      /\ UNCHANGED <<row, childRow, posted, running, pc, job, k>>
      /\ DOMAIN outcome = Items /\ running
  BY Zenon DEF FetchFails, db, workers, IInv, Types, RunOK, Apart
<1>2. \A v \in Workers : Held(v)' = Held(v)
  BY <1>1 DEF Held, H, Entry
<1>3. Failures \subseteq Failures'
  <2>1. \A j \in Failed : j \in Failed'
    BY <1>1 DEF Failed
  <2>2. QED
    BY <2>1, FailuresGrow
<1>4. HashOf[i] \in Failures'
  BY <1>1 DEF Failures, Failed
<1>5. \A h \in Wanted : h = HashOf[i] \/ h \in Wanted'
  <2>1. Wanted' = {HashOf[j] : j \in queue'} \cup UNION {Held(v)' : v \in Workers}
    BY DEF Wanted
  <2>2. QED
    BY <1>1, <1>2, <2>1 DEF Wanted
<1>6. \A h \in Wanted' : h \in Wanted
  <2>1. Wanted' = {HashOf[j] : j \in queue'} \cup UNION {Held(v)' : v \in Workers}
    BY DEF Wanted
  <2>2. QED
    BY <1>1, <1>2, <2>1 DEF Wanted
<1>7. Table' = Table /\ Posted' = Posted
  BY <1>1, RowsAlone DEF Table, Posted
<1>8. QED
  BY <1>1, <1>3, <1>4, <1>5, <1>6, <1>7 DEF Collects!Fail, Table, Posted

-----------------------------------------------------------------------------
(* A worker's steps.  What is wanted changes by what it holds. *)
LEMMA WantedOf ==
  ASSUME IInv, NEW w \in Workers, Others(w)
  PROVE  \A h : h \notin Held(w) \cup Held(w)' => (h \in Wanted <=> h \in Wanted')
<1>1. queue' = queue /\ \A v \in Workers \ {w} : Held(v)' = Held(v)
  BY DEF Others, Held, H, Entry
<1>2. Wanted' = {HashOf[j] : j \in queue'} \cup UNION {Held(v)' : v \in Workers}
  BY DEF Wanted
<1>3. QED
  BY <1>1, <1>2 DEF Wanted

(* ... and nobody else has that. *)
LEMMA WantedOnce ==
  ASSUME IInv, NEW w \in Workers, Others(w), NEW h \in Held(w), h \notin Held(w)'
  PROVE  h \in Wanted /\ h \notin Wanted'
<1>1. queue' = queue /\ \A v \in Workers \ {w} : Held(v)' = Held(v)
  BY DEF Others, Held, H, Entry
<1>2. Wanted' = {HashOf[j] : j \in queue'} \cup UNION {Held(v)' : v \in Workers}
  BY DEF Wanted
<1>3. (\A v \in Workers \ {w} : h \notin Held(v)) /\ (\A i \in queue : HashOf[i] # h)
  BY DEF IInv, Tickets
<1>4. QED
  BY <1>1, <1>2, <1>3 DEF Wanted

(* Failures stay, and a step that ends no file and begins to drop none     *)
(* makes none.                                                             *)
LEMMA FailuresOf ==
  ASSUME IInv, Undecided, NEW w \in Workers, pc[w] # "free", Others(w), Accounts(w),
         pc[w] \in Dropping => pc'[w] \in Dropping \/ outcome'[job[w]] \in {"failed", "raised"}
  PROVE  /\ Failures \subseteq Failures'
         /\ outcome'[job[w]] \in {"none", "success"} /\ (pc'[w] \in Dropping => pc[w] \in Dropping) =>
              Failures' = Failures
<1>1. /\ outcome[job[w]] = "none" /\ job[w] \in Items
      /\ \A i \in Items \ {job[w]} : outcome'[i] = outcome[i]
      /\ pc'[w] # "free" => job'[w] = job[w]
      /\ \A v \in Workers \ {w} : pc'[v] = pc[v] /\ job'[v] = job[v]
  BY Busy DEF Undecided, Accounts, Others, IInv, Types
<1>2. Failed \subseteq Failed'
  <2> SUFFICES ASSUME NEW i \in Failed PROVE i \in Failed'
    OBVIOUS
  <2>1. CASE i \in Items /\ outcome[i] \in {"failed", "raised"}
    BY <1>1, <2>1 DEF Failed
  <2>2. ASSUME NEW v \in Workers, pc[v] \in Dropping, job[v] = i PROVE i \in Failed'
    BY <1>1, <2>2 DEF Failed, Dropping
  <2>3. QED
    BY <2>1, <2>2, FailedAre
<1>3. ASSUME outcome'[job[w]] \in {"none", "success"}, pc'[w] \in Dropping => pc[w] \in Dropping
      PROVE  Failed' \subseteq Failed
  <2> SUFFICES ASSUME NEW i \in Failed' PROVE i \in Failed
    OBVIOUS
  <2>1. \/ i \in Items /\ outcome'[i] \in {"failed", "raised"}
        \/ \E v \in Workers : pc'[v] \in Dropping /\ job'[v] = i
    BY DEF Failed, Dropping
  <2>2. CASE i \in Items /\ outcome'[i] \in {"failed", "raised"}
    BY <1>1, <1>3, <2>2 DEF Failed
  <2>3. ASSUME NEW v \in Workers, pc'[v] \in Dropping, job'[v] = i PROVE i \in Failed
    BY <1>1, <1>3, <2>3 DEF Failed, Dropping
  <2>4. QED
    BY <2>1, <2>2, <2>3
<1>4. QED
  BY <1>2, <1>3, FailuresGrow

(* A step that writes no row and claims nothing: what it no longer holds   *)
(* has failed.                                                             *)
LEMMA QuietCollects ==
  ASSUME IInv, Undecided, NEW w \in Workers, pc[w] # "free", Good(w), Accounts(w),
         UNCHANGED <<row, childRow, posted>>, Held(w)' \subseteq Held(w),
         pc[w] \in Dropping => pc'[w] \in Dropping \/ outcome'[job[w]] \in {"failed", "raised"}
  PROVE  Collects!Fail
<1>1. Others(w) /\ running' = running /\ running
  BY DEF Good, Others, IInv, Types, WorkersOK
<1>2. Table' = Table /\ Posted' = Posted
  BY RowsAlone DEF Table, Posted
<1>3. \A h \in Held(w) \ Held(w)' : h \in Failures'
  <2> SUFFICES ASSUME NEW h \in Held(w) \ Held(w)' PROVE h \in Failures'
    OBVIOUS
  <2>1. (\E l \in Cells : HashOfRow(l)' = h) \/ Lost(h)'
    BY DEF Accounts
  <2>2. \A l \in Cells : HashOfRow(l)' # h
    BY RowsAlone DEF IInv, Tickets, Free
  <2>3. QED
    BY <2>1, <2>2 DEF Lost, Failures, Failed
<1>4. \A h \in Wanted : h \in Failures' \/ h \in Wanted'
  <2> SUFFICES ASSUME NEW h \in Wanted, h \notin Failures' PROVE h \in Wanted'
    OBVIOUS
  <2>1. h \in Held(w)' \/ h \notin Held(w) \cup Held(w)'
    BY <1>3
  <2>2. h \in Held(w)' => h \in Wanted'
    BY DEF Wanted
  <2>3. QED
    BY <1>1, <2>1, <2>2, WantedOf
<1>5. \A h \in Wanted' : h \in Wanted
  <2> SUFFICES ASSUME NEW h \in Wanted' PROVE h \in Wanted
    OBVIOUS
  <2>1. h \in Held(w) => h \in Wanted
    BY DEF Wanted
  <2>2. QED
    BY <1>1, <2>1, WantedOf
<1>6. Failures \subseteq Failures'
  BY <1>1, FailuresOf
<1>7. QED
  BY <1>1, <1>2, <1>4, <1>5, <1>6 DEF Collects!Fail, Table, Posted

(* A row is written with what the worker holds. *)
LEMMA WrittenCollects ==
  ASSUME IInv, Undecided, NEW w \in Workers, pc[w] # "free", Good(w), Accounts(w), UNCHANGED posted,
         NEW h \in Held(w), Held(w)' = {}, NEW c \in Cells,
         \A l \in Cells : HashOfRow(l)' = IF l = c THEN h ELSE HashOfRow(l),
         outcome'[job[w]] \in {"none", "success"}, pc[w] \notin Dropping, pc'[w] \notin Dropping
  PROVE  \E l \in Cells : \E g \in Hashes : Collects!Record(l, g)
<1>1. Others(w) /\ running' = running /\ running /\ WorkersOK
  BY DEF Good, Others, IInv, Types, WorkersOK
<1>2. Held(w) = {h} /\ h \in Hashes
  BY <1>1, Busy, EntryOK DEF Held
<1>3. h \in Wanted /\ h \notin Wanted'
  BY <1>1, WantedOnce
<1>4. Wanted' = Wanted \ {h}
  <2>1. \A g : g # h => (g \in Wanted <=> g \in Wanted')
    BY <1>1, <1>2, WantedOf
  <2>2. QED
    BY <1>3, <2>1
<1>5. Table' = [Table EXCEPT ![c] = h]
  BY DEF Table
<1>6. Failures' = Failures
  BY <1>1, FailuresOf
<1>7. Posted' = Posted
  BY DEF Posted
<1>8. Collects!Record(c, h)
  BY <1>1, <1>3, <1>4, <1>5, <1>6, <1>7 DEF Collects!Record, Table, Posted
<1>9. QED
  BY <1>2, <1>8

LEMMA SaveCollects ==
  ASSUME IInv, Undecided, NEW w \in Workers, Save(w) PROVE \E l \in Cells : \E g \in Hashes : Collects!Record(l, g)
<1>1. /\ pc[w] = "moved" /\ row' = [row EXCEPT ![P(w)] = H(w)]
      /\ (Go(w, "saved") /\ UNCHANGED <<job, k, outcome>>) \/ Done(w, "success")
      /\ UNCHANGED <<childRow, posted>>
      /\ WorkersOK /\ DbOK /\ RunOK
  BY Zenon DEF Save, IInv, Types
<1>2. Working(w)
  BY DEF Working
<1>3. Good(w) /\ Accounts(w) /\ pc[w] # "free"
  BY <1>2, WorkingGood, WorkingAccounts
<1>4. H(w) \in Held(w) /\ P(w) \in Paths /\ job[w] \in Items
  BY <1>1, Busy DEF Held
<1>5. Held(w)' = {} /\ pc[w] \notin Dropping /\ pc'[w] \notin Dropping
  BY <1>1 DEF Held, Go, Done, WorkersOK, Dropping
<1>6. /\ <<P(w), 0>> \in Cells
      /\ \A l \in Cells : HashOfRow(l)' = IF l = <<P(w), 0>> THEN H(w) ELSE HashOfRow(l)
  BY <1>1, <1>4, CellOfRow
<1>7. outcome[job[w]] = "none"
  BY <1>3 DEF Undecided
<1>8. outcome'[job[w]] \in {"none", "success"}
  BY <1>1, <1>4, <1>7 DEF Done, RunOK
<1>9. QED
  BY <1>1, <1>3, <1>4, <1>5, <1>6, <1>8, WrittenCollects

LEMMA SaveEntryCollects ==
  ASSUME IInv, Undecided, NEW w \in Workers, SaveEntry(w)
  PROVE  \E l \in Cells : \E g \in Hashes : Collects!Record(l, g)
<1>1. /\ pc[w] = "renamed" /\ childRow' = [childRow EXCEPT ![P(w)][k[w]] = Entry(w)]
      /\ pc' = [pc EXCEPT ![w] = "entry"]
      /\ UNCHANGED <<row, posted, outcome>>
      /\ WorkersOK /\ DbOK
  BY Zenon DEF SaveEntry, Go, IInv, Types
<1>2. Working(w)
  BY DEF Working
<1>3. Good(w) /\ Accounts(w) /\ pc[w] # "free"
  BY <1>2, WorkingGood, WorkingAccounts
<1>4. Entry(w) \in Held(w) /\ P(w) \in Paths /\ k[w] \in Slots
  BY <1>1, Busy, EntryOK DEF Held
<1>5. Held(w)' = {} /\ pc[w] \notin Dropping /\ pc'[w] \notin Dropping
  BY <1>1 DEF Held, WorkersOK, Dropping
<1>6. /\ <<P(w), k[w]>> \in Cells
      /\ \A l \in Cells : HashOfRow(l)' = IF l = <<P(w), k[w]>> THEN Entry(w) ELSE HashOfRow(l)
  BY <1>1, <1>4, CellOfEntry
<1>7. outcome'[job[w]] \in {"none", "success"}
  BY <1>1, <1>3 DEF Undecided
<1>8. QED
  BY <1>1, <1>3, <1>4, <1>5, <1>6, <1>7, WrittenCollects

(* The row of a failed archive goes. *)
LEMMA DeleteCollects ==
  ASSUME IInv, Undecided, NEW w \in Workers, DeleteRow(w) PROVE \E l \in Cells : Collects!Drop(l)
<1>1. /\ pc[w] = "failing" /\ row' = [row EXCEPT ![P(w)] = Nothing]
      /\ pc' = [pc EXCEPT ![w] = "deleted"]
      /\ UNCHANGED <<childRow, posted, running, queue, job, k, outcome>>
      /\ WorkersOK /\ DbOK
  BY Zenon DEF DeleteRow, Go, IInv, Types
<1>2. P(w) \in Paths /\ running
  BY <1>1, Busy DEF WorkersOK
<1>3. /\ <<P(w), 0>> \in Cells
      /\ \A l \in Cells : HashOfRow(l)' = IF l = <<P(w), 0>> THEN Nothing ELSE HashOfRow(l)
  BY <1>1, <1>2, CellOfRow
<1>4. Table' = [Table EXCEPT ![<<P(w), 0>>] = Nothing]
  BY <1>3 DEF Table
<1>5. \A v \in Workers : Held(v)' = Held(v)
  BY <1>1 DEF WorkersOK, Held, H, Entry
<1>6. Wanted' = {HashOf[j] : j \in queue'} \cup UNION {Held(v)' : v \in Workers}
  BY DEF Wanted
<1>7. Wanted' = Wanted
  BY <1>1, <1>5, <1>6 DEF Wanted
<1>8. Failures' = Failures /\ Posted' = Posted
  <2>1. Working(w)
    BY DEF Working
  <2>2. Others(w) /\ Accounts(w) /\ pc[w] # "free" /\ pc[w] \in Dropping /\ pc'[w] \in Dropping
    BY <1>1, <2>1, WorkingGood, WorkingAccounts DEF Good, WorkersOK, Dropping
  <2>3. outcome'[job[w]] = "none"
    BY <1>1, <2>2 DEF Undecided
  <2>4. QED
    BY <1>1, <2>2, <2>3, FailuresOf DEF Posted
<1>9. Table[<<P(w), 0>>] \in Failures
  <2>1. Table[<<P(w), 0>>] = row[P(w)]
    BY <1>3 DEF Table, HashOfRow
  <2>2. row[P(w)] = H(w)
    BY <1>1 DEF IInv, Mine, AfterSave
  <2>3. job[w] \in Failed
    BY <1>1 DEF Failed
  <2>4. QED
    BY <2>1, <2>2, <2>3 DEF Failures, H
<1>10. Collects!Drop(<<P(w), 0>>)
  BY <1>1, <1>2, <1>4, <1>7, <1>8, <1>9 DEF Collects!Drop, Table, Posted
<1>11. QED
  BY <1>3, <1>10

(* An entry is claimed. *)
LEMMA ClaimCollects ==
  ASSUME IInv, NEW w \in Workers, ClaimEntry(w) PROVE \E h \in Hashes : Collects!Claim(h)
<1>1. /\ pc[w] = "entry" /\ More(w) /\ Entry(w) \notin hashes
      /\ pc' = [pc EXCEPT ![w] = "claimed"]
      /\ UNCHANGED <<row, childRow, posted, running, queue, job, k, outcome>>
      /\ WorkersOK /\ DbOK /\ running
  BY Zenon DEF ClaimEntry, Go, db, IInv, Types, WorkersOK
<1>2. Entry(w) \in Hashes
  BY <1>1, EntryOK
<1>3. /\ Held(w) = {} /\ Held(w)' = {Entry(w)} /\ \A v \in Workers \ {w} : Held(v)' = Held(v)
  BY <1>1 DEF WorkersOK, Held, H, Entry
<1>4. Wanted' = Wanted \cup {Entry(w)}
  <2>1. Wanted' = {HashOf[j] : j \in queue'} \cup UNION {Held(v)' : v \in Workers}
    BY DEF Wanted
  <2>2. (UNION {Held(v)' : v \in Workers}) = (UNION {Held(v) : v \in Workers}) \cup {Entry(w)}
    BY <1>3
  <2>3. QED
    BY <1>1, <2>1, <2>2 DEF Wanted
<1>5. Wanted \subseteq hashes
  BY DEF IInv, Tickets, Free, Wanted
<1>6. Entry(w) \notin Recorded
  <2>1. \A l \in Cells : HashOfRow(l) # Entry(w)
    BY <1>1, <1>2, Facts DEF IInv, Tickets
  <2>2. QED
    BY <1>1, <2>1, RecordedCells
<1>7. Entry(w) \notin {Table[l] : l \in Cells} \ {Nothing}
  BY <1>1, <1>6, CollectedIs
<1>8. Table' = Table /\ Failures' = Failures /\ Posted' = Posted
  BY <1>1, RowsAlone, FailuresAlone DEF Table, Posted, WorkersOK, Dropping
<1>9. Collects!Claim(Entry(w))
  BY <1>1, <1>4, <1>5, <1>7, <1>8 DEF Collects!Claim, Collects!Collected, Table, Posted
<1>10. QED
  BY <1>2, <1>9

LEMMA WorkingCollects == ASSUME IInv, Undecided, NEW w \in Workers, Working(w) PROVE Collects!Next
<1>1. CASE Save(w)
  BY <1>1, SaveCollects DEF Collects!Next
<1>2. CASE SaveEntry(w)
  BY <1>2, SaveEntryCollects DEF Collects!Next
<1>3. CASE DeleteRow(w)
  BY <1>3, DeleteCollects DEF Collects!Next
<1>4. CASE ClaimEntry(w)
  BY <1>4, ClaimCollects DEF Collects!Next
<1>5. CASE BeginMove(w) \/ EndMove(w) \/ ClearFolder(w) \/ UnpackFails(w) \/ DeleteRefused(w) \/ RemoveFailed(w)
           \/ DropEntry(w) \/ RenameEntry(w) \/ EndUnpack(w) \/ Raise(w)
  <2>1. Good(w) /\ pc[w] # "free" /\ Accounts(w) /\ WorkersOK
    BY WorkingGood, WorkingAccounts DEF IInv, Types
  <2>2. UNCHANGED <<row, childRow, posted>>
    BY <1>5, Zenon DEF BeginMove, EndMove, ClearFolder, UnpackFails, DeleteRefused, RemoveFailed, DropEntry,
       RenameEntry, EndUnpack, Raise, db
  <2>3. Held(w)' \subseteq Held(w)
    <3>1. CASE BeginMove(w) \/ EndMove(w) \/ RenameEntry(w)
      BY <2>1, <3>1 DEF BeginMove, EndMove, RenameEntry, Go, WorkersOK, Held, H, Entry
    <3>2. CASE ClearFolder(w) \/ DropEntry(w)
      BY <2>1, <3>2 DEF ClearFolder, DropEntry, Go, WorkersOK, Held
    <3>3. CASE UnpackFails(w)
      BY <2>1, <3>3 DEF UnpackFails, Go, Done, WorkersOK, Held
    <3>4. CASE DeleteRefused(w) \/ RemoveFailed(w) \/ EndUnpack(w) \/ Raise(w)
      BY <2>1, <3>4 DEF DeleteRefused, RemoveFailed, EndUnpack, Raise, Go, Done, WorkersOK, Held
    <3>5. QED
      BY <1>5, <3>1, <3>2, <3>3, <3>4
  <2>4. pc[w] \in Dropping => pc'[w] \in Dropping \/ outcome'[job[w]] \in {"failed", "raised"}
    <3>1. CASE BeginMove(w) \/ EndMove(w) \/ RenameEntry(w) \/ ClearFolder(w) \/ DropEntry(w) \/ UnpackFails(w)
               \/ EndUnpack(w)
      BY <3>1 DEF BeginMove, EndMove, RenameEntry, ClearFolder, DropEntry, UnpackFails, EndUnpack, Dropping
    <3>2. CASE DeleteRefused(w) \/ RemoveFailed(w) \/ Raise(w)
      <4>1. \E o \in {"failed", "raised"} : Done(w, o)
        BY <3>2 DEF DeleteRefused, RemoveFailed, Raise
      <4>2. job[w] \in Items /\ DOMAIN outcome = Items
        BY <2>1, Busy DEF IInv, Types, RunOK
      <4>3. QED
        BY <4>1, <4>2 DEF Done
    <3>3. QED
      BY <1>5, <3>1, <3>2
  <2>5. QED
    BY <2>1, <2>2, <2>3, <2>4, QuietCollects DEF Collects!Next
<1>6. QED
  BY <1>1, <1>2, <1>3, <1>4, <1>5 DEF Working

LEMMA StutterCollects == ASSUME UNCHANGED vars PROVE UNCHANGED Collects!cvars
<1>1. UNCHANGED <<row, childRow, posted, running, queue, pc, job, k, outcome>>
  BY Zenon DEF vars, db, workers
<1>2. Table' = Table /\ Wanted' = Wanted /\ Failures' = Failures /\ Posted' = Posted
  BY <1>1, FailuresAlone DEF Table, Wanted, Posted, Held, H, Entry, HashOfRow
<1>3. QED
  BY <1>1, <1>2 DEF Collects!cvars, Table, Posted

LEMMA NextCollects == ASSUME IInv, IInv', Account, [Next]_vars PROVE [Collects!Next]_Collects!cvars
<1>1. ASSUME NEW w \in Workers, Working(w) PROVE Collects!Next
  <2>1. running
    BY <1>1, WorkingGood DEF IInv, Types, WorkersOK
  <2>2. QED
    BY <1>1, <2>1, WorkingCollects DEF Account
<1>2. CASE \E c \in Configs : StartRun(c)
  BY <1>2, StartRunCollects DEF Collects!Next
<1>3. CASE EndRun \/ Crash
  BY <1>3, EndRunCollects, CrashCollects DEF Collects!Next
<1>4. CASE \E S \in Posts : Edit(S)
  BY <1>4, EditCollects DEF Collects!Next
<1>5. ASSUME NEW w \in Workers, NEW i \in Items, Fetch(w, i) PROVE UNCHANGED Collects!cvars
  BY <1>5, FetchCollects
<1>6. ASSUME NEW w \in Workers, NEW i \in Items, FetchFails(w, i) PROVE Collects!Next
  BY <1>6, FetchFailsCollects DEF Collects!Next
<1>7. CASE Next
  BY <1>1, <1>2, <1>3, <1>4, <1>5, <1>6, <1>7, NextCases, StutterCollects
<1>8. QED
  BY <1>7, StutterCollects

(* The library implements the collection: over all interleavings of its    *)
(* workers, exceptions and crashes, a run wants exactly what is posted and *)
(* not recorded, brings each content once, records nothing that is         *)
(* recorded, and lets go of nothing that has not failed.                   *)
THEOREM KeepsACollection == Spec => ImplementsCollection
<1>1. Init /\ IInv => Collects!Init
  BY InitCollects
<1>2. IInv /\ IInv' /\ Account /\ [Next]_vars => [Collects!Next]_Collects!cvars
  BY NextCollects
<1>3. QED
  BY <1>1, <1>2, AccountInvariant, PTL DEF Spec, ImplementsCollection, Collects!Spec

-----------------------------------------------------------------------------
(* Reconcile beside the library.  Rows may repeat a content here, so that  *)
(* the invariant above does not hold; what does is types, that two files   *)
(* of a run are apart, and the parts that follow.                          *)

(* What can be at a place. *)
Fits(l, h) ==
  /\ l[1] \in Paths => h \in Hashes \cup {Nothing, Torn}
  /\ l[2] # 0 => h \in Hashes \cup {Nothing}

(* The state of reconcile. *)
ReconcileOK ==
  /\ rpc \in {"off", "list", "look", "hash", "insert"}
  /\ expected \subseteq Hashes /\ folder \in Paths \cup {Top} /\ folders \subseteq Paths
  /\ listed \subseteq Places \cup Numbers /\ at \in Places \cup Numbers \cup {None}
  /\ found \in Hashes \cup {Nothing, Torn} \cup Links
  /\ onDisk \subseteq Links /\ linkRow \in [Links -> {"none", "external", "attachment"}]
  /\ noted \in [Paths -> {"no", "parent", "deleted"}]
  /\ history \in [quiet : BOOLEAN, rebuilt : BOOLEAN, raced : SUBSET Places,
                  reconciles : Nat]
  /\ rpc \in {"hash", "insert"} <=> at # None
  /\ rpc = "insert" => at \in Places /\ found # Nothing /\ Fits(at, found)
  /\ rpc \in {"off", "list"} => listed = {}
  /\ rpc = "off" => noted = [p \in Paths |-> "no"]

(* What a worker has done, whatever reconcile records meanwhile. *)
Stands(w) ==
  /\ pc[w] \in AfterSave \cup {"moved"} => file[P(w)] = H(w)
  /\ pc[w] \in AfterSave => row[P(w)] # Nothing
  /\ pc[w] \in AfterSave /\ <<P(w), 0>> \notin history.raced => row[P(w)] = H(w)
  /\ pc[w] = "deleted" /\ <<P(w), 0>> \notin history.raced => row[P(w)] = Nothing
  /\ pc[w] = "renamed" => child[P(w)][k[w]] = Entry(w)
  /\ pc[w] \in {"entry", "claimed", "renamed"} =>
       \A n \in Slots : n > k[w] \/ (n = k[w] /\ pc[w] # "renamed") => child[P(w)][n] = Nothing

(* RowsTellTheDisk and EntriesHaveParent, of one path. *)
Tells(p) ==
  /\ row[p] # Nothing =>
       \/ file[p] = row[p]
       \/ p \in log.torn \/ <<p, 0>> \in history.raced
       \/ \E w \in Workers : job[w] # NoItem /\ P(w) = p /\ pc[w] \in {"moving", "moved"}
       \/ file[p] = Nothing /\ \E i \in log.extracted : HashOf[i] = row[p]
  /\ p \notin log.redone => \A n \in Slots :
       childRow[p][n] # Nothing => child[p][n] = childRow[p][n] \/ <<p, n>> \in history.raced
HasParent(p) == \A n \in Slots : childRow[p][n] # Nothing /\ <<p, n>> \notin loose => row[p] # Nothing

(* What reconcile is about to insert is there, or a run was at the place.  *)
Fresh == rpc = "insert" /\ at[1] \in Paths /\ at \notin history.raced => found = OnDisk(at)
Noted == \A p \in Paths : noted[p] = "parent" => row[p] # Nothing

(* While no run goes on: the places reconcile still comes to. *)
Ahead(l) ==
  \/ rpc = "list" /\ folder = Top
  \/ l[2] # 0 /\ (l[1] \in folders \/ (rpc = "list" /\ l[1] = folder))
  \/ l \in listed
  \/ l = at
Walk ==
  history.quiet =>
    /\ ~running /\ \A l \in Places : Agrees(l)
    /\ \A l \in Places : OnDisk(l) # Nothing /\ RowOf(l) = Nothing => rpc = "off" \/ Ahead(l)
    /\ rpc = "insert" => found = OnDisk(at)

(* After a reconcile that went through: what is on disk is recorded. *)
Rebuilt ==
  history.rebuilt =>
    /\ ~running /\ \A l \in Places : OnDisk(l) # Nothing => RowOf(l) = OnDisk(l)
    /\ at \notin Places /\ \A l \in listed \cap Places : OnDisk(l) # Nothing

LibraryPart ==
  /\ Types /\ Apart /\ (\A w \in Workers : Stands(w))
  /\ (\A p \in Paths : Tells(p)) /\ (\A p \in Paths : HasParent(p))
RInv == LibraryPart /\ ReconcileOK /\ Fresh /\ Noted /\ Walk /\ Rebuilt

-----------------------------------------------------------------------------
LEMMA PlaceTypes ==
  ASSUME NEW l \in Places
  PROVE  /\ l = <<l[1], l[2]>> /\ l[1] \in Paths \cup Links /\ l[2] \in Nat
         /\ l[1] \in Paths <=> l[1] \notin Links
         /\ (l[2] # 0 => l[2] \in Slots /\ l[1] \in Paths)
         /\ l[1] \in Paths => l \in Cells
         /\ l \notin Numbers /\ l # None
         /\ DiskOK => OnDisk(l) \in Hashes \cup {Nothing, Torn} \cup Links /\ Fits(l, OnDisk(l))
<1>1. /\ l = <<l[1], l[2]>> /\ l[1] \in Paths \cup Links /\ l[2] \in 0..MaxEntries
      /\ l[1] \in Paths <=> l[1] \notin Links
      /\ l[2] # 0 => l[1] \in Paths
  <2>1. Links \cap Paths = {} /\ 0 \in 0..MaxEntries
    BY ReconcileAssumption, Facts
  <2>2. l \in Paths \X (0..MaxEntries) \/ l \in Links \X {0}
    BY DEF Places
  <2>3. QED
    BY <2>1, <2>2
<1>2. l[2] \in Nat /\ (l[2] # 0 => l[2] \in Slots)
  BY <1>1, Facts DEF Slots
<1>3. l # None
  <2>1. ASSUME NEW p, NEW n PROVE <<p, n>> # <<>>
    <3>1. Len(<<p, n>>) = 2 /\ Len(<<>>) = 0
      OBVIOUS
    <3>2. QED
      BY <3>1
  <2>2. QED
    BY <1>1, <2>1, Zenon DEF None
<1>4. l[1] \in Paths => l \in Cells
  BY <1>1 DEF Cells
<1>5. l \notin Numbers
  <2>1. ASSUME NEW p, NEW n \in Slots, l = <<p, -n>> PROVE FALSE
    <3>1. l[2] = -n
      BY <2>1
    <3>2. QED
      BY <1>2, <3>1 DEF Slots
  <2>2. QED
    BY <2>1 DEF Numbers
<1>6. DiskOK => OnDisk(l) \in Hashes \cup {Nothing, Torn} \cup Links /\ Fits(l, OnDisk(l))
  <2>1. CASE l[1] \in Links
    <3>1. l[1] \notin Paths /\ l[2] = 0 /\ OnDisk(l) \in {l[1], Nothing}
      BY <1>1, <2>1 DEF OnDisk
    <3>2. QED
      BY <2>1, <3>1 DEF Fits
  <2>2. CASE l[1] \notin Links /\ l[2] = 0
    BY <1>1, <2>2 DEF DiskOK, OnDisk, Fits
  <2>3. CASE l[1] \notin Links /\ l[2] # 0
    BY <1>1, <1>2, <2>3 DEF DiskOK, OnDisk, Fits
  <2>4. QED
    BY <2>1, <2>2, <2>3
<1>7. QED
  BY <1>1, <1>2, <1>3, <1>4, <1>5, <1>6

LEMMA NumberTypes == ASSUME NEW l \in Numbers PROVE l # None /\ l \notin Places
<1>1. l \notin Places
  BY PlaceTypes
<1>2. PICK p \in Paths, m \in {-n : n \in Slots} : l = <<p, m>>
  BY DEF Numbers
<1>3. Len(<<p, m>>) = 2 /\ Len(<<>>) = 0
  OBVIOUS
<1>4. QED
  BY <1>1, <1>2, <1>3 DEF None

(* A place of kemono's files. *)
LEMMA CellPlaces ==
  ASSUME NEW l \in Cells
  PROVE  /\ l \in Places /\ l[1] \in Paths /\ l[1] \notin Links
         /\ RowOf(l) = HashOfRow(l) /\ RowOf(l)' = HashOfRow(l)'
<1>1. l \in Places /\ l[1] \in Paths /\ l[1] \notin Links
  BY ReconcileAssumption DEF Cells, Places
<1>2. QED
  BY <1>1 DEF RowOf, HashOfRow

LEMMA PathPlaces ==
  /\ \A p \in Paths : <<p, 0>> \in Places
  /\ \A p \in Paths, n \in Slots : <<p, n>> \in Places /\ n # 0
  BY Facts DEF Places, Slots

(* What a step of the library does to reconcile's history. *)
LEMMA HistoryDoes ==
  ASSUME ReconcileOK, LibraryStep
  PROVE  /\ UNCHANGED <<onDisk, linkRow, rpc, expected, folder, folders, listed, at, found>>
         /\ history'.quiet => history.quiet /\ ~running'
         /\ history'.rebuilt => history.rebuilt /\ ~running'
         /\ history.raced \subseteq history'.raced
         /\ at \in Places /\ at \notin history'.raced => RowOf(at)' = RowOf(at) /\ OnDisk(at)' = OnDisk(at)
         /\ ReconcileOK' /\ Noted'
<1> DEFINE raced == IF at \in Places /\ (RowOf(at)' # RowOf(at) \/ OnDisk(at)' # OnDisk(at))
                    THEN history.raced \cup {at} ELSE history.raced
           quiet == history.quiet /\ ~running'
           rebuilt == history.rebuilt /\ ~running'
<1>1. /\ UNCHANGED <<onDisk, linkRow, rpc, expected, folder, folders, listed, at, found>>
      /\ noted' = [p \in Paths |-> IF noted[p] = "parent" /\ row'[p] = Nothing THEN "deleted" ELSE noted[p]]
      /\ history' = [history EXCEPT !.quiet = quiet, !.rebuilt = rebuilt, !.raced = raced]
  BY Zenon DEF LibraryStep
<1>2. quiet \in BOOLEAN /\ rebuilt \in BOOLEAN /\ (quiet => history.quiet /\ ~running')
      /\ (rebuilt => history.rebuilt /\ ~running')
  BY Zenon
<1>3. /\ raced \in SUBSET Places /\ history.raced \subseteq raced
      /\ at \in Places /\ at \notin raced => RowOf(at)' = RowOf(at) /\ OnDisk(at)' = OnDisk(at)
  BY DEF ReconcileOK
<1>4. noted' \in [Paths -> {"no", "parent", "deleted"}] /\ Noted'
      /\ (rpc = "off" => noted' = [p \in Paths |-> "no"])
  BY <1>1 DEF ReconcileOK, Noted
<1> HIDE DEF quiet, rebuilt, raced
<1>5. history' \in [quiet : BOOLEAN, rebuilt : BOOLEAN, raced : SUBSET Places, reconciles : Nat]
      /\ history'.quiet = quiet /\ history'.rebuilt = rebuilt /\ history'.raced = raced
  BY <1>1, <1>2, <1>3 DEF ReconcileOK
<1>6. ReconcileOK'
  BY <1>1, <1>4, <1>5 DEF ReconcileOK
<1>7. /\ history'.quiet => history.quiet /\ ~running'
      /\ history'.rebuilt => history.rebuilt /\ ~running'
  BY <1>2, <1>5, Zenon
<1>8. QED
  BY <1>1, <1>3, <1>4, <1>5, <1>6, <1>7

LEMMA FreshStays == ASSUME ReconcileOK, Fresh, LibraryStep PROVE Fresh'
<1>1. rpc = "insert" /\ at \notin history'.raced => at \in Places /\ at \notin history.raced
  BY HistoryDoes DEF ReconcileOK
<1>2. QED
  BY <1>1, HistoryDoes DEF Fresh

(* A step while a run goes on before and after it. *)
LEMMA BusyWalk == ASSUME ReconcileOK, LibraryStep, running' PROVE Walk' /\ Rebuilt'
  BY HistoryDoes, Zenon DEF Walk, Rebuilt

(* A step that leaves the disk and the table alone. *)
LEMMA IdleWalk ==
  ASSUME ReconcileOK, Walk, Rebuilt, LibraryStep, UNCHANGED <<file, child, row, childRow>>
  PROVE  Walk' /\ Rebuilt'
<1>1. \A l \in Places : OnDisk(l)' = OnDisk(l) /\ RowOf(l)' = RowOf(l) /\ (Agrees(l) => Agrees(l)')
                        /\ (Ahead(l) => Ahead(l)')
  BY HistoryDoes DEF OnDisk, RowOf, Agrees, Ahead
<1>2. ASSUME history'.quiet PROVE Walk'
  <2>1. history.quiet /\ ~running'
    BY <1>2, HistoryDoes, Zenon
  <2>2. /\ \A l \in Places : Agrees(l)
        /\ \A l \in Places : OnDisk(l) # Nothing /\ RowOf(l) = Nothing => rpc = "off" \/ Ahead(l)
        /\ rpc = "insert" => found = OnDisk(at)
    BY <2>1, Zenon DEF Walk
  <2>3. rpc = "insert" => at \in Places
    BY DEF ReconcileOK
  <2>4. QED
    BY <1>1, <2>1, <2>2, <2>3, HistoryDoes DEF Walk
<1>3. ASSUME history'.rebuilt PROVE Rebuilt'
  <2>1. history.rebuilt /\ ~running'
    BY <1>3, HistoryDoes, Zenon
  <2>2. /\ \A l \in Places : OnDisk(l) # Nothing => RowOf(l) = OnDisk(l)
        /\ at \notin Places /\ \A l \in listed \cap Places : OnDisk(l) # Nothing
    BY <2>1, Zenon DEF Rebuilt
  <2>3. QED
    BY <1>1, <2>1, <2>2, HistoryDoes DEF Rebuilt
<1>4. QED
  BY <1>2, <1>3, Zenon DEF Walk, Rebuilt

-----------------------------------------------------------------------------
(* A step of a worker beside reconcile. *)
Kept(w) == Stands(w)' /\ (\A p \in Paths : p = P(w) => Tells(p)' /\ HasParent(p)')

LEMMA KeptPart ==
  ASSUME LibraryPart, NEW w \in Workers, pc[w] # "free", Types', Others(w), Kept(w),
         history.raced \subseteq history'.raced
  PROVE  LibraryPart'
<1>1. Types /\ Apart /\ P(w) \in Paths /\ job[w] # NoItem
  BY Busy DEF LibraryPart, Types
<1>2. \A v \in Workers \ {w} : pc'[v] # "free" =>
        /\ pc[v] # "free" /\ P(v)' = P(v) /\ H(v)' = H(v) /\ Entry(v)' = Entry(v)
        /\ P(v) # P(w) /\ P(v) \in Paths
  BY <1>1, Busy DEF Others, Apart, P, H, Entry, Types
<1>3. Apart'
  BY <1>1, WorkingApart DEF Types
<1>4. \A v \in Workers : Stands(v)'
  <2> TAKE v \in Workers
  <2>1. CASE v = w
    BY <2>1 DEF Kept
  <2>2. CASE v # w
    <3>1. Stands(v) /\ pc'[v] = pc[v] /\ k'[v] = k[v]
      BY <2>2 DEF Others, LibraryPart
    <3>2. pc'[v] # "free" => /\ file'[P(v)] = file[P(v)] /\ row'[P(v)] = row[P(v)] /\ child'[P(v)] = child[P(v)]
                             /\ P(v)' = P(v) /\ H(v)' = H(v) /\ Entry(v)' = Entry(v)
      BY <1>2, <2>2 DEF Others
    <3>3. CASE pc'[v] = "free"
      BY <3>3 DEF Stands, AfterSave
    <3>4. CASE pc'[v] # "free"
      BY <3>1, <3>2, <3>4 DEF Stands
    <3>5. QED
      BY <3>3, <3>4
  <2>3. QED
    BY <2>1, <2>2
<1>5. \A p \in Paths : Tells(p)' /\ HasParent(p)'
  <2> TAKE p \in Paths
  <2>1. CASE p = P(w)
    BY <2>1 DEF Kept
  <2>2. CASE p # P(w)
    <3>1. /\ Tells(p) /\ HasParent(p) /\ file'[p] = file[p] /\ row'[p] = row[p] /\ child'[p] = child[p]
          /\ childRow'[p] = childRow[p] /\ (p \in log.torn => p \in log'.torn)
          /\ (p \in log.redone <=> p \in log'.redone) /\ log.extracted \subseteq log'.extracted
          /\ \A n \in Slots : <<p, n>> \in loose => <<p, n>> \in loose'
      BY <2>2 DEF LibraryPart, Others
    <3>2. (\E v \in Workers : job[v] # NoItem /\ P(v) = p /\ pc[v] \in {"moving", "moved"}) =>
            \E v \in Workers : job'[v] # NoItem /\ P(v)' = p /\ pc'[v] \in {"moving", "moved"}
      BY <1>1, <2>2 DEF Others, P
    <3>3. Tells(p)'
      BY <3>1, <3>2 DEF Tells
    <3>4. HasParent(p)'
      BY <3>1 DEF HasParent
    <3>5. QED
      BY <3>3, <3>4
  <2>3. QED
    BY <2>1, <2>2
<1>6. QED
  BY <1>3, <1>4, <1>5 DEF LibraryPart

(* The path of a worker that is not moving its file. *)
LEMMA TellsSame ==
  ASSUME LibraryPart, NEW w \in Workers, pc[w] # "free", Others(w), pc[w] \notin {"moving", "moved"},
         UNCHANGED <<file, row, child, childRow, loose>>, log.torn \subseteq log'.torn,
         log'.redone = log.redone, history.raced \subseteq history'.raced
  PROVE  \A p \in Paths : p = P(w) => Tells(p)' /\ HasParent(p)'
<1> SUFFICES ASSUME NEW p \in Paths PROVE Tells(p)' /\ HasParent(p)'
  OBVIOUS
<1>1. Tells(p) /\ HasParent(p) /\ log.extracted \subseteq log'.extracted
  BY DEF LibraryPart, Others
<1>2. (\E v \in Workers : job[v] # NoItem /\ P(v) = p /\ pc[v] \in {"moving", "moved"}) =>
        \E v \in Workers : job'[v] # NoItem /\ P(v)' = p /\ pc'[v] \in {"moving", "moved"}
  BY DEF Others, P
<1>3. Tells(p)'
  BY <1>1, <1>2 DEF Tells
<1>4. HasParent(p)'
  BY <1>1 DEF HasParent
<1>5. QED
  BY <1>3, <1>4

LEMMA MoveKept ==
  ASSUME LibraryPart, NEW w \in Workers, BeginMove(w) \/ EndMove(w), history.raced \subseteq history'.raced
  PROVE  Kept(w)
<1>1. /\ UNCHANGED <<child, row, childRow, loose, job, k, log>>
      /\ \/ file' = [file EXCEPT ![P(w)] = Torn] /\ pc' = [pc EXCEPT ![w] = "moving"]
         \/ file' = [file EXCEPT ![P(w)] = H(w)] /\ pc' = [pc EXCEPT ![w] = "moved"]
      /\ DiskOK /\ WorkersOK /\ job[w] # NoItem /\ P(w) \in Paths
  BY Busy DEF BeginMove, EndMove, Go, LibraryPart, Types, db
<1>2. /\ P(w)' = P(w) /\ H(w)' = H(w) /\ job'[w] # NoItem
      /\ pc'[w] \in {"moving", "moved"} /\ (pc'[w] = "moved" => file'[P(w)] = H(w))
  BY <1>1 DEF WorkersOK, P, H, DiskOK
<1>3. Stands(w)'
  BY <1>2 DEF Stands, AfterSave
<1>4. Tells(P(w)) /\ HasParent(P(w))
  BY <1>1 DEF LibraryPart
<1>5. Tells(P(w))'
  BY <1>1, <1>2, <1>4 DEF Tells
<1>6. HasParent(P(w))'
  BY <1>1, <1>2, <1>4 DEF HasParent
<1>7. QED
  BY <1>2, <1>3, <1>5, <1>6 DEF Kept

LEMMA SaveKept ==
  ASSUME LibraryPart, NEW w \in Workers, Save(w), history.raced \subseteq history'.raced
  PROVE  Kept(w)
<1>1. /\ pc[w] = "moved" /\ row' = [row EXCEPT ![P(w)] = H(w)]
      /\ log' = [log EXCEPT !.superseded = @ \cup ({row[P(w)]} \ {Nothing}), !.torn = @ \ {P(w)}]
      /\ \/ Go(w, "saved") /\ UNCHANGED <<job, k, outcome>>
         \/ Done(w, "success")
      /\ UNCHANGED <<file, child, childRow, loose>>
      /\ DbOK /\ WorkersOK /\ LogOK /\ P(w) \in Paths /\ H(w) \in Hashes
      /\ Stands(w) /\ Tells(P(w))
  BY Busy DEF Save, LibraryPart, Types, disk
<1>2. pc'[w] \in {"saved", "free"} /\ (pc'[w] = "saved" => P(w)' = P(w) /\ H(w)' = H(w))
  BY <1>1 DEF WorkersOK, P, H, Go, Done
<1>3. row'[P(w)] = H(w) /\ file'[P(w)] = H(w) /\ H(w) # Nothing /\ log'.redone = log.redone
  BY <1>1, Facts DEF DbOK, Stands, LogOK
<1>4. Stands(w)'
  BY <1>2, <1>3 DEF Stands, AfterSave
<1>5. ASSUME NEW p \in Paths, p = P(w) PROVE Tells(p)' /\ HasParent(p)'
  <2>1. Tells(p)'
    BY <1>1, <1>3, <1>5 DEF Tells
  <2>2. HasParent(p)'
    BY <1>3, <1>5 DEF HasParent
  <2>3. QED
    BY <2>1, <2>2
<1>6. QED
  BY <1>4, <1>5 DEF Kept

LEMMA ClearKept ==
  ASSUME LibraryPart, NEW w \in Workers, ClearFolder(w), history.raced \subseteq history'.raced
  PROVE  Kept(w)
<1>1. /\ pc[w] = "saved" /\ child' = [child EXCEPT ![P(w)] = [n \in Slots |-> Nothing]]
      /\ log' = IF Range(childRow[P(w)]) # {Nothing}
                THEN [log EXCEPT !.redone = @ \cup {P(w)}] ELSE log
      /\ pc' = [pc EXCEPT ![w] = "entry"] /\ k' = [k EXCEPT ![w] = 1]
      /\ UNCHANGED <<file, row, childRow, loose, job>>
      /\ DiskOK /\ DbOK /\ WorkersOK /\ LogOK /\ P(w) \in Paths
      /\ Stands(w) /\ Tells(P(w)) /\ HasParent(P(w))
  BY Busy, Zenon DEF ClearFolder, Go, LibraryPart, Types, db
<1>2. pc'[w] = "entry" /\ k'[w] = 1 /\ P(w)' = P(w) /\ H(w)' = H(w)
  BY <1>1 DEF WorkersOK, P, H
<1>3. /\ log'.extracted = log.extracted /\ log'.torn = log.torn
      /\ P(w) \notin log'.redone => Range(childRow[P(w)]) = {Nothing}
  BY <1>1 DEF LogOK
<1>4. P(w) \notin log'.redone => \A n \in Slots : childRow[P(w)][n] = Nothing
  BY <1>1, <1>3 DEF DbOK, Range
<1>5. \A n \in Slots : child'[P(w)][n] = Nothing
  BY <1>1 DEF DiskOK
<1>6. Stands(w)'
  BY <1>1, <1>2, <1>5 DEF Stands, AfterSave
<1>7. ASSUME NEW p \in Paths, p = P(w) PROVE Tells(p)' /\ HasParent(p)'
  <2>1. row[p] # Nothing =>
          file[p] = row[p] \/ p \in log.torn \/ <<p, 0>> \in history.raced
          \/ (file[p] = Nothing /\ \E i \in log.extracted : HashOf[i] = row[p])
          \/ <<p, 0>> \in history'.raced
    <3>1. row[p] # Nothing /\ <<p, 0>> \notin history.raced => file[p] = row[p]
      BY <1>1, <1>7 DEF Stands, AfterSave
    <3>2. QED
      BY <3>1
  <2>2. Tells(p)'
    BY <1>1, <1>3, <1>4, <1>7, <2>1 DEF Tells
  <2>3. HasParent(p)'
    BY <1>1, <1>7 DEF HasParent
  <2>4. QED
    BY <2>2, <2>3
<1>8. QED
  BY <1>6, <1>7 DEF Kept

LEMMA QuietKept ==
  ASSUME LibraryPart, NEW w \in Workers, UnpackFails(w) \/ DeleteRefused(w) \/ DropEntry(w),
         history.raced \subseteq history'.raced
  PROVE  Kept(w)
<1>1. /\ pc[w] # "free" /\ pc[w] \notin {"moving", "moved", "claimed", "renamed"} /\ pc[w] \in AfterSave
      /\ UNCHANGED <<file, child, row, childRow, loose>>
      /\ log.torn \subseteq log'.torn /\ log'.redone = log.redone
      /\ Others(w) /\ WorkersOK /\ Stands(w) /\ job[w] \in Items
  BY FailQuietly, FailFrame, Busy DEF LibraryPart, Types, AfterSave, Quietly
<1>2. ASSUME pc[w] = "entry", More(w), k' = [k EXCEPT ![w] = @ + 1], UNCHANGED <<pc, job, outcome>>
      PROVE  Stands(w)'
  <2>1. k[w] \in Nat /\ k'[w] = k[w] + 1
    BY <1>1, <1>2, EntryOK DEF WorkersOK
  <2>2. P(w)' = P(w) /\ H(w)' = H(w) /\ pc'[w] = "entry"
    BY <1>2 DEF P, H
  <2>3. \A n \in Slots : n > k[w] + 1 \/ n = k[w] + 1 => n > k[w]
    BY <2>1, Facts DEF Slots
  <2>4. QED
    BY <1>1, <1>2, <2>1, <2>2, <2>3 DEF Stands, AfterSave
<1>3. ASSUME Done(w, "failed") \/ Done(w, "raised") PROVE Stands(w)'
  <2>1. pc'[w] = "free"
    BY <1>1, <1>3 DEF Done, Go, WorkersOK
  <2>2. QED
    BY <2>1 DEF Stands, AfterSave
<1>4. ASSUME Go(w, "failing"), UNCHANGED <<job, k, outcome>> PROVE Stands(w)'
  <2>1. pc'[w] = "failing" /\ P(w)' = P(w) /\ H(w)' = H(w)
    BY <1>1, <1>4 DEF Go, WorkersOK, P, H
  <2>2. QED
    BY <1>1, <2>1 DEF Stands, AfterSave
<1>5. Quietly(w)
  BY FailQuietly DEF LibraryPart
<1>6. Stands(w)'
  BY <1>2, <1>3, <1>4, <1>5 DEF Quietly
<1>7. QED
  BY <1>1, <1>6, TellsSame DEF Kept

LEMMA DeleteKept ==
  ASSUME LibraryPart, NEW w \in Workers, DeleteRow(w), history.raced \subseteq history'.raced
  PROVE  Kept(w)
<1>1. /\ pc[w] = "failing" /\ row' = [row EXCEPT ![P(w)] = Nothing] /\ ~HasChildren(P(w))
      /\ log' = [log EXCEPT !.superseded = @ \cup {H(w)}]
      /\ pc' = [pc EXCEPT ![w] = "deleted"]
      /\ UNCHANGED <<file, child, childRow, loose, job>>
      /\ DbOK /\ WorkersOK /\ LogOK /\ P(w) \in Paths /\ Tells(P(w))
  BY Busy DEF DeleteRow, Go, LibraryPart, Types, disk
<1>2. pc'[w] = "deleted" /\ P(w)' = P(w) /\ row'[P(w)] = Nothing
  BY <1>1 DEF WorkersOK, P, DbOK
<1>3. log'.redone = log.redone
  BY <1>1 DEF LogOK
<1>4. Stands(w)'
  BY <1>2 DEF Stands, AfterSave
<1>5. ASSUME NEW p \in Paths, p = P(w) PROVE Tells(p)' /\ HasParent(p)'
  <2>1. Tells(p)'
    BY <1>1, <1>2, <1>3, <1>5 DEF Tells
  <2>2. HasParent(p)'
    BY <1>1, <1>5 DEF HasParent, HasChildren
  <2>3. QED
    BY <2>1, <2>2
<1>6. QED
  BY <1>4, <1>5 DEF Kept

LEMMA RemoveKept ==
  ASSUME LibraryPart, NEW w \in Workers, RemoveFailed(w), history.raced \subseteq history'.raced
  PROVE  Kept(w)
<1>1. /\ pc[w] = "deleted" /\ Done(w, "failed")
      /\ UNCHANGED <<child, row, childRow, loose, log>>
      /\ WorkersOK /\ P(w) \in Paths /\ Stands(w) /\ Tells(P(w)) /\ HasParent(P(w))
  BY Busy DEF RemoveFailed, LibraryPart, Types, db
<1>2. pc'[w] = "free"
  BY <1>1 DEF Done, Go, WorkersOK
<1>3. Stands(w)'
  BY <1>2 DEF Stands, AfterSave
<1>4. row[P(w)] # Nothing => <<P(w), 0>> \in history.raced
  BY <1>1 DEF Stands
<1>5. ASSUME NEW p \in Paths, p = P(w) PROVE Tells(p)' /\ HasParent(p)'
  <2>1. Tells(p)'
    BY <1>1, <1>4, <1>5 DEF Tells
  <2>2. HasParent(p)'
    BY <1>1, <1>5 DEF HasParent
  <2>3. QED
    BY <2>1, <2>2
<1>6. QED
  BY <1>3, <1>5 DEF Kept

LEMMA ClaimKept ==
  ASSUME LibraryPart, NEW w \in Workers, ClaimEntry(w), history.raced \subseteq history'.raced
  PROVE  Kept(w)
<1>1. /\ pc[w] = "entry" /\ pc' = [pc EXCEPT ![w] = "claimed"]
      /\ UNCHANGED <<file, child, row, childRow, loose, job, k, log>>
      /\ WorkersOK /\ Stands(w) /\ Others(w)
  BY ClaimFrame DEF ClaimEntry, Go, LibraryPart, Types, disk, db
<1>2. pc'[w] = "claimed" /\ P(w)' = P(w) /\ H(w)' = H(w)
  BY <1>1 DEF WorkersOK, P, H
<1>3. Stands(w)'
  BY <1>1, <1>2 DEF Stands, AfterSave
<1>4. QED
  BY <1>1, <1>3, TellsSame DEF Kept

LEMMA RenameKept ==
  ASSUME LibraryPart, NEW w \in Workers, RenameEntry(w), history.raced \subseteq history'.raced
  PROVE  Kept(w)
<1>1. /\ pc[w] = "claimed" /\ child' = [child EXCEPT ![P(w)][k[w]] = Entry(w)]
      /\ pc' = [pc EXCEPT ![w] = "renamed"]
      /\ UNCHANGED <<file, row, childRow, loose, job, k, log>>
      /\ DiskOK /\ WorkersOK /\ P(w) \in Paths
      /\ Stands(w) /\ Tells(P(w)) /\ HasParent(P(w))
  BY Busy DEF RenameEntry, Go, LibraryPart, Types, db
<1>2. pc'[w] = "renamed" /\ P(w)' = P(w) /\ H(w)' = H(w) /\ Entry(w)' = Entry(w) /\ k'[w] = k[w]
  BY <1>1 DEF WorkersOK, P, H, Entry
<1>3. k[w] \in Slots /\ k[w] \in Nat
  BY <1>1, EntryOK DEF More
<1>4. child'[P(w)][k[w]] = Entry(w) /\ \A n \in Slots \ {k[w]} : child'[P(w)][n] = child[P(w)][n]
  BY <1>1, <1>3 DEF DiskOK
<1>5. \A n \in Slots : n > k[w] \/ n = k[w] => child[P(w)][n] = Nothing
  BY <1>1 DEF Stands
<1>6. Stands(w)'
  <2>1. \A n \in Slots : n > k[w] => n # k[w]
    BY <1>3, Facts DEF Slots
  <2>2. QED
    BY <1>1, <1>2, <1>4, <1>5, <2>1 DEF Stands, AfterSave
<1>7. ASSUME NEW p \in Paths, p = P(w) PROVE Tells(p)' /\ HasParent(p)'
  <2>1. row[p] # Nothing =>
          file[p] = row[p] \/ p \in log.torn \/ <<p, 0>> \in history'.raced
    BY <1>1, <1>7 DEF Stands, AfterSave
  <2>2. p \notin log.redone => childRow[p][k[w]] = Nothing \/ <<p, k[w]>> \in history.raced
    BY <1>1, <1>3, <1>5, <1>7 DEF Tells
  <2>3. Tells(p)'
    BY <1>1, <1>4, <1>7, <2>1, <2>2 DEF Tells
  <2>4. HasParent(p)'
    BY <1>1, <1>7 DEF HasParent
  <2>5. QED
    BY <2>3, <2>4
<1>8. QED
  BY <1>6, <1>7 DEF Kept

LEMMA SaveEntryKept ==
  ASSUME LibraryPart, NEW w \in Workers, SaveEntry(w), history.raced \subseteq history'.raced
  PROVE  Kept(w)
<1>1. /\ pc[w] = "renamed" /\ childRow' = [childRow EXCEPT ![P(w)][k[w]] = Entry(w)]
      /\ log' = [log EXCEPT !.superseded = @ \cup ({childRow[P(w)][k[w]]} \ {Nothing})]
      /\ pc' = [pc EXCEPT ![w] = "entry"] /\ k' = [k EXCEPT ![w] = @ + 1]
      /\ UNCHANGED <<file, child, row, job>>
      /\ DbOK /\ WorkersOK /\ LogOK /\ P(w) \in Paths
      /\ Stands(w) /\ Tells(P(w))
  BY Busy DEF SaveEntry, Go, LibraryPart, Types, disk
<1>2. k[w] \in Slots /\ k[w] \in Nat
  BY <1>1, EntryOK DEF More
<1>3. pc'[w] = "entry" /\ P(w)' = P(w) /\ H(w)' = H(w) /\ k'[w] = k[w] + 1
  BY <1>1, <1>2 DEF WorkersOK, P, H
<1>4. childRow'[P(w)][k[w]] = Entry(w) /\ \A n \in Slots \ {k[w]} : childRow'[P(w)][n] = childRow[P(w)][n]
  BY <1>1, <1>2 DEF DbOK
<1>5. log'.extracted = log.extracted /\ log'.torn = log.torn /\ log'.redone = log.redone
  BY <1>1 DEF LogOK
<1>6. Stands(w)'
  <2>1. \A n \in Slots : n > k[w] + 1 \/ n = k[w] + 1 => n > k[w]
    BY <1>2, Facts DEF Slots
  <2>2. QED
    BY <1>1, <1>3, <2>1 DEF Stands, AfterSave
<1>7. ASSUME NEW p \in Paths, p = P(w) PROVE Tells(p)' /\ HasParent(p)'
  <2>1. row[p] # Nothing /\ child[p][k[w]] = Entry(w)
        /\ (file[p] = row[p] \/ p \in log.torn \/ <<p, 0>> \in history'.raced)
    BY <1>1, <1>7 DEF Stands, AfterSave
  <2>2. Tells(p)'
    BY <1>1, <1>4, <1>5, <1>7, <2>1 DEF Tells
  <2>3. HasParent(p)'
    BY <1>1, <1>7, <2>1 DEF HasParent
  <2>4. QED
    BY <2>2, <2>3
<1>8. QED
  BY <1>6, <1>7 DEF Kept

LEMMA EndUnpackKept ==
  ASSUME LibraryPart, NEW w \in Workers, EndUnpack(w), history.raced \subseteq history'.raced
  PROVE  Kept(w)
<1>1. /\ pc[w] = "entry"
      /\ file' = IF conf.keepUnpacked THEN file ELSE [file EXCEPT ![P(w)] = Nothing]
      /\ log' = [log EXCEPT !.extracted = @ \cup {job[w]}, !.refused = @ \ {job[w]}]
      /\ Done(w, "success")
      /\ UNCHANGED <<child, row, childRow, loose>>
      /\ DiskOK /\ WorkersOK /\ LogOK /\ job[w] \in Items /\ P(w) \in Paths
      /\ Stands(w) /\ Tells(P(w)) /\ HasParent(P(w))
  BY Busy DEF EndUnpack, LibraryPart, Types, db
<1>2. pc'[w] = "free"
  BY <1>1 DEF Done, Go, WorkersOK
<1>3. log'.extracted = log.extracted \cup {job[w]} /\ log'.redone = log.redone
  BY <1>1 DEF LogOK
<1>4. Stands(w)'
  BY <1>2 DEF Stands, AfterSave
<1>5. file' = file \/ file' = [file EXCEPT ![P(w)] = Nothing]
  BY <1>1, Zenon
<1>6. file[P(w)] = H(w) /\ (row[P(w)] = H(w) \/ <<P(w), 0>> \in history.raced)
  BY <1>1 DEF Stands, AfterSave
<1>7. file'[P(w)] \in {H(w), Nothing}
  BY <1>1, <1>5, <1>6 DEF DiskOK
<1>8. ASSUME NEW p \in Paths, p = P(w) PROVE Tells(p)' /\ HasParent(p)'
  <2>1. Tells(p)'
    BY <1>1, <1>3, <1>6, <1>7, <1>8 DEF Tells, H
  <2>2. HasParent(p)'
    BY <1>1, <1>8 DEF HasParent
  <2>3. QED
    BY <2>1, <2>2
<1>9. QED
  BY <1>4, <1>8 DEF Kept

LEMMA RaiseKept ==
  ASSUME LibraryPart, NEW w \in Workers, Raise(w), history.raced \subseteq history'.raced
  PROVE  Kept(w)
<1>1. /\ pc[w] # "free" /\ Done(w, "raised") /\ UNCHANGED <<file, child, row, childRow, loose>>
      /\ WorkersOK /\ P(w) \in Paths /\ Tells(P(w)) /\ HasParent(P(w)) /\ Others(w)
      /\ log.torn \subseteq log'.torn /\ log'.redone = log.redone
      /\ pc[w] \in {"moving", "moved"} => P(w) \in log'.torn
  BY Busy, RaiseFrame DEF Raise, LibraryPart, Types, disk, db
<1>2. pc'[w] = "free"
  BY <1>1 DEF Done, Go, WorkersOK
<1>3. Stands(w)'
  BY <1>2 DEF Stands, AfterSave
<1>4. CASE pc[w] \in {"moving", "moved"}
  <2>1. ASSUME NEW p \in Paths, p = P(w) PROVE Tells(p)' /\ HasParent(p)'
    <3>1. Tells(p)'
      BY <1>1, <1>4, <2>1 DEF Tells
    <3>2. HasParent(p)'
      BY <1>1, <2>1 DEF HasParent
    <3>3. QED
      BY <3>1, <3>2
  <2>2. QED
    BY <1>3, <2>1 DEF Kept
<1>5. CASE pc[w] \notin {"moving", "moved"}
  BY <1>1, <1>3, <1>5, TellsSame DEF Kept
<1>6. QED
  BY <1>4, <1>5

LEMMA WorkingKept ==
  ASSUME LibraryPart, NEW w \in Workers, Working(w), history.raced \subseteq history'.raced
  PROVE  Kept(w)
  BY MoveKept, SaveKept, ClearKept, QuietKept, DeleteKept, RemoveKept, ClaimKept, RenameKept,
     SaveEntryKept, EndUnpackKept, RaiseKept DEF Working

-----------------------------------------------------------------------------
(* The other steps of the library beside reconcile. *)
LEMMA AsidePart ==
  ASSUME LibraryPart, Types', Apart', UNCHANGED <<file, child, row, childRow, loose>>,
         history.raced \subseteq history'.raced, log'.redone = log.redone,
         log.extracted \subseteq log'.extracted, log.torn \subseteq log'.torn,
         \A w \in Workers : \/ pc'[w] = pc[w] /\ P(w)' = P(w) /\ H(w)' = H(w) /\ Entry(w)' = Entry(w)
                               /\ k'[w] = k[w] /\ job'[w] = job[w]
                            \/ pc'[w] \in {"free", "fetched"}
                               /\ (pc[w] \in {"moving", "moved"} => P(w) \in log'.torn)
  PROVE  LibraryPart'
<1>1. \A w \in Workers : Stands(w)'
  <2> TAKE w \in Workers
  <2>1. CASE pc'[w] \in {"free", "fetched"}
    BY <2>1 DEF Stands, AfterSave
  <2>2. CASE pc'[w] \notin {"free", "fetched"}
    BY <2>2 DEF Stands, LibraryPart
  <2>3. QED
    BY <2>1, <2>2
<1>2. \A p \in Paths : Tells(p)'
  <2> TAKE p \in Paths
  <2>1. Tells(p)
    BY DEF LibraryPart
  <2>2. (\E w \in Workers : job[w] # NoItem /\ P(w) = p /\ pc[w] \in {"moving", "moved"}) =>
          \/ p \in log'.torn
          \/ \E w \in Workers : job'[w] # NoItem /\ P(w)' = p /\ pc'[w] \in {"moving", "moved"}
    OBVIOUS
  <2>3. QED
    BY <2>1, <2>2 DEF Tells
<1>3. \A p \in Paths : HasParent(p)'
  BY DEF HasParent, LibraryPart
<1>4. QED
  BY <1>1, <1>2, <1>3 DEF LibraryPart

LEMMA FetchPart ==
  ASSUME LibraryPart, NEW w \in Workers, NEW i \in Items, Fetch(w, i), history.raced \subseteq history'.raced
  PROVE  LibraryPart' /\ running'
<1>1. /\ pc[w] = "free" /\ i \in queue /\ job' = [job EXCEPT ![w] = i] /\ pc' = [pc EXCEPT ![w] = "fetched"]
      /\ UNCHANGED <<file, child, row, childRow, loose, k, log>> /\ WorkersOK /\ Apart
  BY Zenon DEF Fetch, Go, disk, db, LibraryPart, Types
<1>2. running /\ running' = running
  BY <1>1, Zenon DEF Apart, Fetch
<1>3. Types' /\ Apart'
  BY FetchShape DEF LibraryPart
<1>4. \A v \in Workers : \/ pc'[v] = pc[v] /\ P(v)' = P(v) /\ H(v)' = H(v) /\ Entry(v)' = Entry(v)
                            /\ k'[v] = k[v] /\ job'[v] = job[v]
                         \/ pc'[v] \in {"free", "fetched"}
                            /\ (pc[v] \in {"moving", "moved"} => P(v) \in log'.torn)
  BY <1>1 DEF WorkersOK, P, H, Entry
<1>5. LibraryPart'
  BY <1>1, <1>3, <1>4, AsidePart
<1>6. QED
  BY <1>2, <1>5

LEMMA OtherPart ==
  ASSUME LibraryPart, history.raced \subseteq history'.raced,
         \/ \E w \in Workers, i \in Items : FetchFails(w, i)
         \/ \E c \in Configs : StartRun(c)
         \/ EndRun
         \/ \E S \in Posts : Edit(S)
         \/ UNCHANGED vars
  PROVE  LibraryPart' /\ UNCHANGED <<file, child, row, childRow>>
<1>1. /\ UNCHANGED <<file, child, row, childRow, loose, pc, job, k>>
      /\ \/ log' = log
         \/ log' = [log EXCEPT !.seen = posted, !.dropped = {}, !.superseded = {}, !.ended = FALSE]
         \/ log' = [log EXCEPT !.ended = TRUE]
  BY Zenon DEF FetchFails, StartRun, EndRun, Edit, vars, disk, db, workers
<1>2. log'.redone = log.redone /\ log'.extracted = log.extracted /\ log'.torn = log.torn
  BY <1>1 DEF LibraryPart, Types, LogOK
<1>3. Types' /\ Apart'
  BY FetchFailsShape, StartRunShape, EndRunShape, EditShape, StutterShape DEF LibraryPart
<1>4. \A v \in Workers : pc'[v] = pc[v] /\ P(v)' = P(v) /\ H(v)' = H(v) /\ Entry(v)' = Entry(v)
                         /\ k'[v] = k[v] /\ job'[v] = job[v]
  BY <1>1 DEF P, H, Entry
<1>5. QED
  BY <1>1, <1>2, <1>3, <1>4, AsidePart

LEMMA CrashPart ==
  ASSUME LibraryPart, Crash, history.raced \subseteq history'.raced
  PROVE  LibraryPart' /\ UNCHANGED <<file, child, row, childRow>>
<1>1. UNCHANGED <<file, child, row, childRow, loose>> /\ pc' = [w \in Workers |-> "free"]
  BY Zenon DEF Crash, disk, db
<1>2. /\ Types' /\ Apart' /\ log'.extracted = log.extracted /\ log'.redone = log.redone
      /\ log'.torn = log.torn \cup {P(w) : w \in {v \in Workers : pc[v] \in {"moving", "moved"}}}
  BY CrashShape DEF LibraryPart
<1>3. \A w \in Workers : pc'[w] = "free" /\ (pc[w] \in {"moving", "moved"} => P(w) \in log'.torn)
  BY <1>1, <1>2
<1>4. QED
  BY <1>1, <1>2, <1>3, AsidePart

(* What a run does to reconcile's part. *)
LEMMA LibraryRInv == ASSUME RInv, LibraryStep PROVE RInv'
<1>1. /\ LibraryPart /\ ReconcileOK /\ Fresh /\ Walk /\ Rebuilt /\ Next
      /\ history.raced \subseteq history'.raced /\ ReconcileOK' /\ Noted' /\ Fresh'
  BY HistoryDoes, FreshStays DEF RInv, LibraryStep
<1>2. ASSUME NEW w \in Workers, Working(w) PROVE LibraryPart' /\ Walk' /\ Rebuilt'
  <2>1. Types' /\ Others(w) /\ pc[w] # "free" /\ Kept(w)
    BY <1>1, <1>2, WorkingFrame, WorkingKept DEF LibraryPart
  <2>2. running'
    BY <1>1, <2>1, Zenon DEF LibraryPart, Types, WorkersOK, Others
  <2>3. LibraryPart'
    BY <1>1, <2>1, KeptPart
  <2>4. QED
    BY <1>1, <2>2, <2>3, BusyWalk
<1>3. ASSUME NEW w \in Workers, NEW i \in Items, Fetch(w, i) PROVE LibraryPart' /\ Walk' /\ Rebuilt'
  BY <1>1, <1>3, FetchPart, BusyWalk
<1>4. ASSUME \/ \E w \in Workers, i \in Items : FetchFails(w, i)
             \/ \E c \in Configs : StartRun(c)
             \/ EndRun
             \/ \E S \in Posts : Edit(S)
             \/ UNCHANGED vars
             \/ Crash
      PROVE  LibraryPart' /\ Walk' /\ Rebuilt'
  <2>1. LibraryPart' /\ UNCHANGED <<file, child, row, childRow>>
    BY <1>1, <1>4, OtherPart, CrashPart
  <2>2. QED
    BY <1>1, <2>1, IdleWalk
<1>5. LibraryPart' /\ Walk' /\ Rebuilt'
  BY <1>1, <1>2, <1>3, <1>4, NextCases
<1>6. QED
  BY <1>1, <1>5 DEF RInv

-----------------------------------------------------------------------------
(* The steps of reconcile that only read. *)
LEMMA SamePart ==
  ASSUME LibraryPart, UNCHANGED vars, history'.raced = history.raced
  PROVE  LibraryPart'
<1>1. UNCHANGED <<file, child, row, childRow, loose, pc, job, k, log>>
  BY Zenon DEF vars, disk, db, workers
<1>2. Types' /\ Apart'
  BY StutterShape DEF LibraryPart
<1>3. \A v \in Workers : pc'[v] = pc[v] /\ P(v)' = P(v) /\ H(v)' = H(v) /\ Entry(v)' = Entry(v)
                         /\ k'[v] = k[v] /\ job'[v] = job[v]
  BY <1>1 DEF P, H, Entry
<1>4. QED
  BY <1>1, <1>2, <1>3, AsidePart

LEMMA SamePlaces ==
  ASSUME UNCHANGED vars, UNCHANGED <<onDisk, linkRow>>
  PROVE  /\ \A l \in Places : OnDisk(l)' = OnDisk(l) /\ RowOf(l)' = RowOf(l) /\ (Agrees(l) <=> Agrees(l)')
         /\ UNCHANGED <<file, child, row, childRow, loose, running>>
<1>1. UNCHANGED <<file, child, row, childRow, loose, running>>
  BY Zenon DEF vars, disk, db
<1>2. QED
  BY <1>1 DEF OnDisk, RowOf, Agrees

(* What the invariant says of a walk, with the history's flags read off. *)
LEMMA WalkSays ==
  ASSUME RInv, history.quiet
  PROVE  /\ ~running /\ \A l \in Places : Agrees(l)
         /\ \A l \in Places : OnDisk(l) # Nothing /\ RowOf(l) = Nothing => rpc = "off" \/ Ahead(l)
         /\ rpc = "insert" => found = OnDisk(at)
  BY Zenon DEF RInv, Walk

LEMMA RebuiltSays ==
  ASSUME RInv, history.rebuilt
  PROVE  /\ ~running /\ \A l \in Places : OnDisk(l) # Nothing => RowOf(l) = OnDisk(l)
         /\ at \notin Places /\ \A l \in listed \cap Places : OnDisk(l) # Nothing
  BY Zenon DEF RInv, Rebuilt

LEMMA StartRInv == ASSUME RInv, Start PROVE RInv'
<1> DEFINE quiet == ~running /\ \A l \in Places : Agrees(l)
           times == history.reconciles + 1
<1>1. /\ rpc = "off" /\ expected' \subseteq {HashOf[i] : i \in posted} /\ rpc' = "list"
      /\ folder' = Top /\ folders' = {} /\ noted' = [p \in Paths |-> "no"]
      /\ history' = [history EXCEPT !.reconciles = times, !.quiet = quiet]
      /\ UNCHANGED <<vars, onDisk, linkRow, listed, at, found>>
  BY Zenon DEF Start, others
<1>2. quiet \in BOOLEAN /\ times \in Nat
  <2>1. quiet \in BOOLEAN
    BY Zenon
  <2>2. history.reconciles \in Nat
    BY DEF RInv, ReconcileOK
  <2>3. QED
    BY <2>1, <2>2
<1>3. LibraryPart /\ ReconcileOK /\ posted \subseteq Items
  BY DEF RInv, LibraryPart, Types, RunOK, Posts
<1> HIDE DEF quiet, times
<1>4. /\ history' \in [quiet : BOOLEAN, rebuilt : BOOLEAN, raced : SUBSET Places, reconciles : Nat]
      /\ history'.quiet = quiet /\ history'.rebuilt = history.rebuilt /\ history'.raced = history.raced
  BY <1>1, <1>2, <1>3 DEF ReconcileOK
<1>5. expected' \subseteq Hashes
  BY <1>1, <1>3, Facts
<1>6. at = None /\ listed = {}
  BY <1>1, <1>3 DEF ReconcileOK
<1>7. ReconcileOK'
  BY <1>1, <1>3, <1>4, <1>5, <1>6 DEF ReconcileOK
<1>8. LibraryPart'
  BY <1>1, <1>3, <1>4, SamePart
<1>9. Fresh' /\ Noted'
  BY <1>1 DEF Fresh, Noted
<1>10. ASSUME history'.quiet PROVE Walk'
  <2>1. quiet
    BY <1>4, <1>10, Zenon
  <2>2. ~running /\ \A l \in Places : Agrees(l)
    BY <2>1, Zenon DEF quiet
  <2>3. \A l \in Places : Ahead(l)'
    BY <1>1 DEF Ahead
  <2>4. QED
    BY <1>1, <2>2, <2>3, SamePlaces DEF Walk
<1>11. ASSUME history'.rebuilt PROVE Rebuilt'
  <2>1. history.rebuilt
    BY <1>4, <1>11, Zenon
  <2>2. QED
    BY <1>1, <1>6, <2>1, RebuiltSays, SamePlaces DEF Rebuilt
<1>12. QED
  BY <1>7, <1>8, <1>9, <1>10, <1>11, Zenon DEF RInv, Walk, Rebuilt

LEMMA ListRInv == ASSUME RInv, ListFolder PROVE RInv'
<1>1. /\ rpc = "list" /\ rpc' = "look" /\ UNCHANGED <<vars, onDisk, linkRow>>
      /\ UNCHANGED <<expected, folder, at, found, noted, history>>
      /\ listed' = {l \in Places \cup Numbers :
           /\ IsThere(l)
           /\ IF folder = Top THEN l[2] = 0 ELSE l[1] = folder /\ l[2] # 0}
      /\ folders' = IF folder = Top THEN Folders ELSE folders
  BY Zenon DEF ListFolder, others
<1>2. LibraryPart /\ ReconcileOK /\ Noted /\ listed = {} /\ at = None
  BY <1>1 DEF RInv, ReconcileOK
<1>3. ReconcileOK'
  BY <1>1, <1>2 DEF ReconcileOK, Folders
<1>4. LibraryPart' /\ Fresh' /\ Noted'
  BY <1>1, <1>2, SamePart, SamePlaces DEF Fresh, Noted
<1>0. \A l \in Places : IsThere(l) <=> OnDisk(l) # Nothing
  BY PlaceTypes DEF IsThere
<1>5. ASSUME history.quiet PROVE Walk'
  <2>1. ASSUME NEW l \in Places, OnDisk(l) # Nothing, RowOf(l) = Nothing PROVE Ahead(l)'
    <3>1. /\ l = <<l[1], l[2]>> /\ (l[2] # 0 => l[2] \in Slots /\ l[1] \in Paths /\ l[1] \notin Links)
          /\ l # None
      BY PlaceTypes
    <3>2. Ahead(l)
      BY <1>1, <1>5, <2>1, WalkSays
    <3>3. CASE folder = Top
      <4>1. CASE l[2] = 0
        BY <1>0, <1>1, <2>1, <3>3, <4>1 DEF Ahead
      <4>2. CASE l[2] # 0
        <5>1. child[l[1]][l[2]] # Nothing /\ DOMAIN child[l[1]] = Slots
          BY <1>2, <2>1, <3>1, <4>2 DEF OnDisk, LibraryPart, Types, DiskOK
        <5>2. l[1] \in Folders
          BY <3>1, <4>2, <5>1 DEF Folders, Range
        <5>3. QED
          BY <1>1, <3>3, <4>2, <5>2 DEF Ahead
      <4>3. QED
        BY <4>1, <4>2
    <3>4. CASE folder # Top
      BY <1>0, <1>1, <1>2, <2>1, <3>1, <3>2, <3>4 DEF Ahead
    <3>5. QED
      BY <3>3, <3>4
  <2>2. QED
    BY <1>1, <1>5, <2>1, WalkSays, SamePlaces DEF Walk
<1>6. ASSUME history.rebuilt PROVE Rebuilt'
  BY <1>0, <1>1, <1>6, RebuiltSays, SamePlaces DEF Rebuilt
<1>7. (history'.quiet <=> history.quiet) /\ (history'.rebuilt <=> history.rebuilt)
  BY <1>1, Zenon
<1>8. QED
  BY <1>3, <1>4, <1>5, <1>6, <1>7, Zenon DEF RInv, Walk, Rebuilt

LEMMA LookUpRInv == ASSUME RInv, NEW l \in Places \cup Numbers, LookUp(l) PROVE RInv'
<1>1. /\ rpc = "look" /\ l \in listed /\ listed' = listed \ {l}
      /\ IF l \in Places /\ RowOf(l) # Nothing THEN UNCHANGED <<rpc, at>> ELSE rpc' = "hash" /\ at' = l
      /\ UNCHANGED <<vars, onDisk, linkRow, expected, folder, folders, found, noted, history>>
  BY Zenon DEF LookUp, others
<1>2. LibraryPart /\ ReconcileOK /\ Noted /\ at = None /\ l # None
  BY <1>1, PlaceTypes, NumberTypes DEF RInv, ReconcileOK
<1>3. ReconcileOK'
  BY <1>1, <1>2 DEF ReconcileOK
<1>4. LibraryPart' /\ Fresh' /\ Noted'
  BY <1>1, <1>2, SamePart, SamePlaces DEF Fresh, Noted
<1>5. ASSUME history.quiet PROVE Walk'
  <2>1. ASSUME NEW m \in Places, OnDisk(m) # Nothing, RowOf(m) = Nothing PROVE Ahead(m)'
    <3>1. Ahead(m) /\ m # None
      BY <1>1, <1>5, <2>1, WalkSays, PlaceTypes
    <3>2. QED
      BY <1>1, <1>2, <2>1, <3>1 DEF Ahead
  <2>2. rpc' # "insert"
    BY <1>1
  <2>3. QED
    BY <1>1, <1>5, <2>1, <2>2, WalkSays, SamePlaces DEF Walk
<1>6. ASSUME history.rebuilt PROVE Rebuilt'
  <2>1. l \in Places => RowOf(l) # Nothing
    BY <1>1, <1>6, RebuiltSays
  <2>2. at' \notin Places
    BY <1>1, <1>2, <2>1, PlaceTypes
  <2>3. QED
    BY <1>1, <1>6, <2>2, RebuiltSays, SamePlaces DEF Rebuilt
<1>7. (history'.quiet <=> history.quiet) /\ (history'.rebuilt <=> history.rebuilt)
  BY <1>1, Zenon
<1>8. QED
  BY <1>3, <1>4, <1>5, <1>6, <1>7, Zenon DEF RInv, Walk, Rebuilt

(* An exception, or the end of the walk. *)
LEMMA ReturnOK ==
  ASSUME ReconcileOK, Return, UNCHANGED <<onDisk, linkRow>>,
         history' \in [quiet : BOOLEAN, rebuilt : BOOLEAN, raced : SUBSET Places, reconciles : Nat]
  PROVE  ReconcileOK' /\ Fresh' /\ Noted'
<1>1. ReconcileOK'
  BY DEF ReconcileOK, Return
<1>2. QED
  BY <1>1 DEF Fresh, Noted, Return

LEMMA RefusedRInv ==
  ASSUME RInv, rpc \in {"hash", "insert"}, Return, UNCHANGED <<vars, onDisk, linkRow, history>>
  PROVE  RInv'
<1>1. LibraryPart /\ ReconcileOK
  BY DEF RInv
<1>2. LibraryPart' /\ ReconcileOK' /\ Fresh' /\ Noted'
  <2>1. history' \in [quiet : BOOLEAN, rebuilt : BOOLEAN, raced : SUBSET Places, reconciles : Nat]
    BY <1>1 DEF ReconcileOK
  <2>2. QED
    BY <1>1, <2>1, ReturnOK, SamePart
<1>3. ASSUME history.quiet PROVE Walk'
  BY <1>3, WalkSays, SamePlaces DEF Walk, Return
<1>4. ASSUME history.rebuilt PROVE Rebuilt'
  BY <1>4, RebuiltSays, SamePlaces, PlaceTypes DEF Rebuilt, Return
<1>5. (history'.quiet <=> history.quiet) /\ (history'.rebuilt <=> history.rebuilt)
  BY Zenon
<1>6. QED
  BY <1>2, <1>3, <1>4, <1>5, Zenon DEF RInv, Walk, Rebuilt

LEMMA HashRInv == ASSUME RInv, Hash PROVE RInv'
<1> USE DEF others
<1>1. CASE ~IsThere(at) /\ Return
  BY <1>1, RefusedRInv DEF Hash
<1>2. CASE IsThere(at) /\ at \in Places /\ rpc' = "insert"
  <2>1. /\ rpc = "hash" /\ rpc' = "insert" /\ found' = OnDisk(at) /\ at \in Places
        /\ UNCHANGED <<vars, onDisk, linkRow, expected, folder, folders, listed, at, noted, history>>
    <3>1. at \notin Numbers
      BY <1>2, PlaceTypes
    <3>2. QED
      BY <1>2, <3>1, Zenon DEF Hash, Return
  <2>2. LibraryPart /\ ReconcileOK /\ Noted /\ at \in Places /\ at # None
    BY <2>1 DEF RInv, ReconcileOK
  <2>3. OnDisk(at) \in Hashes \cup {Nothing, Torn} \cup Links /\ Fits(at, OnDisk(at)) /\ OnDisk(at) # Nothing
    BY <1>2, <2>2, PlaceTypes DEF LibraryPart, Types, IsThere
  <2>4. ReconcileOK'
    BY <2>1, <2>2, <2>3 DEF ReconcileOK
  <2>5. LibraryPart' /\ Noted'
    BY <2>1, <2>2, SamePart, SamePlaces DEF Noted
  <2>6. found' = OnDisk(at)'
    BY <2>1, <2>2, SamePlaces DEF OnDisk
  <2>7. Fresh'
    BY <2>6 DEF Fresh
  <2>8. ASSUME history.quiet PROVE Walk'
    <3>1. ASSUME NEW m \in Places, OnDisk(m) # Nothing, RowOf(m) = Nothing PROVE Ahead(m)'
      <4>1. Ahead(m)
        BY <2>1, <2>8, <3>1, WalkSays
      <4>2. QED
        BY <2>1, <4>1 DEF Ahead
    <3>2. QED
      BY <2>1, <2>6, <2>8, <3>1, WalkSays, SamePlaces DEF Walk
  <2>9. ~history.rebuilt
    BY <2>2, RebuiltSays
  <2>10. (history'.quiet <=> history.quiet) /\ (history'.rebuilt <=> history.rebuilt)
    BY <2>1, Zenon
  <2>11. QED
    BY <2>4, <2>5, <2>7, <2>8, <2>9, <2>10, Zenon DEF RInv, Walk, Rebuilt
<1>3. CASE IsThere(at) /\ at \in Numbers /\ rpc' = "look"
  <2>1. /\ rpc = "hash" /\ at' = None
        /\ UNCHANGED <<vars, onDisk, linkRow, expected, folder, folders, listed, found, noted, history>>
    <3>1. at \notin Places
      BY <1>3, NumberTypes
    <3>2. QED
      BY <1>3, <3>1, Zenon DEF Hash
  <2>2. LibraryPart /\ ReconcileOK /\ Noted
    BY DEF RInv
  <2>3. ReconcileOK' /\ Fresh'
    BY <1>3, <2>1, <2>2 DEF ReconcileOK, Fresh
  <2>4. LibraryPart' /\ Noted'
    BY <2>1, <2>2, SamePart, SamePlaces DEF Noted
  <2>5. ASSUME history.quiet PROVE Walk'
    <3>1. ASSUME NEW m \in Places, OnDisk(m) # Nothing, RowOf(m) = Nothing PROVE Ahead(m)'
      <4>1. Ahead(m) /\ m # at
        BY <1>3, <2>1, <2>5, <3>1, WalkSays, NumberTypes
      <4>2. QED
        BY <1>3, <2>1, <4>1 DEF Ahead
    <3>2. QED
      BY <1>3, <2>1, <2>5, <3>1, WalkSays, SamePlaces DEF Walk
  <2>6. ASSUME history.rebuilt PROVE Rebuilt'
    BY <2>1, <2>6, RebuiltSays, SamePlaces, PlaceTypes DEF Rebuilt
  <2>7. (history'.quiet <=> history.quiet) /\ (history'.rebuilt <=> history.rebuilt)
    BY <2>1, Zenon
  <2>8. QED
    BY <2>3, <2>4, <2>5, <2>6, <2>7, Zenon DEF RInv, Walk, Rebuilt
<1>4. QED
  BY <1>1, <1>2, <1>3, Zenon DEF Hash

LEMMA NextFolderRInv == ASSUME RInv, NextFolder PROVE RInv'
<1>1. /\ rpc = "look" /\ listed = {} /\ rpc' = "list" /\ folder' \in folders
      /\ folders' = folders \ {folder'}
      /\ UNCHANGED <<vars, onDisk, linkRow, expected, listed, at, found, noted, history>>
  BY Zenon DEF NextFolder, others
<1>2. LibraryPart /\ ReconcileOK /\ Noted /\ at = None /\ folders \subseteq Paths
  BY <1>1 DEF RInv, ReconcileOK
<1>3. ReconcileOK'
  BY <1>1, <1>2 DEF ReconcileOK
<1>4. LibraryPart' /\ Fresh' /\ Noted'
  BY <1>1, <1>2, SamePart, SamePlaces DEF Fresh, Noted
<1>5. ASSUME history.quiet PROVE Walk'
  <2>1. ASSUME NEW m \in Places, OnDisk(m) # Nothing, RowOf(m) = Nothing PROVE Ahead(m)'
    <3>1. Ahead(m) /\ m # None
      BY <1>1, <1>5, <2>1, WalkSays, PlaceTypes
    <3>2. QED
      BY <1>1, <1>2, <3>1 DEF Ahead
  <2>2. QED
    BY <1>1, <1>5, <2>1, WalkSays, SamePlaces DEF Walk
<1>6. ASSUME history.rebuilt PROVE Rebuilt'
  BY <1>1, <1>6, RebuiltSays, SamePlaces DEF Rebuilt
<1>7. (history'.quiet <=> history.quiet) /\ (history'.rebuilt <=> history.rebuilt)
  BY <1>1, Zenon
<1>8. QED
  BY <1>3, <1>4, <1>5, <1>6, <1>7, Zenon DEF RInv, Walk, Rebuilt

(* The walk is over: every place on disk has a row, and of its content. *)
LEMMA EndRInv == ASSUME RInv, End PROVE RInv'
<1>1. /\ rpc = "look" /\ listed = {} /\ folders = {} /\ Return /\ UNCHANGED vars
      /\ UNCHANGED <<onDisk, linkRow>>
      /\ history' = [history EXCEPT !.rebuilt = history.quiet, !.quiet = FALSE]
  BY Zenon DEF End, others
<1>2. LibraryPart /\ ReconcileOK /\ at = None
  BY <1>1 DEF RInv, ReconcileOK
<1>3. history.quiet \in BOOLEAN
  BY <1>2 DEF ReconcileOK
<1>4. /\ history' \in [quiet : BOOLEAN, rebuilt : BOOLEAN, raced : SUBSET Places, reconciles : Nat]
      /\ history'.quiet = FALSE /\ history'.rebuilt = history.quiet /\ history'.raced = history.raced
  BY <1>1, <1>2, <1>3 DEF ReconcileOK
<1>5. LibraryPart' /\ ReconcileOK' /\ Fresh' /\ Noted'
  BY <1>1, <1>2, <1>4, ReturnOK, SamePart
<1>6. ASSUME history.quiet PROVE Rebuilt'
  <2>1. ASSUME NEW l \in Places, OnDisk(l) # Nothing PROVE RowOf(l) = OnDisk(l)
    <3>1. ~Ahead(l)
      BY <1>1, <1>2, PlaceTypes DEF Ahead
    <3>2. RowOf(l) # Nothing /\ Agrees(l)
      BY <1>1, <1>6, <2>1, <3>1, WalkSays
    <3>3. QED
      BY <2>1, <3>2 DEF Agrees
  <2>2. QED
    BY <1>1, <1>6, <2>1, WalkSays, SamePlaces, PlaceTypes DEF Rebuilt, Return
<1>7. ~history'.quiet /\ (history'.rebuilt <=> history.quiet)
  BY <1>4, Zenon
<1>8. QED
  BY <1>5, <1>6, <1>7, Zenon DEF RInv, Walk, Rebuilt

-----------------------------------------------------------------------------
(* The steps of reconcile that write: one place gets a row. *)
LEMMA WrittenRow ==
  ASSUME DbOK, NEW h, at \in Cells, UNCHANGED linkRow,
         \/ at[2] = 0 /\ row' = [row EXCEPT ![at[1]] = h] /\ UNCHANGED childRow
         \/ at[2] # 0 /\ childRow' = [childRow EXCEPT ![at[1]][at[2]] = h] /\ UNCHANGED row
  PROVE  \A l \in Places : RowOf(l)' = IF l = at THEN h ELSE RowOf(l)
<1>1. at = <<at[1], at[2]>> /\ at[1] \in Paths /\ (at[2] # 0 => at[2] \in Slots)
  BY CellPlaces, PlaceTypes
<1>2. \A l \in Cells : HashOfRow(l)' = IF l = at THEN h ELSE HashOfRow(l)
  <2>1. CASE at[2] = 0 /\ row' = [row EXCEPT ![at[1]] = h] /\ UNCHANGED childRow
    BY <1>1, <2>1, CellOfRow
  <2>2. CASE at[2] # 0 /\ childRow' = [childRow EXCEPT ![at[1]][at[2]] = h] /\ UNCHANGED row
    BY <1>1, <2>2, CellOfEntry
  <2>3. QED
    BY <2>1, <2>2
<1>3. ASSUME NEW l \in Places PROVE RowOf(l)' = IF l = at THEN h ELSE RowOf(l)
  <2>1. CASE l[1] \in Paths
    <3>1. l \in Cells
      BY <2>1, PlaceTypes
    <3>2. QED
      BY <1>2, <3>1, CellPlaces
  <2>2. CASE l[1] \notin Paths
    <3>1. l[1] \in Links /\ l # at
      BY <1>1, <2>2, PlaceTypes
    <3>2. QED
      BY <3>1 DEF RowOf
  <2>3. QED
    BY <2>1, <2>2
<1>4. QED
  BY <1>3

LEMMA InsertedWalk ==
  ASSUME RInv, rpc = "insert", rpc' = "look", at' = None,
         UNCHANGED <<file, child, onDisk, running, folder, folders, listed>>,
         \A l \in Places : l # at => RowOf(l)' = RowOf(l),
         NEW h, h # Nothing, found = OnDisk(at) => h = found,
         \A l \in Places : l = at => RowOf(l)' = h,
         history'.quiet = history.quiet, history'.rebuilt = history.rebuilt
  PROVE  Walk' /\ Rebuilt'
<1>1. ReconcileOK /\ at \in Places /\ at # None /\ found # Nothing
  BY PlaceTypes DEF RInv, ReconcileOK
<1>2. \A l \in Places : OnDisk(l)' = OnDisk(l)
  BY DEF OnDisk
<1>3. ASSUME history.quiet PROVE Walk'
  <2>1. ~running /\ found = OnDisk(at)
    BY <1>3, WalkSays
  <2>2. ASSUME NEW l \in Places PROVE Agrees(l)'
    <3>1. Agrees(l)
      BY <1>3, WalkSays
    <3>2. QED
      BY <1>2, <2>1, <3>1 DEF Agrees
  <2>3. ASSUME NEW l \in Places, OnDisk(l) # Nothing, RowOf(l)' = Nothing PROVE Ahead(l)'
    <3>1. l # at /\ RowOf(l) = Nothing
      BY <1>1, <2>3
    <3>2. Ahead(l)
      BY <1>3, <2>3, <3>1, WalkSays
    <3>3. QED
      BY <3>1, <3>2 DEF Ahead
  <2>4. QED
    BY <1>2, <2>1, <2>2, <2>3 DEF Walk
<1>4. ~history.rebuilt
  BY <1>1, RebuiltSays
<1>5. (history'.quiet <=> history.quiet) /\ (history'.rebuilt <=> history.rebuilt)
  BY Zenon
<1>6. QED
  BY <1>3, <1>4, <1>5, Zenon DEF Walk, Rebuilt

LEMMA InsertedDoes ==
  ASSUME RInv, rpc = "insert", Inserted
  PROVE  /\ rpc' = "look" /\ at' = None /\ found' = Nothing
         /\ UNCHANGED <<file, child, posted, running, conf, hashes, queue, pc, job, k, outcome, log,
                        onDisk, expected, folder, folders, listed>>
         /\ history' \in [quiet : BOOLEAN, rebuilt : BOOLEAN, raced : SUBSET Places, reconciles : Nat]
         /\ history'.quiet = history.quiet /\ history'.rebuilt = history.rebuilt
         /\ history.raced \subseteq history'.raced
         /\ (\E w \in Workers : pc[w] = "deleted" /\ at = <<P(w), 0>>) => at \in history'.raced
<1>1. /\ rpc' = "look" /\ at' = None /\ found' = Nothing
      /\ UNCHANGED <<file, child, posted, running, conf, hashes, queue, pc, job, k, outcome, log,
                     onDisk, expected, folder, folders, listed>>
      /\ history' = IF \E w \in Workers : pc[w] = "deleted" /\ at = <<P(w), 0>>
                    THEN [history EXCEPT !.raced = @ \cup {at}] ELSE history
  BY Zenon DEF Inserted, disk, workers, others
<1>2. ReconcileOK /\ at \in Places
  BY DEF RInv, ReconcileOK
<1>3. /\ history' \in [quiet : BOOLEAN, rebuilt : BOOLEAN, raced : SUBSET Places, reconciles : Nat]
      /\ history'.quiet = history.quiet /\ history'.rebuilt = history.rebuilt
      /\ history.raced \subseteq history'.raced
      /\ (\E w \in Workers : pc[w] = "deleted" /\ at = <<P(w), 0>>) => at \in history'.raced
  BY <1>1, <1>2 DEF ReconcileOK
<1>4. QED
  BY <1>1, <1>3

(* The library's types, when reconcile writes the table. *)
LEMMA TableTypes ==
  ASSUME Types, Apart, DbOK',
         UNCHANGED <<file, child, posted, running, conf, hashes, queue, pc, job, k, outcome, log>>
  PROVE  Types' /\ Apart'
<1>1. running' \in BOOLEAN /\ conf' \in Configs
  BY Zenon DEF Types, RunOK
<1>2. RunOK'
  BY <1>1 DEF Types, RunOK
<1>3. Types'
  BY <1>2 DEF Types, DiskOK, WorkersOK, AtEntry, LogOK
<1>4. QED
  BY <1>3, AsideApart

LEMMA InsertFileRInv == ASSUME RInv, InsertFile PROVE RInv'
<1> DEFINE p == at[1]
<1>1. /\ rpc = "insert" /\ p \in Paths /\ at[2] = 0 /\ row' = [row EXCEPT ![p] = found]
      /\ UNCHANGED <<childRow, loose, linkRow>>
      /\ noted' = [noted EXCEPT ![p] = "parent"] \/ noted' = noted
      /\ Inserted
  BY Zenon DEF InsertFile
<1>2. /\ LibraryPart /\ Types /\ Apart /\ DbOK /\ ReconcileOK /\ Noted /\ Fresh
      /\ at \in Places /\ found \in Hashes \cup {Torn} /\ found # Nothing
  BY <1>1 DEF RInv, LibraryPart, Types, ReconcileOK, Fits
<1>3. p \in Paths /\ at = <<p, 0>> /\ at \in Cells /\ OnDisk(at) = file[p]
  <2>1. p \in Paths /\ at = <<p, 0>> /\ at \in Cells /\ p \notin Links
    BY <1>1, <1>2, PlaceTypes
  <2>2. QED
    BY <1>1, <2>1 DEF OnDisk
<1>4. /\ rpc' = "look" /\ at' = None /\ found' = Nothing
      /\ UNCHANGED <<file, child, posted, running, conf, hashes, queue, pc, job, k, outcome, log,
                     onDisk, expected, folder, folders, listed>>
      /\ history' \in [quiet : BOOLEAN, rebuilt : BOOLEAN, raced : SUBSET Places, reconciles : Nat]
      /\ history'.quiet = history.quiet /\ history'.rebuilt = history.rebuilt
      /\ history.raced \subseteq history'.raced
      /\ (\E w \in Workers : pc[w] = "deleted" /\ at = <<P(w), 0>>) => at \in history'.raced
  BY <1>1, InsertedDoes
<1>5. at \notin history'.raced => found = file[p]
  BY <1>1, <1>2, <1>3, <1>4 DEF Fresh
<1>6. \A l \in Places : RowOf(l)' = IF l = at THEN found ELSE RowOf(l)
  BY <1>1, <1>2, <1>3, WrittenRow
<1> HIDE DEF p
<1>7. row'[p] = found /\ \A q \in Paths \ {p} : row'[q] = row[q]
  BY <1>1, <1>2, <1>3 DEF DbOK
<1>8. Types' /\ Apart'
  <2>1. DbOK'
    BY <1>1, <1>2, <1>3 DEF DbOK
  <2>2. QED
    BY <1>2, <1>4, <2>1, TableTypes
<1>9. ReconcileOK' /\ Fresh'
  BY <1>1, <1>2, <1>3, <1>4 DEF ReconcileOK, Fresh
<1>10. Noted'
  BY <1>1, <1>2, <1>3, <1>7 DEF Noted, ReconcileOK
<1>11. \A w \in Workers : Stands(w)'
  <2> TAKE w \in Workers
  <2>1. Stands(w) /\ P(w)' = P(w) /\ H(w)' = H(w) /\ Entry(w)' = Entry(w)
    BY <1>2, <1>4 DEF LibraryPart, P, H, Entry
  <2>2. pc[w] # "free" => P(w) \in Paths
    BY <1>2, Busy DEF Types
  <2>3. pc[w] \in AfterSave => row'[P(w)] # Nothing /\ pc[w] # "free"
    BY <1>2, <1>7, <2>1, <2>2 DEF Stands, AfterSave
  <2>4. pc[w] \in AfterSave /\ <<P(w), 0>> \notin history'.raced => row'[P(w)] = H(w)
    BY <1>3, <1>4, <1>5, <1>7, <2>1, <2>2 DEF Stands, AfterSave
  <2>5. pc[w] = "deleted" /\ <<P(w), 0>> \notin history'.raced => row'[P(w)] = Nothing
    BY <1>3, <1>4, <1>7, <2>1, <2>2 DEF Stands
  <2>6. QED
    BY <1>4, <2>1, <2>3, <2>4, <2>5 DEF Stands
<1>12. ASSUME NEW q \in Paths PROVE Tells(q)'
  <2>1. Tells(q)
    BY <1>2 DEF LibraryPart
  <2>2. (\E w \in Workers : job[w] # NoItem /\ P(w) = q /\ pc[w] \in {"moving", "moved"}) =>
          \E w \in Workers : job'[w] # NoItem /\ P(w)' = q /\ pc'[w] \in {"moving", "moved"}
    BY <1>4 DEF P
  <2>3. CASE q = p
    BY <1>1, <1>3, <1>4, <1>5, <1>7, <2>1, <2>3 DEF Tells
  <2>4. CASE q # p
    BY <1>1, <1>4, <1>7, <2>1, <2>2, <2>4 DEF Tells
  <2>5. QED
    BY <2>3, <2>4
<1>13. \A q \in Paths : HasParent(q)'
  BY <1>1, <1>2, <1>7 DEF HasParent, LibraryPart
<1>14. Walk' /\ Rebuilt'
  BY <1>1, <1>2, <1>4, <1>6, InsertedWalk
<1>15. QED
  BY <1>8, <1>9, <1>10, <1>11, <1>12, <1>13, <1>14 DEF RInv, LibraryPart

LEMMA InsertEntryRInv == ASSUME RInv, InsertEntry PROVE RInv'
<1> DEFINE p == at[1]
           n == at[2]
<1>1. /\ rpc = "insert" /\ n # 0 /\ (IsEntry => noted[p] = "parent")
      /\ childRow' = [childRow EXCEPT ![p][n] = found]
      /\ loose' = IF IsEntry THEN loose \ {at} ELSE loose \cup {at}
      /\ UNCHANGED <<row, linkRow, noted>> /\ Inserted
  BY Zenon DEF InsertEntry
<1>2. /\ LibraryPart /\ Types /\ Apart /\ DbOK /\ ReconcileOK /\ Noted /\ Fresh
      /\ at \in Places /\ found \in Hashes /\ found # Nothing
  BY <1>1, Facts DEF RInv, LibraryPart, Types, ReconcileOK, Fits
<1>3. p \in Paths /\ n \in Slots /\ at = <<p, n>> /\ at \in Cells /\ OnDisk(at) = child[p][n]
  <2>1. p \in Paths /\ n \in Slots /\ at = <<p, n>> /\ at \in Cells /\ p \notin Links
    BY <1>1, <1>2, PlaceTypes
  <2>2. QED
    BY <1>1, <2>1 DEF OnDisk
<1>4. /\ rpc' = "look" /\ at' = None /\ found' = Nothing
      /\ UNCHANGED <<file, child, posted, running, conf, hashes, queue, pc, job, k, outcome, log,
                     onDisk, expected, folder, folders, listed>>
      /\ history' \in [quiet : BOOLEAN, rebuilt : BOOLEAN, raced : SUBSET Places, reconciles : Nat]
      /\ history'.quiet = history.quiet /\ history'.rebuilt = history.rebuilt
      /\ history.raced \subseteq history'.raced
  BY <1>1, InsertedDoes
<1>5. at \notin history'.raced => found = child[p][n]
  BY <1>1, <1>2, <1>3, <1>4 DEF Fresh
<1>6. \A l \in Places : RowOf(l)' = IF l = at THEN found ELSE RowOf(l)
  BY <1>1, <1>2, <1>3, WrittenRow
<1> HIDE DEF p, n
<1>7. /\ childRow'[p][n] = found /\ \A m \in Slots \ {n} : childRow'[p][m] = childRow[p][m]
      /\ \A q \in Paths \ {p} : childRow'[q] = childRow[q]
  BY <1>1, <1>2, <1>3 DEF DbOK
<1>8. loose' \subseteq Paths \X Slots /\ \A l \in Paths \X Slots : l # at /\ l \notin loose' => l \notin loose
  BY <1>1, <1>2, <1>3 DEF DbOK
<1>9. Types' /\ Apart'
  <2>1. DbOK'
    BY <1>1, <1>2, <1>3, <1>8 DEF DbOK
  <2>2. QED
    BY <1>2, <1>4, <2>1, TableTypes
<1>10. ReconcileOK' /\ Fresh'
  BY <1>1, <1>2, <1>4 DEF ReconcileOK, Fresh
<1>11. Noted'
  BY <1>1, <1>2 DEF Noted
<1>12. \A w \in Workers : Stands(w)'
  <2> TAKE w \in Workers
  <2>1. Stands(w) /\ P(w)' = P(w) /\ H(w)' = H(w) /\ Entry(w)' = Entry(w)
    BY <1>2, <1>4 DEF LibraryPart, P, H, Entry
  <2>2. QED
    BY <1>1, <1>4, <2>1 DEF Stands
<1>13. ASSUME NEW q \in Paths PROVE Tells(q)'
  <2>1. Tells(q)
    BY <1>2 DEF LibraryPart
  <2>2. (\E w \in Workers : job[w] # NoItem /\ P(w) = q /\ pc[w] \in {"moving", "moved"}) =>
          \E w \in Workers : job'[w] # NoItem /\ P(w)' = q /\ pc'[w] \in {"moving", "moved"}
    BY <1>4 DEF P
  <2>3. CASE q = p
    BY <1>1, <1>3, <1>4, <1>5, <1>7, <2>1, <2>2, <2>3 DEF Tells
  <2>4. CASE q # p
    BY <1>1, <1>4, <1>7, <2>1, <2>2, <2>4 DEF Tells
  <2>5. QED
    BY <2>3, <2>4
<1>14. ASSUME NEW q \in Paths PROVE HasParent(q)'
  <2>1. HasParent(q)
    BY <1>2 DEF LibraryPart
  <2>2. \A m \in Slots : <<q, m>> # at => (childRow'[q][m] = childRow[q][m] /\ (<<q, m>> \notin loose' => <<q, m>> \notin loose))
    BY <1>3, <1>7, <1>8
  <2>3. at \notin loose' => row[p] # Nothing
    BY <1>1, <1>2, <1>3 DEF Noted, p
  <2>4. QED
    BY <1>1, <1>3, <2>1, <2>2, <2>3 DEF HasParent
<1>15. Walk' /\ Rebuilt'
  BY <1>1, <1>2, <1>4, <1>6, InsertedWalk
<1>16. QED
  BY <1>9, <1>10, <1>11, <1>12, <1>13, <1>14, <1>15 DEF RInv, LibraryPart

(* The row of an external file. *)
LEMMA InsertLinkRInv == ASSUME RInv, InsertLink PROVE RInv'
<1> DEFINE x == at[1]
<1>1. /\ rpc = "insert" /\ x \in Links /\ linkRow' = [linkRow EXCEPT ![x] = "attachment"]
      /\ UNCHANGED <<row, childRow, loose, noted>> /\ Inserted
  BY Zenon DEF InsertLink
<1>2. /\ LibraryPart /\ Types /\ Apart /\ DbOK /\ ReconcileOK /\ Noted
      /\ at \in Places /\ found # Nothing
  BY <1>1 DEF RInv, LibraryPart, Types, ReconcileOK
<1>3. x \notin Paths /\ at = <<x, 0>>
  BY <1>1, <1>2, PlaceTypes
<1>4. /\ rpc' = "look" /\ at' = None /\ found' = Nothing
      /\ UNCHANGED <<file, child, posted, running, conf, hashes, queue, pc, job, k, outcome, log,
                     onDisk, expected, folder, folders, listed>>
      /\ history' \in [quiet : BOOLEAN, rebuilt : BOOLEAN, raced : SUBSET Places, reconciles : Nat]
      /\ history'.quiet = history.quiet /\ history'.rebuilt = history.rebuilt
      /\ history.raced \subseteq history'.raced
  BY <1>1, InsertedDoes
<1>5. LibraryPart'
  <2>1. DbOK'
    BY <1>1, <1>2 DEF DbOK
  <2>2. Types' /\ Apart'
    BY <1>2, <1>4, <2>1, TableTypes
  <2>3. \A v \in Workers : pc'[v] = pc[v] /\ P(v)' = P(v) /\ H(v)' = H(v) /\ Entry(v)' = Entry(v)
                           /\ k'[v] = k[v] /\ job'[v] = job[v]
    BY <1>4 DEF P, H, Entry
  <2>4. QED
    BY <1>1, <1>2, <1>4, <2>2, <2>3, AsidePart
<1>6. ReconcileOK' /\ Fresh' /\ Noted'
  BY <1>1, <1>2, <1>4 DEF ReconcileOK, Fresh, Noted
<1>7. ASSUME NEW l \in Places, l # at PROVE RowOf(l)' = RowOf(l)
  <2>1. l = <<l[1], l[2]>> /\ (l[1] \in Links => l[2] = 0)
    BY PlaceTypes
  <2>2. l[1] \in Links => l[1] # x /\ linkRow'[l[1]] = linkRow[l[1]]
    BY <1>1, <1>2, <1>3, <1>7, <2>1 DEF ReconcileOK
  <2>3. QED
    BY <1>1, <2>2 DEF RowOf
<1>8. (\A l \in Places : l = at => RowOf(l)' = x) /\ x # Nothing
  <2>1. linkRow'[x] = "attachment" /\ x # Nothing
    BY <1>1, <1>2, ReconcileAssumption DEF ReconcileOK
  <2>2. QED
    BY <1>1, <2>1 DEF RowOf
<1>9. found = OnDisk(at) => x = found
  BY <1>1, <1>2 DEF OnDisk
<1>10. Walk' /\ Rebuilt'
  BY <1>1, <1>4, <1>7, <1>8, <1>9, InsertedWalk
<1>11. QED
  BY <1>5, <1>6, <1>10 DEF RInv

(* A run at an external file: no walk is quiet then. *)
LEMMA LinkRInv == ASSUME RInv, NEW x \in Links, LinkStep(x) PROVE RInv'
<1>1. /\ UNCHANGED vars
      /\ UNCHANGED <<rpc, expected, folder, folders, listed, at, found, noted, history>>
      /\ onDisk' = onDisk \cup {x} \/ onDisk' = onDisk
      /\ linkRow' = [linkRow EXCEPT ![x] = "external"] \/ linkRow' = linkRow
      /\ running
  BY Zenon DEF LinkStep, rvars
<1>2. LibraryPart /\ ReconcileOK /\ Fresh /\ Noted
  BY DEF RInv
<1>3. ~history.quiet /\ ~history.rebuilt
  BY <1>1, WalkSays, RebuiltSays
<1>4. (history'.quiet <=> history.quiet) /\ (history'.rebuilt <=> history.rebuilt)
  BY <1>1, Zenon
<1>5. Walk' /\ Rebuilt'
  BY <1>3, <1>4, Zenon DEF Walk, Rebuilt
<1>6. LibraryPart'
  BY <1>1, <1>2, SamePart
<1>7. UNCHANGED <<file, child, row>>
  BY <1>1, Zenon DEF vars, disk, db
<1>8. ReconcileOK'
  <2>1. onDisk' \subseteq Links /\ linkRow' \in [Links -> {"none", "external", "attachment"}]
    BY <1>1, <1>2 DEF ReconcileOK
  <2>2. QED
    BY <1>1, <1>2, <2>1 DEF ReconcileOK, Fits
<1>9. Fresh'
  <2>1. at[1] \in Paths => at[1] \notin Links
    BY ReconcileAssumption
  <2>2. at[1] \in Paths => OnDisk(at)' = OnDisk(at)
    BY <1>1, <1>7, <2>1 DEF OnDisk
  <2>3. QED
    BY <1>1, <1>2, <2>2 DEF Fresh
<1>10. Noted'
  BY <1>1, <1>2, <1>7 DEF Noted
<1>11. QED
  BY <1>5, <1>6, <1>8, <1>9, <1>10 DEF RInv

LEMMA LoseRInv == ASSUME RInv, LoseDatabase PROVE RInv'
<1>1. /\ ~running /\ rpc = "off"
      /\ row' = [p \in Paths |-> Nothing]
      /\ childRow' = [p \in Paths |-> [n \in Slots |-> Nothing]]
      /\ loose' = {}
      /\ linkRow' = [x \in Links |-> "none"]
      /\ history' = [history EXCEPT !.rebuilt = FALSE]
      /\ UNCHANGED <<file, child, posted, running, conf, hashes, queue, pc, job, k, outcome, log,
                     onDisk, rpc, expected, folder, folders, listed, at, found, noted>>
  BY Zenon DEF LoseDatabase, disk, workers, others
<1>2. LibraryPart /\ Types /\ Apart /\ ReconcileOK
  BY DEF RInv, LibraryPart
<1>3. \A w \in Workers : pc[w] = "free"
  BY <1>1, <1>2, Zenon DEF Types, WorkersOK
<1>4. Types' /\ Apart'
  <2>1. DbOK'
    BY <1>1 DEF DbOK
  <2>2. QED
    BY <1>1, <1>2, <2>1, TableTypes
<1>5. (\A w \in Workers : Stands(w)') /\ (\A p \in Paths : Tells(p)') /\ (\A p \in Paths : HasParent(p)')
  BY <1>1, <1>3 DEF Stands, Tells, HasParent, AfterSave
<1>6. /\ history' \in [quiet : BOOLEAN, rebuilt : BOOLEAN, raced : SUBSET Places, reconciles : Nat]
      /\ history'.rebuilt = FALSE
  BY <1>1, <1>2 DEF ReconcileOK
<1>7. ReconcileOK' /\ Fresh' /\ Noted'
  BY <1>1, <1>2, <1>6 DEF ReconcileOK, Fresh, Noted
<1>8. \A l \in Places : RowOf(l)' = Nothing
  <2> TAKE l \in Places
  <2>1. CASE l[1] \in Links
    BY <1>1, <2>1 DEF RowOf
  <2>2. CASE l[1] \notin Links
    <3>1. l[1] \in Paths /\ (l[2] # 0 => l[2] \in Slots)
      BY <2>2, PlaceTypes
    <3>2. QED
      BY <1>1, <2>2, <3>1 DEF RowOf
  <2>3. QED
    BY <2>1, <2>2
<1>9. Walk'
  BY <1>1, <1>8 DEF Walk, Agrees
<1>10. Rebuilt'
  BY <1>6, Zenon DEF Rebuilt
<1>11. QED
  BY <1>4, <1>5, <1>7, <1>9, <1>10 DEF RInv, LibraryPart

-----------------------------------------------------------------------------
LEMMA NextRInv == RInv /\ [RNext]_all => RInv'
<1> SUFFICES ASSUME RInv, [RNext]_all PROVE RInv'
  OBVIOUS
<1>1. CASE ReconcileStep
  <2>1. CASE InsertRefused
    BY <2>1, RefusedRInv DEF InsertRefused, others
  <2>2. QED
    BY <1>1, <2>1, StartRInv, ListRInv, LookUpRInv, HashRInv, InsertFileRInv, InsertLinkRInv,
       InsertEntryRInv, NextFolderRInv, EndRInv DEF ReconcileStep
<1>2. CASE LoseDatabase
  BY <1>2, LoseRInv
<1>3. CASE LibraryStep
  BY <1>3, LibraryRInv
<1>4. CASE UNCHANGED all
  <2>1. /\ UNCHANGED vars /\ UNCHANGED <<onDisk, linkRow>>
        /\ UNCHANGED <<rpc, expected, folder, folders, listed, at, found, noted, history>>
    BY <1>4 DEF all, rvars, others
  <2>2. LibraryPart'
    BY <2>1, SamePart DEF RInv
  <2>3. ReconcileOK' /\ Fresh' /\ Noted'
    BY <2>1, SamePlaces DEF RInv, ReconcileOK, Fits, Fresh, Noted, OnDisk
  <2>4. ASSUME history.quiet PROVE Walk'
    <3>1. \A l \in Places : Ahead(l) <=> Ahead(l)'
      BY <2>1 DEF Ahead
    <3>2. rpc = "insert" => OnDisk(at)' = OnDisk(at)
      BY <2>1, SamePlaces DEF OnDisk
    <3>3. QED
      BY <2>1, <2>4, <3>1, <3>2, WalkSays, SamePlaces DEF Walk
  <2>5. ASSUME history.rebuilt PROVE Rebuilt'
    BY <2>1, <2>5, RebuiltSays, SamePlaces DEF Rebuilt
  <2>6. (history'.quiet <=> history.quiet) /\ (history'.rebuilt <=> history.rebuilt)
    BY <2>1, Zenon
  <2>7. QED
    BY <2>2, <2>3, <2>4, <2>5, <2>6, Zenon DEF RInv, Walk, Rebuilt
<1>5. CASE \E x \in Links : LinkStep(x)
  BY <1>5, LinkRInv
<1>6. QED
  BY <1>1, <1>2, <1>3, <1>4, <1>5 DEF RNext

LEMMA InitRInv == Init /\ RInit => RInv
<1> SUFFICES ASSUME Init, RInit PROVE RInv
  OBVIOUS
<1>1. Types
  BY InitTypes
<1>2. /\ queue = {} /\ running = FALSE /\ row = [p \in Paths |-> Nothing]
      /\ childRow = [p \in Paths |-> [n \in Slots |-> Nothing]]
      /\ \A w \in Workers : pc[w] = "free"
  BY DEF Init
<1>3. Apart
  BY <1>2 DEF Apart
<1>4. (\A w \in Workers : Stands(w)) /\ (\A p \in Paths : Tells(p)) /\ (\A p \in Paths : HasParent(p))
  BY <1>2 DEF Stands, Tells, HasParent, AfterSave
<1>5. /\ rpc = "off" /\ expected = {} /\ folder = Top /\ folders = {} /\ listed = {}
      /\ at = None /\ found = Nothing /\ noted = [p \in Paths |-> "no"]
      /\ history = [quiet |-> FALSE, rebuilt |-> FALSE, raced |-> {}, reconciles |-> 0]
      /\ linkRow = [x \in Links |-> "none"] /\ onDisk = {}
  BY DEF RInit, HistoryInit
<1>6. ReconcileOK /\ Fresh /\ Noted
  BY <1>5 DEF ReconcileOK, Fresh, Noted
<1>7. history.quiet = FALSE /\ history.rebuilt = FALSE
  BY <1>5
<1>8. Walk /\ Rebuilt
  BY <1>7, Zenon DEF Walk, Rebuilt
<1>9. QED
  BY <1>1, <1>3, <1>4, <1>6, <1>8 DEF RInv, LibraryPart

(* The invariant of the two together. *)
LEMMA ReconcileInvariant == RSpec => []RInv
  BY InitRInv, NextRInv, PTL DEF RSpec

-----------------------------------------------------------------------------
(* The library keeps its types with reconcile beside it: insert_file only  *)
(* ever gets a hash of what was on disk.                                   *)
THEOREM TypesBeside == RSpec => []TypeOK
<1>1. RInv => TypeOK
  BY TypesAreOK DEF RInv, LibraryPart
<1>2. QED
  BY <1>1, ReconcileInvariant, PTL

(* Every row tells what is at its path, whatever reconcile, which looks a  *)
(* path up, hashes and inserts in three steps, and a run do at once, with  *)
(* the named exceptions.                                                   *)
THEOREM RowsTell == RSpec => []RowsTellTheDisk
<1>1. RInv => RowsTellTheDisk
  BY DEF RInv, LibraryPart, Tells, RowsTellTheDisk
<1>2. QED
  BY <1>1, ReconcileInvariant, PTL

(* The foreign key holds: an entry with a parent_archive_id has the row of *)
(* its archive, through deletes of failed archives and late inserts.       *)
THEOREM ParentsStay == RSpec => []EntriesHaveParent
<1>1. RInv => EntriesHaveParent
  BY DEF RInv, LibraryPart, HasParent, EntriesHaveParent
<1>2. QED
  BY <1>1, ReconcileInvariant, PTL

(* What begins a run. *)
LEMMA RunBegins ==
  ASSUME RInv, [RNext]_all, ~running, running'
  PROVE  LibraryStep /\ \E c \in Configs : StartRun(c)
<1>1. ~UNCHANGED running
  BY Zenon
<1>2. ~ReconcileStep /\ ~LoseDatabase /\ ~UNCHANGED all
  BY <1>1, Zenon DEF ReconcileStep, Start, ListFolder, LookUp, Hash, InsertFile, InsertLink,
     InsertEntry, InsertRefused, Inserted, NextFolder, End, LoseDatabase, all, vars
<1>3. \A x \in Links : ~LinkStep(x)
  BY <1>1, Zenon DEF LinkStep
<1>4. LibraryStep
  BY <1>2, <1>3, Zenon DEF RNext
<1>5. Next /\ Types /\ Apart
  BY <1>4, Zenon DEF LibraryStep, RInv, LibraryPart
<1>6. \A w \in Workers : ~Working(w)
  <2>1. ASSUME NEW w \in Workers, Working(w) PROVE FALSE
    <3>1. UNCHANGED running
      BY <1>5, <2>1, WorkingFrame DEF Others
    <3>2. QED
      BY <1>1, <3>1, Zenon
  <2>2. QED
    BY <2>1
<1>7. ~UNCHANGED vars
  BY <1>1, Zenon DEF vars
<1>8. ~EndRun /\ ~Crash
  BY Zenon DEF EndRun, Crash
<1>9. \A S \in Posts : ~Edit(S)
  BY <1>1, Zenon DEF Edit
<1>10. \A w \in Workers, j \in Items : ~Fetch(w, j) /\ ~FetchFails(w, j)
  BY <1>1, Zenon DEF Fetch, FetchFails
<1>11. QED
  BY <1>4, <1>5, <1>6, <1>7, <1>8, <1>9, <1>10, NextCases, Zenon

(* After a reconcile that went through while no run did, over a table of   *)
(* which no row was of another content than its place, the next run queues *)
(* nothing that is on disk, in whatever file, with two exceptions: an      *)
(* external file that has its row from reconcile, which is of the type     *)
(* "attachment", and an entry that was left with its number only.          *)
THEOREM NothingTwice == RSpec => NothingRedownloaded
<1>1. ASSUME RInv, [RNext]_all, history.rebuilt, ~running, running',
             NEW i \in queue', NEW l \in Places
      PROVE  OnDisk(l) # HashOf[i]
  <2>1. PICK c \in Configs : StartRun(c)
    BY <1>1, RunBegins
  <2>2. queue' = New
    BY <2>1, Zenon DEF StartRun
  <2>3. /\ DbOK /\ posted \subseteq Items
    BY <1>1 DEF RInv, LibraryPart, Types, RunOK, Posts
  <2>4. i \in Items /\ HashOf[i] \in Hashes /\ HashOf[i] \notin Recorded /\ HashOf[i] # Nothing
    BY <2>2, <2>3, Facts DEF New
  <2>5. OnDisk(l) # Nothing => RowOf(l) = OnDisk(l)
    BY <1>1, RebuiltSays
  <2>6. CASE l[1] \in Paths
    <3>1. l \in Cells /\ RowOf(l) = HashOfRow(l)
      BY <2>6, PlaceTypes, CellPlaces
    <3>2. RowOf(l) = HashOf[i] => HashOf[i] \in Recorded
      BY <2>3, <2>4, <3>1, RecordedCells
    <3>3. QED
      BY <2>4, <2>5, <3>2
  <2>7. CASE l[1] \notin Paths
    <3>1. l[1] \in Links /\ OnDisk(l) \in {l[1], Nothing}
      BY <2>7, PlaceTypes DEF OnDisk
    <3>2. l[1] \notin Hashes
      BY <3>1, ReconcileAssumption
    <3>3. QED
      BY <2>4, <3>1, <3>2
  <2>8. QED
    BY <2>6, <2>7
<1>2. ASSUME RInv, [RNext]_all, history.rebuilt, ~running, running',
             NEW x \in onDisk, link'[x] = "queued"
      PROVE  linkRow[x] = "attachment"
  <2>1. LibraryStep /\ ~(running' <=> running)
    BY <1>2, RunBegins, Zenon
  <2>2. link' = [y \in Links |-> IF running' /\ y \notin KnownLinks THEN "queued" ELSE "none"]
    BY <2>1, Zenon DEF LibraryStep
  <2>3. x \in Links
    BY <1>2 DEF RInv, ReconcileOK
  <2>4. x \notin KnownLinks
    BY <1>2, <2>2, <2>3
  <2>5. OnDisk(<<x, 0>>) = x /\ x # Nothing /\ <<x, 0>> \in Places
    BY <1>2, <2>3, ReconcileAssumption DEF OnDisk, Places
  <2>6. RowOf(<<x, 0>>) = x
    BY <1>2, <2>5, RebuiltSays
  <2>7. linkRow[x] # "none"
    BY <2>3, <2>5, <2>6 DEF RowOf
  <2>8. QED
    BY <1>2, <2>3, <2>4, <2>7 DEF RInv, ReconcileOK, KnownLinks
<1>3. RInv /\ [RNext]_all =>
        [history.rebuilt /\ ~running /\ running' =>
           /\ \A i \in queue' : \A l \in Places : OnDisk(l) # HashOf[i]
           /\ \A x \in onDisk : link'[x] = "queued" => linkRow[x] = "attachment"]_all
  BY <1>1, <1>2, Zenon
<1>4. QED
  BY <1>3, ReconcileInvariant, PTL DEF RSpec, NothingRedownloaded
=============================================================================
