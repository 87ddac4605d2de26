--------------------------- MODULE MirrorPool_proofs ---------------------------
(* Proofs about MirrorPool, for any creators, files and number of workers. *)
EXTENDS MirrorPool, FiniteSetTheorems, TLAPS

(* Outside of the pool's `with` block no file is queued and no worker runs. *)
PoolClosed ==
  phase \in {"begin", "probe"} => queue = <<>> /\ \A w \in Workers : pc[w] = "free"

(* Inside of it the queue and the workers have files of this creator.      *)
WorkOfBatch ==
  phase \in {"pool", "unwinding"} =>
    /\ Range(queue) \subseteq Range(Batch)
    /\ \A w \in Workers : pc[w] # "free" => held[w] \in Range(Batch)

ProbeHasFile == phase = "probe" => Batch # <<>>

(* A creator's files have no outcome before its pool is open. *)
Untouched ==
  \A c \in DOMAIN Batches :
    c > creator \/ (c = creator /\ phase \in {"begin", "probe"}) =>
      \A i \in DOMAIN Batches[c] : outcome[Batches[c][i]] = "none"

(* ... and, but for the probe, were not requested. *)
Unsent ==
  \A c \in DOMAIN Batches : \A i \in DOMAIN Batches[c] :
    c > creator \/ (c = creator /\ (phase = "begin" \/ (phase = "probe" /\ i > 1))) =>
      sends[Batches[c][i]] = 0

(* After a blocked probe the flag stays set, and no worker gets past it.   *)
ProbeStopped ==
  phase \in {"pool", "unwinding"} /\ probe = "blocked" =>
    /\ blocked /\ Batch # <<>>
    /\ \A w \in Workers : pc[w] \in {"free", "taken"}
    /\ \A i \in DOMAIN Batch : i > 1 => sends[Batch[i]] = 0

Passed == {w \in Workers : pc[w] = "passed"}

(* The workers that are past the check when the flag is set are the only   *)
(* source of late starts, and the one that sets it is not one of them.     *)
LateCounted ==
  /\ IsFiniteSet(late)
  /\ ~blocked => late = {}
  /\ phase = "probe" => late = {}
  /\ blocked => Cardinality(late) + Cardinality(Passed) <= Cardinality(Workers) - 1

Shape == TypeOK /\ PoolClosed /\ WorkOfBatch /\ ProbeHasFile
IInv == Shape /\ Untouched /\ BlockIsRemembered /\ Unsent /\ ProbeStopped /\ LateCounted

-----------------------------------------------------------------------------
(* A creator's files. *)
LEMMA BatchFiles ==
  ASSUME TypeOK, Running
  PROVE  /\ creator \in DOMAIN Batches /\ creator \in 1..Len(Batches) /\ Len(Batches) \in Nat
         /\ Batch \in Seq(Files)
         /\ \A i \in DOMAIN Batch : Batch[i] \in Files
         /\ Range(Batch) \subseteq Files
  BY PoolAssumption DEF TypeOK, Running, Batch, Range

(* The head and the tail of a sequence that is not empty. *)
LEMMA HeadAndTail ==
  ASSUME NEW S, NEW s \in Seq(S), s # <<>>
  PROVE  /\ 1 \in DOMAIN s /\ Head(s) = s[1] /\ Head(s) \in S /\ Head(s) \in Range(s)
         /\ Tail(s) \in Seq(S)
         /\ \A i \in DOMAIN Tail(s) : i + 1 \in DOMAIN s /\ i + 1 > 1 /\ Tail(s)[i] = s[i + 1]
         /\ Range(Tail(s)) \subseteq Range(s)
<1>1. /\ Len(s) \in Nat /\ Len(s) > 0 /\ DOMAIN s = 1..Len(s)
      /\ Head(s) = s[1] /\ Tail(s) \in Seq(S) /\ DOMAIN Tail(s) = 1..(Len(s) - 1)
      /\ \A i \in 1..(Len(s) - 1) : Tail(s)[i] = s[i + 1]
  OBVIOUS
<1>2. 1 \in DOMAIN s /\ \A i \in DOMAIN s : s[i] \in S
  BY <1>1
<1>3. \A i \in DOMAIN Tail(s) : i + 1 \in DOMAIN s /\ i + 1 > 1 /\ Tail(s)[i] = s[i + 1]
  BY <1>1
<1>4. QED
  BY <1>1, <1>2, <1>3 DEF Range

(* No file belongs to two creators, and none to one twice. *)
LEMMA FilesDistinct ==
  ASSUME NEW c \in DOMAIN Batches, NEW d \in DOMAIN Batches,
         NEW i \in DOMAIN Batches[c], NEW j \in DOMAIN Batches[d],
         Batches[c][i] = Batches[d][j]
  PROVE  c = d /\ i = j
  BY PoolAssumption

(* A worker that is not free runs in the open pool and holds a file of it. *)
LEMMA BusyHolds ==
  ASSUME Shape, NEW w \in Workers, pc[w] # "free"
  PROVE  Running /\ phase \in {"pool", "unwinding"} /\ held[w] \in Range(Batch) /\ held[w] \in Files
<1>1. phase \in {"pool", "unwinding"} /\ Running
  BY DEF Shape, TypeOK, PoolClosed
<1>2. held[w] \in Range(Batch)
  BY <1>1 DEF Shape, WorkOfBatch
<1>3. QED
  BY <1>1, <1>2, BatchFiles DEF Shape

-----------------------------------------------------------------------------
LEMMA InitIInv == Init => IInv
<1> SUFFICES ASSUME Init PROVE IInv
  OBVIOUS
<1>1. blocked \in BOOLEAN /\ hostBlocks \in BOOLEAN /\ ~blocked
  <2>1. blocked = FALSE
    BY DEF Init
  <2>2. QED
    BY <2>1, Zenon DEF Init
<1>2. TypeOK
  BY <1>1, PoolAssumption DEF Init, TypeOK, Answers
<1>3. PoolClosed /\ WorkOfBatch /\ ProbeHasFile /\ ProbeStopped
  BY DEF Init, PoolClosed, WorkOfBatch, ProbeHasFile, ProbeStopped
<1>4. Untouched /\ Unsent
  BY PoolAssumption DEF Init, Untouched, Unsent
<1>5. BlockIsRemembered
  <2> SUFFICES ASSUME Running, NEW f \in Range(Batch) PROVE outcome[f] # "blocked"
    BY DEF BlockIsRemembered
  <2>1. f \in Files
    BY <1>2, BatchFiles
  <2>2. QED
    BY <2>1 DEF Init
<1>6. LateCounted
  <2>1. late = {} /\ IsFiniteSet(late)
    BY FS_EmptySet DEF Init
  <2>2. QED
    BY <1>1, <2>1 DEF LateCounted
<1>7. QED
  BY <1>2, <1>3, <1>4, <1>5, <1>6 DEF IInv, Shape

(* main records a creator and goes on to the next one. *)
LEMMA EndCreatorType ==
  ASSUME TypeOK, Running, NEW s \in {"completed", "failed"}, EndCreator(s)
  PROVE  /\ creator' = creator + 1 /\ creator' \in 1..(Len(Batches) + 1)
         /\ phase' = "begin" /\ results' = {}
         /\ summary' \in [DOMAIN Batches -> {"none", "completed", "failed"}]
<1>1. Len(Batches) \in Nat /\ DOMAIN Batches = 1..Len(Batches)
  BY PoolAssumption
<1>2. creator \in 1..Len(Batches)
  BY <1>1 DEF TypeOK, Running
<1>3. QED
  BY <1>1, <1>2 DEF TypeOK, EndCreator

(* The main thread's steps keep the variables in their types. *)
LEMMA MainTypeOK == ASSUME Shape, MainStep PROVE TypeOK'
<1> USE DEF TypeOK
<1>0. TypeOK /\ PoolAssumption
  BY PoolAssumption DEF Shape
<1>1. CASE OpenPool
  <2>1. queue' \in Seq(Files) /\ Running'
    <3>1. Running /\ queue' = Batch /\ UNCHANGED creator
      BY <1>1 DEF OpenPool
    <3>2. Batch \in Seq(Files)
      BY <1>0, <3>1, BatchFiles
    <3>3. QED
      BY <3>1, <3>2 DEF Running
  <2>2. QED
    BY <1>0, <1>1, <2>1 DEF OpenPool, host, Answers
<1>2. CASE StartProbe
  <2>1. sends' \in [Files -> Nat] /\ Running'
    <3>1. /\ Running /\ Batch # <<>> /\ UNCHANGED creator
          /\ sends' = [sends EXCEPT ![Head(Batch)] = @ + 1]
      BY <1>2, Zenon DEF StartProbe
    <3>2. Head(Batch) \in Files
      BY <1>0, <3>1, BatchFiles, HeadAndTail
    <3>3. sends \in [Files -> Nat]
      BY <1>0
    <3>4. QED
      BY <3>1, <3>2, <3>3 DEF Running
  <2>2. QED
    BY <1>0, <1>2, <2>1 DEF StartProbe, host, worker
<1>3. ASSUME NEW a \in Answers, EndProbe(a) PROVE TypeOK'
  <2>1. Running /\ Batch # <<>>
    BY <1>0, <1>3 DEF EndProbe, Shape, ProbeHasFile
  <2>2. /\ queue' \in Seq(Files) /\ results' \subseteq Files /\ Running'
    BY <1>0, <1>3, <2>1, BatchFiles, HeadAndTail DEF EndProbe, Running
  <2>3. blocked' \in BOOLEAN
    BY <1>3, Zenon DEF EndProbe
  <2>4. outcome' \in [Files -> Answers \cup {"none"}] /\ probe' \in Answers \cup {"none"}
    BY <1>0, <1>3 DEF EndProbe
  <2>5. QED
    BY <1>0, <1>3, <2>2, <2>3, <2>4 DEF EndProbe, host
<1>4. CASE ProbeRaises
  <2>1. Running /\ EndCreator("failed")
    BY <1>0, <1>4 DEF ProbeRaises
  <2>2. outcome' \in [Files -> Answers \cup {"none"}]
    BY <1>0, <1>4 DEF ProbeRaises, Answers
  <2>3. QED
    BY <1>0, <1>4, <2>1, <2>2, EndCreatorType DEF ProbeRaises, host, worker
<1>5. ASSUME NEW f \in Files, Collect(f) \/ CollectRaises(f) PROVE TypeOK'
  <2>1. Running /\ Running'
    BY <1>0, <1>5 DEF Collect, CollectRaises, Running
  <2>2. QED
    BY <1>0, <1>5, <2>1 DEF Collect, CollectRaises, host, worker
<1>6. CASE Complete \/ Abort
  <2>1. Running /\ (EndCreator("completed") \/ EndCreator("failed"))
    BY <1>0, <1>6 DEF Complete, Abort
  <2>2. QED
    BY <1>0, <1>6, <2>1, EndCreatorType DEF Complete, Abort, host, worker
<1>7. QED
  BY <1>1, <1>2, <1>3, <1>4, <1>5, <1>6 DEF MainStep, EndProbes

(* ... and so do a worker's. *)
LEMMA WorkerTypeOK == ASSUME Shape, NEW w \in Workers, WorkerStep(w) PROVE TypeOK'
<1> USE DEF TypeOK
<1>0. TypeOK /\ (Running' <=> Running)
  BY DEF Shape, WorkerStep, Take, Refuse, Pass, Start, End, Mark, main, Running
<1>1. CASE Take(w)
  <2>1. Head(queue) \in Files /\ Tail(queue) \in Seq(Files)
    BY <1>0, <1>1, HeadAndTail DEF Take
  <2>2. QED
    BY <1>0, <1>1, <2>1 DEF Take, host, main
<1>2. ASSUME NEW o \in Answers \cup {"none"}, Finish(w, o)
      PROVE  /\ outcome' \in [Files -> Answers \cup {"none"}]
             /\ held' \in [Workers -> Files \cup {NoFile}]
             /\ answer' \in [Workers -> Answers \cup {"none"}]
             /\ pc' \in [Workers -> {"free", "taken", "passed", "downloading", "ended"}]
  BY <1>0, <1>2 DEF Finish
<1>3. CASE Refuse(w)
  <2>1. "blocked" \in Answers /\ Finish(w, "blocked")
    BY <1>3 DEF Refuse, Answers
  <2>2. QED
    BY <1>0, <1>2, <1>3, <2>1 DEF Refuse, host, main
<1>4. CASE Pass(w)
  BY <1>0, <1>4 DEF Pass, host, main
<1>5. CASE Start(w)
  <2>1. held[w] \in Files
    BY <1>5, BusyHolds DEF Start
  <2>2. late' \subseteq Files
    BY <1>0, <1>5, <2>1 DEF Start
  <2>3. sends' \in [Files -> Nat]
    BY <1>0, <1>5, <2>1 DEF Start
  <2>4. QED
    BY <1>0, <1>5, <2>2, <2>3 DEF Start, host, main
<1>6. ASSUME NEW a \in Answers, End(w, a) PROVE TypeOK'
  BY <1>0, <1>6 DEF End, host, main
<1>7. CASE Mark(w)
  <2>1. blocked' \in BOOLEAN
    BY <1>7, Zenon DEF Mark
  <2>2. answer[w] \in Answers \cup {"none"} /\ Finish(w, answer[w])
    BY <1>0, <1>7 DEF Mark
  <2>3. QED
    BY <1>0, <1>2, <1>7, <2>1, <2>2 DEF Mark, host, main
<1>8. QED
  BY <1>1, <1>3, <1>4, <1>5, <1>6, <1>7 DEF WorkerStep

-----------------------------------------------------------------------------
(* What a step of a worker can change, and what it leaves alone. *)
LEMMA WorkerFrame ==
  ASSUME Shape, NEW w \in Workers, WorkerStep(w)
  PROVE  /\ Running /\ phase \in {"pool", "unwinding"} /\ UNCHANGED <<creator, phase, probe>>
         /\ \A f \in Files : outcome'[f] = outcome[f] \/ (pc[w] # "free" /\ f = held[w])
         /\ \A f \in Files : sends'[f] = sends[f] \/ (pc[w] = "passed" /\ f = held[w])
         /\ \A u \in Workers : u # w => pc'[u] = pc[u] /\ held'[u] = held[u]
<1>0. TypeOK
  BY DEF Shape
<1>1. /\ pc \in [Workers -> {"free", "taken", "passed", "downloading", "ended"}]
      /\ held \in [Workers -> Files \cup {NoFile}]
      /\ outcome \in [Files -> Answers \cup {"none"}] /\ sends \in [Files -> Nat]
  BY <1>0 DEF TypeOK
<1>2. pc[w] # "free" \/ queue # <<>>
  BY DEF WorkerStep, Take, Refuse, Pass, Start, End, Mark
<1>3. Running /\ phase \in {"pool", "unwinding"}
  BY <1>0, <1>2 DEF Shape, PoolClosed, TypeOK
<1>4. CASE Take(w)
  <2>1. /\ UNCHANGED <<creator, phase, probe, outcome, sends>>
        /\ held' = [held EXCEPT ![w] = Head(queue)] /\ pc' = [pc EXCEPT ![w] = "taken"]
    BY <1>4, Zenon DEF Take, main
  <2>2. QED
    BY <1>1, <1>3, <2>1
<1>5. CASE Refuse(w)
  <2>1. /\ UNCHANGED <<creator, phase, probe, sends>> /\ pc[w] = "taken"
        /\ outcome' = [outcome EXCEPT ![held[w]] = "blocked"]
        /\ held' = [held EXCEPT ![w] = NoFile] /\ pc' = [pc EXCEPT ![w] = "free"]
    BY <1>5, Zenon DEF Refuse, Finish, main
  <2>2. QED
    BY <1>1, <1>3, <2>1
<1>6. CASE Pass(w)
  <2>1. /\ UNCHANGED <<creator, phase, probe, outcome, sends, held>>
        /\ pc' = [pc EXCEPT ![w] = "passed"]
    BY <1>6, Zenon DEF Pass, main
  <2>2. QED
    BY <1>1, <1>3, <2>1
<1>7. CASE Start(w)
  <2>1. /\ UNCHANGED <<creator, phase, probe, outcome, held>> /\ pc[w] = "passed"
        /\ sends' = [sends EXCEPT ![held[w]] = @ + 1] /\ pc' = [pc EXCEPT ![w] = "downloading"]
    BY <1>7, Zenon DEF Start, main
  <2>2. QED
    BY <1>1, <1>3, <2>1
<1>8. ASSUME NEW a \in Answers, End(w, a)
      PROVE  /\ UNCHANGED <<creator, phase, probe, outcome, sends, held>>
             /\ pc' = [pc EXCEPT ![w] = "ended"]
  BY <1>8, Zenon DEF End, main
<1>9. CASE Mark(w)
  <2>1. /\ UNCHANGED <<creator, phase, probe, sends>> /\ pc[w] = "ended"
        /\ outcome' = [outcome EXCEPT ![held[w]] = answer[w]]
        /\ held' = [held EXCEPT ![w] = NoFile] /\ pc' = [pc EXCEPT ![w] = "free"]
    BY <1>9, Zenon DEF Mark, Finish, main
  <2>2. QED
    BY <1>1, <1>3, <2>1
<1>10. CASE \E a \in Answers : End(w, a)
  BY <1>1, <1>3, <1>8, <1>10
<1>11. QED
  BY <1>4, <1>5, <1>6, <1>7, <1>9, <1>10, Zenon DEF WorkerStep

(* The flag over a worker's step: it is never cleared, it is set before a  *)
(* file has failed as blocked, and it holds back the next download.        *)
LEMMA WorkerFlag ==
  ASSUME Shape, NEW w \in Workers, WorkerStep(w)
  PROVE  /\ blocked => blocked'
         /\ \A f \in Files : outcome'[f] = "blocked" => outcome[f] = "blocked" \/ blocked'
         /\ blocked /\ pc[w] \in {"free", "taken"} => pc'[w] \in {"free", "taken"}
<1>1. /\ pc \in [Workers -> {"free", "taken", "passed", "downloading", "ended"}]
      /\ outcome \in [Files -> Answers \cup {"none"}]
  BY DEF Shape, TypeOK
<1>2. CASE Take(w)
  <2>1. pc'[w] = "taken" /\ UNCHANGED <<blocked, outcome>>
    BY <1>1, <1>2 DEF Take
  <2>2. QED
    BY <2>1, Zenon
<1>3. CASE Refuse(w)
  <2>1. pc'[w] = "free"
    BY <1>1, <1>3 DEF Refuse, Finish
  <2>2. blocked /\ UNCHANGED blocked
    BY <1>3, Zenon DEF Refuse
  <2>3. QED
    BY <2>1, <2>2, Zenon
<1>4. CASE Pass(w)
  <2>1. ~blocked /\ UNCHANGED outcome
    BY <1>4, Zenon DEF Pass
  <2>2. QED
    BY <2>1, Zenon
<1>5. CASE Start(w) \/ \E a \in Answers : End(w, a)
  <2>1. UNCHANGED <<blocked, outcome>> /\ pc[w] \notin {"free", "taken"}
    BY <1>5 DEF Start, End
  <2>2. QED
    BY <2>1, Zenon
<1>6. CASE Mark(w)
  <2>1. (blocked => blocked') /\ (answer[w] = "blocked" => blocked')
    BY <1>6, Zenon DEF Mark
  <2>2. /\ pc[w] \notin {"free", "taken"}
        /\ \A f \in Files : outcome'[f] = "blocked" => outcome[f] = "blocked" \/ answer[w] = "blocked"
    BY <1>1, <1>6 DEF Mark, Finish
  <2>3. QED
    BY <2>1, <2>2, Zenon
<1>7. QED
  BY <1>2, <1>3, <1>4, <1>5, <1>6, Zenon DEF WorkerStep

(* The pool's files and its being closed, over a worker's step. *)
LEMMA WorkerShape ==
  ASSUME Shape, NEW w \in Workers, WorkerStep(w)
  PROVE  Shape'
<1>1. TypeOK'
  BY WorkerTypeOK
<1>2. /\ TypeOK /\ Running /\ phase \in {"pool", "unwinding"} /\ UNCHANGED <<creator, phase>>
      /\ \A u \in Workers : u # w => pc'[u] = pc[u] /\ held'[u] = held[u]
  BY WorkerFrame DEF Shape
<1>3. PoolClosed' /\ ProbeHasFile'
  BY <1>2 DEF PoolClosed, ProbeHasFile
<1>4. Range(queue) \subseteq Range(Batch) /\ \A u \in Workers : pc[u] # "free" => held[u] \in Range(Batch)
  BY <1>2 DEF Shape, WorkOfBatch
<1>5. CASE Take(w)
  <2>1. queue \in Seq(Files) /\ queue # <<>> /\ held \in [Workers -> Files \cup {NoFile}]
    BY <1>2, <1>5 DEF Take, TypeOK
  <2>2. Head(queue) \in Range(queue) /\ Range(Tail(queue)) \subseteq Range(queue)
    BY <2>1, HeadAndTail
  <2>3. queue' = Tail(queue) /\ held'[w] = Head(queue)
    BY <1>5, <2>1 DEF Take
  <2>4. QED
    BY <1>1, <1>2, <1>3, <1>4, <2>2, <2>3 DEF Shape, WorkOfBatch, Batch
<1>6. CASE ~Take(w)
  <2>1. queue' = queue /\ pc[w] # "free"
    BY <1>6 DEF WorkerStep, Refuse, Pass, Start, End, Mark
  <2>2. pc'[w] = "free" \/ held'[w] = held[w]
    BY <1>2, <1>6 DEF TypeOK, WorkerStep, Refuse, Pass, Start, End, Mark, Finish
  <2>3. QED
    BY <1>1, <1>2, <1>3, <1>4, <2>1, <2>2 DEF Shape, WorkOfBatch, Batch
<1>7. QED
  BY <1>5, <1>6

(* ... and over the main thread's. *)
LEMMA MainShape == ASSUME Shape, MainStep PROVE Shape'
<1>1. TypeOK' /\ TypeOK
  BY MainTypeOK DEF Shape
<1>2. CASE OpenPool
  <2>1. /\ phase = "begin" /\ phase' = "pool" /\ queue' = Batch
        /\ UNCHANGED <<creator, pc, held>>
    BY <1>2 DEF OpenPool
  <2>2. \A w \in Workers : pc[w] = "free"
    BY <2>1 DEF Shape, PoolClosed
  <2>3. QED
    BY <1>1, <2>1, <2>2 DEF Shape, PoolClosed, WorkOfBatch, ProbeHasFile, Batch
<1>3. CASE StartProbe
  <2>1. /\ phase = "begin" /\ phase' = "probe" /\ Batch # <<>>
        /\ UNCHANGED <<creator, queue, pc, held>>
    BY <1>3, Zenon DEF StartProbe, worker
  <2>2. QED
    BY <1>1, <2>1 DEF Shape, PoolClosed, WorkOfBatch, ProbeHasFile, Batch
<1>4. ASSUME NEW a \in Answers, EndProbe(a) PROVE Shape'
  <2>1. /\ phase = "probe" /\ phase' = "pool" /\ queue' = Tail(Batch)
        /\ UNCHANGED <<creator, pc, held>>
    BY <1>4, Zenon DEF EndProbe
  <2>2. \A w \in Workers : pc[w] = "free"
    BY <2>1 DEF Shape, PoolClosed
  <2>3. Range(Tail(Batch)) \subseteq Range(Batch)
    BY <1>1, <2>1, BatchFiles, HeadAndTail DEF Shape, ProbeHasFile, TypeOK
  <2>4. QED
    BY <1>1, <2>1, <2>2, <2>3 DEF Shape, PoolClosed, WorkOfBatch, ProbeHasFile, Batch
<1>5. CASE ProbeRaises
  <2>1. phase = "probe" /\ phase' = "begin" /\ UNCHANGED <<queue, pc, held>>
    BY <1>5 DEF ProbeRaises, EndCreator, worker
  <2>2. QED
    BY <1>1, <2>1 DEF Shape, PoolClosed, WorkOfBatch, ProbeHasFile
<1>6. ASSUME NEW f \in Files, Collect(f) \/ CollectRaises(f) PROVE Shape'
  <2>1. /\ phase = "pool" /\ phase' \in {"pool", "unwinding"}
        /\ UNCHANGED <<creator, queue, pc, held>>
    BY <1>6 DEF Collect, CollectRaises, worker
  <2>2. QED
    BY <1>1, <2>1 DEF Shape, PoolClosed, WorkOfBatch, ProbeHasFile, Batch
<1>7. CASE Complete \/ Abort
  <2>1. phase' = "begin" /\ Drained /\ UNCHANGED <<queue, pc, held>>
    BY <1>7 DEF Complete, Abort, EndCreator, worker
  <2>2. QED
    BY <1>1, <2>1 DEF Shape, PoolClosed, WorkOfBatch, ProbeHasFile, Drained
<1>8. QED
  BY <1>2, <1>3, <1>4, <1>5, <1>6, <1>7 DEF MainStep, EndProbes

-----------------------------------------------------------------------------
(* A file of this creator is not one of a creator still to come, and the   *)
(* probe's file is not one of the pool's.                                  *)
LEMMA OtherFile ==
  ASSUME TypeOK, Running, NEW f \in Range(Batch),
         NEW c \in DOMAIN Batches, NEW i \in DOMAIN Batches[c],
         c > creator \/ (c = creator /\ f = Batch[1] /\ 1 \in DOMAIN Batch /\ i > 1)
  PROVE  Batches[c][i] # f
<1>1. creator \in DOMAIN Batches /\ creator \in Nat
  BY BatchFiles DEF TypeOK
<1>2. PICK j \in DOMAIN Batch : Batch[j] = f
  BY DEF Range
<1>3. CASE c > creator
  BY <1>1, <1>2, <1>3, FilesDistinct DEF Batch
<1>4. CASE c = creator /\ f = Batch[1] /\ 1 \in DOMAIN Batch /\ i > 1
  BY <1>1, <1>4, FilesDistinct DEF Batch
<1>5. QED
  BY <1>3, <1>4

(* Files are files. *)
LEMMA FileOf ==
  ASSUME NEW c \in DOMAIN Batches, NEW i \in DOMAIN Batches[c]
  PROVE  Batches[c][i] \in Files
<1>1. Batches[c] \in Seq(Files)
  BY PoolAssumption
<1>2. QED
  BY <1>1

(* A worker's step does not touch the creators still to come. *)
LEMMA WorkerUntouched ==
  ASSUME IInv, NEW w \in Workers, WorkerStep(w)
  PROVE  Untouched' /\ Unsent'
<1>1. /\ Shape /\ TypeOK /\ Untouched /\ Unsent
      /\ Running /\ phase \in {"pool", "unwinding"} /\ UNCHANGED <<creator, phase>>
  BY WorkerFrame DEF IInv, Shape
<1>2. ASSUME NEW c \in DOMAIN Batches, NEW i \in DOMAIN Batches[c], c > creator
      PROVE  outcome'[Batches[c][i]] = outcome[Batches[c][i]] /\ sends'[Batches[c][i]] = sends[Batches[c][i]]
  <2>1. Batches[c][i] \in Files
    BY FileOf
  <2>2. pc[w] # "free" => Batches[c][i] # held[w]
    BY <1>1, <1>2, BusyHolds, OtherFile
  <2>3. QED
    BY <1>1, <2>1, <2>2, WorkerFrame
<1>3. QED
  BY <1>1, <1>2 DEF Untouched, Unsent

LEMMA WorkerRemembers ==
  ASSUME IInv, NEW w \in Workers, WorkerStep(w)
  PROVE  BlockIsRemembered'
<1>1. /\ Shape /\ TypeOK /\ BlockIsRemembered /\ Running /\ UNCHANGED creator
  BY WorkerFrame DEF IInv, Shape
<1>2. Batch' = Batch /\ Range(Batch) \subseteq Files
  BY <1>1, BatchFiles DEF Batch
<1>3. ASSUME NEW f \in Range(Batch), outcome'[f] = "blocked" PROVE blocked'
  <2>1. f \in Files
    BY <1>2
  <2>2. outcome[f] = "blocked" => blocked
    BY <1>1, <1>3, Zenon DEF BlockIsRemembered
  <2>3. QED
    BY <1>1, <1>3, <2>1, <2>2, WorkerFlag, Zenon
<1>4. QED
  BY <1>2, <1>3, Zenon DEF BlockIsRemembered

LEMMA WorkerProbeStopped ==
  ASSUME IInv, NEW w \in Workers, WorkerStep(w)
  PROVE  ProbeStopped'
<1>1. Shape /\ TypeOK /\ ProbeStopped
  BY DEF IInv, Shape
<1>2. /\ Running /\ phase \in {"pool", "unwinding"} /\ UNCHANGED <<creator, phase, probe>>
      /\ \A u \in Workers : u # w => pc'[u] = pc[u]
      /\ \A f \in Files : sends'[f] = sends[f] \/ pc[w] = "passed"
  BY <1>1, WorkerFrame
<1>3. SUFFICES ASSUME probe = "blocked"
               PROVE  /\ blocked' /\ Batch # <<>>
                      /\ \A u \in Workers : pc'[u] \in {"free", "taken"}
                      /\ \A i \in DOMAIN Batch : i > 1 => sends'[Batch[i]] = 0
  BY <1>2, Zenon DEF ProbeStopped, Batch
<1>4. /\ blocked /\ Batch # <<>>
      /\ \A u \in Workers : pc[u] \in {"free", "taken"}
      /\ \A i \in DOMAIN Batch : i > 1 => sends[Batch[i]] = 0
  BY <1>1, <1>2, <1>3, Zenon DEF ProbeStopped
<1>5. blocked' /\ pc'[w] \in {"free", "taken"}
  BY <1>1, <1>4, WorkerFlag, Zenon
<1>6. \A i \in DOMAIN Batch : sends'[Batch[i]] = sends[Batch[i]]
  <2>1. pc[w] # "passed"
    BY <1>4
  <2>2. QED
    BY <1>1, <1>2, <2>1, BatchFiles
<1>7. QED
  BY <1>2, <1>4, <1>5, <1>6, Zenon

-----------------------------------------------------------------------------
(* The workers past the check are counted against those there are. *)
LEMMA PassedCount ==
  /\ IsFiniteSet(Passed) /\ Passed \subseteq Workers /\ Cardinality(Passed) \in Nat
  /\ Cardinality(Workers) \in Nat /\ Cardinality(Workers) >= 1
  /\ \A w \in Workers : w \notin Passed => Cardinality(Passed) <= Cardinality(Workers) - 1
<1>1. IsFiniteSet(Workers) /\ Workers # {} /\ Passed \subseteq Workers
  BY PoolAssumption DEF Passed
<1>2. IsFiniteSet(Passed) /\ Cardinality(Passed) \in Nat /\ Cardinality(Workers) \in Nat
  BY <1>1, FS_Subset, FS_CardinalityType
<1>3. Cardinality(Workers) >= 1
  BY <1>1, <1>2, FS_EmptySet
<1>4. ASSUME NEW w \in Workers, w \notin Passed
      PROVE  Cardinality(Passed) <= Cardinality(Workers) - 1
  <2>1. IsFiniteSet(Workers \ {w}) /\ Cardinality(Workers \ {w}) = Cardinality(Workers) - 1
    BY <1>1, FS_RemoveElement
  <2>2. Passed \subseteq Workers \ {w}
    BY <1>1, <1>4
  <2>3. QED
    BY <2>1, <2>2, FS_Subset
<1>5. QED
  BY <1>1, <1>2, <1>3, <1>4

(* A worker's step keeps the count. *)
LEMMA WorkerLateCounted ==
  ASSUME IInv, NEW w \in Workers, WorkerStep(w)
  PROVE  LateCounted'
<1>1. /\ IsFiniteSet(late)
      /\ ~blocked => late = {}
      /\ blocked => Cardinality(late) + Cardinality(Passed) <= Cardinality(Workers) - 1
  BY Zenon DEF IInv, LateCounted
<1>2. phase \in {"pool", "unwinding"} /\ UNCHANGED phase
  BY WorkerFrame DEF IInv
<1>3. phase' # "probe"
  BY <1>2
<1>4. pc \in [Workers -> {"free", "taken", "passed", "downloading", "ended"}]
  BY DEF IInv, Shape, TypeOK
<1>5. ASSUME UNCHANGED <<late, blocked>>, Passed' = Passed PROVE LateCounted'
  <2>1. CASE ~blocked
    <3>1. ~blocked' /\ late' = late /\ late' = {} /\ IsFiniteSet(late')
      BY <1>1, <1>5, <2>1, Zenon
    <3>2. QED
      BY <1>3, <3>1, Zenon DEF LateCounted
  <2>2. CASE blocked
    <3>1. Cardinality(late) + Cardinality(Passed) <= Cardinality(Workers) - 1
      BY <1>1, <2>2, Zenon
    <3>2. Cardinality(late') + Cardinality(Passed') <= Cardinality(Workers) - 1 /\ IsFiniteSet(late')
      BY <1>1, <1>5, <3>1
    <3>3. blocked'
      BY <1>5, <2>2, Zenon
    <3>4. QED
      BY <1>3, <3>2, <3>3, Zenon DEF LateCounted
  <2>3. QED
    BY <2>1, <2>2, Zenon
<1>6. CASE Take(w) \/ Refuse(w) \/ \E a \in Answers : End(w, a)
  <2>1. UNCHANGED <<late, blocked>>
    BY <1>6, Zenon DEF Take, Refuse, End
  <2>2. Passed' = Passed
    BY <1>4, <1>6 DEF Take, Refuse, Finish, End, Passed
  <2>3. QED
    BY <1>5, <2>1, <2>2
<1>7. CASE Pass(w)
  <2>1. ~blocked /\ ~blocked' /\ late' = late
    BY <1>7, Zenon DEF Pass
  <2>2. QED
    BY <1>1, <1>3, <2>1, Zenon DEF LateCounted
<1>8. CASE Start(w)
  <2>1. /\ pc[w] = "passed" /\ pc' = [pc EXCEPT ![w] = "downloading"]
        /\ blocked' = blocked
        /\ late' = IF blocked THEN late \cup {held[w]} ELSE late
    BY <1>8, Zenon DEF Start
  <2>2. CASE ~blocked
    <3>1. ~blocked' /\ late' = late
      BY <2>1, <2>2, Zenon
    <3>2. QED
      BY <1>1, <1>3, <2>2, <3>1, Zenon DEF LateCounted
  <2>3. CASE blocked
    <3>1. blocked' /\ late' = late \cup {held[w]}
      BY <2>1, <2>3, Zenon
    <3>2. w \in Passed /\ Passed' = Passed \ {w}
      BY <1>4, <2>1 DEF Passed
    <3>3. Cardinality(Passed') = Cardinality(Passed) - 1 /\ Cardinality(Passed) \in Nat
      BY <3>2, PassedCount, FS_RemoveElement
    <3>4. /\ IsFiniteSet(late') /\ Cardinality(late) \in Nat /\ Cardinality(late') \in Nat
          /\ Cardinality(late') <= Cardinality(late) + 1
      <4>1. IsFiniteSet(late) /\ late' = late \cup {held[w]}
        BY <1>1, <3>1, Zenon
      <4>2. IsFiniteSet(late') /\ Cardinality(late) \in Nat /\ Cardinality(late') \in Nat
        BY <4>1, FS_AddElement, FS_CardinalityType
      <4>3. Cardinality(late') = IF held[w] \in late THEN Cardinality(late) ELSE Cardinality(late) + 1
        BY <4>1, FS_AddElement
      <4>4. QED
        BY <4>2, <4>3
    <3>5. Cardinality(late) + Cardinality(Passed) <= Cardinality(Workers) - 1
      BY <1>1, <2>3, Zenon
    <3>6. Cardinality(late') + Cardinality(Passed') <= Cardinality(Workers) - 1
      BY <3>3, <3>4, <3>5, PassedCount
    <3>7. QED
      BY <1>3, <3>1, <3>4, <3>6, Zenon DEF LateCounted
  <2>4. QED
    BY <2>2, <2>3, Zenon
<1>9. CASE Mark(w)
  <2>1. late' = late /\ (blocked => blocked')
    BY <1>9, Zenon DEF Mark
  <2>2. pc[w] = "ended" /\ pc' = [pc EXCEPT ![w] = "free"]
    BY <1>9, Zenon DEF Mark, Finish
  <2>3. w \notin Passed /\ Passed' = Passed
    BY <1>4, <2>2 DEF Passed
  <2>4. CASE blocked
    <3>1. Cardinality(late) + Cardinality(Passed) <= Cardinality(Workers) - 1
      BY <1>1, <2>4, Zenon
    <3>2. late' = late /\ blocked'
      BY <2>1, <2>4, Zenon
    <3>3. Cardinality(late') + Cardinality(Passed') <= Cardinality(Workers) - 1 /\ IsFiniteSet(late')
      BY <1>1, <2>3, <3>1, <3>2
    <3>4. QED
      BY <1>3, <3>2, <3>3, Zenon DEF LateCounted
  <2>5. CASE ~blocked
    <3>1. late = {} /\ late' = {}
      BY <1>1, <2>1, <2>5, Zenon
    <3>2. Cardinality(late') = 0 /\ IsFiniteSet(late')
      BY <3>1, FS_EmptySet
    <3>3. Cardinality(late') + Cardinality(Passed') <= Cardinality(Workers) - 1
      BY <2>3, <3>2, PassedCount
    <3>4. QED
      BY <1>3, <3>1, <3>2, <3>3, Zenon DEF LateCounted
  <2>6. QED
    BY <2>4, <2>5, Zenon
<1>10. QED
  BY <1>6, <1>7, <1>8, <1>9, Zenon DEF WorkerStep

LEMMA WorkerIInv == ASSUME IInv, NEW w \in Workers, WorkerStep(w) PROVE IInv'
BY WorkerShape, WorkerUntouched, WorkerRemembers, WorkerProbeStopped, WorkerLateCounted, Zenon
   DEF IInv

-----------------------------------------------------------------------------
(* A creator that has not begun to download has no file that failed.       *)
LEMMA NothingNoticed ==
  ASSUME TypeOK', Untouched', phase' = "begin"
  PROVE  BlockIsRemembered'
<1> SUFFICES ASSUME Running', NEW f \in Range(Batch'), outcome'[f] = "blocked" PROVE FALSE
  BY DEF BlockIsRemembered
<1>1. creator' \in DOMAIN Batches
  BY PoolAssumption DEF TypeOK, Running
<1>2. PICK i \in DOMAIN Batches[creator'] : Batches[creator'][i] = f
  BY DEF Range, Batch
<1>3. outcome'[Batches[creator'][i]] = "none"
  BY <1>1, <1>2 DEF Untouched
<1>4. QED
  BY <1>2, <1>3

(* The count is sound whenever no worker runs and nothing was late, ...    *)
LEMMA NoneLate ==
  ASSUME late' = {}, \A w \in Workers : pc'[w] = "free"
  PROVE  LateCounted'
<1>1. Passed' = {}
  BY DEF Passed
<1>2. IsFiniteSet(late') /\ Cardinality(late') = 0 /\ Cardinality(Passed') = 0
  BY <1>1, FS_EmptySet
<1>3. Cardinality(late') + Cardinality(Passed') <= Cardinality(Workers) - 1
  BY <1>2, PassedCount
<1>4. QED
  BY <1>2, <1>3, Zenon DEF LateCounted

(* ... and is kept by the main thread's steps that do not start a creator. *)
LEMMA CountKept ==
  ASSUME LateCounted, UNCHANGED <<late, blocked, pc>>, phase' # "probe"
  PROVE  LateCounted'
<1>1. late' = late /\ blocked' = blocked /\ Passed' = Passed
  BY DEF Passed
<1>2. Cardinality(late') = Cardinality(late) /\ Cardinality(Passed') = Cardinality(Passed)
  BY <1>1
<1>3. QED
  <2>1. CASE blocked
    <3>1. Cardinality(late) + Cardinality(Passed) <= Cardinality(Workers) - 1
      BY <2>1, Zenon DEF LateCounted
    <3>2. Cardinality(late') + Cardinality(Passed') <= Cardinality(Workers) - 1
      BY <1>2, <3>1
    <3>3. IsFiniteSet(late') /\ blocked'
      BY <1>1, <2>1, Zenon DEF LateCounted
    <3>4. QED
      BY <3>2, <3>3, Zenon DEF LateCounted
  <2>2. CASE ~blocked
    <3>1. ~blocked'
      BY <2>2, SMT
    <3>2. late' = {} /\ IsFiniteSet(late')
      <4>1. late = {}
        BY <2>2, Zenon DEF LateCounted
      <4>2. QED
        BY <1>1, <4>1, FS_EmptySet
    <3>3. QED
      BY <3>1, <3>2, Zenon DEF LateCounted
  <2>3. QED
    BY <2>1, <2>2, Zenon

(* download_all_files begins. *)
LEMMA OpenPoolIInv == ASSUME IInv, OpenPool PROVE IInv'
<1>1. /\ phase = "begin" /\ phase' = "pool" /\ probe' = "none" /\ late' = {}
      /\ UNCHANGED <<creator, pc, outcome, sends, blocked>>
  BY Zenon DEF OpenPool
<1>2. Shape' /\ TypeOK /\ Untouched /\ Unsent /\ \A w \in Workers : pc[w] = "free"
  BY <1>1, MainShape DEF IInv, MainStep, Shape, PoolClosed
<1>3. Untouched' /\ Unsent'
  BY <1>1, <1>2 DEF Untouched, Unsent
<1>4. BlockIsRemembered'
  <2>1. BlockIsRemembered /\ Batch' = Batch /\ (Running' <=> Running)
    BY <1>1 DEF IInv, Batch, Running
  <2>2. QED
    BY <1>1, <2>1, Zenon DEF BlockIsRemembered
<1>5. ProbeStopped'
  BY <1>1 DEF ProbeStopped
<1>6. LateCounted'
  <2>1. late' = {} /\ \A w \in Workers : pc'[w] = "free"
    BY <1>1, <1>2
  <2>2. QED
    BY <2>1, NoneLate
<1>7. QED
  BY <1>2, <1>3, <1>4, <1>5, <1>6, Zenon DEF IInv

LEMMA StartProbeIInv == ASSUME IInv, StartProbe PROVE IInv'
<1>1. /\ phase = "begin" /\ phase' = "probe" /\ probe' = "none" /\ late' = {}
      /\ UNCHANGED <<creator, outcome, pc, blocked>>
      /\ Running /\ Batch # <<>> /\ sends' = [sends EXCEPT ![Head(Batch)] = @ + 1]
  BY Zenon DEF StartProbe, worker
<1>2. /\ Shape' /\ TypeOK /\ Untouched /\ Unsent /\ \A w \in Workers : pc[w] = "free"
      /\ Head(Batch) \in Range(Batch) /\ Head(Batch) = Batch[1] /\ 1 \in DOMAIN Batch
  BY <1>1, MainShape, BatchFiles, HeadAndTail DEF IInv, MainStep, Shape, PoolClosed
<1>3. Untouched'
  BY <1>1, <1>2 DEF Untouched
<1>4. Unsent'
  <2> SUFFICES ASSUME NEW c \in DOMAIN Batches, NEW i \in DOMAIN Batches[c],
                      c > creator \/ (c = creator /\ i > 1)
               PROVE  sends'[Batches[c][i]] = 0
    BY <1>1 DEF Unsent
  <2>1. Batches[c][i] # Head(Batch)
    BY <1>1, <1>2, OtherFile
  <2>2. sends[Batches[c][i]] = 0
    BY <1>1, <1>2 DEF Unsent
  <2>3. sends \in [Files -> Nat] /\ Batches[c][i] \in Files
    BY <1>2, FileOf DEF TypeOK
  <2>4. QED
    BY <1>1, <2>1, <2>2, <2>3
<1>5. BlockIsRemembered'
  <2>1. BlockIsRemembered /\ Batch' = Batch /\ (Running' <=> Running)
    BY <1>1 DEF IInv, Batch, Running
  <2>2. QED
    BY <1>1, <2>1, Zenon DEF BlockIsRemembered
<1>6. ProbeStopped'
  BY <1>1 DEF ProbeStopped
<1>7. LateCounted'
  <2>1. late' = {} /\ \A w \in Workers : pc'[w] = "free"
    BY <1>1, <1>2
  <2>2. QED
    BY <2>1, NoneLate
<1>8. QED
  BY <1>2, <1>3, <1>4, <1>5, <1>6, <1>7, Zenon DEF IInv

(* The probe's outcome decides about the flag and is its file's outcome.   *)
LEMMA EndProbeIInv == ASSUME IInv, NEW a \in Answers, EndProbe(a) PROVE IInv'
<1>1. /\ phase = "probe" /\ phase' = "pool" /\ probe' = a
      /\ UNCHANGED <<creator, pc, sends, late>>
      /\ outcome' = [outcome EXCEPT ![Head(Batch)] = a]
  BY Zenon DEF EndProbe
<1>2. (a = "blocked" => blocked') /\ (blocked' => a = "blocked")
  BY Zenon DEF EndProbe
<1>3. /\ TypeOK /\ Untouched /\ Unsent /\ Running /\ Batch # <<>> /\ late = {}
      /\ \A w \in Workers : pc[w] = "free"
  BY <1>1 DEF IInv, Shape, PoolClosed, ProbeHasFile, LateCounted, TypeOK
<1>4. /\ Shape' /\ creator \in DOMAIN Batches
      /\ Head(Batch) \in Range(Batch) /\ Head(Batch) \in Files
      /\ outcome \in [Files -> Answers \cup {"none"}] /\ Range(Batch) \subseteq Files
  <2>1. EndProbes
    BY DEF EndProbes
  <2>2. QED
    BY <1>3, <2>1, MainShape, BatchFiles, HeadAndTail DEF IInv, MainStep, TypeOK
<1>5. Untouched' /\ Unsent'
  <2>1. ASSUME NEW c \in DOMAIN Batches, NEW i \in DOMAIN Batches[c], c > creator
        PROVE  outcome'[Batches[c][i]] = "none"
    <3>1. Batches[c][i] # Head(Batch)
      BY <1>3, <1>4, <2>1, OtherFile
    <3>2. outcome[Batches[c][i]] = "none"
      BY <1>3, <2>1 DEF Untouched
    <3>3. QED
      BY <1>1, <1>4, <3>1, <3>2, FileOf
  <2>2. Untouched'
    BY <1>1, <2>1 DEF Untouched
  <2>3. QED
    BY <1>1, <1>3, <2>2 DEF Unsent
<1>6. BlockIsRemembered'
  <2>1. ASSUME NEW f \in Range(Batch), outcome'[f] = "blocked" PROVE a = "blocked"
    <3>1. PICK i \in DOMAIN Batch : Batch[i] = f
      BY DEF Range
    <3>2. outcome[f] = "none"
      BY <1>1, <1>3, <1>4, <3>1 DEF Untouched, Batch, TypeOK
    <3>3. QED
      BY <1>1, <1>4, <2>1, <3>2
  <2>2. Batch' = Batch
    BY <1>1 DEF Batch
  <2>3. QED
    BY <1>2, <2>1, <2>2, Zenon DEF BlockIsRemembered
<1>7. ProbeStopped'
  <2>1. Batch' = Batch /\ \A w \in Workers : pc'[w] = "free"
    BY <1>1, <1>3 DEF Batch
  <2>2. \A i \in DOMAIN Batch : i > 1 => sends'[Batch[i]] = 0
    BY <1>1, <1>3, <1>4 DEF Unsent, Batch, TypeOK
  <2>3. \A w \in Workers : pc'[w] \in {"free", "taken"}
    BY <2>1
  <2>4. QED
    BY <1>1, <1>2, <1>3, <2>1, <2>2, <2>3, Zenon DEF ProbeStopped
<1>8. LateCounted'
  <2>1. late' = {} /\ \A w \in Workers : pc'[w] = "free"
    BY <1>1, <1>3
  <2>2. QED
    BY <2>1, NoneLate
<1>9. QED
  BY <1>4, <1>5, <1>6, <1>7, <1>8, Zenon DEF IInv

(* main goes on to the next creator, whose files nobody has touched.       *)
LEMMA EndCreatorIInv ==
  ASSUME IInv, Shape', Running, creator' = creator + 1, phase' = "begin",
         UNCHANGED <<sends, late, blocked, pc>>,
         \A f \in Files : outcome'[f] = outcome[f] \/ f \in Range(Batch)
  PROVE  IInv'
<1>1. TypeOK /\ TypeOK' /\ Untouched /\ Unsent /\ LateCounted
  BY DEF IInv, Shape
<1>2. creator \in Nat
  BY <1>1, PoolAssumption DEF TypeOK
<1>3. ASSUME NEW c \in DOMAIN Batches, NEW i \in DOMAIN Batches[c], c >= creator'
      PROVE  outcome'[Batches[c][i]] = "none" /\ sends'[Batches[c][i]] = 0
  <2>1. c > creator
    BY <1>2, <1>3, PoolAssumption
  <2>2. outcome[Batches[c][i]] = "none" /\ sends[Batches[c][i]] = 0
    BY <1>1, <2>1 DEF Untouched, Unsent
  <2>3. Batches[c][i] \notin Range(Batch)
    BY <1>1, <2>1, OtherFile
  <2>4. QED
    BY <2>2, <2>3, FileOf
<1>4. Untouched' /\ Unsent'
  BY <1>2, <1>3, PoolAssumption DEF Untouched, Unsent
<1>5. BlockIsRemembered'
  BY <1>1, <1>4, NothingNoticed
<1>6. ProbeStopped' /\ LateCounted'
  BY <1>1, CountKept DEF ProbeStopped
<1>7. QED
  BY <1>4, <1>5, <1>6, Zenon DEF IInv

(* The rest of the main thread's steps. *)
LEMMA MainIInv == ASSUME IInv, MainStep PROVE IInv'
<1>1. Shape /\ Shape' /\ TypeOK
  BY MainShape DEF IInv, Shape
<1>2. CASE ProbeRaises
  <2>1. /\ phase = "probe" /\ creator' = creator + 1 /\ phase' = "begin"
        /\ UNCHANGED <<sends, late, blocked, pc>>
        /\ outcome' = [outcome EXCEPT ![Head(Batch)] = "raised"]
    BY <1>2, Zenon DEF ProbeRaises, EndCreator, worker
  <2>2. Running /\ Head(Batch) \in Range(Batch) /\ outcome \in [Files -> Answers \cup {"none"}]
    BY <1>1, <2>1, BatchFiles, HeadAndTail DEF Shape, ProbeHasFile, TypeOK
  <2>3. \A f \in Files : outcome'[f] = outcome[f] \/ f \in Range(Batch)
    BY <2>1, <2>2
  <2>4. QED
    BY <1>1, <2>1, <2>2, <2>3, EndCreatorIInv
<1>3. ASSUME NEW f \in Files, Collect(f) \/ CollectRaises(f) PROVE IInv'
  <2>1. /\ phase = "pool" /\ phase' \in {"pool", "unwinding"}
        /\ UNCHANGED <<creator, pc, outcome, sends, late, blocked, probe>>
    BY <1>3, Zenon DEF Collect, CollectRaises, worker
  <2>2. Batch' = Batch /\ (Running' <=> Running) /\ BlockIsRemembered /\ ProbeStopped /\ LateCounted
    BY <2>1 DEF Batch, Running, IInv
  <2>3. Untouched' /\ Unsent'
    BY <2>1 DEF IInv, Untouched, Unsent
  <2>4. BlockIsRemembered'
    BY <2>1, <2>2, Zenon DEF BlockIsRemembered
  <2>5. ProbeStopped'
    <3>1. phase \in {"pool", "unwinding"}
      BY <2>1
    <3>2. QED
      BY <2>1, <2>2, <3>1, Zenon DEF ProbeStopped
  <2>6. LateCounted'
    BY <2>1, <2>2, CountKept
  <2>7. QED
    BY <1>1, <2>3, <2>4, <2>5, <2>6, Zenon DEF IInv
<1>4. CASE Complete \/ Abort
  <2>1. /\ phase \in {"pool", "unwinding"} /\ creator' = creator + 1 /\ phase' = "begin"
        /\ UNCHANGED <<sends, late, blocked, pc, outcome>>
    BY <1>4 DEF Complete, Abort, EndCreator, worker
  <2>2. Running
    BY <1>1, <2>1 DEF TypeOK
  <2>3. QED
    BY <1>1, <2>1, <2>2, EndCreatorIInv
<1>5. QED
  BY <1>2, <1>3, <1>4, OpenPoolIInv, StartProbeIInv, EndProbeIInv DEF MainStep, EndProbes

-----------------------------------------------------------------------------
(* Nothing else is disturbed when the mirror changes its mind.             *)
LEMMA OtherIInv == ASSUME IInv, Toggle \/ UNCHANGED vars PROVE IInv'
<1>1. UNCHANGED <<blocked, creator, phase, results, summary, queue, pc, held, answer, outcome,
                  sends, late, probe>>
  BY Zenon DEF Toggle, vars, main, worker
<1>2. TypeOK'
  <2>1. TypeOK
    BY DEF IInv, Shape
  <2>2. hostBlocks' \in BOOLEAN
    <3>1. CASE Toggle
      BY <3>1, Zenon DEF Toggle
    <3>2. CASE UNCHANGED vars
      BY <2>1, <3>2 DEF TypeOK, vars, host
    <3>3. QED
      BY <3>1, <3>2
  <2>3. toggles' \in 0..MaxToggles
    BY <2>1, PoolAssumption DEF TypeOK, Toggle, vars, host
  <2>4. QED
    BY <1>1, <2>1, <2>2, <2>3 DEF TypeOK, Running
<1>3. Shape'
  BY <1>1, <1>2 DEF IInv, Shape, PoolClosed, WorkOfBatch, ProbeHasFile, Batch
<1>4. Batch' = Batch /\ (Running' <=> Running) /\ Passed' = Passed
  BY <1>1 DEF Batch, Running, Passed
<1>5. Untouched' /\ Unsent' /\ BlockIsRemembered' /\ ProbeStopped'
  BY <1>1, <1>4, Zenon DEF IInv, Untouched, Unsent, BlockIsRemembered, ProbeStopped
<1>6. LateCounted'
  BY <1>1, <1>4, Zenon DEF IInv, LateCounted
<1>7. QED
  BY <1>3, <1>5, <1>6, Zenon DEF IInv

LEMMA NextIInv == IInv /\ [Next]_vars => IInv'
<1> SUFFICES ASSUME IInv, [Next]_vars PROVE IInv'
  OBVIOUS
<1>1. CASE MainStep
  BY <1>1, MainIInv
<1>2. ASSUME NEW w \in Workers, WorkerStep(w) PROVE IInv'
  BY <1>2, WorkerIInv
<1>3. CASE Toggle \/ UNCHANGED vars
  BY <1>3, OtherIInv
<1>4. QED
  BY <1>1, <1>2, <1>3, Zenon DEF Next, Finished

-----------------------------------------------------------------------------
(* The pool's and the main thread's state is always well-typed. *)
THEOREM TypeCorrect == Spec => []TypeOK
<1>1. IInv => TypeOK
  BY DEF IInv, Shape
<1>2. QED
  BY InitIInv, NextIInv, <1>1, PTL DEF Spec

(* download_all_files never leaves a worker behind, however it is left:    *)
(* whoever runs has a file of the creator main is at.                      *)
THEOREM NoStray == Spec => []NoStrayWorker
<1>1. IInv => NoStrayWorker
  BY BusyHolds DEF IInv, NoStrayWorker, Busy
<1>2. QED
  BY InitIInv, NextIInv, <1>1, PTL DEF Spec

(* A file of the running creator that failed as mirror_blocked means that  *)
(* the flag is set, whichever of any number of workers found out.          *)
THEOREM Remembered == Spec => []BlockIsRemembered
<1>1. IInv => BlockIsRemembered
  BY DEF IInv
<1>2. QED
  BY InitIInv, NextIInv, <1>1, PTL DEF Spec

(* Fewer downloads than there are workers start after the flag was set.    *)
THEOREM LateBounded == Spec => []LateStartsBounded
<1>1. IInv => LateStartsBounded
  <2> SUFFICES ASSUME IInv PROVE LateStartsBounded
    OBVIOUS
  <2>1. LateCounted
    BY DEF IInv
  <2>2. CASE blocked
    <3>1. /\ Cardinality(late) + Cardinality(Passed) <= Cardinality(Workers) - 1
          /\ IsFiniteSet(late)
      BY <2>1, <2>2, Zenon DEF LateCounted
    <3>2. QED
      BY <3>1, PassedCount, FS_CardinalityType DEF LateStartsBounded
  <2>3. CASE ~blocked
    <3>1. late = {}
      BY <2>1, <2>3, Zenon DEF LateCounted
    <3>2. QED
      BY <3>1, PassedCount, FS_EmptySet DEF LateStartsBounded
  <2>4. QED
    BY <2>2, <2>3, Zenon
<1>2. QED
  BY InitIInv, NextIInv, <1>1, PTL DEF Spec

(* After a probe that came back blocked, no other file of the creator is   *)
(* requested, whatever the workers do.                                     *)
THEOREM ProbeStops == Spec => []BlockedProbeStops
<1>1. IInv => BlockedProbeStops
  <2> SUFFICES ASSUME IInv, Running, phase = "pool", probe = "blocked", NEW f \in Range(Tail(Batch))
               PROVE  sends[f] = 0
    BY DEF BlockedProbeStops
  <2>1. Batch # <<>> /\ \A i \in DOMAIN Batch : i > 1 => sends[Batch[i]] = 0
    BY DEF IInv, ProbeStopped
  <2>2. PICK j \in DOMAIN Tail(Batch) : Tail(Batch)[j] = f
    BY DEF Range
  <2>3. Batch \in Seq(Files)
    BY BatchFiles DEF IInv, Shape
  <2>4. QED
    BY <2>1, <2>2, <2>3, HeadAndTail
<1>2. QED
  BY InitIInv, NextIInv, <1>1, PTL DEF Spec

(* The flag is cleared by a probe only, while no worker of the pool runs.  *)
THEOREM ClearedByProbe == Spec => ClearedByProbeOnly
<1>1. IInv /\ [Next]_vars => [blocked /\ ~blocked' => phase = "probe" /\ Busy = {}]_vars
  <2> SUFFICES ASSUME IInv, Next, blocked, ~blocked' PROVE phase = "probe" /\ Busy = {}
    BY Zenon
  <2>1. ASSUME NEW w \in Workers, WorkerStep(w) PROVE FALSE
    BY <2>1, WorkerFlag, Zenon DEF IInv
  <2>2. EndProbes
    <3>1. blocked' # blocked
      BY Zenon
    <3>2. QED
      BY <2>1, <3>1, Zenon DEF Next, MainStep, OpenPool, StartProbe, ProbeRaises, Collect,
         CollectRaises, Complete, Abort, Toggle, Finished, vars
  <2>3. phase = "probe"
    BY <2>2, Zenon DEF EndProbes, EndProbe
  <2>4. QED
    BY <2>3 DEF IInv, Shape, PoolClosed, Busy
<1>2. QED
  BY InitIInv, NextIInv, <1>1, PTL DEF Spec, ClearedByProbeOnly

-----------------------------------------------------------------------------
(* A creator that is completed has an outcome for each file, and no file is *)
(* downloaded twice: MirrorPool's CompletedHasOutcomes.                     *)

(* A file is in one place at a time: queued once, or in one worker's hands. *)
OnePlace ==
  /\ \A i, j \in DOMAIN queue : queue[i] = queue[j] => i = j
  /\ \A v, w \in Workers : pc[v] # "free" /\ pc[w] # "free" /\ held[v] = held[w] => v = w
  /\ \A w \in Workers, i \in DOMAIN queue : pc[w] # "free" => queue[i] # held[w]

(* There it has no outcome, and was requested once it is downloaded.       *)
Requests(w) == IF pc[w] \in {"taken", "passed"} THEN 0 ELSE 1
Pending ==
  /\ \A i \in DOMAIN queue : outcome[queue[i]] = "none" /\ sends[queue[i]] = 0
  /\ \A w \in Workers : pc[w] # "free" =>
       outcome[held[w]] = "none" /\ sends[held[w]] = Requests(w)

Answered == \A w \in Workers : pc[w] = "ended" => answer[w] \in Answers

ProbeSent == phase = "probe" => sends[Head(Batch)] = 1

(* An outcome comes from one request, or from the flag.                    *)
Settled ==
  \A f \in Files : outcome[f] # "none" =>
    sends[f] = 1 \/ (sends[f] = 0 /\ outcome[f] = "blocked")

(* What the dict holds has an outcome, and an exception is not one.        *)
Kept == \A f \in results : outcome[f] \in {"success", "blocked", "failed"}

(* The flag is set in a pool only after a request, the probe's or a        *)
(* worker's; and a file gets no outcome without one before it.             *)
Asked ==
  phase \in {"pool", "unwinding"} /\ Batch # <<>> =>
    /\ blocked => \E f \in Range(Batch) : sends[f] > 0
    /\ (\E f \in Range(Batch) : outcome[f] # "none") => \E f \in Range(Batch) : sends[f] > 0
Unwinds == phase = "unwinding" => \E f \in Range(Batch) : outcome[f] = "raised"

Summarised == \A c \in DOMAIN Batches : summary[c] # "none" => c < creator

Ledger == OnePlace /\ Pending /\ ProbeSent /\ Settled /\ Kept /\ Asked /\ Unwinds /\ Summarised
OInv == IInv /\ Ledger /\ Answered /\ CompletedHasOutcomes

(* CompletedHasOutcomes, for one creator. *)
Accounted(c) ==
  /\ summary[c] = "completed" => \A f \in Range(Batches[c]) :
       /\ outcome[f] \in {"success", "blocked", "failed"}
       /\ sends[f] = 1 \/ (sends[f] = 0 /\ outcome[f] = "blocked")
  /\ summary[c] # "none" /\ Batches[c] # <<>> => \E f \in Range(Batches[c]) : sends[f] > 0

-----------------------------------------------------------------------------
LEMMA AllAccounted ==
  /\ CompletedHasOutcomes <=> \A c \in DOMAIN Batches : Accounted(c)
  /\ CompletedHasOutcomes' <=> \A c \in DOMAIN Batches : Accounted(c)'
  BY DEF CompletedHasOutcomes, Accounted

(* What the running creator's files do is of no account to the others.     *)
LEMMA OthersAccounted ==
  ASSUME TypeOK, Running, Summarised, CompletedHasOutcomes,
         NEW c \in DOMAIN Batches, summary'[c] = summary[c],
         \A f \in Files : f \in Range(Batch) \/ (outcome'[f] = outcome[f] /\ sends'[f] = sends[f])
  PROVE  Accounted(c)'
<1>1. CASE summary[c] = "none"
  BY <1>1 DEF Accounted
<1>2. CASE summary[c] # "none"
  <2>1. c < creator /\ creator \in DOMAIN Batches /\ Batches[c] \in Seq(Files) /\ creator \in Int
    BY <1>2, BatchFiles, PoolAssumption DEF Summarised, TypeOK
  <2>2. ASSUME NEW f \in Range(Batches[c]) PROVE outcome'[f] = outcome[f] /\ sends'[f] = sends[f]
    <3>1. PICK i \in DOMAIN Batches[c] : Batches[c][i] = f
      BY DEF Range
    <3>2. f \in Files
      BY <2>1, <3>1
    <3>3. ASSUME f \in Range(Batch) PROVE FALSE
      <4>1. PICK j \in DOMAIN Batches[creator] : Batches[creator][j] = f
        BY <3>3 DEF Range, Batch
      <4>2. c = creator
        BY <2>1, <3>1, <4>1, FilesDistinct
      <4>3. c \in Int
        BY <2>1, PoolAssumption
      <4>4. QED
        BY <2>1, <4>2, <4>3
    <3>4. QED
      BY <3>2, <3>3
  <2>3. Accounted(c)
    BY AllAccounted
  <2>4. QED
    BY <2>2, <2>3 DEF Accounted
<1>3. QED
  BY <1>1, <1>2

-----------------------------------------------------------------------------
(* A worker's file passes from its hands to the outcomes. *)
LEMMA FinishLedger ==
  ASSUME IInv, Ledger, NEW w \in Workers, pc[w] # "free", NEW o \in Answers,
         UNCHANGED <<queue, sends, creator, phase, results, summary>>,
         outcome' = [outcome EXCEPT ![held[w]] = o],
         held' = [held EXCEPT ![w] = NoFile], pc' = [pc EXCEPT ![w] = "free"],
         \/ sends[held[w]] = 1
         \/ sends[held[w]] = 0 /\ o = "blocked" /\ blocked
  PROVE  Ledger'
<1>1. /\ pc \in [Workers -> {"free", "taken", "passed", "downloading", "ended"}]
      /\ held \in [Workers -> Files \cup {NoFile}] /\ queue \in Seq(Files)
      /\ outcome \in [Files -> Answers \cup {"none"}] /\ sends \in [Files -> Nat]
      /\ TypeOK /\ results \subseteq Files
  BY DEF IInv, Shape, TypeOK
<1>2. /\ Running /\ phase \in {"pool", "unwinding"} /\ held[w] \in Range(Batch) /\ held[w] \in Files
      /\ Range(Batch) \subseteq Files
  BY BusyHolds, BatchFiles, <1>1 DEF IInv
<1>3. Batch' = Batch
  BY DEF Batch
<1>4. \A f \in Files : outcome'[f] = IF f = held[w] THEN o ELSE outcome[f]
  BY <1>1, <1>2
<1>5. \A v \in Workers : v # w => pc'[v] = pc[v] /\ held'[v] = held[v]
  BY <1>1
<1>6. pc'[w] = "free" /\ outcome[held[w]] = "none"
  BY <1>1 DEF Ledger, Pending
<1>7. OnePlace'
  BY <1>5, <1>6 DEF Ledger, OnePlace
<1>8. Pending'
  <2>1. ASSUME NEW i \in DOMAIN queue PROVE outcome'[queue[i]] = "none" /\ sends[queue[i]] = 0
    <3>1. queue[i] # held[w] /\ queue[i] \in Files
      BY <1>1 DEF Ledger, OnePlace
    <3>2. QED
      BY <1>4, <3>1 DEF Ledger, Pending
  <2>2. ASSUME NEW v \in Workers, pc'[v] # "free"
        PROVE outcome'[held'[v]] = "none" /\ sends[held'[v]] = Requests(v)'
    <3>1. v # w /\ pc[v] # "free" /\ held'[v] = held[v] /\ pc'[v] = pc[v]
      BY <2>2, <1>5, <1>6
    <3>2. held[v] # held[w] /\ held[v] \in Files
      BY <3>1, BusyHolds DEF Ledger, OnePlace, IInv
    <3>3. QED
      BY <1>4, <3>1, <3>2 DEF Ledger, Pending, Requests
  <2>3. QED
    BY <2>1, <2>2 DEF Pending
<1>9. ProbeSent' /\ Summarised'
  BY <1>2 DEF ProbeSent, Summarised, Ledger
<1>10. Settled'
  BY <1>4 DEF Ledger, Settled
<1>11. Kept'
  BY <1>1, <1>4, <1>6 DEF Ledger, Kept
<1>12. Unwinds'
  BY <1>2, <1>3, <1>4, <1>6 DEF Ledger, Unwinds
<1>13. Asked'
  <2>1. \E f \in Range(Batch) : sends[f] > 0
    <3>1. CASE sends[held[w]] = 1
      BY <3>1, <1>2
    <3>2. CASE blocked
      <4>1. Batch # <<>>
        BY <1>2 DEF Range
      <4>2. QED
        BY <3>2, <4>1, <1>2, Zenon DEF Ledger, Asked
    <3>3. QED
      BY <3>1, <3>2
  <2>2. QED
    BY <2>1, <1>3, Zenon DEF Asked
<1>14. QED
  BY <1>7, <1>8, <1>9, <1>10, <1>11, <1>12, <1>13 DEF Ledger

(* A worker takes the next file from the queue. *)
LEMMA TakeLedger ==
  ASSUME IInv, Ledger, NEW w \in Workers, Take(w)
  PROVE  Ledger'
<1>1. /\ pc \in [Workers -> {"free", "taken", "passed", "downloading", "ended"}]
      /\ held \in [Workers -> Files \cup {NoFile}] /\ queue \in Seq(Files)
      /\ TypeOK
  BY DEF IInv, Shape, TypeOK
<1>2. /\ UNCHANGED <<sends, creator, phase, results, summary, outcome>>
      /\ queue # <<>> /\ queue' = Tail(queue)
      /\ held' = [held EXCEPT ![w] = Head(queue)] /\ pc' = [pc EXCEPT ![w] = "taken"]
      /\ pc[w] = "free" /\ (blocked' = blocked)
  BY Zenon DEF Take, main
<1>3. /\ Head(queue) = queue[1] /\ 1 \in DOMAIN queue
      /\ \A i \in DOMAIN queue' : i + 1 \in DOMAIN queue /\ i + 1 > 1 /\ queue'[i] = queue[i + 1]
      /\ \A i \in DOMAIN queue' : i \in Int
  BY <1>1, <1>2, HeadAndTail
<1>4. \A v \in Workers : /\ v # w => pc'[v] = pc[v] /\ held'[v] = held[v]
                         /\ v = w => pc'[v] = "taken" /\ held'[v] = queue[1]
  BY <1>1, <1>2, <1>3
<1>5. Batch' = Batch
  BY <1>2 DEF Batch
<1>6. OnePlace'
  <2>1. \A i, j \in DOMAIN queue' : queue'[i] = queue'[j] => i = j
    BY <1>3 DEF Ledger, OnePlace
  <2>2. \A v \in Workers : v # w /\ pc[v] # "free" => held[v] # queue[1]
    BY <1>3 DEF Ledger, OnePlace
  <2>3. \A v, u \in Workers : pc'[v] # "free" /\ pc'[u] # "free" /\ held'[v] = held'[u] => v = u
    BY <1>4, <2>2 DEF Ledger, OnePlace
  <2>4. ASSUME NEW v \in Workers, NEW i \in DOMAIN queue', pc'[v] # "free" PROVE queue'[i] # held'[v]
    <3>1. queue'[i] = queue[i + 1] /\ i + 1 \in DOMAIN queue /\ i + 1 # 1
      BY <1>3
    <3>2. CASE v = w
      BY <1>3, <1>4, <3>1, <3>2 DEF Ledger, OnePlace
    <3>3. CASE v # w
      BY <1>4, <2>4, <3>1, <3>3 DEF Ledger, OnePlace
    <3>4. QED
      BY <3>2, <3>3
  <2>5. QED
    BY <2>1, <2>3, <2>4 DEF OnePlace
<1>7. Pending'
  <2>1. \A i \in DOMAIN queue' : outcome[queue'[i]] = "none" /\ sends[queue'[i]] = 0
    BY <1>3 DEF Ledger, Pending
  <2>2. \A v \in Workers : pc'[v] # "free" =>
          outcome[held'[v]] = "none" /\ sends[held'[v]] = Requests(v)'
    BY <1>3, <1>4 DEF Ledger, Pending, Requests
  <2>3. QED
    BY <2>1, <2>2, <1>2 DEF Pending
<1>8. ProbeSent' /\ Summarised' /\ Settled' /\ Kept' /\ Unwinds'
  BY <1>2, <1>5 DEF Ledger, ProbeSent, Summarised, Settled, Kept, Unwinds
<1>9. Asked'
  BY <1>2, <1>5, Zenon DEF Ledger, Asked
<1>10. QED
  BY <1>6, <1>7, <1>8, <1>9 DEF Ledger

(* A worker goes on with its file, which it may request.                   *)
LEMMA GoOnLedger ==
  ASSUME IInv, Ledger, NEW w \in Workers, pc[w] # "free",
         UNCHANGED <<queue, held, creator, phase, results, summary, outcome, blocked>>,
         NEW p \in {"taken", "passed", "downloading", "ended"}, pc' = [pc EXCEPT ![w] = p],
         \/ sends' = sends /\ (pc[w] \in {"taken", "passed"} <=> p \in {"taken", "passed"})
         \/ /\ sends' = [sends EXCEPT ![held[w]] = @ + 1]
            /\ pc[w] = "passed" /\ p = "downloading"
  PROVE  Ledger'
<1>1. /\ pc \in [Workers -> {"free", "taken", "passed", "downloading", "ended"}]
      /\ queue \in Seq(Files) /\ sends \in [Files -> Nat] /\ TypeOK
  BY DEF IInv, Shape, TypeOK
<1>2. /\ Running /\ held[w] \in Range(Batch) /\ held[w] \in Files
      /\ Range(Batch) \subseteq Files /\ phase \in {"pool", "unwinding"}
  BY BusyHolds, BatchFiles, <1>1 DEF IInv
<1>3. /\ \A v \in Workers : v # w => pc'[v] = pc[v]
      /\ pc'[w] = p
  BY <1>1
<1>4. /\ \A f \in Files : f # held[w] => sends'[f] = sends[f]
      /\ sends[held[w]] = Requests(w) /\ sends'[held[w]] = Requests(w)'
      /\ \A f \in Files : sends'[f] >= sends[f]
  <2>1. sends[held[w]] = Requests(w)
    BY DEF Ledger, Pending
  <2>2. QED
    BY <1>1, <1>2, <1>3, <2>1 DEF Requests
<1>5. Batch' = Batch
  BY DEF Batch
<1>6. OnePlace'
  BY <1>3 DEF Ledger, OnePlace
<1>7. Pending'
  <2>1. ASSUME NEW i \in DOMAIN queue PROVE outcome[queue[i]] = "none" /\ sends'[queue[i]] = 0
    <3>1. queue[i] \in Files /\ queue[i] # held[w]
      BY <1>1 DEF Ledger, OnePlace
    <3>2. QED
      BY <1>4, <3>1 DEF Ledger, Pending
  <2>2. ASSUME NEW v \in Workers, pc'[v] # "free"
        PROVE  outcome[held[v]] = "none" /\ sends'[held[v]] = Requests(v)'
    <3>1. CASE v = w
      BY <1>4, <3>1 DEF Ledger, Pending
    <3>2. CASE v # w
      <4>1. pc[v] # "free" /\ pc'[v] = pc[v] /\ held[v] # held[w] /\ held[v] \in Files
        BY <1>3, <2>2, <3>2, BusyHolds DEF Ledger, OnePlace, IInv
      <4>2. QED
        BY <1>4, <4>1 DEF Ledger, Pending, Requests
    <3>3. QED
      BY <3>1, <3>2
  <2>3. QED
    BY <2>1, <2>2 DEF Pending
<1>8. ProbeSent' /\ Summarised' /\ Kept' /\ Unwinds'
  BY <1>2, <1>5 DEF Ledger, ProbeSent, Summarised, Kept, Unwinds
<1>9. Settled'
  <2>1. outcome[held[w]] = "none"
    BY DEF Ledger, Pending
  <2>2. QED
    BY <1>4, <2>1 DEF Ledger, Settled
<1>10. Asked'
  <2>1. ASSUME \E f \in Range(Batch) : sends[f] > 0 PROVE \E f \in Range(Batch) : sends'[f] > 0
    BY <1>1, <1>2, <1>4, <2>1
  <2>2. QED
    BY <1>5, <2>1, Zenon DEF Ledger, Asked
<1>11. QED
  BY <1>6, <1>7, <1>8, <1>9, <1>10 DEF Ledger

LEMMA WorkerLedger == ASSUME IInv, Ledger, Answered, NEW w \in Workers, WorkerStep(w) PROVE Ledger'
<1>1. CASE Take(w)
  BY <1>1, TakeLedger
<1>2. CASE Refuse(w)
  <2>1. /\ pc[w] = "taken" /\ blocked
        /\ UNCHANGED <<queue, sends, creator, phase, results, summary>>
        /\ outcome' = [outcome EXCEPT ![held[w]] = "blocked"]
        /\ held' = [held EXCEPT ![w] = NoFile] /\ pc' = [pc EXCEPT ![w] = "free"]
    BY <1>2, Zenon DEF Refuse, Finish, main
  <2>2. sends[held[w]] = 0 /\ pc[w] # "free"
    BY <2>1 DEF Ledger, Pending, Requests
  <2>3. "blocked" \in Answers
    BY DEF Answers
  <2>4. QED
    BY <2>1, <2>2, <2>3, FinishLedger
<1>3. CASE Mark(w)
  <2>1. /\ pc[w] = "ended"
        /\ UNCHANGED <<queue, sends, creator, phase, results, summary>>
        /\ outcome' = [outcome EXCEPT ![held[w]] = answer[w]]
        /\ held' = [held EXCEPT ![w] = NoFile] /\ pc' = [pc EXCEPT ![w] = "free"]
    BY <1>3, Zenon DEF Mark, Finish, main
  <2>2. sends[held[w]] = 1 /\ pc[w] # "free"
    BY <2>1 DEF Ledger, Pending, Requests
  <2>3. answer[w] \in Answers
    BY <2>1 DEF Answered
  <2>4. QED
    BY <2>1, <2>2, <2>3, FinishLedger
<1>4. CASE Pass(w)
  <2>1. /\ pc[w] = "taken" /\ pc' = [pc EXCEPT ![w] = "passed"]
        /\ UNCHANGED <<queue, held, creator, phase, results, summary, outcome, blocked, sends>>
    BY <1>4, Zenon DEF Pass, main
  <2>2. QED
    BY <2>1, GoOnLedger
<1>5. CASE Start(w)
  <2>1. /\ pc[w] = "passed" /\ pc' = [pc EXCEPT ![w] = "downloading"]
        /\ sends' = [sends EXCEPT ![held[w]] = @ + 1]
        /\ UNCHANGED <<queue, held, creator, phase, results, summary, outcome, blocked>>
    BY <1>5, Zenon DEF Start, main
  <2>2. QED
    BY <2>1, GoOnLedger
<1>6. CASE \E a \in Answers : End(w, a)
  <2>1. /\ pc[w] = "downloading" /\ pc' = [pc EXCEPT ![w] = "ended"]
        /\ UNCHANGED <<queue, held, creator, phase, results, summary, outcome, blocked, sends>>
    BY <1>6, Zenon DEF End, main
  <2>2. QED
    BY <2>1, GoOnLedger
<1>7. QED
  BY <1>1, <1>2, <1>3, <1>4, <1>5, <1>6, Zenon DEF WorkerStep

LEMMA WorkerAnswered == ASSUME IInv, Answered, NEW w \in Workers, WorkerStep(w) PROVE Answered'
<1>1. /\ pc \in [Workers -> {"free", "taken", "passed", "downloading", "ended"}]
      /\ answer \in [Workers -> Answers \cup {"none"}]
  BY DEF IInv, Shape, TypeOK
<1>2. CASE \E a \in Answers : End(w, a)
  <2>1. PICK a \in Answers : /\ answer' = [answer EXCEPT ![w] = a]
                            /\ pc' = [pc EXCEPT ![w] = "ended"]
    BY <1>2, Zenon DEF End
  <2>2. QED
    BY <1>1, <2>1 DEF Answered
<1>3. CASE Refuse(w) \/ Mark(w)
  <2>1. /\ answer' = [answer EXCEPT ![w] = "none"]
        /\ pc' = [pc EXCEPT ![w] = "free"]
    BY <1>3, Zenon DEF Refuse, Mark, Finish
  <2>2. QED
    BY <1>1, <2>1 DEF Answered
<1>4. CASE Take(w) \/ Pass(w) \/ Start(w)
  <2>1. /\ answer' = answer
        /\ \E p \in {"taken", "passed", "downloading"} : pc' = [pc EXCEPT ![w] = p]
    BY <1>4, Zenon DEF Take, Pass, Start
  <2>2. QED
    BY <1>1, <2>1 DEF Answered
<1>5. QED
  BY <1>2, <1>3, <1>4, Zenon DEF WorkerStep

LEMMA WorkerOInv == ASSUME OInv, NEW w \in Workers, WorkerStep(w) PROVE OInv'
<1>1. IInv' /\ Ledger' /\ Answered'
  BY WorkerIInv, WorkerLedger, WorkerAnswered DEF OInv
<1>2. /\ Running /\ TypeOK /\ Summarised /\ summary' = summary
      /\ \A f \in Files : f \in Range(Batch) \/ (outcome'[f] = outcome[f] /\ sends'[f] = sends[f])
  <2>1. summary' = summary
    BY Zenon DEF WorkerStep, Take, Refuse, Pass, Start, End, Mark, main
  <2>2. QED
    BY <2>1, WorkerFrame, BusyHolds DEF OInv, IInv, Shape, Ledger
<1>3. CompletedHasOutcomes'
  BY <1>2, OthersAccounted, AllAccounted DEF OInv
<1>4. QED
  BY <1>1, <1>3 DEF OInv

-----------------------------------------------------------------------------
(* Outside of the pool nothing is in the queue or in a worker's hands.     *)
LEMMA NothingPending ==
  ASSUME queue' = <<>>, \A w \in Workers : pc'[w] = "free"
  PROVE  OnePlace' /\ Pending'
<1>1. DOMAIN queue' = {}
  OBVIOUS
<1>2. QED
  BY <1>1 DEF OnePlace, Pending

(* The queue of a pool that opens holds files that are distinct, not       *)
(* requested and without an outcome.                                       *)
LEMMA AllPending ==
  ASSUME NEW s, queue' = s, \A w \in Workers : pc'[w] = "free",
         \A i, j \in DOMAIN s : s[i] = s[j] => i = j,
         \A i \in DOMAIN s : outcome'[s[i]] = "none" /\ sends'[s[i]] = 0
  PROVE  OnePlace' /\ Pending'
  BY DEF OnePlace, Pending

LEMMA OpenPoolOInv == ASSUME OInv, OpenPool PROVE OInv'
<1>1. /\ phase = "begin" /\ phase' = "pool" /\ queue' = Batch /\ Running
      /\ UNCHANGED <<creator, pc, outcome, sends, results, summary, answer, blocked>>
      /\ ~(blocked /\ Batch # <<>>)
  BY Zenon DEF OpenPool
<1>2. /\ IInv' /\ TypeOK /\ Untouched /\ Unsent /\ Batch' = Batch
      /\ \A w \in Workers : pc'[w] = "free"
  BY <1>1, OpenPoolIInv DEF OInv, IInv, Shape, PoolClosed, Batch
<1>3. \A i \in DOMAIN Batch : outcome[Batch[i]] = "none" /\ sends[Batch[i]] = 0
  BY <1>1, <1>2, BatchFiles DEF Untouched, Unsent, Batch
<1>4. OnePlace' /\ Pending'
  <2>1. \A i, j \in DOMAIN Batch : Batch[i] = Batch[j] => i = j
    BY <1>1, <1>2, BatchFiles, FilesDistinct DEF Batch
  <2>2. QED
    BY <1>1, <1>2, <1>3, <2>1, AllPending
<1>5. \A f \in Range(Batch) : outcome[f] = "none"
  BY <1>3 DEF Range
<1>6. Asked'
  BY <1>1, <1>2, <1>5, Zenon DEF Asked
<1>7. /\ ProbeSent' /\ Settled' /\ Kept' /\ Unwinds' /\ Summarised' /\ Answered'
  BY <1>1, <1>2 DEF OInv, Ledger, ProbeSent, Settled, Kept, Unwinds, Summarised, Answered
<1>8. CompletedHasOutcomes'
  BY <1>1 DEF OInv, CompletedHasOutcomes
<1>9. QED
  BY <1>2, <1>4, <1>6, <1>7, <1>8 DEF OInv, Ledger

LEMMA StartProbeOInv == ASSUME OInv, StartProbe PROVE OInv'
<1>1. /\ phase = "begin" /\ phase' = "probe" /\ Running /\ Batch # <<>>
      /\ UNCHANGED <<creator, pc, queue, outcome, results, summary, answer>>
      /\ sends' = [sends EXCEPT ![Head(Batch)] = @ + 1]
  BY Zenon DEF StartProbe, worker
<1>2. /\ IInv' /\ TypeOK /\ Untouched /\ Unsent /\ Batch' = Batch /\ queue = <<>>
      /\ \A w \in Workers : pc[w] = "free"
  BY <1>1, StartProbeIInv DEF OInv, IInv, Shape, PoolClosed, Batch
<1>3. /\ Head(Batch) \in Range(Batch) /\ Head(Batch) \in Files
      /\ outcome[Head(Batch)] = "none" /\ sends[Head(Batch)] = 0
  <2>1. 1 \in DOMAIN Batch /\ Head(Batch) = Batch[1] /\ Batch \in Seq(Files) /\ creator \in DOMAIN Batches
    BY <1>1, <1>2, BatchFiles, HeadAndTail
  <2>2. QED
    BY <1>1, <1>2, <2>1, HeadAndTail DEF Untouched, Unsent, Batch
<1>4. /\ \A f \in Files : f # Head(Batch) => sends'[f] = sends[f]
      /\ sends'[Head(Batch)] = 1
  BY <1>1, <1>2, <1>3 DEF TypeOK
<1>5. OnePlace' /\ Pending'
  BY <1>1, <1>2, NothingPending
<1>6. Settled'
  BY <1>1, <1>3, <1>4 DEF OInv, Ledger, Settled
<1>7. ProbeSent' /\ Kept' /\ Unwinds' /\ Summarised' /\ Answered' /\ Asked'
  BY <1>1, <1>2, <1>4 DEF OInv, Ledger, ProbeSent, Kept, Unwinds, Summarised, Answered, Asked
<1>8. CompletedHasOutcomes'
  <2>1. \A f \in Files : f \in Range(Batch) \/ (outcome'[f] = outcome[f] /\ sends'[f] = sends[f])
    BY <1>1, <1>3, <1>4
  <2>2. QED
    BY <1>1, <1>2, <2>1, OthersAccounted, AllAccounted DEF OInv, Ledger
<1>9. QED
  BY <1>2, <1>5, <1>6, <1>7, <1>8 DEF OInv, Ledger

LEMMA EndProbeOInv == ASSUME OInv, NEW a \in Answers, EndProbe(a) PROVE OInv'
<1>1. /\ phase = "probe" /\ phase' = "pool" /\ a # "raised"
      /\ UNCHANGED <<creator, pc, sends, summary, answer>>
      /\ outcome' = [outcome EXCEPT ![Head(Batch)] = a]
      /\ results' = {Head(Batch)} /\ queue' = Tail(Batch)
  BY Zenon DEF EndProbe
<1>2. /\ IInv' /\ TypeOK /\ Untouched /\ Unsent /\ Batch' = Batch /\ Running /\ Batch # <<>>
      /\ \A w \in Workers : pc'[w] = "free"
  BY <1>1, EndProbeIInv DEF OInv, IInv, Shape, PoolClosed, ProbeHasFile, Batch, TypeOK
<1>3. /\ Batch \in Seq(Files) /\ creator \in DOMAIN Batches
      /\ 1 \in DOMAIN Batch /\ Head(Batch) = Batch[1]
      /\ Head(Batch) \in Range(Batch) /\ Head(Batch) \in Files
      /\ \A i \in DOMAIN Tail(Batch) : i + 1 \in DOMAIN Batch /\ i + 1 > 1 /\ Tail(Batch)[i] = Batch[i + 1]
      /\ \A i \in DOMAIN Tail(Batch) : i \in Int
  BY <1>1, <1>2, BatchFiles, HeadAndTail
<1>4. sends[Head(Batch)] = 1
  BY <1>1 DEF OInv, Ledger, ProbeSent
<1>5. /\ \A f \in Files : f # Head(Batch) => outcome'[f] = outcome[f]
      /\ outcome'[Head(Batch)] = a
  BY <1>1, <1>2, <1>3 DEF TypeOK
<1>6. \A i, j \in DOMAIN Batch : Batch[i] = Batch[j] => i = j
  BY <1>3, FilesDistinct DEF Batch
<1>7. OnePlace' /\ Pending'
  <2>1. \A i \in DOMAIN Batch : i > 1 =>
          outcome[Batch[i]] = "none" /\ sends[Batch[i]] = 0 /\ Batch[i] # Head(Batch) /\ Batch[i] \in Files
    BY <1>1, <1>2, <1>3, <1>6, BatchFiles DEF Untouched, Unsent, Batch
  <2>2. \A i, j \in DOMAIN Tail(Batch) : Tail(Batch)[i] = Tail(Batch)[j] => i = j
    BY <1>3, <1>6
  <2>3. \A i \in DOMAIN Tail(Batch) : outcome'[Tail(Batch)[i]] = "none" /\ sends'[Tail(Batch)[i]] = 0
    BY <1>1, <1>3, <1>5, <2>1
  <2>4. QED
    BY <1>1, <1>2, <2>2, <2>3, AllPending
<1>8. Settled'
  BY <1>1, <1>4, <1>5 DEF OInv, Ledger, Settled
<1>9. Kept'
  BY <1>1, <1>5 DEF Kept, Answers
<1>10. Asked'
  BY <1>1, <1>2, <1>3, <1>4 DEF Asked
<1>11. ProbeSent' /\ Unwinds' /\ Summarised' /\ Answered'
  BY <1>1 DEF OInv, Ledger, ProbeSent, Unwinds, Summarised, Answered
<1>12. CompletedHasOutcomes'
  <2>1. \A f \in Files : f \in Range(Batch) \/ (outcome'[f] = outcome[f] /\ sends'[f] = sends[f])
    BY <1>1, <1>3, <1>5
  <2>2. QED
    BY <1>1, <1>2, <2>1, OthersAccounted, AllAccounted DEF OInv, Ledger
<1>13. QED
  BY <1>2, <1>7, <1>8, <1>9, <1>10, <1>11, <1>12 DEF OInv, Ledger

(* as_completed hands over one more future. *)
LEMMA CollectOInv ==
  ASSUME OInv, IInv', NEW f \in Files, Collect(f) \/ CollectRaises(f) PROVE OInv'
<1>1. /\ phase = "pool" /\ f \in Range(Batch)
      /\ UNCHANGED <<creator, pc, held, answer, queue, outcome, sends, summary, blocked>>
      /\ \/ outcome[f] \notin {"none", "raised"} /\ results' = results \cup {f} /\ phase' = phase
         \/ outcome[f] = "raised" /\ phase' = "unwinding" /\ results' = results
  BY Zenon DEF Collect, CollectRaises, worker
<1>2. outcome[f] \in Answers \cup {"none"} /\ Batch' = Batch
  BY <1>1 DEF OInv, IInv, Shape, TypeOK, Batch
<1>3. OnePlace'
  BY <1>1 DEF OInv, Ledger, OnePlace
<1>4. Pending'
  BY <1>1 DEF OInv, Ledger, Pending, Requests
<1>5. ProbeSent' /\ Settled' /\ Summarised' /\ Answered'
  BY <1>1 DEF OInv, Ledger, ProbeSent, Settled, Summarised, Answered
<1>6. Kept'
  BY <1>1, <1>2 DEF OInv, Ledger, Kept, Answers
<1>7. Unwinds'
  BY <1>1, <1>2 DEF Unwinds
<1>8. Asked'
  <2>1. phase \in {"pool", "unwinding"}
    BY <1>1
  <2>2. QED
    BY <1>1, <1>2, <2>1, Zenon DEF OInv, Ledger, Asked
<1>9. CompletedHasOutcomes'
  BY <1>1 DEF OInv, CompletedHasOutcomes
<1>10. QED
  BY <1>3, <1>4, <1>5, <1>6, <1>7, <1>8, <1>9 DEF OInv, Ledger

(* main goes on: what it leaves behind is accounted for. *)
LEMMA EndCreatorOInv ==
  ASSUME OInv, IInv', Running, NEW s \in {"completed", "failed"}, EndCreator(s),
         queue' = <<>>, \A w \in Workers : pc'[w] = "free", UNCHANGED sends,
         \A f \in Files : f \in Range(Batch) \/ outcome'[f] = outcome[f],
         Settled',
         s = "completed" => \A f \in Range(Batch) : outcome'[f] \in {"success", "blocked", "failed"},
         Batch # <<>> => \E f \in Range(Batch) : sends[f] > 0
  PROVE  OInv'
<1>1. /\ creator' = creator + 1 /\ phase' = "begin" /\ results' = {}
      /\ summary' = [summary EXCEPT ![creator] = s]
      /\ summary \in [DOMAIN Batches -> {"none", "completed", "failed"}]
      /\ TypeOK /\ creator \in DOMAIN Batches /\ Range(Batch) \subseteq Files
      /\ DOMAIN Batches = 1..Len(Batches) /\ Len(Batches) \in Nat
  <2>1. TypeOK
    BY DEF OInv, IInv, Shape
  <2>2. DOMAIN Batches = 1..Len(Batches) /\ summary \in [DOMAIN Batches -> {"none", "completed", "failed"}]
    BY <2>1, PoolAssumption DEF TypeOK
  <2>3. QED
    BY <2>1, <2>2, BatchFiles DEF EndCreator
<1>2. OnePlace' /\ Pending'
  BY NothingPending
<1>3. ProbeSent' /\ Kept' /\ Asked' /\ Unwinds' /\ Answered'
  BY <1>1 DEF ProbeSent, Kept, Asked, Unwinds, Answered
<1>4. Summarised'
  <2> SUFFICES ASSUME NEW c \in DOMAIN Batches, summary'[c] # "none" PROVE c < creator + 1
    BY <1>1 DEF Summarised
  <2>1. CASE c = creator
    BY <2>1, <1>1
  <2>2. CASE c # creator
    BY <2>2, <1>1 DEF OInv, Ledger, Summarised
  <2>3. QED
    BY <2>1, <2>2
<1>5. ASSUME NEW c \in DOMAIN Batches PROVE Accounted(c)'
  <2>1. CASE c # creator
    <3>1. summary'[c] = summary[c]
      BY <1>1, <2>1
    <3>2. QED
      BY <1>1, <3>1, OthersAccounted DEF OInv, Ledger
  <2>2. CASE c = creator
    <3>1. summary'[c] = s /\ Batches[c] = Batch
      BY <1>1, <2>2 DEF Batch
    <3>2. ASSUME s = "completed", NEW f \in Range(Batch)
          PROVE  /\ outcome'[f] \in {"success", "blocked", "failed"}
                 /\ sends'[f] = 1 \/ (sends'[f] = 0 /\ outcome'[f] = "blocked")
      BY <1>1, <3>2 DEF Settled
    <3>3. QED
      BY <3>1, <3>2 DEF Accounted
  <2>3. QED
    BY <2>1, <2>2
<1>6. CompletedHasOutcomes'
  BY <1>5, AllAccounted
<1>7. QED
  BY <1>2, <1>3, <1>4, <1>6 DEF OInv, Ledger

LEMMA ProbeRaisesOInv == ASSUME OInv, IInv', ProbeRaises PROVE OInv'
<1>1. /\ phase = "probe" /\ EndCreator("failed")
      /\ UNCHANGED <<queue, pc, sends>>
      /\ outcome' = [outcome EXCEPT ![Head(Batch)] = "raised"]
  BY Zenon DEF ProbeRaises, worker
<1>2. /\ TypeOK /\ Running /\ Batch # <<>> /\ queue = <<>> /\ \A w \in Workers : pc[w] = "free"
  BY <1>1 DEF OInv, IInv, Shape, PoolClosed, ProbeHasFile, TypeOK
<1>3. Head(Batch) \in Range(Batch) /\ Head(Batch) \in Files /\ sends[Head(Batch)] = 1
  BY <1>1, <1>2, BatchFiles, HeadAndTail DEF OInv, Ledger, ProbeSent
<1>4. /\ \A f \in Files : f # Head(Batch) => outcome'[f] = outcome[f]
  BY <1>1, <1>2, <1>3 DEF TypeOK
<1>5. Settled'
  BY <1>1, <1>3, <1>4 DEF OInv, Ledger, Settled
<1>6. QED
  BY <1>1, <1>2, <1>3, <1>4, <1>5, EndCreatorOInv

LEMMA LeavePoolOInv == ASSUME OInv, IInv', Complete \/ Abort PROVE OInv'
<1>1. /\ phase \in {"pool", "unwinding"} /\ Drained
      /\ UNCHANGED <<queue, pc, sends, outcome>>
      /\ \/ phase = "pool" /\ results = Range(Batch) /\ EndCreator("completed")
         \/ phase = "unwinding" /\ EndCreator("failed")
  BY Zenon DEF Complete, Abort, worker
<1>2. TypeOK /\ Running /\ queue = <<>> /\ \A w \in Workers : pc[w] = "free"
  BY <1>1 DEF OInv, IInv, Shape, TypeOK, Drained
<1>3. Settled'
  BY <1>1 DEF OInv, Ledger, Settled
<1>4. ASSUME Batch # <<>> PROVE \E f \in Range(Batch) : sends[f] > 0
  <2>1. \E f \in Range(Batch) : outcome[f] # "none"
    <3>1. CASE phase = "unwinding"
      BY <3>1 DEF OInv, Ledger, Unwinds
    <3>2. CASE results = Range(Batch)
      <4>1. Head(Batch) \in Range(Batch)
        BY <1>2, <1>4, BatchFiles, HeadAndTail
      <4>2. QED
        BY <3>2, <4>1 DEF OInv, Ledger, Kept
    <3>3. QED
      BY <1>1, <3>1, <3>2
  <2>2. QED
    BY <1>1, <1>4, <2>1, Zenon DEF OInv, Ledger, Asked
<1>5. CASE phase = "pool" /\ results = Range(Batch) /\ EndCreator("completed")
  <2>1. \A f \in Range(Batch) : outcome'[f] \in {"success", "blocked", "failed"}
    BY <1>1, <1>5 DEF OInv, Ledger, Kept
  <2>2. QED
    BY <1>1, <1>2, <1>3, <1>4, <1>5, <2>1, EndCreatorOInv
<1>6. CASE phase = "unwinding" /\ EndCreator("failed")
  BY <1>1, <1>2, <1>3, <1>4, <1>6, EndCreatorOInv
<1>7. QED
  BY <1>1, <1>5, <1>6

LEMMA MainOInv == ASSUME OInv, MainStep PROVE OInv'
<1>1. IInv'
  BY MainIInv DEF OInv
<1>2. QED
  BY <1>1, OpenPoolOInv, StartProbeOInv, EndProbeOInv, ProbeRaisesOInv, CollectOInv, LeavePoolOInv,
     Zenon DEF MainStep, EndProbes

LEMMA OtherOInv == ASSUME OInv, Toggle \/ UNCHANGED vars PROVE OInv'
<1>1. UNCHANGED <<blocked, creator, phase, results, summary, queue, pc, held, answer, outcome, sends>>
  BY Zenon DEF Toggle, vars, main, worker
<1>2. IInv'
  BY OtherIInv DEF OInv
<1>3. Batch' = Batch
  BY <1>1 DEF Batch
<1>4. OnePlace' /\ Answered'
  BY <1>1 DEF OInv, Ledger, OnePlace, Answered
<1>5. Pending'
  BY <1>1 DEF OInv, Ledger, Pending, Requests
<1>6. ProbeSent' /\ Settled' /\ Kept' /\ Unwinds' /\ Summarised'
  BY <1>1, <1>3 DEF OInv, Ledger, ProbeSent, Settled, Kept, Unwinds, Summarised
<1>7. Asked'
  BY <1>1, <1>3, Zenon DEF OInv, Ledger, Asked
<1>8. CompletedHasOutcomes'
  BY <1>1 DEF OInv, CompletedHasOutcomes
<1>9. QED
  BY <1>2, <1>4, <1>5, <1>6, <1>7, <1>8 DEF OInv, Ledger

LEMMA InitOInv == Init => OInv
<1> SUFFICES ASSUME Init PROVE OInv
  OBVIOUS
<1>1. IInv
  BY InitIInv
<1>2. /\ queue = <<>> /\ phase = "begin" /\ results = {}
      /\ \A w \in Workers : pc[w] = "free"
      /\ \A f \in Files : outcome[f] = "none"
      /\ \A c \in DOMAIN Batches : summary[c] = "none"
  BY DEF Init
<1>3. OnePlace /\ Pending
  <2>1. DOMAIN queue = {}
    BY <1>2
  <2>2. QED
    BY <1>2, <2>1 DEF OnePlace, Pending
<1>4. QED
  BY <1>1, <1>2, <1>3
     DEF OInv, Ledger, ProbeSent, Settled, Kept, Asked, Unwinds, Summarised, Answered,
         CompletedHasOutcomes

LEMMA NextOInv == OInv /\ [Next]_vars => OInv'
<1> SUFFICES ASSUME OInv, [Next]_vars PROVE OInv'
  OBVIOUS
<1>1. QED
  BY MainOInv, WorkerOInv, OtherOInv, Zenon DEF Next, Finished

-----------------------------------------------------------------------------
(* download_all_files returns only with an outcome for each file of the    *)
(* creator, no file is downloaded twice, and some file of each creator is  *)
(* asked for, for any creators, files, workers and behaviour of the mirror. *)
THEOREM AllHaveOutcomes == Spec => []CompletedHasOutcomes
<1>1. OInv => CompletedHasOutcomes
  BY DEF OInv
<1>2. QED
  BY InitOInv, NextOInv, <1>1, PTL DEF Spec
-----------------------------------------------------------------------------
(* The pool and the probe, seen as Downloads. *)
LEMMA InitReturns == Init => Returns!Init
<1> SUFFICES ASSUME Init PROVE Returns!Init
  OBVIOUS
<1>1. \A f \in Files : Settlement(outcome[f]) = "none"
  BY DEF Init, Settlement
<1>2. DOMAIN [c \in DOMAIN Batches |-> Range(Batches[c])] = DOMAIN Batches
  OBVIOUS
<1>3. QED
  BY <1>1, <1>2 DEF Init, Returns!Init

(* Files of the running creator that had no outcome get one. *)
LEMMA Settles ==
  ASSUME TypeOK, TypeOK', Running, UNCHANGED <<creator, summary>>,
         \A f \in Files : outcome'[f] = outcome[f] \/ (f \in Range(Batch) /\ outcome[f] = "none")
  PROVE  Returns!Next
<1>1. creator \in DOMAIN Batches
  BY BatchFiles
<1>2. \A f \in Files : Settlement(outcome'[f]) \in (Answers \ {"raised"}) \cup {"none"}
  BY DEF TypeOK, Settlement
<1>3. ASSUME NEW f \in Files, Settlement(outcome'[f]) # Settlement(outcome[f])
      PROVE  f \in Range(Batches[creator]) /\ Settlement(outcome[f]) = "none"
  BY <1>3 DEF Settlement, Batch
<1>4. Returns!Settle
  BY <1>1, <1>2, <1>3 DEF Returns!Settle, Returns!Running
<1>5. QED
  BY <1>4 DEF Returns!Next

(* main leaves a creator: no file of one it has completed is without. *)
LEMMA Leaves ==
  ASSUME TypeOK, Running, NEW s \in {"completed", "failed"}, EndCreator(s),
         \A f \in Files : Settlement(outcome'[f]) = Settlement(outcome[f]),
         s = "completed" => \A f \in Range(Batch) : outcome[f] \in {"success", "blocked", "failed"}
  PROVE  Returns!Next
<1>1. creator \in DOMAIN Batches /\ Range(Batch) \subseteq Files
  BY BatchFiles
<1>2. creator' = creator + 1 /\ summary' = [summary EXCEPT ![creator] = s]
  BY DEF EndCreator
<1>3. s = "completed" => \A f \in Range(Batches[creator]) : Settlement(outcome[f]) # "none"
  BY DEF Settlement, Batch
<1>4. Returns!End(s)
  BY <1>1, <1>2, <1>3 DEF Returns!End, Returns!Running, Batch
<1>5. QED
  BY <1>4 DEF Returns!Next

LEMMA WorkerReturns == ASSUME OInv, NEW w \in Workers, WorkerStep(w) PROVE Returns!Next
<1>1. TypeOK /\ TypeOK' /\ Running /\ creator' = creator
  BY WorkerFrame, WorkerTypeOK DEF OInv, IInv, Shape
<1>2. summary' = summary
  BY Zenon DEF WorkerStep, Take, Refuse, Pass, Start, End, Mark, main
<1>3. ASSUME NEW f \in Files
      PROVE  outcome'[f] = outcome[f] \/ (f \in Range(Batch) /\ outcome[f] = "none")
  BY WorkerFrame, BusyHolds DEF OInv, IInv, Ledger, Pending
<1>4. QED
  BY <1>1, <1>2, <1>3, Settles

LEMMA EndProbeReturns == ASSUME OInv, NEW a \in Answers, EndProbe(a) PROVE Returns!Next
<1>1. /\ phase = "probe" /\ UNCHANGED <<creator, summary>>
      /\ outcome' = [outcome EXCEPT ![Head(Batch)] = a]
  BY Zenon DEF EndProbe
<1>2. TypeOK /\ Running /\ Batch # <<>> /\ Untouched
  BY <1>1 DEF OInv, IInv, Shape, ProbeHasFile, TypeOK
<1>3. TypeOK'
  BY MainTypeOK DEF OInv, IInv, MainStep, EndProbes
<1>4. Head(Batch) \in Range(Batch) /\ outcome[Head(Batch)] = "none"
  BY <1>1, <1>2, BatchFiles, HeadAndTail DEF Untouched, Batch
<1>5. \A f \in Files : f # Head(Batch) => outcome'[f] = outcome[f]
  BY <1>1, <1>2 DEF TypeOK
<1>6. QED
  BY <1>1, <1>2, <1>3, <1>4, <1>5, Settles

LEMMA ProbeRaisesReturns == ASSUME OInv, ProbeRaises PROVE Returns!Next
<1>1. /\ phase = "probe" /\ EndCreator("failed")
      /\ outcome' = [outcome EXCEPT ![Head(Batch)] = "raised"]
  BY Zenon DEF ProbeRaises
<1>2. TypeOK /\ Running /\ Batch # <<>> /\ Untouched
  BY <1>1 DEF OInv, IInv, Shape, ProbeHasFile, TypeOK
<1>3. Head(Batch) \in Files /\ outcome[Head(Batch)] = "none"
  BY <1>1, <1>2, BatchFiles, HeadAndTail DEF Untouched, Batch
<1>4. ASSUME NEW f \in Files PROVE Settlement(outcome'[f]) = Settlement(outcome[f])
  BY <1>1, <1>2, <1>3 DEF TypeOK, Settlement
<1>5. QED
  BY <1>1, <1>2, <1>4, Leaves

LEMMA LeavePoolReturns == ASSUME OInv, Complete \/ Abort PROVE Returns!Next
<1>1. /\ phase \in {"pool", "unwinding"} /\ outcome' = outcome
      /\ \/ results = Range(Batch) /\ EndCreator("completed")
         \/ EndCreator("failed")
  BY Zenon DEF Complete, Abort
<1>2. TypeOK /\ Running
  BY <1>1 DEF OInv, IInv, Shape, TypeOK
<1>3. CASE results = Range(Batch) /\ EndCreator("completed")
  BY <1>1, <1>2, <1>3, Leaves DEF OInv, Ledger, Kept
<1>4. CASE EndCreator("failed")
  BY <1>1, <1>2, <1>4, Leaves
<1>5. QED
  BY <1>1, <1>3, <1>4

LEMMA NextReturns == OInv /\ [Next]_vars => [Returns!Next]_(Returns!dvars)
<1> SUFFICES ASSUME OInv, [Next]_vars PROVE Returns!Next \/ UNCHANGED Returns!dvars
  OBVIOUS
<1>1. CASE \/ OpenPool \/ StartProbe \/ Toggle \/ UNCHANGED vars
          \/ \E f \in Files : Collect(f) \/ CollectRaises(f)
  <2>1. UNCHANGED <<creator, summary, outcome>>
    BY <1>1, Zenon DEF OpenPool, StartProbe, Collect, CollectRaises, Toggle, vars, main
  <2>2. QED
    BY <2>1 DEF Returns!dvars
<1>2. CASE EndProbes \/ ProbeRaises \/ Complete \/ Abort
  BY <1>2, EndProbeReturns, ProbeRaisesReturns, LeavePoolReturns, Zenon DEF EndProbes
<1>3. CASE \E w \in Workers : WorkerStep(w)
  BY <1>3, WorkerReturns, Zenon
<1>4. QED
  BY <1>1, <1>2, <1>3, Zenon DEF Next, MainStep, Finished

(* No file comes to its outcome twice, or while another creator runs, and  *)
(* a creator is completed only when each has one: every behaviour of the   *)
(* probe and the pool is one of Downloads, for any creators, files and     *)
(* workers (that main gets past every creator is model-checked).           *)
THEOREM PoolSettles == Spec => Returns!Safety
<1>1. QED
  BY InitOInv, NextOInv, InitReturns, NextReturns, PTL DEF Spec, Returns!Safety
=============================================================================
