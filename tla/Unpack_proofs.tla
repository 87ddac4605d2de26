----------------------------- MODULE Unpack_proofs -----------------------------
(***************************************************************************)
(* Proofs about Unpack, for any archives, passwords and workers: what the  *)
(* workers share does not mix up their entries, and what becomes of the    *)
(* passwords they learn.                                                   *)
(***************************************************************************)
EXTENDS Unpack, FiniteSetTheorems, WellFoundedInduction, TLAPS

Fields == DOMAIN Idle
Outcomes == {"none", "success", "missing", "incorrect", "broken"}
Opened == {"opened", "learn", "save", "writing"}
Phases == {"free", "record", "gather", "try", "unzip", "list", "move"} \cup Opened

(* What a worker has in hand. *)
WorkerOK(w) ==
  /\ wk[w].pc \in Phases
  /\ wk[w].pc = "free" => wk[w] = Idle
  /\ wk[w].pc # "free" => running /\ wk[w].job \in Archives \ queue
  /\ wk[w].n \in Nat /\ wk[w].written \in Nat
  /\ wk[w].pc \in {"list", "move"} \cup Opened => wk[w].cand[wk[w].n] \in Opens[Content[wk[w].job]]
  /\ wk[w].pc = "writing" => wk[w].ask = "wait" /\ wk[w].list \in Seq(Passwords)
  /\ wk[w].ask # "no" => wk[w].pc \in {"record", "save", "writing"}
  /\ wk[w].ask = "wait" => wk[w].lock \in 1..locks

Shape ==
  /\ DOMAIN wk = Workers /\ DOMAIN log = DOMAIN LogInit
  /\ conf \in {Absent, Emptied} \/ conf \in Seq(Passwords)
  /\ temp \in [Contents -> {Absent} \cup SUBSET Nat]
  /\ passwords \in Seq(Passwords)
  /\ recorded \subseteq Archives /\ queue \subseteq Archives /\ (queue # {} => running)
  /\ result \in [Archives -> Outcomes] /\ got \in [Archives -> SUBSET Nat]
  /\ locks \in Nat
  /\ \A w \in Workers : WorkerOK(w)

-----------------------------------------------------------------------------
(* What each step of a worker does to its own record, and that it leaves   *)
(* the others' alone.                                                      *)
Others(w) == DOMAIN wk' = Workers /\ \A v \in Workers : v # w => wk'[v] = wk[v]
KeepsJob(w) == wk'[w].job = wk[w].job
KeepsPassword(w) == KeepsJob(w) /\ wk'[w].cand = wk[w].cand /\ wk'[w].n = wk[w].n
KeepsLock(w) == wk'[w].ask = wk[w].ask /\ wk'[w].lock = wk[w].lock
KeepsDir(w) == wk'[w].written = wk[w].written /\ wk'[w].todo = wk[w].todo

LEMMA OthersKeep ==
  ASSUME DOMAIN wk = Workers, NEW w \in Workers, NEW c, Set(w, c)
  PROVE  Others(w)
  BY DEF Set, Others

LEMMA TakeDoes ==
  ASSUME DOMAIN wk = Workers, NEW w \in Workers, NEW a, Take(w, a), wk[w] = Idle
  PROVE  /\ Others(w) /\ wk'[w].pc = "record" /\ wk'[w].job = a /\ wk'[w].n = 1 /\ wk'[w].written = 0
         /\ wk'[w].ask = "no" /\ wk'[w].lock = 0 /\ a \in queue /\ queue' = queue \ {a}
         /\ UNCHANGED <<conf, recorded, temp, running, passwords, locks, result, got, bounds>>
<1>1. Set(w, [pc |-> "record", job |-> a])
  BY DEF Take
<1>2. Others(w)
  BY <1>1, OthersKeep
<1>3. wk'[w].pc = "record" /\ wk'[w].job = a /\ wk'[w].n = 1 /\ wk'[w].written = 0
      /\ wk'[w].ask = "no" /\ wk'[w].lock = 0
  BY <1>1 DEF Set, Idle
<1>4. QED
  BY <1>2, <1>3 DEF Take

(* The steps that leave all but the worker alone, and those that make or   *)
(* take the lock.                                                          *)
LEMMA AskLockDoes ==
  ASSUME DOMAIN wk = Workers, NEW w \in Workers, AskLock(w)
  PROVE  /\ Others(w) /\ wk[w].pc \in {"record", "save"} /\ wk'[w].pc = wk[w].pc /\ KeepsPassword(w)
         /\ KeepsDir(w)
         /\ \/ locks = 0 /\ wk'[w].ask = "create"
            \/ locks # 0 /\ wk'[w].ask = "wait" /\ wk'[w].lock = locks
         /\ wk[w].ask = "no"
<1>1. Set(w, IF locks = 0 THEN [ask |-> "create"] ELSE [ask |-> "wait", lock |-> locks])
      /\ wk[w].pc \in {"record", "save"} /\ wk[w].ask = "no"
  BY DEF AskLock
<1>2. Others(w)
  BY <1>1, OthersKeep
<1>3. CASE locks = 0
  <2>1. Set(w, [ask |-> "create"])
    BY <1>1, <1>3
  <2>2. QED
    BY <1>1, <1>2, <1>3, <2>1 DEF Set, Idle, KeepsPassword, KeepsJob, KeepsDir
<1>4. CASE locks # 0
  <2>1. Set(w, [ask |-> "wait", lock |-> locks])
    BY <1>1, <1>4
  <2>2. QED
    BY <1>1, <1>2, <1>4, <2>1 DEF Set, Idle, KeepsPassword, KeepsJob, KeepsDir
<1>5. QED
  BY <1>3, <1>4

LEMMA CreateLockDoes ==
  ASSUME DOMAIN wk = Workers, NEW w \in Workers, CreateLock(w)
  PROVE  /\ Others(w) /\ wk'[w].pc = wk[w].pc /\ KeepsPassword(w) /\ KeepsDir(w)
         /\ wk[w].ask = "create" /\ locks' = locks + 1 /\ wk'[w].ask = "wait" /\ wk'[w].lock = locks + 1
<1>1. Set(w, [ask |-> "wait", lock |-> locks + 1]) /\ wk[w].ask = "create" /\ locks' = locks + 1
  BY DEF CreateLock
<1>2. QED
  BY <1>1, OthersKeep DEF Set, Idle, KeepsPassword, KeepsJob, KeepsDir

LEMMA RecordDoes ==
  ASSUME DOMAIN wk = Workers, NEW w \in Workers, Record(w)
  PROVE  /\ Others(w) /\ wk[w].pc = "record" /\ wk'[w].pc = "gather" /\ KeepsPassword(w) /\ KeepsDir(w)
         /\ wk'[w].ask = "no" /\ recorded' = recorded \cup {wk[w].job}
<1>1. Set(w, [pc |-> "gather", ask |-> "no", lock |-> 0]) /\ wk[w].pc = "record"
      /\ recorded' = recorded \cup {wk[w].job}
  BY DEF Record, Job
<1>2. QED
  BY <1>1, OthersKeep DEF Set, Idle, KeepsPassword, KeepsJob, KeepsDir

LEMMA GatherDoes ==
  ASSUME DOMAIN wk = Workers, NEW w \in Workers, Gather(w)
  PROVE  /\ Others(w) /\ wk[w].pc = "gather" /\ wk'[w].pc = "try" /\ KeepsJob(w) /\ KeepsLock(w)
         /\ KeepsDir(w) /\ wk'[w].n = wk[w].n
<1>1. PICK c : Set(w, [pc |-> "try", cand |-> c]) /\ wk[w].pc = "gather"
  BY DEF Gather
<1>2. QED
  BY <1>1, OthersKeep DEF Set, Idle, KeepsLock, KeepsJob, KeepsDir

(* The steps of extract. *)
LEMMA BeginDoes ==
  ASSUME DOMAIN wk = Workers, NEW w \in Workers, Begin(w)
  PROVE  /\ Others(w) /\ wk[w].pc = "try" /\ wk'[w].pc = "unzip" /\ KeepsPassword(w) /\ KeepsLock(w)
         /\ wk'[w].written = 0 /\ temp' = [temp EXCEPT ![Content[wk[w].job]] = Absent]
<1>1. Set(w, [pc |-> "unzip", written |-> 0]) /\ wk[w].pc = "try"
      /\ temp' = [temp EXCEPT ![Content[wk[w].job]] = Absent]
  BY DEF Begin, Dir, Job
<1>2. QED
  BY <1>1, OthersKeep DEF Set, Idle, KeepsLock, KeepsJob, KeepsPassword

LEMMA WriteEntryDoes ==
  ASSUME DOMAIN wk = Workers, NEW w \in Workers, WriteEntry(w)
  PROVE  /\ Others(w) /\ wk[w].pc = "unzip" /\ wk'[w].pc = "unzip" /\ KeepsPassword(w) /\ KeepsLock(w)
         /\ wk[w].written # Members[Content[wk[w].job]] /\ wk'[w].written = wk[w].written + 1
         /\ temp' = [temp EXCEPT ![Content[wk[w].job]] =
                       (IF @ = Absent THEN {} ELSE @) \cup {wk[w].written + 1}]
<1>1. Set(w, [written |-> wk[w].written + 1]) /\ wk[w].pc = "unzip"
      /\ wk[w].written # Members[Content[wk[w].job]]
      /\ temp' = [temp EXCEPT ![Content[wk[w].job]] =
                    (IF @ = Absent THEN {} ELSE @) \cup {wk[w].written + 1}]
  BY DEF WriteEntry, Dir, Job, AllWritten
<1>2. QED
  BY <1>1, OthersKeep DEF Set, Idle, KeepsLock, KeepsJob, KeepsPassword

LEMMA WrongDoes ==
  ASSUME DOMAIN wk = Workers, NEW w \in Workers, Wrong(w)
  PROVE  /\ Others(w) /\ wk[w].pc = "unzip" /\ wk'[w].pc = "try" /\ KeepsJob(w) /\ KeepsLock(w)
         /\ KeepsDir(w) /\ wk'[w].n = wk[w].n + 1
         /\ temp' = [temp EXCEPT ![Content[wk[w].job]] = Absent]
         /\ UNCHANGED log \/ log' = [log EXCEPT !.misread = @ \cup {wk[w].job}]
<1>1. Set(w, [pc |-> "try", n |-> wk[w].n + 1]) /\ wk[w].pc = "unzip"
      /\ temp' = [temp EXCEPT ![Content[wk[w].job]] = Absent]
      /\ (UNCHANGED log \/ log' = [log EXCEPT !.misread = @ \cup {wk[w].job}])
  BY DEF Wrong, Dir, Job
<1>2. QED
  BY <1>1, OthersKeep DEF Set, Idle, KeepsLock, KeepsJob, KeepsDir

LEMMA ReturnDoes ==
  ASSUME DOMAIN wk = Workers, NEW w \in Workers, Return(w)
  PROVE  /\ Others(w) /\ wk[w].pc = "unzip" /\ KeepsPassword(w) /\ KeepsLock(w) /\ KeepsDir(w)
         /\ wk[w].cand[wk[w].n] \in Opens[Content[wk[w].job]]
         /\ wk[w].written = Members[Content[wk[w].job]]
         /\ wk'[w].pc = IF temp[Content[wk[w].job]] = Absent THEN "opened" ELSE "list"
<1>1. Set(w, [pc |-> IF temp[Content[wk[w].job]] = Absent THEN "opened" ELSE "list"]) /\ wk[w].pc = "unzip"
      /\ wk[w].cand[wk[w].n] \in Opens[Content[wk[w].job]]
      /\ wk[w].written = Members[Content[wk[w].job]]
  BY DEF Return, Dir, Job, Fits, AllWritten, Password
<1>2. QED
  BY <1>1, OthersKeep DEF Set, Idle, KeepsLock, KeepsJob, KeepsPassword, KeepsDir

LEMMA ListDoes ==
  ASSUME DOMAIN wk = Workers, NEW w \in Workers, List(w)
  PROVE  /\ Others(w) /\ wk[w].pc = "list" /\ wk'[w].pc = "move" /\ KeepsPassword(w) /\ KeepsLock(w)
         /\ wk'[w].todo = temp[Content[wk[w].job]]
<1>1. Set(w, [pc |-> "move", todo |-> temp[Content[wk[w].job]]]) /\ wk[w].pc = "list"
  BY DEF List, Dir, Job
<1>2. QED
  BY <1>1, OthersKeep DEF Set, Idle, KeepsLock, KeepsJob, KeepsPassword

LEMMA MoveDoes ==
  ASSUME DOMAIN wk = Workers, NEW w \in Workers, Move(w)
  PROVE  LET i == Next1(wk[w].todo) IN
         /\ Others(w) /\ wk[w].pc = "move" /\ wk'[w].pc = "move" /\ KeepsPassword(w) /\ KeepsLock(w)
         /\ temp[Content[wk[w].job]] # Absent /\ i \in temp[Content[wk[w].job]]
         /\ wk'[w].todo = wk[w].todo \ {i}
         /\ temp' = [temp EXCEPT ![Content[wk[w].job]] = @ \ {i}]
         /\ got' = [got EXCEPT ![wk[w].job] = @ \cup {i}]
<1> DEFINE i == Next1(wk[w].todo)
<1>1. Set(w, [todo |-> wk[w].todo \ {i}]) /\ wk[w].pc = "move"
      /\ temp[Content[wk[w].job]] # Absent /\ i \in temp[Content[wk[w].job]]
      /\ temp' = [temp EXCEPT ![Content[wk[w].job]] = @ \ {i}]
      /\ got' = [got EXCEPT ![wk[w].job] = @ \cup {i}]
  BY DEF Move, Dir, Job, There
<1> HIDE DEF i
<1>2. Others(w) /\ wk'[w].pc = "move" /\ KeepsPassword(w) /\ KeepsLock(w) /\ wk'[w].todo = wk[w].todo \ {i}
  BY <1>1, OthersKeep DEF Set, Idle, KeepsLock, KeepsJob, KeepsPassword
<1>3. QED
  BY <1>1, <1>2 DEF i

LEMMA MovedDoes ==
  ASSUME DOMAIN wk = Workers, NEW w \in Workers, Moved(w)
  PROVE  /\ Others(w) /\ wk[w].pc = "move" /\ wk'[w].pc = "opened" /\ KeepsPassword(w) /\ KeepsLock(w)
         /\ KeepsDir(w) /\ wk[w].todo = {} /\ temp' = [temp EXCEPT ![Content[wk[w].job]] = Absent]
<1>1. Set(w, [pc |-> "opened"]) /\ wk[w].pc = "move" /\ wk[w].todo = {}
      /\ temp' = [temp EXCEPT ![Content[wk[w].job]] = Absent]
  BY DEF Moved, Dir, Job
<1>2. QED
  BY <1>1, OthersKeep DEF Set, Idle, KeepsLock, KeepsJob, KeepsPassword, KeepsDir

(* A password that is new. *)
LEMMA UnknownDoes ==
  ASSUME DOMAIN wk = Workers, NEW w \in Workers, Unknown(w)
  PROVE  /\ Others(w) /\ wk[w].pc = "opened" /\ wk'[w].pc = "learn" /\ KeepsPassword(w) /\ KeepsLock(w)
         /\ KeepsDir(w) /\ wk[w].cand[wk[w].n] \notin Range(passwords)
<1>1. Set(w, [pc |-> "learn"]) /\ wk[w].pc = "opened" /\ wk[w].cand[wk[w].n] \notin Range(passwords)
  BY DEF Unknown, Password
<1>2. QED
  BY <1>1, OthersKeep DEF Set, Idle, KeepsLock, KeepsJob, KeepsPassword, KeepsDir

LEMMA LearnDoes ==
  ASSUME DOMAIN wk = Workers, NEW w \in Workers, Learn(w)
  PROVE  /\ Others(w) /\ wk[w].pc = "learn" /\ wk'[w].pc = "save" /\ KeepsPassword(w) /\ KeepsLock(w)
         /\ KeepsDir(w) /\ passwords' = Append(passwords, wk[w].cand[wk[w].n])
<1>1. Set(w, [pc |-> "save"]) /\ wk[w].pc = "learn" /\ passwords' = Append(passwords, wk[w].cand[wk[w].n])
  BY DEF Learn, Password
<1>2. QED
  BY <1>1, OthersKeep DEF Set, Idle, KeepsLock, KeepsJob, KeepsPassword, KeepsDir

LEMMA OpenConfDoes ==
  ASSUME DOMAIN wk = Workers, NEW w \in Workers, OpenConf(w)
  PROVE  /\ Others(w) /\ wk[w].pc = "save" /\ wk'[w].pc = "writing" /\ KeepsPassword(w) /\ KeepsLock(w)
         /\ KeepsDir(w) /\ wk'[w].list = passwords /\ conf' = Emptied /\ wk[w].ask = "wait"
         /\ \A v \in Workers : wk[v].pc = "writing" => wk[v].lock # wk[w].lock
<1>1. Set(w, [pc |-> "writing", list |-> passwords]) /\ wk[w].pc = "save" /\ conf' = Emptied
      /\ wk[w].ask = "wait" /\ \A v \in Workers : wk[v].pc = "writing" => wk[v].lock # wk[w].lock
  BY DEF OpenConf, Values, HasLock
<1>2. QED
  BY <1>1, OthersKeep DEF Set, Idle, KeepsLock, KeepsJob, KeepsPassword, KeepsDir

(* The end of an archive. *)
LEMMA EndsDoes ==
  ASSUME DOMAIN wk = Workers, NEW w \in Workers, NEW r, Ends(w, r)
  PROVE  Others(w) /\ wk'[w] = Idle /\ result' = [result EXCEPT ![wk[w].job] = r]
<1>1. Set(w, Idle) /\ result' = [result EXCEPT ![wk[w].job] = r]
  BY DEF Ends, Job
<1>2. wk'[w] = Idle
  BY <1>1 DEF Set, Idle
<1>3. QED
  BY <1>1, <1>2, OthersKeep

Drops(w) == GiveUp(w) \/ Broken(w)
Succeeds(w) == AlreadyKnown(w) \/ WriteConf(w)

LEMMA DropsDoes ==
  ASSUME DOMAIN wk = Workers, NEW w \in Workers, Drops(w)
  PROVE  /\ Others(w) /\ wk'[w] = Idle /\ wk[w].pc \in {"try", "unzip", "list", "move", "writing"}
         /\ \E r \in Outcomes \ {"none", "success"} : result' = [result EXCEPT ![wk[w].job] = r]
         /\ recorded' = recorded \ {wk[w].job}
         /\ temp' = temp \/ temp' = [temp EXCEPT ![Content[wk[w].job]] = Absent]
         /\ UNCHANGED <<conf, running, passwords, queue, locks, got>>
<1>1. PICK r \in {"missing", "incorrect", "broken"} :
        /\ Fails(w, r) /\ wk[w].pc \in {"try", "unzip", "list", "move", "writing"}
        /\ UNCHANGED <<conf, running, passwords, queue, locks, got>>
        /\ temp' = temp \/ temp' = [temp EXCEPT ![Content[wk[w].job]] = Absent]
  <2>1. CASE GiveUp(w)
    BY <2>1 DEF GiveUp
  <2>2. CASE Broken(w)
    BY <2>2 DEF Broken, Gone, Dir, Job
  <2>3. QED
    BY <2>1, <2>2 DEF Drops
<1>2. Ends(w, r) /\ recorded' = recorded \ {wk[w].job}
  BY <1>1 DEF Fails, Job
<1>3. r \in Outcomes \ {"none", "success"}
  BY <1>1 DEF Outcomes
<1>4. QED
  BY <1>1, <1>2, <1>3, EndsDoes

LEMMA SucceedsDoes ==
  ASSUME DOMAIN wk = Workers, NEW w \in Workers, Succeeds(w)
  PROVE  /\ Others(w) /\ wk'[w] = Idle /\ wk[w].pc \in Opened
         /\ result' = [result EXCEPT ![wk[w].job] = "success"]
         /\ UNCHANGED <<recorded, temp, running, passwords, queue, locks, got>>
         /\ \/ wk[w].pc = "opened" /\ UNCHANGED <<conf, log>>
            \/ /\ wk[w].pc = "writing" /\ conf' = wk[w].list
               /\ log' = [log EXCEPT !.kept = @ \cup Range(wk[w].list)]
<1>1. Ends(w, "success") /\ UNCHANGED <<recorded, temp, running, passwords, queue, locks, got>>
      /\ \/ wk[w].pc = "opened" /\ UNCHANGED <<conf, log>>
         \/ /\ wk[w].pc = "writing" /\ conf' = wk[w].list
            /\ log' = [log EXCEPT !.kept = @ \cup Range(wk[w].list)]
  BY DEF Succeeds, AlreadyKnown, WriteConf
<1>2. QED
  BY <1>1, EndsDoes DEF Opened

(* What a worker's step leaves alone, outside of its record. *)
Quiet(w) == AskLock(w) \/ Gather(w) \/ Return(w) \/ List(w) \/ Unknown(w)
Unpacks(w) == Begin(w) \/ WriteEntry(w) \/ Wrong(w) \/ Move(w) \/ Moved(w)

LEMMA Leaves ==
  ASSUME NEW w \in Workers
  PROVE  /\ Quiet(w) => UNCHANGED <<conf, recorded, temp, running, passwords, queue, locks, result, got>>
         /\ AskLock(w) \/ Return(w) \/ List(w) \/ Unknown(w) => UNCHANGED log
         /\ CreateLock(w) => /\ UNCHANGED <<conf, recorded, temp, running, passwords, queue, result, got>>
                             /\ log' = [log EXCEPT !.two = @ \/ locks > 0]
         /\ Record(w) => UNCHANGED <<conf, temp, running, passwords, queue, locks, result, got, log>>
         /\ Unpacks(w) => UNCHANGED <<conf, recorded, running, passwords, queue, locks, result>>
         /\ Begin(w) \/ WriteEntry(w) \/ Move(w) \/ Moved(w) => UNCHANGED log
         /\ Begin(w) \/ WriteEntry(w) \/ Wrong(w) \/ Moved(w) => UNCHANGED got
         /\ Learn(w) => UNCHANGED <<conf, recorded, temp, running, queue, locks, result, got, log>>
         /\ OpenConf(w) => UNCHANGED <<recorded, temp, running, passwords, queue, locks, result, got, log>>
<1>1. /\ Quiet(w) => UNCHANGED <<conf, recorded, temp, running, passwords, queue, locks, result, got>>
      /\ AskLock(w) \/ Return(w) \/ List(w) \/ Unknown(w) => UNCHANGED log
  BY DEF Quiet, AskLock, Gather, Return, List, Unknown
<1>2. CreateLock(w) => /\ UNCHANGED <<conf, recorded, temp, running, passwords, queue, result, got>>
                       /\ log' = [log EXCEPT !.two = @ \/ locks > 0]
  BY DEF CreateLock
<1>3. Record(w) => UNCHANGED <<conf, temp, running, passwords, queue, locks, result, got, log>>
  BY DEF Record
<1>4. Unpacks(w) => UNCHANGED <<conf, recorded, running, passwords, queue, locks, result>>
  BY DEF Unpacks, Begin, WriteEntry, Wrong, Move, Moved
<1>5. Begin(w) \/ WriteEntry(w) \/ Move(w) \/ Moved(w) => UNCHANGED log
  BY DEF Begin, WriteEntry, Move, Moved
<1>6. Begin(w) \/ WriteEntry(w) \/ Wrong(w) \/ Moved(w) => UNCHANGED got
  BY DEF Begin, WriteEntry, Wrong, Moved
<1>7. Learn(w) => UNCHANGED <<conf, recorded, temp, running, queue, locks, result, got, log>>
  BY DEF Learn
<1>8. OpenConf(w) => UNCHANGED <<recorded, temp, running, passwords, queue, locks, result, got, log>>
  BY DEF OpenConf
<1>9. QED
  BY <1>1, <1>2, <1>3, <1>4, <1>5, <1>6, <1>7, <1>8

(* What Gather notes: the passwords the archive was given. *)
LEMMA GatherNotes ==
  ASSUME DOMAIN log = DOMAIN LogInit, NEW w \in Workers, Gather(w)
  PROVE  /\ DOMAIN log' = DOMAIN LogInit
         /\ log'.loaded = log.loaded /\ log'.kept = log.kept /\ log'.shared = log.shared
         /\ log'.misread = log.misread /\ log'.cut = log.cut /\ log'.two = log.two
         /\ \E api \in {Known(Api[Content[wk[w].job]]), <<>>} :
              /\ Set(w, [pc |-> "try", cand |-> Candidates(wk[w].job, api)])
              /\ log'.known = [log.known EXCEPT ![wk[w].job] = Range(api) \cup Range(passwords)]
<1>1. PICK api \in {Known(Api[Content[wk[w].job]]), <<>>} :
        /\ Set(w, [pc |-> "try", cand |-> Candidates(wk[w].job, api)])
        /\ log' = [log EXCEPT !.known[wk[w].job] = Range(api) \cup Range(passwords)]
  BY DEF Gather, Job
<1>2. PICK new : new = Range(api) \cup Range(passwords)
  OBVIOUS
<1>3. log' = [log EXCEPT !.known[wk[w].job] = new]
  BY <1>1, <1>2
<1>4. /\ DOMAIN log' = DOMAIN LogInit
      /\ log'.loaded = log.loaded /\ log'.kept = log.kept /\ log'.shared = log.shared
      /\ log'.misread = log.misread /\ log'.cut = log.cut /\ log'.two = log.two
      /\ log'.known = [log.known EXCEPT ![wk[w].job] = new]
  BY <1>3 DEF LogInit
<1>5. QED
  BY <1>1, <1>2, <1>4

WorkerStep(w) ==
  \/ Quiet(w) \/ CreateLock(w) \/ Record(w) \/ Unpacks(w) \/ Learn(w) \/ OpenConf(w)
  \/ Drops(w) \/ Succeeds(w)

(* The archives that are in hands, and how they end. *)
LEMMA Cases ==
  ASSUME [Next]_vars
  PROVE  \/ StartRun \/ EndRun \/ Crash \/ UNCHANGED vars
         \/ (\E p \in Passwords : Edit(p))
         \/ (\E w \in Workers, a \in Archives : Take(w, a))
         \/ (\E w \in Workers : WorkerStep(w))
  BY DEF Next, Finished, WorkerStep, Quiet, Unpacks, Drops, Succeeds

-----------------------------------------------------------------------------
(* The types. *)
LEMMA OthersOK ==
  ASSUME Shape, NEW w \in Workers, Others(w), running' = running, queue' \subseteq queue,
         locks' \in Nat, locks' >= locks
  PROVE  \A v \in Workers : v # w => WorkerOK(v)'
<1> SUFFICES ASSUME NEW v \in Workers, v # w PROVE WorkerOK(v)'
  OBVIOUS
<1>1. wk'[v] = wk[v] /\ WorkerOK(v) /\ locks \in Nat
  BY DEF Others, Shape
<1>2. wk[v].pc # "free" => running' /\ wk[v].job \in Archives \ queue'
  BY <1>1 DEF WorkerOK
<1>3. wk[v].ask = "wait" => wk[v].lock \in 1..locks'
  BY <1>1 DEF WorkerOK
<1>4. QED
  BY <1>1, <1>2, <1>3 DEF WorkerOK

LEMMA IdleOK == ASSUME NEW w, wk'[w] = Idle PROVE WorkerOK(w)'
  BY DEF WorkerOK, Idle, Phases, Opened

LEMMA TempTyped ==
  ASSUME Shape, NEW c \in Contents, NEW t \in {Absent} \cup SUBSET Nat, temp' = [temp EXCEPT ![c] = t]
  PROVE  temp' \in [Contents -> {Absent} \cup SUBSET Nat]
  BY DEF Shape

LEMMA InHand ==
  ASSUME Shape, NEW w \in Workers, wk[w].pc # "free"
  PROVE  /\ running /\ wk[w].job \in Archives \ queue /\ Content[wk[w].job] \in Contents
         /\ Members[Content[wk[w].job]] \in Nat /\ Opens[Content[wk[w].job]] \subseteq Passwords
<1>1. running /\ wk[w].job \in Archives \ queue
  BY DEF Shape, WorkerOK
<1>2. Content[wk[w].job] \in Contents
  BY <1>1 DEF Contents
<1>3. QED
  BY <1>1, <1>2, UnpackAssumption

(* A worker's step from one phase to another one. *)
LEMMA Onwards ==
  ASSUME Shape, NEW w \in Workers, wk[w].pc # "free", Others(w), UNCHANGED <<running, queue, locks>>,
         wk'[w].pc \in Phases \ {"free"}, KeepsJob(w), wk'[w].n \in Nat, wk'[w].written \in Nat,
         wk'[w].pc \in {"list", "move"} \cup Opened =>
           wk'[w].cand[wk'[w].n] \in Opens[Content[wk[w].job]],
         wk'[w].pc = "writing" => wk'[w].ask = "wait" /\ wk'[w].list \in Seq(Passwords),
         wk'[w].ask # "no" => wk'[w].pc \in {"record", "save", "writing"},
         wk'[w].ask = "wait" => wk'[w].lock \in 1..locks
  PROVE  DOMAIN wk' = Workers /\ \A v \in Workers : WorkerOK(v)'
<1>1. \A v \in Workers : v # w => WorkerOK(v)'
  BY OthersOK DEF Shape
<1>2. WorkerOK(w)'
  BY DEF Shape, WorkerOK, KeepsJob
<1>3. QED
  BY <1>1, <1>2 DEF Others

LEMMA TakeShape == ASSUME Shape, NEW w \in Workers, NEW a \in Archives, Take(w, a) PROVE Shape'
<1>1. wk[w] = Idle /\ a \in queue
  BY DEF Take, Shape, WorkerOK
<1>2. /\ Others(w) /\ wk'[w].pc = "record" /\ wk'[w].job = a /\ wk'[w].n = 1 /\ wk'[w].written = 0
      /\ wk'[w].ask = "no" /\ queue' = queue \ {a}
      /\ UNCHANGED <<conf, recorded, temp, running, passwords, locks, result, got, bounds>>
  BY <1>1, TakeDoes DEF Shape
<1>3. running /\ log' = [log EXCEPT !.shared = log'.shared]
  <2>1. \E S : log' = [log EXCEPT !.shared = S]
    BY DEF Take
  <2>2. "shared" \in DOMAIN log
    BY DEF Shape, LogInit
  <2>3. QED
    BY <1>1, <2>1, <2>2 DEF Shape
<1>4. \A v \in Workers : v # w => WorkerOK(v)'
  BY <1>2, OthersOK DEF Shape
<1>5. WorkerOK(w)'
  BY <1>2, <1>3 DEF WorkerOK, Phases, Opened
<1>6. DOMAIN wk' = Workers /\ DOMAIN log' = DOMAIN LogInit
  BY <1>2, <1>3 DEF Others, Shape
<1>7. QED
  BY <1>2, <1>3, <1>4, <1>5, <1>6 DEF Shape

LEMMA WorkerShape == ASSUME Shape, NEW w \in Workers, WorkerStep(w) PROVE Shape'
<1>0. DOMAIN wk = Workers /\ WorkerOK(w) /\ locks \in Nat /\ "two" \in DOMAIN log
  BY DEF Shape, LogInit
<1>1. CASE Quiet(w) \/ CreateLock(w)
  <2>1. /\ UNCHANGED <<conf, recorded, temp, running, passwords, queue, result, got>>
        /\ locks' \in Nat /\ locks' >= locks /\ DOMAIN log' = DOMAIN LogInit
    <3>1. CASE Quiet(w)
      <4>1. DOMAIN log' = DOMAIN LogInit
        BY <3>1, Leaves, GatherNotes DEF Shape, Quiet
      <4>2. QED
        BY <1>0, <3>1, <4>1, Leaves
    <3>2. CASE CreateLock(w)
      BY <1>0, <3>2, Leaves, CreateLockDoes DEF Shape
    <3>3. QED
      BY <1>1, <3>1, <3>2
  <2>2. Others(w) /\ WorkerOK(w)'
    <3>1. CASE AskLock(w)
      BY <1>0, <2>1, <3>1, AskLockDoes DEF WorkerOK, KeepsPassword, KeepsJob, KeepsDir, Opened, Phases
    <3>2. CASE Gather(w)
      BY <1>0, <2>1, <3>2, GatherDoes DEF WorkerOK, KeepsLock, KeepsJob, KeepsDir, Opened, Phases
    <3>3. CASE Return(w)
      BY <1>0, <2>1, <3>3, ReturnDoes DEF WorkerOK, KeepsPassword, KeepsLock, KeepsJob, KeepsDir, Opened, Phases
    <3>4. CASE List(w)
      <4>1. wk'[w].written = wk[w].written
        BY <1>0, <3>4 DEF List, Set, Idle
      <4>2. QED
        BY <1>0, <2>1, <3>4, <4>1, ListDoes DEF WorkerOK, KeepsPassword, KeepsLock, KeepsJob, Opened, Phases
    <3>5. CASE Unknown(w)
      BY <1>0, <2>1, <3>5, UnknownDoes DEF WorkerOK, KeepsPassword, KeepsLock, KeepsJob, KeepsDir, Opened, Phases
    <3>6. CASE CreateLock(w)
      BY <1>0, <2>1, <3>6, CreateLockDoes DEF WorkerOK, KeepsPassword, KeepsJob, KeepsDir, Opened, Phases
    <3>7. QED
      BY <1>1, <3>1, <3>2, <3>3, <3>4, <3>5, <3>6 DEF Quiet
  <2>3. \A v \in Workers : v # w => WorkerOK(v)'
    BY <2>1, <2>2, OthersOK
  <2>4. QED
    BY <2>1, <2>2, <2>3 DEF Shape, Others
<1>2. CASE Record(w) \/ OpenConf(w) \/ Learn(w)
  <2>1. UNCHANGED <<temp, running, queue, locks, result, got, log>>
    BY <1>2, Leaves
  <2>2. Others(w) /\ WorkerOK(w)'
    <3>1. CASE Record(w)
      BY <1>0, <2>1, <3>1, RecordDoes DEF WorkerOK, KeepsPassword, KeepsJob, KeepsDir, Opened, Phases
    <3>2. CASE OpenConf(w)
      <4>1. passwords \in Seq(Passwords)
        BY DEF Shape
      <4>2. QED
        BY <1>0, <2>1, <3>2, <4>1, OpenConfDoes
        DEF WorkerOK, KeepsPassword, KeepsLock, KeepsJob, KeepsDir, Opened, Phases
    <3>3. CASE Learn(w)
      BY <1>0, <2>1, <3>3, LearnDoes DEF WorkerOK, KeepsPassword, KeepsLock, KeepsJob, KeepsDir, Opened, Phases
    <3>4. QED
      BY <1>2, <3>1, <3>2, <3>3
  <2>3. \A v \in Workers : v # w => WorkerOK(v)'
    BY <1>0, <2>1, <2>2, OthersOK
  <2>4. (conf' \in {Absent, Emptied} \/ conf' \in Seq(Passwords)) /\ passwords' \in Seq(Passwords)
        /\ recorded' \subseteq Archives
    <3>1. CASE Record(w)
      BY <1>0, <3>1, Leaves, RecordDoes, InHand DEF Shape
    <3>2. CASE OpenConf(w)
      BY <1>0, <3>2, Leaves, OpenConfDoes DEF Shape
    <3>3. CASE Learn(w)
      <4>1. wk[w].cand[wk[w].n] \in Passwords
        BY <1>0, <3>3, LearnDoes, InHand DEF WorkerOK, Opened
      <4>2. QED
        <5> DEFINE p == wk[w].cand[wk[w].n]
        <5>1. passwords' = Append(passwords, p) /\ conf' = conf /\ recorded' = recorded
              /\ passwords \in Seq(Passwords) /\ p \in Passwords
          BY <1>0, <3>3, <4>1, Leaves, LearnDoes DEF Shape
        <5> HIDE DEF p
        <5>2. passwords' \in Seq(Passwords)
          BY <5>1
        <5>3. QED
          BY <5>1, <5>2 DEF Shape
    <3>4. QED
      BY <1>2, <3>1, <3>2, <3>3
  <2>5. QED
    BY <2>1, <2>2, <2>3, <2>4 DEF Shape, Others
<1>3. CASE Unpacks(w)
  <2>1. UNCHANGED <<conf, recorded, running, passwords, queue, locks, result>>
    BY <1>3, Leaves
  <2>2. Others(w) /\ WorkerOK(w)'
    <3>1. CASE Begin(w)
      BY <1>0, <2>1, <3>1, BeginDoes DEF WorkerOK, KeepsPassword, KeepsLock, KeepsJob, Opened, Phases
    <3>2. CASE WriteEntry(w)
      BY <1>0, <2>1, <3>2, WriteEntryDoes DEF WorkerOK, KeepsPassword, KeepsLock, KeepsJob, Opened, Phases
    <3>3. CASE Wrong(w)
      BY <1>0, <2>1, <3>3, WrongDoes DEF WorkerOK, KeepsLock, KeepsJob, KeepsDir, Opened, Phases
    <3>4. CASE Move(w)
      <4>1. wk'[w].written = wk[w].written
        BY <1>0, <3>4 DEF Move, Set, Idle
      <4>2. QED
        BY <1>0, <2>1, <3>4, <4>1, MoveDoes DEF WorkerOK, KeepsPassword, KeepsLock, KeepsJob, Opened, Phases
    <3>5. CASE Moved(w)
      BY <1>0, <2>1, <3>5, MovedDoes DEF WorkerOK, KeepsPassword, KeepsLock, KeepsJob, KeepsDir, Opened, Phases
    <3>6. QED
      BY <1>3, <3>1, <3>2, <3>3, <3>4, <3>5 DEF Unpacks
  <2>3. \A v \in Workers : v # w => WorkerOK(v)'
    BY <1>0, <2>1, <2>2, OthersOK
  <2>4. /\ temp' \in [Contents -> {Absent} \cup SUBSET Nat] /\ got' \in [Archives -> SUBSET Nat]
        /\ DOMAIN log' = DOMAIN LogInit
    <3> DEFINE c == Content[wk[w].job]
    <3>1. wk[w].pc # "free"
      BY <1>0, <1>3, BeginDoes, WriteEntryDoes, WrongDoes, MoveDoes, MovedDoes DEF Unpacks
    <3>2. c \in Contents /\ wk[w].job \in Archives
      BY <3>1, InHand
    <3>3. temp[c] \in {Absent} \cup SUBSET Nat /\ got[wk[w].job] \subseteq Nat
      BY <3>2 DEF Shape
    <3> HIDE DEF c
    <3>4. CASE Begin(w) \/ Wrong(w) \/ Moved(w)
      <4>1. temp' = [temp EXCEPT ![c] = Absent] /\ got' = got /\ DOMAIN log' = DOMAIN log
        BY <1>0, <3>4, Leaves, BeginDoes, WrongDoes, MovedDoes DEF c
      <4>2. QED
        BY <3>2, <4>1, TempTyped DEF Shape
    <3>5. CASE WriteEntry(w)
      <4>1. temp' = [temp EXCEPT ![c] = (IF temp[c] = Absent THEN {} ELSE temp[c]) \cup {wk[w].written + 1}]
            /\ got' = got /\ log' = log
        BY <1>0, <3>5, Leaves, WriteEntryDoes DEF c
      <4>2. (IF temp[c] = Absent THEN {} ELSE temp[c]) \cup {wk[w].written + 1} \in SUBSET Nat
        BY <1>0, <3>3 DEF WorkerOK
      <4>3. QED
        BY <3>2, <4>1, <4>2, TempTyped DEF Shape
    <3>6. CASE Move(w)
      <4> DEFINE m == Next1(wk[w].todo)
      <4>1. temp' = [temp EXCEPT ![c] = temp[c] \ {m}] /\ got' = [got EXCEPT ![wk[w].job] = @ \cup {m}]
            /\ temp[c] # Absent /\ m \in temp[c] /\ log' = log
        BY <1>0, <3>6, Leaves, MoveDoes DEF c
      <4> HIDE DEF m
      <4>2. temp[c] \ {m} \in SUBSET Nat /\ m \in Nat
        BY <3>3, <4>1
      <4>3. temp' \in [Contents -> {Absent} \cup SUBSET Nat]
        BY <3>2, <4>1, <4>2, TempTyped
      <4>4. got' \in [Archives -> SUBSET Nat]
        BY <3>2, <3>3, <4>1, <4>2 DEF Shape
      <4>5. QED
        BY <4>1, <4>3, <4>4 DEF Shape
    <3>7. QED
      BY <1>3, <3>4, <3>5, <3>6 DEF Unpacks
  <2>5. QED
    BY <2>1, <2>2, <2>3, <2>4 DEF Shape, Others
<1>4. CASE Drops(w) \/ Succeeds(w)
  <2>1. Others(w) /\ wk'[w] = Idle /\ wk[w].pc # "free" /\ UNCHANGED <<running, passwords, queue, locks, got>>
        /\ \E r \in Outcomes : result' = [result EXCEPT ![wk[w].job] = r]
    BY <1>0, <1>4, DropsDoes, SucceedsDoes DEF Opened, Outcomes
  <2>2. \A v \in Workers : WorkerOK(v)'
    BY <1>0, <2>1, OthersOK, IdleOK
  <2>3. result' \in [Archives -> Outcomes]
    BY <2>1 DEF Shape
  <2>4. (conf' \in {Absent, Emptied} \/ conf' \in Seq(Passwords)) /\ recorded' \subseteq Archives
    BY <1>0, <1>4, DropsDoes, SucceedsDoes DEF WorkerOK, Shape
  <2>5. temp' \in [Contents -> {Absent} \cup SUBSET Nat]
    <3>1. Content[wk[w].job] \in Contents
      BY <2>1, InHand
    <3>2. temp' = temp \/ temp' = [temp EXCEPT ![Content[wk[w].job]] = Absent]
      BY <1>0, <1>4, DropsDoes, SucceedsDoes
    <3>3. QED
      BY <3>1, <3>2, TempTyped DEF Shape
  <2>6. DOMAIN log' = DOMAIN log
    BY <1>4 DEF Drops, Succeeds, GiveUp, Broken, AlreadyKnown, WriteConf
  <2>7. QED
    BY <2>1, <2>2, <2>3, <2>4, <2>5, <2>6 DEF Shape, Others
<1>5. QED
  BY <1>1, <1>2, <1>3, <1>4 DEF WorkerStep

(* A run begins and ends, and the user edits the file. *)
LEMMA StartDoes ==
  ASSUME Shape, StartRun
  PROVE  /\ ~running /\ running' /\ queue' \subseteq Archives /\ conf' \in {Emptied} \cup Seq(Passwords)
         /\ passwords' = Read(conf') /\ passwords' \in Seq(Passwords)
         /\ conf' = IF conf = Absent THEN Default ELSE conf
         /\ temp' = [c \in Contents |-> Absent]
         /\ result' = [a \in Archives |-> "none"] /\ got' = [a \in Archives |-> {}]
         /\ log' = [log EXCEPT !.loaded = Range(passwords'), !.known = LogInit.known,
                               !.shared = {}, !.misread = {}]
         /\ UNCHANGED <<recorded, locks, wk>>
         /\ \A w \in Workers : wk[w] = Idle
<1>1. /\ ~running /\ running' /\ queue' \subseteq Archives /\ passwords' = Read(conf')
      /\ conf' = IF conf = Absent THEN Default ELSE conf
      /\ temp' = [c \in Contents |-> Absent]
      /\ result' = [a \in Archives |-> "none"] /\ got' = [a \in Archives |-> {}]
      /\ UNCHANGED <<recorded, locks, wk>>
  BY DEF StartRun
<1>2. log' = [log EXCEPT !.loaded = Range(passwords'), !.known = LogInit.known,
                         !.shared = {}, !.misread = {}]
  BY DEF StartRun
<1>3. Default \in Seq(Passwords)
  BY UnpackAssumption DEF Default
<1>4. conf' \in {Emptied} \cup Seq(Passwords)
  BY <1>1, <1>3 DEF Shape
<1>5. ASSUME NEW s \in Seq(Passwords) PROVE Coerced(s) \in Seq(Passwords)
  <2>1. \A n \in 1..Len(s) : Trim[s[n]] \in Passwords
    BY UnpackAssumption
  <2>2. QED
    BY <2>1 DEF Coerced
<1>6. passwords' \in Seq(Passwords)
  BY <1>1, <1>3, <1>4, <1>5 DEF Read
<1>7. \A w \in Workers : wk[w] = Idle
  BY <1>1 DEF Shape, WorkerOK
<1>8. QED
  BY <1>1, <1>2, <1>4, <1>6, <1>7

LEMMA EndDoes ==
  ASSUME Shape, EndRun \/ Crash
  PROVE  /\ ~running' /\ queue' = {} /\ locks' = 0 /\ DOMAIN wk' = Workers
         /\ \A w \in Workers : wk'[w] = Idle
         /\ UNCHANGED <<conf, recorded, temp, passwords, result, got>>
         /\ \/ UNCHANGED <<wk, log>>
            \/ log' = [log EXCEPT !.cut = @ \/ \E w \in Workers : wk[w].pc = "writing"]
<1>1. CASE EndRun
  <2>1. \A w \in Workers : wk[w].pc = "free" /\ WorkerOK(w)
    BY <1>1 DEF EndRun, Shape
  <2>2. \A w \in Workers : wk[w] = Idle
    BY <2>1 DEF WorkerOK
  <2>3. QED
    BY <1>1, <2>2 DEF EndRun, Shape
<1>2. CASE Crash
  <2>1. wk' = [w \in Workers |-> Idle]
    BY <1>2 DEF Crash
  <2>2. QED
    BY <1>2, <2>1 DEF Crash
<1>3. QED
  BY <1>1, <1>2

LEMMA EditDoes ==
  ASSUME Shape, NEW p \in Passwords, Edit(p)
  PROVE  /\ conf \in Seq(Passwords) /\ conf' = Append(conf, p) /\ conf' \in Seq(Passwords)
         /\ p = Trim[p] /\ p \notin Range(conf)
         /\ log' = IF running THEN log ELSE [log EXCEPT !.kept = @ \cup {p}]
         /\ UNCHANGED <<recorded, temp, running, passwords, queue, locks, wk, result, got>>
  BY DEF Edit, Shape

LEMMA NextShape == Shape /\ [Next]_vars => Shape'
<1> SUFFICES ASSUME Shape, [Next]_vars PROVE Shape'
  OBVIOUS
<1>1. CASE StartRun
  <2>1. temp' \in [Contents -> {Absent} \cup SUBSET Nat] /\ result' \in [Archives -> Outcomes]
        /\ got' \in [Archives -> SUBSET Nat] /\ DOMAIN log' = DOMAIN log
    BY <1>1, StartDoes DEF Outcomes
  <2>2. \A w \in Workers : WorkerOK(w)'
    BY <1>1, StartDoes, IdleOK
  <2>3. QED
    BY <1>1, <2>1, <2>2, StartDoes DEF Shape
<1>2. CASE EndRun \/ Crash
  <2>1. \A w \in Workers : WorkerOK(w)'
    BY <1>2, EndDoes, IdleOK
  <2>2. DOMAIN log' = DOMAIN log
    BY <1>2, EndDoes
  <2>3. QED
    BY <1>2, <2>1, <2>2, EndDoes DEF Shape
<1>3. ASSUME NEW p \in Passwords, Edit(p) PROVE Shape'
  <2>1. \A w \in Workers : WorkerOK(w)'
    BY <1>3, EditDoes DEF Shape, WorkerOK
  <2>2. DOMAIN log' = DOMAIN log
    BY <1>3, EditDoes
  <2>3. QED
    BY <1>3, <2>1, <2>2, EditDoes DEF Shape
<1>4. CASE UNCHANGED vars
  BY <1>4 DEF vars, Shape, WorkerOK
<1>5. QED
  BY <1>1, <1>2, <1>3, <1>4, TakeShape, WorkerShape, Cases

LEMMA InitShape == Init => Shape
<1> SUFFICES ASSUME Init PROVE Shape
  OBVIOUS
<1>1. DOMAIN wk = Workers /\ \A w \in Workers : wk[w] = Idle
  BY DEF Init
<1>2. \A w \in Workers : WorkerOK(w)
  BY <1>1 DEF WorkerOK, Idle, Phases, Opened
<1>3. passwords \in Seq(Passwords)
  BY DEF Init
<1>4. temp \in [Contents -> {Absent} \cup SUBSET Nat] /\ result \in [Archives -> Outcomes]
      /\ got \in [Archives -> SUBSET Nat]
  BY DEF Init, Outcomes
<1>5. QED
  BY <1>1, <1>2, <1>3, <1>4 DEF Init, Shape

-----------------------------------------------------------------------------
(* get_thread_lock makes at most a lock for each worker that found none.   *)
Creators == {v \in Workers : wk[v].ask = "create"}
LocksBounded == locks + Cardinality(Creators) <= Cardinality(Workers)

LEMMA Fewer ==
  ASSUME NEW S, IsFiniteSet(S), NEW T, T \subseteq S
  PROVE  IsFiniteSet(T) /\ Cardinality(T) \in Nat /\ Cardinality(S) \in Nat
         /\ Cardinality(T) <= Cardinality(S)
  BY FS_Subset, FS_CardinalityType

LEMMA OneLess ==
  ASSUME NEW S, IsFiniteSet(S), NEW x \in S
  PROVE  Cardinality(S \ {x}) = Cardinality(S) - 1 /\ Cardinality(S) \in Nat
  BY FS_RemoveElement, FS_CardinalityType

LEMMA WorkersFinite ==
  /\ IsFiniteSet(Workers) /\ Cardinality(Workers) \in Nat /\ Cardinality(Workers) >= 1
  /\ \A S : S \subseteq Workers => IsFiniteSet(S) /\ Cardinality(S) \in Nat
                                   /\ Cardinality(S) <= Cardinality(Workers)
<1>1. IsFiniteSet(Workers) /\ Workers # {}
  BY UnpackAssumption
<1>2. Cardinality(Workers) \in Nat /\ Cardinality(Workers) # 0
  BY <1>1, FS_CardinalityType, FS_EmptySet
<1>3. QED
  BY <1>1, <1>2, Fewer

(* The steps of a worker that does not ask for a lock. *)
LEMMA NoNewCreator ==
  ASSUME Shape, NEW w \in Workers, WorkerStep(w), ~AskLock(w), ~CreateLock(w)
  PROVE  Creators' \subseteq Creators /\ locks' = locks
<1>0. DOMAIN wk = Workers
  BY DEF Shape
<1>1. Others(w) /\ (wk'[w].ask = wk[w].ask \/ wk'[w].ask = "no")
  <2>1. CASE Quiet(w)
    BY <1>0, <2>1, GatherDoes, ReturnDoes, ListDoes, UnknownDoes DEF Quiet, KeepsLock
  <2>2. CASE Record(w) \/ Learn(w) \/ OpenConf(w)
    BY <1>0, <2>2, RecordDoes, LearnDoes, OpenConfDoes DEF KeepsLock
  <2>3. CASE Unpacks(w)
    BY <1>0, <2>3, BeginDoes, WriteEntryDoes, WrongDoes, MoveDoes, MovedDoes DEF Unpacks, KeepsLock
  <2>4. CASE Drops(w) \/ Succeeds(w)
    BY <1>0, <2>4, DropsDoes, SucceedsDoes DEF Idle
  <2>5. QED
    BY <2>1, <2>2, <2>3, <2>4 DEF WorkerStep
<1>2. locks' = locks
  BY <1>0, Leaves, DropsDoes, SucceedsDoes DEF WorkerStep
<1>3. QED
  BY <1>1, <1>2 DEF Creators, Others

LEMMA NextLocks == Shape /\ LocksBounded /\ [Next]_vars => LocksBounded'
<1> SUFFICES ASSUME Shape, LocksBounded, [Next]_vars PROVE LocksBounded'
  OBVIOUS
<1>0. DOMAIN wk = Workers /\ locks \in Nat /\ Creators \subseteq Workers /\ Creators' \subseteq Workers
  BY DEF Shape, Creators
<1>1. ASSUME Creators' \subseteq Creators, locks' = locks PROVE LocksBounded'
  <2>1. Cardinality(Creators') <= Cardinality(Creators) /\ Cardinality(Creators') \in Nat
        /\ Cardinality(Creators) \in Nat
    BY <1>0, <1>1, WorkersFinite, Fewer
  <2>2. QED
    BY <1>0, <1>1, <2>1, WorkersFinite DEF LocksBounded
<1>2. ASSUME NEW w \in Workers, AskLock(w) PROVE LocksBounded'
  <2>1. locks' = locks
    BY <1>2, Leaves DEF Quiet
  <2>2. CASE locks = 0
    <3>1. Cardinality(Creators') <= Cardinality(Workers) /\ Cardinality(Creators') \in Nat
      BY <1>0, WorkersFinite
    <3>2. QED
      BY <2>1, <2>2, <3>1 DEF LocksBounded
  <2>3. CASE locks # 0
    <3>1. Creators' \subseteq Creators
      BY <1>0, <1>2, <2>3, AskLockDoes DEF Creators, Others
    <3>2. QED
      BY <1>1, <2>1, <3>1
  <2>4. QED
    BY <2>2, <2>3
<1>3. ASSUME NEW w \in Workers, CreateLock(w) PROVE LocksBounded'
  <2>1. locks' = locks + 1 /\ w \in Creators /\ Creators' \subseteq Creators \ {w}
    BY <1>0, <1>3, CreateLockDoes DEF Creators, Others
  <2>2. Cardinality(Creators \ {w}) = Cardinality(Creators) - 1 /\ Cardinality(Creators) \in Nat
        /\ IsFiniteSet(Creators \ {w})
    BY <1>0, <2>1, WorkersFinite, OneLess
  <2>3. Cardinality(Creators') <= Cardinality(Creators \ {w}) /\ Cardinality(Creators') \in Nat
    BY <2>1, <2>2, Fewer
  <2>4. QED
    BY <1>0, <2>1, <2>2, <2>3, WorkersFinite DEF LocksBounded
<1>4. CASE EndRun \/ Crash
  <2>1. locks' = 0
    BY <1>4, EndDoes
  <2>2. Cardinality(Creators') <= Cardinality(Workers) /\ Cardinality(Creators') \in Nat
    BY <1>0, WorkersFinite
  <2>3. QED
    BY <2>1, <2>2 DEF LocksBounded
<1>5. CASE StartRun \/ UNCHANGED vars \/ \E p \in Passwords : Edit(p)
  <2>1. locks' = locks /\ wk' = wk
    BY <1>5, StartDoes, EditDoes DEF vars
  <2>2. QED
    BY <1>1, <2>1 DEF Creators
<1>6. ASSUME NEW w \in Workers, NEW a \in Archives, Take(w, a) PROVE LocksBounded'
  <2>1. wk[w] = Idle
    BY <1>6 DEF Take, Shape, WorkerOK
  <2>2. locks' = locks /\ Creators' \subseteq Creators
    BY <1>0, <1>6, <2>1, TakeDoes DEF Creators, Others
  <2>3. QED
    BY <1>1, <2>2
<1>7. QED
  BY <1>1, <1>2, <1>3, <1>4, <1>5, <1>6, NoNewCreator, Cases

LEMMA InitLocks == Init => LocksBounded
<1> SUFFICES ASSUME Init PROVE LocksBounded
  OBVIOUS
<1>1. locks = 0 /\ Creators \subseteq Workers
  BY DEF Init, Creators
<1>2. QED
  BY <1>1, WorkersFinite DEF LocksBounded

-----------------------------------------------------------------------------
(* What of an archive has been unpacked, if no other worker has an equal   *)
(* one: the entries are in TEMP_DIR or were moved.                         *)
All(w) == 1..Members[Content[wk[w].job]]
Stage(w) ==
  wk[w].pc # "free" /\ wk[w].job \notin log.shared =>
    LET entries == temp[Content[wk[w].job]]
        moved == got[wk[w].job]
    IN  /\ wk[w].pc \in {"record", "gather", "try", "unzip", "list"} => moved = {}
        /\ wk[w].pc = "unzip" => /\ wk[w].written <= Members[Content[wk[w].job]]
                                 /\ entries = IF wk[w].written = 0 THEN Absent ELSE 1..wk[w].written
        /\ wk[w].pc = "list" => entries = All(w)
        /\ wk[w].pc = "move" => entries = wk[w].todo /\ moved \cup wk[w].todo = All(w)
        /\ wk[w].pc \in Opened => moved = All(w)

(* Each archive is in one pair of hands, and equal ones are known.         *)
Apart ==
  \A v, w \in Workers : v # w /\ wk[v].pc # "free" /\ wk[w].pc # "free" =>
    /\ wk[v].job # wk[w].job
    /\ Content[wk[v].job] = Content[wk[w].job] => wk[v].job \in log.shared

Waiting ==
  /\ \A a \in queue : got[a] = {} /\ result[a] = "none"
  /\ \A w \in Workers : wk[w].pc # "free" => result[wk[w].job] = "none"

Unpacked == Apart /\ Waiting /\ (\A w \in Workers : Stage(w)) /\ WholeUnlessShared

(* A worker's step is of account to its own archive only. *)
LEMMA OthersUnpack ==
  ASSUME Shape, Unpacked, NEW w \in Workers, wk[w].pc # "free", Others(w), queue' = queue,
         log'.shared = log.shared, wk'[w] = Idle \/ KeepsJob(w),
         \A c \in Contents : c # Content[wk[w].job] => temp'[c] = temp[c],
         \A a \in Archives : a # wk[w].job => got'[a] = got[a] /\ result'[a] = result[a],
         Stage(w)', wk'[w].pc # "free" => result'[wk[w].job] = "none",
         result'[wk[w].job] = "success" /\ wk[w].job \notin log.shared => got'[wk[w].job] = All(w)
  PROVE  Unpacked'
<1>0. wk[w].job \in Archives \ queue /\ Idle.pc = "free"
  BY InHand DEF Idle
<1>1. \A v \in Workers : wk'[v].pc # "free" => wk[v].pc # "free" /\ wk'[v].job = wk[v].job
  BY <1>0 DEF Others, KeepsJob
<1>2. Apart'
  BY <1>1 DEF Apart, Unpacked
<1>3. Waiting'
  <2>1. \A a \in queue : a \in Archives /\ a # wk[w].job
    BY <1>0 DEF Shape
  <2>2. \A a \in queue' : got'[a] = {} /\ result'[a] = "none"
    BY <2>1 DEF Waiting, Unpacked
  <2>3. ASSUME NEW v \in Workers, wk'[v].pc # "free", v # w PROVE result'[wk'[v].job] = "none"
    <3>1. wk[v].pc # "free" /\ wk'[v].job = wk[v].job /\ wk[v].job # wk[w].job /\ wk[v].job \in Archives
      BY <1>1, <2>3, InHand DEF Apart, Unpacked
    <3>2. QED
      BY <3>1 DEF Waiting, Unpacked
  <2>4. wk'[w].pc # "free" => result'[wk'[w].job] = "none"
    BY <1>1
  <2>5. QED
    BY <2>2, <2>3, <2>4 DEF Waiting
<1>4. ASSUME NEW v \in Workers, v # w PROVE Stage(v)'
  <2>1. wk'[v] = wk[v]
    BY <1>4 DEF Others
  <2>2. SUFFICES ASSUME wk[v].pc # "free", wk[v].job \notin log.shared PROVE Stage(v)'
    BY <2>1 DEF Stage
  <2>3. wk[v].job # wk[w].job /\ Content[wk[v].job] # Content[wk[w].job]
    BY <1>4, <2>2 DEF Apart, Unpacked
  <2>4. wk[v].job \in Archives /\ Content[wk[v].job] \in Contents
    BY <2>2, InHand
  <2>5. temp'[Content[wk[v].job]] = temp[Content[wk[v].job]] /\ got'[wk[v].job] = got[wk[v].job]
    BY <2>3, <2>4
  <2>6. Stage(v)
    BY DEF Unpacked
  <2>7. QED
    BY <2>1, <2>5, <2>6 DEF Stage, All
<1>5. WholeUnlessShared'
  <2>1. \A a \in Archives \ log.shared : result'[a] = "success" => got'[a] = 1..Members[Content[a]]
    BY <1>0 DEF Unpacked, WholeUnlessShared, All
  <2>2. QED
    BY <2>1 DEF WholeUnlessShared
<1>6. QED
  BY <1>2, <1>3, <1>4, <1>5 DEF Unpacked

LEMMA TakeUnpacked ==
  ASSUME Shape, Unpacked, NEW w \in Workers, NEW a \in Archives, Take(w, a)
  PROVE  Unpacked'
<1> DEFINE Equal == {v \in Workers : wk[v].job # Absent /\ Content[wk[v].job] = Content[a]}
           new == {wk[v].job : v \in Equal} \cup (IF Equal = {} THEN {} ELSE {a})
<1>1. wk[w] = Idle /\ a \in queue
  BY DEF Take, Shape, WorkerOK
<1>2. /\ Others(w) /\ wk'[w].pc = "record" /\ wk'[w].job = a /\ queue' = queue \ {a}
      /\ UNCHANGED <<temp, running, result, got>>
  BY <1>1, TakeDoes DEF Shape
<1>3. log'.shared = log.shared \cup new
  <2>1. log' = [log EXCEPT !.shared = @ \cup new]
    BY DEF Take, Job
  <2> HIDE DEF new
  <2>2. QED
    BY <2>1 DEF Shape, LogInit
<1>4. \A v \in Workers : v # w /\ wk'[v].pc # "free" =>
        /\ wk'[v] = wk[v] /\ wk[v].pc # "free" /\ wk[v].job \in Archives \ queue /\ wk[v].job # Absent
        /\ Content[wk[v].job] = Content[a] => wk[v].job \in new /\ a \in new
  <2>1. SUFFICES ASSUME NEW v \in Workers, v # w, wk'[v].pc # "free"
                 PROVE  /\ wk'[v] = wk[v] /\ wk[v].pc # "free" /\ wk[v].job \in Archives \ queue
                        /\ wk[v].job # Absent
                        /\ Content[wk[v].job] = Content[a] => wk[v].job \in new /\ a \in new
    OBVIOUS
  <2>2. wk'[v] = wk[v] /\ wk[v].pc # "free"
    BY <1>2, <2>1 DEF Others
  <2>3. wk[v].job \in Archives \ queue /\ wk[v].job # Absent
    BY <2>2, InHand, UnpackAssumption
  <2>4. QED
    BY <2>2, <2>3
<1> HIDE DEF new
<1>5. Apart'
  <2>1. SUFFICES ASSUME NEW u \in Workers, NEW v \in Workers, u # v, wk'[u].pc # "free", wk'[v].pc # "free"
                 PROVE  /\ wk'[u].job # wk'[v].job
                        /\ Content[wk'[u].job] = Content[wk'[v].job] => wk'[u].job \in log'.shared
    BY DEF Apart
  <2>2. CASE u # w /\ v # w
    BY <1>3, <1>4, <2>1, <2>2 DEF Apart, Unpacked
  <2>3. CASE u = w
    BY <1>1, <1>2, <1>3, <1>4, <2>1, <2>3
  <2>4. CASE v = w
    BY <1>1, <1>2, <1>3, <1>4, <2>1, <2>4
  <2>5. QED
    BY <2>2, <2>3, <2>4
<1>6. Waiting'
  BY <1>1, <1>2, <1>4 DEF Waiting, Unpacked
<1>7. ASSUME NEW v \in Workers PROVE Stage(v)'
  <2>1. CASE v = w
    <3>1. got[a] = {}
      BY <1>1 DEF Waiting, Unpacked
    <3>2. QED
      BY <1>2, <2>1, <3>1 DEF Stage, Opened
  <2>2. CASE v # w
    <3>1. wk'[v] = wk[v] /\ Stage(v)
      BY <1>2, <2>2 DEF Others, Unpacked
    <3>2. QED
      BY <1>2, <1>3, <3>1 DEF Stage, All
  <2>3. QED
    BY <2>1, <2>2
<1>8. WholeUnlessShared'
  BY <1>2, <1>3 DEF Unpacked, WholeUnlessShared
<1>9. QED
  BY <1>5, <1>6, <1>7, <1>8 DEF Unpacked

(* The entries of an archive in TEMP_DIR are not "no directory". *)
LEMMA DirIsThere ==
  ASSUME NEW c \in Contents, NEW n \in Nat, n > 0, n <= Members[c]
  PROVE  1..n # Absent
<1>1. n \in 1..Members[c]
  BY UnpackAssumption
<1>2. QED
  BY <1>1, UnpackAssumption

LEMMA StepStage ==
  ASSUME Shape, Unpacked, NEW w \in Workers, WorkerStep(w)
  PROVE  Stage(w)'
<1> DEFINE a == wk[w].job
           c == Content[a]
           M == Members[c]
<1>0. DOMAIN wk = Workers /\ WorkerOK(w) /\ wk[w].written \in Nat /\ Stage(w)
  BY DEF Shape, WorkerOK, Unpacked
<1>1. CASE Quiet(w) \/ CreateLock(w) \/ Record(w) \/ Learn(w) \/ OpenConf(w)
  <2>1. UNCHANGED <<temp, got>> /\ log'.shared = log.shared
    <3>1. CASE CreateLock(w)
      BY <3>1, Leaves DEF Shape, LogInit
    <3>2. CASE ~CreateLock(w)
      BY <1>1, <3>2, Leaves, GatherNotes DEF Shape, Quiet
    <3>3. QED
      BY <3>1, <3>2
  <2>2. CASE Return(w)
    <3>1. wk[w].pc = "unzip" /\ KeepsJob(w) /\ wk[w].written = M
          /\ wk'[w].pc = IF temp[c] = Absent THEN "opened" ELSE "list"
      BY <1>0, <2>2, ReturnDoes DEF KeepsPassword
    <3>2. c \in Contents /\ M \in Nat
      BY <3>1, InHand
    <3>3. SUFFICES ASSUME a \notin log.shared PROVE Stage(w)'
      BY <2>1, <3>1 DEF Stage, KeepsJob
    <3>4. got[a] = {} /\ temp[c] = IF M = 0 THEN Absent ELSE 1..M
      BY <1>0, <3>1, <3>3 DEF Stage
    <3>5. M > 0 => 1..M # Absent
      BY <3>2, DirIsThere
    <3>6. (M = 0 /\ wk'[w].pc = "opened" /\ got[a] = 1..M) \/ (wk'[w].pc = "list" /\ temp[c] = 1..M)
      BY <3>1, <3>2, <3>4, <3>5
    <3>7. QED
      BY <2>1, <3>1, <3>4, <3>6 DEF Stage, KeepsJob, All, Opened
  <2>3. CASE List(w)
    BY <1>0, <2>1, <2>3, ListDoes DEF Stage, All, KeepsPassword, KeepsJob, Opened
  <2>4. CASE AskLock(w)
    BY <1>0, <2>1, <2>4, AskLockDoes DEF Stage, All, KeepsPassword, KeepsJob, KeepsDir, Opened
  <2>5. CASE Gather(w)
    BY <1>0, <2>1, <2>5, GatherDoes DEF Stage, KeepsJob, KeepsDir, Opened
  <2>6. CASE Unknown(w)
    BY <1>0, <2>1, <2>6, UnknownDoes DEF Stage, All, KeepsPassword, KeepsJob, KeepsDir, Opened
  <2>7. CASE CreateLock(w)
    BY <1>0, <2>1, <2>7, CreateLockDoes DEF Stage, All, KeepsPassword, KeepsJob, KeepsDir
  <2>8. CASE Record(w)
    BY <1>0, <2>1, <2>8, RecordDoes DEF Stage, KeepsPassword, KeepsJob, KeepsDir, Opened
  <2>9. CASE Learn(w)
    BY <1>0, <2>1, <2>9, LearnDoes DEF Stage, All, KeepsPassword, KeepsJob, KeepsDir, Opened
  <2>10. CASE OpenConf(w)
    BY <1>0, <2>1, <2>10, OpenConfDoes DEF Stage, All, KeepsPassword, KeepsJob, KeepsDir, Opened
  <2>11. QED
    BY <1>1, <2>2, <2>3, <2>4, <2>5, <2>6, <2>7, <2>8, <2>9, <2>10 DEF Quiet
<1>2. CASE Unpacks(w)
  <2>1. wk[w].pc # "free"
    BY <1>0, <1>2, BeginDoes, WriteEntryDoes, WrongDoes, MoveDoes, MovedDoes DEF Unpacks
  <2>2. c \in Contents /\ a \in Archives /\ M \in Nat /\ temp \in [Contents -> {Absent} \cup SUBSET Nat]
        /\ got \in [Archives -> SUBSET Nat]
    BY <2>1, InHand DEF Shape
  <2>3. log'.shared = log.shared
    <3>1. CASE Wrong(w)
      BY <1>0, <3>1, WrongDoes DEF Shape, LogInit
    <3>2. CASE ~Wrong(w)
      BY <1>2, <3>2, Leaves DEF Unpacks
    <3>3. QED
      BY <3>1, <3>2
  <2>4. CASE Begin(w)
    <3>1. temp'[c] = Absent /\ got' = got
      BY <1>0, <2>2, <2>4, BeginDoes, Leaves
    <3>2. QED
      BY <1>0, <2>2, <2>3, <2>4, <3>1, BeginDoes DEF Stage, KeepsPassword, KeepsJob, Opened
  <2>5. CASE WriteEntry(w)
    <3> DEFINE n == wk[w].written
    <3>1. /\ wk[w].pc = "unzip" /\ wk'[w].pc = "unzip" /\ KeepsJob(w) /\ n # M /\ wk'[w].written = n + 1
          /\ temp'[c] = (IF temp[c] = Absent THEN {} ELSE temp[c]) \cup {n + 1} /\ got' = got
      BY <1>0, <2>2, <2>5, WriteEntryDoes, Leaves DEF KeepsPassword
    <3>2. SUFFICES ASSUME a \notin log.shared PROVE Stage(w)'
      BY <2>3, <3>1 DEF Stage, KeepsJob
    <3>3. got[a] = {} /\ n <= M /\ temp[c] = IF n = 0 THEN Absent ELSE 1..n
      BY <1>0, <3>1, <3>2 DEF Stage
    <3>4. n > 0 => 1..n # Absent
      BY <1>0, <2>2, <3>3, DirIsThere
    <3>5. n + 1 <= M /\ n + 1 # 0 /\ n \in Nat
      BY <1>0, <2>2, <3>1, <3>3
    <3>6. temp'[c] = 1..(n + 1)
      <4>1. temp'[c] = (IF n = 0 THEN {} ELSE 1..n) \cup {n + 1}
        BY <3>1, <3>3, <3>4, <3>5
      <4>2. QED
        BY <3>5, <4>1
    <3>7. QED
      BY <2>3, <3>1, <3>3, <3>5, <3>6 DEF Stage, KeepsJob, Opened
  <2>6. CASE Wrong(w)
    BY <1>0, <2>3, <2>6, WrongDoes, Leaves DEF Stage, KeepsJob, Opened
  <2>7. CASE Move(w)
    <3> DEFINE m == Next1(wk[w].todo)
    <3>1. /\ wk[w].pc = "move" /\ wk'[w].pc = "move" /\ KeepsJob(w) /\ m \in temp[c]
          /\ wk'[w].todo = wk[w].todo \ {m} /\ temp'[c] = temp[c] \ {m} /\ got'[a] = got[a] \cup {m}
      BY <1>0, <2>2, <2>7, MoveDoes DEF KeepsPassword
    <3> HIDE DEF m
    <3>2. QED
      BY <1>0, <2>3, <3>1 DEF Stage, KeepsJob, All, Opened
  <2>8. CASE Moved(w)
    BY <1>0, <2>3, <2>8, MovedDoes, Leaves DEF Stage, KeepsPassword, KeepsJob, All, Opened
  <2>9. QED
    BY <1>2, <2>4, <2>5, <2>6, <2>7, <2>8 DEF Unpacks
<1>3. CASE Drops(w) \/ Succeeds(w)
  BY <1>0, <1>3, DropsDoes, SucceedsDoes DEF Stage, Idle
<1>4. QED
  BY <1>1, <1>2, <1>3 DEF WorkerStep

LEMMA WorkerUnpacked ==
  ASSUME Shape, Unpacked, NEW w \in Workers, WorkerStep(w)
  PROVE  Unpacked'
<1>0. DOMAIN wk = Workers /\ DOMAIN log = DOMAIN LogInit /\ WorkerOK(w) /\ Stage(w) /\ Waiting
      /\ temp \in [Contents -> {Absent} \cup SUBSET Nat] /\ got \in [Archives -> SUBSET Nat]
      /\ result \in [Archives -> Outcomes]
  BY DEF Shape, Unpacked
<1>1. Stage(w)'
  BY StepStage
<1>2. CASE Quiet(w) \/ CreateLock(w) \/ Record(w) \/ Learn(w) \/ OpenConf(w)
  <2>1. Others(w) /\ wk[w].pc # "free" /\ KeepsJob(w)
    <3>1. CASE CreateLock(w)
      BY <1>0, <3>1, CreateLockDoes DEF WorkerOK, Idle, KeepsPassword
    <3>2. CASE ~CreateLock(w)
      BY <1>0, <1>2, <3>2, AskLockDoes, GatherDoes, ReturnDoes, ListDoes, UnknownDoes, RecordDoes,
         LearnDoes, OpenConfDoes DEF Quiet, KeepsPassword
    <3>3. QED
      BY <3>1, <3>2
  <2>2. UNCHANGED <<temp, got, result, queue>> /\ log'.shared = log.shared
    <3>1. CASE CreateLock(w)
      BY <1>0, <3>1, Leaves DEF LogInit
    <3>2. CASE ~CreateLock(w)
      BY <1>0, <1>2, <3>2, Leaves, GatherNotes DEF Quiet
    <3>3. QED
      BY <3>1, <3>2
  <2>3. wk[w].job \in Archives /\ result[wk[w].job] = "none"
    BY <1>0, <2>1, InHand DEF Waiting
  <2>4. QED
    BY <1>1, <2>1, <2>2, <2>3, OthersUnpack
<1>3. CASE Unpacks(w)
  <2>1. Others(w) /\ wk[w].pc # "free" /\ KeepsJob(w)
    BY <1>0, <1>3, BeginDoes, WriteEntryDoes, WrongDoes, MoveDoes, MovedDoes DEF Unpacks, KeepsPassword
  <2>2. Content[wk[w].job] \in Contents /\ wk[w].job \in Archives /\ result[wk[w].job] = "none"
    BY <1>0, <2>1, InHand DEF Waiting
  <2>3. UNCHANGED <<result, queue>>
    BY <1>3, Leaves
  <2>4. log'.shared = log.shared
    <3>1. CASE Wrong(w)
      BY <1>0, <3>1, WrongDoes DEF LogInit
    <3>2. CASE ~Wrong(w)
      BY <1>3, <3>2, Leaves DEF Unpacks
    <3>3. QED
      BY <3>1, <3>2
  <2>5. \A c \in Contents : c # Content[wk[w].job] => temp'[c] = temp[c]
    <3>1. \E t : temp' = [temp EXCEPT ![Content[wk[w].job]] = t]
      <4>1. CASE Begin(w) \/ Wrong(w) \/ Moved(w)
        BY <1>0, <4>1, BeginDoes, WrongDoes, MovedDoes
      <4>2. CASE WriteEntry(w)
        BY <1>0, <4>2, WriteEntryDoes
      <4>3. CASE Move(w)
        BY <1>0, <4>3, MoveDoes
      <4>4. QED
        BY <1>3, <4>1, <4>2, <4>3 DEF Unpacks
    <3>2. QED
      BY <1>0, <3>1
  <2>6. \A a \in Archives : a # wk[w].job => got'[a] = got[a]
    <3>1. CASE Move(w)
      BY <1>0, <3>1, MoveDoes
    <3>2. CASE ~Move(w)
      BY <1>3, <3>2, Leaves DEF Unpacks
    <3>3. QED
      BY <3>1, <3>2
  <2>7. QED
    BY <1>1, <2>1, <2>2, <2>3, <2>4, <2>5, <2>6, OthersUnpack
<1>4. CASE Drops(w) \/ Succeeds(w)
  <2>1. Others(w) /\ wk[w].pc # "free" /\ wk'[w] = Idle /\ wk'[w].pc = "free"
        /\ UNCHANGED <<got, queue>>
        /\ (temp' = temp \/ temp' = [temp EXCEPT ![Content[wk[w].job]] = Absent])
    <3>0. Idle.pc = "free"
      BY DEF Idle
    <3>1. CASE Drops(w)
      <4>1. /\ Others(w) /\ wk'[w] = Idle /\ wk[w].pc # "free" /\ got' = got /\ queue' = queue
            /\ temp' = temp \/ temp' = [temp EXCEPT ![Content[wk[w].job]] = Absent]
        BY <1>0, <3>1, DropsDoes
      <4>2. QED
        BY <3>0, <4>1
    <3>2. CASE Succeeds(w)
      <4>1. Others(w) /\ wk'[w] = Idle /\ wk[w].pc # "free" /\ got' = got /\ queue' = queue /\ temp' = temp
        BY <1>0, <3>2, SucceedsDoes DEF Opened
      <4>2. QED
        BY <3>0, <4>1
    <3>3. QED
      BY <1>4, <3>1, <3>2
  <2>2. Content[wk[w].job] \in Contents /\ wk[w].job \in Archives
    BY <2>1, InHand
  <2>3. log'.shared = log.shared
    <3>1. CASE Succeeds(w)
      BY <1>0, <3>1, SucceedsDoes DEF LogInit
    <3>2. CASE GiveUp(w)
      BY <3>2 DEF GiveUp
    <3>3. CASE Broken(w)
      <4>1. log' = log \/ \E b : log' = [log EXCEPT !.cut = b]
        BY <3>3 DEF Broken
      <4>2. QED
        BY <1>0, <4>1 DEF LogInit
    <3>4. QED
      BY <1>4, <3>1, <3>2, <3>3 DEF Drops
  <2>4. \A c \in Contents : c # Content[wk[w].job] => temp'[c] = temp[c]
    BY <1>0, <2>1
  <2>5. \A a \in Archives : a # wk[w].job => result'[a] = result[a]
    BY <1>0, <1>4, DropsDoes, SucceedsDoes
  <2>6. result'[wk[w].job] = "success" /\ wk[w].job \notin log.shared => got'[wk[w].job] = All(w)
    <3>1. CASE Drops(w)
      BY <1>0, <2>2, <3>1, DropsDoes
    <3>2. CASE Succeeds(w)
      BY <1>0, <2>1, <3>2, SucceedsDoes DEF Stage
    <3>3. QED
      BY <1>4, <3>1, <3>2
  <2>7. QED
    BY <1>1, <2>1, <2>2, <2>3, <2>4, <2>5, <2>6, OthersUnpack
<1>5. QED
  BY <1>2, <1>3, <1>4 DEF WorkerStep

LEMMA NextUnpacked == Shape /\ Unpacked /\ [Next]_vars => Unpacked'
<1> SUFFICES ASSUME Shape, Unpacked, [Next]_vars PROVE Unpacked'
  OBVIOUS
<1>0. Idle.pc = "free"
  BY DEF Idle
<1>1. CASE StartRun
  <2>1. \A w \in Workers : wk'[w].pc = "free"
    BY <1>0, <1>1, StartDoes
  <2>2. \A a \in Archives : got'[a] = {} /\ result'[a] = "none"
    BY <1>1, StartDoes
  <2>3. queue' \subseteq Archives
    BY <1>1, StartDoes
  <2>4. QED
    BY <2>1, <2>2, <2>3 DEF Unpacked, Apart, Waiting, Stage, WholeUnlessShared
<1>2. CASE EndRun \/ Crash
  <2>1. \A w \in Workers : wk'[w].pc = "free"
    BY <1>0, <1>2, EndDoes
  <2>2. queue' = {} /\ UNCHANGED <<result, got>>
    BY <1>2, EndDoes
  <2>3. log'.shared = log.shared
    BY <1>2, EndDoes DEF Shape, LogInit
  <2>4. QED
    BY <2>1, <2>2, <2>3 DEF Unpacked, Apart, Waiting, Stage, WholeUnlessShared
<1>3. CASE UNCHANGED vars \/ \E p \in Passwords : Edit(p)
  <2>1. UNCHANGED <<wk, queue, result, got, temp>> /\ log'.shared = log.shared
    <3>1. CASE UNCHANGED vars
      BY <3>1 DEF vars
    <3>2. ASSUME NEW p \in Passwords, Edit(p)
          PROVE  UNCHANGED <<wk, queue, result, got, temp>> /\ log'.shared = log.shared
      BY <3>2, EditDoes DEF Shape, LogInit
    <3>3. QED
      BY <1>3, <3>1, <3>2
  <2>2. QED
    BY <2>1 DEF Unpacked, Apart, Waiting, Stage, All, WholeUnlessShared
<1>4. QED
  BY <1>1, <1>2, <1>3, TakeUnpacked, WorkerUnpacked, Cases

LEMMA InitUnpacked == Init => Unpacked
<1> SUFFICES ASSUME Init PROVE Unpacked
  OBVIOUS
<1>1. \A w \in Workers : wk[w].pc = "free"
  BY DEF Init, Idle
<1>2. queue = {} /\ \A a \in Archives : result[a] = "none"
  BY DEF Init
<1>3. QED
  BY <1>1, <1>2 DEF Unpacked, Apart, Waiting, Stage, WholeUnlessShared

-----------------------------------------------------------------------------
(* How often a password is in a list.  A worker that is about to append it *)
(* saw the list without it, so that there are at most as many of them, and *)
(* of the repeats they make, as there are workers.                         *)
At(s, p) == {n \in DOMAIN s : s[n] = p}
Times(s, p) == Cardinality(At(s, p))
Learners(p) == {v \in Workers : wk[v].pc = "learn" /\ wk[v].cand[wk[v].n] = p}
OnlyItself(p) == \A q \in Passwords : Trim[q] = p => q = p

FewTimes(p) ==
  /\ Times(passwords, p) + Cardinality(Learners(p)) <= Cardinality(Workers)
  /\ conf \in Seq(Passwords) => Times(conf, p) <= Cardinality(Workers)
  /\ \A w \in Workers : wk[w].pc = "writing" => Times(wk[w].list, p) <= Cardinality(Workers)
FewRepeats == \A p \in Passwords : OnlyItself(p) => FewTimes(p)

LEMMA TimesFinite ==
  ASSUME NEW s \in Seq(Passwords), NEW p
  PROVE  /\ IsFiniteSet(At(s, p)) /\ Times(s, p) \in Nat
         /\ p \notin Range(s) => Times(s, p) = 0
<1>1. Len(s) \in Nat /\ DOMAIN s = 1..Len(s) /\ IsFiniteSet(1..Len(s))
  BY FS_Interval
<1>2. At(s, p) \subseteq 1..Len(s)
  BY <1>1 DEF At
<1>3. IsFiniteSet(At(s, p)) /\ Times(s, p) \in Nat
  BY <1>1, <1>2, Fewer DEF Times
<1>4. p \notin Range(s) => At(s, p) = {}
  BY DEF Range, At
<1>5. QED
  BY <1>3, <1>4, FS_EmptySet DEF Times

LEMMA TimesAppend ==
  ASSUME NEW s \in Seq(Passwords), NEW x \in Passwords, NEW p
  PROVE  Times(Append(s, x), p) = Times(s, p) + (IF x = p THEN 1 ELSE 0)
<1>1. /\ DOMAIN s = 1..Len(s) /\ Len(s) \in Nat /\ DOMAIN Append(s, x) = 1..(Len(s) + 1)
      /\ \A n \in 1..Len(s) : Append(s, x)[n] = s[n]
      /\ Append(s, x)[Len(s) + 1] = x
  OBVIOUS
<1>2. IsFiniteSet(At(s, p)) /\ Times(s, p) \in Nat
  BY TimesFinite
<1>3. CASE x = p
  <2>1. At(Append(s, x), p) = At(s, p) \cup {Len(s) + 1}
    BY <1>1, <1>3 DEF At
  <2>2. Len(s) + 1 \notin At(s, p)
    BY <1>1 DEF At
  <2>3. QED
    BY <1>2, <1>3, <2>1, <2>2, FS_AddElement DEF Times
<1>4. CASE x # p
  <2>1. At(Append(s, x), p) = At(s, p)
    BY <1>1, <1>4 DEF At
  <2>2. QED
    BY <1>2, <1>4, <2>1 DEF Times
<1>5. QED
  BY <1>3, <1>4

(* The steps that change no list, and after which no worker more learns. *)
LEMMA FewTimesKept ==
  ASSUME NEW p \in Passwords, FewTimes(p), passwords' = passwords, conf' = conf,
         Learners(p)' \subseteq Learners(p),
         \A w \in Workers : wk'[w].pc = "writing" => wk[w].pc = "writing" /\ wk'[w].list = wk[w].list,
         Shape
  PROVE  FewTimes(p)'
<1>1. Learners(p) \subseteq Workers
  BY DEF Learners
<1>2. Cardinality(Learners(p)') <= Cardinality(Learners(p)) /\ Cardinality(Learners(p)') \in Nat
      /\ Cardinality(Learners(p)) \in Nat
  <2>1. PICK S, T : S = Learners(p) /\ T = Learners(p)'
    OBVIOUS
  <2>2. IsFiniteSet(S) /\ T \subseteq S
    BY <1>1, <2>1, WorkersFinite
  <2>3. QED
    BY <2>1, <2>2, Fewer
<1>3. Times(passwords, p) \in Nat /\ Times(passwords, p)' = Times(passwords, p)
      /\ Cardinality(Workers) \in Nat
  BY TimesFinite, WorkersFinite DEF Shape, Times, At
<1>4. Times(passwords, p)' + Cardinality(Learners(p)') <= Cardinality(Workers)
  BY <1>2, <1>3 DEF FewTimes
<1>5. conf' \in Seq(Passwords) => Times(conf', p) <= Cardinality(Workers)
  BY DEF FewTimes
<1>6. QED
  BY <1>4, <1>5 DEF FewTimes

(* A worker's steps but those three that are about lists. *)
Listless(w) ==
  \/ Quiet(w) /\ ~Unknown(w)
  \/ CreateLock(w) \/ Record(w) \/ Unpacks(w) \/ Drops(w) \/ AlreadyKnown(w)

LEMMA ListlessDoes ==
  ASSUME Shape, NEW w \in Workers, Listless(w)
  PROVE  /\ UNCHANGED <<passwords, conf>> /\ Others(w)
         /\ wk'[w].pc \notin {"learn", "writing"}
         /\ wk'[w].pc = "save" => wk[w].pc = "save" /\ KeepsPassword(w)
         /\ wk[w].pc = "save" => wk'[w].pc = "save"
<1>0. DOMAIN wk = Workers /\ WorkerOK(w)
  BY DEF Shape
<1>1. CASE Quiet(w) /\ ~Unknown(w)
  BY <1>0, <1>1, Leaves, AskLockDoes, GatherDoes, ReturnDoes, ListDoes DEF Quiet, KeepsPassword
<1>2. CASE CreateLock(w)
  BY <1>0, <1>2, Leaves, CreateLockDoes DEF WorkerOK, KeepsPassword
<1>3. CASE Record(w)
  BY <1>0, <1>3, Leaves, RecordDoes
<1>4. CASE Unpacks(w)
  BY <1>0, <1>4, Leaves, BeginDoes, WriteEntryDoes, WrongDoes, MoveDoes, MovedDoes DEF Unpacks
<1>5. CASE Drops(w)
  BY <1>0, <1>5, DropsDoes DEF Idle
<1>6. CASE AlreadyKnown(w)
  <2>1. Ends(w, "success") /\ wk[w].pc = "opened" /\ UNCHANGED <<passwords, conf>>
    BY <1>6 DEF AlreadyKnown
  <2>2. QED
    BY <1>0, <2>1, EndsDoes DEF Idle
<1>7. QED
  BY <1>1, <1>2, <1>3, <1>4, <1>5, <1>6 DEF Listless

LEMMA WriteConfDoes ==
  ASSUME DOMAIN wk = Workers, NEW w \in Workers, WriteConf(w)
  PROVE  /\ Others(w) /\ wk'[w] = Idle /\ wk[w].pc = "writing" /\ conf' = wk[w].list
         /\ log' = [log EXCEPT !.kept = @ \cup Range(wk[w].list)]
         /\ UNCHANGED <<running, passwords, queue, locks>>
  BY EndsDoes DEF WriteConf

LEMMA ListCases ==
  ASSUME NEW w, WorkerStep(w)
  PROVE  Listless(w) \/ Unknown(w) \/ Learn(w) \/ OpenConf(w) \/ WriteConf(w)
  BY DEF WorkerStep, Listless, Succeeds, Quiet

LEMMA WorkerFewTimes ==
  ASSUME Shape, NEW p \in Passwords, FewTimes(p), NEW w \in Workers, WorkerStep(w)
  PROVE  FewTimes(p)'
<1>0. DOMAIN wk = Workers /\ WorkerOK(w) /\ passwords \in Seq(Passwords) /\ Times(passwords, p) \in Nat
      /\ Cardinality(Workers) \in Nat /\ Learners(p) \subseteq Workers
  BY TimesFinite, WorkersFinite DEF Shape, Learners
<1>1. CASE Listless(w)
  <2>1. Learners(p)' \subseteq Learners(p)
    BY <1>1, ListlessDoes DEF Learners, Others
  <2>2. QED
    BY <1>1, <2>1, ListlessDoes, FewTimesKept DEF Others
<1>2. CASE Unknown(w)
  <2>1. Others(w) /\ wk'[w].pc = "learn" /\ KeepsPassword(w) /\ wk[w].cand[wk[w].n] \notin Range(passwords)
        /\ UNCHANGED <<passwords, conf>>
    BY <1>0, <1>2, UnknownDoes, Leaves DEF Quiet
  <2>2. CASE wk[w].cand[wk[w].n] = p
    <3>1. Times(passwords, p) = 0 /\ passwords' = passwords
      BY <1>0, <2>1, <2>2, TimesFinite
    <3>2. Cardinality(Learners(p)') <= Cardinality(Workers) /\ Cardinality(Learners(p)') \in Nat
      <4>1. PICK T : T = Learners(p)'
        OBVIOUS
      <4>2. T \subseteq Workers
        BY <4>1 DEF Learners
      <4>3. QED
        BY <4>1, <4>2, WorkersFinite
    <3>3. Times(passwords, p)' + Cardinality(Learners(p)') <= Cardinality(Workers)
      BY <3>1, <3>2 DEF Times, At
    <3>4. \A v \in Workers : wk'[v].pc = "writing" => wk[v].pc = "writing" /\ wk'[v].list = wk[v].list
      BY <2>1 DEF Others
    <3>5. QED
      BY <2>1, <3>3, <3>4 DEF FewTimes
  <2>3. CASE wk[w].cand[wk[w].n] # p
    <3>1. Learners(p)' \subseteq Learners(p)
      BY <2>1, <2>3 DEF Learners, Others, KeepsPassword
    <3>2. QED
      BY <2>1, <3>1, FewTimesKept DEF Others
  <2>4. QED
    BY <2>2, <2>3
<1>3. CASE Learn(w)
  <2> DEFINE x == wk[w].cand[wk[w].n]
  <2>1. Others(w) /\ wk[w].pc = "learn" /\ wk'[w].pc = "save" /\ passwords' = Append(passwords, x) /\ conf' = conf
        /\ x \in Passwords
    BY <1>0, <1>3, LearnDoes, Leaves, InHand DEF WorkerOK, Opened
  <2> HIDE DEF x
  <2>2. Times(passwords', p) = Times(passwords, p) + (IF x = p THEN 1 ELSE 0)
    BY <1>0, <2>1, TimesAppend
  <2>3. Learners(p)' \subseteq Learners(p) \ {w} /\ (x = p => w \in Learners(p))
    BY <2>1 DEF Learners, Others, x
  <2>4. Cardinality(Learners(p)') <= Cardinality(Learners(p)) - (IF x = p THEN 1 ELSE 0)
        /\ Cardinality(Learners(p)') \in Nat /\ Cardinality(Learners(p)) \in Nat
    <3>1. PICK S, T : S = Learners(p) /\ T = Learners(p)'
      OBVIOUS
    <3>2. IsFiniteSet(S) /\ T \subseteq S \ {w} /\ (x = p => w \in S)
      BY <1>0, <2>3, <3>1, WorkersFinite
    <3>3. IsFiniteSet(S \ {w}) /\ Cardinality(S \ {w}) <= Cardinality(S)
      BY <3>2, Fewer
    <3>4. Cardinality(T) <= Cardinality(S \ {w}) /\ Cardinality(T) \in Nat /\ Cardinality(S) \in Nat
          /\ Cardinality(S \ {w}) \in Nat
      BY <3>2, <3>3, Fewer
    <3>5. x = p => Cardinality(S \ {w}) = Cardinality(S) - 1
      BY <3>2, OneLess
    <3>6. QED
      BY <3>1, <3>3, <3>4, <3>5
  <2>5. Times(passwords', p) + Cardinality(Learners(p)') <= Cardinality(Workers)
    BY <1>0, <2>2, <2>4 DEF FewTimes
  <2>6. \A v \in Workers : wk'[v].pc = "writing" => wk[v].pc = "writing" /\ wk'[v].list = wk[v].list
    BY <2>1 DEF Others
  <2>7. QED
    BY <2>1, <2>5, <2>6 DEF FewTimes, Times, At
<1>4. CASE OpenConf(w) \/ WriteConf(w)
  <2>1. passwords' = passwords /\ Others(w) /\ wk'[w].pc # "learn"
    BY <1>0, <1>4, OpenConfDoes, WriteConfDoes, Leaves DEF Idle
  <2>2. Learners(p)' \subseteq Learners(p)
    BY <2>1 DEF Learners, Others
  <2>3. Times(passwords, p)' + Cardinality(Learners(p)') <= Cardinality(Workers)
        /\ Times(passwords, p) <= Cardinality(Workers)
    <3>1. PICK S, T : S = Learners(p) /\ T = Learners(p)'
      OBVIOUS
    <3>2. IsFiniteSet(S) /\ T \subseteq S
      BY <1>0, <2>2, <3>1, WorkersFinite
    <3>3. Cardinality(T) <= Cardinality(S) /\ Cardinality(T) \in Nat /\ Cardinality(S) \in Nat
      BY <3>2, Fewer
    <3>4. QED
      BY <1>0, <2>1, <3>1, <3>3 DEF FewTimes, Times, At
  <2>4. conf' \in Seq(Passwords) => Times(conf', p) <= Cardinality(Workers)
    BY <1>0, <1>4, OpenConfDoes, WriteConfDoes, UnpackAssumption DEF FewTimes
  <2>5. ASSUME NEW v \in Workers, wk'[v].pc = "writing"
        PROVE  Times(wk'[v].list, p) <= Cardinality(Workers)
    <3>1. CASE v = w
      BY <1>0, <1>4, <2>3, <2>5, <3>1, OpenConfDoes, WriteConfDoes DEF Idle
    <3>2. CASE v # w
      BY <2>1, <2>5, <3>2 DEF FewTimes, Others
    <3>3. QED
      BY <3>1, <3>2
  <2>6. QED
    BY <2>3, <2>4, <2>5 DEF FewTimes, Times, At
<1>5. QED
  BY <1>1, <1>2, <1>3, <1>4, ListCases

LEMMA BlankOnce == ASSUME NEW p PROVE Times(Default, p) <= 1
<1>1. At(Default, p) \subseteq {1}
  BY DEF Default, At
<1>2. IsFiniteSet({1}) /\ Cardinality({1}) = 1
  BY FS_Singleton
<1>3. Cardinality(At(Default, p)) <= 1
  BY <1>1, <1>2, Fewer
<1>4. QED
  BY <1>3 DEF Times

(* What is read is not repeated more often than what was written. *)
LEMMA TimesCoerced ==
  ASSUME NEW s \in Seq(Passwords), NEW p \in Passwords, OnlyItself(p)
  PROVE  Times(Coerced(s), p) <= Times(s, p)
<1>1. DOMAIN Coerced(s) = DOMAIN s /\ \A n \in DOMAIN s : Coerced(s)[n] = Trim[s[n]]
  BY DEF Coerced
<1>2. \A n \in DOMAIN s : s[n] \in Passwords
  OBVIOUS
<1>3. At(Coerced(s), p) \subseteq At(s, p)
  BY <1>1, <1>2 DEF At, OnlyItself
<1>4. QED
  BY <1>3, TimesFinite, Fewer DEF Times

LEMMA NextRepeats == Shape /\ FewRepeats /\ [Next]_vars => FewRepeats'
<1> SUFFICES ASSUME Shape, FewRepeats, [Next]_vars, NEW p \in Passwords, OnlyItself(p) PROVE FewTimes(p)'
  BY DEF FewRepeats, OnlyItself
<1>0. FewTimes(p) /\ Cardinality(Workers) \in Nat /\ Cardinality(Workers) >= 1 /\ Idle.pc = "free"
  BY WorkersFinite DEF FewRepeats, Idle
<1>1. CASE StartRun
  <2>1. /\ conf' \in {Emptied} \cup Seq(Passwords) /\ passwords' = Read(conf')
        /\ conf' = IF conf = Absent THEN Default ELSE conf
        /\ \A w \in Workers : wk'[w].pc = "free"
    BY <1>0, <1>1, StartDoes
  <2>2. conf' \in Seq(Passwords) => Times(conf', p) \in Nat /\ Times(conf', p) <= Cardinality(Workers)
    <3>1. Times(Default, p) <= 1
      BY BlankOnce
    <3>2. conf' \in Seq(Passwords) => Times(conf', p) \in Nat
      BY TimesFinite
    <3>3. CASE conf = Absent
      BY <1>0, <2>1, <3>1, <3>2, <3>3
    <3>4. CASE conf # Absent
      BY <1>0, <2>1, <3>2, <3>4 DEF FewTimes
    <3>5. QED
      BY <3>3, <3>4
  <2>3. Times(passwords', p) <= Cardinality(Workers) /\ Times(passwords', p) \in Nat
    <3>1. passwords' \in Seq(Passwords)
      BY <1>1, StartDoes
    <3>2. Times(passwords', p) \in Nat
      BY <3>1, TimesFinite
    <3>3. CASE conf' = Emptied
      <4>1. Times(Default, p) <= 1 /\ passwords' = Default
        BY <2>1, <3>3, BlankOnce DEF Read
      <4>2. QED
        BY <1>0, <3>2, <4>1
    <3>4. CASE conf' # Emptied
      <4>1. conf' \in Seq(Passwords) /\ passwords' = Coerced(conf')
        BY <2>1, <3>4 DEF Read
      <4>2. Times(passwords', p) <= Times(conf', p)
        BY <4>1, TimesCoerced
      <4>3. QED
        BY <1>0, <2>2, <3>2, <4>1, <4>2
    <3>5. QED
      BY <3>3, <3>4
  <2>4. Cardinality(Learners(p)') = 0
    <3>1. Learners(p)' = {}
      BY <2>1 DEF Learners
    <3>2. QED
      BY <3>1, FS_EmptySet
  <2>5. QED
    BY <1>0, <2>1, <2>2, <2>3, <2>4 DEF FewTimes, Times, At
<1>2. CASE EndRun \/ Crash
  <2>1. UNCHANGED <<conf, passwords>> /\ \A w \in Workers : wk'[w].pc = "free"
    BY <1>0, <1>2, EndDoes
  <2>2. Learners(p)' \subseteq Learners(p)
    BY <2>1 DEF Learners
  <2>3. QED
    BY <1>0, <2>1, <2>2, FewTimesKept
<1>3. ASSUME NEW q \in Passwords, Edit(q) PROVE FewTimes(p)'
  <2>1. /\ conf \in Seq(Passwords) /\ conf' = Append(conf, q) /\ q \notin Range(conf)
        /\ UNCHANGED <<passwords, wk>>
    BY <1>3, EditDoes
  <2>2. Times(conf', p) = Times(conf, p) + (IF q = p THEN 1 ELSE 0) /\ Times(conf, p) \in Nat
        /\ (q = p => Times(conf, p) = 0)
    BY <2>1, TimesAppend, TimesFinite
  <2>3. Times(conf', p) <= Cardinality(Workers)
    BY <1>0, <2>1, <2>2 DEF FewTimes
  <2>4. QED
    BY <1>0, <2>1, <2>3 DEF FewTimes, Learners, Times, At
<1>4. CASE UNCHANGED vars
  <2>1. UNCHANGED <<conf, passwords, wk>>
    BY <1>4 DEF vars
  <2>2. QED
    BY <1>0, <2>1 DEF FewTimes, Learners, Times, At
<1>5. ASSUME NEW w \in Workers, NEW a \in Archives, Take(w, a) PROVE FewTimes(p)'
  <2>1. wk[w] = Idle
    BY <1>5 DEF Take, Shape, WorkerOK
  <2>2. Others(w) /\ wk'[w].pc = "record" /\ UNCHANGED <<conf, passwords>>
    BY <1>5, <2>1, TakeDoes DEF Shape
  <2>3. Learners(p)' \subseteq Learners(p)
    BY <2>2 DEF Learners, Others
  <2>4. QED
    BY <1>0, <2>2, <2>3, FewTimesKept DEF Others
<1>6. QED
  BY <1>0, <1>1, <1>2, <1>3, <1>4, <1>5, WorkerFewTimes, Cases

LEMMA InitRepeats == Init => FewRepeats
<1> SUFFICES ASSUME Init, NEW p \in Passwords PROVE FewTimes(p)
  BY DEF FewRepeats
<1>1. passwords = <<>> /\ conf = Absent /\ \A w \in Workers : wk[w].pc = "free"
  BY DEF Init, Idle
<1>2. Times(passwords, p) = 0
  <2>1. At(passwords, p) = {}
    BY <1>1 DEF At
  <2>2. QED
    BY <2>1, FS_EmptySet DEF Times
<1>3. Cardinality(Learners(p)) = 0
  <2>1. Learners(p) = {}
    BY <1>1 DEF Learners
  <2>2. QED
    BY <2>1, FS_EmptySet
<1>4. QED
  BY <1>1, <1>2, <1>3, WorkersFinite, UnpackAssumption DEF FewTimes

-----------------------------------------------------------------------------
(* The passwords that are kept.  While no rewriting was cut short and a    *)
(* run has one lock, one worker at most writes, and the list on the disk,  *)
(* or the one that is being written, holds what is to be kept and all the  *)
(* run has learned but what a worker is still about to save.               *)
Clean == ~log.cut /\ ~log.two
Kept == {p \in log.kept : Trim[p] = p}
Saving(p) == \E v \in Workers : wk[v].pc = "save" /\ wk[v].cand[wk[v].n] = p
Holds(S) ==
  /\ Kept \subseteq S
  /\ running => \A p \in Range(passwords) \ log.loaded : p \notin S => Saving(p)
OneWriter ==
  \A v, w \in Workers : wk[v].pc = "writing" /\ wk[w].pc = "writing" /\ wk[v].lock = wk[w].lock => v = w

CleanKept ==
  /\ locks <= 1
  /\ conf = Absent => log.kept = {} /\ ~running
  /\ running => Kept \subseteq Range(passwords)
  /\ ~Writing /\ conf # Absent => conf # Emptied /\ Holds(Range(conf))
  /\ \A w \in Workers : wk[w].pc = "writing" =>
       Holds(Range(wk[w].list)) /\ Range(wk[w].list) \subseteq Range(passwords)
KeptInv == OneWriter /\ (Clean => CleanKept)

(* What the history notes of a step. *)
LEMMA ListlessLog ==
  ASSUME Shape, NEW w \in Workers, Listless(w), Clean'
  PROVE  /\ Clean /\ log'.kept = log.kept /\ log'.loaded = log.loaded
         /\ locks <= 1 => locks' <= 1
         /\ wk[w].pc # "writing" /\ running' = running
<1>0. DOMAIN wk = Workers /\ WorkerOK(w) /\ DOMAIN log = DOMAIN LogInit /\ locks \in Nat
  BY DEF Shape
<1>1. CASE Quiet(w) \/ Record(w)
  <2>1. CASE Gather(w)
    <3>1. log'.kept = log.kept /\ log'.loaded = log.loaded /\ log'.cut = log.cut /\ log'.two = log.two
      BY <1>0, <2>1, GatherNotes
    <3>2. wk[w].pc # "writing" /\ running' = running /\ locks' = locks
      BY <1>0, <2>1, Leaves, GatherDoes DEF Quiet
    <3>3. QED
      BY <3>1, <3>2, Zenon DEF Clean
  <2>2. CASE ~Gather(w)
    BY <1>0, <1>1, <2>2, Leaves, AskLockDoes, ReturnDoes, ListDoes, UnknownDoes, RecordDoes
    DEF Quiet, Clean
  <2>3. QED
    BY <2>1, <2>2
<1>2. CASE CreateLock(w)
  <2>1. log' = [log EXCEPT !.two = @ \/ locks > 0] /\ locks' = locks + 1
        /\ wk[w].ask = "create" /\ running' = running
    BY <1>0, <1>2, Leaves, CreateLockDoes
  <2>2. log'.kept = log.kept /\ log'.loaded = log.loaded /\ log'.cut = log.cut
        /\ log'.two = (log.two \/ locks > 0)
    BY <1>0, <2>1 DEF LogInit
  <2>3. ~log.two /\ ~(locks > 0) /\ ~log.cut
    BY <2>2, Zenon DEF Clean
  <2>4. wk[w].pc # "writing"
    BY <1>0, <2>1 DEF WorkerOK
  <2>5. QED
    BY <1>0, <2>1, <2>2, <2>3, <2>4 DEF Clean
<1>3. CASE Unpacks(w)
  <2>1. UNCHANGED log \/ log' = [log EXCEPT !.misread = @ \cup {wk[w].job}]
    BY <1>0, <1>3, Leaves, WrongDoes DEF Unpacks
  <2>2. log'.kept = log.kept /\ log'.loaded = log.loaded /\ log'.cut = log.cut /\ log'.two = log.two
    BY <1>0, <2>1 DEF LogInit
  <2>3. Clean
    BY <2>2 DEF Clean
  <2>4. QED
    BY <1>0, <1>3, <2>2, <2>3, Leaves, BeginDoes, WriteEntryDoes, WrongDoes, MoveDoes, MovedDoes DEF Unpacks
<1>4. CASE Drops(w)
  <2>1. \/ UNCHANGED log /\ wk[w].pc # "writing"
        \/ log' = [log EXCEPT !.cut = @ \/ wk[w].pc = "writing"]
    <3>1. CASE GiveUp(w)
      BY <3>1 DEF GiveUp
    <3>2. CASE Broken(w)
      BY <3>2 DEF Broken, Gone
    <3>3. QED
      BY <1>4, <3>1, <3>2 DEF Drops
  <2>2. CASE UNCHANGED log /\ wk[w].pc # "writing"
    BY <1>0, <1>4, <2>2, DropsDoes DEF Clean
  <2>3. CASE log' = [log EXCEPT !.cut = @ \/ wk[w].pc = "writing"]
    <3>1. log'.kept = log.kept /\ log'.loaded = log.loaded /\ log'.two = log.two
          /\ log'.cut = (log.cut \/ wk[w].pc = "writing")
      BY <1>0, <2>3 DEF LogInit
    <3>2. ~log.cut /\ wk[w].pc # "writing" /\ ~log.two
      BY <3>1, Zenon DEF Clean
    <3>3. QED
      BY <1>0, <1>4, <3>1, <3>2, DropsDoes DEF Clean
  <2>4. QED
    BY <2>1, <2>2, <2>3
<1>5. CASE AlreadyKnown(w)
  BY <1>0, <1>5 DEF AlreadyKnown, Clean
<1>6. QED
  BY <1>1, <1>2, <1>3, <1>4, <1>5 DEF Listless

LEMMA RangeAppend ==
  ASSUME NEW s \in Seq(Passwords), NEW x \in Passwords
  PROVE  Range(Append(s, x)) = Range(s) \cup {x}
<1>1. /\ DOMAIN s = 1..Len(s) /\ Len(s) \in Nat /\ DOMAIN Append(s, x) = 1..(Len(s) + 1)
      /\ \A n \in 1..Len(s) : Append(s, x)[n] = s[n]
      /\ Append(s, x)[Len(s) + 1] = x
  OBVIOUS
<1>2. ASSUME NEW p \in Range(Append(s, x)) PROVE p \in Range(s) \cup {x}
  <2>1. PICK n \in 1..(Len(s) + 1) : p = Append(s, x)[n]
    BY <1>1 DEF Range
  <2>2. QED
    BY <1>1, <2>1 DEF Range
<1>3. ASSUME NEW p \in Range(s) \cup {x} PROVE p \in Range(Append(s, x))
  <2>1. CASE p \in Range(s)
    <3>1. PICK n \in 1..Len(s) : p = s[n]
      BY <1>1, <2>1 DEF Range
    <3>2. n \in DOMAIN Append(s, x) /\ Append(s, x)[n] = p
      BY <1>1, <3>1
    <3>3. QED
      BY <3>2 DEF Range
  <2>2. CASE p = x
    BY <1>1, <2>2 DEF Range
  <2>3. QED
    BY <1>3, <2>1, <2>2
<1>4. QED
  BY <1>2, <1>3

LEMMA SameList ==
  ASSUME NEW w \in Workers, CleanKept, Others(w), UNCHANGED <<running, passwords, conf>>,
         log'.kept = log.kept, log'.loaded = log.loaded, locks' <= 1,
         wk[w].pc # "writing", wk'[w].pc # "writing",
         wk[w].pc = "save" => wk'[w].pc = "save" /\ KeepsPassword(w)
  PROVE  CleanKept'
<1>1. Kept' = Kept
  BY DEF Kept
<1>2. \A p : Saving(p) => Saving(p)'
  BY DEF Saving, Others, KeepsPassword
<1>3. Writing' <=> Writing
  BY DEF Writing, Others
<1>4. ASSUME NEW S, Holds(S)
      PROVE  /\ Kept' \subseteq S
             /\ running' => \A p \in Range(passwords) \ log.loaded : p \notin S => Saving(p)'
  BY <1>1, <1>2, <1>4 DEF Holds
<1>5. ~Writing /\ conf # Absent => conf # Emptied /\ Holds(Range(conf))'
  BY <1>4 DEF CleanKept, Holds
<1>6. ASSUME NEW v \in Workers, wk'[v].pc = "writing"
      PROVE  wk'[v] = wk[v] /\ Holds(Range(wk[v].list))' /\ Range(wk[v].list) \subseteq Range(passwords)
  <2>1. wk'[v] = wk[v] /\ Holds(Range(wk[v].list)) /\ Range(wk[v].list) \subseteq Range(passwords)
    BY <1>6 DEF CleanKept, Others
  <2>2. QED
    BY <1>4, <2>1 DEF Holds
<1>7. running' => Kept' \subseteq Range(passwords)
  BY <1>1 DEF CleanKept
<1>8. conf' = Absent => log'.kept = {} /\ ~running'
  BY DEF CleanKept
<1>9. QED
  BY <1>3, <1>5, <1>6, <1>7, <1>8 DEF CleanKept

LEMMA OneWriterKept ==
  ASSUME Shape, OneWriter, NEW w \in Workers, WorkerStep(w)
  PROVE  OneWriter'
<1>0. DOMAIN wk = Workers
  BY DEF Shape
<1>1. CASE Listless(w) \/ Unknown(w) \/ Learn(w) \/ WriteConf(w)
  <2>1. Others(w) /\ wk'[w].pc # "writing"
    BY <1>0, <1>1, ListlessDoes, UnknownDoes, LearnDoes, WriteConfDoes DEF Idle
  <2>2. QED
    BY <2>1 DEF OneWriter, Others
<1>2. CASE OpenConf(w)
  <2>1. /\ Others(w) /\ wk'[w].lock = wk[w].lock
        /\ \A v \in Workers : wk[v].pc = "writing" => wk[v].lock # wk[w].lock
    BY <1>0, <1>2, OpenConfDoes DEF KeepsLock
  <2>2. QED
    BY <2>1 DEF OneWriter, Others
<1>3. QED
  BY <1>1, <1>2, ListCases

(* With one lock nobody else writes while a worker may. *)
LEMMA NobodyElse ==
  ASSUME Shape, CleanKept, NEW w \in Workers, NEW v \in Workers, wk[w].ask = "wait", wk[v].ask = "wait"
  PROVE  wk[v].lock = wk[w].lock
<1>1. wk[v].lock \in 1..locks /\ wk[w].lock \in 1..locks /\ locks \in Nat /\ locks <= 1
  BY DEF Shape, WorkerOK, CleanKept
<1>2. QED
  BY <1>1

LEMMA WorkerKept ==
  ASSUME Shape, KeptInv, NEW w \in Workers, WorkerStep(w), Clean'
  PROVE  CleanKept'
<1>0. DOMAIN wk = Workers /\ WorkerOK(w) /\ DOMAIN log = DOMAIN LogInit /\ locks \in Nat
      /\ passwords \in Seq(Passwords)
  BY DEF Shape
<1>1. CASE Listless(w)
  <2>1. /\ Clean /\ log'.kept = log.kept /\ log'.loaded = log.loaded /\ (locks <= 1 => locks' <= 1)
        /\ wk[w].pc # "writing" /\ running' = running
    BY <1>1, ListlessLog
  <2>2. CleanKept /\ locks' <= 1
    BY <2>1 DEF KeptInv, CleanKept
  <2>3. QED
    BY <1>1, <2>1, <2>2, ListlessDoes, SameList
<1>2. CASE ~Listless(w)
  <2>1. CASE Unknown(w)
    <3>1. UNCHANGED <<running, passwords, conf, log, locks>>
      BY <2>1, Leaves DEF Quiet
    <3>2. Others(w) /\ wk[w].pc = "opened" /\ wk'[w].pc = "learn"
      BY <1>0, <2>1, UnknownDoes
    <3>3. CleanKept
      BY <3>1 DEF KeptInv, Clean
    <3>4. locks' <= 1
      BY <3>1, <3>3 DEF CleanKept
    <3>5. QED
      BY <3>1, <3>2, <3>3, <3>4, SameList
  <2>2. CASE Learn(w)
    <3>0. PICK x : x = wk[w].cand[wk[w].n]
      OBVIOUS
    <3>1. UNCHANGED <<conf, running, locks, log>>
      BY <2>2, Leaves
    <3>2. Others(w) /\ wk[w].pc = "learn" /\ wk'[w].pc = "save" /\ passwords' = Append(passwords, x)
          /\ wk'[w].cand[wk'[w].n] = x /\ x \in Passwords
      BY <1>0, <2>2, <3>0, LearnDoes, InHand DEF WorkerOK, Opened, KeepsPassword
    <3>3. CleanKept
      BY <3>1 DEF KeptInv, Clean
    <3>4. Range(passwords') = Range(passwords) \cup {x}
      BY <1>0, <3>2, RangeAppend
    <3>5. Kept' = Kept /\ (\A p : Saving(p) => Saving(p)') /\ Saving(x)' /\ (Writing' <=> Writing)
      <4>1. Kept' = Kept
        BY <3>1 DEF Kept
      <4>2. \A p : Saving(p) => Saving(p)'
        BY <3>2 DEF Saving, Others
      <4>3. Saving(x)'
        BY <3>2 DEF Saving
      <4>4. Writing' <=> Writing
        BY <3>2 DEF Writing, Others
      <4>5. QED
        BY <4>1, <4>2, <4>3, <4>4
    <3>6. ASSUME NEW S, Holds(S)
          PROVE  /\ Kept' \subseteq S
                 /\ running' => \A p \in Range(passwords') \ log'.loaded : p \notin S => Saving(p)'
      BY <3>1, <3>4, <3>5, <3>6 DEF Holds
    <3>7. ~Writing /\ conf # Absent => conf # Emptied /\ Holds(Range(conf))'
      BY <3>1, <3>3, <3>6 DEF CleanKept, Holds
    <3>8. ASSUME NEW v \in Workers, wk'[v].pc = "writing"
          PROVE  wk'[v] = wk[v] /\ Holds(Range(wk[v].list))' /\ Range(wk[v].list) \subseteq Range(passwords')
      <4>1. wk'[v] = wk[v] /\ Holds(Range(wk[v].list)) /\ Range(wk[v].list) \subseteq Range(passwords)
        BY <3>2, <3>3, <3>8 DEF CleanKept, Others
      <4>2. QED
        BY <3>4, <3>6, <4>1 DEF Holds
    <3>9. /\ running' => Kept' \subseteq Range(passwords')
          /\ locks' <= 1 /\ (conf' = Absent => log'.kept = {} /\ ~running')
      BY <3>1, <3>3, <3>4, <3>5 DEF CleanKept
    <3>10. QED
      BY <3>1, <3>5, <3>7, <3>8, <3>9 DEF CleanKept
  <2>3. CASE OpenConf(w)
    <3>1. UNCHANGED <<running, passwords, locks, log>>
      BY <2>3, Leaves
    <3>2. /\ Others(w) /\ wk[w].pc = "save" /\ wk'[w].pc = "writing" /\ wk'[w].list = passwords
          /\ conf' = Emptied /\ wk[w].ask = "wait" /\ \A v \in Workers : wk[v].pc = "writing" => wk[v].lock # wk[w].lock
      BY <1>0, <2>3, OpenConfDoes
    <3>3. CleanKept
      BY <3>1 DEF KeptInv, Clean
    <3>4. ASSUME NEW v \in Workers, wk[v].pc = "writing" PROVE FALSE
      <4>1. wk[v].ask = "wait"
        BY <3>4 DEF Shape, WorkerOK
      <4>2. QED
        BY <3>2, <3>3, <3>4, <4>1, NobodyElse
    <3>5. running /\ Kept' = Kept
      BY <3>1, <3>2, InHand DEF Kept
    <3>6. Holds(Range(passwords))'
      BY <3>1, <3>3, <3>5 DEF CleanKept, Holds
    <3>7. \A v \in Workers : wk'[v].pc = "writing" => v = w
      BY <3>2, <3>4 DEF Others
    <3>8. Writing'
      BY <3>2 DEF Writing
    <3>9. locks' <= 1 /\ (running' => Kept' \subseteq Range(passwords')) /\ conf' # Absent
      BY <3>1, <3>2, <3>3, <3>5, UnpackAssumption DEF CleanKept
    <3>10. ASSUME NEW v \in Workers, wk'[v].pc = "writing"
          PROVE  Holds(Range(wk[v].list))' /\ Range(wk'[v].list) \subseteq Range(passwords')
      <4>1. wk'[v].list = passwords /\ passwords' = passwords
        BY <3>1, <3>2, <3>7, <3>10
      <4>2. QED
        BY <3>6, <4>1 DEF Holds
    <3>11. QED
      BY <3>8, <3>9, <3>10 DEF CleanKept
  <2>4. CASE WriteConf(w)
    <3> DEFINE s == wk[w].list
    <3>1. /\ Others(w) /\ wk'[w].pc = "free" /\ wk[w].pc = "writing" /\ conf' = s
          /\ log' = [log EXCEPT !.kept = @ \cup Range(s)]
          /\ UNCHANGED <<running, passwords, locks>>
      BY <1>0, <2>4, WriteConfDoes DEF Idle
    <3>2. log'.kept = log.kept \cup Range(s) /\ log'.loaded = log.loaded /\ log'.cut = log.cut /\ log'.two = log.two
      BY <1>0, <3>1 DEF LogInit
    <3>3. CleanKept
      BY <3>2 DEF KeptInv, Clean
    <3>4. Holds(Range(s)) /\ Range(s) \subseteq Range(passwords) /\ s \in Seq(Passwords) /\ wk[w].ask = "wait"
      BY <1>0, <3>1, <3>3 DEF CleanKept, WorkerOK
    <3> HIDE DEF s
    <3>5. ASSUME NEW v \in Workers, wk'[v].pc = "writing" PROVE FALSE
      <4>1. v # w /\ wk[v].pc = "writing"
        BY <3>1, <3>5 DEF Others
      <4>2. wk[v].ask = "wait"
        BY <4>1 DEF Shape, WorkerOK
      <4>3. QED
        BY <3>1, <3>3, <3>4, <4>1, <4>2, NobodyElse DEF KeptInv, OneWriter
    <3>6. (\A p : Saving(p) => Saving(p)') /\ Kept' \subseteq Kept \cup Range(s)
      BY <3>1, <3>2 DEF Saving, Others, Kept
    <3>7. /\ Kept' \subseteq Range(s)
          /\ running' => \A p \in Range(passwords') \ log'.loaded : p \notin Range(s) => Saving(p)'
      BY <3>1, <3>2, <3>4, <3>6 DEF Holds
    <3>8. running' => Kept' \subseteq Range(passwords')
      BY <3>1, <3>3, <3>4, <3>6 DEF CleanKept
    <3>9. conf' # Absent /\ conf' # Emptied /\ locks' <= 1
      BY <3>1, <3>3, <3>4, UnpackAssumption DEF CleanKept
    <3>10. Holds(Range(conf))'
      BY <3>1, <3>7 DEF Holds
    <3>11. QED
      BY <3>5, <3>8, <3>9, <3>10 DEF CleanKept
  <2>5. QED
    BY <1>2, <2>1, <2>2, <2>3, <2>4, ListCases
<1>3. QED
  BY <1>1, <1>2

(* A run begins with the entries of the file that are stripped to themselves. *)
LEMMA RangeCoerced ==
  ASSUME NEW s \in Seq(Passwords), NEW p \in Range(s), Trim[p] = p
  PROVE  p \in Range(Coerced(s))
<1>1. PICK n \in DOMAIN s : s[n] = p
  BY DEF Range
<1>2. n \in DOMAIN Coerced(s) /\ Coerced(s)[n] = p
  BY <1>1 DEF Coerced
<1>3. QED
  BY <1>2 DEF Range

LEMMA StartKept == ASSUME Shape, KeptInv, StartRun, Clean' PROVE CleanKept'
<1>1. /\ log' = [log EXCEPT !.loaded = Range(passwords'), !.known = LogInit.known,
                            !.shared = {}, !.misread = {}]
      /\ ~running /\ conf' \in {Emptied} \cup Seq(Passwords) /\ passwords' = Read(conf')
      /\ conf' = (IF conf = Absent THEN Default ELSE conf)
      /\ UNCHANGED <<locks, wk>> /\ \A w \in Workers : wk[w] = Idle
  BY StartDoes
<1>2. log'.kept = log.kept /\ log'.loaded = Range(passwords') /\ log'.cut = log.cut /\ log'.two = log.two
  <2>1. DOMAIN log = DOMAIN LogInit
    BY DEF Shape
  <2>2. QED
    BY <1>1, <2>1 DEF LogInit
<1>3. CleanKept
  BY <1>2 DEF KeptInv, Clean
<1>4. \A w \in Workers : wk[w].pc = "free" /\ wk'[w].pc = "free"
  BY <1>1 DEF Idle
<1>5. ~Writing /\ Kept' = Kept
  BY <1>2, <1>4 DEF Writing, Kept
<1>6. Kept \subseteq Range(conf') /\ conf' # Emptied
  <2>1. CASE conf = Absent
    <3>1. Kept = {} /\ conf' = Default
      BY <1>1, <1>3, <2>1 DEF CleanKept, Kept
    <3>2. Default \in Seq(Passwords)
      BY UnpackAssumption DEF Default
    <3>3. QED
      BY <3>1, <3>2, UnpackAssumption
  <2>2. CASE conf # Absent
    BY <1>1, <1>3, <1>5, <2>2 DEF CleanKept, Holds
  <2>3. QED
    BY <2>1, <2>2
<1>7. Kept \subseteq Range(passwords')
  BY <1>1, <1>6, RangeCoerced DEF Read, Kept
<1>8. Holds(Range(conf))'
  BY <1>2, <1>5, <1>6 DEF Holds
<1>9. conf' # Absent /\ locks' <= 1
  BY <1>1, <1>3, UnpackAssumption DEF CleanKept
<1>10. QED
  BY <1>4, <1>5, <1>6, <1>7, <1>8, <1>9 DEF CleanKept

LEMMA EndKept == ASSUME Shape, KeptInv, EndRun \/ Crash, Clean' PROVE CleanKept'
<1>1. /\ ~running' /\ locks' = 0 /\ conf' = conf /\ (\A w \in Workers : wk'[w] = Idle)
      /\ \/ UNCHANGED <<wk, log>>
         \/ log' = [log EXCEPT !.cut = @ \/ \E w \in Workers : wk[w].pc = "writing"]
  BY EndDoes
<1>2. \A w \in Workers : wk'[w].pc = "free"
  BY <1>1 DEF Idle
<1>3. Clean /\ ~Writing /\ log'.kept = log.kept
  <2>1. CASE UNCHANGED <<wk, log>>
    BY <1>2, <2>1 DEF Clean, Writing
  <2>2. CASE log' = [log EXCEPT !.cut = @ \/ \E w \in Workers : wk[w].pc = "writing"]
    <3>1. DOMAIN log = DOMAIN LogInit
      BY DEF Shape
    <3>2. log'.kept = log.kept /\ log'.two = log.two
          /\ log'.cut = (log.cut \/ \E w \in Workers : wk[w].pc = "writing")
      BY <2>2, <3>1 DEF LogInit
    <3>3. ~log.cut /\ ~log.two /\ ~\E w \in Workers : wk[w].pc = "writing"
      BY <3>2, Zenon DEF Clean
    <3>4. QED
      BY <3>2, <3>3 DEF Clean, Writing
  <2>3. QED
    BY <1>1, <2>1, <2>2
<1>4. CleanKept /\ Kept' = Kept
  BY <1>3 DEF KeptInv, Kept
<1>5. conf' # Absent => conf' # Emptied /\ Holds(Range(conf))'
  BY <1>1, <1>3, <1>4 DEF CleanKept, Holds
<1>6. QED
  BY <1>1, <1>2, <1>3, <1>4, <1>5 DEF CleanKept

LEMMA EditKept == ASSUME Shape, KeptInv, NEW p \in Passwords, Edit(p), Clean' PROVE CleanKept'
<1>1. /\ conf \in Seq(Passwords) /\ conf' = Append(conf, p)
      /\ log' = IF running THEN log ELSE [log EXCEPT !.kept = @ \cup {p}]
      /\ UNCHANGED <<running, passwords, locks, wk>>
  BY EditDoes
<1>2. /\ log'.loaded = log.loaded /\ log'.cut = log.cut /\ log'.two = log.two
      /\ log'.kept = IF running THEN log.kept ELSE log.kept \cup {p}
  <2>1. DOMAIN log = DOMAIN LogInit
    BY DEF Shape
  <2>2. QED
    BY <1>1, <2>1 DEF LogInit
<1>3. CleanKept
  BY <1>2 DEF KeptInv, Clean
<1>4. Range(conf') = Range(conf) \cup {p} /\ conf' \in Seq(Passwords)
  BY <1>1, RangeAppend
<1>5. conf' # Absent /\ conf' # Emptied /\ conf # Absent
  BY <1>1, <1>4, UnpackAssumption
<1>6. Kept' \subseteq Kept \cup {p} /\ (running => Kept' = Kept) /\ Writing' = Writing
      /\ (\A q : Saving(q) => Saving(q)')
  BY <1>1, <1>2 DEF Kept, Writing, Saving
<1>7. ~Writing => Holds(Range(conf))'
  <2>1. ~Writing => Holds(Range(conf))
    BY <1>3, <1>5 DEF CleanKept
  <2>2. QED
    BY <1>1, <1>2, <1>4, <1>6, <2>1 DEF Holds
<1>8. ASSUME NEW w \in Workers, wk'[w].pc = "writing"
      PROVE  Holds(Range(wk[w].list))' /\ Range(wk[w].list) \subseteq Range(passwords)
  <2>1. running /\ Holds(Range(wk[w].list)) /\ Range(wk[w].list) \subseteq Range(passwords)
    BY <1>1, <1>3, <1>8, InHand DEF CleanKept
  <2>2. QED
    BY <1>1, <1>2, <1>6, <2>1 DEF Holds
<1>9. locks' <= 1 /\ (running' => Kept' \subseteq Range(passwords'))
  BY <1>1, <1>3, <1>6 DEF CleanKept
<1>10. QED
  BY <1>1, <1>5, <1>6, <1>7, <1>8, <1>9 DEF CleanKept

LEMMA TakeKept ==
  ASSUME Shape, KeptInv, NEW w \in Workers, NEW a \in Archives, Take(w, a), Clean'
  PROVE  CleanKept'
<1>1. wk[w] = Idle /\ DOMAIN log = DOMAIN LogInit
  BY DEF Take, Shape, WorkerOK
<1>2. Others(w) /\ wk'[w].pc = "record" /\ UNCHANGED <<conf, running, passwords, locks>> /\ wk[w].pc = "free"
  BY <1>1, TakeDoes DEF Shape, Take
<1>3. \E S : log' = [log EXCEPT !.shared = S]
  BY DEF Take
<1>4. log'.kept = log.kept /\ log'.loaded = log.loaded /\ log'.cut = log.cut /\ log'.two = log.two
  BY <1>1, <1>3 DEF LogInit
<1>5. CleanKept
  BY <1>4 DEF KeptInv, Clean
<1>6. locks' <= 1
  BY <1>2, <1>5 DEF CleanKept
<1>7. QED
  BY <1>2, <1>4, <1>5, <1>6, SameList

LEMMA NextKept == Shape /\ KeptInv /\ [Next]_vars => KeptInv'
<1> SUFFICES ASSUME Shape, KeptInv, [Next]_vars PROVE KeptInv'
  OBVIOUS
<1>1. CASE StartRun \/ EndRun \/ Crash
  <2>1. \A w \in Workers : wk'[w].pc = "free"
    BY <1>1, StartDoes, EndDoes DEF Idle
  <2>2. QED
    BY <1>1, <2>1, StartKept, EndKept DEF KeptInv, OneWriter
<1>2. CASE UNCHANGED vars
  BY <1>2 DEF vars, KeptInv, OneWriter, Clean, CleanKept, Kept, Holds, Saving, Writing
<1>3. ASSUME NEW p \in Passwords, Edit(p) PROVE KeptInv'
  <2>1. wk' = wk
    BY <1>3 DEF Edit
  <2>2. QED
    BY <1>3, <2>1, EditKept DEF KeptInv, OneWriter
<1>4. ASSUME NEW w \in Workers, NEW a \in Archives, Take(w, a) PROVE KeptInv'
  <2>1. wk[w] = Idle
    BY <1>4 DEF Take, Shape, WorkerOK
  <2>2. Others(w) /\ wk'[w].pc = "record"
    BY <1>4, <2>1, TakeDoes DEF Shape
  <2>3. OneWriter'
    BY <2>2 DEF KeptInv, OneWriter, Others
  <2>4. QED
    BY <1>4, <2>3, TakeKept DEF KeptInv
<1>5. ASSUME NEW w \in Workers, WorkerStep(w) PROVE KeptInv'
  BY <1>5, OneWriterKept, WorkerKept DEF KeptInv
<1>6. QED
  BY <1>1, <1>2, <1>3, <1>4, <1>5, Cases

LEMMA InitKept == Init => KeptInv
<1> SUFFICES ASSUME Init PROVE KeptInv
  OBVIOUS
<1>1. locks = 0 /\ conf = Absent /\ ~running /\ log.kept = {} /\ \A w \in Workers : wk[w].pc = "free"
  BY DEF Init, LogInit, Idle
<1>2. QED
  BY <1>1 DEF KeptInv, OneWriter, CleanKept

-----------------------------------------------------------------------------
(* What Distinct returns: the places of a list at which a value is for the *)
(* first time are ranked from 1 to their number, each with a rank of its   *)
(* own, so that none of the list's values is left out or added.            *)
First(s) == {i \in DOMAIN s : \A j \in 1..(i - 1) : s[j] # s[i]}
Rank(s, i) == Cardinality({j \in First(s) : j <= i})

LEMMA FirstFinite ==
  ASSUME NEW S, NEW s \in Seq(S)
  PROVE  /\ First(s) \subseteq 1..Len(s) /\ Len(s) \in Nat
         /\ IsFiniteSet(First(s)) /\ Cardinality(First(s)) \in Nat
<1>1. First(s) \subseteq 1..Len(s) /\ Len(s) \in Nat
  BY DEF First
<1>2. IsFiniteSet(1..Len(s))
  BY <1>1, FS_Interval
<1>3. QED
  BY <1>1, <1>2, Fewer

LEMMA RankGrows ==
  ASSUME NEW S, NEW s \in Seq(S), NEW i \in First(s), NEW j \in First(s), i < j
  PROVE  Rank(s, i) < Rank(s, j) /\ Rank(s, i) \in Nat /\ Rank(s, j) \in Nat
<1> DEFINE A == {m \in First(s) : m <= i}
           B == {m \in First(s) : m <= j}
<1>1. First(s) \subseteq Nat /\ IsFiniteSet(First(s))
  BY FirstFinite
<1>2. A \subseteq B \ {j} /\ j \in B /\ B \subseteq First(s)
  BY <1>1
<1> HIDE DEF A, B
<1>3. IsFiniteSet(B) /\ IsFiniteSet(B \ {j})
  BY <1>1, <1>2, FS_Subset
<1>4. Cardinality(A) <= Cardinality(B \ {j}) /\ Cardinality(A) \in Nat /\ Cardinality(B \ {j}) \in Nat
  BY <1>2, <1>3, Fewer
<1>5. Cardinality(B \ {j}) = Cardinality(B) - 1 /\ Cardinality(B) \in Nat
  BY <1>2, <1>3, OneLess
<1>6. Cardinality(A) < Cardinality(B) /\ Cardinality(A) \in Nat /\ Cardinality(B) \in Nat
  BY <1>4, <1>5
<1>7. QED
  BY <1>6 DEF Rank, A, B

LEMMA RankRange ==
  ASSUME NEW S, NEW s \in Seq(S), NEW i \in First(s)
  PROVE  Rank(s, i) \in 1..Cardinality(First(s))
<1> DEFINE A == {m \in First(s) : m <= i}
<1>1. First(s) \subseteq Nat /\ IsFiniteSet(First(s)) /\ Cardinality(First(s)) \in Nat
  BY FirstFinite
<1>2. A \subseteq First(s) /\ i \in A
  BY <1>1
<1> HIDE DEF A
<1>3. IsFiniteSet(A) /\ Cardinality(A) \in Nat /\ Cardinality(A) <= Cardinality(First(s))
  BY <1>1, <1>2, Fewer
<1>4. Cardinality(A) # 0
  BY <1>2, <1>3, FS_EmptySet
<1>5. Cardinality(A) \in 1..Cardinality(First(s))
  BY <1>1, <1>3, <1>4
<1>6. QED
  BY <1>5 DEF Rank, A

LEMMA RankOwn ==
  ASSUME NEW S, NEW s \in Seq(S), NEW i \in First(s), NEW j \in First(s), Rank(s, i) = Rank(s, j)
  PROVE  i = j
<1>1. i \in Nat /\ j \in Nat
  BY FirstFinite
<1>2. ~(i < j) /\ ~(j < i)
  <2>1. ASSUME i < j PROVE FALSE
    BY <2>1, RankGrows
  <2>2. ASSUME j < i PROVE FALSE
    BY <2>2, RankGrows
  <2>3. QED
    BY <2>1, <2>2
<1>3. QED
  BY <1>1, <1>2

(* Every rank is some place's: as many ranks as places, none of them twice. *)
LEMMA RankTaken ==
  ASSUME NEW S, NEW s \in Seq(S), NEW n \in 1..Cardinality(First(s))
  PROVE  \E i \in First(s) : Rank(s, i) = n
<1> DEFINE f == [i \in First(s) |-> Rank(s, i)]
           N == 1..Cardinality(First(s))
<1>1. IsFiniteSet(N) /\ Cardinality(N) = Cardinality(First(s))
  BY FirstFinite, FS_Interval
<1>2. f \in Injection(First(s), N)
  BY RankRange, RankOwn DEF Injection, IsInjective
<1>3. f \in Surjection(First(s), N)
  <2> HIDE DEF f, N
  <2>1. QED
    BY <1>1, <1>2, FS_Injection
<1>4. QED
  BY <1>3 DEF Surjection

(* A value is in a list for the first time at some place. *)
LEMMA FirstPlace ==
  ASSUME NEW S, NEW s \in Seq(S), NEW i \in DOMAIN s
  PROVE  \E j \in First(s) : s[j] = s[i]
<1> DEFINE T == {m \in DOMAIN s : s[m] = s[i]}
<1>1. T \subseteq Nat /\ i \in T /\ DOMAIN s = 1..Len(s) /\ Len(s) \in Nat
  OBVIOUS
<1>2. PICK j \in T : \A m \in T : ~(m < j)
  <2> HIDE DEF T
  <2>1. IsWellFoundedOn(OpToRel(<, Nat), Nat)
    BY NatLessThanWellFounded
  <2>2. PICK j \in T : \A m \in T : ~(<<m, j>> \in OpToRel(<, Nat))
    BY <1>1, <2>1, WFMin
  <2>3. QED
    BY <1>1, <2>2 DEF OpToRel
<1>3. \A m \in 1..(j - 1) : s[m] # s[j]
  BY <1>1, <1>2
<1>4. QED
  BY <1>2, <1>3 DEF First

LEMMA DistinctKeeps ==
  ASSUME NEW S, NEW s \in Seq(S)
  PROVE  Distinct(s) \in Seq(S) /\ Range(Distinct(s)) = Range(s)
<1> DEFINE N == Cardinality(First(s))
           Spot(n) == CHOOSE i \in First(s) : Rank(s, i) = n
<1>1. Distinct(s) = [n \in 1..N |-> s[Spot(n)]]
  BY DEF Distinct, First, Rank
<1>2. N \in Nat /\ First(s) \subseteq DOMAIN s
  BY FirstFinite DEF First
<1>3. ASSUME NEW n \in 1..N PROVE Spot(n) \in First(s) /\ Rank(s, Spot(n)) = n
  BY RankTaken
<1>4. ASSUME NEW i \in First(s) PROVE Rank(s, i) \in 1..N /\ Spot(Rank(s, i)) = i
  <2>1. Rank(s, i) \in 1..N
    BY RankRange
  <2>2. Spot(Rank(s, i)) \in First(s) /\ Rank(s, Spot(Rank(s, i))) = Rank(s, i)
    BY <1>3, <2>1
  <2> HIDE DEF Spot
  <2>3. QED
    BY <2>1, <2>2, RankOwn
<1> HIDE DEF N, Spot
<1>5. Distinct(s) \in Seq(S)
  <2>1. \A n \in 1..N : s[Spot(n)] \in S
    BY <1>2, <1>3
  <2>2. QED
    BY <1>1, <1>2, <2>1
<1>6. Range(Distinct(s)) \subseteq Range(s)
  BY <1>1, <1>2, <1>3 DEF Range
<1>7. ASSUME NEW p \in Range(s) PROVE p \in Range(Distinct(s))
  <2>1. PICK i \in First(s) : s[i] = p
    BY FirstPlace DEF Range
  <2>2. Rank(s, i) \in DOMAIN Distinct(s) /\ Distinct(s)[Rank(s, i)] = p
    BY <1>1, <1>4, <2>1
  <2>3. QED
    BY <2>2 DEF Range
<1>8. QED
  BY <1>5, <1>6, <1>7

-----------------------------------------------------------------------------
(* Why an archive fails for its password.  Its candidates hold all that is *)
(* given, and those the worker is past do not open it.                     *)
Given(a) == log.loaded \cup log.known[a] \cup ({Scraped[a]} \ {Absent})
Trying(w) ==
  wk[w].pc \in {"try", "unzip"} =>
    /\ wk[w].cand \in Seq(Passwords) /\ Given(wk[w].job) \subseteq Range(wk[w].cand)
    /\ wk[w].job \notin log.misread =>
         \A m \in DOMAIN wk[w].cand : m < wk[w].n => wk[w].cand[m] \notin Opens[Content[wk[w].job]]
LockedInv ==
  /\ DOMAIN log.known = Archives
  /\ running => log.loaded \subseteq Range(passwords)
  /\ \A w \in Workers : wk[w].pc \in {"record", "gather"} => wk[w].n = 1
  /\ \A w \in Workers : Trying(w)
  /\ FailedIsLocked

LEMMA ConcatKeeps ==
  ASSUME NEW S, NEW s \in Seq(S), NEW t \in Seq(S)
  PROVE  s \o t \in Seq(S) /\ Range(s) \subseteq Range(s \o t) /\ Range(t) \subseteq Range(s \o t)
<1>1. /\ s \o t \in Seq(S) /\ DOMAIN s = 1..Len(s) /\ DOMAIN t = 1..Len(t)
      /\ DOMAIN (s \o t) = 1..(Len(s) + Len(t)) /\ Len(s) \in Nat /\ Len(t) \in Nat
      /\ \A n \in 1..Len(s) : (s \o t)[n] = s[n]
      /\ \A n \in 1..Len(t) : (s \o t)[Len(s) + n] = t[n]
  OBVIOUS
<1>2. ASSUME NEW n \in DOMAIN s PROVE s[n] \in Range(s \o t)
  <2>1. n \in DOMAIN (s \o t) /\ (s \o t)[n] = s[n]
    BY <1>1
  <2>2. QED
    BY <2>1 DEF Range
<1>3. ASSUME NEW n \in DOMAIN t PROVE t[n] \in Range(s \o t)
  <2>1. Len(s) + n \in DOMAIN (s \o t) /\ (s \o t)[Len(s) + n] = t[n]
    BY <1>1
  <2>2. QED
    BY <2>1 DEF Range
<1>4. QED
  BY <1>1, <1>2, <1>3 DEF Range

(* The candidates of an archive hold all that is given. *)
LEMMA CandidatesHold ==
  ASSUME Shape, NEW a \in Archives, NEW api \in {Known(Api[Content[a]]), <<>>},
         log.loaded \subseteq Range(passwords)
  PROVE  /\ Candidates(a, api) \in Seq(Passwords)
         /\ log.loaded \cup Range(api) \cup Range(passwords) \cup ({Scraped[a]} \ {Absent})
              \subseteq Range(Candidates(a, api))
<1> DEFINE text == Known(Scraped[a])
<1>1. Content[a] \in Contents /\ Scraped[a] \in Passwords \cup {Absent}
  BY UnpackAssumption DEF Contents
<1>2. Api[Content[a]] \in Passwords \cup {Absent}
  BY <1>1, UnpackAssumption
<1>3. \A p \in Passwords \cup {Absent} :
        Known(p) \in Seq(Passwords) /\ (p # Absent => p \in Range(Known(p)))
  <2> SUFFICES ASSUME NEW p \in Passwords \cup {Absent}
               PROVE  Known(p) \in Seq(Passwords) /\ (p # Absent => p \in Range(Known(p)))
    OBVIOUS
  <2>1. CASE p = Absent
    BY <2>1 DEF Known
  <2>2. CASE p # Absent
    <3>1. Known(p) = <<p>> /\ p \in Passwords
      BY <2>2 DEF Known
    <3>2. <<p>> \in Seq(Passwords) /\ 1 \in DOMAIN <<p>> /\ <<p>>[1] = p
      BY <3>1
    <3>3. QED
      BY <3>1, <3>2 DEF Range
  <2>3. QED
    BY <2>1, <2>2
<1>4. api \in Seq(Passwords) /\ text \in Seq(Passwords) /\ passwords \in Seq(Passwords)
      /\ ({Scraped[a]} \ {Absent}) \subseteq Range(text)
  <2>1. passwords \in Seq(Passwords)
    BY DEF Shape
  <2>2. Known(Api[Content[a]]) \in Seq(Passwords) /\ <<>> \in Seq(Passwords)
    BY <1>2, <1>3
  <2>3. text \in Seq(Passwords) /\ (Scraped[a] # Absent => Scraped[a] \in Range(text))
    BY <1>1, <1>3
  <2> HIDE DEF text
  <2>4. api \in Seq(Passwords)
    BY <2>2
  <2>5. QED
    BY <2>1, <2>3, <2>4
<1> HIDE DEF text
<1>5. api \o text \in Seq(Passwords) /\ Range(text) \subseteq Range(api \o text)
      /\ Range(api) \subseteq Range(api \o text)
  BY <1>4, ConcatKeeps
<1>6. /\ api \o text \o passwords \in Seq(Passwords)
      /\ Range(api \o text) \subseteq Range(api \o text \o passwords)
      /\ Range(passwords) \subseteq Range(api \o text \o passwords)
  BY <1>4, <1>5, ConcatKeeps
<1>7. Candidates(a, api) = Distinct(api \o text \o passwords)
  BY DEF Candidates, text
<1>8. /\ Candidates(a, api) \in Seq(Passwords)
      /\ Range(Candidates(a, api)) = Range(api \o text \o passwords)
  BY <1>6, <1>7, DistinctKeeps
<1>9. QED
  BY <1>4, <1>5, <1>6, <1>8

(* What a worker's step adds to the history, and to the list. *)
LEMMA GivenStays ==
  ASSUME Shape, NEW w \in Workers, WorkerStep(w)
  PROVE  /\ log'.loaded = log.loaded /\ log.misread \subseteq log'.misread
         /\ ~Gather(w) => log'.known = log.known
         /\ running' = running /\ Range(passwords) \subseteq Range(passwords')
<1>0. DOMAIN wk = Workers /\ WorkerOK(w) /\ DOMAIN log = DOMAIN LogInit /\ passwords \in Seq(Passwords)
  BY DEF Shape
<1>1. CASE Quiet(w) \/ Record(w) \/ OpenConf(w)
  <2>1. CASE Gather(w)
    BY <1>0, <2>1, Leaves, GatherNotes DEF Quiet
  <2>2. CASE ~Gather(w)
    BY <1>1, <2>2, Leaves DEF Quiet
  <2>3. QED
    BY <2>1, <2>2
<1>2. CASE CreateLock(w)
  BY <1>0, <1>2, Leaves DEF LogInit
<1>3. CASE Unpacks(w)
  <2>1. UNCHANGED log \/ log' = [log EXCEPT !.misread = @ \cup {wk[w].job}]
    BY <1>0, <1>3, Leaves, WrongDoes DEF Unpacks
  <2>2. QED
    BY <1>0, <1>3, <2>1, Leaves DEF LogInit
<1>4. CASE Learn(w)
  <2>1. wk[w].cand[wk[w].n] \in Passwords
    BY <1>0, <1>4, LearnDoes, InHand DEF WorkerOK, Opened
  <2>2. PICK x : x = wk[w].cand[wk[w].n]
    OBVIOUS
  <2>3. x \in Passwords /\ passwords' = Append(passwords, x) /\ log' = log /\ running' = running
    BY <1>0, <1>4, <2>1, <2>2, Leaves, LearnDoes
  <2>4. QED
    BY <1>0, <2>3, RangeAppend
<1>5. CASE Drops(w)
  <2>1. UNCHANGED log \/ log' = [log EXCEPT !.cut = @ \/ wk[w].pc = "writing"]
    BY <1>5 DEF Drops, GiveUp, Broken
  <2>2. QED
    BY <1>0, <1>5, <2>1, DropsDoes DEF LogInit
<1>6. CASE Succeeds(w)
  <2>1. UNCHANGED log \/ log' = [log EXCEPT !.kept = @ \cup Range(wk[w].list)]
    BY <1>0, <1>6, SucceedsDoes
  <2>2. QED
    BY <1>0, <1>6, <2>1, SucceedsDoes DEF LogInit
<1>7. QED
  BY <1>1, <1>2, <1>3, <1>4, <1>5, <1>6 DEF WorkerStep

(* A worker's step that says how an archive ended, if at all, rightly.     *)
Rightly(w, r) ==
  wk[w].job \notin log'.misread =>
    /\ r \in {"missing", "incorrect"} => Opens[Content[wk[w].job]] \cap Given(wk[w].job) = {}
    /\ r = "missing" => Given(wk[w].job) \subseteq {Blank}

LEMMA LockedStep ==
  ASSUME Shape, LockedInv, NEW w \in Workers, Others(w), running' = running,
         log'.loaded = log.loaded, log.misread \subseteq log'.misread, log'.known = log.known,
         Range(passwords) \subseteq Range(passwords'),
         wk'[w].pc \in {"record", "gather"} => wk'[w].n = 1, Trying(w)',
         \/ result' = result
         \/ \E r \in Outcomes : result' = [result EXCEPT ![wk[w].job] = r] /\ Rightly(w, r)
  PROVE  LockedInv'
<1>1. ASSUME NEW v \in Workers
      PROVE  Trying(v)' /\ (wk'[v].pc \in {"record", "gather"} => wk'[v].n = 1)
  <2>1. CASE v = w
    BY <2>1
  <2>2. CASE v # w
    <3>1. wk'[v] = wk[v] /\ Trying(v)
      BY <2>2 DEF Others, LockedInv
    <3>2. QED
      BY <3>1 DEF Trying, Given, LockedInv
  <2>3. QED
    BY <2>1, <2>2
<1>2. ASSUME NEW a \in Archives, a \notin log'.misread
      PROVE  /\ result'[a] \in {"missing", "incorrect"} => Opens[Content[a]] \cap Given(a) = {}
             /\ result'[a] = "missing" => Given(a) \subseteq {Blank}
  <2>1. CASE result'[a] = result[a]
    BY <1>2, <2>1 DEF LockedInv, FailedIsLocked, Given
  <2>2. CASE result'[a] # result[a]
    <3>1. PICK r \in Outcomes : result' = [result EXCEPT ![wk[w].job] = r] /\ Rightly(w, r)
      BY <2>2
    <3>2. a = wk[w].job /\ result'[a] = r
      BY <2>2, <3>1 DEF Shape
    <3>3. QED
      BY <1>2, <3>1, <3>2 DEF Rightly
  <2>3. QED
    BY <2>1, <2>2
<1>3. FailedIsLocked'
  BY <1>2 DEF FailedIsLocked, Given
<1>4. QED
  BY <1>1, <1>3 DEF LockedInv

LEMMA GatherLocked == ASSUME Shape, Unpacked, LockedInv, NEW w \in Workers, Gather(w) PROVE LockedInv'
<1>0. /\ DOMAIN wk = Workers /\ WorkerOK(w) /\ Trying(w)
      /\ wk[w].pc \in {"record", "gather"} => wk[w].n = 1
  BY DEF Shape, LockedInv
<1>1. /\ log'.loaded = log.loaded /\ log.misread \subseteq log'.misread
      /\ running' = running /\ Range(passwords) \subseteq Range(passwords')
  BY GivenStays DEF WorkerStep, Quiet
<1>2. DOMAIN log = DOMAIN LogInit /\ DOMAIN log.known = Archives
  BY DEF Shape, LockedInv
<1>3. PICK api \in {Known(Api[Content[wk[w].job]]), <<>>} :
        /\ Set(w, [pc |-> "try", cand |-> Candidates(wk[w].job, api)])
        /\ log'.known = [log.known EXCEPT ![wk[w].job] = Range(api) \cup Range(passwords)]
  BY <1>2, GatherNotes
<1>4. PICK c : c = Candidates(wk[w].job, api)
  OBVIOUS
<1>5. wk[w].pc = "gather" /\ wk'[w].pc = "try" /\ wk'[w].job = wk[w].job /\ wk'[w].n = wk[w].n
      /\ Others(w) /\ result' = result
  BY <1>0, GatherDoes, Leaves DEF Quiet, KeepsJob, KeepsDir
<1>6. wk'[w].cand = c
  BY <1>0, <1>3, <1>4 DEF Set, Idle
<1>7. log.loaded \subseteq Range(passwords) /\ wk[w].job \in Archives /\ result[wk[w].job] = "none"
  BY <1>5, InHand DEF LockedInv, Unpacked, Waiting
<1>8. /\ c \in Seq(Passwords)
      /\ log.loaded \cup Range(api) \cup Range(passwords) \cup ({Scraped[wk[w].job]} \ {Absent})
           \subseteq Range(c)
  BY <1>3, <1>4, <1>7, CandidatesHold
<1>9. \A m \in DOMAIN c : ~(m < 1)
  BY <1>8
<1>10. /\ DOMAIN log'.known = Archives
      /\ log'.known[wk[w].job] = Range(api) \cup Range(passwords)
      /\ \A a \in Archives : a # wk[w].job => log'.known[a] = log.known[a]
  BY <1>2, <1>3, <1>7
<1>11. log'.misread = log.misread
  BY <1>2, GatherNotes
<1>12. Trying(w)'
  BY <1>0, <1>1, <1>5, <1>6, <1>8, <1>9, <1>10 DEF Trying, Given
<1>13. ASSUME NEW v \in Workers
       PROVE  Trying(v)' /\ (wk'[v].pc \in {"record", "gather"} => wk'[v].n = 1)
  <2>1. CASE v = w
    BY <1>5, <1>12, <2>1
  <2>2. CASE v # w
    <3>1. wk'[v] = wk[v] /\ Trying(v) /\ (wk[v].pc \in {"record", "gather"} => wk[v].n = 1)
      BY <1>5, <2>2 DEF Others, LockedInv
    <3>2. wk[v].pc # "free" => wk[v].job # wk[w].job /\ wk[v].job \in Archives
      BY <1>5, <2>2, InHand DEF Unpacked, Apart
    <3>3. QED
      BY <1>1, <1>10, <1>11, <3>1, <3>2 DEF Trying, Given
  <2>3. QED
    BY <2>1, <2>2
<1>14. FailedIsLocked'
  BY <1>1, <1>5, <1>7, <1>10, <1>11 DEF FailedIsLocked, LockedInv
<1>15. QED
  BY <1>1, <1>10, <1>13, <1>14 DEF LockedInv

LEMMA WorkerLocked ==
  ASSUME Shape, LockedInv, NEW w \in Workers, WorkerStep(w), ~Gather(w)
  PROVE  LockedInv'
<1>0. /\ DOMAIN wk = Workers /\ WorkerOK(w) /\ Trying(w)
      /\ wk[w].pc \in {"record", "gather"} => wk[w].n = 1
  BY DEF Shape, LockedInv
<1>1. /\ log'.loaded = log.loaded /\ log.misread \subseteq log'.misread
      /\ running' = running /\ Range(passwords) \subseteq Range(passwords')
      /\ log'.known = log.known
  BY GivenStays
<1>2. CASE Begin(w) \/ WriteEntry(w)
  <2>1. wk[w].pc \in {"try", "unzip"} /\ wk'[w].pc = "unzip" /\ KeepsPassword(w) /\ Others(w) /\ result' = result
        /\ log' = log
    BY <1>0, <1>2, BeginDoes, WriteEntryDoes, Leaves DEF Unpacks
  <2>2. Trying(w)'
    BY <1>0, <2>1 DEF Trying, Given, KeepsPassword, KeepsJob
  <2>3. QED
    BY <1>1, <2>1, <2>2, LockedStep
<1>3. CASE Wrong(w)
  <2>1. wk[w].pc = "unzip" /\ wk'[w].pc = "try" /\ wk'[w].job = wk[w].job /\ wk'[w].n = wk[w].n + 1
        /\ Others(w) /\ result' = result
    BY <1>0, <1>3, WrongDoes, Leaves DEF Unpacks, KeepsJob
  <2>2. wk'[w].cand = wk[w].cand
    BY <1>0, <1>3 DEF Wrong, Set, Idle
  <2>3. wk[w].cand[wk[w].n] \notin Opens[Content[wk[w].job]] \/ wk[w].job \in log'.misread
    <3>1. DOMAIN log = DOMAIN LogInit
      BY DEF Shape
    <3>2. QED
      BY <1>3, <3>1 DEF Wrong, Fits, Password, Job, LogInit
  <2>4. \A m \in DOMAIN wk[w].cand : m < wk[w].n + 1 => m < wk[w].n \/ m = wk[w].n
    BY <1>0, <2>1 DEF Trying, WorkerOK
  <2>5. Trying(w)'
    BY <1>0, <1>1, <2>1, <2>2, <2>3, <2>4 DEF Trying, Given
  <2>6. QED
    BY <1>1, <2>1, <2>5, LockedStep
<1>4. CASE GiveUp(w)
  <2> DEFINE r == IF Range(wk[w].cand) \subseteq {Blank} THEN "missing" ELSE "incorrect"
  <2>1. wk[w].pc = "try" /\ wk[w].n > Len(wk[w].cand) /\ Fails(w, r)
    BY <1>4 DEF GiveUp
  <2>2. wk[w].cand \in Seq(Passwords) /\ Given(wk[w].job) \subseteq Range(wk[w].cand)
    BY <1>0, <2>1 DEF Trying
  <2>3. \A m \in DOMAIN wk[w].cand : m < wk[w].n
    BY <1>0, <2>1, <2>2 DEF WorkerOK
  <2>4. wk[w].job \notin log'.misread => Opens[Content[wk[w].job]] \cap Range(wk[w].cand) = {}
    BY <1>0, <1>1, <2>1, <2>3 DEF Trying, Range
  <2>5. Rightly(w, r) /\ r \in Outcomes
    BY <2>2, <2>4 DEF Rightly, Outcomes
  <2> HIDE DEF r
  <2>6. Others(w) /\ wk'[w] = Idle /\ result' = [result EXCEPT ![wk[w].job] = r]
    BY <1>0, <2>1, EndsDoes DEF Fails
  <2>7. wk'[w].pc = "free"
    BY <2>6 DEF Idle
  <2>8. QED
    BY <1>1, <2>5, <2>6, <2>7, LockedStep DEF Trying
<1>5. CASE Broken(w) \/ Succeeds(w)
  <2>1. PICK r \in {"broken", "success"} : result' = [result EXCEPT ![wk[w].job] = r] /\ Others(w) /\ wk'[w] = Idle
    <3>1. CASE Broken(w)
      BY <1>0, <3>1, EndsDoes DEF Broken, Fails
    <3>2. CASE Succeeds(w)
      BY <1>0, <3>2, SucceedsDoes
    <3>3. QED
      BY <1>5, <3>1, <3>2
  <2>2. Rightly(w, r) /\ r \in Outcomes
    BY <2>1 DEF Rightly, Outcomes
  <2>3. wk'[w].pc = "free"
    BY <2>1 DEF Idle
  <2>4. QED
    BY <1>1, <2>1, <2>2, <2>3, LockedStep DEF Trying
<1>6. CASE AskLock(w) \/ CreateLock(w) \/ Record(w) \/ Learn(w) \/ OpenConf(w)
  <2>1. /\ Others(w) /\ result' = result /\ KeepsPassword(w)
        /\ wk'[w].pc \notin {"try", "unzip"}
        /\ wk'[w].pc \in {"record", "gather"} => wk[w].pc \in {"record", "gather"}
    <3>1. CASE AskLock(w)
      BY <1>0, <3>1, AskLockDoes, Leaves DEF Quiet
    <3>2. CASE CreateLock(w)
      BY <1>0, <3>2, CreateLockDoes, Leaves DEF WorkerOK
    <3>3. CASE Record(w)
      BY <1>0, <3>3, RecordDoes, Leaves
    <3>4. CASE Learn(w) \/ OpenConf(w)
      BY <1>0, <3>4, LearnDoes, OpenConfDoes, Leaves
    <3>5. QED
      BY <1>6, <3>1, <3>2, <3>3, <3>4
  <2>2. QED
    BY <1>0, <1>1, <2>1, LockedStep DEF Trying, KeepsPassword
<1>7. CASE Return(w) \/ List(w) \/ Move(w) \/ Moved(w) \/ Unknown(w)
  <2>1. Others(w) /\ result' = result /\ wk'[w].pc \in {"list", "move", "opened", "learn"}
    BY <1>0, <1>7, ReturnDoes, ListDoes, MoveDoes, MovedDoes, UnknownDoes, Leaves DEF Quiet, Unpacks
  <2>2. QED
    BY <1>1, <2>1, LockedStep DEF Trying
<1>8. QED
  BY <1>2, <1>3, <1>4, <1>5, <1>6, <1>7 DEF WorkerStep, Quiet, Unpacks, Drops

LEMMA NextLocked == Shape /\ Unpacked /\ LockedInv /\ [Next]_vars => LockedInv'
<1> SUFFICES ASSUME Shape, Unpacked, LockedInv, [Next]_vars PROVE LockedInv'
  OBVIOUS
<1>0. DOMAIN log = DOMAIN LogInit
  BY DEF Shape
<1>1. CASE StartRun
  <2>1. /\ log' = [log EXCEPT !.loaded = Range(passwords'), !.known = LogInit.known,
                              !.shared = {}, !.misread = {}]
        /\ result' = [a \in Archives |-> "none"] /\ \A w \in Workers : wk'[w] = Idle
    BY <1>1, StartDoes
  <2>2. log'.loaded = Range(passwords') /\ DOMAIN log'.known = Archives
    BY <1>0, <2>1 DEF LogInit
  <2>3. \A w \in Workers : wk'[w].pc = "free"
    BY <2>1 DEF Idle
  <2>4. FailedIsLocked'
    BY <2>1 DEF FailedIsLocked
  <2>5. QED
    BY <2>2, <2>3, <2>4 DEF LockedInv, Trying
<1>2. CASE EndRun \/ Crash
  <2>1. /\ ~running' /\ result' = result
        /\ UNCHANGED log \/ log' = [log EXCEPT !.cut = @ \/ \E w \in Workers : wk[w].pc = "writing"]
        /\ \A w \in Workers : wk'[w] = Idle
    BY <1>2, EndDoes
  <2>2. log'.loaded = log.loaded /\ log'.misread = log.misread /\ log'.known = log.known
    BY <1>0, <2>1 DEF LogInit
  <2>3. \A w \in Workers : wk'[w].pc = "free"
    BY <2>1 DEF Idle
  <2>4. FailedIsLocked'
    BY <2>1, <2>2 DEF LockedInv, FailedIsLocked
  <2>5. QED
    BY <2>1, <2>2, <2>3, <2>4 DEF LockedInv, Trying
<1>3. ASSUME NEW p \in Passwords, Edit(p) PROVE LockedInv'
  <2>1. UNCHANGED <<running, passwords, wk, result>>
        /\ log' = IF running THEN log ELSE [log EXCEPT !.kept = @ \cup {p}]
    BY <1>3, EditDoes
  <2>2. log'.loaded = log.loaded /\ log'.misread = log.misread /\ log'.known = log.known
    BY <1>0, <2>1 DEF LogInit
  <2>3. QED
    BY <2>1, <2>2 DEF LockedInv, Trying, Given, FailedIsLocked
<1>4. CASE UNCHANGED vars
  BY <1>4 DEF vars, LockedInv, Trying, Given, FailedIsLocked
<1>5. ASSUME NEW w \in Workers, NEW a \in Archives, Take(w, a) PROVE LockedInv'
  <2>1. wk[w] = Idle
    BY <1>5 DEF Take, Shape, WorkerOK
  <2>2. Others(w) /\ wk'[w].pc = "record" /\ wk'[w].n = 1 /\ UNCHANGED <<running, passwords, result>>
    BY <1>5, <2>1, TakeDoes DEF Shape
  <2>3. \E S : log' = [log EXCEPT !.shared = S]
    BY <1>5 DEF Take
  <2>4. log'.loaded = log.loaded /\ log'.misread = log.misread /\ log'.known = log.known
    BY <1>0, <2>3 DEF LogInit
  <2>5. QED
    BY <2>2, <2>4, LockedStep DEF Trying
<1>6. QED
  BY <1>1, <1>2, <1>3, <1>4, <1>5, WorkerLocked, GatherLocked, Cases

LEMMA InitLocked == Init => LockedInv
<1> SUFFICES ASSUME Init PROVE LockedInv
  OBVIOUS
<1>1. ~running /\ (\A a \in Archives : result[a] = "none") /\ \A w \in Workers : wk[w].pc = "free"
  BY DEF Init, Idle
<1>2. DOMAIN log.known = Archives
  BY DEF Init, LogInit
<1>3. QED
  BY <1>1, <1>2 DEF LockedInv, Trying, FailedIsLocked

-----------------------------------------------------------------------------
(* The theorems. *)
IInv == Shape /\ LocksBounded /\ Unpacked /\ FewRepeats /\ KeptInv /\ LockedInv

LEMMA Inductive == Spec => []IInv
<1>1. Init => IInv
  BY InitShape, InitLocks, InitUnpacked, InitRepeats, InitKept, InitLocked DEF IInv
<1>2. IInv /\ [Next]_vars => IInv'
  BY NextShape, NextLocks, NextUnpacked, NextRepeats, NextKept, NextLocked DEF IInv
<1>3. QED
  BY <1>1, <1>2, PTL DEF Spec

(* The types, and get_thread_lock never makes more locks than there are    *)
(* workers of the pool.                                                    *)
THEOREM TypeCorrect == Spec => []TypeOK
<1>1. IInv => TypeOK
  <2> SUFFICES ASSUME IInv PROVE TypeOK
    OBVIOUS
  <2>1. locks \in 0..Cardinality(Workers)
    <3>1. PICK C : C = Creators
      OBVIOUS
    <3>2. C \subseteq Workers
      BY <3>1 DEF Creators
    <3>3. Cardinality(C) \in Nat /\ Cardinality(Workers) \in Nat
      BY <3>2, WorkersFinite
    <3>4. QED
      BY <3>1, <3>3 DEF IInv, Shape, LocksBounded
  <2>2. \A w \in Workers : wk[w].pc # "free" => running /\ Job(w) \in Archives \ queue
    BY DEF IInv, Shape, WorkerOK, Job
  <2>3. QED
    BY <2>1, <2>2 DEF IInv, Shape, TypeOK, Outcomes
<1>2. QED
  BY <1>1, Inductive, PTL

(* extract returns all entries of an archive although workers share        *)
(* TEMP_DIR, whatever one of them does between two steps of another one,   *)
(* unless both unpack the same bytes.                                      *)
THEOREM WholeExtraction == Spec => []WholeUnlessShared
<1>1. IInv => WholeUnlessShared
  BY DEF IInv, Unpacked
<1>2. QED
  BY <1>1, Inductive, PTL

(* save_config never loses a password that was saved, or that the user     *)
(* gave between runs, and what a run has learned is in the .conf or about  *)
(* to be saved, but for a rewriting that was cut short and a second lock.  *)
THEOREM KeepsPasswords == Spec => []PasswordsKept
<1>1. IInv => PasswordsKept
  <2> SUFFICES ASSUME IInv, ~log.cut, ~log.two, ~Writing, conf # Absent
               PROVE  /\ conf # Emptied
                      /\ \A p \in log.kept : Trim[p] = p => p \in Range(conf)
                      /\ running => \A p \in Range(passwords) \ (log.loaded \cup Range(conf)) :
                           \E w \in Workers : wk[w].pc = "save" /\ Password(w) = p
    BY Zenon DEF PasswordsKept
  <2>1. Clean
    BY Zenon DEF Clean
  <2>2. conf # Emptied /\ Holds(Range(conf))
    BY <2>1 DEF IInv, KeptInv, CleanKept
  <2>3. QED
    BY <2>2 DEF Holds, Kept, Saving, Password
<1>2. QED
  BY <1>1, Inductive, PTL

(* Workers that learn the same password at once repeat it in the list at   *)
(* most as often as there are workers, however many runs there are.        *)
THEOREM RepeatsAreBounded == Spec => []RepeatsBounded
<1>1. IInv => RepeatsBounded
  <2> SUFFICES ASSUME IInv, NEW p \in Passwords, \A q \in Passwords : Trim[q] = p => q = p
               PROVE  Cardinality({i \in DOMAIN passwords : passwords[i] = p}) <= Cardinality(Workers)
    BY DEF RepeatsBounded
  <2>1. FewTimes(p)
    BY DEF IInv, FewRepeats, OnlyItself
  <2>2. PICK L : L = Learners(p)
    OBVIOUS
  <2>3. Cardinality(L) \in Nat /\ Cardinality(Workers) \in Nat
    BY <2>2, WorkersFinite DEF Learners
  <2>4. Times(passwords, p) \in Nat
    BY TimesFinite DEF IInv, Shape
  <2>5. QED
    BY <2>1, <2>2, <2>3, <2>4 DEF FewTimes, Times, At
<1>2. QED
  BY <1>1, Inductive, PTL

(* unpack says of an archive that its password is missing or incorrect     *)
(* only if nothing that was given opens it: not kemono's password, when it *)
(* answered, not the one in the post's text, and no password that was in   *)
(* the list when the run began or when unpack read it.                     *)
THEOREM FailsForThePassword == Spec => []FailedIsLocked
<1>1. IInv => FailedIsLocked
  BY DEF IInv, LockedInv
<1>2. QED
  BY <1>1, Inductive, PTL
=====================
