---------------------------- MODULE Scheduler_proofs ----------------------------
(***************************************************************************)
(* Proofs about Scheduler, for any values of CRON_EXPRESSION and any number *)
(* of runs, signals and changes of the schedule.                           *)
(***************************************************************************)
EXTENDS Scheduler, FiniteSetTheorems, TLAPS

Count == Cardinality(Begun)

(* The runs are numbered in the order in which they begin. *)
Numbered ==
  /\ Count \in 0..MaxRuns /\ Begun = 1..Count
  /\ known \subseteq Begun
  /\ pc \in {"due", "spawn"} => Count < MaxRuns
  /\ pc = "begin" => Count = 0
  /\ pc = "spawned" => Count # 0

(* Where run_once is tells which run may be in progress. *)
OnlyRun ==
  /\ pc = "spawned" => Running \subseteq {Count}
  /\ pc = "waiting" => Running \subseteq {current}
  /\ pc \notin {"spawned", "waiting"} => Running = {}

(* A run that began after a stop was the last. *)
LateIsLast ==
  /\ ~shutdown => late = 0
  /\ late # 0 => late = 1 /\ pc \in {"spawned", "waiting", "reaped", "loop", "exit"}

(* While stop executes, the run it is to signal is still the current one.  *)
Forwarded ==
  known \cap Running \subseteq signalled \cup (IF handler = "idle" THEN {} ELSE {current})

(* When stop has seen a current process, run_loop cannot begin another.    *)
Stopping ==
  /\ handler \in {"check", "poll", "send"} => shutdown
  /\ handler \in {"poll", "send"} => pc \in {"waiting", "reaped", "loop", "exit"}
  /\ main = "failed" => shutdown /\ pc \in {"loop", "exit"}

IInv == TypeOK /\ Numbered /\ OnlyRun /\ LateIsLast /\ Forwarded /\ Stopping

-----------------------------------------------------------------------------
(* What the steps do to the processes. *)

LEMMA SameRuns ==
  ASSUME process' = process
  PROVE  Begun' = Begun /\ Running' = Running /\ Count' = Count
  BY DEF Begun, Running, Count

LEMMA EndRuns ==
  ASSUME TypeOK, NEW n \in Runs, End(n)
  PROVE  Begun' = Begun /\ Running' \subseteq Running /\ Count' = Count
<1>1. process' = [process EXCEPT ![n] = "ended"] /\ process[n] = "running"
  BY DEF End
<1>2. process \in [Runs -> {"none", "running", "ended"}]
  BY DEF TypeOK
<1>3. Begun' = Begun /\ Running' \subseteq Running
  BY <1>1, <1>2 DEF Begun, Running
<1>4. QED
  BY <1>3 DEF Count

LEMMA SpawnRuns ==
  ASSUME TypeOK, Numbered, Spawn
  PROVE  /\ Count + 1 \in Runs /\ Count + 1 \notin Begun
         /\ process' \in [Runs -> {"none", "running", "ended"}]
         /\ Begun' = 1..(Count + 1) /\ Count' = Count + 1
         /\ Running' = Running \cup {Count + 1}
<1>1. Count \in Nat /\ Count < MaxRuns /\ Begun = 1..Count /\ MaxRuns \in Nat
  BY SchedulerAssumption DEF Numbered, Spawn
<1>2. Count + 1 \in Runs /\ Count + 1 \notin Begun
  BY <1>1 DEF Runs
<1>3. process' = [process EXCEPT ![Count + 1] = "running"]
  BY DEF Spawn, Count
<1>4. process \in [Runs -> {"none", "running", "ended"}]
  BY DEF TypeOK
<1>5. process' \in [Runs -> {"none", "running", "ended"}]
  BY <1>2, <1>3, <1>4
<1>6. Begun' = Begun \cup {Count + 1} /\ Running' = Running \cup {Count + 1}
  BY <1>2, <1>3, <1>4 DEF Begun, Running
<1>7. Begun' = 1..(Count + 1)
  BY <1>1, <1>6
<1>8. Cardinality(1..(Count + 1)) = Count + 1
  <2>1. 1 \in Int /\ Count + 1 \in Int /\ ~(1 > Count + 1) /\ (Count + 1) - 1 + 1 = Count + 1
    BY <1>1
  <2>2. QED
    BY <2>1, FS_Interval
<1>9. Count' = Count + 1
  BY <1>7, <1>8 DEF Count
<1>10. QED
  BY <1>2, <1>5, <1>6, <1>7, <1>9

(* The steps of run_loop that only move its thread. *)
Moves == Begin \/ Loop \/ Idle \/ Reach \/ Interrupt \/ Due

LEMMA Moved ==
  ASSUME TypeOK, Moves
  PROVE  /\ UNCHANGED <<setting, main, process, current, stop, late>>
         /\ waitedFor' \in Crons
         /\ pc \in {"begin", "loop", "idle", "sleep", "due"}
         /\ pc' \in {"loop", "idle", "sleep", "due", "spawn", "exit"}
         /\ pc = "loop" => pc' = (IF shutdown THEN "exit"
                                 ELSE IF cron \in Invalid \cup {Empty} THEN "idle" ELSE "sleep")
         /\ pc' = "due" => Count < MaxRuns
         /\ pc' = "spawn" => pc \in {"begin", "due"}
  BY SchedulerAssumption DEF Moves, Begin, Loop, Idle, Reach, Interrupt, Due, TypeOK, setting, Count

LEMMA ThreadSteps == ThreadStep => Moves \/ Spawn \/ Assign \/ Wait \/ Clear
  BY DEF ThreadStep, Moves

-----------------------------------------------------------------------------
(* The invariant holds at first. *)
LEMMA InitIInv == Init => IInv
<1> SUFFICES ASSUME Init PROVE IInv
  OBVIOUS
<1>1. Begun = {} /\ Running = {} /\ Count = 0
  <2>1. \A n \in Runs : process[n] = "none"
    BY DEF Init
  <2>2. Begun = {} /\ Running = {}
    BY <2>1 DEF Begun, Running
  <2>3. QED
    BY <2>2, FS_EmptySet DEF Count
<1>2. Empty \in Crons /\ MaxRuns \in Nat /\ MaxRuns > 0 /\ MaxSignals \in Nat /\ MaxChanges \in Nat
  BY SchedulerAssumption
<1>3. scheduled \in BOOLEAN /\ shutdown \in BOOLEAN /\ ~shutdown
  <2>1. scheduled = (cron # Empty) /\ shutdown = FALSE
    BY DEF Init
  <2>2. QED
    BY <2>1, Zenon
<1>4. TypeOK
  BY <1>2, <1>3 DEF Init, TypeOK, NoRun, Runs
<1>5. Numbered
  BY <1>1, <1>2 DEF Init, Numbered
<1>6. OnlyRun /\ LateIsLast /\ Forwarded /\ Stopping
  BY <1>1, <1>3 DEF Init, OnlyRun, LateIsLast, Forwarded, Stopping
<1>7. QED
  BY <1>4, <1>5, <1>6 DEF IInv

(* Every step keeps the variables in their types. *)
LEMMA NextTypeOK == TypeOK /\ Numbered /\ OnlyRun /\ [Next]_vars => TypeOK'
<1> SUFFICES ASSUME TypeOK, Numbered, OnlyRun, [Next]_vars PROVE TypeOK'
  OBVIOUS
<1>0. MaxRuns \in Nat /\ MaxRuns > 0 /\ MaxSignals \in Nat /\ MaxChanges \in Nat
  BY SchedulerAssumption
<1> USE <1>0 DEF Runs, NoRun
<1>1. CASE Moves
  <2>1. Begun' = Begun
    BY <1>1, Moved, SameRuns
  <2>2. QED
    BY <1>1, <2>1, Moved DEF TypeOK, setting, stop
<1>2. CASE Spawn
  <2>1. process' \in [Runs -> {"none", "running", "ended"}] /\ Begun' = 1..(Count + 1)
    BY <1>2, SpawnRuns
  <2>2. late' \in Nat
    BY <1>2 DEF Spawn, TypeOK
  <2>3. current' = current /\ current = NoRun
    BY <1>2 DEF Spawn, TypeOK
  <2>4. QED
    BY <1>2, <2>1, <2>2, <2>3 DEF Spawn, TypeOK, setting, stop
<1>3. CASE Assign
  <2>1. Begun' = Begun
    BY <1>3, SameRuns DEF Assign
  <2>2. current' \in 1..MaxRuns /\ current' \in Begun /\ current' # 0
    BY <1>3 DEF Assign, Numbered, Count
  <2>3. QED
    BY <1>3, <2>1, <2>2 DEF Assign, TypeOK, setting, stop
<1>4. CASE Wait \/ Clear
  <2>1. Begun' = Begun
    BY <1>4, SameRuns DEF Wait, Clear
  <2>2. CASE Wait
    BY <2>1, <2>2 DEF Wait, TypeOK, setting, stop
  <2>3. CASE Clear
    <3>1. pc' \in {"loop", "exit"} /\ current' = 0 /\ UNCHANGED <<setting, waitedFor, main, process, stop, late>>
      BY <2>3 DEF Clear
    <3>2. QED
      BY <2>1, <3>1 DEF TypeOK, setting, stop
  <2>4. QED
    BY <1>4, <2>2, <2>3
<1>5. CASE Signal
  <2>1. Begun' = Begun /\ known' \subseteq Runs
    BY <1>5, SameRuns DEF Signal, Running
  <2>2. QED
    BY <1>5, <2>1 DEF Signal, TypeOK, setting, thread
<1>6. CASE HandlerStep
  <2>1. Begun' = Begun /\ UNCHANGED <<setting, thread, process, current, known, signals, late>>
    BY <1>6, SameRuns DEF HandlerStep, SetShutdown, Check, Fail, Poll, Send
  <2>2. shutdown' \in BOOLEAN
    <3>1. shutdown' = TRUE \/ shutdown' = shutdown
      BY <1>6 DEF HandlerStep, SetShutdown, Check, Fail, Poll, Send
    <3>2. QED
      BY <3>1 DEF TypeOK
  <2>3. signalled' \subseteq Runs
    BY <1>6 DEF HandlerStep, SetShutdown, Check, Fail, Poll, Send, Running, TypeOK
  <2>4. handler' \in {"idle", "check", "poll", "send"} /\ main' \in {"failed", main}
    BY <1>6 DEF HandlerStep, SetShutdown, Check, Fail, Poll, Send
  <2>5. QED
    BY <2>1, <2>2, <2>3, <2>4 DEF TypeOK, setting, thread
<1>7. CASE Exit
  <2>1. Begun' = Begun
    BY <1>7, SameRuns DEF Exit
  <2>2. QED
    BY <1>7, <2>1 DEF Exit, TypeOK, setting, thread, stop
<1>8. ASSUME NEW n \in Runs, End(n) PROVE TypeOK'
  <2>1. Begun' = Begun
    BY <1>8, EndRuns
  <2>2. process' \in [Runs -> {"none", "running", "ended"}]
    BY <1>8 DEF End, TypeOK
  <2>3. QED
    BY <1>8, <2>1, <2>2 DEF End, TypeOK, setting, thread, stop
<1>9. ASSUME NEW c \in Crons, Change(c) PROVE TypeOK'
  <2>1. Begun' = Begun
    BY <1>9, SameRuns DEF Change
  <2>2. QED
    BY <1>9, <2>1 DEF Change, TypeOK, thread, stop
<1>10. CASE Finished \/ UNCHANGED vars
  <2>1. UNCHANGED vars
    BY <1>10 DEF Finished
  <2>2. Begun' = Begun
    BY <2>1, SameRuns DEF vars
  <2>3. QED
    BY <2>1, <2>2 DEF vars, TypeOK, setting, thread, stop
<1>11. QED
  BY <1>1, <1>2, <1>3, <1>4, <1>5, <1>6, <1>7, <1>8, <1>9, <1>10, ThreadSteps DEF Next

(* The steps other than run_loop's own: what they leave alone. *)
LEMMA HandlerFrame ==
  ASSUME HandlerStep
  PROVE  UNCHANGED <<setting, pc, waitedFor, process, current, known, signals, late>>
  BY DEF HandlerStep, SetShutdown, Check, Fail, Poll, Send, thread

LEMMA OtherFrame ==
  ASSUME Exit \/ (\E c \in Crons : Change(c)) \/ Finished \/ UNCHANGED vars
  PROVE  UNCHANGED <<pc, process, current, shutdown, handler, signalled, known, late>>
         /\ main' \in {main, "exited"}
<1>1. CASE Exit
  BY <1>1 DEF Exit, setting, thread, stop
<1>2. CASE \E c \in Crons : Change(c)
  BY <1>2 DEF Change, thread, stop
<1>3. CASE Finished \/ UNCHANGED vars
  BY <1>3 DEF Finished, vars, thread, stop
<1>4. QED
  BY <1>1, <1>2, <1>3

LEMMA EndFrame ==
  ASSUME NEW n \in Runs, End(n)
  PROVE  UNCHANGED <<main, pc, current, shutdown, handler, signalled, known, late>>
  BY DEF End, thread, stop

LEMMA Cases ==
  ASSUME [Next]_vars
  PROVE  \/ Moves \/ Spawn \/ Assign \/ Wait \/ Clear
         \/ Signal \/ HandlerStep
         \/ (\E n \in Runs : End(n))
         \/ Exit \/ (\E c \in Crons : Change(c)) \/ Finished \/ UNCHANGED vars
  BY ThreadSteps DEF Next

LEMMA NextNumbered == TypeOK /\ Numbered /\ OnlyRun /\ [Next]_vars => Numbered'
<1> SUFFICES ASSUME TypeOK, Numbered, OnlyRun, [Next]_vars PROVE Numbered'
  OBVIOUS
<1>0. MaxRuns \in Nat /\ MaxRuns > 0 /\ Count \in Nat
  BY SchedulerAssumption DEF Numbered
<1>1. CASE Moves
  <2>1. Begun' = Begun /\ Count' = Count /\ known' = known
    BY <1>1, Moved, SameRuns DEF stop
  <2>2. pc' \in {"loop", "idle", "sleep", "due", "spawn", "exit"}
        /\ (pc' = "due" => Count < MaxRuns) /\ (pc' = "spawn" => pc \in {"begin", "due"})
    BY <1>1, Moved
  <2>3. QED
    BY <1>0, <2>1, <2>2 DEF Numbered
<1>2. CASE Spawn
  <2>1. Begun' = 1..(Count + 1) /\ Count' = Count + 1 /\ Count + 1 \in 1..MaxRuns
    BY <1>2, SpawnRuns DEF Runs
  <2>2. known' = known /\ pc' = "spawned"
    BY <1>2 DEF Spawn, stop
  <2>3. QED
    BY <1>0, <2>1, <2>2 DEF Numbered
<1>3. CASE Assign \/ Wait \/ Clear
  <2>1. process' = process /\ known' = known /\ pc' \in {"waiting", "reaped", "loop", "exit"}
    BY <1>3 DEF Assign, Wait, Clear, stop
  <2>2. QED
    BY <2>1, SameRuns DEF Numbered
<1>4. CASE Signal
  <2>1. process' = process /\ pc' = pc /\ known' \subseteq Begun
    BY <1>4 DEF Signal, thread, Running, Begun
  <2>2. QED
    BY <2>1, SameRuns DEF Numbered
<1>5. CASE HandlerStep
  BY <1>5, HandlerFrame, SameRuns DEF Numbered
<1>6. ASSUME NEW n \in Runs, End(n) PROVE Numbered'
  BY <1>6, EndFrame, EndRuns DEF Numbered
<1>7. CASE Exit \/ (\E c \in Crons : Change(c)) \/ Finished \/ UNCHANGED vars
  BY <1>7, OtherFrame, SameRuns DEF Numbered
<1>8. QED
  BY <1>1, <1>2, <1>3, <1>4, <1>5, <1>6, <1>7, Cases

LEMMA NextOnlyRun == TypeOK /\ Numbered /\ OnlyRun /\ [Next]_vars => OnlyRun'
<1> SUFFICES ASSUME TypeOK, Numbered, OnlyRun, [Next]_vars PROVE OnlyRun'
  OBVIOUS
<1>1. CASE Moves
  <2>1. Running' = Running
    BY <1>1, Moved, SameRuns
  <2>2. pc \notin {"spawned", "waiting"} /\ pc' \notin {"spawned", "waiting"}
    BY <1>1, Moved
  <2>3. QED
    BY <2>1, <2>2 DEF OnlyRun
<1>2. CASE Spawn
  <2>1. Running' = Running \cup {Count + 1} /\ Count' = Count + 1
    BY <1>2, SpawnRuns
  <2>2. pc = "spawn" /\ pc' = "spawned"
    BY <1>2 DEF Spawn
  <2>3. QED
    BY <2>1, <2>2 DEF OnlyRun
<1>3. CASE Assign
  <2>1. Running' = Running /\ pc = "spawned" /\ pc' = "waiting" /\ current' = Count
    BY <1>3, SameRuns DEF Assign, Count
  <2>2. QED
    BY <2>1 DEF OnlyRun
<1>4. CASE Wait
  <2>1. Running' = Running /\ pc = "waiting" /\ pc' = "reaped" /\ process[current] = "ended"
    BY <1>4, SameRuns DEF Wait
  <2>2. Running = {}
    BY <2>1 DEF OnlyRun, Running
  <2>3. QED
    BY <2>1, <2>2 DEF OnlyRun
<1>5. CASE Clear
  <2>1. Running' = Running /\ pc = "reaped" /\ pc' \in {"loop", "exit"}
    BY <1>5, SameRuns DEF Clear
  <2>2. QED
    BY <2>1 DEF OnlyRun
<1>6. CASE Signal
  BY <1>6, SameRuns DEF Signal, thread, OnlyRun
<1>7. CASE HandlerStep
  BY <1>7, HandlerFrame, SameRuns DEF OnlyRun
<1>8. ASSUME NEW n \in Runs, End(n) PROVE OnlyRun'
  <2>1. Running' \subseteq Running /\ Count' = Count /\ UNCHANGED <<pc, current>>
    BY <1>8, EndRuns, EndFrame
  <2>2. QED
    BY <2>1 DEF OnlyRun
<1>9. CASE Exit \/ (\E c \in Crons : Change(c)) \/ Finished \/ UNCHANGED vars
  BY <1>9, OtherFrame, SameRuns DEF OnlyRun
<1>10. QED
  BY <1>1, <1>2, <1>3, <1>4, <1>5, <1>6, <1>7, <1>8, <1>9, Cases

LEMMA NextLateIsLast == TypeOK /\ LateIsLast /\ Stopping /\ [Next]_vars => LateIsLast'
<1> SUFFICES ASSUME TypeOK, LateIsLast, Stopping, [Next]_vars PROVE LateIsLast'
  OBVIOUS
<1>0. shutdown \in BOOLEAN
  BY DEF TypeOK
<1>1. CASE Moves
  <2>1. UNCHANGED <<shutdown, late>>
    BY <1>1, Moved DEF stop
  <2>2. late # 0 => shutdown /\ pc = "loop"
    BY <1>1, Moved DEF LateIsLast
  <2>3. shutdown /\ pc = "loop" => pc' = "exit"
    BY <1>1, Moved
  <2>4. QED
    BY <2>1, <2>2, <2>3 DEF LateIsLast
<1>2. CASE Spawn
  <2>1. late = 0 /\ shutdown' = shutdown /\ pc' = "spawned"
    BY <1>2 DEF LateIsLast, Spawn, stop
  <2>2. (shutdown => late' = late + 1) /\ (~shutdown => late' = late)
    BY <1>2 DEF Spawn
  <2>3. QED
    BY <1>0, <2>1, <2>2 DEF LateIsLast
<1>3. CASE Assign
  BY <1>3 DEF Assign, stop, LateIsLast
<1>4. CASE Wait
  BY <1>4 DEF Wait, stop, LateIsLast
<1>5. CASE Clear
  <2>1. UNCHANGED <<shutdown, late>> /\ pc' \in {"loop", "exit"}
    BY <1>5 DEF Clear, stop
  <2>2. QED
    BY <2>1 DEF LateIsLast
<1>6. CASE Signal
  BY <1>6 DEF Signal, thread, LateIsLast
<1>7. CASE HandlerStep
  <2>1. UNCHANGED <<pc, late>> /\ (shutdown' = TRUE \/ shutdown' = shutdown)
    BY <1>7 DEF HandlerStep, SetShutdown, Check, Fail, Poll, Send, thread
  <2>2. QED
    BY <2>1 DEF LateIsLast
<1>8. ASSUME NEW n \in Runs, End(n) PROVE LateIsLast'
  BY <1>8, EndFrame DEF LateIsLast
<1>9. CASE Exit \/ (\E c \in Crons : Change(c)) \/ Finished \/ UNCHANGED vars
  BY <1>9, OtherFrame DEF LateIsLast
<1>10. QED
  BY <1>1, <1>2, <1>3, <1>4, <1>5, <1>6, <1>7, <1>8, <1>9, Cases

LEMMA NextForwarded ==
  TypeOK /\ Numbered /\ OnlyRun /\ Forwarded /\ [Next]_vars => Forwarded'
<1> SUFFICES ASSUME TypeOK, Numbered, OnlyRun, Forwarded, [Next]_vars PROVE Forwarded'
  OBVIOUS
<1>0. NoRun \notin Running
  BY SchedulerAssumption DEF NoRun, Running, Runs
<1>1. CASE Moves
  <2>1. UNCHANGED <<known, signalled, handler, current>> /\ Running' = Running
    BY <1>1, Moved, SameRuns DEF stop
  <2>2. QED
    BY <2>1 DEF Forwarded
<1>2. CASE Spawn
  <2>1. UNCHANGED <<known, signalled, handler, current>>
    BY <1>2 DEF Spawn, stop
  <2>2. Running' = Running \cup {Count + 1} /\ Count + 1 \notin known
    BY <1>2, SpawnRuns DEF Numbered
  <2>3. QED
    BY <2>1, <2>2 DEF Forwarded
<1>3. CASE Assign \/ Wait \/ Clear
  <2>1. UNCHANGED <<known, signalled, handler>> /\ Running' = Running
    BY <1>3, SameRuns DEF Assign, Wait, Clear, stop
  <2>2. \/ current' = current
        \/ current = NoRun
        \/ Running = {}
    BY <1>3 DEF Assign, Wait, Clear, TypeOK, OnlyRun
  <2>3. QED
    BY <1>0, <2>1, <2>2 DEF Forwarded
<1>4. CASE Signal
  <2>1. Running' = Running /\ known' = Running \cap {current} /\ current' = current /\ handler' = "set"
    BY <1>4, SameRuns DEF Signal
  <2>2. QED
    BY <2>1 DEF Forwarded
<1>5. CASE HandlerStep
  <2>1. UNCHANGED <<known, current>> /\ Running' = Running
    BY <1>5, HandlerFrame, SameRuns
  <2>2. handler # "idle" /\ known \cap Running \subseteq signalled \cup {current}
    BY <1>5 DEF HandlerStep, SetShutdown, Check, Fail, Poll, Send, Forwarded
  <2>3. signalled \subseteq signalled'
    BY <1>5 DEF HandlerStep, SetShutdown, Check, Fail, Poll, Send
  <2>4. \/ handler' # "idle"
        \/ current = NoRun
        \/ current \notin Running
        \/ signalled' = signalled \cup ({current} \cap Running)
    BY <1>5 DEF HandlerStep, SetShutdown, Check, Fail, Poll, Send, Running
  <2>5. QED
    BY <1>0, <2>1, <2>2, <2>3, <2>4 DEF Forwarded
<1>6. ASSUME NEW n \in Runs, End(n) PROVE Forwarded'
  <2>1. Running' \subseteq Running /\ UNCHANGED <<known, signalled, handler, current>>
    BY <1>6, EndRuns, EndFrame
  <2>2. QED
    BY <2>1 DEF Forwarded
<1>7. CASE Exit \/ (\E c \in Crons : Change(c)) \/ Finished \/ UNCHANGED vars
  BY <1>7, OtherFrame, SameRuns DEF Forwarded
<1>8. QED
  BY <1>1, <1>2, <1>3, <1>4, <1>5, <1>6, <1>7, Cases

LEMMA NextStopping == TypeOK /\ Stopping /\ [Next]_vars => Stopping'
<1> SUFFICES ASSUME TypeOK, Stopping, [Next]_vars PROVE Stopping'
  OBVIOUS
<1>1. CASE Moves
  <2>1. UNCHANGED <<main, shutdown, handler>>
    BY <1>1, Moved DEF stop
  <2>2. pc \in {"begin", "loop", "idle", "sleep", "due"} /\ (shutdown /\ pc = "loop" => pc' = "exit")
    BY <1>1, Moved
  <2>3. QED
    BY <2>1, <2>2 DEF Stopping
<1>2. CASE Spawn \/ Assign
  <2>1. UNCHANGED <<main, shutdown, handler>> /\ pc \in {"spawn", "spawned"}
    BY <1>2 DEF Spawn, Assign, stop
  <2>2. QED
    BY <2>1 DEF Stopping
<1>3. CASE Wait \/ Clear
  <2>1. UNCHANGED <<main, shutdown, handler>>
        /\ pc \in {"waiting", "reaped"} /\ pc' \in {"reaped", "loop", "exit"}
    BY <1>3 DEF Wait, Clear, stop
  <2>2. QED
    BY <2>1 DEF Stopping
<1>4. CASE Signal
  BY <1>4 DEF Signal, thread, Stopping
<1>5. CASE SetShutdown
  <2>1. UNCHANGED <<main, pc>> /\ shutdown' /\ handler' = "check"
    BY <1>5 DEF SetShutdown, thread
  <2>2. QED
    BY <2>1 DEF Stopping
<1>6. CASE Check
  <2>1. UNCHANGED <<main, pc, shutdown>> /\ shutdown /\ handler' \in {"idle", "poll"}
    BY <1>6 DEF Check, thread, Stopping
  <2>2. handler' = "poll" => pc \in {"waiting", "reaped"}
    BY <1>6 DEF Check, TypeOK
  <2>3. QED
    BY <2>1, <2>2 DEF Stopping
<1>7. CASE Fail
  <2>1. UNCHANGED <<pc, shutdown>> /\ handler \in {"poll", "send"} /\ handler' = "idle" /\ current = NoRun
    BY <1>7 DEF Fail, thread
  <2>2. shutdown /\ pc \in {"loop", "exit"}
    BY <2>1 DEF Stopping, TypeOK
  <2>3. QED
    BY <2>1, <2>2 DEF Stopping
<1>8. CASE Poll \/ Send
  <2>1. UNCHANGED <<main, pc, shutdown>> /\ handler \in {"poll", "send"} /\ handler' \in {"idle", "send"}
    BY <1>8 DEF Poll, Send, thread
  <2>2. QED
    BY <2>1 DEF Stopping
<1>9. ASSUME NEW n \in Runs, End(n) PROVE Stopping'
  BY <1>9, EndFrame DEF Stopping
<1>10. CASE Exit \/ (\E c \in Crons : Change(c)) \/ Finished \/ UNCHANGED vars
  BY <1>10, OtherFrame DEF Stopping
<1>11. QED
  BY <1>1, <1>2, <1>3, <1>4, <1>5, <1>6, <1>7, <1>8, <1>9, <1>10, Cases DEF HandlerStep

LEMMA NextIInv == IInv /\ [Next]_vars => IInv'
  BY NextTypeOK, NextNumbered, NextOnlyRun, NextLateIsLast, NextForwarded, NextStopping DEF IInv

-----------------------------------------------------------------------------
(* The types of both threads, the processes and the flag, at any time.     *)
THEOREM TypeCorrect == Spec => []TypeOK
<1>1. IInv => TypeOK
  BY DEF IInv
<1>2. QED
  BY InitIInv, NextIInv, <1>1, PTL DEF Spec

(* run_once waits for its download.py (scheduler.py:41): two of them are   *)
(* never in progress together, whatever the schedule and the signals.      *)
THEOREM OneRun == Spec => []OneRunAtATime
<1>1. ASSUME IInv PROVE OneRunAtATime
  <2>1. PICK n : Running \subseteq {n}
    BY <1>1 DEF IInv, OnlyRun
  <2>2. Cardinality(Running) <= Cardinality({n})
    BY <2>1, FS_Singleton, FS_Subset
  <2>3. Cardinality({n}) = 1
    BY FS_Singleton
  <2>4. QED
    BY <2>2, <2>3 DEF OneRunAtATime
<1>2. QED
  BY InitIInv, NextIInv, <1>1, PTL DEF Spec

(* At most one run begins after a stop, at whichever statement of run_loop *)
(* the signal comes.                                                       *)
THEOREM LateBounded == Spec => []LateRunsBounded
<1>1. IInv => LateRunsBounded
  BY DEF IInv, LateIsLast, TypeOK, LateRunsBounded
<1>2. QED
  BY InitIInv, NextIInv, <1>1, PTL DEF Spec

(* stop reaches the run _current_process refers to when the signal comes,  *)
(* however its three reads interleave with run_once.                       *)
THEOREM StopReaches == Spec => []StopReachesKnownRun
<1>1. IInv => StopReachesKnownRun
  BY DEF IInv, Forwarded, StopReachesKnownRun
<1>2. QED
  BY InitIInv, NextIInv, <1>1, PTL DEF Spec

(* The AttributeError of scheduler.py:28 leaves no run behind.             *)
THEOREM FailsLate == Spec => []FailsAfterLastRun
<1>1. IInv => FailsAfterLastRun
  BY DEF IInv, OnlyRun, Stopping, FailsAfterLastRun
<1>2. QED
  BY InitIInv, NextIInv, <1>1, PTL DEF Spec
=============================================================================
