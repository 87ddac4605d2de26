------------------------------- MODULE Scheduler -------------------------------
(***************************************************************************)
(* scheduler.py and app.py: the container's main process, which runs       *)
(* download.py once, or in a thread on a schedule, and which a signal      *)
(* stops.                                                                  *)
(*                                                                         *)
(* Python runs a signal handler in the main thread.  With a schedule the   *)
(* main thread only joins the scheduler's, so the statements of stop()     *)
(* interleave with those of run_loop() and run_once(); without one, the    *)
(* main thread executes run_once() itself and the handler interrupts it.   *)
(* Nothing changes CRON_EXPRESSION in a running process yet (app.py has a  *)
(* remote-control API to come), but run_loop() reads it as if it could.    *)
(***************************************************************************)
EXTENDS Integers, FiniteSets

CONSTANTS
  Crons,       \* the values CRON_EXPRESSION can have
  Empty,       \* the empty one
  Invalid,     \* those croniter does not accept
  MaxRuns,     \* bound: the runs that become due
  MaxSignals,  \* bound: the signals
  MaxChanges   \* bound: how often CRON_EXPRESSION changes

ASSUME SchedulerAssumption ==
  /\ Empty \in Crons
  /\ Invalid \subseteq Crons \ {Empty}
  /\ MaxRuns \in Nat \ {0} /\ MaxSignals \in Nat /\ MaxChanges \in Nat

VARIABLES
  cron,       \* config.CRON_EXPRESSION
  immediate,  \* config.RUN_IMMEDIATELY
  scheduled,  \* run_loop runs in a thread of its own
  main,       \* the main thread
  pc,         \* where run_loop or run_once is
  waitedFor,  \* run_loop's cron_expr
  process,    \* the download.py of each run
  current,    \* _current_process: the number of a run, or 0
  shutdown,   \* _shutdown
  handler,    \* where stop is
  signalled,  \* history: the runs that a signal was forwarded to
  known,      \* history: the runs in progress when stop was called last that
              \* _current_process referred to
  late,       \* history: how many runs began after _shutdown was set
  signals, changes

setting == <<cron, immediate, scheduled, changes>>
thread == <<pc, waitedFor>>
stop == <<shutdown, handler, signalled, known, signals>>
vars == <<setting, main, thread, process, current, stop, late>>

NoRun == 0
Runs == 1..MaxRuns
Begun == {n \in Runs : process[n] # "none"}
Running == {n \in Runs : process[n] = "running"}

Init ==
  /\ cron \in Crons /\ immediate \in BOOLEAN
  /\ scheduled = (cron # Empty)
  /\ main = IF cron = Empty THEN "running" ELSE "joining"
  /\ pc = IF cron = Empty THEN "spawn" ELSE "begin"
  /\ waitedFor = Empty
  /\ process = [n \in Runs |-> "none"] /\ current = NoRun
  /\ shutdown = FALSE /\ handler = "idle"
  /\ signalled = {} /\ known = {}
  /\ late = 0 /\ signals = 0 /\ changes = 0

-----------------------------------------------------------------------------
(* run_loop. *)

(* RUN_IMMEDIATELY: a run before the first look at the schedule. *)
Begin ==
  /\ pc = "begin"
  /\ pc' = IF immediate THEN "spawn" ELSE "loop"
  /\ UNCHANGED <<setting, main, waitedFor, process, current, stop, late>>

(* The head of the loop: stop, idle or wait for the schedule. *)
Loop ==
  /\ pc = "loop"
  /\ waitedFor' = cron
  /\ pc' = IF shutdown THEN "exit"
           ELSE IF cron \in Invalid \cup {Empty} THEN "idle"
           ELSE "sleep"
  /\ UNCHANGED <<setting, main, process, current, stop, late>>

(* _shutdown.wait(IDLE_POLL_SECONDS): over when it is set, or at its timeout. *)
Idle ==
  /\ pc = "idle"
  /\ pc' = "loop"
  /\ UNCHANGED <<setting, main, waitedFor, process, current, stop, late>>

(* _sleep_until: the time has come, looked at before anything else. *)
Reach ==
  /\ pc = "sleep"
  /\ Cardinality(Begun) < MaxRuns
  /\ pc' = "due"
  /\ UNCHANGED <<setting, main, waitedFor, process, current, stop, late>>

(* Bug: only a change of the schedule interrupts the sleep. *)
InterruptByChange ==
  /\ pc = "sleep"
  /\ cron # waitedFor
  /\ pc' = "loop"
  /\ UNCHANGED <<setting, main, waitedFor, process, current, stop, late>>

(* ... or it is interrupted, and run_loop stops or computes the next time. *)
Interrupt ==
  /\ pc = "sleep"
  /\ shutdown \/ cron # waitedFor
  /\ pc' = "loop"
  /\ UNCHANGED <<setting, main, waitedFor, process, current, stop, late>>

(* The look at _shutdown between the sleep and the run. *)
Due ==
  /\ pc = "due"
  /\ pc' = IF shutdown THEN "exit" ELSE "spawn"
  /\ UNCHANGED <<setting, main, waitedFor, process, current, stop, late>>

-----------------------------------------------------------------------------
(* run_once. *)

(* subprocess.Popen: download.py runs, and nothing refers to it yet. *)
Spawn ==
  /\ pc = "spawn"
  /\ process' = [process EXCEPT ![Cardinality(Begun) + 1] = "running"]
  /\ late' = IF shutdown THEN late + 1 ELSE late
  /\ pc' = "spawned"
  /\ UNCHANGED <<setting, main, waitedFor, current, stop>>

(* Popen's result is assigned. *)
Assign ==
  /\ pc = "spawned"
  /\ current' = Cardinality(Begun)
  /\ pc' = "waiting"
  /\ UNCHANGED <<setting, main, waitedFor, process, stop, late>>

(* Bug: run_once does not wait for the process. *)
DontWait ==
  /\ pc = "waiting"
  /\ pc' = "reaped"
  /\ UNCHANGED <<setting, main, waitedFor, process, current, stop, late>>

Wait ==
  /\ pc = "waiting"
  /\ process[current] = "ended"
  /\ pc' = "reaped"
  /\ UNCHANGED <<setting, main, waitedFor, process, current, stop, late>>

(* Bug: RUN_IMMEDIATELY applies after every run. *)
ClearToBegin ==
  /\ pc = "reaped"
  /\ current' = NoRun
  /\ pc' = IF scheduled THEN "begin" ELSE "exit"
  /\ UNCHANGED <<setting, main, waitedFor, process, stop, late>>

(* run_once returns, to run_loop or to app.main, which exits. *)
Clear ==
  /\ pc = "reaped"
  /\ current' = NoRun
  /\ pc' = IF scheduled THEN "loop" ELSE "exit"
  /\ UNCHANGED <<setting, main, waitedFor, process, stop, late>>

-----------------------------------------------------------------------------
(* stop, in the main thread. *)

Signal ==
  /\ handler = "idle" /\ main # "exited"
  /\ signals < MaxSignals
  /\ signals' = signals + 1
  /\ handler' = "set"
  /\ known' = Running \cap {current}
  /\ UNCHANGED <<setting, main, thread, process, current, shutdown, signalled, late>>

(* Bug: _shutdown is set only when there is no run to forward the signal to. *)
SetIfNoRun ==
  /\ handler = "set"
  /\ shutdown' = (shutdown \/ current = NoRun)
  /\ handler' = "check"
  /\ UNCHANGED <<setting, main, thread, process, current, signalled, known, signals, late>>

SetShutdown ==
  /\ handler = "set"
  /\ shutdown' = TRUE
  /\ handler' = "check"
  /\ UNCHANGED <<setting, main, thread, process, current, signalled, known, signals, late>>

(* `_current_process is not None` *)
Check ==
  /\ handler = "check"
  /\ handler' = IF current = NoRun THEN "idle" ELSE "poll"
  /\ UNCHANGED <<setting, main, thread, process, current, shutdown, signalled, known,
                 signals, late>>

(* _current_process is read again, and may have been cleared meanwhile:    *)
(* an AttributeError leaves the handler, and app.main's join().            *)
Fail ==
  /\ handler \in {"poll", "send"}
  /\ current = NoRun
  /\ handler' = "idle"
  /\ main' = "failed"
  /\ UNCHANGED <<setting, thread, process, current, shutdown, signalled, known,
                 signals, late>>

(* Bug: the signal is forwarded to a process that has ended, not to one that runs. *)
PollInverted ==
  /\ handler = "poll"
  /\ current # NoRun
  /\ handler' = IF process[current] = "running" THEN "idle" ELSE "send"
  /\ UNCHANGED <<setting, main, thread, process, current, shutdown, signalled, known,
                 signals, late>>

(* `_current_process.poll() is None` *)
Poll ==
  /\ handler = "poll"
  /\ current # NoRun
  /\ handler' = IF process[current] = "running" THEN "send" ELSE "idle"
  /\ UNCHANGED <<setting, main, thread, process, current, shutdown, signalled, known,
                 signals, late>>

Send ==
  /\ handler = "send"
  /\ current # NoRun
  /\ signalled' = signalled \cup ({current} \cap Running)
  /\ handler' = "idle"
  /\ UNCHANGED <<setting, main, thread, process, current, shutdown, known, signals, late>>

-----------------------------------------------------------------------------
(* app.main's join() or sys.exit(), or after an exception the interpreter's *)
(* wait for the threads that are left.                                     *)
Exit ==
  /\ pc = "exit" /\ handler = "idle"
  /\ main # "exited"
  /\ main' = "exited"
  /\ UNCHANGED <<setting, thread, process, current, stop, late>>

(* download.py ends, on its own or by the signal. *)
End(n) ==
  /\ process[n] = "running"
  /\ process' = [process EXCEPT ![n] = "ended"]
  /\ UNCHANGED <<setting, main, thread, current, stop, late>>

Change(c) ==
  /\ main # "exited"
  /\ changes < MaxChanges
  /\ cron' = c
  /\ changes' = changes + 1
  /\ UNCHANGED <<immediate, scheduled, main, thread, process, current, stop, late>>

(* The container has exited, or it waits for a time that does not come. *)
Finished ==
  /\ \/ main = "exited"
     \/ pc = "sleep" /\ Cardinality(Begun) = MaxRuns
  /\ UNCHANGED vars

(* Without a thread of its own, run_once is interrupted by the handler. *)
ThreadStep ==
  /\ scheduled \/ handler = "idle"
  /\ \/ Begin \/ Loop \/ Idle \/ Reach \/ Interrupt \/ Due
     \/ Spawn \/ Assign \/ Wait \/ Clear

HandlerStep == SetShutdown \/ Check \/ Fail \/ Poll \/ Send

Next ==
  \/ ThreadStep
  \/ Signal
  \/ HandlerStep
  \/ Exit
  \/ \E n \in Runs : End(n)
  \/ \E c \in Crons : Change(c)
  \/ Finished

(* Both threads are scheduled, and a download.py ends: its downloads do    *)
(* (KemonoFetch), and so do its creators (MirrorPool).                     *)
Spec ==
  /\ Init /\ [][Next]_vars
  /\ WF_vars(ThreadStep) /\ WF_vars(HandlerStep) /\ WF_vars(Exit)
  /\ \A n \in Runs : WF_vars(End(n))

-----------------------------------------------------------------------------
(* The type invariant: both threads, the processes and the flag. *)
TypeOK ==
  /\ cron \in Crons /\ waitedFor \in Crons
  /\ immediate \in BOOLEAN /\ scheduled \in BOOLEAN /\ shutdown \in BOOLEAN
  /\ main \in {"running", "joining", "failed", "exited"}
  /\ pc \in {"begin", "loop", "idle", "sleep", "due", "spawn", "spawned", "waiting", "reaped",
             "exit"}
  /\ process \in [Runs -> {"none", "running", "ended"}]
  /\ current \in 0..MaxRuns
  /\ current # NoRun => current \in Begun
  /\ pc \in {"waiting", "reaped"} <=> current # NoRun
  /\ handler \in {"idle", "set", "check", "poll", "send"}
  /\ signalled \subseteq Runs /\ known \subseteq Runs
  /\ late \in Nat
  /\ signals \in 0..MaxSignals /\ changes \in 0..MaxChanges

(* run_once waits for its process: two runs of download.py, which wipe     *)
(* TEMP_DIR and write the same library, are never in progress together.    *)
OneRunAtATime == Cardinality(Running) <= 1

(* run_loop looks at _shutdown before every run, and yet a stop can come   *)
(* after the look, or during RUN_IMMEDIATELY: one run can still begin      *)
(* after a stop, and no second one.                                        *)
LateRunsBounded == late <= 1

(* stop "forwards signum to an in-progress download.py subprocess"         *)
(* (scheduler.py:24) if _current_process refers to it by then, however     *)
(* run_once interleaves with it: when it is over, by an exception too,     *)
(* that run has ended or was signalled.                                    *)
StopReachesKnownRun == handler = "idle" => known \cap Running \subseteq signalled

(* The AttributeError that run_once can cause in stop costs nothing: it    *)
(* comes only when the last run is over.                                   *)
FailsAfterLastRun == main = "failed" => Running = {}

(* A stopped container exits, whether it was running, sleeping or idle. *)
StoppedExits == shutdown ~> main = "exited"
=============================================================================
