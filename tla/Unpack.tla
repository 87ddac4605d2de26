--------------------------------- MODULE Unpack ---------------------------------
(***************************************************************************)
(* How archives are opened: the password loop of Creator.unpack            *)
(* (core/creator.py), extract with its directory in TEMP_DIR               *)
(* (core/files.py), and the creator's .conf, which a learned password      *)
(* rewrites while other workers unpack (save_config, core/conf.py).        *)
(*                                                                         *)
(* The workers are those of the Mega pool, the only one that can hold two  *)
(* archives with the same bytes: kemono files are told apart by hash       *)
(* before they are queued, Drive files come one at a time.                 *)
(***************************************************************************)
EXTENDS Naturals, Sequences, FiniteSets, SequencesExt, TLC

CONSTANTS
  Workers,    \* the threads of the pool
  Archives,   \* the creator's archives
  Content,    \* [Archives -> contents]: the hash, which names the TEMP_DIR directory
  Members,    \* [contents -> Nat]: how many entries it holds
  Opens,      \* [contents -> SUBSET Passwords]: what opens it
  Api,        \* [contents -> Passwords \cup {Absent}]: the password kemono knows
  Scraped,    \* [Archives -> Passwords \cup {Absent}]: the one in the post's text
  Passwords,
  Trim,       \* [Passwords -> Passwords]: what conf.read makes of what conf.write wrote
  Blank,      \* "no password", an entry of the list like the others
  Absent,     \* no password known; no archive; no directory
  Emptied,    \* a .conf file that was opened for writing and not written yet
  MaxRuns, MaxEdits, MaxFaults  \* bounds: runs, edits by the user, faults

Contents == {Content[a] : a \in Archives}

ASSUME UnpackAssumption ==
  /\ IsFiniteSet(Workers) /\ Workers # {}
  /\ Opens \in [Contents -> SUBSET Passwords]
  /\ Members \in [Contents -> Nat]
  /\ Api \in [Contents -> Passwords \cup {Absent}]
  /\ Scraped \in [Archives -> Passwords \cup {Absent}]
  /\ Trim \in [Passwords -> Passwords]
  /\ Blank \in Passwords /\ Trim[Blank] = Blank
  /\ Absent \notin Passwords \cup Archives
  /\ \A c \in Contents : \A n \in 1..Members[c] : Absent # 1..n
  /\ Absent # Emptied /\ Absent \notin Seq(Passwords) /\ Emptied \notin Seq(Passwords)
  /\ {MaxRuns, MaxEdits, MaxFaults} \subseteq Nat

VARIABLES
  conf,       \* the .conf on disk: its ARCHIVE_PASSWORDS, Absent or Emptied
  recorded,   \* the archives with a row: no run queues them again
  temp,       \* the directory of each content in TEMP_DIR: its entries, or Absent
  running,    \* a run works on the creator
  passwords,  \* Creator.ARCHIVE_PASSWORDS
  queue,      \* archives no worker has taken yet
  locks,      \* how many locks get_thread_lock has made; the last one is cached
  wk,         \* what each worker is doing, see Idle
  result,     \* this run: how the unpacking of each archive ended
  got,        \* this run: the entries extract returned
  log,        \* history, see LogInit
  bounds      \* how often the bounded things happened

vars == <<conf, recorded, temp, running, passwords, queue, locks, wk, result, got, log, bounds>>

Idle == [
  pc |-> "free",
  job |-> Absent,   \* the archive it has taken
  cand |-> <<>>,    \* unpack's passwords
  n |-> 1,          \* the one it is at
  written |-> 0,    \* the entries it has written to TEMP_DIR
  todo |-> {},      \* recursive_move: what scandir listed and is not moved yet
  list |-> <<>>,    \* conf.write: the values to write
  ask |-> "no",     \* get_thread_lock: not called, about to "create", "wait" for lock
  lock |-> 0]       \* the lock it returned

LogInit == [
  loaded |-> {},    \* the passwords of the list the run began with
  known |-> [a \in Archives |-> {}], \* this run: what kemono answered, and the list when unpack read it
  kept |-> {},      \* passwords that were saved, or given between runs
  shared |-> {},    \* this run: archives unpacked while a worker had an equal one
  misread |-> {},   \* this run: archives with an error taken for a wrong password
  cut |-> FALSE,    \* a rewriting of the .conf was cut short
  two |-> FALSE]    \* a run had two locks

(* creator.conf.default *)
Default == <<Blank>>

Init ==
  /\ conf = Absent
  /\ recorded = {}
  /\ temp = [c \in Contents |-> Absent]
  /\ running = FALSE
  /\ passwords = <<>>
  /\ queue = {}
  /\ locks = 0
  /\ wk = [w \in Workers |-> Idle]
  /\ result = [a \in Archives |-> "none"]
  /\ got = [a \in Archives |-> {}]
  /\ log = LogInit
  /\ bounds = [runs |-> 0, edits |-> 0, faults |-> 0]

Count(b) == bounds' = [bounds EXCEPT ![b] = @ + 1]

-----------------------------------------------------------------------------
(* The run. *)

(* _coerce: each item of the list is stripped. *)
Coerced(list) == [i \in DOMAIN list |-> Trim[list[i]]]

(* conf.read: the list of the file, the template's when the file has none. *)
Read(file) == IF file = Emptied THEN Default ELSE Coerced(file)

(* config.init wipes TEMP_DIR; load_config copies the template when there  *)
(* is no file; what has no row is downloaded (again).                      *)
StartRun ==
  /\ ~running /\ bounds.runs < MaxRuns
  /\ running' = TRUE
  /\ temp' = [c \in Contents |-> Absent]
  /\ conf' = IF conf = Absent THEN Default ELSE conf
  /\ passwords' = Read(conf')
  /\ queue' = Archives \ recorded
  /\ result' = [a \in Archives |-> "none"]
  /\ got' = [a \in Archives |-> {}]
  /\ log' = [log EXCEPT !.loaded = Range(passwords'), !.known = LogInit.known,
                        !.shared = {}, !.misread = {}]
  /\ Count("runs")
  /\ UNCHANGED <<recorded, locks, wk>>

EndRun ==
  /\ running /\ queue = {} /\ \A w \in Workers : wk[w].pc = "free"
  /\ running' = FALSE
  /\ locks' = 0
  /\ UNCHANGED <<conf, recorded, temp, passwords, queue, wk, result, got, log, bounds>>

Crash ==
  /\ running /\ bounds.faults < MaxFaults
  /\ running' = FALSE
  /\ locks' = 0
  /\ queue' = {}
  /\ wk' = [w \in Workers |-> Idle]
  /\ log' = [log EXCEPT !.cut = @ \/ \E w \in Workers : wk[w].pc = "writing"]
  /\ Count("faults")
  /\ UNCHANGED <<conf, recorded, temp, passwords, result, got>>

(* The user adds a password to the .conf, while no run is going or during  *)
(* one, which has read the file and will overwrite it.                     *)
Edit(p) ==
  /\ conf \notin {Absent, Emptied} /\ p = Trim[p] /\ p \notin Range(conf)
  /\ bounds.edits < MaxEdits
  /\ conf' = Append(conf, p)
  /\ log' = IF running THEN log ELSE [log EXCEPT !.kept = @ \cup {p}]
  /\ Count("edits")
  /\ UNCHANGED <<recorded, temp, running, passwords, queue, locks, wk, result, got>>

-----------------------------------------------------------------------------
(* One worker. *)

Set(w, changes) ==
  wk' = [wk EXCEPT ![w] = [f \in DOMAIN Idle |-> IF f \in DOMAIN changes THEN changes[f] ELSE @[f]]]

Job(w) == wk[w].job
Password(w) == wk[w].cand[wk[w].n]

(* Bug: one directory for all archives. *)
OneDir(w) == Content[CHOOSE a \in Archives : TRUE]

(* TEMP_DIR/<hash of the archive>_temp *)
Dir(w) == Content[Job(w)]

Ends(w, r) ==
  /\ Set(w, Idle)
  /\ result' = [result EXCEPT ![Job(w)] = r]

(* A DownloadError: _finish_download deletes the archive and its row.      *)
Fails(w, r) ==
  /\ Ends(w, r)
  /\ recorded' = recorded \ {Job(w)}

Take(w, a) ==
  /\ wk[w].pc = "free" /\ a \in queue
  /\ queue' = queue \ {a}
  /\ Set(w, [pc |-> "record", job |-> a])
  /\ LET Equal == {v \in Workers : Job(v) # Absent /\ Content[Job(v)] = Content[a]}
     IN  log' = [log EXCEPT !.shared =
           @ \cup {Job(v) : v \in Equal} \cup (IF Equal = {} THEN {} ELSE {a})]
  /\ UNCHANGED <<conf, recorded, temp, running, passwords, locks, result, got, bounds>>

(* get_thread_lock: whether the lock is there, and making it, are two      *)
(* steps; what is cached by then is returned.                              *)
AskLock(w) ==
  /\ wk[w].pc \in {"record", "save"} /\ wk[w].ask = "no"
  /\ Set(w, IF locks = 0 THEN [ask |-> "create"] ELSE [ask |-> "wait", lock |-> locks])
  /\ UNCHANGED <<conf, recorded, temp, running, passwords, queue, locks, result, got, log, bounds>>

CreateLock(w) ==
  /\ wk[w].ask = "create"
  /\ locks' = locks + 1
  /\ Set(w, [ask |-> "wait", lock |-> locks + 1])
  /\ log' = [log EXCEPT !.two = @ \/ locks > 0]
  /\ UNCHANGED <<conf, recorded, temp, running, passwords, queue, result, got, bounds>>

HasLock(w) ==
  /\ wk[w].ask = "wait"
  /\ \A v \in Workers : wk[v].pc = "writing" => wk[v].lock # wk[w].lock

(* save_file, a section of its own under the lock. *)
Record(w) ==
  /\ wk[w].pc = "record" /\ HasLock(w)
  /\ recorded' = recorded \cup {Job(w)}
  /\ Set(w, [pc |-> "gather", ask |-> "no", lock |-> 0])
  /\ UNCHANGED <<conf, temp, running, passwords, queue, locks, result, got, log, bounds>>

Known(p) == IF p = Absent THEN <<>> ELSE <<p>>

(* The passwords of a list in the order of their first places.             *)
Distinct(s) ==
  LET First == {i \in DOMAIN s : \A j \in 1..(i - 1) : s[j] # s[i]}
      Rank(i) == Cardinality({j \in First : j <= i})
  IN  [n \in 1..Cardinality(First) |-> s[CHOOSE i \in First : Rank(i) = n]]

(* Bug: the answer of kemono is not used. *)
CandidatesNoApi(a, api) == Distinct(Known(Scraped[a]) \o passwords)

(* unpack: kemono's password, the one of the post, the list. *)
Candidates(a, api) == Distinct(api \o Known(Scraped[a]) \o passwords)

(* get_file_data answers {} when the request fails. *)
Gather(w) ==
  /\ wk[w].pc = "gather"
  /\ \E api \in {Known(Api[Content[Job(w)]]), <<>>} :
       /\ Set(w, [pc |-> "try", cand |-> Candidates(Job(w), api)])
       /\ log' = [log EXCEPT !.known[Job(w)] = Range(api) \cup Range(passwords)]
  /\ UNCHANGED <<conf, recorded, temp, running, passwords, queue, locks, result, got, bounds>>

(* extract: the directory goes if it is there. *)
Begin(w) ==
  /\ wk[w].pc = "try" /\ wk[w].n <= Len(wk[w].cand)
  /\ temp' = [temp EXCEPT ![Dir(w)] = Absent]
  /\ Set(w, [pc |-> "unzip", written |-> 0])
  /\ UNCHANGED <<conf, recorded, running, passwords, queue, locks, result, got, log, bounds>>

(* No password is left: "missing" when none but the blank one was tried.   *)
GiveUp(w) ==
  /\ wk[w].pc = "try" /\ wk[w].n > Len(wk[w].cand)
  /\ Fails(w, IF Range(wk[w].cand) \subseteq {Blank} THEN "missing" ELSE "incorrect")
  /\ UNCHANGED <<conf, temp, running, passwords, queue, locks, got, log, bounds>>

Fits(w) == Password(w) \in Opens[Content[Job(w)]]
AllWritten(w) == wk[w].written = Members[Content[Job(w)]]

(* extractall writes one entry, and makes the directory if it is not there. *)
WriteEntry(w) ==
  /\ wk[w].pc = "unzip" /\ Fits(w) /\ ~AllWritten(w)
  /\ temp' = [temp EXCEPT ![Dir(w)] =
       (IF @ = Absent THEN {} ELSE @) \cup {wk[w].written + 1}]
  /\ Set(w, [written |-> wk[w].written + 1])
  /\ UNCHANGED <<conf, recorded, running, passwords, queue, locks, result, got, log, bounds>>

(* A RuntimeError: the directory goes and the next password is tried.      *)
(* unrar and un7z raise it for any other error of theirs too.              *)
Wrong(w) ==
  /\ wk[w].pc = "unzip"
  /\ \/ ~Fits(w) /\ UNCHANGED <<log, bounds>>
     \/ /\ Fits(w) /\ bounds.faults < MaxFaults
        /\ log' = [log EXCEPT !.misread = @ \cup {Job(w)}]
        /\ Count("faults")
  /\ temp' = [temp EXCEPT ![Dir(w)] = Absent]
  /\ Set(w, [pc |-> "try", n |-> wk[w].n + 1])
  /\ UNCHANGED <<conf, recorded, running, passwords, queue, locks, result, got>>

(* extract after the unpacking: the archive's folder is cleared; nothing   *)
(* is returned when the directory in TEMP_DIR is not there.                *)
Return(w) ==
  /\ wk[w].pc = "unzip" /\ Fits(w) /\ AllWritten(w)
  /\ Set(w, [pc |-> IF temp[Dir(w)] = Absent THEN "opened" ELSE "list"])
  /\ UNCHANGED <<conf, recorded, temp, running, passwords, queue, locks, result, got, log, bounds>>

Next1(S) == CHOOSE i \in S : \A j \in S : i <= j

(* What recursive_move needs next is there. *)
There(w) ==
  /\ temp[Dir(w)] # Absent
  /\ wk[w].pc = "move" => Next1(wk[w].todo) \in temp[Dir(w)]

(* recursive_move: scandir, then one shutil.move after the other; both     *)
(* raise when what they need has gone, which is an ExtractionError.        *)
List(w) ==
  /\ wk[w].pc = "list" /\ There(w)
  /\ Set(w, [pc |-> "move", todo |-> temp[Dir(w)]])
  /\ UNCHANGED <<conf, recorded, temp, running, passwords, queue, locks, result, got, log, bounds>>

Move(w) ==
  LET i == Next1(wk[w].todo) IN
  /\ wk[w].pc = "move" /\ wk[w].todo # {} /\ There(w)
  /\ temp' = [temp EXCEPT ![Dir(w)] = @ \ {i}]
  /\ got' = [got EXCEPT ![Job(w)] = @ \cup {i}]
  /\ Set(w, [todo |-> wk[w].todo \ {i}])
  /\ UNCHANGED <<conf, recorded, running, passwords, queue, locks, result, log, bounds>>

Moved(w) ==
  /\ wk[w].pc = "move" /\ wk[w].todo = {}
  /\ temp' = [temp EXCEPT ![Dir(w)] = Absent]
  /\ Set(w, [pc |-> "opened"])
  /\ UNCHANGED <<conf, recorded, running, passwords, queue, locks, result, got, log, bounds>>

Gone(w) ==
  /\ wk[w].pc = "list" \/ (wk[w].pc = "move" /\ wk[w].todo # {})
  /\ ~There(w)

(* Any exception but a RuntimeError is an ExtractionError, of extract and  *)
(* of save_config alike.                                                   *)
Broken(w) ==
  /\ \/ Gone(w) /\ UNCHANGED <<temp, log, bounds>>
     \/ /\ wk[w].pc \in {"unzip", "writing"} /\ bounds.faults < MaxFaults
        /\ temp' = IF wk[w].pc = "unzip" THEN [temp EXCEPT ![Dir(w)] = Absent] ELSE temp
        /\ log' = [log EXCEPT !.cut = @ \/ wk[w].pc = "writing"]
        /\ Count("faults")
  /\ Fails(w, "broken")
  /\ UNCHANGED <<conf, running, passwords, queue, locks, got>>

(* The password worked.  Whether it is in the list, appending it and       *)
(* saving the list are steps of their own; only the last has the lock.     *)
AlreadyKnown(w) ==
  /\ wk[w].pc = "opened" /\ Password(w) \in Range(passwords)
  /\ Ends(w, "success")
  /\ UNCHANGED <<conf, recorded, temp, running, passwords, queue, locks, got, log, bounds>>

(* Bug: the password is appended whether it is in the list or not. *)
UnknownUnchecked(w) ==
  /\ wk[w].pc = "opened"
  /\ Set(w, [pc |-> "learn"])
  /\ UNCHANGED <<conf, recorded, temp, running, passwords, queue, locks, result, got, log, bounds>>

Unknown(w) ==
  /\ wk[w].pc = "opened" /\ Password(w) \notin Range(passwords)
  /\ Set(w, [pc |-> "learn"])
  /\ UNCHANGED <<conf, recorded, temp, running, passwords, queue, locks, result, got, log, bounds>>

Learn(w) ==
  /\ wk[w].pc = "learn"
  /\ passwords' = Append(passwords, Password(w))
  /\ Set(w, [pc |-> "save"])
  /\ UNCHANGED <<conf, recorded, temp, running, queue, locks, result, got, log, bounds>>

(* Bug: the values are those unpack began with, and the new password. *)
ValuesAsOfGather(w) == Append(wk[w].cand, Password(w))

(* save_config: the values, read under the lock. *)
Values(w) == passwords

(* conf.write opens the file, which empties it, and then writes. *)
OpenConf(w) ==
  /\ wk[w].pc = "save" /\ HasLock(w)
  /\ conf' = Emptied
  /\ Set(w, [pc |-> "writing", list |-> Values(w)])
  /\ UNCHANGED <<recorded, temp, running, passwords, queue, locks, result, got, log, bounds>>

WriteConf(w) ==
  /\ wk[w].pc = "writing"
  /\ conf' = wk[w].list
  /\ log' = [log EXCEPT !.kept = @ \cup Range(wk[w].list)]
  /\ Ends(w, "success")
  /\ UNCHANGED <<recorded, temp, running, passwords, queue, locks, got, bounds>>

Finished == ~running /\ bounds.runs = MaxRuns /\ UNCHANGED vars

Next ==
  \/ StartRun \/ EndRun \/ Crash \/ Finished
  \/ \E p \in Passwords : Edit(p)
  \/ \E w \in Workers, a \in Archives : Take(w, a)
  \/ \E w \in Workers :
       \/ AskLock(w) \/ CreateLock(w) \/ Record(w) \/ Gather(w) \/ Begin(w) \/ GiveUp(w)
       \/ WriteEntry(w) \/ Wrong(w) \/ Return(w) \/ List(w) \/ Move(w) \/ Moved(w) \/ Broken(w)
       \/ AlreadyKnown(w) \/ Unknown(w) \/ Learn(w) \/ OpenConf(w) \/ WriteConf(w)

Spec == Init /\ [][Next]_vars

-----------------------------------------------------------------------------
(* The type invariant: the file, the directories, the run and its workers. *)
TypeOK ==
  /\ conf \in {Absent, Emptied} \/ conf \in Seq(Passwords)
  /\ temp \in [Contents -> {Absent} \cup SUBSET Nat]
  /\ passwords \in Seq(Passwords)
  /\ recorded \cup queue \subseteq Archives
  /\ locks \in 0..Cardinality(Workers)
  /\ \A w \in Workers : wk[w].pc # "free" => running /\ Job(w) \in Archives \ queue
  /\ result \in [Archives -> {"none", "success", "missing", "incorrect", "broken"}]

(* extract returns all entries of the archive, although workers share      *)
(* TEMP_DIR, unless a worker had an archive with the same bytes meanwhile. *)
WholeUnlessShared ==
  \A a \in Archives \ log.shared :
    result[a] = "success" => got[a] = 1..Members[Content[a]]

(* An archive fails for its password only if it really has none: not the   *)
(* one kemono answered with, not the one in its post, no password of the   *)
(* list the run began with, which holds what earlier runs learned, or that *)
(* was learned before unpack read the list, opens it.  "Missing" is said   *)
(* only when none of them is a password.  In which order they are tried is *)
(* not part of it.                                                         *)
FailedIsLocked ==
  \A a \in Archives \ log.misread :
    LET given == log.loaded \cup log.known[a] \cup ({Scraped[a]} \ {Absent})
    IN  /\ result[a] \in {"missing", "incorrect"} => Opens[Content[a]] \cap given = {}
        /\ result[a] = "missing" => given \subseteq {Blank}

(* What was learned and saved, or given by the user between runs, stays in *)
(* the .conf however workers and runs rewrite it, and what a run has       *)
(* learned is in it or on its way.  The exceptions are a rewriting that    *)
(* was cut short and a second lock made at the first use.                  *)
Writing == \E w \in Workers : wk[w].pc = "writing"
PasswordsKept ==
  ~log.cut /\ ~log.two /\ ~Writing /\ conf # Absent =>
    /\ conf # Emptied
    /\ \A p \in log.kept : Trim[p] = p => p \in Range(conf)
    /\ running => \A p \in Range(passwords) \ (log.loaded \cup Range(conf)) :
         \E w \in Workers : wk[w].pc = "save" /\ Password(w) = p

(* Workers that learn the same password at once repeat it in the list, at  *)
(* most once each however many runs there are; a password that is not      *)
(* stripped to another one by conf.read.                                   *)
RepeatsBounded ==
  \A p \in Passwords : (\A q \in Passwords : Trim[q] = p => q = p) =>
    Cardinality({i \in DOMAIN passwords : passwords[i] = p}) <= Cardinality(Workers)
=============================================================================
