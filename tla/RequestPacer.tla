------------------------------ MODULE RequestPacer ------------------------------
(***************************************************************************)
(* core/network.py: the process-wide pacing of requests to the kemono      *)
(* domains, and the retry loops of call_api and call_api_action that wait  *)
(* for a slot before every attempt.                                        *)
(*                                                                         *)
(* A thread reserves a slot under _request_lock and sleeps outside it, so  *)
(* the reservation is one atomic action and falling asleep is another one. *)
(* Time is discrete.  A thread is at most MaxLag ticks later than its      *)
(* sleep calls for (preemption between the unlock and the sleep, an        *)
(* oversleep); MaxLag = 0 is a perfect scheduler.                          *)
(***************************************************************************)
EXTENDS Integers, Sequences, FiniteSets

CONSTANTS
  Threads,         \* the pool's workers and the main thread
  Kinds,           \* "read" for call_api, "write" for call_api_action
  MaxAttempts,     \* [Kinds -> 1..]: the loops' max_attempts
  MinInterval,     \* MIN_REQUEST_INTERVAL, in ticks
  MaxLag,          \* bound on a thread's lateness, in ticks
  RequestTimeout,  \* bound on one request, in ticks
  Horizon          \* bound: no call begins at or after this time

ASSUME PacerAssumption ==
  /\ IsFiniteSet(Threads)
  /\ MaxAttempts \in [Kinds -> Nat \ {0}]
  /\ MinInterval \in Nat \ {0}
  /\ MaxLag \in Nat
  /\ RequestTimeout \in Nat \ {0}
  /\ Horizon \in Nat

VARIABLES
  now,            \* time.monotonic()
  nextRequestAt,  \* _next_request_at
  pc,             \* where each thread is
  kind,           \* which of the two loops it runs
  attempt,        \* the loop's variable
  wait,           \* the local `wait`
  due,            \* end of its sleep; for "sent", the latest end of the request
  ticket,         \* the index in granted of its latest slot, 0 before any
  result,         \* what its latest call returned
  granted,        \* history: the slots in the order they were reserved
  starts          \* history: the requests started, each with its slot's index

vars == <<now, nextRequestAt, pc, kind, attempt, wait, due, ticket, result,
          granted, starts>>

Larger(a, b) == IF a >= b THEN a ELSE b

PCs == {"idle", "loop", "reserved", "asleep", "woken", "sent", "backoff"}

Init ==
  /\ now = 0
  /\ nextRequestAt = 0
  /\ pc = [t \in Threads |-> "idle"]
  /\ kind \in [Threads -> Kinds]
  /\ attempt = [t \in Threads |-> 0]
  /\ wait = [t \in Threads |-> 0]
  /\ due = [t \in Threads |-> 0]
  /\ ticket = [t \in Threads |-> 0]
  /\ result = [t \in Threads |-> "none"]
  /\ granted = <<>>
  /\ starts = {}

-----------------------------------------------------------------------------
(* A thread enters call_api or call_api_action. *)
Call(t, k) ==
  /\ pc[t] = "idle"
  /\ now < Horizon
  /\ pc' = [pc EXCEPT ![t] = "loop"]
  /\ kind' = [kind EXCEPT ![t] = k]
  /\ attempt' = [attempt EXCEPT ![t] = 0]
  /\ result' = [result EXCEPT ![t] = "none"]
  /\ UNCHANGED <<now, nextRequestAt, wait, due, ticket, granted, starts>>

(* The slot that the lock's holder takes: the next free one, or now. *)
NextSlot == Larger(now, nextRequestAt)

(* Bug: a call takes the slots of all its attempts at once. *)
ReserveAhead(t) ==
  /\ pc[t] = "loop"
  /\ wait' = [wait EXCEPT ![t] = nextRequestAt - now]
  /\ nextRequestAt' = NextSlot + MinInterval * (MaxAttempts[kind[t]] - attempt[t])
  /\ granted' = Append(granted, NextSlot)
  /\ ticket' = [ticket EXCEPT ![t] = Len(granted) + 1]
  /\ pc' = [pc EXCEPT ![t] = IF nextRequestAt - now > 0 THEN "reserved" ELSE "woken"]
  /\ UNCHANGED <<now, kind, attempt, due, result, starts>>

(* wait_for_request_slot, the critical section. *)
Reserve(t) ==
  /\ pc[t] = "loop"
  /\ wait' = [wait EXCEPT ![t] = nextRequestAt - now]
  /\ nextRequestAt' = NextSlot + MinInterval
  /\ granted' = Append(granted, NextSlot)
  /\ ticket' = [ticket EXCEPT ![t] = Len(granted) + 1]
  /\ pc' = [pc EXCEPT ![t] = IF nextRequestAt - now > 0 THEN "reserved" ELSE "woken"]
  /\ UNCHANGED <<now, kind, attempt, due, result, starts>>

(* wait_for_request_slot, after the lock: time.sleep(wait) begins. *)
Sleep(t) ==
  /\ pc[t] = "reserved"
  /\ due' = [due EXCEPT ![t] = now + wait[t]]
  /\ pc' = [pc EXCEPT ![t] = "asleep"]
  /\ UNCHANGED <<now, nextRequestAt, kind, attempt, wait, ticket, result, granted, starts>>

(* Bug: the request does not wait for the end of the sleep. *)
SendEarly(t) ==
  /\ pc[t] \in {"woken", "asleep"}
  /\ starts' = starts \cup {[n |-> ticket[t], at |-> now]}
  /\ due' = [due EXCEPT ![t] = now + RequestTimeout]
  /\ pc' = [pc EXCEPT ![t] = "sent"]
  /\ UNCHANGED <<now, nextRequestAt, kind, attempt, wait, ticket, result, granted>>

(* The thread returns from wait_for_request_slot and starts its request. *)
Send(t) ==
  /\ \/ pc[t] = "woken"
     \/ pc[t] = "asleep" /\ now >= due[t]
  /\ starts' = starts \cup {[n |-> ticket[t], at |-> now]}
  /\ due' = [due EXCEPT ![t] = now + RequestTimeout]
  /\ pc' = [pc EXCEPT ![t] = "sent"]
  /\ UNCHANGED <<now, nextRequestAt, kind, attempt, wait, ticket, result, granted>>

Return(t, r) ==
  /\ pc' = [pc EXCEPT ![t] = "idle"]
  /\ result' = [result EXCEPT ![t] = r]

(* The text of the response, or True. *)
AnswerOk(t) ==
  /\ pc[t] = "sent"
  /\ Return(t, "ok")
  /\ UNCHANGED <<now, nextRequestAt, kind, attempt, wait, due, ticket, granted, starts>>

(* A 404, or for a read an empty body: None or False without a retry. *)
AnswerNothing(t) ==
  /\ pc[t] = "sent"
  /\ Return(t, "refused")
  /\ UNCHANGED <<now, nextRequestAt, kind, attempt, wait, due, ticket, granted, starts>>

(* wait_time of the retry loops, in ticks. *)
Backoff(a) == 2^a

(* Any other exception: sleep 2**attempt, or give up after the last attempt. *)
AnswerError(t) ==
  /\ pc[t] = "sent"
  /\ \/ /\ attempt[t] < MaxAttempts[kind[t]] - 1
        /\ due' = [due EXCEPT ![t] = now + Backoff(attempt[t])]
        /\ pc' = [pc EXCEPT ![t] = "backoff"]
        /\ UNCHANGED result
     \/ /\ attempt[t] >= MaxAttempts[kind[t]] - 1
        /\ Return(t, "exhausted")
        /\ UNCHANGED due
  /\ UNCHANGED <<now, nextRequestAt, kind, attempt, wait, ticket, granted, starts>>

(* The backoff is over: the next iteration of the loop. *)
Retry(t) ==
  /\ pc[t] = "backoff"
  /\ now >= due[t]
  /\ attempt' = [attempt EXCEPT ![t] = attempt[t] + 1]
  /\ pc' = [pc EXCEPT ![t] = "loop"]
  /\ UNCHANGED <<now, nextRequestAt, kind, wait, due, ticket, result, granted, starts>>

-----------------------------------------------------------------------------
(* The latest time at which t takes its next step. *)
Deadline(t) ==
  CASE pc[t] = "reserved" -> granted[ticket[t]] + MaxLag - wait[t]
    [] pc[t] \in {"asleep", "woken"} -> granted[ticket[t]] + MaxLag
    [] pc[t] = "sent" -> due[t]
    [] pc[t] = "backoff" -> due[t] + MaxLag

Timed == {t \in Threads : pc[t] \in {"reserved", "asleep", "woken", "sent", "backoff"}}

Tick ==
  /\ now < Horizon \/ Timed # {}
  /\ \A t \in Timed : now < Deadline(t)
  /\ now' = now + 1
  /\ UNCHANGED <<nextRequestAt, pc, kind, attempt, wait, due, ticket, result,
                 granted, starts>>

(* The horizon is reached and no call is in progress: the model stops. *)
Finished ==
  /\ now >= Horizon
  /\ \A t \in Threads : pc[t] = "idle"
  /\ UNCHANGED vars

Answer(t) == AnswerOk(t) \/ AnswerNothing(t) \/ AnswerError(t)

Step(t) == Reserve(t) \/ Sleep(t) \/ Send(t) \/ Answer(t) \/ Retry(t)

Next ==
  \/ \E t \in Threads : Step(t)
  \/ \E t \in Threads, k \in Kinds : Call(t, k)
  \/ Tick
  \/ Finished

Spec == Init /\ [][Next]_vars

-----------------------------------------------------------------------------
(* The type invariant: what each variable of core/network.py, and of the   *)
(* threads inside it, can hold.                                            *)
TypeOK ==
  /\ now \in Nat
  /\ nextRequestAt \in Nat
  /\ pc \in [Threads -> PCs]
  /\ kind \in [Threads -> Kinds]
  /\ attempt \in [Threads -> Nat]
  /\ wait \in [Threads -> Int]
  /\ due \in [Threads -> Int]
  /\ ticket \in [Threads -> Nat]
  /\ \A t \in Threads : ticket[t] <= Len(granted)
  /\ \A t \in Threads : pc[t] \in {"reserved", "asleep", "woken"} => ticket[t] > 0
  /\ result \in [Threads -> {"none", "ok", "refused", "exhausted"}]
  /\ granted \in Seq(Nat)
  /\ starts \subseteq [n : Nat \ {0}, at : Nat]
  /\ \A s \in starts : s.n <= Len(granted)

(* wait_for_request_slot: two reservations, by whichever threads and       *)
(* however they interleave, are at least MIN_REQUEST_INTERVAL apart.       *)
SlotsSpaced ==
  \A i, j \in 1..Len(granted) : i < j => granted[j] >= granted[i] + MinInterval

(* "keeping request starts MIN_REQUEST_INTERVAL apart" (network.py:14):    *)
(* what the sleep outside the lock leaves of it, two different requests    *)
(* start at least MIN_REQUEST_INTERVAL minus the lateness apart.           *)
StartsApart ==
  \A r, s \in starts : r # s =>
    \/ s.at - r.at >= MinInterval - MaxLag
    \/ r.at - s.at >= MinInterval - MaxLag

(* wait_for_request_slot: threads queue up behind each other, and no       *)
(* further.  However many calls fail, back off and reserve again, a thread *)
(* finds no more than one unused slot of each other thread ahead of it and *)
(* never sleeps for more intervals than there are threads.                 *)
WaitBounded == \A t \in Threads : wait[t] <= Cardinality(Threads) * MinInterval
=============================================================================
