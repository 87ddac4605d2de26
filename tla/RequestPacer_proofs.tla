-------------------------- MODULE RequestPacer_proofs --------------------------
(***************************************************************************)
(* The spacing of request slots and of request starts, for every number of *)
(* threads, interval, lateness and horizon.                                *)
(***************************************************************************)
EXTENDS RequestPacer, FiniteSetTheorems, TLAPS

Waiting == {"reserved", "asleep", "woken"}

(* Every slot granted so far ends before the next one begins. *)
NextIsFree ==
  \A i \in 1..Len(granted) : granted[i] + MinInterval <= nextRequestAt

(* A thread between its reservation and its request is not early and not   *)
(* later than MaxLag allows.                                               *)
WaitsForSlot ==
  \A t \in Threads :
    LET g == granted[ticket[t]] IN
      /\ pc[t] = "reserved" => /\ wait[t] > 0
                               /\ g <= now + wait[t]
                               /\ now + wait[t] <= g + MaxLag
      /\ pc[t] = "asleep" => g <= due[t] /\ now <= g + MaxLag
      /\ pc[t] = "woken" => g <= now /\ now <= g + MaxLag

(* No request started before its slot, nor later than MaxLag allows. *)
StartsInSlot ==
  \A s \in starts : granted[s.n] <= s.at /\ s.at <= granted[s.n] + MaxLag

(* A slot belongs to one thread and serves one request. *)
TicketsUnique ==
  /\ \A t, u \in Threads : t # u /\ ticket[t] > 0 => ticket[t] # ticket[u]
  /\ \A t \in Threads : pc[t] \in Waiting => \A s \in starts : s.n # ticket[t]
  /\ \A r, s \in starts : r.n = s.n => r = s

IInv == TypeOK /\ SlotsSpaced /\ NextIsFree /\ WaitsForSlot /\ StartsInSlot /\ TicketsUnique

-----------------------------------------------------------------------------
(* network.py's state is well-formed when the module is loaded. *)
LEMMA InitTypeOK == Init => TypeOK
  BY PacerAssumption DEF Init, TypeOK, PCs

(* The backoff is a number of ticks. *)
LEMMA BackoffType == \A a \in Nat : Backoff(a) \in Int
  BY DEF Backoff

(* What a new reservation appends. *)
LEMMA Appended ==
  ASSUME NEW s \in Seq(Nat), NEW x \in Nat
  PROVE  /\ Append(s, x) \in Seq(Nat)
         /\ Len(s) \in Nat /\ Len(Append(s, x)) = Len(s) + 1
         /\ Append(s, x)[Len(s) + 1] = x
         /\ \A i \in 1..Len(s) : Append(s, x)[i] = s[i]
  OBVIOUS

(* The new reservation's number is the thread's ticket. *)
LEMMA Ticketed ==
  ASSUME NEW n \in Nat, NEW t \in Threads, NEW f \in [Threads -> Nat],
         \A u \in Threads : f[u] <= n
  PROVE  LET g == [f EXCEPT ![t] = n + 1] IN
           /\ g \in [Threads -> Nat] /\ g[t] = n + 1
           /\ \A u \in Threads : u # t => g[u] = f[u]
           /\ \A u \in Threads : g[u] <= n + 1
  OBVIOUS

(* Every step keeps the variables in their types. *)
LEMMA NextTypeOK == TypeOK /\ [Next]_vars => TypeOK'
<1> SUFFICES ASSUME TypeOK, [Next]_vars PROVE TypeOK'
  OBVIOUS
<1> USE PacerAssumption DEF TypeOK, PCs
<1>1. ASSUME NEW t \in Threads, NEW k \in Kinds, Call(t, k) PROVE TypeOK'
  BY <1>1 DEF Call
<1>2. ASSUME NEW t \in Threads, Reserve(t) PROVE TypeOK'
  <2>1. NextSlot \in Nat /\ NextSlot + MinInterval \in Nat /\ nextRequestAt - now \in Int
    BY DEF NextSlot, Larger
  <2>2. /\ granted' = Append(granted, NextSlot) /\ granted' \in Seq(Nat)
        /\ Len(granted) \in Nat /\ Len(granted') = Len(granted) + 1
    <3>1. granted \in Seq(Nat) /\ granted' = Append(granted, NextSlot)
      BY <1>2 DEF Reserve
    <3> HIDE DEF TypeOK, PCs
    <3>2. QED
      BY <2>1, <3>1, Appended
  <2>3. UNCHANGED <<now, kind, attempt, due, result, starts>>
    BY <1>2 DEF Reserve
  <2>4. /\ ticket' \in [Threads -> Nat] /\ ticket'[t] = Len(granted) + 1
        /\ \A u \in Threads : u # t => ticket'[u] = ticket[u]
        /\ \A u \in Threads : ticket'[u] <= Len(granted')
    <3>1. /\ ticket \in [Threads -> Nat] /\ \A u \in Threads : ticket[u] <= Len(granted)
          /\ ticket' = [ticket EXCEPT ![t] = Len(granted) + 1]
      BY <1>2 DEF Reserve
    <3> HIDE DEF TypeOK, PCs
    <3>2. QED
      BY <1>2, <2>2, <3>1, Ticketed
  <2>5. pc' \in [Threads -> PCs] /\ wait' \in [Threads -> Int] /\ nextRequestAt' \in Nat
    BY <1>2, <2>1 DEF Reserve
  <2>6. \A u \in Threads : pc'[u] \in {"reserved", "asleep", "woken"} => ticket'[u] > 0
    <3>1. \A u \in Threads : u # t => pc'[u] = pc[u]
      BY <1>2 DEF Reserve
    <3>2. \A u \in Threads : pc[u] \in {"reserved", "asleep", "woken"} => ticket[u] > 0
      OBVIOUS
    <3> HIDE DEF TypeOK, PCs
    <3>3. QED
      BY <2>2, <2>4, <3>1, <3>2
  <2>7. \A s \in starts' : s.n <= Len(granted')
    BY <2>2, <2>3
  <2>8. QED
    BY <2>1, <2>2, <2>3, <2>4, <2>5, <2>6, <2>7
<1>3. ASSUME NEW t \in Threads, Sleep(t) PROVE TypeOK'
  <2>1. UNCHANGED <<now, nextRequestAt, kind, attempt, wait, ticket, result, granted, starts>>
    BY <1>3 DEF Sleep
  <2>2. due' \in [Threads -> Int] /\ pc' \in [Threads -> PCs]
    BY <1>3 DEF Sleep
  <2>3. \A u \in Threads : pc'[u] \in {"reserved", "asleep", "woken"} => pc[u] = pc'[u] \/ pc[u] = "reserved"
    BY <1>3 DEF Sleep
  <2>4. QED
    BY <2>1, <2>2, <2>3
<1>4. ASSUME NEW t \in Threads, Send(t) PROVE TypeOK'
  BY <1>4 DEF Send
<1>5. ASSUME NEW t \in Threads, Answer(t) PROVE TypeOK'
  <2>1. CASE AnswerOk(t)
    BY <2>1 DEF AnswerOk, Return
  <2>2. CASE AnswerNothing(t)
    BY <2>2 DEF AnswerNothing, Return
  <2>3. CASE AnswerError(t)
    <3>1. now + Backoff(attempt[t]) \in Int
      BY BackoffType
    <3>2. due' \in [Threads -> Int]
      BY <2>3, <3>1 DEF AnswerError
    <3>3. pc' \in [Threads -> PCs] /\ result' \in [Threads -> {"none", "ok", "refused", "exhausted"}]
      BY <2>3 DEF AnswerError, Return
    <3>4. \A u \in Threads : pc'[u] \in {"reserved", "asleep", "woken"} => pc[u] = pc'[u]
      BY <2>3 DEF AnswerError, Return
    <3>5. UNCHANGED <<now, nextRequestAt, kind, attempt, wait, ticket, granted, starts>>
      BY <2>3 DEF AnswerError
    <3>6. QED
      BY <3>2, <3>3, <3>4, <3>5
  <2>4. QED
    BY <1>5, <2>1, <2>2, <2>3 DEF Answer
<1>6. ASSUME NEW t \in Threads, Retry(t) PROVE TypeOK'
  BY <1>6 DEF Retry
<1>7. CASE Tick
  BY <1>7 DEF Tick
<1>8. CASE UNCHANGED vars
  BY <1>8 DEF vars
<1>9. QED
  BY <1>1, <1>2, <1>3, <1>4, <1>5, <1>6, <1>7, <1>8 DEF Next, Step, Finished

(* The type invariant of the pacer. *)
THEOREM TypeCorrect == Spec => []TypeOK
<1>1. QED
  BY InitTypeOK, NextTypeOK, PTL DEF Spec

-----------------------------------------------------------------------------
LEMMA InitIInv == Init => IInv
  BY InitTypeOK DEF Init, IInv, SlotsSpaced, NextIsFree, WaitsForSlot, StartsInSlot,
                    TicketsUnique, Waiting

(* Appending a slot that every earlier one ends before keeps the spacing. *)
LEMMA AppendSpaced ==
  ASSUME NEW s \in Seq(Nat), NEW x \in Nat, NEW d \in Nat,
         \A i, j \in 1..Len(s) : i < j => s[j] >= s[i] + d,
         \A i \in 1..Len(s) : s[i] + d <= x
  PROVE  /\ \A i, j \in 1..Len(Append(s, x)) :
              i < j => Append(s, x)[j] >= Append(s, x)[i] + d
         /\ \A i \in 1..Len(Append(s, x)) : Append(s, x)[i] + d <= x + d
<1> DEFINE a == Append(s, x)
           n == Len(s)
<1>1. n \in Nat /\ Len(a) = n + 1 /\ a[n + 1] = x /\ \A i \in 1..n : a[i] = s[i]
  BY Appended
<1>2. \A i \in 1..n : s[i] \in Nat
  OBVIOUS
<1> HIDE DEF a, n
<1>3. \A i \in 1..(n + 1) : a[i] \in Nat /\ a[i] + d <= x + d
  <2> SUFFICES ASSUME NEW i \in 1..(n + 1) PROVE a[i] \in Nat /\ a[i] + d <= x + d
    OBVIOUS
  <2>1. CASE i = n + 1
    BY <1>1, <2>1
  <2>2. CASE i \in 1..n
    <3>1. a[i] = s[i] /\ s[i] \in Nat /\ s[i] + d <= x
      BY <1>1, <1>2, <2>2 DEF n
    <3>2. QED
      BY <3>1
  <2>3. QED
    BY <1>1, <2>1, <2>2
<1>4. ASSUME NEW i \in 1..(n + 1), NEW j \in 1..(n + 1), i < j PROVE a[j] >= a[i] + d
  <2>1. i \in 1..n /\ a[i] = s[i] /\ s[i] \in Nat /\ s[i] + d <= x
    BY <1>1, <1>2, <1>4 DEF n
  <2>2. CASE j = n + 1
    BY <1>1, <2>1, <2>2
  <2>3. CASE j \in 1..n
    <3>1. a[j] = s[j] /\ s[j] >= s[i] + d
      BY <1>1, <1>4, <2>1, <2>3 DEF n
    <3>2. QED
      BY <2>1, <3>1
  <2>4. QED
    BY <1>1, <2>2, <2>3
<1>5. QED
  BY <1>1, <1>3, <1>4 DEF a

(* A new reservation comes after all others, and it is the thread's own.   *)
LEMMA ReserveIInv ==
  ASSUME IInv, TypeOK', NEW t \in Threads, Reserve(t)
  PROVE  IInv'
<1>0. /\ now \in Nat /\ nextRequestAt \in Nat /\ granted \in Seq(Nat)
      /\ MinInterval \in Nat /\ MaxLag \in Nat
  BY PacerAssumption DEF IInv, TypeOK
<1>1. /\ NextSlot \in Nat /\ NextSlot >= now /\ NextSlot >= nextRequestAt
      /\ nextRequestAt - now > 0 => NextSlot = nextRequestAt
      /\ ~(nextRequestAt - now > 0) => NextSlot = now
  BY <1>0 DEF NextSlot, Larger
<1>2. /\ Len(granted') = Len(granted) + 1
      /\ granted'[Len(granted) + 1] = NextSlot
      /\ \A i \in 1..Len(granted) : granted'[i] = granted[i]
      /\ ticket' = [ticket EXCEPT ![t] = Len(granted) + 1]
      /\ nextRequestAt' = NextSlot + MinInterval
  BY <1>0, <1>1, Appended DEF Reserve
<1>3. SlotsSpaced' /\ NextIsFree'
  <2>1. \A i \in 1..Len(granted) : granted[i] + MinInterval <= NextSlot
    <3> SUFFICES ASSUME NEW i \in 1..Len(granted) PROVE granted[i] + MinInterval <= NextSlot
      OBVIOUS
    <3>1. granted[i] \in Nat
      BY <1>0
    <3>2. granted[i] + MinInterval <= nextRequestAt
      BY DEF IInv, NextIsFree
    <3>3. QED
      BY <1>0, <1>1, <3>1, <3>2
  <2>2. \A i, j \in 1..Len(granted) : i < j => granted[j] >= granted[i] + MinInterval
    BY DEF IInv, SlotsSpaced
  <2>3. granted' = Append(granted, NextSlot)
    BY DEF Reserve
  <2>4. /\ \A i, j \in 1..Len(granted') : i < j => granted'[j] >= granted'[i] + MinInterval
        /\ \A i \in 1..Len(granted') : granted'[i] + MinInterval <= NextSlot + MinInterval
    BY <1>0, <1>1, <2>1, <2>2, <2>3, AppendSpaced
  <2>5. QED
    BY <1>2, <2>4 DEF SlotsSpaced, NextIsFree
<1>4. WaitsForSlot'
  <2> SUFFICES ASSUME NEW u \in Threads
               PROVE  LET g == granted'[ticket'[u]] IN
                        /\ pc'[u] = "reserved" => /\ wait'[u] > 0
                                                  /\ g <= now' + wait'[u]
                                                  /\ now' + wait'[u] <= g + MaxLag
                        /\ pc'[u] = "asleep" => g <= due'[u] /\ now' <= g + MaxLag
                        /\ pc'[u] = "woken" => g <= now' /\ now' <= g + MaxLag
    BY DEF WaitsForSlot
  <2>1. CASE u = t
    <3>1. /\ ticket'[t] = Len(granted) + 1 /\ wait'[t] = nextRequestAt - now /\ now' = now
          /\ pc'[t] = IF nextRequestAt - now > 0 THEN "reserved" ELSE "woken"
      BY DEF IInv, TypeOK, Reserve
    <3>2. granted'[ticket'[t]] = NextSlot
      BY <1>2, <3>1
    <3>3. QED
      BY <1>0, <1>1, <2>1, <3>1, <3>2
  <2>2. CASE u # t
    <3>1. pc'[u] \in Waiting => granted'[ticket'[u]] = granted[ticket[u]]
      <4>1. pc'[u] \in Waiting => ticket[u] \in 1..Len(granted)
        <5>1. TypeOK
          BY DEF IInv
        <5>2. pc' = [pc EXCEPT ![t] = pc'[t]]
          BY <5>1 DEF TypeOK, Reserve
        <5>3. pc'[u] = pc[u]
          BY <2>2, <5>1, <5>2 DEF TypeOK
        <5>4. ticket[u] \in Nat /\ ticket[u] <= Len(granted) /\ Len(granted) \in Nat
          BY <1>0, <5>1 DEF TypeOK
        <5>5. pc[u] \in Waiting => ticket[u] > 0
          BY <5>1 DEF TypeOK, Waiting
        <5>6. QED
          BY <5>3, <5>4, <5>5
      <4>2. ticket'[u] = ticket[u]
        BY <1>2, <2>2 DEF IInv, TypeOK
      <4>3. QED
        BY <1>2, <4>1, <4>2
    <3>2. pc'[u] = pc[u] /\ wait'[u] = wait[u] /\ due' = due /\ now' = now
      BY <2>2 DEF IInv, TypeOK, Reserve
    <3>3. QED
      BY <3>1, <3>2 DEF IInv, WaitsForSlot, Waiting
  <2>3. QED
    BY <2>1, <2>2
<1>5. StartsInSlot'
  <2>1. starts' = starts /\ StartsInSlot /\ \A s \in starts : s.n \in 1..Len(granted)
    BY <1>0 DEF IInv, TypeOK, Reserve
  <2>2. \A s \in starts : granted'[s.n] = granted[s.n]
    BY <1>2, <2>1
  <2>3. QED
    BY <2>1, <2>2 DEF StartsInSlot
<1>6. TicketsUnique'
  <2>1. \A u \in Threads : ticket[u] <= Len(granted)
    BY DEF IInv, TypeOK
  <2>2. \A s \in starts : s.n <= Len(granted) /\ s.n \in Nat
    BY DEF IInv, TypeOK
  <2>3. /\ starts' = starts /\ Len(granted) \in Nat /\ ticket \in [Threads -> Nat]
        /\ \A u \in Threads : u # t => pc'[u] = pc[u] /\ ticket'[u] = ticket[u]
        /\ ticket'[t] = Len(granted) + 1
    BY <1>0, <1>2 DEF IInv, TypeOK, Reserve
  <2>4. \A u \in Threads : ticket[u] \in Nat /\ ticket[u] # Len(granted) + 1
    BY <2>1, <2>3
  <2>5. \A s \in starts : s.n # Len(granted) + 1
    BY <2>2, <2>3
  <2>6. TicketsUnique
    BY DEF IInv
  <2>7. QED
    BY <2>3, <2>4, <2>5, <2>6 DEF TicketsUnique
<1>7. QED
  BY <1>3, <1>4, <1>5, <1>6 DEF IInv

(* A request starts inside its slot, and its slot is then used up. *)
LEMMA SendIInv ==
  ASSUME IInv, TypeOK', NEW t \in Threads, Send(t)
  PROVE  IInv'
<1> USE PacerAssumption DEF TypeOK, PCs
<1>1. pc[t] \in Waiting /\ ticket[t] > 0 /\ ticket[t] <= Len(granted)
  BY DEF IInv, Send, Waiting
<1>2. SlotsSpaced' /\ NextIsFree'
  BY DEF IInv, Send, SlotsSpaced, NextIsFree
<1>3. WaitsForSlot'
  <2>1. \A u \in Threads : pc'[u] \in Waiting => pc'[u] = pc[u] /\ due'[u] = due[u]
    <3>1. /\ pc \in [Threads -> PCs] /\ pc' = [pc EXCEPT ![t] = "sent"]
          /\ due \in [Threads -> Int] /\ due' = [due EXCEPT ![t] = now + RequestTimeout]
      BY DEF IInv, Send
    <3> HIDE DEF TypeOK, PCs
    <3>2. \A u \in Threads : pc'[u] = IF u = t THEN "sent" ELSE pc[u]
      BY <3>1
    <3>3. \A u \in Threads : u # t => due'[u] = due[u]
      BY <3>1
    <3>4. QED
      BY <3>2, <3>3 DEF Waiting
  <2>2. UNCHANGED <<granted, ticket, wait, now>> /\ WaitsForSlot
    BY DEF IInv, Send
  <2> HIDE DEF TypeOK, PCs
  <2>3. ASSUME NEW u \in Threads, pc'[u] \in Waiting
        PROVE  /\ pc'[u] = pc[u] /\ due'[u] = due[u] /\ wait'[u] = wait[u] /\ now' = now
               /\ granted'[ticket'[u]] = granted[ticket[u]]
    BY <2>1, <2>2, <2>3
  <2>4. QED
    BY <2>2, <2>3 DEF WaitsForSlot, Waiting
<1>4. granted[ticket[t]] <= now /\ now <= granted[ticket[t]] + MaxLag
  <2>1. granted[ticket[t]] \in Nat /\ now \in Nat /\ due[t] \in Int
    <3>1. granted \in Seq(Nat) /\ ticket[t] \in Nat /\ now \in Nat /\ due[t] \in Int
      BY DEF IInv
    <3> HIDE DEF TypeOK, PCs
    <3>2. QED
      BY <1>1, <3>1
  <2>2. pc[t] = "woken" \/ (pc[t] = "asleep" /\ now >= due[t])
    BY DEF Send
  <2>3. WaitsForSlot
    BY DEF IInv
  <2> HIDE DEF TypeOK, PCs
  <2>4. QED
    BY <2>1, <2>2, <2>3 DEF WaitsForSlot
<1>5. StartsInSlot'
  <2>1. /\ starts' = starts \cup {[n |-> ticket[t], at |-> now]} /\ granted' = granted
        /\ StartsInSlot
    BY DEF IInv, Send
  <2> HIDE DEF TypeOK, PCs
  <2>2. QED
    BY <1>4, <2>1 DEF StartsInSlot
<1>6. TicketsUnique'
  BY <1>1 DEF IInv, Send, TicketsUnique, Waiting
<1>7. QED
  BY <1>2, <1>3, <1>5, <1>6 DEF IInv

(* The clock does not pass the end of a slot somebody waits for. *)
LEMMA TickIInv ==
  ASSUME IInv, TypeOK', Tick
  PROVE  IInv'
<1>1. SlotsSpaced' /\ NextIsFree' /\ StartsInSlot' /\ TicketsUnique'
  BY DEF IInv, Tick, SlotsSpaced, NextIsFree, StartsInSlot, TicketsUnique
<1>2. ASSUME NEW t \in Threads
      PROVE  /\ pc[t] = "reserved" => now < granted[ticket[t]] + MaxLag - wait[t]
             /\ pc[t] \in {"asleep", "woken"} => now < granted[ticket[t]] + MaxLag
  <2>1. t \in Timed => now < Deadline(t)
    BY DEF Tick
  <2>2. CASE pc[t] = "reserved"
    BY <2>1, <2>2 DEF Timed, Deadline
  <2>3. CASE pc[t] \in {"asleep", "woken"}
    BY <2>1, <2>3 DEF Timed, Deadline
  <2>4. QED
    BY <2>2, <2>3
<1>3. ASSUME NEW t \in Threads, pc[t] \in Waiting
      PROVE  granted[ticket[t]] \in Nat
  <2>1. /\ granted \in Seq(Nat) /\ ticket[t] \in Nat /\ ticket[t] <= Len(granted) /\ ticket[t] > 0
    BY <1>3 DEF IInv, TypeOK, Waiting
  <2>2. QED
    BY <2>1
<1>4. WaitsForSlot'
  <2> SUFFICES ASSUME NEW t \in Threads
               PROVE  LET g == granted[ticket[t]] IN
                        /\ pc[t] = "reserved" => /\ wait[t] > 0
                                                 /\ g <= now + 1 + wait[t]
                                                 /\ now + 1 + wait[t] <= g + MaxLag
                        /\ pc[t] = "asleep" => g <= due[t] /\ now + 1 <= g + MaxLag
                        /\ pc[t] = "woken" => g <= now + 1 /\ now + 1 <= g + MaxLag
    BY DEF Tick, WaitsForSlot
  <2> DEFINE g == granted[ticket[t]]
  <2>1. now \in Nat /\ wait[t] \in Int /\ due[t] \in Int /\ MaxLag \in Nat
    BY PacerAssumption DEF IInv, TypeOK
  <2>2. pc[t] \in Waiting => g \in Nat
    BY <1>3
  <2>3. /\ pc[t] = "reserved" => wait[t] > 0 /\ g <= now + wait[t]
        /\ pc[t] = "asleep" => g <= due[t]
        /\ pc[t] = "woken" => g <= now
    BY DEF IInv, WaitsForSlot
  <2>4. /\ pc[t] = "reserved" => now < g + MaxLag - wait[t]
        /\ pc[t] \in {"asleep", "woken"} => now < g + MaxLag
    BY <1>2
  <2> HIDE DEF g
  <2>5. /\ pc[t] = "reserved" => /\ wait[t] > 0
                                 /\ g <= now + 1 + wait[t]
                                 /\ now + 1 + wait[t] <= g + MaxLag
        /\ pc[t] = "asleep" => g <= due[t] /\ now + 1 <= g + MaxLag
        /\ pc[t] = "woken" => g <= now + 1 /\ now + 1 <= g + MaxLag
    BY <2>1, <2>2, <2>3, <2>4 DEF Waiting
  <2>6. QED
    BY <2>5 DEF g
<1>5. QED
  BY <1>1, <1>4 DEF IInv

(* A step that reserves nothing, starts nothing and makes no thread wait.  *)
LEMMA QuietIInv ==
  ASSUME IInv, TypeOK',
         UNCHANGED <<now, nextRequestAt, wait, ticket, granted, starts>>,
         \A t \in Threads : pc'[t] \in Waiting => pc'[t] = pc[t] /\ due'[t] = due[t]
  PROVE  IInv'
<1>1. SlotsSpaced' /\ NextIsFree' /\ StartsInSlot'
  BY DEF IInv, SlotsSpaced, NextIsFree, StartsInSlot
<1>2. WaitsForSlot'
  BY DEF IInv, WaitsForSlot, Waiting
<1>3. TicketsUnique'
  BY DEF IInv, TicketsUnique
<1>4. QED
  BY <1>1, <1>2, <1>3 DEF IInv

LEMMA NextIInv == IInv /\ [Next]_vars => IInv'
<1> SUFFICES ASSUME IInv, [Next]_vars PROVE IInv'
  OBVIOUS
<1>0. TypeOK /\ TypeOK'
  BY NextTypeOK DEF IInv
<1> USE <1>0
<1>1. ASSUME NEW t \in Threads, NEW k \in Kinds, Call(t, k) PROVE IInv'
  BY <1>1, QuietIInv DEF Call, TypeOK, Waiting
<1>2. ASSUME NEW t \in Threads, Reserve(t) PROVE IInv'
  BY <1>2, ReserveIInv
<1>3. ASSUME NEW t \in Threads, Sleep(t) PROVE IInv'
  <2>0. /\ wait[t] \in Int /\ now \in Nat /\ MaxLag \in Nat
        /\ pc[t] = "reserved" /\ granted[ticket[t]] \in Nat
    BY <1>3, PacerAssumption DEF Sleep, TypeOK
  <2>1. WaitsForSlot'
    <3> SUFFICES ASSUME NEW u \in Threads
                 PROVE  LET g == granted[ticket[u]] IN
                          /\ pc'[u] = "reserved" => /\ wait[u] > 0
                                                    /\ g <= now + wait[u]
                                                    /\ now + wait[u] <= g + MaxLag
                          /\ pc'[u] = "asleep" => g <= due'[u] /\ now <= g + MaxLag
                          /\ pc'[u] = "woken" => g <= now /\ now <= g + MaxLag
      BY <1>3 DEF Sleep, WaitsForSlot
    <3>1. CASE u = t
      <4>1. pc'[u] = "asleep" /\ due'[u] = now + wait[u]
        BY <1>3, <3>1 DEF Sleep, TypeOK
      <4>2. QED
        BY <2>0, <3>1, <4>1 DEF IInv, WaitsForSlot
    <3>2. CASE u # t
      <4>1. pc'[u] = pc[u] /\ due'[u] = due[u]
        BY <1>3, <3>2 DEF Sleep, TypeOK
      <4>2. QED
        BY <4>1 DEF IInv, WaitsForSlot
    <3>3. QED
      BY <3>1, <3>2
  <2>2. TicketsUnique'
    BY <1>3 DEF IInv, Sleep, TicketsUnique, Waiting, TypeOK
  <2>3. SlotsSpaced' /\ NextIsFree' /\ StartsInSlot'
    BY <1>3 DEF IInv, Sleep, SlotsSpaced, NextIsFree, StartsInSlot
  <2>4. QED
    BY <2>1, <2>2, <2>3 DEF IInv
<1>4. ASSUME NEW t \in Threads, Send(t) PROVE IInv'
  BY <1>4, SendIInv
<1>5. ASSUME NEW t \in Threads, Answer(t) PROVE IInv'
  <2>1. UNCHANGED <<now, nextRequestAt, wait, ticket, granted, starts>>
    BY <1>5 DEF Answer, AnswerOk, AnswerNothing, AnswerError
  <2>2. \A u \in Threads : pc'[u] \in Waiting => pc'[u] = pc[u] /\ due'[u] = due[u]
    BY <1>5 DEF Answer, AnswerOk, AnswerNothing, AnswerError, Return, Waiting, TypeOK
  <2>3. QED
    BY <2>1, <2>2, QuietIInv
<1>6. ASSUME NEW t \in Threads, Retry(t) PROVE IInv'
  BY <1>6, QuietIInv DEF Retry, TypeOK, Waiting
<1>7. CASE Tick
  BY <1>7, TickIInv
<1>8. CASE UNCHANGED vars
  BY <1>8, QuietIInv DEF vars
<1>9. QED
  BY <1>1, <1>2, <1>3, <1>4, <1>5, <1>6, <1>7, <1>8 DEF Next, Step, Finished

(* Two requests of different slots are as far apart as the slots, less the *)
(* lateness of the first.                                                  *)
LEMMA IInvStartsApart == IInv => StartsApart
<1> SUFFICES ASSUME IInv, NEW r \in starts, NEW s \in starts, r # s
             PROVE  \/ s.at - r.at >= MinInterval - MaxLag
                    \/ r.at - s.at >= MinInterval - MaxLag
  BY DEF StartsApart
<1>1. /\ r.n \in 1..Len(granted) /\ s.n \in 1..Len(granted)
      /\ r.at \in Nat /\ s.at \in Nat
      /\ granted[r.n] \in Nat /\ granted[s.n] \in Nat
  BY DEF IInv, TypeOK
<1>2. r.n # s.n
  BY DEF IInv, TicketsUnique
<1>0. MinInterval \in Nat /\ MaxLag \in Nat
  BY PacerAssumption
<1> DEFINE a == granted[r.n]
           b == granted[s.n]
<1>a. a <= r.at /\ r.at <= a + MaxLag /\ b <= s.at /\ s.at <= b + MaxLag
  BY DEF IInv, StartsInSlot
<1>b. /\ r.n < s.n => b >= a + MinInterval
      /\ s.n < r.n => a >= b + MinInterval
  BY <1>1 DEF IInv, SlotsSpaced
<1>c. a \in Nat /\ b \in Nat /\ r.at \in Nat /\ s.at \in Nat /\ r.n \in Nat /\ s.n \in Nat
  BY <1>1
<1> HIDE DEF a, b
<1>3. CASE r.n < s.n
  BY <1>0, <1>a, <1>b, <1>c, <1>3
<1>4. CASE s.n < r.n
  BY <1>0, <1>a, <1>b, <1>c, <1>4
<1>5. QED
  BY <1>1, <1>2, <1>3, <1>4

-----------------------------------------------------------------------------
(* How far the queue of the slots reaches.  The slots that are ahead of    *)
(* the clock belong to threads that wait, one each, and follow each other  *)
(* without a gap.                                                          *)
Slot(t) == granted[ticket[t]]
Ahead == {t \in Threads : pc[t] \in Waiting /\ Slot(t) > now}
Behind(t) == {u \in Ahead : Slot(u) > Slot(t)}
QueueInv ==
  /\ nextRequestAt <= now + MinInterval * (Cardinality(Ahead) + 1)
  /\ \A t \in Ahead : nextRequestAt <= Slot(t) + MinInterval * (Cardinality(Behind(t)) + 1)
  /\ WaitBounded

LEMMA SomeThreads ==
  ASSUME NEW S, S \subseteq Threads
  PROVE  /\ IsFiniteSet(S) /\ Cardinality(S) \in Nat
         /\ Cardinality(S) <= Cardinality(Threads) /\ Cardinality(Threads) \in Nat
         /\ \A t \in Threads \ S : Cardinality(S \cup {t}) = Cardinality(S) + 1
  BY PacerAssumption, FS_Subset, FS_CardinalityType, FS_AddElement

LEMMA Intervals ==
  ASSUME NEW m \in Nat, NEW n \in Nat
  PROVE  /\ m * n \in Nat /\ m * (n + 1) = m * n + m
         /\ \A k \in Nat : k <= n => m * k <= m * n
  OBVIOUS

LEMMA SlotTypes ==
  ASSUME IInv, NEW t \in Threads, pc[t] \in Waiting
  PROVE  Slot(t) \in Nat /\ Slot(t) + MinInterval <= nextRequestAt /\ ticket[t] \in 1..Len(granted)
<1>1. granted \in Seq(Nat) /\ ticket[t] \in 1..Len(granted)
  BY DEF IInv, TypeOK, Waiting
<1>2. QED
  BY <1>1 DEF IInv, NextIsFree, Slot

(* A step that leaves the queue as it is. *)
LEMMA SameQueue ==
  ASSUME QueueInv, Ahead' = Ahead, \A t \in Ahead : Slot(t)' = Slot(t),
         UNCHANGED <<now, nextRequestAt, wait>>
  PROVE  QueueInv'
<1>1. \A t \in Ahead : Behind(t)' = Behind(t)
  BY DEF Behind
<1>2. QED
  BY <1>1 DEF QueueInv, WaitBounded

(* A reservation goes to the end of the queue. *)
LEMMA ReserveQueue == ASSUME IInv, TypeOK', QueueInv, NEW t \in Threads, Reserve(t) PROVE QueueInv'
<1>1. /\ TypeOK /\ now \in Nat /\ nextRequestAt \in Nat /\ MinInterval \in Nat /\ MinInterval > 0
      /\ granted \in Seq(Nat) /\ pc[t] = "loop"
  BY PacerAssumption DEF IInv, TypeOK, Reserve
<1>2. /\ NextSlot \in Nat
      /\ nextRequestAt > now => NextSlot = nextRequestAt
      /\ ~(nextRequestAt > now) => NextSlot = now
  BY <1>1 DEF NextSlot, Larger
<1>3. /\ nextRequestAt' = NextSlot + MinInterval /\ now' = now
      /\ pc'[t] \in Waiting /\ \A u \in Threads : u # t => pc'[u] = pc[u] /\ wait'[u] = wait[u]
      /\ wait'[t] = nextRequestAt - now
  BY <1>1 DEF Reserve, TypeOK, Waiting
<1>4. Slot(t)' = NextSlot /\ \A u \in Threads : u # t /\ pc[u] \in Waiting => Slot(u)' = Slot(u)
  <2>1. /\ Len(granted) \in Nat /\ granted'[Len(granted) + 1] = NextSlot
        /\ \A i \in 1..Len(granted) : granted'[i] = granted[i]
    BY <1>1, <1>2, Appended DEF Reserve
  <2>2. ticket'[t] = Len(granted) + 1 /\ \A u \in Threads : u # t => ticket'[u] = ticket[u]
    BY <1>1 DEF Reserve, TypeOK
  <2>3. QED
    BY <2>1, <2>2, SlotTypes DEF Slot
<1>5. t \notin Ahead /\ Ahead \subseteq Threads
  BY <1>1 DEF Ahead, Waiting
<1>6. /\ Cardinality(Ahead) \in Nat /\ Cardinality(Threads) \in Nat
      /\ Cardinality(Ahead) + 1 <= Cardinality(Threads)
      /\ Cardinality(Ahead \cup {t}) = Cardinality(Ahead) + 1
  <2>1. Ahead \cup {t} \subseteq Threads
    BY <1>5
  <2>2. QED
    BY <1>5, <2>1, SomeThreads
<1>7. wait'[t] <= Cardinality(Threads) * MinInterval
  <2>1. nextRequestAt <= now + MinInterval * (Cardinality(Ahead) + 1)
    BY DEF QueueInv
  <2>2. MinInterval * (Cardinality(Ahead) + 1) <= MinInterval * Cardinality(Threads)
    BY <1>1, <1>6, Intervals
  <2>3. QED
    BY <1>1, <1>3, <1>6, <2>1, <2>2
<1>8. WaitBounded'
  BY <1>3, <1>7 DEF QueueInv, WaitBounded
<1>9. CASE nextRequestAt > now
  <2>1. Ahead' = Ahead \cup {t}
    BY <1>1, <1>2, <1>3, <1>4, <1>5, <1>9 DEF Ahead
  <2>2. nextRequestAt' <= now' + MinInterval * (Cardinality(Ahead') + 1)
    <3>1. nextRequestAt <= now + MinInterval * (Cardinality(Ahead) + 1)
      BY DEF QueueInv
    <3>2. /\ MinInterval * (Cardinality(Ahead) + 1 + 1)
              = MinInterval * (Cardinality(Ahead) + 1) + MinInterval
          /\ MinInterval * (Cardinality(Ahead) + 1) \in Nat
      <4>1. Cardinality(Ahead) + 1 \in Nat
        BY <1>6
      <4>2. QED
        BY <1>1, <4>1, Intervals
    <3>3. QED
      BY <1>1, <1>2, <1>3, <1>6, <1>9, <2>1, <3>1, <3>2
  <2>3. ASSUME NEW u \in Ahead'
        PROVE  nextRequestAt' <= Slot(u)' + MinInterval * (Cardinality(Behind(u)') + 1)
    <3>1. CASE u = t
      <4>1. Behind(u)' \subseteq Threads
        BY <1>5, <2>1 DEF Behind
      <4>2. Cardinality(Behind(u)') \in Nat
        BY <4>1, SomeThreads
      <4>3. MinInterval * (Cardinality(Behind(u)') + 1) >= MinInterval
        BY <1>1, <4>2, Intervals
      <4>4. QED
        BY <1>1, <1>2, <1>3, <1>4, <3>1, <4>2, <4>3
    <3>2. CASE u # t
      <4>1. u \in Ahead /\ Slot(u)' = Slot(u) /\ Slot(u) \in Nat /\ Slot(u) + MinInterval <= nextRequestAt
        BY <1>4, <2>1, <2>3, <3>2, SlotTypes DEF Ahead
      <4>2. \A v \in Ahead : Slot(v)' = Slot(v)
        BY <1>4, <1>5 DEF Ahead
      <4>3. Slot(t)' > Slot(u)'
        BY <1>1, <1>2, <1>4, <1>9, <4>1
      <4>4. Behind(u)' = Behind(u) \cup {t} /\ Behind(u) \subseteq Threads /\ t \notin Behind(u)
        BY <1>5, <2>1, <4>1, <4>2, <4>3 DEF Behind
      <4>5. Cardinality(Behind(u)) \in Nat /\ Cardinality(Behind(u)') = Cardinality(Behind(u)) + 1
        BY <4>4, SomeThreads
      <4>6. nextRequestAt <= Slot(u) + MinInterval * (Cardinality(Behind(u)) + 1)
        BY <4>1 DEF QueueInv
      <4>7. /\ MinInterval * (Cardinality(Behind(u)) + 1 + 1)
                = MinInterval * (Cardinality(Behind(u)) + 1) + MinInterval
            /\ MinInterval * (Cardinality(Behind(u)) + 1) \in Nat
        <5>1. Cardinality(Behind(u)) + 1 \in Nat
          BY <4>5
        <5>2. QED
          BY <1>1, <5>1, Intervals
      <4>8. QED
        BY <1>1, <1>2, <1>3, <1>9, <4>1, <4>5, <4>6, <4>7
    <3>3. QED
      BY <3>1, <3>2
  <2>4. QED
    BY <1>8, <2>2, <2>3 DEF QueueInv
<1>10. CASE ~(nextRequestAt > now)
  <2>1. Ahead' = {}
    <3>1. \A u \in Threads : pc[u] \in Waiting => Slot(u) \in Nat /\ Slot(u) + MinInterval <= nextRequestAt
      BY SlotTypes
    <3>2. ASSUME NEW u \in Threads, pc'[u] \in Waiting PROVE ~(Slot(u)' > now')
      BY <1>1, <1>2, <1>3, <1>4, <1>10, <3>1, <3>2
    <3>3. QED
      BY <3>2 DEF Ahead
  <2>2. Cardinality(Ahead') = 0
    BY <2>1, FS_EmptySet
  <2>3. nextRequestAt' <= now' + MinInterval * (Cardinality(Ahead') + 1)
    BY <1>1, <1>2, <1>3, <1>10, <2>2
  <2>4. QED
    BY <1>8, <2>1, <2>3 DEF QueueInv
<1>11. QED
  BY <1>9, <1>10

(* The clock comes to one of the slots at a time. *)
LEMMA TickQueue == ASSUME IInv, QueueInv, Tick PROVE QueueInv'
<1>1. /\ now \in Nat /\ now' = now + 1 /\ nextRequestAt \in Nat /\ MinInterval \in Nat
      /\ UNCHANGED <<nextRequestAt, pc, wait, ticket, granted>>
  BY PacerAssumption DEF IInv, TypeOK, Tick
<1>2. \A t \in Threads : Slot(t)' = Slot(t)
  BY <1>1 DEF Slot
<1>3. \A t \in Ahead : Slot(t) \in Nat
  BY SlotTypes DEF Ahead
<1>4. Ahead' = {t \in Ahead : Slot(t) > now + 1} /\ Ahead \subseteq Threads
  <2>1. \A t \in Threads : pc[t] \in Waiting /\ Slot(t) > now + 1 => Slot(t) > now
    BY <1>1, SlotTypes
  <2>2. QED
    BY <1>1, <1>2, <2>1 DEF Ahead
<1>5. ASSUME NEW t \in Ahead' PROVE nextRequestAt' <= Slot(t)' + MinInterval * (Cardinality(Behind(t)') + 1)
  <2>1. t \in Ahead /\ Behind(t)' = Behind(t) /\ Slot(t)' = Slot(t)
    <3>1. t \in Ahead /\ Slot(t) > now + 1 /\ \A u \in Ahead : Slot(u) > Slot(t) => Slot(u) > now + 1
      BY <1>1, <1>3, <1>4, <1>5
    <3>2. QED
      BY <1>2, <1>4, <3>1 DEF Behind
  <2>2. QED
    BY <1>1, <2>1 DEF QueueInv
<1>6. nextRequestAt' <= now' + MinInterval * (Cardinality(Ahead') + 1)
  <2>1. CASE Ahead' = Ahead
    <3>1. Cardinality(Ahead) \in Nat
      BY <1>4, SomeThreads
    <3>2. MinInterval * (Cardinality(Ahead) + 1) \in Nat
      BY <1>1, <3>1, Intervals
    <3>3. QED
      BY <1>1, <2>1, <3>1, <3>2 DEF QueueInv
  <2>2. CASE Ahead' # Ahead
    <3>1. PICK t \in Ahead : ~(Slot(t) > now + 1)
      BY <1>4, <2>2
    <3>2. Slot(t) = now + 1
      BY <1>1, <1>3, <3>1 DEF Ahead
    <3>3. Behind(t) = Ahead'
      BY <1>4, <3>2 DEF Behind
    <3>4. QED
      BY <1>1, <3>2, <3>3 DEF QueueInv
  <2>3. QED
    BY <2>1, <2>2
<1>7. QED
  BY <1>1, <1>5, <1>6 DEF QueueInv, WaitBounded

(* Neither a thread that waits ahead of the clock leaves, nor does one come. *)
LEMMA SameWaiting ==
  ASSUME QueueInv, UNCHANGED <<now, nextRequestAt, wait, ticket, granted>>,
         \A t \in Threads : pc'[t] \in Waiting => pc[t] \in Waiting,
         \A t \in Ahead : pc'[t] \in Waiting
  PROVE  QueueInv'
<1>1. \A t \in Threads : Slot(t)' = Slot(t)
  BY DEF Slot
<1>2. Ahead' = Ahead
  BY <1>1 DEF Ahead
<1>3. QED
  BY <1>1, <1>2, SameQueue DEF Ahead

LEMMA NextQueue == IInv /\ QueueInv /\ [Next]_vars => QueueInv'
<1> SUFFICES ASSUME IInv, QueueInv, [Next]_vars PROVE QueueInv'
  OBVIOUS
<1>0. TypeOK /\ TypeOK'
  BY NextTypeOK DEF IInv
<1>1. ASSUME NEW t \in Threads, NEW k \in Kinds, Call(t, k) PROVE QueueInv'
  <2>1. /\ UNCHANGED <<now, nextRequestAt, wait, ticket, granted>> /\ pc[t] = "idle"
        /\ \A u \in Threads : pc'[u] = IF u = t THEN "loop" ELSE pc[u]
    BY <1>0, <1>1 DEF Call, TypeOK
  <2>2. QED
    BY <2>1, SameWaiting DEF Ahead, Waiting
<1>2. ASSUME NEW t \in Threads, Reserve(t) PROVE QueueInv'
  BY <1>0, <1>2, ReserveQueue
<1>3. ASSUME NEW t \in Threads, Sleep(t) PROVE QueueInv'
  <2>1. /\ UNCHANGED <<now, nextRequestAt, wait, ticket, granted>> /\ pc[t] = "reserved"
        /\ \A u \in Threads : pc'[u] = IF u = t THEN "asleep" ELSE pc[u]
    BY <1>0, <1>3 DEF Sleep, TypeOK
  <2>2. QED
    BY <2>1, SameWaiting DEF Ahead, Waiting
<1>4. ASSUME NEW t \in Threads, Send(t) PROVE QueueInv'
  <2>1. /\ UNCHANGED <<now, nextRequestAt, wait, ticket, granted>> /\ pc[t] \in Waiting
        /\ \A u \in Threads : pc'[u] = IF u = t THEN "sent" ELSE pc[u]
    BY <1>0, <1>4 DEF Send, TypeOK, Waiting
  <2>2. Slot(t) \in Nat /\ now \in Nat /\ due[t] \in Int
    BY <1>0, <2>1, SlotTypes DEF TypeOK
  <2>3. Slot(t) <= now
    BY <1>4, <2>2 DEF Send, IInv, WaitsForSlot, Slot
  <2>4. t \notin Ahead
    BY <2>2, <2>3 DEF Ahead
  <2>5. /\ \A u \in Threads : pc'[u] \in Waiting => pc[u] \in Waiting
        /\ \A u \in Ahead : pc'[u] \in Waiting
    BY <2>1, <2>4 DEF Ahead, Waiting
  <2>6. QED
    BY <2>1, <2>5, SameWaiting
<1>5. ASSUME NEW t \in Threads, Answer(t) PROVE QueueInv'
  <2>1. /\ UNCHANGED <<now, nextRequestAt, wait, ticket, granted>> /\ pc[t] = "sent"
        /\ \A u \in Threads : u # t => pc'[u] = pc[u]
        /\ pc'[t] \in {"idle", "backoff"}
    <3>1. UNCHANGED <<now, nextRequestAt, wait, ticket, granted>> /\ pc[t] = "sent"
      BY <1>5 DEF Answer, AnswerOk, AnswerNothing, AnswerError
    <3>2. pc' = [pc EXCEPT ![t] = "idle"] \/ pc' = [pc EXCEPT ![t] = "backoff"]
      BY <1>5 DEF Answer, AnswerOk, AnswerNothing, AnswerError, Return
    <3>3. QED
      BY <1>0, <3>1, <3>2 DEF TypeOK
  <2>2. /\ \A u \in Threads : pc'[u] \in Waiting => pc[u] \in Waiting
        /\ \A u \in Ahead : pc'[u] \in Waiting
    BY <2>1 DEF Ahead, Waiting
  <2>3. QED
    BY <2>1, <2>2, SameWaiting
<1>6. ASSUME NEW t \in Threads, Retry(t) PROVE QueueInv'
  <2>1. /\ UNCHANGED <<now, nextRequestAt, wait, ticket, granted>> /\ pc[t] = "backoff"
        /\ \A u \in Threads : pc'[u] = IF u = t THEN "loop" ELSE pc[u]
    BY <1>0, <1>6 DEF Retry, TypeOK
  <2>2. QED
    BY <2>1, SameWaiting DEF Ahead, Waiting
<1>7. CASE Tick
  BY <1>7, TickQueue
<1>8. CASE UNCHANGED vars
  BY <1>8, SameWaiting DEF vars, Ahead
<1>9. QED
  BY <1>1, <1>2, <1>3, <1>4, <1>5, <1>6, <1>7, <1>8 DEF Next, Step, Finished

LEMMA InitQueue == Init => QueueInv
<1> SUFFICES ASSUME Init PROVE QueueInv
  OBVIOUS
<1>1. Ahead = {}
  BY DEF Init, Ahead, Waiting
<1>2. Cardinality(Ahead) = 0 /\ Cardinality(Threads) \in Nat
  BY <1>1, FS_EmptySet, SomeThreads
<1>3. MinInterval \in Nat /\ Cardinality(Threads) * MinInterval \in Nat
  BY <1>2, PacerAssumption, Intervals
<1>4. QED
  BY <1>1, <1>2, <1>3 DEF Init, QueueInv, WaitBounded

(* wait_for_request_slot: no call sleeps for more intervals than there are *)
(* threads, however often they all fail and reserve again.                 *)
THEOREM WaitsAreBounded == Spec => []WaitBounded
<1>1. Init => IInv /\ QueueInv
  BY InitIInv, InitQueue
<1>2. IInv /\ QueueInv /\ [Next]_vars => (IInv /\ QueueInv)'
  BY NextIInv, NextQueue
<1>3. IInv /\ QueueInv => WaitBounded
  BY DEF QueueInv
<1>4. QED
  BY <1>1, <1>2, <1>3, PTL DEF Spec

(* wait_for_request_slot: whatever threads reserve slots in whatever order, *)
(* reservations are at least MIN_REQUEST_INTERVAL apart.                    *)
THEOREM SlotsAreSpaced == Spec => []SlotsSpaced
<1>1. IInv => SlotsSpaced
  BY DEF IInv
<1>2. QED
  BY <1>1, InitIInv, NextIInv, PTL DEF Spec

(* wait_for_request_slot: request starts are apart by the interval less the *)
(* lateness of a thread, and by the whole interval when threads are prompt. *)
THEOREM StartsAreApart == Spec => []StartsApart
<1>1. QED
  BY InitIInv, NextIInv, IInvStartsApart, PTL DEF Spec
=============================================================================
