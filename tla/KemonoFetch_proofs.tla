--------------------------- MODULE KemonoFetch_proofs ---------------------------
(***************************************************************************)
(* What _fetch_kemono returns, leaves behind and costs, for every file     *)
(* size, DOWNLOAD_MAX_ATTEMPTS and number of wipes of TEMP_DIR.            *)
(***************************************************************************)
EXTENDS KemonoFetch, TLAPS

Attempting == {"request", "body", "except"}

(* The temp file never outgrows the remote file, whose bytes it lines up   *)
(* with as long as it has not been wiped.                                  *)
Fits ==
  /\ Len(temp) <= Size
  /\ pc = "request" => Len(temp) <= resumeFrom
  /\ pc = "body" => Len(temp) <= pos

Intact ==
  wipes = 0 =>
    /\ \A i \in 1..Len(temp) : temp[i] = i
    /\ pc = "request" => Len(temp) = resumeFrom
    /\ pc = "body" => linked /\ exists /\ Len(temp) = pos
    /\ pc = "fetched" => Len(temp) = Size

(* A failure is still allowed while the loop goes on. *)
FailuresLeft == pc \notin Ended => failed < MaxAttempts

(* The budget: a counted failure pays for Size + 1 requests, a wipe for    *)
(* Size, and every byte of the temp file for one.                          *)
Spent(progress) == requests <= failed * (Size + 1) + progress + wipes * Size

Budget ==
  /\ pc = "loop" => Spent(Len(temp))
  /\ pc \in Attempting => Spent(resumeFrom + 1)
  /\ pc \in Ended => RequestsBounded

IInv == TypeOK /\ Fits /\ Intact /\ FailuresLeft /\ Budget /\ NoLeftover

-----------------------------------------------------------------------------
(* The multiplications of the budget, for solvers of linear arithmetic.    *)
LEMMA Products ==
  ASSUME NEW n \in Nat, NEW m \in Nat
  PROVE  /\ n * m \in Nat
         /\ (n + 1) * m = n * m + m
         /\ \A l \in Nat : n <= l => n * m <= l * m
<1>1. n * m \in Nat /\ (n + 1) * m = n * m + m
  OBVIOUS
<1>2. ASSUME NEW l \in Nat, n <= l PROVE n * m <= l * m
  <2>1. l - n \in Nat /\ l = n + (l - n)
    BY <1>2
  <2>2. l * m = n * m + (l - n) * m /\ (l - n) * m \in Nat
    BY <2>1
  <2>3. QED
    BY <1>1, <2>2
<1>3. QED
  BY <1>1, <1>2

(* os.remove(temp_path) leaves no file. *)
LEMMA Removed == RemoveTemp => exists' \in BOOLEAN /\ ~exists' /\ temp' = <<>> /\ Len(temp') = 0
<1> SUFFICES ASSUME RemoveTemp PROVE exists' \in BOOLEAN /\ ~exists' /\ temp' = <<>> /\ Len(temp') = 0
  OBVIOUS
<1>1. exists' = FALSE /\ temp' = <<>>
  BY DEF RemoveTemp
<1>2. exists' \in BOOLEAN /\ ~exists'
  BY <1>1, Zenon
<1>3. QED
  BY <1>1, <1>2

LEMMA InitIInv == Init => IInv
<1> SUFFICES ASSUME Init PROVE IInv
  OBVIOUS
<1>1. Size \in Nat /\ MaxAttempts \in Nat \ {0} /\ MaxWipes \in Nat
  BY FetchAssumption
<1>2. TypeOK /\ FailuresLeft
  <2>1. exists = FALSE /\ linked = FALSE
    BY DEF Init
  <2>2. exists \in BOOLEAN /\ linked \in BOOLEAN /\ ~exists /\ ~linked
    BY <2>1, Zenon
  <2>3. QED
    BY <1>1, <2>2 DEF Init, TypeOK, FailuresLeft, Ended, Failures
<1>3. Fits /\ Intact /\ NoLeftover
  BY <1>1 DEF Init, Fits, Intact, NoLeftover, Failures
<1>4. Budget
  BY <1>1, Products DEF Init, Budget, Spent, Attempting, Ended, Failures
<1>5. QED
  BY <1>2, <1>3, <1>4 DEF IInv

(* f.write(chunk) puts the next byte at the end of the temp file. *)
LEMMA Written ==
  ASSUME NEW s \in Seq(1..Size), NEW b \in 1..Size
  PROVE  /\ Append(s, b) \in Seq(1..Size)
         /\ Len(Append(s, b)) = Len(s) + 1
         /\ \A i \in 1..Len(s) : Append(s, b)[i] = s[i]
         /\ Append(s, b)[Len(s) + 1] = b
  OBVIOUS

(* A chunk is written to the temp file, or to a file that is gone. *)
LEMMA ChunkWritten ==
  ASSUME TypeOK, Chunk
  PROVE  /\ pos + 1 \in 1..Size
         /\ (~linked /\ temp' = temp) \/ (linked /\ exists /\ temp' = Append(temp, pos + 1))
<1>1. pos + 1 \in 1..Size
  BY FetchAssumption DEF TypeOK, Chunk
<1>2. linked => exists
  BY DEF TypeOK
<1>3. temp' = IF linked THEN Append(temp, pos + 1) ELSE temp
  BY DEF Chunk
<1>4. QED
  BY <1>1, <1>2, <1>3, Zenon

(* Every step keeps the variables in their types. *)
LEMMA NextTypeOK == TypeOK /\ Fits /\ FailuresLeft /\ [Next]_vars => TypeOK'
<1> SUFFICES ASSUME TypeOK, Fits, FailuresLeft, [Next]_vars PROVE TypeOK'
  OBVIOUS
<1>0. Size \in Nat /\ Size > 0 /\ MaxAttempts \in Nat /\ MaxWipes \in Nat
  BY FetchAssumption
<1> USE <1>0 DEF TypeOK, Ended, Failures
<1>1. CASE Attempt
  <2>1. Len(temp) \in 0..Size
    BY DEF Fits
  <2>2. QED
    BY <1>1, <2>1 DEF Attempt
<1>2. CASE Partial
  BY <1>2 DEF Partial
<1>3. CASE Full
  BY <1>3 DEF Full
<1>4. CASE Chunk
  <2>1. temp' \in Seq(1..Size) /\ (~exists => temp' = <<>>)
    <3>1. CASE ~linked /\ temp' = temp
      BY <3>1
    <3>2. CASE linked /\ exists /\ temp' = Append(temp, pos + 1)
      BY <1>4, <3>2, ChunkWritten, Written
    <3>3. QED
      BY <1>4, <3>1, <3>2, ChunkWritten
  <2>2. UNCHANGED <<pc, exists, linked, resumeFrom, error, failed, requests, wipes>>
    BY <1>4 DEF Chunk
  <2>3. pos' \in 0..Size
    BY <1>4 DEF Chunk
  <2>4. QED
    BY <2>1, <2>2, <2>3
<1>5. CASE EndOfBody
  BY <1>5 DEF EndOfBody
<1>6. CASE Interrupt
  BY <1>6 DEF Interrupt
<1>7. ASSUME NEW e \in {"404", "403", "416", "other"}, Reject(e) PROVE TypeOK'
  BY <1>7 DEF Reject
<1>8. CASE GiveUp
  BY <1>8, Removed DEF GiveUp
<1>9. CASE Unsatisfiable
  BY <1>9, Removed DEF Unsatisfiable, CountFailure, FailuresLeft
<1>10. CASE Resume
  BY <1>10 DEF Resume
<1>11. CASE NoProgress
  <2>1. exists' \in BOOLEAN /\ temp' \in Seq(1..Size) /\ (~exists' => temp' = <<>>)
    <3>1. CASE UNCHANGED <<exists, temp>>
      BY <3>1
    <3>2. CASE RemoveTemp
      BY <3>2, Removed
    <3>3. QED
      BY <1>11, <3>1, <3>2 DEF NoProgress
  <2>2. UNCHANGED <<linked, resumeFrom, pos, error, requests, wipes>>
    BY <1>11 DEF NoProgress
  <2>3. ~linked
    BY <1>11 DEF NoProgress
  <2>4. failed' \in 0..MaxAttempts /\ pc' \in Ended \cup {"loop", "request", "body", "except"}
    BY <1>11 DEF NoProgress, CountFailure, FailuresLeft
  <2>5. QED
    BY <2>1, <2>2, <2>3, <2>4
<1>12. CASE Wipe
  <2>1. linked' \in BOOLEAN /\ ~linked'
    <3>1. linked' = FALSE
      BY <1>12 DEF Wipe
    <3>2. QED
      BY <3>1, Zenon
  <2>2. QED
    BY <1>12, <2>1, Removed DEF Wipe
<1>13. CASE UNCHANGED vars
  BY <1>13 DEF vars
<1>14. QED
  BY <1>1, <1>2, <1>3, <1>4, <1>5, <1>6, <1>7, <1>8, <1>9, <1>10, <1>11, <1>12, <1>13
     DEF Next, Fetch, Finished

-----------------------------------------------------------------------------
(* What is in the temp file stays in line with the remote file. *)
LEMMA NextFitsIntact ==
  ASSUME IInv, TypeOK', [Next]_vars
  PROVE  Fits' /\ Intact'
<1>0. Size \in Nat /\ Size > 0 /\ MaxAttempts \in Nat /\ MaxWipes \in Nat
  BY FetchAssumption
<1>1. /\ temp \in Seq(1..Size) /\ temp' \in Seq(1..Size)
      /\ resumeFrom \in 0..Size /\ pos \in 0..Size /\ wipes \in Nat /\ Len(temp) \in Nat
  BY DEF IInv, TypeOK
<1>2. Fits /\ Intact
  BY DEF IInv
<1> USE <1>0, <1>1, <1>2 DEF Ended, Failures
<1>3. CASE Attempt
  BY <1>3 DEF Attempt, Fits, Intact
<1>4. CASE Partial
  <2>1. linked' /\ exists'
    <3>1. linked' = TRUE /\ exists' = TRUE
      BY <1>4 DEF Partial
    <3>2. QED
      BY <3>1, Zenon
  <2>2. QED
    BY <1>4, <2>1 DEF Partial, Fits, Intact
<1>5. CASE Full
  <2>1. linked' /\ exists'
    <3>1. linked' = TRUE /\ exists' = TRUE
      BY <1>5 DEF Full
    <3>2. QED
      BY <3>1, Zenon
  <2>2. QED
    BY <1>5, <2>1 DEF Full, Fits, Intact
<1>6. CASE Chunk
  <2>1. pos + 1 \in 1..Size /\ UNCHANGED <<pc, exists, linked, wipes>> /\ pos' = pos + 1 /\ pc = "body"
    BY <1>6, ChunkWritten DEF Chunk, IInv
  <2>2. CASE ~linked /\ temp' = temp
    BY <2>1, <2>2 DEF Fits, Intact
  <2>3. CASE linked /\ exists /\ temp' = Append(temp, pos + 1)
    <3>1. Len(temp') = Len(temp) + 1 /\ temp'[Len(temp) + 1] = pos + 1
      BY <2>1, <2>3, Written
    <3>2. \A i \in 1..Len(temp) : temp'[i] = temp[i]
      BY <2>1, <2>3, Written
    <3>3. Fits'
      BY <2>1, <3>1 DEF Fits
    <3>4. ASSUME wipes = 0 PROVE Len(temp) = pos /\ \A i \in 1..Len(temp') : temp'[i] = i
      <4>1. Len(temp) = pos /\ \A i \in 1..Len(temp) : temp[i] = i
        BY <2>1, <3>4 DEF Intact
      <4>2. QED
        BY <3>1, <3>2, <4>1
    <3>5. Intact'
      BY <2>1, <2>3, <3>1, <3>4 DEF Intact
    <3>6. QED
      BY <3>3, <3>5
  <2>4. QED
    BY <1>6, <2>2, <2>3, ChunkWritten DEF IInv
<1>7. CASE EndOfBody
  BY <1>7 DEF EndOfBody, Fits, Intact
<1>8. CASE Interrupt
  BY <1>8 DEF Interrupt, Fits, Intact
<1>9. ASSUME NEW e \in {"404", "403", "416", "other"}, Reject(e) PROVE Fits' /\ Intact'
  BY <1>9 DEF Reject, Fits, Intact
<1>10. CASE GiveUp
  BY <1>10, Removed DEF GiveUp, Fits, Intact
<1>11. CASE Unsatisfiable
  BY <1>11, Removed DEF Unsatisfiable, CountFailure, Fits, Intact
<1>12. CASE Resume
  BY <1>12 DEF Resume, Fits, Intact
<1>13. CASE NoProgress
  <2>1. UNCHANGED temp \/ temp' = <<>>
    BY <1>13, Removed DEF NoProgress
  <2>2. pc' \in {"loop", "timeout"} /\ UNCHANGED wipes
    BY <1>13 DEF NoProgress, CountFailure
  <2>3. QED
    BY <2>1, <2>2 DEF Fits, Intact
<1>14. CASE Wipe
  <2>1. wipes' = wipes + 1 /\ Len(temp') = 0 /\ UNCHANGED <<pc, resumeFrom, pos>>
    BY <1>14, Removed DEF Wipe
  <2>2. QED
    BY <2>1 DEF Fits, Intact
<1>15. CASE UNCHANGED vars
  BY <1>15 DEF vars, Fits, Intact
<1>16. QED
  BY <1>3, <1>4, <1>5, <1>6, <1>7, <1>8, <1>9, <1>10, <1>11, <1>12, <1>13, <1>14, <1>15
     DEF Next, Fetch, Finished

(* A wiped or removed temp file, and a failure that ends the download.     *)
LEMMA NextLeavesNothing ==
  ASSUME IInv, [Next]_vars
  PROVE  NoLeftover' /\ FailuresLeft'
<1>1. NoLeftover /\ FailuresLeft /\ TypeOK
  BY DEF IInv
<1>2. failed \in Nat /\ MaxAttempts \in Nat
  BY <1>1, FetchAssumption DEF TypeOK
<1> USE <1>2 DEF Ended, Failures
<1>3. CASE Attempt \/ Partial \/ Full \/ Chunk \/ EndOfBody \/ Interrupt \/ Resume
  BY <1>1, <1>3
     DEF Attempt, Partial, Full, Chunk, EndOfBody, Interrupt, Resume, NoLeftover, FailuresLeft
<1>4. ASSUME NEW e \in {"404", "403", "416", "other"}, Reject(e) PROVE NoLeftover' /\ FailuresLeft'
  BY <1>1, <1>4 DEF Reject, NoLeftover, FailuresLeft
<1>5. CASE GiveUp
  BY <1>1, <1>5, Removed DEF GiveUp, NoLeftover, FailuresLeft
<1>6. CASE Unsatisfiable
  BY <1>1, <1>6, Removed DEF Unsatisfiable, CountFailure, NoLeftover, FailuresLeft
<1>7. CASE NoProgress
  <2>1. \/ pc' = "loop" /\ failed' = failed + 1 /\ failed + 1 < MaxAttempts
        \/ pc' = "timeout" /\ RemoveTemp
    BY <1>7 DEF NoProgress, CountFailure
  <2>2. QED
    BY <2>1, Removed DEF NoLeftover, FailuresLeft
<1>8. CASE Wipe
  BY <1>1, <1>8, Removed DEF Wipe, NoLeftover, FailuresLeft
<1>9. CASE UNCHANGED vars
  BY <1>1, <1>9 DEF vars, NoLeftover, FailuresLeft
<1>10. QED
  BY <1>3, <1>4, <1>5, <1>6, <1>7, <1>8, <1>9 DEF Next, Fetch, Finished

-----------------------------------------------------------------------------
(* What the counted failures and the wipes pay for is a number of requests. *)
LEMMA Allowances ==
  ASSUME TypeOK
  PROVE  /\ failed * (Size + 1) \in Nat /\ MaxAttempts * (Size + 1) \in Nat
         /\ wipes * Size \in Nat
         /\ (failed + 1) * (Size + 1) = failed * (Size + 1) + (Size + 1)
         /\ (wipes + 1) * Size = wipes * Size + Size
         /\ failed < MaxAttempts =>
              failed * (Size + 1) + (Size + 1) <= MaxAttempts * (Size + 1)
<1>1. /\ failed \in Nat /\ wipes \in Nat /\ MaxAttempts \in Nat /\ Size \in Nat
      /\ Size + 1 \in Nat /\ failed + 1 \in Nat
  BY FetchAssumption DEF TypeOK
<1>2. failed < MaxAttempts => failed + 1 <= MaxAttempts
  BY <1>1
<1>3. failed * (Size + 1) \in Nat /\ MaxAttempts * (Size + 1) \in Nat /\ wipes * Size \in Nat
  BY <1>1, Products
<1>4. (failed + 1) * (Size + 1) = failed * (Size + 1) + (Size + 1)
  BY <1>1, Products
<1>5. (wipes + 1) * Size = wipes * Size + Size
  BY <1>1, Products
<1>6. failed < MaxAttempts => (failed + 1) * (Size + 1) <= MaxAttempts * (Size + 1)
  BY <1>1, <1>2, Products
<1>7. QED
  BY <1>3, <1>4, <1>5, <1>6

(* An attempt that does not get further, or fails for good, is paid for by *)
(* the failure it counts or by the attempts that are left.                 *)
LEMMA AttemptPaid ==
  ASSUME IInv, pc \in Attempting
  PROVE  /\ RequestsBounded
         /\ requests <= (failed + 1) * (Size + 1) + wipes * Size
<1>1. requests <= failed * (Size + 1) + (resumeFrom + 1) + wipes * Size /\ failed < MaxAttempts
  BY DEF IInv, Budget, Spent, FailuresLeft, Attempting, Ended, Failures
<1>2. resumeFrom \in 0..Size /\ requests \in Nat /\ Size \in Nat
  BY FetchAssumption DEF IInv, TypeOK
<1>3. TypeOK
  BY DEF IInv
<1> DEFINE F == failed * (Size + 1)
           F1 == (failed + 1) * (Size + 1)
           M == MaxAttempts * (Size + 1)
           W == wipes * Size
<1>4. F \in Nat /\ M \in Nat /\ W \in Nat /\ F1 = F + (Size + 1) /\ F + (Size + 1) <= M
  BY <1>1, <1>3, Allowances
<1>5. requests <= F + (resumeFrom + 1) + W
  BY <1>1
<1> HIDE DEF F, F1, M, W
<1>6. requests <= F1 + W /\ requests <= M + W
  BY <1>2, <1>4, <1>5
<1>7. QED
  BY <1>6 DEF F1, M, W, RequestsBounded

(* One failure more is counted: the loop goes on with the failure's budget, *)
(* or has ended within the total.                                           *)
LEMMA CountedPaid ==
  ASSUME IInv, TypeOK', pc = "except", CountFailure, UNCHANGED <<requests, wipes>>
  PROVE  Budget'
<1>1. /\ RequestsBounded
      /\ requests <= (failed + 1) * (Size + 1) + wipes * Size
  BY AttemptPaid DEF Attempting
<1>2. failed' = failed + 1 /\ pc' \in {"loop", "timeout"}
  BY DEF CountFailure
<1>3. requests' <= failed' * (Size + 1) + wipes' * Size /\ RequestsBounded'
  BY <1>1, <1>2 DEF RequestsBounded
<1>4. /\ failed' * (Size + 1) \in Nat /\ wipes' * Size \in Nat /\ Len(temp') \in Nat
      /\ requests' \in Nat
  <2>1. failed' \in Nat /\ wipes' \in Nat /\ Size \in Nat /\ Size + 1 \in Nat
    BY FetchAssumption DEF TypeOK
  <2>2. requests' \in Nat /\ Len(temp') \in Nat
    BY DEF TypeOK
  <2>3. QED
    BY <2>1, <2>2, Products
<1> DEFINE F == failed' * (Size + 1)
           W == wipes' * Size
<1>5. requests' <= F + W /\ F \in Nat /\ W \in Nat
  BY <1>3, <1>4
<1> HIDE DEF F, W
<1>6. requests' <= F + Len(temp') + W
  BY <1>4, <1>5
<1>7. QED
  BY <1>2, <1>3, <1>6 DEF F, W, Budget, Spent, Attempting, Ended, Failures

(* Every request is paid for. *)
LEMMA NextBudget ==
  ASSUME IInv, TypeOK', [Next]_vars
  PROVE  Budget'
<1>1. /\ resumeFrom \in 0..Size /\ requests \in Nat /\ Size \in Nat /\ Len(temp) \in Nat
      /\ Len(temp) <= Size
  BY FetchAssumption DEF IInv, TypeOK, Fits
<1>2. TypeOK /\ Budget
  BY DEF IInv
<1>3. ASSUME pc \in Attempting, pc' \in Attempting \cup Ended,
             UNCHANGED <<requests, resumeFrom, failed, wipes>>
      PROVE  Budget'
  <2>1. RequestsBounded
    BY <1>3, AttemptPaid
  <2>2. RequestsBounded'
    BY <1>3, <2>1 DEF RequestsBounded
  <2>3. Spent(resumeFrom + 1)
    BY <1>2, <1>3 DEF Budget
  <2>4. Spent(resumeFrom + 1)'
    BY <1>3, <2>3 DEF Spent
  <2>5. QED
    BY <1>3, <2>2, <2>4 DEF Budget, Attempting, Ended, Failures
<1>4. CASE Attempt
  <2>1. requests <= failed * (Size + 1) + Len(temp) + wipes * Size
    BY <1>2, <1>4 DEF Attempt, Budget, Spent
  <2> DEFINE F == failed * (Size + 1)
             W == wipes * Size
  <2>2. requests <= F + Len(temp) + W /\ F \in Nat /\ W \in Nat
    BY <1>2, <2>1, Allowances
  <2> HIDE DEF F, W
  <2>3. requests + 1 <= F + (Len(temp) + 1) + W
    BY <1>1, <2>2
  <2>4. requests + 1 <= failed * (Size + 1) + (Len(temp) + 1) + wipes * Size
    BY <2>3 DEF F, W
  <2>5. /\ requests' = requests + 1 /\ resumeFrom' = Len(temp) /\ pc' = "request"
        /\ UNCHANGED <<failed, wipes>>
    BY <1>4 DEF Attempt
  <2>6. QED
    BY <2>4, <2>5 DEF Budget, Spent, Attempting, Ended, Failures
<1>5. CASE Partial \/ Full \/ Chunk \/ EndOfBody \/ Interrupt
  BY <1>3, <1>5 DEF Partial, Full, Chunk, EndOfBody, Interrupt, Attempting, Ended
<1>6. ASSUME NEW e \in {"404", "403", "416", "other"}, Reject(e) PROVE Budget'
  BY <1>3, <1>6 DEF Reject, Attempting
<1>7. CASE GiveUp
  BY <1>3, <1>7 DEF GiveUp, Attempting, Ended, Failures
<1>8. CASE Unsatisfiable
  <2>1. CASE pc' = "raised" /\ UNCHANGED failed
    BY <1>3, <1>8, <2>1 DEF Unsatisfiable, Attempting, Ended, Failures
  <2>2. CASE CountFailure
    BY <1>8, <2>2, CountedPaid DEF Unsatisfiable
  <2>3. QED
    BY <1>8, <2>1, <2>2 DEF Unsatisfiable
<1>9. CASE Resume
  <2>1. requests <= failed * (Size + 1) + (resumeFrom + 1) + wipes * Size
    BY <1>2, <1>9 DEF Resume, Budget, Spent, Attempting
  <2>2. resumeFrom + 1 <= Len(temp)
    BY <1>1, <1>9 DEF Resume, GotFurther
  <2> DEFINE F == failed * (Size + 1)
             W == wipes * Size
  <2>3. requests <= F + (resumeFrom + 1) + W /\ F \in Nat /\ W \in Nat
    BY <1>2, <2>1, Allowances
  <2> HIDE DEF F, W
  <2>4. requests <= F + Len(temp) + W
    BY <1>1, <2>2, <2>3
  <2>5. requests <= failed * (Size + 1) + Len(temp) + wipes * Size
    BY <2>4 DEF F, W
  <2>6. QED
    BY <1>9, <2>5 DEF Resume, Budget, Spent, Attempting, Ended, Failures
<1>10. CASE NoProgress
  BY <1>10, CountedPaid DEF NoProgress
<1>11. CASE Wipe
  <2>1. /\ wipes' = wipes + 1 /\ Len(temp') = 0
        /\ UNCHANGED <<pc, resumeFrom, requests, failed>> /\ pc \notin Ended
    BY <1>11, Removed DEF Wipe
  <2> DEFINE F == failed * (Size + 1)
             W == wipes * Size
             W1 == (wipes + 1) * Size
  <2>2. F \in Nat /\ W \in Nat /\ W1 = W + Size
    BY <1>2, Allowances
  <2>3. /\ pc = "loop" => requests <= F + Len(temp) + W
        /\ pc \in Attempting => requests <= F + (resumeFrom + 1) + W
    BY <1>2 DEF Budget, Spent
  <2> HIDE DEF F, W, W1
  <2>4. /\ pc = "loop" => requests <= F + 0 + W1
        /\ pc \in Attempting => requests <= F + (resumeFrom + 1) + W1
    BY <1>1, <2>2, <2>3
  <2>5. /\ pc = "loop" => requests <= failed * (Size + 1) + 0 + (wipes + 1) * Size
        /\ pc \in Attempting =>
             requests <= failed * (Size + 1) + (resumeFrom + 1) + (wipes + 1) * Size
    BY <2>4 DEF F, W1
  <2>6. QED
    BY <2>1, <2>5 DEF Budget, Spent
<1>12. CASE UNCHANGED vars
  BY <1>2, <1>12 DEF vars, Budget, Spent, RequestsBounded
<1>13. QED
  BY <1>4, <1>5, <1>6, <1>7, <1>8, <1>9, <1>10, <1>11, <1>12 DEF Next, Fetch, Finished

LEMMA NextIInv == IInv /\ [Next]_vars => IInv'
<1> SUFFICES ASSUME IInv, [Next]_vars PROVE IInv'
  OBVIOUS
<1>1. TypeOK'
  BY NextTypeOK DEF IInv
<1>2. Fits' /\ Intact'
  BY <1>1, NextFitsIntact
<1>3. NoLeftover' /\ FailuresLeft'
  BY NextLeavesNothing
<1>4. Budget'
  BY <1>1, NextBudget
<1>5. QED
  BY <1>1, <1>2, <1>3, <1>4 DEF IInv

(* A temp file in line with the remote file, and as long, is the whole file. *)
LEMMA IInvWhole == IInv => WholeUnlessWiped
<1> SUFFICES ASSUME IInv, pc = "fetched", wipes = 0 PROVE temp = Whole
  BY DEF WholeUnlessWiped
<1>1. Len(temp) = Size /\ \A i \in 1..Len(temp) : temp[i] = i
  BY DEF IInv, Intact
<1>2. temp \in Seq(1..Size)
  BY DEF IInv, TypeOK
<1>3. temp = [i \in 1..Len(temp) |-> temp[i]]
  BY <1>2
<1>4. QED
  BY <1>1, <1>3 DEF Whole

(* The budget, added up. *)
LEMMA IInvBounded == IInv => RequestsBounded
<1> SUFFICES ASSUME IInv PROVE RequestsBounded
  OBVIOUS
<1>1. CASE pc \in Attempting
  BY <1>1, AttemptPaid
<1>2. CASE pc \in Ended
  BY <1>2 DEF IInv, Budget
<1>3. CASE pc = "loop"
  <2>1. requests <= failed * (Size + 1) + Len(temp) + wipes * Size /\ failed < MaxAttempts
    BY <1>3 DEF IInv, Budget, Spent, FailuresLeft, Ended, Failures
  <2>2. Len(temp) \in Nat /\ Len(temp) <= Size /\ requests \in Nat /\ Size \in Nat
    BY FetchAssumption DEF IInv, TypeOK, Fits
  <2>3. TypeOK
    BY DEF IInv
  <2> DEFINE F == failed * (Size + 1)
             M == MaxAttempts * (Size + 1)
             W == wipes * Size
  <2>4. F \in Nat /\ M \in Nat /\ W \in Nat /\ F + (Size + 1) <= M
    BY <2>1, <2>3, Allowances
  <2>5. requests <= F + Len(temp) + W
    BY <2>1
  <2> HIDE DEF F, M, W
  <2>6. requests <= M + W
    BY <2>2, <2>4, <2>5
  <2>7. QED
    BY <2>6 DEF M, W, RequestsBounded
<1>4. QED
  BY <1>1, <1>2, <1>3 DEF IInv, TypeOK, Attempting

-----------------------------------------------------------------------------
(* The state of _fetch_kemono is always well-typed. *)
THEOREM TypeCorrect == Spec => []TypeOK
<1>1. IInv => TypeOK
  BY DEF IInv
<1>2. QED
  BY InitIInv, NextIInv, <1>1, PTL DEF Spec

(* _fetch_kemono: however the attempts break, resume and start over, the   *)
(* file it returns is the whole remote file unless TEMP_DIR was wiped.     *)
THEOREM FetchIsWhole == Spec => []WholeUnlessWiped
<1>1. QED
  BY InitIInv, NextIInv, IInvWhole, PTL DEF Spec

(* _fetch_kemono never fails with a partial file left at temp_path. *)
THEOREM LeavesNothingBehind == Spec => []NoLeftover
<1>1. IInv => NoLeftover
  BY DEF IInv
<1>2. QED
  BY InitIInv, NextIInv, <1>1, PTL DEF Spec

(* The attempts that do not count (file.py:172) cost a number of requests  *)
(* that the size of the file bounds, for every DOWNLOAD_MAX_ATTEMPTS.      *)
THEOREM RequestsAreBounded == Spec => []RequestsBounded
<1>1. QED
  BY InitIInv, NextIInv, IInvBounded, PTL DEF Spec

-----------------------------------------------------------------------------
(* The refinement of FileTransfer. *)

(* A step of _fetch_kemono, as far as its caller can tell. *)
LEMMA FetchFrame ==
  ASSUME Fetch
  PROVE  pc \notin Ended /\ wipes' = wipes /\ (pc' = "fetched" => exists')
<1> USE DEF Ended, Failures
<1>1. CASE Attempt \/ Partial \/ Full \/ Chunk
  BY <1>1 DEF Attempt, Partial, Full, Chunk
<1>2. CASE EndOfBody \/ Interrupt
  BY <1>2 DEF EndOfBody, Interrupt
<1>3. CASE \E e \in {"404", "403", "416", "other"} : Reject(e)
  BY <1>3 DEF Reject
<1>4. CASE GiveUp \/ Resume
  BY <1>4 DEF GiveUp, Resume
<1>5. CASE Unsatisfiable \/ NoProgress
  BY <1>5 DEF Unsatisfiable, NoProgress, CountFailure
<1>6. QED
  BY <1>1, <1>2, <1>3, <1>4, <1>5 DEF Fetch

(* The caller sees nothing of a step that does not end the fetch. *)
LEMMA Unseen ==
  ASSUME pc \notin Ended, pc' \notin Ended, (wipes > 0) = (wipes' > 0)
  PROVE  UNCHANGED Transfer!tvars
<1>1. (IF pc \in Ended THEN pc ELSE "none")' = IF pc \in Ended THEN pc ELSE "none"
  OBVIOUS
<1>2. (IF pc \in Ended THEN [exists |-> exists, holds |-> temp] ELSE Absent)'
       = IF pc \in Ended THEN [exists |-> exists, holds |-> temp] ELSE Absent
  BY DEF Absent
<1>3. QED
  BY <1>1, <1>2 DEF Transfer!tvars

LEMMA InitTransfer == Init => Transfer!Init
<1> SUFFICES ASSUME Init PROVE Transfer!Init
  OBVIOUS
<1>1. pc \notin Ended
  BY DEF Init, Ended, Failures
<1>2. (wipes > 0) = FALSE
  BY DEF Init
<1>3. QED
  BY <1>1, <1>2 DEF Transfer!Init

LEMMA WholeNext == IInv' => WholeUnlessWiped'
  BY IInvWhole, PTL

LEMMA NextTransfer == IInv /\ IInv' /\ [Next]_vars => [Transfer!Next]_Transfer!tvars
<1> SUFFICES ASSUME IInv, IInv', [Next]_vars
             PROVE  [Transfer!Next]_Transfer!tvars
  OBVIOUS
<1>1. TypeOK /\ TypeOK' /\ wipes \in Nat /\ pc # "none"
  BY FetchAssumption DEF IInv, TypeOK, Ended, Failures
<1>2. CASE Finished \/ UNCHANGED vars
  <2>1. UNCHANGED <<pc, exists, temp, wipes>>
    BY <1>2 DEF Finished, vars
  <2>2. QED
    BY <2>1 DEF Transfer!tvars, Ended, Failures, Absent
<1>3. CASE Wipe
  <2>1. pc \notin Ended /\ pc' \notin Ended /\ wipes' = wipes + 1
    BY <1>3 DEF Wipe
  <2>2. CASE wipes > 0
    <3>1. (wipes > 0) = (wipes' > 0)
      BY <1>1, <2>1, <2>2
    <3>2. QED
      BY <2>1, <3>1, Unseen
  <2>3. CASE ~(wipes > 0)
    <3>1. (wipes > 0) = FALSE /\ (wipes' > 0) = TRUE
      BY <1>1, <2>1, <2>3
    <3>2. Transfer!Disturb
      BY <2>1, <3>1 DEF Transfer!Disturb
    <3>3. QED
      BY <3>2 DEF Transfer!Next
  <2>4. QED
    BY <2>2, <2>3
<1>4. CASE Fetch
  <2>1. pc \notin Ended /\ wipes' = wipes /\ (pc' = "fetched" => exists')
    BY <1>4, FetchFrame
  <2>2. CASE pc' \notin Ended
    <3>1. (wipes > 0) = (wipes' > 0)
      BY <2>1
    <3>2. QED
      BY <2>1, <2>2, <3>1, Unseen
  <2>3. CASE pc' = "fetched"
    <3>1. pc' \in Ended
      BY <2>3 DEF Ended
    <3>2. exists' = TRUE
      <4>1. exists' /\ exists' \in BOOLEAN
        BY <2>1, <2>3, <1>1 DEF TypeOK
      <4>2. QED
        BY <4>1, Zenon
    <3>3. temp' \in Seq(1..Size)
      BY <1>1 DEF TypeOK
    <3>4. ~(wipes > 0) => temp' = Whole
      <4>1. ~(wipes > 0) => wipes' = 0
        BY <1>1, <2>1
      <4>2. WholeUnlessWiped'
        BY WholeNext
      <4>3. QED
        BY <2>3, <4>1, <4>2 DEF WholeUnlessWiped, Whole
    <3>5. Transfer!Succeed
      BY <2>1, <2>3, <3>1, <3>2, <3>3, <3>4 DEF Transfer!Succeed
    <3>6. QED
      BY <3>5 DEF Transfer!Next
  <2>4. CASE pc' \in Failures
    <3>1. pc' \in Ended
      BY <2>4 DEF Ended
    <3>2. ~exists' /\ exists' \in BOOLEAN /\ (~exists' => temp' = <<>>)
      BY <1>1, <2>4 DEF TypeOK, IInv, NoLeftover
    <3>3. exists' = FALSE /\ temp' = <<>>
      BY <3>2, Zenon
    <3>4. [exists |-> exists', holds |-> temp'] = Absent
      BY <3>3 DEF Absent
    <3>5. Transfer!Fail
      BY <2>1, <2>4, <3>1, <3>4 DEF Transfer!Fail
    <3>6. QED
      BY <3>5 DEF Transfer!Next
  <2>5. QED
    BY <2>2, <2>3, <2>4 DEF Ended
<1>5. QED
  BY <1>2, <1>3, <1>4 DEF Next

(* The calls that see _fetch_kemono as one step are right to: every        *)
(* behaviour of its loop is one of FileTransfer, for every size of file,   *)
(* DOWNLOAD_MAX_ATTEMPTS and number of wipes (that it ends is model-checked). *)
THEOREM FetchIsATransfer == Spec => Transfer!Safety
<1>1. QED
  BY InitIInv, NextIInv, InitTransfer, NextTransfer, PTL DEF Spec, Transfer!Safety
=============================================================================
