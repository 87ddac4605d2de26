-------------------------- MODULE ExternalFiles_proofs --------------------------
(* Proofs about ExternalFiles, for any creators, Drive files, Mega links   *)
(* and number of workers.                                                  *)
EXTENDS ExternalFiles, TLAPS

(* A link is queued or in the hands of one worker, while its creator's     *)
(* pool is open.                                                           *)
Hands ==
  /\ todo # {} => phase = "mega" /\ todo \subseteq LinksOf[creator]
  /\ \A w \in Workers : pc[w] # "free" =>
       phase = "mega" /\ link[w] \in LinksOf[creator] \ todo
  /\ \A v, w \in Workers : pc[v] # "free" /\ link[v] = link[w] => v = w
  /\ \A w \in Workers : pc[w] = "listing" => link[w] \notin Lone
  /\ \A l \in Links : mapped[l] \cup chosen[l] \subseteq Group[l]

(* A file has no outcome before its turn. *)
Untried(l) == \A f \in Group[l] : outcome[f] = "none"
Fresh ==
  /\ \A c \in DOMAIN LinksOf : c > creator \/ (c = creator /\ phase = "drive") =>
       \A l \in LinksOf[c] : Untried(l)
  /\ \A l \in todo : Untried(l)
  /\ \A w \in Workers : pc[w] = "listing" => Untried(link[w])
  /\ \A w \in Workers : pc[w] = "downloading" =>
       IF link[w] \in Lone THEN Untried(link[w])
       ELSE \A f \in mapped[link[w]] : outcome[f] = "none"

(* A whole file in the folder that is checked is still to be handled; the  *)
(* one of a lone link is looked at unless megatools reported an error.     *)
Unhandled ==
  \A w \in Workers : pc[w] = "checking" =>
    /\ \A f \in mapped[link[w]] \ Rounded : outcome[f] # "none" => temp[f] # "whole"
    /\ link[w] \in Lone => error[link[w]] \/ mapped[link[w]] = Group[link[w]]

(* A link of the pool is queued, worked on, raised, or settled. *)
Held(l) == \E w \in Workers : pc[w] # "free" /\ link[w] = l
LinksSettled ==
  phase = "mega" => \A l \in LinksOf[creator] :
    l \in todo \/ Held(l) \/ l \in raised \/ \A f \in Group[l] : outcome[f] # "none"

(* The flag, read after the first file, is what this creator's own         *)
(* requests have told, and the first file was requested.                   *)
FlagTold ==
  /\ quotas = IF at > 0 /\ driveBlocked THEN 1 ELSE 0
  /\ Running /\ at > 0 /\ quotas = 0 => outcome[Here[1]] # "quota"

DriveSettled == Running => \A i \in 1..at : outcome[Here[i]] # "none"

IInv ==
  /\ TypeOK /\ Hands /\ Fresh /\ Unhandled /\ LinksSettled /\ FlagTold /\ DriveSettled
  /\ PartialNotRecorded /\ CompletedHasOutcomes

-----------------------------------------------------------------------------
(* The running creator's files and links. *)
LEMMA Creator ==
  ASSUME TypeOK, Running
  PROVE  /\ Len(DriveFiles) \in Nat /\ DOMAIN LinksOf = 1..Len(DriveFiles)
         /\ creator \in DOMAIN LinksOf /\ creator \in DOMAIN DriveFiles /\ creator \in Int
         /\ Here \in Seq(Drive) /\ Len(Here) \in Nat
         /\ \A i \in 1..Len(Here) : Here[i] \in Drive
         /\ LinksOf[creator] \subseteq Links
<1>1. /\ DriveFiles \in Seq(Seq(Drive)) /\ DOMAIN LinksOf = DOMAIN DriveFiles
      /\ creator \in 1..Len(DriveFiles) /\ Len(DriveFiles) \in Nat
  BY ExternalAssumption DEF TypeOK, Running
<1>2. Here \in Seq(Drive)
  BY <1>1 DEF Here
<1>3. LinksOf[creator] \subseteq Links
  BY <1>1 DEF Links, Range
<1>4. QED
  BY <1>1, <1>2, <1>3

LEMMA GroupFacts ==
  /\ \A l \in Links : Group[l] \subseteq Mega /\ Group[l] # {}
  /\ \A l, m \in Links : l # m => Group[l] \cap Group[m] = {}
  /\ Drive \cap Mega = {} /\ Lone \subseteq Links /\ NoLink \notin Links
  BY ExternalAssumption

(* A worker that is not free has a link of the running creator. *)
LEMMA Holds ==
  ASSUME TypeOK, Hands, NEW w \in Workers, pc[w] # "free"
  PROVE  /\ Running /\ phase = "mega" /\ link[w] \in LinksOf[creator] \ todo
         /\ link[w] \in Links /\ Group[link[w]] \subseteq Mega
         /\ mapped[link[w]] \subseteq Group[link[w]] /\ chosen[link[w]] \subseteq Group[link[w]]
<1>1. phase = "mega" /\ link[w] \in LinksOf[creator] \ todo /\ Running
  BY DEF Hands, TypeOK
<1>2. link[w] \in Links
  BY <1>1, Creator
<1>3. mapped[link[w]] \cup chosen[link[w]] \subseteq Group[link[w]]
  BY <1>2 DEF Hands
<1>4. QED
  BY <1>1, <1>2, <1>3, GroupFacts

-----------------------------------------------------------------------------
LEMMA InitIInv == Init => IInv
<1> SUFFICES ASSUME Init PROVE IInv
  OBVIOUS
<1>1. /\ driveBlocked = FALSE /\ creator = 1 /\ phase = "drive" /\ at = 0 /\ attempt = 0
      /\ todo = {} /\ raised = {} /\ quotas = 0
      /\ pc = [w \in Workers |-> "free"] /\ link = [w \in Workers |-> NoLink]
      /\ mapped = [l \in Links |-> {}] /\ chosen = [l \in Links |-> {}]
      /\ error = [l \in Links |-> FALSE] /\ temp = [f \in Mega |-> "absent"]
      /\ outcome = [f \in Drive \cup Mega |-> "none"] /\ recorded = [f \in Drive \cup Mega |-> "none"]
      /\ summary = [c \in DOMAIN DriveFiles |-> "none"]
  BY DEF Init
<1>2. /\ Len(DriveFiles) \in Nat /\ MaxAttempts \in Nat \ {0}
      /\ \A i \in DOMAIN DriveFiles : Len(DriveFiles[i]) \in Nat
      /\ DOMAIN DriveFiles = 1..Len(DriveFiles)
  BY ExternalAssumption
<1>3. TypeOK
  <2>1. Running => at <= Len(Here)
    BY <1>1, <1>2 DEF Running, Here
  <2>2. error \in [Links -> BOOLEAN] /\ driveBlocked \in BOOLEAN
    BY <1>1
  <2>3. QED
    BY <1>1, <1>2, <2>1, <2>2 DEF TypeOK
<1>4. Hands /\ Unhandled /\ LinksSettled /\ DriveSettled
  BY <1>1 DEF Hands, Unhandled, LinksSettled, DriveSettled
<1>5. \A f \in Drive \cup Mega : outcome[f] = "none" /\ recorded[f] = "none"
  BY <1>1
<1>6. Fresh
  <2>1. \A l \in Links : Untried(l)
    BY <1>5, GroupFacts DEF Untried
  <2>2. \A c \in DOMAIN LinksOf : LinksOf[c] \subseteq Links
    BY DEF Links, Range
  <2>3. QED
    BY <1>1, <2>1, <2>2 DEF Fresh
<1>7. FlagTold /\ PartialNotRecorded /\ CompletedHasOutcomes
  BY <1>1, <1>5 DEF FlagTold, PartialNotRecorded, CompletedHasOutcomes
<1>8. QED
  BY <1>3, <1>4, <1>6, <1>7 DEF IInv

-----------------------------------------------------------------------------
(* What a worker's step leaves alone.                                      *)
LEMMA TakeFrame ==
  ASSUME NEW w \in Workers, NEW l \in Links, Take(w, l)
  PROVE  /\ pc[w] = "free" /\ l \in todo /\ todo' = todo \ {l}
         /\ link' = [link EXCEPT ![w] = l]
         /\ pc' = [pc EXCEPT ![w] = IF l \in Lone THEN "downloading" ELSE "listing"]
         /\ UNCHANGED <<driving, main, mapped, chosen, error, temp, outcome, recorded, raised>>
  BY Zenon DEF Take, Go

(* The steps of a worker that has a link. *)
TaskStep(w) ==
  \/ List(w) \/ ListFails(w) \/ Succeed(w) \/ Break(w) \/ EndLink(w)
  \/ \E f \in Mega : Write(w, f) \/ Check(w, f) \/ CheckRaises(w, f)

LEMMA StepIsTask ==
  ASSUME NEW w \in Workers, WorkerStep(w)
  PROVE  (\E l \in Links : Take(w, l)) \/ (pc[w] # "free" /\ TaskStep(w) /\ UNCHANGED <<driving, main, todo>>)
<1>1. CASE TaskStep(w)
  <2>1. UNCHANGED <<driving, main, todo>>
    BY <1>1, Zenon DEF TaskStep, List, Listed, ListFails, Succeed, Break, EndLink, Write, Check, CheckRaises
  <2>2. pc[w] \in {"listing", "downloading", "checking"}
    BY <1>1, Zenon DEF TaskStep, List, Listed, ListFails, Succeed, Break, EndLink, Write, Check, CheckRaises
  <2>3. QED
    BY <1>1, <2>1, <2>2
<1>2. QED
  BY <1>1, Zenon DEF WorkerStep, Advance, TaskStep

(* A task changes its own link and the link's files only, and takes no     *)
(* outcome back.                                                           *)
Contained(w) ==
  /\ \A v \in Workers \ {w} : pc'[v] = pc[v] /\ link'[v] = link[v]
  /\ IF pc'[w] = "free" THEN link'[w] = NoLink ELSE link'[w] = link[w]
  /\ pc'[w] \in {"free", "downloading", "checking"}
  /\ \A l \in Links \ {link[w]} : mapped'[l] = mapped[l] /\ chosen'[l] = chosen[l] /\ error'[l] = error[l]
  /\ mapped'[link[w]] \cup chosen'[link[w]] \subseteq Group[link[w]]
  /\ \A f \in (Drive \cup Mega) \ Group[link[w]] : outcome'[f] = outcome[f] /\ recorded'[f] = recorded[f]
  /\ \A f \in Mega \ Group[link[w]] : temp'[f] = temp[f]
  /\ \A f \in Drive \cup Mega : outcome[f] # "none" => outcome'[f] # "none"
  /\ raised \subseteq raised'

(* The types a task's step is about. *)
TaskTypes ==
  /\ pc \in [Workers -> {"free", "listing", "downloading", "checking"}]
  /\ link \in [Workers -> Links \cup {NoLink}]
  /\ mapped \in [Links -> SUBSET Mega] /\ chosen \in [Links -> SUBSET Mega]
  /\ error \in [Links -> BOOLEAN]
  /\ temp \in [Mega -> {"absent", "partial", "shown", "whole"}]
  /\ outcome \in [Drive \cup Mega -> {"none", "success", "quota", "failed", "not_found"}]
  /\ recorded \in [Drive \cup Mega -> {"none", "partial", "shown", "whole"}]
  /\ raised \subseteq Links

LEMMA TaskTypesOK == TypeOK => TaskTypes
  BY DEF TypeOK, TaskTypes

LEMMA ListFrame ==
  ASSUME TypeOK, Hands, NEW w \in Workers, pc[w] = "listing",
         NEW S \in SUBSET Group[link[w]], NEW T \in SUBSET Group[link[w]], Listed(w, S, T)
  PROVE  Contained(w) /\ TaskTypes'
<1>1. /\ pc[w] = "listing" /\ S \in SUBSET Group[link[w]] /\ T \in SUBSET Group[link[w]]
      /\ mapped' = [mapped EXCEPT ![link[w]] = S] /\ chosen' = [chosen EXCEPT ![link[w]] = T]
      /\ outcome' = [f \in DOMAIN outcome |->
                       IF f \in Group[link[w]] \ S THEN "not_found" ELSE outcome[f]]
      /\ pc' = [pc EXCEPT ![w] = IF S = {} THEN "checking" ELSE "downloading"]
      /\ UNCHANGED <<link, error, temp, recorded, raised>>
  BY Zenon DEF Listed, Go
<1>2. TaskTypes /\ link[w] \in Links /\ Group[link[w]] \subseteq Mega
      /\ mapped[link[w]] \cup chosen[link[w]] \subseteq Group[link[w]]
  BY <1>1, TaskTypesOK, Holds
<1>3. TaskTypes'
  BY <1>1, <1>2 DEF TaskTypes
<1>4. Contained(w)
  BY <1>1, <1>2 DEF TaskTypes, Contained
<1>5. QED
  BY <1>3, <1>4

LEMMA Updated ==
  ASSUME NEW D, NEW R, NEW g \in [D -> R], NEW x, NEW y \in R
  PROVE  [g EXCEPT ![x] = y] \in [D -> R]
  OBVIOUS

(* A worker leaves its task by an exception. *)
LEMMA RaiseFrame ==
  ASSUME TypeOK, Hands, NEW w \in Workers, pc[w] # "free", ListFails(w) \/ (\E f \in Mega : CheckRaises(w, f))
  PROVE  Contained(w) /\ TaskTypes'
<1>1. TaskTypes /\ link[w] \in Links /\ Group[link[w]] \subseteq Mega
      /\ mapped[link[w]] \cup chosen[link[w]] \subseteq Group[link[w]]
  BY TaskTypesOK, Holds
<1>2. /\ raised' = raised \cup {link[w]}
      /\ pc' = [pc EXCEPT ![w] = "free"] /\ link' = [link EXCEPT ![w] = NoLink]
      /\ UNCHANGED <<mapped, chosen, error, outcome>>
      /\ \/ UNCHANGED <<temp, recorded>>
         \/ \E f \in mapped[link[w]] : /\ Complete(f)
                                       /\ recorded' = [recorded EXCEPT ![f] = temp[f]]
                                       /\ temp' = [temp EXCEPT ![f] = "absent"]
  BY Zenon DEF ListFails, CheckRaises, Go
<1>3. CASE UNCHANGED <<temp, recorded>>
  BY <1>1, <1>2, <1>3 DEF TaskTypes, Contained
<1>4. ASSUME NEW f \in mapped[link[w]], Complete(f), recorded' = [recorded EXCEPT ![f] = temp[f]],
             temp' = [temp EXCEPT ![f] = "absent"]
      PROVE  Contained(w) /\ TaskTypes'
  <2>1. f \in Group[link[w]] /\ f \in Mega
    BY <1>1
  <2>2. TaskTypes'
    <3>1. temp[f] \in {"none", "partial", "shown", "whole"}
      BY <1>1, <1>4, <2>1 DEF TaskTypes, Complete
    <3>2. recorded' \in [Drive \cup Mega -> {"none", "partial", "shown", "whole"}]
      BY <1>1, <1>4, <3>1, Updated DEF TaskTypes
    <3>3. temp' \in [Mega -> {"absent", "partial", "shown", "whole"}]
      BY <1>1, <1>4, <3>1 DEF TaskTypes
    <3>4. QED
      BY <1>1, <1>2, <3>2, <3>3 DEF TaskTypes
  <2>3. /\ \A g \in Drive \cup Mega : g # f => recorded'[g] = recorded[g]
        /\ \A g \in Mega : g # f => temp'[g] = temp[g]
    BY <1>1, <1>4 DEF TaskTypes
  <2>4. \A v \in Workers \ {w} : pc'[v] = pc[v] /\ link'[v] = link[v]
    BY <1>1, <1>2 DEF TaskTypes
  <2>5. pc'[w] = "free" /\ link'[w] = NoLink
    BY <1>1, <1>2 DEF TaskTypes
  <2>6. Contained(w)
    BY <1>1, <1>2, <2>1, <2>3, <2>4, <2>5 DEF Contained
  <2>7. QED
    BY <2>2, <2>6
<1>5. QED
  BY <1>2, <1>3, <1>4

(* megatools writes, succeeds or breaks off. *)
LEMMA DownloadFrame ==
  ASSUME TypeOK, Hands, NEW w \in Workers, pc[w] # "free",
         Succeed(w) \/ Break(w) \/ (\E f \in Mega : Write(w, f))
  PROVE  Contained(w) /\ TaskTypes'
<1>1. TaskTypes /\ link[w] \in Links /\ Group[link[w]] \subseteq Mega
      /\ mapped[link[w]] \cup chosen[link[w]] \subseteq Group[link[w]]
      /\ Selected(w) \subseteq Group[link[w]]
  BY TaskTypesOK, Holds DEF Selected
<1>2. CASE \E f \in Mega : Write(w, f)
  <2>1. PICK f \in Mega, s \in {"partial", "shown", "whole"} :
          /\ pc[w] = "downloading" /\ f \in Selected(w) /\ temp' = [temp EXCEPT ![f] = s]
          /\ UNCHANGED <<pc, link, mapped, chosen, error, outcome, recorded, raised>>
    BY <1>2, Zenon DEF Write, task
  <2>2. TaskTypes'
    BY <1>1, <2>1 DEF TaskTypes
  <2>3. QED
    BY <1>1, <2>1, <2>2 DEF TaskTypes, Contained
<1>3. CASE Succeed(w)
  <2>1. /\ mapped' = IF link[w] \in Lone THEN [mapped EXCEPT ![link[w]] = Selected(w)] ELSE mapped
        /\ pc' = [pc EXCEPT ![w] = "checking"]
        /\ UNCHANGED <<link, chosen, error, temp, outcome, recorded, raised>>
    BY <1>3, Zenon DEF Succeed, Go
  <2>2. TaskTypes'
    BY <1>1, <2>1 DEF TaskTypes
  <2>3. QED
    BY <1>1, <2>1, <2>2 DEF TaskTypes, Contained
<1>4. CASE Break(w)
  <2>1. /\ error' = [error EXCEPT ![link[w]] = TRUE] /\ pc' = [pc EXCEPT ![w] = "checking"]
        /\ UNCHANGED <<link, mapped, chosen, temp, outcome, recorded, raised>>
    BY <1>4, Zenon DEF Break, Go
  <2>2. TaskTypes'
    BY <1>1, <2>1 DEF TaskTypes
  <2>3. QED
    BY <1>1, <2>1, <2>2 DEF TaskTypes, Contained
<1>5. QED
  BY <1>2, <1>3, <1>4

(* The files are looked at one by one. *)
LEMMA CheckFrame ==
  ASSUME TypeOK, Hands, NEW w \in Workers, pc[w] # "free", NEW f, Check(w, f)
  PROVE  Contained(w) /\ TaskTypes'
<1>1. TaskTypes /\ link[w] \in Links /\ Group[link[w]] \subseteq Mega
      /\ mapped[link[w]] \cup chosen[link[w]] \subseteq Group[link[w]]
  BY TaskTypesOK, Holds
<1>2. /\ pc[w] = "checking" /\ f \in mapped[link[w]] /\ outcome[f] = "none"
      /\ UNCHANGED <<pc, link, mapped, chosen, error, raised>>
      /\ \/ /\ Complete(f)
            /\ \E o \in {"success", "failed"} : outcome' = [outcome EXCEPT ![f] = o]
            /\ recorded' = [recorded EXCEPT ![f] = temp[f]]
            /\ temp' = [temp EXCEPT ![f] = "absent"]
         \/ outcome' = [outcome EXCEPT ![f] = "failed"] /\ UNCHANGED <<recorded, temp>>
  BY Zenon DEF Check, task
<1>3. f \in Group[link[w]] /\ f \in Mega
  BY <1>1, <1>2
<1>4. Complete(f) => temp[f] \in {"none", "partial", "shown", "whole"}
  BY <1>1, <1>3 DEF TaskTypes, Complete
<1>5. TaskTypes'
  <2>1. outcome' \in [Drive \cup Mega -> {"none", "success", "quota", "failed", "not_found"}]
    BY <1>1, <1>2 DEF TaskTypes
  <2>2. recorded' \in [Drive \cup Mega -> {"none", "partial", "shown", "whole"}]
    BY <1>1, <1>2, <1>4, Updated DEF TaskTypes
  <2>3. temp' \in [Mega -> {"absent", "partial", "shown", "whole"}]
    BY <1>1, <1>2, <1>4 DEF TaskTypes
  <2>4. QED
    BY <1>1, <1>2, <2>1, <2>2, <2>3 DEF TaskTypes
<1>6. /\ \A g \in Drive \cup Mega : g # f => recorded'[g] = recorded[g] /\ outcome'[g] = outcome[g]
      /\ \A g \in Mega : g # f => temp'[g] = temp[g]
  BY <1>1, <1>2 DEF TaskTypes
<1>7. pc[w] = "checking" => link[w] # NoLink
  BY <1>1, GroupFacts
<1>8. QED
  BY <1>1, <1>2, <1>3, <1>5, <1>6, <1>7 DEF Contained

LEMMA EndFrame ==
  ASSUME TypeOK, Hands, NEW w \in Workers, EndLink(w)
  PROVE  Contained(w) /\ TaskTypes'
<1>1. /\ pc[w] = "checking" /\ \A f \in mapped[link[w]] : outcome[f] # "none"
      /\ outcome' = [f \in DOMAIN outcome |->
                       IF f \in Group[link[w]] /\ outcome[f] = "none" THEN "failed" ELSE outcome[f]]
      /\ temp' = [f \in Mega |-> IF f \in Group[link[w]] THEN "absent" ELSE temp[f]]
      /\ pc' = [pc EXCEPT ![w] = "free"] /\ link' = [link EXCEPT ![w] = NoLink]
      /\ UNCHANGED <<mapped, chosen, error, recorded, raised>>
  BY Zenon DEF EndLink, Go
<1>2. TaskTypes /\ link[w] \in Links /\ Group[link[w]] \subseteq Mega
      /\ mapped[link[w]] \cup chosen[link[w]] \subseteq Group[link[w]]
  BY <1>1, TaskTypesOK, Holds
<1>3. TaskTypes'
  BY <1>1, <1>2 DEF TaskTypes
<1>4. QED
  BY <1>1, <1>2, <1>3 DEF TaskTypes, Contained

LEMMA TaskFrame ==
  ASSUME TypeOK, Hands, NEW w \in Workers, pc[w] # "free", TaskStep(w)
  PROVE  Contained(w) /\ TaskTypes'
  BY ListFrame, RaiseFrame, DownloadFrame, CheckFrame, EndFrame, Zenon DEF TaskStep, List

-----------------------------------------------------------------------------
LEMMA TaskTypeOK ==
  ASSUME TypeOK, Hands, NEW w \in Workers, pc[w] # "free", TaskStep(w), UNCHANGED <<driving, main, todo>>
  PROVE  TypeOK'
<1>1. Contained(w) /\ TaskTypes' /\ link[w] \in Links /\ NoLink \notin Links
  BY TaskFrame, Holds, GroupFacts
<1>2. UNCHANGED <<driveBlocked, at, attempt, quotas, creator, phase, summary, todo>>
  BY DEF driving, main
<1>3. \A v \in Workers : pc'[v] = "free" <=> link'[v] = NoLink
  BY <1>1 DEF TypeOK, Contained
<1>4. /\ driveBlocked' \in BOOLEAN
      /\ creator' \in 1..(Len(DriveFiles) + 1)
      /\ phase' \in {"drive", "mega"} /\ (phase' = "mega" => Running' /\ at' = Len(Here'))
      /\ at' \in Nat /\ (Running' => at' <= Len(Here'))
      /\ attempt' \in 0..(MaxAttempts - 1)
      /\ todo' \subseteq Links
      /\ summary' \in [DOMAIN DriveFiles -> {"none", "completed", "failed"}]
      /\ quotas' \in Nat
  <2>1. Here' = Here /\ (Running' <=> Running)
    BY <1>2 DEF Here, Running
  <2>2. QED
    BY <1>2, <2>1 DEF TypeOK
<1>5. QED
  BY <1>1, <1>3, <1>4 DEF TypeOK, TaskTypes

(* Of two workers at most one has a link. *)
LEMMA OtherLink ==
  ASSUME TypeOK, Hands, NEW w \in Workers, pc[w] # "free", NEW v \in Workers, v # w, pc[v] # "free"
  PROVE  /\ link[v] # link[w] /\ link[v] \in Links
         /\ Group[link[v]] \cap Group[link[w]] = {} /\ Group[link[v]] \subseteq Mega
<1>1. link[v] # link[w] /\ link[v] \in Links /\ link[w] \in Links
  BY Holds DEF Hands
<1>2. QED
  BY <1>1, GroupFacts

LEMMA TaskHands ==
  ASSUME TypeOK, Hands, NEW w \in Workers, pc[w] # "free", TaskStep(w), UNCHANGED <<driving, main, todo>>
  PROVE  Hands'
<1>1. Contained(w) /\ link[w] \in Links /\ phase = "mega" /\ link[w] \in LinksOf[creator] \ todo
  BY TaskFrame, Holds
<1>2. UNCHANGED <<creator, phase, todo>>
  BY DEF main
<1>3. \A v \in Workers : pc'[v] # "free" => pc[v] # "free" /\ link'[v] = link[v]
  BY <1>1 DEF Contained
<1>4. todo' # {} => phase' = "mega" /\ todo' \subseteq LinksOf[creator']
  BY <1>2 DEF Hands
<1>5. \A v \in Workers : pc'[v] # "free" => phase' = "mega" /\ link'[v] \in LinksOf[creator'] \ todo'
  BY <1>2, <1>3 DEF Hands
<1>6. ASSUME NEW v \in Workers, NEW u \in Workers, pc'[v] # "free", link'[v] = link'[u] PROVE v = u
  <2>1. pc[v] # "free" /\ link'[v] = link[v] /\ link[v] \in Links
    BY <1>3, <1>6, Holds
  <2>2. link'[u] # NoLink
    BY <1>6, <2>1, GroupFacts
  <2>3. u # w => link'[u] = link[u]
    BY <1>1 DEF Contained
  <2>4. u = w => link'[u] = link[u]
    BY <1>1, <2>2 DEF Contained
  <2>5. QED
    BY <1>6, <2>1, <2>3, <2>4 DEF Hands
<1>7. \A v \in Workers : pc'[v] = "listing" => link'[v] \notin Lone
  BY <1>1 DEF Contained, Hands
<1>8. \A l \in Links : mapped'[l] \cup chosen'[l] \subseteq Group[l]
  <2> TAKE l \in Links
  <2>1. CASE l = link[w]
    BY <1>1, <2>1 DEF Contained
  <2>2. CASE l # link[w]
    <3>1. mapped'[l] = mapped[l] /\ chosen'[l] = chosen[l]
      BY <1>1, <2>2 DEF Contained
    <3>2. QED
      BY <3>1 DEF Hands
  <2>3. QED
    BY <2>1, <2>2
<1>9. QED
  BY <1>4, <1>5, <1>6, <1>7, <1>8 DEF Hands

-----------------------------------------------------------------------------
(* What a task's step leaves of its own link.                              *)
Own(w) ==
  /\ pc'[w] = "downloading" =>
       IF link[w] \in Lone THEN \A f \in Group[link[w]] : outcome'[f] = "none"
       ELSE \A f \in mapped'[link[w]] : outcome'[f] = "none"
  /\ pc'[w] = "checking" =>
       /\ \A f \in mapped'[link[w]] \ Rounded : outcome'[f] # "none" => temp'[f] # "whole"
       /\ link[w] \in Lone => error'[link[w]] \/ mapped'[link[w]] = Group[link[w]]
  /\ pc'[w] = "free" => link[w] \in raised' \/ \A f \in Group[link[w]] : outcome'[f] # "none"

(* A file is recorded whole, or as far as the listing tells; and a whole   *)
(* one is removed only when it is recorded, or not in path_map.            *)
RecordsWhole ==
  \A f \in Mega \ (Unsized \cup Rounded) : recorded'[f] = recorded[f] \/ recorded'[f] = "whole"
KeepsWhole ==
  \A f \in Mega \ Rounded : temp[f] = "whole" /\ temp'[f] = "absent" =>
    \/ recorded'[f] = "whole"
    \/ \E l \in Links : f \in Group[l] \ mapped[l] /\ (l \in Lone => error[l])

TInv == TypeOK /\ Hands /\ Fresh /\ Unhandled
Good(w) == Own(w) /\ RecordsWhole /\ KeepsWhole

LEMMA ListGood ==
  ASSUME TInv, NEW w \in Workers, pc[w] = "listing",
         NEW S \in SUBSET Group[link[w]], NEW T \in SUBSET Group[link[w]], Listed(w, S, T)
  PROVE  Good(w)
<1>1. /\ pc[w] = "listing" /\ S \in SUBSET Group[link[w]] /\ T \in SUBSET Group[link[w]]
      /\ mapped' = [mapped EXCEPT ![link[w]] = S]
      /\ outcome' = [f \in DOMAIN outcome |->
                       IF f \in Group[link[w]] \ S THEN "not_found" ELSE outcome[f]]
      /\ pc' = [pc EXCEPT ![w] = IF S = {} THEN "checking" ELSE "downloading"]
      /\ UNCHANGED <<temp, recorded>>
  BY Zenon DEF Listed, Go
<1>2. /\ TaskTypes /\ link[w] \in Links /\ Group[link[w]] \subseteq Mega
      /\ link[w] \notin Lone /\ \A f \in Group[link[w]] : outcome[f] = "none"
  BY <1>1, TaskTypesOK, Holds DEF TInv, Hands, Fresh, Untried
<1>3. mapped'[link[w]] = S /\ pc'[w] = IF S = {} THEN "checking" ELSE "downloading"
  BY <1>1, <1>2 DEF TaskTypes
<1>4. \A f \in S : outcome'[f] = "none"
  BY <1>1, <1>2 DEF TaskTypes
<1>5. Own(w)
  BY <1>2, <1>3, <1>4 DEF Own
<1>6. RecordsWhole /\ KeepsWhole
  BY <1>1 DEF RecordsWhole, KeepsWhole
<1>7. QED
  BY <1>5, <1>6 DEF Good

LEMMA RaiseGood ==
  ASSUME TInv, NEW w \in Workers, pc[w] # "free", ListFails(w) \/ (\E f \in Mega : CheckRaises(w, f))
  PROVE  Good(w)
<1>1. TaskTypes /\ link[w] \in Links /\ Group[link[w]] \subseteq Mega
      /\ mapped[link[w]] \subseteq Group[link[w]]
  BY TaskTypesOK, Holds DEF TInv
<1>2. /\ raised' = raised \cup {link[w]} /\ pc' = [pc EXCEPT ![w] = "free"]
      /\ \/ UNCHANGED <<temp, recorded>>
         \/ \E f \in mapped[link[w]] : /\ Complete(f)
                                       /\ recorded' = [recorded EXCEPT ![f] = temp[f]]
                                       /\ temp' = [temp EXCEPT ![f] = "absent"]
  BY Zenon DEF ListFails, CheckRaises, Go
<1>3. Own(w)
  BY <1>1, <1>2 DEF Own, TaskTypes
<1>4. RecordsWhole /\ KeepsWhole
  BY <1>1, <1>2 DEF TaskTypes, RecordsWhole, KeepsWhole, Complete
<1>5. QED
  BY <1>3, <1>4 DEF Good

LEMMA DownloadGood ==
  ASSUME TInv, NEW w \in Workers, pc[w] # "free", Succeed(w) \/ Break(w) \/ (\E f \in Mega : Write(w, f))
  PROVE  Good(w)
<1>1. TaskTypes /\ link[w] \in Links
  BY TaskTypesOK, Holds DEF TInv
<1>2. /\ pc[w] = "downloading" /\ UNCHANGED <<outcome, recorded>>
      /\ IF link[w] \in Lone THEN \A f \in Group[link[w]] : outcome[f] = "none"
         ELSE \A f \in mapped[link[w]] : outcome[f] = "none"
  <2>1. pc[w] = "downloading" /\ UNCHANGED <<outcome, recorded>>
    BY Zenon DEF Succeed, Break, Write
  <2>2. QED
    BY <2>1 DEF TInv, Fresh, Untried
<1>3. CASE \E f \in Mega : Write(w, f)
  <2>1. UNCHANGED <<pc, mapped>> /\ \E f \in Mega, s \in {"partial", "shown", "whole"} :
          temp' = [temp EXCEPT ![f] = s]
    BY <1>3, Zenon DEF Write, task
  <2>2. KeepsWhole
    BY <1>1, <2>1 DEF KeepsWhole, TaskTypes
  <2>3. Own(w) /\ RecordsWhole
    BY <1>2, <2>1 DEF Own, RecordsWhole
  <2>4. QED
    BY <2>2, <2>3 DEF Good
<1>4. CASE Succeed(w)
  <2>1. /\ mapped' = IF link[w] \in Lone THEN [mapped EXCEPT ![link[w]] = Selected(w)] ELSE mapped
        /\ pc' = [pc EXCEPT ![w] = "checking"] /\ temp' = temp
    BY <1>4, Zenon DEF Succeed, Go
  <2>2. pc'[w] = "checking" /\ mapped'[link[w]] = IF link[w] \in Lone THEN Group[link[w]] ELSE mapped[link[w]]
    BY <1>1, <2>1 DEF TaskTypes, Selected
  <2>3. QED
    BY <1>2, <2>1, <2>2 DEF Good, Own, RecordsWhole, KeepsWhole
<1>5. CASE Break(w)
  <2>1. /\ error' = [error EXCEPT ![link[w]] = TRUE] /\ pc' = [pc EXCEPT ![w] = "checking"]
        /\ UNCHANGED <<mapped, temp>>
    BY <1>5, Zenon DEF Break, Go
  <2>2. pc'[w] = "checking" /\ error'[link[w]]
    BY <1>1, <2>1 DEF TaskTypes
  <2>3. ASSUME link[w] \in Lone PROVE \A f \in mapped[link[w]] : outcome[f] = "none"
    BY <1>1, <1>2, <2>3 DEF TInv, Hands
  <2>4. QED
    BY <1>2, <2>1, <2>2, <2>3 DEF Good, Own, RecordsWhole, KeepsWhole
<1>6. QED
  BY <1>3, <1>4, <1>5

LEMMA CheckGood == ASSUME TInv, NEW w \in Workers, NEW f, Check(w, f) PROVE Good(w)
<1>1. /\ pc[w] = "checking" /\ f \in mapped[link[w]] /\ outcome[f] = "none"
      /\ UNCHANGED <<pc, mapped, error>>
      /\ \/ /\ Complete(f)
            /\ \E o \in {"success", "failed"} : outcome' = [outcome EXCEPT ![f] = o]
            /\ recorded' = [recorded EXCEPT ![f] = temp[f]]
            /\ temp' = [temp EXCEPT ![f] = "absent"]
         \/ ~Complete(f) /\ outcome' = [outcome EXCEPT ![f] = "failed"] /\ UNCHANGED <<recorded, temp>>
  BY Zenon DEF Check, task
<1>2. /\ TaskTypes /\ link[w] \in Links /\ Group[link[w]] \subseteq Mega
      /\ mapped[link[w]] \subseteq Group[link[w]] /\ f \in Mega
  BY <1>1, TaskTypesOK, Holds DEF TInv
<1>3. /\ \A g \in mapped[link[w]] \ Rounded : outcome[g] # "none" => temp[g] # "whole"
      /\ link[w] \in Lone => error[link[w]] \/ mapped[link[w]] = Group[link[w]]
  BY <1>1 DEF TInv, Unhandled
<1>4. CASE Complete(f) /\ recorded' = [recorded EXCEPT ![f] = temp[f]]
           /\ temp' = [temp EXCEPT ![f] = "absent"]
           /\ \E o \in {"success", "failed"} : outcome' = [outcome EXCEPT ![f] = o]
  <2>1. /\ temp'[f] = "absent" /\ recorded'[f] = temp[f]
        /\ \A g \in Mega : g # f =>
             temp'[g] = temp[g] /\ outcome'[g] = outcome[g] /\ recorded'[g] = recorded[g]
    BY <1>2, <1>4 DEF TaskTypes
  <2>2. f \notin Unsized \cup Rounded => temp[f] = "whole"
    BY <1>4 DEF Complete
  <2>3. RecordsWhole /\ KeepsWhole
    BY <2>1, <2>2 DEF RecordsWhole, KeepsWhole
  <2>4. Own(w)
    BY <1>1, <1>2, <1>3, <2>1 DEF Own
  <2>5. QED
    BY <2>3, <2>4 DEF Good
<1>5. CASE ~Complete(f) /\ outcome' = [outcome EXCEPT ![f] = "failed"] /\ UNCHANGED <<recorded, temp>>
  <2>1. \A g \in Mega : g # f => outcome'[g] = outcome[g]
    BY <1>2, <1>5 DEF TaskTypes
  <2>2. f \notin Rounded => temp[f] # "whole"
    BY <1>5 DEF Complete
  <2>3. Own(w)
    BY <1>1, <1>2, <1>3, <1>5, <2>1, <2>2 DEF Own
  <2>4. QED
    BY <1>5, <2>3 DEF Good, RecordsWhole, KeepsWhole
<1>6. QED
  BY <1>1, <1>4, <1>5

LEMMA EndGood == ASSUME TInv, NEW w \in Workers, EndLink(w) PROVE Good(w)
<1>1. /\ pc[w] = "checking" /\ \A f \in mapped[link[w]] : outcome[f] # "none"
      /\ outcome' = [f \in DOMAIN outcome |->
                       IF f \in Group[link[w]] /\ outcome[f] = "none" THEN "failed" ELSE outcome[f]]
      /\ temp' = [f \in Mega |-> IF f \in Group[link[w]] THEN "absent" ELSE temp[f]]
      /\ pc' = [pc EXCEPT ![w] = "free"] /\ recorded' = recorded
  BY Zenon DEF EndLink, Go
<1>2. TaskTypes /\ link[w] \in Links /\ Group[link[w]] \subseteq Mega
  BY <1>1, TaskTypesOK, Holds DEF TInv
<1>3. /\ \A f \in mapped[link[w]] \ Rounded : temp[f] # "whole"
      /\ link[w] \in Lone => error[link[w]] \/ mapped[link[w]] = Group[link[w]]
  BY <1>1 DEF TInv, Unhandled
<1>4. Own(w)
  BY <1>1, <1>2 DEF Own, TaskTypes
<1>5. KeepsWhole
  <2> SUFFICES ASSUME NEW f \in Mega \ Rounded, temp[f] = "whole", temp'[f] = "absent"
               PROVE  f \in Group[link[w]] \ mapped[link[w]] /\ (link[w] \in Lone => error[link[w]])
    BY <1>2 DEF KeepsWhole
  <2>1. f \in Group[link[w]]
    BY <1>1
  <2>2. f \notin mapped[link[w]]
    BY <1>3
  <2>3. QED
    BY <1>3, <2>1, <2>2
<1>6. QED
  BY <1>1, <1>4, <1>5 DEF Good, RecordsWhole

LEMMA TaskGood ==
  ASSUME TInv, NEW w \in Workers, pc[w] # "free", TaskStep(w)
  PROVE  Good(w) /\ Contained(w) /\ TaskTypes'
<1>1. Good(w)
  BY ListGood, RaiseGood, DownloadGood, CheckGood, EndGood, Zenon DEF TaskStep, List
<1>2. QED
  BY <1>1, TaskFrame DEF TInv

-----------------------------------------------------------------------------
LEMMA TaskFresh ==
  ASSUME TInv, NEW w \in Workers, pc[w] # "free", TaskStep(w), UNCHANGED <<driving, main, todo>>
  PROVE  Fresh' /\ Unhandled'
<1>1. /\ TypeOK /\ Hands /\ Fresh /\ Unhandled /\ Own(w) /\ Contained(w)
      /\ phase = "mega" /\ Running /\ link[w] \in LinksOf[creator] \ todo /\ link[w] \in Links
      /\ UNCHANGED <<creator, phase, todo>> /\ creator \in DOMAIN LinksOf
  BY TaskGood, Holds, Creator DEF TInv, Good, main
<1>2. ASSUME NEW l \in Links, l # link[w] PROVE Untried(l) => Untried(l)'
  <2>1. Group[l] \cap Group[link[w]] = {} /\ Group[l] \subseteq Mega
    BY <1>1, <1>2, GroupFacts
  <2>2. QED
    BY <1>1, <2>1 DEF Untried, Contained
<1>3. ASSUME NEW v \in Workers, v # w, pc'[v] # "free"
      PROVE  /\ pc'[v] = pc[v] /\ link'[v] = link[v] /\ link[v] \in Links
             /\ Group[link[v]] \subseteq Mega /\ mapped[link[v]] \subseteq Group[link[v]]
             /\ \A f \in Group[link[v]] : outcome'[f] = outcome[f] /\ temp'[f] = temp[f]
             /\ mapped'[link[v]] = mapped[link[v]] /\ error'[link[v]] = error[link[v]]
  <2>1. pc'[v] = pc[v] /\ link'[v] = link[v]
    BY <1>1, <1>3 DEF Contained
  <2>2. /\ link[v] # link[w] /\ link[v] \in Links
        /\ Group[link[v]] \cap Group[link[w]] = {} /\ Group[link[v]] \subseteq Mega
    BY <1>1, <1>3, <2>1, OtherLink
  <2>3. mapped[link[v]] \subseteq Group[link[v]]
    BY <1>1, <2>2 DEF Hands
  <2>4. QED
    BY <1>1, <2>1, <2>2, <2>3 DEF Contained
<1>4. ASSUME NEW c \in DOMAIN LinksOf, c > creator, NEW l \in LinksOf[c] PROVE Untried(l)'
  <2>1. l \in Links
    BY <1>4 DEF Links, Range
  <2>2. c # creator
    BY <1>1, <1>4, Creator
  <2>3. l # link[w]
    BY <1>1, <2>2, ExternalAssumption
  <2>4. QED
    BY <1>1, <1>2, <1>4, <2>1, <2>3 DEF Fresh
<1>5. ASSUME NEW l \in todo PROVE Untried(l)'
  BY <1>1, <1>2, <1>5 DEF Fresh, TypeOK
<1>6. ASSUME NEW v \in Workers, pc'[v] = "listing" PROVE \A f \in Group[link'[v]] : outcome'[f] = "none"
  <2>1. v # w
    BY <1>1, <1>6 DEF Contained
  <2>2. QED
    BY <1>1, <1>3, <1>6, <2>1 DEF Fresh, Untried
<1>7. ASSUME NEW v \in Workers, pc'[v] = "downloading"
      PROVE  IF link'[v] \in Lone THEN \A f \in Group[link'[v]] : outcome'[f] = "none"
             ELSE \A f \in mapped'[link'[v]] : outcome'[f] = "none"
  <2>1. CASE v = w
    BY <1>1, <1>7, <2>1 DEF Own, Contained
  <2>2. CASE v # w
    BY <1>1, <1>3, <1>7, <2>2 DEF Fresh, Untried
  <2>3. QED
    BY <2>1, <2>2
<1>8. Fresh'
  <2>1. \A c \in DOMAIN LinksOf : c > creator' \/ (c = creator' /\ phase' = "drive") =>
          \A l \in LinksOf[c] : Untried(l)'
    BY <1>1, <1>4
  <2>2. \A l \in todo' : Untried(l)'
    BY <1>1, <1>5
  <2>3. QED
    BY <2>1, <2>2, <1>6, <1>7 DEF Fresh, Untried
<1>9. ASSUME NEW v \in Workers, pc'[v] = "checking"
      PROVE  /\ \A f \in mapped'[link'[v]] \ Rounded : outcome'[f] # "none" => temp'[f] # "whole"
             /\ link'[v] \in Lone => error'[link'[v]] \/ mapped'[link'[v]] = Group[link'[v]]
  <2>1. CASE v = w
    BY <1>1, <1>9, <2>1 DEF Own, Contained
  <2>2. CASE v # w
    BY <1>1, <1>3, <1>9, <2>2 DEF Unhandled
  <2>3. QED
    BY <2>1, <2>2
<1>10. Unhandled'
  BY <1>9 DEF Unhandled
<1>11. QED
  BY <1>8, <1>10

(* Outcomes are not taken back: what a completed creator has stays.        *)
LEMMA OutcomesStay ==
  ASSUME TypeOK, CompletedHasOutcomes, summary' = summary,
         \A f \in Drive \cup Mega : outcome[f] # "none" => outcome'[f] # "none"
  PROVE  CompletedHasOutcomes'
<1> SUFFICES ASSUME NEW c \in DOMAIN summary, summary[c] = "completed",
                    NEW f \in Range(DriveFiles[c]) \cup UNION {Group[l] : l \in LinksOf[c]}
             PROVE  outcome'[f] # "none"
  BY DEF CompletedHasOutcomes
<1>1. outcome[f] # "none"
  BY DEF CompletedHasOutcomes
<1>2. f \in Drive \cup Mega
  <2>1. c \in DOMAIN DriveFiles /\ c \in DOMAIN LinksOf
    BY ExternalAssumption DEF TypeOK
  <2>2. QED
    BY <2>1 DEF Drive, Mega, Links, Range
<1>3. QED
  BY <1>1, <1>2

(* What the main thread knows of Drive is not touched by the pool.         *)
LEMMA DriveKept ==
  ASSUME TypeOK, FlagTold, DriveSettled, Running, UNCHANGED <<driving, creator>>,
         \A f \in Drive : outcome'[f] = outcome[f]
  PROVE  FlagTold' /\ DriveSettled'
<1>1. UNCHANGED <<driveBlocked, at, quotas, creator>> /\ Here' = Here /\ Running'
  BY DEF driving, Here, Running
<1>2. at \in Nat /\ \A i \in 1..at : Here[i] \in Drive
  BY Creator DEF TypeOK
<1>3. at > 0 => Here[1] \in Drive
  BY <1>2
<1>4. quotas = IF at > 0 /\ driveBlocked THEN 1 ELSE 0
  BY Zenon DEF FlagTold
<1>5. quotas' = IF at' > 0 /\ driveBlocked' THEN 1 ELSE 0
  BY <1>1, <1>4, Zenon
<1>6. at' > 0 /\ quotas' = 0 => outcome'[Here'[1]] # "quota"
  BY <1>1, <1>3 DEF FlagTold
<1>7. FlagTold'
  BY <1>5, <1>6, Zenon DEF FlagTold
<1>8. DriveSettled'
  BY <1>1, <1>2 DEF DriveSettled
<1>9. QED
  BY <1>7, <1>8

LEMMA TaskIInv ==
  ASSUME IInv, NEW w \in Workers, pc[w] # "free", TaskStep(w), UNCHANGED <<driving, main, todo>>
  PROVE  IInv'
<1>1. /\ TInv /\ TypeOK /\ Hands /\ LinksSettled /\ CompletedHasOutcomes /\ PartialNotRecorded
      /\ FlagTold /\ DriveSettled
  BY DEF IInv, TInv
<1>2. /\ Own(w) /\ RecordsWhole /\ Contained(w) /\ link[w] \in Links
      /\ UNCHANGED <<creator, phase, summary, todo>> /\ Running
      /\ Group[link[w]] \subseteq Mega
  BY <1>1, TaskGood, Holds DEF Good, main
<1>3. TypeOK' /\ Hands' /\ Fresh' /\ Unhandled'
  BY <1>1, TaskTypeOK, TaskHands, TaskFresh
<1>4. LinksSettled'
  <2> SUFFICES ASSUME phase = "mega", NEW l \in LinksOf[creator], l \notin todo, l \notin raised',
                      \E f \in Group[l] : outcome'[f] = "none"
               PROVE  Held(l)'
    BY <1>2 DEF LinksSettled
  <2>1. l \in Links /\ Group[l] \subseteq Mega
    BY <1>1, <1>2, Creator, GroupFacts
  <2>2. l \notin raised /\ \E f \in Group[l] : outcome[f] = "none"
    BY <1>2, <2>1 DEF Contained
  <2>3. PICK v \in Workers : pc[v] # "free" /\ link[v] = l
    BY <1>1, <2>2 DEF LinksSettled, Held
  <2>4. CASE v = w
    BY <1>2, <2>3, <2>4 DEF Own, Contained, Held
  <2>5. CASE v # w
    BY <1>2, <2>3, <2>5 DEF Contained, Held
  <2>6. QED
    BY <2>4, <2>5
<1>5. \A f \in Drive : outcome'[f] = outcome[f]
  BY <1>2, GroupFacts DEF Contained
<1>6. FlagTold' /\ DriveSettled'
  BY <1>1, <1>2, <1>5, DriveKept
<1>7. PartialNotRecorded'
  BY <1>1, <1>2 DEF PartialNotRecorded, RecordsWhole
<1>8. CompletedHasOutcomes'
  BY <1>1, <1>2, OutcomesStay DEF Contained
<1>9. QED
  BY <1>3, <1>4, <1>6, <1>7, <1>8 DEF IInv

LEMMA TakeIInv == ASSUME IInv, NEW w \in Workers, NEW l \in Links, Take(w, l) PROVE IInv'
<1>1. /\ TypeOK /\ Hands /\ Fresh /\ Unhandled /\ LinksSettled /\ FlagTold /\ DriveSettled
      /\ PartialNotRecorded /\ CompletedHasOutcomes /\ TaskTypes
  BY TaskTypesOK DEF IInv
<1>2. /\ pc[w] = "free" /\ l \in todo /\ todo' = todo \ {l}
      /\ link' = [link EXCEPT ![w] = l]
      /\ pc' = [pc EXCEPT ![w] = IF l \in Lone THEN "downloading" ELSE "listing"]
      /\ UNCHANGED <<driving, main, mapped, chosen, error, temp, outcome, recorded, raised>>
  BY TakeFrame
<1>3. /\ UNCHANGED <<driveBlocked, at, attempt, quotas, creator, phase, summary>>
      /\ phase = "mega" /\ todo \subseteq LinksOf[creator] /\ Running
  BY <1>1, <1>2 DEF driving, main, Hands, TypeOK
<1>4. /\ \A v \in Workers \ {w} : pc'[v] = pc[v] /\ link'[v] = link[v]
      /\ pc'[w] = (IF l \in Lone THEN "downloading" ELSE "listing") /\ link'[w] = l
      /\ NoLink \notin Links /\ Here' = Here /\ (Running' <=> Running)
  BY <1>1, <1>2, <1>3, GroupFacts DEF TaskTypes, Here, Running
<1>5. TypeOK'
  <2>1. /\ pc' \in [Workers -> {"free", "listing", "downloading", "checking"}]
        /\ link' \in [Workers -> Links \cup {NoLink}] /\ todo' \subseteq Links
        /\ \A v \in Workers : pc'[v] = "free" <=> link'[v] = NoLink
    BY <1>1, <1>2, <1>4 DEF TaskTypes, TypeOK
  <2>2. driveBlocked' \in BOOLEAN /\ error' \in [Links -> BOOLEAN]
    BY <1>1, <1>2, <1>3, Zenon DEF TypeOK
  <2>3. QED
    BY <1>1, <1>2, <1>3, <1>4, <2>1, <2>2 DEF TypeOK
<1>6. Hands'
  <2>1. \A v \in Workers : pc[v] # "free" => link[v] \in LinksOf[creator] \ todo
    BY <1>1 DEF Hands
  <2>2. \A v \in Workers : pc'[v] # "free" => phase' = "mega" /\ link'[v] \in LinksOf[creator'] \ todo'
    BY <1>2, <1>3, <1>4, <2>1
  <2>3. \A v \in Workers : link[v] # l
    BY <1>1, <1>2, <1>4, <2>1 DEF TypeOK
  <2>4. \A v, u \in Workers : pc'[v] # "free" /\ link'[v] = link'[u] => v = u
    BY <1>1, <1>4, <2>3 DEF Hands
  <2>5. \A v \in Workers : pc'[v] = "listing" => link'[v] \notin Lone
    BY <1>1, <1>4 DEF Hands
  <2>6. QED
    BY <1>1, <1>2, <1>3, <2>2, <2>4, <2>5 DEF Hands
<1>7. Fresh'
  <2>1. Untried(l)
    BY <1>1, <1>2 DEF Fresh
  <2>2. QED
    BY <1>1, <1>2, <1>3, <1>4, <2>1 DEF Fresh, Untried
<1>8. Unhandled'
  BY <1>1, <1>2, <1>4 DEF Unhandled
<1>9. LinksSettled'
  BY <1>1, <1>2, <1>3, <1>4 DEF LinksSettled, Held
<1>10. FlagTold' /\ DriveSettled'
  BY <1>1, <1>2, <1>3, DriveKept
<1>11. PartialNotRecorded' /\ CompletedHasOutcomes'
  BY <1>1, <1>2, <1>3 DEF PartialNotRecorded, CompletedHasOutcomes
<1>12. QED
  BY <1>5, <1>6, <1>7, <1>8, <1>9, <1>10, <1>11 DEF IInv

LEMMA WorkerIInv == ASSUME IInv, NEW w \in Workers, WorkerStep(w) PROVE IInv'
<1>1. CASE \E l \in Links : Take(w, l)
  BY <1>1, TakeIInv
<1>2. CASE pc[w] # "free" /\ TaskStep(w) /\ UNCHANGED <<driving, main, todo>>
  BY <1>2, TaskIInv
<1>3. QED
  BY <1>1, <1>2, StepIsTask

-----------------------------------------------------------------------------
(* While main is busy with Drive no link is queued and no worker runs.     *)
LEMMA DriveOnly ==
  ASSUME IInv, phase = "drive"
  PROVE  todo = {} /\ (\A w \in Workers : pc[w] = "free") /\ TypeOK
  BY DEF IInv, Hands

Pool == <<todo, task, mapped, chosen, error, temp, raised>>

(* One Drive file is handled with outcome o. *)
LEMMA HandledIInv ==
  ASSUME IInv, phase = "drive", Running, at < Len(Here),
         NEW o \in {"success", "quota", "failed"},
         outcome' = [outcome EXCEPT ![Here[at + 1]] = o], at' = at + 1,
         attempt' \in 0..(MaxAttempts - 1), driveBlocked' \in BOOLEAN,
         quotas' = IF driveBlocked' THEN 1 ELSE 0,
         quotas' = 0 => quotas = 0 /\ o # "quota",
         recorded' = recorded \/ recorded' = [recorded EXCEPT ![Here[at + 1]] = "whole"],
         UNCHANGED <<main, Pool>>
  PROVE  IInv'
<1>1. /\ TypeOK /\ todo = {} /\ (\A w \in Workers : pc[w] = "free") /\ TaskTypes
      /\ Hands /\ Fresh /\ FlagTold /\ DriveSettled /\ PartialNotRecorded /\ CompletedHasOutcomes
  BY DriveOnly, TaskTypesOK DEF IInv
<1>2. /\ UNCHANGED <<creator, phase, summary, todo, pc, link, mapped, chosen, error, temp, raised>>
      /\ Here' = Here /\ (Running' <=> Running)
  BY DEF main, Pool, task, Here, Running
<1>3. /\ at \in Nat /\ Here[at + 1] \in Drive /\ at + 1 <= Len(Here) /\ Len(Here) \in Nat
      /\ \A i \in 1..at : Here[i] \in Drive
  BY <1>1, Creator DEF TypeOK
<1>4. \A f \in Drive \cup Mega : outcome'[f] = IF f = Here[at + 1] THEN o ELSE outcome[f]
  BY <1>1, <1>3 DEF TaskTypes
<1>5. TaskTypes'
  <2>1. outcome' \in [Drive \cup Mega -> {"none", "success", "quota", "failed", "not_found"}]
    BY <1>1, Updated DEF TaskTypes
  <2>2. recorded' \in [Drive \cup Mega -> {"none", "partial", "shown", "whole"}]
    BY <1>1, Updated DEF TaskTypes
  <2>3. QED
    BY <1>1, <1>2, <2>1, <2>2 DEF TaskTypes
<1>6. TypeOK'
  <2>1. quotas' \in Nat
    OBVIOUS
  <2>2. /\ creator' \in 1..(Len(DriveFiles) + 1) /\ phase' = "drive"
        /\ at' \in Nat /\ at' <= Len(Here')
        /\ todo' \subseteq Links /\ summary' \in [DOMAIN DriveFiles -> {"none", "completed", "failed"}]
        /\ \A w \in Workers : pc'[w] = "free" <=> link'[w] = NoLink
    BY <1>1, <1>2, <1>3 DEF TypeOK
  <2>3. QED
    BY <1>5, <2>1, <2>2 DEF TypeOK, TaskTypes
<1>7. Hands' /\ Unhandled' /\ LinksSettled'
  BY <1>1, <1>2 DEF Hands, Unhandled, LinksSettled
<1>8. \A f \in Mega : outcome'[f] = outcome[f] /\ recorded'[f] = recorded[f]
  BY <1>1, <1>3, <1>4, GroupFacts DEF TaskTypes
<1>9. Fresh'
  <2>1. \A l \in Links : Untried(l) => Untried(l)'
    BY <1>8, GroupFacts DEF Untried
  <2>2. \A c \in DOMAIN LinksOf : LinksOf[c] \subseteq Links
    BY DEF Links, Range
  <2>3. \A c \in DOMAIN LinksOf : c > creator' \/ (c = creator' /\ phase' = "drive") =>
          \A l \in LinksOf[c] : Untried(l)'
    BY <1>1, <1>2, <2>1, <2>2 DEF Fresh
  <2>4. QED
    BY <1>1, <1>2, <2>3 DEF Fresh
<1>10. FlagTold'
  <2>1. at' > 0
    BY <1>3
  <2>2. quotas' = IF at' > 0 /\ driveBlocked' THEN 1 ELSE 0
    BY <2>1, Zenon
  <2>3. ASSUME quotas' = 0 PROVE outcome'[Here[1]] # "quota"
    <3>1. quotas = 0 /\ o # "quota"
      BY <2>3
    <3>2. CASE at = 0
      BY <1>3, <1>4, <3>1, <3>2
    <3>3. CASE at > 0
      <4>1. outcome[Here[1]] # "quota" /\ Here[1] \in Drive
        BY <1>1, <1>3, <3>1, <3>3 DEF FlagTold
      <4>2. QED
        BY <1>4, <3>1, <4>1
    <3>4. QED
      BY <1>3, <3>2, <3>3
  <2>4. QED
    BY <1>2, <2>2, <2>3, Zenon DEF FlagTold
<1>11. DriveSettled'
  <2> SUFFICES ASSUME NEW i \in 1..(at + 1) PROVE outcome'[Here[i]] # "none"
    BY <1>2 DEF DriveSettled
  <2>1. CASE i = at + 1
    BY <1>3, <1>4, <2>1
  <2>2. CASE i # at + 1
    <3>1. i \in 1..at /\ Here[i] \in Drive /\ outcome[Here[i]] # "none"
      BY <1>1, <1>3, <2>2 DEF DriveSettled
    <3>2. QED
      BY <1>4, <3>1
  <2>3. QED
    BY <2>1, <2>2
<1>12. PartialNotRecorded'
  BY <1>1, <1>8 DEF PartialNotRecorded
<1>13. CompletedHasOutcomes'
  BY <1>1, <1>2, <1>4, OutcomesStay
<1>14. QED
  BY <1>6, <1>7, <1>9, <1>10, <1>11, <1>12, <1>13 DEF IInv

(* main goes on to the next creator. *)
LEMMA NextCreatorIInv ==
  ASSUME IInv, Running, NEW s \in {"completed", "failed"}, NextCreator(s),
         UNCHANGED <<driveBlocked, Pool, outcome>>,
         todo = {}, \A w \in Workers : pc[w] = "free",
         \/ recorded' = recorded
         \/ \E f \in Drive, r \in {"none", "whole"} : recorded' = [recorded EXCEPT ![f] = r],
         s = "completed" => \A f \in Range(Here) \cup UNION {Group[l] : l \in LinksOf[creator]} :
           outcome[f] # "none"
  PROVE  IInv'
<1>1. /\ TypeOK /\ TaskTypes /\ Hands /\ Fresh /\ PartialNotRecorded /\ CompletedHasOutcomes
  BY TaskTypesOK DEF IInv
<1>2. /\ creator' = creator + 1 /\ phase' = "drive" /\ at' = 0 /\ attempt' = 0 /\ quotas' = 0
      /\ summary' = [summary EXCEPT ![creator] = s]
      /\ UNCHANGED <<driveBlocked, todo, pc, link, mapped, chosen, error, temp, raised, outcome>>
  BY DEF NextCreator, Pool, task
<1>3. creator \in 1..Len(DriveFiles) /\ Len(DriveFiles) \in Nat /\ DOMAIN DriveFiles = 1..Len(DriveFiles)
  BY <1>1, Creator, ExternalAssumption
<1>4. /\ recorded' \in [Drive \cup Mega -> {"none", "partial", "shown", "whole"}]
      /\ \A f \in Mega : recorded'[f] = recorded[f]
  BY <1>1, GroupFacts, Updated DEF TaskTypes
<1>5. TypeOK'
  <2>1. Running' => at' <= Len(Here')
    <3> SUFFICES ASSUME Running' PROVE 0 <= Len(DriveFiles[creator + 1])
      BY <1>2 DEF Here
    <3>1. creator + 1 \in DOMAIN DriveFiles
      BY <1>2, <1>3 DEF Running
    <3>2. DriveFiles[creator + 1] \in Seq(Drive)
      BY <3>1, ExternalAssumption
    <3>3. QED
      BY <3>2
  <2>2. driveBlocked' \in BOOLEAN /\ error' \in [Links -> BOOLEAN] /\ MaxAttempts \in Nat \ {0}
    BY <1>1, <1>2, ExternalAssumption, Zenon DEF TypeOK
  <2>3. summary' \in [DOMAIN DriveFiles -> {"none", "completed", "failed"}]
    BY <1>1, <1>2 DEF TypeOK
  <2>4. QED
    BY <1>1, <1>2, <1>3, <1>4, <2>1, <2>2, <2>3 DEF TypeOK
<1>6. Hands' /\ Unhandled' /\ LinksSettled'
  BY <1>1, <1>2 DEF Hands, Unhandled, LinksSettled
<1>7. Fresh'
  <2>1. \A c \in DOMAIN LinksOf : c > creator + 1 \/ c = creator + 1 => \A l \in LinksOf[c] : Untried(l)'
    <3> TAKE c \in DOMAIN LinksOf
    <3> HAVE c > creator + 1 \/ c = creator + 1
    <3>1. c > creator
      BY <1>3, ExternalAssumption
    <3>2. QED
      BY <1>1, <1>2, <3>1 DEF Fresh, Untried
  <2>2. QED
    BY <1>2, <2>1 DEF Fresh
<1>8. FlagTold'
  <2>1. ~(at' > 0)
    BY <1>2
  <2>2. QED
    BY <1>2, <2>1, Zenon DEF FlagTold
<1>9. DriveSettled' /\ PartialNotRecorded'
  BY <1>1, <1>2, <1>4 DEF DriveSettled, PartialNotRecorded
<1>10. CompletedHasOutcomes'
  BY <1>1, <1>2 DEF CompletedHasOutcomes, Here, TypeOK
<1>11. QED
  BY <1>5, <1>6, <1>7, <1>8, <1>9, <1>10 DEF IInv

LEMMA SkipIInv == ASSUME IInv, Skip PROVE IInv'
<1>1. /\ phase = "drive" /\ Running /\ at < Len(Here) /\ at > 0 /\ driveBlocked
      /\ outcome' = [outcome EXCEPT ![Here[at + 1]] = "quota"] /\ at' = at + 1
      /\ UNCHANGED <<driveBlocked, attempt, quotas, main, Pool, recorded>>
  BY Zenon DEF Skip, Blocked, Pool
<1>2. driveBlocked' \in BOOLEAN /\ quotas = 1 /\ attempt' \in 0..(MaxAttempts - 1)
  BY <1>1 DEF IInv, FlagTold, TypeOK
<1>3. quotas' = IF driveBlocked' THEN 1 ELSE 0
  BY <1>1, <1>2, Zenon
<1>4. quotas' # 0
  BY <1>1, <1>2
<1>5. QED
  BY <1>1, <1>2, <1>3, <1>4, HandledIInv

(* A request is made only if none of this creator's was rejected. *)
LEMMA NotRejected ==
  ASSUME IInv, Attempting
  PROVE  /\ phase = "drive" /\ Running /\ at < Len(Here) /\ quotas = 0
         /\ 0 \in 0..(MaxAttempts - 1)
<1>1. phase = "drive" /\ Running /\ at < Len(Here) /\ ~(at > 0 /\ driveBlocked)
  BY Zenon DEF Attempting, Blocked
<1>2. quotas = IF at > 0 /\ driveBlocked THEN 1 ELSE 0
  BY <1>1, Zenon DEF IInv, FlagTold
<1>3. quotas = 0
  BY <1>1, <1>2, Zenon
<1>4. QED
  BY <1>1, <1>3, ExternalAssumption

LEMMA HandleIInv ==
  ASSUME IInv, Attempting, NEW o \in {"success", "quota", "failed"}, Handle(o),
         quotas' = IF o = "quota" THEN quotas + 1 ELSE quotas,
         recorded' = recorded \/ recorded' = [recorded EXCEPT ![Here[at + 1]] = "whole"]
  PROVE  IInv'
<1>1. /\ outcome' = [outcome EXCEPT ![Here[at + 1]] = o] /\ at' = at + 1 /\ attempt' = 0
      /\ UNCHANGED <<main, Pool>>
  BY Zenon DEF Handle, Pool
<1>2. driveBlocked' \in BOOLEAN /\ (driveBlocked' <=> o = "quota")
  BY Zenon DEF Handle
<1>3. /\ phase = "drive" /\ Running /\ at < Len(Here) /\ quotas = 0
      /\ 0 \in 0..(MaxAttempts - 1)
  BY NotRejected
<1>4. quotas' = IF o = "quota" THEN 1 ELSE 0
  BY <1>3
<1>5. quotas' = IF driveBlocked' THEN 1 ELSE 0
  BY <1>2, <1>4, Zenon
<1>6. quotas' = 0 => o # "quota"
  BY <1>4
<1>7. QED
  BY <1>1, <1>2, <1>3, <1>5, <1>6, HandledIInv

LEMMA DriveIInv == ASSUME IInv, DriveOk \/ DriveQuota \/ DriveFails PROVE IInv'
<1>1. CASE DriveOk
  <2>1. PICK o \in {"success", "failed"} : Handle(o)
    BY <1>1, Zenon DEF DriveOk
  <2>2. Attempting /\ quotas' = quotas /\ recorded' = [recorded EXCEPT ![Here[at + 1]] = "whole"]
    BY <1>1, Zenon DEF DriveOk
  <2>3. QED
    BY <2>1, <2>2, HandleIInv
<1>2. CASE DriveQuota
  <2>1. Attempting /\ Handle("quota") /\ quotas' = quotas + 1 /\ recorded' = recorded
    BY <1>2, Zenon DEF DriveQuota
  <2>2. QED
    BY <2>1, HandleIInv
<1>3. CASE DriveFails
  <2>1. /\ Attempting /\ quotas' = quotas /\ recorded' = recorded
        /\ \/ /\ attempt < MaxAttempts - 1 /\ attempt' = attempt + 1
              /\ UNCHANGED <<driveBlocked, at, main, todo, task, mapped, chosen, error, temp, outcome, raised>>
           \/ Handle("failed")
    BY <1>3, Zenon DEF DriveFails
  <2>2. CASE Handle("failed")
    BY <2>1, <2>2, HandleIInv
  <2>3. CASE /\ attempt < MaxAttempts - 1 /\ attempt' = attempt + 1
             /\ UNCHANGED <<driveBlocked, at, main, todo, task, mapped, chosen, error, temp, outcome, raised>>
    <3>1. UNCHANGED <<driveBlocked, at, quotas, creator, phase, summary, todo, pc, link, mapped, chosen,
                      error, temp, outcome, raised, recorded>>
      BY <2>1, <2>3 DEF main, task
    <3>2. Here' = Here /\ (Running' <=> Running) /\ TypeOK
      BY <3>1 DEF Here, Running, IInv
    <3>3. TypeOK'
      <4>1. driveBlocked' \in BOOLEAN /\ error' \in [Links -> BOOLEAN]
        BY <3>1, <3>2, Zenon DEF TypeOK
      <4>2. attempt' \in 0..(MaxAttempts - 1)
        BY <2>3, <3>2, ExternalAssumption DEF TypeOK
      <4>3. QED
        BY <3>1, <3>2, <4>1, <4>2 DEF TypeOK
    <3>4. Hands' /\ Unhandled' /\ LinksSettled'
      BY <3>1 DEF IInv, Hands, Unhandled, LinksSettled, Held
    <3>5. Fresh'
      BY <3>1 DEF IInv, Fresh, Untried
    <3>6. FlagTold'
      BY <3>1, <3>2, Zenon DEF IInv, FlagTold
    <3>7. DriveSettled' /\ PartialNotRecorded' /\ CompletedHasOutcomes'
      BY <3>1, <3>2 DEF IInv, DriveSettled, PartialNotRecorded, CompletedHasOutcomes
    <3>8. QED
      BY <3>3, <3>4, <3>5, <3>6, <3>7 DEF IInv
  <2>4. QED
    BY <2>1, <2>2, <2>3
<1>4. QED
  BY <1>1, <1>2, <1>3

LEMMA DriveRaisesIInv == ASSUME IInv, DriveRaises PROVE IInv'
<1>1. /\ NextCreator("failed") /\ UNCHANGED <<driveBlocked, Pool, outcome>>
      /\ \E r \in {"none", "whole"} : recorded' = [recorded EXCEPT ![Here[at + 1]] = r]
      /\ phase = "drive" /\ Running /\ at < Len(Here)
  BY Zenon DEF DriveRaises, Attempting, Pool
<1>2. todo = {} /\ (\A w \in Workers : pc[w] = "free") /\ TypeOK
  BY <1>1, DriveOnly
<1>3. Here[at + 1] \in Drive
  BY <1>1, <1>2, Creator DEF TypeOK
<1>4. QED
  BY <1>1, <1>2, <1>3, NextCreatorIInv

LEMMA OpenPoolIInv == ASSUME IInv, OpenPool PROVE IInv'
<1>1. /\ phase = "drive" /\ Running /\ at = Len(Here) /\ phase' = "mega" /\ todo' = LinksOf[creator]
      /\ UNCHANGED <<driving, creator, summary, task, mapped, chosen, error, temp, outcome, recorded, raised>>
  BY Zenon DEF OpenPool
<1>2. /\ UNCHANGED <<driveBlocked, at, attempt, quotas, creator, summary, pc, link, mapped, chosen,
                     error, temp, outcome, recorded, raised>>
      /\ Here' = Here /\ (Running' <=> Running)
  BY <1>1 DEF driving, task, Here, Running
<1>3. /\ TypeOK /\ (\A w \in Workers : pc[w] = "free") /\ LinksOf[creator] \subseteq Links
      /\ creator \in DOMAIN LinksOf /\ creator \in Int
  BY <1>1, DriveOnly, Creator
<1>4. TypeOK'
  <2>1. driveBlocked' \in BOOLEAN /\ error' \in [Links -> BOOLEAN]
    BY <1>2, <1>3, Zenon DEF TypeOK
  <2>2. QED
    BY <1>1, <1>2, <1>3, <2>1 DEF TypeOK
<1>5. Hands' /\ Unhandled' /\ LinksSettled'
  BY <1>1, <1>2, <1>3 DEF IInv, Hands, Unhandled, LinksSettled
<1>6. Fresh'
  <2>1. \A c \in DOMAIN LinksOf : c > creator \/ c = creator => \A l \in LinksOf[c] : Untried(l)'
    BY <1>1, <1>2 DEF IInv, Fresh, Untried
  <2>2. QED
    BY <1>1, <1>2, <1>3, <2>1 DEF Fresh
<1>7. FlagTold'
  BY <1>2, Zenon DEF IInv, FlagTold
<1>8. DriveSettled' /\ PartialNotRecorded' /\ CompletedHasOutcomes'
  BY <1>2 DEF IInv, DriveSettled, PartialNotRecorded, CompletedHasOutcomes
<1>9. QED
  BY <1>4, <1>5, <1>6, <1>7, <1>8 DEF IInv

LEMMA EndCreatorIInv == ASSUME IInv, EndCreator PROVE IInv'
<1>1. /\ phase = "mega" /\ todo = {} /\ \A w \in Workers : pc[w] = "free"
      /\ UNCHANGED <<driveBlocked, Pool, outcome, recorded>>
      /\ \/ raised \cap LinksOf[creator] = {} /\ NextCreator("completed")
         \/ NextCreator("failed")
  BY Zenon DEF EndCreator, Pool
<1>2. TypeOK /\ Running /\ at = Len(Here)
  BY <1>1 DEF IInv, TypeOK
<1>3. CASE raised \cap LinksOf[creator] = {} /\ NextCreator("completed")
  <2>1. ASSUME NEW l \in LinksOf[creator], NEW f \in Group[l] PROVE outcome[f] # "none"
    BY <1>1, <1>3, <2>1 DEF IInv, LinksSettled, Held
  <2>2. ASSUME NEW f \in Range(Here) PROVE outcome[f] # "none"
    <3>1. PICK i \in DOMAIN Here : Here[i] = f
      BY DEF Range
    <3>2. i \in 1..at
      BY <1>2, Creator
    <3>3. QED
      BY <1>2, <3>1, <3>2 DEF IInv, DriveSettled
  <2>3. QED
    BY <1>1, <1>2, <1>3, <2>1, <2>2, NextCreatorIInv
<1>4. CASE NextCreator("failed")
  BY <1>1, <1>2, <1>4, NextCreatorIInv
<1>5. QED
  BY <1>1, <1>3, <1>4

LEMMA MainIInv == ASSUME IInv, MainStep PROVE IInv'
  BY SkipIInv, DriveIInv, DriveRaisesIInv, OpenPoolIInv, EndCreatorIInv, Zenon DEF MainStep

LEMMA OtherIInv == ASSUME IInv, UNCHANGED vars PROVE IInv'
<1>1. /\ UNCHANGED <<driveBlocked, at, attempt, quotas, creator, phase, summary, todo, pc, link, mapped,
                     chosen, error, temp, outcome, recorded, raised>>
      /\ TypeOK
  BY DEF vars, driving, main, task, IInv
<1>2. Here' = Here /\ (Running' <=> Running)
  BY <1>1 DEF Here, Running
<1>3. TypeOK'
  <2>1. driveBlocked' \in BOOLEAN /\ error' \in [Links -> BOOLEAN]
    BY <1>1, Zenon DEF TypeOK
  <2>2. QED
    BY <1>1, <1>2, <2>1 DEF TypeOK
<1>4. Hands' /\ Unhandled' /\ LinksSettled'
  BY <1>1 DEF IInv, Hands, Unhandled, LinksSettled, Held
<1>5. Fresh'
  BY <1>1 DEF IInv, Fresh, Untried
<1>6. FlagTold'
  BY <1>1, <1>2, Zenon DEF IInv, FlagTold
<1>7. DriveSettled' /\ PartialNotRecorded' /\ CompletedHasOutcomes'
  BY <1>1, <1>2 DEF IInv, DriveSettled, PartialNotRecorded, CompletedHasOutcomes
<1>8. QED
  BY <1>3, <1>4, <1>5, <1>6, <1>7 DEF IInv

LEMMA NextIInv == IInv /\ [Next]_vars => IInv'
<1> SUFFICES ASSUME IInv, [Next]_vars PROVE IInv'
  OBVIOUS
<1>1. QED
  BY MainIInv, WorkerIInv, OtherIInv, Zenon DEF Next, Finished

(* Only a task touches the temp folders. *)
LEMMA StepKeepsWhole == IInv /\ [Next]_vars => [KeepsWhole]_vars
<1> SUFFICES ASSUME IInv, Next PROVE KeepsWhole
  BY DEF KeepsWhole, vars
<1>1. CASE temp' = temp
  BY <1>1 DEF KeepsWhole
<1>2. ASSUME NEW w \in Workers, WorkerStep(w) PROVE KeepsWhole
  <2>1. CASE \E l \in Links : Take(w, l)
    BY <1>1, <2>1, TakeFrame
  <2>2. CASE pc[w] # "free" /\ TaskStep(w)
    BY <2>2, TaskGood DEF IInv, TInv, Good
  <2>3. QED
    BY <1>2, <2>1, <2>2, StepIsTask
<1>3. MainStep \/ Finished => temp' = temp
  BY Zenon DEF MainStep, Skip, DriveOk, DriveQuota, DriveFails, Handle, DriveRaises, OpenPool,
               EndCreator, Finished, vars
<1>4. QED
  BY <1>1, <1>2, <1>3 DEF Next

-----------------------------------------------------------------------------
(* Types, and what a creator's run looks like between any two steps: the   *)
(* pool is open only after the Drive loop, and a worker has a link exactly *)
(* while it is not free.                                                   *)
THEOREM TypeCorrect == Spec => []TypeOK
<1>1. IInv => TypeOK
  BY DEF IInv
<1>2. QED
  BY InitIInv, NextIInv, <1>1, PTL DEF Spec

(* Drive rejects at most one request of a creator, retries included, and a *)
(* creator's files fail as blocked only when it was asked for that creator,*)
(* for any sequence of creators and files.                                 *)
THEOREM OneRequest == Spec => []OneRequestTellsTheBlock
<1>1. ASSUME IInv PROVE OneRequestTellsTheBlock
  <2>1. at \in Nat /\ FlagTold
    BY <1>1 DEF IInv, TypeOK
  <2>2. quotas = 0 \/ quotas = 1
    BY <2>1, Zenon DEF FlagTold
  <2>3. Running /\ at > 0 /\ quotas = 0 => outcome[Here[1]] # "quota"
    BY <2>1, Zenon DEF FlagTold
  <2>4. at > 0 => 1 \in 1..at
    BY <2>1
  <2>5. QED
    BY <2>2, <2>3, <2>4 DEF OneRequestTellsTheBlock
<1>2. QED
  BY InitIInv, NextIInv, <1>1, PTL DEF Spec

(* No file whose size the listing shows is recorded before it is whole,    *)
(* whatever megatools took its numbers for and wherever it stopped.        *)
THEOREM NoPartial == Spec => []PartialNotRecorded
<1>1. IInv => PartialNotRecorded
  BY DEF IInv
<1>2. QED
  BY InitIInv, NextIInv, <1>1, PTL DEF Spec

(* download_all_files returns only with an outcome for each Drive file and *)
(* each file of each Mega link, for any number of creators, links, workers.*)
THEOREM AllHaveOutcomes == Spec => []CompletedHasOutcomes
<1>1. IInv => CompletedHasOutcomes
  BY DEF IInv
<1>2. QED
  BY InitIInv, NextIInv, <1>1, PTL DEF Spec

(* No step removes a whole file from a link's temp folder without having   *)
(* recorded it, but for the exceptions that WholeFilesKept names.          *)
THEOREM KeepsWholeFiles == Spec => WholeFilesKept
<1>1. QED
  BY InitIInv, NextIInv, StepKeepsWhole, PTL DEF Spec, WholeFilesKept, KeepsWhole
-----------------------------------------------------------------------------
(* The Drive loop and the Mega pool, seen as Downloads. *)

(* The Drive files that main has not come to have no outcome.              *)
Later ==
  \A c \in DOMAIN DriveFiles : \A i \in DOMAIN DriveFiles[c] :
    c > creator \/ (c = creator /\ i > at) => outcome[DriveFiles[c][i]] = "none"

SInv == IInv /\ Later

(* What main's steps are to Downloads: one file of Drive is handled, the   *)
(* creator is left, or nothing shows.                                      *)
Handled ==
  /\ Running /\ at < Len(Here)
  /\ \E o \in {"success", "quota", "failed"} : outcome' = [outcome EXCEPT ![Here[at + 1]] = o]
  /\ at' = at + 1 /\ UNCHANGED <<creator, summary>>
Left ==
  \E s \in {"completed", "failed"} :
    /\ Running /\ NextCreator(s) /\ outcome' = outcome
    /\ s = "completed" => \A f \in Range(Here) \cup UNION {Group[l] : l \in LinksOf[creator]} :
         outcome[f] # "none"

LEMMA HandleHandled ==
  ASSUME Attempting, NEW o \in {"success", "quota", "failed"}, Handle(o)
  PROVE  Handled
<1>1. Running /\ at < Len(Here) /\ at' = at + 1
  BY Zenon DEF Attempting, Handle
<1>2. outcome' = [outcome EXCEPT ![Here[at + 1]] = o] /\ UNCHANGED <<creator, summary>>
  BY Zenon DEF Handle, main
<1>3. QED
  BY <1>1, <1>2 DEF Handled

LEMMA EndCreatorLeaves == ASSUME IInv, EndCreator PROVE Left
<1>1. /\ phase = "mega" /\ todo = {} /\ (\A w \in Workers : pc[w] = "free") /\ outcome' = outcome
      /\ \/ raised \cap LinksOf[creator] = {} /\ NextCreator("completed")
         \/ NextCreator("failed")
  BY Zenon DEF EndCreator
<1>2. TypeOK /\ Running /\ at = Len(Here)
  BY <1>1 DEF IInv, TypeOK
<1>3. CASE raised \cap LinksOf[creator] = {} /\ NextCreator("completed")
  <2>1. ASSUME NEW l \in LinksOf[creator], NEW f \in Group[l] PROVE outcome[f] # "none"
    BY <1>1, <1>3, <2>1 DEF IInv, LinksSettled, Held
  <2>2. \A f \in Range(Here) : outcome[f] # "none"
    BY <1>2, Creator DEF IInv, DriveSettled, Range
  <2>3. QED
    BY <1>1, <1>2, <1>3, <2>1, <2>2 DEF Left
<1>4. CASE NextCreator("failed")
  BY <1>1, <1>2, <1>4 DEF Left
<1>5. QED
  BY <1>1, <1>3, <1>4

LEMMA MainSeen ==
  ASSUME IInv, MainStep
  PROVE  Handled \/ Left \/ UNCHANGED <<creator, summary, outcome, at>>
<1>1. CASE Skip
  BY <1>1 DEF Skip, Handled, main
<1>2. CASE DriveOk \/ DriveQuota
  <2>1. Attempting /\ \E o \in {"success", "quota", "failed"} : Handle(o)
    BY <1>2, Zenon DEF DriveOk, DriveQuota
  <2>2. QED
    BY <2>1, HandleHandled
<1>3. CASE DriveFails
  <2>1. Attempting /\ (Handle("failed") \/ UNCHANGED <<creator, summary, outcome, at>>)
    BY <1>3, Zenon DEF DriveFails, main
  <2>2. QED
    BY <2>1, HandleHandled
<1>4. CASE DriveRaises
  <2>1. Running /\ NextCreator("failed") /\ outcome' = outcome
    BY <1>4, Zenon DEF DriveRaises, Attempting
  <2>2. QED
    BY <2>1 DEF Left
<1>5. CASE OpenPool
  BY <1>5, Zenon DEF OpenPool, driving
<1>6. QED
  BY <1>1, <1>2, <1>3, <1>4, <1>5, EndCreatorLeaves, Zenon DEF MainStep

(* A task gives an outcome to files of its own link that have none.        *)
LEMMA TaskSettles ==
  ASSUME TInv, NEW w \in Workers, pc[w] # "free", TaskStep(w), NEW f \in Drive \cup Mega
  PROVE  outcome'[f] = outcome[f] \/ (f \in Group[link[w]] /\ outcome[f] = "none")
<1>1. TypeOK /\ Hands /\ Fresh /\ TaskTypes
  BY TaskTypesOK DEF TInv
<1>2. f \in Group[link[w]] \/ outcome'[f] = outcome[f]
  BY <1>1, TaskFrame DEF Contained
<1>3. CASE List(w)
  <2>1. pc[w] = "listing"
    BY <1>3 DEF List
  <2>2. QED
    BY <1>1, <1>2, <2>1 DEF Fresh, Untried
<1>4. CASE \E g \in Mega : Check(w, g)
  <2>1. PICK g \in Mega : /\ outcome[g] = "none"
                          /\ \E o \in {"success", "failed"} : outcome' = [outcome EXCEPT ![g] = o]
    BY <1>4, Zenon DEF Check
  <2>2. QED
    BY <1>1, <1>2, <2>1 DEF TaskTypes
<1>5. CASE EndLink(w)
  <2>1. outcome' = [g \in DOMAIN outcome |->
                      IF g \in Group[link[w]] /\ outcome[g] = "none" THEN "failed" ELSE outcome[g]]
    BY <1>5, Zenon DEF EndLink
  <2>2. QED
    BY <1>1, <1>2, <2>1 DEF TaskTypes
<1>6. CASE \/ ListFails(w) \/ Succeed(w) \/ Break(w)
          \/ \E g \in Mega : Write(w, g) \/ CheckRaises(w, g)
  <2>1. outcome' = outcome
    BY <1>6, Zenon DEF ListFails, Succeed, Break, Write, CheckRaises
  <2>2. QED
    BY <2>1
<1>7. QED
  BY <1>3, <1>4, <1>5, <1>6, Zenon DEF TaskStep

(* What a worker's step is to Downloads. *)
LEMMA WorkerSeen ==
  ASSUME IInv, NEW w \in Workers, WorkerStep(w)
  PROVE  /\ UNCHANGED <<creator, summary, at>>
         /\ \/ outcome' = outcome
            \/ /\ Running
               /\ \A f \in Drive \cup Mega :
                    \/ outcome'[f] = outcome[f]
                    \/ outcome[f] = "none" /\ \E l \in LinksOf[creator] : f \in Group[l]
<1>1. CASE \E l \in Links : Take(w, l)
  BY <1>1, TakeFrame DEF driving, main
<1>2. CASE pc[w] # "free" /\ TaskStep(w) /\ UNCHANGED <<driving, main, todo>>
  <2>1. Running /\ link[w] \in LinksOf[creator]
    BY <1>2, Holds DEF IInv
  <2>2. QED
    BY <1>2, <2>1, TaskSettles DEF IInv, TInv, driving, main
<1>3. QED
  BY <1>1, <1>2, StepIsTask

(* The Drive files are files of Drive, none is there twice.                *)
LEMMA DriveFacts ==
  ASSUME NEW c \in DOMAIN DriveFiles, NEW i \in DOMAIN DriveFiles[c]
  PROVE  /\ DriveFiles[c][i] \in Drive /\ DriveFiles[c][i] \notin Mega /\ c \in Nat /\ i \in Nat /\ i > 0
         /\ \A d \in DOMAIN DriveFiles : \A j \in DOMAIN DriveFiles[d] :
              DriveFiles[c][i] = DriveFiles[d][j] => c = d /\ i = j
<1>1. DriveFiles \in Seq(Seq(Drive)) /\ Drive \cap Mega = {}
  BY ExternalAssumption
<1>2. c \in Nat /\ DriveFiles[c] \in Seq(Drive)
  BY <1>1
<1>3. DriveFiles[c][i] \in Drive /\ i \in Nat /\ i > 0
  BY <1>2
<1>4. QED
  BY <1>1, <1>2, <1>3, ExternalAssumption

LEMMA InitSInv == Init => SInv
<1> SUFFICES ASSUME Init PROVE Later
  BY InitIInv DEF SInv
<1>1. QED
  BY DriveFacts DEF Init, Later

LEMMA LaterNext == ASSUME SInv, [Next]_vars PROVE Later'
<1>1. TypeOK /\ TaskTypes /\ IInv
  BY TaskTypesOK DEF SInv, IInv
<1> SUFFICES ASSUME NEW c \in DOMAIN DriveFiles, NEW i \in DOMAIN DriveFiles[c],
                    c > creator' \/ (c = creator' /\ i > at')
             PROVE  outcome'[DriveFiles[c][i]] = "none"
  BY DEF Later
<1>2. at \in Nat /\ creator \in Nat /\ c \in Nat /\ i \in Nat /\ i > 0 /\ DriveFiles[c][i] \in Drive
  BY <1>1, DriveFacts DEF TypeOK
<1>3. CASE UNCHANGED <<creator, at, outcome>>
  BY <1>3 DEF SInv, Later
<1>4. CASE Handled
  <2>1. creator \in DOMAIN DriveFiles /\ at + 1 \in DOMAIN DriveFiles[creator] /\ Here = DriveFiles[creator]
    BY <1>1, <1>2, <1>4, Creator DEF Handled, Here
  <2>2. outcome[DriveFiles[c][i]] = "none"
    BY <1>2, <1>4 DEF SInv, Later, Handled
  <2>3. DriveFiles[c][i] # Here[at + 1]
    BY <1>2, <1>4, <2>1, DriveFacts DEF Handled
  <2>4. QED
    BY <1>1, <1>2, <1>4, <2>2, <2>3 DEF Handled, TaskTypes
<1>5. CASE Left
  <2>1. outcome' = outcome /\ creator' = creator + 1
    BY <1>5 DEF Left, NextCreator
  <2>2. c > creator
    BY <1>2, <2>1
  <2>3. QED
    BY <2>1, <2>2 DEF SInv, Later
<1>6. ASSUME NEW w \in Workers, WorkerStep(w) PROVE outcome'[DriveFiles[c][i]] = "none"
  <2>1. UNCHANGED <<creator, at>>
    BY <1>1, <1>6, WorkerSeen
  <2>2. outcome[DriveFiles[c][i]] = "none"
    BY <2>1 DEF SInv, Later
  <2>3. CASE outcome' = outcome
    BY <2>2, <2>3
  <2>4. CASE /\ Running
             /\ \A f \in Drive \cup Mega :
                  \/ outcome'[f] = outcome[f]
                  \/ outcome[f] = "none" /\ \E l \in LinksOf[creator] : f \in Group[l]
    <3>1. \A l \in LinksOf[creator] : DriveFiles[c][i] \notin Group[l]
      BY <1>1, <2>4, Creator, GroupFacts, DriveFacts
    <3>2. QED
      BY <1>2, <2>2, <2>4, <3>1
  <2>5. QED
    BY <1>1, <1>6, <2>3, <2>4, WorkerSeen
<1>7. UNCHANGED vars => UNCHANGED <<creator, at, outcome>>
  BY DEF vars, main, driving
<1>8. QED
  BY <1>1, <1>3, <1>4, <1>5, <1>6, <1>7, MainSeen DEF Next, Finished

LEMMA NextSInv == SInv /\ [Next]_vars => SInv'
  BY NextIInv, LaterNext DEF SInv

LEMMA InitReturns == Init => Returns!Init
<1> SUFFICES ASSUME Init PROVE Returns!Init
  OBVIOUS
<1>1. DOMAIN [c \in DOMAIN DriveFiles |->
                Range(DriveFiles[c]) \cup UNION {Group[l] : l \in LinksOf[c]}] = DOMAIN DriveFiles
  OBVIOUS
<1>2. QED
  BY <1>1 DEF Init, Returns!Init

(* Files of the running creator that had no outcome get one. *)
LEMMA Settles ==
  ASSUME TypeOK, TaskTypes', Running, UNCHANGED <<creator, summary>>,
         \A f \in Drive \cup Mega :
           \/ outcome'[f] = outcome[f]
           \/ /\ outcome[f] = "none"
              /\ f \in Range(Here) \cup UNION {Group[l] : l \in LinksOf[creator]}
  PROVE  Returns!Next
<1>1. creator \in DOMAIN DriveFiles
  BY Creator
<1>2. Returns!Settle
  BY <1>1 DEF Returns!Settle, Returns!Running, TaskTypes, Here
<1>3. QED
  BY <1>2 DEF Returns!Next

LEMMA HandledReturns == ASSUME SInv, SInv', Handled PROVE Returns!Next
<1>1. TypeOK /\ Running /\ UNCHANGED <<creator, summary>> /\ at \in Nat /\ at < Len(Here) /\ TaskTypes
  BY TaskTypesOK DEF SInv, IInv, Handled, TypeOK
<1>2. TaskTypes'
  BY DEF SInv, IInv, TypeOK, TaskTypes
<1>3. at + 1 \in DOMAIN Here /\ outcome[Here[at + 1]] = "none" /\ Here[at + 1] \in Range(Here)
  <2>1. creator \in DOMAIN DriveFiles /\ at + 1 \in DOMAIN DriveFiles[creator] /\ Here = DriveFiles[creator]
    BY <1>1, Creator DEF Here
  <2>2. QED
    BY <1>1, <2>1 DEF SInv, Later, Range
<1>4. \A f \in Drive \cup Mega : f # Here[at + 1] => outcome'[f] = outcome[f]
  BY <1>1 DEF Handled, TaskTypes
<1>5. QED
  BY <1>1, <1>2, <1>3, <1>4, Settles

LEMMA LeftReturns == ASSUME SInv, Left PROVE Returns!Next
<1>1. PICK s \in {"completed", "failed"} :
        /\ Running /\ NextCreator(s) /\ outcome' = outcome
        /\ s = "completed" => \A f \in Range(Here) \cup UNION {Group[l] : l \in LinksOf[creator]} :
             outcome[f] # "none"
  BY DEF Left
<1>2. creator \in DOMAIN DriveFiles
  BY <1>1, Creator DEF SInv, IInv
<1>3. Returns!End(s)
  BY <1>1, <1>2 DEF Returns!End, Returns!Running, NextCreator, Here
<1>4. QED
  BY <1>3 DEF Returns!Next

LEMMA WorkerReturns ==
  ASSUME SInv, SInv', NEW w \in Workers, WorkerStep(w)
  PROVE  Returns!Next \/ UNCHANGED Returns!dvars
<1>1. CASE outcome' = outcome
  BY <1>1, WorkerSeen DEF SInv, Returns!dvars
<1>2. CASE outcome' # outcome
  <2>1. TypeOK /\ TaskTypes'
    BY DEF SInv, IInv, TypeOK, TaskTypes
  <2>2. QED
    BY <1>2, <2>1, WorkerSeen, Settles DEF SInv
<1>3. QED
  BY <1>1, <1>2

LEMMA NextReturns == SInv /\ [Next]_vars => [Returns!Next]_(Returns!dvars)
<1> SUFFICES ASSUME SInv, [Next]_vars PROVE Returns!Next \/ UNCHANGED Returns!dvars
  OBVIOUS
<1>1. SInv'
  BY NextSInv
<1>2. CASE UNCHANGED <<creator, summary, outcome>>
  BY <1>2 DEF Returns!dvars
<1>3. UNCHANGED vars => UNCHANGED <<creator, summary, outcome>>
  BY DEF vars, main
<1>4. QED
  BY <1>1, <1>2, <1>3, MainSeen, HandledReturns, LeftReturns, WorkerReturns DEF SInv, Next, Finished

(* No file of Drive or Mega comes to its outcome twice, or while another   *)
(* creator runs, and a creator is completed only when each has one: every  *)
(* behaviour of the Drive loop and the Mega pool is one of Downloads, for  *)
(* any creators, links and workers (that main gets past every creator is   *)
(* model-checked).                                                         *)
THEOREM ExternalSettle == Spec => Returns!Safety
<1>1. QED
  BY InitSInv, NextSInv, InitReturns, NextReturns, PTL DEF Spec, Returns!Safety
=============================================================================
