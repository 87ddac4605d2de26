---------------------------- MODULE Detection_proofs ----------------------------
(***************************************************************************)
(* Proofs about Detection, for any posts, filters, pages and failures, and *)
(* however the site changes: what a run queues, and what it misses.        *)
(***************************************************************************)
EXTENDS Detection, TLAPS, FiniteSetTheorems

(* A hash, or an identity, in the posts before the n-th that was read.     *)
HostedAt(h, m) ==
  \/ h \in Files[posts[m].id]
  \/ "embed" \in types /\ m \notin log.unread /\ h \in Embeds[posts[m].id]
HostedBefore(h, n) ==
  \E m \in 1..(n - 1) : posts[m].id \in Wanted /\ posts[m].full /\ HostedAt(h, m)
HiddenBefore(l, n) ==
  \E m \in 1..(n - 1) : posts[m].id \notin Wanted /\ l \in Links[posts[m].id]

(* Creator.hashes and the queue tell which hashes there have been.         *)
HashesKnown ==
  \A h \in Hashes :
    /\ h \in hashes <=> h \in recorded \/ HostedBefore(h, i)
    /\ queued[h] > 0 <=> HostedBefore(h, i) /\ h \notin recorded

(* Creator.external_urls has in addition the links of filtered posts.      *)
LinksKnown ==
  \A l \in Identities :
    /\ l \in recorded \/ queued[l] > 0 => l \in urls
    /\ l \in urls => l \in recorded \/ queued[l] > 0 \/ HiddenBefore(l, i)

LinksTold ==
  "external" \in types =>
    \A n \in 1..(i - 1) : posts[n].id \in Wanted =>
      \A l \in Links[posts[n].id] :
        l \in recorded \/ queued[l] > 0 \/ l \in log.unlisted \/ HiddenBefore(l, n)

Progress ==
  /\ pc = "listing" => i = 1
  /\ pc = "downloading" => i = Len(posts) + 1
  /\ pc # "idle" => log.unread \subseteq 1..(i - 1)

Seen == pc # "idle" => HashesKnown /\ LinksKnown /\ LinksTold

IInv == TypeOK /\ Progress /\ Seen /\ QueuedOnce

-----------------------------------------------------------------------------
(* The files and links of a post. *)
LEMMA OfPost ==
  ASSUME NEW p \in Posts
  PROVE  Files[p] \subseteq Hashes /\ Embeds[p] \subseteq Hashes /\ Links[p] \subseteq Identities
         /\ Hashes \cap Identities = {} /\ Items = Hashes \cup Identities
<1>1. Files \in [Posts -> SUBSET Hashes] /\ Embeds \in [Posts -> SUBSET Hashes]
      /\ Links \in [Posts -> SUBSET Identities] /\ Hashes \cap Identities = {}
  BY DetectionAssumption
<1>2. QED
  BY <1>1 DEF Items

LEMMA LogTyped == LogInit \in [stayed : SUBSET Posts, removed : Nat, longest : Nat, broken : BOOLEAN,
                               unread : SUBSET Nat, unlisted : SUBSET Identities]
  BY DEF LogInit

LEMMA InitIInv == Init => IInv
<1> SUFFICES ASSUME Init PROVE IInv
  OBVIOUS
<1>1. TypeOK
  <2>1. site \in Seq(Posts) /\ IsInjective(site)
    BY DetectionAssumption DEF Init
  <2>2. imported \subseteq Posts /\ recorded \subseteq Items /\ postRows \subseteq Posts
        /\ hashes \subseteq Hashes /\ urls \subseteq Identities /\ queued \in [Items -> Nat]
        /\ log = LogInit
    BY DEF Init
  <2>3. page \in 0..MaxPages /\ posts = <<>> /\ i \in 1..(Len(posts) + 1) /\ pc = "idle"
    BY DetectionAssumption DEF Init
  <2>4. posts \in Seq([id : Posts, full : BOOLEAN])
    BY <2>3
  <2>5. types \subseteq {"embed", "external"}
    BY DEF Init
  <2>6. QED
    BY <2>1, <2>2, <2>3, <2>4, <2>5, LogTyped DEF TypeOK
<1>2. pc = "idle" /\ \A x \in Items : queued[x] = 0
  BY DEF Init
<1>3. QED
  BY <1>1, <1>2 DEF IInv, Progress, Seen, QueuedOnce

-----------------------------------------------------------------------------
(* The site changes under the run, which keeps what it has read.           *)

LEMMA Published ==
  ASSUME NEW s \in Seq(Posts), IsInjective(s), NEW p \in Posts, p \notin Range(s)
  PROVE  <<p>> \o s \in Seq(Posts) /\ IsInjective(<<p>> \o s)
<1>1. <<p>> \o s \in Seq(Posts) /\ Len(<<p>> \o s) = Len(s) + 1
  OBVIOUS
<1>2. (<<p>> \o s)[1] = p /\ \A n \in 2..(Len(s) + 1) : (<<p>> \o s)[n] = s[n - 1]
  OBVIOUS
<1>3. \A n \in DOMAIN s : s[n] # p
  BY DEF Range
<1>4. DOMAIN (<<p>> \o s) = 1..(Len(s) + 1) /\ DOMAIN s = 1..Len(s) /\ Len(s) \in Nat
  BY <1>1
<1>5. \A n, m \in 1..(Len(s) + 1) : (<<p>> \o s)[n] = (<<p>> \o s)[m] => n = m
  <2>1. SUFFICES ASSUME NEW n \in 1..(Len(s) + 1), NEW m \in 1..(Len(s) + 1),
                        (<<p>> \o s)[n] = (<<p>> \o s)[m]
                 PROVE  n = m
    OBVIOUS
  <2>2. n = 1 \/ (n \in 2..(Len(s) + 1) /\ n - 1 \in DOMAIN s)
    BY <1>4
  <2>3. m = 1 \/ (m \in 2..(Len(s) + 1) /\ m - 1 \in DOMAIN s)
    BY <1>4
  <2>4. \A x, y \in DOMAIN s : s[x] = s[y] => x = y
    BY DEF IsInjective
  <2>5. CASE n = 1 /\ m = 1
    BY <2>5
  <2>6. CASE n = 1 /\ m # 1
    BY <1>2, <1>3, <2>1, <2>3, <2>6
  <2>7. CASE n # 1 /\ m = 1
    BY <1>2, <1>3, <2>1, <2>2, <2>7
  <2>8. CASE n # 1 /\ m # 1
    <3>1. n - 1 \in DOMAIN s /\ m - 1 \in DOMAIN s /\ s[n - 1] = s[m - 1]
      BY <1>2, <2>1, <2>2, <2>3, <2>8
    <3>2. n - 1 = m - 1
      BY <2>4, <3>1
    <3>3. QED
      BY <3>2
  <2>9. QED
    BY <2>5, <2>6, <2>7, <2>8
<1>6. QED
  BY <1>1, <1>4, <1>5 DEF IsInjective

LEMMA Removed ==
  ASSUME NEW s \in Seq(Posts), IsInjective(s), NEW n \in DOMAIN s, NEW t,
         t = [k \in 1..(Len(s) - 1) |-> s[IF k < n THEN k ELSE k + 1]]
  PROVE  t \in Seq(Posts) /\ IsInjective(t)
<1>1. DOMAIN s = 1..Len(s) /\ Len(s) \in Nat /\ Len(s) > 0 /\ n \in 1..Len(s)
  OBVIOUS
<1>2. \A k \in 1..(Len(s) - 1) : (IF k < n THEN k ELSE k + 1) \in DOMAIN s
  BY <1>1
<1>3. \A k \in 1..(Len(s) - 1) : s[IF k < n THEN k ELSE k + 1] \in Posts
  BY <1>2
<1>4. t \in Seq(Posts)
  BY <1>1, <1>3
<1>5. ASSUME NEW a \in 1..(Len(s) - 1), NEW b \in 1..(Len(s) - 1), t[a] = t[b]
      PROVE  a = b
  <2> DEFINE x == IF a < n THEN a ELSE a + 1
             y == IF b < n THEN b ELSE b + 1
  <2>1. s[x] = s[y]
    BY <1>5
  <2>2. x \in DOMAIN s /\ y \in DOMAIN s
    BY <1>2
  <2>3. x = y
    <3> HIDE DEF x, y
    <3> QED BY <2>1, <2>2 DEF IsInjective
  <2>4. QED
    BY <1>1, <2>3
<1>6. DOMAIN t = 1..(Len(s) - 1)
  OBVIOUS
<1>7. QED
  BY <1>4, <1>5, <1>6 DEF IsInjective

LEMMA ChangeKeeps ==
  ASSUME TypeOK, NEW p \in Posts, Publish(p) \/ Import(p) \/ \E n \in DOMAIN site : Remove(n)
  PROVE  /\ site' \in Seq(Posts) /\ IsInjective(site') /\ imported' \subseteq Posts
         /\ UNCHANGED <<types, recorded, postRows, pc, run>>
         /\ log' \in [stayed : SUBSET Posts, removed : Nat, longest : Nat, broken : BOOLEAN,
                      unread : SUBSET Nat, unlisted : SUBSET Identities]
         /\ log'.unlisted = log.unlisted /\ log'.unread = log.unread
<1>0. site \in Seq(Posts) /\ IsInjective(site) /\ imported \subseteq Posts
      /\ log \in [stayed : SUBSET Posts, removed : Nat, longest : Nat, broken : BOOLEAN,
                  unread : SUBSET Nat, unlisted : SUBSET Identities]
  BY DEF TypeOK
<1>1. CASE Publish(p)
  <2>1. site' = <<p>> \o site /\ p \notin Range(site) /\ imported' = imported
        /\ UNCHANGED <<types, recorded, postRows, pc, run>>
    BY <1>1 DEF Publish, Change
  <2>2. site' \in Seq(Posts) /\ IsInjective(site')
    BY <1>0, <2>1, Published
  <2>3. Len(site') \in Nat
    BY <2>2
  <2>4. log' = [log EXCEPT !.longest = Len(site')] \/ log' = log
    BY <1>1 DEF Publish
  <2>5. QED
    BY <1>0, <2>1, <2>2, <2>3, <2>4
<1>2. CASE Import(p)
  BY <1>0, <1>2 DEF Import, Change
<1>3. ASSUME NEW n \in DOMAIN site, Remove(n)
      PROVE  site' \in Seq(Posts) /\ IsInjective(site') /\ imported' = imported
             /\ UNCHANGED <<types, recorded, postRows, pc, run>>
             /\ log' \in [stayed : SUBSET Posts, removed : Nat, longest : Nat, broken : BOOLEAN,
                          unread : SUBSET Nat, unlisted : SUBSET Identities]
             /\ log'.unlisted = log.unlisted /\ log'.unread = log.unread
  <2>1. site' \in Seq(Posts) /\ IsInjective(site')
    BY <1>0, <1>3, Removed DEF Remove
  <2>2. UNCHANGED <<imported, types, recorded, postRows, pc, run>>
    BY <1>3 DEF Remove, Change
  <2>3. log' = [log EXCEPT !.stayed = @ \ {site[n]}, !.removed = IF pc = "listing" THEN @ + 1 ELSE @]
    BY <1>3 DEF Remove
  <2>4. log' \in [stayed : SUBSET Posts, removed : Nat, longest : Nat, broken : BOOLEAN,
                 unread : SUBSET Nat, unlisted : SUBSET Identities]
        /\ log'.unlisted = log.unlisted /\ log'.unread = log.unread
    <3>1. log.stayed \ {site[n]} \subseteq Posts /\ log.removed + 1 \in Nat
      BY <1>0
    <3>2. (IF pc = "listing" THEN log.removed + 1 ELSE log.removed) \in Nat
      BY <1>0, <3>1
    <3>3. QED
      BY <1>0, <2>3, <3>1, <3>2
  <2>5. QED
    BY <2>1, <2>2, <2>4
<1>4. QED
  BY <1>0, <1>1, <1>2, <1>3

-----------------------------------------------------------------------------
(* A page that is read. *)
LEMMA PageRead ==
  ASSUME TypeOK, ReadPage
  PROVE  /\ pc = "listing" /\ pc' \in {"listing", "detecting"}
         /\ pc' = "listing" => page + 1 # MaxPages
         /\ page' = page + 1
         /\ posts' \in Seq([id : Posts, full : BOOLEAN])
         /\ Len(posts') \in Nat /\ Len(posts') >= Len(posts)
<1> DEFINE offset == page * PageSize
           n == IF Len(site) <= offset THEN 0
                ELSE IF Len(site) < offset + PageSize THEN Len(site) - offset ELSE PageSize
           data == [m \in 1..n |-> site[offset + m]]
           read == [m \in DOMAIN data |-> [id |-> data[m], full |-> data[m] \in imported]]
<1>1. posts' = posts \o read /\ pc' = (IF Last(data) THEN "detecting" ELSE "listing")
      /\ pc = "listing" /\ page' = page + 1
  BY DEF ReadPage
<1>2. PageSize \in Nat /\ page \in Nat /\ site \in Seq(Posts) /\ Len(site) \in Nat
  BY DetectionAssumption DEF TypeOK
<1>3. offset \in Nat
  BY <1>2
<1>4. n \in Nat /\ (n > 0 => offset + n <= Len(site))
  <2> HIDE DEF offset
  <2> QED BY <1>2, <1>3
<1>5. \A m \in 1..n : data[m] \in Posts
  <2> HIDE DEF offset, n
  <2>1. \A m \in 1..n : offset + m \in 1..Len(site)
    BY <1>2, <1>3, <1>4
  <2>2. QED
    BY <1>2, <2>1
<1>6. read \in Seq([id : Posts, full : BOOLEAN])
  <2> HIDE DEF n
  <2>1. DOMAIN data = 1..n
    OBVIOUS
  <2> HIDE DEF data
  <2>2. \A m \in 1..n : [id |-> data[m], full |-> data[m] \in imported] \in [id : Posts, full : BOOLEAN]
    <3>1. \A m \in 1..n : (data[m] \in imported) \in BOOLEAN
      OBVIOUS
    <3>2. QED
      BY <1>5, <3>1
  <2>3. QED
    BY <1>4, <2>1, <2>2
<1>7. posts' \in Seq([id : Posts, full : BOOLEAN]) /\ Len(posts') \in Nat /\ Len(posts') >= Len(posts)
  <2>1. posts \in Seq([id : Posts, full : BOOLEAN])
    BY DEF TypeOK
  <2> HIDE DEF read
  <2> QED BY <1>1, <1>6, <2>1
<1>8. Last(data) \/ page + 1 # MaxPages
  BY DEF Last
<1>9. QED
  <2> HIDE DEF data
  <2> QED BY <1>1, <1>7, <1>8

(* The post that is looked at. *)
LEMMA PostRead ==
  ASSUME TypeOK, NEW n \in DOMAIN posts
  PROVE  n \in 1..Len(posts) /\ Len(posts) \in Nat
         /\ posts[n].id \in Posts /\ posts[n].full \in BOOLEAN
<1>1. posts \in Seq([id : Posts, full : BOOLEAN])
  BY DEF TypeOK
<1>2. n \in 1..Len(posts) /\ Len(posts) \in Nat /\ posts[n] \in [id : Posts, full : BOOLEAN]
  <2> DEFINE Post == [id : Posts, full : BOOLEAN]
  <2>1. posts \in Seq(Post)
    BY <1>1
  <2> HIDE DEF Post
  <2>2. n \in 1..Len(posts) /\ Len(posts) \in Nat /\ posts[n] \in Post
    BY <2>1
  <2>3. QED
    BY <2>2 DEF Post
<1>3. posts[n].id \in Posts
  BY <1>2
<1>4. posts[n].full \in BOOLEAN
  BY <1>2, Zenon
<1>5. QED
  BY <1>2, <1>3, <1>4

(* What a step of Detect queues is new. *)
Fresh(content) == HostedFiles(posts[i], content) \ hashes
Offered == IF "external" \in types THEN Links[posts[i].id] ELSE {}
NewItems(content, listed) ==
  IF posts[i].id \in Wanted THEN Fresh(content) \cup Found(listed) ELSE {}

LEMMA Detects ==
  ASSUME TypeOK, NEW content \in BOOLEAN, NEW listed, Detect(content, listed)
  PROVE  /\ pc = "detecting" /\ i \in DOMAIN posts /\ i' = i + 1
         /\ listed \subseteq Offered
         /\ listed \subseteq Identities /\ Fresh(content) \subseteq Hashes
         /\ Hashes \cap Identities = {} /\ Items = Hashes \cup Identities
         /\ urls' = urls \cup Found(listed)
         /\ hashes' = hashes \cup (NewItems(content, listed) \cap Hashes)
         /\ queued' = [x \in Items |->
                       IF x \in NewItems(content, listed) THEN queued[x] + 1 ELSE queued[x]]
         /\ postRows' \subseteq postRows \cup {posts[i].id}
         /\ log' = [log EXCEPT !.unread = IF content THEN @ ELSE @ \cup {i},
                               !.unlisted = @ \cup (Offered \ listed)]
         /\ UNCHANGED <<site, imported, types, recorded, pc, page, posts>>
<1>1. pc = "detecting" /\ i \in DOMAIN posts /\ i' = i + 1
  BY DEF Detect, TypeOK
<1>2. listed \subseteq Offered
  BY DEF Detect, Offered
<1>3. posts[i].id \in Posts
  BY <1>1, PostRead
<1>4. listed \subseteq Identities /\ Fresh(content) \subseteq Hashes
      /\ Hashes \cap Identities = {} /\ Items = Hashes \cup Identities
  BY <1>2, <1>3, OfPost DEF Fresh, HostedFiles, Offered
<1>5. /\ urls' = urls \cup Found(listed)
      /\ hashes' = hashes \cup (NewItems(content, listed) \cap Hashes)
      /\ queued' = [x \in Items |->
                    IF x \in NewItems(content, listed) THEN queued[x] + 1 ELSE queued[x]]
  BY DEF Detect, Found, Fresh, NewItems, Note
<1>6. postRows' \subseteq postRows \cup {posts[i].id}
  BY DEF Detect
<1>7. /\ log' = [log EXCEPT !.unread = IF content THEN @ ELSE @ \cup {i},
                            !.unlisted = @ \cup (Offered \ listed)]
      /\ UNCHANGED <<site, imported, types, recorded, pc, page, posts>>
  BY DEF Detect, Offered
<1>8. QED
  BY <1>1, <1>2, <1>4, <1>5, <1>6, <1>7

LEMMA Cases ==
  ASSUME [Next]_vars
  PROVE  \/ StartRun \/ ReadPage \/ PageFails
         \/ (\E content \in BOOLEAN, listed \in SUBSET Identities : Detect(content, listed))
         \/ Detected \/ (\E done \in SUBSET Items : Download(done)) \/ Crash
         \/ (\E p \in Posts : Publish(p) \/ Import(p)) \/ (\E n \in DOMAIN site : Remove(n))
         \/ UNCHANGED vars
  BY DEF Next, RunStep

(* Every step keeps the variables in their types. *)
LEMMA NextTypeOK == TypeOK /\ [Next]_vars => TypeOK'
<1> SUFFICES ASSUME TypeOK, [Next]_vars PROVE TypeOK'
  OBVIOUS
<1>0. MaxPages \in Nat /\ MaxPages > 0
  BY DetectionAssumption
<1>1. CASE StartRun
  <2>1. UNCHANGED <<site, imported, types, recorded, postRows>> /\ pc' = "listing"
        /\ page' = 0 /\ posts' = <<>> /\ i' = 1
        /\ hashes' = recorded \cap Hashes /\ urls' = recorded \cap Identities
        /\ queued' = [x \in Items |-> 0]
    BY <1>1 DEF StartRun, Known
  <2>2. log' \in [stayed : SUBSET Posts, removed : Nat, longest : Nat, broken : BOOLEAN,
                 unread : SUBSET Nat, unlisted : SUBSET Identities]
    <3>1. Range(site) \subseteq Posts /\ Len(site) \in Nat
      BY DEF TypeOK, Range
    <3>2. log' = [LogInit EXCEPT !.stayed = Range(site), !.longest = Len(site)]
      BY <1>1 DEF StartRun
    <3>3. QED
      BY <3>1, <3>2, LogTyped
  <2>3. posts' \in Seq([id : Posts, full : BOOLEAN]) /\ i' \in 1..(Len(posts') + 1)
    BY <2>1
  <2>4. QED
    BY <1>0, <2>1, <2>2, <2>3 DEF TypeOK
<1>2. CASE ReadPage
  <2>1. UNCHANGED <<site, imported, types, recorded, postRows, i, hashes, urls, queued, log>>
        /\ Len(posts') \in Nat /\ Len(posts) \in Nat
    <3>1. UNCHANGED <<site, imported, types, recorded, postRows, i, hashes, urls, queued, log>>
      BY <1>2 DEF ReadPage
    <3>2. Len(posts') \in Nat
      BY <1>2, PageRead
    <3>3. Len(posts) \in Nat
      BY DEF TypeOK
    <3>4. QED
      BY <3>1, <3>2, <3>3
  <2>2. page' \in 0..MaxPages /\ (pc' = "listing" => page' < MaxPages)
    BY <1>0, <1>2, PageRead DEF TypeOK
  <2>3. i' \in 1..(Len(posts') + 1)
    BY <1>2, <2>1, PageRead DEF TypeOK
  <2>4. QED
    BY <1>2, <2>1, <2>2, <2>3, PageRead DEF TypeOK
<1>3. CASE PageFails
  <2>1. UNCHANGED <<site, imported, types, recorded, postRows, page, posts, i, hashes, urls, queued>>
        /\ pc' = "detecting" /\ log' = [log EXCEPT !.broken = TRUE]
    BY <1>3 DEF PageFails, run
  <2>2. log' \in [stayed : SUBSET Posts, removed : Nat, longest : Nat, broken : BOOLEAN,
                 unread : SUBSET Nat, unlisted : SUBSET Identities]
    BY <2>1 DEF TypeOK
  <2>3. QED
    BY <2>1, <2>2 DEF TypeOK
<1>4. ASSUME NEW content \in BOOLEAN, NEW listed \in SUBSET Identities, Detect(content, listed)
      PROVE  TypeOK'
  <2>1. pc = "detecting" /\ i \in DOMAIN posts /\ i' = i + 1 /\ posts[i].id \in Posts
        /\ UNCHANGED <<site, imported, types, recorded, pc, page, posts>>
    BY <1>4, Detects, PostRead
  <2>2. hashes' \subseteq Hashes /\ urls' \subseteq Identities /\ postRows' \subseteq Posts
    <3>1. /\ listed \subseteq Identities /\ urls' = urls \cup Found(listed)
          /\ hashes' = hashes \cup (NewItems(content, listed) \cap Hashes)
          /\ postRows' \subseteq postRows \cup {posts[i].id}
      BY <1>4, Detects
    <3>2. hashes \subseteq Hashes /\ urls \subseteq Identities /\ postRows \subseteq Posts
      BY DEF TypeOK
    <3>3. QED
      BY <2>1, <3>1, <3>2 DEF Found
  <2>3. queued' \in [Items -> Nat]
    <3>1. queued \in [Items -> Nat]
          /\ queued' = [x \in Items |->
                        IF x \in NewItems(content, listed) THEN queued[x] + 1 ELSE queued[x]]
      BY <1>4, Detects DEF TypeOK
    <3>2. QED
      BY <3>1
  <2>4. log' \in [stayed : SUBSET Posts, removed : Nat, longest : Nat, broken : BOOLEAN,
                 unread : SUBSET Nat, unlisted : SUBSET Identities]
    <3>1. log \in [stayed : SUBSET Posts, removed : Nat, longest : Nat, broken : BOOLEAN,
                   unread : SUBSET Nat, unlisted : SUBSET Identities]
          /\ Offered \subseteq Identities /\ i \in Nat
      BY <2>1, OfPost DEF TypeOK, Offered
    <3>2. log' = [log EXCEPT !.unread = IF content THEN @ ELSE @ \cup {i},
                             !.unlisted = @ \cup (Offered \ listed)]
      BY <1>4, Detects
    <3>3. (IF content THEN log.unread ELSE log.unread \cup {i}) \in SUBSET Nat
          /\ log.unlisted \cup (Offered \ listed) \in SUBSET Identities
      BY <3>1
    <3>4. QED
      BY <3>1, <3>2, <3>3
  <2>5. i' \in 1..(Len(posts') + 1)
    BY <2>1 DEF TypeOK
  <2>6. QED
    BY <2>1, <2>2, <2>3, <2>4, <2>5 DEF TypeOK
<1>5. CASE Detected
  BY <1>5 DEF Detected, TypeOK, run
<1>6. ASSUME NEW done \in SUBSET Items, Download(done)
      PROVE  TypeOK'
  BY <1>6 DEF Download, TypeOK, run
<1>7. CASE Crash
  BY <1>7 DEF Crash, TypeOK, run
<1>8. ASSUME NEW p \in Posts, Publish(p) \/ Import(p) \/ \E n \in DOMAIN site : Remove(n)
      PROVE  TypeOK'
  <2>1. UNCHANGED <<types, recorded, postRows, pc, page, posts, i, hashes, urls, queued>>
    BY <1>8, ChangeKeeps DEF run
  <2>2. QED
    BY <1>8, <2>1, ChangeKeeps DEF TypeOK
<1>9. ASSUME NEW n \in DOMAIN site, Remove(n)
      PROVE  TypeOK'
  <2>1. site[n] \in Posts
    BY DEF TypeOK
  <2>2. QED
    BY <1>8, <1>9, <2>1
<1>10. CASE UNCHANGED vars
  BY <1>10 DEF vars, run, TypeOK
<1>11. QED
  BY <1>1, <1>2, <1>3, <1>4, <1>5, <1>6, <1>7, <1>8, <1>9, <1>10, Cases

-----------------------------------------------------------------------------
(* The posts before the next one: those before this one, and this one.     *)
Here(content, h) ==
  /\ posts[i].id \in Wanted /\ posts[i].full
  /\ \/ h \in Files[posts[i].id]
     \/ content /\ "embed" \in types /\ h \in Embeds[posts[i].id]
Hides(l) == posts[i].id \notin Wanted /\ l \in Links[posts[i].id]

LEMMA OneMore ==
  ASSUME TypeOK, Progress, NEW content \in BOOLEAN, NEW listed, Detect(content, listed)
  PROVE  /\ \A h \in Hashes : HostedBefore(h, i)' <=> HostedBefore(h, i) \/ Here(content, h)
         /\ \A l \in Identities : HiddenBefore(l, i)' <=> HiddenBefore(l, i) \/ Hides(l)
         /\ 1..(i' - 1) = 1..(i - 1) \cup {i} /\ i \in Nat
         /\ log'.unlisted = log.unlisted \cup (Offered \ listed)
         /\ log'.unread \subseteq 1..(i' - 1)
<1>1. i \in Nat /\ i > 0 /\ i' = i + 1 /\ posts' = posts /\ types' = types
  <2>1. i \in Nat /\ i > 0
    BY DEF TypeOK
  <2>2. i' = i + 1 /\ posts' = posts /\ types' = types
    BY Detects
  <2>3. QED
    BY <2>1, <2>2
<1>2. 1..(i' - 1) = 1..(i - 1) \cup {i} /\ i \notin 1..(i - 1)
  BY <1>1
<1>3. log'.unread = (IF content THEN log.unread ELSE log.unread \cup {i})
      /\ log'.unlisted = log.unlisted \cup (Offered \ listed)
  <2>1. log' = [log EXCEPT !.unread = IF content THEN @ ELSE @ \cup {i},
                           !.unlisted = @ \cup (Offered \ listed)]
    BY Detects
  <2>2. QED
    BY <2>1 DEF TypeOK
<1>4. log.unread \subseteq 1..(i - 1)
  BY Detects DEF Progress
<1>5. log'.unread \subseteq 1..(i' - 1)
  BY <1>2, <1>3, <1>4
<1>6. ASSUME NEW h \in Hashes
      PROVE  HostedBefore(h, i)' <=> HostedBefore(h, i) \/ Here(content, h)
  <2> DEFINE Then(m) ==
        \/ h \in Files[posts[m].id]
        \/ "embed" \in types /\ m \notin log'.unread /\ h \in Embeds[posts[m].id]
  <2>1. \A m \in 1..(i - 1) : Then(m) <=> HostedAt(h, m)
    BY <1>2, <1>3 DEF HostedAt
  <2>2. posts[i].id \in Wanted /\ posts[i].full /\ Then(i) <=> Here(content, h)
    <3>1. i \in log'.unread <=> ~content
      BY <1>2, <1>3, <1>4
    <3>2. QED
      BY <3>1 DEF Here
  <2>3. HostedBefore(h, i)' <=>
          \E m \in 1..(i - 1) \cup {i} : posts[m].id \in Wanted /\ posts[m].full /\ Then(m)
    BY <1>1, <1>2 DEF HostedBefore, HostedAt
  <2> HIDE DEF Then
  <2>4. QED
    BY <2>1, <2>2, <2>3 DEF HostedBefore
<1>7. \A l \in Identities : HiddenBefore(l, i)' <=> HiddenBefore(l, i) \/ Hides(l)
  BY <1>1, <1>2 DEF HiddenBefore, Hides
<1>8. QED
  BY <1>1, <1>2, <1>3, <1>5, <1>6, <1>7

(* A post that is looked at: each of its files and links is new, or known. *)
LEMMA Queues ==
  ASSUME TypeOK, NEW content \in BOOLEAN, NEW listed, Detect(content, listed)
  PROVE  /\ queued \in [Items -> Nat] /\ queued' \in [Items -> Nat]
         /\ \A x \in Items :
              queued'[x] = IF x \in NewItems(content, listed) THEN queued[x] + 1 ELSE queued[x]
         /\ \A h \in Hashes : /\ h \in Items
                              /\ h \in NewItems(content, listed) <=> Here(content, h) /\ h \notin hashes
                              /\ h \in hashes' <=> h \in hashes \/ Here(content, h)
         /\ \A l \in Identities :
              /\ l \in Items
              /\ l \in NewItems(content, listed) <=>
                   posts[i].id \in Wanted /\ l \in listed /\ l \notin urls
              /\ l \in urls' <=> l \in urls \/ l \in listed
<1>1. queued \in [Items -> Nat]
      /\ queued' = [x \in Items |->
                    IF x \in NewItems(content, listed) THEN queued[x] + 1 ELSE queued[x]]
  BY Detects DEF TypeOK
<1>2. queued' \in [Items -> Nat]
      /\ \A x \in Items :
           queued'[x] = IF x \in NewItems(content, listed) THEN queued[x] + 1 ELSE queued[x]
  BY <1>1
<1>3. Hashes \cap Identities = {} /\ Items = Hashes \cup Identities /\ listed \subseteq Identities
      /\ urls' = urls \cup Found(listed) /\ hashes' = hashes \cup (NewItems(content, listed) \cap Hashes)
  BY Detects
<1>4. \A h \in Hashes :
        h \in Items /\ (h \in NewItems(content, listed) <=> Here(content, h) /\ h \notin hashes)
  <2>1. \A h \in Hashes : h \in Items /\ h \notin Found(listed)
    BY <1>3 DEF Found
  <2>2. \A h : posts[i].id \in Wanted /\ h \in HostedFiles(posts[i], content) <=> Here(content, h)
    BY DEF HostedFiles, Here
  <2>3. QED
    BY <2>1, <2>2 DEF NewItems, Fresh
<1>5. \A l \in Identities :
        /\ l \in Items
        /\ l \in NewItems(content, listed) <=>
             posts[i].id \in Wanted /\ l \in listed /\ l \notin urls
  <2>1. Fresh(content) \subseteq Hashes
    BY Detects
  <2>2. QED
    BY <1>3, <2>1 DEF NewItems, Found
<1>6. QED
  BY <1>1, <1>2, <1>3, <1>4, <1>5 DEF Found

LEMMA DetectKeeps ==
  ASSUME TypeOK, Progress, Seen, QueuedOnce, NEW content \in BOOLEAN, NEW listed, Detect(content, listed)
  PROVE  HashesKnown' /\ LinksKnown' /\ LinksTold' /\ QueuedOnce'
<1>1. HashesKnown /\ LinksKnown /\ LinksTold
  BY Detects DEF Seen
<1>2. i' = i + 1 /\ posts' = posts /\ recorded' = recorded /\ types' = types /\ pc' = pc
      /\ pc = "detecting" /\ i \in DOMAIN posts
  BY Detects
<1>3. /\ \A h \in Hashes : HostedBefore(h, i)' <=> HostedBefore(h, i) \/ Here(content, h)
      /\ \A l \in Identities : HiddenBefore(l, i)' <=> HiddenBefore(l, i) \/ Hides(l)
      /\ 1..(i' - 1) = 1..(i - 1) \cup {i} /\ log'.unlisted = log.unlisted \cup (Offered \ listed)
  BY OneMore
<1>4. HashesKnown'
  <2>1. ASSUME NEW h \in Hashes
        PROVE  /\ h \in hashes' <=> h \in recorded' \/ HostedBefore(h, i)'
               /\ queued'[h] > 0 <=> HostedBefore(h, i)' /\ h \notin recorded'
    <3>1. h \in hashes <=> h \in recorded \/ HostedBefore(h, i)
      BY <1>1 DEF HashesKnown
    <3>2. queued[h] > 0 <=> HostedBefore(h, i) /\ h \notin recorded
      BY <1>1 DEF HashesKnown
    <3>3. HostedBefore(h, i)' <=> HostedBefore(h, i) \/ Here(content, h)
      BY <1>3
    <3>4. queued[h] \in Nat
          /\ queued'[h] = IF h \in NewItems(content, listed) THEN queued[h] + 1 ELSE queued[h]
      BY Queues
    <3>5. /\ h \in NewItems(content, listed) <=> Here(content, h) /\ h \notin hashes
          /\ h \in hashes' <=> h \in hashes \/ Here(content, h)
      BY Queues
    <3>6. queued'[h] > 0 <=> h \in NewItems(content, listed) \/ queued[h] > 0
      BY <3>4
    <3>7. QED
      BY <1>2, <3>1, <3>2, <3>3, <3>5, <3>6, Zenon
  <2>2. QED
    BY <2>1 DEF HashesKnown
<1>5. LinksKnown'
  <2>1. ASSUME NEW l \in Identities
        PROVE  /\ l \in recorded' \/ queued'[l] > 0 => l \in urls'
               /\ l \in urls' => l \in recorded' \/ queued'[l] > 0 \/ HiddenBefore(l, i)'
    <3>1. (l \in recorded \/ queued[l] > 0 => l \in urls)
          /\ (l \in urls => l \in recorded \/ queued[l] > 0 \/ HiddenBefore(l, i))
      BY <1>1 DEF LinksKnown
    <3>2. HiddenBefore(l, i)' <=> HiddenBefore(l, i) \/ Hides(l)
      BY <1>3
    <3>3. queued'[l] > 0 <=> l \in NewItems(content, listed) \/ queued[l] > 0
      BY Queues
    <3>4. (l \in NewItems(content, listed) <=> posts[i].id \in Wanted /\ l \in listed /\ l \notin urls)
          /\ (l \in urls' <=> l \in urls \/ l \in listed)
      BY Queues
    <3>5. l \in listed => l \in Links[posts[i].id]
      BY Detects DEF Offered
    <3>6. QED
      BY <1>2, <3>1, <3>2, <3>3, <3>4, <3>5 DEF Hides
  <2>2. QED
    BY <2>1 DEF LinksKnown
<1>6. LinksTold'
  <2>1. SUFFICES ASSUME "external" \in types, NEW n \in 1..(i - 1) \cup {i}, posts[n].id \in Wanted,
                        NEW l \in Links[posts[n].id]
                 PROVE  l \in recorded \/ queued'[l] > 0 \/ l \in log'.unlisted \/ HiddenBefore(l, n)
    BY <1>2, <1>3 DEF LinksTold, HiddenBefore
  <2>2. n \in DOMAIN posts
    BY <1>2 DEF TypeOK
  <2>3. l \in Identities
    BY <2>2, PostRead, OfPost
  <2>4. queued'[l] > 0 <=> l \in NewItems(content, listed) \/ queued[l] > 0
    BY <2>3, Queues
  <2>5. log'.unlisted = log.unlisted \cup (Links[posts[i].id] \ listed)
    BY <1>3, <2>1 DEF Offered
  <2>6. CASE n = i
    <3>1. l \in NewItems(content, listed) <=> posts[i].id \in Wanted /\ l \in listed /\ l \notin urls
      BY <2>3, Queues
    <3>2. l \in urls => l \in recorded \/ queued[l] > 0 \/ HiddenBefore(l, i)
      BY <1>1, <2>3 DEF LinksKnown
    <3>3. QED
      BY <2>1, <2>4, <2>5, <2>6, <3>1, <3>2
  <2>7. CASE n \in 1..(i - 1)
    <3>1. l \in recorded \/ queued[l] > 0 \/ l \in log.unlisted \/ HiddenBefore(l, n)
      BY <1>1, <2>1, <2>7 DEF LinksTold
    <3>2. QED
      BY <2>4, <2>5, <3>1
  <2>8. QED
    BY <2>6, <2>7
<1>7. QueuedOnce'
  <2>1. ASSUME NEW x \in Items
        PROVE  queued'[x] <= 1 /\ (queued'[x] = 0 \/ x \notin recorded)
    <3>1. queued[x] \in Nat /\ queued[x] <= 1 /\ (queued[x] = 0 \/ x \notin recorded)
          /\ queued'[x] = IF x \in NewItems(content, listed) THEN queued[x] + 1 ELSE queued[x]
      BY <1>2, Queues DEF QueuedOnce
    <3>2. x \in NewItems(content, listed) => queued[x] = 0 /\ x \notin recorded
      <4>1. CASE x \in Hashes
        <5>1. x \in NewItems(content, listed) => x \notin hashes
          BY <4>1, Queues
        <5>2. x \in NewItems(content, listed) => x \notin recorded /\ ~HostedBefore(x, i)
          BY <1>1, <4>1, <5>1 DEF HashesKnown
        <5>3. queued[x] > 0 => HostedBefore(x, i)
          BY <1>1, <4>1 DEF HashesKnown
        <5>4. QED
          BY <3>1, <5>2, <5>3
      <4>2. CASE x \in Identities
        <5>1. x \in NewItems(content, listed) => x \notin urls
          BY <4>2, Queues
        <5>2. x \in recorded \/ queued[x] > 0 => x \in urls
          BY <1>1, <4>2 DEF LinksKnown
        <5>3. QED
          BY <3>1, <5>1, <5>2
      <4>3. QED
        BY <4>1, <4>2 DEF Items
    <3>3. QED
      BY <3>1, <3>2
  <2>2. QED
    BY <1>2, <2>1 DEF QueuedOnce
<1>8. QED
  BY <1>4, <1>5, <1>6, <1>7

-----------------------------------------------------------------------------
(* The other steps: a run begins with what is recorded, and as long as it  *)
(* reads pages it has looked at no post.                                   *)
LEMMA StartKeeps ==
  ASSUME TypeOK, StartRun
  PROVE  HashesKnown' /\ LinksKnown' /\ LinksTold' /\ QueuedOnce' /\ Progress'
<1>1. /\ hashes' = recorded \cap Hashes /\ urls' = recorded \cap Identities /\ recorded' = recorded
      /\ i' = 1 /\ posts' = <<>> /\ queued' = [x \in Items |-> 0] /\ pc' = "listing"
  BY DEF StartRun, Known
<1>2. Items = Hashes \cup Identities
  BY DEF Items
<1>3. \A x \in Items : queued'[x] = 0
  BY <1>1
<1>4. \A x : ~HostedBefore(x, i)' /\ ~HiddenBefore(x, i)'
  BY <1>1 DEF HostedBefore, HiddenBefore
<1>5. HashesKnown' /\ LinksKnown'
  BY <1>1, <1>2, <1>3, <1>4 DEF HashesKnown, LinksKnown
<1>6. LinksTold'
  BY <1>1 DEF LinksTold
<1>7. log'.unread = {}
  <2>1. log' = [LogInit EXCEPT !.stayed = Range(site), !.longest = Len(site)]
    BY DEF StartRun
  <2>2. QED
    BY <2>1 DEF LogInit
<1>8. QueuedOnce' /\ Progress'
  BY <1>1, <1>3, <1>7 DEF QueuedOnce, Progress
<1>9. QED
  BY <1>5, <1>6, <1>8

LEMMA ReadKeeps ==
  ASSUME TypeOK, Progress, Seen, QueuedOnce, ReadPage
  PROVE  HashesKnown' /\ LinksKnown' /\ LinksTold' /\ QueuedOnce' /\ Progress'
<1>1. /\ UNCHANGED <<recorded, types, i, hashes, urls, queued, log>>
      /\ i = 1 /\ pc = "listing" /\ pc' \in {"listing", "detecting"}
  BY PageRead DEF ReadPage, Progress
<1>2. HashesKnown /\ LinksKnown
  BY <1>1 DEF Seen
<1>3. \A x : ~HostedBefore(x, i) /\ ~HiddenBefore(x, i) /\ ~HostedBefore(x, i)' /\ ~HiddenBefore(x, i)'
  BY <1>1 DEF HostedBefore, HiddenBefore
<1>4. HashesKnown' /\ LinksKnown'
  BY <1>1, <1>2, <1>3 DEF HashesKnown, LinksKnown
<1>5. LinksTold'
  BY <1>1 DEF LinksTold
<1>6. QueuedOnce' /\ Progress'
  BY <1>1 DEF QueuedOnce, Progress
<1>7. QED
  BY <1>4, <1>5, <1>6

(* What no other step of the run disturbs. *)
LEMMA Unchanged ==
  ASSUME HashesKnown, LinksKnown, LinksTold,
         UNCHANGED <<recorded, types, posts, i, hashes, urls, queued>>,
         log'.unlisted = log.unlisted, log'.unread = log.unread
  PROVE  HashesKnown' /\ LinksKnown' /\ LinksTold'
<1>1. /\ \A h : HostedBefore(h, i)' <=> HostedBefore(h, i)
      /\ \A l, n : HiddenBefore(l, n)' <=> HiddenBefore(l, n)
  BY DEF HostedBefore, HostedAt, HiddenBefore
<1>2. HashesKnown' /\ LinksKnown'
  BY <1>1 DEF HashesKnown, LinksKnown, HiddenBefore
<1>3. LinksTold'
  BY DEF LinksTold, HiddenBefore
<1>4. QED
  BY <1>2, <1>3

LEMMA NextIInv == IInv /\ [Next]_vars => IInv'
<1> SUFFICES ASSUME IInv, [Next]_vars PROVE Progress' /\ Seen' /\ QueuedOnce'
  BY NextTypeOK DEF IInv
<1>0. TypeOK /\ Progress /\ Seen /\ QueuedOnce
  BY DEF IInv
<1>1. CASE StartRun
  BY <1>0, <1>1, StartKeeps DEF Seen
<1>2. CASE ReadPage
  BY <1>0, <1>2, ReadKeeps DEF Seen
<1>3. CASE PageFails
  <2>1. UNCHANGED <<recorded, types, posts, i, hashes, urls, queued>> /\ pc = "listing"
        /\ pc' = "detecting" /\ log' = [log EXCEPT !.broken = TRUE]
    BY <1>3 DEF PageFails, run
  <2>2. log'.unlisted = log.unlisted /\ log'.unread = log.unread
    BY <1>0, <2>1 DEF TypeOK
  <2>3. Seen'
    BY <1>0, <2>1, <2>2, Unchanged DEF Seen
  <2>4. QED
    BY <1>0, <2>1, <2>2, <2>3 DEF Progress, QueuedOnce
<1>4. ASSUME NEW content \in BOOLEAN, NEW listed \in SUBSET Identities, Detect(content, listed)
      PROVE  Progress' /\ Seen' /\ QueuedOnce'
  <2>1. pc' = "detecting" /\ log'.unread \subseteq 1..(i' - 1)
    BY <1>0, <1>4, Detects, OneMore
  <2>2. QED
    BY <1>0, <1>4, <2>1, DetectKeeps DEF Progress, Seen
<1>5. CASE Detected
  <2>1. UNCHANGED <<recorded, types, posts, i, hashes, urls, queued, log>> /\ pc = "detecting"
        /\ pc' = "downloading" /\ i > Len(posts)
    BY <1>5 DEF Detected, run
  <2>2. Seen'
    BY <1>0, <2>1, Unchanged DEF Seen
  <2>3. i = Len(posts) + 1
    <3>1. i \in 1..(Len(posts) + 1) /\ Len(posts) \in Nat
      BY <1>0 DEF TypeOK
    <3>2. QED
      BY <2>1, <3>1
  <2>4. QED
    BY <1>0, <2>1, <2>2, <2>3 DEF Progress, QueuedOnce
<1>6. ASSUME NEW done \in SUBSET Items, Download(done)
      PROVE  Progress' /\ Seen' /\ QueuedOnce'
  <2>1. pc' = "idle" /\ queued' = queued
    BY <1>6 DEF Download, run
  <2>2. QED
    BY <1>0, <2>1 DEF Progress, Seen, QueuedOnce
<1>7. CASE Crash
  <2>1. pc' = "idle" /\ queued' = queued
    BY <1>7 DEF Crash, run
  <2>2. QED
    BY <1>0, <2>1 DEF Progress, Seen, QueuedOnce
<1>8. ASSUME NEW p \in Posts, Publish(p) \/ Import(p) \/ \E n \in DOMAIN site : Remove(n)
      PROVE  Progress' /\ Seen' /\ QueuedOnce'
  <2>1. UNCHANGED <<recorded, types, posts, i, hashes, urls, queued, pc>>
        /\ log'.unlisted = log.unlisted /\ log'.unread = log.unread
    BY <1>0, <1>8, ChangeKeeps DEF run
  <2>2. Seen'
    BY <1>0, <2>1, Unchanged DEF Seen
  <2>3. QED
    BY <1>0, <2>1, <2>2 DEF Progress, QueuedOnce
<1>9. ASSUME NEW n \in DOMAIN site, Remove(n)
      PROVE  Progress' /\ Seen' /\ QueuedOnce'
  <2>1. site[n] \in Posts
    BY <1>0 DEF TypeOK
  <2>2. QED
    BY <1>8, <1>9, <2>1
<1>10. CASE UNCHANGED vars
  <2>1. UNCHANGED <<recorded, types, posts, i, hashes, urls, queued, pc, log>>
    BY <1>10 DEF vars, run
  <2>2. Seen'
    BY <1>0, <2>1, Unchanged DEF Seen
  <2>3. QED
    BY <1>0, <2>1, <2>2 DEF Progress, QueuedOnce
<1>11. QED
  BY <1>1, <1>2, <1>3, <1>4, <1>5, <1>6, <1>7, <1>8, <1>9, <1>10, Cases

-----------------------------------------------------------------------------
LEMMA Invariant == Spec => []IInv
<1>1. Init => IInv
  BY InitIInv
<1>2. IInv /\ [Next]_vars => IInv'
  BY NextIInv
<1>3. QED
  BY <1>1, <1>2, PTL DEF Spec

(* Creator.download: its variables keep their types, a removed or new post *)
(* leaves no post twice on the site, and no page after max_pages is read.  *)
THEOREM TypeCorrect == Spec => []TypeOK
<1>1. IInv => TypeOK
  BY DEF IInv
<1>2. QED
  BY <1>1, Invariant, PTL

(* detect_files_in_post with self.hashes and self.external_urls: a file or *)
(* link is queued once a run, never when it is recorded.                   *)
THEOREM Once == Spec => []QueuedOnce
<1>1. IInv => QueuedOnce
  BY DEF IInv
<1>2. QED
  BY <1>1, Invariant, PTL

LEMMA IInvWanted == IInv => QueueIsWanted
<1> SUFFICES ASSUME IInv, pc = "downloading" PROVE
      LET Passing == {n \in DOMAIN posts : posts[n].id \in Wanted}
          HostedBy(n) == Files[posts[n].id] \cup
            (IF "embed" \in types /\ n \notin log.unread THEN Embeds[posts[n].id] ELSE {})
          Hosted == UNION {HostedBy(n) : n \in {m \in Passing : posts[m].full}}
      IN  /\ Queue \cap Hashes = Hosted \ recorded
          /\ "external" \in types => \A n \in Passing : \A l \in Links[posts[n].id] :
               l \in Queue \cup recorded \cup log.unlisted \cup HiddenAt(n)
  BY DEF QueueIsWanted
<1> DEFINE Passing == {n \in DOMAIN posts : posts[n].id \in Wanted}
           HostedBy(n) == Files[posts[n].id] \cup
             (IF "embed" \in types /\ n \notin log.unread THEN Embeds[posts[n].id] ELSE {})
           Hosted == UNION {HostedBy(n) : n \in {m \in Passing : posts[m].full}}
<1>1. TypeOK /\ HashesKnown /\ LinksTold /\ i = Len(posts) + 1
  BY DEF IInv, Seen, Progress
<1>2. DOMAIN posts = 1..(i - 1)
  <2>1. DOMAIN posts = 1..Len(posts) /\ Len(posts) \in Nat
    BY <1>1 DEF TypeOK
  <2>2. QED
    BY <1>1, <2>1
<1>3. \A h : h \in Hosted <=> HostedBefore(h, i)
  <2>1. \A h, n : h \in HostedBy(n) <=> HostedAt(h, n)
    BY DEF HostedAt
  <2> HIDE DEF HostedBy
  <2>2. QED
    BY <1>2, <2>1 DEF HostedBefore
<1>4. Hosted \subseteq Hashes
  <2>1. \A n \in DOMAIN posts : HostedBy(n) \subseteq Hashes
    BY <1>1, PostRead, OfPost
  <2> HIDE DEF HostedBy
  <2>2. QED
    BY <2>1
<1>5. Queue \cap Hashes = Hosted \ recorded
  <2>1. \A h \in Hashes : h \in Queue <=> queued[h] > 0
    BY DEF Queue, Items
  <2>2. \A h \in Hashes : queued[h] > 0 <=> h \in Hosted /\ h \notin recorded
    BY <1>1, <1>3 DEF HashesKnown
  <2> HIDE DEF Hosted
  <2>3. QED
    BY <1>4, <2>1, <2>2
<1>6. ASSUME "external" \in types, NEW n \in Passing, NEW l \in Links[posts[n].id]
      PROVE  l \in Queue \cup recorded \cup log.unlisted \cup HiddenAt(n)
  <2>1. n \in 1..(i - 1) /\ posts[n].id \in Wanted /\ l \in Items
    <3>1. l \in Identities
      BY <1>1, <1>6, PostRead, OfPost
    <3>2. QED
      BY <1>2, <3>1 DEF Items
  <2>2. l \in recorded \/ queued[l] > 0 \/ l \in log.unlisted \/ HiddenBefore(l, n)
    BY <1>1, <1>6, <2>1 DEF LinksTold
  <2>3. HiddenBefore(l, n) => l \in HiddenAt(n)
    BY DEF HiddenBefore, HiddenAt
  <2>4. QED
    BY <2>1, <2>2, <2>3 DEF Queue
<1>7. QED
  BY <1>5, <1>6

(* Creator.download: what it queues is the files and links of the posts it *)
(* read that pass the filters, less what is recorded, and but for the      *)
(* embeds of posts whose content could not be fetched and the links that   *)
(* could not be listed or that a post filtered out before had too.         *)
THEOREM QueuesTheWanted == Spec => []QueueIsWanted
  BY Invariant, IInvWanted, PTL
-----------------------------------------------------------------------------
(* The posts a listing can miss.  Those that have stayed on the site and   *)
(* are at places which are read already (Passed) were pushed there by a    *)
(* removal, one by each; the others are still to be read or beyond the     *)
(* last page.                                                              *)
Passed == {site[k] : k \in {m \in DOMAIN site : m <= page * PageSize}}
Missed == (log.stayed \ Read) \cap Passed
From(s, a) == {s[k] : k \in (a + 1)..Len(s)}

MissedSoFar ==
  /\ log.stayed \subseteq Range(site)
  /\ pc = "listing" => Len(site) <= log.longest /\ Cardinality(Missed) <= log.removed
  /\ MissedBounded

LEMMA FromFinite ==
  ASSUME NEW s \in Seq(Posts), NEW a \in Nat
  PROVE  IsFiniteSet(From(s, a))
         /\ Cardinality(From(s, a)) <= IF Len(s) > a THEN Len(s) - a ELSE 0
<1> DEFINE S == (a + 1)..Len(s)
           T == From(s, a)
           f == [k \in S |-> s[k]]
<1>1. Len(s) \in Nat
  OBVIOUS
<1>2. IsFiniteSet(S) /\ Cardinality(S) = IF a + 1 > Len(s) THEN 0 ELSE Len(s) - (a + 1) + 1
  <2>1. a + 1 \in Int /\ Len(s) \in Int
    BY <1>1
  <2> DEFINE b == a + 1
  <2>2. IsFiniteSet(b..Len(s)) /\ Cardinality(b..Len(s)) = IF b > Len(s) THEN 0 ELSE Len(s) - b + 1
    <3> HIDE DEF b
    <3>1. b \in Int
      BY <2>1 DEF b
    <3>2. QED
      BY <2>1, <3>1, FS_Interval
  <2>3. QED
    BY <2>2
<1>3. f \in Surjection(S, T)
  BY DEF Surjection, From
<1>4. IsFiniteSet(T) /\ Cardinality(T) <= Cardinality(S)
  <2> HIDE DEF S, T, f
  <2> QED BY <1>2, <1>3, FS_Surjection
<1>5. QED
  BY <1>1, <1>2, <1>4

LEMMA InRange == \A s, x : x \in Range(s) <=> \E k \in DOMAIN s : s[k] = x
  BY DEF Range

LEMMA FiniteSubset ==
  ASSUME NEW s \in Seq(Posts), NEW S, S \subseteq Range(s)
  PROVE  IsFiniteSet(S) /\ Cardinality(S) \in Nat
<1>1. From(s, 0) = Range(s)
  <2>1. DOMAIN s = 1..Len(s)
    OBVIOUS
  <2>2. QED
    BY <2>1 DEF From, Range
<1>2. QED
  BY <1>1, FromFinite, FS_Subset, FS_CardinalityType

(* Fewer posts, or one post more. *)
LEMMA Fewer ==
  ASSUME NEW S, IsFiniteSet(S), NEW T, T \subseteq S
  PROVE  IsFiniteSet(T) /\ Cardinality(T) \in Nat /\ Cardinality(S) \in Nat
         /\ Cardinality(T) <= Cardinality(S)
  BY FS_Subset, FS_CardinalityType

LEMMA OnePostMore ==
  ASSUME NEW S, IsFiniteSet(S), NEW x, NEW T, T \subseteq S \cup {x}
  PROVE  Cardinality(T) <= Cardinality(S) + 1 /\ Cardinality(S) \in Nat /\ Cardinality(T) \in Nat
<1>1. IsFiniteSet(S \cup {x}) /\ Cardinality(S) \in Nat
      /\ Cardinality(S \cup {x}) = IF x \in S THEN Cardinality(S) ELSE Cardinality(S) + 1
  BY FS_AddElement, FS_CardinalityType
<1>2. Cardinality(T) <= Cardinality(S \cup {x}) /\ Cardinality(T) \in Nat
  BY <1>1, Fewer
<1>3. QED
  BY <1>1, <1>2

LEMMA Both ==
  ASSUME NEW S, IsFiniteSet(S), NEW T, IsFiniteSet(T), NEW U, U \subseteq S \cup T
  PROVE  Cardinality(U) <= Cardinality(S) + Cardinality(T)
<1>1. IsFiniteSet(S \cup T) /\ Cardinality(S \cup T) = Cardinality(S) + Cardinality(T) - Cardinality(S \cap T)
  BY FS_Union
<1>2. Cardinality(S) \in Nat /\ Cardinality(T) \in Nat /\ Cardinality(S \cap T) \in Nat
  BY Fewer
<1>3. Cardinality(U) <= Cardinality(S \cup T) /\ Cardinality(U) \in Nat
  BY <1>1, Fewer
<1>4. QED
  BY <1>1, <1>2, <1>3

(* A post at the front, and a post taken out. *)
LEMMA MissedPublish ==
  ASSUME TypeOK, MissedSoFar, NEW p \in Posts, Publish(p)
  PROVE  MissedSoFar'
<1>1. /\ site' = <<p>> \o site /\ p \notin Range(site) /\ site \in Seq(Posts)
      /\ UNCHANGED <<pc, page, posts>> /\ site' \in Seq(Posts)
      /\ log.stayed \subseteq Range(site)
  BY DEF Publish, Change, run, TypeOK, MissedSoFar
<1>2. /\ log'.stayed = log.stayed /\ log'.removed = log.removed /\ log'.broken = log.broken
      /\ pc = "listing" => Len(site') <= log'.longest
      /\ pc # "listing" => log'.longest = log.longest
  <2>1. log' = IF pc = "listing" /\ Len(site') > log.longest
               THEN [log EXCEPT !.longest = Len(site')] ELSE log
    BY DEF Publish
  <2>2. Len(site') \in Nat
    BY <1>1
  <2>3. QED
    BY <2>1, <2>2 DEF TypeOK
<1>3. \A k \in DOMAIN site' : site'[k] = p \/ (k - 1 \in DOMAIN site /\ site'[k] = site[k - 1])
  BY <1>1
<1>4. \A k \in DOMAIN site : k + 1 \in DOMAIN site' /\ site'[k + 1] = site[k]
  BY <1>1
<1>5. log'.stayed \subseteq Range(site')
  <2>1. SUFFICES ASSUME NEW x \in log.stayed PROVE x \in Range(site')
    BY <1>2
  <2>2. PICK k \in DOMAIN site : site[k] = x
    BY <1>1, InRange
  <2>3. QED
    BY <1>4, <2>2, InRange
<1>6. Missed' \subseteq Missed
  <2>1. SUFFICES ASSUME NEW k \in DOMAIN site', k <= page * PageSize, site'[k] \in log.stayed
                 PROVE  site'[k] \in Passed
    BY <1>1, <1>2 DEF Missed, Passed, Read
  <2>2. k - 1 \in DOMAIN site /\ site'[k] = site[k - 1]
    BY <1>1, <1>3, <2>1
  <2>3. page * PageSize \in Nat /\ k \in Nat
    BY <1>1, DetectionAssumption DEF TypeOK
  <2>4. k - 1 <= page * PageSize
    BY <2>1, <2>3
  <2>5. QED
    BY <2>2, <2>4 DEF Passed
<1>7. IsFiniteSet(Missed)
  BY <1>1, FiniteSubset DEF Missed
<1>8. Cardinality(Missed') <= Cardinality(Missed) /\ Cardinality(Missed) \in Nat /\ Cardinality(Missed') \in Nat
  BY <1>6, <1>7, Fewer
<1>9. pc' = "listing" => Len(site') <= log'.longest /\ Cardinality(Missed') <= log'.removed
  BY <1>1, <1>2, <1>8 DEF MissedSoFar, TypeOK
<1>10. MissedBounded'
  BY <1>1, <1>2 DEF MissedSoFar, MissedBounded, Beyond, Read
<1>11. QED
  BY <1>5, <1>9, <1>10 DEF MissedSoFar

LEMMA MissedRemove ==
  ASSUME TypeOK, MissedSoFar, NEW n \in DOMAIN site, Remove(n)
  PROVE  MissedSoFar'
<1>1. /\ site' = [k \in 1..(Len(site) - 1) |-> site[IF k < n THEN k ELSE k + 1]]
      /\ UNCHANGED <<pc, page, posts>> /\ site \in Seq(Posts) /\ IsInjective(site)
      /\ log.stayed \subseteq Range(site)
  BY DEF Remove, Change, run, TypeOK, MissedSoFar
<1>2. DOMAIN site = 1..Len(site) /\ Len(site) \in Nat /\ n \in 1..Len(site) /\ Len(site') = Len(site) - 1
      /\ DOMAIN site' = 1..(Len(site) - 1)
  BY <1>1
<1>3. /\ log'.stayed = log.stayed \ {site[n]} /\ log'.broken = log.broken /\ log'.longest = log.longest
      /\ log'.removed = IF pc = "listing" THEN log.removed + 1 ELSE log.removed
      /\ log.removed \in Nat /\ log.longest \in Nat
  <2>1. log' = [log EXCEPT !.stayed = @ \ {site[n]}, !.removed = IF pc = "listing" THEN @ + 1 ELSE @]
    BY DEF Remove
  <2>2. QED
    BY <2>1 DEF TypeOK
<1>4. log'.stayed \subseteq Range(site')
  <2>0. SUFFICES ASSUME NEW x \in log.stayed, x # site[n] PROVE x \in Range(site')
    BY <1>3
  <2>1. PICK k \in DOMAIN site : site[k] = x
    BY <1>1, <2>0, InRange
  <2>5. SUFFICES \E m \in DOMAIN site' : site'[m] = site[k]
    BY <2>1, InRange
  <2>2. CASE k < n
    <3>1. k \in DOMAIN site' /\ site'[k] = site[k]
      BY <1>1, <1>2, <2>2
    <3>2. QED
      BY <3>1
  <2>3. CASE k > n
    <3>1. k - 1 \in DOMAIN site' /\ ~(k - 1 < n) /\ (k - 1) + 1 = k
      BY <1>2, <2>3
    <3>2. site'[k - 1] = site[k]
      BY <1>1, <1>2, <3>1
    <3>3. QED
      BY <3>1, <3>2
  <2>4. QED
    BY <1>2, <2>0, <2>1, <2>2, <2>3
<1>5. Missed' \subseteq Missed \cup {site[page * PageSize + 1]}
  <2>1. SUFFICES ASSUME NEW k \in DOMAIN site', k <= page * PageSize,
                        site'[k] # site[page * PageSize + 1]
                 PROVE  site'[k] \in Passed
    BY <1>1, <1>3 DEF Missed, Passed, Read
  <2>2. page * PageSize \in Nat
    BY DetectionAssumption DEF TypeOK
  <2>3. CASE k < n
    BY <1>1, <1>2, <2>1, <2>3 DEF Passed
  <2>4. CASE ~(k < n)
    <3>1. k + 1 \in DOMAIN site /\ site'[k] = site[k + 1]
      BY <1>1, <1>2, <2>4
    <3>2. k + 1 <= page * PageSize
      BY <1>2, <2>1, <2>2, <3>1
    <3>3. QED
      BY <3>1, <3>2 DEF Passed
  <2>5. QED
    BY <2>3, <2>4
<1>6. IsFiniteSet(Missed)
  BY <1>1, FiniteSubset DEF Missed
<1>7. Cardinality(Missed') <= Cardinality(Missed) + 1 /\ Cardinality(Missed) \in Nat
      /\ Cardinality(Missed') \in Nat
  <2>1. PICK x : x = site[page * PageSize + 1]
    OBVIOUS
  <2>2. PICK T : T = Missed'
    OBVIOUS
  <2>3. QED
    BY <1>5, <1>6, <2>1, <2>2, OnePostMore
<1>8. pc' = "listing" => Len(site') <= log'.longest /\ Cardinality(Missed') <= log'.removed
  <2>1. pc = "listing" => Len(site) <= log.longest /\ Cardinality(Missed) <= log.removed
    BY DEF MissedSoFar
  <2>2. QED
    BY <1>1, <1>2, <1>3, <1>7, <2>1
<1>9. MissedBounded'
  <2>1. SUFFICES ASSUME pc \in {"detecting", "downloading"}, ~log.broken
                 PROVE  Cardinality(log'.stayed \ Read) <= log.removed + Beyond
    BY <1>1, <1>3 DEF MissedBounded, Beyond, Read
  <2>2. Cardinality(log.stayed \ Read) <= log.removed + Beyond
    BY <2>1 DEF MissedSoFar, MissedBounded
  <2>3. IsFiniteSet(log.stayed \ Read)
    BY <1>1, FiniteSubset
  <2>4. log'.stayed \ Read \subseteq log.stayed \ Read
    BY <1>3
  <2>5. Cardinality(log'.stayed \ Read) <= Cardinality(log.stayed \ Read)
        /\ Cardinality(log'.stayed \ Read) \in Nat /\ Cardinality(log.stayed \ Read) \in Nat
    BY <2>3, <2>4, Fewer
  <2>6. Beyond \in Nat
    BY <1>3, DetectionAssumption DEF Beyond
  <2>7. QED
    BY <1>3, <2>2, <2>5, <2>6
<1>10. QED
  BY <1>4, <1>8, <1>9 DEF MissedSoFar

LEMMA Appended ==
  ASSUME NEW A, NEW B, NEW s \in Seq(A), NEW t \in Seq(B), NEW j \in 1..Len(t)
  PROVE  Len(s) + j \in DOMAIN (s \o t) /\ (s \o t)[Len(s) + j] = t[j]
  OBVIOUS

(* A page: what is passed is read, or was missed before; the last one is   *)
(* short, so that it ends the list, or max_pages are read.                 *)
LEMMA MissedRead ==
  ASSUME TypeOK, MissedSoFar, ReadPage
  PROVE  MissedSoFar'
<1> DEFINE offset == page * PageSize
           n == IF Len(site) <= offset THEN 0
                ELSE IF Len(site) < offset + PageSize THEN Len(site) - offset ELSE PageSize
           data == [m \in 1..n |-> site[offset + m]]
           read == [m \in DOMAIN data |-> [id |-> data[m], full |-> data[m] \in imported]]
<1>1. posts' = posts \o read /\ pc' = (IF Last(data) THEN "detecting" ELSE "listing")
      /\ pc = "listing" /\ page' = page + 1 /\ UNCHANGED <<site, log>>
  BY DEF ReadPage
<1>2. PageSize \in Nat /\ MaxPages \in Nat /\ page \in Nat /\ site \in Seq(Posts) /\ Len(site) \in Nat
      /\ DOMAIN site = 1..Len(site) /\ log.removed \in Nat /\ log.longest \in Nat
  BY DetectionAssumption DEF TypeOK
<1>3. offset \in Nat /\ page' * PageSize = offset + PageSize
  BY <1>1, <1>2
<1>4. n \in Nat /\ n <= PageSize /\ \A k \in 1..Len(site) : k <= offset + PageSize => k <= offset + n
  <2> HIDE DEF offset
  <2> QED BY <1>2, <1>3
<1>5. n < PageSize => \A k \in 1..Len(site) : k <= offset + n
  <2> HIDE DEF offset
  <2> QED BY <1>2, <1>3
<1>6. Last(data) => n < PageSize \/ offset + PageSize = PageSize * MaxPages
  <2>1. Len(data) = n
    <3> HIDE DEF n
    <3> QED BY <1>4
  <2>2. page + 1 = MaxPages => offset + PageSize = PageSize * MaxPages
    BY <1>1, <1>2, <1>3
  <2>3. QED
    BY <2>1, <2>2 DEF Last
<1>7. \A k \in 1..Len(site) : k <= offset + n => k <= offset \/ site[k] \in Read'
  <2> HIDE DEF offset, n
  <2>1. SUFFICES ASSUME NEW k \in 1..Len(site), k <= offset + n, ~(k <= offset)
                 PROVE  \E m \in DOMAIN posts' : posts'[m].id = site[k]
    BY DEF Read
  <2>2. k - offset \in 1..n /\ offset + (k - offset) = k
    BY <1>2, <1>3, <1>4, <2>1
  <2>3. read[k - offset].id = site[k]
    BY <2>2
  <2>4. read \in Seq([id : {data[m] : m \in 1..n}, full : BOOLEAN]) /\ Len(read) = n
    BY <1>4
  <2>5. posts \in Seq([id : Posts, full : BOOLEAN]) /\ Len(posts) \in Nat
    BY DEF TypeOK
  <2> HIDE DEF read
  <2>6. Len(posts) + (k - offset) \in DOMAIN posts'
        /\ posts'[Len(posts) + (k - offset)] = read[k - offset]
    <3> DEFINE j == k - offset
               A == [id : Posts, full : BOOLEAN]
               B == [id : {data[m] : m \in 1..n}, full : BOOLEAN]
    <3>1. j \in 1..Len(read) /\ posts \in Seq(A) /\ read \in Seq(B)
      BY <2>2, <2>4, <2>5
    <3> HIDE DEF j, A, B
    <3>2. Len(posts) + j \in DOMAIN (posts \o read) /\ (posts \o read)[Len(posts) + j] = read[j]
      BY <3>1, Appended
    <3>3. QED
      BY <1>1, <3>2 DEF j
  <2>7. QED
    BY <2>3, <2>6
<1>8. Read \subseteq Read'
  <2> HIDE DEF read
  <2>1. \A m \in DOMAIN posts : m \in DOMAIN posts' /\ posts'[m] = posts[m]
    <3>1. posts \in Seq([id : Posts, full : BOOLEAN]) /\ posts' \in Seq([id : Posts, full : BOOLEAN])
          /\ Len(posts) \in Nat /\ Len(posts') >= Len(posts) /\ Len(posts') \in Nat
      BY PageRead DEF TypeOK
    <3>2. QED
      BY <1>1, <3>1
  <2>2. QED
    BY <2>1 DEF Read
<1> HIDE DEF offset, n, data, read
<1>9. Passed = {site[k] : k \in {m \in 1..Len(site) : m <= offset}}
      /\ Passed' = {site[k] : k \in {m \in 1..Len(site) : m <= offset + PageSize}}
  BY <1>1, <1>2, <1>3 DEF Passed, offset
<1>10. log.stayed \subseteq Range(site) /\ Len(site) <= log.longest /\ Cardinality(Missed) <= log.removed
  BY <1>1 DEF MissedSoFar
<1>11. IsFiniteSet(Missed) /\ Cardinality(Missed) \in Nat
  BY <1>2, <1>10, FiniteSubset DEF Missed
<1>12. Missed' \subseteq Missed
  BY <1>1, <1>4, <1>7, <1>8, <1>9 DEF Missed
<1>13. Cardinality(Missed') <= Cardinality(Missed) /\ Cardinality(Missed') \in Nat
  BY <1>11, <1>12, Fewer
<1>14. ASSUME Last(data)
       PROVE  Cardinality(log.stayed \ Read') <= log.removed + Beyond
  <2>0. Beyond \in Nat
    BY <1>2 DEF Beyond
  <2>1. CASE n < PageSize
    <3>1. \A k \in 1..Len(site) : site[k] \in Passed \/ site[k] \in Read'
      BY <1>5, <1>7, <1>9, <2>1
    <3>2. log.stayed \ Read' \subseteq Missed
      <4>1. SUFFICES ASSUME NEW x \in log.stayed, x \notin Read' PROVE x \in Missed
        OBVIOUS
      <4>2. PICK k \in 1..Len(site) : site[k] = x
        BY <1>2, <1>10, InRange
      <4>3. QED
        BY <1>8, <3>1, <4>1, <4>2 DEF Missed
    <3>3. Cardinality(log.stayed \ Read') <= Cardinality(Missed) /\ Cardinality(log.stayed \ Read') \in Nat
      BY <1>11, <3>2, Fewer
    <3>4. QED
      BY <1>2, <1>10, <1>11, <2>0, <3>3
  <2>2. CASE offset + PageSize = PageSize * MaxPages
    <3> DEFINE most == PageSize * MaxPages
    <3>1. most \in Nat /\ offset + PageSize = most
      BY <1>2, <2>2
    <3>2. IsFiniteSet(From(site, most))
          /\ Cardinality(From(site, most)) <= (IF Len(site) > most THEN Len(site) - most ELSE 0)
          /\ Cardinality(From(site, most)) \in Nat
      <4> HIDE DEF most
      <4> QED BY <1>2, <3>1, FromFinite, FS_CardinalityType
    <3>3. Cardinality(From(site, most)) <= Beyond
      <4>1. Beyond = IF log.longest > most THEN log.longest - most ELSE 0
        BY DEF Beyond
      <4> HIDE DEF most
      <4>2. QED
        BY <1>2, <1>10, <3>1, <3>2, <4>1
    <3>4. log.stayed \ Read' \subseteq Missed \cup From(site, most)
      <4> HIDE DEF most
      <4>1. SUFFICES ASSUME NEW x \in log.stayed, x \notin Read', x \notin From(site, most)
                     PROVE  x \in Missed
        OBVIOUS
      <4>2. PICK k \in 1..Len(site) : site[k] = x
        BY <1>2, <1>10, InRange
      <4>3. ~(k > most)
        BY <1>2, <3>1, <4>1, <4>2 DEF From
      <4>4. k <= offset + n
        BY <1>2, <1>4, <3>1, <4>3
      <4>5. site[k] \in Passed
        BY <1>7, <1>9, <4>1, <4>2, <4>4
      <4>6. QED
        BY <1>8, <4>1, <4>2, <4>5 DEF Missed
    <3>5. Cardinality(log.stayed \ Read') <= Cardinality(Missed) + Cardinality(From(site, most))
      BY <1>11, <3>2, <3>4, Both
    <3>6. Cardinality(log.stayed \ Read') \in Nat
      BY <1>2, <1>10, FiniteSubset
    <3>7. QED
      BY <1>2, <1>10, <1>11, <2>0, <3>2, <3>3, <3>5, <3>6
  <2>3. QED
    BY <1>6, <1>14, <2>1, <2>2
<1>15. MissedBounded'
  <2>1. Beyond' = Beyond /\ log' = log
    BY <1>1 DEF Beyond
  <2>2. pc' \in {"detecting", "downloading"} => Last(data)
    BY <1>1
  <2>3. QED
    BY <1>14, <2>1, <2>2 DEF MissedBounded
<1>16. QED
  BY <1>1, <1>2, <1>10, <1>11, <1>13, <1>15 DEF MissedSoFar

(* A step that is not about the pages. *)
LEMMA MissedUnchanged ==
  ASSUME MissedSoFar, UNCHANGED <<site, page, posts>>, pc' # "listing" \/ pc' = pc,
         pc' \in {"detecting", "downloading"} => pc \in {"detecting", "downloading"} \/ log'.broken,
         log'.stayed = log.stayed, log'.removed = log.removed, log'.longest = log.longest,
         log.broken => log'.broken
  PROVE  MissedSoFar'
<1>1. Passed' = Passed /\ Read' = Read /\ Beyond' = Beyond
  BY DEF Passed, Read, Beyond
<1>2. Missed' = Missed
  BY <1>1 DEF Missed
<1>3. log'.stayed \subseteq Range(site')
  BY DEF MissedSoFar
<1>4. pc' = "listing" => Len(site') <= log'.longest /\ Cardinality(Missed') <= log'.removed
  BY <1>2 DEF MissedSoFar
<1>5. MissedBounded'
  BY <1>1 DEF MissedSoFar, MissedBounded
<1>6. QED
  BY <1>3, <1>4, <1>5 DEF MissedSoFar

LEMMA NextMissed == TypeOK /\ MissedSoFar /\ [Next]_vars => MissedSoFar'
<1> SUFFICES ASSUME TypeOK, MissedSoFar, [Next]_vars PROVE MissedSoFar'
  OBVIOUS
<1>0. log \in [stayed : SUBSET Posts, removed : Nat, longest : Nat, broken : BOOLEAN,
               unread : SUBSET Nat, unlisted : SUBSET Identities]
  BY DEF TypeOK
<1>1. CASE StartRun
  <2>1. site' = site /\ pc' = "listing" /\ page' = 0 /\ site \in Seq(Posts) /\ PageSize \in Nat
        /\ log' = [LogInit EXCEPT !.stayed = Range(site), !.longest = Len(site)]
    BY <1>1, DetectionAssumption DEF StartRun, TypeOK
  <2>2. log'.stayed = Range(site) /\ log'.longest = Len(site) /\ log'.removed = 0 /\ Len(site) \in Nat
    BY <2>1 DEF LogInit
  <2>3. page' * PageSize = 0 /\ DOMAIN site = 1..Len(site)
    BY <2>1
  <2>4. Missed' = {}
    BY <2>1, <2>2, <2>3 DEF Missed, Passed
  <2>5. Cardinality(Missed') = 0
    BY <2>4, FS_EmptySet
  <2>6. QED
    BY <2>1, <2>2, <2>5 DEF MissedSoFar, MissedBounded
<1>2. CASE ReadPage
  BY <1>2, MissedRead
<1>3. CASE PageFails
  <2>1. UNCHANGED <<site, page, posts>> /\ pc' = "detecting" /\ log' = [log EXCEPT !.broken = TRUE]
    BY <1>3 DEF PageFails, run
  <2>2. log'.stayed = log.stayed /\ log'.removed = log.removed /\ log'.longest = log.longest /\ log'.broken
    BY <1>0, <2>1
  <2>3. QED
    BY <2>1, <2>2, MissedUnchanged
<1>4. ASSUME NEW content \in BOOLEAN, NEW listed \in SUBSET Identities, Detect(content, listed)
      PROVE  MissedSoFar'
  <2>1. UNCHANGED <<site, page, posts, pc>>
        /\ log' = [log EXCEPT !.unread = IF content THEN @ ELSE @ \cup {i},
                              !.unlisted = @ \cup (Offered \ listed)]
    BY <1>4, Detects
  <2>2. log'.stayed = log.stayed /\ log'.removed = log.removed /\ log'.longest = log.longest
        /\ log'.broken = log.broken
    BY <1>0, <2>1
  <2>3. QED
    BY <2>1, <2>2, MissedUnchanged
<1>5. CASE Detected
  <2>1. UNCHANGED <<site, page, posts, log>> /\ pc = "detecting" /\ pc' = "downloading"
    BY <1>5 DEF Detected, run
  <2>2. QED
    BY <2>1, MissedUnchanged
<1>6. ASSUME NEW done \in SUBSET Items, Download(done)
      PROVE  MissedSoFar'
  <2>1. UNCHANGED <<site, page, posts, log>> /\ pc' = "idle"
    BY <1>6 DEF Download, run
  <2>2. QED
    BY <2>1, MissedUnchanged
<1>7. CASE Crash
  <2>1. UNCHANGED <<site, page, posts, log>> /\ pc' = "idle"
    BY <1>7 DEF Crash, run
  <2>2. QED
    BY <2>1, MissedUnchanged
<1>8. ASSUME NEW p \in Posts, Publish(p) \/ Import(p)
      PROVE  MissedSoFar'
  <2>1. CASE Publish(p)
    BY <2>1, MissedPublish
  <2>2. CASE Import(p)
    <3>1. UNCHANGED <<site, page, posts, log, pc>>
      BY <2>2 DEF Import, Change, run
    <3>2. QED
      BY <3>1, MissedUnchanged
  <2>3. QED
    BY <1>8, <2>1, <2>2
<1>9. ASSUME NEW n \in DOMAIN site, Remove(n)
      PROVE  MissedSoFar'
  BY <1>9, MissedRemove
<1>10. CASE UNCHANGED vars
  <2>1. UNCHANGED <<site, page, posts, log, pc>>
    BY <1>10 DEF vars, run
  <2>2. QED
    BY <2>1, MissedUnchanged
<1>11. QED
  BY <1>1, <1>2, <1>3, <1>4, <1>5, <1>6, <1>7, <1>8, <1>9, <1>10, Cases

(* get_all_posts_from_creator: of the posts that stay on the site while it *)
(* is read, a run misses at most as many as are removed meanwhile, and     *)
(* those that max_pages pages do not reach.                                *)
THEOREM MissesFew == Spec => []MissedBounded
<1>1. Init => MissedSoFar
  <2>1. SUFFICES ASSUME Init PROVE MissedSoFar
    OBVIOUS
  <2>2. pc = "idle" /\ log.stayed = {}
    BY <2>1 DEF Init, LogInit
  <2>3. QED
    BY <2>2 DEF MissedSoFar, MissedBounded
<1>2. TypeOK /\ MissedSoFar /\ [Next]_vars => MissedSoFar'
  BY NextMissed
<1>3. MissedSoFar => MissedBounded
  BY DEF MissedSoFar
<1>4. QED
  BY <1>1, <1>2, <1>3, TypeCorrect, PTL DEF Spec
=============================================================================
