------------------------------- MODULE Detection -------------------------------
(***************************************************************************)
(* How a run finds what to download: the pages of a creator's posts        *)
(* (core/kemono.py: get_all_posts_from_creator), read one after the other  *)
(* while the site changes, and the loop of Creator.download with           *)
(* detect_files_in_post and _detect_external_files (core/creator.py), over *)
(* one run after the other.                                                *)
(*                                                                         *)
(* A post has the files kemono hosts, told apart by hash, and the external *)
(* links in its text, told apart by identity.  The images embedded in the  *)
(* text are hosted files, too, but found like the links: in the content,   *)
(* which the list of posts may have in part only, so that it takes another *)
(* request, which can fail.  ALLOWED_TYPES turns embeds and links on and   *)
(* off; what else it and ALLOWED_EXTENSIONS leave out is not in Files,     *)
(* Embeds and Links.                                                       *)
(***************************************************************************)
EXTENDS Naturals, Sequences, FiniteSets, Functions

CONSTANTS
  Posts,       \* the posts there can be
  Files,       \* [Posts -> SUBSET hashes]: thumbnail and attachments
  Embeds,      \* [Posts -> SUBSET hashes]: images in the content
  Links,       \* [Posts -> SUBSET identities]
  Truncated,   \* the posts of which the list has a `substring` and no content
  Wanted,      \* the posts whose title INCLUDE_REGEX and EXCLUDE_REGEX let pass
  FirstPosts,  \* the posts at the beginning, newest first
  PageSize,    \* page_size
  MaxPages,    \* max_pages
  MaxChanges,  \* bound: posts published, removed, imported
  MaxFailures  \* bound: requests, listings and downloads that fail

Hashes == UNION (Range(Files) \cup Range(Embeds))
Identities == UNION Range(Links)
Items == Hashes \cup Identities

ASSUME DetectionAssumption ==
  /\ Wanted \cup Truncated \subseteq Posts
  /\ Files \in [Posts -> SUBSET Hashes] /\ Embeds \in [Posts -> SUBSET Hashes]
  /\ Links \in [Posts -> SUBSET Identities]
  /\ Hashes \cap Identities = {}
  /\ FirstPosts \in Seq(Posts) /\ IsInjective(FirstPosts)
  /\ PageSize \in Nat \ {0} /\ MaxPages \in Nat \ {0}
  /\ MaxChanges \in Nat /\ MaxFailures \in Nat

VARIABLES
  site,       \* the creator's posts, newest first
  imported,   \* the posts whose files the mirror has: has_full is not False
  types,      \* "embed": ALLOWED_TYPES is empty or has it, "external": it has it
  recorded,   \* the files table: hashes and identities
  postRows,   \* the posts table
  pc,         \* what the run is doing
  page,       \* the page to read next
  posts,      \* the posts read, each with its has_full
  i,          \* the post that is looked at
  hashes,     \* Creator.hashes
  urls,       \* Creator.external_urls
  queued,     \* how often each file was queued for download
  log,        \* history of this run, see LogInit
  changes, failures

run == <<page, posts, i, hashes, urls, queued>>
vars == <<site, imported, types, recorded, postRows, pc, run, log, changes, failures>>

LogInit == [
  stayed |-> {},    \* the posts that are on the site since the listing began
  removed |-> 0,    \* the posts removed during the listing
  longest |-> 0,    \* the most posts there were during the listing
  broken |-> FALSE, \* a page could not be read
  unread |-> {},    \* the posts (places in posts) whose content could not be fetched
  unlisted |-> {}]  \* the links whose contents could not be listed

Init ==
  /\ site = FirstPosts
  /\ imported \in {Posts \ {p} : p \in Posts}
  /\ types \in SUBSET {"embed", "external"}
  /\ recorded = {} /\ postRows = {}
  /\ pc = "idle"
  /\ page = 0 /\ posts = <<>> /\ i = 1
  /\ hashes = {} /\ urls = {} /\ queued = [x \in Items |-> 0]
  /\ log = LogInit
  /\ changes = 0 /\ failures = 0

-----------------------------------------------------------------------------
(* The site. *)

Change ==
  /\ changes < MaxChanges
  /\ changes' = changes + 1
  /\ UNCHANGED <<types, recorded, postRows, pc, run, failures>>

Publish(p) ==
  /\ p \notin Range(site) \cup Range(FirstPosts)
  /\ site' = <<p>> \o site
  /\ log' = IF pc = "listing" /\ Len(site') > log.longest
            THEN [log EXCEPT !.longest = Len(site')] ELSE log
  /\ UNCHANGED imported
  /\ Change

Remove(n) ==
  /\ site' = [k \in 1..(Len(site) - 1) |-> site[IF k < n THEN k ELSE k + 1]]
  /\ log' = [log EXCEPT !.stayed = @ \ {site[n]}, !.removed = IF pc = "listing" THEN @ + 1 ELSE @]
  /\ UNCHANGED imported
  /\ Change

Import(p) ==
  /\ p \notin imported
  /\ imported' = imported \cup {p}
  /\ UNCHANGED <<site, log>>
  /\ Change

-----------------------------------------------------------------------------
(* The run. *)

(* Bug: the hashes and identities of the run before are used again. *)
KnownFromBefore(set, what) == set \cup (recorded \cap what)

(* load_files *)
Known(set, what) == recorded \cap what

StartRun ==
  /\ pc = "idle"
  /\ pc' = "listing"
  /\ hashes' = Known(hashes, Hashes)
  /\ urls' = Known(urls, Identities)
  /\ page' = 0 /\ posts' = <<>> /\ i' = 1
  /\ queued' = [x \in Items |-> 0]
  /\ log' = [LogInit EXCEPT !.stayed = Range(site), !.longest = Len(site)]
  /\ UNCHANGED <<site, imported, types, recorded, postRows, changes, failures>>

(* Bug: a page that is full to the last post is the last one. *)
LastOnFullPage(data) == Len(data) <= PageSize

(* The first short page is the last one, so is page max_pages. *)
Last(data) == Len(data) < PageSize \/ page + 1 = MaxPages

(* One request at offset page * page_size, on the site as it is then. *)
ReadPage ==
  /\ pc = "listing"
  /\ LET offset == page * PageSize
         data == [k \in 1..(IF Len(site) <= offset THEN 0
                            ELSE IF Len(site) < offset + PageSize THEN Len(site) - offset
                            ELSE PageSize) |-> site[offset + k]]
     IN  /\ posts' = posts \o [k \in DOMAIN data |-> [id |-> data[k], full |-> data[k] \in imported]]
         /\ pc' = IF Last(data) THEN "detecting" ELSE "listing"
  /\ page' = page + 1
  /\ UNCHANGED <<site, imported, types, recorded, postRows, i, hashes, urls, queued, log,
                 changes, failures>>

Fault == failures < MaxFailures /\ failures' = failures + 1

(* No variant of the url was answered, or not with a list: the posts read  *)
(* so far are all there are, and the caller cannot tell.                   *)
PageFails ==
  /\ pc = "listing" /\ Fault
  /\ pc' = "detecting"
  /\ log' = [log EXCEPT !.broken = TRUE]
  /\ UNCHANGED <<site, imported, types, recorded, postRows, run, changes>>

(* Bug: what is queued is not noted in the hashes. *)
NoteNothing(new) == {}

(* self.hashes.add *)
Note(new) == new

(* The content takes a request of its own: get_post_data.                  *)
Requested(post) ==
  /\ post.id \in Truncated /\ types # {}
  /\ post.full \/ "external" \in types

(* Bug: a post whose content cannot be fetched is passed over. *)
PassedOver(post, content) ==
  IF ~post.full \/ ~content THEN {}
  ELSE Files[post.id] \cup (IF "embed" \in types THEN Embeds[post.id] ELSE {})

(* detect_files_in_post, include_kemono_files: the embeds, which ask for   *)
(* the content, are missing when there is none.                            *)
HostedFiles(post, content) ==
  IF ~post.full THEN {}
  ELSE Files[post.id] \cup (IF content /\ "embed" \in types THEN Embeds[post.id] ELSE {})

(* _detect_external_files: what was not found before, in this run or an    *)
(* earlier one.                                                            *)
Found(listed) == listed \ urls

(* One post.  A link's identity is noted in external_urls when it is       *)
(* found, a file's hash when it is queued; the title's filter is between.  *)
(* content: whether the post's content is there; listed: the links in it   *)
(* whose contents could be listed.                                         *)
Detect(content, listed) ==
  /\ pc = "detecting" /\ i <= Len(posts)
  /\ LET p == posts[i].id
         found == Found(listed)
         fresh == HostedFiles(posts[i], content) \ hashes
         new == IF p \in Wanted THEN fresh \cup found ELSE {}
         links == IF "external" \in types THEN Links[p] ELSE {}
     IN  /\ content \/ (Requested(posts[i]) /\ listed = {})
         /\ listed \subseteq links
         /\ IF content /\ listed = links THEN UNCHANGED failures ELSE Fault
         /\ urls' = urls \cup found
         /\ hashes' = hashes \cup Note(new \cap Hashes)
         /\ queued' = [x \in Items |-> IF x \in new THEN queued[x] + 1 ELSE queued[x]]
         /\ postRows' = IF new = {} THEN postRows ELSE postRows \cup {p}
         /\ log' = [log EXCEPT !.unread = IF content THEN @ ELSE @ \cup {i},
                               !.unlisted = @ \cup (links \ listed)]
  /\ i' = i + 1
  /\ UNCHANGED <<site, imported, types, recorded, pc, page, posts, changes>>

Detected ==
  /\ pc = "detecting" /\ i > Len(posts)
  /\ pc' = "downloading"
  /\ UNCHANGED <<site, imported, types, recorded, postRows, run, log, changes, failures>>

Queue == {x \in Items : queued[x] > 0}

(* download_all_files: what succeeds is recorded (Library tells how).      *)
Download(done) ==
  /\ pc = "downloading" /\ done \subseteq Queue
  /\ IF done # Queue THEN Fault ELSE UNCHANGED failures
  /\ recorded' = recorded \cup done
  /\ pc' = "idle"
  /\ UNCHANGED <<site, imported, types, postRows, run, log, changes>>

(* The process is killed while it looks for what to download. *)
Crash ==
  /\ pc \in {"listing", "detecting"} /\ Fault
  /\ pc' = "idle"
  /\ UNCHANGED <<site, imported, types, recorded, postRows, run, log, changes>>

RunStep ==
  \/ StartRun \/ ReadPage \/ PageFails \/ Detected
  \/ \E content \in BOOLEAN, listed \in SUBSET Identities : Detect(content, listed)
  \/ \E done \in SUBSET Items : Download(done)

Next ==
  \/ RunStep \/ Crash
  \/ \E p \in Posts : Publish(p) \/ Import(p)
  \/ \E n \in DOMAIN site : Remove(n)

(* A run goes on, and the scheduler starts the next one. *)
Spec == Init /\ [][Next]_vars /\ WF_vars(RunStep)

-----------------------------------------------------------------------------
(* The type invariant: the site, the tables and the run. *)
TypeOK ==
  /\ site \in Seq(Posts) /\ IsInjective(site)
  /\ imported \subseteq Posts /\ types \subseteq {"embed", "external"}
  /\ recorded \subseteq Items /\ postRows \subseteq Posts
  /\ pc \in {"idle", "listing", "detecting", "downloading"}
  /\ page \in 0..MaxPages /\ (pc = "listing" => page < MaxPages)
  /\ posts \in Seq([id : Posts, full : BOOLEAN])
  /\ i \in 1..(Len(posts) + 1)
  /\ hashes \subseteq Hashes /\ urls \subseteq Identities /\ queued \in [Items -> Nat]
  /\ log \in [stayed : SUBSET Posts, removed : Nat, longest : Nat, broken : BOOLEAN,
              unread : SUBSET Nat, unlisted : SUBSET Identities]

Read == {posts[n].id : n \in DOMAIN posts}

(* get_all_posts_from_creator reads pages by their offset in a list that   *)
(* moves.  New posts move it down, so that posts are read twice but none   *)
(* is missed; each post removed meanwhile costs one other post at most,    *)
(* and the oldest ones are missed that max_pages pages do not reach.       *)
Beyond == IF log.longest > PageSize * MaxPages THEN log.longest - PageSize * MaxPages ELSE 0
MissedBounded ==
  pc \in {"detecting", "downloading"} /\ ~log.broken =>
    Cardinality(log.stayed \ Read) <= log.removed + Beyond

(* Posts read twice, and files and links in several posts, are queued once *)
(* a run, and never once they are recorded.                                *)
QueuedOnce == \A x \in Items : queued[x] <= 1 /\ (pc # "idle" => queued[x] = 0 \/ x \notin recorded)

(* What a run queues is all it should: the files, embeds and links of the  *)
(* posts it read that pass the filters, without those that are recorded,   *)
(* and no file of a post the mirror has not imported.  A post's embeds are *)
(* missing if its content could not be fetched, unless they are in another *)
(* post.  A link can be missing that could not be listed, or that a post   *)
(* the filters left out had before.                                        *)
HiddenAt(n) == UNION {Links[posts[m].id] : m \in {k \in 1..(n - 1) : posts[k].id \notin Wanted}}
QueueIsWanted ==
  pc = "downloading" =>
    LET Passing == {n \in DOMAIN posts : posts[n].id \in Wanted}
        HostedBy(n) == Files[posts[n].id] \cup
          (IF "embed" \in types /\ n \notin log.unread THEN Embeds[posts[n].id] ELSE {})
        Hosted == UNION {HostedBy(n) : n \in {m \in Passing : posts[m].full}}
    IN  /\ Queue \cap Hashes = Hosted \ recorded
        /\ "external" \in types => \A n \in Passing : \A l \in Links[posts[n].id] :
             l \in Queue \cup recorded \cup log.unlisted \cup HiddenAt(n)

(* Requests, listings and downloads can fail, the process can be killed    *)
(* and the site can change: once that ends, later runs make up for it.     *)
(* Everything wanted on the pages that are read is recorded in the end,    *)
(* but links that a filtered post has too.                                 *)
Reached(p) == \E n \in DOMAIN site : n <= PageSize * MaxPages /\ site[n] = p
Filtered == UNION {Links[p] : p \in Posts \ Wanted}
EverythingArrives ==
  \A p \in Wanted :
    /\ <>[](Reached(p) /\ p \in imported =>
              Files[p] \cup (IF "embed" \in types THEN Embeds[p] ELSE {}) \subseteq recorded)
    /\ <>[](Reached(p) /\ "external" \in types => Links[p] \ Filtered \subseteq recorded)
=============================================================================
