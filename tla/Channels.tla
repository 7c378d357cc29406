------------------------------ MODULE Channels ------------------------------
(***************************************************************************)
(* How an ingested page finds its channel (resolve_channel and             *)
(* create_analysis of backend/app/services.py).  A TikTok account keeps    *)
(* its numeric id and may change its handle; collectors send the handle    *)
(* and, unless they are old, the id.  A channel row found by its handle    *)
(* adopts the id; a row found by its id consolidates a row of the same     *)
(* handle that has none.                                                   *)
(*                                                                         *)
(* A request is one transaction under the advisory locks of its handle and *)
(* id, so it is one step; one that is refused (409, or 503 for a foreign   *)
(* key) is rolled back and is no step.  A request may be delayed or        *)
(* repeated, so it may carry any handle its account ever had.              *)
(***************************************************************************)
EXTENDS Naturals, FiniteSets

CONSTANTS
  Accounts,       \* TikTok accounts, as their numeric ids
  Handles,        \* public handles
  Videos,         \* TikTok videos
  Analyses,       \* browser scans
  Rows,           \* ids of channel rows; bound: rows at one time
  Author,         \* the account of each video
  Target,         \* the account each scan visits
  HandleReuse,    \* may an account take a handle another one had
  None            \* NULL; no row

ASSUME ChannelsAssumption ==
  /\ IsFiniteSet(Videos)
  /\ Author \in [Videos -> Accounts] /\ Target \in [Analyses -> Accounts]
  /\ HandleReuse \in BOOLEAN
  /\ None \notin Accounts /\ None \notin Handles /\ None \notin Rows

VARIABLES
  \* TikTok
  handle,         \* the current handle of an account
  had,            \* every handle an account ever had
  \* channels
  rows,           \* rows that exist
  tid,            \* channel.tiktok_user_id
  username,       \* channel.username
  newer,          \* pairs of rows in descending order of updated_at
  studied,        \* rows that intelligence, packs or playbooks refer to
  \* videos, analyses, video_snapshots
  home,           \* video.channel_id; None before the video is known
  scanChannel,    \* analysis.channel_id; None before the analysis exists
  snapshots,      \* snapshots, as scan and video
  videosNew, videosRefreshed, videoCount  \* counters of an analysis

accountVars == <<handle, had>>
rowVars == <<rows, tid, username, newer>>
corpusVars == <<home, scanChannel, snapshots, videosNew, videosRefreshed, videoCount>>
vars == <<accountVars, rowVars, studied, corpusVars>>

TypeOK ==
  /\ handle \in [Accounts -> Handles \cup {None}]
  /\ had \in [Accounts -> SUBSET Handles]
  /\ rows \subseteq Rows
  /\ tid \in [Rows -> Accounts \cup {None}]
  /\ username \in [Rows -> Handles \cup {None}]
  /\ newer \subseteq rows \X rows
  /\ studied \subseteq rows
  /\ home \in [Videos -> rows \cup {None}]
  /\ scanChannel \in [Analyses -> rows \cup {None}]
  /\ snapshots \subseteq Analyses \X Videos
  /\ videosNew \in [Analyses -> Nat]
  /\ videosRefreshed \in [Analyses -> Nat]
  /\ videoCount \in [Analyses -> Nat]

Init ==
  /\ handle = [x \in Accounts |-> None]
  /\ had = [x \in Accounts |-> {}]
  /\ rows = {} /\ newer = {} /\ studied = {}
  /\ tid = [c \in Rows |-> None]
  /\ username = [c \in Rows |-> None]
  /\ home = [v \in Videos |-> None]
  /\ scanChannel = [a \in Analyses |-> None]
  /\ snapshots = {}
  /\ videosNew = [a \in Analyses |-> 0]
  /\ videosRefreshed = [a \in Analyses |-> 0]
  /\ videoCount = [a \in Analyses |-> 0]
-----------------------------------------------------------------------------
(* An account signs up or changes its handle. *)
Rename(x, h) ==
  /\ \A y \in Accounts : handle[y] # h
  /\ HandleReuse \/ \A y \in Accounts \ {x} : h \notin had[y]
  /\ handle' = [handle EXCEPT ![x] = h]
  /\ had' = [had EXCEPT ![x] = @ \cup {h}]
  /\ UNCHANGED <<rowVars, studied, corpusVars>>

(* An analysis, pack or playbook of the channel is stored. *)
Study(c) ==
  /\ c \in rows /\ \E v \in Videos : home[v] = c
  /\ studied' = studied \cup {c}
  /\ UNCHANGED <<accountVars, rowVars, corpusVars>>
-----------------------------------------------------------------------------
(* resolve_channel *)

Request ==
  [account : Accounts, handle : Handles, hasId : BOOLEAN, scan : Analyses,
   videos : SUBSET Videos]

ById(q) == {c \in rows : q.hasId /\ tid[c] = q.account}

(* The row of that handle updated last. *)
ByName(q) ==
  {c \in rows : /\ username[c] = q.handle
                /\ \A d \in rows : username[d] = q.handle => <<d, c>> \notin newer}

FaultyFound(q, c, gone) ==
  /\ gone = {}
  /\ \/ c \in ByName(q)
     \/ ByName(q) = {} /\ c \in ById(q)
     \/ ByName(q) = {} /\ ById(q) = {} /\ c \in Rows \ rows

FaultyKept(q, c, gone) ==
  \/ /\ c \in ByName(q) /\ gone = ById(q) \ {c}
  \/ /\ ByName(q) = {} /\ c \in ById(q) /\ gone = {}
  \/ /\ ById(q) = {} /\ ByName(q) = {} /\ c \in Rows \ rows /\ gone = {}

(* The channel of a request, and the row it consolidates. *)
Found(q, c, gone) ==
  \/ /\ c \in ById(q)
     /\ gone = {d \in ByName(q) \ {c} : tid[d] = None}
  \/ /\ ById(q) = {} /\ c \in ByName(q) /\ gone = {}
  \/ /\ ById(q) = {} /\ ByName(q) = {} /\ c \in Rows \ rows /\ gone = {}

FaultyMoved(ref, c, gone) == ref

(* The consolidated row's videos and analyses refer to the channel. *)
Moved(ref, c, gone) == [x \in DOMAIN ref |-> IF ref[x] \in gone THEN c ELSE ref[x]]

Identify(q, c, gone) ==
  /\ rows' = (rows \ gone) \cup {c}
  /\ tid' = [d \in Rows |-> IF d \in gone THEN None
                            ELSE IF d = c /\ q.hasId THEN q.account ELSE tid[d]]
  /\ username' = [d \in Rows |-> IF d \in gone THEN None
                                 ELSE IF d = c THEN q.handle ELSE username[d]]
  /\ newer' = {p \in newer : {p[1], p[2]} \cap (gone \cup {c}) = {}}
                \cup ({c} \X (rows \ (gone \cup {c})))
-----------------------------------------------------------------------------
(* create_analysis *)

FaultyAccepts(ref, xs, c) == TRUE

(* An analysis or video of another channel refuses the whole page. *)
Accepts(ref, xs, c) == \A x \in xs : ref[x] \in {None, c}

FaultyCount(q, known) ==
  LET seen == q.videos
  IN  /\ videosNew' = [videosNew EXCEPT ![q.scan] = @ + Cardinality(seen \ known)]
      /\ videosRefreshed' = [videosRefreshed EXCEPT ![q.scan] = @ + Cardinality(seen \cap known)]

(* A video without a snapshot in this scan counts once, as new or refreshed. *)
Count(q, known) ==
  LET seen == {v \in q.videos : <<q.scan, v>> \notin snapshots}
  IN  /\ videosNew' = [videosNew EXCEPT ![q.scan] = @ + Cardinality(seen \ known)]
      /\ videosRefreshed' = [videosRefreshed EXCEPT ![q.scan] = @ + Cardinality(seen \cap known)]

FaultyReferenced(gone) == FALSE

(* A foreign key keeps a row that intelligence refers to from being deleted. *)
Referenced(gone) == gone \cap studied # {}

(* A page of a scan is ingested. *)
Deliver(q) ==
  \E c \in Rows : \E gone \in SUBSET rows :
    LET homes == Moved(home, c, gone)
        scans == Moved(scanChannel, c, gone)
    IN  /\ Found(q, c, gone) /\ ~Referenced(gone)
        /\ Accepts(scans, {q.scan}, c) /\ Accepts(homes, q.videos, c)
        /\ Identify(q, c, gone)
        /\ home' = [v \in Videos |-> IF v \in q.videos THEN c ELSE homes[v]]
        /\ scanChannel' = [scans EXCEPT ![q.scan] = c]
        /\ snapshots' = snapshots \cup ({q.scan} \X q.videos)
        /\ Count(q, {v \in Videos : home[v] # None})
        /\ videoCount' = [videoCount EXCEPT ![q.scan] =
                            Cardinality({v \in Videos : <<q.scan, v>> \in snapshots'})]
        /\ UNCHANGED <<accountVars, studied>>

(* What a collector sends: a scan's page of its account's videos. *)
Sent(q) ==
  /\ q.account = Target[q.scan] /\ q.handle \in had[q.account]
  /\ q.videos # {} /\ \A v \in q.videos : Author[v] = q.account

Next ==
  \/ \E x \in Accounts, h \in Handles : Rename(x, h)
  \/ \E c \in Rows : Study(c)
  \/ \E q \in Request : Sent(q) /\ Deliver(q)

Spec == Init /\ [][Next]_vars
-----------------------------------------------------------------------------
(* Properties *)

(* An account has one row, whatever handles and ids its requests carry. *)
UniqueIdentity ==
  \A c, d \in rows : tid[c] = tid[d] /\ tid[c] # None => c = d

(* The videos of a scan stay in the channel of the scan, consolidation of the
   one or the other included: coverage and selection join them by channel. *)
SnapshotsInChannel ==
  \A a \in Analyses, v \in Videos :
    <<a, v>> \in snapshots => home[v] = scanChannel[a] /\ home[v] # None

(* The new videos of all scans, numbered within their scan. *)
CountedNew == UNION {{a} \X (1 .. videosNew[a]) : a \in Analyses}

(* Every snapshot is counted once: a scan's new and refreshed videos are the
   videos it saw, through replayed pages, and a video is new in one scan. *)
CountsAgree ==
  /\ \A a \in Analyses :
       /\ videoCount[a] = Cardinality({v \in Videos : <<a, v>> \in snapshots})
       /\ videosNew[a] + videosRefreshed[a] = videoCount[a]
  /\ Cardinality(CountedNew) = Cardinality({v \in Videos : home[v] # None})

(* "Preserve all corpus rows when consolidating": no step drops a video or a
   scan, or separates two videos of one channel. *)
CorpusKept ==
  [][/\ \A v \in Videos : home[v] # None => home'[v] \in rows'
     /\ \A a \in Analyses : scanChannel[a] # None => scanChannel'[a] \in rows'
     /\ \A v, w \in Videos : home[v] = home[w] /\ home[v] # None => home'[v] = home'[w]]_vars

(* The numeric id is "TikTok's immutable account identifier" and the canonical
   identity of a channel: a row that has one keeps it, and stays. *)
IdentityKept ==
  [][\A c \in rows : tid[c] # None => c \in rows' /\ tid'[c] = tid[c]]_vars

=============================================================================
