--------------------------- MODULE ChannelsProofs ---------------------------
(***************************************************************************)
(* Proofs about module Channels, for every set of accounts, handles,       *)
(* videos, scans and rows.                                                 *)
(***************************************************************************)
EXTENDS Channels, FiniteSetTheorems, TLAPS

(* Ids of rows that do not exist carry nothing; a row that has an account's id
   carries a handle the account had. *)
RowsClean ==
  /\ \A c \in Rows \ rows : tid[c] = None
  /\ \A c \in rows : username[c] \in Handles
  /\ \A c \in rows : tid[c] # None => username[c] \in had[tid[c]]

ChannelsInv == TypeOK /\ RowsClean /\ UniqueIdentity /\ SnapshotsInChannel

LEMMA InitInv == Init => ChannelsInv
BY ChannelsAssumption DEF Init, ChannelsInv, TypeOK, RowsClean, UniqueIdentity, SnapshotsInChannel

LEMMA RenameInv ==
  ASSUME ChannelsInv, NEW x \in Accounts, NEW h \in Handles, Rename(x, h)
  PROVE  ChannelsInv'
<1> USE DEF ChannelsInv
<1>1. UNCHANGED <<rowVars, studied, corpusVars>>
  BY DEF Rename
<1>2. /\ handle' \in [Accounts -> Handles \cup {None}]
      /\ had' \in [Accounts -> SUBSET Handles]
      /\ \A y \in Accounts : had[y] \subseteq had'[y]
  BY DEF Rename, TypeOK
<1>3. TypeOK'
  BY <1>1, <1>2 DEF TypeOK, rowVars, corpusVars
<1>4. RowsClean'
  BY <1>1, <1>2 DEF RowsClean, rowVars, TypeOK
<1> QED BY <1>1, <1>3, <1>4 DEF UniqueIdentity, SnapshotsInChannel, rowVars, corpusVars

LEMMA StudyInv ==
  ASSUME ChannelsInv, NEW c \in Rows, Study(c)
  PROVE  ChannelsInv'
<1> USE DEF ChannelsInv
<1>1. UNCHANGED <<accountVars, rowVars, corpusVars>> /\ studied' \subseteq rows
  BY DEF Study, TypeOK
<1> USE DEF accountVars, rowVars, corpusVars
<1>2. TypeOK'
  BY <1>1 DEF TypeOK
<1> QED BY <1>1, <1>2 DEF RowsClean, UniqueIdentity, SnapshotsInChannel
-----------------------------------------------------------------------------
(* The channel a request finds, and what it consolidates, are different rows;
   what it consolidates has no id; the channel has no other account's id unless
   it was found by its handle. *)
LEMMA FoundRow ==
  ASSUME ChannelsInv, NEW q \in Request, NEW c \in Rows, NEW gone \in SUBSET rows,
         Found(q, c, gone)
  PROVE  /\ c \notin gone /\ gone \subseteq rows
         /\ \A d \in gone : tid[d] = None
         /\ \A d \in rows : q.hasId /\ tid[d] = q.account => d = c
         /\ c \in rows => ById(q) = {c} \/ username[c] = q.handle
<1>1. \A d \in ById(q) : d \in rows /\ q.hasId /\ tid[d] = q.account
  BY DEF ById
<1>2. \A d \in rows : q.hasId /\ tid[d] = q.account => d \in ById(q)
  BY DEF ById
<1>3. \A d \in ByName(q) : d \in rows /\ username[d] = q.handle
  BY DEF ByName
<1>4. ASSUME NEW d \in ById(q), NEW e \in ById(q) PROVE d = e
  BY <1>1, ChannelsAssumption DEF ChannelsInv, UniqueIdentity, Request
<1>5. q.account \in Accounts
  BY DEF Request
<1> QED BY <1>1, <1>2, <1>3, <1>4, <1>5 DEF Found

(* What Identify leaves of the rows. *)
LEMMA Identified ==
  ASSUME ChannelsInv, NEW q \in Request, NEW c \in Rows, NEW gone \in SUBSET rows,
         c \notin gone, Identify(q, c, gone)
  PROVE  /\ rows' = (rows \ gone) \cup {c} /\ rows' \subseteq Rows
         /\ tid' \in [Rows -> Accounts \cup {None}]
         /\ username' \in [Rows -> Handles \cup {None}]
         /\ tid'[c] = IF q.hasId THEN q.account ELSE tid[c]
         /\ username'[c] = q.handle
         /\ \A d \in Rows \ {c} : d \notin gone => tid'[d] = tid[d] /\ username'[d] = username[d]
         /\ \A d \in gone : tid'[d] = None
         /\ newer' \subseteq rows' \X rows'
<1>1. q.account \in Accounts /\ q.handle \in Handles
  BY DEF Request
<1>2. /\ rows' = (rows \ gone) \cup {c} /\ rows \subseteq Rows /\ newer \subseteq rows \X rows
      /\ newer' = {p \in newer : {p[1], p[2]} \cap (gone \cup {c}) = {}}
                    \cup ({c} \X (rows \ (gone \cup {c})))
  BY DEF Identify, ChannelsInv, TypeOK
<1>3. newer' \subseteq rows' \X rows'
  <2>1. {p \in newer : {p[1], p[2]} \cap (gone \cup {c}) = {}} \subseteq rows' \X rows'
    BY <1>2
  <2>2. {c} \X (rows \ (gone \cup {c})) \subseteq rows' \X rows'
    BY <1>2
  <2> QED BY <1>2, <2>1, <2>2
<1>4. /\ tid' = [d \in Rows |-> IF d \in gone THEN None
                                ELSE IF d = c /\ q.hasId THEN q.account ELSE tid[d]]
      /\ username' = [d \in Rows |-> IF d \in gone THEN None
                                     ELSE IF d = c THEN q.handle ELSE username[d]]
  BY DEF Identify
<1>5. tid \in [Rows -> Accounts \cup {None}] /\ username \in [Rows -> Handles \cup {None}]
  BY DEF ChannelsInv, TypeOK
<1>6. gone \subseteq Rows
  BY <1>2
<1>7. tid' \in [Rows -> Accounts \cup {None}] /\ username' \in [Rows -> Handles \cup {None}]
  BY <1>1, <1>4, <1>5
<1> QED BY <1>2, <1>3, <1>4, <1>6, <1>7

(* What a reference is after a consolidation. *)
LEMMA MovedRef ==
  ASSUME NEW S, NEW old, NEW ref \in [S -> old \cup {None}], NEW c, NEW gone \in SUBSET old,
         None \notin old
  PROVE  /\ DOMAIN Moved(ref, c, gone) = S
         /\ \A x \in S : /\ Moved(ref, c, gone)[x] = IF ref[x] \in gone THEN c ELSE ref[x]
                         /\ ref[x] = None => Moved(ref, c, gone)[x] = None
                         /\ Moved(ref, c, gone)[x] \in (old \ gone) \cup {c, None}
         /\ Moved(ref, c, gone) \in [S -> (old \ gone) \cup {c, None}]
BY DEF Moved

LEMMA DeliverInv ==
  ASSUME ChannelsInv, NEW q \in Request, Sent(q), Deliver(q)
  PROVE  ChannelsInv'
<1> USE DEF ChannelsInv
<1>1. PICK c \in Rows, gone \in SUBSET rows :
        LET homes == Moved(home, c, gone)
            scans == Moved(scanChannel, c, gone)
        IN  /\ Found(q, c, gone) /\ ~Referenced(gone)
            /\ Accepts(scans, {q.scan}, c) /\ Accepts(homes, q.videos, c)
            /\ Identify(q, c, gone)
            /\ home' = [v \in Videos |-> IF v \in q.videos THEN c ELSE homes[v]]
            /\ scanChannel' = [scans EXCEPT ![q.scan] = c]
            /\ snapshots' = snapshots \cup ({q.scan} \X q.videos)
            /\ Count(q, {v \in Videos : home[v] # None})
            /\ videoCount' = [videoCount EXCEPT ![q.scan] =
                                Cardinality({v \in Videos : <<q.scan, v>> \in snapshots'})]
            /\ UNCHANGED <<accountVars, studied>>
  BY DEF Deliver
<1> DEFINE homes == Moved(home, c, gone)
           scans == Moved(scanChannel, c, gone)
<1>2. /\ q.account \in Accounts /\ q.handle \in Handles /\ q.scan \in Analyses
      /\ q.videos \subseteq Videos /\ q.handle \in had[q.account]
  BY DEF Request, Sent
<1>3. None \notin rows /\ rows \subseteq Rows /\ None \notin Rows
  BY ChannelsAssumption DEF TypeOK
<1>4. /\ homes \in [Videos -> (rows \ gone) \cup {c, None}]
      /\ scans \in [Analyses -> (rows \ gone) \cup {c, None}]
      /\ \A v \in Videos : homes[v] = IF home[v] \in gone THEN c ELSE home[v]
      /\ \A a \in Analyses : scans[a] = IF scanChannel[a] \in gone THEN c ELSE scanChannel[a]
  <2>1. home \in [Videos -> rows \cup {None}] /\ scanChannel \in [Analyses -> rows \cup {None}]
    BY DEF TypeOK
  <2> QED BY <1>3, <2>1, MovedRef
<1>5. c \notin gone /\ Found(q, c, gone)
  BY <1>1, FoundRow
<1>6. /\ rows' = (rows \ gone) \cup {c} /\ rows' \subseteq Rows
      /\ tid' \in [Rows -> Accounts \cup {None}]
      /\ username' \in [Rows -> Handles \cup {None}]
      /\ tid'[c] = IF q.hasId THEN q.account ELSE tid[c]
      /\ username'[c] = q.handle
      /\ \A d \in Rows \ {c} : d \notin gone => tid'[d] = tid[d] /\ username'[d] = username[d]
      /\ \A d \in gone : tid'[d] = None
      /\ newer' \subseteq rows' \X rows'
  BY <1>1, <1>5, Identified
<1>7. /\ home' = [v \in Videos |-> IF v \in q.videos THEN c ELSE homes[v]]
      /\ scanChannel' = [scans EXCEPT ![q.scan] = c]
      /\ snapshots' = snapshots \cup ({q.scan} \X q.videos)
      /\ UNCHANGED <<handle, had, studied>>
      /\ scans[q.scan] \in {None, c} /\ \A v \in q.videos : homes[v] \in {None, c}
  BY <1>1 DEF accountVars, Accepts
<1> HIDE DEF homes, scans
<1>8. TypeOK'
  <2>1. home' \in [Videos -> rows' \cup {None}] /\ scanChannel' \in [Analyses -> rows' \cup {None}]
    BY <1>2, <1>4, <1>6, <1>7
  <2>2. snapshots' \subseteq Analyses \X Videos
    BY <1>2, <1>7 DEF TypeOK
  <2>3. studied' \subseteq rows'
    BY <1>1, <1>6 DEF Referenced, TypeOK
  <2>4. ASSUME NEW S, S \subseteq Videos PROVE Cardinality(S) \in Nat
    BY <2>4, FS_Subset, FS_CardinalityType, ChannelsAssumption
  <2>5. /\ videosNew' \in [Analyses -> Nat] /\ videosRefreshed' \in [Analyses -> Nat]
        /\ videoCount' \in [Analyses -> Nat]
    <3> DEFINE seen == {v \in q.videos : <<q.scan, v>> \notin snapshots}
               known == {v \in Videos : home[v] # None}
               all == {v \in Videos : <<q.scan, v>> \in snapshots'}
    <3>1. /\ Cardinality(seen \ known) \in Nat /\ Cardinality(seen \cap known) \in Nat
          /\ Cardinality(all) \in Nat
      BY <1>2, <2>4
    <3>2. /\ videosNew' = [videosNew EXCEPT ![q.scan] = @ + Cardinality(seen \ known)]
          /\ videosRefreshed' = [videosRefreshed EXCEPT ![q.scan] = @ + Cardinality(seen \cap known)]
          /\ videoCount' = [videoCount EXCEPT ![q.scan] = Cardinality(all)]
      BY <1>1 DEF Count
    <3> HIDE DEF seen, known, all
    <3> QED BY <1>2, <3>1, <3>2 DEF TypeOK
  <2> QED BY <1>6, <1>7, <2>1, <2>2, <2>3, <2>5 DEF TypeOK
<1>9. RowsClean'
  <2>1. \A d \in Rows \ rows' : tid'[d] = None
    BY <1>3, <1>6 DEF RowsClean
  <2>2. \A d \in rows' : username'[d] \in Handles
    BY <1>2, <1>3, <1>6 DEF RowsClean
  <2>3. ASSUME NEW d \in rows', tid'[d] # None PROVE username'[d] \in had[tid'[d]]
    <3>1. CASE d # c
      BY <1>3, <1>6, <2>3, <3>1 DEF RowsClean
    <3>2. CASE d = c /\ q.hasId
      BY <1>2, <1>6, <3>2
    <3>3. CASE d = c /\ ~q.hasId
      <4>1. c \in rows /\ username[c] = q.handle
        BY <1>5, <1>6, <2>3, <3>3, FoundRow DEF RowsClean, ById
      <4> QED BY <1>6, <2>3, <3>3, <4>1 DEF RowsClean
    <3> QED BY <3>1, <3>2, <3>3
  <2> QED BY <1>7, <2>1, <2>2, <2>3 DEF RowsClean
<1>10. UniqueIdentity'
  <2>1. SUFFICES ASSUME NEW d \in rows', NEW e \in rows', tid'[d] = tid'[e], tid'[d] # None
                 PROVE  d = e
    BY DEF UniqueIdentity
  <2>2. CASE d # c /\ e # c
    BY <1>3, <1>6, <2>1, <2>2 DEF UniqueIdentity
  <2>3. ASSUME NEW f \in rows', f # c, tid'[f] = tid'[c], tid'[c] # None PROVE FALSE
    <3>1. f \in rows /\ tid[f] = tid'[c]
      BY <1>3, <1>6, <2>3
    <3>2. CASE q.hasId
      BY <1>1, <1>6, <2>3, <3>1, <3>2, FoundRow
    <3>3. CASE ~q.hasId
      <4>1. c \in rows
        BY <1>6, <2>3, <3>3 DEF RowsClean
      <4> QED BY <1>6, <2>3, <3>1, <3>3, <4>1 DEF UniqueIdentity
    <3> QED BY <3>2, <3>3
  <2> QED BY <2>1, <2>2, <2>3
<1>11. SnapshotsInChannel'
  <2>1. SUFFICES ASSUME NEW a \in Analyses, NEW v \in Videos, <<a, v>> \in snapshots'
                 PROVE  home'[v] = scanChannel'[a] /\ home'[v] # None
    BY DEF SnapshotsInChannel
  <2>2. CASE a = q.scan /\ v \in q.videos
    BY <1>2, <1>3, <1>4, <1>7, <2>2
  <2>3. CASE <<a, v>> \in snapshots
    <3>1. home[v] = scanChannel[a] /\ home[v] # None
      BY <2>3 DEF SnapshotsInChannel
    <3>2. homes[v] = scans[a] /\ homes[v] # None
      BY <1>3, <1>4, <3>1
    <3> QED BY <1>2, <1>3, <1>4, <1>7, <3>2
  <2> QED BY <1>7, <2>1, <2>2, <2>3
<1> QED BY <1>8, <1>9, <1>10, <1>11

LEMMA NextInv == ChannelsInv /\ [Next]_vars => ChannelsInv'
<1> SUFFICES ASSUME ChannelsInv, [Next]_vars PROVE ChannelsInv'
  OBVIOUS
<1>1. CASE Next
  BY <1>1, RenameInv, StudyInv, DeliverInv DEF Next
<1>2. CASE UNCHANGED vars
  BY <1>2 DEF vars, accountVars, rowVars, corpusVars, ChannelsInv, TypeOK, RowsClean,
     UniqueIdentity, SnapshotsInChannel
<1> QED BY <1>1, <1>2

(* Type correctness: references are to rows that exist. *)
THEOREM ChannelsTypeCorrect == Spec => []TypeOK
<1>1. ChannelsInv => TypeOK
  BY DEF ChannelsInv
<1> QED BY <1>1, InitInv, NextInv, PTL DEF Spec

(* However requests of an account are delayed, repeated and reordered with its
   changes of handle, it never has two rows. *)
THEOREM OneRow == Spec => []UniqueIdentity
<1>1. ChannelsInv => UniqueIdentity
  BY DEF ChannelsInv
<1> QED BY <1>1, InitInv, NextInv, PTL DEF Spec

(* Consolidation never tears a scan from the videos it saw. *)
THEOREM ScansWithVideos == Spec => []SnapshotsInChannel
<1>1. ChannelsInv => SnapshotsInChannel
  BY DEF ChannelsInv
<1> QED BY <1>1, InitInv, NextInv, PTL DEF Spec
-----------------------------------------------------------------------------
(* The counters.  CountedNew stands for the sum of videosNew over the scans: a
   delivery adds one pair to it for every video it makes known. *)

Seen(a) == {v \in Videos : <<a, v>> \in snapshots}

Known == {v \in Videos : home[v] # None}

CountsInv == CountsAgree /\ IsFiniteSet(CountedNew)

LEMMA FiniteVideos ==
  ASSUME NEW S, S \subseteq Videos
  PROVE  IsFiniteSet(S) /\ Cardinality(S) \in Nat
BY FS_Subset, FS_CardinalityType, ChannelsAssumption

LEMMA DisjointUnion ==
  ASSUME NEW S, NEW T, IsFiniteSet(S), IsFiniteSet(T), S \cap T = {}
  PROVE  /\ IsFiniteSet(S \cup T)
         /\ Cardinality(S \cup T) = Cardinality(S) + Cardinality(T)
<1>1. Cardinality(S \cap T) = 0
  BY FS_EmptySet
<1>2. Cardinality(S) \in Nat /\ Cardinality(T) \in Nat
  BY FS_CardinalityType
<1>3. /\ IsFiniteSet(S \cup T)
      /\ Cardinality(S \cup T) = Cardinality(S) + Cardinality(T) - Cardinality(S \cap T)
  BY FS_Union
<1> QED BY <1>1, <1>2, <1>3

LEMMA InitCounts == Init => CountsInv
<1> SUFFICES ASSUME Init PROVE CountsInv
  OBVIOUS
<1>1. /\ \A a \in Analyses : Seen(a) = {} /\ videosNew[a] = 0
      /\ \A a \in Analyses : videosRefreshed[a] = 0 /\ videoCount[a] = 0
      /\ Known = {}
  BY DEF Init, Seen, Known
<1>2. CountedNew = {}
  <2>1. \A a \in Analyses : {a} \X (1 .. videosNew[a]) = {}
    BY <1>1
  <2> QED BY <2>1 DEF CountedNew
<1>3. /\ IsFiniteSet(CountedNew) /\ Cardinality(CountedNew) = 0 /\ Cardinality(Known) = 0
      /\ \A a \in Analyses : Cardinality(Seen(a)) = 0
  BY <1>1, <1>2, FS_EmptySet
<1> QED BY <1>1, <1>3 DEF CountsInv, CountsAgree, Seen, Known

(* A delivery makes its unknown videos known, and numbers them. *)
LEMMA DeliverCounts ==
  ASSUME ChannelsInv, CountsInv, NEW q \in Request, Sent(q), Deliver(q)
  PROVE  CountsInv'
<1> DEFINE s == q.scan
           seen == {v \in q.videos : <<s, v>> \notin snapshots}
           fresh == seen \ Known
           again == seen \cap Known
           numbers == {s} \X (videosNew[s] + 1 .. videosNew[s] + Cardinality(fresh))
<1>1. s \in Analyses /\ q.videos \subseteq Videos
  BY DEF Request
<1>2. PICK c \in Rows, gone \in SUBSET rows :
        /\ home' = [v \in Videos |-> IF v \in q.videos THEN c ELSE Moved(home, c, gone)[v]]
        /\ snapshots' = snapshots \cup ({s} \X q.videos)
        /\ Count(q, Known)
        /\ videoCount' = [videoCount EXCEPT ![s] = Cardinality(Seen(s)')]
  BY DEF Deliver, Known, Seen
<1>3. /\ videosNew \in [Analyses -> Nat] /\ videosRefreshed \in [Analyses -> Nat]
      /\ videoCount \in [Analyses -> Nat] /\ None \notin Rows
      /\ home \in [Videos -> rows \cup {None}] /\ None \notin rows
  BY ChannelsAssumption DEF ChannelsInv, TypeOK
<1>4. /\ videosNew' = [videosNew EXCEPT ![s] = @ + Cardinality(fresh)]
      /\ videosRefreshed' = [videosRefreshed EXCEPT ![s] = @ + Cardinality(again)]
  BY <1>2 DEF Count
<1>5. /\ IsFiniteSet(fresh) /\ Cardinality(fresh) \in Nat
      /\ IsFiniteSet(again) /\ Cardinality(again) \in Nat
      /\ IsFiniteSet(seen) /\ Cardinality(seen) \in Nat
      /\ IsFiniteSet(Known) /\ Cardinality(Known) \in Nat
      /\ IsFiniteSet(Seen(s)) /\ Cardinality(Seen(s)) \in Nat
  BY <1>1, FiniteVideos DEF Known, Seen
<1>6. \A v \in q.videos \ Known : v \in seen
  BY <1>1 DEF ChannelsInv, SnapshotsInChannel, Known
<1>7. Known' = Known \cup fresh
  <2>1. \A v \in Videos : Moved(home, c, gone)[v] = None <=> home[v] = None
    BY <1>3, MovedRef DEF Moved
  <2>2. \A v \in Videos : home'[v] # None <=> v \in q.videos \/ home[v] # None
    BY <1>2, <1>3, <2>1
  <2> QED BY <1>1, <1>6, <2>2 DEF Known
<1>8. Cardinality(Known') = Cardinality(Known) + Cardinality(fresh)
  BY <1>5, <1>7, DisjointUnion
<1>9. Seen(s)' = Seen(s) \cup seen /\ \A a \in Analyses \ {s} : Seen(a)' = Seen(a)
  BY <1>1, <1>2 DEF Seen
<1>10. Cardinality(Seen(s)') = Cardinality(Seen(s)) + (Cardinality(fresh) + Cardinality(again))
  <2>1. Seen(s) \cap seen = {} /\ seen = fresh \cup again /\ fresh \cap again = {}
    BY DEF Seen
  <2>2. Cardinality(seen) = Cardinality(fresh) + Cardinality(again)
    BY <1>5, <2>1, DisjointUnion
  <2>3. Cardinality(Seen(s) \cup seen) = Cardinality(Seen(s)) + Cardinality(seen)
    BY <1>5, <2>1, DisjointUnion
  <2> QED BY <1>9, <2>2, <2>3
<1>11. /\ IsFiniteSet(CountedNew) /\ Cardinality(CountedNew) = Cardinality(Known)
       /\ \A a \in Analyses : /\ videoCount[a] = Cardinality(Seen(a))
                              /\ videosNew[a] + videosRefreshed[a] = videoCount[a]
  BY DEF CountsInv, CountsAgree, Known, Seen
<1> HIDE DEF s, seen, fresh, again
<1>12. CountedNew' = CountedNew \cup numbers /\ CountedNew \cap numbers = {}
  <2>1. \A p : p \in CountedNew <=> \E a \in Analyses : \E i \in 1 .. videosNew[a] : p = <<a, i>>
    BY DEF CountedNew
  <2>2. \A p : p \in CountedNew' <=> \E a \in Analyses : \E i \in 1 .. videosNew'[a] : p = <<a, i>>
    BY DEF CountedNew
  <2>3. \A p : p \in numbers <=>
               \E i \in videosNew[s] + 1 .. videosNew[s] + Cardinality(fresh) : p = <<s, i>>
    OBVIOUS
  <2> HIDE DEF numbers
  <2>4. /\ videosNew'[s] = videosNew[s] + Cardinality(fresh)
        /\ \A a \in Analyses \ {s} : videosNew'[a] = videosNew[a]
        /\ videosNew[s] \in Nat
    BY <1>1, <1>3, <1>4
  <2>5. \A i : i \in 1 .. videosNew'[s] <=>
               \/ i \in 1 .. videosNew[s]
               \/ i \in videosNew[s] + 1 .. videosNew[s] + Cardinality(fresh)
    BY <1>5, <2>4
  <2>6. \A i \in 1 .. videosNew[s] :
          i \notin videosNew[s] + 1 .. videosNew[s] + Cardinality(fresh)
    BY <1>5, <2>4
  <2>7. \A a \in Analyses : \A i : i \in 1 .. videosNew'[a] <=>
            \/ i \in 1 .. videosNew[a]
            \/ a = s /\ i \in videosNew[s] + 1 .. videosNew[s] + Cardinality(fresh)
    BY <2>4, <2>5
  <2>8. \A p : p \in CountedNew' <=> p \in CountedNew \/ p \in numbers
    BY <1>1, <2>1, <2>2, <2>3, <2>7
  <2>9. \A p : ~(p \in CountedNew /\ p \in numbers)
    BY <2>1, <2>3, <2>6
  <2> QED BY <2>8, <2>9
<1>13. IsFiniteSet(numbers) /\ Cardinality(numbers) = Cardinality(fresh)
  <2> DEFINE n == videosNew[s]
             k == Cardinality(fresh)
             range == n + 1 .. n + k
             scan == {s}
  <2>1. n \in Nat /\ k \in Nat
    BY <1>1, <1>3, <1>5
  <2> HIDE DEF n, k
  <2>2. IsFiniteSet(range) /\ Cardinality(range) = k
    <3>1. n + 1 \in Int /\ n + k \in Int
      BY <2>1
    <3>2. /\ IsFiniteSet(range)
          /\ Cardinality(range) = IF n + 1 > n + k THEN 0 ELSE (n + k) - (n + 1) + 1
      BY <3>1, FS_Interval, Zenon
    <3> QED BY <2>1, <3>2
  <2>3. IsFiniteSet(scan) /\ Cardinality(scan) = 1
    BY FS_Singleton
  <2> HIDE DEF range, scan
  <2>4. /\ IsFiniteSet(scan \X range)
        /\ Cardinality(scan \X range) = Cardinality(scan) * Cardinality(range)
    BY <2>2, <2>3, FS_Product, Zenon
  <2>5. IsFiniteSet(scan \X range) /\ Cardinality(scan \X range) = k
    BY <2>1, <2>2, <2>3, <2>4
  <2> QED BY <2>5 DEF n, k, range, scan
<1> HIDE DEF numbers
<1>14. IsFiniteSet(CountedNew') /\ Cardinality(CountedNew') = Cardinality(Known')
  BY <1>8, <1>11, <1>12, <1>13, DisjointUnion
<1>15. ASSUME NEW a \in Analyses
       PROVE  /\ videoCount'[a] = Cardinality(Seen(a)')
              /\ videosNew'[a] + videosRefreshed'[a] = videoCount'[a]
  <2>1. CASE a = s
    BY <1>1, <1>2, <1>3, <1>4, <1>5, <1>10, <1>11, <2>1 DEF s
  <2>2. CASE a # s
    BY <1>1, <1>2, <1>3, <1>4, <1>9, <1>11, <1>15, <2>2 DEF s
  <2> QED BY <2>1, <2>2
<1> QED BY <1>14, <1>15 DEF CountsInv, CountsAgree, Known, Seen

LEMMA NextCounts == ChannelsInv /\ CountsInv /\ [Next]_vars => CountsInv'
<1> SUFFICES ASSUME ChannelsInv, CountsInv, [Next]_vars PROVE CountsInv'
  OBVIOUS
<1>1. ASSUME NEW q \in Request, Sent(q), Deliver(q) PROVE CountsInv'
  BY <1>1, DeliverCounts
<1>2. CASE UNCHANGED corpusVars
  BY <1>2 DEF corpusVars, CountsInv, CountsAgree, CountedNew
<1>3. ASSUME NEW x \in Accounts, NEW h \in Handles, Rename(x, h) PROVE CountsInv'
  BY <1>2, <1>3 DEF Rename
<1>4. ASSUME NEW c \in Rows, Study(c) PROVE CountsInv'
  BY <1>2, <1>4 DEF Study
<1> QED BY <1>1, <1>2, <1>3, <1>4 DEF Next, vars

(* Replayed pages and consolidated rows included, the counters of a scan are what
   it saw, and the scans together count every known video as new once. *)
THEOREM Counters == Spec => []CountsAgree
<1>1. CountsInv => CountsAgree
  BY DEF CountsInv
<1> QED BY <1>1, InitInv, NextInv, InitCounts, NextCounts, PTL DEF Spec
-----------------------------------------------------------------------------
(* The step property CorpusKept checks. *)
Kept ==
  /\ \A v \in Videos : home[v] # None => home'[v] \in rows'
  /\ \A a \in Analyses : scanChannel[a] # None => scanChannel'[a] \in rows'
  /\ \A v, w \in Videos : home[v] = home[w] /\ home[v] # None => home'[v] = home'[w]

LEMMA DeliverKeeps ==
  ASSUME ChannelsInv, NEW q \in Request, Sent(q), Deliver(q)
  PROVE  Kept
<1> USE DEF ChannelsInv
<1>1. PICK c \in Rows, gone \in SUBSET rows :
        LET homes == Moved(home, c, gone)
            scans == Moved(scanChannel, c, gone)
        IN  /\ Found(q, c, gone) /\ Accepts(homes, q.videos, c) /\ Identify(q, c, gone)
            /\ home' = [v \in Videos |-> IF v \in q.videos THEN c ELSE homes[v]]
            /\ scanChannel' = [scans EXCEPT ![q.scan] = c]
  BY DEF Deliver
<1> DEFINE homes == Moved(home, c, gone)
           scans == Moved(scanChannel, c, gone)
<1>2. None \notin rows
  BY ChannelsAssumption DEF TypeOK
<1>3. /\ homes \in [Videos -> (rows \ gone) \cup {c, None}]
      /\ scans \in [Analyses -> (rows \ gone) \cup {c, None}]
      /\ \A v \in Videos : homes[v] = IF home[v] \in gone THEN c ELSE home[v]
      /\ \A a \in Analyses : scans[a] = IF scanChannel[a] \in gone THEN c ELSE scanChannel[a]
  <2>1. home \in [Videos -> rows \cup {None}] /\ scanChannel \in [Analyses -> rows \cup {None}]
    BY DEF TypeOK
  <2> QED BY <1>2, <2>1, MovedRef
<1>4. /\ rows' = (rows \ gone) \cup {c} /\ c # None
      /\ home' = [v \in Videos |-> IF v \in q.videos THEN c ELSE homes[v]]
      /\ scanChannel' = [scans EXCEPT ![q.scan] = c]
      /\ \A v \in q.videos : homes[v] \in {None, c}
  BY <1>1, ChannelsAssumption DEF Accepts, Identify
<1> HIDE DEF homes, scans
<1>5. \A v \in Videos : home[v] # None => home'[v] \in rows'
  BY <1>2, <1>3, <1>4
<1>6. \A a \in Analyses : scanChannel[a] # None => scanChannel'[a] \in rows'
  BY <1>2, <1>3, <1>4
<1>7. ASSUME NEW v \in Videos, NEW w \in Videos, home[v] = home[w], home[v] # None
      PROVE  home'[v] = home'[w]
  <2>1. homes[v] = homes[w] /\ homes[v] # None
    BY <1>3, <1>4, <1>7
  <2> QED BY <1>4, <2>1
<1> QED BY <1>5, <1>6, <1>7 DEF Kept

LEMMA NextKeeps == ChannelsInv /\ [Next]_vars => Kept
<1> SUFFICES ASSUME ChannelsInv, [Next]_vars PROVE Kept
  OBVIOUS
<1>1. ASSUME NEW q \in Request, Sent(q), Deliver(q) PROVE Kept
  BY <1>1, DeliverKeeps
<1>2. CASE UNCHANGED <<rows, home, scanChannel>>
  BY <1>2 DEF ChannelsInv, TypeOK, Kept
<1>3. ASSUME NEW x \in Accounts, NEW h \in Handles, Rename(x, h) PROVE Kept
  BY <1>2, <1>3 DEF Rename, rowVars, corpusVars
<1>4. ASSUME NEW c \in Rows, Study(c) PROVE Kept
  BY <1>2, <1>4 DEF Study, rowVars, corpusVars
<1> QED BY <1>1, <1>2, <1>3, <1>4 DEF Next, vars, rowVars, corpusVars

(* Consolidating rows preserves the corpus. *)
THEOREM Consolidation == Spec => CorpusKept
<1>1. ChannelsInv /\ [Next]_vars => [Kept]_vars
  BY NextKeeps
<1>2. CorpusKept <=> [][Kept]_vars
  BY DEF CorpusKept, Kept
<1> QED BY <1>1, <1>2, InitInv, NextInv, PTL DEF Spec
-----------------------------------------------------------------------------
(* No handle had two accounts. *)
HandlesApart == \A x, y \in Accounts : \A h \in had[x] \cap had[y] : x = y

LEMMA NextApart ==
  ASSUME ~HandleReuse
  PROVE  ChannelsInv /\ HandlesApart /\ [Next]_vars => HandlesApart'
<1> SUFFICES ASSUME ChannelsInv, HandlesApart, [Next]_vars PROVE HandlesApart'
  OBVIOUS
<1>1. ASSUME NEW x \in Accounts, NEW h \in Handles, Rename(x, h) PROVE HandlesApart'
  <2>1. /\ had' = [had EXCEPT ![x] = @ \cup {h}]
        /\ \A y \in Accounts \ {x} : h \notin had[y]
    BY <1>1 DEF Rename
  <2> QED BY <2>1 DEF HandlesApart, ChannelsInv, TypeOK
<1>2. CASE UNCHANGED had
  BY <1>2 DEF HandlesApart
<1>3. ASSUME NEW c \in Rows, Study(c) PROVE HandlesApart'
  BY <1>2, <1>3 DEF Study, accountVars
<1>4. ASSUME NEW q \in Request, Deliver(q) PROVE HandlesApart'
  BY <1>2, <1>4 DEF Deliver, accountVars
<1> QED BY <1>1, <1>2, <1>3, <1>4 DEF Next, vars, accountVars

(* The step property IdentityKept checks. *)
SameIds == \A c \in rows : tid[c] # None => c \in rows' /\ tid'[c] = tid[c]

LEMMA NextSameIds ==
  ChannelsInv /\ HandlesApart /\ [Next]_vars => SameIds
<1> SUFFICES ASSUME ChannelsInv, HandlesApart, [Next]_vars PROVE SameIds
  OBVIOUS
<1>1. ASSUME NEW q \in Request, Sent(q), Deliver(q) PROVE SameIds
  <2>1. PICK c \in Rows, gone \in SUBSET rows : Found(q, c, gone) /\ Identify(q, c, gone)
    BY <1>1 DEF Deliver
  <2>2. /\ c \notin gone /\ \A d \in gone : tid[d] = None
        /\ c \in rows => ById(q) = {c} \/ username[c] = q.handle
    BY <2>1, FoundRow
  <2>3. /\ rows' = (rows \ gone) \cup {c}
        /\ tid'[c] = IF q.hasId THEN q.account ELSE tid[c]
        /\ \A d \in Rows \ {c} : d \notin gone => tid'[d] = tid[d]
    BY <2>1, <2>2, Identified
  <2>4. ASSUME NEW d \in rows, tid[d] # None PROVE d \in rows' /\ tid'[d] = tid[d]
    <3>1. d \notin gone /\ d \in Rows
      BY <2>2, <2>4 DEF ChannelsInv, TypeOK
    <3>2. CASE d = c /\ q.hasId
      <4>1. CASE ById(q) = {c}
        BY <2>3, <3>1, <3>2, <4>1 DEF ById
      <4>2. CASE username[c] = q.handle
        <5>1. q.handle \in had[q.account] /\ q.account \in Accounts
          BY <1>1 DEF Sent, Request
        <5>2. q.handle \in had[tid[c]] /\ tid[c] \in Accounts
          BY <2>4, <3>2, <4>2 DEF ChannelsInv, RowsClean, TypeOK
        <5> QED BY <2>3, <3>1, <3>2, <5>1, <5>2 DEF HandlesApart
      <4> QED BY <2>2, <3>2, <4>1, <4>2
    <3> QED BY <2>3, <3>1, <3>2
  <2> QED BY <2>4 DEF SameIds
<1>2. CASE UNCHANGED <<rows, tid>>
  BY <1>2 DEF SameIds
<1>3. ASSUME NEW x \in Accounts, NEW h \in Handles, Rename(x, h) PROVE SameIds
  BY <1>2, <1>3 DEF Rename, rowVars
<1>4. ASSUME NEW c \in Rows, Study(c) PROVE SameIds
  BY <1>2, <1>4 DEF Study, rowVars
<1> QED BY <1>1, <1>2, <1>3, <1>4 DEF Next, vars, rowVars

(* While no account takes over the handle of another, the numeric id of a row is
   immutable; the run recycled_handle shows that the assumption is needed. *)
THEOREM ImmutableIdentity ==
  ASSUME ~HandleReuse
  PROVE  Spec => IdentityKept
<1>1. Init => HandlesApart
  BY DEF Init, HandlesApart
<1>2. IdentityKept <=> [][SameIds]_vars
  BY DEF IdentityKept, SameIds
<1>3. ChannelsInv /\ HandlesApart /\ [Next]_vars => HandlesApart'
  BY NextApart
<1> QED BY <1>1, <1>2, <1>3, InitInv, NextInv, NextSameIds, PTL DEF Spec

=============================================================================
